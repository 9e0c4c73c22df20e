----------------------------- MODULE Telemetry -----------------------------
(***************************************************************************)
(* The telemetry publisher: requests put events into a bounded in-memory   *)
(* queue without waiting, a background loop sends them to the backend in   *)
(* batches, a failed batch is tried once more and then dropped, and stop() *)
(* ends the loop within five seconds and sends one last batch.             *)
(*                                                                         *)
(* This module holds the publisher and the once-per-request guards of the  *)
(* emitters; a module that models requests composes them (ChatStream).     *)
(* The publisher is there from start-up to the end of stop(): a deployment *)
(* with BACKEND_BASE_URL and a token.  What the backend has got is         *)
(* external.                                                               *)
(***************************************************************************)
EXTENDS Naturals, Sequences, FiniteSets, SequencesExt

CONSTANTS
  Requests,   \* HTTP requests that emit events
  Keys,       \* what a request may report: its CHAT_TURN, blocks, feedback
  Anonymous,  \* requests that came without the X- headers of telemetry
  MaxQueue,   \* capacity of the queue (1000)
  BatchSize   \* events per envelope (20)

ASSUME TelemetryAssumption ==
  /\ Anonymous \subseteq Requests
  /\ MaxQueue \in Nat \ {0}
  /\ BatchSize \in Nat \ {0}

VARIABLES
  emitted,   \* the guards of each request: what it has reported
  queue,     \* _queue
  batch,     \* events popped by _flush_batch and not yet settled
  sender,    \* where the task that flushes is: the loop, then stop()
  stage,     \* the publisher's life
  accepted,  \* history: events enqueue returned True for, in order
  fate,      \* history: how the publisher was done with an event
  sent       \* history: envelopes that carried an event to the backend

publisherVars == <<queue, batch, sender, stage, fate, sent>>
telemetryVars == <<emitted, accepted, publisherVars>>

Events == [request : Requests, key : Keys]

SenderStates == {"check", "wait", "send", "resend", "ended"}
Stages == {"up", "asked", "draining", "stopped"}
Fates == {"none", "over", "cut"}

TelemetryInit ==
  /\ emitted = [r \in Requests |-> {}]
  /\ queue = <<>>
  /\ batch = <<>>
  /\ sender = "check"
  /\ stage = "up"
  /\ accepted = <<>>
  /\ fate = [e \in Events |-> "none"]
  /\ sent = [e \in Events |-> 0]

-----------------------------------------------------------------------------
(* The side of the requests. *)

(* enqueue without its check: a deque with maxlen pushes out its oldest. *)
Enqueue_Unchecked(e) ==
  /\ queue' = IF Len(queue) < MaxQueue THEN Append(queue, e)
                                       ELSE Append(Tail(queue), e)
  /\ accepted' = Append(accepted, e)

(* enqueue: a full queue refuses the event. *)
Enqueue(e) ==
  \/ /\ Len(queue) < MaxQueue
     /\ queue' = Append(queue, e)
     /\ accepted' = Append(accepted, e)
  \/ /\ Len(queue) >= MaxQueue
     /\ UNCHANGED <<queue, accepted>>

(* The guard is never set. *)
EmitOnce_Unmarked(r, k) ==
  /\ r \notin Anonymous
  /\ Enqueue([request |-> r, key |-> k])
  /\ UNCHANGED <<emitted, batch, sender, stage, fate, sent>>

(* emit_..._once: the guard is set whether or not the queue took the event. *)
EmitOnce(r, k) ==
  \/ /\ k \notin emitted[r]
     /\ r \notin Anonymous
     /\ Enqueue([request |-> r, key |-> k])
     /\ emitted' = [emitted EXCEPT ![r] = @ \cup {k}]
     /\ UNCHANGED <<batch, sender, stage, fate, sent>>
  \/ /\ k \in emitted[r] \/ r \in Anonymous
     /\ UNCHANGED telemetryVars

-----------------------------------------------------------------------------
(* The flush loop and stop(). *)

(* The batch goes out once more. *)
SentOnce == [e \in Events |-> IF e \in ToSet(batch) THEN sent[e] + 1 ELSE sent[e]]

(* pop() for popleft(): the newest events go first. *)
Pop_Newest(n) ==
  LET kept == Len(queue) - n
      newest == SubSeq(queue, kept + 1, Len(queue))
  IN /\ batch' = newest
     /\ queue' = SubSeq(queue, 1, kept)
     /\ sent' = [e \in Events |-> IF e \in ToSet(newest) THEN sent[e] + 1 ELSE sent[e]]
     /\ sender' = "send"
     /\ UNCHANGED fate

(* _flush_batch: the batch is popped and sent for the first time. *)
Pop(n) ==
  /\ batch' = SubSeq(queue, 1, n)
  /\ queue' = SubSeq(queue, n + 1, Len(queue))
  /\ sent' = [e \in Events |-> IF e \in ToSet(SubSeq(queue, 1, n)) THEN sent[e] + 1 ELSE sent[e]]
  /\ sender' = "send"
  /\ UNCHANGED fate

TakeBatch == Pop(IF Len(queue) < BatchSize THEN Len(queue) ELSE BatchSize)

(* A full batch is sent at once ... *)
FlushFull ==
  /\ sender = "check" /\ stage = "up"
  /\ Len(queue) >= BatchSize
  /\ TakeBatch
  /\ UNCHANGED stage

(* ... otherwise the loop waits for flush_sec or for stop_event. *)
Wait ==
  /\ sender = "check" /\ stage = "up"
  /\ Len(queue) < BatchSize
  /\ sender' = "wait"
  /\ UNCHANGED <<queue, batch, stage, fate, sent>>

(* Only full batches are sent. *)
FlushDue_FullOnly ==
  /\ sender = "wait"
  /\ \/ Len(queue) >= BatchSize /\ TakeBatch
     \/ /\ Len(queue) < BatchSize
        /\ sender' = "check"
        /\ UNCHANGED <<queue, batch, fate, sent>>
  /\ UNCHANGED stage

(* flush_sec is over; it may be, too, just as stop_event is set. *)
FlushDue ==
  /\ sender = "wait"
  /\ \/ queue # <<>> /\ TakeBatch
     \/ /\ queue = <<>>
        /\ sender' = "check"
        /\ UNCHANGED <<queue, batch, fate, sent>>
  /\ UNCHANGED stage

LoopEnds ==
  /\ sender \in {"check", "wait"} /\ stage = "asked"
  /\ sender' = "ended"
  /\ UNCHANGED <<queue, batch, stage, fate, sent>>

(* The batch is settled: the loop goes on, or stop() is at its end. *)
Settled ==
  /\ fate' = [e \in Events |-> IF e \in ToSet(batch) THEN "over" ELSE fate[e]]
  /\ batch' = <<>>
  /\ \/ stage # "draining" /\ sender' = "check" /\ UNCHANGED stage
     \/ stage = "draining" /\ sender' = "ended" /\ stage' = "stopped"

(* The backend answers 200. *)
SendOk ==
  /\ sender \in {"send", "resend"}
  /\ Settled
  /\ UNCHANGED <<queue, sent>>

(* An error or a timeout, after which the backend may have got the batch   *)
(* all the same: it is sent once more, then dropped.                       *)
SendFails ==
  \/ /\ sender = "send"
     /\ sender' = "resend"
     /\ sent' = SentOnce
     /\ UNCHANGED <<queue, batch, stage, fate>>
  \/ /\ sender = "resend"
     /\ Settled
     /\ UNCHANGED <<queue, sent>>

(* stop(): stop_event is set. *)
AskStop ==
  /\ stage = "up"
  /\ stage' = "asked"
  /\ UNCHANGED <<queue, batch, sender, fate, sent>>

(* wait_for(_flush_task, 5.0) cancels the loop with its batch in flight. *)
StopTimeout ==
  /\ stage = "asked" /\ sender \in {"send", "resend"}
  /\ fate' = [e \in Events |-> IF e \in ToSet(batch) THEN "cut" ELSE fate[e]]
  /\ batch' = <<>>
  /\ sender' = "ended"
  /\ UNCHANGED <<queue, stage, sent>>

(* stop() flushes what is left, once. *)
Drain ==
  /\ stage = "asked" /\ sender = "ended"
  /\ \/ queue # <<>> /\ TakeBatch /\ stage' = "draining"
     \/ /\ queue = <<>>
        /\ stage' = "stopped"
        /\ UNCHANGED <<queue, batch, sender, fate, sent>>

Flush == FlushFull \/ Wait \/ FlushDue \/ LoopEnds \/ SendOk \/ SendFails
         \/ StopTimeout \/ Drain

(* Timers run out and HTTP calls end, by their timeout at the latest. *)
TelemetryFairness == WF_<<emitted, accepted, publisherVars>>(Flush /\ UNCHANGED <<emitted, accepted>>)

-----------------------------------------------------------------------------
TelemetryTypeOK ==
  /\ emitted \in [Requests -> SUBSET Keys]
  /\ queue \in Seq(Events) /\ Len(queue) <= MaxQueue
  /\ batch \in Seq(Events) /\ Len(batch) <= BatchSize
  /\ sender \in SenderStates
  /\ stage \in Stages
  /\ accepted \in Seq(Events)
  /\ fate \in [Events -> Fates]
  /\ sent \in [Events -> Nat]

(* Every event the queue took is in exactly one place: it waits, it is in  *)
(* flight, or the publisher is done with it for one of the reasons the     *)
(* code allows, and it is cut off only by stop().  The deque would drop    *)
(* its oldest event silently if enqueue let it grow past its maxlen.       *)
NothingVanishes ==
  /\ \A e \in ToSet(accepted) :
       Cardinality({i \in DOMAIN queue : queue[i] = e})
       + Cardinality({i \in DOMAIN batch : batch[i] = e})
       + (IF fate[e] = "none" THEN 0 ELSE 1) = 1
  /\ \A e \in Events : fate[e] = "cut" => stage # "up"

(* Batches leave in the order of the events: none is sent while an earlier *)
(* one still waits.                                                        *)
InOrder ==
  \A i, j \in DOMAIN accepted :
    i < j /\ accepted[i] \in ToSet(queue) => accepted[j] \in ToSet(queue)

(* A request reports each thing once, although several places in the chat  *)
(* services emit it.                                                       *)
OncePerRequest == \A i, j \in DOMAIN accepted : accepted[i] = accepted[j] => i = j

(* While an event waits, a batch is under way or will be, however few      *)
(* events there are and whatever the backend answers, until stop() has     *)
(* ended, as it does: with InOrder, every event has its turn.  stop() may  *)
(* leave behind what one last batch does not hold.                         *)
BatchesKeepGoing == queue # <<>> ~> sender = "send" \/ stage = "stopped"
=============================================================================
