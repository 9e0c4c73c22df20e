----------------------------- MODULE ChatStream -----------------------------
(***************************************************************************)
(* Streamed chat answers and their telemetry.  A request carries an id the *)
(* client chose; a tracker in memory refuses a second stream of an id that *)
(* is under way and forgets entries after a TTL.  A stream is a generator: *)
(* it is suspended at each event it yields, where the response is written  *)
(* and the client may be found gone, and it waits for the LLM in between.  *)
(* Every way it handles its end reports the turn to the telemetry          *)
(* publisher, whose queue it shares with all other requests.               *)
(*                                                                         *)
(* The LLM, the client and the passage of time are external.  A tick is    *)
(* longer than the tracker's cleanup interval (60 s) and than every        *)
(* timeout of the publisher.                                               *)
(***************************************************************************)
EXTENDS Telemetry

CONSTANTS
  Streams,  \* the requests that stream, among Requests
  Ids,      \* request_id values
  IdOf,     \* [Streams -> Ids]
  TTL,      \* ticks an entry of the tracker lives (600 s)
  Faults    \* what may go wrong, see FaultKinds

FaultKinds ==
  {"abandon",  \* a client goes while the response is written to it
   "slow"}     \* a stream outlives the TTL

ASSUME StreamAssumption ==
  /\ Streams \subseteq Requests
  /\ IdOf \in [Streams -> Ids]
  /\ TTL \in Nat \ {0}
  /\ Faults \subseteq FaultKinds
  /\ "CHAT_TURN" \in Keys

VARIABLES
  pc,      \* where a stream is: the event it is suspended at, or "llm"
  entry,   \* _requests: "none", "running" or "completed"
  age,     \* ticks since started_at
  tidy     \* a cleanup ran less than CLEANUP_INTERVAL ago

streamVars == <<pc, entry, age, tidy>>
vars == <<streamVars, telemetryVars>>

Yields == {"meta", "token", "llmError", "done", "error", "duplicate"}
Places == Yields \cup {"idle", "llm", "ended", "abandoned"}

(* Streams that hold a registration of their id. *)
Live(s) == pc[s] \in {"meta", "llm", "token", "llmError", "done", "error"}

Init ==
  /\ TelemetryInit
  /\ pc = [s \in Streams |-> "idle"]
  /\ entry = [i \in Ids |-> "none"]
  /\ age = [i \in Ids |-> 0]
  /\ tidy = FALSE

-----------------------------------------------------------------------------
(* The tracker. *)

(* _cleanup_expired, when it is due: completed or not, an old entry goes. *)
Expired(i) == ~tidy /\ entry[i] # "none" /\ age[i] > TTL

Cleaned == [i \in Ids |-> IF Expired(i) THEN "none" ELSE entry[i]]

(* is_in_flight, start_request *)
InFlight(i) == Cleaned[i] = "running"

(* start_request and the first event: meta or the refusal. *)
Begin(s) ==
  /\ stage = "up"
  /\ pc[s] = "idle"
  /\ tidy' = TRUE
  /\ \/ /\ InFlight(IdOf[s])
        /\ pc' = [pc EXCEPT ![s] = "duplicate"]
        /\ entry' = Cleaned
        /\ UNCHANGED age
     \/ /\ ~InFlight(IdOf[s])
        /\ pc' = [pc EXCEPT ![s] = "meta"]
        /\ entry' = [Cleaned EXCEPT ![IdOf[s]] = "running"]
        /\ age' = [age EXCEPT ![IdOf[s]] = 0]
  /\ UNCHANGED telemetryVars

(* complete_request and cancel_request go by the id, whoever registered it. *)
CompleteRequest(i) ==
  entry' = [entry EXCEPT ![i] = IF @ = "none" THEN "none" ELSE "completed"]

CancelRequest(i) == entry' = [entry EXCEPT ![i] = "none"]

-----------------------------------------------------------------------------
(* The generator. *)

Goto(s, place) == pc' = [pc EXCEPT ![s] = place]

(* The client took the event, and the generator runs on to the LLM. *)
AskLlm(s) ==
  /\ pc[s] \in {"meta", "token"}
  /\ Goto(s, "llm")
  /\ UNCHANGED <<entry, age, tidy, telemetryVars>>

Token(s) ==
  /\ pc[s] = "llm"
  /\ Goto(s, "token")
  /\ UNCHANGED <<entry, age, tidy, telemetryVars>>

(* An HTTP error or a timeout of the LLM is an event of the stream ... *)
LlmFails(s) ==
  /\ pc[s] = "llm"
  /\ Goto(s, "llmError")
  /\ UNCHANGED <<entry, age, tidy, telemetryVars>>

(* ... after which the stream is done, as it is when the LLM has answered. *)
Done(s) ==
  /\ pc[s] \in {"llm", "llmError"}
  /\ Goto(s, "done")
  /\ UNCHANGED <<entry, age, tidy, telemetryVars>>

(* Any other exception while the LLM's answer is read. *)
Raises(s) ==
  /\ pc[s] = "llm"
  /\ Goto(s, "error")
  /\ UNCHANGED <<entry, age, tidy, telemetryVars>>

(* The end after done, after error, and after the refusal. *)
Completed(s) ==
  /\ pc[s] = "done"
  /\ CompleteRequest(IdOf[s])
  /\ EmitOnce(s, "CHAT_TURN")
  /\ Goto(s, "ended")
  /\ UNCHANGED <<age, tidy>>

Failed(s) ==
  /\ pc[s] = "error"
  /\ CancelRequest(IdOf[s])
  /\ EmitOnce(s, "CHAT_TURN")
  /\ Goto(s, "ended")
  /\ UNCHANGED <<age, tidy>>

(* The refused stream unregisters the id, as the other ends do. *)
Refused_Cancels(s) ==
  /\ pc[s] = "duplicate"
  /\ CancelRequest(IdOf[s])
  /\ Goto(s, "ended")
  /\ UNCHANGED <<age, tidy, telemetryVars>>

Refused(s) ==
  /\ pc[s] = "duplicate"
  /\ Goto(s, "ended")
  /\ UNCHANGED <<entry, age, tidy, telemetryVars>>

(* The client goes while the LLM is awaited: CancelledError in the generator. *)
Cancelled(s) ==
  /\ pc[s] = "llm"
  /\ CancelRequest(IdOf[s])
  /\ EmitOnce(s, "CHAT_TURN")
  /\ Goto(s, "ended")
  /\ UNCHANGED <<age, tidy>>

(* The client goes while an event is written: stream_with_disconnect_check *)
(* leaves its loop, or is canceled outside the generator.  Closing the     *)
(* generator raises GeneratorExit in it, which no handler catches.         *)
Abandon(s) ==
  /\ "abandon" \in Faults
  /\ pc[s] \in Yields
  /\ Goto(s, "abandoned")
  /\ UNCHANGED <<entry, age, tidy, telemetryVars>>

(* Requests that do not stream: the chat and feedback endpoints. *)
Report(r, k) ==
  /\ stage = "up"
  /\ r \in Requests \ Streams
  /\ EmitOnce(r, k)
  /\ UNCHANGED streamVars

(* Unless a stream is slow, it ends before its entry is too old. *)
Tick ==
  /\ \E i \in Ids : entry[i] # "none" /\ age[i] <= TTL
  /\ "slow" \notin Faults => \A s \in Streams : Live(s) => age[IdOf[s]] < TTL
  /\ age' = [i \in Ids |-> IF entry[i] # "none" /\ age[i] <= TTL THEN age[i] + 1 ELSE age[i]]
  /\ tidy' = FALSE
  /\ UNCHANGED <<pc, entry, telemetryVars>>

(* The server ends its requests before lifespan runs stop(). *)
Shutdown ==
  /\ \A s \in Streams : pc[s] \in {"idle", "ended", "abandoned"}
  /\ AskStop
  /\ UNCHANGED <<emitted, accepted, streamVars>>

StreamStep(s) ==
  Begin(s) \/ AskLlm(s) \/ Token(s) \/ LlmFails(s) \/ Done(s) \/ Raises(s)
  \/ Completed(s) \/ Failed(s) \/ Refused(s) \/ Cancelled(s) \/ Abandon(s)

PublisherStep == Flush /\ UNCHANGED <<emitted, accepted, streamVars>>

Next ==
  \/ \E s \in Streams : StreamStep(s)
  \/ \E r \in Requests, k \in Keys : Report(r, k)
  \/ PublisherStep
  \/ Tick
  \/ Shutdown

Spec == Init /\ [][Next]_vars
FairSpec == Spec /\ TelemetryFairness

-----------------------------------------------------------------------------
TypeOK ==
  /\ TelemetryTypeOK
  /\ pc \in [Streams -> Places]
  /\ entry \in [Ids -> {"none", "running", "completed"}]
  /\ age \in [Ids -> 0..(TTL + 1)]
  /\ tidy \in BOOLEAN

(* Two streams of one id never run at once: a client that repeats a        *)
(* request, again and again, while it is answered, is refused.  The        *)
(* tracker goes by the id alone, so no stream may end another's entry.     *)
OneStreamPerId ==
  \A s, z \in Streams : Live(s) /\ Live(z) /\ IdOf[s] = IdOf[z] => s = z

(* A request is refused only for an entry that is not older than the TTL:  *)
(* the entry that an abandoned stream leaves does not block its id for     *)
(* ever, for it is cleaned up when the id is asked for again.              *)
RefusedForFreshOnly ==
  [][\A s \in Streams : pc'[s] = "duplicate" /\ pc[s] # "duplicate"
                          => age[IdOf[s]] <= TTL]_vars

(* A stream that was registered reports its turn when it is over, whether  *)
(* it is completed, fails or is canceled (chat_stream_service.py:180).  A   *)
(* client that goes while it is written to breaks it.                       *)
TurnReported ==
  [][\A s \in Streams \ Anonymous :
       Live(s) /\ ~Live(s)' => "CHAT_TURN" \in emitted'[s]]_vars
=============================================================================
