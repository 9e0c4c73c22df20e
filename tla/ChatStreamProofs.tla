-------------------------- MODULE ChatStreamProofs --------------------------
(***************************************************************************)
(* Theorems about ChatStream, for all requests, ids and TTLs.              *)
(***************************************************************************)
EXTENDS ChatStream, FiniteSetTheorems, TLAPS

(* The types of the streams and of the tracker.                             *)
StreamTypes ==
  /\ pc \in [Streams -> Places]
  /\ entry \in [Ids -> {"none", "running", "completed"}]
  /\ age \in [Ids -> 0..(TTL + 1)]
  /\ tidy \in BOOLEAN

(* After a cleanup no entry is too old, until time goes on.                 *)
TidyIsFresh == tidy => \A i \in Ids : entry[i] # "none" => age[i] <= TTL

(* A live stream still has the registration it made.                        *)
LiveRegistered ==
  \A s \in Streams : Live(s) => entry[IdOf[s]] = "running" /\ age[IdOf[s]] <= TTL

(* The steps of a stream that change neither the tracker nor the time.      *)
Moves(s) ==
  AskLlm(s) \/ Token(s) \/ LlmFails(s) \/ Done(s) \/ Raises(s) \/ Refused(s) \/ Abandon(s)

(* The steps that end a stream and take its registration back.              *)
Ends(s) == Completed(s) \/ Failed(s) \/ Cancelled(s)

LEMMA NextCases ==
  ASSUME [Next]_vars
  PROVE  \/ \E s \in Streams : Begin(s) \/ Moves(s) \/ Ends(s)
         \/ Tick
         \/ UNCHANGED streamVars
BY DEF Next, StreamStep, Moves, Ends, Report, PublisherStep, Shutdown, vars, streamVars

LEMMA StreamTypesStep == StreamTypes /\ [Next]_vars => StreamTypes'
<1> SUFFICES ASSUME StreamTypes, [Next]_vars PROVE StreamTypes'
  OBVIOUS
<1> USE StreamAssumption DEF StreamTypes
<1>1. ASSUME NEW s \in Streams, Begin(s) PROVE StreamTypes'
  <2>1. Cleaned \in [Ids -> {"none", "running", "completed"}]
    BY DEF Cleaned
  <2>2. IdOf[s] \in Ids /\ 0 \in 0..(TTL + 1)
    OBVIOUS
  <2>3. QED
    BY <1>1, <2>1, <2>2 DEF Begin, Places, Yields
<1>2. ASSUME NEW s \in Streams, Moves(s) PROVE StreamTypes'
  BY <1>2 DEF Moves, AskLlm, Token, LlmFails, Done, Raises, Refused, Abandon, Goto,
              Places, Yields
<1>3. ASSUME NEW s \in Streams, Ends(s) PROVE StreamTypes'
  BY <1>3 DEF Ends, Completed, Failed, Cancelled, CompleteRequest, CancelRequest, Goto,
              Places, Yields
<1>4. CASE Tick
  <2>1. \A i \in Ids : age[i] <= TTL => age[i] + 1 \in 0..(TTL + 1)
    OBVIOUS
  <2>2. age' \in [Ids -> 0..(TTL + 1)]
    BY <1>4, <2>1 DEF Tick
  <2>3. QED
    BY <1>4, <2>2 DEF Tick
<1>5. CASE UNCHANGED streamVars
  BY <1>5 DEF streamVars
<1>6. QED
  BY <1>1, <1>2, <1>3, <1>4, <1>5, NextCases

LEMMA TidyStep == StreamTypes /\ TidyIsFresh /\ [Next]_vars => TidyIsFresh'
<1> SUFFICES ASSUME StreamTypes, TidyIsFresh, [Next]_vars PROVE TidyIsFresh'
  OBVIOUS
<1> USE StreamAssumption DEF StreamTypes, TidyIsFresh
<1>1. ASSUME NEW s \in Streams, Begin(s) PROVE TidyIsFresh'
  <2>1. /\ Cleaned \in [Ids -> {"none", "running", "completed"}]
        /\ \A i \in Ids : Cleaned[i] # "none" => age[i] <= TTL
    BY DEF Cleaned, Expired
  <2>2. QED
    BY <1>1, <2>1 DEF Begin
<1>2. ASSUME NEW s \in Streams, Moves(s) PROVE TidyIsFresh'
  BY <1>2 DEF Moves, AskLlm, Token, LlmFails, Done, Raises, Refused, Abandon
<1>3. ASSUME NEW s \in Streams, Ends(s) PROVE TidyIsFresh'
  BY <1>3 DEF Ends, Completed, Failed, Cancelled, CompleteRequest, CancelRequest
<1>4. CASE Tick
  BY <1>4 DEF Tick
<1>5. CASE UNCHANGED streamVars
  BY <1>5 DEF streamVars
<1>6. QED
  BY <1>1, <1>2, <1>3, <1>4, <1>5, NextCases

(* What blocks a repeated request is never older than the TTL.              *)
THEOREM RefusedSafe == Spec => RefusedForFreshOnly
<1>1. Init => StreamTypes /\ TidyIsFresh
  <2>1. 0 \in 0..(TTL + 1)
    BY StreamAssumption
  <2>2. QED
    BY <2>1 DEF Init, StreamTypes, TidyIsFresh, Places, Yields
<1>2. ASSUME StreamTypes, TidyIsFresh, [Next]_vars
      PROVE  [\A s \in Streams : pc'[s] = "duplicate" /\ pc[s] # "duplicate"
                                   => age[IdOf[s]] <= TTL]_vars
  <2> SUFFICES ASSUME NEW s \in Streams, pc'[s] = "duplicate", pc[s] # "duplicate"
               PROVE  age[IdOf[s]] <= TTL
    OBVIOUS
  <2> USE StreamAssumption DEF StreamTypes
  <2>1. ASSUME NEW z \in Streams, Begin(z) PROVE age[IdOf[s]] <= TTL
    <3>1. z = s /\ InFlight(IdOf[s])
      BY <1>2, <2>1 DEF Begin
    <3>2. entry[IdOf[s]] # "none" /\ ~Expired(IdOf[s])
      BY <3>1 DEF InFlight, Cleaned
    <3>3. QED
      BY <1>2, <3>2 DEF Expired, TidyIsFresh
  <2>2. ~\E z \in Streams : Moves(z) \/ Ends(z)
    BY <1>2 DEF Moves, AskLlm, Token, LlmFails, Done, Raises, Refused, Abandon, Ends, Completed,
           Failed, Cancelled, Goto
  <2>3. ~Tick /\ ~UNCHANGED streamVars
    BY DEF Tick, streamVars
  <2>4. QED
    BY <1>2, <2>1, <2>2, <2>3, NextCases
<1>3. QED
  BY <1>1, <1>2, StreamTypesStep, TidyStep, PTL DEF Spec, RefusedForFreshOnly

-----------------------------------------------------------------------------
(* No stream takes the registration of another one, as long as it ends      *)
(* before its entry is too old: registrations and live streams match.       *)
LEMMA OneStreamStep ==
  ASSUME "slow" \notin Faults
  PROVE  StreamTypes /\ LiveRegistered /\ OneStreamPerId /\ [Next]_vars
           => LiveRegistered' /\ OneStreamPerId'
<1> SUFFICES ASSUME StreamTypes, LiveRegistered, OneStreamPerId, [Next]_vars
             PROVE  LiveRegistered' /\ OneStreamPerId'
  OBVIOUS
<1> USE StreamAssumption DEF StreamTypes
<1>1. ASSUME NEW s \in Streams, Begin(s) PROVE LiveRegistered' /\ OneStreamPerId'
  <2>1. \A z \in Streams : Live(z) => InFlight(IdOf[z])
    BY DEF LiveRegistered, InFlight, Cleaned, Expired
  <2>2. CASE InFlight(IdOf[s])
    <3>1. \A z \in Streams : Live(z)' => Live(z)
      BY <1>1, <2>2 DEF Begin, Live
    <3>2. QED
      BY <1>1, <2>1, <2>2, <3>1 DEF Begin, LiveRegistered, OneStreamPerId, InFlight
  <2>3. CASE ~InFlight(IdOf[s])
    <3>1. \A z \in Streams \ {s} : Live(z)' <=> Live(z)
      BY <1>1 DEF Begin, Live
    <3>2. \A z \in Streams : Live(z) => IdOf[z] # IdOf[s]
      BY <2>1, <2>3
    <3>3. entry'[IdOf[s]] = "running" /\ age'[IdOf[s]] = 0
      BY <1>1, <2>3 DEF Begin, Cleaned
    <3>4. \A i \in Ids \ {IdOf[s]} : entry'[i] = Cleaned[i] /\ age'[i] = age[i]
      BY <1>1, <2>3 DEF Begin, Cleaned
    <3>5. LiveRegistered'
      BY <2>1, <3>1, <3>2, <3>3, <3>4 DEF LiveRegistered, InFlight
    <3>6. QED
      BY <3>1, <3>2, <3>5 DEF OneStreamPerId
  <2>4. QED
    BY <2>2, <2>3
<1>2. ASSUME NEW s \in Streams, Moves(s) PROVE LiveRegistered' /\ OneStreamPerId'
  <2>1. UNCHANGED <<entry, age>> /\ \A z \in Streams : Live(z)' => Live(z)
    BY <1>2 DEF Moves, AskLlm, Token, LlmFails, Done, Raises, Refused, Abandon, Goto, Live,
                Yields
  <2>2. QED
    BY <2>1 DEF LiveRegistered, OneStreamPerId
<1>3. ASSUME NEW s \in Streams, Ends(s) PROVE LiveRegistered' /\ OneStreamPerId'
  <2>1. /\ Live(s) /\ ~Live(s)'
        /\ \A z \in Streams : Live(z)' => Live(z)
        /\ \A i \in Ids \ {IdOf[s]} : entry'[i] = entry[i]
        /\ UNCHANGED age
    BY <1>3 DEF Ends, Completed, Failed, Cancelled, CompleteRequest, CancelRequest, Goto, Live
  <2>2. QED
    BY <2>1 DEF LiveRegistered, OneStreamPerId
<1>4. CASE Tick
  BY <1>4 DEF Tick, LiveRegistered, OneStreamPerId, Live
<1>5. CASE UNCHANGED streamVars
  BY <1>5 DEF streamVars, LiveRegistered, OneStreamPerId, Live
<1>6. QED
  BY <1>1, <1>2, <1>3, <1>4, <1>5, NextCases

(* If no stream outlives the TTL, a request id has one running stream,      *)
(* however often it is repeated, canceled or abandoned.                     *)
THEOREM OneStreamSafe ==
  ASSUME "slow" \notin Faults
  PROVE  Spec => []OneStreamPerId
<1>1. Init => StreamTypes /\ LiveRegistered /\ OneStreamPerId
  <2>1. 0 \in 0..(TTL + 1)
    BY StreamAssumption
  <2>2. QED
    BY <2>1 DEF Init, StreamTypes, LiveRegistered, OneStreamPerId, Live, Places, Yields
<1>2. QED
  BY <1>1, StreamTypesStep, OneStreamStep, PTL DEF Spec

-----------------------------------------------------------------------------
(* What the queue accepted was marked in the guards of its request.         *)
MarkedInv ==
  /\ emitted \in [Requests -> SUBSET Keys]
  /\ accepted \in Seq(Events)
  /\ \A i \in DOMAIN accepted : accepted[i].key \in emitted[accepted[i].request]

(* The only steps that touch the guards or the history are emissions.       *)
LEMMA EmissionCases ==
  ASSUME [Next]_vars
  PROVE  \/ \E r \in Requests, k \in Keys : EmitOnce(r, k)
         \/ UNCHANGED <<emitted, accepted>>
BY StreamAssumption
   DEF Next, StreamStep, Begin, AskLlm, Token, LlmFails, Done, Raises, Completed, Failed,
       Refused, Cancelled, Abandon, Report, PublisherStep, Tick, Shutdown, vars, telemetryVars

LEMMA MarkedStep ==
  MarkedInv /\ OncePerRequest /\ [Next]_vars => MarkedInv' /\ OncePerRequest'
<1> SUFFICES ASSUME MarkedInv, OncePerRequest, [Next]_vars PROVE MarkedInv' /\ OncePerRequest'
  OBVIOUS
<1> USE DEF MarkedInv, OncePerRequest
<1>1. ASSUME NEW r \in Requests, NEW k \in Keys, EmitOnce(r, k)
      PROVE  MarkedInv' /\ OncePerRequest'
  <2> DEFINE e == [request |-> r, key |-> k]
  <2>1. e \in Events /\ e.request = r /\ e.key = k
    BY DEF Events
  <2>2. CASE UNCHANGED <<emitted, accepted>>
    BY <2>2
  <2>3. CASE k \notin emitted[r] /\ emitted' = [emitted EXCEPT ![r] = @ \cup {k}]
             /\ UNCHANGED accepted
    BY <2>3
  <2>4. CASE k \notin emitted[r] /\ emitted' = [emitted EXCEPT ![r] = @ \cup {k}]
             /\ accepted' = Append(accepted, e)
    <3>1. \A i \in DOMAIN accepted : accepted[i] # e
      BY <2>1, <2>4
    <3>2. /\ accepted' \in Seq(Events)
          /\ DOMAIN accepted' = 1..(Len(accepted) + 1)
          /\ DOMAIN accepted = 1..Len(accepted)
          /\ accepted'[Len(accepted) + 1] = e
          /\ \A i \in 1..Len(accepted) : accepted'[i] = accepted[i]
      BY <2>1, <2>4
    <3>3. \A i \in DOMAIN accepted' : i \in DOMAIN accepted \/ i = Len(accepted) + 1
      BY <3>2
    <3>4. \A i \in DOMAIN accepted : accepted[i] \in Events
      BY <3>2
    <3>5. \A i \in DOMAIN accepted : accepted[i].request \in Requests
      BY <3>4 DEF Events
    <3>6. MarkedInv'
      BY <2>1, <2>4, <3>2, <3>3, <3>5
    <3>7. OncePerRequest'
      <4>1. \A i, j \in DOMAIN accepted' : accepted'[i] = accepted'[j] => i = j
        <5>1. SUFFICES ASSUME NEW i \in DOMAIN accepted', NEW j \in DOMAIN accepted',
                              accepted'[i] = accepted'[j]
                       PROVE  i = j
          OBVIOUS
        <5>2. CASE i \in DOMAIN accepted /\ j \in DOMAIN accepted
          BY <5>1, <5>2, <3>2
        <5>3. CASE i = Len(accepted) + 1 \/ j = Len(accepted) + 1
          BY <5>1, <5>3, <3>1, <3>2, <3>3
        <5>4. QED
          BY <5>2, <5>3, <3>3
      <4>2. QED
        BY <4>1
    <3>8. QED
      BY <3>6, <3>7
  <2>5. QED
    BY <1>1, <2>2, <2>3, <2>4 DEF EmitOnce, Enqueue, telemetryVars
<1>2. CASE UNCHANGED <<emitted, accepted>>
  BY <1>2
<1>3. QED
  BY <1>1, <1>2, EmissionCases

(* Wherever a request emits and however often, the queue accepts each thing *)
(* it has to report once.                                                   *)
THEOREM OnceSafe == Spec => []OncePerRequest
<1>1. Init => MarkedInv /\ OncePerRequest
  BY DEF Init, TelemetryInit, MarkedInv, OncePerRequest
<1>2. QED
  BY <1>1, MarkedStep, PTL DEF Spec

-----------------------------------------------------------------------------
(* The steps of the publisher, whatever the streams do meanwhile.           *)
LEMMA PublisherCases ==
  ASSUME [Next]_vars
  PROVE  \/ \E r \in Requests, k \in Keys : EmitOnce(r, k)
         \/ Flush /\ UNCHANGED <<emitted, accepted>>
         \/ AskStop /\ UNCHANGED <<emitted, accepted>>
         \/ UNCHANGED telemetryVars
BY StreamAssumption
   DEF Next, StreamStep, Begin, AskLlm, Token, LlmFails, Done, Raises, Completed, Failed,
       Refused, Cancelled, Abandon, Report, PublisherStep, Tick, Shutdown, vars

(* A batch is what the queue begins with; nothing is left out between them. *)
LEMMA BatchTaken ==
  ASSUME TelemetryTypeOK, TakeBatch
  PROVE  \E n \in 0..BatchSize :
           /\ n <= Len(queue) /\ Pop(n)
           /\ batch' \in Seq(Events) /\ Len(batch') = n
           /\ queue' \in Seq(Events) /\ Len(queue') = Len(queue) - n
           /\ \A i \in 1..n : batch'[i] = queue[i]
           /\ \A i \in 1..(Len(queue) - n) : queue'[i] = queue[n + i]
<1> DEFINE n == IF Len(queue) < BatchSize THEN Len(queue) ELSE BatchSize
<1>1. n \in 0..BatchSize /\ n <= Len(queue) /\ Pop(n) /\ queue \in Seq(Events)
  BY TelemetryAssumption DEF TakeBatch, TelemetryTypeOK
<1> HIDE DEF n
<1>2. batch' = SubSeq(queue, 1, n) /\ queue' = SubSeq(queue, n + 1, Len(queue))
  BY <1>1 DEF Pop
<1>3. /\ batch' \in Seq(Events) /\ Len(batch') = n
      /\ queue' \in Seq(Events) /\ Len(queue') = Len(queue) - n
  BY <1>1, <1>2
<1>4. \A i \in 1..n : batch'[i] = queue[i]
  BY <1>1, <1>2
<1>5. \A i \in 1..(Len(queue) - n) : queue'[i] = queue[n + i]
  BY <1>1, <1>2
<1>6. QED
  BY <1>1, <1>3, <1>4, <1>5

LEMMA TelemetryTypeStep == TelemetryTypeOK /\ [Next]_vars => TelemetryTypeOK'
<1> SUFFICES ASSUME TelemetryTypeOK, [Next]_vars PROVE TelemetryTypeOK'
  OBVIOUS
<1> USE TelemetryAssumption
<1>1. ASSUME NEW r \in Requests, NEW k \in Keys, EmitOnce(r, k) PROVE TelemetryTypeOK'
  <2>1. [request |-> r, key |-> k] \in Events
    BY DEF Events
  <2>2. CASE UNCHANGED telemetryVars
    BY <2>2 DEF telemetryVars, publisherVars, TelemetryTypeOK
  <2>3. CASE /\ Enqueue([request |-> r, key |-> k])
             /\ emitted' = [emitted EXCEPT ![r] = @ \cup {k}]
             /\ UNCHANGED <<batch, sender, stage, fate, sent>>
    <3>1. emitted' \in [Requests -> SUBSET Keys]
      BY <2>3 DEF TelemetryTypeOK
    <3>2. /\ queue' \in Seq(Events) /\ Len(queue') <= MaxQueue
          /\ accepted' \in Seq(Events)
      <4> DEFINE e == [request |-> r, key |-> k]
      <4>1. \/ Len(queue) < MaxQueue /\ queue' = Append(queue, e) /\ accepted' = Append(accepted, e)
            \/ UNCHANGED <<queue, accepted>>
        BY <2>3 DEF Enqueue
      <4>2. e \in Events
        BY <2>1
      <4> HIDE DEF e
      <4>3. CASE Len(queue) < MaxQueue /\ queue' = Append(queue, e) /\ accepted' = Append(accepted, e)
        <5>1. /\ queue' \in Seq(Events) /\ Len(queue') = Len(queue) + 1
              /\ accepted' \in Seq(Events)
          BY <4>2, <4>3 DEF TelemetryTypeOK
        <5>2. QED
          BY <4>3, <5>1 DEF TelemetryTypeOK
      <4>4. CASE UNCHANGED <<queue, accepted>>
        BY <4>4 DEF TelemetryTypeOK
      <4>5. QED
        BY <4>1, <4>3, <4>4
    <3>3. QED
      BY <2>3, <3>1, <3>2 DEF TelemetryTypeOK
  <2>4. QED
    BY <1>1, <2>2, <2>3 DEF EmitOnce
<1>2. ASSUME TakeBatch, stage' \in Stages, UNCHANGED <<emitted, accepted>> PROVE TelemetryTypeOK'
  <2>1. sent' \in [Events -> Nat] /\ sender' \in SenderStates /\ fate' = fate
    BY <1>2 DEF TakeBatch, Pop, TelemetryTypeOK, SenderStates
  <2>2. QED
    BY <1>2, <2>1, BatchTaken DEF TelemetryTypeOK
<1>3. ASSUME batch' = <<>>, UNCHANGED <<emitted, accepted, queue, sent>>,
             sender' \in SenderStates, stage' \in Stages,
             \E f \in Fates : fate' = [e \in Events |-> IF e \in ToSet(batch) THEN f ELSE fate[e]]
      PROVE  TelemetryTypeOK'
  BY <1>3 DEF TelemetryTypeOK
<1>4. CASE Flush /\ UNCHANGED <<emitted, accepted>>
  <2>1. CASE FlushFull \/ FlushDue
    BY <1>2, <1>4, <2>1 DEF FlushFull, FlushDue, TelemetryTypeOK, SenderStates
  <2>2. CASE Wait \/ LoopEnds
    BY <1>4, <2>2 DEF Wait, LoopEnds, TelemetryTypeOK, SenderStates
  <2>3. CASE SendOk \/ StopTimeout
    BY <1>3, <1>4, <2>3 DEF SendOk, Settled, StopTimeout, TelemetryTypeOK, SenderStates, Stages, Fates
  <2>4. CASE SendFails
    <3>1. SentOnce \in [Events -> Nat]
      BY DEF SentOnce, TelemetryTypeOK
    <3>2. QED
      BY <1>3, <1>4, <2>4, <3>1 DEF SendFails, Settled, TelemetryTypeOK, SenderStates, Stages, Fates
  <2>5. CASE Drain
    <3>1. stage' \in Stages /\ (TakeBatch \/ UNCHANGED <<queue, batch, sender, fate, sent>>)
      BY <2>5 DEF Drain, Stages
    <3>2. CASE TakeBatch
      BY <1>2, <1>4, <3>1, <3>2
    <3>3. CASE UNCHANGED <<queue, batch, sender, fate, sent>>
      BY <1>4, <3>1, <3>3 DEF TelemetryTypeOK
    <3>4. QED
      BY <3>1, <3>2, <3>3
  <2>6. QED
    BY <1>4, <2>1, <2>2, <2>3, <2>4, <2>5 DEF Flush
<1>5. CASE AskStop /\ UNCHANGED <<emitted, accepted>>
  BY <1>5 DEF AskStop, TelemetryTypeOK, Stages
<1>6. CASE UNCHANGED telemetryVars
  BY <1>6 DEF telemetryVars, publisherVars, TelemetryTypeOK
<1>7. QED
  BY <1>1, <1>4, <1>5, <1>6, PublisherCases

(* Streams, tracker and publisher stay in their types; the queue never      *)
(* outgrows its capacity nor a batch its size.                              *)
THEOREM TypeCorrect == Spec => []TypeOK
<1>1. Init => TelemetryTypeOK /\ StreamTypes
  <2>1. 0 \in 0..(TTL + 1)
    BY StreamAssumption
  <2>2. TelemetryInit => TelemetryTypeOK
    <3>1. <<>> \in Seq(Events) /\ Len(<<>>) = 0
      OBVIOUS
    <3>2. QED
      BY <3>1, TelemetryAssumption DEF TelemetryInit, TelemetryTypeOK, SenderStates, Stages, Fates
  <2>3. QED
    BY <2>1, <2>2 DEF Init, StreamTypes, Places, Yields
<1>2. TelemetryTypeOK /\ StreamTypes => TypeOK
  BY DEF StreamTypes, TypeOK
<1>3. QED
  BY <1>1, <1>2, TelemetryTypeStep, StreamTypesStep, PTL DEF Spec

-----------------------------------------------------------------------------
(* InOrder and NothingVanishes.  The events accepted so far form one line:  *)
(* those the publisher is done with, then the batch in flight, then the     *)
(* queue, each part in the order of acceptance and nothing between them.    *)

Gone == Len(accepted) - Len(queue) - Len(batch)

Line ==
  /\ Len(queue) + Len(batch) <= Len(accepted)
  /\ \A i \in 1..Len(batch) : batch[i] = accepted[Gone + i]
  /\ \A i \in 1..Len(queue) : queue[i] = accepted[Gone + Len(batch) + i]

Settlement == \A e \in Events : fate[e] # "none" <=> \E i \in 1..Gone : accepted[i] = e

InFlightOnly == sender \notin {"send", "resend"} => batch = <<>>

CutByStop == \A e \in Events : fate[e] = "cut" => stage # "up"

LineInv == Line /\ Settlement /\ InFlightOnly /\ CutByStop

(* An event the queue takes is new, and the last of the line.               *)
LEMMA AcceptKeepsLine ==
  ASSUME TelemetryTypeOK, LineInv, NEW e \in Events,
         \A i \in 1..Len(accepted) : accepted[i] # e,
         queue' = Append(queue, e), accepted' = Append(accepted, e),
         UNCHANGED <<batch, sender, stage, fate>>
  PROVE  LineInv'
<1>1. /\ queue \in Seq(Events) /\ batch \in Seq(Events) /\ accepted \in Seq(Events)
      /\ Len(queue) \in Nat /\ Len(batch) \in Nat /\ Len(accepted) \in Nat
  BY DEF TelemetryTypeOK
<1>2. /\ Len(queue') = Len(queue) + 1 /\ Len(accepted') = Len(accepted) + 1
      /\ queue'[Len(queue) + 1] = e /\ accepted'[Len(accepted) + 1] = e
      /\ \A i \in 1..Len(queue) : queue'[i] = queue[i]
      /\ \A i \in 1..Len(accepted) : accepted'[i] = accepted[i]
  BY <1>1
<1>3. Gone' = Gone /\ Gone \in Nat /\ Gone + Len(batch) + Len(queue) = Len(accepted)
  BY <1>1, <1>2 DEF Gone, LineInv, Line
<1>4. Line'
  <2>1. ASSUME NEW i \in 1..Len(batch) PROVE batch[i] = accepted'[Gone + i]
    <3>1. Gone + i \in 1..Len(accepted)
      BY <1>1, <1>3
    <3>2. batch[i] = accepted[Gone + i]
      BY DEF LineInv, Line
    <3>3. QED
      BY <1>2, <3>1, <3>2
  <2>2. ASSUME NEW i \in 1..Len(queue') PROVE queue'[i] = accepted'[Gone + Len(batch) + i]
    <3>1. CASE i \in 1..Len(queue)
      <4>1. Gone + Len(batch) + i \in 1..Len(accepted)
        BY <1>1, <1>3, <3>1
      <4>2. queue[i] = accepted[Gone + Len(batch) + i]
        BY <3>1 DEF LineInv, Line
      <4>3. QED
        BY <1>2, <3>1, <4>1, <4>2
    <3>2. CASE i = Len(queue) + 1
      <4>1. Gone + Len(batch) + i = Len(accepted) + 1
        BY <1>1, <1>3, <3>2
      <4>2. QED
        BY <1>2, <3>2, <4>1
    <3>3. \A x \in 1..(Len(queue) + 1) : x \in 1..Len(queue) \/ x = Len(queue) + 1
      BY <1>1
    <3>4. i \in 1..(Len(queue) + 1)
      BY <1>2
    <3>5. QED
      BY <3>1, <3>2, <3>3, <3>4, Zenon
  <2>3. batch' = batch /\ Len(queue') + Len(batch) <= Len(accepted')
    BY <1>1, <1>2, <1>3
  <2>4. QED
    BY <1>3, <2>1, <2>2, <2>3 DEF Line
<1>5. Settlement'
  BY <1>1, <1>2, <1>3 DEF LineInv, Settlement
<1>6. QED
  BY <1>4, <1>5 DEF LineInv, InFlightOnly, CutByStop

(* What is popped stays in the line: it moves from the queue to the batch.  *)
LEMMA PopKeepsLine ==
  ASSUME TelemetryTypeOK, LineInv, sender \notin {"send", "resend"}, TakeBatch,
         UNCHANGED accepted, stage' = "up" => stage = "up"
  PROVE  LineInv'
<1>1. /\ queue \in Seq(Events) /\ accepted \in Seq(Events) /\ batch = <<>> /\ Len(batch) = 0
      /\ Len(queue) \in Nat /\ Len(accepted) \in Nat
  BY DEF TelemetryTypeOK, LineInv, InFlightOnly
<1>2. PICK n \in 0..BatchSize :
           /\ n <= Len(queue) /\ Pop(n)
           /\ batch' \in Seq(Events) /\ Len(batch') = n
           /\ queue' \in Seq(Events) /\ Len(queue') = Len(queue) - n
           /\ \A i \in 1..n : batch'[i] = queue[i]
           /\ \A i \in 1..(Len(queue) - n) : queue'[i] = queue[n + i]
  BY BatchTaken
<1>3. n \in Nat
  BY <1>2, TelemetryAssumption
<1>4. Gone' = Gone /\ Gone = Len(accepted) - Len(queue) /\ Gone \in Nat
  BY <1>1, <1>2, <1>3 DEF Gone, LineInv, Line
<1>5. \A i \in 1..Len(queue) : queue[i] = accepted[Gone + i]
  <2>1. Gone + Len(batch) = Gone
    BY <1>1, <1>4
  <2>2. \A i \in 1..Len(queue) : queue[i] = accepted[Gone + Len(batch) + i]
    BY DEF LineInv, Line
  <2>3. QED
    BY <2>1, <2>2
<1>6. Line'
  <2>1. \A i \in 1..n : batch'[i] = accepted[Gone + i]
    <3>1. \A i \in 1..n : i \in 1..Len(queue)
      BY <1>1, <1>2, <1>3
    <3>2. QED
      BY <1>2, <1>5, <3>1
  <2>2. \A i \in 1..(Len(queue) - n) : queue'[i] = accepted[Gone + n + i]
    <3>1. ASSUME NEW i \in 1..(Len(queue) - n) PROVE queue'[i] = accepted[Gone + n + i]
      <4>1. n + i \in 1..Len(queue) /\ Gone + (n + i) = Gone + n + i
        BY <1>1, <1>3, <1>4
      <4>2. QED
        BY <1>2, <1>5, <4>1
    <3>2. QED
      BY <3>1
  <2>3. QED
    BY <1>1, <1>2, <1>3, <1>4, <2>1, <2>2 DEF LineInv, Line
<1>7. fate' = fate /\ sender' = "send"
  BY <1>2 DEF Pop
<1>8. QED
  BY <1>4, <1>6, <1>7 DEF LineInv, Settlement, InFlightOnly, CutByStop

(* A batch that is done with joins those before it, whatever became of it.  *)
LEMMA SettleKeepsLine ==
  ASSUME TelemetryTypeOK, LineInv, NEW f \in {"over", "cut"},
         fate' = [e \in Events |-> IF e \in ToSet(batch) THEN f ELSE fate[e]],
         batch' = <<>>, UNCHANGED <<accepted, queue>>,
         f = "cut" => stage' # "up", stage' = "up" => stage = "up"
  PROVE  LineInv'
<1>1. /\ queue \in Seq(Events) /\ batch \in Seq(Events) /\ accepted \in Seq(Events)
      /\ Len(queue) \in Nat /\ Len(batch) \in Nat /\ Len(accepted) \in Nat /\ Len(batch') = 0
  BY DEF TelemetryTypeOK
<1>2. Gone' = Gone + Len(batch) /\ Gone \in Nat
  BY <1>1 DEF Gone, LineInv, Line
<1>3. Line'
  BY <1>1, <1>2 DEF LineInv, Line
<1>4. Settlement'
  <2>1. \A e \in Events : e \in ToSet(batch) <=> \E i \in 1..Len(batch) : batch[i] = e
    BY <1>1 DEF ToSet
  <2>2. \A e \in Events : e \in ToSet(batch) <=> \E i \in 1..Len(batch) : accepted[Gone + i] = e
    BY <2>1 DEF LineInv, Line
  <2>3. ASSUME NEW e \in Events
        PROVE  (\E i \in 1..(Gone + Len(batch)) : accepted[i] = e)
                 <=> e \in ToSet(batch) \/ \E i \in 1..Gone : accepted[i] = e
    <3>1. ASSUME NEW i \in 1..(Gone + Len(batch)), accepted[i] = e, i \notin 1..Gone
          PROVE  e \in ToSet(batch)
      <4>1. i - Gone \in 1..Len(batch) /\ Gone + (i - Gone) = i
        BY <1>1, <1>2, <3>1
      <4>2. QED
        BY <2>2, <3>1, <4>1
    <3>2. \A i \in 1..Len(batch) : Gone + i \in 1..(Gone + Len(batch))
      BY <1>1, <1>2
    <3>3. \A i \in 1..Gone : i \in 1..(Gone + Len(batch))
      BY <1>1, <1>2
    <3>4. QED
      BY <2>2, <3>1, <3>2, <3>3
  <2>4. \A e \in Events : fate'[e] # "none" <=> e \in ToSet(batch) \/ fate[e] # "none"
    OBVIOUS
  <2>5. QED
    BY <1>2, <2>3, <2>4 DEF LineInv, Settlement
<1>5. CutByStop'
  BY DEF LineInv, CutByStop
<1>6. QED
  BY <1>3, <1>4, <1>5 DEF LineInv, InFlightOnly

LEMMA LineStep ==
  TelemetryTypeOK /\ MarkedInv /\ LineInv /\ [Next]_vars => LineInv'
<1> SUFFICES ASSUME TelemetryTypeOK, MarkedInv, LineInv, [Next]_vars PROVE LineInv'
  OBVIOUS
<1>1. ASSUME NEW r \in Requests, NEW k \in Keys, EmitOnce(r, k) PROVE LineInv'
  <2> DEFINE e == [request |-> r, key |-> k]
  <2>1. e \in Events /\ e.request = r /\ e.key = k
    BY DEF Events
  <2>2. CASE UNCHANGED <<queue, accepted, batch, sender, stage, fate>>
    BY <2>2 DEF LineInv, Line, Settlement, InFlightOnly, CutByStop, Gone
  <2>3. CASE /\ k \notin emitted[r] /\ UNCHANGED <<batch, sender, stage, fate>>
             /\ queue' = Append(queue, e) /\ accepted' = Append(accepted, e)
    <3>1. \A i \in 1..Len(accepted) : accepted[i] # e
      BY <2>1, <2>3 DEF MarkedInv
    <3>2. QED
      BY <2>1, <2>3, <3>1, AcceptKeepsLine
  <2>4. QED
    BY <1>1, <2>2, <2>3 DEF EmitOnce, Enqueue, telemetryVars, publisherVars
<1>2. ASSUME UNCHANGED <<queue, accepted, batch, fate>>, stage' = "up" => stage = "up",
             sender' \in {"send", "resend"} \/ sender \notin {"send", "resend"}
      PROVE  LineInv'
  BY <1>2 DEF LineInv, Line, Settlement, InFlightOnly, CutByStop, Gone
<1>3. ASSUME Settled, UNCHANGED <<queue, accepted>> PROVE LineInv'
  BY <1>3, SettleKeepsLine DEF Settled
<1>4. CASE Flush /\ UNCHANGED <<emitted, accepted>>
  <2>1. CASE FlushFull
    BY <1>4, <2>1, PopKeepsLine DEF FlushFull
  <2>2. CASE FlushDue
    BY <1>2, <1>4, <2>2, PopKeepsLine DEF FlushDue
  <2>3. CASE Wait \/ LoopEnds
    BY <1>2, <1>4, <2>3 DEF Wait, LoopEnds
  <2>4. CASE SendOk \/ SendFails
    BY <1>2, <1>3, <1>4, <2>4 DEF SendOk, SendFails
  <2>5. CASE StopTimeout
    BY <1>4, <2>5, SettleKeepsLine DEF StopTimeout
  <2>6. CASE Drain
    BY <1>2, <1>4, <2>6, PopKeepsLine DEF Drain
  <2>7. QED
    BY <1>4, <2>1, <2>2, <2>3, <2>4, <2>5, <2>6 DEF Flush
<1>5. CASE AskStop /\ UNCHANGED <<emitted, accepted>>
  BY <1>2, <1>5 DEF AskStop
<1>6. CASE UNCHANGED telemetryVars
  BY <1>2, <1>6 DEF telemetryVars, publisherVars
<1>7. QED
  BY <1>1, <1>4, <1>5, <1>6, PublisherCases

LEMMA LineAlways == Spec => [](TelemetryTypeOK /\ OncePerRequest /\ LineInv)
<1>1. Init => TelemetryTypeOK /\ MarkedInv /\ OncePerRequest /\ LineInv
  <2>1. <<>> \in Seq(Events) /\ Len(<<>>) = 0
    OBVIOUS
  <2>2. TelemetryInit => TelemetryTypeOK
    BY <2>1, TelemetryAssumption DEF TelemetryInit, TelemetryTypeOK, SenderStates, Stages, Fates
  <2>3. TelemetryInit => MarkedInv /\ OncePerRequest
    BY DEF TelemetryInit, MarkedInv, OncePerRequest
  <2>4. TelemetryInit => LineInv
    BY <2>1 DEF TelemetryInit, LineInv, Line, Settlement, InFlightOnly, CutByStop, Gone
  <2>5. QED
    BY <2>2, <2>3, <2>4 DEF Init
<1>2. QED
  BY <1>1, TelemetryTypeStep, MarkedStep, LineStep, PTL DEF Spec

(* The line has an accepted event at one place only, which says where it is.*)
LEMMA PlaceOfEvent ==
  ASSUME TelemetryTypeOK, OncePerRequest, LineInv, NEW k \in 1..Len(accepted)
  PROVE  /\ {i \in DOMAIN queue : queue[i] = accepted[k]}
              = IF k > Gone + Len(batch) THEN {k - (Gone + Len(batch))} ELSE {}
         /\ {i \in DOMAIN batch : batch[i] = accepted[k]}
              = IF k > Gone /\ k <= Gone + Len(batch) THEN {k - Gone} ELSE {}
         /\ fate[accepted[k]] # "none" <=> k <= Gone
<1>1. /\ queue \in Seq(Events) /\ batch \in Seq(Events) /\ accepted \in Seq(Events)
      /\ Len(queue) \in Nat /\ Len(batch) \in Nat /\ Len(accepted) \in Nat
      /\ DOMAIN queue = 1..Len(queue) /\ DOMAIN batch = 1..Len(batch)
      /\ accepted[k] \in Events
  BY DEF TelemetryTypeOK
<1>2. Gone \in Nat /\ Gone + Len(batch) + Len(queue) = Len(accepted)
  BY <1>1 DEF Gone, LineInv, Line
<1>3. \A i \in 1..Len(accepted) : accepted[i] = accepted[k] <=> i = k
  BY <1>1 DEF OncePerRequest
<1>4. \A i \in 1..Len(queue) : queue[i] = accepted[k] <=> i = k - (Gone + Len(batch))
  <2>1. \A i \in 1..Len(queue) : /\ Gone + Len(batch) + i \in 1..Len(accepted)
                                 /\ queue[i] = accepted[Gone + Len(batch) + i]
    BY <1>1, <1>2 DEF LineInv, Line
  <2>2. QED
    BY <1>1, <1>2, <1>3, <2>1
<1>5. \A i \in 1..Len(batch) : batch[i] = accepted[k] <=> i = k - Gone
  <2>1. \A i \in 1..Len(batch) : /\ Gone + i \in 1..Len(accepted)
                                 /\ batch[i] = accepted[Gone + i]
    BY <1>1, <1>2 DEF LineInv, Line
  <2>2. QED
    BY <1>1, <1>2, <1>3, <2>1
<1>6. k - (Gone + Len(batch)) \in 1..Len(queue) <=> k > Gone + Len(batch)
  BY <1>1, <1>2
<1>7. k - Gone \in 1..Len(batch) <=> k > Gone /\ k <= Gone + Len(batch)
  BY <1>1, <1>2
<1>8. fate[accepted[k]] # "none" <=> \E i \in 1..Gone : accepted[i] = accepted[k]
  BY <1>1 DEF LineInv, Settlement
<1>9. (\E i \in 1..Gone : accepted[i] = accepted[k]) <=> k <= Gone
  BY <1>1, <1>2, <1>3
<1>10. QED
  BY <1>1, <1>4, <1>5, <1>6, <1>7, <1>8, <1>9

(* Every event the queue took waits, is in flight or is settled, and in     *)
(* exactly one of these places; only stop() cuts one off.                   *)
THEOREM NothingVanishesSafe == Spec => []NothingVanishes
<1>1. ASSUME TelemetryTypeOK, OncePerRequest, LineInv, NEW e \in ToSet(accepted)
      PROVE  Cardinality({i \in DOMAIN queue : queue[i] = e})
             + Cardinality({i \in DOMAIN batch : batch[i] = e})
             + (IF fate[e] = "none" THEN 0 ELSE 1) = 1
  <2>1. PICK k \in 1..Len(accepted) : e = accepted[k]
    BY <1>1 DEF ToSet, TelemetryTypeOK
  <2>2. Cardinality({}) = 0 /\ \A x : Cardinality({x}) = 1
    BY FS_EmptySet, FS_Singleton
  <2>3. Gone \in Nat /\ Len(batch) \in Nat
    BY <1>1 DEF Gone, LineInv, Line, TelemetryTypeOK
  <2> DEFINE waiting == {i \in DOMAIN queue : queue[i] = e}
             flying == {i \in DOMAIN batch : batch[i] = e}
  <2>4. /\ waiting = IF k > Gone + Len(batch) THEN {k - (Gone + Len(batch))} ELSE {}
        /\ flying = IF k > Gone /\ k <= Gone + Len(batch) THEN {k - Gone} ELSE {}
        /\ fate[e] # "none" <=> k <= Gone
    BY <1>1, <2>1, PlaceOfEvent
  <2> SUFFICES Cardinality(waiting) + Cardinality(flying) + (IF fate[e] = "none" THEN 0 ELSE 1) = 1
    OBVIOUS
  <2> HIDE DEF waiting, flying
  <2>5. CASE k <= Gone
    <3>1. waiting = {} /\ flying = {} /\ fate[e] # "none"
      BY <2>1, <2>3, <2>4, <2>5
    <3>2. Cardinality(waiting) = 0 /\ Cardinality(flying) = 0
      BY <2>2, <3>1, Zenon
    <3>3. QED
      BY <3>1, <3>2
  <2>6. CASE k > Gone /\ k <= Gone + Len(batch)
    <3>1. waiting = {} /\ flying = {k - Gone} /\ fate[e] = "none"
      BY <2>1, <2>3, <2>4, <2>6
    <3>2. Cardinality(waiting) = 0 /\ Cardinality(flying) = 1
      BY <2>2, <3>1, Zenon
    <3>3. QED
      BY <3>1, <3>2
  <2>7. CASE k > Gone + Len(batch)
    <3>1. waiting = {k - (Gone + Len(batch))} /\ flying = {} /\ fate[e] = "none"
      BY <2>1, <2>3, <2>4, <2>7
    <3>2. Cardinality(waiting) = 1 /\ Cardinality(flying) = 0
      BY <2>2, <3>1, Zenon
    <3>3. QED
      BY <3>1, <3>2
  <2>8. QED
    BY <2>1, <2>3, <2>5, <2>6, <2>7
<1>2. TelemetryTypeOK /\ OncePerRequest /\ LineInv => NothingVanishes
  BY <1>1 DEF NothingVanishes, LineInv, CutByStop
<1>3. QED
  BY <1>2, LineAlways, PTL

(* No event is sent while one accepted before it still waits.               *)
THEOREM InOrderSafe == Spec => []InOrder
<1>1. ASSUME TelemetryTypeOK, OncePerRequest, LineInv,
             NEW i \in DOMAIN accepted, NEW j \in DOMAIN accepted,
             i < j, accepted[i] \in ToSet(queue)
      PROVE  accepted[j] \in ToSet(queue)
  <2>1. /\ i \in 1..Len(accepted) /\ j \in 1..Len(accepted)
        /\ Gone + Len(batch) \in Int
    BY <1>1 DEF TelemetryTypeOK, Gone
  <2>2. \E x \in DOMAIN queue : queue[x] = accepted[i]
    BY <1>1 DEF ToSet
  <2>3. i > Gone + Len(batch)
    BY <1>1, <2>1, <2>2, PlaceOfEvent
  <2>4. j - (Gone + Len(batch)) \in {x \in DOMAIN queue : queue[x] = accepted[j]}
    <3>1. j > Gone + Len(batch)
      BY <1>1, <2>1, <2>3
    <3>2. QED
      BY <1>1, <2>1, <3>1, PlaceOfEvent
  <2>5. QED
    BY <2>4 DEF ToSet
<1>2. TelemetryTypeOK /\ OncePerRequest /\ LineInv => InOrder
  BY <1>1 DEF InOrder
<1>3. QED
  BY <1>2, LineAlways, PTL
-----------------------------------------------------------------------------
(* A client that goes while it is written to is all that keeps a turn from  *)
(* being reported: completed, failed and canceled streams all report it.    *)
THEOREM TurnReportedSafe ==
  ASSUME "abandon" \notin Faults
  PROVE  Spec => TurnReported
<1>1. ASSUME TypeOK, [Next]_vars, NEW s \in Streams \ Anonymous, Live(s), ~Live(s)'
      PROVE  "CHAT_TURN" \in emitted'[s]
  <2>1. s \in Streams /\ s \in Requests /\ s \notin Anonymous
    BY StreamAssumption
  <2>2. pc' # pc
    BY <1>1 DEF Live
  <2>3. PICK z \in Streams : StreamStep(z)
    BY <1>1, <2>2 DEF Next, Report, PublisherStep, Tick, Shutdown, vars, streamVars
  <2>4. pc'[s] # pc[s] /\ pc'[s] \notin {"meta", "llm", "token", "llmError", "done", "error"}
    BY <1>1 DEF Live
  <2>5. z = s
    <3>1. \E place : pc' = [pc EXCEPT ![z] = place]
      BY <2>3 DEF StreamStep, Begin, AskLlm, Token, LlmFails, Done, Raises, Completed, Failed,
                  Refused, Cancelled, Abandon, Goto
    <3>2. QED
      BY <1>1, <2>1, <2>4, <3>1 DEF TypeOK
  <2>6. Ends(s)
    BY <1>1, <2>1, <2>3, <2>4, <2>5
       DEF Ends, StreamStep, Begin, AskLlm, Token, LlmFails, Done, Raises, Refused, Abandon, Goto,
           TypeOK, Live
  <2>7. EmitOnce(s, "CHAT_TURN")
    BY <2>6 DEF Ends, Completed, Failed, Cancelled
  <2>8. QED
    <3>1. emitted[s] \subseteq emitted'[s]
          /\ ("CHAT_TURN" \in emitted[s] \/ "CHAT_TURN" \in emitted'[s])
      BY <1>1, <2>1, <2>7 DEF EmitOnce, telemetryVars, TypeOK, TelemetryTypeOK
    <3>2. QED
      BY <3>1
<1>2. TypeOK /\ [Next]_vars =>
        [\A s \in Streams \ Anonymous :
           Live(s) /\ ~Live(s)' => "CHAT_TURN" \in emitted'[s]]_vars
  BY <1>1
<1>3. QED
  BY <1>2, TypeCorrect, PTL DEF Spec, TurnReported
=============================================================================
