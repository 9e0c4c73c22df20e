------------------------- MODULE RenderJobLifecycle -------------------------
(***************************************************************************)
(* What the render job runner promises when jobs are only created for a    *)
(* video and canceled: QUEUED -> PROCESSING -> COMPLETED | FAILED, a       *)
(* cancellation fails an active job for good, and at most one job of a     *)
(* video is rendered at a time.                                            *)
(***************************************************************************)
CONSTANTS
  Jobs,      \* job ids
  VideoOf    \* the video each job renders

VARIABLES
  phase,     \* the status a client sees
  rendering  \* jobs an executor is working for

avars == <<phase, rendering>>

Active(j) == phase[j] \in {"QUEUED", "PROCESSING"}

Init ==
  /\ phase = [j \in Jobs |-> "NONE"]
  /\ rendering = {}

Accept(j) ==
  /\ phase[j] = "NONE"
  /\ \A i \in Jobs : VideoOf[i] = VideoOf[j] => ~Active(i) /\ i \notin rendering
  /\ phase' = [phase EXCEPT ![j] = "QUEUED"]
  /\ rendering' = rendering \cup {j}

Start(j) ==
  /\ j \in rendering
  /\ phase[j] = "QUEUED"
  /\ phase' = [phase EXCEPT ![j] = "PROCESSING"]
  /\ UNCHANGED rendering

(* The executor ends, and with it the work for the job. *)
End(j) ==
  /\ j \in rendering
  /\ phase[j] = "PROCESSING"
  /\ \E p \in {"COMPLETED", "FAILED"} : phase' = [phase EXCEPT ![j] = p]
  /\ rendering' = rendering \ {j}

Cancel(j) ==
  /\ Active(j)
  /\ phase' = [phase EXCEPT ![j] = "FAILED"]
  /\ rendering' = rendering \ {j}

Next == \E j \in Jobs : Accept(j) \/ Start(j) \/ End(j) \/ Cancel(j)

Spec == Init /\ [][Next]_avars

=============================================================================
