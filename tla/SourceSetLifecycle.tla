------------------------- MODULE SourceSetLifecycle -------------------------
(***************************************************************************)
(* What the start call and the callbacks promise the backend about a       *)
(* source set: CREATED -> LOCKED -> SCRIPT_READY | FAILED, with scene      *)
(* patches on the way to SCRIPT_READY only.                                *)
(***************************************************************************)
CONSTANT Sets
VARIABLE status

Init == status = [s \in Sets |-> "CREATED"]

Lock(s) ==
  /\ status[s] = "CREATED"
  /\ status' = [status EXCEPT ![s] = "LOCKED"]

Patch(s) ==
  /\ status[s] \in {"LOCKED", "SCRIPT_GENERATING"}
  /\ status' = [status EXCEPT ![s] = "SCRIPT_GENERATING"]

Settle(s) ==
  \/ /\ status[s] \in {"LOCKED", "SCRIPT_GENERATING"}
     /\ status' = [status EXCEPT ![s] = "SCRIPT_READY"]
  \/ /\ status[s] = "LOCKED"
     /\ status' = [status EXCEPT ![s] = "FAILED"]

Next == \E s \in Sets : Lock(s) \/ Patch(s) \/ Settle(s)

Spec == Init /\ [][Next]_status

FairSpec == Spec /\ \A s \in Sets : WF_status(Settle(s))
=============================================================================
