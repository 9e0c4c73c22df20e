----------------------------- MODULE MCRenderJob -----------------------------
(* Instances of RenderJob for TLC. *)
EXTENDS RenderJob, TLC

(* Every job renders the same video, so that jobs compete for it. *)
MCVideoOf == [j \in Jobs |-> CHOOSE v \in Videos : TRUE]

(* Tasks are interchangeable, and so are the callers of start_job. *)
ActorSymmetry == Permutations(Tasks) \cup Permutations(Callers)
=============================================================================
