-------------------------- MODULE MCRenderPipeline --------------------------
(* Values of the render pipeline's constants for TLC: watched executions    *)
(* one at a time with each renderer and storage, and executions of the same *)
(* job that overlap.                                                        *)
EXTENDS RenderPipeline, TLC

MCVideoOf == [j \in Jobs |-> CHOOSE v \in Videos : TRUE]
MCWatches == [w \in Sockets |-> CHOOSE v \in Videos : TRUE]

CONSTANTS t1, t2

Watched(renderer, signed, calls) ==
  [renderer |-> renderer, signed |-> signed, tasks |-> {t1}, sockets |-> Sockets,
   calls |-> calls]

MCSetups ==
  {Watched("mvp", FALSE, {"restart"}),
   Watched("real", FALSE, {"cancel"}),
   Watched("real", TRUE, {}),
   [renderer |-> "mvp", signed |-> FALSE, tasks |-> {t1, t2}, sockets |-> {},
    calls |-> {}]}
=============================================================================
