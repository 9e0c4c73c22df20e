--------------------------- MODULE MCVideoProgress ---------------------------
(* Values of the video progress constants for TLC: a training and the id    *)
(* its reissue gets, whose prefix makes it mandatory.                       *)
EXTENDS VideoProgress

CONSTANTS ann, last, this

MCPairs == {<<ann, this>>}

MCReissueOf == [e \in Trainings |-> this]
=============================================================================
