---------------------------- MODULE MCChatStream ----------------------------
(* Instances of ChatStream for TLC. *)
EXTENDS ChatStream

(* Every stream has the same id: a client that repeats its request. *)
MCIdOf == [s \in Streams |-> CHOOSE i \in Ids : TRUE]
=============================================================================
