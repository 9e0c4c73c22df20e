----------------------------- MODULE MCSourceSet -----------------------------
(* Values of the source-set pipeline's constants for TLC. *)
EXTENDS SourceSet, TLC

CONSTANTS s1, s2, d1, d2

(* Two sets that share a document. *)
Shared == (s1 :> {d1, d2}) @@ (s2 :> {d2})
(* One set of one document and one without any. *)
OneEmpty == (s1 :> {d1}) @@ (s2 :> {})

(* One set of one document. *)
Single == s1 :> {d1}
=============================================================================
