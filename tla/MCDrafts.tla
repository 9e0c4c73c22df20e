------------------------------ MODULE MCDrafts ------------------------------
(* Values of the drafting services' constants for TLC: batches of two items *)
(* under every kind of configuration, and quizzes made next to each other.  *)
EXTENDS Drafts, TLC

CONSTANTS i1, i2, q1, q2, b1, b2

MCDocs ==
  {[dataset |-> "policy", pii |-> FALSE], [dataset |-> "policy", pii |-> TRUE],
   [dataset |-> "other", pii |-> FALSE]}
MCDatasetsOf == [d \in Domains |-> IF d = "POLICY" THEN {"policy"} ELSE {}]

Ask(question, given) ==
  [question |-> question, sure |-> TRUE, domain |-> "POLICY", given |-> given]

Searching == Ask("plain", {})
Doubtful  == [Searching EXCEPT !.sure = FALSE]
Elsewhere == [Searching EXCEPT !.domain = "INCIDENT"]
Given(d)  == Ask("plain", {d})

Two(slots, a, b) == [slots |-> slots, item |-> (i1 :> a @@ i2 :> b)]

MCBatches ==
  {NoBatch, Two(2, Searching, Searching), Two(1, Doubtful, Elsewhere)}
  \cup {Two(1, Searching, Ask(k, {})) : k \in Questions \ {"plain"}}
  \cup {Two(2, Searching, Given(d)) : d \in MCDocs}

Usual ==
  [pii |-> TRUE, milvus |-> TRUE, filter |-> TRUE, field |-> TRUE, rules |-> TRUE,
   fuzzy |-> TRUE, strict |-> FALSE]

MCSettings ==
  {Usual, [Usual EXCEPT !.strict = TRUE, !.field = FALSE],
   [Usual EXCEPT !.pii = FALSE, !.rules = FALSE], [Usual EXCEPT !.milvus = FALSE]}

MCWorkloads ==
  [batch : MCBatches \ {NoBatch}, quizzes : {{}}, gaps : {{}}]
  \cup [batch : {NoBatch}, quizzes : {Quizzes}, gaps : {{}}]
  \cup [batch : {NoBatch}, quizzes : {{}}, gaps : {Gaps}]

MCBlocksOf == q1 :> {b1} @@ q2 :> {b1, b2}
MCExcluded == q1 :> {} @@ q2 :> {"old"}

Sound(stem) ==
  [stem |-> stem, long |-> TRUE, options |-> 2, correct |-> 1, blank |-> FALSE,
   block |-> b1, keyed |-> TRUE, found |-> {b1}]

MCMade ==
  {Sound("new"), Sound("old"), [Sound("new") EXCEPT !.block = b2, !.found = {b2}],
   [Sound("new") EXCEPT !.found = {}], [Sound("new") EXCEPT !.keyed = FALSE, !.found = {}],
   [Sound("new") EXCEPT !.correct = 2], [Sound("new") EXCEPT !.blank = TRUE]}
=============================================================================
