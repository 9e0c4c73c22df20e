--------------------------- MODULE RagIngestProofs ---------------------------
(***************************************************************************)
(* Theorems about RagIngest, for all documents, versions, TTLs and sizes.  *)
(***************************************************************************)
EXTENDS RagIngest, FiniteSetTheorems, TLAPS

(* A post leaves every other entry as it was or drops it.                   *)
LEMMA MarkKeepsOrDrops ==
  ASSUME TypeOK, NEW k \in Keys, MarkProcessing(k)
  PROVE  /\ entry' \in [Keys -> Statuses]
         /\ age' \in [Keys -> 0..(CTTL + 1)]
         /\ \A e \in Keys : entry'[e] \in Outcomes => entry'[e] = entry[e]
<1> USE ConstantsAssumption DEF TypeOK, Statuses, Outcomes
<1>1. PICK old \in Evicted(k) :
        entry' = [e \in Keys |->
                    CASE e = k -> "PROCESSING"
                      [] e \in old -> "NONE"
                      [] OTHER -> Cleaned[e]]
  BY DEF MarkProcessing
<1>2. \A e \in Keys : Cleaned[e] \in {entry[e], "NONE"}
  BY DEF Cleaned
<1>3. age' \in [Keys -> 0..(CTTL + 1)]
  BY DEF MarkProcessing
<1>4. QED
  BY <1>1, <1>2, <1>3

(* The variables stay in their types: ages saturate one tick past the TTL.  *)
LEMMA TypeStep == TypeOK /\ [Next]_vars => TypeOK'
<1> SUFFICES ASSUME TypeOK, [Next]_vars PROVE TypeOK'
  OBVIOUS
<1> USE ConstantsAssumption
<1>1. ASSUME NEW k \in Keys, NEW c \in Slots, Post(k, c) PROVE TypeOK'
  BY <1>1, MarkKeepsOrDrops DEF Post, outsideVars, TypeOK
<1>2. ASSUME NEW k \in Keys, PostAgain(k) PROVE TypeOK'
  <2>1. entry' \in [Keys -> Statuses] /\ age' \in [Keys -> 0..(CTTL + 1)]
    BY <1>2 DEF PostAgain, Cleaned, TypeOK, Statuses
  <2>2. QED
    BY <2>1, <1>2 DEF PostAgain, slotVars, outsideVars, TypeOK
<1>3. ASSUME NEW c \in Slots, Accept(c) \/ Reply(c) PROVE TypeOK'
  BY <1>3 DEF Accept, Reply, cacheVars, outsideVars, TypeOK
<1>4. ASSUME NEW c \in Slots, CallFails(c) PROVE TypeOK'
  BY <1>4 DEF CallFails, ClearCache, outsideVars, TypeOK, Statuses
<1>5. ASSUME NEW c \in Slots, Index(c) PROVE TypeOK'
  <2>1. /\ key[c] = <<key[c][1], key[c][2]>>
        /\ key[c][1] \in Docs
        /\ key[c][2] \in Versions
    BY DEF TypeOK, Keys
  <2>2. indexed' \in [Docs -> Versions \cup {0}]
    BY <2>1, <1>5 DEF Index, TypeOK
  <2>3. QED
    BY <2>2, <1>5 DEF Index, cacheVars, TypeOK, Outcomes
<1>6. ASSUME NEW c \in Slots, CallbackLost(c) PROVE TypeOK'
  BY <1>6 DEF CallbackLost, cacheVars, outsideVars, TypeOK
<1>7. ASSUME NEW c \in Slots, Callback(c) PROVE TypeOK'
  BY <1>7 DEF Callback, MarkCompleted, outsideVars, TypeOK, Statuses, Outcomes
<1>8. ASSUME NEW c \in Slots, ReadText(c) PROVE TypeOK'
  <2>1. key[c][1] \in Docs
    BY DEF TypeOK, Keys
  <2>2. text' \in [Slots -> Versions \cup {0}]
    BY <2>1, <1>8 DEF ReadText, TypeOK
  <2>3. QED
    BY <2>2, <1>8 DEF ReadText, cacheVars, outsideVars, TypeOK
<1>9. ASSUME NEW c \in Slots, Patch(c) PROVE TypeOK'
  BY <1>9 DEF Patch, cacheVars, TypeOK, Outcomes
<1>10. CASE Tick
  BY <1>10 DEF Tick, slotVars, outsideVars, TypeOK
<1>11. CASE Restart
  BY <1>11 DEF Restart, outsideVars, TypeOK, Statuses
<1>12. CASE UNCHANGED vars
  BY <1>12 DEF vars, cacheVars, slotVars, outsideVars, TypeOK
<1>13. QED
  BY <1>1, <1>2, <1>3, <1>4, <1>5, <1>6, <1>7, <1>8, <1>9, <1>10, <1>11, <1>12 DEF Next

(* Cache, slots and what is outside keep their types; ages stay within      *)
(* their bound.                                                             *)
THEOREM TypeCorrect == Spec => []TypeOK
<1>1. Init => TypeOK
  <2>1. PICK d \in Docs, v \in Versions : TRUE
    BY ConstantsAssumption
  <2>2. <<d, v>> \in Keys
    BY <2>1 DEF Keys
  <2>3. (CHOOSE k \in Keys : TRUE) \in Keys
    BY <2>2
  <2>4. 0 \in 0..(CTTL + 1)
    BY ConstantsAssumption
  <2>5. QED
    BY <2>3, <2>4 DEF Init, TypeOK, Statuses, Outcomes
<1>2. QED
  BY <1>1, TypeStep, PTL DEF Spec

-----------------------------------------------------------------------------
(* Every step keeps OutcomeOnItsWay: a handler is not replaced while it is  *)
(* busy, and its last step tells the backend.                               *)
LEMMA OnItsWayStep == TypeOK /\ OutcomeOnItsWay /\ [Next]_vars => OutcomeOnItsWay'
<1> SUFFICES ASSUME TypeOK, OutcomeOnItsWay, [Next]_vars PROVE OutcomeOnItsWay'
  OBVIOUS
<1> USE DEF TypeOK, OutcomeOnItsWay
<1>1. ASSUME NEW k \in Keys, NEW c \in Slots, Post(k, c) PROVE OutcomeOnItsWay'
  BY <1>1, MarkKeepsOrDrops DEF Post, Busy, outsideVars
<1>2. ASSUME NEW k \in Keys, PostAgain(k) PROVE OutcomeOnItsWay'
  BY <1>2 DEF PostAgain, Cleaned, slotVars, outsideVars, Outcomes
<1>3. ASSUME NEW c \in Slots, CallFails(c) PROVE OutcomeOnItsWay'
  BY <1>3 DEF CallFails, ClearCache, outsideVars, Outcomes
<1>4. ASSUME NEW c \in Slots, Callback(c) PROVE OutcomeOnItsWay'
  BY <1>4 DEF Callback, MarkCompleted, outsideVars
<1>5. ASSUME NEW c \in Slots, ReadText(c) PROVE OutcomeOnItsWay'
  BY <1>5 DEF ReadText, cacheVars, outsideVars
<1>6. ASSUME NEW c \in Slots, Patch(c) PROVE OutcomeOnItsWay'
  BY <1>6 DEF Patch, cacheVars
<1>7. CASE Restart
  BY <1>7 DEF Restart, Outcomes
<1>8. ASSUME entry' = entry, backend' = backend, handler' = handler, key' = key,
             faults' = faults
      PROVE  OutcomeOnItsWay'
  BY <1>8
<1>9. QED
  BY <1>1, <1>2, <1>3, <1>4, <1>5, <1>6, <1>7, <1>8
  DEF Next, Accept, Reply, Index, CallbackLost, Tick, vars, cacheVars, slotVars, outsideVars

(* Without lost PATCHes, the cache never answers an outcome the backend was *)
(* not told, whatever RAGFlow, Milvus, expiry, eviction and restarts do.    *)
THEOREM OnItsWaySafe == Spec => []OutcomeOnItsWay
<1>1. Init => OutcomeOnItsWay
  BY DEF Init, OutcomeOnItsWay, Outcomes
<1>2. QED
  BY <1>1, TypeCorrect, OnItsWayStep, PTL DEF Spec

-----------------------------------------------------------------------------
(* A prompt RAGFlow.  While a document is ingested its entry is fresh, so   *)
(* that the idempotency check sees it, and a PROCESSING entry has a slot    *)
(* whose next steps settle it.                                              *)

Entries == {k \in Keys : entry[k] # "NONE"}

(* The cache holds finitely many entries, however many keys there are.      *)
LEMMA EntriesStep ==
  TypeOK /\ IsFiniteSet(Entries) /\ [Next]_vars => IsFiniteSet(Entries)'
<1> SUFFICES ASSUME TypeOK, IsFiniteSet(Entries), [Next]_vars PROVE IsFiniteSet(Entries')
  OBVIOUS
<1>1. ASSUME NEW k \in Keys, Entries' \subseteq Entries \cup {k} PROVE IsFiniteSet(Entries')
  <2>1. IsFiniteSet(Entries \cup {k})
    BY FS_AddElement
  <2>2. QED
    BY <1>1, <2>1, FS_Subset
<1>2. ASSUME Entries' \subseteq Entries PROVE IsFiniteSet(Entries')
  BY <1>2, FS_Subset
<1>3. ASSUME NEW k \in Keys, NEW c \in Slots, Post(k, c) PROVE IsFiniteSet(Entries')
  <2>1. Entries' \subseteq Entries \cup {k}
    BY <1>3 DEF Post, MarkProcessing, Cleaned, Entries
  <2>2. QED
    BY <1>1, <2>1
<1>4. ASSUME NEW c \in Slots, Callback(c) PROVE IsFiniteSet(Entries')
  <2>1. key[c] \in Keys /\ Entries' \subseteq Entries \cup {key[c]}
    BY <1>4 DEF Callback, MarkCompleted, Entries, TypeOK
  <2>2. QED
    BY <1>1, <2>1
<1>5. ASSUME NEW k \in Keys, PostAgain(k) PROVE IsFiniteSet(Entries')
  BY <1>2, <1>5 DEF PostAgain, Cleaned, Entries
<1>6. ASSUME NEW c \in Slots, CallFails(c) PROVE IsFiniteSet(Entries')
  BY <1>2, <1>6 DEF CallFails, ClearCache, Entries, TypeOK
<1>7. CASE Restart
  BY <1>2, <1>7 DEF Restart, Entries
<1>8. ASSUME entry' = entry PROVE IsFiniteSet(Entries')
  BY <1>8 DEF Entries
<1>9. QED
  BY <1>3, <1>4, <1>5, <1>6, <1>7, <1>8
  DEF Next, Accept, Reply, Index, CallbackLost, ReadText, Patch, Tick, vars, cacheVars

(* Without a crowd nothing is evicted: a post keeps every fresh entry.      *)
LEMMA PostKeepsFresh ==
  ASSUME TypeOK, IsFiniteSet(Entries), "crowd" \notin faults,
         NEW k \in Keys, NEW c \in Slots, Post(k, c)
  PROVE  /\ entry'[k] = "PROCESSING" /\ age'[k] = 0
         /\ \A e \in Keys \ {k} : Fresh(e) => entry'[e] = entry[e] /\ age'[e] = age[e]
         /\ \A e \in Keys \ {k} : entry'[e] = "PROCESSING" => entry[e] = "PROCESSING"
<1> DEFINE others == {e \in Keys \ {k} : Cleaned[e] # "NONE"}
<1>1. PICK old \in Evicted(k) :
        entry' = [e \in Keys |->
                    CASE e = k -> "PROCESSING"
                      [] e \in old -> "NONE"
                      [] OTHER -> Cleaned[e]]
  BY DEF Post, MarkProcessing
<1>2. Cardinality(old) = 0 /\ old \subseteq others
  BY DEF Evicted, Post
<1>3. IsFiniteSet(old)
  <2>1. others \subseteq Entries
    BY DEF Cleaned, Entries
  <2>2. QED
    BY <1>2, <2>1, FS_Subset
<1>4. old = {}
  BY <1>2, <1>3, FS_EmptySet
<1>5. \A e \in Keys \ {k} : Cleaned[e] = IF Fresh(e) THEN entry[e] ELSE "NONE"
  BY DEF Cleaned
<1>6. QED
  BY <1>1, <1>4, <1>5 DEF Post, MarkProcessing, Fresh

(* The slot will still report an outcome, or clear the entry.               *)
Settles(c) == call[c] = "sent" \/ work[c] # "none"

(* What the entry of a document under way says.                             *)
Tracked(c) ==
  /\ call[c] = "sent" => work[c] = "none"
  /\ call[c] # "idle" => age[key[c]] = 0
  /\ Settles(c) => entry[key[c]] = "PROCESSING" /\ age[key[c]] <= PTTL
  /\ call[c] = "accepted" /\ work[c] = "none" => entry[key[c]] \in Outcomes

Alone == \A b, c \in Slots : Ingesting(b) /\ Ingesting(c) /\ key[b] = key[c] => b = c

Owned ==
  \A k \in Keys : entry[k] = "PROCESSING" => \E c \in Slots : Settles(c) /\ key[c] = k

PromptInv == Alone /\ Owned /\ \A c \in Slots : Tracked(c)

LEMMA TrackedIsFresh ==
  ASSUME TypeOK, NEW c \in Slots, Tracked(c), Ingesting(c)
  PROVE  Fresh(key[c])
BY ConstantsAssumption DEF TypeOK, Tracked, Settles, Ingesting, Fresh, TTL, Outcomes

LEMMA PromptStep ==
  ASSUME TypeOK, IsFiniteSet(Entries), Prompt, PromptInv, [Next]_vars
  PROVE  PromptInv'
<1> USE ConstantsAssumption DEF TypeOK
<1>1. ASSUME NEW k \in Keys, NEW c \in Slots, Post(k, c) PROVE PromptInv'
  <2>1. /\ entry'[k] = "PROCESSING" /\ age'[k] = 0
        /\ \A e \in Keys \ {k} : Fresh(e) => entry'[e] = entry[e] /\ age'[e] = age[e]
        /\ \A e \in Keys \ {k} : entry'[e] = "PROCESSING" => entry[e] = "PROCESSING"
    BY <1>1, PostKeepsFresh DEF Prompt
  <2>2. /\ key' = [key EXCEPT ![c] = k] /\ call' = [call EXCEPT ![c] = "sent"]
        /\ UNCHANGED work /\ ~Ingesting(c) /\ ~Settles(c) /\ ~Fresh(k) /\ work[c] = "none"
    BY <1>1 DEF Post, Busy, Ingesting, Settles
  <2>3. \A b \in Slots : Ingesting(b) => key[b] # k /\ Fresh(key[b])
    BY <2>2, TrackedIsFresh DEF PromptInv
  <2>4. Alone'
    BY <2>2, <2>3 DEF PromptInv, Alone, Ingesting
  <2>5. Owned'
    <3>1. \A e \in Keys \ {k} : entry'[e] = "PROCESSING"
            => \E b \in Slots \ {c} : Settles(b) /\ key[b] = e
      BY <2>1, <2>2 DEF PromptInv, Owned
    <3>2. QED
      BY <2>2, <3>1 DEF Owned, Settles
  <2>6. ASSUME NEW b \in Slots PROVE Tracked(b)'
    <3>1. CASE b = c
      BY <2>1, <2>2, <3>1 DEF Tracked, Settles
    <3>2. CASE b # c /\ Ingesting(b)
      <4>1. /\ key'[b] = key[b] /\ key[b] \in Keys \ {k}
            /\ entry'[key[b]] = entry[key[b]] /\ age'[key[b]] = age[key[b]]
        BY <2>1, <2>2, <2>3, <3>2
      <4>2. QED
        BY <2>2, <3>2, <4>1 DEF PromptInv, Tracked, Settles
    <3>3. CASE b # c /\ ~Ingesting(b)
      BY <2>2, <3>3 DEF Tracked, Settles, Ingesting
    <3>4. QED
      BY <3>1, <3>2, <3>3
  <2>7. QED
    BY <2>4, <2>5, <2>6 DEF PromptInv
<1>2. ASSUME NEW k \in Keys, PostAgain(k) PROVE PromptInv'
  <2>1. /\ UNCHANGED <<key, call, work>>
        /\ \A e \in Keys : Fresh(e) => entry'[e] = entry[e] /\ age'[e] = age[e]
        /\ \A e \in Keys : entry'[e] = "PROCESSING" => entry[e] = "PROCESSING"
    BY <1>2 DEF PostAgain, Cleaned, Fresh, slotVars
  <2>2. Alone' /\ Owned'
    BY <2>1 DEF PromptInv, Alone, Ingesting, Owned, Settles
  <2>3. ASSUME NEW b \in Slots PROVE Tracked(b)'
    <3>1. CASE Ingesting(b)
      BY <2>1, <3>1, TrackedIsFresh DEF PromptInv, Tracked, Settles
    <3>2. CASE ~Ingesting(b)
      BY <2>1, <3>2 DEF Tracked, Settles, Ingesting
    <3>3. QED
      BY <3>1, <3>2
  <2>4. QED
    BY <2>2, <2>3 DEF PromptInv
<1>3. ASSUME NEW c \in Slots, Accept(c) \/ Reply(c) \/ Index(c) PROVE PromptInv'
  <2>1. UNCHANGED <<entry, age, key>>
    BY <1>3 DEF Accept, Reply, Index, cacheVars
  <2>2. /\ \A b \in Slots : Ingesting(b)' => Ingesting(b)
        /\ \A b \in Slots : Settles(b)' <=> Settles(b)
    BY <1>3 DEF Accept, Reply, Index, Ingesting, Settles, PromptInv, Tracked
  <2>3. Alone' /\ Owned'
    BY <2>1, <2>2 DEF PromptInv, Alone, Owned
  <2>4. ASSUME NEW b \in Slots PROVE Tracked(b)'
    <3>1. b # c => call'[b] = call[b] /\ work'[b] = work[b]
      BY <1>3 DEF Accept, Reply, Index
    <3>2. CASE b # c
      BY <2>1, <3>1, <3>2 DEF PromptInv, Tracked, Settles
    <3>3. CASE b = c
      BY <1>3, <2>1, <2>2, <3>3 DEF Accept, Reply, Index, PromptInv, Tracked
    <3>4. QED
      BY <3>2, <3>3
  <2>5. QED
    BY <2>3, <2>4 DEF PromptInv
<1>4. ASSUME NEW c \in Slots, CallFails(c) \/ Callback(c) PROVE PromptInv'
  <2>1. Ingesting(c) /\ key[c] \in Keys /\ UNCHANGED key
    BY <1>4 DEF CallFails, Callback, Ingesting
  <2>2. /\ \A b \in Slots \ {c} : call'[b] = call[b] /\ work'[b] = work[b]
        /\ \A e \in Keys \ {key[c]} : entry'[e] = entry[e] /\ age'[e] = age[e]
        /\ entry'[key[c]] # "PROCESSING" /\ age'[key[c]] = 0
        /\ ~Settles(c)' /\ (Ingesting(c)' => Ingesting(c))
    BY <1>4 DEF CallFails, Callback, ClearCache, MarkCompleted, Outcomes, Prompt, Settles,
                Ingesting, PromptInv, Tracked
  <2>3. \A b \in Slots \ {c} : Ingesting(b) => key[b] # key[c]
    BY <2>1 DEF PromptInv, Alone
  <2>4. Alone'
    BY <2>1, <2>2 DEF PromptInv, Alone, Ingesting
  <2>5. Owned'
    <3>1. \A e \in Keys : entry'[e] = "PROCESSING" => e # key[c] /\ entry[e] = "PROCESSING"
      BY <2>2
    <3>2. QED
      BY <2>1, <2>2, <3>1 DEF PromptInv, Owned, Settles
  <2>6. ASSUME NEW b \in Slots \ {c} PROVE Tracked(b)'
    <3>1. CASE Ingesting(b)
      <4>1. key[b] \in Keys \ {key[c]}
        BY <2>3, <3>1
      <4>2. QED
        BY <2>1, <2>2, <4>1 DEF PromptInv, Tracked, Settles
    <3>2. CASE ~Ingesting(b)
      BY <2>1, <2>2, <3>2 DEF Tracked, Settles, Ingesting
    <3>3. QED
      BY <3>1, <3>2
  <2>7. Tracked(c)'
    BY <1>4, <2>1, <2>2 DEF CallFails, Callback, MarkCompleted, Tracked, Settles, Prompt,
                            PromptInv
  <2>8. QED
    BY <2>4, <2>5, <2>6, <2>7 DEF PromptInv
<1>5. CASE Tick
  <2>1. /\ UNCHANGED <<entry, key, call, work>>
        /\ \A c \in Slots : call[c] = "idle"
        /\ \A c \in Slots : work[c] # "none" => age[key[c]] < PTTL
        /\ \A e \in Keys : age'[e] \in {age[e], age[e] + 1}
    BY <1>5 DEF Tick, slotVars, Prompt
  <2>2. Alone' /\ Owned'
    BY <2>1 DEF PromptInv, Alone, Ingesting, Owned, Settles
  <2>3. ASSUME NEW c \in Slots PROVE Tracked(c)'
    <3>1. Settles(c) => age'[key[c]] <= PTTL
      BY <2>1 DEF Settles
    <3>2. QED
      BY <2>1, <3>1 DEF PromptInv, Tracked, Settles
  <2>4. QED
    BY <2>2, <2>3 DEF PromptInv
<1>6. ~Restart /\ \A c \in Slots : ~CallbackLost(c)
  BY DEF Prompt, Restart, CallbackLost
<1>7. ASSUME UNCHANGED <<entry, age, key, call, work>> PROVE PromptInv'
  BY <1>7 DEF PromptInv, Alone, Owned, Tracked, Settles, Ingesting
<1>8. QED
  BY <1>1, <1>2, <1>3, <1>4, <1>5, <1>6, <1>7
  DEF Next, ReadText, Patch, vars, cacheVars, slotVars

LEMMA PromptAlways == Spec => [](Prompt => PromptInv)
<1> DEFINE Inv == IsFiniteSet(Entries) /\ (Prompt => PromptInv)
<1>1. Init => Inv
  <2> SUFFICES ASSUME Init PROVE Inv
    OBVIOUS
  <2>1. Entries = {}
    BY DEF Init, Entries
  <2>2. PromptInv
    BY DEF Init, PromptInv, Alone, Owned, Tracked, Settles, Ingesting
  <2>3. QED
    BY <2>1, <2>2, FS_EmptySet
<1>2. TypeOK /\ Inv /\ [Next]_vars => Inv'
  <2>1. [Next]_vars => UNCHANGED faults
    BY DEF Next, Post, PostAgain, Accept, Reply, CallFails, Index, CallbackLost, Callback,
           ReadText, Patch, Tick, Restart, vars, outsideVars
  <2>2. QED
    BY <2>1, EntriesStep, PromptStep DEF Prompt
<1>3. Inv => (Prompt => PromptInv)
  OBVIOUS
<1>4. QED
  BY <1>1, <1>2, <1>3, TypeCorrect, PTL DEF Spec

(* The idempotency check does what it is for: without late answers,         *)
(* restarts and eviction no version of a document is ingested twice at the  *)
(* same time.                                                               *)
THEOREM SingleIngestSafe == Spec => []SingleIngest
<1>1. (Prompt => PromptInv) => SingleIngest
  BY DEF PromptInv, Alone, SingleIngest
<1>2. QED
  BY <1>1, PromptAlways, PTL

(* No refused post, failed ingest, unread text or lost PATCH leaves a       *)
(* document PROCESSING with nobody at work on it.                           *)
THEOREM OwnerSafe == Spec => []ProcessingHasOwner
<1>1. (Prompt => PromptInv) => ProcessingHasOwner
  BY DEF PromptInv, Owned, Settles, Ingesting, ProcessingHasOwner
<1>2. QED
  BY <1>1, PromptAlways, PTL

=============================================================================
