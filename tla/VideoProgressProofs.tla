------------------------- MODULE VideoProgressProofs -------------------------
(***************************************************************************)
(* Proofs about VideoProgress, for any users, trainings, lengths and       *)
(* reports.  QuizInv strengthens QuizNeedsCompletion: it speaks of the     *)
(* record alone, and so survives every change of the catalog.              *)
(***************************************************************************)
EXTENDS VideoProgress, Integers, TLAPS

-----------------------------------------------------------------------------
(* The computed percentage is one. *)
LEMMA ProgressType ==
  ASSUME NEW watched \in Nat, NEW total \in Nat
  PROVE  CalculateProgress(watched, total) \in 0..100
<1>1. CASE total = 0 \/ watched >= total
  BY <1>1 DEF CalculateProgress
<1>2. CASE total # 0 /\ watched < total
  <2> DEFINE q == (100 * watched) \div total
  <2>1. q \in Int /\ q * total <= 100 * watched /\ 100 * watched < (q + 1) * total
    BY <1>2
  <2>2. q >= 0
    <3>1. ASSUME q <= -1 PROVE FALSE
      <4>1. (q + 1) * total <= 0
        BY <3>1, <2>1, <1>2
      <4>2. QED
        BY <4>1, <2>1
    <3>2. QED
      BY <3>1, <2>1
  <2>3. q < 100
    <3>1. ASSUME q >= 100 PROVE FALSE
      <4>1. q * total >= 100 * total
        BY <3>1, <2>1, <1>2
      <4>2. QED
        BY <4>1, <2>1, <1>2
    <3>2. QED
      BY <3>1, <2>1
  <2>4. CalculateProgress(watched, total) = q
    BY <1>2 DEF CalculateProgress
  <2>5. QED
    BY <2>1, <2>2, <2>3, <2>4
<1>3. QED
  BY <1>1, <1>2

(* Only a video with a length that was watched to its end counts as full. *)
LEMMA FullIsWatched ==
  ASSUME NEW watched \in Nat, NEW total \in Nat, CalculateProgress(watched, total) >= 100
  PROVE  total > 0 /\ watched >= total
<1>1. total # 0
  BY DEF CalculateProgress
<1>2. ASSUME watched < total PROVE FALSE
  <2> DEFINE q == (100 * watched) \div total
  <2>1. q \in Int /\ q * total <= 100 * watched
    BY <1>1
  <2>2. q >= 100
    BY <1>1, <1>2 DEF CalculateProgress
  <2>3. q * total >= 100 * total
    BY <2>1, <2>2, <1>1
  <2>4. QED
    BY <2>1, <2>3, <1>2
<1>3. QED
  BY <1>1, <1>2

-----------------------------------------------------------------------------
(* Types. *)

LEMMA FreshType ==
  ASSUME TypeOK, NEW total \in Durations, NEW mandatory \in BOOLEAN, NEW first \in BOOLEAN
  PROVE  Fresh("IN_PROGRESS", total, mandatory, first) \in Records
BY ProgressAssumption DEF Fresh, Records, TypeOK

LEMMA SetsType ==
  ASSUME TypeOK, NEW p \in Pairs, NEW r \in Records, Sets(p, r), earned' \subseteq Pairs
  PROVE  TypeOK'
BY DEF Sets, TypeOK, CatalogTypeOK, catalogVars

LEMMA MandatoryType ==
  ASSUME NEW e
  PROVE  IsMandatory(e) \in BOOLEAN
<1>1. CASE entry[e] # "absent"
  BY <1>1 DEF IsMandatory
<1>2. CASE entry[e] = "absent"
  BY <1>2 DEF IsMandatory
<1>3. QED
  BY <1>1, <1>2

LEMMA StartType ==
  ASSUME TypeOK, NEW p \in Pairs, StartVideo(p)
  PROVE  TypeOK'
<1>1. record[p] \in Records /\ IsMandatory(p[2]) \in BOOLEAN
  BY MandatoryType DEF TypeOK
<1>2. CASE Sets(p, [record[p] EXCEPT !.state = "IN_PROGRESS", !.first = FALSE]) /\ UNCHANGED earned
  <2>1. [record[p] EXCEPT !.state = "IN_PROGRESS", !.first = FALSE] \in Records
    BY <1>1 DEF Records
  <2>2. QED
    BY <1>2, <2>1, SetsType DEF TypeOK
<1>3. ASSUME NEW total \in Durations, UNCHANGED earned,
             Sets(p, Fresh("IN_PROGRESS", total, IsMandatory(p[2]), record[p].first))
      PROVE  TypeOK'
  <2>1. record[p].first \in BOOLEAN
    BY <1>1 DEF Records
  <2>2. Fresh("IN_PROGRESS", total, IsMandatory(p[2]), record[p].first) \in Records
    BY <1>1, <2>1, FreshType
  <2>3. QED
    BY <1>3, <2>2, SetsType DEF TypeOK
<1>4. QED
  BY <1>2, <1>3 DEF StartVideo

LEMMA UpdateType ==
  ASSUME TypeOK, NEW p \in Pairs, UpdateProgress(p)
  PROVE  TypeOK'
<1>1. PICK watched \in Seconds, position \in Seconds :
        /\ Sets(p, [record[p] EXCEPT !.watched = watched,
                                     !.percent = CalculateProgress(watched, record[p].total),
                                     !.position = position, !.stamp = clock])
        /\ UNCHANGED earned
  BY DEF UpdateProgress
<1>2. record[p] \in Records /\ record[p].total \in Nat /\ watched \in Nat
  BY ProgressAssumption DEF TypeOK, Records
<1>3. CalculateProgress(watched, record[p].total) \in 0..100
  BY <1>2, ProgressType
<1>4. [record[p] EXCEPT !.watched = watched,
                        !.percent = CalculateProgress(watched, record[p].total),
                        !.position = position, !.stamp = clock] \in Records
  BY <1>2, <1>3 DEF Records, TypeOK
<1>5. QED
  BY <1>1, <1>4, SetsType DEF TypeOK

LEMMA CompleteType ==
  ASSUME TypeOK, NEW p \in Pairs, CompleteVideo(p)
  PROVE  TypeOK'
<1> DEFINE Done(watched, position) ==
      [record[p] EXCEPT !.state = "COMPLETED", !.percent = 100, !.watched = watched,
                        !.position = position, !.seek = TRUE, !.first = FALSE,
                        !.quiz = @ \/ record[p].mandatory]
<1>1. PICK watched \in Seconds, position \in Seconds :
        Sets(p, Done(watched, position)) /\ earned' = earned \cup {p}
  BY DEF CompleteVideo
<1>2. record[p] \in Records
  BY DEF TypeOK
<1>3. (record[p].quiz \/ record[p].mandatory) \in BOOLEAN /\ 100 \in 0..100
  OBVIOUS
<1>4. Done(watched, position) \in Records
  <2> DEFINE a == [record[p] EXCEPT !.state = "COMPLETED", !.percent = 100, !.watched = watched]
             b == [a EXCEPT !.position = position, !.seek = TRUE, !.first = FALSE]
  <2>1. a \in Records
    BY <1>2, <1>3 DEF Records
  <2>2. b \in Records
    <3> HIDE DEF a
    <3>1. QED
      BY <2>1 DEF Records
  <2>3. Done(watched, position) = [b EXCEPT !.quiz = record[p].quiz \/ record[p].mandatory]
    OBVIOUS
  <2>4. [b EXCEPT !.quiz = record[p].quiz \/ record[p].mandatory] \in Records
    <3> HIDE DEF b
    <3>1. QED
      BY <1>3, <2>2 DEF Records
  <2> HIDE DEF Done, b
  <2>5. QED
    BY <2>3, <2>4
<1>5. earned' \subseteq Pairs
  BY <1>1 DEF TypeOK
<1>6. QED
  BY <1>1, <1>4, <1>5, SetsType

LEMMA CatalogType ==
  ASSUME CatalogTypeOK, CatalogNext
  PROVE  CatalogTypeOK'
<1>1. PICK e \in Trainings :
        RegisterEducation(e) \/ RegisterMandatory(e) \/ UnregisterMandatory(e) \/ Reissue(e)
  BY DEF CatalogNext
<1>2. ASSUME NEW f \in Trainings, NEW kind \in Kinds, Enters(f, kind) PROVE CatalogTypeOK'
  BY <1>2 DEF Enters, CatalogTypeOK
<1>3. CASE RegisterEducation(e)
  BY <1>2, <1>3 DEF RegisterEducation
<1>4. CASE RegisterMandatory(e) \/ UnregisterMandatory(e)
  BY <1>4 DEF RegisterMandatory, UnregisterMandatory, CatalogTypeOK
<1>5. CASE Reissue(e)
  <2>1. ReissueOf[e] \in Trainings /\ entry[e] \in Kinds
    BY <1>5, CatalogAssumption DEF Reissue, CatalogTypeOK
  <2>2. QED
    BY <1>2, <1>5, <2>1 DEF Reissue
<1>6. QED
  BY <1>1, <1>3, <1>4, <1>5

LEMMA InitType == Init => TypeOK
<1> SUFFICES ASSUME Init PROVE TypeOK
  OBVIOUS
<1>1. Fresh("NOT_STARTED", 0, FALSE, TRUE) \in Records
  BY ProgressAssumption DEF Init, Fresh, Records
<1>2. record \in [Pairs -> Records]
  BY <1>1 DEF Init
<1>3. clock \in 0..MaxClock /\ earned \subseteq Pairs
  BY ProgressAssumption DEF Init
<1>4. CatalogTypeOK
  BY DEF Init, CatalogInit, CatalogTypeOK
<1>5. QED
  BY <1>2, <1>3, <1>4 DEF TypeOK

LEMMA TypeStep == TypeOK /\ [Next]_vars => TypeOK'
<1> SUFFICES ASSUME TypeOK, [Next]_vars PROVE TypeOK'
  OBVIOUS
<1>1. CASE \E p \in Pairs : StartVideo(p) \/ UpdateProgress(p) \/ CompleteVideo(p)
  BY <1>1, StartType, UpdateType, CompleteType
<1>2. CASE Tick
  BY <1>2, ProgressAssumption DEF Tick, TypeOK, CatalogTypeOK, catalogVars
<1>3. CASE CatalogNext /\ UNCHANGED <<record, clock, earned>>
  BY <1>3, CatalogType DEF TypeOK
<1>4. CASE UNCHANGED vars
  BY <1>4 DEF vars, catalogVars, TypeOK, CatalogTypeOK
<1>5. QED
  BY <1>1, <1>2, <1>3, <1>4 DEF Next

(* Records, catalog and clock keep their types; a percentage is one         *)
(* whatever lengths and seconds a client reports.                           *)
THEOREM TypeCorrect == Spec => []TypeOK
BY InitType, TypeStep, PTL DEF Spec

-----------------------------------------------------------------------------
(* What a record says. *)

(* The mark of a first watch is the negation of the history. *)
Marked(p) == record[p].first <=> p \notin earned

(* Whatever can open the quiz was earned. *)
QuizInv == \A p \in Pairs : record[p].quiz \/ record[p].state = "COMPLETED" => p \in earned

Watched(r) ==
  r.state = "COMPLETED" \/ r.seek \/ r.quiz =>
    r.watched >= r.total /\ r.percent = 100

RecordInv == FirstWatchIsTrue /\ QuizInv /\ CompletedIsWatched

(* A step that stores r for p and leaves the others alone. *)
LEMMA StoredKeeps ==
  ASSUME TypeOK, RecordInv, NEW p \in Pairs, NEW r, Sets(p, r),
         earned' \in {earned, earned \cup {p}},
         r.first <=> p \notin earned',
         r.quiz \/ r.state = "COMPLETED" => p \in earned',
         Watched(r)
  PROVE  RecordInv'
<1>1. record'[p] = r /\ \A o \in Pairs \ {p} : record'[o] = record[o]
  BY DEF Sets, TypeOK
<1>2. \A o \in Pairs \ {p} : o \in earned' <=> o \in earned
  OBVIOUS
<1>3. FirstWatchIsTrue'
  BY <1>1, <1>2 DEF RecordInv, FirstWatchIsTrue
<1>4. QuizInv'
  BY <1>1, <1>2 DEF RecordInv, QuizInv
<1>5. \A o \in Pairs : Watched(record[o])
  BY DEF RecordInv, CompletedIsWatched, Watched
<1>6. \A o \in Pairs : Watched(record'[o])
  BY <1>1, <1>5 DEF Watched
<1>7. CompletedIsWatched'
  BY <1>6 DEF CompletedIsWatched, Watched
<1>8. QED
  BY <1>3, <1>4, <1>7 DEF RecordInv

LEMMA StartKeeps ==
  ASSUME TypeOK, RecordInv, NEW p \in Pairs, StartVideo(p)
  PROVE  RecordInv'
<1>1. record[p] \in Records
  BY DEF TypeOK
<1>2. /\ record[p].first <=> p \notin earned
      /\ record[p].quiz \/ record[p].state = "COMPLETED" => p \in earned
      /\ Watched(record[p])
  BY DEF RecordInv, FirstWatchIsTrue, QuizInv, CompletedIsWatched, Watched
<1>3. CASE /\ record[p].state = "COMPLETED"
           /\ Sets(p, [record[p] EXCEPT !.state = "IN_PROGRESS", !.first = FALSE])
           /\ UNCHANGED earned
  <2> DEFINE r == [record[p] EXCEPT !.state = "IN_PROGRESS", !.first = FALSE]
  <2>1. /\ r.state = "IN_PROGRESS" /\ r.first = FALSE /\ r.seek = record[p].seek
        /\ r.quiz = record[p].quiz /\ r.total = record[p].total
        /\ r.watched = record[p].watched /\ r.percent = record[p].percent
    BY <1>1 DEF Records
  <2>2. Sets(p, r) /\ earned' = earned
    BY <1>3
  <2>3. p \in earned /\ Watched(r)
    BY <1>2, <1>3, <2>1 DEF Watched
  <2> HIDE DEF r
  <2>4. QED
    BY <1>2, <2>1, <2>2, <2>3, StoredKeeps
<1>4. ASSUME NEW total \in Durations, UNCHANGED earned,
             Sets(p, Fresh("IN_PROGRESS", total, IsMandatory(p[2]), record[p].first))
      PROVE  RecordInv'
  <2> DEFINE r == Fresh("IN_PROGRESS", total, IsMandatory(p[2]), record[p].first)
  <2>1. /\ r.state = "IN_PROGRESS" /\ r.seek = FALSE /\ r.quiz = FALSE
        /\ r.first = record[p].first
    BY DEF Fresh
  <2>2. Sets(p, r) /\ earned' = earned
    BY <1>4
  <2> HIDE DEF r
  <2>3. QED
    BY <1>2, <2>1, <2>2, StoredKeeps DEF Watched
<1>5. QED
  BY <1>3, <1>4 DEF StartVideo

LEMMA UpdateKeeps ==
  ASSUME TypeOK, RecordInv, NEW p \in Pairs, UpdateProgress(p)
  PROVE  RecordInv'
<1> DEFINE full(watched) == CalculateProgress(watched, record[p].total)
           r(watched, position) ==
             [record[p] EXCEPT !.watched = watched, !.percent = full(watched),
                               !.position = position, !.stamp = clock]
<1>1. PICK watched \in Seconds, position \in Seconds :
        /\ record[p].state = "IN_PROGRESS" /\ full(watched) >= record[p].percent
        /\ Sets(p, r(watched, position)) /\ earned' = earned
  BY DEF UpdateProgress
<1>2. record[p] \in Records /\ record[p].total \in Nat /\ watched \in Nat
  BY ProgressAssumption DEF TypeOK, Records
<1>3. /\ record[p].first <=> p \notin earned
      /\ record[p].quiz \/ record[p].state = "COMPLETED" => p \in earned
      /\ Watched(record[p])
  BY DEF RecordInv, FirstWatchIsTrue, QuizInv, CompletedIsWatched, Watched
<1> DEFINE s == r(watched, position)
<1>4. /\ s.state = "IN_PROGRESS" /\ s.first = record[p].first /\ s.seek = record[p].seek
      /\ s.quiz = record[p].quiz /\ s.total = record[p].total
      /\ s.watched = watched /\ s.percent = full(watched)
  BY <1>1, <1>2 DEF Records
<1>5. Watched(s)
  <2>1. SUFFICES ASSUME record[p].seek \/ record[p].quiz
                 PROVE  s.watched >= s.total /\ s.percent = 100
    BY <1>4 DEF Watched
  <2>2. record[p].percent = 100 /\ full(watched) \in 0..100
    BY <1>2, <1>3, <2>1, ProgressType DEF Watched
  <2>3. full(watched) = 100
    BY <1>1, <2>2
  <2>4. record[p].total > 0 /\ watched >= record[p].total
    BY <1>2, <2>3, FullIsWatched
  <2>5. QED
    BY <1>4, <2>3, <2>4
<1>6. Sets(p, s)
  BY <1>1
<1> HIDE DEF s
<1>7. QED
  BY <1>1, <1>3, <1>4, <1>5, <1>6, StoredKeeps

LEMMA CompleteKeeps ==
  ASSUME TypeOK, RecordInv, NEW p \in Pairs, CompleteVideo(p)
  PROVE  RecordInv'
<1> DEFINE r(watched, position) ==
      [record[p] EXCEPT !.state = "COMPLETED", !.percent = 100, !.watched = watched,
                        !.position = position, !.seek = TRUE, !.first = FALSE,
                        !.quiz = @ \/ record[p].mandatory]
<1>1. PICK watched \in Seconds, position \in Seconds :
        /\ CalculateProgress(watched, record[p].total) = 100
        /\ Sets(p, r(watched, position)) /\ earned' = earned \cup {p}
  BY DEF CompleteVideo
<1>2. record[p] \in Records /\ record[p].total \in Nat /\ watched \in Nat
  BY ProgressAssumption DEF TypeOK, Records
<1> DEFINE s == r(watched, position)
<1>3. /\ s.first = FALSE /\ s.total = record[p].total
      /\ s.watched = watched /\ s.percent = 100
  BY <1>2 DEF Records
<1>4. Watched(s)
  BY <1>1, <1>2, <1>3, FullIsWatched DEF Watched
<1>5. Sets(p, s)
  BY <1>1
<1> HIDE DEF s
<1>6. QED
  BY <1>1, <1>3, <1>4, <1>5, StoredKeeps

LEMMA RecordInit == Init => RecordInv
BY DEF Init, RecordInv, FirstWatchIsTrue, QuizInv, CompletedIsWatched, Fresh

LEMMA RecordStep == TypeOK /\ RecordInv /\ [Next]_vars => RecordInv'
<1> SUFFICES ASSUME TypeOK, RecordInv, [Next]_vars PROVE RecordInv'
  OBVIOUS
<1>1. CASE \E p \in Pairs : StartVideo(p) \/ UpdateProgress(p) \/ CompleteVideo(p)
  BY <1>1, StartKeeps, UpdateKeeps, CompleteKeeps
<1>2. CASE Tick \/ (CatalogNext /\ UNCHANGED <<record, clock, earned>>) \/ UNCHANGED vars
  BY <1>2 DEF Tick, vars, RecordInv, FirstWatchIsTrue, QuizInv, CompletedIsWatched
<1>3. QED
  BY <1>1, <1>2 DEF Next

LEMMA RecordCorrect == Spec => []RecordInv
BY TypeCorrect, RecordInit, RecordStep, PTL DEF Spec

(* A user is held to normal speed exactly until the first completion of a   *)
(* mandatory training's video (start_video, _get_max_playback_rate).        *)
THEOREM FirstWatchSafe == Spec => []FirstWatchIsTrue
<1>1. RecordInv => FirstWatchIsTrue
  BY DEF RecordInv
<1>2. QED
  BY <1>1, RecordCorrect, PTL

(* Whatever length a client states and whatever it reports, what counts as  *)
(* completed was watched to the end (_calculate_progress, complete_video).  *)
THEOREM CompletedSafe == Spec => []CompletedIsWatched
<1>1. RecordInv => CompletedIsWatched
  BY DEF RecordInv
<1>2. QED
  BY <1>1, RecordCorrect, PTL

(* The quiz of a mandatory training needs its video completed, however the  *)
(* catalog changes before, during and after (can_start_quiz).               *)
THEOREM QuizSafe == Spec => []QuizNeedsCompletion
<1>1. RecordInv => QuizNeedsCompletion
  BY DEF RecordInv, QuizInv, QuizNeedsCompletion, CanStartQuiz
<1>2. QED
  BY <1>1, RecordCorrect, PTL

(* A step lowers a percentage only by a new record (start_video), which     *)
(* keeps the mark of the first watch.                                       *)
THEOREM StartsOverSafe == Spec => ProgressOnlyStartsOver
<1> DEFINE Over(p) == record'[p].percent < record[p].percent =>
             record'[p] = Fresh("IN_PROGRESS", record'[p].total, IsMandatory(p[2]), record[p].first)
<1>1. ASSUME TypeOK, [Next]_vars, NEW p \in Pairs PROVE Over(p)
  <2> USE <1>1
  <2>1. \A o \in Pairs : record[o] \in Records /\ record[o].percent \in 0..100
    BY DEF TypeOK, Records
  <2>2. ASSUME NEW o \in Pairs, NEW r, Sets(o, r), r.percent \in 0..100,
               r.percent >= record[o].percent
        PROVE  Over(p)
    <3>1. record'[p] = IF p = o THEN r ELSE record[p]
      BY <2>2 DEF Sets, TypeOK
    <3>2. record[p].percent \in 0..100 /\ record[o].percent \in 0..100
      BY <2>1
    <3>3. record'[p].percent >= record[p].percent /\ record'[p].percent \in 0..100
      <4>1. CASE p = o
        BY <2>2, <3>1, <4>1
      <4>2. CASE p # o
        BY <3>1, <3>2, <4>2
      <4>3. QED
        BY <4>1, <4>2
    <3>4. ASSUME NEW a \in 0..100, NEW b \in 0..100, a >= b PROVE ~(a < b)
      BY <3>4
    <3>5. ~(record'[p].percent < record[p].percent)
      BY <3>2, <3>3, <3>4
    <3>6. QED
      BY <3>5
  <2>3. ASSUME NEW o \in Pairs, StartVideo(o) PROVE Over(p)
    <3>1. CASE Sets(o, [record[o] EXCEPT !.state = "IN_PROGRESS", !.first = FALSE])
      <4> DEFINE r == [record[o] EXCEPT !.state = "IN_PROGRESS", !.first = FALSE]
      <4>1. r.percent = record[o].percent
        BY <2>1 DEF Records
      <4>2. Sets(o, r)
        BY <3>1
      <4> HIDE DEF r
      <4>3. QED
        BY <2>1, <2>2, <4>1, <4>2
    <3>2. ASSUME NEW total \in Durations,
                 Sets(o, Fresh("IN_PROGRESS", total, IsMandatory(o[2]), record[o].first))
          PROVE  Over(p)
      <4>1. Fresh("IN_PROGRESS", total, IsMandatory(o[2]), record[o].first).total = total
        BY DEF Fresh
      <4>2. CASE p = o
        BY <3>2, <4>1, <4>2 DEF Sets, TypeOK
      <4>3. CASE p # o
        BY <2>1, <3>2, <4>3 DEF Sets, TypeOK
      <4>4. QED
        BY <4>2, <4>3
    <3>3. QED
      BY <2>3, <3>1, <3>2 DEF StartVideo
  <2>4. ASSUME NEW o \in Pairs, UpdateProgress(o) PROVE Over(p)
    <3> DEFINE full(watched) == CalculateProgress(watched, record[o].total)
               r(watched, position) ==
                 [record[o] EXCEPT !.watched = watched, !.percent = full(watched),
                                   !.position = position, !.stamp = clock]
    <3>1. PICK watched \in Seconds, position \in Seconds :
            full(watched) >= record[o].percent /\ Sets(o, r(watched, position))
      BY <2>4 DEF UpdateProgress
    <3>2. r(watched, position).percent = full(watched)
      BY <2>1 DEF Records
    <3>3. full(watched) \in 0..100
      <4>1. watched \in Nat /\ record[o].total \in Nat
        BY <2>1, ProgressAssumption DEF Records
      <4>2. QED
        BY <4>1, ProgressType
    <3> HIDE DEF r, full
    <3>4. QED
      BY <2>2, <3>1, <3>2, <3>3
  <2>5. ASSUME NEW o \in Pairs, CompleteVideo(o) PROVE Over(p)
    <3> DEFINE r(watched, position) ==
          [record[o] EXCEPT !.state = "COMPLETED", !.percent = 100, !.watched = watched,
                            !.position = position, !.seek = TRUE, !.first = FALSE,
                            !.quiz = @ \/ record[o].mandatory]
    <3>1. PICK watched \in Seconds, position \in Seconds : Sets(o, r(watched, position))
      BY <2>5 DEF CompleteVideo
    <3>2. r(watched, position).percent = 100
      BY <2>1 DEF Records
    <3>3. r(watched, position).percent >= record[o].percent /\ 100 \in 0..100
      BY <2>1, <3>2
    <3> HIDE DEF r
    <3>4. QED
      BY <2>2, <3>1, <3>2, <3>3
  <2>6. CASE UNCHANGED record
    BY <2>1, <2>6
  <2>7. QED
    BY <2>3, <2>4, <2>5, <2>6 DEF Next, Tick, vars
<1>2. TypeOK /\ [Next]_vars => [\A p \in Pairs : Over(p)]_vars
  BY <1>1
<1>3. QED
  BY <1>2, TypeCorrect, PTL DEF Spec, ProgressOnlyStartsOver
=============================================================================
