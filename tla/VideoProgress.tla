---------------------------- MODULE VideoProgress ----------------------------
(***************************************************************************)
(* The record of a user and a training video: start, progress updates,     *)
(* completion, watching again, and the quiz a mandatory training opens.    *)
(* What a client reports is checked against the record and the clock; the  *)
(* catalog, asked at the start and again for the quiz, may change between. *)
(***************************************************************************)
EXTENDS EducationCatalog

CONSTANTS
  Pairs,      \* user and training: who watches what
  Durations,  \* lengths a client may state for a video (gt=0)
  Seconds,    \* watched seconds and positions a client reports
  Rates,      \* playback rates in percent, 100 is normal speed
  Grace,      \* SURGE_GRACE_SECONDS (5)
  MaxClock    \* bound on the clock

ASSUME ProgressAssumption ==
  /\ \A p \in Pairs : p[2] \in Trainings
  /\ Durations \subseteq Nat \ {0}
  /\ Seconds \subseteq Nat /\ 0 \in Seconds
  /\ Rates \subseteq Nat
  /\ Grace \in Nat
  /\ MaxClock \in Nat

VARIABLES
  record,  \* the store, by user and training
  clock,   \* time.time()
  earned   \* history: who has completed what

vars == <<catalogVars, record, clock, earned>>

Records ==
  [state : {"NOT_STARTED", "IN_PROGRESS", "COMPLETED"}, total : Durations \cup {0},
   watched : Seconds, percent : 0..100, position : Seconds, stamp : 0..MaxClock,
   seek : BOOLEAN, quiz : BOOLEAN, mandatory : BOOLEAN, first : BOOLEAN]

TypeOK ==
  /\ CatalogTypeOK
  /\ record \in [Pairs -> Records]
  /\ clock \in 0..MaxClock
  /\ earned \subseteq Pairs

(* A record before anything was watched; NOT_STARTED stands for none. *)
Fresh(state, total, mandatory, first) ==
  [state |-> state, total |-> total, watched |-> 0, percent |-> 0, position |-> 0,
   stamp |-> clock, seek |-> FALSE, quiz |-> FALSE, mandatory |-> mandatory,
   first |-> first]

Init ==
  /\ CatalogInit
  /\ clock = 0
  /\ record = [p \in Pairs |-> Fresh("NOT_STARTED", 0, FALSE, TRUE)]
  /\ earned = {}

Sets(p, r) ==
  /\ record' = [record EXCEPT ![p] = r]
  /\ UNCHANGED <<catalogVars, clock>>

(* The length is zero only where nothing was started. *)
CalculateProgress(watched, total) ==
  IF total = 0 THEN 0
  ELSE IF watched >= total THEN 100 ELSE (100 * watched) \div total

(* The position runs ahead of the clock.  Not asked when no time passed. *)
Surges(r, position) ==
  clock > r.stamp /\ position > r.position + (clock - r.stamp) + Grace

RateAllowed(rate, mandatory, first) == mandatory /\ first => rate <= 100

-----------------------------------------------------------------------------
(* Variant: a new record counts as never watched. *)
StartVideo_FirstAgain(p) ==
  /\ IF record[p].state = "COMPLETED"
       THEN Sets(p, [record[p] EXCEPT !.state = "IN_PROGRESS", !.first = FALSE])
       ELSE \E total \in Durations :
              Sets(p, Fresh("IN_PROGRESS", total, IsMandatory(p[2]), TRUE))
  /\ UNCHANGED earned

(* start_video: a completed video is opened again as it is; any other gets  *)
(* a new record, whatever was watched so far, with the catalog's word on    *)
(* whether it is mandatory.  A rate too high for a first watch is refused.  *)
StartVideo(p) ==
  \/ /\ record[p].state = "COMPLETED"
     /\ Sets(p, [record[p] EXCEPT !.state = "IN_PROGRESS", !.first = FALSE])
     /\ UNCHANGED earned
  \/ \E total \in Durations, rate \in Rates :
       /\ record[p].state # "COMPLETED"
       /\ RateAllowed(rate, IsMandatory(p[2]), record[p].first)
       /\ Sets(p, Fresh("IN_PROGRESS", total, IsMandatory(p[2]), record[p].first))
       /\ UNCHANGED earned

(* Variant: progress may go back. *)
UpdateProgress_Backwards(p) ==
  LET r == record[p] IN
  \E watched, position \in Seconds, rate \in Rates :
    LET new == CalculateProgress(watched, r.total) IN
    /\ r.state = "IN_PROGRESS"
    /\ RateAllowed(rate, r.mandatory, r.first)
    /\ ~Surges(r, position)
    /\ Sets(p, [r EXCEPT !.watched = watched, !.percent = new,
                         !.position = position, !.stamp = clock])
    /\ UNCHANGED earned

(* update_progress, when it is accepted and has an effect. *)
UpdateProgress(p) ==
  LET r == record[p] IN
  \E watched, position \in Seconds, rate \in Rates :
    LET new == CalculateProgress(watched, r.total) IN
    /\ r.state = "IN_PROGRESS"
    /\ RateAllowed(rate, r.mandatory, r.first)
    /\ new >= r.percent
    /\ ~Surges(r, position)
    /\ Sets(p, [r EXCEPT !.watched = watched, !.percent = new,
                         !.position = position, !.stamp = clock])
    /\ UNCHANGED earned

(* Variant: the client's word is taken. *)
CompleteVideo_Trusting(p) ==
  LET r == record[p] IN
  \E watched, position \in Seconds :
    /\ r.state = "IN_PROGRESS"
    /\ Sets(p, [r EXCEPT !.state = "COMPLETED", !.percent = 100, !.watched = watched,
                         !.position = position, !.seek = TRUE, !.first = FALSE,
                         !.quiz = @ \/ r.mandatory])
    /\ earned' = IF CalculateProgress(watched, r.total) = 100 THEN earned \cup {p} ELSE earned

(* Variant: the position reached decides, as if nothing had been skipped. *)
CompleteVideo_ByPosition(p) ==
  LET r == record[p] IN
  \E watched, position \in Seconds :
    /\ r.state = "IN_PROGRESS"
    /\ CalculateProgress(position, r.total) = 100
    /\ Sets(p, [r EXCEPT !.state = "COMPLETED", !.percent = 100, !.watched = watched,
                         !.position = position, !.seek = TRUE, !.first = FALSE,
                         !.quiz = @ \/ r.mandatory])
    /\ earned' = earned \cup {p}

(* complete_video: the seconds reported with the request decide. *)
CompleteVideo(p) ==
  LET r == record[p] IN
  \E watched, position \in Seconds :
    /\ r.state = "IN_PROGRESS"
    /\ CalculateProgress(watched, r.total) = 100
    /\ Sets(p, [r EXCEPT !.state = "COMPLETED", !.percent = 100, !.watched = watched,
                         !.position = position, !.seek = TRUE, !.first = FALSE,
                         !.quiz = @ \/ r.mandatory])
    /\ earned' = earned \cup {p}

Tick ==
  /\ clock < MaxClock
  /\ clock' = clock + 1
  /\ UNCHANGED <<catalogVars, record, earned>>

Next ==
  \/ \E p \in Pairs : StartVideo(p) \/ UpdateProgress(p) \/ CompleteVideo(p)
  \/ Tick
  \/ CatalogNext /\ UNCHANGED <<record, clock, earned>>

Spec == Init /\ [][Next]_vars

-----------------------------------------------------------------------------
(* Properties. *)

(* can_start_quiz: a training that is mandatory now needs a record that is  *)
(* completed or was unlocked.                                               *)
CanStartQuiz(p) ==
  IsMandatory(p[2]) => record[p].quiz \/ record[p].state = "COMPLETED"

(* The quiz of a mandatory training is open only to who has completed its   *)
(* video, whether it became mandatory before, during or after the watching. *)
QuizNeedsCompletion ==
  \A p \in Pairs : IsMandatory(p[2]) /\ CanStartQuiz(p) => p \in earned

(* Speed is limited for a first watch and for no other: the mark survives   *)
(* new records and falls with the first completion.                         *)
FirstWatchIsTrue == \A p \in Pairs : record[p].first <=> p \notin earned

(* Who may seek, or take the quiz, has watched as many seconds as the video *)
(* has, also after it was opened again and reported on further: neither a   *)
(* later report nor a position jumped to stands for seconds watched.        *)
CompletedIsWatched ==
  \A p \in Pairs : LET r == record[p] IN
    r.state = "COMPLETED" \/ r.seek \/ r.quiz =>
      r.watched >= r.total /\ r.percent = 100

(* Reported progress is never lost, except that a start begins anew.        *)
ProgressOnlyStartsOver ==
  [][\A p \in Pairs : record'[p].percent < record[p].percent =>
       record'[p] = Fresh("IN_PROGRESS", record'[p].total, IsMandatory(p[2]), record[p].first)]_vars

=============================================================================
