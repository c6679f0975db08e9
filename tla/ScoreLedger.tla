----------------------------- MODULE ScoreLedger -----------------------------
(***************************************************************************)
(* The score of one contact: contacts.score, the score_events log, the     *)
(* capped and decaying contributions of the scoring rules, the adjustments *)
(* by hand or by an automation, the nightly correction, and the grade that *)
(* is computed from the score.                                             *)
(*                                                                         *)
(* The operators here are the database statements.  Who calls them, and    *)
(* what the caller read before, is the business of ContactEvents.          *)
(***************************************************************************)
EXTENDS Integers, FiniteSets, Functions

CONSTANTS
    Events,        \* ids a contact event may get
    Rules,         \* enabled rules that match the scorable events
    Points, MaxScore, DecayDays,   \* scoring_rules; None where the column is null
    Adjustments,   \* adjustments of the score that may be made, each once
    GradeFrom,     \* the score from which the only grading criterion matches
    MaxDay,        \* bound on the clock
    None

ASSUME LedgerAssumption ==
    /\ IsFiniteSet(Events) /\ IsFiniteSet(Rules)
    /\ Points \in [Rules -> Int]
    /\ MaxScore \in [Rules -> (Nat \ {0}) \cup {None}]
    /\ DecayDays \in [Rules -> (Nat \ {0}) \cup {None}]
    /\ \A a \in Adjustments : a.scope \in {"total", "category"} /\ a.op \in {"add", "set"}
                              /\ a.amount \in Int
    /\ MaxDay \in Nat /\ GradeFrom \in Int
    /\ None \notin Int

VARIABLES
    contact,       \* contacts.status; "restored" is active after an archive
    day,           \* the clock, in the whole days scores decay by
    occurred,      \* contact_events.occurred_at, as a day
    score,         \* contacts.score
    logged,        \* SUM(score_events.delta)
    scored,        \* <<event, rule>> of score_events: unique per event and rule
    contribution,  \* score_contributions, by event and rule
    category,      \* contact_category_scores of the category all rules belong to
    grade,         \* contacts.grade_points
    adjusted       \* adjustments that were made, with the delta each one logged

ledger == <<score, logged, scored, contribution, category>>

Active == contact # "archived"

NoContribution == [initial |-> 0, remaining |-> 0, next |-> None]

LedgerInit ==
    /\ contact = "active"
    /\ day = 0
    /\ occurred = [e \in Events |-> None]
    /\ score = 0 /\ logged = 0 /\ category = 0 /\ grade = 0
    /\ scored = {}
    /\ contribution = [k \in Events \X Rules |-> NoContribution]
    /\ adjusted = {}

-----------------------------------------------------------------------------
(* Scoring.                                                                *)

Smaller(a, b) == IF a < b THEN a ELSE b
Larger(a, b) == IF a > b THEN a ELSE b

Elapsed(e, now) == Larger(0, now - occurred[e])

\* remainingContribution: what is left of a contribution on the day now.
Remaining(e, r, initial, now) ==
    IF DecayDays[r] = None THEN initial
    ELSE (initial * Larger(0, DecayDays[r] - Elapsed(e, now))) \div DecayDays[r]

\* nextContributionDecay
NextDecayLate(e, r, now) ==     \* fault: a day is skipped
    IF DecayDays[r] = None \/ Elapsed(e, now) >= DecayDays[r] THEN None
    ELSE occurred[e] + Elapsed(e, now) + 2
NextDecay(e, r, now) ==
    IF DecayDays[r] = None \/ Elapsed(e, now) >= DecayDays[r] THEN None
    ELSE occurred[e] + Elapsed(e, now) + 1

RuleTotal(r) == SumFunction([e \in Events |-> contribution[<<e, r>>].remaining])

\* What the cap leaves of the rule's points, given the contributions there are.
Initial(r) ==
    IF Points[r] > 0 /\ MaxScore[r] # None
    THEN Smaller(Points[r], Larger(0, MaxScore[r] - RuleTotal(r)))
    ELSE Points[r]

Available(e, r, now) ==
    IF Points[r] > 0 THEN Remaining(e, r, Initial(r), now) ELSE Points[r]

\* applyScoreBatch: the rules without a score event of this event, in one batch.
NewEffects(e) == IF Active THEN {r \in Rules : <<e, r>> \notin scored} ELSE {}

ApplyEffects(e, now, new) ==
    LET gain == SumFunction([r \in new |-> Available(e, r, now)])
    IN /\ score' = score + gain
       /\ logged' = logged + gain
       /\ category' = category + gain
       /\ scored' = scored \cup ({e} \X new)
       /\ contribution' = [k \in Events \X Rules |->
              IF k[1] = e /\ k[2] \in new /\ Points[k[2]] > 0
              THEN [initial |-> Initial(k[2]), remaining |-> Available(e, k[2], now),
                    next |-> IF Available(e, k[2], now) > 0 THEN NextDecay(e, k[2], now)
                             ELSE None]
              ELSE contribution[k]]

ApplyScoreAgain(e, now) == ApplyEffects(e, now, Rules)   \* fault: no NOT EXISTS
ApplyScoreArchived(e, now) ==                             \* fault: status not tested
    ApplyEffects(e, now, {r \in Rules : <<e, r>> \notin scored})
ApplyScore(e, now) == ApplyEffects(e, now, NewEffects(e))

-----------------------------------------------------------------------------
(* Decay.  A contribution is read, then swapped with what was read.        *)

Due(now) ==
    {k \in Events \X Rules :
        /\ Active
        /\ contribution[k].next # None /\ contribution[k].next <= now}

\* The row is still what was read and its contact is not archived.
SameRow(k, row) ==
    /\ contribution[k].remaining = row.remaining
    /\ contribution[k].next = row.next
    /\ Active

DecayDelta(k, row, now) == Remaining(k[1], k[2], row.initial, now) - row.remaining

\* next_decay_at after a decay by today's remainder.
DecayedNext(k, row, now) ==
    IF Remaining(k[1], k[2], row.initial, now) > 0 THEN NextDecay(k[1], k[2], now) ELSE None

\* The rounded remainder is the same: only the date moves.
DecayDateOnly(k, row, now) ==
    /\ contribution' = IF SameRow(k, row)
                       THEN [contribution EXCEPT ![k].next = DecayedNext(k, row, now)]
                       ELSE contribution
    /\ UNCHANGED <<score, logged, scored, category>>

\* The batch that wins the swap: score, category, log and contribution together.
DecayBatch(k, row, now) ==
    LET delta == DecayDelta(k, row, now)
    IN /\ score' = score + delta
       /\ logged' = logged + delta
       /\ category' = category + delta
       /\ contribution' = [contribution EXCEPT
              ![k].remaining = row.remaining + delta,
              ![k].next = DecayedNext(k, row, now)]
       /\ UNCHANGED scored

-----------------------------------------------------------------------------
(* Adjustments and the nightly correction.                                 *)

\* adjustContactScore and adjustContactScoreForJob, by the ledger once each.  The
\* amount is logged with the contact also when only the category's score moves.
AdjustScore(a) ==
    LET current == IF a.scope = "total" THEN score ELSE category
        delta == IF a.op = "set" THEN a.amount - current ELSE a.amount
    IN /\ a \in Adjustments /\ \A d \in adjusted : d.of # a
       /\ Active
       /\ score' = IF a.scope = "total" THEN score + delta ELSE score
       /\ category' = IF a.scope = "category" THEN category + delta ELSE category
       /\ logged' = logged + delta
       /\ adjusted' = adjusted \cup {[of |-> a, delta |-> delta]}
       /\ UNCHANGED <<contact, day, occurred, scored, contribution, grade>>

\* reconcileContactScores
ReconcileContactScores ==
    /\ score' = logged
    /\ UNCHANGED <<contact, day, occurred, logged, scored, contribution, category, grade,
                   adjusted>>

-----------------------------------------------------------------------------
(* Grading.                                                                *)

\* One criterion: score >= GradeFrom is worth one step.
GradeOf(s) == IF s >= GradeFrom THEN 1 ELSE 0

\* setGradePoints, conditional on the row the points were computed from.
SetGradeToScore(snapshot) ==    \* fault: the score is written for the points
    grade' = IF Active /\ score = snapshot.score /\ grade = snapshot.grade
             THEN snapshot.score ELSE grade
SetGradePoints(snapshot) ==
    grade' = IF Active /\ score = snapshot.score /\ grade = snapshot.grade
             THEN GradeOf(snapshot.score) ELSE grade

-----------------------------------------------------------------------------
(* Properties.                                                             *)

LedgerTypeOK ==
    /\ contact \in {"active", "archived", "restored"}
    /\ day \in 0 .. MaxDay
    /\ occurred \in [Events -> (0 .. MaxDay) \cup {None}]
    /\ score \in Int /\ logged \in Int /\ category \in Int /\ grade \in {0, 1}
    /\ scored \subseteq Events \X Rules
    /\ contribution \in [Events \X Rules ->
           [initial : Nat, remaining : Nat, next : (0 .. MaxDay + 1) \cup {None}]]
    /\ adjusted \subseteq [of : Adjustments, delta : Int]

\* The score is backed: what the contributions still hold, the penalties that were
\* applied, and the adjustments of the total.  Neither a repeated projection nor two
\* decays of the same contribution may leave a point that nothing accounts for.
ScoreIsBacked ==
    score = SumFunction([k \in Events \X Rules |-> contribution[k].remaining])
          + SumFunction([k \in scored |-> Smaller(Points[k[2]], 0)])
          + SumFunction([d \in adjusted |-> IF d.of.scope = "total" THEN d.delta ELSE 0])

\* A contribution with a next decay holds exactly the share of the day before it, and
\* one without holds all of it for ever or nothing: no day is decayed twice or skipped.
\* A rule never holds more of the score than its maxScore, however its events, their
\* retries and the decay that frees room are interleaved.
OnSchedule(e, r) ==
    LET c == contribution[<<e, r>>]
    IN IF c.next = None
       THEN c.remaining = (IF DecayDays[r] = None THEN c.initial ELSE 0)
       ELSE c.remaining = Remaining(e, r, c.initial, c.next - 1)
ContributionsKept ==
    \A r \in Rules :
        /\ \A e \in Events : OnSchedule(e, r)
        /\ MaxScore[r] # None => RuleTotal(r) <= MaxScore[r]

\* "contacts.score is the materialized total; score_events is an append-only delta log"
\* (maintenance-repository.ts): the score is the sum of the logged deltas.
ScoreIsLogged == score = logged
=============================================================================
