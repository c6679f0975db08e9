--------------------------- MODULE MCContactEvents ---------------------------
(* One rule that adds, capped and decaying, and one that takes, for TLC.   *)
EXTENDS ContactEvents, TLC

CONSTANTS visit, spam

FourProjections == <<"scoring", "grade", "campaign", "automation_enrollment">>

\* Which rare things are combined in one behaviour.
Combinations == UNION {SUBSET kinds : kinds \in
    {{"retried", "visit", "identified"}, {"retried", "archived", "restored"},
     {"retried", "adjusted"}, {"visit", "identified", "archived"},
     {"second", "days"}, {"days", "archived"}}}
OnlyAdjusted == {{}, {"adjusted"}}

Symmetry == Permutations(Procs) \cup Permutations(Events)

RulePoints == visit :> 2 @@ spam :> -1
RuleMaxScore == visit :> 3 @@ spam :> None
RuleDecayDays == visit :> 4 @@ spam :> None

TotalAdjustments == {[scope |-> "total", op |-> "set", amount |-> 3]}
CategoryAdjustments == {[scope |-> "category", op |-> "add", amount |-> 5]}
=============================================================================
