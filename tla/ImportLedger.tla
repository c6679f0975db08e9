---------------------------- MODULE ImportLedger ----------------------------
(***************************************************************************)
(* What the import of a file of contacts promises, without processors,     *)
(* leases and retries: the parts are taken in order; the rows of a part    *)
(* become contacts, or are rejected, once and together; they are counted   *)
(* once, as what became of them; and the import fails only at a part of    *)
(* which nothing was created.                                              *)
(***************************************************************************)
EXTENDS Integers, FiniteSets

CONSTANTS
    TotalParts,
    RowsOf         \* the rows of each part

Parts == 0 .. TotalParts - 1

VARIABLES
    status,        \* absent, open, completed or failed
    created,       \* rows that became contacts
    decided,       \* parts whose rows have become contacts or were rejected
    counted,       \* parts that were counted
    tally          \* rows processed, succeeded and failed

vars == <<status, created, decided, counted, tally>>

Init ==
    /\ status = "absent"
    /\ created = {}
    /\ decided = 0 /\ counted = 0
    /\ tally = [processed |-> 0, succeeded |-> 0, failed |-> 0]

Start ==
    /\ status = "absent"
    /\ status' = "open"
    /\ UNCHANGED <<created, decided, counted, tally>>

Decide ==
    /\ status = "open" /\ decided = counted
    /\ \E accepted \in SUBSET RowsOf[decided] : created' = created \cup accepted
    /\ decided' = decided + 1
    /\ UNCHANGED <<status, counted, tally>>

Count ==
    /\ status = "open" /\ decided = counted + 1
    /\ counted' = counted + 1
    /\ status' = IF counted' = TotalParts THEN "completed" ELSE "open"
    /\ LET rows == RowsOf[counted]
       IN tally' = [processed |-> tally.processed + Cardinality(rows),
                    succeeded |-> tally.succeeded + Cardinality(rows \cap created),
                    failed |-> tally.failed + Cardinality(rows \ created)]
    /\ UNCHANGED <<created, decided>>

Fail ==
    /\ status = "open" /\ decided = counted
    /\ status' = "failed"
    /\ UNCHANGED <<created, decided, counted, tally>>

Next == Start \/ Decide \/ Count \/ Fail

Spec == Init /\ [][Next]_vars
=============================================================================
