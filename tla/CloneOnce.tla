------------------------------ MODULE CloneOnce ------------------------------
(***************************************************************************)
(* What a clone of a project is promised: its resources appear together,   *)
(* once, while every shared resource they refer to is still there; a clone *)
(* that was given up leaves nothing behind, and one that is done stays so. *)
(***************************************************************************)
CONSTANT Resources

VARIABLES
    outcome,       \* open, failed or done
    copies,        \* resources of the target project
    usable         \* the shared resources are there

vars == <<outcome, copies, usable>>

Init == outcome = "open" /\ copies = {} /\ usable = TRUE

Copy == outcome = "open" /\ usable /\ outcome' = "done" /\ copies' = Resources

GiveUp == outcome = "open" /\ outcome' = "failed" /\ UNCHANGED copies

AskAgain == outcome = "failed" /\ outcome' = "open" /\ UNCHANGED copies

Next ==
    \/ (Copy \/ GiveUp \/ AskAgain) /\ UNCHANGED usable
    \/ usable' \in BOOLEAN /\ UNCHANGED <<outcome, copies>>

Spec == Init /\ [][Next]_vars
=============================================================================
