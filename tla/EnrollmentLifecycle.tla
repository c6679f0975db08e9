------------------------- MODULE EnrollmentLifecycle -------------------------
(***************************************************************************)
(* What the engine promises about an enrollment, without jobs, leases,     *)
(* queues and invocations: it walks the graph of its published version one *)
(* node at a time from the source, does each node once, calls each child   *)
(* once, leaves an await node only after the child completed, and ends     *)
(* once; a cancellation takes the whole tree below it along.               *)
(***************************************************************************)
CONSTANTS Enrollments, Nodes, Kind, Edge, Source, Parent, None

VARIABLES
    status,   \* absent, active, completed, failed or cancelled
    at,       \* the node an active enrollment is at
    done      \* the nodes an enrollment has done

vars == <<status, at, done>>

Init ==
    /\ status = [e \in Enrollments |-> "absent"]
    /\ at = [e \in Enrollments |-> None]
    /\ done = [e \in Enrollments |-> {}]

Enter(S) ==
    /\ status' = [e \in Enrollments |-> IF e \in S THEN "active" ELSE status[e]]
    /\ at' = [e \in Enrollments |-> IF e \in S THEN Source[e] ELSE at[e]]
    /\ UNCHANGED done

Begin(e) ==
    /\ Parent[e] = None
    /\ status[e] = "absent"
    /\ Enter({e})

Call(c) ==
    /\ Parent[c] # None
    /\ status[c] = "absent"
    /\ status[Parent[c][1]] = "active"
    /\ at[Parent[c][1]] = Parent[c][2]
    /\ Enter({c})

BranchesOf(n) ==
    CASE Kind[n] = "condition" -> {"yes", "no"}
      [] Kind[n] = "decision"  -> {"yes", "timeout"}
      [] OTHER                 -> {"next"}

\* e may leave its node: its child exists, and has completed if awaited.
MayLeave(e) ==
    \A c \in Enrollments : Parent[c] = <<e, at[e]>> =>
        /\ status[c] # "absent"
        /\ Kind[at[e]] = "await" => status[c] = "completed"

Leave(e) ==
    /\ status[e] = "active"
    /\ MayLeave(e)
    /\ at[e] \notin done[e]
    /\ done' = [done EXCEPT ![e] = @ \cup {at[e]}]
    /\ \E b \in BranchesOf(at[e]) :
         /\ at' = [at EXCEPT ![e] = Edge[at[e]][b]]
         /\ status' = IF Edge[at[e]][b] = None
                      THEN [status EXCEPT ![e] = "completed"] ELSE status

Fail(e) ==
    /\ status[e] = "active"
    /\ status' = [status EXCEPT ![e] = "failed"]
    /\ at' = [at EXCEPT ![e] = None]
    /\ UNCHANGED done

\* A set of enrollments no active child escapes from.
Cancel(S) ==
    /\ \A c \in Enrollments :
         Parent[c] # None /\ Parent[c][1] \in S /\ status[c] = "active" => c \in S
    /\ \A e \in S : status[e] = "active"
    /\ status' = [e \in Enrollments |-> IF e \in S THEN "cancelled" ELSE status[e]]
    /\ at' = [e \in Enrollments |-> IF e \in S THEN None ELSE at[e]]
    /\ UNCHANGED done

Next ==
    \/ \E e \in Enrollments : Begin(e) \/ Call(e) \/ Leave(e) \/ Fail(e)
    \/ \E S \in SUBSET Enrollments : Cancel(S)

Spec == Init /\ [][Next]_vars
=============================================================================
