---------------------- MODULE AutomationEngineLiveness ----------------------
(***************************************************************************)
(* The engine with a finite number of infrastructure faults: crashed       *)
(* invocations, failed publications and leases that run out while their    *)
(* message or worker is still on its way. Everything else may take any     *)
(* order, and whatever can be done is done in the end.                     *)
(***************************************************************************)
EXTENDS AutomationEngine

CONSTANT MaxFaults   \* bound on the faults of one behaviour
ASSUME MaxFaultsAssumption == MaxFaults \in Nat

VARIABLE faults
lvars == <<vars, faults>>

\* Somebody still carries the lease of j: the five minutes are far longer
\* than a queue delivery and a worker, so running out then is a fault.
Carried(j) ==
    \/ \E m \in queue \cup dlq : m = [job |-> j, lease |-> job[j].lease]
    \/ \E p \in Procs : proc[p].job = j /\ proc[p].lease = job[j].lease

\* Fresh lease ids are interchangeable: one of them stands for all.
SomeLease(p) ==
    proc[p].pc = "claim" /\ proc'[p].pc = "publish"
        => proc'[p].lease = CHOOSE l \in Leases : Fresh(l)

LInit == Init /\ faults = 0

Fault ==
    /\ faults < MaxFaults
    /\ faults' = faults + 1
    /\ \/ \E p \in Procs : Crash(p) \/ PublishFails(p)
       \/ \E j \in Jobs : Carried(j) /\ LeaseExpires(j)

Invocation(p) ==
    /\ (Cron(p) \/ Worker(p)) /\ ~PublishFails(p)
    /\ SomeLease(p)
    /\ UNCHANGED faults

LeaseRunsOut(j) == ~Carried(j) /\ LeaseExpires(j) /\ UNCHANGED faults
DeadlineReached(j) == DeadlinePasses(j) /\ UNCHANGED faults

Surroundings ==
    /\ \/ \E e \in Enrollments : Enroll(e) \/ CancelEnrollment(e)
       \/ \E j \in Jobs : RepairParked(j) \/ StoreEvent(j) \/ WakeWaitingDecision(j)
    /\ UNCHANGED faults

LNext ==
    \/ Fault \/ Surroundings
    \/ \E p \in Procs : Invocation(p)
    \/ \E j \in Jobs : LeaseRunsOut(j) \/ DeadlineReached(j)

\* Cron fires every minute and the queue delivers what it holds; time passes.
Fairness ==
    /\ \A p \in Procs : WF_lvars(Invocation(p))
    /\ \A j \in Jobs : WF_lvars(LeaseRunsOut(j)) /\ WF_lvars(DeadlineReached(j))

LiveSpec == LInit /\ [][LNext]_lvars /\ Fairness

\* Every enrollment ends: no crash, lost publication, dead letter or lease
\* that ran out leaves a contact standing at a node for ever.
EnrollmentEnds ==
    \A e \in Enrollments :
        enrollment[e].status = "active" ~> enrollment[e].status \in Outcome
=============================================================================
