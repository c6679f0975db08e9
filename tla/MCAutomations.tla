---------------------------- MODULE MCAutomations ----------------------------
(***************************************************************************)
(* The events of a contact, and the engine on three published graphs.  Of  *)
(* an event the engine reads only whether a decision finds one, so nothing *)
(* is gained from interleaving the two: `graph` chooses at first what      *)
(* moves, the events or the engine on one of its graphs.                   *)
(***************************************************************************)
EXTENDS MCContactEvents

CONSTANTS
    Leases,             \* lease ids of the engine; the .cfg takes the values of Events,
                        \* so that Symmetry permutes them too
    One,                \* one invocation, not of Procs: the symmetry permutes those
    e1, e2,             \* enrollments: a root and the child it may call
    n0, n1, n2, n3, m0  \* nodes of the parent's graph and of the child's

VARIABLES graph, enrollment, job, awaited, effect, queue, dlq, worker

engineVars == <<enrollment, job, awaited, effect, queue, dlq, worker>>
allVars == <<graph, engineVars, vars>>
-----------------------------------------------------------------------------
Targets(t) == [b \in {"next", "yes", "no", "timeout"} |-> IF b \in DOMAIN t THEN t[b] ELSE None]
End == Targets(<<>>)

\* source -> condition, a delay on yes, the end on no
Root == {e1}
StepsNodes == {n0, n1, n2}
StepsKind == n0 :> "source" @@ n1 :> "condition" @@ n2 :> "delay"
StepsEdge == n0 :> Targets("next" :> n1) @@ n1 :> Targets("yes" :> n2) @@ n2 :> End
RootSource == e1 :> n0
NoParent == e1 :> None

\* source -> async child -> decision, a score change on yes, the end on timeout; the child
\* is one source node
Family == {e1, e2}
WaitsNodes == {n0, n1, n2, n3, m0}
WaitsKind == n0 :> "source" @@ n1 :> "async" @@ n2 :> "decision" @@ n3 :> "action"
             @@ m0 :> "source"
WaitsEdge == n0 :> Targets("next" :> n1) @@ n1 :> Targets("next" :> n2)
             @@ n2 :> Targets("yes" :> n3) @@ n3 :> End @@ m0 :> End
FamilySource == e1 :> n0 @@ e2 :> m0
Caller == e1 :> None @@ e2 :> <<e1, n1>>

\* source -> await child
AwaitNodes == {n0, n1, m0}
AwaitKind == n0 :> "source" @@ n1 :> "await" @@ m0 :> "source"
AwaitEdge == n0 :> Targets("next" :> n1) @@ n1 :> End @@ m0 :> End

Steps == INSTANCE AutomationEngine WITH
    Enrollments <- Root, Nodes <- StepsNodes, Kind <- StepsKind, Edge <- StepsEdge,
    Source <- RootSource, Parent <- NoParent, MaxStarts <- 2,
    event <- awaited, proc <- worker
\* One invocation: with two the lease of a job that was parked in between, which the run of
\* DelayHonoured shows, lets a decision sleep on as well.
Waits == INSTANCE AutomationEngine WITH
    Enrollments <- Family, Nodes <- WaitsNodes, Kind <- WaitsKind, Edge <- WaitsEdge,
    Source <- FamilySource, Parent <- Caller, MaxStarts <- 1, Procs <- One,
    event <- awaited, proc <- worker
Await == INSTANCE AutomationEngine WITH
    Enrollments <- Family, Nodes <- AwaitNodes, Kind <- AwaitKind, Edge <- AwaitEdge,
    Source <- FamilySource, Parent <- Caller, MaxStarts <- 1,
    event <- awaited, proc <- worker

-----------------------------------------------------------------------------
AllInit ==
    /\ Init
    /\ \/ graph \in {"events", "steps"} /\ Steps!Init
       \/ graph = "waits" /\ Waits!Init
       \/ graph = "await" /\ Await!Init

Recording == graph = "events"
OnlyRecording == UNCHANGED <<graph, engineVars>>
OnlyEngine == UNCHANGED <<graph, vars>>

AllNext ==
    \/ Recording /\ (\E e \in Events : Record(e)) /\ OnlyRecording
    \/ Recording /\ (\E e \in Events : RecordVisit(e)) /\ OnlyRecording
    \/ Recording /\ (\E e \in Events : Purge(e)) /\ OnlyRecording
    \/ Recording /\ Bind /\ OnlyRecording
    \/ Recording /\ ArchiveContact /\ OnlyRecording
    \/ Recording /\ RestoreContact /\ OnlyRecording
    \/ Recording /\ (\E c \in Adjustments : Adjust(c)) /\ OnlyRecording
    \/ Recording /\ Reconcile /\ OnlyRecording
    \/ Recording /\ NextDay /\ OnlyRecording
    \/ Recording /\ (\E e \in Events : LeaseExpires(e)) /\ OnlyRecording
    \/ Recording /\ (\E e \in Events : RetryFallsDue(e)) /\ OnlyRecording
    \/ Recording /\ HistoryLeaseExpires /\ OnlyRecording
    \/ Recording /\ (\E p \in Procs, e \in Events : Claim(p, e)) /\ OnlyRecording
    \/ Recording /\ (\E p \in Procs : Load(p)) /\ OnlyRecording
    \/ Recording /\ (\E p \in Procs : SkipPending(p)) /\ OnlyRecording
    \/ Recording /\ (\E p \in Procs : List(p)) /\ OnlyRecording
    \/ Recording /\ (\E p \in Procs : SkipReplayed(p)) /\ OnlyRecording
    \/ Recording /\ (\E p \in Procs : CheckContact(p)) /\ OnlyRecording
    \/ Recording /\ (\E p \in Procs : ProjectScoring(p)) /\ OnlyRecording
    \/ Recording /\ (\E p \in Procs : ProjectGrade(p)) /\ OnlyRecording
    \/ Recording /\ (\E p \in Procs : SwapGrade(p)) /\ OnlyRecording
    \/ Recording /\ (\E p \in Procs : ProjectCampaign(p)) /\ OnlyRecording
    \/ Recording /\ (\E p \in Procs : ProjectEnrollment(p)) /\ OnlyRecording
    \/ Recording /\ (\E p \in Procs : Finish(p)) /\ OnlyRecording
    \/ Recording /\ (\E p \in Procs : MarkProcessed(p)) /\ OnlyRecording
    \/ Recording /\ (\E p \in Procs : Fail(p)) /\ OnlyRecording
    \/ Recording /\ (\E p \in Procs : Crash(p)) /\ OnlyRecording
    \/ Recording /\ (\E p \in Procs : ClaimHistory(p)) /\ OnlyRecording
    \/ Recording /\ (\E p \in Procs : FindContact(p)) /\ OnlyRecording
    \/ Recording /\ (\E p \in Procs : ListHistory(p)) /\ OnlyRecording
    \/ Recording /\ (\E p \in Procs : LookForWork(p)) /\ OnlyRecording
    \/ Recording /\ (\E p \in Procs : ReleaseHistory(p)) /\ OnlyRecording
    \/ Recording /\ (\E p \in Procs : FailHistory(p)) /\ OnlyRecording
    \/ Recording /\ (\E p \in Procs : DecayDate(p)) /\ OnlyRecording
    \/ Recording /\ (\E p \in Procs : DecayLoses(p)) /\ OnlyRecording
    \/ Recording /\ (\E p \in Procs, e \in Events : RestoreEvent(p, e)) /\ OnlyRecording
    \/ /\ Recording
       /\ \E p \in Procs, e \in Events, r \in Rules, n \in 0 .. MaxDay : ListDue(p, e, r, n)
       /\ OnlyRecording
    \/ Recording /\ (\E p \in Procs, e \in Events : Decay(p, e)) /\ OnlyRecording
    \/ graph = "steps" /\ Steps!Environment /\ OnlyEngine
    \/ graph = "steps" /\ (\E p \in Procs : Steps!Cron(p)) /\ OnlyEngine
    \/ graph = "steps" /\ (\E p \in Procs : Steps!Worker(p)) /\ OnlyEngine
    \/ graph = "waits" /\ Waits!Environment /\ OnlyEngine
    \/ graph = "waits" /\ (\E p \in One : Waits!Cron(p)) /\ OnlyEngine
    \/ graph = "waits" /\ (\E p \in One : Waits!Worker(p)) /\ OnlyEngine
    \/ graph = "await" /\ Await!Environment /\ OnlyEngine
    \/ graph = "await" /\ (\E p \in Procs : Await!Cron(p)) /\ OnlyEngine
    \/ graph = "await" /\ (\E p \in Procs : Await!Worker(p)) /\ OnlyEngine

AllSpec == AllInit /\ [][AllNext]_allVars
-----------------------------------------------------------------------------
\* The properties of the engine, explained in its module, each on the graph whose faults
\* would break it; those of the events are ContactEvents' own.

EngineTypeOK == graph = "steps" => Steps!TypeOK

\* An active enrollment has one live job, at its node, and an ended one has none.
OneLiveJob == graph = "steps" => Steps!OneLiveJob

\* A score change is applied once, however often its job is delivered and retried.
EffectOnce == graph = "waits" => Waits!EffectOnce

\* A decision whose event was recorded does not sleep until its deadline.
EventWakesDecision == graph = "waits" => Waits!EventWakesDecision

\* A parent that awaits its child goes on only when the child has completed.
AwaitedChildCompleted == graph = "await" => Await!AwaitedChildCompleted

\* A parent parked for ever has a child that recover will find.
ParkedParentRecoverable == graph = "await" => Await!ParkedParentRecoverable

\* Cancelling an enrollment leaves no active child below it.
NoOrphanChild == graph = "await" => Await!NoOrphanChild

\* A running job is taken on only by an invocation that holds its lease.
LeaseFencing == [][graph = "steps" => Steps!FencedStep]_allVars

\* The branch captured first is the one a retry takes.
CapturedBranchTaken == [][graph = "steps" => Steps!CapturedStep]_allVars

\* No worker applies a score change to an enrollment that has ended.
EffectWhileActive == [][graph = "waits" => Waits!ActiveEffectStep]_allVars

\* The engine implements the lifecycle of EnrollmentLifecycle.
ImplementsLifecycle ==
    /\ graph = "await" => Await!Lifecycle!Init
    /\ [][graph = "await" => [Await!Lifecycle!Next]_(Await!Lifecycle!vars)]_allVars
=============================================================================
