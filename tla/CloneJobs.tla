------------------------------ MODULE CloneJobs ------------------------------
(***************************************************************************)
(* The clone of a project: what was captured is staged row by row, a chunk *)
(* of rows an invocation, and when every row is staged the resources are   *)
(* written in one batch.  A lease fences an invocation; it is asked for    *)
(* again by every write, its end only by the last.                         *)
(*                                                                         *)
(* One D1 statement or batch is one action.  A row is staged from what was *)
(* captured with the preview, so what is staged is the same whoever does   *)
(* it.  A process is one invocation; its name stands for its lease id.     *)
(***************************************************************************)
EXTENDS Naturals, FiniteSets, FiniteSetsExt

CONSTANTS
    Size,          \* rows of the preview
    Chunk,         \* rows an invocation stages, 20 in the code
    Procs,
    None

Resources == 1 .. Size

CloneAssumption == Size \in Nat /\ Chunk \in Nat \ {0} /\ None \notin Procs

VARIABLES
    job,           \* the row of project_clone_jobs
    staged,        \* rows of project_clone_mappings with a target row
    copies,        \* resources of the target project
    usable,        \* projectCloneReferenceGuard of every shared reference
    proc           \* what each invocation holds between two awaits

vars == <<job, staged, copies, usable, proc>>

Job == [status : {"preview", "queued", "running", "completed", "failed"},
        lease : Procs \cup {None}, live : BOOLEAN]
Idle == [pc |-> "idle", pending |-> {}]
ProcState == [pc : {"idle", "load", "stage", "remaining", "requeue", "mappings", "materialize",
                    "catch"},
              pending : SUBSET Resources]        \* rows read that are still to be staged

Init ==
    /\ job = [status |-> "preview", lease |-> None, live |-> FALSE]
    /\ staged = {} /\ copies = {} /\ usable = TRUE
    /\ proc = [p \in Procs |-> Idle]

-----------------------------------------------------------------------------
Return(p) == proc' = [proc EXCEPT ![p] = Idle]
Goto(p, pc) == proc' = [proc EXCEPT ![p].pc = pc]

Holds(p) == job.status = "running" /\ job.lease = p
Free(status) == [status |-> status, lease |-> None, live |-> FALSE]

Start ==
    /\ job.status = "preview"
    /\ job' = [job EXCEPT !.status = "queued"]
    /\ UNCHANGED <<staged, copies, usable, proc>>

Retry ==
    /\ job.status = "failed"
    /\ job' = Free("queued")
    /\ UNCHANGED <<staged, copies, usable, proc>>

\* A message that finds the job neither queued nor abandoned has nothing to do.
Claim(p) ==
    /\ proc[p].pc = "idle"
    /\ \/ job.status = "queued"
       \/ job.status = "running" /\ ~job.live
    /\ job' = [status |-> "running", lease |-> p, live |-> TRUE]
    /\ Goto(p, "load")
    /\ UNCHANGED <<staged, copies, usable>>

\* The first rows without a target, in the order of the preview.
LoadChunk(p) ==
    LET missing == Resources \ staged
        chunk == {r \in missing : Cardinality({s \in missing : s < r}) < Chunk}
    IN /\ proc[p].pc = "load"
       /\ proc' = [proc EXCEPT ![p].pending = chunk,
                               ![p].pc = IF chunk = {} THEN "remaining" ELSE "stage"]
       /\ UNCHANGED <<job, staged, copies, usable>>

Stage(p) ==
    LET r == Min(proc[p].pending)
    IN /\ proc[p].pc = "stage"
       /\ staged' = IF Holds(p) THEN staged \cup {r} ELSE staged
       /\ proc' = [proc EXCEPT ![p].pending = @ \ {r},
                      ![p].pc = IF proc[p].pending = {r} THEN "remaining" ELSE "stage"]
       /\ UNCHANGED <<job, copies, usable>>

CheckRemaining(p) ==
    /\ proc[p].pc = "remaining"
    /\ Goto(p, IF staged = Resources THEN "mappings" ELSE "requeue")
    /\ UNCHANGED <<job, staged, copies, usable>>

Requeue(p) ==
    /\ proc[p].pc = "requeue"
    /\ job' = IF Holds(p) THEN Free("queued") ELSE job
    /\ Return(p)
    /\ UNCHANGED <<staged, copies, usable>>

ReadMappings(p) ==
    /\ proc[p].pc = "mappings"
    /\ Goto(p, IF staged = Resources THEN "materialize" ELSE "catch")
    /\ UNCHANGED <<job, staged, copies, usable>>

\* One batch: the lease, the shared references, the inserts under the ids of the preview,
\* and the end of the job.
MayMaterialize == usable /\ copies \cap Resources = {}

Materialize(p) ==
    /\ proc[p].pc = "materialize"
    /\ IF Holds(p) /\ job.live /\ MayMaterialize
       THEN /\ copies' = copies \cup Resources
            /\ job' = Free("completed")
            /\ Return(p)
       ELSE Goto(p, "catch") /\ UNCHANGED <<job, copies>>
    /\ UNCHANGED <<staged, usable>>

\* A row that cannot be staged, or a statement that fails.
Break(p) ==
    /\ proc[p].pc \in {"load", "stage", "remaining", "requeue", "mappings", "materialize"}
    /\ proc' = [proc EXCEPT ![p] = [pc |-> "catch", pending |-> {}]]
    /\ UNCHANGED <<job, staged, copies, usable>>

FailOfAnyone(p) ==             \* fault: whoever has the job now
    /\ proc[p].pc = "catch"
    /\ job' = Free("failed")
    /\ Return(p)
    /\ UNCHANGED <<staged, copies, usable>>
Fail(p) ==
    /\ proc[p].pc = "catch"
    /\ job' = IF Holds(p) THEN Free("failed") ELSE job
    /\ Return(p)
    /\ UNCHANGED <<staged, copies, usable>>

-----------------------------------------------------------------------------
LeaseExpires ==
    /\ job.status = "running" /\ job.live
    /\ job' = [job EXCEPT !.live = FALSE]
    /\ UNCHANGED <<staged, copies, usable, proc>>

\* A shared resource is archived, or comes back.
ReferencesChange ==
    /\ usable' = ~usable
    /\ UNCHANGED <<job, staged, copies, proc>>

Crash(p) ==
    /\ proc[p].pc # "idle"
    /\ Return(p)
    /\ UNCHANGED <<job, staged, copies, usable>>

Process(p) ==
    \/ Claim(p) \/ LoadChunk(p) \/ Stage(p) \/ CheckRemaining(p) \/ Requeue(p)
    \/ ReadMappings(p) \/ Materialize(p) \/ Break(p) \/ Fail(p)

Next ==
    \/ Start \/ Retry \/ LeaseExpires \/ ReferencesChange
    \/ \E p \in Procs : Process(p) \/ Crash(p)

Spec == Init /\ [][Next]_vars
-----------------------------------------------------------------------------
TypeOK ==
    /\ job \in Job
    /\ staged \subseteq Resources /\ copies \subseteq Resources
    /\ usable \in BOOLEAN
    /\ proc \in [Procs -> ProcState]

\* However invocations overlap, fail and are repeated, the resources of a clone are written
\* together and once, and what an overtaken invocation reports does not undo it.
Promise == INSTANCE CloneOnce
    WITH outcome <- CASE job.status = "completed" -> "done"
                      [] job.status = "failed" -> "failed"
                      [] OTHER -> "open"
ImplementsCloneOnce == Promise!Spec
=============================================================================
