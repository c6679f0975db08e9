-------------------------- MODULE AutomationEngine --------------------------
(***************************************************************************)
(* The execution engine of published automations: enrollments, the job of  *)
(* each graph node, the leases that cron dispatchers hand out, the jobs    *)
(* queue with its dead-letter queue, the worker that runs one job, and the *)
(* lease recovery, callable children and cancellation around them.         *)
(*                                                                         *)
(* One D1 statement or batch is one action; what a Worker invocation read  *)
(* before it is kept in proc[p], so that every await is a point where the  *)
(* other invocations, the clock and a crash may come in between.           *)
(***************************************************************************)
EXTENDS Integers, FiniteSets

CONSTANTS
    Enrollments,  \* root and child enrollments that may come to exist
    Nodes,        \* node ids, each of one published graph
    Kind,         \* Kind[n]: what executeNode does at node n
    Edge,         \* Edge[n][b]: target of n's edge of branch b, or None
    Source,       \* Source[e]: the source node of the graph e runs
    Parent,       \* Parent[e]: the call job that may start e, None for a root
    Leases,       \* lease ids; one nobody refers to stands for a fresh uuidv7
    Procs,        \* Worker invocations: queue consumers and cron passes
    MaxStarts,    \* AUTOMATION_MAX_STARTS, 5 in the code
    None

Kinds == {"source", "delay", "decision", "condition", "action", "await", "async"}
Branches == {"next", "yes", "no", "timeout"}

\* A job's id and idempotency key: enrollment:node:contact.
Jobs == Enrollments \X Nodes
Msg == [job : Jobs, lease : Leases]

ASSUME ConstantsAssumption ==
    /\ Kind \in [Nodes -> Kinds]
    /\ Edge \in [Nodes -> [Branches -> Nodes \cup {None}]]
    /\ Source \in [Enrollments -> Nodes]
    /\ Parent \in [Enrollments -> Jobs \cup {None}]
    /\ MaxStarts \in Nat \ {0}
    /\ None \notin Nodes \cup Leases \cup Jobs \cup Enrollments \cup Branches

\* validateAutomation rejects cycles: the nodes can be ranked along the edges.
ASSUME AcyclicAssumption ==
    \E rank \in [Nodes -> 0 .. Cardinality(Nodes)] :
        \A n \in Nodes, b \in Branches :
            Edge[n][b] # None => rank[n] < rank[Edge[n][b]]

\* Only call nodes start a child, and automation_enrollments_parent_job_unique:
\* a job starts one.
ASSUME CallAssumption ==
    \A c \in Enrollments : Parent[c] # None =>
       /\ Kind[Parent[c][2]] \in {"await", "async"}
       /\ \A d \in Enrollments : Parent[c] = Parent[d] => c = d

VARIABLES
    enrollment,   \* automation_enrollments: status and current_node_id
    job,          \* automation_jobs, by idempotency key
    event,        \* the contact event each decision job waits for
    effect,       \* applied score changes of each action job
    queue, dlq,   \* messages that may be delivered: jobs queue, dead letters
    proc          \* what each Worker invocation holds between two awaits

vars == <<enrollment, job, event, effect, queue, dlq, proc>>

Live == {"pending", "leased", "running"}
Leased == {"leased", "running"}
Terminal == {"succeeded", "failed", "cancelled"}
JobStatus == {"absent"} \cup Live \cup Terminal
Outcome == {"completed", "failed", "cancelled"}

JobRow == [status : JobStatus, attempts : Nat, lease : Leases \cup {None},
           expired : BOOLEAN,                     \* lease_until <= now
           dueAt : {"now", "deadline", "never"},  \* "never": 9999-12-31
           elapsed : BOOLEAN,                     \* the deadline has passed
           waiting : BOOLEAN,                     \* payload.waiting
           branch : Branches \cup {None},         \* payload.conditionBranch
           child : BOOLEAN,                       \* payload.waitingChild
           outcome : Outcome \cup {None}]         \* payload.childOutcome

Absent == [status |-> "absent", attempts |-> 0, lease |-> None,
           expired |-> FALSE, dueAt |-> "now", elapsed |-> FALSE,
           waiting |-> FALSE, branch |-> None, child |-> FALSE, outcome |-> None]
NewJob == [Absent EXCEPT !.status = "pending"]

PC == {"idle", "start", "execute", "readChild", "park", "finish", "failure",
       "retry", "failRead", "failWrite", "ack", "nack", "dlqAck",
       "recover", "claim", "publish", "return", "recall"}

ProcState == [pc : PC, job : Jobs \cup {None}, lease : Leases \cup {None},
              status : JobStatus \cup Outcome \cup {None},
              attempts : Nat, waiting : BOOLEAN, branch : Branches \cup {None},
              permanent : BOOLEAN, then : PC \cup {None}]

Idle == [pc |-> "idle", job |-> None, lease |-> None, status |-> None,
         attempts |-> 0, waiting |-> FALSE, branch |-> None,
         permanent |-> FALSE, then |-> None]

Init ==
    /\ enrollment = [e \in Enrollments |-> [status |-> "absent", node |-> None]]
    /\ job = [j \in Jobs |-> Absent]
    /\ event = [j \in Jobs |-> "none"]
    /\ effect = [j \in Jobs |-> 0]
    /\ queue = {}
    /\ dlq = {}
    /\ proc = [p \in Procs |-> Idle]

-----------------------------------------------------------------------------
(* What the statements of the repositories share.                          *)

\* dueAt <= now
Due(r) == r.dueAt = "now" \/ (r.dueAt = "deadline" /\ r.elapsed)

\* The SQL condition id = j, lease_id = l, status = running.
RunningLease(j, l) == job[j].status = "running" /\ job[j].lease = l

\* UPDATE ... SET status, lease_id = NULL, lease_until = NULL
Released(r, s) == [r EXCEPT !.status = s, !.lease = None, !.expired = FALSE]

\* uuidv7(): an id no row, message or invocation refers to.
Fresh(l) ==
    /\ \A j \in Jobs : job[j].lease # l
    /\ \A m \in queue \cup dlq : m.lease # l
    /\ \A p \in Procs : proc[p].lease # l

Message(p) == [job |-> proc[p].job, lease |-> proc[p].lease]

Goto(p, pc) == proc' = [proc EXCEPT ![p].pc = pc]
Return(p) == proc' = [proc EXCEPT ![p] = Idle]

Database == <<enrollment, job, event, effect>>
Queues == <<queue, dlq>>

-----------------------------------------------------------------------------
(* Enrollment and cancellation.                                            *)

\* An event, a batch or the API enrolls a contact: the enrollment and its
\* source job are born in one batch.
Enroll(e) ==
    /\ Parent[e] = None
    /\ enrollment[e].status = "absent"
    /\ enrollment' = [enrollment EXCEPT ![e] = [status |-> "active", node |-> Source[e]]]
    /\ job' = [job EXCEPT ![<<e, Source[e]>>] = NewJob]
    /\ UNCHANGED <<event, effect, queue, dlq, proc>>

\* The enrollments reachable from e through the jobs that called them.
Descendants(e) ==
    {d \in Enrollments : \A S \in SUBSET Enrollments :
        (e \in S /\ \A c \in Enrollments :
                       Parent[c] # None /\ Parent[c][1] \in S => c \in S)
            => d \in S}

\* Fault: only the enrollment itself is cancelled.
CancelWithoutDescendants(e) ==
    /\ enrollment[e].status # "absent"
    /\ job' = [j \in Jobs |-> IF j[1] = e /\ job[j].status \in Live
                              THEN Released(job[j], "cancelled") ELSE job[j]]
    /\ enrollment' = IF enrollment[e].status = "active"
                     THEN [enrollment EXCEPT ![e].status = "cancelled"] ELSE enrollment
    /\ UNCHANGED <<event, effect, queue, dlq, proc>>

CancelEnrollment(e) ==
    /\ enrollment[e].status # "absent"
    /\ LET tree == Descendants(e) IN
       /\ job' = [j \in Jobs |-> IF j[1] \in tree /\ job[j].status \in Live
                                 THEN Released(job[j], "cancelled") ELSE job[j]]
       /\ enrollment' = [d \in Enrollments |->
             IF d \in tree /\ enrollment[d].status = "active"
             THEN [enrollment[d] EXCEPT !.status = "cancelled"] ELSE enrollment[d]]
    /\ UNCHANGED <<event, effect, queue, dlq, proc>>

-----------------------------------------------------------------------------
(* The cron pass: dispatchDueAutomationJobs. A pass handles its rows one   *)
(* after the other; each row is an invocation of its own here.             *)

\* The statement recoverExpiredJobs begins with.
RepairParked(j) ==
    /\ job[j].status = "pending" /\ job[j].lease = None
    /\ job[j].attempts >= MaxStarts
    /\ job[j].waiting
    /\ job' = [job EXCEPT ![j].attempts = 0]
    /\ UNCHANGED <<enrollment, event, effect, queue, dlq, proc>>

RecoverRead(p, j) ==
    /\ proc[p] = Idle
    /\ job[j].status \in Leased /\ job[j].expired
    /\ proc' = [proc EXCEPT ![p] =
          [Idle EXCEPT !.pc = "recover", !.job = j, !.lease = job[j].lease,
                       !.status = job[j].status, !.attempts = job[j].attempts]]
    /\ UNCHANGED <<Database, Queues>>

RecoverWrite(p) ==
    LET q == proc[p]
        j == q.job IN
    /\ q.pc = "recover"
    /\ IF q.attempts >= MaxStarts
       THEN /\ proc' = [proc EXCEPT ![p] =
                  [q EXCEPT !.pc = "failRead", !.then = "idle",
                            !.status = None, !.attempts = 0]]
            /\ UNCHANGED job
       ELSE /\ job' = IF /\ job[j].lease = q.lease /\ job[j].status = q.status
                         /\ job[j].expired
                      THEN [job EXCEPT ![j] = Released(job[j], "pending")] ELSE job
            /\ Return(p)
    /\ UNCHANGED <<enrollment, event, effect, queue, dlq>>

\* claimDueJobs selects candidates, then leases them in a second statement.
ClaimRead(p, j) ==
    /\ proc[p] = Idle
    /\ job[j].status = "pending" /\ Due(job[j])
    /\ job[j].attempts < MaxStarts
    /\ job[j].lease = None \/ job[j].expired
    /\ proc' = [proc EXCEPT ![p] = [Idle EXCEPT !.pc = "claim", !.job = j]]
    /\ UNCHANGED <<Database, Queues>>

ClaimWrite(p, l) ==
    LET j == proc[p].job IN
    /\ proc[p].pc = "claim"
    /\ Fresh(l)
    /\ IF /\ job[j].status = "pending" /\ job[j].attempts < MaxStarts
          /\ job[j].lease = None \/ job[j].expired
       THEN /\ job' = [job EXCEPT ![j].status = "leased", ![j].lease = l,
                                  ![j].expired = FALSE]
            /\ proc' = [proc EXCEPT ![p].pc = "publish", ![p].lease = l]
       ELSE /\ Return(p)
            /\ UNCHANGED job
    /\ UNCHANGED <<enrollment, event, effect, queue, dlq>>

Publish(p) ==
    /\ proc[p].pc = "publish"
    /\ queue' = queue \cup {Message(p)}
    /\ Return(p)
    /\ UNCHANGED <<Database, dlq>>

\* sendBatch threw: whether the broker has the messages or not, the claims of
\* the batch are returned.
PublishFails(p) ==
    /\ proc[p].pc = "publish"
    /\ queue' \in {queue, queue \cup {Message(p)}}
    /\ Goto(p, "return")
    /\ UNCHANGED <<Database, dlq>>

\* Fault: the unused claim also gives a start back.
ReturnClaimAndStart(p) ==
    LET j == proc[p].job IN
    /\ proc[p].pc = "return"
    /\ job' = IF job[j].lease = proc[p].lease /\ job[j].status = "leased"
              THEN [job EXCEPT ![j] = [Released(job[j], "pending") EXCEPT !.attempts = @ - 1]]
              ELSE job
    /\ Return(p)
    /\ UNCHANGED <<enrollment, event, effect, queue, dlq>>

ReturnClaim(p) ==
    LET j == proc[p].job IN
    /\ proc[p].pc = "return"
    /\ job' = IF job[j].lease = proc[p].lease /\ job[j].status = "leased"
              THEN [job EXCEPT ![j] = Released(job[j], "pending")] ELSE job
    /\ Return(p)
    /\ UNCHANGED <<enrollment, event, effect, queue, dlq>>

Children(j) == {c \in Enrollments : Parent[c] = j}
ChildActive(j) == \E c \in Children(j) : enrollment[c].status = "active"

\* AutomationCallRepository.recover: the parent of an ended child is due.
RecallRead(p, j) ==
    /\ proc[p] = Idle
    /\ job[j].status = "pending" /\ job[j].child /\ job[j].outcome = None
    /\ \E c \in Children(j) :
         /\ enrollment[c].status \in Outcome
         /\ proc' = [proc EXCEPT ![p] =
               [Idle EXCEPT !.pc = "recall", !.job = j, !.status = enrollment[c].status]]
    /\ UNCHANGED <<Database, Queues>>

\* Fault: the outcome is stored but the parent is not made due.
RecallWithoutDue(p) ==
    LET j == proc[p].job IN
    /\ proc[p].pc = "recall"
    /\ job' = IF job[j].status = "pending" /\ job[j].outcome = None
              THEN [job EXCEPT ![j].outcome = proc[p].status] ELSE job
    /\ Return(p)
    /\ UNCHANGED <<enrollment, event, effect, queue, dlq>>

RecallWrite(p) ==
    LET j == proc[p].job IN
    /\ proc[p].pc = "recall"
    /\ job' = IF job[j].status = "pending" /\ job[j].outcome = None
              THEN [job EXCEPT ![j].outcome = proc[p].status, ![j].dueAt = "now"]
              ELSE job
    /\ Return(p)
    /\ UNCHANGED <<enrollment, event, effect, queue, dlq>>

-----------------------------------------------------------------------------
(* failJobAndEnrollmentForLease: read the row, then the guarded batch. The *)
(* caller goes on at proc[p].then.                                         *)

Continue(p) ==
    proc' = [proc EXCEPT ![p] =
        CASE proc[p].then = "idle" -> Idle
          [] proc[p].then = "failRead" ->   \* a permanent error: persistDeadLetter
                [proc[p] EXCEPT !.pc = "failRead", !.status = None, !.then = "ack"]
          [] OTHER -> [proc[p] EXCEPT !.pc = proc[p].then, !.status = None, !.then = None]]

FailRead(p) ==
    LET j == proc[p].job IN
    /\ proc[p].pc = "failRead"
    /\ IF job[j].lease = proc[p].lease /\ job[j].status \in Leased
       THEN proc' = [proc EXCEPT ![p].pc = "failWrite", ![p].status = job[j].status]
       ELSE Continue(p)
    /\ UNCHANGED <<Database, Queues>>

\* Fault: the job is failed without its enrollment.
FailJobOnly(p) ==
    LET j == proc[p].job IN
    /\ proc[p].pc = "failWrite"
    /\ job' = IF job[j].lease = proc[p].lease /\ job[j].status = proc[p].status
              THEN [job EXCEPT ![j] = Released(job[j], "failed")] ELSE job
    /\ Continue(p)
    /\ UNCHANGED <<enrollment, event, effect, queue, dlq>>

FailWrite(p) ==
    LET j == proc[p].job
        e == j[1] IN
    /\ proc[p].pc = "failWrite"
    /\ IF job[j].lease = proc[p].lease /\ job[j].status = proc[p].status
       THEN /\ enrollment' = IF enrollment[e].status = "active"
                  THEN [enrollment EXCEPT ![e] = [status |-> "failed", node |-> None]]
                  ELSE enrollment
            /\ job' = [job EXCEPT ![j] = Released(job[j], "failed")]
       ELSE UNCHANGED <<enrollment, job>>
    /\ Continue(p)
    /\ UNCHANGED <<event, effect, queue, dlq>>

-----------------------------------------------------------------------------
(* The queue consumer and processAutomationJob.                            *)

\* findJobForProcessing; a stale message finds no row and is acknowledged.
Deliver(p, m) ==
    LET r == job[m.job] IN
    /\ proc[p] = Idle
    /\ proc' = [proc EXCEPT ![p] =
          IF /\ r.lease = m.lease /\ r.status \in Leased
             /\ enrollment[m.job[1]].status = "active"
          THEN [Idle EXCEPT !.pc = "start", !.job = m.job, !.lease = m.lease,
                            !.status = r.status, !.attempts = r.attempts,
                            !.waiting = r.waiting]
          ELSE [Idle EXCEPT !.pc = "ack", !.job = m.job, !.lease = m.lease]]
    /\ UNCHANGED <<Database, Queues>>

\* startLeasedJob counts the start. Losing it is fatal to the job only when
\* the row that was read had no start left; a row read as running is run again.
Start(p) ==
    LET q == proc[p]
        j == q.job
        started == /\ job[j].status = "leased" /\ job[j].lease = q.lease
                   /\ job[j].attempts < MaxStarts
        running == [q EXCEPT !.pc = "execute", !.status = None, !.attempts = 0] IN
    /\ q.pc = "start"
    /\ job' = IF started
              THEN [job EXCEPT ![j].status = "running", ![j].attempts = @ + 1]
              ELSE job
    /\ proc' = [proc EXCEPT ![p] =
          IF started \/ q.status = "running" THEN running
          ELSE IF q.attempts >= MaxStarts
               THEN [running EXCEPT !.pc = "failRead", !.waiting = FALSE, !.then = "ack"]
               ELSE [running EXCEPT !.pc = "ack", !.waiting = FALSE]]
    /\ UNCHANGED <<enrollment, event, effect, queue, dlq>>

\* executeNode, one action per node type.
Executing(p, kinds) == proc[p].pc = "execute" /\ Kind[proc[p].job[2]] \in kinds

Finishing(p, b) ==
    [proc EXCEPT ![p].pc = "finish", ![p].branch = b, ![p].waiting = FALSE]
Failing(p, permanent) ==
    [proc EXCEPT ![p].pc = "failure", ![p].permanent = permanent,
                 ![p].waiting = FALSE, ![p].branch = None]

RunSource(p) ==
    /\ Executing(p, {"source"})
    /\ proc' = Finishing(p, "next")
    /\ UNCHANGED <<Database, Queues>>

RunDelay(p) ==
    /\ Executing(p, {"delay"})
    /\ IF proc[p].waiting THEN proc' = Finishing(p, "next") ELSE Goto(p, "park")
    /\ UNCHANGED <<Database, Queues>>

\* hasContactEventSince, then the deadline.
RunDecision(p) ==
    LET j == proc[p].job IN
    /\ Executing(p, {"decision"})
    /\ IF event[j] # "none" THEN proc' = Finishing(p, "yes")
       ELSE IF proc[p].waiting \/ job[j].elapsed THEN proc' = Finishing(p, "timeout")
       ELSE Goto(p, "park")
    /\ UNCHANGED <<Database, Queues>>

\* Fault: each evaluation overwrites the stored branch.
RunConditionAgain(p) ==
    LET j == proc[p].job IN
    /\ Executing(p, {"condition"})
    /\ RunningLease(j, proc[p].lease)
    /\ \E b \in {"yes", "no"} :
         /\ job' = [job EXCEPT ![j].branch = b]
         /\ proc' = Finishing(p, b)
    /\ UNCHANGED <<enrollment, event, effect, queue, dlq>>

\* captureCondition keeps the first branch it stored; either may hold now.
RunCondition(p) ==
    LET j == proc[p].job IN
    /\ Executing(p, {"condition"})
    /\ IF RunningLease(j, proc[p].lease)
       THEN \E b \in IF job[j].branch = None THEN {"yes", "no"} ELSE {job[j].branch} :
              /\ job' = [job EXCEPT ![j].branch = b]
              /\ proc' = Finishing(p, b)
       ELSE /\ proc' = Failing(p, FALSE)
            /\ UNCHANGED job
    /\ UNCHANGED <<enrollment, event, effect, queue, dlq>>

\* Faults: no ledger row is looked for; no lease is asked for.
RunActionWithoutLedger(p) ==
    LET j == proc[p].job IN
    /\ Executing(p, {"action"})
    /\ effect' = IF RunningLease(j, proc[p].lease) THEN [effect EXCEPT ![j] = @ + 1] ELSE effect
    /\ proc' = Finishing(p, "next")
    /\ UNCHANGED <<enrollment, job, event, queue, dlq>>
RunActionWithoutLease(p) ==
    LET j == proc[p].job IN
    /\ Executing(p, {"action"})
    /\ effect' = IF effect[j] = 0 THEN [effect EXCEPT ![j] = @ + 1] ELSE effect
    /\ proc' = Finishing(p, "next")
    /\ UNCHANGED <<enrollment, job, event, queue, dlq>>

\* adjustContactScoreForJob: the ledger, the score event and the score in one
\* batch, for a job that holds its running lease and has no ledger row.
RunAction(p) ==
    LET j == proc[p].job IN
    /\ Executing(p, {"action"})
    /\ effect' = IF effect[j] = 0 /\ RunningLease(j, proc[p].lease)
                 THEN [effect EXCEPT ![j] = @ + 1] ELSE effect
    /\ proc' = Finishing(p, "next")
    /\ UNCHANGED <<enrollment, job, event, queue, dlq>>

\* startChild: child enrollment and source job unless they exist, and an
\* awaiting parent is parked while its child is active, in one batch.
StartChild(p, born, parks) ==
    LET j == proc[p].job IN
    /\ Executing(p, {"await", "async"})
    /\ enrollment' = [e \in Enrollments |->
          IF e \in born THEN [status |-> "active", node |-> Source[e]] ELSE enrollment[e]]
    /\ job' = [k \in Jobs |->
          IF k = j /\ parks
          THEN [Released(job[j], "pending") EXCEPT !.attempts = 0, !.dueAt = "never",
                                                   !.child = TRUE]
          ELSE IF \E c \in born : k = <<c, Source[c]>> THEN NewJob ELSE job[k]]
    /\ Goto(p, "readChild")
    /\ UNCHANGED <<event, effect, queue, dlq>>
Unborn(j) == {c \in Children(j) : enrollment[c].status = "absent"}

\* Faults: the child needs no lease; the parent is parked for an ended child.
RunCallWithoutLease(p) ==
    LET j == proc[p].job IN
    StartChild(p, Unborn(j), /\ Kind[j[2]] = "await" /\ RunningLease(j, proc[p].lease)
                             /\ (Unborn(j) # {} \/ ChildActive(j)))
RunCallAlwaysParks(p) ==
    LET j == proc[p].job
        authority == RunningLease(j, proc[p].lease) IN
    StartChild(p, IF authority THEN Unborn(j) ELSE {}, Kind[j[2]] = "await" /\ authority)

RunCall(p) ==
    LET j == proc[p].job
        authority == RunningLease(j, proc[p].lease)
        born == IF authority THEN Unborn(j) ELSE {} IN
    StartChild(p, born, /\ Kind[j[2]] = "await" /\ authority
                        /\ (born # {} \/ ChildActive(j)))

\* The read after the batch, which may see a child that ended in between.
\* Fault: any end of the child lets the parent go on.
ReadChildEnded(p) ==
    LET status == {enrollment[c].status : c \in Children(proc[p].job)} IN
    /\ proc[p].pc = "readChild"
    /\ proc' = IF status \subseteq {"absent"} THEN Failing(p, FALSE)
               ELSE IF status \cap Outcome # {} THEN Finishing(p, "next")
               ELSE [proc EXCEPT ![p].pc = "ack"]
    /\ UNCHANGED <<Database, Queues>>

ReadChild(p) ==
    LET j == proc[p].job
        status == {enrollment[c].status : c \in Children(j)} IN
    /\ proc[p].pc = "readChild"
    /\ proc' = IF status \subseteq {"absent"} THEN Failing(p, FALSE)
               ELSE IF Kind[j[2]] = "async" \/ "completed" \in status
                    THEN Finishing(p, "next")
               ELSE IF "active" \in status THEN [proc EXCEPT ![p].pc = "ack"]
               ELSE Failing(p, TRUE)
    /\ UNCHANGED <<Database, Queues>>

\* Any statement may fail, and an action may be refused for good.
Throw(p) ==
    /\ proc[p].pc \in {"execute", "readChild", "park", "finish"}
    /\ \E permanent \in BOOLEAN :
         /\ permanent => Executing(p, {"action"})
         /\ proc' = Failing(p, permanent)
    /\ UNCHANGED <<Database, Queues>>

\* parkJobUntil: a matching event already stored makes the wait due at once.
\* Faults: any running lease may be parked; stored events are not looked for.
ParkAnyLease(p) ==
    LET j == proc[p].job IN
    /\ proc[p].pc = "park"
    /\ job' = IF job[j].status = "running"
              THEN [job EXCEPT ![j] = [Released(job[j], "pending") EXCEPT
                      !.attempts = 0, !.waiting = TRUE, !.dueAt = "deadline"]] ELSE job
    /\ Goto(p, "ack")
    /\ UNCHANGED <<enrollment, event, effect, queue, dlq>>
ParkBlindly(p) ==
    LET j == proc[p].job IN
    /\ proc[p].pc = "park"
    /\ job' = IF RunningLease(j, proc[p].lease)
              THEN [job EXCEPT ![j] = [Released(job[j], "pending") EXCEPT
                      !.attempts = 0, !.waiting = TRUE, !.dueAt = "deadline"]] ELSE job
    /\ Goto(p, "ack")
    /\ UNCHANGED <<enrollment, event, effect, queue, dlq>>

Park(p) ==
    LET j == proc[p].job
        parked == [Released(job[j], "pending") EXCEPT
                      !.attempts = 0, !.waiting = TRUE, !.branch = None,
                      !.child = FALSE, !.outcome = None,
                      !.elapsed = @ /\ Kind[j[2]] = "decision",
                      !.dueAt = IF event[j] # "none" THEN "now" ELSE "deadline"] IN
    /\ proc[p].pc = "park"
    /\ job' = IF RunningLease(j, proc[p].lease) THEN [job EXCEPT ![j] = parked] ELSE job
    /\ Goto(p, "ack")
    /\ UNCHANGED <<enrollment, event, effect, queue, dlq>>

\* finishNode: completeJobClosingEnrollment or completeJobAdvancingEnrollment.
FinishIf(p, authority) ==
    LET j == proc[p].job
        e == j[1]
        n == Edge[j[2]][proc[p].branch]
        done == [job EXCEPT ![j] = Released(job[j], "succeeded")]
        at == [status |-> IF n = None THEN "completed" ELSE "active", node |-> n] IN
    /\ proc[p].pc = "finish"
    /\ IF authority
       THEN /\ enrollment' = IF enrollment[e].status = "active"
                             THEN [enrollment EXCEPT ![e] = at] ELSE enrollment
            /\ job' = IF n # None /\ job[<<e, n>>].status = "absent"   \* onConflictDoNothing
                      THEN [done EXCEPT ![<<e, n>>] = NewJob] ELSE done
       ELSE UNCHANGED <<enrollment, job>>
    /\ proc' = [proc EXCEPT ![p].pc = "ack", ![p].branch = None]
    /\ UNCHANGED <<event, effect, queue, dlq>>
FinishUnguarded(p) == FinishIf(p, TRUE)   \* fault: no lease is asked for
Finish(p) == FinishIf(p, RunningLease(proc[p].job, proc[p].lease))

\* recordJobFailure reads the attempts first ...
FailureRead(p) ==
    LET q == proc[p]
        j == q.job
        after == IF q.permanent THEN "failRead" ELSE "ack" IN
    /\ q.pc = "failure"
    /\ proc' = [proc EXCEPT ![p] =
          IF ~RunningLease(j, q.lease)   \* "stale"; a permanent error still throws
          THEN [q EXCEPT !.permanent = FALSE, !.pc = after,
                         !.then = IF q.permanent THEN "ack" ELSE None]
          ELSE IF q.permanent \/ job[j].attempts >= MaxStarts
               THEN [q EXCEPT !.permanent = FALSE, !.pc = "failRead", !.then = after]
               ELSE [q EXCEPT !.pc = "retry"]]
    /\ UNCHANGED <<Database, Queues>>

\* ... and hands the running row back to its own lease.
FailureRetry(p) ==
    LET j == proc[p].job IN
    /\ proc[p].pc = "retry"
    /\ job' = IF RunningLease(j, proc[p].lease)
              THEN [job EXCEPT ![j].status = "leased"] ELSE job
    /\ Goto(p, "nack")
    /\ UNCHANGED <<enrollment, event, effect, queue, dlq>>

Ack(p) ==
    /\ proc[p].pc = "ack"
    /\ queue' = queue \ {Message(p)}
    /\ Return(p)
    /\ UNCHANGED <<Database, dlq>>

\* message.retry: delivered again, or dead-lettered by the broker.
Nack(p) ==
    /\ proc[p].pc = "nack"
    /\ \/ UNCHANGED Queues
       \/ queue' = queue \ {Message(p)} /\ dlq' = dlq \cup {Message(p)}
    /\ Return(p)
    /\ UNCHANGED Database

\* The dead-letter consumer: persistDeadLetter, then ack.
DeliverDeadLetter(p, m) ==
    /\ proc[p] = Idle
    /\ proc' = [proc EXCEPT ![p] = [Idle EXCEPT !.pc = "failRead", !.job = m.job,
                                                !.lease = m.lease, !.then = "dlqAck"]]
    /\ UNCHANGED <<Database, Queues>>

DeadLetterAck(p) ==
    /\ proc[p].pc = "dlqAck"
    /\ dlq' = dlq \ {Message(p)}
    /\ Return(p)
    /\ UNCHANGED <<Database, queue>>

-----------------------------------------------------------------------------
(* Time, contact events and crashes.                                       *)

\* lease_until passes; nothing the worker does extends it.
LeaseExpires(j) ==
    /\ job[j].status \in Leased /\ ~job[j].expired
    /\ job' = [job EXCEPT ![j].expired = TRUE]
    /\ UNCHANGED <<enrollment, event, effect, queue, dlq, proc>>

\* A decision's deadline runs from the job's creation, a delay's from parking.
DeadlinePasses(j) ==
    /\ job[j].status \in Live /\ ~job[j].elapsed
    /\ Kind[j[2]] = "decision" \/ (Kind[j[2]] = "delay" /\ job[j].dueAt = "deadline")
    /\ job' = [job EXCEPT ![j].elapsed = TRUE]
    /\ UNCHANGED <<enrollment, event, effect, queue, dlq, proc>>

\* The contact does what the decision waits for: the event row is committed,
\* the decision_wake projection runs later.
StoreEvent(j) ==
    /\ Kind[j[2]] = "decision" /\ job[j].status \in Live
    /\ event[j] = "none"
    /\ event' = [event EXCEPT ![j] = "stored"]
    /\ UNCHANGED <<enrollment, job, effect, queue, dlq, proc>>

WakeWaitingDecision(j) ==
    /\ event[j] = "stored"
    /\ event' = [event EXCEPT ![j] = "woken"]
    /\ job' = IF job[j].status = "pending" /\ job[j].waiting
              THEN [job EXCEPT ![j].dueAt = "now"] ELSE job
    /\ UNCHANGED <<enrollment, effect, queue, dlq, proc>>

\* The invocation is gone; what it committed and its message stay.
Crash(p) ==
    /\ proc[p] # Idle
    /\ Return(p)
    /\ UNCHANGED <<Database, Queues>>

-----------------------------------------------------------------------------

Cron(p) ==
    \/ \E j \in Jobs : RecoverRead(p, j) \/ ClaimRead(p, j) \/ RecallRead(p, j)
    \/ \E l \in Leases : ClaimWrite(p, l)
    \/ RecoverWrite(p) \/ Publish(p) \/ PublishFails(p) \/ ReturnClaim(p)
    \/ RecallWrite(p)

Worker(p) ==
    \/ \E m \in queue : Deliver(p, m)
    \/ Start(p)
    \/ RunSource(p) \/ RunDelay(p) \/ RunDecision(p) \/ RunCondition(p)
    \/ RunAction(p) \/ RunCall(p) \/ ReadChild(p) \/ Throw(p)
    \/ Park(p) \/ Finish(p)
    \/ FailureRead(p) \/ FailureRetry(p)
    \/ FailRead(p) \/ FailWrite(p)
    \/ Ack(p) \/ Nack(p)
    \/ \E m \in dlq : DeliverDeadLetter(p, m)
    \/ DeadLetterAck(p)

Environment ==
    \/ \E e \in Enrollments : Enroll(e) \/ CancelEnrollment(e)
    \/ \E j \in Jobs : \/ RepairParked(j) \/ LeaseExpires(j) \/ DeadlinePasses(j)
                       \/ StoreEvent(j) \/ WakeWaitingDecision(j)
    \/ \E p \in Procs : Crash(p)

Next == Environment \/ \E p \in Procs : Cron(p) \/ Worker(p)

Spec == Init /\ [][Next]_vars

-----------------------------------------------------------------------------
TypeOK ==
    /\ enrollment \in [Enrollments ->
          [status : {"absent", "active"} \cup Outcome, node : Nodes \cup {None}]]
    /\ job \in [Jobs -> JobRow]
    /\ event \in [Jobs -> {"none", "stored", "woken"}]
    /\ effect \in [Jobs -> Nat]
    /\ queue \subseteq Msg
    /\ dlq \subseteq Msg
    /\ proc \in [Procs -> ProcState]

\* An active enrollment has exactly one live job, at its current node, and an
\* ended one has none: no worker, recovery pass, dead letter or cancellation
\* strands an enrollment without a job or lets it walk two nodes at once.
OneLiveJob ==
    \A e \in Enrollments, n \in Nodes :
        job[<<e, n>>].status \in Live
            <=> enrollment[e].status = "active" /\ enrollment[e].node = n

\* A running job is finished, parked, failed or taken back only by an
\* invocation that holds its current lease: a duplicate or late message, a
\* worker whose lease was recovered and an old dead letter change nothing.
FencedStep ==
    \A p \in Procs, j \in Jobs :
        proc'[p] # proc[p] /\ job[j].status = "running" /\ job'[j].status # "running"
            => proc[p].lease = job[j].lease
LeaseFencing == [][FencedStep]_vars

\* However often the message of a job is delivered and its worker retried,
\* its score change is applied once.
EffectOnce == \A j \in Jobs : effect[j] <= 1

\* No worker that still runs applies a score change to an enrollment that was
\* cancelled, failed or finished in the meantime.
ActiveEffectStep ==
    \A j \in Jobs : effect'[j] # effect[j] =>
        job[j].status = "running" /\ enrollment[j[1]].status = "active"
EffectWhileActive == [][ActiveEffectStep]_vars

\* The condition branch a retry takes is the one captured first: what the row
\* records stands, however often the condition is evaluated, and the step that
\* finishes it takes the enrollment along that branch.
CapturedStep ==
    \A e \in Enrollments, n \in Nodes :
        LET j == <<e, n>> IN
        Kind[n] = "condition" =>
           /\ job[j].branch # None => job'[j].branch = job[j].branch
           /\ job[j].status # "succeeded" /\ job'[j].status = "succeeded" =>
                 /\ job[j].branch \in {"yes", "no"}
                 /\ enrollment'[e].node = Edge[n][job[j].branch]
CapturedBranchTaken == [][CapturedStep]_vars

\* A parent that awaits its child goes on only when the child has completed,
\* whichever of the two ends first, is failed or is cancelled.
AwaitedChildCompleted ==
    \A c \in Enrollments :
        Parent[c] # None =>
            /\ Kind[Parent[c][2]] = "await" /\ job[Parent[c]].status = "succeeded"
                 => enrollment[c].status = "completed"
            /\ job[Parent[c]].status = "succeeded" => enrollment[c].status # "absent"

\* A parked parent is never lost: while it waits for ever, its child exists
\* and recover will find the pair once the child has ended.
ParkedParentRecoverable ==
    \A j \in Jobs :
        job[j].status = "pending" /\ job[j].dueAt = "never" =>
            /\ job[j].child /\ job[j].outcome = None
            /\ \E c \in Children(j) : enrollment[c].status # "absent"

\* Cancelling an enrollment leaves no active child below it, now or later.
NoOrphanChild ==
    \A c \in Enrollments :
        Parent[c] # None /\ enrollment[c].status = "active" =>
            enrollment[Parent[c][1]].status # "cancelled"

\* A decision whose event was recorded does not sleep until its deadline,
\* whether the event came before, during or after the parking.
EventWakesDecision ==
    \A j \in Jobs :
        event[j] = "woken" /\ job[j].status = "pending" => Due(job[j])

\* The engine implements the lifecycle: jobs are the nodes an enrollment has
\* done, leases and messages leave no trace.
Lifecycle == INSTANCE EnrollmentLifecycle WITH
    status <- [e \in Enrollments |-> enrollment[e].status],
    at <- [e \in Enrollments |->
             IF enrollment[e].status = "active" THEN enrollment[e].node ELSE None],
    done <- [e \in Enrollments |-> {n \in Nodes : job[<<e, n>>].status = "succeeded"}]
ImplementsLifecycle == Lifecycle!Spec

-----------------------------------------------------------------------------
(* What the code or its documentation says and a stale read can break.     *)

\* "Leases due pending jobs": a delay is over before its job is finished.
DelayHonoured ==
    \A j \in Jobs :
        Kind[j[2]] = "delay" /\ job[j].status = "succeeded" => job[j].elapsed

\* An expired last start is failed with its enrollment: no job is left
\* pending with no start to spend and no repair to give it one.
NoStrandedJob ==
    \A j \in Jobs : job[j].status = "pending" /\ job[j].attempts >= MaxStarts
                        => job[j].waiting
=============================================================================
