----------------------- MODULE AutomationEngineProofs -----------------------
(***************************************************************************)
(* Safety of AutomationEngine for every graph, call tree, number of        *)
(* invocations, leases and starts.                                         *)
(***************************************************************************)
EXTENDS AutomationEngine, TLAPS

\* What an invocation holds at each program counter.
Carrying == {"start", "execute", "readChild", "park", "finish", "failure",
             "retry", "nack", "publish", "return"}
Continuations == {"idle", "failRead", "ack", "dlqAck"}

ProcOK(q) ==
    /\ q.pc # "idle" => q.job \in Jobs
    /\ q.pc \in Carrying => q.lease \in Leases
    /\ q.pc \in {"failRead", "failWrite"} => q.then \in Continuations
    /\ q.pc \in {"failWrite", "recover"} => q.status \in Leased
    /\ q.pc = "recall" => q.status \in Outcome
    /\ q.pc = "finish" => q.branch \in Branches

ProcInv == \A p \in Procs : ProcOK(proc[p])
TInv == TypeOK /\ ProcInv

-----------------------------------------------------------------------------
(* Facts about rows and invocation states.                                 *)

LEMMA IdleOK == Idle \in ProcState /\ ProcOK(Idle)
BY ConstantsAssumption DEF Idle, ProcState, ProcOK, PC, Carrying

LEMMA RowsOK == Absent \in JobRow /\ NewJob \in JobRow
BY DEF Absent, NewJob, JobRow, JobStatus, Live, Terminal

LEMMA ReleasedOK ==
    ASSUME NEW r \in JobRow, NEW s \in JobStatus
    PROVE  /\ Released(r, s) \in JobRow
           /\ Released(r, s).status = s
BY DEF Released, JobRow

\* One invocation moves to a state that is in order; the others stay put.
LEMMA MoveOK ==
    ASSUME proc \in [Procs -> ProcState], ProcInv,
           NEW p \in Procs, NEW q \in ProcState, ProcOK(q),
           proc' = [proc EXCEPT ![p] = q]
    PROVE  proc' \in [Procs -> ProcState] /\ ProcInv'
<1>1. proc' \in [Procs -> ProcState]
  OBVIOUS
<1>2. \A r \in Procs : proc'[r] = IF r = p THEN q ELSE proc[r]
  OBVIOUS
<1>3. ProcInv'
  BY <1>2 DEF ProcInv, ProcOK
<1> QED BY <1>1, <1>3

LEMMA InitTInv == Init => TInv
<1> SUFFICES ASSUME Init PROVE TInv
  OBVIOUS
<1>1. TypeOK
  BY IdleOK, RowsOK DEF Init, TypeOK
<1>2. ProcInv
  BY IdleOK DEF Init, ProcInv
<1> QED BY <1>1, <1>2 DEF TInv

-----------------------------------------------------------------------------
(* Frames: what is left to show of an action for TInv.                     *)

\* Invocation p moves to some state that is in order.
Moves(p) == \E q \in ProcState : ProcOK(q) /\ proc' = [proc EXCEPT ![p] = q]

LEMMA Here ==
    ASSUME TInv, NEW p \in Procs
    PROVE  proc[p] \in ProcState /\ ProcOK(proc[p])
BY DEF TInv, TypeOK, ProcInv

LEMMA Moved ==
    ASSUME TInv, NEW p \in Procs, Moves(p)
    PROVE  proc' \in [Procs -> ProcState] /\ ProcInv'
BY MoveOK DEF TInv, TypeOK, Moves

LEMMA ReturnMoves == ASSUME NEW p \in Procs, Return(p) PROVE Moves(p)
BY IdleOK DEF Return, Moves

LEMMA GotoMoves ==
    ASSUME TInv, NEW p \in Procs, NEW pc \in PC, Goto(p, pc),
           ProcOK([proc[p] EXCEPT !.pc = pc])
    PROVE  Moves(p)
<1>1. [proc[p] EXCEPT !.pc = pc] \in ProcState
  BY DEF TInv, TypeOK, ProcState
<1>2. proc' = [proc EXCEPT ![p] = [proc[p] EXCEPT !.pc = pc]]
  BY DEF Goto, TInv, TypeOK
<1> QED BY <1>1, <1>2 DEF Moves

LEMMA FinishingMoves ==
    ASSUME TInv, NEW p \in Procs, NEW b \in Branches, proc[p].pc # "idle",
           proc[p].lease \in Leases, proc' = Finishing(p, b)
    PROVE  Moves(p)
<1> DEFINE r == [proc[p] EXCEPT !.pc = "finish", !.branch = b, !.waiting = FALSE]
<1>1. proc[p] \in ProcState /\ ProcOK(proc[p])
  BY Here
<1>2. r \in ProcState
  BY <1>1 DEF ProcState, PC
<1>3. ProcOK(r)
  BY <1>1 DEF ProcState, ProcOK, Carrying
<1>4. proc' = [proc EXCEPT ![p] = r]
  BY DEF Finishing, TInv, TypeOK
<1> QED BY <1>2, <1>3, <1>4 DEF Moves

LEMMA FailingMoves ==
    ASSUME TInv, NEW p \in Procs, NEW permanent \in BOOLEAN, proc[p].pc # "idle",
           proc[p].lease \in Leases, proc' = Failing(p, permanent)
    PROVE  Moves(p)
<1> DEFINE r == [proc[p] EXCEPT !.pc = "failure", !.permanent = permanent,
                                !.waiting = FALSE, !.branch = None]
<1>1. proc[p] \in ProcState /\ ProcOK(proc[p])
  BY Here
<1>2. r \in ProcState
  BY <1>1 DEF ProcState, PC
<1>3. ProcOK(r)
  BY <1>1 DEF ProcState, ProcOK, Carrying
<1>4. proc' = [proc EXCEPT ![p] = r]
  BY DEF Failing, TInv, TypeOK
<1> QED BY <1>2, <1>3, <1>4 DEF Moves

LEMMA Framed ==
    ASSUME TInv, NEW p \in Procs, Moves(p), UNCHANGED <<Database, Queues>>
    PROVE  TInv'
BY Moved DEF TInv, TypeOK, Database, Queues

LEMMA FramedRows ==
    ASSUME TInv, NEW p \in Procs, Moves(p), job' \in [Jobs -> JobRow],
           UNCHANGED <<enrollment, event, effect, queue, dlq>>
    PROVE  TInv'
BY Moved DEF TInv, TypeOK

LEMMA FramedProcs ==
    ASSUME TInv, UNCHANGED proc,
           enrollment' \in [Enrollments ->
              [status : {"absent", "active"} \cup Outcome, node : Nodes \cup {None}]],
           job' \in [Jobs -> JobRow],
           event' \in [Jobs -> {"none", "stored", "woken"}],
           UNCHANGED <<effect, queue, dlq>>
    PROVE  TInv'
BY DEF TInv, TypeOK, ProcInv, ProcOK

\* The row an invocation works on, and what releasing it makes of it.
LEMMA RowHere ==
    ASSUME TInv, NEW p \in Procs, proc[p].pc # "idle"
    PROVE  /\ proc[p].job \in Jobs
           /\ job[proc[p].job] \in JobRow
           /\ \A s \in JobStatus : Released(job[proc[p].job], s) \in JobRow
<1>1. proc[p].job \in Jobs
  BY Here DEF ProcOK
<1> QED BY <1>1, ReleasedOK DEF TInv, TypeOK

LEMMA RowWritten ==
    ASSUME TInv, NEW j \in Jobs, NEW r \in JobRow, job' \in {job, [job EXCEPT ![j] = r]}
    PROVE  job' \in [Jobs -> JobRow]
BY DEF TInv, TypeOK

-----------------------------------------------------------------------------
(* The environment.                                                        *)

LEMMA EnrollTInv == ASSUME TInv, NEW e \in Enrollments, Enroll(e) PROVE TInv'
<1>1. Source[e] \in Nodes /\ <<e, Source[e]>> \in Jobs
  BY ConstantsAssumption DEF Jobs
<1>2. job' \in [Jobs -> JobRow]
  BY <1>1, RowsOK, RowWritten DEF Enroll
<1>3. enrollment' \in [Enrollments ->
          [status : {"absent", "active"} \cup Outcome, node : Nodes \cup {None}]]
  BY <1>1 DEF Enroll, TInv, TypeOK
<1> QED BY <1>2, <1>3, FramedProcs DEF Enroll, TInv, TypeOK

LEMMA CancelTInv == ASSUME TInv, NEW e \in Enrollments, CancelEnrollment(e) PROVE TInv'
<1>1. job' \in [Jobs -> JobRow]
  BY ReleasedOK DEF CancelEnrollment, TInv, TypeOK, JobStatus, Terminal
<1>2. enrollment' \in [Enrollments ->
          [status : {"absent", "active"} \cup Outcome, node : Nodes \cup {None}]]
  BY DEF CancelEnrollment, TInv, TypeOK, Outcome
<1> QED BY <1>1, <1>2, FramedProcs DEF CancelEnrollment, TInv, TypeOK

LEMMA RowEventsTInv ==
    ASSUME TInv, NEW j \in Jobs,
           RepairParked(j) \/ LeaseExpires(j) \/ DeadlinePasses(j)
           \/ StoreEvent(j) \/ WakeWaitingDecision(j)
    PROVE  TInv'
<1>1. job[j] \in JobRow
  BY DEF TInv, TypeOK
<1>2. PICK r \in JobRow : job' \in {job, [job EXCEPT ![j] = r]}
  <2>1. /\ [job[j] EXCEPT !.attempts = 0] \in JobRow
        /\ [job[j] EXCEPT !.expired = TRUE] \in JobRow
        /\ [job[j] EXCEPT !.elapsed = TRUE] \in JobRow
        /\ [job[j] EXCEPT !.dueAt = "now"] \in JobRow
    BY <1>1 DEF JobRow
  <2>2. CASE RepairParked(j)
    BY <2>1, <2>2 DEF RepairParked, TInv, TypeOK
  <2>3. CASE LeaseExpires(j)
    BY <2>1, <2>3 DEF LeaseExpires, TInv, TypeOK
  <2>4. CASE DeadlinePasses(j)
    BY <2>1, <2>4 DEF DeadlinePasses, TInv, TypeOK
  <2>5. CASE StoreEvent(j)
    BY <1>1, <2>5 DEF StoreEvent
  <2>6. CASE WakeWaitingDecision(j)
    BY <2>1, <2>6 DEF WakeWaitingDecision, TInv, TypeOK
  <2> QED BY <2>2, <2>3, <2>4, <2>5, <2>6
<1>3. job' \in [Jobs -> JobRow]
  BY <1>2, RowWritten
<1>4. event' \in [Jobs -> {"none", "stored", "woken"}]
  BY DEF RepairParked, LeaseExpires, DeadlinePasses, StoreEvent,
         WakeWaitingDecision, TInv, TypeOK
<1>5. UNCHANGED <<enrollment, effect, queue, dlq, proc>>
  BY DEF RepairParked, LeaseExpires, DeadlinePasses, StoreEvent, WakeWaitingDecision
<1> QED BY <1>3, <1>4, <1>5, FramedProcs DEF TInv, TypeOK

LEMMA CrashTInv == ASSUME TInv, NEW p \in Procs, Crash(p) PROVE TInv'
BY ReturnMoves, Framed DEF Crash

-----------------------------------------------------------------------------
(* The cron pass.                                                          *)

LEMMA RecoverReadTInv ==
    ASSUME TInv, NEW p \in Procs, NEW j \in Jobs, RecoverRead(p, j) PROVE TInv'
<1> DEFINE r == [Idle EXCEPT !.pc = "recover", !.job = j, !.lease = job[j].lease,
                             !.status = job[j].status, !.attempts = job[j].attempts]
<1>1. job[j] \in JobRow
  BY DEF TInv, TypeOK
<1>2. r \in ProcState
  BY <1>1, IdleOK DEF ProcState, PC, JobRow
<1>3. r.pc = "recover" /\ r.job = j /\ r.status = job[j].status
  BY IdleOK DEF ProcState
<1> HIDE DEF r
<1>4. ProcOK(r)
  BY <1>3 DEF RecoverRead, ProcOK, Carrying
<1>5. proc' = [proc EXCEPT ![p] = r]
  BY DEF RecoverRead, r
<1> QED BY <1>2, <1>4, <1>5, Framed DEF RecoverRead, Moves

LEMMA RecoverWriteTInv == ASSUME TInv, NEW p \in Procs, RecoverWrite(p) PROVE TInv'
<1>1. proc[p] \in ProcState /\ ProcOK(proc[p])
  BY Here
<1>2. Moves(p)
  <2> DEFINE r == [proc[p] EXCEPT !.pc = "failRead", !.then = "idle",
                                  !.status = None, !.attempts = 0]
  <2>1. r \in ProcState /\ ProcOK(r)
    BY <1>1 DEF RecoverWrite, ProcState, ProcOK, PC, Carrying, Continuations
  <2>2. CASE proc[p].attempts >= MaxStarts
    BY <2>1, <2>2 DEF RecoverWrite, Moves
  <2>3. CASE ~(proc[p].attempts >= MaxStarts)
    BY <2>3, ReturnMoves DEF RecoverWrite
  <2> QED BY <2>2, <2>3
<1>3. job' \in [Jobs -> JobRow]
  BY RowHere, RowWritten DEF RecoverWrite, JobStatus, Live
<1> QED BY <1>2, <1>3, FramedRows DEF RecoverWrite

LEMMA ClaimReadTInv ==
    ASSUME TInv, NEW p \in Procs, NEW j \in Jobs, ClaimRead(p, j) PROVE TInv'
<1> DEFINE r == [Idle EXCEPT !.pc = "claim", !.job = j]
<1>1. r \in ProcState /\ ProcOK(r)
  BY IdleOK DEF Idle, ProcState, ProcOK, PC, Carrying
<1> QED BY <1>1, Framed DEF ClaimRead, Moves

LEMMA ClaimWriteTInv ==
    ASSUME TInv, NEW p \in Procs, NEW l \in Leases, ClaimWrite(p, l) PROVE TInv'
<1>1. proc[p] \in ProcState /\ ProcOK(proc[p])
  BY Here
<1>2. Moves(p)
  <2> DEFINE r == [proc[p] EXCEPT !.pc = "publish", !.lease = l]
  <2>1. r \in ProcState /\ ProcOK(r)
    BY <1>1 DEF ClaimWrite, ProcState, ProcOK, PC, Carrying
  <2>2. CASE proc' = [proc EXCEPT ![p].pc = "publish", ![p].lease = l]
    BY <2>1, <2>2 DEF Moves, TInv, TypeOK
  <2> QED BY <2>2, ReturnMoves DEF ClaimWrite
<1>3. job' \in [Jobs -> JobRow]
  <2> DEFINE j == proc[p].job
             r == [job[j] EXCEPT !.status = "leased", !.lease = l, !.expired = FALSE]
  <2>1. j \in Jobs /\ job[j] \in JobRow
    BY RowHere DEF ClaimWrite
  <2>2. r \in JobRow
    BY <2>1 DEF JobRow, JobStatus, Live
  <2>3. job' \in {job, [job EXCEPT ![j] = r]}
    BY <2>1 DEF ClaimWrite, TInv, TypeOK
  <2> QED BY <2>1, <2>2, <2>3, RowWritten
<1> QED BY <1>2, <1>3, FramedRows DEF ClaimWrite

LEMMA MessageOK ==
    ASSUME TInv, NEW p \in Procs, proc[p].pc \in Carrying
    PROVE  Message(p) \in Msg
BY Here DEF ProcOK, Carrying, Message, Msg

LEMMA PublishTInv ==
    ASSUME TInv, NEW p \in Procs, Publish(p) \/ PublishFails(p) PROVE TInv'
<1>1. Message(p) \in Msg
  BY MessageOK DEF Publish, PublishFails, Carrying
<1>2. Moves(p)
  <2>1. CASE Publish(p)
    BY <2>1, ReturnMoves DEF Publish
  <2>2. CASE PublishFails(p)
    <3>1. ProcOK([proc[p] EXCEPT !.pc = "return"])
      BY <2>2, Here DEF PublishFails, ProcOK, ProcState, Carrying
    <3> QED BY <2>2, <3>1, GotoMoves DEF PublishFails, PC
  <2> QED BY <2>1, <2>2
<1> QED BY <1>1, <1>2, Moved DEF Publish, PublishFails, TInv, TypeOK, Database

LEMMA ReturnClaimTInv == ASSUME TInv, NEW p \in Procs, ReturnClaim(p) PROVE TInv'
<1>1. job' \in [Jobs -> JobRow]
  BY RowHere, RowWritten DEF ReturnClaim, JobStatus, Live
<1> QED BY <1>1, ReturnMoves, FramedRows DEF ReturnClaim

LEMMA RecallReadTInv ==
    ASSUME TInv, NEW p \in Procs, NEW j \in Jobs, RecallRead(p, j) PROVE TInv'
<1>1. PICK c \in Children(j) :
        /\ enrollment[c].status \in Outcome
        /\ proc' = [proc EXCEPT ![p] =
              [Idle EXCEPT !.pc = "recall", !.job = j, !.status = enrollment[c].status]]
  BY DEF RecallRead
<1> DEFINE r == [Idle EXCEPT !.pc = "recall", !.job = j, !.status = enrollment[c].status]
<1>2. r \in ProcState /\ ProcOK(r)
  BY <1>1, IdleOK DEF Idle, ProcState, ProcOK, PC, Carrying
<1> QED BY <1>1, <1>2, Framed DEF RecallRead, Moves

LEMMA RecallWriteTInv == ASSUME TInv, NEW p \in Procs, RecallWrite(p) PROVE TInv'
<1> DEFINE j == proc[p].job
           r == [job[j] EXCEPT !.outcome = proc[p].status, !.dueAt = "now"]
<1>1. j \in Jobs /\ job[j] \in JobRow /\ proc[p].status \in Outcome
  BY RowHere, Here DEF RecallWrite, ProcOK
<1>2. r \in JobRow
  BY <1>1 DEF JobRow
<1>3. job' \in {job, [job EXCEPT ![j] = r]}
  BY <1>1 DEF RecallWrite, TInv, TypeOK
<1> QED BY <1>1, <1>2, <1>3, RowWritten, ReturnMoves, FramedRows DEF RecallWrite

-----------------------------------------------------------------------------
(* failJobAndEnrollmentForLease.                                           *)

LEMMA ContinueMoves ==
    ASSUME TInv, NEW p \in Procs, proc[p].pc \in {"failRead", "failWrite"}, Continue(p)
    PROVE  Moves(p)
<1> DEFINE q == proc[p]
           a == [q EXCEPT !.pc = "failRead", !.status = None, !.then = "ack"]
           b == [q EXCEPT !.pc = q.then, !.status = None, !.then = None]
<1>1. q \in ProcState /\ ProcOK(q)
  BY Here
<1>2. q.job \in Jobs /\ q.then \in Continuations
  BY <1>1 DEF ProcOK
<1>3. CASE q.then = "idle"
  BY <1>3, IdleOK DEF Continue, Moves
<1>4. CASE q.then = "failRead"
  <2>1. a \in ProcState
    BY <1>1 DEF ProcState, PC
  <2>2. ProcOK(a)
    BY <1>1, <1>2 DEF ProcState, ProcOK, Carrying, Continuations
  <2>3. proc' = [proc EXCEPT ![p] = a]
    BY <1>4 DEF Continue
  <2> QED BY <2>1, <2>2, <2>3 DEF Moves
<1>5. CASE q.then \in {"ack", "dlqAck"}
  <2>1. b \in ProcState
    BY <1>1, <1>5 DEF ProcState, PC
  <2>2. ProcOK(b)
    BY <1>1, <1>2, <1>5 DEF ProcState, ProcOK, Carrying, Continuations
  <2>3. proc' = [proc EXCEPT ![p] = b]
    BY <1>5 DEF Continue
  <2> QED BY <2>1, <2>2, <2>3 DEF Moves
<1> QED BY <1>2, <1>3, <1>4, <1>5 DEF Continuations

LEMMA FailReadTInv == ASSUME TInv, NEW p \in Procs, FailRead(p) PROVE TInv'
<1> DEFINE r == [proc[p] EXCEPT !.pc = "failWrite", !.status = job[proc[p].job].status]
<1>1. proc[p] \in ProcState /\ ProcOK(proc[p])
  BY Here
<1>2. CASE job[proc[p].job].lease = proc[p].lease /\ job[proc[p].job].status \in Leased
  <2>1. r \in ProcState
    BY <1>1, <1>2 DEF ProcState, PC, JobStatus, Live, Leased
  <2>2. ProcOK(r)
    BY <1>1, <1>2 DEF FailRead, ProcState, ProcOK, Carrying
  <2>3. proc' = [proc EXCEPT ![p] = r]
    BY <1>1, <1>2 DEF FailRead, TInv, TypeOK
  <2> QED BY <2>1, <2>2, <2>3, Framed DEF FailRead, Moves
<1>3. CASE ~(job[proc[p].job].lease = proc[p].lease /\ job[proc[p].job].status \in Leased)
  BY <1>3, ContinueMoves, Framed DEF FailRead
<1> QED BY <1>2, <1>3

LEMMA FailWriteTInv == ASSUME TInv, NEW p \in Procs, FailWrite(p) PROVE TInv'
<1> DEFINE j == proc[p].job
<1>1. Moves(p)
  BY ContinueMoves DEF FailWrite
<1>2. j \in Jobs /\ j[1] \in Enrollments
  BY RowHere DEF FailWrite, Jobs
<1>3. job' \in [Jobs -> JobRow]
  BY RowHere, RowWritten DEF FailWrite, JobStatus, Terminal
<1>4. enrollment' \in [Enrollments ->
          [status : {"absent", "active"} \cup Outcome, node : Nodes \cup {None}]]
  BY <1>2 DEF FailWrite, TInv, TypeOK, Outcome
<1> QED BY <1>1, <1>3, <1>4, Moved DEF FailWrite, TInv, TypeOK

-----------------------------------------------------------------------------
(* The queue consumer.                                                     *)

LEMMA DeliverTInv == ASSUME TInv, NEW p \in Procs, NEW m \in queue, Deliver(p, m) PROVE TInv'
<1> DEFINE r == job[m.job]
           a == [Idle EXCEPT !.pc = "start", !.job = m.job, !.lease = m.lease,
                             !.status = r.status, !.attempts = r.attempts,
                             !.waiting = r.waiting]
           b == [Idle EXCEPT !.pc = "ack", !.job = m.job, !.lease = m.lease]
<1>1. m.job \in Jobs /\ m.lease \in Leases /\ r \in JobRow
  BY DEF TInv, TypeOK, Msg
<1>2. a \in ProcState /\ b \in ProcState
  BY <1>1 DEF Idle, ProcState, PC, JobRow
<1>3. ProcOK(a) /\ ProcOK(b)
  BY <1>1 DEF Idle, ProcOK, Carrying
<1>4. proc' \in {[proc EXCEPT ![p] = a], [proc EXCEPT ![p] = b]}
  BY DEF Deliver
<1> QED BY <1>2, <1>3, <1>4, Framed DEF Deliver, Moves

LEMMA StartTInv == ASSUME TInv, NEW p \in Procs, Start(p) PROVE TInv'
<1> DEFINE q == proc[p]
           j == q.job
           running == [q EXCEPT !.pc = "execute", !.status = None, !.attempts = 0]
           a == [running EXCEPT !.pc = "failRead", !.waiting = FALSE, !.then = "ack"]
           b == [running EXCEPT !.pc = "ack", !.waiting = FALSE]
           r == [job[j] EXCEPT !.status = "running", !.attempts = @ + 1]
<1>1. q \in ProcState /\ ProcOK(q) /\ j \in Jobs /\ job[j] \in JobRow
  BY Here, RowHere DEF Start
<1>2. q.lease \in Leases
  BY <1>1 DEF Start, ProcOK, Carrying
<1>3. running \in ProcState /\ a \in ProcState /\ b \in ProcState
  BY <1>1 DEF ProcState, PC
<1>4. ProcOK(running) /\ ProcOK(a) /\ ProcOK(b)
  BY <1>1, <1>2 DEF ProcOK, ProcState, Carrying, Continuations
<1>5. proc' \in {[proc EXCEPT ![p] = running], [proc EXCEPT ![p] = a], [proc EXCEPT ![p] = b]}
  BY DEF Start
<1>6. Moves(p)
  BY <1>3, <1>4, <1>5 DEF Moves
<1>7. r \in JobRow
  <2>1. job[j].attempts + 1 \in Nat /\ "running" \in JobStatus
    BY <1>1 DEF JobRow, JobStatus, Live
  <2>2. \A a1 \in Nat, s1 \in JobStatus :
          [job[j] EXCEPT !.status = s1, !.attempts = a1] \in JobRow
    BY <1>1 DEF JobRow
  <2> QED BY <2>1, <2>2
<1>8. job' \in {job, [job EXCEPT ![j] = r]}
  BY <1>1 DEF Start, TInv, TypeOK
<1> QED BY <1>1, <1>6, <1>7, <1>8, RowWritten, FramedRows DEF Start

LEMMA ExecutingOK ==
    ASSUME TInv, NEW p \in Procs, proc[p].pc = "execute"
    PROVE  /\ proc[p].lease \in Leases
           /\ proc[p].job \in Jobs /\ job[proc[p].job] \in JobRow
           /\ ProcOK([proc[p] EXCEPT !.pc = "park"])
           /\ ProcOK([proc[p] EXCEPT !.pc = "readChild"])
<1>1. proc[p] \in ProcState /\ ProcOK(proc[p])
  BY Here
<1>2. proc[p].lease \in Leases /\ proc[p].job \in Jobs
  BY <1>1 DEF ProcOK, Carrying
<1>3. /\ ProcOK([proc[p] EXCEPT !.pc = "park"])
      /\ ProcOK([proc[p] EXCEPT !.pc = "readChild"])
  BY <1>1, <1>2 DEF ProcOK, ProcState, Carrying
<1> QED BY <1>2, <1>3, RowHere

LEMMA RunWaitTInv ==
    ASSUME TInv, NEW p \in Procs, RunSource(p) \/ RunDelay(p) \/ RunDecision(p)
    PROVE  TInv'
<1>1. proc[p].pc = "execute"
  BY DEF RunSource, RunDelay, RunDecision, Executing
<1>2. proc' \in {Finishing(p, b) : b \in Branches} \/ Goto(p, "park")
  BY DEF RunSource, RunDelay, RunDecision, Branches
<1>3. Moves(p)
  BY <1>1, <1>2, ExecutingOK, FinishingMoves, GotoMoves DEF PC
<1> QED BY <1>3, Framed DEF RunSource, RunDelay, RunDecision

LEMMA RunConditionTInv == ASSUME TInv, NEW p \in Procs, RunCondition(p) PROVE TInv'
<1> DEFINE j == proc[p].job
<1>1. proc[p].pc = "execute" /\ j \in Jobs /\ job[j] \in JobRow
  BY ExecutingOK DEF RunCondition, Executing
<1>2. CASE RunningLease(j, proc[p].lease)
  <2>1. PICK b \in IF job[j].branch = None THEN {"yes", "no"} ELSE {job[j].branch} :
          job' = [job EXCEPT ![j].branch = b] /\ proc' = Finishing(p, b)
    BY <1>2 DEF RunCondition
  <2>2. b \in Branches
    BY <1>1, <2>1 DEF JobRow, Branches
  <2>3. [job[j] EXCEPT !.branch = b] \in JobRow
    BY <1>1, <2>2 DEF JobRow
  <2>4. job' \in [Jobs -> JobRow]
    BY <1>1, <2>1, <2>3 DEF TInv, TypeOK
  <2>5. Moves(p)
    BY <1>1, <2>1, <2>2, ExecutingOK, FinishingMoves
  <2> QED BY <2>4, <2>5, FramedRows DEF RunCondition
<1>3. CASE ~RunningLease(j, proc[p].lease)
  <2>1. Moves(p)
    BY <1>1, <1>3, ExecutingOK, FailingMoves DEF RunCondition
  <2>2. UNCHANGED <<Database, Queues>>
    BY <1>3 DEF RunCondition, Database, Queues
  <2> QED BY <2>1, <2>2, Framed
<1> QED BY <1>2, <1>3

LEMMA RunActionTInv == ASSUME TInv, NEW p \in Procs, RunAction(p) PROVE TInv'
<1>1. proc[p].pc = "execute" /\ proc[p].job \in Jobs
  BY ExecutingOK DEF RunAction, Executing
<1>2. Moves(p)
  BY <1>1, ExecutingOK, FinishingMoves DEF RunAction, Branches
<1>3. effect' \in [Jobs -> Nat]
  BY <1>1 DEF RunAction, TInv, TypeOK
<1> QED BY <1>2, <1>3, Moved DEF RunAction, TInv, TypeOK

LEMMA RunCallTInv == ASSUME TInv, NEW p \in Procs, RunCall(p) PROVE TInv'
<1> DEFINE j == proc[p].job
           authority == RunningLease(j, proc[p].lease)
           born == IF authority THEN Unborn(j) ELSE {}
           parks == /\ Kind[j[2]] = "await" /\ authority
                    /\ (born # {} \/ ChildActive(j))
<1>1. StartChild(p, born, parks)
  BY DEF RunCall
<1>2. proc[p].pc = "execute" /\ j \in Jobs /\ job[j] \in JobRow
  BY <1>1, ExecutingOK DEF StartChild, Executing
<1>3. Moves(p)
  BY <1>1, <1>2, ExecutingOK, GotoMoves DEF StartChild, PC
<1>4. enrollment' \in [Enrollments ->
          [status : {"absent", "active"} \cup Outcome, node : Nodes \cup {None}]]
  <2>1. \A e \in Enrollments :
          enrollment'[e] \in [status : {"absent", "active"} \cup Outcome, node : Nodes \cup {None}]
    BY <1>1, ConstantsAssumption DEF StartChild, TInv, TypeOK
  <2> QED BY <1>1, <2>1 DEF StartChild
<1>5. job' \in [Jobs -> JobRow]
  <2> DEFINE r == [Released(job[j], "pending") EXCEPT !.attempts = 0, !.dueAt = "never",
                                                      !.child = TRUE]
  <2>1. Released(job[j], "pending") \in JobRow
    BY <1>2, ReleasedOK DEF JobStatus, Live
  <2>2. r \in JobRow
    BY <2>1 DEF JobRow
  <2>3. \A k \in Jobs : job'[k] \in {r, NewJob, job[k]}
    BY <1>1 DEF StartChild
  <2> QED BY <1>1, <2>2, <2>3, RowsOK DEF StartChild, TInv, TypeOK
<1> QED BY <1>1, <1>3, <1>4, <1>5, Moved DEF StartChild, TInv, TypeOK

LEMMA ReadChildTInv == ASSUME TInv, NEW p \in Procs, ReadChild(p) PROVE TInv'
<1>1. proc[p] \in ProcState /\ ProcOK(proc[p]) /\ proc[p].lease \in Leases
  BY Here DEF ReadChild, ProcOK, Carrying
<1>2. \/ proc' = Failing(p, FALSE) \/ proc' = Failing(p, TRUE)
      \/ proc' = Finishing(p, "next") \/ Goto(p, "ack")
  BY DEF ReadChild, Goto
<1>3. ProcOK([proc[p] EXCEPT !.pc = "ack"])
  BY <1>1 DEF ReadChild, ProcOK, ProcState, Carrying
<1>4. Moves(p)
  BY <1>1, <1>2, <1>3, FailingMoves, FinishingMoves, GotoMoves DEF ReadChild, PC, Branches
<1> QED BY <1>4, Framed DEF ReadChild

LEMMA ThrowTInv == ASSUME TInv, NEW p \in Procs, Throw(p) PROVE TInv'
<1>1. proc[p].lease \in Leases /\ proc[p].pc # "idle"
  BY Here DEF Throw, ProcOK, Carrying
<1> QED BY <1>1, FailingMoves, Framed DEF Throw

LEMMA ParkTInv == ASSUME TInv, NEW p \in Procs, Park(p) PROVE TInv'
<1> DEFINE j == proc[p].job
           parked == [Released(job[j], "pending") EXCEPT
                      !.attempts = 0, !.waiting = TRUE, !.branch = None,
                      !.child = FALSE, !.outcome = None,
                      !.elapsed = @ /\ Kind[j[2]] = "decision",
                      !.dueAt = IF event[j] # "none" THEN "now" ELSE "deadline"]
<1>1. proc[p] \in ProcState /\ ProcOK(proc[p]) /\ j \in Jobs /\ job[j] \in JobRow
  BY Here, RowHere DEF Park
<1>2. ProcOK([proc[p] EXCEPT !.pc = "ack"])
  BY <1>1 DEF ProcOK, Park, Carrying, ProcState
<1>3. Moves(p)
  BY <1>2, GotoMoves DEF Park, PC
<1>4. Released(job[j], "pending") \in JobRow
  BY <1>1, ReleasedOK DEF JobStatus, Live
<1>5. parked \in JobRow
  <2> DEFINE freed == Released(job[j], "pending")
             elapsed == freed.elapsed /\ Kind[j[2]] = "decision"
             due == IF event[j] # "none" THEN "now" ELSE "deadline"
  <2>1. freed \in JobRow /\ elapsed \in BOOLEAN /\ due \in {"now", "deadline"}
    BY <1>4
  <2> HIDE DEF freed, elapsed, due
  <2>2. [freed EXCEPT !.attempts = 0, !.waiting = TRUE, !.branch = None, !.child = FALSE,
                      !.outcome = None, !.elapsed = elapsed, !.dueAt = due] \in JobRow
    BY <2>1 DEF JobRow
  <2> QED BY <2>2 DEF freed, elapsed, due
<1>6. job' \in {job, [job EXCEPT ![j] = parked]}
  BY DEF Park
<1> QED BY <1>1, <1>3, <1>5, <1>6, RowWritten, FramedRows DEF Park

LEMMA FinishTInv == ASSUME TInv, NEW p \in Procs, Finish(p) PROVE TInv'
<1> DEFINE j == proc[p].job
           e == j[1]
           n == Edge[j[2]][proc[p].branch]
           r == [proc[p] EXCEPT !.pc = "ack", !.branch = None]
           done == [job EXCEPT ![j] = Released(job[j], "succeeded")]
           at == [status |-> IF n = None THEN "completed" ELSE "active", node |-> n]
<1>1. proc[p] \in ProcState /\ ProcOK(proc[p]) /\ j \in Jobs /\ job[j] \in JobRow
  BY Here, RowHere DEF Finish, FinishIf
<1>2. proc[p].branch \in Branches
  BY <1>1 DEF Finish, FinishIf, ProcOK
<1>3. e \in Enrollments /\ j[2] \in Nodes /\ n \in Nodes \cup {None}
  BY <1>1, <1>2, ConstantsAssumption DEF Jobs
<1>4. Moves(p)
  <2>1. r \in ProcState
    BY <1>1 DEF ProcState, PC
  <2>2. ProcOK(r)
    BY <1>1 DEF ProcState, ProcOK, Carrying, Finish, FinishIf
  <2>3. proc' = [proc EXCEPT ![p] = r]
    BY <1>1 DEF Finish, FinishIf, TInv, TypeOK
  <2> QED BY <2>1, <2>2, <2>3 DEF Moves
<1>5. done \in [Jobs -> JobRow]
  BY <1>1, ReleasedOK DEF TInv, TypeOK, JobStatus, Terminal
<1>6. job' \in [Jobs -> JobRow]
  <2>1. job' \in {job, done, [done EXCEPT ![<<e, n>>] = NewJob]}
    BY DEF Finish, FinishIf
  <2> QED BY <1>5, <2>1, RowsOK DEF TInv, TypeOK
<1>7. enrollment' \in [Enrollments ->
          [status : {"absent", "active"} \cup Outcome, node : Nodes \cup {None}]]
  <2>1. enrollment' \in {enrollment, [enrollment EXCEPT ![e] = at]}
    BY DEF Finish, FinishIf
  <2> QED BY <1>3, <2>1 DEF TInv, TypeOK, Outcome
<1> QED BY <1>4, <1>6, <1>7, Moved DEF Finish, FinishIf, TInv, TypeOK

LEMMA FailureReadTInv == ASSUME TInv, NEW p \in Procs, FailureRead(p) PROVE TInv'
<1> DEFINE q == proc[p]
           after == IF q.permanent THEN "failRead" ELSE "ack"
           stale == [q EXCEPT !.permanent = FALSE, !.pc = after,
                              !.then = IF q.permanent THEN "ack" ELSE None]
           fail == [q EXCEPT !.permanent = FALSE, !.pc = "failRead", !.then = after]
           retry == [q EXCEPT !.pc = "retry"]
<1>1. q \in ProcState /\ ProcOK(q) /\ q.job \in Jobs /\ q.lease \in Leases
  BY Here DEF FailureRead, ProcOK, Carrying
<1>2. stale \in ProcState /\ fail \in ProcState /\ retry \in ProcState
  <2>1. after \in PC /\ (IF q.permanent THEN "ack" ELSE None) \in PC \cup {None}
    BY DEF PC
  <2>2. /\ \A pc \in PC, t \in PC \cup {None} :
            [q EXCEPT !.permanent = FALSE, !.pc = pc, !.then = t] \in ProcState
        /\ \A pc \in PC : [q EXCEPT !.pc = pc] \in ProcState
    BY <1>1 DEF ProcState
  <2> QED BY <2>1, <2>2 DEF PC
<1>3. ProcOK(stale) /\ ProcOK(fail) /\ ProcOK(retry)
  BY <1>1 DEF ProcOK, ProcState, Carrying, Continuations
<1>4. proc' \in {[proc EXCEPT ![p] = stale], [proc EXCEPT ![p] = fail],
                 [proc EXCEPT ![p] = retry]}
  BY DEF FailureRead
<1> QED BY <1>2, <1>3, <1>4, Framed DEF FailureRead, Moves

LEMMA FailureRetryTInv == ASSUME TInv, NEW p \in Procs, FailureRetry(p) PROVE TInv'
<1> DEFINE j == proc[p].job
           r == [job[j] EXCEPT !.status = "leased"]
<1>1. proc[p] \in ProcState /\ ProcOK(proc[p]) /\ j \in Jobs /\ job[j] \in JobRow
  BY Here, RowHere DEF FailureRetry
<1>2. ProcOK([proc[p] EXCEPT !.pc = "nack"])
  BY <1>1 DEF ProcOK, FailureRetry, Carrying, ProcState
<1>3. Moves(p)
  BY <1>2, GotoMoves DEF FailureRetry, PC
<1>4. r \in JobRow
  BY <1>1 DEF JobRow, JobStatus, Live
<1>5. job' \in {job, [job EXCEPT ![j] = r]}
  BY <1>1 DEF FailureRetry, TInv, TypeOK
<1> QED BY <1>1, <1>3, <1>4, <1>5, RowWritten, FramedRows DEF FailureRetry

LEMMA AckTInv ==
    ASSUME TInv, NEW p \in Procs, Ack(p) \/ Nack(p) \/ DeadLetterAck(p) PROVE TInv'
<1>1. Moves(p)
  BY ReturnMoves DEF Ack, Nack, DeadLetterAck
<1>2. queue' \subseteq Msg /\ dlq' \subseteq Msg
  BY MessageOK DEF Ack, Nack, DeadLetterAck, TInv, TypeOK, Carrying, Queues
<1> QED BY <1>1, <1>2, Moved DEF Ack, Nack, DeadLetterAck, TInv, TypeOK, Database

LEMMA DeliverDeadLetterTInv ==
    ASSUME TInv, NEW p \in Procs, NEW m \in dlq, DeliverDeadLetter(p, m) PROVE TInv'
<1> DEFINE r == [Idle EXCEPT !.pc = "failRead", !.job = m.job, !.lease = m.lease,
                             !.then = "dlqAck"]
<1>1. m.job \in Jobs /\ m.lease \in Leases
  BY DEF TInv, TypeOK, Msg
<1>2. r \in ProcState /\ ProcOK(r)
  BY <1>1 DEF Idle, ProcState, PC, ProcOK, Carrying, Continuations
<1> QED BY <1>2, Framed DEF DeliverDeadLetter, Moves

-----------------------------------------------------------------------------

LEMMA NextTInv == ASSUME TInv, [Next]_vars PROVE TInv'
<1>1. CASE Environment
  BY <1>1, EnrollTInv, CancelTInv, RowEventsTInv, CrashTInv DEF Environment
<1>2. ASSUME NEW p \in Procs, Cron(p) PROVE TInv'
  BY <1>2, RecoverReadTInv, ClaimReadTInv, RecallReadTInv, ClaimWriteTInv,
     RecoverWriteTInv, PublishTInv, ReturnClaimTInv, RecallWriteTInv DEF Cron
<1>3. ASSUME NEW p \in Procs, Worker(p) PROVE TInv'
  BY <1>3, DeliverTInv, StartTInv, RunWaitTInv, RunConditionTInv, RunActionTInv,
     RunCallTInv, ReadChildTInv, ThrowTInv, ParkTInv, FinishTInv, FailureReadTInv,
     FailureRetryTInv, FailReadTInv, FailWriteTInv, AckTInv, DeliverDeadLetterTInv
  DEF Worker
<1>4. CASE UNCHANGED vars
  BY <1>4 DEF vars, TInv, TypeOK, ProcInv, ProcOK
<1> QED BY <1>1, <1>2, <1>3, <1>4 DEF Next

\* Every row, message and invocation has its type, whatever the interleaving
\* of cron passes, consumers, cancellations and crashes.
THEOREM TypeCorrect == Spec => []TypeOK
<1>1. Init => TInv
  BY InitTInv
<1>2. TInv /\ [Next]_vars => TInv'
  BY NextTInv
<1>3. TInv => TypeOK
  BY DEF TInv
<1> QED BY <1>1, <1>2, <1>3, PTL DEF Spec

-----------------------------------------------------------------------------
(* An enrollment never loses its one live job and never gains a second.    *)
(*                                                                         *)
(* OneLiveJob is not inductive.  finishNode inserts the job of the next    *)
(* node with ON CONFLICT DO NOTHING, so a job already there would leave    *)
(* the enrollment without a live one.  There is none, because graphs are   *)
(* acyclic: every job an active enrollment has lies at or before its       *)
(* current node.  Walked says so for a ranking of the nodes.               *)

Ranking == {rank \in [Nodes -> 0 .. Cardinality(Nodes)] :
               \A n \in Nodes, b \in Branches :
                   Edge[n][b] # None => rank[n] < rank[Edge[n][b]]}

Walked(rank) ==
    \A e \in Enrollments, n \in Nodes :
        job[<<e, n>>].status # "absent" =>
            /\ enrollment[e].status # "absent"
            /\ enrollment[e].status = "active" =>
                  n = enrollment[e].node \/ rank[n] < rank[enrollment[e].node]

ActiveSomewhere ==
    \A e \in Enrollments : enrollment[e].status = "active" => enrollment[e].node \in Nodes

SInv(rank) == TInv /\ ActiveSomewhere /\ OneLiveJob /\ Walked(rank)

-----------------------------------------------------------------------------
(* Steps that leave enrollments alone and only move rows between pending,  *)
(* leased and running.                                                     *)

Steady ==
    /\ UNCHANGED enrollment
    /\ \A k \in Jobs : \/ job'[k].status = job[k].status
                       \/ job[k].status \in Live /\ job'[k].status \in Live

LEMMA SteadyKeeps ==
    ASSUME NEW rank \in Ranking, SInv(rank), Steady
    PROVE  ActiveSomewhere' /\ OneLiveJob' /\ Walked(rank)'
<1>1. \A e \in Enrollments, n \in Nodes :
        /\ job'[<<e, n>>].status \in Live <=> job[<<e, n>>].status \in Live
        /\ job'[<<e, n>>].status = "absent" <=> job[<<e, n>>].status = "absent"
  BY DEF Steady, Live, Jobs
<1> QED BY <1>1 DEF SInv, Steady, ActiveSomewhere, OneLiveJob, Walked

LEMMA OneRowSteady ==
    ASSUME TInv, UNCHANGED enrollment, NEW j \in Jobs, NEW r,
           r.status = job[j].status \/ (job[j].status \in Live /\ r.status \in Live),
           job' \in {job, [job EXCEPT ![j] = r]}
    PROVE  Steady
BY DEF TInv, TypeOK, Steady

LEMMA UnchangedSteady ==
    ASSUME UNCHANGED <<enrollment, job>> PROVE Steady
BY DEF Steady

LEMMA RowEventsSteady ==
    ASSUME TInv, NEW j \in Jobs,
           RepairParked(j) \/ LeaseExpires(j) \/ DeadlinePasses(j)
           \/ StoreEvent(j) \/ WakeWaitingDecision(j)
    PROVE  Steady
<1>1. job[j] \in JobRow
  BY DEF TInv, TypeOK
<1>2. UNCHANGED enrollment
  BY DEF RepairParked, LeaseExpires, DeadlinePasses, StoreEvent, WakeWaitingDecision
<1>3. CASE RepairParked(j)
  <2> DEFINE r == [job[j] EXCEPT !.attempts = 0]
  <2>1. job' = [job EXCEPT ![j] = r] /\ r.status = job[j].status
    BY <1>1, <1>3 DEF RepairParked, JobRow
  <2> QED BY <1>2, <2>1, OneRowSteady
<1>4. CASE LeaseExpires(j)
  <2> DEFINE r == [job[j] EXCEPT !.expired = TRUE]
  <2>1. job' = [job EXCEPT ![j] = r] /\ r.status = job[j].status
    BY <1>1, <1>4 DEF LeaseExpires, JobRow
  <2> QED BY <1>2, <2>1, OneRowSteady
<1>5. CASE DeadlinePasses(j)
  <2> DEFINE r == [job[j] EXCEPT !.elapsed = TRUE]
  <2>1. job' = [job EXCEPT ![j] = r] /\ r.status = job[j].status
    BY <1>1, <1>5 DEF DeadlinePasses, JobRow
  <2> QED BY <1>2, <2>1, OneRowSteady
<1>6. CASE StoreEvent(j)
  BY <1>2, <1>6, UnchangedSteady DEF StoreEvent
<1>7. CASE WakeWaitingDecision(j)
  <2> DEFINE r == [job[j] EXCEPT !.dueAt = "now"]
  <2>1. job' \in {job, [job EXCEPT ![j] = r]} /\ r.status = job[j].status
    BY <1>1, <1>7 DEF WakeWaitingDecision, JobRow
  <2> QED BY <1>2, <2>1, OneRowSteady
<1> QED BY <1>3, <1>4, <1>5, <1>6, <1>7

LEMMA RecallSets ==
    ASSUME TInv, NEW p \in Procs, RecallWrite(p)
    PROVE  LET j == proc[p].job
               r == [job[j] EXCEPT !.outcome = proc[p].status, !.dueAt = "now"]
           IN job' \in {job, [job EXCEPT ![j] = r]}
<1> DEFINE j == proc[p].job
           r == [job[j] EXCEPT !.outcome = proc[p].status, !.dueAt = "now"]
<1>1. j \in Jobs /\ job[j] \in JobRow /\ job \in [Jobs -> JobRow]
  BY RowHere DEF RecallWrite, TInv, TypeOK
<1>2. [job EXCEPT ![j].outcome = proc[p].status, ![j].dueAt = "now"] = [job EXCEPT ![j] = r]
  BY <1>1
<1>3. job' = job \/ job' = [job EXCEPT ![j].outcome = proc[p].status, ![j].dueAt = "now"]
  BY DEF RecallWrite
<1> QED BY <1>2, <1>3

LEMMA CronSteady == ASSUME TInv, NEW p \in Procs, Cron(p) PROVE Steady
<1> DEFINE j == proc[p].job
<1>1. CASE \/ \E k \in Jobs : RecoverRead(p, k) \/ ClaimRead(p, k) \/ RecallRead(p, k)
           \/ Publish(p) \/ PublishFails(p)
  BY <1>1, UnchangedSteady DEF RecoverRead, ClaimRead, RecallRead, Publish, PublishFails,
     Database
<1>2. CASE RecoverWrite(p) \/ ReturnClaim(p)
  <2>1. j \in Jobs /\ job[j] \in JobRow
    BY <1>2, RowHere DEF RecoverWrite, ReturnClaim
  <2>2. job[j].status \in Live \/ job' = job
    BY <1>2, <2>1, Here DEF RecoverWrite, ReturnClaim, ProcOK, Live, Leased
  <2>3. Released(job[j], "pending").status \in Live
    BY <2>1, ReleasedOK DEF JobStatus, Live
  <2>4. job' \in {job, [job EXCEPT ![j] = Released(job[j], "pending")]}
    BY <1>2 DEF RecoverWrite, ReturnClaim
  <2>5. UNCHANGED enrollment
    BY <1>2 DEF RecoverWrite, ReturnClaim
  <2> QED BY <2>1, <2>2, <2>3, <2>4, <2>5, OneRowSteady, UnchangedSteady
<1>3. ASSUME NEW l \in Leases, ClaimWrite(p, l) PROVE Steady
  <2> DEFINE r == [job[j] EXCEPT !.status = "leased", !.lease = l, !.expired = FALSE]
  <2>1. j \in Jobs /\ job[j] \in JobRow /\ UNCHANGED enrollment
    BY <1>3, RowHere DEF ClaimWrite
  <2>2. job' = job \/ (job[j].status \in Live /\ job' = [job EXCEPT ![j] = r])
    BY <1>3, <2>1 DEF ClaimWrite, Live, TInv, TypeOK
  <2>3. r.status \in Live
    BY <2>1 DEF JobRow, Live
  <2> QED BY <2>1, <2>2, <2>3, OneRowSteady, UnchangedSteady
<1>4. CASE RecallWrite(p)
  <2> DEFINE r == [job[j] EXCEPT !.outcome = proc[p].status, !.dueAt = "now"]
  <2>1. j \in Jobs /\ job[j] \in JobRow /\ UNCHANGED enrollment
    BY <1>4, RowHere DEF RecallWrite
  <2>2. job' \in {job, [job EXCEPT ![j] = r]}
    BY <1>4, RecallSets
  <2>3. r.status = job[j].status
    BY <2>1 DEF JobRow
  <2> QED BY <2>1, <2>2, <2>3, OneRowSteady
<1> QED BY <1>1, <1>2, <1>3, <1>4 DEF Cron

\* The worker's actions that do not end or start a job.
Keeping(p) ==
    \/ \E m \in queue : Deliver(p, m)
    \/ Start(p) \/ RunSource(p) \/ RunDelay(p) \/ RunDecision(p) \/ RunCondition(p)
    \/ RunAction(p) \/ ReadChild(p) \/ Throw(p) \/ Park(p)
    \/ FailureRead(p) \/ FailureRetry(p) \/ FailRead(p) \/ Ack(p) \/ Nack(p)
    \/ \E m \in dlq : DeliverDeadLetter(p, m)
    \/ DeadLetterAck(p)

LEMMA KeepingSteady == ASSUME TInv, NEW p \in Procs, Keeping(p) PROVE Steady
<1> DEFINE j == proc[p].job
<1>1. CASE \/ \E m \in queue : Deliver(p, m)
           \/ RunSource(p) \/ RunDelay(p) \/ RunDecision(p) \/ RunAction(p)
           \/ ReadChild(p) \/ Throw(p) \/ FailureRead(p) \/ FailRead(p)
           \/ Ack(p) \/ Nack(p) \/ DeadLetterAck(p)
           \/ \E m \in dlq : DeliverDeadLetter(p, m)
  BY <1>1, UnchangedSteady DEF Deliver, RunSource, RunDelay, RunDecision, RunAction,
     ReadChild, Throw, FailureRead, FailRead, Ack, Nack, DeadLetterAck,
     DeliverDeadLetter, Database
<1>2. ASSUME Start(p) \/ RunCondition(p) \/ Park(p) \/ FailureRetry(p)
      PROVE  j \in Jobs /\ job[j] \in JobRow /\ UNCHANGED enrollment
  BY <1>2, RowHere DEF Start, RunCondition, Executing, Park, FailureRetry
<1>3. CASE Start(p)
  <2> DEFINE r == [job[j] EXCEPT !.status = "running", !.attempts = @ + 1]
  <2>1. r.status \in Live
    BY <1>2, <1>3 DEF JobRow, Live
  <2>2. job' = job \/ (job[j].status \in Live /\ job' = [job EXCEPT ![j] = r])
    BY <1>2, <1>3 DEF Start, Live, TInv, TypeOK
  <2> QED BY <1>2, <1>3, <2>1, <2>2, OneRowSteady, UnchangedSteady
<1>4. CASE RunCondition(p)
  <2>1. PICK b : job' \in {job, [job EXCEPT ![j] = [job[j] EXCEPT !.branch = b]]}
    BY <1>4 DEF RunCondition
  <2>2. [job[j] EXCEPT !.branch = b].status = job[j].status
    BY <1>2, <1>4 DEF JobRow
  <2> QED BY <1>2, <1>4, <2>1, <2>2, OneRowSteady
<1>5. CASE Park(p)
  <2> DEFINE parked == [Released(job[j], "pending") EXCEPT
                      !.attempts = 0, !.waiting = TRUE, !.branch = None,
                      !.child = FALSE, !.outcome = None,
                      !.elapsed = @ /\ Kind[j[2]] = "decision",
                      !.dueAt = IF event[j] # "none" THEN "now" ELSE "deadline"]
  <2>1. job' = job \/ (job[j].status = "running" /\ job' = [job EXCEPT ![j] = parked])
    BY <1>5 DEF Park, RunningLease
  <2>2. parked.status = "pending"
    BY <1>2, <1>5, ReleasedOK DEF JobRow, JobStatus, Live
  <2> QED BY <1>2, <1>5, <2>1, <2>2, OneRowSteady, UnchangedSteady DEF Live
<1>6. CASE FailureRetry(p)
  <2> DEFINE r == [job[j] EXCEPT !.status = "leased"]
  <2>1. job' = job \/ (job[j].status = "running" /\ job' = [job EXCEPT ![j] = r])
    BY <1>6 DEF FailureRetry, RunningLease
  <2>2. r.status = "leased"
    BY <1>2, <1>6 DEF JobRow
  <2> QED BY <1>2, <1>6, <2>1, <2>2, OneRowSteady, UnchangedSteady DEF Live
<1> QED BY <1>1, <1>3, <1>4, <1>5, <1>6 DEF Keeping

-----------------------------------------------------------------------------
(* The steps that start or end a job.                                      *)

\* OneLiveJob and Walked at one enrollment and one node.
LEMMA AtNode ==
    ASSUME NEW rank, SInv(rank), NEW e \in Enrollments, NEW n \in Nodes
    PROVE  /\ job[<<e, n>>].status \in Live
                <=> enrollment[e].status = "active" /\ enrollment[e].node = n
           /\ job[<<e, n>>].status # "absent" => enrollment[e].status # "absent"
           /\ job[<<e, n>>].status # "absent" /\ enrollment[e].status = "active" =>
                  n = enrollment[e].node \/ rank[n] < rank[enrollment[e].node]
           /\ enrollment[e].status = "active" => enrollment[e].node \in Nodes
BY DEF SInv, OneLiveJob, Walked, ActiveSomewhere

LEMMA RunningHere ==
    ASSUME NEW rank, SInv(rank), NEW j \in Jobs, job[j].status \in Live
    PROVE  enrollment[j[1]].status = "active" /\ enrollment[j[1]].node = j[2]
<1>1. j[1] \in Enrollments /\ j[2] \in Nodes /\ j = <<j[1], j[2]>>
  BY DEF Jobs
<1> QED BY <1>1, AtNode

LEMMA EnrollKeeps ==
    ASSUME NEW rank \in Ranking, SInv(rank), NEW e \in Enrollments, Enroll(e)
    PROVE  ActiveSomewhere' /\ OneLiveJob' /\ Walked(rank)'
<1>1. Source[e] \in Nodes
  BY ConstantsAssumption
<1>2. \A d \in Enrollments :
        enrollment'[d] = IF d = e THEN [status |-> "active", node |-> Source[e]]
                         ELSE enrollment[d]
  BY DEF Enroll, SInv, TInv, TypeOK
<1>3. \A d \in Enrollments, n \in Nodes :
        job'[<<d, n>>] = IF d = e /\ n = Source[e] THEN NewJob ELSE job[<<d, n>>]
  BY DEF Enroll, SInv, TInv, TypeOK, Jobs
<1>4. \A n \in Nodes : job[<<e, n>>].status = "absent"
  BY DEF Enroll, SInv, Walked
<1>5. NewJob.status = "pending"
  BY DEF NewJob, Absent
<1>6. ActiveSomewhere'
  BY <1>1, <1>2 DEF ActiveSomewhere, SInv
<1>7. OneLiveJob'
  <2> SUFFICES ASSUME NEW d \in Enrollments, NEW k \in Nodes
             PROVE  job'[<<d, k>>].status \in Live
                      <=> enrollment'[d].status = "active" /\ enrollment'[d].node = k
    BY DEF OneLiveJob
  <2> QED BY <1>2, <1>3, <1>4, <1>5, AtNode DEF Live
<1>8. Walked(rank)'
  <2> SUFFICES ASSUME NEW d \in Enrollments, NEW k \in Nodes, job'[<<d, k>>].status # "absent"
             PROVE  /\ enrollment'[d].status # "absent"
                    /\ enrollment'[d].status = "active" =>
                         k = enrollment'[d].node \/ rank[k] < rank[enrollment'[d].node]
    BY DEF Walked
  <2> QED BY <1>2, <1>3, <1>4, <1>5, AtNode DEF Live
<1> QED BY <1>6, <1>7, <1>8

\* Whatever set of enrollments a cancellation reaches, it ends the enrollment
\* and its job together.
LEMMA CancelKeeps ==
    ASSUME NEW rank \in Ranking, SInv(rank), NEW e \in Enrollments, CancelEnrollment(e)
    PROVE  ActiveSomewhere' /\ OneLiveJob' /\ Walked(rank)'
<1> DEFINE tree == Descendants(e)
<1>1. \A d \in Enrollments : enrollment'[d] =
        IF d \in tree /\ enrollment[d].status = "active"
        THEN [enrollment[d] EXCEPT !.status = "cancelled"] ELSE enrollment[d]
  BY DEF CancelEnrollment
<1>2. \A d \in Enrollments, n \in Nodes : job'[<<d, n>>] =
        IF d \in tree /\ job[<<d, n>>].status \in Live
        THEN Released(job[<<d, n>>], "cancelled") ELSE job[<<d, n>>]
  BY DEF CancelEnrollment, Jobs
<1> HIDE DEF tree
<1>3. \A d \in Enrollments : enrollment'[d].status =
        IF d \in tree /\ enrollment[d].status = "active" THEN "cancelled"
        ELSE enrollment[d].status
  BY <1>1 DEF SInv, TInv, TypeOK
<1>4. \A d \in Enrollments, n \in Nodes : job'[<<d, n>>].status =
        IF d \in tree /\ job[<<d, n>>].status \in Live THEN "cancelled"
        ELSE job[<<d, n>>].status
  <2>1. \A d \in Enrollments, n \in Nodes : job[<<d, n>>] \in JobRow
    BY DEF SInv, TInv, TypeOK, Jobs
  <2>2. \A r \in JobRow : Released(r, "cancelled").status = "cancelled"
    BY ReleasedOK DEF JobStatus, Terminal
  <2> QED BY <1>2, <2>1, <2>2
<1>5. \A d \in Enrollments : enrollment'[d].node = enrollment[d].node
  BY <1>1 DEF SInv, TInv, TypeOK
<1>6. ActiveSomewhere'
  BY <1>3, <1>5 DEF ActiveSomewhere, SInv
<1>7. OneLiveJob'
  <2> SUFFICES ASSUME NEW d \in Enrollments, NEW k \in Nodes
             PROVE  job'[<<d, k>>].status \in Live
                      <=> enrollment'[d].status = "active" /\ enrollment'[d].node = k
    BY DEF OneLiveJob
  <2> QED BY <1>3, <1>4, <1>5, AtNode DEF Live
<1>8. Walked(rank)'
  <2> SUFFICES ASSUME NEW d \in Enrollments, NEW k \in Nodes, job'[<<d, k>>].status # "absent"
             PROVE  /\ enrollment'[d].status # "absent"
                    /\ enrollment'[d].status = "active" =>
                         k = enrollment'[d].node \/ rank[k] < rank[enrollment'[d].node]
    BY DEF Walked
  <2> QED BY <1>3, <1>4, <1>5, AtNode DEF Live
<1> QED BY <1>6, <1>7, <1>8

LEMMA FailWriteKeeps ==
    ASSUME NEW rank \in Ranking, SInv(rank), NEW p \in Procs, FailWrite(p)
    PROVE  ActiveSomewhere' /\ OneLiveJob' /\ Walked(rank)'
<1> DEFINE j == proc[p].job
           e == j[1]
<1>1. j \in Jobs /\ job[j] \in JobRow /\ proc[p].status \in Leased
  BY RowHere, Here DEF FailWrite, SInv, ProcOK
<1>2. e \in Enrollments /\ j[2] \in Nodes /\ j = <<e, j[2]>>
  BY <1>1 DEF Jobs
<1>3. CASE job[j].lease = proc[p].lease /\ job[j].status = proc[p].status
  <2>1. job[j].status \in Live
    BY <1>1, <1>3 DEF Live, Leased
  <2>2. enrollment[e].status = "active" /\ enrollment[e].node = j[2]
    BY <1>1, <2>1, RunningHere
  <2>3. \A d \in Enrollments : enrollment'[d] =
          IF d = e THEN [status |-> "failed", node |-> None] ELSE enrollment[d]
    BY <1>2, <1>3, <2>2 DEF FailWrite, SInv, TInv, TypeOK
  <2>4. \A d \in Enrollments, n \in Nodes : job'[<<d, n>>].status =
          IF d = e /\ n = j[2] THEN "failed" ELSE job[<<d, n>>].status
    <3>1. job' = [job EXCEPT ![j] = Released(job[j], "failed")]
      BY <1>3 DEF FailWrite
    <3>2. Released(job[j], "failed").status = "failed"
      BY <1>1, ReleasedOK DEF JobStatus, Terminal
    <3> QED BY <1>1, <1>2, <3>1, <3>2 DEF SInv, TInv, TypeOK, Jobs
  <2>5. ActiveSomewhere'
    BY <2>3 DEF ActiveSomewhere, SInv
  <2>6. OneLiveJob'
    <3> SUFFICES ASSUME NEW d \in Enrollments, NEW k \in Nodes
               PROVE  job'[<<d, k>>].status \in Live
                        <=> enrollment'[d].status = "active" /\ enrollment'[d].node = k
      BY DEF OneLiveJob
    <3> QED BY <2>2, <2>3, <2>4, AtNode DEF Live
  <2>7. Walked(rank)'
    <3> SUFFICES ASSUME NEW d \in Enrollments, NEW k \in Nodes, job'[<<d, k>>].status # "absent"
               PROVE  /\ enrollment'[d].status # "absent"
                      /\ enrollment'[d].status = "active" =>
                           k = enrollment'[d].node \/ rank[k] < rank[enrollment'[d].node]
      BY DEF Walked
    <3> QED BY <2>1, <2>2, <2>3, <2>4, AtNode DEF Live
  <2> QED BY <2>5, <2>6, <2>7
<1>4. CASE ~(job[j].lease = proc[p].lease /\ job[j].status = proc[p].status)
  <2>1. UNCHANGED <<enrollment, job>>
    BY <1>4 DEF FailWrite
  <2> QED BY <2>1, UnchangedSteady, SteadyKeeps
<1> QED BY <1>3, <1>4

LEMMA RunCallKeeps ==
    ASSUME NEW rank \in Ranking, SInv(rank), NEW p \in Procs, RunCall(p)
    PROVE  ActiveSomewhere' /\ OneLiveJob' /\ Walked(rank)'
<1> DEFINE j == proc[p].job
           authority == RunningLease(j, proc[p].lease)
           born == IF authority THEN Unborn(j) ELSE {}
           parks == /\ Kind[j[2]] = "await" /\ authority
                    /\ (born # {} \/ ChildActive(j))
           parked == [Released(job[j], "pending") EXCEPT
                        !.attempts = 0, !.dueAt = "never", !.child = TRUE]
<1>1. StartChild(p, born, parks)
  BY DEF RunCall
<1>2. j \in Jobs /\ job[j] \in JobRow
  BY <1>1, RowHere DEF StartChild, Executing, SInv
<1>3. \A c \in born : c \in Enrollments /\ enrollment[c].status = "absent" /\ Source[c] \in Nodes
  BY ConstantsAssumption DEF Unborn, Children
<1>4. parks => job[j].status = "running"
  BY DEF RunningLease
<1>5. parked.status = "pending" /\ NewJob.status = "pending"
  BY <1>2, ReleasedOK DEF NewJob, Absent, JobRow, JobStatus, Live
<1>6. \A e \in Enrollments : enrollment'[e] =
        IF e \in born THEN [status |-> "active", node |-> Source[e]] ELSE enrollment[e]
  BY <1>1 DEF StartChild
<1>7. \A e \in Enrollments, n \in Nodes : job'[<<e, n>>] =
        IF <<e, n>> = j /\ parks THEN parked
        ELSE IF e \in born /\ n = Source[e] THEN NewJob ELSE job[<<e, n>>]
  BY <1>1 DEF StartChild, Jobs
<1> HIDE DEF born, parks, parked, authority, j
<1>8. \A e \in Enrollments, n \in Nodes : e \in born => job[<<e, n>>].status = "absent"
  BY <1>3 DEF SInv, Walked
<1>9. \A e \in Enrollments, n \in Nodes : <<e, n>> = j /\ parks =>
        job[<<e, n>>].status = "running" /\ e \notin born
  BY <1>4, <1>8
<1>10. \A e \in Enrollments :
         /\ e \in born => enrollment'[e].status = "active" /\ enrollment'[e].node = Source[e]
         /\ e \notin born => enrollment'[e] = enrollment[e]
  <2> SUFFICES ASSUME NEW e \in Enrollments
               PROVE  /\ e \in born => enrollment'[e].status = "active" /\ enrollment'[e].node = Source[e]
                      /\ e \notin born => enrollment'[e] = enrollment[e]
    OBVIOUS
  <2>1. CASE e \in born
    <3>1. enrollment'[e] = [status |-> "active", node |-> Source[e]]
      BY <1>6, <2>1
    <3> QED BY <2>1, <3>1
  <2>2. CASE e \notin born
    BY <1>6, <2>2
  <2> QED BY <2>1, <2>2
<1>11. \A e \in Enrollments, n \in Nodes : job'[<<e, n>>].status =
         IF e \in born THEN IF n = Source[e] THEN "pending" ELSE "absent"
         ELSE IF <<e, n>> = j /\ parks THEN "pending" ELSE job[<<e, n>>].status
  <2> SUFFICES ASSUME NEW e \in Enrollments, NEW n \in Nodes
               PROVE  job'[<<e, n>>].status =
                        IF e \in born THEN IF n = Source[e] THEN "pending" ELSE "absent"
                        ELSE IF <<e, n>> = j /\ parks THEN "pending" ELSE job[<<e, n>>].status
    OBVIOUS
  <2>1. CASE <<e, n>> = j /\ parks
    <3>1. job'[<<e, n>>] = parked /\ e \notin born
      BY <1>7, <1>9, <2>1
    <3> QED BY <1>5, <2>1, <3>1
  <2>2. CASE ~(<<e, n>> = j /\ parks) /\ e \in born /\ n = Source[e]
    <3>1. job'[<<e, n>>] = NewJob
      BY <1>7, <2>2
    <3> QED BY <1>5, <2>2, <3>1
  <2>3. CASE ~(<<e, n>> = j /\ parks) /\ ~(e \in born /\ n = Source[e])
    <3>1. job'[<<e, n>>] = job[<<e, n>>]
      BY <1>7, <2>3
    <3> QED BY <1>8, <2>3, <3>1
  <2> QED BY <2>1, <2>2, <2>3
<1>12. ActiveSomewhere'
  BY <1>3, <1>10 DEF ActiveSomewhere, SInv
<1>13. OneLiveJob'
  <2> SUFFICES ASSUME NEW d \in Enrollments, NEW k \in Nodes
             PROVE  job'[<<d, k>>].status \in Live
                      <=> enrollment'[d].status = "active" /\ enrollment'[d].node = k
    BY DEF OneLiveJob
  <2>1. CASE d \in born
    BY <1>3, <1>10, <1>11, <2>1 DEF Live
  <2>2. CASE d \notin born
    BY <1>9, <1>10, <1>11, <2>2, AtNode DEF Live
  <2> QED BY <2>1, <2>2
<1>14. Walked(rank)'
  <2> SUFFICES ASSUME NEW d \in Enrollments, NEW k \in Nodes, job'[<<d, k>>].status # "absent"
             PROVE  /\ enrollment'[d].status # "absent"
                    /\ enrollment'[d].status = "active" =>
                         k = enrollment'[d].node \/ rank[k] < rank[enrollment'[d].node]
    BY DEF Walked
  <2>1. CASE d \in born
    BY <1>3, <1>10, <1>11, <2>1 DEF Live
  <2>2. CASE d \notin born
    BY <1>9, <1>10, <1>11, <2>2, AtNode DEF Live
  <2> QED BY <2>1, <2>2
<1> QED BY <1>12, <1>13, <1>14

LEMMA FinishKeeps ==
    ASSUME NEW rank \in Ranking, SInv(rank), NEW p \in Procs, Finish(p)
    PROVE  ActiveSomewhere' /\ OneLiveJob' /\ Walked(rank)'
<1> DEFINE j == proc[p].job
           e == j[1]
           n == Edge[j[2]][proc[p].branch]
           done == [job EXCEPT ![j] = Released(job[j], "succeeded")]
           at == [status |-> IF n = None THEN "completed" ELSE "active", node |-> n]
<1>1. j \in Jobs /\ job[j] \in JobRow /\ proc[p].branch \in Branches
  BY RowHere, Here DEF Finish, FinishIf, SInv, ProcOK
<1>2. e \in Enrollments /\ j[2] \in Nodes /\ j = <<e, j[2]>>
  BY <1>1 DEF Jobs
<1>3. n \in Nodes \cup {None} /\ (n # None => n \in Nodes /\ rank[j[2]] < rank[n])
  BY <1>1, <1>2, ConstantsAssumption DEF Ranking
<1>4. CASE RunningLease(j, proc[p].lease)
  <2>1. job[j].status = "running"
    BY <1>4 DEF RunningLease
  <2>2. enrollment[e].status = "active" /\ enrollment[e].node = j[2]
    BY <1>1, <2>1, RunningHere DEF Live
  <2>3. \A d \in Enrollments : enrollment'[d] = IF d = e THEN at ELSE enrollment[d]
    <3>1. enrollment' = [enrollment EXCEPT ![e] = at]
      BY <1>4, <2>2 DEF Finish, FinishIf
    <3> QED BY <3>1, <1>2 DEF SInv, TInv, TypeOK
  <2>4. n # None => /\ job[<<e, n>>].status = "absent" /\ n # j[2]
                    /\ \A k \in Nodes : job[<<e, k>>].status # "absent" => rank[k] < rank[n]
    <3>1. rank \in [Nodes -> Int]
      BY DEF Ranking
    <3> HIDE DEF n
    <3>2. \A k \in Nodes : job[<<e, k>>].status # "absent" => k = j[2] \/ rank[k] < rank[j[2]]
      BY <1>2, <2>2 DEF SInv, Walked
    <3>3. ASSUME n # None, NEW k \in Nodes, job[<<e, k>>].status # "absent"
          PROVE  rank[k] < rank[n]
      BY <1>2, <1>3, <3>1, <3>2, <3>3
    <3>4. ASSUME n # None PROVE ~(rank[n] < rank[n]) /\ n \in Nodes /\ n # j[2]
      BY <1>2, <1>3, <3>1, <3>4
    <3> QED BY <3>3, <3>4
  <2>5. done \in [Jobs -> JobRow] /\ \A k \in Jobs : done[k].status =
          IF k = j THEN "succeeded" ELSE job[k].status
    BY <1>1, ReleasedOK DEF SInv, TInv, TypeOK, JobStatus, Terminal
  <2>6. \A d \in Enrollments, k \in Nodes : job'[<<d, k>>].status =
          IF d = e /\ k = j[2] THEN "succeeded"
          ELSE IF d = e /\ k = n THEN "pending" ELSE job[<<d, k>>].status
    <3>1. CASE n = None
      <4>1. job' = done
        BY <1>4, <3>1 DEF Finish, FinishIf
      <4>2. n \notin Nodes
        BY <3>1, ConstantsAssumption
      <4> QED BY <4>1, <4>2, <1>2, <2>5 DEF Jobs
    <3>2. CASE n # None
      <4>1. job' = [done EXCEPT ![<<e, n>>] = NewJob]
        BY <1>4, <2>4, <3>2 DEF Finish, FinishIf
      <4>2. NewJob.status = "pending"
        BY DEF NewJob, Absent
      <4>3. <<e, n>> \in Jobs
        BY <1>2, <1>3, <3>2 DEF Jobs
      <4> HIDE DEF done, n
      <4> QED BY <4>1, <4>2, <4>3, <1>2, <2>4, <2>5, <3>2 DEF Jobs
    <3> QED BY <3>1, <3>2
  <2>7. /\ at.status = "active" <=> n # None
        /\ at.status # "absent" /\ at.node = n
    OBVIOUS
  <2> HIDE DEF at, n, done
  <2>8. ActiveSomewhere'
    BY <1>3, <2>3, <2>7 DEF ActiveSomewhere, SInv
  <2>9. OneLiveJob'
    <3> SUFFICES ASSUME NEW d \in Enrollments, NEW k \in Nodes
               PROVE  job'[<<d, k>>].status \in Live
                        <=> enrollment'[d].status = "active" /\ enrollment'[d].node = k
      BY DEF OneLiveJob
    <3>1. None \notin Nodes
      BY ConstantsAssumption
    <3>2. CASE d = e
      BY <1>2, <1>3, <2>2, <2>3, <2>4, <2>6, <2>7, <3>1, <3>2, AtNode DEF Live
    <3>3. CASE d # e
      BY <2>3, <2>6, <3>3, AtNode
    <3> QED BY <3>2, <3>3
  <2>10. Walked(rank)'
    <3> SUFFICES ASSUME NEW d \in Enrollments, NEW k \in Nodes, job'[<<d, k>>].status # "absent"
               PROVE  /\ enrollment'[d].status # "absent"
                      /\ enrollment'[d].status = "active" =>
                           k = enrollment'[d].node \/ rank[k] < rank[enrollment'[d].node]
      BY DEF Walked
    <3> QED BY <1>2, <1>3, <2>1, <2>2, <2>3, <2>4, <2>6, <2>7, AtNode DEF Live
  <2> QED BY <2>8, <2>9, <2>10
<1>5. CASE ~RunningLease(j, proc[p].lease)
  <2>1. UNCHANGED <<enrollment, job>>
    BY <1>5 DEF Finish, FinishIf
  <2> QED BY <2>1, UnchangedSteady, SteadyKeeps
<1> QED BY <1>4, <1>5

-----------------------------------------------------------------------------

LEMMA InitSInv == ASSUME NEW rank \in Ranking, Init PROVE SInv(rank)
<1>1. \A e \in Enrollments, n \in Nodes :
        job[<<e, n>>].status = "absent" /\ enrollment[e].status = "absent"
  BY DEF Init, Absent, Jobs
<1>2. \A e \in Enrollments : enrollment[e].status = "absent"
  BY DEF Init
<1>3. ActiveSomewhere
  BY <1>2 DEF ActiveSomewhere
<1>4. OneLiveJob /\ Walked(rank)
  BY <1>1, <1>2 DEF OneLiveJob, Walked, Live
<1> QED BY <1>3, <1>4, InitTInv DEF SInv

LEMMA NextSInv == ASSUME NEW rank \in Ranking, SInv(rank), [Next]_vars PROVE SInv(rank)'
<1>1. TInv'
  BY NextTInv DEF SInv
<1> SUFFICES ActiveSomewhere' /\ OneLiveJob' /\ Walked(rank)'
  BY <1>1 DEF SInv
<1>2. TInv
  BY DEF SInv
<1>3. CASE Environment
  <2>1. ASSUME NEW p \in Procs, Crash(p) PROVE Steady
    BY <2>1, UnchangedSteady DEF Crash, Database
  <2> QED BY <1>2, <1>3, <2>1, EnrollKeeps, CancelKeeps, RowEventsSteady, SteadyKeeps
      DEF Environment
<1>4. ASSUME NEW p \in Procs, Cron(p)
      PROVE  ActiveSomewhere' /\ OneLiveJob' /\ Walked(rank)'
  BY <1>2, <1>4, CronSteady, SteadyKeeps
<1>5. ASSUME NEW p \in Procs, Worker(p)
      PROVE  ActiveSomewhere' /\ OneLiveJob' /\ Walked(rank)'
  <2>1. Keeping(p) \/ RunCall(p) \/ Finish(p) \/ FailWrite(p)
    BY <1>5 DEF Worker, Keeping
  <2> QED BY <1>2, <2>1, KeepingSteady, SteadyKeeps, RunCallKeeps, FinishKeeps, FailWriteKeeps
<1>6. CASE UNCHANGED vars
  BY <1>6, UnchangedSteady, SteadyKeeps DEF vars
<1> QED BY <1>3, <1>4, <1>5, <1>6 DEF Next

LEMMA RankingExists == \E rank : rank \in Ranking
BY AcyclicAssumption DEF Ranking

\* Whatever the cron passes, workers, dead letters, cancellations and crashes
\* do, an active enrollment has exactly one live job, at its current node, and
\* an ended one has none.
THEOREM AlwaysOneLiveJob == Spec => []OneLiveJob
<1> PICK rank : rank \in Ranking
  BY RankingExists
<1>1. Init => SInv(rank)
  BY InitSInv
<1>2. SInv(rank) /\ [Next]_vars => SInv(rank)'
  BY NextSInv
<1>3. SInv(rank) => OneLiveJob
  BY DEF SInv
<1> QED BY <1>1, <1>2, <1>3, PTL DEF Spec

-----------------------------------------------------------------------------
(* Effects.                                                                *)

LEMMA EffectStep ==
    ASSUME TInv, [Next]_vars, UNCHANGED effect \/ \E p \in Procs : RunAction(p)
    PROVE  \A j \in Jobs : effect'[j] # effect[j] =>
              effect[j] = 0 /\ effect'[j] = 1 /\ job[j].status = "running"
<1> SUFFICES ASSUME NEW p \in Procs, RunAction(p), NEW j \in Jobs, effect'[j] # effect[j]
             PROVE  effect[j] = 0 /\ effect'[j] = 1 /\ job[j].status = "running"
  OBVIOUS
<1>1. effect \in [Jobs -> Nat]
  BY DEF TInv, TypeOK
<1> DEFINE i == proc[p].job
<1>2. \/ effect' = effect
      \/ /\ effect[i] = 0 /\ RunningLease(i, proc[p].lease)
         /\ effect' = [effect EXCEPT ![i] = effect[i] + 1]
  BY DEF RunAction
<1> HIDE DEF i
<1>3. i = j /\ effect[i] = 0 /\ effect'[j] = 1 /\ RunningLease(i, proc[p].lease)
  BY <1>1, <1>2
<1> QED BY <1>3 DEF RunningLease

LEMMA EffectOnlyByAction ==
    ASSUME [Next]_vars PROVE UNCHANGED effect \/ \E p \in Procs : RunAction(p)
<1>1. CASE Environment
  BY <1>1 DEF Environment, Enroll, CancelEnrollment, RepairParked, LeaseExpires,
     DeadlinePasses, StoreEvent, WakeWaitingDecision, Crash, Database
<1>2. ASSUME NEW p \in Procs, Cron(p) PROVE UNCHANGED effect
  BY <1>2 DEF Cron, RecoverRead, ClaimRead, RecallRead, ClaimWrite, RecoverWrite,
     Publish, PublishFails, ReturnClaim, RecallWrite, Database
<1>3. ASSUME NEW p \in Procs, Worker(p) PROVE UNCHANGED effect \/ RunAction(p)
  BY <1>3 DEF Worker, Deliver, Start, RunSource, RunDelay, RunDecision, RunCondition,
     RunCall, StartChild, ReadChild, Throw, Park, Finish, FinishIf, FailureRead,
     FailureRetry, FailRead, FailWrite, Ack, Nack, DeliverDeadLetter, DeadLetterAck,
     Database
<1>4. CASE UNCHANGED vars
  BY <1>4 DEF vars
<1> QED BY <1>1, <1>2, <1>3, <1>4 DEF Next

\* However often a message is delivered and its worker retried or raced, the
\* score change of an action job is applied at most once.
THEOREM AppliedOnce == Spec => []EffectOnce
<1>1. Init => TInv /\ EffectOnce
  BY InitTInv DEF Init, EffectOnce
<1>2. TInv /\ EffectOnce /\ [Next]_vars => (TInv /\ EffectOnce)'
  <2> SUFFICES ASSUME TInv, EffectOnce, [Next]_vars PROVE (TInv /\ EffectOnce)'
    OBVIOUS
  <2>1. TInv'
    BY NextTInv
  <2>2. \A j \in Jobs : effect'[j] # effect[j] => effect'[j] = 1
    BY EffectOnlyByAction, EffectStep
  <2>3. EffectOnce'
    BY <2>2 DEF EffectOnce
  <2> QED BY <2>1, <2>3
<1> QED BY <1>1, <1>2, PTL DEF Spec

\* A score change is applied only while its job runs and its enrollment is
\* active: cancellation, failure and completion stop every worker's effect.
THEOREM AppliedWhileActive == Spec => EffectWhileActive
<1> PICK rank : rank \in Ranking
  BY RankingExists
<1>1. Init => SInv(rank)
  BY InitSInv
<1>2. SInv(rank) /\ [Next]_vars => SInv(rank)'
  BY NextSInv
<1>3. SInv(rank) /\ [Next]_vars => [ActiveEffectStep]_vars
  <2> SUFFICES ASSUME SInv(rank), [Next]_vars, NEW j \in Jobs, effect'[j] # effect[j]
               PROVE  job[j].status = "running" /\ enrollment[j[1]].status = "active"
    BY DEF ActiveEffectStep
  <2>1. job[j].status = "running"
    BY EffectOnlyByAction, EffectStep DEF SInv
  <2> QED BY <2>1, RunningHere DEF Live
<1> QED BY <1>1, <1>2, <1>3, PTL DEF Spec, EffectWhileActive

-----------------------------------------------------------------------------
(* Lease fencing.                                                          *)

\* An action of invocation p moves no other invocation.
LEMMA MovesOnly ==
    ASSUME TInv, NEW p \in Procs, Cron(p) \/ Worker(p), NEW r \in Procs, r # p
    PROVE  proc'[r] = proc[r]
<1>1. proc \in [Procs -> ProcState]
  BY DEF TInv, TypeOK
<1>2. CASE Cron(p)
  BY <1>1, <1>2 DEF Cron, RecoverRead, ClaimRead, RecallRead, ClaimWrite, RecoverWrite,
     Publish, PublishFails, ReturnClaim, RecallWrite, Return, Goto
<1>3. CASE Worker(p)
  <2>1. CASE RunSource(p) \/ RunDelay(p) \/ RunDecision(p) \/ RunCondition(p) \/ RunAction(p)
             \/ RunCall(p) \/ ReadChild(p) \/ Throw(p) \/ Park(p)
    BY <1>1, <2>1 DEF RunSource, RunDelay, RunDecision, RunCondition, RunAction, RunCall,
       StartChild, ReadChild, Throw, Park, Finishing, Failing, Goto
  <2>2. CASE \/ \E m \in queue : Deliver(p, m)
             \/ \E m \in dlq : DeliverDeadLetter(p, m)
             \/ Start(p) \/ Finish(p) \/ FailureRead(p) \/ FailureRetry(p)
             \/ Ack(p) \/ Nack(p) \/ DeadLetterAck(p)
    BY <1>1, <2>2 DEF Deliver, DeliverDeadLetter, Start, Finish, FinishIf, FailureRead,
       FailureRetry, Ack, Nack, DeadLetterAck, Goto, Return
  <2>3. CASE FailRead(p) \/ FailWrite(p)
    BY <1>1, <2>3 DEF FailRead, FailWrite, Continue
  <2> QED BY <1>3, <2>1, <2>2, <2>3 DEF Worker
<1> QED BY <1>2, <1>3

LEMMA FencedCron ==
    ASSUME TInv, NEW p \in Procs, Cron(p), NEW j \in Jobs,
           job[j].status = "running", job'[j].status # "running"
    PROVE  proc[p].lease = job[j].lease
<1>1. job \in [Jobs -> JobRow]
  BY DEF TInv, TypeOK
<1>2. CASE RecoverWrite(p)
  BY <1>1, <1>2 DEF RecoverWrite
<1>3. CASE ReturnClaim(p)
  BY <1>1, <1>3 DEF ReturnClaim
<1>4. ASSUME NEW l \in Leases, ClaimWrite(p, l) PROVE FALSE
  <2>1. CASE j = proc[p].job
    BY <1>1, <1>4, <2>1 DEF ClaimWrite
  <2>2. CASE j # proc[p].job
    BY <1>1, <1>4, <2>2 DEF ClaimWrite
  <2> QED BY <2>1, <2>2
<1>5. CASE RecallWrite(p)
  <2>1. CASE j = proc[p].job
    BY <1>1, <1>5, <2>1 DEF RecallWrite
  <2>2. CASE j # proc[p].job
    BY <1>1, <1>5, <2>2 DEF RecallWrite
  <2> QED BY <2>1, <2>2
<1>6. CASE \/ \E k \in Jobs : RecoverRead(p, k) \/ ClaimRead(p, k) \/ RecallRead(p, k)
           \/ Publish(p) \/ PublishFails(p)
  BY <1>6 DEF RecoverRead, ClaimRead, RecallRead, Publish, PublishFails, Database
<1> QED BY <1>2, <1>3, <1>4, <1>5, <1>6 DEF Cron

LEMMA FencedWorker ==
    ASSUME NEW rank \in Ranking, SInv(rank), NEW p \in Procs, Worker(p), NEW j \in Jobs,
           job[j].status = "running", job'[j].status # "running"
    PROVE  proc[p].lease = job[j].lease
<1>1. job \in [Jobs -> JobRow]
  BY DEF SInv, TInv, TypeOK
<1>2. CASE FailWrite(p)
  BY <1>1, <1>2 DEF FailWrite
<1>3. CASE Park(p)
  BY <1>1, <1>3 DEF Park, RunningLease
<1>4. CASE FailureRetry(p)
  BY <1>1, <1>4 DEF FailureRetry, RunningLease
<1>5. CASE RunCall(p)
  <2>1. j = proc[p].job => RunningLease(j, proc[p].lease)
    BY <1>1, <1>5 DEF RunCall, StartChild, Unborn, Jobs, NewJob, Absent
  <2>2. j # proc[p].job => FALSE
    <3>1. ASSUME j # proc[p].job
          PROVE  \E c \in Enrollments : j = <<c, Source[c]>> /\ enrollment[c].status = "absent"
      BY <1>1, <1>5, <3>1 DEF RunCall, StartChild, Unborn, Children
    <3> QED BY <3>1, RunningHere DEF Live, Jobs
  <2> QED BY <2>1, <2>2 DEF RunningLease
<1>6. CASE Finish(p)
  <2>1. RunningLease(proc[p].job, proc[p].lease)
    BY <1>6 DEF Finish, FinishIf
  <2>2. j = proc[p].job
    BY <1>1, <1>6, <2>1 DEF Finish, FinishIf, NewJob, Absent
  <2> QED BY <2>1, <2>2 DEF RunningLease
<1>7. CASE Start(p)
  <2>1. CASE j = proc[p].job
    BY <1>1, <1>7, <2>1 DEF Start
  <2>2. CASE j # proc[p].job
    BY <1>1, <1>7, <2>2 DEF Start
  <2> QED BY <2>1, <2>2
<1>8. CASE RunCondition(p)
  <2>1. PICK b : job' \in {job, [job EXCEPT ![proc[p].job].branch = b]}
    BY <1>8 DEF RunCondition
  <2> QED BY <1>1, <2>1 DEF JobRow
<1>9. CASE UNCHANGED job
  BY <1>9
<1> QED BY <1>2, <1>3, <1>4, <1>5, <1>6, <1>7, <1>8, <1>9 DEF Worker, Deliver, RunSource,
    RunDelay, RunDecision, RunAction, ReadChild, Throw, FailureRead, FailRead, Ack, Nack,
    DeliverDeadLetter, DeadLetterAck, Database

\* A running job leaves that status only through an invocation that holds its
\* current lease: duplicate and late messages, recovered workers and old dead
\* letters are fenced off.
THEOREM FencedByLease == Spec => LeaseFencing
<1> PICK rank : rank \in Ranking
  BY RankingExists
<1>1. Init => SInv(rank)
  BY InitSInv
<1>2. SInv(rank) /\ [Next]_vars => SInv(rank)'
  BY NextSInv
<1>3. SInv(rank) /\ [Next]_vars => [FencedStep]_vars
  <2> SUFFICES ASSUME SInv(rank), [Next]_vars PROVE FencedStep \/ UNCHANGED vars
    OBVIOUS
  <2>1. CASE Environment
    <3>1. CASE UNCHANGED proc
      BY <3>1 DEF FencedStep
    <3>2. CASE UNCHANGED job
      BY <3>2 DEF FencedStep
    <3> QED BY <2>1, <3>1, <3>2 DEF Environment, Enroll, CancelEnrollment, RepairParked,
        LeaseExpires, DeadlinePasses, StoreEvent, WakeWaitingDecision, Crash, Database
  <2>2. ASSUME NEW p \in Procs, Cron(p) \/ Worker(p) PROVE FencedStep
    <3>1. \A r \in Procs : r # p => proc'[r] = proc[r]
      BY <2>2, MovesOnly DEF SInv
    <3>2. \A j \in Jobs : job[j].status = "running" /\ job'[j].status # "running"
                             => proc[p].lease = job[j].lease
      BY <2>2, FencedCron, FencedWorker DEF SInv
    <3> QED BY <3>1, <3>2 DEF FencedStep
  <2> QED BY <2>1, <2>2 DEF Next
<1> QED BY <1>1, <1>2, <1>3, PTL DEF Spec, LeaseFencing

-----------------------------------------------------------------------------
(* Branches, children and parked parents.                                  *)
(*                                                                         *)
(* What an invocation found out at a node stays true until it writes: a    *)
(* captured branch is not captured again, and a child that ended stays     *)
(* ended, so that no lease is needed to keep either.                       *)

NodeOK(q) ==
    LET n == q.job[2] IN
    /\ q.pc = "finish" =>
         /\ q.branch \in Lifecycle!BranchesOf(n)
         /\ Kind[n] = "condition" => q.branch = job[q.job].branch
         /\ Kind[n] \in {"await", "async"} =>
              \A c \in Children(q.job) :
                 /\ enrollment[c].status # "absent"
                 /\ Kind[n] = "await" => enrollment[c].status = "completed"
    /\ q.pc = "park" => Kind[n] \in {"delay", "decision"}
    /\ q.pc = "readChild" => Kind[n] \in {"await", "async"}
    /\ q.pc = "recall" => \A c \in Children(q.job) : enrollment[c].status \in Outcome

RowOK(j, r) ==
    /\ r.status = "absent" => r.branch = None
    /\ Kind[j[2]] = "condition" => r.branch \in {"yes", "no", None}
    /\ r.dueAt = "never" =>
         /\ r.child /\ r.outcome = None
         /\ \E c \in Children(j) : enrollment[c].status # "absent"
    /\ r.outcome # None => \A c \in Children(j) : enrollment[c].status \in Outcome

CallInv ==
    /\ \A p \in Procs : NodeOK(proc[p])
    /\ \A j \in Jobs : RowOK(j, job[j])
    /\ AwaitedChildCompleted /\ NoOrphanChild

\* What no step undoes.
Settled ==
    \A e \in Enrollments :
       /\ enrollment[e].status # "absent" => enrollment'[e].status # "absent"
       /\ enrollment[e].status \in Outcome => enrollment'[e].status = enrollment[e].status

BranchKept ==
    \A j \in Jobs : Kind[j[2]] = "condition" /\ job[j].branch # None =>
                       job'[j].branch = job[j].branch

\* r is as good as s.
Alike(r, s) ==
    /\ r.status = "absent" => s.status = "absent"
    /\ r.branch = s.branch /\ r.outcome = s.outcome /\ r.child = s.child
    /\ r.dueAt = "never" => s.dueAt = "never"

Kept == Settled /\ BranchKept /\ \A j \in Jobs : RowOK(j, job[j])'

LEMMA AlikeKept ==
    ASSUME CallInv, Settled,
           \A j \in Jobs : \/ Alike(job'[j], job[j])
                           \/ job'[j] = NewJob /\ job[j].status = "absent"
    PROVE  Kept
<1>1. NewJob.status = "pending" /\ NewJob.branch = None /\ NewJob.dueAt = "now"
      /\ NewJob.outcome = None
  BY DEF NewJob, Absent
<1>2. ASSUME NEW j \in Jobs PROVE RowOK(j, job[j])'
  <2>1. RowOK(j, job[j])
    BY DEF CallInv
  <2>2. \A c \in Children(j) : c \in Enrollments
    BY DEF Children
  <2>3. CASE Alike(job'[j], job[j])
    BY <2>1, <2>2, <2>3 DEF RowOK, Alike, Settled, Children
  <2>4. CASE job'[j] = NewJob /\ job[j].status = "absent"
    BY <1>1, <2>4 DEF RowOK
  <2> QED BY <2>3, <2>4
<1>3. BranchKept
  BY DEF BranchKept, Alike, CallInv, RowOK
<1> QED BY <1>2, <1>3 DEF Kept

LEMMA OneAlike ==
    ASSUME TInv, CallInv, UNCHANGED enrollment, NEW j \in Jobs, NEW r, Alike(r, job[j]),
           job' \in {job, [job EXCEPT ![j] = r]}
    PROVE  Kept
<1>1. Settled
  BY DEF Settled
<1>2. \A k \in Jobs : Alike(job[k], job[k])
  BY DEF Alike
<1>3. \A k \in Jobs : Alike(job'[k], job[k])
  BY <1>2 DEF TInv, TypeOK
<1> QED BY <1>1, <1>3, AlikeKept

LEMMA SameKept == ASSUME CallInv, UNCHANGED <<enrollment, job>> PROVE Kept
<1>1. Settled /\ \A k \in Jobs : Alike(job'[k], job[k])
  BY DEF Settled, Alike
<1> QED BY <1>1, AlikeKept

\* One row is written that is in order of itself.
LEMMA OneKept ==
    ASSUME TInv, CallInv, UNCHANGED enrollment, NEW j \in Jobs, NEW r, RowOK(j, r),
           Kind[j[2]] = "condition" /\ job[j].branch # None => r.branch = job[j].branch,
           job' \in {job, [job EXCEPT ![j] = r]}
    PROVE  Kept
<1>1. \A k \in Jobs : job'[k] = job[k] \/ (k = j /\ job'[k] = r)
  BY DEF TInv, TypeOK
<1>2. \A k \in Jobs : RowOK(k, job[k])'
  BY <1>1 DEF CallInv, RowOK
<1> QED BY <1>1, <1>2 DEF Kept, Settled, BranchKept

LEMMA NodeStays ==
    ASSUME NEW q, NodeOK(q), ProcOK(q), Settled, BranchKept PROVE NodeOK(q)'
<1> DEFINE n == q.job[2]
<1>1. \A c \in Children(q.job) : c \in Enrollments
  BY DEF Children
<1>2. ASSUME q.pc = "finish", Kind[n] = "condition" PROVE q.branch = job'[q.job].branch
  <2>1. q.branch = job[q.job].branch /\ q.branch \in Branches /\ q.job \in Jobs
    BY <1>2 DEF NodeOK, ProcOK
  <2>2. q.branch # None
    BY <2>1, ConstantsAssumption
  <2> QED BY <1>2, <2>1, <2>2 DEF BranchKept
<1>3. ASSUME q.pc = "finish", Kind[n] \in {"await", "async"}, NEW c \in Children(q.job)
      PROVE  /\ enrollment'[c].status # "absent"
             /\ Kind[n] = "await" => enrollment'[c].status = "completed"
  BY <1>1, <1>3 DEF NodeOK, Settled, Outcome
<1>4. ASSUME q.pc = "recall", NEW c \in Children(q.job)
      PROVE  enrollment'[c].status \in Outcome
  BY <1>1, <1>4 DEF NodeOK, Settled
<1> QED BY <1>2, <1>3, <1>4 DEF NodeOK, Children

Special == {"finish", "park", "readChild", "recall"}

LEMMA NodeUntouched ==
    ASSUME TInv, CallInv, Settled, BranchKept, NEW r \in Procs, proc'[r] = proc[r]
    PROVE  NodeOK(proc[r])'
<1>1. NodeOK(proc[r]) /\ ProcOK(proc[r])
  BY Here DEF CallInv
<1>2. ASSUME NEW q, q = proc[r] PROVE NodeOK(q)'
  BY <1>1, <1>2, NodeStays
<1> QED BY <1>2 DEF NodeOK

\* Invocation p has kept its promises by its step.
Good(p) == Kept /\ (proc'[p].pc \notin Special \/ NodeOK(proc[p])')

\* The one child of a call.
LEMMA OneChild ==
    ASSUME NEW j \in Jobs, NEW c \in Children(j), NEW d \in Children(j) PROVE c = d
<1>1. None \notin Jobs
  BY ConstantsAssumption
<1> QED BY <1>1, CallAssumption DEF Children

LEMMA CronGood == ASSUME TInv, CallInv, NEW p \in Procs, Cron(p) PROVE Good(p)
<1> DEFINE j == proc[p].job
<1>0. proc[p] \in ProcState /\ proc \in [Procs -> ProcState]
  BY DEF TInv, TypeOK
<1>1. CASE \E k \in Jobs : RecoverRead(p, k) \/ ClaimRead(p, k)
  <2>1. proc'[p].pc \notin Special
    <3>1. ASSUME NEW k \in Jobs, RecoverRead(p, k) PROVE proc'[p].pc \notin Special
      BY <1>0, <3>1 DEF RecoverRead, Idle, Special
    <3>2. ASSUME NEW k \in Jobs, ClaimRead(p, k) PROVE proc'[p].pc \notin Special
      BY <1>0, <3>2 DEF ClaimRead, Idle, Special
    <3> QED BY <1>1, <3>1, <3>2
  <2> QED BY <1>1, <2>1, SameKept DEF Good, RecoverRead, ClaimRead, Database
<1>2. ASSUME NEW k \in Jobs, RecallRead(p, k) PROVE Good(p)
  <2>1. PICK c \in Children(k) :
          /\ enrollment[c].status \in Outcome
          /\ proc' = [proc EXCEPT ![p] =
               [Idle EXCEPT !.pc = "recall", !.job = k, !.status = enrollment[c].status]]
    BY <1>2 DEF RecallRead
  <2>2. proc'[p].pc = "recall" /\ proc'[p].job = k
    BY <1>0, <2>1 DEF Idle
  <2>3. \A d \in Children(k) : enrollment[d].status \in Outcome
    BY <2>1, OneChild
  <2>4. UNCHANGED <<enrollment, job>>
    BY <1>2 DEF RecallRead, Database
  <2>5. NodeOK(proc[p])'
    BY <2>2, <2>3, <2>4 DEF NodeOK, Children
  <2> QED BY <2>4, <2>5, SameKept DEF Good
<1>3. CASE Publish(p) \/ PublishFails(p)
  <2>1. proc'[p].pc \notin Special
    <3>1. CASE Publish(p)
      BY <1>0, <3>1 DEF Publish, Return, Idle, Special
    <3>2. CASE PublishFails(p)
      BY <1>0, <3>2 DEF PublishFails, Goto, ProcState, Special
    <3> QED BY <1>3, <3>1, <3>2
  <2> QED BY <1>3, <2>1, SameKept DEF Good, Publish, PublishFails, Database
<1>4. CASE RecoverWrite(p) \/ ReturnClaim(p)
  <2>1. j \in Jobs /\ job[j] \in JobRow /\ UNCHANGED enrollment
    BY <1>4, RowHere DEF RecoverWrite, ReturnClaim
  <2>2. Alike(Released(job[j], "pending"), job[j])
    BY <2>1 DEF Alike, Released, JobRow
  <2>3. job' \in {job, [job EXCEPT ![j] = Released(job[j], "pending")]}
    BY <1>4 DEF RecoverWrite, ReturnClaim
  <2>4. proc'[p].pc \notin Special
    <3>1. CASE RecoverWrite(p)
      <4> DEFINE r == [proc[p] EXCEPT !.pc = "failRead", !.then = "idle",
                                      !.status = None, !.attempts = 0]
      <4>1. proc' = [proc EXCEPT ![p] = r] \/ proc' = [proc EXCEPT ![p] = Idle]
        BY <3>1 DEF RecoverWrite, Return
      <4>2. r.pc = "failRead" /\ Idle.pc = "idle"
        BY <1>0 DEF Idle, ProcState
      <4> HIDE DEF r
      <4>3. proc'[p] \in {r, Idle}
        BY <1>0, <4>1
      <4> QED BY <4>2, <4>3 DEF Special
    <3>2. CASE ReturnClaim(p)
      BY <1>0, <3>2 DEF ReturnClaim, Return, Idle, Special
    <3> QED BY <1>4, <3>1, <3>2
  <2> QED BY <2>1, <2>2, <2>3, <2>4, OneAlike DEF Good
<1>5. ASSUME NEW l \in Leases, ClaimWrite(p, l) PROVE Good(p)
  <2> DEFINE r == [job[j] EXCEPT !.status = "leased", !.lease = l, !.expired = FALSE]
  <2>1. j \in Jobs /\ job[j] \in JobRow /\ UNCHANGED enrollment
    BY <1>5, RowHere DEF ClaimWrite
  <2>2. Alike(r, job[j])
    BY <2>1 DEF Alike, JobRow
  <2>3. job' \in {job, [job EXCEPT ![j] = r]}
    BY <1>5, <2>1 DEF ClaimWrite, TInv, TypeOK
  <2>4. proc'[p].pc \notin Special
    BY <1>0, <1>5 DEF ClaimWrite, Return, Idle, Special, ProcState
  <2> QED BY <2>1, <2>2, <2>3, <2>4, OneAlike DEF Good
<1>6. CASE RecallWrite(p)
  <2> DEFINE r == [job[j] EXCEPT !.outcome = proc[p].status, !.dueAt = "now"]
  <2>1. j \in Jobs /\ job[j] \in JobRow /\ UNCHANGED enrollment
    BY <1>6, RowHere DEF RecallWrite
  <2>2. job' \in {job, [job EXCEPT ![j] = r]}
    BY <1>6, <2>1 DEF RecallWrite, TInv, TypeOK
  <2>3. r.branch = job[j].branch /\ r.status = job[j].status /\ r.dueAt = "now"
    BY <2>1 DEF JobRow
  <2>4. \A c \in Children(j) : enrollment[c].status \in Outcome
    BY <1>6 DEF RecallWrite, CallInv, NodeOK
  <2>5. RowOK(j, job[j])
    BY <2>1 DEF CallInv
  <2>6. RowOK(j, r)
    BY <2>3, <2>4, <2>5 DEF RowOK
  <2>7. proc'[p].pc \notin Special
    BY <1>0, <1>6 DEF RecallWrite, Return, Idle, Special
  <2> QED BY <2>1, <2>2, <2>3, <2>6, <2>7, OneKept DEF Good
<1> QED BY <1>1, <1>2, <1>3, <1>4, <1>5, <1>6 DEF Cron
-----------------------------------------------------------------------------
(* The worker.                                                             *)

LEMMA BranchesAt ==
    ASSUME NEW n \in Nodes
    PROVE  /\ Kind[n] = "condition" => Lifecycle!BranchesOf(n) = {"yes", "no"}
           /\ Kind[n] = "decision" => Lifecycle!BranchesOf(n) = {"yes", "timeout"}
           /\ Kind[n] \notin {"condition", "decision"} => Lifecycle!BranchesOf(n) = {"next"}
BY DEF Lifecycle!BranchesOf

\* What an invocation that is about to finish its node has found out.
LEMMA FinishingGood ==
    ASSUME TInv, CallInv, NEW p \in Procs, NEW b, proc[p].pc # "idle",
           UNCHANGED <<enrollment, job>>, proc' = Finishing(p, b),
           LET n == proc[p].job[2] IN
             /\ b \in Lifecycle!BranchesOf(n) /\ Kind[n] # "condition"
             /\ Kind[n] \in {"await", "async"} => \A c \in Children(proc[p].job) :
                   /\ enrollment[c].status # "absent"
                   /\ Kind[n] = "await" => enrollment[c].status = "completed"
    PROVE  Good(p)
<1>1. proc[p] \in ProcState /\ proc \in [Procs -> ProcState]
  BY DEF TInv, TypeOK
<1>2. proc'[p].pc = "finish" /\ proc'[p].branch = b /\ proc'[p].job = proc[p].job
  BY <1>1 DEF Finishing, ProcState
<1>3. NodeOK(proc[p])'
  BY <1>2 DEF NodeOK, Children, Lifecycle!BranchesOf
<1> QED BY <1>3, SameKept DEF Good

LEMMA ParkingGood ==
    ASSUME TInv, CallInv, NEW p \in Procs, proc[p].pc # "idle",
           UNCHANGED <<enrollment, job>>, Goto(p, "park"),
           Kind[proc[p].job[2]] \in {"delay", "decision"}
    PROVE  Good(p)
<1>1. proc[p] \in ProcState /\ proc \in [Procs -> ProcState]
  BY DEF TInv, TypeOK
<1>2. proc'[p].pc = "park" /\ proc'[p].job = proc[p].job
  BY <1>1 DEF Goto, ProcState
<1>3. NodeOK(proc[p])'
  BY <1>2 DEF NodeOK
<1> QED BY <1>3, SameKept DEF Good

LEMMA PlainGood ==
    ASSUME CallInv, NEW p \in Procs, UNCHANGED <<enrollment, job>>, proc'[p].pc \notin Special
    PROVE  Good(p)
BY SameKept DEF Good

LEMMA RunWaitGood ==
    ASSUME TInv, CallInv, NEW p \in Procs,
           RunSource(p) \/ RunDelay(p) \/ RunDecision(p) \/ RunAction(p) \/ ReadChild(p)
    PROVE  Good(p)
<1> DEFINE j == proc[p].job
           n == j[2]
<1>1. proc[p].pc # "idle" /\ UNCHANGED <<enrollment, job>>
  BY DEF RunSource, RunDelay, RunDecision, RunAction, ReadChild, Executing, Database
<1>2. j \in Jobs /\ n \in Nodes
  BY <1>1, RowHere DEF Jobs
<1>3. proc[p] \in ProcState /\ proc \in [Procs -> ProcState]
  BY DEF TInv, TypeOK
<1>4. CASE RunSource(p) \/ RunAction(p)
  <2>1. Kind[n] \in {"source", "action"} /\ proc' = Finishing(p, "next")
    BY <1>4 DEF RunSource, RunAction, Executing
  <2> QED BY <1>1, <1>2, <2>1, BranchesAt, FinishingGood
<1>5. CASE RunDelay(p)
  <2>1. Kind[n] = "delay" /\ (proc' = Finishing(p, "next") \/ Goto(p, "park"))
    BY <1>5 DEF RunDelay, Executing
  <2> QED BY <1>1, <1>2, <2>1, BranchesAt, FinishingGood, ParkingGood
<1>6. CASE RunDecision(p)
  <2>1. /\ Kind[n] = "decision"
        /\ \/ proc' = Finishing(p, "yes") \/ proc' = Finishing(p, "timeout")
           \/ Goto(p, "park")
    BY <1>6 DEF RunDecision, Executing
  <2> QED BY <1>1, <1>2, <2>1, BranchesAt, FinishingGood, ParkingGood
<1>7. CASE ReadChild(p)
  <2> DEFINE status == {enrollment[c].status : c \in Children(j)}
  <2>1. Kind[n] \in {"await", "async"}
    BY <1>7 DEF ReadChild, CallInv, NodeOK
  <2>2. \/ \E permanent \in BOOLEAN : proc' = Failing(p, permanent)
        \/ proc' = [proc EXCEPT ![p].pc = "ack"]
        \/ /\ proc' = Finishing(p, "next")
           /\ ~(status \subseteq {"absent"})
           /\ Kind[n] = "async" \/ "completed" \in status
    BY <1>7 DEF ReadChild
  <2>3. CASE \E permanent \in BOOLEAN : proc' = Failing(p, permanent)
    BY <1>1, <1>3, <2>3, PlainGood DEF Failing, ProcState, Special
  <2>4. CASE proc' = [proc EXCEPT ![p].pc = "ack"]
    BY <1>1, <1>3, <2>4, PlainGood DEF ProcState, Special
  <2>5. CASE /\ proc' = Finishing(p, "next")
             /\ ~(status \subseteq {"absent"})
             /\ Kind[n] = "async" \/ "completed" \in status
    <3>1. \A c \in Children(j) : /\ enrollment[c].status # "absent"
                                 /\ Kind[n] = "await" => enrollment[c].status = "completed"
      BY <1>2, <2>1, <2>5, OneChild
    <3> QED BY <1>1, <1>2, <2>1, <2>5, <3>1, BranchesAt, FinishingGood
  <2> QED BY <2>2, <2>3, <2>4, <2>5
<1> QED BY <1>4, <1>5, <1>6, <1>7
LEMMA RunConditionGood ==
    ASSUME TInv, CallInv, NEW p \in Procs, RunCondition(p) PROVE Good(p)
<1> DEFINE j == proc[p].job
<1>1. proc[p] \in ProcState /\ proc \in [Procs -> ProcState]
  BY DEF TInv, TypeOK
<1>2. Kind[j[2]] = "condition" /\ UNCHANGED enrollment /\ j \in Jobs /\ job[j] \in JobRow
  BY RowHere DEF RunCondition, Executing
<1>3. CASE RunningLease(j, proc[p].lease)
  <2>1. PICK b \in IF job[j].branch = None THEN {"yes", "no"} ELSE {job[j].branch} :
          job' = [job EXCEPT ![j].branch = b] /\ proc' = Finishing(p, b)
    BY <1>3 DEF RunCondition
  <2> DEFINE r == [job[j] EXCEPT !.branch = b]
  <2>2. RowOK(j, job[j])
    BY <1>2 DEF CallInv
  <2>3. b \in {"yes", "no"} /\ (job[j].branch # None => b = job[j].branch)
    BY <1>2, <2>1, <2>2 DEF RowOK
  <2>4. /\ r.status = job[j].status /\ r.branch = b /\ r.dueAt = job[j].dueAt
        /\ r.child = job[j].child /\ r.outcome = job[j].outcome
    BY <1>2 DEF JobRow
  <2>5. job[j].status # "absent"
    BY <1>3 DEF RunningLease
  <2>6. RowOK(j, r)
    BY <2>2, <2>3, <2>4, <2>5 DEF RowOK
  <2>7. job' = [job EXCEPT ![j] = r]
    BY <2>1
  <2>8. Kept
    BY <1>2, <2>3, <2>4, <2>6, <2>7, OneKept
  <2>9. proc'[p].pc = "finish" /\ proc'[p].branch = b /\ proc'[p].job = j
    BY <1>1, <2>1 DEF Finishing, ProcState
  <2>10. job'[j].branch = b
    BY <1>2, <2>4, <2>7 DEF TInv, TypeOK
  <2>11. NodeOK(proc[p])'
    BY <1>2, <2>3, <2>9, <2>10, BranchesAt DEF NodeOK, Jobs, Lifecycle!BranchesOf
  <2> QED BY <2>8, <2>11 DEF Good
<1>4. CASE ~RunningLease(j, proc[p].lease)
  <2>1. proc' = Failing(p, FALSE) /\ UNCHANGED job
    BY <1>4 DEF RunCondition
  <2> QED BY <1>1, <1>2, <2>1, PlainGood DEF Failing, ProcState, Special
<1> QED BY <1>3, <1>4

LEMMA ParkGood == ASSUME TInv, CallInv, NEW p \in Procs, Park(p) PROVE Good(p)
<1> DEFINE j == proc[p].job
           parked == [Released(job[j], "pending") EXCEPT
                      !.attempts = 0, !.waiting = TRUE, !.branch = None,
                      !.child = FALSE, !.outcome = None,
                      !.elapsed = @ /\ Kind[j[2]] = "decision",
                      !.dueAt = IF event[j] # "none" THEN "now" ELSE "deadline"]
<1>1. proc[p] \in ProcState /\ proc \in [Procs -> ProcState]
  BY DEF TInv, TypeOK
<1>2. j \in Jobs /\ job[j] \in JobRow /\ UNCHANGED enrollment
  BY RowHere DEF Park
<1>3. Kind[j[2]] \in {"delay", "decision"}
  BY DEF Park, CallInv, NodeOK
<1>4. /\ parked.status = "pending" /\ parked.branch = None /\ parked.outcome = None
      /\ parked.dueAt \in {"now", "deadline"}
  BY <1>2 DEF Released, JobRow
<1>5. job' \in {job, [job EXCEPT ![j] = parked]}
  BY DEF Park
<1> HIDE DEF parked
<1>6. RowOK(j, parked)
  BY <1>4 DEF RowOK
<1>7. proc'[p].pc = "ack"
  BY <1>1 DEF Park, Goto, ProcState
<1> QED BY <1>2, <1>3, <1>5, <1>6, <1>7, OneKept DEF Good, Special

LEMMA StartGood ==
    ASSUME TInv, CallInv, NEW p \in Procs, Start(p) \/ FailureRetry(p) PROVE Good(p)
<1> DEFINE j == proc[p].job
<1>1. proc[p] \in ProcState /\ proc \in [Procs -> ProcState]
  BY DEF TInv, TypeOK
<1>2. j \in Jobs /\ job[j] \in JobRow /\ UNCHANGED enrollment
  BY RowHere DEF Start, FailureRetry
<1>3. CASE Start(p)
  <2> DEFINE r == [job[j] EXCEPT !.status = "running", !.attempts = @ + 1]
             running == [proc[p] EXCEPT !.pc = "execute", !.status = None, !.attempts = 0]
             lost == [running EXCEPT !.pc = "failRead", !.waiting = FALSE, !.then = "ack"]
             stale == [running EXCEPT !.pc = "ack", !.waiting = FALSE]
  <2>1. Alike(r, job[j])
    BY <1>2 DEF Alike, JobRow
  <2>2. job' \in {job, [job EXCEPT ![j] = r]}
    BY <1>2, <1>3 DEF Start, TInv, TypeOK
  <2>3. \/ proc' = [proc EXCEPT ![p] = running]
        \/ proc' = [proc EXCEPT ![p] = lost]
        \/ proc' = [proc EXCEPT ![p] = stale]
    BY <1>3 DEF Start
  <2>4. proc'[p].pc \notin Special
    <3>1. running.pc = "execute" /\ lost.pc = "failRead" /\ stale.pc = "ack"
      BY <1>1 DEF ProcState
    <3> HIDE DEF running, lost, stale
    <3>2. proc'[p] \in {running, lost, stale}
      BY <1>1, <2>3
    <3> QED BY <3>1, <3>2 DEF Special
  <2> QED BY <1>2, <2>1, <2>2, <2>4, OneAlike DEF Good
<1>4. CASE FailureRetry(p)
  <2> DEFINE r == [job[j] EXCEPT !.status = "leased"]
  <2>1. Alike(r, job[j])
    BY <1>2 DEF Alike, JobRow
  <2>2. job' \in {job, [job EXCEPT ![j] = r]}
    BY <1>2, <1>4 DEF FailureRetry, TInv, TypeOK
  <2>3. proc'[p].pc = "nack"
    BY <1>1, <1>4 DEF FailureRetry, Goto, ProcState
  <2> QED BY <1>2, <2>1, <2>2, <2>3, OneAlike DEF Good, Special
<1> QED BY <1>3, <1>4
LEMMA FinishGood ==
    ASSUME NEW rank \in Ranking, SInv(rank), CallInv, NEW p \in Procs, Finish(p) PROVE Good(p)
<1> DEFINE j == proc[p].job
           e == j[1]
           n == Edge[j[2]][proc[p].branch]
           at == [status |-> IF n = None THEN "completed" ELSE "active", node |-> n]
<1>1. TInv /\ proc[p] \in ProcState /\ proc \in [Procs -> ProcState]
  BY DEF SInv, TInv, TypeOK
<1>2. j \in Jobs /\ job[j] \in JobRow /\ e \in Enrollments
  BY <1>1, RowHere DEF Finish, FinishIf, Jobs
<1>3. proc'[p].pc \notin Special
  BY <1>1 DEF Finish, FinishIf, ProcState, Special
<1>4. CASE RunningLease(j, proc[p].lease)
  <2>1. enrollment[e].status = "active"
    BY <1>2, <1>4, RunningHere DEF RunningLease, Live
  <2>2. enrollment' = [enrollment EXCEPT ![e] = at]
    BY <1>4, <2>1 DEF Finish, FinishIf
  <2>3. Settled
    BY <1>1, <2>1, <2>2 DEF Settled, TInv, TypeOK, Outcome
  <2>4. Alike(Released(job[j], "succeeded"), job[j]) /\ \A k \in Jobs : Alike(job[k], job[k])
    BY <1>2 DEF Alike, Released, JobRow
  <2>5. \A k \in Jobs : \/ job'[k] = job[k]
                        \/ k = j /\ job'[k] = Released(job[j], "succeeded")
                        \/ job'[k] = NewJob /\ job[k].status = "absent"
    <3>1. \/ job' = [job EXCEPT ![j] = Released(job[j], "succeeded")]
          \/ /\ job[<<e, n>>].status = "absent"
             /\ job' = [[job EXCEPT ![j] = Released(job[j], "succeeded")]
                          EXCEPT ![<<e, n>>] = NewJob]
      BY <1>4 DEF Finish, FinishIf
    <3> HIDE DEF n
    <3> QED BY <1>1, <1>2, <3>1 DEF TInv, TypeOK
  <2> QED BY <1>3, <2>3, <2>4, <2>5, AlikeKept DEF Good
<1>5. CASE ~RunningLease(j, proc[p].lease)
  BY <1>3, <1>5, PlainGood DEF Finish, FinishIf
<1> QED BY <1>4, <1>5

\* Continue leaves the invocation at one of these.
LEMMA ContinueGood ==
    ASSUME TInv, NEW p \in Procs, Continue(p), proc[p].then \in Continuations
    PROVE  proc'[p].pc \notin Special
<1> DEFINE r == [proc[p] EXCEPT !.pc = "failRead", !.status = None, !.then = "ack"]
           s == [proc[p] EXCEPT !.pc = proc[p].then, !.status = None, !.then = None]
<1>1. proc[p] \in ProcState /\ proc \in [Procs -> ProcState]
  BY DEF TInv, TypeOK
<1>2. \/ proc' = [proc EXCEPT ![p] = Idle] \/ proc' = [proc EXCEPT ![p] = r]
      \/ proc' = [proc EXCEPT ![p] = s]
  BY DEF Continue
<1>3. Idle.pc = "idle" /\ r.pc = "failRead" /\ s.pc \in Continuations
  BY <1>1 DEF Idle, ProcState
<1> HIDE DEF r, s
<1>4. proc'[p] \in {Idle, r, s}
  BY <1>1, <1>2
<1> QED BY <1>3, <1>4 DEF Special, Continuations

LEMMA FailGood ==
    ASSUME NEW rank \in Ranking, SInv(rank), CallInv, NEW p \in Procs,
           FailRead(p) \/ FailWrite(p)
    PROVE  Good(p)
<1> DEFINE j == proc[p].job
           e == j[1]
<1>1. TInv /\ proc[p] \in ProcState /\ proc \in [Procs -> ProcState]
  BY DEF SInv, TInv, TypeOK
<1>2. j \in Jobs /\ job[j] \in JobRow /\ e \in Enrollments /\ proc[p].then \in Continuations
  BY <1>1, RowHere, Here DEF FailRead, FailWrite, Jobs, ProcOK
<1>3. CASE FailRead(p)
  <2>1. proc'[p].pc = "failWrite" \/ Continue(p)
    BY <1>1, <1>3 DEF FailRead, ProcState
  <2> QED BY <1>1, <1>2, <1>3, <2>1, ContinueGood, PlainGood DEF FailRead, Database, Special
<1>4. CASE FailWrite(p)
  <2>1. proc'[p].pc \notin Special
    BY <1>1, <1>2, <1>4, ContinueGood DEF FailWrite
  <2>2. Settled
    BY <1>1, <1>4 DEF FailWrite, Settled, TInv, TypeOK, Outcome
  <2>3. Alike(Released(job[j], "failed"), job[j]) /\ \A k \in Jobs : Alike(job[k], job[k])
    BY <1>2 DEF Alike, Released, JobRow
  <2>4. \A k \in Jobs : job'[k] = job[k] \/ (k = j /\ job'[k] = Released(job[j], "failed"))
    BY <1>1, <1>4 DEF FailWrite, TInv, TypeOK
  <2> QED BY <2>1, <2>2, <2>3, <2>4, AlikeKept DEF Good
<1> QED BY <1>3, <1>4
\* What the batch of startChild does, for the lemmas below.
LEMMA CallSteps ==
    ASSUME NEW rank \in Ranking, SInv(rank), NEW p \in Procs, RunCall(p)
    PROVE  \E born \in SUBSET Enrollments, parks \in BOOLEAN :
             /\ parks => /\ Kind[proc[p].job[2]] = "await"
                         /\ \E c \in Children(proc[p].job) :
                               enrollment[c].status \in {"absent", "active"}
             /\ \A c \in born : /\ Parent[c] = proc[p].job /\ enrollment[c].status = "absent"
                                /\ job[<<c, Source[c]>>].status = "absent"
             /\ born # {} \/ parks => job[proc[p].job].status = "running"
             /\ parks => \A c \in Children(proc[p].job) :
                            enrollment[c].status # "absent" \/ c \in born
             /\ enrollment' = [e \in Enrollments |->
                   IF e \in born THEN [status |-> "active", node |-> Source[e]]
                   ELSE enrollment[e]]
             /\ job' = [k \in Jobs |->
                   IF k = proc[p].job /\ parks
                   THEN [Released(job[k], "pending") EXCEPT
                           !.attempts = 0, !.dueAt = "never", !.child = TRUE]
                   ELSE IF \E c \in born : k = <<c, Source[c]>> THEN NewJob ELSE job[k]]
<1> DEFINE j == proc[p].job
           authority == RunningLease(j, proc[p].lease)
           born == IF authority THEN Unborn(j) ELSE {}
           parks == /\ Kind[j[2]] = "await" /\ authority
                    /\ (born # {} \/ ChildActive(j))
<1>1. StartChild(p, born, parks)
  BY DEF RunCall
<1>2. born \in SUBSET Enrollments /\ parks \in BOOLEAN
  BY DEF Unborn, Children
<1>3. parks => /\ Kind[j[2]] = "await"
               /\ \E c \in Children(j) : enrollment[c].status \in {"absent", "active"}
  BY DEF Unborn, ChildActive
<1>4. \A c \in born : /\ Parent[c] = j /\ enrollment[c].status = "absent"
                      /\ job[<<c, Source[c]>>].status = "absent"
  <2>1. \A c \in born : c \in Enrollments /\ Parent[c] = j /\ enrollment[c].status = "absent"
    BY DEF Unborn, Children
  <2>2. \A c \in Enrollments : Source[c] \in Nodes
    BY ConstantsAssumption
  <2> HIDE DEF born
  <2> QED BY <2>1, <2>2, AtNode
<1>5. born # {} \/ parks => job[j].status = "running"
  BY DEF RunningLease
<1>6. parks => \A c \in Children(j) : enrollment[c].status # "absent" \/ c \in born
  BY DEF Unborn
<1>7. /\ enrollment' = [e \in Enrollments |->
            IF e \in born THEN [status |-> "active", node |-> Source[e]] ELSE enrollment[e]]
      /\ job' = [k \in Jobs |->
            IF k = j /\ parks
            THEN [Released(job[k], "pending") EXCEPT
                    !.attempts = 0, !.dueAt = "never", !.child = TRUE]
            ELSE IF \E c \in born : k = <<c, Source[c]>> THEN NewJob ELSE job[k]]
  <2> HIDE DEF born, parks
  <2> QED BY <1>1 DEF StartChild
<1> HIDE DEF born, parks, authority
<1> QED BY <1>2, <1>3, <1>4, <1>5, <1>6, <1>7

LEMMA RunCallGood ==
    ASSUME NEW rank \in Ranking, SInv(rank), CallInv, NEW p \in Procs, RunCall(p) PROVE Good(p)
<1> DEFINE j == proc[p].job
           parked == [Released(job[j], "pending") EXCEPT
                        !.attempts = 0, !.dueAt = "never", !.child = TRUE]
<1>1. TInv /\ proc[p] \in ProcState /\ proc \in [Procs -> ProcState]
  BY DEF SInv, TInv, TypeOK
<1>2. PICK born \in SUBSET Enrollments, parks \in BOOLEAN :
        /\ parks => /\ Kind[j[2]] = "await"
                    /\ \E c \in Children(j) : enrollment[c].status \in {"absent", "active"}
        /\ \A c \in born : /\ Parent[c] = j /\ enrollment[c].status = "absent"
                           /\ job[<<c, Source[c]>>].status = "absent"
        /\ born # {} \/ parks => job[j].status = "running"
        /\ parks => \A c \in Children(j) : enrollment[c].status # "absent" \/ c \in born
        /\ enrollment' = [e \in Enrollments |->
              IF e \in born THEN [status |-> "active", node |-> Source[e]]
              ELSE enrollment[e]]
        /\ job' = [k \in Jobs |->
              IF k = j /\ parks
              THEN [Released(job[k], "pending") EXCEPT
                      !.attempts = 0, !.dueAt = "never", !.child = TRUE]
              ELSE IF \E c \in born : k = <<c, Source[c]>> THEN NewJob ELSE job[k]]
  BY CallSteps
<1>3. j \in Jobs /\ job[j] \in JobRow
  BY <1>1, RowHere DEF RunCall, StartChild, Executing
<1>4. /\ parked.status = "pending" /\ parked.branch = job[j].branch /\ parked.child
      /\ parked.outcome = job[j].outcome
  BY <1>3 DEF Released, JobRow
<1>5. \A e \in Enrollments : enrollment'[e].status =
        IF e \in born THEN "active" ELSE enrollment[e].status
  BY <1>2
<1>6. \A k \in Jobs : \/ job'[k] = job[k]
                      \/ k = j /\ parks /\ job'[k] = parked
                      \/ job'[k] = NewJob /\ job[k].status = "absent"
  BY <1>2
<1> HIDE DEF parked
<1>7. Settled
  BY <1>2, <1>5 DEF Settled, Outcome
<1>8. ASSUME NEW k \in Jobs, k = j, parks, job'[k] = parked PROVE RowOK(k, job[k])'
  <2>1. \E c \in Children(j) : enrollment[c].status \notin Outcome
    BY <1>2, <1>8 DEF Outcome
  <2>2. RowOK(j, job[j])
    BY <1>3 DEF CallInv
  <2>3. job[j].outcome = None
    BY <2>1, <2>2 DEF RowOK
  <2>4. \A c \in Children(j) : c \in Enrollments
    BY DEF Children
  <2>5. \E c \in Children(j) : enrollment'[c].status # "absent"
    BY <1>2, <1>5, <1>8, <2>1, <2>4
  <2> QED BY <1>4, <1>8, <2>2, <2>3, <2>5 DEF RowOK, Children
<1>9. \A k \in Jobs : Alike(job[k], job[k])
  BY DEF Alike
<1>10. Kept
  <2>1. NewJob.status = "pending" /\ NewJob.branch = None /\ NewJob.dueAt = "now"
        /\ NewJob.outcome = None
    BY DEF NewJob, Absent
  <2>2. ASSUME NEW k \in Jobs PROVE RowOK(k, job[k])'
    <3>1. CASE job'[k] = job[k]
      <4>1. RowOK(k, job[k]) /\ \A c \in Children(k) : c \in Enrollments
        BY DEF CallInv, Children
      <4> QED BY <3>1, <4>1, <1>7 DEF RowOK, Settled, Children
    <3>2. CASE k = j /\ parks /\ job'[k] = parked
      BY <1>8, <3>2
    <3>3. CASE job'[k] = NewJob /\ job[k].status = "absent"
      BY <2>1, <3>3 DEF RowOK
    <3> QED BY <1>6, <3>1, <3>2, <3>3
  <2>3. BranchKept
    BY <1>4, <1>6 DEF BranchKept, CallInv, RowOK
  <2> QED BY <1>7, <2>2, <2>3 DEF Kept
<1>11. NodeOK(proc[p])'
  <2>1. Kind[j[2]] \in {"await", "async"}
    BY DEF RunCall, StartChild, Executing
  <2>2. proc'[p].pc = "readChild" /\ proc'[p].job = j
    BY <1>1 DEF RunCall, StartChild, Goto, ProcState
  <2> QED BY <2>1, <2>2 DEF NodeOK
<1> QED BY <1>10, <1>11 DEF Good
\* The other steps of a worker touch neither rows nor enrollments.
LEMMA MessagesGood ==
    ASSUME TInv, CallInv, NEW p \in Procs,
           \/ \E m \in queue : Deliver(p, m)
           \/ Throw(p) \/ FailureRead(p) \/ Ack(p) \/ Nack(p) \/ DeadLetterAck(p)
           \/ \E m \in dlq : DeliverDeadLetter(p, m)
    PROVE  Good(p)
<1>1. proc[p] \in ProcState /\ proc \in [Procs -> ProcState]
  BY DEF TInv, TypeOK
<1>2. UNCHANGED <<enrollment, job>>
  BY DEF Deliver, Throw, FailureRead, Ack, Nack, DeadLetterAck, DeliverDeadLetter, Database
<1> SUFFICES proc'[p].pc \notin Special
  BY <1>2, PlainGood
<1>3. ASSUME NEW m \in queue, Deliver(p, m) PROVE proc'[p].pc \in {"start", "ack"}
  BY <1>1, <1>3 DEF Deliver, Idle
<1>4. CASE Throw(p)
  <2>1. PICK permanent \in BOOLEAN : proc' = Failing(p, permanent)
    BY <1>4 DEF Throw
  <2> QED BY <1>1, <2>1 DEF Failing, ProcState, Special
<1>5. CASE FailureRead(p)
  <2> DEFINE after == IF proc[p].permanent THEN "failRead" ELSE "ack"
             stale == [proc[p] EXCEPT !.permanent = FALSE, !.pc = after,
                         !.then = IF proc[p].permanent THEN "ack" ELSE None]
             fatal == [proc[p] EXCEPT !.permanent = FALSE, !.pc = "failRead", !.then = after]
             again == [proc[p] EXCEPT !.pc = "retry"]
  <2>1. \/ proc' = [proc EXCEPT ![p] = stale] \/ proc' = [proc EXCEPT ![p] = fatal]
        \/ proc' = [proc EXCEPT ![p] = again]
    BY <1>5 DEF FailureRead
  <2>2. stale.pc \in {"failRead", "ack"} /\ fatal.pc = "failRead" /\ again.pc = "retry"
    BY <1>1 DEF ProcState
  <2> HIDE DEF stale, fatal, again
  <2>3. proc'[p] \in {stale, fatal, again}
    BY <1>1, <2>1
  <2> QED BY <2>2, <2>3 DEF Special
<1>6. CASE Ack(p) \/ Nack(p) \/ DeadLetterAck(p)
  BY <1>1, <1>6 DEF Ack, Nack, DeadLetterAck, Return, Idle, Special
<1>7. ASSUME NEW m \in dlq, DeliverDeadLetter(p, m) PROVE proc'[p].pc = "failRead"
  BY <1>1, <1>7 DEF DeliverDeadLetter, Idle
<1> QED BY <1>3, <1>4, <1>5, <1>6, <1>7 DEF Special

LEMMA WorkerGood ==
    ASSUME NEW rank \in Ranking, SInv(rank), CallInv, NEW p \in Procs, Worker(p) PROVE Good(p)
<1>1. TInv
  BY DEF SInv
<1> QED BY <1>1, RunWaitGood, RunConditionGood, ParkGood, StartGood, FinishGood, FailGood,
    RunCallGood, MessagesGood DEF Worker

-----------------------------------------------------------------------------
(* The environment.                                                        *)

LEMMA EnrollKept ==
    ASSUME NEW rank \in Ranking, SInv(rank), CallInv, NEW e \in Enrollments, Enroll(e)
    PROVE  Kept
<1>1. Source[e] \in Nodes /\ TInv
  BY ConstantsAssumption DEF SInv
<1>2. job[<<e, Source[e]>>].status = "absent"
  BY <1>1, AtNode DEF Enroll
<1>3. Settled
  BY <1>1 DEF Enroll, Settled, TInv, TypeOK, Outcome
<1>4. \A k \in Jobs : job'[k] = job[k] \/ (job'[k] = NewJob /\ job[k].status = "absent")
  BY <1>1, <1>2 DEF Enroll, TInv, TypeOK
<1>5. \A k \in Jobs : Alike(job[k], job[k])
  BY DEF Alike
<1> QED BY <1>3, <1>4, <1>5, AlikeKept

LEMMA CancelKept ==
    ASSUME TInv, CallInv, NEW e \in Enrollments, CancelEnrollment(e) PROVE Kept
<1> DEFINE tree == Descendants(e)
<1>1. \A d \in Enrollments : enrollment'[d] =
        IF d \in tree /\ enrollment[d].status = "active"
        THEN [enrollment[d] EXCEPT !.status = "cancelled"] ELSE enrollment[d]
  BY DEF CancelEnrollment
<1>2. \A k \in Jobs : job'[k] \in {job[k], Released(job[k], "cancelled")}
  BY DEF CancelEnrollment
<1> HIDE DEF tree
<1>3. Settled
  BY <1>1 DEF Settled, TInv, TypeOK, Outcome
<1>4. \A k \in Jobs : Alike(job[k], job[k]) /\ Alike(Released(job[k], "cancelled"), job[k])
  BY DEF TInv, TypeOK, Alike, Released, JobRow
<1> QED BY <1>2, <1>3, <1>4, AlikeKept

LEMMA RowEventsKept ==
    ASSUME TInv, CallInv, NEW j \in Jobs,
           RepairParked(j) \/ LeaseExpires(j) \/ DeadlinePasses(j)
           \/ StoreEvent(j) \/ WakeWaitingDecision(j)
    PROVE  Kept
<1>1. job[j] \in JobRow
  BY DEF TInv, TypeOK
<1>2. UNCHANGED enrollment
  BY DEF RepairParked, LeaseExpires, DeadlinePasses, StoreEvent, WakeWaitingDecision
<1>3. /\ Alike([job[j] EXCEPT !.attempts = 0], job[j])
      /\ Alike([job[j] EXCEPT !.expired = TRUE], job[j])
      /\ Alike([job[j] EXCEPT !.elapsed = TRUE], job[j])
      /\ Alike([job[j] EXCEPT !.dueAt = "now"], job[j])
  BY <1>1 DEF JobRow, Alike
<1>4. \/ UNCHANGED job
      \/ job' = [job EXCEPT ![j] = [job[j] EXCEPT !.attempts = 0]]
      \/ job' = [job EXCEPT ![j] = [job[j] EXCEPT !.expired = TRUE]]
      \/ job' = [job EXCEPT ![j] = [job[j] EXCEPT !.elapsed = TRUE]]
      \/ job' = [job EXCEPT ![j] = [job[j] EXCEPT !.dueAt = "now"]]
  BY DEF RepairParked, LeaseExpires, DeadlinePasses, StoreEvent, WakeWaitingDecision
<1> QED BY <1>2, <1>3, <1>4, OneAlike, SameKept
-----------------------------------------------------------------------------
(* What each step that is not steady makes of enrollments and of the jobs  *)
(* that are done.                                                          *)

SameDone == \A k \in Jobs : job'[k].status = "succeeded" <=> job[k].status = "succeeded"

LEMMA SteadyDone == ASSUME Steady PROVE SameDone
BY DEF Steady, SameDone, Live

LEMMA EnrollShape ==
    ASSUME NEW rank \in Ranking, SInv(rank), NEW e \in Enrollments, Enroll(e)
    PROVE  /\ SameDone
           /\ \A d \in Enrollments : enrollment'[d] =
                IF d = e THEN [status |-> "active", node |-> Source[e]] ELSE enrollment[d]
<1>1. Source[e] \in Nodes /\ TInv
  BY ConstantsAssumption DEF SInv
<1>2. job[<<e, Source[e]>>].status = "absent" /\ NewJob.status = "pending"
  BY <1>1, AtNode DEF Enroll, NewJob, Absent
<1> QED BY <1>1, <1>2 DEF Enroll, TInv, TypeOK, SameDone

LEMMA CancelShape ==
    ASSUME TInv, NEW e \in Enrollments, CancelEnrollment(e)
    PROVE  /\ SameDone
           /\ \A d \in Enrollments :
                /\ enrollment'[d].node = enrollment[d].node
                /\ enrollment'[d].status =
                     IF d \in Descendants(e) /\ enrollment[d].status = "active"
                     THEN "cancelled" ELSE enrollment[d].status
<1> DEFINE tree == Descendants(e)
<1>1. \A d \in Enrollments : enrollment'[d] =
        IF d \in tree /\ enrollment[d].status = "active"
        THEN [enrollment[d] EXCEPT !.status = "cancelled"] ELSE enrollment[d]
  BY DEF CancelEnrollment
<1>2. \A k \in Jobs :
        job'[k] = IF k[1] \in tree /\ job[k].status \in Live
                  THEN Released(job[k], "cancelled") ELSE job[k]
  BY DEF CancelEnrollment
<1> HIDE DEF tree
<1>3. \A d \in Enrollments :
        /\ enrollment'[d].node = enrollment[d].node
        /\ enrollment'[d].status = IF d \in tree /\ enrollment[d].status = "active"
                                   THEN "cancelled" ELSE enrollment[d].status
  BY <1>1 DEF TInv, TypeOK
<1>4. SameDone
  <2>1. \A k \in Jobs : Released(job[k], "cancelled").status = "cancelled"
    BY ReleasedOK DEF TInv, TypeOK, JobStatus, Terminal
  <2> QED BY <1>2, <2>1 DEF SameDone, Live
<1> QED BY <1>3, <1>4 DEF tree

LEMMA RunCallShape ==
    ASSUME NEW rank \in Ranking, SInv(rank), NEW p \in Procs, RunCall(p)
    PROVE  \/ UNCHANGED enrollment /\ SameDone
           \/ \E c \in Enrollments :
                /\ Parent[c] = proc[p].job /\ enrollment[c].status = "absent"
                /\ job[proc[p].job].status = "running"
                /\ SameDone
                /\ \A d \in Enrollments : enrollment'[d] =
                     IF d = c THEN [status |-> "active", node |-> Source[c]] ELSE enrollment[d]
<1> DEFINE j == proc[p].job
<1>1. PICK born \in SUBSET Enrollments, parks \in BOOLEAN :
        /\ \A c \in born : /\ Parent[c] = j /\ enrollment[c].status = "absent"
                           /\ job[<<c, Source[c]>>].status = "absent"
        /\ born # {} \/ parks => job[j].status = "running"
        /\ enrollment' = [e \in Enrollments |->
              IF e \in born THEN [status |-> "active", node |-> Source[e]]
              ELSE enrollment[e]]
        /\ job' = [k \in Jobs |->
              IF k = j /\ parks
              THEN [Released(job[k], "pending") EXCEPT
                      !.attempts = 0, !.dueAt = "never", !.child = TRUE]
              ELSE IF \E c \in born : k = <<c, Source[c]>> THEN NewJob ELSE job[k]]
  BY CallSteps
<1>2. j \in Jobs /\ job[j] \in JobRow /\ TInv
  BY RowHere DEF RunCall, StartChild, Executing, SInv
<1>3. SameDone
  <2> DEFINE parked == [Released(job[j], "pending") EXCEPT
                          !.attempts = 0, !.dueAt = "never", !.child = TRUE]
  <2>1. parked.status = "pending" /\ NewJob.status = "pending"
    BY <1>2 DEF Released, JobRow, NewJob, Absent
  <2>2. \A k \in Jobs : \/ job'[k] = job[k]
                        \/ k = j /\ parks /\ job'[k] = parked
                        \/ job'[k] = NewJob /\ job[k].status = "absent"
    BY <1>1
  <2> HIDE DEF parked
  <2> QED BY <1>1, <2>1, <2>2 DEF SameDone
<1>4. CASE born = {}
  BY <1>1, <1>2, <1>3, <1>4 DEF TInv, TypeOK
<1>5. ASSUME NEW c \in born PROVE born = {c}
  <2>1. \A d \in born : d \in Children(j)
    BY <1>1 DEF Children
  <2> QED BY <1>2, <2>1, OneChild
<1>6. CASE born # {}
  <2>1. PICK c \in born : TRUE
    BY <1>6
  <2>2. born = {c} /\ c \in Enrollments
    BY <1>5, <2>1
  <2>3. \A d \in Enrollments : enrollment'[d] =
          IF d = c THEN [status |-> "active", node |-> Source[c]] ELSE enrollment[d]
    BY <1>1, <2>2
  <2> QED BY <1>1, <1>3, <1>6, <2>2, <2>3
<1> QED BY <1>4, <1>6

LEMMA FailShape ==
    ASSUME NEW rank \in Ranking, SInv(rank), NEW p \in Procs, FailWrite(p)
    PROVE  /\ SameDone
           /\ \/ UNCHANGED enrollment
              \/ \E e \in Enrollments :
                   /\ enrollment[e].status = "active"
                   /\ enrollment' = [enrollment EXCEPT ![e] = [status |-> "failed", node |-> None]]
<1> DEFINE j == proc[p].job
<1>1. j \in Jobs /\ job[j] \in JobRow /\ j[1] \in Enrollments /\ TInv /\ proc[p].status \in Leased
  BY RowHere, Here DEF FailWrite, SInv, Jobs, ProcOK
<1>2. SameDone
  <2>1. Released(job[j], "failed").status = "failed"
    BY <1>1, ReleasedOK DEF JobStatus, Terminal
  <2>2. \/ job' = job
        \/ job[j].status = proc[p].status /\ job' = [job EXCEPT ![j] = Released(job[j], "failed")]
    BY DEF FailWrite
  <2> QED BY <1>1, <2>1, <2>2 DEF SameDone, TInv, TypeOK, Leased
<1> QED BY <1>1, <1>2 DEF FailWrite

LEMMA FinishShape ==
    ASSUME NEW rank \in Ranking, SInv(rank), NEW p \in Procs, Finish(p)
    PROVE  \/ UNCHANGED <<enrollment, job>>
           \/ LET j == proc[p].job
                  e == j[1]
                  n == Edge[j[2]][proc[p].branch] IN
              /\ j \in Jobs /\ e \in Enrollments /\ j = <<e, j[2]>> /\ j[2] \in Nodes
              /\ job[j].status = "running"
              /\ enrollment[e].status = "active" /\ enrollment[e].node = j[2]
              /\ enrollment' = [enrollment EXCEPT ![e] =
                    [status |-> IF n = None THEN "completed" ELSE "active", node |-> n]]
              /\ \A k \in Jobs : job'[k].status = "succeeded" <=>
                                    k = j \/ job[k].status = "succeeded"
<1> DEFINE j == proc[p].job
           e == j[1]
           n == Edge[j[2]][proc[p].branch]
<1>1. j \in Jobs /\ job[j] \in JobRow /\ TInv /\ proc[p].branch \in Branches
  BY RowHere, Here DEF Finish, FinishIf, SInv, ProcOK
<1>2. e \in Enrollments /\ j[2] \in Nodes /\ j = <<e, j[2]>>
  BY <1>1 DEF Jobs
<1>3. CASE ~RunningLease(j, proc[p].lease)
  BY <1>3 DEF Finish, FinishIf
<1>4. CASE RunningLease(j, proc[p].lease)
  <2>1. job[j].status = "running" /\ enrollment[e].status = "active" /\ enrollment[e].node = j[2]
    BY <1>1, <1>4, RunningHere DEF RunningLease, Live
  <2>2. enrollment' = [enrollment EXCEPT ![e] =
            [status |-> IF n = None THEN "completed" ELSE "active", node |-> n]]
    BY <1>4, <2>1 DEF Finish, FinishIf
  <2>3. \/ job' = [job EXCEPT ![j] = Released(job[j], "succeeded")]
        \/ /\ job[<<e, n>>].status = "absent"
           /\ job' = [[job EXCEPT ![j] = Released(job[j], "succeeded")]
                        EXCEPT ![<<e, n>>] = NewJob]
    BY <1>4 DEF Finish, FinishIf
  <2>4. Released(job[j], "succeeded").status = "succeeded" /\ NewJob.status = "pending"
    BY <1>1, ReleasedOK DEF JobStatus, Terminal, NewJob, Absent
  <2> HIDE DEF n
  <2>5. \A k \in Jobs : job'[k].status = "succeeded" <=>
                           k = j \/ job[k].status = "succeeded"
    BY <1>1, <2>1, <2>3, <2>4 DEF TInv, TypeOK
  <2> USE DEF n
  <2> QED BY <1>1, <1>2, <2>1, <2>2, <2>5
<1> QED BY <1>3, <1>4
-----------------------------------------------------------------------------
(* Calls.                                                                  *)

LEMMA StepKinds ==
    ASSUME TInv, [Next]_vars
    PROVE  \/ Steady
           \/ \E e \in Enrollments : Enroll(e) \/ CancelEnrollment(e)
           \/ \E p \in Procs : RunCall(p) \/ FailWrite(p) \/ Finish(p)
<1>1. CASE Environment
  <2>1. ASSUME NEW p \in Procs, Crash(p) PROVE Steady
    BY <2>1, UnchangedSteady DEF Crash, Database
  <2> QED BY <1>1, <2>1, RowEventsSteady DEF Environment
<1>2. ASSUME NEW p \in Procs, Cron(p) PROVE Steady
  BY <1>2, CronSteady
<1>3. ASSUME NEW p \in Procs, Worker(p)
      PROVE  Steady \/ RunCall(p) \/ FailWrite(p) \/ Finish(p)
  <2>1. Keeping(p) \/ RunCall(p) \/ Finish(p) \/ FailWrite(p)
    BY <1>3 DEF Worker, Keeping
  <2> QED BY <2>1, KeepingSteady
<1>4. CASE UNCHANGED vars
  BY <1>4, UnchangedSteady DEF vars
<1> QED BY <1>1, <1>2, <1>3, <1>4 DEF Next

LEMMA NextKept ==
    ASSUME NEW rank \in Ranking, SInv(rank), CallInv, [Next]_vars
    PROVE  Kept /\ \A r \in Procs : NodeOK(proc[r])'
<1>1. TInv
  BY DEF SInv
<1>2. ASSUME Kept, UNCHANGED proc PROVE \A r \in Procs : NodeOK(proc[r])'
  BY <1>1, <1>2, NodeUntouched DEF Kept
<1>3. ASSUME NEW p \in Procs, Cron(p) \/ Worker(p) \/ Crash(p)
      PROVE  Kept /\ \A r \in Procs : NodeOK(proc[r])'
  <2>1. Good(p)
    <3>1. ASSUME Crash(p) PROVE Good(p)
      <4>1. proc'[p].pc = "idle"
        BY <1>1, <3>1 DEF Crash, Return, Idle, TInv, TypeOK
      <4> QED BY <3>1, <4>1, PlainGood DEF Crash, Database, Special
    <3> QED BY <1>1, <1>3, <3>1, CronGood, WorkerGood
  <2>2. \A r \in Procs : r # p => proc'[r] = proc[r]
    <3>1. ASSUME Crash(p) PROVE \A r \in Procs : r # p => proc'[r] = proc[r]
      BY <1>1, <3>1 DEF Crash, Return, TInv, TypeOK
    <3> QED BY <1>1, <1>3, <3>1, MovesOnly
  <2>3. ASSUME NEW r \in Procs, r # p PROVE NodeOK(proc[r])'
    BY <1>1, <2>1, <2>2, <2>3, NodeUntouched DEF Good, Kept
  <2>4. NodeOK(proc[p])'
    BY <2>1 DEF Good, NodeOK, Special
  <2> QED BY <2>1, <2>3, <2>4 DEF Good
<1>4. CASE Environment
  <2>1. CASE \E e \in Enrollments : Enroll(e) \/ CancelEnrollment(e)
    BY <1>1, <1>2, <2>1, EnrollKept, CancelKept DEF Enroll, CancelEnrollment
  <2>2. CASE \E j \in Jobs : \/ RepairParked(j) \/ LeaseExpires(j) \/ DeadlinePasses(j)
                             \/ StoreEvent(j) \/ WakeWaitingDecision(j)
    BY <1>1, <1>2, <2>2, RowEventsKept DEF RepairParked, LeaseExpires, DeadlinePasses,
       StoreEvent, WakeWaitingDecision
  <2> QED BY <1>3, <1>4, <2>1, <2>2 DEF Environment
<1>5. CASE UNCHANGED vars
  BY <1>2, <1>5, SameKept DEF vars
<1> QED BY <1>3, <1>4, <1>5 DEF Next

\* A child that a parent waited for had completed when the parent went on, and
\* nothing ends a completed enrollment again.
LEMMA NextAwaited ==
    ASSUME NEW rank \in Ranking, SInv(rank), CallInv, [Next]_vars, Settled
    PROVE  AwaitedChildCompleted'
<1>1. TInv
  BY DEF SInv
<1> SUFFICES ASSUME NEW c \in Enrollments, Parent[c] # None,
                    job'[Parent[c]].status = "succeeded"
             PROVE  /\ Kind[Parent[c][2]] = "await" => enrollment'[c].status = "completed"
                    /\ enrollment'[c].status # "absent"
  BY DEF AwaitedChildCompleted
<1> DEFINE j == Parent[c]
<1>2. j \in Jobs
  BY ConstantsAssumption
<1>3. CASE job[j].status = "succeeded"
  BY <1>3 DEF CallInv, AwaitedChildCompleted, Settled, Outcome
<1>4. CASE job[j].status # "succeeded"
  <2>1. PICK p \in Procs : Finish(p)
    BY <1>1, <1>2, <1>4, StepKinds, SteadyDone, EnrollShape, CancelShape, RunCallShape,
       FailShape DEF SameDone
  <2>2. j = proc[p].job /\ enrollment[j[1]].status = "active"
    BY <1>2, <1>4, <2>1, FinishShape
  <2>3. NodeOK(proc[p]) /\ proc[p].pc = "finish" /\ c \in Children(j)
    BY <2>1 DEF CallInv, Finish, FinishIf, Children
  <2>4. Kind[j[2]] \in {"await", "async"} =>
           /\ enrollment[c].status # "absent"
           /\ Kind[j[2]] = "await" => enrollment[c].status = "completed"
    BY <2>2, <2>3 DEF NodeOK
  <2> QED BY <2>4, CallAssumption DEF Settled, Outcome
<1> QED BY <1>3, <1>4
LEMMA DescendantsClosed ==
    ASSUME NEW e \in Enrollments, NEW c \in Enrollments,
           Parent[c] # None, Parent[c][1] \in Descendants(e)
    PROVE  c \in Descendants(e)
BY DEF Descendants

LEMMA DescendantsSelf == ASSUME NEW e \in Enrollments PROVE e \in Descendants(e)
BY DEF Descendants

\* A cancellation reaches every active child of what it cancels, and a child
\* is born only while its parent's lease runs.
LEMMA NextOrphans ==
    ASSUME NEW rank \in Ranking, SInv(rank), CallInv, [Next]_vars
    PROVE  NoOrphanChild'
<1>1. TInv
  BY DEF SInv
<1> SUFFICES ASSUME NEW c \in Enrollments, Parent[c] # None, enrollment'[c].status = "active"
             PROVE  enrollment'[Parent[c][1]].status # "cancelled"
  BY DEF NoOrphanChild
<1> DEFINE f == Parent[c][1]
<1>2. Parent[c] \in Jobs /\ f \in Enrollments
  BY ConstantsAssumption DEF Jobs
<1>3. enrollment[c].status = "active" => enrollment[f].status # "cancelled"
  BY DEF CallInv, NoOrphanChild
<1> HIDE DEF f
<1>4. CASE Steady
  BY <1>3, <1>4 DEF Steady, f
<1>5. ASSUME NEW e \in Enrollments, Enroll(e) PROVE enrollment'[f].status # "cancelled"
  <2>1. \A d \in Enrollments : enrollment'[d] =
                IF d = e THEN [status |-> "active", node |-> Source[e]] ELSE enrollment[d]
    BY <1>5, EnrollShape
  <2>2. c # e
    BY <1>5 DEF Enroll
  <2> QED BY <1>2, <1>3, <2>1, <2>2
<1>6. ASSUME NEW e \in Enrollments, CancelEnrollment(e) PROVE enrollment'[f].status # "cancelled"
  BY <1>1, <1>2, <1>3, <1>6, CancelShape, DescendantsClosed DEF f
<1>7. ASSUME NEW p \in Procs, RunCall(p) PROVE enrollment'[f].status # "cancelled"
  <2>1. CASE UNCHANGED enrollment
    BY <1>3, <2>1
  <2>2. ASSUME NEW b \in Enrollments,
               Parent[b] = proc[p].job, job[proc[p].job].status = "running",
               \A d \in Enrollments : enrollment'[d] =
                   IF d = b THEN [status |-> "active", node |-> Source[b]] ELSE enrollment[d]
        PROVE  enrollment'[f].status # "cancelled"
    <3>1. CASE c = b
      <4>1. enrollment[f].status = "active"
        BY <1>2, <2>2, <3>1, RunningHere DEF Live, f
      <4> QED BY <1>2, <2>2, <4>1
    <3>2. CASE c # b
      BY <1>2, <1>3, <2>2, <3>2
    <3> QED BY <3>1, <3>2
  <2> QED BY <1>7, <2>1, <2>2, RunCallShape
<1>8. ASSUME NEW p \in Procs, FailWrite(p) PROVE enrollment'[f].status # "cancelled"
  <2>1. \/ UNCHANGED enrollment
        \/ \E e \in Enrollments : enrollment' = [enrollment EXCEPT ![e] = [status |-> "failed", node |-> None]]
    BY <1>8, FailShape
  <2> QED BY <1>1, <1>2, <1>3, <2>1 DEF TInv, TypeOK
<1>9. ASSUME NEW p \in Procs, Finish(p) PROVE enrollment'[f].status # "cancelled"
  <2>1. \/ UNCHANGED enrollment
        \/ \E e \in Enrollments, s \in {"completed", "active"}, n \in Nodes \cup {None} :
             /\ enrollment[e].status = "active"
             /\ enrollment' = [enrollment EXCEPT ![e] = [status |-> s, node |-> n]]
    <3> DEFINE j == proc[p].job
               n == Edge[j[2]][proc[p].branch]
    <3>1. n \in Nodes \cup {None}
      BY <1>1, <1>9, Here, ConstantsAssumption DEF Finish, FinishIf, ProcOK, Jobs
    <3>2. (IF n = None THEN "completed" ELSE "active") \in {"completed", "active"}
      OBVIOUS
    <3>3. \/ UNCHANGED enrollment
          \/ /\ j[1] \in Enrollments /\ enrollment[j[1]].status = "active"
             /\ enrollment' = [enrollment EXCEPT ![j[1]] =
                    [status |-> IF n = None THEN "completed" ELSE "active", node |-> n]]
      BY <1>9, FinishShape
    <3> HIDE DEF j, n
    <3> QED BY <3>1, <3>2, <3>3
  <2> QED BY <1>1, <1>2, <1>3, <2>1 DEF TInv, TypeOK
<1> QED BY <1>1, <1>4, <1>5, <1>6, <1>7, <1>8, <1>9, StepKinds DEF f

LEMMA InitCallInv == Init => CallInv
<1> SUFFICES ASSUME Init PROVE CallInv
  OBVIOUS
<1>1. \A p \in Procs : NodeOK(proc[p])
  BY DEF Init, Idle, NodeOK
<1>2. \A j \in Jobs : RowOK(j, job[j])
  BY DEF Init, Absent, RowOK
<1>3. AwaitedChildCompleted /\ NoOrphanChild
  BY ConstantsAssumption DEF Init, Absent, AwaitedChildCompleted, NoOrphanChild
<1> QED BY <1>1, <1>2, <1>3 DEF CallInv

LEMMA NextCallInv ==
    ASSUME NEW rank \in Ranking, SInv(rank), CallInv, [Next]_vars PROVE CallInv'
<1>1. Settled /\ (\A j \in Jobs : RowOK(j, job[j])') /\ \A r \in Procs : NodeOK(proc[r])'
  BY NextKept DEF Kept
<1> QED BY <1>1, NextAwaited, NextOrphans DEF CallInv

EInv(rank) == SInv(rank) /\ CallInv

LEMMA InitEInv == ASSUME NEW rank \in Ranking, Init PROVE EInv(rank)
BY InitSInv, InitCallInv DEF EInv

LEMMA NextEInv == ASSUME NEW rank \in Ranking, EInv(rank), [Next]_vars PROVE EInv(rank)'
BY NextSInv, NextCallInv DEF EInv

\* A parent that awaits its child goes on only when the child has completed,
\* and the job of any call is done only when its child exists, whichever of
\* parent and child ends first, fails or is cancelled.
THEOREM AwaitedCompleted == Spec => []AwaitedChildCompleted
<1> PICK rank : rank \in Ranking
  BY RankingExists
<1>1. Init => EInv(rank)
  BY InitEInv
<1>2. EInv(rank) /\ [Next]_vars => EInv(rank)'
  BY NextEInv
<1>3. EInv(rank) => AwaitedChildCompleted
  BY DEF EInv, CallInv
<1> QED BY <1>1, <1>2, <1>3, PTL DEF Spec

\* A parent that is parked for ever has a child, and no outcome was stored for
\* it yet: recover will find the pair once the child has ended.
THEOREM ParkedRecoverable == Spec => []ParkedParentRecoverable
<1> PICK rank : rank \in Ranking
  BY RankingExists
<1>1. Init => EInv(rank)
  BY InitEInv
<1>2. EInv(rank) /\ [Next]_vars => EInv(rank)'
  BY NextEInv
<1>3. EInv(rank) => ParkedParentRecoverable
  BY DEF EInv, CallInv, RowOK, ParkedParentRecoverable
<1> QED BY <1>1, <1>2, <1>3, PTL DEF Spec

\* Below a cancelled enrollment no called child is active, even one whose call
\* raced with the cancellation.
THEOREM OrphansNever == Spec => []NoOrphanChild
<1> PICK rank : rank \in Ranking
  BY RankingExists
<1>1. Init => EInv(rank)
  BY InitEInv
<1>2. EInv(rank) /\ [Next]_vars => EInv(rank)'
  BY NextEInv
<1>3. EInv(rank) => NoOrphanChild
  BY DEF EInv, CallInv
<1> QED BY <1>1, <1>2, <1>3, PTL DEF Spec

-----------------------------------------------------------------------------
(* The captured branch.                                                    *)

LEMMA BranchStep ==
    ASSUME NEW rank \in Ranking, EInv(rank), [Next]_vars,
           NEW e \in Enrollments, NEW n \in Nodes, Kind[n] = "condition"
    PROVE  LET j == <<e, n>> IN
             /\ job[j].branch # None => job'[j].branch = job[j].branch
             /\ job[j].status # "succeeded" /\ job'[j].status = "succeeded" =>
                  /\ job[j].branch \in {"yes", "no"}
                  /\ enrollment'[e].node = Edge[n][job[j].branch]
<1> DEFINE j == <<e, n>>
<1>1. j \in Jobs /\ j[1] = e /\ j[2] = n /\ SInv(rank) /\ CallInv /\ TInv
  BY DEF Jobs, EInv, SInv
<1>2. job[j].branch # None => job'[j].branch = job[j].branch
  BY <1>1, NextKept DEF Kept, BranchKept
<1>3. ASSUME job[j].status # "succeeded", job'[j].status = "succeeded"
      PROVE  /\ job[j].branch \in {"yes", "no"}
             /\ enrollment'[e].node = Edge[n][job[j].branch]
  <2>1. PICK p \in Procs : Finish(p)
    BY <1>1, <1>3, StepKinds, SteadyDone, EnrollShape, CancelShape, RunCallShape,
       FailShape DEF SameDone
  <2>2. /\ j = proc[p].job
        /\ enrollment' = [enrollment EXCEPT ![e] =
              [status |-> IF Edge[n][proc[p].branch] = None THEN "completed" ELSE "active",
               node |-> Edge[n][proc[p].branch]]]
    <3>1. ~UNCHANGED <<enrollment, job>>
      BY <1>3
    <3>2. LET i == proc[p].job
              k == Edge[i[2]][proc[p].branch] IN
          /\ i = <<i[1], i[2]>>
          /\ enrollment' = [enrollment EXCEPT ![i[1]] =
                [status |-> IF k = None THEN "completed" ELSE "active", node |-> k]]
          /\ job'[j].status = "succeeded" <=> j = i \/ job[j].status = "succeeded"
      BY <1>1, <2>1, <3>1, FinishShape
    <3>3. j = proc[p].job
      BY <1>3, <3>2
    <3> QED BY <1>1, <3>2, <3>3
  <2>3. proc[p].branch = job[j].branch /\ proc[p].branch \in Lifecycle!BranchesOf(n)
    BY <1>1, <2>1, <2>2 DEF CallInv, NodeOK, Finish, FinishIf
  <2>4. proc[p].branch \in {"yes", "no"}
    BY <2>3, BranchesAt
  <2>5. enrollment'[e].node = Edge[n][proc[p].branch]
    BY <1>1, <2>2 DEF TInv, TypeOK
  <2> QED BY <2>3, <2>4, <2>5
<1> QED BY <1>2, <1>3

\* A retry takes the branch that was captured first: the recorded branch never
\* changes, and the step that finishes the condition follows it.
THEOREM CapturedOnce == Spec => CapturedBranchTaken
<1> PICK rank : rank \in Ranking
  BY RankingExists
<1>1. Init => EInv(rank)
  BY InitEInv
<1>2. EInv(rank) /\ [Next]_vars => EInv(rank)'
  BY NextEInv
<1>3. EInv(rank) /\ [Next]_vars => [CapturedStep]_vars
  BY BranchStep DEF CapturedStep
<1> QED BY <1>1, <1>2, <1>3, PTL DEF Spec, CapturedBranchTaken
-----------------------------------------------------------------------------
(* The lifecycle.                                                          *)

status == [e \in Enrollments |-> enrollment[e].status]
at == [e \in Enrollments |->
         IF enrollment[e].status = "active" THEN enrollment[e].node ELSE None]
doneNodes == [e \in Enrollments |-> {n \in Nodes : job[<<e, n>>].status = "succeeded"}]

LEMMA DoneKept == ASSUME SameDone PROVE UNCHANGED doneNodes
<1>1. \A e \in Enrollments, n \in Nodes : <<e, n>> \in Jobs
  BY DEF Jobs
<1> QED BY <1>1 DEF SameDone, doneNodes

LEMMA Stutters == ASSUME SameDone, UNCHANGED enrollment PROVE UNCHANGED Lifecycle!vars
BY DoneKept DEF Lifecycle!vars, status, at, doneNodes

\* One enrollment becomes active at its source.
LEMMA Enters ==
    ASSUME SameDone, NEW e \in Enrollments,
           \A d \in Enrollments : enrollment'[d] =
              IF d = e THEN [status |-> "active", node |-> Source[e]] ELSE enrollment[d]
    PROVE  Lifecycle!Enter({e})
<1>1. UNCHANGED doneNodes
  BY DoneKept
<1>2. status' = [d \in Enrollments |-> IF d \in {e} THEN "active" ELSE status[d]]
  BY DEF status
<1>3. at' = [d \in Enrollments |-> IF d \in {e} THEN Source[d] ELSE at[d]]
  BY DEF at
<1> QED BY <1>1, <1>2, <1>3 DEF Lifecycle!Enter, status, at, doneNodes

LEMMA EnrollBegins ==
    ASSUME NEW rank \in Ranking, SInv(rank), NEW e \in Enrollments, Enroll(e)
    PROVE  Lifecycle!Begin(e)
<1>1. Lifecycle!Enter({e})
  BY EnrollShape, Enters
<1> QED BY <1>1 DEF Enroll, Lifecycle!Begin

LEMMA RunCallCalls ==
    ASSUME NEW rank \in Ranking, SInv(rank), NEW p \in Procs, RunCall(p)
    PROVE  UNCHANGED Lifecycle!vars \/ \E c \in Enrollments : Lifecycle!Call(c)
<1>1. CASE UNCHANGED enrollment /\ SameDone
  BY <1>1, Stutters
<1>2. ASSUME NEW c \in Enrollments,
             Parent[c] = proc[p].job, enrollment[c].status = "absent",
             job[proc[p].job].status = "running", SameDone,
             \A d \in Enrollments : enrollment'[d] =
                 IF d = c THEN [status |-> "active", node |-> Source[c]] ELSE enrollment[d]
      PROVE  Lifecycle!Call(c)
  <2>1. Lifecycle!Enter({c})
    BY <1>2, Enters
  <2>2. Parent[c] \in Jobs
    BY <1>2, RowHere DEF RunCall, StartChild, Executing, SInv
  <2>3. Parent[c] # None /\ Parent[c][1] \in Enrollments
    BY <2>2, ConstantsAssumption DEF Jobs
  <2>4. enrollment[Parent[c][1]].status = "active" /\ enrollment[Parent[c][1]].node = Parent[c][2]
    BY <1>2, <2>2, RunningHere DEF Live
  <2> QED BY <1>2, <2>1, <2>3, <2>4 DEF Lifecycle!Call
<1> QED BY <1>1, <1>2, RunCallShape

LEMMA FailFails ==
    ASSUME NEW rank \in Ranking, SInv(rank), NEW p \in Procs, FailWrite(p)
    PROVE  UNCHANGED Lifecycle!vars \/ \E e \in Enrollments : Lifecycle!Fail(e)
<1>1. SameDone /\ UNCHANGED doneNodes
  BY FailShape, DoneKept
<1>2. CASE UNCHANGED enrollment
  BY <1>1, <1>2, Stutters
<1>3. ASSUME NEW e \in Enrollments, enrollment[e].status = "active",
             enrollment' = [enrollment EXCEPT ![e] = [status |-> "failed", node |-> None]]
      PROVE  Lifecycle!Fail(e)
  <2>1. \A d \in Enrollments :
          /\ d = e => enrollment'[d].status = "failed"
          /\ d # e => enrollment'[d] = enrollment[d]
    BY <1>3 DEF SInv, TInv, TypeOK
  <2>2. status' = [status EXCEPT ![e] = "failed"]
    BY <2>1 DEF status
  <2>3. at' = [at EXCEPT ![e] = None]
    BY <2>1 DEF at
  <2> QED BY <1>1, <1>3, <2>2, <2>3 DEF Lifecycle!Fail, status, at, doneNodes
<1> QED BY <1>2, <1>3, FailShape

LEMMA CancelCancels ==
    ASSUME NEW rank \in Ranking, SInv(rank), NEW e \in Enrollments, CancelEnrollment(e)
    PROVE  \E S \in SUBSET Enrollments : Lifecycle!Cancel(S)
<1> DEFINE S == {d \in Enrollments : d \in Descendants(e) /\ enrollment[d].status = "active"}
<1>1. TInv /\ SameDone
  BY CancelShape DEF SInv
<1>2. UNCHANGED doneNodes
  BY <1>1, DoneKept
<1>3. \A d \in Enrollments :
        /\ enrollment'[d].node = enrollment[d].node
        /\ enrollment'[d].status = IF d \in S THEN "cancelled" ELSE enrollment[d].status
  BY <1>1, CancelShape
<1>4. \A c \in Enrollments :
        Parent[c] # None /\ Parent[c][1] \in S /\ enrollment[c].status = "active" => c \in S
  BY DescendantsClosed
<1>5. \A d \in S : d \in Enrollments /\ enrollment[d].status = "active"
  OBVIOUS
<1>6. S \in SUBSET Enrollments
  OBVIOUS
<1> HIDE DEF S
<1>7. status' = [d \in Enrollments |-> IF d \in S THEN "cancelled" ELSE status[d]]
  BY <1>3 DEF status
<1>8. at' = [d \in Enrollments |-> IF d \in S THEN None ELSE at[d]]
  BY <1>3, <1>5 DEF at
<1> PICK T \in SUBSET Enrollments : T = S
  BY <1>6
<1>9. Lifecycle!Cancel(T)
  BY <1>2, <1>4, <1>5, <1>6, <1>7, <1>8 DEF Lifecycle!Cancel, status, at, doneNodes
<1> QED BY <1>9

LEMMA FinishLeaves ==
    ASSUME NEW rank \in Ranking, SInv(rank), CallInv, NEW p \in Procs, Finish(p)
    PROVE  UNCHANGED Lifecycle!vars \/ \E e \in Enrollments : Lifecycle!Leave(e)
<1> DEFINE j == proc[p].job
           e == j[1]
           b == proc[p].branch
           n == Edge[j[2]][b]
<1>1. CASE UNCHANGED <<enrollment, job>>
  <2>1. SameDone
    BY <1>1 DEF SameDone
  <2> QED BY <1>1, <2>1, Stutters
<1>2. CASE ~UNCHANGED <<enrollment, job>>
  <2>1. /\ j \in Jobs /\ e \in Enrollments /\ j = <<e, j[2]>> /\ j[2] \in Nodes
        /\ job[j].status = "running"
        /\ enrollment[e].status = "active" /\ enrollment[e].node = j[2]
        /\ enrollment' = [enrollment EXCEPT ![e] =
              [status |-> IF n = None THEN "completed" ELSE "active", node |-> n]]
        /\ \A k \in Jobs : job'[k].status = "succeeded" <=>
                              k = j \/ job[k].status = "succeeded"
    BY <1>2, FinishShape
  <2>2. NodeOK(proc[p]) /\ proc[p].pc = "finish"
    BY DEF CallInv, Finish, FinishIf
  <2>3. b \in Lifecycle!BranchesOf(j[2])
    BY <2>2 DEF NodeOK
  <2>4. \A d \in Enrollments : enrollment'[d] = IF d = e
          THEN [status |-> IF n = None THEN "completed" ELSE "active", node |-> n]
          ELSE enrollment[d]
    BY <2>1 DEF SInv, TInv, TypeOK
  <2>5. at[e] = j[2] /\ status[e] = "active"
    BY <2>1 DEF at, status
  <2>6. ASSUME NEW c \in Enrollments, Parent[c] = <<e, j[2]>>
        PROVE  /\ enrollment[c].status # "absent"
               /\ Kind[j[2]] = "await" => enrollment[c].status = "completed"
    <3> HIDE DEF j
    <3>1. Parent[c] = j /\ j \in Jobs
      BY <2>1, <2>6
    <3>2. c \in Children(j) /\ Parent[c] # None
      BY <3>1, ConstantsAssumption DEF Children
    <3>3. Kind[j[2]] \in {"await", "async"}
      BY <3>1, <3>2, CallAssumption
    <3> QED BY <2>2, <3>2, <3>3 DEF NodeOK, j
  <2>7. doneNodes' = [doneNodes EXCEPT ![e] = @ \cup {j[2]}]
    <3>1. ASSUME NEW d \in Enrollments
          PROVE  {m \in Nodes : job'[<<d, m>>].status = "succeeded"} =
                   IF d = e THEN {m \in Nodes : job[<<d, m>>].status = "succeeded"} \cup {j[2]}
                   ELSE {m \in Nodes : job[<<d, m>>].status = "succeeded"}
      <4>1. \A m \in Nodes : <<d, m>> \in Jobs
        BY DEF Jobs
      <4>2. \A m \in Nodes : job'[<<d, m>>].status = "succeeded" <=>
              (d = e /\ m = j[2]) \/ job[<<d, m>>].status = "succeeded"
        BY <2>1, <4>1
      <4> HIDE DEF j, e
      <4> QED BY <2>1, <4>2
    <3> HIDE DEF j, e
    <3>2. \A d \in Enrollments : doneNodes'[d] =
            IF d = e THEN doneNodes[d] \cup {j[2]} ELSE doneNodes[d]
      BY <3>1 DEF doneNodes
    <3>3. doneNodes' = [d \in Enrollments |-> doneNodes'[d]] /\ doneNodes = [d \in Enrollments |-> doneNodes[d]]
      BY DEF doneNodes
    <3> QED BY <2>1, <3>2, <3>3
  <2>8. j[2] \notin doneNodes[e]
    BY <2>1 DEF doneNodes
  <2> HIDE DEF n
  <2>9. \A d \in Enrollments :
           /\ d = e => /\ enrollment'[d].status = IF n = None THEN "completed" ELSE "active"
                       /\ enrollment'[d].node = n
           /\ d # e => enrollment'[d] = enrollment[d]
    BY <2>4
  <2>10. at' = [at EXCEPT ![e] = n]
    <3> HIDE DEF e
    <3>1. \A d \in Enrollments : at'[d] = IF d = e THEN n ELSE at[d]
      BY <2>9 DEF at
    <3>2. at' = [d \in Enrollments |-> at'[d]] /\ at = [d \in Enrollments |-> at[d]]
      BY DEF at
    <3> QED BY <3>1, <3>2
  <2>11. status' = IF n = None THEN [status EXCEPT ![e] = "completed"] ELSE status
    <3>1. CASE n = None
      <4> HIDE DEF e
      <4>1. \A d \in Enrollments : status'[d] = IF d = e THEN "completed" ELSE status[d]
        BY <2>9, <3>1 DEF status
      <4>2. status' = [d \in Enrollments |-> status'[d]]
            /\ status = [d \in Enrollments |-> status[d]]
        BY DEF status
      <4> QED BY <3>1, <4>1, <4>2
    <3>2. CASE n # None
      <4>1. \A d \in Enrollments : status'[d] = status[d]
        BY <2>9, <2>1, <3>2 DEF status
      <4> QED BY <3>2, <4>1 DEF status
    <3> QED BY <3>1, <3>2
  <2>12. Lifecycle!MayLeave(e)
    BY <2>1, <2>5, <2>6 DEF Lifecycle!MayLeave, at, status
  <2>13. /\ b \in Lifecycle!BranchesOf(at[e])
         /\ at' = [at EXCEPT ![e] = Edge[at[e]][b]]
         /\ status' = IF Edge[at[e]][b] = None
                      THEN [status EXCEPT ![e] = "completed"] ELSE status
    BY <2>3, <2>5, <2>10, <2>11 DEF n
  <2> HIDE DEF e, b, j
  <2> PICK d \in Enrollments : d = e
    BY <2>1
  <2>14. Lifecycle!MayLeave(d)
    BY <2>12
  <2>15. Lifecycle!Leave(d)
    BY <2>5, <2>7, <2>8, <2>13, <2>14 DEF Lifecycle!Leave, status, at, doneNodes
  <2> QED BY <2>15
<1> QED BY <1>1, <1>2

LEMMA LifecycleInit == Init => Lifecycle!Init
<1> SUFFICES ASSUME Init PROVE Lifecycle!Init
  OBVIOUS
<1>1. \A e \in Enrollments : enrollment[e].status = "absent"
  BY DEF Init
<1>2. \A e \in Enrollments, n \in Nodes : job[<<e, n>>].status # "succeeded"
  BY DEF Init, Absent, Jobs
<1> QED BY <1>1, <1>2 DEF Lifecycle!Init

LEMMA LifecycleStep ==
    ASSUME NEW rank \in Ranking, EInv(rank), [Next]_vars
    PROVE  [Lifecycle!Next]_(Lifecycle!vars)
<1>1. SInv(rank) /\ CallInv /\ TInv
  BY DEF EInv, SInv
<1>2. CASE Steady
  BY <1>2, SteadyDone, Stutters DEF Steady
<1>3. ASSUME NEW e \in Enrollments, Enroll(e) \/ CancelEnrollment(e) PROVE Lifecycle!Next
  BY <1>1, <1>3, EnrollBegins, CancelCancels DEF Lifecycle!Next
<1>4. ASSUME NEW p \in Procs, RunCall(p) \/ FailWrite(p) \/ Finish(p)
      PROVE  [Lifecycle!Next]_(Lifecycle!vars)
  BY <1>1, <1>4, RunCallCalls, FailFails, FinishLeaves DEF Lifecycle!Next
<1> QED BY <1>1, <1>2, <1>3, <1>4, StepKinds

\* Jobs, leases, messages and invocations leave no trace: every step of the
\* engine is a step of an enrollment's lifecycle, or none of it.
THEOREM EngineImplementsLifecycle == Spec => ImplementsLifecycle
<1> PICK rank : rank \in Ranking
  BY RankingExists
<1>1. Init => EInv(rank)
  BY InitEInv
<1>2. EInv(rank) /\ [Next]_vars => EInv(rank)'
  BY NextEInv
<1>3. EInv(rank) /\ [Next]_vars => [Lifecycle!Next]_(Lifecycle!vars)
  BY LifecycleStep
<1> QED BY <1>1, <1>2, <1>3, LifecycleInit, PTL DEF Spec, ImplementsLifecycle, Lifecycle!Spec
-----------------------------------------------------------------------------
(* Waking a decision.                                                      *)
(*                                                                         *)
(* claimDueJobs asks for due_at <= now when it selects and not when it     *)
(* updates.  A claim of a row that was parked in between takes a job that  *)
(* is not due, and an event that is recorded while it is leased leaves     *)
(* due_at alone: recovered, it would sleep until its deadline.  Without    *)
(* such a claim every recorded event wakes its decision.                   *)

ClaimsAreDue ==
    [][\A j \in Jobs : job[j].status = "pending" /\ job'[j].status = "leased"
                          => Due(job[j])]_vars

WakeRow(j, r, v) ==
    /\ r.status \in Leased => Due(r)
    /\ Kind[j[2]] = "decision" /\ r.status \in Live => r.dueAt = "now" \/ r.waiting
    /\ v # "none" => Kind[j[2]] = "decision"
    /\ v = "woken" /\ r.status = "pending" => Due(r)

WakeInv == \A j \in Jobs : WakeRow(j, job[j], event[j])

\* r is due whenever s is, and leased only when s was due.
NoLessDue(r, s) ==
    /\ r.dueAt \in {s.dueAt, "now"} /\ (s.elapsed => r.elapsed)
    /\ r.waiting = s.waiting
    /\ r.status \in Live => s.status \in Live
    /\ r.status \in Leased => s.status \in Leased \/ Due(s)

LEMMA DueKept ==
    ASSUME NEW j, NEW r, NEW s, NEW v, WakeRow(j, s, v), NoLessDue(r, s)
    PROVE  WakeRow(j, r, v)
BY DEF WakeRow, NoLessDue, Due, Live, Leased

LEMMA WakeKept ==
    ASSUME WakeInv, UNCHANGED event,
           \A j \in Jobs : NoLessDue(job'[j], job[j]) \/ job'[j] = NewJob
    PROVE  WakeInv'
<1>1. ASSUME NEW j \in Jobs PROVE WakeRow(j, job'[j], event[j])
  <2>1. WakeRow(j, job[j], event[j])
    BY DEF WakeInv
  <2>2. CASE NoLessDue(job'[j], job[j])
    BY <2>1, <2>2, DueKept
  <2>3. CASE job'[j] = NewJob
    BY <2>1, <2>3 DEF WakeRow, NewJob, Absent, Due, Leased
  <2> QED BY <1>1, <2>2, <2>3
<1> QED BY <1>1 DEF WakeInv, WakeRow, Due

LEMMA OneWakeKept ==
    ASSUME TInv, WakeInv, UNCHANGED event, NEW j \in Jobs, NEW r, NoLessDue(r, job[j]),
           job' \in {job, [job EXCEPT ![j] = r]}
    PROVE  WakeInv'
<1>1. \A k \in Jobs : NoLessDue(job[k], job[k])
  BY DEF NoLessDue
<1>2. \A k \in Jobs : NoLessDue(job'[k], job[k])
  BY <1>1 DEF TInv, TypeOK
<1> QED BY <1>2, WakeKept

\* One row is written that is in order of itself.
LEMMA WrittenWake ==
    ASSUME TInv, WakeInv, UNCHANGED event, NEW j \in Jobs, NEW r, WakeRow(j, r, event[j]),
           job' \in {job, [job EXCEPT ![j] = r]}
    PROVE  WakeInv'
<1>1. \A k \in Jobs : job'[k] = job[k] \/ (k = j /\ job'[k] = r)
  BY DEF TInv, TypeOK
<1>2. \A k \in Jobs : WakeRow(k, job'[k], event[k])
  BY <1>1 DEF WakeInv
<1> QED BY <1>2 DEF WakeInv, WakeRow, Due

LEMMA SameWake == ASSUME WakeInv, UNCHANGED <<job, event>> PROVE WakeInv'
BY DEF WakeInv, WakeRow, Due

LEMMA EventsWake ==
    ASSUME TInv, WakeInv, NEW j \in Jobs,
           RepairParked(j) \/ LeaseExpires(j) \/ DeadlinePasses(j)
           \/ StoreEvent(j) \/ WakeWaitingDecision(j)
    PROVE  WakeInv'
<1>1. job[j] \in JobRow /\ event \in [Jobs -> {"none", "stored", "woken"}]
  BY DEF TInv, TypeOK
<1>2. CASE RepairParked(j)
  <2>1. NoLessDue([job[j] EXCEPT !.attempts = 0], job[j])
    BY <1>1 DEF JobRow, NoLessDue
  <2> QED BY <1>2, <2>1, OneWakeKept DEF RepairParked
<1>3. CASE LeaseExpires(j)
  <2>1. NoLessDue([job[j] EXCEPT !.expired = TRUE], job[j])
    BY <1>1 DEF JobRow, NoLessDue
  <2> QED BY <1>3, <2>1, OneWakeKept DEF LeaseExpires
<1>4. CASE DeadlinePasses(j)
  <2>1. NoLessDue([job[j] EXCEPT !.elapsed = TRUE], job[j])
    BY <1>1 DEF JobRow, NoLessDue
  <2> QED BY <1>4, <2>1, OneWakeKept DEF DeadlinePasses
<1>5. CASE StoreEvent(j)
  <2>1. /\ Kind[j[2]] = "decision" /\ UNCHANGED job
        /\ \A k \in Jobs : event'[k] = IF k = j THEN "stored" ELSE event[k]
    BY <1>1, <1>5 DEF StoreEvent
  <2> QED BY <2>1 DEF WakeInv, WakeRow, Due
<1>6. CASE WakeWaitingDecision(j)
  <2> DEFINE r == [job[j] EXCEPT !.dueAt = "now"]
  <2>1. WakeRow(j, job[j], "stored")
    BY <1>6 DEF WakeInv, WakeWaitingDecision
  <2>2. \A k \in Jobs : event'[k] = IF k = j THEN "woken" ELSE event[k]
    BY <1>1, <1>6 DEF WakeWaitingDecision
  <2>3. WakeRow(j, job[j], "woken") \/ (job[j].status = "pending" /\ job[j].waiting)
    BY <2>1 DEF WakeRow, Due, Live
  <2>4. r.dueAt = "now" /\ r.waiting = job[j].waiting
    BY <1>1 DEF JobRow
  <2>5. WakeRow(j, r, "woken")
    BY <2>1, <2>4 DEF WakeRow, Due
  <2>6. \A k \in Jobs : \/ job'[k] = job[k] /\ (k = j => WakeRow(j, job[j], "woken"))
                        \/ k = j /\ job'[k] = r
    BY <1>6, <2>3 DEF WakeWaitingDecision, TInv, TypeOK
  <2> HIDE DEF r
  <2>7. \A k \in Jobs : WakeRow(k, job'[k], event'[k])
    BY <2>2, <2>5, <2>6 DEF WakeInv
  <2> QED BY <2>7 DEF WakeInv, WakeRow, Due
<1> QED BY <1>2, <1>3, <1>4, <1>5, <1>6

LEMMA CronWake ==
    ASSUME TInv, WakeInv, NEW p \in Procs, Cron(p),
           \A j \in Jobs : job[j].status = "pending" /\ job'[j].status = "leased" => Due(job[j])
    PROVE  WakeInv'
<1> DEFINE j == proc[p].job
<1>1. CASE \/ \E k \in Jobs : RecoverRead(p, k) \/ ClaimRead(p, k) \/ RecallRead(p, k)
           \/ Publish(p) \/ PublishFails(p)
  BY <1>1, SameWake DEF RecoverRead, ClaimRead, RecallRead, Publish, PublishFails, Database
<1>2. CASE RecoverWrite(p) \/ ReturnClaim(p)
  <2>1. j \in Jobs /\ job[j] \in JobRow /\ UNCHANGED event
    BY <1>2, RowHere DEF RecoverWrite, ReturnClaim
  <2>2. job' = job \/ (/\ job[j].status \in Leased
                       /\ job' = [job EXCEPT ![j] = Released(job[j], "pending")])
    BY <1>2, Here DEF RecoverWrite, ReturnClaim, ProcOK, Leased
  <2>3. job[j].status \in Leased => NoLessDue(Released(job[j], "pending"), job[j])
    BY <2>1 DEF Released, JobRow, NoLessDue, Leased, Live
  <2> QED BY <2>1, <2>2, <2>3, OneWakeKept, SameWake
<1>3. ASSUME NEW l \in Leases, ClaimWrite(p, l) PROVE WakeInv'
  <2> DEFINE r == [job[j] EXCEPT !.status = "leased", !.lease = l, !.expired = FALSE]
  <2>1. j \in Jobs /\ job[j] \in JobRow /\ UNCHANGED event
    BY <1>3, RowHere DEF ClaimWrite
  <2>2. job' = job \/ (job[j].status = "pending" /\ job' = [job EXCEPT ![j] = r])
    BY <1>3, <2>1 DEF ClaimWrite, TInv, TypeOK
  <2>3. r.status = "leased" /\ r.dueAt = job[j].dueAt /\ r.elapsed = job[j].elapsed
        /\ r.waiting = job[j].waiting
    BY <2>1 DEF JobRow
  <2> HIDE DEF r
  <2>4. ASSUME job' = [job EXCEPT ![j] = r], job[j].status = "pending" PROVE WakeInv'
    <3>1. job'[j] = r
      BY <2>1, <2>4 DEF TInv, TypeOK
    <3>2. Due(job[j])
      BY <2>1, <2>3, <2>4, <3>1
    <3>3. NoLessDue(r, job[j])
      BY <2>3, <2>4, <3>2 DEF NoLessDue, Live
    <3> QED BY <2>1, <2>4, <3>3, OneWakeKept
  <2> QED BY <2>1, <2>2, <2>4, SameWake
<1>4. CASE RecallWrite(p)
  <2> DEFINE r == [job[j] EXCEPT !.outcome = proc[p].status, !.dueAt = "now"]
  <2>1. j \in Jobs /\ job[j] \in JobRow /\ UNCHANGED event
    BY <1>4, RowHere DEF RecallWrite
  <2>2. job' \in {job, [job EXCEPT ![j] = r]}
    BY <1>4, RecallSets
  <2>3. NoLessDue(r, job[j])
    BY <2>1 DEF JobRow, NoLessDue
  <2> QED BY <2>1, <2>2, <2>3, OneWakeKept
<1> QED BY <1>1, <1>2, <1>3, <1>4 DEF Cron

LEMMA WorkerWake ==
    ASSUME TInv, WakeInv, NEW p \in Procs, Worker(p) PROVE WakeInv'
<1> DEFINE j == proc[p].job
<1>1. CASE \/ \E m \in queue : Deliver(p, m)
           \/ RunSource(p) \/ RunDelay(p) \/ RunDecision(p) \/ RunAction(p)
           \/ ReadChild(p) \/ Throw(p) \/ FailureRead(p) \/ FailRead(p)
           \/ Ack(p) \/ Nack(p) \/ DeadLetterAck(p)
           \/ \E m \in dlq : DeliverDeadLetter(p, m)
  BY <1>1, SameWake DEF Deliver, RunSource, RunDelay, RunDecision, RunAction,
     ReadChild, Throw, FailureRead, FailRead, Ack, Nack, DeadLetterAck,
     DeliverDeadLetter, Database
<1>2. ASSUME Start(p) \/ RunCondition(p) \/ Park(p) \/ FailureRetry(p) \/ RunCall(p)
             \/ FailWrite(p) \/ Finish(p)
      PROVE  j \in Jobs /\ job[j] \in JobRow /\ UNCHANGED event
  <2>1. proc[p].pc # "idle" /\ UNCHANGED event
    BY <1>2 DEF Start, RunCondition, Executing, Park, FailureRetry, RunCall, StartChild,
       FailWrite, Finish, FinishIf
  <2> QED BY <2>1, RowHere
<1>3. CASE Start(p)
  <2> DEFINE r == [job[j] EXCEPT !.status = "running", !.attempts = @ + 1]
  <2>1. job' = job \/ (job[j].status = "leased" /\ job' = [job EXCEPT ![j] = r])
    BY <1>2, <1>3 DEF Start, TInv, TypeOK
  <2>2. job[j].status = "leased" => NoLessDue(r, job[j])
    BY <1>2, <1>3 DEF JobRow, NoLessDue, Leased, Live
  <2> QED BY <1>2, <1>3, <2>1, <2>2, OneWakeKept, SameWake
<1>4. CASE RunCondition(p)
  <2>1. PICK b : job' \in {job, [job EXCEPT ![j] = [job[j] EXCEPT !.branch = b]]}
    BY <1>4 DEF RunCondition
  <2>2. NoLessDue([job[j] EXCEPT !.branch = b], job[j])
    BY <1>2, <1>4 DEF JobRow, NoLessDue
  <2> QED BY <1>2, <1>4, <2>1, <2>2, OneWakeKept
<1>5. CASE Park(p)
  <2> DEFINE parked == [Released(job[j], "pending") EXCEPT
                      !.attempts = 0, !.waiting = TRUE, !.branch = None,
                      !.child = FALSE, !.outcome = None,
                      !.elapsed = @ /\ Kind[j[2]] = "decision",
                      !.dueAt = IF event[j] # "none" THEN "now" ELSE "deadline"]
  <2>1. job' \in {job, [job EXCEPT ![j] = parked]}
    BY <1>5 DEF Park
  <2>2. /\ parked.status = "pending" /\ parked.waiting
        /\ parked.dueAt = IF event[j] # "none" THEN "now" ELSE "deadline"
    BY <1>2, <1>5 DEF Released, JobRow
  <2> HIDE DEF parked
  <2>3. WakeRow(j, job[j], event[j])
    BY <1>2, <1>5 DEF WakeInv
  <2>4. WakeRow(j, parked, event[j])
    BY <2>2, <2>3 DEF WakeRow, Due, Leased
  <2> QED BY <1>2, <1>5, <2>1, <2>4, WrittenWake
<1>6. CASE FailureRetry(p)
  <2> DEFINE r == [job[j] EXCEPT !.status = "leased"]
  <2>1. job' = job \/ (job[j].status = "running" /\ job' = [job EXCEPT ![j] = r])
    BY <1>6 DEF FailureRetry, RunningLease
  <2>2. job[j].status = "running" => NoLessDue(r, job[j])
    BY <1>2, <1>6 DEF JobRow, NoLessDue, Leased, Live
  <2> QED BY <1>2, <1>6, <2>1, <2>2, OneWakeKept, SameWake
<1>7. CASE FailWrite(p)
  <2>1. job' \in {job, [job EXCEPT ![j] = Released(job[j], "failed")]}
    BY <1>7 DEF FailWrite
  <2>2. NoLessDue(Released(job[j], "failed"), job[j])
    BY <1>2, <1>7 DEF Released, JobRow, NoLessDue, Leased, Live
  <2> QED BY <1>2, <1>7, <2>1, <2>2, OneWakeKept
<1>8. CASE Finish(p)
  <2>1. NoLessDue(Released(job[j], "succeeded"), job[j])
        /\ \A k \in Jobs : NoLessDue(job[k], job[k])
    BY <1>2, <1>8 DEF Released, JobRow, NoLessDue, Leased, Live
  <2> DEFINE n == Edge[j[2]][proc[p].branch]
             e == j[1]
             done == [job EXCEPT ![j] = Released(job[j], "succeeded")]
  <2>2. job' \in {job, done, [done EXCEPT ![<<e, n>>] = NewJob]}
    BY <1>8 DEF Finish, FinishIf
  <2> HIDE DEF e, n
  <2>3. \A k \in Jobs : \/ job'[k] = job[k]
                        \/ k = j /\ job'[k] = Released(job[j], "succeeded")
                        \/ job'[k] = NewJob
    BY <1>2, <1>8, <2>2 DEF TInv, TypeOK
  <2> QED BY <1>2, <1>8, <2>1, <2>3, WakeKept
<1>9. CASE RunCall(p)
  <2> DEFINE parked == [Released(job[j], "pending") EXCEPT
                          !.attempts = 0, !.dueAt = "never", !.child = TRUE]
  <2>1. Kind[j[2]] \in {"await", "async"}
    BY <1>9 DEF RunCall, StartChild, Executing
  <2>2. \A k \in Jobs : \/ job'[k] = job[k]
                        \/ k = j /\ job'[k] = parked
                        \/ job'[k] = NewJob
    BY <1>9 DEF RunCall, StartChild
  <2>3. parked.status = "pending"
    BY <1>2, <1>9 DEF Released, JobRow
  <2> HIDE DEF parked
  <2>4. ASSUME NEW k \in Jobs PROVE WakeRow(k, job'[k], event[k])
    <3>1. WakeRow(k, job[k], event[k])
      BY DEF WakeInv
    <3>2. CASE k = j /\ job'[k] = parked
      BY <2>1, <2>3, <3>1, <3>2 DEF WakeRow, Leased
    <3>3. CASE job'[k] = NewJob
      BY <3>1, <3>3 DEF WakeRow, NewJob, Absent, Due, Leased
    <3> QED BY <2>2, <3>1, <3>2, <3>3
  <2> QED BY <1>2, <1>9, <2>4 DEF WakeInv, WakeRow, Due
<1> QED BY <1>1, <1>3, <1>4, <1>5, <1>6, <1>7, <1>8, <1>9 DEF Worker

LEMMA NextWake ==
    ASSUME TInv, WakeInv, [Next]_vars,
           [\A j \in Jobs : job[j].status = "pending" /\ job'[j].status = "leased"
                               => Due(job[j])]_vars
    PROVE  WakeInv'
<1>1. CASE UNCHANGED vars
  BY <1>1, SameWake DEF vars
<1>2. CASE ~UNCHANGED vars
  <2>1. ASSUME NEW e \in Enrollments, Enroll(e) PROVE WakeInv'
    <3>1. \A k \in Jobs : job'[k] \in {job[k], NewJob}
      BY <2>1 DEF Enroll, TInv, TypeOK
    <3>2. \A k \in Jobs : NoLessDue(job[k], job[k])
      BY DEF NoLessDue
    <3> QED BY <2>1, <3>1, <3>2, WakeKept DEF Enroll
  <2>2. ASSUME NEW e \in Enrollments, CancelEnrollment(e) PROVE WakeInv'
    <3>1. \A k \in Jobs : job'[k] \in {job[k], Released(job[k], "cancelled")}
      BY <2>2 DEF CancelEnrollment
    <3>2. \A k \in Jobs : /\ NoLessDue(job[k], job[k])
                          /\ NoLessDue(Released(job[k], "cancelled"), job[k])
      BY DEF TInv, TypeOK, Released, JobRow, NoLessDue, Live, Leased
    <3> QED BY <2>2, <3>1, <3>2, WakeKept DEF CancelEnrollment
  <2>3. ASSUME NEW p \in Procs, Crash(p) PROVE WakeInv'
    BY <2>3, SameWake DEF Crash, Database
  <2>4. ASSUME NEW p \in Procs, Cron(p) \/ Worker(p) PROVE WakeInv'
    BY <1>2, <2>4, CronWake, WorkerWake
  <2> QED BY <1>2, <2>1, <2>2, <2>3, <2>4, EventsWake DEF Next, Environment
<1> QED BY <1>1, <1>2

LEMMA InitWake == Init => WakeInv
BY DEF Init, Absent, WakeInv, WakeRow, Leased, Live

\* While no claim takes a row that is not due, a decision whose event was
\* recorded does not sleep until its deadline, whether the event came before,
\* during or after the parking and however many invocations run.
THEOREM WokenWhileClaimsAreDue == Spec /\ ClaimsAreDue => []EventWakesDecision
<1>1. Init => TInv /\ WakeInv
  BY InitTInv, InitWake
<1>2. /\ TInv /\ WakeInv /\ [Next]_vars
      /\ [\A j \in Jobs : job[j].status = "pending" /\ job'[j].status = "leased"
                             => Due(job[j])]_vars
      => (TInv /\ WakeInv)'
  BY NextTInv, NextWake
<1>3. TInv /\ WakeInv => EventWakesDecision
  BY DEF WakeInv, WakeRow, EventWakesDecision
<1> QED BY <1>1, <1>2, <1>3, PTL DEF Spec, ClaimsAreDue
\* Only selecting a row leads to a claim.
LEMMA ClaimsBegin ==
    ASSUME TInv, NEW p \in Procs, Cron(p) \/ Worker(p), proc'[p].pc = "claim"
    PROVE  \E j \in Jobs : ClaimRead(p, j)
<1>1. proc[p] \in ProcState /\ proc \in [Procs -> ProcState] /\ ProcOK(proc[p])
  BY Here DEF TInv, TypeOK
<1>2. ASSUME NEW q, q.pc # "claim", proc' = [proc EXCEPT ![p] = q] PROVE FALSE
  BY <1>1, <1>2
<1>3. Idle.pc # "claim" /\ ~Return(p)
  BY <1>2 DEF Idle, Return
<1>4. ASSUME NEW pc \in PC \ {"claim"}, Goto(p, pc) PROVE FALSE
  BY <1>1, <1>4 DEF Goto, ProcState
<1>5. ASSUME NEW b, proc' = Finishing(p, b) PROVE FALSE
  BY <1>1, <1>5 DEF Finishing, ProcState
<1>6. ASSUME NEW b, proc' = Failing(p, b) PROVE FALSE
  BY <1>1, <1>6 DEF Failing, ProcState
<1>7. \A s \in {"park", "ack", "return", "nack", "readChild", "failWrite"} : s \in PC \ {"claim"}
  BY DEF PC
<1>8. CASE Cron(p)
  <2>1. ASSUME NEW j \in Jobs, RecoverRead(p, j) \/ RecallRead(p, j) PROVE FALSE
    <3>1. CASE RecoverRead(p, j)
      BY <1>1, <2>1, <3>1 DEF RecoverRead, Idle
    <3>2. CASE RecallRead(p, j)
      <4>1. PICK s : proc' = [proc EXCEPT ![p] =
                        [Idle EXCEPT !.pc = "recall", !.job = j, !.status = s]]
        BY <3>2 DEF RecallRead
      <4>2. [Idle EXCEPT !.pc = "recall", !.job = j, !.status = s].pc = "recall"
        BY DEF Idle
      <4> QED BY <1>2, <4>1, <4>2
    <3> QED BY <2>1, <3>1, <3>2
  <2>2. ASSUME NEW l \in Leases, ClaimWrite(p, l) PROVE FALSE
    <3>1. proc' = [proc EXCEPT ![p] = [proc[p] EXCEPT !.pc = "publish", !.lease = l]]
      BY <1>1, <1>3, <2>2 DEF ClaimWrite
    <3>2. [proc[p] EXCEPT !.pc = "publish", !.lease = l].pc = "publish"
      BY <1>1 DEF ProcState
    <3> QED BY <1>1, <3>1, <3>2
  <2>3. CASE RecoverWrite(p)
    <3> DEFINE r == [proc[p] EXCEPT !.pc = "failRead", !.then = "idle",
                                    !.status = None, !.attempts = 0]
    <3>1. proc' = [proc EXCEPT ![p] = r]
      BY <1>3, <2>3 DEF RecoverWrite
    <3>2. r.pc = "failRead"
      BY <1>1 DEF ProcState
    <3> HIDE DEF r
    <3> QED BY <1>2, <3>1, <3>2
  <2>4. ~(Publish(p) \/ ReturnClaim(p) \/ RecallWrite(p))
    BY <1>3 DEF Publish, ReturnClaim, RecallWrite
  <2>5. ~PublishFails(p)
    BY <1>4, <1>7 DEF PublishFails
  <2> QED BY <1>8, <2>1, <2>2, <2>3, <2>4, <2>5 DEF Cron
<1>9. CASE Worker(p)
  <2>1. ~(RunSource(p) \/ RunAction(p) \/ RunDelay(p) \/ RunDecision(p) \/ RunCondition(p)
          \/ Throw(p))
    BY <1>4, <1>5, <1>6, <1>7 DEF RunSource, RunAction, RunDelay, RunDecision, RunCondition,
       Throw
  <2>2. ~ReadChild(p)
    <3>1. ASSUME proc' = [proc EXCEPT ![p].pc = "ack"] PROVE FALSE
      BY <1>4, <1>7, <3>1 DEF Goto
    <3> QED BY <1>5, <1>6, <3>1 DEF ReadChild
  <2>3. ~(Ack(p) \/ Nack(p) \/ DeadLetterAck(p))
    BY <1>3 DEF Ack, Nack, DeadLetterAck
  <2>4. ~(Park(p) \/ RunCall(p) \/ FailureRetry(p))
    BY <1>4, <1>7 DEF Park, RunCall, StartChild, FailureRetry
  <2>5. ~Finish(p)
    <3>1. [proc[p] EXCEPT !.pc = "ack", !.branch = None].pc = "ack"
      BY <1>1 DEF ProcState
    <3> QED BY <1>2, <3>1 DEF Finish, FinishIf
  <2>6. ~(\E m \in queue : Deliver(p, m)) /\ ~(\E m \in dlq : DeliverDeadLetter(p, m))
    <3>1. ASSUME NEW m \in queue, Deliver(p, m) PROVE proc'[p].pc \in {"start", "ack"}
      BY <1>1, <3>1 DEF Deliver, Idle
    <3>2. ASSUME NEW m \in dlq, DeliverDeadLetter(p, m) PROVE proc'[p].pc = "failRead"
      BY <1>1, <3>2 DEF DeliverDeadLetter, Idle
    <3> QED BY <3>1, <3>2
  <2>7. ~Start(p)
    <3> DEFINE running == [proc[p] EXCEPT !.pc = "execute", !.status = None, !.attempts = 0]
               lost == [running EXCEPT !.pc = "failRead", !.waiting = FALSE, !.then = "ack"]
               stale == [running EXCEPT !.pc = "ack", !.waiting = FALSE]
    <3>1. running.pc = "execute" /\ lost.pc = "failRead" /\ stale.pc = "ack"
      BY <1>1 DEF ProcState
    <3>2. Start(p) => \/ proc' = [proc EXCEPT ![p] = running]
                      \/ proc' = [proc EXCEPT ![p] = lost]
                      \/ proc' = [proc EXCEPT ![p] = stale]
      BY DEF Start
    <3> HIDE DEF running, lost, stale
    <3> QED BY <1>2, <3>1, <3>2
  <2>8. ~FailureRead(p)
    <3> DEFINE after == IF proc[p].permanent THEN "failRead" ELSE "ack"
               stale == [proc[p] EXCEPT !.permanent = FALSE, !.pc = after,
                           !.then = IF proc[p].permanent THEN "ack" ELSE None]
               fatal == [proc[p] EXCEPT !.permanent = FALSE, !.pc = "failRead", !.then = after]
               again == [proc[p] EXCEPT !.pc = "retry"]
    <3>1. FailureRead(p) => \/ proc' = [proc EXCEPT ![p] = stale]
                            \/ proc' = [proc EXCEPT ![p] = fatal]
                            \/ proc' = [proc EXCEPT ![p] = again]
      BY DEF FailureRead
    <3>2. stale.pc \in {"failRead", "ack"} /\ fatal.pc = "failRead" /\ again.pc = "retry"
      BY <1>1 DEF ProcState
    <3> HIDE DEF stale, fatal, again
    <3> QED BY <1>2, <3>1, <3>2
  <2>9. ASSUME Continue(p), proc[p].then \in Continuations PROVE FALSE
    <3> DEFINE r == [proc[p] EXCEPT !.pc = "failRead", !.status = None, !.then = "ack"]
               s == [proc[p] EXCEPT !.pc = proc[p].then, !.status = None, !.then = None]
    <3>1. \/ proc' = [proc EXCEPT ![p] = Idle] \/ proc' = [proc EXCEPT ![p] = r]
          \/ proc' = [proc EXCEPT ![p] = s]
      BY <2>9 DEF Continue
    <3>2. r.pc = "failRead" /\ s.pc \in Continuations
      BY <1>1, <2>9 DEF ProcState
    <3> HIDE DEF r, s
    <3> QED BY <1>2, <1>3, <3>1, <3>2 DEF Continuations
  <2>10. ~(FailRead(p) \/ FailWrite(p))
    <3>1. FailRead(p) \/ FailWrite(p) => proc[p].then \in Continuations
      BY <1>1 DEF FailRead, FailWrite, ProcOK
    <3>2. FailRead(p) => Continue(p) \/ proc'[p].pc = "failWrite"
      BY <1>1 DEF FailRead, ProcState
    <3> QED BY <2>9, <3>1, <3>2 DEF FailWrite
  <2> QED BY <1>9, <2>1, <2>2, <2>3, <2>4, <2>5, <2>6, <2>7, <2>8, <2>10 DEF Worker
<1> QED BY <1>8, <1>9
LEMMA OnlyClaimsLease ==
    ASSUME TInv, NEW p \in Procs, Cron(p) \/ Worker(p), NEW j \in Jobs,
           job[j].status = "pending", job'[j].status = "leased"
    PROVE  \E l \in Leases : ClaimWrite(p, l)
<1> DEFINE i == proc[p].job
<1>1. job \in [Jobs -> JobRow]
  BY DEF TInv, TypeOK
<1>2. ASSUME NEW r, job' \in {job, [job EXCEPT ![i] = r]},
             r.status # "leased" \/ r.status = job[i].status \/ job[i].status # "pending"
      PROVE  FALSE
  BY <1>1, <1>2
<1>3. ~UNCHANGED job
  OBVIOUS
<1>4. proc[p].pc # "idle" => /\ i \in Jobs /\ job[i] \in JobRow
                             /\ \A s \in JobStatus : Released(job[i], s).status = s
  BY RowHere, ReleasedOK
<1>5. /\ NewJob.status = "pending"
      /\ \A s \in {"pending", "failed", "succeeded"} : s \in JobStatus
  BY DEF NewJob, Absent, JobStatus, Live, Terminal
<1>6. CASE Cron(p)
  <2>1. ~(RecoverWrite(p) \/ ReturnClaim(p))
    BY <1>2, <1>4, <1>5 DEF RecoverWrite, ReturnClaim
  <2>2. ~RecallWrite(p)
    <3> DEFINE r == [job[i] EXCEPT !.outcome = proc[p].status, !.dueAt = "now"]
    <3>1. RecallWrite(p) => job' \in {job, [job EXCEPT ![i] = r]} /\ proc[p].pc # "idle"
      BY <1>1, <1>4 DEF RecallWrite
    <3>2. proc[p].pc # "idle" => r.status = job[i].status
      BY <1>4 DEF JobRow
    <3> HIDE DEF r
    <3> QED BY <1>2, <3>1, <3>2
  <2> QED BY <1>3, <1>6, <2>1, <2>2 DEF Cron, RecoverRead, ClaimRead, RecallRead, Publish,
      PublishFails, Database
<1>7. CASE Worker(p)
  <2>1. ~FailWrite(p)
    BY <1>2, <1>4, <1>5 DEF FailWrite
  <2>2. ~Start(p)
    <3> DEFINE r == [job[i] EXCEPT !.status = "running", !.attempts = @ + 1]
    <3>1. Start(p) => job' \in {job, [job EXCEPT ![i] = r]} /\ proc[p].pc # "idle"
      BY <1>1, <1>4 DEF Start
    <3>2. proc[p].pc # "idle" => r.status = "running"
      BY <1>4 DEF JobRow
    <3> HIDE DEF r
    <3> QED BY <1>2, <3>1, <3>2
  <2>3. ~RunCondition(p)
    <3> SUFFICES ASSUME RunCondition(p) PROVE FALSE
      OBVIOUS
    <3>1. PICK b : job' \in {job, [job EXCEPT ![i] = [job[i] EXCEPT !.branch = b]]}
      BY DEF RunCondition
    <3> DEFINE r == [job[i] EXCEPT !.branch = b]
    <3>2. r.status = job[i].status
      BY <1>4 DEF RunCondition, Executing, JobRow
    <3>3. job' \in {job, [job EXCEPT ![i] = r]}
      BY <3>1
    <3> HIDE DEF r
    <3> QED BY <1>2, <3>2, <3>3
  <2>4. ~Park(p)
    <3> DEFINE r == [Released(job[i], "pending") EXCEPT
                      !.attempts = 0, !.waiting = TRUE, !.branch = None,
                      !.child = FALSE, !.outcome = None,
                      !.elapsed = @ /\ Kind[i[2]] = "decision",
                      !.dueAt = IF event[i] # "none" THEN "now" ELSE "deadline"]
    <3>1. Park(p) => job' \in {job, [job EXCEPT ![i] = r]}
      BY DEF Park
    <3>2. Park(p) => r.status = "pending"
      BY <1>4 DEF Park, Released, JobRow
    <3> HIDE DEF r
    <3> QED BY <1>2, <3>1, <3>2
  <2>5. ~FailureRetry(p)
    <3> DEFINE r == [job[i] EXCEPT !.status = "leased"]
    <3>1. FailureRetry(p) => \/ job' = job
                             \/ job' = [job EXCEPT ![i] = r] /\ job[i].status # "pending"
      BY DEF FailureRetry, RunningLease
    <3> HIDE DEF r
    <3> QED BY <1>2, <1>3, <3>1
  <2>6. ~Finish(p)
    <3> DEFINE n == Edge[i[2]][proc[p].branch]
               e == i[1]
               done == [job EXCEPT ![i] = Released(job[i], "succeeded")]
    <3>1. Finish(p) => job' \in {job, done, [done EXCEPT ![<<e, n>>] = NewJob]}
      BY DEF Finish, FinishIf
    <3>2. Finish(p) => Released(job[i], "succeeded").status = "succeeded"
      BY <1>4, <1>5 DEF Finish, FinishIf
    <3> HIDE DEF e, n
    <3> QED BY <1>1, <1>5, <3>1, <3>2
  <2>7. ~RunCall(p)
    <3> DEFINE parked == [Released(job[i], "pending") EXCEPT
                            !.attempts = 0, !.dueAt = "never", !.child = TRUE]
    <3>1. RunCall(p) => job'[j] \in {job[j], parked, NewJob}
      BY DEF RunCall, StartChild
    <3>2. RunCall(p) => parked.status = "pending"
      BY <1>4 DEF RunCall, StartChild, Executing, Released, JobRow
    <3> HIDE DEF parked
    <3> QED BY <1>5, <3>1, <3>2
  <2> QED BY <1>3, <1>7, <2>1, <2>2, <2>3, <2>4, <2>5, <2>6, <2>7 DEF Worker, Deliver,
      RunSource, RunDelay, RunDecision, RunAction, ReadChild, Throw, FailureRead, FailRead,
      Ack, Nack, DeliverDeadLetter, DeadLetterAck, Database
<1> QED BY <1>6, <1>7

ClaimInv == \A p \in Procs :
    proc[p].pc = "claim" /\ job[proc[p].job].status = "pending" => Due(job[proc[p].job])

\* With one invocation at a time nothing parks a row between the two
\* statements of a claim.
LEMMA NextClaim ==
    ASSUME \A p, q \in Procs : p = q, TInv, ClaimInv, [Next]_vars
    PROVE  /\ ClaimInv'
           /\ \A j \in Jobs : job[j].status = "pending" /\ job'[j].status = "leased"
                                 => Due(job[j])
<1> DEFINE Claimed == \A j \in Jobs :
             job[j].status = "pending" /\ job'[j].status = "leased" => Due(job[j])
           Later == \A j \in Jobs : job'[j].status = "pending" =>
             Due(job'[j]) \/ (job[j].status = "pending" /\ ~Due(job[j]))
<1>1. proc \in [Procs -> ProcState] /\ job \in [Jobs -> JobRow]
  BY DEF TInv, TypeOK
<1>2. ASSUME Later, UNCHANGED proc PROVE ClaimInv'
  BY <1>2, Here DEF ClaimInv, ProcOK, Due
<1>3. CASE UNCHANGED vars
  <2>1. Later /\ Claimed
    BY <1>3 DEF vars, Due
  <2> QED BY <1>2, <1>3, <2>1 DEF vars
<1>4. ASSUME NEW j \in Jobs,
             RepairParked(j) \/ LeaseExpires(j) \/ DeadlinePasses(j)
             \/ StoreEvent(j) \/ WakeWaitingDecision(j)
      PROVE  ClaimInv' /\ Claimed
  <2>1. PICK r : /\ job' \in {job, [job EXCEPT ![j] = r]} /\ r.status = job[j].status
                 /\ r.dueAt \in {job[j].dueAt, "now"} /\ (job[j].elapsed => r.elapsed)
    <3>1. /\ \A x \in Nat : [job[j] EXCEPT !.attempts = x].status = job[j].status
          /\ \A x \in Nat : [job[j] EXCEPT !.attempts = x].dueAt = job[j].dueAt
          /\ \A x \in Nat : [job[j] EXCEPT !.attempts = x].elapsed = job[j].elapsed
      BY <1>1, <1>4 DEF JobRow
    <3> QED BY <1>1, <1>4 DEF RepairParked, LeaseExpires, DeadlinePasses, StoreEvent,
        WakeWaitingDecision, JobRow
  <2>2. Later /\ Claimed
    BY <1>1, <2>1 DEF Due
  <2> QED BY <1>2, <1>4, <2>2 DEF RepairParked, LeaseExpires, DeadlinePasses, StoreEvent,
      WakeWaitingDecision
<1>5. ASSUME NEW e \in Enrollments, Enroll(e) PROVE ClaimInv' /\ Claimed
  <2>1. \A k \in Jobs : job'[k] \in {job[k], NewJob}
    BY <1>1, <1>5 DEF Enroll
  <2>2. NewJob.status = "pending" /\ NewJob.dueAt = "now"
    BY DEF NewJob, Absent
  <2>3. Later /\ Claimed
    BY <2>1, <2>2 DEF Due
  <2> QED BY <1>2, <1>5, <2>3 DEF Enroll
<1>6. ASSUME NEW e \in Enrollments, CancelEnrollment(e) PROVE ClaimInv' /\ Claimed
  <2>1. \A k \in Jobs : job'[k] \in {job[k], Released(job[k], "cancelled")}
    BY <1>6 DEF CancelEnrollment
  <2>2. \A k \in Jobs : Released(job[k], "cancelled").status = "cancelled"
    BY <1>1, ReleasedOK DEF JobStatus, Terminal
  <2>3. Later /\ Claimed
    BY <2>1, <2>2 DEF Due
  <2> QED BY <1>2, <1>6, <2>3 DEF CancelEnrollment
<1>7. ASSUME NEW p \in Procs, Crash(p) PROVE ClaimInv' /\ Claimed
  <2>1. UNCHANGED job /\ \A q \in Procs : proc'[q] = Idle
    BY <1>1, <1>7 DEF Crash, Return, Database
  <2> QED BY <2>1 DEF ClaimInv, Idle
<1>8. ASSUME NEW p \in Procs, Cron(p) \/ Worker(p) PROVE ClaimInv' /\ Claimed
  <2>1. ClaimInv'
    <3>1. CASE proc'[p].pc = "claim"
      <4>1. PICK j \in Jobs : ClaimRead(p, j)
        BY <1>8, <3>1, ClaimsBegin
      <4>2. proc'[p].job = j /\ UNCHANGED job /\ Due(job[j])
        BY <1>1, <4>1 DEF ClaimRead, Idle, Database
      <4> QED BY <4>2 DEF ClaimInv, Due
    <3>2. CASE proc'[p].pc # "claim"
      BY <3>2 DEF ClaimInv
    <3> QED BY <3>1, <3>2
  <2>2. ASSUME NEW j \in Jobs, job[j].status = "pending", job'[j].status = "leased"
        PROVE  Due(job[j])
    <3>1. PICK l \in Leases : ClaimWrite(p, l)
      BY <1>1, <1>8, <2>2, OnlyClaimsLease
    <3>2. j = proc[p].job /\ proc[p].pc = "claim"
      BY <1>1, <2>2, <3>1 DEF ClaimWrite
    <3> QED BY <2>2, <3>2 DEF ClaimInv
  <2> QED BY <2>1, <2>2
<1> QED BY <1>3, <1>4, <1>5, <1>6, <1>7, <1>8 DEF Next, Environment

\* An event that was recorded wakes its decision when one invocation runs at a
\* time.
THEOREM WokenByOneDispatcher ==
    ASSUME \A p, q \in Procs : p = q
    PROVE  Spec => []EventWakesDecision
<1>1. Init => TInv /\ ClaimInv
  BY InitTInv DEF Init, Idle, ClaimInv
<1>2. TInv /\ ClaimInv /\ [Next]_vars => (TInv /\ ClaimInv)'
  BY NextTInv, NextClaim
<1>3. TInv /\ ClaimInv /\ [Next]_vars =>
        [\A j \in Jobs : job[j].status = "pending" /\ job'[j].status = "leased"
                            => Due(job[j])]_vars
  BY NextClaim
<1>4. Spec => ClaimsAreDue
  BY <1>1, <1>2, <1>3, PTL DEF Spec, ClaimsAreDue
<1> QED BY <1>4, WokenWhileClaimsAreDue, PTL
=============================================================================
