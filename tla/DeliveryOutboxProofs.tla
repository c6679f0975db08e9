------------------------ MODULE DeliveryOutboxProofs ------------------------
(***************************************************************************)
(* Safety of DeliveryOutbox for every set of deliveries, enrollments,      *)
(* contacts, consumers and leases and every attempt limit.                 *)
(***************************************************************************)
EXTENDS DeliveryOutbox, TLAPS

\* A consumer holds nothing, or a delivery and the lease of its claim.
ConsumerOK(q) ==
    IF q.pc = "idle" THEN q = Idle ELSE q.delivery # None /\ q.lease # None

-----------------------------------------------------------------------------
(* Rows and consumers                                                      *)

LEMMA IdleOK == Idle \in ProcState /\ ConsumerOK(Idle)
BY ConstantsAssumption DEF Idle, ProcState, PC, ConsumerOK

LEMMA ReleasedOK ==
    ASSUME NEW r \in Row, NEW s \in Status
    PROVE  Released(r, s) \in Row /\ Released(r, s).status = s
           /\ Released(r, s).attempts = r.attempts /\ Released(r, s).known = r.known
           /\ Released(r, s).lease = None
BY DEF Released, Row

LEMMA Consumer ==
    ASSUME TypeOK, NEW p \in Procs
    PROVE  /\ proc[p] \in ProcState /\ ConsumerOK(proc[p])
           /\ proc[p].pc # "idle" =>
                /\ proc[p].delivery \in Deliveries /\ proc[p].lease \in Leases
                /\ row[proc[p].delivery] \in Row
BY DEF TypeOK, ConsumerOK, ProcState

\* One consumer moves to a state that is in order; the others stay put.
LEMMA Moved ==
    ASSUME TypeOK, NEW p \in Procs, NEW q \in ProcState, ConsumerOK(q),
           proc' = [proc EXCEPT ![p] = q]
    PROVE  /\ proc' \in [Procs -> ProcState]
           /\ \A x \in Procs : IF proc'[x].pc = "idle" THEN proc'[x] = Idle
                               ELSE proc'[x].delivery # None /\ proc'[x].lease # None
<1>1. \A x \in Procs : proc'[x] = IF x = p THEN q ELSE proc[x]
  BY DEF TypeOK
<1>2. \A x \in Procs : ConsumerOK(proc'[x])
  BY <1>1 DEF TypeOK, ConsumerOK
<1> QED BY <1>1, <1>2 DEF TypeOK, ConsumerOK

LEMMA Returned ==
    ASSUME TypeOK, NEW p \in Procs, Return(p)
    PROVE  /\ proc' \in [Procs -> ProcState]
           /\ \A x \in Procs : IF proc'[x].pc = "idle" THEN proc'[x] = Idle
                               ELSE proc'[x].delivery # None /\ proc'[x].lease # None
BY IdleOK, Moved DEF Return

LEMMA Gone ==
    ASSUME TypeOK, NEW p \in Procs, proc[p].pc # "idle",
           NEW pc \in PC \ {"idle"}, NEW b \in BOOLEAN,
           proc' = [proc EXCEPT ![p] = [proc[p] EXCEPT !.pc = pc, !.permanent = b]]
    PROVE  /\ proc' \in [Procs -> ProcState]
           /\ \A x \in Procs : IF proc'[x].pc = "idle" THEN proc'[x] = Idle
                               ELSE proc'[x].delivery # None /\ proc'[x].lease # None
<1> DEFINE q == [proc[p] EXCEPT !.pc = pc, !.permanent = b]
<1>1. q \in ProcState
  BY Consumer DEF ProcState
<1>2. ConsumerOK(q)
  BY Consumer DEF ProcState, ConsumerOK
<1> QED BY <1>1, <1>2, Moved

LEMMA Went ==
    ASSUME TypeOK, NEW p \in Procs, proc[p].pc # "idle",
           NEW pc \in PC \ {"idle"}, Goto(p, pc)
    PROVE  /\ proc' \in [Procs -> ProcState]
           /\ \A x \in Procs : IF proc'[x].pc = "idle" THEN proc'[x] = Idle
                               ELSE proc'[x].delivery # None /\ proc'[x].lease # None
<1>1. [proc[p] EXCEPT !.pc = pc]
        = [proc[p] EXCEPT !.pc = pc, !.permanent = proc[p].permanent]
  BY Consumer DEF ProcState
<1>2. proc[p].permanent \in BOOLEAN
  BY Consumer DEF ProcState
<1>3. proc' = [proc EXCEPT ![p] = [proc[p] EXCEPT !.pc = pc]]
  BY DEF Goto, TypeOK
<1> QED BY <1>1, <1>2, <1>3, Gone

\* A statement on the delivery of p writes a row or leaves the table alone.
LEMMA Updated ==
    ASSUME TypeOK, NEW p \in Procs, proc[p].pc # "idle", NEW r \in Row,
           NEW condition \in BOOLEAN, UpdateIf(p, condition, r)
    PROVE  row' \in [Deliveries -> Row]
BY Consumer DEF UpdateIf, TypeOK

LEMMA Settled ==
    ASSUME TypeOK, NEW d \in Deliveries, Ack(d) \/ Retry(d)
    PROVE  queue' \subseteq Deliveries /\ dead' \subseteq Deliveries
BY DEF Ack, Retry, TypeOK

-----------------------------------------------------------------------------
(* Types                                                                   *)

LEMMA InitType == Init => TypeOK
<1> SUFFICES ASSUME Init PROVE TypeOK
  OBVIOUS
<1>1. Absent \in Row
  BY ConstantsAssumption DEF Absent, Row, Status
<1>2. proc \in [Procs -> ProcState] /\ \A p \in Procs : proc[p] = Idle /\ Idle.pc = "idle"
  BY IdleOK DEF Init, Idle
<1> QED BY <1>1, <1>2 DEF Init, TypeOK

\* Insertion, announcement, cron, the clock, cancellation: no consumer moves.
LEMMA TableType ==
    ASSUME TypeOK, UNCHANGED proc,
           \/ \E d \in Deliveries :
                \/ Create(d) \/ Announce(d) \/ ScanDueDelivery(d) \/ ReplayDeadLetter(d)
                \/ BackoffElapses(d) \/ LeaseExpires(d)
                \/ \E k \in Events : ApplyEvent(d, k)
           \/ \E tree \in SUBSET Enrollments : CancelEnrollment(tree)
           \/ \E e \in Enrollments : EndEnrollment(e)
           \/ \E c \in Contacts : ConsentChanges(c)
           \/ RecoverExpiredDeliveries
    PROVE  TypeOK'
<1>1. ASSUME NEW d \in Deliveries, Create(d) PROVE TypeOK'
  <2>1. row' \in [Deliveries -> Row] BY <1>1 DEF Create, TypeOK, Row, Status
  <2>2. announcing' \subseteq Deliveries BY <1>1 DEF Create, TypeOK
  <2> QED BY <1>1, <2>1, <2>2 DEF Create, TypeOK
<1>2. ASSUME NEW d \in Deliveries,
             Announce(d) \/ ScanDueDelivery(d) \/ ReplayDeadLetter(d)
      PROVE  TypeOK'
  BY <1>2 DEF Announce, ScanDueDelivery, ReplayDeadLetter, TypeOK
<1>3. ASSUME NEW d \in Deliveries, BackoffElapses(d) \/ LeaseExpires(d) PROVE TypeOK'
  <2>1. row[d] \in Row
    BY DEF TypeOK
  <2>2. [row[d] EXCEPT !.due = TRUE] \in Row /\ [row[d] EXCEPT !.expired = TRUE] \in Row
    BY <2>1 DEF Row
  <2>3. row' \in [Deliveries -> Row]
    BY <1>3, <2>2 DEF BackoffElapses, LeaseExpires, TypeOK
  <2> QED BY <1>3, <2>3 DEF BackoffElapses, LeaseExpires, TypeOK
<1>4. ASSUME NEW d \in Deliveries, NEW k \in Events, ApplyEvent(d, k) PROVE TypeOK'
  <2>1. StatusAfter(k, row[d].status) \in Status
    BY DEF StatusAfter, TypeOK, Row, Status
  <2>2. row' \in [Deliveries -> Row]
    BY <1>4, <2>1 DEF ApplyEvent, TypeOK, Row
  <2>3. recorded' \subseteq Emails \X Events
    BY <1>4 DEF ApplyEvent, TypeOK
  <2>4. ContactOf[d] \in Contacts
    BY ConstantsAssumption
  <2>5. refused' \in {refused, refused \cup {ContactOf[d]}}
    BY <1>4 DEF ApplyEvent
  <2> QED BY <1>4, <2>2, <2>3, <2>4, <2>5 DEF ApplyEvent, TypeOK
<1>5. ASSUME NEW tree \in SUBSET Enrollments, CancelEnrollment(tree) PROVE TypeOK'
  <2>1. \A d \in Deliveries : [row[d] EXCEPT !.status = "cancelled", !.due = TRUE] \in Row
    <3>1. \A r \in Row : [r EXCEPT !.status = "cancelled", !.due = TRUE] \in Row
      BY DEF Row, Status
    <3> QED BY <3>1 DEF TypeOK
  <2>2. row' \in [Deliveries -> Row]
    BY <1>5, <2>1 DEF CancelEnrollment, TypeOK
  <2>3. enrollment' \in [Enrollments -> {"active", "ended", "cancelled"}]
    BY <1>5 DEF CancelEnrollment, TypeOK
  <2> QED BY <1>5, <2>2, <2>3 DEF CancelEnrollment, TypeOK
<1>6. ASSUME NEW e \in Enrollments, EndEnrollment(e) PROVE TypeOK'
  BY <1>6 DEF EndEnrollment, TypeOK
<1>7. CASE RecoverExpiredDeliveries
  <2>1. \A d \in Deliveries : Recovered(d) \in Row
    BY ReleasedOK DEF Recovered, TypeOK, Status
  <2> QED BY <1>7, <2>1 DEF RecoverExpiredDeliveries, TypeOK
<1>8. ASSUME NEW c \in Contacts, ConsentChanges(c) PROVE TypeOK'
  BY <1>8 DEF ConsentChanges, TypeOK
<1> QED BY <1>1, <1>2, <1>3, <1>4, <1>5, <1>6, <1>7, <1>8

LEMMA ClaimType ==
    ASSUME TypeOK, NEW p \in Procs, NEW d \in Deliveries, Claim(p, d)
    PROVE  TypeOK'
<1>1. PICK l \in Leases :
        /\ row' = [row EXCEPT ![d].status = "sending", ![d].lease = l,
                              ![d].expired = FALSE, ![d].due = TRUE, ![d].attempts = @ + 1]
        /\ proc' = [proc EXCEPT ![p] =
             [Idle EXCEPT !.pc = "check", !.delivery = d, !.lease = l,
                          !.attempts = row[d].attempts + 1]]
  BY DEF Claim
<1>2. row[d] \in Row /\ row[d].attempts + 1 \in 0 .. Limit
  BY ConstantsAssumption DEF Claim, Claimable, TypeOK, Row
<1>3. row' \in [Deliveries -> Row]
  BY <1>1, <1>2 DEF TypeOK, Row, Status
<1> DEFINE q == [Idle EXCEPT !.pc = "check", !.delivery = d, !.lease = l,
                             !.attempts = row[d].attempts + 1]
<1>4. q \in ProcState /\ ConsumerOK(q)
  BY <1>2, ConstantsAssumption DEF Idle, ProcState, PC, ConsumerOK
<1> QED BY <1>1, <1>3, <1>4, Moved DEF Claim, TypeOK

LEMMA WorkerType ==
    ASSUME TypeOK, NEW p \in Procs, Worker(p) \/ Crash(p)
    PROVE  TypeOK'
<1> DEFINE d == proc[p].delivery
<1>1. /\ proc[p].pc # "idle"
  BY DEF Worker, Crash, CheckCancelled, Gate, MarkSuppressed, SendAccepted, SendUnanswered,
       SendFails,
         MarkAccepted, RecordFailure, MarkProviderSuppressed
<1>2. d \in Deliveries /\ row[d] \in Row /\ ExactLease(p) \in BOOLEAN
  BY <1>1, Consumer DEF ExactLease
<1>3. \A s \in Status : Released(row[d], s) \in Row
  BY <1>2, ReleasedOK
<1>4. CASE CheckCancelled(p)
  <2>1. row' \in [Deliveries -> Row]
    BY <1>1, <1>3, <1>4, Updated DEF CheckCancelled, Status
  <2> QED BY <1>1, <1>2, <1>4, <2>1, Returned, Went, Settled DEF CheckCancelled, TypeOK, PC
<1>5. CASE Gate(p)
  BY <1>1, <1>5, Went DEF Gate, TypeOK, PC
<1>6. CASE MarkSuppressed(p)
  <2>1. row' \in [Deliveries -> Row]
    BY <1>1, <1>2, <1>3, <1>6, Updated DEF MarkSuppressed, Status
  <2> QED BY <1>2, <1>6, <2>1, Returned, Settled DEF MarkSuppressed, TypeOK
<1>7. CASE SendAccepted(p)
  BY <1>1, <1>2, <1>7, Went DEF SendAccepted, TypeOK, PC
<1>8. CASE SendFails(p) \/ SendUnanswered(p)
  <2>1. ASSUME NEW b \in BOOLEAN,
               proc' = [proc EXCEPT ![p].pc = "failure", ![p].permanent = b]
        PROVE  proc' = [proc EXCEPT ![p] = [proc[p] EXCEPT !.pc = "failure", !.permanent = b]]
    BY <2>1 DEF TypeOK
  <2>2. sends' \in [Deliveries -> Nat]
    BY <1>2, <1>8 DEF SendFails, SendUnanswered, TypeOK
  <2>3. CASE SendFails(p)
    BY <1>1, <2>1, <2>2, <2>3, Gone, Went DEF SendFails, TypeOK, PC
  <2>4. CASE SendUnanswered(p)
    BY <1>1, <2>1, <2>2, <2>4, Gone, Went DEF SendUnanswered, TypeOK, PC
  <2> QED BY <1>8, <2>3, <2>4
<1>9. CASE MarkAccepted(p)
  <2>1. [Released(row[d], "accepted") EXCEPT !.known = TRUE] \in Row
    BY <1>3 DEF Row, Status
  <2>2. row' \in [Deliveries -> Row]
    BY <1>1, <1>9, <2>1, Updated DEF MarkAccepted
  <2> QED BY <1>2, <1>9, <2>2, Returned, Settled DEF MarkAccepted, TypeOK
<1>10. CASE RecordFailure(p)
  <2>1. [Released(row[d], "queued") EXCEPT !.due = FALSE] \in Row
    BY <1>3 DEF Row, Status
  <2>2. row' \in [Deliveries -> Row]
    BY <1>1, <1>2, <1>3, <1>10, <2>1, Updated DEF RecordFailure, Status
  <2> QED BY <1>2, <1>10, <2>2, Returned, Settled DEF RecordFailure, TypeOK
<1>11. CASE MarkProviderSuppressed(p)
  <2>1. row' \in [Deliveries -> Row]
    BY <1>1, <1>2, <1>3, <1>11, Updated DEF MarkProviderSuppressed, Status
  <2>2. refused' \subseteq Contacts
    BY <1>2, <1>11, ConstantsAssumption DEF MarkProviderSuppressed, TypeOK
  <2> QED BY <1>2, <1>11, <2>1, <2>2, Returned, Settled DEF MarkProviderSuppressed, TypeOK
<1>12. CASE Crash(p)
  BY <1>2, <1>12, Returned, Settled DEF Crash, TypeOK
<1> QED BY <1>4, <1>5, <1>6, <1>7, <1>8, <1>9, <1>10, <1>11, <1>12 DEF Worker

\* The steps of Next by who takes them.
TableStep ==
    /\ UNCHANGED proc
    /\ \/ \E d \in Deliveries :
            \/ Create(d) \/ Announce(d) \/ ScanDueDelivery(d) \/ ReplayDeadLetter(d)
            \/ BackoffElapses(d) \/ LeaseExpires(d)
            \/ \E k \in Events : ApplyEvent(d, k)
       \/ \E tree \in SUBSET Enrollments : CancelEnrollment(tree)
       \/ \E e \in Enrollments : EndEnrollment(e)
       \/ \E c \in Contacts : ConsentChanges(c)
       \/ RecoverExpiredDeliveries

LEMMA Steps ==
    ASSUME [Next]_vars
    PROVE  \/ TableStep
           \/ \E p \in Procs : Worker(p) \/ Crash(p)
           \/ \E p \in Procs, d \in Deliveries :
                Claim(p, d) \/ ClaimNothing(p, d) \/ ClaimFails(p, d)
           \/ UNCHANGED vars
BY DEF Next, TableStep, Create, Announce, ScanDueDelivery, ReplayDeadLetter, BackoffElapses,
       LeaseExpires, ApplyEvent, CancelEnrollment, EndEnrollment, ConsentChanges,
       RecoverExpiredDeliveries

LEMMA NextType == ASSUME TypeOK, [Next]_vars PROVE TypeOK'
<1>1. CASE TableStep
  BY <1>1, TableType DEF TableStep
<1>2. ASSUME NEW p \in Procs, NEW d \in Deliveries, ClaimNothing(p, d) \/ ClaimFails(p, d)
      PROVE  TypeOK'
  BY <1>2, Settled DEF ClaimNothing, ClaimFails, TypeOK
<1>3. CASE UNCHANGED vars
  BY <1>3 DEF vars, TypeOK
<1> QED BY <1>1, <1>2, <1>3, Steps, ClaimType, WorkerType

\* Rows, queues and consumers keep their types for every instance.
THEOREM OutboxTypes == Spec => []TypeOK
<1>1. Init => TypeOK
  BY InitType
<1>2. TypeOK /\ [Next]_vars => TypeOK'
  BY NextType
<1> QED BY <1>1, <1>2, PTL DEF Spec

-----------------------------------------------------------------------------
(* What one step of a consumer does, as far as safety can tell             *)

\* Program counters of an attempt that has no message id.
Unsent == {"check", "gate", "suppress", "send", "failure", "bounce"}

\* The attempt goes on, perhaps after a send without an answer, the provider
\* answers with a message id, or the attempt ends: it leaves the row, or
\* accepts, closes or returns it to the queue.
OwnStep(p) ==
    LET d == proc[p].delivery
    IN  /\ \A x \in Deliveries \ {d} : row'[x] = row[x] /\ sends'[x] = sends[x]
        /\ row'[d].known => row[d].known \/ proc[p].pc = "accept"
        /\ sends'[d] # sends[d] => proc[p].pc = "send"
        /\ \A q \in Procs \ {p} : proc'[q] = proc[q]
        /\ UNCHANGED enrollment
        /\ row'[d].attempts = row[d].attempts /\ row'[d].lease \in {row[d].lease, None}
        /\ \/ /\ proc[p].pc \in Unsent /\ proc'[p].pc \in Unsent
              /\ proc'[p].delivery = d /\ proc'[p].lease = proc[p].lease
              /\ proc'[p].attempts = proc[p].attempts
              /\ answered' = answered /\ row'[d] = row[d]
           \/ /\ proc[p].pc = "send" /\ proc'[p].pc = "accept"
              /\ proc'[p].delivery = d /\ proc'[p].lease = proc[p].lease
              /\ proc'[p].attempts = proc[p].attempts
              /\ answered' = answered \cup {d} /\ row'[d] = row[d]
           \/ /\ proc'[p] = Idle /\ answered' = answered
              /\ \/ row'[d] = row[d]
                 \/ proc[p].pc = "accept" /\ row'[d].status = "accepted"
                 \/ /\ proc[p].pc \in Unsent
                    /\ row'[d].status \in {"cancelled", "failed", "suppressed"}
                 \/ /\ proc[p].pc = "failure" /\ row'[d].status = "queued"
                    /\ row[d].status = "sending" /\ row[d].lease = proc[p].lease
                    /\ proc[p].attempts < Limit

LEMMA WorkerOwnStep ==
    ASSUME TypeOK, NEW p \in Procs, Worker(p) \/ Crash(p)
    PROVE  OwnStep(p)
<1> DEFINE d == proc[p].delivery
<1>1. proc[p].pc # "idle"
  BY DEF Worker, Crash, CheckCancelled, Gate, MarkSuppressed, SendAccepted, SendUnanswered,
       SendFails,
         MarkAccepted, RecordFailure, MarkProviderSuppressed
<1>2. /\ d \in Deliveries /\ row[d] \in Row /\ proc[p] \in ProcState
      /\ row \in [Deliveries -> Row] /\ proc \in [Procs -> ProcState]
      /\ sends \in [Deliveries -> Nat]
  BY <1>1, Consumer DEF TypeOK
<1>3. \A s \in Status : /\ Released(row[d], s) \in Row /\ Released(row[d], s).status = s
                        /\ Released(row[d], s).attempts = row[d].attempts
                        /\ Released(row[d], s).lease = None
                        /\ Released(row[d], s).known = row[d].known
  BY <1>2, ReleasedOK
<1>4. ASSUME Return(p) PROVE proc'[p] = Idle /\ \A q \in Procs \ {p} : proc'[q] = proc[q]
  BY <1>2, <1>4 DEF Return
<1>5. ASSUME NEW pc \in PC, Goto(p, pc)
      PROVE  /\ proc'[p].pc = pc /\ proc'[p].delivery = d /\ proc'[p].lease = proc[p].lease
             /\ proc'[p].attempts = proc[p].attempts
             /\ \A q \in Procs \ {p} : proc'[q] = proc[q]
  BY <1>2, <1>5 DEF Goto, ProcState
<1>6. ASSUME NEW r, NEW condition \in BOOLEAN, UpdateIf(p, condition, r)
      PROVE  /\ \A x \in Deliveries \ {d} : row'[x] = row[x]
             /\ row'[d] = IF condition THEN r ELSE row[d]
  BY <1>2, <1>6 DEF UpdateIf
<1>7. CASE CheckCancelled(p)
  <2>1. /\ \A x \in Deliveries \ {d} : row'[x] = row[x]
        /\ row'[d] \in {row[d], Released(row[d], "cancelled")}
        /\ proc[p].pc = "check"
        /\ UNCHANGED <<sends, answered, enrollment>>
    BY <1>6, <1>7 DEF CheckCancelled
  <2>2. CASE Return(p)
    BY <1>3, <1>4, <2>1, <2>2 DEF OwnStep, Unsent, Status
  <2>3. CASE ~Return(p)
    <3>1. Goto(p, "gate") /\ row'[d] = row[d]
      BY <1>6, <1>7, <2>3 DEF CheckCancelled
    <3> QED BY <1>5, <2>1, <3>1 DEF OwnStep, Unsent, PC
  <2> QED BY <2>2, <2>3
<1>8. CASE Gate(p)
  BY <1>5, <1>8 DEF Gate, OwnStep, Unsent, PC
<1>9. CASE MarkSuppressed(p)
  <2>1. ExactLease(p) \in BOOLEAN
    BY DEF ExactLease
  <2> QED BY <1>3, <1>4, <1>6, <1>9, <2>1 DEF MarkSuppressed, OwnStep, Unsent, Status
<1>10. CASE SendAccepted(p)
  <2>1. \A x \in Deliveries \ {d} : sends'[x] = sends[x]
    BY <1>2, <1>10 DEF SendAccepted
  <2> QED BY <1>5, <1>10, <2>1 DEF SendAccepted, OwnStep, PC
<1>11. CASE SendFails(p) \/ SendUnanswered(p)
  <2>1. /\ proc[p].pc \in {"gate", "suppress", "send"}
        /\ UNCHANGED <<row, enrollment, answered>>
        /\ \A x \in Deliveries \ {d} : sends'[x] = sends[x]
        /\ sends'[d] # sends[d] => proc[p].pc = "send"
    BY <1>2, <1>11 DEF SendFails, SendUnanswered
  <2>2. ASSUME NEW b \in BOOLEAN,
               proc' = [proc EXCEPT ![p].pc = "failure", ![p].permanent = b]
        PROVE  OwnStep(p)
    BY <1>2, <2>1, <2>2 DEF OwnStep, Unsent, ProcState
  <2>3. CASE Goto(p, "bounce")
    BY <1>5, <2>1, <2>3 DEF OwnStep, Unsent, PC
  <2> QED BY <1>11, <2>2, <2>3 DEF SendFails, SendUnanswered
<1>12. CASE MarkAccepted(p)
  <2> DEFINE r == [Released(row[d], "accepted") EXCEPT !.known = TRUE]
  <2>1. r.status = "accepted" /\ r.attempts = row[d].attempts /\ r.lease = None
    BY <1>3 DEF Row, Status
  <2>2. /\ \A x \in Deliveries \ {d} : row'[x] = row[x]
        /\ row'[d] \in {row[d], r}
    BY <1>6, <1>12 DEF MarkAccepted
  <2> QED BY <1>4, <1>12, <2>1, <2>2 DEF MarkAccepted, OwnStep
<1>13. CASE RecordFailure(p)
  <2> DEFINE terminal == proc[p].permanent \/ proc[p].attempts >= Limit
             again == [Released(row[d], "queued") EXCEPT !.due = FALSE]
  <2>1. again.status = "queued" /\ again.attempts = row[d].attempts /\ again.lease = None
        /\ again.known = row[d].known
    BY <1>3 DEF Row, Status
  <2>2. ExactLease(p) \in BOOLEAN
    BY DEF ExactLease
  <2>3. /\ \A x \in Deliveries \ {d} : row'[x] = row[x]
        /\ row'[d] = IF ExactLease(p)
                     THEN IF terminal THEN Released(row[d], "failed") ELSE again
                     ELSE row[d]
    BY <1>6, <1>13, <2>2 DEF RecordFailure
  <2>4. ~terminal => proc[p].attempts < Limit
    BY <1>2, ConstantsAssumption DEF ProcState
  <2> QED BY <1>3, <1>4, <1>13, <2>1, <2>3, <2>4
          DEF RecordFailure, ExactLease, OwnStep, Unsent, Status
<1>14. CASE MarkProviderSuppressed(p)
  <2>1. ExactLease(p) \in BOOLEAN
    BY DEF ExactLease
  <2> QED BY <1>3, <1>4, <1>6, <1>14, <2>1
          DEF MarkProviderSuppressed, OwnStep, Unsent, Status
<1>15. CASE Crash(p)
  BY <1>4, <1>15 DEF Crash, OwnStep
<1> QED BY <1>7, <1>8, <1>9, <1>10, <1>11, <1>12, <1>13, <1>14, <1>15 DEF Worker

\* What a step that moves no consumer does to one row.
TableEffect(d) ==
    /\ UNCHANGED <<sends, answered, proc>> /\ row'[d].known = row[d].known
    /\ row'[d].attempts = row[d].attempts /\ row'[d].lease \in {row[d].lease, None}
    /\ \/ row'[d].status = row[d].status
       \/ /\ row[d].status = "absent" /\ row'[d].status = "queued"
          /\ enrollment[EnrollmentOf[d]] = "active" /\ UNCHANGED enrollment
       \/ row[d].status \in {"queued", "sending"} /\ row'[d].status = "cancelled"
       \/ row[d].status = "sending" /\ row'[d].status = "failed"
       \/ /\ row[d].status = "sending" /\ row'[d].status = "queued"
          /\ d \notin Emails /\ row[d].attempts < Limit /\ UNCHANGED enrollment
       \/ row'[d].status \in {"delivered", "failed"} /\ row[d].known

LEMMA TableStepEffect ==
    ASSUME TypeOK, TableStep, NEW d \in Deliveries
    PROVE  TableEffect(d)
<1>0. row \in [Deliveries -> Row] /\ row[d] \in Row /\ UNCHANGED proc
  BY DEF TypeOK, TableStep
<1>1. ASSUME NEW x \in Deliveries, Create(x) PROVE TableEffect(d)
  BY <1>0, <1>1 DEF Create, Row, TableEffect
<1>2. ASSUME NEW x \in Deliveries,
             Announce(x) \/ ScanDueDelivery(x) \/ ReplayDeadLetter(x)
      PROVE  TableEffect(d)
  BY <1>0, <1>2 DEF Announce, ScanDueDelivery, ReplayDeadLetter, TableEffect
<1>3. ASSUME NEW x \in Deliveries, BackoffElapses(x) \/ LeaseExpires(x) PROVE TableEffect(d)
  BY <1>0, <1>3 DEF BackoffElapses, LeaseExpires, Row, TableEffect
<1>4. ASSUME NEW x \in Deliveries, NEW k \in Events, ApplyEvent(x, k) PROVE TableEffect(d)
  <2>1. \A s \in Status : StatusAfter(k, s) \in {"delivered", "failed", s}
    BY DEF StatusAfter
  <2> QED BY <1>0, <1>4, <2>1 DEF ApplyEvent, Row, TableEffect
<1>5. ASSUME NEW tree \in SUBSET Enrollments, CancelEnrollment(tree) PROVE TableEffect(d)
  BY <1>0, <1>5 DEF CancelEnrollment, Row, TableEffect
<1>6. ASSUME NEW e \in Enrollments, EndEnrollment(e) PROVE TableEffect(d)
  BY <1>0, <1>6 DEF EndEnrollment, TableEffect
<1>7. CASE RecoverExpiredDeliveries
  <2>1. row'[d] = Recovered(d)
    BY <1>7 DEF RecoverExpiredDeliveries
  <2> QED BY <1>0, <1>7, <2>1, ReleasedOK
          DEF RecoverExpiredDeliveries, Recovered, TableEffect, Status
<1>8. ASSUME NEW c \in Contacts, ConsentChanges(c) PROVE TableEffect(d)
  BY <1>0, <1>8 DEF ConsentChanges, TableEffect
<1> QED BY <1>1, <1>2, <1>3, <1>4, <1>5, <1>6, <1>7, <1>8 DEF TableStep

\* A claim: the row leaves the queue for the consumer's fresh lease.
ClaimEffect(p, d) ==
    /\ UNCHANGED <<sends, answered, enrollment>>
    /\ row[d].status = "queued" /\ row'[d].status = "sending"
    /\ row'[d].known = row[d].known
    /\ \A x \in Deliveries \ {d} : row'[x] = row[x]
    /\ \A q \in Procs \ {p} : proc'[q] = proc[q] /\ proc[q].lease # row'[d].lease
    /\ proc'[p].pc = "check" /\ proc'[p].delivery = d
    /\ proc'[p].attempts = row'[d].attempts

LEMMA ClaimStepEffect ==
    ASSUME TypeOK, NEW p \in Procs, NEW d \in Deliveries, Claim(p, d)
    PROVE  ClaimEffect(p, d)
<1>1. PICK l \in Leases :
        /\ Fresh(l)
        /\ row' = [row EXCEPT ![d].status = "sending", ![d].lease = l,
                              ![d].expired = FALSE, ![d].due = TRUE, ![d].attempts = @ + 1]
        /\ proc' = [proc EXCEPT ![p] =
             [Idle EXCEPT !.pc = "check", !.delivery = d, !.lease = l,
                          !.attempts = row[d].attempts + 1]]
  BY DEF Claim
<1>2. row \in [Deliveries -> Row] /\ proc \in [Procs -> ProcState] /\ row[d] \in Row
  BY DEF TypeOK
<1>3. row'[d].status = "sending" /\ row'[d].lease = l /\ row'[d].known = row[d].known
      /\ row'[d].attempts = row[d].attempts + 1
  BY <1>1, <1>2 DEF Row
<1>4. \A x \in Deliveries \ {d} : row'[x] = row[x]
  BY <1>1, <1>2
<1>5. /\ proc'[p].pc = "check" /\ proc'[p].delivery = d
      /\ proc'[p].attempts = row[d].attempts + 1
      /\ \A q \in Procs \ {p} : proc'[q] = proc[q]
  BY <1>1, <1>2 DEF Idle
<1>6. row[d].status = "queued" /\ UNCHANGED <<sends, answered, enrollment>>
  BY DEF Claim, Claimable
<1>7. \A q \in Procs : proc[q].lease # l
  BY <1>1 DEF Fresh
<1> QED BY <1>3, <1>4, <1>5, <1>6, <1>7 DEF ClaimEffect

-----------------------------------------------------------------------------
(* The inductive invariant                                                 *)

\* An email has one attempt at a time, none while it may be claimed or was
\* suppressed; once a send was answered, no attempt that could send is left.
OneAttempt(d) ==
    /\ \A p, q \in Procs : proc[p].delivery = d /\ proc[q].delivery = d => p = q
    /\ row[d].status \in {"absent", "queued", "suppressed"}
         => d \notin answered /\ \A p \in Procs : proc[p].delivery # d
    /\ \A p \in Procs : proc[p].delivery = d /\ proc[p].pc \in Unsent => d \notin answered

EmailInv == \A d \in Emails : OneAttempt(d)

\* A consumer about to record the acceptance has it.
AnswerInv ==
    /\ \A d \in Deliveries :
         row[d].known \/ row[d].status \in {"accepted", "delivered"} => d \in answered
    /\ \A p \in Procs : proc[p].pc = "accept" => proc[p].delivery \in answered

\* The attempts a consumer decides by are those of the row it holds.
AttemptInv ==
    /\ \A d \in Deliveries :
         row[d].status \in {"absent", "queued"} => row[d].attempts < Limit
    /\ \A p \in Procs :
         proc[p].pc # "idle" /\ row[proc[p].delivery].lease = proc[p].lease
           => proc[p].attempts = row[proc[p].delivery].attempts

OInv == TypeOK /\ EmailInv /\ AnswerInv /\ AttemptInv /\ NoOpenDeliveryOfCancelled

LEMMA NotNone == None \notin Deliveries /\ None \notin Leases /\ Idle.delivery = None
BY ConstantsAssumption DEF Idle

LEMMA IdleFields == Idle.pc = "idle" /\ "idle" \notin Unsent
BY DEF Idle, Unsent

LEMMA InitOInv == Init => OInv
<1> SUFFICES ASSUME Init PROVE OInv
  OBVIOUS
<1>1. TypeOK
  BY InitType
<1>2. /\ \A d \in Deliveries : row[d].status = "absent" /\ row[d].attempts = 0 /\ ~row[d].known
      /\ answered = {}
      /\ \A p \in Procs : proc[p].delivery = None /\ proc[p].pc = "idle"
  BY NotNone, IdleFields DEF Init, Absent
<1>3. EmailInv
  <2>1. \A d \in Emails : /\ d \in Deliveries
                          /\ \A p \in Procs : proc[p].delivery # d
    BY <1>2, NotNone, ConstantsAssumption
  <2> QED BY <1>2, <2>1 DEF EmailInv, OneAttempt
<1>4. AnswerInv /\ AttemptInv /\ NoOpenDeliveryOfCancelled
  BY <1>2, NotNone, ConstantsAssumption DEF AnswerInv, AttemptInv, NoOpenDeliveryOfCancelled
<1> QED BY <1>1, <1>3, <1>4 DEF OInv

\* A cancellation closes the rows it finds; no other step of the tables
\* opens one of an enrollment that is cancelled.
LEMMA TableCancelled ==
    ASSUME OInv, TableStep, \A d \in Deliveries : TableEffect(d)
    PROVE  NoOpenDeliveryOfCancelled'
<1>0. /\ row \in [Deliveries -> Row]
      /\ enrollment \in [Enrollments -> {"active", "ended", "cancelled"}]
      /\ \A d \in Deliveries : EnrollmentOf[d] \in Enrollments
      /\ NoOpenDeliveryOfCancelled
  BY ConstantsAssumption DEF OInv, TypeOK
<1>1. CASE UNCHANGED enrollment
  BY <1>0, <1>1 DEF TableEffect, NoOpenDeliveryOfCancelled
<1>2. ASSUME NEW tree \in SUBSET Enrollments, CancelEnrollment(tree)
      PROVE  NoOpenDeliveryOfCancelled'
  <2> SUFFICES ASSUME NEW d \in Deliveries, enrollment'[EnrollmentOf[d]] = "cancelled"
               PROVE  row'[d].status \notin {"queued", "sending"}
    BY DEF NoOpenDeliveryOfCancelled
  <2>1. CASE EnrollmentOf[d] \in tree
    BY <1>0, <1>2, <2>1 DEF CancelEnrollment, Row
  <2>2. CASE EnrollmentOf[d] \notin tree
    BY <1>0, <1>2, <2>2 DEF CancelEnrollment, NoOpenDeliveryOfCancelled
  <2> QED BY <2>1, <2>2
<1>3. ASSUME NEW e \in Enrollments, EndEnrollment(e) PROVE NoOpenDeliveryOfCancelled'
  BY <1>0, <1>3 DEF EndEnrollment, NoOpenDeliveryOfCancelled
<1> QED BY <1>1, <1>2, <1>3
        DEF TableStep, Create, Announce, ScanDueDelivery, ReplayDeadLetter,
            BackoffElapses, LeaseExpires, ApplyEvent, ConsentChanges,
            RecoverExpiredDeliveries

\* A step of the tables keeps the invariant.
LEMMA TableInv ==
    ASSUME OInv, TableStep, TypeOK'
    PROVE  OInv'
<1>1. \A d \in Deliveries : TableEffect(d)
  BY TableStepEffect DEF OInv
<1>2. UNCHANGED proc
  BY DEF TableStep
<1>3. EmailInv'
  <2> SUFFICES ASSUME NEW d \in Emails PROVE OneAttempt(d)'
    BY DEF EmailInv
  <2>1. d \in Deliveries /\ TableEffect(d) /\ OneAttempt(d)
    BY <1>1, ConstantsAssumption DEF OInv, EmailInv
  <2> QED BY <1>2, <2>1 DEF TableEffect, OneAttempt
<1>4. AnswerInv'
  <2>1. ASSUME NEW d \in Deliveries,
               row'[d].known \/ row'[d].status \in {"accepted", "delivered"}
        PROVE  d \in answered' /\ answered' = answered
    BY <1>1, <2>1 DEF TableEffect, AnswerInv, OInv
  <2>2. \A p \in Procs : proc[p].pc = "accept" => proc[p].delivery \in answered'
    BY <1>1, Consumer DEF TableEffect, AnswerInv, OInv
  <2> QED BY <1>2, <2>1, <2>2 DEF AnswerInv
<1>5. AttemptInv'
  <2>1. \A d \in Deliveries :
          (row[d].status \in {"absent", "queued"} => row[d].attempts < Limit)'
    BY <1>1 DEF TableEffect, OInv, AttemptInv
  <2>2. ASSUME NEW p \in Procs, proc[p].pc # "idle",
               row'[proc[p].delivery].lease = proc[p].lease
        PROVE  proc[p].attempts = row'[proc[p].delivery].attempts
    BY <1>1, <2>2, Consumer, NotNone DEF TableEffect, OInv, AttemptInv
  <2> QED BY <1>2, <2>1, <2>2 DEF AttemptInv
<1>6. NoOpenDeliveryOfCancelled'
  BY <1>1, TableCancelled DEF OInv
<1> QED BY <1>3, <1>4, <1>5, <1>6 DEF OInv

\* So does a claim.
LEMMA ClaimInv ==
    ASSUME OInv, NEW p \in Procs, NEW d \in Deliveries, Claim(p, d), TypeOK'
    PROVE  OInv'
<1>1. ClaimEffect(p, d)
  BY ClaimStepEffect DEF OInv
<1>2. row[d].status = "queued" /\ row'[d].status = "sending" /\ answered' = answered
      /\ row'[d].known = row[d].known
      /\ \A x \in Deliveries \ {d} : row'[x] = row[x]
  BY <1>1 DEF ClaimEffect
<1>3. /\ \A q \in Procs \ {p} : proc'[q] = proc[q] /\ proc[q].lease # row'[d].lease
      /\ proc'[p].pc = "check" /\ proc'[p].delivery = d
      /\ proc'[p].attempts = row'[d].attempts
  BY <1>1 DEF ClaimEffect
<1>4. EmailInv'
  <2> SUFFICES ASSUME NEW x \in Emails PROVE OneAttempt(x)'
    BY DEF EmailInv
  <2>1. x \in Deliveries /\ OneAttempt(x)
    BY ConstantsAssumption DEF OInv, EmailInv
  <2>2. proc[p].delivery # x
    BY NotNone, <2>1 DEF Claim, OInv, TypeOK
  <2>3. CASE x = d
    BY <1>2, <1>3, <2>1, <2>3 DEF OneAttempt
  <2>4. CASE x # d
    <3>1. \A q \in Procs : (proc'[q].delivery = x <=> proc[q].delivery = x)
                           /\ (proc[q].delivery = x => proc'[q] = proc[q])
      BY <1>3, <2>2, <2>4
    <3>2. row'[x] = row[x] /\ answered' = answered
      BY <1>2, <2>1, <2>4
    <3> QED BY <2>1, <3>1, <3>2 DEF OneAttempt
  <2> QED BY <2>3, <2>4
<1>5. AnswerInv'
  BY <1>2, <1>3 DEF AnswerInv, OInv
<1>6. AttemptInv'
  <2>1. \A x \in Deliveries :
          (row[x].status \in {"absent", "queued"} => row[x].attempts < Limit)'
    BY <1>2 DEF OInv, AttemptInv
  <2>2. ASSUME NEW q \in Procs, proc'[q].pc # "idle",
               row'[proc'[q].delivery].lease = proc'[q].lease
        PROVE  proc'[q].attempts = row'[proc'[q].delivery].attempts
    <3>1. CASE q = p
      BY <1>3, <3>1
    <3>2. CASE q # p
      <4>1. proc'[q] = proc[q] /\ proc[q].delivery \in Deliveries /\ proc[q].delivery # d
        BY <1>3, <2>2, <3>2, Consumer DEF OInv
      <4> QED BY <1>2, <2>2, <4>1 DEF OInv, AttemptInv
    <3> QED BY <3>1, <3>2
  <2> QED BY <2>1, <2>2 DEF AttemptInv
<1>7. NoOpenDeliveryOfCancelled'
  <2>1. UNCHANGED enrollment
    BY <1>1 DEF ClaimEffect
  <2> QED BY <1>2, <2>1 DEF OInv, NoOpenDeliveryOfCancelled
<1> QED BY <1>4, <1>5, <1>6, <1>7 DEF OInv

\* And a step of a consumer on the row of its attempt.
LEMMA WorkerInv ==
    ASSUME OInv, NEW p \in Procs, Worker(p) \/ Crash(p), TypeOK'
    PROVE  OInv'
<1> DEFINE d == proc[p].delivery
<1>1. OwnStep(p)
  BY WorkerOwnStep DEF OInv
<1>2. proc[p].pc # "idle"
  BY DEF Worker, Crash, CheckCancelled, Gate, MarkSuppressed, SendAccepted, SendUnanswered,
       SendFails,
         MarkAccepted, RecordFailure, MarkProviderSuppressed
<1>3. d \in Deliveries /\ row[d] \in Row /\ proc[p] \in ProcState
  BY <1>2, Consumer DEF OInv, TypeOK
<1>4. /\ \A x \in Deliveries \ {d} : row'[x] = row[x] /\ (x \in answered' <=> x \in answered)
      /\ \A q \in Procs \ {p} : proc'[q] = proc[q]
      /\ UNCHANGED enrollment
      /\ row'[d].attempts = row[d].attempts /\ row'[d].lease \in {row[d].lease, None}
  BY <1>1 DEF OwnStep
<1>5. proc'[p] = Idle \/ (proc'[p].delivery = d /\ proc'[p].lease = proc[p].lease
                           /\ proc'[p].attempts = proc[p].attempts)
  BY <1>1 DEF OwnStep
<1>6. EmailInv'
  <2> SUFFICES ASSUME NEW x \in Emails PROVE OneAttempt(x)'
    BY DEF EmailInv
  <2>1. x \in Deliveries /\ OneAttempt(x)
    BY ConstantsAssumption DEF OInv, EmailInv
  <2>2. CASE x # d
    <3>1. \A q \in Procs : (proc'[q].delivery = x <=> proc[q].delivery = x)
                           /\ (proc[q].delivery = x => proc'[q] = proc[q])
      BY <1>4, <1>5, <2>1, <2>2, NotNone
    <3>2. row'[x] = row[x] /\ (x \in answered' <=> x \in answered)
      BY <1>4, <2>1, <2>2
    <3> QED BY <2>1, <3>1, <3>2 DEF OneAttempt
  <2>3. CASE x = d
    <3>1. \A q \in Procs \ {p} : proc'[q].delivery # d
      BY <1>4, <2>1, <2>3 DEF OneAttempt
    <3>2. row[d].status \notin {"absent", "queued", "suppressed"}
      BY <2>1, <2>3 DEF OneAttempt
    <3>3. CASE /\ proc[p].pc \in Unsent /\ proc'[p].pc \in Unsent
               /\ answered' = answered /\ row'[d] = row[d]
      BY <2>1, <2>3, <3>1, <3>2, <3>3 DEF OneAttempt
    <3>4. CASE /\ proc[p].pc = "send" /\ proc'[p].pc = "accept"
               /\ answered' = answered \cup {d} /\ row'[d] = row[d]
      BY <1>3, <2>1, <2>3, <3>1, <3>2, <3>4 DEF OneAttempt, Unsent
    <3>5. CASE proc'[p] = Idle /\ answered' = answered
      <4>1. \A q \in Procs : proc'[q].delivery # d
        BY <1>3, <3>1, <3>5, NotNone
      <4>2. row'[d].status \in {"absent", "queued", "suppressed"} => d \notin answered
        BY <1>1, <2>1, <2>3, <3>2 DEF OwnStep, OneAttempt, Unsent
      <4> QED BY <2>1, <2>3, <3>5, <4>1, <4>2 DEF OneAttempt
    <3> QED BY <1>1, <3>3, <3>4, <3>5 DEF OwnStep
  <2> QED BY <2>2, <2>3
<1>7. answered \subseteq answered'
  BY <1>1 DEF OwnStep
<1>8. AnswerInv'
  <2>1. ASSUME NEW x \in Deliveries,
               row'[x].known \/ row'[x].status \in {"accepted", "delivered"}
        PROVE  x \in answered'
    <3>1. x \in answered
      BY <1>1, <1>4, <2>1 DEF OwnStep, AnswerInv, OInv
    <3> QED BY <1>7, <3>1
  <2>2. ASSUME NEW q \in Procs, proc'[q].pc = "accept"
        PROVE  proc'[q].delivery \in answered'
    <3>1. CASE q # p
      <4>1. proc'[q] = proc[q]
        BY <1>4, <3>1
      <4> QED BY <1>7, <2>2, <4>1 DEF AnswerInv, OInv
    <3>2. CASE q = p
      BY <1>1, <2>2, <3>2, IdleFields DEF OwnStep, Unsent
    <3> QED BY <3>1, <3>2
  <2> QED BY <2>1, <2>2 DEF AnswerInv
<1>9. AttemptInv'
  <2>1. ASSUME NEW x \in Deliveries, row'[x].status \in {"absent", "queued"}
        PROVE  row'[x].attempts < Limit
    <3>1. CASE x # d \/ row'[x] = row[x]
      BY <1>4, <2>1, <3>1 DEF AttemptInv, OInv
    <3>2. CASE x = d /\ row'[x] # row[x]
      <4>1. row[d].lease = proc[p].lease /\ proc[p].attempts < Limit
        BY <1>1, <2>1, <3>2 DEF OwnStep
      <4> QED BY <1>2, <1>4, <3>2, <4>1 DEF AttemptInv, OInv
    <3> QED BY <3>1, <3>2
  <2>2. ASSUME NEW q \in Procs, proc'[q].pc # "idle",
               row'[proc'[q].delivery].lease = proc'[q].lease
        PROVE  proc'[q].attempts = row'[proc'[q].delivery].attempts
    <3>1. /\ proc'[q].delivery = proc[q].delivery /\ proc'[q].lease = proc[q].lease
          /\ proc'[q].attempts = proc[q].attempts /\ proc[q].pc # "idle"
      BY <1>2, <1>4, <1>5, <2>2, IdleFields
    <3>2. proc[q].delivery \in Deliveries /\ proc[q].lease # None
      BY <3>1, Consumer, NotNone DEF OInv
    <3>3. row[proc[q].delivery].lease = proc[q].lease
          /\ row'[proc[q].delivery].attempts = row[proc[q].delivery].attempts
      BY <1>4, <2>2, <3>1, <3>2
    <3> QED BY <3>1, <3>3 DEF AttemptInv, OInv
  <2> QED BY <2>1, <2>2 DEF AttemptInv
<1>10. NoOpenDeliveryOfCancelled'
  <2>1. ASSUME NEW x \in Deliveries, row'[x].status \in {"queued", "sending"}
        PROVE  row[x].status \in {"queued", "sending"}
    BY <1>1, <1>4, <2>1 DEF OwnStep
  <2> QED BY <1>4, <2>1 DEF NoOpenDeliveryOfCancelled, OInv
<1> QED BY <1>6, <1>8, <1>9, <1>10 DEF OInv

LEMMA NextOInv == ASSUME OInv, [Next]_vars PROVE OInv'
<1>1. TypeOK'
  BY NextType DEF OInv
<1>2. ASSUME UNCHANGED <<row, enrollment, answered, proc>> PROVE OInv'
  BY <1>1, <1>2 DEF OInv, EmailInv, OneAttempt, AnswerInv, AttemptInv,
                    NoOpenDeliveryOfCancelled
<1>3. ASSUME NEW p \in Procs, NEW d \in Deliveries, ClaimNothing(p, d) \/ ClaimFails(p, d)
      PROVE  OInv'
  BY <1>2, <1>3 DEF ClaimNothing, ClaimFails
<1>4. CASE UNCHANGED vars
  BY <1>2, <1>4 DEF vars
<1> QED BY <1>1, <1>3, <1>4, Steps, TableInv, ClaimInv, WorkerInv

LEMMA AlwaysOInv == Spec => []OInv
<1>1. Init => OInv
  BY InitOInv
<1>2. OInv /\ [Next]_vars => OInv'
  BY NextOInv
<1> QED BY <1>1, <1>2, PTL DEF Spec

-----------------------------------------------------------------------------
(* Theorems                                                                *)

\* An email whose send was answered with a message id is not sent again,
\* whatever claimDelivery, recordFailure, stale recovery and replay do around
\* a duplicate message and whether or not the acceptance was written.
THEOREM AnsweredOnce == Spec => AnsweredEmailIsLast
<1> DEFINE Last(d) == d \in answered => sends'[d] = sends[d]
<1>1. ASSUME OInv, [Next]_vars, NEW d \in Emails, d \in answered PROVE sends'[d] = sends[d]
  <2>1. d \in Deliveries /\ OneAttempt(d)
    BY <1>1, ConstantsAssumption DEF OInv, EmailInv
  <2>2. ASSUME NEW p \in Procs, Worker(p) \/ Crash(p) PROVE sends'[d] = sends[d]
    <3>1. OwnStep(p)
      BY <1>1, <2>2, WorkerOwnStep DEF OInv
    <3>2. CASE proc[p].delivery = d
      BY <1>1, <2>1, <3>1, <3>2 DEF OwnStep, OneAttempt, Unsent
    <3>3. CASE proc[p].delivery # d
      BY <2>1, <3>1, <3>3 DEF OwnStep
    <3> QED BY <3>2, <3>3
  <2>3. CASE TableStep
    BY <1>1, <2>1, <2>3, TableStepEffect DEF TableEffect, OInv
  <2> QED BY <1>1, <2>2, <2>3, Steps DEF Claim, ClaimNothing, ClaimFails, vars
<1>2. OInv /\ [Next]_vars => [\A d \in Emails : Last(d)]_vars
  BY <1>1
<1> QED BY <1>2, AlwaysOInv, PTL DEF Spec, AnsweredEmailIsLast

\* What a row says of its message is what the provider answered.
THEOREM RowsTruthful == Spec => []StatusTruthful
<1>1. OInv => StatusTruthful
  <2> SUFFICES ASSUME OInv, NEW d \in Deliveries
               PROVE  /\ row[d].known \/ row[d].status \in {"accepted", "delivered"}
                           => d \in answered
                      /\ d \in Emails \cap answered =>
                           row[d].status \in {"sending", "accepted", "delivered",
                                              "failed", "cancelled"}
    BY DEF StatusTruthful
  <2>1. row[d].status \in Status
    BY DEF OInv, TypeOK, Row
  <2>2. d \in Emails => (row[d].status \in {"absent", "queued", "suppressed"} => d \notin answered)
    BY DEF OInv, EmailInv, OneAttempt
  <2> QED BY <2>1, <2>2 DEF OInv, AnswerInv, Status
<1> QED BY <1>1, AlwaysOInv, PTL

\* A queued row has an attempt left, so the scan and the claim accept it.
THEOREM QueuedHasAttempt == Spec => []QueuedIsClaimable
<1>1. OInv => QueuedIsClaimable
  BY DEF OInv, AttemptInv, QueuedIsClaimable
<1> QED BY <1>1, AlwaysOInv, PTL

\* Cancelling an enrollment closes its messages for good.
THEOREM CancelledStaysClosed == Spec => []NoOpenDeliveryOfCancelled
<1>1. OInv => NoOpenDeliveryOfCancelled
  BY DEF OInv
<1> QED BY <1>1, AlwaysOInv, PTL

-----------------------------------------------------------------------------
(* Who closes a row                                                        *)

\* A row with a message id is closed: no provider event meets one being sent.
KnownInv ==
    \A d \in Deliveries :
        row[d].known => row[d].status \in {"accepted", "delivered", "failed"}

\* A consumer that changes a row holds its lease and lets go of it.
LEMMA WorkerCloses ==
    ASSUME TypeOK, NEW p \in Procs, Worker(p) \/ Crash(p),
           NEW d \in Deliveries, row'[d] # row[d]
    PROVE  /\ proc[p].delivery = d /\ proc[p].lease = row[d].lease /\ proc'[p] # proc[p]
           /\ row[d].status \in {"sending", "cancelled"}
           /\ row'[d].known => row[d].known \/ row'[d].status = "accepted"
           /\ row'[d].status # row[d].status =>
                row[d].status = "sending" \/ row'[d].status = "accepted"
<1>1. row \in [Deliveries -> Row] /\ row[d] \in Row /\ proc \in [Procs -> ProcState]
  BY DEF TypeOK
<1>2. ASSUME NEW r, NEW condition \in BOOLEAN, UpdateIf(p, condition, r)
      PROVE  proc[p].delivery = d /\ condition /\ row'[d] = r
  BY <1>1, <1>2 DEF UpdateIf
<1>3. ASSUME Return(p), proc[p].pc # "idle" PROVE proc'[p] # proc[p]
  BY <1>1, <1>3 DEF Return, Idle
<1>4. \A s : Released(row[d], s).known = row[d].known
  BY <1>1 DEF Released, Row
<1>5. CASE CheckCancelled(p)
  <2> DEFINE x == proc[p].delivery
             closed == /\ row[x].lease = proc[p].lease
                       /\ \/ row[x].status = "cancelled"
                          \/ /\ row[x].status = "sending"
                             /\ enrollment[EnrollmentOf[x]] = "cancelled"
  <2>1. UpdateIf(p, closed, Released(row[x], "cancelled")) /\ closed \in BOOLEAN
    BY <1>5 DEF CheckCancelled
  <2>2. x = d /\ closed /\ row'[d] = Released(row[x], "cancelled")
    BY <1>2, <2>1
  <2>3. Return(p) /\ proc[p].pc # "idle"
    BY <1>5, <2>2 DEF CheckCancelled
  <2>4. row'[d].status = "cancelled"
    BY <1>1, <2>2 DEF Released, Row
  <2> QED BY <1>1, <1>3, <1>4, <2>2, <2>3, <2>4
<1>6. CASE MarkSuppressed(p)
  BY <1>1, <1>2, <1>3, <1>4, <1>6 DEF MarkSuppressed, ExactLease
<1>7. CASE MarkAccepted(p)
  <2> DEFINE r == [Released(row[d], "accepted") EXCEPT !.known = TRUE]
             condition == /\ row[proc[p].delivery].lease = proc[p].lease
                          /\ row[proc[p].delivery].status \in {"sending", "cancelled"}
  <2>1. UpdateIf(p, condition, [Released(row[proc[p].delivery], "accepted") EXCEPT !.known = TRUE])
        /\ condition \in BOOLEAN
    BY <1>7 DEF MarkAccepted
  <2>2. proc[p].delivery = d /\ condition /\ row'[d] = r
    BY <1>2, <2>1
  <2>3. r.status = "accepted"
    BY <1>1 DEF Released, Row
  <2>4. Return(p) /\ proc[p].pc # "idle"
    BY <1>7 DEF MarkAccepted
  <2> QED BY <1>3, <2>2, <2>3, <2>4
<1>8. CASE RecordFailure(p)
  <2> DEFINE terminal == proc[p].permanent \/ proc[p].attempts >= Limit
             r == IF terminal THEN Released(row[proc[p].delivery], "failed")
                  ELSE [Released(row[proc[p].delivery], "queued") EXCEPT !.due = FALSE]
  <2>1. UpdateIf(p, ExactLease(p), r) /\ ExactLease(p) \in BOOLEAN
    BY <1>8 DEF RecordFailure, ExactLease
  <2>2. Return(p) /\ proc[p].pc # "idle" BY <1>8 DEF RecordFailure
  <2>3. proc[p].delivery = d /\ ExactLease(p) /\ row'[d] = r
    <3> HIDE DEF r
    <3> QED BY <1>2, <2>1
  <2>4. r.known = row[d].known BY <1>1, <2>3 DEF Released, Row
  <2> HIDE DEF r
  <2> QED BY <1>3, <2>2, <2>3, <2>4 DEF ExactLease
<1>9. CASE MarkProviderSuppressed(p)
  BY <1>1, <1>2, <1>3, <1>4, <1>9 DEF MarkProviderSuppressed, ExactLease
<1> QED BY <1>5, <1>6, <1>7, <1>8, <1>9
        DEF Worker, Crash, Gate, SendAccepted, SendUnanswered, SendFails

\* A step of anyone else touches no message id, moves only open rows except
\* by a provider event, and closes a row being sent only after its lease.
LEMMA TableKnown ==
    ASSUME TypeOK, TableStep, NEW d \in Deliveries, row'[d] # row[d]
    PROVE  /\ row'[d].known = row[d].known
           /\ \/ row'[d].status = row[d].status
              \/ row[d].status \in {"absent", "queued", "sending"}
              \/ row'[d].status \in {"delivered", "failed"}
           /\ row[d].status = "sending" =>
                row[d].expired \/ row[d].known \/ row'[d].status \in {"sending", "cancelled"}
<1>1. row \in [Deliveries -> Row] /\ row[d] \in Row
  BY DEF TypeOK
<1>2. ASSUME NEW x \in Deliveries, Create(x) \/ BackoffElapses(x) \/ LeaseExpires(x)
      PROVE  /\ row'[d].known = row[d].known
             /\ row'[d].status = row[d].status \/ row[d].status = "absent"
  BY <1>1, <1>2 DEF Create, BackoffElapses, LeaseExpires, Row
<1>3. ASSUME NEW x \in Deliveries, NEW k \in Events, ApplyEvent(x, k)
      PROVE  /\ row[d].known /\ row'[d].known
             /\ \/ row'[d].status = row[d].status
                \/ row'[d].status \in {"delivered", "failed"}
  BY <1>1, <1>3 DEF ApplyEvent, StatusAfter, Row
<1>4. ASSUME NEW tree \in SUBSET Enrollments, CancelEnrollment(tree)
      PROVE  /\ row'[d].known = row[d].known
             /\ row[d].status \in {"queued", "sending"} /\ row'[d].status = "cancelled"
  BY <1>1, <1>4 DEF CancelEnrollment, Row
<1>5. CASE RecoverExpiredDeliveries
  <2>1. row'[d] = Recovered(d) /\ row[d].status = "sending" /\ row[d].expired
    BY <1>5 DEF RecoverExpiredDeliveries, Recovered
  <2>2. row'[d].known = row[d].known
    BY <1>1, <2>1 DEF Recovered, Released, Row
  <2> QED BY <2>1, <2>2
<1>6. /\ \A x \in Deliveries : ~Announce(x) /\ ~ScanDueDelivery(x) /\ ~ReplayDeadLetter(x)
      /\ \A e \in Enrollments : ~EndEnrollment(e)
      /\ \A c \in Contacts : ~ConsentChanges(c)
  BY DEF Announce, ScanDueDelivery, ReplayDeadLetter, EndEnrollment, ConsentChanges
<1> QED BY <1>1, <1>2, <1>3, <1>4, <1>5, <1>6 DEF TableStep, Row

LEMMA NextKnownInv == ASSUME TypeOK, KnownInv, [Next]_vars PROVE KnownInv'
<1> SUFFICES ASSUME NEW d \in Deliveries, row'[d].known, row'[d] # row[d]
             PROVE  row'[d].status \in {"accepted", "delivered", "failed"}
  BY DEF KnownInv
<1>1. row \in [Deliveries -> Row] /\ row[d] \in Row
  BY DEF TypeOK
<1>2. ASSUME NEW p \in Procs, Worker(p) \/ Crash(p)
      PROVE  row'[d].status \in {"accepted", "delivered", "failed"}
  BY <1>2, WorkerCloses DEF KnownInv
<1>3. CASE TableStep
  BY <1>3, TableKnown DEF KnownInv
<1>4. ASSUME NEW p \in Procs, NEW x \in Deliveries, Claim(p, x) PROVE FALSE
  <2>1. row'[d].known = row[d].known /\ row[d].status = "queued"
    BY <1>1, <1>4 DEF Claim, Claimable, Row
  <2> QED BY <2>1 DEF KnownInv
<1> QED BY <1>2, <1>3, <1>4, Steps DEF ClaimNothing, ClaimFails, vars

LEMMA AlwaysKnownInv == Spec => [](TypeOK /\ KnownInv)
<1>1. Init => TypeOK /\ KnownInv
  BY InitType DEF Init, KnownInv, Absent
<1>2. TypeOK /\ KnownInv /\ [Next]_vars => (TypeOK /\ KnownInv)'
  BY NextType, NextKnownInv
<1> QED BY <1>1, <1>2, PTL DEF Spec

\* While its lease lasts, a row that is being sent is closed, or given back,
\* by the attempt that holds it: markAccepted, recordFailure and the other
\* statements of an attempt that was overtaken change nothing.
THEOREM HolderCloses == Spec => OnlyHolderCloses
<1> DEFINE Closed(d) == /\ row[d].status = "sending" /\ ~row[d].expired
                        /\ row'[d].status \notin {"sending", "cancelled"}
           Holder(d) == \E p \in Procs : /\ proc[p].delivery = d /\ proc[p].lease = row[d].lease
                                         /\ proc'[p] # proc[p]
<1>1. ASSUME TypeOK, KnownInv, [Next]_vars, NEW d \in Deliveries, Closed(d)
      PROVE  Holder(d)
  <2>1. row \in [Deliveries -> Row] /\ row[d] \in Row /\ row'[d] # row[d]
    BY <1>1 DEF TypeOK
  <2>2. ASSUME NEW p \in Procs, Worker(p) \/ Crash(p) PROVE Holder(d)
    BY <1>1, <2>1, <2>2, WorkerCloses
  <2>3. ~TableStep
    BY <1>1, <2>1, TableKnown DEF KnownInv
  <2>4. ASSUME NEW p \in Procs, NEW x \in Deliveries, Claim(p, x) PROVE FALSE
    BY <1>1, <2>1, <2>4 DEF Claim, Claimable
  <2> QED BY <1>1, <2>1, <2>2, <2>3, <2>4, Steps DEF ClaimNothing, ClaimFails, vars
<1>2. TypeOK /\ KnownInv /\ [Next]_vars => [\A d \in Deliveries : Closed(d) => Holder(d)]_vars
  BY <1>1
<1> QED BY <1>2, AlwaysKnownInv, PTL DEF Spec, OnlyHolderCloses
=============================================================================
