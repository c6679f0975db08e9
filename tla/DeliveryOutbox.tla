--------------------------- MODULE DeliveryOutbox ---------------------------
(***************************************************************************)
(* The outbox of messages an automation sends: the deliveries table, the   *)
(* delivery queue, the worker that claims a row and calls the provider,    *)
(* stale-send recovery, cancellation, and the events the email provider    *)
(* reports afterwards.                                                     *)
(*                                                                         *)
(* One D1 statement or batch is one action, and the call to the provider   *)
(* is one: between two of them other workers, the clock, a cancellation    *)
(* or a crash may come in.                                                 *)
(***************************************************************************)
EXTENDS Integers, FiniteSets

CONSTANTS
    Deliveries,    \* idempotency keys of the rows that may be inserted
    Emails,        \* those on the email channel; the others are webhooks
    Enrollments, EnrollmentOf,   \* the enrollment a delivery belongs to
    Contacts, ContactOf,         \* the contact it is addressed to
    Leases,        \* lease ids; one nobody refers to stands for a fresh uuidv7
    Procs,         \* delivery queue consumers
    Events,        \* kinds of provider events that arrive
    Limit,         \* DELIVERY_ATTEMPT_LIMIT, 5 in the code
    MaxDeliveries, \* bound: how many of the rows are inserted in one behaviour
    None

EventKinds == {"delivered", "deferred", "bounced", "failed", "rejected", "complained"}

ASSUME ConstantsAssumption ==
    /\ Emails \subseteq Deliveries
    /\ EnrollmentOf \in [Deliveries -> Enrollments]
    /\ ContactOf \in [Deliveries -> Contacts]
    /\ Events \subseteq EventKinds
    /\ Limit \in Nat \ {0}
    /\ None \notin Leases \cup Deliveries

VARIABLES
    row,          \* deliveries, by idempotency key
    enrollment,   \* automation_enrollments.status
    refused,      \* contacts with a suppression by the provider
    stopped,      \* contacts that unsubscribed or are archived
    announcing,   \* rows whose job worker has yet to call DELIVERY_QUEUE.send
    queue,        \* deliveries with a message that may be delivered
    dead,         \* deliveries with a dead letter that may be replayed
    sends,        \* times the provider accepted the message of a delivery
    answered,     \* history: deliveries with a send that returned a message id
    recorded,     \* delivery_events of the provider: <<delivery, kind>>
    proc          \* what each consumer holds between two awaits

vars == <<row, enrollment, refused, stopped, announcing, queue, dead, sends, answered, recorded,
          proc>>

Status == {"absent", "queued", "sending", "accepted", "delivered", "failed",
           "suppressed", "cancelled"}

Row == [status : Status, attempts : 0 .. Limit, lease : Leases \cup {None},
        expired : BOOLEAN,   \* lease_expires_at <= now
        due : BOOLEAN,       \* next_attempt_at is null or <= now
        known : BOOLEAN]     \* provider_message_id is set

Absent == [status |-> "absent", attempts |-> 0, lease |-> None,
           expired |-> FALSE, due |-> TRUE, known |-> FALSE]

PC == {"idle", "check", "gate", "suppress", "send", "accept", "failure", "bounce"}

ProcState == [pc : PC, delivery : Deliveries \cup {None}, lease : Leases \cup {None},
              attempts : 0 .. Limit, permanent : BOOLEAN]

Idle == [pc |-> "idle", delivery |-> None, lease |-> None, attempts |-> 0,
         permanent |-> FALSE]

Init ==
    /\ row = [d \in Deliveries |-> Absent]
    /\ enrollment = [e \in Enrollments |-> "active"]
    /\ refused = {} /\ stopped = {}
    /\ announcing = {}
    /\ queue = {}
    /\ dead = {}
    /\ sends = [d \in Deliveries |-> 0] /\ answered = {}
    /\ recorded = {}
    /\ proc = [p \in Procs |-> Idle]

-----------------------------------------------------------------------------
(* What the statements share.                                              *)

\* SET status, lease_id = NULL, lease_expires_at = NULL, next_attempt_at = NULL
Released(r, s) ==
    [r EXCEPT !.status = s, !.lease = None, !.expired = FALSE, !.due = TRUE]

Fresh(l) ==
    /\ \A d \in Deliveries : row[d].lease # l
    /\ \A p \in Procs : proc[p].lease # l

\* exactDeliveryLease
ExactLease(p) ==
    /\ row[proc[p].delivery].status = "sending"
    /\ row[proc[p].delivery].lease = proc[p].lease

\* A statement WHERE condition of the delivery p works on.
UpdateIf(p, condition, r) ==
    row' = IF condition THEN [row EXCEPT ![proc[p].delivery] = r] ELSE row

Goto(p, pc) == proc' = [proc EXCEPT ![p].pc = pc]
Return(p) == proc' = [proc EXCEPT ![p] = Idle]

\* message.ack(): the queue drops the message, or delivers another copy of
\* it, as it does when the consumer dies before the acknowledgement.
Ack(d) == queue' \in {queue, queue \ {d}} /\ UNCHANGED dead

\* message.retry(): the message comes back, or its retries are exhausted and
\* it is filed as a dead letter.
Retry(d) ==
    \/ UNCHANGED <<queue, dead>>
    \/ queue' = queue \ {d} /\ dead' = dead \cup {d}

-----------------------------------------------------------------------------
(* insertQueuedDelivery and the announcement of the row                    *)

\* The insert selects from the running job that authorises it, whose
\* enrollment is active (AutomationEngine, OneLiveJob).
Create(d) ==
    /\ row[d].status = "absent"
    /\ Cardinality({c \in Deliveries : row[c].status # "absent"}) < MaxDeliveries
    /\ enrollment[EnrollmentOf[d]] = "active"
    /\ row' = [row EXCEPT ![d].status = "queued"]
    /\ announcing' = announcing \cup {d}
    /\ UNCHANGED <<enrollment, refused, stopped, queue, dead, sends, answered, recorded, proc>>

\* DELIVERY_QUEUE.send after the insert; it throws or its worker dies.
Announce(d) ==
    /\ d \in announcing
    /\ announcing' = announcing \ {d}
    /\ queue' \in {queue, queue \cup {d}}
    /\ UNCHANGED <<row, enrollment, refused, stopped, dead, sends, answered, recorded, proc>>

-----------------------------------------------------------------------------
(* processDelivery                                                         *)

Claimable(d) ==
    row[d].status = "queued" /\ row[d].attempts < Limit /\ row[d].due

\* the claim answers without the lease it took
ClaimWithoutLease(p, d) ==
    /\ proc[p].pc = "idle" /\ d \in queue
    /\ Claimable(d)
    /\ \E l \in Leases :
         /\ Fresh(l)
         /\ row' = [row EXCEPT ![d].status = "sending", ![d].lease = l, ![d].expired = FALSE,
                               ![d].due = TRUE, ![d].attempts = @ + 1]
         /\ proc' = [proc EXCEPT ![p] =
                [Idle EXCEPT !.pc = "check", !.delivery = d, !.attempts = row[d].attempts + 1]]
    /\ UNCHANGED <<enrollment, refused, stopped, announcing, queue, dead, sends, answered,
                   recorded>>

\* claimDelivery
Claim(p, d) ==
    /\ proc[p].pc = "idle" /\ d \in queue
    /\ Claimable(d)
    /\ \E l \in Leases :
         /\ Fresh(l)
         /\ row' = [row EXCEPT ![d].status = "sending", ![d].lease = l, ![d].expired = FALSE,
                               ![d].due = TRUE, ![d].attempts = @ + 1]
         /\ proc' = [proc EXCEPT ![p] =
                [Idle EXCEPT !.pc = "check", !.delivery = d, !.lease = l,
                             !.attempts = row[d].attempts + 1]]
    /\ UNCHANGED <<enrollment, refused, stopped, announcing, queue, dead, sends, answered,
                   recorded>>

\* A message of a row nobody may claim is acknowledged.
ClaimNothing(p, d) ==
    /\ proc[p].pc = "idle" /\ d \in queue
    /\ ~Claimable(d)
    /\ Ack(d)
    /\ UNCHANGED <<row, enrollment, refused, stopped, announcing, sends, answered, recorded, proc>>

\* The claim cannot reach the database.
ClaimFails(p, d) ==
    /\ proc[p].pc = "idle" /\ d \in queue
    /\ Retry(d)
    /\ UNCHANGED <<row, enrollment, refused, stopped, announcing, sends, answered, recorded, proc>>

\* closeIfCancelled
CheckCancelled(p) ==
    LET d == proc[p].delivery
        closed == /\ row[d].lease = proc[p].lease
                  /\ \/ row[d].status = "cancelled"
                     \/ /\ row[d].status = "sending"
                        /\ enrollment[EnrollmentOf[d]] = "cancelled"
    IN  /\ proc[p].pc = "check"
        /\ UpdateIf(p, closed, Released(row[d], "cancelled"))
        /\ \/ closed /\ Return(p) /\ Ack(d)
           \/ ~closed /\ Goto(p, "gate") /\ UNCHANGED <<queue, dead>>
        /\ UNCHANGED <<enrollment, refused, stopped, announcing, sends, answered, recorded>>

\* readConsentGate and evaluateSendEligibility
Gate(p) ==
    /\ proc[p].pc = "gate"
    /\ Goto(p, IF ContactOf[proc[p].delivery] \in refused \cup stopped THEN "suppress" ELSE "send")
    /\ UNCHANGED <<row, enrollment, refused, stopped, announcing, queue, dead, sends,
                   answered, recorded>>

\* only the status is tested, not the lease
MarkSuppressedAnyLease(p) ==
    /\ proc[p].pc = "suppress"
    /\ UpdateIf(p, row[proc[p].delivery].status = "sending",
                Released(row[proc[p].delivery], "suppressed"))
    /\ Return(p) /\ Ack(proc[p].delivery)
    /\ UNCHANGED <<enrollment, refused, stopped, announcing, sends, answered, recorded>>

\* markSuppressed
MarkSuppressed(p) ==
    /\ proc[p].pc = "suppress"
    /\ UpdateIf(p, ExactLease(p), Released(row[proc[p].delivery], "suppressed"))
    /\ Return(p) /\ Ack(proc[p].delivery)
    /\ UNCHANGED <<enrollment, refused, stopped, announcing, sends, answered, recorded>>

\* adapter.send returns the provider's message id
SendAccepted(p) ==
    /\ proc[p].pc = "send"
    /\ sends' = [sends EXCEPT ![proc[p].delivery] = @ + 1]
    /\ answered' = answered \cup {proc[p].delivery}
    /\ Goto(p, "accept")
    /\ UNCHANGED <<row, enrollment, refused, stopped, announcing, queue, dead, recorded>>

\* The provider took the message and adapter.send throws: an email without a
\* message id or with an error code that leaves the outcome open, a webhook
\* that answers late or with an error.
SendUnanswered(p) ==
    /\ proc[p].pc = "send"
    /\ sends' = [sends EXCEPT ![proc[p].delivery] = @ + 1]
    /\ \E b \in BOOLEAN : proc' = [proc EXCEPT ![p].pc = "failure", ![p].permanent = b]
    /\ UNCHANGED <<row, enrollment, refused, stopped, announcing, queue, dead, answered, recorded>>

\* The gate, its write, deliveryAdapter or adapter.send throws and nothing was
\* sent: for now or, the last two only, for good, or because the provider
\* suppresses the recipient of an email.
SendFails(p) ==
    /\ \/ /\ proc[p].pc \in {"gate", "suppress", "send"}
          /\ \E b \in BOOLEAN :
               /\ b => proc[p].pc = "send"
               /\ proc' = [proc EXCEPT ![p].pc = "failure", ![p].permanent = b]
       \/ /\ proc[p].pc = "send" /\ proc[p].delivery \in Emails
          /\ Goto(p, "bounce")
    /\ UNCHANGED <<row, enrollment, refused, stopped, announcing, queue, dead, sends,
                   answered, recorded>>

\* a failed write is caught with the errors of the provider
MarkAcceptedInsideCatch(p) ==
    LET d == proc[p].delivery
    IN  /\ proc[p].pc = "accept"
        /\ \/ /\ UpdateIf(p, /\ row[d].lease = proc[p].lease
                             /\ row[d].status \in {"sending", "cancelled"},
                          [Released(row[d], "accepted") EXCEPT !.known = TRUE])
              /\ Return(p) /\ Ack(d)
           \/ Goto(p, "failure") /\ UNCHANGED <<row, queue, dead>>
        /\ UNCHANGED <<enrollment, refused, stopped, announcing, sends, answered, recorded>>

\* markAccepted, also of a row cancelled in the middle of the send
MarkAccepted(p) ==
    LET d == proc[p].delivery
    IN  /\ proc[p].pc = "accept"
        /\ UpdateIf(p, /\ row[d].lease = proc[p].lease
                       /\ row[d].status \in {"sending", "cancelled"},
                    [Released(row[d], "accepted") EXCEPT !.known = TRUE])
        /\ Return(p) /\ Ack(d)
        /\ UNCHANGED <<enrollment, refused, stopped, announcing, sends, answered, recorded>>

\* the last attempt is given a retry
RecordFailureOffByOne(p) ==
    LET d == proc[p].delivery
        terminal == proc[p].permanent \/ proc[p].attempts > Limit
    IN  /\ proc[p].pc = "failure"
        /\ UpdateIf(p, ExactLease(p),
                    IF terminal THEN Released(row[d], "failed")
                    ELSE [Released(row[d], "queued") EXCEPT !.due = FALSE])
        /\ Return(p)
        /\ IF terminal THEN Ack(d) ELSE Retry(d)
        /\ UNCHANGED <<enrollment, refused, stopped, announcing, sends, answered, recorded>>

\* recordFailure; whether it is the last one is decided by the attempts of
\* the claim
RecordFailure(p) ==
    LET d == proc[p].delivery
        terminal == proc[p].permanent \/ proc[p].attempts >= Limit
    IN  /\ proc[p].pc = "failure"
        /\ UpdateIf(p, ExactLease(p),
                    IF terminal THEN Released(row[d], "failed")
                    ELSE [Released(row[d], "queued") EXCEPT !.due = FALSE])
        /\ Return(p)
        /\ IF terminal THEN Ack(d) ELSE Retry(d)
        /\ UNCHANGED <<enrollment, refused, stopped, announcing, sends, answered, recorded>>

\* markProviderSuppressed
MarkProviderSuppressed(p) ==
    LET d == proc[p].delivery
    IN  /\ proc[p].pc = "bounce"
        /\ UpdateIf(p, ExactLease(p), Released(row[d], "suppressed"))
        /\ refused' = IF ExactLease(p) THEN refused \cup {ContactOf[d]} ELSE refused
        /\ Return(p) /\ Ack(d)
        /\ UNCHANGED <<enrollment, stopped, announcing, sends, answered, recorded>>

\* The invocation ends anywhere, or a statement outside the try throws: the
\* message stays with the queue, or its retries are exhausted.
Crash(p) ==
    /\ proc[p].pc # "idle"
    /\ Return(p)
    /\ Retry(proc[p].delivery)
    /\ UNCHANGED <<row, enrollment, refused, stopped, announcing, sends, answered, recorded>>

-----------------------------------------------------------------------------
(* Cron, operators and the clock                                           *)

\* an email with an unknown outcome is tried again like a webhook
RecoveredLikeWebhook(d) ==
    IF ~(row[d].status = "sending" /\ row[d].expired) THEN row[d]
    ELSE IF row[d].attempts < Limit THEN Released(row[d], "queued")
    ELSE Released(row[d], "failed")

\* the statement for emails is missing
RecoveredWebhooksOnly(d) ==
    IF ~(row[d].status = "sending" /\ row[d].expired) \/ d \in Emails THEN row[d]
    ELSE IF row[d].attempts < Limit THEN Released(row[d], "queued")
    ELSE Released(row[d], "failed")

\* recoverExpiredDeliveries: three statements in one batch
Recovered(d) ==
    IF ~(row[d].status = "sending" /\ row[d].expired) THEN row[d]
    ELSE IF d \notin Emails /\ row[d].attempts < Limit THEN Released(row[d], "queued")
    ELSE Released(row[d], "failed")

RecoverExpiredDeliveries ==
    /\ \E d \in Deliveries : row[d].status = "sending" /\ row[d].expired
    /\ row' = [d \in Deliveries |-> Recovered(d)]
    /\ UNCHANGED <<enrollment, refused, stopped, announcing, queue, dead, sends, answered,
                   recorded, proc>>

\* scanDueDeliveries publishes a message for a row that is due; the row may
\* have been claimed since it was read, which ClaimNothing answers.
ScanDueDelivery(d) ==
    /\ Claimable(d) /\ d \notin queue
    /\ queue' = queue \cup {d}
    /\ UNCHANGED <<row, enrollment, refused, stopped, announcing, dead, sends, answered,
                   recorded, proc>>

\* replayDeadLetter sends the body before it marks the letter replayed
ReplayDeadLetter(d) ==
    /\ d \in dead
    /\ queue' = queue \cup {d}
    /\ dead' \in {dead, dead \ {d}}
    /\ UNCHANGED <<row, enrollment, refused, stopped, announcing, sends, answered, recorded, proc>>

\* a row in the middle of its send is left alone
CancelQueuedOnly(tree) ==
    /\ enrollment' = [e \in Enrollments |->
                IF e \in tree /\ enrollment[e] = "active" THEN "cancelled" ELSE enrollment[e]]
    /\ row' = [d \in Deliveries |->
                IF EnrollmentOf[d] \in tree /\ row[d].status = "queued"
                THEN [row[d] EXCEPT !.status = "cancelled", !.due = TRUE]
                ELSE row[d]]
    /\ UNCHANGED <<refused, stopped, announcing, queue, dead, sends, answered, recorded, proc>>

\* cancelStatements: the rows of an enrollment and its descendants that are
\* still open, whether or not their enrollment is. A row in the middle of a
\* send keeps its lease.
CancelEnrollment(tree) ==
    /\ enrollment' = [e \in Enrollments |->
                IF e \in tree /\ enrollment[e] = "active" THEN "cancelled" ELSE enrollment[e]]
    /\ row' = [d \in Deliveries |->
                IF EnrollmentOf[d] \in tree /\ row[d].status \in {"queued", "sending"}
                THEN [row[d] EXCEPT !.status = "cancelled", !.due = TRUE]
                ELSE row[d]]
    /\ UNCHANGED <<refused, stopped, announcing, queue, dead, sends, answered, recorded, proc>>

\* The engine completes or fails the enrollment.
EndEnrollment(e) ==
    /\ enrollment[e] = "active"
    /\ enrollment' = [enrollment EXCEPT ![e] = "ended"]
    /\ UNCHANGED <<row, refused, stopped, announcing, queue, dead, sends, answered, recorded,
                   proc>>

\* The contact unsubscribes, subscribes again or is archived.
ConsentChanges(c) ==
    /\ stopped' \in {stopped \cup {c}, stopped \ {c}}
    /\ UNCHANGED <<row, enrollment, refused, announcing, queue, dead, sends, answered,
                   recorded, proc>>

BackoffElapses(d) ==
    /\ ~row[d].due
    /\ row' = [row EXCEPT ![d].due = TRUE]
    /\ UNCHANGED <<enrollment, refused, stopped, announcing, queue, dead, sends, answered,
                   recorded, proc>>

LeaseExpires(d) ==
    /\ row[d].lease # None /\ ~row[d].expired
    /\ row' = [row EXCEPT ![d].expired = TRUE]
    /\ UNCHANGED <<enrollment, refused, stopped, announcing, queue, dead, sends, answered,
                   recorded, proc>>

-----------------------------------------------------------------------------
(* Provider events, delivered any number of times and in any order         *)

StatusAfter(k, s) ==
    CASE k = "delivered" -> "delivered"
      [] k \in {"bounced", "failed", "rejected"} -> "failed"
      [] OTHER -> s

\* A rejection suppresses when its reason is "suppressed".
Suppresses(k) ==
    CASE k \in {"bounced", "complained"} -> {TRUE}
      [] k = "rejected" -> BOOLEAN
      [] OTHER -> {FALSE}

\* applyCloudflareDeliveryEvent: an event of an unknown message id is dropped
ApplyEvent(d, k) ==
    /\ d \in Emails /\ sends[d] > 0
    /\ row[d].known
    /\ recorded' = recorded \cup {<<d, k>>}
    /\ row' = [row EXCEPT ![d].status = StatusAfter(k, @)]
    /\ \E suppress \in Suppresses(k) :
         refused' = IF suppress THEN refused \cup {ContactOf[d]} ELSE refused
    /\ UNCHANGED <<enrollment, stopped, announcing, queue, dead, sends, answered, proc>>

-----------------------------------------------------------------------------

Worker(p) ==
    \/ CheckCancelled(p) \/ Gate(p) \/ MarkSuppressed(p)
    \/ SendAccepted(p) \/ SendUnanswered(p) \/ SendFails(p)
    \/ MarkAccepted(p) \/ RecordFailure(p) \/ MarkProviderSuppressed(p)

Next ==
    \/ \E d \in Deliveries :
         \/ Create(d) \/ Announce(d) \/ ScanDueDelivery(d) \/ ReplayDeadLetter(d)
         \/ BackoffElapses(d) \/ LeaseExpires(d)
         \/ \E k \in Events : ApplyEvent(d, k)
         \/ \E p \in Procs : Claim(p, d) \/ ClaimNothing(p, d) \/ ClaimFails(p, d)
    \/ \E p \in Procs : Worker(p) \/ Crash(p)
    \/ \E tree \in (SUBSET Enrollments) \ {{}} : CancelEnrollment(tree)
    \/ \E e \in Enrollments : EndEnrollment(e)
    \/ \E c \in Contacts : ConsentChanges(c)
    \/ RecoverExpiredDeliveries

Spec == Init /\ [][Next]_vars

\* The queue delivers what it keeps, invocations end, cron runs every minute
\* and time passes. Nothing is assumed of the provider, of crashes, of
\* acknowledgements or of the first announcement.
Fairness ==
    /\ \A p \in Procs : WF_vars(Worker(p))
    /\ \A d \in Deliveries :
         /\ SF_vars(\E p \in Procs : Claim(p, d))
         /\ WF_vars(ScanDueDelivery(d))
         /\ WF_vars(BackoffElapses(d)) /\ WF_vars(LeaseExpires(d))
    /\ WF_vars(RecoverExpiredDeliveries)

FairSpec == Spec /\ Fairness

-----------------------------------------------------------------------------
(* Properties                                                              *)

\* Rows, queues and consumers keep their types, and a consumer that is idle
\* holds nothing while one that works holds a delivery and its lease.
TypeOK ==
    /\ row \in [Deliveries -> Row]
    /\ enrollment \in [Enrollments -> {"active", "ended", "cancelled"}]
    /\ refused \subseteq Contacts /\ stopped \subseteq Contacts
    /\ announcing \subseteq Deliveries
    /\ queue \subseteq Deliveries
    /\ dead \subseteq Deliveries
    /\ sends \in [Deliveries -> Nat] /\ answered \subseteq Deliveries
    /\ recorded \subseteq Emails \X Events
    /\ proc \in [Procs -> ProcState]
    /\ \A p \in Procs : IF proc[p].pc = "idle" THEN proc[p] = Idle
                        ELSE proc[p].delivery # None /\ proc[p].lease # None

\* An email whose acceptance the worker was told, by a message id, is never
\* handed to the provider again: not by a duplicate message, a retry, a worker
\* that outlives its lease, stale recovery or a replayed dead letter, also
\* when the acceptance was never written. (A webhook is repeated with its key.)
AnsweredEmailIsLast ==
    [][\A d \in Emails : d \in answered => sends'[d] = sends[d]]_vars

\* "must leave the delivery in `sending` for channel-specific stale recovery",
\* which "makes stale email outcomes terminal": the provider accepts an email
\* at most once. It does not hold of SendUnanswered.
EmailAcceptedOnce == \A d \in Emails : sends[d] <= 1

\* Every retry of a queued row is still within the limit: no row waits for a
\* claim that claimDelivery and scanDueDeliveries both refuse it.
QueuedIsClaimable ==
    \A d \in Deliveries : row[d].status = "queued" => row[d].attempts < Limit

\* Nothing of a cancelled enrollment is left to be sent, whatever was being
\* inserted, claimed, retried or recovered around the cancellation.
NoOpenDeliveryOfCancelled ==
    \A d \in Deliveries :
        enrollment[EnrollmentOf[d]] = "cancelled"
            => row[d].status \notin {"queued", "sending"}

\* While its lease lasts, the attempt that holds it alone decides what
\* becomes of a row being sent: an attempt that was overtaken changes nothing.
OnlyHolderCloses ==
    [][\A d \in Deliveries :
         /\ row[d].status = "sending" /\ ~row[d].expired
         /\ row'[d].status \notin {"sending", "cancelled"}
         => \E p \in Procs : /\ proc[p].delivery = d /\ proc[p].lease = row[d].lease
                             /\ proc'[p] # proc[p]]_vars

\* A row says accepted, or knows a message id, only of a message whose send
\* was answered with one, and an email so answered is never reported as
\* suppressed or put back: the sender learns of it, or of an unknown outcome.
StatusTruthful ==
    \A d \in Deliveries :
        /\ row[d].known \/ row[d].status \in {"accepted", "delivered"} => d \in answered
        /\ d \in Emails \cap answered =>
             row[d].status \in {"sending", "accepted", "delivered", "failed", "cancelled"}

\* Every delivery is settled: accepted, refused, failed or cancelled, whatever
\* is lost, duplicated, crashes or never announced.
DeliverySettles ==
    \A d \in Deliveries :
        row[d].status \in {"queued", "sending"}
            ~> row[d].status \notin {"queued", "sending"}

\* "Applies idempotent provider events": an event that is already recorded
\* changes nothing when the queue delivers it again.
RepeatedEventChangesNothing ==
    [][\A d \in Deliveries, k \in Events :
         <<d, k>> \in recorded /\ ApplyEvent(d, k) => row' = row]_vars

=============================================================================
