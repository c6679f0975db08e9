--------------------------- MODULE ContactImports ---------------------------
(***************************************************************************)
(* The import of a file of contacts: the job, its parts with their leases, *)
(* the candidates that a part reserves, the batch that inserts them and    *)
(* records which were inserted, the completion that counts them, the       *)
(* publication of their segment reconciliation, and the recoveries by the  *)
(* scanner and by the dead-letter queue.                                   *)
(*                                                                         *)
(* One D1 statement or batch is one action.  A message of a part may come  *)
(* at any time, and again: the queue delivers at least once and the        *)
(* scanner sends one for every pending part.  A lease is named by the      *)
(* attempt that took it.                                                   *)
(***************************************************************************)
EXTENDS Integers, FiniteSets

CONSTANTS
    TotalParts,
    RowsOf,        \* the lines of each part
    Keys,          \* identifiers of contacts: email addresses and external ids
    KeyOf,         \* the identifier of a row; None if the line is malformed or has none
    AttemptLimit,  \* IMPORT_ATTEMPT_LIMIT, 5 in the code
    Procs,         \* invocations of the worker
    None

Parts == 0 .. TotalParts - 1
Rows == UNION {RowsOf[n] : n \in Parts}
Other == "other"   \* holder of an identifier that is no row of this import

ImportAssumption ==
    /\ TotalParts \in Nat \ {0} /\ AttemptLimit \in Nat \ {0}
    /\ \A n \in Parts : IsFiniteSet(RowsOf[n])
    /\ \A m, n \in Parts : m # n => RowsOf[m] \cap RowsOf[n] = {}
    /\ KeyOf \in [Rows -> Keys \cup {None}]
    /\ None \notin Keys /\ Other \notin Rows /\ None \notin Rows

VARIABLES
    job,           \* the row of import_jobs
    part,          \* contact_import_parts
    contact,       \* candidates that are rows of contacts
    holder,        \* who has an identifier
    reconciled,    \* contacts that were sent to the segment reconciliation
    proc           \* what each invocation holds between two awaits

vars == <<job, part, contact, holder, reconciled, proc>>

Job == [status : {"absent", "pending", "processing", "completed", "failed"},
        cursor : 0 .. TotalParts, processed : Nat, succeeded : Nat, failed : Nat]
Part == [status : {"absent", "pending", "processing", "completed", "failed"},
         attempts : 0 .. AttemptLimit,
         lease : 0 .. AttemptLimit,          \* 0 is no lease
         live : BOOLEAN,                     \* lease_expires_at is in the future
         reserved : BOOLEAN,                 \* candidates is not null
         inserted : BOOLEAN,                 \* insert_phase_token is not null
         ids : SUBSET Rows,                  \* reconciliation_contact_ids
         published : BOOLEAN]                \* reconciliation_published_at is not null
NoPart == [status |-> "absent", attempts |-> 0, lease |-> 0, live |-> FALSE,
           reserved |-> FALSE, inserted |-> FALSE, ids |-> {}, published |-> FALSE]
NewPart == [NoPart EXCEPT !.status = "pending"]

TryPC == {"read", "reserve", "manifest", "persist", "complete", "publish", "published"}
PC == TryPC \cup {"idle", "mark", "caughtLive", "caughtExpired", "settle", "scanned", "overdue",
                  "send", "sent", "deadLive", "deadExpired", "dead"}
ProcState == [pc : PC, part : Parts, lease : 0 .. AttemptLimit, reserved : BOOLEAN,
              permanent : BOOLEAN]
Idle == [pc |-> "idle", part |-> 0, lease |-> 0, reserved |-> FALSE, permanent |-> FALSE]

Init ==
    /\ job = [status |-> "absent", cursor |-> 0, processed |-> 0, succeeded |-> 0, failed |-> 0]
    /\ part = [n \in Parts |-> NoPart]
    /\ contact = {}
    /\ holder \in [Keys -> {None, Other}]
    /\ reconciled = {}
    /\ proc = [p \in Procs |-> Idle]

-----------------------------------------------------------------------------
(* What the statements share.                                              *)

people == <<contact, holder>>

Return(p) == proc' = [proc EXCEPT ![p] = Idle]
Goto(p, pc) == proc' = [proc EXCEPT ![p].pc = pc]
Take(p, pc, n, lease) ==
    /\ proc[p].pc = "idle"
    /\ proc' = [proc EXCEPT ![p] = [Idle EXCEPT !.pc = pc, !.part = n, !.lease = lease]]

\* activeImportJob, exactImportPartLease, liveImportPartLease, expiredImportPartLease
Active == job.status \in {"pending", "processing"}
Leased(n, lease) == part[n].status = "processing" /\ part[n].lease = lease
Live(n, lease) == Leased(n, lease) /\ part[n].live /\ Active
Expired(n, lease) == Leased(n, lease) /\ ~part[n].live /\ Active

\* completePart, after completePersistedPart read the evidence, which does not change.
CountPart(n) ==
    LET ids == part[n].ids
        rest == RowsOf[n] \ ids
    IN job' = [status |-> IF n + 1 = TotalParts THEN "completed" ELSE "processing",
               cursor |-> n + 1,
               processed |-> job.processed + Cardinality(RowsOf[n]),
               succeeded |-> job.succeeded + Cardinality(ids),
               failed |-> job.failed + Cardinality(rest)]
CompletePublished(n) ==     \* fault: marked as published before it is sent
    /\ CountPart(n)
    /\ part' = [m \in Parts |->
           CASE m = n -> [part[n] EXCEPT !.status = "completed", !.lease = 0, !.live = FALSE,
                                         !.published = TRUE]
             [] m = n + 1 /\ part[m].status = "absent" -> NewPart
             [] OTHER -> part[m]]
CompletePart(n) ==
    /\ CountPart(n)
    /\ part' = [m \in Parts |->
           CASE m = n -> [part[n] EXCEPT !.status = "completed", !.lease = 0, !.live = FALSE,
                                         !.published = part[n].ids = {}]
             [] m = n + 1 /\ part[m].status = "absent" -> NewPart
             [] OTHER -> part[m]]
MayComplete(n, authority) == authority /\ part[n].inserted

FailPart(n) ==
    /\ part' = [part EXCEPT ![n].status = "failed", ![n].lease = 0, ![n].live = FALSE]
    /\ job' = [job EXCEPT !.status = "failed"]
ReturnPart(n) ==
    /\ part' = [part EXCEPT ![n].status = "pending", ![n].lease = 0, ![n].live = FALSE]
    /\ UNCHANGED job

-----------------------------------------------------------------------------
(* The start, and the message of a part: processContactImport.             *)

\* startContactImport: the parts are in the bucket before the rows are written.
CreateJob ==
    /\ job.status = "absent"
    /\ job' = [job EXCEPT !.status = "pending"]
    /\ part' = [part EXCEPT ![0] = NewPart]
    /\ UNCHANGED <<people, reconciled, proc>>

\* claimPart: the part, then the job.
Claimable(n) ==
    /\ Active
    /\ ~part[n].inserted
    /\ part[n].attempts < AttemptLimit
    /\ \/ part[n].status = "pending"
       \/ part[n].status = "processing" /\ ~part[n].live
ClaimPart(p, n) ==
    /\ proc[p].pc = "idle"
    /\ Claimable(n)
    /\ LET lease == part[n].attempts + 1
       IN /\ part' = [part EXCEPT ![n].status = "processing", ![n].attempts = lease,
                                  ![n].lease = lease, ![n].live = TRUE]
          /\ proc' = [proc EXCEPT ![p] = [Idle EXCEPT !.pc = "mark", !.part = n,
                                     !.lease = lease, !.reserved = part[n].reserved]]
    /\ UNCHANGED <<job, people, reconciled>>

MarkProcessing(p) ==
    /\ proc[p].pc = "mark"
    /\ job' = IF Live(proc[p].part, proc[p].lease)
              THEN [job EXCEPT !.status = "processing"] ELSE job
    /\ Goto(p, IF proc[p].reserved THEN "persist" ELSE "read")
    /\ UNCHANGED <<part, people, reconciled>>

\* The part's file: it may be missing, which is a permanent error.
ReadFile(p) ==
    /\ proc[p].pc = "read"
    /\ \/ Goto(p, "reserve")
       \/ proc' = [proc EXCEPT ![p].pc = "caughtLive", ![p].permanent = TRUE]
    /\ UNCHANGED <<job, part, people, reconciled>>

\* reserveCandidates: the update, then what is stored.
Reserve(p) ==
    LET n == proc[p].part
    IN /\ proc[p].pc = "reserve"
       /\ part' = IF Live(n, proc[p].lease) /\ ~part[n].reserved /\ ~part[n].inserted
                  THEN [part EXCEPT ![n].reserved = TRUE] ELSE part
       /\ Goto(p, "manifest")
       /\ UNCHANGED <<job, people, reconciled>>

ReadManifest(p) ==
    LET n == proc[p].part
    IN /\ proc[p].pc = "manifest"
       /\ IF Live(n, proc[p].lease) /\ ~part[n].inserted /\ part[n].reserved
          THEN Goto(p, "persist") ELSE Return(p)
       /\ UNCHANGED <<job, part, people, reconciled>>

\* persistCandidateInsertPhase: of the rows with an identifier nobody has, one each.
Insertions(n) ==
    {ids \in SUBSET {r \in RowsOf[n] : KeyOf[r] # None /\ holder[KeyOf[r]] = None} :
        /\ \A r, s \in ids : KeyOf[r] = KeyOf[s] => r = s
        /\ \A r \in RowsOf[n] : KeyOf[r] # None /\ holder[KeyOf[r]] = None =>
               \E s \in ids : KeyOf[s] = KeyOf[r]}
Insert(n) ==
    \E ids \in Insertions(n) :
        /\ contact' = contact \cup ids
        /\ holder' = [k \in Keys |-> IF \E r \in ids : KeyOf[r] = k
                                     THEN CHOOSE r \in ids : KeyOf[r] = k ELSE holder[k]]
        /\ part' = [part EXCEPT ![n].inserted = TRUE, ![n].ids = ids]
PersistOfExpired(p) ==      \* fault: the batch does not ask for the lease
    LET n == proc[p].part
    IN /\ proc[p].pc = "persist"
       /\ IF part[n].reserved /\ ~part[n].inserted
          THEN Insert(n) ELSE UNCHANGED <<part, people>>
       /\ Goto(p, "complete")
       /\ UNCHANGED <<job, reconciled>>
Persist(p) ==
    LET n == proc[p].part
    IN /\ proc[p].pc = "persist"
       /\ IF Live(n, proc[p].lease) /\ part[n].reserved /\ ~part[n].inserted
          THEN Insert(n) ELSE UNCHANGED <<part, people>>
       /\ Goto(p, "complete")
       /\ UNCHANGED <<job, reconciled>>

CompleteLive(p) ==
    LET n == proc[p].part
    IN /\ proc[p].pc = "complete"
       /\ IF MayComplete(n, Live(n, proc[p].lease))
          THEN CompletePart(n) /\ Goto(p, "publish")
          ELSE Return(p) /\ UNCHANGED <<job, part>>
       /\ UNCHANGED <<people, reconciled>>

\* publishContactImportReconciliation, here and of the scanner: first the messages.
Enqueue(p) ==
    /\ proc[p].pc \in {"publish", "send"}
    /\ reconciled' = reconciled \cup part[proc[p].part].ids
    /\ Goto(p, IF proc[p].pc = "publish" THEN "published" ELSE "sent")
    /\ UNCHANGED <<job, part, people>>

MarkPublished(p) ==
    /\ proc[p].pc \in {"published", "sent"}
    /\ part' = [part EXCEPT ![proc[p].part].published = TRUE]
    /\ Return(p)
    /\ UNCHANGED <<job, people, reconciled>>

\* A call throws; what it wrote may have been committed, as the step before.
Break(p) ==
    /\ proc[p].pc \in TryPC
    /\ Goto(p, "caughtLive")
    /\ UNCHANGED <<job, part, people, reconciled>>

\* The handler of the error: evidence that is there is completed under either authority.
CompleteUnder(p, authority, otherwise) ==
    /\ IF MayComplete(proc[p].part, authority)
       THEN CompletePart(proc[p].part) /\ Return(p)
       ELSE Goto(p, otherwise) /\ UNCHANGED <<job, part>>
    /\ UNCHANGED <<people, reconciled>>

CatchLive(p) ==
    /\ proc[p].pc = "caughtLive"
    /\ CompleteUnder(p, Live(proc[p].part, proc[p].lease), "caughtExpired")
CatchExpired(p) ==
    /\ proc[p].pc = "caughtExpired"
    /\ CompleteUnder(p, Expired(proc[p].part, proc[p].lease), "settle")

\* failPartForLease or returnPartToPending
Settle(p) ==
    LET n == proc[p].part
        exhausted == proc[p].permanent \/ proc[p].lease >= AttemptLimit
        owned == Live(n, proc[p].lease) /\ ~part[n].inserted
    IN /\ proc[p].pc = "settle"
       /\ CASE owned /\ exhausted -> FailPart(n)
            [] owned /\ ~exhausted -> ReturnPart(n)
            [] OTHER -> UNCHANGED <<job, part>>
       /\ Return(p)
       /\ UNCHANGED <<people, reconciled>>

-----------------------------------------------------------------------------
(* The scanner, every minute: recoverExpiredParts and scanPending.         *)

ScanExpired(p, n) ==
    /\ part[n].status = "processing" /\ ~part[n].live
    /\ Take(p, "scanned", n, part[n].lease)
    /\ UNCHANGED <<job, part, people, reconciled>>

CompleteScanned(p) ==
    /\ proc[p].pc = "scanned"
    /\ CompleteUnder(p, Expired(proc[p].part, proc[p].lease), "overdue")

\* failPart under the expired lease, or returnExpiredPartToPending
RecoverAlways(p) ==         \* fault: the tries are not counted
    /\ proc[p].pc = "overdue"
    /\ IF Expired(proc[p].part, proc[p].lease) /\ ~part[proc[p].part].inserted
       THEN ReturnPart(proc[p].part) ELSE UNCHANGED <<job, part>>
    /\ Return(p)
    /\ UNCHANGED <<people, reconciled>>
RecoverPart(p) ==
    LET n == proc[p].part
        owned == Expired(n, proc[p].lease) /\ ~part[n].inserted
    IN /\ proc[p].pc = "overdue"
       /\ CASE owned /\ proc[p].lease >= AttemptLimit -> FailPart(n)
            [] owned /\ proc[p].lease < AttemptLimit -> ReturnPart(n)
            [] OTHER -> UNCHANGED <<job, part>>
       /\ Return(p)
       /\ UNCHANGED <<people, reconciled>>

ScanUnpublished(p, n) ==
    /\ part[n].status = "completed" /\ ~part[n].published
    /\ Take(p, "send", n, 0)
    /\ UNCHANGED <<job, part, people, reconciled>>

-----------------------------------------------------------------------------
(* The dead-letter queue, which a message of the part has reached:         *)
(* failPartFromDeadLetter.                                                 *)

ReadDeadLetter(p, n) ==
    LET evident == part[n].status = "processing" /\ part[n].inserted
    IN /\ part[n].status # "absent"
       /\ Take(p, IF evident THEN "deadLive" ELSE "dead", n, IF evident THEN part[n].lease ELSE 0)
       /\ UNCHANGED <<job, part, people, reconciled>>

CompleteDeadLive(p) ==
    /\ proc[p].pc = "deadLive"
    /\ CompleteUnder(p, Live(proc[p].part, proc[p].lease), "deadExpired")
CompleteDeadExpired(p) ==
    /\ proc[p].pc = "deadExpired"
    /\ CompleteUnder(p, Expired(proc[p].part, proc[p].lease), "dead")

FailDead(p) ==
    LET n == proc[p].part
    IN /\ proc[p].pc = "dead"
       /\ IF part[n].status # "completed" /\ ~part[n].inserted
          THEN FailPart(n) ELSE UNCHANGED <<job, part>>
       /\ Return(p)
       /\ UNCHANGED <<people, reconciled>>

-----------------------------------------------------------------------------
(* Time, crashes and the other writers of contacts.                        *)

LeaseExpires(n) ==
    /\ part[n].status = "processing" /\ part[n].live
    /\ part' = [part EXCEPT ![n].live = FALSE]
    /\ UNCHANGED <<job, people, reconciled, proc>>

\* A contact takes or gives up an identifier.
OtherWriter(k) ==
    /\ holder' = [holder EXCEPT ![k] = IF @ = None THEN Other ELSE None]
    /\ UNCHANGED <<job, part, contact, reconciled, proc>>

Crash(p) ==
    /\ proc[p].pc # "idle"
    /\ Return(p)
    /\ UNCHANGED <<job, part, people, reconciled>>

Step(p) ==
    \/ MarkProcessing(p) \/ ReadFile(p) \/ Reserve(p) \/ ReadManifest(p) \/ Persist(p)
    \/ CompleteLive(p) \/ Enqueue(p) \/ MarkPublished(p)
    \/ CatchLive(p) \/ CatchExpired(p) \/ Settle(p)
    \/ CompleteScanned(p) \/ RecoverPart(p)
    \/ CompleteDeadLive(p) \/ CompleteDeadExpired(p) \/ FailDead(p)
Begin(p, n) ==
    ClaimPart(p, n) \/ ScanExpired(p, n) \/ ScanUnpublished(p, n) \/ ReadDeadLetter(p, n)

Next ==
    \/ CreateJob
    \/ \E p \in Procs : Step(p) \/ Break(p) \/ Crash(p)
    \/ \E p \in Procs, n \in Parts : Begin(p, n)
    \/ \E n \in Parts : LeaseExpires(n)
    \/ \E k \in Keys : OtherWriter(k)

Spec == Init /\ [][Next]_vars
-----------------------------------------------------------------------------
(* Properties.                                                             *)

TypeOK ==
    /\ job \in Job
    /\ part \in [Parts -> Part]
    /\ contact \subseteq Rows /\ reconciled \subseteq Rows
    /\ holder \in [Keys -> Rows \cup {None, Other}]
    /\ proc \in [Procs -> ProcState]

\* However messages, the scanner and dead letters overlap, rows become contacts once, are
\* counted once as what became of them, and a part that fails has left nothing behind.
Ledger == INSTANCE ImportLedger WITH
    status <- IF Active THEN "open" ELSE job.status,
    created <- contact,
    decided <- Cardinality({n \in Parts : part[n].inserted}),
    counted <- job.cursor,
    tally <- [processed |-> job.processed, succeeded |-> job.succeeded, failed |-> job.failed]
ImplementsImportLedger == Ledger!Spec

\* What is marked as published was sent: no contact that was imported is forgotten by the
\* segments, though a crash or an error may fall between the two.
PublishedWasSent ==
    \A n \in Parts : part[n].published => part[n].ids \subseteq reconciled

\* An import that was accepted is never stranded, whatever is lost on the way: its current
\* part waits with a try left, for the scanner to send its message, or is leased, for its
\* lease to run out.
OpenIsRecoverable ==
    Active =>
        LET current == part[job.cursor]
        IN \/ current.status = "pending" /\ current.attempts < AttemptLimit /\ ~current.inserted
           \/ current.status = "processing" /\ current.lease # 0
=============================================================================
