---------------------------- MODULE ContactEvents ----------------------------
(***************************************************************************)
(* The contact event outbox: events are recorded with their projections,   *)
(* claimed under a lease of 30 seconds, projected in a fixed order and     *)
(* marked processed; what fails is claimed again.  The events of an        *)
(* anonymous visitor are restored to the contact once he is identified.    *)
(* Scoring and decay are those of ScoreLedger.                             *)
(*                                                                         *)
(* One D1 statement or batch is one action.  A process is one invocation   *)
(* of the worker; it makes up its lease id itself and never hands it on,   *)
(* so its own name stands for the id.                                      *)
(***************************************************************************)
EXTENDS ScoreLedger, Sequences

CONSTANTS
    Procs,         \* invocations of the worker that may run at once
    Order,         \* the projections of an event, in the order they run in
    MaxAttempts,   \* bound on the claims of an event
    Together       \* bound: the sets of rare things one behaviour may combine (see Happened)

\* CONTACT_EVENT_PROJECTIONS, and those a replayed event still runs.
AllProjections == <<"scoring", "grade", "campaign", "decision_wake",
                    "automation_enrollment", "segment_reconcile">>
Projections == {Order[i] : i \in DOMAIN Order}
HistoryProjections == {"scoring", "grade", "campaign"} \cap Projections

\* Those that change what this module keeps; the others wake a decision, which is in
\* AutomationEngine, and send a message to the segments.
Effective == {"scoring", "grade", "campaign", "automation_enrollment"}

\* The rare things whose combinations Together bounds: an event claimed again, a second
\* event that is not a decay's, a visit of an unknown visitor, the visitor identified,
\* the contact archived and restored, an adjustment, a day gone by.
RareKinds == {"retried", "second", "visit", "identified", "archived", "restored",
              "adjusted", "days"}

ASSUME EventsAssumption ==
    /\ Order \in Seq({AllProjections[k] : k \in 1 .. 6})
    /\ \A i, j \in DOMAIN Order : i < j => \E k, l \in 1 .. 6 :
          k < l /\ Order[i] = AllProjections[k] /\ Order[j] = AllProjections[l]
    /\ MaxAttempts \in Nat
    /\ Together \subseteq SUBSET RareKinds
    /\ None \notin Procs \cup Events

VARIABLES
    event,        \* contact_events: owner, replay_mode and type
    outbox,       \* contact_event_outbox
    projection,   \* contact_event_projections.status
    visitor,      \* visitor_bindings of the visitor, with the history's lease
    touched,      \* events with a row in campaign_touches
    enrolled,     \* events with an enrollment of their own (automation, contact, event)
    proc          \* what each invocation holds between two awaits

vars == <<contact, day, occurred, score, logged, scored, contribution, category, grade,
          adjusted, event, outbox, projection, visitor, touched, enrolled, proc>>

Event == [kind : {"absent", "behaviour", "score_changed"},
          owner : {"nobody", "live", "history"}, \* contact_id, and how it was set
          visitor : BOOLEAN]                      \* visitor_id is set
Row == [status : {"absent", "pending", "processing", "processed"},
        lease : Procs \cup {None},
        expired : BOOLEAN,    \* lease_expires_at <= now
        due : BOOLEAN,        \* next_attempt_at is null or <= now
        attempts : 0 .. MaxAttempts]
Binding == [bound : BOOLEAN, history : {"pending", "done"},
            lease : Procs \cup {None}, expired : BOOLEAN]

NoEvent == [kind |-> "absent", owner |-> "nobody", visitor |-> FALSE]
NoRow == [status |-> "absent", lease |-> None, expired |-> FALSE, due |-> TRUE, attempts |-> 0]
Free(row, status, due) ==
    [row EXCEPT !.status = status, !.lease = None, !.expired = FALSE, !.due = due]
Unbound == [bound |-> FALSE, history |-> "pending", lease |-> None, expired |-> FALSE]

PC == {"idle", "load", "list", "check", "run", "swap", "finish", "skip", "mark",
       "contact", "events", "restore", "work", "close", "release", "decay"}
ProcState == [pc : PC, event : Events \cup {None},
              owner : {"nobody", "live", "history"},
              todo : SUBSET Projections,
              ids : SUBSET Events,            \* of restoreHistory
              read : [score : Int, grade : {0, 1}] \cup [initial : Nat, remaining : Nat,
                          next : 0 .. MaxDay, rule : Rules, now : 0 .. MaxDay] \cup {None}]
Idle == [pc |-> "idle", event |-> None, owner |-> "nobody", todo |-> {}, ids |-> {},
         read |-> None]

Init ==
    /\ LedgerInit
    /\ event = [e \in Events |-> NoEvent]
    /\ outbox = [e \in Events |-> NoRow]
    /\ projection = [e \in Events |-> [q \in Projections |-> "absent"]]
    /\ visitor = Unbound
    /\ touched = {} /\ enrolled = {}
    /\ proc = [p \in Procs |-> Idle]

-----------------------------------------------------------------------------
(* What the statements share.                                              *)

clock == <<contact, day>>
people == <<contact, day, occurred, adjusted>>
work == <<event, outbox, projection>>
effects == <<score, logged, scored, contribution, category, grade, touched, enrolled>>

\* dueEventWork
DueWork(e) ==
    \/ outbox[e].status = "pending" /\ outbox[e].due
    \/ outbox[e].status = "processing" /\ outbox[e].expired

\* The exact lease that every write of a processor asks for.
Holds(p, e) == outbox[e].status = "processing" /\ outbox[e].lease = p

\* The first projection of the list that was read.
Current(p) == Order[CHOOSE i \in DOMAIN Order :
    /\ Order[i] \in proc[p].todo
    /\ \A j \in DOMAIN Order : Order[j] \in proc[p].todo => i <= j]

Goto(p, pc) == proc' = [proc EXCEPT ![p].pc = pc]
Return(p) == proc' = [proc EXCEPT ![p] = Idle]

\* On to the next projection, or to markProcessed.
Advance(p) ==
    LET rest == proc[p].todo \ {Current(p)}
    IN proc' = [proc EXCEPT ![p].todo = rest,
                            ![p].pc = IF rest = {} THEN "mark" ELSE "check",
                            ![p].read = None]

Seen(k, condition) == IF condition THEN {k} ELSE {}
Happened ==
    UNION {Seen("retried", \E e \in Events : outbox[e].attempts > 1),
           Seen("second", Cardinality({e \in Events : event[e].kind = "behaviour"}) > 1),
           Seen("visit", \E e \in Events : event[e].visitor),
           Seen("identified", visitor.bound),
           Seen("archived", contact # "active"),
           Seen("restored", contact = "restored"),
           Seen("adjusted", adjusted # {}),
           Seen("days", day > 0)}
MayHappen(k) == Happened \cup {k} \in Together
MayBehave(e) == (\A f \in Events \ {e} : event[f].kind # "behaviour") \/ MayHappen("second")
MayClaim(e) ==
    /\ outbox[e].attempts < MaxAttempts
    /\ outbox[e].attempts > 0 => MayHappen("retried")

\* Ids that are left beyond those the running decays may need (a bound).
Spare ==
    Cardinality({e \in Events : event[e].kind = "absent"})
        > Cardinality({p \in Procs : proc[p].pc = "decay"})

\* contactEventStatements: the event, its outbox row and its projections.
Create(e, fresh) ==
    /\ event[e].kind = "absent"
    /\ event' = [event EXCEPT ![e] = fresh]
    /\ outbox' = [outbox EXCEPT ![e] = Free(NoRow, "pending", TRUE)]
    /\ projection' = [projection EXCEPT ![e] = [q \in Projections |-> "pending"]]
    /\ occurred' = [occurred EXCEPT ![e] = day]

\* finishProjection, conditional on the lease.
SetFinishedBlindly(p, outcome) ==      \* fault: a lost lease is not noticed
    projection' = [projection EXCEPT ![proc[p].event][Current(p)] = outcome]
SetFinished(p, outcome) ==
    LET e == proc[p].event
    IN projection' =
           IF Holds(p, e) /\ projection[e][Current(p)] = "pending"
           THEN [projection EXCEPT ![e][Current(p)] = outcome] ELSE projection
-----------------------------------------------------------------------------
(* Producers, the binding of the visitor and archival.                     *)

\* ContactEventRepository.create for a known contact.
Record(e) ==
    /\ Active /\ Spare /\ MayBehave(e)
    /\ Create(e, [kind |-> "behaviour", owner |-> "live", visitor |-> FALSE])
    /\ UNCHANGED <<clock, adjusted, effects, visitor, proc>>

\* ... and for a visitor: the binding is looked up by the statement itself.
RecordVisit(e) ==
    /\ Spare /\ MayBehave(e) /\ MayHappen("visit")
    /\ Create(e, [kind |-> "behaviour", visitor |-> TRUE,
                  owner |-> IF visitor.bound THEN "live" ELSE "nobody"])
    /\ UNCHANGED <<clock, adjusted, effects, visitor, proc>>

\* VisitorRepository.bind
Bind ==
    /\ ~visitor.bound /\ Active
    /\ MayHappen("identified")
    /\ visitor' = [visitor EXCEPT !.bound = TRUE]
    /\ UNCHANGED <<people, work, effects, proc>>

\* archiveContact, restoreContact
ArchiveContact ==
    /\ contact = "active"
    /\ MayHappen("archived")
    /\ contact' = "archived"
    /\ UNCHANGED <<day, occurred, adjusted, work, effects, visitor, proc>>
RestoreContact ==
    /\ contact = "archived"
    /\ MayHappen("restored")
    /\ contact' = "restored"
    /\ UNCHANGED <<day, occurred, adjusted, work, effects, visitor, proc>>

\* purgeProcessedContactEventWork: the row goes, the event stays.
Purge(e) ==
    /\ outbox[e].status = "processed"
    /\ outbox' = [outbox EXCEPT ![e] = NoRow]
    /\ UNCHANGED <<people, event, projection, effects, visitor, proc>>
-----------------------------------------------------------------------------
(* ContactEventProcessor.process, called by the producer, by a message of  *)
(* the event, by the history worker and by every cron pass.                *)

\* claim, its UPDATE.
Claim(p, e) ==
    /\ proc[p].pc = "idle"
    /\ DueWork(e) /\ MayClaim(e)
    /\ outbox' = [outbox EXCEPT ![e] = [status |-> "processing", lease |-> p,
           expired |-> FALSE, due |-> TRUE, attempts |-> @.attempts + 1]]
    /\ proc' = [proc EXCEPT ![p] = [Idle EXCEPT !.pc = "load", !.event = e]]
    /\ UNCHANGED <<people, event, projection, effects, visitor>>

\* claim, its SELECT by lease, and the first look at the contact.
Load(p) ==
    LET e == proc[p].event
    IN /\ proc[p].pc = "load"
       /\ IF outbox[e].lease = p
          THEN proc' = [proc EXCEPT ![p].owner = event[e].owner,
                   ![p].pc = IF event[e].owner # "nobody" /\ Active THEN "list" ELSE "skip"]
          ELSE Return(p)
       /\ UNCHANGED <<people, work, effects, visitor>>

\* skipPending, then markProcessed.
SkipPending(p) ==
    LET e == proc[p].event
    IN /\ proc[p].pc = "skip"
       /\ projection' = IF Holds(p, e)
              THEN [projection EXCEPT ![e] = [q \in Projections |->
                        IF @[q] = "pending" THEN "skipped" ELSE @[q]]]
              ELSE projection
       /\ Goto(p, "mark")
       /\ UNCHANGED <<people, event, outbox, effects, visitor>>

\* pendingProjections
List(p) ==
    LET todo == {q \in Projections : projection[proc[p].event][q] = "pending"}
    IN /\ proc[p].pc = "list"
       /\ proc' = [proc EXCEPT ![p].todo = todo,
                               ![p].pc = IF todo = {} THEN "mark" ELSE "check"]
       /\ UNCHANGED <<people, work, effects, visitor>>

\* A replayed event skips what must not happen again for an old visit.
SkipReplayed(p) ==
    /\ proc[p].pc = "check"
    /\ proc[p].owner = "history" /\ Current(p) \notin HistoryProjections
    /\ SetFinished(p, "skipped")
    /\ Advance(p)
    /\ UNCHANGED <<people, event, outbox, effects, visitor>>

\* isContactProcessable before each projection.
Checked(p) == IF ~Active THEN "skip" ELSE IF Current(p) \in Effective THEN "run" ELSE "finish"
CheckContact(p) ==
    /\ proc[p].pc = "check"
    /\ proc[p].owner = "history" => Current(p) \in HistoryProjections
    /\ Goto(p, Checked(p))
    /\ UNCHANGED <<people, work, effects, visitor>>

Running(p, q) == proc[p].pc = "run" /\ Current(p) = q

\* applyScoringForEvent; a score_changed event has no rules.
ProjectScoring(p) ==
    LET e == proc[p].event
    IN /\ Running(p, "scoring")
       /\ IF event[e].kind = "behaviour" THEN ApplyScore(e, day) ELSE UNCHANGED ledger
       /\ Goto(p, "finish")
       /\ UNCHANGED <<people, work, grade, touched, enrolled, visitor>>

\* recomputeContactGrade: read the contact, and return if there is nothing to change.
ProjectGrade(p) ==
    /\ Running(p, "grade")
    /\ proc' = IF Active /\ GradeOf(score) # grade
               THEN [proc EXCEPT ![p].pc = "swap",
                                 ![p].read = [score |-> score, grade |-> grade]]
               ELSE [proc EXCEPT ![p].pc = "finish"]
    /\ UNCHANGED <<people, work, effects, visitor>>

\* ... set the points if the contact is what was read, else read it again.  The
\* code gives up after the fifth attempt, which Fail stands for.
SwapBlindly(p) ==           \* fault: the points are written whatever was read
    /\ proc[p].pc = "swap"
    /\ grade' = GradeOf(proc[p].read.score)
    /\ Goto(p, "finish")
    /\ UNCHANGED <<people, work, ledger, touched, enrolled, visitor>>
SwapGrade(p) ==
    /\ proc[p].pc = "swap"
    /\ SetGradePoints(proc[p].read)
    /\ proc' = [proc EXCEPT ![p].read = None,
           ![p].pc = IF Active /\ score = proc[p].read.score
                        /\ grade = proc[p].read.grade
                     THEN "finish" ELSE "run"]
    /\ UNCHANGED <<people, work, ledger, touched, enrolled, visitor>>

\* recordCampaignTouches: unique by event and project, and not asking for the contact.
ProjectCampaign(p) ==
    /\ Running(p, "campaign")
    /\ touched' = touched \cup {proc[p].event}
    /\ Goto(p, "finish")
    /\ UNCHANGED <<people, work, ledger, grade, enrolled, visitor>>

\* enrollAutomationsForEvent: unique by automation, contact and event; see
\* AutomationRuns for the rules of re-entry.
ProjectEnrollment(p) ==
    /\ Running(p, "automation_enrollment")
    /\ enrolled' = IF Active THEN enrolled \cup {proc[p].event} ELSE enrolled
    /\ Goto(p, "finish")
    /\ UNCHANGED <<people, work, ledger, grade, touched, visitor>>

Finish(p) ==
    /\ proc[p].pc = "finish"
    /\ SetFinished(p, "completed")
    /\ Advance(p)
    /\ UNCHANGED <<people, event, outbox, effects, visitor>>

\* markProcessed: nothing pending, under the exact lease.
MarkProcessed(p) ==
    LET e == proc[p].event
    IN /\ proc[p].pc = "mark"
       /\ outbox' = IF Holds(p, e) /\ \A q \in Projections : projection[e][q] # "pending"
                    THEN [outbox EXCEPT ![e] = Free(@, "processed", TRUE)]
                    ELSE outbox
       /\ Return(p)
       /\ UNCHANGED <<people, event, projection, effects, visitor>>

Processing(p) == proc[p].pc \in {"load", "list", "check", "run", "swap", "finish", "skip",
                                 "mark"}

\* Any await may throw: markFailed gives the row back until the next attempt.
Fail(p) ==
    LET e == proc[p].event
    IN /\ Processing(p) /\ proc[p].pc # "load"
       /\ outbox' = IF Holds(p, e) THEN [outbox EXCEPT ![e] = Free(@, "pending", FALSE)]
                    ELSE outbox
       /\ Return(p)
       /\ UNCHANGED <<people, event, projection, effects, visitor>>
-----------------------------------------------------------------------------
(* processVisitorHistory, from a message or a cron pass.                   *)

ClaimHistory(p) ==
    /\ proc[p].pc = "idle"
    /\ visitor.bound /\ visitor.history = "pending"
    /\ visitor.lease = None \/ visitor.expired
    /\ visitor' = [visitor EXCEPT !.lease = p, !.expired = FALSE]
    /\ Goto(p, "contact")
    /\ UNCHANGED <<people, work, effects>>

\* findContact: the history of an archived contact is closed as it is.
FindContact(p) ==
    /\ proc[p].pc = "contact"
    /\ Goto(p, IF Active THEN "events" ELSE "close")
    /\ UNCHANGED <<people, work, effects, visitor>>

Unowned == {e \in Events : event[e].visitor /\ event[e].owner = "nobody"}

\* restoreHistory, its SELECT.
ListHistory(p) ==
    /\ proc[p].pc = "events"
    /\ proc' = [proc EXCEPT ![p].ids = Unowned,
                            ![p].pc = IF Unowned = {} THEN "work" ELSE "restore"]
    /\ UNCHANGED <<people, work, effects, visitor>>

\* restoreHistory, the batch of one event: only the owner is conditional.
RestoreBeside(p, e) ==      \* fault: the outbox row there is left as it is
    LET rest == proc[p].ids \ {e}
    IN /\ proc[p].pc = "restore" /\ e \in proc[p].ids
       /\ event' = IF event[e].owner = "nobody"
                   THEN [event EXCEPT ![e].owner = "history"] ELSE event
       /\ outbox' = [outbox EXCEPT ![e] =
              IF @.status = "absent" THEN Free(@, "pending", TRUE) ELSE @]
       /\ projection' = [projection EXCEPT ![e] = [q \in Projections |->
              IF q \in HistoryProjections THEN "pending" ELSE @[q]]]
       /\ proc' = [proc EXCEPT ![p].ids = rest,
                               ![p].pc = IF rest = {} THEN "work" ELSE "restore"]
       /\ UNCHANGED <<people, effects, visitor>>
RestoreEvent(p, e) ==
    LET rest == proc[p].ids \ {e}
    IN /\ proc[p].pc = "restore" /\ e \in proc[p].ids
       /\ event' = IF event[e].owner = "nobody"
                   THEN [event EXCEPT ![e].owner = "history"] ELSE event
       /\ outbox' = [outbox EXCEPT ![e] = Free(@, "pending", TRUE)]
       /\ projection' = [projection EXCEPT ![e] = [q \in Projections |->
              IF q \in HistoryProjections THEN "pending" ELSE @[q]]]
       /\ proc' = [proc EXCEPT ![p].ids = rest,
                               ![p].pc = IF rest = {} THEN "work" ELSE "restore"]
       /\ UNCHANGED <<people, effects, visitor>>

\* hasHistoryWork, after the restored events were processed or not, then the message
\* to the segments.
HistoryWork ==
    \/ Unowned # {}
    \/ \E e \in Events : event[e].visitor /\ event[e].owner = "history"
                        /\ outbox[e].status \in {"pending", "processing"}
LookForWork(p) ==
    /\ proc[p].pc = "work"
    /\ Goto(p, IF HistoryWork THEN "release" ELSE "close")
    /\ UNCHANGED <<people, work, effects, visitor>>

\* releaseHistory, under the exact lease.
Released(p, history) ==
    visitor' = IF visitor.lease = p
               THEN [visitor EXCEPT !.history = history, !.lease = None, !.expired = FALSE]
               ELSE visitor
ReleaseHistory(p) ==
    /\ proc[p].pc \in {"close", "release"}
    /\ Released(p, IF proc[p].pc = "close" THEN "done" ELSE "pending")
    /\ Return(p)
    /\ UNCHANGED <<people, work, effects>>

\* An error on the way releases the lease with the work not done.
FailHistoryDone(p) ==       \* fault: the history is closed in a finally
    /\ proc[p].pc \in {"contact", "events", "restore", "work"}
    /\ Released(p, "done")
    /\ Return(p)
    /\ UNCHANGED <<people, work, effects>>
FailHistory(p) ==
    /\ proc[p].pc \in {"contact", "events", "restore", "work"}
    /\ Released(p, "pending")
    /\ Return(p)
    /\ UNCHANGED <<people, work, effects>>
-----------------------------------------------------------------------------
(* runScoringDecay, from cron or from a message that keeps its cutoff.     *)

ListDue(p, e, r, now) ==
    /\ proc[p].pc = "idle" /\ Spare
    /\ now <= day /\ <<e, r>> \in Due(now)
    /\ proc' = [proc EXCEPT ![p] = [Idle EXCEPT !.pc = "decay", !.event = e,
           !.read = [initial |-> contribution[<<e, r>>].initial,
                     remaining |-> contribution[<<e, r>>].remaining,
                     next |-> contribution[<<e, r>>].next, rule |-> r, now |-> now]]]
    /\ UNCHANGED <<people, work, effects, visitor>>

DecayedKey(p) == <<proc[p].event, proc[p].read.rule>>

\* decay, when the rounded remainder is the same.
DecayDate(p) ==
    /\ proc[p].pc = "decay"
    /\ DecayDelta(DecayedKey(p), proc[p].read, proc[p].read.now) >= 0
    /\ DecayDateOnly(DecayedKey(p), proc[p].read, proc[p].read.now)
    /\ Return(p)
    /\ UNCHANGED <<people, work, grade, touched, enrolled, visitor>>

\* decay, the swap and the score_changed event d in one batch.
Decay(p, d) ==
    /\ proc[p].pc = "decay"
    /\ DecayDelta(DecayedKey(p), proc[p].read, proc[p].read.now) < 0
    /\ SameRow(DecayedKey(p), proc[p].read)
    /\ DecayBatch(DecayedKey(p), proc[p].read, proc[p].read.now)
    /\ Create(d, [kind |-> "score_changed", owner |-> "live", visitor |-> FALSE])
    /\ Return(p)
    /\ UNCHANGED <<clock, adjusted, grade, touched, enrolled, visitor>>

\* ... which loses if the row has moved.
DecayLoses(p) ==
    /\ proc[p].pc = "decay"
    /\ DecayDelta(DecayedKey(p), proc[p].read, proc[p].read.now) < 0
    /\ ~SameRow(DecayedKey(p), proc[p].read)
    /\ Return(p)
    /\ UNCHANGED <<people, work, effects, visitor>>
-----------------------------------------------------------------------------
(* Adjustments, the nightly correction, time and crashes.                  *)

beside == <<event, outbox, projection, visitor, touched, enrolled, proc>>

Adjust(a) == MayHappen("adjusted") /\ AdjustScore(a) /\ UNCHANGED beside
Reconcile == ReconcileContactScores /\ UNCHANGED beside

NextDay ==
    /\ day < MaxDay /\ MayHappen("days")
    /\ day' = day + 1
    /\ UNCHANGED <<contact, occurred, adjusted, work, effects, visitor, proc>>

LeaseExpires(e) ==
    /\ outbox[e].status = "processing" /\ ~outbox[e].expired
    /\ outbox' = [outbox EXCEPT ![e].expired = TRUE]
    /\ UNCHANGED <<people, event, projection, effects, visitor, proc>>

RetryFallsDue(e) ==
    /\ outbox[e].status = "pending" /\ ~outbox[e].due
    /\ outbox' = [outbox EXCEPT ![e].due = TRUE]
    /\ UNCHANGED <<people, event, projection, effects, visitor, proc>>

HistoryLeaseExpires ==
    /\ visitor.lease # None /\ ~visitor.expired
    /\ visitor' = [visitor EXCEPT !.expired = TRUE]
    /\ UNCHANGED <<people, work, effects, proc>>

Crash(p) ==
    /\ proc[p].pc # "idle"
    /\ Return(p)
    /\ UNCHANGED <<people, work, effects, visitor>>

Environment ==
    \/ \E e \in Events : Record(e) \/ RecordVisit(e) \/ Purge(e)
    \/ Bind \/ ArchiveContact \/ RestoreContact
    \/ \E a \in Adjustments : Adjust(a)
    \/ Reconcile
    \/ NextDay
    \/ \E e \in Events : LeaseExpires(e) \/ RetryFallsDue(e)
    \/ HistoryLeaseExpires

Project(p) ==
    \/ ProjectScoring(p) \/ ProjectGrade(p) \/ SwapGrade(p) \/ ProjectCampaign(p)
    \/ ProjectEnrollment(p)

Processor(p) ==
    \/ Load(p) \/ SkipPending(p) \/ List(p) \/ SkipReplayed(p) \/ CheckContact(p)
    \/ Project(p) \/ Finish(p) \/ MarkProcessed(p)

History(p) ==
    \/ ClaimHistory(p) \/ FindContact(p) \/ ListHistory(p) \/ LookForWork(p)
    \/ ReleaseHistory(p) \/ FailHistory(p)
    \/ \E e \in Events : RestoreEvent(p, e)

DecayWorker(p) ==
    \/ \E e \in Events, r \in Rules, now \in 0 .. MaxDay : ListDue(p, e, r, now)
    \/ \E d \in Events : Decay(p, d)
    \/ DecayDate(p) \/ DecayLoses(p)

Next ==
    \/ Environment
    \/ \E p \in Procs :
          \/ \E e \in Events : Claim(p, e)
          \/ Processor(p) \/ Fail(p) \/ Crash(p)
          \/ History(p)
          \/ DecayWorker(p)

Spec == Init /\ [][Next]_vars
-----------------------------------------------------------------------------
(* Properties.                                                             *)

TypeOK ==
    /\ LedgerTypeOK
    /\ event \in [Events -> Event]
    /\ outbox \in [Events -> Row]
    /\ projection \in [Events -> [Projections -> {"absent", "pending", "completed", "skipped"}]]
    /\ visitor \in Binding
    /\ touched \subseteq Events /\ enrolled \subseteq Events
    /\ proc \in [Procs -> ProcState]

\* Projections take effect in their order (event-service.ts): when one is completed no
\* earlier one of the event is still to come, though two processors may hold the event
\* and a history may be restored under them.
ProjectedInOrder ==
    \A e \in Events : \A i, j \in DOMAIN Order :
        i < j /\ projection[e][Order[j]] = "completed" => projection[e][Order[i]] # "pending"

\* An event leaves the outbox only with every projection decided, also when it entered
\* it twice; and a completed one has happened, unless the contact was archived while it
\* ran.
TookEffect(e, q) ==
    CASE q = "scoring" ->
             event[e].kind = "behaviour" => \A r \in Rules : <<e, r>> \in scored
      [] q = "campaign" -> e \in touched
      [] q = "automation_enrollment" -> e \in enrolled
      [] OTHER -> TRUE
ProcessedTookEffect ==
    \A e \in Events, q \in Projections :
        /\ event[e].kind # "absent" /\ outbox[e].status \in {"processed", "absent"}
               => projection[e][q] \in {"completed", "skipped"}
        /\ projection[e][q] = "completed" /\ contact = "active" => TookEffect(e, q)

\* The visits of an anonymous visitor are attributed and scored when he is identified,
\* all of them before the history is closed, and start no automation that late.
HistoryIsRestored ==
    /\ visitor.history = "done" /\ contact = "active" => Unowned = {}
    /\ \A e \in enrolled : event[e].owner = "live"

\* When every event is processed the grade is that of the present score: a decay or a
\* score of another event in between makes the swap fail, or is graded by its own event.
\* Adjustments record no event and are graded with the next one.
GradeFollowsScore ==
    contact = "active" /\ adjusted = {}
        /\ (\A e \in Events : outbox[e].status \in {"processed", "absent"})
    => grade = GradeOf(score)

\* An archived contact is left alone: no point, grade or enrollment is added by a
\* processor or a decay that looked at him before.  The sweep may only sum up again.
ArchivedLeftAlone ==
    [][contact = "archived" =>
           UNCHANGED <<logged, scored, contribution, category, grade, enrolled>>]_vars
=============================================================================
