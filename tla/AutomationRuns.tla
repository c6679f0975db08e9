--------------------------- MODULE AutomationRuns ---------------------------
(***************************************************************************)
(* Who enters an automation: its drafts and published versions, the        *)
(* enrollment of a contact by an event, by a period of inactivity, by a    *)
(* request or by a batch run, the rule of re-entry, and the runs with      *)
(* their frozen targets.  What an enrollment then does is AutomationEngine.*)
(*                                                                         *)
(* There is one automation.  One D1 statement or batch is one action.  A   *)
(* process is one invocation of the worker.  A run is named by its slot,   *)
(* which is unique.  An archived contact stays archived.                   *)
(***************************************************************************)
EXTENDS Integers

CONSTANTS
    Contacts,
    Graphs,        \* what a draft may hold: [source, reentry]
    Valid,         \* those that validateAutomation and the resource checks let pass
    FirstGraph,    \* the draft of createAutomation
    MaxVersion,    \* bound on automation_versions.version
    Occasions,     \* contact events and requests, each of one contact
    OccasionBy, OccasionOf,  \* "event" or "request"; the contact
    Inactive,      \* source event id of the one period of inactivity of a contact
    Slots,         \* scheduled times and manual request ids of runs
    Cooldown,      \* cooldownMinutes of every graph with that rule
    AttemptLimit,  \* tries of a target, 5 in the code
    MaxTime,       \* bound on the clock
    Silent,        \* contacts that may be found inactive for the trigger's days
    Procs,
    Together,      \* bound: the sets of rare things one behaviour may combine (see Happened)
    None

Versions == 1 .. MaxVersion
Sources == Occasions \cup {Inactive} \cup Slots
Rules == {"once", "every_time", "cooldown"}

\* The rare things whose combinations Together bounds: a version has another graph, a
\* second version is published, the automation is paused, a contact enters it beside the
\* runs, an enrollment has ended, a contact is archived, time has passed, a run is
\* cancelled, the enrollment of a target threw.
RareKinds == {"edited", "republished", "paused", "beside", "ended", "archived", "later",
              "cancelled", "thrown"}

RunsAssumption ==
    /\ \A g \in Graphs : g.source \in {"batch", "event", "inactive"} /\ g.reentry \in Rules
    /\ Valid \subseteq Graphs /\ FirstGraph \in Graphs
    /\ OccasionBy \in [Occasions -> {"event", "request"}]
    /\ OccasionOf \in [Occasions -> Contacts]
    /\ Inactive \notin Occasions \cup Slots /\ Occasions \cap Slots = {}
    /\ MaxVersion \in Nat \ {0} /\ Cooldown \in Nat \ {0} /\ AttemptLimit \in Nat \ {0}
    /\ MaxTime \in Nat
    /\ Silent \subseteq Contacts /\ Together \subseteq SUBSET RareKinds
    /\ None \notin Graphs /\ None \notin Versions /\ None \notin Contacts \cup Sources

VARIABLES
    automation,   \* automations: status, published and draft version
    graph,        \* automation_versions.graph
    archived,     \* contacts that are archived
    enrollment,   \* automation_enrollments, by contact and source event
    run,          \* automation_runs, by slot
    target,       \* automation_run_targets, by slot and contact
    time,
    proc          \* what each invocation holds between two awaits

vars == <<automation, graph, archived, enrollment, run, target, time, proc>>

Automation == [status : {"draft", "active", "paused"}, published : Versions \cup {None},
               draft : Versions]
Enrollment == [status : {"absent", "active", "completed", "failed", "cancelled"},
               version : Versions \cup {None}, entered : 0 .. MaxTime]
Target == [status : {"none", "pending", "enrolled", "skipped", "failed"},
           attempts : 0 .. AttemptLimit]
Run == [status : {"absent", "enrolling", "running", "completed", "failed", "cancelled"},
        version : Versions \cup {None}]
NoEnrollment == [status |-> "absent", version |-> None, entered |-> 0]
NoTarget == [status |-> "none", attempts |-> 0]

PC == {"idle", "published", "start", "targets", "next", "insert", "skip", "fail", "refresh",
       "publish"}
ProcState == [pc : PC, version : Versions \cup {None}, source : Sources \cup {None},
              run : BOOLEAN,                 \* the source is a slot whose targets it enrolls
              todo : SUBSET Contacts, contact : Contacts \cup {None},
              now : 0 .. MaxTime, graph : Graphs \cup {None}]
Idle == [pc |-> "idle", version |-> None, source |-> None, run |-> FALSE, todo |-> {},
         contact |-> None, now |-> 0, graph |-> None]

Init ==
    /\ automation = [status |-> "draft", published |-> None, draft |-> 1]
    /\ graph = [v \in Versions |-> IF v = 1 THEN FirstGraph ELSE None]
    /\ archived = {}
    /\ enrollment = [c \in Contacts |-> [s \in Sources |-> NoEnrollment]]
    /\ run = [r \in Slots |-> [status |-> "absent", version |-> None]]
    /\ target = [r \in Slots |-> [c \in Contacts |-> NoTarget]]
    /\ time = 0
    /\ proc = [p \in Procs |-> Idle]

-----------------------------------------------------------------------------
(* What the statements share.                                              *)

authoring == <<automation, graph>>
runs == <<run, target>>

Return(p) == proc' = [proc EXCEPT ![p] = Idle]
Goto(p, pc) == proc' = [proc EXCEPT ![p].pc = pc]

IsPublished(v) == v # None /\ v < automation.draft
Open(r) == run[r].status \in {"enrolling", "running"}
Entered(c, s) == enrollment[c][s].status # "absent"

\* The published version of an active automation.
Live(source) ==
    /\ automation.status = "active"
    /\ graph[automation.published].source = source

Seen(k, condition) == IF condition THEN {k} ELSE {}
Happened ==
    UNION {Seen("edited", \E v \in Versions : graph[v] \notin {FirstGraph, None}),
           Seen("republished", automation.draft > 2),
           Seen("paused", automation.status = "paused"),
           Seen("beside", \/ \E p \in Procs : proc[p].source \notin Slots \cup {None}
                          \/ \E c \in Contacts, s \in Sources \ Slots : Entered(c, s)),
           Seen("ended", \E c \in Contacts, s \in Sources :
                             enrollment[c][s].status \in {"completed", "failed"}),
           Seen("archived", archived # {}),
           Seen("later", time > 0),
           Seen("cancelled", \E r \in Slots : run[r].status = "cancelled"),
           Seen("thrown", \/ \E p \in Procs : proc[p].pc = "fail"
                          \/ \E r \in Slots, c \in Contacts : target[r][c].attempts > 0)}
MayHappen(k) == Happened \cup {k} \in Together

\* On to the next target of a run; an enrollment by a trigger is done.
NextTarget(p) ==
    LET rest == proc[p].todo \ {proc[p].contact}
    IN proc' = [proc EXCEPT ![p] =
           IF ~proc[p].run THEN Idle
           ELSE [@ EXCEPT !.todo = rest, !.contact = None, !.now = 0,
                          !.pc = IF rest = {} THEN "refresh" ELSE "next"]]

-----------------------------------------------------------------------------
(* Authoring.                                                              *)

\* saveDraft
SaveDraft(g) ==
    /\ g # FirstGraph => MayHappen("edited")
    /\ graph' = [graph EXCEPT ![automation.draft] = g]
    /\ UNCHANGED <<automation, archived, enrollment, runs, time, proc>>

\* findPublishableDraft and the checks, which end the publication of what is not valid.
FindDraft(p) ==
    /\ proc[p].pc = "idle"
    /\ graph[automation.draft] \in Valid
    /\ automation.draft > 1 => MayHappen("republished")
    /\ proc' = [proc EXCEPT ![p] = [Idle EXCEPT !.pc = "publish",
           !.version = automation.draft, !.graph = graph[automation.draft]]]
    /\ UNCHANGED <<authoring, archived, enrollment, runs, time>>

\* publishDraft: the draft is what was read; its copy becomes the next draft.
PublishAnyGraph(p) ==       \* fault: the graph is not compared with what was checked
    LET v == proc[p].version
    IN /\ proc[p].pc = "publish"
       /\ v = automation.draft => v < MaxVersion
       /\ IF automation.draft = v
          THEN /\ automation' = [status |-> "active", published |-> v, draft |-> v + 1]
               /\ graph' = [graph EXCEPT ![v + 1] = graph[v]]
          ELSE UNCHANGED authoring
       /\ Return(p)
       /\ UNCHANGED <<archived, enrollment, runs, time>>
PublishDraft(p) ==
    LET v == proc[p].version
    IN /\ proc[p].pc = "publish"
       /\ v = automation.draft => v < MaxVersion
       /\ IF automation.draft = v /\ graph[v] = proc[p].graph
          THEN /\ automation' = [status |-> "active", published |-> v, draft |-> v + 1]
               /\ graph' = [graph EXCEPT ![v + 1] = proc[p].graph]
          ELSE UNCHANGED authoring
       /\ Return(p)
       /\ UNCHANGED <<archived, enrollment, runs, time>>

\* setAutomationStatus
SetStatus(status) ==
    /\ automation.status \in {"active", "paused"}
    /\ status = "paused" => MayHappen("paused")
    /\ automation' = [automation EXCEPT !.status = status]
    /\ UNCHANGED <<graph, archived, enrollment, runs, time, proc>>

-----------------------------------------------------------------------------
(* Enrollment.  A trigger is read with the published version; the insert   *)
(* asks for the contact and the earlier enrollments, not for the           *)
(* automation's status.                                                    *)

EnrollBy(p, c, s) ==
    /\ MayHappen("beside")
    /\ proc' = [proc EXCEPT ![p] = [Idle EXCEPT !.pc = "next", !.todo = {c}, !.source = s,
                                                !.version = automation.published]]

\* enrollAutomationsForEvent, for an event or its retry; enrollContactManually.
FindTrigger(p, o) ==
    /\ proc[p].pc = "idle"
    /\ \/ OccasionBy[o] = "event" /\ Live("event")
       \/ OccasionBy[o] = "request" /\ automation.status = "active"
    /\ EnrollBy(p, OccasionOf[o], o)
    /\ UNCHANGED <<authoring, archived, enrollment, runs, time>>

\* listInactiveEnrollmentCandidates
ListInactive(p, c) ==
    /\ proc[p].pc = "idle"
    /\ Live("inactive")
    /\ c \in Silent \ archived
    /\ IF graph[automation.published].reentry = "once"
       THEN \A s \in Sources : ~Entered(c, s) ELSE ~Entered(c, Inactive)
    /\ EnrollBy(p, c, Inactive)
    /\ UNCHANGED <<authoring, archived, enrollment, runs, time>>

\* enrollContact: the version is read and the time taken before the batch.
ReadVersion(p, c) ==
    /\ proc[p].pc = "next" /\ c \in proc[p].todo
    /\ proc' = [proc EXCEPT ![p].pc = "insert", ![p].contact = c, ![p].now = time]
    /\ UNCHANGED <<authoring, archived, enrollment, runs, time>>

\* No earlier enrollment that the rule counts.
NoneActive(p) ==            \* fault: an enrollment that ended is not counted
    \A s \in Sources : enrollment[proc[p].contact][s].status # "active"
NonePrior(p) ==
    LET rule == graph[proc[p].version].reentry
    IN \A s \in Sources :
          Entered(proc[p].contact, s) =>
              \/ rule = "every_time"
              \/ /\ rule = "cooldown"
                 /\ enrollment[proc[p].contact][s].entered <= proc[p].now - Cooldown

Admitted(p) ==
    /\ IsPublished(proc[p].version)
    /\ proc[p].contact \notin archived
    /\ NonePrior(p)
    /\ ~Entered(proc[p].contact, proc[p].source)
    /\ proc[p].run => /\ run[proc[p].source].status = "enrolling"
                      /\ target[proc[p].source][proc[p].contact].status = "pending"

\* The batch: enrollment, first job and, for a run, the target.
InsertEnrollment(p) ==
    /\ enrollment' = [enrollment EXCEPT ![proc[p].contact][proc[p].source] =
           [status |-> "active", version |-> proc[p].version, entered |-> proc[p].now]]
    /\ target' = IF proc[p].run
                 THEN [target EXCEPT ![proc[p].source][proc[p].contact].status = "enrolled"]
                 ELSE target

Enroll(p) ==
    /\ proc[p].pc = "insert"
    /\ Admitted(p)
    /\ InsertEnrollment(p)
    /\ NextTarget(p)
    /\ UNCHANGED <<authoring, archived, run, time>>

\* The contact is gone or was enrolled before: null, for which a run skips the target.
Refuse(p) ==
    /\ proc[p].pc = "insert"
    /\ ~Admitted(p)
    /\ IF proc[p].run THEN Goto(p, "skip") ELSE Return(p)
    /\ UNCHANGED <<authoring, archived, enrollment, runs, time>>

\* The call throws, with the batch committed or not.
Throw(p) ==
    /\ proc[p].pc = "insert" /\ MayHappen("thrown")
    /\ \/ Admitted(p) /\ InsertEnrollment(p)
       \/ UNCHANGED <<enrollment, target>>
    /\ IF proc[p].run THEN Goto(p, "fail") ELSE Return(p)
    /\ UNCHANGED <<authoring, archived, run, time>>

-----------------------------------------------------------------------------
(* Runs.                                                                   *)

\* startRun, by the schedule or a confirmed request: the slot has no run yet.
FindRun(p, r) ==
    /\ proc[p].pc = "idle"
    /\ run[r].status = "absent"
    /\ proc' = [proc EXCEPT ![p] = [Idle EXCEPT !.pc = "published", !.source = r]]
    /\ UNCHANGED <<authoring, archived, enrollment, runs, time>>

\* published
ReadPublished(p) ==
    /\ proc[p].pc = "published"
    /\ IF Live("batch")
       THEN proc' = [proc EXCEPT ![p].pc = "start", ![p].version = automation.published]
       ELSE Return(p)
    /\ UNCHANGED <<authoring, archived, enrollment, runs, time>>

\* The batch that inserts the run and freezes the audience, all who are not archived.
StartRun(p) ==
    LET r == proc[p].source
    IN /\ proc[p].pc = "start"
       /\ IF /\ automation.status = "active" /\ automation.published = proc[p].version
             /\ run[r].status = "absent"
          THEN /\ run' = [run EXCEPT ![r] = [status |-> "enrolling", version |-> proc[p].version]]
               /\ target' = [target EXCEPT ![r] = [c \in Contacts |->
                     IF c \in archived THEN NoTarget
                     ELSE [NoTarget EXCEPT !.status = "pending"]]]
          ELSE UNCHANGED runs
       /\ Return(p)
       /\ UNCHANGED <<authoring, archived, enrollment, time>>

\* processAutomationRun, from a message of the starter, of the run before or of cron,
\* which sends one for every open run: runVersion.
BeginRun(p, r) ==
    /\ proc[p].pc = "idle"
    /\ Open(r)
    /\ proc' = [proc EXCEPT ![p] = [Idle EXCEPT !.pc = "targets", !.source = r, !.run = TRUE,
                                                !.version = run[r].version]]
    /\ UNCHANGED <<authoring, archived, enrollment, runs, time>>

\* pendingTargets
ListTargets(p) ==
    LET r == proc[p].source
        todo == {c \in Contacts : run[r].status = "enrolling" /\ target[r][c].status = "pending"}
    IN /\ proc[p].pc = "targets"
       /\ proc' = [proc EXCEPT ![p].todo = todo,
                               ![p].pc = IF todo = {} THEN "refresh" ELSE "next"]
       /\ UNCHANGED <<authoring, archived, enrollment, runs, time>>

\* skipTarget and failTarget, of a target that is still pending.
SkipAnyTarget(p) ==         \* fault: not only a pending one
    /\ proc[p].pc = "skip"
    /\ target' = [target EXCEPT ![proc[p].source][proc[p].contact].status = "skipped"]
    /\ NextTarget(p)
    /\ UNCHANGED <<authoring, archived, enrollment, run, time>>
SkipTarget(p) ==
    /\ proc[p].pc = "skip"
    /\ target' = [target EXCEPT ![proc[p].source][proc[p].contact] =
           IF @.status = "pending" THEN [@ EXCEPT !.status = "skipped"] ELSE @]
    /\ NextTarget(p)
    /\ UNCHANGED <<authoring, archived, enrollment, run, time>>

FailTargetLate(p) ==        \* fault: one try too many
    /\ proc[p].pc = "fail"
    /\ target' = [target EXCEPT ![proc[p].source][proc[p].contact] =
           IF @.status = "pending"
           THEN [attempts |-> @.attempts + 1,
                 status |-> IF @.attempts >= AttemptLimit THEN "failed" ELSE "pending"]
           ELSE @]
    /\ NextTarget(p)
    /\ UNCHANGED <<authoring, archived, enrollment, run, time>>
FailTarget(p) ==
    /\ proc[p].pc = "fail"
    /\ target' = [target EXCEPT ![proc[p].source][proc[p].contact] =
           IF @.status = "pending"
           THEN [attempts |-> @.attempts + 1,
                 status |-> IF @.attempts >= AttemptLimit - 1 THEN "failed" ELSE "pending"]
           ELSE @]
    /\ NextTarget(p)
    /\ UNCHANGED <<authoring, archived, enrollment, run, time>>

\* refresh: everything is read by the statement itself.
Pending(r) == \E c \in Contacts : target[r][c].status = "pending"
Flowing(r) == \E c \in Contacts :
    target[r][c].status = "enrolled" /\ enrollment[c][r].status = "active"
Failed(r) == \E c \in Contacts :
    \/ target[r][c].status = "failed"
    \/ target[r][c].status = "enrolled" /\ enrollment[c][r].status = "failed"
Refreshed(r) ==
    CASE Pending(r) -> "enrolling"
      [] ~Pending(r) /\ Flowing(r) -> "running"
      [] ~Pending(r) /\ ~Flowing(r) /\ Failed(r) -> "failed"
      [] OTHER -> "completed"

Refresh(p) ==
    LET r == proc[p].source
    IN /\ proc[p].pc = "refresh"
       /\ run' = IF Open(r) THEN [run EXCEPT ![r].status = Refreshed(r)] ELSE run
       /\ Return(p)
       /\ UNCHANGED <<authoring, archived, enrollment, target, time>>

\* cancelRunTree; the jobs and deliveries below the enrollments go with them.
CancelRun(r) ==
    /\ run[r].status # "absent" /\ MayHappen("cancelled")
    /\ run' = IF Open(r) THEN [run EXCEPT ![r].status = "cancelled"] ELSE run
    /\ target' = [target EXCEPT ![r] = [c \in Contacts |->
           IF @[c].status = "pending" THEN [@[c] EXCEPT !.status = "skipped"] ELSE @[c]]]
    /\ enrollment' = [c \in Contacts |-> [enrollment[c] EXCEPT ![r].status =
           IF @ = "active" THEN "cancelled" ELSE @]]
    /\ UNCHANGED <<authoring, archived, time, proc>>

-----------------------------------------------------------------------------
(* The contacts, the engine, time and crashes.                             *)

ArchiveContact(c) ==
    /\ c \notin archived /\ MayHappen("archived")
    /\ archived' = archived \cup {c}
    /\ UNCHANGED <<authoring, enrollment, runs, time, proc>>

\* The enrollment ends (AutomationEngine), or is cancelled on its own.
EndEnrollment(c, s) ==
    /\ enrollment[c][s].status = "active" /\ MayHappen("ended")
    /\ \E status \in {"completed", "failed", "cancelled"} :
          enrollment' = [enrollment EXCEPT ![c][s].status = status]
    /\ UNCHANGED <<authoring, archived, runs, time, proc>>

Tick ==
    /\ time < MaxTime /\ MayHappen("later")
    /\ time' = time + 1
    /\ UNCHANGED <<authoring, archived, enrollment, runs, proc>>

Crash(p) ==
    /\ proc[p].pc # "idle"
    /\ Return(p)
    /\ UNCHANGED <<authoring, archived, enrollment, runs, time>>

Processor(p) ==
    \/ FindDraft(p) \/ PublishDraft(p)
    \/ \E o \in Occasions : FindTrigger(p, o)
    \/ \E c \in Contacts : ListInactive(p, c) \/ ReadVersion(p, c)
    \/ Enroll(p) \/ Refuse(p) \/ Throw(p)
    \/ \E r \in Slots : FindRun(p, r) \/ BeginRun(p, r)
    \/ ReadPublished(p) \/ StartRun(p)
    \/ ListTargets(p) \/ SkipTarget(p) \/ FailTarget(p) \/ Refresh(p)

Next ==
    \/ \E g \in Graphs : SaveDraft(g)
    \/ \E status \in {"active", "paused"} : SetStatus(status)
    \/ \E p \in Procs : Processor(p) \/ Crash(p)
    \/ \E r \in Slots : CancelRun(r)
    \/ \E c \in Contacts : ArchiveContact(c)
    \/ \E c \in Contacts, s \in Sources : EndEnrollment(c, s)
    \/ Tick

Spec == Init /\ [][Next]_vars
-----------------------------------------------------------------------------
(* Properties.                                                             *)

TypeOK ==
    /\ automation \in Automation
    /\ graph \in [Versions -> Graphs \cup {None}]
    /\ archived \subseteq Contacts
    /\ enrollment \in [Contacts -> [Sources -> Enrollment]]
    /\ run \in [Slots -> Run]
    /\ target \in [Slots -> [Contacts -> Target]]
    /\ time \in 0 .. MaxTime
    /\ proc \in [Procs -> ProcState]

\* What was published had passed the checks, though the draft may be saved again while
\* they run.
PublishedWasValidated ==
    \A v \in Versions : v < automation.draft => graph[v] \in Valid

\* The rule of re-entry is kept between the enrollments of a contact, whatever triggers,
\* requests and runs insert them at once: under "once" there is one, under a cooldown
\* they are at least that far apart.
RuleOf(c, s) == graph[enrollment[c][s].version].reentry
ReentryKept ==
    \A c \in Contacts, s, t \in Sources :
        s # t /\ Entered(c, s) /\ Entered(c, t) =>
            /\ ~(RuleOf(c, s) = "once" /\ RuleOf(c, t) = "once")
            /\ RuleOf(c, s) = "cooldown" /\ RuleOf(c, t) = "cooldown" =>
                  \/ enrollment[c][s].entered - enrollment[c][t].entered >= Cooldown
                  \/ enrollment[c][t].entered - enrollment[c][s].entered >= Cooldown

\* The runs keep the promise of BatchRun.
Abstract == INSTANCE BatchRun WITH
    Runs <- Slots,
    state <- [r \in Slots |-> IF Open(r) THEN "open" ELSE run[r].status],
    decision <- [r \in Slots |-> [c \in Contacts |-> target[r][c].status]],
    flow <- [r \in Slots |-> [c \in Contacts |-> enrollment[c][r].status]]
ImplementsBatchRun == Abstract!Spec
=============================================================================
