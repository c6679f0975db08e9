-------------------------------- MODULE MCJobs --------------------------------
(***************************************************************************)
(* The jobs that are carried on piece by piece by messages of the queue:   *)
(* the import of contacts, the batch run of an automation, the members of  *)
(* a program with their import, the clone of a project, and the making of  *)
(* a landing page.  They have no row in common, so nothing is gained from  *)
(* their interleavings: one of them is chosen at first, and the others do  *)
(* not begin.  Each disjunct of Next is one action of the job it names.    *)
(***************************************************************************)
EXTENDS Integers, Sequences, FiniteSets, TLC

CONSTANTS
    Procs,                         \* invocations of the worker
    None,
    c1, c2,                        \* contacts
    a, x, b, key,                  \* rows and identifiers of an import of contacts
    visit, ask, silence, slot,     \* what a contact enters an automation by
    invited, attended, absent,     \* statuses of a program
    form, correct, automated       \* commands to its members

Symmetry == Permutations(Procs)

VARIABLES
    active,        \* the job that is carried on
    importJob, part, contact, holder, reconciled, importer,
    automation, graph, archived, enrollment, run, target, time, runner,
    journey, recorded, published, open, gone, authorized, memberJob, report, member,
    cloneJob, staged, copies, usable, cloner,
    page, versions, pageJob, image, late, experiment, rare, author

importVars == <<importJob, part, contact, holder, reconciled, importer>>
runVars == <<automation, graph, archived, enrollment, run, target, time, runner>>
memberVars == <<journey, recorded, published, open, gone, authorized, memberJob, report,
                member>>
cloneVars == <<cloneJob, staged, copies, usable, cloner>>
pageVars == <<page, versions, pageJob, image, late, experiment, rare, author>>
vars == <<active, importVars, runVars, memberVars, cloneVars, pageVars>>

-----------------------------------------------------------------------------
(* Two parts of an import: the first has a row with an identifier and one  *)
(* without, the second a row with the identifier of the first.             *)
Lines == 0 :> {a, x} @@ 1 :> {b}
Identifiers == a :> key @@ b :> key @@ x :> None

OneKey == {key}

Imports == INSTANCE ContactImports WITH
    TotalParts <- 2, RowsOf <- Lines, Keys <- OneKey, KeyOf <- Identifiers, AttemptLimit <- 2,
    job <- importJob, proc <- importer

(* An automation with a trigger by batch, event or inactivity; a contact   *)
(* that may enter by an event, by hand, by inactivity and by a run.        *)
BatchCooldown == [source |-> "batch", reentry |-> "cooldown"]
EventOnce == [source |-> "event", reentry |-> "once"]
InactiveOnce == [source |-> "inactive", reentry |-> "once"]
Broken == [source |-> "batch", reentry |-> "every_time"]    \* refused by the checks
Combined == UNION {SUBSET kinds : kinds \in
    {{"edited", "beside"}, {"republished"}, {"beside", "later"}, {"beside", "ended"},
     {"ended", "cancelled"}, {"paused"}, {"archived"}, {"thrown"}}}

Graphs == {BatchCooldown, EventOnce, InactiveOnce, Broken}
Valid == Graphs \ {Broken}
TwoContacts == {c1, c2}
OneContact == {c1}
OneSlot == {slot}
Occasions == {visit, ask}
BySelf == [o \in Occasions |-> IF o = visit THEN "event" ELSE "request"]
OfFirst == [o \in Occasions |-> c1]
Entries == {visit, ask, silence, slot}

Runs == INSTANCE AutomationRuns WITH
    Contacts <- TwoContacts, FirstGraph <- BatchCooldown, MaxVersion <- 3,
    OccasionBy <- BySelf, OccasionOf <- OfFirst, Inactive <- silence, Slots <- OneSlot,
    Cooldown <- 1, AttemptLimit <- 2, MaxTime <- 1, Silent <- OneContact,
    Together <- Combined, proc <- runner

(* Two versions of a program's definition; commands to one member by a     *)
(* form of the first version, by an operator who corrects what they saw,   *)
(* and by an automation; a file of a row that does not parse and one that  *)
(* does.                                                                   *)
TwoVersions ==
    <<[statuses |-> {invited, attended, absent}, initial |-> invited, success |-> {attended},
       next |-> invited :> {attended, absent} @@ attended :> {} @@ absent :> {}],
      [statuses |-> {invited, attended}, initial |-> invited, success |-> {attended},
       next |-> invited :> {attended} @@ attended :> {}]>>
Tell(status, version, source, correction, expected) ==
    [contact |-> c1, status |-> status, version |-> version, source |-> source,
     correction |-> correction, expected |-> expected]
Commands ==
    form :> Tell(absent, 1, "form", FALSE, None)
    @@ correct :> Tell(invited, None, "manual", TRUE, 1)
    @@ automated :> Tell(attended, None, "automation", FALSE, None)
    @@ 1 :> Tell(None, None, "csv", FALSE, None)
    @@ 2 :> Tell(attended, None, "csv", FALSE, None)

Calls == {form, correct, automated}
Asked == [commands |-> {form, correct}, automated |-> {automated}]
SecondRow == {2}

Members == INSTANCE ProgramMembers WITH
    Definition <- TwoVersions, Contacts <- OneContact, Command <- Commands, Total <- 2,
    Readable <- SecondRow, Unit <- 1, MaxTries <- 2, MaxChanges <- 2,
    job <- memberJob, proc <- member

(* Three resources, two of which are staged by one invocation.             *)
Clones == INSTANCE CloneJobs WITH Size <- 3, Chunk <- 2, job <- cloneJob, proc <- cloner

(* Every kind of save, at most three versions, one request to the agent    *)
(* and one image.                                                          *)
Saves == [kind : {"document", "name"}, status : {None}]
         \cup [kind : {"content"}, status : {"draft", "published"}]
Beside == UNION {SUBSET kinds : kinds \in
    {{"generation", "trouble"}, {"generation", "image"}, {"generation", "content"},
     {"content", "archived"},
     {"content", "unnamed"}, {"restored", "experiment"}}}

Landing == INSTANCE LandingPages WITH
    Requests <- OneKey, Edits <- Saves, MaxVersions <- 3, MaxImages <- 1,
    Together <- Beside, job <- pageJob, proc <- author

ASSUME JobsAssumption ==
    /\ Imports!ImportAssumption /\ Runs!RunsAssumption
    /\ Members!ProgramAssumption /\ Clones!CloneAssumption /\ Landing!LandingAssumption
-----------------------------------------------------------------------------
NotImporting ==
    /\ importJob = None /\ part = None /\ contact = None /\ holder = None
    /\ reconciled = None /\ importer = None
NotRunning ==
    /\ automation = None /\ graph = None /\ archived = None /\ enrollment = None
    /\ run = None /\ target = None /\ time = None /\ runner = None
NotChanging ==
    /\ journey = None /\ recorded = None /\ published = None /\ open = None /\ gone = None
    /\ authorized = None /\ memberJob = None /\ report = None /\ member = None
NotCloning ==
    /\ cloneJob = None /\ staged = None /\ copies = None /\ usable = None /\ cloner = None
NotEditing ==
    /\ page = None /\ versions = None /\ pageJob = None /\ image = None /\ late = None
    /\ experiment = None /\ rare = None /\ author = None

Init ==
    \/ active = "import" /\ Imports!Init /\ NotRunning /\ NotChanging /\ NotCloning /\ NotEditing
    \/ active = "run" /\ Runs!Init /\ NotImporting /\ NotChanging /\ NotCloning /\ NotEditing
    \/ /\ active \in {"commands", "automated"}
       /\ Members!Init /\ NotImporting /\ NotRunning /\ NotCloning /\ NotEditing
    \/ active = "clone" /\ Clones!Init /\ NotImporting /\ NotRunning /\ NotChanging /\ NotEditing
    \/ active = "page" /\ Landing!Init /\ NotImporting /\ NotRunning /\ NotChanging /\ NotCloning

Importing == active = "import"
OnlyImporting == UNCHANGED <<active, runVars, memberVars, cloneVars, pageVars>>
Running == active = "run"
OnlyRunning == UNCHANGED <<active, importVars, memberVars, cloneVars, pageVars>>
Changing == active \in {"commands", "automated"}
OnlyChanging == UNCHANGED <<active, importVars, runVars, cloneVars, pageVars>>
Cloning == active = "clone"
OnlyCloning == UNCHANGED <<active, importVars, runVars, memberVars, pageVars>>
Editing == active = "page"
OnlyEditing == UNCHANGED <<active, importVars, runVars, memberVars, cloneVars>>

Next ==
    \/ Importing /\ Imports!CreateJob /\ OnlyImporting
    \/ Importing /\ (\E p \in Procs : Imports!MarkProcessing(p)) /\ OnlyImporting
    \/ Importing /\ (\E p \in Procs : Imports!ReadFile(p)) /\ OnlyImporting
    \/ Importing /\ (\E p \in Procs : Imports!Reserve(p)) /\ OnlyImporting
    \/ Importing /\ (\E p \in Procs : Imports!ReadManifest(p)) /\ OnlyImporting
    \/ Importing /\ (\E p \in Procs : Imports!Persist(p)) /\ OnlyImporting
    \/ Importing /\ (\E p \in Procs : Imports!CompleteLive(p)) /\ OnlyImporting
    \/ Importing /\ (\E p \in Procs : Imports!Enqueue(p)) /\ OnlyImporting
    \/ Importing /\ (\E p \in Procs : Imports!MarkPublished(p)) /\ OnlyImporting
    \/ Importing /\ (\E p \in Procs : Imports!CatchLive(p)) /\ OnlyImporting
    \/ Importing /\ (\E p \in Procs : Imports!CatchExpired(p)) /\ OnlyImporting
    \/ Importing /\ (\E p \in Procs : Imports!Settle(p)) /\ OnlyImporting
    \/ Importing /\ (\E p \in Procs : Imports!CompleteScanned(p)) /\ OnlyImporting
    \/ Importing /\ (\E p \in Procs : Imports!RecoverPart(p)) /\ OnlyImporting
    \/ Importing /\ (\E p \in Procs : Imports!CompleteDeadLive(p)) /\ OnlyImporting
    \/ Importing /\ (\E p \in Procs : Imports!CompleteDeadExpired(p)) /\ OnlyImporting
    \/ Importing /\ (\E p \in Procs : Imports!FailDead(p)) /\ OnlyImporting
    \/ Importing /\ (\E p \in Procs : Imports!Break(p)) /\ OnlyImporting
    \/ Importing /\ (\E p \in Procs : Imports!Crash(p)) /\ OnlyImporting
    \/ Importing /\ (\E p \in Procs, n \in {0, 1} : Imports!ClaimPart(p, n)) /\ OnlyImporting
    \/ Importing /\ (\E p \in Procs, n \in {0, 1} : Imports!ScanExpired(p, n)) /\ OnlyImporting
    \/ Importing /\ (\E p \in Procs, n \in {0, 1} : Imports!ScanUnpublished(p, n)) /\ OnlyImporting
    \/ Importing /\ (\E p \in Procs, n \in {0, 1} : Imports!ReadDeadLetter(p, n)) /\ OnlyImporting
    \/ Importing /\ (\E n \in Imports!Parts : Imports!LeaseExpires(n)) /\ OnlyImporting
    \/ Importing /\ Imports!OtherWriter(key) /\ OnlyImporting
    \/ Running /\ (\E g \in Graphs : Runs!SaveDraft(g)) /\ OnlyRunning
    \/ Running /\ (\E status \in {"active", "paused"} : Runs!SetStatus(status)) /\ OnlyRunning
    \/ Running /\ (\E p \in Procs : Runs!FindDraft(p)) /\ OnlyRunning
    \/ Running /\ (\E p \in Procs : Runs!PublishDraft(p)) /\ OnlyRunning
    \/ Running /\ (\E p \in Procs : Runs!Enroll(p)) /\ OnlyRunning
    \/ Running /\ (\E p \in Procs : Runs!Refuse(p)) /\ OnlyRunning
    \/ Running /\ (\E p \in Procs : Runs!Throw(p)) /\ OnlyRunning
    \/ Running /\ (\E p \in Procs : Runs!ReadPublished(p)) /\ OnlyRunning
    \/ Running /\ (\E p \in Procs : Runs!StartRun(p)) /\ OnlyRunning
    \/ Running /\ (\E p \in Procs : Runs!ListTargets(p)) /\ OnlyRunning
    \/ Running /\ (\E p \in Procs : Runs!SkipTarget(p)) /\ OnlyRunning
    \/ Running /\ (\E p \in Procs : Runs!FailTarget(p)) /\ OnlyRunning
    \/ Running /\ (\E p \in Procs : Runs!Refresh(p)) /\ OnlyRunning
    \/ Running /\ (\E p \in Procs : Runs!Crash(p)) /\ OnlyRunning
    \/ Running /\ (\E p \in Procs, o \in Occasions : Runs!FindTrigger(p, o)) /\ OnlyRunning
    \/ Running /\ (\E p \in Procs, c \in TwoContacts : Runs!ListInactive(p, c)) /\ OnlyRunning
    \/ Running /\ (\E p \in Procs, c \in TwoContacts : Runs!ReadVersion(p, c)) /\ OnlyRunning
    \/ Running /\ (\E p \in Procs : Runs!FindRun(p, slot)) /\ OnlyRunning
    \/ Running /\ (\E p \in Procs : Runs!BeginRun(p, slot)) /\ OnlyRunning
    \/ Running /\ Runs!CancelRun(slot) /\ OnlyRunning
    \/ Running /\ (\E c \in TwoContacts : Runs!ArchiveContact(c)) /\ OnlyRunning
    \/ Running /\ (\E c \in TwoContacts, s \in Entries : Runs!EndEnrollment(c, s)) /\ OnlyRunning
    \/ Running /\ Runs!Tick /\ OnlyRunning
    \/ Changing /\ (\E p \in Procs, k \in Asked[active] : Members!Call(p, k)) /\ OnlyChanging
    \/ Changing /\ (\E p \in Procs : Members!ReadPrior(p)) /\ OnlyChanging
    \/ Changing /\ (\E p \in Procs : Members!ReadProgram(p)) /\ OnlyChanging
    \/ Changing /\ (\E p \in Procs : Members!ReadMember(p)) /\ OnlyChanging
    \/ Changing /\ (\E p \in Procs : Members!Commit(p)) /\ OnlyChanging
    \/ Changing /\ (\E p \in Procs : Members!Conflict(p)) /\ OnlyChanging
    \/ Changing /\ (\E p \in Procs : Members!Claim(p)) /\ OnlyChanging
    \/ Changing /\ (\E p \in Procs : Members!LoadProgram(p)) /\ OnlyChanging
    \/ Changing /\ (\E p \in Procs : Members!BeginRow(p)) /\ OnlyChanging
    \/ Changing /\ (\E p \in Procs : Members!Reload(p)) /\ OnlyChanging
    \/ Changing /\ (\E p \in Procs : Members!CommitRow(p)) /\ OnlyChanging
    \/ Changing /\ (\E p \in Procs : Members!LoseLease(p)) /\ OnlyChanging
    \/ Changing /\ (\E p \in Procs : Members!Release(p)) /\ OnlyChanging
    \/ Changing /\ (\E p \in Procs : Members!Crash(p)) /\ OnlyChanging
    \/ Changing /\ Members!Accept /\ OnlyChanging
    \/ Changing /\ Members!Publish /\ OnlyChanging
    \/ Changing /\ Members!ArchiveProject /\ OnlyChanging
    \/ active = "automated" /\ Members!LoseAuthority /\ OnlyChanging
    \/ Changing /\ Members!LeaseExpires /\ OnlyChanging
    \/ active = "automated" /\ Members!ArchiveContact(c1) /\ OnlyChanging
    \/ Cloning /\ Clones!Start /\ OnlyCloning
    \/ Cloning /\ Clones!Retry /\ OnlyCloning
    \/ Cloning /\ Clones!LeaseExpires /\ OnlyCloning
    \/ Cloning /\ Clones!ReferencesChange /\ OnlyCloning
    \/ Cloning /\ (\E p \in Procs : Clones!Claim(p)) /\ OnlyCloning
    \/ Cloning /\ (\E p \in Procs : Clones!LoadChunk(p)) /\ OnlyCloning
    \/ Cloning /\ (\E p \in Procs : Clones!Stage(p)) /\ OnlyCloning
    \/ Cloning /\ (\E p \in Procs : Clones!CheckRemaining(p)) /\ OnlyCloning
    \/ Cloning /\ (\E p \in Procs : Clones!Requeue(p)) /\ OnlyCloning
    \/ Cloning /\ (\E p \in Procs : Clones!ReadMappings(p)) /\ OnlyCloning
    \/ Cloning /\ (\E p \in Procs : Clones!Materialize(p)) /\ OnlyCloning
    \/ Cloning /\ (\E p \in Procs : Clones!Break(p)) /\ OnlyCloning
    \/ Cloning /\ (\E p \in Procs : Clones!Fail(p)) /\ OnlyCloning
    \/ Cloning /\ (\E p \in Procs : Clones!Crash(p)) /\ OnlyCloning
    \/ Editing /\ (\E p \in Procs : Landing!Request(p, key)) /\ OnlyEditing
    \/ Editing /\ (\E p \in Procs : Landing!Claim(p, key)) /\ OnlyEditing
    \/ Editing /\ Landing!Retry(key) /\ OnlyEditing
    \/ Editing /\ Landing!LeaseExpires(key) /\ OnlyEditing
    \/ Editing /\ Landing!ImageExpires(1) /\ OnlyEditing
    \/ Editing /\ Landing!Archive /\ OnlyEditing
    \/ Editing /\ (\E m, n \in 1 .. 3 : Landing!CreateExperiment(m, n)) /\ OnlyEditing
    \/ /\ Editing
       /\ \E p \in Procs, s \in Saves, i \in {0, 1}, n \in {None, 1, 2, 3} :
            Landing!ReadPage(p, s, i, n)
       /\ OnlyEditing
    \/ Editing /\ (\E p \in Procs, n \in 1 .. 3 : Landing!ReadForPublication(p, n)) /\ OnlyEditing
    \/ Editing /\ (\E p \in Procs, n \in {None, 1, 2, 3} : Landing!ReadForEnd(p, n)) /\ OnlyEditing
    \/ Editing /\ (\E p \in Procs : Landing!Queue(p)) /\ OnlyEditing
    \/ Editing /\ (\E p \in Procs : Landing!ReadBase(p)) /\ OnlyEditing
    \/ Editing /\ (\E p \in Procs : Landing!Generate(p)) /\ OnlyEditing
    \/ Editing /\ (\E p \in Procs : Landing!Upload(p)) /\ OnlyEditing
    \/ Editing /\ (\E p \in Procs : Landing!Track(p)) /\ OnlyEditing
    \/ Editing /\ (\E p \in Procs : Landing!Untracked(p)) /\ OnlyEditing
    \/ Editing /\ (\E p \in Procs : Landing!RemoveAsset(p)) /\ OnlyEditing
    \/ Editing /\ (\E p \in Procs : Landing!Validate(p)) /\ OnlyEditing
    \/ Editing /\ (\E p \in Procs : Landing!ReadAgain(p)) /\ OnlyEditing
    \/ Editing /\ (\E p \in Procs : Landing!Apply(p)) /\ OnlyEditing
    \/ Editing /\ (\E p \in Procs : Landing!ApplyRejected(p)) /\ OnlyEditing
    \/ Editing /\ (\E p \in Procs : Landing!Break(p)) /\ OnlyEditing
    \/ Editing /\ (\E p \in Procs : Landing!Finish(p)) /\ OnlyEditing
    \/ Editing /\ (\E p \in Procs : Landing!ReadNumber(p)) /\ OnlyEditing
    \/ Editing /\ (\E p \in Procs : Landing!Save(p)) /\ OnlyEditing
    \/ Editing /\ (\E p \in Procs : Landing!SaveRejected(p)) /\ OnlyEditing
    \/ Editing /\ (\E p \in Procs : Landing!CheckReferences(p)) /\ OnlyEditing
    \/ Editing /\ (\E p \in Procs : Landing!ReadVersion(p)) /\ OnlyEditing
    \/ Editing /\ (\E p \in Procs : Landing!Publish(p)) /\ OnlyEditing
    \/ Editing /\ (\E p \in Procs : Landing!PublishRejected(p)) /\ OnlyEditing
    \/ Editing /\ (\E p \in Procs : Landing!ReadForStart(p)) /\ OnlyEditing
    \/ Editing /\ (\E p \in Procs : Landing!Start(p)) /\ OnlyEditing
    \/ Editing /\ (\E p \in Procs : Landing!End(p)) /\ OnlyEditing
    \/ Editing /\ (\E p \in Procs : Landing!EndRejected(p)) /\ OnlyEditing
    \/ Editing /\ (\E p \in Procs : Landing!FindExpired(p)) /\ OnlyEditing
    \/ Editing /\ (\E p \in Procs : Landing!DeleteObjects(p)) /\ OnlyEditing
    \/ Editing /\ (\E p \in Procs : Landing!DeleteRows(p)) /\ OnlyEditing
    \/ Editing /\ (\E p \in Procs : Landing!Crash(p)) /\ OnlyEditing

Spec == Init /\ [][Next]_vars
-----------------------------------------------------------------------------
TypeOK ==
    CASE active = "import" -> Imports!TypeOK
      [] active = "run" -> Runs!TypeOK
      [] Changing -> Members!TypeOK
      [] active = "clone" -> Clones!TypeOK
      [] active = "page" -> Landing!TypeOK

\* The properties of the jobs, explained in their modules, of the one that is active.

\* The current part of an import that is open waits for the scanner with a try left, or is
\* leased.
OpenIsRecoverable == active = "import" => Imports!OpenIsRecoverable

\* The contacts of a part recorded as published were sent to the reconciliation.
PublishedWasSent == active = "import" => Imports!PublishedWasSent

\* A published version of an automation is one that passed the checks.
PublishedWasValidated == active = "run" => Runs!PublishedWasValidated

\* Two enrollments of a contact keep the rule of re-entry.
ReentryKept == active = "run" => Runs!ReentryKept

\* A version of a page follows the one its author named, and a request makes one.
EditsFollowTheirBase == active = "page" => Landing!EditsFollowTheirBase

\* What visitors are served is published as a whole, but for images the sweep had chosen.
ServedIsComplete == active = "page" => Landing!ServedIsComplete

\* Each row of an import is inserted, decided and counted once.
ImplementsImportLedger ==
    /\ active = "import" => Imports!Ledger!Init
    /\ [][active = "import" => [Imports!Ledger!Next]_(Imports!Ledger!vars)]_vars

\* Each target of a run is decided once and the run ends when all flows have.
ImplementsBatchRun ==
    /\ active = "run" => Runs!Abstract!Init
    /\ [][active = "run" => [Runs!Abstract!Next]_(Runs!Abstract!vars)]_vars

\* Each command to a member is carried out once, as if it were alone.
ImplementsProgramLedger ==
    /\ Changing => Members!Ledger!Init
    /\ [][Changing => [Members!Ledger!Next]_(Members!Ledger!vars)]_vars

\* The copies of a clone appear once and all together.
ImplementsCloneOnce ==
    /\ active = "clone" => Clones!Promise!Init
    /\ [][active = "clone" => [Clones!Promise!Next]_(Clones!Promise!vars)]_vars
=============================================================================
