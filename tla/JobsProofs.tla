------------------------------ MODULE JobsProofs ------------------------------
(***************************************************************************)
(* The theorems about the jobs hold of MCJobs too, the specification that  *)
(* runs check: its steps are steps of the job that is active.  MCJobs      *)
(* instantiates each job's module; here the module of its proofs is        *)
(* instantiated with the same constants, and an operator of the one is     *)
(* that of the other, definition by definition.                            *)
(***************************************************************************)
EXTENDS MCJobs, TLAPS

\* The proofs about landing pages and runs, and about imports, clones and programs.
LP == INSTANCE LandingPagesProofs WITH
    Requests <- OneKey, Edits <- Saves, MaxVersions <- 3, MaxImages <- 1,
    Together <- Beside, job <- pageJob, proc <- author
RP == INSTANCE AutomationRunsProofs WITH
    Contacts <- TwoContacts, FirstGraph <- BatchCooldown, MaxVersion <- 3,
    OccasionBy <- BySelf, OccasionOf <- OfFirst, Inactive <- silence, Slots <- OneSlot,
    Cooldown <- 1, AttemptLimit <- 2, MaxTime <- 1, Silent <- OneContact,
    Together <- Combined, proc <- runner
IP == INSTANCE LeasedJobsProofs WITH
    TotalParts <- 2, RowsOf <- Lines, Keys <- OneKey, KeyOf <- Identifiers, AttemptLimit <- 2,
    job <- importJob, proc <- importer, Size <- 3, Chunk <- 2,
    Definition <- TwoVersions, Contacts <- OneContact, Command <- Commands, Total <- 2,
    Readable <- SecondRow, Unit <- 1, MaxTries <- 2, MaxChanges <- 2

-----------------------------------------------------------------------------
(* A step of MCJobs is one of the active job, and each definition of a job *)
(* means the same in the two instances.                                    *)

LEMMA SamePageNext == Landing!Next <=> LP!Next
BY DEF Landing!Numbers, Landing!Images, Landing!NoImage, Landing!Idle, Landing!Goto,
    Landing!Return, Landing!Fail, Landing!Open, Landing!Latest, Landing!Room,
    Landing!OnCurrent, Landing!Shown, Landing!Refers, Landing!Stored, Landing!Chosen,
    Landing!ClaimedLate, Landing!NewVersion, Landing!Request, Landing!Queue, Landing!Retry,
    Landing!Claim, Landing!ReadBase, Landing!Unused, Landing!Generate, Landing!Upload,
    Landing!Track, Landing!Untracked, Landing!RemoveAsset, Landing!Validate,
    Landing!ReadAgain, Landing!Claimed, Landing!WriteVersion, Landing!Holds, Landing!Apply,
    Landing!ApplyRejected, Landing!Break, Landing!Finish, Landing!ReadPage,
    Landing!ReadNumber, Landing!WriteEdit, Landing!Save, Landing!SaveRejected,
    Landing!Archive, Landing!ReadForPublication, Landing!CheckReferences,
    Landing!ReadVersion, Landing!Published, Landing!Publish, Landing!PublishRejected,
    Landing!Servable, Landing!CreateExperiment, Landing!ReadForStart, Landing!Start,
    Landing!ReadForEnd, Landing!Won, Landing!End, Landing!EndRejected, Landing!FindExpired,
    Landing!DeleteObjects, Landing!DeleteRows, Landing!LeaseExpires, Landing!ImageExpires,
    Landing!Crash, Landing!Worker, Landing!Editor, Landing!Sweep, Landing!Next,
    Landing!vars, LP!Numbers, LP!Images, LP!NoImage, LP!Idle, LP!Goto, LP!Return, LP!Fail,
    LP!Open, LP!Latest, LP!Room, LP!OnCurrent, LP!Shown, LP!Refers, LP!Stored, LP!Chosen,
    LP!ClaimedLate, LP!NewVersion, LP!Request, LP!Queue, LP!Retry, LP!Claim, LP!ReadBase,
    LP!Unused, LP!Generate, LP!Upload, LP!Track, LP!Untracked, LP!RemoveAsset, LP!Validate,
    LP!ReadAgain, LP!Claimed, LP!WriteVersion, LP!Holds, LP!Apply, LP!ApplyRejected,
    LP!Break, LP!Finish, LP!ReadPage, LP!ReadNumber, LP!WriteEdit, LP!Save, LP!SaveRejected,
    LP!Archive, LP!ReadForPublication, LP!CheckReferences, LP!ReadVersion, LP!Published,
    LP!Publish, LP!PublishRejected, LP!Servable, LP!CreateExperiment, LP!ReadForStart,
    LP!Start, LP!ReadForEnd, LP!Won, LP!End, LP!EndRejected, LP!FindExpired,
    LP!DeleteObjects, LP!DeleteRows, LP!LeaseExpires, LP!ImageExpires, LP!Crash, LP!Worker,
    LP!Editor, LP!Sweep, LP!Next, LP!vars

\* The job that is carried on is chosen once.
LEMMA ActiveKept == ASSUME Next PROVE active' = active
BY DEF Next, OnlyImporting, OnlyRunning, OnlyChanging, OnlyCloning, OnlyEditing

LEMMA EditingSteps == ASSUME Next, active = "page" PROVE Landing!Next
<1>1. ASSUME NEW p \in Procs,
             \/ Landing!Request(p, key) \/ Landing!Claim(p, key) \/ Landing!Queue(p)
             \/ Landing!ReadBase(p) \/ Landing!Generate(p) \/ Landing!Upload(p)
             \/ Landing!Track(p) \/ Landing!Untracked(p) \/ Landing!RemoveAsset(p)
             \/ Landing!Validate(p) \/ Landing!ReadAgain(p) \/ Landing!Apply(p)
             \/ Landing!ApplyRejected(p) \/ Landing!Break(p) \/ Landing!Finish(p)
      PROVE  Landing!Next
  <2>1. Landing!Worker(p)
    BY <1>1 DEF Landing!Worker, OneKey
  <2> QED BY <2>1 DEF Landing!Next
<1>2. ASSUME NEW p \in Procs,
             \/ \E s \in Saves, i \in {0, 1}, n \in {None, 1, 2, 3} :
                   Landing!ReadPage(p, s, i, n)
             \/ \E n \in 1 .. 3 : Landing!ReadForPublication(p, n)
             \/ \E n \in {None, 1, 2, 3} : Landing!ReadForEnd(p, n)
             \/ Landing!ReadNumber(p) \/ Landing!Save(p) \/ Landing!SaveRejected(p)
             \/ Landing!CheckReferences(p) \/ Landing!ReadVersion(p) \/ Landing!Publish(p)
             \/ Landing!PublishRejected(p) \/ Landing!ReadForStart(p) \/ Landing!Start(p)
             \/ Landing!End(p) \/ Landing!EndRejected(p)
      PROVE  Landing!Next
  <2>1. {0, 1} = Landing!Images \cup {Landing!NoImage} /\ 1 .. 3 = Landing!Numbers
        /\ {None, 1, 2, 3} = Landing!Numbers \cup {None}
    BY DEF Landing!Images, Landing!NoImage, Landing!Numbers
  <2>2. Landing!Editor(p)
    BY <1>2, <2>1 DEF Landing!Editor
  <2> QED BY <2>2 DEF Landing!Next
<1>3. ASSUME NEW p \in Procs,
             \/ Landing!FindExpired(p) \/ Landing!DeleteObjects(p) \/ Landing!DeleteRows(p)
             \/ Landing!Crash(p)
      PROVE  Landing!Next
  BY <1>3 DEF Landing!Next, Landing!Sweep
<1>4. ASSUME \/ Landing!Retry(key) \/ Landing!LeaseExpires(key) \/ Landing!ImageExpires(1)
             \/ Landing!Archive \/ \E m, n \in 1 .. 3 : Landing!CreateExperiment(m, n)
      PROVE  Landing!Next
  BY <1>4 DEF Landing!Next, OneKey, Landing!Images, Landing!Numbers
<1> QED
  BY <1>1, <1>2, <1>3, <1>4 DEF Next, Importing, Running, Changing, Cloning

LEMMA SamePageInit == JobsAssumption => LP!LandingAssumption /\ (Landing!Init <=> LP!Init)
BY JobsAssumption DEF Landing!RareKinds, Landing!Images, Landing!NoImage,
    Landing!Edit, Landing!LandingAssumption, Landing!Idle, Landing!Init, LP!RareKinds,
    LP!Images, LP!NoImage, LP!Edit, LP!LandingAssumption, LP!Idle, LP!Init

LEMMA LandingProperties ==
    /\ Landing!EditsFollowTheirBase <=> LP!EditsFollowTheirBase
    /\ Landing!ServedIsComplete <=> LP!ServedIsComplete
BY DEF Landing!NoImage, Landing!Latest, Landing!EditsFollowTheirBase, Landing!Complete,
      Landing!ServedIsComplete, LP!NoImage, LP!Latest, LP!EditsFollowTheirBase, LP!Complete,
      LP!ServedIsComplete

LEMMA SameRunsNext == Runs!Next <=> RP!Next
BY DEF Runs!Versions, Runs!Sources, Runs!NoTarget, Runs!Idle, Runs!authoring, Runs!runs,
    Runs!Return, Runs!Goto, Runs!IsPublished, Runs!Open, Runs!Entered, Runs!Live, Runs!Seen,
    Runs!Happened, Runs!MayHappen, Runs!NextTarget, Runs!SaveDraft, Runs!FindDraft,
    Runs!PublishDraft, Runs!SetStatus, Runs!EnrollBy, Runs!FindTrigger, Runs!ListInactive,
    Runs!ReadVersion, Runs!NonePrior, Runs!Admitted, Runs!InsertEnrollment, Runs!Enroll,
    Runs!Refuse, Runs!Throw, Runs!FindRun, Runs!ReadPublished, Runs!StartRun, Runs!BeginRun,
    Runs!ListTargets, Runs!SkipTarget, Runs!FailTarget, Runs!Pending, Runs!Flowing,
    Runs!Failed, Runs!Refreshed, Runs!Refresh, Runs!CancelRun, Runs!ArchiveContact,
    Runs!EndEnrollment, Runs!Tick, Runs!Crash, Runs!Processor, Runs!Next, Runs!vars,
    RP!Versions, RP!Sources, RP!NoTarget, RP!Idle, RP!authoring, RP!runs, RP!Return,
    RP!Goto, RP!IsPublished, RP!Open, RP!Entered, RP!Live, RP!Seen, RP!Happened,
    RP!MayHappen, RP!NextTarget, RP!SaveDraft, RP!FindDraft, RP!PublishDraft, RP!SetStatus,
    RP!EnrollBy, RP!FindTrigger, RP!ListInactive, RP!ReadVersion, RP!NonePrior, RP!Admitted,
    RP!InsertEnrollment, RP!Enroll, RP!Refuse, RP!Throw, RP!FindRun, RP!ReadPublished,
    RP!StartRun, RP!BeginRun, RP!ListTargets, RP!SkipTarget, RP!FailTarget, RP!Pending,
    RP!Flowing, RP!Failed, RP!Refreshed, RP!Refresh, RP!CancelRun, RP!ArchiveContact,
    RP!EndEnrollment, RP!Tick, RP!Crash, RP!Processor, RP!Next, RP!vars

LEMMA SameRunsInit == JobsAssumption => RP!RunsAssumption /\ (Runs!Init <=> RP!Init)
BY JobsAssumption DEF Runs!Versions, Runs!Sources, Runs!Rules, Runs!RareKinds,
    Runs!RunsAssumption, Runs!NoEnrollment, Runs!NoTarget, Runs!Idle, Runs!Init,
    RP!Versions, RP!Sources, RP!Rules, RP!RareKinds, RP!RunsAssumption, RP!NoEnrollment,
    RP!NoTarget, RP!Idle, RP!Init

LEMMA SameImportsNext == Imports!Next <=> IP!Next
BY DEF Imports!Parts, Imports!Other, Imports!NoPart, Imports!NewPart, Imports!TryPC,
    Imports!Idle, Imports!people, Imports!Return, Imports!Goto, Imports!Take,
    Imports!Active, Imports!Leased, Imports!Live, Imports!Expired, Imports!CountPart,
    Imports!CompletePart, Imports!MayComplete, Imports!FailPart, Imports!ReturnPart,
    Imports!CreateJob, Imports!Claimable, Imports!ClaimPart, Imports!MarkProcessing,
    Imports!ReadFile, Imports!Reserve, Imports!ReadManifest, Imports!Insertions,
    Imports!Insert, Imports!Persist, Imports!CompleteLive, Imports!Enqueue,
    Imports!MarkPublished, Imports!Break, Imports!CompleteUnder, Imports!CatchLive,
    Imports!CatchExpired, Imports!Settle, Imports!ScanExpired, Imports!CompleteScanned,
    Imports!RecoverPart, Imports!ScanUnpublished, Imports!ReadDeadLetter,
    Imports!CompleteDeadLive, Imports!CompleteDeadExpired, Imports!FailDead,
    Imports!LeaseExpires, Imports!OtherWriter, Imports!Crash, Imports!Step, Imports!Begin,
    Imports!Next, Imports!vars, Imports!Cardinality, Imports!IsFiniteSet, IP!Parts,
    IP!Other, IP!NoPart, IP!NewPart, IP!TryPC, IP!Idle, IP!people, IP!Return, IP!Goto,
    IP!Take, IP!Active, IP!Leased, IP!Live, IP!Expired, IP!CountPart, IP!CompletePart,
    IP!MayComplete, IP!FailPart, IP!ReturnPart, IP!CreateJob, IP!Claimable, IP!ClaimPart,
    IP!MarkProcessing, IP!ReadFile, IP!Reserve, IP!ReadManifest, IP!Insertions, IP!Insert,
    IP!Persist, IP!CompleteLive, IP!Enqueue, IP!MarkPublished, IP!Break, IP!CompleteUnder,
    IP!CatchLive, IP!CatchExpired, IP!Settle, IP!ScanExpired, IP!CompleteScanned,
    IP!RecoverPart, IP!ScanUnpublished, IP!ReadDeadLetter, IP!CompleteDeadLive,
    IP!CompleteDeadExpired, IP!FailDead, IP!LeaseExpires, IP!OtherWriter, IP!Crash, IP!Step,
    IP!Begin, IP!Next, IP!vars, IP!Cardinality, IP!IsFiniteSet

LEMMA SameImportsInit == JobsAssumption => IP!ImportAssumption /\ (Imports!Init <=> IP!Init)
BY JobsAssumption DEF Imports!Parts, Imports!Rows, Imports!Other, Imports!ImportAssumption,
    Imports!NoPart, Imports!Idle, Imports!Init, Imports!IsFiniteSet, IP!Parts, IP!Rows,
    IP!Other, IP!ImportAssumption, IP!NoPart, IP!Idle, IP!Init, IP!IsFiniteSet

LEMMA SameClonesNext == Clones!Next <=> IP!Clones!Next
BY DEF Clones!Resources, Clones!Idle, Clones!Return, Clones!Goto, Clones!Holds, Clones!Free,
    Clones!Start, Clones!Retry, Clones!Claim, Clones!LoadChunk, Clones!Stage,
    Clones!CheckRemaining, Clones!Requeue, Clones!ReadMappings, Clones!MayMaterialize,
    Clones!Materialize, Clones!Break, Clones!Fail, Clones!LeaseExpires,
    Clones!ReferencesChange, Clones!Crash, Clones!Process, Clones!Next, Clones!vars,
    Clones!Cardinality, Clones!IsFiniteSet, Clones!Min, IP!Clones!Resources, IP!Clones!Idle,
    IP!Clones!Return, IP!Clones!Goto, IP!Clones!Holds, IP!Clones!Free, IP!Clones!Start,
    IP!Clones!Retry, IP!Clones!Claim, IP!Clones!LoadChunk, IP!Clones!Stage,
    IP!Clones!CheckRemaining, IP!Clones!Requeue, IP!Clones!ReadMappings,
    IP!Clones!MayMaterialize, IP!Clones!Materialize, IP!Clones!Break, IP!Clones!Fail,
    IP!Clones!LeaseExpires, IP!Clones!ReferencesChange, IP!Clones!Crash, IP!Clones!Process,
    IP!Clones!Next, IP!Clones!vars, IP!Clones!Cardinality, IP!Clones!IsFiniteSet,
    IP!Clones!Min

LEMMA SameClonesInit ==
    JobsAssumption => IP!Clones!CloneAssumption /\ (Clones!Init <=> IP!Clones!Init)
BY JobsAssumption DEF Clones!CloneAssumption, Clones!Idle, Clones!Init, Clones!IsFiniteSet,
    IP!Clones!CloneAssumption, IP!Clones!Idle, IP!Clones!Init, IP!Clones!IsFiniteSet

LEMMA RunningSteps == ASSUME Next, active = "run" PROVE Runs!Next
<1>1. Runs!Sources = Entries
  BY DEF Runs!Sources, Entries, Occasions, OneSlot
<1>2. ASSUME NEW p \in Procs,
             \/ Runs!FindDraft(p) \/ Runs!PublishDraft(p) \/ Runs!Enroll(p) \/ Runs!Refuse(p)
             \/ Runs!Throw(p) \/ Runs!ReadPublished(p) \/ Runs!StartRun(p)
             \/ Runs!ListTargets(p) \/ Runs!SkipTarget(p) \/ Runs!FailTarget(p)
             \/ Runs!Refresh(p) \/ Runs!FindRun(p, slot) \/ Runs!BeginRun(p, slot)
             \/ \E o \in Occasions : Runs!FindTrigger(p, o)
             \/ \E c \in TwoContacts : Runs!ListInactive(p, c)
             \/ \E c \in TwoContacts : Runs!ReadVersion(p, c)
      PROVE  Runs!Next
  <2>1. Runs!Processor(p)
    BY <1>2 DEF Runs!Processor, OneSlot
  <2> QED BY <2>1 DEF Runs!Next
<1>3. ASSUME NEW p \in Procs, Runs!Crash(p) PROVE Runs!Next
  BY <1>3 DEF Runs!Next
<1>4. ASSUME \/ \E g \in Graphs : Runs!SaveDraft(g)
             \/ \E status \in {"active", "paused"} : Runs!SetStatus(status)
             \/ Runs!CancelRun(slot) \/ Runs!Tick
             \/ \E c \in TwoContacts : Runs!ArchiveContact(c)
             \/ \E c \in TwoContacts, s \in Entries : Runs!EndEnrollment(c, s)
      PROVE  Runs!Next
  BY <1>1, <1>4 DEF Runs!Next, OneSlot
<1> QED
  BY <1>2, <1>3, <1>4 DEF Next, Importing, Changing, Cloning, Editing

LEMMA ImportingSteps == ASSUME Next, active = "import" PROVE Imports!Next
<1>1. Imports!Parts = {0, 1}
  BY DEF Imports!Parts
<1>2. ASSUME NEW p \in Procs,
             \/ Imports!MarkProcessing(p) \/ Imports!ReadFile(p) \/ Imports!Reserve(p)
             \/ Imports!ReadManifest(p) \/ Imports!Persist(p) \/ Imports!CompleteLive(p)
             \/ Imports!Enqueue(p) \/ Imports!MarkPublished(p) \/ Imports!CatchLive(p)
             \/ Imports!CatchExpired(p) \/ Imports!Settle(p) \/ Imports!CompleteScanned(p)
             \/ Imports!RecoverPart(p) \/ Imports!CompleteDeadLive(p)
             \/ Imports!CompleteDeadExpired(p) \/ Imports!FailDead(p)
             \/ Imports!Break(p) \/ Imports!Crash(p)
      PROVE  Imports!Next
  BY <1>2 DEF Imports!Next, Imports!Step
<1>3. ASSUME NEW p \in Procs, NEW n \in {0, 1},
             \/ Imports!ClaimPart(p, n) \/ Imports!ScanExpired(p, n)
             \/ Imports!ScanUnpublished(p, n) \/ Imports!ReadDeadLetter(p, n)
      PROVE  Imports!Next
  BY <1>1, <1>3 DEF Imports!Next, Imports!Begin
<1>4. ASSUME \/ Imports!CreateJob \/ Imports!OtherWriter(key)
             \/ \E n \in Imports!Parts : Imports!LeaseExpires(n)
      PROVE  Imports!Next
  BY <1>4 DEF Imports!Next, OneKey
<1> QED
  BY <1>2, <1>3, <1>4 DEF Next, Running, Changing, Cloning, Editing

LEMMA CloningSteps == ASSUME Next, active = "clone" PROVE Clones!Next
BY DEF Next, Importing, Running, Changing, Editing, Clones!Next, Clones!Process

LEMMA SameMembersNext == Members!Next <=> IP!M!Next
BY DEF Members!Versions, Members!Refused, Members!Reachable, Members!At, Members!VersionFor,
    Members!KeepsPinned, Members!Admissible, Members!Resolve, Members!Outcome,
    Members!Continued, Members!Rows, Members!vars, Members!Idle, Members!members,
    Members!surroundings, Members!import, Members!Return, Members!Goto, Members!Importing,
    Members!GiveUp, Members!Base, Members!Prepared, Members!Unchanged, Members!StillPublished,
    Members!Permitted, Members!Guarded, Members!Fenced, Members!ReportRow, Members!Call,
    Members!ReadPrior, Members!ReadProgram, Members!ReadMember, Members!Commit,
    Members!Conflict, Members!Accept, Members!Claim, Members!LoadProgram, Members!BeginRow,
    Members!Reload, Members!CommitRow, Members!LoseLease, Members!Release, Members!Changes,
    Members!Publish, Members!ArchiveProject, Members!ArchiveContact, Members!LoseAuthority,
    Members!LeaseExpires, Members!Crash, Members!Process, Members!Next, Members!Cardinality,
    Members!IsFiniteSet, IP!M!Versions, IP!M!Refused, IP!M!Reachable, IP!M!At, IP!M!VersionFor,
    IP!M!KeepsPinned, IP!M!Admissible, IP!M!Resolve, IP!M!Outcome, IP!M!Continued, IP!M!Rows,
    IP!M!vars, IP!M!Idle, IP!M!members, IP!M!surroundings, IP!M!import, IP!M!Return, IP!M!Goto,
    IP!M!Importing, IP!M!GiveUp, IP!M!Base, IP!M!Prepared, IP!M!Unchanged, IP!M!StillPublished,
    IP!M!Permitted, IP!M!Guarded, IP!M!Fenced, IP!M!ReportRow, IP!M!Call, IP!M!ReadPrior,
    IP!M!ReadProgram, IP!M!ReadMember, IP!M!Commit, IP!M!Conflict, IP!M!Accept, IP!M!Claim,
    IP!M!LoadProgram, IP!M!BeginRow, IP!M!Reload, IP!M!CommitRow, IP!M!LoseLease, IP!M!Release,
    IP!M!Changes, IP!M!Publish, IP!M!ArchiveProject, IP!M!ArchiveContact, IP!M!LoseAuthority,
    IP!M!LeaseExpires, IP!M!Crash, IP!M!Process, IP!M!Next, IP!M!Cardinality, IP!M!IsFiniteSet

LEMMA SameMembersInit ==
    JobsAssumption => IP!M!ProgramAssumption /\ (Members!Init <=> IP!M!Init)
BY JobsAssumption DEF Members!Versions, Members!Rows, Members!Keys, Members!Member,
    Members!ProgramAssumption, Members!Idle, Members!Init, IP!M!Versions, IP!M!Rows, IP!M!Keys,
    IP!M!Member, IP!M!ProgramAssumption, IP!M!Idle, IP!M!Init

LEMMA ChangingSteps == ASSUME Next, Changing PROVE Members!Next
<1>1. Asked[active] \subseteq Calls
  BY DEF Changing, Asked, Calls
<1>2. ASSUME NEW p \in Procs,
             \/ \E k \in Calls : Members!Call(p, k)
             \/ Members!ReadPrior(p) \/ Members!ReadProgram(p) \/ Members!ReadMember(p)
             \/ Members!Commit(p) \/ Members!Conflict(p) \/ Members!Claim(p)
             \/ Members!LoadProgram(p) \/ Members!BeginRow(p) \/ Members!Reload(p)
             \/ Members!CommitRow(p) \/ Members!LoseLease(p) \/ Members!Release(p)
             \/ Members!Crash(p)
      PROVE  Members!Next
  BY <1>2 DEF Members!Next, Members!Process
<1>3. ASSUME \/ Members!Accept \/ Members!Publish \/ Members!ArchiveProject
             \/ Members!LoseAuthority \/ Members!LeaseExpires \/ Members!ArchiveContact(c1)
      PROVE  Members!Next
  BY <1>3 DEF Members!Next, OneContact
<1> QED
  BY <1>1, <1>2, <1>3 DEF Next, Importing, Running, Changing, Cloning, Editing

LEMMA RunsPromise ==
    /\ Runs!Abstract!Init <=> RP!Abstract!Init
    /\ [Runs!Abstract!Next]_(Runs!Abstract!vars) <=> [RP!Abstract!Next]_(RP!Abstract!vars)
BY DEF Runs!Abstract!Init, Runs!Abstract!Start, Runs!Abstract!Decide, Runs!Abstract!EndFlow,
    Runs!Abstract!Close, Runs!Abstract!Cancel, Runs!Abstract!Next, Runs!Abstract!vars,
    RP!Abstract!Init, RP!Abstract!Start, RP!Abstract!Decide, RP!Abstract!EndFlow,
    RP!Abstract!Close, RP!Abstract!Cancel, RP!Abstract!Next, RP!Abstract!vars, Runs!Open,
    RP!Open

LEMMA RunsProperties ==
    /\ Runs!PublishedWasValidated <=> RP!PublishedWasValidated
    /\ Runs!ReentryKept <=> RP!ReentryKept
BY DEF Runs!Versions, Runs!Sources, Runs!Entered, Runs!PublishedWasValidated, Runs!RuleOf,
    Runs!ReentryKept, RP!Versions, RP!Sources, RP!Entered, RP!PublishedWasValidated,
    RP!RuleOf, RP!ReentryKept

LEMMA ImportsPromise ==
    /\ Imports!Ledger!Init <=> IP!Ledger!Init
    /\ [Imports!Ledger!Next]_(Imports!Ledger!vars) <=> [IP!Ledger!Next]_(IP!Ledger!vars)
BY DEF Imports!Ledger!Init, Imports!Ledger!Start, Imports!Ledger!Decide,
    Imports!Ledger!Count, Imports!Ledger!Fail, Imports!Ledger!Next, Imports!Ledger!vars,
    Imports!Ledger!Cardinality, Imports!Ledger!IsFiniteSet, IP!Ledger!Init, IP!Ledger!Start,
    IP!Ledger!Decide, IP!Ledger!Count, IP!Ledger!Fail, IP!Ledger!Next, IP!Ledger!vars,
    IP!Ledger!Cardinality, IP!Ledger!IsFiniteSet, Imports!Active, Imports!Parts,
    Imports!Cardinality, Imports!IsFiniteSet, IP!Active, IP!Parts, IP!Cardinality,
    IP!IsFiniteSet

LEMMA ImportsProperties ==
    /\ Imports!OpenIsRecoverable <=> IP!OpenIsRecoverable
    /\ Imports!PublishedWasSent <=> IP!PublishedWasSent
BY DEF Imports!Parts, Imports!Active, Imports!PublishedWasSent, Imports!OpenIsRecoverable,
    IP!Parts, IP!Active, IP!PublishedWasSent, IP!OpenIsRecoverable

LEMMA ClonesPromise ==
    /\ Clones!Promise!Init <=> IP!Clones!Promise!Init
    /\ [Clones!Promise!Next]_(Clones!Promise!vars)
         <=> [IP!Clones!Promise!Next]_(IP!Clones!Promise!vars)
BY DEF Clones!Resources, IP!Clones!Resources, Clones!Promise!Init, Clones!Promise!Copy,
    Clones!Promise!GiveUp, Clones!Promise!AskAgain, Clones!Promise!Next,
    Clones!Promise!vars, IP!Clones!Promise!Init, IP!Clones!Promise!Copy, IP!Clones!Promise!GiveUp,
    IP!Clones!Promise!AskAgain, IP!Clones!Promise!Next, IP!Clones!Promise!vars

LEMMA MembersPromise ==
    /\ Members!Ledger!Init <=> IP!M!Ledger!Init
    /\ [Members!Ledger!Next]_(Members!Ledger!vars) <=> [IP!M!Ledger!Next]_(IP!M!Ledger!vars)
BY DEF Members!Ledger!Versions, Members!Ledger!Refused, Members!Ledger!Reachable,
    Members!Ledger!At, Members!Ledger!VersionFor, Members!Ledger!KeepsPinned,
    Members!Ledger!Admissible, Members!Ledger!Resolve, Members!Ledger!Outcome,
    Members!Ledger!Continued, Members!Ledger!vars, Members!Ledger!Init, Members!Ledger!CarryOut,
    Members!Ledger!Carry, Members!Ledger!TakeRow, Members!Ledger!Surroundings,
    Members!Ledger!Next, IP!M!Ledger!Versions, IP!M!Ledger!Refused, IP!M!Ledger!Reachable,
    IP!M!Ledger!At, IP!M!Ledger!VersionFor, IP!M!Ledger!KeepsPinned, IP!M!Ledger!Admissible,
    IP!M!Ledger!Resolve, IP!M!Ledger!Outcome, IP!M!Ledger!Continued, IP!M!Ledger!vars,
    IP!M!Ledger!Init, IP!M!Ledger!CarryOut, IP!M!Ledger!Carry, IP!M!Ledger!TakeRow,
    IP!M!Ledger!Surroundings, IP!M!Ledger!Next, Members!Rows, Members!Keys, IP!M!Rows, IP!M!Keys

LEMMA JobTypes ==
    /\ Imports!TypeOK <=> IP!TypeOK
    /\ Runs!TypeOK <=> RP!TypeOK
    /\ Members!TypeOK <=> IP!M!TypeOK
    /\ Clones!TypeOK <=> IP!Clones!TypeOK
    /\ Landing!TypeOK <=> LP!TypeOK
<1>1. Imports!TypeOK <=> IP!TypeOK
  BY DEF Imports!Parts, Imports!Rows, Imports!Other, Imports!Job, Imports!Part, Imports!TryPC,
    Imports!PC, Imports!ProcState, Imports!TypeOK, IP!Parts, IP!Rows, IP!Other, IP!Job, IP!Part,
    IP!TryPC, IP!PC, IP!ProcState, IP!TypeOK
<1>2. Runs!TypeOK <=> RP!TypeOK
  BY DEF Runs!Versions, Runs!Sources, Runs!Automation, Runs!Enrollment, Runs!Target, Runs!Run,
    Runs!PC, Runs!ProcState, Runs!TypeOK, RP!Versions, RP!Sources, RP!Automation, RP!Enrollment,
    RP!Target, RP!Run, RP!PC, RP!ProcState, RP!TypeOK
<1>3. Members!TypeOK <=> IP!M!TypeOK
  BY DEF Members!Versions, Members!Rows, Members!Keys, Members!Member, Members!Job, Members!PC,
    Members!ProcState, Members!TypeOK, IP!M!Versions, IP!M!Rows, IP!M!Keys, IP!M!Member,
    IP!M!Job, IP!M!PC, IP!M!ProcState, IP!M!TypeOK
<1>4. Clones!TypeOK <=> IP!Clones!TypeOK
  BY DEF Clones!Resources, Clones!Job, Clones!ProcState, Clones!TypeOK, IP!Clones!Resources,
    IP!Clones!Job, IP!Clones!ProcState, IP!Clones!TypeOK
<1>5. Landing!TypeOK <=> LP!TypeOK
  BY DEF Landing!Numbers, Landing!Images, Landing!NoImage, Landing!Page, Landing!Version,
    Landing!Job, Landing!Image, Landing!Experiment, Landing!PC, Landing!Outcome,
    Landing!ProcState, Landing!Latest, Landing!TypeOK, LP!Numbers, LP!Images, LP!NoImage,
    LP!Page, LP!Version, LP!Job, LP!Image, LP!Experiment, LP!PC, LP!Outcome, LP!ProcState,
    LP!Latest, LP!TypeOK
<1> QED BY <1>1, <1>2, <1>3, <1>4, <1>5
-----------------------------------------------------------------------------
(* The invariants of the jobs, of the one that is active.                  *)

JobsInv ==
    /\ active \in {"import", "run", "commands", "automated", "clone", "page"}
    /\ Changing => IP!MemberInv
    /\ active = "run" => RP!RInv /\ RP!ReentryKept
    /\ active = "import" => IP!ImportInv
    /\ active = "clone" => IP!CloneInv
    /\ active = "page" => LP!LInv /\ LP!EditsFollowTheirBase /\ LP!SInv

LEMMA InitJobs ==
    ASSUME Init
    PROVE  /\ JobsInv
           /\ active = "run" => Runs!Abstract!Init
           /\ active = "import" => Imports!Ledger!Init
           /\ active = "clone" => Clones!Promise!Init
           /\ Changing => Members!Ledger!Init
<1>0. active \in {"import", "run", "commands", "automated", "clone", "page"}
  BY DEF Init
<1>1. CASE active = "run"
  <2>1. RP!RunsAssumption /\ RP!Init
    BY <1>1, SameRunsInit, JobsAssumption DEF Init
  <2>2. RP!RInv /\ RP!Abstract!Init
    BY <2>1, RP!InitRInv, RP!RefineInit
  <2>3. RP!ReentryKept
    BY <2>1, RP!InitReentry
  <2> QED BY <1>1, <2>2, <2>3, RunsPromise DEF JobsInv, Changing
<1>2. CASE active = "import"
  <2>1. IP!ImportAssumption /\ IP!Init
    BY <1>2, SameImportsInit, JobsAssumption DEF Init
  <2> QED BY <1>2, <2>1, IP!InitImportInv, ImportsPromise DEF JobsInv, Changing
<1>3. CASE active = "clone"
  <2>1. IP!Clones!Init
    BY <1>3, SameClonesInit, JobsAssumption DEF Init
  <2>2. Clones!Promise!Init
    BY <1>3 DEF Init, Clones!Init, Clones!Promise!Init
  <2> QED BY <1>3, <2>1, <2>2, IP!CloneInit DEF JobsInv, Changing
<1>4. CASE active = "page"
  <2>1. LP!LandingAssumption /\ LP!Init
    BY <1>4, SamePageInit, JobsAssumption DEF Init
  <2> QED BY <1>4, <2>1, LP!InitLInv, LP!InitHistory, LP!InitSInv DEF JobsInv, Changing
<1>5. CASE Changing
  <2>1. IP!M!ProgramAssumption /\ IP!M!Init /\ Members!Init
    BY <1>5, SameMembersInit, JobsAssumption DEF Init, Changing
  <2>2. Members!Ledger!Init
    BY <2>1 DEF Members!Init, Members!Ledger!Init, Members!Rows
  <2> QED BY <1>5, <2>1, <2>2, IP!InitMembers DEF JobsInv, Changing
<1> QED BY <1>0, <1>1, <1>2, <1>3, <1>4, <1>5 DEF Changing

LEMMA NextJobs ==
    ASSUME JobsInv, [Next]_vars
    PROVE  /\ JobsInv'
           /\ active = "run" => [Runs!Abstract!Next]_(Runs!Abstract!vars)
           /\ active = "import" => [Imports!Ledger!Next]_(Imports!Ledger!vars)
           /\ active = "clone" => [Clones!Promise!Next]_(Clones!Promise!vars)
           /\ Changing => [Members!Ledger!Next]_(Members!Ledger!vars)
<1>0. active' = active
  BY ActiveKept DEF vars
<1>1. CASE active = "run"
  <2>1. RP!RunsAssumption /\ RP!RInv /\ RP!ReentryKept
    BY <1>1, SameRunsInit, JobsAssumption DEF JobsInv
  <2>2. [RP!Next]_(RP!vars)
    BY <1>1, RunningSteps, SameRunsNext DEF vars, runVars, RP!vars, RP!authoring, RP!runs
  <2> QED BY <1>0, <1>1, <2>1, <2>2, RP!NextRInv, RP!RefineNext, RunsPromise DEF JobsInv, Changing
<1>2. CASE active = "import"
  <2>1. IP!ImportAssumption /\ IP!ImportInv
    BY <1>2, SameImportsInit, JobsAssumption DEF JobsInv
  <2>2. [IP!Next]_(IP!vars)
    BY <1>2, ImportingSteps, SameImportsNext DEF vars, importVars, IP!vars, IP!people
  <2>3. IP!ImportInv' /\ [IP!Ledger!Next]_(IP!Ledger!vars)
    BY <2>1, <2>2, IP!NextImportInv DEF IP!Goal
  <2> QED BY <1>0, <1>2, <2>3, ImportsPromise DEF JobsInv, Changing
<1>3. CASE active = "clone"
  <2>1. IP!CloneInv
    BY <1>3 DEF JobsInv
  <2>2. [IP!Clones!Next]_(IP!Clones!vars)
    BY <1>3, CloningSteps, SameClonesNext DEF vars, cloneVars, IP!Clones!vars
  <2> QED BY <1>0, <1>3, <2>1, <2>2, IP!CloneNext, IP!RefineClone, ClonesPromise
            DEF JobsInv, Changing
<1>4. CASE active = "page"
  <2>1. LP!LandingAssumption /\ LP!LInv /\ LP!EditsFollowTheirBase /\ LP!SInv
    BY <1>4, SamePageInit, JobsAssumption DEF JobsInv
  <2>2. [LP!Next]_(LP!vars)
    BY <1>4, EditingSteps, SamePageNext DEF vars, pageVars, LP!vars
  <2> QED BY <1>0, <1>4, <2>1, <2>2, LP!NextLInv, LP!NextHistory, LP!NextSInv DEF JobsInv, Changing
<1>5. CASE Changing
  <2>1. IP!M!ProgramAssumption /\ IP!MemberInv
    BY <1>5, SameMembersInit, JobsAssumption DEF JobsInv
  <2>2. [IP!M!Next]_(IP!M!vars)
    BY <1>5, ChangingSteps, SameMembersNext DEF vars, memberVars, IP!M!vars
  <2>3. IP!MemberInv' /\ IP!MembersPromised
    BY <2>1, <2>2, IP!NextMembers
  <2> QED BY <1>0, <1>5, <2>3, MembersPromise DEF JobsInv, Changing, IP!MembersPromised
<1>6. active' \in {"import", "run", "commands", "automated", "clone", "page"}
  BY <1>0 DEF JobsInv
<1> QED BY <1>0, <1>1, <1>2, <1>3, <1>4, <1>5, <1>6 DEF Changing, JobsInv

LEMMA AlwaysJobsInv == Spec => []JobsInv
<1>1. Init => JobsInv
  BY InitJobs
<1>2. JobsInv /\ [Next]_vars => JobsInv'
  BY NextJobs
<1> QED BY <1>1, <1>2, PTL DEF Spec
-----------------------------------------------------------------------------
(* The properties of MCJobs.                                               *)

\* Each job that runs keeps the types of its rows and of what its invocations hold.
THEOREM JobsTypes == Spec => []TypeOK
<1>1. ASSUME JobsInv PROVE TypeOK
  <2>1. active = "import" => IP!TypeOK
    BY <1>1 DEF JobsInv, IP!ImportInv, IP!DataInv, IP!Typed, IP!TypeOK
  <2>2. active = "run" => RP!TypeOK
    BY <1>1 DEF JobsInv, RP!RInv
  <2>3. Changing => IP!M!TypeOK
    BY <1>1 DEF JobsInv, IP!MemberInv
  <2>4. active = "clone" => IP!Clones!TypeOK
    BY <1>1 DEF JobsInv, IP!CloneInv
  <2>5. active = "page" => LP!TypeOK
    BY <1>1 DEF JobsInv, LP!LInv
  <2> QED BY <1>1, <2>1, <2>2, <2>3, <2>4, <2>5, JobTypes DEF JobsInv, Changing, TypeOK
<1> QED BY <1>1, AlwaysJobsInv, PTL

\* An import that was accepted waits for the scanner with a try left or holds a lease
\* that runs out, whatever its invocations, the scanner and the dead letters do.
THEOREM JobsRecover == Spec => []OpenIsRecoverable
<1>1. JobsInv => OpenIsRecoverable
  BY SameImportsInit, JobsAssumption, IP!Recoverable, ImportsProperties
     DEF JobsInv, OpenIsRecoverable
<1> QED BY <1>1, AlwaysJobsInv, PTL

\* What an import marks as published was sent to the segments.
THEOREM JobsPublish == Spec => []PublishedWasSent
<1>1. JobsInv => PublishedWasSent
  BY ImportsProperties DEF JobsInv, PublishedWasSent, IP!ImportInv, IP!DataInv
<1> QED BY <1>1, AlwaysJobsInv, PTL

\* No version of an automation is published but one that passed the checks, though the
\* draft is saved while they run.
THEOREM JobsValidate == Spec => []PublishedWasValidated
<1>1. JobsInv => PublishedWasValidated
  BY RunsProperties DEF JobsInv, PublishedWasValidated, RP!RInv
<1> QED BY <1>1, AlwaysJobsInv, PTL

\* Whichever of an event, a request, inactivity and a run enters a contact, and in
\* whatever interleaving, no two enrollments break the rule of re-entry of their version.
THEOREM JobsReenter == Spec => []ReentryKept
<1>1. JobsInv => ReentryKept
  BY RunsProperties DEF JobsInv, ReentryKept
<1> QED BY <1>1, AlwaysJobsInv, PTL

\* A version of a page whose author named the one before them is written right behind it, with
\* whatever else is saved or generated, and a request to the agent makes one version at most.
THEOREM JobsHistory == Spec => []EditsFollowTheirBase
<1>1. JobsInv => EditsFollowTheirBase
  BY LandingProperties DEF JobsInv, EditsFollowTheirBase
<1> QED BY <1>1, AlwaysJobsInv, PTL

\* What visitors are served of a page is published as a whole: its forms once and its image,
\* unless a sweep had chosen that image before it was claimed.
THEOREM JobsServe == Spec => []ServedIsComplete
<1>1. JobsInv => ServedIsComplete
  BY LandingProperties, LP!Served DEF JobsInv, ServedIsComplete
<1> QED BY <1>1, AlwaysJobsInv, PTL

\* The import implements ImportLedger: each of its rows is inserted, decided and counted once.
THEOREM JobsImportOnce == Spec => ImplementsImportLedger
<1>1. JobsInv /\ [Next]_vars =>
        [active = "import" => [Imports!Ledger!Next]_(Imports!Ledger!vars)]_vars
  BY NextJobs
<1>2. Init => (active = "import" => Imports!Ledger!Init)
  BY InitJobs
<1> QED BY <1>1, <1>2, AlwaysJobsInv, PTL DEF Spec, ImplementsImportLedger

\* The run implements BatchRun: each target is decided once, an enrollment goes with the
\* decision, and the run ends when nothing is pending or active.
THEOREM JobsRunOnce == Spec => ImplementsBatchRun
<1>1. JobsInv /\ [Next]_vars =>
        [active = "run" => [Runs!Abstract!Next]_(Runs!Abstract!vars)]_vars
  BY NextJobs
<1>2. Init => (active = "run" => Runs!Abstract!Init)
  BY InitJobs
<1> QED BY <1>1, <1>2, AlwaysJobsInv, PTL DEF Spec, ImplementsBatchRun

\* Commands to members and their import implement ProgramLedger: a batch that was prepared
\* from what has changed since is never written, and a row is taken once.
THEOREM JobsProgramOnce == Spec => ImplementsProgramLedger
<1>1. JobsInv /\ [Next]_vars =>
        [Changing => [Members!Ledger!Next]_(Members!Ledger!vars)]_vars
  BY NextJobs
<1>2. Init => (Changing => Members!Ledger!Init)
  BY InitJobs
<1> QED BY <1>1, <1>2, AlwaysJobsInv, PTL DEF Spec, ImplementsProgramLedger

\* The clone implements CloneOnce: its copies appear once and all together.
THEOREM JobsCloneOnce == Spec => ImplementsCloneOnce
<1>1. JobsInv /\ [Next]_vars =>
        [active = "clone" => [Clones!Promise!Next]_(Clones!Promise!vars)]_vars
  BY NextJobs
<1>2. Init => (active = "clone" => Clones!Promise!Init)
  BY InitJobs
<1> QED BY <1>1, <1>2, AlwaysJobsInv, PTL DEF Spec, ImplementsCloneOnce
=============================================================================
