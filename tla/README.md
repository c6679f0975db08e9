# OpenEngage in TLA+

OpenEngage is marketing automation on Cloudflare: an API Worker, D1 (SQLite) as
the only store of truth, at-least-once Queues, and a cron trigger every minute.
The hard part of it is not any one statement but what happens between two of
them. Workers are killed, messages arrive twice or late, two cron passes read
the same row, and D1 offers atomic batches but no transaction across an `await`.
The specifications here are about that part.

A D1 statement or batch is one action. Whatever an invocation has read and still
holds across an `await` is part of its local state (`proc[p]`), so each `await`
is a point where other invocations, the clock, an operator or a crash come in.

Contents: [system](#the-system) · [modules](#the-modules) ·
[runs](#what-the-runs-show) · [bounds](#bounds) · [fairness](#fairness) ·
[proofs](#what-is-proved) · [divergences](#where-code-and-words-part) ·
[limits](#what-is-not-modelled) · [plan](#plan)

## The system

Components with shared, concurrently written state. Paths are below
`src/packages/database/src` (repositories) and `src/apps/server/src` (services).

| component | state | operations | interacts by | hard behaviour | correct when |
|---|---|---|---|---|---|
| automation engine: `automations/engine-job-`, `job-recovery-`, `completion-`, `execution-`, `decision-`, `call-repository.ts`; `automations/worker.ts`, `nodes.ts`; `runtime/scheduler.ts` | `automation_enrollments`, `automation_jobs`, action ledger, `jobs` queue and its dead letters | enroll, claim, publish, start, execute a node, park, advance, close, fail, retry, recover, wake, call a child, recall, cancel | jobs queue, cron, delivery outbox, contact events | leases that expire under a live worker, stale candidates, duplicate messages, cancellation of a tree | one live job per active enrollment, effects once, nothing after cancellation, every enrollment ends |
| delivery outbox: `messaging/delivery-write-`, `delivery-recovery-repository.ts`; `messaging/delivery-worker.ts` | `deliveries`, `delivery` queue and its dead letters | insert, announce, claim, check for cancellation, consent gate, send, accept, fail, suppress, recover, scan, replay | job worker, queue, provider, cron | unknown outcome of a send, overtaken attempt, lost announcement | an email whose acceptance is known is not sent again, nothing of a cancelled enrollment is sent, every row is settled |
| provider events: `messaging/provider-event-repository.ts`, `messaging/cloudflare-events.ts` | `delivery_events`, delivery status, suppressions | six kinds of event | `email-events` queue | repeated, reordered, earlier than the acceptance | a status the provider last reported |
| consent: `consent/repository.ts` | topics, subscriptions, suppressions, consent ledger | preference centre, one-click unsubscribe, gate | public pages, delivery worker | a contact that stops while a message is under way | a gate before each send |
| enrollment and triggers: `automations/enrollment-repository.ts`, `inactivity-repository.ts` | enrollments and their source event | match triggers, enroll by the re-entry rule | contact events, cron, batch runs | two triggers at once, cooldowns | at most what the rule admits |
| batch runs: `automations/run-repository.ts`, `run-recovery-repository.ts` | runs and their targets | start, enroll targets, skip, refresh, cancel | engine, enrollment | refresh against targets still moving | totals equal targets, a run ends |
| publication: `automations/workspace-command-repository.ts` | drafts, versions, triggers | save a draft, check, publish, pause | operators, enrollment | a draft saved while another one is checked | what is published was checked |
| contact actions: `automations/contact-action-repository.ts`, `action-repository.ts` | contacts, tags, scores | the effects of action nodes | engine | read-modify-write of custom fields | effects under the running lease |
| contact event outbox: `contacts/event-repository.ts`, `contacts/event-service.ts`; `runtime/visitor-history-worker.ts` | events, a row per event and per projection, visitor bindings | create, claim, project, skip, retry, purge, attribute a visitor's history | jobs queue, scores, campaigns, segments, decisions | a 30 second lease projections do not check, a history attributed under a processor | every projection takes effect once, in order |
| scoring: `scoring/engine-`, `decay-repository.ts`; `scoring/engine.ts` | score, score log, contributions, category scores, grade | apply rules with caps, decay, adjust, grade, nightly sweep | event outbox, cron, engine, users | swaps against values read earlier, late events | every point is accounted for, once |
| imports: `contacts/import-*-repository.ts`, `contacts/worker.ts` | import jobs, parts, candidates, reconciliation | reserve, insert, complete, publish, fail, recover | jobs queue, object storage, dead letters | a part overtaken between its phases | each row imported and counted once |
| segments: `segments/*-repository.ts`, `segments/membership-service.ts` | segments, memberships, evaluation state | create, edit, refresh, add, remove, delta, correct | jobs queue, cron, contacts, event outbox | refresh, delta and edit computed from old definitions | in the end whoever the filter matches is a member and nobody it put there before stays, each move told once |
| programs: `projects/program-*-repository.ts`, `core/projects/program.ts` | members, transitions, commands, import jobs | command, publish, import | users, forms, automations, queue | a command prepared from several reads | each command takes effect once, as if alone |
| clones: `projects/clone-*-repository.ts` | clone jobs, mappings | preview, start, stage, materialise, retry | queue, cron | a lease that runs out in the middle of a chunk | resources appear once, all together |
| landing pages: `web/landing-*-repository.ts`, `optimization-repository.ts`; `web/landing-generation-service.ts`, `landing-publication-service.ts` | pages, versions, generation jobs, experiments, generated images | save, generate, retry, publish, restore, experiment, archive, sweep | editors, agent, jobs queue, cron, object storage | values read before a swap, a worker overtaken after minutes, an image swept while it is adopted | an edit follows the version its author named, a request makes one version, what is served is complete |
| confirmations: `mcp/*confirmation-store.ts` | one-time tokens | issue, consume | agents, users | two that consume | a token works once |

The rest (templates, assets, deals, auth, reports, agents, client, SDK,
generators) reads, or writes single batches with no protocol behind them.
`PROJECT.json` lists every component with its status, and under "hazards" each
place where the code can go wrong in a way a test would hardly reach, with the
properties that cover it.

## The modules

| module | stands for |
|---|---|
| `EnrollmentLifecycle` | what the engine promises of an enrollment, with no jobs, leases or queues |
| `AutomationEngine` | the engine; implements `EnrollmentLifecycle` |
| `AutomationEngineLiveness` | the engine with finitely many faults, and fairness |
| `MCAutomations` | three published graphs of the engine, and the events of a contact, in one run |
| `MCAutomationEngine`, `MCAutomationEngineLiveness` | small graphs for the runs of the engine alone |
| `AutomationEngineProofs` | theorems about the engine: its types, its inductive invariants, the refinement |
| `DeliveryOutbox` | deliveries, their worker, recovery, cancellation, provider events, and fairness |
| `MCDeliveryOutbox` | one email or one webhook for TLC |
| `DeliveryOutboxProofs` | its inductive invariant and theorems |
| `AutomationRuns`, `BatchRun` | drafts and publication, triggers, re-entry, batch runs; what a run promises |
| `ScoreLedger`, `ContactEvents` | the statements on a contact's score; the event outbox, its projections, visitor history and decay, which use them |
| `ContactImports`, `ImportLedger` | the import of contacts; what an import promises |
| `ProgramProgress`, `ProgramMembers`, `ProgramLedger` | what a command makes of a member; commands and the import of members; what both promise |
| `CloneJobs`, `CloneOnce` | the clone of a project; what a clone promises |
| `Segments` | one segment with its requests, messages and corrections, and fairness |
| `LandingPages` | one landing page with its editors, the agent, publication, an experiment and the sweep of images |
| `MCContactEvents`, `MCJobs`, `MCSegments`, `MCLandingPages` | instances for TLC; `MCJobs` puts the five that share no row into one run |
| `AutomationRunsProofs`, `ContactEventsProofs`, `SegmentsProofs`, `LandingPagesProofs` | theorems about the module of that name |
| `LeasedJobsProofs` | theorems about `ContactImports`, `CloneJobs` and `ProgramMembers` |
| `JobsProofs` | the theorems about the jobs, carried to `MCJobs` |

Operators whose comment begins with "fault" are wrong variants of the definition
they stand before. `Next` uses none of them. Each shows that a property can fail.

### AutomationEngine

State: `enrollment` is `automation_enrollments` (status, current node); `job` is
`automation_jobs` keyed by the code's idempotency key, enrollment:node; `event`
is the contact event a decision waits for (stored, then projected); `effect`
counts the score changes a job applied; `queue` and `dlq` hold messages
`{jobId, leaseId}`; `proc[p]` is an invocation. Times are abstracted to the
comparisons the code makes: a lease is expired or not, a due date is now, a
deadline that has or has not passed, or the year 9999 of a parent waiting for its
child.

| actions | code |
|---|---|
| `Enroll`, `CancelEnrollment` | `enrollContact`; `cancelEnrollment` with the recursive tree |
| `RepairParked`, `RecoverRead`, `RecoverWrite` | `recoverExpiredJobs`: its three statements |
| `ClaimRead`, `ClaimWrite` | `claimDueJobs`: candidates, then the lease |
| `Publish`, `PublishFails`, `ReturnClaim` | `dispatchDueAutomationJobs` |
| `RecallRead`, `RecallWrite` | `AutomationCallRepository.recover` |
| `Deliver`, `Start` | `findJobForProcessing`, `startLeasedJob` |
| `RunSource` … `RunCall`, `ReadChild`, `Throw` | `executeNode`, by node type |
| `Park`, `Finish` | `parkJobUntil`; `completeJob...Enrollment` |
| `FailureRead`, `FailureRetry`, `FailRead`, `FailWrite` | `recordJobFailure`, `failJobAndEnrollmentForLease` |
| `Ack`, `Nack`, `DeliverDeadLetter`, `DeadLetterAck` | queue consumers of `dispatch.ts` |
| `LeaseExpires`, `DeadlinePasses`, `StoreEvent`, `WakeWaitingDecision`, `Crash` | time, contact events, a killed invocation |

A cron pass handles its rows in turn; each row is an invocation of its own,
which only adds interleavings. A lease id nobody refers to any more stands for a
fresh uuidv7. The broker's retry budget is a choice in `Nack`. `change_score` is
the one contact action, since every other one has the same guard; sending is the
outbox's. A decision has the branches the worker takes; its "no" edge is never
taken by the code.

### DeliveryOutbox

State: `row` is `deliveries` by idempotency key; `enrollment` the status of the
enrollments they belong to; `refused` and `stopped` the contacts the consent gate
stops (a suppression by the provider; the contact's own choice or archival);
`announcing` rows inserted but not yet sent to the queue; `queue`, `dead`;
`recorded` the provider's events; `sends` counts how often the provider took the
message and `answered` holds what it took with a message id in its answer, both of
which only the properties read; `proc[p]` is a consumer inside `processDelivery`.

| actions | code |
|---|---|
| `Create`, `Announce` | `insertQueuedDelivery`, then `DELIVERY_QUEUE.send` |
| `Claim`, `ClaimNothing`, `ClaimFails` | `claimDelivery` and what the consumer does without a claim |
| `CheckCancelled`, `Gate`, `MarkSuppressed` | `closeIfCancelled`, the consent gate |
| `SendAccepted` | `adapter.send` returns the message id |
| `SendUnanswered` | the provider took the message, and the adapter throws: no message id (`cloudflare-email.ts:53`), or an error or time-out that leaves the outcome open |
| `SendFails` | `adapter.send` and everything else in the same `try` throws, and nothing was sent |
| `MarkAccepted`, `RecordFailure`, `MarkProviderSuppressed` | the three ends of an attempt |
| `RecoverExpiredDeliveries`, `ScanDueDelivery`, `ReplayDeadLetter` | cron and the operator |
| `CancelEnrollment`, `EndEnrollment`, `ConsentChanges` | engine and contact |
| `ApplyEvent` | `applyCloudflareDeliveryEvent` |
| `BackoffElapses`, `LeaseExpires`, `Crash` | time, a killed invocation or a failed statement outside the `try` |

A last write and the acknowledgement after it are one step; that the message
stays in the queue covers a crash between them and a duplicate delivery. An
enrollment is only as much of the engine as the outbox sees. `Create` asks for
an active enrollment where the code asks for a job running under its lease; that
the second implies the first is the engine's theorem `AlwaysOneLiveJob`. A
cancellation may hit any set of enrollments, which includes every tree.

### AutomationRuns

State: `automation` (status, published and draft version), `graph` by version,
`archived` contacts, `enrollment` by contact and source event, `run` and `target`
by slot, `time` in cooldown units.

| actions | code |
|---|---|
| `SaveDraft`, `FindDraft`, `PublishDraft`, `SetStatus` | authoring: what is read, checked, and swapped in under the draft that was checked |
| `FindTrigger`, `ListInactive`, `ReadVersion` | the reads before an enrollment, by event or request, by inactivity, by a direct request |
| `Enroll`, `Refuse`, `Throw` | `enrollContact`: the conditional insert with the re-entry rule (`NonePrior`), and a target that throws |
| `FindRun`, `ReadPublished`, `StartRun`, `BeginRun`, `ListTargets` | `startRun`, `runVersion`, `pendingTargets` |
| `SkipTarget`, `FailTarget`, `Refresh`, `CancelRun` | the ends of a target, of a run, `cancelRunTree` |
| `ArchiveContact`, `EndEnrollment`, `Tick`, `Crash` | the surroundings |

Read from the code, and therefore in the model: the insert asks neither whether
the automation was paused or archived since, nor whether the contact is still
inactive; an older version stays `published`; a target whose version check fails
is skipped. `BatchRun` says what a run's callers rely on: a frozen audience, one
decision per target, one flow per enrolled target, an end only when nothing is
open, and a cancellation that takes everything along. The flow of an enrollment
is otherwise `EnrollmentLifecycle`'s.

### ContactEvents and ScoreLedger

`ScoreLedger` is one contact's score: the total, the sum of its log, the
contributions with cap and decay, one category, the grade, and the statements on
them. `ContactEvents` is who calls them, and when: `event`, `outbox` and
`projection` are the three tables, `visitor` the binding with the lease of its
history, `touched` and `enrolled` what two other projections leave behind.

| actions | code |
|---|---|
| `Record`, `RecordVisit`, `Bind`, `Purge` | `contactEventStatements`, visits, `bind`, the maintenance of processed work |
| `Claim`, `Load`, `List`, `CheckContact`, `SkipPending`, `SkipReplayed` | `claim`, `process` up to the projections |
| `ProjectScoring`, `ProjectGrade`, `SwapGrade`, `ProjectCampaign`, `ProjectEnrollment`, `Finish` | the projections and `finishProjection` |
| `MarkProcessed`, `Fail`, `RetryFallsDue`, `LeaseExpires` | the ends of a claim, time |
| `ClaimHistory` … `FailHistory` | `processVisitorHistory` |
| `ListDue`, `DecayDate`, `Decay`, `DecayLoses` | `runScoringDecay` |
| `Adjust`, `Reconcile`, `ArchiveContact`, `RestoreContact`, `NextDay` | the score's other writers, the contact, the clock |

### ContactImports

State: `job` and `part` are the tables, `contact` the rows that became contacts,
`holder` who has an identifier (a row of the file, or somebody else),
`reconciled` what was sent to the segments. Actions follow `processContactImport`
(`ClaimPart`, `MarkProcessing`, `ReadFile`, `Reserve`, `ReadManifest`, `Persist`,
`CompleteLive`, `Enqueue`, `MarkPublished`, and of its `catch` `CatchLive`,
`CatchExpired`, `Settle`), the scanner (`ScanExpired`, `CompleteScanned`,
`RecoverPart`, `ScanUnpublished`) and the dead letters (`ReadDeadLetter`,
`CompleteDeadLive`, `CompleteDeadExpired`, `FailDead`). A row has one identifier
where the code has two; a part of the code has 100 rows. `ImportLedger` takes
parts in order, decides each one's rows in one step, counts it once, and fails
only at a part of which nothing was created.

### ProgramMembers

`ProgramProgress` is the pure part, `resolveProgramProgress` and the checks of
`prepareMutation`. A member is the journey of its transitions; the revision is
its length. `Call`, `ReadPrior`, `ReadProgram`, `ReadMember` are the reads of
`prepareMutation`, `Commit` its batch with the guard (`Guarded`), `Conflict` its
rollback and retry. `Accept`, `Claim`, `LoadProgram`, `BeginRow`, `Reload`,
`CommitRow`, `LoseLease`, `Release` are the import, whose rows are commands with
the fence of the lease. `ProgramLedger` is the promise without reads: a command
is one step, made of what the member is at that step, and a row is taken once, in
order, and reported as what happened.

### CloneJobs

`Start` and `Retry` are the operator; `Claim`, `LoadChunk`, `Stage`,
`CheckRemaining`, `Requeue` are `process`; `ReadMappings` and `Materialize` are
`materialize`, one batch with the lease, every shared reference and all inserts;
`Break` and `Fail` the errors and their `catch`. `CloneOnce` has three steps: the
copy appears as a whole, the clone is given up, or asked for again ("a partial
clone is never a usable resource", `clone-schema.ts:14`). As the code has it, a
materialisation whose lease merely ran out fails the job until an operator
retries.

### Segments

State: `segment` is its row, `members` the memberships by source, `profile` what
a filter sees of a contact, `told` the last membership event, `queue` the
messages.

| actions | code |
|---|---|
| `Edit`, `Update`, `Clear`, `Count` | `updateSegment`: the read, the write, the emptied kind, `updateMemberCount` |
| `AddMember`, `RecordJoined`, `RemoveMember` | members a user adds and removes |
| `AutomationAdds`, `AutomationRemoves` | the two segment actions of an automation, with the event and the message after them |
| `AskRefresh`, `SetPending`, `Enqueue`, `ChangeContact` | requests that end in a message |
| `ReadDefinition`, `Recount`, `MarkRunning`, `Replace`, `ReplaceFails`, `MarkFailed` | `refreshSegmentMemberships` |
| `ListDefinitions`, `MatchContact`, `SetMembership` | `reconcileContactSegmentMemberships` |
| `Correct`, `Age` | `enqueueSegmentCorrections` each minute, for what is older than two |

An automation may name static segments only, which is checked when it is published;
it goes on when the segment becomes dynamic later (`OfAutomation`). A full refresh and
a delta remove only members the filter added, so a member by hand or by an automation
who is there when the kind changes, and survives it, stays. `Converges` says what is
left to say: in the end everybody the filter matches is a member, nobody whom the
filter added and no longer matches is, and a segment that always was dynamic has
exactly those the filter matches.

### LandingPages

State: `page` is the row with its pointers to the current and the live version,
`versions` in the order of their numbers, `job` the requests to the agent by key,
`image` a generated image with its row, its object in the bucket, and whether it is
tracked, out of time or claimed, `experiment` its row. `late` and the fields `on`,
`by` and `forms` of a version are what the properties read: which images were chosen
by the sweep before they were claimed, the version its author named as the base, if
any, the request that made it, and how often its form snapshots were inserted.

| actions | code |
|---|---|
| `ReadPage`, `ReadNumber`, `Save`, `SaveRejected` | `updateLandingPage`: two reads, then a batch that fails unless the page is as it was read |
| `Request`, `Queue`, `Retry`, `Claim` | `queueLandingGeneration`, `retryGeneration`, `claim` by any message of the queue or of the recovery |
| `ReadBase`, `Generate`, `Validate`, `ReadAgain`, `Apply`, `ApplyRejected`, `Break`, `Finish` | `processLandingGeneration` with its phases, `applyGeneration`, `finish` |
| `Upload`, `Track`, `Untracked`, `RemoveAsset` | `generateEmailImage` and its clearing up |
| `ReadForPublication`, `CheckReferences`, `ReadVersion`, `Publish`, `PublishRejected` | `publishLandingPage`, `publish` |
| `CreateExperiment`, `ReadForStart`, `Start`, `ReadForEnd`, `End`, `EndRejected` | the life of an experiment |
| `FindExpired`, `DeleteObjects`, `DeleteRows` | `purgeExpiredGeneratedEmailImages` |
| `Archive`, `LeaseExpires`, `ImageExpires`, `Crash` | operators, time, a killed invocation |

A save names the version its author had before them (`baseVersionId`) when it carries
a document; with content or a name alone it may leave it out ("unnamed" in `RareKinds`).
A base that is named is compared with the current version once, in `ReadPage`; what the
batch compares afterwards is the version that the server read. `EditsFollowTheirBase` is
what base, lease and number are for together: a version whose author named a base is the
one right after it, because nothing else can come between the two reads and the batch,
and every version of the agent names one. A save that names none goes behind whatever is
current, which its author may never have seen; the property says nothing of it.

### How they compose

The engine's job worker inserts deliveries and a cancellation closes them: the
two modules share the enrollment's status and the running lease, and each models
the other by those two facts. Provider events reach the outbox only; contact
events reach the engine through `StoreEvent` and `WakeWaitingDecision`, and
enrollments through `FindTrigger`. `ContactEvents` extends `ScoreLedger`, so
projections, decay, adjustments and the sweep interleave on one score.
`AutomationRuns` creates the enrollments whose life is the engine's, and sees of
that life only its end. `ProgramMembers` sees the engine as an authority that may
be lost. The four leased jobs and the landing page share no row; `LandingPages` sees
a visitor's side of an experiment as its variants, and the assets as the images that
were generated for it.

## What the runs show

| run | question | properties |
|---|---|---|
| `automations` | of the engine: a condition whose answer changes between attempts, then a delay; a child started and left, a decision whose event comes before, between and after the reads of the worker that parks it, a score change; parking for a child, its end, recall, failure and cancellation in every order; every retry, duplicate, dead letter, crash, recovery, cancellation | `EngineTypeOK`, `OneLiveJob`, `CapturedBranchTaken`, `LeaseFencing`; `EffectOnce`, `EffectWhileActive`, `EventWakesDecision`; `AwaitedChildCompleted`, `ParkedParentRecoverable`, `NoOrphanChild`, `ImplementsLifecycle` |
| | of the events: two processors, two events, a retry, a late attribution, archival, decay, an adjustment, the sweep | `TypeOK`, `ProjectedInOrder`, `ProcessedTookEffect`, `HistoryIsRestored`, `GradeFollowsScore`, `ScoreIsBacked`, `ContributionsKept`, `ArchivedLeftAlone` |
| `engine_liveness` | a parent, its awaited child and the child's delay all end | `EnrollmentEnds` |
| `outbox` | two consumers around an email or a webhook, all events; any announcement, acknowledgement or worker may be lost | `TypeOK`, `AnsweredEmailIsLast`, `StatusTruthful`, `NoOpenDeliveryOfCancelled`, `QueuedIsClaimable`, `OnlyHolderCloses`, `DeliverySettles` |
| `jobs` | an import, an automation with its runs, a program with its import, a clone, or a landing page, each with two invocations, crashes and leases that run out | `TypeOK`, `OpenIsRecoverable`, `PublishedWasSent`, `PublishedWasValidated`, `ReentryKept`, `EditsFollowTheirBase`, `ServedIsComplete`, and the refinements `ImplementsImportLedger`, `ImplementsBatchRun`, `ImplementsProgramLedger`, `ImplementsCloneOnce` |
| `segments` | a segment edited, refreshed, corrected and changed by deltas at once, with lost messages and failures | `MembershipIsTold`, `Converges` |
| `engine_early_claim`, `engine_stranded`, `outbox_repeated_event`, `outbox_email_twice`, `score_drift`, `landing_sweep`, `landing_draft` | what the code's words say and its steps break; see below | `DelayHonoured`, `NoStrandedJob`, `RepeatedEventChangesNothing`, `EmailAcceptedOnce`, `ScoreIsLogged`, `AdoptedImageKept`, `EditKeepsServed`, each violated |

`automations` chooses at first what moves: the engine on one of the three graphs
(`steps`, `waits`, `await`), or the events. The engine reads of an event only that a
decision finds it (`StoreEvent`, `WakeWaitingDecision`), and the events read nothing of
the engine, so no interleaving of the two is lost. Each property of the engine is
checked on the graph whose faults would break it, and `MCAutomations` states it there
under its own name (`TypeOK` as `EngineTypeOK`).

`ImplementsLifecycle` is the refinement: with jobs, leases and queues hidden, each
step of the engine is a step of `EnrollmentLifecycle` or none. `done` is mapped to
the succeeded jobs, `at` to the current node of an active enrollment.

The four refinements of `jobs` hide reads, retries and leases in the same way:
`ImplementsBatchRun` maps a run that has not been closed to "open", its targets
and the flows of its enrollments to themselves; `ImplementsImportLedger` maps the
inserted parts to `decided` and the cursor to `counted`;
`ImplementsProgramLedger` maps the position of the import to `counted`;
`ImplementsCloneOnce` maps the job's status to the outcome. The abstract modules
are small enough to be read as requirements, and their steps are atomic where the
code's are not.

`CHECK_DEADLOCK FALSE` is set everywhere: when all enrollments have ended, or all
deliveries are settled and no message is left, the jobs are done, or the bound on
requests is used up, the system rightly stops.

## Bounds

- Two invocations or consumers (`Procs`): each race of the code is between one
  that read and one that wrote since. The graph `waits` has one; with two, the
  stale lease of `engine_early_claim` also breaks `EventWakesDecision`, and the graph
  is about the parking. Cancellation, events, expiry and crashes still come between
  its steps, and an effect is one batch, so a second invocation adds no step inside
  it.
- Leases: two in the engine (the present one and an overtaken one), three in the
  outbox and in the liveness run. An id is reused only when no row, message or
  invocation refers to it, so nothing is mistaken for an older one.
- `MaxStarts` 2 (5 in the code): a first start, a last one, and none left. In the
  graphs of `automations` with a parent and a child, `await` and `waits`, it is 1, where
  each start is already the last; two starts of two enrollments did not fit there,
  except one invocation at a time in `engine_liveness`.
- `Limit` 2 in the outbox (5 in the code): a first and a last attempt;
  1 in `outbox_repeated_event`, where the attempts do not matter. `outbox_email_twice`
  has one email and one consumer: the two sends are one after the other.
- One email or one webhook (`MaxDeliveries` 1), one contact, one enrollment: rows share nothing but
  the contact's refusal and the enrollment's status.
- Graphs of two to five nodes: a source, then the nodes the run is about; a call
  and its child. No graph has to be longer, since an advance looks at one edge.
- `MaxFaults` 1 in `engine_liveness`.
- Leases and invocations are symmetric sets in the engine's safety runs, never in a
  run with a liveness property. In `automations` the two leases of the engine are the
  values of the two events, so that one symmetry covers both.

- `Together` in `ContactEvents` and `AutomationRuns`: which rare things one behaviour
  may combine, as sets of `RareKinds`. All of them at once is out of reach; the sets
  pair those that meet in the code (a retry with an archival and a restoration, a
  visit with its attribution, a second event with the decay of the first; a run with
  an entry beside it, an edit with a publication, a cancellation with an end).
- `MaxAttempts` 2 claims of an event and `AttemptLimit` 2 tries of an import part and
  of a target (5 in the code): one that fails and one that ends it. `MaxTries` 2 of a
  program command (4): one conflict, and one too many.
- `MaxDay` 2, with a rule of 2 points that decays in 4 days and is capped at 3, and a
  rule that takes a point: a second event meets the cap, a day's share rounds, and
  the adjustment and the sweep fall between.
- `MaxVersion` 3 of an automation: a draft, a published version, and one that
  replaces it. `MaxTime` 1 and `Cooldown` 1: too early, and not.
- Two parts of an import, with a row without identifier and two rows with the same
  one in different parts; two rows of a program's file, one that does not parse, one
  row per invocation; three resources of a clone, two of them in one chunk.
- `MaxChanges` 2 publications, archivals and losses of authority in the program, and 2
  requests to a segment; `MaxFaults` 1 there. One contact and a filter that matches
  it or nobody: contacts do not meet in a statement, except in the count, which is
  kept by deltas of one.

- A landing page has up to three versions: the one that is live, the one that replaces
  it and the one that comes in between. Beside an image there are two (`Room`), and the
  request uses the one image there is (`Generate`). `Together` keeps the agent's failures
  apart from its images. A second request would only find the page changed by the first,
  as it does by an editor. A save that names no base is combined with content, where the
  editors race (`{"content", "unnamed"}`). `landing_sweep` and `landing_draft` need one
  request with its image, and nothing but documents.

The theorems below have none of these bounds.

## Fairness

Engine (`AutomationEngineLiveness`): every invocation that can step does, leases
run out and deadlines pass. That is the cron trigger each minute, a queue that
delivers what it keeps, and time. A crash, a publication that fails, and a lease
that runs out while its message or worker is still on the way are faults, bounded
by `MaxFaults` (a lease is five minutes, a delivery and a worker are seconds).
Nothing is assumed of cancellations, triggers or contact events. Invocations come
one at a time in this run: with two the stranding of `engine_stranded` is
possible, and an enrollment then does stay active for ever.

Outbox (`FairSpec`): a consumer goes on, backoffs and leases run out, and the
scan and the recovery run (weak fairness; cron each minute). A claim of each
delivery is strongly fair: a message the queue keeps is delivered again and again
and is not always met by a busy consumer or a database that is away. Nothing is
assumed of the provider, crashes, acknowledgements, dead letters or the first
announcement; crashes need no bound, since an attempt counts when it is claimed.

Segments (`Fairness`): an invocation goes on and takes what is in the queue (weak
fairness for each process), time passes (`Age`), and cron corrects what is stale
(`Correct`). Crashes, failed batches and lost messages are bounded by `MaxFaults`,
requests by `MaxChanges`: `Converges` is about the time after the last of them. The
two minutes' correction is what makes it true although any message may be lost.

## What is proved

For every set of enrollments, nodes, leases, invocations, deliveries, contacts,
events and resources, and every limit: the theorems have none of the bounds above.

### Assumptions

Each module names its own: an ASSUME, or, where `MCJobs` instantiates the module, the
hypothesis of its theorems, which `JobsAssumption` then states of the instance. TLC
evaluates all of them in the runs. They say that constants have the types their comments
give, that `None` is none of them and that limits are positive. Beyond that:

- `AcyclicAssumption`: a published graph has no cycle, which `validateAutomation`
  checks.
- `CallAssumption`: only call nodes start a child, and a job starts one
  (`automation_enrollments_parent_job_unique`, `automations/schema.ts:140`).
- `LedgerAssumption` and `EventsAssumption`: events and rules are finitely many, and the
  order of the projections names each once.
- `ImportAssumption`: rows are finitely many and in one part each.

Three theorems have a hypothesis besides, which is part of what they say: `ClaimsAreDue`,
`TotalsOnly` and `GradeFrom > 0` are explained where they occur.

### Engine (`AutomationEngineProofs`)

They are theorems of `AutomationEngine` for every graph and every set of invocations. The
run `automations` checks the same properties of three instances of it, through the
definitions of the same names in `MCAutomations`.

| theorem | of | by |
|---|---|---|
| `TypeCorrect` | `TypeOK` | `TInv` = `TypeOK` and `ProcInv`: what an invocation carries fits its program counter |
| `AlwaysOneLiveJob` | `OneLiveJob` | `SInv(rank)` = `TInv`, `ActiveSomewhere`, `OneLiveJob`, `Walked(rank)` |
| `AppliedOnce` | `EffectOnce` | only `RunAction` counts up, from zero |
| `AppliedWhileActive` | `EffectWhileActive` | the lease guard of the effect and `OneLiveJob` |
| `FencedByLease` | `LeaseFencing` | each step on a running job compares its lease |
| `AwaitedCompleted`, `ParkedRecoverable`, `OrphansNever` | `AwaitedChildCompleted`, `ParkedParentRecoverable`, `NoOrphanChild` | `EInv(rank)` = `SInv(rank)` and `CallInv` |
| `CapturedOnce` | `CapturedBranchTaken` | `EInv(rank)`: an answer is only captured where there is none, and an invocation about to finish carries the captured one |
| `EngineImplementsLifecycle` | `ImplementsLifecycle` | `EInv(rank)`, one simulation step per action |
| `WokenWhileClaimsAreDue` | `EventWakesDecision` | `WakeInv`, while each claim takes only what is due (`ClaimsAreDue`) |
| `WokenByOneDispatcher` | `EventWakesDecision` | `ClaimInv`: of one invocation, what it chose is still due when it leases it |

`OneLiveJob` is not inductive: `finishNode` inserts the next job with
`onConflictDoNothing`, and were that job there already, finished, the enrollment
would be active with no live job. It never is, because an active enrollment's
jobs all lie at or before its current node. `Walked(rank)` says so for a ranking of
the nodes along the edges, which acyclicity gives. The proof groups the steps:
those that leave enrollments alone and move rows among pending, leased and
running (`Steady`) keep the invariant by one lemma; enroll, cancel, fail, call and
finish have a lemma each.

`CallInv` ties a parent to its child. A parent parked until the year 9999 has a child and no
outcome noted yet; an outcome is noted, and an invocation about to recall the parent or to
finish its node is past reading it, only when the child has ended in a way no step undoes;
and no child is active under a cancelled parent, since a cancellation takes the whole
tree and a call inserts the child's enrollment under the parent's running lease. A parent
whose job fails leaves its child going on, which `OrphansNever` does not speak of.

The last two theorems are the two sides of `engine_early_claim`. Any number of
invocations keep `EventWakesDecision` as long as no claim takes a job before its time,
so the `due_at` missing from the UPDATE is the only way to lose a wake. One invocation
at a time keeps it without that hypothesis, as the graph `waits` of the run has it.

### Outbox (`DeliveryOutboxProofs`)

All but the last from `OInv` = `TypeOK`, `EmailInv`, `AnswerInv`, `AttemptInv`,
`NoOpenDeliveryOfCancelled`:

| theorem | of | needs |
|---|---|---|
| `OutboxTypes` | `TypeOK` | itself |
| `AnsweredOnce` | `AnsweredEmailIsLast` | `EmailInv`: an email has at most one attempt under way, none while its row may be claimed or was suppressed, and none before the provider's answer once it was answered with a message id. Recovery never re-queues an email, so no second claim follows a crash after the answer |
| `RowsTruthful` | `StatusTruthful` | `AnswerInv`: a consumer about to record an acceptance has the answer, and a row that says accepted or knows a message id is of a message so answered |
| `QueuedHasAttempt` | `QueuedIsClaimable` | `AttemptInv`: the attempts a holder decides by are those of its row |
| `CancelledStaysClosed` | `NoOpenDeliveryOfCancelled` | that an insertion needs an active enrollment |
| `HolderCloses` | `OnlyHolderCloses` | `KnownInv`: a row whose message id is known is past sending, so no provider event closes an attempt under way |

The steps are abstracted before the invariant is touched: `OwnStep` is what a
consumer can do to its row, `TableEffect` what a step without a consumer can do to
any row, `ClaimEffect` a claim. Each conjunct is then preserved by these three.

### Contact events and scores (`ContactEventsProofs`)

The invariants build on each other; each is proved from those above it.

| theorem | of | by |
|---|---|---|
| `EventTypes` | `TypeOK` | `Typed`: types, and what an invocation carries |
| `AlwaysAttributed` | | `Attribution`: a projection that is completed, or about to run, is of an event with an owner, and of a restored one only those a history runs |
| `InOrder` | `ProjectedInOrder` | `Tracking`: who still holds the lease of an event has seen all that is pending of it |
| `TookEffectWhenProcessed` | `ProcessedTookEffect` | `CompletedTookEffect`, `LeftDecided`: a completed projection left its trace, a processed event has none open |
| `HistoryRestored` | `HistoryIsRestored` | `Closed`: a binding that is done has no visit without an owner |
| `ArchivedUntouched` | `ArchivedLeftAlone` | the statements' own `archived_at is null` |
| `ContributionsAreKept` | `ContributionsKept` | `Schedule` (a contribution's share is that of its last decay), `Capped`, and `Unscored`, `AllReading` for what a scoring under way has read |
| `ScoreBacked`, `ScoreLogged` | `ScoreIsBacked`; the total is the sum of the log | `Accounted`, under `TotalsOnly` |
| `GradeIsCurrent` | `GradeFollowsScore` | `Skipped`, `Graded`: the grade is the score's, or that of some event is still to be computed |

`TotalsOnly` says that no adjustment is of a category. It is exactly what
`score_drift` breaks: with it the total is the sum of the log for ever, so the
category adjustment is the only way to the drift. `GradeIsCurrent` assumes that grades
are a projection and that `GradeFrom`, the score from which the better grade is given,
is positive: with a criterion met by a score of nothing, a contact has no grade until
his first event, and nothing in the code says otherwise.

Sums over rules and events are recursive functions, and induction is out of reach (see
below), so a sum's behaviour under a changed member is shown by a smallest
counterexample: `WFMin` of the library on finite subsets.

### Publication and batch runs (`AutomationRunsProofs`)

`RInv` = `TypeOK`, `Local` (what an invocation carries), `VersionInv` (an enrollment is
of a version older than the draft), `RunInv` (a pending target belongs to a run that
enrolls, a flow to an enrolled target) and `PublishedWasValidated`, which is inductive
because the publication compares the draft with the one that was checked.

| theorem | of | by |
|---|---|---|
| `RunTypes`, `Validated` | `TypeOK`, `PublishedWasValidated` | `RInv` |
| `ReentryHolds` | `ReentryKept` | `RInv` and the condition inside the insert |
| `RunsImplementBatchRun` | `ImplementsBatchRun` | `RInv`, one simulation step per action |

### Imports, clones and programs (`LeasedJobsProofs`)

`ImportInv` = `Typed`, `Ordered` (parts before the cursor are completed, later ones do
not exist), `Sound` of each part (one that waits has a try left and inserted nothing),
`Evident` (the rows of a part that are contacts are those it recorded), `PublishedWasSent`
and `Local`.

| theorem | of | by |
|---|---|---|
| `ImportTypes`, `ImportsRecover`, `PublishedAfterSent` | `TypeOK`, `OpenIsRecoverable`, `PublishedWasSent` | `ImportInv` |
| `ImportsKeepLedger` | `ImplementsImportLedger` | `ImportInv`; a part overtaken between inserting and completing is counted from what it inserted |
| `CloneTypes`, `ClonesOnce` | `TypeOK` and `ImplementsCloneOnce` of `CloneJobs` | `CloneInv`: until the job is completed there are no copies |
| `MemberTypes`, `MembersKeepLedger` | `TypeOK` and `ImplementsProgramLedger` of `ProgramMembers` | `MemberInv` |

`MemberInv` = `TypeOK`, `InTurn` (a row that was carried out is not after the position of
the import), and of each invocation `Carries` (what its program counter will need: a key,
a try left, a row that is the next one it claimed) and `Prepares` (a batch was prepared
from a revision the journey has had and is not refused; a command found carried out is).
A journey only grows, so what was prepared stays so; that the batch's guard then makes it
the outcome of the present state is the lemma `CarriedOut`: the revision asked for is the
length of the journey, and the published version matters to a new member only, of whom
the guard asks for it too. `None` names neither a key nor a member (`ProgramAssumption`).

### Segments (`SegmentsProofs`)

`SegmentTypes` and `MembersAreTold` (`MembershipIsTold`) from `SegmentInv`: the rows'
types; of each invocation, that it is `Equipped` and that what it read `Follows` the
segment (an edit under way read the kind there is, as long as the kind was never
changed, and no version is higher than the requests account for); and `Told`: the property, and
that a segment that always was dynamic has no member a user or an automation added.

### Landing pages (`LandingPagesProofs`)

| theorem | of | by |
|---|---|---|
| `LandingTypes` | `TypeOK` | `LInv` = `TypeOK`, `Local`, `LeaseInv`, `VariantInv` |
| `EditsFollow` | `EditsFollowTheirBase` | itself with `LInv`: what an invocation holds as the named base is the version it read, and the batch swaps that one |
| `ServedComplete` | `ServedIsComplete` | `SInv`: a version that was ever published has its form snapshots (`VersionInv`) and its image, unless it is in `late`, is public and stored, and what is public is claimed, so that the sweep does not choose it (`ImageInv`); the pointers and the experiment's variants are such versions (`PointerInv`) |

### The runs' own specifications (`JobsProofs`)

The run `jobs` checks `MCJobs`, where one job is active. `JobsTypes`, `JobsRecover`,
`JobsPublish`, `JobsValidate`, `JobsReenter`, `JobsHistory`, `JobsServe`,
`JobsImportOnce`, `JobsRunOnce`, `JobsProgramOnce` and `JobsCloneOnce` carry the theorems
above to it: a step of `MCJobs` is one of the active job's and leaves the others alone, so
`JobsInv`, the jobs' invariants side by side, is kept.

### What is only model-checked

- `EnrollmentEnds`, `DeliverySettles` and `Converges`: liveness under fairness needs
  ENABLED, which is beyond the prover. So is an induction over data, since the installed
  provers cannot instantiate the library's induction theorems: what the recursive
  functions of `ScoreLedger` compute is proved as far as one unfolding goes.

## Where code and words part

- `engine_early_claim`. `claimDueJobs` "leases due pending jobs"
  (`engine-job-repository.ts:43`), but the UPDATE (line 69) does not test `due_at`
  again. A dispatcher with old candidates leases a job that another one claimed, ran
  and parked since; the worker sees `waiting` and takes the delay as over.
- `engine_stranded`. `recoverExpiredJobs` decides by the attempts it selected
  (`job-recovery-repository.ts:66`). When the job is retried and started for the last
  time before its UPDATE, the job is returned to pending with no start left. No
  claim and no repair takes it; the test of the file expects such a job to fail with
  its enrollment.
- `outbox_repeated_event`. The class "applies idempotent provider events"
  (`provider-event-repository.ts:10`), but only the event row is. A "delivered" that
  the queue repeats after a "bounced" turns the delivery back to delivered.
- `outbox_email_twice`. "Once a provider reports success, a database failure is
  ambiguous and must leave the delivery in `sending`" (`delivery-worker.ts:226`), and the
  recovery "makes stale email outcomes terminal" (`delivery-recovery.test.ts:56`): an
  email of unknown outcome is not sent again. But the adapter throws a transient error
  when the provider took the email without a message id (`cloudflare-email.ts:54`), and
  so does every error of its call that leaves the outcome open; the row is queued again
  and the email accepted twice. Of an email that was answered with a message id this
  cannot happen (`AnsweredEmailIsLast`).
- `landing_sweep`. A generated image "that a valid draft adopted is exempt from the
  clearing of temporary images" (`docs/landing-pages.md:5`). The sweep deletes what it
  chose without asking again whether it was claimed meanwhile
  (`maintenance-worker.ts:102`): a version adopted or published in that moment, a day or
  more after its image was made, may be served without it. `ServedIsComplete` is about
  all other images (`late`).
- `landing_draft`. "Editing and generating do not change what is being published"
  (`docs/landing-pages.md:9`). A save without content writes back the page status it read
  (`landing-page-repository.ts:174`): one that read the page before the publication of
  the current version sets the published page to draft again, and visitors no longer
  find it.
- `score_drift`. "contacts.score is the materialized total; score_events is an
  append-only delta log" (`platform/maintenance-repository.ts:92`), and the nightly
  sweep sets the one to the sum of the other. An automation that changes a category's
  score logs the delta and leaves the total as it is, which its test expects
  (`automation-score-archived-contact.test.ts:175`); the sweep then adds it.

The proof of `CapturedBranchTaken` began with another form, that the node of the branch
not taken has no job. That is false when the branch taken leads to that node further
on, which no instance had. What the code promises, and the property says now, is
about the step: the one that finishes the condition follows the captured branch.

`engine_early_claim` has a second consequence, met with two invocations in the
graph `waits`: a decision leased before its time is under a lease when
its event wants to wake it; if its publication then fails and the claim is given
back, the event goes unnoticed until the deadline.

Met while modelling, and in the model, though no text of the repository denies them and
no run singles them out:

- `updateSegment` writes the version it read plus one without asking for it again, so
  two overlapping edits share a version and the refresh of the first may mark the
  second as ready until the next correction.
- Members by hand or by an automation can stay in a segment that became dynamic, and are
  counted, although the filter does not match them: the emptying of a segment whose kind
  changed (`command-repository.ts:111`) is a statement after its write, so a crash
  between the two (lines 95 to 115) or an overlapping edit, each of which compares with
  the kind it read, leaves them; and an automation published for the static segment goes
  on adding. No refresh removes them, since both remove members of source `dynamic` only.
  The emptying also records no events. `Right` says of these members only that they are
  counted, and `kept` excludes such a history from `MembershipIsTold`.
- The count of a static segment can be off after a crash until it is refreshed by hand.
- A save of a landing page that names no base overwrites, unseen, what another editor
  saved since its author looked; a save of the name alone writes an empty document as the
  new version (`landing-page-repository.ts:161`).

## What is not modelled

- Content: rendering, signing, filters, SQL compilation, schemas, encodings.
- In the engine: replay of dead-lettered jobs by an operator, whole-run cancellation,
  contact actions besides the score (those on a segment are in `Segments`), the retry
  budget of the broker as a number.
- In the outbox: topics and frequency caps of the gate, which the code applies to
  marketing mail it does not send yet.
- In the event outbox: the visitor metrics, the page size of a history, a decision's
  wake (which is in the engine) and the segments' message, whose handler is in
  `Segments`.
- In the programs: the path of a form submission, which writes the same batch together
  with the submission; what a clone captures and rewrites. A clone's refresh messages
  after its completion rely on the queue's redelivery.
- In the landing pages: documents, their sanitising and project variables; the program
  bindings of forms, visitors assigned to variants, dynamic content; the slug; the
  creation of a page; a save with content and a document at once. An upload is one step
  with its row.
- Exports: parts and file are put into object storage under the lease that is asked
  for only afterwards. What a reader should get of contacts that change meanwhile is
  not promised anywhere, so there is nothing to check against.
- The lost update of custom fields by an action (`action-execution.ts:132`).
- The components marked not modelled in `PROJECT.json`, for the reason given there.

## Plan

In this order; done parts first.

1. **Engine** (done): `EnrollmentLifecycle`, `AutomationEngine`, its liveness, proofs
   of `OneLiveJob`, effects and fencing.
2. **Outbox** (done): `DeliveryOutbox`, proofs of its invariants.
3. **Enrollment and batch runs** (done): `AutomationRuns` with publication, `BatchRun`.
4. **Contact event outbox and scoring** (done): `ContactEvents`, `ScoreLedger`.
5. **Imports, programs, clones** (done): `ContactImports`, `ProgramMembers`, `CloneJobs`
   and their abstract specifications.
6. **Segments** (done): `Segments` with convergence.
7. **Proofs** (done): every safety property and every refinement that a run checks.
   Left to TLC: the three liveness properties.
8. **Landing pages** (done): `LandingPages`.
9. **Smaller protocols** left: confirmation tokens, visitors in experiments, the form
   path of programs, exports, replay of a job's dead letter.
