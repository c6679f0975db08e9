----------------------------- MODULE LandingPages -----------------------------
(***************************************************************************)
(* One landing page: its versions, which an editor saves or an agent makes *)
(* on request, the one that is served, an experiment between versions that *)
(* were, and the generated images they show, which a sweep removes when    *)
(* nobody claimed them in a day.                                           *)
(*                                                                         *)
(* One D1 statement or batch is one action, and so is a call of the bucket *)
(* or the agent.  A process is one invocation; its name stands for its     *)
(* lease id.  Versions and images are numbered in the order they appear.   *)
(***************************************************************************)
EXTENDS Naturals, Sequences, FiniteSets

CONSTANTS
    Procs,
    Requests,      \* keys of requests to the agent
    Edits,         \* what an editor may save: see Edit
    MaxVersions,   \* bound on versions
    MaxImages,     \* bound on generated images
    Together,      \* which rare things one behaviour combines, see RareKinds
    None

RareKinds == {"generation", "trouble", "image", "content", "unnamed", "restored", "experiment",
              "archived"}
Numbers == 1 .. MaxVersions
Images == 1 .. MaxImages
NoImage == 0

\* What one save carries.  The older kind of content says what the page is to be; a document is
\* a draft, and so is a save of the name alone, which writes an empty one.
Edit == [kind : {"document", "name"}, status : {None}]
        \cup [kind : {"content"}, status : {"draft", "published"}]

LandingAssumption ==
    /\ MaxVersions \in Nat \ {0} /\ MaxImages \in Nat
    /\ Edits \subseteq Edit
    /\ Together \subseteq SUBSET RareKinds
    /\ None \notin Procs \cup Requests \cup Nat \cup {"draft", "published"}

VARIABLES
    page,          \* the row of landing_pages
    versions,      \* landing_page_versions
    job,           \* landing_generation_jobs, by request key
    image,         \* assets and generated_email_images, and the object in the bucket
    late,          \* images that were claimed when the sweep had chosen them already
    experiment,    \* the row of landing_experiments
    rare,          \* the rare things of this behaviour
    proc           \* what each invocation holds between two awaits

vars == <<page, versions, job, image, late, experiment, rare, proc>>

Page == [status : {"draft", "published", "archived"}, current : Numbers,
         live : Numbers \cup {None}]
Version == [document : BOOLEAN, by : Requests \cup {None},
            on : 0 .. MaxVersions \cup {None},    \* the base its author named
            image : Images \cup {NoImage}, published : BOOLEAN,
            forms : Nat]               \* times its form snapshots were inserted
Job == [status : {"absent", "queued", "running", "completed", "failed", "conflict"},
        base : Numbers \cup {None}, lease : Procs \cup {None}, expired : BOOLEAN,
        retryable : BOOLEAN, result : Numbers \cup {None}]
Image == [row : BOOLEAN, object : BOOLEAN, public : BOOLEAN,
          tracked : {"no", "fresh", "expired", "claimed"}]
Experiment == [status : {"absent", "draft", "running", "ended"}, variants : SUBSET Numbers]

PC == {"idle", "queue", "base", "generate", "track", "remove", "validate", "apply", "commit",
       "finish", "number", "save", "references", "snapshot", "publish", "start", "end",
       "objects", "rows"}
Outcome == {"conflict", "retryable", "configuration"}
ProcState == [pc : PC, request : Requests \cup {None}, base : Numbers \cup {None},
              on : Numbers \cup {None}, version : 1 .. MaxVersions + 1 \cup {None},
              image : Images \cup {NoImage},
              edit : Edits \cup {None}, status : {"draft", "published"} \cup Outcome \cup {None},
              seen : BOOLEAN, list : SUBSET Images]
Idle == [pc |-> "idle", request |-> None, base |-> None, on |-> None, version |-> None,
         image |-> NoImage, edit |-> None, status |-> None, seen |-> FALSE, list |-> {}]

Init ==
    /\ page = [status |-> "draft", current |-> 1, live |-> None]
    /\ versions = <<[document |-> TRUE, by |-> None, on |-> 0, image |-> NoImage,
                     published |-> FALSE, forms |-> 0]>>
    /\ job = [r \in Requests |-> [status |-> "absent", base |-> None, lease |-> None,
                                  expired |-> FALSE, retryable |-> FALSE, result |-> None]]
    /\ image = [i \in Images |-> [row |-> FALSE, object |-> FALSE, public |-> FALSE,
                                  tracked |-> "no"]]
    /\ late = {}
    /\ experiment = [status |-> "absent", variants |-> {}]
    /\ rare \in Together
    /\ proc = [p \in Procs |-> Idle]

-----------------------------------------------------------------------------
(* What the statements share.                                              *)

Goto(p, pc) == proc' = [proc EXCEPT ![p].pc = pc]
Return(p) == proc' = [proc EXCEPT ![p] = Idle]
Fail(p, outcome) == proc' = [proc EXCEPT ![p].pc = "finish", ![p].status = outcome]

Open == page.status # "archived"
Latest == Len(versions)

\* Bound on versions: one less beside an image.
Room == Latest < IF "image" \in rare THEN MaxVersions - 1 ELSE MaxVersions

\* The current version still is the one the process started from, and the page is open.
OnCurrent(p) == Open /\ page.current = proc[p].base

\* An image that may be shown to an editor; one that is public may be published as it is.
Shown(i) == image[i].row /\ (image[i].public \/ image[i].tracked \in {"fresh", "claimed"})
Refers(i) == i # NoImage => Shown(i)
Stored(i) == i # NoImage => image[i].object

Chosen(i) == \E p \in Procs : i \in proc[p].list
ClaimedLate(i) == i # NoImage /\ (Chosen(i) \/ ~image[i].object)

NewVersion(document, by, on, i, published) ==
    Append(versions, [document |-> document, by |-> by, on |-> on, image |-> i,
                      published |-> published, forms |-> 0])

-----------------------------------------------------------------------------
(* A request to the agent.                                                 *)

Request(p, r) ==
    /\ proc[p].pc = "idle" /\ "generation" \in rare
    /\ Open /\ job[r].status = "absent"
    /\ proc' = [proc EXCEPT ![p].pc = "queue", ![p].request = r, ![p].base = page.current]
    /\ UNCHANGED <<page, versions, job, image, late, experiment, rare>>

\* A repeated key finds the row of the first request.
Queue(p) ==
    LET r == proc[p].request
    IN /\ proc[p].pc = "queue"
       /\ job' = IF job[r].status = "absent"
                 THEN [job EXCEPT ![r].status = "queued", ![r].base = proc[p].base]
                 ELSE job
       /\ Return(p)
       /\ UNCHANGED <<page, versions, image, late, experiment, rare>>

Retry(r) ==
    /\ job[r].status = "failed" /\ job[r].retryable
    /\ Open /\ page.current = job[r].base
    /\ job' = [job EXCEPT ![r].status = "queued", ![r].retryable = FALSE]
    /\ UNCHANGED <<page, versions, image, late, experiment, rare, proc>>

\* By a message of the request, of a retry or of the recovery, which sends one for each
\* row that is queued or whose lease ran out; a message may come twice.
Claim(p, r) ==
    /\ proc[p].pc = "idle"
    /\ \/ job[r].status = "queued"
       \/ job[r].status = "running" /\ job[r].expired
    /\ job' = [job EXCEPT ![r].status = "running", ![r].lease = p, ![r].expired = FALSE]
    /\ proc' = [proc EXCEPT ![p].pc = "base", ![p].request = r, ![p].base = job[r].base]
    /\ UNCHANGED <<page, versions, image, late, experiment, rare>>

ReadBase(p) ==
    /\ proc[p].pc = "base"
    /\ IF OnCurrent(p) /\ versions[proc[p].base].document
       THEN Goto(p, "generate")
       ELSE Fail(p, "conflict")
    /\ UNCHANGED <<page, versions, job, image, late, experiment, rare>>

Unused == {i \in Images : image[i] = [row |-> FALSE, object |-> FALSE, public |-> FALSE,
                                      tracked |-> "no"]
                          /\ ~Chosen(i) /\ (\A p \in Procs : i # proc[p].image)
                          /\ (\A n \in 1 .. Latest : i # versions[n].image)}

\* The agent's proposal needs an image, as long as the bound has one left, which is put into
\* the bucket and tracked; what fails in between is taken away again, as far as that succeeds.
Generate(p) ==
    /\ proc[p].pc = "generate" /\ ("image" \in rare => Unused = {})
    /\ Goto(p, "validate")
    /\ UNCHANGED <<page, versions, job, image, late, experiment, rare>>

Upload(p) ==
    /\ proc[p].pc = "generate" /\ "image" \in rare
    /\ Unused # {}
    /\ LET i == CHOOSE i \in Unused : \A j \in Unused : i <= j
       IN /\ image' = [image EXCEPT ![i].row = TRUE, ![i].object = TRUE]
          /\ proc' = [proc EXCEPT ![p].pc = "track", ![p].image = i]
    /\ UNCHANGED <<page, versions, job, late, experiment, rare>>

Track(p) ==
    /\ proc[p].pc = "track"
    /\ image' = [image EXCEPT ![proc[p].image].tracked = "fresh"]
    /\ Goto(p, "validate")
    /\ UNCHANGED <<page, versions, job, late, experiment, rare>>

Untracked(p) ==
    /\ proc[p].pc = "track"
    /\ image' \in {image, [image EXCEPT ![proc[p].image].object = FALSE]}
    /\ Goto(p, "remove")
    /\ UNCHANGED <<page, versions, job, late, experiment, rare>>

RemoveAsset(p) ==
    /\ proc[p].pc = "remove"
    /\ image' \in {image, [image EXCEPT ![proc[p].image].row = FALSE]}
    /\ proc' = [proc EXCEPT ![p].pc = "finish", ![p].status = "retryable", ![p].image = NoImage]
    /\ UNCHANGED <<page, versions, job, late, experiment, rare>>

Validate(p) ==
    /\ proc[p].pc = "validate"
    /\ IF Refers(proc[p].image) THEN Goto(p, "apply") ELSE Fail(p, "configuration")
    /\ UNCHANGED <<page, versions, job, image, late, experiment, rare>>

ReadAgain(p) ==
    /\ proc[p].pc = "apply"
    /\ IF OnCurrent(p) THEN Goto(p, "commit") ELSE Fail(p, "conflict")
    /\ UNCHANGED <<page, versions, job, image, late, experiment, rare>>

\* One batch: the version, where the page points, the receipt of the request, and the claim of
\* the image.  Its answer may be lost, and is then reported as a failure.
Claimed(i) == [image EXCEPT ![i].tracked = IF @ \in {"fresh", "expired"} THEN "claimed" ELSE @]

WriteVersion(p) ==
    LET r == proc[p].request
        i == proc[p].image
    IN /\ Room
       /\ versions' = NewVersion(TRUE, r, proc[p].base, i, FALSE)
       /\ page' = [page EXCEPT !.current = Latest + 1]
       /\ job' = IF job[r].lease # p THEN job
                 ELSE [job EXCEPT ![r] = [@ EXCEPT !.status = "completed", !.lease = None,
                                                   !.expired = FALSE, !.result = Latest + 1]]
       /\ image' = IF i = NoImage THEN image ELSE Claimed(i)
       /\ late' = IF ClaimedLate(i) THEN late \cup {i} ELSE late
       /\ Return(p) \/ Fail(p, "retryable")
       /\ UNCHANGED <<experiment, rare>>

Holds(p) == LET r == proc[p].request IN job[r].status = "running" /\ job[r].lease = p

ApplyOfAnyone(p) ==            \* fault: the lease is not asked for again
    /\ proc[p].pc = "commit"
    /\ OnCurrent(p)
    /\ WriteVersion(p)
Apply(p) ==
    /\ proc[p].pc = "commit"
    /\ OnCurrent(p) /\ Holds(p)
    /\ WriteVersion(p)

ApplyRejected(p) ==
    /\ proc[p].pc = "commit"
    /\ ~(OnCurrent(p) /\ Holds(p))
    /\ Fail(p, "conflict")
    /\ UNCHANGED <<page, versions, job, image, late, experiment, rare>>

\* The agent or a statement fails; what a retry cannot mend is told apart by the phase.
Break(p) ==
    /\ "trouble" \in rare
    /\ proc[p].pc \in {"base", "generate", "validate", "apply", "commit"}
    /\ Fail(p, IF proc[p].pc = "validate" THEN "configuration" ELSE "retryable")
    /\ UNCHANGED <<page, versions, job, image, late, experiment, rare>>

Finish(p) ==
    LET r == proc[p].request
    IN /\ proc[p].pc = "finish"
       /\ job' = IF job[r].lease = p
                 THEN [job EXCEPT ![r] = [@ EXCEPT
                          !.status = IF proc[p].status = "conflict" THEN "conflict" ELSE "failed",
                          !.retryable = proc[p].status = "retryable",
                          !.lease = None, !.expired = FALSE]]
                 ELSE job
       /\ Return(p)
       /\ UNCHANGED <<page, versions, image, late, experiment, rare>>

-----------------------------------------------------------------------------
(* An editor saves: the page is read, then the last number, then the       *)
(* version is written beside a condition that the page is as it was read.  *)

\* The editor may name the version they had before them, and must for a document; another one
\* than the current is refused.  What is compared from here on is the version read now.
ReadPage(p, edit, i, base) ==
    /\ proc[p].pc = "idle"
    /\ Open /\ Room
    /\ edit.kind # "document" => i = NoImage /\ "content" \in rare
    /\ edit.kind = "document" => base # None
    /\ base = None => "unnamed" \in rare
    /\ base # None => base = page.current
    /\ Refers(i)
    /\ proc' = [proc EXCEPT ![p].pc = "number", ![p].base = page.current, ![p].on = base,
                            ![p].edit = edit, ![p].status = page.status, ![p].image = i]
    /\ UNCHANGED <<page, versions, job, image, late, experiment, rare>>

ReadNumber(p) ==
    /\ proc[p].pc = "number"
    /\ proc' = [proc EXCEPT ![p].pc = "save", ![p].version = Latest + 1]
    /\ UNCHANGED <<page, versions, job, image, late, experiment, rare>>

\* The status that is written without content is the one that was read.
WriteEdit(p) ==
    LET edit == proc[p].edit
        served == edit.status = "published"
    IN /\ Room
       /\ versions' = NewVersion(edit.kind # "content", None, proc[p].on, proc[p].image, served)
       /\ page' = [status |-> IF edit.kind = "content" THEN edit.status ELSE proc[p].status,
                   current |-> Latest + 1,
                   live |-> IF served THEN Latest + 1 ELSE page.live]
       /\ Return(p)
       /\ UNCHANGED <<job, image, late, experiment, rare>>

Save(p) ==
    /\ proc[p].pc = "save"
    /\ OnCurrent(p) /\ proc[p].version = Latest + 1
    /\ WriteEdit(p)

SaveRejected(p) ==
    /\ proc[p].pc = "save"
    /\ ~(OnCurrent(p) /\ proc[p].version = Latest + 1)
    /\ Return(p)
    /\ UNCHANGED <<page, versions, job, image, late, experiment, rare>>

Archive ==
    /\ "archived" \in rare
    /\ Open
    /\ page' = [page EXCEPT !.status = "archived"]
    /\ UNCHANGED <<versions, job, image, late, experiment, rare, proc>>

-----------------------------------------------------------------------------
(* Publication of a version, the current one or one of before.             *)

ReadForPublication(p, n) ==
    /\ proc[p].pc = "idle"
    /\ Open /\ n \in 1 .. Latest /\ versions[n].document
    /\ n = page.current \/ "restored" \in rare
    /\ proc' = [proc EXCEPT ![p].pc = "references", ![p].base = page.current,
                            ![p].version = n]
    /\ UNCHANGED <<page, versions, job, image, late, experiment, rare>>

CheckReferences(p) ==
    LET i == versions[proc[p].version].image
    IN /\ proc[p].pc = "references"
       /\ IF Refers(i) /\ Stored(i) THEN Goto(p, "snapshot") ELSE Return(p)
       /\ UNCHANGED <<page, versions, job, image, late, experiment, rare>>

ReadVersion(p) ==
    /\ proc[p].pc = "snapshot"
    /\ proc' = [proc EXCEPT ![p].pc = "publish", ![p].seen = versions[proc[p].version].published]
    /\ UNCHANGED <<page, versions, job, image, late, experiment, rare>>

\* One batch: the pointer, the claim of the image, the form snapshots of a first publication,
\* and the mark of the version.
Published(p) ==
    LET n == proc[p].version
        i == versions[n].image
    IN /\ page' = [page EXCEPT !.status = "published", !.live = n]
       /\ versions' = [versions EXCEPT ![n].published = TRUE,
                                       ![n].forms = IF proc[p].seen THEN @ ELSE @ + 1]
       /\ image' = IF i = NoImage \/ ~image[i].row THEN image
                   ELSE [Claimed(i) EXCEPT ![i].public = TRUE]
       /\ late' = IF ClaimedLate(i) THEN late \cup {i} ELSE late
       /\ Return(p)
       /\ UNCHANGED <<job, experiment, rare>>

PublishAgain(p) ==             \* fault: the version is not asked for again
    /\ proc[p].pc = "publish"
    /\ OnCurrent(p)
    /\ Published(p)
Publish(p) ==
    /\ proc[p].pc = "publish"
    /\ OnCurrent(p) /\ versions[proc[p].version].published = proc[p].seen
    /\ Published(p)

PublishRejected(p) ==
    /\ proc[p].pc = "publish"
    /\ ~(OnCurrent(p) /\ versions[proc[p].version].published = proc[p].seen)
    /\ Return(p)
    /\ UNCHANGED <<page, versions, job, image, late, experiment, rare>>

-----------------------------------------------------------------------------
(* An experiment between versions of the page that were published.         *)

Servable(n) ==
    /\ versions[n].document /\ versions[n].published
    /\ Refers(versions[n].image) /\ Stored(versions[n].image)

CreateExperiment(m, n) ==
    /\ "experiment" \in rare
    /\ experiment.status = "absent" /\ Open
    /\ m < n /\ n <= Latest
    /\ \A v \in {m, n} : versions[v].document /\ versions[v].published
    /\ experiment' = [status |-> "draft", variants |-> {m, n}]
    /\ UNCHANGED <<page, versions, job, image, late, rare, proc>>

ReadForStart(p) ==
    /\ proc[p].pc = "idle"
    /\ experiment.status \in {"draft", "running"}
    /\ page.status = "published" /\ page.live # None
    /\ \A n \in experiment.variants : Servable(n)
    /\ Goto(p, "start")
    /\ UNCHANGED <<page, versions, job, image, late, experiment, rare>>

Start(p) ==
    /\ proc[p].pc = "start"
    /\ experiment' = IF experiment.status = "draft"
                     THEN [experiment EXCEPT !.status = "running"] ELSE experiment
    /\ Return(p)
    /\ UNCHANGED <<page, versions, job, image, late, rare>>

\* The operator names the version they see served, and the winner or none.
ReadForEnd(p, winner) ==
    /\ proc[p].pc = "idle"
    /\ experiment.status = "running" /\ page.live # None
    /\ winner # None => winner \in experiment.variants /\ Servable(winner)
    /\ proc' = [proc EXCEPT ![p].pc = "end", ![p].base = page.live, ![p].version = winner]
    /\ UNCHANGED <<page, versions, job, image, late, experiment, rare>>

Won(p) == page.live = proc[p].base /\ page.status = "published"

\* The winner is served and the experiment ended by one batch; without a winner the page
\* stays as it is.
End(p) ==
    LET winner == proc[p].version
    IN /\ proc[p].pc = "end"
       /\ experiment.status = "running"
       /\ winner # None => Won(p)
       /\ experiment' = [experiment EXCEPT !.status = "ended"]
       /\ page' = IF winner = None THEN page ELSE [page EXCEPT !.live = winner]
       /\ Return(p)
       /\ UNCHANGED <<versions, job, image, late, rare>>

EndRejected(p) ==
    /\ proc[p].pc = "end"
    /\ experiment.status # "running" \/ (proc[p].version # None /\ ~Won(p))
    /\ Return(p)
    /\ UNCHANGED <<page, versions, job, image, late, experiment, rare>>

-----------------------------------------------------------------------------
(* The daily sweep of images nobody claimed in time.                       *)

FindExpired(p) ==
    LET expired == {i \in Images : image[i].row /\ image[i].tracked = "expired"}
    IN /\ proc[p].pc = "idle" /\ expired # {}
       /\ proc' = [proc EXCEPT ![p].pc = "objects", ![p].list = expired]
       /\ UNCHANGED <<page, versions, job, image, late, experiment, rare>>

DeleteObjects(p) ==
    /\ proc[p].pc = "objects"
    /\ image' = [i \in Images |->
                    [image[i] EXCEPT !.object = @ /\ i \notin proc[p].list]]
    /\ Goto(p, "rows")
    /\ UNCHANGED <<page, versions, job, late, experiment, rare>>

DeleteRows(p) ==
    /\ proc[p].pc = "rows"
    /\ image' = [i \in Images |->
                    IF i \in proc[p].list
                    THEN [image[i] EXCEPT !.row = FALSE, !.public = FALSE, !.tracked = "no"]
                    ELSE image[i]]
    /\ Return(p)
    /\ UNCHANGED <<page, versions, job, late, experiment, rare>>

-----------------------------------------------------------------------------
LeaseExpires(r) ==
    /\ "trouble" \in rare
    /\ job[r].status = "running" /\ ~job[r].expired
    /\ job' = [job EXCEPT ![r].expired = TRUE]
    /\ UNCHANGED <<page, versions, image, late, experiment, rare, proc>>

\* A day passes.
ImageExpires(i) ==
    /\ image[i].tracked = "fresh"
    /\ image' = [image EXCEPT ![i].tracked = "expired"]
    /\ UNCHANGED <<page, versions, job, late, experiment, rare, proc>>

\* Of an invocation that has written something: one that has only read may as well not have been.
Crash(p) ==
    /\ proc[p].pc \in {"base", "generate", "track", "remove", "validate", "apply", "commit",
                      "finish", "rows"}
    /\ Return(p)
    /\ UNCHANGED <<page, versions, job, image, late, experiment, rare>>

Worker(p) ==
    \/ \E r \in Requests : Request(p, r) \/ Claim(p, r)
    \/ Queue(p) \/ ReadBase(p) \/ Generate(p) \/ Upload(p) \/ Track(p) \/ Untracked(p)
    \/ RemoveAsset(p) \/ Validate(p) \/ ReadAgain(p) \/ Apply(p) \/ ApplyRejected(p)
    \/ Break(p) \/ Finish(p)

Editor(p) ==
    \/ \E edit \in Edits, i \in Images \cup {NoImage}, base \in Numbers \cup {None} :
          ReadPage(p, edit, i, base)
    \/ ReadNumber(p) \/ Save(p) \/ SaveRejected(p)
    \/ \E n \in Numbers : ReadForPublication(p, n)
    \/ CheckReferences(p) \/ ReadVersion(p) \/ Publish(p) \/ PublishRejected(p)
    \/ ReadForStart(p) \/ Start(p) \/ End(p) \/ EndRejected(p)
    \/ \E winner \in Numbers \cup {None} : ReadForEnd(p, winner)

Sweep(p) == FindExpired(p) \/ DeleteObjects(p) \/ DeleteRows(p)

Next ==
    \/ \E p \in Procs : Worker(p) \/ Editor(p) \/ Sweep(p) \/ Crash(p)
    \/ \E r \in Requests : Retry(r) \/ LeaseExpires(r)
    \/ \E i \in Images : ImageExpires(i)
    \/ \E m, n \in Numbers : CreateExperiment(m, n)
    \/ Archive

Spec == Init /\ [][Next]_vars
-----------------------------------------------------------------------------
TypeOK ==
    /\ page \in Page /\ versions \in Seq(Version) /\ Latest \in Numbers
    /\ job \in [Requests -> Job] /\ image \in [Images -> Image]
    /\ late \subseteq Images
    /\ experiment \in Experiment /\ rare \in Together
    /\ proc \in [Procs -> ProcState]

\* An author that names the version they had before them, as the agent and every document does,
\* writes right behind it, whoever saves or generates at the same time, with whatever lease.  A
\* save of content or of the name that names none goes behind a version its author may not have
\* seen.  A request makes one version at most, and its receipt says so from the same moment on.
EditsFollowTheirBase ==
    /\ page.current = Latest
    /\ \A n \in 1 .. Latest :
          /\ versions[n].on \in {n - 1, None}
          /\ versions[n].by # None => versions[n].on # None
    /\ \A r \in Requests :
          {n \in 1 .. Latest : versions[n].by = r}
              = IF job[r].status = "completed" THEN {job[r].result} ELSE {}

\* What visitors may be served, the live version of a published page and the variants of a
\* running experiment, was published, with the snapshots of its forms made once, and its image
\* is public and in the bucket.  Not the images in late: the sweep had chosen them before they
\* were claimed and deletes them all the same (AdoptedImageKept).
Complete(n) ==
    LET i == versions[n].image
    IN /\ versions[n].published
       /\ versions[n].forms = IF versions[n].document THEN 1 ELSE 0
       /\ i # NoImage /\ i \notin late => image[i].public /\ image[i].row /\ image[i].object
ServedIsComplete ==
    /\ page.status = "published" => page.live # None /\ Complete(page.live)
    /\ experiment.status = "running" => \A n \in experiment.variants : Complete(n)

\* "Generated images adopted by a valid draft are exempt from the clearing of temporary images":
\* an image that is claimed stays.  It does not hold of one that is claimed during a sweep.
AdoptedImageKept ==
    \A i \in Images : image[i].tracked = "claimed" => image[i].row /\ image[i].object

\* "Editing and generating do not change what is being published": a new document leaves the
\* status of the page and the version that is live.  A save writes the status it read.
EditKeepsServed ==
    [][Latest' > Latest /\ versions'[Latest'].document
          => page'.status = page.status /\ page'.live = page.live]_vars
=============================================================================
