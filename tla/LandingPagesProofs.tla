------------------------- MODULE LandingPagesProofs -------------------------
(***************************************************************************)
(* Safety of LandingPages for every set of invocations, requests and       *)
(* edits, and every bound on versions and images.                          *)
(***************************************************************************)
EXTENDS LandingPages, SequenceTheorems, WellFoundedInduction, TLAPS

AgentPC == {"base", "generate", "track", "remove", "validate", "apply", "commit", "finish"}

\* What an invocation carries where it will need it, beside n versions.
Fits(q, n) ==
    /\ q.pc \in AgentPC \cup {"queue"} => q.request \in Requests
    /\ q.pc \in {"number", "save"} =>
         /\ q.edit \in Edits /\ q.status \in {"draft", "published"}
         /\ q.edit.kind = "content" => q.image = NoImage
         /\ q.on \in {q.base, None}
    /\ q.pc \in {"references", "snapshot", "publish"} => q.version \in 1 .. n
    /\ q.pc = "end" => q.version \in 1 .. n \cup {None}

Local == \A p \in Procs : Fits(proc[p], Latest)

\* Only a running job has a lease.
LeaseInv == \A r \in Requests : job[r].lease # None => job[r].status = "running"

\* What an experiment compares exists.
VariantInv == experiment.variants \subseteq 1 .. Latest

LInv == TypeOK /\ Local /\ LeaseInv /\ VariantInv

-----------------------------------------------------------------------------
(* Types                                                                   *)

LEMMA IdleOK == Idle \in ProcState /\ \A n : Fits(Idle, n)
BY DEF Idle, ProcState, PC, Fits, AgentPC, NoImage

\* One invocation moves to a state that is in order, and versions are kept.
LEMMA Moved ==
    ASSUME LandingAssumption, TypeOK, Local, NEW p \in Procs,
           NEW q \in ProcState, Fits(q, Latest'),
           proc' = [proc EXCEPT ![p] = q], Latest' \in Nat, Latest <= Latest'
    PROVE  proc' \in [Procs -> ProcState] /\ Local'
<1>1. proc' \in [Procs -> ProcState] /\ \A x \in Procs : proc'[x] = IF x = p THEN q ELSE proc[x]
  BY DEF TypeOK
<1>2. Latest \in Nat
  BY DEF TypeOK, Numbers
<1>3. \A x \in Procs : Fits(proc[x], Latest) => Fits(proc[x], Latest')
  BY <1>2 DEF Fits
<1> QED BY <1>1, <1>3 DEF Local

LEMMA Returned ==
    ASSUME LandingAssumption, TypeOK, Local, NEW p \in Procs, Return(p),
           Latest' \in Nat, Latest <= Latest'
    PROVE  proc' \in [Procs -> ProcState] /\ Local'
BY IdleOK, Moved DEF Return

\* The steps of an agent that keep what it carries, except for the image.
LEMMA Went ==
    ASSUME LandingAssumption, TypeOK, Local, NEW p \in Procs, proc[p].pc \in AgentPC,
           NEW pc \in AgentPC, NEW i \in Images \cup {NoImage},
           NEW s \in {proc[p].status} \cup Outcome,
           proc' = [proc EXCEPT ![p] = [proc[p] EXCEPT !.pc = pc, !.image = i, !.status = s]],
           Latest' \in Nat, Latest <= Latest'
    PROVE  proc' \in [Procs -> ProcState] /\ Local'
<1> DEFINE q == [proc[p] EXCEPT !.pc = pc, !.image = i, !.status = s]
<1>1. proc[p] \in ProcState /\ Fits(proc[p], Latest)
  BY DEF TypeOK, Local
<1>2. q \in ProcState
  <2>1. pc \in PC /\ s \in {"draft", "published"} \cup Outcome \cup {None}
    BY <1>1 DEF ProcState, AgentPC, PC
  <2> QED BY <1>1, <2>1 DEF ProcState
<1>3. q.pc = pc /\ q.request = proc[p].request
  BY <1>1 DEF ProcState
<1>4. Fits(q, Latest')
  BY <1>1, <1>3 DEF Fits, AgentPC
<1> QED BY <1>2, <1>4, Moved

LEMMA AgentGoto ==
    ASSUME LandingAssumption, TypeOK, Local, NEW p \in Procs, proc[p].pc \in AgentPC,
           NEW pc \in AgentPC, Goto(p, pc), Latest' \in Nat, Latest <= Latest'
    PROVE  proc' \in [Procs -> ProcState] /\ Local'
<1>1. proc[p] \in ProcState
  BY DEF TypeOK
<1>2. [proc[p] EXCEPT !.pc = pc]
        = [proc[p] EXCEPT !.pc = pc, !.image = proc[p].image, !.status = proc[p].status]
  BY <1>1 DEF ProcState
<1>3. proc[p].image \in Images \cup {NoImage}
  BY <1>1 DEF ProcState
<1>4. proc' = [proc EXCEPT ![p] = [proc[p] EXCEPT !.pc = pc]]
  BY DEF Goto
<1>5. proc' = [proc EXCEPT ![p] =
                 [proc[p] EXCEPT !.pc = pc, !.image = proc[p].image, !.status = proc[p].status]]
  BY <1>2, <1>4
<1>6. proc[p].status \in {proc[p].status} \cup Outcome
  OBVIOUS
<1> QED BY <1>3, <1>5, <1>6, Went

LEMMA AgentFail ==
    ASSUME LandingAssumption, TypeOK, Local, NEW p \in Procs, proc[p].pc \in AgentPC,
           NEW outcome \in Outcome, Fail(p, outcome), Latest' \in Nat, Latest <= Latest'
    PROVE  proc' \in [Procs -> ProcState] /\ Local'
<1>1. proc[p] \in ProcState /\ proc \in [Procs -> ProcState]
  BY DEF TypeOK
<1>2. proc' = [proc EXCEPT ![p] =
                 [proc[p] EXCEPT !.pc = "finish", !.image = proc[p].image, !.status = outcome]]
  BY <1>1 DEF Fail, ProcState
<1>3. proc[p].image \in Images \cup {NoImage} /\ "finish" \in AgentPC
  BY <1>1 DEF ProcState, AgentPC
<1> QED BY <1>2, <1>3, Went

LEMMA Same == ASSUME TypeOK, versions' = versions PROVE Latest' \in Nat /\ Latest <= Latest'
BY DEF TypeOK, Numbers, Latest

LEMMA VersionTyped == ASSUME TypeOK, NEW n \in 1 .. Latest PROVE versions[n] \in Version
BY LenProperties DEF TypeOK, Latest

LEMMA Private ==
    ASSUME LInv, UNCHANGED <<page, versions, job, image, late, experiment, rare>>,
           proc' \in [Procs -> ProcState], Local'
    PROVE  LInv'
BY DEF LInv, TypeOK, LeaseInv, VariantInv, Latest

LEMMA InitLInv == ASSUME LandingAssumption, Init PROVE LInv
<1>1. [document |-> TRUE, by |-> None, on |-> 0, image |-> NoImage,
       published |-> FALSE, forms |-> 0] \in Version
  BY DEF Version, LandingAssumption
<1>2. versions \in Seq(Version) /\ Latest = 1
  BY <1>1 DEF Init, Latest
<1>3. page \in Page
  BY DEF Init, Page, Numbers, LandingAssumption
<1>4. job \in [Requests -> Job] /\ LeaseInv
  BY DEF Init, Job, LeaseInv
<1>5. image \in [Images -> Image]
  BY DEF Init, Image
<1>6. experiment \in Experiment /\ VariantInv
  BY DEF Init, Experiment, VariantInv
<1>7. proc \in [Procs -> ProcState] /\ Local
  BY IdleOK DEF Init, Local
<1>8. Latest \in Numbers
  BY <1>2 DEF Numbers, LandingAssumption
<1>9. late \subseteq Images /\ rare \in Together
  BY DEF Init
<1> QED BY <1>2, <1>3, <1>4, <1>5, <1>6, <1>7, <1>8, <1>9 DEF LInv, TypeOK

\* The steps of an agent that write no table.
LEMMA AgentReads ==
    ASSUME LandingAssumption, LInv, NEW p \in Procs,
           \/ \E r \in Requests : Request(p, r)
           \/ ReadBase(p) \/ Generate(p) \/ Validate(p) \/ ReadAgain(p) \/ ApplyRejected(p)
           \/ Break(p)
    PROVE  LInv'
<1>1. TypeOK /\ Local /\ UNCHANGED <<page, versions, job, image, late, experiment, rare>>
  BY DEF LInv, Request, ReadBase, Generate, Validate, ReadAgain, ApplyRejected, Break
<1>2. Latest' \in Nat /\ Latest <= Latest'
  BY <1>1, Same
<1>3. ASSUME NEW r \in Requests, Request(p, r) PROVE proc' \in [Procs -> ProcState] /\ Local'
  <2> DEFINE q == [proc[p] EXCEPT !.pc = "queue", !.request = r, !.base = page.current]
  <2>1. proc[p] \in ProcState /\ page.current \in Numbers
    BY <1>1 DEF TypeOK, Page
  <2>2. q \in ProcState /\ q.pc = "queue" /\ q.request = r
    BY <2>1 DEF ProcState, PC
  <2>3. Fits(q, Latest')
    BY <2>2 DEF Fits, AgentPC
  <2>4. proc' = [proc EXCEPT ![p] = q]
    BY <1>3 DEF Request
  <2> QED BY <1>1, <1>2, <2>2, <2>3, <2>4, Moved
<1>4. ASSUME NEW pc \in {"generate", "validate", "apply", "commit"}, Goto(p, pc),
             proc[p].pc \in AgentPC
      PROVE  proc' \in [Procs -> ProcState] /\ Local'
  BY <1>1, <1>2, <1>4, AgentGoto DEF AgentPC
<1>5. ASSUME NEW outcome \in Outcome, Fail(p, outcome), proc[p].pc \in AgentPC
      PROVE  proc' \in [Procs -> ProcState] /\ Local'
  BY <1>1, <1>2, <1>5, AgentFail
<1>6. ASSUME ~\E r \in Requests : Request(p, r)
      PROVE  proc' \in [Procs -> ProcState] /\ Local'
  <2>1. proc[p].pc \in AgentPC
    BY <1>6 DEF ReadBase, Generate, Validate, ReadAgain, ApplyRejected, Break, AgentPC
  <2>2. \/ \E pc \in {"generate", "validate", "apply", "commit"} : Goto(p, pc)
        \/ \E outcome \in Outcome : Fail(p, outcome)
    BY <1>6 DEF ReadBase, Generate, Validate, ReadAgain, ApplyRejected, Break, Outcome
  <2> QED BY <1>4, <1>5, <2>1, <2>2
<1>7. proc' \in [Procs -> ProcState] /\ Local'
  BY <1>3, <1>6
<1> QED BY <1>1, <1>7, Private

\* One request gets a row that is in order.
LEMMA JobRow ==
    ASSUME TypeOK, LeaseInv, NEW r \in Requests, NEW j \in Job,
           j.lease # None => j.status = "running", job' = [job EXCEPT ![r] = j]
    PROVE  job' \in [Requests -> Job] /\ LeaseInv'
BY DEF TypeOK, LeaseInv

\* The steps of an agent, and of the clock, on the row of a request.
LEMMA JobSteps ==
    ASSUME LandingAssumption, LInv,
           \/ \E p \in Procs : Queue(p) \/ Finish(p) \/ \E r \in Requests : Claim(p, r)
           \/ \E r \in Requests : Retry(r) \/ LeaseExpires(r)
    PROVE  LInv'
<1>1. TypeOK /\ Local /\ LeaseInv /\ UNCHANGED <<page, versions, image, late, experiment, rare>>
  BY DEF LInv, Queue, Finish, Claim, Retry, LeaseExpires
<1>2. Latest' \in Nat /\ Latest <= Latest'
  BY <1>1, Same
<1>3. job \in [Requests -> Job] /\ proc \in [Procs -> ProcState]
  BY <1>1 DEF TypeOK
<1> DEFINE JobGoal == job' \in [Requests -> Job] /\ LeaseInv'
           ProcGoal == proc' \in [Procs -> ProcState] /\ Local'
<1>4. ASSUME NEW p \in Procs, Queue(p) PROVE JobGoal /\ ProcGoal
  <2> DEFINE r == proc[p].request
             j == [job[r] EXCEPT !.status = "queued", !.base = proc[p].base]
  <2>1. ProcGoal
    BY <1>1, <1>2, <1>4, Returned DEF Queue
  <2>2. r \in Requests
    BY <1>1, <1>4 DEF Queue, Local, Fits
  <2>3. job' = job \/ (job[r].status = "absent" /\ job' = [job EXCEPT ![r] = j])
    BY <1>4 DEF Queue
  <2>4. job[r] \in Job /\ (job[r].lease # None => job[r].status = "running")
        /\ proc[p].base \in Numbers \cup {None}
    BY <1>1, <1>3, <2>2 DEF LeaseInv, ProcState
  <2>5. j \in Job /\ j.lease = job[r].lease
    BY <2>4 DEF Job
  <2>6. CASE job' = job
    BY <1>1, <2>1, <1>3, <2>6 DEF LeaseInv
  <2>7. CASE job[r].status = "absent" /\ job' = [job EXCEPT ![r] = j]
    BY <1>1, <2>1, <2>2, <2>4, <2>5, <2>7, JobRow
  <2> QED BY <2>1, <2>3, <2>6, <2>7
<1>5. ASSUME NEW p \in Procs, Finish(p) PROVE JobGoal /\ ProcGoal
  <2> DEFINE r == proc[p].request
             j == [job[r] EXCEPT
                     !.status = IF proc[p].status = "conflict" THEN "conflict" ELSE "failed",
                     !.retryable = proc[p].status = "retryable",
                     !.lease = None, !.expired = FALSE]
  <2>1. ProcGoal
    BY <1>1, <1>2, <1>5, Returned DEF Finish
  <2>2. r \in Requests /\ job[r] \in Job
    BY <1>1, <1>3, <1>5 DEF Finish, Local, Fits, AgentPC
  <2>3. job' = job \/ job' = [job EXCEPT ![r] = j]
    BY <1>5 DEF Finish
  <2>4. j \in Job /\ j.lease = None
    BY <2>2 DEF Job
  <2>5. CASE job' = job
    BY <1>1, <2>1, <1>3, <2>5 DEF LeaseInv
  <2>6. CASE job' = [job EXCEPT ![r] = j]
    BY <1>1, <2>1, <2>2, <2>4, <2>6, JobRow
  <2> QED BY <2>1, <2>3, <2>5, <2>6
<1>6. ASSUME NEW p \in Procs, NEW r \in Requests, Claim(p, r) PROVE JobGoal /\ ProcGoal
  <2> DEFINE q == [proc[p] EXCEPT !.pc = "base", !.request = r, !.base = job[r].base]
             j == [job[r] EXCEPT !.status = "running", !.lease = p, !.expired = FALSE]
  <2>1. proc[p] \in ProcState /\ job[r] \in Job /\ job[r].base \in Numbers \cup {None}
    BY <1>3 DEF Job
  <2>2. q \in ProcState /\ q.pc = "base" /\ q.request = r
    BY <2>1 DEF ProcState, PC
  <2>3. proc' = [proc EXCEPT ![p] = q] /\ job' = [job EXCEPT ![r] = j]
    BY <1>6 DEF Claim
  <2>4. Fits(q, Latest')
    BY <2>2 DEF Fits, AgentPC
  <2>5. j \in Job /\ j.status = "running"
    BY <2>1 DEF Job
  <2>6. JobGoal
    BY <1>1, <2>3, <2>5, JobRow
  <2> QED BY <1>1, <1>2, <2>2, <2>3, <2>4, <2>6, Moved
<1>7. ASSUME NEW r \in Requests, Retry(r) \/ LeaseExpires(r) PROVE JobGoal /\ ProcGoal
  <2>1. job[r] \in Job /\ (job[r].lease # None => job[r].status = "running")
    BY <1>1, <1>3 DEF LeaseInv
  <2>2. CASE Retry(r)
    <3> DEFINE j == [job[r] EXCEPT !.status = "queued", !.retryable = FALSE]
    <3>1. j \in Job /\ j.lease = None /\ job' = [job EXCEPT ![r] = j]
      BY <2>1, <2>2 DEF Retry, Job
    <3> QED BY <1>1, <1>3, <2>2, <3>1, JobRow DEF Retry, Local, Latest
  <2>3. CASE LeaseExpires(r)
    <3> DEFINE j == [job[r] EXCEPT !.expired = TRUE]
    <3>1. j \in Job /\ j.status = "running" /\ job' = [job EXCEPT ![r] = j]
      BY <2>1, <2>3 DEF LeaseExpires, Job
    <3> QED BY <1>1, <1>3, <2>3, <3>1, JobRow DEF LeaseExpires, Local, Latest
  <2> QED BY <1>7, <2>2, <2>3
<1>8. JobGoal /\ ProcGoal
  BY <1>4, <1>5, <1>6, <1>7
<1> QED BY <1>1, <1>8 DEF LInv, TypeOK, VariantInv, Latest

LEMMA LeastImage ==
    ASSUME NEW S, S \subseteq Images, S # {}
    PROVE  (CHOOSE i \in S : \A j \in S : i <= j) \in S
<1>1. S \subseteq Nat
  BY DEF Images
<1>2. PICK i \in S : \A j \in S : ~(<<j, i>> \in OpToRel(<, Nat))
  BY <1>1, NatLessThanWellFounded, WFMin
<1>3. ASSUME NEW j \in S PROVE i <= j
  <2>1. i \in Nat /\ j \in Nat
    BY <1>1
  <2>2. j < i => <<j, i>> \in OpToRel(<, Nat)
    <3>1. <<j, i>> \in Nat \X Nat /\ <<j, i>>[1] = j /\ <<j, i>>[2] = i
      BY <2>1
    <3> QED BY <3>1 DEF OpToRel
  <2>3. ~(j < i)
    BY <1>2, <2>2
  <2> QED BY <2>1, <2>3
<1> QED BY <1>3

\* The steps on the images and the bucket.
LEMMA ImageSteps ==
    ASSUME LandingAssumption, LInv,
           \/ \E p \in Procs : \/ Upload(p) \/ Track(p) \/ Untracked(p) \/ RemoveAsset(p)
                               \/ FindExpired(p) \/ DeleteObjects(p) \/ DeleteRows(p)
           \/ \E i \in Images : ImageExpires(i)
    PROVE  LInv'
<1>1. TypeOK /\ Local /\ LeaseInv /\ VariantInv
      /\ UNCHANGED <<page, versions, job, late, experiment, rare>>
  BY DEF LInv, Upload, Track, Untracked, RemoveAsset, FindExpired, DeleteObjects, DeleteRows,
         ImageExpires
<1>2. Latest' \in Nat /\ Latest <= Latest'
  BY <1>1, Same
<1>3. image \in [Images -> Image] /\ proc \in [Procs -> ProcState]
  BY <1>1 DEF TypeOK
<1> DEFINE ImageGoal == image' \in [Images -> Image]
           ProcGoal == proc' \in [Procs -> ProcState] /\ Local'
<1>4. ASSUME NEW p \in Procs, Upload(p) PROVE ImageGoal /\ ProcGoal
  <2> DEFINE i == CHOOSE i \in Unused : \A j \in Unused : i <= j
  <2>1. i \in Images
    BY <1>4, LeastImage DEF Upload, Unused
  <2> HIDE DEF i
  <2>2. /\ image' = [image EXCEPT ![i].row = TRUE, ![i].object = TRUE]
        /\ proc' = [proc EXCEPT ![p].pc = "track", ![p].image = i]
        /\ proc[p].pc = "generate"
    BY <1>4 DEF Upload, i
  <2>3. proc[p] \in ProcState
    BY <1>3
  <2> DEFINE pc == "track"
             s == proc[p].status
  <2>4. proc' = [proc EXCEPT ![p] = [proc[p] EXCEPT !.pc = pc, !.image = i, !.status = s]]
    BY <2>2, <2>3 DEF ProcState
  <2>5. pc \in AgentPC /\ proc[p].pc \in AgentPC /\ s \in {proc[p].status} \cup Outcome
    BY <2>2 DEF AgentPC
  <2>6. i \in Images \cup {NoImage}
    BY <2>1
  <2> HIDE DEF pc, s
  <2>7. ProcGoal
    BY <1>1, <1>2, <2>4, <2>5, <2>6, Went
  <2>8. ImageGoal
    <3> DEFINE x == [image[i] EXCEPT !.row = TRUE, !.object = TRUE]
    <3>1. x \in Image
      BY <1>3, <2>1 DEF Image
    <3>2. image' = [image EXCEPT ![i] = x]
      BY <1>3, <2>1, <2>2
    <3> HIDE DEF x
    <3> QED BY <1>3, <2>1, <3>1, <3>2
  <2> QED BY <2>7, <2>8
<1>5. ASSUME NEW p \in Procs, Track(p) \/ Untracked(p) PROVE ImageGoal /\ ProcGoal
  <2>1. ProcGoal
    BY <1>1, <1>2, <1>5, AgentGoto DEF Track, Untracked, AgentPC
  <2>2. CASE Track(p)
    BY <1>3, <2>1, <2>2 DEF Track, Image
  <2>3. CASE Untracked(p)
    <3>1. [image EXCEPT ![proc[p].image].object = FALSE] \in [Images -> Image]
      BY <1>3 DEF Image
    <3> QED BY <1>3, <2>1, <2>3, <3>1 DEF Untracked
  <2> QED BY <1>5, <2>1, <2>2, <2>3
<1>6. ASSUME NEW p \in Procs, RemoveAsset(p) PROVE ImageGoal /\ ProcGoal
  <2>1. proc' = [proc EXCEPT ![p] =
                   [proc[p] EXCEPT !.pc = "finish", !.image = NoImage, !.status = "retryable"]]
        /\ proc[p].pc = "remove"
    BY <1>6 DEF RemoveAsset
  <2>2. ProcGoal
    BY <1>1, <1>2, <2>1, Went DEF AgentPC, Outcome
  <2>3. [image EXCEPT ![proc[p].image].row = FALSE] \in [Images -> Image]
    BY <1>3 DEF Image
  <2>4. ImageGoal
    BY <1>3, <1>6, <2>3 DEF RemoveAsset
  <2> QED BY <2>2, <2>4
<1>7. ASSUME NEW p \in Procs, FindExpired(p) PROVE ImageGoal /\ ProcGoal
  <2>1. PICK expired \in SUBSET Images :
          proc' = [proc EXCEPT ![p].pc = "objects", ![p].list = expired]
    BY <1>7 DEF FindExpired
  <2> DEFINE q == [proc[p] EXCEPT !.pc = "objects", !.list = expired]
  <2>2. proc' = [proc EXCEPT ![p] = q]
    BY <2>1
  <2>3. q \in ProcState /\ q.pc = "objects"
    <3>1. proc[p] \in ProcState
      BY <1>3
    <3> QED BY <3>1 DEF ProcState, PC
  <2>4. Fits(q, Latest')
    BY <2>3 DEF Fits, AgentPC
  <2>5. ProcGoal
    BY <1>1, <1>2, <2>2, <2>3, <2>4, Moved
  <2> QED BY <1>3, <1>7, <2>5 DEF FindExpired
<1>8. ASSUME NEW p \in Procs, DeleteObjects(p) PROVE ImageGoal /\ ProcGoal
  <2> DEFINE q == [proc[p] EXCEPT !.pc = "rows"]
  <2>1. q \in ProcState /\ q.pc = "rows" /\ proc' = [proc EXCEPT ![p] = q]
    <3>1. proc[p] \in ProcState
      BY <1>3
    <3>2. q \in ProcState /\ q.pc = "rows"
      BY <3>1 DEF ProcState, PC
    <3> QED BY <1>3, <1>8, <3>2 DEF DeleteObjects, Goto
  <2>2. Fits(q, Latest')
    BY <2>1 DEF Fits, AgentPC
  <2>3. ProcGoal
    BY <1>1, <1>2, <2>1, <2>2, Moved
  <2>4. ImageGoal
    BY <1>3, <1>8 DEF DeleteObjects, Image
  <2> QED BY <2>3, <2>4
<1>9. ASSUME NEW p \in Procs, DeleteRows(p) PROVE ImageGoal /\ ProcGoal
  <2>1. ProcGoal
    BY <1>1, <1>2, <1>9, Returned DEF DeleteRows
  <2>2. ImageGoal
    BY <1>3, <1>9 DEF DeleteRows, Image
  <2> QED BY <2>1, <2>2
<1>10. ASSUME NEW i \in Images, ImageExpires(i) PROVE ImageGoal /\ ProcGoal
  BY <1>1, <1>3, <1>10 DEF ImageExpires, Image, Local, Latest
<1>11. ImageGoal /\ ProcGoal
  BY <1>4, <1>5, <1>6, <1>7, <1>8, <1>9, <1>10
<1> QED BY <1>1, <1>11 DEF LInv, TypeOK, LeaseInv, VariantInv, Latest

\* The steps of an editor that write no table, and the crash of anyone.
LEMMA EditorReads ==
    ASSUME LandingAssumption, LInv, NEW p \in Procs,
           \/ \E edit \in Edits, i \in Images \cup {NoImage}, base \in Numbers \cup {None} :
                ReadPage(p, edit, i, base)
           \/ ReadNumber(p) \/ SaveRejected(p)
           \/ \E n \in Numbers : ReadForPublication(p, n)
           \/ CheckReferences(p) \/ ReadVersion(p) \/ PublishRejected(p)
           \/ ReadForStart(p) \/ EndRejected(p)
           \/ \E winner \in Numbers \cup {None} : ReadForEnd(p, winner)
           \/ Crash(p)
    PROVE  LInv'
<1>1. TypeOK /\ Local /\ VariantInv
      /\ UNCHANGED <<page, versions, job, image, late, experiment, rare>>
  BY DEF LInv, ReadPage, ReadNumber, SaveRejected, ReadForPublication, CheckReferences,
         ReadVersion, PublishRejected, ReadForStart, EndRejected, ReadForEnd, Crash
<1>2. Latest' \in Nat /\ Latest <= Latest' /\ Latest' = Latest
  BY <1>1, Same DEF Latest
<1>3. /\ proc[p] \in ProcState /\ Fits(proc[p], Latest) /\ Latest \in Numbers
      /\ page \in Page /\ experiment \in Experiment
  BY <1>1 DEF TypeOK, Local
<1> DEFINE Goal == proc' \in [Procs -> ProcState] /\ Local'
<1>4. ASSUME NEW q \in ProcState, Fits(q, Latest), proc' = [proc EXCEPT ![p] = q] PROVE Goal
  BY <1>1, <1>2, <1>4, Moved
<1>5. ASSUME NEW edit \in Edits, NEW i \in Images \cup {NoImage}, NEW base \in Numbers \cup {None},
             ReadPage(p, edit, i, base)
      PROVE  Goal
  <2> DEFINE q == [proc[p] EXCEPT !.pc = "number", !.base = page.current, !.on = base,
                                  !.edit = edit, !.status = page.status, !.image = i]
  <2>1. page.current \in Numbers /\ page.status \in {"draft", "published"}
    BY <1>3, <1>5 DEF Page, ReadPage, Open
  <2>2. q \in ProcState
    BY <1>3, <2>1 DEF ProcState, PC
  <2>3. q.pc = "number" /\ q.edit = edit /\ q.status = page.status /\ q.image = i
        /\ q.base = page.current /\ q.on = base
    BY <1>3 DEF ProcState
  <2>4. Fits(q, Latest)
    BY <1>5, <2>1, <2>3 DEF ReadPage, Fits, AgentPC
  <2> QED BY <1>4, <1>5, <2>2, <2>4 DEF ReadPage
<1>6. ASSUME ReadNumber(p) PROVE Goal
  <2> DEFINE q == [proc[p] EXCEPT !.pc = "save", !.version = Latest + 1]
  <2>1. Latest + 1 \in 1 .. MaxVersions + 1
    BY <1>3 DEF LandingAssumption, Numbers
  <2>2. q \in ProcState
    BY <1>3, <2>1 DEF ProcState, PC
  <2>3. q.pc = "save" /\ q.edit = proc[p].edit /\ q.status = proc[p].status
        /\ q.image = proc[p].image /\ q.base = proc[p].base /\ q.on = proc[p].on
    BY <1>3 DEF ProcState
  <2>4. Fits(q, Latest)
    BY <1>3, <1>6, <2>3 DEF ReadNumber, Fits, AgentPC
  <2>5. proc' = [proc EXCEPT ![p] = q]
    BY <1>6 DEF ReadNumber
  <2> QED BY <1>4, <2>2, <2>4, <2>5
<1>7. ASSUME Return(p) PROVE Goal
  BY <1>1, <1>2, <1>7, Returned
<1>8. ASSUME NEW n \in Numbers, ReadForPublication(p, n) PROVE Goal
  <2> DEFINE q == [proc[p] EXCEPT !.pc = "references", !.base = page.current, !.version = n]
  <2>1. page.current \in Numbers /\ n \in 1 .. MaxVersions + 1 /\ n \in 1 .. Latest
    BY <1>3, <1>8 DEF LandingAssumption, Page, Numbers, ReadForPublication
  <2>2. q \in ProcState /\ q.pc = "references" /\ q.version = n
    BY <1>3, <2>1 DEF ProcState, PC
  <2>3. Fits(q, Latest)
    BY <2>1, <2>2 DEF Fits, AgentPC
  <2> QED BY <1>4, <1>8, <2>2, <2>3 DEF ReadForPublication
<1>9. ASSUME CheckReferences(p) /\ ~Return(p) PROVE Goal
  <2> DEFINE q == [proc[p] EXCEPT !.pc = "snapshot"]
  <2>1. q \in ProcState /\ q.pc = "snapshot" /\ q.version = proc[p].version
    BY <1>3 DEF ProcState, PC
  <2>2. Fits(q, Latest)
    BY <1>3, <1>9, <2>1 DEF CheckReferences, Fits, AgentPC
  <2>3. proc' = [proc EXCEPT ![p] = q]
    BY <1>9 DEF CheckReferences, Goto
  <2> QED BY <1>4, <2>1, <2>2, <2>3
<1>10. ASSUME ReadVersion(p) PROVE Goal
  <2> DEFINE s == versions[proc[p].version].published
             q == [proc[p] EXCEPT !.pc = "publish", !.seen = s]
  <2>1. proc[p].version \in 1 .. Latest
    BY <1>3, <1>10 DEF ReadVersion, Fits
  <2>2. s \in BOOLEAN
    BY <1>1, <2>1, VersionTyped DEF Version
  <2>3. q \in ProcState /\ q.pc = "publish" /\ q.version = proc[p].version
    BY <1>3, <2>2 DEF ProcState, PC
  <2>4. Fits(q, Latest)
    BY <2>1, <2>3 DEF Fits, AgentPC
  <2>5. proc' = [proc EXCEPT ![p] = q]
    BY <1>10 DEF ReadVersion
  <2> QED BY <1>4, <2>3, <2>4, <2>5
<1>11. ASSUME ReadForStart(p) PROVE Goal
  <2> DEFINE q == [proc[p] EXCEPT !.pc = "start"]
  <2>1. q \in ProcState /\ q.pc = "start"
    BY <1>3 DEF ProcState, PC
  <2>2. Fits(q, Latest)
    BY <2>1 DEF Fits, AgentPC
  <2>3. proc' = [proc EXCEPT ![p] = q]
    BY <1>11 DEF ReadForStart, Goto
  <2> QED BY <1>4, <2>1, <2>2, <2>3
<1>12. ASSUME NEW winner \in Numbers \cup {None}, ReadForEnd(p, winner) PROVE Goal
  <2> DEFINE q == [proc[p] EXCEPT !.pc = "end", !.base = page.live, !.version = winner]
  <2>1. /\ page.live \in Numbers \cup {None} /\ winner \in 1 .. Latest \cup {None}
        /\ winner \in 1 .. MaxVersions + 1 \cup {None}
    BY <1>1, <1>3, <1>12 DEF LandingAssumption, Page, Numbers, ReadForEnd, VariantInv
  <2>2. q \in ProcState /\ q.pc = "end" /\ q.version = winner
    <3>1. proc[p] \in ProcState
      BY <1>3
    <3> DEFINE base == page.live
    <3>2. base \in Numbers \cup {None}
      BY <2>1
    <3> HIDE DEF base
    <3> DEFINE u == [proc[p] EXCEPT !.pc = "end"]
               v == [u EXCEPT !.base = base]
               w == [v EXCEPT !.version = winner]
    <3>3. u \in ProcState /\ u.pc = "end"
      BY <3>1 DEF ProcState, PC
    <3>4. q = w
      BY <3>1 DEF ProcState, base
    <3> HIDE DEF u, q
    <3>5. v \in ProcState /\ v.pc = "end"
      BY <3>2, <3>3 DEF ProcState
    <3> HIDE DEF v
    <3>6. w \in ProcState /\ w.pc = "end" /\ w.version = winner
      BY <2>1, <3>5 DEF ProcState
    <3> QED BY <3>4, <3>6
  <2>3. Fits(q, Latest)
    BY <2>1, <2>2 DEF Fits, AgentPC
  <2> QED BY <1>4, <1>12, <2>2, <2>3 DEF ReadForEnd
<1>13. Goal
  BY <1>5, <1>6, <1>7, <1>8, <1>9, <1>10, <1>11, <1>12
     DEF SaveRejected, PublishRejected, EndRejected, Crash
<1> QED BY <1>1, <1>13, Private

LEMMA Appended ==
    ASSUME LandingAssumption, TypeOK, Room, NEW v \in Version, versions' = Append(versions, v)
    PROVE  /\ versions' \in Seq(Version) /\ Latest' = Latest + 1 /\ Latest' \in Numbers
           /\ Latest' \in Nat /\ Latest <= Latest' /\ Latest \in Nat
           /\ \A n \in 1 .. Latest : versions'[n] = versions[n]
           /\ versions'[Latest + 1] = v
<1>1. versions \in Seq(Version) /\ Latest \in Nat /\ 1 <= Latest
  BY DEF TypeOK, Numbers
<1>2. /\ versions' \in Seq(Version) /\ Latest' = Latest + 1
      /\ \A n \in 1 .. Latest : versions'[n] = versions[n]
      /\ versions'[Latest + 1] = v
  BY <1>1, AppendProperties DEF Latest
<1>3. Latest + 1 <= MaxVersions
  BY <1>1 DEF Room, LandingAssumption
<1>4. Latest + 1 \in Numbers
  BY <1>1, <1>3 DEF Numbers, LandingAssumption
<1>5. Latest + 1 \in Nat /\ Latest <= Latest + 1
  BY <1>1
<1> QED BY <1>1, <1>2, <1>4, <1>5

\* What Apply adds.
LEMMA ApplyType ==
    ASSUME LandingAssumption, LInv, NEW p \in Procs, Apply(p)
    PROVE  /\ LInv'
           /\ Latest' = Latest + 1 /\ page'.current = Latest + 1
           /\ \A n \in 1 .. Latest : versions'[n] = versions[n]
           /\ versions'[Latest + 1].by = proc[p].request
           /\ versions'[Latest + 1].on = page.current
           /\ versions'[Latest + 1] =
                [document |-> TRUE, by |-> proc[p].request, on |-> proc[p].base,
                 image |-> proc[p].image, published |-> FALSE, forms |-> 0]
<1> DEFINE r == proc[p].request
           i == proc[p].image
           v == [document |-> TRUE, by |-> r, on |-> proc[p].base, image |-> i,
                 published |-> FALSE, forms |-> 0]
           j == [job[r] EXCEPT !.status = "completed", !.lease = None,
                               !.expired = FALSE, !.result = Latest + 1]
<1>1. /\ TypeOK /\ Local /\ LeaseInv /\ VariantInv /\ proc[p].pc = "commit"
      /\ OnCurrent(p) /\ Room /\ versions' = Append(versions, v)
      /\ page' = [page EXCEPT !.current = Latest + 1]
      /\ job' = [job EXCEPT ![r] = j]
      /\ image' \in {image, Claimed(i)} /\ late' \in {late, late \cup {i}}
      /\ i = NoImage => late' = late
      /\ (Return(p) \/ Fail(p, "retryable")) /\ UNCHANGED <<experiment, rare>>
  <2>1. Holds(p) => job[r].lease = p
    BY DEF Holds
  <2> QED BY <2>1 DEF LInv, Apply, WriteVersion, NewVersion, ClaimedLate
<1>2. proc[p] \in ProcState /\ r \in Requests /\ job[r] \in Job /\ page \in Page
  <2>1. proc[p] \in ProcState /\ r \in Requests
    BY <1>1 DEF TypeOK, Local, Fits, AgentPC
  <2> QED BY <1>1, <2>1 DEF TypeOK
<1>3. v \in Version
  <2>1. proc[p].base = page.current /\ page.current \in 0 .. MaxVersions
    BY <1>1, <1>2 DEF OnCurrent, Page, Numbers, LandingAssumption
  <2>2. i \in Images \cup {NoImage}
    BY <1>2 DEF ProcState
  <2> QED BY <1>2, <2>1, <2>2 DEF Version
<1>4. /\ versions' \in Seq(Version) /\ Latest' = Latest + 1 /\ Latest' \in Numbers
      /\ Latest' \in Nat /\ Latest <= Latest' /\ Latest \in Nat
      /\ \A n \in 1 .. Latest : versions'[n] = versions[n]
      /\ versions'[Latest + 1] = v
  BY <1>1, <1>3, Appended
<1>5. page' \in Page /\ page'.current = Latest + 1
  BY <1>1, <1>2, <1>4 DEF Page
<1>6. job' \in [Requests -> Job] /\ LeaseInv'
  <2>1. j \in Job /\ j.lease = None
    BY <1>2, <1>4 DEF Job
  <2> QED BY <1>1, <1>2, <2>1, JobRow
<1>7. proc' \in [Procs -> ProcState] /\ Local'
  BY <1>1, <1>4, Returned, AgentFail DEF AgentPC, Outcome
<1>8. image' \in [Images -> Image] /\ late' \subseteq Images
  <2>1. image \in [Images -> Image] /\ late \subseteq Images
    BY <1>1 DEF TypeOK
  <2>2. Claimed(i) \in [Images -> Image]
    BY <2>1 DEF Claimed, Image
  <2>3. i \in Images \cup {NoImage}
    BY <1>2 DEF ProcState
  <2> QED BY <1>1, <2>1, <2>2, <2>3
<1>9. VariantInv' /\ experiment' \in Experiment /\ rare' \in Together
  BY <1>1, <1>4 DEF VariantInv, TypeOK
<1>10. TypeOK'
  BY <1>4, <1>5, <1>6, <1>7, <1>8, <1>9 DEF TypeOK
<1>11. v.by = r /\ v.on = page.current
  BY <1>1 DEF OnCurrent
<1> QED BY <1>4, <1>5, <1>6, <1>7, <1>9, <1>10, <1>11 DEF LInv

\* What Save adds.
LEMMA SaveType ==
    ASSUME LandingAssumption, LInv, NEW p \in Procs, Save(p)
    PROVE  /\ LInv'
           /\ Latest' = Latest + 1 /\ page'.current = Latest + 1 /\ job' = job
           /\ \A n \in 1 .. Latest : versions'[n] = versions[n]
           /\ versions'[Latest + 1].by = None
           /\ versions'[Latest + 1].on \in {page.current, None}
           /\ versions'[Latest + 1] =
                [document |-> proc[p].edit.kind # "content", by |-> None, on |-> proc[p].on,
                 image |-> proc[p].image, published |-> proc[p].edit.status = "published",
                 forms |-> 0]
<1> DEFINE edit == proc[p].edit
           served == edit.status = "published"
           v == [document |-> edit.kind # "content", by |-> None, on |-> proc[p].on,
                 image |-> proc[p].image, published |-> served, forms |-> 0]
<1>1. /\ TypeOK /\ Local /\ LeaseInv /\ VariantInv /\ proc[p].pc = "save"
      /\ OnCurrent(p) /\ Room /\ versions' = Append(versions, v)
      /\ page' = [status |-> IF edit.kind = "content" THEN edit.status ELSE proc[p].status,
                  current |-> Latest + 1,
                  live |-> IF served THEN Latest + 1 ELSE page.live]
      /\ Return(p) /\ UNCHANGED <<job, image, late, experiment, rare>>
  BY DEF LInv, Save, WriteEdit, NewVersion
<1>2. /\ proc[p] \in ProcState /\ page \in Page
      /\ edit \in Edits /\ proc[p].status \in {"draft", "published"}
      /\ proc[p].on \in {page.current, None}
  BY <1>1 DEF TypeOK, Local, Fits, OnCurrent
<1>3. edit.kind = "content" => edit.status \in {"draft", "published"}
  BY <1>2 DEF LandingAssumption, Edit
<1>4. v \in Version
  <2>1. proc[p].on \in 0 .. MaxVersions \cup {None}
    BY <1>2 DEF Page, Numbers, LandingAssumption
  <2>2. proc[p].image \in Images \cup {NoImage}
    BY <1>2 DEF ProcState
  <2> QED BY <1>3, <2>1, <2>2 DEF Version
<1>5. /\ versions' \in Seq(Version) /\ Latest' = Latest + 1 /\ Latest' \in Numbers
      /\ Latest' \in Nat /\ Latest <= Latest' /\ Latest \in Nat
      /\ \A n \in 1 .. Latest : versions'[n] = versions[n]
      /\ versions'[Latest + 1] = v
  BY <1>1, <1>4, Appended
<1>6. page' \in Page /\ page'.current = Latest + 1
  BY <1>1, <1>2, <1>3, <1>5 DEF Page
<1>7. proc' \in [Procs -> ProcState] /\ Local'
  BY <1>1, <1>5, Returned
<1>8. LeaseInv' /\ VariantInv'
  BY <1>1, <1>5 DEF LeaseInv, VariantInv
<1>9. TypeOK'
  BY <1>1, <1>5, <1>6, <1>7 DEF TypeOK
<1>10. v.by = None /\ v.on \in {page.current, None}
  BY <1>2
<1> QED BY <1>1, <1>5, <1>6, <1>7, <1>8, <1>9, <1>10 DEF LInv

\* Publishing marks a version and points the page to it.
LEMMA PublishType ==
    ASSUME LandingAssumption, LInv, NEW p \in Procs, Publish(p)
    PROVE  /\ LInv'
           /\ Latest' = Latest /\ page'.current = page.current /\ job' = job
           /\ \A n \in 1 .. Latest :
                versions'[n].by = versions[n].by /\ versions'[n].on = versions[n].on
           /\ \A m \in 1 .. Latest :
                versions'[m] = IF m # proc[p].version THEN versions[m]
                               ELSE [versions[m] EXCEPT !.published = TRUE,
                                                        !.forms = IF proc[p].seen THEN @ ELSE @ + 1]
<1> DEFINE n == proc[p].version
           i == versions[n].image
           v == [versions[n] EXCEPT !.published = TRUE,
                                    !.forms = IF proc[p].seen THEN @ ELSE @ + 1]
<1>1. /\ TypeOK /\ Local /\ LeaseInv /\ VariantInv /\ proc[p].pc = "publish"
      /\ page' = [page EXCEPT !.status = "published", !.live = n]
      /\ versions' = [versions EXCEPT ![n].published = TRUE,
                                      ![n].forms = IF proc[p].seen THEN @ ELSE @ + 1]
      /\ image' \in {image, [Claimed(i) EXCEPT ![i].public = TRUE]}
      /\ late' \in {late, late \cup {i}} /\ (i = NoImage => late' = late)
      /\ Return(p) /\ UNCHANGED <<job, experiment, rare>>
  BY DEF LInv, Publish, Published, ClaimedLate
<1>2. proc[p] \in ProcState /\ n \in 1 .. Latest /\ page \in Page /\ versions[n] \in Version
  <2>1. proc[p] \in ProcState /\ n \in 1 .. Latest
    BY <1>1 DEF TypeOK, Local, Fits
  <2> QED BY <1>1, <2>1, VersionTyped DEF TypeOK
<1>3. versions \in Seq(Version) /\ Latest \in Numbers /\ Latest \in Nat
  BY <1>1 DEF TypeOK, Numbers
<1>4. v \in Version /\ v.by = versions[n].by /\ v.on = versions[n].on
  <2> DEFINE forms == IF proc[p].seen THEN versions[n].forms ELSE versions[n].forms + 1
  <2>1. forms \in Nat
    BY <1>2 DEF Version
  <2>2. v = [versions[n] EXCEPT !.published = TRUE, !.forms = forms]
    BY <1>2 DEF Version
  <2> HIDE DEF forms
  <2> QED BY <1>2, <2>1, <2>2 DEF Version
<1>5. versions' = [versions EXCEPT ![n] = v]
  BY <1>1
<1>6. /\ versions' \in Seq(Version) /\ Latest' = Latest
      /\ \A m \in 1 .. Latest : versions'[m] = IF m = n THEN v ELSE versions[m]
  BY <1>2, <1>3, <1>4, <1>5, ExceptSeq DEF Latest
<1>7. page' \in Page /\ page'.current = page.current
  <2>1. n \in Numbers
    BY <1>2, <1>3 DEF Numbers, LandingAssumption
  <2> QED BY <1>1, <1>2, <2>1 DEF Page
<1>8. proc' \in [Procs -> ProcState] /\ Local'
  <2>1. Latest' \in Nat /\ Latest <= Latest'
    BY <1>3, <1>6
  <2> QED BY <1>1, <2>1, Returned
<1>9. image' \in [Images -> Image] /\ late' \subseteq Images
  <2>1. image \in [Images -> Image] /\ late \subseteq Images
    BY <1>1 DEF TypeOK
  <2>2. [Claimed(i) EXCEPT ![i].public = TRUE] \in [Images -> Image]
    <3> DEFINE claimed == Claimed(i)
    <3>1. claimed \in [Images -> Image]
      BY <2>1 DEF Claimed, Image
    <3> HIDE DEF claimed
    <3>2. [claimed EXCEPT ![i].public = TRUE] \in [Images -> Image]
      BY <3>1 DEF Image
    <3> QED BY <3>2 DEF claimed
  <2>3. i \in Images \cup {NoImage}
    BY <1>2 DEF Version
  <2> QED BY <1>1, <2>1, <2>2, <2>3
<1>10. LeaseInv' /\ VariantInv'
  BY <1>1, <1>6 DEF LeaseInv, VariantInv
<1>11. TypeOK'
  BY <1>1, <1>3, <1>6, <1>7, <1>8, <1>9 DEF TypeOK
<1> QED BY <1>1, <1>4, <1>6, <1>7, <1>8, <1>10, <1>11 DEF LInv

\* The steps on the experiment, and the archive.
LEMMA PageSteps ==
    ASSUME LandingAssumption, LInv,
           \/ \E p \in Procs : Start(p) \/ End(p)
           \/ \E m, n \in Numbers : CreateExperiment(m, n)
           \/ Archive
    PROVE  LInv' /\ page'.current = page.current /\ UNCHANGED <<versions, job>>
<1>1. TypeOK /\ Local /\ LeaseInv /\ VariantInv
      /\ UNCHANGED <<versions, job, image, late, rare>>
  BY DEF LInv, Start, End, CreateExperiment, Archive
<1>2. Latest' \in Nat /\ Latest <= Latest' /\ Latest' = Latest
  BY <1>1, Same DEF Latest
<1>3. page \in Page /\ experiment \in Experiment /\ Latest \in Numbers
  BY <1>1 DEF TypeOK
<1> DEFINE Goal == /\ page' \in Page /\ page'.current = page.current
                   /\ experiment' \in Experiment /\ VariantInv'
                   /\ proc' \in [Procs -> ProcState] /\ Local'
<1>4. ASSUME NEW p \in Procs, Start(p) PROVE Goal
  <2>1. proc' \in [Procs -> ProcState] /\ Local'
    BY <1>1, <1>2, <1>4, Returned DEF Start
  <2> QED BY <1>1, <1>2, <1>3, <1>4, <2>1 DEF Start, Experiment, VariantInv
<1>5. ASSUME NEW p \in Procs, End(p) PROVE Goal
  <2>1. proc' \in [Procs -> ProcState] /\ Local'
    BY <1>1, <1>2, <1>5, Returned DEF End
  <2>2. experiment' \in Experiment /\ VariantInv'
    BY <1>1, <1>2, <1>3, <1>5 DEF End, Experiment, VariantInv
  <2>3. proc[p].version # None => proc[p].version \in Numbers
    BY <1>1, <1>3, <1>5 DEF End, Local, Fits, Numbers, LandingAssumption
  <2>4. page' \in Page /\ page'.current = page.current
    BY <1>3, <1>5, <2>3 DEF End, Page
  <2> QED BY <2>1, <2>2, <2>4
<1>6. ASSUME NEW m \in Numbers, NEW n \in Numbers, CreateExperiment(m, n) PROVE Goal
  <2>1. m \in 1 .. Latest /\ n \in 1 .. Latest
    BY <1>3, <1>6 DEF CreateExperiment, Numbers, LandingAssumption
  <2>2. experiment' \in Experiment /\ VariantInv'
    BY <1>2, <1>6, <2>1 DEF CreateExperiment, Experiment, VariantInv
  <2> QED BY <1>1, <1>2, <1>3, <1>6, <2>2 DEF CreateExperiment, TypeOK, Local
<1>7. ASSUME Archive PROVE Goal
  BY <1>1, <1>2, <1>3, <1>7 DEF Archive, Page, VariantInv, TypeOK, Local
<1>8. Goal
  BY <1>4, <1>5, <1>6, <1>7
<1> QED BY <1>1, <1>2, <1>8 DEF LInv, TypeOK, LeaseInv

LEMMA NextLInv == ASSUME LandingAssumption, LInv, [Next]_vars PROVE LInv'
<1>1. ASSUME NEW p \in Procs, Worker(p) PROVE LInv'
  BY <1>1, AgentReads, JobSteps, ImageSteps, ApplyType DEF Worker
<1>2. ASSUME NEW p \in Procs, Editor(p) PROVE LInv'
  BY <1>2, EditorReads, SaveType, PublishType, PageSteps DEF Editor
<1>3. ASSUME NEW p \in Procs, Sweep(p) \/ Crash(p) PROVE LInv'
  BY <1>3, ImageSteps, EditorReads DEF Sweep
<1>4. CASE UNCHANGED vars
  BY <1>4 DEF vars, LInv, TypeOK, Local, LeaseInv, VariantInv, Latest
<1> QED BY <1>1, <1>2, <1>3, <1>4, JobSteps, ImageSteps, PageSteps DEF Next

LEMMA AlwaysLInv == ASSUME LandingAssumption PROVE Spec => []LInv
<1>1. Init => LInv
  BY InitLInv
<1>2. LInv /\ [Next]_vars => LInv'
  BY NextLInv
<1> QED BY <1>1, <1>2, PTL DEF Spec

\* The rows, what the bucket holds and what every invocation carries keep
\* their types, and nobody follows a pointer that leads nowhere.
THEOREM LandingTypes == ASSUME LandingAssumption PROVE Spec => []TypeOK
<1>1. LInv => TypeOK
  BY DEF LInv
<1> QED BY <1>1, AlwaysLInv, PTL

-----------------------------------------------------------------------------
(* One history                                                             *)

\* Steps that leave alone what EditsFollowTheirBase speaks of.
LEMMA HistoryKept ==
    ASSUME LandingAssumption, LInv, EditsFollowTheirBase,
           page'.current = page.current, Latest' = Latest,
           \A n \in 1 .. Latest : versions'[n].by = versions[n].by /\ versions'[n].on = versions[n].on,
           \A r \in Requests :
              \/ job'[r].status = job[r].status /\ job'[r].result = job[r].result
              \/ job'[r].status # "completed" /\ job[r].status # "completed"
    PROVE  EditsFollowTheirBase'
<1>1. ASSUME NEW r \in Requests
      PROVE  {n \in 1 .. Latest' : versions'[n].by = r}
               = IF job'[r].status = "completed" THEN {job'[r].result} ELSE {}
  <2>1. {n \in 1 .. Latest' : versions'[n].by = r} = {n \in 1 .. Latest : versions[n].by = r}
    OBVIOUS
  <2> QED BY <2>1 DEF EditsFollowTheirBase
<1> QED BY <1>1 DEF EditsFollowTheirBase

\* A step that adds a version made by r, or by an editor.
LEMMA HistoryGrows ==
    ASSUME LandingAssumption, LInv, EditsFollowTheirBase,
           Latest' = Latest + 1, page'.current = Latest + 1,
           \A n \in 1 .. Latest : versions'[n] = versions[n],
           versions'[Latest + 1].on \in {page.current, None},
           versions'[Latest + 1].by # None => versions'[Latest + 1].on # None,
           \A r \in Requests :
              IF versions'[Latest + 1].by = r
              THEN /\ job[r].status # "completed" /\ job'[r].status = "completed"
                   /\ job'[r].result = Latest + 1
              ELSE job'[r] = job[r]
    PROVE  EditsFollowTheirBase'
<1>0. Latest \in Nat /\ 1 .. Latest' = 1 .. Latest \cup {Latest + 1}
  <2>1. Latest \in Nat
    BY DEF LInv, TypeOK, Numbers
  <2> QED BY <2>1
<1>1. ASSUME NEW r \in Requests
      PROVE  {n \in 1 .. Latest' : versions'[n].by = r}
               = IF job'[r].status = "completed" THEN {job'[r].result} ELSE {}
  <2>1. {n \in 1 .. Latest : versions[n].by = r}
          = IF job[r].status = "completed" THEN {job[r].result} ELSE {}
    BY DEF EditsFollowTheirBase
  <2>2. {n \in 1 .. Latest' : versions'[n].by = r}
          = {n \in 1 .. Latest : versions[n].by = r}
            \cup (IF versions'[Latest + 1].by = r THEN {Latest + 1} ELSE {})
    BY <1>0
  <2> QED BY <2>1, <2>2
<1>2. \A n \in 1 .. Latest' : /\ versions'[n].on \in {n - 1, None}
                              /\ versions'[n].by # None => versions'[n].on # None
  BY <1>0 DEF EditsFollowTheirBase
<1> QED BY <1>1, <1>2 DEF EditsFollowTheirBase

LEMMA InitHistory == ASSUME LandingAssumption, Init PROVE EditsFollowTheirBase
BY DEF Init, EditsFollowTheirBase, LandingAssumption, Latest

LEMMA NextHistory ==
    ASSUME LandingAssumption, LInv, EditsFollowTheirBase, [Next]_vars
    PROVE  EditsFollowTheirBase'
<1>1. ASSUME NEW p \in Procs, Apply(p) PROVE EditsFollowTheirBase'
  <2> DEFINE r == proc[p].request
  <2>1. r \in Requests /\ job[r].status = "running" /\ job[r].lease = p /\ job \in [Requests -> Job]
    BY <1>1 DEF Apply, Holds, LInv, Local, TypeOK, Fits, AgentPC
  <2>2. job' = [job EXCEPT ![r] = [@ EXCEPT !.status = "completed", !.lease = None,
                                             !.expired = FALSE, !.result = Latest + 1]]
    BY <1>1, <2>1 DEF Apply, WriteVersion
  <2>3. /\ job'[r].status = "completed" /\ job'[r].result = Latest + 1
        /\ \A x \in Requests \ {r} : job'[x] = job[x]
    BY <2>1, <2>2 DEF Job
  <2>4. page.current # None
    BY DEF LInv, TypeOK, Page, Numbers, LandingAssumption
  <2> QED BY <1>1, <2>1, <2>3, <2>4, ApplyType, HistoryGrows
<1>2. ASSUME NEW p \in Procs, Save(p) PROVE EditsFollowTheirBase'
  <2>1. None \notin Requests
    BY DEF LandingAssumption
  <2> QED BY <1>2, <2>1, SaveType, HistoryGrows
<1>3. ASSUME NEW p \in Procs, Publish(p) PROVE EditsFollowTheirBase'
  BY <1>3, PublishType, HistoryKept
<1>4. ASSUME UNCHANGED <<page, versions, job>> PROVE EditsFollowTheirBase'
  BY <1>4 DEF EditsFollowTheirBase, Latest
<1>5. ASSUME \/ \E p \in Procs : Queue(p) \/ Finish(p) \/ \E r \in Requests : Claim(p, r)
             \/ \E r \in Requests : Retry(r) \/ LeaseExpires(r)
      PROVE  EditsFollowTheirBase'
  <2>1. UNCHANGED <<page, versions>> /\ job \in [Requests -> Job] /\ LeaseInv /\ TypeOK
    BY <1>5 DEF Queue, Finish, Claim, Retry, LeaseExpires, LInv, TypeOK
  <2>2. ASSUME NEW r \in Requests
        PROVE  \/ job'[r].status = job[r].status /\ job'[r].result = job[r].result
               \/ job'[r].status # "completed" /\ job[r].status # "completed"
    <3>1. job[r] \in Job
      BY <2>1
    <3>2. ASSUME NEW p \in Procs, Finish(p), job'[r] # job[r]
          PROVE  job'[r].status # "completed" /\ job[r].status # "completed"
      <4>1. proc[p].request = r /\ job[r].lease = p /\ p # None
        BY <2>1, <3>2 DEF Finish, LandingAssumption
      <4>2. job[r].status = "running"
        BY <2>1, <4>1 DEF LeaseInv
      <4> QED BY <2>1, <3>2, <4>1, <4>2 DEF Finish, Job
    <3>3. ASSUME NEW p \in Procs, Queue(p)
          PROVE  \/ job'[r].status = job[r].status /\ job'[r].result = job[r].result
                 \/ job'[r].status # "completed" /\ job[r].status # "completed"
      BY <2>1, <3>1, <3>3 DEF Queue, Job
    <3>4. ASSUME NEW p \in Procs, NEW x \in Requests, Claim(p, x)
          PROVE  \/ job'[r].status = job[r].status /\ job'[r].result = job[r].result
                 \/ job'[r].status # "completed" /\ job[r].status # "completed"
      BY <2>1, <3>1, <3>4 DEF Claim, Job
    <3>5. ASSUME NEW x \in Requests, Retry(x) \/ LeaseExpires(x)
          PROVE  \/ job'[r].status = job[r].status /\ job'[r].result = job[r].result
                 \/ job'[r].status # "completed" /\ job[r].status # "completed"
      BY <2>1, <3>1, <3>5 DEF Retry, LeaseExpires, Job
    <3> QED BY <1>5, <3>2, <3>3, <3>4, <3>5
  <2> QED BY <2>1, <2>2, HistoryKept DEF Latest
<1>6. ASSUME \/ \E p \in Procs : Start(p) \/ End(p)
             \/ \E m, n \in Numbers : CreateExperiment(m, n)
             \/ Archive
      PROVE  EditsFollowTheirBase'
  BY <1>6, PageSteps, HistoryKept DEF Latest
<1>7. ASSUME NEW p \in Procs, Worker(p) PROVE EditsFollowTheirBase'
  BY <1>1, <1>4, <1>5, <1>7
     DEF Worker, Request, ReadBase, Generate, Upload, Track, Untracked, RemoveAsset, Validate,
         ReadAgain, ApplyRejected, Break
<1>8. ASSUME NEW p \in Procs, Editor(p) PROVE EditsFollowTheirBase'
  BY <1>2, <1>3, <1>4, <1>6, <1>8
     DEF Editor, ReadPage, ReadNumber, SaveRejected, ReadForPublication, CheckReferences,
         ReadVersion, PublishRejected, ReadForStart, EndRejected, ReadForEnd
<1>9. ASSUME NEW p \in Procs, Sweep(p) \/ Crash(p) PROVE EditsFollowTheirBase'
  BY <1>4, <1>9 DEF Sweep, FindExpired, DeleteObjects, DeleteRows, Crash
<1>10. ASSUME NEW i \in Images, ImageExpires(i) PROVE EditsFollowTheirBase'
  BY <1>4, <1>10 DEF ImageExpires
<1> QED BY <1>4, <1>5, <1>6, <1>7, <1>8, <1>9, <1>10 DEF Next, vars

\* A version whose author named a base, as saveVersion asks of a document and
\* applyGeneration always does, is written right behind it, and a request makes
\* one version at most, whoever saves and generates beside it.
THEOREM EditsFollow == ASSUME LandingAssumption PROVE Spec => []EditsFollowTheirBase
<1>1. Init => EditsFollowTheirBase
  BY InitHistory
<1>2. LInv /\ EditsFollowTheirBase /\ [Next]_vars => EditsFollowTheirBase'
  BY NextHistory
<1> QED BY <1>1, <1>2, AlwaysLInv, PTL DEF Spec

-----------------------------------------------------------------------------
(* What visitors are served                                                *)

Untracking == {"track", "remove"}

\* The sweep can find an image that is shown, and what is stored has a row.
Managed(i) ==
    /\ image[i].object => image[i].row
    /\ image[i].row => image[i].tracked # "no"

Protected(i) ==
    i \notin late /\ \E n \in 1 .. Latest : versions[n].published /\ versions[n].image = i

VersionOK(n) ==
    LET v == versions[n]
    IN  /\ v.forms = IF v.published /\ v.document THEN 1 ELSE 0
        /\ ~v.document => v.image = NoImage
        /\ v.image # NoImage => Managed(v.image)
        /\ v.published /\ v.image # NoImage /\ v.image \notin late =>
             image[v.image].public /\ image[v.image].row /\ image[v.image].object

VersionInv == \A n \in 1 .. Latest : VersionOK(n)

ImageInv == \A i \in Images : image[i].public => image[i].tracked = "claimed"

PointerInv ==
    /\ page.live # None => page.live \in 1 .. Latest /\ versions[page.live].published
    /\ page.status = "published" => page.live # None
    /\ \A n \in experiment.variants : versions[n].published

\* What an invocation relies on when it writes.
Ready(q) ==
    /\ q.pc \in {"number", "save"} /\ q.status = "published" => page.live # None
    /\ q.pc \in {"references", "snapshot", "publish"} => versions[q.version].document
    /\ q.pc = "end" /\ q.version # None => versions[q.version].published
    /\ q.image # NoImage =>
         IF q.pc \in Untracking THEN image[q.image].row /\ image[q.image].tracked = "no"
         ELSE Managed(q.image)
    /\ \A i \in q.list : Managed(i) /\ ~Protected(i)
    /\ q.pc = "rows" => \A i \in q.list : ~image[i].object

\* An image that is not tracked yet is in the hands of one invocation.
Alone ==
    \A x, y \in Procs :
       proc[x].pc \in Untracking /\ proc[y].pc \in Untracking
       /\ proc[x].image = proc[y].image /\ proc[x].image # NoImage => x = y

SInv ==
    /\ VersionInv /\ ImageInv /\ PointerInv /\ Alone
    /\ \A p \in Procs : Ready(proc[p])

LEMMA Values ==
    ASSUME LInv
    PROVE  /\ Latest \in Numbers /\ Latest \in Nat /\ NoImage \notin Images
           /\ page \in Page /\ experiment \in Experiment /\ experiment.variants \subseteq 1 .. Latest
           /\ image \in [Images -> Image] /\ late \subseteq Images
           /\ proc \in [Procs -> ProcState]
           /\ \A p \in Procs : /\ proc[p].image \in Images \cup {NoImage} /\ proc[p].list \subseteq Images
                               /\ Fits(proc[p], Latest)
           /\ \A n \in 1 .. Latest : versions[n] \in Version
                                     /\ versions[n].image \in Images \cup {NoImage}
<1>1. TypeOK
  BY DEF LInv
<1>2. \A n \in 1 .. Latest : versions[n] \in Version /\ versions[n].image \in Images \cup {NoImage}
  <2> SUFFICES ASSUME NEW n \in 1 .. Latest
               PROVE  versions[n] \in Version /\ versions[n].image \in Images \cup {NoImage}
    OBVIOUS
  <2>1. versions[n] \in Version
    BY <1>1, VersionTyped
  <2> QED BY <2>1 DEF Version
<1>3. NoImage \notin Images
  BY DEF NoImage, Images
<1>4. \A p \in Procs : /\ proc[p].image \in Images \cup {NoImage} /\ proc[p].list \subseteq Images
  BY <1>1 DEF TypeOK, ProcState
<1>5. Latest \in Nat
  BY <1>1 DEF TypeOK, Numbers
<1> QED BY <1>1, <1>2, <1>3, <1>4, <1>5 DEF TypeOK, LInv, VariantInv, Local

LEMMA InitSInv == ASSUME LandingAssumption, Init PROVE SInv
<1>1. Latest = 1 /\ ~versions[1].published /\ versions[1].forms = 0 /\ versions[1].document
      /\ versions[1].image = NoImage
  BY DEF Init, Latest
<1>2. VersionInv
  BY <1>1 DEF VersionInv, VersionOK
<1>3. ImageInv /\ PointerInv
  BY DEF Init, ImageInv, PointerInv
<1>4. \A p \in Procs : proc[p] = Idle
  BY DEF Init
<1>5. Idle.pc = "idle" /\ Idle.image = NoImage /\ Idle.list = {}
  BY DEF Idle
<1>6. \A p \in Procs : proc[p].pc = "idle" /\ proc[p].image = NoImage /\ proc[p].list = {}
  BY <1>4, <1>5
<1>7. Alone
  BY <1>6 DEF Alone
<1>8. \A p \in Procs : Ready(proc[p])
  BY <1>6 DEF Ready
<1> QED BY <1>2, <1>3, <1>7, <1>8 DEF SInv

\* An invocation that stands still stays ready when the tables keep their promises.
LEMMA StaysReady ==
    ASSUME LInv, SInv, NEW x \in Procs, proc'[x] = proc[x],
           page.live # None => page'.live # None,
           \A n \in 1 .. Latest : /\ versions'[n].document = versions[n].document
                                  /\ versions[n].published => versions'[n].published,
           \A i \in Images : /\ i = proc[x].image \/ i \in proc[x].list
                             /\ Managed(i)
                             => Managed(i)',
           proc[x].image # NoImage /\ proc[x].pc \in Untracking =>
             image'[proc[x].image].row /\ image'[proc[x].image].tracked = "no",
           \A i \in proc[x].list : ~Protected(i)' /\ (image'[i].object => image[i].object)
    PROVE  Ready(proc[x])'
<1>1. /\ Ready(proc[x]) /\ Fits(proc[x], Latest)
      /\ proc[x].image \in Images \cup {NoImage} /\ proc[x].list \subseteq Images
  BY Values DEF SInv
<1>2. proc[x].pc \in {"references", "snapshot", "publish"} => versions'[proc[x].version].document
  BY <1>1 DEF Ready, Fits
<1>3. proc[x].pc = "end" /\ proc[x].version # None => versions'[proc[x].version].published
  BY <1>1 DEF Ready, Fits
<1>4. proc[x].image # NoImage /\ proc[x].pc \notin Untracking =>
        /\ image'[proc[x].image].object => image'[proc[x].image].row
        /\ image'[proc[x].image].row => image'[proc[x].image].tracked # "no"
  BY <1>1 DEF Ready, Managed
<1>5. \A i \in proc[x].list : Managed(i)' /\ ~Protected(i)'
  BY <1>1 DEF Ready
<1>6. proc[x].pc = "rows" => \A i \in proc[x].list : ~image'[i].object
  BY <1>1 DEF Ready
<1>7. proc[x].pc \in {"number", "save"} /\ proc[x].status = "published" => page'.live # None
  BY <1>1 DEF Ready
<1> QED BY <1>2, <1>3, <1>4, <1>5, <1>6, <1>7 DEF Ready, Managed

\* A step that writes no table and takes nothing that is not tracked.
LEMMA WritesNothing ==
    ASSUME LInv, SInv, NEW p \in Procs, NEW q, Ready(q), q.pc \notin Untracking,
           proc' = [proc EXCEPT ![p] = q],
           UNCHANGED <<page, versions, image, late, experiment>>
    PROVE  SInv'
<1>1. /\ Latest' = Latest /\ proc \in [Procs -> ProcState]
      /\ VersionInv /\ ImageInv /\ PointerInv /\ Alone /\ \A x \in Procs : Ready(proc[x])
  BY Values DEF SInv, Latest
<1>2. VersionInv' /\ ImageInv' /\ PointerInv'
  BY <1>1 DEF VersionInv, VersionOK, Managed, ImageInv, PointerInv
<1>3. \A x \in Procs : proc'[x] = IF x = p THEN q ELSE proc[x]
  BY <1>1
<1>4. Alone'
  <2> SUFFICES ASSUME NEW x \in Procs, NEW y \in Procs,
                      proc'[x].pc \in Untracking, proc'[y].pc \in Untracking,
                      proc'[x].image = proc'[y].image, proc'[x].image # NoImage
               PROVE  x = y
    BY DEF Alone
  <2>1. proc'[x] = proc[x] /\ proc'[y] = proc[y]
    BY <1>3
  <2> QED BY <1>1, <2>1 DEF Alone
<1>5. ASSUME NEW x \in Procs PROVE Ready(proc[x])'
  <2>1. proc'[x] = q \/ proc'[x] = proc[x]
    BY <1>3
  <2>2. Ready(proc[x])
    BY <1>1
  <2> QED BY <1>1, <2>1, <2>2 DEF Ready, Managed, Protected
<1> QED BY <1>2, <1>4, <1>5 DEF SInv

LEMMA ReadyIdle == Ready(Idle) /\ Idle.pc \notin Untracking
<1>1. Idle.pc = "idle" /\ Idle.image = NoImage /\ Idle.list = {}
  BY DEF Idle
<1> QED BY <1>1 DEF Ready, Untracking

LEMMA ReadyOf ==
    ASSUME LInv, SInv, NEW p \in Procs
    PROVE  /\ Ready(proc[p]) /\ Fits(proc[p], Latest) /\ proc[p] \in ProcState
           /\ proc[p].image \in Images \cup {NoImage} /\ proc[p].list \subseteq Images
           /\ proc[p] = [pc |-> proc[p].pc, request |-> proc[p].request, base |-> proc[p].base,
                        on |-> proc[p].on, version |-> proc[p].version, image |-> proc[p].image,
                        edit |-> proc[p].edit, status |-> proc[p].status,
                        seen |-> proc[p].seen, list |-> proc[p].list]
BY Values DEF SInv, ProcState

\* What is shown may be published: its image is managed.
LEMMA ShownIsManaged ==
    ASSUME LInv, SInv, NEW i \in Images \cup {NoImage}, Refers(i), i # NoImage
    PROVE  Managed(i)
BY DEF Refers, Shown, SInv, ImageInv, Managed

\* The sweep finds nothing a visitor was promised.
LEMMA ExpiredIsUnprotected ==
    ASSUME LInv, SInv, NEW i \in Images, image[i].row, image[i].tracked = "expired"
    PROVE  Managed(i) /\ ~Protected(i)
<1>1. Managed(i) /\ ~image[i].public /\ i # NoImage
  BY Values DEF Managed, SInv, ImageInv
<1>2. \A n \in 1 .. Latest : VersionOK(n)
  BY DEF SInv, VersionInv
<1> QED BY <1>1, <1>2 DEF Protected, VersionOK

\* The steps that only read.
LEMMA ReadSteps ==
    ASSUME LInv, SInv, NEW p \in Procs,
           \/ \E r \in Requests : Request(p, r) \/ Claim(p, r)
           \/ Queue(p) \/ ReadBase(p) \/ Generate(p) \/ Validate(p) \/ ReadAgain(p)
           \/ ApplyRejected(p) \/ Break(p) \/ Finish(p)
           \/ \E edit \in Edits, i \in Images \cup {NoImage}, base \in Numbers \cup {None} :
                ReadPage(p, edit, i, base)
           \/ ReadNumber(p) \/ SaveRejected(p)
           \/ \E n \in Numbers : ReadForPublication(p, n)
           \/ CheckReferences(p) \/ ReadVersion(p) \/ PublishRejected(p)
           \/ ReadForStart(p) \/ EndRejected(p)
           \/ \E winner \in Numbers \cup {None} : ReadForEnd(p, winner)
           \/ FindExpired(p) \/ Crash(p)
    PROVE  SInv'
<1> DEFINE Goal == \E q : Ready(q) /\ q.pc \notin Untracking /\ proc' = [proc EXCEPT ![p] = q]
<1>1. UNCHANGED <<page, versions, image, late, experiment>>
  BY DEF Request, Claim, Queue, ReadBase, Generate, Validate, ReadAgain, ApplyRejected, Break,
         Finish, ReadPage, ReadNumber, SaveRejected, ReadForPublication, CheckReferences,
         ReadVersion, PublishRejected, ReadForStart, EndRejected, ReadForEnd, FindExpired, Crash
<1>2. /\ Ready(proc[p]) /\ Fits(proc[p], Latest) /\ proc[p] \in ProcState
      /\ proc[p].image \in Images \cup {NoImage}
  BY ReadyOf
<1>3. ASSUME Return(p) PROVE Goal
  BY <1>3, ReadyIdle DEF Return
<1>4. ASSUME NEW pc \in {"generate", "validate", "apply", "commit", "start"}, Goto(p, pc),
             proc[p].pc \notin Untracking
      PROVE  Goal
  <2> DEFINE q == [proc[p] EXCEPT !.pc = pc]
  <2>1. /\ q.pc = pc /\ q.image = proc[p].image /\ q.list = proc[p].list
    BY <1>2 DEF ProcState
  <2>2. Ready(q) /\ q.pc \notin Untracking
    BY <1>2, <1>4, <2>1 DEF Ready, Untracking
  <2> QED BY <1>4, <2>2 DEF Goto
<1>5. ASSUME NEW outcome, Fail(p, outcome), proc[p].pc \notin Untracking PROVE Goal
  <2> DEFINE q == [proc[p] EXCEPT !.pc = "finish", !.status = outcome]
  <2>1. /\ q.pc = "finish" /\ q.image = proc[p].image /\ q.list = proc[p].list
    BY <1>2 DEF ProcState
  <2>2. Ready(q) /\ q.pc \notin Untracking
    BY <1>2, <1>5, <2>1 DEF Ready, Untracking
  <2> QED BY <1>5, <2>2 DEF Fail
<1>6. ASSUME NEW r \in Requests, Request(p, r) \/ Claim(p, r) PROVE Goal
  <2>1. PICK q : /\ q \in {[proc[p] EXCEPT !.pc = "queue", !.request = r, !.base = page.current],
                           [proc[p] EXCEPT !.pc = "base", !.request = r, !.base = job[r].base]}
                 /\ proc' = [proc EXCEPT ![p] = q]
    BY <1>6 DEF Request, Claim
  <2>2. /\ q.pc \in {"queue", "base"} /\ q.image = proc[p].image /\ q.list = proc[p].list
        /\ proc[p].pc = "idle"
    BY <1>2, <1>6, <2>1 DEF ProcState, Request, Claim
  <2>3. Ready(q) /\ q.pc \notin Untracking
    BY <1>2, <2>2 DEF Ready, Untracking
  <2> QED BY <2>1, <2>3
<1>7. ASSUME NEW edit \in Edits, NEW i \in Images \cup {NoImage}, NEW base \in Numbers \cup {None},
             ReadPage(p, edit, i, base)
      PROVE  Goal
  <2> DEFINE q == [proc[p] EXCEPT !.pc = "number", !.base = page.current, !.on = base,
                                  !.edit = edit, !.status = page.status, !.image = i]
  <2>1. /\ q.pc = "number" /\ q.image = i /\ q.list = proc[p].list /\ q.status = page.status
    BY <1>2 DEF ProcState
  <2>2. i # NoImage => Managed(i)
    BY <1>7, ShownIsManaged DEF ReadPage
  <2>3. Ready(q) /\ q.pc \notin Untracking
    BY <1>2, <2>1, <2>2 DEF Ready, Untracking, SInv, PointerInv
  <2> QED BY <1>7, <2>3 DEF ReadPage
<1>8. ASSUME ReadNumber(p) PROVE Goal
  <2> DEFINE q == [proc[p] EXCEPT !.pc = "save", !.version = Latest + 1]
  <2>1. /\ q.pc = "save" /\ q.image = proc[p].image /\ q.list = proc[p].list
        /\ q.status = proc[p].status /\ proc[p].pc = "number"
    BY <1>2, <1>8 DEF ProcState, ReadNumber
  <2>2. Ready(q) /\ q.pc \notin Untracking
    BY <1>2, <2>1 DEF Ready, Untracking
  <2> QED BY <1>8, <2>2 DEF ReadNumber
<1>9. ASSUME NEW n \in Numbers, ReadForPublication(p, n) PROVE Goal
  <2> DEFINE q == [proc[p] EXCEPT !.pc = "references", !.base = page.current, !.version = n]
  <2>1. /\ q.pc = "references" /\ q.image = proc[p].image /\ q.list = proc[p].list
        /\ q.version = n /\ versions[n].document /\ proc[p].pc = "idle"
    BY <1>2, <1>9 DEF ProcState, ReadForPublication
  <2>2. Ready(q) /\ q.pc \notin Untracking
    BY <1>2, <2>1 DEF Ready, Untracking
  <2> QED BY <1>9, <2>2 DEF ReadForPublication
<1>10. ASSUME CheckReferences(p) PROVE Goal
  <2> DEFINE q == [proc[p] EXCEPT !.pc = "snapshot"]
  <2>1. /\ q.pc = "snapshot" /\ q.image = proc[p].image /\ q.list = proc[p].list
        /\ q.version = proc[p].version /\ proc[p].pc = "references"
    BY <1>2, <1>10 DEF ProcState, CheckReferences
  <2>2. Ready(q) /\ q.pc \notin Untracking
    BY <1>2, <2>1 DEF Ready, Untracking
  <2>3. Goto(p, "snapshot") => Goal
    BY <2>2 DEF Goto
  <2> QED BY <1>3, <1>10, <2>3 DEF CheckReferences
<1>11. ASSUME ReadVersion(p) PROVE Goal
  <2> DEFINE q == [proc[p] EXCEPT !.pc = "publish",
                                  !.seen = versions[proc[p].version].published]
  <2>1. /\ q.pc = "publish" /\ q.image = proc[p].image /\ q.list = proc[p].list
        /\ q.version = proc[p].version /\ proc[p].pc = "snapshot"
    BY <1>2, <1>11 DEF ProcState, ReadVersion
  <2>2. Ready(q) /\ q.pc \notin Untracking
    BY <1>2, <2>1 DEF Ready, Untracking
  <2> QED BY <1>11, <2>2 DEF ReadVersion
<1>12. ASSUME NEW winner \in Numbers \cup {None}, ReadForEnd(p, winner) PROVE Goal
  <2> DEFINE q == [proc[p] EXCEPT !.pc = "end", !.base = page.live, !.version = winner]
  <2>1. /\ q.pc = "end" /\ q.image = proc[p].image /\ q.list = proc[p].list
        /\ q.version = winner /\ proc[p].pc = "idle"
    BY <1>2, <1>12 DEF ProcState, ReadForEnd
  <2>2. winner # None => versions[winner].published
    BY <1>12 DEF ReadForEnd, Servable
  <2>3. Ready(q) /\ q.pc \notin Untracking
    BY <1>2, <2>1, <2>2 DEF Ready, Untracking
  <2> QED BY <1>12, <2>3 DEF ReadForEnd
<1>13. ASSUME FindExpired(p) PROVE Goal
  <2> DEFINE expired == {i \in Images : image[i].row /\ image[i].tracked = "expired"}
             q == [proc[p] EXCEPT !.pc = "objects", !.list = expired]
  <2>1. /\ q.pc = "objects" /\ q.image = proc[p].image /\ q.list = expired
        /\ proc[p].pc = "idle"
    BY <1>2, <1>13 DEF ProcState, FindExpired
  <2>2. \A i \in expired : Managed(i) /\ ~Protected(i)
    BY ExpiredIsUnprotected
  <2> HIDE DEF expired
  <2>3. Ready(q) /\ q.pc \notin Untracking
    BY <1>2, <2>1, <2>2 DEF Ready, Untracking
  <2> QED BY <1>13, <2>3 DEF FindExpired, expired
<1>14. Goal
  <2>1. Queue(p) \/ Finish(p) \/ SaveRejected(p) \/ PublishRejected(p) \/ EndRejected(p)
        \/ Crash(p) => Return(p)
    BY DEF Queue, Finish, SaveRejected, PublishRejected, EndRejected, Crash
  <2>2. ASSUME ReadBase(p) \/ Generate(p) \/ Validate(p) \/ ReadAgain(p) \/ ApplyRejected(p)
               \/ Break(p) \/ ReadForStart(p)
        PROVE  /\ proc[p].pc \notin Untracking
               /\ \/ \E pc \in {"generate", "validate", "apply", "commit", "start"} : Goto(p, pc)
                  \/ \E outcome : Fail(p, outcome)
    <3>1. proc[p].pc \notin Untracking
      BY <2>2 DEF ReadBase, Generate, Validate, ReadAgain, ApplyRejected, Break, ReadForStart,
                  Untracking
    <3>2. \/ \E pc \in {"generate", "validate", "apply", "commit", "start"} : Goto(p, pc)
          \/ \E outcome : Fail(p, outcome)
      BY <2>2 DEF ReadBase, Generate, Validate, ReadAgain, ApplyRejected, Break, ReadForStart
    <3> QED BY <3>1, <3>2
  <2> QED BY <1>3, <1>4, <1>5, <1>6, <1>7, <1>8, <1>9, <1>10, <1>11, <1>12, <1>13, <2>1, <2>2
<1> QED BY <1>1, <1>14, WritesNothing

\* A step on images that nobody was promised.
LEMMA ImagesMove ==
    ASSUME LInv, SInv, UNCHANGED <<page, versions, late, experiment>>, NEW T,
           \A i \in Images \ T : image'[i] = image[i],
           \A i \in Images \cap T : ~Protected(i)
                                    /\ (image'[i].public => image'[i].tracked = "claimed"),
           \A i \in Images \cap T, n \in 1 .. Latest : versions[n].image = i => Managed(i)',
           \A x \in Procs :
              \/ Ready(proc[x])'
              \/ /\ proc'[x] = proc[x]
                 /\ \A i \in Images \cap T :
                       /\ i = proc[x].image => proc[x].pc \notin Untracking /\ Managed(i)'
                       /\ i \in proc[x].list => Managed(i)' /\ (image'[i].object => image[i].object),
           Alone'
    PROVE  SInv'
<1>1. /\ Latest' = Latest /\ VersionInv /\ ImageInv /\ PointerInv /\ NoImage \notin Images
      /\ \A n \in 1 .. Latest : versions[n].image \in Images \cup {NoImage}
  BY Values DEF SInv, Latest
<1>2. ASSUME NEW n \in 1 .. Latest PROVE VersionOK(n)'
  <2> DEFINE i == versions[n].image
  <2>1. VersionOK(n) /\ i \in Images \cup {NoImage} /\ versions' = versions /\ late' = late
    BY <1>1 DEF VersionInv
  <2>2. i # NoImage => Managed(i)'
    <3>1. CASE i \in Images \cap T
      BY <3>1
    <3>2. CASE i \in Images \ T
      BY <2>1, <3>2 DEF VersionOK, Managed
    <3> QED BY <2>1, <3>1, <3>2
  <2>3. versions[n].published /\ i # NoImage /\ i \notin late => image'[i] = image[i]
    <3>1. versions[n].published /\ i \notin late => Protected(i)
      BY DEF Protected
    <3> QED BY <2>1, <3>1
  <2> QED BY <2>1, <2>2, <2>3 DEF VersionOK, Managed
<1>3. VersionInv'
  BY <1>1, <1>2 DEF VersionInv
<1>4. ImageInv' /\ PointerInv'
  BY <1>1 DEF ImageInv, PointerInv
<1>5. ASSUME NEW x \in Procs, ~Ready(proc[x])' PROVE FALSE
  <2>1. /\ proc'[x] = proc[x]
        /\ proc[x].image \in Images \cup {NoImage} /\ proc[x].list \subseteq Images
        /\ Ready(proc[x])
        /\ \A i \in Images \cap T :
              /\ i = proc[x].image => proc[x].pc \notin Untracking /\ Managed(i)'
              /\ i \in proc[x].list => Managed(i)' /\ (image'[i].object => image[i].object)
    BY <1>5, ReadyOf
  <2>2. \A i \in Images : i = proc[x].image \/ i \in proc[x].list => (Managed(i) => Managed(i)')
    <3> SUFFICES ASSUME NEW i \in Images, i = proc[x].image \/ i \in proc[x].list, Managed(i)
                 PROVE  Managed(i)'
      OBVIOUS
    <3>1. CASE i \in T
      BY <2>1, <3>1
    <3>2. CASE i \notin T
      BY <3>2 DEF Managed
    <3> QED BY <3>1, <3>2
  <2>3. proc[x].image # NoImage /\ proc[x].pc \in Untracking =>
          image'[proc[x].image].row /\ image'[proc[x].image].tracked = "no"
    BY <2>1 DEF Ready
  <2>4. \A i \in proc[x].list : ~Protected(i)' /\ (image'[i].object => image[i].object)
    <3> SUFFICES ASSUME NEW i \in proc[x].list
                 PROVE  ~Protected(i)' /\ (image'[i].object => image[i].object)
      OBVIOUS
    <3>1. ~Protected(i)'
      BY <2>1 DEF Ready, Protected, Latest
    <3> QED BY <2>1, <3>1
  <2>5. \A n \in 1 .. Latest : /\ versions'[n].document = versions[n].document
                               /\ versions[n].published => versions'[n].published
    OBVIOUS
  <2>6. Ready(proc[x])'
    BY <2>1, <2>2, <2>3, <2>4, <2>5, StaysReady
  <2> QED BY <1>5, <2>6
<1> QED BY <1>3, <1>4, <1>5 DEF SInv

\* An image that is stored without being tracked is nobody's but the one who stored it.
LEMMA UnmanagedIsPrivate ==
    ASSUME LInv, SInv, NEW p \in Procs, proc[p].pc \in Untracking, NEW i \in Images,
           i = proc[p].image
    PROVE  /\ image[i].row /\ image[i].tracked = "no" /\ ~image[i].public /\ ~Protected(i)
           /\ \A n \in 1 .. Latest : versions[n].image # i
           /\ \A x \in Procs \ {p} : i # proc[x].image
           /\ \A x \in Procs : i \notin proc[x].list
<1>1. i # NoImage /\ Ready(proc[p]) /\ ImageInv /\ VersionInv
  BY Values, ReadyOf DEF SInv
<1>2. image[i].row /\ image[i].tracked = "no" /\ ~Managed(i)
  BY <1>1 DEF Ready, Managed
<1>3. \A n \in 1 .. Latest : versions[n].image # i
  BY <1>1, <1>2 DEF VersionInv, VersionOK
<1>4. \A x \in Procs : i \notin proc[x].list
  BY <1>2, ReadyOf DEF Ready
<1>5. \A x \in Procs \ {p} : i # proc[x].image
  <2> SUFFICES ASSUME NEW x \in Procs, i = proc[x].image PROVE x = p
    OBVIOUS
  <2>1. proc[x].pc \in Untracking
    BY <1>1, <1>2, ReadyOf DEF Ready
  <2> QED BY <1>1, <2>1 DEF SInv, Alone
<1> QED BY <1>1, <1>2, <1>3, <1>4, <1>5 DEF ImageInv, Protected

\* The steps of the invocation that holds it.
LEMMA HolderSteps ==
    ASSUME LInv, SInv, NEW p \in Procs, Track(p) \/ Untracked(p) \/ RemoveAsset(p)
    PROVE  SInv'
<1> DEFINE i == proc[p].image
<1>1. /\ UNCHANGED <<page, versions, late, experiment>> /\ proc[p].pc \in Untracking
      /\ \A x \in Procs \ {p} : proc'[x] = proc[x]
      /\ Alone /\ Ready(proc[p]) /\ i \in Images \cup {NoImage} /\ proc[p] \in ProcState
      /\ proc \in [Procs -> ProcState] /\ image \in [Images -> Image]
  <2>1. proc[p] \in ProcState /\ Ready(proc[p]) /\ i \in Images \cup {NoImage}
        /\ proc \in [Procs -> ProcState] /\ image \in [Images -> Image]
    BY ReadyOf, Values
  <2> QED BY <2>1 DEF Track, Untracked, RemoveAsset, Goto, Untracking, SInv
<1>2. /\ proc'[p].list = proc[p].list
      /\ \/ proc'[p].pc = "validate" /\ proc'[p].image = i
                 /\ image' = [image EXCEPT ![i].tracked = "fresh"]
         \/ proc'[p].pc = "remove" /\ proc'[p].image = i
                 /\ image' \in {image, [image EXCEPT ![i].object = FALSE]}
         \/ proc'[p].pc = "finish" /\ proc'[p].image = NoImage
                 /\ image' \in {image, [image EXCEPT ![i].row = FALSE]}
  <2>1. CASE Track(p)
    BY <1>1, <2>1 DEF Track, Goto, ProcState
  <2>2. CASE Untracked(p)
    BY <1>1, <2>2 DEF Untracked, Goto, ProcState
  <2>3. CASE RemoveAsset(p)
    BY <1>1, <2>3 DEF RemoveAsset, ProcState
  <2> QED BY <2>1, <2>2, <2>3
<1>3. \A j \in Images \ {i} : image'[j] = image[j]
  BY <1>1, <1>2
<1>4. Alone'
  <2> SUFFICES ASSUME NEW x \in Procs, NEW y \in Procs,
                      proc'[x].pc \in Untracking, proc'[y].pc \in Untracking,
                      proc'[x].image = proc'[y].image, proc'[x].image # NoImage
               PROVE  x = y
    BY DEF Alone
  <2>1. \A z \in {x, y} : proc'[z].pc \in Untracking =>
                            proc[z].pc \in Untracking /\ proc'[z].image = proc[z].image
    BY <1>1, <1>2 DEF Untracking
  <2> QED BY <1>1, <2>1 DEF Alone
<1>5. CASE i = NoImage
  <2>1. image' = image
    <3>1. i \notin Images
      BY <1>5, Values
    <3> QED BY <1>1, <1>2, <3>1
  <2>2. Ready(proc[p])'
    BY <1>1, <1>2, <1>5, <2>1 DEF Ready, Managed, Protected, Latest, Untracking
  <2>3. \A x \in Procs : Ready(proc[x])' \/ proc'[x] = proc[x]
    BY <1>1, <2>2
  <2> DEFINE T == {}
  <2>4. Images \cap T = {} /\ \A j \in Images \ T : image'[j] = image[j]
    BY <2>1
  <2> HIDE DEF T
  <2> QED BY <1>1, <1>4, <2>3, <2>4, ImagesMove
<1>6. CASE i \in Images
  <2>1. /\ image[i].row /\ image[i].tracked = "no" /\ ~image[i].public /\ ~Protected(i)
        /\ \A n \in 1 .. Latest : versions[n].image # i
        /\ \A x \in Procs \ {p} : i # proc[x].image
        /\ \A x \in Procs : i \notin proc[x].list
    BY <1>1, <1>6, UnmanagedIsPrivate
  <2>2. image[i] \in Image /\ i # NoImage
    BY <1>1, <1>6, Values
  <2>3. ~image'[i].public
    BY <1>1, <1>2, <1>6, <2>1, <2>2 DEF Image
  <2>4. IF proc'[p].pc = "validate" THEN image'[i].row /\ image'[i].tracked = "fresh"
        ELSE proc'[p].pc = "remove" => image'[i].row /\ image'[i].tracked = "no"
    BY <1>1, <1>2, <1>6, <2>1, <2>2 DEF Image
  <2>5. \A j \in proc[p].list : Managed(j)' /\ ~Protected(j)'
    BY <1>1, <1>3, <2>1, ReadyOf DEF Ready, Managed, Protected, Latest
  <2>6. \A x \in Procs : x = p => Ready(proc[x])'
    BY <1>2, <1>6, <2>4, <2>5 DEF Ready, Managed, Untracking
  <2>7. \A x \in Procs :
           \/ Ready(proc[x])'
           \/ proc'[x] = proc[x] /\ i # proc[x].image /\ i \notin proc[x].list
    <3> SUFFICES ASSUME NEW x \in Procs, ~Ready(proc[x])'
                 PROVE  proc'[x] = proc[x] /\ i # proc[x].image /\ i \notin proc[x].list
      OBVIOUS
    <3>1. x # p
      BY <2>6
    <3> QED BY <1>1, <2>1, <3>1
  <2> DEFINE T == {i}
  <2>8. \A j \in Images \ T : image'[j] = image[j]
    BY <1>3
  <2>9. \A j \in Images \cap T : /\ ~Protected(j) /\ ~image'[j].public
                                 /\ \A n \in 1 .. Latest : versions[n].image # j
    BY <2>1, <2>3
  <2>10. \A x \in Procs :
           \/ Ready(proc[x])'
           \/ /\ proc'[x] = proc[x]
              /\ \A j \in Images \cap T : j # proc[x].image /\ j \notin proc[x].list
    <3> SUFFICES ASSUME NEW x \in Procs, ~Ready(proc[x])'
                 PROVE  /\ proc'[x] = proc[x]
                        /\ \A j \in Images \cap T : j # proc[x].image /\ j \notin proc[x].list
      OBVIOUS
    <3> QED BY <2>7
  <2> HIDE DEF T
  <2> QED BY <1>1, <1>4, <2>8, <2>9, <2>10, ImagesMove
<1> QED BY <1>1, <1>5, <1>6

\* A new image is one that nothing refers to.
LEMMA UploadStep == ASSUME LInv, SInv, NEW p \in Procs, Upload(p) PROVE SInv'
<1> DEFINE i == CHOOSE i \in Unused : \A j \in Unused : i <= j
           T == {i}
<1>1. i \in Unused
  BY LeastImage DEF Upload, Unused
<1>2. /\ image' = [image EXCEPT ![i].row = TRUE, ![i].object = TRUE]
      /\ proc' = [proc EXCEPT ![p].pc = "track", ![p].image = i]
      /\ UNCHANGED <<page, versions, late, experiment>> /\ proc[p].pc = "generate"
  BY DEF Upload
<1> HIDE DEF i
<1>3. /\ i \in Images /\ ~image[i].row /\ ~image[i].public /\ image[i].tracked = "no"
      /\ \A x \in Procs : i # proc[x].image /\ i \notin proc[x].list
      /\ \A n \in 1 .. Latest : versions[n].image # i
  BY <1>1 DEF Unused, Chosen
<1>4. /\ proc[p] \in ProcState /\ Ready(proc[p]) /\ proc \in [Procs -> ProcState]
      /\ image \in [Images -> Image] /\ i # NoImage /\ proc[p].list \subseteq Images
  BY <1>3, ReadyOf, Values
<1>5. /\ \A j \in Images \ T : image'[j] = image[j]
      /\ image'[i].row /\ image'[i].tracked = "no" /\ ~image'[i].public
  BY <1>2, <1>3, <1>4 DEF Image
<1>6. /\ proc'[p].pc = "track" /\ proc'[p].image = i /\ proc'[p].list = proc[p].list
      /\ \A x \in Procs \ {p} : proc'[x] = proc[x]
  BY <1>2, <1>4 DEF ProcState
<1>7. Alone'
  <2> SUFFICES ASSUME NEW x \in Procs, NEW y \in Procs,
                      proc'[x].pc \in Untracking, proc'[y].pc \in Untracking,
                      proc'[x].image = proc'[y].image, proc'[x].image # NoImage
               PROVE  x = y
    BY DEF Alone
  <2>1. CASE x # p /\ y # p
    BY <1>6, <2>1 DEF SInv, Alone
  <2>2. CASE x = p \/ y = p
    BY <1>3, <1>6, <2>2
  <2> QED BY <2>1, <2>2
<1>8. \A j \in Images \cap T : /\ ~Protected(j) /\ ~image'[j].public
                               /\ \A n \in 1 .. Latest : versions[n].image # j
  BY <1>3, <1>5 DEF Protected
<1>9. \A x \in Procs : x = p => Ready(proc[x])'
  <2>1. \A j \in proc[p].list : Managed(j)' /\ ~Protected(j)'
    BY <1>2, <1>3, <1>4, <1>5 DEF Ready, Managed, Protected, Latest
  <2> QED BY <1>4, <1>5, <1>6, <2>1 DEF Ready, Managed, Untracking
<1>10. \A x \in Procs :
         \/ Ready(proc[x])'
         \/ /\ proc'[x] = proc[x]
            /\ \A j \in Images \cap T : j # proc[x].image /\ j \notin proc[x].list
  <2> SUFFICES ASSUME NEW x \in Procs, ~Ready(proc[x])'
               PROVE  /\ proc'[x] = proc[x]
                      /\ \A j \in Images \cap T : j # proc[x].image /\ j \notin proc[x].list
    OBVIOUS
  <2>1. x # p
    BY <1>9
  <2> QED BY <1>3, <1>6, <2>1
<1>11. UNCHANGED <<page, versions, late, experiment>> /\ \A j \in Images \ T : image'[j] = image[j]
  BY <1>2, <1>5
<1> HIDE DEF T
<1> QED BY <1>7, <1>8, <1>10, <1>11, ImagesMove

\* The sweep deletes what it chose, and a day passes.
LEMMA SweepSteps ==
    ASSUME LInv, SInv,
           \/ \E p \in Procs : DeleteObjects(p) \/ DeleteRows(p)
           \/ \E i \in Images : ImageExpires(i)
    PROVE  SInv'
<1>1. /\ proc \in [Procs -> ProcState] /\ image \in [Images -> Image] /\ Alone
      /\ \A x \in Procs : Ready(proc[x]) /\ proc[x].list \subseteq Images
  BY Values DEF SInv
<1>2. ASSUME NEW p \in Procs, DeleteObjects(p) \/ DeleteRows(p) PROVE SInv'
  <2> DEFINE T == proc[p].list
  <2>1. /\ UNCHANGED <<page, versions, late, experiment>>
        /\ proc'[p].pc \notin Untracking
        /\ \A x \in Procs \ {p} : proc'[x] = proc[x]
        /\ \A j \in Images \ T : image'[j] = image[j]
    <3>1. /\ UNCHANGED <<page, versions, late, experiment>>
          /\ \A x \in Procs \ {p} : proc'[x] = proc[x]
      BY <1>1, <1>2 DEF DeleteObjects, DeleteRows, Goto, Return
    <3>2. proc'[p].pc \notin Untracking
      BY <1>1, <1>2, ReadyIdle DEF DeleteObjects, DeleteRows, Goto, Return, ProcState, Untracking
    <3>3. \A j \in Images \ T : image'[j] = image[j]
      <4> SUFFICES ASSUME NEW j \in Images, j \notin T PROVE image'[j] = image[j]
        OBVIOUS
      <4>1. image[j] \in Image
        BY <1>1
      <4>2. CASE DeleteObjects(p)
        <5>1. image'[j] = [image[j] EXCEPT !.object = image[j].object /\ TRUE]
          BY <4>2 DEF DeleteObjects
        <5>2. image[j].object \in BOOLEAN
          BY <4>1 DEF Image
        <5>3. (image[j].object /\ TRUE) = image[j].object
          BY <5>2
        <5> QED BY <4>1, <5>1, <5>3 DEF Image
      <4>3. CASE DeleteRows(p)
        BY <4>3 DEF DeleteRows
      <4> QED BY <1>2, <4>2, <4>3
    <3> QED BY <3>1, <3>2, <3>3
  <2>2. Alone'
    <3> SUFFICES ASSUME NEW x \in Procs, NEW y \in Procs,
                        proc'[x].pc \in Untracking, proc'[y].pc \in Untracking,
                        proc'[x].image = proc'[y].image, proc'[x].image # NoImage
                 PROVE  x = y
      BY DEF Alone
    <3> QED BY <1>1, <2>1 DEF Alone
  <2>3. \A j \in T : /\ j \in Images /\ Managed(j) /\ ~Protected(j)
                     /\ proc[p].pc = "rows" => ~image[j].object
    BY <1>1 DEF Ready
  <2>4. ASSUME NEW j \in T
        PROVE  /\ Managed(j)' /\ ~image'[j].object
               /\ image'[j].public => image'[j].tracked = "claimed"
    <3>1. j \in Images /\ Managed(j) /\ image[j] \in Image
          /\ (image[j].public => image[j].tracked = "claimed")
      BY <1>1, <2>3 DEF SInv, ImageInv
    <3>2. CASE DeleteObjects(p)
      <4>1. image'[j] = [image[j] EXCEPT !.object = FALSE]
        BY <3>1, <3>2 DEF DeleteObjects, Image
      <4> QED BY <3>1, <4>1 DEF Managed, Image
    <3>3. CASE DeleteRows(p)
      <4>1. image'[j] = [image[j] EXCEPT !.row = FALSE, !.public = FALSE, !.tracked = "no"]
            /\ ~image[j].object
        BY <2>3, <3>1, <3>3 DEF DeleteRows
      <4> QED BY <3>1, <4>1 DEF Managed, Image
    <3> QED BY <1>2, <3>2, <3>3
  <2>5. \A j \in Images : image'[j].object => image[j].object
    BY <2>1, <2>4
  <2>6. \A j \in Images : Managed(j) => Managed(j)'
    <3> SUFFICES ASSUME NEW j \in Images, Managed(j) PROVE Managed(j)'
      OBVIOUS
    <3>1. CASE j \in T
      BY <2>4, <3>1
    <3>2. CASE j \notin T
      BY <2>1, <3>2 DEF Managed
    <3> QED BY <3>1, <3>2
  <2>7. \A x \in Procs : x = p => Ready(proc[x])'
    <3>1. CASE DeleteRows(p)
      <4>1. proc'[p] = Idle /\ Idle.pc = "idle" /\ Idle.image = NoImage /\ Idle.list = {}
        BY <1>1, <3>1 DEF DeleteRows, Return, Idle
      <4> QED BY <4>1 DEF Ready
    <3>2. CASE DeleteObjects(p)
      <4>1. /\ proc'[p].pc = "rows" /\ proc'[p].image = proc[p].image /\ proc'[p].list = T
            /\ proc[p].pc = "objects"
        BY <1>1, <3>2 DEF DeleteObjects, Goto, ProcState
      <4>2. proc[p].image # NoImage => Managed(proc[p].image) /\ proc[p].image \in Images
        BY <1>1, <4>1, ReadyOf DEF Ready, Untracking
      <4>3. proc[p].image # NoImage =>
              /\ image'[proc[p].image].object => image'[proc[p].image].row
              /\ image'[proc[p].image].row => image'[proc[p].image].tracked # "no"
        BY <2>6, <4>2 DEF Managed
      <4>4. \A j \in T : Managed(j)' /\ ~Protected(j)' /\ ~image'[j].object
        BY <2>1, <2>3, <2>4 DEF Protected, Latest
      <4> QED BY <4>1, <4>3, <4>4 DEF Ready, Managed, Untracking
    <3> QED BY <1>2, <3>1, <3>2
  <2>8. \A x \in Procs :
           \/ Ready(proc[x])'
           \/ /\ proc'[x] = proc[x]
              /\ \A j \in Images \cap T :
                   /\ j = proc[x].image => proc[x].pc \notin Untracking /\ Managed(j)'
                   /\ j \in proc[x].list => Managed(j)' /\ (image'[j].object => image[j].object)
    <3> SUFFICES ASSUME NEW x \in Procs, ~Ready(proc[x])'
                 PROVE  /\ proc'[x] = proc[x]
                        /\ \A j \in T : (j = proc[x].image => proc[x].pc \notin Untracking)
      BY <2>4, <2>5
    <3>1. x # p
      BY <2>7
    <3>2. ASSUME NEW j \in T, j = proc[x].image PROVE proc[x].pc \notin Untracking
      <4>1. Ready(proc[x]) /\ Managed(j) /\ j # NoImage
        BY <1>1, <2>3, Values
      <4> QED BY <3>2, <4>1 DEF Ready, Managed
    <3> QED BY <2>1, <3>1, <3>2
  <2>9. \A j \in Images \cap T : /\ ~Protected(j) /\ Managed(j)'
                                 /\ image'[j].public => image'[j].tracked = "claimed"
    BY <2>3, <2>4
  <2> HIDE DEF T
  <2> QED BY <2>1, <2>2, <2>8, <2>9, ImagesMove
<1>3. ASSUME NEW i \in Images, ImageExpires(i) PROVE SInv'
  <2> DEFINE T == {i}
  <2>1. /\ image' = [image EXCEPT ![i].tracked = "expired"] /\ image[i].tracked = "fresh"
        /\ UNCHANGED <<page, versions, late, experiment, proc>>
    BY <1>3 DEF ImageExpires
  <2>2. Alone'
    BY <1>1, <2>1 DEF Alone
  <2>3. \A j \in Images \ T : image'[j] = image[j]
    BY <1>1, <2>1
  <2>4. ~image[i].public /\ ~Protected(i)
    <3>1. ~image[i].public
      BY <2>1 DEF SInv, ImageInv
    <3> QED BY <3>1, Values DEF SInv, VersionInv, VersionOK, Protected
  <2>5. /\ ~image'[i].public /\ image'[i].tracked = "expired"
        /\ image'[i].object = image[i].object /\ image'[i].row = image[i].row
    BY <1>1, <2>1, <2>4 DEF Image
  <2>6. Managed(i) => Managed(i)'
    BY <2>5 DEF Managed
  <2>7. \A n \in 1 .. Latest : versions[n].image = i => Managed(i)'
    BY <2>6, Values DEF SInv, VersionInv, VersionOK
  <2>8. \A x \in Procs :
          /\ i = proc[x].image => proc[x].pc \notin Untracking /\ Managed(i)'
          /\ i \in proc[x].list => Managed(i)' /\ (image'[i].object => image[i].object)
    <3> SUFFICES ASSUME NEW x \in Procs
                 PROVE  /\ i = proc[x].image => proc[x].pc \notin Untracking /\ Managed(i)
                        /\ i \in proc[x].list => Managed(i)
      BY <2>5, <2>6
    <3>1. Ready(proc[x]) /\ i # NoImage /\ image[i].tracked # "no"
      BY <1>1, <2>1, Values
    <3> QED BY <3>1 DEF Ready
  <2>9. \A x \in Procs :
          /\ proc'[x] = proc[x]
          /\ \A j \in Images \cap T :
               /\ j = proc[x].image => proc[x].pc \notin Untracking /\ Managed(j)'
               /\ j \in proc[x].list => Managed(j)' /\ (image'[j].object => image[j].object)
    BY <2>1, <2>8
  <2>10. /\ \A j \in Images \cap T : /\ ~Protected(j)
                                     /\ image'[j].public => image'[j].tracked = "claimed"
         /\ \A j \in Images \cap T, n \in 1 .. Latest : versions[n].image = j => Managed(j)'
    BY <2>4, <2>5, <2>7
  <2> HIDE DEF T
  <2> QED BY <2>1, <2>2, <2>3, <2>9, <2>10, ImagesMove
<1> QED BY <1>2, <1>3

\* A step that writes versions or the page and leaves the others what they rely on.
LEMMA TablesMove ==
    ASSUME LInv, SInv, NEW p \in Procs,
           VersionInv', ImageInv', PointerInv',
           page.live # None => page'.live # None,
           \A n \in 1 .. Latest : /\ versions'[n].document = versions[n].document
                                  /\ versions[n].published => versions'[n].published,
           \A i \in Images : /\ Managed(i) => Managed(i)'
                             /\ Chosen(i) /\ Protected(i)' => Protected(i)
                             /\ image'[i].object => image[i].object
                             /\ image[i].row => image'[i].row
                             /\ image[i].tracked = "no" => image'[i].tracked = "no",
           \A x \in Procs \ {p} : proc'[x] = proc[x],
           proc'[p].pc \notin Untracking,
           \A x \in Procs : x = p => Ready(proc[x])'
    PROVE  SInv'
<1>1. Alone'
  <2> SUFFICES ASSUME NEW x \in Procs, NEW y \in Procs,
                      proc'[x].pc \in Untracking, proc'[y].pc \in Untracking,
                      proc'[x].image = proc'[y].image, proc'[x].image # NoImage
               PROVE  x = y
    BY DEF Alone
  <2>1. x # p /\ y # p /\ Alone
    BY DEF SInv
  <2> QED BY <2>1 DEF Alone
<1>2. ASSUME NEW x \in Procs, x # p PROVE Ready(proc[x])'
  <2>1. /\ Ready(proc[x]) /\ proc[x].list \subseteq Images /\ proc'[x] = proc[x]
        /\ proc[x].image \in Images \cup {NoImage}
    BY <1>2, ReadyOf
  <2>2. \A i \in proc[x].list : Chosen(i) /\ i \in Images /\ ~Protected(i)
    BY <2>1 DEF Chosen, Ready
  <2>3. \A i \in proc[x].list : ~Protected(i)' /\ (image'[i].object => image[i].object)
    BY <2>2
  <2>4. proc[x].image # NoImage /\ proc[x].pc \in Untracking =>
             image'[proc[x].image].row /\ image'[proc[x].image].tracked = "no"
    BY <2>1 DEF Ready
  <2> QED BY <2>1, <2>3, <2>4, StaysReady
<1>3. \A x \in Procs : Ready(proc[x])'
  <2> SUFFICES ASSUME NEW x \in Procs, ~Ready(proc[x])' PROVE FALSE
    OBVIOUS
  <2>1. x # p
    OBVIOUS
  <2> QED BY <1>2, <2>1
<1> QED BY <1>1, <1>3 DEF SInv

\* What the claim of an image changes.
LEMMA ClaimKeeps ==
    ASSUME LInv, NEW i \in Images, NEW j \in Images
    PROVE  /\ Claimed(i)[j].row = image[j].row /\ Claimed(i)[j].object = image[j].object
           /\ Claimed(i)[j].public = image[j].public
           /\ Claimed(i)[j].tracked
                = IF j = i /\ image[j].tracked # "no" THEN "claimed" ELSE image[j].tracked
<1>1. image \in [Images -> Image] /\ image[j] \in Image /\ image[i] \in Image
  BY Values
<1>2. Claimed(i)[j] = IF j = i THEN [image[j] EXCEPT !.tracked =
                                       IF @ \in {"fresh", "expired"} THEN "claimed" ELSE @]
                      ELSE image[j]
  BY <1>1 DEF Claimed
<1> QED BY <1>1, <1>2 DEF Image

LEMMA ApplyStep == ASSUME LandingAssumption, LInv, SInv, NEW p \in Procs, Apply(p) PROVE SInv'
<1> DEFINE i == proc[p].image
<1>1. /\ Latest' = Latest + 1 /\ Latest \in Nat
      /\ \A n \in 1 .. Latest : versions'[n] = versions[n]
      /\ versions'[Latest + 1].document /\ ~versions'[Latest + 1].published
      /\ versions'[Latest + 1].forms = 0 /\ versions'[Latest + 1].image = i
      /\ \A n \in 1 .. Latest + 1 : n \in 1 .. Latest \/ n = Latest + 1
  <2>1. /\ Latest' = Latest + 1 /\ Latest \in Nat
        /\ \A n \in 1 .. Latest : versions'[n] = versions[n]
        /\ versions'[Latest + 1] =
             [document |-> TRUE, by |-> proc[p].request, on |-> proc[p].base,
              image |-> i, published |-> FALSE, forms |-> 0]
    BY ApplyType, Values
  <2>2. \A n \in 1 .. Latest + 1 : n \in 1 .. Latest \/ n = Latest + 1
    BY <2>1
  <2> QED BY <2>1, <2>2
<1>2. /\ proc[p].pc = "commit" /\ UNCHANGED experiment
      /\ page' = [page EXCEPT !.current = Latest + 1]
      /\ image' = IF i = NoImage THEN image ELSE Claimed(i)
      /\ late \subseteq late' /\ (Return(p) \/ Fail(p, "retryable"))
  BY DEF Apply, WriteVersion
<1>3. /\ page \in Page /\ proc \in [Procs -> ProcState] /\ proc[p] \in ProcState
      /\ Ready(proc[p]) /\ i \in Images \cup {NoImage} /\ NoImage \notin Images
      /\ proc[p].list \subseteq Images /\ experiment.variants \subseteq 1 .. Latest
      /\ VersionInv /\ ImageInv /\ PointerInv
      /\ \A n \in 1 .. Latest : versions[n].image \in Images \cup {NoImage}
  BY ReadyOf, Values DEF SInv
<1>4. i # NoImage => Managed(i)
  BY <1>2, <1>3 DEF Ready, Untracking
<1>5. \A j \in Images : /\ image'[j].row = image[j].row /\ image'[j].object = image[j].object
                        /\ image'[j].public = image[j].public
                        /\ image'[j].tracked = "no" <=> image[j].tracked = "no"
                        /\ image[j].tracked = "claimed" => image'[j].tracked = "claimed"
  <2>1. CASE i = NoImage
    BY <1>2, <2>1
  <2>2. CASE i \in Images
    BY <1>2, <1>3, <2>2, ClaimKeeps
  <2> QED BY <1>3, <2>1, <2>2
<1>6. \A j \in Images : Managed(j) => Managed(j)'
  BY <1>5 DEF Managed
<1>7. \A j \in Images : Protected(j)' => Protected(j)
  <2> SUFFICES ASSUME NEW j \in Images, Protected(j)' PROVE Protected(j)
    OBVIOUS
  <2>1. PICK n \in 1 .. Latest' : versions'[n].published /\ versions'[n].image = j
    BY DEF Protected
  <2>2. n \in 1 .. Latest /\ j \notin late
    BY <1>1, <1>2, <2>1 DEF Protected
  <2> QED BY <1>1, <2>1, <2>2 DEF Protected
<1>8. VersionInv'
  <2>1. ASSUME NEW n \in 1 .. Latest PROVE VersionOK(n)'
    <3>1. VersionOK(n) /\ versions'[n] = versions[n] /\ versions[n].image \in Images \cup {NoImage}
      BY <1>1, <1>3 DEF VersionInv
    <3>2. versions[n].image # NoImage => Managed(versions[n].image)
      BY <3>1 DEF VersionOK
    <3>3. versions[n].image # NoImage =>
            /\ image'[versions[n].image].object => image'[versions[n].image].row
            /\ image'[versions[n].image].row => image'[versions[n].image].tracked # "no"
      BY <1>5, <3>1, <3>2 DEF Managed
    <3> QED BY <1>2, <1>5, <3>1, <3>3 DEF VersionOK, Managed
  <2>2. i # NoImage => /\ image'[i].object => image'[i].row
                       /\ image'[i].row => image'[i].tracked # "no"
    BY <1>3, <1>4, <1>5 DEF Managed
  <2>3. \A n : n = Latest + 1 => VersionOK(n)'
    BY <1>1, <2>2 DEF VersionOK, Managed
  <2> QED BY <1>1, <2>1, <2>3 DEF VersionInv
<1>9. ImageInv'
  BY <1>3, <1>5 DEF ImageInv
<1>10. page'.live = page.live /\ page'.status = page.status
  BY <1>2, <1>3 DEF Page
<1>11. PointerInv'
  BY <1>1, <1>2, <1>3, <1>10 DEF PointerInv
<1>12. /\ \A x \in Procs \ {p} : proc'[x] = proc[x]
       /\ proc'[p].pc \in {"idle", "finish"}
       /\ proc'[p].image \in {i, NoImage} /\ proc'[p].list \in {proc[p].list, {}}
  BY <1>2, <1>3 DEF Return, Fail, ProcState, Idle
<1>13. \A x \in Procs : x = p => Ready(proc[x])'
  <2>1. i # NoImage => /\ image'[i].object => image'[i].row
                       /\ image'[i].row => image'[i].tracked # "no"
    BY <1>3, <1>4, <1>5 DEF Managed
  <2>2. \A j \in proc[p].list : Managed(j)' /\ ~Protected(j)'
    BY <1>3, <1>6, <1>7 DEF Ready
  <2> QED BY <1>12, <2>1, <2>2 DEF Ready, Managed, Untracking
<1>14. proc'[p].pc \notin Untracking
  BY <1>12 DEF Untracking
<1> QED BY <1>1, <1>5, <1>6, <1>7, <1>8, <1>9, <1>10, <1>11, <1>12, <1>13, <1>14, TablesMove

LEMMA SaveStep == ASSUME LandingAssumption, LInv, SInv, NEW p \in Procs, Save(p) PROVE SInv'
<1> DEFINE i == proc[p].image
           edit == proc[p].edit
           served == edit.status = "published"
<1>1. /\ Latest' = Latest + 1 /\ Latest \in Nat
      /\ \A n \in 1 .. Latest : versions'[n] = versions[n]
      /\ versions'[Latest + 1].document = (edit.kind # "content")
      /\ versions'[Latest + 1].published = served
      /\ versions'[Latest + 1].forms = 0 /\ versions'[Latest + 1].image = i
      /\ \A n \in 1 .. Latest + 1 : n \in 1 .. Latest \/ n = Latest + 1
  <2>1. /\ Latest' = Latest + 1 /\ Latest \in Nat
        /\ \A n \in 1 .. Latest : versions'[n] = versions[n]
        /\ versions'[Latest + 1] =
             [document |-> edit.kind # "content", by |-> None, on |-> proc[p].on,
              image |-> i, published |-> served, forms |-> 0]
    BY SaveType, Values
  <2>2. \A n \in 1 .. Latest + 1 : n \in 1 .. Latest \/ n = Latest + 1
    BY <2>1
  <2> QED BY <2>1, <2>2
<1>2. /\ proc[p].pc = "save" /\ UNCHANGED <<image, late, experiment>> /\ Return(p)
      /\ page' = [status |-> IF edit.kind = "content" THEN edit.status ELSE proc[p].status,
                  current |-> Latest + 1,
                  live |-> IF served THEN Latest + 1 ELSE page.live]
  BY DEF Save, WriteEdit
<1>3. /\ page \in Page /\ proc \in [Procs -> ProcState] /\ proc[p] \in ProcState
      /\ Ready(proc[p]) /\ i \in Images \cup {NoImage} /\ NoImage \notin Images
      /\ experiment.variants \subseteq 1 .. Latest
      /\ VersionInv /\ ImageInv /\ PointerInv
      /\ \A n \in 1 .. Latest : versions[n].image \in Images \cup {NoImage}
      /\ edit \in Edits /\ (edit.kind = "content" => i = NoImage)
  <2>1. edit \in Edits /\ (edit.kind = "content" => i = NoImage)
    BY <1>2, ReadyOf DEF Fits
  <2> QED BY <2>1, ReadyOf, Values DEF SInv
\* Only the older kind of content says that it is to be published.
<1>4. served => edit.kind = "content" /\ i = NoImage
  BY <1>3 DEF LandingAssumption, Edit
<1>5. i # NoImage => Managed(i)
  BY <1>2, <1>3 DEF Ready, Untracking
<1>6. /\ \A x \in Procs \ {p} : proc'[x] = proc[x]
      /\ proc'[p].pc = "idle" /\ proc'[p].image = NoImage /\ proc'[p].list = {}
  BY <1>2, <1>3 DEF Return, Idle
<1>7. \A j \in Images : Protected(j)' => Protected(j)
  <2> SUFFICES ASSUME NEW j \in Images, Protected(j)' PROVE Protected(j)
    OBVIOUS
  <2>1. PICK n \in 1 .. Latest' : versions'[n].published /\ versions'[n].image = j
    BY DEF Protected
  <2>2. n \in 1 .. Latest /\ j \notin late
    BY <1>1, <1>2, <1>3, <1>4, <2>1 DEF Protected
  <2> QED BY <1>1, <2>1, <2>2 DEF Protected
<1>8. VersionInv'
  <2>1. ASSUME NEW n \in 1 .. Latest PROVE VersionOK(n)'
    <3>1. VersionOK(n) /\ versions'[n] = versions[n]
      BY <1>1, <1>3 DEF VersionInv
    <3> QED BY <1>2, <3>1 DEF VersionOK, Managed
  <2>2. \A n : n = Latest + 1 => VersionOK(n)'
    BY <1>1, <1>2, <1>3, <1>4, <1>5 DEF VersionOK, Managed
  <2> QED BY <1>1, <2>1, <2>2 DEF VersionInv
<1>9. ImageInv'
  BY <1>2, <1>3 DEF ImageInv
<1>10. page.live # None => page'.live # None
  BY <1>1, <1>2 DEF LandingAssumption
<1>11. PointerInv'
  <2>1. page'.live # None => page'.live \in 1 .. Latest' /\ versions'[page'.live].published
    <3>1. CASE served
      <4>1. page'.live = Latest + 1 /\ Latest + 1 \in 1 .. Latest'
        BY <1>1, <1>2, <3>1
      <4> QED BY <1>1, <3>1, <4>1
    <3>2. CASE ~served
      <4>1. page'.live = page.live
        BY <1>2, <3>2
      <4>2. page.live # None => page.live \in 1 .. Latest /\ versions[page.live].published
        BY <1>3 DEF PointerInv
      <4> QED BY <1>1, <4>1, <4>2
    <3> QED BY <3>1, <3>2
  <2>2. page'.status = "published" => page'.live # None
    <3>1. CASE edit.kind # "content"
      <4>1. page'.status = proc[p].status
        BY <1>2, <3>1
      <4>2. proc[p].status = "published" => page.live # None
        BY <1>2, <1>3 DEF Ready
      <4> QED BY <1>10, <4>1, <4>2
    <3>2. CASE edit.kind = "content"
      BY <1>1, <1>2, <1>3, <3>2 DEF LandingAssumption, Edit
    <3> QED BY <3>1, <3>2
  <2>3. \A n \in experiment'.variants : versions'[n].published
    BY <1>1, <1>2, <1>3 DEF PointerInv
  <2> QED BY <2>1, <2>2, <2>3 DEF PointerInv
<1>12. \A x \in Procs : x = p => Ready(proc[x])'
  BY <1>6 DEF Ready
<1>13. proc'[p].pc \notin Untracking
  BY <1>6 DEF Untracking
<1>14. \A j \in Images : Managed(j) => Managed(j)'
  BY <1>2 DEF Managed
<1> QED BY <1>1, <1>2, <1>6, <1>7, <1>8, <1>9, <1>10, <1>11, <1>12, <1>13, <1>14, TablesMove

\* The writes of an experiment and the archive.
LEMMA PointerSteps ==
    ASSUME LandingAssumption, LInv, SInv,
           \/ \E p \in Procs : Start(p) \/ End(p)
           \/ \E m, n \in Numbers : CreateExperiment(m, n)
           \/ Archive
    PROVE  SInv'
<1>1. UNCHANGED <<versions, image, late>> /\ Latest' = Latest
  BY DEF Start, End, CreateExperiment, Archive, Latest
<1>2. /\ page \in Page /\ experiment \in Experiment /\ experiment.variants \subseteq 1 .. Latest
      /\ proc \in [Procs -> ProcState] /\ VersionInv /\ ImageInv /\ PointerInv /\ Alone
  BY Values DEF SInv
<1>3. VersionInv' /\ ImageInv'
  BY <1>1, <1>2 DEF VersionInv, VersionOK, Managed, ImageInv
<1>4. ASSUME NEW p \in Procs, Return(p), PointerInv', page.live # None => page'.live # None
      PROVE  SInv'
  <2>1. /\ \A x \in Procs \ {p} : proc'[x] = proc[x]
        /\ proc'[p].pc = "idle" /\ proc'[p].image = NoImage /\ proc'[p].list = {}
    BY <1>2, <1>4 DEF Return, Idle
  <2>2. /\ \A x \in Procs : x = p => Ready(proc[x])'
        /\ proc'[p].pc \notin Untracking
    BY <2>1 DEF Ready, Untracking
  <2>3. \A j \in Images : (Managed(j) => Managed(j)') /\ (Protected(j)' => Protected(j))
    BY <1>1 DEF Managed, Protected
  <2> QED BY <1>1, <1>3, <1>4, <2>1, <2>2, <2>3, TablesMove
<1>5. ASSUME proc' = proc, PointerInv', page.live # None => page'.live # None PROVE SInv'
  <2>1. Alone'
    BY <1>2, <1>5 DEF Alone
  <2>2. \A x \in Procs : Ready(proc[x])'
    <3> SUFFICES ASSUME NEW x \in Procs PROVE Ready(proc[x])'
      OBVIOUS
    <3> QED BY <1>1, <1>5, ReadyOf DEF Ready, Managed, Protected
  <2> QED BY <1>3, <1>5, <2>1, <2>2 DEF SInv
<1>6. ASSUME NEW p \in Procs, Start(p) PROVE SInv'
  <2>1. experiment'.variants = experiment.variants
    BY <1>2, <1>6 DEF Start, Experiment
  <2>2. PointerInv'
    BY <1>1, <1>2, <1>6, <2>1 DEF Start, PointerInv
  <2> QED BY <1>4, <1>6, <2>2 DEF Start
<1>7. ASSUME NEW p \in Procs, End(p) PROVE SInv'
  <2> DEFINE winner == proc[p].version
  <2>1. /\ experiment'.variants = experiment.variants /\ proc[p].pc = "end"
        /\ page' = IF winner = None THEN page ELSE [page EXCEPT !.live = winner]
        /\ Return(p) /\ (winner # None => Won(p))
    BY <1>2, <1>7 DEF End, Experiment
  <2>2. winner # None => winner \in 1 .. Latest /\ versions[winner].published
    BY <2>1, ReadyOf DEF Ready, Fits
  <2>3. page.live # None => page'.live # None
    BY <1>2, <2>1 DEF Page
  <2>4. PointerInv'
    <3>1. CASE winner = None
      BY <1>1, <1>2, <2>1, <3>1 DEF PointerInv
    <3>2. CASE winner # None
      <4>1. page'.live = winner
        BY <1>2, <2>1, <3>2 DEF Page
      <4> QED BY <1>1, <1>2, <2>1, <2>2, <3>2, <4>1 DEF PointerInv
    <3> QED BY <3>1, <3>2
  <2> QED BY <1>4, <2>1, <2>3, <2>4
<1>8. ASSUME NEW m \in Numbers, NEW n \in Numbers, CreateExperiment(m, n) PROVE SInv'
  <2>1. experiment'.variants = {m, n} /\ page' = page /\ proc' = proc
        /\ \A v \in {m, n} : versions[v].published
    BY <1>8 DEF CreateExperiment
  <2>2. PointerInv'
    BY <1>1, <1>2, <2>1 DEF PointerInv
  <2> QED BY <1>5, <2>1, <2>2
<1>9. ASSUME Archive PROVE SInv'
  <2>1. page'.live = page.live /\ page'.status = "archived" /\ experiment' = experiment
        /\ proc' = proc
    BY <1>2, <1>9 DEF Archive, Page
  <2>2. PointerInv'
    BY <1>1, <1>2, <2>1 DEF PointerInv
  <2> QED BY <1>5, <2>1, <2>2
<1> QED BY <1>6, <1>7, <1>8, <1>9

LEMMA PublishStep ==
    ASSUME LandingAssumption, LInv, SInv, NEW p \in Procs, Publish(p)
    PROVE  SInv'
<1> DEFINE n == proc[p].version
           i == versions[n].image
<1>1. /\ proc[p].pc = "publish" /\ UNCHANGED experiment /\ Return(p)
      /\ versions[n].published = proc[p].seen
      /\ page' = [page EXCEPT !.status = "published", !.live = n]
      /\ image' = IF i = NoImage \/ ~image[i].row THEN image
                  ELSE [Claimed(i) EXCEPT ![i].public = TRUE]
      /\ late' = IF ClaimedLate(i) THEN late \cup {i} ELSE late
  BY DEF Publish, Published
<1>2. /\ page \in Page /\ proc \in [Procs -> ProcState] /\ proc[p] \in ProcState
      /\ Ready(proc[p]) /\ NoImage \notin Images /\ image \in [Images -> Image]
      /\ experiment.variants \subseteq 1 .. Latest
      /\ VersionInv /\ ImageInv /\ PointerInv
      /\ \A m \in 1 .. Latest : versions[m].image \in Images \cup {NoImage}
      /\ n \in 1 .. Latest /\ n # None /\ VersionOK(n) /\ versions[n].document
      /\ \A m \in 1 .. Latest : versions[m] \in Version
  <2>1. n \in 1 .. Latest /\ versions[n].document
    BY <1>1, ReadyOf DEF Fits, Ready
  <2>2. n # None
    BY <2>1, Values DEF LandingAssumption
  <2> QED BY <2>1, <2>2, ReadyOf, Values DEF SInv, VersionInv
<1>3. /\ Latest' = Latest
      /\ \A m \in 1 .. Latest \ {n} : versions'[m] = versions[m]
      /\ versions'[n].published /\ versions'[n].forms = 1
      /\ \A m \in 1 .. Latest : /\ versions'[m].document = versions[m].document
                                /\ versions'[m].image = versions[m].image
                                /\ versions[m].published => versions'[m].published
  <2>1. /\ Latest' = Latest
        /\ \A m \in 1 .. Latest :
             versions'[m] = IF m # n THEN versions[m]
                            ELSE [versions[m] EXCEPT !.published = TRUE,
                                                     !.forms = IF proc[p].seen THEN @ ELSE @ + 1]
    BY PublishType
  <2>2. /\ versions'[n].published /\ versions'[n].document = versions[n].document
        /\ versions'[n].image = i
        /\ versions'[n].forms = IF proc[p].seen THEN versions[n].forms ELSE versions[n].forms + 1
    <3> DEFINE forms == IF proc[p].seen THEN versions[n].forms ELSE versions[n].forms + 1
    <3>1. versions'[n] = [versions[n] EXCEPT !.published = TRUE, !.forms = forms]
      BY <1>2, <2>1
    <3> HIDE DEF forms
    <3>2. versions[n] \in Version
      BY <1>2
    <3>3. /\ versions'[n].published /\ versions'[n].document = versions[n].document
          /\ versions'[n].image = i /\ versions'[n].forms = forms
      BY <3>1, <3>2 DEF Version
    <3> QED BY <3>3 DEF forms
  <2>3. versions'[n].forms = 1
    BY <1>1, <1>2, <2>2 DEF VersionOK
  <2> QED BY <1>2, <2>1, <2>2, <2>3
<1>4. /\ i \in Images \cup {NoImage}
      /\ i # NoImage => Managed(i)
      /\ late \subseteq late' /\ late' \subseteq late \cup {i}
  BY <1>1, <1>2 DEF VersionOK
\* Either the image is there and nobody is about to delete it, or its claim comes late.
<1>5. i # NoImage /\ i \notin late' => image[i].row /\ image[i].object /\ ~Chosen(i)
  BY <1>1, <1>4 DEF ClaimedLate, Managed
<1>6. \A j \in Images :
        /\ image'[j].row = image[j].row /\ image'[j].object = image[j].object
        /\ image[j].public => image'[j].public
        /\ j # i => image'[j] = image[j]
        /\ image'[j].tracked = "no" <=> image[j].tracked = "no"
        /\ image[j].tracked = "claimed" => image'[j].tracked = "claimed"
        /\ j = i /\ image[i].row => image'[i].public /\ image'[i].tracked = "claimed"
  <2>1. CASE i = NoImage \/ ~image[i].row
    BY <1>1, <1>2, <2>1
  <2>2. CASE i \in Images /\ image[i].row
    <3> SUFFICES ASSUME NEW j \in Images
                 PROVE  /\ image'[j].row = image[j].row /\ image'[j].object = image[j].object
                        /\ image[j].public => image'[j].public
                        /\ j # i => image'[j] = image[j]
                        /\ image'[j].tracked = "no" <=> image[j].tracked = "no"
                        /\ image[j].tracked = "claimed" => image'[j].tracked = "claimed"
                        /\ j = i => image'[i].public /\ image'[i].tracked = "claimed"
      OBVIOUS
    <3>1. /\ image' = [Claimed(i) EXCEPT ![i].public = TRUE] /\ image[i].tracked # "no"
      BY <1>1, <1>2, <1>4, <2>2 DEF Managed
    <3>2. CASE j # i
      <4>1. image'[j] = image[j]
        BY <1>2, <2>2, <3>1, <3>2 DEF Claimed
      <4> QED BY <3>2, <4>1
    <3>3. CASE j = i
      <4>1. image[i] \in Image
        BY <1>2, <2>2
      <4>2. image'[i] = [image[i] EXCEPT !.tracked = "claimed", !.public = TRUE]
        <5> DEFINE c == [image[i] EXCEPT !.tracked =
                           IF @ \in {"fresh", "expired"} THEN "claimed" ELSE @]
        <5>1. Claimed(i) = [image EXCEPT ![i] = c]
          BY DEF Claimed
        <5>2. Claimed(i)[i] = c /\ DOMAIN Claimed(i) = Images
          BY <1>2, <2>2, <5>1
        <5>3. c = [image[i] EXCEPT !.tracked = "claimed"]
          BY <3>1, <4>1 DEF Image
        <5>4. image'[i] = [c EXCEPT !.public = TRUE]
          BY <2>2, <3>1, <5>2
        <5> QED BY <4>1, <5>3, <5>4 DEF Image
      <4>3. /\ image'[i].row = image[i].row /\ image'[i].object = image[i].object
            /\ image'[i].public = TRUE /\ image'[i].tracked = "claimed"
        BY <4>1, <4>2 DEF Image
      <4> HIDE DEF i
      <4> QED BY <3>1, <3>3, <4>3
    <3> QED BY <3>2, <3>3
  <2> QED BY <1>4, <2>1, <2>2
<1>7. \A j \in Images : Managed(j) => Managed(j)'
  BY <1>6 DEF Managed
<1>8. \A j \in Images : Chosen(j) /\ Protected(j)' => Protected(j)
  <2> SUFFICES ASSUME NEW j \in Images, Chosen(j), Protected(j)' PROVE Protected(j)
    OBVIOUS
  <2>1. PICK m \in 1 .. Latest : versions'[m].published /\ versions'[m].image = j
    BY <1>3 DEF Protected
  <2>2. j \notin late' /\ j # NoImage
    BY <1>2 DEF Protected
  <2>3. m # n
    BY <1>3, <1>5, <2>1, <2>2
  <2>4. versions'[m] = versions[m] /\ j \notin late
    BY <1>3, <1>4, <2>2, <2>3
  <2> QED BY <2>1, <2>4 DEF Protected
<1>9. VersionInv'
  <2>1. ASSUME NEW m \in 1 .. Latest, m # n PROVE VersionOK(m)'
    <3>1. VersionOK(m) /\ versions'[m] = versions[m] /\ versions[m].image \in Images \cup {NoImage}
      BY <1>2, <1>3, <2>1 DEF VersionInv
    <3>2. versions[m].image # NoImage =>
            /\ image'[versions[m].image].object => image'[versions[m].image].row
            /\ image'[versions[m].image].row => image'[versions[m].image].tracked # "no"
      BY <1>6, <3>1 DEF VersionOK, Managed
    <3> QED BY <1>4, <1>6, <3>1, <3>2 DEF VersionOK, Managed
  <2>2. i # NoImage =>
          /\ image'[i].object => image'[i].row
          /\ image'[i].row => image'[i].tracked # "no"
          /\ i \notin late' => image'[i].public /\ image'[i].row /\ image'[i].object
    BY <1>4, <1>5, <1>6 DEF Managed
  <2>3. \A m : m = n => VersionOK(m)'
    BY <1>2, <1>3, <2>2 DEF VersionOK, Managed
  <2> QED BY <1>2, <1>3, <2>1, <2>3 DEF VersionInv
<1>10. ImageInv'
  <2> SUFFICES ASSUME NEW j \in Images, image'[j].public PROVE image'[j].tracked = "claimed"
    BY DEF ImageInv
  <2>1. CASE j # i
    BY <1>2, <1>6, <2>1 DEF ImageInv
  <2>2. CASE j = i /\ image[i].row
    BY <1>6, <2>2
  <2>3. CASE j = i /\ ~image[i].row
    BY <1>1, <1>2, <2>3 DEF ImageInv
  <2> QED BY <2>1, <2>2, <2>3
<1>11. page'.live = n /\ experiment' = experiment
  BY <1>1, <1>2 DEF Page
<1>12. PointerInv'
  BY <1>2, <1>3, <1>11 DEF PointerInv
<1>13. /\ \A x \in Procs \ {p} : proc'[x] = proc[x]
       /\ proc'[p].pc = "idle" /\ proc'[p].image = NoImage /\ proc'[p].list = {}
  BY <1>1, <1>2 DEF Return, Idle
<1>14. \A x \in Procs : x = p => Ready(proc[x])'
  BY <1>13 DEF Ready
<1>15. proc'[p].pc \notin Untracking
  BY <1>13 DEF Untracking
<1> QED BY <1>2, <1>3, <1>6, <1>7, <1>8, <1>9, <1>10, <1>11, <1>12, <1>13, <1>14, <1>15, TablesMove

LEMMA NextSInv == ASSUME LandingAssumption, LInv, SInv, [Next]_vars PROVE SInv'
<1>1. ASSUME NEW p \in Procs, Worker(p) PROVE SInv'
  BY <1>1, ReadSteps, UploadStep, HolderSteps, ApplyStep DEF Worker
<1>2. ASSUME NEW p \in Procs, Editor(p) PROVE SInv'
  BY <1>2, ReadSteps, SaveStep, PublishStep, PointerSteps DEF Editor
<1>3. ASSUME NEW p \in Procs, Sweep(p) \/ Crash(p) PROVE SInv'
  BY <1>3, ReadSteps, SweepSteps DEF Sweep
<1>4. ASSUME UNCHANGED <<page, versions, image, late, experiment, proc>> PROVE SInv'
  <2>1. Latest' = Latest
    BY <1>4 DEF Latest
  <2>2. VersionInv' /\ ImageInv' /\ PointerInv' /\ Alone'
    BY <1>4, <2>1 DEF SInv, VersionInv, VersionOK, Managed, ImageInv, PointerInv, Alone
  <2>3. \A x \in Procs : Ready(proc[x])'
    <3> SUFFICES ASSUME NEW x \in Procs PROVE Ready(proc[x])'
      OBVIOUS
    <3> QED BY <1>4, <2>1, ReadyOf DEF Ready, Managed, Protected
  <2> QED BY <2>2, <2>3 DEF SInv
<1>5. ASSUME NEW r \in Requests, Retry(r) \/ LeaseExpires(r) PROVE SInv'
  BY <1>4, <1>5 DEF Retry, LeaseExpires
<1>6. CASE UNCHANGED vars
  BY <1>4, <1>6 DEF vars
<1> QED BY <1>1, <1>2, <1>3, <1>5, <1>6, SweepSteps, PointerSteps DEF Next

LEMMA Served == ASSUME LInv, SInv PROVE ServedIsComplete
<1>1. ASSUME NEW n \in 1 .. Latest, versions[n].published PROVE Complete(n)
  BY <1>1 DEF SInv, VersionInv, VersionOK, Complete
<1>2. page.status = "published" => page.live # None /\ Complete(page.live)
  BY <1>1 DEF SInv, PointerInv
<1>3. \A n \in experiment.variants : Complete(n)
  BY <1>1, Values DEF SInv, PointerInv
<1> QED BY <1>2, <1>3 DEF ServedIsComplete

\* What visitors are served was published as a whole: the live version of a
\* published page and the variants of a running experiment have their form
\* snapshots exactly once, and the image they show is public and stored, unless
\* the sweep had chosen it before it was claimed.
THEOREM ServedComplete == ASSUME LandingAssumption PROVE Spec => []ServedIsComplete
<1>1. Init => SInv
  BY InitSInv
<1>2. LInv /\ SInv /\ [Next]_vars => SInv'
  BY NextSInv
<1>3. LInv /\ SInv => ServedIsComplete
  BY Served
<1> QED BY <1>1, <1>2, <1>3, AlwaysLInv, PTL DEF Spec
=============================================================================
