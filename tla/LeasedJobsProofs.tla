--------------------------- MODULE LeasedJobsProofs ---------------------------
(***************************************************************************)
(* The jobs that are done in parts under a lease.  Safety of               *)
(* ContactImports for every file, every number of parts and tries and      *)
(* every set of invocations, and that it implements ImportLedger; then the *)
(* same of CloneJobs, for every number of rows and every size of a chunk,  *)
(* and CloneOnce; and of ProgramMembers, for all definitions, commands and *)
(* files, and ProgramLedger.                                               *)
(***************************************************************************)
EXTENDS ContactImports, Sequences, FiniteSetTheorems, WellFoundedInduction, TLAPS

\* What a part's row says hangs together: one that waits has a try left and nothing
\* inserted, a lease is named by the attempt, only what was inserted is completed and
\* only what was not can fail, and only a completed part is published.
Sound(q) ==
    /\ q.status = "pending" => q.attempts < AttemptLimit /\ ~q.inserted
    /\ q.status = "processing" => q.lease = q.attempts /\ q.lease # 0
    /\ q.status = "completed" => q.inserted
    /\ q.status \in {"absent", "failed"} => ~q.inserted
    /\ ~q.inserted => q.ids = {}
    /\ q.published => q.status = "completed"

\* The parts are taken in order: those before the cursor are completed, those after it
\* do not exist, and the one at the cursor is what the job is.
Ordered ==
    /\ \A n \in Parts :
         /\ n < job.cursor => part[n].status = "completed"
         /\ n > job.cursor => part[n].status = "absent"
         /\ n = job.cursor =>
              /\ Active => part[n].status \in {"pending", "processing"}
              /\ job.status \in {"absent", "failed"} => part[n].status = job.status
    /\ job.status = "completed" <=> job.cursor = TotalParts
    /\ job.status = "absent" => job.cursor = 0

Typed ==
    /\ job \in Job
    /\ part \in [Parts -> Part]
    /\ contact \subseteq Rows /\ reconciled \subseteq Rows
    /\ holder \in [Keys -> Rows \cup {None, Other}]

\* The rows of a part that are contacts are those it recorded.
Evident == \A n \in Parts : part[n].ids = RowsOf[n] \cap contact

DataInv == Typed /\ Ordered /\ (\A n \in Parts : Sound(part[n])) /\ Evident /\ PublishedWasSent

\* What an invocation may still rely on, of the parts and of what was sent.
Fits(q, parts, sent) ==
    /\ q.pc \in {"deadLive", "deadExpired", "dead"} => parts[q.part].status # "absent"
    /\ q.pc \in {"publish", "published", "send", "sent"} => parts[q.part].status = "completed"
    /\ q.pc \in {"published", "sent"} => parts[q.part].ids \subseteq sent

Local == \A p \in Procs : Fits(proc[p], part, reconciled)

ImportInv == DataInv /\ proc \in [Procs -> ProcState] /\ Local

-----------------------------------------------------------------------------
(* Invocations                                                             *)

\* No step takes away what an invocation relies on.
Grows ==
    /\ \A n \in Parts :
         /\ part[n].status # "absent" => part'[n].status # "absent"
         /\ part[n].status = "completed" =>
              part'[n].status = "completed" /\ part'[n].ids = part[n].ids
    /\ reconciled \subseteq reconciled'

LEMMA StillFits ==
    ASSUME ImportInv, Grows, NEW p \in Procs
    PROVE  Fits(proc[p], part', reconciled')
<1>1. Fits(proc[p], part, reconciled) /\ proc[p] \in ProcState /\ proc[p].part \in Parts
  BY DEF ImportInv, Local, ProcState
<1> QED BY <1>1 DEF Grows, Fits

LEMMA Stayed ==
    ASSUME ImportInv, Grows, UNCHANGED proc
    PROVE  proc' \in [Procs -> ProcState] /\ Local'
<1>1. \A p \in Procs : Fits(proc[p], part', reconciled')
  BY StillFits
<1> QED BY <1>1 DEF ImportInv, Local

LEMMA Moved ==
    ASSUME ImportInv, Grows, NEW p \in Procs, NEW q \in ProcState, Fits(q, part', reconciled'),
           proc' = [proc EXCEPT ![p] = q]
    PROVE  proc' \in [Procs -> ProcState] /\ Local'
<1>1. \A x \in Procs : Fits(proc[x], part', reconciled')
  BY StillFits
<1>2. proc' \in [Procs -> ProcState] /\ \A x \in Procs : proc'[x] = IF x = p THEN q ELSE proc[x]
  BY DEF ImportInv
<1>3. ASSUME NEW x \in Procs PROVE Fits(proc'[x], part', reconciled')
  BY <1>1, <1>2
<1> QED BY <1>2, <1>3 DEF Local

LEMMA IdleOK ==
    ASSUME ImportAssumption
    PROVE  Idle \in ProcState /\ Idle.pc = "idle"
BY DEF Idle, ProcState, PC, Parts, ImportAssumption

LEMMA Returned ==
    ASSUME ImportAssumption, ImportInv, Grows, NEW p \in Procs, Return(p)
    PROVE  proc' \in [Procs -> ProcState] /\ Local'
<1>1. Fits(Idle, part', reconciled')
  BY IdleOK DEF Fits
<1> QED BY <1>1, IdleOK, Moved DEF Return

LEMMA Took ==
    ASSUME ImportAssumption, ImportInv, Grows, NEW p \in Procs, NEW pc \in PC, NEW n \in Parts,
           NEW lease \in 0 .. AttemptLimit, Take(p, pc, n, lease),
           pc \in {"deadLive", "deadExpired", "dead"} => part'[n].status # "absent",
           pc \in {"publish", "send"} => part'[n].status = "completed",
           pc \notin {"published", "sent"}
    PROVE  proc' \in [Procs -> ProcState] /\ Local'
<1> DEFINE q == [Idle EXCEPT !.pc = pc, !.part = n, !.lease = lease]
<1>1. q \in ProcState
  BY IdleOK DEF ProcState
<1>2. q.pc = pc /\ q.part = n
  BY DEF Idle
<1>3. Fits(q, part', reconciled')
  BY <1>2 DEF Fits
<1>4. proc' = [proc EXCEPT ![p] = q]
  BY DEF Take
<1> QED BY <1>1, <1>3, <1>4, Moved

LEMMA Went ==
    ASSUME ImportInv, Grows, NEW p \in Procs, NEW pc \in PC, Goto(p, pc),
           pc \in {"deadLive", "deadExpired", "dead"} => part'[proc[p].part].status # "absent",
           pc \in {"publish", "published", "send", "sent"} =>
              part'[proc[p].part].status = "completed",
           pc \in {"published", "sent"} => part'[proc[p].part].ids \subseteq reconciled'
    PROVE  proc' \in [Procs -> ProcState] /\ Local'
<1> DEFINE q == [proc[p] EXCEPT !.pc = pc]
<1>1. proc[p] \in ProcState
  BY DEF ImportInv
<1>2. q \in ProcState /\ q.pc = pc /\ q.part = proc[p].part
  BY <1>1 DEF ProcState
<1>3. Fits(q, part', reconciled')
  BY <1>2 DEF Fits
<1> QED BY <1>2, <1>3, Moved DEF Goto

-----------------------------------------------------------------------------
(* What the ledger sees                                                    *)

Status == IF Active THEN "open" ELSE job.status
Decided == Cardinality({n \in Parts : part[n].inserted})
Tally == [processed |-> job.processed, succeeded |-> job.succeeded, failed |-> job.failed]

LEMMA NumberDecided ==
    ASSUME ImportAssumption, DataInv
    PROVE  /\ job.cursor \in 0 .. TotalParts
           /\ Decided = IF job.cursor \in Parts /\ part[job.cursor].inserted
                        THEN job.cursor + 1 ELSE job.cursor
<1> DEFINE c == job.cursor
           last == IF c \in Parts /\ part[c].inserted THEN c ELSE c - 1
<1>1. c \in 0 .. TotalParts /\ TotalParts \in Nat \ {0}
  BY DEF DataInv, Typed, Job, ImportAssumption
<1>2. last \in Int /\ last >= -1 /\ last < TotalParts
  <2>1. c \in Parts => c < TotalParts
    BY <1>1 DEF Parts
  <2> HIDE DEF c
  <2> QED BY <1>1, <2>1
<1>3. {n \in Parts : part[n].inserted} = 0 .. last
  <2>1. ASSUME NEW n \in Parts PROVE part[n].inserted <=> n <= last
    <3>1. n \in Int /\ c \in Int
      BY <1>1 DEF Parts
    <3>2. CASE n < c
      <4>1. part[n].inserted
        BY <3>2 DEF DataInv, Ordered, Sound
      <4> HIDE DEF c
      <4> QED BY <3>1, <3>2, <4>1
    <3>3. CASE n > c
      <4>1. ~part[n].inserted
        BY <3>3 DEF DataInv, Ordered, Sound
      <4> HIDE DEF c
      <4> QED BY <3>1, <3>3, <4>1
    <3>4. CASE n = c
      <4> HIDE DEF c
      <4> QED BY <3>1, <3>4
    <3> QED BY <3>1, <3>2, <3>3, <3>4
  <2>2. 0 .. last \subseteq Parts
    <3> HIDE DEF last
    <3> QED BY <1>1, <1>2 DEF Parts
  <2>3. \A n \in Parts : n \in 0 .. last <=> n <= last
    <3> HIDE DEF last
    <3> QED BY <1>1, <1>2 DEF Parts
  <2> HIDE DEF last
  <2> QED BY <2>1, <2>2, <2>3
<1>4. Cardinality(0 .. last) = IF 0 > last THEN 0 ELSE last - 0 + 1
  <2> HIDE DEF last
  <2> QED BY <1>2, FS_Interval
<1>5. Decided = last + 1
  <2> HIDE DEF last
  <2>1. (IF 0 > last THEN 0 ELSE last - 0 + 1) = last + 1
    BY <1>2
  <2> QED BY <1>3, <1>4, <2>1 DEF Decided
<1> QED BY <1>1, <1>5

LEMMA NumberDecidedNext ==
    ASSUME ImportAssumption
    PROVE  (DataInv => Decided = IF job.cursor \in Parts /\ part[job.cursor].inserted
                                 THEN job.cursor + 1 ELSE job.cursor)'
<1>1. DataInv => Decided = IF job.cursor \in Parts /\ part[job.cursor].inserted
                           THEN job.cursor + 1 ELSE job.cursor
  BY NumberDecided
<1> QED BY <1>1, PTL

\* ImportLedger counts as this module does.
LEMMA SameCardinality == \A S : Ledger!Cardinality(S) = Cardinality(S)
BY DEF Ledger!Cardinality, Ledger!IsFiniteSet, Cardinality, IsFiniteSet

LEMMA Same ==
    ASSUME Status' = Status, contact' = contact, job'.cursor = job.cursor, Tally' = Tally,
           \A n \in Parts : part'[n].inserted = part[n].inserted
    PROVE  UNCHANGED Ledger!vars
<1>1. {n \in Parts : part'[n].inserted} = {n \in Parts : part[n].inserted}
  OBVIOUS
<1> QED BY <1>1 DEF Ledger!vars, Status, Tally, Active

LEMMA InitImportInv == ASSUME ImportAssumption, Init PROVE ImportInv /\ Ledger!Init
<1>1. Typed
  BY DEF Init, Typed, Job, NoPart, Part, Parts, Rows, ImportAssumption
<1>2. Ordered
  BY DEF Init, Ordered, NoPart, Active, Parts, ImportAssumption
<1>3. (\A n \in Parts : Sound(part[n])) /\ Evident /\ PublishedWasSent
  BY DEF Init, Sound, Evident, PublishedWasSent, NoPart
<1>4. proc \in [Procs -> ProcState] /\ Local
  BY IdleOK DEF Init, Local, Fits
<1>5. DataInv
  BY <1>1, <1>2, <1>3 DEF DataInv
<1>6. Decided = 0
  <2>1. job.cursor = 0 /\ \A n \in Parts : ~part[n].inserted
    BY DEF Init, NoPart
  <2> QED BY <1>5, <2>1, NumberDecided
<1> QED BY <1>4, <1>5, <1>6 DEF ImportInv, Ledger!Init, Init, Active, Decided

\* The part that is worked on is the one at the cursor, of a job that is open.
LEMMA Current ==
    ASSUME ImportAssumption, DataInv, NEW n \in Parts, part[n].status \in {"pending", "processing"}
    PROVE  /\ n = job.cursor /\ Active /\ n \in Nat /\ n < TotalParts
           /\ Decided = IF part[n].inserted THEN n + 1 ELSE n
<1>1. /\ Ordered /\ job.cursor \in 0 .. TotalParts /\ n \in Nat /\ n < TotalParts
      /\ job.status \in {"absent", "pending", "processing", "completed", "failed"}
  BY DEF DataInv, Typed, Job, Parts, ImportAssumption
<1>2. n = job.cursor
  BY <1>1 DEF Ordered
<1>3. Active
  BY <1>1, <1>2 DEF Ordered, Active
<1> QED BY <1>1, <1>2, <1>3, NumberDecided
-----------------------------------------------------------------------------
(* The steps                                                               *)

Goal == ImportInv' /\ [Ledger!Next]_(Ledger!vars)

\* A step that writes no table but that of the messages sent.
LEMMA Unwritten ==
    ASSUME ImportAssumption, ImportInv, UNCHANGED <<job, part, people>>,
           reconciled \subseteq reconciled', reconciled' \subseteq Rows
    PROVE  /\ Grows /\ DataInv'
           /\ proc' \in [Procs -> ProcState] /\ Local' => Goal
<1>1. UNCHANGED <<job, part, contact, holder>> /\ DataInv
  BY DEF people, ImportInv
<1>2. Grows
  BY <1>1 DEF Grows
<1>3. DataInv'
  BY <1>1 DEF DataInv, Typed, Ordered, Active, Evident, PublishedWasSent
<1>4. UNCHANGED Ledger!vars
  BY <1>1, Same DEF Status, Active, Tally
<1> QED BY <1>2, <1>3, <1>4 DEF Goal, ImportInv

\* A step that writes one part but not what was inserted for it, and perhaps what the
\* job is.
LEMMA OnePart ==
    ASSUME ImportAssumption, ImportInv, NEW n \in Parts, NEW q \in Part, Sound(q),
           part' = [part EXCEPT ![n] = q],
           q.inserted = part[n].inserted, q.ids = part[n].ids,
           q.published => q.ids \subseteq reconciled,
           q.status \in {"pending", "processing"},
           \/ part[n].status \in {"pending", "processing"} /\ job' = job
           \/ /\ job.status = "absent" /\ n = 0
              /\ job' = [job EXCEPT !.status = "pending"],
           UNCHANGED <<people, reconciled>>
    PROVE  /\ Grows /\ DataInv'
           /\ proc' \in [Procs -> ProcState] /\ Local' => Goal
<1>1. UNCHANGED <<contact, holder, reconciled>> /\ DataInv /\ Typed /\ Ordered
  BY DEF people, ImportInv, DataInv
<1>2. /\ part' \in [Parts -> Part]
      /\ \A m \in Parts : part'[m] = IF m = n THEN q ELSE part[m]
      /\ part \in [Parts -> Part] /\ job \in Job
  BY <1>1 DEF Typed
<1>3. /\ job' \in Job /\ Tally' = Tally /\ job'.cursor = job.cursor
      /\ job' = job \/ (job.status = "absent" /\ job'.status = "pending" /\ n = 0)
  BY <1>2 DEF Job, Tally
<1>4. n = job.cursor /\ n \in Nat /\ job.cursor # TotalParts
  <2>1. n \in Nat /\ n < TotalParts /\ TotalParts \in Nat
    BY DEF Parts, ImportAssumption
  <2>2. n = job.cursor
    <3>1. CASE part[n].status \in {"pending", "processing"}
      BY <1>1, <3>1, Current
    <3>2. CASE job.status = "absent" /\ n = 0
      BY <1>1, <3>2 DEF Ordered
    <3> QED BY <3>1, <3>2
  <2> QED BY <2>1, <2>2
<1>5. part[n].status # "completed"
  <2>1. CASE part[n].status \in {"pending", "processing"}
    BY <2>1
  <2>2. CASE job.status = "absent" /\ n = 0
    BY <1>1, <1>4, <2>2 DEF Ordered
  <2> QED BY <2>1, <2>2
<1>6. Grows
  BY <1>1, <1>2, <1>5 DEF Grows
<1>7. Ordered'
  <2>1. job'.status \notin {"absent", "failed", "completed"} /\ job.status # "completed"
    <3>1. CASE part[n].status \in {"pending", "processing"}
      BY <1>1, <1>3, <3>1, Current DEF Active
    <3>2. CASE job.status = "absent" /\ job' = [job EXCEPT !.status = "pending"]
      BY <1>2, <3>2 DEF Job
    <3> QED BY <3>1, <3>2
  <2>2. \A m \in Parts : /\ m < job.cursor => part[m].status = "completed" /\ m # n
                         /\ m > job.cursor => part[m].status = "absent" /\ m # n
    BY <1>1, <1>4 DEF Ordered, Parts
  <2> QED BY <1>2, <1>3, <1>4, <2>1, <2>2 DEF Ordered
<1>8. (\A m \in Parts : Sound(part'[m])) /\ Evident' /\ PublishedWasSent'
  BY <1>1, <1>2 DEF DataInv, Evident, PublishedWasSent
<1>9. Typed'
  BY <1>1, <1>2, <1>3 DEF Typed
<1>10. DataInv'
  BY <1>7, <1>8, <1>9 DEF DataInv
<1>11. Ledger!Next \/ UNCHANGED Ledger!vars
  <2>0. \A m \in Parts : part'[m].inserted = part[m].inserted
    BY <1>2
  <2>1. CASE job' = job
    BY <1>1, <1>3, <2>0, <2>1, Same DEF Status, Active
  <2>2. CASE job' # job
    <3>1. job.status = "absent" /\ job'.status = "pending"
      BY <1>3, <2>2
    <3>2. Status = "absent" /\ Status' = "open"
      BY <3>1 DEF Status, Active
    <3>3. {m \in Parts : part'[m].inserted} = {m \in Parts : part[m].inserted}
      BY <2>0
    <3>4. Decided' = Decided
      BY <3>3 DEF Decided
    <3>5. Ledger!Start
      BY <1>1, <1>3, <3>2, <3>4 DEF Ledger!Start, Status, Decided, Tally
    <3> QED BY <3>5 DEF Ledger!Next
  <2> QED BY <2>1, <2>2
<1> QED BY <1>6, <1>10, <1>11 DEF Goal, ImportInv

\* A part that had nothing inserted fails, and the job with it.
LEMMA Fails ==
    ASSUME ImportAssumption, ImportInv, NEW n \in Parts, FailPart(n), ~part[n].inserted,
           part[n].status \notin {"absent", "completed"}, UNCHANGED <<people, reconciled>>
    PROVE  /\ Grows /\ DataInv'
           /\ proc' \in [Procs -> ProcState] /\ Local' => Goal
<1> DEFINE q == [part[n] EXCEPT !.status = "failed", !.lease = 0, !.live = FALSE]
<1>1. UNCHANGED <<contact, holder, reconciled>> /\ DataInv /\ Typed /\ Ordered
  BY DEF people, ImportInv, DataInv
<1>2. /\ part \in [Parts -> Part] /\ part[n] \in Part /\ job \in Job /\ Sound(part[n])
      /\ n \in Int /\ job.cursor \in 0 .. TotalParts /\ n < TotalParts /\ TotalParts \in Nat
  BY <1>1 DEF Typed, DataInv, Job, Parts, ImportAssumption
<1>3. /\ q \in Part /\ q.status = "failed" /\ q.inserted = part[n].inserted
      /\ q.ids = part[n].ids /\ q.published = part[n].published
  <2>1. 0 \in 0 .. AttemptLimit
    BY DEF ImportAssumption
  <2> QED BY <1>2, <2>1 DEF Part
<1>4. Sound(q) /\ ~q.published
  BY <1>2, <1>3 DEF Sound
<1>5. part' = [part EXCEPT ![n] = q] /\ job' = [job EXCEPT !.status = "failed"]
  BY DEF FailPart
<1> HIDE DEF q
<1>6. /\ part' \in [Parts -> Part]
      /\ \A m \in Parts : part'[m] = IF m = n THEN q ELSE part[m]
  BY <1>2, <1>3, <1>5
<1>7. job' \in Job /\ job'.status = "failed" /\ job'.cursor = job.cursor /\ Tally' = Tally
  BY <1>2, <1>5 DEF Job, Tally
<1>8. n = job.cursor /\ job.cursor # TotalParts
  BY <1>1, <1>2 DEF Ordered
<1>9. Active \/ job.status = "failed"
  BY <1>1, <1>2, <1>8 DEF Ordered, Active, Job
<1>10. Grows
  BY <1>1, <1>3, <1>6 DEF Grows
<1>11. Ordered'
  <2>1. \A m \in Parts : /\ m < job.cursor => part[m].status = "completed" /\ m # n
                         /\ m > job.cursor => part[m].status = "absent" /\ m # n
    BY <1>1, <1>8 DEF Ordered, Parts
  <2> QED BY <1>3, <1>6, <1>7, <1>8, <2>1 DEF Ordered, Active
<1>12. (\A m \in Parts : Sound(part'[m])) /\ Evident' /\ PublishedWasSent'
  BY <1>1, <1>3, <1>4, <1>6 DEF DataInv, Evident, PublishedWasSent
<1>13. DataInv'
  BY <1>1, <1>6, <1>7, <1>11, <1>12 DEF DataInv, Typed
<1>14. Ledger!Next \/ UNCHANGED Ledger!vars
  <2>1. Decided = job.cursor
    BY <1>1, <1>8, NumberDecided
  <2>2. \A m \in Parts : part'[m].inserted = part[m].inserted
    BY <1>3, <1>6
  <2>3. Status' = "failed"
    BY <1>7 DEF Status, Active
  <2>4. CASE Active
    <3>1. {m \in Parts : part'[m].inserted} = {m \in Parts : part[m].inserted}
      BY <2>2
    <3>2. Decided' = Decided
      BY <3>1 DEF Decided
    <3>3. Status = "open"
      BY <2>4 DEF Status
    <3>4. Ledger!Fail
      BY <1>1, <1>7, <2>1, <2>3, <3>2, <3>3 DEF Ledger!Fail, Status, Decided, Tally
    <3> QED BY <3>4 DEF Ledger!Next
  <2>5. CASE ~Active
    <3>1. Status = "failed"
      BY <1>9, <2>5 DEF Status
    <3> QED BY <1>1, <1>7, <2>2, <2>3, <3>1, Same
  <2> QED BY <2>4, <2>5
<1> QED BY <1>10, <1>13, <1>14 DEF Goal, ImportInv

LEMMA Returns ==
    ASSUME ImportAssumption, ImportInv, NEW n \in Parts, ReturnPart(n),
           part[n].status = "processing", ~part[n].inserted, part[n].lease < AttemptLimit,
           UNCHANGED <<people, reconciled>>
    PROVE  /\ Grows /\ DataInv'
           /\ proc' \in [Procs -> ProcState] /\ Local' => Goal
<1> DEFINE q == [part[n] EXCEPT !.status = "pending", !.lease = 0, !.live = FALSE]
<1>1. part[n] \in Part /\ Sound(part[n])
  BY DEF ImportInv, DataInv, Typed
<1>2. /\ q \in Part /\ q.status = "pending" /\ q.inserted = part[n].inserted
      /\ q.ids = part[n].ids /\ q.published = part[n].published
      /\ q.attempts = part[n].attempts
  <2>1. 0 \in 0 .. AttemptLimit
    BY DEF ImportAssumption
  <2> QED BY <1>1, <2>1 DEF Part
<1>3. Sound(q) /\ ~q.published
  BY <1>1, <1>2 DEF Sound
<1>4. part' = [part EXCEPT ![n] = q] /\ job' = job
  BY DEF ReturnPart
<1> HIDE DEF q
<1> QED BY <1>2, <1>3, <1>4, OnePart
\* The rows of the part at the cursor become contacts, or are rejected.
LEMMA Inserts ==
    ASSUME ImportAssumption, ImportInv, NEW n \in Parts, Insert(n),
           part[n].status = "processing", ~part[n].inserted, UNCHANGED <<job, reconciled>>
    PROVE  /\ Grows /\ DataInv'
           /\ proc' \in [Procs -> ProcState] /\ Local' => Goal
<1>1. DataInv /\ Typed /\ Ordered /\ Evident /\ PublishedWasSent
  BY DEF ImportInv, DataInv
<1>2. /\ part \in [Parts -> Part] /\ part[n] \in Part /\ Sound(part[n])
      /\ n = job.cursor /\ Active /\ Decided = n /\ n \in Nat
      /\ RowsOf[n] \subseteq Rows /\ part[n].ids = {}
  BY <1>1, Current DEF Typed, DataInv, Sound, Rows
<1>3. PICK ids \in Insertions(n) :
         /\ contact' = contact \cup ids
         /\ holder' = [k \in Keys |-> IF \E r \in ids : KeyOf[r] = k
                                      THEN CHOOSE r \in ids : KeyOf[r] = k ELSE holder[k]]
         /\ part' = [part EXCEPT ![n].inserted = TRUE, ![n].ids = ids]
  BY DEF Insert
<1>4. ids \subseteq RowsOf[n] /\ ids \subseteq Rows
  BY <1>2 DEF Insertions
<1> DEFINE q == [part[n] EXCEPT !.inserted = TRUE, !.ids = ids]
<1>5. /\ q \in Part /\ q.status = part[n].status /\ q.inserted /\ q.ids = ids
      /\ q.published = part[n].published /\ q.lease = part[n].lease
      /\ q.attempts = part[n].attempts
  BY <1>2, <1>4 DEF Part
<1>6. Sound(q) /\ ~q.published
  BY <1>2, <1>5 DEF Sound
<1>7. part' = [part EXCEPT ![n] = q]
  BY <1>2, <1>3
<1> HIDE DEF q
<1>8. /\ part' \in [Parts -> Part]
      /\ \A m \in Parts : part'[m] = IF m = n THEN q ELSE part[m]
  BY <1>2, <1>5, <1>7
<1>9. holder' \in [Keys -> Rows \cup {None, Other}]
  <2>1. \A k \in Keys : (\E r \in ids : KeyOf[r] = k) => (CHOOSE r \in ids : KeyOf[r] = k) \in Rows
    BY <1>4
  <2>2. \A k \in Keys : holder[k] \in Rows \cup {None, Other}
    BY <1>1 DEF Typed
  <2>3. \A k \in Keys : (IF \E r \in ids : KeyOf[r] = k
                         THEN CHOOSE r \in ids : KeyOf[r] = k ELSE holder[k])
                        \in Rows \cup {None, Other}
    BY <2>1, <2>2
  <2> QED BY <1>3, <2>3
<1>10. Typed'
  BY <1>1, <1>3, <1>4, <1>8, <1>9 DEF Typed
<1>11. Grows
  BY <1>5, <1>8 DEF Grows
<1>12. Ordered'
  BY <1>1, <1>5, <1>8 DEF Ordered, Active
<1>13. Evident'
  <2> SUFFICES ASSUME NEW m \in Parts PROVE part'[m].ids = RowsOf[m] \cap (contact \cup ids)
    BY <1>3 DEF Evident
  <2>1. part[m].ids = RowsOf[m] \cap contact /\ part[n].ids = RowsOf[n] \cap contact
    BY <1>1 DEF Evident
  <2>2. CASE m = n
    BY <1>2, <1>4, <1>5, <1>8, <2>1, <2>2
  <2>3. CASE m # n
    <3>1. RowsOf[m] \cap RowsOf[n] = {}
      BY <2>3 DEF ImportAssumption
    <3> QED BY <1>4, <1>8, <2>1, <2>3, <3>1
  <2> QED BY <2>2, <2>3
<1>14. (\A m \in Parts : Sound(part'[m])) /\ PublishedWasSent'
  BY <1>1, <1>6, <1>8 DEF DataInv, PublishedWasSent
<1>15. DataInv'
  BY <1>10, <1>12, <1>13, <1>14 DEF DataInv
<1>16. Ledger!Decide
  <2>1. Decided' = n + 1
    <3>1. Decided' = IF job'.cursor \in Parts /\ part'[job'.cursor].inserted
                     THEN job'.cursor + 1 ELSE job'.cursor
      BY <1>15, NumberDecidedNext
    <3> QED BY <1>2, <1>5, <1>8, <3>1
  <2>2. Status = "open" /\ UNCHANGED <<Status, Tally>>
    BY <1>2 DEF Status, Active, Tally
  <2> QED BY <1>2, <1>3, <1>4, <2>1, <2>2 DEF Ledger!Decide, Status, Decided, Tally
<1> QED BY <1>11, <1>15, <1>16 DEF Goal, ImportInv, Ledger!Next

\* The part at the cursor is counted, as what became of its rows.
LEMMA Completes ==
    ASSUME ImportAssumption, ImportInv, NEW n \in Parts, CompletePart(n),
           part[n].status = "processing", part[n].inserted, UNCHANGED <<people, reconciled>>
    PROVE  /\ Grows /\ DataInv' /\ part'[n].status = "completed"
           /\ proc' \in [Procs -> ProcState] /\ Local' => Goal
<1>1. UNCHANGED <<contact, holder, reconciled>> /\ DataInv /\ Typed /\ Ordered /\ Evident
      /\ PublishedWasSent
  BY DEF people, ImportInv, DataInv
<1>2. /\ part \in [Parts -> Part] /\ part[n] \in Part /\ Sound(part[n]) /\ job \in Job
      /\ n = job.cursor /\ Active /\ Decided = n + 1 /\ n \in Nat /\ n < TotalParts
      /\ TotalParts \in Nat /\ part[n].ids = RowsOf[n] \cap contact
  BY <1>1, Current DEF Typed, DataInv, Evident, ImportAssumption
<1> DEFINE q == [part[n] EXCEPT !.status = "completed", !.lease = 0, !.live = FALSE,
                                !.published = part[n].ids = {}]
           ids == part[n].ids
           rest == RowsOf[n] \ ids
<1>3. 0 \in 0 .. AttemptLimit
  BY DEF ImportAssumption
<1>4. /\ q \in Part /\ q.status = "completed" /\ q.inserted = part[n].inserted
      /\ q.ids = ids /\ (q.published => ids = {})
  BY <1>2, <1>3 DEF Part
<1>5. NewPart \in Part /\ NewPart.status = "pending" /\ ~NewPart.inserted /\ NewPart.ids = {}
      /\ ~NewPart.published /\ NewPart.attempts = 0
  BY <1>3 DEF NewPart, NoPart, Part
<1>6. Sound(q) /\ Sound(NewPart)
  BY <1>2, <1>4, <1>5 DEF Sound, ImportAssumption
<1>7. \A m \in Parts : part'[m] = IF m = n THEN q
                                  ELSE IF m = n + 1 /\ part[m].status = "absent" THEN NewPart
                                  ELSE part[m]
  BY DEF CompletePart
<1>8. part' = [m \in Parts |-> part'[m]]
  BY DEF CompletePart
<1> HIDE DEF q
<1>9. part' \in [Parts -> Part]
  <2>1. \A m \in Parts : part'[m] \in Part
    BY <1>2, <1>4, <1>5, <1>7
  <2> QED BY <1>8, <2>1
<1>10. /\ Cardinality(RowsOf[n]) \in Nat /\ Cardinality(ids) \in Nat /\ Cardinality(rest) \in Nat
  <2>1. IsFiniteSet(RowsOf[n]) /\ ids \in SUBSET RowsOf[n] /\ rest \in SUBSET RowsOf[n]
    BY <1>2 DEF ImportAssumption
  <2> HIDE DEF ids, rest
  <2>2. IsFiniteSet(ids) /\ IsFiniteSet(rest)
    BY <2>1, FS_Subset
  <2> QED BY <2>1, <2>2, FS_CardinalityType
<1>11. /\ job'.status = IF n + 1 = TotalParts THEN "completed" ELSE "processing"
       /\ job'.cursor = n + 1
       /\ job'.processed = job.processed + Cardinality(RowsOf[n])
       /\ job'.succeeded = job.succeeded + Cardinality(ids)
       /\ job'.failed = job.failed + Cardinality(rest)
       /\ job' = [status |-> job'.status, cursor |-> job'.cursor, processed |-> job'.processed,
                  succeeded |-> job'.succeeded, failed |-> job'.failed]
  BY DEF CompletePart, CountPart
<1>12. job' \in Job
  <2>1. n + 1 \in 0 .. TotalParts
    BY <1>2
  <2>2. job.processed \in Nat /\ job.succeeded \in Nat /\ job.failed \in Nat
    BY <1>2 DEF Job
  <2>3. /\ job'.processed \in Nat /\ job'.succeeded \in Nat /\ job'.failed \in Nat
        /\ job'.cursor \in 0 .. TotalParts /\ job'.status \in {"completed", "processing"}
    <3> HIDE DEF ids, rest
    <3> QED BY <1>10, <1>11, <2>1, <2>2
  <2> QED BY <1>11, <2>3 DEF Job
<1>13. Typed'
  BY <1>1, <1>9, <1>12 DEF Typed
<1>14. Grows
  BY <1>1, <1>2, <1>4, <1>5, <1>7 DEF Grows
<1>15. Ordered'
  <2>1. \A m \in Parts : /\ m \in Int
                         /\ m < n => part[m].status = "completed"
                         /\ m > n => part[m].status = "absent"
    BY <1>1, <1>2 DEF Ordered, Parts
  <2>2. \A m \in Parts : /\ m < n + 1 => part'[m].status = "completed"
                         /\ m > n + 1 => part'[m].status = "absent"
                         /\ m = n + 1 => part'[m].status = "pending"
    <3> SUFFICES ASSUME NEW m \in Parts
                 PROVE  /\ m < n + 1 => part'[m].status = "completed"
                        /\ m > n + 1 => part'[m].status = "absent"
                        /\ m = n + 1 => part'[m].status = "pending"
      OBVIOUS
    <3>1. CASE m < n
      <4>1. part'[m] = part[m]
        BY <1>2, <1>7, <2>1, <3>1
      <4> QED BY <1>2, <2>1, <3>1, <4>1
    <3>2. CASE m = n
      BY <1>2, <1>4, <1>7, <3>2
    <3>3. CASE m = n + 1
      <4>1. part'[m] = NewPart
        BY <1>2, <1>7, <2>1, <3>3
      <4> QED BY <1>2, <1>5, <3>3, <4>1
    <3>4. CASE m > n + 1
      <4>1. part'[m] = part[m] /\ part[m].status = "absent"
        BY <1>2, <1>7, <2>1, <3>4
      <4> QED BY <1>2, <2>1, <3>4, <4>1
    <3>5. m < n \/ m = n \/ m = n + 1 \/ m > n + 1
      <4>1. m \in Int /\ n \in Int
        BY <1>2, <2>1
      <4> QED BY <4>1
    <3> QED BY <3>1, <3>2, <3>3, <3>4, <3>5
  <2>3. (job'.status = "completed" <=> job'.cursor = TotalParts)
        /\ job'.status \notin {"absent", "failed"}
    BY <1>11
  <2> QED BY <1>11, <2>2, <2>3 DEF Ordered
<1>16. Evident'
  <2> SUFFICES ASSUME NEW m \in Parts PROVE part'[m].ids = part[m].ids
    BY <1>1 DEF Evident
  <2>1. part[m].status = "absent" => part[m].ids = {}
    BY <1>1 DEF DataInv, Sound
  <2> QED BY <1>4, <1>5, <1>7, <2>1
<1>17. (\A m \in Parts : Sound(part'[m])) /\ PublishedWasSent'
  <2>1. ASSUME NEW m \in Parts
        PROVE  Sound(part'[m]) /\ (part'[m].published => part'[m].ids \subseteq reconciled)
    <3>1. part'[m] \in {q, NewPart, part[m]}
      BY <1>7
    <3>2. Sound(part[m]) /\ (part[m].published => part[m].ids \subseteq reconciled)
      BY <1>1 DEF DataInv, PublishedWasSent
    <3> QED BY <1>4, <1>5, <1>6, <3>1, <3>2
  <2> QED BY <1>1, <2>1 DEF PublishedWasSent
<1>18. DataInv'
  BY <1>13, <1>15, <1>16, <1>17 DEF DataInv
<1>19. Ledger!Count
  <2>1. Decided' = Decided
    <3>1. \A m \in Parts : part'[m].inserted = part[m].inserted
      <4> SUFFICES ASSUME NEW m \in Parts PROVE part'[m].inserted = part[m].inserted
        OBVIOUS
      <4>1. part[m] \in Part /\ (part[m].status = "absent" => ~part[m].inserted)
        BY <1>1 DEF DataInv, Sound, Typed
      <4>2. part[m].inserted \in BOOLEAN /\ NewPart.inserted \in BOOLEAN
        BY <1>5, <4>1 DEF Part
      <4> QED BY <1>4, <1>5, <1>7, <4>1, <4>2
    <3>2. {m \in Parts : part'[m].inserted} = {m \in Parts : part[m].inserted}
      BY <3>1
    <3> QED BY <3>2 DEF Decided
  <2>2. Status = "open" /\ Status' = IF n + 1 = TotalParts THEN "completed" ELSE "open"
    BY <1>2, <1>11 DEF Status, Active
  <2>3. RowsOf[n] \cap contact = ids /\ RowsOf[n] \ contact = rest
    BY <1>2
  <2>4. Tally' = [processed |-> Tally.processed + Cardinality(RowsOf[n]),
                  succeeded |-> Tally.succeeded + Cardinality(RowsOf[n] \cap contact),
                  failed |-> Tally.failed + Cardinality(RowsOf[n] \ contact)]
    <3> HIDE DEF ids, rest
    <3> QED BY <1>11, <2>3 DEF Tally
  <2>5. /\ Status = "open" /\ Decided = job.cursor + 1 /\ job'.cursor = job.cursor + 1
        /\ Status' = IF job'.cursor = TotalParts THEN "completed" ELSE "open"
        /\ Tally' = [processed |-> Tally.processed + Cardinality(RowsOf[job.cursor]),
                     succeeded |-> Tally.succeeded + Cardinality(RowsOf[job.cursor] \cap contact),
                     failed |-> Tally.failed + Cardinality(RowsOf[job.cursor] \ contact)]
        /\ UNCHANGED <<contact, Decided>>
    <3> HIDE DEF ids, rest
    <3> QED BY <1>1, <1>2, <1>11, <2>1, <2>2, <2>4
  <2> QED BY <2>5, SameCardinality DEF Ledger!Count, Status, Decided, Tally
<1> QED BY <1>4, <1>7, <1>14, <1>18, <1>19 DEF Goal, ImportInv, Ledger!Next
-----------------------------------------------------------------------------
(* The invocations' steps                                                  *)

LEMMA Reads ==
    ASSUME ImportAssumption, ImportInv, NEW p \in Procs,
           \/ ReadFile(p) \/ ReadManifest(p) \/ Break(p) \/ Crash(p)
           \/ \E n \in Parts : ScanExpired(p, n) \/ ScanUnpublished(p, n) \/ ReadDeadLetter(p, n)
    PROVE  Goal
<1>1. UNCHANGED <<job, part, people, reconciled>>
  BY DEF ReadFile, ReadManifest, Break, Crash, ScanExpired, ScanUnpublished, ReadDeadLetter
<1>2. /\ Grows /\ DataInv' /\ part' = part
      /\ proc' \in [Procs -> ProcState] /\ Local' => Goal
  BY <1>1, Unwritten DEF ImportInv, DataInv, Typed
<1>3. /\ \A n \in Parts : part[n].lease \in 0 .. AttemptLimit
      /\ 0 \in 0 .. AttemptLimit /\ proc[p] \in ProcState
  BY DEF ImportInv, DataInv, Typed, Part, ImportAssumption
<1> DEFINE Done == proc' \in [Procs -> ProcState] /\ Local'
<1>4. ASSUME NEW pc \in {"reserve", "persist", "caughtLive"}, Goto(p, pc) PROVE Done
  BY <1>2, <1>4, Went DEF PC, TryPC
<1>5. ASSUME Return(p) PROVE Done
  BY <1>2, <1>5, Returned
<1>6. ASSUME ReadFile(p) PROVE Done
  <2>1. CASE Goto(p, "reserve")
    BY <1>4, <2>1
  <2>2. CASE proc' = [proc EXCEPT ![p].pc = "caughtLive", ![p].permanent = TRUE]
    <3> DEFINE q == [proc[p] EXCEPT !.pc = "caughtLive", !.permanent = TRUE]
    <3>1. q \in ProcState /\ q.pc = "caughtLive"
      BY <1>3 DEF ProcState, PC
    <3>2. Fits(q, part', reconciled')
      BY <3>1 DEF Fits
    <3>3. proc' = [proc EXCEPT ![p] = q]
      BY <2>2 DEF ImportInv
    <3> HIDE DEF q
    <3> QED BY <1>2, <3>1, <3>2, <3>3, Moved
  <2> QED BY <1>6, <2>1, <2>2 DEF ReadFile
<1>7. ASSUME ReadManifest(p) PROVE Done
  BY <1>4, <1>5, <1>7 DEF ReadManifest
<1>8. ASSUME Break(p) PROVE Done
  BY <1>4, <1>8 DEF Break
<1>9. ASSUME NEW n \in Parts, ScanExpired(p, n) PROVE Done
  <2>1. Take(p, "scanned", n, part[n].lease) /\ "scanned" \in PC
    BY <1>9 DEF ScanExpired, PC
  <2> QED BY <1>2, <1>3, <2>1, Took
<1>10. ASSUME NEW n \in Parts, ScanUnpublished(p, n) PROVE Done
  <2>1. Take(p, "send", n, 0) /\ "send" \in PC /\ part'[n].status = "completed"
    BY <1>2, <1>10 DEF ScanUnpublished, PC
  <2> QED BY <1>2, <1>3, <2>1, Took
<1>11. ASSUME NEW n \in Parts, ReadDeadLetter(p, n) PROVE Done
  <2>1. part'[n].status # "absent" /\ "deadLive" \in PC /\ "dead" \in PC
    BY <1>2, <1>11 DEF ReadDeadLetter, PC
  <2>2. Take(p, "deadLive", n, part[n].lease) \/ Take(p, "dead", n, 0)
    BY <1>11 DEF ReadDeadLetter
  <2>3. CASE Take(p, "deadLive", n, part[n].lease)
    BY <1>2, <1>3, <2>1, <2>3, Took
  <2>4. CASE Take(p, "dead", n, 0)
    BY <1>2, <1>3, <2>1, <2>4, Took
  <2> QED BY <2>2, <2>3, <2>4
<1> QED BY <1>2, <1>5, <1>6, <1>7, <1>8, <1>9, <1>10, <1>11 DEF Crash

LEMMA Sends ==
    ASSUME ImportAssumption, ImportInv, NEW p \in Procs, Enqueue(p)
    PROVE  Goal
<1> DEFINE n == proc[p].part
<1>1. /\ n \in Parts /\ proc[p].pc \in {"publish", "send"} /\ part[n].status = "completed"
      /\ part \in [Parts -> Part] /\ reconciled \subseteq Rows
      /\ UNCHANGED <<job, part, people>> /\ reconciled' = reconciled \cup part[n].ids
  BY DEF Enqueue, ImportInv, Local, Fits, ProcState, DataInv, Typed
<1>2. part[n].ids \subseteq Rows
  BY <1>1 DEF Part
<1>3. /\ Grows /\ DataInv' /\ part' = part
      /\ proc' \in [Procs -> ProcState] /\ Local' => Goal
  BY <1>1, <1>2, Unwritten
<1>4. \E pc \in {"published", "sent"} : Goto(p, pc)
  BY DEF Enqueue
<1>5. proc' \in [Procs -> ProcState] /\ Local'
  <2> PICK pc \in {"published", "sent"} : Goto(p, pc)
    BY <1>4
  <2>1. /\ pc \in PC /\ part'[n].status = "completed" /\ part'[n].ids \subseteq reconciled'
        /\ pc \notin {"deadLive", "deadExpired", "dead"}
    BY <1>1, <1>3 DEF PC, TryPC
  <2> QED BY <1>3, <2>1, Went
<1> QED BY <1>3, <1>5

\* Marked as published once its contacts were sent.
LEMMA Marks ==
    ASSUME ImportAssumption, ImportInv, NEW p \in Procs, MarkPublished(p)
    PROVE  Goal
<1> DEFINE n == proc[p].part
           q == [part[n] EXCEPT !.published = TRUE]
<1>1. /\ n \in Parts /\ proc[p].pc \in {"published", "sent"} /\ part[n].status = "completed"
      /\ part[n].ids \subseteq reconciled /\ part[n] \in Part /\ Sound(part[n])
      /\ UNCHANGED <<job, contact, holder, reconciled>> /\ Return(p)
      /\ part' = [part EXCEPT ![n] = q]
      /\ DataInv /\ Typed /\ Ordered /\ Evident /\ PublishedWasSent
  BY DEF MarkPublished, ImportInv, Local, Fits, ProcState, DataInv, Typed, people
<1>2. /\ q \in Part /\ q.status = "completed" /\ q.ids = part[n].ids
      /\ q.inserted = part[n].inserted
  BY <1>1 DEF Part
<1>3. Sound(q)
  BY <1>1, <1>2 DEF Sound
<1> HIDE DEF q
<1>4. /\ part' \in [Parts -> Part]
      /\ \A m \in Parts : part'[m] = IF m = n THEN q ELSE part[m]
  BY <1>1, <1>2 DEF Typed
<1>5. Grows
  BY <1>1, <1>2, <1>4 DEF Grows
<1>6. DataInv'
  <2>1. Typed' /\ Ordered' /\ Evident'
    BY <1>1, <1>2, <1>4 DEF Typed, Ordered, Active, Evident
  <2>2. (\A m \in Parts : Sound(part'[m])) /\ PublishedWasSent'
    BY <1>1, <1>2, <1>3, <1>4 DEF DataInv, PublishedWasSent
  <2> QED BY <2>1, <2>2 DEF DataInv
<1>7. proc' \in [Procs -> ProcState] /\ Local'
  BY <1>1, <1>5, Returned
<1>8. UNCHANGED Ledger!vars
  BY <1>1, <1>2, <1>4, Same DEF Status, Active, Tally
<1> QED BY <1>6, <1>7, <1>8 DEF Goal, ImportInv

LEMMA Claims ==
    ASSUME ImportAssumption, ImportInv, NEW p \in Procs, NEW n \in Parts, ClaimPart(p, n)
    PROVE  Goal
<1> DEFINE lease == part[n].attempts + 1
           q == [part[n] EXCEPT !.status = "processing", !.attempts = lease,
                                !.lease = lease, !.live = TRUE]
           r == [Idle EXCEPT !.pc = "mark", !.part = n, !.lease = lease,
                             !.reserved = part[n].reserved]
<1>1. /\ part[n] \in Part /\ Sound(part[n])
      /\ part[n].status \in {"pending", "processing"} /\ ~part[n].inserted
      /\ part[n].attempts < AttemptLimit /\ UNCHANGED <<job, people, reconciled>>
      /\ part' = [part EXCEPT ![n] = q] /\ proc' = [proc EXCEPT ![p] = r]
  BY DEF ClaimPart, Claimable, ImportInv, DataInv, Typed
<1>2. lease \in 0 .. AttemptLimit /\ lease # 0 /\ part[n].reserved \in BOOLEAN
  <2>1. part[n].attempts \in 0 .. AttemptLimit /\ AttemptLimit \in Nat
    BY <1>1 DEF Part, ImportAssumption
  <2> QED BY <1>1, <2>1 DEF Part
<1> HIDE DEF lease
<1>3. /\ q \in Part /\ q.status = "processing" /\ q.lease = lease /\ q.attempts = lease
      /\ q.inserted = part[n].inserted /\ q.ids = part[n].ids /\ q.published = part[n].published
  BY <1>1, <1>2 DEF Part
<1>4. Sound(q) /\ ~q.published
  BY <1>1, <1>2, <1>3 DEF Sound
<1>5. r \in ProcState /\ r.pc = "mark"
  BY <1>2, IdleOK DEF ProcState, PC, Idle
<1> HIDE DEF q, r
<1>6. /\ Grows /\ DataInv'
      /\ proc' \in [Procs -> ProcState] /\ Local' => Goal
  BY <1>1, <1>3, <1>4, OnePart
<1>7. Fits(r, part', reconciled')
  BY <1>5 DEF Fits
<1> QED BY <1>1, <1>5, <1>6, <1>7, Moved

LEMMA MarksProcessing ==
    ASSUME ImportAssumption, ImportInv, NEW p \in Procs, MarkProcessing(p)
    PROVE  Goal
<1>1. /\ DataInv /\ job \in Job /\ UNCHANGED <<part, contact, holder, reconciled>>
      /\ \/ job' = job
         \/ Active /\ job' = [job EXCEPT !.status = "processing"]
  BY DEF MarkProcessing, Live, people, ImportInv, DataInv, Typed
<1>2. /\ job' \in Job /\ job'.cursor = job.cursor /\ Tally' = Tally
      /\ job'.status = job.status \/ (Active /\ job'.status = "processing")
  BY <1>1 DEF Job, Tally
<1>3. DataInv'
  BY <1>1, <1>2 DEF DataInv, Typed, Ordered, Active, Evident, PublishedWasSent
<1>4. Grows
  BY <1>1 DEF Grows
<1>5. UNCHANGED Ledger!vars
  BY <1>1, <1>2, Same DEF Status, Active
<1>6. \E pc \in {"persist", "read"} : Goto(p, pc)
  BY DEF MarkProcessing
<1>7. proc' \in [Procs -> ProcState] /\ Local'
  BY <1>4, <1>6, Went DEF PC, TryPC
<1> QED BY <1>3, <1>5, <1>7 DEF Goal, ImportInv

LEMMA Reserves ==
    ASSUME ImportAssumption, ImportInv, NEW p \in Procs, Reserve(p)
    PROVE  Goal
<1> DEFINE n == proc[p].part
           q == [part[n] EXCEPT !.reserved = TRUE]
<1>1. n \in Parts /\ part[n] \in Part /\ Sound(part[n]) /\ Goto(p, "manifest")
      /\ UNCHANGED <<job, people, reconciled>> /\ "manifest" \in PC
  BY DEF Reserve, ImportInv, DataInv, Typed, ProcState, PC, TryPC
<1>2. /\ Grows
      /\ proc' \in [Procs -> ProcState] /\ Local' => Goal
  <2>1. CASE part' = part
    BY <1>1, <2>1, Unwritten DEF ImportInv, DataInv, Typed
  <2>2. CASE part' # part
    <3>1. part' = [part EXCEPT ![n] = q] /\ part[n].status = "processing"
      BY <2>2 DEF Reserve, Live, Leased
    <3>2. /\ q \in Part /\ q.status = part[n].status /\ q.lease = part[n].lease
          /\ q.attempts = part[n].attempts /\ q.inserted = part[n].inserted
          /\ q.ids = part[n].ids /\ q.published = part[n].published
      BY <1>1 DEF Part
    <3>3. Sound(q) /\ ~q.published
      BY <1>1, <3>1, <3>2 DEF Sound
    <3> HIDE DEF q
    <3> QED BY <1>1, <3>1, <3>2, <3>3, OnePart
  <2> QED BY <2>1, <2>2
<1>3. proc' \in [Procs -> ProcState] /\ Local'
  BY <1>1, <1>2, Went
<1> QED BY <1>2, <1>3
LEMMA Persists ==
    ASSUME ImportAssumption, ImportInv, NEW p \in Procs, Persist(p)
    PROVE  Goal
<1> DEFINE n == proc[p].part
<1>1. n \in Parts /\ Goto(p, "complete") /\ UNCHANGED <<job, reconciled>> /\ "complete" \in PC
      /\ reconciled \subseteq Rows
  BY DEF Persist, ImportInv, DataInv, Typed, ProcState, PC, TryPC
<1>2. /\ Grows
      /\ proc' \in [Procs -> ProcState] /\ Local' => Goal
  <2>1. CASE UNCHANGED <<part, people>>
    BY <1>1, <2>1, Unwritten
  <2>2. CASE ~UNCHANGED <<part, people>>
    <3>1. Insert(n) /\ part[n].status = "processing" /\ ~part[n].inserted
      BY <2>2 DEF Persist, Live, Leased
    <3> HIDE DEF n
    <3> QED BY <1>1, <3>1, Inserts
  <2> QED BY <2>1, <2>2
<1>3. proc' \in [Procs -> ProcState] /\ Local'
  BY <1>1, <1>2, Went
<1> QED BY <1>2, <1>3

LEMMA CompletesLive ==
    ASSUME ImportAssumption, ImportInv, NEW p \in Procs, CompleteLive(p)
    PROVE  Goal
<1> DEFINE n == proc[p].part
<1>1. /\ n \in Parts /\ UNCHANGED <<people, reconciled>>
      /\ "publish" \in PC /\ reconciled \subseteq Rows
  BY DEF CompleteLive, ImportInv, DataInv, Typed, ProcState, PC, TryPC
<1>2. CASE MayComplete(n, Live(n, proc[p].lease))
  <2>1. /\ CompletePart(n) /\ Goto(p, "publish") /\ part[n].status = "processing"
        /\ part[n].inserted
    BY <1>2 DEF CompleteLive, MayComplete, Live, Leased
  <2>2. /\ Grows /\ part'[n].status = "completed"
        /\ proc' \in [Procs -> ProcState] /\ Local' => Goal
    <3> HIDE DEF n
    <3> QED BY <1>1, <2>1, Completes
  <2>3. proc' \in [Procs -> ProcState] /\ Local'
    BY <1>1, <2>1, <2>2, Went
  <2> QED BY <2>2, <2>3
<1>3. CASE ~MayComplete(n, Live(n, proc[p].lease))
  <2>1. Return(p) /\ UNCHANGED <<job, part>>
    BY <1>3 DEF CompleteLive
  <2> QED BY <1>1, <2>1, Unwritten, Returned
<1> QED BY <1>2, <1>3

LEMMA CompletesUnder ==
    ASSUME ImportAssumption, ImportInv, NEW p \in Procs, NEW authority, NEW otherwise \in PC,
           CompleteUnder(p, authority, otherwise),
           authority => part[proc[p].part].status = "processing",
           otherwise \in {"deadExpired", "dead"} => proc[p].pc \in {"deadLive", "deadExpired"},
           otherwise \notin {"deadLive", "publish", "published", "send", "sent"}
    PROVE  Goal
<1> DEFINE n == proc[p].part
<1>1. /\ n \in Parts /\ UNCHANGED <<people, reconciled>> /\ reconciled \subseteq Rows
      /\ Fits(proc[p], part, reconciled)
  BY DEF CompleteUnder, ImportInv, DataInv, Typed, ProcState, Local
<1>2. CASE MayComplete(n, authority)
  <2>1. CompletePart(n) /\ Return(p) /\ part[n].status = "processing" /\ part[n].inserted
    BY <1>2 DEF CompleteUnder, MayComplete
  <2>2. /\ Grows
        /\ proc' \in [Procs -> ProcState] /\ Local' => Goal
    <3> HIDE DEF n
    <3> QED BY <1>1, <2>1, Completes
  <2> QED BY <2>1, <2>2, Returned
<1>3. CASE ~MayComplete(n, authority)
  <2>1. Goto(p, otherwise) /\ UNCHANGED <<job, part>>
    BY <1>3 DEF CompleteUnder
  <2>2. /\ Grows
        /\ proc' \in [Procs -> ProcState] /\ Local' => Goal
    BY <1>1, <2>1, Unwritten
  <2>3. otherwise \in {"deadLive", "deadExpired", "dead"} => part'[n].status # "absent"
    BY <1>1, <2>1 DEF Fits
  <2>4. proc' \in [Procs -> ProcState] /\ Local'
    BY <2>1, <2>2, <2>3, Went
  <2> QED BY <2>2, <2>4
<1> QED BY <1>2, <1>3

LEMMA Recovers ==
    ASSUME ImportAssumption, ImportInv, NEW p \in Procs,
           \/ CatchLive(p) \/ CatchExpired(p) \/ CompleteScanned(p)
           \/ CompleteDeadLive(p) \/ CompleteDeadExpired(p)
    PROVE  Goal
<1> DEFINE n == proc[p].part
           lease == proc[p].lease
<1>1. Live(n, lease) \/ Expired(n, lease) => part[n].status = "processing"
  BY DEF Live, Expired, Leased
<1>2. {"caughtExpired", "settle", "overdue", "deadExpired", "dead"} \subseteq PC
  BY DEF PC
<1>3. CASE CatchLive(p)
  BY <1>1, <1>2, <1>3, CompletesUnder DEF CatchLive
<1>4. CASE CatchExpired(p)
  BY <1>1, <1>2, <1>4, CompletesUnder DEF CatchExpired
<1>5. CASE CompleteScanned(p)
  BY <1>1, <1>2, <1>5, CompletesUnder DEF CompleteScanned
<1>6. CASE CompleteDeadLive(p)
  BY <1>1, <1>2, <1>6, CompletesUnder DEF CompleteDeadLive
<1>7. CASE CompleteDeadExpired(p)
  BY <1>1, <1>2, <1>7, CompletesUnder DEF CompleteDeadExpired
<1> QED BY <1>3, <1>4, <1>5, <1>6, <1>7

\* The part is failed, is returned or is left alone.
LEMMA Settles ==
    ASSUME ImportAssumption, ImportInv, NEW p \in Procs, Settle(p) \/ RecoverPart(p) \/ FailDead(p)
    PROVE  Goal
<1> DEFINE n == proc[p].part
<1>1. /\ n \in Parts /\ Return(p) /\ UNCHANGED <<people, reconciled>> /\ reconciled \subseteq Rows
      /\ Fits(proc[p], part, reconciled) /\ proc[p] \in ProcState
  BY DEF Settle, RecoverPart, FailDead, ImportInv, DataInv, Typed, ProcState, Local
<1>2. \/ UNCHANGED <<job, part>>
      \/ FailPart(n) /\ ~part[n].inserted /\ part[n].status \notin {"absent", "completed"}
      \/ /\ ReturnPart(n) /\ part[n].status = "processing" /\ ~part[n].inserted
         /\ part[n].lease < AttemptLimit
  <2>0. proc[p].lease \in Int /\ AttemptLimit \in Int
    BY <1>1 DEF ProcState, ImportAssumption
  <2>1. CASE Settle(p)
    <3> DEFINE exhausted == proc[p].permanent \/ proc[p].lease >= AttemptLimit
               owned == Live(n, proc[p].lease) /\ ~part[n].inserted
    <3>1. CASE ~owned
      BY <2>1, <3>1 DEF Settle
    <3>2. CASE owned
      <4>1. part[n].status = "processing" /\ part[n].lease = proc[p].lease /\ ~part[n].inserted
        BY <3>2 DEF Live, Leased
      <4>2. FailPart(n) \/ (ReturnPart(n) /\ ~exhausted)
        BY <2>1, <3>2 DEF Settle
      <4>3. ~exhausted => proc[p].lease < AttemptLimit
        BY <2>0
      <4> QED BY <4>1, <4>2, <4>3
    <3> QED BY <3>1, <3>2
  <2>2. CASE RecoverPart(p)
    <3> DEFINE owned == Expired(n, proc[p].lease) /\ ~part[n].inserted
    <3>1. CASE ~owned
      BY <2>2, <3>1 DEF RecoverPart
    <3>2. CASE owned
      <4>1. part[n].status = "processing" /\ part[n].lease = proc[p].lease /\ ~part[n].inserted
        BY <3>2 DEF Expired, Leased
      <4>2. proc[p].lease >= AttemptLimit \/ proc[p].lease < AttemptLimit
        BY <2>0
      <4>3. FailPart(n) \/ (ReturnPart(n) /\ proc[p].lease < AttemptLimit)
        BY <2>2, <3>2, <4>2 DEF RecoverPart
      <4> QED BY <4>1, <4>3
    <3> QED BY <3>1, <3>2
  <2>3. CASE FailDead(p)
    BY <1>1, <2>3 DEF FailDead, Fits
  <2> QED BY <2>1, <2>2, <2>3
<1>3. /\ Grows
      /\ proc' \in [Procs -> ProcState] /\ Local' => Goal
  <2> HIDE DEF n
  <2>1. CASE UNCHANGED <<job, part>>
    BY <1>1, <2>1, Unwritten
  <2>2. CASE FailPart(n) /\ ~part[n].inserted /\ part[n].status \notin {"absent", "completed"}
    BY <1>1, <2>2, Fails
  <2>3. CASE /\ ReturnPart(n) /\ part[n].status = "processing" /\ ~part[n].inserted
             /\ part[n].lease < AttemptLimit
    BY <1>1, <2>3, Returns
  <2> QED BY <1>2, <2>1, <2>2, <2>3
<1> QED BY <1>1, <1>3, Returned

-----------------------------------------------------------------------------
(* The other steps, and the invariants                                     *)

LEMMA Surroundings ==
    ASSUME ImportAssumption, ImportInv,
           \/ CreateJob \/ (\E n \in Parts : LeaseExpires(n)) \/ (\E k \in Keys : OtherWriter(k))
           \/ UNCHANGED vars
    PROVE  Goal
<1>1. /\ UNCHANGED <<reconciled, proc>> /\ DataInv /\ Typed /\ Ordered /\ reconciled \subseteq Rows
      /\ 0 \in Parts /\ 0 \in 0 .. AttemptLimit /\ AttemptLimit # 0
  BY DEF CreateJob, LeaseExpires, OtherWriter, vars, ImportInv, DataInv, Typed, Parts,
         ImportAssumption
<1>2. CASE CreateJob
  <2>1. /\ part' = [part EXCEPT ![0] = NewPart] /\ job.status = "absent"
        /\ job' = [job EXCEPT !.status = "pending"] /\ UNCHANGED people
    BY <1>2 DEF CreateJob
  <2>2. part[0].status = "absent" /\ part[0] \in Part /\ Sound(part[0])
    BY <1>1, <2>1 DEF Ordered, DataInv, Typed
  <2>3. /\ NewPart \in Part /\ NewPart.status = "pending" /\ ~NewPart.inserted
        /\ NewPart.ids = {} /\ ~NewPart.published /\ NewPart.attempts = 0
        /\ NewPart.inserted \in BOOLEAN
    BY <1>1 DEF NewPart, NoPart, Part
  <2>4. Sound(NewPart) /\ NewPart.inserted = part[0].inserted /\ NewPart.ids = part[0].ids
    <3>1. part[0].inserted \in BOOLEAN /\ ~part[0].inserted /\ part[0].ids = {}
      BY <2>2 DEF Part, Sound
    <3>2. NewPart.attempts < AttemptLimit
      BY <1>1, <2>3 DEF ImportAssumption
    <3>3. NewPart.inserted = part[0].inserted
      BY <2>3, <3>1
    <3> QED BY <2>3, <3>1, <3>2, <3>3 DEF Sound
  <2> HIDE DEF NewPart
  <2>5. /\ Grows
        /\ proc' \in [Procs -> ProcState] /\ Local' => Goal
    BY <1>1, <2>1, <2>3, <2>4, OnePart
  <2> QED BY <1>1, <2>5, Stayed
<1>3. ASSUME NEW n \in Parts, LeaseExpires(n) PROVE Goal
  <2> DEFINE q == [part[n] EXCEPT !.live = FALSE]
  <2>1. part' = [part EXCEPT ![n] = q] /\ part[n].status = "processing" /\ UNCHANGED <<job, people>>
    BY <1>3 DEF LeaseExpires
  <2>2. part[n] \in Part /\ Sound(part[n])
    BY <1>1 DEF DataInv, Typed
  <2>3. /\ q \in Part /\ q.status = part[n].status /\ q.lease = part[n].lease
        /\ q.attempts = part[n].attempts /\ q.inserted = part[n].inserted
        /\ q.ids = part[n].ids /\ q.published = part[n].published
    BY <2>2 DEF Part
  <2>4. Sound(q) /\ ~q.published
    BY <2>1, <2>2, <2>3 DEF Sound
  <2> HIDE DEF q
  <2>5. /\ Grows
        /\ proc' \in [Procs -> ProcState] /\ Local' => Goal
    BY <1>1, <2>1, <2>3, <2>4, OnePart
  <2> QED BY <1>1, <2>5, Stayed
<1>4. ASSUME NEW k \in Keys, OtherWriter(k) PROVE Goal
  <2>1. UNCHANGED <<job, part, contact>>
        /\ holder' = [holder EXCEPT ![k] = IF @ = None THEN Other ELSE None]
    BY <1>4 DEF OtherWriter
  <2>2. holder' \in [Keys -> Rows \cup {None, Other}]
    BY <1>1, <2>1 DEF Typed
  <2>3. DataInv' /\ Grows
    BY <1>1, <2>1, <2>2
       DEF DataInv, Typed, Ordered, Active, Evident, PublishedWasSent, Grows
  <2>4. UNCHANGED Ledger!vars
    BY <2>1, Same DEF Status, Active, Tally
  <2> QED BY <1>1, <2>3, <2>4, Stayed DEF Goal, ImportInv
<1>5. CASE UNCHANGED vars
  <2>1. UNCHANGED <<job, part, people>>
    BY <1>5 DEF vars, people
  <2> QED BY <1>1, <2>1, Unwritten, Stayed
<1> QED BY <1>2, <1>3, <1>4, <1>5

LEMMA NextImportInv == ASSUME ImportAssumption, ImportInv, [Next]_vars PROVE Goal
<1>1. ASSUME NEW p \in Procs, Step(p) \/ Break(p) \/ Crash(p) PROVE Goal
  BY <1>1, MarksProcessing, Reads, Reserves, Persists, CompletesLive, Sends, Marks, Recovers,
     Settles DEF Step
<1>2. ASSUME NEW p \in Procs, NEW n \in Parts, Begin(p, n) PROVE Goal
  BY <1>2, Claims, Reads DEF Begin
<1> QED BY <1>1, <1>2, Surroundings DEF Next

LEMMA AlwaysImportInv == ASSUME ImportAssumption PROVE Spec => []ImportInv
<1>1. Init => ImportInv
  BY InitImportInv
<1>2. ImportInv /\ [Next]_vars => ImportInv'
  BY NextImportInv DEF Goal
<1> QED BY <1>1, <1>2, PTL DEF Spec

\* The job and its parts keep their types (schema of import_jobs and
\* contact_import_parts): above all, no part is tried more than IMPORT_ATTEMPT_LIMIT
\* times and no lease is named by an attempt beyond it.
THEOREM ImportTypes == ASSUME ImportAssumption PROVE Spec => []TypeOK
<1>1. ImportInv => TypeOK
  BY DEF ImportInv, DataInv, Typed, TypeOK
<1> QED BY <1>1, AlwaysImportInv, PTL

\* An import that was accepted is never stranded: the part at the cursor of an open job
\* waits with a try left, for the scanner to send its message again, or is leased, for
\* the scanner to recover it when its lease has run out.
LEMMA Recoverable == ASSUME ImportAssumption, ImportInv PROVE OpenIsRecoverable
<1> SUFFICES ASSUME Active
             PROVE  LET current == part[job.cursor]
                    IN  \/ /\ current.status = "pending" /\ current.attempts < AttemptLimit
                           /\ ~current.inserted
                        \/ current.status = "processing" /\ current.lease # 0
  BY DEF OpenIsRecoverable
<1>1. Ordered /\ job.cursor \in 0 .. TotalParts /\ TotalParts \in Nat \ {0}
  BY DEF ImportInv, DataInv, Typed, Job, ImportAssumption
<1>2. job.cursor # TotalParts
  BY <1>1 DEF Ordered, Active
<1>3. job.cursor \in Parts
  BY <1>1, <1>2 DEF Parts
<1>4. part[job.cursor].status \in {"pending", "processing"} /\ Sound(part[job.cursor])
  BY <1>1, <1>3 DEF Ordered, ImportInv, DataInv
<1> QED BY <1>4 DEF Sound

\* An import that was accepted is never stranded, whatever messages, leases, crashes and
\* dead letters do to it: recoverExpiredParts and scanPending find its current part.
THEOREM ImportsRecover == ASSUME ImportAssumption PROVE Spec => []OpenIsRecoverable
<1>1. ImportInv => OpenIsRecoverable
  BY Recoverable
<1> QED BY <1>1, AlwaysImportInv, PTL

\* What is marked as published was sent to the segment reconciliation: the mark follows
\* the messages in publishContactImportReconciliation, and completePart sets it itself
\* only where there is nothing to send.
THEOREM PublishedAfterSent == ASSUME ImportAssumption PROVE Spec => []PublishedWasSent
<1>1. ImportInv => PublishedWasSent
  BY DEF ImportInv, DataInv
<1> QED BY <1>1, AlwaysImportInv, PTL

\* However messages, the scanner and dead letters overlap, rows become contacts once, are
\* counted once as what became of them, and a part that fails has left nothing behind.
THEOREM ImportsKeepLedger == ASSUME ImportAssumption PROVE Spec => ImplementsImportLedger
<1>1. Init => Ledger!Init
  BY InitImportInv
<1>2. ImportInv /\ [Next]_vars => [Ledger!Next]_(Ledger!vars)
  BY NextImportInv DEF Goal
<1> QED BY <1>1, <1>2, AlwaysImportInv, PTL DEF Spec, ImplementsImportLedger, Ledger!Spec

-----------------------------------------------------------------------------
(* The clone                                                               *)

CONSTANTS Size, Chunk
VARIABLES cloneJob, staged, copies, usable, cloner

Clones == INSTANCE CloneJobs WITH job <- cloneJob, proc <- cloner

\* The target project is empty until the job is completed, and an invocation
\* about to stage has rows to stage.
CloneInv ==
    /\ Clones!TypeOK
    /\ cloneJob.status # "completed" => copies = {}
    /\ \A p \in Procs : cloner[p].pc = "stage" => cloner[p].pending # {}

-----------------------------------------------------------------------------
(* Types                                                                   *)

LEMMA MinIsMember ==
    ASSUME NEW S, S \subseteq Nat, S # {}
    PROVE  Clones!Min(S) \in S
<1>1. \E x \in S : \A y \in S : ~(<<y, x>> \in OpToRel(<, Nat))
  BY NatLessThanWellFounded, WFMin
<1>2. \A x, y \in Nat : y < x => <<y, x>> \in OpToRel(<, Nat)
  <2> SUFFICES ASSUME NEW x \in Nat, NEW y \in Nat, y < x PROVE <<y, x>> \in OpToRel(<, Nat)
    OBVIOUS
  <2>1. <<y, x>> \in Nat \X Nat /\ <<y, x>>[1] < <<y, x>>[2]
    OBVIOUS
  <2> QED BY <2>1 DEF OpToRel
<1>3. \E x \in S : \A y \in S : x =< y
  <2>1. PICK x \in S : \A y \in S : ~(<<y, x>> \in OpToRel(<, Nat))
    BY <1>1
  <2>2. ASSUME NEW y \in S PROVE x =< y
    <3>1. x \in Nat /\ y \in Nat /\ ~(y < x)
      BY <1>2, <2>1
    <3> QED BY <3>1
  <2> QED BY <2>2
<1> QED BY <1>3 DEF Clones!Min

\* One invocation moves to a state that is in order; the others stay put.
LEMMA CloneMoved ==
    ASSUME CloneInv, NEW p \in Procs, NEW q \in Clones!ProcState,
           q.pc = "stage" => q.pending # {}, cloner' = [cloner EXCEPT ![p] = q]
    PROVE  /\ cloner' \in [Procs -> Clones!ProcState]
           /\ \A x \in Procs : cloner'[x].pc = "stage" => cloner'[x].pending # {}
BY DEF CloneInv, Clones!TypeOK

LEMMA CloneWent ==
    ASSUME CloneInv, NEW p \in Procs,
           NEW pc \in {"load", "remaining", "requeue", "mappings", "materialize", "catch"},
           Clones!Goto(p, pc)
    PROVE  /\ cloner' \in [Procs -> Clones!ProcState]
           /\ \A x \in Procs : cloner'[x].pc = "stage" => cloner'[x].pending # {}
<1>1. [cloner[p] EXCEPT !.pc = pc] \in Clones!ProcState /\ [cloner[p] EXCEPT !.pc = pc].pc = pc
  BY DEF CloneInv, Clones!TypeOK, Clones!ProcState
<1>2. cloner' = [cloner EXCEPT ![p] = [cloner[p] EXCEPT !.pc = pc]]
  BY DEF Clones!Goto
<1> QED BY <1>1, <1>2, CloneMoved

LEMMA CloneReturned ==
    ASSUME CloneInv, NEW p \in Procs, Clones!Return(p)
    PROVE  /\ cloner' \in [Procs -> Clones!ProcState]
           /\ \A x \in Procs : cloner'[x].pc = "stage" => cloner'[x].pending # {}
<1>1. Clones!Idle \in Clones!ProcState /\ Clones!Idle.pc = "idle"
  BY DEF Clones!Idle, Clones!ProcState
<1> QED BY <1>1, CloneMoved DEF Clones!Return

LEMMA CloneRows ==
    /\ \A s \in {"queued", "completed", "failed"} :
           Clones!Free(s) \in Clones!Job /\ Clones!Free(s).status = s
    /\ \A p \in Procs : [status |-> "running", lease |-> p, live |-> TRUE] \in Clones!Job
BY DEF Clones!Free, Clones!Job

LEMMA CloneInit == Clones!Init => CloneInv
BY DEF Clones!Init, CloneInv, Clones!TypeOK, Clones!Job, Clones!Idle, Clones!ProcState

LEMMA CloneNext == ASSUME CloneInv, [Clones!Next]_Clones!vars PROVE CloneInv'
<1>0. Clones!TypeOK
  BY DEF CloneInv
<1>1. CASE Clones!Start \/ Clones!Retry \/ Clones!LeaseExpires \/ Clones!ReferencesChange
  <2>1. ASSUME UNCHANGED <<staged, copies, cloner>>, cloneJob' \in Clones!Job,
               usable' \in BOOLEAN, cloneJob'.status # "completed",
               cloneJob.status # "completed"
        PROVE  CloneInv'
    BY <1>0, <2>1 DEF CloneInv, Clones!TypeOK
  <2>2. CASE Clones!Start
    <3>1. cloneJob' = [cloneJob EXCEPT !.status = "queued"] /\ cloneJob.status = "preview"
      BY <2>2 DEF Clones!Start
    <3> QED BY <1>0, <2>1, <2>2, <3>1 DEF Clones!Start, Clones!TypeOK, Clones!Job
  <2>3. CASE Clones!Retry
    <3>1. cloneJob' = Clones!Free("queued") /\ cloneJob.status = "failed"
      BY <2>3 DEF Clones!Retry
    <3> QED BY <1>0, <2>1, <2>3, <3>1, CloneRows DEF Clones!Retry, Clones!TypeOK
  <2>4. CASE Clones!LeaseExpires
    <3>1. cloneJob' = [cloneJob EXCEPT !.live = FALSE] /\ cloneJob.status = "running"
      BY <2>4 DEF Clones!LeaseExpires
    <3> QED BY <1>0, <2>1, <2>4, <3>1 DEF Clones!LeaseExpires, Clones!TypeOK, Clones!Job
  <2>5. CASE Clones!ReferencesChange
    BY <1>0, <2>5 DEF Clones!ReferencesChange, CloneInv, Clones!TypeOK
  <2> QED BY <1>1, <2>2, <2>3, <2>4, <2>5
<1>2. ASSUME NEW p \in Procs, Clones!Claim(p) PROVE CloneInv'
  <2>1. cloneJob' \in Clones!Job /\ cloneJob'.status = "running" /\ copies' = {}
    BY <1>0, <1>2, CloneRows DEF Clones!Claim, CloneInv
  <2> QED BY <1>2, <2>1, CloneWent DEF Clones!Claim, CloneInv, Clones!TypeOK
<1>3. ASSUME NEW p \in Procs, Clones!LoadChunk(p) PROVE CloneInv'
  <2>1. PICK chunk \in SUBSET Clones!Resources :
          cloner' = [cloner EXCEPT ![p].pending = chunk,
                               ![p].pc = IF chunk = {} THEN "remaining" ELSE "stage"]
    BY <1>3 DEF Clones!LoadChunk
  <2> DEFINE q == [cloner[p] EXCEPT !.pending = chunk,
                                  !.pc = IF chunk = {} THEN "remaining" ELSE "stage"]
  <2>2. /\ q \in Clones!ProcState /\ (q.pc = "stage" => q.pending # {})
        /\ cloner' = [cloner EXCEPT ![p] = q]
    BY <1>0, <2>1 DEF Clones!TypeOK, Clones!ProcState
  <2>3. UNCHANGED <<cloneJob, staged, copies, usable>>
    BY <1>3 DEF Clones!LoadChunk
  <2> QED BY <2>2, <2>3, CloneMoved DEF CloneInv, Clones!TypeOK
<1>4. ASSUME NEW p \in Procs, Clones!Stage(p) PROVE CloneInv'
  <2> DEFINE r == Clones!Min(cloner[p].pending)
             q == [cloner[p] EXCEPT !.pending = @ \ {r},
                        !.pc = IF cloner[p].pending = {r} THEN "remaining" ELSE "stage"]
  <2>1. /\ cloner[p].pending \subseteq Clones!Resources /\ cloner[p].pending # {}
        /\ cloner[p] \in Clones!ProcState
    BY <1>0, <1>4 DEF Clones!Stage, CloneInv, Clones!TypeOK, Clones!ProcState
  <2>2. r \in cloner[p].pending
    BY <2>1, MinIsMember DEF Clones!Resources
  <2>3. q \in Clones!ProcState /\ (q.pc = "stage" => q.pending # {})
    BY <2>1, <2>2 DEF Clones!ProcState
  <2>4. cloner' = [cloner EXCEPT ![p] = q]
    BY <1>4 DEF Clones!Stage
  <2> HIDE DEF q
  <2>5. /\ cloner' \in [Procs -> Clones!ProcState]
        /\ \A x \in Procs : cloner'[x].pc = "stage" => cloner'[x].pending # {}
    BY <2>3, <2>4, CloneMoved
  <2> HIDE DEF r
  <2>6. staged' = staged \/ staged' = staged \cup {r}
    BY <1>4 DEF Clones!Stage, r
  <2>7. staged' \subseteq Clones!Resources
    BY <1>0, <2>1, <2>2, <2>6 DEF Clones!TypeOK
  <2>8. UNCHANGED <<cloneJob, copies, usable>>
    BY <1>4 DEF Clones!Stage
  <2> QED BY <1>0, <2>5, <2>7, <2>8 DEF CloneInv, Clones!TypeOK
<1>5. ASSUME NEW p \in Procs, Clones!CheckRemaining(p) \/ Clones!ReadMappings(p) PROVE CloneInv'
  BY <1>5, CloneWent DEF Clones!CheckRemaining, Clones!ReadMappings, CloneInv, Clones!TypeOK
<1>6. ASSUME NEW p \in Procs, Clones!Requeue(p) \/ Clones!Fail(p) PROVE CloneInv'
  BY <1>6, CloneReturned, CloneRows DEF Clones!Requeue, Clones!Fail, Clones!Holds, CloneInv,
       Clones!TypeOK
<1>7. ASSUME NEW p \in Procs, Clones!Materialize(p) PROVE CloneInv'
  BY <1>7, CloneWent, CloneReturned, CloneRows DEF Clones!Materialize, CloneInv, Clones!TypeOK
<1>8. ASSUME NEW p \in Procs, Clones!Break(p) PROVE CloneInv'
  <2>1. [pc |-> "catch", pending |-> {}] \in Clones!ProcState
    BY DEF Clones!ProcState
  <2> QED BY <1>8, <2>1, CloneMoved DEF Clones!Break, CloneInv, Clones!TypeOK
<1>9. ASSUME NEW p \in Procs, Clones!Crash(p) PROVE CloneInv'
  BY <1>9, CloneReturned DEF Clones!Crash, CloneInv, Clones!TypeOK
<1>10. CASE UNCHANGED Clones!vars
  BY <1>10 DEF Clones!vars, CloneInv, Clones!TypeOK
<1> QED BY <1>1, <1>2, <1>3, <1>4, <1>5, <1>6, <1>7, <1>8, <1>9, <1>10 DEF Clones!Next,
             Clones!Process

LEMMA AlwaysCloneInv == Clones!Spec => []CloneInv
<1> QED BY CloneInit, CloneNext, PTL DEF Clones!Spec

\* The job row, what is staged and copied and what each invocation holds keep
\* their types.
THEOREM CloneTypes == Clones!Spec => []Clones!TypeOK
<1>1. CloneInv => Clones!TypeOK
  BY DEF CloneInv
<1> QED BY <1>1, AlwaysCloneInv, PTL

-----------------------------------------------------------------------------
(* Refinement                                                              *)

LEMMA RefineClone ==
    ASSUME CloneInv, [Clones!Next]_Clones!vars
    PROVE  [Clones!Promise!Next]_(Clones!Promise!vars)
<1> USE DEF Clones!Promise!Next, Clones!Promise!vars
<1>0. cloneJob \in Clones!Job /\ (cloneJob.status # "completed" => copies = {})
  BY DEF CloneInv, Clones!TypeOK
<1>1. CASE Clones!Start
  BY <1>0, <1>1 DEF Clones!Start, Clones!Job
<1>2. CASE Clones!Retry
  BY <1>0, <1>2 DEF Clones!Retry, Clones!Free, Clones!Promise!AskAgain
<1>3. CASE Clones!LeaseExpires
  BY <1>0, <1>3 DEF Clones!LeaseExpires, Clones!Job
<1>4. CASE Clones!ReferencesChange
  BY <1>4 DEF Clones!ReferencesChange, CloneInv, Clones!TypeOK
<1>5. ASSUME NEW p \in Procs, Clones!Claim(p) PROVE [Clones!Promise!Next]_(Clones!Promise!vars)
  BY <1>0, <1>5 DEF Clones!Claim
<1>6. ASSUME NEW p \in Procs, Clones!Requeue(p) PROVE [Clones!Promise!Next]_(Clones!Promise!vars)
  BY <1>0, <1>6 DEF Clones!Requeue, Clones!Holds, Clones!Free
<1>7. ASSUME NEW p \in Procs, Clones!Fail(p) PROVE [Clones!Promise!Next]_(Clones!Promise!vars)
  BY <1>0, <1>7 DEF Clones!Fail, Clones!Holds, Clones!Free, Clones!Promise!GiveUp
<1>8. ASSUME NEW p \in Procs, Clones!Materialize(p)
      PROVE  [Clones!Promise!Next]_(Clones!Promise!vars)
  BY <1>0, <1>8 DEF Clones!Materialize, Clones!MayMaterialize, Clones!Holds, Clones!Free,
       Clones!Promise!Copy
<1>9. ASSUME NEW p \in Procs,
             \/ Clones!LoadChunk(p) \/ Clones!Stage(p) \/ Clones!CheckRemaining(p)
             \/ Clones!ReadMappings(p)
             \/ Clones!Break(p) \/ Clones!Crash(p)
      PROVE  [Clones!Promise!Next]_(Clones!Promise!vars)
  BY <1>9 DEF Clones!LoadChunk, Clones!Stage, Clones!CheckRemaining, Clones!ReadMappings,
       Clones!Break, Clones!Crash
<1>10. CASE UNCHANGED Clones!vars
  BY <1>10 DEF Clones!vars
<1> QED BY <1>1, <1>2, <1>3, <1>4, <1>5, <1>6, <1>7, <1>8, <1>9, <1>10 DEF Clones!Next,
             Clones!Process

\* What the clone promises: whatever invocations do to the same job, the
\* resources of the target appear in one step while the references hold,
\* after which neither recordFailure nor a retry reopens the job.
THEOREM ClonesOnce == Clones!Spec => Clones!ImplementsCloneOnce
<1>1. Clones!Init => Clones!Promise!Init
  BY DEF Clones!Init, Clones!Promise!Init
<1>2. CloneInv /\ [Clones!Next]_Clones!vars => [Clones!Promise!Next]_(Clones!Promise!vars)
  BY RefineClone
<1> QED BY <1>1, <1>2, AlwaysCloneInv, PTL DEF Clones!Spec, Clones!ImplementsCloneOnce,
             Clones!Promise!Spec

-----------------------------------------------------------------------------
(* The members of a program                                                *)

CONSTANTS Definition, Contacts, Calls, Command, Total, Readable, Unit, MaxTries, MaxChanges
VARIABLES journey, recorded, published, open, gone, authorized, memberJob, report, member

M == INSTANCE ProgramMembers WITH job <- memberJob, proc <- member

\* What an invocation carries where it will need it.
Carries(q) ==
    /\ q.pc \in {"prior", "program", "member", "commit", "reload"} =>
         q.key \in Calls \cup Readable
    /\ q.pc \in {"program"} => q.key \notin M!Rows
    /\ q.pc \in {"again", "reload", "reject"} => q.key \in M!Rows
    /\ q.pc \in {"load", "row", "prior", "program", "member", "commit"} => q.tries < MaxTries
    /\ q.processed <= q.upto
    /\ q.key \in M!Rows => q.key = q.processed + 1 /\ q.processed < q.upto

\* What it relies on of the members: a batch was prepared from a revision that was there,
\* and what was found to be carried out is.
Prepares(q, journeys, done) ==
    /\ q.pc = "commit" =>
         LET j == journeys[Command[q.key].contact]
         IN  /\ q.revision \in 0 .. Len(j)
             /\ M!Outcome(M!At(j, q.revision), q.revision, Command[q.key], q.published)
                  # M!Refused
    /\ q.pc = "again" => q.key \in done

\* A row was not carried out before it is taken.
InTurn == \A r \in M!Rows : r \in recorded => r <= memberJob.processed

MemberInv ==
    /\ M!TypeOK /\ InTurn
    /\ \A p \in Procs : Carries(member[p]) /\ Prepares(member[p], journey, recorded)

-----------------------------------------------------------------------------
(* What a command makes of a member                                        *)

LEMMA OutcomeIsMember ==
    ASSUME M!ProgramAssumption, NEW current \in M!Member \cup {None}, NEW revision,
           NEW k \in Calls \cup Readable, NEW version \in M!Versions \cup {None},
           M!Outcome(current, revision, Command[k], version) # M!Refused
    PROVE  M!Outcome(current, revision, Command[k], version) \in M!Member
<1> DEFINE c == Command[k]
           v == M!VersionFor(current, c, version)
           wanted == IF M!KeepsPinned(current, c) THEN current.status ELSE c.status
           d == Definition[v]
           status == IF wanted # None THEN wanted
                     ELSE IF current # None THEN current.status ELSE d.initial
<1>1. v \in M!Versions
  <2>1. v # None
    BY DEF M!Outcome, M!Admissible
  <2>2. c.version \in M!Versions \cup {None}
    BY DEF M!ProgramAssumption
  <2> QED BY <2>1, <2>2 DEF M!VersionFor, M!Member
<1>2. M!Outcome(current, revision, c, version) = M!Resolve(current, v, wanted, c)
  BY DEF M!Outcome
<1>3. M!Resolve(current, v, wanted, c) # M!Refused
  BY <1>2
<1>4. current # None => current \in M!Member
  OBVIOUS
<1> HIDE DEF v, wanted, c
<1> DEFINE R == M!Resolve(current, v, wanted, c)
           won == status \in d.success
           had == current # None /\ current.success
<1>5. \/ R = M!Refused
      \/ R = current /\ current # None
      \/ /\ status \in d.statuses
         /\ \/ R = [version |-> v, status |-> status, success |-> won]
            \/ R = [version |-> v, status |-> status, success |-> won \/ had]
  BY DEF M!Resolve
<1>7. won \in BOOLEAN /\ (won \/ had) \in BOOLEAN
  OBVIOUS
<1>6. ASSUME status \in d.statuses, NEW b \in BOOLEAN
      PROVE  [version |-> v, status |-> status, success |-> b] \in M!Member
  BY <1>1, <1>6 DEF M!Member
<1> HIDE DEF R, won, had, status, d
<1>8. R \in M!Member
  BY <1>3, <1>4, <1>5, <1>6, <1>7 DEF R
<1> QED BY <1>2, <1>8 DEF R, c

\* The published version only matters to a command that begins with it.
LEMMA SameOutcome ==
    ASSUME NEW current, NEW revision, NEW c, NEW v, NEW w,
           M!VersionFor(current, c, v) = M!VersionFor(current, c, w)
    PROVE  M!Outcome(current, revision, c, v) = M!Outcome(current, revision, c, w)
BY DEF M!Outcome, M!Admissible

LEMMA Continues ==
    ASSUME NEW j \in Seq(M!Member), NEW o \in M!Member, NEW c
    PROVE  LET i == M!Continued(j, o, c)
           IN  /\ i \in Seq(M!Member) /\ Len(i) >= Len(j)
               /\ \A n \in 1 .. Len(j) : i[n] = j[n]
BY DEF M!Continued

LEMMA AtIs ==
    ASSUME NEW j \in Seq(M!Member), NEW n \in 0 .. Len(j)
    PROVE  M!At(j, n) \in M!Member \cup {None}
BY DEF M!At

-----------------------------------------------------------------------------
(* Steps                                                                   *)

\* Journeys go on, and what was carried out stays so.
JourneysGoOn ==
    /\ recorded \subseteq recorded'
    /\ \A c \in Contacts : /\ journey[c] \in Seq(M!Member) /\ journey'[c] \in Seq(M!Member)
                           /\ Len(journey[c]) <= Len(journey'[c])
                           /\ \A n \in 1 .. Len(journey[c]) : journey'[c][n] = journey[c][n]

MemberProcs ==
    /\ member \in [Procs -> M!ProcState]
    /\ \A p \in Procs : Carries(member[p]) /\ Prepares(member[p], journey, recorded)

LEMMA StaysPrepared ==
    ASSUME M!ProgramAssumption, JourneysGoOn, NEW q \in M!ProcState, Carries(q),
           Prepares(q, journey, recorded)
    PROVE  Prepares(q, journey', recorded')
<1>1. CASE q.pc = "commit"
  <2> DEFINE c == Command[q.key].contact
  <2>1. c \in Contacts
    BY <1>1 DEF M!ProgramAssumption, Carries
  <2>2. q.revision \in 0 .. Len(journey[c])
    BY <1>1 DEF Prepares
  <2>3. M!At(journey'[c], q.revision) = M!At(journey[c], q.revision)
        /\ q.revision \in 0 .. Len(journey'[c])
    BY <2>1, <2>2 DEF JourneysGoOn, M!At
  <2> QED BY <1>1, <2>3 DEF Prepares
<1>2. CASE q.pc # "commit"
  BY <1>2 DEF Prepares, JourneysGoOn
<1> QED BY <1>1, <1>2

LEMMA MemberMoved ==
    ASSUME M!ProgramAssumption, MemberInv, JourneysGoOn, NEW p \in Procs, NEW q \in M!ProcState,
           Carries(q), Prepares(q, journey', recorded'), member' = [member EXCEPT ![p] = q]
    PROVE  MemberProcs'
<1>1. member \in [Procs -> M!ProcState]
  BY DEF MemberInv, M!TypeOK
<1>2. ASSUME NEW x \in Procs
      PROVE  Carries(member'[x]) /\ Prepares(member'[x], journey', recorded')
  <2>1. CASE x = p
    BY <1>1, <2>1
  <2>2. CASE x # p
    <3>1. member'[x] = member[x] /\ member[x] \in M!ProcState
      BY <1>1, <2>2
    <3> QED BY <3>1, StaysPrepared DEF MemberInv
  <2> QED BY <2>1, <2>2
<1> QED BY <1>1, <1>2 DEF MemberProcs

LEMMA MemberStayed ==
    ASSUME M!ProgramAssumption, MemberInv, JourneysGoOn, UNCHANGED member PROVE MemberProcs'
<1>1. ASSUME NEW x \in Procs
      PROVE  Carries(member'[x]) /\ Prepares(member'[x], journey', recorded')
  <2>1. member'[x] = member[x] /\ member[x] \in M!ProcState
    BY DEF MemberInv, M!TypeOK
  <2> QED BY <2>1, StaysPrepared DEF MemberInv
<1> QED BY <1>1 DEF MemberProcs, MemberInv, M!TypeOK

LEMMA JourneysStay == ASSUME M!TypeOK, UNCHANGED <<journey, recorded>> PROVE JourneysGoOn
BY DEF M!TypeOK, JourneysGoOn

LEMMA MemberIdleOK ==
    ASSUME M!ProgramAssumption
    PROVE  M!Idle \in M!ProcState /\ Carries(M!Idle) /\ \A j, done : Prepares(M!Idle, j, done)
BY DEF M!ProgramAssumption, M!Idle, M!ProcState, M!PC, Carries, Prepares, M!Keys, M!Rows

LEMMA MemberReturned ==
    ASSUME M!ProgramAssumption, MemberInv, JourneysGoOn, NEW p \in Procs, M!Return(p)
    PROVE  MemberProcs'
BY MemberIdleOK, MemberMoved DEF M!Return

\* The invocation p and what it holds.
LEMMA MemberHolding ==
    ASSUME M!ProgramAssumption, MemberInv, NEW p \in Procs
    PROVE  /\ member[p] \in M!ProcState /\ Carries(member[p])
           /\ Prepares(member[p], journey, recorded)
           /\ member[p].key \in Calls \cup Readable =>
                /\ member[p].key \in M!Keys /\ Command[member[p].key].contact \in Contacts
                /\ journey[Command[member[p].key].contact] \in Seq(M!Member)
           /\ Readable \subseteq M!Rows /\ Calls \cap M!Rows = {} /\ M!Rows \subseteq M!Keys
           /\ None \notin M!Keys
BY DEF MemberInv, M!TypeOK, M!ProgramAssumption, M!Keys

LEMMA RowRejected ==
    ASSUME M!ProgramAssumption, MemberInv, JourneysGoOn, NEW p \in Procs, M!GiveUp(p)
    PROVE  MemberProcs'
<1> DEFINE q == [member[p] EXCEPT !.pc = "reject"]
<1>1. CASE M!Importing(p)
  <2>1. q \in M!ProcState /\ Carries(q) /\ Prepares(q, journey', recorded')
    BY <1>1, MemberHolding DEF M!Importing, M!ProcState, M!PC, Carries, Prepares
  <2>2. member' = [member EXCEPT ![p] = q]
    BY <1>1 DEF M!GiveUp, M!Goto
  <2> QED BY <2>1, <2>2, MemberMoved
<1>2. CASE ~M!Importing(p)
  BY <1>2, MemberReturned DEF M!GiveUp
<1> QED BY <1>1, <1>2

-----------------------------------------------------------------------------
(* Types and invocations                                                   *)

\* Everything but the invocations.
MemberRows ==
    /\ journey \in [Contacts -> Seq(M!Member)]
    /\ recorded \subseteq M!Keys
    /\ published \in M!Versions \cup {None}
    /\ open \in BOOLEAN /\ gone \subseteq Contacts /\ authorized \in BOOLEAN
    /\ memberJob \in M!Job
    /\ report \in [M!Rows -> {"none", "ok", "failed"}]
    /\ InTurn

LEMMA MemberParts == MemberInv <=> MemberRows /\ MemberProcs
BY DEF MemberInv, M!TypeOK, MemberRows, MemberProcs

LEMMA MemberPartsAfter == ASSUME MemberRows', MemberProcs' PROVE MemberInv'
BY DEF MemberInv, M!TypeOK, MemberRows, MemberProcs

LEMMA SameMemberRows ==
    ASSUME MemberRows,
           UNCHANGED <<journey, recorded, published, open, gone, authorized, memberJob, report>>
    PROVE  MemberRows'
BY DEF MemberRows, InTurn

LEMMA InitMembers == ASSUME M!ProgramAssumption, M!Init PROVE MemberInv
<1>1. MemberRows
  BY DEF M!ProgramAssumption, M!Init, MemberRows, InTurn, M!Job, M!Rows, M!Keys
<1>2. MemberProcs
  BY MemberIdleOK DEF M!Init, MemberProcs
<1> QED BY <1>1, <1>2, MemberParts

\* A step that reads: the tables stay, and p goes on with q.
LEMMA MemberReads ==
    ASSUME M!ProgramAssumption, MemberInv, NEW p \in Procs, NEW q \in M!ProcState, Carries(q),
           Prepares(q, journey, recorded), member' = [member EXCEPT ![p] = q],
           UNCHANGED <<M!members, M!surroundings, M!import>>
    PROVE  MemberInv'
<1>1. UNCHANGED <<journey, recorded, published, open, gone, authorized, memberJob, report>>
  BY DEF M!members, M!surroundings, M!import
<1>2. JourneysGoOn
  BY <1>1, JourneysStay DEF MemberInv
<1>3. Prepares(q, journey', recorded')
  BY <1>1
<1> QED BY <1>1, <1>2, <1>3, MemberMoved, SameMemberRows, MemberParts, MemberPartsAfter

LEMMA MemberEnds ==
    ASSUME M!ProgramAssumption, MemberInv, NEW p \in Procs, M!Return(p) \/ M!GiveUp(p),
           UNCHANGED <<M!members, M!surroundings, M!import>>
    PROVE  MemberInv'
<1>1. UNCHANGED <<journey, recorded, published, open, gone, authorized, memberJob, report>>
  BY DEF M!members, M!surroundings, M!import
<1>2. JourneysGoOn
  BY <1>1, JourneysStay DEF MemberInv
<1> QED BY <1>1, <1>2, MemberReturned, RowRejected, SameMemberRows, MemberParts, MemberPartsAfter

-----------------------------------------------------------------------------
(* The batches                                                             *)

LEMMA MemberBatch ==
    ASSUME M!ProgramAssumption, MemberInv, NEW p \in Procs, M!Commit(p)
    PROVE  LET k == member[p].key
               c == Command[k].contact
           IN  /\ k \in Calls \cup Readable /\ k \in M!Keys /\ c \in Contacts
               /\ M!Prepared(p) # M!Refused /\ M!Prepared(p) \in M!Member
               /\ journey' = [journey EXCEPT ![c] =
                      M!Continued(journey[c], M!Prepared(p), Command[k])]
               /\ recorded' = recorded \cup {k}
               /\ JourneysGoOn /\ journey' \in [Contacts -> Seq(M!Member)]
<1> DEFINE k == member[p].key
           c == Command[k].contact
           o == M!Prepared(p)
           j == M!Continued(journey[c], o, Command[k])
<1>1. /\ k \in Calls \cup Readable /\ k \in M!Keys /\ c \in Contacts
      /\ journey[c] \in Seq(M!Member)
      /\ member[p] \in M!ProcState /\ Prepares(member[p], journey, recorded)
      /\ member[p].pc = "commit"
  BY MemberHolding DEF M!Commit, Carries
<1>2. member[p].revision \in 0 .. Len(journey[c]) /\ o # M!Refused
  BY <1>1 DEF Prepares, M!Prepared, M!Base
<1>3. M!At(journey[c], member[p].revision) \in M!Member \cup {None}
  BY <1>1, <1>2, AtIs
<1>4. o \in M!Member
  <2>1. member[p].published \in M!Versions \cup {None}
    BY <1>1 DEF M!ProcState
  <2> QED BY <1>1, <1>2, <1>3, <2>1, OutcomeIsMember DEF M!Prepared, M!Base
<1>5. journey' = [journey EXCEPT ![c] = j] /\ recorded' = recorded \cup {k}
  BY DEF M!Commit
<1>6. /\ j \in Seq(M!Member) /\ Len(j) >= Len(journey[c])
      /\ \A n \in 1 .. Len(journey[c]) : j[n] = journey[c][n]
  BY <1>1, <1>4, Continues
<1> HIDE DEF j, o
<1>7. journey \in [Contacts -> Seq(M!Member)]
  BY DEF MemberInv, M!TypeOK
<1>8. journey' \in [Contacts -> Seq(M!Member)]
  BY <1>5, <1>6, <1>7
<1>9. JourneysGoOn
  <2>1. ASSUME NEW d \in Contacts
        PROVE  /\ Len(journey[d]) <= Len(journey'[d])
               /\ \A n \in 1 .. Len(journey[d]) : journey'[d][n] = journey[d][n]
    <3>1. CASE d = c
      BY <1>5, <1>6, <1>7, <3>1
    <3>2. CASE d # c
      BY <1>5, <1>7, <3>2
    <3> QED BY <3>1, <3>2
  <2> QED BY <1>5, <1>7, <1>8, <2>1 DEF JourneysGoOn
<1> QED BY <1>1, <1>2, <1>4, <1>5, <1>8, <1>9 DEF o, j

LEMMA RowState ==
    ASSUME M!ProgramAssumption, NEW q \in M!ProcState, q.processed + 1 \in 0 .. Total
    PROVE  [q EXCEPT !.pc = "row", !.processed = @ + 1, !.key = None, !.tries = 0,
                     !.revision = 0] \in M!ProcState
<1>1. 0 \in 0 .. MaxTries /\ 0 \in Nat /\ None \in M!Keys \cup {None}
  BY DEF M!ProgramAssumption
<1> QED BY <1>1 DEF M!ProcState, M!PC

\* commitRow takes the next row.
LEMMA RowTaken ==
    ASSUME M!ProgramAssumption, MemberInv, JourneysGoOn, NEW p \in Procs,
           NEW o \in {"ok", "failed"},
           M!Importing(p), M!Fenced(p), M!ReportRow(p, o)
    PROVE  /\ MemberProcs' /\ memberJob' \in M!Job
           /\ report' \in [M!Rows -> {"none", "ok", "failed"}]
           /\ member[p].key = memberJob.processed + 1
           /\ memberJob'.processed = memberJob.processed + 1
           /\ memberJob.processed + 1 <= Total
           /\ report' = [report EXCEPT ![memberJob.processed + 1] = o]
<1> DEFINE q == [member[p] EXCEPT !.pc = "row", !.processed = @ + 1, !.key = None, !.tries = 0,
                                !.revision = 0]
<1>1. /\ member[p] \in M!ProcState /\ Carries(member[p])
      /\ member[p].key \in M!Rows /\ None \notin M!Rows
      /\ memberJob \in M!Job /\ report \in [M!Rows -> {"none", "ok", "failed"}] /\ Total \in Nat
      /\ MaxTries \in Nat \ {0}
  BY MemberHolding DEF M!Importing, MemberInv, M!TypeOK, M!ProgramAssumption
<1>2. /\ member[p].key = member[p].processed + 1 /\ member[p].processed < member[p].upto
      /\ memberJob.processed = member[p].processed /\ member[p].upto \in 0 .. Total
      /\ memberJob.processed \in 0 .. Total
  BY <1>1 DEF Carries, M!Fenced, M!ProcState, M!Job
<1>3. member[p].processed + 1 \in 0 .. Total /\ member[p].processed + 1 <= member[p].upto
      /\ member[p].processed \in Nat
  BY <1>1, <1>2
<1>4. q \in M!ProcState
  BY <1>1, <1>3, RowState
<1>5. /\ q.pc = "row" /\ q.key = None /\ q.tries = 0 /\ q.processed = member[p].processed + 1
      /\ q.upto = member[p].upto
  BY <1>1 DEF M!ProcState
<1>6. member' = [member EXCEPT ![p] = q]
  BY DEF M!ReportRow
<1> HIDE DEF q
<1>7. Carries(q) /\ Prepares(q, journey', recorded')
  BY <1>1, <1>3, <1>5 DEF Carries, Prepares
<1>8. MemberProcs'
  BY <1>4, <1>6, <1>7, MemberMoved
<1>9. memberJob' = [memberJob EXCEPT !.processed = member[p].processed + 1, !.live = TRUE]
  BY DEF M!ReportRow
<1>10. memberJob' \in M!Job /\ memberJob'.processed = memberJob.processed + 1
  BY <1>1, <1>2, <1>3, <1>9 DEF M!Job
<1>11. report' = [report EXCEPT ![member[p].key] = o]
  BY DEF M!ReportRow
<1> QED BY <1>1, <1>2, <1>3, <1>8, <1>10, <1>11

-----------------------------------------------------------------------------
(* The promise                                                             *)

MembersPromised == [M!Ledger!Next]_(M!Ledger!vars)

LEMMA SameRule ==
    ASSUME NEW current, NEW revision, NEW c, NEW v
    PROVE  M!Ledger!Outcome(current, revision, c, v) = M!Outcome(current, revision, c, v)
BY DEF M!Ledger!Outcome, M!Ledger!Refused, M!Ledger!Reachable, M!Ledger!VersionFor,
    M!Ledger!KeepsPinned, M!Ledger!Admissible, M!Ledger!Resolve, M!Outcome, M!Refused,
    M!Reachable, M!VersionFor, M!KeepsPinned, M!Admissible, M!Resolve

\* What is written was prepared from what the member, the project and the contact are now.
LEMMA CarriedOut ==
    ASSUME M!ProgramAssumption, MemberInv, NEW p \in Procs, M!Commit(p)
    PROVE  M!Ledger!CarryOut(member[p].key)
<1> DEFINE k == member[p].key
           j == journey[Command[k].contact]
           n == Len(j)
<1>1. /\ k \in Calls \cup Readable /\ Command[k].contact \in Contacts /\ j \in Seq(M!Member)
      /\ member[p].pc = "commit"
  BY MemberHolding DEF M!Commit, Carries
<1>2. /\ k \notin recorded /\ open /\ Command[k].contact \notin gone
      /\ Command[k].source = "automation" => authorized
      /\ n = member[p].revision
      /\ member[p].revision = 0 /\ Command[k].version = None => published = member[p].published
  BY DEF M!Commit, M!Guarded, M!Permitted, M!Unchanged, M!StillPublished
<1>3. M!VersionFor(M!At(j, n), Command[k], member[p].published)
        = M!VersionFor(M!At(j, n), Command[k], published)
  <2>1. CASE n = 0
    BY <1>2, <2>1 DEF M!VersionFor, M!At
  <2>2. CASE n # 0
    <3>1. M!At(j, n) \in M!Member /\ None \notin M!Member
      BY <1>1, <2>2 DEF M!At, M!ProgramAssumption
    <3> QED BY <3>1 DEF M!VersionFor
  <2> QED BY <2>1, <2>2
<1>4. M!Prepared(p) = M!Outcome(M!At(j, n), n, Command[k], published)
  BY <1>2, <1>3, SameOutcome DEF M!Prepared, M!Base
<1>5. M!Prepared(p) = M!Ledger!Outcome(M!Ledger!At(j, n), n, Command[k], published)
  BY <1>4, SameRule DEF M!At, M!Ledger!At
<1>6. /\ M!Prepared(p) # M!Refused
      /\ journey' =
           [journey EXCEPT ![Command[k].contact] = M!Continued(j, M!Prepared(p), Command[k])]
      /\ recorded' = recorded \cup {k}
  BY MemberBatch
<1> HIDE DEF n
<1> QED BY <1>2, <1>5, <1>6
          DEF M!Ledger!CarryOut, M!Ledger!Refused, M!Refused, M!Ledger!Continued, M!Continued, n

LEMMA CommitPromised ==
    ASSUME M!ProgramAssumption, MemberInv, NEW p \in Procs, M!Commit(p)
    PROVE  MemberInv' /\ MembersPromised
<1> DEFINE k == member[p].key
<1>1. /\ k \in Calls \cup Readable /\ k \in M!Keys /\ JourneysGoOn /\ recorded' = recorded \cup {k}
      /\ journey' \in [Contacts -> Seq(M!Member)]
  BY MemberBatch
<1>2. M!Ledger!CarryOut(k) /\ M!Rows = 1 .. Total
  BY CarriedOut DEF M!Rows
<1>3. UNCHANGED <<published, open, gone, authorized>>
  BY DEF M!Commit, M!surroundings
<1>4. MemberRows
  BY MemberParts
<1>5. CASE k \in M!Rows
  <2>1. M!Fenced(p) /\ M!ReportRow(p, "ok") /\ M!Importing(p)
    BY <1>5 DEF M!Commit, M!Importing
  <2>2. /\ MemberProcs' /\ memberJob' \in M!Job
        /\ report' \in [M!Rows -> {"none", "ok", "failed"}]
        /\ k = memberJob.processed + 1 /\ memberJob'.processed = memberJob.processed + 1
        /\ memberJob.processed + 1 <= Total
        /\ report' = [report EXCEPT ![memberJob.processed + 1] = "ok"]
    BY <1>1, <2>1, RowTaken
  <2>3. InTurn'
    BY <1>1, <1>4, <2>2 DEF InTurn, MemberRows, M!Rows, M!Job
  <2>4. MemberRows'
    BY <1>1, <1>3, <1>4, <2>2, <2>3 DEF MemberRows
  <2>5. M!Ledger!TakeRow
    BY <1>2, <1>3, <2>2 DEF M!Ledger!TakeRow
  <2> QED BY <2>2, <2>4, <2>5, MemberPartsAfter DEF MembersPromised, M!Ledger!Next
<1>6. CASE k \notin M!Rows
  <2>1. M!Return(p) /\ UNCHANGED <<memberJob, report>>
    BY <1>6 DEF M!Commit, M!Importing, M!import
  <2>2. MemberProcs'
    BY <1>1, <2>1, MemberReturned
  <2>3. MemberRows'
    BY <1>1, <1>3, <1>4, <1>6, <2>1 DEF MemberRows, InTurn
  <2>4. M!Ledger!Carry(k)
    BY <1>2, <1>3, <1>6, <2>1 DEF M!Ledger!Carry
  <2> QED BY <1>1, <2>2, <2>3, <2>4, MemberPartsAfter DEF MembersPromised, M!Ledger!Next
<1> QED BY <1>5, <1>6

LEMMA CommitRowPromised ==
    ASSUME M!ProgramAssumption, MemberInv, NEW p \in Procs, M!CommitRow(p)
    PROVE  MemberInv' /\ MembersPromised
<1>1. UNCHANGED <<journey, recorded, published, open, gone, authorized>>
  BY DEF M!CommitRow, M!members, M!surroundings
<1>2. MemberRows /\ JourneysGoOn /\ Carries(member[p]) /\ Prepares(member[p], journey, recorded)
  BY <1>1, MemberParts, JourneysStay, MemberHolding DEF MemberInv
<1>3. M!Importing(p) /\ M!Fenced(p) /\ member[p].pc \in {"again", "reject"}
  BY <1>2 DEF M!CommitRow, M!Importing, Carries
<1>4. member[p].pc # "again"
  <2> SUFFICES ASSUME member[p].pc = "again" PROVE FALSE
    OBVIOUS
  <2>1. member[p].key \in recorded /\ member[p].key \in M!Rows
    BY <1>2, <1>3 DEF Prepares, M!Importing
  <2>2. member[p].key = memberJob.processed + 1 /\ memberJob.processed \in Nat
    BY <1>2, <1>3, <2>1 DEF Carries, M!Fenced, MemberRows, M!Job
  <2> QED BY <1>2, <2>1, <2>2 DEF MemberRows, InTurn
<1>5. M!ReportRow(p, "failed")
  BY <1>4 DEF M!CommitRow
<1>6. /\ MemberProcs' /\ memberJob' \in M!Job
      /\ report' \in [M!Rows -> {"none", "ok", "failed"}]
      /\ memberJob'.processed = memberJob.processed + 1 /\ memberJob.processed + 1 <= Total
      /\ report' = [report EXCEPT ![memberJob.processed + 1] = "failed"]
  BY <1>2, <1>3, <1>5, RowTaken
<1>7. InTurn'
  BY <1>1, <1>2, <1>6 DEF InTurn, MemberRows, M!Rows, M!Job
<1>8. MemberRows'
  BY <1>1, <1>2, <1>6, <1>7 DEF MemberRows
<1>9. M!Ledger!TakeRow
  BY <1>1, <1>6 DEF M!Ledger!TakeRow
<1> QED BY <1>6, <1>8, <1>9, MemberPartsAfter DEF MembersPromised, M!Ledger!Next

-----------------------------------------------------------------------------
(* The other steps                                                         *)

LEMMA MemberHidden ==
    ASSUME UNCHANGED <<M!members, M!surroundings, M!import>> PROVE MembersPromised
BY DEF M!members, M!surroundings, M!import, MembersPromised, M!Ledger!vars

\* A step that moves the job on without counting a row.
LEMMA MemberJobMoves ==
    ASSUME MemberInv, UNCHANGED <<M!members, M!surroundings, report>>, memberJob' \in M!Job,
           memberJob'.processed = memberJob.processed
    PROVE  MemberRows' /\ MembersPromised /\ JourneysGoOn
<1>1. UNCHANGED <<journey, recorded, published, open, gone, authorized, report>>
  BY DEF M!members, M!surroundings
<1>2. MemberRows
  BY MemberParts
<1>3. MemberRows'
  BY <1>1, <1>2 DEF MemberRows, InTurn
<1> QED BY <1>1, <1>3, JourneysStay DEF MembersPromised, M!Ledger!vars, MemberInv

LEMMA CommandReads ==
    ASSUME M!ProgramAssumption, MemberInv, NEW p \in Procs,
           \/ \E k \in Calls : M!Call(p, k)
           \/ M!ReadPrior(p) \/ M!ReadProgram(p) \/ M!ReadMember(p) \/ M!Conflict(p)
    PROVE  MemberInv' /\ MembersPromised
<1>0. /\ member[p] \in M!ProcState /\ Carries(member[p]) /\ Prepares(member[p], journey, recorded)
      /\ Readable \subseteq M!Rows /\ Calls \cap M!Rows = {} /\ MaxTries \in Nat \ {0}
      /\ Calls \cup Readable \subseteq M!Keys /\ M!Rows \subseteq M!Keys
      /\ published \in M!Versions \cup {None}
  BY MemberHolding DEF M!ProgramAssumption, M!Keys, MemberInv, M!TypeOK
<1>1. ASSUME NEW k \in Calls, M!Call(p, k) PROVE MemberInv' /\ MembersPromised
  <2> DEFINE q == [M!Idle EXCEPT !.pc = "prior", !.key = k]
  <2>1. /\ q \in M!ProcState /\ q.pc = "prior" /\ q.key = k /\ q.tries = 0
        /\ q.processed = 0 /\ q.upto = 0
    BY <1>0, MemberIdleOK DEF M!Idle, M!ProcState, M!PC
  <2>2. member' = [member EXCEPT ![p] = q] /\ UNCHANGED <<M!members, M!surroundings, M!import>>
    BY <1>1 DEF M!Call
  <2> HIDE DEF q
  <2>3. Carries(q) /\ Prepares(q, journey, recorded)
    BY <1>0, <2>1 DEF Carries, Prepares
  <2> QED BY <2>1, <2>2, <2>3, MemberReads, MemberHidden
<1>2. ASSUME M!ReadPrior(p) PROVE MemberInv' /\ MembersPromised
  <2> DEFINE q(pc) == [member[p] EXCEPT !.pc = pc]
  <2>1. member[p].pc = "prior" /\ UNCHANGED <<M!members, M!surroundings, M!import>>
    BY <1>2 DEF M!ReadPrior
  <2>2. \/ M!Return(p)
        \/ M!Importing(p) /\ member[p].key \in recorded /\ M!Goto(p, "again")
        \/ M!Importing(p) /\ M!Goto(p, "member")
        \/ ~M!Importing(p) /\ M!Goto(p, "program")
    BY <1>2 DEF M!ReadPrior
  <2>3. CASE M!Return(p)
    BY <2>1, <2>3, MemberEnds, MemberHidden
  <2>4. CASE M!Importing(p) /\ member[p].key \in recorded /\ M!Goto(p, "again")
    <3>1. /\ q("again") \in M!ProcState /\ Carries(q("again"))
          /\ Prepares(q("again"), journey, recorded)
      BY <1>0, <2>4 DEF M!ProcState, M!PC, Carries, Prepares, M!Importing
    <3> QED BY <2>1, <2>4, <3>1, MemberReads, MemberHidden DEF M!Goto
  <2>5. CASE M!Importing(p) /\ M!Goto(p, "member")
    <3>1. q("member") \in M!ProcState /\ Carries(q("member"))
          /\ Prepares(q("member"), journey, recorded)
      BY <1>0, <2>1 DEF M!ProcState, M!PC, Carries, Prepares
    <3> QED BY <2>1, <2>5, <3>1, MemberReads, MemberHidden DEF M!Goto
  <2>6. CASE ~M!Importing(p) /\ M!Goto(p, "program")
    <3>1. q("program") \in M!ProcState /\ Carries(q("program"))
          /\ Prepares(q("program"), journey, recorded)
      BY <1>0, <2>1, <2>6 DEF M!ProcState, M!PC, Carries, Prepares, M!Importing
    <3> QED BY <2>1, <2>6, <3>1, MemberReads, MemberHidden DEF M!Goto
  <2> QED BY <2>2, <2>3, <2>4, <2>5, <2>6
<1>3. ASSUME M!ReadProgram(p) PROVE MemberInv' /\ MembersPromised
  <2> DEFINE q == [member[p] EXCEPT !.pc = "member", !.published = published]
  <2>1. member[p].pc = "program" /\ UNCHANGED <<M!members, M!surroundings, M!import>>
        /\ (M!Return(p) \/ member' = [member EXCEPT ![p] = q])
    BY <1>3 DEF M!ReadProgram
  <2>2. q \in M!ProcState /\ Carries(q) /\ Prepares(q, journey, recorded)
    BY <1>0, <2>1 DEF M!ProcState, M!PC, Carries, Prepares
  <2> HIDE DEF q
  <2> QED BY <2>1, <2>2, MemberReads, MemberEnds, MemberHidden
<1>4. ASSUME M!ReadMember(p) PROVE MemberInv' /\ MembersPromised
  <2> DEFINE j == journey[Command[member[p].key].contact]
             q == [member[p] EXCEPT !.pc = "commit", !.revision = Len(j)]
  <2>1. member[p].pc = "member" /\ UNCHANGED <<M!members, M!surroundings, M!import>>
    BY <1>4 DEF M!ReadMember
  <2>2. j \in Seq(M!Member)
    BY <1>0, <2>1, MemberHolding DEF Carries
  <2>3. \/ M!GiveUp(p)
        \/ /\ M!Outcome(M!At(j, Len(j)), Len(j), Command[member[p].key], member[p].published)
                # M!Refused
           /\ member' = [member EXCEPT ![p] = q]
    BY <1>4 DEF M!ReadMember
  <2>4. /\ q \in M!ProcState /\ q.pc = "commit" /\ q.key = member[p].key /\ q.revision = Len(j)
        /\ q.published = member[p].published /\ Carries(q)
    <3>1. Len(j) \in Nat
      BY <2>2
    <3> HIDE DEF j
    <3>2. /\ q \in M!ProcState /\ q.pc = "commit" /\ q.key = member[p].key
          /\ q.revision = Len(j) /\ q.published = member[p].published
          /\ q.tries = member[p].tries /\ q.processed = member[p].processed
          /\ q.upto = member[p].upto
      BY <1>0, <3>1 DEF M!ProcState, M!PC
    <3> HIDE DEF q
    <3> QED BY <1>0, <2>1, <3>2 DEF Carries
  <2> HIDE DEF q
  <2>5. ASSUME M!Outcome(M!At(j, Len(j)), Len(j), Command[member[p].key], member[p].published)
                 # M!Refused
        PROVE  Prepares(q, journey, recorded)
    BY <2>2, <2>4, <2>5 DEF Prepares
  <2> QED BY <2>1, <2>3, <2>4, <2>5, MemberReads, MemberEnds, MemberHidden
<1>5. ASSUME M!Conflict(p) PROVE MemberInv' /\ MembersPromised
  <2> DEFINE q == [member[p] EXCEPT !.pc = "reload", !.tries = member[p].tries + 1]
             s == [member[p] EXCEPT !.pc = "prior", !.tries = member[p].tries + 1,
                                  !.published = None, !.revision = 0]
  <2>1. member[p].pc = "commit" /\ UNCHANGED <<M!members, M!surroundings, M!import>>
    BY <1>5 DEF M!Conflict
  <2>2. \/ M!Importing(p) /\ member' = [member EXCEPT ![p] = q]
        \/ member[p].tries + 1 < MaxTries /\ member' = [member EXCEPT ![p] = s]
        \/ M!Return(p)
    BY <1>5 DEF M!Conflict
  <2>3. member[p].tries + 1 \in 0 .. MaxTries
    BY <1>0, <2>1 DEF Carries, M!ProcState
  <2>4. /\ q \in M!ProcState /\ Prepares(q, journey, recorded)
        /\ M!Importing(p) => Carries(q)
    BY <1>0, <2>1, <2>3 DEF M!ProcState, M!PC, Carries, Prepares, M!Importing
  <2>5. /\ s \in M!ProcState /\ Prepares(s, journey, recorded)
        /\ member[p].tries + 1 < MaxTries => Carries(s)
    BY <1>0, <2>1, <2>3 DEF M!ProcState, M!PC, Carries, Prepares
  <2> HIDE DEF q, s
  <2> QED BY <2>1, <2>2, <2>4, <2>5, MemberReads, MemberEnds, MemberHidden
<1> QED BY <1>1, <1>2, <1>3, <1>4, <1>5

LEMMA ImportReads ==
    ASSUME M!ProgramAssumption, MemberInv, NEW p \in Procs,
           M!LoadProgram(p) \/ M!BeginRow(p) \/ M!Reload(p) \/ M!LoseLease(p) \/ M!Crash(p)
    PROVE  MemberInv' /\ MembersPromised
<1>0. /\ member[p] \in M!ProcState /\ Carries(member[p]) /\ Prepares(member[p], journey, recorded)
      /\ Readable \subseteq M!Rows /\ Calls \cap M!Rows = {} /\ MaxTries \in Nat \ {0}
      /\ Total \in Nat /\ M!Rows \subseteq M!Keys /\ None \notin M!Keys
      /\ published \in M!Versions \cup {None} /\ open \in BOOLEAN
  BY MemberHolding DEF M!ProgramAssumption, M!Keys, MemberInv, M!TypeOK
<1>1. ASSUME M!LoadProgram(p) PROVE MemberInv' /\ MembersPromised
  <2> DEFINE q == [member[p] EXCEPT !.pc = "row", !.refusing = ~open,
                                  !.published = IF open THEN published ELSE None]
  <2>1. /\ member[p].pc = "load" /\ UNCHANGED <<M!members, M!surroundings, M!import>>
        /\ member' = [member EXCEPT ![p] = q]
    BY <1>1 DEF M!LoadProgram
  <2>2. q \in M!ProcState /\ Carries(q) /\ Prepares(q, journey, recorded)
    BY <1>0, <2>1 DEF M!ProcState, M!PC, Carries, Prepares
  <2> HIDE DEF q
  <2> QED BY <2>1, <2>2, MemberReads, MemberHidden
<1>2. ASSUME M!BeginRow(p) PROVE MemberInv' /\ MembersPromised
  <2> DEFINE r == member[p].processed + 1
             s == [member[p] EXCEPT !.pc = "release"]
             q(pc) == [member[p] EXCEPT !.key = r, !.pc = pc]
  <2>1. member[p].pc = "row" /\ UNCHANGED <<M!members, M!surroundings, M!import>>
    BY <1>2 DEF M!BeginRow
  <2>2. \/ member' = [member EXCEPT ![p] = s]
        \/ /\ member[p].processed # member[p].upto
           /\ \/ r \in Readable /\ member' = [member EXCEPT ![p] = q("prior")]
              \/ member' = [member EXCEPT ![p] = q("reject")]
    BY <1>2 DEF M!BeginRow, M!Goto
  <2>3. s \in M!ProcState /\ Carries(s) /\ Prepares(s, journey, recorded)
    BY <1>0 DEF M!ProcState, M!PC, Carries, Prepares
  <2>4. ASSUME member[p].processed # member[p].upto
        PROVE  r \in M!Rows /\ member[p].processed < member[p].upto
    BY <1>0, <2>4 DEF M!ProcState, Carries, M!Rows
  <2>5. ASSUME member[p].processed # member[p].upto, NEW pc \in {"prior", "reject"},
               pc = "prior" => r \in Readable
        PROVE  q(pc) \in M!ProcState /\ Carries(q(pc)) /\ Prepares(q(pc), journey, recorded)
    <3>1. /\ q(pc) \in M!ProcState /\ q(pc).pc = pc /\ q(pc).key = r
          /\ q(pc).tries = member[p].tries /\ q(pc).processed = member[p].processed
          /\ q(pc).upto = member[p].upto
      BY <1>0, <2>4, <2>5 DEF M!ProcState, M!PC
    <3> HIDE DEF q
    <3> QED BY <1>0, <2>1, <2>4, <2>5, <3>1 DEF Carries, Prepares
  <2> HIDE DEF q, s, r
  <2>6. CASE member' = [member EXCEPT ![p] = s]
    BY <2>1, <2>3, <2>6, MemberReads, MemberHidden
  <2>7. CASE member[p].processed # member[p].upto /\ r \in Readable
             /\ member' = [member EXCEPT ![p] = q("prior")]
    BY <2>1, <2>5, <2>7, MemberReads, MemberHidden
  <2>8. CASE member[p].processed # member[p].upto /\ member' = [member EXCEPT ![p] = q("reject")]
    BY <2>1, <2>5, <2>8, MemberReads, MemberHidden
  <2> QED BY <2>2, <2>6, <2>7, <2>8
<1>3. ASSUME M!Reload(p) PROVE MemberInv' /\ MembersPromised
  <2> DEFINE q == [member[p] EXCEPT !.pc = "prior", !.published = published]
             s == [member[p] EXCEPT !.pc = "reject",
                                  !.published = IF open THEN published ELSE @]
  <2>1. /\ member[p].pc = "reload" /\ UNCHANGED <<M!members, M!surroundings, M!import>>
        /\ \/ member[p].tries < MaxTries /\ member' = [member EXCEPT ![p] = q]
           \/ member' = [member EXCEPT ![p] = s]
    BY <1>3 DEF M!Reload
  <2>2. /\ q \in M!ProcState /\ Prepares(q, journey, recorded)
        /\ member[p].tries < MaxTries => Carries(q)
    BY <1>0, <2>1 DEF M!ProcState, M!PC, Carries, Prepares
  <2>3. s \in M!ProcState /\ Carries(s) /\ Prepares(s, journey, recorded)
    BY <1>0, <2>1 DEF M!ProcState, M!PC, Carries, Prepares
  <2> HIDE DEF q, s
  <2> QED BY <2>1, <2>2, <2>3, MemberReads, MemberHidden
<1>4. ASSUME M!LoseLease(p) \/ M!Crash(p) PROVE MemberInv' /\ MembersPromised
  BY <1>4, MemberEnds, MemberHidden DEF M!LoseLease, M!Crash
<1> QED BY <1>1, <1>2, <1>3, <1>4

LEMMA MemberJobSteps ==
    ASSUME M!ProgramAssumption, MemberInv,
           M!Accept \/ M!LeaseExpires \/ \E p \in Procs : M!Claim(p) \/ M!Release(p)
    PROVE  MemberInv' /\ MembersPromised
<1>0. memberJob \in M!Job /\ Total \in Nat /\ Unit \in Nat \ {0} /\ MaxTries \in Nat \ {0}
  BY DEF MemberInv, M!TypeOK, M!ProgramAssumption
<1>1. ASSUME M!Accept \/ M!LeaseExpires PROVE MemberInv' /\ MembersPromised
  <2>1. memberJob' \in M!Job /\ memberJob'.processed = memberJob.processed
    BY <1>0, <1>1 DEF M!Accept, M!LeaseExpires, M!Job
  <2> QED BY <1>1, <2>1, MemberJobMoves, MemberStayed, MemberPartsAfter
            DEF M!Accept, M!LeaseExpires
<1>2. ASSUME NEW p \in Procs, M!Claim(p) PROVE MemberInv' /\ MembersPromised
  <2> DEFINE upto == IF memberJob.processed + Unit < Total
                     THEN memberJob.processed + Unit ELSE Total
             q == [M!Idle EXCEPT !.pc = "load", !.processed = memberJob.processed, !.upto = upto]
  <2>1. memberJob' = [memberJob EXCEPT !.status = "running", !.lease = p, !.live = TRUE]
        /\ member' = [member EXCEPT ![p] = q] /\ UNCHANGED <<M!members, M!surroundings, report>>
    BY <1>2 DEF M!Claim
  <2>2. memberJob' \in M!Job /\ memberJob'.processed = memberJob.processed
    BY <1>0, <2>1 DEF M!Job
  <2>3. memberJob.processed \in 0 .. Total /\ upto \in 0 .. Total /\ memberJob.processed <= upto
    BY <1>0 DEF M!Job
  <2> HIDE DEF upto
  <2>4. /\ q \in M!ProcState /\ q.pc = "load" /\ q.key = None /\ q.tries = 0
        /\ q.processed = memberJob.processed /\ q.upto = upto
    BY <1>0, <2>3, MemberIdleOK DEF M!Idle, M!ProcState, M!PC
  <2> HIDE DEF q
  <2>5. Carries(q) /\ Prepares(q, journey', recorded')
    BY <1>0, <2>3, <2>4, MemberHolding DEF Carries, Prepares
  <2> QED BY <2>1, <2>2, <2>4, <2>5, MemberJobMoves, MemberMoved, MemberPartsAfter
<1>3. ASSUME NEW p \in Procs, M!Release(p) PROVE MemberInv' /\ MembersPromised
  <2>1. /\ M!Return(p) /\ UNCHANGED <<M!members, M!surroundings, report>>
        /\ \/ memberJob' = memberJob
           \/ \E s \in {"completed", "pending"} :
                memberJob' = [memberJob EXCEPT !.status = s, !.lease = None, !.live = FALSE]
    BY <1>3 DEF M!Release
  <2>2. memberJob' \in M!Job /\ memberJob'.processed = memberJob.processed
    BY <1>0, <2>1 DEF M!Job
  <2> QED BY <2>1, <2>2, MemberJobMoves, MemberReturned, MemberPartsAfter
<1> QED BY <1>1, <1>2, <1>3

LEMMA SurroundingSteps ==
    ASSUME M!ProgramAssumption, MemberInv,
           \/ M!Publish \/ M!ArchiveProject \/ M!LoseAuthority
           \/ \E c \in Contacts : M!ArchiveContact(c)
    PROVE  MemberInv' /\ MembersPromised
<1>1. UNCHANGED <<journey, recorded, memberJob, report, member>>
  BY DEF M!Publish, M!ArchiveProject, M!LoseAuthority, M!ArchiveContact, M!members, M!import
<1>2. MemberProcs'
  BY <1>1, MemberStayed, JourneysStay DEF MemberInv
<1>3. MemberRows
  BY MemberParts
<1>4. CASE M!Publish
  BY <1>1, <1>2, <1>3, <1>4, MemberPartsAfter
    DEF M!Publish, MemberRows, InTurn, MembersPromised, M!Ledger!Next, M!Ledger!Surroundings,
        M!Ledger!Versions, M!Versions
<1>5. CASE M!ArchiveProject
  BY <1>1, <1>2, <1>3, <1>5, MemberPartsAfter
    DEF M!ArchiveProject, MemberRows, InTurn, MembersPromised, M!Ledger!Next,
        M!Ledger!Surroundings
<1>6. CASE M!LoseAuthority
  BY <1>1, <1>2, <1>3, <1>6, MemberPartsAfter
    DEF M!LoseAuthority, MemberRows, InTurn, MembersPromised, M!Ledger!Next,
        M!Ledger!Surroundings
<1>7. ASSUME NEW c \in Contacts, M!ArchiveContact(c) PROVE MemberInv' /\ MembersPromised
  BY <1>1, <1>2, <1>3, <1>7, MemberPartsAfter
    DEF M!ArchiveContact, MemberRows, InTurn, MembersPromised, M!Ledger!Next,
        M!Ledger!Surroundings
<1> QED BY <1>4, <1>5, <1>6, <1>7

LEMMA NextMembers ==
    ASSUME M!ProgramAssumption, MemberInv, [M!Next]_M!vars PROVE MemberInv' /\ MembersPromised
<1>1. CASE UNCHANGED M!vars
  <2>1. UNCHANGED <<journey, recorded, published, open, gone, authorized, memberJob, report,
                    member>>
    BY <1>1 DEF M!vars
  <2>2. UNCHANGED <<M!members, M!surroundings, M!import>>
    BY <2>1 DEF M!members, M!surroundings, M!import
  <2> QED BY <2>1, <2>2, MemberHidden, MemberStayed, SameMemberRows, JourneysStay, MemberParts,
             MemberPartsAfter
            DEF MemberInv
<1>2. CASE M!Next
  BY <1>2, CommandReads, ImportReads, CommitPromised, CommitRowPromised, MemberJobSteps,
     SurroundingSteps
    DEF M!Next, M!Process
<1> QED BY <1>1, <1>2

LEMMA AlwaysMembers == ASSUME M!ProgramAssumption PROVE M!Spec => []MemberInv
<1>1. M!Init => MemberInv
  BY InitMembers
<1>2. MemberInv /\ [M!Next]_M!vars => MemberInv'
  BY NextMembers
<1> QED BY <1>1, <1>2, PTL DEF M!Spec

\* The members' journeys, the job and its report, and what each invocation holds keep
\* their types.
THEOREM MemberTypes == ASSUME M!ProgramAssumption PROVE M!Spec => []M!TypeOK
<1>1. MemberInv => M!TypeOK
  BY DEF MemberInv
<1> QED BY <1>1, AlwaysMembers, PTL

\* Commands and imports keep the promise of ProgramLedger.
THEOREM MembersKeepLedger == ASSUME M!ProgramAssumption PROVE M!Spec => M!ImplementsProgramLedger
<1>1. M!Init => M!Ledger!Init
  BY DEF M!Init, M!Ledger!Init, M!Rows
<1>2. MemberInv /\ [M!Next]_M!vars => [M!Ledger!Next]_(M!Ledger!vars)
  BY NextMembers DEF MembersPromised
<1> QED BY <1>1, <1>2, AlwaysMembers, PTL DEF M!Spec, M!ImplementsProgramLedger, M!Ledger!Spec
=============================================================================
