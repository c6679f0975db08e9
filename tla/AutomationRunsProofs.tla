------------------------ MODULE AutomationRunsProofs ------------------------
(***************************************************************************)
(* Safety of AutomationRuns for every set of contacts, graphs, occasions,  *)
(* runs and invocations, and that it implements BatchRun.                  *)
(***************************************************************************)
EXTENDS AutomationRuns, TLAPS

\* What an invocation carries where it will need it.
Fits(q) ==
    /\ q.pc \notin {"idle", "publish"} => q.source \in Sources /\ (q.run => q.source \in Slots)
    /\ q.pc \in {"next", "insert"} /\ ~q.run => q.source \notin Slots
    /\ q.pc \in {"published", "start", "targets", "skip", "fail", "refresh"} => q.source \in Slots
    /\ q.pc \in {"targets", "skip", "fail", "refresh"} => q.run
    /\ q.pc \in {"insert", "skip", "fail"} => q.contact \in Contacts
    /\ q.pc = "publish" => q.graph \in Valid /\ q.version \in Versions

Local == \A p \in Procs : Fits(proc[p])

\* An enrollment is of a version that was published.
VersionInv == \A c \in Contacts, s \in Sources :
    Entered(c, s) => enrollment[c][s].version \in Versions
                     /\ enrollment[c][s].version < automation.draft

\* A target that waits belongs to a run that enrolls, and has a try left; a run that has
\* not begun has none; and only a target that was enrolled has a flow, which goes on
\* while the run is open.
RunInv == \A r \in Slots, c \in Contacts :
    /\ target[r][c].status = "pending" =>
         run[r].status = "enrolling" /\ target[r][c].attempts < AttemptLimit
    /\ run[r].status = "absent" => target[r][c].status = "none"
    /\ Entered(c, r) => target[r][c].status = "enrolled"
    /\ enrollment[c][r].status = "active" => Open(r)

RInv == TypeOK /\ Local /\ VersionInv /\ RunInv /\ PublishedWasValidated

-----------------------------------------------------------------------------
(* Invocations                                                             *)

LEMMA IdleOK == ASSUME RunsAssumption PROVE Idle \in ProcState /\ Fits(Idle)
BY DEF Idle, ProcState, PC, Fits, RunsAssumption

\* One invocation moves to a state that is in order.
LEMMA Moved ==
    ASSUME TypeOK, Local, NEW p \in Procs, NEW q \in ProcState, Fits(q),
           proc' = [proc EXCEPT ![p] = q]
    PROVE  proc' \in [Procs -> ProcState] /\ Local'
<1>1. proc' \in [Procs -> ProcState] /\ \A x \in Procs : proc'[x] = IF x = p THEN q ELSE proc[x]
  BY DEF TypeOK
<1>2. \A x \in Procs : Fits(proc[x]) /\ Fits(q)
  BY DEF Local
<1>3. ASSUME NEW x \in Procs PROVE Fits(proc'[x])
  BY <1>1, <1>2
<1> QED BY <1>1, <1>3 DEF Local

LEMMA Returned ==
    ASSUME RunsAssumption, TypeOK, Local, NEW p \in Procs, Return(p)
    PROVE  proc' \in [Procs -> ProcState] /\ Local'
BY IdleOK, Moved DEF Return

LEMMA Went ==
    ASSUME TypeOK, Local, NEW p \in Procs, NEW pc \in {"skip", "fail"}, Goto(p, pc),
           proc[p].pc = "insert", proc[p].run
    PROVE  proc' \in [Procs -> ProcState] /\ Local'
<1> DEFINE q == [proc[p] EXCEPT !.pc = pc]
<1>1. proc[p] \in ProcState /\ Fits(proc[p])
  BY DEF TypeOK, Local
<1>2. q \in ProcState
  BY <1>1 DEF ProcState, PC
<1>3. q.pc = pc /\ q.source = proc[p].source /\ q.run = proc[p].run /\ q.contact = proc[p].contact
  BY <1>1 DEF ProcState
<1>4. Fits(q)
  BY <1>1, <1>3 DEF Fits
<1> QED BY <1>2, <1>4, Moved DEF Goto

LEMMA WentOn ==
    ASSUME RunsAssumption, TypeOK, Local, NEW p \in Procs, NextTarget(p),
           proc[p].pc \in {"insert", "skip", "fail"}
    PROVE  proc' \in [Procs -> ProcState] /\ Local'
<1> DEFINE rest == proc[p].todo \ {proc[p].contact}
           q == [proc[p] EXCEPT !.todo = rest, !.contact = None, !.now = 0,
                                !.pc = IF rest = {} THEN "refresh" ELSE "next"]
<1>1. proc[p] \in ProcState /\ Fits(proc[p]) /\ proc[p].run \in BOOLEAN
  BY DEF TypeOK, Local, ProcState
<1>2. q \in ProcState
  <2>1. rest \subseteq Contacts /\ 0 \in 0 .. MaxTime
    BY <1>1 DEF ProcState, RunsAssumption
  <2> HIDE DEF rest
  <2> QED BY <1>1, <2>1 DEF ProcState, PC
<1>3. /\ q.pc \in {"refresh", "next"} /\ q.source = proc[p].source /\ q.run = proc[p].run
  BY <1>1 DEF ProcState
<1>4. CASE proc[p].run
  <2>1. Fits(q)
    BY <1>1, <1>3, <1>4 DEF Fits
  <2>2. proc' = [proc EXCEPT ![p] = q]
    BY <1>4 DEF NextTarget
  <2> QED BY <1>2, <2>1, <2>2, Moved
<1>5. CASE ~proc[p].run
  <2>1. proc' = [proc EXCEPT ![p] = Idle]
    BY <1>5 DEF NextTarget
  <2> QED BY <2>1, IdleOK, Moved
<1> QED BY <1>1, <1>4, <1>5

-----------------------------------------------------------------------------
LEMMA InitRInv == ASSUME RunsAssumption, Init PROVE RInv
<1>1. automation \in Automation /\ graph \in [Versions -> Graphs \cup {None}]
  BY DEF Init, Automation, Versions, RunsAssumption
<1>2. enrollment \in [Contacts -> [Sources -> Enrollment]]
  BY DEF Init, NoEnrollment, Enrollment, RunsAssumption
<1>3. run \in [Slots -> Run] /\ target \in [Slots -> [Contacts -> Target]]
  BY DEF Init, NoTarget, Run, Target, RunsAssumption
<1>4. proc \in [Procs -> ProcState] /\ Local
  BY IdleOK DEF Init, Local
<1>5. TypeOK
  BY <1>1, <1>2, <1>3, <1>4 DEF Init, TypeOK, RunsAssumption
<1>6. Slots \subseteq Sources
  BY DEF Sources
<1>7. VersionInv /\ RunInv
  BY <1>6 DEF Init, VersionInv, RunInv, Entered, NoEnrollment, NoTarget
<1>8. PublishedWasValidated
  BY DEF Init, PublishedWasValidated, Versions, RunsAssumption
<1> QED BY <1>4, <1>5, <1>7, <1>8 DEF RInv

\* The steps that write no table.
LEMMA Reads ==
    ASSUME RunsAssumption, RInv, NEW p \in Procs,
           \/ FindDraft(p) \/ Refuse(p) \/ ReadPublished(p) \/ ListTargets(p) \/ Crash(p)
           \/ \E o \in Occasions : FindTrigger(p, o)
           \/ \E c \in Contacts : ListInactive(p, c) \/ ReadVersion(p, c)
           \/ \E r \in Slots : FindRun(p, r) \/ BeginRun(p, r)
    PROVE  RInv'
<1>1. UNCHANGED <<automation, graph, archived, enrollment, run, target, time>>
  BY DEF FindDraft, Refuse, ReadPublished, ListTargets, Crash, FindTrigger, ListInactive,
         ReadVersion, FindRun, BeginRun, authoring, runs
<1>2. /\ TypeOK /\ Local /\ proc[p] \in ProcState /\ Fits(proc[p])
      /\ automation \in Automation /\ run \in [Slots -> Run]
  BY DEF RInv, TypeOK, Local
<1>3. /\ Slots \subseteq Sources /\ Occasions \subseteq Sources /\ Inactive \in Sources
      /\ Inactive \notin Slots /\ \A o \in Occasions : o \notin Slots
  BY DEF Sources, RunsAssumption
<1> DEFINE Goal == proc' \in [Procs -> ProcState] /\ Local'
<1>4. ASSUME Return(p) PROVE Goal
  BY <1>2, <1>4, Returned
<1>5. ASSUME FindDraft(p) PROVE Goal
  <2> DEFINE q == [Idle EXCEPT !.pc = "publish", !.version = automation.draft,
                               !.graph = graph[automation.draft]]
  <2>1. graph[automation.draft] \in Valid /\ automation.draft \in Versions /\ Valid \subseteq Graphs
    BY <1>2, <1>5 DEF FindDraft, Automation, RunsAssumption
  <2>2. q \in ProcState
    BY <2>1, IdleOK DEF ProcState, PC, Idle
  <2>3. q.pc = "publish" /\ q.version = automation.draft /\ q.graph = graph[automation.draft]
    BY DEF Idle
  <2>4. Fits(q)
    BY <2>1, <2>3 DEF Fits
  <2> QED BY <1>2, <1>5, <2>2, <2>4, Moved DEF FindDraft
<1>6. ASSUME NEW c \in Contacts, NEW s \in Sources \ Slots, EnrollBy(p, c, s) PROVE Goal
  <2> DEFINE q == [Idle EXCEPT !.pc = "next", !.todo = {c}, !.source = s,
                               !.version = automation.published]
  <2>1. automation.published \in Versions \cup {None}
    BY <1>2 DEF Automation
  <2>2. q \in ProcState
    BY <2>1, IdleOK DEF ProcState, PC, Idle
  <2>3. q.pc = "next" /\ q.source = s /\ ~q.run
    BY DEF Idle
  <2>4. Fits(q)
    BY <2>3 DEF Fits
  <2> QED BY <1>2, <1>6, <2>2, <2>4, Moved DEF EnrollBy
<1>7. ASSUME NEW o \in Occasions, FindTrigger(p, o) PROVE Goal
  <2>1. OccasionOf[o] \in Contacts
    BY DEF RunsAssumption
  <2> QED BY <1>3, <1>6, <1>7, <2>1 DEF FindTrigger
<1>8. ASSUME NEW c \in Contacts, ListInactive(p, c) PROVE Goal
  BY <1>3, <1>6, <1>8 DEF ListInactive
<1>9. ASSUME NEW c \in Contacts, ReadVersion(p, c) PROVE Goal
  <2> DEFINE q == [proc[p] EXCEPT !.pc = "insert", !.contact = c, !.now = time]
  <2>1. time \in 0 .. MaxTime
    BY <1>2 DEF TypeOK
  <2>2. q \in ProcState
    BY <1>2, <2>1 DEF ProcState, PC
  <2>3. /\ q.pc = "insert" /\ q.contact = c /\ q.source = proc[p].source /\ q.run = proc[p].run
        /\ proc[p].pc = "next"
    BY <1>2, <1>9 DEF ProcState, ReadVersion
  <2>4. Fits(q)
    BY <1>2, <2>3 DEF Fits
  <2> QED BY <1>2, <1>9, <2>2, <2>4, Moved DEF ReadVersion
<1>10. ASSUME Refuse(p) PROVE Goal
  BY <1>2, <1>4, <1>10, Went DEF Refuse
<1>11. ASSUME NEW r \in Slots, FindRun(p, r) PROVE Goal
  <2> DEFINE q == [Idle EXCEPT !.pc = "published", !.source = r]
  <2>1. q \in ProcState
    BY <1>3, IdleOK DEF ProcState, PC, Idle
  <2>2. q.pc = "published" /\ q.source = r
    BY DEF Idle
  <2>3. Fits(q)
    BY <1>3, <2>2 DEF Fits
  <2> QED BY <1>2, <1>11, <2>1, <2>3, Moved DEF FindRun
<1>12. ASSUME ReadPublished(p) PROVE Goal
  <2> DEFINE q == [proc[p] EXCEPT !.pc = "start", !.version = automation.published]
  <2>1. automation.published \in Versions \cup {None}
    BY <1>2 DEF Automation
  <2>2. q \in ProcState
    BY <1>2, <2>1 DEF ProcState, PC
  <2>3. /\ q.pc = "start" /\ q.source = proc[p].source /\ proc[p].pc = "published"
    BY <1>2, <1>12 DEF ProcState, ReadPublished
  <2>4. Fits(q)
    BY <1>2, <1>3, <2>3 DEF Fits
  <2>5. proc' = [proc EXCEPT ![p] = q] \/ Return(p)
    BY <1>12 DEF ReadPublished
  <2>6. CASE proc' = [proc EXCEPT ![p] = q]
    BY <1>2, <2>2, <2>4, <2>6, Moved
  <2> QED BY <1>4, <2>5, <2>6
<1>13. ASSUME NEW r \in Slots, BeginRun(p, r) PROVE Goal
  <2> DEFINE q == [Idle EXCEPT !.pc = "targets", !.source = r, !.run = TRUE,
                               !.version = run[r].version]
  <2>1. run[r].version \in Versions \cup {None}
    BY <1>2 DEF Run
  <2>2. q \in ProcState
    BY <1>3, <2>1, IdleOK DEF ProcState, PC, Idle
  <2>3. q.pc = "targets" /\ q.source = r /\ q.run
    BY DEF Idle
  <2>4. Fits(q)
    BY <1>3, <2>3 DEF Fits
  <2> QED BY <1>2, <1>13, <2>2, <2>4, Moved DEF BeginRun
<1>14. ASSUME ListTargets(p) PROVE Goal
  <2> DEFINE r == proc[p].source
             todo == {c \in Contacts : run[r].status = "enrolling"
                                       /\ target[r][c].status = "pending"}
             q == [proc[p] EXCEPT !.todo = todo, !.pc = IF todo = {} THEN "refresh" ELSE "next"]
  <2>1. todo \subseteq Contacts
    OBVIOUS
  <2>2. proc' = [proc EXCEPT ![p] = q] /\ proc[p].pc = "targets"
    BY <1>14 DEF ListTargets
  <2> HIDE DEF todo
  <2>3. q \in ProcState
    BY <1>2, <2>1 DEF ProcState, PC
  <2>4. q.pc \in {"refresh", "next"} /\ q.source = r /\ q.run = proc[p].run
    BY <1>2 DEF ProcState
  <2>5. r \in Slots /\ proc[p].run
    BY <1>2, <2>2 DEF Fits
  <2>6. Fits(q)
    BY <1>3, <2>4, <2>5 DEF Fits
  <2> QED BY <1>2, <2>2, <2>3, <2>6, Moved
<1>15. Goal
  BY <1>4, <1>5, <1>7, <1>8, <1>9, <1>10, <1>11, <1>12, <1>13, <1>14 DEF Crash
<1> QED BY <1>1, <1>2, <1>15
       DEF RInv, TypeOK, VersionInv, RunInv, PublishedWasValidated, Entered, Open

-----------------------------------------------------------------------------
(* Enrollment                                                              *)

\* What an insert adds: an enrollment that was not there, and with it, for a run, the
\* decision on a target that waited.
LEMMA Inserted ==
    ASSUME RunsAssumption, RInv, NEW p \in Procs, proc[p].pc = "insert", Admitted(p),
           InsertEnrollment(p)
    PROVE  LET c == proc[p].contact
               s == proc[p].source
           IN  /\ c \in Contacts /\ s \in Sources /\ ~Entered(c, s)
               /\ enrollment' \in [Contacts -> [Sources -> Enrollment]]
               /\ target' \in [Slots -> [Contacts -> Target]]
               /\ \A x \in Contacts, t \in Sources :
                    enrollment'[x][t] = IF x = c /\ t = s
                                        THEN [status |-> "active", version |-> proc[p].version,
                                              entered |-> proc[p].now]
                                        ELSE enrollment[x][t]
               /\ s \in Slots => /\ target[s][c].status = "pending"
                                  /\ run[s].status = "enrolling"
               /\ \A r \in Slots, x \in Contacts :
                    /\ target'[r][x].status = IF r = s /\ x = c THEN "enrolled"
                                              ELSE target[r][x].status
                    /\ target'[r][x].attempts = target[r][x].attempts
               /\ proc[p].version \in Versions /\ proc[p].version < automation.draft
               /\ NonePrior(p)
<1> DEFINE c == proc[p].contact
           s == proc[p].source
           e == [status |-> "active", version |-> proc[p].version, entered |-> proc[p].now]
<1>1. /\ TypeOK /\ proc[p] \in ProcState /\ Fits(proc[p]) /\ Slots \subseteq Sources
      /\ enrollment \in [Contacts -> [Sources -> Enrollment]]
      /\ target \in [Slots -> [Contacts -> Target]]
  BY DEF RInv, TypeOK, Local, Sources
<1>2. c \in Contacts /\ s \in Sources /\ (proc[p].run <=> s \in Slots)
  BY <1>1 DEF Fits
<1>3. /\ ~Entered(c, s) /\ NonePrior(p)
      /\ proc[p].version # None /\ proc[p].version < automation.draft
      /\ s \in Slots => target[s][c].status = "pending" /\ run[s].status = "enrolling"
  BY <1>2 DEF Admitted, IsPublished
<1>4. proc[p].version \in Versions /\ proc[p].now \in 0 .. MaxTime
  BY <1>1, <1>3 DEF ProcState
<1>5. e \in Enrollment
  BY <1>4 DEF Enrollment
<1>6. enrollment' = [enrollment EXCEPT ![c] = [enrollment[c] EXCEPT ![s] = e]]
  BY DEF InsertEnrollment
<1>7. /\ enrollment' \in [Contacts -> [Sources -> Enrollment]]
      /\ \A x \in Contacts, t \in Sources :
           enrollment'[x][t] = IF x = c /\ t = s THEN e ELSE enrollment[x][t]
  <2> HIDE DEF e
  <2> QED BY <1>1, <1>2, <1>5, <1>6
<1>8. /\ target' \in [Slots -> [Contacts -> Target]]
      /\ \A r \in Slots, x \in Contacts :
           /\ target'[r][x].status = IF r = s /\ x = c THEN "enrolled" ELSE target[r][x].status
           /\ target'[r][x].attempts = target[r][x].attempts
  <2>1. CASE s \notin Slots
    BY <1>1, <1>2, <2>1 DEF InsertEnrollment
  <2>2. CASE s \in Slots
    <3> DEFINE d == [target[s][c] EXCEPT !.status = "enrolled"]
    <3>1. target' = [target EXCEPT ![s] = [target[s] EXCEPT ![c] = d]]
      BY <1>2, <2>2 DEF InsertEnrollment
    <3>2. target[s][c] \in Target
      BY <1>1, <1>2, <2>2
    <3>3. d \in Target /\ d.status = "enrolled" /\ d.attempts = target[s][c].attempts
      BY <3>2 DEF Target
    <3> HIDE DEF d
    <3>4. /\ target' \in [Slots -> [Contacts -> Target]]
          /\ \A r \in Slots, x \in Contacts :
               target'[r][x] = IF r = s /\ x = c THEN d ELSE target[r][x]
      BY <1>1, <1>2, <2>2, <3>1, <3>3
    <3> QED BY <3>3, <3>4
  <2> QED BY <2>1, <2>2
<1> QED BY <1>2, <1>3, <1>4, <1>7, <1>8

\* The rule that a new enrollment was admitted by separates it from those before.
LEMMA InsertKeeps ==
    ASSUME RunsAssumption, RInv, NEW p \in Procs, proc[p].pc = "insert", Admitted(p),
           InsertEnrollment(p), UNCHANGED <<automation, graph, archived, run, time>>
    PROVE  /\ enrollment' \in [Contacts -> [Sources -> Enrollment]]
           /\ target' \in [Slots -> [Contacts -> Target]]
           /\ VersionInv' /\ RunInv'
           /\ ReentryKept => ReentryKept'
<1> DEFINE c == proc[p].contact
           s == proc[p].source
<1>1. /\ c \in Contacts /\ s \in Sources /\ ~Entered(c, s) /\ Slots \subseteq Sources
      /\ enrollment' \in [Contacts -> [Sources -> Enrollment]]
      /\ target' \in [Slots -> [Contacts -> Target]]
      /\ s \in Slots => target[s][c].status = "pending" /\ run[s].status = "enrolling"
      /\ proc[p].version \in Versions /\ proc[p].version < automation.draft /\ NonePrior(p)
      /\ TypeOK /\ VersionInv /\ RunInv
  BY Inserted DEF RInv, Sources
<1>2. /\ \A x \in Contacts, t \in Sources : x # c \/ t # s => enrollment'[x][t] = enrollment[x][t]
      /\ enrollment'[c][s].status = "active"
      /\ enrollment'[c][s].version = proc[p].version
      /\ enrollment'[c][s].entered = proc[p].now
  <2>1. \A x \in Contacts, t \in Sources :
           enrollment'[x][t] = IF x = c /\ t = s
                               THEN [status |-> "active", version |-> proc[p].version,
                                     entered |-> proc[p].now]
                               ELSE enrollment[x][t]
    BY Inserted
  <2>2. enrollment'[c][s] = [status |-> "active", version |-> proc[p].version,
                             entered |-> proc[p].now]
    BY <1>1, <2>1
  <2> QED BY <2>1, <2>2
<1>3. \A r \in Slots, x \in Contacts :
         /\ target'[r][x].status = IF r = s /\ x = c THEN "enrolled" ELSE target[r][x].status
         /\ target'[r][x].attempts = target[r][x].attempts
  BY Inserted
<1>4. VersionInv'
  BY <1>1, <1>2 DEF VersionInv, Entered
<1>5. RunInv'
  <2> SUFFICES ASSUME NEW r \in Slots, NEW x \in Contacts
               PROVE  /\ target'[r][x].status = "pending" =>
                           run[r].status = "enrolling" /\ target'[r][x].attempts < AttemptLimit
                      /\ run[r].status = "absent" => target'[r][x].status = "none"
                      /\ Entered(x, r)' => target'[r][x].status = "enrolled"
                      /\ enrollment'[x][r].status = "active" => Open(r)
    BY DEF RunInv, Open
  <2>1. CASE r = s /\ x = c
    BY <1>1, <1>3, <2>1 DEF Open
  <2>2. CASE r # s \/ x # c
    <3>1. enrollment'[x][r] = enrollment[x][r]
      BY <1>1, <1>2, <2>2
    <3>2. target'[r][x].status = target[r][x].status /\ target'[r][x].attempts = target[r][x].attempts
      BY <1>3, <2>2
    <3> QED BY <1>1, <3>1, <3>2 DEF RunInv, Entered
  <2> QED BY <2>1, <2>2
<1>6. ASSUME ReentryKept PROVE ReentryKept'
  <2> DEFINE rule == graph[proc[p].version].reentry
  <2>1. ASSUME NEW u \in Sources, u # s, Entered(c, u)
        PROVE  /\ rule # "once"
               /\ rule = "cooldown" => proc[p].now - enrollment'[c][u].entered >= Cooldown
    <3>1. \/ rule = "every_time"
          \/ rule = "cooldown" /\ enrollment[c][u].entered <= proc[p].now - Cooldown
      BY <1>1, <2>1 DEF NonePrior
    <3>2. enrollment'[c][u] = enrollment[c][u]
      BY <1>1, <1>2, <2>1
    <3>3. enrollment[c][u].entered \in Int /\ proc[p].now \in Int /\ Cooldown \in Int
      <4>1. enrollment[c][u] \in Enrollment /\ proc[p] \in ProcState
        BY <1>1, <2>1 DEF TypeOK
      <4> QED BY <4>1 DEF Enrollment, ProcState, RunsAssumption
    <3> QED BY <3>1, <3>2, <3>3
  <2>2. ASSUME NEW x \in Contacts, NEW t \in Sources, NEW u \in Sources,
               t # u, Entered(x, t)', Entered(x, u)'
        PROVE  /\ ~(RuleOf(x, t)' = "once" /\ RuleOf(x, u)' = "once")
               /\ RuleOf(x, t)' = "cooldown" /\ RuleOf(x, u)' = "cooldown" =>
                     \/ enrollment'[x][t].entered - enrollment'[x][u].entered >= Cooldown
                     \/ enrollment'[x][u].entered - enrollment'[x][t].entered >= Cooldown
    <3>1. CASE x = c /\ t = s
      <4>1. Entered(c, u) /\ u # s
        BY <1>1, <1>2, <2>2, <3>1 DEF Entered
      <4>2. RuleOf(x, t)' = rule
        BY <1>2, <3>1 DEF RuleOf
      <4> QED BY <1>2, <2>1, <3>1, <4>1, <4>2
    <3>2. CASE x = c /\ u = s
      <4>1. Entered(c, t) /\ t # s
        BY <1>1, <1>2, <2>2, <3>2 DEF Entered
      <4>2. RuleOf(x, u)' = rule
        BY <1>2, <3>2 DEF RuleOf
      <4> QED BY <1>2, <2>1, <3>2, <4>1, <4>2
    <3>3. CASE x # c \/ (t # s /\ u # s)
      <4>1. enrollment'[x][t] = enrollment[x][t] /\ enrollment'[x][u] = enrollment[x][u]
        BY <1>1, <1>2, <3>3
      <4>2. Entered(x, t) /\ Entered(x, u) /\ RuleOf(x, t)' = RuleOf(x, t)
            /\ RuleOf(x, u)' = RuleOf(x, u)
        BY <2>2, <4>1 DEF Entered, RuleOf
      <4> QED BY <1>6, <2>2, <4>1, <4>2 DEF ReentryKept
    <3> QED BY <3>1, <3>2, <3>3
  <2> QED BY <2>2 DEF ReentryKept
<1> QED BY <1>1, <1>4, <1>5, <1>6

LEMMA EnrollSteps ==
    ASSUME RunsAssumption, RInv, NEW p \in Procs, Enroll(p) \/ Throw(p)
    PROVE  RInv' /\ (ReentryKept => ReentryKept')
<1>1. /\ TypeOK /\ Local /\ proc[p].pc = "insert" /\ Fits(proc[p])
      /\ UNCHANGED <<automation, graph, archived, run, time>>
  BY DEF RInv, Local, Enroll, Throw, authoring
<1>2. proc' \in [Procs -> ProcState] /\ Local'
  <2>1. CASE Enroll(p)
    BY <1>1, <2>1, WentOn DEF Enroll
  <2>2. CASE Throw(p)
    <3>1. (Goto(p, "fail") /\ proc[p].run) \/ Return(p)
      BY <2>2 DEF Throw
    <3> QED BY <1>1, <3>1, Went, Returned
  <2> QED BY <2>1, <2>2
<1>3. CASE Admitted(p) /\ InsertEnrollment(p)
  <2>1. /\ enrollment' \in [Contacts -> [Sources -> Enrollment]]
        /\ target' \in [Slots -> [Contacts -> Target]]
        /\ VersionInv' /\ RunInv' /\ (ReentryKept => ReentryKept')
    BY <1>1, <1>3, InsertKeeps
  <2> QED BY <1>1, <1>2, <2>1 DEF RInv, TypeOK, PublishedWasValidated
<1>4. CASE UNCHANGED <<enrollment, target>>
  BY <1>1, <1>2, <1>4
     DEF RInv, TypeOK, VersionInv, RunInv, PublishedWasValidated, ReentryKept, RuleOf, Entered, Open
<1> QED BY <1>3, <1>4 DEF Enroll, Throw

-----------------------------------------------------------------------------
(* Authoring                                                               *)

\* A version that was published stays as it is.
LEMMA AuthoringSteps ==
    ASSUME RunsAssumption, RInv,
           \/ \E g \in Graphs : SaveDraft(g)
           \/ \E status \in {"active", "paused"} : SetStatus(status)
           \/ \E p \in Procs : PublishDraft(p)
    PROVE  /\ RInv'
           /\ \A v \in Versions : v < automation.draft => graph'[v] = graph[v]
<1>1. /\ TypeOK /\ Local /\ VersionInv /\ RunInv /\ PublishedWasValidated
      /\ automation \in Automation /\ graph \in [Versions -> Graphs \cup {None}]
      /\ automation.draft \in Versions /\ Versions \subseteq Nat
  BY DEF RInv, TypeOK, Automation, Versions
<1>2. UNCHANGED <<archived, enrollment, run, target, time>>
  BY DEF SaveDraft, SetStatus, PublishDraft, runs
<1> DEFINE Goal == /\ automation' \in Automation /\ graph' \in [Versions -> Graphs \cup {None}]
                   /\ automation.draft <= automation'.draft
                   /\ \A v \in Versions : v < automation.draft => graph'[v] = graph[v]
                   /\ PublishedWasValidated'
                   /\ proc' \in [Procs -> ProcState] /\ Local'
<1>3. ASSUME NEW g \in Graphs, SaveDraft(g) PROVE Goal
  <2>1. graph' = [graph EXCEPT ![automation.draft] = g] /\ UNCHANGED <<automation, proc>>
    BY <1>3 DEF SaveDraft
  <2>2. \A v \in Versions : v < automation.draft => graph'[v] = graph[v]
    BY <1>1, <2>1
  <2>3. PublishedWasValidated'
    BY <1>1, <2>1, <2>2 DEF PublishedWasValidated
  <2>4. graph' \in [Versions -> Graphs \cup {None}]
    BY <1>1, <2>1
  <2>5. proc' \in [Procs -> ProcState] /\ Local'
    BY <1>1, <2>1 DEF TypeOK, Local
  <2>6. automation.draft \in Nat /\ automation' = automation
    BY <1>1, <2>1
  <2>7. automation.draft <= automation'.draft /\ automation' \in Automation
    BY <1>1, <2>6
  <2> QED BY <2>2, <2>3, <2>4, <2>5, <2>7
<1>4. ASSUME NEW status \in {"active", "paused"}, SetStatus(status) PROVE Goal
  <2>1. automation' = [automation EXCEPT !.status = status] /\ UNCHANGED <<graph, proc>>
    BY <1>4 DEF SetStatus
  <2>2. automation' \in Automation /\ automation'.draft = automation.draft
    BY <1>1, <2>1 DEF Automation
  <2> QED BY <1>1, <2>1, <2>2 DEF TypeOK, Local, PublishedWasValidated
<1>5. ASSUME NEW p \in Procs, PublishDraft(p) PROVE Goal
  <2> DEFINE v == proc[p].version
  <2>1. /\ v \in Versions /\ proc[p].graph \in Valid /\ Valid \subseteq Graphs
        /\ proc[p].pc = "publish" /\ Return(p)
    BY <1>1, <1>5 DEF PublishDraft, Local, Fits, RunsAssumption
  <2>2. proc' \in [Procs -> ProcState] /\ Local'
    BY <1>1, <2>1, Returned
  <2>3. CASE automation.draft = v /\ graph[v] = proc[p].graph
    <3>1. /\ automation' = [status |-> "active", published |-> v, draft |-> v + 1]
          /\ graph' = [graph EXCEPT ![v + 1] = proc[p].graph] /\ v < MaxVersion
      BY <1>5, <2>3 DEF PublishDraft
    <3>2. v + 1 \in Versions
      BY <2>1, <3>1 DEF Versions, RunsAssumption
    <3>3. automation' \in Automation /\ automation'.draft = v + 1
      BY <2>1, <3>1, <3>2 DEF Automation
    <3>4. graph' \in [Versions -> Graphs \cup {None}]
          /\ \A n \in Versions : n # v + 1 => graph'[n] = graph[n]
      BY <1>1, <2>1, <3>1, <3>2
    <3> v \in Nat /\ Versions \subseteq Nat
      BY <1>1, <2>1
    <3> HIDE DEF v
    <3>5. \A n \in Versions : n < v + 1 => n # v + 1 /\ (n < v \/ n = v)
      OBVIOUS
    <3>6. PublishedWasValidated'
      BY <1>1, <2>1, <2>3, <3>3, <3>4, <3>5 DEF PublishedWasValidated
    <3>7. v <= v + 1 /\ \A n \in Versions : n < v => n # v + 1
      OBVIOUS
    <3> QED BY <2>2, <2>3, <3>3, <3>4, <3>6, <3>7
  <2>4. CASE ~(automation.draft = v /\ graph[v] = proc[p].graph)
    <3>1. UNCHANGED <<automation, graph>>
      BY <1>5, <2>4 DEF PublishDraft, authoring
    <3>2. automation.draft \in Nat
      BY <1>1
    <3>3. automation.draft <= automation'.draft /\ PublishedWasValidated'
      BY <1>1, <3>1, <3>2 DEF PublishedWasValidated
    <3> QED BY <1>1, <2>2, <3>1, <3>3
  <2> QED BY <2>3, <2>4
<1>6. Goal
  BY <1>3, <1>4, <1>5
<1>7. VersionInv'
  <2> SUFFICES ASSUME NEW c \in Contacts, NEW s \in Sources, Entered(c, s)
               PROVE  enrollment[c][s].version \in Versions
                      /\ enrollment[c][s].version < automation'.draft
    BY <1>2 DEF VersionInv, Entered
  <2>1. /\ enrollment[c][s].version \in Versions /\ enrollment[c][s].version < automation.draft
        /\ automation'.draft \in Versions
    BY <1>1, <1>6 DEF VersionInv, Automation
  <2> QED BY <1>1, <1>6, <2>1
<1>8. RunInv'
  BY <1>1, <1>2 DEF RunInv, Entered, Open
<1> QED BY <1>1, <1>2, <1>6, <1>7, <1>8 DEF RInv, TypeOK

\* What separates two enrollments stays as it is.
LEMMA ReentryFrame ==
    ASSUME RInv, ReentryKept,
           \A v \in Versions : v < automation.draft => graph'[v] = graph[v],
           \A c \in Contacts, s \in Sources :
              Entered(c, s)' => /\ Entered(c, s)
                               /\ enrollment'[c][s].version = enrollment[c][s].version
                               /\ enrollment'[c][s].entered = enrollment[c][s].entered
    PROVE  ReentryKept'
<1>1. \A c \in Contacts, s \in Sources : Entered(c, s)' => RuleOf(c, s)' = RuleOf(c, s)
  BY DEF RInv, VersionInv, RuleOf
<1>2. \A c \in Contacts, s, t \in Sources :
        s # t /\ Entered(c, s)' /\ Entered(c, t)' =>
            /\ ~(RuleOf(c, s)' = "once" /\ RuleOf(c, t)' = "once")
            /\ RuleOf(c, s)' = "cooldown" /\ RuleOf(c, t)' = "cooldown" =>
                  \/ enrollment'[c][s].entered - enrollment'[c][t].entered >= Cooldown
                  \/ enrollment'[c][t].entered - enrollment'[c][s].entered >= Cooldown
  <2> SUFFICES ASSUME NEW c \in Contacts, NEW s \in Sources, NEW t \in Sources,
                      s # t, Entered(c, s)', Entered(c, t)'
               PROVE  /\ ~(RuleOf(c, s)' = "once" /\ RuleOf(c, t)' = "once")
                      /\ RuleOf(c, s)' = "cooldown" /\ RuleOf(c, t)' = "cooldown" =>
                           \/ enrollment'[c][s].entered - enrollment'[c][t].entered >= Cooldown
                           \/ enrollment'[c][t].entered - enrollment'[c][s].entered >= Cooldown
    OBVIOUS
  <2>1. /\ Entered(c, s) /\ Entered(c, t)
        /\ enrollment'[c][s].entered = enrollment[c][s].entered
        /\ enrollment'[c][t].entered = enrollment[c][t].entered
        /\ RuleOf(c, s)' = RuleOf(c, s) /\ RuleOf(c, t)' = RuleOf(c, t)
    BY <1>1
  <2> QED BY <2>1 DEF ReentryKept
<1> QED BY <1>2 DEF ReentryKept
-----------------------------------------------------------------------------
(* Runs                                                                    *)

LEMMA StartSteps ==
    ASSUME RunsAssumption, RInv, NEW p \in Procs, StartRun(p)
    PROVE  RInv'
<1> DEFINE r == proc[p].source
<1>1. /\ TypeOK /\ Local /\ RunInv /\ Fits(proc[p]) /\ proc[p] \in ProcState
      /\ proc[p].pc = "start" /\ Return(p) /\ Slots \subseteq Sources
      /\ UNCHANGED <<automation, graph, archived, enrollment, time>>
      /\ run \in [Slots -> Run] /\ target \in [Slots -> [Contacts -> Target]]
  BY DEF RInv, TypeOK, Local, StartRun, authoring, Sources
<1>2. r \in Slots /\ proc' \in [Procs -> ProcState] /\ Local'
  BY <1>1, Returned DEF Fits
<1>3. run' \in [Slots -> Run] /\ target' \in [Slots -> [Contacts -> Target]] /\ RunInv'
  <2>1. CASE UNCHANGED runs
    BY <1>1, <2>1 DEF runs, RunInv, Entered, Open
  <2>2. CASE ~UNCHANGED runs
    <3> DEFINE e == [status |-> "enrolling", version |-> proc[p].version]
               T == [c \in Contacts |-> IF c \in archived THEN NoTarget
                                        ELSE [NoTarget EXCEPT !.status = "pending"]]
    <3>1. /\ run' = [run EXCEPT ![r] = e] /\ target' = [target EXCEPT ![r] = T]
          /\ run[r].status = "absent"
      BY <2>2 DEF StartRun
    <3>2. e \in Run /\ e.status = "enrolling"
      BY <1>1 DEF Run, ProcState
    <3>3. /\ T \in [Contacts -> Target]
          /\ \A c \in Contacts : T[c].attempts < AttemptLimit
      BY DEF NoTarget, Target, RunsAssumption
    <3> HIDE DEF e, T
    <3>4. /\ run' \in [Slots -> Run] /\ target' \in [Slots -> [Contacts -> Target]]
          /\ \A x \in Slots : /\ x # r => run'[x] = run[x] /\ target'[x] = target[x]
                              /\ x = r => run'[x] = e /\ target'[x] = T
      BY <1>1, <1>2, <3>1, <3>2, <3>3
    <3>5. \A c \in Contacts : ~Entered(c, r) /\ enrollment[c][r].status # "active"
      BY <1>1, <1>2, <3>1 DEF RunInv, Entered
    <3>6. RunInv'
      <4> SUFFICES ASSUME NEW x \in Slots, NEW c \in Contacts
                   PROVE  /\ target'[x][c].status = "pending" =>
                               run'[x].status = "enrolling" /\ target'[x][c].attempts < AttemptLimit
                          /\ run'[x].status = "absent" => target'[x][c].status = "none"
                          /\ Entered(c, x) => target'[x][c].status = "enrolled"
                          /\ enrollment[c][x].status = "active" =>
                               run'[x].status \in {"enrolling", "running"}
        BY <1>1 DEF RunInv, Entered, Open
      <4>1. CASE x = r
        BY <3>2, <3>3, <3>4, <3>5, <4>1
      <4>2. CASE x # r
        BY <1>1, <3>4, <4>2 DEF RunInv, Open
      <4> QED BY <4>1, <4>2
    <3> QED BY <3>4, <3>6
  <2> QED BY <2>1, <2>2
<1> QED BY <1>1, <1>2, <1>3 DEF RInv, TypeOK, VersionInv, PublishedWasValidated, Entered

\* One target is decided, or tried once more.
LEMMA Decided ==
    ASSUME RunsAssumption, RInv, NEW r \in Slots, NEW c \in Contacts, NEW d \in Target,
           target' = [target EXCEPT ![r][c] = d],
           d = target[r][c] \/ (target[r][c].status = "pending" /\ d.status # "none"),
           d.status = "pending" => d.attempts < AttemptLimit,
           UNCHANGED <<enrollment, run>>
    PROVE  /\ target' \in [Slots -> [Contacts -> Target]] /\ RunInv'
           /\ \A x \in Slots, y \in Contacts :
                target'[x][y] = IF x = r /\ y = c THEN d ELSE target[x][y]
<1>1. RunInv /\ target \in [Slots -> [Contacts -> Target]] /\ Slots \subseteq Sources
  BY DEF RInv, TypeOK, Sources
<1>2. target' = [target EXCEPT ![r] = [target[r] EXCEPT ![c] = d]]
  OBVIOUS
<1>3. /\ target' \in [Slots -> [Contacts -> Target]]
      /\ \A x \in Slots, y \in Contacts :
           target'[x][y] = IF x = r /\ y = c THEN d ELSE target[x][y]
  BY <1>1, <1>2
<1>4. RunInv'
  <2> SUFFICES ASSUME NEW x \in Slots, NEW y \in Contacts
               PROVE  /\ target'[x][y].status = "pending" =>
                           run[x].status = "enrolling" /\ target'[x][y].attempts < AttemptLimit
                      /\ run[x].status = "absent" => target'[x][y].status = "none"
                      /\ Entered(y, x) => target'[x][y].status = "enrolled"
                      /\ enrollment[y][x].status = "active" => Open(x)
    BY DEF RunInv, Entered, Open
  <2>1. CASE target'[x][y] = target[x][y]
    BY <1>1, <2>1 DEF RunInv
  <2>2. CASE target'[x][y] # target[x][y]
    <3>1. x = r /\ y = c /\ target'[x][y] = d /\ target[x][y].status = "pending"
      BY <1>3, <2>2
    <3>2. run[x].status = "enrolling" /\ ~Entered(y, x)
      BY <1>1, <3>1 DEF RunInv
    <3>3. enrollment[y][x].status # "active"
      BY <3>2 DEF Entered
    <3> QED BY <3>1, <3>2, <3>3
  <2> QED BY <2>1, <2>2
<1> QED BY <1>3, <1>4

\* What SkipTarget and FailTarget write.
Skipped(d) == IF d.status = "pending" THEN [d EXCEPT !.status = "skipped"] ELSE d
Tried(d) == IF d.status = "pending"
            THEN [attempts |-> d.attempts + 1,
                  status |-> IF d.attempts >= AttemptLimit - 1 THEN "failed" ELSE "pending"]
            ELSE d

LEMMA DecideSteps ==
    ASSUME RunsAssumption, RInv, NEW p \in Procs, SkipTarget(p) \/ FailTarget(p)
    PROVE  /\ RInv'
           /\ UNCHANGED <<automation, graph, archived, enrollment, run, time>>
           /\ proc[p].source \in Slots /\ proc[p].contact \in Contacts
           /\ LET r == proc[p].source
                  c == proc[p].contact
              IN  /\ \A x \in Slots, y \in Contacts : x # r \/ y # c => target'[x][y] = target[x][y]
                  /\ SkipTarget(p) => target'[r][c] = Skipped(target[r][c])
                  /\ FailTarget(p) => target'[r][c] = Tried(target[r][c])
<1> DEFINE r == proc[p].source
           c == proc[p].contact
<1>1. /\ TypeOK /\ Local /\ RunInv /\ Fits(proc[p])
      /\ proc[p].pc \in {"skip", "fail"} /\ NextTarget(p)
      /\ UNCHANGED <<automation, graph, archived, enrollment, run, time>>
  BY DEF RInv, Local, SkipTarget, FailTarget, authoring
<1>2. r \in Slots /\ c \in Contacts /\ proc' \in [Procs -> ProcState] /\ Local'
  BY <1>1, WentOn DEF Fits
<1>3. /\ target[r][c] \in Target
      /\ target[r][c].status = "pending" => target[r][c].attempts < AttemptLimit
  BY <1>1, <1>2 DEF TypeOK, RunInv
<1> DEFINE Goal == /\ target' \in [Slots -> [Contacts -> Target]] /\ RunInv'
                   /\ \A x \in Slots, y \in Contacts :
                        x # r \/ y # c => target'[x][y] = target[x][y]
<1>4. ASSUME NEW d \in Target, target' = [target EXCEPT ![r][c] = d],
             d = target[r][c] \/ (target[r][c].status = "pending" /\ d.status # "none"),
             d.status = "pending" => d.attempts < AttemptLimit
      PROVE  Goal /\ target'[r][c] = d
  <2> HIDE DEF r, c
  <2>1. /\ target' \in [Slots -> [Contacts -> Target]] /\ RunInv'
        /\ \A x \in Slots, y \in Contacts :
             target'[x][y] = IF x = r /\ y = c THEN d ELSE target[x][y]
    BY <1>1, <1>2, <1>4, Decided
  <2> QED BY <1>2, <2>1
<1>5. ASSUME SkipTarget(p) PROVE Goal /\ target'[r][c] = Skipped(target[r][c])
  <2> DEFINE d == Skipped(target[r][c])
  <2>1. d \in Target /\ (target[r][c].status = "pending" \/ d = target[r][c])
        /\ (target[r][c].status = "pending" => d.status = "skipped")
    BY <1>3 DEF Skipped, Target
  <2>2. target' = [target EXCEPT ![r][c] = d]
    BY <1>5 DEF SkipTarget, Skipped
  <2> HIDE DEF d
  <2>3. /\ d = target[r][c] \/ (target[r][c].status = "pending" /\ d.status # "none")
        /\ d.status = "pending" => d.attempts < AttemptLimit
    BY <1>3, <2>1
  <2>4. Goal /\ target'[r][c] = d
    BY <1>4, <2>1, <2>2, <2>3
  <2> QED BY <2>4 DEF d
<1>6. ASSUME FailTarget(p) PROVE Goal /\ target'[r][c] = Tried(target[r][c])
  <2> DEFINE d == Tried(target[r][c])
  <2>1. CASE target[r][c].status = "pending"
    <3> DEFINE a == target[r][c].attempts
    <3>1. a \in 0 .. AttemptLimit /\ a < AttemptLimit /\ AttemptLimit \in Nat
      BY <1>3, <2>1 DEF Target, RunsAssumption
    <3>2. a + 1 \in 0 .. AttemptLimit /\ (~(a >= AttemptLimit - 1) => a + 1 < AttemptLimit)
      BY <3>1
    <3>3. d = [attempts |-> a + 1,
               status |-> IF a >= AttemptLimit - 1 THEN "failed" ELSE "pending"]
      BY <2>1 DEF Tried
    <3> HIDE DEF a
    <3>4. d \in Target /\ d.status \in {"failed", "pending"}
          /\ (d.status = "pending" => d.attempts < AttemptLimit)
      BY <3>2, <3>3 DEF Target
    <3>5. target' = [target EXCEPT ![r][c] = d]
      BY <1>6, <2>1 DEF FailTarget, Tried
    <3> HIDE DEF d
    <3> QED BY <1>4, <2>1, <3>4, <3>5 DEF d
  <2>2. CASE target[r][c].status # "pending"
    <3>1. d = target[r][c] /\ target' = [target EXCEPT ![r][c] = target[r][c]]
      BY <1>6, <2>2 DEF FailTarget, Tried
    <3> HIDE DEF d
    <3>2. Goal /\ target'[r][c] = target[r][c]
      BY <1>3, <1>4, <2>2, <3>1
    <3> QED BY <3>1, <3>2 DEF d
  <2> QED BY <2>1, <2>2
<1>7. Goal
  BY <1>5, <1>6
<1>8. RInv'
  BY <1>1, <1>2, <1>7 DEF RInv, TypeOK, VersionInv, PublishedWasValidated, Entered
<1> QED BY <1>1, <1>2, <1>5, <1>6, <1>7, <1>8
\* refresh closes a run in which nothing waits and nothing goes on.
LEMMA RefreshSteps ==
    ASSUME RunsAssumption, RInv, NEW p \in Procs, Refresh(p)
    PROVE  /\ RInv' /\ proc[p].source \in Slots
           /\ UNCHANGED <<automation, graph, archived, enrollment, target, time>>
           /\ \A x \in Slots : run'[x].status = IF x = proc[p].source /\ Open(x)
                                                THEN Refreshed(x) ELSE run[x].status
<1> DEFINE r == proc[p].source
<1>1. /\ TypeOK /\ Local /\ RunInv /\ Fits(proc[p])
      /\ proc[p].pc = "refresh" /\ Return(p) /\ Slots \subseteq Sources
      /\ UNCHANGED <<automation, graph, archived, enrollment, target, time>>
      /\ run \in [Slots -> Run]
  BY DEF RInv, TypeOK, Local, Refresh, authoring, Sources
<1>2. r \in Slots /\ proc' \in [Procs -> ProcState] /\ Local'
  BY <1>1, Returned DEF Fits
<1>3. Refreshed(r) \in {"enrolling", "running", "failed", "completed"}
  BY DEF Refreshed
<1>4. /\ run' \in [Slots -> Run]
      /\ \A x \in Slots : run'[x].status = IF x = r /\ Open(x) THEN Refreshed(x)
                                           ELSE run[x].status
  <2>1. CASE ~Open(r)
    <3>1. run' = run
      BY <2>1 DEF Refresh
    <3> QED BY <1>1, <2>1, <3>1
  <2>2. CASE Open(r)
    <3> DEFINE e == [run[r] EXCEPT !.status = Refreshed(r)]
    <3>1. run' = [run EXCEPT ![r] = e]
      BY <2>2 DEF Refresh
    <3>2. e \in Run /\ e.status = Refreshed(r)
      <4>1. run[r] \in Run
        BY <1>1, <1>2
      <4> QED BY <1>3, <4>1 DEF Run
    <3> HIDE DEF e, r
    <3> QED BY <1>1, <1>2, <2>2, <3>1, <3>2
  <2> QED BY <2>1, <2>2
<1>5. RunInv'
  <2> SUFFICES ASSUME NEW x \in Slots, NEW c \in Contacts
               PROVE  /\ target[x][c].status = "pending" =>
                           run'[x].status = "enrolling" /\ target[x][c].attempts < AttemptLimit
                      /\ run'[x].status = "absent" => target[x][c].status = "none"
                      /\ Entered(c, x) => target[x][c].status = "enrolled"
                      /\ enrollment[c][x].status = "active" =>
                           run'[x].status \in {"enrolling", "running"}
    BY <1>1 DEF RunInv, Entered, Open
  <2>1. CASE x = r /\ Open(x)
    <3>1. run'[x].status = Refreshed(x) /\ run'[x].status # "absent"
      BY <1>3, <1>4, <2>1
    <3>2. target[x][c].status = "pending" => Refreshed(x) = "enrolling"
      BY DEF Refreshed, Pending
    <3>3. enrollment[c][x].status = "active" => Refreshed(x) \in {"enrolling", "running"}
      <4>1. enrollment[c][x].status = "active" => Flowing(x)
        BY <1>1 DEF RunInv, Entered, Flowing
      <4> QED BY <4>1 DEF Refreshed
    <3> QED BY <1>1, <3>1, <3>2, <3>3 DEF RunInv
  <2>2. CASE ~(x = r /\ Open(x))
    <3>1. run'[x].status = run[x].status
      BY <1>4, <2>2
    <3> QED BY <1>1, <3>1 DEF RunInv, Open
  <2> QED BY <2>1, <2>2
<1> QED BY <1>1, <1>2, <1>4, <1>5 DEF RInv, TypeOK, VersionInv, PublishedWasValidated, Entered

\* A cancellation takes along what waits and what goes on.
LEMMA CancelSteps ==
    ASSUME RunsAssumption, RInv, NEW r \in Slots, CancelRun(r)
    PROVE  /\ RInv' /\ UNCHANGED <<automation, graph, archived, time, proc>>
           /\ \A x \in Slots, c \in Contacts :
                /\ run'[x].status = IF x = r /\ Open(x) THEN "cancelled" ELSE run[x].status
                /\ target'[x][c].status = IF x = r /\ target[x][c].status = "pending"
                                          THEN "skipped" ELSE target[x][c].status
           /\ \A c \in Contacts, s \in Sources :
                /\ enrollment'[c][s].status = IF s = r /\ enrollment[c][s].status = "active"
                                              THEN "cancelled" ELSE enrollment[c][s].status
                /\ enrollment'[c][s].version = enrollment[c][s].version
                /\ enrollment'[c][s].entered = enrollment[c][s].entered
<1>1. /\ TypeOK /\ Local /\ RunInv /\ Slots \subseteq Sources
      /\ UNCHANGED <<automation, graph, archived, time, proc>>
      /\ run \in [Slots -> Run] /\ target \in [Slots -> [Contacts -> Target]]
      /\ enrollment \in [Contacts -> [Sources -> Enrollment]]
      /\ run[r].status # "absent" /\ run[r] \in Run
  BY DEF RInv, TypeOK, CancelRun, authoring, Sources
<1>2. /\ run' \in [Slots -> Run]
      /\ \A x \in Slots : run'[x].status = IF x = r /\ Open(x) THEN "cancelled"
                                           ELSE run[x].status
  <2>1. CASE ~Open(r)
    BY <1>1, <2>1 DEF CancelRun
  <2>2. CASE Open(r)
    <3> DEFINE e == [run[r] EXCEPT !.status = "cancelled"]
    <3>1. run' = [run EXCEPT ![r] = e] /\ e \in Run /\ e.status = "cancelled"
      BY <1>1, <2>2 DEF CancelRun, Run
    <3> HIDE DEF e
    <3> QED BY <1>1, <2>2, <3>1
  <2> QED BY <2>1, <2>2
<1>3. /\ target' \in [Slots -> [Contacts -> Target]]
      /\ \A x \in Slots, c \in Contacts :
           target'[x][c] = IF x = r THEN Skipped(target[x][c]) ELSE target[x][c]
  <2> DEFINE T == [c \in Contacts |-> Skipped(target[r][c])]
  <2>1. target' = [target EXCEPT ![r] = T]
    BY <1>1 DEF CancelRun, Skipped
  <2>2. \A c \in Contacts : Skipped(target[r][c]) \in Target
    <3> SUFFICES ASSUME NEW c \in Contacts PROVE Skipped(target[r][c]) \in Target
      OBVIOUS
    <3>1. target[r][c] \in Target
      BY <1>1
    <3> QED BY <3>1 DEF Skipped, Target
  <2>3. T \in [Contacts -> Target] /\ \A c \in Contacts : T[c] = Skipped(target[r][c])
    BY <2>2
  <2> HIDE DEF T
  <2> QED BY <1>1, <2>1, <2>3
<1>4. \A x \in Slots, c \in Contacts :
         /\ target'[x][c].status = IF x = r /\ target[x][c].status = "pending"
                                   THEN "skipped" ELSE target[x][c].status
         /\ target'[x][c].attempts = target[x][c].attempts
  <2> SUFFICES ASSUME NEW x \in Slots, NEW c \in Contacts
               PROVE  /\ target'[x][c].status = IF x = r /\ target[x][c].status = "pending"
                                                THEN "skipped" ELSE target[x][c].status
                      /\ target'[x][c].attempts = target[x][c].attempts
    OBVIOUS
  <2>1. target[x][c] \in Target
    BY <1>1
  <2>2. /\ Skipped(target[x][c]).status = IF target[x][c].status = "pending" THEN "skipped"
                                          ELSE target[x][c].status
        /\ Skipped(target[x][c]).attempts = target[x][c].attempts
    BY <2>1 DEF Skipped, Target
  <2> QED BY <1>3, <2>2
<1>5. /\ enrollment' \in [Contacts -> [Sources -> Enrollment]]
      /\ \A c \in Contacts, s \in Sources :
           /\ enrollment'[c][s].status = IF s = r /\ enrollment[c][s].status = "active"
                                         THEN "cancelled" ELSE enrollment[c][s].status
           /\ enrollment'[c][s].version = enrollment[c][s].version
           /\ enrollment'[c][s].entered = enrollment[c][s].entered
  <2>1. ASSUME NEW c \in Contacts
        PROVE  /\ enrollment'[c] \in [Sources -> Enrollment]
               /\ \A s \in Sources :
                    /\ enrollment'[c][s].status =
                         IF s = r /\ enrollment[c][s].status = "active"
                         THEN "cancelled" ELSE enrollment[c][s].status
                    /\ enrollment'[c][s].version = enrollment[c][s].version
                    /\ enrollment'[c][s].entered = enrollment[c][s].entered
    <3> DEFINE e == [enrollment[c][r] EXCEPT
                       !.status = IF @ = "active" THEN "cancelled" ELSE @]
    <3>1. enrollment'[c] = [enrollment[c] EXCEPT ![r] = e]
      BY DEF CancelRun
    <3>2. enrollment[c] \in [Sources -> Enrollment] /\ enrollment[c][r] \in Enrollment
          /\ r \in Sources
      BY <1>1
    <3>3. /\ e \in Enrollment
          /\ e.status = IF enrollment[c][r].status = "active" THEN "cancelled"
                        ELSE enrollment[c][r].status
          /\ e.version = enrollment[c][r].version /\ e.entered = enrollment[c][r].entered
      BY <3>2 DEF Enrollment
    <3> HIDE DEF e
    <3>4. /\ enrollment'[c] \in [Sources -> Enrollment]
          /\ \A s \in Sources : enrollment'[c][s] = IF s = r THEN e ELSE enrollment[c][s]
      BY <3>1, <3>2, <3>3
    <3> QED BY <3>3, <3>4
  <2>2. enrollment' = [c \in Contacts |-> enrollment'[c]]
    BY DEF CancelRun
  <2> QED BY <2>1, <2>2
<1>6. RunInv'
  <2> SUFFICES ASSUME NEW x \in Slots, NEW c \in Contacts
               PROVE  /\ target'[x][c].status = "pending" =>
                           run'[x].status = "enrolling" /\ target'[x][c].attempts < AttemptLimit
                      /\ run'[x].status = "absent" => target'[x][c].status = "none"
                      /\ enrollment'[c][x].status # "absent" => target'[x][c].status = "enrolled"
                      /\ enrollment'[c][x].status = "active" =>
                           run'[x].status \in {"enrolling", "running"}
    BY DEF RunInv, Entered, Open
  <2>1. /\ target[x][c].status = "pending" =>
             run[x].status = "enrolling" /\ target[x][c].attempts < AttemptLimit
        /\ run[x].status = "absent" => target[x][c].status = "none"
        /\ enrollment[c][x].status # "absent" => target[x][c].status = "enrolled"
        /\ enrollment[c][x].status = "active" => Open(x)
    BY <1>1 DEF RunInv, Entered
  <2>2. /\ enrollment'[c][x].status = IF x = r /\ enrollment[c][x].status = "active"
                                      THEN "cancelled" ELSE enrollment[c][x].status
    BY <1>1, <1>5
  <2>3. CASE x = r
    BY <1>1, <1>2, <1>4, <2>1, <2>2, <2>3
  <2>4. CASE x # r
    BY <1>2, <1>4, <2>1, <2>2, <2>4 DEF Open
  <2> QED BY <2>3, <2>4
<1>7. VersionInv'
  BY <1>1, <1>5 DEF RInv, VersionInv, Entered
<1>8. TypeOK' /\ Local' /\ PublishedWasValidated'
  BY <1>1, <1>2, <1>3, <1>5 DEF RInv, TypeOK, Local, PublishedWasValidated
<1> QED BY <1>1, <1>2, <1>4, <1>5, <1>6, <1>7, <1>8 DEF RInv
-----------------------------------------------------------------------------
(* The contacts, the engine and time                                       *)

LEMMA EndSteps ==
    ASSUME RunsAssumption, RInv, NEW c \in Contacts, NEW s \in Sources, EndEnrollment(c, s)
    PROVE  /\ RInv' /\ UNCHANGED <<automation, graph, archived, run, target, time, proc>>
           /\ enrollment[c][s].status = "active"
           /\ \E status \in {"completed", "failed", "cancelled"} :
                \A x \in Contacts, t \in Sources :
                   /\ enrollment'[x][t].status = IF x = c /\ t = s THEN status
                                                 ELSE enrollment[x][t].status
                   /\ enrollment'[x][t].version = enrollment[x][t].version
                   /\ enrollment'[x][t].entered = enrollment[x][t].entered
<1>1. /\ TypeOK /\ Local /\ RunInv /\ Slots \subseteq Sources
      /\ UNCHANGED <<automation, graph, archived, run, target, time, proc>>
      /\ enrollment \in [Contacts -> [Sources -> Enrollment]]
      /\ enrollment[c][s].status = "active" /\ enrollment[c][s] \in Enrollment
  BY DEF RInv, TypeOK, EndEnrollment, authoring, runs, Sources
<1>2. PICK status \in {"completed", "failed", "cancelled"} :
         enrollment' = [enrollment EXCEPT ![c][s].status = status]
  BY DEF EndEnrollment
<1> DEFINE e == [enrollment[c][s] EXCEPT !.status = status]
<1>3. e \in Enrollment /\ e.status = status /\ e.version = enrollment[c][s].version
      /\ e.entered = enrollment[c][s].entered
  BY <1>1 DEF Enrollment
<1>4. enrollment' = [enrollment EXCEPT ![c] = [enrollment[c] EXCEPT ![s] = e]]
  BY <1>2
<1> HIDE DEF e
<1>5. /\ enrollment' \in [Contacts -> [Sources -> Enrollment]]
      /\ \A x \in Contacts, t \in Sources :
           enrollment'[x][t] = IF x = c /\ t = s THEN e ELSE enrollment[x][t]
  BY <1>1, <1>3, <1>4
<1>6. \A x \in Contacts, t \in Sources :
         /\ enrollment'[x][t].status = IF x = c /\ t = s THEN status
                                       ELSE enrollment[x][t].status
         /\ enrollment'[x][t].version = enrollment[x][t].version
         /\ enrollment'[x][t].entered = enrollment[x][t].entered
  BY <1>3, <1>5
<1>7. \A x \in Contacts, t \in Sources :
         /\ Entered(x, t)' => Entered(x, t)
         /\ enrollment'[x][t].status = "active" => enrollment[x][t].status = "active"
  BY <1>1, <1>6 DEF Entered
<1>8. RunInv' /\ VersionInv'
  BY <1>1, <1>6, <1>7 DEF RInv, RunInv, VersionInv, Open
<1>9. TypeOK' /\ Local' /\ PublishedWasValidated'
  BY <1>1, <1>5 DEF RInv, TypeOK, Local, PublishedWasValidated
<1> QED BY <1>1, <1>6, <1>8, <1>9 DEF RInv

LEMMA OtherSteps ==
    ASSUME RunsAssumption, RInv, (\E c \in Contacts : ArchiveContact(c)) \/ Tick
    PROVE  RInv' /\ UNCHANGED <<automation, graph, enrollment, run, target, proc>>
<1>1. UNCHANGED <<automation, graph, enrollment, run, target, proc>>
  BY DEF ArchiveContact, Tick, authoring, runs
<1>2. archived' \subseteq Contacts /\ time' \in 0 .. MaxTime
  BY DEF RInv, TypeOK, ArchiveContact, Tick, RunsAssumption
<1> QED BY <1>1, <1>2
       DEF RInv, TypeOK, Local, VersionInv, RunInv, PublishedWasValidated, Entered, Open

-----------------------------------------------------------------------------
(* The invariants                                                          *)

LEMMA InitReentry == Init => ReentryKept
BY DEF Init, ReentryKept, Entered, NoEnrollment

LEMMA NextRInv ==
    ASSUME RunsAssumption, RInv, [Next]_vars
    PROVE  RInv' /\ (ReentryKept => ReentryKept')
<1> DEFINE Kept == /\ \A v \in Versions : v < automation.draft => graph'[v] = graph[v]
                   /\ \A c \in Contacts, s \in Sources :
                        Entered(c, s)' => /\ Entered(c, s)
                                         /\ enrollment'[c][s].version = enrollment[c][s].version
                                         /\ enrollment'[c][s].entered = enrollment[c][s].entered
<1>1. ASSUME UNCHANGED <<graph, enrollment>> PROVE Kept
  BY <1>1 DEF Entered
<1>2. ASSUME Kept PROVE ReentryKept => ReentryKept'
  BY <1>2, ReentryFrame
<1>3. ASSUME NEW p \in Procs, Processor(p) \/ Crash(p) PROVE RInv' /\ (ReentryKept => ReentryKept')
  <2>1. CASE \/ FindDraft(p) \/ Refuse(p) \/ ReadPublished(p) \/ ListTargets(p) \/ Crash(p)
             \/ \E o \in Occasions : FindTrigger(p, o)
             \/ \E c \in Contacts : ListInactive(p, c) \/ ReadVersion(p, c)
             \/ \E r \in Slots : FindRun(p, r) \/ BeginRun(p, r)
    <3>1. UNCHANGED <<graph, enrollment>>
      BY <2>1 DEF FindDraft, Refuse, ReadPublished, ListTargets, Crash, FindTrigger,
                  ListInactive, ReadVersion, FindRun, BeginRun, authoring
    <3> QED BY <1>1, <1>2, <2>1, <3>1, Reads
  <2>2. CASE Enroll(p) \/ Throw(p)
    BY <2>2, EnrollSteps
  <2>3. CASE PublishDraft(p)
    <3>1. RInv' /\ \A v \in Versions : v < automation.draft => graph'[v] = graph[v]
      BY <2>3, AuthoringSteps
    <3>2. UNCHANGED enrollment
      BY <2>3 DEF PublishDraft
    <3> QED BY <1>2, <3>1, <3>2 DEF Entered
  <2>4. CASE StartRun(p)
    <3>1. UNCHANGED <<graph, enrollment>>
      BY <2>4 DEF StartRun, authoring
    <3> QED BY <1>1, <1>2, <2>4, <3>1, StartSteps
  <2>5. CASE SkipTarget(p) \/ FailTarget(p)
    BY <1>1, <1>2, <2>5, DecideSteps
  <2>6. CASE Refresh(p)
    BY <1>1, <1>2, <2>6, RefreshSteps
  <2> QED BY <1>3, <2>1, <2>2, <2>3, <2>4, <2>5, <2>6 DEF Processor
<1>4. ASSUME \/ \E g \in Graphs : SaveDraft(g)
             \/ \E status \in {"active", "paused"} : SetStatus(status)
      PROVE  RInv' /\ (ReentryKept => ReentryKept')
  <2>1. RInv' /\ \A v \in Versions : v < automation.draft => graph'[v] = graph[v]
    BY <1>4, AuthoringSteps
  <2>2. UNCHANGED enrollment
    BY <1>4 DEF SaveDraft, SetStatus
  <2> QED BY <1>2, <2>1, <2>2 DEF Entered
<1>5. ASSUME NEW r \in Slots, CancelRun(r) PROVE RInv' /\ (ReentryKept => ReentryKept')
  <2>1. RInv' /\ UNCHANGED graph
    BY <1>5, CancelSteps
  <2>2. \A c \in Contacts, s \in Sources :
           /\ enrollment'[c][s].status = IF s = r /\ enrollment[c][s].status = "active"
                                         THEN "cancelled" ELSE enrollment[c][s].status
           /\ enrollment'[c][s].version = enrollment[c][s].version
           /\ enrollment'[c][s].entered = enrollment[c][s].entered
    BY <1>5, CancelSteps
  <2>3. Kept
    BY <2>1, <2>2 DEF Entered
  <2> QED BY <1>2, <2>1, <2>3
<1>6. ASSUME NEW c \in Contacts, NEW s \in Sources, EndEnrollment(c, s)
      PROVE  RInv' /\ (ReentryKept => ReentryKept')
  <2>1. RInv' /\ UNCHANGED graph /\ enrollment[c][s].status = "active"
    BY <1>6, EndSteps
  <2>2. PICK status \in {"completed", "failed", "cancelled"} :
           \A x \in Contacts, t \in Sources :
              /\ enrollment'[x][t].status = IF x = c /\ t = s THEN status
                                            ELSE enrollment[x][t].status
              /\ enrollment'[x][t].version = enrollment[x][t].version
              /\ enrollment'[x][t].entered = enrollment[x][t].entered
    BY <1>6, EndSteps
  <2>3. Kept
    BY <2>1, <2>2 DEF Entered
  <2> QED BY <1>2, <2>1, <2>3
<1>7. ASSUME (\E c \in Contacts : ArchiveContact(c)) \/ Tick
      PROVE  RInv' /\ (ReentryKept => ReentryKept')
  BY <1>1, <1>2, <1>7, OtherSteps
<1>8. ASSUME UNCHANGED vars PROVE RInv' /\ (ReentryKept => ReentryKept')
  <2>1. UNCHANGED <<automation, graph, archived, enrollment, run, target, time, proc>>
    BY <1>8 DEF vars
  <2>2. RInv'
    BY <2>1 DEF RInv, TypeOK, Local, VersionInv, RunInv, PublishedWasValidated, Entered, Open
  <2> QED BY <1>1, <1>2, <2>1, <2>2
<1> QED BY <1>3, <1>4, <1>5, <1>6, <1>7, <1>8 DEF Next

\* The tables and the invocations keep their types (automation-repository.ts, runs): no
\* statement writes a version, a status or a count outside what its column may hold, and
\* a target is tried AttemptLimit times at most.
THEOREM RunTypes == ASSUME RunsAssumption PROVE Spec => []TypeOK
<1>1. Init => RInv
  BY InitRInv
<1>2. RInv /\ [Next]_vars => RInv'
  BY NextRInv
<1>3. RInv => TypeOK
  BY DEF RInv
<1> QED BY <1>1, <1>2, <1>3, PTL DEF Spec

\* Every published version is a graph that validateAutomation and the resource checks
\* let pass: publishDraft compares the draft with what was checked, in the statement that
\* publishes it, and no later draft overwrites a published version.
THEOREM Validated == ASSUME RunsAssumption PROVE Spec => []PublishedWasValidated
<1>1. Init => RInv
  BY InitRInv
<1>2. RInv /\ [Next]_vars => RInv'
  BY NextRInv
<1>3. RInv => PublishedWasValidated
  BY DEF RInv
<1> QED BY <1>1, <1>2, <1>3, PTL DEF Spec

\* The rule of re-entry is kept between any two enrollments of a contact, whatever the
\* triggers, requests and runs that insert them at once: the insert itself asks for the
\* earlier ones, and what they say of their version and time never changes.
THEOREM ReentryHolds == ASSUME RunsAssumption PROVE Spec => []ReentryKept
<1>1. Init => RInv /\ ReentryKept
  BY InitRInv, InitReentry
<1>2. RInv /\ ReentryKept /\ [Next]_vars => (RInv /\ ReentryKept)'
  BY NextRInv
<1> QED BY <1>1, <1>2, PTL DEF Spec
-----------------------------------------------------------------------------
(* The refinement of BatchRun                                              *)

State == [r \in Slots |-> IF Open(r) THEN "open" ELSE run[r].status]
Decision == [r \in Slots |-> [c \in Contacts |-> target[r][c].status]]
Flow == [r \in Slots |-> [c \in Contacts |-> enrollment[c][r].status]]

\* Steps that change no status that BatchRun sees.
LEMMA SameRuns == ASSUME UNCHANGED run PROVE UNCHANGED State
BY DEF State, Open

LEMMA SameDecisions ==
    ASSUME \A r \in Slots, c \in Contacts : target'[r][c].status = target[r][c].status
    PROVE  UNCHANGED Decision
BY DEF Decision

LEMMA SameFlows ==
    ASSUME \A r \in Slots, c \in Contacts : enrollment'[c][r].status = enrollment[c][r].status
    PROVE  UNCHANGED Flow
BY DEF Flow

LEMMA Stutter ==
    ASSUME UNCHANGED <<State, Decision, Flow>> PROVE UNCHANGED Abstract!vars
BY DEF Abstract!vars, State, Decision, Flow

LEMMA StutterRuns == ASSUME UNCHANGED <<run, target, enrollment>> PROVE UNCHANGED Abstract!vars
BY SameRuns, SameDecisions, SameFlows, Stutter

LEMMA RefineInit == ASSUME Init PROVE Abstract!Init
<1>1. \A c \in Contacts, r \in Slots : r \in Sources
  BY DEF Sources
<1>2. State = [r \in Slots |-> "absent"]
  BY DEF Init, State, Open
<1>3. Decision = [r \in Slots |-> [c \in Contacts |-> "none"]]
  BY DEF Init, Decision, NoTarget
<1>4. Flow = [r \in Slots |-> [c \in Contacts |-> "absent"]]
  BY <1>1 DEF Init, Flow, NoEnrollment
<1> QED BY <1>2, <1>3, <1>4 DEF Abstract!Init, State, Decision, Flow

LEMMA RefineStart ==
    ASSUME RunsAssumption, RInv, NEW p \in Procs, StartRun(p)
    PROVE  [Abstract!Next]_(Abstract!vars)
<1>1. /\ Local /\ Fits(proc[p]) /\ proc[p].pc = "start" /\ UNCHANGED enrollment
      /\ run \in [Slots -> Run] /\ target \in [Slots -> [Contacts -> Target]]
  BY DEF RInv, TypeOK, Local, StartRun
<1>2. PICK r \in Slots : r = proc[p].source
  BY <1>1 DEF Fits
<1>3. CASE UNCHANGED runs
  BY <1>1, <1>3, StutterRuns DEF runs
<1>4. CASE ~UNCHANGED runs
  <2> DEFINE e == [status |-> "enrolling", version |-> proc[p].version]
             T == [c \in Contacts |-> IF c \in archived THEN NoTarget
                                      ELSE [NoTarget EXCEPT !.status = "pending"]]
             A == Contacts \ archived
  <2>1. /\ run' = [run EXCEPT ![r] = e] /\ target' = [target EXCEPT ![r] = T]
        /\ run[r].status = "absent"
    BY <1>2, <1>4 DEF StartRun
  <2>2. \A c \in Contacts : T[c].status = IF c \in A THEN "pending" ELSE "none"
    BY DEF NoTarget
  <2>3. e.status = "enrolling"
    OBVIOUS
  <2> HIDE DEF e, T, A
  <2>4. State[r] = "absent" /\ State' = [State EXCEPT ![r] = "open"]
    <3>1. \A x \in Slots : run'[x] = IF x = r THEN e ELSE run[x]
      BY <1>1, <1>2, <2>1
    <3>2. \A x \in Slots : State'[x] = IF x = r THEN "open" ELSE State[x]
      BY <2>3, <3>1 DEF State, Open
    <3>3. State[r] = "absent"
      BY <1>2, <2>1 DEF State, Open
    <3>4. State' = [x \in Slots |-> State'[x]] /\ State = [x \in Slots |-> State[x]]
      BY DEF State
    <3> QED BY <3>2, <3>3, <3>4
  <2>5. Decision' = [Decision EXCEPT ![r] = [c \in Contacts |-> IF c \in A THEN "pending"
                                                              ELSE "none"]]
    <3> DEFINE D == [c \in Contacts |-> IF c \in A THEN "pending" ELSE "none"]
    <3>1. \A x \in Slots : target'[x] = IF x = r THEN T ELSE target[x]
      BY <1>1, <1>2, <2>1
    <3>2. [c \in Contacts |-> T[c].status] = D
      BY <2>2
    <3> HIDE DEF D
    <3>3. \A x \in Slots : [c \in Contacts |-> target'[x][c].status] =
                              IF x = r THEN D ELSE [c \in Contacts |-> target[x][c].status]
      BY <3>1, <3>2
    <3>4. Decision' = [Decision EXCEPT ![r] = D]
      BY <3>3 DEF Decision
    <3> QED BY <3>4 DEF D
  <2>6. UNCHANGED Flow
    BY <1>1, SameFlows
  <2>7. A \in SUBSET Contacts
    BY DEF A
  <2>8. Abstract!Start(r)
    BY <2>4, <2>5, <2>6, <2>7 DEF Abstract!Start, State, Decision, Flow
  <2> SUFFICES Abstract!Next
    OBVIOUS
  <2> USE <1>2 DEF Abstract!Next
  <2> WITNESS r \in Slots
  <2> QED BY <2>8
<1> QED BY <1>3, <1>4

\* Where one target and, with it or alone, one flow change.
LEMMA DecisionOf ==
    ASSUME NEW r \in Slots, NEW c \in Contacts, NEW d,
           \A x \in Slots, y \in Contacts :
              target'[x][y].status = IF x = r /\ y = c THEN d ELSE target[x][y].status
    PROVE  Decision' = [Decision EXCEPT ![r][c] = d]
<1>1. \A x \in Slots, y \in Contacts : Decision'[x][y] = IF x = r /\ y = c THEN d
                                                         ELSE Decision[x][y]
  BY DEF Decision
<1>2. /\ Decision = [x \in Slots |-> [y \in Contacts |-> Decision[x][y]]]
      /\ Decision' = [x \in Slots |-> [y \in Contacts |-> Decision'[x][y]]]
  BY DEF Decision
<1> QED BY <1>1, <1>2

LEMMA FlowOf ==
    ASSUME NEW r \in Slots, NEW c \in Contacts, NEW f,
           \A x \in Slots, y \in Contacts :
              enrollment'[y][x].status = IF x = r /\ y = c THEN f ELSE enrollment[y][x].status
    PROVE  Flow' = [Flow EXCEPT ![r][c] = f]
<1>1. \A x \in Slots, y \in Contacts : Flow'[x][y] = IF x = r /\ y = c THEN f
                                                     ELSE Flow[x][y]
  BY DEF Flow
<1>2. /\ Flow = [x \in Slots |-> [y \in Contacts |-> Flow[x][y]]]
      /\ Flow' = [x \in Slots |-> [y \in Contacts |-> Flow'[x][y]]]
  BY DEF Flow
<1> QED BY <1>1, <1>2

LEMMA RefineEnroll ==
    ASSUME RunsAssumption, RInv, NEW p \in Procs, Enroll(p) \/ Throw(p)
    PROVE  [Abstract!Next]_(Abstract!vars)
<1>1. proc[p].pc = "insert" /\ UNCHANGED run /\ RunInv /\ Slots \subseteq Sources
  BY DEF RInv, Enroll, Throw, Sources
<1>2. CASE UNCHANGED <<enrollment, target>>
  BY <1>1, <1>2, StutterRuns
<1>3. CASE Admitted(p) /\ InsertEnrollment(p)
  <2> PICK r, c : r = proc[p].source /\ c = proc[p].contact
    OBVIOUS
  <2>0. proc[p].pc = "insert" /\ Admitted(p) /\ InsertEnrollment(p)
    BY <1>1, <1>3
  <2>a. /\ c \in Contacts /\ r \in Sources /\ ~Entered(c, r)
        /\ r \in Slots => target[r][c].status = "pending" /\ run[r].status = "enrolling"
    BY <2>0, Inserted
  <2>b. \A x \in Slots, y \in Contacts :
           /\ target'[x][y].status = IF x = proc[p].source /\ y = proc[p].contact
                                     THEN "enrolled" ELSE target[x][y].status
           /\ target'[x][y].attempts = target[x][y].attempts
    BY <2>0, Inserted
  <2>1. /\ c \in Contacts /\ r \in Sources /\ ~Entered(c, r)
        /\ r \in Slots => target[r][c].status = "pending" /\ run[r].status = "enrolling"
        /\ \A x \in Slots, y \in Contacts :
             target'[x][y].status = IF x = r /\ y = c THEN "enrolled" ELSE target[x][y].status
    BY <2>a, <2>b
  <2>2. \A y \in Contacts, t \in Sources :
           enrollment'[y][t] = IF y = c /\ t = r
                               THEN [status |-> "active", version |-> proc[p].version,
                                     entered |-> proc[p].now]
                               ELSE enrollment[y][t]
    BY <1>1, <1>3, Inserted
  <2>3. \A x \in Slots, y \in Contacts :
           enrollment'[y][x].status = IF x = r /\ y = c THEN "active" ELSE enrollment[y][x].status
    BY <1>1, <2>2
  <2>4. CASE r \in Slots
    <3>1. Decision' = [Decision EXCEPT ![r][c] = "enrolled"]
      BY <2>1, <2>4, DecisionOf
    <3>2. Flow' = [Flow EXCEPT ![r][c] = "active"]
      <4>1. \A x \in Slots, y \in Contacts :
               Flow'[x][y] = IF x = r /\ y = c THEN "active" ELSE Flow[x][y]
        BY <2>3 DEF Flow
      <4>2. /\ Flow = [x \in Slots |-> [y \in Contacts |-> Flow[x][y]]]
            /\ Flow' = [x \in Slots |-> [y \in Contacts |-> Flow'[x][y]]]
        BY DEF Flow
      <4> QED BY <2>a, <2>4, <4>1, <4>2
    <3>3. State[r] = "open" /\ Decision[r][c] = "pending" /\ Flow[r][c] = "absent"
      BY <2>1, <2>4 DEF State, Decision, Flow, Open, Entered
    <3>4. UNCHANGED State
      BY <1>1, SameRuns
    <3>5. Abstract!Decide(r, c)
      BY <3>1, <3>2, <3>3, <3>4 DEF Abstract!Decide, State, Decision, Flow
    <3> SUFFICES Abstract!Next
      OBVIOUS
    <3> USE <2>1, <2>4 DEF Abstract!Next
    <3> WITNESS r \in Slots
    <3> SUFFICES \E y \in Contacts : Abstract!Decide(r, y) \/ Abstract!EndFlow(r, y)
      OBVIOUS
    <3> WITNESS c \in Contacts
    <3> QED BY <3>5
  <2>5. CASE r \notin Slots
    <3>1. UNCHANGED <<State, Decision, Flow>>
      BY <1>1, <2>1, <2>3, <2>5, SameRuns, SameDecisions, SameFlows
    <3> QED BY <3>1, Stutter
  <2> QED BY <2>4, <2>5
<1> QED BY <1>2, <1>3 DEF Enroll, Throw

LEMMA RefineDecide ==
    ASSUME RunsAssumption, RInv, NEW p \in Procs, SkipTarget(p) \/ FailTarget(p)
    PROVE  [Abstract!Next]_(Abstract!vars)
<1>0. PICK r, c : r = proc[p].source /\ c = proc[p].contact
  OBVIOUS
<1> DEFINE t == target[r][c]
<1>1. /\ r \in Slots /\ c \in Contacts /\ UNCHANGED <<enrollment, run>> /\ RunInv
      /\ \A x \in Slots, y \in Contacts : x # r \/ y # c => target'[x][y] = target[x][y]
      /\ target'[r][c] \in {Skipped(t), Tried(t)}
  BY <1>0, DecideSteps DEF RInv
<1>2. UNCHANGED State /\ UNCHANGED Flow
  BY <1>1, SameRuns, SameFlows
<1>3. \/ target'[r][c].status = t.status
      \/ t.status = "pending" /\ target'[r][c].status \in {"skipped", "failed"}
  <2>1. t \in Target
    BY <1>1 DEF RInv, TypeOK
  <2> HIDE DEF t
  <2>2. \/ Skipped(t).status = t.status
        \/ t.status = "pending" /\ Skipped(t).status = "skipped"
    BY <2>1 DEF Skipped, Target
  <2>3. \/ Tried(t).status = t.status
        \/ t.status = "pending" /\ Tried(t).status = "failed"
    BY <2>1 DEF Tried
  <2> QED BY <1>1, <2>2, <2>3
<1>4. CASE target'[r][c].status = t.status
  <2>1. \A x \in Slots, y \in Contacts : target'[x][y].status = target[x][y].status
    BY <1>1, <1>4
  <2> QED BY <1>2, <2>1, SameDecisions, Stutter
<1>5. CASE t.status = "pending" /\ target'[r][c].status \in {"skipped", "failed"}
  <2> DEFINE d == target'[r][c].status
  <2>1. Decision' = [Decision EXCEPT ![r][c] = d]
    <3>1. \A x \in Slots, y \in Contacts :
             target'[x][y].status = IF x = r /\ y = c THEN d ELSE target[x][y].status
      BY <1>1
    <3> HIDE DEF d
    <3> QED BY <1>1, <3>1, DecisionOf
  <2>2. State[r] = "open" /\ Decision[r][c] = "pending"
    BY <1>1, <1>5 DEF State, Decision, RunInv, Open
  <2>3. d \in {"skipped", "failed"}
    BY <1>5
  <2> HIDE DEF d
  <2>4. Abstract!Decide(r, c)
    BY <1>2, <2>1, <2>2, <2>3 DEF Abstract!Decide, State, Decision, Flow
  <2> SUFFICES Abstract!Next
    OBVIOUS
  <2> USE <1>1 DEF Abstract!Next
  <2> WITNESS r \in Slots
  <2> SUFFICES \E y \in Contacts : Abstract!Decide(r, y) \/ Abstract!EndFlow(r, y)
    OBVIOUS
  <2> WITNESS c \in Contacts
  <2> QED BY <2>4
<1> QED BY <1>3, <1>4, <1>5

LEMMA RefineRefresh ==
    ASSUME RunsAssumption, RInv, NEW p \in Procs, Refresh(p)
    PROVE  [Abstract!Next]_(Abstract!vars)
<1>1. PICK r \in Slots : r = proc[p].source
  BY RefreshSteps
<1>2. /\ RunInv /\ UNCHANGED <<enrollment, target>>
      /\ \A x \in Slots : run'[x].status = IF x = r /\ Open(x) THEN Refreshed(x)
                                           ELSE run[x].status
  BY <1>1, RefreshSteps DEF RInv
<1>3. UNCHANGED Decision /\ UNCHANGED Flow
  BY <1>2, SameDecisions, SameFlows
<1> DEFINE closed == IF Failed(r) THEN "failed" ELSE "completed"
<1>4. CASE Open(r) /\ ~Pending(r) /\ ~Flowing(r)
  <2>1. Refreshed(r) = closed
    BY <1>4 DEF Refreshed
  <2>2. closed \notin {"enrolling", "running"}
    OBVIOUS
  <2>3. State[r] = "open" /\ State' = [State EXCEPT ![r] = closed]
    <3> HIDE DEF closed
    <3>1. \A x \in Slots : State'[x] = IF x = r THEN closed ELSE State[x]
      BY <1>2, <1>4, <2>1, <2>2 DEF State, Open
    <3>2. State' = [x \in Slots |-> State'[x]] /\ State = [x \in Slots |-> State[x]]
      BY DEF State
    <3> QED BY <1>4, <3>1, <3>2 DEF State
  <2>4. \A c \in Contacts : Decision[r][c] # "pending" /\ Flow[r][c] # "active"
    <3>1. \A c \in Contacts : enrollment[c][r].status = "active" => target[r][c].status = "enrolled"
      BY <1>2 DEF RunInv, Entered
    <3> QED BY <1>4, <3>1 DEF Decision, Flow, Pending, Flowing
  <2>5. Failed(r) <=> \E c \in Contacts : Decision[r][c] = "failed" \/ Flow[r][c] = "failed"
    <3>1. \A c \in Contacts : enrollment[c][r].status = "failed" => target[r][c].status = "enrolled"
      BY <1>2 DEF RunInv, Entered
    <3> QED BY <3>1 DEF Failed, Decision, Flow
  <2>6. Abstract!Close(r)
    BY <1>3, <2>3, <2>4, <2>5 DEF Abstract!Close, State, Decision, Flow
  <2> SUFFICES Abstract!Next
    OBVIOUS
  <2> USE DEF Abstract!Next
  <2> WITNESS r \in Slots
  <2> QED BY <2>6
<1>5. CASE ~(Open(r) /\ ~Pending(r) /\ ~Flowing(r))
  <2>1. Open(r) => Refreshed(r) \in {"enrolling", "running"}
    BY <1>5 DEF Refreshed
  <2>2. \A x \in Slots : State'[x] = State[x]
    BY <1>2, <2>1 DEF State, Open
  <2>3. UNCHANGED State
    BY <2>2 DEF State
  <2> QED BY <1>3, <2>3, Stutter
<1> QED BY <1>4, <1>5

\* A closed run has nothing left that a cancellation would change.
LEMMA RefineCancel ==
    ASSUME RunsAssumption, RInv, NEW r \in Slots, CancelRun(r)
    PROVE  [Abstract!Next]_(Abstract!vars)
<1>1. \A x \in Slots, c \in Contacts :
         /\ run'[x].status = IF x = r /\ Open(x) THEN "cancelled" ELSE run[x].status
         /\ target'[x][c].status = IF x = r /\ target[x][c].status = "pending"
                                   THEN "skipped" ELSE target[x][c].status
  BY CancelSteps
<1>2. \A c \in Contacts, s \in Sources :
         enrollment'[c][s].status = IF s = r /\ enrollment[c][s].status = "active"
                                    THEN "cancelled" ELSE enrollment[c][s].status
  BY CancelSteps
<1>3. RunInv /\ Slots \subseteq Sources
  BY DEF RInv, Sources
<1>4. \A x \in Slots, c \in Contacts :
         enrollment'[c][x].status = IF x = r /\ enrollment[c][x].status = "active"
                                    THEN "cancelled" ELSE enrollment[c][x].status
  BY <1>2, <1>3
<1>5. \A x \in Slots : run'[x].status = IF x = r /\ Open(x) THEN "cancelled" ELSE run[x].status
  <2>1. run' = IF Open(r) THEN [run EXCEPT ![r].status = "cancelled"] ELSE run
    BY DEF CancelRun
  <2>2. run \in [Slots -> Run]
    BY DEF RInv, TypeOK
  <2> QED BY <2>1, <2>2 DEF Run
<1>6. CASE Open(r)
  <2>1. State[r] = "open" /\ State' = [State EXCEPT ![r] = "cancelled"]
    <3>1. \A x \in Slots : State'[x] = IF x = r THEN "cancelled" ELSE State[x]
      BY <1>5, <1>6 DEF State, Open
    <3>2. State' = [x \in Slots |-> State'[x]] /\ State = [x \in Slots |-> State[x]]
      BY DEF State
    <3> QED BY <1>6, <3>1, <3>2 DEF State
  <2>2. Decision' = [Decision EXCEPT ![r] = [c \in Contacts |->
                       IF @[c] = "pending" THEN "skipped" ELSE @[c]]]
    <3>1. \A x \in Slots : Decision'[x] =
             IF x = r THEN [c \in Contacts |-> IF Decision[r][c] = "pending" THEN "skipped"
                                               ELSE Decision[r][c]]
             ELSE Decision[x]
      BY <1>1 DEF Decision
    <3>2. Decision' = [x \in Slots |-> Decision'[x]] /\ Decision = [x \in Slots |-> Decision[x]]
      BY DEF Decision
    <3> QED BY <3>1, <3>2
  <2>3. Flow' = [Flow EXCEPT ![r] = [c \in Contacts |->
                   IF @[c] = "active" THEN "cancelled" ELSE @[c]]]
    <3>1. \A x \in Slots : Flow'[x] =
             IF x = r THEN [c \in Contacts |-> IF Flow[r][c] = "active" THEN "cancelled"
                                               ELSE Flow[r][c]]
             ELSE Flow[x]
      BY <1>4 DEF Flow
    <3>2. Flow' = [x \in Slots |-> Flow'[x]] /\ Flow = [x \in Slots |-> Flow[x]]
      BY DEF Flow
    <3> QED BY <3>1, <3>2
  <2>4. Abstract!Cancel(r)
    BY <2>1, <2>2, <2>3 DEF Abstract!Cancel, State, Decision, Flow
  <2> SUFFICES Abstract!Next
    OBVIOUS
  <2> USE DEF Abstract!Next
  <2> WITNESS r \in Slots
  <2> QED BY <2>4
<1>7. CASE ~Open(r)
  <2>1. \A c \in Contacts : target[r][c].status # "pending" /\ enrollment[c][r].status # "active"
    BY <1>3, <1>7 DEF RunInv, Open
  <2>2. UNCHANGED Decision
    BY <1>1, <2>1, SameDecisions
  <2>3. UNCHANGED Flow
    BY <1>4, <2>1, SameFlows
  <2>4. UNCHANGED State
    BY <1>7, SameRuns DEF CancelRun
  <2> QED BY <2>2, <2>3, <2>4, Stutter
<1> QED BY <1>6, <1>7

LEMMA RefineEnd ==
    ASSUME RunsAssumption, RInv, NEW c \in Contacts, NEW s \in Sources, EndEnrollment(c, s)
    PROVE  [Abstract!Next]_(Abstract!vars)
<1>1. /\ UNCHANGED <<run, target>> /\ enrollment[c][s].status = "active"
      /\ Slots \subseteq Sources
  BY EndSteps DEF Sources
<1>2. PICK f \in {"completed", "failed", "cancelled"} :
         \A x \in Contacts, t \in Sources :
            /\ enrollment'[x][t].status = IF x = c /\ t = s THEN f ELSE enrollment[x][t].status
            /\ enrollment'[x][t].version = enrollment[x][t].version
            /\ enrollment'[x][t].entered = enrollment[x][t].entered
  BY EndSteps
<1>3. UNCHANGED State /\ UNCHANGED Decision
  BY <1>1, SameRuns, SameDecisions
<1>4. CASE s \in Slots
  <2>1. \A x \in Slots, y \in Contacts :
           enrollment'[y][x].status = IF x = s /\ y = c THEN f ELSE enrollment[y][x].status
    BY <1>1, <1>2
  <2>2. Flow' = [Flow EXCEPT ![s][c] = f]
    BY <1>4, <2>1, FlowOf
  <2>3. Flow[s][c] = "active"
    BY <1>1, <1>4 DEF Flow
  <2>4. Abstract!EndFlow(s, c)
    BY <1>3, <2>2, <2>3 DEF Abstract!EndFlow, State, Decision, Flow
  <2> SUFFICES Abstract!Next
    OBVIOUS
  <2> USE <1>4 DEF Abstract!Next
  <2> WITNESS s \in Slots
  <2> SUFFICES \E y \in Contacts : Abstract!Decide(s, y) \/ Abstract!EndFlow(s, y)
    OBVIOUS
  <2> WITNESS c \in Contacts
  <2> QED BY <2>4
<1>5. CASE s \notin Slots
  <2>1. UNCHANGED Flow
    BY <1>1, <1>2, <1>5, SameFlows
  <2> QED BY <1>3, <2>1, Stutter
<1> QED BY <1>4, <1>5

LEMMA RefineNext ==
    ASSUME RunsAssumption, RInv, [Next]_vars PROVE [Abstract!Next]_(Abstract!vars)
<1>1. ASSUME NEW p \in Procs, Processor(p) \/ Crash(p) PROVE [Abstract!Next]_(Abstract!vars)
  <2>1. CASE \/ FindDraft(p) \/ Refuse(p) \/ ReadPublished(p) \/ ListTargets(p) \/ Crash(p)
             \/ PublishDraft(p)
             \/ \E o \in Occasions : FindTrigger(p, o)
             \/ \E c \in Contacts : ListInactive(p, c) \/ ReadVersion(p, c)
             \/ \E r \in Slots : FindRun(p, r) \/ BeginRun(p, r)
    <3>1. UNCHANGED <<run, target, enrollment>>
      BY <2>1 DEF FindDraft, Refuse, ReadPublished, ListTargets, Crash, PublishDraft, FindTrigger,
                  ListInactive, ReadVersion, FindRun, BeginRun, runs
    <3> QED BY <3>1, StutterRuns
  <2>2. CASE Enroll(p) \/ Throw(p)
    BY <2>2, RefineEnroll
  <2>3. CASE StartRun(p)
    BY <2>3, RefineStart
  <2>4. CASE SkipTarget(p) \/ FailTarget(p)
    BY <2>4, RefineDecide
  <2>5. CASE Refresh(p)
    BY <2>5, RefineRefresh
  <2> QED BY <1>1, <2>1, <2>2, <2>3, <2>4, <2>5 DEF Processor
<1>2. ASSUME \/ \E g \in Graphs : SaveDraft(g)
             \/ \E status \in {"active", "paused"} : SetStatus(status)
             \/ \E c \in Contacts : ArchiveContact(c)
             \/ Tick \/ UNCHANGED vars
      PROVE  [Abstract!Next]_(Abstract!vars)
  <2>1. UNCHANGED <<run, target, enrollment>>
    BY <1>2 DEF SaveDraft, SetStatus, ArchiveContact, Tick, vars, runs
  <2> QED BY <2>1, StutterRuns
<1>3. ASSUME NEW r \in Slots, CancelRun(r) PROVE [Abstract!Next]_(Abstract!vars)
  BY <1>3, RefineCancel
<1>4. ASSUME NEW c \in Contacts, NEW s \in Sources, EndEnrollment(c, s)
      PROVE  [Abstract!Next]_(Abstract!vars)
  BY <1>4, RefineEnd
<1> QED BY <1>1, <1>2, <1>3, <1>4 DEF Next

\* The runs keep the promise of BatchRun, however the messages, the triggers, the
\* cancellations and the crashes interleave: the audience is frozen when a run starts,
\* each target is decided once and while the run is open, an enrolled target has one
\* flow, and a run closes when nothing is left to decide and no flow goes on.
THEOREM RunsImplementBatchRun == ASSUME RunsAssumption PROVE Spec => ImplementsBatchRun
<1>1. Init => RInv /\ Abstract!Init
  BY InitRInv, RefineInit
<1>2. RInv /\ [Next]_vars => RInv'
  BY NextRInv
<1>3. RInv /\ [Next]_vars => [Abstract!Next]_(Abstract!vars)
  BY RefineNext
<1> QED BY <1>1, <1>2, <1>3, PTL DEF Spec, ImplementsBatchRun, Abstract!Spec
=============================================================================
