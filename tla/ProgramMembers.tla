---------------------------- MODULE ProgramMembers ----------------------------
(***************************************************************************)
(* The members of a project's program: commands by an operator, a form or  *)
(* an automation, and the import of a CSV file of members.  A command is   *)
(* prepared from several reads and written in one batch that asks again    *)
(* for what it was prepared from; a batch that lost is prepared anew.      *)
(*                                                                         *)
(* One D1 statement or batch is one action.  A process is one invocation   *)
(* of the worker; its name stands for the lease id it makes up.            *)
(***************************************************************************)
EXTENDS ProgramProgress, FiniteSets

CONSTANTS
    Contacts,
    Calls,         \* idempotency keys of the commands that are called
    Command,       \* by key: [contact, status, version, source, correction, expected]
    Total,         \* rows of the import; their keys are their numbers
    Readable,      \* rows that parse and name a contact
    Unit,          \* rows of one invocation, 25 in the code
    MaxTries,      \* tries of a batch, 4 in the code
    MaxChanges,    \* bound: publications, archivals and losses of authority together
    Procs

Rows == 1 .. Total
Keys == Calls \cup Rows

Member == [version : Versions, status : UNION {Definition[v].statuses : v \in Versions},
           success : BOOLEAN]

ProgramAssumption ==
    /\ \A v \in Versions :
          LET d == Definition[v]
          IN /\ d.initial \in d.statuses /\ d.success \subseteq d.statuses
             /\ d.next \in [d.statuses -> SUBSET d.statuses]
    /\ Total \in Nat /\ Unit \in Nat \ {0} /\ MaxTries \in Nat \ {0}
    /\ Readable \subseteq Rows /\ Calls \cap Rows = {} /\ None \notin Keys \cup Member
    /\ \A k \in Calls \cup Readable :
          /\ Command[k].contact \in Contacts
          /\ Command[k].source \in {"manual", "form", "automation", "csv"}
          /\ Command[k].version \in Versions \cup {None}
          /\ k \in Rows => Command[k].source = "csv" /\ ~Command[k].correction
                           /\ Command[k].expected = None

VARIABLES
    journey,       \* project_members with project_member_transitions, by contact
    recorded,      \* keys in project_member_commands
    published,     \* project_programs.published_version
    open,          \* projects.archived_at is null
    gone,          \* contacts that are archived
    authorized,    \* the automation's job runs under its lease and its enrollment is active
    job,           \* the row of project_member_import_jobs
    report,        \* its rows
    proc           \* what each invocation holds between two awaits

vars == <<journey, recorded, published, open, gone, authorized, job, report, proc>>

Job == [status : {"absent", "pending", "running", "completed"}, processed : 0 .. Total,
        lease : Procs \cup {None}, live : BOOLEAN]
PC == {"idle", "prior", "program", "member", "commit", "again", "load", "row", "reload",
       "reject", "release"}
ProcState == [pc : PC, key : Keys \cup {None}, tries : 0 .. MaxTries,
              published : Versions \cup {None}, revision : Nat,
              processed : 0 .. Total, upto : 0 .. Total,  \* of the import's claim
              refusing : BOOLEAN]                         \* the project is gone
Idle == [pc |-> "idle", key |-> None, tries |-> 0, published |-> None, revision |-> 0,
         processed |-> 0, upto |-> 0, refusing |-> FALSE]

Init ==
    /\ journey = [c \in Contacts |-> <<>>]
    /\ recorded = {}
    /\ published = None /\ open = TRUE /\ gone = {} /\ authorized = TRUE
    /\ job = [status |-> "absent", processed |-> 0, lease |-> None, live |-> FALSE]
    /\ report = [r \in Rows |-> "none"]
    /\ proc = [p \in Procs |-> Idle]

-----------------------------------------------------------------------------
(* What the statements share.                                              *)

members == <<journey, recorded>>
surroundings == <<published, open, gone, authorized>>
import == <<job, report>>

Return(p) == proc' = [proc EXCEPT ![p] = Idle]
Goto(p, pc) == proc' = [proc EXCEPT ![p].pc = pc]
Importing(p) == proc[p].key \in Rows

\* A command of an import that cannot be carried out becomes a row that failed.
GiveUp(p) == IF Importing(p) THEN Goto(p, "reject") ELSE Return(p)

Base(p) == At(journey[Command[proc[p].key].contact], proc[p].revision)
Prepared(p) == Outcome(Base(p), proc[p].revision, Command[proc[p].key], proc[p].published)

\* The guard of the batch that a command writes.
Unchanged(p) == Len(journey[Command[proc[p].key].contact]) = proc[p].revision
StillPublished(p) ==
    proc[p].revision = 0 /\ Command[proc[p].key].version = None
        => published = proc[p].published
Permitted(p) ==
    LET k == proc[p].key
    IN /\ open /\ Command[k].contact \notin gone
       /\ Command[k].source = "automation" => authorized
       /\ k \notin recorded

GuardedBlindly(p) ==        \* fault: the revision is not asked for
    Permitted(p) /\ StillPublished(p)
Guarded(p) == Permitted(p) /\ Unchanged(p) /\ StillPublished(p)

\* The lease and the position that commitRow asks for.
Fenced(p) ==
    /\ job.status = "running" /\ job.lease = p /\ job.live
    /\ job.processed = proc[p].processed

\* commitRow, its own statements; the next row is as it was found.
ReportRow(p, outcome) ==
    /\ report' = [report EXCEPT ![proc[p].key] = outcome]
    /\ job' = [job EXCEPT !.processed = proc[p].processed + 1, !.live = TRUE]
    /\ proc' = [proc EXCEPT ![p].pc = "row", ![p].processed = @ + 1, ![p].key = None,
                            ![p].tries = 0, ![p].revision = 0]

-----------------------------------------------------------------------------
(* mutate, and what it shares with the import.                             *)

\* The project and the contact are looked for first.
Call(p, k) ==
    /\ proc[p].pc = "idle"
    /\ open /\ Command[k].contact \notin gone
    /\ proc' = [proc EXCEPT ![p] = [Idle EXCEPT !.pc = "prior", !.key = k]]
    /\ UNCHANGED <<members, surroundings, import>>

\* A command that was carried out before has its result.
ReadPrior(p) ==
    /\ proc[p].pc = "prior"
    /\ IF proc[p].key \in recorded
       THEN IF Importing(p) THEN Goto(p, "again") ELSE Return(p)
       ELSE Goto(p, IF Importing(p) THEN "member" ELSE "program")
    /\ UNCHANGED <<members, surroundings, import>>

ReadProgram(p) ==
    /\ proc[p].pc = "program"
    /\ IF open THEN proc' = [proc EXCEPT ![p].pc = "member", ![p].published = published]
       ELSE Return(p)
    /\ UNCHANGED <<members, surroundings, import>>

\* The member is read; a published definition never changes.
ReadMember(p) ==
    LET revision == Len(journey[Command[proc[p].key].contact])
        current == At(journey[Command[proc[p].key].contact], revision)
    IN /\ proc[p].pc = "member"
       /\ IF Outcome(current, revision, Command[proc[p].key], proc[p].published) = Refused
          THEN GiveUp(p)
          ELSE proc' = [proc EXCEPT ![p].pc = "commit", ![p].revision = revision]
       /\ UNCHANGED <<members, surroundings, import>>

\* The batch: the command, the member and its transition, with the row of an import.
Commit(p) ==
    LET k == proc[p].key
        c == Command[k].contact
    IN /\ proc[p].pc = "commit"
       /\ Guarded(p) /\ (Importing(p) => Fenced(p))
       /\ journey' = [journey EXCEPT ![c] = Continued(@, Prepared(p), Command[k])]
       /\ recorded' = recorded \cup {k}
       /\ IF Importing(p) THEN ReportRow(p, "ok") ELSE (Return(p) /\ UNCHANGED import)
       /\ UNCHANGED surroundings

\* The batch is rolled back by its guard and prepared again, a few times.
Conflict(p) ==
    LET tries == proc[p].tries + 1
    IN /\ proc[p].pc = "commit"
       /\ ~Guarded(p) /\ (Importing(p) => Fenced(p))
       /\ IF Importing(p) THEN proc' = [proc EXCEPT ![p].pc = "reload", ![p].tries = tries]
          ELSE IF tries < MaxTries
               THEN proc' = [proc EXCEPT ![p].pc = "prior", ![p].tries = tries,
                                         ![p].published = None, ![p].revision = 0]
               ELSE Return(p)
       /\ UNCHANGED <<members, surroundings, import>>

-----------------------------------------------------------------------------
(* The import: accept, then processProgramMemberImport by a message of the *)
(* acceptance, of an invocation with rows left, or of cron.                *)

Accept ==
    /\ job.status = "absent" /\ open
    /\ job' = [job EXCEPT !.status = "pending"]
    /\ UNCHANGED <<members, surroundings, report, proc>>

Claim(p) ==
    /\ proc[p].pc = "idle"
    /\ \/ job.status = "pending"
       \/ job.status = "running" /\ ~job.live
    /\ job' = [job EXCEPT !.status = "running", !.lease = p, !.live = TRUE]
    /\ proc' = [proc EXCEPT ![p] = [Idle EXCEPT !.pc = "load", !.processed = job.processed,
           !.upto = IF job.processed + Unit < Total THEN job.processed + Unit ELSE Total]]
    /\ UNCHANGED <<members, surroundings, report>>

LoadProgram(p) ==
    /\ proc[p].pc = "load"
    /\ proc' = [proc EXCEPT ![p].pc = "row", ![p].refusing = ~open,
                            ![p].published = IF open THEN published ELSE None]
    /\ UNCHANGED <<members, surroundings, import>>

\* findContact, of a row that parses.
BeginRow(p) ==
    LET r == proc[p].processed + 1
        usable == /\ r \in Readable /\ ~proc[p].refusing
                  /\ Command[r].contact \notin gone
    IN /\ proc[p].pc = "row"
       /\ IF proc[p].processed = proc[p].upto THEN Goto(p, "release")
          ELSE proc' = [proc EXCEPT ![p].key = r, ![p].pc = IF usable THEN "prior" ELSE "reject"]
       /\ UNCHANGED <<members, surroundings, import>>

\* After a conflict the program is read again.
Reload(p) ==
    /\ proc[p].pc = "reload"
    /\ IF open /\ proc[p].tries < MaxTries
       THEN proc' = [proc EXCEPT ![p].pc = "prior", ![p].published = published]
       ELSE proc' = [proc EXCEPT ![p].pc = "reject",
                                 ![p].published = IF open THEN published ELSE @]
    /\ UNCHANGED <<members, surroundings, import>>

\* commitRow without a command: of a row that fails, or whose command was carried out.
CommitRow(p) ==
    /\ proc[p].pc \in {"reject", "again"}
    /\ Fenced(p)
    /\ ReportRow(p, IF proc[p].pc = "again" THEN "ok" ELSE "failed")
    /\ UNCHANGED <<members, surroundings>>

\* The lease is lost: the batch is rolled back and the invocation fails.
LoseLease(p) ==
    /\ proc[p].pc \in {"commit", "reject", "again"}
    /\ Importing(p) /\ ~Fenced(p)
    /\ Return(p)
    /\ UNCHANGED <<members, surroundings, import>>

Release(p) ==
    /\ proc[p].pc = "release"
    /\ job' = IF job.status = "running" /\ job.lease = p
              THEN [job EXCEPT !.status = IF proc[p].processed = Total THEN "completed"
                                          ELSE "pending",
                               !.lease = None, !.live = FALSE]
              ELSE job
    /\ Return(p)
    /\ UNCHANGED <<members, surroundings, report>>

-----------------------------------------------------------------------------
(* The surroundings, time and crashes.                                     *)

Changes == (IF published = None THEN 0 ELSE published) + Cardinality(gone)
           + (IF open THEN 0 ELSE 1) + (IF authorized THEN 0 ELSE 1)

Publish ==
    /\ open /\ Changes < MaxChanges
    /\ published' = IF published = None THEN 1 ELSE published + 1
    /\ published' \in Versions
    /\ UNCHANGED <<members, open, gone, authorized, import, proc>>

ArchiveProject ==
    /\ open /\ Changes < MaxChanges
    /\ open' = FALSE
    /\ UNCHANGED <<members, published, gone, authorized, import, proc>>

ArchiveContact(c) ==
    /\ c \notin gone /\ Changes < MaxChanges
    /\ gone' = gone \cup {c}
    /\ UNCHANGED <<members, published, open, authorized, import, proc>>

LoseAuthority ==
    /\ authorized /\ Changes < MaxChanges
    /\ authorized' = FALSE
    /\ UNCHANGED <<members, published, open, gone, import, proc>>

LeaseExpires ==
    /\ job.status = "running" /\ job.live
    /\ job' = [job EXCEPT !.live = FALSE]
    /\ UNCHANGED <<members, surroundings, report, proc>>

Crash(p) ==
    /\ proc[p].pc # "idle"
    /\ Return(p)
    /\ UNCHANGED <<members, surroundings, import>>

Process(p) ==
    \/ \E k \in Calls : Call(p, k)
    \/ ReadPrior(p) \/ ReadProgram(p) \/ ReadMember(p) \/ Commit(p) \/ Conflict(p)
    \/ Claim(p) \/ LoadProgram(p) \/ BeginRow(p) \/ Reload(p) \/ CommitRow(p) \/ LoseLease(p)
    \/ Release(p)

Next ==
    \/ \E p \in Procs : Process(p) \/ Crash(p)
    \/ Accept \/ Publish \/ ArchiveProject \/ LoseAuthority \/ LeaseExpires
    \/ \E c \in Contacts : ArchiveContact(c)

Spec == Init /\ [][Next]_vars
-----------------------------------------------------------------------------
(* Properties.                                                             *)

TypeOK ==
    /\ journey \in [Contacts -> Seq(Member)]
    /\ recorded \subseteq Keys
    /\ published \in Versions \cup {None}
    /\ open \in BOOLEAN /\ gone \subseteq Contacts /\ authorized \in BOOLEAN
    /\ job \in Job
    /\ report \in [Rows -> {"none", "ok", "failed"}]
    /\ proc \in [Procs -> ProcState]

\* Whatever was read, overtaken and retried, every command is carried out once and as if
\* it were alone, and the import takes its rows once, in order, and reports what happened.
Ledger == INSTANCE ProgramLedger WITH counted <- job.processed
ImplementsProgramLedger == Ledger!Spec
=============================================================================
