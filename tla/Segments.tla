------------------------------- MODULE Segments -------------------------------
(***************************************************************************)
(* The members of one segment.  A dynamic segment holds the contacts its   *)
(* filter matches, by a delta when a contact changed and by a full refresh *)
(* when the filter did or two minutes have passed; a static one holds whom *)
(* a user or an automation added.  Messages, reads and writes of all of    *)
(* these interleave.                                                       *)
(*                                                                         *)
(* One D1 statement or batch is one action.  A filter is the set of the    *)
(* profiles it matches.  A process is one invocation: a request of a user  *)
(* or a message of the queue.                                              *)
(***************************************************************************)
EXTENDS Integers, FiniteSets

CONSTANTS
    Contacts,
    Profiles,      \* what a contact may look like; Archived is one of them
    Archived,
    Filters,       \* sets of profiles
    FirstFilter,   \* of a segment that is created as a dynamic one
    MaxChanges,    \* bound on the requests of a behaviour
    MaxFaults,     \* bound on crashes, failures and lost messages
    Procs,
    None

ASSUME SegmentsAssumption ==
    /\ Archived \in Profiles /\ FirstFilter \in Filters
    /\ \A f \in Filters : f \subseteq Profiles \ {Archived}
    /\ MaxChanges \in Nat /\ MaxFaults \in Nat
    /\ None \notin Filters /\ IsFiniteSet(Contacts)

VARIABLES
    segment,       \* the row of segments
    members,       \* segment_memberships.source, by contact
    profile,       \* the contacts
    told,          \* the last of the contact's segment_joined and segment_left events, or
                   \* "twice" when one of them followed another of its kind
    kept,          \* the kind is that of the creation
    queue,         \* messages of the jobs queue
    proc,          \* what each invocation holds between two awaits
    changes, faults

vars == <<segment, members, profile, told, kept, queue, proc, changes, faults>>

Versions == 1 .. MaxChanges + 1
Segment == [kind : {"dynamic", "static"}, filter : Filters \cup {None}, version : Versions,
            count : Nat,
            status : {"pending", "running", "ready", "failed"},
            fresh : BOOLEAN]           \* evaluated_at is at most two minutes ago
Message == [kind : {"contact"}, contact : Contacts] \cup [kind : {"full"}, version : Versions]

PC == {"idle", "enqueue", "update", "clear", "count", "joined", "pending",
       "definition", "mark", "replace", "failed", "recount", "list", "match", "apply", "ack"}
ProcState == [pc : PC, message : Message \cup {None},
              read : [kind : {"dynamic", "static"}, filter : Filters \cup {None},
                      version : Versions, fresh : BOOLEAN] \cup {None},
              wish : [kind : {"dynamic", "static"}, filter : Filters \cup {None}] \cup {None},
              contact : Contacts \cup {None}, matched : BOOLEAN]
Idle == [pc |-> "idle", message |-> None, read |-> None, wish |-> None, contact |-> None,
         matched |-> FALSE]

Init ==
    /\ segment \in {[kind |-> "dynamic", filter |-> FirstFilter, status |-> "pending",
                     version |-> 1, count |-> 0, fresh |-> FALSE],
                    [kind |-> "static", filter |-> None, status |-> "ready",
                     version |-> 1, count |-> 0, fresh |-> FALSE]}
    /\ members = [c \in Contacts |-> "none"]
    /\ profile \in [Contacts -> Profiles \ {Archived}]
    /\ told = [c \in Contacts |-> "nothing"]
    /\ kept = TRUE
    /\ queue = {} /\ proc = [p \in Procs |-> Idle]
    /\ changes = 0 /\ faults = 0

-----------------------------------------------------------------------------
(* What the statements share.                                              *)

contacts == <<profile, changes>>
membership == <<members, told, kept>>

Goto(p, pc) == proc' = [proc EXCEPT ![p].pc = pc]
Return(p) == proc' = [proc EXCEPT ![p] = Idle]

Definition == [kind |-> segment.kind, filter |-> segment.filter, version |-> segment.version,
               fresh |-> segment.fresh]
Matched(c, filter) == profile[c] \in filter
Size == Cardinality({c \in Contacts : members[c] # "none"})

\* The segment still is what the process read, by its kind and version.
Current(p) == segment.kind = "dynamic" /\ segment.version = proc[p].read.version

\* A membership event: a contact joins or leaves.
Tell(c, event) ==
    IF told[c] = event \/ told[c] = "twice" \/ (event = "left" /\ told[c] = "nothing")
    THEN "twice" ELSE event

Evaluated(count) == [segment EXCEPT !.count = count, !.status = "ready", !.fresh = TRUE]

Begin(p) ==
    /\ proc[p].pc = "idle"
    /\ changes < MaxChanges
    /\ changes' = changes + 1

Enqueue(p) ==
    /\ proc[p].pc = "enqueue"
    /\ queue' = queue \cup {proc[p].message}
    /\ Return(p)
    /\ UNCHANGED <<segment, membership, contacts, faults>>

-----------------------------------------------------------------------------
(* Requests.                                                               *)

\* The segments of a contact are to be reconciled.
ForContact(c) == [Idle EXCEPT !.pc = "enqueue", !.message = [kind |-> "contact", contact |-> c]]

\* A contact is changed, archived or restored, and then its segments are asked for.
ChangeContact(p, c, to) ==
    /\ Begin(p)
    /\ to # profile[c]
    /\ profile' = [profile EXCEPT ![c] = to]
    /\ proc' = [proc EXCEPT ![p] = ForContact(c)]
    /\ UNCHANGED <<segment, membership, queue, faults>>

\* updateSegment: the row is read,
Edit(p, kind, filter) ==
    /\ Begin(p)
    /\ kind = "static" <=> filter = None
    /\ proc' = [proc EXCEPT ![p] = [Idle EXCEPT !.pc = "update", !.read = Definition,
                                                !.wish = [kind |-> kind, filter |-> filter]]]
    /\ UNCHANGED <<segment, membership, profile, queue, faults>>

\* written as the version after the one that was read, whatever it is by now,
Updated(p) == [proc[p] EXCEPT !.message = [kind |-> "full", version |-> proc[p].read.version + 1]]
AfterUpdate(p) ==
    [Updated(p) EXCEPT !.pc =
        IF proc[p].wish.kind # proc[p].read.kind THEN "clear"
        ELSE IF proc[p].wish.kind = "dynamic" THEN "enqueue" ELSE "idle"]
Redefined(wish, read) ==
    [kind |-> wish.kind, filter |-> wish.filter, version |-> read.version + 1,
     count |-> segment.count, status |-> IF wish.kind = "dynamic" THEN "pending" ELSE "ready",
     fresh |-> wish.kind = "dynamic" /\ read.fresh]
Update(p) ==
    LET next == AfterUpdate(p)
    IN /\ proc[p].pc = "update"
       /\ segment' = Redefined(proc[p].wish, proc[p].read)
       /\ kept' = (kept /\ proc[p].wish.kind = proc[p].read.kind)
       /\ proc' = [proc EXCEPT ![p] = IF next.pc = "idle" THEN Idle ELSE next]
       /\ UNCHANGED <<members, told, contacts, queue, faults>>

\* and emptied when its kind was changed.
Clear(p) ==
    /\ proc[p].pc = "clear"
    /\ members' = [c \in Contacts |-> "none"]
    /\ Goto(p, "count")
    /\ UNCHANGED <<segment, told, kept, contacts, queue, faults>>

\* updateMemberCount; then the refresh of an edit or the event of an added member.
Count(p) ==
    /\ proc[p].pc = "count"
    /\ segment' = [segment EXCEPT !.count = Size]
    /\ proc' = [proc EXCEPT ![p] =
           IF @.contact # None THEN [@ EXCEPT !.pc = "joined"]
           ELSE IF @.wish # None /\ @.wish.kind = "dynamic" THEN [@ EXCEPT !.pc = "enqueue"]
           ELSE Idle]
    /\ UNCHANGED <<membership, contacts, queue, faults>>

\* addContactSegment, of a static segment and a contact that is not archived.
AddMember(p, c) ==
    /\ Begin(p)
    /\ segment.kind = "static" /\ profile[c] # Archived /\ members[c] = "none"
    /\ members' = [members EXCEPT ![c] = "static"]
    /\ proc' = [proc EXCEPT ![p] = [Idle EXCEPT !.pc = "count", !.contact = c]]
    /\ UNCHANGED <<segment, profile, told, kept, queue, faults>>

RecordJoined(p) ==
    /\ proc[p].pc = "joined"
    /\ told' = [told EXCEPT ![proc[p].contact] = Tell(proc[p].contact, "joined")]
    /\ IF proc[p].message = None THEN Return(p) ELSE Goto(p, "enqueue")
    /\ UNCHANGED <<segment, members, kept, contacts, queue, faults>>

RemoveMember(p, c) ==
    /\ Begin(p)
    /\ members[c] = "static" /\ profile[c] # Archived
    /\ members' = [members EXCEPT ![c] = "none"]
    /\ proc' = [proc EXCEPT ![p] = [Idle EXCEPT !.pc = "count"]]
    /\ UNCHANGED <<segment, profile, told, kept, queue, faults>>

\* A node of an automation adds the contact or removes him whoever added him, and asks for
\* his segments in either case.  Publication accepts only a static segment, but the
\* automation stays published when the segment becomes dynamic.
OfAutomation == segment.kind = "static" \/ ~kept

AutomationAdds(p, c) ==
    LET joins == profile[c] # Archived /\ members[c] = "none"
    IN /\ Begin(p) /\ OfAutomation
       /\ members' = IF joins THEN [members EXCEPT ![c] = "automation"] ELSE members
       /\ proc' = [proc EXCEPT ![p] =
              IF joins THEN [ForContact(c) EXCEPT !.pc = "joined", !.contact = c]
              ELSE ForContact(c)]
       /\ UNCHANGED <<segment, profile, told, kept, queue, faults>>

AutomationRemoves(p, c) ==
    /\ Begin(p) /\ OfAutomation
    /\ members' = IF profile[c] = Archived THEN members ELSE [members EXCEPT ![c] = "none"]
    /\ proc' = [proc EXCEPT ![p] = ForContact(c)]
    /\ UNCHANGED <<segment, profile, told, kept, queue, faults>>

\* A refresh is asked for: findSegmentDefinition, setEvaluationState, the message.
AskRefresh(p) ==
    /\ Begin(p)
    /\ proc' = [proc EXCEPT ![p] = [Idle EXCEPT !.read = Definition,
           !.message = [kind |-> "full", version |-> segment.version],
           !.pc = IF segment.kind = "dynamic" THEN "pending" ELSE "enqueue"]]
    /\ UNCHANGED <<segment, membership, profile, queue, faults>>

SetPending(p) ==
    /\ proc[p].pc = "pending"
    /\ segment' = IF Current(p) THEN [segment EXCEPT !.status = "pending"] ELSE segment
    /\ Goto(p, "enqueue")
    /\ UNCHANGED <<membership, contacts, queue, faults>>

-----------------------------------------------------------------------------
(* Messages.                                                               *)

Take(p, m) ==
    /\ proc[p].pc = "idle"
    /\ m \in queue
    /\ queue' = queue \ {m}
    /\ proc' = [proc EXCEPT ![p] = [Idle EXCEPT !.message = m,
                   !.pc = IF m.kind = "full" THEN "definition" ELSE "list"]]
    /\ UNCHANGED <<segment, membership, contacts, faults>>

\* refreshSegmentMemberships: another version has a message of its own.
ReadDefinition(p) ==
    /\ proc[p].pc = "definition"
    /\ IF proc[p].message.version # segment.version THEN Return(p)
       ELSE proc' = [proc EXCEPT ![p].read = Definition,
                ![p].pc = IF segment.kind = "static" THEN "recount" ELSE "mark"]
    /\ UNCHANGED <<segment, membership, contacts, queue, faults>>

Recount(p) ==
    /\ proc[p].pc = "recount"
    /\ segment' = IF segment.kind = "static" /\ segment.version = proc[p].read.version
                  THEN [segment EXCEPT !.count = Size] ELSE segment
    /\ Goto(p, "ack")
    /\ UNCHANGED <<membership, contacts, queue, faults>>

MarkRunning(p) ==
    /\ proc[p].pc = "mark"
    /\ segment' = IF Current(p) THEN [segment EXCEPT !.status = "running"] ELSE segment
    /\ Goto(p, "replace")
    /\ UNCHANGED <<membership, contacts, queue, faults>>

\* replaceDynamicMemberships: joins and leaves are settled before either is written.
Joins(p, c) == members[c] = "none" /\ Matched(c, proc[p].read.filter)
Leaves(p, c) == members[c] = "dynamic" /\ ~Matched(c, proc[p].read.filter)

Replace(p) ==
    /\ proc[p].pc = "replace"
    /\ IF Current(p)
       THEN /\ members' = [c \in Contacts |->
                  IF Joins(p, c) THEN "dynamic" ELSE IF Leaves(p, c) THEN "none" ELSE members[c]]
            /\ told' = [c \in Contacts |->
                  IF Joins(p, c) THEN Tell(c, "joined")
                  ELSE IF Leaves(p, c) THEN Tell(c, "left") ELSE told[c]]
            /\ segment' = Evaluated(Cardinality({c \in Contacts : members'[c] # "none"}))
       ELSE UNCHANGED <<segment, members, told>>
    /\ Goto(p, "ack")
    /\ UNCHANGED <<kept, contacts, queue, faults>>

\* The batch fails: a refresh that is still running is marked, the message comes back.
ReplaceFails(p) ==
    /\ proc[p].pc = "replace" /\ faults < MaxFaults
    /\ faults' = faults + 1
    /\ Goto(p, "failed")
    /\ UNCHANGED <<segment, membership, contacts, queue>>

MarkFailed(p) ==
    /\ proc[p].pc = "failed"
    /\ segment' = IF Current(p) /\ segment.status = "running"
                  THEN [segment EXCEPT !.status = "failed"] ELSE segment
    /\ queue' = queue \cup {proc[p].message}
    /\ Return(p)
    /\ UNCHANGED <<membership, contacts, faults>>

\* reconcileContactSegmentMemberships: the definitions, the matches, the deltas.
ListDefinitions(p) ==
    /\ proc[p].pc = "list"
    /\ proc' = [proc EXCEPT ![p].read = Definition,
                            ![p].pc = IF segment.kind = "dynamic" THEN "match" ELSE "ack"]
    /\ UNCHANGED <<segment, membership, contacts, queue, faults>>

MatchContact(p) ==
    LET c == proc[p].message.contact
    IN /\ proc[p].pc = "match"
       /\ proc' = [proc EXCEPT ![p].matched = Matched(c, proc[p].read.filter),
                               ![p].pc = "apply"]
       /\ UNCHANGED <<segment, membership, contacts, queue, faults>>

\* setDynamicMemberships: count and event only with a change.
Added(p) == Current(p) /\ members[proc[p].message.contact] = "none"
RemovedAny(p) ==             \* fault: the event of a member that is none
    Current(p)
Removed(p) == Current(p) /\ members[proc[p].message.contact] = "dynamic"

SetMembership(p) ==
    LET c == proc[p].message.contact
    IN /\ proc[p].pc = "apply"
       /\ \/ /\ proc[p].matched /\ Added(p)
             /\ members' = [members EXCEPT ![c] = "dynamic"]
             /\ told' = [told EXCEPT ![c] = Tell(c, "joined")]
             /\ segment' = Evaluated(segment.count + 1)
          \/ /\ ~proc[p].matched /\ Removed(p)
             /\ members' = [members EXCEPT ![c] = "none"]
             /\ told' = [told EXCEPT ![c] = Tell(c, "left")]
             /\ segment' = Evaluated(IF segment.count > 0 THEN segment.count - 1 ELSE 0)
          \/ /\ IF proc[p].matched THEN ~Added(p) ELSE ~Removed(p)
             /\ UNCHANGED <<segment, members, told>>
       /\ Goto(p, "ack")
       /\ UNCHANGED <<kept, contacts, queue, faults>>

Ack(p) ==
    /\ proc[p].pc = "ack"
    /\ Return(p)
    /\ UNCHANGED <<segment, membership, contacts, queue, faults>>

-----------------------------------------------------------------------------
(* Time, cron and faults.                                                  *)

\* Two minutes go by.
Age ==
    /\ segment.fresh
    /\ segment' = [segment EXCEPT !.fresh = FALSE]
    /\ proc' = [p \in Procs |-> IF proc[p].read = None THEN proc[p]
                                ELSE [proc[p] EXCEPT !.read.fresh = FALSE]]
    /\ UNCHANGED <<membership, contacts, queue, faults>>

\* enqueueSegmentCorrections
CorrectReady ==              \* fault: a refresh that is under way is left to its message
    /\ segment.kind = "dynamic" /\ segment.status = "ready" /\ ~segment.fresh
    /\ queue' = queue \cup {[kind |-> "full", version |-> segment.version]}
    /\ UNCHANGED <<segment, membership, contacts, proc, faults>>
Correct ==
    /\ segment.kind = "dynamic" /\ ~segment.fresh
    /\ queue' = queue \cup {[kind |-> "full", version |-> segment.version]}
    /\ UNCHANGED <<segment, membership, contacts, proc, faults>>

\* A request is lost, a message comes back.
Crash(p) ==
    /\ proc[p].pc # "idle" /\ faults < MaxFaults
    /\ faults' = faults + 1
    /\ queue' = IF proc[p].pc \in {"definition", "mark", "replace", "failed", "recount", "list",
                                   "match", "apply", "ack"}
                THEN queue \cup {proc[p].message} ELSE queue
    /\ Return(p)
    /\ UNCHANGED <<segment, membership, contacts>>

\* A message that was delivered too often goes to the dead letters.
LoseMessage(m) ==
    /\ m \in queue /\ faults < MaxFaults
    /\ faults' = faults + 1
    /\ queue' = queue \ {m}
    /\ UNCHANGED <<segment, membership, contacts, proc>>

Request(p) ==
    \/ \E c \in Contacts : \/ \E to \in Profiles : ChangeContact(p, c, to)
                           \/ AddMember(p, c) \/ RemoveMember(p, c)
                           \/ AutomationAdds(p, c) \/ AutomationRemoves(p, c)
    \/ \E kind \in {"dynamic", "static"}, filter \in Filters \cup {None} : Edit(p, kind, filter)
    \/ AskRefresh(p)

Invocation(p) ==
    \/ Update(p) \/ Clear(p) \/ Count(p) \/ RecordJoined(p) \/ SetPending(p) \/ Enqueue(p)
    \/ \E m \in queue : Take(p, m)
    \/ ReadDefinition(p) \/ Recount(p) \/ MarkRunning(p) \/ Replace(p) \/ MarkFailed(p)
    \/ ListDefinitions(p) \/ MatchContact(p) \/ SetMembership(p) \/ Ack(p)

Next ==
    \/ \E p \in Procs : Request(p) \/ Invocation(p) \/ ReplaceFails(p) \/ Crash(p)
    \/ Age \/ Correct
    \/ \E m \in queue : LoseMessage(m)

\* The runtime carries on with what it began, delivers the messages and runs cron.
Fairness ==
    /\ \A p \in Procs : WF_vars(Invocation(p))
    /\ WF_vars(Age) /\ WF_vars(Correct)

Spec == Init /\ [][Next]_vars /\ Fairness
-----------------------------------------------------------------------------
(* Properties.                                                             *)

TypeOK ==
    /\ segment \in Segment /\ (segment.kind = "static" <=> segment.filter = None)
    /\ members \in [Contacts -> {"none", "dynamic", "static", "automation"}]
    /\ profile \in [Contacts -> Profiles]
    /\ told \in [Contacts -> {"nothing", "joined", "left", "twice"}]
    /\ kept \in BOOLEAN
    /\ queue \subseteq Message
    /\ proc \in [Procs -> ProcState]
    /\ changes \in 0 .. MaxChanges /\ faults \in 0 .. MaxFaults

\* The events of a dynamic segment and its count tell who its members are: however deltas and
\* refreshes overlap and are repeated, each join and each leave is told and counted once.
MembershipIsTold ==
    kept /\ segment.kind = "dynamic" =>
        /\ \A c \in Contacts : /\ told[c] # "twice"
                               /\ told[c] = "joined" <=> members[c] = "dynamic"
        /\ segment.count = Size

\* When nothing changes any more, whatever was lost, overtaken or repeated before: a dynamic
\* segment has every contact its filter matches, and of the others none that the filter put
\* there; one that always was dynamic has exactly those the filter matches.  Who was put
\* into it by hand or by an automation, and was left there when its kind was changed, stays.
\* The count is that of the members, and it is not left waiting for a refresh or failed.
Right ==
    segment.kind = "dynamic" =>
        /\ \A c \in Contacts :
              /\ Matched(c, segment.filter) => members[c] # "none"
              /\ members[c] = "dynamic" \/ (kept /\ members[c] # "none")
                    => Matched(c, segment.filter)
        /\ segment.count = Size
Converges == <>[]Right /\ []<>(segment.status = "ready")
=============================================================================
