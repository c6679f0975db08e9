---------------------------- MODULE SegmentsProofs ----------------------------
(***************************************************************************)
(* What Segments tells about its members is true for every set of          *)
(* contacts, profiles, filters and invocations and every number of         *)
(* requests and faults.                                                    *)
(***************************************************************************)
EXTENDS Segments, FiniteSetTheorems, TLAPS

Definitions == [kind : {"dynamic", "static"}, filter : Filters \cup {None},
                version : Versions, fresh : BOOLEAN]
Wishes == {w \in [kind : {"dynamic", "static"}, filter : Filters \cup {None}] :
               w.kind = "static" <=> w.filter = None}
OfContact == [kind : {"contact"}, contact : Contacts]

\* What an invocation holds where it uses it.
Equipped(q) ==
    /\ q.pc \in {"update", "pending", "mark", "replace", "failed", "recount", "match", "apply"}
           => q.read \in Definitions
    /\ q.pc = "update" => q.wish \in Wishes
    /\ q.pc \in {"clear", "enqueue", "pending", "definition", "mark", "replace", "failed",
                 "recount", "list", "match", "apply", "ack"} => q.message \in Message
    /\ q.pc = "count" /\ q.wish # None => q.message \in Message
    /\ q.pc \in {"list", "match", "apply"} => q.message \in OfContact
    /\ q.pc = "joined" => q.contact \in Contacts

\* While the kind is that of the creation (k), an edit under way has read the kind there
\* is, nobody empties the segment, and who tells that a member was added works on a
\* static segment.  n requests were begun, and every version is made by one of them.
Follows(q, s, k, n) ==
    /\ q.pc = "update" => q.read.version <= n /\ (k => q.read.kind = s.kind)
    /\ q.pc = "clear" => ~k
    /\ q.pc = "joined" \/ (q.pc = "count" /\ q.contact # None) => (k => s.kind = "static")

Rows ==
    /\ segment \in Segment /\ (segment.kind = "static" <=> segment.filter = None)
    /\ segment.version <= changes + 1
    /\ members \in [Contacts -> {"none", "dynamic", "static", "automation"}]
    /\ profile \in [Contacts -> Profiles]
    /\ told \in [Contacts -> {"nothing", "joined", "left", "twice"}]
    /\ kept \in BOOLEAN
    /\ queue \subseteq Message
    /\ changes \in 0 .. MaxChanges /\ faults \in 0 .. MaxFaults

Invocations ==
    /\ proc \in [Procs -> ProcState]
    /\ \A p \in Procs : Equipped(proc[p]) /\ Follows(proc[p], segment, kept, changes)

\* A dynamic segment that always was one has no member a user or an automation added.
Told ==
    kept /\ segment.kind = "dynamic" =>
        /\ \A c \in Contacts : /\ told[c] # "twice" /\ members[c] \in {"none", "dynamic"}
                               /\ told[c] = "joined" <=> members[c] = "dynamic"
        /\ segment.count = Size

SegmentInv == Rows /\ Invocations /\ Told

USE SegmentsAssumption

-----------------------------------------------------------------------------
(* What the steps have in common                                           *)

\* The kind stays while it is said to be kept, and requests only become more.
Calm ==
    /\ kept' => kept /\ segment'.kind = segment.kind
    /\ changes <= changes'

LEMMA OneMoves ==
    ASSUME SegmentInv, Rows', Calm, NEW p \in Procs, NEW q,
           proc' = [proc EXCEPT ![p] = q],
           q \in ProcState, Equipped(q), Follows(q, segment', kept', changes')
    PROVE  Invocations'
<1>1. proc \in [Procs -> ProcState] BY DEF SegmentInv, Invocations
<1>2. proc' \in [Procs -> ProcState] BY <1>1
<1>3. ASSUME NEW o \in Procs
      PROVE  Equipped(proc'[o]) /\ Follows(proc'[o], segment', kept', changes')
  <2>1. CASE o = p
    <3>1. proc'[o] = q BY <2>1, <1>1
    <3> QED BY <3>1
  <2>2. CASE o # p
    <3>1. proc'[o] = proc[o] BY <2>2, <1>1
    <3>2. Equipped(proc[o]) /\ Follows(proc[o], segment, kept, changes)
      BY DEF SegmentInv, Invocations
    <3>3. proc[o].pc = "update" => proc[o].read \in Definitions BY <3>2 DEF Equipped
    <3>4. proc[o].pc = "update" => proc[o].read.version \in Int
      BY <3>3 DEF Definitions, Versions
    <3>5. changes \in Int /\ changes' \in Int BY DEF SegmentInv, Rows
    <3>6. Follows(proc[o], segment', kept', changes')
      BY <3>2, <3>4, <3>5 DEF Follows, Calm
    <3> QED BY <3>1, <3>2, <3>6
  <2> QED BY <2>1, <2>2
<1> QED BY <1>2, <1>3 DEF Invocations

\* Neither members nor what was told nor the kind is changed, and the count is either
\* left alone or made anew.
LEMMA StillTold ==
    ASSUME SegmentInv, members' = members, told' = told, Calm,
           segment'.count \in {segment.count, Size}
    PROVE  Told'
<1>1. Size' = Size BY DEF Size
<1>2. ASSUME kept', segment'.kind = "dynamic"
      PROVE  /\ \A c \in Contacts : /\ told'[c] # "twice" /\ members'[c] \in {"none", "dynamic"}
                                    /\ told'[c] = "joined" <=> members'[c] = "dynamic"
             /\ segment'.count = Size'
  <2>1. kept /\ segment.kind = "dynamic" BY <1>2 DEF Calm
  <2> QED BY <2>1, <1>1 DEF SegmentInv, Told
<1> QED BY <1>2 DEF Told

LEMMA SizeIsNat == ASSUME Rows PROVE Size \in Nat
<1>1. IsFiniteSet({c \in Contacts : members[c] # "none"}) BY FS_Subset
<1> QED BY <1>1, FS_CardinalityType DEF Size

\* The members are one more or one less.
LEMMA SizeChanges ==
    ASSUME Rows, NEW c \in Contacts, NEW m, members' = [members EXCEPT ![c] = m]
    PROVE  /\ members[c] = "none" /\ m # "none" => Size' = Size + 1
           /\ members[c] # "none" /\ m = "none" => Size' = Size - 1
<1> DEFINE S == {d \in Contacts : members[d] # "none"}
           T == {d \in Contacts : members'[d] # "none"}
<1>1. IsFiniteSet(S) BY FS_Subset
<1>2. members \in [Contacts -> {"none", "dynamic", "static", "automation"}] BY DEF Rows
<1>3. ASSUME members[c] = "none", m # "none" PROVE Cardinality(T) = Cardinality(S) + 1
  <2>1. T = S \cup {c} /\ c \notin S BY <1>2, <1>3
  <2> QED BY <2>1, <1>1, FS_AddElement
<1>4. ASSUME members[c] # "none", m = "none" PROVE Cardinality(T) = Cardinality(S) - 1
  <2>1. T = S \ {c} /\ c \in S BY <1>2, <1>4
  <2>2. Cardinality(S \ {c}) = Cardinality(S) - 1
    <3> HIDE DEF S
    <3> QED BY <2>1, <1>1, FS_RemoveElement
  <2> QED BY <2>1, <2>2
<1>5. Size = Cardinality(S) /\ Size' = Cardinality(T) BY DEF Size
<1> QED BY <1>3, <1>4, <1>5

LEMMA Types ==
    ASSUME SegmentInv
    PROVE  /\ TypeOK
           /\ segment \in [kind : {"dynamic", "static"}, filter : Filters \cup {None},
                           version : Versions, count : Nat,
                           status : {"pending", "running", "ready", "failed"},
                           fresh : BOOLEAN]
           /\ changes \in Nat /\ faults \in Nat /\ segment.version \in Nat
           /\ Definition \in Definitions
<1>1. segment \in Segment BY DEF SegmentInv, Rows
<1>2. segment.version \in Nat BY <1>1 DEF Segment, Versions
<1>3. Definition \in Definitions BY <1>1 DEF Segment, Definition, Definitions
<1>4. TypeOK BY DEF SegmentInv, Rows, Invocations, TypeOK
<1> QED BY <1>1, <1>2, <1>3, <1>4 DEF SegmentInv, Rows, Segment

\* A request is begun.
LEMMA Begun ==
    ASSUME SegmentInv, NEW p \in Procs, Begin(p)
    PROVE  /\ changes' = changes + 1 /\ changes' \in 0 .. MaxChanges
           /\ segment.version <= changes' /\ segment.version <= changes' + 1
<1>1. changes \in Nat /\ segment.version \in Nat BY Types
<1>2. segment.version <= changes + 1 BY DEF SegmentInv, Rows
<1> QED BY <1>1, <1>2 DEF Begin

LEMMA Initially == Init => SegmentInv
<1> SUFFICES ASSUME Init PROVE SegmentInv
  OBVIOUS
<1>8. segment \in Segment /\ (segment.kind = "static" <=> segment.filter = None)
        /\ segment.version <= changes + 1
  <2> DEFINE D == [kind |-> "dynamic", filter |-> FirstFilter, status |-> "pending",
                   version |-> 1, count |-> 0, fresh |-> FALSE]
             S == [kind |-> "static", filter |-> None, status |-> "ready",
                   version |-> 1, count |-> 0, fresh |-> FALSE]
  <2>1. segment \in {D, S} BY DEF Init
  <2>2. 1 \in Versions /\ 0 \in Nat BY DEF Versions
  <2>3. D \in Segment /\ S \in Segment BY <2>2 DEF Segment
  <2>4. FirstFilter # None OBVIOUS
  <2>5. segment.version = 1 /\ changes = 0 BY <2>1 DEF Init
  <2>6. D.kind = "dynamic" /\ D.filter = FirstFilter /\ S.kind = "static" /\ S.filter = None
    OBVIOUS
  <2> HIDE DEF D, S
  <2>7. segment \in Segment /\ (segment.kind = "static" <=> segment.filter = None)
    BY <2>1, <2>3, <2>4, <2>6
  <2> QED BY <2>5, <2>7
<1>9. profile \in [Contacts -> Profiles] BY DEF Init
<1>1. Rows BY <1>8, <1>9 DEF Init, Rows
<1>2. Idle \in ProcState BY DEF Idle, ProcState, PC
<1>3. Equipped(Idle) /\ \A s, k, n : Follows(Idle, s, k, n) BY DEF Idle, Equipped, Follows
<1>4. Invocations BY <1>2, <1>3 DEF Init, Invocations
<1>5. {c \in Contacts : members[c] # "none"} = {} BY DEF Init
<1>6. Size = 0 BY <1>5, FS_EmptySet DEF Size
<1>7. Told BY <1>6 DEF Init, Told
<1> QED BY <1>1, <1>4, <1>7 DEF SegmentInv
-----------------------------------------------------------------------------
(* Requests                                                                *)

LEMMA ChangeContactInv ==
    ASSUME SegmentInv, NEW p \in Procs, NEW c \in Contacts, NEW to \in Profiles,
           ChangeContact(p, c, to)
    PROVE  SegmentInv'
<1> DEFINE m == [kind |-> "contact", contact |-> c]
           q == ForContact(c)
<1>1. /\ changes' = changes + 1 /\ changes' \in 0 .. MaxChanges
      /\ segment.version <= changes' /\ segment.version <= changes' + 1
  BY Begun DEF ChangeContact
<1>2. Rows' BY <1>1 DEF ChangeContact, membership, SegmentInv, Rows
<1>3. Calm BY <1>1, Types DEF ChangeContact, membership, Calm
<1>4. m \in Message BY DEF Message
<1>5. q \in ProcState /\ q.pc = "enqueue" /\ q.message = m
  BY <1>4 DEF ForContact, Idle, ProcState, PC
<1>6. proc' = [proc EXCEPT ![p] = q] BY DEF ChangeContact
<1> HIDE DEF q, m
<1>7. Equipped(q) /\ Follows(q, segment', kept', changes')
  BY <1>4, <1>5 DEF Equipped, Follows
<1>8. Invocations' BY <1>2, <1>3, <1>5, <1>6, <1>7, OneMoves
<1>9. Told' BY <1>3, StillTold DEF ChangeContact, membership
<1> QED BY <1>2, <1>8, <1>9 DEF SegmentInv

LEMMA EditInv ==
    ASSUME SegmentInv, NEW p \in Procs, NEW kind \in {"dynamic", "static"},
           NEW filter \in Filters \cup {None}, Edit(p, kind, filter)
    PROVE  SegmentInv'
<1> DEFINE w == [kind |-> kind, filter |-> filter]
           q == [Idle EXCEPT !.pc = "update", !.read = Definition, !.wish = w]
<1>1. /\ changes' = changes + 1 /\ changes' \in 0 .. MaxChanges
      /\ segment.version <= changes' /\ segment.version <= changes' + 1
  BY Begun DEF Edit
<1>2. Rows' BY <1>1 DEF Edit, membership, SegmentInv, Rows
<1>3. Calm BY <1>1, Types DEF Edit, membership, Calm
<1>4. w \in Wishes BY DEF Edit, Wishes
<1>5. q \in ProcState /\ q.pc = "update" /\ q.read = Definition /\ q.wish = w
  BY <1>4, Types DEF Idle, ProcState, PC, Definitions, Wishes
<1>6. proc' = [proc EXCEPT ![p] = q] BY DEF Edit
<1> HIDE DEF q, w
<1>7. Equipped(q) BY <1>4, <1>5, Types DEF Equipped
<1>8. q.read.version = segment.version /\ q.read.kind = segment.kind
  BY <1>5 DEF Definition
<1>9. Follows(q, segment', kept', changes')
  BY <1>1, <1>5, <1>8, Types DEF Follows, SegmentInv, Rows, Edit
<1>10. Invocations' BY <1>2, <1>3, <1>5, <1>6, <1>7, <1>9, OneMoves
<1>11. Told' BY <1>3, StillTold DEF Edit, membership
<1> QED BY <1>2, <1>10, <1>11 DEF SegmentInv

LEMMA AddMemberInv ==
    ASSUME SegmentInv, NEW p \in Procs, NEW c \in Contacts, AddMember(p, c)
    PROVE  SegmentInv'
<1> DEFINE q == [Idle EXCEPT !.pc = "count", !.contact = c]
<1>1. /\ changes' = changes + 1 /\ changes' \in 0 .. MaxChanges
      /\ segment.version <= changes' /\ segment.version <= changes' + 1
  BY Begun DEF AddMember
<1>2. Rows' BY <1>1 DEF AddMember, SegmentInv, Rows
<1>3. Calm BY <1>1, Types DEF AddMember, Calm
<1>4. q \in ProcState /\ q.pc = "count" /\ q.wish = None
  BY DEF Idle, ProcState, PC
<1>5. proc' = [proc EXCEPT ![p] = q] BY DEF AddMember
<1> HIDE DEF q
<1>6. segment' = segment /\ segment.kind = "static" BY DEF AddMember
<1>7. Equipped(q) /\ Follows(q, segment', kept', changes')
  BY <1>4, <1>6 DEF Equipped, Follows
<1>8. Invocations' BY <1>2, <1>3, <1>4, <1>5, <1>7, OneMoves
<1>9. Told' BY <1>6 DEF Told
<1> QED BY <1>2, <1>8, <1>9 DEF SegmentInv

LEMMA RemoveMemberInv ==
    ASSUME SegmentInv, NEW p \in Procs, NEW c \in Contacts, RemoveMember(p, c)
    PROVE  SegmentInv'
<1> DEFINE q == [Idle EXCEPT !.pc = "count"]
<1>1. /\ changes' = changes + 1 /\ changes' \in 0 .. MaxChanges
      /\ segment.version <= changes' /\ segment.version <= changes' + 1
  BY Begun DEF RemoveMember
<1>2. Rows' BY <1>1 DEF RemoveMember, SegmentInv, Rows
<1>3. Calm BY <1>1, Types DEF RemoveMember, Calm
<1>4. q \in ProcState /\ q.pc = "count" /\ q.wish = None /\ q.contact = None
  BY DEF Idle, ProcState, PC
<1>5. proc' = [proc EXCEPT ![p] = q] BY DEF RemoveMember
<1> HIDE DEF q
<1>6. Equipped(q) /\ Follows(q, segment', kept', changes')
  BY <1>4 DEF Equipped, Follows
<1>7. Invocations' BY <1>2, <1>3, <1>4, <1>5, <1>6, OneMoves
<1>8. segment' = segment /\ kept' = kept /\ members[c] = "static" BY DEF RemoveMember
<1>9. ~(kept /\ segment.kind = "dynamic") BY <1>8 DEF SegmentInv, Told
<1>10. Told' BY <1>8, <1>9 DEF Told
<1> QED BY <1>2, <1>7, <1>10 DEF SegmentInv

LEMMA AutomationAddsInv ==
    ASSUME SegmentInv, NEW p \in Procs, NEW c \in Contacts, AutomationAdds(p, c)
    PROVE  SegmentInv'
<1> DEFINE m == [kind |-> "contact", contact |-> c]
           joins == profile[c] # Archived /\ members[c] = "none"
           q == IF joins THEN [ForContact(c) EXCEPT !.pc = "joined", !.contact = c]
                ELSE ForContact(c)
<1>1. /\ changes' = changes + 1 /\ changes' \in 0 .. MaxChanges
      /\ segment.version <= changes' /\ segment.version <= changes' + 1
  BY Begun DEF AutomationAdds
<1>2. Rows' BY <1>1 DEF AutomationAdds, SegmentInv, Rows
<1>3. Calm BY <1>1, Types DEF AutomationAdds, Calm
<1>4. m \in Message BY DEF Message
<1>5. q \in ProcState /\ q.pc \in {"joined", "enqueue"} /\ q.message = m
      /\ (q.pc = "joined" => q.contact = c)
  BY <1>4 DEF ForContact, Idle, ProcState, PC
<1>6. proc' = [proc EXCEPT ![p] = q] BY DEF AutomationAdds
<1> HIDE DEF q, m, joins
<1>7. segment' = segment /\ kept' = kept /\ told' = told
      /\ (segment.kind = "static" \/ ~kept)
  BY DEF AutomationAdds, OfAutomation
<1>8. Equipped(q) /\ Follows(q, segment', kept', changes')
  BY <1>4, <1>5, <1>7 DEF Equipped, Follows
<1>9. Invocations' BY <1>2, <1>3, <1>5, <1>6, <1>8, OneMoves
<1>10. ~(kept' /\ segment'.kind = "dynamic") BY <1>7
<1>11. Told' BY <1>10 DEF Told
<1> QED BY <1>2, <1>9, <1>11 DEF SegmentInv

LEMMA AutomationRemovesInv ==
    ASSUME SegmentInv, NEW p \in Procs, NEW c \in Contacts, AutomationRemoves(p, c)
    PROVE  SegmentInv'
<1> DEFINE m == [kind |-> "contact", contact |-> c]
           q == ForContact(c)
<1>1. /\ changes' = changes + 1 /\ changes' \in 0 .. MaxChanges
      /\ segment.version <= changes' /\ segment.version <= changes' + 1
  BY Begun DEF AutomationRemoves
<1>2. Rows' BY <1>1 DEF AutomationRemoves, SegmentInv, Rows
<1>3. Calm BY <1>1, Types DEF AutomationRemoves, Calm
<1>4. m \in Message BY DEF Message
<1>5. q \in ProcState /\ q.pc = "enqueue" /\ q.message = m
  BY <1>4 DEF ForContact, Idle, ProcState, PC
<1>6. proc' = [proc EXCEPT ![p] = q] BY DEF AutomationRemoves
<1> HIDE DEF q, m
<1>7. Equipped(q) /\ Follows(q, segment', kept', changes')
  BY <1>4, <1>5 DEF Equipped, Follows
<1>8. Invocations' BY <1>2, <1>3, <1>5, <1>6, <1>7, OneMoves
<1>9. ~(kept' /\ segment'.kind = "dynamic") BY DEF AutomationRemoves, OfAutomation
<1>10. Told' BY <1>9 DEF Told
<1> QED BY <1>2, <1>8, <1>10 DEF SegmentInv

LEMMA AskRefreshInv ==
    ASSUME SegmentInv, NEW p \in Procs, AskRefresh(p)
    PROVE  SegmentInv'
<1> DEFINE m == [kind |-> "full", version |-> segment.version]
           q == [Idle EXCEPT !.read = Definition, !.message = m,
                     !.pc = IF segment.kind = "dynamic" THEN "pending" ELSE "enqueue"]
<1>1. /\ changes' = changes + 1 /\ changes' \in 0 .. MaxChanges
      /\ segment.version <= changes' /\ segment.version <= changes' + 1
  BY Begun DEF AskRefresh
<1>2. Rows' BY <1>1 DEF AskRefresh, membership, SegmentInv, Rows
<1>3. Calm BY <1>1, Types DEF AskRefresh, membership, Calm
<1>4. m \in Message BY Types DEF Message
<1>5. q \in ProcState /\ q.pc \in {"pending", "enqueue"} /\ q.message = m
      /\ q.read = Definition
  BY <1>4, Types DEF Idle, ProcState, PC, Definitions
<1>6. proc' = [proc EXCEPT ![p] = q] BY DEF AskRefresh
<1> HIDE DEF q, m
<1>7. Equipped(q) /\ Follows(q, segment', kept', changes')
  BY <1>4, <1>5, Types DEF Equipped, Follows
<1>8. Invocations' BY <1>2, <1>3, <1>5, <1>6, <1>7, OneMoves
<1>9. Told' BY <1>3, StillTold DEF AskRefresh, membership
<1> QED BY <1>2, <1>8, <1>9 DEF SegmentInv
-----------------------------------------------------------------------------
(* Edits and refreshes that a request asks for                             *)

\* An invocation goes on, or is done, with what it held.
LEMMA Held ==
    ASSUME SegmentInv, NEW p \in Procs
    PROVE  /\ proc[p] \in ProcState /\ Equipped(proc[p])
           /\ Follows(proc[p], segment, kept, changes)
           /\ \A x \in PC : LET q == [proc[p] EXCEPT !.pc = x]
                            IN /\ q \in ProcState /\ q.pc = x
                               /\ q.message = proc[p].message /\ q.read = proc[p].read
                               /\ q.wish = proc[p].wish /\ q.contact = proc[p].contact
<1>1. proc[p] \in ProcState /\ Equipped(proc[p]) /\ Follows(proc[p], segment, kept, changes)
  BY DEF SegmentInv, Invocations
<1> QED BY <1>1 DEF ProcState

LEMMA Resting ==
    /\ Idle \in ProcState /\ Equipped(Idle)
    /\ \A s, k, n : Follows(Idle, s, k, n)
BY DEF Idle, ProcState, PC, Equipped, Follows

LEMMA Returns ==
    ASSUME SegmentInv, Rows', Calm, NEW p \in Procs, Return(p)
    PROVE  Invocations'
BY Resting, OneMoves DEF Return

LEMMA Goes ==
    ASSUME SegmentInv, Rows', Calm, NEW p \in Procs, NEW x \in PC, Goto(p, x),
           LET q == [proc[p] EXCEPT !.pc = x]
           IN Equipped(q) /\ Follows(q, segment', kept', changes')
    PROVE  Invocations'
<1> DEFINE q == [proc[p] EXCEPT !.pc = x]
<1>1. proc' = [proc EXCEPT ![p] = q] BY DEF Goto
<1>2. q \in ProcState BY Held
<1> HIDE DEF q
<1> QED BY <1>1, <1>2, OneMoves DEF q

LEMMA EnqueueInv ==
    ASSUME SegmentInv, NEW p \in Procs, Enqueue(p) PROVE SegmentInv'
<1>1. proc[p].message \in Message BY Held DEF Enqueue, Equipped
<1>2. Rows' BY <1>1 DEF Enqueue, membership, contacts, SegmentInv, Rows
<1>3. Calm BY Types DEF Enqueue, membership, contacts, Calm
<1>4. Invocations' BY <1>2, <1>3, Returns DEF Enqueue
<1>5. Told' BY <1>3, StillTold DEF Enqueue, membership
<1> QED BY <1>2, <1>4, <1>5 DEF SegmentInv

LEMMA UpdateInv ==
    ASSUME SegmentInv, NEW p \in Procs, Update(p) PROVE SegmentInv'
<1> DEFINE w == proc[p].wish
           r == proc[p].read
           m == [kind |-> "full", version |-> r.version + 1]
           q == AfterUpdate(p)
<1>1. proc[p].pc = "update" /\ w \in Wishes /\ r \in Definitions
      /\ r.version <= changes /\ (kept => r.kind = segment.kind)
      /\ proc[p] \in ProcState
  BY Held DEF Update, Equipped, Follows
<1>2. r.version \in Nat /\ r.version + 1 \in Versions /\ r.version + 1 <= changes + 1
      /\ r.kind \in {"dynamic", "static"} /\ r.fresh \in BOOLEAN
  <2>1. r.version \in Versions /\ r.kind \in {"dynamic", "static"} /\ r.fresh \in BOOLEAN
    BY <1>1 DEF Definitions
  <2>2. changes \in 0 .. MaxChanges BY DEF SegmentInv, Rows
  <2> QED BY <1>1, <2>1, <2>2 DEF Versions
<1>3. w.kind \in {"dynamic", "static"} /\ w.filter \in Filters \cup {None}
      /\ (w.kind = "static" <=> w.filter = None)
  BY <1>1 DEF Wishes
<1>4. m \in Message BY <1>2 DEF Message
<1>5. q \in ProcState /\ q.message = m /\ q.wish = w /\ q.contact = proc[p].contact
      /\ q.pc = IF w.kind # r.kind THEN "clear"
                ELSE IF w.kind = "dynamic" THEN "enqueue" ELSE "idle"
  <2> DEFINE pc == IF w.kind # r.kind THEN "clear"
                   ELSE IF w.kind = "dynamic" THEN "enqueue" ELSE "idle"
             u == [proc[p] EXCEPT !.message = m]
             v == [u EXCEPT !.pc = pc]
  <2>1. q = v BY DEF AfterUpdate, Updated
  <2>2. pc \in PC BY DEF PC
  <2> HIDE DEF pc, m, q
  <2>3. u \in ProcState /\ u.message = m /\ u.wish = w /\ u.contact = proc[p].contact
    BY <1>1, <1>4 DEF ProcState
  <2> HIDE DEF u
  <2>4. v \in ProcState /\ v.message = m /\ v.wish = w /\ v.contact = proc[p].contact
        /\ v.pc = pc
    BY <2>2, <2>3 DEF ProcState
  <2> QED BY <2>1, <2>4 DEF pc
<1>6. segment' = Redefined(w, r) /\ (kept' <=> kept /\ w.kind = r.kind) /\ kept' \in BOOLEAN
      /\ members' = members /\ told' = told /\ profile' = profile /\ changes' = changes
      /\ queue' = queue /\ faults' = faults
  BY DEF Update, contacts
<1>7. proc' = [proc EXCEPT ![p] = IF q.pc = "idle" THEN Idle ELSE q] BY DEF Update
<1>8. segment.count \in Nat BY Types
<1> HIDE DEF m, q
<1>9. /\ segment' \in Segment /\ segment'.kind = w.kind /\ segment'.filter = w.filter
      /\ segment'.version = r.version + 1 /\ segment'.count = segment.count
  BY <1>2, <1>3, <1>6, <1>8 DEF Redefined, Segment
<1>10. Rows' BY <1>2, <1>3, <1>6, <1>9 DEF SegmentInv, Rows
<1>11. Calm BY <1>1, <1>6, <1>9, Types DEF Calm
<1>12. Equipped(q) /\ Follows(q, segment', kept', changes')
  BY <1>1, <1>4, <1>5, <1>6 DEF Equipped, Follows
<1>13. Invocations'
  BY <1>5, <1>7, <1>10, <1>11, <1>12, Resting, OneMoves
<1>14. Told' BY <1>6, <1>9, <1>11, StillTold
<1> QED BY <1>10, <1>13, <1>14 DEF SegmentInv

LEMMA ClearInv ==
    ASSUME SegmentInv, NEW p \in Procs, Clear(p) PROVE SegmentInv'
<1>1. Rows' BY DEF Clear, contacts, SegmentInv, Rows
<1>2. Calm BY Types DEF Clear, contacts, Calm
<1>3. ~kept BY Held DEF Clear, Follows
<1> DEFINE q == [proc[p] EXCEPT !.pc = "count"]
<1>4. "count" \in PC BY DEF PC
<1>5. q.pc = "count" /\ q.message = proc[p].message BY <1>4, Held
<1>6. proc[p].message \in Message BY Held DEF Clear, Equipped
<1> HIDE DEF q
<1>7. Equipped(q) /\ Follows(q, segment', kept', changes')
  BY <1>3, <1>5, <1>6 DEF Equipped, Follows, Clear
<1>8. Invocations' BY <1>1, <1>2, <1>4, <1>7, Goes DEF Clear, q
<1>9. Told' BY <1>3 DEF Clear, Told
<1> QED BY <1>1, <1>8, <1>9 DEF SegmentInv

LEMMA CountInv ==
    ASSUME SegmentInv, NEW p \in Procs, Count(p) PROVE SegmentInv'
<1> DEFINE joined == [proc[p] EXCEPT !.pc = "joined"]
           refresh == [proc[p] EXCEPT !.pc = "enqueue"]
           q == IF proc[p].contact # None THEN joined
                ELSE IF proc[p].wish # None /\ proc[p].wish.kind = "dynamic" THEN refresh
                ELSE Idle
<1>1. Size \in Nat BY SizeIsNat DEF SegmentInv
<1>2. segment' = [segment EXCEPT !.count = Size] /\ segment'.count = Size
      /\ segment'.kind = segment.kind
  BY Types DEF Count
<1>3. Rows' BY <1>1, <1>2, Types DEF Count, membership, contacts, SegmentInv, Rows, Segment
<1>4. Calm BY <1>2, Types DEF Count, membership, contacts, Calm
<1>5. "joined" \in PC /\ "enqueue" \in PC BY DEF PC
<1>6. /\ joined \in ProcState /\ joined.pc = "joined" /\ joined.contact = proc[p].contact
      /\ refresh \in ProcState /\ refresh.pc = "enqueue"
      /\ refresh.message = proc[p].message
  BY <1>5, Held
<1>7. proc[p].contact \in Contacts \cup {None} BY Held DEF ProcState
<1>8. proc' = [proc EXCEPT ![p] = q] BY DEF Count
<1> HIDE DEF joined, refresh
<1>9. ASSUME proc[p].contact # None PROVE Invocations'
  <2>1. q = joined BY <1>9
  <2>2. Equipped(joined) BY <1>6, <1>7, <1>9 DEF Equipped
  <2>3. kept => segment.kind = "static" BY <1>9, Held DEF Count, Follows
  <2>4. Follows(joined, segment', kept', changes')
    BY <1>2, <1>4, <1>6, <2>3 DEF Follows, Calm
  <2> HIDE DEF q
  <2> QED BY <1>3, <1>4, <1>6, <1>8, <2>1, <2>2, <2>4, OneMoves
<1>10. ASSUME proc[p].contact = None, proc[p].wish # None, proc[p].wish.kind = "dynamic"
       PROVE  Invocations'
  <2>1. q = refresh BY <1>10
  <2>2. proc[p].message \in Message BY <1>10, Held DEF Count, Equipped
  <2>3. Equipped(refresh) /\ Follows(refresh, segment', kept', changes')
    BY <1>6, <2>2 DEF Equipped, Follows
  <2> HIDE DEF q
  <2> QED BY <1>3, <1>4, <1>6, <1>8, <2>1, <2>3, OneMoves
<1>11. ASSUME proc[p].contact = None,
              ~(proc[p].wish # None /\ proc[p].wish.kind = "dynamic")
       PROVE  Invocations'
  <2>1. q = Idle BY <1>11
  <2> HIDE DEF q
  <2> QED BY <1>3, <1>4, <1>8, <2>1, Resting, OneMoves
<1>12. Invocations' BY <1>9, <1>10, <1>11
<1>13. Told' BY <1>2, <1>4, StillTold DEF Count, membership
<1> QED BY <1>3, <1>12, <1>13 DEF SegmentInv

LEMMA RecordJoinedInv ==
    ASSUME SegmentInv, NEW p \in Procs, RecordJoined(p) PROVE SegmentInv'
<1>1. proc[p].contact \in Contacts BY Held DEF RecordJoined, Equipped
<1>2. Tell(proc[p].contact, "joined") \in {"joined", "twice"} BY DEF Tell
<1>3. Rows' BY <1>1, <1>2 DEF RecordJoined, contacts, SegmentInv, Rows
<1>4. Calm BY Types DEF RecordJoined, contacts, Calm
<1>5. Invocations'
  <2>1. CASE proc[p].message = None BY <1>3, <1>4, <2>1, Returns DEF RecordJoined
  <2>2. CASE proc[p].message # None
    <3> DEFINE q == [proc[p] EXCEPT !.pc = "enqueue"]
    <3>1. proc[p].message \in Message BY <2>2, Held DEF ProcState
    <3>2. "enqueue" \in PC BY DEF PC
    <3>3. q.pc = "enqueue" /\ q.message = proc[p].message BY <3>2, Held
    <3>4. Goto(p, "enqueue") BY <2>2 DEF RecordJoined
    <3> HIDE DEF q
    <3>5. Equipped(q) /\ Follows(q, segment', kept', changes')
      BY <3>1, <3>3 DEF Equipped, Follows
    <3> QED BY <1>3, <1>4, <3>2, <3>4, <3>5, Goes DEF q
  <2> QED BY <2>1, <2>2
<1>6. kept => segment.kind = "static" BY Held DEF RecordJoined, Follows
<1>7. Told' BY <1>6 DEF RecordJoined, Told
<1> QED BY <1>3, <1>5, <1>7 DEF SegmentInv
LEMMA SetPendingInv ==
    ASSUME SegmentInv, NEW p \in Procs, SetPending(p) PROVE SegmentInv'
<1>1. segment' \in Segment /\ segment'.kind = segment.kind /\ segment'.count = segment.count
      /\ segment'.version = segment.version /\ segment'.filter = segment.filter
  BY Types DEF SetPending, Segment
<1>2. Rows' BY <1>1 DEF SetPending, membership, contacts, SegmentInv, Rows
<1>3. Calm BY <1>1, Types DEF SetPending, membership, contacts, Calm
<1> DEFINE q == [proc[p] EXCEPT !.pc = "enqueue"]
<1>4. "enqueue" \in PC BY DEF PC
<1>5. q.pc = "enqueue" /\ q.message = proc[p].message BY <1>4, Held
<1>6. proc[p].message \in Message BY Held DEF SetPending, Equipped
<1> HIDE DEF q
<1>7. Equipped(q) /\ Follows(q, segment', kept', changes')
  BY <1>5, <1>6 DEF Equipped, Follows
<1>8. Invocations' BY <1>2, <1>3, <1>4, <1>7, Goes DEF SetPending, q
<1>9. Told' BY <1>1, <1>3, StillTold DEF SetPending, membership
<1> QED BY <1>2, <1>8, <1>9 DEF SegmentInv

-----------------------------------------------------------------------------
(* Messages                                                                *)

LEMMA TakeInv ==
    ASSUME SegmentInv, NEW p \in Procs, NEW m \in queue, Take(p, m) PROVE SegmentInv'
<1> DEFINE q == [Idle EXCEPT !.message = m,
                     !.pc = IF m.kind = "full" THEN "definition" ELSE "list"]
<1>1. m \in Message /\ (m.kind # "full" => m \in OfContact)
  <2>1. m \in Message BY DEF SegmentInv, Rows
  <2> QED BY <2>1 DEF Message, OfContact
<1>2. Rows' BY DEF Take, membership, contacts, SegmentInv, Rows
<1>3. Calm BY Types DEF Take, membership, contacts, Calm
<1>4. q \in ProcState /\ q.message = m
      /\ q.pc = IF m.kind = "full" THEN "definition" ELSE "list"
  BY <1>1 DEF Idle, ProcState, PC
<1>5. proc' = [proc EXCEPT ![p] = q] BY DEF Take
<1> HIDE DEF q
<1>6. Equipped(q) /\ Follows(q, segment', kept', changes')
  BY <1>1, <1>4 DEF Equipped, Follows
<1>7. Invocations' BY <1>2, <1>3, <1>4, <1>5, <1>6, OneMoves
<1>8. Told' BY <1>3, StillTold DEF Take, membership, contacts
<1> QED BY <1>2, <1>7, <1>8 DEF SegmentInv

\* An invocation that reads the definition.
LEMMA Reading ==
    ASSUME NEW s \in ProcState, Definition \in Definitions, NEW pc \in PC
    PROVE  LET q == [s EXCEPT !.read = Definition, !.pc = pc] IN
           q \in ProcState /\ q.message = s.message /\ q.read = Definition /\ q.pc = pc
<1> DEFINE read == Definition
           u == [s EXCEPT !.read = read]
           v == [u EXCEPT !.pc = pc]
<1>1. [s EXCEPT !.read = Definition, !.pc = pc] = v OBVIOUS
<1>2. read \in Definitions OBVIOUS
<1> HIDE DEF read
<1>3. u \in ProcState /\ u.message = s.message /\ u.read = read
  BY <1>2 DEF ProcState, Definitions
<1> HIDE DEF u
<1>4. v \in ProcState /\ v.message = s.message /\ v.read = read /\ v.pc = pc
  BY <1>3 DEF ProcState
<1> QED BY <1>1, <1>4 DEF read

LEMMA ReadDefinitionInv ==
    ASSUME SegmentInv, NEW p \in Procs, ReadDefinition(p) PROVE SegmentInv'
<1> DEFINE pc == IF segment.kind = "static" THEN "recount" ELSE "mark"
           q == [proc[p] EXCEPT !.read = Definition, !.pc = pc]
<1>1. Rows' BY DEF ReadDefinition, membership, contacts, SegmentInv, Rows
<1>2. Calm BY Types DEF ReadDefinition, membership, contacts, Calm
<1>3. proc[p] \in ProcState /\ proc[p].message \in Message
  BY Held DEF ReadDefinition, Equipped
<1>4. q \in ProcState /\ q.message = proc[p].message /\ q.read = Definition
      /\ q.pc \in {"recount", "mark"}
  <2>1. pc \in {"recount", "mark"} /\ pc \in PC BY DEF PC
  <2> HIDE DEF pc
  <2>2. proc[p] \in ProcState /\ Definition \in Definitions BY <1>3, Types
  <2> QED BY <2>1, <2>2, Reading
<1>5. Return(p) \/ proc' = [proc EXCEPT ![p] = q] BY DEF ReadDefinition
<1> HIDE DEF q
<1>6. Equipped(q) /\ Follows(q, segment', kept', changes')
  BY <1>3, <1>4, Types DEF Equipped, Follows
<1>7. Invocations' BY <1>1, <1>2, <1>4, <1>5, <1>6, OneMoves, Returns
<1>8. Told' BY <1>2, StillTold DEF ReadDefinition, membership, contacts
<1> QED BY <1>1, <1>7, <1>8 DEF SegmentInv

\* After the segment was dealt with the message is acknowledged.
LEMMA ToAck ==
    ASSUME SegmentInv, Rows', Calm, NEW p \in Procs, Goto(p, "ack"),
           proc[p].message \in Message
    PROVE  Invocations'
<1> DEFINE q == [proc[p] EXCEPT !.pc = "ack"]
<1>1. "ack" \in PC BY DEF PC
<1>2. q.pc = "ack" /\ q.message = proc[p].message BY <1>1, Held
<1> HIDE DEF q
<1>3. Equipped(q) /\ Follows(q, segment', kept', changes')
  BY <1>2 DEF Equipped, Follows
<1> QED BY <1>1, <1>3, Goes DEF q

LEMMA RecountInv ==
    ASSUME SegmentInv, NEW p \in Procs, Recount(p) PROVE SegmentInv'
<1>1. Size \in Nat BY SizeIsNat DEF SegmentInv
<1>2. segment' \in Segment /\ segment'.kind = segment.kind
      /\ segment'.count \in {segment.count, Size}
      /\ segment'.version = segment.version /\ segment'.filter = segment.filter
  BY <1>1, Types DEF Recount, Segment
<1>3. Rows' BY <1>2 DEF Recount, membership, contacts, SegmentInv, Rows
<1>4. Calm BY <1>2, Types DEF Recount, membership, contacts, Calm
<1>5. proc[p].message \in Message BY Held DEF Recount, Equipped
<1>6. Invocations' BY <1>3, <1>4, <1>5, ToAck DEF Recount
<1>7. Told' BY <1>2, <1>4, StillTold DEF Recount, membership
<1> QED BY <1>3, <1>6, <1>7 DEF SegmentInv

LEMMA MarkRunningInv ==
    ASSUME SegmentInv, NEW p \in Procs, MarkRunning(p) PROVE SegmentInv'
<1>1. segment' \in Segment /\ segment'.kind = segment.kind /\ segment'.count = segment.count
      /\ segment'.version = segment.version /\ segment'.filter = segment.filter
  BY Types DEF MarkRunning, Segment
<1>2. Rows' BY <1>1 DEF MarkRunning, membership, contacts, SegmentInv, Rows
<1>3. Calm BY <1>1, Types DEF MarkRunning, membership, contacts, Calm
<1> DEFINE q == [proc[p] EXCEPT !.pc = "replace"]
<1>4. "replace" \in PC BY DEF PC
<1>5. q.pc = "replace" /\ q.message = proc[p].message /\ q.read = proc[p].read
  BY <1>4, Held
<1>6. proc[p].message \in Message /\ proc[p].read \in Definitions
  BY Held DEF MarkRunning, Equipped
<1> HIDE DEF q
<1>7. Equipped(q) /\ Follows(q, segment', kept', changes')
  BY <1>5, <1>6 DEF Equipped, Follows
<1>8. Invocations' BY <1>2, <1>3, <1>4, <1>7, Goes DEF MarkRunning, q
<1>9. Told' BY <1>1, <1>3, StillTold DEF MarkRunning, membership
<1> QED BY <1>2, <1>8, <1>9 DEF SegmentInv

LEMMA ReplaceFailsInv ==
    ASSUME SegmentInv, NEW p \in Procs, ReplaceFails(p) PROVE SegmentInv'
<1>1. faults' \in 0 .. MaxFaults BY Types DEF ReplaceFails
<1>2. Rows' BY <1>1 DEF ReplaceFails, membership, contacts, SegmentInv, Rows
<1>3. Calm BY Types DEF ReplaceFails, membership, contacts, Calm
<1> DEFINE q == [proc[p] EXCEPT !.pc = "failed"]
<1>4. "failed" \in PC BY DEF PC
<1>5. q.pc = "failed" /\ q.message = proc[p].message /\ q.read = proc[p].read
  BY <1>4, Held
<1>6. proc[p].message \in Message /\ proc[p].read \in Definitions
  BY Held DEF ReplaceFails, Equipped
<1> HIDE DEF q
<1>7. Equipped(q) /\ Follows(q, segment', kept', changes')
  BY <1>5, <1>6 DEF Equipped, Follows
<1>8. Invocations' BY <1>2, <1>3, <1>4, <1>7, Goes DEF ReplaceFails, q
<1>9. Told' BY <1>3, StillTold DEF ReplaceFails, membership, contacts
<1> QED BY <1>2, <1>8, <1>9 DEF SegmentInv

LEMMA MarkFailedInv ==
    ASSUME SegmentInv, NEW p \in Procs, MarkFailed(p) PROVE SegmentInv'
<1>1. segment' \in Segment /\ segment'.kind = segment.kind /\ segment'.count = segment.count
      /\ segment'.version = segment.version /\ segment'.filter = segment.filter
  BY Types DEF MarkFailed, Segment
<1>2. proc[p].message \in Message BY Held DEF MarkFailed, Equipped
<1>3. Rows' BY <1>1, <1>2 DEF MarkFailed, membership, contacts, SegmentInv, Rows
<1>4. Calm BY <1>1, Types DEF MarkFailed, membership, contacts, Calm
<1>5. Invocations' BY <1>3, <1>4, Returns DEF MarkFailed
<1>6. Told' BY <1>1, <1>4, StillTold DEF MarkFailed, membership
<1> QED BY <1>3, <1>5, <1>6 DEF SegmentInv

LEMMA ListDefinitionsInv ==
    ASSUME SegmentInv, NEW p \in Procs, ListDefinitions(p) PROVE SegmentInv'
<1> DEFINE pc == IF segment.kind = "dynamic" THEN "match" ELSE "ack"
           q == [proc[p] EXCEPT !.read = Definition, !.pc = pc]
<1>1. Rows' BY DEF ListDefinitions, membership, contacts, SegmentInv, Rows
<1>2. Calm BY Types DEF ListDefinitions, membership, contacts, Calm
<1>3. proc[p] \in ProcState /\ proc[p].message \in Message /\ proc[p].message \in OfContact
  BY Held DEF ListDefinitions, Equipped
<1>4. q \in ProcState /\ q.message = proc[p].message /\ q.read = Definition
      /\ q.pc \in {"match", "ack"}
  <2>1. pc \in {"match", "ack"} /\ pc \in PC BY DEF PC
  <2> HIDE DEF pc
  <2>2. proc[p] \in ProcState /\ Definition \in Definitions BY <1>3, Types
  <2> QED BY <2>1, <2>2, Reading
<1>5. proc' = [proc EXCEPT ![p] = q] BY DEF ListDefinitions
<1> HIDE DEF q
<1>6. Equipped(q) /\ Follows(q, segment', kept', changes')
  BY <1>3, <1>4, Types DEF Equipped, Follows
<1>7. Invocations' BY <1>1, <1>2, <1>4, <1>5, <1>6, OneMoves
<1>8. Told' BY <1>2, StillTold DEF ListDefinitions, membership, contacts
<1> QED BY <1>1, <1>7, <1>8 DEF SegmentInv

LEMMA MatchContactInv ==
    ASSUME SegmentInv, NEW p \in Procs, MatchContact(p) PROVE SegmentInv'
<1> DEFINE b == Matched(proc[p].message.contact, proc[p].read.filter)
           q == [proc[p] EXCEPT !.matched = b, !.pc = "apply"]
<1>1. Rows' BY DEF MatchContact, membership, contacts, SegmentInv, Rows
<1>2. Calm BY Types DEF MatchContact, membership, contacts, Calm
<1>3. proc[p] \in ProcState /\ proc[p].message \in Message /\ proc[p].message \in OfContact
      /\ proc[p].read \in Definitions
  BY Held DEF MatchContact, Equipped
<1>4. b \in BOOLEAN BY DEF Matched
<1>5. proc' = [proc EXCEPT ![p] = q] BY DEF MatchContact
<1> HIDE DEF b
<1>6. q \in ProcState /\ q.message = proc[p].message /\ q.read = proc[p].read
      /\ q.pc = "apply"
  BY <1>3, <1>4 DEF ProcState, PC
<1> HIDE DEF q
<1>7. Equipped(q) /\ Follows(q, segment', kept', changes')
  BY <1>3, <1>6 DEF Equipped, Follows
<1>8. Invocations' BY <1>1, <1>2, <1>5, <1>6, <1>7, OneMoves
<1>9. Told' BY <1>2, StillTold DEF MatchContact, membership, contacts
<1> QED BY <1>1, <1>8, <1>9 DEF SegmentInv

LEMMA AckInv ==
    ASSUME SegmentInv, NEW p \in Procs, Ack(p) PROVE SegmentInv'
<1>1. Rows' BY DEF Ack, membership, contacts, SegmentInv, Rows
<1>2. Calm BY Types DEF Ack, membership, contacts, Calm
<1>3. Invocations' BY <1>1, <1>2, Returns DEF Ack
<1>4. Told' BY <1>2, StillTold DEF Ack, membership, contacts
<1> QED BY <1>1, <1>3, <1>4 DEF SegmentInv
-----------------------------------------------------------------------------
(* The two writes that move members                                        *)

LEMMA ReplaceInv ==
    ASSUME SegmentInv, NEW p \in Procs, Replace(p) PROVE SegmentInv'
<1>1. proc[p].message \in Message BY Held DEF Replace, Equipped
<1>2. CASE ~Current(p)
  <2>1. UNCHANGED <<segment, members, told, kept, profile, changes, queue, faults>>
    BY <1>2 DEF Replace, contacts
  <2>2. Rows' BY <2>1 DEF SegmentInv, Rows
  <2>3. Calm BY <2>1, Types DEF Calm
  <2>4. Invocations' BY <1>1, <2>2, <2>3, ToAck DEF Replace
  <2>5. Told' BY <2>1, <2>3, StillTold
  <2> QED BY <2>2, <2>4, <2>5 DEF SegmentInv
<1>3. CASE Current(p)
  <2> DEFINE F(c) == IF Joins(p, c) THEN "dynamic"
                     ELSE IF Leaves(p, c) THEN "none" ELSE members[c]
             G(c) == IF Joins(p, c) THEN Tell(c, "joined")
                     ELSE IF Leaves(p, c) THEN Tell(c, "left") ELSE told[c]
             S == {c \in Contacts : members'[c] # "none"}
  <2>1. /\ members' = [c \in Contacts |-> F(c)] /\ told' = [c \in Contacts |-> G(c)]
        /\ segment' = Evaluated(Cardinality(S))
        /\ UNCHANGED <<kept, profile, changes, queue, faults>>
    BY <1>3 DEF Replace, contacts
  <2>2. members \in [Contacts -> {"none", "dynamic", "static", "automation"}]
        /\ told \in [Contacts -> {"nothing", "joined", "left", "twice"}]
    BY DEF SegmentInv, Rows
  <2>3. \A c \in Contacts : F(c) \in {"none", "dynamic", "static", "automation"}
                            /\ G(c) \in {"nothing", "joined", "left", "twice"}
    BY <2>2 DEF Tell
  <2>4. IsFiniteSet(S) BY FS_Subset
  <2>5. Cardinality(S) \in Nat BY <2>4, FS_CardinalityType
  <2>6. Size' = Cardinality(S) BY DEF Size
  <2>7. /\ segment' \in Segment /\ segment'.kind = segment.kind
        /\ segment'.count = Cardinality(S)
        /\ segment'.version = segment.version /\ segment'.filter = segment.filter
    <3> DEFINE n == Cardinality(S)
    <3>1. n \in Nat /\ segment' = Evaluated(n) BY <2>1, <2>5
    <3> HIDE DEF n
    <3>2. /\ segment' \in Segment /\ segment'.kind = segment.kind /\ segment'.count = n
          /\ segment'.version = segment.version /\ segment'.filter = segment.filter
      BY <3>1, Types DEF Evaluated, Segment
    <3> QED BY <3>2 DEF n
  <2>8. Rows' BY <2>1, <2>3, <2>7 DEF SegmentInv, Rows
  <2>9. Calm BY <2>1, <2>7, Types DEF Calm
  <2>10. Invocations' BY <1>1, <2>8, <2>9, ToAck DEF Replace
  <2>11. ASSUME kept, segment.kind = "dynamic", NEW c \in Contacts
         PROVE  G(c) # "twice" /\ F(c) \in {"none", "dynamic"} /\ (G(c) = "joined" <=> F(c) = "dynamic")
    <3>1. told[c] # "twice" /\ members[c] \in {"none", "dynamic"}
          /\ (told[c] = "joined" <=> members[c] = "dynamic")
          /\ told[c] \in {"nothing", "joined", "left", "twice"}
          /\ members[c] \in {"none", "dynamic", "static", "automation"}
      BY <2>2, <2>11 DEF SegmentInv, Told
    <3>2. CASE Joins(p, c) BY <3>1, <3>2 DEF Joins, Tell
    <3>3. CASE ~Joins(p, c) /\ Leaves(p, c) BY <3>1, <3>3 DEF Leaves, Tell
    <3>4. CASE ~Joins(p, c) /\ ~Leaves(p, c) BY <3>1, <3>4
    <3> QED BY <3>2, <3>3, <3>4
  <2> HIDE DEF F, G
  <2>12. Told' BY <2>1, <2>6, <2>7, <2>11 DEF Told
  <2> QED BY <2>8, <2>10, <2>12 DEF SegmentInv
<1> QED BY <1>2, <1>3

LEMMA SetMembershipInv ==
    ASSUME SegmentInv, NEW p \in Procs, SetMembership(p) PROVE SegmentInv'
<1> DEFINE c == proc[p].message.contact
<1>1. proc[p].message \in Message /\ c \in Contacts
  <2>1. proc[p].message \in Message /\ proc[p].message \in OfContact
    BY Held DEF SetMembership, Equipped
  <2> QED BY <2>1 DEF OfContact
<1>2. members \in [Contacts -> {"none", "dynamic", "static", "automation"}]
      /\ told \in [Contacts -> {"nothing", "joined", "left", "twice"}]
  BY DEF SegmentInv, Rows
<1>3. UNCHANGED <<kept, profile, changes, queue, faults>> /\ Goto(p, "ack")
  BY DEF SetMembership, contacts
<1>4. ASSUME NEW m \in {"none", "dynamic"}, NEW e \in {"joined", "left"}, NEW n \in Nat,
             members' = [members EXCEPT ![c] = m],
             told' = [told EXCEPT ![c] = Tell(c, e)], segment' = Evaluated(n),
             m = "dynamic" <=> e = "joined", m # members[c], members[c] \in {"none", "dynamic"},
             kept /\ segment.kind = "dynamic" => n = Size'
      PROVE  SegmentInv'
  <2>1. Tell(c, e) \in {"joined", "left", "twice"} BY DEF Tell
  <2>2. /\ segment' \in Segment /\ segment'.kind = segment.kind /\ segment'.count = n
        /\ segment'.version = segment.version /\ segment'.filter = segment.filter
    BY <1>4, Types DEF Evaluated, Segment
  <2>3. Rows' BY <1>1, <1>2, <1>3, <1>4, <2>1, <2>2 DEF SegmentInv, Rows
  <2>4. Calm BY <1>3, <2>2, Types DEF Calm
  <2>5. Invocations' BY <1>1, <1>3, <2>3, <2>4, ToAck
  <2>6. ASSUME kept', segment'.kind = "dynamic"
        PROVE  /\ \A d \in Contacts : /\ told'[d] # "twice" /\ members'[d] \in {"none", "dynamic"}
                                      /\ told'[d] = "joined" <=> members'[d] = "dynamic"
               /\ segment'.count = Size'
    <3>1. kept /\ segment.kind = "dynamic" BY <1>3, <2>2, <2>6
    <3>2. \A d \in Contacts : /\ told[d] # "twice" /\ members[d] \in {"none", "dynamic"}
                              /\ told[d] = "joined" <=> members[d] = "dynamic"
      BY <3>1 DEF SegmentInv, Told
    <3>3. Tell(c, e) = e BY <1>1, <1>2, <1>4, <3>2 DEF Tell
    <3>4. ASSUME NEW d \in Contacts
          PROVE  /\ told'[d] # "twice" /\ members'[d] \in {"none", "dynamic"}
                 /\ told'[d] = "joined" <=> members'[d] = "dynamic"
      <4>1. CASE d = c
        <5>1. told'[d] = e /\ members'[d] = m BY <1>1, <1>2, <1>4, <3>3, <4>1
        <5> QED BY <5>1, <1>4
      <4>2. CASE d # c
        <5>1. told'[d] = told[d] /\ members'[d] = members[d] BY <1>2, <1>4, <4>2
        <5> QED BY <5>1, <3>2
      <4> QED BY <4>1, <4>2
    <3> QED BY <1>4, <2>2, <3>1, <3>4
  <2>7. Told' BY <2>6 DEF Told
  <2> QED BY <2>3, <2>5, <2>7 DEF SegmentInv
<1>5. Size \in Nat /\ segment.count \in Nat BY SizeIsNat, Types DEF SegmentInv
<1>6. kept /\ segment.kind = "dynamic" => segment.count = Size BY DEF SegmentInv, Told
<1>7. CASE proc[p].matched /\ Added(p) /\ members' = [members EXCEPT ![c] = "dynamic"]
           /\ told' = [told EXCEPT ![c] = Tell(c, "joined")]
           /\ segment' = Evaluated(segment.count + 1)
  <2>1. members[c] = "none" BY <1>7 DEF Added
  <2>2. Size' = Size + 1
    <3>1. Rows /\ c \in Contacts /\ members' = [members EXCEPT ![c] = "dynamic"]
      BY <1>1, <1>7 DEF SegmentInv
    <3> HIDE DEF c
    <3>2. PICK m \in {"dynamic"} : TRUE OBVIOUS
    <3>3. m = "dynamic" /\ m # "none" /\ members' = [members EXCEPT ![c] = m]
      BY <3>1, <3>2
    <3> QED BY <2>1, <3>1, <3>3, SizeChanges
  <2> QED BY <1>4, <1>5, <1>6, <1>7, <2>1, <2>2
<1>8. CASE ~proc[p].matched /\ Removed(p) /\ members' = [members EXCEPT ![c] = "none"]
           /\ told' = [told EXCEPT ![c] = Tell(c, "left")]
           /\ segment' = Evaluated(IF segment.count > 0 THEN segment.count - 1 ELSE 0)
  <2> DEFINE n == IF segment.count > 0 THEN segment.count - 1 ELSE 0
  <2>1. members[c] = "dynamic" BY <1>8 DEF Removed
  <2>2. Size' = Size - 1 BY <1>1, <1>8, <2>1, SizeChanges DEF SegmentInv
  <2>4. n \in Nat BY <1>5
  <2>5. kept /\ segment.kind = "dynamic" /\ Size' \in Nat => n = Size'
    BY <1>5, <1>6, <2>2
  <2>6. Size' \in Nat
    <3>1. {d \in Contacts : members'[d] # "none"} \subseteq Contacts OBVIOUS
    <3>2. IsFiniteSet({d \in Contacts : members'[d] # "none"}) BY <3>1, FS_Subset
    <3> QED BY <3>2, FS_CardinalityType DEF Size
  <2> HIDE DEF n
  <2>7. segment' = Evaluated(n) BY <1>8 DEF n
  <2> QED BY <1>4, <1>8, <2>1, <2>4, <2>5, <2>6, <2>7
<1>9. CASE UNCHANGED <<segment, members, told>>
  <2>1. Rows' BY <1>3, <1>9 DEF SegmentInv, Rows
  <2>2. Calm BY <1>3, <1>9, Types DEF Calm
  <2>3. Invocations' BY <1>1, <1>3, <2>1, <2>2, ToAck
  <2>4. Told' BY <1>9, <2>2, StillTold
  <2> QED BY <2>1, <2>3, <2>4 DEF SegmentInv
<1> QED BY <1>7, <1>8, <1>9 DEF SetMembership

-----------------------------------------------------------------------------
(* Time, cron and faults                                                   *)

LEMMA AgeInv == ASSUME SegmentInv, Age PROVE SegmentInv'
<1> DEFINE aged(q) == IF q.read = None THEN q ELSE [q EXCEPT !.read.fresh = FALSE]
<1>1. segment' \in Segment /\ segment'.kind = segment.kind /\ segment'.count = segment.count
      /\ segment'.version = segment.version /\ segment'.filter = segment.filter
  BY Types DEF Age, Segment
<1>2. Rows' BY <1>1 DEF Age, membership, contacts, SegmentInv, Rows
<1>3. Calm BY <1>1, Types DEF Age, membership, contacts, Calm
<1>4. ASSUME NEW p \in Procs
      PROVE  /\ proc'[p] \in ProcState /\ Equipped(proc'[p])
             /\ Follows(proc'[p], segment', kept', changes')
  <2> DEFINE q == proc[p]
             r == [q.read EXCEPT !.fresh = FALSE]
             new == [q EXCEPT !.read = r]
  <2>1. proc'[p] = IF q.read = None THEN q ELSE new BY DEF Age
  <2>2. q \in ProcState /\ Equipped(q) /\ Follows(q, segment, kept, changes) BY Held
  <2>3. Follows(q, segment', kept', changes')
    BY <1>1, <2>2 DEF Follows, Age, membership, contacts
  <2>4. ASSUME q.read # None
        PROVE  new \in ProcState /\ Equipped(new) /\ Follows(new, segment', kept', changes')
    <3>1. q.read \in Definitions BY <2>2, <2>4 DEF ProcState, Definitions
    <3>2. r \in Definitions /\ r.version = q.read.version /\ r.kind = q.read.kind
      BY <3>1 DEF Definitions
    <3> HIDE DEF r
    <3>3. new \in ProcState /\ new.pc = q.pc /\ new.read = r /\ new.message = q.message
          /\ new.wish = q.wish /\ new.contact = q.contact
      BY <2>2, <3>2 DEF ProcState, Definitions
    <3> HIDE DEF new
    <3>4. Equipped(new) BY <2>2, <3>2, <3>3 DEF Equipped
    <3>5. Follows(new, segment', kept', changes') BY <2>3, <3>2, <3>3 DEF Follows
    <3> QED BY <3>3, <3>4, <3>5
  <2> HIDE DEF new
  <2> QED BY <2>1, <2>2, <2>3, <2>4
<1>5. proc' = [p \in Procs |-> proc'[p]] BY DEF Age
<1>6. Invocations' BY <1>4, <1>5 DEF Invocations
<1>7. Told' BY <1>1, <1>3, StillTold DEF Age, membership
<1> QED BY <1>2, <1>6, <1>7 DEF SegmentInv

\* What changes the queue and the number of faults at most.
LEMMA Beside ==
    ASSUME SegmentInv, UNCHANGED <<segment, membership, contacts>>, queue' \subseteq Message,
           faults' \in 0 .. MaxFaults,
           UNCHANGED proc \/ \E p \in Procs : Return(p)
    PROVE  SegmentInv'
<1>1. Rows' BY DEF membership, contacts, SegmentInv, Rows
<1>2. Calm BY Types DEF membership, contacts, Calm
<1>3. Invocations'
  <2>1. CASE UNCHANGED proc BY <2>1 DEF SegmentInv, Invocations, membership, contacts
  <2>2. CASE \E p \in Procs : Return(p) BY <1>1, <1>2, <2>2, Returns
  <2> QED BY <2>1, <2>2
<1>4. Told' BY <1>2, StillTold DEF membership
<1> QED BY <1>1, <1>3, <1>4 DEF SegmentInv

LEMMA CorrectInv == ASSUME SegmentInv, Correct PROVE SegmentInv'
<1>1. [kind |-> "full", version |-> segment.version] \in Message BY Types DEF Message
<1>2. queue \subseteq Message /\ faults \in 0 .. MaxFaults BY DEF SegmentInv, Rows
<1> QED BY <1>1, <1>2, Beside DEF Correct

LEMMA CrashInv ==
    ASSUME SegmentInv, NEW p \in Procs, Crash(p) PROVE SegmentInv'
<1>1. proc[p].pc \in {"definition", "mark", "replace", "failed", "recount", "list", "match",
                      "apply", "ack"} => proc[p].message \in Message
  BY Held DEF Equipped
<1>2. queue \subseteq Message BY DEF SegmentInv, Rows
<1>3. queue' \subseteq Message BY <1>1, <1>2 DEF Crash
<1>4. faults' \in 0 .. MaxFaults BY Types DEF Crash
<1> QED BY <1>3, <1>4, Beside DEF Crash

LEMMA LoseMessageInv ==
    ASSUME SegmentInv, NEW m \in queue, LoseMessage(m) PROVE SegmentInv'
<1>1. queue' \subseteq Message BY DEF LoseMessage, SegmentInv, Rows
<1>2. faults' \in 0 .. MaxFaults BY Types DEF LoseMessage
<1> QED BY <1>1, <1>2, Beside DEF LoseMessage

-----------------------------------------------------------------------------
(* The theorems                                                            *)

LEMMA RequestInv == ASSUME SegmentInv, NEW p \in Procs, Request(p) PROVE SegmentInv'
BY ChangeContactInv, AddMemberInv, RemoveMemberInv, AutomationAddsInv, AutomationRemovesInv,
   EditInv, AskRefreshInv DEF Request

LEMMA InvocationInv == ASSUME SegmentInv, NEW p \in Procs, Invocation(p) PROVE SegmentInv'
BY UpdateInv, ClearInv, CountInv, RecordJoinedInv, SetPendingInv, EnqueueInv, TakeInv,
    ReadDefinitionInv, RecountInv, MarkRunningInv, ReplaceInv, MarkFailedInv,
    ListDefinitionsInv, MatchContactInv, SetMembershipInv, AckInv DEF Invocation

LEMMA Inductive == SegmentInv /\ [Next]_vars => SegmentInv'
<1> SUFFICES ASSUME SegmentInv, [Next]_vars PROVE SegmentInv'
  OBVIOUS
<1>1. CASE Next
  BY <1>1, RequestInv, InvocationInv, ReplaceFailsInv, CrashInv, AgeInv, CorrectInv,
      LoseMessageInv DEF Next
<1>2. CASE UNCHANGED vars
  <2>1. Rows' BY <1>2 DEF vars, SegmentInv, Rows
  <2>2. Invocations' BY <1>2 DEF vars, SegmentInv, Invocations
  <2>3. Told' BY <1>2 DEF vars, SegmentInv, Told, Size
  <2> QED BY <2>1, <2>2, <2>3 DEF SegmentInv
<1> QED BY <1>1, <1>2

LEMMA Always == Spec => []SegmentInv
BY Initially, Inductive, PTL DEF Spec

\* The row of the segment, the memberships, the messages and what an invocation holds keep
\* their types; in particular a version is never higher than the requests made can account
\* for, though each edit writes the version after the one it read.
THEOREM SegmentTypes == Spec => []TypeOK
<1>1. SegmentInv => TypeOK BY Types
<1> QED BY <1>1, Always, PTL

\* However deltas, full refreshes, edits, corrections, repetitions and losses of messages
\* interleave (segment-membership repositories and the refresh worker), the events and the
\* count of a segment that always was dynamic tell exactly who its members are.
THEOREM MembersAreTold == Spec => []MembershipIsTold
<1>1. SegmentInv => MembershipIsTold BY DEF SegmentInv, Told, MembershipIsTold
<1> QED BY <1>1, Always, PTL
=============================================================================
