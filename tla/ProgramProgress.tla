--------------------------- MODULE ProgramProgress ---------------------------
(***************************************************************************)
(* What a command makes of a program member: the checks and the result of  *)
(* resolveProgramProgress, under the definition the member was enrolled    *)
(* with.  A member is the last entry of its journey; the revision of the   *)
(* row is the journey's length.                                            *)
(***************************************************************************)
EXTENDS Integers, Sequences

CONSTANTS
    Definition,    \* the published definitions: [statuses, initial, next, success]
    None

Versions == 1 .. Len(Definition)
Refused == [version |-> None, status |-> None, success |-> FALSE]

\* A status is reached when every set that is closed under next and has from has it.
Reachable(d, from, to) ==
    \A closed \in SUBSET d.statuses :
        from \in closed /\ (\A s \in closed : d.next[s] \subseteq closed) => to \in closed

\* The member as it was at a revision; None before the first.
At(journey, revision) == IF revision = 0 THEN None ELSE journey[revision]

VersionFor(current, command, published) ==
    IF current # None THEN current.version
    ELSE IF command.version # None THEN command.version ELSE published

\* A form of another version asks for a status that the member's version does not have.
KeepsPinned(current, command) ==
    /\ current # None
    /\ command.source = "form" /\ command.version # None /\ command.status # None
    /\ command.version # current.version
    /\ command.status \notin Definition[current.version].statuses

\* The checks before the status is looked at.
Admissible(current, revision, command, published) ==
    /\ VersionFor(current, command, published) # None
    /\ current # None /\ command.source # "form" /\ command.version # None
           => command.version = current.version
    /\ command.expected # None => command.expected = revision
    /\ KeepsPinned(current, command)
           => command.status \in Definition[command.version].statuses

\* resolveProgramProgress
Resolve(current, version, wanted, command) ==
    LET d == Definition[version]
        status == IF wanted # None THEN wanted
                  ELSE IF current # None THEN current.status ELSE d.initial
        Reached(success) == [version |-> version, status |-> status, success |-> success]
    IN CASE status \notin d.statuses -> Refused
         [] status \in d.statuses /\ command.correction ->
                IF command.source = "manual" /\ current # None
                THEN Reached(status \in d.success) ELSE Refused
         [] OTHER ->
                IF current = None \/ Reachable(d, current.status, status)
                THEN Reached(status \in d.success \/ (current # None /\ current.success))
                ELSE IF command.source = "form" /\ Reachable(d, status, current.status)
                     THEN current ELSE Refused

\* prepareMutation: what the member becomes, or Refused.
Outcome(current, revision, command, published) ==
    IF Admissible(current, revision, command, published)
    THEN Resolve(current, VersionFor(current, command, published),
                 IF KeepsPinned(current, command) THEN current.status ELSE command.status,
                 command)
    ELSE Refused

\* The journey goes on unless the command leaves the member as it is.
Continued(journey, outcome, command) ==
    IF journey # <<>> /\ outcome = journey[Len(journey)] /\ ~command.correction
    THEN journey ELSE Append(journey, outcome)
=============================================================================
