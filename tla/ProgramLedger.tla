---------------------------- MODULE ProgramLedger ----------------------------
(***************************************************************************)
(* What the members of a program are promised, without reads, retries and  *)
(* leases: a command is carried out once, in one step, by what the member, *)
(* the project and the contact are at that moment; the rows of an import   *)
(* are taken in their order and each is carried out or rejected once, and  *)
(* what the report says of it is what happened.                            *)
(***************************************************************************)
EXTENDS ProgramProgress

CONSTANTS
    Contacts,
    Keys,          \* idempotency keys of the commands
    Command,       \* by key
    Total          \* rows of the import; their keys are their numbers

VARIABLES
    journey,       \* by contact
    recorded,      \* keys of the commands that were carried out
    published,     \* the published version
    open,          \* the project is not archived
    gone,          \* contacts that are archived
    authorized,    \* the automation's job runs and its enrollment is active
    counted,       \* rows that were taken
    report         \* by row: none, ok or failed

vars == <<journey, recorded, published, open, gone, authorized, counted, report>>

Init ==
    /\ journey = [c \in Contacts |-> <<>>]
    /\ recorded = {} /\ gone = {}
    /\ published = None /\ open = TRUE /\ authorized = TRUE
    /\ counted = 0 /\ report = [r \in 1 .. Total |-> "none"]

CarryOut(k) ==
    LET c == Command[k].contact
        outcome == Outcome(At(journey[c], Len(journey[c])), Len(journey[c]), Command[k],
                           published)
    IN /\ k \notin recorded
       /\ open /\ c \notin gone
       /\ Command[k].source = "automation" => authorized
       /\ outcome # Refused
       /\ journey' = [journey EXCEPT ![c] = Continued(@, outcome, Command[k])]
       /\ recorded' = recorded \cup {k}

Carry(k) ==
    /\ k \notin 1 .. Total
    /\ CarryOut(k)
    /\ UNCHANGED <<published, open, gone, authorized, counted, report>>

TakeRow ==
    LET r == counted + 1
    IN /\ r <= Total
       /\ counted' = r
       /\ \/ /\ CarryOut(r)
             /\ report' = [report EXCEPT ![r] = "ok"]
          \/ /\ report' = [report EXCEPT ![r] = "failed"]
             /\ UNCHANGED <<journey, recorded>>
       /\ UNCHANGED <<published, open, gone, authorized>>

Surroundings ==
    /\ \/ \E v \in Versions : published' = v /\ UNCHANGED <<open, gone, authorized>>
       \/ open' \in BOOLEAN /\ UNCHANGED <<published, gone, authorized>>
       \/ \E c \in Contacts : gone' = gone \cup {c} /\ UNCHANGED <<published, open, authorized>>
       \/ authorized' = FALSE /\ UNCHANGED <<published, open, gone>>
    /\ UNCHANGED <<journey, recorded, counted, report>>

Next == (\E k \in Keys : Carry(k)) \/ TakeRow \/ Surroundings

Spec == Init /\ [][Next]_vars
=============================================================================
