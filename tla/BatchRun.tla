------------------------------ MODULE BatchRun ------------------------------
(***************************************************************************)
(* What a batch run promises, without processors, messages and batches of  *)
(* statements: the audience is frozen when it starts, each target is       *)
(* decided once and only while the run is open, an enrolled target has one *)
(* flow, and the run is closed when nothing is left to decide and no flow  *)
(* is going on - as failed if something failed - or by a cancellation that *)
(* takes everything open along.                                            *)
(***************************************************************************)
CONSTANTS Runs, Contacts

VARIABLES
    state,      \* absent, open, completed, failed or cancelled
    decision,   \* by run and contact: none, pending, enrolled, skipped or failed
    flow        \* by run and contact: absent, active, completed, failed or cancelled

vars == <<state, decision, flow>>

Init ==
    /\ state = [r \in Runs |-> "absent"]
    /\ decision = [r \in Runs |-> [c \in Contacts |-> "none"]]
    /\ flow = [r \in Runs |-> [c \in Contacts |-> "absent"]]

Start(r) ==
    /\ state[r] = "absent"
    /\ state' = [state EXCEPT ![r] = "open"]
    /\ \E audience \in SUBSET Contacts :
          decision' = [decision EXCEPT ![r] =
              [c \in Contacts |-> IF c \in audience THEN "pending" ELSE "none"]]
    /\ UNCHANGED flow

Decide(r, c) ==
    /\ state[r] = "open" /\ decision[r][c] = "pending"
    /\ \/ /\ flow[r][c] = "absent"
          /\ decision' = [decision EXCEPT ![r][c] = "enrolled"]
          /\ flow' = [flow EXCEPT ![r][c] = "active"]
       \/ \E d \in {"skipped", "failed"} : decision' = [decision EXCEPT ![r][c] = d]
          /\ UNCHANGED flow
    /\ UNCHANGED state

EndFlow(r, c) ==
    /\ flow[r][c] = "active"
    /\ \E f \in {"completed", "failed", "cancelled"} : flow' = [flow EXCEPT ![r][c] = f]
    /\ UNCHANGED <<state, decision>>

Close(r) ==
    /\ state[r] = "open"
    /\ \A c \in Contacts : decision[r][c] # "pending" /\ flow[r][c] # "active"
    /\ state' = [state EXCEPT ![r] =
           IF \E c \in Contacts : decision[r][c] = "failed" \/ flow[r][c] = "failed"
           THEN "failed" ELSE "completed"]
    /\ UNCHANGED <<decision, flow>>

Cancel(r) ==
    /\ state[r] = "open"
    /\ state' = [state EXCEPT ![r] = "cancelled"]
    /\ decision' = [decision EXCEPT ![r] = [c \in Contacts |->
           IF @[c] = "pending" THEN "skipped" ELSE @[c]]]
    /\ flow' = [flow EXCEPT ![r] = [c \in Contacts |->
           IF @[c] = "active" THEN "cancelled" ELSE @[c]]]

Next ==
    \E r \in Runs :
        \/ Start(r) \/ Close(r) \/ Cancel(r)
        \/ \E c \in Contacts : Decide(r, c) \/ EndFlow(r, c)

Spec == Init /\ [][Next]_vars
=============================================================================
