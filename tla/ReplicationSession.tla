------------------------- MODULE ReplicationSession -------------------------
(***************************************************************************)
(* What Service.ExecuteAction (src/Dockerfile) promises about one          *)
(* replication session shared by concurrent callers.  A call either fails *)
(* before it starts, or it starts with one array action and then sends    *)
(* that action to the array at most once.  It ends with an answer: the    *)
(* session's status as it is at that moment, or an internal error.  The   *)
(* session changes only when the array accepts an action that a running   *)
(* call sent, completes a transition, or faults.  A success may follow a  *)
(* call that the array refused; ExecuteAction drops that error.           *)
(***************************************************************************)
CONSTANTS
    Callers,        \* concurrent handler calls
    States,         \* session states
    Roles,          \* the session's role on this array
    Actions,        \* the array actions a call may carry
    Accepted(_),    \* the state the array moves to when it accepts an action
    Transitional,   \* the states the array completes on its own
    Completed(_),   \* ... and the state it completes them to
    Faults,         \* the states the array may fault the session into
    Status(_),      \* the status a session state is reported as
    RejectCodes     \* the errors of a call that does not start

NoAct == "none"
NoResp == [code |-> "none"]

VARIABLES
    state,   \* the session's state on the array
    role,    \* the session's role
    act,     \* per caller: the action of its running call, or NoAct
    sent,    \* per caller: its running call's action was accepted
    resp     \* per caller: the answer of its last call
vars == <<state, role, act, sent, resp>>

Init ==
    /\ state \in States
    /\ role \in Roles
    /\ act = [c \in Callers |-> NoAct]
    /\ sent = [c \in Callers |-> FALSE]
    /\ resp = [c \in Callers |-> NoResp]

\* A call fails before it starts (bad request, no array, no session).
Reject(c) ==
    /\ act[c] = NoAct
    /\ \E code \in RejectCodes : resp' = [resp EXCEPT ![c] = [code |-> code]]
    /\ UNCHANGED <<state, role, act, sent>>

\* A call starts with action a.
Invoke(c, a) ==
    /\ act[c] = NoAct
    /\ act' = [act EXCEPT ![c] = a]
    /\ resp' = [resp EXCEPT ![c] = NoResp]
    /\ UNCHANGED <<state, role, sent>>

\* The array accepts the call's action, at most once per call.
Send(c) ==
    /\ act[c] # NoAct /\ ~sent[c]
    /\ state' = Accepted(act[c])
    /\ sent' = [sent EXCEPT ![c] = TRUE]
    /\ UNCHANGED <<role, act, resp>>

\* The call answers the status of the session now, or an internal error.
Replies == {[code |-> "Success", status |-> Status(state),
             isSource |-> role # "Destination"], [code |-> "Internal"]}
Answer(c) ==
    /\ act[c] # NoAct
    /\ \E r \in Replies : resp' = [resp EXCEPT ![c] = r]
    /\ act' = [act EXCEPT ![c] = NoAct]
    /\ sent' = [sent EXCEPT ![c] = FALSE]
    /\ UNCHANGED <<state, role>>

\* The array completes a transition, or faults the session.
Complete ==
    /\ state \in Transitional
    /\ state' = Completed(state)
    /\ UNCHANGED <<role, act, sent, resp>>
Fault ==
    /\ state \notin Faults
    /\ state' \in Faults
    /\ UNCHANGED <<role, act, sent, resp>>

Next ==
    \/ \E c \in Callers : \/ Reject(c) \/ Send(c) \/ Answer(c)
                         \/ \E a \in Actions : Invoke(c, a)
    \/ Complete
    \/ Fault

Spec == Init /\ [][Next]_vars
=============================================================================
