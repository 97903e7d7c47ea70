------------------------- MODULE ReplicationAction -------------------------
(***************************************************************************)
(* The replication action handler of the controller: Service.ExecuteAction *)
(* with its helpers ExecuteAction and validateRSState, and the status      *)
(* projection GetStorageProtectionGroupStatus that the handler calls at    *)
(* its end (src/Dockerfile).  Several callers run the handler concurrently *)
(* against one replication session; no lock protects the session.  The    *)
(* handler is split at its three calls to the array: the session read,    *)
(* the action call and the status read.  The array owns the session       *)
(* lifecycle and is modelled as the environment: it answers each call,     *)
(* moves the session when it accepts an action and later completes the     *)
(* transition on its own.                                                  *)
(***************************************************************************)
EXTENDS Naturals, FiniteSets

CONSTANTS Callers      \* concurrent handler invocations (goroutines)

\* Replication session states reported by the array (gopowerstore RsState*).
States == {"OK", "Paused", "Paused_For_Migration", "Paused_For_NDU",
           "System_Paused", "Failing_Over", "Failing_Over_For_DR",
           "Failed_Over", "Resuming", "Reprotecting",
           "Partial_Cutover_For_Migration", "Synchronizing", "Initializing",
           "Error"}
Roles == {"Source", "Destination"}

\* csiext.ActionTypes names a request may carry; "UNKNOWN" stands for any
\* other value, which the handler's switch rejects.
ReqActions == {"FAILOVER_REMOTE", "UNPLANNED_FAILOVER_LOCAL", "SUSPEND",
               "RESUME", "SYNC", "REPROTECT_LOCAL", "UNKNOWN"}
\* Whether the globalID attribute is present and names a registered array.
\* ("unregistered" stands for both: the two lookups answer alike).
GIDCases == {"known", "unregistered"}
Requests == [action : ReqActions, gid : GIDCases]

\* gopowerstore.ActionType values the handler sends.
RsActions == {"Failover", "Pause", "Resume", "Sync", "Reprotect"}

\* The switch of Service.ExecuteAction from request action to array action.
ActionOf(a) ==
    CASE a \in {"FAILOVER_REMOTE", "UNPLANNED_FAILOVER_LOCAL"} -> "Failover"
      [] a = "SUSPEND"         -> "Pause"
      [] a = "RESUME"          -> "Resume"
      [] a = "SYNC"            -> "Sync"
      [] a = "REPROTECT_LOCAL" -> "Reprotect"

\* validateRSState: the states in which an action is already done, and
\* the states in which it is still executing.
DesiredStates(act) ==
    CASE act \in {"Resume", "Reprotect"} -> {"OK"}
      [] act = "Pause"    -> {"Paused", "Paused_For_Migration", "Paused_For_NDU"}
      [] act = "Failover" -> {"Failed_Over"}
      [] OTHER            -> {}
InProgressStates(act) ==
    IF act = "Failover" THEN {"Failing_Over"} ELSE {}
\* (Mutant: a Failover still in progress is taken for a finished one.)
validateRSStateInProgressDone(act, s) ==
    [inDesiredState |-> s \in DesiredStates(act) \cup InProgressStates(act),
     actionRequired |-> s \notin DesiredStates(act) \cup InProgressStates(act)]
validateRSState(act, s) ==
    [inDesiredState |-> s \in DesiredStates(act),
     actionRequired |-> s \notin DesiredStates(act) \cup InProgressStates(act)]

\* GetStorageProtectionGroupStatus: projection of a session state.
Statuses == {"SYNCHRONIZED", "FAILEDOVER", "SUSPENDED", "SYNC_IN_PROGRESS",
             "INVALID", "UNKNOWN"}
Project(s) ==
    CASE s = "OK"          -> "SYNCHRONIZED"
      [] s = "Failed_Over" -> "FAILEDOVER"
      [] s \in {"Paused", "Paused_For_Migration", "Paused_For_NDU",
                "System_Paused"} -> "SUSPENDED"
      [] s \in {"Failing_Over", "Failing_Over_For_DR", "Resuming",
                "Reprotecting", "Partial_Cutover_For_Migration",
                "Synchronizing", "Initializing"} -> "SYNC_IN_PROGRESS"
      [] s = "Error"       -> "INVALID"
      [] OTHER             -> "UNKNOWN"

\* What the handler keeps of ExecuteActionOnReplicationSession: no call yet,
\* accepted, or an error it drops.  (The structured "cannot fail over from
\* destination" error is not kept: the helper returns at once.)
CallResults == {"none", "ok", "other"}

\* gRPC outcome of one handler call.
Codes == {"Success", "InvalidArgument", "Unknown", "Aborted", "Internal", "Raw"}
NoResp == [code |-> "none"]
Responses == {NoResp} \cup [code : Codes \ {"Success"}]
               \cup [code : {"Success"}, status : Statuses, isSource : BOOLEAN]
Fail(code) == [code |-> code]

\* The session state the array moves to when it accepts an action, and the
\* state it later reaches on its own (environment, owned by the array).
Accepted(act) ==
    CASE act = "Failover"  -> "Failing_Over"
      [] act = "Pause"     -> "Paused"
      [] act = "Resume"    -> "Resuming"
      [] act = "Sync"      -> "Synchronizing"
      [] act = "Reprotect" -> "Reprotecting"
Completed(s) ==
    IF s \in {"Failing_Over", "Failing_Over_For_DR"} THEN "Failed_Over" ELSE "OK"
Transitional == {"Failing_Over", "Failing_Over_For_DR", "Resuming",
                 "Reprotecting", "Partial_Cutover_For_Migration",
                 "Synchronizing", "Initializing"}

VARIABLES
    state,      \* the session's state on the array
    role,       \* the session's role on this array
    pc,         \* per caller: "idle", "call" (before the action), "status"
    req,        \* per caller: the request being handled
    snapshot,   \* per caller: session state read at the start (rs.State)
    called,     \* per caller: the result of its call to the array, if any
    seen,       \* per caller: statuses the session had since its last call
    resp        \* per caller: the response of its last handler call
vars == <<state, role, pc, req, snapshot, called, seen, resp>>

\* The locals of a handler that is not running.
NoReq == [action |-> "SYNC", gid |-> "known"]

TypeOK ==
    /\ state \in States
    /\ role \in Roles
    /\ pc \in [Callers -> {"idle", "call", "status"}]
    /\ req \in [Callers -> Requests]
    /\ snapshot \in [Callers -> States]
    /\ called \in [Callers -> CallResults]
    /\ seen \in [Callers -> SUBSET Statuses]
    /\ resp \in [Callers -> Responses]

Init ==
    /\ state \in States
    /\ role \in Roles
    /\ pc = [c \in Callers |-> "idle"]
    /\ req = [c \in Callers |-> NoReq]
    /\ snapshot = [c \in Callers |-> "OK"]
    /\ called = [c \in Callers |-> "none"]
    /\ seen = [c \in Callers |-> {}]
    /\ resp = [c \in Callers |-> NoResp]

\* A change of the session state enters the history of every running handler.
Observe(s) ==
    [c \in Callers |-> IF pc[c] = "idle" THEN seen[c] ELSE seen[c] \cup {Project(s)}]

\* The handler returns response r; its locals go out of scope.
Return(c, r) ==
    /\ pc' = [pc EXCEPT ![c] = "idle"]
    /\ resp' = [resp EXCEPT ![c] = r]
    /\ req' = [req EXCEPT ![c] = NoReq]
    /\ snapshot' = [snapshot EXCEPT ![c] = "OK"]
    /\ called' = [called EXCEPT ![c] = "none"]
    /\ seen' = [seen EXCEPT ![c] = {}]

(***************************************************************************)
(* Service.ExecuteAction up to its array call, with the helper's          *)
(* validateRSState: the globalID lookup, the registry lookup, the session *)
(* read, the action switch and the state check.  A request whose action   *)
(* is already done goes straight to the status read; the early returns    *)
(* answer with their error.                                                *)
(***************************************************************************)
Start(c, r, next) ==
    /\ pc' = [pc EXCEPT ![c] = next]
    /\ resp' = [resp EXCEPT ![c] = NoResp]
    /\ req' = [req EXCEPT ![c] = r]
    /\ snapshot' = [snapshot EXCEPT ![c] = state]
    /\ seen' = [seen EXCEPT ![c] = {Project(state)}]
    /\ UNCHANGED called

ReadSession(c) ==
    /\ pc[c] = "idle"
    /\ UNCHANGED <<state, role>>
    /\ \E r \in Requests :
          \/ r.gid # "known" /\ Return(c, Fail("InvalidArgument"))
          \/ r.gid = "known" /\ Return(c, Fail("Raw"))   \* session read failed
          \/ /\ r.gid = "known"
             /\ r.action = "UNKNOWN"
             /\ Return(c, Fail("Unknown"))
          \/ /\ r.gid = "known"
             /\ r.action # "UNKNOWN"
             /\ LET v == validateRSState(ActionOf(r.action), state)
                IN  CASE v.inDesiredState -> Start(c, r, "status")
                      [] v.actionRequired -> Start(c, r, "call")
                      [] OTHER            -> Return(c, Fail("Aborted"))

(***************************************************************************)
(* ExecuteActionOnReplicationSession and its error handling in the helper: *)
(* only the "cannot fail over from destination" error is returned; every  *)
(* other result continues to the status read.                              *)
(***************************************************************************)
IssueAction(c) ==
    /\ pc[c] = "call"
    /\ LET act == ActionOf(req[c].action) IN
       \/ /\ called' = [called EXCEPT ![c] = "ok"]
          /\ state' = Accepted(act)
          /\ seen' = [Observe(Accepted(act)) EXCEPT ![c] = {Project(Accepted(act))}]
          /\ pc' = [pc EXCEPT ![c] = "status"]
          /\ UNCHANGED <<role, req, snapshot, resp>>
       \/ /\ act = "Failover" /\ role = "Destination"
          /\ Return(c, Fail("Internal"))
          /\ UNCHANGED <<state, role>>
       \/ /\ called' = [called EXCEPT ![c] = "other"]
          /\ seen' = [seen EXCEPT ![c] = {Project(state)}]
          /\ pc' = [pc EXCEPT ![c] = "status"]
          /\ UNCHANGED <<state, role, req, snapshot, resp>>

(***************************************************************************)
(* The handler's call of GetStorageProtectionGroupStatus, which reads the  *)
(* session again and projects its state, and the success response.        *)
(***************************************************************************)
\* (Mutant: the raw session state is reported instead of its projection.)
StatusOfRaw(c) == [code |-> "Success", status |-> state,
                   isSource |-> role # "Destination"]
\* (Mutant: the status of the session read at the start, not re-read.)
StatusOfSnapshot(c) == [code |-> "Success", status |-> Project(snapshot[c]),
                        isSource |-> role # "Destination"]
StatusOf(c) == [code |-> "Success", status |-> Project(state),
                isSource |-> role # "Destination"]

ReadStatus(c) ==
    /\ pc[c] = "status"
    /\ \/ Return(c, StatusOf(c))
       \/ Return(c, Fail("Internal"))                 \* status read failed
    /\ UNCHANGED <<state, role>>

\* The array completes a transition, or pauses or fails the session itself.
ArrayProgress ==
    /\ state \in Transitional
    /\ state' = Completed(state)
    /\ seen' = Observe(Completed(state))
    /\ UNCHANGED <<role, pc, req, snapshot, called, resp>>
ArrayFault ==
    /\ state \notin {"System_Paused", "Error"}
    /\ \E s \in {"System_Paused", "Error"} :
          state' = s /\ seen' = Observe(s)
    /\ UNCHANGED <<role, pc, req, snapshot, called, resp>>

Next ==
    \/ \E c \in Callers : ReadSession(c) \/ IssueAction(c) \/ ReadStatus(c)
    \/ ArrayProgress
    \/ ArrayFault

Spec == Init /\ [][Next]_vars


(***************************************************************************)
(* Properties.                                                             *)
(***************************************************************************)

\* The status each array action aims at (Sync has none: it is always sent).
TargetStatus(act) ==
    CASE act = "Failover"                 -> "FAILEDOVER"
      [] act = "Pause"                    -> "SUSPENDED"
      [] act \in {"Resume", "Reprotect"}  -> "SYNCHRONIZED"
      [] OTHER                            -> "none"

\* A step in which caller c's handler returns a success response.
SuccessStep(c) == pc[c] = "status" /\ resp'[c].code = "Success"

\* Spec 4.4, validateRSState against GetStorageProtectionGroupStatus: a
\* handler call that answers success without contacting the array read a
\* session whose status, as the handler itself reports statuses, already
\* was the action's target.  The "done" table of validateRSState and the
\* projection of GetStorageProtectionGroupStatus are two separate tables
\* of the code; this says the first never skips an action the second
\* would not report as done (a session still failing over included).
SkipOnlyWhenTargetReported ==
    [][\A c \in Callers :
         SuccessStep(c) /\ called[c] = "none" =>
             Project(snapshot[c]) = TargetStatus(ActionOf(req[c].action))]_vars

\* The status in a success response is that of a session state the array
\* held after the handler's last array call (its action call, or its
\* session read when no call was needed): GetStorageProtectionGroupStatus
\* reads the session again rather than report the stale rs that was
\* validated, although other callers and the array move it in between.
ReportedStatusIsCurrent ==
    [][\A c \in Callers : SuccessStep(c) => resp'[c].status \in seen[c]]_vars

\* Spec 4.4 and 7: the result of the array action is propagated and no
\* error is swallowed, so a handler call that contacted the array answers
\* success only if the array accepted the action.
SuccessOnlyIfAccepted ==
    [][\A c \in Callers :
         SuccessStep(c) /\ called[c] # "none" => called[c] = "ok"]_vars

\* Spec 4.4: a Pause request finds "any Paused variant" already done, so no
\* action is sent to the array for a session whose status already reads
\* as the action's target (SUSPENDED, FAILEDOVER or SYNCHRONIZED).
NoCallWhenTargetReported ==
    \A c \in Callers :
        pc[c] = "call" =>
            Project(snapshot[c]) # TargetStatus(ActionOf(req[c].action))


(***************************************************************************)
(* The handlers seen as ReplicationSession: a running call carries the    *)
(* array action its request names, and it has sent that action once the  *)
(* array accepted it.                                                      *)
(***************************************************************************)
SessionAct == [c \in Callers |-> IF pc[c] = "idle" THEN "none" ELSE ActionOf(req[c].action)]
SessionSent == [c \in Callers |-> called[c] = "ok"]
Session == INSTANCE ReplicationSession WITH
    Actions <- RsActions, Faults <- {"System_Paused", "Error"}, Status <- Project,
    RejectCodes <- {"InvalidArgument", "Raw", "Unknown", "Aborted"},
    act <- SessionAct, sent <- SessionSent

\* Service.ExecuteAction, its helpers and the array together implement
\* ReplicationSession.  A call sends at most one action, the one its
\* request names.  It answers either the status the session has when
\* GetStorageProtectionGroupStatus reads it or an internal error.  The
\* session changes only by an accepted action, a completed transition or
\* a fault.
ImplementsReplicationSession == Session!Spec

=============================================================================
