--------------------- MODULE ReplicationActionProofs -----------------------
(***************************************************************************)
(* Proofs about the replication action handler: type correctness, the two *)
(* action properties of the passing run and the refinement of            *)
(* ReplicationSession, for any set of callers.                             *)
(***************************************************************************)
EXTENDS ReplicationAction, TLAPS

(***************************************************************************)
(* The inductive invariant.  A running handler has a known action, its     *)
(* history holds the status of the session as it is now, it has made no   *)
(* call until it is past the call step, and a handler at the status read  *)
(* that made no call found its action done.                               *)
(***************************************************************************)
IInv ==
    /\ TypeOK
    /\ \A c \in Callers :
          pc[c] # "idle" => req[c].action # "UNKNOWN" /\ Project(state) \in seen[c]
    /\ \A c \in Callers : pc[c] # "idle" => resp[c] = NoResp
    /\ \A c \in Callers : pc[c] \in {"idle", "call"} => called[c] = "none"
    /\ \A c \in Callers :
          pc[c] = "status" /\ called[c] = "none" =>
              snapshot[c] \in DesiredStates(ActionOf(req[c].action))

(***************************************************************************)
(* Lemmas on the operators the actions are built from.                    *)
(***************************************************************************)
LEMMA ProjectType == \A s \in States : Project(s) \in Statuses
BY DEF Project, States, Statuses

LEMMA ActionOfType ==
    \A a \in ReqActions \ {"UNKNOWN"} : ActionOf(a) \in RsActions
BY DEF ActionOf, ReqActions, RsActions

LEMMA EnvironmentType ==
    /\ \A act \in RsActions : Accepted(act) \in States
    /\ \A s \in States : Completed(s) \in States
BY DEF Accepted, Completed, RsActions, States

LEMMA ResponseType ==
    /\ NoResp \in Responses
    /\ \A code \in Codes \ {"Success"} : Fail(code) \in Responses
    /\ \A s \in States, r \in Roles :
          [code |-> "Success", status |-> Project(s), isSource |-> r # "Destination"]
             \in Responses
BY ProjectType DEF NoResp, Fail, Responses, Codes

\* Observe keeps the histories of the handlers that are not running.
LEMMA ObserveType ==
    ASSUME NEW s \in States,
           pc \in [Callers -> {"idle", "call", "status"}],
           seen \in [Callers -> SUBSET Statuses]
    PROVE  /\ Observe(s) \in [Callers -> SUBSET Statuses]
           /\ \A d \in Callers :
                 Observe(s)[d] = IF pc[d] = "idle" THEN seen[d] ELSE seen[d] \cup {Project(s)}
BY ProjectType DEF Observe

LEMMA InitIInv == Init => IInv
BY ResponseType DEF Init, IInv, TypeOK, NoReq, Requests, ReqActions, GIDCases, States,
       CallResults


\* A handler that returns, with any response, keeps IInv: its own locals
\* go back to their idle values and nothing else changes.
LEMMA ReturnIInv ==
    ASSUME IInv, NEW c \in Callers, NEW r \in Responses, Return(c, r),
           UNCHANGED <<state, role>>
    PROVE  IInv'
<1>1. TypeOK'
  BY DEF IInv, TypeOK, Return, NoReq, Requests, ReqActions, GIDCases, States,
     CallResults
<1>2. ASSUME NEW d \in Callers
      PROVE  /\ pc'[d] # "idle" => req'[d].action # "UNKNOWN" /\ Project(state') \in seen'[d]
             /\ pc'[d] # "idle" => resp'[d] = NoResp
             /\ pc'[d] \in {"idle", "call"} => called'[d] = "none"
             /\ pc'[d] = "status" /\ called'[d] = "none" =>
                   snapshot'[d] \in DesiredStates(ActionOf(req'[d].action))
  BY DEF IInv, TypeOK, Return
<1> QED  BY <1>1, <1>2 DEF IInv

(***************************************************************************)
(* Every step preserves IInv.  The history conjunct is the one that needs *)
(* care: a step that changes the session adds the new status to the       *)
(* history of every running handler (Observe), and a handler that starts  *)
(* or makes its call restarts its history with the status it leaves.      *)
(***************************************************************************)
LEMMA NextIInv == IInv /\ [Next]_vars => IInv'
<1> SUFFICES ASSUME IInv, [Next]_vars PROVE IInv'
  OBVIOUS
<1> USE DEF IInv, TypeOK
<1>1. ASSUME NEW c \in Callers, ReadSession(c) PROVE IInv'
  <2>1. PICK r \in Requests :
          \/ r.gid # "known" /\ Return(c, Fail("InvalidArgument"))
          \/ r.gid = "known" /\ Return(c, Fail("Raw"))
          \/ r.gid = "known" /\ r.action = "UNKNOWN" /\ Return(c, Fail("Unknown"))
          \/ /\ r.gid = "known"
             /\ r.action # "UNKNOWN"
             /\ LET v == validateRSState(ActionOf(r.action), state)
                IN  CASE v.inDesiredState -> Start(c, r, "status")
                      [] v.actionRequired -> Start(c, r, "call")
                      [] OTHER            -> Return(c, Fail("Aborted"))
    BY <1>1 DEF ReadSession
  <2>2. UNCHANGED <<state, role>>
    BY <1>1 DEF ReadSession
  <2>3. ASSUME NEW code \in Codes \ {"Success"}, Return(c, Fail(code)) PROVE IInv'
    BY <2>2, <2>3, ResponseType, ReturnIInv
  <2>4. ASSUME NEW next \in {"status", "call"}, Start(c, r, next),
               r.action # "UNKNOWN",
               next = "status" => state \in DesiredStates(ActionOf(r.action))
        PROVE IInv'
    <3>1. /\ pc' = [pc EXCEPT ![c] = next]
          /\ resp' = [resp EXCEPT ![c] = NoResp]
          /\ req' = [req EXCEPT ![c] = r]
          /\ snapshot' = [snapshot EXCEPT ![c] = state]
          /\ seen' = [seen EXCEPT ![c] = {Project(state)}]
          /\ called' = called
      BY <2>4 DEF Start
    <3>2. TypeOK'
      BY <2>2, <3>1, ProjectType, ResponseType
    <3>3. ASSUME NEW d \in Callers
          PROVE  /\ pc'[d] # "idle" => req'[d].action # "UNKNOWN" /\ Project(state') \in seen'[d]
                 /\ pc'[d] # "idle" => resp'[d] = NoResp
                 /\ pc'[d] \in {"idle", "call"} => called'[d] = "none"
                 /\ pc'[d] = "status" /\ called'[d] = "none" =>
                       snapshot'[d] \in DesiredStates(ActionOf(req'[d].action))
      <4>1. CASE d = c
        BY <1>1, <2>2, <2>4, <3>1, <4>1 DEF ReadSession
      <4>2. CASE d # c
        BY <2>2, <3>1, <4>2
      <4> QED  BY <4>1, <4>2
    <3> QED  BY <3>2, <3>3
  <2>5. ASSUME r.action # "UNKNOWN",
               LET v == validateRSState(ActionOf(r.action), state)
               IN  CASE v.inDesiredState -> Start(c, r, "status")
                     [] v.actionRequired -> Start(c, r, "call")
                     [] OTHER            -> Return(c, Fail("Aborted"))
        PROVE  IInv'
    <3> DEFINE v == validateRSState(ActionOf(r.action), state)
    <3>0. (CASE v.inDesiredState -> Start(c, r, "status")
             [] v.actionRequired -> Start(c, r, "call")
             [] OTHER            -> Return(c, Fail("Aborted")))
      BY <2>5
    <3>4. v.inDesiredState => ~v.actionRequired
      BY DEF validateRSState
    <3>1. CASE v.inDesiredState
      <4>1. Start(c, r, "status")
        BY <3>0, <3>1, <3>4
      <4>2. state \in DesiredStates(ActionOf(r.action))
        BY <3>1 DEF validateRSState
      <4> QED  BY <4>1, <4>2, <2>5, <2>4
    <3>2. CASE ~v.inDesiredState /\ v.actionRequired
      <4>1. Start(c, r, "call")
        BY <3>0, <3>2
      <4> QED  BY <4>1, <2>5, <2>4
    <3>3. CASE ~v.inDesiredState /\ ~v.actionRequired
      <4>1. Return(c, Fail("Aborted"))
        BY <3>0, <3>3
      <4> QED  BY <4>1, <2>3 DEF Codes
    <3> QED  BY <3>1, <3>2, <3>3
  <2> QED  BY <2>1, <2>3, <2>5, Zenon DEF Codes
<1>2. ASSUME NEW c \in Callers, IssueAction(c) PROVE IInv'
  <2> DEFINE act == ActionOf(req[c].action)
  <2>0. act \in RsActions
    BY <1>2, ActionOfType DEF IssueAction, Requests
  <2>1. CASE /\ called' = [called EXCEPT ![c] = "ok"]
             /\ state' = Accepted(act)
             /\ seen' = [Observe(Accepted(act)) EXCEPT ![c] = {Project(Accepted(act))}]
             /\ pc' = [pc EXCEPT ![c] = "status"]
             /\ UNCHANGED <<role, req, snapshot, resp>>
    <3>1. pc[c] = "call" /\ Accepted(act) \in States
      BY <1>2, <2>0, EnvironmentType DEF IssueAction
    <3>2. TypeOK'
      BY <2>1, <3>1, ObserveType DEF CallResults
    <3>3. ASSUME NEW d \in Callers
          PROVE  /\ pc'[d] # "idle" => req'[d].action # "UNKNOWN" /\ Project(state') \in seen'[d]
                 /\ pc'[d] # "idle" => resp'[d] = NoResp
                 /\ pc'[d] \in {"idle", "call"} => called'[d] = "none"
                 /\ pc'[d] = "status" /\ called'[d] = "none" =>
                       snapshot'[d] \in DesiredStates(ActionOf(req'[d].action))
      <4>1. CASE d = c
        BY <2>1, <3>1, <4>1, ObserveType
      <4>2. CASE d # c
        BY <2>1, <3>1, <4>2 DEF Observe
      <4> QED  BY <4>1, <4>2
    <3> QED  BY <3>2, <3>3
  <2>2. CASE act = "Failover" /\ role = "Destination" /\ Return(c, Fail("Internal"))
              /\ UNCHANGED <<state, role>>
    BY <2>2, ResponseType, ReturnIInv DEF Codes
  <2>3. CASE /\ called' = [called EXCEPT ![c] = "other"]
             /\ seen' = [seen EXCEPT ![c] = {Project(state)}]
             /\ pc' = [pc EXCEPT ![c] = "status"]
             /\ UNCHANGED <<state, role, req, snapshot, resp>>
    <3>1. pc[c] = "call"
      BY <1>2 DEF IssueAction
    <3>2. TypeOK'
      BY <2>3, <3>1, ProjectType DEF CallResults
    <3>3. ASSUME NEW d \in Callers
          PROVE  /\ pc'[d] # "idle" => req'[d].action # "UNKNOWN" /\ Project(state') \in seen'[d]
                 /\ pc'[d] # "idle" => resp'[d] = NoResp
                 /\ pc'[d] \in {"idle", "call"} => called'[d] = "none"
                 /\ pc'[d] = "status" /\ called'[d] = "none" =>
                       snapshot'[d] \in DesiredStates(ActionOf(req'[d].action))
      <4>1. CASE d = c
        BY <2>3, <3>1, <4>1
      <4>2. CASE d # c
        BY <2>3, <3>1, <4>2
      <4> QED  BY <4>1, <4>2
    <3> QED  BY <3>2, <3>3
  <2> QED  BY <1>2, <2>1, <2>2, <2>3 DEF IssueAction
<1>3. ASSUME NEW c \in Callers, ReadStatus(c) PROVE IInv'
  <2>1. StatusOf(c) \in Responses /\ Fail("Internal") \in Responses
    BY ResponseType DEF StatusOf, Codes
  <2> QED  BY <1>3, <2>1, ReturnIInv DEF ReadStatus
<1>4. CASE ArrayProgress
  BY <1>4, EnvironmentType, ProjectType DEF ArrayProgress, Observe, Transitional, States
<1>5. CASE ArrayFault
  BY <1>5, ProjectType DEF ArrayFault, Observe, States
<1>6. CASE UNCHANGED vars
  BY <1>6 DEF vars
<1> QED  BY <1>1, <1>2, <1>3, <1>4, <1>5, <1>6 DEF Next


\* IInv holds in every state of every behaviour of the handlers and the array.
THEOREM IInvHolds == Spec => []IInv
BY InitIInv, NextIInv, PTL DEF Spec

\* Type correctness of the handlers' locals, the session and the responses.
THEOREM TypeCorrect == Spec => []TypeOK
BY IInvHolds, PTL DEF IInv

(***************************************************************************)
(* The action properties.  Only a ReadStatus step of a handler at its      *)
(* status read answers success (a handler is idle in the step of any other *)
(* action that answers, and a running handler's response is empty), so     *)
(* each property reduces to a fact IInv states of such a handler.          *)
(***************************************************************************)
LEMMA SuccessOnlyByReadStatus ==
    ASSUME IInv, [Next]_vars, NEW c \in Callers, SuccessStep(c)
    PROVE  /\ ReadStatus(c)
           /\ resp'[c] = StatusOf(c)
<1>1. pc[c] = "status" /\ resp'[c].code = "Success" /\ resp[c] = NoResp
  BY DEF SuccessStep, IInv
<1>2. ~UNCHANGED vars
  BY <1>1 DEF vars, NoResp
<1>3. ASSUME NEW d \in Callers, d # c,
             ReadSession(d) \/ IssueAction(d) \/ ReadStatus(d)
      PROVE  FALSE
  <2>1. resp'[c] = resp[c]
    BY <1>3 DEF ReadSession, IssueAction, ReadStatus, Return, Start, IInv, TypeOK
  <2> QED  BY <1>1, <2>1 DEF NoResp
<1>4. ~ReadSession(c) /\ ~IssueAction(c)
  BY <1>1 DEF ReadSession, IssueAction
<1>5. ~ArrayProgress /\ ~ArrayFault
  BY <1>1 DEF ArrayProgress, ArrayFault, NoResp
<1>6. ReadStatus(c)
  BY <1>2, <1>3, <1>4, <1>5 DEF Next
<1>7. resp'[c] = StatusOf(c)
  BY <1>1, <1>6 DEF ReadStatus, Return, Fail, IInv, TypeOK
<1> QED  BY <1>6, <1>7

\* Theorem for ReportedStatusIsCurrent: a success response reports the
\* status of a session state the array held after the handler's last call.
THEOREM StatusIsCurrent == Spec => ReportedStatusIsCurrent
<1>1. IInv /\ [Next]_vars =>
         [\A c \in Callers : SuccessStep(c) => resp'[c].status \in seen[c]]_vars
  <2> SUFFICES ASSUME IInv, [Next]_vars, NEW c \in Callers, SuccessStep(c)
               PROVE  resp'[c].status \in seen[c]
    OBVIOUS
  <2>1. resp'[c] = StatusOf(c) /\ pc[c] = "status"
    BY SuccessOnlyByReadStatus DEF SuccessStep
  <2> QED  BY <2>1 DEF StatusOf, IInv
<1> QED  BY <1>1, IInvHolds, PTL DEF Spec, ReportedStatusIsCurrent

\* The "done" table of validateRSState and the projection of
\* GetStorageProtectionGroupStatus agree: every state validateRSState takes
\* for an action's desired state is reported as the action's target.
LEMMA DesiredReportsTarget ==
    \A act \in RsActions : \A s \in DesiredStates(act) : Project(s) = TargetStatus(act)
BY Zenon DEF RsActions, DesiredStates, Project, TargetStatus

\* Theorem for SkipOnlyWhenTargetReported: a handler answers success without
\* an array call only for a session whose status, as GetStorageProtection-
\* GroupStatus reports it, already was the action's target when read.
THEOREM SkipOnlyWhenTarget == Spec => SkipOnlyWhenTargetReported
<1>1. IInv /\ [Next]_vars =>
         [\A c \in Callers :
             SuccessStep(c) /\ called[c] = "none" =>
                 Project(snapshot[c]) = TargetStatus(ActionOf(req[c].action))]_vars
  <2> SUFFICES ASSUME IInv, [Next]_vars, NEW c \in Callers, SuccessStep(c),
                      called[c] = "none"
               PROVE  Project(snapshot[c]) = TargetStatus(ActionOf(req[c].action))
    OBVIOUS
  <2>1. snapshot[c] \in DesiredStates(ActionOf(req[c].action))
    BY DEF SuccessStep, IInv
  <2>2. ActionOf(req[c].action) \in RsActions
    BY ActionOfType DEF SuccessStep, IInv, TypeOK, Requests
  <2> QED  BY <2>1, <2>2, DesiredReportsTarget
<1> QED  BY <1>1, IInvHolds, PTL DEF Spec, SkipOnlyWhenTargetReported


-----------------------------------------------------------------------------
(***************************************************************************)
(* The handlers implement ReplicationSession.  Under IInv a running        *)
(* handler carries a known action and has made no call before its call    *)
(* step, so the mapped call starts once, sends at most once, and every     *)
(* returning step ends it.                                                 *)
(***************************************************************************)
RejectCodes == {"InvalidArgument", "Raw", "Unknown", "Aborted"}

\* A returning handler ends its mapped call: idle, it is a rejected call;
\* running, it answers.
LEMMA ReturnRefines ==
    ASSUME IInv, NEW c \in Callers, NEW r, Return(c, r), UNCHANGED <<state, role>>
    PROVE  /\ pc[c] = "idle" /\ r \in [code : RejectCodes] => Session!Reject(c)
           /\ pc[c] # "idle" /\ r \in Session!Replies => Session!Answer(c)
<1>1. SessionAct' = [SessionAct EXCEPT ![c] = "none"]
  BY DEF Return, SessionAct, IInv, TypeOK
<1>2. SessionSent' = [SessionSent EXCEPT ![c] = FALSE]
  BY DEF Return, SessionSent, IInv, TypeOK
<1>3. resp' = [resp EXCEPT ![c] = r]
  BY DEF Return
<1>4. ASSUME pc[c] = "idle", r \in [code : RejectCodes] PROVE Session!Reject(c)
  <2>1. SessionAct[c] = "none" /\ SessionSent[c] = FALSE
    BY <1>4 DEF SessionAct, SessionSent, IInv
  <2>2. SessionAct' = SessionAct /\ SessionSent' = SessionSent
    BY <1>1, <1>2, <2>1 DEF SessionAct, SessionSent
  <2>3. r = [code |-> r.code] /\ r.code \in RejectCodes
    BY <1>4
  <2> QED  BY <1>3, <2>1, <2>2, <2>3 DEF Session!Reject, Session!NoAct, RejectCodes
<1>5. ASSUME pc[c] # "idle", r \in Session!Replies PROVE Session!Answer(c)
  <2>1. SessionAct[c] = ActionOf(req[c].action) /\ req[c].action \in ReqActions \ {"UNKNOWN"}
    BY <1>5 DEF SessionAct, IInv, TypeOK, Requests
  <2>2. SessionAct[c] # "none"
    BY <2>1, ActionOfType DEF RsActions
  <2> QED  BY <1>1, <1>2, <1>3, <1>5, <2>2 DEF Session!Answer, Session!NoAct
<1> QED  BY <1>4, <1>5

\* Every step of the handlers and the array is a step of ReplicationSession
\* or leaves the mapped state alone.
LEMMA StepRefines == IInv /\ [Next]_vars => [Session!Next]_Session!vars
<1> SUFFICES ASSUME IInv, [Next]_vars PROVE [Session!Next]_Session!vars
  OBVIOUS
<1>1. ASSUME NEW c \in Callers, ReadSession(c) PROVE Session!Next
  <2>1. PICK r \in Requests :
          \/ r.gid # "known" /\ Return(c, Fail("InvalidArgument"))
          \/ r.gid = "known" /\ Return(c, Fail("Raw"))
          \/ r.gid = "known" /\ r.action = "UNKNOWN" /\ Return(c, Fail("Unknown"))
          \/ /\ r.gid = "known"
             /\ r.action # "UNKNOWN"
             /\ LET v == validateRSState(ActionOf(r.action), state)
                IN  CASE v.inDesiredState -> Start(c, r, "status")
                      [] v.actionRequired -> Start(c, r, "call")
                      [] OTHER            -> Return(c, Fail("Aborted"))
    BY <1>1 DEF ReadSession
  <2>2. pc[c] = "idle" /\ UNCHANGED <<state, role>>
    BY <1>1 DEF ReadSession
  <2>3. ASSUME NEW code \in RejectCodes, Return(c, Fail(code)) PROVE Session!Next
    <3>1. Fail(code) \in [code : RejectCodes]
      BY DEF Fail
    <3> QED  BY <2>2, <2>3, <3>1, ReturnRefines DEF Session!Next
  <2>4. ASSUME NEW next \in {"status", "call"}, Start(c, r, next), r.action # "UNKNOWN"
        PROVE  Session!Next
    <3>1. ActionOf(r.action) \in RsActions
      BY <2>4, ActionOfType DEF Requests
    <3>2. SessionAct' = [SessionAct EXCEPT ![c] = ActionOf(r.action)]
      BY <2>4 DEF Start, SessionAct, IInv, TypeOK
    <3>3. SessionAct[c] = "none" /\ SessionSent' = SessionSent
      BY <2>2, <2>4 DEF Start, SessionAct, SessionSent
    <3>4. resp' = [resp EXCEPT ![c] = Session!NoResp]
      BY <2>4 DEF Start, NoResp, Session!NoResp
    <3>5. Session!Invoke(c, ActionOf(r.action))
      BY <2>2, <3>2, <3>3, <3>4 DEF Session!Invoke, Session!NoAct
    <3> QED  BY <3>1, <3>5 DEF Session!Next
  <2>5. ASSUME r.action # "UNKNOWN",
               LET v == validateRSState(ActionOf(r.action), state)
               IN  CASE v.inDesiredState -> Start(c, r, "status")
                     [] v.actionRequired -> Start(c, r, "call")
                     [] OTHER            -> Return(c, Fail("Aborted"))
        PROVE  Session!Next
    <3> DEFINE v == validateRSState(ActionOf(r.action), state)
    <3>0. (CASE v.inDesiredState -> Start(c, r, "status")
             [] v.actionRequired -> Start(c, r, "call")
             [] OTHER            -> Return(c, Fail("Aborted")))
      BY <2>5
    <3>4. v.inDesiredState => ~v.actionRequired
      BY DEF validateRSState
    <3>1. CASE v.inDesiredState
      BY <3>0, <3>1, <3>4, <2>5, <2>4
    <3>2. CASE ~v.inDesiredState /\ v.actionRequired
      BY <3>0, <3>2, <2>5, <2>4
    <3>3. CASE ~v.inDesiredState /\ ~v.actionRequired
      <4>1. Return(c, Fail("Aborted"))
        BY <3>0, <3>3
      <4> QED  BY <4>1, <2>3 DEF RejectCodes
    <3> QED  BY <3>1, <3>2, <3>3
  <2> QED  BY <2>1, <2>3, <2>5, Zenon DEF RejectCodes

<1>2. ASSUME NEW c \in Callers, IssueAction(c) PROVE [Session!Next]_Session!vars
  <2> DEFINE act == ActionOf(req[c].action)
  <2>0. /\ pc[c] = "call" /\ called[c] = "none"
        /\ SessionAct[c] = act /\ act \in RsActions /\ ~SessionSent[c]
    BY <1>2, ActionOfType DEF IssueAction, SessionAct, SessionSent, IInv, TypeOK, Requests
  <2>1. CASE /\ called' = [called EXCEPT ![c] = "ok"]
             /\ state' = Accepted(act)
             /\ pc' = [pc EXCEPT ![c] = "status"]
             /\ UNCHANGED <<role, req, snapshot, resp>>
    <3>1. SessionAct' = SessionAct
      BY <2>0, <2>1 DEF SessionAct, IInv, TypeOK
    <3>2. SessionSent' = [SessionSent EXCEPT ![c] = TRUE]
      BY <2>1 DEF SessionSent, IInv, TypeOK
    <3>3. SessionAct[c] # "none"
      BY <2>0 DEF RsActions
    <3>4. Session!Send(c)
      BY <2>0, <2>1, <3>1, <3>2, <3>3 DEF Session!Send, Session!NoAct
    <3> QED  BY <3>4 DEF Session!Next
  <2>2. CASE Return(c, Fail("Internal")) /\ UNCHANGED <<state, role>>
    <3>1. Fail("Internal") \in Session!Replies
      BY DEF Fail, Session!Replies
    <3> QED  BY <2>0, <2>2, <3>1, ReturnRefines DEF Session!Next
  <2>3. CASE /\ called' = [called EXCEPT ![c] = "other"]
             /\ pc' = [pc EXCEPT ![c] = "status"]
             /\ UNCHANGED <<state, role, req, snapshot, resp>>
    <3>1. SessionAct' = SessionAct /\ SessionSent' = SessionSent
      BY <2>0, <2>3 DEF SessionAct, SessionSent, IInv, TypeOK
    <3> QED  BY <2>3, <3>1 DEF Session!vars
  <2> QED  BY <1>2, <2>1, <2>2, <2>3 DEF IssueAction
<1>3. ASSUME NEW c \in Callers, ReadStatus(c) PROVE Session!Next
  <2>1. StatusOf(c) \in Session!Replies /\ Fail("Internal") \in Session!Replies
    BY DEF StatusOf, Fail, Session!Replies
  <2>2. pc[c] # "idle" /\ UNCHANGED <<state, role>>
    BY <1>3 DEF ReadStatus
  <2>3. Return(c, StatusOf(c)) \/ Return(c, Fail("Internal"))
    BY <1>3 DEF ReadStatus
  <2> QED  BY <2>1, <2>2, <2>3, ReturnRefines DEF Session!Next
<1>4. CASE ArrayProgress
  <2>1. UNCHANGED <<SessionAct, SessionSent>>
    BY <1>4 DEF ArrayProgress, SessionAct, SessionSent
  <2> QED  BY <1>4, <2>1 DEF ArrayProgress, Session!Complete, Session!Next
<1>5. CASE ArrayFault
  <2>1. UNCHANGED <<SessionAct, SessionSent>>
    BY <1>5 DEF ArrayFault, SessionAct, SessionSent
  <2> QED  BY <1>5, <2>1 DEF ArrayFault, Session!Fault, Session!Next
<1>6. CASE UNCHANGED vars
  BY <1>6 DEF vars, Session!vars, SessionAct, SessionSent
<1> QED  BY <1>1, <1>2, <1>3, <1>4, <1>5, <1>6 DEF Next

\* Service.ExecuteAction, its helpers and the array implement
\* ReplicationSession for every set of callers: a call sends at most the
\* one action its request names, and answers the status the session has
\* when GetStorageProtectionGroupStatus reads it, or an error.
THEOREM Refinement == Spec => ImplementsReplicationSession
<1>1. Init => Session!Init
  BY DEF Init, Session!Init, SessionAct, SessionSent, NoResp, Session!NoResp, Session!NoAct
<1> QED  BY <1>1, StepRefines, IInvHolds, PTL DEF Spec, ImplementsReplicationSession,
            Session!Spec

=============================================================================
