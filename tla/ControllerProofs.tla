-------------------------- MODULE ControllerProofs ----------------------------
(***************************************************************************)
(* The controller's safety properties for every set of agents, sandboxes,  *)
(* streams and calls, and every capacity and requirement: the types, the   *)
(* invariants about streams and calls, those about the tables and what is  *)
(* on its way to them, the properties, and the refinement of Placement.    *)
(***************************************************************************)
EXTENDS Controller, TLAPS

\* The provers of the leaves that name none, with their time limits in seconds.
USE SMTT(30), Z3T(30), ZenonT(30)

-----------------------------------------------------------------------------
(* The store's transactions preserve the types of the tables. *)

LEMMA AmountArithmetic ==
  /\ Zero \in Amount
  /\ \A x, y \in Amount : Plus(x, y) \in Amount
  /\ \A x, y \in Amount : Fits(y, x) => Minus(x, y) \in Amount
BY DEF Zero, Amount, Plus, Minus, Fits

LEMMA GivenBack ==
  ASSUME NEW x \in Amount, NEW y \in Amount
  PROVE  Plus(Minus(x, y), y) = Plus(x, Zero)
<1>1. \A r \in Resource : x[r] \in Nat /\ y[r] \in Nat
  BY DEF Amount
<1>2. \A r \in Resource : (x[r] - y[r]) + y[r] = x[r] + 0
  BY <1>1
<1> QED BY <1>2 DEF Plus, Minus, Zero

LEMMA RequirementType == \A s \in Sandbox : Requirement[s] \in Amount
BY StoreAssumption DEF Amount

LEMMA NoRowType == NoRow \in SandboxRow
BY AmountArithmetic DEF NoRow, SandboxRow, SandboxState

LEMMA SaveAgentType ==
  ASSUME StoreTypeOK, NEW a \in Agent, SaveAgent(a)
  PROVE  StoreTypeOK'
BY StoreAssumption, Zenon DEF StoreTypeOK, SaveAgent, AgentRow

LEMMA MarkAgentDeadType ==
  ASSUME StoreTypeOK, NEW a \in Agent, MarkAgentDead(a)
  PROVE  StoreTypeOK'
BY ZenonT(60) DEF StoreTypeOK, MarkAgentDead, AgentRow

LEMMA RecordHeartbeatType ==
  ASSUME StoreTypeOK, NEW a \in Agent, RecordHeartbeat(a)
  PROVE  StoreTypeOK'
BY DEF StoreTypeOK, RecordHeartbeat, AgentRow

LEMMA HeartbeatExpiresType ==
  ASSUME StoreTypeOK, NEW a \in Agent, HeartbeatExpires(a)
  PROVE  StoreTypeOK'
BY DEF StoreTypeOK, HeartbeatExpires, AgentRow

LEMMA SaveSandboxStateType ==
  ASSUME StoreTypeOK, NEW s, NEW a \in Agent, NEW st \in SandboxState,
         SaveSandboxState(s, a, st)
  PROVE  StoreTypeOK'
BY AmountArithmetic, ZenonT(60) DEF StoreTypeOK, SaveSandboxState, SandboxRow

LEMMA TryAssignSandboxType ==
  ASSUME StoreTypeOK, NEW a \in Agent, NEW s \in Sandbox, TryAssignSandbox(a, s)
  PROVE  StoreTypeOK'
<1>1. Minus(agents[a].avail, Requirement[s]) \in Amount
  BY AmountArithmetic, RequirementType
  DEF StoreTypeOK, TryAssignSandbox, Assignable, AgentRow
<1>2. agents' \in [Agent -> AgentRow]
  BY <1>1 DEF StoreTypeOK, TryAssignSandbox, AgentRow
<1>3. routing' \in [Sandbox -> Agent \cup {NoAgent}]
  BY DEF StoreTypeOK, TryAssignSandbox
<1>4. rows' \in [Sandbox -> SandboxRow]
  BY RequirementType DEF StoreTypeOK, TryAssignSandbox, SandboxRow, SandboxState
<1> QED BY <1>2, <1>3, <1>4 DEF StoreTypeOK

LEMMA ReleaseSandboxType ==
  ASSUME StoreTypeOK, NEW s \in Sandbox, ReleaseSandbox(s)
  PROVE  StoreTypeOK'
<1>1. CASE rows[s].agent = NoAgent
  BY <1>1 DEF StoreTypeOK, ReleaseSandbox, store
<1>2. CASE rows[s].agent # NoAgent
  <2> DEFINE a == rows[s].agent
  <2>1. a \in Agent /\ rows[s].req \in Amount
    BY <1>2 DEF StoreTypeOK, SandboxRow
  <2>2. Plus(agents[a].avail, rows[s].req) \in Amount
    BY <2>1, AmountArithmetic DEF StoreTypeOK, AgentRow
  <2>3. agents' \in [Agent -> AgentRow]
    BY <1>2, <2>1, <2>2 DEF StoreTypeOK, ReleaseSandbox, AgentRow
  <2>4. routing' \in [Sandbox -> Agent \cup {NoAgent}] /\ rows' \in [Sandbox -> SandboxRow]
    BY <1>2, NoRowType DEF StoreTypeOK, ReleaseSandbox
  <2> QED BY <2>3, <2>4 DEF StoreTypeOK
<1> QED BY <1>1, <1>2

-----------------------------------------------------------------------------
(* Type correctness, one lemma per actor. *)

LEMMA WithoutType ==
  ASSUME NEW S, NEW q \in Seq(S), NEW i \in DOMAIN q
  PROVE  Without(q, i) \in Seq(S)
BY DEF Without

LEMMA AgentStepType ==
  ASSUME TypeOK, NEW st \in Stream, AgentStep(st)
  PROVE  TypeOK'
<1> USE DEF TypeOK, StoreTypeOK, store, opVars
<1>1. CASE AgentDial(st)
  BY <1>1 DEF AgentDial
<1>2. CASE AgentGreeted(st)
  BY <1>2 DEF AgentGreeted
<1>3. CASE AgentGone(st)
  BY <1>3 DEF AgentGone
<1>4. ASSUME NEW i \in DOMAIN out[st], NEW result \in SandboxState, AgentRuns(st, i, result)
      PROVE  TypeOK'
  <2>1. out' \in [Stream -> Seq(Command)]
    BY <1>4, WithoutType DEF AgentRuns
  <2>2. out[st][i] \in Command
    OBVIOUS
  <2>3. [sandbox |-> out[st][i].sandbox, state |-> result] \in Report
    BY <2>2 DEF Command, Report
  <2>4. inbox' \in [Stream -> Seq(Report)]
    BY <1>4, <2>3 DEF AgentRuns
  <2> QED BY <1>4, <2>1, <2>4 DEF AgentRuns
<1> QED BY <1>1, <1>2, <1>3, <1>4 DEF AgentStep

LEMMA StreamStepType ==
  ASSUME TypeOK, SavingReports, NEW st \in Stream, StreamStep(st)
  PROVE  TypeOK'
<1>a. Dialer[st] \in Agent
  BY ControllerAssumption
<1>b. \A k \in {"accept", "reject"} : [kind |-> k, sandbox |-> NoSandbox] \in Command
  BY DEF Command
<1> USE DEF TypeOK, opVars, streamVars, Enter
<1>1. CASE RegisterSave(st)
  BY <1>1, <1>a, SaveAgentType DEF RegisterSave
<1>2. CASE RegisterReject(st)
  BY <1>2, <1>b DEF RegisterReject, StoreTypeOK, store
<1>3. CASE RegisterConnect(st)
  BY <1>3, <1>a DEF RegisterConnect, Connect, StoreTypeOK, store
<1>4. CASE RegisterRespond(st)
  <2>1. StoreTypeOK'
    BY <1>4, <1>a, RecordHeartbeatType DEF RegisterRespond, StoreTypeOK, store
  <2> QED BY <1>4, <1>b, <2>1 DEF RegisterRespond
<1>5. CASE Heartbeat(st)
  BY <1>5, <1>a, RecordHeartbeatType DEF Heartbeat
<1>6. CASE HeartbeatFails(st)
  BY <1>6 DEF HeartbeatFails, StoreTypeOK, store
<1>7. CASE StatusCheck(st)
  BY <1>7 DEF StatusCheck, StoreTypeOK, store
<1>8. CASE StatusDrop(st)
  BY <1>8 DEF StatusDrop, StoreTypeOK, store
<1>9. CASE StatusSave(st)
  <2>1. Head(inbox[st]) \in Report /\ Tail(inbox[st]) \in Seq(Report)
    BY <1>9 DEF StatusSave, SavingReports
  <2>2. StoreTypeOK'
    BY <1>9, <1>a, <2>1, SaveSandboxStateType, Zenon DEF StatusSave, Report, StoreTypeOK, store
  <2> QED BY <1>9, <2>1, <2>2 DEF StatusSave
<1>10. CASE StreamEnd(st)
  <2>1. conn' \in [Agent -> Stream \cup {NoStream}]
    BY <1>10, <1>a, Zenon DEF StreamEnd, Disconnect
  <2>2. StoreTypeOK'
    BY <1>10 DEF StreamEnd, StoreTypeOK, store
  <2>3. phase' \in [Stream -> {"unused", "opened", "saved", "connected", "serving",
                              "saving", "rejected", "closing", "ended"}]
    BY <1>10 DEF StreamEnd
  <2>4. inbox' \in [Stream -> Seq(Report)]
    BY <1>10 DEF StreamEnd
  <2> QED BY <1>10, <2>1, <2>2, <2>3, <2>4 DEF StreamEnd
<1> QED BY <1>1, <1>2, <1>3, <1>4, <1>5, <1>6, <1>7, <1>8, <1>9, <1>10, ZenonT(30) DEF StreamStep

LEMMA CandidatesType ==
  ASSUME NEW s \in Sandbox, NEW q \in CandidateOrders(s)
  PROVE  q \in Seq(Agent)
<1> DEFINE C == {a \in Agent : Assignable(a, s)}
<1>2. Cardinality(C) \in Nat
  BY AgentsAreCounted
<1>3. q \in [1..Cardinality(C) -> C]
  BY Zenon DEF CandidateOrders
<1>4. C \subseteq Agent
  OBVIOUS
<1> HIDE DEF C
<1>5. q \in [1..Cardinality(C) -> Agent]
  BY <1>3, <1>4
<1> QED BY <1>2, <1>5

\* The shapes a call's record takes.
LEMMA IdleType == Idle \in OpRecord /\ Done \in OpRecord
<1>1. << >> \in Seq(Agent)
  OBVIOUS
<1>2. Idle \in OpRecord
  BY <1>1 DEF Idle, OpRecord
<1>3. Done \in OpRecord
  BY <1>2 DEF Done, OpRecord
<1> QED BY <1>2, <1>3

LEMMA DeliveredType ==
  ASSUME TypeOK, NEW a \in Agent, NEW k \in {"create", "delete", "pause", "unpause"},
         NEW s \in Sandbox, Delivered(a, k, s)
  PROVE  out' \in [Stream -> Seq(Command)]
<1>1. [kind |-> k, sandbox |-> s] \in Command
  BY DEF Command
<1> QED BY <1>1 DEF TypeOK, Delivered

LEMMA GotoType ==
  ASSUME TypeOK, NEW o \in Op,
         NEW pc \in {"send", "rollback", "record", "release"}, Goto(o, pc)
  PROVE  ops' \in [Op -> OpRecord]
<1>1. ops[o] \in OpRecord
  BY DEF TypeOK
<1>2. [ops[o] EXCEPT !.pc = pc] \in OpRecord
  BY <1>1 DEF OpRecord
<1> QED BY <1>2 DEF TypeOK, Goto

LEMMA ReturnType ==
  ASSUME TypeOK, NEW o \in Op, NEW f \in {"created", "refused"}, Return(o, f)
  PROVE  /\ ops' \in [Op -> OpRecord]
         /\ calls' \in [Sandbox -> {"unissued", "pending", "created", "refused", "lost"}]
<1>1. ops' \in [Op -> OpRecord]
  BY IdleType DEF TypeOK, Return
<1>2. calls' \in [Sandbox -> {"unissued", "pending", "created", "refused", "lost"}]
  BY Zenon DEF TypeOK, Return
<1> QED BY <1>1, <1>2

LEMMA RequestType ==
  ASSUME TypeOK, NEW o \in Op, Request(o)
  PROVE  TypeOK'
<1> USE DEF TypeOK, StoreTypeOK, store, streamVars
<1>1. ASSUME NEW s \in Sandbox, CreateBegin(o, s)
      PROVE  TypeOK'
  <2>1. PICK q \in CandidateOrders(s) :
          ops' = [ops EXCEPT ![o] = [kind |-> "create", pc |-> "try", sandbox |-> s,
                                     agent |-> NoAgent, cands |-> q]]
    BY <1>1, Zenon DEF CreateBegin
  <2>2. ops' \in [Op -> OpRecord]
    BY <2>1, CandidatesType DEF OpRecord
  <2> QED BY <1>1, <2>2 DEF CreateBegin
<1>2. ASSUME NEW s \in Sandbox, NEW k \in {"delete", "pause", "unpause"},
             NEW pc \in {"send", "check"}, Find(o, k, s, pc)
      PROVE  TypeOK'
  <2>1. ops' \in [Op -> OpRecord]
    BY <1>2 DEF Find, OpRecord
  <2> QED BY <1>2, <2>1, ZenonT(60) DEF Find
<1> QED BY <1>1, <1>2, ZenonT(30) DEF Request, DeleteFind, PauseFind, UnpauseFind

LEMMA CallStepType ==
  ASSUME TypeOK, OpsFormed, NEW o \in Op, CallStep(o)
  PROVE  TypeOK'
<1>a. ops[o] \in OpRecord
  BY DEF TypeOK
<1>b. ASSUME ops[o].pc \notin {"idle", "done"}
      PROVE  /\ ops[o].sandbox \in Sandbox
             /\ ops[o].pc # "try" => ops[o].agent \in Agent
  BY <1>b DEF OpsFormed, Idle, Done
<1>c. ASSUME UNCHANGED store PROVE StoreTypeOK'
  BY <1>c DEF TypeOK, StoreTypeOK, store
<1>d. ASSUME ops' = [ops EXCEPT ![o] = Done] PROVE ops' \in [Op -> OpRecord]
  BY <1>d, IdleType DEF TypeOK
<1> USE DEF streamVars
<1>1. CASE CreateReserve(o)
  <2>1. Head(ops[o].cands) \in Agent
    BY <1>1, <1>a DEF CreateReserve, OpRecord
  <2>2. StoreTypeOK'
    BY <1>1, <1>b, <2>1, TryAssignSandboxType DEF CreateReserve, TypeOK
  <2>3. [ops[o] EXCEPT !.pc = "send", !.agent = Head(ops[o].cands), !.cands = << >>]
          \in OpRecord
    <3>1. << >> \in Seq(Agent)
      OBVIOUS
    <3> QED BY <1>a, <2>1, <3>1, Zenon DEF OpRecord
  <2>4. ops' \in [Op -> OpRecord]
    BY <1>1, <2>3 DEF CreateReserve, TypeOK
  <2> QED BY <1>1, <2>2, <2>4 DEF CreateReserve, TypeOK
<1>2. CASE CreateSkip(o)
  <2>1. [ops[o] EXCEPT !.cands = Tail(ops[o].cands)] \in OpRecord
    <3>1. Tail(ops[o].cands) \in Seq(Agent)
      BY <1>2, <1>a DEF CreateSkip, OpRecord
    <3> QED BY <1>a, <3>1, ZenonT(60) DEF OpRecord
  <2>2. ops' \in [Op -> OpRecord]
    BY <1>2, <2>1, ZenonT(30) DEF CreateSkip, TypeOK
  <2> QED BY <1>2, <1>c, <2>2 DEF CreateSkip, TypeOK
<1>3. CASE CreateRefuse(o)
  BY <1>3, <1>c, ReturnType DEF CreateRefuse, TypeOK
<1>4. CASE CreateSend(o)
  <2>1. out' \in [Stream -> Seq(Command)]
    BY <1>4, <1>b, DeliveredType, ZenonT(30) DEF CreateSend, TypeOK
  <2>2. ops' \in [Op -> OpRecord]
    BY <1>4, GotoType DEF CreateSend
  <2> QED BY <1>4, <1>c, <2>1, <2>2 DEF CreateSend, TypeOK
<1>5. CASE CreateRollback(o)
  <2>1. StoreTypeOK'
    BY <1>5, <1>b, <1>c, ReleaseSandboxType, ZenonT(30) DEF CreateRollback, TypeOK
  <2> QED BY <1>5, <2>1, ReturnType DEF CreateRollback, TypeOK
<1>6. CASE CreateRecord(o)
  <2>1. StoreTypeOK'
    BY <1>6, <1>b, <1>c, SaveSandboxStateType DEF CreateRecord, TypeOK, SandboxState
  <2> QED BY <1>6, <2>1, ReturnType DEF CreateRecord, TypeOK
<1>7. CASE DeleteRelease(o)
  <2>1. StoreTypeOK'
    BY <1>7, <1>b, <1>c, ReleaseSandboxType DEF DeleteRelease, TypeOK
  <2> QED BY <1>7, <1>d, <2>1 DEF DeleteRelease, TypeOK
<1>8. ASSUME NEW k \in {"delete", "pause", "unpause"}, NEW pc \in {"release", "record"},
             Send(o, k, pc)
      PROVE  TypeOK'
  <2>1. out' \in [Stream -> Seq(Command)]
    BY <1>8, <1>b, DeliveredType DEF Send, TypeOK
  <2>2. ops' \in [Op -> OpRecord]
    BY <1>8, <1>d, GotoType, ZenonT(60) DEF Send
  <2> QED BY <1>8, <1>c, <2>1, <2>2, ZenonT(30) DEF Send, TypeOK
<1>9. ASSUME NEW k, NEW states, Check(o, k, states)
      PROVE  TypeOK'
  <2>1. ops' \in [Op -> OpRecord]
    BY <1>9, <1>d, GotoType, ZenonT(30) DEF Check
  <2> QED BY <1>9, <1>c, <2>1, ZenonT(60) DEF Check, TypeOK
<1>10. ASSUME NEW k, NEW state \in {"pausing", "unpausing"}, Record(o, k, state)
       PROVE  TypeOK'
  <2>1. StoreTypeOK'
    BY <1>10, <1>b, <1>c, SaveSandboxStateType DEF Record, TypeOK, SandboxState
  <2> QED BY <1>10, <1>d, <2>1 DEF Record, TypeOK
<1> QED BY <1>1, <1>2, <1>3, <1>4, <1>5, <1>6, <1>7, <1>8, <1>9, <1>10, ZenonT(30)
        DEF CallStep, CreateStep, DeleteSend, PauseCheck, PauseSend, PauseRecord,
            UnpauseCheck, UnpauseSend, UnpauseRecord

LEMMA TypeStep ==
  ASSUME TypeOK, SavingReports, OpsFormed, [Next]_vars
  PROVE  TypeOK'
<1>0. CASE UNCHANGED vars
  BY <1>0 DEF vars, store, TypeOK, StoreTypeOK
<1>1. ASSUME NEW st \in Stream, AgentStep(st) \/ StreamStep(st)
      PROVE  TypeOK'
  BY <1>1, AgentStepType, StreamStepType
<1>2. ASSUME NEW o \in Op, Request(o) \/ CallStep(o)
      PROVE  TypeOK'
  BY <1>2, RequestType, CallStepType, ZenonT(30)
<1>3. ASSUME NEW o \in Op, Cancel(o)
      PROVE  TypeOK'
  <2>1. ops' \in [Op -> OpRecord]
    BY <1>3, IdleType DEF Cancel, TypeOK
  <2>2. calls' \in [Sandbox -> {"unissued", "pending", "created", "refused", "lost"}]
    BY <1>3, Zenon DEF Cancel, TypeOK
  <2> QED BY <1>3, <2>1, <2>2 DEF Cancel, TypeOK, StoreTypeOK, store, streamVars
<1>4. CASE SweepStep
  <2>1. CASE SweepQuery
    BY <2>1 DEF SweepQuery, DeadAgents, TypeOK, StoreTypeOK, store, streamVars, opVars
  <2>2. CASE SweepDrop
    BY <2>2, Zenon DEF SweepDrop, Disconnect, TypeOK, StoreTypeOK, store, streamVars, opVars
  <2>3. ASSUME NEW a \in Agent, SweepMark(a) PROVE TypeOK'
    <3>1. StoreTypeOK'
      BY <2>3, MarkAgentDeadType DEF SweepMark, TypeOK
    <3> QED BY <2>3, <3>1, ZenonT(30) DEF SweepMark, TypeOK, streamVars, opVars
  <2> QED BY <1>4, <2>1, <2>2, <2>3 DEF SweepStep
<1>5. ASSUME NEW a \in Agent, SweepMarkFails(a)
      PROVE  TypeOK'
  BY <1>5, Zenon DEF SweepMarkFails, TypeOK, StoreTypeOK, store, streamVars, opVars
<1>6. ASSUME NEW a \in Agent, Expire(a)
      PROVE  TypeOK'
  BY <1>6, HeartbeatExpiresType, ZenonT(60) DEF Expire, TypeOK, streamVars, opVars
<1>7. CASE ControllerRestart
  <2>1. /\ conn' \in [Agent -> Stream \cup {NoStream}]
        /\ phase' \in [Stream -> {"unused", "opened", "saved", "connected", "serving",
                                  "saving", "rejected", "closing", "ended"}]
        /\ inbox' \in [Stream -> Seq(Report)]
    BY <1>7 DEF ControllerRestart, TypeOK
  <2>2. ops' \in [Op -> OpRecord]
    BY <1>7, IdleType, ZenonT(60) DEF ControllerRestart, TypeOK
  <2>3. calls' \in [Sandbox -> {"unissued", "pending", "created", "refused", "lost"}]
    BY <1>7 DEF ControllerRestart, TypeOK
  <2>4. sweep' \in [todo : SUBSET Agent, drop : Agent \cup {NoAgent}]
    BY <1>7 DEF ControllerRestart
  <2> QED BY <1>7, <2>1, <2>2, <2>3, <2>4, ZenonT(30) DEF ControllerRestart, TypeOK, StoreTypeOK, store
<1> QED BY <1>0, <1>1, <1>2, <1>3, <1>4, <1>5, <1>6, <1>7, ZenonT(30) DEF Next

-----------------------------------------------------------------------------
(* What each actor leaves alone. *)

LEMMA AgentFrame ==
  ASSUME NEW st \in Stream, AgentStep(st)
  PROVE  UNCHANGED <<store, conn, opVars, sweep>>
BY Zenon DEF AgentStep, AgentDial, AgentGreeted, AgentGone, AgentRuns

LEMMA StreamFrame ==
  ASSUME NEW st \in Stream, StreamStep(st)
  PROVE  UNCHANGED <<client, opVars, sweep>>
BY Zenon DEF StreamStep, RegisterSave, RegisterReject, RegisterConnect, RegisterRespond,
       Heartbeat, HeartbeatFails, StatusCheck, StatusDrop, StatusSave, StreamEnd, streamVars

LEMMA RequestFrame ==
  ASSUME NEW o \in Op, Request(o)
  PROVE  UNCHANGED <<store, conn, streamVars, sweep>>
BY Zenon DEF Request, CreateBegin, DeleteFind, PauseFind, UnpauseFind, Find

LEMMA CallFrame ==
  ASSUME NEW o \in Op, CallStep(o)
  PROVE  UNCHANGED <<conn, phase, client, inbox, sweep>>
BY Zenon DEF CallStep, CreateStep, CreateReserve, CreateSkip, CreateRefuse, CreateSend,
       CreateRollback, CreateRecord, DeleteSend, DeleteRelease, PauseCheck, PauseSend,
       PauseRecord, UnpauseCheck, UnpauseSend, UnpauseRecord, Check, Send, Record, streamVars

LEMMA SweepFrame ==
  ASSUME SweepStep \/ \E a \in Agent : SweepMarkFails(a) \/ Expire(a)
  PROVE  UNCHANGED <<streamVars, opVars>>
BY ZenonT(60) DEF SweepStep, SweepQuery, SweepMark, SweepMarkFails, SweepDrop, Expire

-----------------------------------------------------------------------------
(* The invariants about streams. *)

LEMMA SavingReportsStep ==
  ASSUME TypeOK, SavingReports, [Next]_vars
  PROVE  SavingReports'
<1> USE DEF SavingReports
<1>0. CASE UNCHANGED <<phase, inbox>>
  BY <1>0
<1>1. ASSUME NEW st \in Stream, AgentStep(st)
      PROVE  SavingReports'
  <2>1. CASE AgentDial(st)
    BY <2>1 DEF AgentDial, TypeOK
  <2>2. CASE AgentGreeted(st) \/ AgentGone(st)
    BY <2>2 DEF AgentGreeted, AgentGone
  <2>3. ASSUME NEW i \in DOMAIN out[st], NEW result \in SandboxState,
               AgentRuns(st, i, result)
        PROVE  SavingReports'
    <3> DEFINE report == [sandbox |-> out[st][i].sandbox, state |-> result]
    <3>1. /\ phase' = phase
          /\ inbox' = inbox \/ inbox' = [inbox EXCEPT ![st] = Append(inbox[st], report)]
      BY <2>3 DEF AgentRuns
    <3> HIDE DEF report
    <3>2. Append(inbox[st], report) # << >>
      <4>1. Len(inbox[st]) \in Nat
        BY DEF TypeOK
      <4>2. Len(Append(inbox[st], report)) = Len(inbox[st]) + 1
        BY DEF TypeOK
      <4> QED BY <4>1, <4>2
    <3> QED BY <3>1, <3>2, ZenonT(60) DEF TypeOK
  <2> QED BY <1>1, <2>1, <2>2, <2>3 DEF AgentStep
<1>2. ASSUME NEW st \in Stream, StreamStep(st)
      PROVE  SavingReports'
  BY <1>2 DEF StreamStep, RegisterSave, RegisterReject, RegisterConnect, RegisterRespond,
              Heartbeat, HeartbeatFails, StatusCheck, StatusDrop, StatusSave, StreamEnd,
              Enter, streamVars, TypeOK
<1>3. CASE ControllerRestart
  BY <1>3 DEF ControllerRestart, TypeOK
<1>4. ASSUME NEW o \in Op, Request(o) \/ CallStep(o) \/ Cancel(o)
      PROVE  UNCHANGED <<phase, inbox>>
  BY <1>4, RequestFrame, CallFrame, Zenon DEF Cancel, streamVars
<1> QED BY <1>0, <1>1, <1>2, <1>3, <1>4, SweepFrame DEF Next, vars, streamVars

LEMMA ConnectionsLiveStep ==
  ASSUME TypeOK, ConnectionsLive, [Next]_vars
  PROVE  ConnectionsLive'
<1> USE DEF ConnectionsLive
<1>0. CASE UNCHANGED <<phase, conn>>
  BY <1>0
<1>1. ASSUME NEW st \in Stream, AgentStep(st)
      PROVE  ConnectionsLive'
  <2>1. UNCHANGED conn
    BY <1>1, AgentFrame
  <2>2. UNCHANGED phase \/ (phase[st] = "unused" /\ phase' = [phase EXCEPT ![st] = "opened"])
    BY <1>1, Zenon DEF AgentStep, AgentDial, AgentGreeted, AgentGone, AgentRuns
  <2> QED BY <2>1, <2>2 DEF TypeOK
<1>2. ASSUME NEW st \in Stream, StreamStep(st)
      PROVE  ConnectionsLive'
  <2>1. CASE RegisterConnect(st)
    BY <2>1, ControllerAssumption DEF RegisterConnect, Connect, Enter, TypeOK
  <2>2. CASE StreamEnd(st)
    BY <2>2, ControllerAssumption DEF StreamEnd, Disconnect, TypeOK
  <2>3. CASE ~RegisterConnect(st) /\ ~StreamEnd(st)
    <3>1. /\ UNCHANGED conn
          /\ \/ UNCHANGED phase
             \/ \E from \in {"opened", "connected", "serving", "saving"},
                  to \in {"saved", "rejected", "serving", "closing", "saving"} :
                  Enter(st, from, to) /\ (from = "opened" \/ to \in {"serving", "closing", "saving"})
      BY <1>2, <2>3, Zenon DEF StreamStep, RegisterSave, RegisterReject, RegisterRespond, Heartbeat,
              HeartbeatFails, StatusCheck, StatusDrop, StatusSave, streamVars
    <3>2. CASE UNCHANGED phase
      BY <3>1, <3>2
    <3>3. ASSUME NEW from \in {"opened", "connected", "serving", "saving"},
                 NEW to \in {"saved", "rejected", "serving", "closing", "saving"},
                 Enter(st, from, to), from = "opened" \/ to \in {"serving", "closing", "saving"}
          PROVE  ConnectionsLive'
      BY <3>1, <3>3 DEF Enter, TypeOK
    <3> QED BY <3>1, <3>2, <3>3
  <2> QED BY <2>1, <2>2, <2>3, ZenonT(60)
<1>3. CASE ControllerRestart
  BY <1>3 DEF ControllerRestart, TypeOK
<1>4. ASSUME NEW o \in Op, Request(o) \/ CallStep(o) \/ Cancel(o)
      PROVE  UNCHANGED <<phase, conn>>
  BY <1>4, RequestFrame, CallFrame, Zenon DEF Cancel, streamVars
<1>5. CASE SweepDrop
  BY <1>5 DEF SweepDrop, Disconnect, streamVars, TypeOK
<1>6. ASSUME SweepQuery \/ \E a \in Agent : SweepMark(a) \/ SweepMarkFails(a) \/ Expire(a)
      PROVE  UNCHANGED <<phase, conn>>
  BY <1>6 DEF SweepQuery, SweepMark, SweepMarkFails, Expire, streamVars
<1> QED BY <1>0, <1>1, <1>2, <1>3, <1>4, <1>5, <1>6, Zenon DEF Next, SweepStep, vars

-----------------------------------------------------------------------------
(* The invariants about calls. *)

LEMMA OpsFormedStep ==
  ASSUME TypeOK, OpsFormed, [Next]_vars
  PROVE  OpsFormed'
<1>0. ASSUME UNCHANGED opVars PROVE OpsFormed'
  BY <1>0, ZenonT(60) DEF OpsFormed, opVars
\* Calls already issued stay issued, so the other calls are not disturbed.
<1>a. ASSUME NEW o \in Op, NEW r, ops' = [ops EXCEPT ![o] = r],
             \A s \in Sandbox : calls[s] # "unissued" => calls'[s] # "unissued",
             \/ r \in {Idle, Done}
             \/ /\ r.pc \notin {"idle", "done"}
                /\ r.sandbox \in Sandbox
                /\ calls'[r.sandbox] # "unissued"
                /\ IF r.pc = "try" THEN r.kind = "create" ELSE r.agent \in Agent
      PROVE  OpsFormed'
  BY <1>a DEF OpsFormed, TypeOK
<1>b. ASSUME NEW o \in Op, ops[o].pc \notin {"idle", "done"}
      PROVE  /\ ops[o].sandbox \in Sandbox
             /\ calls[ops[o].sandbox] # "unissued"
             /\ IF ops[o].pc = "try" THEN ops[o].kind = "create" ELSE ops[o].agent \in Agent
  BY <1>b DEF OpsFormed, Idle, Done
<1>1. ASSUME NEW o \in Op, Request(o) PROVE OpsFormed'
  <2>1. ASSUME NEW s \in Sandbox, CreateBegin(o, s) PROVE OpsFormed'
    BY <2>1, <1>a, Zenon DEF CreateBegin, TypeOK
  <2>2. ASSUME NEW s \in Sandbox, NEW k, NEW pc \in {"send", "check"}, Find(o, k, s, pc)
        PROVE  OpsFormed'
    BY <2>2, <1>a, Zenon DEF Find, TypeOK, StoreTypeOK
  <2> QED BY <1>1, <2>1, <2>2 DEF Request, DeleteFind, PauseFind, UnpauseFind
<1>2. ASSUME NEW o \in Op, NEW pc \in {"send", "rollback", "record", "release"},
             ops[o].pc \notin {"idle", "done", "try"}, Goto(o, pc), UNCHANGED calls
      PROVE  OpsFormed'
  <2> DEFINE r == [ops[o] EXCEPT !.pc = pc]
  <2>1. ops[o] \in OpRecord
    BY DEF TypeOK
  <2>2. r.pc = pc /\ r.sandbox = ops[o].sandbox /\ r.agent = ops[o].agent
    BY <2>1 DEF OpRecord
  <2>3. ops' = [ops EXCEPT ![o] = r]
    BY <1>2 DEF Goto
  <2> HIDE DEF r
  <2> QED BY <1>2, <1>a, <1>b, <2>2, <2>3, Zenon
<1>3. ASSUME NEW o \in Op, ops' = [ops EXCEPT ![o] = Done],
             \/ UNCHANGED calls
             \/ \E f \in {"created", "refused", "lost"} :
                  calls' = [calls EXCEPT ![ops[o].sandbox] = f]
      PROVE  OpsFormed'
  BY <1>3, <1>a, Zenon DEF TypeOK
<1>4. ASSUME NEW o \in Op, CreateReserve(o) PROVE OpsFormed'
  <2> DEFINE r == [ops[o] EXCEPT !.pc = "send", !.agent = Head(ops[o].cands), !.cands = << >>]
  <2>1. ops[o] \in OpRecord
    BY DEF TypeOK
  <2>2. r.pc = "send" /\ r.sandbox = ops[o].sandbox /\ r.agent \in Agent
    BY <1>4, <2>1 DEF CreateReserve, OpRecord
  <2>3. ops' = [ops EXCEPT ![o] = r] /\ UNCHANGED calls
    BY <1>4, Zenon DEF CreateReserve
  <2> HIDE DEF r
  <2>4. ops[o].pc = "try"
    BY <1>4 DEF CreateReserve
  <2> QED BY <1>a, <1>b, <2>2, <2>3, <2>4, Zenon
<1>5. ASSUME NEW o \in Op, CreateSkip(o) PROVE OpsFormed'
  <2> DEFINE r == [ops[o] EXCEPT !.cands = Tail(ops[o].cands)]
  <2>1. ops[o] \in OpRecord
    BY DEF TypeOK
  <2>2. r.pc = "try" /\ r.sandbox = ops[o].sandbox /\ r.kind = ops[o].kind
    BY <1>5, <2>1 DEF CreateSkip, OpRecord
  <2>3. ops' = [ops EXCEPT ![o] = r] /\ UNCHANGED calls
    BY <1>5 DEF CreateSkip
  <2> HIDE DEF r
  <2>4. ops[o].pc = "try"
    BY <1>5 DEF CreateSkip
  <2> QED BY <1>a, <1>b, <2>2, <2>3, <2>4, Zenon
<1>6. ASSUME NEW o \in Op, CallStep(o), ~CreateReserve(o), ~CreateSkip(o) PROVE OpsFormed'
  BY <1>6, <1>2, <1>3, Zenon
  DEF CallStep, CreateStep, CreateRefuse, CreateSend, CreateRollback, CreateRecord,
      DeleteSend, DeleteRelease, PauseCheck, PauseSend, PauseRecord, UnpauseCheck,
      UnpauseSend, UnpauseRecord, Check, Send, Record, Return
<1>7. ASSUME NEW o \in Op, Cancel(o) PROVE OpsFormed'
  BY <1>7, <1>3, Zenon DEF Cancel
<1>8. CASE ControllerRestart
  BY <1>8, Zenon DEF ControllerRestart, OpsFormed
<1> QED BY <1>0, <1>1, <1>4, <1>5, <1>6, <1>7, <1>8, AgentFrame, StreamFrame, SweepFrame, ZenonT(60)
        DEF Next, vars, opVars

-----------------------------------------------------------------------------
(* Fresh sandbox ids: nothing knows of them, and none becomes fresh again. *)

\* A call keeps to its sandbox, and only CreateSkip leaves it at "try".
LEMMA CallEffect ==
  ASSUME TypeOK, OpsFormed, NEW o \in Op, CallStep(o) \/ Cancel(o)
  PROVE  /\ ops[o].pc \notin {"idle", "done"}
         /\ \A p \in Op \ {o} : ops'[p] = ops[p]
         /\ \/ ops'[o] = Done
            \/ /\ ops'[o].sandbox = ops[o].sandbox
               /\ ops'[o].pc = "try" => ops[o].pc = "try"
         /\ \A s \in Sandbox : calls'[s] = "unissued" => calls[s] = "unissued"
         /\ \A s \in Sandbox \ {ops[o].sandbox} : calls'[s] = calls[s]
<1>a. ops \in [Op -> OpRecord] /\ ops[o] \in OpRecord
  BY DEF TypeOK
<1>b. calls \in [Sandbox -> {"unissued", "pending", "created", "refused", "lost"}]
  BY DEF TypeOK
<1>1. ASSUME NEW pc \in {"send", "rollback", "record", "release"}, Goto(o, pc)
      PROVE  /\ \A p \in Op \ {o} : ops'[p] = ops[p]
             /\ ops'[o].sandbox = ops[o].sandbox /\ ops'[o].pc # "try"
  BY <1>1, <1>a DEF Goto, OpRecord
<1>2. ASSUME NEW f \in {"created", "refused"}, Return(o, f)
      PROVE  /\ \A p \in Op \ {o} : ops'[p] = ops[p]
             /\ ops'[o] = Done
             /\ \A s \in Sandbox : calls'[s] = "unissued" => calls[s] = "unissued"
             /\ \A s \in Sandbox \ {ops[o].sandbox} : calls'[s] = calls[s]
  BY <1>2, <1>a, <1>b DEF Return
<1>3. CASE CreateReserve(o)
  BY <1>3, <1>a DEF CreateReserve, OpRecord
<1>4. CASE CreateSkip(o)
  BY <1>4, <1>a, ZenonT(60) DEF CreateSkip, OpRecord
<1>5. CASE CreateRefuse(o) \/ CreateRollback(o) \/ CreateRecord(o)
  BY <1>5, <1>2, ZenonT(60) DEF CreateRefuse, CreateRollback, CreateRecord
<1>6. CASE CreateSend(o)
  BY <1>6, <1>1 DEF CreateSend
<1>7. ASSUME NEW k, NEW pc \in {"release", "record"}, Send(o, k, pc)
      PROVE  /\ ops[o].pc = "send" /\ UNCHANGED calls
             /\ \A p \in Op \ {o} : ops'[p] = ops[p]
             /\ ops'[o] = Done \/ (ops'[o].sandbox = ops[o].sandbox /\ ops'[o].pc # "try")
  BY <1>7, <1>1, <1>a, ZenonT(60) DEF Send
<1>8. ASSUME NEW k, NEW states, Check(o, k, states)
      PROVE  /\ ops[o].pc = "check" /\ UNCHANGED calls
             /\ \A p \in Op \ {o} : ops'[p] = ops[p]
             /\ ops'[o] = Done \/ (ops'[o].sandbox = ops[o].sandbox /\ ops'[o].pc # "try")
  BY <1>8, <1>1, <1>a DEF Check
<1>9. ASSUME DeleteRelease(o) \/ \E k \in {"pause", "unpause"}, x \in {"pausing", "unpausing"} :
               Record(o, k, x)
      PROVE  /\ ops[o].pc \in {"release", "record"} /\ UNCHANGED calls
             /\ \A p \in Op \ {o} : ops'[p] = ops[p]
             /\ ops'[o] = Done
  BY <1>9, <1>a, ZenonT(60) DEF DeleteRelease, Record
<1>10. CASE Cancel(o)
  BY <1>10, <1>a, <1>b, ZenonT(60) DEF Cancel
<1> QED BY <1>3, <1>4, <1>5, <1>6, <1>7, <1>8, <1>9, <1>10, Zenon
        DEF CallStep, CreateStep, DeleteSend, PauseCheck, PauseSend, PauseRecord,
            UnpauseCheck, UnpauseSend, UnpauseRecord

\* A request takes a call from idle to its first step.
LEMMA RequestEffect ==
  ASSUME TypeOK, NEW o \in Op, Request(o)
  PROVE  \E s \in Sandbox :
           /\ ops[o].pc = "idle"
           /\ \A p \in Op \ {o} : ops'[p] = ops[p]
           /\ ops'[o].sandbox = s
           /\ \/ calls[s] = "unissued" /\ ops'[o].pc = "try" /\ calls'[s] = "pending"
              \/ routing[s] # NoAgent /\ ops'[o].pc # "try" /\ calls[s] = "created" /\ UNCHANGED calls
           /\ \A u \in Sandbox \ {s} : calls'[u] = calls[u]
<1>1. ASSUME NEW s \in Sandbox, CreateBegin(o, s)
      PROVE  /\ ops[o].pc = "idle" /\ calls[s] = "unissued"
             /\ \A p \in Op \ {o} : ops'[p] = ops[p]
             /\ ops'[o].sandbox = s /\ ops'[o].pc = "try" /\ calls'[s] = "pending"
             /\ \A u \in Sandbox \ {s} : calls'[u] = calls[u]
  BY <1>1 DEF CreateBegin, TypeOK
<1>2. ASSUME NEW s \in Sandbox, NEW k, NEW pc \in {"send", "check"}, Find(o, k, s, pc)
      PROVE  /\ ops[o].pc = "idle" /\ calls[s] = "created" /\ routing[s] # NoAgent
             /\ \A p \in Op \ {o} : ops'[p] = ops[p]
             /\ ops'[o].sandbox = s /\ ops'[o].pc # "try" /\ UNCHANGED calls
  BY <1>2, ZenonT(30) DEF Find, TypeOK
<1> QED BY <1>1, <1>2, ZenonT(30) DEF Request, DeleteFind, PauseFind, UnpauseFind

LEMMA FreshShrinks ==
  ASSUME TypeOK, OpsFormed, [Next]_vars, NEW s \in Sandbox, Fresh(s)'
  PROVE  Fresh(s)
<1>0. CASE UNCHANGED opVars
  BY <1>0, ZenonT(30) DEF Fresh, opVars
<1>1. ASSUME NEW o \in Op, Request(o) PROVE Fresh(s)
  BY <1>1, RequestEffect DEF Fresh
<1>2. ASSUME NEW o \in Op, CallStep(o) \/ Cancel(o) PROVE Fresh(s)
  BY <1>2, CallEffect DEF Fresh, Done, Idle
<1>3. CASE ControllerRestart
  BY <1>3 DEF ControllerRestart, Fresh, TypeOK, Done, Idle
<1> QED BY <1>0, <1>1, <1>2, <1>3, AgentFrame, StreamFrame, SweepFrame, ZenonT(30) DEF Next, vars, opVars

\* The part of FreshUnknown that speaks of calls.
FreshOps ==
  /\ \A s \in Sandbox : Fresh(s) => \A o \in Op : ops[o].sandbox = s => ops[o].pc = "try"
  /\ \A o, p \in Op :
       ops[o].pc = "try" /\ ops[p].pc = "try" /\ ops[o].sandbox = ops[p].sandbox => o = p

LEMMA FreshOpsStep ==
  ASSUME TypeOK, OpsFormed, RoutedReserved, FreshUnknown, [Next]_vars
  PROVE  FreshOps'
<1>a. FreshOps
  BY DEF FreshUnknown, FreshOps
<1>b. NoSandbox \notin Sandbox
  BY ControllerAssumption
<1>c. Done.sandbox = NoSandbox /\ Done.pc = "done" /\ Idle.sandbox = NoSandbox /\ Idle.pc = "idle"
  BY DEF Done, Idle
<1>0. CASE UNCHANGED opVars
  BY <1>0, <1>a DEF FreshOps, Fresh, opVars
<1>1. ASSUME NEW o \in Op, Request(o) PROVE FreshOps'
  <2>1. PICK s \in Sandbox :
           /\ ops[o].pc = "idle"
           /\ \A p \in Op \ {o} : ops'[p] = ops[p]
           /\ ops'[o].sandbox = s
           /\ \/ calls[s] = "unissued" /\ ops'[o].pc = "try" /\ calls'[s] = "pending"
              \/ routing[s] # NoAgent /\ ops'[o].pc # "try" /\ calls[s] = "created" /\ UNCHANGED calls
           /\ \A u \in Sandbox \ {s} : calls'[u] = calls[u]
    BY <1>1, RequestEffect, ZenonT(30)
  <2>2. CASE calls[s] = "unissued" /\ ops'[o].pc = "try" /\ calls'[s] = "pending"
    <3>1. \A p \in Op : ops[p].sandbox # s
      BY <2>2 DEF OpsFormed, FreshUnknown, Fresh, Idle, Done
    <3>2. \A u \in Sandbox : Fresh(u)' => Fresh(u)
      BY FreshShrinks, ZenonT(60)
    <3>3. \A u \in Sandbox, p \in Op : Fresh(u)' /\ ops'[p].sandbox = u => ops'[p].pc = "try"
      BY <2>1, <2>2, <3>2, <1>a DEF FreshOps
    <3>4. \A p, q \in Op : ops'[p].pc = "try" /\ ops'[q].pc = "try"
            /\ ops'[p].sandbox = ops'[q].sandbox => p = q
      BY <2>1, <2>2, <3>1, <1>a DEF FreshOps
    <3> QED BY <3>3, <3>4 DEF FreshOps
  <2>3. CASE routing[s] # NoAgent /\ ops'[o].pc # "try" /\ calls[s] = "created" /\ UNCHANGED calls
    <3>1. ~Fresh(s)
      BY <2>3 DEF FreshUnknown
    <3>2. \A u \in Sandbox : Fresh(u)' => Fresh(u)
      BY FreshShrinks
    <3>3. ASSUME NEW u \in Sandbox, NEW p \in Op, Fresh(u)', ops'[p].sandbox = u PROVE ops'[p].pc = "try"
      <4>1. Fresh(u) /\ u # s
        BY <3>1, <3>2, <3>3
      <4>2. p # o /\ ops'[p] = ops[p]
        BY <2>1, <3>3, <4>1, ZenonT(60)
      <4> QED BY <1>a, <3>3, <4>1, <4>2 DEF FreshOps
    <3>4. \A p, q \in Op : ops'[p].pc = "try" /\ ops'[q].pc = "try"
            /\ ops'[p].sandbox = ops'[q].sandbox => p = q
      BY <2>1, <2>3, <1>a DEF FreshOps
    <3> QED BY <3>3, <3>4 DEF FreshOps
  <2> QED BY <2>1, <2>2, <2>3, ZenonT(30)
<1>2. ASSUME NEW o \in Op, CallStep(o) \/ Cancel(o) PROVE FreshOps'
  <2>1. /\ ops[o].pc \notin {"idle", "done"}
        /\ \A p \in Op \ {o} : ops'[p] = ops[p]
        /\ \/ ops'[o] = Done
           \/ /\ ops'[o].sandbox = ops[o].sandbox
              /\ ops'[o].pc = "try" => ops[o].pc = "try"
        /\ \A s \in Sandbox : calls'[s] = "unissued" => calls[s] = "unissued"
    BY <1>2, CallEffect
  <2>2. ops[o].sandbox \in Sandbox /\ calls[ops[o].sandbox] # "unissued"
    BY <2>1 DEF OpsFormed, Idle, Done
  <2>3. \A p, q \in Op : ops'[p].pc = "try" /\ ops'[q].pc = "try"
          /\ ops'[p].sandbox = ops'[q].sandbox => p = q
    BY <2>1, <1>a, <1>c DEF FreshOps
  <2>4. ASSUME NEW u \in Sandbox, NEW p \in Op, Fresh(u)', ops'[p].sandbox = u
        PROVE  ops'[p].pc = "try"
    <3>1. Fresh(u)
      BY <2>4, FreshShrinks, ZenonT(60)
    <3>2. CASE p # o
      BY <3>1, <3>2, <2>1, <2>4, <1>a DEF FreshOps
    <3>3. CASE p = o
      <4>1. ops[o].sandbox = u /\ ops'[o] # Done
        BY <3>3, <2>1, <2>4, <1>b, <1>c, ZenonT(60)
      <4>2. PICK q \in Op : ops'[q].pc = "try" /\ ops'[q].sandbox = u
        BY <2>4, <2>1, <2>2, <4>1 DEF Fresh
      <4>3. CASE q = o
        BY <4>2, <4>3, <3>3, ZenonT(60)
      <4>4. CASE q # o
        <5>1. ops[q].pc = "try" /\ ops[q].sandbox = u /\ ops[o].pc = "try"
          BY <4>1, <4>2, <4>4, <2>1, <3>1, <1>a DEF FreshOps
        <5> QED BY <5>1, <4>1, <4>4, <1>a, ZenonT(60) DEF FreshOps
      <4> QED BY <4>3, <4>4
    <3> QED BY <3>2, <3>3
  <2> QED BY <2>3, <2>4 DEF FreshOps
<1>3. CASE ControllerRestart
  BY <1>3, <1>b, <1>c, ZenonT(60) DEF ControllerRestart, FreshOps
<1> QED BY <1>0, <1>1, <1>2, <1>3, AgentFrame, StreamFrame, SweepFrame, ZenonT(60) DEF Next, vars, opVars

-----------------------------------------------------------------------------
(* The invariants about the tables.  Every step is one transaction or none,  *)
(* an agent is saved only by a registration, a sandbox is placed only while  *)
(* its id is fresh, and its state saved only when it is not.                 *)

Registers(a) ==
  \E st \in Stream : Dialer[st] = a /\ phase[st] = "opened" /\ phase'[st] = "saved"

Transaction ==
  \/ UNCHANGED store
  \/ \E a \in Agent : SaveAgent(a) /\ Registers(a)
  \/ \E a \in Agent : \/ a \in sweep.todo /\ MarkAgentDead(a)
                     \/ RecordHeartbeat(a) \/ HeartbeatExpires(a)
  \/ \E a \in Agent, s \in Sandbox : TryAssignSandbox(a, s) /\ Fresh(s) /\ ~Fresh(s)'
  \/ \E s \in Sandbox : ReleaseSandbox(s)
  \/ \E s \in Sandbox \cup {NoSandbox}, a \in Agent, st \in SandboxState :
       SaveSandboxState(s, a, st) /\ (s \in Sandbox => ~Fresh(s))

LEMMA OneTransaction ==
  ASSUME TypeOK, SavingReports, OpsFormed, FreshUnknown, [Next]_vars
  PROVE  Transaction
<1>1. ASSUME NEW st \in Stream, StreamStep(st) PROVE Transaction
  <2>a. Dialer[st] \in Agent
    BY ControllerAssumption, ZenonT(60)
  <2>1. CASE RegisterSave(st)
    BY <2>1, <2>a DEF RegisterSave, Enter, Transaction, Registers, TypeOK
  <2>2. CASE RegisterRespond(st) \/ Heartbeat(st)
    BY <2>2, <2>a, Zenon DEF RegisterRespond, Heartbeat, Transaction
  <2>3. CASE StatusSave(st)
    <3>1. Head(inbox[st]) \in Report
      BY <2>3 DEF StatusSave, Enter, SavingReports, TypeOK
    <3>2. /\ Head(inbox[st]).state \in SandboxState
          /\ Head(inbox[st]).sandbox \in Sandbox \cup {NoSandbox}
      BY <3>1 DEF Report
    <3>3. 1 \in DOMAIN inbox[st] /\ Head(inbox[st]) = inbox[st][1]
      BY <2>3 DEF StatusSave, Enter, SavingReports, TypeOK
    <3>4. Head(inbox[st]).sandbox \in Sandbox => ~Fresh(Head(inbox[st]).sandbox)
      BY <3>3 DEF FreshUnknown
    <3> QED BY <2>3, <2>a, <3>2, <3>4, Zenon DEF StatusSave, Transaction
  <2>4. CASE ~RegisterSave(st) /\ ~RegisterRespond(st) /\ ~Heartbeat(st) /\ ~StatusSave(st)
    BY <1>1, <2>4, Zenon DEF StreamStep, RegisterReject, RegisterConnect, HeartbeatFails,
                      StatusCheck, StatusDrop, StreamEnd, Transaction
  <2> QED BY <2>1, <2>2, <2>3, <2>4
<1>2. ASSUME NEW o \in Op, CallStep(o) PROVE Transaction
  <2>a. ops[o] \in OpRecord
    BY DEF TypeOK
  <2>b. ops[o].pc \notin {"idle", "done"} =>
          ops[o].sandbox \in Sandbox /\ (ops[o].pc # "try" => ops[o].agent \in Agent)
    BY DEF OpsFormed, Idle, Done
  <2>c. ops[o].pc = "record" => ~Fresh(ops[o].sandbox)
    BY <2>b, Zenon DEF FreshUnknown
  <2>1. CASE CreateReserve(o)
    <3>1. Head(ops[o].cands) \in Agent
      BY <2>1, <2>a DEF CreateReserve, OpRecord
    <3>2. PICK s \in Sandbox : s = ops[o].sandbox
      BY <2>1, <2>b DEF CreateReserve
    <3>3. Fresh(s) /\ calls[s] # "unissued"
      BY <2>1, <3>2 DEF CreateReserve, Fresh, OpsFormed, Idle, Done
    <3>4. ops'[o].pc = "send" /\ calls' = calls /\ \A p \in Op \ {o} : ops'[p] = ops[p]
      BY <2>1, <2>a DEF CreateReserve, OpRecord, TypeOK
    <3>5. \A p \in Op \ {o} : ~(ops[p].pc = "try" /\ ops[p].sandbox = s)
      BY <2>1, <3>2 DEF CreateReserve, FreshUnknown
    <3>6. ~Fresh(s)'
      BY <3>3, <3>4, <3>5, ZenonT(60) DEF Fresh
    <3> QED BY <2>1, <3>1, <3>2, <3>3, <3>6, ZenonT(30) DEF CreateReserve, Transaction
  <2>2. CASE CreateRollback(o) \/ DeleteRelease(o)
    BY <2>2, <2>b, ZenonT(60) DEF CreateRollback, DeleteRelease, Transaction
  <2>3. CASE CreateRecord(o)
    BY <2>3, <2>b, <2>c, ZenonT(60) DEF CreateRecord, Transaction, SandboxState
  <2>4. ASSUME NEW k, NEW state \in {"pausing", "unpausing"}, Record(o, k, state)
        PROVE  Transaction
    BY <2>4, <2>b, <2>c, ZenonT(60) DEF Record, Transaction, SandboxState
  <2>5. ASSUME CreateSkip(o) \/ CreateRefuse(o) \/ CreateSend(o) PROVE UNCHANGED store
    BY <2>5 DEF CreateSkip, CreateRefuse, CreateSend
  <2>6. ASSUME NEW k, NEW x, Send(o, k, x) \/ Check(o, k, x) PROVE UNCHANGED store
    BY <2>6, Zenon DEF Send, Check
  <2> QED BY <1>2, <2>1, <2>2, <2>3, <2>4, <2>5, <2>6, Zenon
          DEF CallStep, CreateStep, DeleteSend, PauseCheck, PauseSend, PauseRecord,
              UnpauseCheck, UnpauseSend, UnpauseRecord, Transaction
<1>3. ASSUME NEW a \in Agent, SweepMark(a) \/ Expire(a) PROVE Transaction
  BY <1>3 DEF SweepMark, Expire, Transaction
<1>4. ASSUME \/ UNCHANGED vars
             \/ ControllerRestart
             \/ \E o \in Op : Request(o) \/ Cancel(o)
             \/ \E st \in Stream : AgentStep(st)
             \/ SweepQuery \/ SweepDrop \/ \E a \in Agent : SweepMarkFails(a)
      PROVE  UNCHANGED store
  BY <1>4, AgentFrame, RequestFrame
  DEF vars, ControllerRestart, Cancel, SweepQuery, SweepDrop, SweepMarkFails
<1> QED BY <1>1, <1>2, <1>3, <1>4, Zenon DEF Next, SweepStep, Transaction

LEMMA RoutedAgentsActiveStep ==
  ASSUME StoreTypeOK, RoutedAgentsActive, RoutedReserved, Transaction
  PROVE  RoutedAgentsActive'
<1> USE DEF RoutedAgentsActive, Active
<1>1. CASE UNCHANGED store
  BY <1>1 DEF store
<1>2. ASSUME NEW a \in Agent, SaveAgent(a) \/ RecordHeartbeat(a) \/ HeartbeatExpires(a)
      PROVE  RoutedAgentsActive'
  BY <1>2 DEF SaveAgent, RecordHeartbeat, HeartbeatExpires, StoreTypeOK, AgentRow
<1>3. ASSUME NEW a \in Agent, MarkAgentDead(a) PROVE RoutedAgentsActive'
  BY <1>3 DEF MarkAgentDead, StoreTypeOK, AgentRow
<1>4. ASSUME NEW a \in Agent, NEW s \in Sandbox, TryAssignSandbox(a, s)
      PROVE  RoutedAgentsActive'
  <2>1. \A b \in Agent : agents'[b].state = agents[b].state
    BY <1>4 DEF TryAssignSandbox, StoreTypeOK, AgentRow
  <2> QED BY <1>4, <2>1 DEF TryAssignSandbox, Assignable, StoreTypeOK
<1>5. ASSUME NEW s \in Sandbox, ReleaseSandbox(s) PROVE RoutedAgentsActive'
  <2>1. \A b \in Agent : agents'[b].state = agents[b].state
    BY <1>5 DEF ReleaseSandbox, StoreTypeOK, AgentRow, store
  <2> QED BY <1>5, <2>1 DEF ReleaseSandbox, StoreTypeOK, store
<1>6. ASSUME NEW s, NEW a \in Agent, NEW st \in SandboxState, SaveSandboxState(s, a, st)
      PROVE  RoutedAgentsActive'
  BY <1>6 DEF SaveSandboxState
<1> QED BY <1>1, <1>2, <1>3, <1>4, <1>5, <1>6, Zenon DEF Transaction

LEMMA RoutedReservedStep ==
  ASSUME StoreTypeOK, RoutedReserved, Transaction
  PROVE  RoutedReserved'
<1> USE DEF RoutedReserved
<1>1. CASE UNCHANGED store
  BY <1>1 DEF store
<1>2. ASSUME NEW a \in Agent,
             SaveAgent(a) \/ MarkAgentDead(a) \/ RecordHeartbeat(a) \/ HeartbeatExpires(a)
      PROVE  RoutedReserved'
  BY <1>2 DEF SaveAgent, MarkAgentDead, RecordHeartbeat, HeartbeatExpires, StoreTypeOK
<1>3. ASSUME NEW a \in Agent, NEW s \in Sandbox, TryAssignSandbox(a, s)
      PROVE  RoutedReserved'
  BY <1>3 DEF TryAssignSandbox, StoreTypeOK
<1>4. ASSUME NEW s \in Sandbox, ReleaseSandbox(s) PROVE RoutedReserved'
  BY <1>4 DEF ReleaseSandbox, StoreTypeOK, store
<1>5. ASSUME NEW s, NEW a \in Agent, NEW st \in SandboxState, SaveSandboxState(s, a, st)
      PROVE  RoutedReserved'
  <2> SUFFICES ASSUME NEW u \in Sandbox, routing'[u] # NoAgent
               PROVE  rows'[u].agent = routing'[u] /\ rows'[u].req = Requirement[u]
    OBVIOUS
  <2>1. routing'[u] = routing[u] /\ rows[u].agent = routing[u] /\ rows[u].req = Requirement[u]
    BY <1>5, ZenonT(30) DEF SaveSandboxState
  <2>2. rows[u] \in SandboxRow
    BY DEF StoreTypeOK
  <2>3. rows'[u].agent = rows[u].agent /\ rows'[u].req = rows[u].req
    BY <1>5, <2>1, <2>2 DEF SaveSandboxState, StoreTypeOK, SandboxRow
  <2> QED BY <2>1, <2>3, ZenonT(60)
<1> QED BY <1>1, <1>2, <1>3, <1>4, <1>5, Zenon DEF Transaction


\* A fresh id stays out of the tables ...
LEMMA FreshTablesStep ==
  ASSUME TypeOK, OpsFormed, FreshUnknown, [Next]_vars, Transaction, NEW s \in Sandbox, Fresh(s)'
  PROVE  routing'[s] = NoAgent /\ rows'[s] = NoRow
<1>a. Fresh(s)
  BY FreshShrinks
<1>b. routing[s] = NoAgent /\ rows[s] = NoRow
  BY <1>a, Zenon DEF FreshUnknown
<1>c. StoreTypeOK
  BY DEF TypeOK
<1>1. CASE UNCHANGED store
  BY <1>1, <1>b DEF store
<1>2. ASSUME NEW a \in Agent,
             SaveAgent(a) \/ MarkAgentDead(a) \/ RecordHeartbeat(a) \/ HeartbeatExpires(a)
      PROVE  routing'[s] = NoAgent /\ rows'[s] = NoRow
  BY <1>2, <1>b DEF SaveAgent, MarkAgentDead, RecordHeartbeat, HeartbeatExpires
<1>3. ASSUME NEW a \in Agent, NEW u \in Sandbox, TryAssignSandbox(a, u), ~Fresh(u)'
      PROVE  routing'[s] = NoAgent /\ rows'[s] = NoRow
  <2>1. u # s
    BY <1>3
  <2> QED BY <1>3, <1>b, <1>c, <2>1 DEF TryAssignSandbox, StoreTypeOK
<1>4. ASSUME NEW u \in Sandbox, ReleaseSandbox(u)
      PROVE  routing'[s] = NoAgent /\ rows'[s] = NoRow
  BY <1>4, <1>b, <1>c DEF ReleaseSandbox, StoreTypeOK, store
<1>5. ASSUME NEW u \in Sandbox \cup {NoSandbox}, NEW a \in Agent, NEW st \in SandboxState,
             SaveSandboxState(u, a, st), u \in Sandbox => ~Fresh(u)
      PROVE  routing'[s] = NoAgent /\ rows'[s] = NoRow
  <2>1. u # s
    BY <1>5, <1>a
  <2> QED BY <1>5, <1>b, <1>c, <2>1 DEF SaveSandboxState, StoreTypeOK
<1> QED BY <1>1, <1>2, <1>3, <1>4, <1>5, Zenon DEF Transaction

\* ... and out of the channels: a command names the sandbox of the call that
\* sends it, a status that of a command.
LEMMA WithoutElements ==
  ASSUME NEW S, NEW q \in Seq(S), NEW i \in DOMAIN q, NEW j \in DOMAIN Without(q, i)
  PROVE  \E k \in DOMAIN q : Without(q, i)[j] = q[k]
<1>1. Without(q, i) = SubSeq(q, 1, i - 1) \o SubSeq(q, i + 1, Len(q))
  BY DEF Without
<1>2. CASE j < i
  <2>1. Without(q, i)[j] = q[j] /\ j \in DOMAIN q
    BY <1>1, <1>2
  <2> QED BY <2>1, ZenonT(30)
<1>3. CASE ~(j < i)
  <2> DEFINE A == SubSeq(q, 1, i - 1)
             B == SubSeq(q, i + 1, Len(q))
  <2>1. A \in Seq(S) /\ Len(A) = i - 1
    OBVIOUS
  <2>2. B \in Seq(S) /\ Len(B) = Len(q) - i /\ \A k \in 1..Len(B) : B[k] = q[i + k]
    OBVIOUS
  <2> HIDE DEF A, B
  <2>3. Without(q, i) = A \o B
    BY <1>1 DEF A, B
  <2>4. j \in 1..(Len(A) + Len(B))
    BY <2>1, <2>2, <2>3
  <2>5. j > Len(A)
    BY <1>3, <2>1, <2>4
  <2>6. (A \o B)[j] = B[j - Len(A)]
    <3> DEFINE l == Len(A)
               m == Len(B)
    <3>1. l \in Nat /\ m \in Nat
      BY <2>1, <2>2
    <3>2. (A \o B)[j] = IF j \in 1..l THEN A[j] ELSE B[j - l]
      BY <2>1, <2>2, <2>4
    <3>3. j > l /\ j \in 1..(l + m)
      BY <2>4, <2>5
    <3> HIDE DEF l, m
    <3>4. j \notin 1..l
      BY <3>1, <3>3
    <3> QED BY <3>2, <3>4 DEF l
  <2>7. j - Len(A) \in 1..Len(B) /\ i + (j - Len(A)) = j + 1
    BY <2>1, <2>2, <2>4, <2>5
  <2>8. Without(q, i)[j] = q[j + 1]
    BY <2>2, <2>3, <2>6, <2>7, ZenonT(60)
  <2>9. j + 1 \in DOMAIN q
    BY <2>1, <2>2, <2>4, <2>5
  <2> QED BY <2>8, <2>9
<1> QED BY <1>2, <1>3

\* Call o sends a command for its sandbox s to the agent at the end of stream st.
Sends(o, st, s) ==
  /\ ops[o].pc = "send" /\ ops'[o].pc \in {"record", "release"}
  /\ ops[o].sandbox = s /\ ops[o].agent = Dialer[st]

LEMMA CommandOrigin ==
  ASSUME TypeOK, OpsFormed, ConnectionsLive, [Next]_vars, NEW st \in Stream, NEW j \in DOMAIN out'[st]
  PROVE  \/ \E k \in DOMAIN out[st] : out'[st][j] = out[st][k]
         \/ out'[st][j].sandbox = NoSandbox
         \/ \E o \in Op : Sends(o, st, out'[st][j].sandbox)
<1>a. out \in [Stream -> Seq(Command)]
  BY DEF TypeOK
<1>0. CASE UNCHANGED out
  BY <1>0, ZenonT(60)
<1>1. ASSUME NEW t \in Stream, NEW m, out' = [out EXCEPT ![t] = Append(@, m)],
             \/ m.sandbox = NoSandbox
             \/ \E o \in Op : Sends(o, t, m.sandbox)
      PROVE  \/ \E k \in DOMAIN out[st] : out'[st][j] = out[st][k]
             \/ out'[st][j].sandbox = NoSandbox
             \/ \E o \in Op : Sends(o, st, out'[st][j].sandbox)
  <2>1. CASE t # st
    BY <1>1, <2>1, <1>a, ZenonT(60)
  <2>2. CASE t = st
    <3>1. out'[st] = Append(out[st], m)
      BY <1>1, <2>2, <1>a, ZenonT(30)
    <3>2. out'[st][j] = m \/ (j \in DOMAIN out[st] /\ out'[st][j] = out[st][j])
      BY <3>1, <1>a
    <3> QED BY <1>1, <3>2
  <2> QED BY <2>1, <2>2, ZenonT(60)
<1>2. ASSUME NEW t \in Stream, AgentStep(t)
      PROVE  \E k \in DOMAIN out[st] : out'[st][j] = out[st][k]
  <2>1. CASE AgentDial(t)
    BY <2>1, ZenonT(30) DEF AgentDial
  <2>2. CASE AgentGreeted(t)
    <3>1. CASE t # st
      BY <2>2, <3>1, <1>a DEF AgentGreeted
    <3>2. CASE t = st
      <4>1. out'[st] = Tail(out[st]) /\ out[st] # << >>
        BY <2>2, <3>2, <1>a DEF AgentGreeted
      <4>2. j + 1 \in DOMAIN out[st] /\ out'[st][j] = out[st][j + 1]
        BY <4>1, <1>a
      <4> QED BY <4>2
    <3> QED BY <3>1, <3>2, ZenonT(30)
  <2>3. CASE AgentGone(t)
    BY <2>3, <1>a DEF AgentGone
  <2>4. ASSUME NEW i \in DOMAIN out[t], NEW r \in SandboxState, AgentRuns(t, i, r)
        PROVE  \E k \in DOMAIN out[st] : out'[st][j] = out[st][k]
    <3>1. CASE t # st
      BY <2>4, <3>1, <1>a, ZenonT(60) DEF AgentRuns
    <3>2. CASE t = st
      <4>1. out'[st] = Without(out[st], i)
        BY <2>4, <3>2, <1>a DEF AgentRuns
      <4> QED BY <4>1, <3>2, <1>a, WithoutElements
    <3> QED BY <3>1, <3>2, ZenonT(60)
  <2> QED BY <1>2, <2>1, <2>2, <2>3, <2>4, Zenon DEF AgentStep
<1>3. ASSUME NEW t \in Stream, StreamStep(t)
      PROVE  \/ UNCHANGED out
             \/ \E k \in {"accept", "reject"} :
                  out' = [out EXCEPT ![t] = Append(@, [kind |-> k, sandbox |-> NoSandbox])]
  BY <1>3, Zenon DEF StreamStep, RegisterSave, RegisterReject, RegisterConnect, RegisterRespond,
       Heartbeat, HeartbeatFails, StatusCheck, StatusDrop, StatusSave, StreamEnd, streamVars
<1>4. ASSUME NEW o \in Op, CallStep(o)
      PROVE  \/ UNCHANGED out
             \/ \E t \in Stream, k \in {"create", "delete", "pause", "unpause"} :
                  /\ Sends(o, t, ops[o].sandbox)
                  /\ out' = [out EXCEPT ![t] =
                       Append(@, [kind |-> k, sandbox |-> ops[o].sandbox])]
  <2>1. ASSUME NEW k, NEW pc \in {"record", "release"}, ops[o].pc = "send",
               Delivered(ops[o].agent, k, ops[o].sandbox), Goto(o, pc)
        PROVE  \/ UNCHANGED out
               \/ \E t \in Stream :
                    /\ Sends(o, t, ops[o].sandbox)
                    /\ out' = [out EXCEPT ![t] = Append(@, [kind |-> k, sandbox |-> ops[o].sandbox])]
    <3>1. ops[o].agent \in Agent
      BY <2>1 DEF OpsFormed, Idle, Done
    <3>2. conn[ops[o].agent] \in Stream /\ Dialer[conn[ops[o].agent]] = ops[o].agent
      <4>1. conn[ops[o].agent] # NoStream
        BY <2>1, ZenonT(60) DEF Delivered
      <4>2. conn[ops[o].agent] \in Stream
        BY <3>1, <4>1 DEF TypeOK
      <4>3. Dialer[conn[ops[o].agent]] = ops[o].agent
        BY <3>1, <4>1, Zenon DEF ConnectionsLive
      <4> QED BY <4>2, <4>3, ZenonT(60)
    <3>3. ops'[o].pc = pc
      BY <2>1, ZenonT(60) DEF Goto, TypeOK, OpRecord
    <3>4. Sends(o, conn[ops[o].agent], ops[o].sandbox)
      BY <2>1, <3>2, <3>3 DEF Sends
    <3> QED BY <2>1, <3>2, <3>4, Zenon DEF Delivered
  <2>3. CASE CreateSend(o)
    <3>1. UNCHANGED out \/ (Delivered(ops[o].agent, "create", ops[o].sandbox) /\ Goto(o, "record"))
      BY <2>3, ZenonT(60) DEF CreateSend
    <3>2. ops[o].pc = "send"
      BY <2>3 DEF CreateSend
    <3>3. \/ UNCHANGED out
          \/ \E t \in Stream :
               /\ Sends(o, t, ops[o].sandbox)
               /\ out' = [out EXCEPT ![t] = Append(@, [kind |-> "create", sandbox |-> ops[o].sandbox])]
      BY <2>1, <3>1, <3>2, Zenon
    <3> QED BY <3>3, Zenon
  <2>4. ASSUME NEW k \in {"delete", "pause", "unpause"}, NEW pc \in {"record", "release"}, Send(o, k, pc)
        PROVE  \/ UNCHANGED out
               \/ \E t \in Stream :
                    /\ Sends(o, t, ops[o].sandbox)
                    /\ out' = [out EXCEPT ![t] = Append(@, [kind |-> k, sandbox |-> ops[o].sandbox])]
    <3>1. UNCHANGED out \/ (Delivered(ops[o].agent, k, ops[o].sandbox) /\ Goto(o, pc))
      BY <2>4, Zenon DEF Send
    <3>2. ops[o].pc = "send"
      BY <2>4, ZenonT(60) DEF Send
    <3> QED BY <2>1, <2>4, <3>1, <3>2, Zenon
  <2> QED BY <1>4, <2>3, <2>4, Zenon
      DEF CallStep, CreateStep, CreateReserve, CreateSkip, CreateRefuse,
       CreateRollback, CreateRecord, DeleteSend, DeleteRelease, PauseCheck, PauseSend,
       PauseRecord, UnpauseCheck, UnpauseSend, UnpauseRecord, Check, Record, streamVars
<1>5. ASSUME \/ UNCHANGED vars \/ ControllerRestart
             \/ \E o \in Op : Request(o) \/ Cancel(o)
             \/ SweepStep \/ \E a \in Agent : SweepMarkFails(a) \/ Expire(a)
      PROVE  UNCHANGED out
  BY <1>5, RequestFrame, SweepFrame, ZenonT(60) DEF vars, ControllerRestart, Cancel, streamVars
<1>6. ASSUME NEW t \in Stream, StreamStep(t)
      PROVE  \/ \E k \in DOMAIN out[st] : out'[st][j] = out[st][k]
             \/ out'[st][j].sandbox = NoSandbox
             \/ \E o \in Op : Sends(o, st, out'[st][j].sandbox)
  <2>1. CASE UNCHANGED out
    BY <2>1, ZenonT(60)
  <2>2. ASSUME NEW k \in {"accept", "reject"},
               out' = [out EXCEPT ![t] = Append(@, [kind |-> k, sandbox |-> NoSandbox])]
        PROVE  \/ \E i \in DOMAIN out[st] : out'[st][j] = out[st][i]
               \/ out'[st][j].sandbox = NoSandbox
    BY <1>1, <2>2
  <2> QED BY <1>3, <1>6, <2>1, <2>2, ZenonT(60)
<1>7. ASSUME NEW o \in Op, CallStep(o)
      PROVE  \/ \E k \in DOMAIN out[st] : out'[st][j] = out[st][k]
             \/ out'[st][j].sandbox = NoSandbox
             \/ \E p \in Op : Sends(p, st, out'[st][j].sandbox)
  <2>1. CASE UNCHANGED out
    BY <2>1, ZenonT(60)
  <2>2. CASE ~UNCHANGED out
    <3>1. PICK t \in Stream, k \in {"create", "delete", "pause", "unpause"} :
            /\ Sends(o, t, ops[o].sandbox)
            /\ out' = [out EXCEPT ![t] = Append(@, [kind |-> k, sandbox |-> ops[o].sandbox])]
      BY <1>7, <1>4, <2>2, Zenon
    <3> QED BY <1>1, <3>1
  <2> QED BY <2>1, <2>2
<1> QED BY <1>0, <1>2, <1>5, <1>6, <1>7, Zenon DEF Next

LEMMA TailElements ==
  ASSUME NEW S, NEW q \in Seq(S), q # << >>, NEW j \in DOMAIN Tail(q)
  PROVE  j + 1 \in DOMAIN q /\ Tail(q)[j] = q[j + 1]
OBVIOUS

LEMMA TailOfNone ==
  ASSUME NEW S, NEW q \in Seq(S), q = << >>, NEW j \in DOMAIN Tail(q)
  PROVE  FALSE
OBVIOUS

LEMMA ReportOrigin ==
  ASSUME TypeOK, [Next]_vars, NEW st \in Stream, NEW j \in DOMAIN inbox'[st]
  PROVE  \/ \E k \in DOMAIN inbox[st] : inbox'[st][j] = inbox[st][k]
         \/ \E k \in DOMAIN out[st] : inbox'[st][j].sandbox = out[st][k].sandbox
<1>a. inbox \in [Stream -> Seq(Report)]
  BY ZenonT(60) DEF TypeOK
<1>0. CASE UNCHANGED inbox
  BY <1>0
<1>1. ASSUME NEW t \in Stream, StreamStep(t)
      PROVE  \/ UNCHANGED inbox
             \/ inbox[t] # << >> /\ inbox' = [inbox EXCEPT ![t] = Tail(@)]
             \/ phase[t] = "saving" /\ inbox' = [inbox EXCEPT ![t] = Tail(@)]
             \/ inbox' = [inbox EXCEPT ![t] = << >>]
  BY <1>1, Zenon DEF StreamStep, RegisterSave, RegisterReject, RegisterConnect, RegisterRespond,
       Heartbeat, HeartbeatFails, StatusCheck, StatusDrop, StatusSave, StreamEnd, streamVars, Enter
<1>2. ASSUME NEW t \in Stream, inbox' = [inbox EXCEPT ![t] = Tail(@)]
      PROVE  \E k \in DOMAIN inbox[st] : inbox'[st][j] = inbox[st][k]
  <2>1. CASE t # st
    BY <1>2, <2>1, <1>a
  <2>2. CASE t = st
    <3>1. inbox'[st] = Tail(inbox[st])
      BY <1>2, <2>2, <1>a
    <3>2. CASE inbox[st] # << >>
      <4>1. j + 1 \in DOMAIN inbox[st] /\ inbox'[st][j] = inbox[st][j + 1]
        BY <3>1, <3>2, <1>a, TailElements, ZenonT(30)
      <4> QED BY <4>1, Zenon
    <3>3. CASE inbox[st] = << >>
      BY <3>1, <3>3, <1>a, TailOfNone, ZenonT(30)
    <3> QED BY <3>2, <3>3, Zenon
  <2> QED BY <2>1, <2>2
<1>3. ASSUME NEW t \in Stream, inbox' = [inbox EXCEPT ![t] = << >>]
      PROVE  \E k \in DOMAIN inbox[st] : inbox'[st][j] = inbox[st][k]
  BY <1>3, <1>a
<1>4. ASSUME NEW t \in Stream, NEW i \in DOMAIN out[t], NEW r \in SandboxState, AgentRuns(t, i, r)
      PROVE  \/ \E k \in DOMAIN inbox[st] : inbox'[st][j] = inbox[st][k]
             \/ \E k \in DOMAIN out[st] : inbox'[st][j].sandbox = out[st][k].sandbox
  <2> DEFINE m == [sandbox |-> out[t][i].sandbox, state |-> r]
  <2>1. CASE inbox' = inbox \/ t # st
    BY <1>4, <2>1, <1>a, ZenonT(60) DEF AgentRuns
  <2>2. CASE inbox' # inbox /\ t = st
    <3>1. inbox'[st] = Append(inbox[st], m) /\ m.sandbox = out[st][i].sandbox
      BY <1>4, <2>2, <1>a, Zenon DEF AgentRuns
    <3> HIDE DEF m
    <3>2. inbox'[st][j] = m \/ (j \in DOMAIN inbox[st] /\ inbox'[st][j] = inbox[st][j])
      BY <3>1, <1>a
    <3> QED BY <3>1, <3>2, <2>2, <1>4
  <2> QED BY <2>1, <2>2, ZenonT(60)
<1>5. ASSUME NEW t \in Stream, AgentDial(t) \/ AgentGreeted(t) \/ AgentGone(t)
      PROVE  UNCHANGED inbox
  BY <1>5, ZenonT(60) DEF AgentDial, AgentGreeted, AgentGone
<1>6. CASE ControllerRestart
  BY <1>6 DEF ControllerRestart
<1>7. ASSUME \/ UNCHANGED vars
             \/ \E o \in Op : Request(o) \/ CallStep(o) \/ Cancel(o)
             \/ SweepStep \/ \E a \in Agent : SweepMarkFails(a) \/ Expire(a)
      PROVE  UNCHANGED inbox
  BY <1>7, RequestFrame, CallFrame, SweepFrame, ZenonT(60) DEF vars, Cancel, streamVars
<1>8. ASSUME NEW t \in Stream, StreamStep(t)
      PROVE  \E k \in DOMAIN inbox[st] : inbox'[st][j] = inbox[st][k]
  BY <1>8, <1>0, <1>1, <1>2, <1>3, ZenonT(60)
<1> QED BY <1>0, <1>4, <1>5, <1>6, <1>7, <1>8, Zenon DEF Next, AgentStep

LEMMA FreshUnknownStep ==
  ASSUME TypeOK, SavingReports, OpsFormed, RoutedReserved, FreshUnknown, ConnectionsLive, [Next]_vars
  PROVE  FreshUnknown'
<1>1. FreshOps'
  BY FreshOpsStep
<1>2. Transaction
  BY OneTransaction
<1>3. ASSUME NEW s \in Sandbox, Fresh(s)'
      PROVE  routing'[s] = NoAgent /\ rows'[s] = NoRow
  BY <1>2, <1>3, FreshTablesStep, ZenonT(60)
<1>4. ASSUME NEW s \in Sandbox, Fresh(s)', NEW st \in Stream, NEW j \in DOMAIN out'[st]
      PROVE  out'[st][j].sandbox # s
  <2>1. Fresh(s)
    BY <1>4, FreshShrinks, ZenonT(60)
  <2>2. \A o \in Op : ops[o].pc = "send" => ops[o].sandbox # s
    BY <2>1, ZenonT(60) DEF FreshUnknown
  <2>3. \A k \in DOMAIN out[st] : out[st][k].sandbox # s
    BY <2>1 DEF FreshUnknown
  <2>4. s # NoSandbox
    BY ControllerAssumption, ZenonT(60)
  <2> QED BY <2>2, <2>3, <2>4, CommandOrigin DEF Sends
<1>5. ASSUME NEW s \in Sandbox, Fresh(s)', NEW st \in Stream, NEW j \in DOMAIN inbox'[st]
      PROVE  inbox'[st][j].sandbox # s
  <2>1. Fresh(s)
    BY <1>5, FreshShrinks
  <2>2. /\ \A k \in DOMAIN out[st] : out[st][k].sandbox # s
        /\ \A k \in DOMAIN inbox[st] : inbox[st][k].sandbox # s
    BY <2>1 DEF FreshUnknown
  <2> QED BY <2>2, ReportOrigin
<1> QED BY <1>1, <1>3, <1>4, <1>5 DEF FreshUnknown, FreshOps

-----------------------------------------------------------------------------
(* The theorems. *)

LEMMA InitBaseInv == Init => BaseInv
<1> SUFFICES ASSUME Init PROVE BaseInv
  OBVIOUS
<1>1. TypeOK
  <2>1. StoreTypeOK
    <3>1. [state |-> "absent", avail |-> Zero, running |-> 0, seen |-> "fresh"] \in AgentRow
      BY AmountArithmetic DEF AgentRow
    <3> QED BY <3>1, NoRowType, ZenonT(30) DEF Init, StoreInit, StoreTypeOK
  <2>2. out \in [Stream -> Seq(Command)] /\ inbox \in [Stream -> Seq(Report)]
    <3>1. << >> \in Seq(Command) /\ << >> \in Seq(Report)
      OBVIOUS
    <3> QED BY <3>1, Zenon DEF Init
  <2>3. ops \in [Op -> OpRecord] /\ calls \in [Sandbox -> {"unissued", "pending", "created", "refused", "lost"}]
    BY IdleType, Zenon DEF Init
  <2>4. /\ conn \in [Agent -> Stream \cup {NoStream}]
        /\ phase \in [Stream -> {"unused", "opened", "saved", "connected", "serving",
                                 "saving", "rejected", "closing", "ended"}]
        /\ client \in [Stream -> {"none", "waiting", "ready", "gone"}]
        /\ sweep \in [todo : SUBSET Agent, drop : Agent \cup {NoAgent}]
    BY Zenon DEF Init
  <2> QED BY <2>1, <2>2, <2>3, <2>4, Zenon DEF TypeOK
<1>2. SavingReports /\ OpsFormed /\ RoutedAgentsActive /\ RoutedReserved /\ ConnectionsLive
  BY Zenon DEF Init, StoreInit, SavingReports, OpsFormed, RoutedAgentsActive, RoutedReserved,
         ConnectionsLive
<1>3. FreshUnknown
  <2>1. /\ routing = [s \in Sandbox |-> NoAgent] /\ rows = [s \in Sandbox |-> NoRow]
        /\ \A st \in Stream : DOMAIN out[st] = {} /\ DOMAIN inbox[st] = {}
    <3>1. DOMAIN << >> = {}
      OBVIOUS
    <3> QED BY <3>1, Zenon DEF Init, StoreInit
  <2>2. \A o \in Op : ops[o].pc = "idle" /\ ops[o].sandbox = NoSandbox
    BY DEF Init, Idle
  <2>3. NoSandbox \notin Sandbox
    BY ControllerAssumption
  <2> QED BY <2>1, <2>2, <2>3, Zenon DEF FreshUnknown
<1> QED BY <1>1, <1>2, <1>3 DEF BaseInv

LEMMA NextBaseInv == BaseInv /\ [Next]_vars => BaseInv'
<1> SUFFICES ASSUME BaseInv, [Next]_vars PROVE BaseInv'
  OBVIOUS
<1> USE DEF BaseInv
<1>1. TypeOK'
  BY TypeStep
<1>2. SavingReports' /\ ConnectionsLive'
  BY SavingReportsStep, ConnectionsLiveStep
<1>3. OpsFormed'
  BY OpsFormedStep
<1>4. FreshUnknown'
  BY FreshUnknownStep, ZenonT(30)
<1>5. Transaction /\ StoreTypeOK
  BY OneTransaction DEF TypeOK
<1>6. RoutedAgentsActive' /\ RoutedReserved'
  BY <1>5, RoutedAgentsActiveStep, RoutedReservedStep
<1> QED BY <1>1, <1>2, <1>3, <1>4, <1>6

\* The inductive invariant of the tables, the streams and the calls holds in
\* every reachable state.
THEOREM BaseHolds == Spec => []BaseInv
BY InitBaseInv, NextBaseInv, PTL DEF Spec

\* Type correctness of the tables, the streams and the calls.
THEOREM TypeCorrect == Spec => []TypeOK
<1>1. BaseInv => TypeOK
  BY DEF BaseInv
<1> QED BY <1>1, BaseHolds, PTL

\* No routing entry points at an agent that is not active.
THEOREM NoRouteToDeadAgent == Spec => []RoutedAgentsActive
<1>1. BaseInv => RoutedAgentsActive
  BY DEF BaseInv
<1> QED BY <1>1, BaseHolds, PTL

\* A routed sandbox holds exactly the reservation the scheduler made for it.
THEOREM RoutedSandboxReserved == Spec => []RoutedReserved
<1>1. BaseInv => RoutedReserved
  BY DEF BaseInv
<1> QED BY <1>1, BaseHolds, PTL

\* The connection table never refers to a stream whose task has ended.
THEOREM NoEndedConnection == Spec => []ConnectionsLive
<1>1. BaseInv => ConnectionsLive
  BY ZenonT(60) DEF BaseInv
<1> QED BY <1>1, BaseHolds, PTL

-----------------------------------------------------------------------------
(* The refinement.  A step that changes the tables takes no id out of the    *)
(* fresh ones except the one it places; a step that only ends calls retires  *)
(* their ids, none of which is placed.                                       *)

LEMMA SpentStep ==
  ASSUME TypeOK, OpsFormed, FreshUnknown, [Next]_vars
  PROVE  \/ UNCHANGED store
         \/ Spent' = Spent
         \/ \E s \in Sandbox, a \in Agent :
              TryAssignSandbox(a, s) /\ Spent' = Spent \cup {s}
<1>a. NoSandbox \notin Sandbox /\ Done.pc = "done"
  BY ControllerAssumption DEF Done
<1>0. CASE UNCHANGED opVars
  BY <1>0, Zenon DEF Spent, Fresh, opVars
<1>1. ASSUME NEW o \in Op, Request(o) PROVE UNCHANGED store
  BY <1>1, RequestFrame
<1>2. ASSUME NEW o \in Op, CreateReserve(o)
      PROVE  \E s \in Sandbox, a \in Agent : TryAssignSandbox(a, s) /\ Spent' = Spent \cup {s}
  <2>a. ops[o] \in OpRecord /\ ops[o].pc = "try"
    BY <1>2 DEF TypeOK, CreateReserve
  <2>1. Head(ops[o].cands) \in Agent
    BY <1>2, <2>a DEF CreateReserve, OpRecord
  <2>2. PICK s \in Sandbox : s = ops[o].sandbox
    BY <2>a DEF OpsFormed, Idle, Done
  <2>3. ops'[o].pc = "send" /\ calls' = calls /\ \A p \in Op \ {o} : ops'[p] = ops[p]
    BY <1>2, <2>a DEF CreateReserve, OpRecord, TypeOK
  <2>4. calls[s] # "unissued" /\ \A p \in Op \ {o} : ~(ops[p].pc = "try" /\ ops[p].sandbox = s)
    BY <2>a, <2>2 DEF FreshUnknown, OpsFormed, Idle, Done
  <2>5. ~Fresh(s)' /\ \A u \in Sandbox \ {s} : Fresh(u)' <=> Fresh(u)
    BY <2>2, <2>3, <2>4 DEF Fresh
  <2>6. Spent' = Spent \cup {s}
    BY <2>5 DEF Spent
  <2> QED BY <1>2, <2>1, <2>2, <2>6, ZenonT(30) DEF CreateReserve
<1>3. ASSUME NEW o \in Op, CallStep(o), ~CreateReserve(o)
      PROVE  UNCHANGED store \/ Spent' = Spent
  <2>1. UNCHANGED store \/ ops[o].pc # "try"
    BY <1>3 DEF CallStep, CreateStep, CreateSkip, CreateRefuse, CreateSend, CreateRollback,
                CreateRecord, DeleteSend, DeleteRelease, PauseCheck, PauseSend, PauseRecord,
                UnpauseCheck, UnpauseSend, UnpauseRecord, Send, Check, Record
  <2>2. CASE ops[o].pc # "try"
    <3>1. /\ ops[o].pc \notin {"idle", "done"}
          /\ \A p \in Op \ {o} : ops'[p] = ops[p]
          /\ ops'[o].pc # "try"
          /\ \A s \in Sandbox : calls'[s] = "unissued" => calls[s] = "unissued"
          /\ \A s \in Sandbox \ {ops[o].sandbox} : calls'[s] = calls[s]
      BY <1>3, <2>2, <1>a, CallEffect
    <3>2. calls[ops[o].sandbox] # "unissued"
      BY <3>1 DEF OpsFormed, Idle, Done
    <3>3. \A s \in Sandbox : Fresh(s)' <=> Fresh(s)
      BY <2>2, <3>1, <3>2, ZenonT(60) DEF Fresh
    <3> QED BY <3>3, ZenonT(60) DEF Spent
  <2> QED BY <2>1, <2>2, ZenonT(60)
<1>4. ASSUME ControllerRestart \/ \E o \in Op : Cancel(o) PROVE UNCHANGED store
  BY <1>4 DEF ControllerRestart, Cancel
<1> QED BY <1>0, <1>1, <1>2, <1>3, <1>4, AgentFrame, StreamFrame, SweepFrame, ZenonT(30) DEF Next, vars, opVars

LEMMA PlacementStep ==
  ASSUME BaseInv, [Next]_vars
  PROVE  Promise!Next
<1>a. StoreTypeOK /\ Transaction
  BY OneTransaction DEF BaseInv, TypeOK
<1>b. Spent \subseteq Spent'
  BY FreshShrinks, ZenonT(60) DEF Spent, BaseInv
<1>c. \A s \in Sandbox : s \notin Spent => routing[s] = NoAgent /\ rows[s] = NoRow
  BY DEF Spent, BaseInv, FreshUnknown
<1>1. CASE UNCHANGED store
  <2>1. Promise!Retire(Spent' \ Spent)
    BY <1>1, <1>b, <1>c, ZenonT(60) DEF Promise!Retire, store, Up, Active, Spent
  <2> QED BY <2>1, ZenonT(60) DEF Promise!Next, Spent
<1>2. CASE ~UNCHANGED store /\ Spent' = Spent
  <2>1. ASSUME NEW a \in Agent, SaveAgent(a) PROVE Promise!Join(a)
    BY <1>2, <2>1, <1>a DEF SaveAgent, Promise!Join, Up, Active, StoreTypeOK
  <2>2. ASSUME NEW a \in Agent, MarkAgentDead(a) PROVE Promise!Fail(a)
    BY <1>2, <2>2, <1>a DEF MarkAgentDead, Promise!Fail, Up, Active, StoreTypeOK, AgentRow
  <2>3. ASSUME NEW a \in Agent, RecordHeartbeat(a) \/ HeartbeatExpires(a)
        PROVE  Promise!Retire({})
    BY <1>2, <2>3, <1>a DEF RecordHeartbeat, HeartbeatExpires, Promise!Retire, Up, Active,
                            StoreTypeOK, AgentRow
  <2>4. ASSUME NEW a \in Agent, NEW s \in Sandbox, Fresh(s), ~Fresh(s)'
        PROVE  FALSE
    BY <1>2, <2>4 DEF Spent
  <2>5. ASSUME NEW s \in Sandbox, ReleaseSandbox(s) PROVE Promise!Remove(s)
    <3>1. rows[s].agent # NoAgent /\ s \in Spent
      BY <1>2, <2>5, <1>c DEF ReleaseSandbox, NoRow
    <3>2. Up' = Up
      BY <1>2, <2>5, <3>1, <1>a DEF ReleaseSandbox, Up, Active, StoreTypeOK, AgentRow
    <3> QED BY <1>2, <2>5, <3>1, <3>2, ZenonT(60) DEF ReleaseSandbox, Promise!Remove
  <2>6. ASSUME NEW s, NEW a \in Agent, NEW st \in SandboxState, SaveSandboxState(s, a, st)
        PROVE  Promise!Retire({})
    BY <1>2, <2>6 DEF SaveSandboxState, Promise!Retire, Up, Active
  <2> QED BY <1>2, <1>a, <2>1, <2>2, <2>3, <2>4, <2>5, <2>6, ZenonT(60) DEF Transaction, Promise!Next
<1>3. ASSUME NEW s \in Sandbox, NEW a \in Agent, TryAssignSandbox(a, s), ~UNCHANGED store,
             Spent' = Spent \cup {s}, Spent' # Spent
      PROVE  Promise!Place(s, a)
  <2>1. s \notin Spent /\ routing[s] = NoAgent
    BY <1>3, <1>c
  <2>2. Up' = Up /\ a \in Up
    BY <1>3, <1>a DEF TryAssignSandbox, Assignable, Up, Active, StoreTypeOK, AgentRow
  <2> QED BY <1>3, <2>1, <2>2, ZenonT(30) DEF TryAssignSandbox, Promise!Place
<1> QED BY <1>1, <1>2, <1>3, SpentStep, ZenonT(60) DEF BaseInv, Promise!Next

\* The controller implements Placement: the routing table never routes a
\* sandbox twice, nor to an agent that is not active, and drops its routes
\* with the agent, whatever fails, is cancelled, lost or late.
THEOREM ControllerKeepsPlacement == Spec => PlacementKept
<1>1. Init => Promise!Init
  BY DEF Init, StoreInit, Promise!Init, Up, Active, Spent, Fresh
<1>2. BaseInv /\ [Next]_vars => [Promise!Next]_(Promise!vars)
  BY PlacementStep
<1> QED BY <1>1, <1>2, BaseHolds, PTL DEF Spec, PlacementKept, Promise!Spec
===============================================================================
