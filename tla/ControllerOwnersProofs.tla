----------------------- MODULE ControllerOwnersProofs -----------------------
(***************************************************************************)
(* All that names a sandbox names one agent, a refused call leaves         *)
(* nothing, and the ledger adds up: the properties of the controller that  *)
(* relate its tables to the calls and messages under way, for every set of *)
(* agents, sandboxes, streams and calls.                                   *)
(***************************************************************************)
EXTENDS ControllerProofs

\* The provers of the leaves that name none, with their time limits in seconds.
USE SMTT(30), Z3T(30), ZenonT(30)

-----------------------------------------------------------------------------
(* Owners.  What a step makes of a call, of a call's answer and of a         *)
(* sandbox's rows, and from whom it takes it.                                *)

Begins(o) ==
  /\ ops'[o].kind = "create" /\ ops'[o].pc = "try" /\ ops'[o].sandbox \in Sandbox
  /\ calls[ops'[o].sandbox] = "unissued" /\ calls'[ops'[o].sandbox] = "pending"
  /\ \A p \in Op \ {o} : ops'[p] = ops[p]

Finds(o) ==
  /\ ops'[o].kind # "create" /\ ops'[o].pc \in {"send", "check"} /\ ops'[o].sandbox \in Sandbox
  /\ calls[ops'[o].sandbox] = "created" /\ routing[ops'[o].sandbox] # NoAgent
  /\ ops'[o].agent = routing[ops'[o].sandbox]

Proceeds(o) ==
  /\ ops'[o].kind = ops[o].kind /\ ops'[o].sandbox = ops[o].sandbox /\ ops'[o].agent = ops[o].agent
  /\ ops'[o].pc = "try" <=> ops[o].pc = "try"
  /\ ops'[o].pc \in {"send", "rollback"} => ops[o].pc # "try"
  /\ ops'[o].pc = "rollback" => ops[o].kind = "create" /\ ops[o].pc = "send"
  /\ ops'[o].pc = "send" => ops[o].kind # "create"

\* What becomes of a call in a step.
CallGoes(o) ==
  \/ ops'[o] = ops[o]
  \/ ops'[o] \in {Idle, Done}
  \/ Begins(o) \/ Finds(o) \/ CreateReserve(o) \/ Proceeds(o)

LEMMA RequestGoes ==
  ASSUME TypeOK, NEW o \in Op, Request(o), NEW p \in Op
  PROVE  CallGoes(p)
<1>1. ASSUME NEW s \in Sandbox, CreateBegin(o, s) PROVE CallGoes(p)
  <2>1. /\ ops'[o].kind = "create" /\ ops'[o].pc = "try" /\ ops'[o].sandbox = s
        /\ calls[s] = "unissued" /\ calls'[s] = "pending"
        /\ \A q \in Op \ {o} : ops'[q] = ops[q]
    BY <1>1 DEF CreateBegin, TypeOK
  <2>2. Begins(o)
    BY <2>1 DEF Begins
  <2> QED BY <2>1, <2>2, Zenon DEF CallGoes
<1>2. ASSUME NEW s \in Sandbox, NEW k \in {"delete", "pause", "unpause"}, NEW pc \in {"send", "check"},
             Find(o, k, s, pc)
      PROVE  CallGoes(p)
  <2>1. /\ ops'[o].kind = k /\ ops'[o].pc = pc /\ ops'[o].sandbox = s /\ ops'[o].agent = routing[s]
        /\ calls[s] = "created" /\ routing[s] # NoAgent
        /\ \A q \in Op \ {o} : ops'[q] = ops[q]
    BY <1>2 DEF Find, TypeOK
  <2>2. Finds(o)
    BY <2>1 DEF Finds
  <2> QED BY <2>1, <2>2, Zenon DEF CallGoes
<1> QED BY <1>1, <1>2 DEF Request, DeleteFind, PauseFind, UnpauseFind

LEMMA CallStepGoes ==
  ASSUME TypeOK, OpsFormed, NEW o \in Op, CallStep(o) \/ Cancel(o), NEW p \in Op
  PROVE  CallGoes(p)
<1>a. ops \in [Op -> OpRecord] /\ ops[o] \in OpRecord
  BY DEF TypeOK
<1>b. p # o => ops'[p] = ops[p]
  BY CallEffect
<1>1. ASSUME NEW pc \in {"send", "rollback", "record", "release"}, Goto(o, pc), ops[o].pc # "try",
             pc = "rollback" => ops[o].kind = "create" /\ ops[o].pc = "send",
             pc = "send" => ops[o].kind # "create"
      PROVE  Proceeds(o)
  <2>1. /\ ops'[o].kind = ops[o].kind /\ ops'[o].sandbox = ops[o].sandbox
        /\ ops'[o].agent = ops[o].agent /\ ops'[o].pc = pc
    BY <1>1, <1>a DEF Goto, OpRecord
  <2> QED BY <1>1, <2>1 DEF Proceeds
<1>2. ASSUME NEW f, Return(o, f) PROVE ops'[o] = Done
  BY <1>2, <1>a DEF Return
<1>3. CASE CreateSkip(o)
  <2>1. /\ ops'[o].kind = ops[o].kind /\ ops'[o].sandbox = ops[o].sandbox
        /\ ops'[o].agent = ops[o].agent /\ ops'[o].pc = "try" /\ ops[o].pc = "try"
    BY <1>3, <1>a DEF CreateSkip, OpRecord
  <2>2. Proceeds(o)
    BY <2>1 DEF Proceeds
  <2> QED BY <1>b, <2>2, Zenon DEF CallGoes
<1>4. CASE CreateReserve(o)
  BY <1>b, <1>4, Zenon DEF CallGoes
<1>5. CASE CreateRefuse(o) \/ CreateRollback(o) \/ CreateRecord(o)
  <2>1. ops'[o] = Done
    BY <1>2, <1>5, Zenon DEF CreateRefuse, CreateRollback, CreateRecord
  <2> QED BY <1>b, <2>1, Zenon DEF CallGoes
<1>6. CASE CreateSend(o)
  <2>1. ops[o].kind = "create" /\ ops[o].pc = "send" /\ (Goto(o, "record") \/ Goto(o, "rollback"))
    BY <1>6, Zenon DEF CreateSend
  <2>2. Proceeds(o)
    BY <1>1, <2>1
  <2> QED BY <1>b, <2>2, Zenon DEF CallGoes
<1>7. ASSUME NEW k, NEW pc \in {"release", "record"}, Send(o, k, pc) PROVE CallGoes(p)
  <2>1. ops[o].pc = "send" /\ (Goto(o, pc) \/ ops' = [ops EXCEPT ![o] = Done])
    BY <1>7, Zenon DEF Send
  <2>2. Proceeds(o) \/ ops'[o] = Done
    BY <1>1, <1>a, <2>1, ZenonT(30)
  <2> QED BY <1>b, <2>2, Zenon DEF CallGoes
<1>8. ASSUME NEW k \in {"pause", "unpause"}, NEW states, Check(o, k, states) PROVE CallGoes(p)
  <2>1. ops[o].pc = "check" /\ ops[o].kind = k /\ (Goto(o, "send") \/ ops' = [ops EXCEPT ![o] = Done])
    BY <1>8, Zenon DEF Check
  <2>2. Proceeds(o) \/ ops'[o] = Done
    BY <1>1, <1>a, <2>1, ZenonT(30)
  <2> QED BY <1>b, <2>2, Zenon DEF CallGoes
<1>9. ASSUME DeleteRelease(o) \/ Cancel(o) \/ \E k \in {"pause", "unpause"}, x \in {"pausing", "unpausing"} :
               Record(o, k, x)
      PROVE  CallGoes(p)
  <2>1. ops'[o] = Done
    BY <1>9, <1>a, Zenon DEF DeleteRelease, Record, Cancel
  <2> QED BY <1>b, <2>1, Zenon DEF CallGoes
<1> QED BY <1>3, <1>4, <1>5, <1>6, <1>7, <1>8, <1>9, Zenon
        DEF CallStep, CreateStep, DeleteSend, PauseCheck, PauseSend, PauseRecord,
            UnpauseCheck, UnpauseSend, UnpauseRecord

LEMMA CallsGo ==
  ASSUME TypeOK, OpsFormed, [Next]_vars, NEW p \in Op
  PROVE  CallGoes(p)
<1>1. CASE UNCHANGED opVars
  BY <1>1 DEF CallGoes, opVars
<1>2. CASE ControllerRestart
  <2>1. ops'[p] \in {Idle, Done}
    BY <1>2, Zenon DEF ControllerRestart
  <2> QED BY <2>1, Zenon DEF CallGoes
<1> QED BY <1>1, <1>2, RequestGoes, CallStepGoes, AgentFrame, StreamFrame, SweepFrame, ZenonT(30)
        DEF Next, vars, opVars

\* What becomes of the answer to the create call of s in a step.
AnswerGoes(s) ==
  \/ calls'[s] = calls[s]
  \/ calls[s] = "unissued" /\ calls'[s] = "pending"
  \/ \E o \in Op : /\ ops[o].sandbox = s /\ ops'[o] = Done
                   /\ calls'[s] = "refused" => CreateRefuse(o) \/ CreateRollback(o)
  \/ calls[s] = "pending" /\ calls'[s] = "lost" /\ \A o \in Op : ops'[o] \in {Idle, Done}

LEMMA AnswersGo ==
  ASSUME TypeOK, OpsFormed, [Next]_vars, NEW s \in Sandbox
  PROVE  AnswerGoes(s)
<1>a. calls \in [Sandbox -> {"unissued", "pending", "created", "refused", "lost"}]
  BY DEF TypeOK
<1>1. CASE UNCHANGED opVars
  BY <1>1 DEF AnswerGoes, opVars
<1>2. CASE ControllerRestart
  <2>1. /\ calls'[s] = calls[s] \/ (calls[s] = "pending" /\ calls'[s] = "lost")
        /\ \A o \in Op : ops'[o] \in {Idle, Done}
    BY <1>2, Zenon DEF ControllerRestart
  <2> QED BY <2>1, Zenon DEF AnswerGoes
<1>3. ASSUME NEW o \in Op, Request(o) PROVE AnswerGoes(s)
  BY <1>3, RequestEffect DEF AnswerGoes
<1>4. ASSUME NEW o \in Op, CallStep(o) \/ Cancel(o) PROVE AnswerGoes(s)
  <2>1. CASE ops[o].sandbox # s
    BY <1>4, <2>1, CallEffect DEF AnswerGoes
  <2>2. CASE ops[o].sandbox = s
    <3>1. ASSUME CreateRefuse(o) \/ CreateRollback(o) PROVE AnswerGoes(s)
      <4>1. ops'[o] = Done
        BY <3>1 DEF CreateRefuse, CreateRollback, Return, TypeOK
      <4> QED BY <2>2, <3>1, <4>1, Zenon DEF AnswerGoes
    <3>2. ASSUME CreateRecord(o) \/ Cancel(o) PROVE AnswerGoes(s)
      <4>1. ops'[o] = Done
        BY <3>2 DEF CreateRecord, Cancel, Return, TypeOK
      <4>2. calls'[s] = calls[s] \/ calls'[s] \in {"created", "lost"}
        BY <2>2, <3>2, <1>a DEF CreateRecord, Cancel, Return
      <4>3. calls'[s] # calls[s] => calls'[s] # "refused"
        BY <4>2
      <4> QED BY <2>2, <4>1, <4>3, Zenon DEF AnswerGoes
    <3>3. ASSUME CallStep(o), ~CreateRefuse(o), ~CreateRollback(o), ~CreateRecord(o)
          PROVE  UNCHANGED calls
      BY <3>3, Zenon DEF CallStep, CreateStep, CreateReserve, CreateSkip, CreateSend, DeleteSend,
         DeleteRelease, PauseCheck, PauseSend, PauseRecord, UnpauseCheck, UnpauseSend,
         UnpauseRecord, Send, Check, Record
    <3> QED BY <1>4, <3>1, <3>2, <3>3 DEF AnswerGoes
  <2> QED BY <2>1, <2>2
<1> QED BY <1>1, <1>2, <1>3, <1>4, AgentFrame, StreamFrame, SweepFrame, ZenonT(30)
        DEF Next, vars, opVars

\* Whoever has save_sandbox_state record a state of s for agent a: a call about
\* to end, or the stream on which a reports one.
Writes(s, a) ==
  \/ \E o \in Op : ops[o].sandbox = s /\ ops[o].pc = "record" /\ ops[o].agent = a
  \/ \E st \in Stream : Dialer[st] = a /\ ~Silent(st, s)

\* What becomes of the rows of s in a step.
RowsGo(s) ==
  \/ rows'[s] = rows[s] /\ routing'[s] \in {routing[s], NoAgent}
  \/ \E o \in Op : ops[o].sandbox = s /\ CreateReserve(o)
  \/ /\ rows'[s] = NoRow /\ routing'[s] = NoAgent
     /\ \E o \in Op : ops[o].sandbox = s /\ ops[o].pc \in {"rollback", "release"} /\ ops'[o] = Done
  \/ /\ routing'[s] = routing[s]
     /\ \E a \in Agent :
          Writes(s, a) /\ rows'[s].agent = IF rows[s].agent = NoAgent THEN a ELSE rows[s].agent

LEMMA StateSaved ==
  ASSUME StoreTypeOK, NEW s \in Sandbox, NEW u \in Sandbox \cup {NoSandbox}, NEW a \in Agent,
         NEW x \in SandboxState, SaveSandboxState(u, a, x), Writes(u, a)
  PROVE  RowsGo(s)
<1>1. routing' = routing /\ (u # s => rows'[s] = rows[s])
  BY DEF SaveSandboxState, StoreTypeOK
<1>2. u = s => rows'[s].agent = IF rows[s].agent = NoAgent THEN a ELSE rows[s].agent
  <2>1. rows[s] \in SandboxRow
    BY DEF StoreTypeOK
  <2>2. CASE rows[s].agent = NoAgent
    BY <2>2 DEF SaveSandboxState, StoreTypeOK
  <2>3. CASE rows[s].agent # NoAgent
    BY <2>1, <2>3 DEF SaveSandboxState, StoreTypeOK, SandboxRow
  <2> QED BY <2>2, <2>3
<1> QED BY <1>1, <1>2, Zenon DEF RowsGo

LEMMA Released ==
  ASSUME StoreTypeOK, NEW s \in Sandbox, NEW o \in Op, ops[o].sandbox \in Sandbox,
         ops[o].pc \in {"rollback", "release"}, ops'[o] = Done, ReleaseSandbox(ops[o].sandbox)
  PROVE  RowsGo(s)
<1> DEFINE u == ops[o].sandbox
<1>1. CASE UNCHANGED store
  BY <1>1 DEF store, RowsGo
<1>2. CASE ~UNCHANGED store
  <2>1. routing' = [routing EXCEPT ![u] = NoAgent] /\ rows' = [rows EXCEPT ![u] = NoRow]
    BY <1>2, Zenon DEF ReleaseSandbox
  <2>2. u # s => rows'[s] = rows[s] /\ routing'[s] = routing[s]
    BY <2>1 DEF StoreTypeOK
  <2>3. u = s => rows'[s] = NoRow /\ routing'[s] = NoAgent
    BY <2>1 DEF StoreTypeOK
  <2> QED BY <2>2, <2>3, Zenon DEF RowsGo
<1> QED BY <1>1, <1>2

LEMMA AllRowsGo ==
  ASSUME TypeOK, SavingReports, OpsFormed, [Next]_vars, NEW s \in Sandbox
  PROVE  RowsGo(s)
<1>a. StoreTypeOK
  BY DEF TypeOK
<1>0. ASSUME UNCHANGED <<routing, rows>> PROVE RowsGo(s)
  BY <1>0 DEF RowsGo
<1>1. ASSUME NEW st \in Stream, StreamStep(st) PROVE RowsGo(s)
  <2>a. Dialer[st] \in Agent
    BY ControllerAssumption
  <2>1. CASE StatusSave(st)
    <3>1. /\ 1 \in DOMAIN inbox[st] /\ Head(inbox[st]) = inbox[st][1]
          /\ Head(inbox[st]) \in Report
      BY <2>1 DEF StatusSave, Enter, SavingReports, TypeOK
    <3>2. /\ Head(inbox[st]).state \in SandboxState
          /\ Head(inbox[st]).sandbox \in Sandbox \cup {NoSandbox}
      BY <3>1 DEF Report
    <3>3. Writes(Head(inbox[st]).sandbox, Dialer[st])
      BY <3>1, Zenon DEF Writes, Silent
    <3>4. \/ SaveSandboxState(Head(inbox[st]).sandbox, Dialer[st], Head(inbox[st]).state)
          \/ UNCHANGED store
      BY <2>1, Zenon DEF StatusSave
    <3> QED BY <1>0, <1>a, <2>a, <3>2, <3>3, <3>4, StateSaved, ZenonT(60) DEF store
  <2>2. CASE ~StatusSave(st)
    <3>1. UNCHANGED <<routing, rows>>
      BY <1>1, <2>2, Zenon DEF StreamStep, RegisterSave, RegisterReject, RegisterConnect, RegisterRespond,
         Heartbeat, HeartbeatFails, StatusCheck, StatusDrop, StreamEnd, SaveAgent, RecordHeartbeat, store
    <3> QED BY <1>0, <3>1
  <2> QED BY <2>1, <2>2
<1>2. ASSUME NEW o \in Op, CallStep(o) PROVE RowsGo(s)
  <2>b. ops[o].pc \notin {"idle", "done"} =>
          ops[o].sandbox \in Sandbox /\ (ops[o].pc # "try" => ops[o].agent \in Agent)
    BY DEF OpsFormed, Idle, Done
  <2>1. CASE CreateReserve(o)
    <3>1. ops[o].sandbox # s => rows'[s] = rows[s] /\ routing'[s] = routing[s]
      BY <1>a, <2>1, Zenon DEF CreateReserve, TryAssignSandbox, StoreTypeOK
    <3> QED BY <2>1, <3>1, ZenonT(60) DEF RowsGo
  <2>2. CASE CreateRollback(o) \/ DeleteRelease(o)
    <3>1. ops[o].pc \in {"rollback", "release"}
      BY <2>2, ZenonT(30) DEF CreateRollback, DeleteRelease
    <3>2. ops'[o] = Done
      BY <2>2 DEF CreateRollback, DeleteRelease, Return, TypeOK
    <3>3. ReleaseSandbox(ops[o].sandbox) \/ UNCHANGED store
      BY <2>2, Zenon DEF CreateRollback, DeleteRelease
    <3> QED BY <1>0, <1>a, <2>b, <3>1, <3>2, <3>3, Released, ZenonT(30) DEF store
  <2>3. ASSUME NEW x \in SandboxState, ops[o].pc = "record",
               SaveSandboxState(ops[o].sandbox, ops[o].agent, x) \/ UNCHANGED store
        PROVE  RowsGo(s)
    <3>1. ops[o].sandbox \in Sandbox /\ ops[o].agent \in Agent
      BY <2>b, <2>3
    <3>2. Writes(ops[o].sandbox, ops[o].agent)
      BY <2>3, Zenon DEF Writes
    <3> QED BY <1>0, <1>a, <2>3, <3>1, <3>2, StateSaved, ZenonT(30) DEF store
  <2>4. CASE CreateRecord(o)
    <3>1. ops[o].pc = "record" /\ (SaveSandboxState(ops[o].sandbox, ops[o].agent, "creating") \/ UNCHANGED store)
      BY <2>4, Zenon DEF CreateRecord
    <3> QED BY <2>3, <3>1 DEF SandboxState
  <2>5. ASSUME NEW k, NEW x \in {"pausing", "unpausing"}, Record(o, k, x) PROVE RowsGo(s)
    <3>1. ops[o].pc = "record" /\ (SaveSandboxState(ops[o].sandbox, ops[o].agent, x) \/ UNCHANGED store)
      BY <2>5, Zenon DEF Record
    <3> QED BY <2>3, <2>5, <3>1 DEF SandboxState
  <2>6. ASSUME \/ CreateSkip(o) \/ CreateRefuse(o) \/ CreateSend(o)
               \/ \E k, x : Send(o, k, x) \/ Check(o, k, x)
        PROVE  UNCHANGED store
    BY <2>6, Zenon DEF CreateSkip, CreateRefuse, CreateSend, Send, Check
  <2>7. ASSUME UNCHANGED store PROVE RowsGo(s)
    BY <1>0, <2>7 DEF store
  <2> QED BY <1>2, <2>1, <2>2, <2>4, <2>5, <2>6, <2>7, Zenon
          DEF CallStep, CreateStep, DeleteSend, PauseCheck, PauseSend, PauseRecord,
              UnpauseCheck, UnpauseSend, UnpauseRecord
<1>3. ASSUME NEW a \in Agent, SweepMark(a) \/ Expire(a) PROVE RowsGo(s)
  <2>1. CASE SweepMark(a)
    <3>1. rows'[s] = rows[s] /\ routing'[s] \in {routing[s], NoAgent}
      BY <2>1 DEF SweepMark, MarkAgentDead
    <3> QED BY <3>1, Zenon DEF RowsGo
  <2>2. CASE Expire(a)
    BY <1>0, <2>2, ZenonT(30) DEF Expire, HeartbeatExpires
  <2> QED BY <1>3, <2>1, <2>2
<1>4. ASSUME \/ UNCHANGED vars
             \/ ControllerRestart
             \/ \E o \in Op : Request(o) \/ Cancel(o)
             \/ \E st \in Stream : AgentStep(st)
             \/ SweepQuery \/ SweepDrop \/ \E a \in Agent : SweepMarkFails(a)
      PROVE  UNCHANGED store
  BY <1>4, AgentFrame, RequestFrame
  DEF vars, ControllerRestart, Cancel, SweepQuery, SweepDrop, SweepMarkFails
<1> QED BY <1>0, <1>1, <1>2, <1>3, <1>4, Zenon DEF Next, SweepStep, store

\* Nothing is heard of a sandbox on a stream but through a call that sends.
LEMMA SilenceKept ==
  ASSUME TypeOK, OpsFormed, ConnectionsLive, [Next]_vars, NEW s \in Sandbox, NEW st \in Stream, Silent(st, s),
         \A o \in Op : ~Sends(o, st, s)
  PROVE  Silent(st, s)'
<1>a. s # NoSandbox
  BY ControllerAssumption
<1>1. ASSUME NEW j \in DOMAIN out'[st] PROVE out'[st][j].sandbox # s
  BY <1>a, CommandOrigin DEF Silent
<1>2. ASSUME NEW j \in DOMAIN inbox'[st] PROVE inbox'[st][j].sandbox # s
  BY ReportOrigin, ZenonT(60) DEF Silent
<1> QED BY <1>1, <1>2, Zenon DEF Silent

LEMMA Reserved ==
  ASSUME TypeOK, OpsFormed, FreshUnknown, NEW o \in Op, CreateReserve(o)
  PROVE  \E b \in Agent, s \in Sandbox :
           /\ ops[o].sandbox = s /\ routing'[s] = b /\ rows'[s].agent = b
           /\ ops[o].kind = "create" /\ ops[o].pc = "try"
           /\ ops'[o].sandbox = s /\ ops'[o].agent = b /\ ops'[o].pc = "send"
           /\ ops'[o].kind = "create" /\ UNCHANGED calls
           /\ \A p \in Op \ {o} : ops'[p] = ops[p] /\ ops[p].sandbox # s
           /\ \A st \in Stream : Silent(st, s) /\ Silent(st, s)'
<1>a. ops \in [Op -> OpRecord] /\ ops[o] \in OpRecord
  BY DEF TypeOK
<1>b. ops[o].pc = "try" /\ ops[o].kind = "create" /\ ops[o].sandbox \in Sandbox
  BY DEF CreateReserve, OpsFormed, Idle, Done
<1>1. PICK b \in Agent : b = Head(ops[o].cands)
  BY <1>a DEF CreateReserve, OpRecord
<1>2. PICK s \in Sandbox : s = ops[o].sandbox
  BY <1>b, ZenonT(60)
<1>3. routing'[s] = b /\ rows'[s].agent = b
  BY <1>1, <1>2 DEF CreateReserve, TryAssignSandbox, TypeOK, StoreTypeOK
<1>4. /\ ops'[o].sandbox = s /\ ops'[o].agent = b /\ ops'[o].pc = "send" /\ ops'[o].kind = "create"
      /\ \A p \in Op \ {o} : ops'[p] = ops[p]
  BY <1>1, <1>2, <1>a, <1>b, ZenonT(60) DEF CreateReserve, OpRecord
<1>5. Fresh(s)
  BY <1>2, <1>b, ZenonT(30) DEF Fresh
<1>6. \A p \in Op \ {o} : ops[p].sandbox # s
  BY <1>2, <1>5, <1>b DEF FreshUnknown
<1>7. \A st \in Stream : Silent(st, s)
  BY <1>5, Zenon DEF FreshUnknown, Silent
<1>8. UNCHANGED <<out, inbox, calls>>
  BY DEF CreateReserve, streamVars
<1>9. \A st \in Stream : Silent(st, s)'
  BY <1>7, <1>8, Zenon DEF Silent
<1> QED BY <1>2, <1>3, <1>4, <1>6, <1>7, <1>8, <1>9, <1>b, ZenonT(60)

LEMMA OwnedStep ==
  ASSUME TypeOK, SavingReports, OpsFormed, FreshUnknown, ConnectionsLive, Owned, [Next]_vars
  PROVE  Owned'
<1> SUFFICES ASSUME NEW s \in Sandbox PROVE \E a \in Agent \cup {NoAgent} : OwnedBy(s, a)'
  BY Zenon DEF Owned
<1>1. CASE \E o \in Op : ops[o].sandbox = s /\ CreateReserve(o)
  <2>1. PICK o \in Op : ops[o].sandbox = s /\ CreateReserve(o)
    BY <1>1, ZenonT(60)
  <2>2. PICK b \in Agent :
          /\ routing'[s] = b /\ rows'[s].agent = b /\ ops'[o].agent = b
          /\ \A p \in Op \ {o} : ops'[p] = ops[p] /\ ops[p].sandbox # s
          /\ \A st \in Stream : Silent(st, s)'
    BY <2>1, Reserved
  <2>3. \A p \in Op : ops'[p].sandbox = s => ops'[p].agent = b
    BY <2>2, Zenon
  <2>4. OwnedBy(s, b)'
    BY <2>2, <2>3, Zenon DEF OwnedBy
  <2> QED BY <2>4
<1>2. CASE ~\E o \in Op : ops[o].sandbox = s /\ CreateReserve(o)
  <2>a. PICK a \in Agent \cup {NoAgent} : OwnedBy(s, a)
    BY Zenon DEF Owned
  <2>b. /\ s # NoSandbox /\ Idle.sandbox = NoSandbox /\ Done.sandbox = NoSandbox
        /\ NoRow.agent = NoAgent
    BY ControllerAssumption DEF Idle, Done, NoRow
  <2>c. \A o \in Op : ops[o].sandbox = s /\ ops[o].pc # "try" => ops[o].agent = a
    BY <2>a, Zenon DEF OwnedBy
  <2>d. routing[s] \in {NoAgent, a} /\ rows[s].agent \in {NoAgent, a}
    BY <2>a, Zenon DEF OwnedBy
  <2>1. ASSUME NEW b \in Agent, Writes(s, b) PROVE b = a
    <3>1. CASE \E o \in Op : ops[o].sandbox = s /\ ops[o].pc = "record" /\ ops[o].agent = b
      BY <2>c, <3>1
    <3>2. CASE \E st \in Stream : Dialer[st] = b /\ ~Silent(st, s)
      BY <2>a, <3>2, Zenon DEF OwnedBy
    <3> QED BY <2>1, <3>1, <3>2, Zenon DEF Writes
  <2>2. routing'[s] \in {NoAgent, a} /\ rows'[s].agent \in {NoAgent, a}
    <3>1. RowsGo(s)
      BY AllRowsGo, ZenonT(60)
    <3>2. CASE rows'[s] = rows[s] /\ routing'[s] \in {routing[s], NoAgent}
      BY <2>d, <3>2
    <3>3. CASE rows'[s] = NoRow /\ routing'[s] = NoAgent
      BY <2>b, <3>3, ZenonT(60)
    <3>4. ASSUME NEW b \in Agent, routing'[s] = routing[s], Writes(s, b),
                 rows'[s].agent = IF rows[s].agent = NoAgent THEN b ELSE rows[s].agent
          PROVE  routing'[s] \in {NoAgent, a} /\ rows'[s].agent \in {NoAgent, a}
      BY <2>1, <2>d, <3>4
    <3> QED BY <1>2, <3>1, <3>2, <3>3, <3>4, Zenon DEF RowsGo
  <2>3. ASSUME NEW p \in Op, ops'[p].sandbox = s, ops'[p].pc # "try" PROVE ops'[p].agent = a
    <3>1. CallGoes(p)
      BY CallsGo
    <3>2. CASE ops'[p] = ops[p]
      BY <2>3, <2>c, <3>2, ZenonT(60)
    <3>3. CASE Finds(p)
      BY <2>3, <2>d, <3>3, ZenonT(30) DEF Finds
    <3>4. CASE Proceeds(p)
      BY <2>3, <2>c, <3>4, ZenonT(60) DEF Proceeds
    <3>5. CASE CreateReserve(p)
      <4>1. ops[p].sandbox = ops'[p].sandbox
        BY <3>5, Reserved
      <4> QED BY <1>2, <2>3, <3>5, <4>1, ZenonT(60)
    <3> QED BY <2>3, <2>b, <3>1, <3>2, <3>3, <3>4, <3>5, ZenonT(60) DEF CallGoes, Begins
  <2>4. ASSUME NEW st \in Stream, Dialer[st] # a PROVE Silent(st, s)'
    <3>1. Silent(st, s)
      BY <2>4, <2>a, Zenon DEF OwnedBy
    <3>2. \A o \in Op : ~Sends(o, st, s)
      BY <2>4, <2>c DEF Sends
    <3> QED BY <3>1, <3>2, SilenceKept
  <2>5. OwnedBy(s, a)'
    BY <2>2, <2>3, <2>4, Zenon DEF OwnedBy
  <2> QED BY <2>5
<1> QED BY <1>1, <1>2

LEMMA CreatesAloneStep ==
  ASSUME TypeOK, SavingReports, OpsFormed, FreshUnknown, ConnectionsLive, CreatesAlone, [Next]_vars
  PROVE  CreatesAlone'
<1>a. /\ Idle.kind # "create" /\ Idle.pc # "rollback" /\ Idle.sandbox = NoSandbox
      /\ Done.kind # "create" /\ Done.pc # "rollback" /\ Done.sandbox = NoSandbox
      /\ NoSandbox \notin Sandbox /\ NoAgent \notin Agent
  BY ControllerAssumption, StoreAssumption, ZenonT(60) DEF Idle, Done
<1>b. \A p \in Op : ops[p].sandbox \in Sandbox => calls[ops[p].sandbox] # "unissued"
  BY <1>a, ZenonT(60) DEF OpsFormed
<1>1. ASSUME NEW o \in Op, ops'[o].pc = "rollback" PROVE ops'[o].kind = "create"
  <2>1. CallGoes(o)
    BY CallsGo, ZenonT(30)
  <2>2. CASE ops'[o] = ops[o]
    BY <1>1, <2>2 DEF CreatesAlone
  <2>3. ~CreateReserve(o)
    BY <1>1, Reserved, ZenonT(60)
  <2> QED BY <1>1, <1>a, <2>1, <2>2, <2>3, ZenonT(30) DEF CallGoes, Begins, Finds, Proceeds
<1>2. ASSUME NEW o \in Op, ops'[o].kind = "create", NEW s, ops'[o].sandbox = s
      PROVE  /\ calls'[s] = "pending"
             /\ \A p \in Op \ {o} : ops'[p].sandbox # s
             /\ ops'[o].pc \in {"send", "rollback"} =>
                  rows'[s].agent # NoAgent /\ \A st \in Stream : Silent(st, s)'
  <2>1. CASE CreateReserve(o)
    <3>1. /\ ops[o].sandbox = s /\ rows'[s].agent \in Agent /\ ops[o].kind = "create"
          /\ UNCHANGED calls
          /\ \A p \in Op \ {o} : ops'[p] = ops[p] /\ ops[p].sandbox # s
          /\ \A st \in Stream : Silent(st, s)'
      BY <1>2, <2>1, Reserved, ZenonT(60)
    <3>2. calls[s] = "pending"
      BY <3>1 DEF CreatesAlone
    <3> QED BY <1>a, <3>1, <3>2, Zenon
  <2>2. CASE Begins(o)
    <3>1. \A p \in Op \ {o} : ops'[p].sandbox # s
      BY <1>2, <1>b, <2>2, Zenon DEF Begins
    <3> QED BY <1>2, <2>2, <3>1 DEF Begins
  <2>3. CASE ~CreateReserve(o) /\ (ops'[o] = ops[o] \/ Proceeds(o))
    <3>1. ops[o].kind = "create" /\ ops[o].sandbox = s /\ s \in Sandbox
      BY <1>2, <1>a, <2>3 DEF Proceeds, OpsFormed
    <3>2. calls[s] = "pending" /\ \A p \in Op \ {o} : ops[p].sandbox # s
      BY <3>1, Zenon DEF CreatesAlone
    <3>3. ops'[o] \notin {Idle, Done}
      BY <1>2, <1>a, ZenonT(60)
    <3>4. calls'[s] = "pending"
      BY <3>1, <3>2, <3>3, AnswersGo, ZenonT(60) DEF AnswerGoes
    <3>5. ASSUME NEW p \in Op \ {o} PROVE ops'[p].sandbox # s
      <4>1. CallGoes(p)
        BY CallsGo
      <4>2. ops'[p].sandbox = s => ~CreateReserve(p)
        <5>1. CreateReserve(p) => ops'[p].sandbox = ops[p].sandbox
          BY Reserved
        <5> QED BY <3>2, <5>1, Zenon
      <4>3. ops'[p].sandbox = s => ~Begins(p) /\ ~Finds(p)
        BY <3>2 DEF Begins, Finds
      <4> QED BY <1>a, <3>1, <3>2, <4>1, <4>2, <4>3, ZenonT(60) DEF CallGoes, Proceeds
    <3>6. ASSUME ops'[o].pc \in {"send", "rollback"}
          PROVE  rows'[s].agent # NoAgent /\ \A st \in Stream : Silent(st, s)'
      <4>1. ops[o].pc \in {"send", "rollback"}
        BY <2>3, <3>1, <3>6 DEF Proceeds
      <4>2. rows[s].agent # NoAgent /\ \A st \in Stream : Silent(st, s)
        BY <3>1, <4>1, Zenon DEF CreatesAlone
      <4>3. \A q \in Op : ops[q].sandbox = s => q = o
        BY <3>2, ZenonT(60)
      <4>4. rows'[s].agent # NoAgent
        <5>1. RowsGo(s)
          BY <3>1, AllRowsGo
        <5> QED BY <1>a, <2>3, <3>3, <4>2, <4>3, <5>1, ZenonT(60) DEF RowsGo
      <4>5. \A st \in Stream, q \in Op : ~Sends(q, st, s)
        BY <3>6, <4>3, ZenonT(30) DEF Sends
      <4>6. \A st \in Stream : Silent(st, s)'
        BY <3>1, <4>2, <4>5, SilenceKept, ZenonT(60)
      <4> QED BY <4>4, <4>6, ZenonT(30)
    <3> QED BY <3>1, <3>4, <3>5, <3>6, Zenon
  <2>4. CallGoes(o)
    BY CallsGo
  <2> QED BY <1>2, <1>a, <2>1, <2>2, <2>3, <2>4, ZenonT(60) DEF CallGoes, Finds
<1>3. ASSUME NEW o \in Op, ops'[o].kind = "create", ops'[o].pc \in {"send", "rollback"}
      PROVE  (\A st \in Stream : Silent(st, ops[o].sandbox))'
  BY <1>2, <1>3, Zenon DEF Silent
<1>4. \A o \in Op : ops'[o].kind = "create" =>
        /\ calls'[ops'[o].sandbox] = "pending"
        /\ \A p \in Op \ {o} : ops'[p].sandbox # ops'[o].sandbox
        /\ ops'[o].pc \in {"send", "rollback"} => rows'[ops'[o].sandbox].agent # NoAgent
  BY <1>2, ZenonT(60)
<1> QED BY <1>1, <1>3, <1>4, Zenon DEF CreatesAlone

\* A create call that answers with a refusal is the only trace of its id but the rows.
LEMMA Refusing ==
  ASSUME TypeOK, OpsFormed, FreshUnknown, CreatesAlone, NEW o \in Op, NEW s \in Sandbox,
         ops[o].sandbox = s, CreateRefuse(o) \/ CreateRollback(o)
  PROVE  /\ \A p \in Op : ops'[p].sandbox # s
         /\ \A st \in Stream : Silent(st, s) /\ Silent(st, s)'
         /\ "store" \notin Failures => routing'[s] = NoAgent /\ rows'[s] = NoRow
<1>a. Return(o, "refused") /\ UNCHANGED <<out, inbox>>
  BY Zenon DEF CreateRefuse, CreateRollback, streamVars
<1>b. ops[o].kind = "create"
  BY DEF CreateRefuse, CreateRollback, OpsFormed, CreatesAlone, Idle, Done
<1>1. \A p \in Op : ops'[p].sandbox # s
  <2>1. ops'[o] = Done /\ \A p \in Op \ {o} : ops'[p] = ops[p]
    BY <1>a DEF Return, TypeOK
  <2>2. Done.sandbox = NoSandbox /\ s # NoSandbox
    BY ControllerAssumption DEF Done, Idle
  <2>3. \A p \in Op \ {o} : ops[p].sandbox # s
    BY <1>b, Zenon DEF CreatesAlone
  <2> QED BY <2>1, <2>2, <2>3, Zenon
<1>2. CASE CreateRefuse(o)
  <2>1. Fresh(s) /\ UNCHANGED <<routing, rows>>
    BY <1>2 DEF CreateRefuse, Fresh, store
  <2>2. routing[s] = NoAgent /\ rows[s] = NoRow /\ \A st \in Stream : Silent(st, s)
    BY <2>1, Zenon DEF FreshUnknown, Silent
  <2>3. \A st \in Stream : Silent(st, s)'
    BY <1>a, <2>2, Zenon DEF Silent
  <2> QED BY <1>1, <2>1, <2>2, <2>3, ZenonT(60)
<1>3. CASE CreateRollback(o)
  <2>1. ops[o].pc = "rollback"
    BY <1>3 DEF CreateRollback
  <2>2. rows[s].agent # NoAgent /\ \A st \in Stream : Silent(st, s)
    BY <1>b, <2>1, Zenon DEF CreatesAlone
  <2>3. \A st \in Stream : Silent(st, s)'
    BY <1>a, <2>2, Zenon DEF Silent
  <2>4. ASSUME "store" \notin Failures PROVE routing'[s] = NoAgent /\ rows'[s] = NoRow
    <3>1. ReleaseSandbox(s)
      BY <1>3, <2>4, Zenon DEF CreateRollback
    <3>2. routing' = [routing EXCEPT ![s] = NoAgent] /\ rows' = [rows EXCEPT ![s] = NoRow]
      BY <2>2, <3>1, Zenon DEF ReleaseSandbox
    <3> QED BY <3>2 DEF TypeOK, StoreTypeOK
  <2> QED BY <1>1, <2>2, <2>3, <2>4, ZenonT(60)
<1> QED BY <1>2, <1>3

LEMMA RefusedStep ==
  ASSUME TypeOK, SavingReports, OpsFormed, FreshUnknown, ConnectionsLive, CreatesAlone,
         RefusedForgotten, RefusedLeavesNothing, [Next]_vars
  PROVE  RefusedForgotten' /\ RefusedLeavesNothing'
<1> SUFFICES ASSUME NEW s \in Sandbox, calls'[s] = "refused"
             PROVE  /\ \A o \in Op : ops'[o].sandbox # s
                    /\ \A st \in Stream : Silent(st, s)'
                    /\ "store" \notin Failures => routing'[s] = NoAgent /\ rows'[s] = NoRow
  BY Zenon DEF RefusedForgotten, RefusedLeavesNothing
<1>1. CASE calls[s] = "refused"
  <2>a. (\A o \in Op : ops[o].sandbox # s) /\ \A st \in Stream : Silent(st, s)
    BY <1>1, Zenon DEF RefusedForgotten
  <2>b. /\ Idle.sandbox = NoSandbox /\ Done.sandbox = NoSandbox /\ s # NoSandbox
    BY ControllerAssumption, ZenonT(60) DEF Idle, Done
  <2>1. ASSUME NEW o \in Op PROVE ops'[o].sandbox # s
    <3>1. CallGoes(o)
      BY CallsGo
    <3>2. ops'[o].sandbox = s => ~CreateReserve(o)
      <4>1. CreateReserve(o) => ops'[o].sandbox = ops[o].sandbox
        BY Reserved, ZenonT(30)
      <4> QED BY <2>a, <4>1, Zenon
    <3>3. ops'[o].sandbox = s => ~Begins(o) /\ ~Finds(o)
      BY <1>1 DEF Begins, Finds
    <3> QED BY <2>a, <2>b, <3>1, <3>2, <3>3, ZenonT(30) DEF CallGoes, Proceeds
  <2>2. ASSUME NEW st \in Stream PROVE Silent(st, s)'
    <3>1. \A o \in Op : ~Sends(o, st, s)
      BY <2>a, Zenon DEF Sends
    <3> QED BY <2>a, <3>1, SilenceKept, ZenonT(60)
  <2>3. ASSUME "store" \notin Failures PROVE routing'[s] = NoAgent /\ rows'[s] = NoRow
    <3>1. routing[s] = NoAgent /\ rows[s] = NoRow
      BY <1>1, <2>3, Zenon DEF RefusedLeavesNothing
    <3>2. \A a \in Agent : ~Writes(s, a)
      BY <2>a, Zenon DEF Writes
    <3>3. RowsGo(s)
      BY AllRowsGo, ZenonT(60)
    <3> QED BY <2>a, <3>1, <3>2, <3>3, ZenonT(30) DEF RowsGo
  <2> QED BY <2>1, <2>2, <2>3
<1>2. CASE calls[s] # "refused"
  <2>1. PICK o \in Op : ops[o].sandbox = s /\ (CreateRefuse(o) \/ CreateRollback(o))
    BY <1>2, AnswersGo, ZenonT(30) DEF AnswerGoes
  <2> QED BY <2>1, Refusing
<1> QED BY <1>1, <1>2

-----------------------------------------------------------------------------
(* Registrations. *)

LEMMA RegistrationsGrow ==
  ASSUME TypeOK, [Next]_vars, NEW a \in Agent
  PROVE  Registrations(a) \subseteq Registrations(a)'
<1> SUFFICES ASSUME NEW st \in Stream, phase[st] \notin {"unused", "opened", "rejected"}
             PROVE  phase'[st] \notin {"unused", "opened", "rejected"}
  BY Zenon DEF Registrations
<1>0. CASE UNCHANGED phase
  BY <1>0
<1>1. ASSUME NEW t \in Stream, AgentStep(t) PROVE phase'[st] \notin {"unused", "opened", "rejected"}
  BY <1>1, <1>0, Zenon DEF AgentStep, AgentDial, AgentGreeted, AgentGone, AgentRuns, TypeOK
<1>2. ASSUME NEW t \in Stream, StreamStep(t) PROVE phase'[st] \notin {"unused", "opened", "rejected"}
  BY <1>2, ZenonT(60) DEF StreamStep, RegisterSave, RegisterReject, RegisterConnect, RegisterRespond, Heartbeat,
              HeartbeatFails, StatusCheck, StatusDrop, StatusSave, StreamEnd, Enter, streamVars, TypeOK
<1>3. CASE ControllerRestart
  BY <1>3 DEF ControllerRestart
<1>4. ASSUME NEW o \in Op, Request(o) \/ CallStep(o) \/ Cancel(o) PROVE UNCHANGED phase
  BY <1>4, RequestFrame, CallFrame, ZenonT(30) DEF Cancel, streamVars
<1>5. ASSUME SweepStep \/ \E b \in Agent : SweepMarkFails(b) \/ Expire(b) PROVE UNCHANGED phase
  BY <1>5, SweepFrame DEF streamVars
<1> QED BY <1>0, <1>1, <1>2, <1>3, <1>4, <1>5, ZenonT(30) DEF Next, vars

LEMMA StateStep ==
  ASSUME TypeOK, Transaction, NEW a \in Agent
  PROVE  \/ agents'[a].state = agents[a].state
         \/ agents'[a].state = "active" /\ SaveAgent(a) /\ Registers(a)
         \/ agents'[a].state = "dead" /\ a \in sweep.todo
<1>a. agents \in [Agent -> AgentRow] /\ rows \in [Sandbox -> SandboxRow]
  BY DEF TypeOK, StoreTypeOK
<1>1. ASSUME NEW b \in Agent, SaveAgent(b)
      PROVE  agents'[a].state = IF a = b THEN "active" ELSE agents[a].state
  BY <1>1, <1>a DEF SaveAgent
<1>2. ASSUME NEW b \in Agent, MarkAgentDead(b)
      PROVE  agents'[a].state = IF a = b THEN "dead" ELSE agents[a].state
  BY <1>2, <1>a DEF MarkAgentDead, AgentRow
<1>3. ASSUME NEW b \in Agent, RecordHeartbeat(b) \/ HeartbeatExpires(b)
      PROVE  agents'[a].state = agents[a].state
  BY <1>3, <1>a DEF RecordHeartbeat, HeartbeatExpires, AgentRow
<1>4. ASSUME NEW b \in Agent, NEW s \in Sandbox, TryAssignSandbox(b, s)
      PROVE  agents'[a].state = agents[a].state
  BY <1>4, <1>a, ZenonT(30) DEF TryAssignSandbox, AgentRow
<1>5. ASSUME NEW s \in Sandbox, ReleaseSandbox(s) PROVE agents'[a].state = agents[a].state
  BY <1>5, <1>a DEF ReleaseSandbox, store, AgentRow, SandboxRow
<1> QED BY <1>1, <1>2, <1>3, <1>4, <1>5, ZenonT(60) DEF Transaction, store, SaveSandboxState

LEMMA EnrolledStep ==
  ASSUME TypeOK, Transaction, Enrolled, [Next]_vars
  PROVE  Enrolled'
<1>a. StoreTypeOK
  BY DEF TypeOK
<1>1. sweep'.todo \subseteq sweep.todo \cup DeadAgents
  <2>1. CASE UNCHANGED sweep
    BY <2>1
  <2>2. CASE SweepStep \/ \E a \in Agent : SweepMarkFails(a)
    BY <2>2 DEF SweepStep, SweepQuery, SweepMark, SweepDrop, SweepMarkFails, TypeOK
  <2>3. CASE ControllerRestart
    BY <2>3 DEF ControllerRestart
  <2>4. ASSUME NEW o \in Op, Cancel(o) PROVE UNCHANGED sweep
    BY <2>4 DEF Cancel
  <2>5. ASSUME NEW a \in Agent, Expire(a) PROVE UNCHANGED sweep
    BY <2>5 DEF Expire
  <2> QED BY <2>1, <2>2, <2>3, <2>4, <2>5, AgentFrame, StreamFrame, RequestFrame, CallFrame, ZenonT(60)
          DEF Next, vars
<1>2. ASSUME NEW a \in Agent, agents[a].state # "absent"
      PROVE  agents'[a].state # "absent" /\ Registrations(a)' # {}
  <2>1. agents'[a].state # "absent"
    BY <1>2, StateStep, ZenonT(30)
  <2>2. Registrations(a) # {}
    BY <1>2 DEF Enrolled
  <2> QED BY <2>1, <2>2, RegistrationsGrow, ZenonT(30)
<1>3. ASSUME NEW a \in Agent, agents[a].state = "absent", agents'[a].state = "absent"
      PROVE  a \notin sweep'.todo /\ \A s \in Sandbox : Holding(s, a)' = Zero
  <2>a. a \notin sweep.todo /\ (\A s \in Sandbox : Holding(s, a) = Zero) /\ a # NoAgent
    BY <1>3, StoreAssumption, ZenonT(60) DEF Enrolled
  <2>1. a \notin sweep'.todo
    BY <1>1, <1>3, <2>a, ZenonT(30) DEF DeadAgents, Active
  <2>2. ASSUME NEW s \in Sandbox PROVE Holding(s, a)' = Zero
    <3>a. rows[s] \in SandboxRow /\ rows \in [Sandbox -> SandboxRow]
      BY <1>a, ZenonT(30) DEF StoreTypeOK
    <3>1. \/ rows'[s] = rows[s]
          \/ rows'[s].agent # a
          \/ rows'[s].req = Zero
          \/ rows'[s].agent = rows[s].agent /\ rows'[s].req = rows[s].req
      <4>1. ASSUME NEW b \in Agent, NEW u \in Sandbox, TryAssignSandbox(b, u)
            PROVE  rows'[s] = rows[s] \/ rows'[s].agent # a
        BY <1>3, <3>a, <4>1, ZenonT(60) DEF TryAssignSandbox, Assignable, Active
      <4>2. ASSUME NEW u \in Sandbox, ReleaseSandbox(u)
            PROVE  rows'[s] = rows[s] \/ rows'[s].agent # a
        BY <2>a, <3>a, <4>2 DEF ReleaseSandbox, NoRow, store
      <4>3. ASSUME NEW u \in Sandbox \cup {NoSandbox}, NEW b \in Agent, NEW st \in SandboxState,
                   SaveSandboxState(u, b, st)
            PROVE  \/ rows'[s] = rows[s]
                   \/ rows'[s].req = Zero
                   \/ rows'[s].agent = rows[s].agent /\ rows'[s].req = rows[s].req
        BY <3>a, <4>3, ZenonT(30) DEF SaveSandboxState, SandboxRow
      <4> QED BY <4>1, <4>2, <4>3, ZenonT(30)
              DEF Transaction, store, SaveAgent, MarkAgentDead, RecordHeartbeat, HeartbeatExpires
    <3>2. Holding(s, a) = Zero
      BY <2>a
    <3> QED BY <3>1, <3>2, ZenonT(30) DEF Holding
  <2> QED BY <2>1, <2>2, ZenonT(60)
<1>4. ASSUME NEW a \in Agent, agents[a].state = "absent", agents'[a].state # "absent"
      PROVE  Registrations(a)' # {}
  <2>1. a \notin sweep.todo
    BY <1>4 DEF Enrolled
  <2>2. Registers(a)
    BY <1>4, <2>1, StateStep
  <2> QED BY <2>2 DEF Registers, Registrations
<1> QED BY <1>2, <1>3, <1>4, Zenon DEF Enrolled

-----------------------------------------------------------------------------
(* The theorems. *)

LEMMA InitIInv == Init => IInv
<1> SUFFICES ASSUME Init PROVE IInv
  OBVIOUS
<1>1. Owned /\ CreatesAlone /\ RefusedForgotten /\ RefusedLeavesNothing
  <2>1. /\ routing = [s \in Sandbox |-> NoAgent] /\ rows = [s \in Sandbox |-> NoRow]
        /\ calls = [s \in Sandbox |-> "unissued"]
    BY Zenon DEF Init, StoreInit
  <2>2. \A st \in Stream, s \in Sandbox : Silent(st, s)
    <3>1. DOMAIN << >> = {}
      OBVIOUS
    <3> QED BY <3>1, Zenon DEF Init, Silent
  <2>3. /\ \A o \in Op : ops[o].kind = "none" /\ ops[o].pc = "idle" /\ ops[o].sandbox = NoSandbox
        /\ NoSandbox \notin Sandbox /\ NoRow.agent = NoAgent
    BY ControllerAssumption DEF Init, Idle, NoRow
  <2>4. \A s \in Sandbox : OwnedBy(s, NoAgent)
    BY <2>1, <2>2, <2>3, Zenon DEF OwnedBy
  <2>5. Owned
    BY <2>4, Zenon DEF Owned
  <2>6. CreatesAlone
    BY <2>3 DEF CreatesAlone
  <2>7. RefusedForgotten /\ RefusedLeavesNothing
    BY <2>1 DEF RefusedForgotten, RefusedLeavesNothing
  <2> QED BY <2>5, <2>6, <2>7
<1>2. Enrolled
  <2>1. /\ \A a \in Agent : agents[a].state = "absent"
        /\ \A s \in Sandbox : rows[s] = NoRow
        /\ sweep.todo = {}
    BY DEF Init, StoreInit
  <2>2. NoRow.agent = NoAgent /\ NoAgent \notin Agent
    BY StoreAssumption DEF NoRow
  <2> QED BY <2>1, <2>2, Zenon DEF Enrolled, Holding
<1> QED BY <1>1, <1>2, InitBaseInv DEF IInv

LEMMA NextIInv == IInv /\ [Next]_vars => IInv'
<1> SUFFICES ASSUME IInv, [Next]_vars PROVE IInv'
  OBVIOUS
<1> USE DEF IInv
<1>1. BaseInv'
  BY NextBaseInv
<1>2. Owned' /\ CreatesAlone'
  BY OwnedStep, CreatesAloneStep DEF BaseInv
<1>3. RefusedForgotten' /\ RefusedLeavesNothing'
  BY RefusedStep, ZenonT(60) DEF BaseInv
<1>4. Enrolled'
  BY OneTransaction, EnrolledStep DEF BaseInv, TypeOK
<1> QED BY <1>1, <1>2, <1>3, <1>4, ZenonT(30)

\* The whole inductive invariant holds in every reachable state.
THEOREM InvariantHolds == Spec => []IInv
BY InitIInv, NextIInv, PTL DEF Spec

LEMMA OwnedAgrees == IInv => OwnerAgrees
<1> SUFFICES ASSUME IInv, NEW st \in Stream, NEW m \in Range(out[st]) \cup Range(inbox[st]),
                    m.sandbox # NoSandbox
             PROVE  /\ routing[m.sandbox] \in {NoAgent, Dialer[st]}
                    /\ rows[m.sandbox].agent \in {NoAgent, Dialer[st]}
  BY Zenon DEF OwnerAgrees
<1>1. m \in Command \cup Report
  <2>1. out[st] \in Seq(Command) /\ inbox[st] \in Seq(Report)
    BY ZenonT(60) DEF IInv, BaseInv, TypeOK
  <2>2. \A q \in Seq(Command) : Range(q) \subseteq Command
    BY DEF Range
  <2>3. \A q \in Seq(Report) : Range(q) \subseteq Report
    BY DEF Range
  <2> QED BY <2>1, <2>2, <2>3, Zenon
<1>2. m.sandbox \in Sandbox
  BY <1>1 DEF Command, Report
<1>3. ~Silent(st, m.sandbox)
  BY Zenon DEF Range, Silent
<1>4. PICK a \in Agent \cup {NoAgent} : OwnedBy(m.sandbox, a)
  BY <1>2, Zenon DEF IInv, Owned
<1>5. a = Dialer[st]
  BY <1>3, <1>4, Zenon DEF OwnedBy
<1> QED BY <1>4, <1>5, Zenon DEF OwnedBy

\* Whatever is queued on a stream, in either direction, is about a sandbox that
\* no other agent is routed to or recorded as holding: an id is placed once, and
\* each command, each row and each status about it descends from that placement.
THEOREM OwnersAgree == Spec => []OwnerAgrees
BY OwnedAgrees, InvariantHolds, PTL

\* CreateSandbox refused, at whichever of its steps it failed, leaves neither a
\* route nor a reservation, then or later, as long as the store answers.
THEOREM RefusalsLeaveNothing == Spec => []RefusedLeavesNothing
<1>1. IInv => RefusedLeavesNothing
  BY ZenonT(60) DEF IInv
<1> QED BY <1>1, InvariantHolds, PTL

-----------------------------------------------------------------------------
(* The ledger. *)

\* A step that moves an amount between what agent a has available and the
\* reservation of one sandbox on it, or touches neither.
Moves(a) ==
  \/ /\ agents'[a].avail = agents[a].avail
     /\ \A s \in Sandbox : Holding(s, a)' = Holding(s, a)
  \/ \E s \in Sandbox :
       /\ Plus(agents'[a].avail, Holding(s, a)') = Plus(agents[a].avail, Holding(s, a))
       /\ \A u \in Sandbox \ {s} : Holding(u, a)' = Holding(u, a)

LEMMA SavedOrMoved ==
  ASSUME BaseInv, [Next]_vars, NEW a \in Agent
  PROVE  (SaveAgent(a) /\ Registers(a)) \/ Moves(a)
<1>a. StoreTypeOK /\ FreshUnknown /\ Transaction
  BY OneTransaction DEF BaseInv, TypeOK
<1>b. a # NoAgent
  BY StoreAssumption
<1>1. ASSUME UNCHANGED store PROVE Moves(a)
  BY <1>1, Zenon DEF store, Moves, Holding
<1>2. ASSUME NEW b \in Agent, SaveAgent(b), b # a PROVE Moves(a)
  BY <1>2, <1>a, Zenon DEF SaveAgent, Moves, Holding, StoreTypeOK
<1>3. ASSUME NEW b \in Agent, MarkAgentDead(b) \/ RecordHeartbeat(b) \/ HeartbeatExpires(b)
      PROVE  Moves(a)
  BY <1>3, <1>a DEF MarkAgentDead, RecordHeartbeat, HeartbeatExpires, Moves, Holding,
                    StoreTypeOK, AgentRow
<1>4. ASSUME NEW b \in Agent, NEW s \in Sandbox, TryAssignSandbox(b, s), Fresh(s)
      PROVE  Moves(a)
  <2>1. rows[s] = NoRow /\ Holding(s, a) = Zero
    <3>1. rows[s] = NoRow
      BY <1>4, <1>a, Zenon DEF FreshUnknown
    <3>2. NoRow.agent = NoAgent
      BY DEF NoRow
    <3> QED BY <1>b, <3>1, <3>2 DEF Holding
  <2>2. \A u \in Sandbox \ {s} : Holding(u, a)' = Holding(u, a)
    BY <1>4, <1>a DEF TryAssignSandbox, Holding, StoreTypeOK
  <2>3. rows'[s].agent = b /\ rows'[s].req = Requirement[s]
    BY <1>4, <1>a DEF TryAssignSandbox, StoreTypeOK
  <2>4. CASE b # a
    <3>1. Holding(s, a)' = Zero
      BY <2>3, <2>4 DEF Holding
    <3>2. agents'[a].avail = agents[a].avail
      BY <1>4, <2>4, <1>a DEF TryAssignSandbox, StoreTypeOK
    <3> QED BY <2>1, <2>2, <3>1, <3>2, Zenon DEF Moves
  <2>5. CASE b = a
    <3>1. Holding(s, a)' = Requirement[s]
      BY <2>3, <2>5, Zenon DEF Holding
    <3>2. agents'[a].avail = Minus(agents[a].avail, Requirement[s])
      BY <1>4, <2>5, <1>a, ZenonT(60) DEF TryAssignSandbox, StoreTypeOK, AgentRow
    <3>3. agents[a].avail \in Amount /\ Requirement[s] \in Amount
      BY <1>a, RequirementType, ZenonT(30) DEF StoreTypeOK, AgentRow
    <3>4. Plus(Minus(agents[a].avail, Requirement[s]), Requirement[s]) = Plus(agents[a].avail, Zero)
      BY <3>3, GivenBack
    <3> QED BY <2>1, <2>2, <3>1, <3>2, <3>4, Zenon DEF Moves
  <2> QED BY <2>4, <2>5, ZenonT(30)
<1>5. ASSUME NEW s \in Sandbox, ReleaseSandbox(s) PROVE Moves(a)
  <2>1. CASE rows[s].agent = NoAgent
    BY <1>1, <1>5, <2>1, ZenonT(30) DEF ReleaseSandbox
  <2>2. CASE rows[s].agent # NoAgent
    <3>1. rows'[s] = NoRow /\ Holding(s, a)' = Zero
      BY <1>5, <2>2, <1>a, <1>b DEF ReleaseSandbox, StoreTypeOK, Holding, NoRow
    <3>2. \A u \in Sandbox \ {s} : Holding(u, a)' = Holding(u, a)
      BY <1>5, <2>2, <1>a, ZenonT(60) DEF ReleaseSandbox, Holding, StoreTypeOK
    <3>3. CASE rows[s].agent # a
      BY <1>5, <2>2, <3>1, <3>2, <3>3, <1>a, ZenonT(60) DEF ReleaseSandbox, Holding, StoreTypeOK, Moves
    <3>4. CASE rows[s].agent = a
      <4>1. Holding(s, a) = rows[s].req
        BY <3>4 DEF Holding
      <4>2. agents'[a].avail = Plus(agents[a].avail, rows[s].req)
        BY <1>5, <2>2, <3>4, <1>a DEF ReleaseSandbox, StoreTypeOK, AgentRow
      <4>3. agents[a].avail \in Amount /\ rows[s].req \in Amount
        BY <1>a DEF StoreTypeOK, AgentRow, SandboxRow
      <4>4. Plus(Plus(agents[a].avail, rows[s].req), Zero) = Plus(agents[a].avail, rows[s].req)
        BY <4>3 DEF Plus, Zero, Amount
      <4> QED BY <3>1, <3>2, <4>1, <4>2, <4>4, Zenon DEF Moves
    <3> QED BY <3>3, <3>4, ZenonT(30)
  <2> QED BY <2>1, <2>2
<1>6. ASSUME NEW s \in Sandbox \cup {NoSandbox}, NEW b \in Agent, NEW st \in SandboxState,
             SaveSandboxState(s, b, st)
      PROVE  Moves(a)
  <2>1. agents' = agents
    BY <1>6, ZenonT(60) DEF SaveSandboxState
  <2>2. ASSUME NEW u \in Sandbox PROVE Holding(u, a)' = Holding(u, a)
    <3>1. rows[u] \in SandboxRow
      BY <1>a DEF StoreTypeOK
    <3>2. \/ rows'[u] = rows[u]
          \/ rows[u].agent = NoAgent /\ rows'[u].req = Zero
          \/ rows'[u].agent = rows[u].agent /\ rows'[u].req = rows[u].req
      BY <1>6, <1>a, <3>1 DEF SaveSandboxState, StoreTypeOK, SandboxRow
    <3> QED BY <3>2, <1>b DEF Holding
  <2> QED BY <2>1, <2>2, Zenon DEF Moves
<1> QED BY <1>a, <1>1, <1>2, <1>3, <1>4, <1>5, <1>6, ZenonT(60) DEF Transaction

LEMMA BalancedStep ==
  ASSUME BaseInv, [Next]_vars, NEW a \in Agent
  PROVE  Balanced(a)
BY SavedOrMoved, Zenon DEF Balanced, Moves, Registers

\* Except when an agent registers, every step moves resources between an
\* agent's available amounts and the reservation of one sandbox on it.
THEOREM LedgerIsDoubleEntry == Spec => DoubleEntry
<1>1. BaseInv /\ [Next]_vars => [\A a \in Agent : Balanced(a)]_vars
  BY BalancedStep
<1> QED BY <1>1, BaseHolds, PTL DEF Spec, DoubleEntry

LEMMA LevelsType ==
  /\ \A n \in Levels : n \in Nat
  /\ \A a \in Agent, r \in Resource, n \in Nat : n <= Capacity[a][r] => n \in Levels
<1>1. \A a \in Agent, r \in Resource : Capacity[a][r] \in Nat
  BY StoreAssumption DEF Amount
<1>2. ASSUME NEW n \in Levels PROVE n \in Nat
  <2>1. PICK a \in Agent, r \in Resource : n \in 0..Capacity[a][r]
    BY DEF Levels
  <2> QED BY <2>1, <1>1
<1>3. ASSUME NEW a \in Agent, NEW r \in Resource, NEW n \in Nat, n <= Capacity[a][r] PROVE n \in Levels
  <2>1. n \in 0..Capacity[a][r]
    BY <1>1, <1>3
  <2>2. n \in UNION {0..Capacity[a][q] : q \in Resource}
    BY <2>1
  <2> QED BY <2>2 DEF Levels
<1> QED BY <1>2, <1>3

\* Nothing measures nothing, and a set at least what each of its subsets does.
LEMMA MeasureFacts ==
  ASSUME NEW m \in Measure, NEW S \in SUBSET Sandbox
  PROVE  /\ m[S] \in Levels /\ m[S] \in Nat
         /\ m[S] <= m[Sandbox]
         /\ \A s \in S : m[S] = m[S \ {s}] + m[{s}]
<1>a. /\ \A T \in SUBSET Sandbox : m[T] \in Levels /\ m[T] \in Nat
      /\ \A T, U \in SUBSET Sandbox : T \cap U = {} => m[T \cup U] = m[T] + m[U]
  BY LevelsType, ZenonT(30) DEF Measure
<1>1. m[Sandbox] = m[S] + m[Sandbox \ S]
  <2>1. S \cup (Sandbox \ S) = Sandbox /\ S \cap (Sandbox \ S) = {}
    OBVIOUS
  <2> QED BY <1>a, <2>1, Zenon
<1>2. m[S] <= m[Sandbox]
  BY <1>1, <1>a
<1>3. ASSUME NEW s \in S PROVE m[S] = m[S \ {s}] + m[{s}]
  <2>1. (S \ {s}) \cup {s} = S /\ (S \ {s}) \cap {s} = {}
    OBVIOUS
  <2> QED BY <1>a, <2>1, Zenon
<1> QED BY <1>a, <1>2, <1>3, Zenon

LEMMA ZeroMeasure ==
  ASSUME NEW a \in Agent
  PROVE  [S \in SUBSET Sandbox |-> 0] \in Measure
<1>1. 0 \in Levels
  <2>1. "cpu" \in Resource /\ Capacity[a]["cpu"] \in Nat
    BY StoreAssumption, ZenonT(30) DEF Amount, Resource
  <2> QED BY <2>1, LevelsType
<1> QED BY <1>1 DEF Measure

\* The measure after the amount on sandbox s has become k.
Moved(m, s, k) == [S \in SUBSET Sandbox |-> IF s \in S THEN m[S \ {s}] + k ELSE m[S]]

\* Amount x makes up the capacity with what is measured; what is measured on s
\* and x together are y and k.
Completes(x, m, a, r) == x + m[Sandbox] = Capacity[a][r]
Trades(x, m, s, y, k) == y + k = x + m[{s}]

LEMMA MovedMeasure ==
  ASSUME NEW a \in Agent, NEW r \in Resource, NEW m \in Measure, NEW s \in Sandbox,
         NEW k \in Nat, NEW x \in Nat, NEW y \in Nat,
         Completes(x, m, a, r), Trades(x, m, s, y, k)
  PROVE  /\ Moved(m, s, k) \in Measure
         /\ Moved(m, s, k)[{s}] = k
         /\ \A u \in Sandbox \ {s} : Moved(m, s, k)[{u}] = m[{u}]
         /\ Completes(y, Moved(m, s, k), a, r)
<1> USE DEF Completes, Trades
<1> DEFINE h == m[{s}]
           n == Moved(m, s, k)
<1>a. /\ \A S \in SUBSET Sandbox : m[S] \in Levels /\ m[S] \in Nat
      /\ \A S, T \in SUBSET Sandbox : S \cap T = {} => m[S \cup T] = m[S] + m[T]
  BY MeasureFacts, Zenon DEF Measure
<1>b. Capacity[a][r] \in Nat
  BY StoreAssumption DEF Amount
<1>1. m[{}] = 0
  <2>1. m[{}] = m[{}] + m[{}]
    <3>1. {} \cup {} = {} /\ {} \cap {} = {} /\ {} \in SUBSET Sandbox
      BY ZenonT(60)
    <3> QED BY <1>a, <3>1, Zenon
  <2>2. m[{}] \in Nat
    BY <1>a
  <2>3. \A z \in Nat : z = z + z => z = 0
    OBVIOUS
  <2> QED BY <2>1, <2>2, <2>3, Zenon
<1>2. y + (m[Sandbox \ {s}] + k) = Capacity[a][r]
  <2>1. m[Sandbox] = m[Sandbox \ {s}] + h
    BY MeasureFacts, ZenonT(30)
  <2>2. m[Sandbox \ {s}] \in Nat /\ h \in Nat /\ m[Sandbox] \in Nat
    BY <1>a
  <2> QED BY <1>b, <2>1, <2>2
<1>3. ASSUME NEW S \in SUBSET Sandbox, s \in S PROVE m[S \ {s}] + k \in Levels
  <2>1. m[Sandbox \ {s}] = m[S \ {s}] + m[Sandbox \ S]
    <3>1. (S \ {s}) \cup (Sandbox \ S) = Sandbox \ {s} /\ (S \ {s}) \cap (Sandbox \ S) = {}
      BY <1>3
    <3> QED BY <1>a, <3>1, Zenon
  <2>2. m[Sandbox \ {s}] \in Nat /\ m[S \ {s}] \in Nat /\ m[Sandbox \ S] \in Nat
    BY <1>a, ZenonT(60)
  <2>3. m[S \ {s}] + k \in Nat /\ m[S \ {s}] + k <= Capacity[a][r]
    BY <1>2, <1>b, <2>1, <2>2
  <2> QED BY <2>3, LevelsType
<1>4. n \in [SUBSET Sandbox -> Levels]
  BY <1>3, <1>a, ZenonT(60) DEF Moved
<1>n. \A S \in SUBSET Sandbox : n[S] = IF s \in S THEN m[S \ {s}] + k ELSE m[S]
  BY DEF Moved
<1> HIDE DEF n
<1>5. ASSUME NEW S \in SUBSET Sandbox, NEW T \in SUBSET Sandbox, S \cap T = {}
      PROVE  n[S \cup T] = n[S] + n[T]
  <2>1. CASE s \notin S /\ s \notin T
    <3>1. S \cup T \in SUBSET Sandbox /\ s \notin S \cup T
      BY <2>1
    <3>2. n[S \cup T] = m[S \cup T]
      BY <1>n, <3>1, ZenonT(60)
    <3>3. n[S] = m[S] /\ n[T] = m[T]
      BY <1>n, <2>1, ZenonT(60)
    <3>4. m[S \cup T] = m[S] + m[T]
      BY <1>5, <1>a, Zenon
    <3> QED BY <3>2, <3>3, <3>4, Zenon
  <2>2. ASSUME NEW U \in SUBSET Sandbox, NEW V \in SUBSET Sandbox, U \cap V = {}, s \in U
        PROVE  n[U \cup V] = n[U] + n[V]
    <3>1. /\ (U \cup V) \ {s} = (U \ {s}) \cup V /\ (U \ {s}) \cap V = {}
          /\ s \notin V /\ s \in U \cup V /\ U \cup V \in SUBSET Sandbox
      BY <2>2
    <3>2. m[(U \cup V) \ {s}] = m[U \ {s}] + m[V]
      BY <1>a, <3>1, ZenonT(60)
    <3>3. m[U \ {s}] \in Nat /\ m[V] \in Nat
      BY <1>a
    <3>4. n[U \cup V] = (m[U \ {s}] + m[V]) + k /\ n[U] = m[U \ {s}] + k /\ n[V] = m[V]
      BY <1>n, <2>2, <3>1, <3>2, Zenon
    <3>5. \A p, q \in Nat : (p + q) + k = (p + k) + q
      OBVIOUS
    <3> QED BY <3>3, <3>4, <3>5, ZenonT(120)
  <2>3. CASE s \in T
    <3>1. T \cap S = {} /\ T \cup S = S \cup T
      BY <1>5
    <3>2. n[T \cup S] = n[T] + n[S]
      BY <2>2, <2>3, <3>1, Zenon
    <3>3. n[T] \in Nat /\ n[S] \in Nat
      BY <1>4, LevelsType, ZenonT(30)
    <3>4. \A p, q \in Nat : p + q = q + p
      OBVIOUS
    <3> QED BY <3>1, <3>2, <3>3, <3>4, Zenon
  <2>4. CASE s \in S
    BY <1>5, <2>2, <2>4, Zenon
  <2> QED BY <2>1, <2>3, <2>4
<1>6. n \in Measure
  BY <1>4, <1>5, ZenonT(30) DEF Measure
<1>7. n[{s}] = k
  <2>1. {s} \ {s} = {} /\ {s} \in SUBSET Sandbox
    OBVIOUS
  <2>2. n[{s}] = 0 + k
    BY <1>1, <1>n, <2>1, Zenon
  <2> QED BY <2>2
<1>8. \A u \in Sandbox \ {s} : n[{u}] = m[{u}]
  BY <1>n, Zenon
<1>9. y + n[Sandbox] = Capacity[a][r]
  BY <1>2, <1>n
<1> QED BY <1>6, <1>7, <1>8, <1>9, ZenonT(30) DEF n

LEMMA LedgerStep ==
  ASSUME IInv, LedgerBalanced, [Next]_vars
  PROVE  LedgerBalanced'
<1> SUFFICES ASSUME NEW a \in Agent, agents'[a].state # "absent",
                    \A st, u \in Registrations(a)' : st = u, NEW r \in Resource
             PROVE  \E m \in Measure : /\ \A s \in Sandbox : m[{s}] = Holding(s, a)'[r]
                                       /\ agents'[a].avail[r] + m[Sandbox] = Capacity[a][r]
  BY Zenon DEF LedgerBalanced
<1>a. TypeOK /\ TypeOK' /\ StoreTypeOK /\ StoreTypeOK' /\ Enrolled /\ Transaction
  BY OneTransaction, TypeStep, ZenonT(60) DEF IInv, BaseInv, TypeOK
<1>b. Registrations(a) \subseteq Registrations(a)'
  BY <1>a, RegistrationsGrow
<1>1. CASE Registers(a) /\ SaveAgent(a)
  <2>1. Registrations(a) = {}
    <3>1. PICK st \in Stream : Dialer[st] = a /\ phase[st] = "opened" /\ phase'[st] = "saved"
      BY <1>1, ZenonT(60) DEF Registers
    <3>2. st \in Registrations(a)' /\ st \notin Registrations(a)
      BY <3>1, ZenonT(30) DEF Registrations
    <3> QED BY <1>b, <3>2
  <2>2. \A s \in Sandbox : Holding(s, a) = Zero
    BY <1>a, <2>1 DEF Enrolled
  <2>3. \A s \in Sandbox : Holding(s, a)' = Zero
    BY <1>1, <2>2, Zenon DEF SaveAgent, Holding
  <2>4. agents'[a].avail = Capacity[a] /\ Capacity[a][r] \in Nat /\ Zero[r] = 0
    <3>1. agents'[a].avail = Capacity[a]
      BY <1>1, <1>a, ZenonT(30) DEF SaveAgent, StoreTypeOK
    <3>2. Capacity[a][r] \in Nat /\ Zero[r] = 0
      BY StoreAssumption, ZenonT(30) DEF Amount, Zero
    <3> QED BY <3>1, <3>2, ZenonT(60)
  <2> DEFINE m == [S \in SUBSET Sandbox |-> 0]
  <2>5. m \in Measure
    BY ZeroMeasure, ZenonT(30)
  <2>6. (\A s \in Sandbox : m[{s}] = 0) /\ m[Sandbox] = 0
    OBVIOUS
  <2>7. agents'[a].avail[r] + m[Sandbox] = Capacity[a][r]
    <3>1. \A n \in Nat : n + 0 = n
      OBVIOUS
    <3> QED BY <2>4, <2>6, <3>1, Zenon
  <2> QED BY <2>3, <2>4, <2>5, <2>6, <2>7, Zenon
<1>2. CASE Moves(a) /\ ~(Registers(a) /\ SaveAgent(a))
  <2>a. agents[a].state # "absent" /\ \A st, u \in Registrations(a) : st = u
    <3>1. agents[a].state # "absent"
      BY <1>a, <1>2, StateStep, ZenonT(30) DEF Enrolled
    <3> QED BY <1>b, <3>1, ZenonT(60)
  <2>1. PICK m \in Measure : /\ \A s \in Sandbox : m[{s}] = Holding(s, a)[r]
                             /\ agents[a].avail[r] + m[Sandbox] = Capacity[a][r]
    BY <2>a, Zenon DEF LedgerBalanced
  <2>2. CASE agents'[a].avail = agents[a].avail /\ \A s \in Sandbox : Holding(s, a)' = Holding(s, a)
    BY <2>1, <2>2, Zenon
  <2>3. ASSUME NEW s \in Sandbox,
               Plus(agents'[a].avail, Holding(s, a)') = Plus(agents[a].avail, Holding(s, a)),
               \A u \in Sandbox \ {s} : Holding(u, a)' = Holding(u, a)
        PROVE  \E n \in Measure : /\ \A u \in Sandbox : n[{u}] = Holding(u, a)'[r]
                                  /\ agents'[a].avail[r] + n[Sandbox] = Capacity[a][r]
    <3>1. PICK x \in Nat, y \in Nat, k \in Nat :
            x = agents[a].avail[r] /\ y = agents'[a].avail[r] /\ k = Holding(s, a)'[r]
      <4>1. /\ agents[a].avail[r] \in Nat /\ agents'[a].avail[r] \in Nat /\ Holding(s, a)'[r] \in Nat
        BY <1>a, AmountArithmetic DEF StoreTypeOK, AgentRow, SandboxRow, Amount, Holding
      <4> QED BY <4>1, Zenon
    <3>2. y + k = x + m[{s}] /\ x + m[Sandbox] = Capacity[a][r]
      <4>1. Plus(agents'[a].avail, Holding(s, a)')[r] = Plus(agents[a].avail, Holding(s, a))[r]
        BY <2>3, ZenonT(60)
      <4>2. agents'[a].avail[r] + Holding(s, a)'[r] = agents[a].avail[r] + Holding(s, a)[r]
        BY <4>1 DEF Plus
      <4> QED BY <2>1, <3>1, <4>2, Zenon
    <3>3. /\ Moved(m, s, k) \in Measure
          /\ Moved(m, s, k)[{s}] = k
          /\ \A u \in Sandbox \ {s} : Moved(m, s, k)[{u}] = m[{u}]
          /\ Completes(y, Moved(m, s, k), a, r)
      <4>1. m \in Measure /\ x \in Nat /\ y \in Nat /\ k \in Nat
        BY <2>1, <3>1, Zenon
      <4>2. Completes(x, m, a, r) /\ Trades(x, m, s, y, k)
        BY <3>2, Zenon DEF Completes, Trades
      <4> QED BY <4>1, <4>2, MovedMeasure, Zenon
    <3>4. \A u \in Sandbox : Moved(m, s, k)[{u}] = Holding(u, a)'[r]
      <4> TAKE u \in Sandbox
      <4>1. CASE u = s
        BY <3>1, <3>3, <4>1, Zenon
      <4>2. CASE u # s
        <5>1. Moved(m, s, k)[{u}] = m[{u}]
          BY <3>3, <4>2, Zenon
        <5>2. Holding(u, a)' = Holding(u, a)
          BY <2>3, <4>2
        <5> QED BY <2>1, <5>1, <5>2, Zenon
      <4> QED BY <4>1, <4>2, ZenonT(60)
    <3>5. agents'[a].avail[r] + Moved(m, s, k)[Sandbox] = Capacity[a][r]
      BY <3>1, <3>3, Zenon DEF Completes
    <3> QED BY <3>3, <3>4, <3>5, Zenon
  <2> QED BY <1>2, <2>2, <2>3, Zenon DEF Moves
<1> QED BY <1>1, <1>2, SavedOrMoved, Zenon DEF IInv

\* The ledger never drifts: whatever is created, deleted, cancelled, refused,
\* reported late, swept or restarted, and in whatever order, what an agent that
\* has registered once has available and what is reserved on it make up its
\* capacity.
THEOREM LedgerStaysBalanced == Spec => []LedgerBalanced
<1>1. Init => LedgerBalanced
  <2> SUFFICES ASSUME Init PROVE LedgerBalanced
    OBVIOUS
  <2>1. \A a \in Agent : agents[a].state = "absent"
    BY Zenon DEF Init, StoreInit
  <2> QED BY <2>1, Zenon DEF LedgerBalanced
<1>2. IInv /\ LedgerBalanced /\ [Next]_vars => LedgerBalanced'
  BY LedgerStep
<1> QED BY <1>1, <1>2, InvariantHolds, PTL DEF Spec
=============================================================================
