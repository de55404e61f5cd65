------------------------------ MODULE Controller ------------------------------
(***************************************************************************)
(* The control plane: the agent_stream handler of the controller's gRPC    *)
(* service, the SandboxManagementService handlers, the dead-agent sweep    *)
(* and the agent's end of the stream, over the tables of ControllerStore.  *)
(*                                                                         *)
(* A step is what a task does between two awaits that let other tasks run: *)
(* one store transaction, one send into a channel, or one update of the    *)
(* in-memory table of connections.                                         *)
(***************************************************************************)
EXTENDS ControllerStore, Sequences, FiniteSets, Functions

CONSTANTS
  Stream,      \* AgentStream calls; each is made once
  NoStream,
  Dialer,      \* the agent that makes a call
  Op,          \* management calls; each is made once
  NoSandbox,
  Requests,    \* the calls besides create that callers make
  Failures     \* what the environment inflicts: "store", "cancel", "restart"

\* There are finitely many agents.
ASSUME AgentsAreCounted == \A A \in SUBSET Agent : Cardinality(A) \in Nat

ASSUME ControllerAssumption ==
  /\ NoStream \notin Stream
  /\ Dialer \in [Stream -> Agent]
  /\ NoSandbox \notin Sandbox
  /\ Requests \subseteq {"delete", "pause", "unpause"}
  /\ Failures \subseteq {"store", "cancel", "restart"}

VARIABLES
  conn,     \* AgentConnections: the stream a command for an agent goes to
  phase,    \* the controller task that serves a stream
  client,   \* the agent's end of a stream
  out,      \* commands on their way to the agent, or being run by it
  inbox,    \* statuses on their way to the controller
  ops,      \* the management calls
  calls,    \* what became of the CreateSandbox call that made a sandbox id
  sweep     \* sweep_dead_agents: agents left to mark, connection left to drop

vars == <<store, conn, phase, client, out, inbox, ops, calls, sweep>>

Command == [kind : {"accept", "reject", "create", "delete", "pause", "unpause"},
            sandbox : Sandbox \cup {NoSandbox}]

Report == [sandbox : Sandbox \cup {NoSandbox}, state : SandboxState]

OpRecord == [kind : {"none", "create", "delete", "pause", "unpause"},
             pc : {"idle", "try", "check", "send", "rollback", "record", "release",
                   "done"},
             sandbox : Sandbox \cup {NoSandbox},
             agent : Agent \cup {NoAgent},
             cands : Seq(Agent)]

Idle == [kind |-> "none", pc |-> "idle", sandbox |-> NoSandbox,
         agent |-> NoAgent, cands |-> << >>]

Done == [Idle EXCEPT !.pc = "done"]

TypeOK ==
  /\ StoreTypeOK
  /\ conn \in [Agent -> Stream \cup {NoStream}]
  /\ phase \in [Stream -> {"unused", "opened", "saved", "connected", "serving",
                           "saving", "rejected", "closing", "ended"}]
  /\ client \in [Stream -> {"none", "waiting", "ready", "gone"}]
  /\ out \in [Stream -> Seq(Command)]
  /\ inbox \in [Stream -> Seq(Report)]
  /\ ops \in [Op -> OpRecord]
  /\ calls \in [Sandbox -> {"unissued", "pending", "created", "refused", "lost"}]
  /\ sweep \in [todo : SUBSET Agent, drop : Agent \cup {NoAgent}]

Init ==
  /\ StoreInit
  /\ conn = [a \in Agent |-> NoStream]
  /\ phase = [st \in Stream |-> "unused"]
  /\ client = [st \in Stream |-> "none"]
  /\ out = [st \in Stream |-> << >>]
  /\ inbox = [st \in Stream |-> << >>]
  /\ ops = [o \in Op |-> Idle]
  /\ calls = [s \in Sandbox |-> "unissued"]
  /\ sweep = [todo |-> {}, drop |-> NoAgent]

streamVars == <<phase, client, out, inbox>>
opVars == <<ops, calls>>

-----------------------------------------------------------------------------
(* AgentConnections *)

Connect(st) == conn' = [conn EXCEPT ![Dialer[st]] = st]

Disconnect(a) == conn' = [conn EXCEPT ![a] = NoStream]

\* Wrong: the command goes to whichever agent is connected.
DeliveredAnywhere(a, kind, s) ==
  \E b \in Agent :
    /\ conn[b] # NoStream
    /\ out' = [out EXCEPT ![conn[b]] = Append(@, [kind |-> kind, sandbox |-> s])]

\* send_command succeeds: the sender is found and its channel is open.  What
\* is put in the channel of an agent that has gone, or after the error that
\* closes a stream, is never read.
Delivered(a, kind, s) ==
  /\ conn[a] # NoStream
  /\ out' = IF client[conn[a]] = "gone" \/ phase[conn[a]] = "closing" THEN out
            ELSE [out EXCEPT ![conn[a]] = Append(@, [kind |-> kind, sandbox |-> s])]

\* send_command fails: no sender, or the far end is gone and the channel
\* already closed.
Undeliverable(a) ==
  \/ conn[a] = NoStream
  \/ conn[a] # NoStream /\ client[conn[a]] = "gone"

-----------------------------------------------------------------------------
(* The agent's end of a stream: ControllerClient::run *)

\* An agent dials again only when the previous run has returned.
AgentDial(st) ==
  /\ phase[st] = "unused"
  /\ \A t \in Stream : Dialer[t] = Dialer[st] => client[t] \in {"none", "gone"}
  /\ phase' = [phase EXCEPT ![st] = "opened"]
  /\ client' = [client EXCEPT ![st] = "waiting"]
  /\ UNCHANGED <<store, conn, out, inbox, opVars, sweep>>

\* The first message must be an accepting RegisterResponse; on any other the
\* run fails, and the message is lost with it.
AgentGreeted(st) ==
  /\ client[st] = "waiting"
  /\ out[st] # << >>
  /\ client' = [client EXCEPT ![st] =
       IF Head(out[st]).kind = "accept" THEN "ready" ELSE "gone"]
  /\ out' = [out EXCEPT ![st] = IF Head(@).kind = "accept" THEN Tail(@) ELSE << >>]
  /\ UNCHANGED <<store, conn, phase, inbox, opVars, sweep>>

\* What the agent reports for a command: the state reached if the runtime call
\* succeeds, and the one it reports if the call fails.
Outcomes(kind) ==
  CASE kind = "create"  -> {"running", "failed"}
    [] kind = "delete"  -> {"stopped", "failed"}
    [] kind = "pause"   -> {"paused", "running"}
    [] kind = "unpause" -> {"running", "paused"}
    [] OTHER            -> {}

Without(q, i) == SubSeq(q, 1, i - 1) \o SubSeq(q, i + 1, Len(q))

\* Every command is run by a task of its own, so commands finish in any order.
\* The status is lost when the controller no longer reads the stream.
AgentRuns(st, i, result) ==
  /\ client[st] = "ready"
  /\ result \in Outcomes(out[st][i].kind)
  /\ out' = [out EXCEPT ![st] = Without(@, i)]
  /\ inbox' = IF phase[st] = "ended" THEN inbox
              ELSE [inbox EXCEPT ![st] =
                      Append(@, [sandbox |-> out[st][i].sandbox, state |-> result])]
  /\ UNCHANGED <<store, conn, phase, client, opVars, sweep>>

\* The connection breaks, or the agent process stops.
AgentGone(st) ==
  /\ client[st] \in {"waiting", "ready"}
  /\ client' = [client EXCEPT ![st] = "gone"]
  /\ out' = [out EXCEPT ![st] = << >>]
  /\ UNCHANGED <<store, conn, phase, inbox, opVars, sweep>>

-----------------------------------------------------------------------------
(* GrpcHandler::agent_stream *)

Enter(st, from, to) ==
  /\ phase[st] = from
  /\ phase' = [phase EXCEPT ![st] = to]

\* registry.register: the ledger row is written first ...
RegisterSave(st) ==
  /\ Enter(st, "opened", "saved")
  /\ SaveAgent(Dialer[st])
  /\ UNCHANGED <<conn, client, out, inbox, opVars, sweep>>

\* ... or the write fails and the agent is told that it is rejected, as it is
\* when its join token is refused.
RegisterReject(st) ==
  /\ "store" \in Failures
  /\ Enter(st, "opened", "rejected")
  /\ out' = IF client[st] = "gone" THEN out
            ELSE [out EXCEPT ![st] =
                    Append(@, [kind |-> "reject", sandbox |-> NoSandbox])]
  /\ UNCHANGED <<store, conn, client, inbox, opVars, sweep>>

\* connections.add
RegisterConnect(st) ==
  /\ Enter(st, "saved", "connected")
  /\ Connect(st)
  /\ UNCHANGED <<store, client, out, inbox, opVars, sweep>>

\* record_heartbeat, whose failure is only logged, then the RegisterResponse.
RegisterRespond(st) ==
  /\ Enter(st, "connected", "serving")
  /\ \/ RecordHeartbeat(Dialer[st])
     \/ "store" \in Failures /\ UNCHANGED store
  /\ out' = IF client[st] = "gone" THEN out
            ELSE [out EXCEPT ![st] =
                    Append(@, [kind |-> "accept", sandbox |-> NoSandbox])]
  /\ UNCHANGED <<conn, client, inbox, opVars, sweep>>

\* A heartbeat: get_agent finds the row (no code deletes it), then the time is
\* recorded.  The state of the agent is not looked at.  Heartbeats may still be
\* on their way when the agent has gone.
Heartbeat(st) ==
  /\ phase[st] = "serving"
  /\ client[st] \in {"ready", "gone"}
  /\ RecordHeartbeat(Dialer[st])
  /\ UNCHANGED <<conn, streamVars, opVars, sweep>>

\* get_agent fails: the stream is closed.
HeartbeatFails(st) ==
  /\ "store" \in Failures
  /\ client[st] \in {"ready", "gone"}
  /\ Enter(st, "serving", "closing")
  /\ UNCHANGED <<store, conn, client, out, inbox, opVars, sweep>>

\* The owner check on a SandboxStatus: the sender must hold the routing entry,
\* or there is none and the reported state is terminal.
Acceptable(st, report) ==
  \/ routing[report.sandbox] = Dialer[st]
  \/ routing[report.sandbox] = NoAgent /\ report.state \in {"stopped", "failed"}

StatusCheck(st) ==
  /\ inbox[st] # << >>
  /\ Acceptable(st, Head(inbox[st]))
  /\ Enter(st, "serving", "saving")
  /\ UNCHANGED <<store, conn, client, out, inbox, opVars, sweep>>

StatusDrop(st) ==
  /\ phase[st] = "serving"
  /\ inbox[st] # << >>
  /\ ~Acceptable(st, Head(inbox[st])) \/ "store" \in Failures
  /\ inbox' = [inbox EXCEPT ![st] = Tail(@)]
  /\ UNCHANGED <<store, conn, phase, client, out, opVars, sweep>>

\* save_sandbox_state, whose failure is only logged.
StatusSave(st) ==
  /\ Enter(st, "saving", "serving")
  /\ \/ SaveSandboxState(Head(inbox[st]).sandbox, Dialer[st], Head(inbox[st]).state)
     \/ "store" \in Failures /\ UNCHANGED store
  /\ inbox' = [inbox EXCEPT ![st] = Tail(@)]
  /\ UNCHANGED <<conn, client, out, opVars, sweep>>

\* Wrong: the connection is left in the table.
StreamEndKeeping(st) ==
  /\ \/ phase[st] = "closing"
     \/ phase[st] \in {"opened", "serving", "rejected"} /\ client[st] = "gone"
  /\ phase' = [phase EXCEPT ![st] = "ended"]
  /\ inbox' = [inbox EXCEPT ![st] = << >>]
  /\ UNCHANGED <<store, conn, client, out, opVars, sweep>>

\* The loop ends.  A task that registered an agent removes that agent's
\* connection, whichever stream it belongs to by now.
StreamEnd(st) ==
  /\ \/ phase[st] = "closing"
     \/ phase[st] \in {"opened", "serving", "rejected"} /\ client[st] = "gone"
  /\ phase' = [phase EXCEPT ![st] = "ended"]
  /\ inbox' = [inbox EXCEPT ![st] = << >>]
  /\ IF phase[st] \in {"serving", "closing"} THEN Disconnect(Dialer[st])
                                             ELSE UNCHANGED conn
  /\ UNCHANGED <<store, client, out, opVars, sweep>>

-----------------------------------------------------------------------------
(* SandboxManagementService: create *)

\* The agents the scheduler will try for s, in the order it will try them: the
\* snapshot sorted by available CPU, without those too small for the request.
CandidateOrders(s) ==
  LET C == {a \in Agent : Assignable(a, s)}
      n == Cardinality(C)
  IN  {q \in [1..n -> C] :
         \A i, j \in 1..n : i < j =>
           /\ q[i] # q[j]
           /\ agents[q[i]].avail["cpu"] >= agents[q[j]].avail["cpu"]}

\* Wrong: an id that is in use is taken again.
CreateBeginAgain(o, s) ==
  /\ ops[o].pc = "idle"
  /\ \E q \in CandidateOrders(s) :
       ops' = [ops EXCEPT ![o] = [kind |-> "create", pc |-> "try", sandbox |-> s,
                                  agent |-> NoAgent, cands |-> q]]
  /\ calls' = [calls EXCEPT ![s] = "pending"]
  /\ UNCHANGED <<store, conn, streamVars, sweep>>

\* A fresh sandbox id, and list_active_agents.
CreateBegin(o, s) ==
  /\ ops[o].pc = "idle"
  /\ calls[s] = "unissued"
  /\ \E q \in CandidateOrders(s) :
       ops' = [ops EXCEPT ![o] = [kind |-> "create", pc |-> "try", sandbox |-> s,
                                  agent |-> NoAgent, cands |-> q]]
  /\ calls' = [calls EXCEPT ![s] = "pending"]
  /\ UNCHANGED <<store, conn, streamVars, sweep>>

Return(o, fate) ==
  /\ ops' = [ops EXCEPT ![o] = Done]
  /\ calls' = [calls EXCEPT ![ops[o].sandbox] = fate]

Goto(o, pc) == ops' = [ops EXCEPT ![o].pc = pc]

\* try_assign_sandbox on the best candidate succeeds ...
CreateReserve(o) ==
  /\ ops[o].pc = "try"
  /\ ops[o].cands # << >>
  /\ TryAssignSandbox(Head(ops[o].cands), ops[o].sandbox)
  /\ ops' = [ops EXCEPT ![o].pc = "send", ![o].agent = Head(ops[o].cands),
                        ![o].cands = << >>]
  /\ UNCHANGED <<conn, streamVars, calls, sweep>>

\* Wrong: the candidate that was refused is tried for ever.
CreateSkipStuck(o) ==
  /\ ops[o].pc = "try"
  /\ ops[o].cands # << >>
  /\ ~Assignable(Head(ops[o].cands), ops[o].sandbox)
  /\ UNCHANGED vars

\* ... or answers false, because the snapshot was stale, and the next is tried.
CreateSkip(o) ==
  /\ ops[o].pc = "try"
  /\ ops[o].cands # << >>
  /\ ~Assignable(Head(ops[o].cands), ops[o].sandbox)
  /\ ops' = [ops EXCEPT ![o].cands = Tail(@)]
  /\ UNCHANGED <<store, conn, streamVars, calls, sweep>>

\* NoAvailableAgents, or the store failed.
CreateRefuse(o) ==
  /\ ops[o].pc = "try"
  /\ ops[o].cands = << >> \/ "store" \in Failures
  /\ Return(o, "refused")
  /\ UNCHANGED <<store, conn, streamVars, sweep>>

CreateSend(o) ==
  /\ ops[o].kind = "create"
  /\ ops[o].pc = "send"
  /\ \/ /\ Delivered(ops[o].agent, "create", ops[o].sandbox)
        /\ Goto(o, "record")
     \/ /\ Undeliverable(ops[o].agent)
        /\ Goto(o, "rollback")
        /\ UNCHANGED out
  /\ UNCHANGED <<store, conn, phase, client, inbox, calls, sweep>>

\* Wrong: the reservation is kept.
CreateRollbackForgets(o) ==
  /\ ops[o].pc = "rollback"
  /\ Return(o, "refused")
  /\ UNCHANGED <<store, conn, streamVars, sweep>>

\* The reservation is given back; a failure to do so is only logged.
CreateRollback(o) ==
  /\ ops[o].pc = "rollback"
  /\ \/ ReleaseSandbox(ops[o].sandbox)
     \/ "store" \in Failures /\ UNCHANGED store
  /\ Return(o, "refused")
  /\ UNCHANGED <<conn, streamVars, sweep>>

\* The optimistic "creating", best effort, and the answer to the caller.
CreateRecord(o) ==
  /\ ops[o].kind = "create"
  /\ ops[o].pc = "record"
  /\ \/ SaveSandboxState(ops[o].sandbox, ops[o].agent, "creating")
     \/ "store" \in Failures /\ UNCHANGED store
  /\ Return(o, "created")
  /\ UNCHANGED <<conn, streamVars, sweep>>

-----------------------------------------------------------------------------
(* SandboxManagementService: delete, pause and unpause *)

\* find_routing_entry, for an id a caller has been given.  Without an entry the
\* call answers NotFound and changes nothing.
Find(o, kind, s, pc) ==
  /\ kind \in Requests
  /\ ops[o].pc = "idle"
  /\ calls[s] = "created"
  /\ routing[s] # NoAgent
  /\ ops' = [ops EXCEPT ![o] = [kind |-> kind, pc |-> pc, sandbox |-> s,
                                agent |-> routing[s], cands |-> << >>]]
  /\ UNCHANGED <<store, conn, streamVars, calls, sweep>>

\* The command is sent and the call goes on, or it fails and the call ends.
Send(o, kind, pc) ==
  /\ ops[o].kind = kind
  /\ ops[o].pc = "send"
  /\ \/ /\ Delivered(ops[o].agent, kind, ops[o].sandbox)
        /\ Goto(o, pc)
     \/ /\ Undeliverable(ops[o].agent)
        /\ ops' = [ops EXCEPT ![o] = Done]
        /\ UNCHANGED out
  /\ UNCHANGED <<store, conn, phase, client, inbox, calls, sweep>>

\* get_sandbox_state: the call goes on without a row or in one of the states.
Check(o, kind, states) ==
  /\ ops[o].kind = kind
  /\ ops[o].pc = "check"
  /\ IF rows[ops[o].sandbox].state \in states \cup {"none"}
       THEN Goto(o, "send")
       ELSE ops' = [ops EXCEPT ![o] = Done]
  /\ UNCHANGED <<store, conn, streamVars, calls, sweep>>

\* The optimistic transition state, best effort.
Record(o, kind, state) ==
  /\ ops[o].kind = kind
  /\ ops[o].pc = "record"
  /\ \/ SaveSandboxState(ops[o].sandbox, ops[o].agent, state)
     \/ "store" \in Failures /\ UNCHANGED store
  /\ ops' = [ops EXCEPT ![o] = Done]
  /\ UNCHANGED <<conn, streamVars, calls, sweep>>

DeleteFind(o, s) == Find(o, "delete", s, "send")

DeleteSend(o) == Send(o, "delete", "release")

DeleteRelease(o) ==
  /\ ops[o].pc = "release"
  /\ \/ ReleaseSandbox(ops[o].sandbox)
     \/ "store" \in Failures /\ UNCHANGED store
  /\ ops' = [ops EXCEPT ![o] = Done]
  /\ UNCHANGED <<conn, streamVars, calls, sweep>>

PauseFind(o, s) == Find(o, "pause", s, "check")

PauseCheck(o) == Check(o, "pause", {"running", "pausing", "paused"})

PauseSend(o) == Send(o, "pause", "record")

PauseRecord(o) == Record(o, "pause", "pausing")

UnpauseFind(o, s) == Find(o, "unpause", s, "check")

UnpauseCheck(o) == Check(o, "unpause", {"paused", "unpausing", "running"})

UnpauseSend(o) == Send(o, "unpause", "record")

UnpauseRecord(o) == Record(o, "unpause", "unpausing")

\* The caller hangs up: tonic drops the handler's future at its current await.
Cancel(o) ==
  /\ "cancel" \in Failures
  /\ ops[o].pc \notin {"idle", "done"}
  /\ ops' = [ops EXCEPT ![o] = Done]
  /\ calls' = IF ops[o].kind = "create"
              THEN [calls EXCEPT ![ops[o].sandbox] = "lost"] ELSE calls
  /\ UNCHANGED <<store, conn, streamVars, sweep>>

-----------------------------------------------------------------------------
(* The dead-agent sweep, and a restart of the controller *)

\* The sweep loop ticks for ever; most ticks find nobody.
SweepQuery ==
  /\ sweep.todo = {}
  /\ sweep.drop = NoAgent
  /\ sweep' = [sweep EXCEPT !.todo = DeadAgents]
  /\ UNCHANGED <<store, conn, streamVars, opVars>>

SweepMark(a) ==
  /\ a \in sweep.todo
  /\ sweep.drop = NoAgent
  /\ MarkAgentDead(a)
  /\ sweep' = [todo |-> sweep.todo \ {a}, drop |-> a]
  /\ UNCHANGED <<conn, streamVars, opVars>>

SweepMarkFails(a) ==
  /\ "store" \in Failures
  /\ a \in sweep.todo
  /\ sweep.drop = NoAgent
  /\ sweep' = [sweep EXCEPT !.todo = @ \ {a}]
  /\ UNCHANGED <<store, conn, streamVars, opVars>>

\* Wrong: the agent is not struck off.
SweepDropStuck ==
  /\ sweep.drop # NoAgent
  /\ Disconnect(sweep.drop)
  /\ UNCHANGED <<store, streamVars, opVars, sweep>>

SweepDrop ==
  /\ sweep.drop # NoAgent
  /\ Disconnect(sweep.drop)
  /\ sweep' = [sweep EXCEPT !.drop = NoAgent]
  /\ UNCHANGED <<store, streamVars, opVars>>

\* Everything but the tables is lost.
ControllerRestart ==
  /\ "restart" \in Failures
  /\ conn' = [a \in Agent |-> NoStream]
  /\ phase' = [st \in Stream |-> IF phase[st] = "unused" THEN "unused" ELSE "ended"]
  /\ inbox' = [st \in Stream |-> << >>]
  /\ ops' = [o \in Op |-> IF ops[o].pc = "idle" THEN Idle ELSE Done]
  /\ calls' = [s \in Sandbox |-> IF calls[s] = "pending" THEN "lost" ELSE calls[s]]
  /\ sweep' = [todo |-> {}, drop |-> NoAgent]
  /\ UNCHANGED <<store, client, out>>

Expire(a) ==
  /\ HeartbeatExpires(a)
  /\ UNCHANGED <<conn, streamVars, opVars, sweep>>

-----------------------------------------------------------------------------
AgentStep(st) ==
  \/ AgentDial(st) \/ AgentGreeted(st) \/ AgentGone(st)
  \/ \E i \in DOMAIN out[st], result \in SandboxState : AgentRuns(st, i, result)

StreamStep(st) ==
  \/ RegisterSave(st) \/ RegisterReject(st) \/ RegisterConnect(st)
  \/ RegisterRespond(st) \/ Heartbeat(st) \/ HeartbeatFails(st)
  \/ StatusCheck(st) \/ StatusDrop(st) \/ StatusSave(st) \/ StreamEnd(st)

CreateStep(o) ==
  \/ CreateReserve(o) \/ CreateSkip(o) \/ CreateRefuse(o)
  \/ CreateSend(o) \/ CreateRollback(o) \/ CreateRecord(o)

CallStep(o) ==
  \/ CreateStep(o) \/ DeleteSend(o) \/ DeleteRelease(o)
  \/ PauseCheck(o) \/ PauseSend(o) \/ PauseRecord(o)
  \/ UnpauseCheck(o) \/ UnpauseSend(o) \/ UnpauseRecord(o)

Request(o) ==
  \E s \in Sandbox : \/ CreateBegin(o, s) \/ DeleteFind(o, s)
                     \/ PauseFind(o, s) \/ UnpauseFind(o, s)

SweepStep == SweepQuery \/ SweepDrop \/ \E a \in Agent : SweepMark(a)

Next ==
  \/ \E st \in Stream : AgentStep(st) \/ StreamStep(st)
  \/ \E o \in Op : Request(o) \/ CallStep(o) \/ Cancel(o)
  \/ SweepStep
  \/ \E a \in Agent : SweepMarkFails(a) \/ Expire(a)
  \/ ControllerRestart

Spec == Init /\ [][Next]_vars

-----------------------------------------------------------------------------
(* Fairness: tokio runs every task that is ready, Postgres answers, and the  *)
(* sweep loop ticks for ever.  Nothing is assumed of callers, of the network *)
(* or of how often the store fails, except that marking an agent dead does   *)
(* not fail every time it is tried.  No progress is owed to a failure.       *)
StoreFails(o) == ops[o].cands # << >> /\ calls'[ops[o].sandbox] = "refused"

Fairness ==
  /\ \A o \in Op : WF_vars(CallStep(o) /\ ~StoreFails(o))
  /\ WF_vars(SweepQuery \/ SweepDrop)
  /\ \A a \in Agent : SF_vars(SweepMark(a))

FairSpec == Spec /\ Fairness

-----------------------------------------------------------------------------
(* What holds *)

\* A dead agent has no routing entry: mark_agent_dead_atomic and
\* try_assign_sandbox leave no window in which a sandbox is routed to an agent
\* that is not active, however the sweep and the scheduler interleave.
RoutedAgentsActive ==
  \A s \in Sandbox : routing[s] # NoAgent => Active(routing[s])

\* As long as a sandbox is routed, its sandboxes row names the same agent and
\* holds exactly what the scheduler took from that agent, whatever statuses,
\* late statuses and optimistic states have been saved to the row meanwhile;
\* so release_sandbox credits the right agent with the right amount.
RoutedReserved ==
  \A s \in Sandbox : routing[s] # NoAgent =>
    rows[s].agent = routing[s] /\ rows[s].req = Requirement[s]

\* A sender in the connection table belongs to its agent and to a stream whose
\* task is still running: send_command never uses the channel of a stream that
\* has ended.
ConnectionsLive ==
  \A a \in Agent : conn[a] # NoStream =>
    /\ Dialer[conn[a]] = a
    /\ phase[conn[a]] \in {"connected", "serving", "saving", "closing"}

\* The commands and statuses of a stream are about sandboxes of its own agent:
\* no other agent is ever routed to, or recorded as holding, a sandbox that
\* this one has been told to start.
OwnerAgrees ==
  \A st \in Stream :
    \A m \in Range(out[st]) \cup Range(inbox[st]) : m.sandbox # NoSandbox =>
      /\ routing[m.sandbox] \in {NoAgent, Dialer[st]}
      /\ rows[m.sandbox].agent \in {NoAgent, Dialer[st]}

\* A create call that was refused has left neither a route nor a reservation,
\* at whichever of its steps it failed (unless the store failed as well).
RefusedLeavesNothing ==
  "store" \notin Failures =>
    \A s \in Sandbox : calls[s] = "refused" => routing[s] = NoAgent /\ rows[s] = NoRow

Holding(s, a) == IF rows[s].agent = a THEN rows[s].req ELSE Zero

\* The ledger is double entry: except when an agent registers, what a step
\* takes from an agent's available resources it adds to the reservation of one
\* sandbox on that agent, and what it gives back it takes from one.
Balanced(a) ==
  \/ \E st \in Stream : Dialer[st] = a /\ phase[st] = "opened" /\ phase'[st] = "saved"
  \/ /\ agents'[a].avail = agents[a].avail
     /\ \A s \in Sandbox : Holding(s, a)' = Holding(s, a)
  \/ \E s \in Sandbox :
       /\ Plus(agents'[a].avail, Holding(s, a)') = Plus(agents[a].avail, Holding(s, a))
       /\ \A u \in Sandbox \ {s} : Holding(u, a)' = Holding(u, a)

DoubleEntry == [][\A a \in Agent : Balanced(a)]_vars

\* Measures of sets of sandboxes: what disjoint sets measure adds up.  When the
\* sandboxes are finitely many, the measure of a set of them is the sum of the
\* measures of each.
Levels == UNION {UNION {0..Capacity[a][r] : r \in Resource} : a \in Agent}

Measure ==
  {m \in [SUBSET Sandbox -> Levels] :
     \A S, T \in SUBSET Sandbox : S \cap T = {} => m[S \cup T] = m[S] + m[T]}

\* The streams on which an agent may have got as far as save_agent.
Registrations(a) ==
  {st \in Stream : Dialer[st] = a /\ phase[st] \notin {"unused", "opened", "rejected"}}

\* What an agent that has registered once has available, and what is reserved
\* on it, add up to its capacity: no sequence of creates, deletes, cancelled
\* or failed calls, late statuses, sweeps and restarts loses or invents any.
LedgerBalanced ==
  \A a \in Agent :
    agents[a].state # "absent" /\ (\A st, u \in Registrations(a) : st = u) =>
      \A r \in Resource : \E m \in Measure :
        /\ \A s \in Sandbox : m[{s}] = Holding(s, a)[r]
        /\ agents[a].avail[r] + m[Sandbox] = Capacity[a][r]

\* A sandbox id that the scheduler has not placed, and still may.
Fresh(s) ==
  calls[s] = "unissued" \/ \E o \in Op : ops[o].pc = "try" /\ ops[o].sandbox = s

Up == {a \in Agent : Active(a)}

Spent == {s \in Sandbox : ~Fresh(s)}

Promise == INSTANCE Placement WITH up <- Up, placed <- routing, spent <- Spent

\* The routing table keeps the promise of Placement: whatever is cancelled,
\* lost, reported late or restarted, a sandbox is routed at most once, to an
\* agent active at that moment, and loses its route with its agent.
PlacementKept == Promise!Spec

\* An agent whose heartbeats have stopped is taken out of scheduling, or heard
\* from again: the sweep cannot miss it, get stuck on another agent or be
\* stopped by restarts of the controller.
SilentAgentEvicted ==
  \A a \in Agent :
    (Active(a) /\ agents[a].seen = "stale")
      ~> (agents[a].state = "dead" \/ agents[a].seen = "fresh")

\* Every CreateSandbox call ends, however often its candidates are taken from
\* under it and wherever its agent goes away.
CreateReturns == \A s \in Sandbox : calls[s] = "pending" ~> calls[s] # "pending"

-----------------------------------------------------------------------------
(* The inductive invariants behind the proofs: BaseInv of the tables, the   *)
(* streams and the calls, IInv also of what names a sandbox or an agent.    *)

\* A status that has passed the owner check is still there to be saved.
SavingReports == \A st \in Stream : phase[st] = "saving" => inbox[st] # << >>

\* What a call in progress works on.
OpsFormed ==
  \A o \in Op :
    \/ ops[o] \in {Idle, Done}
    \/ /\ ops[o].pc \notin {"idle", "done"}
       /\ ops[o].sandbox \in Sandbox
       /\ calls[ops[o].sandbox] # "unissued"
       /\ IF ops[o].pc = "try" THEN ops[o].kind = "create" ELSE ops[o].agent \in Agent

\* A fresh id occurs nowhere but in the one call that is about to place it.
FreshUnknown ==
  /\ \A s \in Sandbox : Fresh(s) =>
       /\ routing[s] = NoAgent
       /\ rows[s] = NoRow
       /\ \A o \in Op : ops[o].sandbox = s => ops[o].pc = "try"
       /\ \A st \in Stream : \A i \in DOMAIN out[st] : out[st][i].sandbox # s
       /\ \A st \in Stream : \A i \in DOMAIN inbox[st] : inbox[st][i].sandbox # s
  /\ \A o, p \in Op :
       ops[o].pc = "try" /\ ops[p].pc = "try" /\ ops[o].sandbox = ops[p].sandbox => o = p

BaseInv ==
  /\ TypeOK
  /\ SavingReports
  /\ OpsFormed
  /\ FreshUnknown
  /\ RoutedAgentsActive
  /\ RoutedReserved
  /\ ConnectionsLive

\* No command and no status on stream st is about sandbox s.
Silent(st, s) == /\ \A i \in DOMAIN out[st] : out[st][i].sandbox # s
                 /\ \A i \in DOMAIN inbox[st] : inbox[st][i].sandbox # s

\* All that names a sandbox names agent a: the tables, the calls about it and
\* the streams that carry a command for it or a status of it.
OwnedBy(s, a) ==
  /\ routing[s] \in {NoAgent, a} /\ rows[s].agent \in {NoAgent, a}
  /\ \A o \in Op : ops[o].sandbox = s /\ ops[o].pc # "try" => ops[o].agent = a
  /\ \A st \in Stream : Dialer[st] # a => Silent(st, s)

Owned == \A s \in Sandbox : \E a \in Agent \cup {NoAgent} : OwnedBy(s, a)

\* A create call is alone with its sandbox until it answers, and until it has
\* sent its command no agent has heard of the sandbox.
CreatesAlone ==
  \A o \in Op :
    /\ ops[o].pc = "rollback" => ops[o].kind = "create"
    /\ ops[o].kind = "create" =>
         /\ calls[ops[o].sandbox] = "pending"
         /\ \A p \in Op \ {o} : ops[p].sandbox # ops[o].sandbox
         /\ ops[o].pc \in {"send", "rollback"} =>
              /\ rows[ops[o].sandbox].agent # NoAgent
              /\ \A st \in Stream : Silent(st, ops[o].sandbox)

\* No call is about a sandbox that was refused, and no agent has heard of it.
RefusedForgotten ==
  \A s \in Sandbox : calls[s] = "refused" =>
    /\ \A o \in Op : ops[o].sandbox # s
    /\ \A st \in Stream : Silent(st, s)

\* An agent without a row has no reservation and is not about to be marked
\* dead; one with a row has registered.
Enrolled ==
  \A a \in Agent :
    IF agents[a].state = "absent"
      THEN a \notin sweep.todo /\ \A s \in Sandbox : Holding(s, a) = Zero
      ELSE Registrations(a) # {}

IInv ==
  /\ BaseInv
  /\ Owned
  /\ CreatesAlone
  /\ RefusedForgotten
  /\ RefusedLeavesNothing
  /\ Enrolled
=============================================================================
