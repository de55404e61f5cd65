--------------------------- MODULE ControllerStore ---------------------------
(***************************************************************************)
(* The controller's durable state: the Postgres tables agents,             *)
(* routing_entries and sandboxes, and one operator per store transaction.  *)
(*                                                                         *)
(* Every operator below is one committed transaction of PgStore.  The ones *)
(* that touch more than one table serialise on the row of the agent they   *)
(* concern (FOR UPDATE, or the UPDATE itself) before they touch its        *)
(* routing rows, and release_sandbox first locks the sandboxes row it goes *)
(* by, so each appears atomic to the others.  The pg_notify a transaction  *)
(* issues is an output that the controller never reads.                    *)
(***************************************************************************)
EXTENDS Naturals

CONSTANTS
  Agent,         \* agent ids
  NoAgent,       \* "no row" / "no agent"
  Sandbox,       \* sandbox ids; each is generated by one CreateSandbox call
  Capacity,      \* what an agent declares when it registers
  Requirement    \* what the CreateSandbox call of a sandbox asks for

\* CPU in millicores and memory in bytes: the scheduler treats them alike,
\* except that it ranks agents by CPU.
Resource == {"cpu", "memory"}

Amount == [Resource -> Nat]

\* An agent's cpu_cores * 1000 and memory_bytes; a request's two amounts after
\* a zero has been replaced by the default.
ASSUME StoreAssumption ==
  /\ NoAgent \notin Agent
  /\ Capacity \in [Agent -> Amount]
  /\ Requirement \in [Sandbox -> [Resource -> Nat \ {0}]]

VARIABLES
  agents,    \* table agents
  routing,   \* table routing_entries: the agent a sandbox is routed to
  rows       \* table sandboxes: lifecycle state and reservation

store == <<agents, routing, rows>>

SandboxState == {"none", "reserved", "creating", "running", "stopped",
                 "failed", "pausing", "paused", "unpausing"}

AgentRow == [state : {"absent", "active", "dead"}, avail : Amount,
             running : Nat, seen : {"fresh", "stale"}]

SandboxRow == [agent : Agent \cup {NoAgent}, state : SandboxState, req : Amount]

Zero == [r \in Resource |-> 0]

NoRow == [agent |-> NoAgent, state |-> "none", req |-> Zero]

StoreTypeOK ==
  /\ agents \in [Agent -> AgentRow]
  /\ routing \in [Sandbox -> Agent \cup {NoAgent}]
  /\ rows \in [Sandbox -> SandboxRow]

StoreInit ==
  /\ agents = [a \in Agent |-> [state |-> "absent", avail |-> Zero,
                                running |-> 0, seen |-> "fresh"]]
  /\ routing = [s \in Sandbox |-> NoAgent]
  /\ rows = [s \in Sandbox |-> NoRow]

Fits(req, avail) == \A r \in Resource : req[r] <= avail[r]

Plus(x, y) == [r \in Resource |-> x[r] + y[r]]

Minus(x, y) == [r \in Resource |-> x[r] - y[r]]

Active(a) == agents[a].state = "active"

-----------------------------------------------------------------------------
\* save_agent, as AgentRegistry::register calls it: an upsert that resets the
\* whole resource ledger but leaves last_heartbeat_at of an existing row alone.
SaveAgent(a) ==
  /\ agents' = [agents EXCEPT ![a] =
       [state |-> "active", avail |-> Capacity[a], running |-> 0,
        seen |-> IF @.state = "absent" THEN "fresh" ELSE @.seen]]
  /\ UNCHANGED <<routing, rows>>

\* Wrong: the agent is marked and its routes forgotten.
MarkAgentDeadOnly(a) ==
  /\ agents' = [agents EXCEPT ![a].state = "dead"]
  /\ UNCHANGED <<routing, rows>>

\* mark_agent_dead_atomic: the agent and its routing rows, but neither its
\* ledger nor the sandboxes rows.
MarkAgentDead(a) ==
  /\ agents' = [agents EXCEPT ![a].state = "dead"]
  /\ routing' = [s \in Sandbox |-> IF routing[s] = a THEN NoAgent ELSE routing[s]]
  /\ UNCHANGED rows

\* Wrong: the amounts are not compared again.
AssignableIfActive(a, s) == Active(a)

\* Wrong: the state is not compared again.
AssignableIfFits(a, s) == Fits(Requirement[s], agents[a].avail)

\* The condition under which try_assign_sandbox answers true.
Assignable(a, s) == Active(a) /\ Fits(Requirement[s], agents[a].avail)

TryAssignSandbox(a, s) ==
  /\ Assignable(a, s)
  /\ agents' = [agents EXCEPT ![a].avail = Minus(@, Requirement[s]),
                              ![a].running = @ + 1]
  /\ routing' = [routing EXCEPT ![s] = a]
  /\ rows' = [rows EXCEPT ![s] =
       [agent |-> a, req |-> Requirement[s],
        state |-> IF @.agent = NoAgent THEN "reserved" ELSE @.state]]

\* Wrong: the row that records the reservation is kept.
ReleaseKeepingRow(s) ==
  \/ /\ rows[s].agent = NoAgent
     /\ UNCHANGED store
  \/ /\ rows[s].agent # NoAgent
     /\ agents' = [agents EXCEPT ![rows[s].agent].avail = Plus(@, rows[s].req),
                                 ![rows[s].agent].running = IF @ = 0 THEN 0 ELSE @ - 1]
     /\ routing' = [routing EXCEPT ![s] = NoAgent]
     /\ UNCHANGED rows

\* Wrong: what was asked for is credited instead of what the row reserves.
ReleaseOfRequest(s) ==
  \/ /\ rows[s].agent = NoAgent
     /\ UNCHANGED store
  \/ /\ rows[s].agent # NoAgent
     /\ agents' = [agents EXCEPT ![rows[s].agent].avail = Plus(@, Requirement[s]),
                                 ![rows[s].agent].running = IF @ = 0 THEN 0 ELSE @ - 1]
     /\ routing' = [routing EXCEPT ![s] = NoAgent]
     /\ rows' = [rows EXCEPT ![s] = NoRow]

\* release_sandbox goes by the sandboxes row: without one it does nothing.
ReleaseSandbox(s) ==
  \/ /\ rows[s].agent = NoAgent
     /\ UNCHANGED store
  \/ /\ rows[s].agent # NoAgent
     /\ agents' = [agents EXCEPT ![rows[s].agent].avail = Plus(@, rows[s].req),
                                 ![rows[s].agent].running = IF @ = 0 THEN 0 ELSE @ - 1]
     /\ routing' = [routing EXCEPT ![s] = NoAgent]
     /\ rows' = [rows EXCEPT ![s] = NoRow]

\* Wrong: the upsert overwrites the reservation as well.
SaveStateClearing(s, a, st) ==
  /\ rows' = [rows EXCEPT ![s] = [agent |-> a, state |-> st, req |-> Zero]]
  /\ UNCHANGED <<agents, routing>>

\* save_sandbox_state: an upsert; a new row reserves nothing.
SaveSandboxState(s, a, st) ==
  /\ rows' = [rows EXCEPT ![s] =
       IF @.agent = NoAgent THEN [agent |-> a, state |-> st, req |-> Zero]
                            ELSE [@ EXCEPT !.state = st]]
  /\ UNCHANGED <<agents, routing>>

RecordHeartbeat(a) ==
  /\ agents' = [agents EXCEPT ![a].seen = "fresh"]
  /\ UNCHANGED <<routing, rows>>

\* The passage of DEAD_AGENT_TIMEOUT without a recorded heartbeat.
HeartbeatExpires(a) ==
  /\ agents[a].state # "absent"
  /\ agents[a].seen = "fresh"
  /\ agents' = [agents EXCEPT ![a].seen = "stale"]
  /\ UNCHANGED <<routing, rows>>

\* The result of the dead_agents query.
DeadAgents == {a \in Agent : Active(a) /\ agents[a].seen = "stale"}
=============================================================================
