--------------------------- MODULE ControllerClaims ---------------------------
(***************************************************************************)
(* What the repository's documents say of the controller that the code     *)
(* does not do.                                                            *)
(***************************************************************************)
EXTENDS Controller, FiniteSetsExt

Total(r, S, Amt(_)) == MapThenSumSet(LAMBDA s : Amt(s)[r], S)

\* The measures LedgerBalanced goes by are sums.
ASSUME MeasuresAddUp ==
  \A m \in Measure : m[Sandbox] = MapThenSumSet(LAMBDA s : m[{s}], Sandbox)

-----------------------------------------------------------------------------
(* What the documents say, and the code does not do *)

\* The sandboxes routed to an agent fit its capacity (scheduler.rs: "rather
\* than overcommitting the same agent").
NoOvercommit ==
  \A a \in Agent : \A r \in Resource :
    Total(r, {s \in Sandbox : routing[s] = a}, LAMBDA s : Requirement[s]) <= Capacity[a][r]

\* The connection table is live (SPEC.md, FR-2): an active agent that has been
\* accepted and is being served can be sent commands.
ConnectedReachable ==
  \A st \in Stream :
    (phase[st] = "serving" /\ client[st] = "ready" /\ Active(Dialer[st]))
      => conn[Dialer[st]] = st

\* Stopped and failed are sinks (grpc.rs: a late terminal state "can only ever
\* transition forward").
TerminalIsSink ==
  [][\A s \in Sandbox : rows[s].state \in {"stopped", "failed"} =>
       rows'[s].state \in {"stopped", "failed", "none"}]_vars

\* An agent is marked dead only after missed heartbeats (SPEC.md, FR-2): never
\* when one has just been recorded.
DeadOnlyIfSilent ==
  [][\A a \in Agent : Active(a) /\ agents'[a].state = "dead" => agents[a].seen = "stale"]_vars

\* Releasing a sandbox that has no reservation changes nothing (store.rs): an
\* agent's count of running sandboxes covers those with a reservation on it.
RunningCounted ==
  \A a \in Agent : Cardinality(Registrations(a)) <= 1 =>
    agents[a].running >= Cardinality({s \in Sandbox : Holding(s, a) # Zero})

\* The sandboxes of a dead agent are rescheduled to other agents (SPEC.md,
\* FR-2) as long as there is one with room.
Rescheduled ==
  \A s \in Sandbox :
    (rows[s].agent # NoAgent /\ calls[s] = "created" /\ routing[s] = NoAgent)
      ~> (routing[s] # NoAgent \/ rows[s] = NoRow \/ \A a \in Agent : ~Assignable(a, s))

=============================================================================
