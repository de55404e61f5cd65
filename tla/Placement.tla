------------------------------ MODULE Placement ------------------------------
(***************************************************************************)
(* What the controller promises about placement, with nothing said of      *)
(* streams, calls, ledgers or the sweep: a sandbox id is placed at most    *)
(* once in its life, on an agent that is up at that moment, it stays there *)
(* until it is removed, and it never outlives its agent.                   *)
(***************************************************************************)
CONSTANTS Agent, NoAgent, Sandbox

VARIABLES
  up,       \* agents that may be given sandboxes
  placed,   \* the agent a sandbox is on
  spent     \* sandboxes that have been placed, or never will be

vars == <<up, placed, spent>>

Init ==
  /\ up = {}
  /\ placed = [s \in Sandbox |-> NoAgent]
  /\ spent = {}

Join(a) ==
  /\ up' = up \cup {a}
  /\ UNCHANGED <<placed, spent>>

Fail(a) ==
  /\ up' = up \ {a}
  /\ placed' = [s \in Sandbox |-> IF placed[s] = a THEN NoAgent ELSE placed[s]]
  /\ UNCHANGED spent

Place(s, a) ==
  /\ s \notin spent
  /\ placed[s] = NoAgent
  /\ a \in up
  /\ placed' = [placed EXCEPT ![s] = a]
  /\ spent' = spent \cup {s}
  /\ UNCHANGED up

Remove(s) ==
  /\ s \in spent
  /\ placed' = [placed EXCEPT ![s] = NoAgent]
  /\ UNCHANGED <<up, spent>>

\* Calls that placed nothing are over.
Retire(S) ==
  /\ \A s \in S : placed[s] = NoAgent
  /\ spent' = spent \cup S
  /\ UNCHANGED <<up, placed>>

Next ==
  \/ \E a \in Agent : Join(a) \/ Fail(a)
  \/ \E s \in Sandbox : Remove(s) \/ \E a \in Agent : Place(s, a)
  \/ \E S \in SUBSET Sandbox : Retire(S)

Spec == Init /\ [][Next]_vars
=============================================================================
