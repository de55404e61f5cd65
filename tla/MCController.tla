----------------------------- MODULE MCController -----------------------------
EXTENDS ControllerClaims, TLC

CONSTANTS a1, a2, s1, s2, t1, t2, o1, o2, o3, o4

\* An agent has room for one sandbox of either resource.
MCCapacity == [a \in Agent |-> [r \in Resource |-> IF r = "cpu" THEN 2 ELSE 1]]
MCRequirement == [s \in Sandbox |-> [r \in Resource |-> 1]]

\* The second agent is full from the start.
OneWithRoom == [a \in Agent |-> [r \in Resource |-> IF a = a1 THEN 1 ELSE 0]]

OneStreamEach == (t1 :> a1) @@ (t2 :> a2)
OneAgent == [st \in Stream |-> a1]

Calls == Permutations(Op) \cup Permutations(Sandbox)
=============================================================================
