----------------------------- MODULE RoutingCache -----------------------------
(***************************************************************************)
(* The proxy's in-memory copy of the routing table: filled on a miss, by   *)
(* the notifications of the controller's transactions and by a periodic    *)
(* refresh, all of which run concurrently; emptied of an agent's routes    *)
(* when its tunnel goes.                                                   *)
(*                                                                         *)
(* The table is the one Placement promises, which Controller implements.   *)
(* A step is one query, one notification or one update of the map under    *)
(* its lock.                                                               *)
(***************************************************************************)
EXTENDS Naturals, Sequences, FiniteSets

CONSTANTS
  Agent, NoAgent, Sandbox,
  NoSandbox,
  Lookup,      \* concurrent calls of lookup_or_fetch
  Faults       \* "listener": notifications get lost; "store": queries fail

ASSUME CacheAssumption ==
  /\ NoAgent \notin Agent
  /\ NoSandbox \notin Sandbox
  /\ IsFiniteSet(Sandbox)
  /\ Faults \subseteq {"listener", "store"}

VARIABLES
  up, placed, spent,   \* the controller's side, as Placement has it
  notices,     \* notifications committed and not yet received
  listening,   \* the LISTEN connection is up
  cache,       \* RoutingCache::cache
  lookups,     \* the calls of lookup_or_fetch
  refresh      \* the refresh loop: what load_all returned, if it has

table == <<up, placed, spent>>
vars == <<table, notices, listening, cache, lookups, refresh>>

Table == INSTANCE Placement

Route == Agent \cup {NoAgent}

Notice == [sandbox : Sandbox, agent : Route]

LookupRecord == [pc : {"idle", "query", "insert"}, sandbox : Sandbox \cup {NoSandbox},
                 agent : Route]

Idle == [pc |-> "idle", sandbox |-> NoSandbox, agent |-> NoAgent]

TypeOK ==
  /\ up \subseteq Agent
  /\ placed \in [Sandbox -> Route]
  /\ spent \subseteq Sandbox
  /\ notices \in Seq(Notice)
  /\ listening \in BOOLEAN
  /\ cache \in [Sandbox -> Route]
  /\ lookups \in [Lookup -> LookupRecord]
  /\ refresh \in [loaded : BOOLEAN, routes : [Sandbox -> Route]]

NoRoutes == [s \in Sandbox |-> NoAgent]

\* The first subscription comes after the cache has been loaded: with a
\* listener that loses notifications, the proxy starts without one.
Init ==
  /\ Table!Init
  /\ notices = << >>
  /\ listening = ("listener" \notin Faults)
  /\ cache = NoRoutes
  /\ lookups = [l \in Lookup |-> Idle]
  /\ refresh = [loaded |-> FALSE, routes |-> NoRoutes]

proxyVars == <<listening, cache, lookups, refresh>>

-----------------------------------------------------------------------------
(* The controller: a transaction and the notifications it commits *)

\* pg_notify reaches the sessions that listen.
Notify(q) == notices' = IF listening THEN notices \o q ELSE notices

Join(a) ==
  /\ Table!Join(a)
  /\ UNCHANGED <<notices, proxyVars>>

\* Wrong: a released id is placed again.
PlaceAgain(s, a) ==
  /\ placed[s] = NoAgent
  /\ a \in up
  /\ placed' = [placed EXCEPT ![s] = a]
  /\ spent' = spent \cup {s}
  /\ Notify(<<[sandbox |-> s, agent |-> a]>>)
  /\ UNCHANGED <<up, proxyVars>>

\* try_assign_sandbox
Place(s, a) ==
  /\ Table!Place(s, a)
  /\ Notify(<<[sandbox |-> s, agent |-> a]>>)
  /\ UNCHANGED proxyVars

\* release_sandbox
Remove(s) ==
  /\ placed[s] # NoAgent
  /\ Table!Remove(s)
  /\ Notify(<<[sandbox |-> s, agent |-> NoAgent]>>)
  /\ UNCHANGED proxyVars

\* mark_agent_dead_atomic: a notification for every route it removes.
Fail(a) ==
  LET S == {s \in Sandbox : placed[s] = a} IN
  /\ Table!Fail(a)
  /\ \E q \in [1..Cardinality(S) -> S] :
       /\ \A s \in S : \E i \in DOMAIN q : q[i] = s
       /\ Notify([i \in DOMAIN q |-> [sandbox |-> q[i], agent |-> NoAgent]])
  /\ UNCHANGED proxyVars

-----------------------------------------------------------------------------
(* The proxy *)

\* The listener task takes a notification: insert, or remove_by_sandbox_id.
Receive ==
  /\ listening
  /\ notices # << >>
  /\ cache' = [cache EXCEPT ![Head(notices).sandbox] = Head(notices).agent]
  /\ notices' = Tail(notices)
  /\ UNCHANGED <<table, listening, lookups, refresh>>

\* recv fails: what was on its way is lost, and so is what is committed until
\* the next subscription.
ListenerLost ==
  /\ "listener" \in Faults
  /\ listening
  /\ listening' = FALSE
  /\ notices' = << >>
  /\ UNCHANGED <<table, cache, lookups, refresh>>

ListenerBack ==
  /\ ~listening
  /\ listening' = TRUE
  /\ UNCHANGED <<table, notices, cache, lookups, refresh>>

\* lookup_or_fetch: a hit changes nothing, a miss asks the table ...
LookupMiss(l, s) ==
  /\ lookups[l].pc = "idle"
  /\ cache[s] = NoAgent
  /\ lookups' = [lookups EXCEPT ![l] = [pc |-> "query", sandbox |-> s, agent |-> NoAgent]]
  /\ UNCHANGED <<table, notices, listening, cache, refresh>>

LookupQuery(l) ==
  /\ lookups[l].pc = "query"
  /\ LET s == lookups[l].sandbox IN
     lookups' = [lookups EXCEPT ![l] =
       IF placed[s] = NoAgent THEN Idle
       ELSE [pc |-> "insert", sandbox |-> s, agent |-> placed[s]]]
  /\ UNCHANGED <<table, notices, listening, cache, refresh>>

LookupFails(l) ==
  /\ "store" \in Faults
  /\ lookups[l].pc = "query"
  /\ lookups' = [lookups EXCEPT ![l] = Idle]
  /\ UNCHANGED <<table, notices, listening, cache, refresh>>

\* ... and keeps the answer.
LookupInsert(l) ==
  /\ lookups[l].pc = "insert"
  /\ cache' = [cache EXCEPT ![lookups[l].sandbox] = lookups[l].agent]
  /\ lookups' = [lookups EXCEPT ![l] = Idle]
  /\ UNCHANGED <<table, notices, listening, refresh>>

\* refresh: load_all, then the map is replaced under its lock.
RefreshLoad ==
  /\ ~refresh.loaded
  /\ refresh' = [loaded |-> TRUE, routes |-> placed]
  /\ UNCHANGED <<table, notices, listening, cache, lookups>>

\* Wrong: the map is not cleared first.
RefreshMerge ==
  /\ refresh.loaded
  /\ cache' = [s \in Sandbox |->
       IF refresh.routes[s] = NoAgent THEN cache[s] ELSE refresh.routes[s]]
  /\ refresh' = [loaded |-> FALSE, routes |-> NoRoutes]
  /\ UNCHANGED <<table, notices, listening, lookups>>

RefreshReplace ==
  /\ refresh.loaded
  /\ cache' = refresh.routes
  /\ refresh' = [loaded |-> FALSE, routes |-> NoRoutes]
  /\ UNCHANGED <<table, notices, listening, lookups>>

\* remove_for_agent, when the tunnel of an agent goes: at any moment, as far as
\* the cache is concerned.
RemoveForAgent(a) ==
  /\ cache' = [s \in Sandbox |-> IF cache[s] = a THEN NoAgent ELSE cache[s]]
  /\ UNCHANGED <<table, notices, listening, lookups, refresh>>

ControllerStep ==
  \/ \E a \in Agent : Join(a) \/ Fail(a)
  \/ \E s \in Sandbox : Remove(s) \/ \E a \in Agent : Place(s, a)

LookupStep(l) ==
  \/ \E s \in Sandbox : LookupMiss(l, s)
  \/ LookupQuery(l) \/ LookupFails(l) \/ LookupInsert(l)

Next ==
  \/ ControllerStep
  \/ Receive \/ ListenerLost \/ ListenerBack
  \/ \E l \in Lookup : LookupStep(l)
  \/ RefreshLoad \/ RefreshReplace
  \/ \E a \in Agent : RemoveForAgent(a)

Spec == Init /\ [][Next]_vars

\* The refresh loop sleeps thirty seconds and goes on, and a lookup that has
\* its answer keeps it.  A load that fails changes nothing and is tried again
\* later; one succeeds in the end.
Fairness ==
  /\ WF_vars(RefreshLoad)
  /\ WF_vars(RefreshReplace)
  /\ \A l \in Lookup : WF_vars(LookupQuery(l)) /\ WF_vars(LookupInsert(l))

FairSpec == Spec /\ Fairness

-----------------------------------------------------------------------------
\* A sandbox id routes only to the agent that owns it (SPEC.md, NFR-SEC-2):
\* whatever was fetched, loaded or notified before, the cache never sends a
\* sandbox's traffic to an agent other than the one the table routes it to.
OwnerOnly ==
  \A s \in Sandbox : cache[s] # NoAgent /\ placed[s] # NoAgent => cache[s] = placed[s]

\* The route of a sandbox that is gone goes from the cache and stays out, even
\* if its notification was lost or overtaken by a lookup or a refresh that had
\* read the table before.
StaleDropped ==
  \A s \in Sandbox :
    (s \in spent /\ placed[s] = NoAgent) ~> [](cache[s] = NoAgent)

\* Notifications invalidate the cache in real time (run.rs, the LISTEN task):
\* when every one has been received and nothing is in flight, the cache has no
\* route that the table does not have.
InvalidatedInRealTime ==
  (/\ listening /\ notices = << >>
   /\ ~refresh.loaded
   /\ \A l \in Lookup : lookups[l].pc = "idle")
    => \A s \in Sandbox : cache[s] \in {NoAgent, placed[s]}

-----------------------------------------------------------------------------
(* The inductive invariant behind OwnerOnly *)

\* The agents that anything in the system has down for a sandbox.
Mentions(s, a) ==
  /\ a # NoAgent
  /\ \/ placed[s] = a
     \/ cache[s] = a
     \/ refresh.routes[s] = a
     \/ \E l \in Lookup : lookups[l].sandbox = s /\ lookups[l].agent = a
     \/ \E i \in DOMAIN notices : notices[i].sandbox = s /\ notices[i].agent = a

\* They are one agent, and none before the sandbox has been placed.
OneOwner ==
  /\ TypeOK
  /\ \A l \in Lookup : lookups[l].pc # "idle" => lookups[l].sandbox \in Sandbox
  /\ \A s \in Sandbox : \A a, b \in Agent : Mentions(s, a) /\ Mentions(s, b) => a = b
  /\ \A s \in Sandbox \ spent : \A a \in Agent : ~Mentions(s, a)
=============================================================================
