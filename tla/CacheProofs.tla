------------------------------ MODULE CacheProofs ------------------------------
(***************************************************************************)
(* The two caches.  The proxy's cache never routes a sandbox to an agent   *)
(* that does not own it, for every set of agents, sandboxes and lookups    *)
(* and every fault; the image cache of an agent keeps its promise for any  *)
(* number of concurrent pulls and any faults.                              *)
(***************************************************************************)
EXTENDS RoutingCache, ImageCache, FiniteSetTheorems, TLAPS

\* The provers of the leaves that name none, with their time limits in seconds.
USE SMTT(30), Z3T(30), ZenonT(30)

-----------------------------------------------------------------------------
(* The routing cache: OneOwner of RoutingCache is inductive. *)

LEMMA IdleType == Idle \in LookupRecord /\ Idle.pc = "idle" /\ Idle.agent = NoAgent
BY DEF Idle, LookupRecord, Route

\* What OneOwner says of the agents mentioned.
OneMentioned ==
  /\ \A s \in Sandbox : \A a, b \in Agent : Mentions(s, a) /\ Mentions(s, b) => a = b
  /\ \A s \in Sandbox \ spent : \A a \in Agent : ~Mentions(s, a)

\* A step of the proxy, or one that takes routes away, mentions no agent that
\* was not mentioned before.
NoneNew == \A s \in Sandbox, a \in Agent : Mentions(s, a)' => Mentions(s, a)

LookupsFormed == \A l \in Lookup : lookups[l].pc # "idle" => lookups[l].sandbox \in Sandbox

LEMMA OneOwnerParts == OneOwner <=> TypeOK /\ LookupsFormed /\ OneMentioned
BY DEF OneOwner, LookupsFormed, OneMentioned

LEMMA NoneNewSuffices ==
  ASSUME OneMentioned, NoneNew, spent \subseteq spent'
  PROVE  OneMentioned'
BY DEF OneMentioned, NoneNew

\* A notification is put at the end of those on their way, or lost.
LEMMA NotifyEffect ==
  ASSUME TypeOK, NEW q \in Seq(Notice), Notify(q)
  PROVE  /\ notices' \in Seq(Notice)
         /\ \A i \in DOMAIN notices' :
              \/ \E j \in DOMAIN notices : notices'[i] = notices[j]
              \/ \E j \in DOMAIN q : notices'[i] = q[j]
<1>1. CASE listening
  <2>1. notices' = notices \o q /\ notices \in Seq(Notice)
    BY <1>1 DEF Notify, TypeOK
  <2>2. Len(notices') = Len(notices) + Len(q) /\ Len(notices) \in Nat /\ Len(q) \in Nat
    BY <2>1
  <2>3. ASSUME NEW i \in DOMAIN notices'
        PROVE  \/ \E j \in DOMAIN notices : notices'[i] = notices[j]
               \/ \E j \in DOMAIN q : notices'[i] = q[j]
    <3>1. CASE i <= Len(notices)
      BY <3>1, <2>1, <2>2, <2>3
    <3>2. CASE i > Len(notices)
      <4>1. i - Len(notices) \in DOMAIN q /\ notices'[i] = q[i - Len(notices)]
        BY <3>2, <2>1, <2>2, <2>3
      <4> QED BY <4>1
    <3> QED BY <3>1, <3>2, <2>1, <2>2
  <2> QED BY <2>1, <2>3
<1>2. CASE ~listening
  BY <1>2 DEF Notify, TypeOK
<1> QED BY <1>1, <1>2

LEMMA InitOneOwner == Init => OneOwner
<1> SUFFICES ASSUME Init PROVE OneOwner
  OBVIOUS
<1>1. TypeOK
  BY CacheAssumption, IdleType DEF Init, Table!Init, TypeOK, NoRoutes, Route
<1>2. LookupsFormed
  BY IdleType DEF Init, LookupsFormed
<1>3. ASSUME NEW s \in Sandbox, NEW a \in Agent PROVE ~Mentions(s, a)
  BY CacheAssumption, IdleType DEF Init, Table!Init, Mentions, NoRoutes
<1> QED BY <1>1, <1>2, <1>3, OneOwnerParts DEF OneMentioned

\* The transactions of the controller.  Only Place mentions an agent anew, and
\* it does so for an id that nothing had an agent for.
LEMMA ControllerStepOneOwner == OneOwner /\ ControllerStep => OneOwner'
<1> SUFFICES ASSUME OneOwner, ControllerStep PROVE OneOwner'
  OBVIOUS
<1>0. TypeOK /\ LookupsFormed /\ OneMentioned
  BY OneOwnerParts
<1>1. ASSUME NEW a \in Agent, Join(a) PROVE OneOwner'
  <2>1. TypeOK' /\ LookupsFormed' /\ spent \subseteq spent'
    BY <1>0, <1>1 DEF Join, Table!Join, TypeOK, LookupsFormed, proxyVars
  <2>2. NoneNew
    BY <1>1 DEF Join, Table!Join, NoneNew, Mentions, proxyVars
  <2> QED BY <1>0, <2>1, <2>2, NoneNewSuffices DEF OneOwner, LookupsFormed, OneMentioned
<1>2. ASSUME NEW d \in Agent, Fail(d) PROVE OneOwner'
  <2> DEFINE S == {s \in Sandbox : placed[s] = d}
  <2>1. PICK q \in [1..Cardinality(S) -> S] :
          Notify([i \in DOMAIN q |-> [sandbox |-> q[i], agent |-> NoAgent]])
    BY <1>2, Zenon DEF Fail
  <2> DEFINE n == [i \in DOMAIN q |-> [sandbox |-> q[i], agent |-> NoAgent]]
  <2>2. Cardinality(S) \in Nat
    BY CacheAssumption, FS_Subset, FS_CardinalityType
  <2>3. n \in Seq(Notice) /\ \A i \in DOMAIN n : n[i].agent = NoAgent
    <3>1. n \in [1..Cardinality(S) -> Notice]
      BY <2>1 DEF Notice, Route
    <3> QED BY <3>1, <2>2
  <2>4. /\ notices' \in Seq(Notice)
        /\ \A i \in DOMAIN notices' :
             \/ \E j \in DOMAIN notices : notices'[i] = notices[j]
             \/ notices'[i].agent = NoAgent
    <3> HIDE DEF n
    <3>1. Notify(n)
      BY <2>1 DEF n
    <3> QED BY <1>0, <2>3, <3>1, NotifyEffect
  <2>5. TypeOK' /\ LookupsFormed' /\ spent \subseteq spent'
    BY <1>0, <1>2, <2>4, ZenonT(30) DEF Fail, Table!Fail, TypeOK, LookupsFormed, proxyVars, Route
  <2>6. NoneNew
    BY <1>0, <1>2, <2>4 DEF Fail, Table!Fail, NoneNew, Mentions, proxyVars, TypeOK
  <2> QED BY <1>0, <2>5, <2>6, NoneNewSuffices DEF OneOwner, LookupsFormed, OneMentioned
<1>3. ASSUME NEW r \in Sandbox, Remove(r) PROVE OneOwner'
  <2> DEFINE n == <<[sandbox |-> r, agent |-> NoAgent]>>
  <2>1. n \in Seq(Notice) /\ \A i \in DOMAIN n : n[i].agent = NoAgent
    BY DEF Notice, Route
  <2>2. /\ notices' \in Seq(Notice)
        /\ \A i \in DOMAIN notices' :
             \/ \E j \in DOMAIN notices : notices'[i] = notices[j]
             \/ notices'[i].agent = NoAgent
    <3>1. Notify(n)
      BY <1>3 DEF Remove
    <3> HIDE DEF n
    <3> QED BY <1>0, <2>1, <3>1, NotifyEffect
  <2>3. TypeOK' /\ LookupsFormed' /\ spent \subseteq spent'
    BY <1>0, <1>3, <2>2, ZenonT(30) DEF Remove, Table!Remove, TypeOK, LookupsFormed, proxyVars, Route
  <2>4. NoneNew
    BY <1>0, <1>3, <2>2 DEF Remove, Table!Remove, NoneNew, Mentions, proxyVars, TypeOK
  <2> QED BY <1>0, <2>3, <2>4, NoneNewSuffices DEF OneOwner, LookupsFormed, OneMentioned
<1>4. ASSUME NEW p \in Sandbox, NEW d \in Agent, Place(p, d) PROVE OneOwner'
  <2> DEFINE n == <<[sandbox |-> p, agent |-> d]>>
  <2>1. n \in Seq(Notice) /\ \A i \in DOMAIN n : n[i].sandbox = p /\ n[i].agent = d
    BY DEF Notice, Route
  <2>2. /\ notices' \in Seq(Notice)
        /\ \A i \in DOMAIN notices' :
             \/ \E j \in DOMAIN notices : notices'[i] = notices[j]
             \/ notices'[i].sandbox = p /\ notices'[i].agent = d
    <3>1. Notify(n)
      BY <1>4 DEF Place
    <3> HIDE DEF n
    <3> QED BY <1>0, <2>1, <3>1, NotifyEffect
  <2>3. TypeOK' /\ LookupsFormed' /\ spent' = spent \cup {p} /\ p \notin spent
    BY <1>0, <1>4, <2>2 DEF Place, Table!Place, TypeOK, LookupsFormed, proxyVars, Route
  <2>4. ASSUME NEW s \in Sandbox, NEW a \in Agent, Mentions(s, a)'
        PROVE  Mentions(s, a) \/ (s = p /\ a = d)
    BY <1>0, <1>4, <2>2, <2>4 DEF Place, Table!Place, Mentions, proxyVars, TypeOK
  <2>5. \A a \in Agent : ~Mentions(p, a)
    BY <1>0, <2>3 DEF OneMentioned
  <2>6. OneMentioned'
    BY <1>0, <2>3, <2>4, <2>5 DEF OneMentioned
  <2> QED BY <2>3, <2>6 DEF OneOwner, LookupsFormed, OneMentioned
<1> QED BY <1>1, <1>2, <1>3, <1>4 DEF ControllerStep

\* The steps of the proxy: each copies what something already had.
LEMMA ProxyStepOneOwner ==
  ASSUME OneOwner, Next, ~ControllerStep
  PROVE  OneOwner'
<1>0. TypeOK /\ LookupsFormed /\ OneMentioned
  BY OneOwnerParts
<1> SUFFICES TypeOK' /\ LookupsFormed' /\ NoneNew /\ spent' = spent
  BY <1>0, NoneNewSuffices DEF OneOwner, LookupsFormed, OneMentioned
<1>1. CASE Receive
  <2>1. /\ notices \in Seq(Notice) /\ notices # << >>
        /\ Head(notices) = notices[1] /\ 1 \in DOMAIN notices /\ notices[1] \in Notice
        /\ Tail(notices) \in Seq(Notice)
        /\ \A i \in DOMAIN Tail(notices) :
             i + 1 \in DOMAIN notices /\ Tail(notices)[i] = notices[i + 1]
    BY <1>0, <1>1 DEF Receive, TypeOK
  <2>2. TypeOK' /\ LookupsFormed' /\ spent' = spent
    BY <1>0, <1>1, <2>1 DEF Receive, TypeOK, LookupsFormed, table, Notice
  <2>3. NoneNew
    BY <1>0, <1>1, <2>1 DEF Receive, NoneNew, Mentions, TypeOK, table
  <2> QED BY <2>2, <2>3
<1>2. CASE ListenerLost
  <2>1. << >> \in Seq(Notice) /\ DOMAIN << >> = {}
    OBVIOUS
  <2>2. TypeOK' /\ LookupsFormed' /\ spent' = spent
    BY <1>0, <1>2, <2>1, Zenon DEF ListenerLost, TypeOK, LookupsFormed, table
  <2>3. NoneNew
    BY <1>0, <1>2, <2>1, ZenonT(30) DEF ListenerLost, NoneNew, Mentions, table
  <2> QED BY <2>2, <2>3
<1>3. CASE ListenerBack
  BY <1>0, <1>3 DEF ListenerBack, TypeOK, LookupsFormed, NoneNew, Mentions, table
<1>4. ASSUME NEW l \in Lookup, NEW s \in Sandbox, LookupMiss(l, s)
      PROVE  TypeOK' /\ LookupsFormed' /\ NoneNew /\ spent' = spent
  <2> DEFINE r == [pc |-> "query", sandbox |-> s, agent |-> NoAgent]
  <2>1. r \in LookupRecord
    BY DEF LookupRecord, Route
  <2>2. TypeOK' /\ LookupsFormed' /\ spent' = spent
    BY <1>0, <1>4, <2>1, ZenonT(30) DEF LookupMiss, TypeOK, LookupsFormed, table
  <2>3. NoneNew
    BY <1>0, <1>4 DEF LookupMiss, NoneNew, Mentions, TypeOK, table
  <2> QED BY <2>2, <2>3
<1>5. ASSUME NEW l \in Lookup, LookupQuery(l)
      PROVE  TypeOK' /\ LookupsFormed' /\ NoneNew /\ spent' = spent
  <2> DEFINE s == lookups[l].sandbox
             r == IF placed[s] = NoAgent THEN Idle
                  ELSE [pc |-> "insert", sandbox |-> s, agent |-> placed[s]]
  <2>1. s \in Sandbox /\ placed[s] \in Route
    BY <1>0, <1>5, ZenonT(30) DEF LookupQuery, LookupsFormed, TypeOK
  <2>2. /\ r \in LookupRecord
        /\ r.pc # "idle" => r.sandbox \in Sandbox
        /\ r.agent # NoAgent => r.sandbox = s /\ r.agent = placed[s]
    BY <2>1, IdleType DEF LookupRecord
  <2>3. lookups' = [lookups EXCEPT ![l] = r] /\ UNCHANGED <<table, notices, listening, cache, refresh>>
    BY <1>5 DEF LookupQuery
  <2> HIDE DEF r, s
  <2>4. TypeOK' /\ LookupsFormed' /\ spent' = spent
    BY <1>0, <2>2, <2>3, ZenonT(30) DEF TypeOK, LookupsFormed, table
  <2>5. NoneNew
    BY <1>0, <2>2, <2>3, ZenonT(30) DEF NoneNew, Mentions, TypeOK, table
  <2> QED BY <2>4, <2>5
<1>6. ASSUME NEW l \in Lookup, LookupFails(l)
      PROVE  TypeOK' /\ LookupsFormed' /\ NoneNew /\ spent' = spent
  <2>1. TypeOK' /\ LookupsFormed' /\ spent' = spent
    BY <1>0, <1>6, IdleType DEF LookupFails, TypeOK, LookupsFormed, table
  <2>2. NoneNew
    BY <1>0, <1>6, IdleType DEF LookupFails, NoneNew, Mentions, TypeOK, table
  <2> QED BY <2>1, <2>2
<1>7. ASSUME NEW l \in Lookup, LookupInsert(l)
      PROVE  TypeOK' /\ LookupsFormed' /\ NoneNew /\ spent' = spent
  <2>1. lookups[l].sandbox \in Sandbox /\ lookups[l].agent \in Route
    BY <1>0, <1>7 DEF LookupInsert, LookupsFormed, TypeOK, LookupRecord
  <2>2. TypeOK' /\ LookupsFormed' /\ spent' = spent
    BY <1>0, <1>7, <2>1, IdleType, ZenonT(30) DEF LookupInsert, TypeOK, LookupsFormed, table
  <2>3. NoneNew
    BY <1>0, <1>7, <2>1, IdleType, ZenonT(30) DEF LookupInsert, NoneNew, Mentions, TypeOK, table
  <2> QED BY <2>2, <2>3
<1>8. CASE RefreshLoad
  BY <1>0, <1>8, ZenonT(30) DEF RefreshLoad, TypeOK, LookupsFormed, NoneNew, Mentions, table
<1>9. CASE RefreshReplace
  BY <1>0, <1>9, ZenonT(30) DEF RefreshReplace, TypeOK, LookupsFormed, NoneNew, Mentions, table, NoRoutes, Route
<1>10. ASSUME NEW a \in Agent, RemoveForAgent(a)
       PROVE  TypeOK' /\ LookupsFormed' /\ NoneNew /\ spent' = spent
  BY <1>0, <1>10 DEF RemoveForAgent, TypeOK, LookupsFormed, NoneNew, Mentions, table, Route
<1> QED
  BY <1>1, <1>2, <1>3, <1>4, <1>5, <1>6, <1>7, <1>8, <1>9, <1>10, ZenonT(30) DEF Next, LookupStep

LEMMA NextOneOwner == OneOwner /\ [Next]_vars => OneOwner'
<1> SUFFICES ASSUME OneOwner, [Next]_vars PROVE OneOwner'
  OBVIOUS
<1>1. CASE ControllerStep
  BY <1>1, ControllerStepOneOwner
<1>2. CASE Next /\ ~ControllerStep
  BY <1>2, ProxyStepOneOwner, ZenonT(60)
<1>3. CASE UNCHANGED vars
  BY <1>3 DEF vars, table, OneOwner, TypeOK, Mentions
<1> QED BY <1>1, <1>2, <1>3

-----------------------------------------------------------------------------
\* Whatever the proxy has read, been told or kept about a sandbox names one
\* agent, and none before the sandbox has been placed.
THEOREM OneOwnerHolds == Spec => []OneOwner
BY InitOneOwner, NextOneOwner, PTL DEF Spec

\* The cache of the proxy routes a sandbox only to the agent the controller's
\* table routes it to, in every interleaving of lookups, refreshes and
\* notifications and whatever gets lost.
THEOREM RoutesToOwnerOnly == Spec => []OwnerOnly
<1>1. OneOwner => OwnerOnly
  BY DEF OneOwner, OwnerOnly, Mentions, TypeOK, Route
<1> QED BY <1>1, OneOwnerHolds, PTL

-----------------------------------------------------------------------------
(* The image cache: CacheInv of ImageCache is inductive. *)

\* Only pull p has moved, to stage `at`.
Moved(p, at) ==
  /\ pull'[p].at = at
  /\ \A q \in Puller \ {p} :
       /\ pull'[q].at = pull[q].at /\ pull'[q].mode = pull[q].mode
       /\ Refreshing(q)' <=> Refreshing(q)
       /\ Active(q)' <=> Active(q)

\* A step of one pull moves that pull and no other.
LEMMA StepMoves ==
  ASSUME ImageTypeOK, NEW p \in Puller, NEW at, Step(p, at)
  PROVE  /\ Moved(p, at)
         /\ at \notin Returned => pull'[p].mode = pull[p].mode
         /\ at \notin {"evict", "removing", "rename", "mark"} => ~Refreshing(p)'
         /\ at \in {"evict", "removing", "rename", "mark"} =>
              (Refreshing(p)' <=> pull[p].mode = "refresh")
<1>1. pull'[p] = [at |-> at, mode |-> IF at \in Returned THEN "reuse" ELSE pull[p].mode]
  BY DEF Step, ImageTypeOK
<1>2. \A q \in Puller \ {p} : pull'[q] = pull[q]
  BY DEF Step, ImageTypeOK
<1> QED BY <1>1, <1>2 DEF Moved, Refreshing, Active, Returned

\* The stages a pull may be in.
PullStage == {"idle", "manifest", "extract", "install", "evict", "removing",
              "rename", "mark", "resolv", "ready", "failed"}

LEMMA StepTyped ==
  ASSUME ImageTypeOK, NEW p \in Puller, NEW at \in PullStage, Step(p, at)
  PROVE  pull' \in [Puller -> [at : PullStage, mode : Mode]]
  BY DEF Step, ImageTypeOK, PullStage, Mode

\* The initial cache satisfies the invariant.
LEMMA CacheInit == ImageInit => CacheInv
<1> SUFFICES ASSUME ImageInit PROVE CacheInv OBVIOUS
<1>1. \A p \in Puller : pull[p].at = "idle" /\ ~Refreshing(p)
  BY DEF ImageInit, NoPull, Refreshing
<1>2. ImageTypeOK
  BY Zenon DEF ImageInit, ImageTypeOK, NoPull, Mode
<1>3. rootfs = "none" /\ marker = FALSE BY DEF ImageInit
<1> QED BY <1>1, <1>2, <1>3 DEF CacheInv

\* Every step of a pull keeps the types.
LEMMA TypesKept ==
  ASSUME ImageTypeOK, ImageNext
  PROVE  ImageTypeOK'
<1>1. ASSUME NEW p \in Puller, NEW mode \in Mode, BeginPull(p, mode) PROVE ImageTypeOK'
  BY <1>1 DEF BeginPull, ImageTypeOK, Disturbs, Mode
<1>2. ASSUME NEW p \in Puller, PullStep(p) PROVE ImageTypeOK'
  <2> USE DEF Disturbs, Fails
  <2>1. CASE CheckMarker(p) BY <2>1, StepTyped, ZenonT(60) DEF CheckMarker, ImageTypeOK, PullStage
  <2>2. CASE Extract(p) BY <2>2, StepTyped DEF Extract, ImageTypeOK, PullStage
  <2>3. CASE Unmark(p) BY <2>3, StepTyped, Zenon DEF Unmark, ImageTypeOK, PullStage
  <2>4. CASE Evict(p) BY <2>4, StepTyped DEF Evict, ImageTypeOK, PullStage
  <2>5. CASE EvictDone(p) BY <2>5, StepTyped, Zenon DEF EvictDone, ImageTypeOK, PullStage
  <2>6. CASE Install(p) BY <2>6, StepTyped DEF Install, ImageTypeOK, PullStage
  <2>7. CASE Rename(p) BY <2>7, StepTyped, Zenon DEF Rename, ImageTypeOK, PullStage
  <2>8. CASE Mark(p) BY <2>8, StepTyped, Zenon DEF Mark, ImageTypeOK, PullStage
  <2>9. CASE WriteResolvConf(p) BY <2>9, StepTyped, ZenonT(60) DEF WriteResolvConf, ImageTypeOK, PullStage
  <2> QED BY <1>2, <2>1, <2>2, <2>3, <2>4, <2>5, <2>6, <2>7, <2>8, <2>9, ZenonT(60) DEF PullStep
<1>3. ASSUME NEW P \in SUBSET Puller, Abandon(P) PROVE ImageTypeOK'
  BY <1>3, ZenonT(30) DEF Abandon, ImageTypeOK, Mode
<1> QED BY <1>1, <1>2, <1>3 DEF ImageNext

\* What the invariant asks of an undisturbed cache.
CalmInv ==
  /\ marker => rootfs = "full"
  /\ rootfs = "part" => \E p \in Puller : pull[p].at = "removing"
  /\ \A p \in Puller :
       /\ Refreshing(p) => ~marker /\ Alone(p)
       /\ pull[p].at = "mark" => rootfs = "full"
       /\ pull[p].at \in {"resolv", "ready"} =>
            rootfs = "full" \/ \E q \in Puller : Refreshing(q)

\* Without a refresh under way the rootfs is absent or complete.
LEMMA QuietIsWhole ==
  ASSUME CacheInv, ~disturbed, \A q \in Puller : ~Refreshing(q)
  PROVE  rootfs # "part"
  BY ZenonT(30) DEF CacheInv, Refreshing

\* A step of a pull that is no refresh, taken while no other pull is one.
LEMMA QuietStep ==
  ASSUME CacheInv, NEW p \in Puller, NEW at, Moved(p, at), ~Refreshing(p)',
         ~disturbed, \A q \in Puller : ~Refreshing(q),
         rootfs' = rootfs \/ rootfs' = "full",
         marker' => rootfs' = "full",
         at \in {"mark", "resolv", "ready"} => rootfs' = "full"
  PROVE  CalmInv'
<1>1. rootfs' # "part" BY QuietIsWhole
<1>2. \A q \in Puller : ~Refreshing(q)' BY ZenonT(60) DEF Moved
<1>3. ASSUME NEW q \in Puller, pull'[q].at \in {"mark", "resolv", "ready"} PROVE rootfs' = "full"
  BY <1>3, ZenonT(60) DEF Moved, CacheInv
<1> QED BY <1>1, <1>2, <1>3 DEF CalmInv

\* A step of a refresh, taken while every other pull is at rest.
LEMMA RefreshStep ==
  ASSUME CacheInv, NEW p \in Puller, NEW at, Moved(p, at),
         ~disturbed, Alone(p), pull[p].mode = "refresh",
         \/ /\ Refreshing(p)' /\ ~marker'
            /\ rootfs' = "part" => at = "removing"
            /\ at = "mark" => rootfs' = "full"
            /\ at \notin {"resolv", "ready"}
         \/ ~Refreshing(p)' /\ rootfs' = "full"
  PROVE  CalmInv'
<1>1. \A q \in Puller \ {p} : /\ pull'[q].at \in Returned /\ ~Active(q)'
                              /\ ~Refreshing(q)'
  BY DEF Moved, Alone, Active, Refreshing, Returned
<1>2. Alone(p)' BY <1>1, ZenonT(60) DEF Alone
<1>3. CASE ~Refreshing(p)' /\ rootfs' = "full"
  BY <1>1, <1>3, ZenonT(60) DEF CalmInv
<1>4. CASE /\ Refreshing(p)' /\ ~marker'
           /\ rootfs' = "part" => at = "removing"
           /\ at = "mark" => rootfs' = "full"
           /\ at \notin {"resolv", "ready"}
  <2>1. rootfs' = "part" => \E q \in Puller : pull'[q].at = "removing"
    BY <1>4, ZenonT(30) DEF Moved
  <2>2. \A q \in Puller : pull'[q].at = "mark" => rootfs' = "full"
    BY <1>1, <1>4, ZenonT(30) DEF Moved, Returned
  <2>3. \A q \in Puller : Refreshing(q)' => ~marker' /\ Alone(q)'
    BY <1>1, <1>2, <1>4, ZenonT(30)
  <2> QED BY <1>4, <2>1, <2>2, <2>3, ZenonT(60) DEF CalmInv
<1> QED BY <1>3, <1>4, ZenonT(60)

\* Every step keeps the invariant: one case per file system call of
\* pull_and_unpack_with, and the start that is cut short.
LEMMA CacheStep ==
  ASSUME CacheInv, ImageNext
  PROVE  CacheInv'
<1>0. ImageTypeOK /\ ImageTypeOK' BY TypesKept, ZenonT(60) DEF CacheInv
<1>a. SUFFICES
        /\ \A q \in Puller : pull'[q].at \in {"evict", "removing"} => pull'[q].mode = "refresh"
        /\ ~disturbed' => CalmInv'
  BY <1>0, ZenonT(30) DEF CacheInv, CalmInv
<1>b. ~disturbed => CalmInv BY ZenonT(30) DEF CacheInv, CalmInv
<1>1. ASSUME NEW p \in Puller, NEW mode \in Mode, BeginPull(p, mode)
      PROVE  /\ \A q \in Puller : pull'[q].at \in {"evict", "removing"} => pull'[q].mode = "refresh"
             /\ ~disturbed' => CalmInv'
  <2>1. pull'[p] = [at |-> "manifest", mode |-> mode]
        /\ \A q \in Puller \ {p} : pull'[q] = pull[q]
    BY <1>0, <1>1, ZenonT(30) DEF BeginPull, ImageTypeOK
  <2>2. Moved(p, "manifest") /\ ~Refreshing(p)' /\ ~Refreshing(p)
    BY <1>1, <2>1 DEF Moved, Refreshing, Active, BeginPull, Returned
  <2>3. ~disturbed' => ~disturbed /\ \A q \in Puller : ~Refreshing(q)
    BY <1>1, <2>2, Zenon DEF BeginPull, Disturbs
  <2>4. marker' = marker /\ rootfs' = rootfs BY <1>1, ZenonT(60) DEF BeginPull
  <2>5. ASSUME ~disturbed' PROVE CalmInv'
    BY <1>b, <2>2, <2>3, <2>4, <2>5, QuietStep, ZenonT(60) DEF CalmInv
  <2> QED BY <2>2, <2>5 DEF Moved, CacheInv
<1>2. ASSUME NEW p \in Puller, PullStep(p)
      PROVE  /\ \A q \in Puller : pull'[q].at \in {"evict", "removing"} => pull'[q].mode = "refresh"
             /\ ~disturbed' => CalmInv'
  <2>1. CASE CheckMarker(p)
    <3>1. PICK at \in {"failed", "resolv", "extract"} : Step(p, at) /\ (at = "resolv" => marker)
      BY <2>1, ZenonT(60) DEF CheckMarker, Fails
    <3>2. Moved(p, at) /\ ~Refreshing(p)' /\ ~Refreshing(p)
      BY <1>0, <2>1, <3>1, StepMoves DEF CheckMarker, Refreshing
    <3>3. ~disturbed' => ~disturbed /\ \A q \in Puller : ~Refreshing(q)
      BY <2>1, <3>2, Zenon DEF CheckMarker, Disturbs
    <3>4. ASSUME ~disturbed' PROVE CalmInv'
      BY <1>b, <2>1, <3>1, <3>2, <3>3, <3>4, QuietStep, ZenonT(60) DEF CalmInv, CheckMarker
    <3> QED BY <3>1, <3>2, <3>4 DEF Moved, CacheInv
  <2>2. CASE Extract(p)
    <3>1. PICK at \in {"failed", "install"} : Step(p, at)
      BY <2>2, ZenonT(60) DEF Extract, Fails
    <3>2. Moved(p, at) /\ ~Refreshing(p)' /\ ~Refreshing(p)
      BY <1>0, <2>2, <3>1, StepMoves DEF Extract, Refreshing
    <3>3. ~disturbed' => ~disturbed /\ \A q \in Puller : ~Refreshing(q)
      BY <2>2, <3>2, Zenon DEF Extract, Disturbs
    <3>4. ASSUME ~disturbed' PROVE CalmInv'
      BY <1>b, <2>2, <3>1, <3>2, <3>3, <3>4, QuietStep, ZenonT(60) DEF CalmInv, Extract
    <3> QED BY <3>1, <3>2, <3>4 DEF Moved, CacheInv
  <2>3. CASE Install(p)
    <3>1. PICK at \in {"mark", "rename"} : Step(p, at) /\ (at = "mark" => rootfs # "none")
      BY <2>3, ZenonT(30) DEF Install
    <3>2. Moved(p, at) /\ ~Refreshing(p)' /\ ~Refreshing(p)
      BY <1>0, <2>3, <3>1, StepMoves DEF Install, Refreshing
    <3>3. ~disturbed' => ~disturbed /\ \A q \in Puller : ~Refreshing(q)
      BY <2>3, <3>2, Zenon DEF Install, Disturbs
    <3>4. ASSUME ~disturbed' PROVE CalmInv'
      BY <1>0, <1>b, <2>3, <3>1, <3>2, <3>3, <3>4, QuietStep, QuietIsWhole, ZenonT(60) DEF CalmInv, Install, ImageTypeOK
    <3> QED BY <3>1, <3>2, <3>4, ZenonT(60) DEF Moved, CacheInv
  <2>4. CASE Rename(p) /\ pull[p].mode = "reuse"
    <3>1. PICK at \in {"mark", "failed"} : Step(p, at) /\ (at = "mark" => rootfs' = "full")
                                           /\ (at = "failed" => rootfs' = rootfs)
      BY <2>4, ZenonT(60) DEF Rename, Fails
    <3>2. Moved(p, at) /\ ~Refreshing(p)' /\ ~Refreshing(p)
      BY <1>0, <2>4, <3>1, StepMoves DEF Rename, Refreshing
    <3>3. ~disturbed' => ~disturbed /\ \A q \in Puller : ~Refreshing(q)
      BY <2>4, <3>2, Zenon DEF Rename, Disturbs
    <3>4. ASSUME ~disturbed' PROVE CalmInv'
      BY <1>b, <2>4, <3>1, <3>2, <3>3, <3>4, QuietStep, ZenonT(60) DEF CalmInv, Rename
    <3> QED BY <3>1, <3>2, <3>4, ZenonT(60) DEF Moved, CacheInv
  <2>5. CASE Mark(p) /\ pull[p].mode = "reuse"
    <3>1. PICK at \in {"resolv", "failed"} : Step(p, at)
      BY <2>5, ZenonT(60) DEF Mark, Fails
    <3>2. Moved(p, at) /\ ~Refreshing(p)' /\ ~Refreshing(p)
      BY <1>0, <2>5, <3>1, StepMoves DEF Mark, Refreshing
    <3>3. ~disturbed' => ~disturbed /\ \A q \in Puller : ~Refreshing(q)
      BY <2>5, <3>2, Zenon DEF Mark, Disturbs
    <3>4. ASSUME ~disturbed' PROVE CalmInv'
      BY <1>b, <2>5, <3>1, <3>2, <3>3, <3>4, QuietStep, ZenonT(60) DEF CalmInv, Mark
    <3> QED BY <3>1, <3>2, <3>4, ZenonT(60) DEF Moved, CacheInv
  <2>6. CASE WriteResolvConf(p)
    <3>1. PICK at \in {"ready", "failed"} : Step(p, at)
      BY <2>6, ZenonT(60) DEF WriteResolvConf, Fails
    <3>2. Moved(p, at) /\ ~Refreshing(p)' /\ ~Refreshing(p)
      BY <1>0, <2>6, <3>1, StepMoves DEF WriteResolvConf, Refreshing
    <3>3. ~disturbed' => ~disturbed /\ \A q \in Puller : ~Refreshing(q)
      BY <2>6, <3>2, Zenon DEF WriteResolvConf, Disturbs
    <3>4. ASSUME ~disturbed' PROVE CalmInv'
      BY <1>b, <2>6, <3>1, <3>2, <3>3, <3>4, QuietStep, ZenonT(60) DEF CalmInv, WriteResolvConf
    <3> QED BY <3>1, <3>2, <3>4, ZenonT(60) DEF Moved, CacheInv
  <2>7. CASE Unmark(p)
    <3>1. PICK at \in {"evict"} : Step(p, at)
      BY <2>7, ZenonT(60) DEF Unmark
    <3>2. Moved(p, at) /\ (at \notin Returned => pull'[p].mode = "refresh")
          /\ (Refreshing(p)' <=> at \in {"evict", "removing", "rename", "mark"})
      BY <1>0, <2>7, <3>1, StepMoves DEF Unmark, Returned
    <3>3. ASSUME ~disturbed' PROVE ~disturbed /\ Alone(p) /\ ~marker'
      BY <2>7, <3>1, <3>3, Zenon DEF Unmark
    <3>4. ASSUME ~disturbed' PROVE CalmInv'
      BY <1>b, <2>7, <3>1, <3>2, <3>3, <3>4, RefreshStep, ZenonT(60) DEF CalmInv, Unmark, Refreshing, Alone, Active, Returned
    <3> QED BY <3>1, <3>2, <3>4, ZenonT(60) DEF Moved, CacheInv, Returned
  <2>8. CASE Evict(p)
    <3>1. PICK at \in {"rename", "removing"} : Step(p, at) /\ (at = "rename" => rootfs' = "none")
      BY <2>8, ZenonT(60) DEF Evict
    <3>2. Moved(p, at) /\ (at \notin Returned => pull'[p].mode = "refresh")
          /\ (Refreshing(p)' <=> at \in {"evict", "removing", "rename", "mark"})
      BY <1>0, <2>8, <3>1, StepMoves, ZenonT(60) DEF Evict, CacheInv, Returned
    <3>3. ASSUME ~disturbed' PROVE ~disturbed /\ Alone(p) /\ ~marker'
      BY <1>b, <2>8, <3>1, <3>3, Zenon DEF Evict, Disturbs, CalmInv, CacheInv, Refreshing
    <3>4. ASSUME ~disturbed' PROVE CalmInv'
      BY <2>8, <3>1, <3>2, <3>3, <3>4, RefreshStep, ZenonT(60) DEF Evict, CacheInv
    <3> QED BY <3>1, <3>2, <3>4, ZenonT(60) DEF Moved, CacheInv, Returned
  <2>9. CASE EvictDone(p)
    <3>1. PICK at \in {"rename", "failed"} : Step(p, at) /\ (at = "rename" => rootfs' = "none")
                                           /\ (at = "failed" => disturbed')
      BY <2>9, ZenonT(60) DEF EvictDone, Fails
    <3>2. Moved(p, at) /\ (at \notin Returned => pull'[p].mode = "refresh")
          /\ (Refreshing(p)' <=> at \in {"evict", "removing", "rename", "mark"})
      BY <1>0, <2>9, <3>1, StepMoves DEF EvictDone, CacheInv, Returned
    <3>3. ASSUME ~disturbed' PROVE ~disturbed /\ Alone(p) /\ ~marker'
      BY <1>b, <2>9, <3>1, <3>3, Zenon DEF EvictDone, Disturbs, CalmInv, CacheInv, Refreshing
    <3>4. ASSUME ~disturbed' PROVE CalmInv'
      BY <2>9, <3>1, <3>2, <3>3, <3>4, RefreshStep, ZenonT(60) DEF EvictDone, CacheInv
    <3> QED BY <3>1, <3>2, <3>4, ZenonT(60) DEF Moved, CacheInv, Returned
  <2>10. CASE Rename(p) /\ pull[p].mode = "refresh"
    <3>1. PICK at \in {"mark", "failed"} : Step(p, at) /\ (at = "mark" => rootfs' = "full")
                                          /\ (at = "failed" => disturbed')
      BY <2>10, Zenon DEF Rename, Fails, Refreshing
    <3>2. Moved(p, at) /\ (at \notin Returned => pull'[p].mode = "refresh")
          /\ (Refreshing(p)' <=> at \in {"evict", "removing", "rename", "mark"})
      BY <1>0, <2>10, <3>1, StepMoves, ZenonT(30) DEF Rename, Returned
    <3>3. ASSUME ~disturbed' PROVE ~disturbed /\ Alone(p) /\ ~marker'
      BY <1>b, <2>10, <3>1, <3>3, Zenon DEF Rename, Disturbs, CalmInv, Refreshing
    <3>4. ASSUME ~disturbed' PROVE CalmInv'
      BY <2>10, <3>1, <3>2, <3>3, <3>4, RefreshStep, ZenonT(60) DEF Rename
    <3> QED BY <3>1, <3>2, <3>4 DEF Moved, CacheInv, Returned
  <2>11. CASE Mark(p) /\ pull[p].mode = "refresh"
    <3>1. PICK at \in {"resolv", "failed"} : Step(p, at)
      BY <2>11, ZenonT(60) DEF Mark, Fails
    <3>2. Moved(p, at) /\ (at \notin Returned => pull'[p].mode = "refresh")
          /\ (Refreshing(p)' <=> at \in {"evict", "removing", "rename", "mark"})
      BY <1>0, <2>11, <3>1, StepMoves DEF Mark, Returned
    <3>3. ASSUME ~disturbed' PROVE ~disturbed /\ Alone(p) /\ rootfs' = "full"
      BY <1>b, <2>11, <3>1, <3>3, Zenon DEF Mark, Disturbs, CalmInv, Refreshing
    <3>4. ASSUME ~disturbed' PROVE CalmInv'
      BY <2>11, <3>1, <3>2, <3>3, <3>4, RefreshStep, ZenonT(30) DEF Mark
    <3> QED BY <3>1, <3>2, <3>4 DEF Moved, CacheInv, Returned
  <2>12. pull[p].mode \in {"reuse", "refresh"} BY <1>0, ZenonT(60) DEF ImageTypeOK, Mode
  <2> QED BY <1>2, <2>1, <2>2, <2>3, <2>4, <2>5, <2>6, <2>7, <2>8, <2>9, <2>10, <2>11, <2>12, ZenonT(60)
          DEF PullStep
<1>3. ASSUME NEW P \in SUBSET Puller, Abandon(P)
      PROVE  /\ \A q \in Puller : pull'[q].at \in {"evict", "removing"} => pull'[q].mode = "refresh"
             /\ ~disturbed' => CalmInv'
  <2>1. \A q \in Puller : pull'[q] = IF q \in P /\ Active(q)
          THEN [at |-> "failed", mode |-> "reuse"] ELSE pull[q]
    BY <1>3 DEF Abandon
  <2>2. ASSUME ~disturbed' PROVE ~disturbed /\ \A q \in Puller : ~Refreshing(q)
    BY <1>3, <2>2, Zenon DEF Abandon
  <2>3. \A q \in Puller : pull'[q].at = "failed" \/ pull'[q] = pull[q]
    BY <2>1
  <2>4. ASSUME ~disturbed', NEW q \in Puller PROVE ~Refreshing(q)'
    BY <2>2, <2>3, <2>4, ZenonT(60) DEF Refreshing
  <2>5. marker' = marker /\ rootfs' = rootfs BY <1>3, ZenonT(60) DEF Abandon
  <2>6. ASSUME ~disturbed' PROVE CalmInv'
    BY <1>b, <2>2, <2>3, <2>4, <2>5, <2>6, QuietIsWhole, ZenonT(30) DEF CalmInv
  <2> QED BY <2>3, <2>6, ZenonT(30) DEF CacheInv
<1> QED BY <1>1, <1>2, <1>3, ZenonT(60) DEF ImageNext

\* The invariant holds always.
THEOREM CacheInvariant == ImageSpec => []CacheInv
<1>1. CacheInv /\ UNCHANGED imageVars => CacheInv'
  BY DEF CacheInv, imageVars, ImageTypeOK, Refreshing, Alone, Active
<1> QED BY CacheInit, CacheStep, <1>1, PTL DEF ImageSpec

\* The marker of pull_and_unpack_with never vouches for an incomplete rootfs,
\* and a start is never handed one, for any number of overlapping pulls and any
\* faults, unless a refresh was disturbed.
THEOREM CacheIsTrue == ImageSpec => [](MarkerMeansComplete /\ ServedComplete)
<1>1. CacheInv => MarkerMeansComplete /\ ServedComplete
  BY DEF CacheInv, MarkerMeansComplete, ServedComplete, ImageTypeOK
<1> QED BY CacheInvariant, <1>1, PTL
================================================================================
