------------------------- MODULE ProxyTunnelsProofs -------------------------
(***************************************************************************)
(* The safety of the proxy's tunnels, sessions and drain for any numbers   *)
(* of tunnels, connections and calls: the invariant SafeInv is inductive.  *)
(***************************************************************************)
EXTENDS ProxyTunnels, TLAPS

\* The provers of the leaves that name none, with their time limits in seconds.
USE SMTT(30), Z3T(30), ZenonT(30)

TunnelStage == {"idle", "open", "ready", "cancel requests", "cancel sessions", "deregister", "gone"}
CallStage == {"idle", "routing", "refused", "insert", "recheck", "start", "open", "ended"}

Shape ==
  /\ link \in [Tunnel -> {"idle", "up", "down"}]
  /\ tunnel \in [Tunnel -> TunnelStage]
  /\ pool \in Tunnel \cup {None}
  /\ call \in [Call -> [at : CallStage, on : Tunnel \cup {None}]]
  /\ sessions \subseteq Call
  /\ gateway \in [Call -> {"open", "told", "left"}]
  /\ pump \in [Call -> {"none", "on", "closed", "ended", "dead"}]
  /\ input \in [Call -> Tunnel \cup {None}]

\* The agent dials a tunnel when all before it are down, and the proxy cleans up
\* after a tunnel only when it is.
Dialled ==
  \A t \in Tunnel :
    /\ link[t] = "idle" => tunnel[t] = "idle"
    /\ link[t] # "idle" => \A u \in Tunnel : u < t => link[u] = "down"
    /\ tunnel[t] \in {"cancel requests", "cancel sessions", "deregister", "gone"} => link[t] = "down"

\* The tunnel in the pool, and those taken from it, have been registered, and a
\* tunnel registers once.
Registered(t) == tunnel[t] \notin {"idle", "open"}
Pooled == pool # None => Registered(pool)
Taken ==
  \A i \in Call :
    /\ call[i].at \in {"idle", "routing"} => call[i].on = None
    /\ call[i].at \in {"insert", "recheck", "start", "open"} => call[i].on # None
    /\ call[i].on # None => Registered(call[i].on)

\* Frames are pumped only for a call that took a tunnel; once one has gone to
\* another tunnel, the call's own is no longer in the pool.
Pumped ==
  \A i \in Call :
    /\ pump[i] \in {"on", "closed"} \/ input[i] # None => call[i].on # None
    /\ input[i] \notin {None, call[i].on} => pool # call[i].on

\* FailedForCause from the moment a session is in the map.
Ended ==
  \A i \in Call : call[i].at \in {"recheck", "start", "open"} /\ i \notin sessions /\ gateway[i] # "left" =>
    supervisor = "done" \/ tunnel[call[i].on] \in {"deregister", "gone"}

\* The flag is set before the supervisor polls.
Drained ==
  /\ supervisor # "asleep" => draining
  /\ DrainLeavesNone

SafeInv == Shape /\ Dialled /\ LatestServes /\ Pooled /\ Taken /\ Pumped /\ Ended /\ Drained

\* What SafeInv is about: the pending requests, the buffers and the agent's
\* sessions are not in it.
safeVars == <<tunnelVars, call, sessions, gateway, pump, input, draining, supervisor>>

\* Init satisfies the invariant.
LEMMA SafeInit == Init => SafeInv
<1> SUFFICES ASSUME Init PROVE SafeInv OBVIOUS
<1> USE NoneIsOther DEF Init
<1>1. Shape BY DEF Shape, TunnelStage, CallStage
<1>2. Dialled /\ LatestServes BY DEF Dialled, LatestServes
<1>3. Pooled /\ Taken /\ Pumped BY DEF Pooled, Taken, Pumped
<1>4. Ended /\ Drained BY DEF Ended, Drained, DrainLeavesNone
<1> QED BY <1>1, <1>2, <1>3, <1>4 DEF SafeInv

\* A step that leaves all of that alone keeps the invariant.
LEMMA SafeFrame == ASSUME SafeInv, UNCHANGED safeVars PROVE SafeInv'
  BY Zenon DEF SafeInv, safeVars, tunnelVars, Shape, Dialled, LatestServes, Pooled, Registered, Taken,
         Pumped, Ended, Drained, DrainLeavesNone

\* HTTP requests, the frames of the agent, and the gateway's reading.
LEMMA QuietSteps ==
  ASSUME SafeInv,
         \/ \E r \in Conn : Accept(r) \/ Deliver(r) \/ ClientCloses(r) \/ ConnTask(r)
         \/ \E i \in Call : Fallback(i) \/ \E frame \in {"data", "exit"} : AgentSends(i, frame)
         \/ HttpStops \/ HttpDrained \/ HttpAborts
  PROVE  SafeInv'
<1>1. UNCHANGED safeVars
  <2> USE DEF safeVars, callVars, wireVars, drainVars, tunnelVars
  <2>1. ASSUME NEW r \in Conn, Accept(r) \/ Deliver(r) \/ ClientCloses(r) PROVE UNCHANGED safeVars
    BY <2>1, ZenonT(60) DEF Accept, Deliver, ClientCloses
  <2>2. ASSUME NEW r \in Conn, ConnTask(r) PROVE UNCHANGED safeVars
    BY <2>2 DEF ConnTask, Route, InsertPending, SendRequest, Dropped, UpstreamTimeout
  <2>3. ASSUME NEW i \in Call, Fallback(i) PROVE UNCHANGED safeVars
    BY <2>3 DEF Fallback
  <2>4. ASSUME NEW i \in Call, NEW frame, AgentSends(i, frame) PROVE UNCHANGED safeVars
    BY <2>4 DEF AgentSends
  <2>5. ASSUME HttpStops \/ HttpDrained \/ HttpAborts PROVE UNCHANGED safeVars
    BY <2>5 DEF HttpStops, HttpDrained, HttpAborts
  <2> QED BY <2>1, <2>2, <2>3, <2>4, <2>5
<1> QED BY <1>1, SafeFrame

\* What a step of the tunnel's task or of its link leaves alone.
tunnelFrame == <<call, gateway, pump, input, draining, supervisor>>

\* The agent dials.
LEMMA DialSafe == ASSUME SafeInv, NEW t \in Tunnel, Dial(t) PROVE SafeInv'
<1> USE DEF SafeInv
<1>1. UNCHANGED <<pool, overtaken, sessions, tunnelFrame>>
  BY DEF Dial, callVars, wireVars, drainVars, tunnelFrame
<1>2. /\ link[t] = "idle" /\ tunnel[t] = "idle"
      /\ link' = [link EXCEPT ![t] = "up"] /\ tunnel' = [tunnel EXCEPT ![t] = "open"]
  BY Zenon DEF Dial, Dialled
<1>down. \A u \in Tunnel : u < t => link[u] = "down"
  <2> SUFFICES ASSUME NEW u \in Tunnel, u < t PROVE link[u] = "down" OBVIOUS
  <2>1. u \in 1..(t - 1) BY BoundsAreNatural DEF Tunnel
  <2> QED BY <2>1 DEF Dial
<1>3. Shape' BY <1>1, <1>2, Zenon DEF Shape, tunnelFrame, TunnelStage
<1>4. Dialled'
  BY <1>2, <1>down, BoundsAreNatural, ZenonT(60) DEF Dialled, Shape, Tunnel
<1>5. LatestServes' BY <1>1, <1>2 DEF LatestServes, Shape
<1>6. \A u \in Tunnel : u # t => tunnel'[u] = tunnel[u] BY <1>2 DEF Shape
<1>7. Pooled' /\ Taken'
  BY <1>1, <1>2, <1>6 DEF Pooled, Taken, Registered, Shape, tunnelFrame
<1>8. Pumped' /\ Drained' BY <1>1 DEF Pumped, Drained, DrainLeavesNone, tunnelFrame
<1>9. Ended' BY <1>1, <1>2, <1>6 DEF Ended, Shape, Taken, tunnelFrame
<1> QED BY <1>3, <1>4, <1>5, <1>7, <1>8, <1>9

\* A link breaks.
LEMMA LinkBreaksSafe == ASSUME SafeInv, NEW t \in Tunnel, LinkBreaks(t) PROVE SafeInv'
<1> USE DEF SafeInv
<1>1. UNCHANGED <<tunnel, pool, overtaken, sessions, tunnelFrame>>
  BY DEF LinkBreaks, drainVars, tunnelFrame
<1>2. link[t] = "up" /\ link' = [link EXCEPT ![t] = "down"]
  BY DEF LinkBreaks
<1>3. Shape' BY <1>1, <1>2 DEF Shape, tunnelFrame
<1>4. Dialled' BY <1>1, <1>2, Zenon DEF Dialled, Shape, Tunnel
<1>5. LatestServes' BY <1>1, <1>2 DEF LatestServes, Shape
<1>6. Pooled' /\ Taken' /\ Pumped' BY <1>1 DEF Pooled, Taken, Registered, Pumped, tunnelFrame
<1>7. Ended' /\ Drained' BY <1>1 DEF Ended, Drained, DrainLeavesNone, tunnelFrame
<1> QED BY <1>3, <1>4, <1>5, <1>6, <1>7

\* The Ready of a tunnel puts it into the pool: it was in no call's hands before.
LEMMA RegisterSafe == ASSUME SafeInv, NEW t \in Tunnel, Register(t) PROVE SafeInv'
<1> USE DEF SafeInv
<1>1. UNCHANGED <<link, sessions, tunnelFrame>>
  BY DEF Register, callVars, wireVars, drainVars, tunnelFrame
<1>2. /\ tunnel[t] = "open" /\ tunnel' = [tunnel EXCEPT ![t] = "ready"]
      /\ pool' = t /\ overtaken' = (overtaken \/ \E u \in Tunnel : u > t /\ tunnel[u] = "ready")
  BY DEF Register
<1>3. \A u \in Tunnel : u # t => tunnel'[u] = tunnel[u] BY <1>2 DEF Shape
<1>4. tunnel'[t] = "ready" BY <1>2 DEF Shape
<1>5. Shape' BY <1>1, <1>2, Zenon DEF Shape, tunnelFrame, TunnelStage
<1>6. Dialled' BY <1>1, <1>2, <1>3, <1>4, Zenon DEF Dialled, Shape
<1>7. LatestServes'
  <2> SUFFICES ASSUME NEW u \in Tunnel, tunnel'[u] = "ready", link'[u] = "up", u # t
               PROVE  overtaken'
    BY <1>2 DEF LatestServes
  <2>1. tunnel[u] = "ready" /\ link[u] = "up" BY <1>1, <1>3
  <2>2. link[t] # "idle" BY <1>2, Zenon DEF Dialled
  <2>3. ~(u < t)
    BY <2>1, <2>2, BoundsAreNatural, Zenon DEF Dialled, Tunnel
  <2>4. u > t BY <2>3, BoundsAreNatural DEF Tunnel
  <2> QED BY <1>2, <2>1, <2>4, Zenon
<1>8. Pooled' /\ Taken'
  BY <1>1, <1>2, <1>3, <1>4 DEF Pooled, Taken, Registered, Shape, tunnelFrame
<1>9. Pumped'
  BY <1>1, <1>2, NoneIsOther DEF Pumped, Taken, Registered, Shape, tunnelFrame
<1>10. Ended' /\ Drained'
  BY <1>1, <1>2, <1>3, <1>4 DEF Ended, Taken, Shape, Drained, DrainLeavesNone, tunnelFrame
<1> QED BY <1>5, <1>6, <1>7, <1>8, <1>9, <1>10

\* The task of a tunnel whose link is down goes on to its next stage, taking only
\* sessions of its own away.
LEMMA CleanupSafe ==
  ASSUME SafeInv, NEW t \in Tunnel, TunnelEnds(t) \/ CancelRequests(t) \/ CancelSessions(t) \/ Deregister(t)
  PROVE  SafeInv'
<1> USE DEF SafeInv
<1>1. UNCHANGED <<link, overtaken, tunnelFrame>>
  BY Zenon DEF TunnelEnds, CancelRequests, CancelSessions, Deregister, callVars, wireVars, drainVars, tunnelFrame
<1>2. PICK s \in TunnelStage : tunnel' = [tunnel EXCEPT ![t] = s] /\ s \notin {"idle", "open", "ready"}
  BY Zenon DEF TunnelEnds, CancelRequests, CancelSessions, Deregister, TunnelStage, Shape
<1>3. /\ tunnel[t] # "idle" /\ link[t] = "down"
      /\ tunnel[t] \in {"deregister", "gone"} => s = "gone"
      /\ pool' = pool \/ (pool = t /\ pool' = None)
  BY <1>2, Zenon DEF TunnelEnds, CancelRequests, CancelSessions, Deregister, Dialled, Shape
<1>4. \A u \in Tunnel : u # t => tunnel'[u] = tunnel[u] BY <1>2 DEF Shape
<1>5. tunnel'[t] = s BY <1>2 DEF Shape
<1>6. /\ sessions' \subseteq sessions
      /\ \A i \in sessions : i \notin sessions' => call[i].on = t /\ s = "deregister"
  BY <1>2, <1>5, Zenon DEF TunnelEnds, CancelRequests, CancelSessions, Deregister, callVars, Shape
<1>7. Shape' BY <1>1, <1>2, <1>3, <1>6 DEF Shape, tunnelFrame
<1>8. Dialled' BY <1>1, <1>2, <1>3, <1>4, <1>5, Zenon DEF Dialled, Shape
<1>9. LatestServes' BY <1>1, <1>3, <1>4, <1>5 DEF LatestServes
<1>10. Pooled' /\ Taken'
  BY <1>1, <1>2, <1>3, <1>4, <1>5 DEF Pooled, Taken, Registered, Shape, tunnelFrame
<1>11. Pumped' BY <1>1, <1>3 DEF Pumped, Shape, tunnelFrame
<1>12. Ended' BY <1>1, <1>3, <1>4, <1>5, <1>6 DEF Ended, Taken, Shape, tunnelFrame
<1>13. Drained' BY <1>1, <1>6 DEF Drained, DrainLeavesNone, tunnelFrame
<1> QED BY <1>7, <1>8, <1>9, <1>10, <1>11, <1>12, <1>13

\* The steps of a call before and after its time in the map of sessions.
LEMMA CallSafe ==
  ASSUME SafeInv, NEW i \in Call, OpenIoStream(i) \/ CallTask(i)
  PROVE  SafeInv'
<1> USE DEF SafeInv
<1>1. UNCHANGED <<tunnelVars, gateway, input, draining, supervisor>>
  BY ZenonT(60) DEF OpenIoStream, CallTask, Dispatch, InsertSession, RecheckDrain, ForwardStart, Reject, CallCloses,
         wireVars, drainVars
<1>2. PICK at \in CallStage, on \in Tunnel \cup {None} :
        /\ call' = [call EXCEPT ![i] = [at |-> at, on |-> on]]
        /\ on = call[i].on \/ (call[i].at = "routing" /\ at = "insert" /\ on = pool /\ pool # None)
        /\ at \in {"idle", "routing"} => on = None
        /\ at \in {"insert", "recheck", "start", "open"} => on # None
  <2>1. call[i] \in [at : CallStage, on : Tunnel \cup {None}] BY DEF Shape
  <2>2. \A at \in CallStage : [call EXCEPT ![i].at = at] = [call EXCEPT ![i] = [at |-> at, on |-> call[i].on]]
    <3> SUFFICES ASSUME NEW at \in CallStage
                 PROVE  [call EXCEPT ![i].at = at] = [call EXCEPT ![i] = [at |-> at, on |-> call[i].on]]
      BY Zenon
    <3>1. [call[i] EXCEPT !.at = at] = [at |-> at, on |-> call[i].on] BY <2>1
    <3>2. [call EXCEPT ![i].at = at] = [call EXCEPT ![i] = [call[i] EXCEPT !.at = at]] BY Zenon
    <3> QED BY <3>1, <3>2, Zenon
  <2>3. CASE OpenIoStream(i) BY <2>1, <2>2, <2>3, Zenon DEF OpenIoStream, CallStage, Taken
  <2>4. CASE Dispatch(i) BY <2>1, <2>2, <2>4 DEF Dispatch, CallStage, Shape
  <2>5. CASE InsertSession(i) BY <2>1, <2>2, <2>5, Zenon DEF InsertSession, CallStage, Taken
  <2>6. CASE RecheckDrain(i) BY <2>1, <2>2, <2>6 DEF RecheckDrain, CallStage, Taken
  <2>7. CASE ForwardStart(i) BY <2>1, <2>2, <2>7 DEF ForwardStart, CallStage, Taken
  <2>8. CASE Reject(i) BY <2>1, <2>2, <2>8, Zenon DEF Reject, CallStage, Taken
  <2>9. CASE CallCloses(i) BY <2>1, <2>2, <2>9, Zenon DEF CallCloses, CallStage, Taken
  <2> QED BY <2>3, <2>4, <2>5, <2>6, <2>7, <2>8, <2>9 DEF CallTask
<1>3. /\ sessions' \subseteq sessions \cup {i} /\ sessions \subseteq sessions' \cup {i}
      /\ at \in {"recheck", "start", "open"} => call[i].at \in {"insert", "recheck", "start", "open"}
      /\ at = "recheck" => i \in sessions'
      /\ at \in {"start", "open"} => (i \in sessions' <=> i \in sessions) /\ call[i].at \in {"recheck", "start"}
      /\ at = "start" => ~draining
      /\ i \in sessions' => at = "recheck" \/ i \in sessions
      /\ i \in sessions' /\ call[i].at = "recheck" => at = "start"
  <2>1. call'[i].at = at BY <1>2 DEF Shape
  <2> QED BY <2>1 DEF OpenIoStream, CallTask, Dispatch, InsertSession, RecheckDrain, ForwardStart, Reject,
                      CallCloses, Shape, CallStage
<1>4. /\ call'[i].at = at /\ call'[i].on = on
      /\ \A j \in Call : j # i => call'[j] = call[j]
  BY <1>2 DEF Shape
<1>5. /\ pump' \in [Call -> {"none", "on", "closed", "ended", "dead"}]
      /\ \A j \in Call : pump'[j] = pump[j] \/ (j = i /\ at = "open")
  <2>1. CASE ForwardStart(i)
    BY <1>4, <2>1 DEF ForwardStart, Shape
  <2>2. CASE ~ForwardStart(i)
    BY <2>2 DEF OpenIoStream, CallTask, Dispatch, InsertSession, RecheckDrain, Reject, CallCloses,
                wireVars, Shape
  <2> QED BY <2>1, <2>2
<1>6. Shape' BY <1>1, <1>2, <1>3, <1>5, Zenon DEF Shape, tunnelVars
<1>7. Dialled' /\ LatestServes' /\ Pooled'
  BY <1>1, Zenon DEF Dialled, LatestServes, Pooled, Registered, tunnelVars
<1>8. Taken'
  BY <1>1, <1>2, <1>4, ZenonT(60) DEF Taken, Pooled, Registered, tunnelVars
<1>9. Pumped'
  BY <1>1, <1>2, <1>4, <1>5 DEF Pumped, Taken, tunnelVars
<1>10. Ended'
  <2> SUFFICES ASSUME NEW j \in Call, call'[j].at \in {"recheck", "start", "open"}, j \notin sessions',
                      gateway'[j] # "left"
               PROVE  supervisor' = "done" \/ tunnel'[call'[j].on] \in {"deregister", "gone"}
    BY DEF Ended
  <2>1. CASE j # i BY <1>1, <1>3, <1>4, <2>1 DEF Ended, tunnelVars
  <2>2. CASE j = i BY <1>1, <1>2, <1>3, <1>4, <2>2 DEF Ended, tunnelVars
  <2> QED BY <2>1, <2>2
<1>11. Drained'
  BY <1>1, <1>3, <1>4 DEF Drained, DrainLeavesNone, Shape
<1> QED BY <1>6, <1>7, <1>8, <1>9, <1>10, <1>11

\* The pump sends to the tunnel in the pool, which is the call's own or will never
\* be again.
LEMMA PumpSafe ==
  ASSUME SafeInv, NEW i \in Call, PumpEnds(i) \/ \E frame \in {"stdin", "close"} : PumpForwards(i, frame)
  PROVE  SafeInv'
<1> USE DEF SafeInv
<1>1. UNCHANGED <<tunnelVars, call, sessions, gateway, draining, supervisor>>
  BY DEF PumpEnds, PumpForwards, drainVars
<1>2. /\ pump[i] \in {"on", "closed"}
      /\ pump' \in [Call -> {"none", "on", "closed", "ended", "dead"}]
      /\ \A j \in Call : j # i => pump'[j] = pump[j]
      /\ input' = input \/ (pool # None /\ input' = [input EXCEPT ![i] = pool])
  BY ZenonT(60) DEF PumpEnds, PumpForwards, Sends, Shape
<1>3. Shape' BY <1>1, <1>2 DEF Shape, tunnelVars
<1>4. Dialled' /\ LatestServes' /\ Pooled' /\ Taken'
  BY <1>1, Zenon DEF Dialled, LatestServes, Pooled, Taken, Registered, tunnelVars
<1>5. Pumped' BY <1>1, <1>2 DEF Pumped, Shape, tunnelVars
<1>6. Ended' /\ Drained' BY <1>1 DEF Ended, Drained, DrainLeavesNone, tunnelVars
<1> QED BY <1>3, <1>4, <1>5, <1>6

\* The gateway reads and leaves.
LEMMA GatewaySafe ==
  ASSUME SafeInv, NEW i \in Call, GatewayTakes(i) \/ GatewayLeaves(i)
  PROVE  SafeInv'
<1> USE DEF SafeInv
<1>1. UNCHANGED <<tunnelVars, call, sessions, pump, input, draining, supervisor>>
  BY DEF GatewayTakes, GatewayLeaves, wireVars, drainVars
<1>2. /\ gateway' \in [Call -> {"open", "told", "left"}]
      /\ \A j \in Call : gateway[j] = "left" => gateway'[j] = "left"
  BY DEF GatewayTakes, GatewayLeaves, Shape
<1>3. Shape' BY <1>1, <1>2 DEF Shape, tunnelVars
<1>4. Dialled' /\ LatestServes' /\ Pooled' /\ Taken' /\ Pumped'
  BY <1>1, Zenon DEF Dialled, LatestServes, Pooled, Taken, Pumped, Registered, tunnelVars
<1>5. Ended' /\ Drained' BY <1>1, <1>2 DEF Ended, Drained, DrainLeavesNone, tunnelVars
<1> QED BY <1>3, <1>4, <1>5

\* The drain supervisor sets the flag, waits for the map to be empty, or empties it.
LEMMA DrainSafe == ASSUME SafeInv, Sigterm \/ DrainEmpty \/ DrainFails PROVE SafeInv'
<1> USE DEF SafeInv
<1>1. UNCHANGED <<tunnelVars, call, gateway, pump, input>>
  BY DEF Sigterm, DrainEmpty, DrainFails, callVars, wireVars
<1>2. /\ sessions' = sessions \/ sessions' = {}
      /\ \/ supervisor = "asleep" /\ draining' = TRUE /\ supervisor' = "polling" /\ sessions' = sessions
         \/ supervisor = "polling" /\ draining' = draining /\ supervisor' = "done" /\ sessions' = {}
  BY DEF Sigterm, DrainEmpty, DrainFails, callVars
<1>3. Shape' BY <1>1, <1>2 DEF Shape, tunnelVars
<1>4. Dialled' /\ LatestServes' /\ Pooled' /\ Taken' /\ Pumped'
  BY <1>1, Zenon DEF Dialled, LatestServes, Pooled, Taken, Pumped, Registered, tunnelVars
<1>5. Ended' BY <1>1, <1>2 DEF Ended, tunnelVars
<1>6. Drained' BY <1>1, <1>2 DEF Drained, DrainLeavesNone
<1> QED BY <1>3, <1>4, <1>5, <1>6

\* The process exits, and everything with it.
LEMMA ExitSafe == ASSUME SafeInv, Exit PROVE SafeInv'
<1> USE DEF SafeInv
<1>1. /\ link' = [t \in Tunnel |-> "down"] /\ tunnel' = [t \in Tunnel |-> "gone"] /\ pool' = None
      /\ call' = [i \in Call |-> [call[i] EXCEPT !.at = "ended"]] /\ sessions' = {}
      /\ gateway' = [i \in Call |-> "left"] /\ pump' = [i \in Call |-> "dead"]
      /\ UNCHANGED <<overtaken, input, draining, supervisor>>
  BY DEF Exit
<1>2. \A i \in Call : call'[i].at = "ended" /\ call'[i].on = call[i].on
  BY <1>1 DEF Shape
<1>3. Shape' BY <1>1, ZenonT(60) DEF Shape, TunnelStage, CallStage
<1>4. Dialled' BY <1>1, BoundsAreNatural, Zenon DEF Dialled, Tunnel
<1>5. LatestServes' /\ Pooled' BY <1>1 DEF LatestServes, Pooled
<1>6. Taken' BY <1>1, <1>2, ZenonT(60) DEF Taken, Registered, Shape
<1>7. Pumped' BY <1>1, <1>2 DEF Pumped
<1>8. Ended' /\ Drained' BY <1>1, <1>2 DEF Ended, Drained, DrainLeavesNone
<1> QED BY <1>3, <1>4, <1>5, <1>6, <1>7, <1>8

\* Every step keeps the invariant.
LEMMA SafeStep == ASSUME SafeInv, [Next]_vars PROVE SafeInv'
<1>1. CASE UNCHANGED vars
  BY <1>1, SafeFrame DEF vars, safeVars, callVars, wireVars, drainVars
<1>2. CASE Peers
  BY <1>2, DialSafe, LinkBreaksSafe, QuietSteps, CallSafe, PumpSafe, GatewaySafe, DrainSafe DEF Peers
<1>3. CASE \E t \in Tunnel : TunnelTask(t)
  BY <1>3, RegisterSafe, CleanupSafe DEF TunnelTask
<1>4. CASE \E r \in Conn : ConnTask(r)
  BY <1>4, QuietSteps
<1>5. CASE \E i \in Call : CallTask(i) \/ Fallback(i)
  BY <1>5, CallSafe, QuietSteps
<1>6. CASE Shutdown
  BY <1>6, DrainSafe, QuietSteps, ExitSafe DEF Shutdown
<1> QED BY <1>1, <1>2, <1>3, <1>4, <1>5, <1>6 DEF Next

\* The invariant of the proxy holds for any numbers of tunnels, requests and calls,
\* however registrations, clean-ups, calls and the drain interleave.
THEOREM ProxyInvariant == Spec => []SafeInv
  BY SafeInit, SafeStep, PTL DEF Spec

\* The drain leaves no session behind: a call that passed the first test of the
\* flag is caught by the second.
THEOREM DrainIsComplete == Spec => []DrainLeavesNone
<1>1. SafeInv => DrainLeavesNone BY DEF SafeInv, Drained
<1> QED BY <1>1, ProxyInvariant, PTL

\* A registered tunnel whose link is up is the one in the pool, unless
\* registrations overtook each other: no late clean-up removes it.
THEOREM LiveTunnelServes == Spec => []LatestServes
<1>1. SafeInv => LatestServes BY DEF SafeInv
<1> QED BY <1>1, ProxyInvariant, PTL

\* A session is failed only by the drain or by the clean-up of its own tunnel.
THEOREM OnlyOwnSessionsFail == Spec => []FailedForCause
<1>1. SafeInv => FailedForCause BY DEF SafeInv, Ended, FailedForCause
<1> QED BY <1>1, ProxyInvariant, PTL

\* Only the pumps send frames to the agent.
Pumps(i) == PumpEnds(i) \/ \E frame \in {"stdin", "close"} : PumpForwards(i, frame)
LEMMA OnlyPumpsSend ==
  ASSUME Next, \A i \in Call : ~Pumps(i)
  PROVE  UNCHANGED input
<1> USE DEF callVars, wireVars, drainVars, tunnelVars, connVars
<1>1. ASSUME NEW t \in Tunnel, Dial(t) \/ LinkBreaks(t) \/ TunnelTask(t) PROVE UNCHANGED input
  BY <1>1, Zenon DEF Dial, LinkBreaks, TunnelTask, Register, TunnelEnds, CancelRequests, CancelSessions, Deregister
<1>2. ASSUME NEW r \in Conn, Accept(r) \/ Deliver(r) \/ ClientCloses(r) \/ ConnTask(r) PROVE UNCHANGED input
  BY <1>2 DEF Accept, Deliver, ClientCloses, ConnTask, Route, InsertPending, SendRequest, Dropped, UpstreamTimeout
<1>3. ASSUME NEW i \in Call, OpenIoStream(i) \/ CallTask(i) PROVE UNCHANGED input
  BY <1>3 DEF OpenIoStream, CallTask, Dispatch, InsertSession, RecheckDrain, ForwardStart, Reject, CallCloses
<1>4. ASSUME NEW i \in Call, Fallback(i) \/ GatewayTakes(i) \/ GatewayLeaves(i) PROVE UNCHANGED input
  BY <1>4, ZenonT(30) DEF Fallback, GatewayTakes, GatewayLeaves
<1>5. ASSUME NEW i \in Call, NEW frame, AgentSends(i, frame) PROVE UNCHANGED input
  BY <1>5 DEF AgentSends
<1>6. ASSUME Sigterm \/ Shutdown PROVE UNCHANGED input
  BY <1>6 DEF Sigterm, Shutdown, DrainEmpty, DrainFails, HttpStops, HttpDrained, HttpAborts, Exit
<1>7. CASE Peers BY <1>1, <1>2, <1>3, <1>4, <1>5, <1>6, <1>7 DEF Peers, Pumps
<1> QED BY <1>1, <1>2, <1>3, <1>4, <1>6, <1>7 DEF Next

\* No frame reaches a session after one that went astray.
THEOREM SessionsHaveNoGap == Spec => NoGap
<1>1. ASSUME SafeInv, [Next]_vars
      PROVE  [\A i \in Call : input[i] \notin {None, call[i].on} => input'[i] # call[i].on]_vars
  <2> SUFFICES ASSUME NEW i \in Call, input[i] \notin {None, call[i].on}, Next
               PROVE  input'[i] # call[i].on
    BY <1>1
  <2>1. input'[i] = input[i] \/ input'[i] = pool
    <3>1. ASSUME NEW j \in Call, Pumps(j) PROVE input'[i] = input[i] \/ input'[i] = pool
      BY <1>1, <3>1 DEF Pumps, PumpEnds, PumpForwards, Sends, SafeInv, Shape
    <3> QED BY <3>1, OnlyPumpsSend, ZenonT(30)
  <2> QED BY <1>1, <2>1 DEF SafeInv, Pumped
<1> QED BY <1>1, ProxyInvariant, PTL DEF Spec, NoGap
=============================================================================
