---------------------------- MODULE ProxyTunnels ----------------------------
(***************************************************************************)
(* The proxy between its three kinds of peers: an agent's tunnels, public  *)
(* HTTP connections, and the gateway's I/O streams; and its shutdown.  The *)
(* pool, the pending HTTP requests and the I/O sessions are each under a   *)
(* lock of their own, so a step is one critical section, one channel       *)
(* operation or one wait.  Agents share no state, so one stands for all:   *)
(* its tunnels are numbered in the order it dials them, the next one after *)
(* the previous link broke, whether or not the proxy has noticed.          *)
(***************************************************************************)
EXTENDS Naturals, Sequences, FiniteSets

CONSTANTS
  Tunnels,      \* how many times the agent dials
  Conn,         \* HTTP connections, one request each
  Call,         \* OpenIoStream calls of the gateway
  None,
  Buffer,       \* IO_SESSION_BUFFER
  MaxOutput     \* frames the agent sends on a session

ASSUME BoundsAreNatural ==
  Tunnels \in Nat /\ Buffer \in Nat \ {0} /\ MaxOutput \in Nat

Tunnel == 1..Tunnels
ASSUME NoneIsOther == None \notin Tunnel

VARIABLES
  link,        \* the agent's end of each tunnel: "idle", "up", "down"
  tunnel,      \* the task of each tunnel
  pool,        \* TunnelPool.tunnels: the agent's tunnel
  overtaken,   \* a tunnel was registered after one dialled later
  conn,        \* the connections: where each request is, and on which tunnel
  pending,     \* StreamMux.pending
  call,        \* the dispatch_io_stream tasks
  sessions,    \* IoSessions.inner
  buffer,      \* server_tx of each call
  fallback,    \* a terminal frame waits in a task spawned by send_or_spawn
  dropped,     \* calls that lost a frame to a full buffer
  gateway,     \* the gateway's end: "open", "told" a terminal frame, "left"
  pump,        \* the inbound pump of each call
  input,       \* the tunnel its last frame went to
  agent,       \* the agent's session: "none", "running", "finished", "gone"
  output,      \* frames the agent sent on it so far, 0 again once it is gone
  draining,    \* the drain flag
  supervisor,  \* the drain supervisor: "asleep", "polling", "done"
  http,        \* the HTTP server: "accepting", "draining", "finished"
  process      \* "up" or "exited"

tunnelVars == <<link, tunnel, pool, overtaken>>
connVars == <<conn, pending>>
wireVars == <<pump, input, agent, output>>
callVars == <<call, sessions, buffer, fallback, dropped, gateway, wireVars>>
drainVars == <<draining, supervisor, http, process>>
vars == <<tunnelVars, connVars, callVars, drainVars>>

Init ==
  /\ link = [t \in Tunnel |-> "idle"]
  /\ tunnel = [t \in Tunnel |-> "idle"]
  /\ pool = None
  /\ overtaken = FALSE
  /\ conn = [r \in Conn |-> [at |-> "idle", on |-> None]]
  /\ pending = {}
  /\ call = [i \in Call |-> [at |-> "idle", on |-> None]]
  /\ sessions = {}
  /\ buffer = [i \in Call |-> << >>]
  /\ fallback = {}
  /\ dropped = {}
  /\ gateway = [i \in Call |-> "open"]
  /\ pump = [i \in Call |-> "none"]
  /\ input = [i \in Call |-> None]
  /\ agent = [i \in Call |-> "none"]
  /\ output = [i \in Call |-> 0]
  /\ draining = FALSE
  /\ supervisor = "asleep"
  /\ http = "accepting"
  /\ process = "up"

\* A send fails without a tunnel, and may once the link is down.  It may then also
\* succeed: the forwarder notices only at its own next send.
Refused(t) == t \in {None} \cup {u \in Tunnel : link[u] = "down"}

-----------------------------------------------------------------------------
(* The agent's tunnels: open_tunnel *)

\* The agent dials; while draining it is refused and will retry.
Dial(t) ==
  /\ link[t] = "idle" /\ \A u \in 1..(t - 1) : link[u] = "down"
  /\ ~draining
  /\ link' = [link EXCEPT ![t] = "up"]
  /\ tunnel' = [tunnel EXCEPT ![t] = "open"]
  /\ UNCHANGED <<pool, overtaken, connVars, callVars, drainVars>>

\* Ready.  Each tunnel registers once, so it stands for its own generation, which
\* is only ever compared for equality.
Register(t) ==
  /\ tunnel[t] = "open"
  /\ overtaken' = (overtaken \/ \E u \in Tunnel : u > t /\ tunnel[u] = "ready")
  /\ pool' = t
  /\ tunnel' = [tunnel EXCEPT ![t] = "ready"]
  /\ UNCHANGED <<link, connVars, callVars, drainVars>>

\* The link breaks; the agent ends the sessions it ran for this tunnel.
LinkBreaks(t) ==
  /\ link[t] = "up"
  /\ link' = [link EXCEPT ![t] = "down"]
  /\ LET S == {i \in Call : call[i].on = t /\ agent[i] # "none"} IN
     /\ agent' = [i \in Call |-> IF i \in S THEN "gone" ELSE agent[i]]
     /\ output' = [i \in Call |-> IF i \in S THEN 0 ELSE output[i]]
  /\ UNCHANGED <<tunnel, pool, overtaken, connVars, call, sessions, buffer, fallback,
                 dropped, gateway, pump, input, drainVars>>

\* The inbound loop sees the stream end.
TunnelEnds(t) ==
  /\ link[t] = "down" /\ tunnel[t] \in {"open", "ready"}
  /\ tunnel' = [tunnel EXCEPT ![t] = IF @ = "open" THEN "gone" ELSE "cancel requests"]
  /\ UNCHANGED <<link, pool, overtaken, connVars, callVars, drainVars>>

\* The pending requests of this generation lose their response_tx.
CancelRequests(t) ==
  /\ tunnel[t] = "cancel requests"
  /\ pending' = {r \in pending : conn[r].on # t}
  /\ tunnel' = [tunnel EXCEPT ![t] = "cancel sessions"]
  /\ UNCHANGED <<link, pool, overtaken, conn, callVars, drainVars>>

\* A terminal frame: try_send, or a task that waits for room.
Full(i) == Len(buffer[i]) >= Buffer
SendOrSpawn(S) ==
  /\ buffer' = [i \in Call |-> IF i \in S /\ ~Full(i) /\ gateway[i] # "left"
                               THEN Append(buffer[i], "error") ELSE buffer[i]]
  /\ fallback' = fallback \cup {i \in S : Full(i) /\ gateway[i] # "left"}

CancelAllSessions(t) ==
  /\ tunnel[t] = "cancel sessions"
  /\ sessions' = {} /\ SendOrSpawn(sessions)
  /\ tunnel' = [tunnel EXCEPT ![t] = "deregister"]
  /\ UNCHANGED <<link, pool, overtaken, connVars, call, dropped, gateway, wireVars, drainVars>>

CancelSessionsSilently(t) ==
  /\ tunnel[t] = "cancel sessions"
  /\ sessions' = {i \in sessions : call[i].on # t}
  /\ tunnel' = [tunnel EXCEPT ![t] = "deregister"]
  /\ UNCHANGED <<link, pool, overtaken, connVars, call, buffer, fallback, dropped, gateway, wireVars, drainVars>>

\* The sessions of this generation are removed and told.
CancelSessions(t) ==
  /\ tunnel[t] = "cancel sessions"
  /\ LET S == {i \in sessions : call[i].on = t} IN
     sessions' = sessions \ S /\ SendOrSpawn(S)
  /\ tunnel' = [tunnel EXCEPT ![t] = "deregister"]
  /\ UNCHANGED <<link, pool, overtaken, connVars, call, dropped, gateway, wireVars, drainVars>>

DeregisterAlways(t) ==
  /\ tunnel[t] = "deregister"
  /\ pool' = None
  /\ tunnel' = [tunnel EXCEPT ![t] = "gone"]
  /\ UNCHANGED <<link, overtaken, connVars, callVars, drainVars>>

DeregisterFallingBack(t) ==
  /\ tunnel[t] = "deregister"
  /\ pool' \in IF pool = t THEN {u \in Tunnel : tunnel[u] = "ready"} \cup {None} ELSE {pool}
  /\ tunnel' = [tunnel EXCEPT ![t] = "gone"]
  /\ UNCHANGED <<link, overtaken, connVars, callVars, drainVars>>

\* remove_if_current; the routes of the agent go with its last tunnel.
Deregister(t) ==
  /\ tunnel[t] = "deregister"
  /\ pool' = IF pool = t THEN None ELSE pool
  /\ tunnel' = [tunnel EXCEPT ![t] = "gone"]
  /\ UNCHANGED <<link, overtaken, connVars, callVars, drainVars>>

-----------------------------------------------------------------------------
(* Public HTTP: handle_request, route_request, send_request *)

\* A response of any status is written; the connection may then linger.
Answer(r) == conn' = [conn EXCEPT ![r] = [at |-> "answered", on |-> None]]
Working == {"routing", "insert", "send", "wait"}

Accept(r) ==
  /\ http = "accepting" /\ conn[r].at = "idle"
  /\ conn' = [conn EXCEPT ![r].at = "routing"]
  /\ UNCHANGED <<tunnelVars, pending, callVars, drainVars>>

\* The body is read, the host parsed and the route looked up; then the tunnel is
\* taken from the pool.
Route(r) ==
  /\ conn[r].at = "routing"
  /\ \/ Answer(r)
     \/ pool # None /\ conn' = [conn EXCEPT ![r].at = "insert", ![r].on = pool]
  /\ UNCHANGED <<tunnelVars, pending, callVars, drainVars>>

InsertPending(r) ==
  /\ conn[r].at = "insert"
  /\ pending' = pending \cup {r}
  /\ conn' = [conn EXCEPT ![r].at = "send"]
  /\ UNCHANGED <<tunnelVars, callVars, drainVars>>

SendRequest(r) ==
  /\ conn[r].at = "send"
  /\ \/ conn' = [conn EXCEPT ![r].at = "wait"] /\ UNCHANGED pending
     \/ Refused(conn[r].on) /\ pending' = pending \ {r} /\ Answer(r)
  /\ UNCHANGED <<tunnelVars, callVars, drainVars>>

\* deliver_response, or fail_stream for a Close.  The waiting request is answered;
\* an abandoned one only leaves the map.
Deliver(r) ==
  /\ r \in pending /\ conn[r].on # None /\ tunnel[conn[r].on] = "ready"
  /\ pending' = pending \ {r}
  /\ \/ conn[r].at = "wait" /\ Answer(r)
     \/ conn[r].at = "abandoned" /\ conn' = [conn EXCEPT ![r] = [at |-> "closed", on |-> None]]
  /\ UNCHANGED <<tunnelVars, callVars, drainVars>>

\* The response_tx is gone without an answer.
Dropped(r) ==
  /\ conn[r].at = "wait" /\ r \notin pending
  /\ Answer(r)
  /\ UNCHANGED <<tunnelVars, pending, callVars, drainVars>>

UpstreamTimeoutIfGone(r) ==
  /\ conn[r].at = "wait" /\ r \notin pending
  /\ Answer(r)
  /\ UNCHANGED <<tunnelVars, pending, callVars, drainVars>>

\* PROXY_UPSTREAM_TIMEOUT.
UpstreamTimeout(r) ==
  /\ conn[r].at = "wait"
  /\ pending' = pending \ {r}
  /\ Answer(r)
  /\ UNCHANGED <<tunnelVars, callVars, drainVars>>

\* The handler is dropped where it is; a pending entry stays behind.
Cut(r) == IF r \in pending THEN [conn[r] EXCEPT !.at = "abandoned"]
          ELSE [at |-> "closed", on |-> None]

\* The client closes its connection, and hyper drops the handler.
ClientCloses(r) ==
  /\ conn[r].at \in Working \cup {"answered"}
  /\ conn' = [conn EXCEPT ![r] = Cut(r)]
  /\ UNCHANGED <<tunnelVars, pending, callVars, drainVars>>

-----------------------------------------------------------------------------
(* Gateway I/O: open_io_stream, dispatch_io_stream *)

\* The call ends with an error frame, sent when there is room for it.
Reject(i) ==
  /\ call[i].at = "refused"
  /\ call' = [call EXCEPT ![i].at = "ended"]
  /\ \/ gateway[i] = "left" /\ UNCHANGED buffer
     \/ gateway[i] # "left" /\ ~Full(i) /\ buffer' = [buffer EXCEPT ![i] = Append(@, "error")]
  /\ UNCHANGED <<tunnelVars, connVars, sessions, fallback, dropped, gateway, wireVars, drainVars>>

OpenIoStream(i) ==
  /\ call[i].at = "idle" /\ ~draining
  /\ call' = [call EXCEPT ![i].at = "routing"]
  /\ UNCHANGED <<tunnelVars, connVars, sessions, buffer, fallback, dropped, gateway, wireVars, drainVars>>

\* The first frame, the sandbox id, the route and the tunnel.
Dispatch(i) ==
  /\ call[i].at = "routing"
  /\ \/ call' = [call EXCEPT ![i].at = "refused"]
     \/ pool # None /\ call' = [call EXCEPT ![i] = [at |-> "insert", on |-> pool]]
  /\ UNCHANGED <<tunnelVars, connVars, sessions, buffer, fallback, dropped, gateway, wireVars, drainVars>>

InsertSession(i) ==
  /\ call[i].at = "insert"
  /\ sessions' = sessions \cup {i}
  /\ call' = [call EXCEPT ![i].at = "recheck"]
  /\ UNCHANGED <<tunnelVars, connVars, buffer, fallback, dropped, gateway, wireVars, drainVars>>

RecheckSkipped(i) ==
  /\ call[i].at = "recheck"
  /\ call' = [call EXCEPT ![i].at = "start"]
  /\ UNCHANGED <<tunnelVars, connVars, sessions, buffer, fallback, dropped, gateway, wireVars, drainVars>>

\* The drain flag again, now that the session is in the map.
RecheckDrain(i) ==
  /\ call[i].at = "recheck"
  /\ IF draining
     THEN sessions' = sessions \ {i} /\ call' = [call EXCEPT ![i].at = "refused"]
     ELSE call' = [call EXCEPT ![i].at = "start"] /\ UNCHANGED sessions
  /\ UNCHANGED <<tunnelVars, connVars, buffer, fallback, dropped, gateway, wireVars, drainVars>>

\* The start frame is forwarded, and the pump spawned.
ForwardStart(i) ==
  /\ call[i].at = "start"
  /\ \/ /\ call' = [call EXCEPT ![i].at = "open"]
        /\ pump' = [pump EXCEPT ![i] = "on"]
        /\ agent' = [agent EXCEPT ![i] = IF link[call[i].on] = "up" THEN "running" ELSE @]
        /\ UNCHANGED sessions
     \/ /\ Refused(call[i].on)
        /\ sessions' = sessions \ {i}
        /\ call' = [call EXCEPT ![i].at = "refused"]
        /\ UNCHANGED <<pump, agent>>
  /\ UNCHANGED <<tunnelVars, connVars, buffer, fallback, dropped, gateway, input, output, drainVars>>

\* The gateway dropped its receiver.
CallCloses(i) ==
  /\ call[i].at = "open" /\ gateway[i] = "left"
  /\ sessions' = sessions \ {i}
  /\ call' = [call EXCEPT ![i].at = "ended"]
  /\ UNCHANGED <<tunnelVars, connVars, buffer, fallback, dropped, gateway, wireVars, drainVars>>

\* The pump forwards a frame to whatever tunnel is the agent's now, and ends with
\* the first it cannot send.
Sends(i, frame) ==
  /\ pool # None
  /\ input' = [input EXCEPT ![i] = pool]
  /\ agent' = [agent EXCEPT ![i] = IF frame = "close" /\ pool = call[i].on /\ @ = "running"
                                   THEN "finished" ELSE @]

PumpForwards(i, frame) ==
  /\ pump[i] \in {"on", "closed"} /\ gateway[i] # "left"
  /\ \/ /\ Sends(i, frame)
        /\ pump' = [pump EXCEPT ![i] = IF frame = "close" THEN "closed" ELSE @]
     \/ /\ Refused(pool)
        /\ pump' = [pump EXCEPT ![i] = "dead"]
        /\ UNCHANGED <<input, agent>>
  /\ UNCHANGED <<tunnelVars, connVars, call, sessions, buffer, fallback, dropped, gateway, output, drainVars>>

PumpEndsSilently(i) ==
  /\ pump[i] \in {"on", "closed"}
  /\ pump' = [pump EXCEPT ![i] = "ended"]
  /\ UNCHANGED <<tunnelVars, connVars, call, sessions, buffer, fallback, dropped, gateway, input, agent, output, drainVars>>

\* The gateway ends its request stream, or left: a close is made up for it unless
\* it sent one.
PumpEnds(i) ==
  /\ pump[i] \in {"on", "closed"}
  /\ pump' = [pump EXCEPT ![i] = "ended"]
  /\ \/ pump[i] = "on" /\ Sends(i, "close")
     \/ (pump[i] = "closed" \/ Refused(pool)) /\ UNCHANGED <<input, agent>>
  /\ UNCHANGED <<tunnelVars, connVars, call, sessions, buffer, fallback, dropped, gateway, output, drainVars>>

\* deliver_server_frame: try_send, and a full buffer loses the frame.
AgentSends(i, frame) ==
  /\ agent[i] \in {"running", "finished"} /\ tunnel[call[i].on] = "ready"
  /\ output[i] < MaxOutput
  /\ output' = [output EXCEPT ![i] = IF frame = "exit" THEN 0 ELSE @ + 1]
  /\ agent' = [agent EXCEPT ![i] = IF frame = "exit" THEN "gone" ELSE @]
  /\ IF i \notin sessions \/ gateway[i] = "left" THEN UNCHANGED <<buffer, dropped>>
     ELSE \/ ~Full(i) /\ buffer' = [buffer EXCEPT ![i] = Append(@, frame)] /\ UNCHANGED dropped
          \/ Full(i) /\ dropped' = dropped \cup {i} /\ UNCHANGED buffer
  /\ UNCHANGED <<tunnelVars, connVars, call, sessions, fallback, gateway, pump, input, drainVars>>

\* The task of send_or_spawn finds room.
Fallback(i) ==
  /\ i \in fallback
  /\ fallback' = fallback \ {i}
  /\ \/ gateway[i] = "left" /\ UNCHANGED buffer
     \/ gateway[i] # "left" /\ ~Full(i) /\ buffer' = [buffer EXCEPT ![i] = Append(@, "error")]
  /\ UNCHANGED <<tunnelVars, connVars, call, sessions, dropped, gateway, wireVars, drainVars>>

\* The gateway takes a frame,
GatewayTakes(i) ==
  /\ gateway[i] = "open" /\ buffer[i] # << >>
  /\ buffer' = [buffer EXCEPT ![i] = Tail(@)]
  /\ gateway' = [gateway EXCEPT ![i] = IF Head(buffer[i]) = "data" THEN @ ELSE "told"]
  /\ UNCHANGED <<tunnelVars, connVars, call, sessions, fallback, dropped, wireVars, drainVars>>

\* and leaves after a terminal one, or when its own caller hangs up.
GatewayLeaves(i) ==
  /\ gateway[i] # "left" /\ call[i].at # "idle"
  /\ gateway' = [gateway EXCEPT ![i] = "left"]
  /\ buffer' = [buffer EXCEPT ![i] = << >>]
  /\ UNCHANGED <<tunnelVars, connVars, call, sessions, fallback, dropped, wireVars, drainVars>>

-----------------------------------------------------------------------------
(* Shutdown: the drain supervisor, the HTTP server and run_proxy's select *)

Sigterm ==
  /\ supervisor = "asleep"
  /\ draining' = TRUE
  /\ supervisor' = "polling"
  /\ UNCHANGED <<tunnelVars, connVars, callVars, http, process>>

\* The poll finds no session; or the timeout or a second signal fails those left.
DrainEmpty ==
  /\ supervisor = "polling" /\ sessions = {}
  /\ supervisor' = "done"
  /\ UNCHANGED <<tunnelVars, connVars, callVars, draining, http, process>>

DrainFails ==
  /\ supervisor = "polling"
  /\ SendOrSpawn(sessions)
  /\ sessions' = {}
  /\ supervisor' = "done"
  /\ UNCHANGED <<tunnelVars, connVars, call, dropped, gateway, wireVars, draining, http, process>>

HttpStops ==
  /\ http = "accepting" /\ supervisor = "done"
  /\ http' = "draining"
  /\ UNCHANGED <<tunnelVars, connVars, callVars, draining, supervisor, process>>

\* Every connection has closed; or the timeout aborts those left.
HttpDrained ==
  /\ http = "draining" /\ \A r \in Conn : conn[r].at \in {"idle", "closed", "abandoned"}
  /\ http' = "finished"
  /\ UNCHANGED <<tunnelVars, connVars, callVars, draining, supervisor, process>>

HttpAbortsIdle ==
  /\ http = "draining" /\ \A r \in Conn : conn[r].at \notin Working \cup {"answered"}
  /\ http' = "finished"
  /\ UNCHANGED <<tunnelVars, connVars, callVars, draining, supervisor, process>>

HttpAborts ==
  /\ http = "draining"
  /\ conn' = [r \in Conn |-> IF conn[r].at \in Working \cup {"answered"} THEN Cut(r) ELSE conn[r]]
  /\ http' = "finished"
  /\ UNCHANGED <<tunnelVars, pending, callVars, draining, supervisor, process>>

\* The first listener to finish ends the process, and every task with it: HTTP,
\* or a gRPC server with no stream left.
Exit ==
  /\ supervisor = "done"
  /\ \/ http = "finished"
     \/ \A t \in Tunnel : link[t] # "up"
     \/ \A i \in Call : call[i].at = "idle" \/ gateway[i] = "left"
  /\ process' = "exited"
  /\ link' = [t \in Tunnel |-> "down"] /\ tunnel' = [t \in Tunnel |-> "gone"] /\ pool' = None
  /\ conn' = [r \in Conn |-> [at |-> "closed", on |-> None]] /\ pending' = {}
  /\ call' = [i \in Call |-> [call[i] EXCEPT !.at = "ended"]] /\ sessions' = {}
  /\ buffer' = [i \in Call |-> << >>] /\ fallback' = {}
  /\ gateway' = [i \in Call |-> "left"] /\ pump' = [i \in Call |-> "dead"]
  /\ agent' = [i \in Call |-> "gone"] /\ output' = [i \in Call |-> 0]
  /\ UNCHANGED <<overtaken, dropped, input, draining, supervisor, http>>

-----------------------------------------------------------------------------
TunnelTask(t) ==
  \/ Register(t) \/ TunnelEnds(t)
  \/ CancelRequests(t) \/ CancelSessions(t) \/ Deregister(t)
ConnTask(r) ==
  \/ Route(r) \/ InsertPending(r) \/ SendRequest(r) \/ Dropped(r) \/ UpstreamTimeout(r)
CallTask(i) ==
  \/ Dispatch(i) \/ InsertSession(i) \/ RecheckDrain(i) \/ ForwardStart(i) \/ Reject(i)
  \/ CallCloses(i)
PumpTask(i) == gateway[i] = "left" /\ PumpEnds(i)
Shutdown == DrainEmpty \/ DrainFails \/ HttpStops \/ HttpDrained \/ HttpAborts \/ Exit

Peers ==
  \/ \E t \in Tunnel : Dial(t) \/ LinkBreaks(t)
  \/ \E r \in Conn : Accept(r) \/ Deliver(r) \/ ClientCloses(r)
  \/ \E i \in Call : OpenIoStream(i) \/ PumpEnds(i) \/ GatewayTakes(i) \/ GatewayLeaves(i)
                     \/ (\E frame \in {"data", "exit"} : AgentSends(i, frame))
                     \/ \E frame \in {"stdin", "close"} : PumpForwards(i, frame)
  \/ Sigterm

Next ==
  /\ process = "up"
  /\ \/ Peers
     \/ \E t \in Tunnel : TunnelTask(t)
     \/ \E r \in Conn : ConnTask(r)
     \/ \E i \in Call : CallTask(i) \/ Fallback(i)
     \/ Shutdown

Spec == Init /\ [][Next]_vars

\* Tasks run, timeouts expire, and a gateway that stays reads what it is sent.
\* Nothing else is assumed of the agent, the clients and the gateway.
Fairness ==
  /\ \A t \in Tunnel : WF_vars(process = "up" /\ TunnelTask(t))
  /\ \A r \in Conn : WF_vars(process = "up" /\ ConnTask(r))
  /\ \A i \in Call : /\ WF_vars(process = "up" /\ CallTask(i))
                     /\ WF_vars(process = "up" /\ PumpTask(i))
                     /\ WF_vars(process = "up" /\ Fallback(i))
                     /\ WF_vars(process = "up" /\ GatewayTakes(i))
  /\ WF_vars(process = "up" /\ Shutdown)
FairSpec == Spec /\ Fairness

-----------------------------------------------------------------------------
TypeOK ==
  /\ pool \in Tunnel \cup {None}
  /\ pending \subseteq Conn /\ sessions \subseteq Call /\ fallback \subseteq Call
  /\ \A i \in Call : Len(buffer[i]) <= Buffer

\* The drain leaves no session behind (grpc.rs, "Re-check after insert"): once the
\* supervisor is done, the only sessions in the map are of calls about to bail out.
DrainLeavesNone ==
  supervisor = "done" => \A i \in sessions : call[i].at = "recheck"

\* While a tunnel is registered and its link is up the agent can be reached, and
\* through a tunnel at least as new (tunnel_pool.rs, "the live (higher-generation)
\* tunnel must be preserved"), unless registrations overtook each other.
LatestServes ==
  \A t \in Tunnel : tunnel[t] = "ready" /\ link[t] = "up" =>
    overtaken \/ pool = t

\* Cleaning up after a tunnel ends nothing that was opened on another: a session
\* that was failed before the drain had its own tunnel end.
FailedForCause ==
  \A i \in Call : call[i].at \in {"start", "open"} /\ i \notin sessions /\ gateway[i] # "left" =>
    supervisor = "done" \/ tunnel[call[i].on] \in {"deregister", "gone"}

\* An agent's session gets the frames of its gateway without a gap: what went to
\* another tunnel is followed by nothing.
NoGap ==
  [][\A i \in Call : input[i] \notin {None, call[i].on} =>
       input'[i] # call[i].on]_vars

\* Every request is answered or abandoned, or the process ends.
RequestAnswered ==
  \A r \in Conn : (conn[r].at \in Working) ~> (conn[r].at \notin Working \/ process = "exited")

\* When the gateway leaves, an agent still running the session is told, or loses it
\* with its tunnel.
HangupReachesAgent ==
  \A i \in Call : (gateway[i] = "left" /\ agent[i] = "running") ~>
    (agent[i] # "running" \/ overtaken \/ pump[i] = "dead" \/ process = "exited")

\* A session registered after its tunnel was cleaned up: nobody will fail it.
Stranded(i) == i \in sessions /\ tunnel[call[i].on] \in {"deregister", "gone"}

\* A gateway whose session is over at the agent, or never got there, reads a
\* terminal frame, unless a full buffer lost it or the session is stranded.
EndIsTold ==
  \A i \in Call : (call[i].at = "open" /\ agent[i] \in {"none", "gone"}) ~>
    (gateway[i] # "open" \/ i \in dropped \/ Stranded(i))

\* A shutdown completes whatever the peers do.
ShutdownCompletes == draining ~> (process = "exited")
=============================================================================
