---------------------------- MODULE ExecSessions ----------------------------
(***************************************************************************)
(* Interactive command execution, from the WebSocket client to the process *)
(* in the container.  The frames of every client of an agent arrive on one *)
(* tunnel; the agent's inbound loop hands them to per-stream sessions; a   *)
(* session drives one process and owns the duty to kill it when its client *)
(* goes away.                                                              *)
(*                                                                         *)
(* Five tasks serve a stream on the agent: the driver (drive), the demux   *)
(* of client frames (demux), the output pump (pump), the outbound wrapper  *)
(* (wrapper) and, shared by all streams, the inbound loop.  The proxy      *)
(* between gateway and agent is modelled in ProxyTunnels; here it is a     *)
(* tunnel that keeps frames in order and may break.                        *)
(***************************************************************************)
EXTENDS Naturals, Sequences

CONSTANTS
  Stream,        \* the streams opened through one tunnel
  MaxFrames,     \* bound: frames a client sends after its Start
  MaxOutput,     \* bound: chunks a process writes
  ClientBuffer,  \* IO_SESSION_CLIENT_BUFFER (256): frames a session queues
  ServerBuffer,  \* capacity of the session's server channel (32)
  PipeBuffer,    \* EXEC_CHANNEL_CAPACITY: chunks queued to and from a process
  Runtimes       \* the runtimes to check, of {"docker", "youki"}

ASSUME BoundsAreNatural ==
  /\ MaxFrames \in Nat /\ MaxOutput \in Nat
  /\ ClientBuffer \in Nat \ {0} /\ ServerBuffer \in Nat \ {0}
  /\ PipeBuffer \in Nat \ {0}
ASSUME KnownRuntimes == Runtimes \subseteq {"docker", "youki"}

VARIABLES
  runtime,   \* the container runtime of the agent
  client,    \* the WebSocket session of a stream, on the gateway
  tunnel,    \* "up", "half" (its sending side is gone) or "lost"
  wire,      \* frames on the tunnel to the agent, in order
  sessions,  \* the agent's map of open sessions: streams with a live in_tx
  inbox,     \* the frames queued for a session
  drive,     \* the driver of a session
  demux,     \* the demux of a session
  close,     \* the close channel holds a message
  signals,   \* messages in the signal channel
  process,   \* the process of a session
  stdin,     \* chunks queued for the process, and whether the sender is open
  stdout,    \* chunks queued from the process
  pump,      \* the output pump of a session
  outbox,    \* server frames queued for the tunnel
  wrapper,   \* the outbound wrapper of a session
  got,       \* what the gateway has received
  registry   \* the exec registry: streams whose process is recorded

agentVars == <<sessions, inbox, drive, demux, close, signals, pump, outbox,
               wrapper, registry>>
vars == <<runtime, client, tunnel, wire, process, stdin, stdout, got, agentVars>>

Frames == {"start", "stdin", "eof", "signal", "close"}
ServerFrame ==
  [kind: {"started", "stdout", "exited", "cancelled", "failed"}, n: 0 .. MaxOutput]

\* A process; known says whether its in-container pid was captured, reached
\* whether the last signal sent on behalf of its closed stream was delivered.
\* A dying process has a fatal signal on its way; of one that is unseen the
\* runtime no longer knows whether it runs.
Process == [at: {"none", "running", "dying", "unseen", "exited"}, known: BOOLEAN,
            reached: BOOLEAN, wrote: 0 .. MaxOutput]
NoProcess == [at |-> "none", known |-> FALSE, reached |-> TRUE, wrote |-> 0]

Terminal == {"exited", "cancelled", "failed"}

\* The runtime has sent the exit notice of a process, and its output has ended.
Noticed == {"unseen", "exited"}

TypeOK ==
  /\ runtime \in Runtimes
  /\ client \in [Stream -> [at: {"none", "open", "gone"}, sent: 0 .. MaxFrames]]
  /\ tunnel \in {"up", "half", "lost"}
  /\ wire \in Seq([id: Stream, kind: Frames])
  /\ sessions \subseteq Stream /\ registry \subseteq Stream
  /\ inbox \in [Stream -> Seq(Frames)]
  /\ drive \in [Stream -> {"none", "starting", "started", "refused", "running",
                           "draining", "exiting", "cancelling", "failing",
                           "term", "kill", "done", "aborted"}]
  /\ demux \in [Stream -> {"off", "on", "gone"}]
  /\ close \in [Stream -> BOOLEAN] /\ signals \in [Stream -> 0 .. 1]
  /\ process \in [Stream -> Process]
  /\ stdin \in [Stream -> [open: BOOLEAN, queued: 0 .. PipeBuffer]]
  /\ stdout \in [Stream -> 0 .. PipeBuffer]
  /\ pump \in [Stream -> {"off", "on", "aborting", "gone"}]
  /\ outbox \in [Stream -> Seq(ServerFrame)]
  /\ \A i \in Stream : Len(outbox[i]) <= ServerBuffer /\ Len(inbox[i]) <= ClientBuffer
  /\ wrapper \in [Stream -> {"off", "on", "gone"}]
  /\ got \in [Stream -> [n: 0 .. MaxOutput, end: Terminal \union {"none"},
                         total: 0 .. MaxOutput]]

Init ==
  /\ runtime \in Runtimes
  /\ client = [i \in Stream |-> [at |-> "none", sent |-> 0]]
  /\ tunnel = "up" /\ wire = <<>>
  /\ sessions = {} /\ registry = {}
  /\ inbox = [i \in Stream |-> <<>>]
  /\ drive = [i \in Stream |-> "none"]
  /\ demux = [i \in Stream |-> "off"]
  /\ close = [i \in Stream |-> FALSE] /\ signals = [i \in Stream |-> 0]
  /\ process = [i \in Stream |-> NoProcess]
  /\ stdin = [i \in Stream |-> [open |-> FALSE, queued |-> 0]]
  /\ stdout = [i \in Stream |-> 0]
  /\ pump = [i \in Stream |-> "off"]
  /\ outbox = [i \in Stream |-> <<>>]
  /\ wrapper = [i \in Stream |-> "off"]
  /\ got = [i \in Stream |-> [n |-> 0, end |-> "none", total |-> 0]]

-----------------------------------------------------------------------------
(* The gateway's WebSocket session (ws_exec.rs).                           *)

\* What a client's frame does to the tunnel: nothing once the tunnel is gone.
Put(i, kind) ==
  wire' = IF tunnel = "up" THEN Append(wire, [id |-> i, kind |-> kind]) ELSE wire

\* run_session: the stream is opened and the client's Start goes through.
OpenSession(i) ==
  /\ client[i].at = "none"
  /\ client' = [client EXCEPT ![i].at = "open"]
  /\ Put(i, "start")
  /\ UNCHANGED <<runtime, tunnel, process, stdin, stdout, got, agentVars>>

\* The receive task decodes one client frame and passes it on.  A client may
\* repeat Start; it has no frame for a full close.
ClientFrame(i, kind) ==
  /\ client[i].at = "open" /\ client[i].sent < MaxFrames
  /\ client' = [client EXCEPT ![i].sent = @ + 1]
  /\ Put(i, kind)
  /\ UNCHANGED <<runtime, tunnel, process, stdin, stdout, got, agentVars>>

\* The session is over for the gateway: client_tx is dropped and the proxy
\* forwards a synthetic Close.
Hangup(i) ==
  /\ client[i].at = "open"
  /\ client' = [client EXCEPT ![i] = [at |-> "gone", sent |-> 0]]
  /\ Put(i, "close")
  /\ UNCHANGED <<runtime, tunnel, process, stdin, stdout, got, agentVars>>

\* The client closed its socket, sent something malformed, or missed its pongs.
ClientGone(i) == got[i].end = "none" /\ Hangup(i)

\* A terminal frame was passed to the client.
TerminalSent(i) == got[i].end # "none" /\ Hangup(i)

-----------------------------------------------------------------------------
(* The agent's inbound loop (agent proxy_client.rs).                       *)

\* The receiving half of the session's frame channel exists.
Listening(i) == drive[i] \in {"starting", "started"} \/ demux[i] = "on"

\* A terminal frame reaches the gateway; later frames of the stream are
\* dropped by the proxy, whose session ended with the first.
Ended(i, end, total) ==
  IF got[i].end = "none" THEN [got EXCEPT ![i].end = end, ![i].total = total] ELSE got

\* An IoStart for a new stream: container_for_io answers, and unless the
\* sandbox is unknown or paused a session is registered and its tasks spawned.
\* A repeated Start may open the stream again once its session is over.  (Not
\* modelled: a second driver of one stream id beside the first, which takes a
\* repeated Start on a tunnel whose sending side has failed.)
AcceptStart(i) ==
  /\ wire # <<>> /\ Head(wire) = [id |-> i, kind |-> "start"]
  /\ i \notin sessions /\ drive[i] \in {"none", "done"}
  /\ wire' = Tail(wire)
  /\ sessions' = sessions \union {i}
  /\ inbox' = [inbox EXCEPT ![i] = <<>>]
  /\ drive' = [drive EXCEPT ![i] = "starting"]
  /\ demux' = [demux EXCEPT ![i] = "off"]
  /\ close' = [close EXCEPT ![i] = FALSE]
  /\ signals' = [signals EXCEPT ![i] = 0]
  /\ process' = [process EXCEPT ![i] = NoProcess]
  /\ stdin' = [stdin EXCEPT ![i] = [open |-> FALSE, queued |-> 0]]
  /\ stdout' = [stdout EXCEPT ![i] = 0]
  /\ pump' = [pump EXCEPT ![i] = "off"]
  /\ outbox' = [outbox EXCEPT ![i] = <<>>]
  /\ wrapper' = [wrapper EXCEPT ![i] = "on"]
  /\ UNCHANGED <<runtime, client, tunnel, got, registry>>

\* SANDBOX_NOT_FOUND, SANDBOX_PAUSED, or STREAM_ID_REUSED for a second Start.
RefuseStart(i) ==
  /\ wire # <<>> /\ Head(wire) = [id |-> i, kind |-> "start"]
  /\ wire' = Tail(wire)
  /\ got' = Ended(i, "failed", 0)
  /\ UNCHANGED <<runtime, client, tunnel, process, stdin, stdout, agentVars>>

\* Any other frame is sent into the session's channel, waiting for room; the
\* loop takes no further frame meanwhile.  Without a session, or with its
\* receiver gone, the frame is dropped.
RouteFrame(i) ==
  /\ wire # <<>> /\ Head(wire).id = i /\ Head(wire).kind # "start"
  /\ i \in sessions /\ Listening(i) => Len(inbox[i]) < ClientBuffer
  /\ wire' = Tail(wire)
  /\ inbox' = IF i \in sessions /\ Listening(i)
              THEN [inbox EXCEPT ![i] = Append(@, Head(wire).kind)]
              ELSE inbox
  /\ UNCHANGED <<runtime, client, tunnel, process, stdin, stdout, got, sessions, drive,
                 demux, close, signals, pump, outbox, wrapper, registry>>

-----------------------------------------------------------------------------
(* The driver (io_stream.rs drive_exec, pump_exec_session).                *)

\* wrap_command_with_inpid_marker and consume_inpid_marker: the shell prints
\* its pid, which becomes the command's, ahead of everything on stderr.  The
\* line may be read, may not come in time, or may not be what stderr begins with.
Marker == {"read", "late", "foreign"}

\* ExecRegistry::insert and remove.
Record(i) == registry' = registry \union {i}
Forget(i) == registry' = registry \ {i}

\* drive_exec when runtime.start_exec returns a handle: the process is recorded.
StartExec(i, known) ==
  /\ drive' = [drive EXCEPT ![i] = "started"]
  /\ process' = [process EXCEPT ![i] =
       [at |-> "running", known |-> known, reached |-> TRUE, wrote |-> 0]]
  /\ stdin' = [stdin EXCEPT ![i] = [open |-> TRUE, queued |-> 0]]
  /\ Record(i)

\* drive_exec when start_exec fails, with or without a process left running.
StartFails(i, left) ==
  /\ drive' = [drive EXCEPT ![i] = "refused"]
  /\ process' = IF left THEN [process EXCEPT ![i].at = "running"] ELSE process
  /\ UNCHANGED <<stdin, registry>>

\* start_exec of the docker runtime: it fails when the exec cannot be created
\* or started, and also without the marker, and then leaves what it started.
DockerStartExec(i) ==
  /\ drive[i] = "starting" /\ runtime = "docker"
  /\ \/ StartFails(i, FALSE)
     \/ \E marker \in Marker :
          IF marker = "read" THEN StartExec(i, TRUE) ELSE StartFails(i, TRUE)
  /\ UNCHANGED <<runtime, client, tunnel, wire, stdout, got, sessions, inbox, demux, close,
                 signals, pump, outbox, wrapper>>

\* start_exec_streaming of the youki runtime: it fails when the container is
\* gone or nsenter cannot be spawned; without the marker the pid is unknown.
YoukiStartExec(i) ==
  /\ drive[i] = "starting" /\ runtime = "youki"
  /\ \/ StartFails(i, FALSE)
     \/ \E marker \in Marker : StartExec(i, marker = "read")
  /\ UNCHANGED <<runtime, client, tunnel, wire, stdout, got, sessions, inbox, demux, close,
                 signals, pump, outbox, wrapper>>

\* signal_exec, as the processes it may leave: a process without a pid is not
\* signalled, and the kill may fail.  The docker runtime does not wait for the
\* kill it starts, the youki runtime does.
DockerSignal(p) == IF p.known /\ p.at = "running" THEN {p, [p EXCEPT !.at = "dying"]} ELSE {p}
YoukiSignal(p) == IF p.known /\ p.at = "running" THEN {p, [p EXCEPT !.at = "exited"]} ELSE {p}
SignalExec(p) == IF runtime = "docker" THEN DockerSignal(p) ELSE YoukiSignal(p)

\* server_tx.send: waits for room, fails when the receiver is gone.
Sends(i, frame) ==
  /\ wrapper[i] = "on"
  /\ Len(outbox[i]) < ServerBuffer
  /\ outbox' = [outbox EXCEPT ![i] = Append(@, frame)]
Unsent(i) == wrapper[i] = "gone" /\ UNCHANGED outbox
Frame(kind, n) == [kind |-> kind, n |-> n]

\* IoStarted is sent and the session's tasks are spawned; when it cannot be
\* sent the driver goes straight to the cleanup hook and drops the handle.
EmitStarted(i) ==
  /\ drive[i] = "started"
  /\ \/ /\ Sends(i, Frame("started", 0))
        /\ drive' = [drive EXCEPT ![i] = "running"]
        /\ demux' = [demux EXCEPT ![i] = "on"]
        /\ pump' = [pump EXCEPT ![i] = "on"]
        /\ UNCHANGED stdin
     \/ /\ Unsent(i)
        /\ drive' = [drive EXCEPT ![i] = "term"]
        /\ stdin' = [stdin EXCEPT ![i].open = FALSE]
        /\ UNCHANGED <<demux, pump>>
  /\ UNCHANGED <<runtime, client, tunnel, wire, process, stdout, got, sessions, inbox, close,
                 signals, wrapper, registry>>

\* Dropping the demux drops the sender of stdin and the frame channel.
StopDemux(i) ==
  /\ demux' = [demux EXCEPT ![i] = "gone"]
  /\ stdin' = [stdin EXCEPT ![i].open = FALSE]
  /\ inbox' = [inbox EXCEPT ![i] = <<>>]

ExitNoticedEarly(i) ==
  /\ drive[i] = "running" /\ process[i].at \in Noticed
  /\ drive' = [drive EXCEPT ![i] = "exiting"]
  /\ StopDemux(i)
  /\ UNCHANGED <<runtime, client, tunnel, wire, process, stdout, got, sessions, close, signals,
                 pump, outbox, wrapper, registry>>

\* The exit notice arrived: all output is in the pipe, the pumps are awaited.
ExitNoticed(i) ==
  /\ drive[i] = "running" /\ process[i].at \in Noticed
  /\ drive' = [drive EXCEPT ![i] = "draining"]
  /\ StopDemux(i)
  /\ UNCHANGED <<runtime, client, tunnel, wire, process, stdout, got, sessions, close, signals,
                 pump, outbox, wrapper, registry>>

OutputDrained(i) ==
  /\ drive[i] = "draining" /\ pump[i] = "gone"
  /\ drive' = [drive EXCEPT ![i] = "exiting"]
  /\ UNCHANGED <<runtime, client, tunnel, wire, process, stdin, stdout, got, sessions, inbox,
                 demux, close, signals, pump, outbox, wrapper, registry>>

GiveUpOnFailure(i) ==
  /\ drive[i] = "running" /\ runtime = "docker"
  /\ pump[i] = "gone" /\ process[i].at \notin Noticed
  /\ drive' = [drive EXCEPT ![i] = "failing"]
  /\ StopDemux(i)
  /\ UNCHANGED <<runtime, client, tunnel, wire, process, stdout, got, sessions, close, signals,
                 pump, outbox, wrapper, registry>>

\* A close was received, or the docker runtime dropped the exit notice because
\* nobody reads the output any more: the pumps are aborted.
GiveUp(i) ==
  /\ drive[i] = "running"
  /\ \/ /\ close[i]
        /\ drive' = [drive EXCEPT ![i] = "cancelling"]
     \/ /\ runtime = "docker" /\ pump[i] = "gone" /\ process[i].at \notin Noticed
        /\ drive' = [drive EXCEPT ![i] = "failing"]
  /\ pump' = [pump EXCEPT ![i] = IF @ = "on" THEN "aborting" ELSE @]
  /\ StopDemux(i)
  /\ UNCHANGED <<runtime, client, tunnel, wire, process, stdout, got, sessions, close, signals,
                 outbox, wrapper, registry>>

\* A signal of the client is delivered (signals out of range are dropped).
\* The process may die of it.
DeliverSignal(i) ==
  /\ drive[i] = "running" /\ signals[i] > 0
  /\ signals' = [signals EXCEPT ![i] = @ - 1]
  /\ \E p \in SignalExec(process[i]) : process' = [process EXCEPT ![i] = p]
  /\ UNCHANGED <<runtime, client, tunnel, wire, stdin, stdout, got, sessions, inbox, drive,
                 demux, close, pump, outbox, wrapper, registry>>

\* The terminal frame.  After an exit the record is dropped without signals,
\* otherwise the cleanup hook follows.
EmitTerminal(i) ==
  /\ \/ /\ drive[i] = "exiting"
        /\ Sends(i, Frame("exited", process[i].wrote)) \/ Unsent(i)
        /\ drive' = [drive EXCEPT ![i] = "done"]
        /\ Forget(i)
     \/ /\ drive[i] = "cancelling"
        /\ Sends(i, Frame("cancelled", 0)) \/ Unsent(i)
        /\ drive' = [drive EXCEPT ![i] = "term"]
        /\ UNCHANGED registry
     \/ /\ drive[i] = "failing"
        /\ Sends(i, Frame("failed", 0)) \/ Unsent(i)
        /\ drive' = [drive EXCEPT ![i] = "term"]
        /\ UNCHANGED registry
     \/ /\ drive[i] = "refused"
        /\ Sends(i, Frame("failed", 0)) \/ Unsent(i)
        /\ drive' = [drive EXCEPT ![i] = "done"]
        /\ UNCHANGED registry
  /\ UNCHANGED <<runtime, client, tunnel, wire, process, stdin, stdout, got, sessions, inbox,
                 demux, close, signals, pump, wrapper>>

TerminateOnly(i) ==
  /\ drive[i] = "term"
  /\ Forget(i)
  /\ drive' = [drive EXCEPT ![i] = "done"]
  /\ \E p \in SignalExec(process[i]) : process' = [process EXCEPT ![i] = p]
  /\ UNCHANGED <<runtime, client, tunnel, wire, stdin, stdout, got, sessions, inbox, demux,
                 close, signals, pump, outbox, wrapper>>

\* on_stream_closed: the record is removed and SIGTERM sent, errors ignored.
Terminate(i) ==
  /\ drive[i] = "term"
  /\ Forget(i)
  /\ drive' = [drive EXCEPT ![i] = "kill"]
  /\ \E p \in SignalExec(process[i]) : process' = [process EXCEPT ![i] = p]
  /\ UNCHANGED <<runtime, client, tunnel, wire, stdin, stdout, got, sessions, inbox, demux,
                 close, signals, pump, outbox, wrapper>>

\* After the grace period SIGKILL, errors ignored.
Kill(i) ==
  /\ drive[i] = "kill"
  /\ drive' = [drive EXCEPT ![i] = "done"]
  /\ \E p \in SignalExec(process[i]) :
       process' = [process EXCEPT ![i] = [p EXCEPT !.reached = p.at # "running" \/ ~p.known]]
  /\ UNCHANGED <<runtime, client, tunnel, wire, stdin, stdout, got, sessions, inbox, demux,
                 close, signals, pump, outbox, wrapper, registry>>

-----------------------------------------------------------------------------
(* The demux of client frames and the pumps.                               *)

\* One frame of the inbox.  Stdin waits for room in the pipe; a failed write
\* and a close end the session, a half-close only drops the stdin sender.
DemuxFrame(i) ==
  /\ demux[i] = "on" /\ inbox[i] # <<>>
  /\ LET kind == Head(inbox[i]) IN
     \/ /\ kind = "stdin" /\ stdin[i].open
        /\ stdin[i].queued < PipeBuffer
        /\ stdin' = [stdin EXCEPT ![i].queued = @ + 1]
        /\ UNCHANGED <<demux, close, signals>>
     \/ /\ kind = "stdin" /\ ~stdin[i].open
        /\ UNCHANGED <<stdin, demux, close, signals>>
     \/ /\ \/ kind = "close"
           \/ kind = "stdin" /\ stdin[i].open /\ process[i].at \in Noticed
        /\ close' = [close EXCEPT ![i] = TRUE]
        /\ demux' = [demux EXCEPT ![i] = "gone"]
        /\ stdin' = [stdin EXCEPT ![i].open = FALSE]
        /\ UNCHANGED signals
     \/ /\ kind = "eof"
        /\ stdin' = [stdin EXCEPT ![i].open = FALSE]
        /\ UNCHANGED <<demux, close, signals>>
     \/ /\ kind = "signal"
        /\ IF drive[i] = "running"
           THEN signals[i] = 0 /\ signals' = [signals EXCEPT ![i] = 1]
           ELSE UNCHANGED signals
        /\ UNCHANGED <<stdin, demux, close>>
  /\ inbox' = [inbox EXCEPT ![i] = IF demux'[i] = "gone" THEN <<>> ELSE Tail(@)]
  /\ UNCHANGED <<runtime, client, tunnel, wire, process, stdout, got, sessions, drive, pump,
                 outbox, wrapper, registry>>

DemuxEndsSilently(i) ==
  /\ demux[i] = "on" /\ inbox[i] = <<>> /\ i \notin sessions
  /\ StopDemux(i)
  /\ UNCHANGED <<runtime, client, tunnel, wire, process, stdout, got, sessions, drive, close,
                 signals, pump, outbox, wrapper, registry>>

\* The session left the map, so its frame channel ends: a Close is synthesised.
DemuxEnds(i) ==
  /\ demux[i] = "on" /\ inbox[i] = <<>> /\ i \notin sessions
  /\ close' = [close EXCEPT ![i] = TRUE]
  /\ StopDemux(i)
  /\ UNCHANGED <<runtime, client, tunnel, wire, process, stdout, got, sessions, drive, signals,
                 pump, outbox, wrapper, registry>>

\* One chunk of output.  An aborted pump may finish the send it is in.
PumpChunk(i) ==
  /\ pump[i] \in {"on", "aborting"} /\ stdout[i] > 0
  /\ stdout' = [stdout EXCEPT ![i] = @ - 1]
  /\ Sends(i, Frame("stdout", process[i].wrote - stdout[i] + 1))
  /\ pump' = [pump EXCEPT ![i] = IF @ = "aborting" THEN "gone" ELSE @]
  /\ UNCHANGED <<runtime, client, tunnel, wire, process, stdin, got, sessions, inbox, drive,
                 demux, close, signals, wrapper, registry>>

\* The pump ends: its input ended, its receiver is gone, or it was aborted.
PumpEnds(i) ==
  /\ \/ pump[i] = "aborting"
     \/ pump[i] = "on" /\ stdout[i] = 0 /\ process[i].at \in Noticed
     \/ pump[i] = "on" /\ stdout[i] > 0 /\ wrapper[i] = "gone"
  /\ pump' = [pump EXCEPT ![i] = "gone"]
  /\ UNCHANGED <<runtime, client, tunnel, wire, process, stdin, stdout, got, sessions, inbox,
                 drive, demux, close, signals, outbox, wrapper, registry>>

\* The wrapper passes one server frame to the tunnel.
WrapFrame(i) ==
  /\ wrapper[i] = "on" /\ outbox[i] # <<>> /\ tunnel = "up"
  /\ outbox' = [outbox EXCEPT ![i] = Tail(@)]
  /\ LET frame == Head(outbox[i]) IN
     got' = IF frame.kind \in Terminal THEN Ended(i, frame.kind, frame.n)
            ELSE IF frame.kind = "stdout" /\ got[i].end = "none"
                 THEN [got EXCEPT ![i].n = @ + 1] ELSE got
  /\ UNCHANGED <<runtime, client, tunnel, wire, process, stdin, stdout, sessions, inbox, drive,
                 demux, close, signals, pump, wrapper, registry>>

\* The wrapper ends, because every sender of the session is gone or because
\* the tunnel refuses a frame, and takes the session out of the map.
WrapperEnds(i) ==
  /\ wrapper[i] = "on"
  /\ \/ outbox[i] = <<>> /\ drive[i] = "done" /\ pump[i] \in {"off", "gone"}
     \/ outbox[i] # <<>> /\ tunnel # "up"
  /\ wrapper' = [wrapper EXCEPT ![i] = "gone"]
  /\ outbox' = [outbox EXCEPT ![i] = <<>>]
  /\ sessions' = sessions \ {i}
  /\ UNCHANGED <<runtime, client, tunnel, wire, process, stdin, stdout, got, inbox, drive, demux,
                 close, signals, pump, registry>>

-----------------------------------------------------------------------------
(* The process, and the tunnel.                                            *)

\* The runtime's stdin task hands a chunk to the process,
ProcessReads(i) ==
  /\ process[i].at \in {"running", "dying"} /\ stdin[i].queued > 0
  /\ stdin' = [stdin EXCEPT ![i].queued = @ - 1]
  /\ UNCHANGED <<runtime, client, tunnel, wire, process, stdout, got, agentVars>>

\* its output task takes one from it,
ProcessWrites(i) ==
  /\ process[i].at \in {"running", "dying"} /\ process[i].wrote < MaxOutput
  /\ pump[i] # "gone" /\ stdout[i] < PipeBuffer
  /\ process' = [process EXCEPT ![i].wrote = @ + 1]
  /\ stdout' = [stdout EXCEPT ![i] = @ + 1]
  /\ UNCHANGED <<runtime, client, tunnel, wire, stdin, got, agentVars>>

\* and its exit watcher sees it end.
ProcessExits(i) ==
  /\ process[i].at \in {"running", "dying"}
  /\ process' = [process EXCEPT ![i].at = "exited"]
  /\ UNCHANGED <<runtime, client, tunnel, wire, stdin, stdout, got, agentVars>>

\* The docker runtime's output stream ends on an error or early: the exec is
\* inspected, and reported to have exited with -1 although it may still run.
OutputBreaks(i) ==
  /\ process[i].at \in {"running", "dying"} /\ runtime = "docker"
  /\ process' = [process EXCEPT ![i].at = "unseen"]
  /\ UNCHANGED <<runtime, client, tunnel, wire, stdin, stdout, got, agentVars>>

TunnelBreaks ==
  /\ tunnel = "up"
  /\ tunnel' = "half"
  /\ UNCHANGED <<runtime, client, wire, process, stdin, stdout, got, agentVars>>

\* The inbound loop ends and aborts every driver and wrapper of the tunnel;
\* demux and output pumps are detached tasks and run on.
InboundEnds ==
  /\ tunnel = "half"
  /\ tunnel' = "lost" /\ wire' = <<>> /\ sessions' = {}
  /\ drive' = [i \in Stream |-> IF drive[i] \in {"none", "done"} THEN drive[i] ELSE "aborted"]
  /\ wrapper' = [i \in Stream |-> IF wrapper[i] = "off" THEN "off" ELSE "gone"]
  /\ outbox' = [i \in Stream |-> <<>>]
  /\ UNCHANGED <<runtime, client, process, stdin, stdout, got, inbox, demux, close, signals,
                 pump, registry>>

-----------------------------------------------------------------------------
Gateway(i) ==
  \/ OpenSession(i) \/ ClientGone(i) \/ TerminalSent(i)
  \/ \E kind \in Frames \ {"close"} : ClientFrame(i, kind)

Inbound(i) == AcceptStart(i) \/ RefuseStart(i) \/ RouteFrame(i)

Driver(i) ==
  \/ DockerStartExec(i) \/ YoukiStartExec(i)
  \/ EmitStarted(i) \/ ExitNoticed(i) \/ OutputDrained(i) \/ GiveUp(i)
  \/ DeliverSignal(i) \/ EmitTerminal(i) \/ Terminate(i) \/ Kill(i)

Demux(i) == DemuxFrame(i) \/ DemuxEnds(i)
Pump(i) == PumpChunk(i) \/ PumpEnds(i)
Wrapper(i) == WrapFrame(i) \/ WrapperEnds(i)
ProcessStep(i) == ProcessReads(i) \/ ProcessWrites(i) \/ ProcessExits(i) \/ OutputBreaks(i)

Next ==
  \/ \E i \in Stream :
       \/ Gateway(i) \/ Inbound(i) \/ Driver(i) \/ Demux(i) \/ Pump(i)
       \/ Wrapper(i) \/ ProcessStep(i)
  \/ TunnelBreaks \/ InboundEnds

Spec == Init /\ [][Next]_vars

\* Tokio polls every ready task.  Nothing is assumed of clients, of processes
\* or of the tunnel.
FairSpec ==
  /\ Spec
  /\ WF_vars(\E i \in Stream : Inbound(i))
  /\ \A i \in Stream :
       /\ WF_vars(TerminalSent(i)) /\ WF_vars(Driver(i)) /\ WF_vars(Demux(i))
       /\ WF_vars(Pump(i)) /\ WF_vars(Wrapper(i))

-----------------------------------------------------------------------------
\* A process nobody can signal: its pid was not captured, or the kill failed.
Unreachable(i) == ~process[i].known \/ ~process[i].reached

\* The demux of a stream waits for a process that does not read its stdin.
Stalled(i) ==
  /\ demux[i] = "on" /\ inbox[i] # <<>> /\ Head(inbox[i]) = "stdin"
  /\ stdin[i].open /\ stdin[i].queued = PipeBuffer

\* A driver that ran to its end leaves no process behind that it could reach,
\* but for one whose output stream broke, which it takes for exited.
EndedIsReaped ==
  \A i \in Stream :
    drive[i] = "done" /\ process[i].at = "running" => Unreachable(i)

\* IoExited reaches the client after all the output of the process.
ExitAfterOutput ==
  \A i \in Stream : got[i].end = "exited" => got[i].n = got[i].total

\* While its tunnel is whole a recorded or running process has a driver that
\* will see its stream close.
Watched ==
  \A i \in Stream :
    /\ i \in registry /\ tunnel # "lost" =>
         drive[i] \in {"started", "running", "draining", "exiting", "cancelling",
                       "failing", "term"}
    /\ drive[i] = "running" /\ ~close[i] => demux[i] = "on"

\* A client that goes away takes its process with it, unless the tunnel or the
\* output stream broke, no signal can reach the process, or a process that does
\* not read its stdin holds up the frames of the tunnel.
HangupKills ==
  \A i \in Stream :
    (client[i].at = "gone" /\ process[i].at = "running") ~>
      (process[i].at # "running" \/ Unreachable(i) \/ tunnel # "up"
         \/ \E j \in Stream : Stalled(j))
=============================================================================
