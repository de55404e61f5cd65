---------------------------- MODULE FileSessions ----------------------------
(***************************************************************************)
(* File operations on one path of a sandbox: the REST and WebSocket        *)
(* handlers of the gateway, the I/O sessions of the agent that serve them, *)
(* and the steps the container runtimes take in the container.             *)
(*                                                                         *)
(* Clients edit optimistically: a read returns the file and a revision     *)
(* token, a conditional write carries the token back, and the agent        *)
(* compares it with the token of the file before it replaces the file.     *)
(* The token is made of the modification time in seconds and the size.     *)
(***************************************************************************)
EXTENDS Naturals, ContainerFiles

CONSTANTS
  Client,       \* clients of the gateway
  MaxRequests,  \* bound: requests of all clients
  MaxTime,      \* bound: seconds that pass
  MaxWait,      \* WAIT_PORT_LISTENING_MAX_TIMEOUT_MS, in probe intervals
  Runtimes      \* the runtimes to check, of {"docker", "youki"}

ASSUME BoundsAreNatural ==
  /\ MaxRequests \in Nat /\ MaxBody \in Nat \ {0}
  /\ MaxTime \in Nat /\ MaxWait \in Nat
ASSUME KnownRuntimes == Runtimes \subseteq {"docker", "youki"}

VARIABLES
  runtime,  \* the container runtime of the agent
  made,     \* requests made so far
  now,      \* the clock of the container's file system, in seconds
  file,     \* what is at the path
  temp,     \* clients the temporary file of whose current write exists
  draining, \* refused writes whose session still drains its client frames
  client,   \* what a client knows of the file
  req,      \* the request of a client
  tunnel    \* "up" or "lost"

vars == <<runtime, made, now, file, temp, draining, client, req, tunnel>>

Text == [n: 0 .. MaxRequests, born: 0 .. MaxTime, size: 0 .. MaxBody]
Kind == {"read", "stream", "edit", "put", "tarball", "delete", "rmtree", "list", "port"}
Writes == {"edit", "put", "tarball"}
Revisions == (0 .. MaxTime) \X ((0 .. MaxBody) \union {DirSize})

\* The stages of a request.
Stage == {"idle", "check", "collect", "temp", "rename", "extract", "thread",
          "stat", "call", "probe", "gone"}

\* A request: the chunks of its body and those collected (for a port, the
\* timeout and the probes made); the revision it expects and the text that
\* stood for; the text it replaced and the text the client will have in hand;
\* whether the file changed since it last looked; whether it was answered with
\* success, and what kept a temporary file from being removed; whether the
\* client is still there.
Idle ==
  [kind |-> "read", at |-> "idle", n |-> 0, body |-> 0, taken |-> 0,
   expect |-> None, base |-> None, paired |-> TRUE, seen |-> None, text |-> None,
   raced |-> FALSE, fault |-> "none", ok |-> FALSE, whole |-> TRUE, here |-> TRUE]

NothingKnown == [text |-> None, rev |-> None, paired |-> TRUE]

TypeOK ==
  /\ runtime \in Runtimes /\ made \in 0 .. MaxRequests /\ now \in 0 .. MaxTime
  /\ tunnel \in {"up", "lost"}
  /\ file \in Text \union {None} \union {Directory(t) : t \in 0 .. MaxTime}
  /\ temp \subseteq Client
  /\ draining \subseteq 1 .. MaxRequests
  /\ client \in [Client -> [text: Text \union {None}, rev: Revisions \union {None},
                            paired: BOOLEAN]]
  /\ \A c \in Client :
       /\ req[c].kind \in Kind /\ req[c].at \in Stage
       /\ req[c].n \in 0 .. MaxRequests
       /\ {req[c].text, req[c].base} \subseteq Text \union {None}
       /\ req[c].ok \in BOOLEAN
       /\ req[c].fault \in {"none", "exec", "lost"}

Original == [n |-> 0, born |-> 0, size |-> 1]

Init ==
  /\ runtime \in Runtimes
  /\ made = 0 /\ now = 0 /\ tunnel = "up"
  /\ file \in {Original, Directory(0)}
  /\ temp = {} /\ draining = {}
  /\ client = [c \in Client |-> NothingKnown]
  /\ req = [c \in Client |-> Idle]

-----------------------------------------------------------------------------
(* Answers of the gateway.                                                 *)

\* map_io_error: the error an IoError code stands for.
MapIoError(code) ==
  CASE code = "FILE_NOT_FOUND" -> "FileNotFound"
    [] code = "SANDBOX_NOT_FOUND" -> "SandboxGone"
    [] code = "REVISION_MISMATCH" -> "RevisionMismatch"
    [] code = "DIRECTORY_NOT_EMPTY" -> "DirectoryNotEmpty"
    [] OTHER -> "IoStreamFailed"

\* api_error_response: its HTTP status.
ApiErrorResponse(error) ==
  CASE error \in {"FileNotFound", "SandboxGone"} -> 404
    [] error \in {"RevisionMismatch", "DirectoryNotEmpty"} -> 409
    [] error = "ProxyUnavailable" -> 503
    [] OTHER -> 500

\* close_for_api_error: the code a WebSocket is closed with.
CloseForApiError(error) ==
  CASE error \in {"FileNotFound", "SandboxGone"} -> 4404
    [] error \in {"RevisionMismatch", "DirectoryNotEmpty"} -> 4409
    [] error = "ProxyUnavailable" -> 4503
    [] OTHER -> 4500

\* A session ends for the gateway with IoExited, with an IoError, with a status
\* of the proxy (UNAVAILABLE), or without a terminal frame (NONE).
ErrorOf(end) ==
  CASE end = "UNAVAILABLE" -> "ProxyUnavailable"
    [] end = "NONE" -> "IoStreamFailed"
    [] OTHER -> MapIoError(end)

\* What unary_via_io_stream and its siblings answer.
UnaryViaIoStream(end) == IF end = "EXITED" THEN 200 ELSE ApiErrorResponse(ErrorOf(end))

\* What the pump of the read stream answers: a close.
ReadStreamPump(end) ==
  CASE end = "EXITED" -> 1000
    [] end = "NONE" -> 4503
    [] OTHER -> CloseForApiError(ErrorOf(end))

\* delete_file answers with no content.
Answer(kind, end) ==
  CASE kind = "stream" -> ReadStreamPump(end)
    [] kind \in {"delete", "rmtree"} /\ end = "EXITED" -> 204
    [] OTHER -> UnaryViaIoStream(end)
Succeeded(status) == status \in {200, 204, 1000}

-----------------------------------------------------------------------------
(* The handlers of the gateway.                                            *)

\* drive_io_session dispatches on the operation.
First(kind) ==
  CASE kind = "edit" -> "check"
    [] kind \in {"put", "tarball"} -> "collect"
    [] kind = "port" -> "probe"
    [] OTHER -> "call"

Free(c) == req[c].at \in {"idle", "gone"}

\* unary_via_io_stream and its siblings: the session is opened with the start
\* frame; a task feeds the body, the handler waits for the end.
Opens(c, new) ==
  /\ Free(c) /\ made < MaxRequests /\ tunnel = "up"
  /\ req' = [req EXCEPT ![c] = [new EXCEPT !.n = made + 1, !.at = First(new.kind)]]
  /\ made' = made + 1
  /\ temp' = temp \ {c}
  /\ UNCHANGED <<runtime, now, file, client, tunnel, draining>>

\* A bad key, path, body or identifier is refused before a session is opened.
Rejects(c, status) ==
  /\ Free(c) /\ made < MaxRequests /\ tunnel = "up"
  /\ req' = [req EXCEPT ![c] = [Idle EXCEPT !.at = "gone", !.ok = Succeeded(status)]]
  /\ made' = made + 1
  /\ temp' = temp \ {c}
  /\ UNCHANGED <<runtime, now, file, client, tunnel, draining>>

\* write_files.
WriteFiles(c, body) == Opens(c, [Idle EXCEPT !.kind = "tarball", !.body = body])

\* write_file: the client may send the revision of its last read or write, and
\* may force the write past it.
WriteFile(c, body, expecting, force) ==
  /\ expecting => client[c].rev # None
  /\ Opens(c,
       IF expecting /\ ~force
       THEN [Idle EXCEPT !.kind = "edit", !.body = body, !.expect = client[c].rev,
               !.base = client[c].text, !.paired = client[c].paired]
       ELSE [Idle EXCEPT !.kind = "put", !.body = body])

\* read_file.
ReadFile(c) == Opens(c, Idle)

\* ws_read_file: the same session, passed on chunk by chunk.
WsReadFile(c) == Opens(c, [Idle EXCEPT !.kind = "stream"])

\* list_dir.
ListDir(c) == Opens(c, [Idle EXCEPT !.kind = "list"])

\* delete_file.
DeleteFile(c, recursive) ==
  Opens(c, [Idle EXCEPT !.kind = IF recursive THEN "rmtree" ELSE "delete"])

\* wait_port_listening: the timeout is clamped.
WaitPortListening(c, timeout) ==
  Opens(c, [Idle EXCEPT !.kind = "port",
              !.body = IF timeout > MaxWait THEN MaxWait ELSE timeout])

\* The client disconnects while its body is on the way: the request future is
\* dropped and the proxy sends a Close in place of the chunks not sent yet.
\* (One who hangs up with no body left to send just misses the answer.)
HangUp(c) ==
  /\ req[c].at \in {"check", "collect"} /\ req[c].here
  /\ req' = [req EXCEPT ![c].here = FALSE]
  /\ UNCHANGED <<runtime, made, now, file, temp, client, tunnel, draining>>

Request(c) ==
  \/ \E status \in {400, 401} : Rejects(c, status)
  \/ \E body \in 1 .. MaxBody + 1 :
       \/ WriteFiles(c, body)
       \/ \E expecting, force \in BOOLEAN : WriteFile(c, body, expecting, force)
  \/ ReadFile(c) \/ WsReadFile(c) \/ ListDir(c) \/ HangUp(c)
  \/ \E recursive \in BOOLEAN : DeleteFile(c, recursive)
  \/ \E timeout \in 0 .. MaxWait + 1 : WaitPortListening(c, timeout)

-----------------------------------------------------------------------------
(* The agent's session (io_stream.rs).                                     *)

Up(c, stage) == tunnel = "up" /\ req[c].at = stage
Moves(c, stage) == req' = [req EXCEPT ![c].at = stage]

\* The body has been collected, all of it if the client is still there.
HasBody(c, stage) ==
  req' = [req EXCEPT ![c].at = stage, ![c].body = 0,
                     ![c].whole = req[c].here => req[c].taken = req[c].body]

\* The request is over: its end is answered and only the outcome is kept.
Over(c, end, fault) ==
  [Idle EXCEPT !.at = "gone", !.ok = Succeeded(Answer(req[c].kind, end)), !.fault = fault,
     !.whole = Succeeded(Answer(req[c].kind, end)) => req[c].whole]
Ends(c) == req' = [req EXCEPT ![c] = Over(c, "EXITED", "none")]
Fails(c, code, fault) == req' = [req EXCEPT ![c] = Over(c, code, fault)]

\* handle_io_client_frame refuses the Start: unknown or paused sandbox.
Refuse(c, code) ==
  /\ Up(c, First(req[c].kind)) /\ req[c].taken = 0
  /\ Fails(c, code, "none")
  /\ UNCHANGED <<runtime, made, now, file, temp, client, tunnel, draining>>

RefusedFallingThrough(c, code) ==
  /\ Moves(c, "collect")
  /\ draining' = draining \union {req[c].n}

\* A refused write: the error is sent, then the session goes on reading client
\* frames until their channel closes, which happens only with the tunnel.
Refused(c, code) ==
  /\ Fails(c, code, "none")
  /\ draining' = draining \union {req[c].n}

\* stat_revision of the agent's runtime.
StatRevision(f) == IF runtime = "docker" THEN DockerStat(f) ELSE YoukiStat(f)

CheckRevisionExists(c) ==
  /\ Up(c, "check")
  /\ \E stat \in StatRevision(file) :
       IF stat.err = "none"
       THEN /\ req' = [req EXCEPT ![c].at = "collect", ![c].expect = None, ![c].raced = FALSE]
            /\ UNCHANGED draining
       ELSE Refused(c, IF stat.err = "missing" THEN "REVISION_MISMATCH" ELSE "WRITE_FAILED")
  /\ UNCHANGED <<runtime, made, now, file, temp, client, tunnel>>

\* drive_write_file: the precondition.  A missing file is a mismatch.
CheckRevision(c) ==
  /\ Up(c, "check")
  /\ \E stat \in StatRevision(file) :
       \/ /\ stat.err = "none" /\ stat.val = req[c].expect
          /\ req' = [req EXCEPT ![c].at = "collect", ![c].expect = None, ![c].raced = FALSE]
          /\ UNCHANGED draining
       \/ /\ stat.err = "none" => stat.val # req[c].expect
          /\ Refused(c, IF stat.err = "error" THEN "WRITE_FAILED" ELSE "REVISION_MISMATCH")
  /\ UNCHANGED <<runtime, made, now, file, temp, client, tunnel>>

\* One chunk of the body, up to MAX_WRITE_BYTES.
Collect(c) ==
  /\ Up(c, "collect") /\ req[c].taken < req[c].body /\ req[c].here
  /\ IF req[c].taken = MaxBody
     THEN Refused(c, "PAYLOAD_TOO_LARGE")
     ELSE req' = [req EXCEPT ![c].taken = @ + 1] /\ UNCHANGED draining
  /\ UNCHANGED <<runtime, made, now, file, temp, client, tunnel>>

BodyEndsEarly(c) == Up(c, "collect")

\* The body is complete: with the half-close the gateway's task sends after the
\* last chunk, or with the Close sent for a client that went away.
BodyEnds(c) == Up(c, "collect") /\ (req[c].taken = req[c].body \/ ~req[c].here)

\* The text a write leaves, complete or up to some chunk.
Written(c, size) == [n |-> req[c].n, born |-> now, size |-> size]

\* The path becomes new by a step of c; a request of another client that is
\* between two looks at the file has been raced.
Looking == {"collect", "temp", "rename", "thread", "extract", "stat"}
Changes(c, new, mine) ==
  /\ file' = new
  /\ req' = [d \in Client |->
       IF d = c THEN mine
       ELSE [req[d] EXCEPT !.raced = @ \/ (new # file /\ req[d].at \in Looking)]]

\* The write is done and its revision is taken next.
Stored(c) ==
  [req[c] EXCEPT !.at = "stat", !.seen = IF req[c].kind = "edit" THEN file ELSE None,
     !.text = Written(c, req[c].taken), !.paired = @ /\ ~req[c].raced, !.raced = FALSE]

-----------------------------------------------------------------------------
(* Writing with the docker runtime: mkdir, tee and mv, an exec each.       *)

\* mkdir -p of the parent or the target directory (drain_to_exit).
DockerMakeDir(c) ==
  /\ runtime = "docker" /\ BodyEnds(c)
  /\ \/ HasBody(c, IF req[c].kind = "tarball" THEN "extract" ELSE "temp")
     \/ Fails(c, "WRITE_FAILED", "none")
  /\ UNCHANGED <<runtime, made, now, file, temp, client, tunnel, draining>>

CleanUpSkipped(c) ==
  /\ temp' = temp \union {c}
  /\ Fails(c, "WRITE_FAILED", "none")

\* cleanup_tmp_file: the temporary file is removed with one more exec, which
\* may fail.
CleanUp(c) ==
  \/ temp' = temp \ {c} /\ Fails(c, "WRITE_FAILED", "none")
  \/ temp' = temp \union {c} /\ Fails(c, "WRITE_FAILED", "exec")

\* tee writes the body to a temporary file beside the target.
DockerTee(c) ==
  /\ Up(c, "temp")
  /\ \/ Moves(c, "rename") /\ temp' = temp \union {c}
     \/ Fails(c, "WRITE_FAILED", "none") /\ UNCHANGED temp
     \/ CleanUp(c)
     \/ Fails(c, "WRITE_FAILED", "exec") /\ temp' = temp \union {c}
  /\ UNCHANGED <<runtime, made, now, file, client, tunnel, draining>>

DockerMoveUnchecked(c) ==
  /\ Up(c, "rename")
  /\ \/ Changes(c, Written(c, req[c].taken), Stored(c))
     \/ Changes(c, file, Stored(c))
  /\ temp' = temp \ {c}
  /\ UNCHANGED <<runtime, made, now, client, tunnel, draining>>

\* mv.  With a directory at the path it moves the file into the directory and
\* succeeds.  When its exec cannot be started nothing is cleaned up.
DockerMove(c) ==
  /\ Up(c, "rename")
  /\ \/ /\ Changes(c, IF IsDir(file) THEN Directory(now) ELSE Written(c, req[c].taken),
             Stored(c))
        /\ temp' = temp \ {c}
     \/ CleanUp(c) /\ UNCHANGED file
     \/ Fails(c, "WRITE_FAILED", "exec") /\ UNCHANGED <<file, temp>>
  /\ UNCHANGED <<runtime, made, now, client, tunnel, draining>>

-----------------------------------------------------------------------------
(* Writing with the youki runtime, and archives with both.                 *)

\* container_pid, and for an archive the directories that may be written; then
\* the call is handed to its thread, which nothing interrupts.
YoukiHandsOff(c, allowed) ==
  /\ runtime = "youki" /\ BodyEnds(c)
  /\ \/ /\ req[c].kind = "tarball" => allowed
        /\ HasBody(c, IF req[c].kind = "tarball" THEN "extract" ELSE "thread")
     \/ Fails(c, "WRITE_FAILED", "none")
  /\ UNCHANGED <<runtime, made, now, file, temp, client, tunnel, draining>>

YoukiWrites(c) ==
  /\ Up(c, "thread")
  /\ \E done \in YoukiWrite(file, Written(c, req[c].taken)) :
       /\ Changes(c, done.val[1],
            IF done.err = "none" THEN Stored(c)
            ELSE Over(c, "WRITE_FAILED", "none"))
       /\ temp' = IF done.val[2] THEN temp \union {c} ELSE temp
  /\ UNCHANGED <<runtime, made, now, client, tunnel, draining>>

\* write_files_targz: the archive is unpacked in place, a piece at a time (tar
\* may replace an empty directory, the youki runtime's unpacker does not), ...
Extract(c, size) ==
  /\ Up(c, "extract") /\ size <= req[c].taken
  /\ IsDir(file) => runtime = "docker"
  /\ Changes(c, Written(c, size),
       IF size = req[c].taken THEN Over(c, "EXITED", "none") ELSE req[c])
  /\ UNCHANGED <<runtime, made, now, temp, client, tunnel, draining>>

\* ... and may fail half way.
ExtractFails(c) ==
  /\ Up(c, "extract")
  /\ Fails(c, "WRITE_FAILED", "none")
  /\ UNCHANGED <<runtime, made, now, file, temp, client, tunnel, draining>>

-----------------------------------------------------------------------------
(* Reading, listing, deleting, waiting for a port.                         *)

\* drive_read_file; the revision is taken afterwards.
DriveReadFile(c) ==
  /\ Up(c, "call") /\ req[c].kind \in {"read", "stream"}
  /\ \E read \in IF runtime = "docker" THEN DockerRead(file) ELSE YoukiRead(file) :
       IF read.err = "none"
       THEN req' = [req EXCEPT ![c].at = "stat", ![c].text = read.val, ![c].raced = FALSE]
       ELSE Fails(c, IF read.err = "missing" THEN "FILE_NOT_FOUND" ELSE "READ_FAILED", "none")
  /\ UNCHANGED <<runtime, made, now, file, temp, client, tunnel, draining>>

\* drive_list_dir.
DriveListDir(c) ==
  /\ Up(c, "call") /\ req[c].kind = "list"
  /\ \E list \in IF runtime = "docker" THEN DockerList(file) ELSE YoukiList(file) :
       IF list.err = "none" THEN Ends(c)
       ELSE Fails(c, IF list.err = "missing" THEN "FILE_NOT_FOUND" ELSE "LIST_DIR_FAILED", "none")
  /\ UNCHANGED <<runtime, made, now, file, temp, client, tunnel, draining>>

\* What a delete may do.
Deletes(c) ==
  LET recursive == req[c].kind = "rmtree"
  IN IF runtime = "docker" THEN DockerDelete(file, recursive) ELSE YoukiDelete(file, recursive)

\* drive_delete_file.
DriveDeleteFile(c) ==
  /\ Up(c, "call") /\ req[c].kind \in {"delete", "rmtree"}
  /\ \E delete \in Deletes(c) :
       Changes(c, delete.val,
         CASE delete.err = "none" -> Over(c, "EXITED", "none")
           [] delete.err = "nonempty" -> Over(c, "DIRECTORY_NOT_EMPTY", "none")
           [] OTHER -> Over(c, "DELETE_FAILED", "none"))
  /\ UNCHANGED <<runtime, made, now, temp, client, tunnel, draining>>

\* wait_port_listening of the docker runtime: a shell loop that probes a fixed
\* number of times, at least once, however long a probe takes.
DockerProbe(c) ==
  /\ Up(c, "probe") /\ runtime = "docker"
  /\ \/ Ends(c)
     \/ req[c].taken + 1 < req[c].body /\ req' = [req EXCEPT ![c].taken = @ + 1]
     \/ Fails(c, "WAIT_PORT_LISTENING_FAILED", "none")
  /\ UNCHANGED <<runtime, made, now, file, temp, client, tunnel, draining>>

\* wait_port_listening_in_ns: the deadline is checked before every probe, and a
\* probe takes some of the time that is left; a timeout of 0 probes nothing.
YoukiProbe(c) ==
  /\ Up(c, "probe") /\ runtime = "youki"
  /\ \/ Ends(c)
     \/ /\ req[c].taken < req[c].body
        /\ \E spent \in req[c].taken + 1 .. req[c].body :
             req' = [req EXCEPT ![c].taken = spent]
     \/ req[c].taken = 0 /\ Fails(c, "WAIT_PORT_LISTENING_FAILED", "none")
  /\ UNCHANGED <<runtime, made, now, file, temp, client, tunnel, draining>>

\* drive_wait_port_listening: either is a result, ready or not.
DriveWaitPortListening(c) == DockerProbe(c) \/ YoukiProbe(c)

\* The revision of the file is taken, best effort, and sent as FileMeta; then
\* the session ends with IoExited.  The client keeps text and revision.
SendMeta(c) ==
  /\ Up(c, "stat")
  /\ Ends(c)
  /\ \E stat \in StatRevision(file) :
       client' = IF req[c].here
                 THEN [client EXCEPT ![c] =
                         IF req[c].raced \/ IsDir(file)
                         THEN [text |-> None, rev |-> stat.val, paired |-> FALSE]
                         ELSE [text |-> req[c].text, rev |-> stat.val, paired |-> TRUE]]
                 ELSE client
  /\ UNCHANGED <<runtime, made, now, file, temp, tunnel, draining>>

-----------------------------------------------------------------------------
(* The tunnel.                                                             *)

Serving(c) == ~Free(c)

\* What the path may hold when a request's session is aborted: a step handed to
\* the container, or to a thread of the youki runtime, completes all the same.
LateFiles(c) ==
  CASE req[c].at = "rename" /\ IsDir(file) -> {file, Directory(now)}
    [] req[c].at = "thread" /\ IsDir(file) -> {file}
    [] req[c].at \in {"rename", "thread", "extract"} -> {file, Written(c, req[c].taken)}
    [] req[c].at = "call" /\ req[c].kind \in {"delete", "rmtree"} ->
         {delete.val : delete \in Deletes(c)}
    [] OTHER -> {file}

\* The tunnel breaks, alone or because the proxy goes away, and its session tasks
\* are aborted where they stand.  Some late steps complete, others leave temporary
\* files; what the gateway answers depends on who noticed first.  (A tunnel lost
\* while no request is served changes nothing here.)
LoseTunnel ==
  /\ tunnel = "up" /\ {c \in Client : Serving(c)} # {}
  /\ tunnel' = "lost" /\ draining' = {}
  /\ file' \in UNION {LateFiles(c) : c \in Client}
  /\ temp' \in {t \in SUBSET Client :
                  \A c \in Client : req[c].at \notin {"temp", "rename", "thread"} =>
                    (c \in t <=> c \in temp)}
  /\ req' \in {[c \in Client |-> IF Serving(c) THEN Over(c, end, "lost") ELSE req[c]] :
                 end \in {"AGENT_DISCONNECTED", "UNAVAILABLE", "NONE"}}
  /\ UNCHANGED <<runtime, made, now, client>>

Tick ==
  /\ now < MaxTime /\ tunnel = "up"
  /\ now' = now + 1
  /\ UNCHANGED <<runtime, made, file, temp, client, req, tunnel, draining>>

-----------------------------------------------------------------------------
Session(c) ==
  \/ \E code \in {"SANDBOX_NOT_FOUND", "SANDBOX_PAUSED"} : Refuse(c, code)
  \/ CheckRevision(c) \/ Collect(c)
  \/ DockerMakeDir(c) \/ DockerTee(c) \/ DockerMove(c)
  \/ \E allowed \in BOOLEAN : YoukiHandsOff(c, allowed)
  \/ YoukiWrites(c)
  \/ \E size \in 0 .. MaxBody : Extract(c, size)
  \/ ExtractFails(c)
  \/ DriveReadFile(c) \/ DriveListDir(c) \/ DriveDeleteFile(c)
  \/ DriveWaitPortListening(c) \/ SendMeta(c)

Next ==
  \/ \E c \in Client : Request(c) \/ Session(c)
  \/ LoseTunnel \/ Tick

Spec == Init /\ [][Next]_vars

-----------------------------------------------------------------------------
\* The moment after a write replaced the file.
Replaced(c) == req[c].at = "stat" /\ req[c].kind \in {"edit", "put"}

\* A conditional write replaces the text its client had in hand, unless the
\* file changed between two of the agent's looks at it, changed within the
\* second and kept its size, or the client's last write went into a directory.
GuardedWrite ==
  \A c \in Client :
    Replaced(c) /\ req[c].kind = "edit" /\ req[c].paired /\ req[c].seen # req[c].base =>
      /\ req[c].seen.born = req[c].base.born
      /\ req[c].seen.size = req[c].base.size

\* When a write is about to be acknowledged the path holds its text, unless
\* another request changed it since, or the path is a directory, into which mv
\* put the text.
AckedIsStored ==
  \A c \in Client :
    Replaced(c) /\ ~req[c].raced => file = req[c].text \/ IsDir(file)

\* A write whose client was there to be told of it is the whole body.
AckedIsWhole ==
  \A c \in Client :
    req[c].at = "gone" /\ req[c].ok => req[c].whole

\* The text of a request refused for its revision or its size never gets into
\* the file, not even in part.
RefusedTouchesNothing == file # None => file.n \notin draining

\* The temporary file of a docker write that is over is gone, unless an exec
\* could not be started or its outcome was lost.
TempRemoved ==
  \A c \in Client :
    runtime = "docker" /\ req[c].at = "gone" /\ c \in temp =>
      req[c].fault \in {"exec", "lost"}
=============================================================================
