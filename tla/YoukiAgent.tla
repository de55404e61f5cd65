----------------------------- MODULE YoukiAgent -----------------------------
(***************************************************************************)
(* The sandbox manager over youki: YoukiRuntime's create_and_start, whose  *)
(* first part is a pull through the shared image cache, pause, unpause and *)
(* stop_and_remove.  A sandbox is started once, so its container is named  *)
(* by the sandbox.                                                         *)
(***************************************************************************)
EXTENDS SandboxManager

VARIABLES
  marker, rootfs, pull, disturbed,   \* the image cache
  bundle,     \* sandboxes with a container directory
  state,      \* sandboxes with a libcontainer state directory
  init,       \* the init process of a sandbox's container
  address,    \* sandboxes with an address allocated by the bridge plugin
  metadata,   \* YoukiRuntime.containers
  lapse       \* what went wrong for a sandbox that no code undoes

\* Another sandbox of the same image, of which only one pull matters here.
Neighbour == Commands + 1

\* This runtime takes a sandbox without a port as one with a valid port.
YoukiConfigs == {g \in Config : g.exposed # "none"}

\* A shutdown cuts pulls short as a crash does.
Cache == INSTANCE ImageCache WITH Puller <- 1..Neighbour, Fault <- Failure \cup {"crash"}

cacheVars == <<marker, rootfs, pull, disturbed>>
hostVars == <<bundle, state, init, address, metadata>>
vars == <<managerVars, cacheVars, hostVars, lapse>>

Init ==
  /\ ManagerInit
  /\ Cache!ImageInit
  /\ bundle = {} /\ state = {} /\ address = {} /\ metadata = {}
  /\ init = [s \in Sandbox |-> "none"]
  /\ lapse = [s \in Sandbox |-> {}]

Faulty(f) == f \in Failure
Lapse(c, what) == lapse' = [lapse EXCEPT ![On(c)] = @ \cup {what}]

-----------------------------------------------------------------------------
(* create_and_start *)

\* Never is refused; otherwise the pull begins, a refresh for Always.
BeginImage(c) ==
  /\ task[c].at = "create"
  /\ IF task[c].config.policy = "never"
     THEN StartFailed(c) /\ UNCHANGED cacheVars
     ELSE /\ Cache!BeginPull(c, IF task[c].config.policy = "always" THEN "refresh" ELSE "reuse")
          /\ Goto(c, "image") /\ UNCHANGED idleVars
  /\ UNCHANGED <<hostVars, lapse>>

\* The pull and the write of resolv.conf are steps of the cache.
ImageStep(c) ==
  /\ task[c].at = "image"
  /\ Cache!PullStep(c)
  /\ UNCHANGED <<managerVars, hostVars, lapse>>

ImageReturns(c) ==
  /\ task[c].at = "image"
  /\ \/ pull[c].at = "ready" /\ Goto(c, "bundle") /\ UNCHANGED idleVars
     \/ pull[c].at = "failed" /\ StartFailed(c)
  /\ UNCHANGED <<cacheVars, hostVars, lapse>>

NeighbourPulls ==
  /\ \/ pull[Neighbour].at = "idle" /\ \E mode \in Cache!Mode : Cache!BeginPull(Neighbour, mode)
     \/ Cache!PullStep(Neighbour)
     \/ Faulty("deadline") /\ Cache!Abandon({Neighbour})
  /\ UNCHANGED <<managerVars, hostVars, lapse>>

\* allocate_port, the bundle directory, the OCI spec and config.json.
WriteBundle(c) ==
  /\ task[c].at = "bundle"
  /\ \/ bundle' = bundle \cup {On(c)} /\ Goto(c, "build") /\ UNCHANGED <<idleVars, lapse>>
     \/ Faulty("disk") /\ StartFailed(c)
        /\ (UNCHANGED <<bundle, lapse>> \/ (bundle' = bundle \cup {On(c)} /\ Lapse(c, "bundle")))
  /\ UNCHANGED <<cacheVars, state, init, address, metadata>>

\* ContainerBuilder.build on a blocking thread, then the check of the port.  A
\* build that fails may have made the container all the same.
BuildContainer(c) ==
  /\ task[c].at = "build"
  /\ \/ /\ state' = state \cup {On(c)} /\ init' = [init EXCEPT ![On(c)] = "created"]
        /\ IF task[c].config.exposed = "large" THEN StartFailed(c) /\ Lapse(c, "port")
           ELSE Goto(c, "bridge") /\ UNCHANGED <<idleVars, lapse>>
     \/ /\ Faulty("libcontainer") /\ StartFailed(c) /\ Lapse(c, "build")
        /\ \/ UNCHANGED <<state, init>>
           \/ state' = state \cup {On(c)} /\ init' = [init EXCEPT ![On(c)] = "created"]
  /\ UNCHANGED <<cacheVars, bundle, address, metadata>>

AddBridgeBestEffort(c) ==
  /\ task[c].at = "bridge"
  /\ \/ address' = address \cup {On(c)}
     \/ Faulty("cni") /\ UNCHANGED address
  /\ Goto(c, "portmap")
  /\ UNCHANGED <<idleVars, cacheVars, bundle, state, init, metadata, lapse>>

\* invoke_cni ADD runs the bridge plugin, then the portmap plugin; the first to
\* fail ends it.
AddBridge(c) ==
  /\ task[c].at = "bridge"
  /\ \/ address' = address \cup {On(c)} /\ Goto(c, "portmap")
     \/ Faulty("cni") /\ Goto(c, "undo container") /\ UNCHANGED address
  /\ UNCHANGED <<idleVars, cacheVars, bundle, state, init, metadata, lapse>>

AddPortmap(c) ==
  /\ task[c].at = "portmap"
  /\ \/ Goto(c, "start") /\ UNCHANGED lapse
     \/ Faulty("cni") /\ Goto(c, "undo container") /\ Lapse(c, "portmap")
  /\ UNCHANGED <<idleVars, cacheVars, hostVars>>

\* Container.start on a blocking thread; then the metadata is recorded.
StartInit(c) ==
  /\ task[c].at = "start"
  /\ \/ /\ init' = [init EXCEPT ![On(c)] = "running"]
        /\ metadata' = metadata \cup {On(c)}
        /\ Started(c, On(c), 1)
     \/ /\ Faulty("libcontainer") /\ Goto(c, "undo network")
        /\ UNCHANGED <<idleVars, init, metadata>>
  /\ UNCHANGED <<cacheVars, bundle, state, address, lapse>>

UndoNetworkSkipped(c) ==
  /\ task[c].at = "undo network"
  /\ Goto(c, "undo container")
  /\ UNCHANGED <<idleVars, cacheVars, hostVars, lapse>>

\* rollback_cni: the plugins again, with DEL, in the same order.
UndoNetwork(c) ==
  /\ task[c].at = "undo network"
  /\ \/ address' = address \ {On(c)} /\ UNCHANGED lapse
     \/ Faulty("cni") /\ UNCHANGED address /\ Lapse(c, "del")
  /\ Goto(c, "undo container")
  /\ UNCHANGED <<idleVars, cacheVars, bundle, state, init, metadata>>

\* rollback_libcontainer removes the two directories; the init process is not
\* signalled.
UndoContainer(c) ==
  /\ task[c].at = "undo container"
  /\ StartFailed(c)
  /\ \/ state' = state \ {On(c)} /\ bundle' = bundle \ {On(c)} /\ UNCHANGED lapse
     \/ /\ Faulty("disk") /\ Lapse(c, "rollback")
        /\ state' \in {state, state \ {On(c)}} /\ bundle' \in {bundle, bundle \ {On(c)}}
  /\ UNCHANGED <<cacheVars, init, address, metadata>>

DeadlineEvicting(c) ==
  /\ Faulty("deadline")
  /\ Running(c) /\ task[c].kind = "start" /\ task[c].at = "image"
  /\ StartFailed(c)
  /\ Lapse(c, "deadline")
  /\ rootfs' = "none" /\ pull' = [pull EXCEPT ![c] = [at |-> "failed", mode |-> "reuse"]]
  /\ UNCHANGED <<marker, disturbed, hostVars>>

\* SANDBOX_CREATE_DEADLINE: the future is dropped; a pull stops where it is, a
\* blocking thread goes on to its end.
Deadline(c) ==
  /\ Faulty("deadline")
  /\ Running(c) /\ task[c].kind = "start" /\ task[c].at # "queued"
  /\ StartFailed(c)
  /\ Lapse(c, "deadline")
  /\ IF task[c].at = "image" THEN Cache!Abandon({c}) ELSE UNCHANGED cacheVars
  /\ LET s == On(c) IN
     \/ task[c].at = "build" /\ state' = state \cup {s} /\ init' = [init EXCEPT ![s] = "created"]
     \/ task[c].at = "start" /\ init' = [init EXCEPT ![s] = "running"] /\ UNCHANGED state
     \/ task[c].at \notin {"build", "start"} /\ UNCHANGED <<state, init>>
  /\ UNCHANGED <<bundle, address, metadata>>

-----------------------------------------------------------------------------
(* pause, unpause and stop_and_remove *)

\* Container::load fails without a state directory, as for the empty id of a
\* failed start.
Loaded(c) == task[c].container # None /\ On(c) \in state

\* An error is taken to leave the freezer as it was.
PauseContainer(c) ==
  /\ task[c].at = "pause"
  /\ \/ /\ Loaded(c) /\ init[On(c)] \in {"running", "paused"}
        /\ init' = [init EXCEPT ![On(c)] = "paused"] /\ Paused(c, TRUE)
     \/ /\ ~Loaded(c) \/ init[On(c)] \notin {"running", "paused"} \/ Faulty("libcontainer")
        /\ Paused(c, FALSE) /\ UNCHANGED init
  /\ UNCHANGED <<cacheVars, bundle, state, address, metadata, lapse>>

UnpauseContainer(c) ==
  /\ task[c].at = "unpause"
  /\ \/ /\ Loaded(c) /\ init[On(c)] \in {"running", "paused"}
        /\ init' = [init EXCEPT ![On(c)] = "running"] /\ Unpaused(c, TRUE)
     \/ /\ ~Loaded(c) \/ init[On(c)] \notin {"running", "paused"} \/ Faulty("libcontainer")
        /\ Unpaused(c, FALSE) /\ UNCHANGED init
  /\ UNCHANGED <<cacheVars, bundle, state, address, metadata, lapse>>

\* The metadata is taken out of the map first.
StopTakes(c) ==
  /\ task[c].at = "stop"
  /\ task' = [task EXCEPT ![c].at = "delete", ![c].known = task[c].container # None /\ On(c) \in metadata]
  /\ metadata' = IF task[c].container = None THEN metadata ELSE metadata \ {On(c)}
  /\ UNCHANGED <<idleVars, cacheVars, bundle, state, init, address, lapse>>

\* Resume, SIGTERM, the grace period and delete, on a blocking thread.  An error
\* of load or delete is returned at once: by then the process may be thawed or
\* dead.
StopDeletes(c) ==
  /\ task[c].at = "delete"
  /\ \/ /\ Loaded(c)
        /\ state' = state \ {On(c)} /\ init' = [init EXCEPT ![On(c)] = "none"]
        /\ IF task[c].known THEN Goto(c, "network") /\ UNCHANGED idleVars ELSE Stopped(c, TRUE)
        /\ UNCHANGED lapse
     \/ /\ ~Loaded(c) \/ Faulty("libcontainer")
        /\ Stopped(c, FALSE) /\ Lapse(c, "stop") /\ UNCHANGED state
        /\ \/ UNCHANGED init
           \/ Loaded(c) /\ \E now \in {"running", "none"} : init' = [init EXCEPT ![On(c)] = now]
  /\ UNCHANGED <<cacheVars, bundle, address, metadata>>

\* CNI DEL, best effort.
StopNetwork(c) ==
  /\ task[c].at = "network"
  /\ \/ address' = address \ {On(c)} /\ UNCHANGED lapse
     \/ Faulty("cni") /\ UNCHANGED address /\ Lapse(c, "del")
  /\ Goto(c, "directory")
  /\ UNCHANGED <<idleVars, cacheVars, bundle, state, init, metadata>>

\* The container directory, best effort.
StopDirectory(c) ==
  /\ task[c].at = "directory"
  /\ \/ bundle' = bundle \ {On(c)} /\ UNCHANGED lapse
     \/ Faulty("disk") /\ UNCHANGED bundle /\ Lapse(c, "rollback")
  /\ Stopped(c, TRUE)
  /\ UNCHANGED <<cacheVars, state, init, address, metadata>>

-----------------------------------------------------------------------------
(* The process: the map of containers is lost with it *)

ProcessStep ==
  \/ /\ ShutdownBegins \/ \E s \in Sandbox : ShutdownStops(s)
     /\ UNCHANGED <<cacheVars, hostVars, lapse>>
  \/ /\ ShutdownDone \/ Crash
     /\ Cache!Abandon(1..Neighbour)
     /\ metadata' = {}
     /\ lapse' = [s \in Sandbox |->
          IF entry[s] # None \/ \E c \in Command : Running(c) /\ On(c) = s
          THEN lapse[s] \cup {"process"} ELSE lapse[s]]
     /\ UNCHANGED <<bundle, state, init, address>>

TaskStep(c) ==
  \/ (StartBegins(c) \/ ReturnsAtOnce(c) \/ CallsRuntime(c)) /\ UNCHANGED <<cacheVars, hostVars, lapse>>
  \/ c \in Command /\ (BeginImage(c) \/ ImageStep(c) \/ ImageReturns(c) \/ WriteBundle(c)
       \/ BuildContainer(c) \/ AddBridge(c) \/ AddPortmap(c) \/ StartInit(c)
       \/ UndoNetwork(c) \/ UndoContainer(c) \/ Deadline(c)
       \/ PauseContainer(c) \/ UnpauseContainer(c))
  \/ StopTakes(c) \/ StopDeletes(c) \/ StopNetwork(c) \/ StopDirectory(c)

Next ==
  \/ \E c \in Command, k \in Kind, s \in Sandbox, g \in Config :
       Receive(c, k, s, g) /\ UNCHANGED <<cacheVars, hostVars, lapse>>
  \/ \E c \in Task : TaskStep(c)
  \/ NeighbourPulls
  \/ ProcessStep

Spec == Init /\ [][Next]_vars

-----------------------------------------------------------------------------
TypeOK ==
  /\ ManagerTypeOK
  /\ Cache!ImageTypeOK
  /\ bundle \subseteq Sandbox /\ state \subseteq Sandbox
  /\ address \subseteq Sandbox /\ metadata \subseteq Sandbox
  /\ init \in [Sandbox -> {"none", "created", "running", "paused"}]

Quiet(s) == \A c \in Task : On(c) = s => ~Running(c)
Left(s) == (IF s \in bundle THEN {"bundle"} ELSE {}) \cup (IF s \in state THEN {"state"} ELSE {})
           \cup (IF s \in address THEN {"address"} ELSE {})

\* Whatever fails, a sandbox that is gone or failed leaves a directory or an
\* address on the host only through a lapse of that very kind: each rollback and
\* each stop undoes all the others.
LeavesOnlyLapses ==
  \A s \in Sandbox : Quiet(s) /\ (entry[s] = None \/ entry[s].state = "failed") =>
    /\ s \in bundle => lapse[s] \cap {"bundle", "build", "port", "rollback", "stop", "deadline", "process"} # {}
    /\ s \in state => lapse[s] \cap {"build", "port", "rollback", "deadline", "process"} # {}
    /\ s \in address => lapse[s] \cap {"portmap", "del", "stop", "deadline", "process"} # {}

\* A sandbox the manager lists as running or paused has everything it needs: a
\* live init process, its directories and its address, until a stop takes them
\* or fails.
ListedIsWhole ==
  \A s \in Sandbox : entry[s] # None /\ entry[s].state # "failed" =>
    \/ {"bundle", "state", "address"} \subseteq Left(s) /\ init[s] \in {"running", "paused"}
    \/ "stop" \in lapse[s]
    \/ \E c \in Task : On(c) = s /\ task[c].kind = "stop" /\ Running(c)

\* The table and the freezer agree on every sandbox no command is working on and
\* no stop has failed for.
FreezerAgrees ==
  \A s \in Sandbox : Quiet(s) /\ entry[s] # None /\ entry[s].state # "failed" =>
    init[s] = entry[s].state \/ "stop" \in lapse[s]

\* Every step of the agent is a step of the image cache, or leaves it alone.
UsesCache == Cache!ImageSpec
=============================================================================
