----------------------------- MODULE DockerAgent -----------------------------
(***************************************************************************)
(* The sandbox manager over Docker: DockerRuntime's create_and_start with  *)
(* its pulls, retries and rollbacks, pause, unpause and stop_and_remove,   *)
(* one step per request to the daemon.  A container is named after its     *)
(* sandbox, so a sandbox has at most one.                                  *)
(***************************************************************************)
EXTENDS SandboxManager

CONSTANTS Port,          \* host ports the kernel may hand out
          MaxAttempts,   \* MAX_PORT_RETRY_ATTEMPTS
          MaxPulls       \* MAX_PULL_ATTEMPTS

ASSUME AttemptsPositive == MaxAttempts \in Nat \ {0} /\ MaxPulls \in Nat \ {0}
ASSUME PortsPositive == Port \subseteq Nat \ {0}

VARIABLES
  container,  \* the daemon's containers, by name
  image,      \* the image is in the daemon's local store
  created,    \* containers created so far, the source of fresh ids
  excused     \* sandboxes for which a step that may leave a container behind was taken

dockerVars == <<container, image, created, excused>>
vars == <<managerVars, dockerVars>>

Init ==
  /\ ManagerInit
  /\ container = [s \in Sandbox |-> None]
  /\ image \in BOOLEAN
  /\ created = 0
  /\ excused = {}

Faulty(f) == f \in Failure
Holds(s, id) == container[s] # None /\ container[s].id = id
Alive(s) == container[s] # None /\ container[s].state \in {"running", "paused"}
Bound(p) == \E s \in Sandbox : Alive(s) /\ container[s].port = p

\* The daemon's side of create_container, start_container and remove_container.
Created(s, port) ==
  /\ container' = [container EXCEPT ![s] = [id |-> created + 1, port |-> port, state |-> "created"]]
  /\ created' = created + 1
Becomes(s, state) == container' = [container EXCEPT ![s].state = state]
Removed(s) == container' = [container EXCEPT ![s] = None]

-----------------------------------------------------------------------------
(* create_and_start: the image *)

\* The presence probe, skipped by Always, and the policy's decision.  An
\* inspect that fails otherwise than by 404 leaves the presence unknown.
ProbeImage(c) ==
  /\ task[c].at = "create"
  /\ LET policy == task[c].config.policy IN
     \/ policy = "always" /\ Goto(c, "pull") /\ UNCHANGED idleVars
     \/ policy # "always" /\ image /\ Goto(c, "allocate")
        /\ UNCHANGED idleVars
     \/ policy = "if_not_present" /\ (~image \/ Faulty("daemon")) /\ Goto(c, "pull")
        /\ UNCHANGED idleVars
     \/ policy = "never" /\ (~image \/ Faulty("daemon")) /\ StartFailed(c)
  /\ UNCHANGED dockerVars

\* One attempt of pull_image_with_retry, which gives up after the last.  The
\* first pull leads to an attempt to create; the one that recovers from a 404
\* leads back to it, and if it gives up, to the next attempt.
AfterPull(at) == IF at = "pull" THEN "allocate" ELSE "recreate"

PullDone(c) ==
  /\ task[c].at \in {"pull", "repull"}
  /\ image' = TRUE
  /\ task' = [task EXCEPT ![c].at = AfterPull(@), ![c].pulls = 0]
  /\ UNCHANGED <<idleVars, container, created, excused>>

PullAgain(c) ==
  /\ task[c].at \in {"pull", "repull"} /\ Faulty("registry")
  /\ task[c].pulls + 1 < MaxPulls
  /\ task' = [task EXCEPT ![c].pulls = @ + 1]
  /\ UNCHANGED <<idleVars, dockerVars>>

FinalAttempt(c) == task[c].attempt + 1 = MaxAttempts

AdvanceUncounted(c) ==
  /\ ~FinalAttempt(c)
  /\ task' = [task EXCEPT ![c].at = "allocate", ![c].pulls = 0]
  /\ UNCHANGED idleVars

\* `continue`: the next attempt, with a fresh port.
Advance(c) ==
  /\ ~FinalAttempt(c)
  /\ task' = [task EXCEPT ![c].at = "allocate", ![c].attempt = @ + 1, ![c].pulls = 0]
  /\ UNCHANGED idleVars
GiveUp(c) == FinalAttempt(c) /\ StartFailed(c)

PullGivesUp(c) ==
  /\ task[c].at \in {"pull", "repull"} /\ Faulty("registry")
  /\ task[c].pulls + 1 = MaxPulls
  /\ \/ task[c].at = "pull" /\ StartFailed(c)
     \/ task[c].at = "repull" /\ (Advance(c) \/ GiveUp(c))
  /\ UNCHANGED dockerVars

-----------------------------------------------------------------------------
(* create_and_start: the attempts *)

\* allocate_free_host_port binds a free port and lets it go again; nothing
\* holds it until the daemon binds it at start_container.
AllocatePort(c) ==
  /\ task[c].at = "allocate"
  /\ \/ task[c].config.exposed = "none"
        /\ task' = [task EXCEPT ![c].at = "call create", ![c].port = 0]
        /\ UNCHANGED idleVars
     \/ task[c].config.exposed # "none" /\ \E p \in Port : ~Bound(p)
        /\ task' = [task EXCEPT ![c].at = "call create", ![c].port = p]
        /\ UNCHANGED idleVars
     \/ task[c].config.exposed # "none" /\ (\A p \in Port : Bound(p)) /\ StartFailed(c)
  /\ UNCHANGED dockerVars

\* create_container: a container, the image is missing (404), the name is in
\* use (409), or another error, which may hide a container that was created.
CreateContainer(c) ==
  /\ task[c].at = "call create"
  /\ LET s == On(c) IN
     \/ /\ image /\ container[s] = None
        /\ Created(s, task[c].port)
        /\ task' = [task EXCEPT ![c].at = "call start", ![c].container = created + 1]
        /\ UNCHANGED <<idleVars, excused>>
     \/ /\ ~image
        /\ IF task[c].config.policy # "never"
           THEN Goto(c, "repull") /\ UNCHANGED idleVars
           ELSE StartFailed(c)
        /\ UNCHANGED <<container, created, excused>>
     \/ /\ container[s] # None
        /\ Goto(c, "evict")
        /\ UNCHANGED <<idleVars, container, created, excused>>
     \/ /\ Faulty("daemon") \/ task[c].config.exposed = "large"
        /\ StartFailed(c)
        /\ \/ UNCHANGED <<container, created, excused>>
           \/ Faulty("daemon") /\ image /\ container[s] = None /\ Created(s, task[c].port) /\ excused' = excused \cup {s}
  /\ UNCHANGED image

\* The recovery from a 409: force_remove by name, whose failure is only logged.
EvictName(c) ==
  /\ task[c].at = "evict"
  /\ \/ Removed(On(c))
     \/ Faulty("daemon") /\ UNCHANGED container
  /\ Goto(c, "recreate")
  /\ UNCHANGED <<idleVars, image, created, excused>>

\* The second create_container of an attempt: any error ends the attempt.
RecreateContainer(c) ==
  /\ task[c].at = "recreate"
  /\ LET s == On(c) IN
     \/ /\ image /\ container[s] = None
        /\ Created(s, task[c].port)
        /\ task' = [task EXCEPT ![c].at = "call start", ![c].container = created + 1]
        /\ UNCHANGED <<idleVars, excused>>
     \/ /\ ~image \/ container[s] # None \/ Faulty("daemon")
        /\ Advance(c) \/ GiveUp(c)
        /\ \/ UNCHANGED <<container, created, excused>>
           \/ Faulty("daemon") /\ image /\ container[s] = None /\ Created(s, task[c].port)
              /\ excused' = excused \cup {s}
  /\ UNCHANGED image

\* start_container: the daemon binds the port.
StartContainer(c) ==
  /\ task[c].at = "call start"
  /\ LET s == On(c) IN
     \/ /\ Holds(s, task[c].container)
        /\ ~Bound(task[c].port) \/ task[c].port = 0
        /\ Becomes(s, "running")
        /\ Started(c, task[c].container, task[c].port)
     \/ /\ task[c].port # 0 /\ (Bound(task[c].port) \/ Faulty("ports"))
        /\ Goto(c, IF FinalAttempt(c) THEN "undo" ELSE "undo and retry")
        /\ UNCHANGED <<idleVars, container>>
     \/ /\ ~Holds(s, task[c].container) \/ Faulty("daemon")
        /\ Goto(c, "undo")
        /\ UNCHANGED idleVars
        /\ \/ UNCHANGED container
           \/ Holds(s, task[c].container) /\ Becomes(s, "running")
  /\ UNCHANGED <<image, created, excused>>

RollBackSkipped(c) ==
  /\ task[c].at \in {"undo", "undo and retry"}
  /\ IF task[c].at = "undo" THEN StartFailed(c) ELSE Advance(c)
  /\ UNCHANGED dockerVars

\* force_remove of the container that did not start, on every error arm.
RollBack(c) ==
  /\ task[c].at \in {"undo", "undo and retry"}
  /\ \/ /\ IF Holds(On(c), task[c].container) THEN Removed(On(c)) ELSE UNCHANGED container
        /\ UNCHANGED excused
     \/ /\ Faulty("daemon") /\ UNCHANGED container
        /\ excused' = excused \cup {On(c)}
  /\ IF task[c].at = "undo" THEN StartFailed(c) ELSE Advance(c)
  /\ UNCHANGED <<image, created>>

\* SANDBOX_CREATE_DEADLINE: the future is dropped where it stands; the request
\* under way may still reach the daemon.
Deadline(c) ==
  /\ Faulty("deadline")
  /\ Running(c) /\ task[c].kind = "start" /\ task[c].at # "queued"
  /\ StartFailed(c)
  /\ LET s == On(c) IN
     \/ UNCHANGED <<container, created, image>>
     \/ task[c].at \in {"pull", "repull"} /\ image' = TRUE /\ UNCHANGED <<container, created>>
     \/ task[c].at \in {"call create", "recreate"} /\ image /\ container[s] = None
        /\ Created(s, task[c].port) /\ UNCHANGED image
     \/ task[c].at = "call start" /\ Holds(s, task[c].container)
        /\ (task[c].port = 0 \/ ~Bound(task[c].port))
        /\ Becomes(s, "running") /\ UNCHANGED <<created, image>>
     \/ task[c].at \in {"undo", "undo and retry", "evict"} /\ Removed(s) /\ UNCHANGED <<created, image>>
  /\ excused' = excused \cup {On(c)}

-----------------------------------------------------------------------------
(* pause, unpause and stop_and_remove *)

\* pause: 409 counts as paused, whether the container was paused or had exited;
\* a container that is gone is SandboxNotFound; an error may hide a success.
PauseContainer(c) ==
  /\ task[c].at = "pause"
  /\ LET s == On(c)
         held == Holds(s, task[c].container) IN
     \/ /\ held /\ Paused(c, TRUE)
        /\ IF container[s].state = "running" THEN Becomes(s, "paused") ELSE UNCHANGED container
     \/ /\ ~held \/ Faulty("daemon")
        /\ Paused(c, FALSE)
        /\ \/ UNCHANGED container
           \/ held /\ container[s].state = "running" /\ Becomes(s, "paused")
  /\ UNCHANGED <<image, created, excused>>

UnpauseContainer(c) ==
  /\ task[c].at = "unpause"
  /\ LET s == On(c)
         held == Holds(s, task[c].container) IN
     \/ /\ held /\ Unpaused(c, TRUE)
        /\ IF container[s].state = "paused" THEN Becomes(s, "running") ELSE UNCHANGED container
     \/ /\ ~held \/ Faulty("daemon")
        /\ Unpaused(c, FALSE)
        /\ \/ UNCHANGED container
           \/ held /\ container[s].state = "paused" /\ Becomes(s, "running")
  /\ UNCHANGED <<image, created, excused>>

\* stop_and_remove: unpause and stop, both best effort, then remove, whose
\* error is the call's.
StopThaws(c) ==
  /\ task[c].at = "stop"
  /\ LET s == On(c) IN
     \/ Holds(s, task[c].container) /\ container[s].state = "paused" /\ Becomes(s, "running")
     \/ (~(Holds(s, task[c].container) /\ container[s].state = "paused") \/ Faulty("daemon"))
        /\ UNCHANGED container
  /\ Goto(c, "halt")
  /\ UNCHANGED <<idleVars, image, created, excused>>

StopHalts(c) ==
  /\ task[c].at = "halt"
  /\ \/ Holds(On(c), task[c].container) /\ Becomes(On(c), "exited")
     \/ (~Holds(On(c), task[c].container) \/ Faulty("daemon")) /\ UNCHANGED container
  /\ Goto(c, "remove")
  /\ UNCHANGED <<idleVars, image, created, excused>>

StopRemovesBestEffort(c) ==
  /\ task[c].at = "remove"
  /\ \/ Holds(On(c), task[c].container) /\ Removed(On(c))
     \/ (~Holds(On(c), task[c].container) \/ Faulty("daemon")) /\ UNCHANGED container
  /\ Stopped(c, TRUE)
  /\ UNCHANGED <<image, created, excused>>

StopRemoves(c) ==
  /\ task[c].at = "remove"
  /\ LET held == Holds(On(c), task[c].container) IN
     \/ held /\ Removed(On(c)) /\ Stopped(c, TRUE)
     \/ /\ ~held \/ Faulty("daemon")
        /\ Stopped(c, FALSE)
        /\ UNCHANGED container \/ (held /\ Removed(On(c)))
  /\ UNCHANGED <<image, created, excused>>

-----------------------------------------------------------------------------
(* What happens to containers and images without the agent *)

ContainerExits(s) ==
  /\ Faulty("exit")
  /\ container[s] # None /\ container[s].state = "running"
  /\ Becomes(s, "exited")
  /\ UNCHANGED <<managerVars, image, created, excused>>

ImagePruned ==
  /\ Faulty("prune") /\ image
  /\ image' = FALSE
  /\ UNCHANGED <<managerVars, container, created, excused>>

\* The process goes with sandboxes still in the table, or commands under way.
Unfinished == {s \in Sandbox : entry[s] # None \/ \E c \in Command : Running(c) /\ On(c) = s}

ProcessStep ==
  \/ (ShutdownBegins \/ \E s \in Sandbox : ShutdownStops(s)) /\ UNCHANGED dockerVars
  \/ (ShutdownDone \/ Crash) /\ excused' = excused \cup Unfinished /\ UNCHANGED <<container, image, created>>

RuntimeStep(c) ==
  \/ ProbeImage(c) \/ PullDone(c) \/ PullAgain(c) \/ PullGivesUp(c) \/ AllocatePort(c)
  \/ CreateContainer(c) \/ EvictName(c) \/ RecreateContainer(c) \/ StartContainer(c)
  \/ RollBack(c) \/ Deadline(c) \/ PauseContainer(c) \/ UnpauseContainer(c)
  \/ StopThaws(c) \/ StopHalts(c) \/ StopRemoves(c)

TaskStep(c) ==
  \/ (StartBegins(c) \/ ReturnsAtOnce(c) \/ CallsRuntime(c)) /\ UNCHANGED dockerVars
  \/ RuntimeStep(c)

Next ==
  \/ \E c \in Command, k \in Kind, s \in Sandbox, g \in Config :
       Receive(c, k, s, g) /\ UNCHANGED dockerVars
  \/ \E c \in Task : TaskStep(c)
  \/ \E s \in Sandbox : ContainerExits(s)
  \/ ImagePruned
  \/ ProcessStep

Spec == Init /\ [][Next]_vars

\* The runtime polls every task; Docker's client bounds every request.
FairSpec == Spec /\ \A c \in Task : WF_vars(TaskStep(c))

-----------------------------------------------------------------------------
TypeOK ==
  /\ ManagerTypeOK
  /\ \A s \in Sandbox : container[s] = None \/
       /\ container[s].id \in 1..created
       /\ container[s].port \in Port \cup {0}
       /\ container[s].state \in {"created", "running", "paused", "exited"}
  /\ image \in BOOLEAN
  /\ excused \subseteq Sandbox

\* A container is never forgotten: it is named by its sandbox's entry or a start
\* is still working on it, unless a deadline dropped the start, a rollback or a
\* reply was lost, or the process ended with work unfinished.
NoOrphan ==
  \A s \in Sandbox : container[s] # None =>
    \/ entry[s] # None /\ entry[s].container = container[s].id
    \/ \E c \in Command : Running(c) /\ On(c) = s /\ task[c].kind = "start"
    \/ s \in excused

\* An entry says paused while the container runs only if an unpause or a stop of
\* it is under way or has failed: I/O is refused to the sandbox meanwhile.
PausedIsFrozen ==
  \A s \in Sandbox :
    process = "up" /\ entry[s] # None /\ entry[s].state = "paused" /\ container[s] # None /\ container[s].state = "running"
    => \E c \in Command : /\ On(c) = s /\ task[c].kind \in {"unpause", "stop"}
                          /\ Running(c) \/ ~task[c].ok

\* Once a stop has returned success the sandbox's container is gone for good,
\* whatever other commands for the sandbox are still queued.
StoppedForGood ==
  \A c \in Command : task[c].kind = "stop" /\ task[c].at = "done" /\ task[c].ok
    => container[On(c)] = None /\ entry[On(c)] = None

\* Every command is answered, however pulls, creates and starts fail: the
\* retries are bounded and no lock is kept.
CommandAnswered ==
  \A c \in Command : (task[c].at = "queued") ~> (task[c].at \in {"done", "lost"})
=============================================================================
