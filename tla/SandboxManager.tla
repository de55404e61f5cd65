--------------------------- MODULE SandboxManager ---------------------------
(***************************************************************************)
(* The agent's sandbox manager: lifecycle commands arriving on the         *)
(* controller's stream, each run by a task of its own under a lock per     *)
(* sandbox, and the table of sandboxes they maintain.  What a container    *)
(* runtime does between taking the lock and giving it back is left to      *)
(* DockerAgent and YoukiAgent, which extend this module.                   *)
(***************************************************************************)
EXTENDS Naturals

CONSTANTS Sandbox,      \* sandboxes the controller places on this agent
          Commands,     \* how many commands it sends
          None,         \* no entry, no holder, no container
          Configs,      \* the configurations a start may carry
          Failure,      \* the faults that may happen
          MaxRestarts   \* how often the agent process may be started again

ASSUME CountsAreNatural == Commands \in Nat /\ MaxRestarts \in Nat

\* A task per command, in the order of arrival, and the main task, which stops
\* sandboxes at shutdown.
Main == 0
Command == 1..Commands
Task == Command \cup {Main}
Kind == {"start", "stop", "pause", "unpause"}

\* What a start carries that the runtimes branch on: the pull policy and the
\* exposed port, a number nobody has checked to be below 2^16.
Config == [policy : {"always", "if_not_present", "never"}, exposed : {"none", "valid", "large"}]
ASSUME ConfigsAreConfigs == Configs \subseteq Config
NoConfig == [policy |-> "if_not_present", exposed |-> "none"]

\* An entry of the table; a container is a number or is named by its sandbox.
Entry == [container : Nat \cup Sandbox \cup {None}, port : Nat, state : {"running", "paused", "failed"}]
ASSUME NoneIsNew == None \notin Entry \cup Task

VARIABLES
  entry,      \* SandboxManager.sandboxes
  lock,       \* command_locks: the task holding a sandbox's lock
  task,       \* the tasks: what they are asked and where they are
  told,       \* the states reported to the controller, per sandbox
  sent,       \* whether a sandbox's start reached this process or an earlier one
  doomed,     \* sandboxes the main task has yet to stop
  process,    \* "up", or "stopping" once a shutdown signal was seen
  restarts    \* process starts so far

managerVars == <<entry, lock, task, told, sent, doomed, process, restarts>>

\* All but the tasks, for the steps that only move a task on.
idleVars == <<entry, lock, told, sent, doomed, process, restarts>>

Idle == [kind |-> "start", sandbox |-> None, at |-> "unsent", ok |-> FALSE,
         config |-> NoConfig, container |-> None, port |-> 0, attempt |-> 0, pulls |-> 0, known |-> FALSE]

ManagerInit ==
  /\ entry = [s \in Sandbox |-> None]
  /\ lock = [s \in Sandbox |-> None]
  /\ task = [c \in Task |-> Idle]
  /\ told = [s \in Sandbox |-> {}]
  /\ sent = [s \in Sandbox |-> "never"]
  /\ doomed = {}
  /\ process = "up"
  /\ restarts = 0

Ended == {"unsent", "done", "lost"}
Running(c) == task[c].at \notin Ended
On(c) == task[c].sandbox
Goto(c, at) == task' = [task EXCEPT ![c].at = at]

-----------------------------------------------------------------------------
(* The controller's stream *)

\* What the controller may send about a sandbox: one start, then stops at any
\* time, and a pause or unpause once it was told the state they start from.
Sendable(k, s) ==
  \/ k = "start" /\ sent[s] = "never"
  \/ k = "stop" /\ sent[s] = "here"
  \/ k = "pause" /\ sent[s] = "here" /\ "running" \in told[s]
  \/ k = "unpause" /\ sent[s] = "here" /\ "paused" \in told[s]

\* The inbound loop spawns a task per command and goes on reading.
Receive(c, k, s, config) ==
  /\ process = "up"
  /\ IF k = "start" THEN config \in Configs ELSE config = NoConfig
  /\ task[c].at = "unsent" /\ \A d \in 1..(c - 1) : task[d].at # "unsent"
  /\ Sendable(k, s)
  /\ task' = [task EXCEPT ![c] = [Idle EXCEPT !.kind = k, !.sandbox = s, !.at = "queued", !.config = config]]
  /\ sent' = [sent EXCEPT ![s] = "here"]
  /\ UNCHANGED <<entry, lock, told, doomed, process, restarts>>

\* The state a task reports: the one reached, or the one the controller is to
\* assume after an error.
Status(k, ok) ==
  CASE k = "start"   -> IF ok THEN "running" ELSE "failed"
    [] k = "stop"    -> IF ok THEN "stopped" ELSE "failed"
    [] k = "pause"   -> IF ok THEN "paused" ELSE "running"
    [] k = "unpause" -> IF ok THEN "running" ELSE "paused"

\* A task ends: its guard is dropped, and its status is sent.  The main task
\* only logs.
Return(c, ok) ==
  /\ lock' = [lock EXCEPT ![On(c)] = IF @ = c THEN None ELSE @]
  /\ task' = [task EXCEPT ![c] = [Idle EXCEPT !.kind = task[c].kind, !.sandbox = On(c), !.ok = ok,
                                             !.at = IF c = Main THEN "unsent" ELSE "done"]]
  /\ told' = IF c = Main THEN told
             ELSE [told EXCEPT ![On(c)] = @ \cup {Status(task[c].kind, ok)}]
  /\ UNCHANGED <<sent, doomed, process, restarts>>

-----------------------------------------------------------------------------
(* The commands, up to the runtime call and after it *)

\* start_sandbox takes the lock and calls create_and_start; it does not look
\* at the table first.
StartBegins(c) ==
  /\ task[c].at = "queued" /\ task[c].kind = "start"
  /\ lock[On(c)] = None
  /\ lock' = [lock EXCEPT ![On(c)] = c]
  /\ Goto(c, "create")
  /\ UNCHANGED <<entry, told, sent, doomed, process, restarts>>

\* create_and_start returned a container.
Started(c, id, port) ==
  /\ entry' = [entry EXCEPT ![On(c)] = [container |-> id, port |-> port, state |-> "running"]]
  /\ Return(c, TRUE)

\* create_and_start failed, or its deadline passed: the entry that is left
\* names no container.
StartFailed(c) ==
  /\ entry' = [entry EXCEPT ![On(c)] = [container |-> None, port |-> 0, state |-> "failed"]]
  /\ Return(c, FALSE)

\* The sandbox is already in the state asked for: nothing is dispatched.
AlreadyThere(c) ==
  \/ task[c].kind = "pause" /\ entry[On(c)].state = "paused"
  \/ task[c].kind = "unpause" /\ entry[On(c)].state = "running"

\* stop, pause and unpause find no entry, or nothing to do.
ReturnsAtOnce(c) ==
  /\ task[c].at = "queued" /\ task[c].kind # "start"
  /\ lock[On(c)] = None
  /\ \/ entry[On(c)] = None /\ Return(c, FALSE)
     \/ entry[On(c)] # None /\ AlreadyThere(c) /\ Return(c, TRUE)
  /\ UNCHANGED entry

\* They take the lock and call the runtime with the entry's container.
CallsRuntime(c) ==
  /\ task[c].at = "queued" /\ task[c].kind # "start"
  /\ lock[On(c)] = None
  /\ entry[On(c)] # None /\ ~AlreadyThere(c)
  /\ lock' = [lock EXCEPT ![On(c)] = c]
  /\ task' = [task EXCEPT ![c].at = task[c].kind, ![c].container = entry[On(c)].container]
  /\ UNCHANGED <<entry, told, sent, doomed, process, restarts>>

PausedAnyway(c, ok) ==
  /\ entry' = IF entry[On(c)] # None
              THEN [entry EXCEPT ![On(c)].state = "paused"] ELSE entry
  /\ Return(c, ok)

\* pause_sandbox after the runtime call.
Paused(c, ok) ==
  /\ entry' = IF ok /\ entry[On(c)] # None
              THEN [entry EXCEPT ![On(c)].state = "paused"] ELSE entry
  /\ Return(c, ok)

UnpausedUnrecorded(c, ok) == UNCHANGED entry /\ Return(c, ok)

\* unpause_sandbox after the runtime call.
Unpaused(c, ok) ==
  /\ entry' = IF ok /\ entry[On(c)] # None
              THEN [entry EXCEPT ![On(c)].state = "running"] ELSE entry
  /\ Return(c, ok)

\* stop_sandbox after the runtime call: on an error the entry stays.
Stopped(c, ok) ==
  /\ entry' = IF ok THEN [entry EXCEPT ![On(c)] = None] ELSE entry
  /\ Return(c, ok)

-----------------------------------------------------------------------------
(* The process *)

\* A shutdown signal: the stream's loop is aborted, the tasks it spawned are
\* not, and the sandboxes to stop are those in the table now.
ShutdownBegins ==
  /\ process = "up" /\ restarts < MaxRestarts
  /\ process' = "stopping"
  /\ doomed' = {s \in Sandbox : entry[s] # None}
  /\ UNCHANGED <<entry, lock, task, told, sent, restarts>>

\* They are stopped one after the other.
ShutdownStops(s) ==
  /\ process = "stopping" /\ s \in doomed /\ ~Running(Main)
  /\ doomed' = doomed \ {s}
  /\ task' = [task EXCEPT ![Main] = [Idle EXCEPT !.kind = "stop", !.sandbox = s, !.at = "queued"]]
  /\ UNCHANGED <<entry, lock, told, sent, process, restarts>>

\* The process ends, and with it every task; the next one has a new agent id
\* and an empty table.  Nothing calls reconcile.
ProcessEnds ==
  /\ entry' = [s \in Sandbox |-> None]
  /\ lock' = [s \in Sandbox |-> None]
  /\ task' = [c \in Task |-> IF Running(c) THEN [Idle EXCEPT !.kind = task[c].kind, !.sandbox = On(c),
                                                !.at = IF c = Main THEN "unsent" ELSE "lost"]
                             ELSE task[c]]
  /\ sent' = [s \in Sandbox |-> IF sent[s] = "here" THEN "before" ELSE sent[s]]
  /\ doomed' = {}
  /\ process' = "up"
  /\ restarts' = restarts + 1
  /\ UNCHANGED told

\* The main task has stopped what it could and returns.
ShutdownDone == process = "stopping" /\ doomed = {} /\ ~Running(Main) /\ ProcessEnds

\* The process is killed.
Crash == "crash" \in Failure /\ restarts < MaxRestarts /\ ProcessEnds

ManagerTypeOK ==
  /\ entry \in [Sandbox -> Entry \cup {None}]
  /\ lock \in [Sandbox -> Task \cup {None}]
  /\ \A c \in Task : task[c].kind \in Kind /\ task[c].sandbox \in Sandbox \cup {None}
  /\ told \in [Sandbox -> SUBSET {"running", "paused", "stopped", "failed"}]
  /\ sent \in [Sandbox -> {"never", "here", "before"}]
  /\ doomed \subseteq Sandbox
  /\ process \in {"up", "stopping"}
  /\ restarts \in 0..MaxRestarts
=============================================================================
