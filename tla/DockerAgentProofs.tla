-------------------------- MODULE DockerAgentProofs --------------------------
(***************************************************************************)
(* No container of the docker runtime is lost track of, for any numbers of *)
(* sandboxes, commands, attempts and restarts: the invariant SafeInv is    *)
(* inductive.                                                              *)
(***************************************************************************)
EXTENDS DockerAgent, TLAPS

\* The provers of the leaves that name none, with their time limits in seconds.
USE SMTT(30), Z3T(30), ZenonT(30)

StartStages == {"create", "pull", "repull", "allocate", "call create", "evict", "recreate",
                "call start", "undo", "undo and retry"}
StopStages == {"stop", "halt", "remove"}
BusyStages == StopStages \cup {"pause", "unpause"}
Stages == Ended \cup {"queued"} \cup StartStages \cup BusyStages

TaskRecord ==
  [kind : Kind, sandbox : Sandbox \cup {None}, at : Stages, ok : BOOLEAN, config : Config,
   container : Nat \cup Sandbox \cup {None}, port : Nat, attempt : Nat, pulls : Nat, known : BOOLEAN]
Container == [id : Nat, port : Nat, state : {"created", "running", "paused", "exited"}]

Shape ==
  /\ entry \in [Sandbox -> Entry \cup {None}]
  /\ task \in [Task -> TaskRecord]
  /\ container \in [Sandbox -> Container \cup {None}]
  /\ created \in Nat
  /\ sent \in [Sandbox -> {"never", "here", "before"}]
  /\ doomed \subseteq Sandbox

\* The main task only stops sandboxes, and only during a shutdown.
Staged(c) ==
  /\ task[c].at \in StartStages => task[c].kind = "start"
  /\ task[c].at \in StopStages => task[c].kind = "stop"
  /\ task[c].at \in {"pause", "unpause"} => task[c].kind = task[c].at
  /\ c = Main /\ task[c].at # "unsent" => Running(c) /\ task[c].kind = "stop" /\ process = "stopping"
  /\ c \in Command /\ task[c].at = "unsent" => task[c].kind = "start"

\* Nothing is known of a sandbox before its start is received.
Announced ==
  /\ \A c \in Task : task[c].at # "unsent" => On(c) \in Sandbox /\ sent[On(c)] # "never"
  /\ \A s \in Sandbox : entry[s] # None \/ s \in doomed => sent[s] # "never"

Starting(c) == Running(c) /\ task[c].kind = "start"

\* There is one start of a sandbox, and no entry until it returns.
Starts ==
  \A c \in Command : Starting(c) =>
    /\ entry[On(c)] = None
    /\ \A d \in Command : Starting(d) /\ On(d) = On(c) => d = c

\* A command that works on a container does so after the start returned.
Busy ==
  \A c \in Task, d \in Command :
    task[c].at \in BusyStages /\ Starting(d) => On(d) # On(c)

\* Who will remove the container of a sandbox.
Owned(s) == container[s] # None =>
  \/ s \in excused
  \/ entry[s] # None /\ entry[s].container = container[s].id
  \/ \E c \in Command : /\ Starting(c) /\ On(c) = s /\ task[c].container = container[s].id
                        /\ task[c].at \in {"call start", "undo", "undo and retry"}

Frozen(s) ==
  process = "up" /\ entry[s] # None /\ entry[s].state = "paused" /\ container[s] # None /\ container[s].state = "running"
    => \E c \in Command : /\ On(c) = s /\ task[c].kind \in {"unpause", "stop"}
                          /\ Running(c) \/ ~task[c].ok

\* After a successful stop, nothing that could bring the container back.
Gone(s) ==
  \A c \in Command : task[c].kind = "stop" /\ task[c].at = "done" /\ task[c].ok /\ On(c) = s =>
    /\ container[s] = None /\ entry[s] = None
    /\ \A d \in Command : Starting(d) => On(d) # s

SafeInv ==
  /\ Shape /\ Announced /\ Starts /\ Busy
  /\ \A c \in Task : Staged(c)
  /\ \A s \in Sandbox : Owned(s) /\ Frozen(s) /\ Gone(s)

-----------------------------------------------------------------------------
(* A step of one task. *)

\* What the step of a task leaves alone: other tasks and other sandboxes.
Local(c) ==
  /\ \A d \in Task \ {c} : task'[d] = task[d]
  /\ task'[c].kind = task[c].kind /\ task'[c].sandbox = task[c].sandbox
  /\ \A s \in Sandbox \ {On(c)} : entry'[s] = entry[s] /\ container'[s] = container[s]
  /\ \A s \in Sandbox : s \in excused => s \in excused'
  /\ UNCHANGED <<sent, doomed, process>>

LEMMA MainIsNoCommand == Main \notin Command /\ Command \subseteq Task
BY CountsAreNatural DEF Main, Command, Task

LEMMA LocalSafe ==
  ASSUME SafeInv, NEW c \in Task, Running(c), Shape', Local(c), Staged(c)',
         entry'[On(c)] # None /\ entry[On(c)] = None => task[c].kind = "start" /\ ~Running(c)',
         container'[On(c)] # None /\ container[On(c)] = None => task[c].kind = "start",
         task'[c].at \in BusyStages => task[c].at \in BusyStages \/ entry[On(c)] # None,
         task[c].kind = "stop" /\ task'[c].at = "done" /\ task'[c].ok =>
           task[c].at \in BusyStages /\ container'[On(c)] = None /\ entry'[On(c)] = None,
         Owned(On(c))', Frozen(On(c))'
  PROVE  SafeInv'
<1>a. Shape /\ Announced /\ Starts /\ Busy BY DEF SafeInv
<1>b. \A d \in Task : Staged(d) BY DEF SafeInv
<1>c. \A s \in Sandbox : Owned(s) /\ Frozen(s) /\ Gone(s) BY DEF SafeInv
<1>0. On(c) \in Sandbox /\ sent[On(c)] # "never" BY <1>a DEF Announced, Running, Ended
<1>1. \A d \in Task : On(d)' = On(d) /\ task'[d].kind = task[d].kind BY DEF Local, On
<1>2. \A d \in Command : Starting(d)' => Starting(d)
  BY <1>1, MainIsNoCommand DEF Local, Starting, Running
<1>3. Announced' BY <1>a, <1>0, <1>1 DEF Announced, Local, Running, Ended, On
<1>4. ASSUME NEW d \in Task PROVE Staged(d)'
  <2>1. CASE d = c BY <2>1, ZenonT(30)
  <2>2. CASE d # c BY <1>b, <2>2 DEF Local, Staged, Running
  <2> QED BY <2>1, <2>2
<1>5. Starts'
  <2> SUFFICES ASSUME NEW d \in Command, Starting(d)'
               PROVE  /\ entry'[On(d)] = None
                      /\ \A e \in Command : Starting(e)' /\ On(e) = On(d) => e = d
    BY <1>a, <1>1, MainIsNoCommand DEF Starts
  <2>1. Starting(d) /\ entry[On(d)] = None BY <1>a, <1>2 DEF Starts
  <2>2. \A e \in Command : Starting(e)' /\ On(e) = On(d) => e = d BY <1>a, <1>2, <2>1 DEF Starts
  <2>3. CASE On(d) # On(c)
    <3>1. On(d) \in Sandbox BY <1>a, <2>1, MainIsNoCommand DEF Announced, Starting, Running, Ended
    <3> QED BY <2>1, <2>2, <2>3, <3>1 DEF Local
  <2>4. CASE On(d) = On(c)
    <3>1. SUFFICES ASSUME entry'[On(d)] # None PROVE FALSE BY <2>2
    <3>2. task[c].kind = "start" /\ ~Running(c)' BY <2>1, <2>4, <3>1
    <3>3. c \in Command /\ Starting(c)
      BY <1>b, <3>2 DEF Task, Staged, Starting, Running, Ended, Main
    <3>4. d = c BY <1>a, <2>1, <2>4, <3>3 DEF Starts
    <3> QED BY <3>2, <3>4 DEF Starting
  <2> QED BY <2>3, <2>4
<1>6. Busy'
  <2> SUFFICES ASSUME NEW e \in Task, NEW d \in Command, task'[e].at \in BusyStages, Starting(d)'
               PROVE  On(d) # On(e)
    BY <1>a, <1>1, MainIsNoCommand DEF Busy
  <2>1. Starting(d) BY <1>2
  <2>2. CASE e = c
    BY <1>a, <2>1, <2>2, ZenonT(30) DEF Busy, Starts
  <2>3. CASE e # c BY <1>a, <2>1, <2>3 DEF Busy, Local
  <2> QED BY <2>2, <2>3
<1>7. ASSUME NEW s \in Sandbox, s # On(c) PROVE Owned(s)'
  <2>1. container'[s] = container[s] /\ entry'[s] = entry[s] BY <1>7 DEF Local
  <2>2. ASSUME NEW d \in Command, Starting(d), On(d) = s
        PROVE  Starting(d)' /\ On(d)' = s /\ task'[d] = task[d]
    BY <1>7, <2>2, MainIsNoCommand DEF Local, Starting, Running, On
  <2>3. CASE \E d \in Command : /\ Starting(d) /\ On(d) = s /\ task[d].container = container[s].id
                                /\ task[d].at \in {"call start", "undo", "undo and retry"}
    <3>1. PICK d \in Command : /\ Starting(d) /\ On(d) = s /\ task[d].container = container[s].id
                               /\ task[d].at \in {"call start", "undo", "undo and retry"}
      BY <2>3, Zenon
    <3>2. Starting(d)' /\ On(d)' = s /\ task'[d] = task[d] BY <2>2, <3>1, Zenon
    <3> QED BY <1>c, <2>1, <3>1, <3>2, Zenon DEF Owned
  <2>4. CASE container[s] = None \/ s \in excused \/ (entry[s] # None /\ entry[s].container = container[s].id)
    BY <1>c, <2>1, <2>4, Zenon DEF Owned, Local
  <2> QED BY <1>c, <2>3, <2>4, Zenon DEF Owned
<1>8. ASSUME NEW s \in Sandbox, s # On(c) PROVE Frozen(s)'
  <2>1. container'[s] = container[s] /\ entry'[s] = entry[s] /\ process' = process BY <1>7, <1>8, ZenonT(30) DEF Local
  <2>2. ASSUME NEW d \in Command, On(d) = s
        PROVE  On(d)' = s /\ task'[d] = task[d]
    BY <1>8, <2>2, MainIsNoCommand DEF Local, On
  <2> QED BY <1>c, <2>1, <2>2, ZenonT(30) DEF Frozen, Running
<1>9. ASSUME NEW s \in Sandbox PROVE Gone(s)'
  <2> SUFFICES ASSUME NEW d \in Command, task'[d].kind = "stop", task'[d].at = "done", task'[d].ok, On(d) = s
               PROVE  /\ container'[s] = None /\ entry'[s] = None
                      /\ \A e \in Command : Starting(e)' => On(e) # s
    BY <1>c, <1>1, MainIsNoCommand, ZenonT(30) DEF Gone
  <2>1. CASE d = c
    <3>1. task[c].at \in BusyStages /\ container'[s] = None /\ entry'[s] = None BY <1>1, <2>1, ZenonT(30)
    <3> QED BY <1>a, <1>2, <2>1, <3>1 DEF Busy
  <2>2. CASE d # c
    <3>1. /\ container[s] = None /\ entry[s] = None
          /\ \A e \in Command : Starting(e) => On(e) # s
      BY <1>c, <2>2, MainIsNoCommand, ZenonT(30) DEF Local, Gone
    <3>2. CASE s # On(c) BY <1>2, <3>1, <3>2 DEF Local
    <3>3. CASE s = On(c)
      <4>1. task[c].kind # "start"
        BY <1>b, <3>1, <3>3 DEF Task, Staged, Starting, Running, Ended, Main
      <4> QED BY <1>2, <3>1, <3>3, <4>1, ZenonT(30)
    <3> QED BY <3>2, <3>3, ZenonT(30)
  <2> QED BY <2>1, <2>2
<1>10. ASSUME NEW s \in Sandbox, s = On(c) PROVE Owned(s)' /\ Frozen(s)'
  <2>1. On(c)' = s BY <1>1, <1>10
  <2> QED BY <1>c, <2>1, Zenon DEF Owned, Frozen
<1> QED BY <1>3, <1>4, <1>5, <1>6, <1>7, <1>8, <1>9, <1>10 DEF SafeInv

-----------------------------------------------------------------------------
(* What the steps do to the task. *)

\* A task moves to another stage.
Moves(c, at) ==
  /\ task' \in [Task -> TaskRecord]
  /\ \A d \in Task \ {c} : task'[d] = task[d]
  /\ task'[c].kind = task[c].kind /\ task'[c].sandbox = task[c].sandbox /\ task'[c].at = at

LEMMA Updated ==
  ASSUME Shape, NEW c \in Task, NEW r \in TaskRecord, task' = [task EXCEPT ![c] = r],
         r.kind = task[c].kind, r.sandbox = task[c].sandbox
  PROVE  Moves(c, r.at) /\ task'[c] = r
BY DEF Shape, Moves

LEMMA GotoMoves ==
  ASSUME Shape, NEW c \in Task, NEW at \in Stages, Goto(c, at)
  PROVE  Moves(c, at) /\ task'[c].container = task[c].container
<1> DEFINE r == [task[c] EXCEPT !.at = at]
<1>1. task[c] \in TaskRecord BY DEF Shape
<1>2. /\ r \in TaskRecord /\ r.at = at /\ r.kind = task[c].kind /\ r.sandbox = task[c].sandbox
      /\ r.container = task[c].container
  BY <1>1, Zenon DEF TaskRecord
<1>3. task' = [task EXCEPT ![c] = r] BY DEF Goto
<1> HIDE DEF r
<1> QED BY <1>2, <1>3, Updated, Zenon

LEMMA AdvanceMoves ==
  ASSUME Shape, NEW c \in Task, Advance(c)
  PROVE  Moves(c, "allocate")
<1> DEFINE r == [task[c] EXCEPT !.at = "allocate", !.attempt = @ + 1, !.pulls = 0]
<1>1. task[c] \in TaskRecord BY DEF Shape
<1>2. r \in TaskRecord /\ r.at = "allocate" /\ r.kind = task[c].kind /\ r.sandbox = task[c].sandbox
  <2>1. task[c].attempt + 1 \in Nat /\ 0 \in Nat BY <1>1 DEF TaskRecord
  <2>2. "allocate" \in Stages BY DEF Stages, StartStages
  <2> QED BY <1>1, <2>1, <2>2, Zenon DEF TaskRecord
<1>3. task' = [task EXCEPT ![c] = r] BY <1>1, Zenon DEF Advance, Shape
<1> HIDE DEF r
<1> QED BY <1>2, <1>3, Updated, Zenon

LEMMA ReturnMoves ==
  ASSUME Shape, NEW c \in Task, NEW ok \in BOOLEAN, Return(c, ok)
  PROVE  /\ Moves(c, IF c = Main THEN "unsent" ELSE "done") /\ task'[c].ok = ok
         /\ UNCHANGED <<sent, doomed, process>>
<1> DEFINE at == IF c = Main THEN "unsent" ELSE "done"
<1> DEFINE r == [Idle EXCEPT !.kind = task[c].kind, !.sandbox = On(c), !.ok = ok, !.at = at]
<1>1. task[c] \in TaskRecord BY DEF Shape
<1>2. at \in Stages BY DEF Stages, Ended
<1>3. task' = [task EXCEPT ![c] = r] BY DEF Return
<1> HIDE DEF at
<1>4. r \in TaskRecord /\ r.at = at /\ r.kind = task[c].kind /\ r.sandbox = task[c].sandbox /\ r.ok = ok
  BY <1>1, <1>2, ZenonT(60) DEF TaskRecord, Idle, NoConfig, Config, On
<1> HIDE DEF r
<1>5. Moves(c, r.at) /\ task'[c] = r BY <1>3, <1>4, Updated, Zenon
<1>6. UNCHANGED <<sent, doomed, process>> BY DEF Return
<1> QED BY <1>4, <1>5, <1>6, Zenon DEF at

-----------------------------------------------------------------------------
(* The steps of a start. *)

Holding == {"call start", "undo", "undo and retry"}

LEMMA AtStart ==
  ASSUME SafeInv, NEW c \in Task, task[c].at \in StartStages
  PROVE  /\ c \in Command /\ c # Main /\ Starting(c) /\ Running(c) /\ task[c].kind = "start"
         /\ On(c) \in Sandbox /\ entry[On(c)] = None /\ task[c].at # "queued"
<1>1. task[c].kind = "start" /\ Running(c) /\ task[c].at # "unsent" /\ task[c].at # "queued"
  BY Zenon DEF SafeInv, Staged, StartStages, Running, Ended
<1>2. c # Main BY <1>1 DEF SafeInv, Staged
<1>3. c \in Command BY <1>2 DEF Task
<1> QED BY <1>1, <1>2, <1>3 DEF SafeInv, Announced, Starts, Starting

\* The container of a sandbox whose start does not hold it.
LEMMA NotHeld ==
  ASSUME SafeInv, NEW c \in Task, task[c].at \in StartStages, container[On(c)] # None,
         task[c].at \notin Holding \/ task[c].container # container[On(c)].id
  PROVE  On(c) \in excused
BY AtStart, Zenon DEF SafeInv, Owned, Starts, Holding

\* What a step does to the containers.
Daemon(c) ==
  /\ container' \in [Sandbox -> Container \cup {None}] /\ created' \in Nat
  /\ \A s \in Sandbox \ {On(c)} : container'[s] = container[s]
  /\ \A s \in Sandbox : s \in excused => s \in excused'

LEMMA StartMoveSafe ==
  ASSUME SafeInv, NEW c \in Task, task[c].at \in StartStages, NEW at \in StartStages, Moves(c, at),
         UNCHANGED <<entry, sent, doomed, process>>, Daemon(c),
         container'[On(c)] # None =>
           On(c) \in excused' \/ (at \in Holding /\ task'[c].container = container'[On(c)].id)
  PROVE  SafeInv'
<1> USE AtStart
<1>1. Shape' BY ZenonT(30) DEF SafeInv, Shape, Moves, Daemon
<1>2. Local(c) BY DEF Local, Moves, Daemon
<1>3. Running(c)' /\ Staged(c)' /\ task'[c].at \notin BusyStages /\ task'[c].at # "done"
  BY Zenon DEF Moves, Running, Ended, Staged, StartStages, StopStages, BusyStages
<1>4. On(c)' = On(c) /\ Starting(c)' BY <1>3 DEF Moves, On, Starting
<1>5. Owned(On(c))' BY <1>4, Zenon DEF Owned, Moves, Holding
<1>6. Frozen(On(c))' BY <1>4 DEF Frozen
<1> QED BY <1>1, <1>2, <1>3, <1>5, <1>6, LocalSafe, ZenonT(60)

LEMMA FailedEntry ==
  ASSUME NEW s \in Sandbox, Shape,
         entry' = [entry EXCEPT ![s] = [container |-> None, port |-> 0, state |-> "failed"]]
  PROVE  /\ entry' \in [Sandbox -> Entry \cup {None}] /\ entry'[s].state = "failed"
         /\ \A t \in Sandbox \ {s} : entry'[t] = entry[t]
BY ZenonT(60) DEF Shape, Entry

LEMMA StartFailedSafe ==
  ASSUME SafeInv, NEW c \in Task, task[c].at \in StartStages, StartFailed(c), Daemon(c),
         container'[On(c)] # None => On(c) \in excused'
  PROVE  SafeInv'
<1> USE AtStart
<1>1. /\ Moves(c, "done") /\ ~task'[c].ok /\ UNCHANGED <<sent, doomed, process>>
  BY ReturnMoves, Zenon DEF SafeInv, StartFailed
<1>2. /\ entry' \in [Sandbox -> Entry \cup {None}] /\ entry'[On(c)].state = "failed"
      /\ \A s \in Sandbox \ {On(c)} : entry'[s] = entry[s]
  BY FailedEntry, Zenon DEF SafeInv, StartFailed
<1>3. Shape' BY <1>1, <1>2, ZenonT(30) DEF SafeInv, Shape, Moves, Daemon
<1>4. Local(c) BY <1>1, <1>2 DEF Local, Moves, Daemon
<1>5. ~Running(c)' /\ Staged(c)' /\ task'[c].at \notin BusyStages /\ task'[c].kind # "stop"
  BY <1>1, Zenon DEF Moves, Running, Ended, Staged, StartStages, StopStages, BusyStages
<1>6. On(c)' = On(c) BY <1>1 DEF Moves, On
<1>7. Owned(On(c))' BY <1>6, Zenon DEF Owned
<1>8. Frozen(On(c))' BY <1>2, <1>6, ZenonT(30) DEF Frozen
<1> QED BY <1>3, <1>4, <1>5, <1>7, <1>8, LocalSafe DEF Moves

\* A start that holds no container fails without touching it.
LEMMA FailsEmptyHanded ==
  ASSUME SafeInv, NEW c \in Task, task[c].at \in StartStages, StartFailed(c),
         task[c].at \notin Holding, UNCHANGED <<container, created, excused>>
  PROVE  SafeInv'
<1>1. Daemon(c) BY DEF Daemon, SafeInv, Shape
<1> QED BY <1>1, NotHeld, StartFailedSafe

\* A start that holds no container moves on without touching it.
LEMMA MovesEmptyHanded ==
  ASSUME SafeInv, NEW c \in Task, task[c].at \in StartStages \ Holding, NEW at \in StartStages, Moves(c, at),
         UNCHANGED <<entry, sent, doomed, process>>, UNCHANGED <<container, created, excused>>
  PROVE  SafeInv'
<1>1. Daemon(c) BY DEF Daemon, SafeInv, Shape
<1> QED BY <1>1, NotHeld, StartMoveSafe

LEMMA ImageSafe ==
  ASSUME SafeInv, NEW c \in Task, ProbeImage(c) \/ PullDone(c) \/ PullAgain(c) \/ PullGivesUp(c)
  PROVE  SafeInv'
<1> USE DEF Holding
<1>0. Shape BY DEF SafeInv
<1>1. task[c].at \in StartStages \ Holding /\ UNCHANGED <<container, created, excused>>
  BY Zenon DEF ProbeImage, PullDone, PullAgain, PullGivesUp, StartStages, dockerVars
<1>2. CASE StartFailed(c) BY <1>1, <1>2, FailsEmptyHanded, Zenon
<1>3. ASSUME NEW at \in StartStages, Moves(c, at), UNCHANGED idleVars PROVE SafeInv'
  BY <1>1, <1>3, MovesEmptyHanded, Zenon DEF idleVars
<1>4. ASSUME NEW at \in {"pull", "allocate"}, Goto(c, at), UNCHANGED idleVars PROVE SafeInv'
  <2>1. at \in StartStages /\ at \in Stages BY Zenon DEF Stages, StartStages
  <2> QED BY <1>0, <1>3, <1>4, <2>1, GotoMoves
<1>5. CASE ProbeImage(c) BY <1>2, <1>4, <1>5 DEF ProbeImage
<1>6. CASE PullDone(c)
  <2> DEFINE at == AfterPull(task[c].at)
  <2>1. at \in StartStages /\ at \in Stages BY DEF Stages, StartStages, AfterPull
  <2> HIDE DEF at
  <2> DEFINE r == [task[c] EXCEPT !.at = at, !.pulls = 0]
  <2>2. task[c] \in TaskRecord BY <1>0 DEF Shape
  <2>3. r \in TaskRecord /\ r.at = at /\ r.kind = task[c].kind /\ r.sandbox = task[c].sandbox
    BY <2>1, <2>2, Zenon DEF TaskRecord
  <2>4. task' = [task EXCEPT ![c] = r] BY <1>6, <2>2, Zenon DEF PullDone, at, Shape
  <2> HIDE DEF r
  <2>5. Moves(c, at) BY <1>0, <2>3, <2>4, Updated, Zenon
  <2> QED BY <1>3, <1>6, <2>1, <2>5 DEF PullDone
<1>7. CASE PullAgain(c)
  <2>2. task[c] \in TaskRecord BY <1>0 DEF Shape
  <2>0. task[c].pulls + 1 \in Nat BY <2>2 DEF TaskRecord
  <2> DEFINE r == [task[c] EXCEPT !.pulls = @ + 1]
  <2>3. r \in TaskRecord /\ r.at = task[c].at /\ r.kind = task[c].kind /\ r.sandbox = task[c].sandbox
    BY <2>0, <2>2, Zenon DEF TaskRecord
  <2>4. task' = [task EXCEPT ![c] = r] BY <1>7 DEF PullAgain
  <2> HIDE DEF r
  <2>5. Moves(c, task[c].at) BY <1>0, <2>3, <2>4, Updated, Zenon
  <2> QED BY <1>1, <1>3, <1>7, <2>5, Zenon DEF PullAgain
<1>8. CASE PullGivesUp(c)
  <2>1. CASE Advance(c)
    <3>1. Moves(c, "allocate") /\ UNCHANGED idleVars BY <1>0, <2>1, AdvanceMoves, Zenon DEF Advance
    <3> QED BY <1>3, <3>1 DEF StartStages
  <2> QED BY <1>2, <1>8, <2>1 DEF PullGivesUp, GiveUp
<1> QED BY <1>5, <1>6, <1>7, <1>8

LEMMA AllocatePortSafe ==
  ASSUME SafeInv, NEW c \in Task, AllocatePort(c)
  PROVE  SafeInv'
<1> USE DEF Holding
<1>0. Shape /\ task[c] \in TaskRecord BY DEF SafeInv, Shape
<1>1. task[c].at \in StartStages \ Holding /\ UNCHANGED <<container, created, excused>>
  BY Zenon DEF AllocatePort, StartStages, dockerVars
<1>2. CASE StartFailed(c) BY <1>1, <1>2, FailsEmptyHanded, Zenon
<1>3. ASSUME NEW p \in Nat, UNCHANGED idleVars,
             task' = [task EXCEPT ![c].at = "call create", ![c].port = p]
      PROVE  SafeInv'
  <2> DEFINE r == [task[c] EXCEPT !.at = "call create", !.port = p]
  <2>1. "call create" \in Stages /\ "call create" \in StartStages BY DEF Stages, StartStages
  <2>2. r \in TaskRecord /\ r.at = "call create" /\ r.kind = task[c].kind /\ r.sandbox = task[c].sandbox
    BY <1>0, <2>1, Zenon DEF TaskRecord
  <2>3. task' = [task EXCEPT ![c] = r] BY <1>0, <1>3, Zenon DEF Shape
  <2> HIDE DEF r
  <2>4. Moves(c, "call create") BY <1>0, <2>2, <2>3, Updated, Zenon
  <2> QED BY <1>1, <1>3, <2>1, <2>4, MovesEmptyHanded, Zenon DEF idleVars
<1> QED BY <1>2, <1>3, PortsPositive, Zenon DEF AllocatePort

LEMMA FreshId == \A n \in Nat : n + 1 \in Nat
OBVIOUS

\* A container is created for a start, which holds it from then on.
LEMMA CreatedSafe ==
  ASSUME SafeInv, NEW c \in Task, task[c].at \in {"call create", "recreate"}, UNCHANGED idleVars,
         Created(On(c), task[c].port), UNCHANGED excused,
         task' = [task EXCEPT ![c].at = "call start", ![c].container = created + 1]
  PROVE  SafeInv'
<1>0. Shape /\ task[c] \in TaskRecord BY Zenon DEF SafeInv, Shape
<1>1. task[c].at \in StartStages BY Zenon DEF StartStages
<1> DEFINE id == created + 1
<1>2. id \in Nat BY <1>0, FreshId, Zenon DEF Shape
<1>3. container' = [container EXCEPT ![On(c)] = [id |-> id, port |-> task[c].port, state |-> "created"]]
  BY Zenon DEF Created
<1>4. created' \in Nat BY <1>2, Zenon DEF Created
<1>5. task' = [task EXCEPT ![c].at = "call start", ![c].container = id] BY Zenon
<1> HIDE DEF id
<1> DEFINE r == [task[c] EXCEPT !.at = "call start", !.container = id]
<1>6. "call start" \in Stages /\ "call start" \in StartStages BY Zenon DEF Stages, StartStages
<1>7. /\ r \in TaskRecord /\ r.at = "call start" /\ r.kind = task[c].kind /\ r.sandbox = task[c].sandbox
      /\ r.container = id
  BY <1>0, <1>2, <1>6, Zenon DEF TaskRecord
<1>8. task' = [task EXCEPT ![c] = r] BY <1>0, <1>5, Zenon DEF Shape
<1> HIDE DEF r
<1>9. Moves(c, "call start") /\ task'[c].container = id
  <2>1. Moves(c, r.at) /\ task'[c] = r BY <1>0, <1>7, <1>8, Updated, Zenon
  <2> QED BY <1>7, <2>1, Zenon
<1>10. [id |-> id, port |-> task[c].port, state |-> "created"] \in Container
  BY <1>0, <1>2, Zenon DEF Container, TaskRecord
<1>11. Daemon(c) /\ container'[On(c)].id = id
  BY <1>0, <1>1, <1>3, <1>4, <1>10, AtStart, Zenon DEF Daemon, Shape
<1> QED BY <1>1, <1>6, <1>9, <1>11, StartMoveSafe, Zenon DEF Holding, idleVars

\* A container created by a request whose answer was lost is excused.
LEMMA CreatedUnseen ==
  ASSUME SafeInv, NEW c \in Task, task[c].at \in StartStages,
         Created(On(c), task[c].port), excused' = excused \cup {On(c)}
  PROVE  Daemon(c)
<1>0. Shape /\ task[c] \in TaskRecord BY DEF SafeInv, Shape
<1>1. created + 1 \in Nat BY <1>0 DEF Shape
<1>2. [id |-> created + 1, port |-> task[c].port, state |-> "created"] \in Container
  BY <1>0, <1>1 DEF Container, TaskRecord
<1> QED BY <1>0, <1>1, <1>2, AtStart DEF Daemon, Shape, Created

LEMMA CreateContainerSafe ==
  ASSUME SafeInv, NEW c \in Task, CreateContainer(c)
  PROVE  SafeInv'
<1>0. Shape BY DEF SafeInv
<1>1. task[c].at \in StartStages /\ task[c].at \notin Holding BY Zenon DEF CreateContainer, StartStages, Holding
<1>2. CASE /\ Created(On(c), task[c].port) /\ UNCHANGED <<idleVars, excused>>
           /\ task' = [task EXCEPT ![c].at = "call start", ![c].container = created + 1]
  BY <1>2, CreatedSafe, Zenon DEF CreateContainer
<1>3. ASSUME NEW at \in {"repull", "evict"}, Goto(c, at), UNCHANGED idleVars,
             UNCHANGED <<container, created, excused>>
      PROVE  SafeInv'
  <2>1. at \in StartStages /\ at \in Stages BY Zenon DEF StartStages, Stages
  <2> QED BY <1>0, <1>1, <1>3, <2>1, GotoMoves, MovesEmptyHanded DEF idleVars
<1>4. CASE StartFailed(c) /\ UNCHANGED <<container, created, excused>>
  BY <1>1, <1>4, FailsEmptyHanded, ZenonT(30)
<1>5. CASE StartFailed(c) /\ Created(On(c), task[c].port) /\ excused' = excused \cup {On(c)}
  BY <1>1, <1>5, CreatedUnseen, StartFailedSafe, ZenonT(30)
<1> QED BY <1>2, <1>3, <1>4, <1>5, Zenon DEF CreateContainer

LEMMA EvictNameSafe ==
  ASSUME SafeInv, NEW c \in Task, EvictName(c)
  PROVE  SafeInv'
<1>0. Shape BY DEF SafeInv
<1>1. task[c].at \in StartStages /\ task[c].at \notin Holding BY DEF EvictName, StartStages, Holding
<1>2. "recreate" \in StartStages /\ "recreate" \in Stages BY DEF StartStages, Stages
<1>3. Moves(c, "recreate") BY <1>0, <1>2, GotoMoves DEF EvictName
<1>4. Daemon(c) /\ (container'[On(c)] = None \/ container'[On(c)] = container[On(c)])
  BY <1>0, <1>1, AtStart DEF EvictName, Removed, Daemon, Shape
<1> QED BY <1>1, <1>2, <1>3, <1>4, NotHeld, StartMoveSafe DEF EvictName, idleVars

LEMMA RecreateContainerSafe ==
  ASSUME SafeInv, NEW c \in Task, RecreateContainer(c)
  PROVE  SafeInv'
<1>0. Shape BY DEF SafeInv
<1>1. task[c].at \in StartStages /\ task[c].at \notin Holding BY Zenon DEF RecreateContainer, StartStages, Holding
<1>2. CASE /\ Created(On(c), task[c].port) /\ UNCHANGED <<idleVars, excused>>
           /\ task' = [task EXCEPT ![c].at = "call start", ![c].container = created + 1]
  BY <1>2, CreatedSafe, Zenon DEF RecreateContainer
<1>3. ASSUME Daemon(c), container'[On(c)] # None => On(c) \in excused', Advance(c) \/ GiveUp(c)
      PROVE  SafeInv'
  <2>1. CASE Advance(c)
    <3>1. Moves(c, "allocate") /\ "allocate" \in StartStages BY <1>0, <2>1, AdvanceMoves DEF StartStages
    <3> QED BY <1>1, <1>3, <2>1, <3>1, StartMoveSafe DEF Advance, idleVars
  <2>2. CASE GiveUp(c) BY <1>1, <1>3, <2>2, StartFailedSafe, ZenonT(30) DEF GiveUp
  <2> QED BY <1>3, <2>1, <2>2
<1>4. CASE UNCHANGED <<container, created, excused>> /\ (Advance(c) \/ GiveUp(c))
  <2>1. Daemon(c) BY <1>0, <1>4 DEF Daemon, Shape
  <2> QED BY <1>1, <1>3, <1>4, <2>1, NotHeld
<1>5. CASE /\ Created(On(c), task[c].port) /\ excused' = excused \cup {On(c)}
           /\ Advance(c) \/ GiveUp(c)
  BY <1>1, <1>3, <1>5, CreatedUnseen
<1> QED BY <1>2, <1>4, <1>5, Zenon DEF RecreateContainer

LEMMA BecomesKeeps ==
  ASSUME Shape, NEW s \in Sandbox, container[s] # None,
         NEW state \in {"created", "running", "paused", "exited"}, Becomes(s, state)
  PROVE  /\ container' \in [Sandbox -> Container \cup {None}]
         /\ container'[s].id = container[s].id /\ container'[s].state = state
         /\ \A t \in Sandbox \ {s} : container'[t] = container[t]
<1> DEFINE r == [container[s] EXCEPT !.state = state]
<1>1. container[s] \in Container BY DEF Shape
<1>2. r \in Container /\ r.id = container[s].id /\ r.state = state BY <1>1, Zenon DEF Container
<1>3. container' = [container EXCEPT ![s] = r] BY DEF Becomes
<1> HIDE DEF r
<1> QED BY <1>2, <1>3 DEF Shape

LEMMA StartedSafe ==
  ASSUME SafeInv, NEW c \in Task, task[c].at = "call start",
         Holds(On(c), task[c].container), Becomes(On(c), "running"),
         Started(c, task[c].container, task[c].port), UNCHANGED <<created, excused>>
  PROVE  SafeInv'
<1>0. Shape /\ task[c] \in TaskRecord BY Zenon DEF SafeInv, Shape
<1>1. task[c].at \in StartStages BY Zenon DEF StartStages
<1> USE <1>1, AtStart
<1>2. /\ Moves(c, "done") /\ UNCHANGED <<sent, doomed, process>>
  BY <1>0, ReturnMoves, Zenon DEF Started
<1> DEFINE e == [container |-> task[c].container, port |-> task[c].port, state |-> "running"]
<1>3. e \in Entry BY <1>0, Zenon DEF TaskRecord, Entry
<1>4. e # None /\ e.container = task[c].container /\ e.state = "running" BY <1>3, NoneIsNew, Zenon
<1>5. entry' = [entry EXCEPT ![On(c)] = e] BY Zenon DEF Started
<1> HIDE DEF e
<1>6. /\ entry' \in [Sandbox -> Entry \cup {None}] /\ entry'[On(c)] = e
      /\ \A s \in Sandbox \ {On(c)} : entry'[s] = entry[s]
  BY <1>0, <1>3, <1>5, Zenon DEF Shape
<1>7. /\ container' \in [Sandbox -> Container \cup {None}] /\ container'[On(c)].id = task[c].container
      /\ \A s \in Sandbox \ {On(c)} : container'[s] = container[s]
  BY <1>0, BecomesKeeps, Zenon DEF Holds
<1>8. Shape' BY <1>0, <1>2, <1>6, <1>7, Zenon DEF Shape, Moves
<1>9. Local(c) BY <1>2, <1>6, <1>7, Zenon DEF Local, Moves
<1>10. ~Running(c)' /\ Staged(c)' /\ task'[c].at \notin BusyStages
  BY <1>2, Zenon DEF Moves, Running, Ended, Staged, StartStages, StopStages, BusyStages
<1>11. On(c)' = On(c) BY <1>2, Zenon DEF Moves, On
<1>12. Owned(On(c))' BY <1>4, <1>6, <1>7, <1>11, Zenon DEF Owned
<1>13. Frozen(On(c))' BY <1>4, <1>6, <1>11, Zenon DEF Frozen
<1> QED BY <1>8, <1>9, <1>10, <1>12, <1>13, LocalSafe, Zenon DEF Holds

LEMMA StartContainerSafe ==
  ASSUME SafeInv, NEW c \in Task, StartContainer(c)
  PROVE  SafeInv'
<1>0. Shape BY DEF SafeInv
<1>1. task[c].at = "call start" /\ task[c].at \in StartStages BY Zenon DEF StartContainer, StartStages
<1>2. CASE /\ Holds(On(c), task[c].container) /\ Becomes(On(c), "running")
           /\ Started(c, task[c].container, task[c].port)
  BY <1>1, <1>2, StartedSafe, Zenon DEF StartContainer
<1>3. ASSUME NEW at \in {"undo", "undo and retry"}, Goto(c, at), UNCHANGED idleVars,
             UNCHANGED container \/ (Holds(On(c), task[c].container) /\ Becomes(On(c), "running"))
      PROVE  SafeInv'
  <2>1. at \in StartStages /\ at \in Stages BY Zenon DEF StartStages, Stages
  <2>2. Moves(c, at) /\ task'[c].container = task[c].container BY <1>0, <1>3, <2>1, GotoMoves, Zenon
  <2>3. /\ Daemon(c)
        /\ container'[On(c)] # None => container[On(c)] # None /\ container'[On(c)].id = container[On(c)].id
    BY <1>0, <1>1, <1>3, AtStart, BecomesKeeps, Zenon DEF Daemon, Holds, StartContainer, Shape
  <2>4. container'[On(c)] # None => On(c) \in excused' \/ task'[c].container = container'[On(c)].id
    <3>1. CASE task[c].container = container[On(c)].id BY <2>2, <2>3, <3>1, Zenon
    <3>2. CASE task[c].container # container[On(c)].id /\ container[On(c)] # None
      <4>1. On(c) \in excused BY <1>1, <3>2, NotHeld, Zenon
      <4> QED BY <1>1, <2>3, <4>1, AtStart, Zenon DEF Daemon
    <3> QED BY <2>3, <3>1, <3>2, Zenon
  <2> QED BY <1>1, <1>3, <2>1, <2>2, <2>3, <2>4, StartMoveSafe, Zenon DEF Holding, idleVars
<1> QED BY <1>2, <1>3, Zenon DEF StartContainer

LEMMA RollBackSafe ==
  ASSUME SafeInv, NEW c \in Task, RollBack(c)
  PROVE  SafeInv'
<1>0. Shape BY DEF SafeInv
<1>1. task[c].at \in StartStages BY Zenon DEF RollBack, StartStages
<1>2. Daemon(c) /\ (container'[On(c)] # None => On(c) \in excused')
  <2>1. CASE Holds(On(c), task[c].container) /\ Removed(On(c)) /\ UNCHANGED excused
    BY <1>0, <1>1, <2>1, AtStart, Zenon DEF RollBack, Daemon, Removed, Shape
  <2>2. CASE ~Holds(On(c), task[c].container) /\ UNCHANGED <<container, excused>>
    BY <1>0, <1>1, <2>2, NotHeld, Zenon DEF RollBack, Daemon, Holds, Shape
  <2>3. CASE UNCHANGED container /\ excused' = excused \cup {On(c)}
    BY <1>0, <2>3, Zenon DEF RollBack, Daemon, Shape
  <2> QED BY <2>1, <2>2, <2>3, Zenon DEF RollBack
<1>3. CASE StartFailed(c) BY <1>1, <1>2, <1>3, StartFailedSafe
<1>4. CASE Advance(c)
  <2>1. Moves(c, "allocate") /\ "allocate" \in StartStages BY <1>0, <1>4, AdvanceMoves DEF StartStages
  <2> QED BY <1>1, <1>2, <1>4, <2>1, StartMoveSafe, ZenonT(30) DEF Advance, idleVars
<1> QED BY <1>3, <1>4, Zenon DEF RollBack

LEMMA DeadlineSafe ==
  ASSUME SafeInv, NEW c \in Task, Deadline(c)
  PROVE  SafeInv'
<1>0. Shape /\ task[c] \in TaskRecord BY DEF SafeInv, Shape
<1>1. task[c].at \in StartStages
  <2>1. task[c].kind = "start" /\ Running(c) /\ task[c].at # "queued" BY Zenon DEF Deadline
  <2>2. task[c].at \in Stages /\ Staged(c) BY <1>0 DEF SafeInv, TaskRecord
  <2> QED BY <2>1, <2>2 DEF Running, Stages, BusyStages, Staged
<1>2. excused' = excused \cup {On(c)} /\ StartFailed(c) BY Zenon DEF Deadline
<1>3. Daemon(c)
  <2>1. CASE UNCHANGED <<container, created>> BY <1>0, <1>2, <2>1 DEF Daemon, Shape
  <2>2. CASE Created(On(c), task[c].port) BY <1>1, <1>2, <2>2, CreatedUnseen, ZenonT(60)
  <2>3. CASE Holds(On(c), task[c].container) /\ Becomes(On(c), "running") /\ UNCHANGED created
    BY <1>0, <1>1, <1>2, <2>3, AtStart, BecomesKeeps, ZenonT(30) DEF Holds, Daemon, Shape
  <2>4. CASE Removed(On(c)) /\ UNCHANGED created
    BY <1>0, <1>1, <1>2, <2>4, AtStart, ZenonT(30) DEF Removed, Daemon, Shape
  <2> QED BY <2>1, <2>2, <2>3, <2>4, Zenon DEF Deadline
<1> QED BY <1>1, <1>2, <1>3, StartFailedSafe, ZenonT(30)

-----------------------------------------------------------------------------
(* The steps of the other commands. *)

LEMMA AtBusy ==
  ASSUME SafeInv, NEW c \in Task, task[c].at \in BusyStages
  PROVE  /\ On(c) \in Sandbox /\ Running(c) /\ task[c].kind # "start"
         /\ task[c].at \in StopStages => task[c].kind = "stop"
         /\ task[c].at \in {"pause", "unpause"} => task[c].kind = task[c].at /\ c \in Command
         /\ c \in Command \/ process = "stopping"
<1>1. Staged(c) /\ task[c].at \notin Ended BY DEF SafeInv, BusyStages, StopStages, Ended
<1> QED BY <1>1 DEF SafeInv, Staged, Announced, Running, Ended, BusyStages, Task

LEMMA BusySafe ==
  ASSUME SafeInv, NEW c \in Task, task[c].at \in BusyStages, NEW at, Moves(c, at),
         \/ at \in {"halt", "remove"} /\ task[c].kind = "stop"
         \/ at = IF c = Main THEN "unsent" ELSE "done",
         UNCHANGED <<sent, doomed, process, created, excused>>,
         container' \in [Sandbox -> Container \cup {None}],
         \A s \in Sandbox \ {On(c)} : container'[s] = container[s],
         container'[On(c)] # None => container[On(c)] # None /\ container'[On(c)].id = container[On(c)].id,
         entry' \in [Sandbox -> Entry \cup {None}],
         \A s \in Sandbox \ {On(c)} : entry'[s] = entry[s],
         entry'[On(c)] # None => entry[On(c)] # None,
         entry[On(c)] # None /\ container'[On(c)] # None =>
           entry'[On(c)] # None /\ entry'[On(c)].container = entry[On(c)].container,
         task[c].kind = "stop" /\ at = "done" /\ task'[c].ok =>
           container'[On(c)] = None /\ entry'[On(c)] = None,
         Frozen(On(c))'
  PROVE  SafeInv'
<1> USE AtBusy
<1>1. Shape' BY ZenonT(60) DEF SafeInv, Shape, Moves
<1>2. Local(c) BY DEF Local, Moves
<1>3. Staged(c)'
  BY MainIsNoCommand, Zenon DEF Moves, Staged, StartStages, StopStages, SafeInv, Running, Ended
<1>4. On(c)' = On(c) BY Zenon DEF Moves, On
<1>5. Owned(On(c))'
  <2>1. ASSUME NEW d \in Command, Starting(d) PROVE On(d) # On(c) BY <2>1, Zenon DEF SafeInv, Busy
  <2> QED BY <1>4, <2>1, ZenonT(60) DEF SafeInv, Owned
<1> QED BY <1>1, <1>2, <1>3, <1>5, LocalSafe, Zenon DEF Moves

\* The entry after a command: its state may change, its container does not.
LEMMA EntryKeeps ==
  ASSUME Shape, NEW s \in Sandbox, entry[s] # None, NEW state \in {"running", "paused"},
         entry' = [entry EXCEPT ![s].state = state]
  PROVE  /\ entry' \in [Sandbox -> Entry \cup {None}]
         /\ \A t \in Sandbox \ {s} : entry'[t] = entry[t]
         /\ entry'[s] # None /\ entry'[s].container = entry[s].container /\ entry'[s].state = state
<1> DEFINE r == [entry[s] EXCEPT !.state = state]
<1>1. entry[s] \in Entry BY DEF Shape
<1>2. r \in Entry /\ r.container = entry[s].container /\ r.state = state BY <1>1, Zenon DEF Entry
<1>3. r # None BY <1>2, NoneIsNew
<1>4. entry' = [entry EXCEPT ![s] = r] OBVIOUS
<1> HIDE DEF r
<1> QED BY <1>2, <1>3, <1>4 DEF Shape

LEMMA PauseContainerSafe ==
  ASSUME SafeInv, NEW c \in Task, PauseContainer(c)
  PROVE  SafeInv'
<1>0. Shape BY DEF SafeInv
<1>1. /\ task[c].at \in BusyStages /\ On(c) \in Sandbox /\ task[c].kind = "pause" /\ c \in Command /\ c # Main
      /\ UNCHANGED <<created, excused>>
  BY AtBusy, MainIsNoCommand DEF PauseContainer, BusyStages
<1>2. PICK ok \in BOOLEAN :
        /\ Paused(c, ok)
        /\ \/ UNCHANGED container
           \/ container[On(c)] # None /\ Becomes(On(c), "paused")
        /\ ok => /\ container[On(c)] # None
                 /\ container[On(c)].state = "running" => Becomes(On(c), "paused")
  BY Zenon DEF PauseContainer, Holds
<1>3. Moves(c, "done") /\ UNCHANGED <<sent, doomed, process>>
  BY <1>0, <1>1, <1>2, ReturnMoves, ZenonT(30) DEF Paused
<1>4. /\ container' \in [Sandbox -> Container \cup {None}]
      /\ \A s \in Sandbox \ {On(c)} : container'[s] = container[s]
      /\ container'[On(c)] # None => container[On(c)] # None /\ container'[On(c)].id = container[On(c)].id
      /\ UNCHANGED container \/ container'[On(c)].state = "paused"
      /\ ok => container'[On(c)].state # "running"
  BY <1>0, <1>1, <1>2, BecomesKeeps, ZenonT(30) DEF Shape
<1>5. /\ entry' \in [Sandbox -> Entry \cup {None}]
      /\ \A s \in Sandbox \ {On(c)} : entry'[s] = entry[s]
      /\ entry'[On(c)] # None => entry[On(c)] # None
      /\ entry[On(c)] # None => entry'[On(c)] # None /\ entry'[On(c)].container = entry[On(c)].container
      /\ ~ok => UNCHANGED entry
  <2>1. CASE UNCHANGED entry BY <1>0, <2>1 DEF Shape
  <2>2. CASE ok /\ entry[On(c)] # None /\ entry' = [entry EXCEPT ![On(c)].state = "paused"]
    BY <1>0, <1>1, <2>2, EntryKeeps, Zenon
  <2> QED BY <1>2, <2>1, <2>2 DEF Paused
<1>6. Frozen(On(c))'
  <2>1. On(c)' = On(c) BY <1>3 DEF Moves, On
  <2>2. CASE container'[On(c)] = None \/ container'[On(c)].state # "running" BY <2>1, <2>2, ZenonT(60) DEF Frozen
  <2>3. CASE UNCHANGED <<container, entry>>
    <3>1. ASSUME NEW d \in Command, On(d) = On(c), task[d].kind \in {"unpause", "stop"}
          PROVE  task'[d] = task[d] /\ On(d)' = On(c)
      BY <1>1, <1>3, <3>1, MainIsNoCommand DEF Moves, On
    <3> QED BY <1>1, <1>3, <2>1, <2>3, <3>1, ZenonT(30) DEF SafeInv, Frozen, Running
  <2> QED BY <1>4, <1>5, <2>2, <2>3
<1> QED BY <1>1, <1>3, <1>4, <1>5, <1>6, BusySafe, Zenon

LEMMA UnpauseContainerSafe ==
  ASSUME SafeInv, NEW c \in Task, UnpauseContainer(c)
  PROVE  SafeInv'
<1>0. Shape BY DEF SafeInv
<1>1. /\ task[c].at \in BusyStages /\ On(c) \in Sandbox /\ task[c].kind = "unpause" /\ c \in Command /\ c # Main
      /\ UNCHANGED <<created, excused>>
  BY AtBusy, MainIsNoCommand, Zenon DEF UnpauseContainer, BusyStages
<1>2. PICK ok \in BOOLEAN :
        /\ Unpaused(c, ok)
        /\ \/ UNCHANGED container
           \/ container[On(c)] # None /\ Becomes(On(c), "running")
  BY Zenon DEF UnpauseContainer, Holds
<1>3. Moves(c, "done") /\ task'[c].ok = ok /\ UNCHANGED <<sent, doomed, process>>
  BY <1>0, <1>1, <1>2, ReturnMoves DEF Unpaused
<1>4. /\ container' \in [Sandbox -> Container \cup {None}]
      /\ \A s \in Sandbox \ {On(c)} : container'[s] = container[s]
      /\ container'[On(c)] # None => container[On(c)] # None /\ container'[On(c)].id = container[On(c)].id
  BY <1>0, <1>1, <1>2, BecomesKeeps, ZenonT(30) DEF Shape
<1>5. /\ entry' \in [Sandbox -> Entry \cup {None}]
      /\ \A s \in Sandbox \ {On(c)} : entry'[s] = entry[s]
      /\ entry'[On(c)] # None => entry[On(c)] # None
      /\ entry[On(c)] # None => entry'[On(c)] # None /\ entry'[On(c)].container = entry[On(c)].container
      /\ ok /\ entry'[On(c)] # None => entry'[On(c)].state = "running"
  <2>1. CASE UNCHANGED entry /\ ~ok BY <1>0, <2>1 DEF Shape
  <2>2. CASE ok /\ entry[On(c)] # None /\ entry' = [entry EXCEPT ![On(c)].state = "running"]
    BY <1>0, <1>1, <2>2, EntryKeeps, Zenon
  <2>3. CASE UNCHANGED entry /\ entry[On(c)] = None BY <1>0, <2>3 DEF Shape
  <2> QED BY <1>2, <2>1, <2>2, <2>3 DEF Unpaused
<1>6. Frozen(On(c))'
  <2>1. On(c)' = On(c) /\ task'[c].kind = "unpause" BY <1>1, <1>3, ZenonT(30) DEF Moves, On
  <2>2. CASE ok BY <1>5, <2>1, <2>2, ZenonT(30) DEF Frozen
  <2>3. CASE ~ok BY <1>1, <1>3, <2>1, <2>3 DEF Frozen
  <2> QED BY <2>2, <2>3, ZenonT(30)
<1> QED BY <1>1, <1>3, <1>4, <1>5, <1>6, BusySafe, Zenon

\* A stop, until it has returned an error or is the main task's, accounts for
\* an entry that says paused.
LEMMA StopFreezes ==
  ASSUME SafeInv, NEW c \in Task, task[c].at \in BusyStages, task[c].kind = "stop", process' = process,
         NEW at, Moves(c, at), at \in {"halt", "remove"} \/ ~task'[c].ok
  PROVE  Frozen(On(c))'
<1>1. CASE c \notin Command BY <1>1, AtBusy, ZenonT(30) DEF Frozen
<1>2. CASE c \in Command
  <2>1. On(c)' = On(c) /\ task'[c].kind = "stop" BY DEF Moves, On
  <2>2. Running(c)' \/ ~task'[c].ok BY DEF Moves, Running, Ended
  <2> QED BY <1>2, <2>1, <2>2 DEF Frozen
<1> QED BY <1>1, <1>2, ZenonT(60)

LEMMA StopMoveSafe ==
  ASSUME SafeInv, NEW c \in Task, task[c].at \in StopStages, NEW at \in {"halt", "remove"}, Goto(c, at),
         UNCHANGED <<idleVars, created, excused>>,
         NEW state \in {"running", "exited"},
         UNCHANGED container \/ (container[On(c)] # None /\ Becomes(On(c), state))
  PROVE  SafeInv'
<1>0. Shape BY ZenonT(30) DEF SafeInv
<1>1. task[c].at \in BusyStages /\ On(c) \in Sandbox /\ task[c].kind = "stop" BY AtBusy DEF BusyStages
<1>2. UNCHANGED <<entry, sent, doomed, process>> BY ZenonT(30) DEF idleVars
<1>3. Moves(c, at)
  <2>1. at \in Stages BY ZenonT(30) DEF Stages, BusyStages, StopStages
  <2> QED BY <1>0, <2>1, GotoMoves, ZenonT(30)
<1>4. /\ container' \in [Sandbox -> Container \cup {None}]
      /\ \A s \in Sandbox \ {On(c)} : container'[s] = container[s]
      /\ container'[On(c)] # None => container[On(c)] # None /\ container'[On(c)].id = container[On(c)].id
  BY <1>0, <1>1, BecomesKeeps DEF Shape
<1>5. Frozen(On(c))' BY <1>1, <1>2, <1>3, StopFreezes, Zenon
<1>6. entry' \in [Sandbox -> Entry \cup {None}] BY <1>0, <1>2 DEF Shape
<1> QED BY <1>1, <1>2, <1>3, <1>4, <1>5, <1>6, BusySafe, Zenon

LEMMA StopThawsSafe ==
  ASSUME SafeInv, NEW c \in Task, StopThaws(c)
  PROVE  SafeInv'
<1>1. task[c].at \in StopStages /\ Goto(c, "halt") /\ UNCHANGED <<idleVars, created, excused>>
  BY ZenonT(30) DEF StopThaws, StopStages
<1>2. UNCHANGED container \/ (container[On(c)] # None /\ Becomes(On(c), "running")) BY DEF StopThaws, Holds
<1> QED BY <1>1, <1>2, StopMoveSafe, ZenonT(30)

LEMMA StopHaltsSafe ==
  ASSUME SafeInv, NEW c \in Task, StopHalts(c)
  PROVE  SafeInv'
<1>1. task[c].at \in StopStages /\ Goto(c, "remove") /\ UNCHANGED <<idleVars, created, excused>>
  BY ZenonT(30) DEF StopHalts, StopStages
<1>2. UNCHANGED container \/ (container[On(c)] # None /\ Becomes(On(c), "exited")) BY DEF StopHalts, Holds
<1> QED BY <1>1, <1>2, StopMoveSafe, ZenonT(30)

LEMMA StopRemovesSafe ==
  ASSUME SafeInv, NEW c \in Task, StopRemoves(c)
  PROVE  SafeInv'
<1>0. Shape BY DEF SafeInv
<1>1. /\ task[c].at \in BusyStages /\ On(c) \in Sandbox /\ task[c].kind = "stop"
      /\ UNCHANGED <<created, excused>>
  BY AtBusy DEF StopRemoves, BusyStages, StopStages
<1>2. PICK ok \in BOOLEAN : Stopped(c, ok) /\ (Removed(On(c)) \/ (~ok /\ UNCHANGED container))
  BY Zenon DEF StopRemoves
<1>3. /\ Moves(c, IF c = Main THEN "unsent" ELSE "done") /\ task'[c].ok = ok
      /\ UNCHANGED <<sent, doomed, process>>
  BY <1>0, <1>1, <1>2, ReturnMoves DEF Stopped
<1>4. /\ container' \in [Sandbox -> Container \cup {None}]
      /\ \A s \in Sandbox \ {On(c)} : container'[s] = container[s]
      /\ container'[On(c)] = None \/ (~ok /\ container' = container)
  BY <1>0, <1>1, <1>2 DEF Shape, Removed
<1>5. /\ entry' \in [Sandbox -> Entry \cup {None}]
      /\ \A s \in Sandbox \ {On(c)} : entry'[s] = entry[s]
      /\ IF ok THEN entry'[On(c)] = None ELSE entry' = entry
  BY <1>0, <1>1, <1>2, ZenonT(30) DEF Shape, Stopped
<1>6. Frozen(On(c))'
  <2>1. On(c)' = On(c) BY <1>3, ZenonT(30) DEF Moves, On
  <2>2. CASE ok BY <1>5, <2>1, <2>2, ZenonT(30) DEF Frozen
  <2>3. CASE ~ok BY <1>1, <1>3, <2>3, StopFreezes
  <2> QED BY <2>2, <2>3
<1> QED BY <1>1, <1>3, <1>4, <1>5, <1>6, BusySafe, Zenon

-----------------------------------------------------------------------------
(* The manager's steps: a task that leaves the queue of its lock. *)

LEMMA QueueSafe ==
  ASSUME SafeInv, NEW c \in Task, task[c].at = "queued", NEW at, Moves(c, at),
         UNCHANGED <<entry, sent, doomed, process, container, created, excused>>,
         \/ at = "create" /\ task[c].kind = "start"
         \/ at = task[c].kind /\ task[c].kind # "start" /\ entry[On(c)] # None
         \/ /\ at = IF c = Main THEN "unsent" ELSE "done"
            /\ task[c].kind # "start"
            /\ entry[On(c)] = None \/ task[c].kind # "stop"
            /\ task[c].kind = "stop" => ~task'[c].ok
            /\ entry[On(c)] # None /\ task[c].kind = "unpause" => entry[On(c)].state # "paused"
  PROVE  SafeInv'
<1>0. Running(c) /\ On(c) \in Sandbox /\ task[c].kind \in Kind
  BY ZenonT(60) DEF SafeInv, Announced, Running, Ended, Shape, TaskRecord
<1>1. Shape' BY ZenonT(60) DEF SafeInv, Shape, Moves
<1>2. Local(c) BY DEF Local, Moves
<1>3. Staged(c)'
  BY <1>0, MainIsNoCommand, Zenon DEF Moves, Staged, StartStages, StopStages, SafeInv, Kind, Running, Ended
<1>4. On(c)' = On(c) BY DEF Moves, On
<1>5. Owned(On(c))'
  <2>1. ASSUME NEW d \in Command, Starting(d), task[d].at \in Holding
        PROVE  task'[d] = task[d] /\ Starting(d)' /\ On(d)' = On(d)
    BY <2>1, MainIsNoCommand, Zenon DEF Moves, Holding, Starting, Running, On
  <2> QED BY <1>0, <1>4, <2>1, ZenonT(60) DEF SafeInv, Owned, Holding
<1>6. Frozen(On(c))'
  <2> SUFFICES ASSUME process = "up", entry[On(c)] # None, entry[On(c)].state = "paused"
               PROVE  \A d \in Command : On(d) = On(c) /\ task[d].kind \in {"unpause", "stop"} /\ (Running(d) \/ ~task[d].ok)
                        => On(d)' = On(c) /\ task'[d].kind = task[d].kind /\ (Running(d)' \/ ~task'[d].ok)
    BY <1>0, <1>4, Zenon DEF SafeInv, Frozen
  <2> SUFFICES ASSUME NEW d \in Command, On(d) = On(c), task[d].kind \in {"unpause", "stop"}, Running(d) \/ ~task[d].ok
               PROVE  On(d)' = On(c) /\ task'[d].kind = task[d].kind /\ (Running(d)' \/ ~task'[d].ok)
    BY Zenon
  <2>1. CASE d # c BY <2>1, MainIsNoCommand DEF Moves, On, Running
  <2>2. CASE d = c BY <2>2, Zenon DEF Moves, On, Running, Ended
  <2> QED BY <2>1, <2>2, Zenon
<1>7. /\ task[c].kind = "stop" /\ task'[c].at = "done" => ~task'[c].ok
      /\ task'[c].at \in BusyStages => entry[On(c)] # None
  BY ZenonT(60) DEF Moves, BusyStages, StopStages
<1> QED BY <1>0, <1>1, <1>2, <1>3, <1>5, <1>6, <1>7, LocalSafe, Zenon

LEMMA StartBeginsSafe ==
  ASSUME SafeInv, NEW c \in Task, StartBegins(c), UNCHANGED dockerVars
  PROVE  SafeInv'
<1>1. Shape /\ "create" \in Stages BY DEF SafeInv, Stages, StartStages
<1>2. Moves(c, "create") BY <1>1, GotoMoves, ZenonT(60) DEF StartBegins
<1> QED BY <1>2, QueueSafe, ZenonT(60) DEF StartBegins, dockerVars

LEMMA ReturnsAtOnceSafe ==
  ASSUME SafeInv, NEW c \in Task, ReturnsAtOnce(c), UNCHANGED dockerVars
  PROVE  SafeInv'
<1>1. Shape BY DEF SafeInv
<1>2. PICK ok \in BOOLEAN :
        /\ Return(c, ok)
        /\ IF ok THEN entry[On(c)] # None /\ AlreadyThere(c) ELSE entry[On(c)] = None
  BY Zenon DEF ReturnsAtOnce
<1>3. /\ Moves(c, IF c = Main THEN "unsent" ELSE "done") /\ task'[c].ok = ok
      /\ UNCHANGED <<sent, doomed, process>>
  BY <1>1, <1>2, ReturnMoves, ZenonT(30)
<1>4. /\ entry[On(c)] = None \/ task[c].kind # "stop"
      /\ task[c].kind = "stop" => ~ok
      /\ entry[On(c)] # None /\ task[c].kind = "unpause" => entry[On(c)].state # "paused"
  BY <1>2, ZenonT(30) DEF AlreadyThere
<1>5. task[c].at = "queued" /\ task[c].kind # "start" /\ UNCHANGED <<entry, container, created, excused>>
  BY DEF ReturnsAtOnce, dockerVars
<1> QED BY <1>3, <1>4, <1>5, QueueSafe

LEMMA CallsRuntimeSafe ==
  ASSUME SafeInv, NEW c \in Task, CallsRuntime(c), UNCHANGED dockerVars
  PROVE  SafeInv'
<1> DEFINE r == [task[c] EXCEPT !.at = task[c].kind, !.container = entry[On(c)].container]
<1>1. Shape /\ task[c] \in TaskRecord BY DEF SafeInv, Shape
<1>2. On(c) \in Sandbox BY DEF SafeInv, Announced, CallsRuntime
<1>3. entry[On(c)].container \in Nat \cup Sandbox \cup {None}
  BY <1>1, <1>2 DEF CallsRuntime, Shape, Entry
<1>4. task[c].kind \in Stages
  BY <1>1 DEF CallsRuntime, TaskRecord, Kind, Stages, BusyStages, StopStages
<1>5. r \in TaskRecord /\ r.at = task[c].kind /\ r.kind = task[c].kind /\ r.sandbox = task[c].sandbox
  BY <1>1, <1>3, <1>4, Zenon DEF TaskRecord
<1>6. task' = [task EXCEPT ![c] = r] BY <1>1, Zenon DEF CallsRuntime, Shape
<1> HIDE DEF r
<1>7. Moves(c, task[c].kind) BY <1>1, <1>5, <1>6, Updated, Zenon
<1> QED BY <1>7, QueueSafe, ZenonT(30) DEF CallsRuntime, dockerVars

-----------------------------------------------------------------------------
(* The stream, the process and the daemon. *)

LEMMA StartsKept ==
  ASSUME Starts, UNCHANGED entry, \A d \in Command : Starting(d)' => Starting(d) /\ On(d)' = On(d)
  PROVE  Starts'
<1> SUFFICES ASSUME NEW d \in Command, Starting(d)'
             PROVE  entry'[On(d)'] = None /\ \A e \in Command : Starting(e)' /\ On(e)' = On(d)' => e = d
  BY Zenon DEF Starts
<1>1. Starting(d) /\ On(d)' = On(d) BY Zenon
<1>2. entry'[On(d)'] = None BY <1>1, Zenon DEF Starts
<1>3. \A e \in Command : Starting(e)' /\ On(e)' = On(d)' => e = d BY <1>1, Zenon DEF Starts
<1> QED BY <1>2, <1>3

LEMMA GoneKept ==
  ASSUME NEW s \in Sandbox, Gone(s),
         \A d \in Command : task'[d].kind = "stop" /\ task'[d].at = "done" /\ task'[d].ok /\ On(d)' = s =>
                              task[d].kind = "stop" /\ task[d].at = "done" /\ task[d].ok /\ On(d) = s,
         \A d \in Command : Starting(d)' /\ On(d)' = s => Starting(d) /\ On(d) = s,
         container[s] = None => container'[s] = None, entry[s] = None => entry'[s] = None
  PROVE  Gone(s)'
BY Zenon DEF Gone

LEMMA ReceiveSafe ==
  ASSUME SafeInv, NEW c \in Command, NEW k \in Kind, NEW s \in Sandbox, NEW g \in Config,
         Receive(c, k, s, g), UNCHANGED dockerVars
  PROVE  SafeInv'
<1>a. Shape /\ Announced /\ Starts /\ Busy BY DEF SafeInv
<1>b. \A d \in Task : Staged(d) BY DEF SafeInv
<1>c. \A t \in Sandbox : Owned(t) /\ Frozen(t) /\ Gone(t) BY DEF SafeInv
<1> DEFINE r == [Idle EXCEPT !.kind = k, !.sandbox = s, !.at = "queued", !.config = g]
<1>0. c \in Task /\ c # Main /\ task[c].at = "unsent" /\ process = "up" BY MainIsNoCommand DEF Receive
<1>1. r \in TaskRecord /\ r.at = "queued" /\ r.kind = k /\ r.sandbox = s
  <2>1. "queued" \in Stages BY DEF Stages
  <2> QED BY <2>1, Zenon DEF TaskRecord, Idle
<1>2. task' = [task EXCEPT ![c] = r] BY DEF Receive
<1>3. UNCHANGED <<entry, doomed, process, container, created, excused>> BY DEF Receive, dockerVars
<1>4. sent' = [sent EXCEPT ![s] = "here"] /\ Sendable(k, s) BY DEF Receive
<1> HIDE DEF r
<1>5. /\ task' \in [Task -> TaskRecord]
      /\ \A d \in Task \ {c} : task'[d] = task[d] /\ On(d)' = On(d)
      /\ task'[c].at = "queued" /\ task'[c].kind = k /\ On(c)' = s
  BY <1>a, <1>0, <1>1, <1>2, ZenonT(60) DEF Shape, On
<1>6. Shape' BY <1>a, <1>3, <1>4, <1>5, ZenonT(60) DEF Shape
<1>7. Announced' BY <1>a, <1>3, <1>4, <1>5 DEF Shape, Announced
<1>8. \A d \in Task : Staged(d)' BY <1>b, <1>0, <1>3, <1>5, ZenonT(60) DEF Staged, StartStages, StopStages, Running
<1>9. \A d \in Command \ {c} : Starting(d)' <=> Starting(d)
  BY <1>5, MainIsNoCommand, Zenon DEF Starting, Running
<1>10. ASSUME k = "start"
       PROVE  entry[s] = None /\ \A d \in Task : task[d].at # "unsent" => On(d) # s
  <2>1. sent[s] = "never" BY <1>4, <1>10, Zenon DEF Sendable
  <2> QED BY <1>a, <2>1, Zenon DEF Announced
<1>11. Starts'
  <2>1. \A d \in Command \ {c} : Starting(d) => ~(k = "start" /\ On(d) = s)
    BY <1>10, MainIsNoCommand, Zenon DEF Starting, Running, Ended
  <2>2. Starting(c)' => k = "start" BY <1>5 DEF Starting
  <2> SUFFICES ASSUME NEW d \in Command, Starting(d)'
               PROVE  entry'[On(d)'] = None /\ \A e \in Command : Starting(e)' /\ On(e)' = On(d)' => e = d
    BY Zenon DEF Starts
  <2>3. \A e \in Command \ {c} : Starting(e)' => Starting(e) /\ On(e)' = On(e) BY <1>5, <1>9, MainIsNoCommand, Zenon
  <2>4. CASE d = c
    <3>1. k = "start" /\ On(d)' = s BY <1>5, <2>2, <2>4, Zenon
    <3>2. \A e \in Command \ {c} : Starting(e)' => On(e)' # s BY <2>1, <2>3, <3>1, Zenon
    <3> QED BY <1>3, <1>10, <2>4, <3>1, <3>2, Zenon
  <2>5. CASE d # c
    <3>1. Starting(d) /\ On(d)' = On(d) BY <2>3, <2>5, Zenon
    <3>2. entry'[On(d)'] = None BY <1>a, <1>3, <3>1, Zenon DEF Starts
    <3>3. Starting(c)' => On(c)' # On(d)' BY <1>5, <2>1, <2>2, <2>5, <3>1, Zenon
    <3>4. \A e \in Command \ {c} : Starting(e)' /\ On(e)' = On(d)' => e = d BY <1>a, <2>3, <3>1, Zenon DEF Starts
    <3> QED BY <3>2, <3>3, <3>4, Zenon
  <2> QED BY <2>4, <2>5, Zenon
<1>12. Busy'
  <2> SUFFICES ASSUME NEW e \in Task, NEW d \in Command, task'[e].at \in BusyStages, Starting(d)'
               PROVE  On(d)' # On(e)'
    BY <1>a, Zenon DEF Busy
  <2>1. e # c /\ task[e].at \in BusyStages /\ On(e)' = On(e) /\ task[e].at # "unsent"
    BY <1>5, Zenon DEF BusyStages, StopStages
  <2>2. CASE d = c BY <1>5, <1>10, <2>1, <2>2, Zenon DEF Starting
  <2>3. CASE d # c BY <1>a, <1>5, <1>9, <2>1, <2>3, MainIsNoCommand, Zenon DEF Busy
  <2> QED BY <2>2, <2>3
<1>13. ASSUME NEW t \in Sandbox PROVE Owned(t)'
  <2>1. ASSUME NEW d \in Command, Starting(d)
        PROVE  d # c /\ task'[d] = task[d] /\ Starting(d)' /\ On(d)' = On(d)
    BY <1>0, <1>5, <1>9, <2>1, MainIsNoCommand, Zenon DEF Starting, Running, Ended
  <2> QED BY <1>c, <1>3, <2>1, Zenon DEF Owned
<1>14. ASSUME NEW t \in Sandbox PROVE Frozen(t)'
  <2>1. task[c].kind = "start" BY <1>b, <1>0, Zenon DEF Staged
  <2>2. ASSUME NEW d \in Command, task[d].kind \in {"unpause", "stop"}
        PROVE  task'[d] = task[d] /\ On(d)' = On(d)
    BY <1>5, <2>1, <2>2, MainIsNoCommand, Zenon
  <2> QED BY <1>c, <1>3, <2>2, Zenon DEF Frozen, Running
<1>15. ASSUME NEW t \in Sandbox PROVE Gone(t)'
  <2> SUFFICES ASSUME NEW d \in Command, task'[d].kind = "stop", task'[d].at = "done", task'[d].ok, On(d)' = t
               PROVE  /\ container[t] = None /\ entry[t] = None
                      /\ \A e \in Command : Starting(e)' => On(e)' # t
    BY <1>c, <1>3, Zenon DEF Gone
  <2>1. d \in Task /\ d # c /\ task'[d] = task[d] /\ On(d) = t BY <1>5, MainIsNoCommand, Zenon
  <2>2. /\ container[t] = None /\ entry[t] = None
        /\ \A e \in Command : Starting(e) => On(e) # t
    BY <1>c, <2>1 DEF Gone
  <2>3. Starting(c)' => s # t BY <1>5, <1>10, <2>1, Zenon DEF Starting
  <2> QED BY <1>5, <1>9, <2>2, <2>3, MainIsNoCommand, Zenon
<1> QED BY <1>6, <1>7, <1>8, <1>11, <1>12, <1>13, <1>14, <1>15, ZenonT(30) DEF SafeInv

LEMMA ShutdownBeginsSafe ==
  ASSUME SafeInv, ShutdownBegins, UNCHANGED dockerVars
  PROVE  SafeInv'
<1>a. Shape /\ Announced /\ Starts /\ Busy BY DEF SafeInv
<1>b. \A c \in Task : Staged(c) BY DEF SafeInv
<1>c. \A s \in Sandbox : Owned(s) /\ Frozen(s) /\ Gone(s) BY DEF SafeInv
<1>1. UNCHANGED <<entry, task, sent, container, created, excused>>
  BY DEF ShutdownBegins, dockerVars
<1>2. process' = "stopping" /\ doomed' \subseteq Sandbox /\ \A s \in doomed' : entry[s] # None
  BY DEF ShutdownBegins
<1>3. \A c \in Task : (Running(c)' <=> Running(c)) /\ On(c)' = On(c) /\ (Starting(c)' <=> Starting(c))
  BY <1>1 DEF Running, On, Starting
<1>4. Shape' /\ Announced' BY <1>a, <1>1, <1>2, <1>3, ZenonT(60) DEF Shape, Announced
<1>5. \A c \in Task : Staged(c)' BY <1>b, <1>1, <1>2, <1>3, ZenonT(30) DEF Staged
<1>6. Starts' /\ Busy' BY <1>a, <1>1, <1>3, MainIsNoCommand DEF Starts, Busy
<1>7. ASSUME NEW s \in Sandbox PROVE Owned(s)' /\ Frozen(s)' /\ Gone(s)'
  <2>1. Owned(s)' BY <1>c, <1>1, <1>3, MainIsNoCommand, Zenon DEF Owned
  <2>2. Frozen(s)' BY <1>c, <1>2, ZenonT(60) DEF Frozen
  <2>3. Gone(s)' BY <1>c, <1>1, <1>3, MainIsNoCommand, GoneKept, ZenonT(60)
  <2> QED BY <2>1, <2>2, <2>3
<1> QED BY <1>4, <1>5, <1>6, <1>7 DEF SafeInv

LEMMA ShutdownStopsSafe ==
  ASSUME SafeInv, NEW s \in Sandbox, ShutdownStops(s), UNCHANGED dockerVars
  PROVE  SafeInv'
<1>a. Shape /\ Announced /\ Starts /\ Busy BY DEF SafeInv
<1>b. \A c \in Task : Staged(c) BY DEF SafeInv
<1>c. \A t \in Sandbox : Owned(t) /\ Frozen(t) /\ Gone(t) BY DEF SafeInv
<1> DEFINE r == [Idle EXCEPT !.kind = "stop", !.sandbox = s, !.at = "queued"]
<1>1. r \in TaskRecord /\ r.at = "queued" /\ r.kind = "stop" /\ r.sandbox = s
  <2>1. "queued" \in Stages BY DEF Stages
  <2> QED BY <2>1, Zenon DEF TaskRecord, Idle, Kind, Config, NoConfig
<1>2. task' = [task EXCEPT ![Main] = r] BY DEF ShutdownStops
<1>3. UNCHANGED <<entry, sent, process, container, created, excused>> BY DEF ShutdownStops, dockerVars
<1>4. doomed' \subseteq doomed /\ s \in doomed /\ process = "stopping" BY ZenonT(30) DEF ShutdownStops
<1> HIDE DEF r
<1>5. /\ task' \in [Task -> TaskRecord]
      /\ \A d \in Command : task'[d] = task[d] /\ On(d)' = On(d)
      /\ Main \in Task /\ task'[Main].at = "queued" /\ task'[Main].kind = "stop" /\ On(Main)' = s
  BY <1>a, <1>1, <1>2, MainIsNoCommand DEF Shape, On, Task
<1>6. \A d \in Command : (Starting(d)' <=> Starting(d)) /\ (Running(d)' <=> Running(d))
  BY <1>5, Zenon DEF Starting, Running
<1>7. Shape' BY <1>a, <1>3, <1>4, <1>5 DEF Shape
<1>8. Announced' BY <1>a, <1>3, <1>4, <1>5, Zenon DEF Announced, Task
<1>9. ASSUME NEW d \in Task PROVE Staged(d)'
  <2>1. CASE d = Main
    BY <1>b, <1>3, <1>4, <1>5, <2>1, MainIsNoCommand, Zenon DEF Staged, StartStages, StopStages, Running, Ended
  <2>2. CASE d \in Command BY <1>b, <1>5, <2>2, MainIsNoCommand, Zenon DEF Staged
  <2> QED BY <2>1, <2>2 DEF Task
<1>10. Starts' BY <1>a, <1>3, <1>5, <1>6, StartsKept, ZenonT(60)
<1>11. Busy' BY <1>a, <1>5, <1>6 DEF Busy, Task, BusyStages, StopStages
<1>12. ASSUME NEW t \in Sandbox PROVE Owned(t)' /\ Frozen(t)' /\ Gone(t)'
  <2>1. Owned(t)' BY <1>c, <1>3, <1>5, <1>6, Zenon DEF Owned
  <2>2. Frozen(t)' BY <1>c, <1>3, <1>4, ZenonT(60) DEF Frozen
  <2>3. Gone(t)'
    <3>1. \A d \in Command : Starting(d)' /\ On(d)' = t => Starting(d) /\ On(d) = t BY <1>5, <1>6, Zenon
    <3> QED BY <1>c, <1>3, <1>5, <3>1, GoneKept, ZenonT(60)
  <2> QED BY <2>1, <2>2, <2>3
<1> QED BY <1>7, <1>8, <1>9, <1>10, <1>11, <1>12 DEF SafeInv

Rests(k, s, at) == [Idle EXCEPT !.kind = k, !.sandbox = s, !.at = at]

LEMMA RestsIsTask ==
  ASSUME NEW k \in Kind, NEW s \in Sandbox \cup {None}, NEW at \in Stages
  PROVE  /\ Rests(k, s, at) \in TaskRecord /\ Rests(k, s, at).kind = k
         /\ Rests(k, s, at).sandbox = s /\ Rests(k, s, at).at = at
BY Zenon DEF Rests, TaskRecord, Idle, Config, NoConfig

\* The process ends: what it had in its table or was working on is excused.
LEMMA ProcessEndsSafe ==
  ASSUME SafeInv, ProcessEnds, excused' = excused \cup Unfinished, UNCHANGED <<container, created>>
  PROVE  SafeInv'
<1>a. Shape /\ Announced /\ Starts /\ Busy BY DEF SafeInv
<1>b. \A c \in Task : Staged(c) BY DEF SafeInv
<1>c. \A s \in Sandbox : Owned(s) /\ Frozen(s) /\ Gone(s) BY DEF SafeInv
<1> DEFINE r(c) == [Idle EXCEPT !.kind = task[c].kind, !.sandbox = On(c),
                                !.at = IF c = Main THEN "unsent" ELSE "lost"]
<1>1. ASSUME NEW c \in Task
      PROVE  /\ r(c) \in TaskRecord /\ r(c).kind = task[c].kind /\ r(c).sandbox = task[c].sandbox
             /\ r(c).at = IF c = Main THEN "unsent" ELSE "lost"
  <2> DEFINE at == IF c = Main THEN "unsent" ELSE "lost"
  <2>1. at \in Stages /\ task[c] \in TaskRecord BY <1>a DEF Stages, Ended, Shape
  <2>2. task[c].kind \in Kind /\ On(c) \in Sandbox \cup {None} BY <2>1 DEF TaskRecord, On
  <2> HIDE DEF at
  <2> DEFINE k == task[c].kind
             u == On(c)
  <2>3. r(c) = Rests(k, u, at) BY DEF Rests, at
  <2>4. k \in Kind /\ u \in Sandbox \cup {None} BY <2>2
  <2> HIDE DEF r, k, u
  <2>5. /\ Rests(k, u, at) \in TaskRecord /\ Rests(k, u, at).kind = k
        /\ Rests(k, u, at).sandbox = u /\ Rests(k, u, at).at = at
    BY <2>1, <2>4, RestsIsTask
  <2> QED BY <2>3, <2>5, Zenon DEF at, k, u, On
<1>2. task' = [c \in Task |-> IF Running(c) THEN r(c) ELSE task[c]] BY Zenon DEF ProcessEnds
<1> HIDE DEF r
<1>3. /\ task' \in [Task -> TaskRecord]
      /\ \A c \in Task : /\ task'[c].kind = task[c].kind /\ On(c)' = On(c)
                         /\ Running(c) => task'[c].at = IF c = Main THEN "unsent" ELSE "lost"
                         /\ ~Running(c) => task'[c] = task[c]
  BY <1>a, <1>1, <1>2, ZenonT(60) DEF Shape, On
<1>4. \A c \in Task : ~Running(c)' BY <1>3 DEF Running, Ended
<1>5. /\ entry' = [s \in Sandbox |-> None] /\ doomed' = {} /\ process' = "up"
      /\ sent' \in [Sandbox -> {"never", "here", "before"}]
      /\ \A s \in Sandbox : sent[s] # "never" => sent'[s] # "never"
  BY <1>a, Zenon DEF ProcessEnds, Shape
<1>6. Shape' BY <1>a, <1>3, <1>5, ZenonT(60) DEF Shape
<1>7. Announced' BY <1>a, <1>3, <1>5 DEF Announced, Running, Ended
<1>8. ASSUME NEW c \in Task PROVE Staged(c)'
  <2>1. CASE Running(c) BY <1>b, <1>3, <1>4, <2>1, MainIsNoCommand, Zenon DEF Staged, StartStages, StopStages
  <2>2. CASE ~Running(c) BY <1>b, <1>3, <1>4, <2>2, ZenonT(60) DEF Staged, Running
  <2> QED BY <2>1, <2>2
<1>9. Starts' /\ Busy' BY <1>a, <1>4, MainIsNoCommand, Zenon DEF Starts, Busy, Starting
<1>10. ASSUME NEW s \in Sandbox PROVE Owned(s)' /\ Frozen(s)' /\ Gone(s)'
  <2>1. container[s] # None => s \in excused'
    BY <1>c, Zenon DEF Owned, Unfinished, Starting
  <2>2. Owned(s)' BY <1>c, <2>1, Zenon DEF Owned
  <2>3. Frozen(s)' BY <1>c, <1>5, ZenonT(60) DEF Frozen
  <2>4. Gone(s)'
    <3>1. \A d \in Command : ~Starting(d)' BY <1>4, MainIsNoCommand, Zenon DEF Starting
    <3>2. ASSUME NEW d \in Command, task'[d].at = "done" PROVE task'[d] = task[d] /\ On(d)' = On(d)
      BY <1>3, <3>2, MainIsNoCommand
    <3> QED BY <1>c, <1>5, <3>1, <3>2, GoneKept, ZenonT(60)
  <2> QED BY <2>2, <2>3, <2>4
<1> QED BY <1>6, <1>7, <1>8, <1>9, <1>10, ZenonT(30) DEF SafeInv

LEMMA ProcessStepSafe ==
  ASSUME SafeInv, ProcessStep
  PROVE  SafeInv'
<1>1. CASE (ShutdownDone \/ Crash) /\ excused' = excused \cup Unfinished /\ UNCHANGED <<container, image, created>>
  BY <1>1, ProcessEndsSafe DEF ShutdownDone, Crash
<1>2. CASE (ShutdownBegins \/ \E s \in Sandbox : ShutdownStops(s)) /\ UNCHANGED dockerVars
  BY <1>2, ShutdownBeginsSafe, ShutdownStopsSafe
<1> QED BY <1>1, <1>2 DEF ProcessStep

\* Nothing but containers changes, and those keep their ids.
LEMMA DaemonSafe ==
  ASSUME SafeInv, UNCHANGED <<entry, task, sent, doomed, process, created, excused>>,
         container' \in [Sandbox -> Container \cup {None}],
         \A s \in Sandbox : /\ container'[s] # None => container[s] # None
                            /\ container[s] # None => container'[s].id = container[s].id
                            /\ container'[s] # container[s] => container'[s].state # "running"
  PROVE  SafeInv'
<1>a. Shape /\ Announced /\ Starts /\ Busy BY DEF SafeInv
<1>b. \A c \in Task : Staged(c) BY ZenonT(30) DEF SafeInv
<1>c. \A s \in Sandbox : Owned(s) /\ Frozen(s) /\ Gone(s) BY DEF SafeInv
<1>1. \A c \in Task : (Running(c)' <=> Running(c)) /\ On(c)' = On(c) /\ (Starting(c)' <=> Starting(c))
  BY ZenonT(60) DEF Running, On, Starting
<1>2. Shape' /\ Announced' BY <1>a, <1>1 DEF Shape, Announced
<1>3. \A c \in Task : Staged(c)' BY <1>b, <1>1, Zenon DEF Staged
<1>4. Starts' /\ Busy'
  <2>1. Starts' BY <1>a, <1>1, MainIsNoCommand, StartsKept
  <2>2. Busy' BY <1>a, <1>1, MainIsNoCommand, Zenon DEF Busy
  <2> QED BY <2>1, <2>2, ZenonT(60)
<1>5. ASSUME NEW s \in Sandbox PROVE Owned(s)' /\ Frozen(s)' /\ Gone(s)'
  <2>1. Owned(s)' BY <1>c, <1>1, MainIsNoCommand, ZenonT(60) DEF Owned
  <2>2. Frozen(s)' BY <1>c, <1>1, MainIsNoCommand, Zenon DEF Frozen
  <2>3. Gone(s)' BY <1>c, <1>1, MainIsNoCommand, GoneKept, ZenonT(60)
  <2> QED BY <2>1, <2>2, <2>3
<1> QED BY <1>2, <1>3, <1>4, <1>5, Zenon DEF SafeInv

LEMMA ContainerExitsSafe ==
  ASSUME SafeInv, NEW s \in Sandbox, ContainerExits(s)
  PROVE  SafeInv'
<1>1. UNCHANGED <<entry, task, sent, doomed, process, created, excused>> BY DEF ContainerExits, managerVars
<1>2. Shape BY DEF SafeInv
<1> QED BY <1>1, <1>2, BecomesKeeps, DaemonSafe, Zenon DEF ContainerExits

-----------------------------------------------------------------------------
LEMMA InitSafe == Init => SafeInv
<1> SUFFICES ASSUME Init PROVE SafeInv OBVIOUS
<1>1. Idle \in TaskRecord /\ Idle.at = "unsent" /\ Idle.kind = "start"
  BY Zenon DEF Idle, TaskRecord, Stages, Ended, Kind, Config, NoConfig
<1>2. \A c \in Task : task[c].at = "unsent" /\ task[c].kind = "start" /\ ~Running(c)
  BY <1>1 DEF Init, ManagerInit, Running, Ended
<1>3. Shape BY <1>1 DEF Init, ManagerInit, Shape
<1>4. Announced BY <1>2, ZenonT(30) DEF Init, ManagerInit, Announced
<1>5. Starts /\ Busy BY <1>2, MainIsNoCommand DEF Starts, Busy, Starting
<1>6. \A c \in Task : Staged(c) BY <1>2, Zenon DEF Staged, StartStages, StopStages
<1>7. \A s \in Sandbox : Owned(s) /\ Frozen(s) /\ Gone(s)
  BY <1>2, MainIsNoCommand, Zenon DEF Init, ManagerInit, Owned, Frozen, Gone
<1> QED BY <1>3, <1>4, <1>5, <1>6, <1>7 DEF SafeInv

LEMMA StepSafe == SafeInv /\ [Next]_vars => SafeInv'
<1> SUFFICES ASSUME SafeInv, [Next]_vars PROVE SafeInv' OBVIOUS
<1>1. CASE UNCHANGED <<managerVars, container, created, excused>>
  <2>1. UNCHANGED <<entry, task, sent, doomed, process, container, created, excused>> BY <1>1 DEF managerVars
  <2>2. container \in [Sandbox -> Container \cup {None}] BY DEF SafeInv, Shape
  <2> QED BY <2>1, <2>2, DaemonSafe
<1>2. ASSUME NEW c \in Command, NEW k \in Kind, NEW s \in Sandbox, NEW g \in Config,
             Receive(c, k, s, g), UNCHANGED dockerVars
      PROVE  SafeInv'
  BY <1>2, ReceiveSafe, ZenonT(60)
<1>3. ASSUME NEW c \in Task, TaskStep(c) PROVE SafeInv'
  <2>1. CASE (StartBegins(c) \/ ReturnsAtOnce(c) \/ CallsRuntime(c)) /\ UNCHANGED dockerVars
    BY <2>1, StartBeginsSafe, ReturnsAtOnceSafe, CallsRuntimeSafe
  <2>2. CASE ProbeImage(c) \/ PullDone(c) \/ PullAgain(c) \/ PullGivesUp(c) BY <2>2, ImageSafe
  <2>3. CASE AllocatePort(c) BY <2>3, AllocatePortSafe
  <2>4. CASE CreateContainer(c) BY <2>4, CreateContainerSafe, ZenonT(60)
  <2>5. CASE EvictName(c) BY <2>5, EvictNameSafe
  <2>6. CASE RecreateContainer(c) BY <2>6, RecreateContainerSafe
  <2>7. CASE StartContainer(c) BY <2>7, StartContainerSafe
  <2>8. CASE RollBack(c) BY <2>8, RollBackSafe
  <2>9. CASE Deadline(c) BY <2>9, DeadlineSafe
  <2>10. CASE PauseContainer(c) BY <2>10, PauseContainerSafe
  <2>11. CASE UnpauseContainer(c) BY <2>11, UnpauseContainerSafe
  <2>12. CASE StopThaws(c) BY <2>12, StopThawsSafe
  <2>13. CASE StopHalts(c) BY <2>13, StopHaltsSafe
  <2>14. CASE StopRemoves(c) BY <2>14, StopRemovesSafe
  <2> QED BY <1>3, <2>1, <2>2, <2>3, <2>4, <2>5, <2>6, <2>7, <2>8, <2>9, <2>10, <2>11, <2>12, <2>13, <2>14, ZenonT(60)
          DEF TaskStep, RuntimeStep
<1>4. ASSUME NEW s \in Sandbox, ContainerExits(s) PROVE SafeInv' BY <1>4, ContainerExitsSafe
<1>5. CASE ImagePruned BY <1>1, <1>5 DEF ImagePruned
<1>6. CASE ProcessStep BY <1>6, ProcessStepSafe
<1>7. CASE UNCHANGED vars BY <1>1, <1>7 DEF vars, dockerVars
<1> QED BY <1>2, <1>3, <1>4, <1>5, <1>6, <1>7 DEF Next

\* The inductive invariant of the docker agent.
THEOREM DockerSafe == Spec => []SafeInv
BY InitSafe, StepSafe, PTL DEF Spec

\* Whatever daemon, registry, deadline and process do, a container that no step
\* is on record for losing is named by its entry or held by its start: what
\* create_and_start's rollbacks and stop_and_remove are there for.
THEOREM NothingOrphaned == Spec => []NoOrphan
<1>1. SafeInv => NoOrphan BY Zenon DEF SafeInv, Owned, NoOrphan, Starting
<1> QED BY <1>1, DockerSafe, PTL

\* pause_sandbox and unpause_sandbox keep the entry and the container's state
\* together: an entry that says paused over a running container has an unpause
\* or a stop under way, or one that failed.
THEOREM PausedStaysFrozen == Spec => []PausedIsFrozen
<1>1. SafeInv => PausedIsFrozen BY ZenonT(60) DEF SafeInv, Frozen, PausedIsFrozen
<1> QED BY <1>1, DockerSafe, PTL

\* After stop_sandbox has returned success no queued command brings the
\* sandbox's container or entry back.
THEOREM StopIsFinal == Spec => []StoppedForGood
<1>1. SafeInv => StoppedForGood
  <2> SUFFICES ASSUME SafeInv, NEW c \in Command, task[c].kind = "stop", task[c].at = "done", task[c].ok
               PROVE  container[On(c)] = None /\ entry[On(c)] = None
    BY ZenonT(60) DEF StoppedForGood
  <2>1. On(c) \in Sandbox BY MainIsNoCommand DEF SafeInv, Announced
  <2> QED BY <2>1 DEF SafeInv, Gone
<1> QED BY <1>1, DockerSafe, PTL
=============================================================================
