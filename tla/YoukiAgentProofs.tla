-------------------------- MODULE YoukiAgentProofs --------------------------
(***************************************************************************)
(* What sandboxes of the youki runtime leave on the host, for any numbers  *)
(* of sandboxes, commands and restarts: the invariant SafeInv is inductive.*)
(***************************************************************************)
EXTENDS YoukiAgent, TLAPS

\* The provers of the leaves that name none, with their time limits in seconds.
USE SMTT(30), Z3T(30), ZenonT(30)

Early == {"create", "image", "bundle"}
Later == {"build", "bridge", "portmap", "start", "undo network", "undo container"}
StopStages == {"stop", "delete", "network", "directory"}
Stages == Ended \cup {"queued"} \cup Early \cup Later \cup StopStages \cup {"pause", "unpause"}

TaskRecord ==
  [kind : Kind, sandbox : Sandbox \cup {None}, at : Stages, ok : BOOLEAN, config : Config,
   container : Nat \cup Sandbox \cup {None}, port : Nat, attempt : Nat, pulls : Nat, known : BOOLEAN]

Lapses == {"bundle", "build", "port", "portmap", "del", "stop", "rollback", "deadline", "process"}

HostShape ==
  /\ bundle \subseteq Sandbox /\ state \subseteq Sandbox
  /\ address \subseteq Sandbox /\ metadata \subseteq Sandbox
  /\ init \in [Sandbox -> {"none", "created", "running", "paused"}]
  /\ lapse \in [Sandbox -> SUBSET Lapses]

Shape ==
  /\ entry \in [Sandbox -> Entry \cup {None}]
  /\ lock \in [Sandbox -> Task \cup {None}]
  /\ task \in [Task -> TaskRecord]
  /\ sent \in [Sandbox -> {"never", "here", "before"}]
  /\ doomed \subseteq Sandbox
  /\ HostShape

\* A task between taking the lock and returning.
Working(c) == Running(c) /\ task[c].at # "queued"
Starting(c) == Running(c) /\ task[c].kind = "start"

\* The main task only stops sandboxes.
Staged(c) ==
  /\ task[c].at \in Early \cup Later => task[c].kind = "start"
  /\ task[c].at \in StopStages => task[c].kind = "stop"
  /\ task[c].at \in {"pause", "unpause"} => task[c].kind = task[c].at
  /\ c = Main /\ task[c].at # "unsent" => task[c].kind = "stop"

\* Nothing is known of a sandbox before its start is received.
Announced ==
  /\ \A c \in Task : task[c].at # "unsent" => On(c) \in Sandbox /\ sent[On(c)] # "never"
  /\ \A s \in Sandbox : entry[s] # None \/ s \in doomed => sent[s] # "never"

\* There is one start of a sandbox, and no entry until it returns.
Starts ==
  \A c \in Command : Starting(c) =>
    /\ entry[On(c)] = None
    /\ \A d \in Command : Starting(d) /\ On(d) = On(c) => d = c

\* What works on a sandbox holds its lock, and what it works on is the entry's
\* container, of which a failed start has none.
Locked(c) == Working(c) =>
  /\ lock[On(c)] = c
  /\ task[c].kind # "start" => entry[On(c)] # None /\ task[c].container = entry[On(c)].container

Clean(s) == s \notin bundle /\ s \notin state /\ s \notin address

\* The host while a task works on a sandbox, by its stage.
Progress(c) ==
  LET s == On(c) IN
  /\ task[c].at \in Early \/ (task[c].at = "queued" /\ task[c].kind = "start") => Clean(s)
  /\ task[c].at = "build" => s \in bundle /\ s \notin state /\ s \notin address
  /\ task[c].at = "bridge" => s \in bundle /\ s \in state /\ s \notin address
  /\ task[c].at \in {"portmap", "start", "undo network"} => s \in bundle /\ s \in state /\ s \in address
  /\ task[c].at = "undo container" /\ s \in address => "portmap" \in lapse[s] \/ "del" \in lapse[s]
  /\ task[c].at = "delete" /\ entry[s].state # "failed" =>
       \/ "stop" \in lapse[s]
       \/ s \in bundle /\ s \in state /\ s \in address /\ (task[c].known \/ task[c].container = None)
  /\ task[c].at \in {"network", "directory"} => s \notin state /\ entry[s].state # "failed"
  /\ task[c].at = "directory" /\ s \in address => "del" \in lapse[s]

Open == Later \cup {"delete", "network", "directory"}

\* The host when no start and no stop is under way.
Abandoned(s) ==
  /\ s \in bundle => lapse[s] \cap {"bundle", "build", "port", "rollback", "stop", "deadline", "process"} # {}
  /\ s \in state => lapse[s] \cap {"build", "port", "rollback", "deadline", "process"} # {}
  /\ s \in address => lapse[s] \cap {"portmap", "del", "stop", "deadline", "process"} # {}
Whole(s) ==
  \/ "stop" \in lapse[s]
  \/ s \in bundle /\ s \in state /\ s \in address /\ s \in metadata /\ init[s] = entry[s].state
Settled(s) ==
  IF entry[s] = None \/ entry[s].state = "failed" THEN Abandoned(s) ELSE Whole(s)

Host(s) ==
  /\ sent[s] = "never" => Clean(s)
  /\ entry[s] # None /\ entry[s].state = "failed" => entry[s].container = None
  /\ Settled(s) \/ \E c \in Task : On(c) = s /\ task[c].at \in Open
  /\ \A c \in Task : task[c].at = "delete" /\ On(c) = s /\ entry[s].state = "failed" => Abandoned(s)

SafeInv ==
  /\ Shape /\ Announced /\ Starts
  /\ \A c \in Task : Staged(c) /\ Locked(c) /\ Progress(c)
  /\ \A s \in Sandbox : Host(s)

-----------------------------------------------------------------------------
(* A step of one task. *)

\* The host of the other sandboxes.
Elsewhere(s) ==
  \A t \in Sandbox \ {s} :
    /\ init'[t] = init[t] /\ lapse'[t] = lapse[t]
    /\ (t \in bundle') <=> (t \in bundle)
    /\ (t \in state') <=> (t \in state)
    /\ (t \in address') <=> (t \in address)
    /\ (t \in metadata') <=> (t \in metadata)

Local(c) ==
  /\ \A d \in Task \ {c} : task'[d] = task[d]
  /\ task'[c].kind = task[c].kind /\ task'[c].sandbox = task[c].sandbox
  /\ \A s \in Sandbox \ {On(c)} : entry'[s] = entry[s] /\ lock'[s] = lock[s]
  /\ Elsewhere(On(c))
  /\ UNCHANGED <<sent, doomed>>

LEMMA MainIsNoCommand == Main \notin Command /\ Command \subseteq Task
BY CountsAreNatural DEF Main, Command, Task

\* Nobody else works on a sandbox whose lock a task holds, or is about to take.
LEMMA Alone ==
  ASSUME SafeInv, NEW c \in Task, Working(c) \/ lock[On(c)] = None
  PROVE  \A d \in Task \ {c} : Working(d) => On(d) # On(c)
BY NoneIsNew DEF SafeInv, Locked

LEMMA OthersSafe ==
  ASSUME SafeInv, NEW c \in Task, Running(c), Local(c), Working(c) \/ lock[On(c)] = None,
         Working(c) \/ (Clean(On(c)) => Clean(On(c))'),
         NEW d \in Task, d # c
  PROVE  Staged(d)' /\ Locked(d)' /\ Progress(d)'
<1>0. On(c)' = On(c) BY DEF Local, On
<1>1. /\ task'[d] = task[d] /\ On(d)' = On(d) /\ (Working(d)' <=> Working(d)) /\ (Running(d)' <=> Running(d))
  BY DEF Local, On, Working, Running
<1>2. Staged(d)' BY <1>1 DEF SafeInv, Staged
<1>3. CASE ~Running(d)
  <2>1. task[d].at \in Ended BY <1>3 DEF Running
  <2>2. Locked(d)' BY <1>1, <1>3 DEF Locked, Working
  <2>3. Progress(d)' BY <1>1, <2>1, Zenon DEF Progress, Ended, Early
  <2> QED BY <1>2, <2>2, <2>3
<1>4. CASE Running(d) /\ On(d) # On(c)
  <2>1. On(d) \in Sandbox \ {On(c)} BY <1>4 DEF SafeInv, Announced, Running, Ended
  <2>2. entry'[On(d)] = entry[On(d)] /\ lock'[On(d)] = lock[On(d)] BY <2>1 DEF Local
  <2>3. Locked(d)' BY <1>1, <2>2 DEF SafeInv, Locked
  <2> DEFINE s == On(d)
  <2>4. /\ lapse'[s] = lapse[s]
        /\ (s \in bundle') <=> (s \in bundle)
        /\ (s \in state') <=> (s \in state)
        /\ (s \in address') <=> (s \in address)
    BY <2>1 DEF Local, Elsewhere
  <2>5. Progress(d) BY DEF SafeInv
  <2>6. entry'[s] = entry[s] BY <2>2
  <2>7. Progress(d)'
    <3>1. On(d)' = s BY <1>1
    <3> HIDE DEF s
    <3>2. On(d) = s BY DEF s
    <3> QED BY <1>1, <2>4, <2>5, <2>6, <3>1, <3>2, Zenon DEF Progress, Clean
  <2> QED BY <1>2, <2>3, <2>7
<1>5. CASE Running(d) /\ On(d) = On(c)
  <2>1. ~Working(d) /\ task[d].at = "queued" BY <1>5, Alone DEF Working
  <2>2. Locked(d)' BY <1>1, <2>1 DEF Locked
  <2>3. ASSUME task[d].kind = "start" PROVE Clean(On(c)) /\ ~Working(c)
    <3>1. Clean(On(d)) BY <2>1, <2>3, Zenon DEF SafeInv, Progress
    <3>2. d \in Command /\ Starting(d) /\ entry[On(d)] = None
      BY <1>5, <2>1, <2>3 DEF SafeInv, Staged, Starting, Starts, Task, Main
    <3>3. task[c].kind = "start" => c \in Command /\ Starting(c)
      BY DEF SafeInv, Staged, Starting, Task, Main, Running, Ended
    <3>4. task[c].kind # "start" BY <1>5, <3>2, <3>3 DEF SafeInv, Starts
    <3> QED BY <1>5, <3>1, <3>2, <3>4 DEF SafeInv, Locked
  <2>4. Progress(d)' BY <1>0, <1>1, <1>5, <2>1, <2>3 DEF Progress, Early
  <2> QED BY <1>2, <2>2, <2>4
<1> QED BY <1>3, <1>4, <1>5

LEMMA LocalSafe ==
  ASSUME SafeInv, NEW c \in Task, Running(c), Shape', Local(c), Working(c) \/ lock[On(c)] = None,
         Working(c) \/ (Clean(On(c)) => Clean(On(c))'),
         Staged(c)', Locked(c)', Progress(c)',
         entry'[On(c)] # None /\ entry[On(c)] = None => task[c].kind = "start" /\ ~Running(c)',
         entry'[On(c)] # None /\ entry'[On(c)].state = "failed" => entry'[On(c)].container = None,
         Settled(On(c))' \/ task'[c].at \in Open,
         task'[c].at = "delete" /\ entry'[On(c)].state = "failed" => Abandoned(On(c))'
  PROVE  SafeInv'
<1>0. On(c) \in Sandbox /\ sent[On(c)] # "never" /\ On(c)' = On(c)
  BY ZenonT(30) DEF SafeInv, Announced, Running, Ended, Local, On
<1>1. \A d \in Task : On(d)' = On(d) /\ task'[d].kind = task[d].kind BY DEF Local, On
<1>2. \A d \in Command : Starting(d)' => Starting(d)
  BY <1>1, MainIsNoCommand, ZenonT(60) DEF Local, Starting, Running
<1>3. Announced' BY <1>0, <1>1, ZenonT(30) DEF SafeInv, Announced, Local, Running, Ended, On
<1>4. \A d \in Task : Staged(d)' /\ Locked(d)' /\ Progress(d)' BY OthersSafe
<1>5. Starts'
  <2> SUFFICES ASSUME NEW d \in Command, Starting(d)'
               PROVE  /\ entry'[On(d)] = None
                      /\ \A e \in Command : Starting(e)' /\ On(e) = On(d) => e = d
    BY <1>1, MainIsNoCommand, ZenonT(30) DEF Starts
  <2>1. Starting(d) /\ entry[On(d)] = None BY <1>2, ZenonT(30) DEF SafeInv, Starts
  <2>2. \A e \in Command : Starting(e)' /\ On(e) = On(d) => e = d BY <1>2, <2>1, ZenonT(30) DEF SafeInv, Starts
  <2>3. CASE On(d) # On(c)
    <3>1. On(d) \in Sandbox BY <2>1, MainIsNoCommand DEF SafeInv, Announced, Starting, Running, Ended
    <3> QED BY <2>1, <2>2, <2>3, <3>1, ZenonT(30) DEF Local
  <2>4. CASE On(d) = On(c)
    <3>1. SUFFICES ASSUME entry'[On(d)] # None PROVE FALSE BY <2>2, ZenonT(30)
    <3>2. task[c].kind = "start" /\ ~Running(c)' BY <2>1, <2>4, <3>1
    <3>3. c \in Command /\ Starting(c)
      BY <3>2, ZenonT(60) DEF SafeInv, Task, Staged, Starting, Running, Ended, Main
    <3>4. d = c BY <2>1, <2>4, <3>3, ZenonT(60) DEF SafeInv, Starts
    <3> QED BY <3>2, <3>4, ZenonT(30) DEF Starting
  <2> QED BY <2>3, <2>4, ZenonT(30)
<1>6. ASSUME NEW s \in Sandbox, s # On(c) PROVE Host(s)'
  <2>1. /\ entry'[s] = entry[s] /\ init'[s] = init[s] /\ lapse'[s] = lapse[s] /\ sent'[s] = sent[s]
        /\ (s \in bundle') <=> (s \in bundle)
        /\ (s \in state') <=> (s \in state)
        /\ (s \in address') <=> (s \in address)
        /\ (s \in metadata') <=> (s \in metadata)
    BY <1>6 DEF Local, Elsewhere
  <2>2. \A d \in Task : On(d) = s => On(d)' = s /\ task'[d] = task[d] BY <1>1, <1>6, ZenonT(30) DEF Local
  <2>3. \A d \in Task : On(d)' = s => On(d) = s /\ task'[d] = task[d] BY <1>1, <1>6 DEF Local
  <2>4. (Clean(s)' <=> Clean(s)) /\ (Abandoned(s)' <=> Abandoned(s)) /\ (Settled(s)' <=> Settled(s))
    BY <2>1, Zenon DEF Clean, Abandoned, Settled, Whole
  <2> QED BY <2>1, <2>2, <2>3, <2>4, ZenonT(60) DEF SafeInv, Host
<1>7. Host(On(c))'
  <2>1. sent'[On(c)] # "never" BY <1>0, ZenonT(30) DEF Local
  <2>2. \A d \in Task \ {c} : task'[d].at = "delete" => On(d)' # On(c)
    <3> SUFFICES ASSUME NEW d \in Task \ {c}, task'[d].at = "delete" PROVE On(d) # On(c) BY <1>1, ZenonT(60)
    <3>1. Working(d) BY DEF Local, Working, Running, Ended
    <3> QED BY <3>1, Alone
  <2>3. \A d \in Task : task'[d].at = "delete" /\ On(d)' = On(c) /\ entry'[On(c)].state = "failed" => Abandoned(On(c))'
    BY <1>0, <2>2
  <2>4. Settled(On(c))' \/ \E d \in Task : On(d)' = On(c) /\ task'[d].at \in Open BY <1>0, ZenonT(60)
  <2> QED BY <1>0, <2>1, <2>3, <2>4, ZenonT(30) DEF Host
<1>8. \A s \in Sandbox : Host(s)' BY <1>0, <1>6, <1>7
<1> QED BY <1>3, <1>4, <1>5, <1>8, ZenonT(60) DEF SafeInv

-----------------------------------------------------------------------------
(* What the steps do to the task and the table. *)

Moves(c, at) ==
  /\ task' \in [Task -> TaskRecord]
  /\ \A d \in Task \ {c} : task'[d] = task[d]
  /\ task'[c].kind = task[c].kind /\ task'[c].sandbox = task[c].sandbox /\ task'[c].at = at

LEMMA Updated ==
  ASSUME Shape, NEW c \in Task, NEW r \in TaskRecord, task' = [task EXCEPT ![c] = r],
         r.kind = task[c].kind, r.sandbox = task[c].sandbox
  PROVE  Moves(c, r.at) /\ task'[c] = r
BY DEF Shape, Moves

LEMMA GotoMoves ==
  ASSUME Shape, NEW c \in Task, NEW at \in Stages, Goto(c, at)
  PROVE  Moves(c, at) /\ task'[c].container = task[c].container
<1> DEFINE r == [task[c] EXCEPT !.at = at]
<1>1. task[c] \in TaskRecord BY DEF Shape
<1>2. /\ r \in TaskRecord /\ r.at = at /\ r.kind = task[c].kind /\ r.sandbox = task[c].sandbox
      /\ r.container = task[c].container
  BY <1>1, Zenon DEF TaskRecord
<1>3. task' = [task EXCEPT ![c] = r] BY DEF Goto
<1> HIDE DEF r
<1> QED BY <1>2, <1>3, Updated, Zenon

LEMMA ReturnMoves ==
  ASSUME Shape, NEW c \in Task, On(c) \in Sandbox, NEW ok \in BOOLEAN, Return(c, ok)
  PROVE  /\ Moves(c, IF c = Main THEN "unsent" ELSE "done")
         /\ lock' \in [Sandbox -> Task \cup {None}] /\ \A s \in Sandbox \ {On(c)} : lock'[s] = lock[s]
         /\ UNCHANGED <<sent, doomed>>
<1> DEFINE at == IF c = Main THEN "unsent" ELSE "done"
<1> DEFINE r == [Idle EXCEPT !.kind = task[c].kind, !.sandbox = On(c), !.ok = ok, !.at = at]
<1>1. task[c] \in TaskRecord BY DEF Shape
<1>2. at \in Stages BY DEF Stages, Ended
<1>3. task' = [task EXCEPT ![c] = r] BY DEF Return
<1> HIDE DEF at
<1>4. r \in TaskRecord /\ r.at = at /\ r.kind = task[c].kind /\ r.sandbox = task[c].sandbox
  BY <1>1, <1>2, ZenonT(60) DEF TaskRecord, Idle, NoConfig, Config, On
<1> HIDE DEF r
<1>5. Moves(c, r.at) BY <1>3, <1>4, Updated, Zenon
<1>6. /\ UNCHANGED <<sent, doomed>>
      /\ lock' \in [Sandbox -> Task \cup {None}] /\ \A s \in Sandbox \ {On(c)} : lock'[s] = lock[s]
  BY DEF Return, Shape
<1> QED BY <1>4, <1>5, <1>6, Zenon DEF at

LEMMA AtWork ==
  ASSUME SafeInv, NEW c \in Task, task[c].at \in Stages \ Ended
  PROVE  /\ Running(c) /\ On(c) \in Sandbox
         /\ task[c].at # "queued" => Working(c)
         /\ task[c].at \in Early \cup Later => task[c].kind = "start" /\ entry[On(c)] = None /\ c \in Command
         /\ task[c].at \in StopStages \cup {"pause", "unpause"} =>
              task[c].kind # "start" /\ entry[On(c)] # None /\ task[c].container = entry[On(c)].container
<1>1. Running(c) /\ task[c].at # "unsent" BY DEF Running, Ended
<1>2. On(c) \in Sandbox /\ (task[c].at # "queued" => Working(c)) BY <1>1 DEF SafeInv, Announced, Working
<1>3. Staged(c) /\ Locked(c) BY DEF SafeInv
<1>4. ASSUME task[c].at \in Early \cup Later
      PROVE  task[c].kind = "start" /\ entry[On(c)] = None /\ c \in Command
  <2>1. task[c].kind = "start" BY <1>3, <1>4 DEF Staged
  <2>2. c \in Command BY <1>1, <1>3, <2>1, ZenonT(30) DEF Staged, Task
  <2> QED BY <1>1, <2>1, <2>2 DEF SafeInv, Starts, Starting
<1>5. ASSUME task[c].at \in StopStages \cup {"pause", "unpause"}
      PROVE  task[c].kind # "start" /\ entry[On(c)] # None /\ task[c].container = entry[On(c)].container
  <2>1. task[c].kind # "start" /\ task[c].at # "queued" BY <1>3, <1>5 DEF Staged, StopStages
  <2> QED BY <1>2, <1>3, <2>1 DEF Locked
<1> QED BY <1>1, <1>2, <1>4, <1>5

\* A task returns.
LEMMA ReturnSafe ==
  ASSUME SafeInv, NEW c \in Task, task[c].at \in Stages \ Ended, NEW ok \in BOOLEAN, Return(c, ok),
         Working(c) \/ (lock[On(c)] = None /\ UNCHANGED hostVars),
         entry' \in [Sandbox -> Entry \cup {None}], \A s \in Sandbox \ {On(c)} : entry'[s] = entry[s],
         entry'[On(c)] # None /\ entry[On(c)] = None => task[c].kind = "start",
         entry'[On(c)] # None /\ entry'[On(c)].state = "failed" => entry'[On(c)].container = None,
         HostShape', Elsewhere(On(c)), Settled(On(c))'
  PROVE  SafeInv'
<1> DEFINE at == IF c = Main THEN "unsent" ELSE "done"
<1>1. Shape /\ Running(c) /\ On(c) \in Sandbox BY AtWork, ZenonT(60) DEF SafeInv
<1>2. /\ Moves(c, at)
      /\ lock' \in [Sandbox -> Task \cup {None}] /\ \A s \in Sandbox \ {On(c)} : lock'[s] = lock[s]
      /\ UNCHANGED <<sent, doomed>>
  BY <1>1, ReturnMoves, ZenonT(60)
<1>3. at \in {"unsent", "done"} /\ (c = Main => at = "unsent") BY ZenonT(60)
<1> HIDE DEF at
<1>4. Shape' BY <1>1, <1>2, ZenonT(60) DEF Shape, Moves
<1>5. Local(c) BY <1>2, ZenonT(60) DEF Local, Moves
<1>6. ~Running(c)' /\ ~Working(c)' /\ task'[c].at = at BY <1>2, <1>3, ZenonT(60) DEF Moves, Running, Ended, Working
<1>7. Staged(c)' /\ Locked(c)' /\ Progress(c)'
  <2>1. Staged(c)' BY <1>3, <1>6, Zenon DEF Staged, Early, Later, StopStages
  <2>2. Locked(c)' BY <1>6 DEF Locked
  <2>3. Progress(c)' BY <1>3, <1>6, Zenon DEF Progress, Early
  <2> QED BY <2>1, <2>2, <2>3
<1>8. Working(c) \/ (Clean(On(c)) => Clean(On(c))')
  <2>1. On(c)' = On(c) BY <1>2, ZenonT(60) DEF Moves, On
  <2> QED BY <2>1 DEF hostVars, Clean
<1>9. On(c)' = On(c) /\ task'[c].at # "delete" BY <1>2, <1>3, <1>6 DEF Moves, On
<1> QED BY <1>1, <1>4, <1>5, <1>6, <1>7, <1>8, <1>9, LocalSafe, ZenonT(60)

\* A task goes on to a stage of the runtime.
LEMMA StageSafe ==
  ASSUME SafeInv, NEW c \in Task, Working(c), task[c].at \in Stages \ Ended, NEW at \in Stages \ Ended, at # "queued",
         Moves(c, at), task'[c].container = task[c].container,
         UNCHANGED <<entry, lock, sent, doomed>>, HostShape', Elsewhere(On(c)),
         at \in Early \cup Later => task[c].kind = "start",
         at \in StopStages => task[c].kind = "stop",
         at \notin {"pause", "unpause"},
         Progress(c)', Settled(On(c))' \/ at \in Open,
         at = "delete" /\ entry[On(c)].state = "failed" => Abandoned(On(c))'
  PROVE  SafeInv'
<1>1. Shape /\ Running(c) /\ On(c) \in Sandbox BY AtWork, Zenon DEF SafeInv
<1>2. Shape' BY <1>1, ZenonT(60) DEF Shape, Moves
<1>3. Local(c) BY ZenonT(60) DEF Local, Moves
<1>4. On(c)' = On(c) /\ task'[c].at = at BY ZenonT(60) DEF Moves, On
<1>5. Staged(c)'
  BY <1>4, MainIsNoCommand, ZenonT(60) DEF SafeInv, Staged, Moves, Ended
<1>6. Locked(c)' BY <1>4, ZenonT(60) DEF SafeInv, Locked, Moves
<1>7. entry'[On(c)].state = "failed" /\ entry[On(c)] # None => entry'[On(c)].container = None
  BY <1>1, ZenonT(60) DEF SafeInv, Host
<1> QED BY <1>1, <1>2, <1>3, <1>4, <1>5, <1>6, <1>7, LocalSafe, Zenon

-----------------------------------------------------------------------------
(* The steps of a start. *)

LEMMA LapseKeeps ==
  ASSUME Shape, NEW c \in Task, On(c) \in Sandbox, NEW what \in Lapses, Lapse(c, what)
  PROVE  /\ lapse' \in [Sandbox -> SUBSET Lapses] /\ \A t \in Sandbox \ {On(c)} : lapse'[t] = lapse[t]
         /\ lapse'[On(c)] = lapse[On(c)] \cup {what}
BY DEF Shape, HostShape, Lapse

\* create_and_start fails, by a lapse or with nothing left.
LEMMA StartFailedSafe ==
  ASSUME SafeInv, NEW c \in Task, task[c].at \in Early \cup Later, StartFailed(c),
         HostShape', Elsewhere(On(c)), Abandoned(On(c))'
  PROVE  SafeInv'
<1> DEFINE e == [container |-> None, port |-> 0, state |-> "failed"]
<1>1. /\ task[c].at \in Stages \ Ended /\ Working(c) /\ task[c].kind = "start" /\ On(c) \in Sandbox
      /\ Shape
  <2>1. task[c].at \in Stages \ Ended /\ task[c].at # "queued" BY Zenon DEF Stages, Early, Later, Ended
  <2> QED BY <2>1, AtWork DEF SafeInv
<1>2. e \in Entry /\ e.container = None /\ e.state = "failed" BY DEF Entry
<1>3. entry' = [entry EXCEPT ![On(c)] = e] /\ Return(c, FALSE) BY Zenon DEF StartFailed
<1> HIDE DEF e
<1>4. /\ entry' \in [Sandbox -> Entry \cup {None}] /\ \A s \in Sandbox \ {On(c)} : entry'[s] = entry[s]
      /\ entry'[On(c)] = e
  BY <1>1, <1>2, <1>3 DEF Shape
<1>5. On(c)' = On(c) BY <1>1, <1>3, ReturnMoves, Zenon DEF Moves, On
<1>6. Settled(On(c))' BY <1>2, <1>4, <1>5 DEF Settled
<1> QED BY <1>1, <1>2, <1>3, <1>4, <1>6, ReturnSafe, Zenon

\* create_and_start goes on.
LEMMA StartMoveSafe ==
  ASSUME SafeInv, NEW c \in Task, task[c].at \in Early \cup Later, NEW at \in Early \cup Later,
         Goto(c, at), UNCHANGED idleVars, HostShape', Elsewhere(On(c)), Progress(c)'
  PROVE  SafeInv'
<1>1. /\ task[c].at \in Stages \ Ended /\ Working(c) /\ task[c].kind = "start" /\ On(c) \in Sandbox
      /\ Shape /\ entry[On(c)] = None
  <2>1. task[c].at \in Stages \ Ended /\ task[c].at # "queued" BY Zenon DEF Stages, Early, Later, Ended
  <2> QED BY <2>1, AtWork, Zenon DEF SafeInv
<1>2. at \in Stages \ Ended /\ at # "queued" /\ at \notin StopStages \cup {"pause", "unpause"}
  BY Zenon DEF Stages, Early, Later, Ended, StopStages
<1>3. Moves(c, at) /\ task'[c].container = task[c].container BY <1>1, <1>2, GotoMoves
<1>4. UNCHANGED <<entry, lock, sent, doomed>> BY DEF idleVars
<1>5. Settled(On(c))' \/ at \in Open
  <2>1. CASE at \in Later BY <2>1, ZenonT(60) DEF Open
  <2>2. CASE at \in Early
    <3>1. Clean(On(c))' BY <1>3, <2>2, Zenon DEF Progress, Moves
    <3>2. On(c)' = On(c) BY <1>3 DEF Moves, On
    <3> QED BY <1>1, <1>4, <3>1, <3>2 DEF Settled, Clean, Abandoned
  <2> QED BY <2>1, <2>2
<1>6. at # "delete" BY <1>2 DEF StopStages
<1> QED BY <1>1, <1>2, <1>3, <1>4, <1>5, <1>6, StageSafe, Zenon

\* The host is as it was.
LEMMA SameHost ==
  ASSUME SafeInv, UNCHANGED <<hostVars, lapse>>, NEW c \in Task
  PROVE  HostShape' /\ Elsewhere(On(c))
BY ZenonT(60) DEF SafeInv, Shape, HostShape, hostVars, Elsewhere

LEMMA ProgressAt ==
  ASSUME SafeInv, NEW c \in Task, task[c].at \in Early \cup Later
  PROVE  /\ Progress(c) /\ On(c) \in Sandbox /\ Shape /\ c \in Command
         /\ task[c].at \in Stages \ Ended
<1>1. task[c].at \in Stages \ Ended BY Zenon DEF Stages, Early, Later, Ended
<1> QED BY <1>1, AtWork DEF SafeInv

LEMMA EarlySafe ==
  ASSUME SafeInv, NEW c \in Task, task[c].at \in Early, UNCHANGED <<hostVars, lapse>>,
         StartFailed(c) \/ \E at \in Early : Goto(c, at) /\ UNCHANGED idleVars
  PROVE  SafeInv'
<1>1. /\ Clean(On(c)) /\ task[c].at \in Early \cup Later /\ HostShape' /\ Elsewhere(On(c))
      /\ On(c) \in Sandbox /\ Shape
  BY SameHost, ProgressAt, Zenon DEF Progress
<1>2. CASE StartFailed(c)
  <2>1. On(c)' = On(c) BY <1>1, <1>2, ReturnMoves, Zenon DEF StartFailed, Moves, On
  <2>2. Abandoned(On(c))' BY <1>1, <2>1 DEF Clean, Abandoned, hostVars
  <2> QED BY <1>1, <1>2, <2>2, StartFailedSafe
<1>3. ASSUME NEW at \in Early, Goto(c, at), UNCHANGED idleVars PROVE SafeInv'
  <2>1. at \in Stages BY DEF Stages
  <2>2. On(c)' = On(c) /\ task'[c].at = at BY <1>1, <1>3, <2>1, GotoMoves DEF Moves, On
  <2>3. Progress(c)' BY <1>1, <2>2, Zenon DEF Progress, Clean, hostVars, Early
  <2> QED BY <1>1, <1>3, <2>3, StartMoveSafe, ZenonT(30)
<1> QED BY <1>2, <1>3

LEMMA BeginImageSafe ==
  ASSUME SafeInv, NEW c \in Task, BeginImage(c)
  PROVE  SafeInv'
<1>1. task[c].at \in Early /\ "image" \in Early /\ UNCHANGED <<hostVars, lapse>> BY DEF BeginImage, Early
<1> QED BY <1>1, EarlySafe DEF BeginImage

LEMMA ImageReturnsSafe ==
  ASSUME SafeInv, NEW c \in Task, ImageReturns(c)
  PROVE  SafeInv'
<1>1. task[c].at \in Early /\ "bundle" \in Early /\ UNCHANGED <<hostVars, lapse>> BY DEF ImageReturns, Early
<1> QED BY <1>1, EarlySafe DEF ImageReturns

LEMMA WriteBundleSafe ==
  ASSUME SafeInv, NEW c \in Task, WriteBundle(c)
  PROVE  SafeInv'
<1>1. /\ task[c].at = "bundle" /\ task[c].at \in Early \cup Later /\ UNCHANGED <<state, init, address, metadata>>
  BY DEF WriteBundle, Early
<1>2. /\ Clean(On(c)) /\ On(c) \in Sandbox /\ Shape
  BY <1>1, ProgressAt, Zenon DEF Progress, Early
<1>3. CASE bundle' = bundle \cup {On(c)} /\ Goto(c, "build") /\ UNCHANGED <<idleVars, lapse>>
  <2>1. HostShape' /\ Elsewhere(On(c)) BY <1>1, <1>2, <1>3 DEF Shape, HostShape, Elsewhere
  <2>2. "build" \in Stages /\ "build" \in Early \cup Later BY ZenonT(30) DEF Stages, Later
  <2>3. On(c)' = On(c) /\ task'[c].at = "build" BY <1>2, <1>3, <2>2, GotoMoves, ZenonT(30) DEF Moves, On
  <2>4. Progress(c)' BY <1>1, <1>2, <1>3, <2>3, Zenon DEF Progress, Clean, Early
  <2> QED BY <1>1, <1>3, <2>1, <2>2, <2>4, StartMoveSafe, Zenon
<1>4. CASE StartFailed(c)
           /\ (UNCHANGED <<bundle, lapse>> \/ (bundle' = bundle \cup {On(c)} /\ Lapse(c, "bundle")))
  <2>1. On(c)' = On(c) BY <1>2, <1>4, ReturnMoves, Zenon DEF StartFailed, Moves, On
  <2>2. CASE UNCHANGED <<bundle, lapse>>
    BY <1>1, <1>4, <2>2, EarlySafe, Zenon DEF hostVars, Early
  <2>3. CASE bundle' = bundle \cup {On(c)} /\ Lapse(c, "bundle")
    <3>1. /\ lapse' \in [Sandbox -> SUBSET Lapses] /\ \A t \in Sandbox \ {On(c)} : lapse'[t] = lapse[t]
          /\ lapse'[On(c)] = lapse[On(c)] \cup {"bundle"}
      BY <1>2, <2>3, LapseKeeps, ZenonT(60) DEF Lapses
    <3>2. HostShape' /\ Elsewhere(On(c)) BY <1>1, <1>2, <2>3, <3>1 DEF Shape, HostShape, Elsewhere
    <3>3. Abandoned(On(c))' BY <1>1, <1>2, <2>1, <3>1, Zenon DEF Clean, Abandoned
    <3> QED BY <1>1, <1>4, <3>2, <3>3, StartFailedSafe, Zenon
  <2> QED BY <1>4, <2>2, <2>3
<1> QED BY <1>3, <1>4, ZenonT(60) DEF WriteBundle

LEMMA BuildContainerSafe ==
  ASSUME SafeInv, NEW c \in Task, BuildContainer(c)
  PROVE  SafeInv'
<1>1. /\ task[c].at = "build" /\ task[c].at \in Early \cup Later /\ UNCHANGED <<bundle, address, metadata>>
  BY Zenon DEF BuildContainer, Later
<1>2. /\ On(c) \in Sandbox /\ Shape /\ On(c) \in bundle /\ On(c) \notin state /\ On(c) \notin address
  BY <1>1, ProgressAt, Zenon DEF Progress
<1>3. /\ state' \in {state, state \cup {On(c)}} /\ init' \in [Sandbox -> {"none", "created", "running", "paused"}]
      /\ \A t \in Sandbox \ {On(c)} : init'[t] = init[t]
  BY <1>2, Zenon DEF BuildContainer, Shape, HostShape
<1>4. CASE state' = state \cup {On(c)} /\ Goto(c, "bridge") /\ UNCHANGED <<idleVars, lapse>>
  <2>1. HostShape' /\ Elsewhere(On(c)) BY <1>1, <1>2, <1>3, <1>4 DEF Shape, HostShape, Elsewhere
  <2>2. "bridge" \in Stages /\ "bridge" \in Early \cup Later BY ZenonT(60) DEF Stages, Later
  <2>3. On(c)' = On(c) /\ task'[c].at = "bridge" BY <1>2, <1>4, <2>2, GotoMoves, ZenonT(60) DEF Moves, On
  <2>4. Progress(c)' BY <1>1, <1>2, <1>4, <2>3 DEF Progress, Early
  <2> QED BY <1>1, <1>4, <2>1, <2>2, <2>4, StartMoveSafe, ZenonT(60)
<1>5. ASSUME NEW what \in {"port", "build"}, StartFailed(c), Lapse(c, what) PROVE SafeInv'
  <2>1. On(c)' = On(c) BY <1>2, <1>5, ReturnMoves, Zenon DEF StartFailed, Moves, On
  <2>2. /\ lapse' \in [Sandbox -> SUBSET Lapses] /\ \A t \in Sandbox \ {On(c)} : lapse'[t] = lapse[t]
        /\ lapse'[On(c)] = lapse[On(c)] \cup {what}
    <3>1. what \in Lapses BY <1>5, ZenonT(60) DEF Lapses
    <3> QED BY <1>2, <1>5, <3>1, LapseKeeps
  <2>3. HostShape' /\ Elsewhere(On(c)) BY <1>1, <1>2, <1>3, <2>2, ZenonT(60) DEF Shape, HostShape, Elsewhere
  <2>4. Abandoned(On(c))' BY <1>1, <1>2, <2>1, <2>2, ZenonT(30) DEF Abandoned
  <2> QED BY <1>1, <1>5, <2>3, <2>4, StartFailedSafe, Zenon
<1> QED BY <1>4, <1>5 DEF BuildContainer

LEMMA AddBridgeSafe ==
  ASSUME SafeInv, NEW c \in Task, AddBridge(c)
  PROVE  SafeInv'
<1>1. /\ task[c].at = "bridge" /\ task[c].at \in Early \cup Later
      /\ UNCHANGED <<idleVars, bundle, state, init, metadata, lapse>>
  BY Zenon DEF AddBridge, Later
<1>2. /\ On(c) \in Sandbox /\ Shape /\ On(c) \in bundle /\ On(c) \in state /\ On(c) \notin address
  BY <1>1, ProgressAt, Zenon DEF Progress
<1>3. PICK at \in {"portmap", "undo container"} :
        /\ Goto(c, at)
        /\ address' = IF at = "portmap" THEN address \cup {On(c)} ELSE address
  BY Zenon DEF AddBridge
<1>4. HostShape' /\ Elsewhere(On(c)) BY <1>1, <1>2, <1>3, Zenon DEF Shape, HostShape, Elsewhere
<1>5. at \in Stages /\ at \in Early \cup Later BY Zenon DEF Stages, Later
<1>6. On(c)' = On(c) /\ task'[c].at = at BY <1>2, <1>3, <1>5, GotoMoves, Zenon DEF Moves, On
<1>7. Progress(c)' BY <1>1, <1>2, <1>3, <1>6, Zenon DEF Progress, Early
<1> QED BY <1>1, <1>3, <1>4, <1>5, <1>7, StartMoveSafe, Zenon

LEMMA AddPortmapSafe ==
  ASSUME SafeInv, NEW c \in Task, AddPortmap(c)
  PROVE  SafeInv'
<1>1. task[c].at = "portmap" /\ task[c].at \in Early \cup Later /\ UNCHANGED <<idleVars, hostVars>>
  BY Zenon DEF AddPortmap, Later
<1>2. /\ On(c) \in Sandbox /\ Shape /\ On(c) \in bundle /\ On(c) \in state /\ On(c) \in address
  BY <1>1, ProgressAt, Zenon DEF Progress
<1>3. CASE Goto(c, "start") /\ UNCHANGED lapse
  <2>1. HostShape' /\ Elsewhere(On(c)) BY <1>1, <1>3, SameHost, Zenon
  <2>2. "start" \in Stages /\ "start" \in Early \cup Later BY ZenonT(60) DEF Stages, Later
  <2>3. On(c)' = On(c) /\ task'[c].at = "start" BY <1>2, <1>3, <2>2, GotoMoves, ZenonT(60) DEF Moves, On
  <2>4. Progress(c)' BY <1>1, <1>2, <2>3, ZenonT(30) DEF Progress, Early, hostVars
  <2> QED BY <1>1, <1>3, <2>1, <2>2, <2>4, StartMoveSafe, Zenon
<1>4. CASE Goto(c, "undo container") /\ Lapse(c, "portmap")
  <2>1. /\ lapse' \in [Sandbox -> SUBSET Lapses] /\ \A t \in Sandbox \ {On(c)} : lapse'[t] = lapse[t]
        /\ lapse'[On(c)] = lapse[On(c)] \cup {"portmap"}
    BY <1>2, <1>4, LapseKeeps, Zenon DEF Lapses
  <2>2. HostShape' /\ Elsewhere(On(c)) BY <1>1, <1>2, <2>1 DEF Shape, HostShape, Elsewhere, hostVars
  <2>3. "undo container" \in Stages /\ "undo container" \in Early \cup Later BY DEF Stages, Later
  <2>4. On(c)' = On(c) /\ task'[c].at = "undo container" BY <1>2, <1>4, <2>3, GotoMoves, Zenon DEF Moves, On
  <2>5. Progress(c)' BY <2>1, <2>4, Zenon DEF Progress, Early
  <2> QED BY <1>1, <1>4, <2>2, <2>3, <2>5, StartMoveSafe, Zenon
<1> QED BY <1>3, <1>4, Zenon DEF AddPortmap

LEMMA StartInitSafe ==
  ASSUME SafeInv, NEW c \in Task, StartInit(c)
  PROVE  SafeInv'
<1>1. /\ task[c].at = "start" /\ task[c].at \in Early \cup Later
      /\ UNCHANGED <<bundle, state, address, lapse>>
  BY Zenon DEF StartInit, Later
<1>2. /\ On(c) \in Sandbox /\ Shape /\ On(c) \in bundle /\ On(c) \in state /\ On(c) \in address
      /\ task[c].at \in Stages \ Ended
  BY <1>1, ProgressAt, Zenon DEF Progress
<1>3. CASE /\ init' = [init EXCEPT ![On(c)] = "running"]
           /\ metadata' = metadata \cup {On(c)}
           /\ Started(c, On(c), 1)
  <2> DEFINE e == [container |-> On(c), port |-> 1, state |-> "running"]
  <2>1. e \in Entry /\ e.state = "running" BY <1>2 DEF Entry
  <2>2. entry' = [entry EXCEPT ![On(c)] = e] /\ Return(c, TRUE) BY <1>3, Zenon DEF Started
  <2> HIDE DEF e
  <2>3. /\ entry' \in [Sandbox -> Entry \cup {None}] /\ \A s \in Sandbox \ {On(c)} : entry'[s] = entry[s]
        /\ entry'[On(c)] = e
    BY <1>2, <2>1, <2>2, ZenonT(30) DEF Shape
  <2>4. HostShape' /\ Elsewhere(On(c)) BY <1>1, <1>2, <1>3, ZenonT(30) DEF Shape, HostShape, Elsewhere
  <2>5. On(c)' = On(c) BY <1>2, <2>2, ReturnMoves, Zenon DEF Moves, On
  <2>6. init'[On(c)] = "running" BY <1>2, <1>3 DEF Shape, HostShape
  <2>7. e # None BY <2>1, NoneIsNew
  <2>8. Settled(On(c))' BY <1>1, <1>2, <1>3, <2>1, <2>3, <2>5, <2>6, <2>7, Zenon DEF Settled, Whole
  <2>9. Working(c) /\ task[c].kind = "start" BY <1>1, <1>2, AtWork, Zenon
  <2> QED BY <1>2, <2>1, <2>2, <2>3, <2>4, <2>8, <2>9, ReturnSafe, Zenon
<1>4. CASE Goto(c, "undo network") /\ UNCHANGED <<idleVars, init, metadata>>
  <2>1. HostShape' /\ Elsewhere(On(c)) BY <1>1, <1>4, SameHost, Zenon DEF hostVars
  <2>2. "undo network" \in Stages /\ "undo network" \in Early \cup Later BY DEF Stages, Later
  <2>3. On(c)' = On(c) /\ task'[c].at = "undo network" BY <1>2, <1>4, <2>2, GotoMoves, Zenon DEF Moves, On
  <2>4. Progress(c)' BY <1>1, <1>2, <2>3, Zenon DEF Progress, Early
  <2> QED BY <1>1, <1>4, <2>1, <2>2, <2>4, StartMoveSafe, Zenon
<1> QED BY <1>3, <1>4, Zenon DEF StartInit

LEMMA UndoNetworkSafe ==
  ASSUME SafeInv, NEW c \in Task, UndoNetwork(c)
  PROVE  SafeInv'
<1>1. /\ task[c].at = "undo network" /\ task[c].at \in Early \cup Later /\ Goto(c, "undo container")
      /\ UNCHANGED <<idleVars, bundle, state, init, metadata>>
  BY Zenon DEF UndoNetwork, Later
<1>2. On(c) \in Sandbox /\ Shape BY <1>1, ProgressAt, Zenon
<1>3. /\ lapse' \in [Sandbox -> SUBSET Lapses] /\ \A t \in Sandbox \ {On(c)} : lapse'[t] = lapse[t]
      /\ address' \in {address, address \ {On(c)}}
      /\ On(c) \in address' => "del" \in lapse'[On(c)]
  <2>1. CASE address' = address \ {On(c)} /\ UNCHANGED lapse BY <1>2, <2>1, ZenonT(30) DEF Shape, HostShape
  <2>2. CASE UNCHANGED address /\ Lapse(c, "del") BY <1>2, <2>2, LapseKeeps DEF Lapses
  <2> QED BY <2>1, <2>2, Zenon DEF UndoNetwork
<1>4. HostShape' /\ Elsewhere(On(c)) BY <1>1, <1>2, <1>3, Zenon DEF Shape, HostShape, Elsewhere
<1>5. "undo container" \in Stages /\ "undo container" \in Early \cup Later BY DEF Stages, Later
<1>6. On(c)' = On(c) /\ task'[c].at = "undo container" BY <1>1, <1>2, <1>5, GotoMoves, Zenon DEF Moves, On
<1>7. Progress(c)' BY <1>3, <1>6, Zenon DEF Progress, Early
<1> QED BY <1>1, <1>4, <1>5, <1>7, StartMoveSafe, Zenon

LEMMA UndoContainerSafe ==
  ASSUME SafeInv, NEW c \in Task, UndoContainer(c)
  PROVE  SafeInv'
<1>1. /\ task[c].at = "undo container" /\ task[c].at \in Early \cup Later /\ StartFailed(c)
      /\ UNCHANGED <<init, address, metadata>>
  BY Zenon DEF UndoContainer, Later
<1>2. /\ On(c) \in Sandbox /\ Shape
      /\ On(c) \in address => "portmap" \in lapse[On(c)] \/ "del" \in lapse[On(c)]
  BY <1>1, ProgressAt, Zenon DEF Progress
<1>3. /\ lapse' \in [Sandbox -> SUBSET Lapses] /\ \A t \in Sandbox \ {On(c)} : lapse'[t] = lapse[t]
      /\ lapse[On(c)] \subseteq lapse'[On(c)]
      /\ state' \in {state, state \ {On(c)}} /\ bundle' \in {bundle, bundle \ {On(c)}}
      /\ On(c) \in state' \/ On(c) \in bundle' => "rollback" \in lapse'[On(c)]
  <2>1. CASE state' = state \ {On(c)} /\ bundle' = bundle \ {On(c)} /\ UNCHANGED lapse
    BY <1>2, <2>1, ZenonT(60) DEF Shape, HostShape
  <2>2. CASE /\ Lapse(c, "rollback")
             /\ state' \in {state, state \ {On(c)}} /\ bundle' \in {bundle, bundle \ {On(c)}}
    BY <1>2, <2>2, LapseKeeps DEF Lapses
  <2> QED BY <2>1, <2>2, Zenon DEF UndoContainer
<1>4. HostShape' /\ Elsewhere(On(c)) BY <1>1, <1>2, <1>3, Zenon DEF Shape, HostShape, Elsewhere
<1>5. On(c)' = On(c) BY <1>1, <1>2, ReturnMoves, Zenon DEF StartFailed, Moves, On
<1>6. Abandoned(On(c))' BY <1>1, <1>2, <1>3, <1>5, Zenon DEF Abandoned
<1> QED BY <1>1, <1>4, <1>6, StartFailedSafe, Zenon

LEMMA DeadlineSafe ==
  ASSUME SafeInv, NEW c \in Task, Deadline(c)
  PROVE  SafeInv'
<1>1. /\ Running(c) /\ task[c].kind = "start" /\ task[c].at # "queued" /\ StartFailed(c) /\ Lapse(c, "deadline")
      /\ UNCHANGED <<bundle, address, metadata>>
      /\ \/ state' = state \cup {On(c)} /\ init' = [init EXCEPT ![On(c)] = "created"]
         \/ init' = [init EXCEPT ![On(c)] = "running"] /\ UNCHANGED state
         \/ UNCHANGED <<state, init>>
  BY ZenonT(60) DEF Deadline
<1>2. task[c].at \in Early \cup Later
  <2>1. task[c] \in TaskRecord /\ Staged(c) BY ZenonT(60) DEF SafeInv, Shape
  <2>2. task[c].at \in Stages BY <2>1 DEF TaskRecord
  <2> QED BY <1>1, <2>1, <2>2 DEF Stages, Staged, Running
<1>3. On(c) \in Sandbox /\ Shape BY <1>2, ProgressAt
<1>4. /\ lapse' \in [Sandbox -> SUBSET Lapses] /\ \A t \in Sandbox \ {On(c)} : lapse'[t] = lapse[t]
      /\ lapse'[On(c)] = lapse[On(c)] \cup {"deadline"}
  BY <1>1, <1>3, LapseKeeps, Zenon DEF Lapses
<1>5. HostShape' /\ Elsewhere(On(c)) BY <1>1, <1>3, <1>4 DEF Shape, HostShape, Elsewhere
<1>6. On(c)' = On(c) BY <1>1, <1>3, ReturnMoves, Zenon DEF StartFailed, Moves, On
<1>7. Abandoned(On(c))' BY <1>4, <1>6 DEF Abandoned
<1> QED BY <1>1, <1>2, <1>5, <1>7, StartFailedSafe, Zenon

-----------------------------------------------------------------------------
(* Pausing and stopping. *)

\* A sandbox on which nobody but a task outside the open stages works.
LEMMA AtRest ==
  ASSUME SafeInv, NEW c \in Task, On(c) \in Sandbox, Working(c) \/ lock[On(c)] = None, task[c].at \notin Open
  PROVE  Settled(On(c))
<1>1. ASSUME NEW d \in Task, On(d) = On(c), task[d].at \in Open PROVE FALSE
  <2>1. Working(d) BY <1>1, Zenon DEF Open, Later, Working, Running, Ended
  <2> QED BY <1>1, <2>1, Alone
<1> QED BY <1>1, Zenon DEF SafeInv, Host

LEMMA FreezeSafe ==
  ASSUME SafeInv, NEW c \in Task, task[c].at \in {"pause", "unpause"}, NEW now \in {"running", "paused"},
         NEW ok \in BOOLEAN, Return(c, ok), UNCHANGED <<bundle, state, address, metadata, lapse>>,
         \/ Loaded(c) /\ init' = [init EXCEPT ![On(c)] = now] /\ entry' = [entry EXCEPT ![On(c)].state = now]
         \/ UNCHANGED <<init, entry>>
  PROVE  SafeInv'
<1>1. task[c].at \in Stages \ Ended /\ task[c].at # "queued" BY DEF Stages, Ended
<1>2. /\ Working(c) /\ On(c) \in Sandbox /\ Shape
      /\ entry[On(c)] # None /\ task[c].container = entry[On(c)].container
  BY <1>1, AtWork DEF SafeInv
<1>3. Settled(On(c)) BY <1>2, AtRest, Zenon DEF Open, Later
<1>4. On(c)' = On(c) BY <1>2, ReturnMoves DEF Moves, On
<1>5. CASE Loaded(c) /\ init' = [init EXCEPT ![On(c)] = now] /\ entry' = [entry EXCEPT ![On(c)].state = now]
  <2> DEFINE e == [entry[On(c)] EXCEPT !.state = now]
  <2>0. entry[On(c)] \in Entry BY <1>2 DEF Shape
  <2>1. e \in Entry /\ e.state = now BY <2>0, Zenon DEF Entry
  <2>2. entry' = [entry EXCEPT ![On(c)] = e] BY <1>5, ZenonT(30)
  <2> HIDE DEF e
  <2>3. /\ entry' \in [Sandbox -> Entry \cup {None}] /\ \A s \in Sandbox \ {On(c)} : entry'[s] = entry[s]
        /\ entry'[On(c)] = e
    BY <1>2, <2>1, <2>2, ZenonT(30) DEF Shape
  <2>4. entry[On(c)].state # "failed" BY <1>2, <1>5 DEF SafeInv, Host, Loaded
  <2>5. Whole(On(c)) BY <1>2, <1>3, <2>4 DEF Settled
  <2>6. /\ init' \in [Sandbox -> {"none", "created", "running", "paused"}] /\ init'[On(c)] = now
        /\ \A t \in Sandbox \ {On(c)} : init'[t] = init[t]
    BY <1>2, <1>5 DEF Shape, HostShape
  <2>7. HostShape' /\ Elsewhere(On(c)) BY <1>2, <2>6 DEF Shape, HostShape, Elsewhere
  <2>8. e # None /\ e.state # "failed" BY <2>1, NoneIsNew
  <2>9. Settled(On(c))' BY <1>4, <2>1, <2>3, <2>5, <2>6, <2>8, ZenonT(60) DEF Settled, Whole
  <2> QED BY <1>1, <1>2, <2>3, <2>7, <2>8, <2>9, ReturnSafe, ZenonT(30)
<1>6. CASE UNCHANGED <<init, entry>>
  <2>1. HostShape' /\ Elsewhere(On(c)) BY <1>6, SameHost DEF hostVars
  <2>2. Settled(On(c))' BY <1>3, <1>4, <1>6 DEF Settled, Whole, Abandoned
  <2> QED BY <1>1, <1>2, <1>6, <2>1, <2>2, ReturnSafe, ZenonT(30) DEF Shape, SafeInv, Host
<1> QED BY <1>5, <1>6

LEMMA PauseContainerSafe ==
  ASSUME SafeInv, NEW c \in Task, PauseContainer(c)
  PROVE  SafeInv'
<1>1. task[c].at \in {"pause", "unpause"} /\ UNCHANGED <<bundle, state, address, metadata, lapse>>
  BY DEF PauseContainer
<1>2. entry[On(c)] # None
  <2>1. task[c].at \in Stages \ Ended BY <1>1 DEF Stages, Ended
  <2> QED BY <1>1, <2>1, AtWork, Zenon
<1>3. CASE Loaded(c) /\ init' = [init EXCEPT ![On(c)] = "paused"] /\ Paused(c, TRUE)
  BY <1>1, <1>2, <1>3, FreezeSafe, Zenon DEF Paused
<1>4. CASE Paused(c, FALSE) /\ UNCHANGED init
  BY <1>1, <1>4, FreezeSafe, Zenon DEF Paused
<1> QED BY <1>3, <1>4, Zenon DEF PauseContainer

LEMMA UnpauseContainerSafe ==
  ASSUME SafeInv, NEW c \in Task, UnpauseContainer(c)
  PROVE  SafeInv'
<1>1. task[c].at \in {"pause", "unpause"} /\ UNCHANGED <<bundle, state, address, metadata, lapse>>
  BY ZenonT(60) DEF UnpauseContainer
<1>2. entry[On(c)] # None
  <2>1. task[c].at \in Stages \ Ended BY <1>1 DEF Stages, Ended
  <2> QED BY <1>1, <2>1, AtWork
<1>3. CASE Loaded(c) /\ init' = [init EXCEPT ![On(c)] = "running"] /\ Unpaused(c, TRUE)
  BY <1>1, <1>2, <1>3, FreezeSafe, Zenon DEF Unpaused
<1>4. CASE Unpaused(c, FALSE) /\ UNCHANGED init
  BY <1>1, <1>4, FreezeSafe, Zenon DEF Unpaused
<1> QED BY <1>3, <1>4, Zenon DEF UnpauseContainer

LEMMA StopTakesSafe ==
  ASSUME SafeInv, NEW c \in Task, StopTakes(c)
  PROVE  SafeInv'
<1>1. /\ task[c].at = "stop" /\ UNCHANGED <<idleVars, bundle, state, init, address, lapse>>
      /\ metadata' \in {metadata, metadata \ {On(c)}}
      /\ task[c].at \in Stages \ Ended
  BY DEF StopTakes, Stages, StopStages, Ended
<1>2. /\ Working(c) /\ On(c) \in Sandbox /\ Shape /\ Staged(c)
      /\ entry[On(c)] # None /\ task[c].container = entry[On(c)].container
  BY <1>1, AtWork, Zenon DEF SafeInv, StopStages
<1>3. Settled(On(c)) BY <1>1, <1>2, AtRest, Zenon DEF Open, Later
<1> DEFINE known == task[c].container # None /\ On(c) \in metadata
<1> DEFINE r == [task[c] EXCEPT !.at = "delete", !.known = known]
<1>4. task' = [task EXCEPT ![c] = r] BY <1>2, Zenon DEF StopTakes, Shape
<1>5. "delete" \in Stages /\ task[c] \in TaskRecord /\ known \in BOOLEAN BY <1>2 DEF Stages, StopStages, Shape
<1>6. (task[c].container # None /\ On(c) \in metadata) => known OBVIOUS
<1> HIDE DEF known
<1>7. /\ r \in TaskRecord /\ r.at = "delete" /\ r.kind = task[c].kind /\ r.sandbox = task[c].sandbox
      /\ r.container = task[c].container /\ r.known = known
  BY <1>5, Zenon DEF TaskRecord
<1> HIDE DEF r
<1>8. Moves(c, "delete") /\ task'[c] = r BY <1>2, <1>4, <1>7, Updated, ZenonT(60)
<1>9. On(c)' = On(c) BY <1>8 DEF Moves, On
<1>10. HostShape' /\ Elsewhere(On(c)) BY <1>1, <1>2, Zenon DEF Shape, HostShape, Elsewhere
<1>11. UNCHANGED <<entry, lock, sent, doomed>> BY <1>1 DEF idleVars
<1>12. Progress(c)'
  <2>1. task'[c].at = "delete" /\ task'[c].known = known /\ task'[c].container = task[c].container BY <1>7, <1>8, Zenon
  <2>2. entry[On(c)].state # "failed" => Whole(On(c)) BY <1>2, <1>3, Zenon DEF Settled
  <2> QED BY <1>1, <1>6, <1>9, <1>11, <2>1, <2>2, Zenon DEF Progress, Whole, Early
<1>13. entry[On(c)].state = "failed" => Abandoned(On(c))' BY <1>1, <1>3, <1>9, Zenon DEF Settled, Abandoned
<1>14. "delete" \in Open /\ "delete" \in Stages \ Ended /\ "delete" \in StopStages /\ "delete" \notin Early \cup Later
       /\ task[c].kind = "stop"
  BY <1>1, <1>2, Zenon DEF Open, Stages, StopStages, Ended, Early, Later, Staged
<1> QED BY <1>1, <1>2, <1>7, <1>8, <1>10, <1>11, <1>12, <1>13, <1>14, StageSafe, Zenon

LEMMA StoppedSafe ==
  ASSUME SafeInv, NEW c \in Task, task[c].at \in StopStages, NEW ok \in BOOLEAN, Stopped(c, ok),
         HostShape', Elsewhere(On(c)),
         IF ok THEN Abandoned(On(c))'
         ELSE "stop" \in lapse'[On(c)] /\ (entry[On(c)].state = "failed" => Abandoned(On(c))')
  PROVE  SafeInv'
<1>1. task[c].at \in Stages \ Ended /\ task[c].at # "queued" BY Zenon DEF Stages, StopStages, Ended
<1>2. Working(c) /\ On(c) \in Sandbox /\ Shape /\ entry[On(c)] # None BY <1>1, AtWork, Zenon DEF SafeInv
<1>3. Return(c, ok) BY Zenon DEF Stopped
<1>4. On(c)' = On(c) BY <1>2, <1>3, ReturnMoves, Zenon DEF Moves, On
<1>5. /\ entry' \in [Sandbox -> Entry \cup {None}] /\ \A s \in Sandbox \ {On(c)} : entry'[s] = entry[s]
      /\ entry'[On(c)] = IF ok THEN None ELSE entry[On(c)]
  BY <1>2, Zenon DEF Stopped, Shape
<1>6. entry'[On(c)] # None /\ entry'[On(c)].state = "failed" => entry'[On(c)].container = None
  BY <1>2, <1>5, Zenon DEF SafeInv, Host
<1>7. Settled(On(c))' BY <1>2, <1>4, <1>5, Zenon DEF Settled, Whole
<1> QED BY <1>1, <1>2, <1>3, <1>5, <1>6, <1>7, ReturnSafe, Zenon

LEMMA StopDeletesSafe ==
  ASSUME SafeInv, NEW c \in Task, StopDeletes(c)
  PROVE  SafeInv'
<1>1. task[c].at = "delete" /\ task[c].at \in StopStages /\ UNCHANGED <<bundle, address, metadata>>
  BY Zenon DEF StopDeletes, StopStages
<1>0. task[c].at \in Stages \ Ended /\ task[c].at # "queued" BY <1>1, Zenon DEF Stages, StopStages, Ended
<1>2. /\ Working(c) /\ On(c) \in Sandbox /\ Shape /\ Staged(c) /\ Progress(c) /\ Host(On(c))
      /\ entry[On(c)] # None /\ task[c].container = entry[On(c)].container /\ task[c].kind = "stop"
  BY <1>0, <1>1, AtWork, Zenon DEF SafeInv, Staged
<1>3. CASE /\ Loaded(c)
           /\ state' = state \ {On(c)} /\ init' = [init EXCEPT ![On(c)] = "none"]
           /\ UNCHANGED lapse
  <2>1. HostShape' /\ Elsewhere(On(c)) BY <1>1, <1>2, <1>3, Zenon DEF Shape, HostShape, Elsewhere
  <2>2. entry[On(c)].state # "failed" /\ task[c].container # None BY <1>2, <1>3, Zenon DEF Loaded, Host
  <2>3. CASE task[c].known /\ Goto(c, "network") /\ UNCHANGED idleVars
    <3>1. /\ "network" \in Stages \ Ended /\ "network" \in StopStages /\ "network" \in Open
          /\ "network" \notin Early \cup Later
      BY DEF Stages, StopStages, Ended, Open, Early, Later
    <3>2. Moves(c, "network") /\ task'[c].container = task[c].container BY <1>2, <2>3, <3>1, GotoMoves, Zenon
    <3>3. UNCHANGED <<entry, lock, sent, doomed>> BY <2>3, ZenonT(60) DEF idleVars
    <3>4. On(c)' = On(c) /\ task'[c].at = "network" BY <3>2 DEF Moves, On
    <3>5. Progress(c)' BY <1>3, <2>2, <3>3, <3>4, Zenon DEF Progress, Early
    <3> QED BY <1>0, <1>2, <2>1, <3>1, <3>2, <3>3, <3>5, StageSafe, Zenon
  <2>4. CASE ~task[c].known /\ Stopped(c, TRUE)
    <3>1. "stop" \in lapse[On(c)] BY <1>1, <1>2, <2>2, <2>4, Zenon DEF Progress
    <3>2. On(c)' = On(c) BY <1>2, <2>4, ReturnMoves, Zenon DEF Stopped, Moves, On
    <3>3. Abandoned(On(c))' BY <1>3, <3>1, <3>2, Zenon DEF Abandoned
    <3> QED BY <1>1, <2>1, <2>4, <3>3, StoppedSafe, Zenon
  <2> QED BY <1>3, <2>3, <2>4, Zenon DEF StopDeletes, Loaded
<1>4. CASE /\ Stopped(c, FALSE) /\ Lapse(c, "stop") /\ UNCHANGED state
           /\ UNCHANGED init \/ \E now \in {"running", "none"} : init' = [init EXCEPT ![On(c)] = now]
  <2>1. /\ lapse' \in [Sandbox -> SUBSET Lapses] /\ \A t \in Sandbox \ {On(c)} : lapse'[t] = lapse[t]
        /\ lapse'[On(c)] = lapse[On(c)] \cup {"stop"}
    BY <1>2, <1>4, LapseKeeps, Zenon DEF Lapses
  <2>0. /\ init' \in [Sandbox -> {"none", "created", "running", "paused"}]
        /\ \A t \in Sandbox \ {On(c)} : init'[t] = init[t]
    <3>1. init \in [Sandbox -> {"none", "created", "running", "paused"}] BY <1>2 DEF Shape, HostShape
    <3> QED BY <1>2, <1>4, <3>1, ZenonT(60)
  <2>2. HostShape' /\ Elsewhere(On(c))
    <3>1. HostShape' BY <1>1, <1>2, <1>4, <2>0, <2>1, Zenon DEF Shape, HostShape
    <3>2. Elsewhere(On(c)) BY <1>1, <1>4, <2>0, <2>1 DEF Elsewhere
    <3> QED BY <3>1, <3>2
  <2>3. On(c)' = On(c) BY <1>2, <1>4, ReturnMoves, Zenon DEF Stopped, Moves, On
  <2>4. entry[On(c)].state = "failed" => Abandoned(On(c))'
    BY <1>1, <1>2, <1>4, <2>1, <2>3, Zenon DEF Host, Abandoned
  <2> QED BY <1>1, <1>4, <2>1, <2>2, <2>4, StoppedSafe, Zenon
<1> QED BY <1>3, <1>4, Zenon DEF StopDeletes

LEMMA StopNetworkSafe ==
  ASSUME SafeInv, NEW c \in Task, StopNetwork(c)
  PROVE  SafeInv'
<1>1. task[c].at = "network" /\ Goto(c, "directory") /\ UNCHANGED <<idleVars, bundle, state, init, metadata>>
  BY ZenonT(30) DEF StopNetwork
<1>0. task[c].at \in Stages \ Ended /\ task[c].at # "queued" BY <1>1 DEF Stages, StopStages, Ended
<1>2. /\ Working(c) /\ On(c) \in Sandbox /\ Shape /\ Progress(c) /\ task[c].kind = "stop"
  BY <1>0, <1>1, AtWork, Zenon DEF SafeInv, Staged, StopStages
<1>3. /\ lapse' \in [Sandbox -> SUBSET Lapses] /\ \A t \in Sandbox \ {On(c)} : lapse'[t] = lapse[t]
      /\ address' \in {address, address \ {On(c)}}
      /\ On(c) \in address' => "del" \in lapse'[On(c)]
  <2>1. CASE address' = address \ {On(c)} /\ UNCHANGED lapse BY <1>2, <2>1, ZenonT(60) DEF Shape, HostShape
  <2>2. CASE UNCHANGED address /\ Lapse(c, "del") BY <1>2, <2>2, LapseKeeps, ZenonT(60) DEF Lapses
  <2> QED BY <2>1, <2>2, Zenon DEF StopNetwork
<1>4. HostShape' /\ Elsewhere(On(c)) BY <1>1, <1>2, <1>3 DEF Shape, HostShape, Elsewhere
<1>5. /\ "directory" \in Stages \ Ended /\ "directory" \in StopStages /\ "directory" \in Open
      /\ "directory" \notin Early \cup Later
  BY ZenonT(60) DEF Stages, StopStages, Ended, Open, Early, Later
<1>6. Moves(c, "directory") /\ task'[c].container = task[c].container BY <1>1, <1>2, <1>5, GotoMoves, ZenonT(30)
<1>7. UNCHANGED <<entry, lock, sent, doomed>> BY <1>1, ZenonT(30) DEF idleVars
<1>8. On(c)' = On(c) /\ task'[c].at = "directory" BY <1>6 DEF Moves, On
<1>9. Progress(c)' BY <1>1, <1>2, <1>3, <1>7, <1>8, Zenon DEF Progress, Early
<1> QED BY <1>0, <1>2, <1>4, <1>5, <1>6, <1>7, <1>9, StageSafe, Zenon

LEMMA StopDirectorySafe ==
  ASSUME SafeInv, NEW c \in Task, StopDirectory(c)
  PROVE  SafeInv'
<1>1. /\ task[c].at = "directory" /\ task[c].at \in StopStages /\ Stopped(c, TRUE)
      /\ UNCHANGED <<state, init, address, metadata>>
  BY Zenon DEF StopDirectory, StopStages
<1>0. task[c].at \in Stages \ Ended BY <1>1 DEF Stages, Ended
<1>2. On(c) \in Sandbox /\ Shape /\ Progress(c) BY <1>0, AtWork, Zenon DEF SafeInv
<1>3. /\ lapse' \in [Sandbox -> SUBSET Lapses] /\ \A t \in Sandbox \ {On(c)} : lapse'[t] = lapse[t]
      /\ lapse[On(c)] \subseteq lapse'[On(c)]
      /\ bundle' \in {bundle, bundle \ {On(c)}}
      /\ On(c) \in bundle' => "rollback" \in lapse'[On(c)]
  <2>1. CASE bundle' = bundle \ {On(c)} /\ UNCHANGED lapse BY <1>2, <2>1, ZenonT(60) DEF Shape, HostShape
  <2>2. CASE UNCHANGED bundle /\ Lapse(c, "rollback") BY <1>2, <2>2, LapseKeeps, ZenonT(60) DEF Lapses
  <2> QED BY <2>1, <2>2 DEF StopDirectory
<1>4. HostShape' /\ Elsewhere(On(c)) BY <1>1, <1>2, <1>3 DEF Shape, HostShape, Elsewhere
<1>5. On(c)' = On(c) BY <1>1, <1>2, ReturnMoves, Zenon DEF Stopped, Moves, On
<1>6. Abandoned(On(c))' BY <1>1, <1>2, <1>3, <1>5, Zenon DEF Progress, Abandoned
<1> QED BY <1>1, <1>4, <1>6, StoppedSafe, Zenon

-----------------------------------------------------------------------------
(* The manager's steps: a task that leaves the queue of its lock. *)

LEMMA Dequeued ==
  ASSUME SafeInv, NEW c \in Task, task[c].at = "queued", lock[On(c)] = None,
         lock' = [lock EXCEPT ![On(c)] = c], UNCHANGED <<entry, sent, doomed, hostVars, lapse>>,
         NEW at \in {"create", "stop", "pause", "unpause"}, Moves(c, at),
         IF at = "create" THEN task[c].kind = "start"
         ELSE /\ task[c].kind = at
              /\ entry[On(c)] # None /\ task'[c].container = entry[On(c)].container
  PROVE  SafeInv'
<1>1. task[c].at \in Stages \ Ended BY Zenon DEF Stages, Ended
<1>2. Running(c) /\ On(c) \in Sandbox /\ Shape /\ Staged(c) /\ Progress(c) BY <1>1, AtWork, Zenon DEF SafeInv
<1>3. HostShape' /\ Elsewhere(On(c)) BY SameHost, Zenon
<1>4. On(c)' = On(c) /\ task'[c].at = at /\ task'[c].kind = task[c].kind BY DEF Moves, On
<1>5. Shape' BY <1>2, <1>3, Zenon DEF Shape, Moves
<1>6. Local(c) BY <1>2, <1>3, Zenon DEF Local, Moves, Shape
<1>7. Staged(c)' BY <1>2, <1>4, Zenon DEF Staged, Early, Later, StopStages
<1>8. Locked(c)' BY <1>2, <1>4, Zenon DEF Locked, Shape
<1>9. Progress(c)' BY <1>2, <1>4, Zenon DEF Progress, Early, Clean, hostVars
<1>10. Settled(On(c))'
  <2>1. Settled(On(c)) BY <1>2, AtRest, Zenon DEF Open, Later
  <2> QED BY <1>4, <2>1, Zenon DEF Settled, Abandoned, Whole, hostVars
<1>11. Clean(On(c)) => Clean(On(c))' BY <1>4, Zenon DEF Clean, hostVars
<1>12. entry[On(c)] # None /\ entry[On(c)].state = "failed" => entry[On(c)].container = None
  BY <1>2, Zenon DEF SafeInv, Host
<1> QED BY <1>2, <1>4, <1>5, <1>6, <1>7, <1>8, <1>9, <1>10, <1>11, <1>12, LocalSafe, Zenon

LEMMA StartBeginsSafe ==
  ASSUME SafeInv, NEW c \in Task, StartBegins(c), UNCHANGED <<hostVars, lapse>>
  PROVE  SafeInv'
<1>1. Shape /\ "create" \in Stages BY DEF SafeInv, Stages, Early
<1>2. Moves(c, "create") BY <1>1, GotoMoves, Zenon DEF StartBegins
<1> QED BY <1>2, Dequeued, Zenon DEF StartBegins

LEMMA ReturnsAtOnceSafe ==
  ASSUME SafeInv, NEW c \in Task, ReturnsAtOnce(c), UNCHANGED <<hostVars, lapse>>
  PROVE  SafeInv'
<1>1. task[c].at = "queued" /\ lock[On(c)] = None /\ UNCHANGED entry BY DEF ReturnsAtOnce
<1>2. task[c].at \in Stages \ Ended BY <1>1, ZenonT(60) DEF Stages, Ended
<1>3. On(c) \in Sandbox /\ Shape BY <1>2, AtWork DEF SafeInv
<1>4. PICK ok \in BOOLEAN : Return(c, ok) BY Zenon DEF ReturnsAtOnce
<1>5. HostShape' /\ Elsewhere(On(c)) BY SameHost, ZenonT(60)
<1>6. On(c)' = On(c) BY <1>3, <1>4, ReturnMoves, ZenonT(60) DEF Moves, On
<1>7. Settled(On(c))'
  <2>1. Settled(On(c)) BY <1>1, <1>3, AtRest, Zenon DEF Open, Later
  <2> QED BY <1>1, <1>6, <2>1, ZenonT(60) DEF Settled, Abandoned, Whole, hostVars
<1>8. entry[On(c)] # None /\ entry[On(c)].state = "failed" => entry[On(c)].container = None
  BY <1>3, Zenon DEF SafeInv, Host
<1>9. entry' \in [Sandbox -> Entry \cup {None}] BY <1>1, <1>3 DEF Shape
<1> QED BY <1>1, <1>2, <1>4, <1>5, <1>7, <1>8, <1>9, ReturnSafe, ZenonT(60)

LEMMA CallsRuntimeSafe ==
  ASSUME SafeInv, NEW c \in Task, CallsRuntime(c), UNCHANGED <<hostVars, lapse>>
  PROVE  SafeInv'
<1> DEFINE r == [task[c] EXCEPT !.at = task[c].kind, !.container = entry[On(c)].container]
<1>1. Shape /\ task[c] \in TaskRecord BY DEF SafeInv, Shape
<1>2. On(c) \in Sandbox BY DEF SafeInv, Announced, CallsRuntime
<1>3. entry[On(c)].container \in Nat \cup Sandbox \cup {None}
  BY <1>1, <1>2 DEF CallsRuntime, Shape, Entry
<1>4. task[c].kind \in Stages /\ task[c].kind \in {"stop", "pause", "unpause"}
  BY <1>1 DEF CallsRuntime, TaskRecord, Kind, Stages, StopStages
<1>5. /\ r \in TaskRecord /\ r.at = task[c].kind /\ r.kind = task[c].kind /\ r.sandbox = task[c].sandbox
      /\ r.container = entry[On(c)].container
  BY <1>1, <1>3, <1>4, Zenon DEF TaskRecord
<1>6. task' = [task EXCEPT ![c] = r] BY <1>1, Zenon DEF CallsRuntime, Shape
<1> HIDE DEF r
<1>7. Moves(c, task[c].kind) /\ task'[c].container = entry[On(c)].container BY <1>1, <1>5, <1>6, Updated, Zenon
<1> QED BY <1>4, <1>7, Dequeued, Zenon DEF CallsRuntime

-----------------------------------------------------------------------------
(* The stream and the process. *)

\* The host and the tasks at work stay as they are.
LEMMA HostKept ==
  ASSUME SafeInv, UNCHANGED <<entry, hostVars, lapse>>, \A s \in Sandbox : sent[s] # "never" => sent'[s] # "never",
         \A d \in Task : Working(d) \/ Working(d)' => task'[d] = task[d]
  PROVE  \A s \in Sandbox : Host(s)'
<1> SUFFICES ASSUME NEW s \in Sandbox PROVE Host(s)' OBVIOUS
<1>1. Host(s) BY ZenonT(60) DEF SafeInv
<1>2. (Clean(s)' <=> Clean(s)) /\ (Abandoned(s)' <=> Abandoned(s)) /\ (Settled(s)' <=> Settled(s))
  BY DEF Clean, Abandoned, Settled, Whole, hostVars
<1>3. ASSUME NEW d \in Task
      PROVE  /\ task[d].at \in Open => task'[d] = task[d]
             /\ task'[d].at = "delete" => task'[d] = task[d]
  BY Zenon DEF Working, Running, Open, Later, Ended
<1>4. \A d \in Task : task'[d] = task[d] => On(d)' = On(d) BY DEF On
<1>5. Settled(s)' \/ \E d \in Task : On(d)' = s /\ task'[d].at \in Open BY <1>1, <1>2, <1>3, <1>4, Zenon DEF Host
<1>6. \A d \in Task : task'[d].at = "delete" /\ On(d)' = s /\ entry[s].state = "failed" => Abandoned(s)'
  BY <1>1, <1>2, <1>3, <1>4, Zenon DEF Host
<1> QED BY <1>1, <1>2, <1>5, <1>6, Zenon DEF Host

LEMMA StartsKept ==
  ASSUME Starts, UNCHANGED entry, \A d \in Command : Starting(d)' => Starting(d) /\ On(d)' = On(d)
  PROVE  Starts'
<1> SUFFICES ASSUME NEW d \in Command, Starting(d)'
             PROVE  entry'[On(d)'] = None /\ \A e \in Command : Starting(e)' /\ On(e)' = On(d)' => e = d
  BY Zenon DEF Starts
<1>1. Starting(d) /\ On(d)' = On(d) BY Zenon
<1>2. entry'[On(d)'] = None BY <1>1, Zenon DEF Starts
<1>3. \A e \in Command : Starting(e)' /\ On(e)' = On(d)' => e = d BY <1>1, Zenon DEF Starts
<1> QED BY <1>2, <1>3

LEMMA ReceiveSafe ==
  ASSUME SafeInv, NEW c \in Command, NEW k \in Kind, NEW s \in Sandbox, NEW g \in Config,
         Receive(c, k, s, g), UNCHANGED <<hostVars, lapse>>
  PROVE  SafeInv'
<1>a. Shape /\ Announced /\ Starts BY DEF SafeInv
<1>b. \A d \in Task : Staged(d) /\ Locked(d) /\ Progress(d) BY DEF SafeInv
<1>c. \A t \in Sandbox : Host(t) BY DEF SafeInv
<1> DEFINE r == [Idle EXCEPT !.kind = k, !.sandbox = s, !.at = "queued", !.config = g]
<1>0. c \in Task /\ c # Main /\ task[c].at = "unsent" BY MainIsNoCommand DEF Receive
<1>1. r \in TaskRecord /\ r.at = "queued" /\ r.kind = k /\ r.sandbox = s
  <2>1. "queued" \in Stages BY DEF Stages
  <2> QED BY <2>1, Zenon DEF TaskRecord, Idle
<1>2. task' = [task EXCEPT ![c] = r] BY DEF Receive
<1>3. UNCHANGED <<entry, lock, doomed>> BY DEF Receive
<1>4. sent' = [sent EXCEPT ![s] = "here"] /\ Sendable(k, s) BY DEF Receive
<1> HIDE DEF r
<1>5. /\ task' \in [Task -> TaskRecord]
      /\ \A d \in Task \ {c} : task'[d] = task[d] /\ On(d)' = On(d)
      /\ task'[c].at = "queued" /\ task'[c].kind = k /\ On(c)' = s
  BY <1>a, <1>0, <1>1, <1>2, ZenonT(60) DEF Shape, On
<1>6. Shape' BY <1>a, <1>3, <1>4, <1>5, ZenonT(60) DEF Shape, HostShape, hostVars
<1>7. Announced' BY <1>a, <1>3, <1>4, <1>5 DEF Shape, Announced
<1>8. \A d \in Task : Staged(d)' BY <1>b, <1>0, <1>3, <1>5, ZenonT(60) DEF Staged, Early, Later, StopStages, Running
<1>9. \A d \in Command \ {c} : Starting(d)' <=> Starting(d)
  BY <1>5, MainIsNoCommand, Zenon DEF Starting, Running
<1>10. ASSUME k = "start"
       PROVE  entry[s] = None /\ Clean(s) /\ \A d \in Task : task[d].at # "unsent" => On(d) # s
  <2>1. sent[s] = "never" BY <1>4, <1>10, Zenon DEF Sendable
  <2> QED BY <1>a, <1>c, <2>1, Zenon DEF Announced, Host
<1>11. Starts'
  <2>1. \A d \in Command \ {c} : Starting(d) => ~(k = "start" /\ On(d) = s)
    BY <1>10, MainIsNoCommand, Zenon DEF Starting, Running, Ended
  <2>2. Starting(c)' => k = "start" BY <1>5, Zenon DEF Starting
  <2> SUFFICES ASSUME NEW d \in Command, Starting(d)'
               PROVE  entry'[On(d)'] = None /\ \A e \in Command : Starting(e)' /\ On(e)' = On(d)' => e = d
    BY Zenon DEF Starts
  <2>3. \A e \in Command \ {c} : Starting(e)' => Starting(e) /\ On(e)' = On(e) BY <1>5, <1>9, MainIsNoCommand, Zenon
  <2>4. CASE d = c
    <3>1. k = "start" /\ On(d)' = s BY <1>5, <2>2, <2>4, Zenon
    <3>2. \A e \in Command \ {c} : Starting(e)' => On(e)' # s BY <2>1, <2>3, <3>1, Zenon
    <3> QED BY <1>3, <1>10, <2>4, <3>1, <3>2, Zenon
  <2>5. CASE d # c
    <3>1. Starting(d) /\ On(d)' = On(d) BY <2>3, <2>5, Zenon
    <3>2. entry'[On(d)'] = None BY <1>a, <1>3, <3>1, Zenon DEF Starts
    <3>3. Starting(c)' => On(c)' # On(d)' BY <1>5, <2>1, <2>2, <2>5, <3>1, Zenon
    <3>4. \A e \in Command \ {c} : Starting(e)' /\ On(e)' = On(d)' => e = d BY <1>a, <2>3, <3>1, Zenon DEF Starts
    <3> QED BY <3>2, <3>3, <3>4, Zenon
  <2> QED BY <2>4, <2>5, Zenon
<1>12. ASSUME NEW d \in Task \ {c} PROVE Locked(d)' /\ Progress(d)'
  <2>1. task'[d] = task[d] /\ On(d)' = On(d) /\ (Working(d)' <=> Working(d)) BY <1>5 DEF Working, Running
  <2>2. Locked(d)' BY <1>b, <1>3, <2>1, Zenon DEF Locked
  <2>3. Progress(d)' BY <1>b, <1>3, <2>1, Zenon DEF Progress, Clean, hostVars
  <2> QED BY <2>2, <2>3, ZenonT(60)
<1>13. Locked(c)' /\ Progress(c)'
  <2>1. Locked(c)' BY <1>b, <1>5, Zenon DEF Locked, Working
  <2>2. Progress(c)' BY <1>b, <1>5, <1>10, Zenon DEF Progress, Clean, hostVars, Early
  <2> QED BY <2>1, <2>2
<1>14. \A t \in Sandbox : Host(t)'
  <2>1. \A t \in Sandbox : sent[t] # "never" => sent'[t] # "never" BY <1>a, <1>4 DEF Shape
  <2>2. ~Working(c) /\ ~Working(c)' BY <1>0, <1>5, Zenon DEF Working, Running, Ended
  <2> QED BY <1>3, <1>5, <2>1, <2>2, HostKept, ZenonT(60)
<1> QED BY <1>6, <1>7, <1>8, <1>11, <1>12, <1>13, <1>14, ZenonT(60) DEF SafeInv

\* The manager's table, tasks and locks stay, and so does the host.
LEMMA FrameSafe ==
  ASSUME SafeInv, UNCHANGED <<entry, lock, task, sent, hostVars, lapse>>, doomed' \subseteq Sandbox,
         \A s \in doomed' : s \in doomed \/ entry[s] # None
  PROVE  SafeInv'
<1>a. Shape /\ Announced /\ Starts BY DEF SafeInv
<1>b. \A c \in Task : Staged(c) /\ Locked(c) /\ Progress(c) BY DEF SafeInv
<1>c. \A s \in Sandbox : Host(s) BY DEF SafeInv
<1>1. \A c \in Task : (Running(c)' <=> Running(c)) /\ On(c)' = On(c) /\ (Starting(c)' <=> Starting(c)) /\ (Working(c)' <=> Working(c))
  BY ZenonT(60) DEF Running, On, Starting, Working
<1>2. Shape' /\ Announced' BY <1>a, <1>1 DEF Shape, Announced, HostShape, hostVars
<1>3. \A c \in Task : Staged(c)' /\ Locked(c)' BY <1>b, <1>1, ZenonT(120) DEF Staged, Locked
<1>4. \A c \in Task : Progress(c)' BY <1>b, <1>1, ZenonT(60) DEF Progress, Clean, hostVars
<1>5. Starts' BY <1>a, <1>1, MainIsNoCommand, StartsKept
<1>6. \A s \in Sandbox : Host(s)' BY HostKept
<1> QED BY <1>2, <1>3, <1>4, <1>5, <1>6 DEF SafeInv

LEMMA ShutdownStopsSafe ==
  ASSUME SafeInv, NEW s \in Sandbox, ShutdownStops(s), UNCHANGED <<hostVars, lapse>>
  PROVE  SafeInv'
<1>a. Shape /\ Announced /\ Starts BY DEF SafeInv
<1>b. \A c \in Task : Staged(c) /\ Locked(c) /\ Progress(c) BY DEF SafeInv
<1>c. \A t \in Sandbox : Host(t) BY DEF SafeInv
<1> DEFINE r == [Idle EXCEPT !.kind = "stop", !.sandbox = s, !.at = "queued"]
<1>1. r \in TaskRecord /\ r.at = "queued" /\ r.kind = "stop" /\ r.sandbox = s
  <2>1. "queued" \in Stages BY DEF Stages
  <2> QED BY <2>1, Zenon DEF TaskRecord, Idle, Kind, Config, NoConfig
<1>2. task' = [task EXCEPT ![Main] = r] BY DEF ShutdownStops
<1>3. UNCHANGED <<entry, lock, sent>> BY DEF ShutdownStops
<1>4. doomed' \subseteq doomed /\ s \in doomed /\ ~Running(Main) BY DEF ShutdownStops
<1> HIDE DEF r
<1>5. /\ task' \in [Task -> TaskRecord]
      /\ \A d \in Command : task'[d] = task[d] /\ On(d)' = On(d)
      /\ Main \in Task /\ task'[Main].at = "queued" /\ task'[Main].kind = "stop" /\ On(Main)' = s
  BY <1>a, <1>1, <1>2, MainIsNoCommand, ZenonT(60) DEF Shape, On, Task
<1>6. \A d \in Command : (Starting(d)' <=> Starting(d)) /\ (Running(d)' <=> Running(d)) /\ (Working(d)' <=> Working(d))
  BY <1>5, ZenonT(60) DEF Starting, Running, Working
<1>7. Shape' BY <1>a, <1>3, <1>4, <1>5 DEF Shape, HostShape, hostVars
<1>8. Announced' BY <1>a, <1>3, <1>4, <1>5, Zenon DEF Announced, Task
<1>9. ~Working(Main) /\ ~Working(Main)' BY <1>4, <1>5, Zenon DEF Working
<1>10. Staged(Main)' /\ Locked(Main)' /\ Progress(Main)'
  <2>1. Staged(Main)' BY <1>b, <1>5, Zenon DEF Staged, Early, Later, StopStages
  <2>2. Locked(Main)' BY <1>b, <1>9, Zenon DEF Locked
  <2>3. Progress(Main)' BY <1>b, <1>5, Zenon DEF Progress, Early
  <2> QED BY <2>1, <2>2, <2>3
<1>11. ASSUME NEW d \in Command PROVE Staged(d)' /\ Locked(d)' /\ Progress(d)'
  <2>1. Staged(d)' BY <1>b, <1>5, MainIsNoCommand, ZenonT(60) DEF Staged
  <2>2. Locked(d)'
    <3>1. Locked(d) /\ task'[d] = task[d] /\ On(d)' = On(d) /\ (Working(d)' <=> Working(d))
      BY <1>b, <1>5, <1>6, MainIsNoCommand, ZenonT(60)
    <3> QED BY <1>3, <3>1, Zenon DEF Locked
  <2>3. Progress(d)' BY <1>b, <1>3, <1>5, MainIsNoCommand, ZenonT(60) DEF Progress, Clean, hostVars
  <2> QED BY <2>1, <2>2, <2>3
<1>12. Starts' BY <1>a, <1>3, <1>5, <1>6, StartsKept, ZenonT(60)
<1>13. \A t \in Sandbox : Host(t)'
  <2>1. \A d \in Task : Working(d) \/ Working(d)' => task'[d] = task[d] BY <1>5, <1>9, Zenon DEF Task
  <2> QED BY <1>3, <2>1, HostKept
<1> QED BY <1>7, <1>8, <1>10, <1>11, <1>12, <1>13, ZenonT(30) DEF Task, SafeInv

Rests(k, s, at) == [Idle EXCEPT !.kind = k, !.sandbox = s, !.at = at]

LEMMA RestsIsTask ==
  ASSUME NEW k \in Kind, NEW s \in Sandbox \cup {None}, NEW at \in Stages
  PROVE  /\ Rests(k, s, at) \in TaskRecord /\ Rests(k, s, at).kind = k
         /\ Rests(k, s, at).sandbox = s /\ Rests(k, s, at).at = at
BY Zenon DEF Rests, TaskRecord, Idle, Config, NoConfig

\* The process ends: what it had in its table or was working on has a lapse.
LEMMA ProcessEndsSafe ==
  ASSUME SafeInv, ProcessEnds, metadata' = {},
         lapse' = [s \in Sandbox |->
           IF entry[s] # None \/ \E c \in Command : Running(c) /\ On(c) = s
           THEN lapse[s] \cup {"process"} ELSE lapse[s]],
         UNCHANGED <<bundle, state, init, address>>
  PROVE  SafeInv'
<1>a. Shape /\ Announced /\ Starts BY ZenonT(60) DEF SafeInv
<1>b. \A c \in Task : Staged(c) /\ Locked(c) /\ Progress(c) BY ZenonT(60) DEF SafeInv
<1>c. \A s \in Sandbox : Host(s) BY DEF SafeInv
<1> DEFINE r(c) == [Idle EXCEPT !.kind = task[c].kind, !.sandbox = On(c),
                                !.at = IF c = Main THEN "unsent" ELSE "lost"]
<1>1. ASSUME NEW c \in Task
      PROVE  /\ r(c) \in TaskRecord /\ r(c).kind = task[c].kind /\ r(c).sandbox = task[c].sandbox
             /\ r(c).at = IF c = Main THEN "unsent" ELSE "lost"
  <2> DEFINE at == IF c = Main THEN "unsent" ELSE "lost"
  <2>1. at \in Stages /\ task[c] \in TaskRecord BY <1>a, Zenon DEF Stages, Ended, Shape
  <2>2. task[c].kind \in Kind /\ On(c) \in Sandbox \cup {None} BY <2>1, Zenon DEF TaskRecord, On
  <2> HIDE DEF at
  <2> DEFINE k == task[c].kind
             u == On(c)
  <2>3. r(c) = Rests(k, u, at) BY ZenonT(60) DEF Rests, at
  <2>4. k \in Kind /\ u \in Sandbox \cup {None} BY <2>2, ZenonT(60)
  <2> HIDE DEF r, k, u
  <2>5. /\ Rests(k, u, at) \in TaskRecord /\ Rests(k, u, at).kind = k
        /\ Rests(k, u, at).sandbox = u /\ Rests(k, u, at).at = at
    BY <2>1, <2>4, RestsIsTask
  <2> QED BY <2>3, <2>5, Zenon DEF at, k, u, On
<1>2. task' = [c \in Task |-> IF Running(c) THEN r(c) ELSE task[c]] BY Zenon DEF ProcessEnds
<1> HIDE DEF r
<1>3. /\ task' \in [Task -> TaskRecord]
      /\ \A c \in Task : /\ task'[c].kind = task[c].kind /\ On(c)' = On(c)
                         /\ Running(c) => task'[c].at = IF c = Main THEN "unsent" ELSE "lost"
                         /\ ~Running(c) => task'[c] = task[c]
  BY <1>a, <1>1, <1>2 DEF Shape, On
<1>4. \A c \in Task : ~Running(c)' /\ task'[c].at \in Ended BY <1>3, Zenon DEF Running, Ended
<1>5. /\ entry' = [s \in Sandbox |-> None] /\ lock' = [s \in Sandbox |-> None] /\ doomed' = {}
      /\ sent' \in [Sandbox -> {"never", "here", "before"}]
      /\ \A s \in Sandbox : (sent[s] = "never") <=> (sent'[s] = "never")
  BY <1>a, Zenon DEF ProcessEnds, Shape
<1>6. Shape'
  <2>1. "process" \in Lapses BY DEF Lapses
  <2> QED BY <1>a, <1>3, <1>5, <2>1, ZenonT(60) DEF Shape, HostShape
<1>7. Announced'
  <2>1. ASSUME NEW c \in Task, task'[c].at # "unsent" PROVE On(c)' \in Sandbox /\ sent'[On(c)'] # "never"
    <3>1. task[c].at # "unsent" BY <1>3, <2>1, ZenonT(60) DEF Running, Ended
    <3>2. On(c) \in Sandbox /\ sent[On(c)] # "never" BY <1>a, <3>1, ZenonT(60) DEF Announced
    <3> QED BY <1>3, <1>5, <3>2, ZenonT(60)
  <2>2. \A s \in Sandbox : entry'[s] = None /\ s \notin doomed' BY <1>5, ZenonT(60)
  <2> QED BY <2>1, <2>2, Zenon DEF Announced
<1>8. ASSUME NEW c \in Task PROVE Staged(c)' /\ Locked(c)' /\ Progress(c)'
  <2>1. Staged(c)' BY <1>b, <1>3, <1>4, MainIsNoCommand, ZenonT(60) DEF Staged, Running, Ended, Early, Later, StopStages
  <2>2. Locked(c)' BY <1>b, <1>4, Zenon DEF Locked, Working
  <2>3. Progress(c)' BY <1>b, <1>4, Zenon DEF Progress, Early, Ended
  <2> QED BY <2>1, <2>2, <2>3, ZenonT(30)
<1>9. Starts' BY <1>a, <1>4, MainIsNoCommand, Zenon DEF Starts, Starting
<1>10. ASSUME NEW s \in Sandbox PROVE Host(s)'
  <2>1. lapse[s] \subseteq lapse'[s] BY <1>a DEF Shape, HostShape
  <2>2. CASE entry[s] # None \/ \E c \in Command : Running(c) /\ On(c) = s
    <3>1. "process" \in lapse'[s] BY <2>2, Zenon
    <3> QED BY <1>c, <1>4, <1>5, <3>1, Zenon DEF Host, Settled, Abandoned, Clean, Ended
  <2>3. CASE entry[s] = None /\ \A c \in Command : ~Running(c) \/ On(c) # s
    <3>1. ASSUME NEW c \in Task, On(c) = s, task[c].at \in Open PROVE FALSE
      <4>1. Running(c) /\ Working(c) BY <3>1, Zenon DEF Open, Later, Running, Working, Ended
      <4>2. c = Main BY <2>3, <3>1, <4>1, Zenon DEF Task
      <4>3. task[c].kind = "stop" BY <1>b, <4>1, <4>2, Zenon DEF Staged, Running, Ended
      <4> QED BY <1>b, <2>3, <3>1, <4>1, <4>3, Zenon DEF Locked
    <3>2. Abandoned(s) BY <1>c, <2>3, <3>1, Zenon DEF Host, Settled
    <3>3. Abandoned(s)' BY <2>1, <3>2, Zenon DEF Abandoned
    <3> QED BY <1>c, <1>4, <1>5, <3>3, ZenonT(30) DEF Host, Settled, Clean, Ended
  <2> QED BY <2>2, <2>3, Zenon
<1> QED BY <1>6, <1>7, <1>8, <1>9, <1>10, ZenonT(60) DEF SafeInv

LEMMA ProcessStepSafe ==
  ASSUME SafeInv, ProcessStep
  PROVE  SafeInv'
<1>1. CASE /\ ShutdownDone \/ Crash
           /\ metadata' = {}
           /\ lapse' = [s \in Sandbox |->
                IF entry[s] # None \/ \E c \in Command : Running(c) /\ On(c) = s
                THEN lapse[s] \cup {"process"} ELSE lapse[s]]
           /\ UNCHANGED <<bundle, state, init, address>>
  BY <1>1, ProcessEndsSafe, ZenonT(30) DEF ShutdownDone, Crash
<1>2. ASSUME NEW s \in Sandbox, ShutdownStops(s), UNCHANGED <<hostVars, lapse>> PROVE SafeInv'
  BY <1>2, ShutdownStopsSafe, ZenonT(30)
<1>3. CASE ShutdownBegins /\ UNCHANGED <<hostVars, lapse>>
  BY <1>3, FrameSafe DEF ShutdownBegins
<1> QED BY <1>1, <1>2, <1>3, ZenonT(60) DEF ProcessStep

-----------------------------------------------------------------------------
LEMMA InitSafe == Init => SafeInv
<1> SUFFICES ASSUME Init PROVE SafeInv OBVIOUS
<1>1. Idle \in TaskRecord /\ Idle.at = "unsent" /\ Idle.kind = "start"
  BY Zenon DEF Idle, TaskRecord, Stages, Ended, Kind, Config, NoConfig
<1>2. \A c \in Task : task[c].at = "unsent" /\ ~Running(c)
  BY <1>1, ZenonT(30) DEF Init, ManagerInit, Running, Ended
<1>3. Shape BY <1>1, ZenonT(30) DEF Init, ManagerInit, Shape, HostShape
<1>4. Announced BY <1>2, ZenonT(30) DEF Init, ManagerInit, Announced
<1>5. Starts BY <1>2, MainIsNoCommand DEF Starts, Starting
<1>6. \A c \in Task : Staged(c) /\ Locked(c) /\ Progress(c)
  BY <1>2, Zenon DEF Staged, Locked, Working, Progress, Early, Later, StopStages
<1>7. \A s \in Sandbox : Host(s)
  BY <1>2, Zenon DEF Init, ManagerInit, Host, Settled, Abandoned, Clean
<1> QED BY <1>3, <1>4, <1>5, <1>6, <1>7, ZenonT(30) DEF SafeInv

LEMMA StepSafe == SafeInv /\ [Next]_vars => SafeInv'
<1> SUFFICES ASSUME SafeInv, [Next]_vars PROVE SafeInv' BY ZenonT(60)
<1>1. CASE UNCHANGED <<managerVars, hostVars, lapse>>
  BY <1>1, FrameSafe DEF managerVars, SafeInv, Shape
<1>2. ASSUME NEW c \in Command, NEW k \in Kind, NEW s \in Sandbox, NEW g \in Config,
             Receive(c, k, s, g), UNCHANGED <<hostVars, lapse>>
      PROVE  SafeInv'
  BY <1>2, ReceiveSafe, ZenonT(60)
<1>3. ASSUME NEW c \in Task, TaskStep(c) PROVE SafeInv'
  <2>1. CASE (StartBegins(c) \/ ReturnsAtOnce(c) \/ CallsRuntime(c)) /\ UNCHANGED <<hostVars, lapse>>
    BY <2>1, StartBeginsSafe, ReturnsAtOnceSafe, CallsRuntimeSafe, ZenonT(30)
  <2>2. CASE BeginImage(c) BY <2>2, BeginImageSafe
  <2>3. CASE ImageStep(c) BY <1>1, <2>3, ZenonT(60) DEF ImageStep
  <2>4. CASE ImageReturns(c) BY <2>4, ImageReturnsSafe
  <2>5. CASE WriteBundle(c) BY <2>5, WriteBundleSafe
  <2>6. CASE BuildContainer(c) BY <2>6, BuildContainerSafe
  <2>7. CASE AddBridge(c) BY <2>7, AddBridgeSafe
  <2>8. CASE AddPortmap(c) BY <2>8, AddPortmapSafe
  <2>9. CASE StartInit(c) BY <2>9, StartInitSafe
  <2>10. CASE UndoNetwork(c) BY <2>10, UndoNetworkSafe
  <2>11. CASE UndoContainer(c) BY <2>11, UndoContainerSafe
  <2>12. CASE Deadline(c) BY <2>12, DeadlineSafe
  <2>13. CASE PauseContainer(c) BY <2>13, PauseContainerSafe
  <2>14. CASE UnpauseContainer(c) BY <2>14, UnpauseContainerSafe
  <2>15. CASE StopTakes(c) BY <2>15, StopTakesSafe
  <2>16. CASE StopDeletes(c) BY <2>16, StopDeletesSafe
  <2>17. CASE StopNetwork(c) BY <2>17, StopNetworkSafe
  <2>18. CASE StopDirectory(c) BY <2>18, StopDirectorySafe
  <2> QED BY <1>3, <2>1, <2>2, <2>3, <2>4, <2>5, <2>6, <2>7, <2>8, <2>9, <2>10, <2>11, <2>12, <2>13,
             <2>14, <2>15, <2>16, <2>17, <2>18 DEF TaskStep
<1>4. CASE NeighbourPulls BY <1>1, <1>4, Zenon DEF NeighbourPulls
<1>5. CASE ProcessStep BY <1>5, ProcessStepSafe
<1>6. CASE UNCHANGED vars BY <1>1, <1>6 DEF vars
<1> QED BY <1>2, <1>3, <1>4, <1>5, <1>6, ZenonT(30) DEF Next

\* The inductive invariant of the youki agent.
THEOREM YoukiSafe == Spec => []SafeInv
BY InitSafe, StepSafe, PTL DEF Spec

\* Whatever fails, and wherever the process ends, what create_and_start's
\* rollbacks and stop_and_remove leave on the host has a lapse of its own kind
\* on record.
THEOREM OnlyLapsesAreLeft == Spec => []LeavesOnlyLapses
<1>1. SafeInv => LeavesOnlyLapses
  <2> SUFFICES ASSUME SafeInv, NEW s \in Sandbox, Quiet(s), entry[s] = None \/ entry[s].state = "failed"
               PROVE  Abandoned(s)
    BY Zenon DEF LeavesOnlyLapses, Abandoned
  <2>1. \A c \in Task : On(c) = s => task[c].at \notin Open
    BY Zenon DEF Quiet, Running, Ended, Open, Later
  <2> QED BY <2>1, Zenon DEF SafeInv, Host, Settled
<1> QED BY <1>1, YoukiSafe, PTL

\* The lifecycle commands keep what the table says true of the host: a sandbox
\* listed as running or paused has its directories, its address and its init
\* process unless a stop is at work on it or has failed.
THEOREM ListedAreWhole == Spec => []ListedIsWhole
<1>1. SafeInv => ListedIsWhole
  <2> SUFFICES ASSUME SafeInv, NEW s \in Sandbox, entry[s] # None, entry[s].state # "failed",
                      "stop" \notin lapse[s],
                      \A c \in Task : On(c) = s /\ task[c].kind = "stop" => ~Running(c)
               PROVE  {"bundle", "state", "address"} \subseteq Left(s) /\ init[s] \in {"running", "paused"}
    BY ZenonT(60) DEF ListedIsWhole
  <2>1. ASSUME NEW c \in Task, On(c) = s, task[c].at \in Open PROVE FALSE
    <3>1. Running(c) /\ task[c].at \in Stages \ Ended
      BY <2>1, Zenon DEF Open, Later, Stages, StopStages, Running, Ended
    <3>2. task[c].kind # "stop" /\ task[c].at \notin StopStages BY <2>1, <3>1, ZenonT(60) DEF SafeInv, Staged
    <3>3. task[c].at \in Later BY <2>1, <3>2 DEF Open, StopStages
    <3> QED BY <2>1, <3>1, <3>3, AtWork
  <2>2. Whole(s) BY <2>1, Zenon DEF SafeInv, Host, Settled
  <2>3. entry[s].state \in {"running", "paused"} BY DEF SafeInv, Shape, Entry
  <2> QED BY <2>2, <2>3, Zenon DEF Whole, Left
<1> QED BY <1>1, YoukiSafe, PTL

\* pause_sandbox, unpause_sandbox and the cgroup freezer never part, but for a
\* stop that failed.
THEOREM FreezerStaysInStep == Spec => []FreezerAgrees
<1>1. SafeInv => FreezerAgrees
  <2> SUFFICES ASSUME SafeInv, NEW s \in Sandbox, Quiet(s), entry[s] # None, entry[s].state # "failed"
               PROVE  init[s] = entry[s].state \/ "stop" \in lapse[s]
    BY DEF FreezerAgrees
  <2>1. \A c \in Task : On(c) = s => task[c].at \notin Open
    BY Zenon DEF Quiet, Running, Ended, Open, Later
  <2> QED BY <2>1, Zenon DEF SafeInv, Host, Settled, Whole
<1> QED BY <1>1, YoukiSafe, PTL

-----------------------------------------------------------------------------
(* The image cache under the agent. *)

LEMMA CommandsPull == Command \subseteq 1..Neighbour /\ Neighbour \in 1..Neighbour
BY CountsAreNatural DEF Command, Neighbour

LEMMA AgentStepsCache == [Next]_vars => [Cache!ImageNext]_(Cache!imageVars)
<1> SUFFICES ASSUME [Next]_vars, ~UNCHANGED cacheVars PROVE Cache!ImageNext BY DEF Cache!imageVars, cacheVars
<1>1. ASSUME NEW P \in SUBSET (1..Neighbour), Cache!Abandon(P) PROVE Cache!ImageNext
  BY <1>1 DEF Cache!ImageNext
<1>2. ASSUME NEW p \in 1..Neighbour, NEW mode \in Cache!Mode, Cache!BeginPull(p, mode) PROVE Cache!ImageNext
  BY <1>2 DEF Cache!ImageNext
<1>3. ASSUME NEW p \in 1..Neighbour, Cache!PullStep(p) PROVE Cache!ImageNext
  BY <1>3 DEF Cache!ImageNext
<1>4. ASSUME NEW c \in Task, TaskStep(c) PROVE Cache!ImageNext
  <2>1. ASSUME c \in Command, BeginImage(c) PROVE Cache!ImageNext
    BY <1>2, <2>1, CommandsPull, ZenonT(60) DEF BeginImage, Cache!Mode
  <2>2. ASSUME c \in Command, ImageStep(c) PROVE Cache!ImageNext BY <1>3, <2>2, CommandsPull, ZenonT(30) DEF ImageStep
  <2>3. ASSUME c \in Command, Deadline(c) PROVE Cache!ImageNext
    <3>1. Cache!Abandon({c}) BY <2>3, Zenon DEF Deadline
    <3> QED BY <1>1, <2>3, <3>1, CommandsPull
  <2>4. CASE \/ StopTakes(c) \/ StopDeletes(c) \/ StopNetwork(c) \/ StopDirectory(c)
             \/ PauseContainer(c) \/ UnpauseContainer(c) \/ ImageReturns(c) \/ WriteBundle(c)
             \/ BuildContainer(c) \/ AddBridge(c) \/ AddPortmap(c) \/ StartInit(c)
             \/ UndoNetwork(c) \/ UndoContainer(c)
    BY <2>4, Zenon DEF StopTakes, StopDeletes, StopNetwork, StopDirectory, PauseContainer, UnpauseContainer,
         ImageReturns, WriteBundle, BuildContainer, AddBridge, AddPortmap, StartInit, UndoNetwork, UndoContainer
  <2> QED BY <1>4, <2>1, <2>2, <2>3, <2>4, ZenonT(60) DEF TaskStep
<1>5. CASE NeighbourPulls
  <2>1. CASE Cache!Abandon({Neighbour}) BY <1>1, <2>1, CommandsPull
  <2> QED BY <1>2, <1>3, <1>5, <2>1, CommandsPull, ZenonT(30) DEF NeighbourPulls
<1>6. CASE ProcessStep BY <1>1, <1>6, Zenon DEF ProcessStep
<1> QED BY <1>4, <1>5, <1>6 DEF Next, vars

\* The agent uses the image cache only through its steps: starts, deadlines and
\* process ends are pulls, and pulls given up, of pull_and_unpack_with.
THEOREM AgentUsesCache == Spec => UsesCache
<1>1. Init => Cache!ImageInit BY DEF Init
<1> QED BY <1>1, AgentStepsCache, PTL DEF Spec, UsesCache, Cache!ImageSpec
=============================================================================
