------------------------- MODULE ExecSessionsProofs -------------------------
(***************************************************************************)
(* Sessions for any number of streams, frames and chunks and any sizes of  *)
(* the buffers: the invariant SafeInv is inductive.                        *)
(***************************************************************************)
EXTENDS ExecSessions, Integers, TLAPS

\* The provers of the leaves that name none, with their time limits in seconds.
USE SMTT(30), Z3T(30), ZenonT(30)

Stages == {"none", "starting", "started", "refused", "running", "draining", "exiting",
           "cancelling", "failing", "term", "kill", "done", "aborted"}
OutFrame == [kind : {"started", "stdout", "exited", "cancelled", "failed"}, n : Int]
ProcessRecord ==
  [at : {"none", "running", "dying", "unseen", "exited"}, known : BOOLEAN, reached : BOOLEAN, wrote : Nat]
Received == [n : Nat, end : Terminal \cup {"none"}, total : Int]

Shape ==
  /\ drive \in [Stream -> Stages]
  /\ demux \in [Stream -> {"off", "on", "gone"}]
  /\ close \in [Stream -> BOOLEAN]
  /\ process \in [Stream -> ProcessRecord]
  /\ stdout \in [Stream -> Nat]
  /\ pump \in [Stream -> {"off", "on", "aborting", "gone"}]
  /\ outbox \in [Stream -> Seq(OutFrame)]
  /\ wrapper \in [Stream -> {"off", "on", "gone"}]
  /\ got \in [Stream -> Received]

\* The process of a session, by the stage of its driver.
Driven(i) ==
  /\ drive[i] = "starting" => process[i].at = "none" /\ ~process[i].known /\ process[i].wrote = 0 /\ stdout[i] = 0
  /\ drive[i] = "refused" => ~process[i].known
  /\ drive[i] \in {"draining", "exiting"} => process[i].at \in Noticed
  /\ drive[i] = "done" /\ process[i].at = "running" => ~process[i].known \/ ~process[i].reached

\* The tasks of a session, by the stage of its driver.
Tasks(i) ==
  /\ wrapper[i] = "off" <=> drive[i] = "none"
  /\ wrapper[i] = "on" => i \in sessions
  /\ drive[i] \in {"none", "starting", "started", "refused"} => pump[i] = "off"
  /\ drive[i] \in {"running", "draining"} => pump[i] \in {"on", "gone"}
  /\ drive[i] = "exiting" => pump[i] = "gone"
  /\ drive[i] \in {"running", "draining", "exiting"} /\ pump[i] = "gone" /\ wrapper[i] = "on" =>
       stdout[i] = 0 /\ process[i].at \in Noticed
  /\ i \in registry /\ tunnel # "lost" =>
       drive[i] \in {"started", "running", "draining", "exiting", "cancelling", "failing", "term"}
  /\ drive[i] = "running" /\ ~close[i] => demux[i] = "on"

\* Whether IoStarted is still the first frame of the queue; it is the only
\* frame ahead of the terminal one that carries no output.
Announcing(i) == IF outbox[i] # <<>> /\ Head(outbox[i]).kind = "started" THEN 1 ELSE 0
NoEnd(i) == \A k \in 1..Len(outbox[i]) : outbox[i][k].kind \notin Terminal

\* The queue of a session whose client has received no terminal frame.
Queue(i) ==
  /\ \A k \in 1..Len(outbox[i]) : outbox[i][k].kind = "started" => k = 1
  /\ NoEnd(i) => got[i].n + Len(outbox[i]) - Announcing(i) + stdout[i] = process[i].wrote
  /\ \A k \in 1..Len(outbox[i]) : outbox[i][k].kind = "exited" =>
       /\ outbox[i][k].n = got[i].n + (k - 1) - Announcing(i)
       /\ \A j \in 1..(k - 1) : outbox[i][j].kind \notin Terminal
  /\ drive[i] \in {"starting", "started", "refused"} => outbox[i] = <<>>
  /\ drive[i] \in {"running", "draining", "exiting", "cancelling", "failing"} => NoEnd(i)
  /\ drive[i] \in {"term", "kill", "done", "aborted"} => ~NoEnd(i)

Delivery(i) ==
  /\ got[i].end = "exited" => got[i].n = got[i].total
  /\ tunnel = "up" /\ got[i].end = "none" =>
       /\ wrapper[i] # "gone"
       /\ wrapper[i] = "off" => got[i].n = 0
       /\ wrapper[i] = "on" => Queue(i)

Safe(i) == Driven(i) /\ Tasks(i) /\ Delivery(i)
SafeInv == Shape /\ \A i \in Stream : Safe(i)

-----------------------------------------------------------------------------
(* A step of one stream. *)

Same(i) ==
  /\ drive'[i] = drive[i] /\ demux'[i] = demux[i] /\ close'[i] = close[i] /\ process'[i] = process[i]
  /\ stdout'[i] = stdout[i] /\ pump'[i] = pump[i] /\ outbox'[i] = outbox[i] /\ wrapper'[i] = wrapper[i]
  /\ got'[i] = got[i]
  /\ (i \in sessions') <=> (i \in sessions)
  /\ (i \in registry') <=> (i \in registry)

LEMMA SameSafe ==
  ASSUME NEW i \in Stream, Safe(i), Same(i), tunnel' = tunnel \/ (tunnel = "up" /\ tunnel' = "half")
  PROVE  Safe(i)'
<1>1. Driven(i)' BY DEF Safe, Same, Driven
<1>2. Tasks(i)' BY DEF Safe, Same, Tasks
<1>3. NoEnd(i)' <=> NoEnd(i) BY DEF Same, NoEnd
<1>4. Queue(i) => Queue(i)' BY <1>3, ZenonT(60) DEF Same, Queue, Announcing
<1>5. Delivery(i)' BY <1>4 DEF Safe, Same, Delivery
<1> QED BY <1>1, <1>2, <1>5 DEF Safe

LEMMA LocalSafe ==
  ASSUME SafeInv, NEW i \in Stream, Shape', tunnel' = tunnel,
         \A j \in Stream \ {i} : Same(j), Safe(i)'
  PROVE  SafeInv'
BY SameSafe DEF SafeInv

\* Steps that touch none of this.
LEMMA QuietSafe ==
  ASSUME SafeInv, tunnel' = tunnel \/ (tunnel = "up" /\ tunnel' = "half"),
         UNCHANGED <<drive, demux, close, process, stdout, pump, outbox, wrapper, got, sessions, registry>>
  PROVE  SafeInv'
<1>1. Shape' BY DEF SafeInv, Shape
<1>2. \A i \in Stream : Same(i) BY DEF Same
<1> QED BY <1>1, <1>2, SameSafe DEF SafeInv

\* The queue and what was received stay, and the driver moves among stages that
\* have sent the same frames.
Sent(at) ==
  CASE at \in {"starting", "started", "refused"} -> "nothing"
    [] at \in {"running", "draining", "exiting", "cancelling", "failing"} -> "started"
    [] at \in {"term", "kill", "done", "aborted"} -> "ended"
    [] OTHER -> "none"

LEMMA DeliveryKept ==
  ASSUME NEW i \in Stream, Delivery(i), Tasks(i), tunnel' = tunnel,
         got'[i] = got[i], wrapper'[i] = wrapper[i], outbox'[i] = outbox[i], stdout'[i] = stdout[i],
         process'[i].wrote = process[i].wrote,
         wrapper[i] = "on" => Sent(drive'[i]) = Sent(drive[i])
  PROVE  Delivery(i)'
<1>1. NoEnd(i)' <=> NoEnd(i) BY DEF NoEnd
<1>2. ASSUME Queue(i), Sent(drive'[i]) = Sent(drive[i]) PROVE Queue(i)'
  <2>1. /\ drive'[i] \in {"starting", "started", "refused"} => drive[i] \in {"starting", "started", "refused"}
        /\ drive'[i] \in {"running", "draining", "exiting", "cancelling", "failing"} =>
             drive[i] \in {"running", "draining", "exiting", "cancelling", "failing"}
        /\ drive'[i] \in {"term", "kill", "done", "aborted"} =>
             drive[i] \in {"term", "kill", "done", "aborted"}
    BY <1>2 DEF Sent
  <2> QED BY <1>1, <1>2, <2>1, ZenonT(60) DEF Queue, Announcing
<1> QED BY <1>2 DEF Delivery

-----------------------------------------------------------------------------
(* The inbound loop. *)

LEMMA EndedKeeps ==
  ASSUME Shape, NEW i \in Stream, NEW end \in Terminal, NEW total \in Int, got' = Ended(i, end, total)
  PROVE  /\ got' \in [Stream -> Received] /\ \A j \in Stream \ {i} : got'[j] = got[j]
         /\ got'[i].n = got[i].n
         /\ IF got[i].end = "none" THEN got'[i].end = end /\ got'[i].total = total ELSE got'[i] = got[i]
<1> DEFINE r == [got[i] EXCEPT !.end = end, !.total = total]
<1>1. got[i] \in Received BY DEF Shape
<1>2. r \in Received /\ r.n = got[i].n /\ r.end = end /\ r.total = total BY <1>1, Zenon DEF Received
<1>3. got' = IF got[i].end = "none" THEN [got EXCEPT ![i] = r] ELSE got BY <1>1, Zenon DEF Ended, Shape
<1> HIDE DEF r
<1> QED BY <1>2, <1>3 DEF Shape

LEMMA RefuseStartSafe ==
  ASSUME SafeInv, NEW i \in Stream, RefuseStart(i)
  PROVE  SafeInv'
<1>0. Shape /\ Safe(i) BY DEF SafeInv
<1>1. /\ got' \in [Stream -> Received] /\ \A j \in Stream \ {i} : got'[j] = got[j]
      /\ IF got[i].end = "none" THEN got'[i].end = "failed" ELSE got'[i] = got[i]
  <2>1. got' = Ended(i, "failed", 0) /\ "failed" \in Terminal BY DEF RefuseStart, Terminal
  <2> QED BY <1>0, <2>1, EndedKeeps
<1>2. UNCHANGED <<drive, demux, close, process, stdout, pump, outbox, wrapper, sessions, registry, tunnel>>
  BY DEF RefuseStart, agentVars
<1>3. Shape' BY <1>0, <1>1, <1>2 DEF Shape
<1>4. \A j \in Stream \ {i} : Same(j) BY <1>1, <1>2 DEF Same
<1>5. Safe(i)'
  <2>1. CASE got[i].end = "none"
    <3>1. Driven(i)' /\ Tasks(i)' BY <1>0, <1>2 DEF Safe, Driven, Tasks
    <3>2. Delivery(i)' BY <1>1, <2>1 DEF Delivery
    <3> QED BY <3>1, <3>2 DEF Safe
  <2>2. CASE got[i].end # "none"
    <3>1. Same(i) BY <1>1, <1>2, <2>2 DEF Same
    <3> QED BY <1>0, <1>2, <3>1, SameSafe
  <2> QED BY <2>1, <2>2
<1> QED BY <1>2, <1>3, <1>4, <1>5, LocalSafe

LEMMA NoProcessIsProcess ==
  NoProcess \in ProcessRecord /\ NoProcess.at = "none" /\ NoProcess.known = FALSE /\ NoProcess.wrote = 0
BY Zenon DEF NoProcess, ProcessRecord

LEMMA AcceptStartSafe ==
  ASSUME SafeInv, NEW i \in Stream, AcceptStart(i)
  PROVE  SafeInv'
<1>0. Shape /\ Safe(i) BY DEF SafeInv
<1>1. /\ drive'[i] = "starting" /\ demux'[i] = "off" /\ close'[i] = FALSE /\ process'[i] = NoProcess
      /\ stdout'[i] = 0 /\ pump'[i] = "off" /\ outbox'[i] = <<>> /\ wrapper'[i] = "on" /\ i \in sessions'
      /\ UNCHANGED <<got, registry, tunnel>>
  BY <1>0 DEF AcceptStart, Shape
<1>2. Shape' BY <1>0, NoProcessIsProcess DEF Shape, AcceptStart, Stages
<1>3. \A j \in Stream \ {i} : Same(j) BY <1>0 DEF Same, AcceptStart, Shape
<1>4. Driven(i)' BY <1>1, NoProcessIsProcess DEF Driven
<1>5. Tasks(i)'
  <2>1. i \notin registry \/ tunnel = "lost" BY <1>0, ZenonT(30) DEF Safe, Tasks, AcceptStart
  <2> QED BY <1>1, <2>1 DEF Tasks
<1>6. Delivery(i)'
  <2>1. wrapper[i] # "on" BY <1>0 DEF Safe, Tasks, AcceptStart
  <2>2. tunnel = "up" /\ got[i].end = "none" => got[i].n = 0 BY <1>0, <2>1 DEF Safe, Delivery, Shape
  <2>3. NoEnd(i)' /\ Announcing(i)' = 0 BY <1>1 DEF NoEnd, Announcing
  <2>4. got[i].n = 0 => Queue(i)' BY <1>1, <2>3, NoProcessIsProcess DEF Queue
  <2> QED BY <1>0, <1>1, <2>2, <2>4 DEF Safe, Delivery
<1> QED BY <1>1, <1>2, <1>3, <1>4, <1>5, <1>6, LocalSafe DEF Safe

-----------------------------------------------------------------------------
(* The driver. *)

\* What the steps of a process's life do to its record.
Becomes(i, at, known, wrote) ==
  /\ process' \in [Stream -> ProcessRecord] /\ \A j \in Stream \ {i} : process'[j] = process[j]
  /\ process'[i].at = at /\ process'[i].known = known /\ process'[i].wrote = wrote

LEMMA Recorded ==
  ASSUME Shape, NEW i \in Stream, NEW r \in ProcessRecord, process' = [process EXCEPT ![i] = r]
  PROVE  Becomes(i, r.at, r.known, r.wrote) /\ process'[i].reached = r.reached
BY DEF Shape, Becomes

LEMMA StartsSafe ==
  ASSUME SafeInv, NEW i \in Stream, drive[i] = "starting", NEW at \in {"started", "refused"},
         drive' = [drive EXCEPT ![i] = at],
         NEW now \in {"none", "running"}, NEW known \in BOOLEAN, Becomes(i, now, known, 0),
         at = "refused" => ~known /\ UNCHANGED registry,
         registry' = registry \/ Record(i),
         UNCHANGED <<tunnel, demux, close, stdout, pump, outbox, wrapper, got, sessions>>
  PROVE  SafeInv'
<1>0. Shape /\ Safe(i) BY DEF SafeInv
<1>1. drive'[i] = at /\ \A j \in Stream \ {i} : drive'[j] = drive[j] BY <1>0 DEF Shape
<1>2. Shape' BY <1>0 DEF Shape, Becomes, Stages
<1>3. \A j \in Stream \ {i} : Same(j) BY <1>1 DEF Same, Becomes, Record
<1>4. Driven(i)' BY <1>1 DEF Driven, Becomes
<1>5. Tasks(i)' BY <1>0, <1>1 DEF Safe, Tasks
<1>6. Delivery(i)'
  <2>1. process'[i].wrote = process[i].wrote BY <1>0 DEF Becomes, Safe, Driven
  <2> QED BY <1>0, <1>1, <2>1, DeliveryKept, ZenonT(30) DEF Safe, Sent
<1> QED BY <1>2, <1>3, <1>4, <1>5, <1>6, LocalSafe DEF Safe

LEMMA StartExecSafe ==
  ASSUME SafeInv, NEW i \in Stream, drive[i] = "starting", NEW known \in BOOLEAN, StartExec(i, known),
         UNCHANGED <<tunnel, demux, close, stdout, pump, outbox, wrapper, got, sessions>>
  PROVE  SafeInv'
<1> DEFINE r == [at |-> "running", known |-> known, reached |-> TRUE, wrote |-> 0]
<1>0. Shape BY DEF SafeInv
<1>1. r \in ProcessRecord /\ r.at = "running" /\ r.known = known /\ r.wrote = 0 BY Zenon DEF ProcessRecord
<1>2. process' = [process EXCEPT ![i] = r] BY DEF StartExec
<1> HIDE DEF r
<1>3. Becomes(i, "running", known, 0) BY <1>0, <1>1, <1>2, Recorded, Zenon
<1> QED BY <1>3, StartsSafe, Zenon DEF StartExec

LEMMA StartFailsSafe ==
  ASSUME SafeInv, NEW i \in Stream, drive[i] = "starting", NEW left \in BOOLEAN, StartFails(i, left),
         UNCHANGED <<tunnel, demux, close, stdout, pump, outbox, wrapper, got, sessions>>
  PROVE  SafeInv'
<1> DEFINE r == [process[i] EXCEPT !.at = "running"]
<1>0. Shape BY DEF SafeInv
<1>1. /\ process[i] \in ProcessRecord /\ process[i].known = FALSE /\ process[i].wrote = 0
      /\ process[i].at = "none"
  <2>1. Driven(i) /\ process[i] \in ProcessRecord BY DEF SafeInv, Safe, Shape
  <2>2. process[i].known \in BOOLEAN BY <2>1 DEF ProcessRecord
  <2> QED BY <2>1, <2>2 DEF Driven
<1>2. r \in ProcessRecord /\ r.at = "running" /\ r.known = FALSE /\ r.wrote = 0
  BY <1>1, Zenon DEF ProcessRecord
<1>3. IF left THEN process' = [process EXCEPT ![i] = r] ELSE process' = process BY DEF StartFails
<1> HIDE DEF r
<1>4. Becomes(i, "running", FALSE, 0) \/ Becomes(i, "none", FALSE, 0)
  <2>1. CASE left BY <1>0, <1>2, <1>3, <2>1, Recorded, Zenon
  <2>2. CASE ~left BY <1>0, <1>1, <1>3, <2>2 DEF Becomes, Shape
  <2> QED BY <2>1, <2>2, Zenon
<1> QED BY <1>4, StartsSafe, Zenon DEF StartFails

LEMMA StartExecsSafe ==
  ASSUME SafeInv, NEW i \in Stream, DockerStartExec(i) \/ YoukiStartExec(i)
  PROVE  SafeInv'
<1>1. /\ drive[i] = "starting"
      /\ UNCHANGED <<tunnel, demux, close, stdout, pump, outbox, wrapper, got, sessions>>
  BY Zenon DEF DockerStartExec, YoukiStartExec
<1>2. (\E known \in BOOLEAN : StartExec(i, known)) \/ (\E left \in BOOLEAN : StartFails(i, left))
  BY Zenon DEF DockerStartExec, YoukiStartExec
<1> QED BY <1>1, <1>2, StartExecSafe, StartFailsSafe

\* A frame is queued behind the others.
LEMMA SendsAppends ==
  ASSUME Shape, NEW i \in Stream, NEW frame \in OutFrame, Sends(i, frame)
  PROVE  /\ wrapper[i] = "on" /\ outbox' \in [Stream -> Seq(OutFrame)]
         /\ outbox'[i] = Append(outbox[i], frame)
         /\ \A j \in Stream \ {i} : outbox'[j] = outbox[j]
BY DEF Shape, Sends

LEMMA FrameType ==
  ASSUME NEW kind \in {"started", "stdout", "exited", "cancelled", "failed"}, NEW n \in Int
  PROVE  Frame(kind, n) \in OutFrame /\ Frame(kind, n).kind = kind /\ Frame(kind, n).n = n
BY DEF Frame, OutFrame

LEMMA EmitStartedSafe ==
  ASSUME SafeInv, NEW i \in Stream, EmitStarted(i)
  PROVE  SafeInv'
<1>0. Shape /\ Safe(i) /\ drive[i] = "started" BY DEF SafeInv, EmitStarted
<1>1. UNCHANGED <<process, stdout, got, sessions, close, wrapper, registry, tunnel>> BY DEF EmitStarted
<1>2. CASE /\ Sends(i, Frame("started", 0))
           /\ drive' = [drive EXCEPT ![i] = "running"]
           /\ demux' = [demux EXCEPT ![i] = "on"]
           /\ pump' = [pump EXCEPT ![i] = "on"]
  <2> DEFINE f == Frame("started", 0)
  <2>1. f \in OutFrame /\ f.kind = "started" BY FrameType
  <2> HIDE DEF f
  <2>2. /\ wrapper[i] = "on" /\ outbox' \in [Stream -> Seq(OutFrame)] /\ outbox'[i] = Append(outbox[i], f)
        /\ \A j \in Stream \ {i} : outbox'[j] = outbox[j]
    BY <1>0, <1>2, <2>1, SendsAppends DEF f
  <2>3. drive'[i] = "running" /\ demux'[i] = "on" /\ pump'[i] = "on" BY <1>0, <1>2 DEF Shape
  <2>4. Shape' BY <1>0, <1>1, <1>2, <2>2, Zenon DEF Shape, Stages
  <2>5. \A j \in Stream \ {i} : Same(j) BY <1>0, <1>1, <1>2, <2>2 DEF Same, Shape
  <2>6. Driven(i)' BY <2>3 DEF Driven
  <2>7. Tasks(i)' BY <1>0, <1>1, <2>2, <2>3, ZenonT(30) DEF Safe, Tasks
  <2>8. ASSUME Queue(i) PROVE Queue(i)'
    <3>1. outbox[i] = <<>> BY <1>0, <2>8 DEF Queue
    <3>2. outbox'[i] = <<f>> /\ Len(outbox'[i]) = 1 /\ outbox'[i] # <<>> /\ outbox'[i][1] = f /\ Head(outbox'[i]) = f
      BY <2>1, <2>2, <3>1
    <3>3. NoEnd(i) /\ Announcing(i) = 0 /\ Len(outbox[i]) = 0 BY <3>1 DEF NoEnd, Announcing
    <3>4. NoEnd(i)' /\ Announcing(i)' = 1 BY <2>1, <3>2 DEF NoEnd, Announcing, Terminal
    <3>5. got[i].n + stdout[i] = process[i].wrote /\ got[i].n \in Nat /\ stdout[i] \in Nat /\ process[i].wrote \in Nat
      BY <1>0, <2>8, <3>3 DEF Queue, Shape, Received, ProcessRecord
    <3> QED BY <1>1, <2>1, <2>3, <3>2, <3>4, <3>5 DEF Queue
  <2>9. Delivery(i)' BY <1>0, <1>1, <2>2, <2>8 DEF Safe, Delivery
  <2> QED BY <1>1, <2>4, <2>5, <2>6, <2>7, <2>9, LocalSafe DEF Safe
<1>3. CASE /\ Unsent(i)
           /\ drive' = [drive EXCEPT ![i] = "term"]
           /\ UNCHANGED <<demux, pump>>
  <2>1. wrapper[i] = "gone" /\ UNCHANGED outbox /\ drive'[i] = "term" BY <1>0, <1>3 DEF Unsent, Shape
  <2>2. Shape' BY <1>0, <1>1, <1>3, <2>1 DEF Shape, Stages
  <2>3. \A j \in Stream \ {i} : Same(j) BY <1>0, <1>1, <1>3, <2>1, ZenonT(60) DEF Same, Shape
  <2>4. Driven(i)' BY <2>1 DEF Driven
  <2>5. Tasks(i)' BY <1>0, <1>1, <1>3, <2>1, ZenonT(60) DEF Safe, Tasks
  <2>6. Delivery(i)' BY <1>0, <1>1, <2>1, DeliveryKept, ZenonT(60) DEF Safe
  <2> QED BY <1>1, <2>2, <2>3, <2>4, <2>5, <2>6, LocalSafe DEF Safe
<1> QED BY <1>2, <1>3 DEF EmitStarted

\* The driver moves within a session that is under way.
LEMMA DriverMoveSafe ==
  ASSUME SafeInv, NEW i \in Stream, drive[i] \in {"running", "draining"},
         NEW at \in {"draining", "exiting", "cancelling", "failing"}, drive' = [drive EXCEPT ![i] = at],
         at \in {"draining", "exiting"} => process[i].at \in Noticed /\ pump' = pump,
         at = "exiting" => pump[i] = "gone",
         NEW pumped \in {"aborting", "on", "gone"},
         pump' = pump \/ pump' = [pump EXCEPT ![i] = pumped],
         demux' = demux \/ demux' = [demux EXCEPT ![i] = "gone"],
         UNCHANGED <<tunnel, process, close, stdout, outbox, wrapper, got, sessions, registry>>
  PROVE  SafeInv'
<1>0. Shape /\ Safe(i) BY DEF SafeInv
<1>1. drive'[i] = at /\ \A j \in Stream \ {i} : drive'[j] = drive[j] BY <1>0 DEF Shape
<1>2. Shape' BY <1>0, ZenonT(60) DEF Shape, Stages
<1>3. \A j \in Stream \ {i} : Same(j) BY <1>0, <1>1 DEF Same, Shape
<1>4. Driven(i)' BY <1>0, <1>1 DEF Safe, Driven
<1>5. Tasks(i)' BY <1>0, <1>1 DEF Safe, Tasks
<1>6. Delivery(i)' BY <1>0, <1>1, DeliveryKept DEF Safe, Sent
<1> QED BY <1>2, <1>3, <1>4, <1>5, <1>6, LocalSafe DEF Safe

LEMMA ExitNoticedSafe ==
  ASSUME SafeInv, NEW i \in Stream, ExitNoticed(i)
  PROVE  SafeInv'
BY DriverMoveSafe, Zenon DEF ExitNoticed, StopDemux

LEMMA OutputDrainedSafe ==
  ASSUME SafeInv, NEW i \in Stream, OutputDrained(i)
  PROVE  SafeInv'
<1>1. process[i].at \in Noticed BY DEF SafeInv, Safe, Driven, OutputDrained
<1> QED BY <1>1, DriverMoveSafe, Zenon DEF OutputDrained

LEMMA GiveUpSafe ==
  ASSUME SafeInv, NEW i \in Stream, GiveUp(i)
  PROVE  SafeInv'
<1> DEFINE pumped == IF pump[i] = "on" THEN "aborting" ELSE pump[i]
<1>1. /\ drive[i] = "running"
      /\ pump' = [pump EXCEPT ![i] = pumped] /\ demux' = [demux EXCEPT ![i] = "gone"]
      /\ UNCHANGED <<tunnel, process, close, stdout, outbox, wrapper, got, sessions, registry>>
  BY DEF GiveUp, StopDemux
<1>2. \E at \in {"cancelling", "failing"} : drive' = [drive EXCEPT ![i] = at] BY ZenonT(30) DEF GiveUp
<1>3. pumped \in {"aborting", "on", "gone"}
  BY <1>1 DEF SafeInv, Safe, Tasks
<1> HIDE DEF pumped
<1> QED BY <1>1, <1>2, <1>3, DriverMoveSafe, Zenon

\* signal_exec changes nothing but whether the process runs.
LEMMA Signalled ==
  ASSUME Shape, NEW i \in Stream, NEW p \in SignalExec(process[i])
  PROVE  /\ p \in ProcessRecord /\ p.known = process[i].known /\ p.wrote = process[i].wrote /\ p.reached = process[i].reached
         /\ p.at = process[i].at \/ (process[i].at = "running" /\ p.at \in {"dying", "exited"})
<1>0. process[i] \in ProcessRecord BY DEF Shape
<1>1. CASE p = process[i] BY <1>0, <1>1 DEF ProcessRecord
<1>2. ASSUME NEW at \in {"dying", "exited"}, process[i].at = "running", p = [process[i] EXCEPT !.at = at]
      PROVE  /\ p \in ProcessRecord /\ p.known = process[i].known /\ p.wrote = process[i].wrote /\ p.reached = process[i].reached
             /\ p.at = at
  <2>1. at \in {"none", "running", "dying", "unseen", "exited"} BY <1>2
  <2> QED BY <1>0, <1>2, <2>1, Zenon DEF ProcessRecord
<1>3. \/ p = process[i]
      \/ process[i].at = "running" /\ \E at \in {"dying", "exited"} : p = [process[i] EXCEPT !.at = at]
  BY ZenonT(30) DEF SignalExec, DockerSignal, YoukiSignal
<1> QED BY <1>1, <1>2, <1>3

\* A step that changes the process alone, or with it the stage of the driver.
LEMMA ProcessSafe ==
  ASSUME SafeInv, NEW i \in Stream, NEW at, Becomes(i, at, process[i].known, process[i].wrote),
         \/ at = process[i].at
         \/ process[i].at \in {"running", "dying"} /\ at \in {"dying", "unseen", "exited"},
         \/ drive' = drive /\ process'[i].reached = process[i].reached /\ UNCHANGED registry
         \/ drive[i] = "term" /\ drive' = [drive EXCEPT ![i] = "kill"] /\ Forget(i)
         \/ /\ drive[i] = "kill" /\ drive' = [drive EXCEPT ![i] = "done"] /\ UNCHANGED registry
            /\ at = "running" => ~process[i].known \/ ~process'[i].reached,
         UNCHANGED <<tunnel, demux, close, stdout, pump, outbox, wrapper, got, sessions>>
  PROVE  SafeInv'
<1>0. Shape /\ Safe(i) BY ZenonT(60) DEF SafeInv
<1>1. /\ \A j \in Stream \ {i} : drive'[j] = drive[j]
      /\ \/ drive'[i] = drive[i] /\ process'[i].reached = process[i].reached /\ (i \in registry' <=> i \in registry)
         \/ drive[i] = "term" /\ drive'[i] = "kill" /\ i \notin registry'
         \/ /\ drive[i] = "kill" /\ drive'[i] = "done" /\ (i \in registry' <=> i \in registry)
            /\ at = "running" => ~process[i].known \/ ~process'[i].reached
  BY <1>0 DEF Shape, Forget
<1>2. Shape' BY <1>0, Zenon DEF Shape, Becomes, Stages
<1>3. \A j \in Stream \ {i} : Same(j) BY <1>1, ZenonT(60) DEF Same, Becomes, Forget
<1>4. Driven(i)' BY <1>0, <1>1, ZenonT(60) DEF Safe, Driven, Becomes, Noticed
<1>5. Tasks(i)' BY <1>0, <1>1 DEF Safe, Tasks, Becomes, Noticed
<1>6. Delivery(i)'
  <2>1. Sent(drive'[i]) = Sent(drive[i]) BY <1>1 DEF Sent
  <2> QED BY <1>0, <2>1, DeliveryKept, Zenon DEF Safe, Becomes
<1> QED BY <1>2, <1>3, <1>4, <1>5, <1>6, LocalSafe DEF Safe

LEMMA SignalsSafe ==
  ASSUME SafeInv, NEW i \in Stream, DeliverSignal(i) \/ Terminate(i) \/ Kill(i)
  PROVE  SafeInv'
<1>0. Shape BY DEF SafeInv
<1>1. UNCHANGED <<tunnel, demux, close, stdout, pump, outbox, wrapper, got, sessions>>
  BY DEF DeliverSignal, Terminate, Kill
<1>2. CASE DeliverSignal(i) \/ Terminate(i)
  <2>1. PICK p \in SignalExec(process[i]) : process' = [process EXCEPT ![i] = p]
    BY <1>2, ZenonT(60) DEF DeliverSignal, Terminate
  <2>2. /\ p \in ProcessRecord /\ p.known = process[i].known /\ p.wrote = process[i].wrote
        /\ p.reached = process[i].reached
        /\ p.at = process[i].at \/ (process[i].at = "running" /\ p.at \in {"dying", "exited"})
    BY <1>0, Signalled
  <2>3. Becomes(i, p.at, p.known, p.wrote) /\ process'[i].reached = process[i].reached
    BY <1>0, <2>1, <2>2, Recorded, Zenon
  <2>4. Becomes(i, p.at, process[i].known, process[i].wrote) BY <2>2, <2>3, Zenon
  <2>5. \/ drive' = drive /\ UNCHANGED registry
        \/ drive[i] = "term" /\ drive' = [drive EXCEPT ![i] = "kill"] /\ Forget(i)
    BY <1>2 DEF DeliverSignal, Terminate
  <2> QED BY <1>1, <2>2, <2>3, <2>4, <2>5, ProcessSafe, Zenon
<1>3. CASE Kill(i)
  <2>1. PICK p \in SignalExec(process[i]) :
          process' = [process EXCEPT ![i] = [p EXCEPT !.reached = p.at # "running" \/ ~p.known]]
    BY <1>3, Zenon DEF Kill
  <2>2. /\ p \in ProcessRecord /\ p.known = process[i].known /\ p.wrote = process[i].wrote
        /\ p.at = process[i].at \/ (process[i].at = "running" /\ p.at \in {"dying", "exited"})
    BY <1>0, Signalled
  <2> DEFINE reached == p.at # "running" \/ ~p.known
  <2> DEFINE r == [p EXCEPT !.reached = reached]
  <2>3. reached \in BOOLEAN /\ (p.at = "running" => ~reached \/ ~p.known) OBVIOUS
  <2>4. process' = [process EXCEPT ![i] = r] BY <2>1
  <2> HIDE DEF reached
  <2>5. /\ r \in ProcessRecord /\ r.at = p.at /\ r.known = process[i].known /\ r.wrote = process[i].wrote
        /\ r.reached = reached
    BY <2>2, <2>3, Zenon DEF ProcessRecord
  <2> HIDE DEF r
  <2>6. Becomes(i, r.at, r.known, r.wrote) /\ process'[i].reached = r.reached
    BY <1>0, <2>4, <2>5, Recorded, Zenon
  <2>7. Becomes(i, p.at, process[i].known, process[i].wrote) /\ process'[i].reached = reached
    BY <2>5, <2>6, Zenon
  <2>8. p.at = "running" => ~process[i].known \/ ~process'[i].reached BY <2>2, <2>3, <2>7
  <2> QED BY <1>1, <1>3, <2>2, <2>7, <2>8, ProcessSafe, Zenon DEF Kill
<1> QED BY <1>2, <1>3

\* The terminal frame: it closes the queue, and after an exit it counts the
\* output that was queued or received before it.
LEMMA EmitTerminalSafe ==
  ASSUME SafeInv, NEW i \in Stream, EmitTerminal(i)
  PROVE  SafeInv'
<1>0. Shape /\ Safe(i) BY DEF SafeInv
<1>1. UNCHANGED <<tunnel, process, demux, close, stdout, pump, wrapper, got, sessions>> BY ZenonT(60) DEF EmitTerminal
<1>2. PICK kind \in Terminal, n \in Int, at \in {"term", "done"} :
        /\ Sends(i, Frame(kind, n)) \/ Unsent(i)
        /\ drive' = [drive EXCEPT ![i] = at]
        /\ kind = "exited" => drive[i] = "exiting" /\ n = process[i].wrote
        /\ drive[i] \in {"exiting", "cancelling", "failing", "refused"}
        /\ at = "done" => drive[i] \in {"exiting", "refused"}
        /\ IF drive[i] = "exiting" THEN Forget(i) ELSE UNCHANGED registry
  <2>1. process[i].wrote \in Int /\ 0 \in Int BY <1>0 DEF Shape, ProcessRecord
  <2>2. "exited" \in Terminal /\ "cancelled" \in Terminal /\ "failed" \in Terminal BY DEF Terminal
  <2> QED BY <2>1, <2>2 DEF EmitTerminal
<1>3. drive'[i] = at /\ \A j \in Stream \ {i} : drive'[j] = drive[j] BY <1>0, <1>2, ZenonT(60) DEF Shape
<1>4. i \in registry /\ tunnel # "lost" => i \notin registry' \/ drive'[i] = "term"
  BY <1>0, <1>2, <1>3, ZenonT(60) DEF Safe, Tasks, Forget
<1>5. Driven(i)'
  BY <1>0, <1>1, <1>2, <1>3 DEF Safe, Driven, Noticed
<1>6. Tasks(i)'
  <2>1. i \in registry' => i \in registry BY <1>2, Zenon DEF Forget
  <2> QED BY <1>0, <1>1, <1>2, <1>3, <1>4, <2>1, Zenon DEF Safe, Tasks
<1>7. CASE Unsent(i)
  <2>1. wrapper[i] = "gone" /\ UNCHANGED outbox BY <1>7 DEF Unsent
  <2>2. Shape' BY <1>0, <1>1, <1>2, <2>1 DEF Shape, Stages
  <2>3. \A j \in Stream \ {i} : Same(j) BY <1>1, <1>2, <1>3, <2>1, ZenonT(60) DEF Same, Forget
  <2>4. Delivery(i)' BY <1>0, <1>1, <2>1, DeliveryKept, Zenon DEF Safe
  <2> QED BY <1>1, <1>5, <1>6, <2>2, <2>3, <2>4, LocalSafe DEF Safe
<1>8. CASE Sends(i, Frame(kind, n))
  <2> DEFINE f == Frame(kind, n)
  <2>0. kind \in {"started", "stdout", "exited", "cancelled", "failed"} /\ n \in Int BY <1>2, ZenonT(60) DEF Terminal
  <2>1. f \in OutFrame /\ f.kind = kind /\ f.n = n BY <2>0, FrameType
  <2> HIDE DEF f
  <2>2. /\ wrapper[i] = "on" /\ outbox' \in [Stream -> Seq(OutFrame)] /\ outbox'[i] = Append(outbox[i], f)
        /\ \A j \in Stream \ {i} : outbox'[j] = outbox[j]
    BY <1>0, <1>8, <2>1, SendsAppends DEF f
  <2>3. Shape' BY <1>0, <1>1, <1>2, <2>2, Zenon DEF Shape, Stages
  <2>4. \A j \in Stream \ {i} : Same(j) BY <1>1, <1>2, <1>3, <2>2, ZenonT(60) DEF Same, Forget
  <2>5. ASSUME Queue(i) PROVE Queue(i)'
    <3> DEFINE q == outbox[i]  L == Len(outbox[i])
    <3>1. /\ q \in Seq(OutFrame) /\ L \in Nat /\ got[i].n \in Nat /\ stdout[i] \in Nat /\ process[i].wrote \in Nat
      BY <1>0 DEF Shape, Received, ProcessRecord
    <3>2. /\ Len(outbox'[i]) = L + 1 /\ outbox'[i][L + 1] = f /\ outbox'[i] # <<>>
          /\ \A k \in 1..L : outbox'[i][k] = q[k]
      BY <2>1, <2>2, <3>1
    <3>3. NoEnd(i) BY <1>2, <2>5 DEF Queue, NoEnd
    <3>4. ~NoEnd(i)'
      <4>1. L + 1 \in 1..Len(outbox'[i]) BY <3>1, <3>2
      <4> QED BY <2>1, <3>2, <4>1 DEF NoEnd
    <3>5. Announcing(i)' = Announcing(i)
      <4>1. CASE q = <<>>
        <5>1. outbox'[i][1] = f /\ Head(outbox'[i]) = outbox'[i][1] BY <3>1, <3>2, <4>1, <2>2
        <5> QED BY <2>1, <4>1, <5>1, ZenonT(30) DEF Announcing, Terminal
      <4>2. CASE q # <<>>
        <5>1. L > 0 /\ 1 \in 1..L BY <3>1, <4>2
        <5>2. Head(outbox'[i]) = outbox'[i][1] /\ Head(q) = q[1] BY <2>2, <3>1, <3>2, <4>2
        <5> QED BY <3>2, <4>2, <5>1, <5>2 DEF Announcing
      <4> QED BY <4>1, <4>2
    <3>6. kind = "exited" => f.n = got[i].n + L - Announcing(i)
      <4> SUFFICES ASSUME kind = "exited" PROVE f.n = got[i].n + L - Announcing(i) OBVIOUS
      <4>1. stdout[i] = 0 BY <1>0, <1>2, <2>2, Zenon DEF Safe, Tasks
      <4>2. got[i].n + L - Announcing(i) + stdout[i] = process[i].wrote BY <2>5, <3>3, ZenonT(60) DEF Queue
      <4>3. Announcing(i) \in Int BY DEF Announcing
      <4> QED BY <1>2, <2>1, <3>1, <4>1, <4>2, <4>3
    <3> HIDE DEF q, L
    <3>7. \A k \in 1..Len(outbox'[i]) : k \in 1..L \/ k = L + 1 BY <3>1, <3>2
    <3>8. \A k \in 1..Len(outbox'[i]) : outbox'[i][k].kind = "started" => k = 1
      BY <2>1, <2>5, <3>2, <3>7, ZenonT(60) DEF Queue, q, L, Terminal
    <3>9. ASSUME NEW k \in 1..Len(outbox'[i]), outbox'[i][k].kind = "exited"
          PROVE  /\ outbox'[i][k].n = got[i].n + (k - 1) - Announcing(i)
                 /\ \A j \in 1..(k - 1) : outbox'[i][j].kind \notin Terminal
      <4>1. CASE k \in 1..L
        <5>1. outbox[i][k].kind = "exited" BY <3>2, <3>9, <4>1, ZenonT(30) DEF q
        <5> QED BY <3>3, <4>1, <5>1, ZenonT(30) DEF NoEnd, L, Terminal
      <4>2. CASE k = L + 1
        <5>1. k - 1 = L BY <3>1, <4>2
        <5>2. \A j \in 1..L : outbox'[i][j].kind \notin Terminal BY <3>2, <3>3, ZenonT(60) DEF NoEnd, q, L
        <5> QED BY <2>1, <3>2, <3>6, <3>9, <4>2, <5>1, <5>2
      <4> QED BY <3>7, <4>1, <4>2, ZenonT(30)
    <3> QED BY <1>1, <1>3, <3>4, <3>5, <3>8, <3>9, ZenonT(30) DEF Queue
  <2>6. Delivery(i)' BY <1>0, <1>1, <2>2, <2>5 DEF Safe, Delivery
  <2> QED BY <1>1, <1>5, <1>6, <2>3, <2>4, <2>6, LocalSafe DEF Safe
<1> QED BY <1>2, <1>7, <1>8, ZenonT(60)

-----------------------------------------------------------------------------
(* The demux, the pump and the wrapper. *)

LEMMA DemuxSafe ==
  ASSUME SafeInv, NEW i \in Stream, Demux(i)
  PROVE  SafeInv'
<1>0. Shape /\ Safe(i) BY DEF SafeInv
<1>1. UNCHANGED <<tunnel, drive, process, stdout, pump, outbox, wrapper, got, sessions, registry>>
  BY DEF Demux, DemuxFrame, DemuxEnds
<1>2. \/ UNCHANGED <<demux, close>>
      \/ demux' = [demux EXCEPT ![i] = "gone"] /\ close' = [close EXCEPT ![i] = TRUE]
  BY DEF Demux, DemuxFrame, DemuxEnds, StopDemux
<1>3. Shape' BY <1>0, <1>1, <1>2, Zenon DEF Shape
<1>4. \A j \in Stream \ {i} : Same(j) BY <1>0, <1>1, <1>2 DEF Same, Shape
<1>5. Driven(i)' BY <1>0, <1>1, ZenonT(60) DEF Safe, Driven
<1>6. Tasks(i)'
  <2>1. close'[i] = TRUE \/ (close'[i] = close[i] /\ demux'[i] = demux[i]) BY <1>0, <1>2, ZenonT(60) DEF Shape
  <2> QED BY <1>0, <1>1, <2>1, ZenonT(60) DEF Safe, Tasks
<1>7. Delivery(i)' BY <1>0, <1>1, DeliveryKept, ZenonT(60) DEF Safe
<1> QED BY <1>1, <1>3, <1>4, <1>5, <1>6, <1>7, LocalSafe DEF Safe

LEMMA PumpEndsSafe ==
  ASSUME SafeInv, NEW i \in Stream, PumpEnds(i)
  PROVE  SafeInv'
<1>0. Shape /\ Safe(i) BY DEF SafeInv
<1>1. UNCHANGED <<tunnel, drive, demux, close, process, stdout, outbox, wrapper, got, sessions, registry>>
  BY Zenon DEF PumpEnds
<1>2. pump'[i] = "gone" /\ Shape' /\ \A j \in Stream \ {i} : Same(j)
  BY <1>0, <1>1, ZenonT(60) DEF PumpEnds, Shape, Same
<1>3. Driven(i)' BY <1>0, <1>1, ZenonT(60) DEF Safe, Driven
<1>4. Tasks(i)' BY <1>0, <1>1, <1>2 DEF Safe, Tasks, PumpEnds
<1>5. Delivery(i)' BY <1>0, <1>1, DeliveryKept, Zenon DEF Safe
<1> QED BY <1>1, <1>2, <1>3, <1>4, <1>5, LocalSafe DEF Safe

LEMMA PumpChunkSafe ==
  ASSUME SafeInv, NEW i \in Stream, PumpChunk(i)
  PROVE  SafeInv'
<1> DEFINE n == process[i].wrote - stdout[i] + 1  f == Frame("stdout", n)
<1>0. Shape /\ Safe(i) BY DEF SafeInv
<1>1. UNCHANGED <<tunnel, drive, demux, close, process, wrapper, got, sessions, registry>>
  BY DEF PumpChunk
<1>2. /\ pump[i] \in {"on", "aborting"} /\ stdout[i] > 0 /\ stdout' = [stdout EXCEPT ![i] = @ - 1]
      /\ Sends(i, f)
      /\ pump' = [pump EXCEPT ![i] = IF @ = "aborting" THEN "gone" ELSE @]
  BY DEF PumpChunk
<1>3. stdout[i] \in Nat /\ got[i].n \in Nat /\ process[i].wrote \in Nat /\ n \in Int
  BY <1>0 DEF Shape, Received, ProcessRecord
<1> HIDE DEF n
<1>4. f \in OutFrame /\ f.kind = "stdout" BY <1>3, FrameType, ZenonT(60)
<1> HIDE DEF f
<1>5. /\ wrapper[i] = "on" /\ outbox' \in [Stream -> Seq(OutFrame)] /\ outbox'[i] = Append(outbox[i], f)
      /\ \A j \in Stream \ {i} : outbox'[j] = outbox[j]
  BY <1>0, <1>2, <1>4, SendsAppends
<1>6. /\ stdout'[i] = stdout[i] - 1 /\ stdout' \in [Stream -> Nat]
      /\ pump'[i] = (IF pump[i] = "aborting" THEN "gone" ELSE pump[i])
  BY <1>0, <1>2, <1>3 DEF Shape
<1>7. Shape' BY <1>0, <1>1, <1>2, <1>5, <1>6, ZenonT(30) DEF Shape
<1>8. \A j \in Stream \ {i} : Same(j) BY <1>0, <1>1, <1>2, <1>5 DEF Same, Shape
<1>9. drive[i] # "starting" BY <1>0, <1>2, Zenon DEF Safe, Tasks
<1>10. Driven(i)' BY <1>0, <1>1, <1>9, ZenonT(60) DEF Safe, Driven
<1>11. Tasks(i)' BY <1>0, <1>1, <1>2, <1>6, ZenonT(60) DEF Safe, Tasks
<1>12. ASSUME Queue(i) PROVE Queue(i)'
  <2> DEFINE q == outbox[i]  L == Len(outbox[i])
  <2>1. q \in Seq(OutFrame) /\ L \in Nat BY <1>0 DEF Shape
  <2>2. /\ Len(outbox'[i]) = L + 1 /\ outbox'[i][L + 1] = f /\ outbox'[i] # <<>>
        /\ \A k \in 1..L : outbox'[i][k] = q[k]
    BY <1>4, <1>5, <2>1
  <2>3. Announcing(i)' = Announcing(i) /\ Announcing(i) \in Int
    <3>1. CASE q = <<>>
      <4>1. outbox'[i][1] = f /\ Head(outbox'[i]) = outbox'[i][1] BY <1>5, <2>1, <2>2, <3>1
      <4> QED BY <1>4, <3>1, <4>1 DEF Announcing
    <3>2. CASE q # <<>>
      <4>1. L > 0 /\ 1 \in 1..L BY <2>1, <3>2
      <4>2. Head(outbox'[i]) = outbox'[i][1] /\ Head(q) = q[1] BY <1>5, <2>1, <2>2, <3>2
      <4> QED BY <2>2, <3>2, <4>1, <4>2 DEF Announcing
    <3> QED BY <3>1, <3>2
  <2> HIDE DEF q, L
  <2>4. \A k \in 1..Len(outbox'[i]) : k \in 1..L \/ k = L + 1 BY <2>1, <2>2
  <2>5. \A k \in 1..L : k \in 1..Len(outbox'[i]) BY <2>1, <2>2
  <2>6. NoEnd(i)' <=> NoEnd(i)
    BY <1>4, <2>2, <2>4, <2>5, ZenonT(60) DEF NoEnd, q, L, Terminal
  <2>7. \A k \in 1..Len(outbox'[i]) : outbox'[i][k].kind = "started" => k = 1
    BY <1>4, <1>12, <2>2, <2>4, ZenonT(60) DEF Queue, q, L
  <2>8. NoEnd(i)' => got[i].n + Len(outbox'[i]) - Announcing(i) + stdout'[i] = process[i].wrote
    <3>1. NoEnd(i) => got[i].n + L - Announcing(i) + stdout[i] = process[i].wrote BY <1>12 DEF Queue, L
    <3>2. Len(outbox'[i]) = L + 1 /\ stdout'[i] = stdout[i] - 1 BY <1>6, <2>2
    <3>3. /\ got[i].n \in Int /\ L \in Int /\ stdout[i] \in Int /\ process[i].wrote \in Int
          /\ Announcing(i) \in Int
      BY <1>3, <2>1, <2>3
    <3>4. got[i].n + (L + 1) - Announcing(i) + (stdout[i] - 1) = got[i].n + L - Announcing(i) + stdout[i]
      BY <3>3
    <3> QED BY <2>6, <3>1, <3>2, <3>4, ZenonT(60)
  <2>9. ASSUME NEW k \in 1..Len(outbox'[i]), outbox'[i][k].kind = "exited"
        PROVE  /\ outbox'[i][k].n = got[i].n + (k - 1) - Announcing(i)
               /\ \A j \in 1..(k - 1) : outbox'[i][j].kind \notin Terminal
    <3>1. k \in 1..L /\ outbox[i][k].kind = "exited" BY <1>4, <2>2, <2>4, <2>9 DEF q
    <3>2. \A j \in 1..(k - 1) : j \in 1..L BY <2>1, <3>1
    <3> QED BY <1>12, <2>2, <3>1, <3>2, Zenon DEF Queue, q, L
  <2>10. drive[i] \notin {"starting", "started", "refused"} BY <1>0, <1>2 DEF Safe, Tasks
  <2> QED BY <1>1, <1>12, <2>3, <2>6, <2>7, <2>8, <2>9, <2>10, ZenonT(30) DEF Queue
<1>13. Delivery(i)' BY <1>0, <1>1, <1>5, <1>12, Zenon DEF Safe, Delivery
<1> QED BY <1>1, <1>7, <1>8, <1>10, <1>11, <1>13, LocalSafe, ZenonT(30) DEF Safe

LEMMA CountUp ==
  ASSUME Shape, NEW i \in Stream, got' = [got EXCEPT ![i].n = @ + 1]
  PROVE  /\ got' \in [Stream -> Received] /\ \A j \in Stream \ {i} : got'[j] = got[j]
         /\ got'[i].n = got[i].n + 1 /\ got'[i].end = got[i].end
<1> DEFINE m == got[i].n + 1  r == [got[i] EXCEPT !.n = m]
<1>1. got[i] \in Received /\ m \in Nat BY DEF Shape, Received
<1>2. got' = [got EXCEPT ![i] = r] BY <1>1 DEF Shape
<1> HIDE DEF m
<1>3. r \in Received /\ r.n = m /\ r.end = got[i].end BY <1>1, Zenon DEF Received
<1> HIDE DEF r
<1>4. got'[i] = r /\ got' \in [Stream -> Received] /\ \A j \in Stream \ {i} : got'[j] = got[j]
  BY <1>2, <1>3, ZenonT(60) DEF Shape
<1> QED BY <1>3, <1>4 DEF m

\* The first frame of the queue reaches the gateway.
LEMMA WrapFrameSafe ==
  ASSUME SafeInv, NEW i \in Stream, WrapFrame(i)
  PROVE  SafeInv'
<1> DEFINE q == outbox[i]  L == Len(outbox[i])
<1>0. Shape /\ Safe(i) BY DEF SafeInv
<1>1. /\ UNCHANGED <<tunnel, drive, demux, close, process, stdout, pump, wrapper, sessions, registry>>
      /\ wrapper[i] = "on" /\ q # <<>> /\ outbox' = [outbox EXCEPT ![i] = Tail(q)]
  BY DEF WrapFrame
<1>2. /\ q \in Seq(OutFrame) /\ L \in Nat /\ L > 0 /\ Head(q) = q[1] /\ Head(q) \in OutFrame /\ 1 \in 1..L
      /\ got[i].n \in Nat /\ got[i].total \in Int /\ stdout[i] \in Nat /\ process[i].wrote \in Nat
  BY <1>0, <1>1 DEF Shape, Received, ProcessRecord
<1>3. Head(q).kind \in {"started", "stdout"} \cup Terminal /\ Head(q).n \in Int
  BY <1>2, ZenonT(30) DEF OutFrame, Terminal
<1>4. /\ outbox' \in [Stream -> Seq(OutFrame)] /\ \A j \in Stream \ {i} : outbox'[j] = outbox[j]
      /\ outbox'[i] = Tail(q)
  BY <1>0, <1>1, <1>2 DEF Shape
<1>5. /\ Len(outbox'[i]) = L - 1
      /\ \A k \in 1..(L - 1) : k + 1 \in 1..L /\ outbox'[i][k] = q[k + 1]
  BY <1>2, <1>4
<1> HIDE DEF q, L
<1>6. got' = IF Head(q).kind \in Terminal THEN Ended(i, Head(q).kind, Head(q).n)
             ELSE IF Head(q).kind = "stdout" /\ got[i].end = "none"
                  THEN [got EXCEPT ![i].n = @ + 1] ELSE got
  BY DEF WrapFrame, q
<1>7. /\ got' \in [Stream -> Received] /\ \A j \in Stream \ {i} : got'[j] = got[j]
      /\ got[i].end # "none" => got'[i] = got[i]
      /\ got[i].end = "none" /\ Head(q).kind \in Terminal =>
           got'[i].n = got[i].n /\ got'[i].end = Head(q).kind /\ got'[i].total = Head(q).n
      /\ got[i].end = "none" /\ Head(q).kind = "stdout" => got'[i].n = got[i].n + 1 /\ got'[i].end = "none"
      /\ got[i].end = "none" /\ Head(q).kind = "started" => got'[i] = got[i]
  <2>1. CASE Head(q).kind \in Terminal
    BY <1>0, <1>3, <1>6, <2>1, EndedKeeps, ZenonT(60) DEF Terminal
  <2>2. CASE Head(q).kind = "stdout" /\ got[i].end = "none"
    BY <1>0, <1>6, <2>2, CountUp DEF Terminal
  <2>3. CASE Head(q).kind \notin Terminal /\ ~(Head(q).kind = "stdout" /\ got[i].end = "none")
    BY <1>0, <1>6, <2>3 DEF Shape, Terminal
  <2> QED BY <2>1, <2>2, <2>3
<1>8. Shape' BY <1>0, <1>1, <1>4, <1>7, ZenonT(60) DEF Shape
<1>9. \A j \in Stream \ {i} : Same(j) BY <1>1, <1>4, <1>7, ZenonT(60) DEF Same
<1>10. Driven(i)' /\ Tasks(i)' BY <1>0, <1>1, Zenon DEF Safe, Driven, Tasks
<1>11. Delivery(i)'
  <2>1. CASE got[i].end # "none" BY <1>0, <1>1, <1>7, <2>1, Zenon DEF Safe, Delivery
  <2>2. CASE got[i].end = "none"
    <3>1. Queue(i) BY <1>0, <1>1, <2>2, ZenonT(60) DEF Safe, Delivery, WrapFrame
    <3>2. CASE Head(q).kind \in Terminal
      <4>1. got'[i].end # "none" BY <1>7, <2>2, <3>2, ZenonT(30) DEF Terminal
      <4>2. ASSUME Head(q).kind = "exited" PROVE Head(q).n = got[i].n
        <5>1. Announcing(i) = 0 BY <4>2, ZenonT(60) DEF Announcing, q
        <5>2. q[1].n = got[i].n + (1 - 1) - Announcing(i) BY <1>2, <3>1, <4>2, ZenonT(60) DEF Queue, q, L
        <5> QED BY <1>2, <5>1, <5>2
      <4> QED BY <1>7, <2>2, <3>2, <4>1, <4>2, ZenonT(60) DEF Delivery
    <3>3. CASE Head(q).kind \in {"started", "stdout"}
      <4>1. /\ Announcing(i) \in {0, 1} /\ got'[i].n = got[i].n + 1 - Announcing(i) /\ got'[i].end = "none"
        BY <1>1, <1>2, <1>7, <2>2, <3>3 DEF Announcing, q
      <4>2. \A k \in 1..Len(outbox'[i]) : outbox'[i][k].kind # "started"
        <5> SUFFICES ASSUME NEW k \in 1..(L - 1), outbox'[i][k].kind = "started" PROVE FALSE BY <1>5
        <5>1. k + 1 \in 1..L /\ q[k + 1].kind = "started" BY <1>5
        <5>2. k + 1 = 1 BY <3>1, <5>1, Zenon DEF Queue, q, L
        <5> QED BY <1>2, <5>2
      <4>3. Announcing(i)' = 0
        <5>1. CASE outbox'[i] = <<>> BY <5>1 DEF Announcing
        <5>2. CASE outbox'[i] # <<>>
          <6>1. outbox'[i] \in Seq(OutFrame) BY <1>4, Zenon
          <6>2. Head(outbox'[i]) = outbox'[i][1] /\ 1 \in 1..Len(outbox'[i]) BY <5>2, <6>1
          <6> QED BY <4>2, <6>2 DEF Announcing
        <5> QED BY <5>1, <5>2
      <4>4. q[1].kind \notin Terminal BY <1>2, <3>3 DEF Terminal
      <4>5. NoEnd(i)' => NoEnd(i)
        <5> SUFFICES ASSUME NoEnd(i)', NEW k \in 1..L PROVE q[k].kind \notin Terminal BY DEF NoEnd, q, L
        <5>1. CASE k = 1 BY <4>4, <5>1
        <5>2. CASE k # 1
          <6>1. k - 1 \in 1..(L - 1) /\ (k - 1) + 1 = k BY <1>2, <5>2
          <6>2. outbox'[i][k - 1] = q[k] /\ k - 1 \in 1..Len(outbox'[i]) BY <1>5, <6>1
          <6> QED BY <6>2 DEF NoEnd
        <5> QED BY <5>1, <5>2
      <4>6. NoEnd(i) => NoEnd(i)' BY <1>5, ZenonT(60) DEF NoEnd, q, L
      <4>7. NoEnd(i)' => got'[i].n + Len(outbox'[i]) - Announcing(i)' + stdout'[i] = process'[i].wrote
        <5>1. NoEnd(i) => got[i].n + L - Announcing(i) + stdout[i] = process[i].wrote BY <3>1, ZenonT(60) DEF Queue, L
        <5> QED BY <1>1, <1>2, <1>5, <4>1, <4>3, <4>5, <5>1
      <4>8. ASSUME NEW k \in 1..Len(outbox'[i]), outbox'[i][k].kind = "exited"
            PROVE  /\ outbox'[i][k].n = got'[i].n + (k - 1) - Announcing(i)'
                   /\ \A j \in 1..(k - 1) : outbox'[i][j].kind \notin Terminal
        <5>1. k \in 1..(L - 1) /\ k + 1 \in 1..L /\ q[k + 1] = outbox'[i][k] BY <1>5, ZenonT(60)
        <5>2. q[k + 1].n = got[i].n + ((k + 1) - 1) - Announcing(i) BY <3>1, <4>8, <5>1, ZenonT(60) DEF Queue, q, L
        <5>3. \A j \in 1..((k + 1) - 1) : q[j].kind \notin Terminal BY <3>1, <4>8, <5>1 DEF Queue, q, L
        <5>4. \A j \in 1..(k - 1) : j \in 1..(L - 1) /\ j + 1 \in 1..((k + 1) - 1) BY <1>2, <5>1
        <5>5. \A j \in 1..(k - 1) : outbox'[i][j].kind \notin Terminal BY <1>5, <5>3, <5>4
        <5>6. k \in Int BY <5>1
        <5> QED BY <1>2, <4>1, <4>3, <5>1, <5>2, <5>5, <5>6
      <4>9. drive[i] \notin {"starting", "started", "refused"} BY <1>1, <3>1 DEF Queue, q
      <4>10. Queue(i)' BY <1>1, <3>1, <4>2, <4>5, <4>6, <4>7, <4>8, <4>9, Zenon DEF Queue
      <4> QED BY <1>1, <4>1, <4>10, ZenonT(60) DEF Delivery
    <3> QED BY <1>3, <3>2, <3>3
  <2> QED BY <2>1, <2>2
<1> QED BY <1>1, <1>8, <1>9, <1>10, <1>11, LocalSafe DEF Safe

LEMMA WrapperEndsSafe ==
  ASSUME SafeInv, NEW i \in Stream, WrapperEnds(i)
  PROVE  SafeInv'
<1>0. Shape /\ Safe(i) BY DEF SafeInv
<1>1. UNCHANGED <<tunnel, drive, demux, close, process, stdout, pump, got, registry>> BY Zenon DEF WrapperEnds
<1>2. /\ wrapper[i] = "on" /\ wrapper' = [wrapper EXCEPT ![i] = "gone"]
      /\ outbox' = [outbox EXCEPT ![i] = <<>>] /\ sessions' = sessions \ {i}
  BY ZenonT(30) DEF WrapperEnds
<1>3. wrapper'[i] = "gone" /\ Shape' /\ \A j \in Stream \ {i} : Same(j)
  BY <1>0, <1>1, <1>2 DEF Shape, Same
<1>4. Driven(i)' /\ Tasks(i)' BY <1>0, <1>1, <1>2, <1>3, Zenon DEF Safe, Driven, Tasks
<1>5. Delivery(i)'
  <2>1. ASSUME tunnel = "up", got[i].end = "none" PROVE FALSE
    <3>1. Queue(i) BY <1>0, <1>2, <2>1 DEF Safe, Delivery
    <3>2. outbox[i] = <<>> /\ drive[i] = "done" BY <2>1 DEF WrapperEnds
    <3>3. NoEnd(i) BY <3>2 DEF NoEnd
    <3> QED BY <3>1, <3>2, <3>3, ZenonT(60) DEF Queue
  <2> QED BY <1>0, <1>1, <2>1, Zenon DEF Safe, Delivery
<1> QED BY <1>1, <1>3, <1>4, <1>5, LocalSafe DEF Safe

-----------------------------------------------------------------------------
(* The process and the tunnel. *)

LEMMA ProcessWritesSafe ==
  ASSUME SafeInv, NEW i \in Stream, ProcessWrites(i)
  PROVE  SafeInv'
<1> DEFINE m == process[i].wrote + 1  r == [process[i] EXCEPT !.wrote = m]
<1>0. Shape /\ Safe(i) BY DEF SafeInv
<1>1. UNCHANGED <<tunnel, drive, demux, close, pump, outbox, wrapper, got, sessions, registry>>
  BY DEF ProcessWrites, agentVars
<1>2. /\ process[i].at \in {"running", "dying"} /\ pump[i] # "gone"
      /\ stdout' = [stdout EXCEPT ![i] = @ + 1]
  BY DEF ProcessWrites
<1>3. /\ process[i] \in ProcessRecord /\ process[i].wrote \in Nat /\ m \in Nat /\ stdout[i] \in Nat
      /\ got[i].n \in Nat /\ Len(outbox[i]) \in Nat
  BY <1>0 DEF Shape, ProcessRecord, Received
<1>4. process' = [process EXCEPT ![i] = r] BY <1>0 DEF ProcessWrites, Shape
<1> HIDE DEF m
<1>5. /\ r \in ProcessRecord /\ r.at = process[i].at /\ r.known = process[i].known /\ r.wrote = m
      /\ r.reached = process[i].reached
  BY <1>3, Zenon DEF ProcessRecord
<1> HIDE DEF r
<1>6. /\ Becomes(i, process[i].at, process[i].known, m) /\ process'[i].reached = process[i].reached
  BY <1>0, <1>4, <1>5, Recorded, Zenon
<1>7. stdout'[i] = stdout[i] + 1 /\ stdout' \in [Stream -> Nat] /\ \A j \in Stream \ {i} : stdout'[j] = stdout[j]
  BY <1>0, <1>2, <1>3 DEF Shape
<1>8. Shape' BY <1>0, <1>1, <1>6, <1>7 DEF Shape, Becomes
<1>9. \A j \in Stream \ {i} : Same(j) BY <1>1, <1>6, <1>7, Zenon DEF Same, Becomes
<1>10. Driven(i)' BY <1>0, <1>1, <1>2, <1>6, Zenon DEF Safe, Driven, Becomes, Noticed
<1>11. Tasks(i)' BY <1>0, <1>1, <1>2, <1>6, Zenon DEF Safe, Tasks, Becomes, Noticed
<1>12. ASSUME Queue(i) PROVE Queue(i)'
  <2>1. NoEnd(i)' <=> NoEnd(i) BY <1>1 DEF NoEnd
  <2>2. Announcing(i)' = Announcing(i) /\ Announcing(i) \in Int BY <1>1 DEF Announcing
  <2>3. process'[i].wrote = process[i].wrote + 1 BY <1>6 DEF Becomes, m
  <2>4. NoEnd(i) => got[i].n + Len(outbox[i]) - Announcing(i) + stdout'[i] = process'[i].wrote
    <3> DEFINE L == Len(outbox[i])
    <3>1. NoEnd(i) => got[i].n + L - Announcing(i) + stdout[i] = process[i].wrote
      BY <1>12 DEF Queue
    <3>2. /\ got[i].n \in Int /\ L \in Int /\ stdout[i] \in Int /\ process[i].wrote \in Int
          /\ Announcing(i) \in Int
      BY <1>3, <2>2
    <3> HIDE DEF L
    <3>3. got[i].n + L - Announcing(i) + (stdout[i] + 1) = (got[i].n + L - Announcing(i) + stdout[i]) + 1
      BY <3>2
    <3>4. stdout'[i] = stdout[i] + 1 BY <1>7, ZenonT(60)
    <3>5. NoEnd(i) => got[i].n + L - Announcing(i) + stdout'[i] = process'[i].wrote
      BY <2>3, <3>1, <3>3, <3>4, ZenonT(60)
    <3> QED BY <3>5, ZenonT(30) DEF L
  <2> QED BY <1>1, <1>12, <2>1, <2>2, <2>4, Zenon DEF Queue
<1>13. Delivery(i)' BY <1>0, <1>1, <1>12 DEF Safe, Delivery
<1> QED BY <1>1, <1>8, <1>9, <1>10, <1>11, <1>13, LocalSafe DEF Safe

LEMMA ProcessEndsSafe ==
  ASSUME SafeInv, NEW i \in Stream, ProcessExits(i) \/ OutputBreaks(i)
  PROVE  SafeInv'
<1>0. Shape /\ process[i] \in ProcessRecord BY DEF SafeInv, Shape
<1>1. /\ UNCHANGED <<tunnel, drive, demux, close, stdout, pump, outbox, wrapper, got, sessions, registry>>
      /\ process[i].at \in {"running", "dying"}
  BY DEF ProcessExits, OutputBreaks, agentVars
<1>2. PICK at \in {"exited", "unseen"} : process' = [process EXCEPT ![i].at = at]
  BY DEF ProcessExits, OutputBreaks
<1> DEFINE r == [process[i] EXCEPT !.at = at]
<1>3. /\ r \in ProcessRecord /\ r.at = at /\ r.known = process[i].known /\ r.wrote = process[i].wrote
      /\ r.reached = process[i].reached
  <2>1. at \in {"none", "running", "dying", "unseen", "exited"} OBVIOUS
  <2> QED BY <1>0, <2>1, Zenon DEF ProcessRecord
<1>4. process' = [process EXCEPT ![i] = r] BY <1>2
<1> HIDE DEF r
<1>5. Becomes(i, at, process[i].known, process[i].wrote) /\ process'[i].reached = process[i].reached
  BY <1>0, <1>3, <1>4, Recorded, Zenon
<1> QED BY <1>1, <1>5, ProcessSafe, Zenon

LEMMA InboundEndsSafe ==
  ASSUME SafeInv, InboundEnds
  PROVE  SafeInv'
<1>0. Shape BY DEF SafeInv
<1>1. /\ tunnel' = "lost" /\ UNCHANGED <<process, stdout, got, demux, close, pump, registry>>
      /\ drive' = [i \in Stream |-> IF drive[i] \in {"none", "done"} THEN drive[i] ELSE "aborted"]
      /\ wrapper' = [i \in Stream |-> IF wrapper[i] = "off" THEN "off" ELSE "gone"]
      /\ outbox' = [i \in Stream |-> <<>>]
  BY Zenon DEF InboundEnds
<1>2. Shape' BY <1>0, <1>1 DEF Shape, Stages
<1>3. ASSUME NEW i \in Stream PROVE Safe(i)'
  <2>1. Driven(i)' BY <1>1, ZenonT(60) DEF SafeInv, Safe, Driven
  <2>2. Tasks(i)' BY <1>1, Zenon DEF SafeInv, Safe, Tasks
  <2>3. Delivery(i)' BY <1>1, Zenon DEF SafeInv, Safe, Delivery
  <2> QED BY <2>1, <2>2, <2>3, ZenonT(60) DEF Safe
<1> QED BY <1>2, <1>3 DEF SafeInv

-----------------------------------------------------------------------------
LEMMA InitSafe == Init => SafeInv
<1> SUFFICES ASSUME Init PROVE SafeInv OBVIOUS
<1> DEFINE g == [n |-> 0, end |-> "none", total |-> 0]
<1>1. g \in Received /\ g.n = 0 /\ g.end = "none" BY DEF Received
<1>2. got = [i \in Stream |-> g] BY ZenonT(30) DEF Init
<1> HIDE DEF g
<1>3. Shape BY <1>1, <1>2, NoProcessIsProcess DEF Init, Shape, Stages
<1>4. ASSUME NEW i \in Stream PROVE Safe(i)
  <2>1. Driven(i) BY ZenonT(30) DEF Init, Driven
  <2>2. Tasks(i) BY ZenonT(30) DEF Init, Tasks
  <2>3. Delivery(i) BY <1>1, <1>2, ZenonT(30) DEF Init, Delivery
  <2> QED BY <2>1, <2>2, <2>3, ZenonT(30) DEF Safe
<1> QED BY <1>3, <1>4 DEF SafeInv

LEMMA StepSafe == SafeInv /\ [Next]_vars => SafeInv'
<1> SUFFICES ASSUME SafeInv, [Next]_vars PROVE SafeInv' OBVIOUS
<1>1. CASE UNCHANGED vars BY <1>1, QuietSafe, ZenonT(30) DEF vars, agentVars
<1>2. CASE TunnelBreaks BY <1>2, QuietSafe DEF TunnelBreaks, agentVars
<1>3. CASE InboundEnds BY <1>3, InboundEndsSafe
<1>4. ASSUME NEW i \in Stream, Gateway(i) PROVE SafeInv'
  <2>1. UNCHANGED <<tunnel, drive, demux, close, process, stdout, pump, outbox, wrapper, got, sessions, registry>>
    BY <1>4, ZenonT(30) DEF Gateway, OpenSession, ClientGone, TerminalSent, ClientFrame, Hangup, agentVars
  <2> QED BY <2>1, QuietSafe
<1>5. ASSUME NEW i \in Stream, Inbound(i) PROVE SafeInv'
  BY <1>5, AcceptStartSafe, RefuseStartSafe, QuietSafe, ZenonT(30) DEF Inbound, RouteFrame
<1>6. ASSUME NEW i \in Stream, Driver(i) PROVE SafeInv'
  BY <1>6, StartExecsSafe, EmitStartedSafe, ExitNoticedSafe, OutputDrainedSafe, GiveUpSafe, SignalsSafe,
     EmitTerminalSafe, ZenonT(30) DEF Driver
<1>7. ASSUME NEW i \in Stream, Demux(i) \/ Pump(i) \/ Wrapper(i) PROVE SafeInv'
  BY <1>7, DemuxSafe, PumpChunkSafe, PumpEndsSafe, WrapFrameSafe, WrapperEndsSafe DEF Pump, Wrapper
<1>8. ASSUME NEW i \in Stream, ProcessStep(i) PROVE SafeInv'
  BY <1>8, QuietSafe, ProcessWritesSafe, ProcessEndsSafe DEF ProcessStep, ProcessReads, agentVars
<1> QED BY <1>1, <1>2, <1>3, <1>4, <1>5, <1>6, <1>7, <1>8 DEF Next

\* The inductive invariant of the sessions.
THEOREM SessionsSafe == Spec => []SafeInv
BY InitSafe, StepSafe, PTL DEF Spec

\* on_stream_closed and the exit notice between them leave no process behind a
\* driver that has ended, but one that no signal reaches.
THEOREM EndedDriversReap == Spec => []EndedIsReaped
<1>1. SafeInv => EndedIsReaped BY DEF SafeInv, Safe, Driven, EndedIsReaped, Unreachable
<1> QED BY <1>1, SessionsSafe, PTL

\* pump_exec_session awaits the pumps before it sends IoExited, so that a client
\* that is told of the exit has all the output.
THEOREM ExitFollowsOutput == Spec => []ExitAfterOutput
<1>1. SafeInv => ExitAfterOutput BY Zenon DEF SafeInv, Safe, Delivery, ExitAfterOutput
<1> QED BY <1>1, SessionsSafe, PTL

\* While the tunnel lasts, what ExecRegistry records has a driver that has not
\* run its cleanup hook, and a running driver a demux or a close to act on.
THEOREM RecordedIsWatched == Spec => []Watched
<1>1. SafeInv => Watched BY Zenon DEF SafeInv, Safe, Tasks, Watched
<1> QED BY <1>1, SessionsSafe, PTL
=============================================================================
