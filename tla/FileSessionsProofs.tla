------------------------- MODULE FileSessionsProofs -------------------------
(***************************************************************************)
(* The safety of file operations for any numbers of clients, requests and  *)
(* chunks, on both runtimes: the invariant SafeInv is inductive.           *)
(***************************************************************************)
EXTENDS FileSessions, TLAPS

\* The provers of the leaves that name none, with their time limits in seconds.
USE SMTT(30), Z3T(30), ZenonT(30)

AnyText == [n : Nat, born : Nat, size : 0 .. MaxBody]
AnyFile == AnyText \cup {Directory(t) : t \in Nat} \cup {None}
AnyRevision == (Nat \X Nat) \cup {None}

AnyRequest ==
  [kind : Kind, at : Stage, n : Nat, body : Nat, taken : Nat, expect : AnyRevision,
   base : AnyText \cup {None}, paired : BOOLEAN, seen : AnyFile, text : AnyText \cup {None},
   raced : BOOLEAN, fault : {"none", "exec", "lost"}, ok : BOOLEAN, whole : BOOLEAN,
   here : BOOLEAN]

Shape ==
  /\ runtime \in {"docker", "youki"} /\ made \in Nat /\ now \in Nat
  /\ file \in AnyFile
  /\ temp \subseteq Client
  /\ client \in [Client -> [text : AnyText \cup {None}, rev : AnyRevision, paired : BOOLEAN]]
  /\ req \in [Client -> AnyRequest]

\* No body is ever taken for complete that is not, and none outgrows the limit.
Bodies ==
  \A c \in Client :
    /\ req[c].whole
    /\ req[c].at \in {"collect", "temp", "rename", "thread", "extract"} => req[c].taken <= MaxBody
    /\ req[c].at = "check" => req[c].taken = 0

\* Which stages belong to which runtime, and when a temporary file exists.
Temporaries ==
  \A c \in Client :
    /\ runtime = "docker" => req[c].at # "thread"
    /\ runtime = "youki" => req[c].at \notin {"temp", "rename"}
    /\ runtime = "docker" /\ c \in temp =>
         req[c].at = "rename" \/ (req[c].at = "gone" /\ req[c].fault \in {"exec", "lost"})

\* Requests being served have numbers of their own, none of them refused; the
\* file does not hold the text of one that may still be refused.
Numbers ==
  /\ draining \subseteq 1 .. made
  /\ file # None => file.n \in 0 .. made /\ file.n \notin draining
  /\ \A c \in Client : Serving(c) =>
       /\ req[c].n \in 1 .. made /\ req[c].n \notin draining
       /\ req[c].at \in {"check", "collect"} /\ file # None => file.n # req[c].n
       /\ \A d \in Client : Serving(d) /\ req[d].n = req[c].n => d = c

\* What a request read or wrote is still at the path, unless it was raced.
Current ==
  \A c \in Client :
    req[c].at = "stat" /\ ~req[c].raced => file = req[c].text \/ IsDir(file)

\* The token stat_revision makes of a file, and the one of a text.
TokenOf(f) == <<f.born, IF runtime = "youki" /\ IsDir(f) THEN 0 ELSE f.size>>
Token(t) == <<t.born, t.size>>

\* A paired revision is the token of the text the client has in hand, and the
\* token of a conditional write is followed from there to the replacement.
Paired(c) ==
  /\ client[c].paired /\ client[c].rev # None =>
       client[c].text \in AnyText /\ client[c].rev = Token(client[c].text)
  /\ req[c].kind = "edit" /\ req[c].paired =>
       /\ req[c].at = "check" => req[c].base \in AnyText /\ req[c].expect = Token(req[c].base)
       /\ req[c].at \in {"collect", "temp", "rename", "thread"} /\ ~req[c].raced =>
            /\ req[c].base \in AnyText
            /\ file # None /\ TokenOf(file) = Token(req[c].base)
       /\ req[c].at = "stat" => Token(req[c].seen) = Token(req[c].base)

Pairing == \A c \in Client : Paired(c)

SafeInv == Shape /\ Bodies /\ Temporaries /\ Numbers /\ Current /\ Pairing

-----------------------------------------------------------------------------
(* The records. *)

LEMMA IdleType == Idle \in AnyRequest /\ Idle.whole /\ Idle.at = "idle" /\ Idle.taken = 0
BY Zenon DEF Idle, AnyRequest, Kind, Stage, AnyRevision, AnyFile

LEMMA OverType ==
  ASSUME Shape, Bodies, NEW c \in Client, NEW end, NEW fault \in {"none", "exec", "lost"}
  PROVE  /\ Over(c, end, fault) \in AnyRequest
         /\ Over(c, end, fault).at = "gone" /\ Over(c, end, fault).whole
         /\ Over(c, end, fault).fault = fault
<1>1. req[c].whole BY DEF Bodies
<1>2. Succeeded(Answer(req[c].kind, end)) \in BOOLEAN BY DEF Succeeded
<1>3. (Succeeded(Answer(req[c].kind, end)) => req[c].whole) = TRUE BY <1>1, <1>2
<1> QED BY <1>2, <1>3, IdleType, ZenonT(60) DEF Over, Idle, AnyRequest, Stage

\* A step of one request leaves the requests of all other clients alone.
Steps(c) == req' \in [Client -> AnyRequest] /\ \A d \in Client \ {c} : req'[d] = req[d]

\* What a client may have in hand.
Known == [text : AnyText \cup {None}, rev : AnyRevision, paired : BOOLEAN]
InHand(k) == k.paired /\ k.rev # None => k.text \in AnyText /\ k.rev = Token(k.text)

\* A request is over.
LEMMA FinishSafe ==
  ASSUME SafeInv, NEW c \in Client, Steps(c), req'[c].at = "gone", req'[c].whole,
         UNCHANGED <<runtime, made, now, file>>,
         \/ UNCHANGED draining
         \/ draining' = draining \cup {req[c].n} /\ req[c].at \in {"check", "collect"},
         temp' \subseteq Client, \A d \in Client \ {c} : d \in temp' => d \in temp,
         runtime = "docker" /\ c \in temp' => req'[c].fault \in {"exec", "lost"},
         client' \in [Client -> Known], InHand(client'[c]),
         \A d \in Client \ {c} : client'[d] = client[d]
  PROVE  SafeInv'
<1> USE DEF SafeInv, Steps
<1>1. Shape' BY DEF Shape, Known
<1>2. Bodies' BY DEF Bodies
<1>3. Temporaries' BY DEF Temporaries
<1>4. Numbers'
  <2>1. \A d \in Client : Serving(d)' => d # c /\ Serving(d) BY DEF Serving, Free
  <2>2. draining' = draining \/ (Serving(c) /\ req[c].at \in {"check", "collect"}) BY DEF Serving, Free
  <2>3. draining' \subseteq 1 .. made' BY <2>2, Zenon DEF Numbers
  <2>4. file' # None => file'.n \in 0 .. made' /\ file'.n \notin draining' BY <2>2 DEF Numbers
  <2>5. ASSUME NEW d \in Client, Serving(d)'
        PROVE  /\ req'[d].n \in 1 .. made' /\ req'[d].n \notin draining'
               /\ req'[d].at \in {"check", "collect"} /\ file' # None => file'.n # req'[d].n
               /\ \A e \in Client : Serving(e)' /\ req'[e].n = req'[d].n => e = d
    BY <2>1, <2>2, <2>5 DEF Numbers
  <2> QED BY <2>3, <2>4, <2>5 DEF Numbers
<1>5. Current' BY DEF Current
<1>6. Pairing' BY DEF Pairing, Paired, TokenOf, Token, InHand
<1> QED BY <1>1, <1>2, <1>3, <1>4, <1>5, <1>6

\* A request moves on and leaves the file alone.
LEMMA MoveSafe ==
  ASSUME SafeInv, NEW c \in Client, Steps(c), Serving(c), Serving(c)',
         UNCHANGED <<runtime, made, now, file, client, draining>>,
         temp' \subseteq Client, \A d \in Client \ {c} : d \in temp' => d \in temp,
         req'[c].n = req[c].n, req'[c].whole,
         req'[c].at \in {"collect", "temp", "rename", "thread", "extract"} => req'[c].taken <= MaxBody,
         req'[c].at # "check",
         runtime = "docker" => req'[c].at # "thread" /\ (c \in temp' => req'[c].at = "rename"),
         runtime = "youki" => req'[c].at \notin {"temp", "rename"},
         req'[c].at = "collect" => req[c].at \in {"check", "collect"},
         req'[c].at = "stat" /\ ~req'[c].raced => file = req'[c].text \/ IsDir(file),
         Paired(c)'
  PROVE  SafeInv'
<1> USE DEF SafeInv, Steps
<1>1. Shape' BY DEF Shape
<1>2. Bodies' BY DEF Bodies
<1>3. Temporaries' BY DEF Temporaries
<1>4. Numbers'
  <2>1. \A d \in Client : (Serving(d)' <=> Serving(d)) /\ req'[d].n = req[d].n BY DEF Serving, Free
  <2>2. \A d \in Client : req'[d].at \in {"check", "collect"} => req[d].at \in {"check", "collect"}
    OBVIOUS
  <2> QED BY <2>1, <2>2 DEF Numbers
<1>5. Current' BY ZenonT(30) DEF Current
<1>6. Pairing' BY DEF Pairing, Paired, TokenOf, Token
<1> QED BY <1>1, <1>2, <1>3, <1>4, <1>5, <1>6

\* Requests of other clients differ at most in being raced.
Overtaken(d) ==
  /\ req'[d].kind = req[d].kind /\ req'[d].at = req[d].at /\ req'[d].n = req[d].n
  /\ req'[d].taken = req[d].taken /\ req'[d].whole = req[d].whole
  /\ req'[d].fault = req[d].fault /\ req'[d].expect = req[d].expect
  /\ req'[d].base = req[d].base /\ req'[d].paired = req[d].paired
  /\ req'[d].seen = req[d].seen /\ req'[d].text = req[d].text
  /\ ~req'[d].raced => ~req[d].raced /\ (file' = file \/ req[d].at \notin Looking)

LEMMA ChangesOvertake ==
  ASSUME Shape, NEW c \in Client, NEW new \in AnyFile, NEW mine \in AnyRequest, Changes(c, new, mine)
  PROVE  /\ req' \in [Client -> AnyRequest] /\ req'[c] = mine /\ file' = new
         /\ \A d \in Client \ {c} : Overtaken(d)
<1>1. ASSUME NEW d \in Client, d # c
      PROVE  req'[d] \in AnyRequest /\ Overtaken(d)
  <2> DEFINE b == req[d].raced \/ (new # file /\ req[d].at \in Looking)
  <2>1. b \in BOOLEAN OBVIOUS
  <2>2. req'[d] = [req[d] EXCEPT !.raced = b] BY <1>1 DEF Changes
  <2>3. req[d] \in AnyRequest BY DEF Shape
  <2>4. file' = new BY DEF Changes
  <2>5. b \/ (~req[d].raced /\ (file' = file \/ req[d].at \notin Looking)) BY <2>4
  <2> HIDE DEF b
  <2>6. req'[d] \in AnyRequest /\ req'[d].raced = b BY <2>1, <2>2, <2>3 DEF AnyRequest
  <2> QED BY <2>1, <2>2, <2>3, <2>5, <2>6 DEF AnyRequest, Overtaken
<1>2. req'[c] = mine BY ZenonT(30) DEF Changes
<1> QED BY <1>1, <1>2, ZenonT(30) DEF Changes

\* A request past its body changes the file, and is over or looks at it next.
LEMMA ChangeSafe ==
  ASSUME SafeInv, NEW c \in Client, Serving(c), req[c].at \notin {"check", "collect"},
         req' \in [Client -> AnyRequest], \A d \in Client \ {c} : Overtaken(d),
         UNCHANGED <<runtime, made, now, client, draining>>,
         file' \in AnyFile, file' = file \/ file' = None \/ file'.n \in {0, req[c].n},
         temp' \subseteq Client, \A d \in Client \ {c} : d \in temp' => d \in temp,
         req'[c].whole, req'[c].at \in {"gone", "stat", "extract"},
         req'[c].at # "gone" => req'[c].n = req[c].n,
         req'[c].at = "extract" => req'[c].taken <= MaxBody,
         runtime = "docker" => c \notin temp',
         req'[c].at = "stat" => file' = req'[c].text \/ IsDir(file'),
         req'[c].at = "stat" /\ req'[c].kind = "edit" /\ req'[c].paired =>
           Token(req'[c].seen) = Token(req'[c].base)
  PROVE  SafeInv'
<1> USE DEF SafeInv
<1>1. Shape' BY ZenonT(30) DEF Shape
<1>2. Bodies' BY ZenonT(30) DEF Bodies, Overtaken
<1>3. Temporaries' BY DEF Temporaries, Overtaken
<1>4. Numbers'
  <2>1. \A d \in Client : Serving(d)' => Serving(d) /\ req'[d].n = req[d].n
    BY ZenonT(30) DEF Serving, Free, Overtaken
  <2>2. \A d \in Client : req'[d].at \in {"check", "collect"} => d # c /\ req[d].at \in {"check", "collect"}
    BY ZenonT(30) DEF Overtaken
  <2>3. file' # None => file'.n \in 0 .. made' /\ file'.n \notin draining'
    <3>1. req[c].n \in 1 .. made /\ req[c].n \notin draining BY ZenonT(30) DEF Numbers
    <3>2. 0 \in 0 .. made /\ 0 \notin draining BY DEF Numbers, Shape
    <3> QED BY <3>1, <3>2 DEF Numbers, Shape
  <2>4. ASSUME NEW d \in Client, Serving(d)'
        PROVE  /\ req'[d].n \in 1 .. made' /\ req'[d].n \notin draining'
               /\ \A e \in Client : Serving(e)' /\ req'[e].n = req'[d].n => e = d
    BY <2>1, <2>4, ZenonT(30) DEF Numbers
  <2>5. ASSUME NEW d \in Client, Serving(d)', req'[d].at \in {"check", "collect"}, file' # None
        PROVE  file'.n # req'[d].n
    <3>1. d # c /\ Serving(d) /\ req'[d].n = req[d].n /\ req[d].at \in {"check", "collect"}
      BY <2>1, <2>2, <2>5, ZenonT(30)
    <3>2. req[d].n # req[c].n /\ req[d].n # 0 BY <3>1 DEF Numbers
    <3>3. CASE file' = file BY <3>1, <3>3, <2>5, ZenonT(30) DEF Numbers
    <3>4. CASE file'.n \in {0, req[c].n} BY <3>1, <3>2, <3>4, ZenonT(30)
    <3> QED BY <3>3, <3>4, <2>5, ZenonT(30)
  <2>6. draining' \subseteq 1 .. made' BY ZenonT(30) DEF Numbers
  <2> QED BY <2>3, <2>4, <2>5, <2>6, ZenonT(30) DEF Numbers
<1>5. Current' BY DEF Current, Overtaken, Looking, IsDir
<1>6. ASSUME NEW d \in Client PROVE Paired(d)'
  <2>1. CASE d = c BY <2>1, ZenonT(60) DEF Pairing, Paired, Token
  <2>2. CASE d # c BY <2>2 DEF Pairing, Paired, Token, TokenOf, Overtaken, Looking, IsDir
  <2> QED BY <2>1, <2>2, ZenonT(60)
<1> QED BY <1>1, <1>2, <1>3, <1>4, <1>5, <1>6, ZenonT(30) DEF Pairing

-----------------------------------------------------------------------------
(* The steps of the gateway. *)

LEMMA EndSafe ==
  ASSUME SafeInv, NEW c \in Client, NEW end, NEW fault \in {"none", "exec", "lost"},
         Fails(c, end, fault), UNCHANGED <<runtime, made, now, file, client>>,
         \/ UNCHANGED draining
         \/ draining' = draining \cup {req[c].n} /\ req[c].at \in {"check", "collect"},
         temp' \subseteq Client, \A d \in Client \ {c} : d \in temp' => d \in temp,
         runtime = "docker" /\ c \in temp' => fault \in {"exec", "lost"}
  PROVE  SafeInv'
<1>1. req' = [req EXCEPT ![c] = Over(c, end, fault)] BY DEF Fails
<1>2. Steps(c) /\ req'[c].at = "gone" /\ req'[c].whole /\ req'[c].fault = fault
  BY <1>1, OverType, ZenonT(30) DEF SafeInv, Steps, Shape
<1>3. client' \in [Client -> Known] /\ InHand(client'[c])
  BY DEF SafeInv, Shape, Known, InHand, Pairing, Paired
<1> QED BY <1>2, <1>3, FinishSafe

LEMMA OpenSafe ==
  ASSUME SafeInv, NEW c \in Client, Free(c), NEW r \in AnyRequest, r.whole, r.taken = 0,
         r.at = "gone" \/ (r.at \in {"check", "collect", "call", "probe"} /\ r.n = made + 1),
         r.kind = "edit" /\ r.paired /\ r.at = "check" => r.base \in AnyText /\ r.expect = Token(r.base),
         r.at = "collect" => r.kind # "edit",
         req' = [req EXCEPT ![c] = r], made' = made + 1, temp' = temp \ {c},
         UNCHANGED <<runtime, now, file, client, draining>>
  PROVE  SafeInv'
<1> USE DEF SafeInv
<1>1. Shape' BY DEF Shape
<1>2. Bodies' BY BoundsAreNatural DEF Bodies, Shape
<1>3. Temporaries' BY ZenonT(30) DEF Temporaries, Shape
<1>4. Numbers'
  <2>1. \A d \in Client \ {c} : req'[d] = req[d] BY DEF Shape
  <2>2. req'[c] = r BY ZenonT(30) DEF Shape
  <2>3. draining' \subseteq 1 .. made' BY DEF Numbers, Shape
  <2>4. file' # None => file'.n \in 0 .. made' /\ file'.n \notin draining' BY DEF Numbers, Shape
  <2>5. ASSUME NEW d \in Client, Serving(d)', d # c
        PROVE  /\ req'[d].n \in 1 .. made' /\ req'[d].n \notin draining' /\ req'[d].n # made + 1
               /\ req'[d].at \in {"check", "collect"} /\ file' # None => file'.n # req'[d].n
               /\ \A e \in Client \ {c} : Serving(e)' /\ req'[e].n = req'[d].n => e = d
    BY <2>1, <2>5 DEF Numbers, Serving, Free, Shape
  <2>6. Serving(c)' => r.n = made + 1 BY <2>2, ZenonT(30) DEF Serving, Free
  <2>7. made + 1 \in 1 .. made' /\ made + 1 \notin draining' /\ (file' # None => file'.n # made + 1)
    BY DEF Numbers, Shape
  <2> QED BY <2>2, <2>3, <2>4, <2>5, <2>6, <2>7 DEF Numbers
<1>5. Current' BY ZenonT(30) DEF Current, Shape
<1>6. Pairing' BY DEF Pairing, Paired, TokenOf, Token, Shape
<1> QED BY <1>1, <1>2, <1>3, <1>4, <1>5, <1>6

\* What a request opens with is well formed.
LEMMA OpensSafe ==
  ASSUME SafeInv, NEW c \in Client, NEW new \in AnyRequest, new.whole, new.taken = 0,
         new.kind = "edit" /\ new.paired => new.base \in AnyText /\ new.expect = Token(new.base),
         Opens(c, new)
  PROVE  SafeInv'
<1> DEFINE r == [new EXCEPT !.n = made + 1, !.at = First(new.kind)]
<1>1. First(new.kind) \in {"check", "collect", "call", "probe"} BY DEF First
<1>2. First(new.kind) = "collect" => new.kind # "edit" BY DEF First
<1>3. made + 1 \in Nat BY DEF SafeInv, Shape
<1>4. /\ r \in AnyRequest /\ r.at = First(new.kind) /\ r.n = made + 1
      /\ r.whole = new.whole /\ r.taken = new.taken /\ r.kind = new.kind /\ r.paired = new.paired
      /\ r.base = new.base /\ r.expect = new.expect
  BY <1>1, <1>3, ZenonT(60) DEF AnyRequest, Stage
<1>5. Free(c) /\ req' = [req EXCEPT ![c] = r] BY DEF Opens
<1> HIDE DEF r
<1> QED BY <1>1, <1>2, <1>4, <1>5, OpenSafe, Zenon DEF Opens

LEMMA RequestSafe ==
  ASSUME SafeInv, NEW c \in Client, Request(c)
  PROVE  SafeInv'
<1> USE IdleType
<1>1. ASSUME NEW status, Rejects(c, status) PROVE SafeInv'
  <2> DEFINE r == [Idle EXCEPT !.at = "gone", !.ok = Succeeded(status)]
  <2>1. Succeeded(status) \in BOOLEAN BY DEF Succeeded
  <2>2. r \in AnyRequest /\ r.at = "gone" /\ r.whole /\ r.taken = 0 /\ r.kind = "read"
    BY <2>1, ZenonT(60) DEF Idle, AnyRequest, Stage
  <2>3. Free(c) /\ req' = [req EXCEPT ![c] = r] BY <1>1 DEF Rejects
  <2> HIDE DEF r
  <2> QED BY <1>1, <2>2, <2>3, OpenSafe, Zenon DEF Rejects
<1>2. ASSUME NEW kind \in Kind \ {"edit"}, NEW body \in Nat,
             Opens(c, [Idle EXCEPT !.kind = kind, !.body = body])
      PROVE  SafeInv'
  <2> DEFINE r == [Idle EXCEPT !.kind = kind, !.body = body]
  <2>1. r \in AnyRequest /\ r.whole /\ r.taken = 0 /\ r.kind = kind BY Zenon DEF Idle, AnyRequest
  <2> HIDE DEF r
  <2> QED BY <1>2, <2>1, OpensSafe, Zenon DEF r
<1>3. ASSUME NEW body \in 1 .. MaxBody + 1, WriteFiles(c, body) PROVE SafeInv'
  <2>1. body \in Nat /\ "tarball" \in Kind \ {"edit"} BY BoundsAreNatural DEF Kind
  <2> QED BY <1>2, <1>3, <2>1, Zenon DEF WriteFiles
<1>4. ASSUME NEW body \in 1 .. MaxBody + 1, NEW expecting \in BOOLEAN, NEW force \in BOOLEAN,
             WriteFile(c, body, expecting, force)
      PROVE  SafeInv'
  <2>1. CASE expecting /\ ~force
    <3> PICK r : r = [Idle EXCEPT !.kind = "edit", !.body = body, !.expect = client[c].rev,
                         !.base = client[c].text, !.paired = client[c].paired]
      OBVIOUS
    <3>0. body \in Nat BY BoundsAreNatural
    <3>1. client[c].rev \in AnyRevision /\ client[c].text \in AnyText \cup {None} /\ client[c].paired \in BOOLEAN
      BY DEF SafeInv, Shape
    <3>2. /\ r \in AnyRequest /\ r.whole /\ r.taken = 0 /\ r.base = client[c].text
          /\ r.expect = client[c].rev /\ (r.paired => client[c].paired)
      <4>1. r \in AnyRequest BY <3>0, <3>1, Zenon DEF AnyRequest, Kind
      <4>2. r.paired = client[c].paired BY <3>1 DEF AnyRequest
      <4>3. r.base = client[c].text /\ r.expect = client[c].rev BY DEF AnyRequest
      <4>4. r.whole = Idle.whole /\ r.taken = Idle.taken BY Zenon DEF AnyRequest
      <4> QED BY <4>1, <4>2, <4>3, <4>4
    <3>3. client[c].paired => client[c].text \in AnyText /\ client[c].rev = Token(client[c].text)
      BY <1>4, <2>1 DEF WriteFile, SafeInv, Pairing, Paired
    <3>4. Opens(c, r) BY <1>4, <2>1 DEF WriteFile
    <3>5. r.paired => r.base \in AnyText /\ r.expect = Token(r.base) BY <3>2, <3>3
    <3> QED BY <3>2, <3>4, <3>5, OpensSafe, Zenon
  <2>2. CASE ~(expecting /\ ~force)
    <3>1. body \in Nat /\ "put" \in Kind \ {"edit"} BY BoundsAreNatural DEF Kind
    <3>2. Opens(c, [Idle EXCEPT !.kind = "put", !.body = body]) BY <1>4, <2>2 DEF WriteFile
    <3> QED BY <1>2, <3>1, <3>2, Zenon
  <2> QED BY <2>1, <2>2
<1>5. ASSUME ReadFile(c) PROVE SafeInv'
  <2>1. Idle.kind = "read" BY DEF Idle
  <2> QED BY <1>5, <2>1, OpensSafe, ZenonT(30) DEF ReadFile
<1>6. ASSUME NEW kind \in {"stream", "list", "delete", "rmtree"}, Opens(c, [Idle EXCEPT !.kind = kind])
      PROVE  SafeInv'
  <2> DEFINE r == [Idle EXCEPT !.kind = kind]
  <2>1. r \in AnyRequest /\ r.whole /\ r.taken = 0 /\ r.kind = kind BY ZenonT(60) DEF Idle, AnyRequest, Kind
  <2> HIDE DEF r
  <2> QED BY <1>6, <2>1, OpensSafe, Zenon DEF r
<1>7. ASSUME WsReadFile(c) \/ ListDir(c) \/ \E recursive \in BOOLEAN : DeleteFile(c, recursive)
      PROVE  SafeInv'
  <2>1. ASSUME NEW recursive \in BOOLEAN, DeleteFile(c, recursive) PROVE SafeInv'
    <3>1. (IF recursive THEN "rmtree" ELSE "delete") \in {"stream", "list", "delete", "rmtree"} OBVIOUS
    <3> QED BY <1>6, <2>1, <3>1, Zenon DEF DeleteFile
  <2> QED BY <1>6, <1>7, <2>1, Zenon DEF WsReadFile, ListDir
<1>8. ASSUME NEW timeout \in 0 .. MaxWait + 1, WaitPortListening(c, timeout) PROVE SafeInv'
  <2>1. (IF timeout > MaxWait THEN MaxWait ELSE timeout) \in Nat /\ "port" \in Kind \ {"edit"}
    BY BoundsAreNatural DEF Kind
  <2> QED BY <1>2, <1>8, <2>1, Zenon DEF WaitPortListening
<1>9. ASSUME HangUp(c) PROVE SafeInv'
  <2> USE DEF SafeInv, HangUp
  <2>1. Shape'
    <3>1. req[c] \in AnyRequest BY DEF Shape
    <3>2. [req[c] EXCEPT !.here = FALSE] \in AnyRequest BY <3>1, Zenon DEF AnyRequest
    <3> QED BY <1>9, <3>2 DEF Shape
  <2>2. \A d \in Client : /\ req'[d].kind = req[d].kind /\ req'[d].at = req[d].at /\ req'[d].n = req[d].n
                          /\ req'[d].taken = req[d].taken /\ req'[d].whole = req[d].whole
                          /\ req'[d].fault = req[d].fault /\ req'[d].expect = req[d].expect
                          /\ req'[d].base = req[d].base /\ req'[d].paired = req[d].paired
                          /\ req'[d].seen = req[d].seen /\ req'[d].text = req[d].text
                          /\ req'[d].raced = req[d].raced
    BY <1>9 DEF Shape, AnyRequest
  <2>3. Bodies' BY <2>2, <1>9 DEF Bodies
  <2>4. Temporaries' BY <2>2, <1>9 DEF Temporaries
  <2>5. Numbers' BY <2>2, <1>9 DEF Numbers, Serving, Free
  <2>6. Current' BY <2>2, <1>9 DEF Current
  <2>7. Pairing' BY <2>2, <1>9 DEF Pairing, Paired, TokenOf, Token
  <2> QED BY <2>1, <2>3, <2>4, <2>5, <2>6, <2>7
<1> QED BY <1>1, <1>3, <1>4, <1>5, <1>7, <1>8, <1>9 DEF Request

-----------------------------------------------------------------------------
(* The steps of a session: the body. *)

LEMMA RefuseSafe ==
  ASSUME SafeInv, NEW c \in Client, NEW code, Refuse(c, code)
  PROVE  SafeInv'
<1>1. runtime = "docker" => c \notin temp
  BY DEF SafeInv, Temporaries, Refuse, Up, First
<1> QED BY <1>1, EndSafe DEF Refuse, SafeInv, Shape

\* What stat_revision returns.
LEMMA StatIsToken ==
  ASSUME SafeInv, NEW stat \in StatRevision(file)
  PROVE  IF stat.err = "none" THEN file # None /\ stat.val = TokenOf(file) ELSE stat.val = None
<1>1. CASE runtime = "docker"
  BY <1>1 DEF StatRevision, DockerStat, Collected, Ok, Err, TokenOf
<1>2. CASE runtime = "youki"
  BY <1>2 DEF StatRevision, YoukiStat, InNamespace, Ok, Err, TokenOf
<1> QED BY <1>1, <1>2 DEF SafeInv, Shape

LEMMA CheckRevisionSafe ==
  ASSUME SafeInv, NEW c \in Client, CheckRevision(c)
  PROVE  SafeInv'
<1>1. req[c] \in AnyRequest /\ req[c].at = "check" /\ Serving(c) /\ file \in AnyFile
  BY DEF CheckRevision, Up, SafeInv, Shape, Serving, Free
<1>2. PICK stat \in StatRevision(file) :
        \/ /\ stat.err = "none" /\ stat.val = req[c].expect
           /\ req' = [req EXCEPT ![c].at = "collect", ![c].expect = None, ![c].raced = FALSE]
           /\ UNCHANGED draining
        \/ Refused(c, IF stat.err = "error" THEN "WRITE_FAILED" ELSE "REVISION_MISMATCH")
  BY DEF CheckRevision
<1>3. CASE Refused(c, IF stat.err = "error" THEN "WRITE_FAILED" ELSE "REVISION_MISMATCH")
  <2>1. runtime = "docker" => c \notin temp BY <1>1, ZenonT(60) DEF SafeInv, Temporaries
  <2> QED BY <1>1, <1>3, <2>1, EndSafe DEF Refused, CheckRevision, SafeInv, Shape
<1>4. CASE /\ stat.err = "none" /\ stat.val = req[c].expect
           /\ req' = [req EXCEPT ![c].at = "collect", ![c].expect = None, ![c].raced = FALSE]
           /\ UNCHANGED draining
  <2> DEFINE r == [req[c] EXCEPT !.at = "collect", !.expect = None, !.raced = FALSE]
  <2>1. /\ r \in AnyRequest /\ r.at = "collect" /\ r.n = req[c].n /\ r.whole = req[c].whole
        /\ r.taken = req[c].taken /\ r.kind = req[c].kind /\ r.paired = req[c].paired
        /\ r.base = req[c].base
    BY <1>1, ZenonT(60) DEF AnyRequest, Stage, AnyRevision
  <2>2. req' \in [Client -> AnyRequest] /\ req'[c] = r /\ \A d \in Client \ {c} : req'[d] = req[d]
    BY <1>4, <2>1 DEF SafeInv, Shape
  <2> HIDE DEF r
  <2>3. file # None /\ stat.val = TokenOf(file)
    BY <1>2, <1>4, StatIsToken
  <2>4. Paired(c)'
    <3>1. UNCHANGED <<client, file, runtime>> BY DEF CheckRevision
    <3>2. req[c].kind = "edit" /\ req[c].paired =>
            req[c].base \in AnyText /\ TokenOf(file) = Token(req[c].base)
      BY <1>1, <1>4, <2>3, Zenon DEF Paired, Pairing, SafeInv
    <3>3. TokenOf(file') = TokenOf(file) /\ TokenOf(file)' = TokenOf(file) BY <3>1 DEF TokenOf
    <3> QED BY <2>1, <2>2, <2>3, <3>1, <3>2, <3>3 DEF Paired, Pairing, SafeInv, Token
  <2>5. Serving(c)' BY <2>1, <2>2 DEF Serving, Free
  <2>6. req'[c].whole /\ req'[c].taken <= MaxBody
    BY <1>1, <2>1, <2>2, BoundsAreNatural DEF SafeInv, Bodies
  <2>7. runtime = "docker" => c \notin temp BY <1>1 DEF SafeInv, Temporaries
  <2> QED BY <1>1, <1>4, <2>1, <2>2, <2>4, <2>5, <2>6, <2>7, MoveSafe
          DEF CheckRevision, Steps, SafeInv, Shape
<1> QED BY <1>2, <1>3, <1>4

LEMMA CollectSafe ==
  ASSUME SafeInv, NEW c \in Client, Collect(c)
  PROVE  SafeInv'
<1>1. req[c] \in AnyRequest /\ req[c].at = "collect" /\ Serving(c)
  BY DEF Collect, Up, SafeInv, Shape, Serving, Free
<1>2. runtime = "docker" => c \notin temp BY <1>1 DEF SafeInv, Temporaries
<1>3. CASE Refused(c, "PAYLOAD_TOO_LARGE")
  BY <1>1, <1>2, <1>3, EndSafe, ZenonT(60) DEF Refused, Collect, SafeInv, Shape
<1>4. CASE req[c].taken # MaxBody /\ req' = [req EXCEPT ![c].taken = @ + 1] /\ UNCHANGED draining
  <2> DEFINE r == [req[c] EXCEPT !.taken = @ + 1]
  <2>1. /\ r \in AnyRequest /\ r.at = "collect" /\ r.n = req[c].n /\ r.whole = req[c].whole
        /\ r.taken = req[c].taken + 1 /\ r.kind = req[c].kind /\ r.paired = req[c].paired
        /\ r.base = req[c].base /\ r.raced = req[c].raced
    BY <1>1 DEF AnyRequest
  <2>2. req' \in [Client -> AnyRequest] /\ req'[c] = r /\ \A d \in Client \ {c} : req'[d] = req[d]
    BY <1>4, <2>1, ZenonT(30) DEF SafeInv, Shape
  <2> HIDE DEF r
  <2>3. Paired(c)'
    BY <1>1, <1>4, <2>1, <2>2 DEF Paired, Pairing, SafeInv, Collect, TokenOf, Token
  <2>4. Serving(c)' BY <2>1, <2>2 DEF Serving, Free
  <2>5. req'[c].whole /\ req'[c].taken <= MaxBody
    BY <1>1, <1>4, <2>1, <2>2, BoundsAreNatural DEF SafeInv, Bodies, AnyRequest
  <2> QED BY <1>1, <1>2, <1>4, <2>1, <2>2, <2>3, <2>4, <2>5, MoveSafe
          DEF Collect, Steps, SafeInv, Shape
<1> QED BY <1>3, <1>4 DEF Collect

\* The body is handed to the runtime.
LEMMA BodySafe ==
  ASSUME SafeInv, NEW c \in Client, BodyEnds(c), NEW stage, HasBody(c, stage),
         stage \in {"extract", "temp", "thread"},
         runtime = "docker" => stage # "thread", runtime = "youki" => stage # "temp",
         stage = "extract" => req[c].kind = "tarball",
         UNCHANGED <<runtime, made, now, file, temp, client, draining>>
  PROVE  SafeInv'
<1>1. req[c] \in AnyRequest /\ req[c].at = "collect" /\ Serving(c)
  BY ZenonT(60) DEF BodyEnds, Up, SafeInv, Shape, Serving, Free
<1>2. runtime = "docker" => c \notin temp BY <1>1 DEF SafeInv, Temporaries
<1> DEFINE w == req[c].here => req[c].taken = req[c].body
<1>3. w = TRUE BY <1>1, Zenon DEF BodyEnds, AnyRequest
<1> DEFINE r == [req[c] EXCEPT !.at = stage, !.body = 0, !.whole = w]
<1>4. req' = [req EXCEPT ![c].at = stage, ![c].body = 0, ![c].whole = w] BY DEF HasBody
<1> HIDE DEF w
<1>5. /\ r \in AnyRequest /\ r.at = stage /\ r.n = req[c].n /\ r.whole
      /\ r.taken = req[c].taken /\ r.kind = req[c].kind /\ r.paired = req[c].paired
      /\ r.base = req[c].base /\ r.raced = req[c].raced
  BY <1>1, <1>3, ZenonT(60) DEF AnyRequest, Stage
<1>6. req' \in [Client -> AnyRequest] /\ req'[c] = r /\ \A d \in Client \ {c} : req'[d] = req[d]
  BY <1>4, <1>5 DEF SafeInv, Shape
<1> HIDE DEF r
<1>7. Paired(c)'
  BY <1>1, <1>5, <1>6, ZenonT(60) DEF Paired, Pairing, SafeInv, TokenOf
<1>8. Serving(c)' BY <1>5, <1>6 DEF Serving, Free
<1>9. req'[c].taken <= MaxBody BY <1>1, <1>5, <1>6, ZenonT(60) DEF SafeInv, Bodies
<1> QED BY <1>1, <1>2, <1>5, <1>6, <1>7, <1>8, <1>9, MoveSafe, ZenonT(60) DEF Steps, SafeInv, Shape

LEMMA BodyEndsSafe ==
  ASSUME SafeInv, NEW c \in Client, DockerMakeDir(c) \/ \E allowed \in BOOLEAN : YoukiHandsOff(c, allowed)
  PROVE  SafeInv'
<1>1. CASE Fails(c, "WRITE_FAILED", "none")
  <2>1. runtime = "docker" => c \notin temp
    BY ZenonT(30) DEF SafeInv, Temporaries, DockerMakeDir, YoukiHandsOff, BodyEnds, Up
  <2> QED BY <1>1, <2>1, EndSafe, ZenonT(60) DEF DockerMakeDir, YoukiHandsOff, SafeInv, Shape
<1>2. CASE HasBody(c, IF req[c].kind = "tarball" THEN "extract" ELSE "temp") /\ DockerMakeDir(c)
  BY <1>2, BodySafe, ZenonT(30) DEF DockerMakeDir
<1>3. CASE /\ HasBody(c, IF req[c].kind = "tarball" THEN "extract" ELSE "thread")
           /\ \E allowed \in BOOLEAN : YoukiHandsOff(c, allowed)
  BY <1>3, BodySafe DEF YoukiHandsOff
<1> QED BY <1>1, <1>2, <1>3, ZenonT(60) DEF DockerMakeDir, YoukiHandsOff

-----------------------------------------------------------------------------
(* The steps of a session: replacing the file. *)

LEMMA WrittenType ==
  ASSUME SafeInv, NEW c \in Client, NEW size \in 0 .. MaxBody
  PROVE  Written(c, size) \in AnyText /\ Written(c, size) \in AnyFile /\ Written(c, size).n = req[c].n
BY DEF Written, SafeInv, Shape, AnyRequest, AnyText, AnyFile

LEMMA StoredRecord ==
  ASSUME NEW r \in AnyRequest, NEW seen \in AnyFile, NEW text \in AnyText, NEW paired \in BOOLEAN,
         NEW s, s = [r EXCEPT !.at = "stat", !.seen = seen, !.text = text, !.paired = paired, !.raced = FALSE]
  PROVE  s \in AnyRequest
BY ZenonT(60) DEF AnyRequest, Stage

LEMMA StoredType ==
  ASSUME SafeInv, NEW c \in Client, req[c].at \in {"rename", "thread"}
  PROVE  /\ Stored(c) \in AnyRequest
         /\ Stored(c).at = "stat" /\ Stored(c).n = req[c].n /\ Stored(c).whole
         /\ Stored(c).kind = req[c].kind /\ Stored(c).text = Written(c, req[c].taken)
         /\ Stored(c).kind = "edit" /\ Stored(c).paired /\ (runtime = "youki" => ~IsDir(file)) =>
              Token(Stored(c).seen) = Token(Stored(c).base)
<1>1. req[c] \in AnyRequest /\ req[c].taken \in 0 .. MaxBody /\ file \in AnyFile /\ req[c].whole
  BY DEF SafeInv, Shape, Bodies, AnyRequest
<1> DEFINE seen == IF req[c].kind = "edit" THEN file ELSE None
           text == Written(c, req[c].taken)
           paired == req[c].paired /\ ~req[c].raced
<1>2. seen \in AnyFile BY <1>1, Zenon DEF AnyFile
<1>3. text \in AnyText BY <1>1, WrittenType, ZenonT(30)
<1>4. paired \in BOOLEAN OBVIOUS
<1>5. req[c].kind = "edit" /\ paired => TokenOf(file) = Token(req[c].base)
  BY DEF SafeInv, Pairing, Paired
<1>6. (runtime = "youki" /\ IsDir(file)) \/ TokenOf(file) = Token(file) BY DEF TokenOf, Token
<1>7. Stored(c) = [req[c] EXCEPT !.at = "stat", !.seen = seen, !.text = text,
                     !.paired = paired, !.raced = FALSE]
  BY DEF Stored
<1>8. req[c].kind = "edit" => seen = file OBVIOUS
<1> HIDE DEF seen, text, paired
<1>9. Stored(c) \in AnyRequest
  BY <1>1, <1>2, <1>3, <1>4, <1>7, StoredRecord, ZenonT(60)
<1>10. /\ Stored(c).at = "stat" /\ Stored(c).n = req[c].n /\ Stored(c).kind = req[c].kind /\ Stored(c).base = req[c].base
       /\ Stored(c).seen = seen /\ Stored(c).text = text
  BY <1>1, <1>7 DEF AnyRequest
<1>11. Stored(c).paired = paired /\ Stored(c).whole = req[c].whole
  BY <1>1, <1>4, <1>7, Zenon DEF AnyRequest
<1> QED BY <1>1, <1>5, <1>6, <1>8, <1>9, <1>10, <1>11, Zenon DEF text

LEMMA DockerTeeSafe ==
  ASSUME SafeInv, NEW c \in Client, DockerTee(c)
  PROVE  SafeInv'
<1>1. req[c] \in AnyRequest /\ req[c].at = "temp" /\ Serving(c)
  BY DEF DockerTee, Up, SafeInv, Shape, Serving, Free
<1>2. runtime # "youki" /\ c \notin temp BY <1>1, ZenonT(60) DEF SafeInv, Shape, Temporaries
<1>3. CASE Moves(c, "rename") /\ temp' = temp \union {c}
  <2> DEFINE r == [req[c] EXCEPT !.at = "rename"]
  <2>1. /\ r \in AnyRequest /\ r.at = "rename" /\ r.n = req[c].n /\ r.whole = req[c].whole
        /\ r.taken = req[c].taken /\ r.kind = req[c].kind /\ r.paired = req[c].paired
        /\ r.base = req[c].base /\ r.raced = req[c].raced
    BY <1>1 DEF AnyRequest, Stage
  <2>2. req' \in [Client -> AnyRequest] /\ req'[c] = r /\ \A d \in Client \ {c} : req'[d] = req[d]
    BY <1>3, <2>1 DEF SafeInv, Shape, Moves
  <2> HIDE DEF r
  <2>3. Paired(c)'
    <3>1. UNCHANGED <<client, file, runtime>> BY DEF DockerTee
    <3> QED BY <1>1, <2>1, <2>2, <3>1, ZenonT(60) DEF Paired, Pairing, SafeInv, TokenOf
  <2>4. Serving(c)' BY <2>1, <2>2, ZenonT(60) DEF Serving, Free
  <2>5. req'[c].whole /\ req'[c].taken <= MaxBody BY <1>1, <2>1, <2>2, ZenonT(30) DEF SafeInv, Bodies
  <2> QED BY <1>1, <1>2, <1>3, <2>1, <2>2, <2>3, <2>4, <2>5, MoveSafe
          DEF DockerTee, Steps, SafeInv, Shape
<1>4. ASSUME NEW fault \in {"none", "exec"}, Fails(c, "WRITE_FAILED", fault),
             temp' \subseteq temp \cup {c}, c \in temp' => fault = "exec"
      PROVE  SafeInv'
  BY <1>4, EndSafe DEF DockerTee, SafeInv, Shape
<1> QED BY <1>2, <1>3, <1>4 DEF DockerTee, CleanUp

LEMMA DockerMoveSafe ==
  ASSUME SafeInv, NEW c \in Client, DockerMove(c)
  PROVE  SafeInv'
<1>1. /\ req[c] \in AnyRequest /\ req[c].at = "rename" /\ Serving(c) /\ file \in AnyFile
      /\ now \in Nat /\ temp \subseteq Client
  BY DEF DockerMove, Up, SafeInv, Shape, Serving, Free
<1>2. runtime = "docker" BY <1>1 DEF SafeInv, Shape, Temporaries
<1>3. req[c].taken \in 0 .. MaxBody BY <1>1 DEF SafeInv, Bodies, AnyRequest
<1> DEFINE new == IF IsDir(file) THEN Directory(now) ELSE Written(c, req[c].taken)
<1>4. CASE Changes(c, new, Stored(c)) /\ temp' = temp \ {c}
  <2>1. new \in AnyFile /\ new.n \in {0, req[c].n} /\ (new = Written(c, req[c].taken) \/ IsDir(new))
    <3>1. CASE IsDir(file)
      <4>1. new = Directory(now) BY <3>1
      <4>2. Directory(now) # None BY <1>1, NoneIsNoFile, BoundsAreNatural DEF Directory, DirSize
      <4> QED BY <1>1, <4>1, <4>2 DEF AnyFile, Directory, IsDir
    <3>2. CASE ~IsDir(file) BY <1>3, <3>2, WrittenType, ZenonT(60)
    <3> QED BY <3>1, <3>2, Zenon
  <2> HIDE DEF new
  <2>2. /\ req' \in [Client -> AnyRequest] /\ req'[c] = Stored(c) /\ file' = new
        /\ \A d \in Client \ {c} : Overtaken(d)
    BY <1>1, <1>4, <2>1, StoredType, ChangesOvertake DEF SafeInv
  <2> QED BY <1>1, <1>2, <1>4, <2>1, <2>2, StoredType, ChangeSafe, ZenonT(60) DEF DockerMove, Token
<1>5. ASSUME NEW fault \in {"none", "exec"}, Fails(c, "WRITE_FAILED", fault), UNCHANGED file,
             temp' \subseteq temp \cup {c}, c \in temp' => fault = "exec"
      PROVE  SafeInv'
  BY <1>1, <1>5, EndSafe, Zenon DEF DockerMove
<1> QED BY <1>4, <1>5 DEF DockerMove, CleanUp

LEMMA YoukiWritesSafe ==
  ASSUME SafeInv, NEW c \in Client, YoukiWrites(c)
  PROVE  SafeInv'
<1>1. /\ req[c] \in AnyRequest /\ req[c].at = "thread" /\ Serving(c) /\ file \in AnyFile
      /\ temp \subseteq Client
  BY DEF YoukiWrites, Up, SafeInv, Shape, Serving, Free
<1>2. runtime = "youki" BY <1>1 DEF SafeInv, Shape, Temporaries
<1>3. req[c].taken \in 0 .. MaxBody BY <1>1 DEF SafeInv, Bodies, AnyRequest
<1>4. PICK done \in YoukiWrite(file, Written(c, req[c].taken)) :
        /\ Changes(c, done.val[1],
             IF done.err = "none" THEN Stored(c) ELSE Over(c, "WRITE_FAILED", "none"))
        /\ temp' = IF done.val[2] THEN temp \union {c} ELSE temp
  BY ZenonT(60) DEF YoukiWrites
<1>5. temp' \subseteq Client /\ \A d \in Client \ {c} : d \in temp' => d \in temp BY <1>1, <1>4
<1>6. \/ done.err = "error" /\ done.val[1] = file
      \/ done.err = "none" /\ done.val[1] = Written(c, req[c].taken) /\ ~IsDir(file)
  <2> DEFINE text == Written(c, req[c].taken)
  <2> HIDE DEF text
  <2>1. \/ done = Failed("error", <<file, FALSE>>) \/ done = Failed("error", <<file, TRUE>>)
        \/ done = Ok(<<text, FALSE>>) /\ ~IsDir(file)
    BY <1>4, ZenonT(30) DEF YoukiWrite, text
  <2>2. \A b \in BOOLEAN : Failed("error", <<file, b>>).err = "error" /\ Failed("error", <<file, b>>).val[1] = file
    BY ZenonT(30) DEF Failed
  <2>3. Ok(<<text, FALSE>>).err = "none" /\ Ok(<<text, FALSE>>).val[1] = text BY DEF Ok
  <2> QED BY <2>1, <2>2, <2>3, Zenon DEF text
<1>7. CASE done.err = "error" /\ done.val[1] = file
  <2>1. /\ req' \in [Client -> AnyRequest] /\ req'[c] = Over(c, "WRITE_FAILED", "none") /\ file' = file
        /\ \A d \in Client \ {c} : Overtaken(d)
    <3>1. Over(c, "WRITE_FAILED", "none") \in AnyRequest BY OverType, ZenonT(30) DEF SafeInv
    <3>2. Changes(c, file, Over(c, "WRITE_FAILED", "none")) BY <1>4, <1>7
    <3> QED BY <1>1, <3>1, <3>2, ChangesOvertake, Zenon DEF SafeInv
  <2>2. req'[c].at = "gone" /\ req'[c].whole BY <2>1, OverType DEF SafeInv
  <2> QED BY <1>1, <1>2, <1>5, <2>1, <2>2, ChangeSafe, Zenon DEF YoukiWrites
<1>8. CASE done.err = "none" /\ done.val[1] = Written(c, req[c].taken) /\ ~IsDir(file)
  <2>1. /\ req' \in [Client -> AnyRequest] /\ req'[c] = Stored(c) /\ file' = Written(c, req[c].taken)
        /\ \A d \in Client \ {c} : Overtaken(d)
    BY <1>1, <1>3, <1>4, <1>8, StoredType, WrittenType, ChangesOvertake, ZenonT(60) DEF SafeInv
  <2> QED BY <1>1, <1>2, <1>3, <1>5, <1>8, <2>1, StoredType, WrittenType, ChangeSafe, ZenonT(60) DEF YoukiWrites
<1> QED BY <1>6, <1>7, <1>8, ZenonT(60)

LEMMA ExtractSafe ==
  ASSUME SafeInv, NEW c \in Client, NEW size \in 0 .. MaxBody, Extract(c, size)
  PROVE  SafeInv'
<1>1. /\ req[c] \in AnyRequest /\ req[c].at = "extract" /\ Serving(c) /\ file \in AnyFile
      /\ temp \subseteq Client /\ req[c].whole /\ req[c].taken <= MaxBody
  BY DEF Extract, Up, SafeInv, Shape, Serving, Free, Bodies
<1>2. runtime = "docker" => c \notin temp BY <1>1, ZenonT(60) DEF SafeInv, Temporaries
<1> DEFINE mine == IF size = req[c].taken THEN Over(c, "EXITED", "none") ELSE req[c]
<1>3. /\ mine \in AnyRequest /\ mine.whole
      /\ mine.at = "gone" \/ (mine.at = "extract" /\ mine.n = req[c].n /\ mine.taken <= MaxBody)
  BY <1>1, OverType DEF SafeInv
<1>4. Changes(c, Written(c, size), mine) BY ZenonT(30) DEF Extract
<1> HIDE DEF mine
<1>5. /\ req' \in [Client -> AnyRequest] /\ req'[c] = mine /\ file' = Written(c, size)
      /\ \A d \in Client \ {c} : Overtaken(d)
  BY <1>3, <1>4, WrittenType, ChangesOvertake DEF SafeInv
<1> QED BY <1>1, <1>2, <1>3, <1>5, WrittenType, ChangeSafe, Zenon DEF Extract

LEMMA DriveDeleteFileSafe ==
  ASSUME SafeInv, NEW c \in Client, DriveDeleteFile(c)
  PROVE  SafeInv'
<1>1. /\ req[c] \in AnyRequest /\ req[c].at = "call" /\ Serving(c) /\ file \in AnyFile
      /\ temp \subseteq Client
  BY DEF DriveDeleteFile, Up, SafeInv, Shape, Serving, Free
<1>2. runtime = "docker" => c \notin temp BY <1>1 DEF SafeInv, Temporaries
<1>3. PICK delete \in Deletes(c), end \in {"EXITED", "DIRECTORY_NOT_EMPTY", "DELETE_FAILED"} :
        Changes(c, delete.val, Over(c, end, "none"))
  BY ZenonT(30) DEF DriveDeleteFile
<1>4. delete.val \in {file, None}
  BY <1>3 DEF Deletes, DockerDelete, YoukiDelete, Ok, Failed
<1>5. /\ req' \in [Client -> AnyRequest] /\ req'[c] = Over(c, end, "none") /\ file' = delete.val
      /\ \A d \in Client \ {c} : Overtaken(d)
  BY <1>1, <1>3, <1>4, OverType, ChangesOvertake, ZenonT(30) DEF SafeInv, AnyFile
<1>6. req'[c].at = "gone" /\ req'[c].whole BY <1>5, OverType DEF SafeInv
<1> QED BY <1>1, <1>2, <1>4, <1>5, <1>6, ChangeSafe DEF DriveDeleteFile, AnyFile

-----------------------------------------------------------------------------
(* The other steps of a session. *)

LEMMA DriveReadFileSafe ==
  ASSUME SafeInv, NEW c \in Client, DriveReadFile(c)
  PROVE  SafeInv'
<1>1. /\ req[c] \in AnyRequest /\ req[c].at = "call" /\ Serving(c) /\ file \in AnyFile
      /\ temp \subseteq Client
  BY DEF DriveReadFile, Up, SafeInv, Shape, Serving, Free
<1>2. runtime = "docker" => c \notin temp BY <1>1 DEF SafeInv, Temporaries
<1>3. PICK read \in IF runtime = "docker" THEN DockerRead(file) ELSE YoukiRead(file) :
        IF read.err = "none"
        THEN req' = [req EXCEPT ![c].at = "stat", ![c].text = read.val, ![c].raced = FALSE]
        ELSE Fails(c, IF read.err = "missing" THEN "FILE_NOT_FOUND" ELSE "READ_FAILED", "none")
  BY Zenon DEF DriveReadFile
<1>4. CASE read.err # "none"
  BY <1>1, <1>2, <1>3, <1>4, EndSafe DEF DriveReadFile
<1>5. CASE read.err = "none"
  <2>1. read.val = file /\ file # None /\ ~IsDir(file)
    BY <1>3, <1>5 DEF DockerRead, YoukiRead, InNamespace, Ok, Err, IsText, IsDir
  <2>2. file \in AnyText
    BY <1>1, <2>1, BoundsAreNatural DEF AnyFile, IsDir, Directory
  <2> DEFINE r == [req[c] EXCEPT !.at = "stat", !.text = file, !.raced = FALSE]
  <2>3. /\ r \in AnyRequest /\ r.at = "stat" /\ r.n = req[c].n /\ r.whole = req[c].whole
        /\ r.kind = req[c].kind /\ r.text = file
    BY <1>1, <2>2, Zenon DEF AnyRequest, Stage
  <2>4. req' \in [Client -> AnyRequest] /\ req'[c] = r /\ \A d \in Client \ {c} : req'[d] = req[d]
    BY <1>3, <1>5, <2>1, <2>3, ZenonT(60) DEF SafeInv, Shape
  <2> HIDE DEF r
  <2>5. Paired(c)' BY <1>1, <2>3, <2>4 DEF Paired, Pairing, SafeInv, DriveReadFile, TokenOf, Token
  <2>6. Serving(c)' BY <2>3, <2>4, ZenonT(30) DEF Serving, Free
  <2>7. req'[c].whole BY <1>1, <2>3, <2>4, ZenonT(30) DEF SafeInv, Bodies
  <2> QED BY <1>1, <1>2, <2>3, <2>4, <2>5, <2>6, <2>7, MoveSafe DEF DriveReadFile, Steps
<1> QED BY <1>4, <1>5

LEMMA SimpleEndSafe ==
  ASSUME SafeInv, NEW c \in Client, req[c].at \in {"call", "probe", "extract"},
         NEW end, Fails(c, end, "none"),
         UNCHANGED <<runtime, made, now, file, temp, client, draining>>
  PROVE  SafeInv'
<1>1. runtime = "docker" => c \notin temp BY DEF SafeInv, Temporaries
<1> QED BY <1>1, EndSafe, ZenonT(30) DEF SafeInv, Shape

LEMMA ProbeSafe ==
  ASSUME SafeInv, NEW c \in Client, DriveWaitPortListening(c)
  PROVE  SafeInv'
<1>1. /\ req[c] \in AnyRequest /\ req[c].at = "probe" /\ Serving(c) /\ temp \subseteq Client
      /\ UNCHANGED <<runtime, made, now, file, temp, client, draining>>
  BY DEF DriveWaitPortListening, DockerProbe, YoukiProbe, Up, SafeInv, Shape, Serving, Free
<1>2. CASE \E end : Fails(c, end, "none") BY <1>1, <1>2, SimpleEndSafe, ZenonT(60)
<1>3. ASSUME NEW spent \in Nat, req' = [req EXCEPT ![c].taken = spent] PROVE SafeInv'
  <2> DEFINE r == [req[c] EXCEPT !.taken = spent]
  <2>1. /\ r \in AnyRequest /\ r.at = "probe" /\ r.n = req[c].n /\ r.whole = req[c].whole
        /\ r.kind = req[c].kind
    BY <1>1 DEF AnyRequest
  <2>2. req' \in [Client -> AnyRequest] /\ req'[c] = r /\ \A d \in Client \ {c} : req'[d] = req[d]
    BY <1>3, <2>1 DEF SafeInv, Shape
  <2> HIDE DEF r
  <2>3. Paired(c)' BY <1>1, <2>1, <2>2, Zenon DEF Paired, Pairing, SafeInv, Token
  <2>4. Serving(c)' BY <2>1, <2>2, ZenonT(60) DEF Serving, Free
  <2>5. req'[c].whole BY <1>1, <2>1, <2>2, ZenonT(30) DEF SafeInv, Bodies
  <2>6. runtime = "docker" => c \notin temp BY <1>1 DEF SafeInv, Temporaries
  <2> QED BY <1>1, <2>1, <2>2, <2>3, <2>4, <2>5, <2>6, MoveSafe DEF Steps
<1>4. CASE DockerProbe(c)
  <2>1. req[c].taken + 1 \in Nat BY <1>1 DEF AnyRequest
  <2> QED BY <1>2, <1>3, <1>4, <2>1, ZenonT(30) DEF DockerProbe, Ends, Fails
<1>5. CASE YoukiProbe(c)
  <2>1. \A spent \in req[c].taken + 1 .. req[c].body : spent \in Nat BY <1>1 DEF AnyRequest
  <2> QED BY <1>2, <1>3, <1>5, <2>1, ZenonT(30) DEF YoukiProbe, Ends, Fails
<1> QED BY <1>4, <1>5 DEF DriveWaitPortListening

LEMMA SendMetaSafe ==
  ASSUME SafeInv, NEW c \in Client, SendMeta(c)
  PROVE  SafeInv'
<1>1. /\ req[c] \in AnyRequest /\ req[c].at = "stat" /\ file \in AnyFile /\ temp \subseteq Client
      /\ client \in [Client -> Known]
  BY ZenonT(30) DEF SendMeta, Up, SafeInv, Shape, Known
<1>2. runtime = "docker" => c \notin temp BY <1>1 DEF SafeInv, Temporaries
<1>3. req' = [req EXCEPT ![c] = Over(c, "EXITED", "none")] BY Zenon DEF SendMeta, Ends
<1>4. Steps(c) /\ req'[c].at = "gone" /\ req'[c].whole
  BY <1>3, OverType DEF SafeInv, Steps, Shape
<1>5. PICK stat \in StatRevision(file) :
        client' = IF req[c].here
                  THEN [client EXCEPT ![c] =
                          IF req[c].raced \/ IsDir(file)
                          THEN [text |-> None, rev |-> stat.val, paired |-> FALSE]
                          ELSE [text |-> req[c].text, rev |-> stat.val, paired |-> TRUE]]
                  ELSE client
  BY Zenon DEF SendMeta
<1>6. stat.val = None \/ (file # None /\ stat.val = TokenOf(file))
  BY <1>5, StatIsToken, ZenonT(30)
<1>7. stat.val \in AnyRevision
  <2>1. file # None => file.born \in Nat /\ file.size \in Nat
    BY <1>1, BoundsAreNatural DEF AnyFile, AnyText, Directory, DirSize
  <2> QED BY <1>6, <2>1 DEF AnyRevision, TokenOf
<1>8. InHand(client[c]) BY DEF SafeInv, Pairing, Paired, InHand
<1>9. CASE ~req[c].here BY <1>1, <1>2, <1>4, <1>5, <1>8, <1>9, FinishSafe, Zenon DEF SendMeta
<1>10. CASE req[c].here
  <2> DEFINE k == IF req[c].raced \/ IsDir(file)
                  THEN [text |-> None, rev |-> stat.val, paired |-> FALSE]
                  ELSE [text |-> req[c].text, rev |-> stat.val, paired |-> TRUE]
  <2>1. client' = [client EXCEPT ![c] = k] BY <1>5, <1>10, ZenonT(60)
  <2>2. k \in Known BY <1>1, <1>7, ZenonT(60) DEF Known, AnyRequest
  <2>3. InHand(k)
    <3>1. CASE req[c].raced \/ IsDir(file) BY <3>1, ZenonT(60) DEF InHand
    <3>2. CASE ~(req[c].raced \/ IsDir(file))
      <4>1. file = req[c].text BY <1>1, <3>2, Zenon DEF SafeInv, Current, AnyRequest
      <4>2. file # None => file \in AnyText
        BY <1>1, <3>2, BoundsAreNatural DEF AnyFile, IsDir, Directory
      <4>3. TokenOf(file) = Token(file) BY <3>2 DEF TokenOf, Token
      <4> QED BY <1>6, <3>2, <4>1, <4>2, <4>3 DEF InHand
    <3> QED BY <3>1, <3>2, ZenonT(60)
  <2> HIDE DEF k
  <2>4. client' \in [Client -> Known] /\ client'[c] = k /\ \A d \in Client \ {c} : client'[d] = client[d]
    BY <1>1, <2>1, <2>2
  <2> QED BY <1>1, <1>2, <1>4, <2>3, <2>4, FinishSafe, Zenon DEF SendMeta
<1> QED BY <1>1, <1>9, <1>10, ZenonT(60) DEF AnyRequest

LEMMA SessionSafe ==
  ASSUME SafeInv, NEW c \in Client, Session(c)
  PROVE  SafeInv'
<1>1. CASE DriveListDir(c) \/ ExtractFails(c)
  BY <1>1, SimpleEndSafe DEF DriveListDir, ExtractFails, Ends, Fails, Up
<1> QED BY <1>1, RefuseSafe, CheckRevisionSafe, CollectSafe, BodyEndsSafe, DockerTeeSafe, DockerMoveSafe,
           YoukiWritesSafe, ExtractSafe, DriveReadFileSafe, DriveDeleteFileSafe, ProbeSafe, SendMetaSafe, ZenonT(60)
        DEF Session

-----------------------------------------------------------------------------
(* The tunnel and the clock. *)

LEMMA LateFilesAre ==
  ASSUME SafeInv, NEW c \in Client, NEW f \in LateFiles(c)
  PROVE  f \in AnyFile /\ (f = file \/ f = None \/ f.n \in 0 .. made)
<1>1. req[c] \in AnyRequest /\ file \in AnyFile /\ now \in Nat /\ made \in Nat BY DEF SafeInv, Shape
<1>2. CASE f = file BY <1>1, <1>2, ZenonT(30)
<1>3. CASE f = Directory(now) BY <1>1, <1>3 DEF AnyFile, Directory
<1>4. CASE f = Written(c, req[c].taken) /\ req[c].at \in {"rename", "thread", "extract"}
  <2>1. req[c].taken \in 0 .. MaxBody BY <1>1, <1>4 DEF SafeInv, Bodies, AnyRequest
  <2>2. req[c].n \in 0 .. made BY <1>1, <1>4 DEF SafeInv, Numbers, Serving, Free
  <2> QED BY <1>4, <2>1, <2>2, WrittenType, ZenonT(30)
<1>5. CASE f \in {delete.val : delete \in Deletes(c)}
  <2>1. f \in {file, None} BY <1>5 DEF Deletes, DockerDelete, YoukiDelete, Ok, Failed
  <2> QED BY <1>1, <2>1 DEF AnyFile
<1> QED BY <1>2, <1>3, <1>4, <1>5 DEF LateFiles

LEMMA LoseTunnelSafe ==
  ASSUME SafeInv, LoseTunnel
  PROVE  SafeInv'
<1> USE DEF SafeInv
<1>1. UNCHANGED <<runtime, made, now, client>> /\ draining' = {} /\ temp' \subseteq Client
  BY DEF LoseTunnel
<1>2. PICK c \in Client : file' \in LateFiles(c) BY ZenonT(60) DEF LoseTunnel
<1>3. file' \in AnyFile /\ (file' # None => file'.n \in 0 .. made)
  BY <1>2, LateFilesAre, ZenonT(60) DEF Numbers
<1>4. PICK end : req' = [d \in Client |-> IF Serving(d) THEN Over(d, end, "lost") ELSE req[d]]
  BY ZenonT(30) DEF LoseTunnel
<1>5. ASSUME NEW d \in Client
      PROVE  /\ req'[d] \in AnyRequest /\ req'[d].whole /\ req'[d].at \in {"idle", "gone"}
             /\ \/ req'[d] = req[d] /\ ~Serving(d)
                \/ req'[d].at = "gone" /\ req'[d].fault = "lost"
  <2>1. CASE Serving(d)
    <3>1. req'[d] = Over(d, end, "lost") BY <1>4, <2>1
    <3> QED BY <2>1, <3>1, OverType
  <2>2. CASE ~Serving(d)
    <3>1. req'[d] = req[d] BY <1>4, <2>2
    <3>2. req[d].at \in {"idle", "gone"} BY <2>2 DEF Serving, Free
    <3>3. req[d] \in AnyRequest /\ req[d].whole BY DEF Shape, Bodies
    <3> QED BY <2>2, <3>1, <3>2, <3>3
  <2> QED BY <2>1, <2>2, ZenonT(60)
<1>6. \A d \in Client : ~Serving(d)' BY <1>5 DEF Serving, Free
<1>7. Shape' BY <1>1, <1>3, <1>4, <1>5, ZenonT(60) DEF Shape
<1>8. Bodies' BY <1>5, ZenonT(60) DEF Bodies
<1>9. Temporaries'
  <2>1. ASSUME NEW d \in Client, d \in temp', ~Serving(d) PROVE d \in temp
    BY <2>1, ZenonT(60) DEF LoseTunnel, Serving, Free
  <2> QED BY <1>1, <1>5, <2>1 DEF Temporaries, Serving, Free
<1>10. Numbers' BY <1>1, <1>3, <1>6, ZenonT(30) DEF Numbers
<1>11. Current' BY <1>5 DEF Current
<1>12. Pairing' BY <1>1, <1>5, Zenon DEF Pairing, Paired, Token
<1> QED BY <1>7, <1>8, <1>9, <1>10, <1>11, <1>12, ZenonT(60)

LEMMA TickSafe ==
  ASSUME SafeInv, Tick \/ UNCHANGED vars
  PROVE  SafeInv'
<1> USE DEF SafeInv, Tick, vars
<1>1. Shape' BY DEF Shape
<1>2. Bodies' BY ZenonT(30) DEF Bodies
<1>3. Temporaries' BY DEF Temporaries
<1>4. Numbers' BY Zenon DEF Numbers, Serving, Free
<1>5. Current' BY ZenonT(60) DEF Current
<1>6. Pairing' BY DEF Pairing, Paired, TokenOf, Token
<1> QED BY <1>1, <1>2, <1>3, <1>4, <1>5, <1>6, ZenonT(30)

LEMMA InitSafe == Init => SafeInv
<1> SUFFICES ASSUME Init PROVE SafeInv OBVIOUS
<1>0. \A c \in Client : req[c] = Idle /\ client[c] = NothingKnown BY DEF Init
<1>1. Original \in AnyText /\ Original.n = 0 BY BoundsAreNatural DEF Original, AnyText
<1>2. Directory(0) \in AnyFile /\ Directory(0).n = 0 BY DEF AnyFile, Directory
<1>3. file \in AnyFile /\ file.n = 0 BY <1>1, <1>2 DEF Init, AnyFile
<1>4. NothingKnown \in Known /\ NothingKnown.rev = None BY DEF NothingKnown, Known, AnyRevision
<1>5. Shape BY <1>0, <1>3, <1>4, IdleType, KnownRuntimes, ZenonT(30) DEF Init, Shape, Known
<1>6. Bodies BY <1>0, IdleType DEF Bodies
<1>7. Temporaries BY <1>0, IdleType DEF Init, Temporaries
<1>8. Numbers BY <1>0, <1>3, IdleType DEF Init, Numbers, Serving, Free
<1>9. Current BY <1>0, IdleType, ZenonT(60) DEF Current
<1>10. Pairing BY <1>0, <1>4, IdleType DEF Pairing, Paired
<1> QED BY <1>5, <1>6, <1>7, <1>8, <1>9, <1>10 DEF SafeInv

-----------------------------------------------------------------------------
(* The theorems. *)

\* The handlers of both sides keep the invariant, whatever the clients ask for
\* and whenever the tunnel breaks.
THEOREM FilesSafe == Spec => []SafeInv
<1>1. SafeInv /\ [Next]_vars => SafeInv'
  <2> SUFFICES ASSUME SafeInv, [Next]_vars PROVE SafeInv' OBVIOUS
  <2> QED BY RequestSafe, SessionSafe, LoseTunnelSafe, TickSafe DEF Next
<1> QED BY <1>1, InitSafe, PTL DEF Spec

\* drive_write_file with a precondition: the text that was replaced is the one
\* its client had read, or one with the same second and size, unless the file
\* changed under the write.
THEOREM WritesAreGuarded == Spec => []GuardedWrite
<1>1. SafeInv => GuardedWrite
  BY DEF SafeInv, Pairing, Paired, Token, GuardedWrite, Replaced
<1> QED BY <1>1, FilesSafe, PTL

\* An acknowledged write is at the path, or inside the directory at the path.
THEOREM AcksAreStored == Spec => []AckedIsStored
<1>1. SafeInv => AckedIsStored BY DEF SafeInv, Current, AckedIsStored, Replaced
<1> QED BY <1>1, FilesSafe, PTL

\* A body cut short by a hang-up is never acknowledged to a client as whole.
THEOREM AcksAreWhole == Spec => []AckedIsWhole
<1>1. SafeInv => AckedIsWhole BY ZenonT(30) DEF SafeInv, Bodies, AckedIsWhole
<1> QED BY <1>1, FilesSafe, PTL

\* A write refused for its revision or its size leaves nothing at the path.
THEOREM RefusalsTouchNothing == Spec => []RefusedTouchesNothing
<1>1. SafeInv => RefusedTouchesNothing BY ZenonT(30) DEF SafeInv, Numbers, RefusedTouchesNothing
<1> QED BY <1>1, FilesSafe, PTL

\* cleanup_tmp_file: no temporary file outlives a write but for a failed exec or
\* a lost session.
THEOREM TempsAreRemoved == Spec => []TempRemoved
<1>1. SafeInv => TempRemoved BY DEF SafeInv, Temporaries, TempRemoved
<1> QED BY <1>1, FilesSafe, PTL
=============================================================================
