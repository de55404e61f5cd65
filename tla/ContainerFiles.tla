--------------------------- MODULE ContainerFiles ---------------------------
(***************************************************************************)
(* The file methods of the two container runtimes, on one path of the      *)
(* container's file system.  The docker runtime runs a command in the      *)
(* container (cat, stat, ls, rm) and classifies its exit; the youki        *)
(* runtime makes the system calls itself, on a thread that has entered the *)
(* container's mount namespace.                                            *)
(*                                                                         *)
(* A method is the set of its possible results on what is at the path: a   *)
(* value, or one of the errors the agent's sessions tell apart by the      *)
(* text of their detail.                                                   *)
(***************************************************************************)
EXTENDS Naturals

CONSTANTS
  None,
  MaxBody   \* MAX_WRITE_BYTES, in chunks

ASSUME NoneIsNoFile == None \notin [n : Nat, born : Nat, size : Nat]

\* What may be at the path: None, or a record with the request that wrote it,
\* the second it was written in and its size.  No text is as large as a
\* directory.
DirSize == MaxBody + 2
Directory(time) == [n |-> 0, born |-> time, size |-> DirSize]
IsDir(f) == f # None /\ f.size = DirSize
IsText(f) == f # None /\ f.size # DirSize

\* Results.  "missing": the detail says "No such file"; "nonempty": it says
\* "is a directory" or "Directory not empty"; "error": anything else.
Ok(value) == [err |-> "none", val |-> value]
Err(kind) == [err |-> kind, val |-> None]
Failed(kind, value) == [err |-> kind, val |-> value]

-----------------------------------------------------------------------------
(* Docker: every method is one exec or several.                            *)

\* exec_collect_stdout: the exec may fail to start, outgrow the buffer, or lose
\* its exit; a non-zero exit is "missing" by the words on its stderr.
Collected(results) == results \union {Err("error")}

\* read_file: cat.  In an image without cat the shell's "not found" is taken
\* for a missing file; output beyond MAX_READ_BYTES is an error.
DockerRead(f) ==
  {Err("missing"), Err("error")} \union (IF IsText(f) THEN {Ok(f)} ELSE {})

\* stat_revision: stat -c "%Y %s".
DockerStat(f) ==
  Collected(IF f = None THEN {Err("missing")} ELSE {Ok(<<f.born, f.size>>)})

\* list_dir: a shell loop whose cd failure exits 0, so that a path that is no
\* directory has an empty listing.
DockerList(f) == Collected({Ok(IF IsDir(f) THEN f ELSE None)})

\* delete_file: rm -f or rm -rf; the value is what the path holds afterwards.
\* The exec may do its work and its exit be lost.  rm words its refusal of a
\* directory "is a directory" (busybox) or "Is a directory" (GNU), and only the
\* first is recognised.
DockerDelete(f, recursive) ==
  IF IsDir(f) /\ ~recursive
  THEN {Failed("nonempty", f), Failed("error", f)}
  ELSE {Ok(None), Failed("error", f), Failed("error", None)}

-----------------------------------------------------------------------------
(* Youki: system calls on a thread of their own.                           *)

\* run_in_container_mount_ns: a stale pid, a thread that cannot be spawned, or
\* a namespace that cannot be entered ends the call before the closure runs.
InNamespace(results) == results \union {Err("error")}

\* read_file_in_ns.
YoukiRead(f) ==
  InNamespace(IF f = None THEN {Err("missing")}
              ELSE IF IsDir(f) THEN {} ELSE {Ok(f)})

\* stat_revision_in_ns: the size of a directory is 0.
YoukiStat(f) ==
  InNamespace(IF f = None THEN {Err("missing")}
              ELSE {Ok(<<f.born, IF IsDir(f) THEN 0 ELSE f.size>>)})

\* list_dir_in_ns.
YoukiList(f) ==
  InNamespace(IF f = None THEN {Err("missing")}
              ELSE IF IsDir(f) THEN {Ok(f)} ELSE {})

\* delete_in_ns: a missing path is no error; an empty directory goes without
\* the recursive flag.
YoukiDelete(f, recursive) ==
  {Failed("error", f)} \union
    (IF IsDir(f) /\ ~recursive
     THEN {Ok(None), Failed("nonempty", f)}
     ELSE {Ok(None)})

\* write_file_in_ns: create_dir_all, write the temporary file, rename it over
\* the path, with no clean-up when a step fails.  Renaming over a directory
\* fails.  The value is what the path holds afterwards and whether the
\* temporary file is left.
YoukiWrite(f, text) ==
  {Failed("error", <<f, FALSE>>), Failed("error", <<f, TRUE>>)} \union
    (IF IsDir(f) THEN {} ELSE {Ok(<<text, FALSE>>)})
=============================================================================
