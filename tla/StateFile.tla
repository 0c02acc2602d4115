------------------------------- MODULE StateFile -------------------------------
(***************************************************************************)
(* One state file of FileOAuthStorage (src/src/auth/storage.ts) and its    *)
(* <file>.tmp neighbour, on a file system where names are bound to inodes  *)
(* and an open file keeps its inode whatever happens to the name.          *)
(*                                                                         *)
(* atomicWrite is three steps of a process (open and truncate the tmp      *)
(* file, write it, rename it), loadFile two (open, read), and a process    *)
(* may crash between any two of them and start again; the tmp file it      *)
(* leaves behind is reused by the next save.                               *)
(***************************************************************************)
EXTENDS Integers, FiniteSets

CONSTANTS Procs,      \* the processes (CLI commands, Playwright workers)
          Writers,    \* those that save; every process loads and deletes
          Values,     \* the values saved
          Size,       \* the length of the JSON text of every value
          Inodes,     \* bound: how many files can be open or named at a time
          None        \* no inode, no value

ASSUME WritersAssumption == Writers \subseteq Procs
ASSUME SizeAssumption == Size \in [Values -> Nat \ {0}]
ASSUME DistinctAssumption ==
  /\ None \notin Values \cup Inodes
  /\ Values \cap {"empty", "torn"} = {}

VARIABLES target,   \* the inode <file> is bound to
          tmp,      \* the inode <file>.tmp is bound to
          content,  \* what every inode holds
          call      \* the call each process is in

vars == <<target, tmp, content, call>>

Contents == Values \cup {"empty", "torn"}

Idle == [pc |-> "idle", value |-> None, fd |-> None]

Call(pc, value, fd) == [pc |-> pc, value |-> value, fd |-> fd]

Saving == {"opening", "writing", "renaming"}

\* "loaded" holds what the load returned; a load of a text that does not parse and a
\* save whose rename fails throw.
Returned == {"saved", "loaded", "deleted", "loadThrew", "saveThrew"}

Init ==
  /\ target = None
  /\ tmp = None
  /\ content = [i \in Inodes |-> "empty"]
  /\ call = [p \in Procs |-> Idle]

Unused == Inodes \ ({target, tmp} \cup {call[p].fd : p \in Procs})

\* fs.writeFile writes at offset 0: a longer text that was there keeps its tail.  A torn
\* text is as long as one of the values, which one is not kept.
Overwrite(v, old) ==
  LET longer == {u \in Values : Size[u] > Size[v]}
  IN IF old \in longer \/ (old = "torn" /\ longer # {}) THEN "torn" ELSE v

-------------------------------------------------------------------------------
(* atomicWrite *)

BeginSave(p, v) ==
  /\ p \in Writers
  /\ call[p] = Idle
  /\ call' = [call EXCEPT ![p] = Call("opening", v, None)]
  /\ UNCHANGED <<target, tmp, content>>

\* Mutant: the file itself is written, without a tmp file.
OpenTarget(p) ==
  /\ call[p].pc = "opening"
  /\ \E i \in IF target # None THEN {target} ELSE Unused :
       /\ target' = i
       /\ content' = [content EXCEPT ![i] = "empty"]
       /\ call' = [call EXCEPT ![p] = Call("writing", call[p].value, i)]
  /\ UNCHANGED tmp

\* fs.writeFile opens the tmp file with O_CREAT and O_TRUNC: a tmp file that is there,
\* left by a crash or just opened by another process, is emptied.
OpenTmp(p) ==
  /\ call[p].pc = "opening"
  /\ \E i \in IF tmp # None THEN {tmp} ELSE Unused :
       /\ tmp' = i
       /\ content' = [content EXCEPT ![i] = "empty"]
       /\ call' = [call EXCEPT ![p] = Call("writing", call[p].value, i)]
  /\ UNCHANGED target

WriteTmp(p) ==
  LET i == call[p].fd
  IN /\ call[p].pc = "writing"
     /\ content' = [content EXCEPT ![i] = Overwrite(call[p].value, @)]
     /\ call' = [call EXCEPT ![p] = Call("renaming", call[p].value, None)]
     /\ UNCHANGED <<target, tmp>>

\* Mutant: the write is not awaited before the rename.
RenameUnawaited(p) ==
  /\ call[p].pc \in {"writing", "renaming"}
  /\ tmp # None
  /\ target' = tmp
  /\ tmp' = None
  /\ call' = [call EXCEPT ![p] = Call("saved", call[p].value, None)]
  /\ UNCHANGED content

\* Whatever is bound to the tmp name becomes the file; without one the save throws.
Rename(p) ==
  /\ call[p].pc = "renaming"
  /\ IF tmp # None
       THEN /\ target' = tmp
            /\ tmp' = None
            /\ call' = [call EXCEPT ![p] = Call("saved", call[p].value, None)]
       ELSE /\ call' = [call EXCEPT ![p] = Call("saveThrew", call[p].value, None)]
            /\ UNCHANGED <<target, tmp>>
  /\ UNCHANGED content

-------------------------------------------------------------------------------
(* loadFile and deleteFile *)

OpenFile(p) ==
  /\ call[p] = Idle
  /\ call' = [call EXCEPT ![p] = IF target = None THEN Call("loaded", None, None)
                                 ELSE Call("reading", None, target)]
  /\ UNCHANGED <<target, tmp, content>>

ReadFile(p) ==
  LET text == content[call[p].fd]
  IN /\ call[p].pc = "reading"
     /\ call' = [call EXCEPT ![p] = IF text \in Values THEN Call("loaded", text, None)
                                    ELSE Call("loadThrew", None, None)]
     /\ UNCHANGED <<target, tmp, content>>

Unlink(p) ==
  /\ call[p] = Idle
  /\ target' = None
  /\ call' = [call EXCEPT ![p] = Call("deleted", None, None)]
  /\ UNCHANGED <<tmp, content>>

\* The call returned or threw and its process goes on.
Return(p) ==
  /\ call[p].pc \in Returned
  /\ call' = [call EXCEPT ![p] = Idle]
  /\ UNCHANGED <<target, tmp, content>>

\* The process dies in the middle of a call and is started again.
Crash(p) ==
  /\ call[p].pc \in Saving \cup {"reading"}
  /\ call' = [call EXCEPT ![p] = Idle]
  /\ UNCHANGED <<target, tmp, content>>

Next ==
  \E p \in Procs :
    \/ \E v \in Values : BeginSave(p, v)
    \/ OpenTmp(p) \/ WriteTmp(p) \/ Rename(p)
    \/ OpenFile(p) \/ ReadFile(p)
    \/ Unlink(p) \/ Return(p) \/ Crash(p)

Spec == Init /\ [][Next]_vars

-------------------------------------------------------------------------------
(* Properties. *)

TypeOK ==
  /\ target \in Inodes \cup {None}
  /\ tmp \in Inodes \cup {None}
  /\ content \in [Inodes -> Contents]
  /\ call \in [Procs -> [pc : {"idle", "reading"} \cup Saving \cup Returned,
                         value : Values \cup {None},
                         fd : Inodes \cup {None}]]

\* atomicWrite's promise (storage.ts:453 "Write data atomically"): a load never meets a
\* half-written file, whatever the writers, the deleters and the crashes do.
NoTornLoad == \A p \in Procs : call[p].pc # "loadThrew"

\* A save that was called and did not crash succeeds: no other process takes its tmp
\* file away.
NoLostRename == \A p \in Procs : call[p].pc # "saveThrew"

-------------------------------------------------------------------------------
(* The file seen as a register; a load takes effect when it opens the file. *)

OpOf(p) ==
  LET c == call[p]
  IN IF c.pc \in Saving THEN [kind |-> "saving", value |-> c.value]
     ELSE IF c.pc = "reading" THEN [kind |-> "loaded", value |-> content[c.fd]]
     ELSE [kind |-> c.pc, value |-> c.value]

Ops == [p \in Procs |-> OpOf(p)]

Held == IF target = None THEN None ELSE content[target]

Register == INSTANCE AtomicRegister WITH reg <- Held, op <- Ops

\* With one writer at a time the file is an atomic register: crashes and stale tmp files
\* never show, and a load that overlaps a save returns the old or the new value.
ImplementsRegister == Register!RegisterSpec
===============================================================================
