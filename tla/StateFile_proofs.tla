--------------------------- MODULE StateFile_proofs ---------------------------
(***************************************************************************)
(* Proofs about StateFile for every set of processes, values and inodes.   *)
(* With one writer the tmp file is private to it: FileInv says so, and it  *)
(* is what makes rename the instant at which a save takes effect.          *)
(***************************************************************************)
EXTENDS StateFile, TLAPS

OneWriter == \A p, q \in Writers : p = q

\* A save in progress has a value to save.
SavingValues == \A p \in Procs : call[p].pc \in Saving => call[p].value \in Values

\* The calls that hold a value, and those that hold an open file.
CallsOK ==
  \A p \in Procs :
    /\ call[p].pc \in Saving => p \in Writers
    /\ call[p].pc \in Saving \cup {"saved"} => call[p].value \in Values
    /\ call[p].pc \in {"idle", "reading", "deleted"} => call[p].value = None
    /\ call[p].pc \in {"writing", "reading"} <=> call[p].fd # None
    /\ call[p].pc \notin {"loadThrew", "saveThrew"}

\* The tmp file belongs to the one process that saves.
TmpOK ==
  \A p \in Procs :
    /\ call[p].pc = "writing" => call[p].fd = tmp
    /\ call[p].pc = "writing" => content[tmp] = "empty"
    /\ call[p].pc = "renaming" => tmp # None /\ content[tmp] = call[p].value

\* The file, and every file still open for reading, is whole and is not the tmp file.
WholeOK ==
  /\ target # None => target # tmp /\ content[target] \in Values
  /\ \A p \in Procs : call[p].pc = "reading" =>
        call[p].fd # tmp /\ content[call[p].fd] \in Values

FileInv == CallsOK /\ TmpOK /\ WholeOK

-------------------------------------------------------------------------------
\* Every variable keeps its type, with any number of writers.
THEOREM TypeCorrect == Spec => []TypeOK
<1>1. Init => TypeOK /\ SavingValues
  BY DEF Init, TypeOK, SavingValues, Saving, Idle, Contents
<1>2. TypeOK /\ SavingValues /\ [Next]_vars => (TypeOK /\ SavingValues)'
  <2> SUFFICES ASSUME TypeOK, SavingValues, [Next]_vars PROVE (TypeOK /\ SavingValues)'
    OBVIOUS
  <2> USE DEF TypeOK, SavingValues, Call, Idle, Contents, Saving, Returned
  <2>1. ASSUME NEW p \in Procs, NEW v \in Values, BeginSave(p, v)
      PROVE  (TypeOK /\ SavingValues)'
    BY <2>1 DEF BeginSave
  <2>2. ASSUME NEW p \in Procs, OpenTmp(p)
      PROVE  (TypeOK /\ SavingValues)'
    BY <2>2 DEF OpenTmp, Unused
  <2>3. ASSUME NEW p \in Procs, WriteTmp(p)
      PROVE  (TypeOK /\ SavingValues)'
    BY <2>3 DEF WriteTmp, Overwrite
  <2>4. ASSUME NEW p \in Procs, Rename(p)
      PROVE  (TypeOK /\ SavingValues)'
    BY <2>4 DEF Rename
  <2>5. ASSUME NEW p \in Procs, OpenFile(p)
      PROVE  (TypeOK /\ SavingValues)'
    BY <2>5 DEF OpenFile
  <2>6. ASSUME NEW p \in Procs, ReadFile(p)
      PROVE  (TypeOK /\ SavingValues)'
    BY <2>6 DEF ReadFile
  <2>7. ASSUME NEW p \in Procs, Unlink(p)
      PROVE  (TypeOK /\ SavingValues)'
    BY <2>7 DEF Unlink
  <2>8. ASSUME NEW p \in Procs, Return(p) \/ Crash(p)
      PROVE  (TypeOK /\ SavingValues)'
    BY <2>8 DEF Return, Crash
  <2>9. CASE UNCHANGED vars
    BY <2>9 DEF vars
  <2> QED
    BY <2>1, <2>2, <2>3, <2>4, <2>5, <2>6, <2>7, <2>8, <2>9 DEF Next
<1> QED
  BY <1>1, <1>2, PTL DEF Spec

-------------------------------------------------------------------------------
\* The inductive invariant, when one process at most saves.
LEMMA StepKeepsFile ==
  ASSUME OneWriter, TypeOK, FileInv, [Next]_vars
  PROVE  FileInv'
<1> USE DistinctAssumption, WritersAssumption DEF FileInv, TypeOK
<1>1. ASSUME NEW p \in Procs, NEW v \in Values, BeginSave(p, v) PROVE FileInv'
  <2>1. CallsOK'
    BY <1>1 DEF BeginSave, CallsOK, Call, Idle, Saving
  <2>2. TmpOK' /\ WholeOK'
    BY <1>1 DEF BeginSave, TmpOK, WholeOK, Call, Idle
  <2> QED
    BY <2>1, <2>2
<1>2. ASSUME NEW p \in Procs, OpenTmp(p) PROVE FileInv'
  <2>1. PICK i \in Inodes : /\ i \in IF tmp # None THEN {tmp} ELSE Unused
                            /\ tmp' = i
                            /\ content' = [content EXCEPT ![i] = "empty"]
                            /\ call' = [call EXCEPT ![p] = Call("writing", call[p].value, i)]
    BY <1>2 DEF OpenTmp, Unused
  <2>2. i # target /\ \A q \in Procs : call[q].pc = "reading" => call[q].fd # i
    BY <2>1 DEF Unused, WholeOK
  <2>3. p \in Writers /\ call[p].pc = "opening" /\ target' = target
    BY <1>2 DEF OpenTmp, CallsOK, Saving
  <2>4. \A q \in Procs : q # p => call[q].pc \notin Saving
    BY <2>3 DEF CallsOK, OneWriter
  <2>5. CallsOK'
    BY <2>1, <2>3 DEF CallsOK, Call, Saving
  <2>6. TmpOK'
    BY <2>1, <2>4 DEF TmpOK, Call, Saving
  <2>7. WholeOK'
    BY <2>1, <2>2, <2>3 DEF WholeOK, Call
  <2> QED
    BY <2>5, <2>6, <2>7
<1>3. ASSUME NEW p \in Procs, WriteTmp(p) PROVE FileInv'
  <2>1. /\ p \in Writers /\ call[p].pc = "writing" /\ call[p].fd = tmp /\ tmp \in Inodes
        /\ content[tmp] = "empty" /\ call[p].value \in Values
    BY <1>3 DEF WriteTmp, CallsOK, TmpOK, Saving
  <2>2. /\ content' = [content EXCEPT ![tmp] = call[p].value]
        /\ call' = [call EXCEPT ![p] = Call("renaming", call[p].value, None)]
        /\ target' = target /\ tmp' = tmp
    BY <1>3, <2>1 DEF WriteTmp, Overwrite
  <2>3. \A q \in Procs : q # p => call[q].pc \notin Saving
    BY <2>1 DEF CallsOK, OneWriter
  <2>4. CallsOK'
    BY <2>1, <2>2 DEF CallsOK, Call, Saving
  <2>5. TmpOK'
    BY <2>1, <2>2, <2>3 DEF TmpOK, Call, Saving
  <2>6. WholeOK'
    BY <2>1, <2>2 DEF WholeOK, Call
  <2> QED
    BY <2>4, <2>5, <2>6
<1>4. ASSUME NEW p \in Procs, Rename(p) PROVE FileInv'
  <2>1. /\ p \in Writers /\ call[p].value \in Values
        /\ tmp # None /\ content[tmp] = call[p].value
    BY <1>4 DEF Rename, CallsOK, TmpOK, Saving
  <2>2. /\ target' = tmp /\ tmp' = None /\ content' = content
        /\ call' = [call EXCEPT ![p] = Call("saved", call[p].value, None)]
    BY <1>4, <2>1 DEF Rename
  <2>3. \A q \in Procs : q # p => call[q].pc \notin Saving
    BY <1>4, <2>1 DEF Rename, CallsOK, OneWriter
  <2>4. CallsOK'
    BY <2>1, <2>2 DEF CallsOK, Call, Saving
  <2>5. TmpOK'
    BY <2>2, <2>3 DEF TmpOK, Call, Saving
  <2>6. WholeOK'
    BY <2>1, <2>2 DEF WholeOK, CallsOK, Call
  <2> QED
    BY <2>4, <2>5, <2>6
<1>5. ASSUME NEW p \in Procs, OpenFile(p) PROVE FileInv'
  <2>1. CallsOK'
    BY <1>5 DEF OpenFile, CallsOK, Call, Idle, Saving
  <2>2. TmpOK' /\ WholeOK'
    BY <1>5 DEF OpenFile, TmpOK, WholeOK, Call, Idle
  <2> QED
    BY <2>1, <2>2
<1>6. ASSUME NEW p \in Procs, ReadFile(p) PROVE FileInv'
  <2>1. /\ call' = [call EXCEPT ![p] = Call("loaded", content[call[p].fd], None)]
        /\ UNCHANGED <<target, tmp, content>>
    BY <1>6 DEF ReadFile, WholeOK
  <2>2. CallsOK'
    BY <2>1 DEF CallsOK, Call, Saving
  <2>3. TmpOK' /\ WholeOK'
    BY <2>1 DEF TmpOK, WholeOK, Call
  <2> QED
    BY <2>2, <2>3
<1>7. ASSUME NEW p \in Procs, Unlink(p) PROVE FileInv'
  <2>1. CallsOK'
    BY <1>7 DEF Unlink, CallsOK, Call, Idle, Saving
  <2>2. TmpOK' /\ WholeOK'
    BY <1>7 DEF Unlink, TmpOK, WholeOK, Call, Idle
  <2> QED
    BY <2>1, <2>2
<1>8. ASSUME NEW p \in Procs, Return(p) \/ Crash(p) PROVE FileInv'
  <2>1. call' = [call EXCEPT ![p] = Idle] /\ UNCHANGED <<target, tmp, content>>
    BY <1>8 DEF Return, Crash
  <2>2. CallsOK'
    BY <2>1 DEF CallsOK, Idle, Saving
  <2>3. TmpOK' /\ WholeOK'
    BY <2>1 DEF TmpOK, WholeOK, Idle
  <2> QED
    BY <2>2, <2>3
<1>9. CASE UNCHANGED vars
  BY <1>9 DEF vars, CallsOK, TmpOK, WholeOK
<1> QED
  BY <1>1, <1>2, <1>3, <1>4, <1>5, <1>6, <1>7, <1>8, <1>9 DEF Next

\* FileInv holds in every state of a file with one writer.
THEOREM FileCorrect == ASSUME OneWriter PROVE Spec => []FileInv
<1>1. Init => FileInv
  BY DEF Init, FileInv, CallsOK, TmpOK, WholeOK, Idle, Saving
<1>2. TypeOK /\ FileInv /\ [Next]_vars => FileInv'
  BY StepKeepsFile
<1> QED
  BY <1>1, <1>2, TypeCorrect, PTL DEF Spec

\* No load ever meets a half-written file (atomicWrite), with one writer.
THEOREM LoadsNeverThrow == ASSUME OneWriter PROVE Spec => []NoTornLoad
<1>1. FileInv => NoTornLoad
  BY DEF FileInv, CallsOK, NoTornLoad
<1> QED
  BY <1>1, FileCorrect, PTL

\* No save fails at its rename, with one writer, although others delete the file.
THEOREM SavesNeverThrow == ASSUME OneWriter PROVE Spec => []NoLostRename
<1>1. FileInv => NoLostRename
  BY DEF FileInv, CallsOK, NoLostRename
<1> QED
  BY <1>1, FileCorrect, PTL

-------------------------------------------------------------------------------
\* What the register sees of a call.
LEMMA OpFacts ==
  ASSUME TypeOK, FileInv, NEW p \in Procs
  PROVE  /\ call[p].pc \in Saving => OpOf(p) = Register!Saving(call[p].value)
         /\ call[p].pc = "reading" => OpOf(p) = Register!Loaded(content[call[p].fd])
         /\ call[p].pc = "idle" => OpOf(p) = Register!Idle
         /\ call[p].pc = "saved" => OpOf(p) = Register!Saved(call[p].value)
         /\ call[p].pc = "loaded" => OpOf(p) = Register!Loaded(call[p].value)
         /\ call[p].pc = "deleted" => OpOf(p) = Register!Deleted
BY DEF OpOf, Saving, FileInv, CallsOK, Register!Saving, Register!Loaded, Register!Idle,
       Register!Saved, Register!Deleted

\* A call that moves leaves the others as they are, when no file being read changes.
LEMMA OneOpMoves ==
  ASSUME TypeOK, NEW p \in Procs, NEW c,
         call' = [call EXCEPT ![p] = c],
         \A q \in Procs : call[q].pc = "reading" => content'[call[q].fd] = content[call[q].fd]
  PROVE  \A x : OpOf(p)' = x => Ops' = [Ops EXCEPT ![p] = x]
<1>1. \A q \in Procs \ {p} : OpOf(q)' = OpOf(q)
  BY DEF OpOf, TypeOK
<1> QED
  BY <1>1 DEF Ops

\* A save takes effect at its rename and a load when it opens the file: every other
\* step, crashes included, leaves the register as it is.
LEMMA StepImplementsRegister ==
  ASSUME OneWriter, TypeOK, TypeOK', FileInv, FileInv', [Next]_vars
  PROVE  [Register!RegisterNext]_(Register!registerVars)
<1> USE DistinctAssumption DEF TypeOK
<1>f. \A p \in Procs : /\ call[p].pc = "opening" \/ call[p].pc = "writing" \/ call[p].pc = "renaming"
                            => OpOf(p) = Register!Saving(call[p].value)
                       /\ call[p].pc = "reading" => OpOf(p) = Register!Loaded(content[call[p].fd])
                       /\ call[p].pc = "idle" => OpOf(p) = Register!Idle
                       /\ call[p].pc = "saved" => OpOf(p) = Register!Saved(call[p].value)
                       /\ call[p].pc = "loaded" => OpOf(p) = Register!Loaded(call[p].value)
                       /\ call[p].pc = "deleted" => OpOf(p) = Register!Deleted
  BY OpFacts DEF Saving
<1>1. ASSUME NEW p \in Procs, NEW v \in Values, BeginSave(p, v)
      PROVE  Register!RegisterNext
  <2>1. /\ call[p].pc = "idle" /\ call' = [call EXCEPT ![p] = Call("opening", v, None)]
        /\ UNCHANGED <<target, content>>
    BY <1>1 DEF BeginSave, Idle
  <2>2. OpOf(p) = Register!Idle /\ OpOf(p)' = Register!Saving(v)
    BY <1>f, <2>1 DEF OpOf, Call, Saving, Register!Saving
  <2>3. Ops' = [Ops EXCEPT ![p] = Register!Saving(v)] /\ Ops[p] = Register!Idle
    BY <2>1, <2>2, OneOpMoves DEF Ops
  <2>4. UNCHANGED Held
    BY <2>1 DEF Held
  <2> QED
    BY <2>3, <2>4 DEF Register!RegisterNext, Register!BeginSave, Register!Step
<1>2. ASSUME NEW p \in Procs, OpenTmp(p) PROVE UNCHANGED Register!registerVars
  <2>1. PICK i \in Inodes : /\ i \in IF tmp # None THEN {tmp} ELSE Unused
                            /\ content' = [content EXCEPT ![i] = "empty"]
                            /\ call' = [call EXCEPT ![p] = Call("writing", call[p].value, i)]
    BY <1>2 DEF OpenTmp, Unused
  <2>2. call[p].pc = "opening" /\ target' = target
    BY <1>2 DEF OpenTmp
  <2>3. i # target /\ \A q \in Procs : call[q].pc = "reading" => call[q].fd # i
    BY <2>1 DEF Unused, FileInv, WholeOK
  <2>4. OpOf(p)' = OpOf(p)
    BY <2>1, <2>2 DEF OpOf, Call, Saving
  <2>r. \A q \in Procs : call[q].pc = "reading" => content'[call[q].fd] = content[call[q].fd]
    BY <2>1, <2>3
  <2>5. Ops' = [Ops EXCEPT ![p] = Ops[p]]
    BY <2>1, <2>r, <2>4, OneOpMoves DEF Ops
  <2>6. UNCHANGED Held
    BY <2>1, <2>2, <2>3 DEF Held
  <2> QED
    BY <2>5, <2>6 DEF Register!registerVars, Ops
<1>3. ASSUME NEW p \in Procs, WriteTmp(p) PROVE UNCHANGED Register!registerVars
  <2>1. PICK i \in Inodes, t \in Contents :
          /\ i = call[p].fd /\ i = tmp
          /\ content' = [content EXCEPT ![i] = t]
          /\ call' = [call EXCEPT ![p] = Call("renaming", call[p].value, None)]
    BY <1>3 DEF WriteTmp, FileInv, TmpOK, CallsOK, Overwrite, Contents, Saving
  <2>2. call[p].pc = "writing" /\ target' = target
    BY <1>3 DEF WriteTmp
  <2>3. i # target /\ \A q \in Procs : call[q].pc = "reading" => call[q].fd # i
    BY <2>1 DEF FileInv, WholeOK
  <2>4. OpOf(p)' = OpOf(p)
    BY <2>1, <2>2 DEF OpOf, Call, Saving
  <2>r. \A q \in Procs : call[q].pc = "reading" => content'[call[q].fd] = content[call[q].fd]
    BY <2>1, <2>3
  <2>5. Ops' = [Ops EXCEPT ![p] = Ops[p]]
    BY <2>1, <2>r, <2>4, OneOpMoves DEF Ops
  <2>6. UNCHANGED Held
    BY <2>1, <2>2, <2>3 DEF Held
  <2> QED
    BY <2>5, <2>6 DEF Register!registerVars, Ops
<1>4. ASSUME NEW p \in Procs, Rename(p) PROVE Register!RegisterNext
  <2>1. /\ call[p].pc = "renaming" /\ call[p].value \in Values
        /\ tmp # None /\ content[tmp] = call[p].value
    BY <1>4 DEF Rename, FileInv, CallsOK, TmpOK, Saving
  <2>2. /\ target' = tmp /\ content' = content
        /\ call' = [call EXCEPT ![p] = Call("saved", call[p].value, None)]
    BY <1>4, <2>1 DEF Rename
  <2>3. OpOf(p) = Register!Saving(call[p].value) /\ OpOf(p)' = Register!Saved(call[p].value)
    BY <1>f, <2>1, <2>2 DEF OpOf, Call, Saving, Register!Saved
  <2>4. /\ Ops' = [Ops EXCEPT ![p] = Register!Saved(call[p].value)]
        /\ Ops[p] = Register!Saving(call[p].value)
    BY <2>2, <2>3, OneOpMoves DEF Ops
  <2>5. Held' = call[p].value
    BY <2>1, <2>2 DEF Held
  <2> QED
    BY <2>1, <2>4, <2>5 DEF Register!RegisterNext, Register!CommitSave, Register!Step
<1>5. ASSUME NEW p \in Procs, OpenFile(p) PROVE Register!RegisterNext
  <2>1. call[p].pc = "idle" /\ UNCHANGED <<target, content>>
    BY <1>5 DEF OpenFile, Idle
  <2>2. PICK c : /\ call' = [call EXCEPT ![p] = c]
                 /\ c = IF target = None THEN Call("loaded", None, None)
                                         ELSE Call("reading", None, target)
    BY <1>5 DEF OpenFile
  <2>3. OpOf(p) = Register!Idle /\ OpOf(p)' = Register!Loaded(Held)
    BY <1>f, <2>1, <2>2 DEF OpOf, Call, Saving, Held, Register!Loaded
  <2>4. Ops' = [Ops EXCEPT ![p] = Register!Loaded(Held)] /\ Ops[p] = Register!Idle
    BY <2>1, <2>2, <2>3, OneOpMoves DEF Ops
  <2>5. UNCHANGED Held
    BY <2>1 DEF Held
  <2> QED
    BY <2>4, <2>5 DEF Register!RegisterNext, Register!LoadRegister, Register!Step
<1>6. ASSUME NEW p \in Procs, ReadFile(p) PROVE UNCHANGED Register!registerVars
  <2>1. /\ call[p].pc = "reading" /\ UNCHANGED <<target, content>>
        /\ call' = [call EXCEPT ![p] = Call("loaded", content[call[p].fd], None)]
    BY <1>6 DEF ReadFile, FileInv, WholeOK
  <2>2. OpOf(p)' = OpOf(p)
    BY <2>1 DEF OpOf, Call, Saving
  <2>3. Ops' = [Ops EXCEPT ![p] = Ops[p]]
    BY <2>1, <2>2, OneOpMoves DEF Ops
  <2>4. UNCHANGED Held
    BY <2>1 DEF Held
  <2> QED
    BY <2>3, <2>4 DEF Register!registerVars, Ops
<1>7. ASSUME NEW p \in Procs, Unlink(p) PROVE Register!RegisterNext
  <2>1. /\ call[p].pc = "idle" /\ target' = None /\ UNCHANGED content
        /\ call' = [call EXCEPT ![p] = Call("deleted", None, None)]
    BY <1>7 DEF Unlink, Idle
  <2>2. OpOf(p) = Register!Idle /\ OpOf(p)' = Register!Deleted
    BY <1>f, <2>1 DEF OpOf, Call, Saving, Register!Deleted
  <2>3. Ops' = [Ops EXCEPT ![p] = Register!Deleted] /\ Ops[p] = Register!Idle
    BY <2>1, <2>2, OneOpMoves DEF Ops
  <2>4. Held' = None
    BY <2>1 DEF Held
  <2> QED
    BY <2>3, <2>4 DEF Register!RegisterNext, Register!DeleteRegister, Register!Step
<1>8. ASSUME NEW p \in Procs, Return(p) \/ Crash(p) PROVE Register!RegisterNext
  <2>1. call' = [call EXCEPT ![p] = Idle] /\ UNCHANGED <<target, content>>
    BY <1>8 DEF Return, Crash
  <2>2. OpOf(p)' = Register!Idle
    BY <2>1 DEF OpOf, Idle, Saving, Register!Idle
  <2>3. Ops' = [Ops EXCEPT ![p] = Register!Idle]
    BY <2>1, <2>2, OneOpMoves
  <2>4. UNCHANGED Held
    BY <2>1 DEF Held
  <2> QED
    BY <2>3, <2>4 DEF Register!RegisterNext, Register!EndCall
<1>9. CASE UNCHANGED vars
  BY <1>9 DEF vars, Register!registerVars, Held, Ops, OpOf
<1> QED
  BY <1>1, <1>2, <1>3, <1>4, <1>5, <1>6, <1>7, <1>8, <1>9 DEF Next

\* With one writer the file is an atomic register, for every number of processes that
\* load, delete and crash.
THEOREM FileImplementsRegister == ASSUME OneWriter PROVE Spec => ImplementsRegister
<1>1. Init => Register!RegisterInit
  BY DEF Init, Idle, Held, Ops, OpOf, Saving, Register!RegisterInit, Register!Idle
<1>2. TypeOK /\ TypeOK' /\ FileInv /\ FileInv' /\ [Next]_vars
        => [Register!RegisterNext]_(Register!registerVars)
  BY StepImplementsRegister
<1> QED
  BY <1>1, <1>2, TypeCorrect, FileCorrect, PTL
     DEF Spec, ImplementsRegister, Register!RegisterSpec
===============================================================================
