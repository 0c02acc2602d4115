---------------------------- MODULE AtomicRegister ----------------------------
(***************************************************************************)
(* What OAuthStorage promises of one state file (tokens, client or server  *)
(* metadata): a register that several processes save, load and delete.     *)
(* Every save takes effect at one instant between its call and its return, *)
(* a load returns what the register held at one instant of the load, and a *)
(* process that crashes in the middle of a save has saved all of it or     *)
(* nothing.                                                                *)
(***************************************************************************)
CONSTANTS Procs,    \* the processes that use the file
          Values,   \* what they save
          None      \* the file is absent: a load returns null

VARIABLES reg,      \* what the file holds
          op        \* the call each process is in

registerVars == <<reg, op>>

Idle == [kind |-> "idle", value |-> None]
Saving(v) == [kind |-> "saving", value |-> v]
Saved(v) == [kind |-> "saved", value |-> v]
Loaded(v) == [kind |-> "loaded", value |-> v]
Deleted == [kind |-> "deleted", value |-> None]

RegisterInit == reg = None /\ op = [p \in Procs |-> Idle]

\* p moves from one state of its call to the next one.
Step(p, from, to) == op[p] = from /\ op' = [op EXCEPT ![p] = to]

BeginSave(p, v) == Step(p, Idle, Saving(v)) /\ UNCHANGED reg

CommitSave(p, v) == Step(p, Saving(v), Saved(v)) /\ reg' = v

LoadRegister(p) == Step(p, Idle, Loaded(reg)) /\ UNCHANGED reg

DeleteRegister(p) == Step(p, Idle, Deleted) /\ reg' = None

\* The call returns, or its process crashes: either way the process is idle again.
EndCall(p) == op' = [op EXCEPT ![p] = Idle] /\ UNCHANGED reg

RegisterNext ==
  \E p \in Procs :
    \/ \E v \in Values : BeginSave(p, v) \/ CommitSave(p, v)
    \/ LoadRegister(p)
    \/ DeleteRegister(p)
    \/ EndCall(p)

RegisterSpec == RegisterInit /\ [][RegisterNext]_registerVars
===============================================================================
