------------------------------- MODULE MCSession -------------------------------
(* Small runs of Session. *)
EXTENDS Session, TLC

CallSymmetry == Permutations(Calls)
===============================================================================
