-------------------------- MODULE MCWorkingMemory --------------------------
(***************************************************************************)
(* Small instances of WorkingMemory.                                       *)
(***************************************************************************)
EXTENDS WorkingMemory, TLC

Symmetric == Permutations(Callers)
=============================================================================
