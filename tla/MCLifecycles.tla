---------------------------- MODULE MCLifecycles ----------------------------
(***************************************************************************)
(* Small instances of Lifecycles.                                          *)
(***************************************************************************)
EXTENDS Lifecycles, TLC

Symmetric == Permutations(Callers)
=============================================================================
