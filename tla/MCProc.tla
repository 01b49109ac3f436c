------------------------------- MODULE MCProc -------------------------------
(***************************************************************************)
(* Proc on small instances.  No definition of Proc tells one CPU from      *)
(* another and its properties are invariants, so TLC may take the CPUs as  *)
(* interchangeable.                                                        *)
(***************************************************************************)
EXTENDS Proc, TLC

AnyCpu == Permutations(CPUs)
=============================================================================
