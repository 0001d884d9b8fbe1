------------------------------- MODULE MCCAbi -------------------------------
(***************************************************************************)
(* CAbi with two threads and arrays of two children.  Threads only differ  *)
(* by name, so they are symmetric.                                         *)
(***************************************************************************)
EXTENDS CAbi, TLC

CONSTANTS t1, t2

MCChild == 1..2

ThreadSymmetry == Permutations({t1, t2})
=============================================================================
