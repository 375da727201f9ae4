------------------------------- MODULE MCTracing ------------------------------
(***************************************************************************)
(* The instance of Tracing.cfg: the threads do not differ in what they     *)
(* may do.                                                                 *)
(***************************************************************************)
EXTENDS Tracing

\* A function of one parameter, traced first, and one of two.
MCArity == <<1, 2>>

Symmetry == Permutations(Threads)
===============================================================================
