---------------------------- MODULE MCFailureStore ----------------------------
(***************************************************************************)
(* Instances of FailureStore for TLC.  Calls are interchangeable: no        *)
(* definition names one of them.                                           *)
(***************************************************************************)
EXTENDS FailureStore, TLC

CallSymmetry == Permutations(Calls)

=============================================================================
