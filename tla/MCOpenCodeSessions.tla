--------------------------- MODULE MCOpenCodeSessions ---------------------------
(***************************************************************************)
(* Instances of OpenCodeSessions for TLC.                                  *)
(***************************************************************************)
EXTENDS OpenCodeSessions, TLC

SessionSymmetry == Permutations(Sessions)

=============================================================================
