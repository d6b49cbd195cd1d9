------------------------------- MODULE MCRecords -------------------------------
(***************************************************************************)
(* Block statistics and the hook log for TLC.  Processes differ only in    *)
(* what Init starts them for, so permuting them is sound; no property is a  *)
(* liveness property.                                                      *)
(***************************************************************************)
EXTENDS BlockRecords, TLC

Sym == Permutations(Processes)

=============================================================================
