--------------------------- MODULE MCPrefixLearning ---------------------------
(***************************************************************************)
(* Instances of PrefixLearning for TLC: two cargo commands share a key,    *)
(* a loop starts with a shell keyword, and the prefix's own first word may *)
(* be learnt about as well.                                                *)
(***************************************************************************)
EXTENDS PrefixLearning, TLC

CONSTANTS build, fmt, loop, cargo, while, mise

MCKey == build :> cargo @@ fmt :> cargo @@ loop :> while

CallSymmetry == Permutations(Calls)

=============================================================================
