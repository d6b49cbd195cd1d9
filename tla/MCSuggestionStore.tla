--------------------------- MODULE MCSuggestionStore ---------------------------
(***************************************************************************)
(* Instances of SuggestionStore for TLC: grep and egrep are blocked by one *)
(* rule and share its suggestion, cat by another.                          *)
(***************************************************************************)
EXTENDS SuggestionStore, TLC

CONSTANTS grep, egrep, cat, rg, bat

MCAdvice == [o \in Originals |-> IF o = cat THEN bat ELSE rg]

CallSymmetry == Permutations(Calls)

=============================================================================
