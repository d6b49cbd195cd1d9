------------------------------ MODULE Selections ------------------------------
(***************************************************************************)
(* What is kept of a sequence, several sequences behind each other, and a  *)
(* sum, as functions of how far they have come.                            *)
(***************************************************************************)
EXTENDS Naturals, Sequences

\* The elements of seq at these indices, in their order.
Kept(seq, indices) ==
    LET kept[i \in 0..Len(seq)] ==
            IF i = 0 THEN <<>>
            ELSE IF i \in indices THEN Append(kept[i - 1], seq[i]) ELSE kept[i - 1]
    IN kept[Len(seq)]

Joined(seqs) ==
    LET joined[i \in 0..Len(seqs)] == IF i = 0 THEN <<>> ELSE joined[i - 1] \o seqs[i]
    IN joined[Len(seqs)]

Summed(numbers) ==
    LET summed[i \in 0..Len(numbers)] == IF i = 0 THEN 0 ELSE summed[i - 1] + numbers[i]
    IN summed[Len(numbers)]

=============================================================================
