---- MODULE Selection ----
(* Parts of sequences, by what is in them. *)
EXTENDS Naturals, Sequences, SequencesExt

\* The elements of a sequence that are in a set, in their order.
Among(seq, S) == FoldLeft(LAMBDA kept, x : IF x \in S THEN Append(kept, x) ELSE kept, <<>>, seq)

\* The sequences of a sequence, one after the other.
Joined(seqs) == FoldLeft(LAMBDA all, s : all \o s, <<>>, seqs)

\* 1 to n, or those of them that are in a set.
Ascending(n) == [i \in 1..n |-> i]
AscendingIn(n, S) == Among(Ascending(n), S)

\* One element, or none.
Only(x, holds) == IF holds THEN <<x>> ELSE <<>>
====
