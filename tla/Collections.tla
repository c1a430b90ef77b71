----------------------------- MODULE Collections -----------------------------
(* Operators on sequences and sums that several modules use.               *)
EXTENDS SequencesExt

\* The sequence without the elements of gone, the others in their order.
Without(seq, gone) ==
  FoldLeft(LAMBDA kept, x : IF x \in gone THEN kept ELSE Append(kept, x), <<>>, seq)

\* The sum of size over keys.
Total(size, keys) == MapThenSumSet(LAMBDA k : size[k], keys)
=============================================================================
