----------------------------- MODULE Subsequences -----------------------------
(***************************************************************************)
(* The elements of a sequence that are in a set, in their order: Rust's    *)
(* iter().filter().  What SelectSeq does, with a set in place of the test  *)
(* and a recursive function that can be reasoned about.                    *)
(***************************************************************************)
EXTENDS Naturals, Sequences

SetOf(seq) == {seq[i] : i \in DOMAIN seq}

Kept(seq, S) ==
  LET kept[n \in 0..Len(seq)] ==
        IF n = 0 THEN <<>>
        ELSE IF seq[n] \in S THEN Append(kept[n - 1], seq[n])
        ELSE kept[n - 1]
  IN kept[Len(seq)]
=============================================================================
