--------------------------- MODULE MCAuthorizedKeys ---------------------------
(* A small instance of AuthorizedKeys for TLC: two processes, two keys and *)
(* two markers, and the files a home directory may hold: none, one with a  *)
(* comment and a key of the user's, one with a line of mpx's, one with a   *)
(* user's line between two of mpx's under one marker, and the same three   *)
(* lines in a file that cannot be read.                                    *)
EXTENDS AuthorizedKeys

CONSTANTS k1, k2, i1, i2

MCKeys == {k1, k2}
MCIds == {i1, i2}
Between == <<[key |-> k1, owner |-> i1], [key |-> NoKey, owner |-> User],
             [key |-> k2, owner |-> i1]>>
MCOriginals ==
  {Absent, [kind |-> "unreadable", lines |-> Between]} \union
  {[kind |-> "whole", lines |-> lines] : lines \in
     {<<[key |-> k2, owner |-> i2]>>,
      <<[key |-> NoKey, owner |-> User], [key |-> k1, owner |-> User]>>,
      Between}}
MCParents == {"missing", "users"}
MCBare == {"bare"}

(* Kept is SelectSeq.                                                      *)
ASSUME KeptIsSelectSeq ==
  \A n \in 0..4 : \A seq \in [1..n -> 1..3], S \in SUBSET (1..3) :
    Kept(seq, S) = SelectSeq(seq, LAMBDA e : e \in S)
=============================================================================
