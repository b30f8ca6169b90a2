---------------------------- MODULE MCBindCommand ----------------------------
(* A small instance of BindCommand for TLC: two keys, either of which the  *)
(* file may already hold, with mpx's marker or another comment.            *)
EXTENDS BindCommand

CONSTANTS k1, k2

MCKeys == {k1, k2}
=============================================================================
