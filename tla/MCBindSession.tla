---------------------------- MODULE MCBindSession ----------------------------
(* A small instance of BindSession for TLC: one ed25519 key and one of     *)
(* another algorithm, either of them possibly in the file already, and a   *)
(* clock that runs past the deadline.                                      *)
EXTENDS BindSession

CONSTANTS k1, rsa

MCKeys == {k1, rsa}
MCEd25519Keys == {k1}

(* The sessions of which the first thing the signal finds is the prompt:   *)
(* those main.rs 284 speaks of, and no peer needs to be there earlier.      *)
PromptSpec ==
  Init /\ [][Next /\ (canceled' # canceled => pc = "prompt")]_vars /\ Fairness
=============================================================================
