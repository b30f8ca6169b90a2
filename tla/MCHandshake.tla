----------------------------- MODULE MCHandshake -----------------------------
(* A small instance of Handshake for TLC: two apps with one ed25519 key    *)
(* between them, one wrong PIN to retire it.  Three bounds: the INTRO of   *)
(* one of the apps is repeated, as often as may be, and not that of both;  *)
(* a signal comes before there is an app or not at all; and the key is not *)
(* in the file beforehand (what a signal does to connections and what a    *)
(* key that is there already does are for BindSession's own run).          *)
EXTENDS Handshake, TLC

CONSTANTS a1, a2, k1

MCEpubs == {a1, a2}
MCKeys == {k1}
MCEd25519Keys == {k1}
MCBodies == Messages
OneRepeated == Cardinality(Repeated) <= 1
SignalAlone == canceled => \A e \in Epubs : app[e].step = "new"
KeyIsNew == before = {}
MCSymmetry == Permutations(MCEpubs)
=============================================================================
