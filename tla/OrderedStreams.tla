---------------------------- MODULE OrderedStreams ----------------------------
(***************************************************************************)
(* What a handshake channel promises its two ends, with no keys, nonces or *)
(* frames.  An end that begins anew begins at the first place of a stream; *)
(* on a stream to the server it is the reader that may, on a stream from   *)
(* it the writer.  At each place a reader gets a body that a writer of the *)
(* same stream sent from the same place, after all the places before, each *)
(* once.  It may get no further: nothing here says that a body arrives.    *)
(***************************************************************************)
EXTENDS Naturals, Sequences

CONSTANTS Streams, ToServer, Bodies

VARIABLES
  sent,      \* what the present writer of each stream has sent, in order
  said,      \* the places and bodies that any writer got out
  opened     \* what the present reader of each stream has got, in order

vars == <<sent, said, opened>>

Init ==
  /\ sent = [s \in Streams |-> <<>>]
  /\ said = [s \in Streams |-> {}]
  /\ opened = [s \in Streams |-> <<>>]

Sends(s) ==
  \E body \in Bodies :
    /\ sent'[s] = Append(sent[s], body)
    /\ said'[s] \in {said[s], said[s] \union {<<Len(sent[s]) + 1, body>>}}
    /\ opened'[s] = opened[s]

Delivers(s) ==
  \E body \in Bodies :
    /\ opened'[s] = Append(opened[s], body)
    /\ <<Len(opened[s]) + 1, body>> \in said[s]
    /\ sent'[s] = sent[s] /\ said'[s] = said[s]

Restarts(s) ==
  /\ IF s \in ToServer THEN opened'[s] = <<>> /\ sent'[s] = sent[s]
                       ELSE sent'[s] = <<>> /\ opened'[s] = opened[s]
  /\ said'[s] = said[s]

Stays(s) == sent'[s] = sent[s] /\ said'[s] = said[s] /\ opened'[s] = opened[s]

(* One step may take several streams forward: an end that opens a frame    *)
(* and answers it.                                                         *)
Next == \A s \in Streams : Stays(s) \/ Restarts(s) \/ Sends(s) \/ Delivers(s)

Spec == Init /\ [][Next]_vars
=============================================================================
