---------------------------- MODULE SealedChannel ----------------------------
(***************************************************************************)
(* The handshake channel of src/src/frame.rs: a key for each ephemeral key *)
(* of an app and direction, a counter at each end of each direction, and   *)
(* frames sealed under the key with the counter as nonce.                  *)
(*                                                                         *)
(* The ends write frames and read whatever comes: a frame of this or of    *)
(* another channel, of either direction, again, late, or never.  The       *)
(* cipher is ideal: a frame opens under its own key and nonce and no other.*)
(*                                                                         *)
(* An app draws its ephemeral key afresh and makes one Channel of it.  The *)
(* server keeps no memory of these keys: it makes a Channel, with its      *)
(* counters at 0, of the key that the INTRO of a TCP connection names, and *)
(* INTRO is cleartext, so the same key may be named on any number of them. *)
(***************************************************************************)
EXTENDS Naturals, Sequences

CONSTANTS
  Epubs,     \* the apps' ephemeral public keys
  Bodies     \* what a frame may say

VARIABLES
  seq,       \* Channel.seq_c2s and seq_s2c of each end's present Channel
  wire,      \* every frame that was written whole
  derived,   \* history: how often the server derived from each epub
  sent,      \* history: the bodies each present Channel sealed
  opened     \* history: and those it opened

channelVars == <<seq, wire, derived, sent, opened>>

Ends == {"app", "server"}
Streams == Epubs \X {"c2s", "s2c"}
Out(end) == IF end = "app" THEN "c2s" ELSE "s2c"
In(end) == IF end = "app" THEN "s2c" ELSE "c2s"

(* Channel::derive: two halves of what HKDF makes of the shared secret,    *)
(* epub and spub.                                                          *)
KeyOfConnection(stream) == <<stream[1], "c2s">>
KeyOfDirection(stream) == <<stream[2], stream[2]>>
Key(stream) == stream

Frames == [key : Streams, nonce : Nat, body : Bodies]
Sealed(end, stream, body) ==
  [key |-> Key(stream), nonce |-> seq[end][stream], body |-> body]

OpensAnyNonce(end, epub, frame) == frame.key = Key(<<epub, In(end)>>)

(* open_c2s, open_s2c: decrypt under the key and the nonce that is due.    *)
Opens(end, epub, frame) ==
  /\ frame.key = Key(<<epub, In(end)>>)
  /\ frame.nonce = seq[end][<<epub, In(end)>>]

(* The server's Channel exists from the first INTRO on.                    *)
HasChannel(end, epub) == end = "app" \/ derived[epub] # "never"

ChannelInit ==
  /\ seq = [end \in Ends |-> [s \in Streams |-> 0]]
  /\ wire = {}
  /\ derived = [epub \in Epubs |-> "never"]
  /\ sent = [s \in Streams |-> <<>>]
  /\ opened = [s \in Streams |-> <<>>]

(* An INTRO at the server: a fresh Channel takes the place of any that was *)
(* derived from the same epub for an earlier connection.                   *)
Derive(epub) ==
  LET in == <<epub, In("server")>>
      out == <<epub, Out("server")>>
  IN /\ derived' = [derived EXCEPT ![epub] = IF @ = "never" THEN "once" ELSE "again"]
     /\ seq' = [seq EXCEPT !["server"] = [@ EXCEPT ![in] = 0, ![out] = 0]]
     /\ sent' = [sent EXCEPT ![out] = <<>>]
     /\ opened' = [opened EXCEPT ![in] = <<>>]
     /\ UNCHANGED wire

SealOnceWritten(end, epub, body, written) ==
  LET out == <<epub, Out(end)>>
  IN /\ HasChannel(end, epub)
     /\ wire' = IF written THEN wire \union {Sealed(end, out, body)} ELSE wire
     /\ seq' = IF written THEN [seq EXCEPT ![end][out] = @ + 1] ELSE seq
     /\ sent' = [sent EXCEPT ![out] = Append(@, body)]
     /\ UNCHANGED <<derived, opened>>

(* seal and write_frame; a write that fails leaves no whole frame, but the *)
(* counter has moved.                                                      *)
Seal(end, epub, body, written) ==
  LET out == <<epub, Out(end)>>
  IN /\ HasChannel(end, epub)
     /\ wire' = IF written THEN wire \union {Sealed(end, out, body)} ELSE wire
     /\ seq' = [seq EXCEPT ![end][out] = @ + 1]
     /\ sent' = [sent EXCEPT ![out] = Append(@, body)]
     /\ UNCHANGED <<derived, opened>>

(* read_frame and open.  A frame that does not open changes nothing.       *)
Open(end, epub, frame) ==
  LET in == <<epub, In(end)>>
  IN /\ HasChannel(end, epub)
     /\ Opens(end, epub, frame)
     /\ seq' = [seq EXCEPT ![end][in] = @ + 1]
     /\ opened' = [opened EXCEPT ![in] = Append(@, frame.body)]
     /\ UNCHANGED <<wire, derived, sent>>

(* A frame is opened and answered before the other end sees either.        *)
Answer(end, epub, frame, body, written) ==
  LET in == <<epub, In(end)>>
      out == <<epub, Out(end)>>
  IN /\ HasChannel(end, epub)
     /\ Opens(end, epub, frame)
     /\ wire' = IF written THEN wire \union {Sealed(end, out, body)} ELSE wire
     /\ seq' = [seq EXCEPT ![end][in] = @ + 1, ![end][out] = @ + 1]
     /\ sent' = [sent EXCEPT ![out] = Append(@, body)]
     /\ opened' = [opened EXCEPT ![in] = Append(@, frame.body)]
     /\ UNCHANGED derived

ChannelNext ==
  \/ \E epub \in Epubs : Derive(epub)
  \/ \E end \in Ends, epub \in Epubs :
       \/ \E body \in Bodies, written \in BOOLEAN : Seal(end, epub, body, written)
       \/ \E frame \in wire : Open(end, epub, frame)
       \/ \E frame \in wire, body \in Bodies, written \in BOOLEAN :
            Answer(end, epub, frame, body, written)

ChannelSpec == ChannelInit /\ [][ChannelNext]_channelVars
-----------------------------------------------------------------------------
(* Properties.                                                             *)

ChannelTypeOK ==
  /\ seq \in [Ends -> [Streams -> Nat]]
  /\ wire \subseteq Frames
  /\ derived \in [Epubs -> {"never", "once", "again"}]
  /\ sent \in [Streams -> Seq(Bodies)]
  /\ opened \in [Streams -> Seq(Bodies)]

(* The epubs of which the server made a Channel more than once.            *)
Repeated == {epub \in Epubs : derived[epub] = "again"}

(* No key seals two different frames under one nonce, whatever the two     *)
(* ends send on whichever connections (frame.rs 1-4, "One key per          *)
(* direction, nonce = ... per-direction sequence"), with one exception:    *)
(* the server's frames for an epub that more than one connection's INTRO   *)
(* named, where every Channel seals from nonce 0 under the same key        *)
(* (server.rs 239-254).  The app's frames are not excepted.                *)
NonceOnce ==
  \A f, g \in wire :
    f.key = g.key /\ f.nonce = g.nonce =>
      f = g \/ (f.key[2] = "s2c" /\ f.key[1] \in Repeated)

(* What an end opens is what the other end sealed at that place of that    *)
(* stream, each place once and in order for each Channel, whatever the     *)
(* network repeats, holds back or delivers to the wrong connection         *)
(* (frame.rs, the test's "a replayed first frame must fail against the     *)
(* advanced counter").  A server whose Channel is new reads the app's      *)
(* stream from its first place again; an app reads at each place what one  *)
(* of the server's Channels for its epub sealed there.                     *)
Said(stream) == {<<f.nonce + 1, f.body>> : f \in {g \in wire : g.key = stream}}

InOrder == INSTANCE OrderedStreams
  WITH ToServer <- Epubs \X {"c2s"}, said <- [s \in Streams |-> Said(s)]
ImplementsStreams == InOrder!Spec

(* The inductive invariant: the counters are the lengths of what the       *)
(* present Channels sealed and opened; a frame on the wire is what its     *)
(* sender sealed at that place, unless the sender has begun anew; what was *)
(* opened was written, at the same place of the same stream; and of an     *)
(* epub no INTRO has named there is nothing from the server.               *)
Sender(stream) == IF stream[2] = "c2s" THEN "app" ELSE "server"
Receiver(stream) == IF stream[2] = "c2s" THEN "server" ELSE "app"

FramesAreSent ==
  \A f \in wire :
    f.key[2] = "c2s" \/ f.key[1] \notin Repeated =>
      /\ f.nonce < Len(sent[f.key])
      /\ f.body = sent[f.key][f.nonce + 1]

CountersAreLengths ==
  \A s \in Streams :
    /\ seq[Sender(s)][s] = Len(sent[s])
    /\ seq[Receiver(s)][s] = Len(opened[s])

OpenedWereWritten ==
  \A s \in Streams : \A i \in 1..Len(opened[s]) :
    \E f \in wire : f.key = s /\ f.nonce + 1 = i /\ f.body = opened[s][i]

SilentBeforeIntro ==
  \A epub \in Epubs :
    derived[epub] = "never" => \A f \in wire : f.key # <<epub, "s2c">>

ChannelInv ==
  /\ ChannelTypeOK /\ CountersAreLengths
  /\ FramesAreSent /\ OpenedWereWritten /\ SilentBeforeIntro
=============================================================================
