------------------------- MODULE SealedChannelProofs -------------------------
(***************************************************************************)
(* Theorems about SealedChannel, for any number of apps, any bodies and    *)
(* any number of Channels that the server makes of one epub: ChannelInv is *)
(* an invariant, no nonce is used twice under a key but where NonceOnce    *)
(* says, and the channel implements OrderedStreams.                        *)
(***************************************************************************)
EXTENDS SealedChannel, TLAPS

LEMMA Directions ==
  ASSUME NEW end \in Ends, NEW epub \in Epubs
  PROVE  LET out == <<epub, Out(end)>>
             in == <<epub, In(end)>>
         IN /\ out \in Streams /\ in \in Streams /\ in # out
            /\ Sender(out) = end /\ Receiver(in) = end
            /\ Sender(out) \in Ends /\ Receiver(out) \in Ends
            /\ Receiver(out) # Sender(out) /\ Receiver(in) # Sender(in)
  BY DEF Ends, Streams, Out, In, Sender, Receiver

LEMMA Appended ==
  ASSUME NEW S, NEW list \in Seq(S), NEW x \in S
  PROVE  /\ Append(list, x) \in Seq(S)
         /\ Len(Append(list, x)) = Len(list) + 1
         /\ Len(list) \in Nat
         /\ \A i \in 1..Len(list) : Append(list, x)[i] = list[i]
         /\ Append(list, x)[Len(list) + 1] = x
  OBVIOUS

LEMMA ChannelInit_Inv ==
  ASSUME ChannelInit
  PROVE  ChannelInv
  <1>1. ChannelTypeOK
    BY DEF ChannelInit, ChannelTypeOK
  <1>2. FramesAreSent /\ OpenedWereWritten /\ SilentBeforeIntro
    BY DEF ChannelInit, FramesAreSent, OpenedWereWritten, SilentBeforeIntro
  <1>3. CountersAreLengths
    BY DEF ChannelInit, CountersAreLengths, Sender, Receiver, Ends
  <1> QED
    BY <1>1, <1>2, <1>3 DEF ChannelInv

(* What the invariant says of the types and of one stream.                 *)
LEMMA InvFacts ==
  ASSUME ChannelInv
  PROVE  /\ seq \in [Ends -> [Streams -> Nat]]
         /\ wire \subseteq Frames
         /\ derived \in [Epubs -> {"never", "once", "again"}]
         /\ sent \in [Streams -> Seq(Bodies)]
         /\ opened \in [Streams -> Seq(Bodies)]
         /\ \A s \in Streams :
              /\ seq[Sender(s)][s] = Len(sent[s])
              /\ seq[Receiver(s)][s] = Len(opened[s])
              /\ Sender(s) \in Ends /\ Receiver(s) \in Ends
              /\ Sender(s) # Receiver(s)
  BY DEF ChannelInv, ChannelTypeOK, CountersAreLengths, Sender, Receiver, Ends

(* A frame that opens was written for the place that is due.               *)
LEMMA OpenedIsDue ==
  ASSUME ChannelInv,
         NEW end \in Ends, NEW epub \in Epubs, NEW frame \in wire,
         Opens(end, epub, frame)
  PROVE  LET in == <<epub, In(end)>>
         IN /\ frame.body \in Bodies
            /\ frame.key = in
            /\ frame.nonce = Len(opened[in])
            /\ <<Len(opened[in]) + 1, frame.body>> \in Said(in)
  <1> DEFINE in == <<epub, In(end)>>
  <1>1. in \in Streams /\ Receiver(in) = end
    BY Directions
  <1>2. frame.key = in /\ frame.nonce = seq[end][in] /\ frame \in Frames
    BY InvFacts DEF Opens, Key
  <1>3. seq[end][in] = Len(opened[in])
    BY <1>1, InvFacts
  <1> HIDE DEF in
  <1>4. <<frame.nonce + 1, frame.body>> \in Said(in)
    BY <1>2 DEF Said
  <1>5. frame.body \in Bodies
    BY <1>2 DEF Frames
  <1> QED
    BY <1>2, <1>3, <1>4, <1>5 DEF in

(* The places and bodies got out of a stream, when a frame is written.     *)
LEMMA SaidMoves ==
  ASSUME NEW f, wire' \in {wire, wire \union {f}}, NEW s
  PROVE  /\ s # f.key => Said(s)' = Said(s)
         /\ s = f.key => Said(s)' \in {Said(s), Said(s) \union {<<f.nonce + 1, f.body>>}}
  BY DEF Said

(* Reading: a stream that was opened before its reader began anew, one     *)
(* that was not, and one on which the next frame was opened.               *)
LEMMA ReadingKeeps ==
  ASSUME ChannelInv, wire \subseteq wire', NEW s \in Streams,
         \/ opened'[s] = opened[s]
         \/ opened'[s] = <<>>
         \/ \E f \in wire : /\ f.key = s /\ f.nonce = Len(opened[s])
                           /\ f.body \in Bodies
                           /\ opened'[s] = Append(opened[s], f.body)
  PROVE  \A i \in 1..Len(opened'[s]) :
           \E f \in wire' : f.key = s /\ f.nonce + 1 = i /\ f.body = opened'[s][i]
  <1>1. /\ opened[s] \in Seq(Bodies)
        /\ \A i \in 1..Len(opened[s]) :
             \E f \in wire' : f.key = s /\ f.nonce + 1 = i /\ f.body = opened[s][i]
    BY InvFacts DEF ChannelInv, OpenedWereWritten
  <1>2. CASE opened'[s] = opened[s]
    BY <1>1, <1>2
  <1>3. CASE opened'[s] = <<>>
    BY <1>3
  <1>4. ASSUME NEW f \in wire, f.key = s, f.nonce = Len(opened[s]), f.body \in Bodies,
               opened'[s] = Append(opened[s], f.body)
        PROVE  \A i \in 1..Len(opened'[s]) :
                 \E g \in wire' : g.key = s /\ g.nonce + 1 = i /\ g.body = opened'[s][i]
    <2>1. /\ Len(opened'[s]) = Len(opened[s]) + 1
          /\ Len(opened[s]) \in Nat
          /\ \A i \in 1..Len(opened[s]) : opened'[s][i] = opened[s][i]
          /\ opened'[s][Len(opened[s]) + 1] = f.body
      BY <1>1, <1>4, Appended
    <2>2. \A i \in 1..Len(opened'[s]) : i \in 1..Len(opened[s]) \/ i = Len(opened[s]) + 1
      BY <2>1
    <2>3. f \in wire' /\ f.nonce + 1 = Len(opened[s]) + 1
      BY <1>4
    <2> QED
      BY <1>1, <1>4, <2>1, <2>2, <2>3
  <1> QED
    BY <1>2, <1>3, <1>4

(* Writing: a body is sealed on one stream, and the frame may get out.     *)
Writes(end, epub, body) ==
  LET out == <<epub, Out(end)>>
  IN /\ HasChannel(end, epub)
     /\ wire' \in {wire, wire \union {Sealed(end, out, body)}}
     /\ sent' = [sent EXCEPT ![out] = Append(@, body)]
     /\ derived' = derived

LEMMA WritingKeeps ==
  ASSUME ChannelInv,
         NEW end \in Ends, NEW epub \in Epubs, NEW body \in Bodies,
         NEW out, out = <<epub, Out(end)>>,
         Writes(end, epub, body)
  PROVE  /\ wire' \subseteq Frames
         /\ sent' \in [Streams -> Seq(Bodies)]
         /\ FramesAreSent' /\ SilentBeforeIntro'
         /\ Said(out)' \in {Said(out), Said(out) \union {<<Len(sent[out]) + 1, body>>}}
         /\ \A s \in Streams \ {out} : Said(s)' = Said(s)
  <1> DEFINE frame == Sealed(end, out, body)
  <1>1. out \in Streams /\ Sender(out) = end
    BY Directions
  <1>2. /\ sent \in [Streams -> Seq(Bodies)]
        /\ wire \subseteq Frames
        /\ seq[end][out] = Len(sent[out])
        /\ seq[end][out] \in Nat
    BY <1>1, InvFacts
  <1>3. /\ Append(sent[out], body) \in Seq(Bodies)
        /\ Len(Append(sent[out], body)) = Len(sent[out]) + 1
        /\ \A i \in 1..Len(sent[out]) : Append(sent[out], body)[i] = sent[out][i]
        /\ Append(sent[out], body)[Len(sent[out]) + 1] = body
    BY <1>1, <1>2, Appended
  <1>4. /\ frame \in Frames
        /\ frame.key = out /\ frame.nonce = Len(sent[out]) /\ frame.body = body
    BY <1>1, <1>2 DEF Sealed, Frames, Key
  <1>5. /\ wire' \in {wire, wire \union {frame}}
        /\ sent' = [sent EXCEPT ![out] = Append(@, body)]
        /\ derived' = derived
    BY DEF Writes
  <1> HIDE DEF frame
  <1>6. wire' \subseteq Frames /\ sent' \in [Streams -> Seq(Bodies)]
    BY <1>1, <1>2, <1>3, <1>4, <1>5
  <1>7. ASSUME NEW f \in wire', f.key[2] = "c2s" \/ f.key[1] \notin Repeated
        PROVE  f.nonce < Len(sent'[f.key]) /\ f.body = sent'[f.key][f.nonce + 1]
    <2>1. CASE f = frame
      BY <2>1, <1>1, <1>2, <1>3, <1>4, <1>5
    <2>2. CASE f \in wire
      <3>1. /\ f.key \in Streams /\ f.nonce \in Nat
            /\ f.nonce < Len(sent[f.key]) /\ f.body = sent[f.key][f.nonce + 1]
        BY <2>2, <1>2, <1>7 DEF ChannelInv, FramesAreSent, Frames
      <3>2. CASE f.key = out
        <4>1. sent'[f.key] = Append(sent[out], body) /\ f.nonce + 1 \in 1..Len(sent[out])
          BY <3>1, <3>2, <1>1, <1>2, <1>5
        <4> QED
          BY <4>1, <3>1, <3>2, <1>3, <1>2
      <3>3. CASE f.key # out
        BY <3>1, <3>3, <1>2, <1>5
      <3> QED
        BY <3>2, <3>3
    <2> QED
      BY <2>1, <2>2, <1>5
  <1>8. Repeated' = Repeated
    BY <1>5 DEF Repeated
  <1>9. FramesAreSent'
    BY <1>7, <1>8 DEF FramesAreSent
  <1>10. SilentBeforeIntro'
    <2>1. derived[epub] = "never" => out[2] = "c2s"
      BY DEF Writes, HasChannel, Out
    <2>2. \A e \in Epubs : derived[e] = "never" => frame.key # <<e, "s2c">>
      BY <1>4, <2>1
    <2> QED
      BY <1>5, <2>2 DEF ChannelInv, SilentBeforeIntro
  <1>11. /\ Said(out)' \in {Said(out), Said(out) \union {<<Len(sent[out]) + 1, body>>}}
         /\ \A s \in Streams \ {out} : Said(s)' = Said(s)
    BY <1>4, <1>5, SaidMoves
  <1> QED
    BY <1>6, <1>9, <1>10, <1>11

(* What each action does: the streams move as OrderedStreams says, and the *)
(* invariant is kept.                                                      *)
StreamsMove ==
  \A s \in Streams :
    \/ sent'[s] = sent[s] /\ Said(s)' = Said(s) /\ opened'[s] = opened[s]
    \/ /\ Said(s)' = Said(s)
       /\ \/ s[2] = "c2s" /\ opened'[s] = <<>> /\ sent'[s] = sent[s]
          \/ s[2] # "c2s" /\ sent'[s] = <<>> /\ opened'[s] = opened[s]
    \/ \E body \in Bodies :
         /\ sent'[s] = Append(sent[s], body)
         /\ Said(s)' \in {Said(s), Said(s) \union {<<Len(sent[s]) + 1, body>>}}
         /\ opened'[s] = opened[s]
    \/ \E body \in Bodies :
         /\ <<Len(opened[s]) + 1, body>> \in Said(s)
         /\ opened'[s] = Append(opened[s], body)
         /\ sent'[s] = sent[s] /\ Said(s)' = Said(s)

LEMMA MovesInOrder == StreamsMove => InOrder!Next
  BY DEF StreamsMove, Streams, InOrder!Next, InOrder!Stays, InOrder!Restarts,
         InOrder!Sends, InOrder!Delivers

GoodStep == StreamsMove /\ ChannelInv'

LEMMA SealIsGood ==
  ASSUME ChannelInv, NEW end \in Ends, NEW epub \in Epubs,
         NEW body \in Bodies, NEW written \in BOOLEAN, Seal(end, epub, body, written)
  PROVE  GoodStep
  <1> DEFINE out == <<epub, Out(end)>>
  <1>1. out \in Streams /\ Sender(out) = end
    BY Directions
  <1>2. /\ Writes(end, epub, body)
        /\ seq' = [seq EXCEPT ![end][out] = @ + 1]
        /\ sent' = [sent EXCEPT ![out] = Append(@, body)]
        /\ opened' = opened /\ derived' = derived /\ wire \subseteq wire'
    BY DEF Seal, Writes
  <1> HIDE DEF out
  <1>3. /\ wire' \subseteq Frames /\ FramesAreSent' /\ SilentBeforeIntro'
        /\ sent' \in [Streams -> Seq(Bodies)]
        /\ Said(out)' \in {Said(out), Said(out) \union {<<Len(sent[out]) + 1, body>>}}
        /\ \A s \in Streams \ {out} : Said(s)' = Said(s)
    BY <1>2, WritingKeeps DEF out
  <1>4. Len(sent'[out]) = Len(sent[out]) + 1
    BY <1>1, <1>2, InvFacts, Appended
  <1>5. CountersAreLengths'
    BY <1>1, <1>2, <1>4, InvFacts DEF CountersAreLengths
  <1>6. OpenedWereWritten'
    BY <1>2, ReadingKeeps DEF OpenedWereWritten
  <1>7. ChannelTypeOK'
    BY <1>1, <1>2, <1>3, InvFacts DEF ChannelTypeOK
  <1>8. StreamsMove
    BY <1>1, <1>2, <1>3, InvFacts DEF StreamsMove
  <1> QED
    BY <1>3, <1>5, <1>6, <1>7, <1>8 DEF GoodStep, ChannelInv

LEMMA OpenIsGood ==
  ASSUME ChannelInv, NEW end \in Ends, NEW epub \in Epubs, NEW frame \in wire,
         Open(end, epub, frame)
  PROVE  GoodStep
  <1> DEFINE in == <<epub, In(end)>>
  <1>1. in \in Streams /\ Receiver(in) = end
    BY Directions
  <1>2. /\ seq' = [seq EXCEPT ![end][in] = @ + 1]
        /\ opened' = [opened EXCEPT ![in] = Append(@, frame.body)]
        /\ wire' = wire /\ derived' = derived /\ sent' = sent
    BY DEF Open
  <1>3. /\ frame.body \in Bodies /\ frame.key = in /\ frame.nonce = Len(opened[in])
        /\ <<Len(opened[in]) + 1, frame.body>> \in Said(in)
    BY OpenedIsDue DEF Open
  <1> HIDE DEF in
  <1>4. Len(opened'[in]) = Len(opened[in]) + 1 /\ opened'[in] \in Seq(Bodies)
    BY <1>1, <1>2, <1>3, InvFacts, Appended
  <1>5. CountersAreLengths'
    BY <1>1, <1>2, <1>4, InvFacts DEF CountersAreLengths
  <1>6. OpenedWereWritten'
    <2>1. \A s \in Streams :
            opened'[s] = IF s = in THEN Append(opened[s], frame.body) ELSE opened[s]
      BY <1>1, <1>2, InvFacts
    <2> SUFFICES ASSUME NEW s \in Streams
                 PROVE  \A i \in 1..Len(opened'[s]) :
                          \E f \in wire' : f.key = s /\ f.nonce + 1 = i /\ f.body = opened'[s][i]
      BY DEF OpenedWereWritten
    <2>2. \/ opened'[s] = opened[s]
          \/ \E f \in wire : /\ f.key = s /\ f.nonce = Len(opened[s])
                            /\ f.body \in Bodies
                            /\ opened'[s] = Append(opened[s], f.body)
      BY <1>3, <2>1
    <2>3. wire \subseteq wire'
      BY <1>2
    <2> QED
      BY <2>2, <2>3, ReadingKeeps
  <1>7. ChannelTypeOK' /\ FramesAreSent' /\ SilentBeforeIntro'
    BY <1>1, <1>2, <1>4, InvFacts
    DEF ChannelInv, ChannelTypeOK, FramesAreSent, SilentBeforeIntro, Repeated
  <1>8. StreamsMove
    <2>1. \A s \in Streams : Said(s)' = Said(s)
      BY <1>2 DEF Said
    <2> QED
      BY <1>1, <1>2, <1>3, <2>1, InvFacts DEF StreamsMove
  <1> QED
    BY <1>5, <1>6, <1>7, <1>8 DEF GoodStep, ChannelInv

LEMMA AnswerIsGood ==
  ASSUME ChannelInv, NEW end \in Ends, NEW epub \in Epubs, NEW frame \in wire,
         NEW body \in Bodies, NEW written \in BOOLEAN,
         Answer(end, epub, frame, body, written)
  PROVE  GoodStep
  <1> DEFINE in == <<epub, In(end)>>
             out == <<epub, Out(end)>>
  <1>1. /\ in \in Streams /\ Receiver(in) = end
        /\ out \in Streams /\ Sender(out) = end /\ in # out
    BY Directions
  <1>2. /\ Writes(end, epub, body)
        /\ seq' = [seq EXCEPT ![end][in] = @ + 1, ![end][out] = @ + 1]
        /\ sent' = [sent EXCEPT ![out] = Append(@, body)]
        /\ opened' = [opened EXCEPT ![in] = Append(@, frame.body)]
        /\ derived' = derived /\ wire \subseteq wire'
    BY DEF Answer, Writes
  <1>3. /\ frame.body \in Bodies /\ frame.key = in /\ frame.nonce = Len(opened[in])
        /\ <<Len(opened[in]) + 1, frame.body>> \in Said(in)
    BY OpenedIsDue DEF Answer
  <1> HIDE DEF in, out
  <1>4. /\ wire' \subseteq Frames /\ FramesAreSent' /\ SilentBeforeIntro'
        /\ sent' \in [Streams -> Seq(Bodies)]
        /\ Said(out)' \in {Said(out), Said(out) \union {<<Len(sent[out]) + 1, body>>}}
        /\ \A s \in Streams \ {out} : Said(s)' = Said(s)
    BY <1>2, WritingKeeps DEF out
  <1>5. /\ Len(opened'[in]) = Len(opened[in]) + 1 /\ opened'[in] \in Seq(Bodies)
        /\ Len(sent'[out]) = Len(sent[out]) + 1
    BY <1>1, <1>2, <1>3, InvFacts, Appended
  <1>6. /\ seq' \in [Ends -> [Streams -> Nat]]
        /\ seq'[end][in] = seq[end][in] + 1
        /\ seq'[end][out] = seq[end][out] + 1
        /\ \A e \in Ends, s \in Streams :
             e # end \/ (s # in /\ s # out) => seq'[e][s] = seq[e][s]
    BY <1>1, <1>2, InvFacts
  <1>7. CountersAreLengths'
    BY <1>1, <1>2, <1>5, <1>6, InvFacts DEF CountersAreLengths
  <1>8. OpenedWereWritten'
    <2>1. \A s \in Streams :
            opened'[s] = IF s = in THEN Append(opened[s], frame.body) ELSE opened[s]
      BY <1>1, <1>2, InvFacts
    <2> SUFFICES ASSUME NEW s \in Streams
                 PROVE  \A i \in 1..Len(opened'[s]) :
                          \E f \in wire' : f.key = s /\ f.nonce + 1 = i /\ f.body = opened'[s][i]
      BY DEF OpenedWereWritten
    <2>2. \/ opened'[s] = opened[s]
          \/ \E f \in wire : /\ f.key = s /\ f.nonce = Len(opened[s])
                            /\ f.body \in Bodies
                            /\ opened'[s] = Append(opened[s], f.body)
      BY <1>3, <2>1
    <2>3. wire \subseteq wire'
      BY <1>2
    <2> QED
      BY <2>2, <2>3, ReadingKeeps
  <1>9. ChannelTypeOK'
    BY <1>1, <1>2, <1>4, <1>5, <1>6, InvFacts DEF ChannelTypeOK
  <1>10. StreamsMove
    <2>1. \A s \in Streams :
            /\ sent'[s] = IF s = out THEN Append(sent[s], body) ELSE sent[s]
            /\ opened'[s] = IF s = in THEN Append(opened[s], frame.body) ELSE opened[s]
      BY <1>1, <1>2, InvFacts
    <2> QED
      BY <1>1, <1>3, <1>4, <2>1 DEF StreamsMove
  <1> QED
    BY <1>4, <1>7, <1>8, <1>9, <1>10 DEF GoodStep, ChannelInv

(* A fresh Channel takes the server's end back to the first place of its   *)
(* two streams; frames of an earlier one for the same epub are now those   *)
(* of a Repeated one.                                                      *)
LEMMA DeriveIsGood ==
  ASSUME ChannelInv, NEW epub \in Epubs, Derive(epub)
  PROVE  GoodStep
  <1> DEFINE in == <<epub, In("server")>>
             out == <<epub, Out("server")>>
  <1>1. /\ in \in Streams /\ out \in Streams /\ in # out
        /\ in = <<epub, "c2s">> /\ out = <<epub, "s2c">>
        /\ Receiver(in) = "server" /\ Sender(out) = "server" /\ "server" \in Ends
    BY Directions DEF Ends, In, Out
  <1>2. /\ seq' = [seq EXCEPT !["server"] = [@ EXCEPT ![in] = 0, ![out] = 0]]
        /\ sent' = [sent EXCEPT ![out] = <<>>]
        /\ opened' = [opened EXCEPT ![in] = <<>>]
        /\ wire' = wire
    BY DEF Derive
  <1>3. /\ derived' \in [Epubs -> {"never", "once", "again"}]
        /\ \A e \in Epubs \ {epub} : derived'[e] = derived[e]
        /\ derived'[epub] # "never"
        /\ derived[epub] # "never" => derived'[epub] = "again"
    BY InvFacts DEF Derive
  <1> HIDE DEF in, out
  <1>4. /\ seq' \in [Ends -> [Streams -> Nat]]
        /\ sent' \in [Streams -> Seq(Bodies)]
        /\ opened' \in [Streams -> Seq(Bodies)]
        /\ seq'["server"][in] = 0 /\ seq'["server"][out] = 0
        /\ \A e \in Ends, s \in Streams :
             e # "server" \/ (s # in /\ s # out) => seq'[e][s] = seq[e][s]
        /\ \A s \in Streams :
             /\ sent'[s] = IF s = out THEN <<>> ELSE sent[s]
             /\ opened'[s] = IF s = in THEN <<>> ELSE opened[s]
    <2> DEFINE ours == [seq["server"] EXCEPT ![in] = 0, ![out] = 0]
    <2>1. /\ ours \in [Streams -> Nat] /\ ours[in] = 0 /\ ours[out] = 0
          /\ \A s \in Streams : s # in /\ s # out => ours[s] = seq["server"][s]
      BY <1>1, InvFacts
    <2>2. seq' = [seq EXCEPT !["server"] = ours]
      BY <1>2
    <2> HIDE DEF ours
    <2>3. /\ seq' \in [Ends -> [Streams -> Nat]]
          /\ seq'["server"] = ours /\ \A e \in Ends \ {"server"} : seq'[e] = seq[e]
      BY <1>1, <2>1, <2>2, InvFacts
    <2>4. <<>> \in Seq(Bodies)
      OBVIOUS
    <2>5. /\ sent' \in [Streams -> Seq(Bodies)]
          /\ opened' \in [Streams -> Seq(Bodies)]
          /\ \A s \in Streams :
               /\ sent'[s] = IF s = out THEN <<>> ELSE sent[s]
               /\ opened'[s] = IF s = in THEN <<>> ELSE opened[s]
      BY <1>1, <1>2, <2>4, InvFacts
    <2> QED
      BY <2>1, <2>3, <2>5
  <1>5. ChannelTypeOK'
    BY <1>2, <1>3, <1>4, InvFacts DEF ChannelTypeOK
  <1>6. CountersAreLengths'
    <2> SUFFICES ASSUME NEW s \in Streams
                 PROVE  /\ seq'[Sender(s)][s] = Len(sent'[s])
                        /\ seq'[Receiver(s)][s] = Len(opened'[s])
      BY DEF CountersAreLengths
    <2>1. /\ seq[Sender(s)][s] = Len(sent[s])
          /\ seq[Receiver(s)][s] = Len(opened[s])
          /\ Sender(s) \in Ends /\ Receiver(s) \in Ends /\ Sender(s) # Receiver(s)
      BY InvFacts
    <2>2. Len(<<>>) = 0
      OBVIOUS
    <2>3. CASE s = in
      BY <1>1, <1>4, <2>1, <2>2, <2>3
    <2>4. CASE s = out
      BY <1>1, <1>4, <2>1, <2>2, <2>4
    <2>5. CASE s # in /\ s # out
      BY <1>4, <2>1, <2>5
    <2> QED
      BY <2>3, <2>4, <2>5
  <1>7. OpenedWereWritten'
    BY <1>2, <1>4, ReadingKeeps DEF OpenedWereWritten
  <1>8. SilentBeforeIntro'
    BY <1>2, <1>3 DEF ChannelInv, SilentBeforeIntro
  <1>9. FramesAreSent'
    <2> SUFFICES ASSUME NEW f \in wire, f.key[2] = "c2s" \/ f.key[1] \notin Repeated'
                 PROVE  f.nonce < Len(sent'[f.key]) /\ f.body = sent'[f.key][f.nonce + 1]
      BY <1>2 DEF FramesAreSent
    <2>1. f.key \in Streams
      BY InvFacts DEF Frames
    <2>2. f.key # out
      <3> SUFFICES ASSUME f.key = out PROVE FALSE
        OBVIOUS
      <3>1. derived[epub] # "never"
        BY <1>1 DEF ChannelInv, SilentBeforeIntro
      <3>2. f.key[1] = epub /\ f.key[2] = "s2c"
        BY <1>1
      <3> QED
        BY <1>3, <3>1, <3>2 DEF Repeated
    <2>3. f.key[2] = "c2s" \/ f.key[1] \notin Repeated
      BY <1>3 DEF Repeated
    <2> QED
      BY <1>4, <2>1, <2>2, <2>3 DEF ChannelInv, FramesAreSent
  <1>10. StreamsMove
    <2>1. \A s \in Streams : Said(s)' = Said(s)
      BY <1>2 DEF Said
    <2>2. in[2] = "c2s" /\ out[2] # "c2s"
      BY <1>1
    <2> QED
      BY <1>1, <1>4, <2>1, <2>2 DEF StreamsMove
  <1> QED
    BY <1>5, <1>6, <1>7, <1>8, <1>9, <1>10 DEF GoodStep, ChannelInv

LEMMA ActionsAreGood ==
  ASSUME ChannelInv, ChannelNext
  PROVE  GoodStep
  BY SealIsGood, OpenIsGood, AnswerIsGood, DeriveIsGood DEF ChannelNext

LEMMA ChannelNext_Inv ==
  ASSUME ChannelInv, [ChannelNext]_channelVars
  PROVE  ChannelInv'
  <1>1. CASE ChannelNext
    BY <1>1, ActionsAreGood DEF GoodStep
  <1>2. CASE UNCHANGED channelVars
    BY <1>2 DEF channelVars, ChannelInv, ChannelTypeOK, FramesAreSent, Repeated,
                CountersAreLengths, OpenedWereWritten, SilentBeforeIntro
  <1> QED
    BY <1>1, <1>2

(* The counters, the frames and the streams fit together in every          *)
(* reachable state, with a fresh Channel for every INTRO (frame.rs, struct *)
(* Channel; server.rs 239-254).                                            *)
THEOREM ChannelInvariant == ChannelSpec => []ChannelInv
  <1> QED
    BY ChannelInit_Inv, ChannelNext_Inv, PTL DEF ChannelSpec

(* No key seals two different frames under one nonce, the server's frames  *)
(* for an epub with more than one INTRO excepted.                          *)
THEOREM NoncesAreFresh == ChannelSpec => []NonceOnce
  <1>1. ChannelInv => NonceOnce
    <2> SUFFICES ASSUME ChannelInv, NEW f \in wire, NEW g \in wire,
                        f.key = g.key, f.nonce = g.nonce,
                        f.key[2] # "s2c" \/ f.key[1] \notin Repeated
                 PROVE  f = g
      BY DEF NonceOnce
    <2>1. f \in Frames /\ g \in Frames
      BY InvFacts
    <2>2. f.key[2] = "c2s" \/ f.key[1] \notin Repeated
      BY <2>1 DEF Frames, Streams
    <2>3. f.body = g.body
      BY <2>2 DEF ChannelInv, FramesAreSent
    <2>4. /\ f = [key |-> f.key, nonce |-> f.nonce, body |-> f.body]
          /\ g = [key |-> g.key, nonce |-> g.nonce, body |-> g.body]
      BY <2>1 DEF Frames
    <2> QED
      BY <2>3, <2>4
  <1> QED
    BY <1>1, ChannelInvariant, PTL

(* Each end reads, place by place, what the other end sealed there on the  *)
(* same stream: each place once for each Channel, whatever becomes of the  *)
(* frames and however often the server begins anew.                        *)
THEOREM ChannelImplementsStreams == ChannelSpec => ImplementsStreams
  <1>1. ChannelInit => InOrder!Init
    BY DEF ChannelInit, InOrder!Init, Said
  <1>2. ChannelInv /\ [ChannelNext]_channelVars => [InOrder!Next]_(InOrder!vars)
    <2>1. ChannelInv /\ ChannelNext => InOrder!Next
      BY ActionsAreGood, MovesInOrder DEF GoodStep
    <2>2. UNCHANGED channelVars => UNCHANGED InOrder!vars
      BY DEF channelVars, InOrder!vars, Said
    <2> QED
      BY <2>1, <2>2
  <1> QED
    BY <1>1, <1>2, ChannelInvariant, PTL DEF ChannelSpec, ImplementsStreams, InOrder!Spec
=============================================================================
