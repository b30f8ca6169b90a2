--------------------------- MODULE HandshakeProofs ---------------------------
(***************************************************************************)
(* Theorems about Handshake, for any number of apps: the composition is a  *)
(* behaviour of each of its parts, so what is proved of SealedChannel and  *)
(* of BindSession is true of it; the offer is for those who hold a         *)
(* credential, and a DONE is true of the app that reads it.                *)
(***************************************************************************)
EXTENDS Handshake, SealedChannelProofs

LEMMA HellosAreBodies ==
  ASSUME NEW e \in Epubs, NEW knows \in Knowledge, NEW hello \in Hellos(e, knows)
  PROVE  hello \in Bodies
  BY MessageAssumption DEF Hellos, Messages, Proofs

LEMMA MessagesAreBodies ==
  /\ Offer \in Bodies
  /\ \A key \in Keys \union {Unparseable} : Enroll(key) \in Bodies
  /\ \A m \in {"ok", "wrong pin", "pin retired", "unparseable", "not ed25519",
               "offer expired", "declined on the host", "could not write"} :
       Done(m) \in Bodies
  <1>1. \A m \in {"ok", "wrong pin", "pin retired", "unparseable", "not ed25519",
                  "offer expired", "declined on the host", "could not write"} :
          m \in Session!Refusals \union {"ok"}
    BY DEF Session!Refusals
  <1> QED
    BY <1>1, MessageAssumption DEF Messages

(* Past its INTRO the peer being served is an app.                         *)
ServesApp ==
  /\ served \in Epubs \union {Nobody}
  /\ pc \in Session!Proven \union {"hello"} => served \in Epubs

LEMMA ServesApp_Init == Init => ServesApp
  BY DEF Init, Session!Init, Session!Proven, ServesApp

LEMMA SilentServesApp ==
  ASSUME ServesApp, Silent
  PROVE  ServesApp'
  <1> USE DEF ServesApp, Session!Proven, Session!Reading, appVars
  <1>1. UNCHANGED served
    BY DEF Silent
  <1>2. CASE Session!Tick \/ Session!Signal
    BY <1>1, <1>2 DEF Session!Tick, Session!Signal
  <1>3. CASE \/ Session!NoticeCancel \/ Session!NoticeExpiry \/ Session!PollAgain
             \/ Session!AcceptNone \/ Session!DropConnection \/ Session!ReadTimeout
    BY <1>1, <1>3 DEF Session!NoticeCancel, Session!NoticeExpiry, Session!PollAgain,
         Session!AcceptNone, Session!DropConnection, Session!ReadTimeout,
         Session!Return, Session!Ignore
  <1>4. CASE \/ Session!ReadLength \/ Session!CheckBeforePrompt \/ Session!Approve
             \/ Session!CheckAfterPrompt \/ Session!EnsureLine
    BY <1>1, <1>4 DEF Session!ReadLength, Session!CheckBeforePrompt, Session!Approve,
         Session!CheckAfterPrompt, Session!EnsureLine
  <1> QED
    BY <1>2, <1>3, <1>4 DEF Silent

LEMMA ServesApp_Next ==
  ASSUME ServesApp, [Next]_vars
  PROVE  ServesApp'
  <1> USE DEF ServesApp
  <1>1. ASSUME NEW e \in Epubs, NEW f \in wire,
               (\E key : ReadOffer(e, f, key)) \/ ReadDone(e, f)
        PROVE  ServesApp'
    BY <1>1 DEF ReadOffer, ReadDone, sessionVars, Session!Proven
  <1>1a. ASSUME NEW e \in Epubs, NEW knows, NEW hello, Connect(e, knows, hello)
        PROVE  ServesApp'
    BY <1>1a DEF Connect, sessionVars, Session!Proven
  <1>2. CASE Accept
    BY <1>2 DEF Accept, Session!Accept, Session!Proven
  <1>3. CASE \E e \in Epubs : RecvIntro(e)
    BY <1>3 DEF RecvIntro
  <1>4. ASSUME NEW f \in wire, RecvHello(f) \/ RecvEnroll(f) \/ RecvMalformed(f)
        PROVE  ServesApp'
    BY <1>4 DEF RecvHello, RecvEnroll, RecvMalformed, appVars
  <1>5. CASE SendOffer
    BY <1>5 DEF SendOffer, appVars, Session!SendOffer, Session!OfferNotSent,
                Session!Proven
  <1>6. CASE Answered
    BY <1>6 DEF Answered, SendDone, appVars, Session!TooLate, Session!Decline,
                Session!EnsureLineFails, Session!SendReceipt, Session!Proven
  <1>7. CASE Silent
    BY <1>7, SilentServesApp
  <1>8. CASE Terminated \/ UNCHANGED vars
    BY <1>8 DEF Terminated, Session!Terminated, Session!vars, appVars, vars,
                sessionVars, Session!Proven
  <1> QED
    BY <1>1, <1>1a, <1>2, <1>3, <1>4, <1>5, <1>6, <1>7, <1>8 DEF Next

(* Each action opens at most one frame and seals at most one, or makes a   *)
(* Channel.                                                                *)
LEMMA ChannelSteps ==
  ASSUME ServesApp, [Next]_vars
  PROVE  [ChannelNext]_channelVars
  <1>1. ASSUME NEW e \in Epubs, NEW knows \in Knowledge,
               NEW hello \in Hellos(e, knows), Connect(e, knows, hello)
        PROVE  ChannelNext
    BY <1>1, HellosAreBodies DEF Connect, ChannelNext, Ends
  <1>2. ASSUME NEW e \in Epubs, NEW f \in wire,
               NEW key \in Keys \union {Unparseable}, ReadOffer(e, f, key)
        PROVE  ChannelNext
    BY <1>2, MessagesAreBodies DEF ReadOffer, ChannelNext, Ends
  <1>3. ASSUME NEW e \in Epubs, NEW f \in wire, ReadDone(e, f)
        PROVE  ChannelNext
    BY <1>3 DEF ReadDone, ChannelNext, Ends
  <1>4. CASE Accept \/ Silent \/ Terminated
    BY <1>4 DEF Accept, Silent, Terminated
  <1>8. CASE \E e \in Epubs : RecvIntro(e)
    BY <1>8 DEF RecvIntro, ChannelNext
  <1>5. ASSUME NEW f \in wire, RecvHello(f) \/ RecvEnroll(f) \/ RecvMalformed(f)
        PROVE  ChannelNext
    <2>1. served \in Epubs
      BY <1>5 DEF ServesApp, RecvHello, RecvEnroll, RecvMalformed
    <2>2. \/ Open("server", served, f)
          \/ \E message \in {"pin retired", "wrong pin", "unparseable", "not ed25519"} :
               Answer("server", served, f, Done(message), reply' # "none")
      BY <1>5 DEF RecvHello, RecvEnroll, RecvMalformed, OpenAndSendDone
    <2> QED
      BY <2>1, <2>2, MessagesAreBodies DEF ChannelNext, Ends
  <1>6. CASE SendOffer \/ Answered
    <2>1. served \in Epubs
      BY <1>6 DEF ServesApp, Session!Proven, SendOffer, Answered, Session!SendOffer,
           Session!OfferNotSent, Session!TooLate, Session!Decline,
           Session!EnsureLineFails, Session!SendReceipt
    <2>2. \/ Seal("server", served, Offer, TRUE) \/ Seal("server", served, Offer, FALSE)
          \/ \E message \in {"offer expired", "declined on the host",
                             "could not write", "ok"} :
               Seal("server", served, Done(message), reply' # "none")
      BY <1>6 DEF SendOffer, Answered, SendDone
    <2> QED
      BY <2>1, <2>2, MessagesAreBodies DEF ChannelNext, Ends
  <1>7. CASE UNCHANGED vars
    BY <1>7 DEF vars
  <1> QED
    BY <1>1, <1>2, <1>3, <1>4, <1>5, <1>6, <1>7, <1>8 DEF Next

(* Each action is one of the server's, or leaves the server alone.         *)
LEMMA SessionSteps ==
  ASSUME [Next]_vars
  PROVE  [Session!Next]_(Session!vars)
  <1>1. CASE \/ (\E e \in Epubs : \E knows, hello : Connect(e, knows, hello))
             \/ (\E e \in Epubs, f \in wire : \E key : ReadOffer(e, f, key))
             \/ (\E e \in Epubs, f \in wire : ReadDone(e, f))
             \/ UNCHANGED vars
    BY <1>1 DEF Connect, ReadOffer, ReadDone, vars, sessionVars, Session!vars
  <1>2. CASE Accept
    BY <1>2 DEF Accept, Session!Next, Session!PeerStep
  <1>3. CASE \E e \in Epubs : RecvIntro(e)
    <2>1. PICK mode \in Session!Modes : Session!RecvIntro(mode)
      BY <1>3 DEF RecvIntro
    <2> QED
      BY <2>1 DEF Session!Next, Session!PeerStep
  <1>4. ASSUME NEW f \in wire, RecvHello(f) \/ RecvMalformed(f)
        PROVE  Session!Next
    BY <1>4 DEF RecvHello, RecvMalformed, Session!Next, Session!PeerStep
  <1>5. ASSUME NEW f \in wire, RecvEnroll(f)
        PROVE  Session!Next
    <2>1. PICK key \in Keys \union {Unparseable} :
            Session!RecvEnroll(key) \/ Session!RecvBadKey(key)
      BY <1>5, AlgorithmAssumption DEF RecvEnroll, Session!RecvEnroll, Session!RecvBadKey
    <2> QED
      BY <2>1 DEF Session!Next, Session!PeerStep
  <1>6. CASE SendOffer \/ Answered
    BY <1>6 DEF SendOffer, Answered, Session!Next, Session!ServerStep, Session!Operator
  <1>7. CASE Silent \/ Terminated
    BY <1>7 DEF Silent, Terminated, Session!Next, Session!ServerStep,
                Session!Operator, Session!PeerStep
  <1> QED
    BY <1>1, <1>2, <1>3, <1>4, <1>5, <1>6, <1>7 DEF Next

(* Every behaviour of the composition is one of the channel.               *)
THEOREM HandshakeUsesChannel == Spec => ChannelSpec
  <1>1. Init => ChannelInit
    BY DEF Init
  <1> QED
    BY <1>1, ServesApp_Init, ServesApp_Next, ChannelSteps, PTL DEF Spec, ChannelSpec

(* What the channel promises holds of the server and the apps, whatever    *)
(* they write, whichever of their writes fail and whoever's INTRO comes    *)
(* again (frame.rs 1-4).                                                   *)
THEOREM HandshakeChannelInvariant == Spec => []ChannelInv
  <1> QED
    BY HandshakeUsesChannel, ChannelInvariant, PTL

(* No key seals two different frames under one nonce, the server's frames  *)
(* for an app whose INTRO came on more than one connection excepted.       *)
THEOREM HandshakeNoncesAreFresh == Spec => []NonceOnce
  <1> QED
    BY HandshakeUsesChannel, NoncesAreFresh, PTL

(* Each end reads, place by place, what the other wrote on that stream,    *)
(* each place once for each Channel.                                       *)
THEOREM HandshakeImplementsStreams == Spec => ImplementsStreams
  <1> QED
    BY HandshakeUsesChannel, ChannelImplementsStreams, PTL

(* The composed server is the server of BindSession.                       *)
THEOREM HandshakeImplementsSession == Spec => Session!Spec
  <1>1. Init => Session!Init
    BY DEF Init
  <1> QED
    BY <1>1, SessionSteps, PTL DEF Spec, Session!Spec
-----------------------------------------------------------------------------
(* What BindSessionProofs proves of the bind server is true of it here.    *)

Server == INSTANCE BindSessionProofs

LEMMA SameServer ==
  /\ Session!Init => Server!Init
  /\ [Session!Next]_(Session!vars) => [Server!Next]_(Server!vars)
  <1>1. Session!Init => Server!Init
    BY Zenon DEF Session!Init, Server!Init, Session!NoConn, Server!NoConn, Session!Foreign,
         Server!Foreign
  <1>2. [Session!Next]_(Session!vars) => [Server!Next]_(Server!vars)
    BY Zenon
    DEF Session!NoConn, Server!NoConn,
        Session!PhaseDeadline, Server!PhaseDeadline,
        Session!Return, Server!Return,
        Session!NoticeCancel, Server!NoticeCancel,
        Session!NoticeExpiry, Server!NoticeExpiry,
        Session!PollAgain, Server!PollAgain,
        Session!AcceptNone, Server!AcceptNone, Session!Accept, Server!Accept,
        Session!Ignore, Server!Ignore, Session!TellPeer, Server!TellPeer,
        Session!ReadLength, Server!ReadLength,
        Session!FrameComplete, Server!FrameComplete,
        Session!DropConnection, Server!DropConnection,
        Session!ReadTimeout, Server!ReadTimeout,
        Session!ReadDue, Server!ReadDue, Session!RecvIntro, Server!RecvIntro,
        Session!Accepts, Server!Accepts,
        Session!RecvGoodProof, Server!RecvGoodProof,
        Session!RecvBadToken, Server!RecvBadToken,
        Session!RecvRetiredPin, Server!RecvRetiredPin,
        Session!CountPinFailure, Server!CountPinFailure,
        Session!PinRetiredNotice, Server!PinRetiredNotice,
        Session!RecvWrongPin, Server!RecvWrongPin,
        Session!SendOffer, Server!SendOffer,
        Session!OfferNotSent, Server!OfferNotSent,
        Session!RecvBadKey, Server!RecvBadKey,
        Session!RecvEnroll, Server!RecvEnroll, Session!TooLate, Server!TooLate,
        Session!CheckBeforePrompt, Server!CheckBeforePrompt,
        Session!Approve, Server!Approve, Session!Decline, Server!Decline,
        Session!CheckAfterPrompt, Server!CheckAfterPrompt,
        Session!EnsureLine, Server!EnsureLine, Session!Marker, Server!Marker,
        Session!EnsureLineFails, Server!EnsureLineFails,
        Session!SendReceipt, Server!SendReceipt,
        Session!Terminated, Server!Terminated,
        Session!PeerStep, Server!PeerStep,
        Session!ServerStep, Server!ServerStep,
        Session!Operator, Server!Operator, Session!Next, Server!Next,
        Session!vars, Server!vars, Session!pins, Server!pins,
        Session!Tick, Server!Tick, Session!Signal, Server!Signal,
        Session!Reading, Server!Reading, Session!Modes, Server!Modes
  <1> QED
    BY <1>1, <1>2

LEMMA SameServerInv == Server!SessionInv <=> Session!SessionInv
  <1>1. Server!TypeOK <=> Session!TypeOK
    BY Zenon
    DEF Session!TypeOK, Server!TypeOK, Session!Phases, Server!Phases,
        Session!Conns, Server!Conns, Session!Refusals, Server!Refusals,
        Session!Reading, Server!Reading, Session!Modes, Server!Modes,
        Session!Lines, Server!Lines, Session!Marker, Server!Marker,
        Session!Foreign, Server!Foreign, Session!Outcomes, Server!Outcomes
  <1>2. Server!KeyInFile <=> Session!KeyInFile
    BY Zenon DEF Session!KeyInFile, Server!KeyInFile, Session!Marker, Server!Marker
  <1>3. /\ Server!PinsInv <=> Session!PinsInv
        /\ Server!ConnInv <=> Session!ConnInv
        /\ Server!FileInv <=> Session!FileInv
        /\ Server!ReplyInv <=> Session!ReplyInv
        /\ Server!OutcomeInv <=> Session!OutcomeInv
    BY <1>2, Zenon
    DEF Session!PinsInv, Server!PinsInv,
        Session!NoticesCountDown, Server!NoticesCountDown,
        Session!PinRetiredNotice, Server!PinRetiredNotice,
        Session!ConnInv, Server!ConnInv, Session!NoConn, Server!NoConn,
        Session!Proven, Server!Proven, Session!KeyRead, Server!KeyRead,
        Session!Accepts, Server!Accepts, Session!FileInv, Server!FileInv,
        Session!KeyInFile, Server!KeyInFile, Session!Marker, Server!Marker,
        Session!ReplyInv, Server!ReplyInv, Session!Serving, Server!Serving,
        Session!OutcomeInv, Server!OutcomeInv
  <1> QED
    BY <1>1, <1>3 DEF Session!SessionInv, Server!SessionInv

(* With all that the apps do at the other end, every reachable state of    *)
(* the server satisfies the invariant its properties follow from.          *)
THEOREM HandshakeSessionInvariant == Spec => []Session!SessionInv
  <1>1. Spec => Server!Spec
    <2>1. Session!Spec => Server!Spec
      BY SameServer, PTL DEF Session!Spec, Server!Spec
    <2> QED
      BY <2>1, HandshakeImplementsSession
  <1>2. Server!KeyAssumption /\ Server!TimeAssumption /\ Server!PinAssumption
    BY SessionAssumption, AlgorithmAssumption
    DEF Server!KeyAssumption, Server!TimeAssumption, Server!PinAssumption
  <1>3. Server!Spec => []Server!SessionInv
    BY <1>2, Server!SessionInvariant
  <1> QED
    BY <1>1, <1>3, SameServerInv, PTL

(* The apps and the frames that tell them the end.                         *)
AppsInv ==
  /\ served \in Epubs \union {Nobody}
  /\ app \in [Epubs -> Apps]
  /\ \A f \in wire : f.body[1] = "DONE" => f.body[2] \in Session!Refusals \union {"ok"}

LEMMA AppsInv_Init == Init => AppsInv
  BY DEF Init, ChannelInit, AppsInv, NewApp, Apps, Knowledge

(* What the server has to say at the end is one of the refusals, or ok.    *)
SaysTheEnd ==
  \A f \in wire' : \/ f \in wire
                  \/ f.body = Offer
                  \/ \E m \in Session!Refusals \union {"ok"} : f.body = Done(m)

LEMMA ServerSaysTheEnd ==
  ASSUME \/ \E f \in wire : RecvHello(f) \/ RecvEnroll(f) \/ RecvMalformed(f)
         \/ SendOffer \/ Answered
  PROVE  SaysTheEnd /\ UNCHANGED appVars
  <1> DEFINE Told == {"ok", "wrong pin", "pin retired", "unparseable", "not ed25519",
                      "offer expired", "declined on the host", "could not write"}
  <1>1. Told \subseteq Session!Refusals \union {"ok"}
    BY DEF Session!Refusals
  <1>2. CASE SendOffer
    BY <1>2 DEF SendOffer, Seal, Sealed, SaysTheEnd
  <1>3. CASE Answered
    <2>1. PICK m \in Told : SendDone(m)
      BY <1>3 DEF Answered
    <2>2. m \in Session!Refusals \union {"ok"} /\ UNCHANGED appVars
      BY <1>1, <2>1 DEF SendDone
    <2>3. \A f \in wire' : f \in wire \/ f.body = Done(m)
      <3>1. wire' \subseteq wire \union {Sealed("server", <<served, "s2c">>, Done(m))}
        BY <2>1 DEF SendDone, Seal, Out
      <3>2. Sealed("server", <<served, "s2c">>, Done(m)).body = Done(m)
        BY DEF Sealed
      <3> QED
        BY <3>1, <3>2
    <2> QED
      BY <2>2, <2>3 DEF SaysTheEnd
  <1>4. ASSUME NEW f \in wire, RecvHello(f) \/ RecvEnroll(f) \/ RecvMalformed(f)
        PROVE  SaysTheEnd /\ UNCHANGED appVars
    <2>1. /\ UNCHANGED appVars
          /\ Open("server", served, f) \/ \E m \in Told : OpenAndSendDone(f, m)
      BY <1>4 DEF RecvHello, RecvEnroll, RecvMalformed
    <2>2. CASE Open("server", served, f)
      BY <2>1, <2>2 DEF Open, SaysTheEnd
    <2>3. CASE \E m \in Told : OpenAndSendDone(f, m)
      <3>1. PICK m \in Told : OpenAndSendDone(f, m)
        BY <2>3
      <3>2. m \in Session!Refusals \union {"ok"}
        BY <1>1
      <3>3. \A g \in wire' : g \in wire \/ g.body = Done(m)
        <4>1. wire' \subseteq wire \union {Sealed("server", <<served, "s2c">>, Done(m))}
          BY <3>1 DEF OpenAndSendDone, Answer, Out
        <4>2. Sealed("server", <<served, "s2c">>, Done(m)).body = Done(m)
          BY DEF Sealed
        <4> QED
          BY <4>1, <4>2
      <3> QED
        BY <2>1, <3>2, <3>3 DEF SaysTheEnd
    <2> QED
      BY <2>1, <2>2, <2>3
  <1> QED
    BY <1>2, <1>3, <1>4

LEMMA AppsInv_Next ==
  ASSUME AppsInv, [Next]_vars
  PROVE  AppsInv'
  <1> USE DEF AppsInv
  <1>1. ASSUME SaysTheEnd, UNCHANGED appVars
        PROVE  AppsInv'
    BY <1>1 DEF SaysTheEnd, appVars, Done, Offer
  <1>2. ASSUME NEW e \in Epubs, NEW knows \in Knowledge,
               NEW hello \in Hellos(e, knows), Connect(e, knows, hello)
        PROVE  AppsInv'
    <2>1. [app[e] EXCEPT !.step = "hello", !.knows = knows] \in Apps
      BY DEF Apps
    <2>2. app' \in [Epubs -> Apps] /\ served' = served
      BY <1>2, <2>1 DEF Connect
    <2>3. hello[1] # "DONE"
      BY DEF Hellos, Hello, Garbled
    <2>4. \A f \in wire' : f \in wire \/ f.body = hello
      BY <1>2 DEF Connect, Seal, Sealed
    <2> QED
      BY <2>2, <2>3, <2>4
  <1>3. ASSUME NEW e \in Epubs, NEW f \in wire, NEW key \in Keys \union {Unparseable},
               ReadOffer(e, f, key)
        PROVE  AppsInv'
    <2>1. [app[e] EXCEPT !.step = "enroll", !.key = key] \in Apps
      BY DEF Apps
    <2>2. app' \in [Epubs -> Apps] /\ served' = served
      BY <1>3, <2>1 DEF ReadOffer
    <2>3. \A g \in wire' : g \in wire \/ g.body = Enroll(key)
      BY <1>3 DEF ReadOffer, Answer, Sealed
    <2> QED
      BY <2>2, <2>3 DEF Enroll
  <1>4. ASSUME NEW e \in Epubs, NEW f \in wire, ReadDone(e, f)
        PROVE  AppsInv'
    <2>1. f.body[2] \in Session!Refusals \union {"ok"}
      BY <1>4 DEF ReadDone
    <2>2. [app[e] EXCEPT !.step = "told", !.told = f.body[2]] \in Apps
      BY <2>1 DEF Apps
    <2> QED
      BY <1>4, <2>2 DEF ReadDone, Open
  <1>5. CASE \E e \in Epubs : RecvIntro(e)
    BY <1>5 DEF RecvIntro, Derive
  <1>6. CASE Accept
    BY <1>6 DEF Accept, channelVars
  <1>7. CASE Silent \/ Terminated \/ UNCHANGED vars
    BY <1>7 DEF Silent, Terminated, vars, channelVars, appVars
  <1> QED
    BY <1>1, <1>2, <1>3, <1>4, <1>5, <1>6, <1>7, ServerSaysTheEnd DEF Next

(* Type correctness of the composition.                                    *)
THEOREM HandshakeTypeHolds == Spec => []TypeOK
  <1>1. ChannelInv /\ Session!SessionInv /\ AppsInv => TypeOK
    BY DEF ChannelInv, Session!SessionInv, AppsInv, TypeOK
  <1>2. Spec => []AppsInv
    BY AppsInv_Init, AppsInv_Next, PTL DEF Spec
  <1> QED
    BY <1>1, <1>2, HandshakeChannelInvariant, HandshakeSessionInvariant, PTL
-----------------------------------------------------------------------------
(* HoldersOnly: the offer is for those who hold a credential, whatever the *)
(* network does with the frames of the others.                             *)

Knows(e) == app[e].knows # "nothing"
HasSentKey(e) == app[e].step \in {"enroll", "told"}

(* Apps are records, one for each epub.                                    *)
AppShape ==
  /\ DOMAIN app = Epubs
  /\ \A e \in Epubs : DOMAIN app[e] = DOMAIN NewApp

(* What a frame says of the app whose ephemeral key it is sealed under.    *)
HelloInv(e, f) ==
  f.body[1] = "HELLO" =>
    /\ f.body[2] = Token => app[e].knows = "token"
    /\ f.body[2] = PinProof(e) => app[e].knows = "pin"

FrameInv(e, f) ==
  /\ f.key = <<e, "c2s">> =>
       /\ app[e].step # "new"
       /\ HelloInv(e, f)
       /\ f.body[1] = "ENROLL" => HasSentKey(e) /\ f.body[2] = app[e].key
  /\ f.key = <<e, "s2c">> /\ f.body = Offer => app[e].step # "new" /\ Knows(e)

WireInv == \A e \in Epubs, f \in wire : FrameInv(e, f)

KeyInv == \A e \in Epubs : app[e].key # NoKey => HasSentKey(e) /\ Knows(e)

(* What the server knows of the app that the connection's INTRO named.     *)
ConnShape == DOMAIN conn = DOMAIN Session!NoConn

Holds(e) == Knows(e) /\ app[e].knows = conn.mode

ServesHolder ==
  /\ served \in Epubs
  /\ Holds(served)
  /\ HasSentKey(served)
  /\ conn.key = app[served].key

ServedInv ==
  /\ served \in Epubs \union {Nobody}
  /\ served # Nobody => app[served].step # "new"
  /\ pc \in Session!Proven \union {"hello"} => served \in Epubs
  /\ pc \in Session!Proven => Holds(served)
  /\ pc \in Session!KeyRead => ServesHolder
  /\ pc \notin {"receipt", "ended"} => file = before
  /\ file # before => ServesHolder

HoldersInv == AppShape /\ ConnShape /\ WireInv /\ KeyInv /\ ServedInv
-----------------------------------------------------------------------------
LEMMA HoldersInv_Init == Init => HoldersInv
  <1> SUFFICES ASSUME Init PROVE HoldersInv
    OBVIOUS
  <1> USE DEF Init, ChannelInit, Session!Init, NewApp
  <1>1. AppShape /\ KeyInv
    BY DEF AppShape, KeyInv
  <1>2. ConnShape /\ WireInv
    BY DEF ConnShape, WireInv
  <1>3. ServedInv
    BY DEF ServedInv, Session!Proven, Session!KeyRead
  <1> QED
    BY <1>1, <1>2, <1>3 DEF HoldersInv

(* An app that only moves on in what it has been told.                     *)
AppsKept ==
  \A e \in Epubs :
    /\ DOMAIN app'[e] = DOMAIN NewApp
    /\ app'[e].step = app[e].step \/ (HasSentKey(e) /\ app'[e].step = "told")
         \/ (app[e].step = "hello" /\ app'[e].step = "told")
    /\ app'[e].knows = app[e].knows
    /\ app'[e].key = app[e].key

(* Frames of the server's, an OFFER among them only for who knows.         *)
ServerFrames ==
  \A f \in wire' :
    \/ f \in wire
    \/ /\ served \in Epubs
       /\ f.key = <<served, "s2c">>
       /\ f.body = Offer => Knows(served)

LEMMA KeptFrames ==
  ASSUME HoldersInv, AppsKept, ServerFrames
  PROVE  WireInv' /\ KeyInv'
  <1>1. KeyInv'
    BY DEF HoldersInv, KeyInv, AppsKept, Knows, HasSentKey
  <1>2. ASSUME NEW e \in Epubs, NEW f \in wire'
        PROVE  FrameInv(e, f)'
    <2>1. CASE f \in wire
      <3>1. FrameInv(e, f)
        BY <2>1 DEF HoldersInv, WireInv
      <3> QED
        BY <3>1 DEF FrameInv, HelloInv, AppsKept, Knows, HasSentKey
    <2>2. CASE /\ served \in Epubs
               /\ f.key = <<served, "s2c">>
               /\ f.body = Offer => Knows(served)
      <3>1. app[served].step # "new"
        BY <2>2, NobodyAssumption DEF HoldersInv, ServedInv
      <3> QED
        BY <2>2, <3>1 DEF FrameInv, AppsKept, Knows, HasSentKey
    <2> QED
      BY <2>1, <2>2 DEF ServerFrames
  <1> QED
    BY <1>1, <1>2 DEF WireInv

LEMMA SameApps ==
  ASSUME AppShape, UNCHANGED app
  PROVE  AppsKept /\ AppShape'
  BY DEF AppShape, AppsKept
-----------------------------------------------------------------------------
(* Apps.                                                                   *)

LEMMA ConnectKeeps ==
  ASSUME HoldersInv,
         NEW e \in Epubs, NEW knows \in Knowledge,
         NEW hello \in Hellos(e, knows), Connect(e, knows, hello)
  PROVE  HoldersInv'
  <1>1. /\ app[e].step = "new"
        /\ DOMAIN app' = Epubs
        /\ DOMAIN app'[e] = DOMAIN NewApp
        /\ app'[e].step = "hello" /\ app'[e].knows = knows
        /\ app'[e].key = app[e].key
        /\ \A d \in Epubs \ {e} : app'[d] = app[d]
    BY DEF Connect, HoldersInv, AppShape, NewApp
  <1>2. AppShape'
    BY <1>1 DEF HoldersInv, AppShape
  <1>3. ConnShape'
    BY DEF Connect, sessionVars, HoldersInv, ConnShape
  <1>4. KeyInv'
    <2>1. app[e].key = NoKey
      BY <1>1 DEF HoldersInv, KeyInv, HasSentKey
    <2> QED
      BY <1>1, <2>1 DEF HoldersInv, KeyInv, Knows, HasSentKey
  <1>5. ASSUME NEW d \in Epubs, NEW f \in wire' PROVE FrameInv(d, f)'
    <2>1. CASE f \in wire /\ d # e
      <3>1. FrameInv(d, f) /\ app'[d] = app[d]
        BY <1>1, <2>1 DEF HoldersInv, WireInv
      <3> QED
        BY <3>1 DEF FrameInv, HelloInv, Knows, HasSentKey
    <2>2. CASE f \in wire /\ d = e
      <3>1. FrameInv(e, f)
        BY <2>2 DEF HoldersInv, WireInv
      <3>2. f.key # <<e, "c2s">> /\ ~(f.key = <<e, "s2c">> /\ f.body = Offer)
        BY <3>1, <1>1 DEF FrameInv
      <3> QED
        BY <2>2, <3>2 DEF FrameInv
    <2>3. CASE f = [key |-> <<e, "c2s">>, nonce |-> seq["app"][<<e, "c2s">>], body |-> hello]
      <3>1. f.key = <<e, "c2s">> /\ f.body = hello
        BY <2>3
      <3>2. hello[1] # "ENROLL"
        BY DEF Hellos, Hello, Garbled
      <3>3. CASE d = e
        <4>1. hello[1] = "HELLO" =>
                /\ hello[2] = Token => knows = "token"
                /\ hello[2] = PinProof(e) => knows = "pin"
          BY DEF Hellos, Hello, Garbled, Token, Guess, PinProof, Knowledge
        <4> QED
          BY <1>1, <3>1, <3>2, <3>3, <4>1 DEF FrameInv, HelloInv
      <3>4. CASE d # e
        BY <3>1, <3>4 DEF FrameInv
      <3> QED
        BY <3>3, <3>4
    <2> QED
      BY <2>1, <2>2, <2>3 DEF Connect, Seal, Sealed, Key, Out
  <1>6. ServedInv'
    <2>1. UNCHANGED <<pc, conn, file, before, served>>
      BY DEF Connect, sessionVars
    <2>2. served # e
      BY <1>1, NobodyAssumption DEF HoldersInv, ServedInv
    <2>3. served \in Epubs => app'[served] = app[served]
      BY <1>1, <2>2
    <2> QED
      BY <2>1, <2>2, <2>3, NobodyAssumption DEF HoldersInv, ServedInv, ServesHolder, Holds, Knows, HasSentKey
  <1> QED
    BY <1>2, <1>3, <1>4, <1>5, <1>6 DEF HoldersInv, WireInv

(* An app that has no key yet gives one only in answer to an OFFER made to *)
(* it, so it knows a credential.                                           *)
LEMMA ReadOfferKeeps ==
  ASSUME HoldersInv,
         NEW e \in Epubs, NEW f \in wire, NEW key, ReadOffer(e, f, key)
  PROVE  HoldersInv'
  <1>1. /\ app[e].step = "hello"
        /\ DOMAIN app' = Epubs
        /\ DOMAIN app'[e] = DOMAIN NewApp
        /\ app'[e].step = "enroll" /\ app'[e].key = key
        /\ app'[e].knows = app[e].knows
        /\ \A d \in Epubs \ {e} : app'[d] = app[d]
    BY DEF ReadOffer, HoldersInv, AppShape, NewApp
  <1>2. f.key = <<e, "s2c">> /\ f.body = Offer
    BY DEF ReadOffer, Answer, Opens, Key, In
  <1>3. Knows(e)
    BY <1>2 DEF HoldersInv, WireInv, FrameInv
  <1>4. AppShape' /\ ConnShape'
    BY <1>1 DEF HoldersInv, AppShape, ConnShape, ReadOffer, sessionVars
  <1>5. KeyInv'
    BY <1>1, <1>3 DEF HoldersInv, KeyInv, Knows, HasSentKey
  <1>6. ASSUME NEW d \in Epubs, NEW g \in wire' PROVE FrameInv(d, g)'
    <2>1. CASE g \in wire /\ d # e
      <3>1. FrameInv(d, g) /\ app'[d] = app[d]
        BY <1>1, <2>1 DEF HoldersInv, WireInv
      <3> QED
        BY <3>1 DEF FrameInv, HelloInv, Knows, HasSentKey
    <2>2. CASE g \in wire /\ d = e
      <3>1. FrameInv(e, g)
        BY <2>2 DEF HoldersInv, WireInv
      <3>2. ~HasSentKey(e)
        BY <1>1 DEF HasSentKey
      <3> QED
        BY <1>1, <1>3, <2>2, <3>1, <3>2 DEF FrameInv, HelloInv, Knows
    <2>3. CASE g = [key |-> <<e, "c2s">>, nonce |-> seq["app"][<<e, "c2s">>],
                    body |-> Enroll(key)]
      <3>1. g.key = <<e, "c2s">> /\ g.body[1] = "ENROLL" /\ g.body[2] = key
        BY <2>3 DEF Enroll
      <3> QED
        BY <1>1, <3>1 DEF FrameInv, HelloInv, HasSentKey
    <2> QED
      BY <2>1, <2>2, <2>3 DEF ReadOffer, Answer, Sealed, Key, Out
  <1>7. ServedInv'
    <2>1. UNCHANGED <<pc, conn, file, before, served>>
      BY DEF ReadOffer, sessionVars
    <2>2. CASE served = e
      <3>1. ~ServesHolder
        BY <1>1, <2>2 DEF ServesHolder, HasSentKey
      <3> QED
        BY <1>1, <2>1, <2>2, <3>1 DEF HoldersInv, ServedInv, Holds, Knows
    <2>3. CASE served # e
      <3>1. served \in Epubs => app'[served] = app[served]
        BY <1>1, <2>3
      <3> QED
        BY <2>1, <3>1, NobodyAssumption
        DEF HoldersInv, ServedInv, ServesHolder, Holds, Knows, HasSentKey
    <2> QED
      BY <2>2, <2>3
  <1> QED
    BY <1>4, <1>5, <1>6, <1>7 DEF HoldersInv, WireInv

LEMMA ReadDoneKeeps ==
  ASSUME HoldersInv, NEW e \in Epubs, NEW f \in wire, ReadDone(e, f)
  PROVE  HoldersInv'
  <1>1. /\ app[e].step \in {"hello", "enroll"}
        /\ DOMAIN app' = Epubs
        /\ DOMAIN app'[e] = DOMAIN NewApp
        /\ app'[e].step = "told" /\ app'[e].key = app[e].key
        /\ app'[e].knows = app[e].knows
        /\ \A d \in Epubs \ {e} : app'[d] = app[d]
    BY DEF ReadDone, HoldersInv, AppShape, NewApp
  <1>2. AppShape' /\ ConnShape'
    BY <1>1 DEF HoldersInv, AppShape, ConnShape, ReadDone, sessionVars
  <1>3. AppsKept
    BY <1>1 DEF AppsKept, HasSentKey, HoldersInv, AppShape
  <1>4. ServerFrames
    BY DEF ServerFrames, ReadDone, Open
  <1>5. ServedInv'
    <2>1. UNCHANGED <<pc, conn, file, before, served>>
      BY DEF ReadDone, sessionVars
    <2> QED
      BY <1>3, <2>1, NobodyAssumption
      DEF HoldersInv, ServedInv, ServesHolder, Holds, Knows, HasSentKey, AppsKept
  <1> QED
    BY <1>2, <1>3, <1>4, <1>5, KeptFrames DEF HoldersInv
-----------------------------------------------------------------------------
(* The server.                                                             *)

LEMMA ServerKeeps ==
  ASSUME HoldersInv, UNCHANGED appVars, ConnShape', ServedInv', ServerFrames
  PROVE  HoldersInv'
  BY KeptFrames, SameApps DEF appVars, HoldersInv

LEMMA SameFrames ==
  ASSUME UNCHANGED wire
  PROVE  ServerFrames
  BY DEF ServerFrames

(* At most a DONE was written.                                             *)
DoneFrame(message) ==
  wire' \subseteq wire \union {Sealed("server", <<served, "s2c">>, Done(message))}

LEMMA DoneFrames ==
  ASSUME served \in Epubs, NEW message, DoneFrame(message)
  PROVE  ServerFrames
  <1> DEFINE done == Sealed("server", <<served, "s2c">>, Done(message))
  <1>1. done.key = <<served, "s2c">> /\ done.body = Done(message)
    BY DEF Sealed, Key
  <1>2. done.body # Offer
    BY <1>1 DEF Done, Offer
  <1>3. \A f \in wire' : f \in wire \/ f = done
    BY DEF DoneFrame
  <1> QED
    BY <1>1, <1>2, <1>3 DEF ServerFrames

LEMMA SealsDone ==
  ASSUME NEW f, NEW message, OpenAndSendDone(f, message) \/ SendDone(message)
  PROVE  DoneFrame(message) /\ UNCHANGED derived
  <1>1. CASE OpenAndSendDone(f, message)
    BY <1>1 DEF OpenAndSendDone, Answer, DoneFrame, Out
  <1>2. CASE SendDone(message)
    BY <1>2 DEF SendDone, Seal, DoneFrame, Out
  <1> QED
    BY <1>1, <1>2

(* Done with a peer, its key not in the file.                              *)
LEMMA Ignored ==
  ASSUME HoldersInv, UNCHANGED appVars,
         pc \notin {"receipt", "ended"}, pc' \in {"poll", "accept", "ended"},
         file' = file, before' = before,
         conn' = conn \/ conn' = Session!NoConn
  PROVE  ConnShape' /\ ServedInv'
  BY DEF HoldersInv, appVars, ConnShape, ServedInv, Session!Proven, Session!KeyRead

LEMMA AcceptKeeps ==
  ASSUME HoldersInv, Accept
  PROVE  HoldersInv'
  <1>1. /\ pc = "accept" /\ pc' = "intro" /\ file' = file /\ before' = before
        /\ conn' = [Session!NoConn EXCEPT !.since = now,
                                 !.until = Session!PhaseDeadline(PreauthTimeout)]
    BY DEF Accept, Session!Accept
  <1>2. ServerFrames
    BY SameFrames DEF Accept, channelVars
  <1>3. ConnShape'
    BY <1>1 DEF ConnShape
  <1>4. AppsKept /\ AppShape'
    BY SameApps DEF Accept, HoldersInv
  <1>5. ServedInv'
    BY <1>1 DEF Accept, HoldersInv, ServedInv, Session!Proven, Session!KeyRead
  <1> QED
    BY <1>2, <1>3, <1>4, <1>5, KeptFrames DEF HoldersInv

LEMMA IntroKeeps ==
  ASSUME HoldersInv, NEW e \in Epubs, RecvIntro(e)
  PROVE  HoldersInv'
  <1>1. PICK mode \in Session!Modes : Session!RecvIntro(mode)
    BY DEF RecvIntro
  <1>2. /\ pc = "intro" /\ pc' = "hello" /\ file' = file /\ before' = before
        /\ conn' = [conn EXCEPT !.mode = mode, !.half = FALSE]
        /\ served' = e /\ app[e].step # "new"
        /\ UNCHANGED wire /\ UNCHANGED app
    BY <1>1 DEF RecvIntro, Session!RecvIntro, Session!FrameComplete, Derive
  <1>3. ConnShape'
    BY <1>2 DEF HoldersInv, ConnShape, Session!NoConn
  <1>4. AppsKept /\ AppShape'
    BY <1>2, SameApps DEF HoldersInv
  <1>5. ServedInv'
    BY <1>2 DEF HoldersInv, ServedInv, Session!Proven, Session!KeyRead
  <1> QED
    BY <1>2, <1>3, <1>4, <1>5, SameFrames, KeptFrames DEF HoldersInv

(* A good proof came from the app being served: its frame opened under the *)
(* key of its connection, and the proof was made for it.                   *)
LEMMA HelloKeeps ==
  ASSUME HoldersInv, NEW f \in wire, RecvHello(f)
  PROVE  HoldersInv'
  <1>1. served \in Epubs /\ f.body[1] = "HELLO" /\ UNCHANGED appVars
    BY DEF RecvHello, HoldersInv, ServedInv
  <1>2. CASE ProofIsGood(f.body[2]) /\ Session!RecvGoodProof /\ Open("server", served, f)
    <2>1. f.key = <<served, "c2s">>
      BY <1>2 DEF Open, Opens, Key, In
    <2>2. HelloInv(served, f)
      BY <1>1, <2>1 DEF HoldersInv, WireInv, FrameInv
    <2>3. /\ pc = "hello" /\ pc' = "offer" /\ file' = file /\ before' = before
          /\ conn' = [conn EXCEPT !.proven = TRUE, !.half = FALSE,
                                  !.until = Session!PhaseDeadline(PostauthTimeout)]
      BY <1>2 DEF Session!RecvGoodProof, Session!FrameComplete
    <2>4. DOMAIN conn' = DOMAIN conn /\ conn'.mode = conn.mode
      BY <2>3 DEF HoldersInv, ConnShape, Session!NoConn
    <2>6. Holds(served)
      BY <1>1, <1>2, <2>2 DEF ProofIsGood, HelloInv, Holds, Knows
    <2>7. ConnShape'
      BY <2>4 DEF HoldersInv, ConnShape
    <2>8. ServedInv'
      BY <1>1, <2>3, <2>4, <2>6
      DEF appVars, HoldersInv, ServedInv, Holds, Knows, Session!Proven, Session!KeyRead
    <2>9. UNCHANGED wire
      BY <1>2 DEF Open
    <2> QED
      BY <1>1, <2>7, <2>8, <2>9, ServerKeeps, SameFrames
  <1>3. CASE /\ Session!RecvBadToken \/ Session!RecvRetiredPin \/ Session!RecvWrongPin
             /\ \/ Open("server", served, f)
                \/ \E m \in {"pin retired", "wrong pin"} : OpenAndSendDone(f, m)
    <2>1. /\ pc = "hello" /\ pc' = "poll" /\ file' = file /\ before' = before
          /\ conn' = Session!NoConn
      BY <1>3 DEF Session!RecvBadToken, Session!RecvRetiredPin, Session!RecvWrongPin,
           Session!FrameComplete, Session!Ignore
    <2>2. ConnShape' /\ ServedInv'
      BY <1>1, <2>1, Ignored
    <2>3. CASE Open("server", served, f)
      BY <1>1, <2>2, <2>3, ServerKeeps, SameFrames DEF Open
    <2>4. ASSUME NEW m, OpenAndSendDone(f, m)
          PROVE  HoldersInv'
      <3>1. ServerFrames
        BY <1>1, <2>4, SealsDone, DoneFrames
      <3> QED
        BY <1>1, <2>2, <3>1, ServerKeeps
    <2> QED
      BY <1>3, <2>3, <2>4
  <1>4. CASE \/ Session!RecvRetiredPin /\ OpenAndSendDone(f, "pin retired")
             \/ Session!RecvWrongPin /\ OpenAndSendDone(f, "wrong pin")
             \/ Session!RecvBadToken /\ Open("server", served, f)
    BY <1>3, <1>4
  <1> QED
    <2> DEFINE good == ProofIsGood(f.body[2])
    <2>1. \/ good /\ Session!RecvGoodProof /\ Open("server", served, f)
          \/ ~good /\ Session!RecvBadToken /\ Open("server", served, f)
          \/ Session!RecvRetiredPin /\ OpenAndSendDone(f, "pin retired")
          \/ ~good /\ Session!RecvWrongPin /\ OpenAndSendDone(f, "wrong pin")
      BY DEF RecvHello
    <2> HIDE DEF good
    <2>2. CASE good /\ Session!RecvGoodProof /\ Open("server", served, f)
      BY <1>2, <2>2 DEF good
    <2> QED
      BY <1>4, <2>1, <2>2

LEMMA OfferKeeps ==
  ASSUME HoldersInv, SendOffer
  PROVE  HoldersInv'
  <1>1. pc = "offer" /\ file' = file /\ before' = before /\ UNCHANGED appVars
    BY DEF SendOffer, Session!SendOffer, Session!OfferNotSent, Session!Ignore
  <1>2. served \in Epubs /\ Knows(served)
    BY <1>1 DEF HoldersInv, ServedInv, Holds, Session!Proven
  <1>3. CASE Session!SendOffer /\ Seal("server", served, Offer, TRUE)
    <2>1. pc' = "enroll" /\ conn' = conn
      BY <1>3 DEF Session!SendOffer
    <2>2. ConnShape' /\ ServedInv'
      BY <1>1, <2>1
      DEF appVars, HoldersInv, ConnShape, ServedInv, ServesHolder, Holds, Knows, HasSentKey,
          Session!Proven, Session!KeyRead
    <2>3. ServerFrames
      BY <1>2, <1>3 DEF ServerFrames, Seal, Sealed, Key, Out
    <2> QED
      BY <1>1, <2>2, <2>3, ServerKeeps
  <1>4. CASE Session!OfferNotSent /\ Seal("server", served, Offer, FALSE)
    <2>1. pc' = "poll" /\ conn' = Session!NoConn
      BY <1>4 DEF Session!OfferNotSent, Session!Ignore
    <2>2. UNCHANGED wire
      BY <1>4 DEF Seal
    <2> QED
      BY <1>1, <2>1, <2>2, Ignored, SameFrames, ServerKeeps
  <1> QED
    BY <1>3, <1>4 DEF SendOffer

(* The key in an ENROLL that opens is the one that the app being served    *)
(* sent.                                                                   *)
LEMMA EnrollKeeps ==
  ASSUME HoldersInv, NEW f \in wire, RecvEnroll(f)
  PROVE  HoldersInv'
  <1> DEFINE key == f.body[2]
  <1>1. f.body[1] = "ENROLL" /\ UNCHANGED appVars
    BY DEF RecvEnroll
  <1>2. CASE Session!RecvEnroll(key) /\ Open("server", served, f)
    <2>1. /\ pc = "enroll" /\ pc' = "check" /\ file' = file /\ before' = before
          /\ conn' = [conn EXCEPT !.key = key, !.half = FALSE]
      BY <1>2 DEF Session!RecvEnroll, Session!FrameComplete
    <2>2. DOMAIN conn' = DOMAIN conn /\ conn'.key = key /\ conn'.mode = conn.mode
      BY <2>1 DEF HoldersInv, ConnShape, Session!NoConn
    <2>3. served \in Epubs /\ Holds(served)
      BY <2>1 DEF HoldersInv, ServedInv, Session!Proven
    <2>4. f.key = <<served, "c2s">>
      BY <1>2 DEF Open, Opens, Key, In
    <2>5. HasSentKey(served) /\ key = app[served].key
      BY <1>1, <2>3, <2>4 DEF HoldersInv, WireInv, FrameInv
    <2>6. ConnShape'
      BY <2>2 DEF HoldersInv, ConnShape
    <2>7. ServedInv'
      BY <1>1, <2>1, <2>2, <2>3, <2>5
      DEF appVars, HoldersInv, ServedInv, ServesHolder, Holds, Knows, HasSentKey
    <2> QED
      BY <1>1, <1>2, <2>6, <2>7, ServerKeeps, SameFrames DEF Open
  <1>3. ASSUME NEW m, Session!RecvBadKey(key), OpenAndSendDone(f, m)
        PROVE  HoldersInv'
    <2>1. /\ pc = "enroll" /\ pc' = "poll" /\ file' = file /\ before' = before
          /\ conn' = Session!NoConn
      BY <1>3 DEF Session!RecvBadKey, Session!FrameComplete, Session!Ignore
    <2>2. served \in Epubs
      BY <2>1 DEF HoldersInv, ServedInv, Session!Proven
    <2>3. ServerFrames
      BY <1>3, <2>2, SealsDone, DoneFrames
    <2> QED
      BY <1>1, <2>1, <2>3, Ignored, ServerKeeps
  <1> QED
    BY <1>2, <1>3 DEF RecvEnroll

LEMMA MalformedKeeps ==
  ASSUME HoldersInv, NEW f \in wire, RecvMalformed(f)
  PROVE  HoldersInv'
  <1>1. /\ pc \in Session!Reading /\ pc' = "poll" /\ file' = file /\ before' = before
        /\ conn' = Session!NoConn
    BY DEF RecvMalformed, Session!DropConnection, Session!Ignore
  <1>2. UNCHANGED wire /\ UNCHANGED appVars
    BY DEF RecvMalformed, Open
  <1> QED
    BY <1>1, <1>2, Ignored, SameFrames, ServerKeeps DEF Session!Reading

LEMMA AnsweredKeeps ==
  ASSUME HoldersInv, Answered
  PROVE  HoldersInv'
  <1>1. PICK m : SendDone(m)
    BY DEF Answered
  <1>2. pc \in {"check", "recheck", "prompt", "write", "receipt"}
    BY DEF Answered, Session!TooLate, Session!Decline, Session!EnsureLineFails,
           Session!SendReceipt
  <1>3. ServerFrames /\ UNCHANGED appVars
    <2>1. served \in Epubs
      BY <1>2 DEF HoldersInv, ServedInv, Session!Proven
    <2> QED
      BY <1>1, <2>1, SealsDone, DoneFrames DEF SendDone
  <1>4. CASE Session!TooLate \/ Session!EnsureLineFails \/ Session!Decline
    <2>1. /\ pc \notin {"receipt", "ended"} /\ pc' \in {"poll", "ended"}
          /\ file' = file /\ before' = before
          /\ conn' = conn \/ conn' = Session!NoConn
      BY <1>4 DEF Session!TooLate, Session!EnsureLineFails, Session!Decline,
           Session!Return, Session!Ignore
    <2> QED
      BY <1>3, <2>1, Ignored, ServerKeeps
  <1>5. CASE Session!SendReceipt
    <2>1. /\ pc = "receipt" /\ pc' = "ended" /\ file' = file /\ before' = before
          /\ conn' = conn
      BY <1>5 DEF Session!SendReceipt, Session!Return
    <2>2. ConnShape' /\ ServedInv'
      BY <1>3, <2>1
      DEF appVars, HoldersInv, ConnShape, ServedInv, ServesHolder, Holds, Knows, HasSentKey,
          Session!Proven, Session!KeyRead
    <2> QED
      BY <1>3, <2>2, ServerKeeps
  <1> QED
    BY <1>4, <1>5 DEF Answered

LEMMA SilentKeeps ==
  ASSUME HoldersInv, Silent
  PROVE  HoldersInv'
  <1>1. ServerFrames /\ UNCHANGED appVars
    BY SameFrames DEF Silent, channelVars
  <1> USE DEF appVars, HoldersInv, ConnShape, ServedInv, ServesHolder, Holds, Knows,
              HasSentKey, Session!Proven, Session!KeyRead
  <1>2. CASE Session!Tick \/ Session!Signal \/ Session!CheckBeforePrompt
    <2>1. UNCHANGED <<conn, file, before>>
      BY <1>2 DEF Session!Tick, Session!Signal, Session!CheckBeforePrompt
    <2>2. pc' = pc \/ (pc = "check" /\ pc' = "prompt")
      BY <1>2 DEF Session!Tick, Session!Signal, Session!CheckBeforePrompt
    <2> QED
      BY <1>1, <2>1, <2>2, ServerKeeps
  <1>3. CASE \/ Session!NoticeCancel \/ Session!NoticeExpiry \/ Session!PollAgain
             \/ Session!AcceptNone \/ Session!DropConnection \/ Session!ReadTimeout
    <2>1. /\ pc \notin {"receipt", "ended"} /\ pc' \in {"poll", "accept", "ended"}
          /\ file' = file /\ before' = before
          /\ conn' = conn \/ conn' = Session!NoConn
      BY <1>3 DEF Session!NoticeCancel, Session!NoticeExpiry, Session!PollAgain,
           Session!AcceptNone, Session!DropConnection, Session!ReadTimeout,
           Session!ReadDue, Session!Reading, Session!Return, Session!Ignore
    <2> QED
      BY <1>1, <2>1, Ignored, ServerKeeps
  <1>4. CASE Session!ReadLength \/ Session!Approve \/ Session!CheckAfterPrompt
    <2>1. DOMAIN conn' = DOMAIN conn /\ conn'.mode = conn.mode /\ conn'.key = conn.key
      BY <1>4 DEF Session!ReadLength, Session!Approve, Session!CheckAfterPrompt,
           Session!NoConn
    <2>2. UNCHANGED <<file, before>>
      BY <1>4 DEF Session!ReadLength, Session!Approve, Session!CheckAfterPrompt
    <2>3. \/ pc' = pc
          \/ pc = "prompt" /\ pc' = "recheck"
          \/ pc = "recheck" /\ pc' = "write"
      BY <1>4 DEF Session!ReadLength, Session!Approve, Session!CheckAfterPrompt
    <2> QED
      BY <1>1, <2>1, <2>2, <2>3, ServerKeeps
  <1>5. CASE Session!EnsureLine
    <2>1. /\ pc = "write" /\ pc' = "receipt" /\ UNCHANGED <<conn, before>>
      BY <1>5 DEF Session!EnsureLine
    <2> QED
      BY <1>1, <2>1, ServerKeeps
  <1> QED
    BY <1>2, <1>3, <1>4, <1>5 DEF Silent
-----------------------------------------------------------------------------
LEMMA HoldersInv_Next ==
  ASSUME HoldersInv, [Next]_vars
  PROVE  HoldersInv'
  <1>1. ASSUME NEW e \in Epubs, NEW knows \in Knowledge,
               NEW hello \in Hellos(e, knows), Connect(e, knows, hello)
        PROVE  HoldersInv'
    BY <1>1, ConnectKeeps
  <1>2. ASSUME NEW e \in Epubs, NEW f \in wire, NEW key, ReadOffer(e, f, key)
        PROVE  HoldersInv'
    BY <1>2, ReadOfferKeeps
  <1>3. ASSUME NEW e \in Epubs, NEW f \in wire, ReadDone(e, f)
        PROVE  HoldersInv'
    BY <1>3, ReadDoneKeeps
  <1>4. CASE Accept
    BY <1>4, AcceptKeeps
  <1>5. CASE \E e \in Epubs : RecvIntro(e)
    BY <1>5, IntroKeeps
  <1>6. ASSUME NEW f \in wire, RecvHello(f)
        PROVE  HoldersInv'
    BY <1>6, HelloKeeps
  <1>7. ASSUME NEW f \in wire, RecvEnroll(f)
        PROVE  HoldersInv'
    BY <1>7, EnrollKeeps
  <1>8. ASSUME NEW f \in wire, RecvMalformed(f)
        PROVE  HoldersInv'
    BY <1>8, MalformedKeeps
  <1>9. CASE SendOffer
    BY <1>9, OfferKeeps
  <1>10. CASE Answered
    BY <1>10, AnsweredKeeps
  <1>11. CASE Silent
    BY <1>11, SilentKeeps
  <1>12. CASE Terminated \/ UNCHANGED vars
    <2>1. UNCHANGED <<pc, conn, file, before>> /\ UNCHANGED wire /\ UNCHANGED appVars
      BY <1>12 DEF Terminated, Session!Terminated, Session!vars, vars, sessionVars,
           channelVars
    <2>2. ConnShape' /\ ServedInv'
      BY <2>1 DEF appVars, HoldersInv, ConnShape, ServedInv, ServesHolder, Holds, Knows,
           HasSentKey
    <2> QED
      BY <2>1, <2>2, ServerKeeps, SameFrames
  <1> QED
    BY <1>1, <1>2, <1>3, <1>4, <1>5, <1>6, <1>7, <1>8, <1>9, <1>10, <1>11, <1>12
    DEF Next

(* The host record and the file are for holders only, however often        *)
(* INTROs and frames are repeated: an app that gave a key knows a          *)
(* credential, and a key in the file is the one that a holder of the       *)
(* credential the connection's INTRO asked for sent (server.rs,            *)
(* serve_connection, the proof and ENROLL arms).                           *)
THEOREM HoldersOnlyHolds == Spec => []HoldersOnly
  <1>1. HoldersInv => HoldersOnly
    BY NobodyAssumption
    DEF HoldersInv, KeyInv, ServedInv, ServesHolder, Holds, Knows, HoldersOnly
  <1> QED
    BY <1>1, HoldersInv_Init, HoldersInv_Next, PTL DEF Spec
-----------------------------------------------------------------------------
(* ToldTheTruth: what a DONE says is true when it is sealed and stays true *)
(* while it is on its way and after it has been read.                      *)

Says(e, message) ==
  /\ derived[e] # "never" /\ app[e].step # "new"
  /\ message = "ok" =>
       /\ pc = "ended" /\ outcome = "Enrolled" /\ served = e
       /\ HasSentKey(e) /\ \E line \in file : line.key = app[e].key
  /\ message = "wrong pin" => app[e].knows # "pin"
  /\ message = "pin retired" => pinRetired
  /\ message = "unparseable" => HasSentKey(e) /\ app[e].key = Unparseable
  /\ message = "not ed25519" => HasSentKey(e) /\ app[e].key \in Keys \ Ed25519Keys
  /\ message = "offer expired" =>
       now >= Deadline /\ pc \in {"poll", "ended"} /\ file = before
  /\ message = "declined on the host" =>
       pc = "ended" /\ outcome = "Declined" /\ served = e
  /\ message = "could not write" /\ served = e /\ e \notin Repeated =>
       pc \in {"poll", "accept", "ended"} /\ file = before

DoneInv ==
  \A e \in Epubs :
    /\ \A f \in wire :
         f.key = <<e, "s2c">> /\ f.body[1] = "DONE" => Says(e, f.body[2])
    /\ app[e].told # "none" => Says(e, app[e].told)

(* Who knows the PIN proves it, the app being served has been named by an  *)
(* INTRO, and past EnsureLine the key is in the file.                      *)
PinInv ==
  \A e \in Epubs, f \in wire :
    f.key = <<e, "c2s">> /\ f.body[1] = "HELLO" /\ app[e].knows = "pin" =>
      f.body[2] = PinProof(e)

NamedInv ==
  /\ derived \in [Epubs -> {"never", "once", "again"}]
  /\ served \in Epubs => derived[served] # "never"
  /\ pc = "receipt" => \E line \in file : line.key = conn.key

ToldInv == HoldersInv /\ now \in Nat /\ DoneInv /\ PinInv /\ NamedInv

LEMMA ToldInv_Init == Init => ToldInv
  <1> SUFFICES ASSUME Init PROVE ToldInv
    OBVIOUS
  <1> USE DEF Init, ChannelInit, Session!Init, NewApp
  <1>1. DoneInv /\ PinInv
    BY DEF DoneInv, PinInv
  <1>2. NamedInv
    BY NobodyAssumption DEF NamedInv
  <1> QED
    BY <1>1, <1>2, HoldersInv_Init DEF ToldInv

(* What a step of the server may do to what has been said: time goes on, a *)
(* retired PIN stays retired, an ended session ended, and once the offer   *)
(* is over no peer is accepted any more.                                   *)
LEMMA ServerMoves ==
  ASSUME now \in Nat, [Next]_vars
  PROVE  /\ now' \in Nat /\ now <= now'
         /\ pinRetired => pinRetired'
         /\ pc = "ended" => UNCHANGED <<pc, outcome, file, before>>
         /\ pc = "poll" /\ now >= Deadline =>
              pc' \in {"poll", "ended"} /\ UNCHANGED <<file, before>>
         /\ pc \in {"poll", "accept"} =>
              pc' \in {"poll", "accept", "ended", "intro"} /\ UNCHANGED <<file, before>>
  <1>1. [Session!Next]_(Session!vars) /\ Deadline \in Nat
    BY SessionSteps, SessionAssumption
  <1> USE DEF Session!Ignore, Session!Return, Session!pins, Session!FrameComplete,
              Session!Reading, Session!ReadDue
  <1>2. CASE UNCHANGED Session!vars \/ Session!Terminated
    BY <1>1, <1>2 DEF Session!vars, Session!Terminated
  <1>3. CASE Session!Tick \/ Session!Signal
    BY <1>1, <1>3 DEF Session!Tick, Session!Signal
  <1>4. CASE Session!PeerStep
    <2>1. now' = now /\ pc # "poll" /\ pc # "ended" /\ (pc = "accept" => pc' = "intro")
      BY <1>4 DEF Session!PeerStep, Session!Accept, Session!ReadLength,
           Session!DropConnection, Session!RecvIntro, Session!RecvGoodProof,
           Session!RecvBadToken, Session!RecvRetiredPin, Session!RecvWrongPin,
           Session!RecvBadKey, Session!RecvEnroll
    <2>2. (Session!RecvWrongPin \/ UNCHANGED pinRetired) /\ UNCHANGED <<file, before>>
      BY <1>4 DEF Session!PeerStep, Session!Accept, Session!ReadLength,
           Session!DropConnection, Session!RecvIntro, Session!RecvGoodProof,
           Session!RecvBadToken, Session!RecvRetiredPin, Session!RecvWrongPin,
           Session!RecvBadKey, Session!RecvEnroll
    <2>3. Session!RecvWrongPin => (pinRetired => pinRetired')
      BY Zenon DEF Session!RecvWrongPin, Session!CountPinFailure
    <2> QED
      BY <1>1, <2>1, <2>2, <2>3
  <1>5. CASE Session!ServerStep \/ Session!Operator
    <2> USE DEF Session!ServerStep, Session!Operator, Session!NoticeCancel,
           Session!NoticeExpiry, Session!PollAgain, Session!AcceptNone,
           Session!ReadTimeout, Session!SendOffer, Session!OfferNotSent,
           Session!TooLate, Session!CheckBeforePrompt, Session!CheckAfterPrompt,
           Session!EnsureLine, Session!EnsureLineFails, Session!SendReceipt,
           Session!Approve, Session!Decline
    <2>1. now' = now /\ pc # "ended" /\ pinRetired' = pinRetired
      BY <1>5
    <2>2. pc = "poll" /\ now >= Deadline => pc' = "ended" /\ UNCHANGED <<file, before>>
      BY <1>1, <1>5
    <2>3. pc \in {"poll", "accept"} =>
            pc' \in {"poll", "accept", "ended"} /\ UNCHANGED <<file, before>>
      BY <1>5
    <2> QED
      BY <2>1, <2>2, <2>3
  <1> QED
    BY <1>1, <1>2, <1>3, <1>4, <1>5 DEF Session!Next

(* An app keeps what it is, and a key it has sent; one that an INTRO names *)
(* for a second time is Repeated, and stays so.                            *)
AppsMove ==
  /\ \A e \in Epubs :
       /\ app[e].step # "new" =>
            app'[e].step # "new" /\ app'[e].knows = app[e].knows
       /\ HasSentKey(e) => HasSentKey(e)' /\ app'[e].key = app[e].key
       /\ derived[e] # "never" => derived'[e] # "never"
       /\ e \in Repeated => e \in Repeated'
  /\ derived' \in [Epubs -> {"never", "once", "again"}]
  /\ \/ served' = served
     \/ pc = "accept" /\ served' = Nobody
     \/ /\ pc = "intro" /\ served' \in Epubs /\ derived'[served'] # "never"
        /\ derived[served'] # "never" => served' \in Repeated'

LEMMA AppSteps ==
  ASSUME HoldersInv, NamedInv, [Next]_vars
  PROVE  AppsMove
  <1>1. DOMAIN app = Epubs /\ \A e \in Epubs : DOMAIN app[e] = DOMAIN NewApp
    BY DEF HoldersInv, AppShape
  <1>2. CASE UNCHANGED appVars /\ UNCHANGED derived
    BY <1>2 DEF AppsMove, NamedInv, Repeated, appVars, HasSentKey
  <1>3. ASSUME NEW e \in Epubs, NEW knows, NEW hello, Connect(e, knows, hello)
        PROVE  AppsMove
    <2>1. /\ app[e].step = "new" /\ app'[e].step = "hello"
          /\ served' = served /\ \A d \in Epubs \ {e} : app'[d] = app[d]
          /\ derived' = derived
      BY <1>1, <1>3 DEF Connect, NewApp, Seal
    <2> QED
      BY <2>1 DEF AppsMove, NamedInv, Repeated, HasSentKey
  <1>4. ASSUME NEW e \in Epubs, NEW f, NEW key, ReadOffer(e, f, key)
        PROVE  AppsMove
    <2>1. /\ app[e].step = "hello" /\ app'[e].step = "enroll"
          /\ app'[e].knows = app[e].knows
          /\ served' = served /\ \A d \in Epubs \ {e} : app'[d] = app[d]
          /\ derived' = derived
      BY <1>1, <1>4 DEF ReadOffer, NewApp, Answer
    <2> QED
      BY <2>1 DEF AppsMove, NamedInv, Repeated, HasSentKey
  <1>5. ASSUME NEW e \in Epubs, NEW f, ReadDone(e, f)
        PROVE  AppsMove
    <2>1. /\ app'[e].step = "told"
          /\ app'[e].knows = app[e].knows
          /\ app'[e].key = app[e].key
          /\ served' = served /\ \A d \in Epubs \ {e} : app'[d] = app[d]
          /\ derived' = derived
      BY <1>1, <1>5 DEF ReadDone, NewApp, Open
    <2> QED
      BY <2>1 DEF AppsMove, NamedInv, Repeated, HasSentKey
  <1>6. ASSUME NEW e \in Epubs, RecvIntro(e)
        PROVE  AppsMove
    <2>1. /\ derived' = [derived EXCEPT ![e] = IF @ = "never" THEN "once" ELSE "again"]
          /\ pc = "intro" /\ served' = e /\ app' = app
      BY <1>6 DEF RecvIntro, Derive, Session!RecvIntro, Session!FrameComplete
    <2>2. /\ derived' \in [Epubs -> {"never", "once", "again"}]
          /\ derived'[e] # "never" /\ (derived[e] # "never" => derived'[e] = "again")
          /\ \A d \in Epubs \ {e} : derived'[d] = derived[d]
      BY <2>1 DEF NamedInv
    <2> QED
      BY <2>1, <2>2 DEF AppsMove, Repeated, HasSentKey
  <1>7. CASE Accept
    BY <1>7 DEF Accept, channelVars, Session!Accept, AppsMove, NamedInv, Repeated, HasSentKey
  <1>8. CASE \/ UNCHANGED vars \/ SendOffer \/ Answered \/ Silent \/ Terminated
             \/ \E f \in wire : RecvHello(f) \/ RecvEnroll(f) \/ RecvMalformed(f)
    <2>1. UNCHANGED appVars
      BY <1>8 DEF vars, SendOffer, Answered, SendDone, Silent, Terminated,
                  RecvHello, RecvEnroll, RecvMalformed
    <2>2. UNCHANGED derived
      BY <1>8 DEF vars, channelVars, SendOffer, Answered, SendDone, Silent, Terminated,
                  RecvHello, RecvEnroll, RecvMalformed, OpenAndSendDone, Seal, Open, Answer
    <2> QED
      BY <1>2, <2>1, <2>2
  <1> QED
    BY <1>3, <1>4, <1>5, <1>6, <1>7, <1>8 DEF Next

LEMMA SaysKept ==
  ASSUME ToldInv, [Next]_vars, NEW e \in Epubs, NEW message, Says(e, message)
  PROVE  Says(e, message)'
  <1>1. AppsMove
    BY AppSteps DEF ToldInv
  <1>2. now \in Nat /\ Deadline \in Nat
    BY SessionAssumption DEF ToldInv
  <1>3. /\ derived'[e] # "never" /\ app'[e].step # "new"
        /\ app'[e].knows = app[e].knows
        /\ HasSentKey(e) => HasSentKey(e)' /\ app'[e].key = app[e].key
    BY <1>1 DEF Says, AppsMove
  <1>4. served' = e /\ e \notin Repeated' => served = e /\ e \notin Repeated
    BY <1>1, NobodyAssumption DEF Says, AppsMove
  <1>5. pc = "ended" => UNCHANGED <<pc, outcome, file, before, served>>
    BY <1>1, <1>2, ServerMoves DEF AppsMove
  <1>6. message \in {"ok", "declined on the host"} => Says(e, message)'
    BY <1>3, <1>5 DEF Says
  <1>7. message \in {"wrong pin", "pin retired", "unparseable", "not ed25519"} =>
          Says(e, message)'
    BY <1>2, <1>3, ServerMoves DEF Says
  <1>8. message = "offer expired" => Says(e, message)'
    <2>1. now >= Deadline => now' >= Deadline
      <3>1. now' \in Nat /\ now <= now'
        BY <1>2, ServerMoves
      <3> QED
        BY <1>2, <3>1
    <2>2. now >= Deadline /\ pc \in {"poll", "ended"} /\ file = before =>
            pc' \in {"poll", "ended"} /\ file' = before'
      BY <1>2, <1>5, ServerMoves
    <2> QED
      BY <1>3, <2>1, <2>2 DEF Says
  <1>9. message = "could not write" => Says(e, message)'
    <2> SUFFICES ASSUME message = "could not write", served' = e, e \notin Repeated'
                 PROVE  pc' \in {"poll", "accept", "ended"} /\ file' = before'
      BY <1>3 DEF Says
    <2>1. served = e /\ pc \in {"poll", "accept", "ended"} /\ file = before
      BY <1>4 DEF Says
    <2>2. file' = before' /\ pc' \in {"poll", "accept", "ended", "intro"}
      BY <1>2, <1>5, <2>1, ServerMoves
    <2>3. pc' # "intro"
      <3> SUFFICES ASSUME pc' = "intro" PROVE FALSE
        OBVIOUS
      <3>1. pc # pc' /\ pc # "ended"
        BY <1>5, <2>1
      <3>2. Accept
        BY <2>1, <3>1
        DEF Next, vars, sessionVars, Connect, ReadOffer, ReadDone, RecvIntro, RecvHello,
            RecvEnroll, RecvMalformed, SendOffer, Answered, Silent, Terminated,
            Session!RecvIntro, Session!RecvGoodProof, Session!RecvBadToken,
            Session!RecvRetiredPin, Session!RecvWrongPin, Session!RecvEnroll,
            Session!RecvBadKey, Session!DropConnection, Session!SendOffer,
            Session!OfferNotSent, Session!TooLate, Session!Decline,
            Session!EnsureLineFails, Session!SendReceipt, Session!Tick, Session!Signal,
            Session!NoticeCancel, Session!NoticeExpiry, Session!PollAgain,
            Session!AcceptNone, Session!ReadLength, Session!ReadTimeout,
            Session!CheckBeforePrompt, Session!Approve, Session!CheckAfterPrompt,
            Session!EnsureLine, Session!Terminated, Session!vars, Session!Ignore,
            Session!Return, Session!FrameComplete, Session!ReadDue, Session!Reading
      <3> QED
        BY <3>2, NobodyAssumption DEF Accept
    <2> QED
      BY <2>2, <2>3
  <1> QED
    BY <1>3, <1>6, <1>7, <1>8, <1>9 DEF Says

(* A DONE may be sealed only for the app being served, and only a true one.*)
TrueFrames ==
  \A f \in wire' \ wire :
    \/ f.key[2] = "c2s"
    \/ f.body[1] # "DONE"
    \/ \E message :
         /\ served \in Epubs /\ served' = served /\ f.key = <<served, "s2c">>
         /\ f.body = Done(message) /\ Says(served, message)'

(* Who has been told, has been told by a frame on the wire.                *)
ToldByFrame ==
  \A e \in Epubs :
    \/ app'[e].told = app[e].told
    \/ \E f \in wire :
         f.key = <<e, "s2c">> /\ f.body[1] = "DONE" /\ app'[e].told = f.body[2]

LEMMA DoneKept ==
  ASSUME ToldInv, [Next]_vars, TrueFrames, ToldByFrame
  PROVE  DoneInv'
  <1>1. \A e \in Epubs : \A message : Says(e, message) => Says(e, message)'
    BY SaysKept
  <1>2. ASSUME NEW e \in Epubs, NEW f \in wire', f.key = <<e, "s2c">>, f.body[1] = "DONE"
        PROVE  Says(e, f.body[2])'
    <2>1. CASE f \in wire
      <3>1. Says(e, f.body[2])
        BY <1>2, <2>1 DEF ToldInv, DoneInv
      <3> QED
        BY <1>1, <3>1 DEF Says
    <2>2. CASE f \notin wire
      <3>1. f.key[2] = "s2c"
        BY <1>2
      <3>2. PICK message :
              /\ served \in Epubs /\ served' = served /\ f.key = <<served, "s2c">>
              /\ f.body = Done(message) /\ Says(served, message)'
        BY <1>2, <2>2, <3>1 DEF TrueFrames
      <3>3. e = served /\ f.body[2] = message
        BY <1>2, <3>2 DEF Done
      <3> QED
        BY <3>2, <3>3 DEF Says
    <2> QED
      BY <2>1, <2>2
  <1>3. ASSUME NEW e \in Epubs, NEW told, told = app'[e].told, told # "none"
        PROVE  Says(e, told)'
    <2>1. Says(e, told)
      BY <1>3 DEF ToldInv, DoneInv, ToldByFrame
    <2> QED
      BY <1>1, <2>1 DEF Says
  <1>4. \A e \in Epubs, f \in wire' :
          f.key = <<e, "s2c">> /\ f.body[1] = "DONE" => Says(e, f.body[2])'
    BY <1>2
  <1>5. \A e \in Epubs : app'[e].told # "none" => Says(e, app[e].told)'
    BY <1>3 DEF Says
  <1> QED
    BY <1>4, <1>5 DEF DoneInv

LEMMA SameTold ==
  ASSUME UNCHANGED app
  PROVE  ToldByFrame
  BY DEF ToldByFrame

(* The app being served is there to be told something.                     *)
LEMMA ServedApp ==
  ASSUME ToldInv, pc \in Session!Proven \union {"hello"}
  PROVE  /\ served \in Epubs /\ derived[served] # "never" /\ app[served].step # "new"
  BY NobodyAssumption DEF ToldInv, HoldersInv, ServedInv, NamedInv

LEMMA TrueDone ==
  ASSUME NEW message, Says(served, message)', DoneFrame(message),
         served \in Epubs, UNCHANGED appVars
  PROVE  TrueFrames
  <1> DEFINE done == Sealed("server", <<served, "s2c">>, Done(message))
  <1>1. done.key = <<served, "s2c">> /\ done.body = Done(message)
    BY DEF Sealed, Key
  <1>2. \A f \in wire' \ wire : f = done
    BY DEF DoneFrame
  <1> QED
    BY <1>1, <1>2 DEF TrueFrames, appVars

(* A refused HELLO: the PIN was not its to prove, or was retired.          *)
LEMMA HelloIsTrue ==
  ASSUME ToldInv, NEW f \in wire, RecvHello(f)
  PROVE  TrueFrames
  <1>1. UNCHANGED appVars /\ f.body[1] = "HELLO"
    BY DEF RecvHello
  <1>2. CASE Open("server", served, f)
    BY <1>2 DEF Open, TrueFrames
  <1>3. CASE Session!RecvRetiredPin /\ OpenAndSendDone(f, "pin retired")
    <2>1. pc = "hello" /\ conn.mode = "pin" /\ pinRetired /\ pinRetired'
      BY <1>3 DEF Session!RecvRetiredPin, Session!FrameComplete, Session!pins
    <2>2. Says(served, "pin retired")'
      BY <1>1, <2>1, ServedApp, <1>3, SealsDone DEF Says, appVars
    <2> QED
      BY <1>1, <1>3, <2>1, <2>2, ServedApp, SealsDone, TrueDone
  <1>4. CASE /\ ~ProofIsGood(f.body[2])
             /\ Session!RecvWrongPin /\ OpenAndSendDone(f, "wrong pin")
    <2>1. pc = "hello" /\ conn.mode = "pin"
      BY <1>4 DEF Session!RecvWrongPin, Session!FrameComplete
    <2>2. f.key = <<served, "c2s">>
      BY <1>4 DEF OpenAndSendDone, Answer, Opens, Key, In
    <2>3. app[served].knows # "pin"
      BY <1>1, <1>4, <2>1, <2>2, ServedApp DEF ToldInv, PinInv, ProofIsGood
    <2>4. Says(served, "wrong pin")'
      BY <1>1, <2>1, <2>3, ServedApp, <1>4, SealsDone DEF Says, appVars
    <2> QED
      BY <1>1, <1>4, <2>1, <2>4, ServedApp, SealsDone, TrueDone
  <1> QED
    <2> DEFINE good == ProofIsGood(f.body[2])
    <2>1. \/ Open("server", served, f)
          \/ Session!RecvRetiredPin /\ OpenAndSendDone(f, "pin retired")
          \/ ~good /\ Session!RecvWrongPin /\ OpenAndSendDone(f, "wrong pin")
      BY DEF RecvHello
    <2> HIDE DEF good
    <2>2. CASE ~good /\ Session!RecvWrongPin /\ OpenAndSendDone(f, "wrong pin")
      BY <1>4, <2>2 DEF good
    <2> QED
      BY <1>2, <1>3, <2>1, <2>2

(* A refused key is the one the app sent.                                  *)
LEMMA EnrollIsTrue ==
  ASSUME ToldInv, NEW f \in wire, RecvEnroll(f)
  PROVE  TrueFrames
  <1> DEFINE key == f.body[2]
             message == IF key = Unparseable THEN "unparseable" ELSE "not ed25519"
  <1>1. UNCHANGED appVars /\ f.body[1] = "ENROLL"
    BY DEF RecvEnroll
  <1>2. CASE Open("server", served, f)
    BY <1>2 DEF Open, TrueFrames
  <1>3. CASE Session!RecvBadKey(key) /\ OpenAndSendDone(f, message)
    <2>1. pc = "enroll" /\ (key = Unparseable \/ key \in Keys \ Ed25519Keys)
      BY <1>3 DEF Session!RecvBadKey, Session!FrameComplete
    <2>2. f.key = <<served, "c2s">>
      BY <1>3 DEF OpenAndSendDone, Answer, Opens, Key, In
    <2>3. /\ served \in Epubs /\ derived[served] # "never" /\ app[served].step # "new"
      BY <2>1, ServedApp DEF Session!Proven
    <2>4. HasSentKey(served) /\ key = app[served].key
      BY <1>1, <2>2, <2>3 DEF ToldInv, HoldersInv, WireInv, FrameInv
    <2>5. Says(served, message)'
      BY <1>1, <2>1, <2>3, <2>4, <1>3, SealsDone DEF Says, appVars, HasSentKey
    <2> HIDE DEF message
    <2> QED
      BY <1>1, <1>3, <2>3, <2>5, SealsDone, TrueDone
  <1> QED
    BY <1>2, <1>3 DEF RecvEnroll

LEMMA AnswersAreTrue ==
  ASSUME ToldInv, Answered
  PROVE  TrueFrames
  <1>1. UNCHANGED appVars
    BY DEF Answered, SendDone
  <1>2. /\ pc \in {"check", "recheck", "prompt", "write", "receipt"}
        /\ served \in Epubs /\ derived[served] # "never" /\ app[served].step # "new"
    <2>1. pc \in {"check", "recheck", "prompt", "write", "receipt"}
      BY DEF Answered, Session!TooLate, Session!Decline, Session!EnsureLineFails,
             Session!SendReceipt
    <2> QED
      BY <2>1, ServedApp DEF Session!Proven
  <1>3. CASE Session!TooLate /\ SendDone("offer expired")
    <2>1. /\ now >= Deadline /\ now' = now
          /\ pc' = "poll" /\ pc # "receipt" /\ UNCHANGED <<file, before>>
      BY <1>3 DEF Session!TooLate, Session!Ignore
    <2>2. file = before
      BY <1>2, <2>1 DEF ToldInv, HoldersInv, ServedInv
    <2>3. Says(served, "offer expired")'
      BY <1>1, <1>2, <2>1, <2>2, <1>3, SealsDone DEF Says, appVars
    <2> QED
      BY <1>1, <1>2, <1>3, <2>3, SealsDone, TrueDone
  <1>4. CASE Session!Decline /\ SendDone("declined on the host")
    <2>1. pc' = "ended" /\ outcome' = "Declined"
      BY <1>4 DEF Session!Decline, Session!Return
    <2>2. Says(served, "declined on the host")'
      BY <1>1, <1>2, <2>1, <1>4, SealsDone DEF Says, appVars
    <2> QED
      BY <1>1, <1>2, <1>4, <2>2, SealsDone, TrueDone
  <1>5. CASE Session!EnsureLineFails /\ SendDone("could not write")
    <2>1. pc = "write" /\ pc' = "poll" /\ UNCHANGED <<file, before>>
      BY <1>5 DEF Session!EnsureLineFails, Session!Ignore
    <2>2. file = before
      BY <2>1 DEF ToldInv, HoldersInv, ServedInv
    <2>3. Says(served, "could not write")'
      BY <1>1, <1>2, <2>1, <2>2, <1>5, SealsDone DEF Says, appVars
    <2> QED
      BY <1>1, <1>2, <1>5, <2>3, SealsDone, TrueDone
  <1>6. CASE Session!SendReceipt /\ SendDone("ok")
    <2>1. pc = "receipt" /\ pc' = "ended" /\ outcome' = "Enrolled" /\ file' = file
      BY <1>6 DEF Session!SendReceipt, Session!Return
    <2>2. HasSentKey(served) /\ \E line \in file : line.key = app[served].key
      BY <2>1 DEF ToldInv, NamedInv, HoldersInv, ServedInv, ServesHolder, Session!KeyRead
    <2>3. Says(served, "ok")'
      BY <1>1, <1>2, <2>1, <2>2, <1>6, SealsDone DEF Says, appVars, HasSentKey
    <2> QED
      BY <1>1, <1>2, <1>6, <2>3, SealsDone, TrueDone
  <1> QED
    BY <1>3, <1>4, <1>5, <1>6 DEF Answered

LEMMA DoneInv_Next ==
  ASSUME ToldInv, [Next]_vars
  PROVE  DoneInv'
  <1> SUFFICES TrueFrames /\ ToldByFrame
    BY DoneKept
  <1>1. ASSUME NEW e \in Epubs, NEW knows \in Knowledge,
               NEW hello \in Hellos(e, knows), Connect(e, knows, hello)
        PROVE  TrueFrames /\ ToldByFrame
    <2>1. TrueFrames
      BY <1>1 DEF TrueFrames, Connect, Seal, Sealed, Key, Out
    <2>2. ToldByFrame
      BY <1>1 DEF ToldByFrame, Connect, ToldInv, HoldersInv, AppShape, NewApp
    <2> QED
      BY <2>1, <2>2
  <1>2. ASSUME NEW e \in Epubs, NEW f \in wire, NEW key, ReadOffer(e, f, key)
        PROVE  TrueFrames /\ ToldByFrame
    <2>1. TrueFrames
      BY <1>2 DEF TrueFrames, ReadOffer, Answer, Sealed, Key, Out
    <2>2. ToldByFrame
      BY <1>2 DEF ToldByFrame, ReadOffer, ToldInv, HoldersInv, AppShape, NewApp
    <2> QED
      BY <2>1, <2>2
  <1>3. ASSUME NEW e \in Epubs, NEW f \in wire, ReadDone(e, f)
        PROVE  TrueFrames /\ ToldByFrame
    <2>1. TrueFrames
      BY <1>3 DEF TrueFrames, ReadDone, Open
    <2>2. /\ f.key = <<e, "s2c">> /\ f.body[1] = "DONE" /\ app'[e].told = f.body[2]
          /\ \A d \in Epubs \ {e} : app'[d] = app[d]
      BY <1>3 DEF ReadDone, Open, Opens, Key, In, ToldInv, HoldersInv, AppShape, NewApp
    <2>3. ToldByFrame
      BY <2>2 DEF ToldByFrame
    <2> QED
      BY <2>1, <2>3
  <1>4. ASSUME NEW e \in Epubs, RecvIntro(e)
        PROVE  TrueFrames /\ ToldByFrame
    BY <1>4, SameTold DEF RecvIntro, Derive, TrueFrames
  <1>5. CASE \/ UNCHANGED vars \/ Accept \/ SendOffer \/ Silent \/ Terminated
             \/ \E f \in wire : RecvMalformed(f)
    <2>1. UNCHANGED app
      BY <1>5 DEF vars, appVars, Accept, SendOffer, Silent, Terminated,
                  RecvMalformed
    <2>2. \A f \in wire' \ wire : f.body = Offer
      BY <1>5 DEF vars, channelVars, Accept, SendOffer, Silent, Terminated,
                  RecvMalformed, Seal, Sealed, Open
    <2>3. TrueFrames
      BY <2>2 DEF TrueFrames, Offer
    <2> QED
      BY <2>1, <2>3, SameTold
  <1>6. ASSUME NEW f \in wire, RecvHello(f) \/ RecvEnroll(f)
        PROVE  TrueFrames /\ ToldByFrame
    <2>1. TrueFrames
      BY <1>6, HelloIsTrue, EnrollIsTrue
    <2>2. UNCHANGED app
      BY <1>6 DEF RecvHello, RecvEnroll, appVars
    <2> QED
      BY <2>1, <2>2, SameTold
  <1>7. CASE Answered
    <2>1. UNCHANGED app
      BY <1>7 DEF Answered, SendDone, appVars
    <2> QED
      BY <1>7, <2>1, AnswersAreTrue, SameTold
  <1> QED
    BY <1>1, <1>2, <1>3, <1>4, <1>5, <1>6, <1>7 DEF Next

LEMMA PinInv_Next ==
  ASSUME ToldInv, [Next]_vars
  PROVE  PinInv'
  <1>1. ASSUME NEW e \in Epubs, NEW f \in wire,
               f.key = <<e, "c2s">>, f.body[1] = "HELLO", app'[e].knows = "pin"
        PROVE  f.body[2] = PinProof(e)
    <2>1. app[e].step # "new"
      BY <1>1 DEF ToldInv, HoldersInv, WireInv, FrameInv
    <2>2. app'[e].knows = app[e].knows
      BY <2>1, AppSteps DEF ToldInv, AppsMove
    <2> QED
      BY <1>1, <2>2 DEF ToldInv, PinInv
  <1>2. CASE \A f \in wire' \ wire : f.key[2] = "s2c" \/ f.body[1] # "HELLO"
    BY <1>1, <1>2 DEF PinInv
  <1>3. ASSUME NEW e \in Epubs, NEW knows \in Knowledge,
               NEW hello \in Hellos(e, knows), Connect(e, knows, hello)
        PROVE  PinInv'
    <2>1. app'[e].knows = knows
      BY <1>3 DEF Connect, ToldInv, HoldersInv, AppShape, NewApp
    <2>2. hello[1] = "HELLO" /\ knows = "pin" => hello[2] = PinProof(e)
      BY DEF Hellos, Hello
    <2>3. \A f \in wire' \ wire : f.key = <<e, "c2s">> /\ f.body = hello
      BY <1>3 DEF Connect, Seal, Sealed, Key, Out
    <2>4. \A d \in Epubs, f \in wire' \ wire :
            f.key = <<d, "c2s">> /\ f.body[1] = "HELLO" /\ app'[d].knows = "pin" =>
              f.body[2] = PinProof(d)
      BY <2>1, <2>2, <2>3
    <2> QED
      BY <1>1, <2>4 DEF PinInv
  <1>4. ASSUME NEW e \in Epubs, NEW f \in wire, NEW key, ReadOffer(e, f, key)
        PROVE  PinInv'
    BY <1>2, <1>4 DEF ReadOffer, Answer, Sealed, Enroll
  <1>5. CASE \/ UNCHANGED vars \/ Accept \/ Silent \/ Terminated
             \/ (\E e \in Epubs : RecvIntro(e))
             \/ (\E e \in Epubs, f \in wire : ReadDone(e, f))
             \/ (\E f \in wire : RecvMalformed(f))
    <2>1. wire' = wire
      BY <1>5 DEF vars, channelVars, Accept, RecvIntro, Derive, Silent, Terminated,
                  ReadDone, RecvMalformed, Open
    <2> QED
      BY <1>2, <2>1
  <1>6. CASE SendOffer
    BY <1>2, <1>6 DEF SendOffer, Seal, Sealed, Offer
  <1>7. CASE Answered \/ \E f \in wire : RecvHello(f) \/ RecvEnroll(f)
    <2>1. wire' = wire \/ \E message : DoneFrame(message)
      BY <1>7, SealsDone DEF Answered, RecvHello, RecvEnroll, Open
    <2>2. \A message : Sealed("server", <<served, "s2c">>, Done(message)).body[1] = "DONE"
      BY DEF Sealed, Done
    <2> QED
      BY <1>2, <2>1, <2>2 DEF DoneFrame
  <1> QED
    BY <1>3, <1>4, <1>5, <1>6, <1>7 DEF Next

LEMMA NamedInv_Next ==
  ASSUME ToldInv, [Next]_vars
  PROVE  NamedInv'
  <1>1. /\ derived' \in [Epubs -> {"never", "once", "again"}]
        /\ served' \in Epubs => derived'[served'] # "never"
    BY AppSteps, NobodyAssumption DEF ToldInv, NamedInv, AppsMove
  <1>2. pc' = "receipt" => \E line \in file' : line.key = conn'.key
    <2>1. [Session!Next]_(Session!vars)
      BY SessionSteps
    <2>2. CASE Session!EnsureLine
      <3>1. [key |-> conn.key, comment |-> Session!Marker].key = conn.key
        OBVIOUS
      <3> QED
        BY <2>2, <3>1 DEF Session!EnsureLine
    <2>3. CASE \/ UNCHANGED Session!vars \/ Session!Terminated
               \/ Session!Tick \/ Session!Signal
      BY <2>3 DEF Session!vars, Session!Terminated, Session!Tick, Session!Signal,
                  ToldInv, NamedInv
    <2>4. CASE ~Session!EnsureLine /\ Session!ServerStep
      BY <2>4 DEF Session!ServerStep, Session!NoticeCancel,
           Session!NoticeExpiry, Session!PollAgain, Session!AcceptNone,
           Session!ReadTimeout, Session!SendOffer, Session!OfferNotSent,
           Session!TooLate, Session!CheckBeforePrompt, Session!CheckAfterPrompt,
           Session!EnsureLineFails, Session!SendReceipt, Session!Ignore, Session!Return
    <2>5. CASE Session!PeerStep \/ Session!Operator
      BY <2>5 DEF Session!PeerStep, Session!Accept, Session!ReadLength,
           Session!DropConnection, Session!RecvIntro, Session!RecvGoodProof,
           Session!RecvBadToken, Session!RecvRetiredPin, Session!RecvWrongPin,
           Session!RecvBadKey, Session!RecvEnroll, Session!Operator, Session!Approve,
           Session!Decline, Session!Ignore, Session!Return, Session!Reading
    <2> QED
      BY <2>1, <2>2, <2>3, <2>4, <2>5 DEF Session!Next
  <1> QED
    BY <1>1, <1>2 DEF NamedInv

LEMMA ToldInv_Next ==
  ASSUME ToldInv, [Next]_vars
  PROVE  ToldInv'
  BY HoldersInv_Next, ServerMoves, DoneInv_Next, PinInv_Next, NamedInv_Next DEF ToldInv

(* No app is told anything that is not true of it, now or ever after:      *)
(* "ok" reaches one app, whose key is in the file (server.rs, exchange).   *)
THEOREM ToldTheTruthHolds == Spec => []ToldTheTruth
  <1>1. ToldInv => ToldTheTruth
    BY DEF ToldInv, DoneInv, Says, ToldTheTruth
  <1> QED
    BY <1>1, ToldInv_Init, ToldInv_Next, PTL DEF Spec
=============================================================================
