------------------------------- MODULE Handshake -------------------------------
(***************************************************************************)
(* The bind exchange between its two ends: the server of BindSession, with *)
(* what its frames say and who they are from, over the SealedChannel, and  *)
(* the apps at the other end of the connections.                           *)
(*                                                                         *)
(* An app is what the repository's own clients are: the test client of     *)
(* src/src/server.rs and src/examples/gen_vectors.rs.  It knows the QR's   *)
(* token, or the PIN, or neither, in which case it guesses or hands on the *)
(* PIN proof of another app.  A TCP connection is anyone's: its INTRO is   *)
(* cleartext, and may name the ephemeral key of any app that has sent one  *)
(* and any mode, as often as the network pleases; behind it come frames of *)
(* the wire, or none.                                                      *)
(***************************************************************************)
EXTENDS SealedChannel, FiniteSets

CONSTANTS
  Keys, Ed25519Keys, Unparseable, NoKey, MaxPinAttempts, PreauthTimeout,
  PostauthTimeout, Deadline, MaxTime,    \* see BindSession
  Nobody                                 \* no app: no INTRO yet

VARIABLES
  now, canceled, pc, conn, reply, pinFailures, pinRetired, notices, file,
  before, outcome,                       \* see BindSession
  served,      \* the app the present connection's INTRO named, or Nobody
  app          \* what each app is doing

Session == INSTANCE BindSession

sessionVars == <<now, canceled, pc, conn, reply, pinFailures, pinRetired, notices,
                 file, before, outcome>>
appVars == <<served, app>>
vars == <<channelVars, sessionVars, appVars>>

(* The proofs a HELLO may carry.                                           *)
Token == <<"token">>
Guess == <<"guess">>
PinProofOfSession(epub) == <<"pin">>
PinProof(epub) == <<"pin", epub>>

Proofs == {Token, Guess} \union {PinProof(e) : e \in Epubs}

Garbled == <<"neither">>
Hello(proof) == <<"HELLO", proof>>
Offer == <<"OFFER">>
Enroll(key) == <<"ENROLL", key>>
Done(message) == <<"DONE", message>>
Messages ==
  {Hello(proof) : proof \in Proofs} \union {Offer, Garbled}
    \union {Enroll(key) : key \in Keys \union {Unparseable}}
    \union {Done(message) : message \in Session!Refusals \union {"ok"}}

ASSUME NobodyAssumption == Nobody \notin Epubs
ASSUME MessageAssumption == Messages \subseteq Bodies
ASSUME AlgorithmAssumption == Ed25519Keys \subseteq Keys

(* What BindSession assumes of the same constants.                         *)
ASSUME SessionAssumption ==
  /\ Unparseable \notin Keys /\ NoKey \notin Keys /\ NoKey # Unparseable
  /\ {PreauthTimeout, PostauthTimeout, Deadline, MaxPinAttempts} \subseteq Nat \ {0}
  /\ MaxTime \in Nat /\ Deadline <= MaxTime

(* What an app knows, and the HELLO it makes of it.                        *)
Knowledge == {"token", "pin", "nothing"}
Hellos(epub, knows) ==
  IF knows = "token" THEN {Hello(Token)}
  ELSE IF knows = "pin" THEN {Hello(PinProof(epub))}
  ELSE {Garbled, Hello(Guess)} \union {Hello(PinProof(e)) : e \in Epubs \ {epub}}

Apps == [step : {"new", "hello", "enroll", "told"}, knows : Knowledge,
         key : Keys \union {Unparseable, NoKey},
         told : Session!Refusals \union {"none", "ok"}]
NewApp == [step |-> "new", knows |-> "nothing", key |-> NoKey, told |-> "none"]

Init ==
  /\ ChannelInit
  /\ Session!Init
  /\ served = Nobody
  /\ app = [e \in Epubs |-> NewApp]

-----------------------------------------------------------------------------
(* Apps.                                                                   *)

(* INTRO, which anyone may repeat from now on, and HELLO behind it.        *)
Connect(e, knows, hello) ==
  /\ app[e].step = "new"
  /\ app' = [app EXCEPT ![e] = [@ EXCEPT !.step = "hello", !.knows = knows]]
  /\ Seal("app", e, hello, TRUE)
  /\ UNCHANGED <<sessionVars, served>>

(* The OFFER is in; the app answers with the key of the device.            *)
ReadOffer(e, frame, key) ==
  /\ app[e].step = "hello"
  /\ frame.body = Offer
  /\ Answer("app", e, frame, Enroll(key), TRUE)
  /\ app' = [app EXCEPT ![e] = [@ EXCEPT !.step = "enroll", !.key = key]]
  /\ UNCHANGED <<sessionVars, served>>

ReadDone(e, frame) ==
  /\ app[e].step \in {"hello", "enroll"}
  /\ frame.body[1] = "DONE"
  /\ Open("app", e, frame)
  /\ app' = [app EXCEPT ![e] = [@ EXCEPT !.step = "told",
                                         !.told = frame.body[2]]]
  /\ UNCHANGED <<sessionVars, served>>
-----------------------------------------------------------------------------
(* The server: each action is one of BindSession's with its frames.        *)

Accept ==
  /\ Session!Accept
  /\ served' = Nobody
  /\ UNCHANGED <<channelVars, app>>

(* A fresh Channel of whichever epub the INTRO names, used before or not.  *)
RecvIntro(e) ==
  /\ app[e].step # "new"
  /\ \E mode \in Session!Modes : Session!RecvIntro(mode)
  /\ served' = e
  /\ Derive(e)
  /\ UNCHANGED app

(* frame::pin_proof is derived from epub and spub as well as the PIN.      *)
ProofIsGood(proof) ==
  \/ conn.mode = "token" /\ proof = Token
  \/ conn.mode = "pin" /\ proof = PinProof(served)

(* send_done: reply' says whether the frame was written.                   *)
OpenAndSendDone(frame, message) ==
  Answer("server", served, frame, Done(message), reply' # "none")
SendDone(message) ==
  /\ Seal("server", served, Done(message), reply' # "none")
  /\ UNCHANGED appVars

RecvHello(frame) ==
  /\ served # Nobody
  /\ frame.body[1] = "HELLO"
  /\ LET good == ProofIsGood(frame.body[2])
     IN \/ /\ good
           /\ Session!RecvGoodProof
           /\ Open("server", served, frame)
        \/ /\ ~good
           /\ Session!RecvBadToken
           /\ Open("server", served, frame)
        \/ /\ Session!RecvRetiredPin
           /\ OpenAndSendDone(frame, "pin retired")
        \/ /\ ~good
           /\ Session!RecvWrongPin
           /\ OpenAndSendDone(frame, "wrong pin")
  /\ UNCHANGED appVars

SendOffer ==
  /\ \/ Session!SendOffer /\ Seal("server", served, Offer, TRUE)
     \/ Session!OfferNotSent /\ Seal("server", served, Offer, FALSE)
  /\ UNCHANGED appVars

RecvEnroll(frame) ==
  /\ served # Nobody
  /\ frame.body[1] = "ENROLL"
  /\ LET key == frame.body[2]
     IN \/ Session!RecvEnroll(key) /\ Open("server", served, frame)
        \/ /\ Session!RecvBadKey(key)
           /\ OpenAndSendDone(frame, IF key = Unparseable THEN "unparseable"
                                                          ELSE "not ed25519")
  /\ UNCHANGED appVars

(* A frame that opens and is not what is awaited.                          *)
RecvMalformed(frame) ==
  /\ served # Nobody
  /\ \/ Session!FrameComplete("hello") /\ frame.body[1] # "HELLO"
     \/ Session!FrameComplete("enroll") /\ frame.body[1] # "ENROLL"
  /\ Session!DropConnection
  /\ Open("server", served, frame)
  /\ UNCHANGED appVars

Answered ==
  \/ Session!TooLate /\ SendDone("offer expired")
  \/ Session!Decline /\ SendDone("declined on the host")
  \/ Session!EnsureLineFails /\ SendDone("could not write")
  \/ Session!SendReceipt /\ SendDone("ok")

(* No frame, or none that is whole and opens.                              *)
Silent ==
  /\ \/ Session!Tick \/ Session!Signal
     \/ Session!NoticeCancel \/ Session!NoticeExpiry \/ Session!PollAgain
     \/ Session!AcceptNone \/ Session!ReadLength \/ Session!DropConnection
     \/ Session!ReadTimeout \/ Session!CheckBeforePrompt \/ Session!Approve
     \/ Session!CheckAfterPrompt \/ Session!EnsureLine
  /\ UNCHANGED <<channelVars, appVars>>

Terminated == Session!Terminated /\ UNCHANGED <<channelVars, appVars>>

Next ==
  \/ \E e \in Epubs, knows \in Knowledge :
       \E hello \in Hellos(e, knows) : Connect(e, knows, hello)
  \/ \E e \in Epubs, f \in wire, key \in Keys \union {Unparseable} :
       ReadOffer(e, f, key)
  \/ \E e \in Epubs, f \in wire : ReadDone(e, f)
  \/ Accept
  \/ \E e \in Epubs : RecvIntro(e)
  \/ \E f \in wire : RecvHello(f) \/ RecvEnroll(f) \/ RecvMalformed(f)
  \/ SendOffer
  \/ Answered
  \/ Silent
  \/ Terminated

Spec == Init /\ [][Next]_vars
-----------------------------------------------------------------------------
(* Properties.                                                             *)

TypeOK ==
  /\ ChannelTypeOK
  /\ Session!TypeOK
  /\ served \in Epubs \union {Nobody}
  /\ app \in [Epubs -> Apps]

(* The host record reaches an app that knows a credential and no other,    *)
(* whoever repeats whose INTRO, in whichever mode, and whatever frames     *)
(* behind it - a PIN proof made of another ephemeral key is of no use here *)
(* (frame.rs 116-117) - and a key that gets in is the one that a holder of *)
(* the very credential the INTRO's mode asks for sent in answer to it.     *)
HoldersOnly ==
  /\ \A e \in Epubs : app[e].key # NoKey => app[e].knows # "nothing"
  /\ file # before =>
       /\ served # Nobody
       /\ app[served].knows = conn.mode
       /\ app[served].key = conn.key

(* What an app reads in its DONE is true of that app, whatever the others  *)
(* were told on connections before and after: "ok" to one app only, its    *)
(* key in the file and the offer over; a refusal for a reason it gave, and *)
(* nothing enrolled for it.  One of them may be outlived: "could not       *)
(* write" is about one connection, and if another repeats the app's INTRO, *)
(* HELLO and ENROLL the server writes its key after all.                   *)
ToldTheTruth ==
  \A e \in Epubs :
    LET a == app[e]
    IN CASE a.told = "ok" ->
              /\ e = served
              /\ outcome = "Enrolled"
              /\ \E line \in file : line.key = a.key
         [] a.told = "wrong pin" -> a.knows # "pin"
         [] a.told = "pin retired" -> pinRetired
         [] a.told = "unparseable" -> a.key = Unparseable
         [] a.told = "not ed25519" -> a.key \in Keys \ Ed25519Keys
         [] a.told = "offer expired" -> now >= Deadline /\ file = before
         [] a.told = "declined on the host" -> outcome = "Declined" /\ e = served
         [] a.told = "could not write" ->
              served = e /\ e \notin Repeated => file = before
         [] OTHER -> TRUE
=============================================================================
