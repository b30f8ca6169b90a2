----------------------------- MODULE BindSession -----------------------------
(***************************************************************************)
(* The bind server, src/src/server.rs: one process serves TCP connections  *)
(* one at a time until the offer is enrolled, declined, canceled or        *)
(* expired.                                                                *)
(*                                                                         *)
(* Peers are whoever can reach the port: at each read the peer may send    *)
(* any frame, a garbled one, half a frame, nothing, or hang up.  A signal  *)
(* may arrive at any moment.  Time is a discrete clock that may advance    *)
(* between any two steps; the one thing it may not do is run past the      *)
(* timeout of a read that is waiting (SO_RCVTIMEO wakes the reader).       *)
(***************************************************************************)
EXTENDS Naturals, Sequences, FiniteSets

CONSTANTS
  Keys,             \* the public keys clients own
  Ed25519Keys,      \* those whose algorithm name contains "ed25519"
  Unparseable,      \* an ENROLL pubkey that is no OpenSSH public key
  NoKey,            \* no ENROLL received yet
  MaxPinAttempts,   \* MAX_PIN_ATTEMPTS
  PreauthTimeout,   \* PREAUTH_TIMEOUT, in clock units
  PostauthTimeout,  \* POSTAUTH_TIMEOUT
  Deadline,         \* SessionConfig.deadline; the session starts at 0
  MaxTime           \* bound: the clock stops here, after the deadline

ASSUME KeyAssumption ==
  /\ Ed25519Keys \subseteq Keys
  /\ Unparseable \notin Keys
  /\ NoKey \notin Keys
  /\ NoKey # Unparseable
ASSUME TimeAssumption ==
  /\ PreauthTimeout \in Nat \ {0}
  /\ PostauthTimeout \in Nat \ {0}
  /\ Deadline \in Nat \ {0}
  /\ MaxTime \in Nat
  /\ Deadline <= MaxTime
ASSUME PinAssumption == MaxPinAttempts \in Nat \ {0}

VARIABLES
  now,          \* Instant::now()
  canceled,     \* cancel::CANCELED
  pc,           \* where the server thread is
  conn,         \* the connection being served
  reply,        \* the DONE the current (or last) peer was sent, or "none"
  pinFailures,  \* pin_failures
  pinRetired,   \* pin_retired
  notices,      \* events given to progress(): PinRetiredNotice, or the tries
                \* a WrongPin event says remain
  file,         \* the key lines of authorized_keys
  before,       \* history: file as it was when the session began
  outcome       \* BindOutcome, or "none" while run() has not returned

vars == <<now, canceled, pc, conn, reply, pinFailures, pinRetired, notices,
          file, before, outcome>>
pins == <<pinFailures, pinRetired, notices>>
-----------------------------------------------------------------------------
Modes == {"token", "pin", "other"}
Reading == {"intro", "hello", "enroll"}
Phases == Reading \union {"poll", "accept", "offer", "check", "prompt",
                          "recheck", "write", "receipt", "ended"}
Refusals == {"wrong pin", "pin retired", "unparseable", "not ed25519",
             "offer expired", "declined on the host", "could not write"}
Outcomes == {"none", "Enrolled", "Expired", "Declined", "Canceled"}

(* A number no WrongPin event can carry stands for PinRetired.             *)
PinRetiredNotice == MaxPinAttempts

(* A line of authorized_keys: the key and whose comment it carries.        *)
Marker == "multiplex:bind"
Foreign == "foreign"
Lines == [key : Keys, comment : {Marker, Foreign}]

(* What the server keeps of a connection.  half: the length prefix of the  *)
(* awaited frame is in.  The last two are history: the operator said yes,  *)
(* and the clock at the last expiry check the enrollment passed.           *)
Conns == [mode     : Modes \union {"none"},
          since    : 0..MaxTime,
          until    : 0..MaxTime,
          half     : BOOLEAN,
          proven   : BOOLEAN,
          key      : Keys \union {Unparseable, NoKey},
          approved : BOOLEAN,
          cleared  : 0..MaxTime]

NoConn == [mode |-> "none", since |-> 0, until |-> 0, half |-> FALSE,
           proven |-> FALSE, key |-> NoKey, approved |-> FALSE, cleared |-> 0]

PhaseDeadline(budget) ==
  IF now + budget <= Deadline THEN now + budget ELSE Deadline

TypeOK ==
  /\ now \in 0..MaxTime
  /\ canceled \in BOOLEAN
  /\ pc \in Phases
  /\ conn \in Conns
  /\ reply \in Refusals \union {"none", "ok"}
  /\ pinFailures \in 0..MaxPinAttempts
  /\ pinRetired \in BOOLEAN
  /\ notices \in Seq(0..MaxPinAttempts)
  /\ file \in SUBSET Lines
  /\ before \in SUBSET Lines
  /\ outcome \in Outcomes

Init ==
  /\ now = 0
  /\ canceled = FALSE
  /\ pc = "poll"
  /\ conn = NoConn
  /\ reply = "none"
  /\ pinFailures = 0
  /\ pinRetired = FALSE
  /\ notices = <<>>
  /\ file \in SUBSET [key : Keys, comment : {Foreign}]
  /\ before = file
  /\ outcome = "none"
-----------------------------------------------------------------------------
(* The clock and the signal handler.                                       *)

ReadDueNoTimeout == FALSE

ReadDue == pc \in Reading /\ now >= conn.until

Tick ==
  /\ now < MaxTime
  /\ ~ReadDue
  /\ now' = now + 1
  /\ UNCHANGED <<canceled, pc, conn, reply, pins, file, before, outcome>>

Signal ==
  /\ ~canceled
  /\ canceled' = TRUE
  /\ UNCHANGED <<now, pc, conn, reply, pins, file, before, outcome>>
-----------------------------------------------------------------------------
(* run(): the accept loop.                                                 *)

Return(why) ==
  /\ pc' = "ended"
  /\ outcome' = why

NoticeCancel ==
  /\ pc = "poll"
  /\ canceled
  /\ Return("Canceled")
  /\ UNCHANGED <<now, canceled, conn, reply, pins, file, before>>

NoticeExpiry ==
  /\ pc = "poll"
  /\ ~canceled
  /\ now >= Deadline
  /\ Return("Expired")
  /\ UNCHANGED <<now, canceled, conn, reply, pins, file, before>>

PollAgain ==
  /\ pc = "poll"
  /\ ~canceled
  /\ now < Deadline
  /\ pc' = "accept"
  /\ UNCHANGED <<now, canceled, conn, reply, pins, file, before, outcome>>

(* Nobody is waiting, or accept() failed: sleep and go round.              *)
AcceptNone ==
  /\ pc = "accept"
  /\ pc' = "poll"
  /\ UNCHANGED <<now, canceled, conn, reply, pins, file, before, outcome>>

(* One deadline for INTRO and HELLO together.                              *)
Accept ==
  /\ pc = "accept"
  /\ pc' = "intro"
  /\ conn' = [NoConn EXCEPT !.since = now,
                            !.until = PhaseDeadline(PreauthTimeout)]
  /\ reply' = "none"
  /\ UNCHANGED <<now, canceled, pins, file, before, outcome>>

(* ConnectionResult::Ignore: the loop goes on as if nobody had connected.  *)
Ignore ==
  /\ pc' = "poll"
  /\ conn' = NoConn
  /\ UNCHANGED <<now, canceled, file, before, outcome>>

(* send_done with its result dropped: the message may not get through.     *)
TellPeer(message) == reply' \in {message, "none"}
-----------------------------------------------------------------------------
(* exchange(): reads.                                                      *)

ReadLengthRestarts ==
  /\ pc \in Reading
  /\ now < conn.until
  /\ ~conn.half
  /\ conn' = [conn EXCEPT !.half = TRUE, !.until = PhaseDeadline(PreauthTimeout)]
  /\ UNCHANGED <<now, canceled, pc, reply, pins, file, before, outcome>>

(* The length prefix is in; the clock does not start again.                *)
ReadLength ==
  /\ pc \in Reading
  /\ now < conn.until
  /\ ~conn.half
  /\ conn' = [conn EXCEPT !.half = TRUE]
  /\ UNCHANGED <<now, canceled, pc, reply, pins, file, before, outcome>>

FrameComplete(phase) ==
  /\ pc = phase
  /\ now < conn.until
  /\ conn.half

(* EOF, an oversized length, a frame that does not open or decode, a       *)
(* missing field, a wrong version, a low-order public key.                 *)
DropConnection ==
  /\ pc \in Reading
  /\ now < conn.until
  /\ Ignore
  /\ UNCHANGED <<reply, pins>>

ReadTimeout ==
  /\ ReadDue
  /\ Ignore
  /\ UNCHANGED <<reply, pins>>

RecvIntroFreshWindow(mode) ==
  /\ FrameComplete("intro")
  /\ pc' = "hello"
  /\ conn' = [conn EXCEPT !.mode = mode, !.half = FALSE,
                          !.until = PhaseDeadline(PreauthTimeout)]
  /\ UNCHANGED <<now, canceled, reply, pins, file, before, outcome>>

RecvIntro(mode) ==
  /\ FrameComplete("intro")
  /\ pc' = "hello"
  /\ conn' = [conn EXCEPT !.mode = mode, !.half = FALSE]
  /\ UNCHANGED <<now, canceled, reply, pins, file, before, outcome>>

AcceptsRetired(mode) == mode \in {"token", "pin"}

(* The mode's arm of the match, for a proof that is good.                  *)
Accepts(mode) == mode = "token" \/ (mode = "pin" /\ ~pinRetired)

RecvGoodProof ==
  /\ FrameComplete("hello")
  /\ Accepts(conn.mode)
  /\ pc' = "offer"
  /\ conn' = [conn EXCEPT !.proven = TRUE, !.half = FALSE,
                          !.until = PhaseDeadline(PostauthTimeout)]
  /\ UNCHANGED <<now, canceled, reply, pins, file, before, outcome>>

(* A bad token, or a mode nobody offered: nothing is said.                 *)
RecvBadToken ==
  /\ FrameComplete("hello")
  /\ conn.mode # "pin"
  /\ Ignore
  /\ UNCHANGED <<reply, pins>>

(* The PIN is gone: said so whatever the proof is.                         *)
RecvRetiredPin ==
  /\ FrameComplete("hello")
  /\ conn.mode = "pin"
  /\ pinRetired
  /\ TellPeer("pin retired")
  /\ Ignore
  /\ UNCHANGED pins

CountPinFailureForever ==
  /\ pinFailures' = pinFailures + 1
  /\ notices' = Append(notices, PinRetiredNotice)
  /\ UNCHANGED pinRetired

CountPinFailureOffByOne ==
  LET retire == pinFailures >= MaxPinAttempts
  IN /\ pinFailures' = IF retire THEN pinFailures ELSE pinFailures + 1
     /\ pinRetired' = retire
     /\ notices' = Append(notices, IF retire THEN PinRetiredNotice
                                   ELSE MaxPinAttempts - pinFailures - 1)

(* run()'s arm for ConnectionResult::PinFailure.                           *)
CountPinFailure ==
  LET failures == pinFailures + 1
      retire   == failures >= MaxPinAttempts
  IN /\ pinFailures' = failures
     /\ pinRetired' = (pinRetired \/ retire)
     /\ notices' = IF ~retire THEN Append(notices, MaxPinAttempts - failures)
                   ELSE IF ~pinRetired THEN Append(notices, PinRetiredNotice)
                   ELSE notices

RecvWrongPinEndsOffer ==
  /\ FrameComplete("hello")
  /\ conn.mode = "pin"
  /\ ~pinRetired
  /\ TellPeer("wrong pin")
  /\ CountPinFailure
  /\ IF pinRetired' THEN Return("Declined") ELSE pc' = "poll" /\ UNCHANGED outcome
  /\ conn' = NoConn
  /\ UNCHANGED <<now, canceled, file, before>>

RecvWrongPin ==
  /\ FrameComplete("hello")
  /\ conn.mode = "pin"
  /\ ~pinRetired
  /\ TellPeer("wrong pin")
  /\ CountPinFailure
  /\ Ignore
-----------------------------------------------------------------------------
(* exchange(): from OFFER to DONE.                                         *)

SendOffer ==
  /\ pc = "offer"
  /\ pc' = "enroll"
  /\ UNCHANGED <<now, canceled, conn, reply, pins, file, before, outcome>>

OfferNotSent ==
  /\ pc = "offer"
  /\ Ignore
  /\ UNCHANGED <<reply, pins>>

RecvBadKey(key) ==
  /\ FrameComplete("enroll")
  /\ \/ key = Unparseable /\ TellPeer("unparseable")
     \/ key \in Keys \ Ed25519Keys /\ TellPeer("not ed25519")
  /\ Ignore
  /\ UNCHANGED pins

RecvEnroll(key) ==
  /\ FrameComplete("enroll")
  /\ key \in Ed25519Keys
  /\ pc' = "check"
  /\ conn' = [conn EXCEPT !.key = key, !.half = FALSE]
  /\ UNCHANGED <<now, canceled, reply, pins, file, before, outcome>>

(* The clock is read on both sides of the prompt.                          *)
TooLate ==
  /\ pc \in {"check", "recheck"}
  /\ now >= Deadline
  /\ TellPeer("offer expired")
  /\ Ignore
  /\ UNCHANGED pins

CheckBeforePrompt ==
  /\ pc = "check"
  /\ now < Deadline
  /\ pc' = "prompt"
  /\ UNCHANGED <<now, canceled, conn, reply, pins, file, before, outcome>>

(* confirm(): --yes, or confirm_on_tty, where end of file counts as Enter. *)
Approve ==
  /\ pc = "prompt"
  /\ pc' = "recheck"
  /\ conn' = [conn EXCEPT !.approved = TRUE]
  /\ UNCHANGED <<now, canceled, reply, pins, file, before, outcome>>

(* Any other answer, no terminal to ask on, or a failed read of it.        *)
Decline ==
  /\ pc = "prompt"
  /\ TellPeer("declined on the host")
  /\ Return("Declined")
  /\ UNCHANGED <<now, canceled, conn, pins, file, before>>

CheckAfterPromptSkipped ==
  /\ pc = "recheck"
  /\ pc' = "write"
  /\ conn' = [conn EXCEPT !.cleared = now]
  /\ UNCHANGED <<now, canceled, reply, pins, file, before, outcome>>

CheckAfterPrompt ==
  /\ pc = "recheck"
  /\ now < Deadline
  /\ pc' = "write"
  /\ conn' = [conn EXCEPT !.cleared = now]
  /\ UNCHANGED <<now, canceled, reply, pins, file, before, outcome>>

(* authkeys::ensure_line: the same key under any comment is left alone.    *)
EnsureLine ==
  /\ pc = "write"
  /\ \/ /\ \E line \in file : line.key = conn.key
        /\ UNCHANGED file
     \/ /\ \A line \in file : line.key # conn.key
        /\ file' = file \union {[key |-> conn.key, comment |-> Marker]}
  /\ pc' = "receipt"
  /\ UNCHANGED <<now, canceled, conn, reply, pins, before, outcome>>

EnsureLineFailsUnnoticed ==
  /\ pc = "write"
  /\ pc' = "receipt"
  /\ UNCHANGED <<now, canceled, conn, reply, pins, file, before, outcome>>

EnsureLineFails ==
  /\ pc = "write"
  /\ TellPeer("could not write")
  /\ Ignore
  /\ UNCHANGED pins

SendReceiptOrIgnore ==
  /\ pc = "receipt"
  /\ \/ reply' = "ok" /\ Return("Enrolled") /\ UNCHANGED conn
     \/ reply' = "none" /\ pc' = "poll" /\ conn' = NoConn /\ UNCHANGED outcome
  /\ UNCHANGED <<now, canceled, pins, file, before>>

(* The key is on disk whether or not the receipt gets out: acknowledged is *)
(* reply = "ok".                                                           *)
SendReceipt ==
  /\ pc = "receipt"
  /\ TellPeer("ok")
  /\ Return("Enrolled")
  /\ UNCHANGED <<now, canceled, conn, pins, file, before>>

Terminated == pc = "ended" /\ UNCHANGED vars
-----------------------------------------------------------------------------
PeerStep ==
  \/ Accept
  \/ ReadLength
  \/ DropConnection
  \/ \E mode \in Modes : RecvIntro(mode)
  \/ RecvGoodProof
  \/ RecvBadToken
  \/ RecvRetiredPin
  \/ RecvWrongPin
  \/ \E key \in Keys \union {Unparseable} : RecvBadKey(key) \/ RecvEnroll(key)

ServerStep ==
  \/ NoticeCancel
  \/ NoticeExpiry
  \/ PollAgain
  \/ AcceptNone
  \/ ReadTimeout
  \/ SendOffer
  \/ OfferNotSent
  \/ TooLate
  \/ CheckBeforePrompt
  \/ CheckAfterPrompt
  \/ EnsureLine
  \/ EnsureLineFails
  \/ SendReceipt

Operator == Approve \/ Decline

Next == PeerStep \/ ServerStep \/ Operator \/ Tick \/ Signal \/ Terminated

(* The server thread is scheduled and time passes; nothing obliges a peer  *)
(* to speak, an operator to answer or a signal to come.                    *)
Fairness == WF_vars(ServerStep) /\ WF_vars(Tick)

Spec == Init /\ [][Next]_vars
FairSpec == Spec /\ Fairness
-----------------------------------------------------------------------------
(* Properties.                                                             *)

(* The PIN stops being a way in after MaxPinAttempts wrong guesses,        *)
(* whichever connections they came on: no peer is being served on the      *)
(* strength of a PIN once it is retired (server.rs, the "pin" arms).       *)
RetiredPinNeverProves ==
  conn.proven /\ conn.mode = "pin" => pinFailures < MaxPinAttempts

(* What the operator is told matches the guesses made: one event for each, *)
(* counting down, the last of them the one and only retirement.            *)
NoticesCountDown ==
  notices = [i \in 1..pinFailures |->
               IF i < MaxPinAttempts THEN MaxPinAttempts - i
                                     ELSE PinRetiredNotice]

(* The file changes only by the line of one ed25519 key that was not in    *)
(* it, for a peer that proved a credential and that the operator approved, *)
(* with the offer still open after the prompt was answered.                *)
EnrolledOnlyWithConsent ==
  file # before =>
    /\ conn.proven
    /\ conn.approved
    /\ conn.cleared < Deadline
    /\ conn.key \in Ed25519Keys
    /\ \A line \in before : line.key # conn.key
    /\ file = before \union {[key |-> conn.key, comment |-> Marker]}

(* run() says Enrolled only when the key it served is in the file, and     *)
(* every other ending left the file alone: main's "nothing was enrolled"   *)
(* is true, and no enrollment ends as an expired offer because its receipt *)
(* was lost.                                                               *)
OutcomeTellsTruth ==
  /\ outcome = "Enrolled" => \E line \in file : line.key = conn.key
  /\ outcome \in {"Expired", "Declined", "Canceled"} => file = before

(* A client told ok can log in; a client refused has left no trace.        *)
ReceiptTellsTruth ==
  /\ reply = "ok" => \E line \in file : line.key = conn.key
  /\ reply \in Refusals => file = before

(* A stranger holds the server for PREAUTH_TIMEOUT at most, however it     *)
(* paces INTRO and HELLO and the halves of their frames.                   *)
PreauthWindow ==
  pc \in {"intro", "hello"} => now <= conn.since + PreauthTimeout

(* Nobody but the operator, the clock or a credential holder can end the   *)
(* offer: running out of PIN guesses does not (server.rs 113-117).         *)
StrangersEndNothing ==
  [][outcome' # outcome =>
       CASE outcome' = "Canceled" -> canceled
         [] outcome' = "Expired"  -> now >= Deadline
         [] OTHER                 -> conn.proven /\ conn.key \in Ed25519Keys]_vars

(* `(Ctrl-C cancels)`, main.rs 284: a signal that has come by the time the *)
(* operator is being asked means nothing is enrolled, whatever is typed at *)
(* the prompt afterwards.  Does not hold: only the accept loop looks at    *)
(* the flag.                                                               *)
CancelPreventsEnrollment == [](canceled /\ pc = "prompt" => [](file = before))

(* The server always gets to an end if its operator always answers, as     *)
(* --yes does; peers that stall, trickle, hang up or flood cannot prevent  *)
(* it.                                                                     *)
SessionEnds == []<>(pc # "prompt") => <>(pc = "ended")

(* The inductive invariant behind the properties above, in named parts.    *)

Proven  == {"offer", "enroll", "check", "prompt", "recheck", "write", "receipt"}
KeyRead == {"check", "prompt", "recheck", "write", "receipt"}
Serving == {"intro", "hello"} \union Proven

(* The connection's key is in the file: put there by this session, or      *)
(* found there and left alone.                                             *)
KeyInFile ==
  /\ conn.proven /\ conn.approved
  /\ conn.cleared < Deadline
  /\ conn.key \in Ed25519Keys
  /\ \/ file = before /\ \E line \in before : line.key = conn.key
     \/ /\ \A line \in before : line.key # conn.key
        /\ file = before \union {[key |-> conn.key, comment |-> Marker]}

PinsInv ==
  /\ pinRetired <=> pinFailures = MaxPinAttempts
  /\ NoticesCountDown

ConnInv ==
  /\ pc \in {"poll", "accept"} => conn = NoConn
  /\ pc \in {"intro", "hello"} =>
       /\ ~conn.proven
       /\ conn.until <= conn.since + PreauthTimeout
       /\ now <= conn.since + PreauthTimeout
  /\ pc \in Proven => conn.proven
  /\ conn.proven => Accepts(conn.mode)
  /\ pc \in KeyRead => conn.key \in Ed25519Keys
  /\ pc \in {"recheck", "write", "receipt"} => conn.approved
  /\ pc \in {"write", "receipt"} => conn.cleared < Deadline

FileInv ==
  /\ pc \notin {"receipt", "ended"} => file = before
  /\ pc = "receipt" => KeyInFile

ReplyInv ==
  /\ pc \in Serving => reply = "none"
  /\ outcome # "Enrolled" => reply # "ok"

OutcomeInv ==
  /\ outcome = "none" <=> pc # "ended"
  /\ outcome = "Enrolled" => KeyInFile /\ reply \in {"ok", "none"}
  /\ outcome = "Declined" => conn.proven /\ conn.key \in Ed25519Keys
  /\ outcome \in {"Expired", "Canceled"} => conn = NoConn
  /\ outcome \in {"Expired", "Declined", "Canceled"} => file = before

(* Every reachable state satisfies all the parts at once.                  *)
SessionInv ==
  TypeOK /\ PinsInv /\ ConnInv /\ FileInv /\ ReplyInv /\ OutcomeInv

(* The session is a BindOffer: the abstract offer ends when the key is on  *)
(* disk, before the receipt is sent.                                       *)
offerStatus == IF pc = "receipt" THEN "Enrolled"
               ELSE IF outcome # "none" THEN outcome ELSE "open"
offerKeys   == {line.key : line \in file}
offerTries  == MaxPinAttempts - pinFailures
offerHolder == IF conn.proven THEN conn.mode ELSE "nobody"
offerVars   == <<offerStatus, offerKeys, offerTries, offerHolder>>

Offer == INSTANCE BindOffer WITH
  Tries  <- MaxPinAttempts,
  status <- offerStatus,
  keys   <- offerKeys,
  tries  <- offerTries,
  holder <- offerHolder

ImplementsOffer == Offer!Spec
=============================================================================
