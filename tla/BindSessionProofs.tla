-------------------------- MODULE BindSessionProofs --------------------------
(***************************************************************************)
(* SessionInv is an inductive invariant of BindSession, for all keys,      *)
(* timeouts, deadlines and numbers of PIN attempts; what the runs of       *)
(* BindSession check on a small instance follows from it, and so does the  *)
(* step simulation of BindOffer.                                           *)
(***************************************************************************)
EXTENDS BindSession, TLAPS

USE TimeAssumption, PinAssumption

LEMMA PhaseDeadlineFacts ==
  ASSUME now \in 0..MaxTime, NEW budget \in Nat
  PROVE  /\ PhaseDeadline(budget) \in 0..MaxTime
         /\ PhaseDeadline(budget) <= now + budget
  BY DEF PhaseDeadline

LEMMA NoConnType == NoConn \in Conns
  BY DEF NoConn, Conns, Modes

LEMMA SessionInit == Init => SessionInv
  <1> SUFFICES ASSUME Init PROVE SessionInv
    OBVIOUS
  <1>1. TypeOK
    <2>1. [key : Keys, comment : {Foreign}] \subseteq Lines
      BY DEF Lines
    <2>2. file \subseteq Lines
      BY <2>1 DEF Init
    <2>3. notices \in Seq(0..MaxPinAttempts)
      BY DEF Init
    <2>4. now \in 0..MaxTime /\ pinFailures \in 0..MaxPinAttempts
      BY DEF Init
    <2>5. canceled \in BOOLEAN /\ pinRetired \in BOOLEAN
      BY DEF Init
    <2>6. pc \in Phases /\ outcome \in Outcomes /\ reply = "none"
      BY DEF Init, Phases, Outcomes
    <2>7. conn \in Conns /\ before = file
      BY NoConnType DEF Init
    <2> QED
      BY <2>2, <2>3, <2>4, <2>5, <2>6, <2>7 DEF TypeOK
  <1>2. PinsInv
    BY DEF Init, PinsInv, NoticesCountDown
  <1>3. ConnInv
    BY DEF Init, ConnInv, NoConn, Proven, KeyRead
  <1>4. FileInv /\ ReplyInv /\ OutcomeInv
    BY DEF Init, FileInv, ReplyInv, OutcomeInv, Serving, Proven
  <1> QED
    BY <1>1, <1>2, <1>3, <1>4 DEF SessionInv

(* The parts that an action leaving their variables alone keeps.           *)
LEMMA PinsKept == PinsInv /\ UNCHANGED pins => PinsInv'
  BY DEF PinsInv, NoticesCountDown, pins

LEMMA KeyInFileKept ==
  KeyInFile /\ UNCHANGED <<conn, file, before>> => KeyInFile'
  BY DEF KeyInFile

-----------------------------------------------------------------------------
(* What every way of dropping a connection re-establishes.                 *)
LEMMA IgnoreKeepsInv ==
  ASSUME SessionInv, Ignore, pc \notin {"ended", "receipt"}, PinsInv',
         pinFailures' \in 0..MaxPinAttempts, pinRetired' \in BOOLEAN,
         notices' \in Seq(0..MaxPinAttempts),
         reply' \in Refusals \union {"none", reply}
  PROVE  SessionInv'
  <1>1. TypeOK'
    BY NoConnType DEF Ignore, SessionInv, TypeOK, Phases
  <1>2. ConnInv'
    BY DEF Ignore, ConnInv, NoConn, Proven, KeyRead
  <1>3. FileInv'
    BY DEF Ignore, SessionInv, FileInv
  <1>4. ReplyInv'
    BY DEF Ignore, SessionInv, ReplyInv, OutcomeInv, Serving, Proven, Refusals
  <1>5. OutcomeInv'
    BY DEF Ignore, SessionInv, OutcomeInv
  <1> QED
    BY <1>1, <1>2, <1>3, <1>4, <1>5 DEF SessionInv

(* Dropping one without a PIN failure.                                     *)
LEMMA QuietIgnoreKeepsInv ==
  ASSUME SessionInv, Ignore, pc \notin {"ended", "receipt"}, UNCHANGED pins,
         reply' \in Refusals \union {"none", reply}
  PROVE  SessionInv'
  BY PinsKept, IgnoreKeepsInv DEF SessionInv, TypeOK, pins

LEMMA ClockSteps == SessionInv /\ (Tick \/ Signal) => SessionInv'
  <1> SUFFICES ASSUME SessionInv, Tick \/ Signal PROVE SessionInv'
    OBVIOUS
  <1>1. UNCHANGED <<pc, conn, reply, pins, file, before, outcome>>
    BY DEF Tick, Signal
  <1>2. TypeOK'
    <2>1. now' \in 0..MaxTime
      BY DEF SessionInv, TypeOK, Tick, Signal
    <2>2. canceled' \in BOOLEAN
      BY Zenon DEF SessionInv, TypeOK, Tick, Signal
    <2> QED
      BY <1>1, <2>1, <2>2 DEF SessionInv, TypeOK, pins
  <1>3. pc \in {"intro", "hello"} => now' <= conn.since + PreauthTimeout
    BY DEF SessionInv, ConnInv, TypeOK, Conns, Tick, Signal, ReadDue, Reading
  <1>4. ConnInv'
    BY <1>1, <1>3 DEF SessionInv, ConnInv, Accepts, pins
  <1>5. FileInv' /\ ReplyInv' /\ OutcomeInv'
    BY <1>1, KeyInFileKept DEF SessionInv, FileInv, ReplyInv, OutcomeInv
  <1> QED
    BY <1>1, <1>2, <1>4, <1>5, PinsKept DEF SessionInv

LEMMA LoopSteps ==
  ASSUME SessionInv,
         NoticeCancel \/ NoticeExpiry \/ PollAgain \/ AcceptNone \/ Accept
  PROVE  SessionInv'
  <1>1. /\ pc \in {"poll", "accept"}
        /\ UNCHANGED <<now, pins, file, before>>
    BY DEF NoticeCancel, NoticeExpiry, PollAgain, AcceptNone, Accept
  <1>2. PinsInv'
    BY <1>1, PinsKept DEF SessionInv
  <1>3. CASE NoticeCancel \/ NoticeExpiry
    <2>1. /\ pc' = "ended"
          /\ outcome' \in {"Canceled", "Expired"}
          /\ UNCHANGED <<conn, reply>>
          /\ UNCHANGED canceled
      BY <1>3 DEF NoticeCancel, NoticeExpiry, Return
    <2>2. TypeOK'
      BY <1>1, <2>1 DEF SessionInv, TypeOK, Phases, Outcomes, pins
    <2>3. ConnInv'
      BY <1>1, <2>1 DEF SessionInv, ConnInv, Accepts, pins, Proven, KeyRead
    <2>4. FileInv' /\ ReplyInv' /\ OutcomeInv'
      BY <1>1, <2>1 DEF SessionInv, ConnInv, FileInv, ReplyInv, OutcomeInv,
                        Serving, Proven
    <2> QED
      BY <1>2, <2>2, <2>3, <2>4 DEF SessionInv
  <1>4. CASE PollAgain \/ AcceptNone
    <2>1. /\ pc' \in {"poll", "accept"}
          /\ UNCHANGED <<canceled, conn, reply, outcome>>
      BY <1>4 DEF PollAgain, AcceptNone
    <2>2. TypeOK'
      BY <1>1, <2>1 DEF SessionInv, TypeOK, Phases, pins
    <2>3. ConnInv'
      BY <1>1, <2>1 DEF SessionInv, ConnInv, Accepts, pins, Proven, KeyRead
    <2>4. FileInv' /\ ReplyInv' /\ OutcomeInv'
      BY <1>1, <2>1 DEF SessionInv, FileInv, ReplyInv, OutcomeInv,
                        Serving, Proven
    <2> QED
      BY <1>2, <2>2, <2>3, <2>4 DEF SessionInv
  <1>5. CASE Accept
    <2> DEFINE window == PhaseDeadline(PreauthTimeout)
    <2>1. /\ pc' = "intro"
          /\ conn' = [NoConn EXCEPT !.since = now, !.until = window]
          /\ reply' = "none"
          /\ UNCHANGED <<canceled, outcome>>
      BY <1>5 DEF Accept
    <2>2. window \in 0..MaxTime /\ window <= now + PreauthTimeout
      BY PhaseDeadlineFacts DEF SessionInv, TypeOK
    <2>3. /\ conn' \in Conns
          /\ ~conn'.proven
          /\ conn'.since = now
          /\ conn'.until = window
      BY <2>1, <2>2, NoConnType DEF NoConn, Conns, SessionInv, TypeOK
    <2> HIDE DEF window
    <2>4. TypeOK'
      BY <1>1, <2>1, <2>3 DEF SessionInv, TypeOK, Phases, Reading, pins
    <2>5. ConnInv'
      BY <1>1, <2>1, <2>2, <2>3 DEF SessionInv, TypeOK, ConnInv, Proven, KeyRead
    <2>6. FileInv' /\ ReplyInv' /\ OutcomeInv'
      BY <1>1, <2>1 DEF SessionInv, FileInv, ReplyInv, OutcomeInv
    <2> QED
      BY <1>2, <2>4, <2>5, <2>6 DEF SessionInv
  <1> QED
    BY <1>3, <1>4, <1>5

(* The reads and the proof.                                                *)
LEMMA ReadSteps ==
  ASSUME SessionInv,
         \/ ReadLength
         \/ \E mode \in Modes : RecvIntro(mode)
         \/ RecvGoodProof
  PROVE  SessionInv'
  <1>1. /\ pc \in Reading
        /\ UNCHANGED <<now, canceled, reply, pins, file, before, outcome>>
    BY DEF ReadLength, RecvIntro, RecvGoodProof, FrameComplete, Reading
  <1>2. PinsInv'
    BY <1>1, PinsKept DEF SessionInv
  <1>3. pc' \in {"intro", "hello", "offer", "enroll"}
    BY <1>1 DEF ReadLength, RecvIntro, RecvGoodProof, Reading
  <1>4. conn' \in Conns
    <2>1. PhaseDeadline(PostauthTimeout) \in 0..MaxTime
      BY PhaseDeadlineFacts DEF SessionInv, TypeOK
    <2> QED
      BY <2>1 DEF SessionInv, TypeOK, Conns, ReadLength, RecvIntro, RecvGoodProof
  <1>5. TypeOK'
    BY <1>1, <1>3, <1>4 DEF SessionInv, TypeOK, Phases, Reading, pins
  <1>6. ConnInv'
    <2>1. CASE ReadLength
      BY <1>1, <2>1 DEF ReadLength, SessionInv, TypeOK, Conns, ConnInv, Accepts,
                        Reading, Proven, KeyRead, pins
    <2>2. ASSUME NEW mode \in Modes, RecvIntro(mode) PROVE ConnInv'
      BY <1>1, <2>2 DEF RecvIntro, FrameComplete, SessionInv, TypeOK, Conns,
                        ConnInv, Accepts, Proven, KeyRead, pins
    <2>3. CASE RecvGoodProof
      BY <1>1, <2>3 DEF RecvGoodProof, FrameComplete, SessionInv, TypeOK, Conns,
                        ConnInv, Accepts, Proven, KeyRead, pins
    <2> QED
      BY <2>1, <2>2, <2>3
  <1>7. FileInv' /\ ReplyInv' /\ OutcomeInv'
    BY <1>1, <1>3 DEF SessionInv, FileInv, ReplyInv, OutcomeInv, Reading,
                      Serving, Proven
  <1> QED
    BY <1>2, <1>5, <1>6, <1>7 DEF SessionInv

(* A connection dropped for any reason but a wrong PIN.                    *)
LEMMA DropSteps ==
  ASSUME SessionInv,
         \/ DropConnection \/ ReadTimeout \/ RecvBadToken \/ RecvRetiredPin
         \/ OfferNotSent \/ TooLate \/ EnsureLineFails
         \/ \E key \in Keys \union {Unparseable} : RecvBadKey(key)
  PROVE  SessionInv'
  <1>1. Ignore /\ UNCHANGED pins /\ pc \notin {"ended", "receipt"}
    BY DEF DropConnection, ReadTimeout, ReadDue, RecvBadToken, RecvRetiredPin,
           OfferNotSent, TooLate, EnsureLineFails, RecvBadKey, FrameComplete,
           Reading
  <1>2. reply' \in Refusals \union {"none", reply}
    BY DEF DropConnection, ReadTimeout, RecvBadToken, RecvRetiredPin,
           OfferNotSent, TooLate, EnsureLineFails, RecvBadKey, TellPeer,
           Refusals
  <1> QED
    BY <1>1, <1>2, QuietIgnoreKeepsInv

LEMMA CountPinFailureKeepsPins ==
  ASSUME TypeOK, PinsInv, ~pinRetired, CountPinFailure
  PROVE  /\ PinsInv'
         /\ pinFailures' \in 0..MaxPinAttempts
         /\ pinRetired' \in BOOLEAN
         /\ notices' \in Seq(0..MaxPinAttempts)
  <1>1. /\ pinFailures \in Nat
        /\ pinFailures < MaxPinAttempts
        /\ pinFailures' = pinFailures + 1
    BY DEF TypeOK, PinsInv, CountPinFailure
  <1>2. pinRetired' <=> pinFailures' = MaxPinAttempts
    <2>1. pinRetired' = (pinRetired \/ pinFailures + 1 >= MaxPinAttempts)
      BY Zenon DEF CountPinFailure
    <2>2. pinRetired' <=> pinFailures + 1 >= MaxPinAttempts
      BY <2>1, Zenon
    <2> QED
      BY <1>1, <2>2
  <1> DEFINE told == IF pinFailures' < MaxPinAttempts
                       THEN MaxPinAttempts - pinFailures' ELSE PinRetiredNotice
  <1>3. notices' = Append(notices, told) /\ told \in 0..MaxPinAttempts
    BY <1>1 DEF CountPinFailure, PinRetiredNotice
  <1>4. notices' \in Seq(0..MaxPinAttempts)
    BY <1>3 DEF TypeOK
  <1>5. NoticesCountDown'
    <2>1. Len(notices) = pinFailures
      BY <1>1 DEF PinsInv, NoticesCountDown, TypeOK
    <2>2. DOMAIN notices' = 1..pinFailures'
      BY <1>1, <1>3, <2>1 DEF TypeOK
    <2>3. ASSUME NEW i \in 1..pinFailures'
          PROVE notices'[i] = IF i < MaxPinAttempts THEN MaxPinAttempts - i
                                                    ELSE PinRetiredNotice
      BY <1>1, <1>3, <2>1 DEF TypeOK, PinsInv, NoticesCountDown
    <2> QED
      BY <2>2, <2>3, <1>4 DEF NoticesCountDown, PinRetiredNotice
  <1> QED
    BY <1>1, <1>2, <1>4, <1>5 DEF PinsInv, CountPinFailure, TypeOK

LEMMA WrongPinStep ==
  ASSUME SessionInv, RecvWrongPin
  PROVE  SessionInv'
  <1>1. /\ Ignore
        /\ CountPinFailure
        /\ ~pinRetired
        /\ pc = "hello"
        /\ reply' \in Refusals \union {"none", reply}
    BY DEF RecvWrongPin, FrameComplete, TellPeer, Refusals
  <1>2. TypeOK /\ PinsInv
    BY DEF SessionInv
  <1> QED
    BY <1>1, <1>2, CountPinFailureKeepsPins, IgnoreKeepsInv

(* From the offer to the receipt.                                          *)
LEMMA EnrollSteps ==
  ASSUME SessionInv,
         \/ SendOffer \/ CheckBeforePrompt \/ Approve \/ CheckAfterPrompt
         \/ \E key \in Keys \union {Unparseable} : RecvEnroll(key)
  PROVE  SessionInv'
  <1>1. /\ pc \in Proven
        /\ pc' \in Proven \ {"receipt", "offer"}
        /\ UNCHANGED <<now, canceled, reply, pins, file, before, outcome>>
    BY DEF SendOffer, CheckBeforePrompt, Approve, CheckAfterPrompt, RecvEnroll,
           FrameComplete, Proven
  <1>2. PinsInv'
    BY <1>1, PinsKept DEF SessionInv
  <1>3. conn' \in Conns
    BY DEF SessionInv, TypeOK, Conns, SendOffer, CheckBeforePrompt, Approve,
           CheckAfterPrompt, RecvEnroll
  <1>4. TypeOK'
    BY <1>1, <1>3 DEF SessionInv, TypeOK, Phases, Reading, Proven, pins
  <1>5. ConnInv'
    <2> USE DEF SessionInv, TypeOK, Conns, ConnInv, Accepts, Proven, KeyRead, pins
    <2>1. CASE SendOffer
      BY <1>1, <2>1 DEF SendOffer
    <2>2. ASSUME NEW key \in Keys \union {Unparseable}, RecvEnroll(key)
          PROVE ConnInv'
      <3>1. /\ conn'.proven = conn.proven
            /\ conn'.mode = conn.mode
            /\ conn'.key = key
        BY <2>2 DEF RecvEnroll
      <3>2. key \in Ed25519Keys /\ pc = "enroll" /\ pc' = "check"
        BY <2>2 DEF RecvEnroll, FrameComplete
      <3> QED
        BY <1>1, <3>1, <3>2
    <2>3. CASE CheckBeforePrompt
      BY <1>1, <2>3 DEF CheckBeforePrompt
    <2>4. CASE Approve
      BY <1>1, <2>4 DEF Approve
    <2>5. CASE CheckAfterPrompt
      BY <1>1, <2>5 DEF CheckAfterPrompt
    <2> QED
      BY <2>1, <2>2, <2>3, <2>4, <2>5
  <1>6. FileInv' /\ ReplyInv' /\ OutcomeInv'
    BY <1>1 DEF SessionInv, FileInv, ReplyInv, OutcomeInv, Serving, Proven,
                SendOffer, CheckBeforePrompt, Approve, CheckAfterPrompt,
                RecvEnroll, FrameComplete
  <1> QED
    BY <1>2, <1>4, <1>5, <1>6 DEF SessionInv

LEMMA EnsureLineStep ==
  ASSUME SessionInv, EnsureLine
  PROVE  SessionInv'
  <1>1. /\ pc = "write" /\ pc' = "receipt"
        /\ UNCHANGED <<now, canceled, conn, reply, pins, before, outcome>>
    BY DEF EnsureLine
  <1>2. conn.key \in Ed25519Keys /\ conn.key \in Keys
    BY <1>1, KeyAssumption DEF SessionInv, ConnInv, KeyRead
  <1>3. file = before
    BY <1>1 DEF SessionInv, FileInv
  <1>4. file' \subseteq Lines
    BY <1>2 DEF EnsureLine, SessionInv, TypeOK, Lines
  <1>5. TypeOK'
    BY <1>1, <1>4 DEF SessionInv, TypeOK, Phases, pins
  <1>6. ConnInv'
    BY <1>1 DEF SessionInv, ConnInv, Accepts, Proven, KeyRead, pins
  <1>7. KeyInFile'
    BY <1>1, <1>2, <1>3 DEF EnsureLine, KeyInFile, SessionInv, ConnInv, Proven
  <1>8. FileInv' /\ ReplyInv' /\ OutcomeInv'
    BY <1>1, <1>7 DEF SessionInv, FileInv, ReplyInv, OutcomeInv, Serving, Proven
  <1> QED
    BY <1>1, <1>5, <1>6, <1>8, PinsKept DEF SessionInv

(* The two endings that a credential holder and the operator bring about.  *)
LEMMA EndingSteps ==
  ASSUME SessionInv, Decline \/ SendReceipt
  PROVE  SessionInv'
  <1>1. /\ pc' = "ended"
        /\ UNCHANGED <<now, canceled, conn, pins, file, before>>
        /\ pc \in {"prompt", "receipt"}
    BY DEF Decline, SendReceipt, Return
  <1>2. TypeOK'
    BY <1>1 DEF SessionInv, TypeOK, Phases, Outcomes, Refusals, Decline,
                SendReceipt, Return, TellPeer, pins
  <1>3. ConnInv'
    BY <1>1 DEF SessionInv, ConnInv, Accepts, Proven, KeyRead, pins
  <1>4. FileInv'
    BY <1>1 DEF FileInv
  <1>5. ReplyInv' /\ OutcomeInv'
    <2>1. CASE Decline
      BY <1>1, <2>1 DEF Decline, Return, TellPeer, SessionInv, ConnInv, FileInv,
                        ReplyInv, OutcomeInv, Serving, Proven, KeyRead
    <2>2. CASE SendReceipt
      BY <1>1, <2>2, KeyInFileKept
      DEF SendReceipt, Return, TellPeer, SessionInv, FileInv, ReplyInv,
          OutcomeInv, Serving, Proven
    <2> QED
      BY <2>1, <2>2
  <1> QED
    BY <1>1, <1>2, <1>3, <1>4, <1>5, PinsKept DEF SessionInv

LEMMA SessionNext == SessionInv /\ [Next]_vars => SessionInv'
  <1> SUFFICES ASSUME SessionInv, [Next]_vars PROVE SessionInv'
    OBVIOUS
  <1>1. CASE UNCHANGED vars
    BY <1>1 DEF vars, SessionInv, TypeOK, PinsInv, NoticesCountDown, ConnInv,
                Accepts, FileInv, KeyInFile, ReplyInv, OutcomeInv, pins
  <1>2. CASE PeerStep
    BY <1>2, LoopSteps, ReadSteps, DropSteps, WrongPinStep, EnrollSteps
    DEF PeerStep
  <1>3. CASE ServerStep
    BY <1>3, LoopSteps, DropSteps, EnrollSteps, EnsureLineStep, EndingSteps
    DEF ServerStep
  <1>4. CASE Operator
    BY <1>4, EnrollSteps, EndingSteps DEF Operator
  <1> QED
    BY <1>1, <1>2, <1>3, <1>4, ClockSteps DEF Next, Terminated

(* Every reachable state satisfies the inductive invariant.                *)
THEOREM SessionInvariant == Spec => []SessionInv
  BY SessionInit, SessionNext, PTL DEF Spec

(* Type correctness of every reachable state.                              *)
THEOREM TypeCorrect == Spec => []TypeOK
  <1>1. SessionInv => TypeOK
    BY DEF SessionInv
  <1> QED
    BY <1>1, SessionInvariant, PTL

(* However many peers try, on however many connections, no peer is served  *)
(* on the strength of a PIN after MaxPinAttempts wrong guesses.            *)
THEOREM PinIsBounded == Spec => []RetiredPinNeverProves
  <1>1. SessionInv => RetiredPinNeverProves
    BY DEF SessionInv, TypeOK, PinsInv, ConnInv, Accepts, RetiredPinNeverProves
  <1> QED
    BY <1>1, SessionInvariant, PTL

(* The operator hears of every wrong guess once, in countdown order, and   *)
(* of the retirement once.                                                 *)
THEOREM OperatorIsToldOnce == Spec => []NoticesCountDown
  <1>1. SessionInv => NoticesCountDown
    BY DEF SessionInv, PinsInv
  <1> QED
    BY <1>1, SessionInvariant, PTL

(* No key reaches the file but one ed25519 key of a peer that proved a     *)
(* credential, approved by the operator, within the offer's time.          *)
THEOREM Consent == Spec => []EnrolledOnlyWithConsent
  <1>1. SessionInv => EnrolledOnlyWithConsent
    <2> SUFFICES ASSUME SessionInv, file # before
                 PROVE  KeyInFile
      BY DEF EnrolledOnlyWithConsent, KeyInFile
    <2>1. pc \in {"receipt", "ended"}
      BY DEF SessionInv, FileInv
    <2>2. CASE pc = "receipt"
      BY <2>2 DEF SessionInv, FileInv
    <2>3. CASE pc = "ended"
      BY <2>3 DEF SessionInv, TypeOK, OutcomeInv, Outcomes
    <2> QED
      BY <2>1, <2>2, <2>3
  <1> QED
    BY <1>1, SessionInvariant, PTL

LEMMA KeyInFileIsInFile ==
  ASSUME KeyInFile PROVE \E line \in file : line.key = conn.key
  <1> DEFINE mine == [key |-> conn.key, comment |-> Marker]
  <1>1. mine.key = conn.key
    OBVIOUS
  <1> QED
    BY <1>1 DEF KeyInFile

(* Enrolled means the key is in; every other ending left the file alone.   *)
THEOREM TruthfulOutcome == Spec => []OutcomeTellsTruth
  <1>1. SessionInv => OutcomeTellsTruth
    BY KeyInFileIsInFile DEF SessionInv, OutcomeInv, OutcomeTellsTruth
  <1> QED
    BY <1>1, SessionInvariant, PTL

(* The DONE a client gets agrees with the file.                            *)
THEOREM TruthfulReceipt == Spec => []ReceiptTellsTruth
  <1>1. SessionInv => ReceiptTellsTruth
    <2> SUFFICES ASSUME SessionInv PROVE ReceiptTellsTruth
      OBVIOUS
    <2>1. reply = "ok" => outcome = "Enrolled"
      BY DEF SessionInv, ReplyInv
    <2>2. reply \in Refusals => file = before
      <3> SUFFICES ASSUME reply \in Refusals PROVE file = before
        OBVIOUS
      <3>1. reply \notin {"ok", "none"}
        BY DEF Refusals
      <3>2. pc # "receipt" /\ outcome # "Enrolled"
        BY <3>1 DEF SessionInv, ReplyInv, OutcomeInv, Serving, Proven
      <3> QED
        BY <3>2 DEF SessionInv, TypeOK, FileInv, OutcomeInv, Outcomes
    <2> QED
      BY <2>1, <2>2, KeyInFileIsInFile DEF SessionInv, OutcomeInv, ReceiptTellsTruth
  <1> QED
    BY <1>1, SessionInvariant, PTL

(* A peer that has proved nothing holds the server for one window.         *)
THEOREM StrangersAreBrief == Spec => []PreauthWindow
  <1>1. SessionInv => PreauthWindow
    BY DEF SessionInv, ConnInv, PreauthWindow
  <1> QED
    BY <1>1, SessionInvariant, PTL

-----------------------------------------------------------------------------
(* Only the steps that return from run() change the outcome.               *)
LEMMA OutcomeSteps ==
  ASSUME [Next]_vars, outcome' # outcome
  PROVE  NoticeCancel \/ NoticeExpiry \/ Decline \/ SendReceipt
  BY DEF Next, PeerStep, ServerStep, Operator, Tick, Signal, Terminated, vars,
         PollAgain, AcceptNone, Accept, Ignore, ReadLength, DropConnection,
         ReadTimeout, RecvIntro, RecvGoodProof, RecvBadToken, RecvRetiredPin,
         RecvWrongPin, SendOffer, OfferNotSent, RecvBadKey, RecvEnroll, TooLate,
         CheckBeforePrompt, Approve, CheckAfterPrompt, EnsureLine,
         EnsureLineFails

(* A peer that has proved nothing cannot end the offer.                    *)
THEOREM StrangersAreHarmless == Spec => StrangersEndNothing
  <1> DEFINE Caused == CASE outcome' = "Canceled" -> canceled
                         [] outcome' = "Expired"  -> now >= Deadline
                         [] OTHER -> conn.proven /\ conn.key \in Ed25519Keys
  <1>1. SessionInv /\ [Next]_vars => [outcome' # outcome => Caused]_vars
    <2> SUFFICES ASSUME SessionInv, [Next]_vars, outcome' # outcome
                 PROVE  Caused
      OBVIOUS
    <2>1. CASE NoticeCancel
      BY <2>1 DEF NoticeCancel, Return
    <2>2. CASE NoticeExpiry
      BY <2>2 DEF NoticeExpiry, Return
    <2>3. CASE Decline \/ SendReceipt
      <3>1. /\ outcome' \in {"Declined", "Enrolled"}
            /\ pc \in {"prompt", "receipt"}
        BY <2>3 DEF Decline, SendReceipt, Return
      <3>2. conn.proven /\ conn.key \in Ed25519Keys
        BY <3>1 DEF SessionInv, ConnInv, Proven, KeyRead
      <3> QED
        BY <3>1, <3>2
    <2> QED
      BY <2>1, <2>2, <2>3, OutcomeSteps
  <1> QED
    BY <1>1, SessionInvariant, PTL DEF Spec, StrangersEndNothing
-----------------------------------------------------------------------------
(* The step simulation: every step of the session is a step of the offer   *)
(* or leaves it alone.                                                     *)

LEMMA OfferInit == Init => Offer!Init
  <1> SUFFICES ASSUME Init PROVE Offer!Init
    OBVIOUS
  <1>1. offerStatus = "open"
    BY DEF Init, offerStatus
  <1>2. offerKeys \in SUBSET Keys
    BY DEF Init, offerKeys
  <1>3. offerTries = MaxPinAttempts
    BY DEF Init, offerTries
  <1>4. offerHolder = "nobody"
    BY DEF Init, offerHolder, NoConn
  <1> QED
    BY <1>1, <1>2, <1>3, <1>4
    DEF Offer!Init, offerKeys, offerTries, offerHolder

LEMMA OfferOpen ==
  ASSUME SessionInv, pc \notin {"receipt", "ended"}
  PROVE  offerStatus = "open"
  BY DEF SessionInv, OutcomeInv, offerStatus

(* A step that moves the thread between open phases and touches neither    *)
(* the file, the PIN count nor who holds a credential is invisible.        *)
LEMMA OfferStutters ==
  ASSUME SessionInv, SessionInv',
         pc \notin {"receipt", "ended"}, pc' \notin {"receipt", "ended"},
         file' = file, pinFailures' = pinFailures, offerHolder' = offerHolder
  PROVE  UNCHANGED offerVars
  <1>1. offerStatus = "open" /\ offerStatus' = "open"
    BY DEF SessionInv, OutcomeInv, offerStatus
  <1>2. offerKeys' = offerKeys /\ offerTries' = offerTries
    BY DEF offerKeys, offerTries
  <1> QED
    BY <1>1, <1>2 DEF offerVars

LEMMA DropIsRelease ==
  ASSUME SessionInv, SessionInv', Ignore, pc \notin {"receipt", "ended"},
         pinFailures' = pinFailures
  PROVE  Offer!Release \/ UNCHANGED offerVars
  <1>1. offerHolder' = "nobody" /\ pc' = "poll" /\ file' = file
    BY DEF Ignore, NoConn, offerHolder
  <1>2. CASE offerHolder = "nobody"
    BY <1>1, <1>2, OfferStutters
  <1>3. CASE offerHolder # "nobody"
    <2>1. offerStatus = "open" /\ offerStatus' = "open"
      BY <1>1 DEF SessionInv, OutcomeInv, offerStatus
    <2>2. offerKeys' = offerKeys /\ offerTries' = offerTries
      BY <1>1 DEF offerKeys, offerTries
    <2> QED
      BY <1>1, <1>3, <2>1, <2>2 DEF Offer!Release
  <1> QED
    BY <1>2, <1>3

LEMMA GoodProofIsProve ==
  ASSUME SessionInv, SessionInv', RecvGoodProof
  PROVE  \E via \in Offer!Credentials : Offer!Prove(via)
  <1>1. /\ pc = "hello" /\ pc' = "offer"
        /\ conn.mode \in {"token", "pin"}
        /\ conn.mode = "pin" => ~pinRetired
        /\ UNCHANGED <<pins, file, outcome>>
    BY DEF RecvGoodProof, FrameComplete, Accepts
  <1>2. conn'.proven /\ conn'.mode = conn.mode
    BY DEF RecvGoodProof, SessionInv, TypeOK, Conns
  <1>3. offerHolder = "nobody" /\ offerHolder' = conn.mode
    BY <1>1, <1>2 DEF SessionInv, ConnInv, offerHolder
  <1>4. conn.mode = "pin" => offerTries > 0
    BY <1>1 DEF SessionInv, TypeOK, PinsInv, offerTries
  <1>5. offerStatus = "open" /\ offerStatus' = "open"
    BY <1>1 DEF SessionInv, OutcomeInv, offerStatus
  <1>6. offerKeys' = offerKeys /\ offerTries' = offerTries
    BY <1>1 DEF offerKeys, offerTries, pins
  <1>7. Offer!Prove(conn.mode)
    BY <1>3, <1>4, <1>5, <1>6 DEF Offer!Prove
  <1> QED
    BY <1>1, <1>7 DEF Offer!Credentials

LEMMA WrongPinIsWrongPin ==
  ASSUME SessionInv, SessionInv', RecvWrongPin
  PROVE  Offer!WrongPin
  <1>1. /\ pc = "hello" /\ pc' = "poll"
        /\ ~pinRetired
        /\ pinFailures' = pinFailures + 1
        /\ conn' = NoConn
        /\ file' = file
    BY DEF RecvWrongPin, FrameComplete, CountPinFailure, Ignore
  <1>2. offerHolder = "nobody" /\ offerHolder' = "nobody"
    BY <1>1 DEF SessionInv, ConnInv, NoConn, offerHolder
  <1>3. offerTries > 0 /\ offerTries' = offerTries - 1
    BY <1>1 DEF SessionInv, TypeOK, PinsInv, offerTries
  <1>4. offerStatus = "open" /\ offerStatus' = "open"
    BY <1>1 DEF SessionInv, OutcomeInv, offerStatus
  <1>5. offerKeys' = offerKeys
    BY <1>1 DEF offerKeys
  <1> QED
    BY <1>2, <1>3, <1>4, <1>5 DEF Offer!WrongPin

LEMMA EnsureLineIsEnroll ==
  ASSUME SessionInv, SessionInv', EnsureLine
  PROVE  \E k \in Keys : Offer!Enroll(k)
  <1>1. /\ pc = "write" /\ pc' = "receipt"
        /\ UNCHANGED <<conn, pins>>
    BY DEF EnsureLine
  <1>2. conn.key \in Keys /\ conn.proven /\ conn.mode \in {"token", "pin"}
    BY <1>1, KeyAssumption DEF SessionInv, ConnInv, Accepts, Proven, KeyRead
  <1>3. offerStatus = "open" /\ offerStatus' = "Enrolled"
    BY <1>1 DEF SessionInv, OutcomeInv, offerStatus
  <1>4. offerHolder # "nobody" /\ offerHolder' = offerHolder
    BY <1>1, <1>2 DEF offerHolder
  <1>5. offerTries' = offerTries
    BY <1>1 DEF offerTries, pins
  <1>6. offerKeys' = offerKeys \union {conn.key}
    <2>1. CASE \E line \in file : line.key = conn.key
      BY <2>1 DEF EnsureLine, offerKeys
    <2>2. CASE \A line \in file : line.key # conn.key
      <3> DEFINE mine == [key |-> conn.key, comment |-> Marker]
      <3>1. file' = file \union {mine} /\ mine.key = conn.key
        BY <2>2 DEF EnsureLine
      <3> HIDE DEF mine
      <3> QED
        BY <3>1 DEF offerKeys
    <2> QED
      BY <2>1, <2>2
  <1>7. Offer!Enroll(conn.key)
    BY <1>3, <1>4, <1>5, <1>6 DEF Offer!Enroll
  <1> QED
    BY <1>2, <1>7

LEMMA EndingsAreEndings ==
  ASSUME SessionInv, SessionInv',
         NoticeCancel \/ NoticeExpiry \/ Decline \/ SendReceipt
  PROVE  \/ \E why \in {"Expired", "Canceled"} : Offer!Withdraw(why)
         \/ Offer!Decline
         \/ UNCHANGED offerVars
  <1>1. /\ pc' = "ended"
        /\ UNCHANGED <<conn, pins, file>>
    BY DEF NoticeCancel, NoticeExpiry, Decline, SendReceipt, Return
  <1>2. offerHolder' = offerHolder /\ offerKeys' = offerKeys /\ offerTries' = offerTries
    BY <1>1 DEF offerHolder, offerKeys, offerTries, pins
  <1>3. ASSUME NEW why, outcome' = why, why # "none"
        PROVE  offerStatus' = why
    BY <1>1, <1>3 DEF offerStatus
  <1>4. CASE NoticeCancel \/ NoticeExpiry
    <2>1. pc = "poll" /\ outcome' \in {"Expired", "Canceled"}
      BY <1>4 DEF NoticeCancel, NoticeExpiry, Return
    <2>2. offerStatus = "open" /\ offerStatus' = outcome'
      BY <2>1, <1>3, OfferOpen
    <2>3. offerHolder = "nobody"
      BY <2>1 DEF SessionInv, ConnInv, NoConn, offerHolder
    <2> QED
      BY <1>2, <2>1, <2>2, <2>3 DEF Offer!Withdraw
  <1>5. CASE Decline
    <2>1. pc = "prompt" /\ outcome' = "Declined"
      BY <1>5 DEF Decline, Return
    <2>2. offerStatus = "open" /\ offerStatus' = "Declined"
      BY <2>1, <1>3, OfferOpen
    <2>3. offerHolder # "nobody"
      BY <2>1 DEF SessionInv, ConnInv, Proven, Accepts, offerHolder
    <2> QED
      BY <1>2, <2>2, <2>3 DEF Offer!Decline
  <1>6. CASE SendReceipt
    <2>1. pc = "receipt" /\ outcome' = "Enrolled"
      BY <1>6 DEF SendReceipt, Return
    <2>2. offerStatus = "Enrolled" /\ offerStatus' = "Enrolled"
      <3>1. offerStatus = "Enrolled"
        BY <2>1 DEF offerStatus
      <3> QED
        BY <2>1, <1>3, <3>1
    <2> QED
      BY <1>2, <2>2 DEF offerVars
  <1> QED
    BY <1>4, <1>5, <1>6

(* The steps that change nothing the offer is about.                       *)
LEMMA QuietSteps ==
  ASSUME SessionInv, SessionInv',
         \/ PollAgain \/ AcceptNone \/ Accept \/ ReadLength
         \/ \E mode \in Modes : RecvIntro(mode)
         \/ SendOffer
         \/ \E key \in Keys \union {Unparseable} : RecvEnroll(key)
         \/ CheckBeforePrompt \/ Approve \/ CheckAfterPrompt
  PROVE  UNCHANGED offerVars
  <1>1. /\ pc \notin {"receipt", "ended"} /\ pc' \notin {"receipt", "ended"}
        /\ UNCHANGED <<file, pins>>
    BY DEF PollAgain, AcceptNone, Accept, ReadLength, RecvIntro, SendOffer,
           RecvEnroll, CheckBeforePrompt, Approve, CheckAfterPrompt,
           FrameComplete, Reading
  <1>2. offerHolder' = offerHolder
    <2>1. CASE PollAgain \/ AcceptNone \/ SendOffer \/ CheckBeforePrompt
      BY <2>1 DEF PollAgain, AcceptNone, SendOffer, CheckBeforePrompt, offerHolder
    <2>2. CASE Accept
      BY <2>2 DEF Accept, SessionInv, ConnInv, NoConn, offerHolder
    <2>3. ASSUME NEW mode \in Modes, RecvIntro(mode)
          PROVE  offerHolder' = offerHolder
      BY <2>3 DEF RecvIntro, FrameComplete, SessionInv, TypeOK, Conns, ConnInv,
                  offerHolder
    <2>4. ASSUME NEW key \in Keys \union {Unparseable}, RecvEnroll(key)
          PROVE  offerHolder' = offerHolder
      <3>1. conn'.proven = conn.proven /\ conn'.mode = conn.mode
        BY <2>4 DEF RecvEnroll, SessionInv, TypeOK, Conns
      <3> QED
        BY <3>1 DEF offerHolder
    <2>5. CASE ReadLength \/ Approve \/ CheckAfterPrompt
      BY <2>5 DEF ReadLength, Approve, CheckAfterPrompt, SessionInv, TypeOK,
                  Conns, offerHolder
    <2> QED
      BY <2>1, <2>2, <2>3, <2>4, <2>5
  <1> QED
    BY <1>1, <1>2, OfferStutters DEF pins

LEMMA OfferStep ==
  ASSUME SessionInv, SessionInv', [Next]_vars
  PROVE  [Offer!Next]_offerVars
  <1>1. CASE UNCHANGED vars \/ Tick \/ Signal \/ Terminated
    <2>1. UNCHANGED <<pc, conn, pinFailures, file, outcome>>
      BY <1>1 DEF vars, Tick, Signal, Terminated, pins
    <2> QED
      BY <2>1 DEF offerVars, offerStatus, offerKeys, offerTries, offerHolder
  <1>2. CASE \/ DropConnection \/ ReadTimeout \/ RecvBadToken
             \/ RecvRetiredPin \/ OfferNotSent \/ TooLate \/ EnsureLineFails
             \/ \E key \in Keys \union {Unparseable} : RecvBadKey(key)
    <2>1. Ignore /\ pinFailures' = pinFailures /\ pc \notin {"receipt", "ended"}
      BY <1>2 DEF DropConnection, ReadTimeout, ReadDue, RecvBadToken,
                  RecvRetiredPin, OfferNotSent, TooLate, EnsureLineFails,
                  RecvBadKey, FrameComplete, Reading, pins
    <2> QED
      BY <2>1, DropIsRelease DEF Offer!Next
  <1>3. CASE RecvGoodProof
    BY <1>3, GoodProofIsProve DEF Offer!Next
  <1>4. CASE RecvWrongPin
    BY <1>4, WrongPinIsWrongPin DEF Offer!Next
  <1>5. CASE EnsureLine
    BY <1>5, EnsureLineIsEnroll DEF Offer!Next
  <1>6. CASE NoticeCancel \/ NoticeExpiry \/ Decline \/ SendReceipt
    BY <1>6, EndingsAreEndings DEF Offer!Next
  <1>7. CASE \/ PollAgain \/ AcceptNone \/ Accept \/ ReadLength
             \/ \E mode \in Modes : RecvIntro(mode)
             \/ SendOffer
             \/ \E key \in Keys \union {Unparseable} : RecvEnroll(key)
             \/ CheckBeforePrompt \/ Approve \/ CheckAfterPrompt
    BY <1>7, QuietSteps
  <1> QED
    BY <1>1, <1>2, <1>3, <1>4, <1>5, <1>6, <1>7
    DEF Next, PeerStep, ServerStep, Operator

(* The bind session implements the offer it is meant to be.                *)
THEOREM SessionImplementsOffer == Spec => ImplementsOffer
  <1>1. SessionInv /\ SessionInv' /\ [Next]_vars => [Offer!Next]_(Offer!vars)
    BY OfferStep DEF offerVars, Offer!vars
  <1> QED
    BY OfferInit, SessionInvariant, <1>1, PTL DEF Spec, Offer!Spec, ImplementsOffer
=============================================================================
