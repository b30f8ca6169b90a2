-------------------------- MODULE BindCommandProofs --------------------------
(***************************************************************************)
(* Theorems about BindCommand: its invariants, for any number of keys and  *)
(* of PIN tries.                                                           *)
(***************************************************************************)
EXTENDS BindCommand, SequenceTheorems, TLAPS

(* What is known of the key at each step of main.                          *)
Untouched == keys = before /\ enrolled = NoKey

KeyInv ==
  /\ step \in {"start", "listening", "published", "generate", "serving"}
       => Untouched /\ status = "open"
  /\ step \in {"unregister", "shutdown", "report"} =>
       /\ status # "open"
       /\ status = "Enrolled" => enrolled \in keys
       /\ status # "Enrolled" => Untouched
  /\ step = "publish key" => enrolled \in keys
  /\ step \in {"generate", "publish key"} => args.offline
  /\ step # "exited" => exit = NoExit /\ "private key" \notin told

(* What the daemon still has to do at each step: once asked, the goodbye is *)
(* the last thing in the queue until it has been taken.                    *)
Leaving == step \in {"shutdown", "report", "exited"}

DaemonInv ==
  /\ ~args.announce => queue = <<>> /\ ~registered
  /\ step \in {"start", "listening", "generate", "publish key"}
       => queue = <<>> /\ ~registered
  /\ step \in {"published", "serving", "unregister"}
       => queue \in {<<"register">>, <<>>}
  /\ Leaving /\ ~refused =>
       IF queue = <<>> THEN ~registered ELSE queue[Len(queue)] = "unregister"

WordsInv == ExitTellsTruth /\ NoSilentKey /\ OfflineKeyAccounted

StrayInv == keys \ before \subseteq marked

CommandInv == TypeOK /\ KeyInv /\ DaemonInv /\ StrayInv /\ WordsInv
-----------------------------------------------------------------------------
USE DEF Untouched, Leaving, announcer, outside, fileAndKey, offer, words

LEMMA InvInit == Init => CommandInv
  <1> SUFFICES ASSUME Init PROVE CommandInv
    OBVIOUS
  <1> USE DEF Init, Offer!Init
  <1>1. TypeOK
    <2>1. status \in {"open"} \union Offer!Endings /\ keys \subseteq Keys
      OBVIOUS
    <2>2. tries \in 0..Tries
      BY TriesAssumption
    <2>3. holder \in {"nobody"} \union Offer!Credentials
      OBVIOUS
    <2>4. queue \in Seq({"register", "unregister"})
      OBVIOUS
    <2>5. exit \in ExitCodes /\ told \subseteq Notices /\ step \in Steps
      BY DEF Steps, Notices, ExitCodes, NoExit
    <2>6. enrolled \in keys \union {NoKey} /\ marked \subseteq keys /\ before \subseteq Keys
      OBVIOUS
    <2> QED
      BY <2>1, <2>2, <2>3, <2>4, <2>5, <2>6 DEF TypeOK, Offer!TypeOK
  <1>2. KeyInv /\ DaemonInv
    BY DEF KeyInv, DaemonInv
  <1>3. StrayInv /\ WordsInv
    BY DEF StrayInv, WordsInv, ExitTellsTruth, NoSilentKey, OfflineKeyAccounted, NoExit
  <1> QED
    BY <1>1, <1>2, <1>3 DEF CommandInv

(* Types; an exit code for every way the offer ends.                       *)
LEMMA TypeNext == TypeOK /\ KeyInv /\ [Next]_vars => TypeOK'
  <1> SUFFICES ASSUME TypeOK, KeyInv, [Next]_vars PROVE TypeOK'
    OBVIOUS
  <1> USE DEF TypeOK, Offer!TypeOK
  <1>1. CASE Listen
    BY <1>1 DEF Listen, Steps
  <1>2. CASE ListenFails
    <2>1. exit' \in ExitCodes
      BY <1>2 DEF ListenFails, Exit, ExitCodes
    <2>2. told' \subseteq Notices /\ step' \in Steps
      BY <1>2 DEF ListenFails, Exit, Tell, Notices, Steps
    <2> QED
      BY <1>2, <2>1, <2>2 DEF ListenFails
  <1>3. CASE Announce
    BY <1>3 DEF Announce, Steps
  <1>4. CASE DoNotAnnounce
    BY <1>4 DEF DoNotAnnounce, Steps
  <1>5. CASE Install
    BY <1>5 DEF Install, Steps
  <1>6. ASSUME NEW key \in Keys, ServeEnroll(key)
        PROVE  TypeOK'
    BY <1>6 DEF ServeEnroll, Offer!Enroll, Offer!Endings, Steps
  <1>7. CASE ServeDecline
    BY <1>7 DEF ServeDecline, Offer!Decline, Offer!Endings, Steps
  <1>8. CASE ServeWithdraw
    BY <1>8 DEF ServeWithdraw, Offer!Withdraw, Offer!Endings, Steps
  <1>9. CASE ServePeer
    <2>1. CASE Offer!WrongPin
      BY <1>9, <2>1, TriesAssumption DEF ServePeer, Offer!WrongPin
    <2>2. ASSUME NEW via \in Offer!Credentials, Offer!Prove(via)
          PROVE  TypeOK'
      BY <1>9, <2>2 DEF ServePeer, Offer!Prove
    <2> QED
      BY <1>9, <2>1, <2>2 DEF ServePeer
  <1>10. CASE DropPeer
    BY <1>10 DEF DropPeer, Offer!Release
  <1>11. CASE Unregister
    <2>1. Append(queue, "unregister") \in Seq({"register", "unregister"})
      OBVIOUS
    <2>2. queue' \in {queue, Append(queue, "unregister")} /\ refused' \in BOOLEAN
      BY <1>11 DEF Unregister
    <2>3. queue' \in Seq({"register", "unregister"}) /\ step' \in Steps
      BY <1>11, <2>1, <2>2 DEF Unregister, Steps
    <2> QED
      BY <1>11, <2>2, <2>3 DEF Unregister
  <1>12. CASE Shutdown
    BY <1>12 DEF Shutdown, Steps
  <1>22. CASE Report
    <2>1. status # "open" => ExitCode \in {0, 1, 2, 130}
      BY DEF ExitCode, Codes, Offer!Endings
    <2>2. status # "open"
      BY <1>22 DEF KeyInv, Report
    <2>3. exit' \in ExitCodes
      BY <1>22, <2>1, <2>2 DEF Report, Exit, ExitCodes
    <2>4. told' \subseteq Notices /\ step' \in Steps
      BY <1>22, <2>2 DEF Report, Exit, Tell, Warnings, Notices, Steps
    <2> QED
      BY <1>22, <2>3, <2>4 DEF Report
  <1>13. CASE OfflineStart
    BY <1>13 DEF OfflineStart, Steps
  <1>14. CASE OfflineFails
    <2>1. exit' \in ExitCodes
      BY <1>14 DEF OfflineFails, Exit, ExitCodes
    <2>2. told' \subseteq Notices /\ step' \in Steps
      BY <1>14 DEF OfflineFails, Exit, Tell, Notices, Steps
    <2> QED
      BY <1>14, <2>1, <2>2 DEF OfflineFails
  <1>15. CASE OfflinePublish
    <2>1. exit' \in ExitCodes
      BY <1>15 DEF OfflinePublish, Exit, ExitCodes
    <2>2. told' \subseteq Notices /\ step' \in Steps
      BY <1>15 DEF OfflinePublish, Exit, Tell, Notices, Steps, Offer!Endings
    <2> QED
      BY <1>15, <2>1, <2>2 DEF OfflinePublish
  <1>16. ASSUME NEW key \in Keys, OfflineInstall(key)
        PROVE  TypeOK'
    BY <1>16 DEF OfflineInstall, Steps
  <1>17. CASE Daemon
    BY <1>17 DEF Daemon
  <1>18. CASE Expire
    BY <1>18 DEF Expire
  <1>19. CASE SignalFlags
    BY <1>19 DEF SignalFlags
  <1>20. CASE SignalKills
    <2>1. queue' = <<>> /\ step' \in Steps
      BY <1>20 DEF SignalKills, Steps
    <2>2. queue' \in Seq({"register", "unregister"})
      BY <2>1
    <2> QED
      BY <1>20, <2>1, <2>2 DEF SignalKills
  <1>21. CASE UNCHANGED vars
    BY <1>21 DEF vars
  <1> QED
    BY <1>1, <1>2, <1>3, <1>4, <1>5, <1>6, <1>7, <1>8, <1>9, <1>10, <1>11, <1>12,
       <1>22, <1>13, <1>14, <1>15, <1>16, <1>17, <1>18, <1>19, <1>20, <1>21
    DEF Next, Main, Prepare, Serve, WindUp, Offline

(* The key: the offer ends in one way, and what main does next depends on  *)
(* which.                                                                  *)
LEMMA KeyNext == TypeOK /\ KeyInv /\ [Next]_vars => KeyInv'
  <1> SUFFICES ASSUME TypeOK, KeyInv, [Next]_vars PROVE KeyInv'
    OBVIOUS
  <1>1. CASE Listen \/ ListenFails
    BY <1>1 DEF Listen, ListenFails, Exit, Tell, KeyInv
  <1>2. CASE Announce
    BY <1>2 DEF Announce, KeyInv
  <1>3. CASE DoNotAnnounce \/ Install
    BY <1>3 DEF DoNotAnnounce, Install, KeyInv
  <1>4. ASSUME NEW key \in Keys, ServeEnroll(key)
        PROVE  KeyInv'
    <2>1. status' = "Enrolled" /\ enrolled' \in keys' /\ step' = "unregister"
      BY <1>4 DEF ServeEnroll, Offer!Enroll
    <2> QED
      BY <1>4, <2>1 DEF ServeEnroll, KeyInv
  <1>5. CASE ServeDecline \/ ServeWithdraw
    <2>1. status' \notin {"open", "Enrolled"} /\ step' = "unregister"
      BY <1>5 DEF ServeDecline, ServeWithdraw, Offer!Decline, Offer!Withdraw
    <2>2. UNCHANGED <<keys, before, enrolled, exit, told>>
      BY <1>5 DEF ServeDecline, ServeWithdraw, Offer!Decline, Offer!Withdraw
    <2> QED
      BY <1>5, <2>1, <2>2 DEF ServeDecline, ServeWithdraw, KeyInv
  <1>6. CASE ServePeer \/ DropPeer
    BY <1>6 DEF ServePeer, Offer!Prove, Offer!WrongPin, DropPeer, Offer!Release,
           KeyInv
  <1>7. CASE Unregister
    BY <1>7 DEF Unregister, KeyInv
  <1>8. CASE Shutdown
    BY <1>8 DEF Shutdown, KeyInv
  <1>9. CASE Report
    BY <1>9 DEF Report, Exit, Tell, KeyInv
  <1>10. CASE OfflineStart \/ OfflineFails \/ OfflinePublish
    BY <1>10 DEF OfflineStart, OfflineFails, Exit, Tell, OfflinePublish, KeyInv
  <1>11. ASSUME NEW key \in Keys, OfflineInstall(key)
        PROVE  KeyInv'
    BY <1>11 DEF OfflineInstall, KeyInv
  <1>12. CASE Daemon
    BY <1>12 DEF Daemon, Running, KeyInv
  <1>13. CASE Expire \/ SignalFlags \/ SignalKills
    BY <1>13 DEF Expire, SignalFlags, Running, SignalKills, KeyInv
  <1>14. CASE UNCHANGED vars
    BY <1>14 DEF vars, KeyInv
  <1> QED
    BY <1>1, <1>2, <1>3, <1>4, <1>5, <1>6, <1>7, <1>8, <1>9, <1>10, <1>11,
       <1>12, <1>13, <1>14
    DEF Next, Main, Prepare, Serve, WindUp, Offline

(* Taking a command leaves the last one last, unless it was the only one.  *)
LEMMA LengthOfSome ==
  ASSUME NEW q \in Seq({"register", "unregister"}), q # <<>>
  PROVE  Len(q) = 1 \/ Len(q) > 1
  <1>1. Len(q) \in Nat \ {0}
    BY EmptySeq
  <1>2. \A n \in Nat \ {0} : n = 1 \/ n > 1
    OBVIOUS
  <1> QED
    BY <1>1, <1>2, Zenon

LEMMA TailOfOne ==
  ASSUME NEW q \in Seq({"register", "unregister"}), Len(q) = 1,
         q[Len(q)] = "unregister"
  PROVE  Tail(q) = <<>> /\ Head(q) # "register"
  <1>1. q # <<>>
    OBVIOUS
  <1>2. Head(q) = "unregister"
    BY <1>1
  <1>3. Head(q) # "register"
    BY <1>2
  <1>4. Tail(q) \in Seq({"register", "unregister"}) /\ Len(Tail(q)) = 0
    BY <1>1, HeadTailProperties
  <1>5. Tail(q) = <<>>
    BY <1>4, EmptySeq
  <1> QED
    BY <1>3, <1>5

LEMMA TailOfMore ==
  ASSUME NEW q \in Seq({"register", "unregister"}), Len(q) > 1
  PROVE  Tail(q) # <<>> /\ Tail(q)[Len(Tail(q))] = q[Len(q)]
  <1>1. q # <<>>
    OBVIOUS
  <1>2. Len(Tail(q)) = Len(q) - 1
    BY <1>1
  <1>3. \A i \in 1..Len(Tail(q)) : Tail(q)[i] = q[i + 1]
    BY <1>1, HeadTailProperties
  <1>4. Tail(q)[Len(q) - 1] = q[(Len(q) - 1) + 1]
    BY <1>2, <1>3
  <1>5. (Len(q) - 1) + 1 = Len(q)
    OBVIOUS
  <1> QED
    BY <1>2, <1>4, <1>5

(* The daemon: nothing is registered after a goodbye it accepted.          *)
LEMMA DaemonNext == TypeOK /\ DaemonInv /\ [Next]_vars => DaemonInv'
  <1> SUFFICES ASSUME TypeOK, DaemonInv, [Next]_vars PROVE DaemonInv'
    OBVIOUS
  <1>1. CASE Listen
    BY <1>1 DEF Listen, DaemonInv
  <1>2. CASE ListenFails
    BY <1>2 DEF ListenFails, Exit, DaemonInv
  <1>3. CASE Announce
    <2>1. queue = <<>> /\ args.announce
      BY <1>3 DEF Announce, DaemonInv
    <2>2. queue' = <<"register">>
      BY <1>3, <2>1 DEF Announce
    <2> QED
      BY <1>3, <2>1, <2>2 DEF Announce, DaemonInv
  <1>4. CASE DoNotAnnounce
    BY <1>4 DEF DoNotAnnounce, DaemonInv, TypeOK
  <1>5. CASE Install
    BY <1>5 DEF Install, DaemonInv
  <1>6. ASSUME NEW key \in Keys, ServeEnroll(key)
        PROVE  DaemonInv'
    BY <1>6 DEF ServeEnroll, DaemonInv
  <1>7. CASE ServeDecline
    BY <1>7 DEF ServeDecline, DaemonInv
  <1>8. CASE ServeWithdraw
    BY <1>8 DEF ServeWithdraw, DaemonInv
  <1>9. CASE ServePeer
    BY <1>9 DEF ServePeer, DaemonInv
  <1>10. CASE DropPeer
    BY <1>10 DEF DropPeer, DaemonInv
  <1>11. CASE Unregister
    <2>1. /\ step = "unregister" /\ step' = "shutdown"
          /\ UNCHANGED <<args, registered>>
      BY <1>11 DEF Unregister
    <2>2. CASE args.announce /\ queue' = Append(queue, "unregister")
      <3>1. Len(queue') = Len(queue) + 1 /\ queue'[Len(queue')] = "unregister"
        BY <2>2 DEF TypeOK
      <3>2. queue' # <<>>
        BY <2>2 DEF TypeOK
      <3> QED
        BY <2>1, <2>2, <3>1, <3>2 DEF DaemonInv
    <2>3. CASE args.announce /\ refused' = TRUE
      BY <2>1, <2>3 DEF DaemonInv
    <2>4. CASE ~args.announce /\ queue' = queue
      BY <2>1, <2>4 DEF DaemonInv
    <2> QED
      BY <1>11, <2>2, <2>3, <2>4 DEF Unregister
  <1>12. CASE Shutdown
    BY <1>12 DEF Shutdown, DaemonInv
  <1>13. CASE Report
    BY <1>13 DEF Report, Exit, DaemonInv
  <1>14. CASE OfflineStart
    BY <1>14 DEF OfflineStart, DaemonInv
  <1>15. CASE OfflineFails
    BY <1>15 DEF OfflineFails, Exit, DaemonInv
  <1>16. CASE OfflinePublish
    BY <1>16 DEF OfflinePublish, Exit, DaemonInv
  <1>17. ASSUME NEW key \in Keys, OfflineInstall(key)
        PROVE  DaemonInv'
    BY <1>17 DEF OfflineInstall, DaemonInv
  <1>18. CASE Daemon
    <2>1. /\ queue' = Tail(queue) /\ queue # <<>>
          /\ registered' = (Head(queue) = "register")
          /\ step' = step /\ args' = args /\ refused' = refused
      BY <1>18 DEF Daemon
    <2>2. args.announce
      BY <2>1 DEF DaemonInv
    <2>3. CASE Leaving /\ ~refused
      <3>1. queue[Len(queue)] = "unregister"
        BY <2>1, <2>3 DEF DaemonInv
      <3>2. queue \in Seq({"register", "unregister"})
        BY DEF TypeOK
      <3>3. CASE Len(queue) = 1
        <4>1. queue' = <<>> /\ ~registered'
          BY <2>1, <3>1, <3>2, <3>3, TailOfOne
        <4> QED
          BY <2>1, <2>2, <2>3, <4>1 DEF DaemonInv
      <3>4. CASE Len(queue) > 1
        <4>1. queue' # <<>> /\ queue'[Len(queue')] = "unregister"
          BY <2>1, <3>1, <3>2, <3>4, TailOfMore
        <4> QED
          BY <2>1, <2>2, <2>3, <4>1 DEF DaemonInv
      <3> QED
        BY <2>1, <3>2, <3>3, <3>4, LengthOfSome
    <2>4. CASE step \in {"published", "serving", "unregister"}
      <3>1. queue = <<"register">>
        BY <2>1, <2>4 DEF DaemonInv
      <3>2. queue' = <<>>
        BY <2>1, <3>1
      <3> QED
        BY <2>1, <2>2, <2>4, <3>2 DEF DaemonInv
    <2>5. CASE step \notin {"published", "serving", "unregister"} /\ ~(Leaving /\ ~refused)
      BY <2>1, <2>2, <2>5 DEF DaemonInv
    <2> QED
      BY <2>3, <2>4, <2>5
  <1>19. CASE Expire
    BY <1>19 DEF Expire, DaemonInv
  <1>20. CASE SignalFlags
    BY <1>20 DEF SignalFlags, Running, DaemonInv
  <1>21. CASE SignalKills
    BY <1>21 DEF SignalKills, Running, DaemonInv
  <1>22. CASE UNCHANGED vars
    BY <1>22 DEF vars, DaemonInv
  <1> QED
    BY <1>1, <1>2, <1>3, <1>4, <1>5, <1>6, <1>7, <1>8, <1>9, <1>10, <1>11,
       <1>12, <1>13, <1>14, <1>15, <1>16, <1>17, <1>18, <1>19, <1>20, <1>21,
       <1>22
    DEF Next, Main, Prepare, Serve, WindUp, Offline

(* A line mpx adds has its marker.                                         *)
LEMMA StrayNext == StrayInv /\ [Next]_vars => StrayInv'
  <1> SUFFICES ASSUME StrayInv, [Next]_vars PROVE StrayInv'
    OBVIOUS
  <1>1. CASE Listen
    BY <1>1 DEF Listen, StrayInv
  <1>2. CASE ListenFails
    BY <1>2 DEF ListenFails, Exit, StrayInv
  <1>3. CASE Announce
    BY <1>3 DEF Announce, StrayInv
  <1>4. CASE DoNotAnnounce
    BY <1>4 DEF DoNotAnnounce, StrayInv
  <1>5. CASE Install
    BY <1>5 DEF Install, StrayInv
  <1>6. ASSUME NEW key \in Keys, ServeEnroll(key)
        PROVE  StrayInv'
    BY <1>6 DEF ServeEnroll, Offer!Enroll, StrayInv
  <1>7. CASE ServeDecline
    BY <1>7 DEF ServeDecline, Offer!Decline, StrayInv
  <1>8. CASE ServeWithdraw
    BY <1>8 DEF ServeWithdraw, Offer!Withdraw, StrayInv
  <1>9. CASE ServePeer
    <2>1. UNCHANGED <<keys, before, marked>>
      BY <1>9 DEF ServePeer, Offer!Prove, Offer!WrongPin
    <2> QED
      BY <2>1 DEF StrayInv
  <1>10. CASE DropPeer
    BY <1>10 DEF DropPeer, Offer!Release, StrayInv
  <1>11. CASE Unregister
    BY <1>11 DEF Unregister, StrayInv
  <1>12. CASE Shutdown
    BY <1>12 DEF Shutdown, StrayInv
  <1>13. CASE Report
    BY <1>13 DEF Report, Exit, StrayInv
  <1>14. CASE OfflineStart
    BY <1>14 DEF OfflineStart, StrayInv
  <1>15. CASE OfflineFails
    BY <1>15 DEF OfflineFails, Exit, StrayInv
  <1>16. CASE OfflinePublish
    BY <1>16 DEF OfflinePublish, Exit, StrayInv
  <1>17. ASSUME NEW key \in Keys, OfflineInstall(key)
        PROVE  StrayInv'
    BY <1>17 DEF OfflineInstall, StrayInv
  <1>18. CASE Daemon
    BY <1>18 DEF Daemon, Running, StrayInv
  <1>19. CASE Expire
    BY <1>19 DEF Expire, StrayInv
  <1>20. CASE SignalFlags
    BY <1>20 DEF SignalFlags, Running, StrayInv
  <1>21. CASE SignalKills
    BY <1>21 DEF SignalKills, Running, StrayInv
  <1>22. CASE UNCHANGED vars
    BY <1>22 DEF vars, StrayInv
  <1> QED
    BY <1>1, <1>2, <1>3, <1>4, <1>5, <1>6, <1>7, <1>8, <1>9, <1>10, <1>11,
       <1>12, <1>13, <1>14, <1>15, <1>16, <1>17, <1>18, <1>19, <1>20, <1>21,
       <1>22
    DEF Next, Main, Prepare, Serve, WindUp, Offline

(* Who ends the command by exit().                                         *)
LEMMA Exits ==
  ASSUME [Next]_vars, step' = "exited"
  PROVE  ListenFails \/ OfflineFails \/ OfflinePublish \/ Report \/ UNCHANGED vars
  <1>1. CASE Prepare \/ Offline
    BY <1>1 DEF Prepare, Offline, Listen, Announce, DoNotAnnounce, Install,
           OfflineStart, OfflineInstall
  <1>2. CASE Serve \/ WindUp
    BY <1>2 DEF Serve, ServePeer, ServeEnroll, ServeDecline, DropPeer,
           ServeWithdraw, WindUp, Unregister, Shutdown
  <1>3. CASE Expire \/ Daemon \/ SignalFlags \/ SignalKills
    BY <1>3 DEF Expire, Daemon, SignalFlags, SignalKills, Running
  <1> QED
    BY <1>1, <1>2, <1>3 DEF Next, Main

(* The last words, which say what the file says.                           *)
LEMMA WordsNext ==
  TypeOK /\ KeyInv /\ WordsInv /\ [Next]_vars /\ KeyInv' /\ StrayInv' => WordsInv'
  <1> SUFFICES ASSUME TypeOK, KeyInv, WordsInv, [Next]_vars, KeyInv', StrayInv'
               PROVE  WordsInv'
    OBVIOUS
  <1>1. CASE step' # "exited"
    <2>1. exit' = 256 /\ "private key" \notin told'
      BY <1>1, KeyInv' DEF KeyInv, NoExit
    <2>2. ExitTellsTruth'
      <3>1. exit' = 256
        BY <2>1
      <3> QED
        BY <3>1 DEF ExitTellsTruth
    <2>3. NoSilentKey'
      BY <1>1 DEF NoSilentKey
    <2>4. OfflineKeyAccounted'
      BY <2>1, StrayInv' DEF OfflineKeyAccounted, StrayInv
    <2> QED
      BY <2>2, <2>3, <2>4 DEF WordsInv
  <1>2. CASE ListenFails \/ OfflineFails
    <2>1. exit' = 1 /\ "private key" \notin told' /\ Untouched'
      BY <1>2 DEF ListenFails, OfflineFails, Exit, Tell, KeyInv
    <2>2. ExitTellsTruth'
      <3>1. exit' = 1
        BY <2>1
      <3>2. keys' = before' /\ enrolled' = NoKey
        BY <2>1 DEF Untouched
      <3> QED
        BY <3>1, <3>2 DEF ExitTellsTruth
    <2>3. NoSilentKey'
      BY <2>1 DEF NoSilentKey
    <2>4. OfflineKeyAccounted'
      BY <2>1, StrayInv' DEF OfflineKeyAccounted, StrayInv
    <2> QED
      BY <2>2, <2>3, <2>4 DEF WordsInv
  <1>3. CASE OfflinePublish
    <2>1. exit' = 0 /\ "Enrolled" \in told' /\ args'.offline /\ enrolled' \in keys'
      BY <1>3 DEF OfflinePublish, Exit, Tell, KeyInv
    <2>2. ExitTellsTruth'
      BY <2>1 DEF ExitTellsTruth
    <2>3. NoSilentKey'
      BY <2>1 DEF NoSilentKey
    <2>4. OfflineKeyAccounted'
      BY <2>1, StrayInv' DEF OfflineKeyAccounted, StrayInv
    <2> QED
      BY <2>2, <2>3, <2>4 DEF WordsInv
  <1>4. CASE Report
    <2>1. step = "report" /\ UNCHANGED <<keys, before, enrolled, acknowledged>>
      BY <1>4 DEF Report
    <2>2. status \in {"Enrolled", "Declined", "Expired", "Canceled"}
      BY <2>1 DEF KeyInv, TypeOK, Offer!TypeOK, Offer!Endings
    <2>3. exit' = ExitCode
      BY <1>4 DEF Report, Exit
    <2>4. /\ status = "Enrolled" => exit' = 0
          /\ status # "Enrolled" => exit' \in {1, 2, 130}
      BY <2>2, <2>3 DEF ExitCode, Codes
    <2>5. /\ status = "Enrolled" => "Enrolled" \in told'
          /\ status = "Enrolled" /\ ~acknowledged => "unacknowledged" \in told'
      BY <1>4 DEF Report, Tell, Warnings
    <2>6. "private key" \notin told'
      BY <1>4, <2>1, <2>2 DEF Report, Tell, Warnings, KeyInv
    <2>7. /\ status = "Enrolled" => enrolled' \in keys'
          /\ status # "Enrolled" => Untouched'
      BY <2>1 DEF KeyInv
    <2>8. ExitTellsTruth'
      BY <2>4, <2>7 DEF ExitTellsTruth
    <2>9. NoSilentKey'
      BY <2>1, <2>5, <2>7 DEF NoSilentKey
    <2> QED
      BY <2>6, <2>8, <2>9, StrayInv' DEF WordsInv, OfflineKeyAccounted, StrayInv
  <1>5. CASE UNCHANGED vars
    BY <1>5 DEF vars, WordsInv, ExitTellsTruth, NoSilentKey, OfflineKeyAccounted
  <1> QED
    BY <1>1, <1>2, <1>3, <1>4, <1>5, Exits

-----------------------------------------------------------------------------
(* What is known of the key and of the daemon at each step of main is      *)
(* enough to prove every invariant of the command.                         *)
THEOREM CommandInvariant == Spec => []CommandInv
  BY InvInit, TypeNext, KeyNext, DaemonNext, StrayNext, WordsNext, PTL DEF Spec, CommandInv

(* The command's variables keep their types.                               *)
THEOREM CommandTypeCorrect == Spec => []TypeOK
  <1>1. CommandInv => TypeOK
    BY DEF CommandInv, WordsInv
  <1> QED
    BY <1>1, CommandInvariant, PTL

(* The exit code agrees with the file.                                     *)
THEOREM TruthfulExit == Spec => []ExitTellsTruth
  <1>1. CommandInv => ExitTellsTruth
    BY DEF CommandInv, WordsInv
  <1> QED
    BY <1>1, CommandInvariant, PTL

(* No key gets in without the operator being told.                         *)
THEOREM KeysAreAnnounced == Spec => []NoSilentKey
  <1>1. CommandInv => NoSilentKey
    BY DEF CommandInv, WordsInv
  <1> QED
    BY <1>1, CommandInvariant, PTL

(* When the command has exited, the service is off the network unless the  *)
(* daemon refused the goodbye or never took it from its queue              *)
(* (announce.rs 56-61).                                                    *)
THEOREM ServiceIsWithdrawn == Spec => []GoodbyeSaid
  <1>1. CommandInv => GoodbyeSaid
    BY DEF CommandInv, DaemonInv, GoodbyeSaid
  <1> QED
    BY <1>1, CommandInvariant, PTL

(* An offline key's private half is out only with its public half in, and  *)
(* what is in can be found by `mpx unbind`, wherever the run was killed.   *)
THEOREM OfflineKeysAreAccounted == Spec => []OfflineKeyAccounted
  <1>1. CommandInv => OfflineKeyAccounted
    BY DEF CommandInv, WordsInv
  <1> QED
    BY <1>1, CommandInvariant, PTL
=============================================================================
