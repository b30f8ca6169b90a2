----------------------------- MODULE BindCommand -----------------------------
(***************************************************************************)
(* `mpx bind` from its first line to its exit code (src/src/main.rs), with *)
(* the Bonjour announcer (src/src/announce.rs) and the signal disposition  *)
(* (src/src/cancel.rs).  server::run is the BindOffer that BindSession     *)
(* implements.                                                             *)
(*                                                                         *)
(* Two things run beside the main thread: the mdns-sd daemon, which takes  *)
(* commands from a queue, and whoever sends SIGINT or SIGTERM.             *)
(***************************************************************************)
EXTENDS Naturals, Sequences, FiniteSets

CONSTANTS
  Keys,       \* public keys of devices, and those bind_offline generates
  Tries,      \* MAX_PIN_ATTEMPTS
  NoKey       \* no key enrolled

ASSUME NoKeyAssumption == NoKey \notin Keys
ASSUME TriesAssumption == Tries \in Nat

VARIABLES
  args,        \* the flags that matter: [offline, announce]
  step,        \* where main is
  handler,     \* what a signal does: "kill", or "flag" after install()
  canceled,    \* cancel::CANCELED
  expired,     \* SessionConfig.deadline has passed
  queue,       \* commands the mdns-sd daemon has not taken yet
  registered,  \* devices on the network see the service
  refused,     \* the daemon did not accept the goodbye: unregister failed
  status, keys, tries, holder,   \* server::run, see BindOffer
  marked,      \* the keys of authorized_keys whose line has mpx's marker
  enrolled,    \* BindOutcome::Enrolled's key, or the offline key
  acknowledged,
  told,        \* what the operator has read
  exit,        \* exit code, or NoExit
  before       \* history: keys at the start

announcer == <<queue, registered, refused>>
outside == <<handler, canceled, expired>>
fileAndKey == <<marked, enrolled, acknowledged>>
offer == <<status, keys, tries, holder, fileAndKey>>
words == <<told, exit>>
vars == <<args, step, announcer, outside, offer, words, before>>

Offer == INSTANCE BindOffer

Steps == {"start", "listening", "published", "serving", "unregister",
          "shutdown", "report", "generate", "publish key", "exited", "killed"}
Notices == Offer!Endings \union
  {"cannot listen", "unacknowledged", "could not write", "private key"}
NoExit == 256   \* a number no process exits with
ExitCodes == {NoExit, 0, 1, 2, 130}

Init ==
  /\ args \in [offline : BOOLEAN, announce : BOOLEAN]
  /\ step = "start"
  /\ handler = "kill"
  /\ canceled = FALSE
  /\ expired = FALSE
  /\ queue = <<>>
  /\ registered = FALSE
  /\ refused = FALSE
  /\ Offer!Init
  /\ marked \in SUBSET keys
  /\ enrolled = NoKey
  /\ acknowledged = FALSE
  /\ told = {}
  /\ exit = NoExit
  /\ before = keys

Running == step \notin {"exited", "killed"}
Exit(code) == step' = "exited" /\ exit' = code
Tell(notices) == told' = told \union notices
-----------------------------------------------------------------------------
(* bind(), up to the accept loop.                                          *)

Listen ==
  /\ step = "start"
  /\ ~args.offline
  /\ step' = "listening"
  /\ UNCHANGED <<args, announcer, outside, offer, words, before>>

ListenFails ==
  /\ step = "start"
  /\ ~args.offline
  /\ Tell({"cannot listen"})
  /\ Exit(1)
  /\ UNCHANGED <<args, announcer, outside, offer, before>>

(* Announcer::start, then the payload on the terminal.  No announcement,   *)
(* by choice or by failure, leaves the QR and the clipboard.               *)
Announce ==
  /\ step = "listening"
  /\ args.announce
  /\ queue' = Append(queue, "register")
  /\ step' = "published"
  /\ UNCHANGED <<args, registered, refused, outside, offer, words, before>>

DoNotAnnounce ==
  /\ step = "listening"
  /\ args' = [args EXCEPT !.announce = FALSE]
  /\ step' = "published"
  /\ UNCHANGED <<announcer, outside, offer, words, before>>

(* The deadline is set and the handler installed; run() begins.            *)
Install ==
  /\ step = "published"
  /\ handler' = "flag"
  /\ step' = "serving"
  /\ UNCHANGED <<args, announcer, canceled, expired, offer, words, before>>

Expire ==
  /\ step = "serving"
  /\ ~expired
  /\ expired' = TRUE
  /\ UNCHANGED <<args, step, announcer, handler, canceled, offer, words,
                 before>>
-----------------------------------------------------------------------------
(* server::run.                                                            *)

(* Enrolled carries the comment of the key's line, which is mpx's marker   *)
(* unless the key was there under another comment.                         *)
ServeEnroll(key) ==
  /\ step = "serving"
  /\ Offer!Enroll(key)
  /\ enrolled' = key
  /\ acknowledged' \in BOOLEAN
  /\ marked' = IF key \in keys THEN marked ELSE marked \union {key}
  /\ step' = "unregister"
  /\ UNCHANGED <<args, announcer, outside, words, before>>

ServeDecline ==
  /\ step = "serving"
  /\ Offer!Decline
  /\ step' = "unregister"
  /\ UNCHANGED <<args, announcer, outside, fileAndKey, words, before>>

(* The deadline only.                                                      *)
ServeWithdrawExpired ==
  /\ step = "serving"
  /\ expired
  /\ Offer!Withdraw("Expired")
  /\ step' = "unregister"
  /\ UNCHANGED <<args, announcer, outside, fileAndKey, words, before>>

(* The flag and the deadline, looked at between connections.               *)
ServeWithdraw ==
  /\ step = "serving"
  /\ \/ canceled /\ Offer!Withdraw("Canceled")
     \/ ~canceled /\ expired /\ Offer!Withdraw("Expired")
  /\ step' = "unregister"
  /\ UNCHANGED <<args, announcer, outside, fileAndKey, words, before>>

ServePeer ==
  /\ step = "serving"
  /\ (\E via \in Offer!Credentials : Offer!Prove(via)) \/ Offer!WrongPin
  /\ UNCHANGED <<args, step, announcer, outside, fileAndKey, words, before>>

DropPeer ==
  /\ step = "serving"
  /\ Offer!Release
  /\ UNCHANGED <<args, step, announcer, outside, fileAndKey, words, before>>
-----------------------------------------------------------------------------
(* Announcer::stop: the goodbye, 120 ms, the teardown; nothing looks at    *)
(* what became of the first or waits for the daemon to get to it.          *)

UnregisterUnlessCanceled ==
  /\ step = "unregister"
  /\ queue' = IF args.announce /\ status # "Canceled"
                THEN Append(queue, "unregister") ELSE queue
  /\ step' = "shutdown"
  /\ UNCHANGED <<args, registered, refused, outside, offer, words, before>>

Unregister ==
  /\ step = "unregister"
  /\ \/ /\ args.announce
        /\ queue' = Append(queue, "unregister")
        /\ UNCHANGED refused
     \/ /\ args.announce
        /\ refused' = TRUE
        /\ UNCHANGED queue
     \/ /\ ~args.announce
        /\ UNCHANGED <<queue, refused>>
  /\ step' = "shutdown"
  /\ UNCHANGED <<args, registered, outside, offer, words, before>>

(* The sleep is over, whatever the daemon has taken by then.               *)
Shutdown ==
  /\ step = "shutdown"
  /\ step' = "report"
  /\ UNCHANGED <<args, announcer, outside, offer, words, before>>

WarningsSpared == {}

Warnings == IF acknowledged THEN {} ELSE {"unacknowledged"}

Codes == [Enrolled |-> 0, Declined |-> 1, Expired |-> 2, Canceled |-> 130]

(* Exit 130 whenever the signal came, as a shell would have it.            *)
ExitCodeOfSignal == IF canceled THEN 130 ELSE Codes[status]

ExitCode == Codes[status]

Report ==
  /\ step = "report"
  /\ Tell({status} \union IF status = "Enrolled" THEN Warnings ELSE {})
  /\ Exit(ExitCode)
  /\ UNCHANGED <<args, announcer, outside, offer, before>>
-----------------------------------------------------------------------------
(* bind_offline(): a fresh keypair, its public half installed first and    *)
(* its private half published second.                                      *)

OfflineStart ==
  /\ step = "start"
  /\ args.offline
  /\ step' = "generate"
  /\ UNCHANGED <<args, announcer, outside, offer, words, before>>

OfflineInstallUnchecked(key) ==
  /\ step = "generate"
  /\ key \notin keys
  /\ enrolled' = key
  /\ step' = "publish key"
  /\ UNCHANGED <<args, announcer, outside, status, keys, tries, holder, marked,
                 acknowledged, words, before>>

(* The line without its comment.                                           *)
OfflineInstallUnmarked(key) ==
  /\ step = "generate"
  /\ key \notin keys
  /\ keys' = keys \union {key}
  /\ enrolled' = key
  /\ step' = "publish key"
  /\ UNCHANGED <<args, announcer, outside, status, tries, holder, marked,
                 acknowledged, words, before>>

OfflineInstall(key) ==
  /\ step = "generate"
  /\ key \notin keys
  /\ keys' = keys \union {key}
  /\ marked' = marked \union {key}
  /\ enrolled' = key
  /\ step' = "publish key"
  /\ UNCHANGED <<args, announcer, outside, status, tries, holder,
                 acknowledged, words, before>>

(* Key generation or the write of authorized_keys.                         *)
OfflineFails ==
  /\ step = "generate"
  /\ Tell({"could not write"})
  /\ Exit(1)
  /\ UNCHANGED <<args, announcer, outside, offer, before>>

OfflinePublish ==
  /\ step = "publish key"
  /\ Tell({"Enrolled", "private key"})
  /\ Exit(0)
  /\ UNCHANGED <<args, announcer, outside, offer, before>>
-----------------------------------------------------------------------------
(* The mdns-sd daemon takes one command; it dies with the process.         *)
Daemon ==
  /\ Running
  /\ queue # <<>>
  /\ registered' = (Head(queue) = "register")
  /\ queue' = Tail(queue)
  /\ UNCHANGED <<args, step, refused, outside, offer, words, before>>

(* SIGINT or SIGTERM.                                                      *)
SignalFlags ==
  /\ Running
  /\ handler = "flag"
  /\ ~canceled
  /\ canceled' = TRUE
  /\ UNCHANGED <<args, step, announcer, handler, expired, offer, words,
                 before>>

SignalKills ==
  /\ Running
  /\ handler = "kill"
  /\ step' = "killed"
  /\ queue' = <<>>
  /\ UNCHANGED <<args, registered, refused, outside, offer, words, before>>

Prepare == Listen \/ ListenFails \/ Announce \/ DoNotAnnounce \/ Install

Serve ==
  \/ ServePeer \/ DropPeer \/ ServeDecline \/ ServeWithdraw
  \/ \E key \in Keys : ServeEnroll(key)

Offline ==
  \/ OfflineStart \/ OfflineFails \/ OfflinePublish
  \/ \E key \in Keys : OfflineInstall(key)

WindUp == Unregister \/ Shutdown \/ Report

Main == Prepare \/ Serve \/ WindUp \/ Offline

Next == Main \/ Expire \/ Daemon \/ SignalFlags \/ SignalKills

Spec == Init /\ [][Next]_vars

(* The main thread is scheduled, and server::run looks at the flag and the *)
(* deadline between any two peers, however many there are (server.rs 120). *)
(* Nothing is owed by the peers, the operator at the prompt, the mdns-sd   *)
(* daemon, the clock or whoever sends signals.                             *)
FairSpec ==
  /\ Spec
  /\ WF_vars(Prepare) /\ WF_vars(Offline) /\ WF_vars(WindUp)
  /\ SF_vars(ServeWithdraw)
-----------------------------------------------------------------------------
(* Properties.                                                             *)

TypeOK ==
  /\ args \in [offline : BOOLEAN, announce : BOOLEAN]
  /\ step \in Steps
  /\ handler \in {"kill", "flag"}
  /\ canceled \in BOOLEAN
  /\ expired \in BOOLEAN
  /\ queue \in Seq({"register", "unregister"})
  /\ registered \in BOOLEAN
  /\ refused \in BOOLEAN
  /\ Offer!TypeOK
  /\ marked \subseteq keys
  /\ enrolled \in keys \union {NoKey}
  /\ acknowledged \in BOOLEAN
  /\ told \subseteq Notices
  /\ exit \in ExitCodes
  /\ before \subseteq Keys

(* The exit code and the last words agree with the file: "nothing was      *)
(* enrolled" (main.rs 377, 381), whenever the signal or the deadline came, *)
(* means that nothing was.                                                 *)
ExitTellsTruth ==
  /\ exit = 0 => enrolled \in keys
  /\ exit \in {1, 2, 130} => keys = before /\ enrolled = NoKey

(* A key that got in never does so behind the operator's back: main says   *)
(* so before it exits, and says it when the device kept quiet (main.rs     *)
(* 359-368, "silence here is how a key stays on disk").                    *)
NoSilentKey ==
  step = "exited" /\ keys # before =>
    /\ "Enrolled" \in told
    /\ args.offline \/ acknowledged \/ "unacknowledged" \in told

(* However the offer ended, a row of a machine that no longer listens      *)
(* (cancel.rs 1-11) outlives the process only if the goodbye did: the      *)
(* daemon refused it, or had not taken it when the 120 ms were over.  Both *)
(* can happen, stop() being "best effort" (announce.rs 57).                *)
GoodbyeSaid ==
  step = "exited" /\ registered =>
    refused \/ (queue # <<>> /\ queue[Len(queue)] = "unregister")

(* The two halves of an offline key, wherever the run was killed: the       *)
(* private one is never shown for a public one that is not installed, and  *)
(* a public one left behind has the marker `mpx unbind` looks for          *)
(* (main.rs 430-470).                                                      *)
OfflineKeyAccounted ==
  /\ "private key" \in told => enrolled \in keys
  /\ keys \ before \subseteq marked

(* Ctrl-C ends the command through its ordinary path (cancel.rs 13-15), so *)
(* does the deadline, and an offline bind ends by itself, provided that no *)
(* peer with a credential is served forever: the prompt it may lead to has *)
(* no timeout, and while it is up neither is looked at (main.rs 606-623).  *)
(* No step of the way out waits for one that does not come.                *)
BindEnds ==
  []<>(holder = "nobody" \/ status # "open") =>
    ((canceled \/ expired \/ args.offline) ~> ~Running)

(* "From here on the process owns an mDNS registration, so a signal must   *)
(* unwind rather than kill" (main.rs 341-343): a process a signal killed   *)
(* had no registration.  Does not hold: the announcer starts before the    *)
(* handler is installed.                                                   *)
SignalUnwinds == step = "killed" => ~registered

(* The command the operator is told to run against an unacknowledged key,  *)
(* `mpx unbind <id>`, finds that key's line.  Does not hold: the key may   *)
(* have been there under a comment that is not mpx's marker.               *)
HintRevokes == "unacknowledged" \in told => enrolled \in marked
=============================================================================
