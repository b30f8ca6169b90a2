# A TLA+ model of mpx

`mpx` binds a machine to the Multiplex app: `mpx bind` publishes an offer, and
over an encrypted TCP exchange the app gets its SSH public key into this
machine's `authorized_keys`; `mpx unbind` takes keys out again. This directory
holds specifications of that program, the TLC configurations that check them and
the proofs TLAPS checks. Line numbers refer to `src/src/*.rs` unless a path says
otherwise.

## 1. The system

| component | state it keeps | operations | who it talks to |
|---|---|---|---|
| bind server, `server.rs` | PIN failures, whether the PIN is retired; per connection: mode, deadline, channel | `run` (accept loop), `handle`, `exchange`, `send_done` | peers over TCP; the operator through `confirm`; `authkeys::ensure_line`; polls `cancel` |
| authorized_keys editing, `authkeys.rs` | the file; its directory; one scratch file per process | `ensure_line`, `remove_marked`, `marked_keys`, `write_atomically` | the file system, and through it every other mpx process |
| `mpx bind`, `main.rs` | step, flags, outcome, exit code | `bind`, `bind_offline`, `confirm_on_tty` | all the others |
| `mpx unbind`, `main.rs` | - | `unbind` | `authkeys` |
| cancel flag, `cancel.rs` | `CANCELED`, the signal disposition | `install`, `handle`, `requested` | set by a signal handler, read by the accept loop |
| announcer, `announce.rs` | the mdns-sd daemon thread and its command queue | `start`, `stop` | devices on the network |
| frames and channel, `frame.rs` | a sequence number per direction at either end | `read_frame`, `write_frame`, `seal`, `open`, `pin_proof` | the server; the apps at the other end |
| payload, `payload.rs` | - | `encode`, `decode` | QR and clipboard |
| host information, `hostinfo.rs` | - | `local_addrs`, `host_key_fingerprints`, `ed25519_host_key_digest` | OFFER, announcement and payload |
| `util.rs`, `clip.rs`, `qr.rs` | - | pure helpers and output | - |

The main thread is the only one of mpx's own. What makes the program hard is
everything that is not under its control: peers that send any frame, half a frame
or nothing, several connections in a row that share the PIN counter, a clock that
moves while the server waits for a peer or for the operator, a signal at any
moment, other mpx processes editing the same file, kills between two system
calls, and the daemon thread that has to say goodbye before the process ends.

What makes each component correct:

- *server*: a key gets in only with a credential, a yes and an open offer; PIN
  guesses are bounded across connections; a stranger can neither end the offer nor
  hold the server for more than 5 s; what `run` returns, what the client reads
  and what is in the file agree; the server comes to an end.
- *authkeys*: nobody sees half a file; lines mpx did not write survive; an edit
  that was reported is in effect; no leftover makes later edits fail.
- *frames*: no nonce is used twice under a key, as long as no INTRO is repeated; what an
  end reads is what the other wrote to it, in order and once per channel; a credential's proof
  is good for its own app's key only; an app is told the truth about itself.
- *bind command*: exit code and last words agree with the file; no key gets in
  unmentioned; the goodbye is sent whatever ends the offer; a signal
  brings the command to its end, unless a peer is served forever.
- *payload, host information, line syntax, slugs*: decode inverts encode; the best
  addresses and the right host key are in it; the operator has it in some form; the key
  and the marker of a line are found behind the options `sshd` takes.

## 2. Modules

| module | models |
|---|---|
| `BindOffer` | what one `mpx bind` promises: an offer open until it ends once, PIN tries, the holder of a credential, the keys that get in. No clock, no frames, no prompt |
| `BindSession` | `server.rs` in detail, and the flag of `cancel.rs` |
| `BindSessionProofs` | the theorems about `BindSession` |
| `OrderedStreams` | what a channel promises: every stream delivers in order, each place once; an end may begin anew |
| `SealedChannel` | `frame.rs`: keys, counters and nonces, both ends, the server's fresh `Channel` for every INTRO, and a network that may do anything with a frame |
| `SealedChannelProofs` | the theorems about `SealedChannel` |
| `Handshake` | the server of `BindSession` over a `SealedChannel`, with the apps at the other end |
| `HandshakeProofs` | that the composition is a behaviour of each of its parts; that the offer is for holders of a credential only, and that an app is told the truth, for any number of apps |
| `Subsequences` | the elements of a sequence that are in a set, in their order: the filter of `remove_marked`, and those of the address list |
| `SubsequencesProofs` | what that filter keeps; induction over sequences and over the turns of a loop |
| `KeyFile` | what editing promises: the file changes by one whole edit at a time |
| `AuthorizedKeys` | `authkeys.rs`, one action per system call, any number of processes |
| `AuthorizedKeysProofs` | the theorems about `AuthorizedKeys` |
| `BindCommand` | `main::bind` and `bind_offline` around an instance of `BindOffer`, with the announcer and the signal disposition |
| `BindCommandProofs` | the theorems about `BindCommand` |
| `LineSyntax` | the text of one authorized_keys line: `device_slug`, `parse_line`, `skip_options`, `marked_keys` |
| `LineSyntaxProofs` | the theorems about `LineSyntax`: every name, every options field by `sshd`'s rule |
| `PayloadCodec` | `payload.rs`: `encode` and `decode` |
| `HostInfo` | `hostinfo.rs`: the address list and the host keys |
| `Publication` | a payload from the host (`HostInfo`) through its bytes (`PayloadCodec`) and `publish_payload` to the app |
| `PublicationProofs` | the theorems about `HostInfo`, `PayloadCodec` and `Publication`: every host, every set of flags, every payload |
| `MC*` | constants of the small instances TLC checks |

`Handshake` implements `BindSession` and, through `SealedChannel`, `OrderedStreams`; `BindSession` implements `BindOffer` (all proved), and `BindCommand` uses `BindOffer`
in place of the server, so its results are about the server too.
`AuthorizedKeys` implements `KeyFile` as long as processes do not overlap
and the power stays on (proved). Definitions called `...Skipped`, `...Shared`, `...OffByOne` and the like
stand before the action of the same stem: each is that action with a plausible
bug, and is not part of the specification.

### BindSession and the code

`pc` is where the server's thread is: `poll` (121-126), `accept` (127), the three
reads `intro` (231), `hello` (257) and `enroll` (319), `offer` (286-316), `check`
and `recheck` (341, 349) around `prompt` (345), `write` (361), `receipt` (375).
`conn` is what `exchange` keeps of the peer; `since` is when it was accepted,
`until` the deadline given to `read_by`; `approved` and `cleared` are history. A
frame is two reads (`frame.rs` 131, 137): `half` says the first is over. Both have
the one deadline, as `Deadlined` gives them. What the frames carry is reduced to what
the code branches on: the mode, whether the proof is good, which key. Everything that makes
`exchange` return `Err` or `Ignore` without a word is `DropConnection`.

Time is a counter. `Tick` may happen between any two steps except while a read
waits that has reached its deadline (`ReadDue`): the kernel wakes that reader, and
the model lets it run before the clock goes on. The operator's answer is
`Approve` or `Decline`; under `--yes` it is `Approve` at once.

### SealedChannel, Handshake and the code

A stream is named by the ephemeral key an app drew (`epub`) and a direction. `Channel::derive` makes
its key of the shared secret, `epub` and `spub`; since the session's own key is the same for all connections, `Key` is
the stream itself. The cipher is ideal: a frame opens under its own key and nonce.
`wire` keeps every frame written whole, for ever, and any end may be given any of them at any time: that
is how repetition, delay, loss, reflection and misdelivery come about. A write that fails
leaves no whole frame but has moved the counter (`Seal` with `written` false), as `seal_s2c`
comes before `write_to` (`server.rs` 398-399).

A TCP connection is anyone's. Its INTRO is cleartext (`server.rs` 231-237) and the server remembers no
`epub`, so `RecvIntro` takes the key of any app that has sent an INTRO, in any mode, as often as the network
pleases, and each time makes a fresh `Channel` (`Derive`: both of the server's counters at 0, `server.rs` 239-254,
`frame.rs` 62-67). `served` is the app whose key the present connection's INTRO named; what follows it are frames
of the wire, or none. `seq`, `sent` and `opened` are those of the present Channels: the server reads a recorded HELLO
again after a repeated INTRO, and seals its answer from nonce 0 under the key of before. The repository's own test has the
server do that (a fixed ephemeral key in `Client::connect_pin`, `server.rs` 463; "wrong pin" three times and "pin retired" in
the test at 556-611). `Repeated` is the set of apps whose key was named more than once, and the exceptions of
`NonceOnce` and `ToldTheTruth` are stated with it. That an *app* draws a fresh key for every `Channel` of its own
is an assumption about its random numbers.

Each server action of `Handshake` is one of `BindSession` together with what it
does to the channel; whether a proof is good, which `BindSession` leaves open, is
decided here by `ProofIsGood`. A frame that does not open has no effect on the channel and is a
`DropConnection`. The apps are what the repository's clients are (the tests' `Client`, `server.rs`
435-496, and `examples/gen_vectors.rs`): INTRO and HELLO, then a key in answer to the OFFER, then
the DONE. An app knows the token, the PIN, or nothing; in the last case its HELLO guesses, is
garbled, or carries the PIN proof made for another app's key. What a real app checks beyond that is not
in this repository.

### AuthorizedKeys and the code

A line is a key (or none) and an owner (a marker id, or the user). An enrollment reads
the file once; `mpx unbind` reads it twice, for the list (`ListKeys`, `main.rs` 562) and in
`remove_marked` (`FindNothing`, `DropMarked`), and `mpx unbind --list` only for the list. A process
finds or creates the directory (192, 193, 194: the look at it and `mkdir` are one step, since
`create_dir_all` accepts a directory made in between), clears, creates, writes, syncs
and renames its scratch file (207-213). `Killed` may happen between any two; a later process may have the same
pid. `CreationFails` and `WriteFails` are the error returns before and after the
scratch file is this process's own to remove. `scratch[p].by` tells whether the file open in
a process still has its name.

`durable` is the set of contents a power failure may leave under the file's name: those of all
the renames since the last one, because nothing syncs the directory. Of a file that was written and
not synced only a part may be there (`OnDisk`). `result` of a process is its exit: `nothing` and
`error` are exit 1, the others 0.

### BindCommand and the code

`step` follows `main::bind`: listen (221), announce (246), publish (282), install
the handler (344), serve (345), stop the announcer (346, two steps: the goodbye
command, then the sleep and teardown), report and exit (349-383). The daemon thread
takes commands from `queue`. A signal before `install` kills, after it sets the flag.
`Announcer::stop` is best effort (`announce.rs` 57): the daemon may not accept the goodbye (`refused`), and the
120 ms are over (`Shutdown`) whether or not it has taken it. `marked` is the set of keys whose line `mpx unbind` can find.

### LineSyntax, PayloadCodec, HostInfo, Publication and the code

This is pure code, so a behaviour is short: a line is written and read, a
payload is published, perhaps cut, and read. The operators are the functions,
loops as recursive functions over the position. A line is a sequence of the
characters the code can tell apart, with the text of a key type, the marker's
prefix and the word `device` as one character each. An options field is given by
its parts in `MCLineSyntax`, so where it ends is known without parsing it. What is a quoted value is `sshd`'s
rule: a backslash hides a quote and nothing else, and the value ends at the first quote without a backslash before it. The code's rule
is another (a backslash hides any character), and the two part at a quote behind an even number of backslashes, as in
`command="x\\" y"`, which to `sshd` is one value. Such options are among the inputs and what the code makes of
them is left open (`Disputed`). A payload is a
sequence of bytes with the fields of fixed size shortened to one or two bytes; characters have
one or two bytes. An address is its family and one octet that tells its scope (10 and 192 private,
127 loopback, 169 and 254 link-local), and family 0 is a host name given with `--addr`. A host key is the position
of its file among the names `read_dir` returns, sorted. `Publication` takes the host and the flags from
a set of binds and lets every combination of "over ssh", a working clipboard tool, a `/dev/tty` that can be written and a
QR that fits happen. `shown` is what was put out, `Arrived` what of it the operator has: an OSC 52 arrives only if the
terminal honours it, which `copy` cannot see (`clip.rs` 83-98) and tmux by default does not (100-106).

## 3. Runs

| run | question | states |
|---|---|---|
| `session_prompt` | every safety property of the server, the inductive invariant, the refinement of `BindOffer`, and termination, with an operator at the prompt | 43,720 |
| `cancel_at_prompt` | does a Ctrl-C while the prompt is up prevent the enrollment? No (`PromptSpec`: the sessions whose signal comes there) | - |
| `keys_alone` | are edits atomic and reports true, the listing's included, with one process at a time, failing system calls and kills? | 126,163 |
| `keys_overlap` | what remains true when processes overlap and the power fails: no torn file, the user's lines, one line per key, no failure caused by leftovers; and the inductive invariant behind them | 379,712 |
| `lost_edit` | are reported edits in effect when processes overlap? No | - |
| `bare_path` | does an edit work when the path has no directory part? No | - |
| `bind_command` | exit code, notices, goodbye and the offline key's two halves, with signals, a failing announcer and a daemon that refuses or is late; and does a signal, the deadline or `--offline` bring the command to its end if no peer is served forever? | 22,248 |
| `bind_signal` | does every signal unwind once the service is registered? No | - |
| `unbind_hint` | does the revocation hint name a removable key? Not always | - |
| `line_syntax` | is the key of a line found, and its enrollment listed, whatever options but the disputed ones stand before it and whatever name the device has? | 79,587 |
| `publication` | does the app read what the host is, the best addresses and the right host key first, does `decode` refuse a payload without its end, and does every payload reach the operator, but where OSC 52 was the only way and was dropped? | 255,008 |
| `handshake` | over a network that repeats, withholds and misdelivers frames and repeats INTROs: fresh nonces, ordered streams, an offer for credential holders only, and a DONE that is true of who reads it | 451,630 |

The properties are stated and explained at the end of each module.

### Bounds

- *Server*: `MAX_PIN_ATTEMPTS` has its real value, 3. The timeouts are 2 and 3 clock
  units and the deadline 5, so that a deadline can fall before, inside and after
  each window, two connections fit one after the other, and the post-proof window
  can be cut by the deadline; the clock stops at 6. One ed25519 key and one of
  another algorithm, in the file already or not: the server treats keys alike
  otherwise, and the theorems cover any number. The number of connections is
  not bounded.
- *Files*: two pids are enough for every race of one edit with another (an edit
  reads and renames once), and three runs for a third process that meets
  what two have left, a reused pid included. Two keys and two markers give same and different keys under the same
  and different markers; the starting files include the absent one, an unreadable
  one, one with the user's lines only, and one with a user's line between two of
  mpx's.
  `KeysInv` is checked where everything may happen at once but failing system calls.
- *Command*: two keys and two tries; the server's own counter is checked in
  `BindSession`.

- *Lines*: names of up to five characters around a slug of at most four (24 in the code), so
  that the cap falls on a letter, on a dash and past the end; options of up to two atoms,
  quoted strings of up to two pieces, backslashes among them. Each branch of `skip_options` depends on one
  character and two flags, which two pieces put in every order.
- *Payloads*: caps of 3 listed and 2 sent addresses, 3 name bytes and 4 text bytes (6, 3, 32
  and 255 in the code), with inputs below, at, past and across each of them: up to four
  interfaces of every scope, every content of three host key files. The number of a cap has no other use
  than the comparison.
- *Handshake*: two apps, because what could go wrong between connections (a key, a counter, a
  proof, a DONE) goes wrong between two; one ed25519 key (a key of another algorithm is `BindSession`'s question, an unparseable
  one is still sent); one wrong PIN retires the
  PIN, so that the second app meets a retired one. All timeouts are one unit: time is `BindSession`'s own
  question. Three constraints keep the run within minutes: the INTRO of one of the two apps is repeated, as often as may be, the other's is not
  (`OneRepeated`), so that a repeated app and one that is not meet in every order; a signal comes before any app or not
  at all (`SignalAlone`); and the key is not in the file beforehand (`KeyIsNew`). The last two are `BindSession`'s questions too. The theorems about this module hold for any number of apps, INTROs and signals.

`CHECK_DEADLOCK FALSE` is given where processes stop for good: after `MaxRuns` in
`AuthorizedKeys`, after the exit in `BindCommand`, after the one reading in `LineSyntax` and `Publication`. `BindSession` has an explicit
`Terminated` step, and it and `Handshake` are checked for deadlock.

### Fairness

`WF_vars(ServerStep)`: the server's thread is scheduled. It loops over a
non-blocking `accept` and 100 ms sleeps, each read has a timeout, each write too,
and the writes to disk return. `WF_vars(Tick)`: time passes. Nothing is assumed of peers, of signals or of the operator: `SessionEnds`
therefore says that the server ends *if* the prompt is always answered in the end, as it is
under `--yes`, where `confirm` answers by itself. Accepting a peer is not a fair step: nobody has to connect.

`BindCommand`'s `FairSpec` gives weak fairness to the main thread's own steps (`Prepare`, `Offline`,
`WindUp`: none of them waits for anything but a sleep) and strong fairness to `ServeWithdraw`, since that is
enabled again and again between peers: the accept loop looks at the flag and the clock before each of
them (121-126). Nothing is owed by peers, the operator, the daemon, the clock or who might send a signal. The prompt has no
timeout (`main.rs` 606-623), so `BindEnds` has a premise: a peer with a credential is not served forever. It speaks of
the behaviours in which a signal or the deadline came, or `--offline` was given. The other runs check safety only.

## 4. Proofs

Each theorem holds for every value of the constants: any set of keys, any number of apps,
tries, timeouts, deadline and clock bound; any number of processes, markers and starting files; names, options
and comments of any length; any number of interfaces and host key files, and payloads of any size.

| module | theorem | states |
|---|---|---|
| `BindSessionProofs` | `SessionInvariant` | `SessionInv` in every reachable state |
| | `TypeCorrect` | `TypeOK` |
| | `PinIsBounded` | `RetiredPinNeverProves` |
| | `OperatorIsToldOnce` | `NoticesCountDown` |
| | `Consent` | `EnrolledOnlyWithConsent` |
| | `TruthfulOutcome` | `OutcomeTellsTruth` |
| | `TruthfulReceipt` | `ReceiptTellsTruth` |
| | `StrangersAreBrief` | `PreauthWindow` |
| | `StrangersAreHarmless` | `StrangersEndNothing` |
| | `SessionImplementsOffer` | `ImplementsOffer`: every behaviour is one of `BindOffer` |
| `SealedChannelProofs` | `ChannelInvariant` | `ChannelInv` |
| | `NoncesAreFresh` | `NonceOnce`, its exception for repeated INTROs included |
| | `ChannelImplementsStreams` | `ImplementsStreams`: every behaviour is one of `OrderedStreams` |
| `HandshakeProofs` | `HandshakeUsesChannel` | every behaviour of `Handshake` is one of `SealedChannel` |
| | `HandshakeChannelInvariant`, `HandshakeNoncesAreFresh`, `HandshakeImplementsStreams` | so the three theorems above hold of it |
| | `HandshakeImplementsSession` | every behaviour of `Handshake` is one of `BindSession` |
| | `HandshakeSessionInvariant` | so `SessionInv` holds of the server inside it |
| | `HandshakeTypeHolds` | `TypeOK` |
| | `HoldersOnlyHolds` | `HoldersOnly` |
| | `ToldTheTruthHolds` | `ToldTheTruth` |
| `SubsequencesProofs` | `KeptElements`, `KeptTwice` | a filter leaves the elements that are in the set; two filters are one by the intersection |
| `AuthorizedKeysProofs` | `KeysInvHolds` | `KeysInv` |
| | `TypeHolds` | `TypeOK` |
| | `NeverTornHolds` | `NeverTorn` |
| | `OthersUntouchedHolds` | `OthersUntouched` |
| | `OneLinePerKeyHolds` | `OneLinePerKey` |
| | `EditsSucceedHolds` | `EditsSucceed`, if the path has a directory |
| | `AloneInvHolds` | `AloneInv`, if processes do not overlap and the power stays on |
| | `EnrollmentIsTerminalHolds` | `EnrollmentIsTerminal`, likewise |
| | `RevocationHoldsAlone` | `RevocationHolds`, likewise |
| | `EditingImplementsKeyFile` | `EditsAreAtomic`, likewise: every behaviour is one of `KeyFile` |
| `LineSyntaxProofs` | `SlugIsScannableHolds` | `SlugIsScannable` |
| | `KeyIsFoundHolds` | `KeyIsFound`, for well-formed lines (and all but disputed options) |
| | `EnrollmentIsListedHolds` | `EnrollmentIsListed`, likewise |
| `BindCommandProofs` | `CommandInvariant` | `CommandInv` |
| | `CommandTypeCorrect` | `TypeOK` |
| | `TruthfulExit` | `ExitTellsTruth` |
| | `KeysAreAnnounced` | `NoSilentKey` |
| | `ServiceIsWithdrawn` | `GoodbyeSaid` |
| | `OfflineKeysAreAccounted` | `OfflineKeyAccounted` |
| `PublicationProofs` | `DecodeOfEncode` | what `decode` makes of any beginning of what `encode` made |
| | `NameFits`, `CharactersOfBytes` | what `truncated_name` keeps; `from_utf8` gives back what `as_bytes` made |
| | `BestAreSent` | what the filter, the ranking, `dedup` and both caps leave of the interfaces |
| | `PreferredFirst` | `host_key_fingerprints` lists every host key, an ed25519 key first |
| | `PubInvHolds` | `PubInv` |
| | `RoundTripHolds` | `RoundTrip` |
| | `CutIsRefusedHolds` | `CutIsRefused` |
| | `BestAddressesArriveHolds` | `BestAddressesArrive` |
| | `PinsAgreeHolds` | `PinsAgree` |
| | `PayloadIsShownHolds` | `PayloadIsShown` |

They rest on named assumptions about constants: the special values are not keys or apps
(`KeyAssumption`, `NoKeyAssumption`, `NobodyAssumption`), timeouts and deadline are positive numbers
(`TimeAssumption`), at least one PIN try is granted (`PinAssumption`), the protocol's messages are among the bodies a frame
may carry (`MessageAssumption`). `SessionAssumption` repeats in `Handshake` what `BindSession` assumes of the same constants.
For the payload: at least one address may be listed and one sent (`ListAssumption`, `LimitAssumption`; with no place for one, none would
arrive), and hosts and flags are what the program can be given (`BindAssumption`: interfaces have IP addresses, texts are characters).
Seven theorems have hypotheses of their own, said in the table. Each is met by a run (`keys_overlap`, `keys_alone`,
`line_syntax`), and two runs show what happens without: `bare_path` has a path with no directory, `lost_edit` processes that overlap.

*BindSession.* None of the safety properties is inductive. "A file that changed was changed
with consent" says nothing of the states in which consent is being collected: the
invariant has to carry, from read to read, what each `pc` has established.
`SessionInv` does it in parts, each of them for one question: `PinsInv` (the flag
`pin_retired` is exactly "no tries left", and the notices are a function of the
counter), `ConnInv` (what each step of `exchange` knows of its peer, and that its
pre-proof deadline was set from the time it was accepted), `FileInv` (the file is
untouched until `receipt`, where the key is in it), `ReplyInv` and `OutcomeInv` (what
has been said). That steps keep it is proved in one lemma for each family of steps - clock
and signal, accept loop, reads, dropped connections, wrong PIN, enrollment, the write,
the endings - which `SessionNext` puts together.

The refinement maps the offer's end to the write of the key (`pc = "receipt"`), not
to the return of `run`: a lost receipt is a stutter of the abstract offer. The
holder is the mode of a connection that has proven its credential, the tries are
those left. Each action is shown to be a step of `BindOffer` or a stutter, with the
invariant giving the guards (an `Enroll` has a holder, a `Withdraw` has none).

*SealedChannel.* That two frames with one key and nonce are the same frame is not
inductive either: one has to know that the counter is ahead of every nonce on the wire. `ChannelInv`
says where each frame comes from: its body is what its sender sealed at the place of the stream its nonce gives,
unless that sender has begun anew since (`FramesAreSent`); the two counters of a stream are the lengths of what the present
Channels sealed and opened (`CountersAreLengths`); and what was opened was written, place by place (`OpenedWereWritten`). The
first INTRO is told from a repeated one by what is on the wire before it: nothing from the server (`SilentBeforeIntro`).
`NonceOnce` is the first two together. For the refinement a writer's bodies are kept in `said` when its Channel
is gone: a fresh reader reads the stream from its first place again, and each place it reads is one that a writer of this stream sent there.

*Handshake.* Every action opens at most one frame and seals at most one, on the key it serves
(`ChannelSteps`, for which `ServesApp` says that past its INTRO the connection has a key), or derives a Channel, and is an action of the
server or leaves the server alone (`SessionSteps`). So the composition is a behaviour of both parts.

*Holders.* `HoldersOnly` speaks of what an app sent and what the server did, and what carries the one to
the other is on the wire in between. `HoldersInv` says of each frame what it tells of the app behind its
key: a HELLO carries the token or that key's own PIN proof only if the app knows it, an ENROLL carries
the app's key, and an OFFER is there only for an app that knows a credential (`WireInv`). Beside it
stand what the server knows of the app it serves at each step, from the proof on that the app holds the credential
the INTRO's mode asks for (`ServedInv`), and that an app that
gave a key knew a credential (`KeyInv`). A frame's key names its app, so what others send into this connection says nothing here, and
what is repeated of the app's own frames says no more than it did.

The same lines, followed further, give `ToldTheTruth`. A DONE is sealed in one step and read in a later one, with
the server serving others in between, so what it says has to be true for as long as the frame is on the wire: `DoneInv` puts that
for each answer in terms that last (an offer that ended stays ended with the same outcome, a retired PIN stays
retired, the clock does not go back), and "ok" is sealed as the server ends, so that no other app is served after it. "could not
write" lasts as long as the app's INTRO is not repeated: then the key may get in by the frames of before. `PinInv` says that an app that knows
the PIN sends its proof, so "wrong pin" is never the answer to one.

*Types of the composition.* What is known of the server alone is carried over by an instance of its proofs (`Server ==
INSTANCE BindSessionProofs`): every behaviour of `Handshake` is one of `BindSession`, so `SessionInv` holds of it, and only
the apps' own types are left to prove.

*BindCommand.* `ExitTellsTruth` speaks of the last state; `KeyInv` says for each step of `main` what is known
of the key by then, with `BindOffer`'s guards for the steps of the server. `GoodbyeSaid` needs the queue:
`DaemonInv` says what the daemon has still to do at each step, and that from `shutdown` on, unless it refused, the goodbye is
the last command it has or has been carried out, whenever it takes them. `StrayInv` (a key that was added has mpx's marker) is what makes
the hint of `mpx unbind` good for a key a killed run left.

*Filters.* `Kept` is a recursive function. The library's induction theorems take an operator as a
parameter, which the installed provers cannot instantiate, but induction on a *set* needs none: a set of numbers that
contains 0 and the successor of each of its members is all of them (`SetInduction`, from `LeastNatural`, which
follows from the library's theorem that the finite subsets of a set are well founded), and likewise a set of sequences (`SequenceInduction`). That `Kept` does what
the library's `SelectSeq` does is an assumption of `MCAuthorizedKeys`, which TLC evaluates.

*AuthorizedKeys.* Four of its properties hold whoever runs at the same time. `NeverTorn` is about the name
`authorized_keys` only, and a step that breaks it is long before: the invariant `KeysInv` follows a scratch file from
`create` to `rename` and says that it is its process's own (`ScratchInv`; the exclusive create and the pid in its name give that, a leftover of a
killed run with the same pid included), that what a process is about to write has the user's lines of the
file it read, and keys distinct if they were (`ProcInv`), and both of every content the disk may still come back with
(`DiskInv`). Overlapping processes lose each other's edits without breaking this, since every file any of them read was an edit of
the original. `EditsSucceed` needs beside it that the directory is not the empty path, and that no process has failed
(`SuccessInv`).

The other three are about the file that is *there*, and false when it can change between read and rename. With
`~Overlap` and `~PowerFails`, `AloneInv` adds that one process runs, and that what it is about to write is the edit of the present file
(`EditOf`). Then the rename is `KeyFile`'s step, every other action leaves the file alone (`OnlyRenameEdits`), and a report is true
when it is made. `KeptTwice` is why removing marked lines does not disturb the user's. Failing system calls and kills at any point
are allowed throughout.

*LineSyntax.* A behaviour is two steps, and `LineInv` says what is known after each; the work is in the functions. A loop
of the source is a recursive function over its turns; `Loop` (in `SubsequencesProofs`) proves by induction that there is one, and each of them has its
own invariant over the turns. For `device_slug` it is `Tidy`: what has been pushed so far is letters with single dashes between them, at
most one at the end, never at the start, and no longer than the cap; one `Trim` then leaves a slug or nothing. For `skip_options`, the
options field is described without the walk, by `sshd`'s rule: a word is built of characters and quoted strings (`IsWord`, the least
set closed under its rules; `OptionsAreBuilt` says that the rules build members), and between the quotes of a string every quote has a
backslash before it, and the end has none (`IsBody`). That the walk hides exactly those quotes is true of undisputed texts: a quote that `sshd` takes for
hidden is behind an odd number of backslashes, and of these the walk leaves the last unhidden, which hides the quote
(`QuoteIsHidden`). So the walk comes back out of a string and, by induction on how it is built, of a word as it went in, and stops
at the first space behind the word and nowhere
before (`BodiesWalk`, `WordsWalk`; `DisputedPart` carries "undisputed" from the field to its parts). `ParsedLine` then gives the fields behind it. `LinesAreWellFormed` says that the lines are of the kind the theorem is
about: options that are such a field, disputed or not, or a `#`; in lines mpx did not write, comments that do not begin with mpx's marker; and texts
without a key that are a comment or one word. The lines of `MCLineSyntax` are all of this kind.

*Publication.* A behaviour is short here too: `PubInv` says that the bytes there are a beginning of `encode` of the payload that was
put together, shorter exactly if something was lost, and that what the app has read is `decode` of them. Without the first part nothing follows
from what is read: the properties speak of `decoded` and `payload`, and only the bytes connect the two. What remains is
about functions. `DecodeOfEncode` is the one for the codec. It is stated for any beginning `b` of the bytes at once, so that it gives
`RoundTrip` (`b` is all of them) and `CutIsRefused` (it is not) from one walk: `Layout` gives the fields of `Encode`
and the positions where they start as sums of lengths, the reader's position after each address is where the next one was
written (`NextAddr` turn by turn), and each field is there to be read if and only if `b` reaches its end. Since the last field ends where
`Encode` ends, `decode` succeeds on nothing shorter. That a text comes back is `CharactersOfBytes`, by induction over the text, and that a name
is cut between characters `NameFits`. A user or path over the limit is the one case in which the whole payload may be refused, or read
with a shorter text; the theorem says so by asking `Fits` of them.

For the addresses, `Sorted` (nothing stands behind what ranks worse) is what the ranking establishes and `dedup` keeps;
then whatever a cap drops ranks no better than anything before it (`BestAreSent`), and a cap of one or more leaves something if there was something.
For the host keys, the invariant of the loop is that what is listed so far are the host keys met so far, with an
ed25519 key at the head if one was met (`PreferredFirst`); `PinsAgree` follows, as the digest's file is one of those listed.

Only model-checked: `SessionEnds` and `BindEnds`, since liveness is out of the prover's reach. Every other property of the
passing runs is stated by a theorem. That `Kept` is the library's `SelectSeq` is evaluated, not proved.

## 5. Where code and words disagree

1. **Ctrl-C at the prompt does not cancel** (`cancel_at_prompt`). The flag is read
   between connections only (`server.rs` 121). A signal while a peer is served
   waits for it, and at the prompt Enter still enrolls.
2. **Overlapping edits get lost** (`lost_edit`). There is no lock from
   the read (`authkeys.rs` 138, 162) to the rename (213): an enrollment that was
   reported is gone, or, by the same window, a removed key is back.
3. **`--authorized-keys name` without a directory never works** (`bare_path`):
   `Path::parent` gives the empty path, and its `chmod` fails (`authkeys.rs` 191-194).
4. **A signal after the registration may still kill** (`bind_signal`): the announcer
   starts at `main.rs` 246, the handler at 344.
5. **The revocation hint may name nothing** (`unbind_hint`) if the key was there
   under a comment that is not mpx's.

Smaller ones, without a run: a directory mpx made stays open when the run stops between `mkdir`
and `chmod` (`authkeys.rs` 193, 194), and no later run repairs it, although lines 4-5 promise "700/600 permissions ensured";
"Enrollment is terminal the moment the file is written" (`server.rs` 93-94) does not survive a power failure, since
the directory is not synced after the rename; a host name given with `--addr` never reaches the payload (`main.rs` 549-553), so an
offline bind with nothing else carries no address; `Vec::dedup` (`hostinfo.rs` 53) drops only adjacent
duplicates, so that one address may take two of the six places; `server.rs` 2-3 speaks of "exactly one
authorized_keys line on success", but a key that is there already adds none;
`main.rs` 3 says "two-minute", the default is 60 s (line 87); `README.md`, *Protocol*, says of the
PIN "3 attempts, then the session locks", while the code retires the PIN and keeps serving the token
(`server.rs` 112-117), which is what `StrangersEndNothing` shows;
`payload.rs` 36-37 gives the path to the app so that it "edits the file the sshd actually
reads", but a path over 255 bytes is cut without a word (104-105), into another path or, when the
cut splits a character, into a payload that `decode` refuses. The comment of `skip_options` says
of its escapes "which sshd honours" (`authkeys.rs` 67-68); `sshd` honours the escaped quote only, so that behind options like
`command="x\\" y"` the key of a line that opens the account is missed: it is enrolled again, and `unbind` does not list it (`Disputed`).
`frame.rs` 116-117 says of the PIN proof that "a relayed proof is useless on any other connection", and 1-4 give one nonce
to each frame of a key; a repeated INTRO and HELLO are accepted on another connection, and the server seals again under the
same key from nonce 0, where its frames may differ (`Repeated`); the offer still goes to nobody but the owner of the
key (`HoldersOnly`). `publish_payload` prints "payload copied to clipboard (OSC 52)" (`main.rs` 484) when the sequence was
written; with `--copy --no-qr` it is then the only output, and a terminal that drops it, as tmux does by default,
loses the payload, offline with the only private key (`PayloadIsShown`).

## 6. Not modelled

- Cryptography and CBOR: libraries; the cipher is ideal, and a body is one of the protocol's messages or garbled.
- The time a write takes, beyond time passing before it: frames are shorter than a socket's buffer.
- What a file system may reorder beyond unsynced contents and names; symbolic links; editors other
  than mpx; processes with the same pid in different containers.
- The TXT record of the announcement, base64, the platforms' clipboard tools, the drawing of the QR, terminal
  colours, workflows.

## 7. Plan

Done: `BindOffer`, `BindSession` and its proofs; `OrderedStreams`, `SealedChannel`, `Handshake` and their
proofs; `KeyFile`, `AuthorizedKeys` and its proofs; `BindCommand` and its proofs; `LineSyntax` and its proofs; `PayloadCodec`, `HostInfo`,
`Publication` and their proofs. Nothing of the plan is left. Two extensions would say more:

1. An editor other than mpx as a process of `AuthorizedKeys`, which replaces the file in place.
2. The text of a whole file in place of one line: what `remove_marked` makes of an `authorized_keys` without a final newline.
