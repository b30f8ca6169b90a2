----------------------------- MODULE Publication -----------------------------
(***************************************************************************)
(* A bind payload from the host to the app: what `mpx bind` finds out      *)
(* about the host (HostInfo), the bytes it makes of it (PayloadCodec), the *)
(* ways it shows them (publish_payload in src/src/main.rs, copy in         *)
(* src/src/clip.rs), and what the app reads.                               *)
(***************************************************************************)
EXTENDS HostInfo, PayloadCodec

CONSTANT
  Binds      \* the hosts and the flags they are bound with, as records
             \*   host  : [interfaces, listable, files]
             \*   offer : [addrs, name, offline, user, path, copy, noQr]

Text == Seq({Narrow, Wide})

ASSUME BindAssumption ==
  \A bind \in Binds :
    /\ bind.host \in [interfaces : Seq(IpAddress), listable : BOOLEAN,
                      files : Seq(FileContents)]
    /\ bind.offer \in [addrs : Seq(Address), name : Text, offline : BOOLEAN,
                       user : Text, path : Text, copy : BOOLEAN, noQr : BOOLEAN]

VARIABLES
  host,
  offer,
  terminal,  \* [tmux, honours : BOOLEAN]: is it tmux, does it act on OSC 52?
  payload,   \* what bind() or bind_offline() put together
  bytes,     \* encode's result, or as much of it as got through
  shown,     \* what was put out: "tool", "osc52", "hint", "QR", "line"
  cut,       \* has some of it been lost?
  decoded    \* decode's result, None if it refuses

vars == <<host, offer, terminal, payload, bytes, shown, cut, decoded>>
-----------------------------------------------------------------------------
(* The addresses the OFFER lists, and the host keys.                       *)
OfferedAddrs ==
  IF offer.addrs = <<>> THEN LocalAddrs(host.interfaces) ELSE offer.addrs

(* The directory may be closed to listing and its files still open.        *)
OfferedKeys == IF host.listable THEN Fingerprints(host.files) ELSE <<>>

Assembled ==
  [addrs |-> ParsedAddrs(OfferedAddrs), name |-> offer.name,
   offline |-> offer.offline, user |-> offer.user, path |-> offer.path,
   digest |-> IF offer.offline THEN HostKeyDigest(host.files) ELSE 0]

Init ==
  /\ \E bind \in Binds : host = bind.host /\ offer = bind.offer
  /\ terminal \in [tmux : BOOLEAN, honours : BOOLEAN]
  /\ payload = Assembled
  /\ bytes = <<>>
  /\ shown = {}
  /\ cut = FALSE
  /\ decoded = Unread

(* copy: the platform's tool, unless over ssh, then OSC 52.  The tool's    *)
(* exit code says that it took the text; of OSC 52 all that copy knows is  *)
(* that the sequence was written to /dev/tty.                              *)
Copied(overSsh, tool, tty) ==
  IF offer.copy /\ ~overSsh /\ tool THEN {"tool"}
  ELSE IF offer.copy /\ tty THEN {"osc52"} ELSE {}

(* The ways that reach the operator: a terminal may drop an OSC 52, which  *)
(* tmux does unless it is configured not to.                               *)
Arrived ==
  shown \intersect
    ({"tool", "QR", "line"} \union
     (IF terminal.honours THEN {"osc52"} ELSE {}))

NeedsLineUnlessAsked(copied, fits) ==
  (offer.copy /\ ~copied) \/ (~offer.noQr /\ ~fits)

(* The URL as a line: the clipboard failed, the QR would be too large, or  *)
(* neither was asked for.                                                  *)
NeedsLine(copied, fits) ==
  \/ offer.copy /\ ~copied
  \/ ~offer.noQr /\ ~fits
  \/ ~offer.copy /\ offer.noQr

PublishPayload ==
  /\ bytes = <<>>
  /\ bytes' = Encode(payload)
  /\ \E overSsh, tool, tty, fits \in BOOLEAN :
       LET ways == Copied(overSsh, tool, tty)
           copied == ways # {}
       IN shown' = ways \union
                   (IF copied /\ terminal.tmux THEN {"hint"} ELSE {}) \union
                   (IF ~offer.noQr /\ fits THEN {"QR"} ELSE {}) \union
                   (IF NeedsLine(copied, fits) THEN {"line"} ELSE {})
  /\ UNCHANGED <<host, offer, terminal, payload, cut, decoded>>

(* A clipboard or a line that loses its end.                               *)
Lose ==
  /\ ~cut /\ Len(bytes) > 1 /\ Arrived \ {"QR"} # {}
  /\ \E n \in 1..(Len(bytes) - 1) : bytes' = SubSeq(bytes, 1, n)
  /\ cut' = TRUE
  /\ decoded' = Unread
  /\ UNCHANGED <<host, offer, terminal, payload, shown>>

Read ==
  /\ bytes # <<>> /\ Arrived # {}
  /\ decoded = Unread
  /\ decoded' = Decode(bytes)
  /\ UNCHANGED <<host, offer, terminal, payload, bytes, shown, cut>>

Next == PublishPayload \/ Lose \/ Read
Spec == Init /\ [][Next]_vars
-----------------------------------------------------------------------------
(* Properties.                                                             *)

Fits(text) == Len(FlattenSeq(text)) <= MaxText
IsRead == decoded \notin {Unread, None}

(* What is read from a whole payload is what was sent, but for the         *)
(* addresses after the MaxAddrs-th and the characters of the name past     *)
(* MaxName bytes: the limits never cost the fields after them, nor split a *)
(* character (payload.rs 20-25, 188).  A user or a path longer than        *)
(* MaxText bytes promises nothing.                                         *)
RoundTrip ==
  LET p == payload
  IN decoded # Unread /\ ~cut /\ (p.offline => Fits(p.user) /\ Fits(p.path)) =>
       /\ decoded.addrs = SubSeq(p.addrs, 1, Min({Len(p.addrs), MaxAddrs}))
       /\ IsPrefix(decoded.name, p.name)
       /\ LET sent == Len(decoded.name)
          IN /\ Len(FlattenSeq(decoded.name)) <= MaxName
             /\ sent < Len(p.name)
                  => Len(FlattenSeq(SubSeq(p.name, 1, sent + 1))) > MaxName
       /\ decoded.offline = p.offline
       /\ p.offline => /\ decoded.user = p.user
                       /\ decoded.path = p.path
                       /\ decoded.digest = p.digest

(* A payload that lost its end anywhere is refused; none of it is taken    *)
(* for a shorter payload (the test payload.rs 269-285 cuts one without an  *)
(* offline key).                                                           *)
CutIsRefused == cut /\ decoded # Unread => decoded = None

(* "private IPv4 first (the LAN case binding exists for), capped"          *)
(* (hostinfo.rs 18-19): an address of the host the app does not get to     *)
(* know about is no better than any it does, through both caps, and none   *)
(* it gets is one it cannot dial.                                          *)
BestAddressesArrive ==
  IsRead /\ offer.addrs = <<>> =>
    LET arrived == Range(decoded.addrs)
        own == Range(host.interfaces) \intersect Dialable
    IN /\ arrived \subseteq own
       /\ \A addr \in own \ arrived, other \in arrived :
            Rank(other) <= Rank(addr)
       /\ own # {} => arrived # {}

(* The host key an offline payload pins is one the OFFER of the same host  *)
(* would list, and the first it lists is an ed25519 key if there is one    *)
(* (hostinfo.rs 61-62, 95-98): either way of binding pins the same host.   *)
PinsAgree ==
  LET keysOf == {n \in DOMAIN host.files : host.files[n] = "ed25519"}
  IN /\ IsRead /\ decoded.digest # 0 /\ host.listable
          => decoded.digest \in Range(OfferedKeys)
     /\ OfferedKeys # <<>> /\ keysOf # {} => OfferedKeys[1] \in keysOf
     /\ IsRead /\ offer.offline /\ Standard \in keysOf
          => decoded.digest = Standard

(* Whatever the flags, whatever tool fails and however large the QR, the   *)
(* operator gets the payload, but for one case the code cannot tell from   *)
(* success: nothing but the clipboard was asked for (--copy --no-qr), OSC  *)
(* 52 was the way left and the terminal dropped it.  In tmux, which does   *)
(* by default, the operator has then been told what OSC 52 needs (clip.rs  *)
(* 100-106).  No clipboard is touched that was not asked for (main.rs      *)
(* 520-529).                                                               *)
PayloadIsShown ==
  bytes # <<>> =>
    /\ Arrived = {} => /\ offer.copy /\ offer.noQr
                       /\ "osc52" \in shown
                       /\ terminal.tmux => "hint" \in shown
    /\ {"tool", "osc52"} \intersect shown # {} => offer.copy
=============================================================================
