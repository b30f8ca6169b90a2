------------------------------- MODULE HostInfo -------------------------------
(***************************************************************************)
(* What the host says about itself (src/src/hostinfo.rs): the addresses    *)
(* the app may dial and the host keys it pins, with what `mpx bind` does   *)
(* to the addresses before they are sent (src/src/main.rs).                *)
(*                                                                         *)
(* An address is its family and an octet that tells its scope; family 0 is *)
(* a host name given with --addr.  Host key files come in the order of     *)
(* their names, and a key is the position of its file.                     *)
(***************************************************************************)
EXTENDS Subsequences

CONSTANTS
  MaxListed,   \* the addresses local_addrs returns at most
  Standard     \* the position of ssh_host_ed25519_key.pub

ASSUME ListAssumption == MaxListed \in Nat \ {0} /\ Standard \in Nat \ {0}

IpAddress == {4, 6} \X Nat
Address == IpAddress \union ({0} \X Nat)

Dialable == IpAddress \ {<<4, 127>>, <<4, 169>>, <<6, 1>>, <<6, 254>>}
Private == {<<4, 10>>, <<4, 192>>}

(* Private IPv4 first, then other IPv4, then IPv6.                         *)
Rank(addr) == IF addr \in Private THEN 1 ELSE IF addr[1] = 4 THEN 2 ELSE 3

Ranked(addrs) ==
  LET ranking(r) == Kept(addrs, {addr \in IpAddress : Rank(addr) = r})
  IN ranking(1) \o ranking(2) \o ranking(3)

(* Vec::dedup drops what equals its predecessor, and only that.            *)
Dedup(addrs) ==
  LET kept[n \in 0..Len(addrs)] ==
        IF n = 0 THEN <<>>
        ELSE IF n > 1 /\ addrs[n] = addrs[n - 1] THEN kept[n - 1]
        ELSE Append(kept[n - 1], addrs[n])
  IN kept[Len(addrs)]

Capped(addrs) == SubSeq(addrs, 1, IF Len(addrs) < MaxListed THEN Len(addrs)
                                                            ELSE MaxListed)

LocalAddrsCappedEarly(interfaces) ==
  Dedup(Ranked(Capped(Kept(interfaces, Dialable))))

LocalAddrs(interfaces) ==
  Capped(Dedup(Ranked(Kept(interfaces, Dialable))))

(* Host names cannot ride in the payload.                                  *)
ParsedAddrs(addrs) == Kept(addrs, IpAddress)
-----------------------------------------------------------------------------
Algorithms == {"ed25519", "rsa"}
FileContents == Algorithms \union {"unreadable"}   \* or missing, or no key

FingerprintsInOrder(files) ==
  Kept([n \in DOMAIN files |-> n], {n \in DOMAIN files : files[n] \in Algorithms})

(* host_key_fingerprints: an ed25519 key goes before those listed so far.  *)
Fingerprints(files) ==
  LET listed[n \in 0..Len(files)] ==
        IF n = 0 THEN <<>>
        ELSE IF files[n] = "ed25519" THEN <<n>> \o listed[n - 1]
        ELSE IF files[n] \in Algorithms THEN Append(listed[n - 1], n)
        ELSE listed[n - 1]
  IN listed[Len(files)]

(* ed25519_host_key_digest: the key in the file of that name.              *)
HostKeyDigest(files) ==
  IF Standard \in DOMAIN files /\ files[Standard] \in Algorithms
    THEN Standard ELSE 0
=============================================================================
