----------------------------- MODULE PayloadCodec -----------------------------
(***************************************************************************)
(* The bind payload (src/src/payload.rs): what the QR and the clipboard    *)
(* carry, byte for byte, and what the other end reads back.                *)
(*                                                                         *)
(* Bytes are numbers.  Fields of a fixed size are one byte each: spub,     *)
(* token and port together (Session), the SSH port and the key seed        *)
(* together (Seed), the host key digest one.  An address is its family and *)
(* one octet, which an IPv6 address sends twice.  A text is a sequence of  *)
(* characters of one byte (Narrow) or two (Wide); "no text" is an empty    *)
(* one, and no digest is 0.                                                *)
(***************************************************************************)
EXTENDS Naturals, Sequences, FiniteSetsExt, SequencesExt

CONSTANTS
  MaxAddrs,   \* MAX_ADDRS
  MaxName,    \* MAX_NAME, in bytes
  MaxText     \* 255, the longest text a one-byte length allows

Version == 2
Session == 7
Seed == 9
Digest == 32
Narrow == <<65>>
Wide == <<195, 169>>
Families == {4, 6}

ASSUME LimitAssumption == MaxAddrs \in Nat \ {0} /\ MaxName \in Nat /\ MaxText \in Nat

-----------------------------------------------------------------------------
(* encode.                                                                 *)

(* The characters that fit in a number of bytes.                           *)
Fitting(text, size) ==
  LET fits == {n \in 0..Len(text) : Len(FlattenSeq(SubSeq(text, 1, n))) <= size}
  IN SubSeq(text, 1, Max(fits))

CutBytes(text, size) ==
  LET all == FlattenSeq(text) IN SubSeq(all, 1, Min({Len(all), size}))

NameBytesCutAnywhere(name) == CutBytes(name, MaxName)

(* truncated_name: on a character boundary.                                *)
NameBytes(name) == FlattenSeq(Fitting(name, MaxName))

(* The user and the path: at MaxText bytes, wherever that is.              *)
TextBytes(text) == CutBytes(text, MaxText)

Prefixed(field) == <<Len(field)>> \o field

EncodeAddr(addr) ==
  IF addr[1] = 4 THEN addr ELSE Append(addr, addr[2])

EncodeAddrs(addrs) ==
  LET sent == SubSeq(addrs, 1, Min({Len(addrs), MaxAddrs}))
  IN <<Len(sent)>> \o FlattenSeq([i \in DOMAIN sent |-> EncodeAddr(sent[i])])

EncodeOffline(p) ==
  IF ~p.offline THEN <<>>
  ELSE Prefixed(TextBytes(p.user)) \o <<Seed>> \o Prefixed(TextBytes(p.path))
         \o (IF p.digest = 0 THEN <<0>> ELSE <<Digest, p.digest>>)

Encode(p) ==
  <<Version, IF p.offline THEN 1 ELSE 0, Session>>
    \o EncodeAddrs(p.addrs) \o Prefixed(NameBytes(p.name)) \o EncodeOffline(p)
-----------------------------------------------------------------------------
(* decode.                                                                 *)

None == [addrs |-> <<>>, name |-> <<>>, offline |-> FALSE, user |-> <<>>,
         path |-> <<>>, digest |-> 0]
Unread == [None EXCEPT !.addrs = << <<0, 0>> >>]   \* 0 is no family

(* from_utf8: a wide character's bytes come in pairs and in order.         *)
ValidText(field) ==
  \A i \in DOMAIN field :
    /\ field[i] = Wide[1] => i < Len(field) /\ field[i + 1] = Wide[2]
    /\ field[i] = Wide[2] => i > 1 /\ field[i - 1] = Wide[1]

Characters(field) ==
  LET characters[n \in 0..Len(field)] ==
        IF n = 0 THEN <<>>
        ELSE IF field[n] = Wide[2] THEN characters[n - 1]
        ELSE Append(characters[n - 1], IF field[n] = Wide[1] THEN Wide ELSE Narrow)
  IN characters[Len(field)]

(* Reader: the bytes of a field whose length is the byte at a position,    *)
(* and the position after it.                                              *)
HasField(b, at) == at \in DOMAIN b /\ at + b[at] <= Len(b)
Field(b, at) == SubSeq(b, at + 1, at + b[at])
After(b, at) == at + b[at] + 1

(* The position of every address and the one after the last, or 0 from the *)
(* first that cannot be read on.                                           *)
AddrSize(family) == IF family = 4 THEN 2 ELSE 3

NextAddr(b, at) ==
  IF at \in DOMAIN b /\ b[at] \in Families /\ at + AddrSize(b[at]) - 1 <= Len(b)
    THEN at + AddrSize(b[at]) ELSE 0

AddrPositions(b) ==
  LET position[n \in 1..(MaxAddrs + 1)] ==
        IF n = 1 THEN 5 ELSE NextAddr(b, position[n - 1])
  IN position

AfterAddrs(b) ==
  IF 4 \in DOMAIN b /\ b[4] <= MaxAddrs THEN AddrPositions(b)[b[4] + 1] ELSE 0

Addrs(b) ==
  [n \in 1..b[4] |-> LET at == AddrPositions(b)[n] IN <<b[at], b[at + 1]>>]

DecodeText(b, at) == HasField(b, at) /\ ValidText(Field(b, at))

HasDigestLength(b, at) == at \in DOMAIN b /\ b[at] \in {0, Digest}

HasDigest(b, at) ==
  at \in DOMAIN b /\ (b[at] = 0 \/ (b[at] = Digest /\ at + 1 \in DOMAIN b))

DigestAt(b, at) ==
  IF b[at] = Digest /\ at + 1 \in DOMAIN b THEN b[at + 1] ELSE 0

DecodeOffline(b, at, online) ==
  LET path   == After(b, at) + 1
      digest == After(b, path)
  IN IF /\ DecodeText(b, at)
        /\ After(b, at) \in DOMAIN b
        /\ DecodeText(b, path)
        /\ HasDigest(b, digest)
       THEN [online EXCEPT !.offline = TRUE,
                           !.user = Characters(Field(b, at)),
                           !.path = Characters(Field(b, path)),
                           !.digest = DigestAt(b, digest)]
       ELSE None

Decode(b) ==
  LET name   == AfterAddrs(b)
      online == [None EXCEPT !.addrs = Addrs(b), !.name = Characters(Field(b, name))]
  IN IF Len(b) < 4 \/ b[1] # Version \/ name = 0 \/ ~DecodeText(b, name) THEN None
     ELSE IF b[2] = 1 THEN DecodeOffline(b, After(b, name), online)
     ELSE online
=============================================================================
