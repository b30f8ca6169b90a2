------------------------------ MODULE BindOffer ------------------------------
(***************************************************************************)
(* What one run of `mpx bind` promises, with no clock, no wire format and  *)
(* no prompt: an offer is open until it ends exactly once; while it is     *)
(* open somebody may prove a credential, a PIN guess costs one of a fixed  *)
(* number of tries, and only the current holder of a credential can get a  *)
(* key enrolled or be turned down by the operator.  The offer can always   *)
(* be withdrawn (expired, canceled) while nobody holds it.                 *)
(*                                                                         *)
(* BindSession is shown to implement this module.                          *)
(***************************************************************************)
EXTENDS Naturals, FiniteSets

CONSTANTS
  Keys,      \* the public keys a client may present
  Tries      \* wrong PINs the offer answers before the PIN stops working

VARIABLES
  status,    \* "open", or how the offer ended
  keys,      \* the keys authorized_keys lets in
  tries,     \* PIN tries left
  holder     \* the credential the peer being served has proven, or "nobody"

vars == <<status, keys, tries, holder>>

Credentials == {"token", "pin"}
Endings == {"Enrolled", "Expired", "Declined", "Canceled"}

TypeOK ==
  /\ status \in {"open"} \union Endings
  /\ keys \subseteq Keys
  /\ tries \in 0..Tries
  /\ holder \in {"nobody"} \union Credentials

Init ==
  /\ status = "open"
  /\ keys \in SUBSET Keys
  /\ tries = Tries
  /\ holder = "nobody"

(* The peer being served proves a credential; a PIN only while it works.   *)
Prove(via) ==
  /\ status = "open"
  /\ holder = "nobody"
  /\ via = "pin" => tries > 0
  /\ holder' = via
  /\ UNCHANGED <<status, keys, tries>>

(* A wrong PIN costs a try and nothing else.                               *)
WrongPin ==
  /\ status = "open"
  /\ holder = "nobody"
  /\ tries > 0
  /\ tries' = tries - 1
  /\ UNCHANGED <<status, keys, holder>>

(* The peer goes away, or is sent away, with nothing enrolled.             *)
Release ==
  /\ status = "open"
  /\ holder # "nobody"
  /\ holder' = "nobody"
  /\ UNCHANGED <<status, keys, tries>>

(* The holder's key is let in, and the offer is over.                      *)
Enroll(k) ==
  /\ status = "open"
  /\ holder # "nobody"
  /\ keys' = keys \union {k}
  /\ status' = "Enrolled"
  /\ UNCHANGED <<tries, holder>>

Decline ==
  /\ status = "open"
  /\ holder # "nobody"
  /\ status' = "Declined"
  /\ UNCHANGED <<keys, tries, holder>>

Withdraw(why) ==
  /\ status = "open"
  /\ holder = "nobody"
  /\ status' = why
  /\ UNCHANGED <<keys, tries, holder>>

Next ==
  \/ \E via \in Credentials : Prove(via)
  \/ WrongPin
  \/ Release
  \/ \E k \in Keys : Enroll(k)
  \/ Decline
  \/ \E why \in {"Expired", "Canceled"} : Withdraw(why)

Spec == Init /\ [][Next]_vars
=============================================================================
