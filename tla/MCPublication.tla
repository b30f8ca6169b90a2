---------------------------- MODULE MCPublication ----------------------------
(* A small instance of Publication for TLC: up to four interfaces of every *)
(* scope, one address more than is listed and two more than are sent;      *)
(* names that end inside, at and past the limit with a wide character on   *)
(* either side of it; paths up to and past the limit; three host key       *)
(* files.  The octets 4 and 6 are those a parser could take for families.  *)
EXTENDS Publication

Texts(n) == UNION {[1..k -> {Narrow, Wide}] : k \in 0..n}

Plugged == {<<4, 127>>, <<4, 10>>, <<4, 192>>, <<4, 6>>, <<6, 254>>, <<6, 4>>}

Offer(addrs, name, path, flags) ==
  [addrs |-> addrs, name |-> name, offline |-> "offline" \in flags,
   user |-> IF "offline" \in flags THEN <<Wide, Narrow>> ELSE <<>>,
   path |-> path, copy |-> "copy" \in flags, noQr |-> "no_qr" \in flags]

Host(interfaces, listable, files) ==
  [interfaces |-> interfaces, listable |-> listable, files |-> files]

Keys == <<"rsa", "ed25519", "unreadable">>
Long == <<Narrow, Narrow, Wide>>

MCBinds ==
  {[host |-> Host(interfaces, TRUE, Keys),
    offer |-> Offer(<<>>, <<Narrow>>, <<>>, {"no_qr"})] :
     interfaces \in UNION {[1..k -> Plugged] : k \in 0..4}} \union
  {[host |-> Host(<< <<6, 4>>, <<4, 6>> >>, listable, files),
    offer |-> Offer(<<>>, Long, path, {"offline", "copy"})] :
     listable \in BOOLEAN, files \in [1..3 -> FileContents],
     path \in {<<>>, <<Wide>>}} \union
  {[host |-> Host(<<>>, TRUE, Keys), offer |-> Offer(<<>>, Long, path, flags)] :
     path \in Texts(4), flags \in {{"offline"}, {"offline", "copy", "no_qr"}}} \union
  {[host |-> Host(<<>>, TRUE, <<>>),
    offer |-> Offer(<< <<0, 1>>, <<4, 8>> >>, name, <<>>, flags)] :
     name \in Texts(3), flags \in SUBSET {"copy", "no_qr"}}
=============================================================================
