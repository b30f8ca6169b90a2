------------------------------- MODULE KeyFile -------------------------------
(***************************************************************************)
(* What authorized_keys editing promises whoever runs mpx: the file only   *)
(* ever changes by one whole edit, which adds the line of a key that was   *)
(* not there, at the end, or removes lines mpx itself enrolled.            *)
(***************************************************************************)
EXTENDS Subsequences

CONSTANTS Keys,     \* keys that may be enrolled
          Ids,      \* marker ids of the lines mpx writes
          Lines     \* every line a file may hold: [key, owner]

VARIABLE lines      \* the file, in order

Init == lines \in Seq(Lines)

Add(key, id) ==
  /\ \A i \in DOMAIN lines : lines[i].key # key
  /\ lines' = Append(lines, [key |-> key, owner |-> id])

Remove(ids) ==
  /\ \E i \in DOMAIN lines : lines[i].owner \in ids
  /\ lines' = Kept(lines, {line \in Lines : line.owner \notin ids})

Next ==
  \/ \E key \in Keys, id \in Ids : Add(key, id)
  \/ \E ids \in SUBSET Ids : Remove(ids)

Spec == Init /\ [][Next]_lines
=============================================================================
