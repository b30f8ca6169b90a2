------------------------------ MODULE LineSyntax ------------------------------
(***************************************************************************)
(* The text of one authorized_keys line, from the device name a key is     *)
(* enrolled under to what `mpx unbind` makes of it: util::device_slug      *)
(* makes the name a field, the enrollment writes the line, an              *)
(* administrator may put sshd options before it or a # that disables it,   *)
(* and authkeys::parse_line walks the options to find the key again.       *)
(*                                                                         *)
(* A character is what the code can tell apart.  "key" stands for the text *)
(* of a key type, "marker" for MARKER_PREFIX, "device" for that word;      *)
(* "plain" is any other lower case letter or digit and "upper" an upper    *)
(* case one.                                                               *)
(***************************************************************************)
EXTENDS Naturals, Sequences, FiniteSetsExt

CONSTANTS
  Enrollments,  \* lines mpx writes: [name, options]; name is the device's, and
                \* options what an administrator puts before the key
  Others,       \* lines mpx did not write: [comment, options]
  Keyless,      \* texts that hold no key
  MaxSlug       \* 24, the length device_slug stops at

Characters == {"plain", "upper", "dash", "space", "quote", "backslash", "hash",
               "colon", "key", "marker", "device"}
Texts == Seq(Characters)

ASSUME TextAssumption ==
  /\ Enrollments \subseteq [name : Texts, options : Texts]
  /\ Others \subseteq [comment : Texts, options : Texts]
  /\ Keyless \subseteq Texts
ASSUME SlugAssumption == MaxSlug \in Nat \ {0}

VARIABLES
  entry,   \* history: how the line came about, [by, name, options, comment]
  line,    \* its text, <<>> until it is written
  parsed   \* what parse_line found in it

vars == <<entry, line, parsed>>
-----------------------------------------------------------------------------
(* device_slug.                                                            *)

Lower(c) == IF c = "upper" THEN "plain" ELSE c

PushEvery(slug, c) == Append(slug, IF Lower(c) = "plain" THEN "plain" ELSE "dash")

(* One turn of the loop: a run of other characters is one dash, and none   *)
(* at the front.                                                           *)
Push(slug, c) ==
  IF Lower(c) = "plain" THEN Append(slug, "plain")
  ELSE IF slug = <<>> \/ slug[Len(slug)] = "dash" THEN slug
  ELSE Append(slug, "dash")

TrimNothing(slug) == IF slug = <<>> THEN <<"device">> ELSE slug

(* trim_matches('-'), and a word for a name that leaves nothing.           *)
Trim(slug) ==
  LET letters == {i \in DOMAIN slug : slug[i] # "dash"}
  IN IF letters = {} THEN <<"device">> ELSE SubSeq(slug, Min(letters), Max(letters))

DeviceSlug(name) ==
  LET slug[n \in 0..Len(name)] ==
        IF n = 0 THEN <<>>
        ELSE IF Len(slug[n - 1]) >= MaxSlug THEN slug[n - 1]
        ELSE Push(slug[n - 1], name[n])
  IN Trim(slug[Len(name)])
-----------------------------------------------------------------------------
(* parse_line, of a trimmed line.                                         *)

StartsWith(text, c) == text # <<>> /\ Head(text) = c

EscapeNothing(at, c) == FALSE

(* A backslash hides the next character, inside quotes only.               *)
Escapes(at, c) == c = "backslash" /\ at.quoted

(* quoted and escaped as the loop of skip_options has them at each         *)
(* character of the text.                                                  *)
Walk(text) ==
  LET at[i \in 1..Len(text)] ==
        IF i = 1 THEN [quoted |-> FALSE, escaped |-> FALSE]
        ELSE LET c == text[i - 1]
                 before == at[i - 1]
             IN IF before.escaped THEN [before EXCEPT !.escaped = FALSE]
                ELSE IF Escapes(before, c) THEN [before EXCEPT !.escaped = TRUE]
                ELSE [before EXCEPT !.quoted = (@ # (c = "quote"))]
  IN at

TrimStart(text) ==
  LET solid == {i \in DOMAIN text : text[i] # "space"}
  IN IF solid = {} THEN <<>> ELSE SubSeq(text, Min(solid), Len(text))

(* The scan the comment on parse_line warns of.                            *)
ScanForKeyType(text) ==
  LET types == {i \in DOMAIN text : text[i] = "key"}
  IN IF types = {} THEN text ELSE SubSeq(text, Min(types), Len(text))

(* The first unquoted space ends field one: the key type or the options.   *)
SkipOptions(text) ==
  LET at    == Walk(text)
      stops == {i \in DOMAIN text : text[i] = "space" /\ ~at[i].quoted /\ ~at[i].escaped}
  IN IF stops = {} \/ StartsWith(text, "key") THEN text
     ELSE TrimStart(SubSeq(text, Min(stops), Len(text)))

(* split_whitespace.                                                       *)
Fields(text) ==
  LET field[n \in 0..Len(text)] ==
        IF n = 0 THEN <<>>
        ELSE LET done == field[n - 1]
             IN IF text[n] = "space" THEN done
                ELSE IF n = 1 \/ text[n - 1] = "space" THEN Append(done, <<text[n]>>)
                ELSE [done EXCEPT ![Len(done)] = Append(@, text[n])]
  IN field[Len(text)]

(* The fields from the third on, joined by one space.                      *)
Comment(fields) ==
  LET joined[n \in 2..Len(fields)] ==
        IF n = 2 THEN <<>>
        ELSE IF n = 3 THEN fields[3]
        ELSE joined[n - 1] \o <<"space">> \o fields[n]
  IN joined[Len(fields)]

None == [key |-> <<>>, comment |-> <<>>]
Unread == [key |-> <<"space">>, comment |-> <<>>]   \* no field is a space

ParseLine(text) ==
  LET fields == Fields(SkipOptions(text))
  IN IF StartsWith(text, "hash") \/ Len(fields) < 2 THEN None
     ELSE [key |-> fields[2], comment |-> Comment(fields)]

(* marked_keys: splitn(2, ':') of what follows the marker.                 *)
NotMarked == [id |-> <<>>, device |-> <<>>]

MarkedKey(comment) ==
  LET after  == Tail(comment)
      colons == {i \in DOMAIN after : after[i] = "colon"}
  IN IF ~StartsWith(comment, "marker") THEN NotMarked
     ELSE IF colons = {} THEN [id |-> after, device |-> <<>>]
     ELSE [id |-> SubSeq(after, 1, Min(colons) - 1),
           device |-> SubSeq(after, Min(colons) + 1, Len(after))]
-----------------------------------------------------------------------------
Id == <<"plain">>
Key == <<"plain", "plain">>

Init ==
  /\ \/ \E e \in Enrollments :
          entry = [by |-> "mpx", name |-> e.name, options |-> e.options, comment |-> <<>>]
     \/ \E o \in Others :
          entry = [by |-> "user", name |-> <<>>, options |-> o.options,
                   comment |-> o.comment]
     \/ \E text \in Keyless :
          entry = [by |-> "nobody", name |-> <<>>, options |-> text, comment |-> <<>>]
  /\ line = <<>>
  /\ parsed = Unread

(* The line as ensure_line writes it, `multiplex:bind:<id>:<slug>` its     *)
(* comment, or as somebody else did; what stands before the key may come   *)
(* later, but before the line is read again.                               *)
Write ==
  LET comment == IF entry.by = "mpx"
                   THEN <<"marker">> \o Id \o <<"colon">> \o DeviceSlug(entry.name)
                   ELSE entry.comment
      tail   == IF comment = <<>> THEN <<>> ELSE <<"space">> \o comment
      fields == IF entry.by = "nobody" THEN <<>> ELSE <<"key", "space">> \o Key \o tail
  IN /\ line = <<>>
     /\ line' = entry.options \o fields
     /\ entry' = [entry EXCEPT !.comment = comment]
     /\ UNCHANGED parsed

Read ==
  /\ line # <<>>
  /\ parsed = Unread
  /\ parsed' = ParseLine(line)
  /\ UNCHANGED <<entry, line>>

Next == Write \/ Read
Spec == Init /\ [][Next]_vars
-----------------------------------------------------------------------------
(* Properties.                                                             *)

Granted == entry.by # "nobody" /\ ~StartsWith(entry.options, "hash")

(* The one form in which the walk and sshd differ: a quote behind an even  *)
(* number of backslashes, two at least.  To sshd a backslash hides a quote *)
(* and nothing else, so the quote is part of the value; to the walk the    *)
(* backslashes hide each other, and the quote ends the value.              *)
Disputed(text) ==
  \E i \in 1..Len(text), m \in 1..Len(text) :
    /\ 2 * m < i
    /\ text[i] = "quote"
    /\ \A j \in (i - 2 * m)..(i - 1) : text[j] = "backslash"
    /\ i = 2 * m + 1 \/ text[i - 2 * m - 1] # "backslash"

(* Whatever the options quote or escape, but for the disputed form, the    *)
(* key of the line is found, so that enrolling it again adds nothing, and  *)
(* its comment is the one it was written with; a line behind a #, or one   *)
(* without a key, has neither (authkeys.rs 42-49).  With the disputed form *)
(* the key may be missed, although authkeys.rs 67-68 has the escapes be    *)
(* those "which sshd honours".                                             *)
KeyIsFound ==
  parsed # Unread /\ ~Disputed(entry.options) =>
    parsed = IF Granted
               THEN [key |-> Key,
                     comment |-> Comment(<<"type", "key">> \o Fields(entry.comment))]
               ELSE None

(* `mpx unbind` lists every enrollment under its id and the name the       *)
(* device was given, and no line mpx did not write (authkeys.rs 1-4,       *)
(* README.md 43-45), as long as what was put before the key is read as     *)
(* sshd reads it.                                                          *)
EnrollmentIsListed ==
  parsed # Unread /\ Granted /\ ~Disputed(entry.options) =>
    MarkedKey(parsed.comment) =
      IF entry.by = "mpx" THEN [id |-> Id, device |-> DeviceSlug(entry.name)]
                          ELSE NotMarked

(* A slug is lower case letters and digits with single dashes between      *)
(* them, never empty and never longer than MaxSlug (util.rs 46-47).        *)
SlugIsScannable ==
  LET slug == DeviceSlug(entry.name)
  IN \/ slug = <<"device">>
     \/ /\ Len(slug) \in 1..MaxSlug
        /\ \A i \in DOMAIN slug :
             \/ slug[i] = "plain"
             \/ i \in 2..(Len(slug) - 1) /\ slug[i - 1] = "plain" /\ slug[i + 1] = "plain"
=============================================================================
