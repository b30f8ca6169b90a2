------------------------- MODULE AuthorizedKeysProofs -------------------------
(***************************************************************************)
(* Theorems about AuthorizedKeys, for any number of processes, keys,       *)
(* markers and files.  The first half holds whoever runs at the same time, *)
(* whatever fails and whenever the power goes; the second is about one     *)
(* process at a time.                                                      *)
(***************************************************************************)
EXTENDS AuthorizedKeys, SubsequencesProofs

(* Conditions a process satisfies at its step, with its scratch file.      *)
Fits(p, process, file) ==
  /\ process \in Procs
  /\ process.step # "idle" /\ process.op = "enroll" =>
       process.key \in Keys /\ process.id \in Ids
  /\ process.step \in Writing =>
       original.kind # "unreadable" /\ AsEdited(process.content)
  /\ process.step \in {"write", "sync", "rename"} => file.by = p
  /\ process.step = "rename" => file.content = Synced(process.content)
  /\ process.step = "create" /\ ~IoErrors => file = NoScratch

LEMMA AllFit ==
  ASSUME TypeOK
  PROVE  ProcInv /\ ScratchInv <=> \A p \in Pids : Fits(p, proc[p], scratch[p])
  BY DEF TypeOK, ProcInv, ScratchInv, Fits, At, HasScratch, ScratchName

LEMMA NewProcType == NewProc \in Procs /\ NewProc.step = "idle"
  <1>1. <<>> \in Seq(Lines)
    BY EmptySeq
  <1> QED
    BY <1>1 DEF NewProc, Procs, Steps, Results

LEMMA ContentsType ==
  /\ Absent \in Contents /\ Torn \in Contents
  /\ \A lines \in Seq(Lines) : Written(lines) \in Contents /\ Synced(lines) \in Contents
  <1>1. <<>> \in Seq(Lines)
    BY EmptySeq
  <1> QED
    BY <1>1 DEF Absent, Torn, Written, Synced, Contents

(* Everything but the disk, and the process that moves.                    *)
LEMMA KeysStep ==
  ASSUME KeysInv, NEW p \in Pids, NEW process,
         proc' = [proc EXCEPT ![p] = process],
         original' = original,
         scratch' \in [Pids -> [by : Pids \union {"nobody"}, content : Contents]],
         \A q \in Pids \ {p} : scratch'[q] = scratch[q],
         Fits(p, process, scratch'[p]),
         parent' \in ParentStates, runs' \in 0..MaxRuns,
         enrolled' \subseteq Lines, revoked' \subseteq Ids,
         disk' \in Contents, durable' \subseteq Contents, DiskInv'
  PROVE  KeysInv'
  <1>1. proc \in [Pids -> Procs] /\ process \in Procs
    BY DEF KeysInv, TypeOK, Fits
  <1>2. TypeOK'
    BY <1>1 DEF KeysInv, TypeOK
  <1>3. ASSUME NEW q \in Pids
        PROVE  Fits(q, proc[q], scratch[q])'
    <2>1. CASE q = p
      BY <1>1, <2>1 DEF Fits, AsEdited
    <2>2. CASE q # p
      <3>1. Fits(q, proc[q], scratch[q])
        BY AllFit DEF KeysInv
      <3>2. proc'[q] = proc[q] /\ scratch'[q] = scratch[q]
        BY <1>1, <2>2
      <3> QED
        BY <3>1, <3>2 DEF Fits, AsEdited
    <2> QED
      BY <2>1, <2>2
  <1>4. TypeOK' /\ (\A q \in Pids : Fits(q, proc[q], scratch[q])') => (ProcInv /\ ScratchInv)'
    BY DEF TypeOK, ProcInv, ScratchInv, Fits, At, HasScratch, ScratchName
  <1> QED
    BY <1>2, <1>3, <1>4 DEF KeysInv

LEMMA SameDisk ==
  ASSUME KeysInv, UNCHANGED <<disk, durable, original>>
  PROVE  disk' \in Contents /\ durable' \subseteq Contents /\ DiskInv'
  BY DEF KeysInv, TypeOK, DiskInv, AsEdited

(* A process that has ended is no longer in anybody's way.                 *)
LEMMA ExitKeeps ==
  ASSUME KeysInv, NEW p \in Pids, NEW result \in Results, Exit(p, result),
         original' = original,
         scratch' \in [Pids -> [by : Pids \union {"nobody"}, content : Contents]],
         \A q \in Pids \ {p} : scratch'[q] = scratch[q],
         parent' = parent, runs' = runs,
         enrolled' \subseteq Lines, revoked' \subseteq Ids,
         disk' \in Contents, durable' \subseteq Contents, DiskInv'
  PROVE  KeysInv'
  <1> DEFINE process == [NewProc EXCEPT !.result = result]
  <1>1. process \in Procs /\ process.step = "idle"
    BY NewProcType DEF NewProc, Procs
  <1>2. Fits(p, process, scratch'[p])
    BY <1>1 DEF Fits, Writing
  <1>3. proc' = [proc EXCEPT ![p] = process]
    BY DEF Exit
  <1> HIDE DEF process
  <1>4. parent' \in ParentStates /\ runs' \in 0..MaxRuns
    BY DEF KeysInv, TypeOK
  <1> QED
    BY <1>2, <1>3, <1>4, KeysStep
-----------------------------------------------------------------------------
(* The two edits keep what every run leaves as it was.                     *)

(* A new key at the end of lines that have it nowhere is found once.       *)
LEMMA DistinctAppend ==
  ASSUME NEW lines \in Seq(Lines), NEW line \in Lines, KeysAreDistinct(lines),
         line.key = NoKey \/ ~HasKey(lines, line.key)
  PROVE  KeysAreDistinct(Append(lines, line))
  <1> DEFINE longer == Append(lines, line)
  <1>1. /\ Len(lines) \in Nat /\ DOMAIN lines = 1..Len(lines)
        /\ DOMAIN longer = 1..Len(lines) + 1
        /\ longer[Len(lines) + 1] = line
        /\ \A n \in 1..Len(lines) : longer[n] = lines[n]
    BY AppendFacts
  <1>2. \A n \in 1..Len(lines) : line.key = NoKey \/ lines[n].key # line.key
    BY <1>1 DEF HasKey, SetOf
  <1> HIDE DEF longer
  <1>3. SUFFICES ASSUME NEW i \in DOMAIN longer, NEW j \in DOMAIN longer, i # j
                 PROVE  longer[i].key # longer[j].key \/ longer[i].key = NoKey
    BY DEF KeysAreDistinct, longer
  <1>4. CASE i \in 1..Len(lines) /\ j \in 1..Len(lines)
    BY <1>1, <1>4, <1>3 DEF KeysAreDistinct
  <1>5. CASE i = Len(lines) + 1 /\ j \in 1..Len(lines)
    BY <1>1, <1>2, <1>5
  <1>6. CASE i \in 1..Len(lines) /\ j = Len(lines) + 1
    BY <1>1, <1>2, <1>6
  <1> QED
    BY <1>1, <1>3, <1>4, <1>5, <1>6

(* What is left of lines with distinct keys has distinct keys.             *)
LEMMA DistinctKept ==
  ASSUME NEW S
  PROVE  \A lines \in Seq(Lines) :
           KeysAreDistinct(lines) => KeysAreDistinct(Kept(lines, S))
  <1> DEFINE G == {lines \in Seq(Lines) :
                     KeysAreDistinct(lines) => KeysAreDistinct(Kept(lines, S))}
  <1>1. <<>> \in G
    BY KeptEmpty, EmptySeq DEF KeysAreDistinct
  <1>2. ASSUME NEW lines \in G, NEW line \in Lines
        PROVE  Append(lines, line) \in G
    <2> DEFINE longer == Append(lines, line)
    <2>1. lines \in Seq(Lines) /\ longer \in Seq(Lines) /\ Kept(lines, S) \in Seq(Lines)
      BY AppendFacts, KeptType
    <2>2. ASSUME KeysAreDistinct(longer)
          PROVE  KeysAreDistinct(Kept(longer, S))
      <3>1. /\ Len(lines) \in Nat /\ DOMAIN lines = 1..Len(lines)
            /\ DOMAIN longer = 1..Len(lines) + 1
            /\ longer[Len(lines) + 1] = line
            /\ \A n \in 1..Len(lines) : longer[n] = lines[n]
        BY <2>1, AppendFacts
      <3>2. /\ \A i, j \in 1..Len(lines) + 1 : i # j =>
                 longer[i].key # longer[j].key \/ longer[i].key = NoKey
            /\ 1..Len(lines) \subseteq 1..Len(lines) + 1
            /\ Len(lines) + 1 \in 1..Len(lines) + 1
            /\ Len(lines) + 1 \notin 1..Len(lines)
        BY <2>2, <3>1 DEF KeysAreDistinct
      <3> HIDE DEF longer
      <3>3. KeysAreDistinct(lines)
        BY <3>1, <3>2 DEF KeysAreDistinct
      <3>4. line.key = NoKey \/ ~HasKey(lines, line.key)
        BY <3>1, <3>2 DEF HasKey, SetOf
      <3>5. KeysAreDistinct(Kept(lines, S))
        BY <3>3
      <3>6. line.key = NoKey \/ ~HasKey(Kept(lines, S), line.key)
        <4>1. SetOf(Kept(lines, S)) = SetOf(lines) \intersect S
          BY <2>1, KeptElements
        <4> QED
          BY <3>4, <4>1 DEF HasKey
      <3>7. Kept(longer, S) = IF line \in S THEN Append(Kept(lines, S), line)
                                            ELSE Kept(lines, S)
        BY <2>1, KeptAppend DEF longer
      <3>8. CASE line \in S
        BY <2>1, <3>5, <3>6, <3>7, <3>8, DistinctAppend
      <3>9. CASE line \notin S
        BY <3>5, <3>7, <3>9
      <3> QED
        BY <3>8, <3>9
    <2> QED
      BY <2>1, <2>2
  <1>3. G \subseteq Seq(Lines)
    OBVIOUS
  <1>4. \A lines \in G : KeysAreDistinct(lines) => KeysAreDistinct(Kept(lines, S))
    OBVIOUS
  <1> HIDE DEF G
  <1>5. G = Seq(Lines)
    BY <1>1, <1>2, <1>3, SequenceInduction
  <1> QED
    BY <1>4, <1>5

LEMMA AddedIsEdited ==
  ASSUME NEW lines \in Seq(Lines), AsEdited(lines), NEW key \in Keys, NEW id \in Ids,
         ~HasKey(lines, key)
  PROVE  /\ Append(lines, [key |-> key, owner |-> id]) \in Seq(Lines)
         /\ AsEdited(Append(lines, [key |-> key, owner |-> id]))
  <1> DEFINE line == [key |-> key, owner |-> id]
  <1>1. line \in Lines /\ line.key = key /\ line \notin UserLines
    BY LineAssumption DEF Lines, UserLines
  <1> HIDE DEF line
  <1>2. Append(lines, line) \in Seq(Lines)
    BY <1>1, AppendFacts
  <1>3. Kept(Append(lines, line), UserLines) = Kept(lines, UserLines)
    BY <1>1, KeptAppend
  <1>4. KeysAreDistinct(original.lines) => KeysAreDistinct(Append(lines, line))
    BY <1>1, DistinctAppend DEF AsEdited
  <1>5. AsEdited(Append(lines, line))
    BY <1>3, <1>4 DEF AsEdited
  <1> QED
    BY <1>2, <1>5 DEF line

LEMMA RemainingIsEdited ==
  ASSUME NEW lines \in Seq(Lines), AsEdited(lines), NEW ids \in SUBSET Ids
  PROVE  Remaining(lines, ids) \in Seq(Lines) /\ AsEdited(Remaining(lines, ids))
  <1> DEFINE S == {line \in Lines : line.owner \notin ids}
  <1>1. S \intersect UserLines = UserLines
    BY LineAssumption DEF UserLines
  <1>2. Remaining(lines, ids) = Kept(lines, S)
    BY DEF Remaining
  <1> HIDE DEF S
  <1>3. Kept(lines, S) \in Seq(Lines)
    BY KeptType
  <1>4. Kept(Kept(lines, S), UserLines) = Kept(lines, UserLines)
    BY <1>1, KeptTwice
  <1>5. KeysAreDistinct(lines) => KeysAreDistinct(Kept(lines, S))
    BY DistinctKept
  <1> QED
    BY <1>2, <1>3, <1>4, <1>5 DEF AsEdited
-----------------------------------------------------------------------------
(* Each action.                                                            *)

LEMMA KeysInv_Init == Init => KeysInv
  <1> SUFFICES ASSUME Init
               PROVE  KeysInv
    OBVIOUS
  <1>1. original \in Contents /\ original.kind \in {"absent", "unreadable", "whole"}
    BY FileAssumption DEF Init
  <1>2. TypeOK
    <2>1. 0 \in 0..MaxRuns
      BY RunAssumption
    <2>2. NoScratch \in [by : Pids \union {"nobody"}, content : Contents]
      BY ContentsType DEF NoScratch
    <2>3. parent \in ParentStates
      BY FileAssumption DEF Init, ParentStates
    <2> QED
      BY <1>1, <2>1, <2>2, <2>3, NewProcType DEF Init, TypeOK
  <1>3. ProcInv /\ ScratchInv
    BY NewProcType DEF Init, ProcInv, ScratchInv, At, Writing
  <1>4. DiskInv
    BY <1>1 DEF Init, DiskInv, AsEdited
  <1> QED
    BY <1>2, <1>3, <1>4 DEF KeysInv

LEMMA StartKeeps ==
  ASSUME KeysInv, NEW p \in Pids,
         \/ \E key \in Keys, id \in Ids : StartEnroll(p, key, id)
         \/ \E ids \in SUBSET Ids \ {{}} : StartUnbind(p, ids)
         \/ StartList(p)
  PROVE  KeysInv'
  <1>1. PICK process :
          /\ Start(p, process)
          /\ \/ \E key \in Keys, id \in Ids :
                  process = [NewProc EXCEPT !.step = "read", !.key = key, !.id = id]
             \/ \E ids \in SUBSET Ids :
                  process = [NewProc EXCEPT !.step = "list", !.op = "unbind", !.ids = ids]
             \/ process = [NewProc EXCEPT !.step = "list", !.op = "list"]
    BY DEF StartEnroll, StartUnbind, StartList
  <1>2. /\ process \in Procs
        /\ process.step \in {"read", "list"}
        /\ process.op = "enroll" => process.key \in Keys /\ process.id \in Ids
    BY <1>1, NewProcType DEF NewProc, Procs, Steps
  <1>3. Fits(p, process, scratch'[p])
    BY <1>2 DEF Fits, Writing
  <1>4. /\ proc' = [proc EXCEPT ![p] = process]
        /\ UNCHANGED <<disk, durable, parent, scratch, original, enrolled, revoked>>
    BY <1>1 DEF Start, files, reports
  <1>5. runs' \in 0..MaxRuns
    <2>1. runs \in 0..MaxRuns /\ runs < MaxRuns /\ runs' = runs + 1 /\ MaxRuns \in Nat
      BY <1>1, RunAssumption DEF Start, KeysInv, TypeOK
    <2> QED
      BY <2>1
  <1> QED
    BY <1>3, <1>4, <1>5, SameDisk, KeysStep DEF KeysInv, TypeOK

(* What has been read is the file as some run left it.                     *)
LEMMA ReadFacts ==
  ASSUME KeysInv, NEW lines \in ReadExisting
  PROVE  /\ lines = disk.lines /\ lines \in Seq(Lines)
         /\ AsEdited(lines) /\ original.kind # "unreadable"
  BY DEF ReadExisting, KeysInv, DiskInv, TypeOK, Contents

(* Going from one step to the next with nothing else changed of a process. *)
LEMMA GoToFits ==
  ASSUME KeysInv, NEW p \in Pids, NEW step \in Steps, NEW file,
         proc[p].step \in Writing, step \in Writing,
         step \in {"write", "sync", "rename"} => file.by = p,
         step = "rename" => file.content = Synced(proc[p].content),
         step = "create" /\ ~IoErrors => file = NoScratch
  PROVE  Fits(p, [proc[p] EXCEPT !.step = step], file)
  <1> DEFINE process == [proc[p] EXCEPT !.step = step]
  <1>1. proc[p] \in Procs
    BY DEF KeysInv, TypeOK
  <1>2. proc[p].op # "list"
    BY <1>1 DEF Procs, Writing
  <1>3. /\ process \in Procs
        /\ process.step = step /\ process.op = proc[p].op /\ process.key = proc[p].key
        /\ process.id = proc[p].id /\ process.content = proc[p].content
    BY <1>1, <1>2 DEF Procs
  <1>4. Fits(p, proc[p], scratch[p])
    BY AllFit DEF KeysInv
  <1> HIDE DEF process
  <1>5. Fits(p, process, file)
    BY <1>3, <1>4 DEF Fits, Writing
  <1> QED
    BY <1>5 DEF process

(* The calls that take a process one step further on its own file.         *)
LEMMA OnwardKeeps ==
  ASSUME KeysInv, NEW p \in Pids,
         \/ FindParent(p) \/ MakeParent(p) \/ ChmodParent(p) \/ ClearScratch(p)
         \/ CreateScratch(p) \/ WriteScratch(p) \/ SyncScratch(p)
  PROVE  KeysInv'
  <1> DEFINE Scratches == [by : Pids \union {"nobody"}, content : Contents]
  <1>1. PICK step \in Steps :
          /\ GoTo(p, step)
          /\ \/ (FindParent(p) \/ ChmodParent(p)) /\ step = "clear"
             \/ MakeParent(p) /\ step = "chmod"
             \/ ClearScratch(p) /\ step = "create"
             \/ CreateScratch(p) /\ step = "write"
             \/ WriteScratch(p) /\ step = "sync"
             \/ SyncScratch(p) /\ step = "rename"
    BY DEF FindParent, MakeParent, ChmodParent, ClearScratch, CreateScratch,
           WriteScratch, SyncScratch, Steps
  <1>2. /\ UNCHANGED <<disk, durable, runs, original, enrolled, revoked>>
        /\ parent' = parent \/ parent' \in {"bare", "made"}
    BY DEF FindParent, MakeParent, ChmodParent, ClearScratch, CreateScratch,
           WriteScratch, SyncScratch, files, reports
  <1>3. scratch \in [Pids -> Scratches] /\ proc[p].content \in Seq(Lines)
    BY DEF KeysInv, TypeOK, Procs
  <1>4. \/ scratch' = scratch
        \/ \E file \in Scratches : scratch' = [scratch EXCEPT ![p] = file]
    <2>1. NoScratch \in Scratches /\ [by |-> p, content |-> Torn] \in Scratches
      BY ContentsType DEF NoScratch
    <2>2. \A c \in Contents : [scratch[p] EXCEPT !.content = c] \in Scratches
      BY <1>3
    <2>3. CASE FindParent(p) \/ MakeParent(p) \/ ChmodParent(p)
      BY <2>3 DEF FindParent, MakeParent, ChmodParent, files
    <2>4. CASE ClearScratch(p)
      BY <2>1, <2>4 DEF ClearScratch, RemoveScratch, NoMoreScratch, ScratchName
    <2>5. CASE CreateScratch(p)
      BY <2>1, <2>5 DEF CreateScratch, ScratchName
    <2>6. CASE WriteScratch(p) \/ SyncScratch(p)
      BY <1>3, <2>2, <2>6, ContentsType
      DEF WriteScratch, SyncScratch, SetOwnScratch, ScratchName
    <2> QED
      BY <2>3, <2>4, <2>5, <2>6
  <1>5. /\ scratch' \in [Pids -> Scratches]
        /\ \A q \in Pids \ {p} : scratch'[q] = scratch[q]
    BY <1>3, <1>4
  <1>6. Fits(p, [proc[p] EXCEPT !.step = step], scratch'[p])
    <2>1. CASE (FindParent(p) \/ ChmodParent(p)) /\ step = "clear"
      <3>1. proc[p].step \in {"mkdir", "chmod"}
        BY <2>1 DEF FindParent, ChmodParent, At
      <3> QED
        BY <2>1, <3>1, GoToFits DEF Writing
    <2>2. CASE MakeParent(p) /\ step = "chmod"
      <3>1. At(p, "mkdir")
        BY <2>2 DEF MakeParent
      <3> QED
        BY <2>2, <3>1, GoToFits DEF At, Writing
    <2>3. CASE ClearScratch(p) /\ step = "create"
      <3>1. At(p, "clear")
        BY <2>3 DEF ClearScratch
      <3>2. ~IoErrors => scratch'[p] = NoScratch
        BY <1>3, <2>3 DEF ClearScratch, RemoveScratch, NoMoreScratch, ScratchName
      <3> QED
        BY <2>3, <3>1, <3>2, GoToFits DEF At, Writing
    <2>4. CASE CreateScratch(p) /\ step = "write"
      <3>1. At(p, "create") /\ scratch'[p].by = p
        BY <1>3, <2>4 DEF CreateScratch, ScratchName
      <3> QED
        BY <2>4, <3>1, GoToFits DEF At, Writing
    <2>5. CASE WriteScratch(p) /\ step = "sync"
      <3>1. At(p, "write") /\ scratch[p].by = p
        BY <2>5 DEF WriteScratch, At, KeysInv, ScratchInv
      <3>2. scratch'[p].by = p
        BY <1>3, <2>5, <3>1 DEF WriteScratch, SetOwnScratch, ScratchName
      <3> QED
        BY <2>5, <3>1, <3>2, GoToFits DEF At, Writing
    <2>6. CASE SyncScratch(p) /\ step = "rename"
      <3>1. At(p, "sync") /\ scratch[p].by = p
        BY <2>6 DEF SyncScratch, At, KeysInv, ScratchInv
      <3>2. scratch'[p].by = p /\ scratch'[p].content = Synced(proc[p].content)
        BY <1>3, <2>6, <3>1 DEF SyncScratch, SetOwnScratch, ScratchName
      <3> QED
        BY <2>6, <3>1, <3>2, GoToFits DEF At, Writing
    <2> QED
      BY <1>1, <2>1, <2>2, <2>3, <2>4, <2>5, <2>6
  <1>7. proc' = [proc EXCEPT ![p] = [proc[p] EXCEPT !.step = step]]
    BY <1>1 DEF GoTo
  <1>8. parent' \in ParentStates
    BY <1>2 DEF KeysInv, TypeOK, ParentStates
  <1> QED
    BY <1>2, <1>5, <1>6, <1>7, <1>8, SameDisk, KeysStep DEF KeysInv, TypeOK

(* A process that has computed the new content starts to write it.         *)
LEMMA WriteNewKeeps ==
  ASSUME KeysInv, NEW p \in Pids, NEW lines \in Seq(Lines), At(p, "read"),
         WriteNew(p, lines), AsEdited(lines), original.kind # "unreadable",
         UNCHANGED <<files, runs, original, reports>>
  PROVE  KeysInv'
  <1> DEFINE process == [proc[p] EXCEPT !.step = "mkdir", !.content = lines]
  <1>1. proc[p] \in Procs /\ Fits(p, proc[p], scratch[p])
    BY AllFit DEF KeysInv, TypeOK
  <1>2. proc[p].op # "list" /\ proc[p].step = "read"
    BY <1>1 DEF Procs, At
  <1>3. /\ process \in Procs
        /\ process.step = "mkdir" /\ process.op = proc[p].op /\ process.key = proc[p].key
        /\ process.id = proc[p].id /\ process.content = lines
    BY <1>1, <1>2 DEF Procs, Steps
  <1>4. proc' = [proc EXCEPT ![p] = process]
    BY DEF WriteNew
  <1> HIDE DEF process
  <1>5. UNCHANGED <<disk, durable, parent, scratch, runs, original, enrolled, revoked>>
    BY DEF files, reports
  <1>6. Fits(p, process, scratch'[p])
    BY <1>1, <1>2, <1>3 DEF Fits, Writing
  <1> QED
    BY <1>4, <1>5, <1>6, SameDisk, KeysStep DEF KeysInv, TypeOK

(* Reading: what is found, listed, added or taken out.                     *)
LEMMA ReadingKeeps ==
  ASSUME KeysInv, NEW p \in Pids,
         \/ FindKey(p) \/ AppendKey(p) \/ ListKeys(p) \/ FindNothing(p)
         \/ DropMarked(p) \/ ReadFails(p)
  PROVE  KeysInv'
  <1>1. /\ proc[p] \in Procs
        /\ scratch \in [Pids -> [by : Pids \union {"nobody"}, content : Contents]]
        /\ enrolled \subseteq Lines /\ revoked \subseteq Ids
    BY DEF KeysInv, TypeOK
  <1>2. /\ UNCHANGED <<disk, durable, parent, scratch, runs, original>>
        /\ disk' \in Contents /\ durable' \subseteq Contents /\ DiskInv'
    <2>1. UNCHANGED <<disk, durable, parent, scratch, runs, original>>
      BY DEF FindKey, AppendKey, ListKeys, FindNothing, DropMarked, ReadFails, files
    <2> QED
      BY <2>1, SameDisk
  <1>3. ASSUME NEW result \in Results, Exit(p, result), enrolled' \subseteq Lines,
               revoked' \subseteq Ids
        PROVE  KeysInv'
    BY <1>1, <1>2, <1>3, ExitKeeps
  <1>4. CASE FindKey(p)
    <2>1. PICK lines \in ReadExisting :
            enrolled' = enrolled \union {line \in SetOf(lines) : line.key = proc[p].key}
      BY <1>4 DEF FindKey
    <2>2. SetOf(lines) \subseteq Lines
      <3>1. lines \in Seq(Lines)
        BY ReadFacts
      <3> QED
        BY <3>1 DEF SetOf
    <2>3. enrolled' \subseteq Lines /\ revoked' \subseteq Ids /\ Exit(p, "present")
      BY <1>1, <1>4, <2>1, <2>2 DEF FindKey
    <2> QED
      BY <1>3, <2>3 DEF Results
  <1>5. CASE AppendKey(p)
    <2>1. PICK lines \in ReadExisting :
            /\ ~HasKey(lines, proc[p].key)
            /\ WriteNew(p, Append(lines, [key |-> proc[p].key, owner |-> proc[p].id]))
      BY <1>5 DEF AppendKey
    <2>2. At(p, "read") /\ proc[p].key \in Keys /\ proc[p].id \in Ids
      BY <1>5 DEF AppendKey, At, KeysInv, ProcInv
    <2>3. lines \in Seq(Lines) /\ AsEdited(lines) /\ original.kind # "unreadable"
      BY ReadFacts
    <2>4. UNCHANGED <<files, runs, original, reports>>
      BY <1>5 DEF AppendKey
    <2> QED
      BY <2>1, <2>2, <2>3, <2>4, AddedIsEdited, WriteNewKeeps
  <1>6. CASE ListKeys(p)
    <2>1. PICK lines \in ReadExisting :
            \/ proc[p].op = "unbind" /\ GoTo(p, "read") /\ UNCHANGED revoked
            \/ /\ proc[p].op = "list"
               /\ revoked' = IF Matches(lines, Ids) THEN revoked ELSE Ids
               /\ Exit(p, "listed")
      BY <1>6 DEF ListKeys
    <2>2. At(p, "list") /\ enrolled' = enrolled
      BY <1>6 DEF ListKeys
    <2>3. CASE proc[p].op = "list"
      <3>1. Exit(p, "listed") /\ revoked' \subseteq Ids
        BY <1>1, <2>1, <2>3
      <3> QED
        BY <1>1, <1>3, <2>2, <3>1 DEF Results
    <2>4. CASE proc[p].op = "unbind"
      <3> DEFINE process == [proc[p] EXCEPT !.step = "read"]
      <3>1. GoTo(p, "read") /\ revoked' = revoked
        BY <2>1, <2>4
      <3>2. proc' = [proc EXCEPT ![p] = process]
        BY <3>1 DEF GoTo
      <3>3. process \in Procs /\ process.step = "read" /\ process.op = "unbind"
        BY <1>1, <2>4 DEF Procs, Steps
      <3> HIDE DEF process
      <3>4. Fits(p, process, scratch'[p])
        BY <3>3 DEF Fits, Writing
      <3> QED
        BY <1>1, <1>2, <2>2, <3>1, <3>2, <3>4, KeysStep DEF KeysInv, TypeOK
    <2> QED
      BY <2>1, <2>3, <2>4
  <1>7. CASE FindNothing(p)
    <2>1. /\ revoked' = revoked \union proc[p].ids /\ enrolled' = enrolled
          /\ Exit(p, "nothing") /\ proc[p].ids \subseteq Ids
      BY <1>1, <1>7 DEF FindNothing, Procs
    <2> QED
      BY <1>1, <1>3, <2>1 DEF Results
  <1>8. CASE DropMarked(p)
    <2>1. PICK lines \in ReadExisting : WriteNew(p, Remaining(lines, proc[p].ids))
      BY <1>8 DEF DropMarked
    <2>2. At(p, "read") /\ proc[p].ids \in SUBSET Ids
      BY <1>1, <1>8 DEF DropMarked, Procs
    <2>3. lines \in Seq(Lines) /\ AsEdited(lines) /\ original.kind # "unreadable"
      BY ReadFacts
    <2>4. UNCHANGED <<files, runs, original, reports>>
      BY <1>8 DEF DropMarked
    <2> QED
      BY <2>1, <2>2, <2>3, <2>4, RemainingIsEdited, WriteNewKeeps
  <1>9. CASE ReadFails(p)
    <2>1. Exit(p, "error") /\ enrolled' = enrolled /\ revoked' = revoked
      BY <1>9 DEF ReadFails, reports
    <2> QED
      BY <1>1, <1>3, <2>1 DEF Results
  <1> QED
    BY <1>4, <1>5, <1>6, <1>7, <1>8, <1>9

(* The rename gives the file the content of the scratch file, which is     *)
(* whole and synced.                                                       *)
LEMMA RenameKeeps ==
  ASSUME KeysInv, NEW p \in Pids, Rename(p)
  PROVE  KeysInv'
  <1> DEFINE Scratches == [by : Pids \union {"nobody"}, content : Contents]
  <1>1. /\ proc[p] \in Procs /\ scratch \in [Pids -> Scratches] /\ disk \in Contents
        /\ durable \subseteq Contents /\ enrolled \subseteq Lines /\ revoked \subseteq Ids
    BY DEF KeysInv, TypeOK
  <1>2. /\ scratch[p].content = Synced(proc[p].content)
        /\ original.kind # "unreadable" /\ AsEdited(proc[p].content)
    BY DEF Rename, At, KeysInv, ScratchInv, ProcInv, Writing
  <1>3. /\ disk' = Synced(proc[p].content) /\ original' = original
        /\ durable' = durable \union {disk'} \/ durable' = {disk'}
    BY <1>2 DEF Rename, ScratchName
  <1>4. proc[p].content \in Seq(Lines) /\ Synced(proc[p].content) \in Contents
    BY <1>1, ContentsType DEF Procs
  <1>5. \A c \in durable' :
          /\ c.kind \in {"absent", "unreadable", "whole"}
          /\ c.kind = "unreadable" <=> original.kind = "unreadable"
          /\ AsEdited(c.lines)
    <2>1. \A c \in durable :
            /\ c.kind \in {"absent", "unreadable", "whole"}
            /\ c.kind = "unreadable" <=> original.kind = "unreadable"
            /\ AsEdited(c.lines)
      BY DEF KeysInv, DiskInv
    <2>2. disk'.kind = "whole" /\ AsEdited(disk'.lines)
      BY <1>2, <1>3 DEF Synced
    <2> QED
      BY <1>2, <1>3, <2>1, <2>2
  <1>6. disk' \in Contents /\ durable' \subseteq Contents /\ DiskInv'
    <2>1. \A c \in durable' : AsEdited(c.lines) <=> AsEdited(c.lines)'
      BY <1>3 DEF AsEdited
    <2>2. disk' \in durable'
      BY <1>3
    <2> QED
      BY <1>1, <1>3, <1>4, <1>5, <2>2 DEF DiskInv, AsEdited
  <1>7. /\ scratch' \in [Pids -> Scratches]
        /\ \A q \in Pids \ {p} : scratch'[q] = scratch[q]
    <2>1. NoScratch \in Scratches
      BY ContentsType DEF NoScratch
    <2> QED
      BY <1>1, <2>1 DEF Rename, NoMoreScratch, ScratchName
  <1>8. parent' = parent /\ runs' = runs
    BY DEF Rename
  <1>9. CASE proc[p].op = "enroll"
    <2>1. [key |-> proc[p].key, owner |-> proc[p].id] \in Lines
      BY <1>1 DEF Procs, Lines
    <2>2. Exit(p, "added") /\ enrolled' \subseteq Lines /\ revoked' \subseteq Ids
      BY <1>1, <1>9, <2>1 DEF Rename
    <2> QED
      BY <1>3, <1>6, <1>7, <1>8, <2>2, ExitKeeps DEF Results
  <1>10. CASE proc[p].op = "unbind"
    <2>1. Exit(p, "removed") /\ enrolled' \subseteq Lines /\ revoked' \subseteq Ids
      BY <1>1, <1>10 DEF Rename, Procs
    <2> QED
      BY <1>3, <1>6, <1>7, <1>8, <2>1, ExitKeeps DEF Results
  <1> QED
    BY <1>9, <1>10 DEF Rename

(* Errors and kills: a scratch file may stay, nothing else is touched.     *)
LEMMA FailureKeeps ==
  ASSUME KeysInv, NEW p \in Pids, CreationFails(p) \/ WriteFails(p) \/ Killed(p)
  PROVE  KeysInv'
  <1> DEFINE Scratches == [by : Pids \union {"nobody"}, content : Contents]
  <1>1. PICK result \in Results : Exit(p, result)
    BY DEF CreationFails, WriteFails, Killed, Results
  <1>2. UNCHANGED <<disk, durable, parent, runs, original, enrolled, revoked>>
    BY DEF CreationFails, WriteFails, Killed, files, reports
  <1>3. /\ scratch' \in [Pids -> Scratches]
        /\ \A q \in Pids \ {p} : scratch'[q] = scratch[q]
    <2>1. scratch \in [Pids -> Scratches] /\ NoScratch \in Scratches
      BY ContentsType DEF KeysInv, TypeOK, NoScratch
    <2>2. scratch' = scratch \/ scratch' = [scratch EXCEPT ![p] = NoScratch]
      BY DEF CreationFails, WriteFails, Killed, files, RemoveScratch, NoMoreScratch,
             ScratchName
    <2> QED
      BY <2>1, <2>2
  <1> QED
    BY <1>1, <1>2, <1>3, SameDisk, ExitKeeps DEF KeysInv, TypeOK

(* Of what is durable nothing is half written, so a power failure leaves   *)
(* the file as one of the renames left it, and nobody is running.          *)
LEMMA PowerFailureKeeps ==
  ASSUME KeysInv, PowerFailure
  PROVE  KeysInv'
  <1> DEFINE Scratches == [by : Pids \union {"nobody"}, content : Contents]
  <1>1. /\ disk' \in durable /\ durable' = {disk'} /\ original' = original
        /\ UNCHANGED <<parent, runs, enrolled, revoked>>
    <2>1. \A c \in durable : OnDisk(c) = c
      BY DEF KeysInv, DiskInv, OnDisk
    <2> QED
      BY <2>1 DEF PowerFailure, reports
  <1>2. disk' \in Contents /\ durable' \subseteq Contents /\ DiskInv'
    BY <1>1 DEF KeysInv, TypeOK, DiskInv, AsEdited
  <1>3. scratch' \in [Pids -> Scratches]
    <2>1. \A c \in Contents : OnDisk(c) \in Contents
      BY ContentsType DEF OnDisk
    <2>2. scratch \in [Pids -> Scratches]
      BY DEF KeysInv, TypeOK
    <2>3. \A p \in Pids :
            [scratch[p] EXCEPT !.content = OnDisk(scratch[p].content)] \in Scratches
      BY <2>1, <2>2
    <2> QED
      BY <2>3 DEF PowerFailure
  <1>4. \A p \in Pids : proc'[p] \in Procs /\ proc'[p].step = "idle"
    BY NewProcType DEF PowerFailure, NewProc, Procs, Results
  <1>5. proc' \in [Pids -> Procs]
    BY <1>4 DEF PowerFailure
  <1>6. ProcInv' /\ ScratchInv'
    BY <1>4 DEF ProcInv, ScratchInv, At, Writing
  <1> QED
    BY <1>1, <1>2, <1>3, <1>5, <1>6 DEF KeysInv, TypeOK

LEMMA KeysInv_Next == KeysInv /\ [Next]_vars => KeysInv'
  <1> SUFFICES ASSUME KeysInv, [Next]_vars
               PROVE  KeysInv'
    OBVIOUS
  <1>1. CASE UNCHANGED vars
    BY <1>1 DEF vars, KeysInv, TypeOK, ProcInv, ScratchInv, DiskInv, AsEdited, At,
                HasScratch
  <1>2. CASE PowerFailure
    BY <1>2, PowerFailureKeeps
  <1>3. ASSUME NEW p \in Pids,
               \/ \E key \in Keys, id \in Ids : StartEnroll(p, key, id)
               \/ \E ids \in SUBSET Ids \ {{}} : StartUnbind(p, ids)
               \/ StartList(p)
        PROVE  KeysInv'
    BY <1>3, StartKeeps
  <1>4. ASSUME NEW p \in Pids, Edit(p) \/ Killed(p)
        PROVE  KeysInv'
    BY <1>4, ReadingKeeps, OnwardKeeps, RenameKeeps, FailureKeeps DEF Edit
  <1> QED
    BY <1>1, <1>2, <1>3, <1>4 DEF Next
-----------------------------------------------------------------------------
(* Whoever runs at the same time, whatever fails, whenever the power goes. *)

(* The invariant that the theorems of this half follow from.               *)
THEOREM KeysInvHolds == Spec => []KeysInv
  <1>1. Init => KeysInv
    BY KeysInv_Init
  <1>2. KeysInv /\ [Next]_vars => KeysInv'
    BY KeysInv_Next
  <1> QED
    BY <1>1, <1>2, PTL DEF Spec

(* Every variable keeps its type.                                          *)
THEOREM TypeHolds == Spec => []TypeOK
  <1>1. KeysInv => TypeOK
    BY DEF KeysInv
  <1> QED
    BY <1>1, KeysInvHolds, PTL

(* Nobody, sshd included, ever opens a half-written authorized_keys: no    *)
(* run renames a file that is not whole and synced (write_atomically).     *)
THEOREM NeverTornHolds == Spec => []NeverTorn
  <1>1. KeysInv => NeverTorn
    BY DEF KeysInv, DiskInv, NeverTorn
  <1> QED
    BY <1>1, KeysInvHolds, PTL

(* The lines mpx did not write, and a file it cannot read, stay as they    *)
(* were before the first run (ensure_line, remove_marked).                 *)
THEOREM OthersUntouchedHolds == Spec => []OthersUntouched
  <1>1. KeysInv => OthersUntouched
    BY DEF KeysInv, DiskInv, AsEdited, OthersUntouched
  <1> QED
    BY <1>1, KeysInvHolds, PTL

(* A file that had every key once has every key once (ensure_line looks    *)
(* before it appends).                                                     *)
THEOREM OneLinePerKeyHolds == Spec => []OneLinePerKey
  <1>1. KeysInv => OneLinePerKey
    BY DEF KeysInv, DiskInv, AsEdited, OneLinePerKey
  <1> QED
    BY <1>1, KeysInvHolds, PTL
-----------------------------------------------------------------------------
(* No system call fails, and the path has a directory: bare_path shows     *)
(* what happens to one that has none.                                      *)

SuccessInv ==
  /\ parent # "bare"
  /\ \A p \in Pids : proc[p].result = "error" => original.kind = "unreadable"

LEMMA SuccessInv_Next ==
  ASSUME ~IoErrors, KeysInv, SuccessInv, [Next]_vars
  PROVE  SuccessInv'
  <1>1. proc \in [Pids -> Procs] /\ original' = original
    BY DEF KeysInv, TypeOK, Next, Edit, vars, Start, StartEnroll, StartUnbind, StartList,
           FindKey, AppendKey, ListKeys, FindNothing, DropMarked, ReadFails, FindParent,
           MakeParent, ChmodParent, ClearScratch, CreateScratch, WriteScratch,
           SyncScratch, Rename, CreationFails, WriteFails, Killed, PowerFailure
  <1>2. parent' # "bare"
    BY DEF SuccessInv, Next, Edit, vars, Start, StartEnroll, StartUnbind, StartList, files,
           FindKey, AppendKey, ListKeys, FindNothing, DropMarked, ReadFails, FindParent,
           MakeParent, ChmodParent, ClearScratch, CreateScratch, WriteScratch,
           SyncScratch, Rename, CreationFails, WriteFails, Killed, PowerFailure
  <1>3. ASSUME NEW p \in Pids, NEW process, proc' = [proc EXCEPT ![p] = process],
               process.result = "error" => original.kind = "unreadable"
        PROVE  SuccessInv'
    BY <1>1, <1>2, <1>3 DEF SuccessInv
  <1>4. ASSUME NEW p \in Pids, NEW result \in Results, Exit(p, result),
               result = "error" => original.kind = "unreadable"
        PROVE  SuccessInv'
    <2>1. [NewProc EXCEPT !.result = result].result = result
      BY DEF NewProc
    <2>2. proc' = [proc EXCEPT ![p] = [NewProc EXCEPT !.result = result]]
      BY <1>4 DEF Exit
    <2> QED
      BY <1>3, <1>4, <2>1, <2>2
  <1>5. ASSUME NEW p \in Pids,
               \/ \E step \in Steps : GoTo(p, step)
               \/ \E lines : WriteNew(p, lines)
        PROVE  SuccessInv'
    <2>1. CASE \E step \in Steps : GoTo(p, step)
      <3>1. PICK step \in Steps : proc' = [proc EXCEPT ![p] = [proc[p] EXCEPT !.step = step]]
        BY <2>1 DEF GoTo
      <3>2. [proc[p] EXCEPT !.step = step].result = proc[p].result
        BY <1>1 DEF Procs
      <3> QED
        BY <1>3, <3>1, <3>2 DEF SuccessInv
    <2>2. CASE \E lines : WriteNew(p, lines)
      <3>1. PICK lines :
              proc' = [proc EXCEPT ![p] = [proc[p] EXCEPT !.step = "mkdir", !.content = lines]]
        BY <2>2 DEF WriteNew
      <3>2. [proc[p] EXCEPT !.step = "mkdir", !.content = lines].result = proc[p].result
        BY <1>1 DEF Procs
      <3> QED
        BY <1>3, <3>1, <3>2 DEF SuccessInv
    <2> QED
      BY <1>5, <2>1, <2>2
  <1>6. ASSUME NEW p \in Pids, NEW process, Start(p, process),
               process.result = "none"
        PROVE  SuccessInv'
    BY <1>3, <1>6 DEF Start
  <1>7. CASE UNCHANGED vars
    BY <1>1, <1>2, <1>7 DEF SuccessInv, vars
  <1>8. CASE PowerFailure
    BY <1>2, <1>8 DEF SuccessInv, PowerFailure, NewProc
  <1>9. ASSUME NEW p \in Pids,
               \/ \E key \in Keys, id \in Ids : StartEnroll(p, key, id)
               \/ \E ids \in SUBSET Ids \ {{}} : StartUnbind(p, ids)
               \/ StartList(p)
        PROVE  SuccessInv'
    BY <1>6, <1>9 DEF StartEnroll, StartUnbind, StartList, NewProc
  <1>10. ASSUME NEW p \in Pids, Edit(p) \/ Killed(p)
         PROVE  SuccessInv'
    <2>1. CASE \E result \in Results \ {"error"} : Exit(p, result)
      BY <1>4, <2>1
    <2>2. CASE \/ \E step \in Steps : GoTo(p, step)
               \/ \E lines : WriteNew(p, lines)
      BY <1>5, <2>2
    <2>3. CASE ReadFails(p)
      <3>1. disk.kind = "unreadable"
        BY <2>3 DEF ReadFails, ReadExisting
      <3> QED
        BY <1>4, <2>3, <3>1 DEF ReadFails, Results, KeysInv, DiskInv
    <2>4. ~CreationFails(p)
      BY DEF CreationFails, KeysInv, ScratchInv, SuccessInv
    <2>5. ~WriteFails(p)
      <3>1. At(p, "rename") => scratch[p].content.kind = "whole"
        <4>1. At(p, "rename") => scratch[p].content = Synced(proc[p].content)
          BY DEF KeysInv, ScratchInv
        <4>2. Synced(proc[p].content).kind = "whole"
          BY DEF Synced
        <4> QED
          BY <4>1, <4>2
      <3>2. NoScratch.content.kind = "absent"
        BY DEF NoScratch, Absent
      <3> QED
        BY <3>1, <3>2 DEF WriteFails, HasScratch, ScratchName
    <2> QED
      BY <1>10, <2>1, <2>2, <2>3, <2>4, <2>5
      DEF Edit, FindKey, AppendKey, ListKeys, FindNothing, DropMarked, FindParent,
          MakeParent, ChmodParent, ClearScratch, CreateScratch, WriteScratch, SyncScratch,
          Rename, Killed, Results, Steps
  <1> QED
    BY <1>7, <1>8, <1>9, <1>10 DEF Next

(* Without I/O errors an edit of a readable file succeeds, a leftover      *)
(* scratch file or a missing directory notwithstanding (write_atomically). *)
THEOREM EditsSucceedHolds ==
  ASSUME "bare" \notin Parents
  PROVE  Spec => []EditsSucceed
  <1>1. CASE IoErrors
    <2>1. EditsSucceed
      BY <1>1 DEF EditsSucceed
    <2> QED
      BY <2>1, PTL
  <1>2. CASE ~IoErrors
    <2>1. Init => SuccessInv
      BY DEF Init, SuccessInv, NewProc
    <2>2. KeysInv /\ SuccessInv /\ [Next]_vars => SuccessInv'
      BY <1>2, SuccessInv_Next
    <2>3. KeysInv /\ SuccessInv => EditsSucceed
      BY DEF KeysInv, DiskInv, SuccessInv, EditsSucceed
    <2> QED
      BY <2>1, <2>2, <2>3, KeysInvHolds, PTL DEF Spec
  <1> QED
    BY <1>1, <1>2
-----------------------------------------------------------------------------
(* One process at a time, and a disk that keeps what it is told: lost_edit *)
(* shows what two processes do to each other.                              *)

LEMMA AloneStep ==
  ASSUME KeysInv, AloneInv, NEW p \in Pids, NEW process,
         proc' = [proc EXCEPT ![p] = process],
         \A q \in Pids \ {p} : At(q, "idle"),
         process.step \in Writing => EditOf(process, disk'.lines),
         EnrollmentIsTerminal', RevocationHolds'
  PROVE  AloneInv'
  <1>1. proc \in [Pids -> Procs]
    BY DEF KeysInv, TypeOK
  <1>2. proc'[p] = process /\ \A q \in Pids \ {p} : proc'[q] = proc[q]
    BY <1>1
  <1>3. \A q \in Pids \ {p} : proc'[q].step = "idle"
    BY <1>2 DEF At
  <1> QED
    BY <1>2, <1>3 DEF AloneInv, At, Writing

(* Ending changes only what has been reported, and that as it must.        *)
LEMMA AloneExit ==
  ASSUME KeysInv, AloneInv, NEW p \in Pids, ~At(p, "idle"), NEW result, Exit(p, result),
         EnrollmentIsTerminal', RevocationHolds'
  PROVE  AloneInv'
  <1> DEFINE process == [NewProc EXCEPT !.result = result]
  <1>1. process.step = "idle"
    BY DEF NewProc
  <1>2. proc' = [proc EXCEPT ![p] = process]
    BY DEF Exit
  <1>3. \A q \in Pids \ {p} : At(q, "idle")
    BY DEF AloneInv
  <1> HIDE DEF process
  <1> QED
    BY <1>1, <1>2, <1>3, AloneStep DEF Writing

LEMMA SameReports ==
  ASSUME AloneInv, UNCHANGED <<disk, enrolled, revoked>>
  PROVE  EnrollmentIsTerminal' /\ RevocationHolds'
  BY DEF AloneInv, EnrollmentIsTerminal, RevocationHolds

LEMMA AloneReading ==
  ASSUME KeysInv, AloneInv, NEW p \in Pids,
         \/ FindKey(p) \/ AppendKey(p) \/ ListKeys(p) \/ FindNothing(p)
         \/ DropMarked(p) \/ ReadFails(p)
  PROVE  AloneInv'
  <1>1. ~At(p, "idle") /\ (\A q \in Pids \ {p} : At(q, "idle")) /\ disk' = disk
    <2>1. ~At(p, "idle")
      BY DEF FindKey, AppendKey, ListKeys, FindNothing, DropMarked, ReadFails, At
    <2>2. disk' = disk
      BY DEF FindKey, AppendKey, ListKeys, FindNothing, DropMarked, ReadFails, files
    <2> QED
      BY <2>1, <2>2 DEF AloneInv
  <1>2. EnrollmentIsTerminal /\ RevocationHolds /\ proc[p] \in Procs
    BY DEF AloneInv, KeysInv, TypeOK
  <1>3. CASE FindKey(p)
    <2>1. enrolled' \subseteq SetOf(disk'.lines) /\ revoked' = revoked
      BY <1>1, <1>2, <1>3, ReadFacts DEF FindKey, EnrollmentIsTerminal
    <2>2. EnrollmentIsTerminal' /\ RevocationHolds'
      BY <1>1, <1>2, <2>1 DEF EnrollmentIsTerminal, RevocationHolds
    <2> QED
      BY <1>1, <1>3, <2>2, AloneExit DEF FindKey
  <1>4. CASE AppendKey(p) \/ DropMarked(p)
    <2>1. PICK lines \in ReadExisting :
            \/ /\ proc[p].op = "enroll"
               /\ ~HasKey(lines, proc[p].key)
               /\ WriteNew(p, Append(lines, [key |-> proc[p].key, owner |-> proc[p].id]))
            \/ /\ proc[p].op = "unbind"
               /\ Matches(lines, proc[p].ids)
               /\ WriteNew(p, Remaining(lines, proc[p].ids))
      BY <1>4 DEF AppendKey, DropMarked
    <2>2. lines = disk.lines /\ EnrollmentIsTerminal' /\ RevocationHolds'
      BY <1>4, ReadFacts, SameReports DEF AppendKey, DropMarked, files, reports
    <2>3. PICK content :
            /\ WriteNew(p, content)
            /\ \/ /\ proc[p].op = "enroll"
                  /\ ~HasKey(lines, proc[p].key)
                  /\ content = Append(lines, [key |-> proc[p].key, owner |-> proc[p].id])
               \/ /\ proc[p].op = "unbind"
                  /\ Matches(lines, proc[p].ids)
                  /\ content = Remaining(lines, proc[p].ids)
      BY <2>1
    <2> DEFINE process == [proc[p] EXCEPT !.step = "mkdir", !.content = content]
    <2>4. /\ process.op = proc[p].op /\ process.key = proc[p].key
          /\ process.id = proc[p].id /\ process.ids = proc[p].ids
          /\ process.content = content
      BY <1>2 DEF Procs
    <2>5. proc' = [proc EXCEPT ![p] = process]
      BY <2>3 DEF WriteNew
    <2> HIDE DEF process
    <2>6. EditOf(process, disk'.lines)
      BY <1>1, <2>2, <2>3, <2>4 DEF EditOf
    <2> QED
      BY <1>1, <2>2, <2>5, <2>6, AloneStep
  <1>5. CASE ListKeys(p)
    <2>1. PICK lines \in ReadExisting :
            \/ proc[p].op = "unbind" /\ GoTo(p, "read") /\ UNCHANGED revoked
            \/ /\ proc[p].op = "list"
               /\ revoked' = IF Matches(lines, Ids) THEN revoked ELSE Ids
               /\ Exit(p, "listed")
      BY <1>5 DEF ListKeys
    <2>2. enrolled' = enrolled /\ lines = disk.lines
      BY <1>5, ReadFacts DEF ListKeys
    <2>3. CASE proc[p].op = "unbind"
      <3> DEFINE process == [proc[p] EXCEPT !.step = "read"]
      <3>1. GoTo(p, "read") /\ revoked' = revoked
        BY <2>1, <2>3
      <3>2. proc' = [proc EXCEPT ![p] = process] /\ process.step = "read"
        BY <1>2, <3>1 DEF GoTo, Procs
      <3> HIDE DEF process
      <3>3. EnrollmentIsTerminal' /\ RevocationHolds'
        BY <1>1, <2>2, <3>1, SameReports
      <3> QED
        BY <1>1, <3>2, <3>3, AloneStep DEF Writing
    <2>4. CASE proc[p].op = "list"
      <3>1. revoked' = revoked \/ (revoked' = Ids /\ ~Matches(disk'.lines, Ids))
        BY <1>1, <2>1, <2>2, <2>4
      <3>2. EnrollmentIsTerminal' /\ RevocationHolds'
        BY <1>1, <1>2, <2>2, <3>1 DEF EnrollmentIsTerminal, RevocationHolds, Matches
      <3> QED
        BY <1>1, <2>1, <2>4, <3>2, AloneExit
    <2> QED
      BY <2>1, <2>3, <2>4
  <1>6. CASE FindNothing(p)
    <2>1. /\ ~Matches(disk'.lines, proc[p].ids) /\ enrolled' = enrolled
          /\ revoked' = revoked \union proc[p].ids
      BY <1>1, <1>6, ReadFacts DEF FindNothing
    <2>2. EnrollmentIsTerminal' /\ RevocationHolds'
      BY <1>1, <1>2, <2>1 DEF EnrollmentIsTerminal, RevocationHolds, Matches
    <2> QED
      BY <1>1, <1>6, <2>2, AloneExit DEF FindNothing
  <1>7. CASE ReadFails(p)
    <2>1. EnrollmentIsTerminal' /\ RevocationHolds'
      BY <1>7, SameReports DEF ReadFails, files, reports
    <2> QED
      BY <1>1, <1>7, <2>1, AloneExit DEF ReadFails
  <1> QED
    BY <1>3, <1>4, <1>5, <1>6, <1>7

LEMMA AloneOnward ==
  ASSUME KeysInv, AloneInv, NEW p \in Pids,
         \/ FindParent(p) \/ MakeParent(p) \/ ChmodParent(p) \/ ClearScratch(p)
         \/ CreateScratch(p) \/ WriteScratch(p) \/ SyncScratch(p)
  PROVE  AloneInv'
  <1>1. PICK step : GoTo(p, step)
    BY DEF FindParent, MakeParent, ChmodParent, ClearScratch, CreateScratch,
           WriteScratch, SyncScratch
  <1>2. UNCHANGED <<disk, enrolled, revoked>> /\ proc[p].step \in Writing
    BY DEF FindParent, MakeParent, ChmodParent, ClearScratch, CreateScratch,
           WriteScratch, SyncScratch, files, reports, At, Writing
  <1>3. ~At(p, "idle") /\ \A q \in Pids \ {p} : At(q, "idle")
    BY <1>2 DEF AloneInv, At, Writing
  <1> DEFINE process == [proc[p] EXCEPT !.step = step]
  <1>4. /\ process.op = proc[p].op /\ process.key = proc[p].key
        /\ process.id = proc[p].id /\ process.ids = proc[p].ids
        /\ process.content = proc[p].content
    BY DEF KeysInv, TypeOK, Procs
  <1>5. proc' = [proc EXCEPT ![p] = process]
    BY <1>1 DEF GoTo
  <1> HIDE DEF process
  <1>6. EditOf(process, disk'.lines)
    BY <1>2, <1>4 DEF AloneInv, EditOf
  <1> QED
    BY <1>2, <1>3, <1>5, <1>6, SameReports, AloneStep

LEMMA AloneRename ==
  ASSUME KeysInv, AloneInv, NEW p \in Pids, Rename(p)
  PROVE  AloneInv'
  <1> DEFINE line == [key |-> proc[p].key, owner |-> proc[p].id]
  <1>1. /\ ~At(p, "idle") /\ disk' = Synced(proc[p].content)
        /\ EditOf(proc[p], disk.lines)
        /\ proc[p] \in Procs /\ disk.lines \in Seq(Lines)
    BY DEF Rename, At, Writing, ScratchName, AloneInv, KeysInv, ScratchInv, TypeOK, Contents
  <1>2. disk'.lines = proc[p].content
    BY <1>1 DEF Synced
  <1>3. EnrollmentIsTerminal /\ RevocationHolds
    BY DEF AloneInv
  <1>4. CASE proc[p].op = "enroll"
    <2>1. line \in Lines /\ line.owner = proc[p].id
      BY <1>1 DEF Procs, Lines
    <2>2. disk'.lines = Append(disk.lines, line)
      BY <1>1, <1>2, <1>4 DEF EditOf
    <2>3. /\ enrolled' = enrolled \union {line} /\ revoked' = revoked \ {proc[p].id}
          /\ Exit(p, "added")
      BY <1>4 DEF Rename
    <2> HIDE DEF line
    <2>4. SetOf(disk'.lines) = SetOf(disk.lines) \union {line}
      BY <1>1, <2>1, <2>2, SetOfAppend
    <2>5. EnrollmentIsTerminal' /\ RevocationHolds'
      BY <1>3, <2>1, <2>3, <2>4 DEF EnrollmentIsTerminal, RevocationHolds
    <2> QED
      BY <1>1, <2>3, <2>5, AloneExit
  <1>5. CASE proc[p].op = "unbind"
    <2> DEFINE S == {l \in Lines : l.owner \notin proc[p].ids}
    <2>1. disk'.lines = Kept(disk.lines, S)
      BY <1>1, <1>2, <1>5 DEF EditOf, Remaining
    <2>2. \A l \in S : l.owner \notin proc[p].ids
      OBVIOUS
    <2>3. \A l \in enrolled : l.owner \notin proc[p].ids => l \in S
      BY DEF KeysInv, TypeOK
    <2> HIDE DEF S
    <2>4. SetOf(disk'.lines) = SetOf(disk.lines) \intersect S
      BY <1>1, <2>1, KeptElements
    <2>5. /\ enrolled' = {l \in enrolled : l.owner \notin proc[p].ids}
          /\ revoked' = revoked \union proc[p].ids /\ Exit(p, "removed")
      BY <1>5 DEF Rename
    <2>6. EnrollmentIsTerminal' /\ RevocationHolds'
      BY <1>3, <2>2, <2>3, <2>4, <2>5 DEF EnrollmentIsTerminal, RevocationHolds
    <2> QED
      BY <1>1, <2>5, <2>6, AloneExit
  <1> QED
    BY <1>4, <1>5 DEF Rename

LEMMA AloneInv_Next ==
  ASSUME ~Overlap, ~PowerFails, KeysInv, AloneInv, [Next]_vars
  PROVE  AloneInv'
  <1>1. CASE UNCHANGED vars
    BY <1>1 DEF vars, AloneInv, At, EnrollmentIsTerminal, RevocationHolds
  <1>2. ~PowerFailure
    BY DEF PowerFailure
  <1>3. ASSUME NEW p \in Pids, NEW process, Start(p, process), process.step \notin Writing
        PROVE  AloneInv'
    <2>1. \A q \in Pids : At(q, "idle")
      BY <1>3 DEF Start
    <2>2. EnrollmentIsTerminal' /\ RevocationHolds'
      BY <1>3, SameReports DEF Start, files, reports
    <2>3. proc' = [proc EXCEPT ![p] = process]
      BY <1>3 DEF Start
    <2> QED
      BY <1>3, <2>1, <2>2, <2>3, AloneStep
  <1>4. ASSUME NEW p \in Pids,
               \/ \E key \in Keys, id \in Ids : StartEnroll(p, key, id)
               \/ \E ids \in SUBSET Ids \ {{}} : StartUnbind(p, ids)
               \/ StartList(p)
        PROVE  AloneInv'
    BY <1>3, <1>4 DEF StartEnroll, StartUnbind, StartList, NewProc, Writing
  <1>5. ASSUME NEW p \in Pids, CreationFails(p) \/ WriteFails(p) \/ Killed(p)
        PROVE  AloneInv'
    <2>1. ~At(p, "idle") /\ \E result : Exit(p, result)
      BY <1>5 DEF CreationFails, WriteFails, Killed, At
    <2>2. UNCHANGED <<disk, enrolled, revoked>>
      BY <1>5 DEF CreationFails, WriteFails, Killed, files, reports
    <2> QED
      BY <2>1, <2>2, SameReports, AloneExit
  <1>6. ASSUME NEW p \in Pids, Edit(p) \/ Killed(p)
        PROVE  AloneInv'
    BY <1>5, <1>6, AloneReading, AloneOnward, AloneRename DEF Edit
  <1> QED
    BY <1>1, <1>2, <1>4, <1>6 DEF Next

LEMMA AloneInv_Init == Init => AloneInv
  BY NewProcType DEF Init, AloneInv, At, Writing, EnrollmentIsTerminal, RevocationHolds

(* The file is the one the running process read, and what has been         *)
(* reported is true of it.                                                 *)
THEOREM AloneInvHolds ==
  ASSUME ~Overlap, ~PowerFails
  PROVE  Spec => []AloneInv
  <1>1. KeysInv /\ AloneInv /\ [Next]_vars => AloneInv'
    BY AloneInv_Next
  <1> QED
    BY <1>1, AloneInv_Init, KeysInvHolds, PTL DEF Spec

(* A line reported as enrolled is in the file until an unbind takes it out *)
(* (server.rs: enrollment is terminal once the file is written).           *)
THEOREM EnrollmentIsTerminalHolds ==
  ASSUME ~Overlap, ~PowerFails
  PROVE  Spec => []EnrollmentIsTerminal
  <1>1. AloneInv => EnrollmentIsTerminal
    BY DEF AloneInv
  <1> QED
    BY <1>1, AloneInvHolds, PTL

(* A marker reported as gone - removed, not found, not listed - owns no    *)
(* line of the file until it is enrolled again (remove_marked, run_unbind).*)
THEOREM RevocationHoldsAlone ==
  ASSUME ~Overlap, ~PowerFails
  PROVE  Spec => []RevocationHolds
  <1>1. AloneInv => RevocationHolds
    BY DEF AloneInv
  <1> QED
    BY <1>1, AloneInvHolds, PTL

(* A step of a process changes the lines only by its rename.               *)
LEMMA OnlyRenameEdits ==
  ASSUME ~PowerFails, [Next]_vars, \A p \in Pids : ~Rename(p)
  PROVE  disk' = disk
  BY DEF Next, Edit, vars, Start, StartEnroll, StartUnbind, StartList, files,
         FindKey, AppendKey, ListKeys, FindNothing, DropMarked, ReadFails, FindParent,
         MakeParent, ChmodParent, ClearScratch, CreateScratch, WriteScratch, SyncScratch,
         CreationFails, WriteFails, Killed, PowerFailure

(* That rename is one whole edit of the file as it is.                     *)
LEMMA RenameIsEdit ==
  ASSUME KeysInv, AloneInv, NEW p \in Pids, Rename(p)
  PROVE  File!Next
  <1>1. /\ disk' = Synced(proc[p].content) /\ EditOf(proc[p], disk.lines)
        /\ proc[p] \in Procs
        /\ proc[p].op = "enroll" => proc[p].key \in Keys /\ proc[p].id \in Ids
    BY DEF Rename, At, Writing, ScratchName, AloneInv, KeysInv, ScratchInv, ProcInv, TypeOK
  <1>2. disk'.lines = proc[p].content
    BY <1>1 DEF Synced
  <1>3. CASE proc[p].op = "enroll"
    <2>1. File!Add(proc[p].key, proc[p].id)
      BY <1>1, <1>2, <1>3 DEF EditOf, HasKey, SetOf, File!Add
    <2> QED
      BY <1>1, <1>3, <2>1 DEF File!Next
  <1>4. CASE proc[p].op = "unbind"
    <2>1. \A seq, S : File!Kept(seq, S) = Kept(seq, S)
      BY Zenon DEF File!Kept, Kept
    <2>2. File!Remove(proc[p].ids) /\ proc[p].ids \in SUBSET Ids
      BY <1>1, <1>2, <1>4, <2>1 DEF EditOf, Matches, SetOf, Remaining, Procs, File!Remove
    <2> QED
      BY <2>2 DEF File!Next
  <1> QED
    BY <1>3, <1>4 DEF Rename

(* The detailed editing implements KeyFile: a system call either changes   *)
(* nothing a reader sees or is one whole edit of the file as it was.       *)
THEOREM EditingImplementsKeyFile ==
  ASSUME ~Overlap, ~PowerFails
  PROVE  Spec => EditsAreAtomic
  <1>1. Init => File!Init
    BY FileAssumption DEF Init, File!Init, Contents
  <1>2. KeysInv /\ AloneInv /\ [Next]_vars => [File!Next]_(disk.lines)
    BY OnlyRenameEdits, RenameIsEdit
  <1> QED
    BY <1>1, <1>2, KeysInvHolds, AloneInvHolds, PTL DEF Spec, EditsAreAtomic, File!Spec
=============================================================================
