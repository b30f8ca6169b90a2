---------------------------- MODULE AuthorizedKeys ----------------------------
(***************************************************************************)
(* src/src/authkeys.rs: mpx processes editing one authorized_keys file.    *)
(*                                                                         *)
(* A process (`mpx bind`, `mpx bind --offline`, `mpx unbind`) makes one    *)
(* edit: it reads the file, computes the new content, writes it to a       *)
(* scratch file named after its pid and renames that over the original.    *)
(* There is no lock.  Any system call may fail, a process may be killed    *)
(* between any two of them, a later process may get a dead one's pid, and  *)
(* the power may fail.                                                     *)
(*                                                                         *)
(* A line is what the edits can tell apart: its key (NoKey for a comment,  *)
(* a blank or anything else parse_line refuses) and its owner, the marker  *)
(* id of a line mpx wrote or User for any other.                           *)
(***************************************************************************)
EXTENDS Subsequences, FiniteSets

CONSTANTS
  Pids,        \* process ids
  Keys,        \* public keys
  NoKey,       \* a line that holds none
  Ids,         \* marker ids
  User,        \* the owner of a line without mpx's marker
  Originals,   \* contents the file may have before mpx touches it
  Parents,     \* states its directory may be in
  Overlap,     \* may two mpx processes run at the same time?
  IoErrors,    \* may system calls fail?
  PowerFails,  \* may the power fail?
  MaxRuns      \* bound: processes started in a behaviour

Lines == [key : Keys \union {NoKey}, owner : Ids \union {User}]
UserLines == {line \in Lines : line.owner = User}

(* absent; unreadable (no permission, a byte that is not UTF-8), its lines *)
(* being what sshd may still find in it; torn (only some of its lines are  *)
(* in it); written whole but not yet to the disk; whole.                   *)
Contents == [kind : {"absent", "unreadable", "torn", "written", "whole"},
             lines : Seq(Lines)]
Absent == [kind |-> "absent", lines |-> <<>>]
Torn == [kind |-> "torn", lines |-> <<>>]
Written(lines) == [kind |-> "written", lines |-> lines]

(* The file's directory: not there, there before mpx, created by mpx, or   *)
(* the empty path that Path::parent gives for a bare file name.            *)
ParentStates == {"missing", "users", "made", "bare"}

ASSUME LineAssumption ==
  /\ NoKey \notin Keys
  /\ User \notin Ids
ASSUME FileAssumption ==
  /\ Originals \subseteq {c \in Contents : c.kind \in {"absent", "unreadable", "whole"}}
  /\ Parents \subseteq {"missing", "users", "bare"}
  /\ \A c \in Originals : c.kind = "absent" => c.lines = <<>>
ASSUME RunAssumption ==
  /\ {Overlap, IoErrors, PowerFails} \subseteq BOOLEAN
  /\ MaxRuns \in Nat

VARIABLES
  disk,      \* authorized_keys
  durable,   \* the contents one of which a power failure leaves behind
  parent,    \* its directory
  scratch,   \* the scratch file of each pid: [by, content]
  proc,      \* what each process is doing
  runs,      \* processes started so far
  original,  \* history: disk at the start
  enrolled,  \* history: lines an enrollment found or put there, less removed
  revoked    \* history: marker ids reported gone, less enrolled again

vars == <<disk, durable, parent, scratch, proc, runs, original, enrolled, revoked>>
files == <<disk, durable, parent, scratch>>
reports == <<enrolled, revoked>>
-----------------------------------------------------------------------------
Steps == {"idle", "list", "read", "mkdir", "chmod", "clear", "create", "write",
          "sync", "rename"}
Results == {"none", "added", "present", "removed", "nothing", "listed", "error",
            "killed"}

(* key and id: what to enroll; ids: the markers an unbind selects;         *)
(* content: the lines to be written.  Listing never gets as far as that.   *)
Procs ==
  {process \in [step : Steps, op : {"enroll", "unbind", "list"},
                key : Keys \union {NoKey}, id : Ids \union {User},
                ids : SUBSET Ids, content : Seq(Lines), result : Results] :
     process.op = "list" => process.step = "list"}

NewProc == [step |-> "idle", op |-> "enroll", key |-> NoKey, id |-> User,
            ids |-> {}, content |-> <<>>, result |-> "none"]
NoScratch == [by |-> "nobody", content |-> Absent]

Init ==
  /\ disk \in Originals
  /\ durable = {disk}
  /\ parent \in {p \in Parents : disk.kind # "absent" => p # "missing"}
  /\ scratch = [p \in Pids |-> NoScratch]
  /\ proc = [p \in Pids |-> NewProc]
  /\ runs = 0
  /\ original = disk
  /\ enrolled = {}
  /\ revoked = {}

At(p, step) == proc[p].step = step
GoTo(p, step) == proc' = [proc EXCEPT ![p].step = step]
Exit(p, result) == proc' = [proc EXCEPT ![p] = [NewProc EXCEPT !.result = result]]
WriteNew(p, lines) ==
  proc' = [proc EXCEPT ![p].step = "mkdir", ![p].content = lines]

Start(p, process) ==
  /\ At(p, "idle")
  /\ runs < MaxRuns
  /\ Overlap \/ \A q \in Pids : At(q, "idle")
  /\ proc' = [proc EXCEPT ![p] = process]
  /\ runs' = runs + 1
  /\ UNCHANGED <<files, original, reports>>

StartEnroll(p, key, id) ==
  Start(p, [NewProc EXCEPT !.step = "read", !.key = key, !.id = id])

(* `mpx unbind <id>`, `mpx unbind --all` and `mpx unbind --list`.          *)
StartUnbind(p, ids) ==
  Start(p, [NewProc EXCEPT !.step = "list", !.op = "unbind", !.ids = ids])
StartList(p) == Start(p, [NewProc EXCEPT !.step = "list", !.op = "list"])
-----------------------------------------------------------------------------
(* Reading and computing.                                                  *)

ReadOrEmpty == {IF disk.kind = "unreadable" THEN <<>> ELSE disk.lines}

(* read_existing: what a read may return.  A file that is not there is     *)
(* empty, one that cannot be read is an error.                             *)
ReadExisting == IF disk.kind = "unreadable" THEN {} ELSE {disk.lines}

HasKeyMarked(lines, key) ==
  \E line \in SetOf(lines) : line.key = key /\ line.owner # User

HasKey(lines, key) == \E line \in SetOf(lines) : line.key = key

RemainingUsers(lines, ids) == Kept(lines, UserLines)

RemainingAfterFirst(lines, ids) ==
  LET i == CHOOSE i \in DOMAIN lines : lines[i].owner \in ids
  IN SubSeq(lines, 1, i - 1) \o SubSeq(lines, i + 1, Len(lines))

Matches(lines, ids) == \E line \in SetOf(lines) : line.owner \in ids

Remaining(lines, ids) == Kept(lines, {line \in Lines : line.owner \notin ids})

(* ensure_line.                                                            *)
FindKey(p) ==
  /\ At(p, "read") /\ proc[p].op = "enroll"
  /\ \E lines \in ReadExisting :
       /\ HasKey(lines, proc[p].key)
       /\ enrolled' = enrolled \union
                        {line \in SetOf(lines) : line.key = proc[p].key}
  /\ Exit(p, "present")
  /\ UNCHANGED <<files, runs, original, revoked>>

AppendKey(p) ==
  /\ At(p, "read") /\ proc[p].op = "enroll"
  /\ \E lines \in ReadExisting :
       /\ ~HasKey(lines, proc[p].key)
       /\ WriteNew(p, Append(lines, [key |-> proc[p].key, owner |-> proc[p].id]))
  /\ UNCHANGED <<files, runs, original, reports>>

ListAndGoOn(p) ==
  /\ At(p, "list")
  /\ ReadExisting # {}
  /\ GoTo(p, "read")
  /\ UNCHANGED <<files, runs, original, reports>>

(* marked_keys in unbind(): `--list` prints them and returns.              *)
ListKeys(p) ==
  /\ At(p, "list")
  /\ \E lines \in ReadExisting :
       \/ proc[p].op = "unbind" /\ GoTo(p, "read") /\ UNCHANGED revoked
       \/ /\ proc[p].op = "list"
          /\ revoked' = IF Matches(lines, Ids) THEN revoked ELSE Ids
          /\ Exit(p, "listed")
  /\ UNCHANGED <<files, runs, original, enrolled>>

(* remove_marked.                                                          *)
FindNothing(p) ==
  /\ At(p, "read") /\ proc[p].op = "unbind"
  /\ \E lines \in ReadExisting : ~Matches(lines, proc[p].ids)
  /\ revoked' = revoked \union proc[p].ids
  /\ Exit(p, "nothing")
  /\ UNCHANGED <<files, runs, original, enrolled>>

DropMarked(p) ==
  /\ At(p, "read") /\ proc[p].op = "unbind"
  /\ \E lines \in ReadExisting :
       /\ Matches(lines, proc[p].ids)
       /\ WriteNew(p, Remaining(lines, proc[p].ids))
  /\ UNCHANGED <<files, runs, original, reports>>

ReadFails(p) ==
  /\ At(p, "list") \/ At(p, "read")
  /\ ReadExisting = {} \/ IoErrors
  /\ Exit(p, "error")
  /\ UNCHANGED <<files, runs, original, reports>>
-----------------------------------------------------------------------------
(* write_atomically, one system call at a time.                            *)

ParentExists == parent \in {"users", "made"}

FindParent(p) ==
  /\ At(p, "mkdir")
  /\ ParentExists
  /\ GoTo(p, "clear")
  /\ UNCHANGED <<files, runs, original, reports>>

(* create_dir_all; of the empty path it does nothing and succeeds.         *)
MakeParent(p) ==
  /\ At(p, "mkdir")
  /\ ~ParentExists
  /\ parent' = IF parent = "bare" THEN "bare" ELSE "made"
  /\ GoTo(p, "chmod")
  /\ UNCHANGED <<disk, durable, scratch, runs, original, reports>>

(* set_mode 0700; of the empty path it fails.                              *)
ChmodParent(p) ==
  /\ At(p, "chmod")
  /\ parent # "bare"
  /\ GoTo(p, "clear")
  /\ UNCHANGED <<files, runs, original, reports>>

ScratchNameShared(p) == CHOOSE q \in Pids : TRUE

ScratchName(p) == p
HasScratch(p) == scratch[ScratchName(p)] # NoScratch

ScratchStays(p) == UNCHANGED scratch

NoMoreScratch(p) == scratch' = [scratch EXCEPT ![ScratchName(p)] = NoScratch]

(* remove_file, its result ignored: with IoErrors it may leave it there.   *)
RemoveScratch(p) == NoMoreScratch(p) \/ (IoErrors /\ UNCHANGED scratch)

ClearScratch(p) ==
  /\ At(p, "clear")
  /\ RemoveScratch(p)
  /\ GoTo(p, "create")
  /\ UNCHANGED <<disk, durable, parent, runs, original, reports>>

(* create_private, O_EXCL.                                                 *)
CreateScratch(p) ==
  /\ At(p, "create")
  /\ ~HasScratch(p)
  /\ scratch' = [scratch EXCEPT ![ScratchName(p)] = [by |-> p, content |-> Torn]]
  /\ GoTo(p, "write")
  /\ UNCHANGED <<disk, durable, parent, runs, original, reports>>

(* Both calls go to the file this process created, which its name may no   *)
(* longer lead to.                                                         *)
SetOwnScratch(p, content) ==
  scratch' = IF scratch[ScratchName(p)].by = p
               THEN [scratch EXCEPT ![ScratchName(p)].content = content]
               ELSE scratch

WriteScratch(p) ==
  /\ At(p, "write")
  /\ SetOwnScratch(p, Written(proc[p].content))
  /\ GoTo(p, "sync")
  /\ UNCHANGED <<disk, durable, parent, runs, original, reports>>

NotSynced(lines) == Written(lines)

Synced(lines) == [kind |-> "whole", lines |-> lines]

SyncScratch(p) ==
  /\ At(p, "sync")
  /\ SetOwnScratch(p, Synced(proc[p].content))
  /\ GoTo(p, "rename")
  /\ UNCHANGED <<disk, durable, parent, runs, original, reports>>

Rename(p) ==
  LET process == proc[p]
      line == [key |-> process.key, owner |-> process.id]
  IN /\ At(p, "rename")
     /\ HasScratch(p)
     /\ disk' = scratch[ScratchName(p)].content
     /\ durable' = IF PowerFails THEN durable \union {disk'} ELSE {disk'}
     /\ NoMoreScratch(p)
     /\ \/ /\ process.op = "enroll"
           /\ enrolled' = enrolled \union {line}
           /\ revoked' = revoked \ {process.id}
           /\ Exit(p, "added")
        \/ /\ process.op = "unbind"
           /\ enrolled' = {l \in enrolled : l.owner \notin process.ids}
           /\ revoked' = revoked \union process.ids
           /\ Exit(p, "removed")
     /\ UNCHANGED <<parent, runs, original>>

(* An early return before the scratch file is this process's to remove.    *)
CreationFails(p) ==
  /\ \/ At(p, "mkdir") /\ ~ParentExists /\ IoErrors
     \/ At(p, "chmod") /\ (parent = "bare" \/ IoErrors)
     \/ At(p, "create") /\ (HasScratch(p) \/ IoErrors)
  /\ Exit(p, "error")
  /\ UNCHANGED <<files, runs, original, reports>>

(* Once it is created every error removes it.                              *)
WriteFails(p) ==
  /\ proc[p].step \in {"write", "sync", "rename"}
  /\ IoErrors \/ (At(p, "rename") /\ ~HasScratch(p))
  /\ RemoveScratch(p)
  /\ Exit(p, "error")
  /\ UNCHANGED <<disk, durable, parent, runs, original, reports>>
-----------------------------------------------------------------------------
(* SIGKILL, a crash, or a signal nobody handles.                           *)
Killed(p) ==
  /\ ~At(p, "idle")
  /\ Exit(p, "killed")
  /\ UNCHANGED <<files, runs, original, reports>>

(* The disk has the file as some rename left it (none is followed by a     *)
(* sync of the directory), and of what was not synced only a part.         *)
OnDisk(content) == IF content.kind = "written" THEN Torn ELSE content

PowerFailure ==
  /\ PowerFails
  /\ disk' \in {OnDisk(content) : content \in durable}
  /\ durable' = {disk'}
  /\ scratch' = [p \in Pids |->
                   [scratch[p] EXCEPT !.content = OnDisk(scratch[p].content)]]
  /\ proc' = [p \in Pids |-> [NewProc EXCEPT !.result = "killed"]]
  /\ UNCHANGED <<parent, runs, original, reports>>

Edit(p) ==
  \/ FindKey(p) \/ AppendKey(p) \/ ListKeys(p) \/ FindNothing(p) \/ DropMarked(p)
  \/ ReadFails(p) \/ FindParent(p) \/ MakeParent(p) \/ ChmodParent(p)
  \/ ClearScratch(p) \/ CreateScratch(p) \/ WriteScratch(p) \/ SyncScratch(p)
  \/ Rename(p) \/ CreationFails(p) \/ WriteFails(p)

Next ==
  \/ \E p \in Pids :
       \/ \E key \in Keys, id \in Ids : StartEnroll(p, key, id)
       \/ \E ids \in SUBSET Ids \ {{}} : StartUnbind(p, ids)
       \/ StartList(p)
       \/ Edit(p)
       \/ Killed(p)
  \/ PowerFailure

Spec == Init /\ [][Next]_vars
-----------------------------------------------------------------------------
(* Properties.                                                             *)

TypeOK ==
  /\ disk \in Contents
  /\ durable \subseteq Contents
  /\ parent \in ParentStates
  /\ scratch \in [Pids -> [by : Pids \union {"nobody"}, content : Contents]]
  /\ proc \in [Pids -> Procs]
  /\ runs \in 0..MaxRuns
  /\ original \in Originals
  /\ enrolled \subseteq Lines
  /\ revoked \subseteq Ids

(* Whoever opens authorized_keys sees a file some process finished writing *)
(* (authkeys.rs 4, "Writes are atomic"; 196-197, two runs never share a    *)
(* scratch file), after a power failure too: it is synced before it gets   *)
(* its name (211-213).                                                     *)
NeverTorn == disk.kind # "torn"

(* The lines mpx did not write keep their place and their order whatever   *)
(* runs, races or dies, and a file that cannot be read is not replaced.    *)
OthersUntouched ==
  /\ Kept(disk.lines, UserLines) = Kept(original.lines, UserLines)
  /\ disk.kind = "unreadable" <=> original.kind = "unreadable"

(* Enrolling again does not multiply lines (AddOutcome::AlreadyPresent),   *)
(* whoever wrote the line that is there.                                   *)
KeysAreDistinct(lines) ==
  \A i, j \in DOMAIN lines :
    i # j => lines[i].key # lines[j].key \/ lines[i].key = NoKey
OneLinePerKey == KeysAreDistinct(original.lines) => KeysAreDistinct(disk.lines)

(* With no I/O error an edit of a readable file succeeds: not a leftover   *)
(* scratch file of a killed run, nor a directory that has to be created,   *)
(* makes it fail (authkeys.rs 129-131, 205-206).                           *)
EditsSucceed ==
  ~IoErrors => \A p \in Pids : proc[p].result = "error" => disk.kind = "unreadable"

(* "Enrollment is terminal the moment the file is written" (server.rs 93): *)
(* the line is there until an unbind takes it out.                         *)
EnrollmentIsTerminal == enrolled \subseteq SetOf(disk.lines)

(* What unbind said is gone - removed, not found, or not listed - is not   *)
(* in the file until it is enrolled again; least of all because the file   *)
(* could not be read (main.rs 560-561).                                    *)
RevocationHolds == \A line \in SetOf(disk.lines) : line.owner \notin revoked

(* Every change of the file is one whole edit of the file as it was.       *)
File == INSTANCE KeyFile WITH lines <- disk.lines
EditsAreAtomic == File!Spec

(* The inductive invariant of write_atomically and its callers, in parts.  *)
Writing == {"mkdir", "chmod", "clear", "create", "write", "sync", "rename"}

(* Contents that some run may have left, and that a run may be writing.    *)
AsEdited(lines) ==
  /\ Kept(lines, UserLines) = Kept(original.lines, UserLines)
  /\ KeysAreDistinct(original.lines) => KeysAreDistinct(lines)

ProcInv ==
  \A p \in Pids :
    /\ ~At(p, "idle") /\ proc[p].op = "enroll" => proc[p].key \in Keys /\ proc[p].id \in Ids
    /\ proc[p].step \in Writing =>
         original.kind # "unreadable" /\ AsEdited(proc[p].content)

ScratchInv ==
  \A p \in Pids :
    /\ proc[p].step \in {"write", "sync", "rename"} => scratch[p].by = p
    /\ At(p, "rename") => scratch[p].content = Synced(proc[p].content)
    /\ At(p, "create") /\ ~IoErrors => ~HasScratch(p)

DiskInv ==
  /\ disk \in durable
  /\ \A c \in durable :
       /\ c.kind \in {"absent", "unreadable", "whole"}
       /\ c.kind = "unreadable" <=> original.kind = "unreadable"
       /\ AsEdited(c.lines)

(* Whoever edits at the same time, is killed or loses power: from create   *)
(* to rename (208-213) a process's scratch file is its own and holds what  *)
(* it has written, what it is about to write keeps the user's lines, and   *)
(* so does every content the disk may come back with, each of them whole.  *)
KeysInv == TypeOK /\ ProcInv /\ ScratchInv /\ DiskInv

(* What one process at a time, and a disk that keeps what it is told, add: *)
(* the content about to be written is the edit of the file that is there.  *)
EditOf(process, lines) ==
  \/ /\ process.op = "enroll"
     /\ ~HasKey(lines, process.key)
     /\ process.content = Append(lines, [key |-> process.key, owner |-> process.id])
  \/ /\ process.op = "unbind"
     /\ Matches(lines, process.ids)
     /\ process.content = Remaining(lines, process.ids)

AloneInv ==
  /\ \A p, q \in Pids : p = q \/ At(p, "idle") \/ At(q, "idle")
  /\ \A p \in Pids : proc[p].step \in Writing => EditOf(proc[p], disk.lines)
  /\ EnrollmentIsTerminal
  /\ RevocationHolds
=============================================================================
