-------------------------- MODULE StorageInvariant --------------------------
(***************************************************************************)
(* The inductive invariants of Storage.  Inv holds whatever the paths are. *)
(* Protected needs PathsApart: it says that the locks keep an open file    *)
(* where it is and as it is, and that what is on disk in the middle of a   *)
(* write is what a write of the part written so far would have left.       *)
(***************************************************************************)
EXTENDS Storage

Chunks == UNION {Range(c.contents) : c \in Commands}
AllCalls == Commands \cup [type : {"READ_FILE"}, path : ReadPaths] \cup {NoCall}
Errors == {"NONE", "Ok", "FileNotFound", "AlreadyExists", "NotDirectory", "IoError", "InvalidPath"}
Frames ==
    [call : AllCalls, pc : {"idle", "reject", "lock", "open", "stat", "io", "return"},
     full_path : Seq(Names), full_new : Seq(Names), fd : Nat, size : Nat, buf : Seq(Chunks),
     res : [err : Errors, data : Seq(Chunks)]]

Types ==
    /\ frame \in [Threads -> Frames]
    /\ data \in Seq(Seq(Chunks))
    /\ WellFormed(tree, Len(data))

\* What the place a call has reached says about its local variables.
InFrame(t) ==
    LET f == frame[t] IN
    /\ f.call \in Calls(t) \cup {NoCall}
    /\ f.pc = "idle" => f = Idle
    /\ f.pc # "idle" => f.call # NoCall
    /\ f.pc = "reject" <=> f.call # NoCall /\ ~Accepted(f.call) /\ f.res = NoResult
    /\ f.pc \in {"lock", "open", "stat", "io"} =>
          /\ f.full_path = Location(f.call.path)
          /\ f.call.type = "RENAME" => f.full_new = Location(f.call.new_path)
    /\ f.pc \in {"lock", "open", "stat"} => f.buf = <<>>
    /\ f.res.err # "NONE" <=> f.pc = "return"
    /\ f.res.err = "NONE" => f.res = NoResult
    /\ f.fd # NoFile <=> f.pc \in {"stat", "io"}
    /\ f.fd <= Len(data)
    /\ f.pc = "stat" => f.call.type = "READ_FILE"
    /\ f.pc = "io" => f.call.type \in {"READ_FILE", "WRITE_FILE", "APPEND_FILE"}
    /\ f.size <= MaxFileSize

\* A body runs with all of its guards constructed.
InLocks(t) ==
    LET f == frame[t] IN
    /\ f.pc \in {"idle", "reject"} => script[t] = <<>>
    /\ f.pc = "lock" => script[t] = Guards(f.call) /\ t \notin leaving
    /\ f.pc \in {"open", "stat", "io"} => script[t] = Guards(f.call) /\ pos[t] = Len(script[t])

\* What Storage relies on FileLocker for.
LockFacts == Locker!TypeOK /\ Locker!MutualExclusion /\ \A t \in leaving : pos[t] > 0

Inv == Types /\ \A t \in Threads : InFrame(t) /\ InLocks(t)

-----------------------------------------------------------------------------
\* The file a call has open is still the one its path names.
OpenFile(t) ==
    LET f == frame[t] IN
    f.fd # NoFile =>
        Reachable(tree, f.full_path) /\ tree[f.full_path].body = f.fd

\* What a reader has read is the beginning of the file as it is.
Reading(r) ==
    LET f == frame[r] IN
    f.pc = "io" =>
        /\ f.size = Len(data[f.fd]) /\ Len(f.buf) <= f.size
        /\ \A i \in 1..Len(f.buf) : f.buf[i] = data[f.fd][i]

\* What a write finds in its file and leaves there.
Base(c) == IF c.type = "WRITE_FILE" THEN <<>> ELSE Found(before, c.path)

\* The part of the contents that is written, and the tree with that part in its file.
Writing ==
    LET f == frame[Applier] IN
    f.pc = "io" =>
        /\ Len(f.buf) <= Len(f.call.contents)
        /\ \A i \in 1..Len(f.buf) : f.buf[i] = f.call.contents[i]
        /\ WalkErr(before, f.full_path) = "OK" /\ ~IsDir(before, f.full_path)
        /\ Base(f.call) \in Seq(Chunks)
        /\ ContentsOf(tree, data) = With(before, f.full_path, File(Base(f.call) \o f.buf))

\* An open file stays where its path says; a reader in the middle of read_file has the
\* beginning of the file as it is now; and a file in the middle of write_file or
\* append_file is what a write of the part written so far would have left of the files
\* from before the write.
Protected == (\A t \in Threads : OpenFile(t)) /\ (\A r \in Readers : Reading(r)) /\ Writing
=============================================================================
