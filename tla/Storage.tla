------------------------------ MODULE Storage -------------------------------
(***************************************************************************)
(* Storage (src/src/storage.cc) as its callers run it: connection threads  *)
(* in read_file, and the applier in the operations that change files, one  *)
(* system call at a time, with the locks of FileLocker around them.  Files *)
(* are inodes here: an open descriptor keeps its file when the path is     *)
(* renamed or replaced.                                                    *)
(***************************************************************************)
EXTENDS InodeTree

CONSTANTS Readers, Applier, Commands, ReadPaths,
          MaxCommands, MaxFaults   \* how often each may happen

VARIABLES locks, asleep, script, pos, leaving,  \* see FileLocker
          tree,     \* the directory tree; a file's body is its inode number
          data,     \* data[i]: the contents of inode i
          frame,    \* frame[t]: the local state of the call t is in
          count,    \* how many commands and faults there have been
          before    \* history: the contents of all files when the last write began

lockVars == <<locks, asleep, script, pos, leaving>>
vars == <<locks, asleep, script, pos, leaving, tree, data, frame, count, before>>

KeysUsed == ReadPaths \cup UNION {{c.path, c.new_path} : c \in Commands}
Locker == INSTANCE FileLocker
            WITH Keys <- KeysUsed,
                 Renames <- {<<c.path, c.new_path>> : c \in {d \in Commands : d.type = "RENAME"}}

CommandTypes == {"CREATE_FILE", "CREATE_DIR", "WRITE_FILE", "APPEND_FILE", "RENAME",
                 "DELETE_FILE", "DELETE_DIR"}

\* A command has the fields of its struct, and a path that is accepted a place in the tree.
ASSUME StorageConstants ==
    /\ IsFiniteSet(Readers) /\ Applier \notin Readers /\ MaxFileSize \in Nat
    /\ \A c \in Commands :
          c \in [type : CommandTypes, path : {c.path}, new_path : {c.new_path},
                contents : Seq(Range(c.contents))]
    /\ \A p \in KeysUsed : Valid(p) => Location(p) \in Seq(Names)

Threads == Readers \cup {Applier}
NoCall == [type |-> "NONE"]
NoResult == [err |-> "NONE", data |-> <<>>]
NoFile == 0
Idle == [call |-> NoCall, pc |-> "idle", full_path |-> <<>>, full_new |-> <<>>,
         fd |-> NoFile, size |-> 0, buf |-> <<>>, res |-> NoResult]
Calls(t) == IF t = Applier THEN Commands ELSE [type : {"READ_FILE"}, path : ReadPaths]

Init ==
    /\ Locker!Init
    /\ tree = EmptyTree
    /\ data = <<>>
    /\ frame = [t \in Threads |-> Idle]
    /\ count = [commands |-> 0, faults |-> 0]
    /\ before = EmptyTree

\* Mutant: read_file takes no lock.
GuardsOfWriters(c) ==
    CASE c.type = "RENAME" -> <<Locker!Write(c.path), Locker!Write(c.new_path)>>
      [] c.type \in {"CREATE_DIR", "DELETE_DIR", "READ_FILE"} -> <<>>
      [] OTHER -> <<Locker!Write(c.path)>>

\* Mutant: rename locks its old path twice.
GuardsOldTwice(c) ==
    CASE c.type = "READ_FILE" -> <<Locker!Read(c.path)>>
      [] c.type = "RENAME" -> <<Locker!Write(c.path), Locker!Write(c.path)>>
      [] c.type \in {"CREATE_DIR", "DELETE_DIR"} -> <<>>
      [] OTHER -> <<Locker!Write(c.path)>>

\* The locks each operation takes, by the path string it was given.
Guards(c) ==
    CASE c.type = "READ_FILE" -> <<Locker!Read(c.path)>>
      [] c.type = "RENAME" -> <<Locker!Write(c.path), Locker!Write(c.new_path)>>
      [] c.type \in {"CREATE_DIR", "DELETE_DIR"} -> <<>>
      [] OTHER -> <<Locker!Write(c.path)>>

Accepted(c) == Valid(c.path) /\ (c.type = "RENAME" => Valid(c.new_path))

\* What the locks, which are on path strings, need of the paths in use to protect files: a
\* file that is read has one name, and no command renames a directory above it, or makes
\* a file of a directory that its path goes through.
PathsApart ==
    \A c \in Commands, p \in ReadPaths :
        Accepted(c) /\ Valid(p) =>
            /\ c.path # p => Location(c.path) # Location(p)
            /\ c.type = "RENAME" /\ c.new_path # p => Location(c.new_path) # Location(p)
            /\ c.type \in {"WRITE_FILE", "APPEND_FILE", "RENAME"} =>
                  ~Inside(Location(c.path), Location(p))

\* Entry of an operation: validate_path, and then its guards.
Invoke(t, c) ==
    /\ frame[t].pc = "idle"
    /\ t = Applier => count.commands < MaxCommands
    /\ count' = IF t = Applier THEN [count EXCEPT !.commands = @ + 1] ELSE count
    /\ frame' = [frame EXCEPT ![t].call = c,
                              ![t].full_path = IF Accepted(c) THEN Location(c.path) ELSE <<>>,
                              ![t].full_new = IF c.type = "RENAME" /\ Accepted(c)
                                              THEN Location(c.new_path) ELSE <<>>,
                              ![t].pc = CASE ~Accepted(c) -> "reject"
                                          [] Accepted(c) /\ Guards(c) = <<>> -> "open"
                                          [] OTHER -> "lock"]
    /\ IF Accepted(c) /\ Guards(c) # <<>>
       THEN Locker!Enter(t, Guards(c))
       ELSE UNCHANGED lockVars
    /\ UNCHANGED <<tree, data, before>>

Lock(t) ==
    /\ frame[t].pc = "lock"
    /\ Locker!lock_read(t) \/ Locker!lock_write(t)
    /\ frame' = [frame EXCEPT ![t].pc = IF pos'[t] = Len(script[t]) THEN "open" ELSE "lock"]
    /\ UNCHANGED <<tree, data, count, before>>

SpuriousWakeup(t) == Locker!SpuriousWakeup(t) /\ UNCHANGED <<tree, data, frame, count, before>>

At(t, pc, types) == frame[t].pc = pc /\ frame[t].call.type \in types
Finish(t, err, bytes) ==
    frame' = [frame EXCEPT ![t].pc = "return", ![t].fd = NoFile,
                           ![t].res = [err |-> err, data |-> bytes]]
NewInode == Len(data) + 1

Reject(t) ==
    /\ frame[t].pc = "reject"
    /\ Finish(t, "InvalidPath", <<>>)
    /\ UNCHANGED <<lockVars, tree, data, count, before>>

\* The operations that are one system call on the tree, with the errors they tolerate.
TreeCall(t) ==
    LET l == frame[t].full_path
        type == frame[t].call.type
    IN  CASE type = "CREATE_DIR" -> Outcome(sys_mkdir(tree, l), {"EEXIST"})
          [] type = "DELETE_FILE" -> Outcome(sys_unlink(tree, l), {"ENOENT"})
          [] type = "DELETE_DIR" -> Outcome(sys_rmdir(tree, l), {"ENOENT"})
          [] type = "RENAME" -> Outcome(sys_rename(tree, l, frame[t].full_new), {})

ChangeTree(t) ==
    /\ At(t, "open", {"CREATE_DIR", "RENAME", "DELETE_FILE", "DELETE_DIR"})
    /\ tree' = TreeCall(t).tree
    /\ Finish(t, TreeCall(t).err, <<>>)
    /\ UNCHANGED <<lockVars, data, count, before>>

CreateFile(t) ==
    /\ At(t, "open", {"CREATE_FILE"})
    /\ LET sys == sys_open_excl(tree, frame[t].full_path, NewInode) IN
        /\ tree' = sys.tree
        /\ data' = IF sys.err = "OK" THEN Append(data, <<>>) ELSE data
        /\ Finish(t, Outcome(sys, {"EEXIST"}).err, <<>>)
    /\ UNCHANGED <<lockVars, count, before>>

\* write_file opens with O_TRUNC, append_file with O_APPEND; both with O_CREAT.
OpenForWriting(t) ==
    /\ At(t, "open", {"WRITE_FILE", "APPEND_FILE"})
    /\ LET sys == sys_open_creat(tree, frame[t].full_path, NewInode) IN
        /\ tree' = sys.tree
        /\ IF sys.err # "OK"
           THEN Finish(t, from_errno(sys.err), <<>>) /\ UNCHANGED <<data, before>>
           ELSE LET ino == sys.tree[frame[t].full_path].body IN
                /\ frame' = [frame EXCEPT ![t].pc = "io", ![t].fd = ino]
                /\ data' = CASE ino = NewInode -> Append(data, <<>>)
                             [] ino # NewInode /\ frame[t].call.type = "WRITE_FILE" ->
                                  [data EXCEPT ![ino] = <<>>]
                             [] OTHER -> data
                /\ before' = ContentsOf(tree, data)
    /\ UNCHANGED <<lockVars, count>>

\* One turn of the write loop; fsync and return after the last one.
WriteChunk(t) ==
    /\ At(t, "io", {"WRITE_FILE", "APPEND_FILE"})
    /\ LET written == Len(frame[t].buf)
           contents == frame[t].call.contents IN
        IF written < Len(contents)
        THEN /\ data' = [data EXCEPT ![frame[t].fd] = Append(@, contents[written + 1])]
             /\ frame' = [frame EXCEPT ![t].buf = Append(@, contents[written + 1])]
        ELSE Finish(t, "Ok", <<>>) /\ UNCHANGED data
    /\ UNCHANGED <<lockVars, tree, count, before>>

OpenForReading(t) ==
    /\ At(t, "open", {"READ_FILE"})
    /\ LET sys == sys_open_read(tree, frame[t].full_path) IN
        IF sys.err # "OK"
        THEN Finish(t, from_errno(sys.err), <<>>)
        ELSE frame' = [frame EXCEPT ![t].pc = "stat", ![t].fd = tree[frame[t].full_path].body]
    /\ UNCHANGED <<lockVars, tree, data, count, before>>

\* Mutant: the size is checked against one chunk more than fits.
StatFile_off_by_one(t) ==
    /\ At(t, "stat", {"READ_FILE"})
    /\ LET st_size == Len(data[frame[t].fd]) IN
        IF st_size > MaxFileSize + 1
        THEN Finish(t, "IoError", <<>>)
        ELSE frame' = [frame EXCEPT ![t].pc = "io", ![t].size = st_size]
    /\ UNCHANGED <<lockVars, tree, data, count, before>>

\* fstat, the size check, and the buffer of that size.
StatFile(t) ==
    /\ At(t, "stat", {"READ_FILE"})
    /\ LET st_size == Len(data[frame[t].fd]) IN
        IF st_size > MaxFileSize
        THEN Finish(t, "IoError", <<>>)
        ELSE frame' = [frame EXCEPT ![t].pc = "io", ![t].size = st_size]
    /\ UNCHANGED <<lockVars, tree, data, count, before>>

\* One turn of the read loop, which ends at st_size bytes or at the end of the file.
ReadChunk(t) ==
    /\ At(t, "io", {"READ_FILE"})
    /\ LET total_read == Len(frame[t].buf)
           body == data[frame[t].fd] IN
        IF total_read < frame[t].size /\ total_read < Len(body)
        THEN frame' = [frame EXCEPT ![t].buf = Append(@, body[total_read + 1])]
        ELSE Finish(t, "Ok", frame[t].buf)
    /\ UNCHANGED <<lockVars, tree, data, count, before>>

\* A system call fails with an errno that none of the operations handles.
Fault(t) ==
    /\ frame[t].pc \in {"open", "stat", "io"}
    /\ count.faults < MaxFaults
    /\ count' = [count EXCEPT !.faults = @ + 1]
    /\ Finish(t, "IoError", <<>>)
    /\ UNCHANGED <<lockVars, tree, data, before>>

Unlock(t) ==
    /\ frame[t].pc = "return"
    /\ Locker!unlock_read(t) \/ Locker!unlock_write(t)
    /\ UNCHANGED <<tree, data, frame, count, before>>

Return(t) ==
    /\ frame[t].pc = "return" /\ Locker!Idle(t)
    /\ frame' = [frame EXCEPT ![t] = Idle]
    /\ UNCHANGED <<lockVars, tree, data, count, before>>

Step(t) ==
    \/ Reject(t) \/ Lock(t) \/ ChangeTree(t) \/ CreateFile(t) \/ OpenForWriting(t) \/ WriteChunk(t)
    \/ OpenForReading(t) \/ StatFile(t) \/ ReadChunk(t) \/ Unlock(t) \/ Return(t)

Next == \E t \in Threads :
            (\E c \in Calls(t) : Invoke(t, c)) \/ Step(t) \/ SpuriousWakeup(t) \/ Fault(t)

Spec == Init /\ [][Next]_vars
\* A thread inside an operation keeps running: the system calls return.  This is the weak
\* fairness of Step(t), with the condition under which a step is enabled written out.
Runnable(t) == frame[t].pc # "idle" /\ t \notin asleep
FairSpec == Spec /\ \A t \in Threads : <>[]Runnable(t) => []<><<Step(t)>>_vars
-----------------------------------------------------------------------------
\* Directories, inodes and the calls in progress are well formed: every descriptor and
\* every directory entry names an inode that exists, and no read, at whatever moment between
\* the steps of an append it takes the size, has a buffer beyond MAX_FILE_SIZE.
TypeOK ==
    /\ DOMAIN frame = Threads
    /\ \A t \in Threads :
        /\ frame[t].call \in Calls(t) \cup {NoCall}
        /\ frame[t].pc \in {"idle", "reject", "lock", "open", "stat", "io", "return"}
        /\ frame[t].fd \in 0..Len(data)
        /\ frame[t].size <= MaxFileSize
    /\ \A l \in DOMAIN tree : IsFile(tree, l) => tree[l].body \in 1..Len(data)

\* Nobody has a file open that the applier has open for writing: the locks, taken by path
\* string, keep readers away from the inode.
WriterAlone ==
    frame[Applier].fd # NoFile => \A r \in Readers : frame[r].fd # frame[Applier].fd

\* The steps that Storage takes on the lock table are those of FileLocker.
LocksAsSpecified == Locker!Spec

\* A RENAME of a path to itself has been accepted: it waits for its own first lock.
RenamesToItself(t) ==
    frame[t].call.type = "RENAME" /\ Accepted(frame[t].call) /\ frame[t].call.path = frame[t].call.new_path

\* Once no new calls begin, every call in progress returns, whatever has been read and
\* written beside it and whichever way the disk fails, unless the applier is in a RENAME of
\* a path to itself.  (While reads of a path go on beginning, a command that writes it may
\* wait for ever: a read lock is granted beside others although a writer waits.)
CallsReturn ==
    /\ <>[]~RenamesToItself(Applier)
    /\ <>[][\A t \in Threads : frame[t].pc = "idle" => frame'[t].pc = "idle"]_vars
    => \A t \in Threads : []<>(frame[t].pc = "idle")
=============================================================================
