----------------------- MODULE StorageProtectedProofs -----------------------
(***************************************************************************)
(* That every step keeps Protected, the part of Storage's invariant that   *)
(* needs the locks and paths that are apart.                               *)
(***************************************************************************)
EXTENDS StorageInvariantProofs

-----------------------------------------------------------------------------
\* Whoever is in the body of a call holds the lock on its path.
LEMMA BodyHolds ==
    ASSUME Inv, NEW t \in Threads, frame[t].pc \in {"open", "stat", "io"}
    PROVE  LET c == frame[t].call IN
           /\ c.type = "READ_FILE" => Locker!Holds(t, Locker!Read(c.path))
           /\ c.type \notin {"READ_FILE", "CREATE_DIR", "DELETE_DIR"} => Locker!Holds(t, Locker!Write(c.path))
           /\ c.type = "RENAME" => Locker!Holds(t, Locker!Write(c.new_path))
  <1>1. PICK c : c = frame[t].call BY Zenon
  <1>2. script[t] = Guards(c) /\ pos[t] = Len(script[t]) BY <1>1, Zenon DEF Inv, InLocks
  <1>3. CASE c.type = "READ_FILE"
    <2>1. script[t] = <<Locker!Read(c.path)>> BY <1>2, <1>3, Zenon DEF Guards
    <2>2. 1 \in 1..pos[t] /\ script[t][1] = Locker!Read(c.path) BY <1>2, <2>1
    <2> QED BY <1>1, <1>3, <2>2, Zenon DEF Locker!Holds
  <1>4. CASE c.type = "RENAME"
    <2>1. script[t] = <<Locker!Write(c.path), Locker!Write(c.new_path)>>
      BY <1>2, <1>4, Zenon DEF Guards
    <2>2. /\ 1 \in 1..pos[t] /\ script[t][1] = Locker!Write(c.path)
          /\ 2 \in 1..pos[t] /\ script[t][2] = Locker!Write(c.new_path)
      BY <1>2, <2>1
    <2> QED BY <1>1, <1>4, <2>2, Zenon DEF Locker!Holds
  <1>5. CASE c.type \notin {"READ_FILE", "CREATE_DIR", "DELETE_DIR", "RENAME"}
    <2>1. script[t] = <<Locker!Write(c.path)>> BY <1>2, <1>5, Zenon DEF Guards
    <2>2. 1 \in 1..pos[t] /\ script[t][1] = Locker!Write(c.path) BY <1>2, <2>1
    <2> QED BY <1>1, <1>5, <2>2, Zenon DEF Locker!Holds
  <1> QED BY <1>1, <1>3, <1>4, <1>5, Zenon

\* A reader and the applier never hold locks on one path.
LEMMA HoldApart ==
    ASSUME LockFacts, NEW r \in Readers, NEW p \in KeysUsed, Locker!Holds(r, Locker!Read(p)),
           NEW q \in KeysUsed, Locker!Holds(Applier, Locker!Write(q))
    PROVE  p # q
  <1> SUFFICES ASSUME p = q PROVE FALSE BY Zenon
  <1>1. r \in Locker!ReadersOf(p) BY Zenon DEF Locker!ReadersOf, Locker!Threads
  <1>2. Applier \in Locker!WritersOf(p) BY Zenon DEF Locker!WritersOf, Locker!Threads
  <1> QED BY <1>1, <1>2, Zenon DEF LockFacts, Locker!MutualExclusion

\* So in their bodies they work on different files, if paths are apart.
LEMMA FilesApart ==
    ASSUME Inv, LockFacts, PathsApart, NEW r \in Readers,
           frame[r].pc \in {"open", "stat", "io"}, frame[Applier].pc \in {"open", "stat", "io"},
           NEW c, c = frame[Applier].call
    PROVE  /\ c.type \notin {"CREATE_DIR", "DELETE_DIR"} => frame[Applier].full_path # frame[r].full_path
           /\ c.type = "RENAME" => frame[Applier].full_new # frame[r].full_path
           /\ c.type \in {"WRITE_FILE", "APPEND_FILE", "RENAME"} =>
                 ~Inside(frame[Applier].full_path, frame[r].full_path)
  <1>1. r \in Threads /\ Applier \in Threads /\ r # Applier BY StorageConstants, Zenon DEF Threads
  <1>2. PICK d : d = frame[r].call BY Zenon
  <1>3. d.type = "READ_FILE" /\ d.path \in ReadPaths /\ d.path \in KeysUsed
    BY <1>1, <1>2, WhoseCall, CallFacts, Zenon
  <1>4. c \in Commands /\ c.type \in CommandTypes
    BY <1>1, WhoseCall, CallFacts, Zenon
  <1>5. c.path \in KeysUsed /\ c.new_path \in KeysUsed BY <1>4, CommandFacts, Zenon
  <1>6. Accepted(c) /\ Accepted(d) /\ frame[r].full_path = Location(d.path)
        /\ frame[Applier].full_path = Location(c.path)
        /\ (c.type = "RENAME" => frame[Applier].full_new = Location(c.new_path))
    BY <1>1, <1>2, BodyFacts, Zenon
  <1>7. Locker!Holds(r, Locker!Read(d.path)) BY <1>1, <1>2, <1>3, BodyHolds, Zenon
  <1>8. c.type \notin {"CREATE_DIR", "DELETE_DIR"} => d.path # c.path
    <2>1. c.type # "READ_FILE" BY <1>4, Zenon DEF CommandTypes
    <2>2. c.type \notin {"CREATE_DIR", "DELETE_DIR"} => Locker!Holds(Applier, Locker!Write(c.path))
      BY <1>1, <2>1, BodyHolds, Zenon
    <2> QED BY <1>3, <1>5, <1>7, <2>2, HoldApart, Zenon
  <1>9. c.type = "RENAME" => d.path # c.new_path
    <2>1. c.type = "RENAME" => Locker!Holds(Applier, Locker!Write(c.new_path))
      BY <1>1, BodyHolds, Zenon
    <2> QED BY <1>3, <1>5, <1>7, <2>1, HoldApart, Zenon
  <1>10. Valid(d.path) BY <1>6, Zenon DEF Accepted
  <1>11. /\ c.path # d.path => Location(c.path) # Location(d.path)
         /\ c.type = "RENAME" /\ c.new_path # d.path => Location(c.new_path) # Location(d.path)
         /\ c.type \in {"WRITE_FILE", "APPEND_FILE", "RENAME"} =>
               ~Inside(Location(c.path), Location(d.path))
    BY <1>3, <1>4, <1>6, <1>10, Zenon DEF PathsApart
  <1> QED BY <1>6, <1>8, <1>9, <1>11, Zenon

\* A reader has another inode open than the applier.
LEMMA InodesApart ==
    ASSUME Inv, LockFacts, PathsApart, NEW r \in Readers, OpenFile(r), OpenFile(Applier),
           frame[r].fd # NoFile, frame[Applier].fd # NoFile
    PROVE  frame[r].fd # frame[Applier].fd
  <1>1. r \in Threads /\ Applier \in Threads BY Zenon DEF Threads
  <1>2. frame[r].pc \in {"open", "stat", "io"} /\ frame[Applier].pc \in {"open", "stat", "io"}
    BY <1>1, Zenon DEF Inv, InFrame
  <1>3. frame[Applier].call.type \notin {"CREATE_DIR", "DELETE_DIR"}
    <2>1. InFrame(Applier) BY <1>1, Zenon DEF Inv
    <2> QED BY <2>1, Zenon DEF InFrame
  <1>4. frame[Applier].full_path # frame[r].full_path BY <1>2, <1>3, FilesApart, Zenon
  <1>5. WellFormed(tree, Len(data)) BY Zenon DEF Inv, Types
  <1>6. IsFile(tree, frame[r].full_path) /\ tree[frame[r].full_path].body = frame[r].fd
    BY Zenon DEF OpenFile, Reachable
  <1>7. IsFile(tree, frame[Applier].full_path) /\ tree[frame[Applier].full_path].body = frame[Applier].fd
    BY Zenon DEF OpenFile, Reachable
  <1> QED BY <1>4, <1>5, <1>6, <1>7, Zenon DEF WellFormed, IsFile, Exists

\* The commands that change the tree leave an open file where it is.
LEMMA TreeKept ==
    ASSUME Inv, LockFacts, PathsApart, ChangeTree(Applier),
           NEW r \in Readers, OpenFile(r), frame[r].fd # NoFile
    PROVE  SameFile(tree, tree', frame[r].full_path)
  <1>1. r \in Threads /\ Applier \in Threads BY Zenon DEF Threads
  <1>2. /\ Types /\ frame[r].pc \in {"open", "stat", "io"} /\ frame[Applier].pc = "open"
        /\ tree' = TreeCall(Applier).tree
    BY <1>1, Zenon DEF Inv, InFrame, ChangeTree, At
  <1>3. data \in Seq(Seq(Chunks)) /\ Len(data) \in Nat /\ WellFormed(tree, Len(data))
    BY <1>2 DEF Types
  <1>4. PICK l, c, o, n : /\ l = frame[r].full_path /\ c = frame[Applier].call
                          /\ o = frame[Applier].full_path /\ n = frame[Applier].full_new
    BY Zenon
  <1>5. Reachable(tree, l) BY <1>4, Zenon DEF OpenFile
  <1>6. /\ c.type \notin {"CREATE_DIR", "DELETE_DIR"} => o # l
        /\ c.type = "RENAME" => n # l /\ ~Inside(o, l)
    BY <1>2, <1>4, FilesApart, Zenon
  <1>7. CASE c.type = "CREATE_DIR"
    <2>1. tree' = sys_mkdir(tree, o).tree BY <1>2, <1>4, <1>7, OutcomeFacts, Zenon DEF TreeCall
    <2> QED BY <1>3, <1>4, <1>5, <2>1, NewKept, Zenon
  <1>8. CASE c.type = "DELETE_FILE"
    <2>1. tree' = sys_unlink(tree, o).tree BY <1>2, <1>4, <1>8, OutcomeFacts, Zenon DEF TreeCall
    <2> QED BY <1>3, <1>4, <1>5, <1>6, <1>8, <2>1, RemoveKept, Zenon
  <1>9. CASE c.type = "DELETE_DIR"
    <2>1. tree' = sys_rmdir(tree, o).tree BY <1>2, <1>4, <1>9, OutcomeFacts, Zenon DEF TreeCall
    <2> QED BY <1>3, <1>4, <1>5, <2>1, RemoveKept, Zenon
  <1>10. CASE c.type = "RENAME"
    <2>1. tree' = sys_rename(tree, o, n).tree BY <1>2, <1>4, <1>10, OutcomeFacts, Zenon DEF TreeCall
    <2>2. o \in Seq(Names) /\ n \in Seq(Names) BY <1>1, <1>2, <1>4, FrameFields, Zenon
    <2> QED BY <1>3, <1>4, <1>5, <1>6, <1>10, <2>1, <2>2, RenameKept, Zenon
  <1> QED BY <1>4, <1>7, <1>8, <1>9, <1>10, Zenon DEF ChangeTree, At

\* What a reader has open stays as it is.
Undisturbed(r) ==
    /\ frame'[r] = frame[r]
    /\ frame[r].fd # NoFile =>
          SameFile(tree, tree', frame[r].full_path) /\ data'[frame[r].fd] = data[frame[r].fd]

\* Then it goes on reading what it opened.
LEMMA ReaderStays ==
    ASSUME Inv, NEW r \in Readers, OpenFile(r), Reading(r), Undisturbed(r)
    PROVE  OpenFile(r)' /\ Reading(r)'
  <1>1. frame'[r] = frame[r] BY Zenon DEF Undisturbed
  <1>2. CASE frame[r].fd = NoFile
    <2>1. frame[r].pc # "io" BY <1>2, Zenon DEF Inv, InFrame, Threads
    <2> QED BY <1>1, <1>2, <2>1, Zenon DEF OpenFile, Reading
  <1>3. CASE frame[r].fd # NoFile
    <2>1. OpenFile(r)' BY <1>1, <1>3, Zenon DEF OpenFile, Undisturbed, SameFile
    <2>2. data'[frame[r].fd] = data[frame[r].fd] BY <1>3, Zenon DEF Undisturbed
    <2>3. Reading(r)' BY <1>1, <2>2, Zenon DEF Reading
    <2> QED BY <2>1, <2>3, Zenon
  <1> QED BY <1>2, <1>3, Zenon

\* A file that is open while another one appears or is opened.
LEMMA OpenKept ==
    ASSUME Inv, LockFacts, PathsApart, CreateFile(Applier) \/ OpenForWriting(Applier),
           NEW r \in Readers, OpenFile(r), frame[r].fd # NoFile
    PROVE  SameFile(tree, tree', frame[r].full_path) /\ data'[frame[r].fd] = data[frame[r].fd]
  <1>1. r \in Threads /\ Applier \in Threads BY Zenon DEF Threads
  <1>2. Types /\ frame[r].pc \in {"stat", "io"} /\ frame[Applier].pc = "open"
    BY <1>1, Zenon DEF Inv, InFrame, CreateFile, OpenForWriting, At
  <1>3. data \in Seq(Seq(Chunks)) /\ Len(data) \in Nat /\ WellFormed(tree, Len(data))
    BY <1>2 DEF Types
  <1>4. PICK l, m : l = frame[r].full_path /\ m = frame[Applier].full_path BY Zenon
  <1>5. Reachable(tree, l) /\ tree[l].body = frame[r].fd BY <1>4, Zenon DEF OpenFile
  <1>6. frame[r].fd \in 1..Len(data) BY <1>1, <1>2, OpenFd, Zenon
  <1>7. SameFile(tree, tree', l)
    <2>1. tree' = sys_open_excl(tree, m, NewInode).tree \/ tree' = sys_open_creat(tree, m, NewInode).tree
      BY <1>4, Zenon DEF CreateFile, OpenForWriting
    <2> QED BY <1>3, <1>5, <2>1, NewKept, Zenon
  <1>8. CASE data' = data \/ data' = Append(data, <<>>)
    <2>1. data'[frame[r].fd] = data[frame[r].fd] BY <1>3, <1>6, <1>8
    <2> QED BY <1>4, <1>7, <2>1, Zenon
  <1>9. CASE CreateFile(Applier)
    <2>1. data' = data \/ data' = Append(data, <<>>) BY <1>9, Zenon DEF CreateFile
    <2> QED BY <1>8, <2>1, Zenon
  <1>10. CASE OpenForWriting(Applier) /\ ~(data' = data \/ data' = Append(data, <<>>))
    <2>1. WalkErr(tree, m) = "OK" /\ ~IsDir(tree, m)
      <3>1. sys_open_creat(tree, m, NewInode).err = "OK" BY <1>4, <1>10, Zenon DEF OpenForWriting
      <3> QED BY <3>1, OpenCreatFacts, Zenon
    <2>2. PICK ino : ino = tree'[m].body BY Zenon
    <2>3. tree' = IF Exists(tree, m) THEN tree ELSE With(tree, m, File(NewInode))
      BY <1>1, <1>4, <1>10, <2>1, OpenWriteFacts, Zenon
    <2>4. IsFile(tree', m) /\ \A j \in 1..Len(data) : j # ino => data'[j] = data[j]
      BY <1>1, <1>4, <1>10, <2>1, <2>2, OpenWriteInode, Zenon
    <2>5. m # l
      <3>1. frame[Applier].call.type \notin {"CREATE_DIR", "DELETE_DIR"}
        BY <1>10, Zenon DEF OpenForWriting, At
      <3> QED BY <1>2, <1>4, <3>1, FilesApart, Zenon
    <2>6. CASE Exists(tree, m)
      <3>1. tree' = tree BY <2>3, <2>6, Zenon
      <3>2. ino # frame[r].fd
        BY <1>3, <1>5, <2>2, <2>4, <2>5, <3>1, Zenon DEF WellFormed, Reachable, IsFile, Exists
      <3> QED BY <1>4, <1>6, <1>7, <2>4, <3>2, Zenon
    <2>7. CASE ~Exists(tree, m)
      <3>1. ino = NewInode BY <2>2, <2>3, <2>7, Zenon DEF With, File
      <3>2. ino # frame[r].fd BY <1>3, <1>6, <3>1 DEF NewInode
      <3> QED BY <1>4, <1>6, <1>7, <2>4, <3>2, Zenon
    <2> QED BY <2>6, <2>7, Zenon
  <1> QED BY <1>8, <1>9, <1>10, Zenon

\* Nothing the applier does disturbs a reader.
LEMMA ReadersUndisturbed ==
    ASSUME Inv, LockFacts, PathsApart, OpenFile(Applier), NEW r \in Readers, OpenFile(r),
           \/ ChangeTree(Applier) \/ CreateFile(Applier) \/ OpenForWriting(Applier) \/ WriteChunk(Applier)
    PROVE  Undisturbed(r)
  <1>1. r \in Threads /\ Applier \in Threads /\ r # Applier BY StorageConstants, Zenon DEF Threads
  <1>2. frame \in [Threads -> Frames] BY Zenon DEF Inv, Types
  <1>3. frame'[r] = frame[r]
    <2>1. CASE ChangeTree(Applier) BY <1>1, <1>2, <2>1, Zenon DEF ChangeTree, Finish
    <2>2. CASE CreateFile(Applier) BY <1>1, <1>2, <2>2, Zenon DEF CreateFile, Finish
    <2>3. CASE OpenForWriting(Applier)
      <3>1. ASSUME NEW i, frame' = [frame EXCEPT ![Applier].pc = "io", ![Applier].fd = i]
            PROVE  frame'[r] = frame[r]
        BY <1>1, <1>2, <3>1, Zenon
      <3>2. ASSUME NEW e, Finish(Applier, e, <<>>) PROVE frame'[r] = frame[r]
        BY <1>1, <1>2, <3>2, Zenon DEF Finish
      <3> QED BY <2>3, <3>1, <3>2, Zenon DEF OpenForWriting
    <2>4. CASE WriteChunk(Applier)
      <3>1. ASSUME NEW x, frame' = [frame EXCEPT ![Applier].buf = Append(@, x)] PROVE frame'[r] = frame[r]
        BY <1>1, <1>2, <3>1, Zenon
      <3>2. ASSUME NEW e, Finish(Applier, e, <<>>) PROVE frame'[r] = frame[r]
        BY <1>1, <1>2, <3>2, Zenon DEF Finish
      <3> QED BY <2>4, <3>1, <3>2, Zenon DEF WriteChunk
    <2> QED BY <2>1, <2>2, <2>3, <2>4, Zenon
  <1>4. CASE frame[r].fd = NoFile BY <1>3, <1>4, Zenon DEF Undisturbed
  <1>5. CASE frame[r].fd # NoFile /\ ChangeTree(Applier)
    BY <1>3, <1>5, TreeKept, Zenon DEF Undisturbed, ChangeTree
  <1>6. CASE frame[r].fd # NoFile /\ (CreateFile(Applier) \/ OpenForWriting(Applier))
    BY <1>3, <1>6, OpenKept, Zenon DEF Undisturbed
  <1>7. CASE frame[r].fd # NoFile /\ WriteChunk(Applier)
    <2>1. tree' = tree /\ frame[Applier].pc = "io" BY <1>7, Zenon DEF WriteChunk, At
    <2>2. frame[Applier].fd # NoFile BY <1>1, <2>1, Zenon DEF Inv, InFrame
    <2>3. frame[r].fd # frame[Applier].fd BY <1>7, <2>2, InodesApart, Zenon
    <2>4. frame[r].pc \in {"stat", "io"} BY <1>1, <1>7, Zenon DEF Inv, InFrame
    <2>5. frame[r].fd \in 1..Len(data) BY <1>1, <2>4, OpenFd, Zenon
    <2>6. data'[frame[r].fd] = data[frame[r].fd]
      <3>1. CASE Len(frame[Applier].buf) < Len(frame[Applier].call.contents)
        BY <1>1, <1>7, <2>3, <2>5, <3>1, WriteFacts, Zenon
      <3>2. CASE ~(Len(frame[Applier].buf) < Len(frame[Applier].call.contents))
        BY <1>7, <3>2, Zenon DEF WriteChunk
      <3> QED BY <3>1, <3>2, Zenon
    <2> QED BY <1>3, <1>7, <2>1, <2>6, Zenon DEF Undisturbed, OpenFile, SameFile
  <1> QED BY <1>4, <1>5, <1>6, <1>7, Zenon

\* A write has begun: the file is as it was, or empty.
LEMMA WriteBegins ==
    ASSUME Inv, OpenForWriting(Applier), NEW l, l = frame[Applier].full_path,
           WalkErr(tree, l) = "OK", ~IsDir(tree, l)
    PROVE  OpenFile(Applier)' /\ Writing'
  <1>1. Applier \in Threads BY Zenon DEF Threads
  <1>2. Types /\ InFrame(Applier) BY <1>1, Zenon DEF Inv
  <1>3. data \in Seq(Seq(Chunks)) /\ Len(data) \in Nat /\ WellFormed(tree, Len(data))
    BY <1>2 DEF Types
  <1>4. PICK c, ino, b : c = frame[Applier].call /\ ino = tree'[l].body /\ b = ContentsOf(tree, data)
    BY Zenon
  <1>5. frame[Applier].pc = "open" /\ c.type \in {"WRITE_FILE", "APPEND_FILE"}
    BY <1>4, Zenon DEF OpenForWriting, At
  <1>6. /\ frame' = [frame EXCEPT ![Applier].pc = "io", ![Applier].fd = ino] /\ before' = b
        /\ tree' = IF Exists(tree, l) THEN tree ELSE With(tree, l, File(Len(data) + 1))
    BY <1>1, <1>4, OpenWriteFacts, Zenon DEF NewInode
  <1>7. /\ data' \in Seq(Seq(Chunks)) /\ ino \in 1..Len(data')
        /\ \A j \in 1..Len(data) : j # ino => data'[j] = data[j]
        /\ ~Exists(tree, l) => data'[ino] = <<>>
        /\ c.type = "WRITE_FILE" => data'[ino] = <<>>
        /\ Exists(tree, l) /\ c.type # "WRITE_FILE" => data' = data
    BY <1>1, <1>4, OpenWriteInode, Zenon
  <1>8. frame[Applier].buf = <<>> /\ l = Location(c.path) BY <1>2, <1>4, <1>5, Zenon DEF InFrame
  <1>9. /\ frame'[Applier].pc = "io" /\ frame'[Applier].fd = ino /\ frame'[Applier].buf = <<>>
        /\ frame'[Applier].call = c /\ frame'[Applier].full_path = l
    <2>1. frame[Applier].size \in Nat /\ frame[Applier].buf \in Seq(Chunks)
      BY <1>1, <1>2, FrameFields, Zenon
    <2>2. Goes(Applier, "io", ino, frame[Applier].size, frame[Applier].buf)
      BY <1>1, <1>6, GoesForms, Zenon
    <2>3. ino \in Nat /\ "io" \in {"lock", "open", "stat", "io", "return"} BY <1>7
    <2>4. /\ frame'[Applier].pc = "io" /\ frame'[Applier].fd = ino
          /\ frame'[Applier].buf = frame[Applier].buf /\ frame'[Applier].call = frame[Applier].call
          /\ frame'[Applier].full_path = frame[Applier].full_path
      BY <1>1, <2>1, <2>2, <2>3, GoesFacts
    <2> QED BY <1>4, <1>8, <2>4, Zenon
  <1>10. /\ WalkErr(b, l) = "OK" /\ (Exists(tree, l) <=> Exists(b, l)) /\ ~IsDir(b, l)
    <2>1. DOMAIN tree = DOMAIN b /\ \A x \in DOMAIN tree : tree[x].kind = b[x].kind
      BY <1>3, <1>4, ContentsShape, Zenon
    <2> QED BY <2>1, ShapeFacts
  <1>11. /\ Reachable(tree', l) /\ ContentsOf(tree', data') = With(b, l, File(data'[ino]))
         /\ Exists(tree, l) => b[l] = File(data[ino])
    <2>1. PICK g, e : g = tree' /\ e = data' BY Zenon
    <2>2. /\ g = (IF Exists(tree, l) THEN tree ELSE With(tree, l, File(Len(data) + 1))) /\ ino = g[l].body
          /\ \A j \in 1..Len(data) : j # ino => e[j] = data[j]
      BY <1>4, <1>6, <1>7, <2>1, Zenon
    <2>3. /\ Reachable(g, l) /\ ContentsOf(g, e) = With(ContentsOf(tree, data), l, File(e[ino]))
          /\ Exists(tree, l) => ContentsOf(tree, data)[l] = File(data[ino])
      BY <1>3, <2>2, OpenedContents
    <2> QED BY <1>4, <2>1, <2>3, Zenon
  <1>12. PICK k : k = IF c.type = "WRITE_FILE" THEN <<>> ELSE Found(b, c.path) BY Zenon
  <1>13. k = data'[ino]
    <2>1. CASE Exists(tree, l)
      <3>1. IsFile(b, l) /\ b[l].body = data[ino] BY <1>10, <1>11, <2>1 DEF IsFile, File
      <3> QED BY <1>7, <1>8, <1>12, <2>1, <3>1, Zenon DEF Found
    <2>2. CASE ~Exists(tree, l)
      BY <1>7, <1>8, <1>10, <1>12, <2>2, Zenon DEF Found, IsFile
    <2> QED BY <2>1, <2>2, Zenon
  <1>14. k \in Seq(Chunks) /\ k \o <<>> = k
    <2>1. data'[ino] \in Seq(Chunks) BY <1>7
    <2> QED BY <1>13, <2>1, ConcatEmpty, Zenon
  <1>15. Base(c)' = k BY <1>6, <1>12, Zenon DEF Base
  <1>16. c.contents \in Seq(Chunks) BY <1>1, <1>4, <1>5, WhoseCall, CommandFacts, Zenon
  <1>17. OpenFile(Applier)' BY <1>4, <1>9, <1>11, Zenon DEF OpenFile
  <1>18. Len(<<>>) <= Len(c.contents) /\ \A i \in 1..Len(<<>>) : FALSE BY <1>16
  <1>19. Writing' BY <1>6, <1>9, <1>10, <1>11, <1>13, <1>14, <1>15, <1>18, Zenon DEF Writing
  <1> QED BY <1>17, <1>19, Zenon

\* A write goes on: what is in the file is what was found and the part written so far.
LEMMA WriteGoesOn ==
    ASSUME Inv, OpenFile(Applier), Writing, WriteChunk(Applier),
           Len(frame[Applier].buf) < Len(frame[Applier].call.contents)
    PROVE  OpenFile(Applier)' /\ Writing'
  <1>1. Applier \in Threads BY Zenon DEF Threads
  <1>2. Types /\ frame[Applier].pc = "io" /\ tree' = tree /\ before' = before
    BY Zenon DEF Inv, WriteChunk, At
  <1>3. data \in Seq(Seq(Chunks)) /\ Len(data) \in Nat /\ WellFormed(tree, Len(data))
    BY <1>2 DEF Types
  <1>4. PICK c, l, i, w, k :
          /\ c = frame[Applier].call /\ l = frame[Applier].full_path /\ i = frame[Applier].fd
          /\ w = frame[Applier].buf /\ k = Base(c)
    BY Zenon
  <1>5. PICK x, v : x = c.contents[Len(w) + 1] /\ v = Longer(w, x) BY Zenon
  <1>6. w \in Seq(Chunks) /\ frame[Applier].size \in Nat BY <1>1, <1>2, <1>4, FrameFields, Zenon
  <1>7. /\ x \in Chunks /\ Goes(Applier, "io", i, frame[Applier].size, v)
        /\ data'[i] = Longer(data[i], x)
        /\ \A j \in 1..Len(data) : j # i => data'[j] = data[j]
    BY <1>1, <1>4, <1>5, WriteFacts, Zenon DEF Longer
  <1>8. i \in 1..Len(data) /\ i # NoFile BY <1>1, <1>2, <1>4, OpenFd DEF NoFile
  <1>9. v \in Seq(Chunks) /\ Len(v) = Len(w) + 1 /\ \A j \in 1..Len(v) : v[j] = IF j = Len(w) + 1 THEN x ELSE w[j]
    BY <1>5, <1>6, <1>7 DEF Longer
  <1>10. /\ frame'[Applier].pc = "io" /\ frame'[Applier].fd = i /\ frame'[Applier].buf = v
         /\ frame'[Applier].call = c /\ frame'[Applier].full_path = l
    <2>1. i \in Nat /\ "io" \in {"lock", "open", "stat", "io", "return"} BY <1>8
    <2> QED BY <1>1, <1>4, <1>6, <1>7, <1>9, <2>1, GoesFacts
  <1>11. Reachable(tree, l) /\ tree[l].body = i BY <1>4, <1>8, Zenon DEF OpenFile
  <1>12. OpenFile(Applier)' BY <1>2, <1>10, <1>11, Zenon DEF OpenFile
  <1>13. /\ k \in Seq(Chunks) /\ ContentsOf(tree, data) = With(before, l, File(k \o w))
         /\ WalkErr(before, l) = "OK" /\ ~IsDir(before, l)
         /\ \A j \in 1..Len(w) : w[j] = c.contents[j]
    BY <1>2, <1>4, Zenon DEF Writing
  <1>14. ContentsOf(tree', data') = With(before, l, File(k \o v))
    <2>1. PICK n, f, d, e, b, y :
            n \in Nat /\ n = Len(data) /\ f = tree /\ d = data /\ e = data' /\ b = before /\ y = k \o w
      BY <1>3, Zenon
    <2>2. n \in Nat /\ WellFormed(f, n) /\ IsFile(f, l) /\ i = f[l].body
      BY <1>3, <1>11, <2>1, Zenon DEF Reachable
    <2>3. \A j \in 1..n : j # i => e[j] = d[j] BY <1>7, <2>1, Zenon
    <2>4. ContentsOf(f, d) = With(b, l, File(y)) BY <1>13, <2>1, Zenon
    <2>5. d[i] = y /\ ContentsOf(f, e) = With(b, l, File(e[i]))
      <3>1. d[f[l].body] = y BY <2>2, <2>4, FileHas
      <3>2. \A j \in 1..n : j # f[l].body => e[j] = d[j] BY <2>2, <2>3, Zenon
      <3>3. ContentsOf(f, e) = With(ContentsOf(f, d), l, File(e[f[l].body]))
        BY <2>2, <3>2, ContentsSet
      <3>4. With(With(b, l, File(y)), l, File(e[i])) = With(b, l, File(e[i])) BY WithTwice
      <3> QED BY <2>2, <2>4, <3>1, <3>3, <3>4, Zenon
    <2>6. e[i] = Longer(y, x) BY <1>7, <2>1, <2>5, Zenon
    <2>7. k \in Seq(Chunks) /\ w \in Seq(Chunks) /\ x \in Chunks BY <1>6, <1>7, <1>13, Zenon
    <2>8. Longer(k \o w, x) = k \o Longer(w, x) BY <2>7, ConcatAppend
    <2> QED BY <1>2, <1>5, <2>1, <2>5, <2>6, <2>8, Zenon
  <1>15. Base(c)' = k BY <1>2, <1>4, Zenon DEF Base
  <1>16. c \in Commands BY <1>1, <1>2, <1>4, WhoseCall, Zenon DEF WriteChunk, At
  <1>17. Len(v) <= Len(c.contents) /\ \A j \in 1..Len(v) : v[j] = c.contents[j]
    <2>1. c.contents \in Seq(Chunks) BY <1>16, CommandFacts, Zenon
    <2>2. Len(v) <= Len(c.contents) BY <1>4, <1>6, <1>9, <2>1
    <2>3. \A j \in 1..Len(v) : j # Len(w) + 1 => j \in 1..Len(w) BY <1>6, <1>9
    <2>4. \A j \in 1..Len(v) : v[j] = c.contents[j] BY <1>5, <1>9, <1>13, <2>3, Zenon
    <2> QED BY <2>2, <2>4, Zenon
  <1>18. Writing' BY <1>2, <1>10, <1>13, <1>14, <1>15, <1>17, Zenon DEF Writing
  <1> QED BY <1>12, <1>18, Zenon

\* A thread that has no file open, or closes it, and the files are left alone.
LEMMA QuietStep ==
    ASSUME Protected, NEW t \in Threads, frame'[t].fd = NoFile, frame'[t].pc # "io",
           \A u \in Threads \ {t} : frame'[u] = frame[u], UNCHANGED <<tree, data, before>>
    PROVE  Protected'
  <1>1. tree' = tree /\ data' = data /\ before' = before BY Zenon
  <1>2. OpenFile(t)' BY Zenon DEF OpenFile
  <1>3. \A u \in Threads \ {t} : OpenFile(u)' BY <1>1, Zenon DEF Protected, OpenFile
  <1>4. ASSUME NEW r \in Readers PROVE Reading(r)'
    <2>1. CASE r = t BY <2>1, Zenon DEF Reading
    <2>2. CASE r # t
      <3>1. frame'[r] = frame[r] /\ Reading(r) BY <2>2, Zenon DEF Threads, Protected
      <3> QED BY <1>1, <3>1, Zenon DEF Reading
    <2> QED BY <2>1, <2>2, Zenon
  <1>5. Writing'
    <2>1. CASE Applier = t BY <2>1, Zenon DEF Writing
    <2>2. CASE Applier # t
      <3>1. frame'[Applier] = frame[Applier] /\ Writing BY <2>2, Zenon DEF Threads, Protected
      <3> QED BY <1>1, <3>1, Zenon DEF Writing, Base
    <2> QED BY <2>1, <2>2, Zenon
  <1> QED BY <1>2, <1>3, <1>4, <1>5, Zenon DEF Protected

\* A step of a reader that leaves it with a file open.
LEMMA ReaderStep ==
    ASSUME Protected, NEW t \in Readers, OpenFile(t)', Reading(t)',
           \A u \in Threads \ {t} : frame'[u] = frame[u], UNCHANGED <<tree, data, before>>
    PROVE  Protected'
  <1>1. tree' = tree /\ data' = data /\ before' = before BY Zenon
  <1>2. \A u \in Threads \ {t} : OpenFile(u)' BY <1>1, Zenon DEF Protected, OpenFile
  <1>3. ASSUME NEW r \in Readers PROVE Reading(r)'
    <2>1. CASE r # t
      <3>1. frame'[r] = frame[r] /\ Reading(r) BY <2>1, Zenon DEF Threads, Protected
      <3> QED BY <1>1, <3>1, Zenon DEF Reading
    <2> QED BY <2>1, Zenon
  <1>4. Writing'
    <2>1. Applier # t BY StorageConstants, Zenon
    <2>2. frame'[Applier] = frame[Applier] /\ Writing BY <2>1, Zenon DEF Threads, Protected
    <2> QED BY <1>1, <2>2, Zenon DEF Writing, Base
  <1> QED BY <1>2, <1>3, <1>4, Zenon DEF Protected, Threads

\* A step of the applier.
LEMMA ApplierStep ==
    ASSUME Inv, Protected, OpenFile(Applier)', Writing', \A r \in Readers : Undisturbed(r)
    PROVE  Protected'
  <1>1. ASSUME NEW r \in Readers PROVE OpenFile(r)' /\ Reading(r)'
    <2>1. OpenFile(r) /\ Reading(r) BY Zenon DEF Protected, Threads
    <2> QED BY <2>1, ReaderStays, Zenon
  <1>2. \A t \in Threads : OpenFile(t)' BY <1>1, Zenon DEF Threads
  <1> QED BY <1>1, <1>2, Zenon DEF Protected

\* A call that ends leaves the rest as it is.
LEMMA FinishProtected ==
    ASSUME Inv, Protected, NEW t \in Threads, NEW err \in Errors, NEW bytes \in Seq(Chunks),
           Finish(t, err, bytes), UNCHANGED <<tree, data, before>>
    PROVE  Protected'
  <1>1. Types /\ frame[t] \in Frames BY Zenon DEF Inv, Types
  <1>2. /\ \A u \in Threads \ {t} : frame'[u] = frame[u]
        /\ frame'[t] = [frame[t] EXCEPT !.pc = "return", !.fd = NoFile,
                                        !.res = [err |-> err, data |-> bytes]]
    BY <1>1, FinishFacts, Zenon
  <1>3. frame'[t].fd = NoFile /\ frame'[t].pc = "return" BY <1>1, <1>2, Zenon DEF Frames
  <1>4. frame'[t].pc # "io" BY <1>3, Zenon
  <1> QED BY <1>2, <1>3, <1>4, QuietStep, Zenon

\* read_file's own steps.
LEMMA ReadingProtected ==
    ASSUME Inv, Protected, NEW t \in Threads, OpenForReading(t) \/ StatFile(t) \/ ReadChunk(t)
    PROVE  Protected'
  <1>1. Types /\ InFrame(t) BY Zenon DEF Inv
  <1>2. frame[t].pc \in {"open", "stat", "io"} /\ frame[t].call.type = "READ_FILE" /\ UNCHANGED <<tree, data, before>>
    BY Zenon DEF OpenForReading, StatFile, ReadChunk, At
  <1>3. t \in Readers BY <1>2, WhoseCall, Zenon
  <1>4. data \in Seq(Seq(Chunks)) /\ Len(data) \in Nat /\ WellFormed(tree, Len(data))
    BY <1>1 DEF Types
  <1>5. PICK l : l = frame[t].full_path BY Zenon
  <1>6. frame[t].fd \in Nat /\ frame[t].size \in Nat /\ frame[t].buf \in Seq(Chunks)
    BY <1>1, FrameFields, Zenon
  <1>7. tree' = tree /\ data' = data BY <1>2, Zenon
  <1>8. <<>> \in Seq(Chunks) /\ "IoError" \in Errors /\ "Ok" \in Errors BY DEF Errors
  <1>9. ASSUME NEW p \in {"stat", "io"}, NEW i \in Nat, NEW k \in Nat, NEW b \in Seq(Chunks), Goes(t, p, i, k, b),
                Reachable(tree, l), tree[l].body = i,
                p = "io" => /\ k = Len(data[i]) /\ Len(b) <= k
                            /\ \A j \in 1..Len(b) : b[j] = data[i][j]
         PROVE  Protected'
    <2>1. p \in {"lock", "open", "stat", "io", "return"} BY <1>9, Zenon
    <2>2. /\ \A u \in Threads \ {t} : frame'[u] = frame[u]
          /\ frame'[t].pc = p /\ frame'[t].fd = i /\ frame'[t].size = k /\ frame'[t].buf = b
          /\ frame'[t].full_path = frame[t].full_path
      <3>1. Goes(t, p, i, k, b) BY <1>9, Zenon
      <3> QED BY <2>1, <3>1, GoesFacts
    <2>3. OpenFile(t)' BY <1>5, <1>7, <1>9, <2>2, Zenon DEF OpenFile
    <2>4. Reading(t)' BY <1>7, <1>9, <2>2, Zenon DEF Reading
    <2> QED BY <1>2, <1>3, <2>2, <2>3, <2>4, ReaderStep, Zenon
  <1>10. frame[t].pc \in {"stat", "io"} => Reachable(tree, l) /\ tree[l].body = frame[t].fd
    BY <1>1, <1>5, Zenon DEF Protected, OpenFile, InFrame
  <1>11. CASE OpenForReading(t)
    <2>1. PICK sys : sys = sys_open_read(tree, l) BY Zenon
    <2>2. CASE sys.err = "OK"
      <3>1. l \in DOMAIN tree /\ ~IsDir(tree, l) /\ WalkErr(tree, l) = "OK"
        BY <2>1, <2>2, OpenReadFacts, Zenon DEF Exists
      <3>2. Reachable(tree, l) /\ tree[l].body \in 1..Len(data)
        BY <1>4, <3>1, EntryFacts, Zenon DEF Reachable
      <3>3. frame' = [frame EXCEPT ![t].pc = "stat", ![t].fd = tree[l].body]
        BY <1>5, <1>11, <2>1, <2>2, Zenon DEF OpenForReading
      <3>4. Goes(t, "stat", tree[l].body, frame[t].size, frame[t].buf) BY <3>3, GoesForms, Zenon
      <3>5. "stat" \in {"stat", "io"} /\ "stat" # "io" /\ tree[l].body \in Nat BY <3>2
      <3> QED BY <1>6, <1>9, <3>1, <3>2, <3>4, <3>5, Zenon
    <2>3. CASE sys.err # "OK"
      <3>1. Finish(t, from_errno(sys.err), <<>>)
        BY <1>5, <1>11, <2>1, <2>3, Zenon DEF OpenForReading
      <3>2. from_errno(sys.err) \in Errors BY OutcomeFacts, Zenon
      <3> QED BY <1>2, <1>8, <3>1, <3>2, FinishProtected, Zenon
    <2> QED BY <2>2, <2>3, Zenon
  <1>12. CASE StatFile(t)
    <2>1. frame[t].pc = "stat" BY <1>12, Zenon DEF StatFile, At
    <2>2. PICK k : k = Len(data[frame[t].fd]) BY Zenon
    <2>3. data[frame[t].fd] \in Seq(Chunks) BY <2>1, OpenFd, Zenon
    <2>4. CASE k > MaxFileSize
      <3>1. Finish(t, "IoError", <<>>) BY <1>12, <2>2, <2>4, Zenon DEF StatFile
      <3> QED BY <1>2, <1>8, <3>1, FinishProtected, Zenon
    <2>5. CASE ~(k > MaxFileSize)
      <3>1. frame' = [frame EXCEPT ![t].pc = "io", ![t].size = k]
        BY <1>12, <2>2, <2>5, Zenon DEF StatFile
      <3>2. Goes(t, "io", frame[t].fd, k, frame[t].buf) BY <3>1, GoesForms, Zenon
      <3>3. frame[t].buf = <<>> BY <1>1, <2>1, Zenon DEF InFrame
      <3>4. Len(frame[t].buf) <= k /\ k \in Nat BY <2>2, <2>3, <3>3
      <3>5. \A j \in 1..Len(frame[t].buf) : frame[t].buf[j] = data[frame[t].fd][j] BY <3>3
      <3>6. "io" \in {"stat", "io"} BY Zenon
      <3> QED BY <1>6, <1>9, <1>10, <2>1, <2>2, <3>2, <3>4, <3>5, <3>6, Zenon
    <2> QED BY <2>4, <2>5, Zenon
  <1>13. CASE ReadChunk(t)
    <2>1. frame[t].pc = "io" BY <1>13, Zenon DEF ReadChunk, At
    <2>2. PICK body, w : body = data[frame[t].fd] /\ w = frame[t].buf BY Zenon
    <2>3. body \in Seq(Chunks) BY <2>1, <2>2, OpenFd, Zenon
    <2>4. Reading(t) BY <1>3, Zenon DEF Protected
    <2>5. frame[t].size = Len(body) /\ \A j \in 1..Len(w) : w[j] = body[j]
      BY <2>1, <2>2, <2>4, Zenon DEF Reading
    <2>6. CASE Len(w) < frame[t].size /\ Len(w) < Len(body)
      <3>1. PICK b : b = Append(w, body[Len(w) + 1]) BY Zenon
      <3>2. b \in Seq(Chunks) /\ Goes(t, "io", frame[t].fd, frame[t].size, b)
        BY <1>13, <2>2, <2>6, <3>1, ReadFacts, Zenon
      <3>3. body[Len(w) + 1] \in Chunks BY <1>6, <2>2, <2>3, <2>6
      <3>4. Len(b) <= frame[t].size BY <1>6, <2>2, <2>3, <2>5, <2>6, <3>1, <3>3
      <3>5. \A j \in 1..Len(b) : b[j] = body[j] BY <1>6, <2>2, <2>3, <2>5, <2>6, <3>1, <3>3
      <3>6. "io" \in {"stat", "io"} BY Zenon
      <3> QED BY <1>6, <1>9, <1>10, <2>1, <2>2, <2>5, <3>2, <3>4, <3>5, <3>6, Zenon
    <2>7. CASE ~(Len(w) < frame[t].size /\ Len(w) < Len(body))
      <3>1. Finish(t, "Ok", frame[t].buf) BY <1>13, <2>2, <2>7, Zenon DEF ReadChunk
      <3> QED BY <1>2, <1>6, <1>8, <3>1, FinishProtected, Zenon
    <2> QED BY <2>6, <2>7, Zenon
  <1> QED BY <1>11, <1>12, <1>13, Zenon

\* The commands.
LEMMA ApplierProtected ==
    ASSUME Inv, LockFacts, PathsApart, Protected,
           \/ ChangeTree(Applier) \/ CreateFile(Applier) \/ OpenForWriting(Applier) \/ WriteChunk(Applier)
    PROVE  Protected'
  <1>1. Applier \in Threads BY Zenon DEF Threads
  <1>2. OpenFile(Applier) /\ Writing /\ Types /\ frame[Applier] \in Frames
    BY <1>1, Zenon DEF Protected, Inv, Types
  <1>3. ASSUME NEW r \in Readers PROVE Undisturbed(r)
    <2>1. OpenFile(r) BY Zenon DEF Protected, Threads
    <2> QED BY <1>2, <2>1, ReadersUndisturbed, Zenon
  <1>4. <<>> \in Seq(Chunks) OBVIOUS
  <1>5. ASSUME NEW err \in Errors, Finish(Applier, err, <<>>) PROVE OpenFile(Applier)' /\ Writing'
    <2>1. frame'[Applier] = [frame[Applier] EXCEPT !.pc = "return", !.fd = NoFile,
                                                   !.res = [err |-> err, data |-> <<>>]]
      BY <1>1, <1>2, <1>4, <1>5, FinishFacts, Zenon
    <2>2. frame'[Applier].fd = NoFile /\ frame'[Applier].pc = "return"
      BY <1>2, <2>1, Zenon DEF Frames
    <2> QED BY <2>2, Zenon DEF OpenFile, Writing
  <1>6. OpenFile(Applier)' /\ Writing'
    <2>1. CASE ChangeTree(Applier)
      <3>1. Finish(Applier, TreeCall(Applier).err, <<>>) BY <2>1, Zenon DEF ChangeTree
      <3>2. TreeCall(Applier).err \in Errors BY <1>1, <2>1, TreeCallFacts, Zenon DEF ChangeTree
      <3> QED BY <1>5, <3>1, <3>2, Zenon
    <2>2. CASE CreateFile(Applier)
      <3>1. PICK err : err = Outcome(sys_open_excl(tree, frame[Applier].full_path, NewInode), {"EEXIST"}).err
        BY Zenon
      <3>2. Finish(Applier, err, <<>>) /\ err \in Errors
        BY <2>2, <3>1, OutcomeFacts, Zenon DEF CreateFile
      <3> QED BY <1>5, <3>2, Zenon
    <2>3. CASE OpenForWriting(Applier)
      <3>1. PICK l : l = frame[Applier].full_path BY Zenon
      <3>2. CASE WalkErr(tree, l) = "OK" /\ ~IsDir(tree, l) BY <2>3, <3>1, <3>2, WriteBegins, Zenon
      <3>3. CASE ~(WalkErr(tree, l) = "OK" /\ ~IsDir(tree, l))
        <4>1. PICK sys : sys = sys_open_creat(tree, l, NewInode) BY Zenon
        <4>2. sys.err # "OK" BY <3>3, <4>1, OpenCreatFacts, Zenon
        <4>3. Finish(Applier, from_errno(sys.err), <<>>)
          BY <2>3, <3>1, <4>1, <4>2, Zenon DEF OpenForWriting
        <4>4. from_errno(sys.err) \in Errors BY OutcomeFacts, Zenon
        <4> QED BY <1>5, <4>3, <4>4, Zenon
      <3> QED BY <3>2, <3>3, Zenon
    <2>4. CASE WriteChunk(Applier)
      <3>1. CASE Len(frame[Applier].buf) < Len(frame[Applier].call.contents)
        BY <1>2, <2>4, <3>1, WriteGoesOn, Zenon
      <3>2. CASE ~(Len(frame[Applier].buf) < Len(frame[Applier].call.contents))
        <4>1. Finish(Applier, "Ok", <<>>) /\ "Ok" \in Errors
          BY <2>4, <3>2, Zenon DEF WriteChunk, Errors
        <4> QED BY <1>5, <4>1, Zenon
      <3> QED BY <3>1, <3>2, Zenon
    <2> QED BY <2>1, <2>2, <2>3, <2>4, Zenon
  <1> QED BY <1>3, <1>6, ApplierStep, Zenon

\* Every step keeps Protected.
LEMMA ProtectedStep ==
    ASSUME Inv, LockFacts, PathsApart, Protected, [Next]_vars
    PROVE  Protected'
  <1>1. frame \in [Threads -> Frames] /\ <<>> \in Seq(Chunks) BY DEF Inv, Types
  <1>2. ASSUME UNCHANGED <<frame, tree, data, before>> PROVE Protected'
    BY <1>2, Zenon DEF Protected, OpenFile, Reading, Writing, Base
  <1>3. ASSUME NEW t \in Threads, NEW c \in Calls(t), Invoke(t, c) PROVE Protected'
    <2>1. /\ \A u \in Threads \ {t} : frame'[u] = frame[u]
          /\ frame'[t].fd = NoFile /\ frame'[t].pc \in {"reject", "open", "lock"}
      BY <1>3, InvokeFacts, Zenon
    <2>2. frame'[t].pc # "io" /\ UNCHANGED <<tree, data, before>> BY <1>3, <2>1, Zenon DEF Invoke
    <2> QED BY <2>1, <2>2, QuietStep, Zenon
  <1>4. ASSUME NEW t \in Threads, Reject(t) PROVE Protected'
    <2>1. Finish(t, "InvalidPath", <<>>) /\ UNCHANGED <<tree, data, before>> /\ "InvalidPath" \in Errors
      BY <1>4, Zenon DEF Reject, Errors
    <2> QED BY <1>1, <2>1, FinishProtected, Zenon
  <1>5. ASSUME NEW t \in Threads, Fault(t) PROVE Protected'
    <2>1. Finish(t, "IoError", <<>>) /\ UNCHANGED <<tree, data, before>> /\ "IoError" \in Errors
      BY <1>5, Zenon DEF Fault, Errors
    <2> QED BY <1>1, <2>1, FinishProtected, Zenon
  <1>6. ASSUME NEW t \in Threads, Lock(t) PROVE Protected'
    <2>1. PICK p \in {"lock", "open"} : p = IF pos'[t] = Len(script[t]) THEN "open" ELSE "lock"
      BY Zenon
    <2>2. frame' = [frame EXCEPT ![t].pc = p] /\ UNCHANGED <<tree, data, before>> /\ frame[t].pc = "lock"
      BY <1>6, <2>1, Zenon DEF Lock
    <2>3. frame[t] \in Frames BY <1>1, Zenon
    <2>4. /\ frame'[t].pc = p /\ frame'[t].fd = frame[t].fd
          /\ \A u \in Threads \ {t} : frame'[u] = frame[u]
      BY <1>1, <2>2, <2>3, Zenon DEF Frames
    <2>5. frame[t].fd = NoFile BY <2>2, Zenon DEF Inv, InFrame
    <2>6. frame'[t].pc # "io" BY <2>4, Zenon
    <2> QED BY <2>2, <2>4, <2>5, <2>6, QuietStep, Zenon
  <1>7. ASSUME NEW t \in Threads, Return(t) PROVE Protected'
    <2>1. frame' = [frame EXCEPT ![t] = Idle] /\ UNCHANGED <<tree, data, before>>
      BY <1>7, Zenon DEF Return
    <2>2. frame'[t].fd = NoFile /\ frame'[t].pc # "io" /\ \A u \in Threads \ {t} : frame'[u] = frame[u]
      BY <1>1, <2>1, Zenon DEF Idle
    <2> QED BY <2>1, <2>2, QuietStep, Zenon
  <1>8. ASSUME NEW t \in Threads,
               ChangeTree(t) \/ CreateFile(t) \/ OpenForWriting(t) \/ WriteChunk(t)
        PROVE  Protected'
    <2>1. frame[t].pc # "idle" /\ frame[t].call.type # "READ_FILE"
      BY <1>8, Zenon DEF ChangeTree, CreateFile, OpenForWriting, WriteChunk, At
    <2>2. t = Applier BY <2>1, WhoseCall, Zenon
    <2> QED BY <1>8, <2>2, ApplierProtected, Zenon
  <1>9. ASSUME NEW t \in Threads, Unlock(t) PROVE Protected' BY <1>2, <1>9, Zenon DEF Unlock
  <1>10. ASSUME NEW t \in Threads, Step(t) PROVE Protected'
    BY <1>4, <1>6, <1>7, <1>8, <1>9, <1>10, ReadingProtected, Zenon DEF Step
  <1>11. ASSUME NEW t \in Threads, SpuriousWakeup(t) PROVE Protected'
    BY <1>2, <1>11, Zenon DEF SpuriousWakeup
  <1>12. CASE UNCHANGED vars BY <1>2, <1>12, Zenon DEF vars
  <1> QED BY <1>3, <1>5, <1>10, <1>11, <1>12, Zenon DEF Next

\* At first nothing is open.
LEMMA ProtectedInit == Init => Protected
  BY DEF Init, Protected, OpenFile, Reading, Writing, Idle, NoFile, Threads

\* While the locks protect the files, the writer is alone with its own.
LEMMA ProtectedAlone ==
    ASSUME Inv, LockFacts, PathsApart, Protected
    PROVE  WriterAlone
  <1>1. OpenFile(Applier) /\ \A r \in Readers : OpenFile(r) BY Zenon DEF Protected, Threads
  <1>2. ASSUME NEW r \in Readers, frame[Applier].fd # NoFile PROVE frame[r].fd # frame[Applier].fd
    <2>1. CASE frame[r].fd = NoFile BY <1>2, <2>1, Zenon
    <2>2. CASE frame[r].fd # NoFile BY <1>1, <1>2, <2>2, InodesApart, Zenon
    <2> QED BY <2>1, <2>2, Zenon
  <1> QED BY <1>2, Zenon DEF WriterAlone
=============================================================================
