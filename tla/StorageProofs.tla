---------------------------- MODULE StorageProofs ----------------------------
(***************************************************************************)
(* That the calls of Storage are atomic, and the theorems about Storage.   *)
(***************************************************************************)
EXTENDS StorageProtectedProofs, StorageRefinement

-----------------------------------------------------------------------------
\* AtomicStorage speaks of the same threads and calls.
LEMMA SameCalls ==
    /\ Atomic!NoCall = NoCall /\ Atomic!NoResult = NoResult /\ Atomic!Threads = Threads
    /\ \A t : Atomic!Calls(t) = Calls(t)
  BY Zenon DEF Atomic!NoCall, NoCall, Atomic!NoResult, NoResult, Atomic!Threads, Threads,
               Atomic!Calls, Calls

\* A step that shows nobody anything.
LEMMA Unseen ==
    ASSUME FilesSeen' = FilesSeen,
           \A u \in Threads : frame'[u].call = frame[u].call /\ frame'[u].res = frame[u].res
    PROVE  UNCHANGED Atomic!vars
  <1>1. CallsMade' = CallsMade BY Zenon DEF CallsMade
  <1>2. Results' = Results BY Zenon DEF Results
  <1> QED BY <1>1, <1>2, Zenon DEF Atomic!vars

\* A call that ends has its answer.
LEMMA Answers ==
    ASSUME Inv, NEW t \in Threads, frame[t].pc \in {"reject", "open", "stat", "io"},
           NEW err \in Errors, NEW bytes \in Seq(Chunks), Finish(t, err, bytes)
    PROVE  /\ Atomic!Answer(t, [err |-> err, data |-> bytes])
           /\ t = Applier => frame'[Applier].fd = NoFile
           /\ t # Applier => frame'[Applier] = frame[Applier]
  <1>1. Types /\ InFrame(t) /\ frame \in [Threads -> Frames] BY Zenon DEF Inv, Types
  <1>2. PICK r : r = [err |-> err, data |-> bytes] BY Zenon
  <1>3. /\ \A u \in Threads \ {t} : frame'[u] = frame[u]
        /\ frame'[t] = [frame[t] EXCEPT !.pc = "return", !.fd = NoFile, !.res = r]
    <2>1. /\ \A u \in Threads \ {t} : frame'[u] = frame[u]
          /\ frame'[t] = [frame[t] EXCEPT !.pc = "return", !.fd = NoFile,
                                          !.res = [err |-> err, data |-> bytes]]
      BY <1>1, FinishFacts, Zenon
    <2> QED BY <1>2, <2>1, Zenon
  <1>4. frame[t] \in Frames BY <1>1, Zenon
  <1>5. frame'[t].fd = NoFile /\ frame'[t].res = r /\ frame'[t].call = frame[t].call
    BY <1>3, <1>4 DEF Frames
  <1>6. frame[t].call # NoCall /\ frame[t].res = NoResult BY <1>1 DEF InFrame
  <1>7. Atomic!Pending(t) BY <1>6, SameCalls, Zenon DEF Atomic!Pending, CallsMade, Results
  <1>8. CallsMade' = CallsMade BY <1>3, <1>5, Zenon DEF CallsMade
  <1>9. Results' = [Results EXCEPT ![t] = r] BY <1>3, <1>5, Zenon DEF Results
  <1>10. Atomic!Answer(t, r) BY <1>7, <1>8, <1>9, Zenon DEF Atomic!Answer
  <1>11. Applier \in Threads BY Zenon DEF Threads
  <1> QED BY <1>2, <1>3, <1>5, <1>10, <1>11, Zenon

\* A command that ends having done to the files what apply_command says.
LEMMA Performs ==
    ASSUME Inv, frame[Applier].pc \in {"reject", "open", "stat", "io"}, NEW err \in Errors,
           Finish(Applier, err, <<>>), NEW c, c = frame[Applier].call,
           apply_command(FilesSeen, c) = [err |-> err, tree |-> ContentsOf(tree', data')]
    PROVE  Atomic!Perform
  <1>1. Applier \in Threads /\ <<>> \in Seq(Chunks) BY DEF Threads
  <1>2. Atomic!Answer(Applier, [err |-> err, data |-> <<>>]) /\ frame'[Applier].fd = NoFile
    BY <1>1, Answers, Zenon
  <1>3. FilesSeen' = ContentsOf(tree', data') BY <1>2, Zenon DEF FilesSeen
  <1>4. CallsMade[Applier] = c BY <1>1, Zenon DEF CallsMade
  <1>5. PICK a : a = apply_command(FilesSeen, c) BY Zenon
  <1>6. a.err = err /\ a.tree = ContentsOf(tree', data') BY <1>5
  <1>7. Atomic!Answer(Applier, Atomic!Result(a.err)) BY <1>2, <1>6, Zenon DEF Atomic!Result
  <1> QED BY <1>3, <1>4, <1>5, <1>6, <1>7, Zenon DEF Atomic!Perform

\* A read that ends with what read_file says.
LEMMA Reads ==
    ASSUME Inv, NEW t \in Readers, frame[t].pc \in {"reject", "open", "stat", "io"},
           NEW err \in Errors, NEW bytes \in Seq(Chunks), Finish(t, err, bytes),
           UNCHANGED <<tree, data, before>>,
           read_file(FilesSeen, frame[t].call.path) = [err |-> err, data |-> bytes]
    PROVE  Atomic!ReadFile(t)
  <1>1. t \in Threads /\ t # Applier BY StorageConstants, Zenon DEF Threads
  <1>2. Atomic!Answer(t, [err |-> err, data |-> bytes]) /\ frame'[Applier] = frame[Applier]
    BY <1>1, Answers, Zenon
  <1>3. FilesSeen' = FilesSeen BY <1>2, Zenon DEF FilesSeen
  <1>4. CallsMade[t] = frame[t].call BY <1>1, Zenon DEF CallsMade
  <1> QED BY <1>2, <1>3, <1>4, Zenon DEF Atomic!ReadFile

\* The command with w for its contents.
Putting(c, w) == [c EXCEPT !.contents = w]

\* What is on disk in the middle of a write is what a write of that part leaves.
LEMMA PartWritten ==
    ASSUME Inv, Writing, frame[Applier].pc = "io", NEW c, c = frame[Applier].call,
           NEW w, w = frame[Applier].buf
    PROVE  /\ c \in Commands /\ c.type \in {"WRITE_FILE", "APPEND_FILE"} /\ w \in Seq(Chunks)
           /\ apply_command(before, Putting(c, w))
                = [err |-> "Ok", tree |-> ContentsOf(tree, data)]
  <1>1. Applier \in Threads /\ Applier \notin Readers BY StorageConstants, Zenon DEF Threads
  <1>2. Types /\ InFrame(Applier) BY <1>1, Zenon DEF Inv
  <1>3. c \in Commands /\ c.type \in {"WRITE_FILE", "APPEND_FILE"}
    <2>1. frame[Applier].pc # "idle" /\ c.type \in {"READ_FILE", "WRITE_FILE", "APPEND_FILE"}
      BY <1>2, Zenon DEF InFrame
    <2> QED BY <1>1, <2>1, WhoseCall, Zenon
  <1>4. PICK l, p : l = frame[Applier].full_path /\ p = c.path BY Zenon
  <1>5. l = Location(p) /\ Valid(p)
    BY <1>1, <1>4, BodyFacts, Zenon DEF Accepted
  <1>6. /\ WalkErr(before, l) = "OK" /\ ~IsDir(before, l) /\ Base(c) \in Seq(Chunks)
        /\ ContentsOf(tree, data) = With(before, l, File(Base(c) \o w))
    BY <1>4, Zenon DEF Writing
  <1>7. w \in Seq(Chunks) BY <1>1, <1>2, FrameFields, Zenon
  <1>8. PICK e : e = Putting(c, w) BY Zenon
  <1>9. e.type = c.type /\ e.path = p /\ e.contents = w
    <2>1. c \in [type : CommandTypes, path : {c.path}, new_path : {c.new_path},
                 contents : Seq(Range(c.contents))]
      BY <1>3, StorageConstants, Zenon
    <2> QED BY <1>4, <1>8, <2>1 DEF Putting
  <1>10. apply_command(before, e) = Stored(before, p, Base(c) \o w)
    <2>1. CASE c.type = "WRITE_FILE"
      <3>1. Base(c) = <<>> BY <2>1, Zenon DEF Base
      <3>2. <<>> \o w = w BY <1>7, EmptyConcat, Zenon
      <3>3. apply_command(before, e) = write_file(before, p, w) BY <1>9, <2>1 DEF apply_command
      <3> QED BY <1>5, <3>1, <3>2, <3>3, Zenon DEF write_file
    <2>2. CASE c.type = "APPEND_FILE"
      <3>1. Base(c) = Found(before, p) BY <1>4, <2>2, Zenon DEF Base
      <3>2. apply_command(before, e) = append_file(before, p, w) BY <1>9, <2>2 DEF apply_command
      <3> QED BY <1>5, <3>1, <3>2, Zenon DEF append_file
    <2> QED BY <1>3, <2>1, <2>2, Zenon
  <1>11. Stored(before, p, Base(c) \o w) = [err |-> "Ok", tree |-> With(before, l, File(Base(c) \o w))]
    BY <1>5, <1>6, StoredFacts
  <1> QED BY <1>3, <1>6, <1>7, <1>8, <1>10, <1>11, Zenon

\* A call that the disk makes fail leaves nothing, or a part of its contents.
LEMMA Fails ==
    ASSUME Inv, Writing, NEW t \in Threads, frame[t].pc \in {"open", "stat", "io"},
           Finish(t, "IoError", <<>>), UNCHANGED <<tree, data, before>>
    PROVE  Atomic!Fail(t)
  <1>1. "IoError" \in Errors /\ <<>> \in Seq(Chunks) BY DEF Errors
  <1>2. /\ Atomic!Answer(t, [err |-> "IoError", data |-> <<>>])
        /\ t = Applier => frame'[Applier].fd = NoFile
        /\ t # Applier => frame'[Applier] = frame[Applier]
    BY <1>1, Answers, Zenon
  <1>3. Atomic!Answer(t, Atomic!Result("IoError")) BY <1>2, Zenon DEF Atomic!Result
  <1>4. CASE t # Applier \/ frame[Applier].fd = NoFile
    <2>1. FilesSeen' = FilesSeen BY <1>2, <1>4, Zenon DEF FilesSeen
    <2> QED BY <1>3, <2>1, Zenon DEF Atomic!Fail
  <1>5. CASE t = Applier /\ frame[Applier].fd # NoFile
    <2>1. FilesSeen = before /\ FilesSeen' = ContentsOf(tree, data)
      BY <1>2, <1>5, Zenon DEF FilesSeen
    <2>2. PICK c, w, k : c = frame[Applier].call /\ w = frame[Applier].buf /\ k = Len(w) BY Zenon
    <2>3. frame[Applier].pc = "io"
      <3>1. InFrame(Applier) /\ Applier \notin Readers BY <1>5, StorageConstants, Zenon DEF Inv
      <3>2. frame[Applier].pc \in {"stat", "io"} BY <1>5, <3>1, Zenon DEF InFrame
      <3>3. frame[Applier].pc # "stat" BY <1>5, <3>1, WhoseCall, Zenon DEF InFrame
      <3> QED BY <3>2, <3>3, Zenon
    <2>4. /\ c \in Commands /\ c.type \in {"WRITE_FILE", "APPEND_FILE"} /\ w \in Seq(Chunks)
          /\ apply_command(before, Putting(c, w))
               = [err |-> "Ok", tree |-> ContentsOf(tree, data)]
      BY <2>2, <2>3, PartWritten, Zenon
    <2>5. c.contents \in Seq(Chunks) BY <2>4, CommandFacts, Zenon
    <2>6. Len(w) <= Len(c.contents) /\ \A i \in 1..Len(w) : w[i] = c.contents[i]
      BY <2>2, <2>3, Zenon DEF Writing
    <2>7. k \in 0..Len(c.contents) /\ SubSeq(c.contents, 1, k) = w
      BY <2>2, <2>4, <2>5, <2>6, Beginning
    <2>8. CallsMade[t] = c BY <1>5, <2>2, Zenon DEF CallsMade
    <2>9. FilesSeen' = apply_command(FilesSeen, Putting(c, SubSeq(c.contents, 1, k))).tree
      <3>1. PICK g, a : g = ContentsOf(tree, data) /\ a = apply_command(before, Putting(c, w))
        BY Zenon
      <3>2. a = [err |-> "Ok", tree |-> g] BY <2>4, <3>1, Zenon
      <3>3. a.tree = g BY <3>2
      <3> QED BY <2>1, <2>7, <3>1, <3>3, Zenon
    <2> QED BY <1>3, <2>4, <2>7, <2>8, <2>9, Zenon DEF Atomic!Fail, Putting
  <1> QED BY <1>4, <1>5, Zenon

\* A call that goes on has not been answered.
LEMMA GoesOn ==
    ASSUME Inv, NEW t \in Threads, NEW p \in {"lock", "open", "stat", "io", "return"},
           NEW i \in Nat, NEW k \in Nat, NEW b \in Seq(Chunks), Goes(t, p, i, k, b),
           t = Applier => FilesSeen' = FilesSeen,
           t # Applier => UNCHANGED <<tree, data, before>>
    PROVE  UNCHANGED Atomic!vars
  <1>1. /\ \A u \in Threads \ {t} : frame'[u] = frame[u]
        /\ frame'[t].call = frame[t].call /\ frame'[t].res = frame[t].res
    BY GoesFacts, Zenon
  <1>2. \A u \in Threads : frame'[u].call = frame[u].call /\ frame'[u].res = frame[u].res
    BY <1>1, Zenon
  <1>3. ASSUME t # Applier PROVE FilesSeen' = FilesSeen
    <2>1. frame'[Applier] = frame[Applier] BY <1>1, <1>3, Zenon DEF Threads
    <2> QED BY <1>3, <2>1, Zenon DEF FilesSeen
  <1> QED BY <1>2, <1>3, Unseen, Zenon

\* The commands that are one system call.
LEMMA TreeAtomic ==
    ASSUME Inv, ChangeTree(Applier) \/ CreateFile(Applier)
    PROVE  Atomic!Perform
  <1>1. Applier \in Threads BY Zenon DEF Threads
  <1>2. frame[Applier].pc = "open" BY Zenon DEF ChangeTree, CreateFile, At
  <1>3. FilesSeen = ContentsOf(tree, data) BY <1>1, <1>2, Zenon DEF Inv, InFrame, FilesSeen
  <1>4. PICK c : c = frame[Applier].call BY Zenon
  <1>5. CASE ChangeTree(Applier)
    <2>1. PICK sys : sys = TreeCall(Applier) BY Zenon
    <2>2. tree' = sys.tree /\ data' = data /\ Finish(Applier, sys.err, <<>>)
      BY <1>5, <2>1, Zenon DEF ChangeTree
    <2>3. sys.err \in Errors /\ apply_command(ContentsOf(tree, data), c) = Seen(sys, data)
      BY <1>1, <1>4, <1>5, <2>1, TreeCallFacts, Zenon DEF ChangeTree
    <2>4. Seen(sys, data) = [err |-> sys.err, tree |-> ContentsOf(tree', data')]
      BY <2>2, Zenon DEF Seen
    <2> QED BY <1>2, <1>3, <1>4, <2>2, <2>3, <2>4, Performs, Zenon
  <1>6. CASE CreateFile(Applier)
    <2>1. PICK err : err = Outcome(sys_open_excl(tree, frame[Applier].full_path, NewInode), {"EEXIST"}).err
      BY Zenon
    <2>2. Finish(Applier, err, <<>>) /\ err \in Errors
      BY <1>6, <2>1, OutcomeFacts, Zenon DEF CreateFile
    <2>3. apply_command(ContentsOf(tree, data), c) = [err |-> err, tree |-> ContentsOf(tree', data')]
      BY <1>1, <1>4, <1>6, <2>1, CreateFacts, Zenon
    <2> QED BY <1>2, <1>3, <1>4, <2>2, <2>3, Performs, Zenon
  <1> QED BY <1>5, <1>6, Zenon

\* write_file and append_file that cannot open their file.
LEMMA OpenFails ==
    ASSUME Inv, OpenForWriting(Applier), NEW l, l = frame[Applier].full_path, NEW c,
           c = frame[Applier].call, NEW sys, sys = sys_open_creat(tree, l, NewInode), sys.err # "OK"
    PROVE  Atomic!Perform
  <1>1. Applier \in Threads BY Zenon DEF Threads
  <1>2. frame[Applier].pc = "open" /\ c.type \in {"WRITE_FILE", "APPEND_FILE"}
    BY Zenon DEF OpenForWriting, At
  <1>3. PICK g : g = ContentsOf(tree, data) BY Zenon
  <1>4. FilesSeen = g BY <1>1, <1>2, <1>3, Zenon DEF Inv, InFrame, FilesSeen
  <1>5. Finish(Applier, from_errno(sys.err), <<>>) /\ tree' = sys.tree /\ data' = data
    BY Zenon DEF OpenForWriting
  <1>6. sys.tree = tree BY OpenCreatFacts, Zenon
  <1>7. sys_open_creat(g, l, <<>>).err = sys.err
    <2>1. Types BY Zenon DEF Inv
    <2>2. Len(data) \in Nat /\ WellFormed(tree, Len(data)) BY <2>1 DEF Types
    <2>3. DOMAIN g = DOMAIN tree /\ \A m \in DOMAIN tree : tree[m].kind = g[m].kind
      BY <1>3, <2>2, ContentsShape, Zenon
    <2>4. /\ WalkErr(tree, l) = WalkErr(g, l) /\ (Exists(tree, l) <=> Exists(g, l))
          /\ (IsDir(tree, l) <=> IsDir(g, l))
      BY <2>3, ShapeFacts, Zenon
    <2>5. PICK x, y : x = NewInode /\ y = <<>> BY Zenon
    <2>6. sys_open_creat(tree, l, x).err = sys_open_creat(g, l, y).err BY <2>4, OpenErr
    <2> QED BY <2>5, <2>6, Zenon
  <1>8. PICK p : p = c.path BY Zenon
  <1>9. l = Location(p) /\ Valid(p) BY <1>1, <1>2, <1>8, BodyFacts, Zenon DEF Accepted
  <1>10. PICK x : apply_command(g, c) = Stored(g, p, x)
    <2>1. CASE c.type = "WRITE_FILE"
      <3>1. apply_command(g, c) = write_file(g, p, c.contents) BY <1>8, <2>1 DEF apply_command
      <3> QED BY <1>9, <3>1, Zenon DEF write_file
    <2>2. CASE c.type = "APPEND_FILE"
      <3>1. apply_command(g, c) = append_file(g, p, c.contents) BY <1>8, <2>2 DEF apply_command
      <3> QED BY <1>9, <3>1, Zenon DEF append_file
    <2> QED BY <1>2, <2>1, <2>2, Zenon
  <1>11. PICK err : err = from_errno(sys.err) BY Zenon
  <1>12. Stored(g, p, x) = [err |-> err, tree |-> g]
    <2>1. sys_open_creat(g, l, <<>>).err # "OK" BY <1>7, Zenon
    <2>2. Stored(g, p, x) = [err |-> from_errno(sys_open_creat(g, l, <<>>).err), tree |-> g]
      BY <1>9, <2>1, StoredFacts
    <2> QED BY <1>7, <1>11, <2>2, Zenon
  <1>13. err \in Errors BY <1>11, OutcomeFacts, Zenon
  <1>14. apply_command(FilesSeen, c) = [err |-> err, tree |-> ContentsOf(tree', data')]
    BY <1>3, <1>4, <1>5, <1>6, <1>10, <1>12, Zenon
  <1> QED BY <1>2, <1>5, <1>11, <1>13, <1>14, Performs, Zenon

\* write_file and append_file: their effect is there when the loop ends, all at once.
LEMMA WriteAtomic ==
    ASSUME Inv, Writing, OpenForWriting(Applier) \/ WriteChunk(Applier)
    PROVE  Atomic!Perform \/ UNCHANGED Atomic!vars
  <1>1. Applier \in Threads BY Zenon DEF Threads
  <1>2. PICK f, l, c : f = frame[Applier] /\ l = f.full_path /\ c = f.call BY Zenon
  <1>3. Types /\ InFrame(Applier) BY <1>1, Zenon DEF Inv
  <1>4. f.fd \in Nat /\ f.size \in Nat /\ f.buf \in Seq(Chunks)
    BY <1>1, <1>2, <1>3, FrameFields, Zenon
  <1>5. CASE OpenForWriting(Applier)
    <2>1. PICK sys : sys = sys_open_creat(tree, l, NewInode) BY Zenon
    <2>2. CASE sys.err # "OK" BY <1>2, <1>5, <2>1, <2>2, OpenFails, Zenon
    <2>3. CASE sys.err = "OK"
      <3>1. WalkErr(tree, l) = "OK" /\ ~IsDir(tree, l) BY <2>1, <2>3, OpenCreatFacts, Zenon
      <3>2. PICK ino : ino = tree'[l].body BY Zenon
      <3>3. /\ frame' = [frame EXCEPT ![Applier].pc = "io", ![Applier].fd = ino]
            /\ before' = ContentsOf(tree, data)
        BY <1>1, <1>2, <1>5, <3>1, <3>2, OpenWriteFacts, Zenon
      <3>4. ino \in 1..Len(data') /\ data' \in Seq(Seq(Chunks))
        BY <1>1, <1>2, <1>5, <3>1, <3>2, OpenWriteInode, Zenon
      <3>5. ino \in Nat /\ ino # NoFile BY <3>4 DEF NoFile
      <3>6. Goes(Applier, "io", ino, f.size, f.buf) BY <1>1, <1>2, <3>3, GoesForms, Zenon
      <3>7. "io" \in {"lock", "open", "stat", "io", "return"} BY Zenon
      <3>8. frame'[Applier].fd = ino BY <1>1, <1>4, <3>5, <3>6, <3>7, GoesFacts
      <3>9. frame[Applier].pc = "open" BY <1>5, Zenon DEF OpenForWriting, At
      <3>10. FilesSeen' = FilesSeen BY <1>3, <3>3, <3>5, <3>8, <3>9, Zenon DEF FilesSeen, InFrame
      <3> QED BY <1>1, <1>4, <3>5, <3>6, <3>7, <3>10, GoesOn, Zenon
    <2> QED BY <2>2, <2>3, Zenon
  <1>6. CASE WriteChunk(Applier)
    <2>1. frame[Applier].pc = "io" /\ before' = before /\ tree' = tree
      BY <1>6, Zenon DEF WriteChunk, At
    <2>2. FilesSeen = before BY <1>3, <2>1, Zenon DEF FilesSeen, InFrame
    <2>3. CASE Len(f.buf) < Len(c.contents)
      <3>1. PICK b, x : x = c.contents[Len(f.buf) + 1] /\ b = Append(f.buf, x) BY Zenon
      <3>2. x \in Chunks /\ Goes(Applier, "io", f.fd, f.size, b)
        BY <1>1, <1>2, <1>6, <2>3, <3>1, WriteFacts, Zenon
      <3>3. b \in Seq(Chunks) BY <1>4, <3>1, <3>2
      <3>4. "io" \in {"lock", "open", "stat", "io", "return"} BY Zenon
      <3>5. frame'[Applier].fd = frame[Applier].fd BY <1>1, <1>2, <1>4, <3>2, <3>3, <3>4, GoesFacts
      <3>6. FilesSeen' = FilesSeen BY <1>3, <2>1, <2>2, <3>5, Zenon DEF FilesSeen, InFrame
      <3> QED BY <1>1, <1>4, <3>2, <3>3, <3>4, <3>6, GoesOn, Zenon
    <2>4. CASE ~(Len(f.buf) < Len(c.contents))
      <3>1. Finish(Applier, "Ok", <<>>) /\ data' = data BY <1>2, <1>6, <2>4, Zenon DEF WriteChunk
      <3>2. PICK w : w = f.buf BY Zenon
      <3>3. /\ c \in Commands /\ w \in Seq(Chunks)
            /\ apply_command(before, Putting(c, w)) = [err |-> "Ok", tree |-> ContentsOf(tree, data)]
        BY <1>2, <2>1, <3>2, PartWritten, Zenon
      <3>4. c.contents \in Seq(Chunks) /\ Putting(c, c.contents) = c
        BY <3>3, CommandFacts, Zenon DEF Putting
      <3>5. Len(w) <= Len(c.contents) /\ \A i \in 1..Len(w) : w[i] = c.contents[i]
        BY <1>2, <2>1, <3>2, Zenon DEF Writing
      <3>6. Len(w) = Len(c.contents) BY <2>4, <3>2, <3>3, <3>4, <3>5
      <3>7. w = c.contents BY <3>3, <3>4, <3>5, <3>6, SameSeq, Zenon
      <3>8. apply_command(FilesSeen, c) = [err |-> "Ok", tree |-> ContentsOf(tree', data')]
        BY <2>1, <2>2, <3>1, <3>3, <3>4, <3>7, Zenon
      <3>9. "Ok" \in Errors BY Zenon DEF Errors
      <3> QED BY <1>2, <2>1, <3>1, <3>8, <3>9, Performs, Zenon
    <2> QED BY <2>3, <2>4, Zenon
  <1> QED BY <1>5, <1>6, Zenon

\* A call with a path that is not accepted.
LEMMA RejectAtomic ==
    ASSUME Inv, NEW t \in Threads, Reject(t)
    PROVE  Atomic!Perform \/ (t \in Readers /\ Atomic!ReadFile(t))
  <1>1. frame[t].pc = "reject" /\ Finish(t, "InvalidPath", <<>>) /\ UNCHANGED <<tree, data, before>>
    BY Zenon DEF Reject
  <1>2. InFrame(t) /\ "InvalidPath" \in Errors /\ <<>> \in Seq(Chunks) BY DEF Inv, Errors
  <1>3. PICK c, g : c = frame[t].call /\ g = ContentsOf(tree, data) BY Zenon
  <1>4. ~Accepted(c) BY <1>1, <1>2, <1>3, Zenon DEF InFrame
  <1>5. frame[t].pc # "idle" BY <1>1, Zenon
  <1>6. CASE t \in Readers
    <2>1. c.type = "READ_FILE" BY <1>3, <1>5, <1>6, WhoseCall, StorageConstants, Zenon
    <2>2. ~Valid(c.path) BY <1>4, <2>1, Zenon DEF Accepted
    <2>3. read_file(FilesSeen, c.path) = [err |-> "InvalidPath", data |-> <<>>]
      BY <2>2, Zenon DEF read_file
    <2> QED BY <1>1, <1>2, <1>3, <1>6, <2>3, Reads, Zenon
  <1>7. CASE t \notin Readers
    <2>1. t = Applier BY <1>7, Zenon DEF Threads
    <2>2. FilesSeen = g BY <1>1, <1>2, <1>3, <2>1, Zenon DEF InFrame, FilesSeen
    <2>3. c \in Commands BY <1>3, <1>5, <1>7, WhoseCall, Zenon
    <2>4. c.type \in CommandTypes BY <2>3, CommandFacts, Zenon
    <2>5. apply_command(g, c) = Rejected(g)
      BY <1>4, <2>4 DEF apply_command, CommandTypes, Accepted, create_file, create_directory, write_file,
                       append_file, rename, delete_file, delete_directory
    <2>6. apply_command(FilesSeen, c) = [err |-> "InvalidPath", tree |-> ContentsOf(tree', data')]
      BY <1>1, <1>3, <2>2, <2>5, Zenon DEF Rejected
    <2> QED BY <1>1, <1>2, <1>3, <2>1, <2>6, Performs, Zenon
  <1> QED BY <1>6, <1>7, Zenon

-----------------------------------------------------------------------------
\* What is known about the order of the natural numbers.
Orders == INSTANCE WellFoundedInduction

\* A set of numbers has a least one.
LEMMA Least ==
    ASSUME NEW T, T \subseteq Nat, T # {}
    PROVE  Min(T) \in T
  <1> DEFINE R == Orders!OpToRel(<, Nat)
  <1>1. Orders!IsWellFoundedOn(R, Nat) BY Orders!NatLessThanWellFounded, Zenon
  <1>2. \A x \in Nat, y \in Nat : x < y => <<x, y>> \in R BY DEF Orders!OpToRel
  <1> HIDE DEF R
  <1>3. PICK x \in T : \A y \in T : <<y, x>> \notin R BY <1>1, Orders!WFMin, Zenon
  <1>4. ASSUME NEW y \in T PROVE x <= y
    <2>1. x \in Nat /\ y \in Nat /\ ~(y < x) BY <1>2, <1>3, Zenon
    <2> QED BY <2>1
  <1>5. \E k \in T : \A y \in T : k <= y BY <1>4, Zenon
  <1> QED BY <1>5, Zenon DEF Min

\* A new or another file at m is noticed neither at l nor on the way to it, when m is
\* neither.
LEMMA WithElsewhere ==
    ASSUME NEW f, NEW l \in Seq(Names), NEW m, m # l, ~Inside(m, l), NEW x,
           NEW g, g = With(f, m, x)
    PROVE  /\ WalkErr(g, l) = WalkErr(f, l)
           /\ (Exists(g, l) <=> Exists(f, l)) /\ (IsDir(g, l) <=> IsDir(f, l))
           /\ Exists(f, l) => g[l] = f[l]
  <1>2. \A k : k # m => (Exists(g, k) <=> Exists(f, k)) /\ (Exists(f, k) => g[k] = f[k])
    BY Zenon DEF With, Exists
  <1>3. \A k : k # m => (IsDir(g, k) <=> IsDir(f, k)) BY <1>2, Zenon DEF IsDir
  <1>4. \A i \in 0..Len(l) - 1 : SubSeq(l, 1, i) # m BY OnTheWay, Zenon
  <1>5. PICK bad : bad = {i \in 0..Len(l) - 1 : ~IsDir(f, SubSeq(l, 1, i))} BY Zenon
  <1>6. bad = {i \in 0..Len(l) - 1 : ~IsDir(g, SubSeq(l, 1, i))} BY <1>3, <1>4, <1>5, Zenon
  <1>7. WalkErr(g, l) = WalkErr(f, l)
    <2>1. CASE bad = {} BY <1>5, <1>6, <2>1, Zenon DEF WalkErr
    <2>2. CASE bad # {}
      <3>1. 0..Len(l) - 1 \subseteq Nat OBVIOUS
      <3>2. Min(bad) \in bad BY <1>5, <2>2, <3>1, Least, Zenon
      <3>3. Exists(g, SubSeq(l, 1, Min(bad))) <=> Exists(f, SubSeq(l, 1, Min(bad)))
        BY <1>2, <1>4, <1>5, <3>2, Zenon
      <3> QED BY <1>5, <1>6, <2>2, <3>3, Zenon DEF WalkErr
    <2> QED BY <2>1, <2>2, Zenon
  <1> QED BY <1>2, <1>3, <1>7, Zenon

\* While the applier writes a file, nothing of another file or of the way to it changes:
\* a reader sees in the files from before the write what is on disk.
LEMMA ReadView ==
    ASSUME Inv, LockFacts, PathsApart, Writing, NEW r \in Readers,
           frame[r].pc \in {"open", "stat", "io"}, NEW l, l = frame[r].full_path
    PROVE  /\ sys_open_read(FilesSeen, l).err = sys_open_read(tree, l).err
           /\ IsFile(tree, l) => FilesSeen[l] = File(data[tree[l].body])
  <1>1. r \in Threads /\ Applier \in Threads /\ Applier \notin Readers
    BY StorageConstants, Zenon DEF Threads
  <1>2. Types /\ InFrame(Applier) BY <1>1, Zenon DEF Inv
  <1>3. l \in Seq(Names) BY <1>1, <1>2, FrameFields, Zenon
  <1>4. PICK g, h : g = ContentsOf(tree, data) /\ h = FilesSeen BY Zenon
  <1>5. Len(data) \in Nat /\ WellFormed(tree, Len(data)) BY <1>2 DEF Types
  <1>6. DOMAIN g = DOMAIN tree /\ \A m \in DOMAIN tree : tree[m].kind = g[m].kind
    BY <1>4, <1>5, ContentsShape, Zenon
  <1>7. /\ WalkErr(tree, l) = WalkErr(g, l) /\ (Exists(tree, l) <=> Exists(g, l))
        /\ (IsDir(tree, l) <=> IsDir(g, l))
    BY <1>6, ShapeFacts, Zenon
  <1>8. IsFile(tree, l) => g[l] = File(data[tree[l].body])
    BY <1>4, <1>5, ContentsShape, Zenon DEF IsFile, Exists
  <1>9. /\ WalkErr(h, l) = WalkErr(g, l) /\ (Exists(h, l) <=> Exists(g, l))
        /\ (IsDir(h, l) <=> IsDir(g, l)) /\ (Exists(g, l) => h[l] = g[l])
    <2>1. CASE frame[Applier].fd = NoFile
      <3>1. h = g BY <1>4, <2>1, Zenon DEF FilesSeen
      <3> QED BY <3>1, Zenon
    <2>2. CASE frame[Applier].fd # NoFile
      <3>1. h = before BY <1>4, <2>2, Zenon DEF FilesSeen
      <3>2. frame[Applier].pc \in {"stat", "io"} /\ frame[Applier].pc # "idle"
        BY <1>2, <2>2, Zenon DEF InFrame
      <3>3. frame[Applier].pc = "io" BY <1>1, <1>2, <3>2, WhoseCall, Zenon DEF InFrame
      <3>4. PICK c, m, x : /\ c = frame[Applier].call /\ m = frame[Applier].full_path
                           /\ x = File(Base(c) \o frame[Applier].buf)
        BY Zenon
      <3>5. g = With(h, m, x) BY <1>4, <3>1, <3>3, <3>4, Zenon DEF Writing
      <3>6. c.type \in {"WRITE_FILE", "APPEND_FILE"}
        <4>1. c \in Commands /\ c.type \in {"WRITE_FILE", "APPEND_FILE"}
          BY <3>3, <3>4, PartWritten, Zenon
        <4> QED BY <4>1, Zenon
      <3>7. frame[Applier].pc \in {"open", "stat", "io"} BY <3>3, Zenon
      <3>8. c.type \notin {"CREATE_DIR", "DELETE_DIR"} BY <3>6
      <3>9. m # l /\ ~Inside(m, l) BY <3>4, <3>6, <3>7, <3>8, FilesApart, Zenon
      <3>10. /\ WalkErr(g, l) = WalkErr(h, l)
             /\ (Exists(g, l) <=> Exists(h, l)) /\ (IsDir(g, l) <=> IsDir(h, l))
             /\ Exists(h, l) => g[l] = h[l]
        BY <1>3, <3>5, <3>9, WithElsewhere
      <3> QED BY <3>10, Zenon
    <2> QED BY <2>1, <2>2, Zenon
  <1>10. sys_open_read(tree, l).err = sys_open_read(h, l).err
    <2>1. /\ WalkErr(tree, l) = WalkErr(h, l) /\ (Exists(tree, l) <=> Exists(h, l))
          /\ (IsDir(tree, l) <=> IsDir(h, l))
      BY <1>7, <1>9, Zenon
    <2> QED BY <2>1, OpenErr
  <1>11. IsFile(tree, l) => Exists(g, l) BY <1>7, Zenon DEF IsFile
  <1> QED BY <1>4, <1>8, <1>9, <1>10, <1>11, Zenon

\* read_file: what it returns is what one instant shows, that of its last step.
LEMMA ReadAtomic ==
    ASSUME Inv, LockFacts, PathsApart, Protected, NEW t \in Threads,
           OpenForReading(t) \/ StatFile(t) \/ ReadChunk(t)
    PROVE  (t \in Readers /\ Atomic!ReadFile(t)) \/ Atomic!Fail(t) \/ UNCHANGED Atomic!vars
  <1>1. /\ frame[t].pc \in {"open", "stat", "io"} /\ frame[t].call.type = "READ_FILE"
        /\ UNCHANGED <<tree, data, before>>
    BY Zenon DEF OpenForReading, StatFile, ReadChunk, At
  <1>2. t \in Readers /\ t # Applier BY <1>1, WhoseCall, StorageConstants, Zenon
  <1>3. Types /\ InFrame(t) /\ Writing /\ OpenFile(t) /\ Reading(t)
    BY <1>2, Zenon DEF Inv, Protected
  <1>4. PICK f, l, p : f = frame[t] /\ l = f.full_path /\ p = f.call.path BY Zenon
  <1>5. f.fd \in Nat /\ f.size \in Nat /\ f.buf \in Seq(Chunks) BY <1>3, <1>4, FrameFields, Zenon
  <1>6. l = Location(p) /\ Valid(p) BY <1>1, <1>4, BodyFacts, Zenon DEF Accepted
  <1>7. /\ sys_open_read(FilesSeen, l).err = sys_open_read(tree, l).err
        /\ IsFile(tree, l) => FilesSeen[l] = File(data[tree[l].body])
    BY <1>1, <1>2, <1>3, <1>4, ReadView, Zenon
  <1>8. frame[t].pc \in {"reject", "open", "stat", "io"} /\ <<>> \in Seq(Chunks) BY <1>1
  <1>9. ASSUME NEW q \in {"stat", "io"}, NEW i \in Nat, NEW k \in Nat, NEW b \in Seq(Chunks),
               Goes(t, q, i, k, b)
        PROVE  UNCHANGED Atomic!vars
    <2>1. q \in {"lock", "open", "stat", "io", "return"} BY <1>9, Zenon
    <2> QED BY <1>1, <1>2, <1>9, <2>1, GoesOn, Zenon
  <1>10. CASE OpenForReading(t)
    <2>1. PICK sys : sys = sys_open_read(tree, l) BY Zenon
    <2>2. CASE sys.err = "OK"
      <3>1. PICK i : i = tree[l].body BY Zenon
      <3>2. frame' = [frame EXCEPT ![t].pc = "stat", ![t].fd = i]
        BY <1>4, <1>10, <2>1, <2>2, <3>1, Zenon DEF OpenForReading
      <3>3. Goes(t, "stat", i, f.size, f.buf) BY <1>4, <3>2, GoesForms, Zenon
      <3>4. i \in Nat
        <4>1. Len(data) \in Nat /\ WellFormed(tree, Len(data)) BY <1>3 DEF Types
        <4>2. l \in DOMAIN tree /\ ~IsDir(tree, l) BY <2>1, <2>2, OpenReadFacts, Zenon DEF Exists
        <4>3. i \in 1..Len(data) BY <3>1, <4>1, <4>2, EntryFacts, Zenon
        <4> QED BY <4>3
      <3>5. "stat" \in {"stat", "io"} BY Zenon
      <3> QED BY <1>5, <1>9, <3>3, <3>4, <3>5, Zenon
    <2>3. CASE sys.err # "OK"
      <3>1. PICK err : err = from_errno(sys.err) BY Zenon
      <3>2. Finish(t, err, <<>>) BY <1>4, <1>10, <2>1, <2>3, <3>1, Zenon DEF OpenForReading
      <3>3. err \in Errors BY <3>1, OutcomeFacts, Zenon
      <3>4. sys_open_read(FilesSeen, l).err = sys.err /\ sys_open_read(FilesSeen, l).err # "OK"
        BY <1>7, <2>1, <2>3, Zenon
      <3>5. read_file(FilesSeen, p) = [err |-> from_errno(sys_open_read(FilesSeen, l).err), data |-> <<>>]
        BY <1>6, <3>4, ReadFileFacts, Zenon
      <3>6. read_file(FilesSeen, p) = [err |-> err, data |-> <<>>] BY <3>1, <3>4, <3>5, Zenon
      <3> QED BY <1>1, <1>2, <1>4, <1>8, <3>2, <3>3, <3>6, Reads, Zenon
    <2> QED BY <2>2, <2>3, Zenon
  <1>11. CASE StatFile(t)
    <2>1. PICK k : k = Len(data[f.fd]) BY Zenon
    <2>2. CASE k > MaxFileSize
      <3>1. Finish(t, "IoError", <<>>) BY <1>4, <1>11, <2>1, <2>2, Zenon DEF StatFile
      <3> QED BY <1>1, <1>3, <3>1, Fails, Zenon
    <2>3. CASE ~(k > MaxFileSize)
      <3>1. frame' = [frame EXCEPT ![t].pc = "io", ![t].size = k]
        BY <1>4, <1>11, <2>1, <2>3, Zenon DEF StatFile
      <3>2. Goes(t, "io", f.fd, k, f.buf) BY <1>4, <3>1, GoesForms, Zenon
      <3>3. frame[t].pc \in {"stat", "io"} BY <1>11, Zenon DEF StatFile, At
      <3>4. data[f.fd] \in Seq(Chunks) BY <1>4, <3>3, OpenFd, Zenon
      <3>5. k \in Nat /\ "io" \in {"stat", "io"} BY <2>1, <3>4
      <3> QED BY <1>5, <1>9, <3>2, <3>5, Zenon
    <2> QED BY <2>2, <2>3, Zenon
  <1>12. CASE ReadChunk(t)
    <2>1. PICK body, w : body = data[f.fd] /\ w = f.buf BY Zenon
    <2>2. frame[t].pc = "io" /\ frame[t].pc \in {"stat", "io"} BY <1>12, Zenon DEF ReadChunk, At
    <2>3. body \in Seq(Chunks) BY <1>4, <2>1, <2>2, OpenFd, Zenon
    <2>4. CASE Len(w) < f.size /\ Len(w) < Len(body)
      <3>1. PICK b : b = Append(w, body[Len(w) + 1]) BY Zenon
      <3>2. b \in Seq(Chunks) /\ Goes(t, "io", f.fd, f.size, b)
        BY <1>4, <1>12, <2>1, <2>4, <3>1, ReadFacts, Zenon
      <3>3. "io" \in {"stat", "io"} BY Zenon
      <3> QED BY <1>5, <1>9, <3>2, <3>3, Zenon
    <2>5. CASE ~(Len(w) < f.size /\ Len(w) < Len(body))
      <3>1. Finish(t, "Ok", w) BY <1>4, <1>12, <2>1, <2>5, Zenon DEF ReadChunk
      <3>2. f.size = Len(body) /\ Len(w) <= f.size /\ \A i \in 1..Len(w) : w[i] = body[i]
        BY <1>3, <1>4, <2>1, <2>2, Zenon DEF Reading
      <3>3. w \in Seq(Chunks) /\ Len(w) = Len(body) BY <1>5, <2>1, <2>3, <2>5, <3>2
      <3>4. w = body BY <2>3, <3>2, <3>3, SameSeq, Zenon
      <3>5. Reachable(tree, l) /\ tree[l].body = f.fd
        BY <1>3, <1>4, <2>2, Zenon DEF OpenFile, InFrame
      <3>6. FilesSeen[l] = File(w) BY <1>7, <2>1, <3>4, <3>5, Zenon DEF Reachable
      <3>7. sys_open_read(FilesSeen, l).err = "OK"
        <4>1. Len(data) \in Nat /\ WellFormed(tree, Len(data)) BY <1>3 DEF Types
        <4>2. l \in DOMAIN tree /\ IsFile(tree, l) BY <3>5, Zenon DEF Reachable, IsFile, Exists
        <4>3. ~IsDir(tree, l) BY <4>1, <4>2, EntryFacts, Zenon
        <4> QED BY <1>7, <3>5, <4>2, <4>3, OpenReadFacts, Zenon DEF Reachable, Exists
      <3>8. ~(Len(w) > MaxFileSize)
        <4>1. f.size <= MaxFileSize /\ MaxFileSize \in Nat
          BY <1>3, <1>4, StorageConstants, Zenon DEF InFrame
        <4> QED BY <1>5, <3>2, <3>3, <4>1
      <3>9. read_file(FilesSeen, p) = [err |-> "Ok", data |-> w]
        BY <1>6, <3>6, <3>7, <3>8, ReadFileFacts, Zenon
      <3>10. "Ok" \in Errors BY Zenon DEF Errors
      <3> QED BY <1>1, <1>2, <1>4, <1>8, <3>1, <3>3, <3>9, <3>10, Reads, Zenon
    <2> QED BY <2>4, <2>5, Zenon
  <1> QED BY <1>10, <1>11, <1>12, Zenon

\* A call begins.
LEMMA InvokeAtomic ==
    ASSUME Inv, NEW t \in Threads, NEW c \in Calls(t), Invoke(t, c)
    PROVE  Atomic!Invoke(t)
  <1>1. /\ \A u \in Threads \ {t} : frame'[u] = frame[u]
        /\ frame'[t].call = c /\ frame'[t].fd = NoFile /\ frame'[t].res = NoResult
    BY InvokeFacts, Zenon
  <1>2. frame[t] = Idle /\ UNCHANGED <<tree, data, before>> BY Zenon DEF Invoke, Inv, InFrame
  <1>3. frame[t].call = NoCall /\ frame[t].fd = NoFile /\ frame[t].res = NoResult BY <1>2 DEF Idle
  <1>4. CallsMade[t] = NoCall BY <1>3, Zenon DEF CallsMade
  <1>5. CallsMade' = [CallsMade EXCEPT ![t] = c] BY <1>1, Zenon DEF CallsMade
  <1>6. Results' = Results BY <1>1, <1>3, Zenon DEF Results
  <1>7. FilesSeen' = FilesSeen
    <2>1. frame'[Applier].fd = frame[Applier].fd BY <1>1, <1>3, Zenon DEF Threads
    <2> QED BY <1>2, <2>1, Zenon DEF FilesSeen
  <1> QED BY <1>4, <1>5, <1>6, <1>7, SameCalls, Zenon DEF Atomic!Invoke

\* A call returns.
LEMMA ReturnAtomic ==
    ASSUME Inv, NEW t \in Threads, Return(t)
    PROVE  Atomic!Return(t)
  <1>1. frame \in [Threads -> Frames] /\ InFrame(t) BY Zenon DEF Inv, Types
  <1>2. frame[t].pc = "return" /\ frame' = [frame EXCEPT ![t] = Idle] /\ UNCHANGED <<tree, data, before>>
    BY Zenon DEF Return
  <1>3. (\A u \in Threads \ {t} : frame'[u] = frame[u]) /\ frame'[t] = Idle BY <1>1, <1>2, Zenon
  <1>4. frame'[t].call = NoCall /\ frame'[t].fd = NoFile /\ frame'[t].res = NoResult
    BY <1>3 DEF Idle
  <1>5. frame[t].fd = NoFile /\ frame[t].res # NoResult BY <1>1, <1>2 DEF InFrame, NoResult
  <1>6. Results[t] # NoResult BY <1>5, Zenon DEF Results
  <1>7. CallsMade' = [CallsMade EXCEPT ![t] = NoCall] BY <1>3, <1>4, Zenon DEF CallsMade
  <1>8. Results' = [Results EXCEPT ![t] = NoResult] BY <1>3, <1>4, Zenon DEF Results
  <1>9. FilesSeen' = FilesSeen
    <2>1. frame'[Applier].fd = frame[Applier].fd BY <1>3, <1>4, <1>5, Zenon DEF Threads
    <2> QED BY <1>2, <2>1, Zenon DEF FilesSeen
  <1> QED BY <1>6, <1>7, <1>8, <1>9, SameCalls, Zenon DEF Atomic!Return

\* Taking a lock.
LEMMA LockAtomic ==
    ASSUME Inv, NEW t \in Threads, Lock(t)
    PROVE  UNCHANGED Atomic!vars
  <1>1. frame \in [Threads -> Frames] /\ frame[t] \in Frames BY Zenon DEF Inv, Types
  <1>2. PICK p : p = IF pos'[t] = Len(script[t]) THEN "open" ELSE "lock" BY Zenon
  <1>3. frame' = [frame EXCEPT ![t].pc = p] /\ UNCHANGED <<tree, data, before>>
    BY <1>2, Zenon DEF Lock
  <1>4. /\ \A u \in Threads \ {t} : frame'[u] = frame[u]
        /\ frame'[t].call = frame[t].call /\ frame'[t].res = frame[t].res /\ frame'[t].fd = frame[t].fd
    BY <1>1, <1>3 DEF Frames
  <1>5. frame'[Applier].fd = frame[Applier].fd BY <1>4, Zenon DEF Threads
  <1>6. FilesSeen' = FilesSeen BY <1>3, <1>5, Zenon DEF FilesSeen
  <1>7. \A u \in Threads : frame'[u].call = frame[u].call /\ frame'[u].res = frame[u].res
    BY <1>4, Zenon
  <1> QED BY <1>6, <1>7, Unseen, Zenon

\* Every step is a step of AtomicStorage, or none.
LEMMA AtomicStep ==
    ASSUME Inv, LockFacts, PathsApart, Protected, [Next]_vars
    PROVE  [Atomic!Next]_(Atomic!vars)
  <1>1. Writing BY Zenon DEF Protected
  <1>2. ASSUME UNCHANGED <<frame, tree, data, before>> PROVE UNCHANGED Atomic!vars
    <2>1. FilesSeen' = FilesSeen BY <1>2, Zenon DEF FilesSeen
    <2> QED BY <1>2, <2>1, Unseen, Zenon
  <1>3. Atomic!Perform => Atomic!Next BY Zenon DEF Atomic!Next
  <1>4. ASSUME NEW t \in Readers, Atomic!ReadFile(t) PROVE Atomic!Next
    BY <1>4, Zenon DEF Atomic!Next
  <1>5. ASSUME NEW t \in Threads, Atomic!Invoke(t) \/ Atomic!Fail(t) \/ Atomic!Return(t)
        PROVE  Atomic!Next
    BY <1>5, SameCalls, Zenon DEF Atomic!Next
  <1>6. ASSUME NEW t \in Threads, NEW c \in Calls(t), Invoke(t, c) PROVE Atomic!Next
    BY <1>5, <1>6, InvokeAtomic, Zenon
  <1>7. ASSUME NEW t \in Threads, Fault(t) PROVE Atomic!Next
    BY <1>1, <1>5, <1>7, Fails, Zenon DEF Fault
  <1>8. ASSUME NEW t \in Threads,
               ChangeTree(t) \/ CreateFile(t) \/ OpenForWriting(t) \/ WriteChunk(t)
        PROVE  Atomic!Next \/ UNCHANGED Atomic!vars
    <2>1. frame[t].pc # "idle" /\ frame[t].call.type # "READ_FILE"
      BY <1>8, Zenon DEF ChangeTree, CreateFile, OpenForWriting, WriteChunk, At
    <2>2. t = Applier BY <2>1, WhoseCall, Zenon
    <2> QED BY <1>1, <1>3, <1>8, <2>2, TreeAtomic, WriteAtomic, Zenon
  <1>9. ASSUME NEW t \in Threads, OpenForReading(t) \/ StatFile(t) \/ ReadChunk(t)
        PROVE  Atomic!Next \/ UNCHANGED Atomic!vars
    BY <1>4, <1>5, <1>9, ReadAtomic, Zenon
  <1>10. ASSUME NEW t \in Threads, Step(t) PROVE Atomic!Next \/ UNCHANGED Atomic!vars
    <2>1. CASE Reject(t) BY <1>3, <1>4, <2>1, RejectAtomic, Zenon
    <2>2. CASE Lock(t) BY <2>2, LockAtomic, Zenon
    <2>3. CASE Unlock(t) BY <1>2, <2>3, Zenon DEF Unlock
    <2>4. CASE Return(t) BY <1>5, <2>4, ReturnAtomic, Zenon
    <2> QED BY <1>8, <1>9, <1>10, <2>1, <2>2, <2>3, <2>4, Zenon DEF Step
  <1>11. ASSUME NEW t \in Threads, SpuriousWakeup(t) PROVE UNCHANGED Atomic!vars
    BY <1>2, <1>11, Zenon DEF SpuriousWakeup
  <1>12. CASE UNCHANGED vars BY <1>2, <1>12, Zenon DEF vars
  <1> QED BY <1>6, <1>7, <1>10, <1>11, <1>12, Zenon DEF Next

\* At first there are no files and no calls.
LEMMA AtomicInit == Init => Atomic!Init
  <1> SUFFICES ASSUME Init PROVE Atomic!Init BY Zenon
  <1>1. tree = EmptyTree /\ data = <<>> /\ frame = [t \in Threads |-> Idle] BY Zenon DEF Init
  <1>2. \A t \in Threads : frame[t].call = NoCall /\ frame[t].res = NoResult /\ frame[t].fd = NoFile
    BY <1>1 DEF Idle
  <1>3. FilesSeen = ContentsOf(EmptyTree, data) BY <1>1, <1>2, Zenon DEF FilesSeen, Threads
  <1>4. ContentsOf(EmptyTree, data) = EmptyTree
    BY Zenon DEF ContentsOf, EmptyTree, IsDir, Exists, Dir
  <1>5. CallsMade = [t \in Threads |-> NoCall] BY <1>2, Zenon DEF CallsMade
  <1>6. Results = [t \in Threads |-> NoResult] BY <1>2, Zenon DEF Results
  <1> QED BY <1>3, <1>4, <1>5, <1>6, SameCalls, Zenon DEF Atomic!Init

-----------------------------------------------------------------------------
\* The invariant of FileLocker, for the locks as Storage uses them.
LP == INSTANCE FileLockerProofs
        WITH Keys <- KeysUsed,
             Renames <- {<<c.path, c.new_path>> : c \in {d \in Commands : d.type = "RENAME"}}

\* Storage gives FileLocker constants it can work with.
LEMMA LockerAssumption == LP!LockerConstants
  <1>1. \A c \in Commands : c.path \in KeysUsed /\ c.new_path \in KeysUsed BY Zenon DEF KeysUsed
  <1>2. {<<c.path, c.new_path>> : c \in {d \in Commands : d.type = "RENAME"}}
          \subseteq KeysUsed \X KeysUsed
    BY <1>1
  <1>3. IsFiniteSet(Readers) /\ Applier \notin Readers BY StorageConstants, Zenon
  <1> QED BY <1>2, <1>3, Zenon DEF LP!LockerConstants, LP!IsFiniteSet, IsFiniteSet

\* The steps FileLocker takes here are the steps its proofs are about.
LEMMA SameLocker ==
    /\ Locker!Init => LP!Init
    /\ [Locker!Next]_(Locker!vars) => [LP!Next]_(LP!vars)
  <1>1. Locker!Init => LP!Init BY Zenon DEF Locker!Init, LP!Init, Locker!Threads, LP!Threads
  <1>2. [Locker!Next]_(Locker!vars) => [LP!Next]_(LP!vars)
    BY Zenon DEF Locker!Next, Locker!Start, Locker!Scripts, Locker!Enter, Locker!Idle, Locker!Step,
           Locker!lock_read, Locker!lock_write, Locker!Acquiring, Locker!Wanted, Locker!ReadBlocked,
           Locker!WriteBlocked, Locker!Wait, Locker!Grant, Locker!CountedAs, Locker!Put, Locker!Erase,
           Locker!unlock_read, Locker!unlock_write, Locker!InScope, Locker!Innermost, Locker!PopGuard,
           Locker!Released, Locker!notify_all, Locker!SpuriousWakeup, Locker!Threads, Locker!Read,
           Locker!Write, Locker!vars,
           LP!Next, LP!Start, LP!Scripts, LP!Enter, LP!Idle, LP!Step,
           LP!lock_read, LP!lock_write, LP!Acquiring, LP!Wanted, LP!ReadBlocked,
           LP!WriteBlocked, LP!Wait, LP!Grant, LP!CountedAs, LP!Put, LP!Erase,
           LP!unlock_read, LP!unlock_write, LP!InScope, LP!Innermost, LP!PopGuard,
           LP!Released, LP!notify_all, LP!SpuriousWakeup, LP!Threads, LP!Read,
           LP!Write, LP!vars
  <1> QED BY <1>1, <1>2, Zenon

\* What FileLocker keeps is what Storage relies on.
LEMMA LockerGives == LP!Inv => LockFacts
  <1> SUFFICES ASSUME LP!Inv PROVE LockFacts BY Zenon
  <1>1. LP!TypeOK /\ LP!MutualExclusion /\ LP!LeavingHolds BY Zenon DEF LP!Inv
  <1>2. Locker!TypeOK
    BY <1>1, Zenon DEF LP!TypeOK, LP!LockState, LP!Threads, LP!Scripts, LP!Read, LP!Write,
                Locker!TypeOK, Locker!LockState, Locker!Threads, Locker!Scripts, Locker!Read, Locker!Write
  <1>3. Locker!MutualExclusion
    BY <1>1, Zenon DEF LP!MutualExclusion, LP!ReadersOf, LP!WritersOf, LP!Holds, LP!Threads, LP!Read, LP!Write,
                Locker!MutualExclusion, Locker!ReadersOf, Locker!WritersOf, Locker!Holds,
                Locker!Threads, Locker!Read, Locker!Write
  <1>4. \A t \in leaving : pos[t] > 0 BY <1>1, Zenon DEF LP!LeavingHolds
  <1> QED BY <1>2, <1>3, <1>4, Zenon DEF LockFacts

\* Both invariants hold together: each step keeps the locks' because it is a step of
\* FileLocker, and Storage's because of what the locks' says.
LEMMA BothInvariants == Spec => [](LP!Inv /\ Inv)
  <1>1. Init => LP!Inv /\ Inv
    <2>1. Init => Locker!Init BY Zenon DEF Init
    <2>2. LP!Init => LP!Inv BY LockerAssumption, LP!InitInv, Zenon
    <2> QED BY <2>1, <2>2, SameLocker, InvInit, Zenon
  <1>2. LP!Inv /\ Inv /\ [Next]_vars => (LP!Inv /\ Inv)'
    <2> SUFFICES ASSUME LP!Inv, Inv, [Next]_vars PROVE LP!Inv' /\ Inv' BY Zenon
    <2>1. [Locker!Next]_(Locker!vars) BY StepLocks, Zenon
    <2>2. [LP!Next]_(LP!vars) BY <2>1, SameLocker, Zenon
    <2>3. LP!Inv' BY <2>2, LockerAssumption, LP!NextInv, Zenon
    <2>4. Inv' BY InvStep, LockerGives, Zenon
    <2> QED BY <2>3, <2>4, Zenon
  <1> QED BY <1>1, <1>2, PTL DEF Spec

\* Type correctness of Storage: every descriptor and every directory entry names an inode
\* that exists, and no call reads more than max_file_size.
THEOREM TypeCorrect == Spec => []TypeOK
  BY BothInvariants, InvTypes, PTL

\* While the paths in use name files apart, the locks keep every open file where its path
\* says and as its reader or writer knows it.
THEOREM FilesProtected ==
    ASSUME PathsApart
    PROVE  Spec => []Protected
  <1>1. Init => Protected BY ProtectedInit, Zenon
  <1>2. Protected /\ (LP!Inv /\ Inv) /\ [Next]_vars => Protected'
    BY LockerGives, ProtectedStep, Zenon
  <1> QED BY <1>1, <1>2, BothInvariants, PTL DEF Spec

\* So no reader has the file open that the applier is writing: write_file and append_file
\* are alone with their inode.
THEOREM WriterIsAlone ==
    ASSUME PathsApart
    PROVE  Spec => []WriterAlone
  <1>1. Protected /\ (LP!Inv /\ Inv) => WriterAlone
    BY LockerGives, ProtectedAlone, Zenon
  <1> QED BY <1>1, BothInvariants, FilesProtected, PTL

\* While the paths in use name files apart, every call is atomic: Storage implements
\* AtomicStorage.  A command takes effect, and a read sees the files, in one instant between
\* the call's invocation and its return, whatever runs beside it.
THEOREM CallsAtomic ==
    ASSUME PathsApart
    PROVE  Spec => CallsAreAtomic
  <1>1. Init => Atomic!Init BY AtomicInit, Zenon
  <1>2. Protected /\ (LP!Inv /\ Inv) /\ [Next]_vars => [Atomic!Next]_(Atomic!vars)
    BY LockerGives, AtomicStep, Zenon
  <1> QED BY <1>1, <1>2, BothInvariants, FilesProtected, PTL DEF Spec, CallsAreAtomic, Atomic!Spec
=============================================================================
