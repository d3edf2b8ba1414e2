----------------------- MODULE StorageInvariantProofs -----------------------
(***************************************************************************)
(* That Inv is an invariant of Storage, given what FileLocker keeps, for   *)
(* any number of readers, any commands and any paths; and that the         *)
(* operations of one system call do what StorageOps says.                  *)
(***************************************************************************)
EXTENDS StorageInvariant, StorageTreeProofs

\* The commands are the structs of StorageConstants.
LEMMA CommandFacts ==
    ASSUME NEW c \in Commands
    PROVE  /\ c.type \in CommandTypes /\ c.path \in KeysUsed /\ c.new_path \in KeysUsed
           /\ c.contents \in Seq(Chunks)
           /\ \A x : [c EXCEPT !.contents = x].contents = x
           /\ [c EXCEPT !.contents = c.contents] = c
  <1>1. c \in [type : CommandTypes, path : {c.path}, new_path : {c.new_path},
               contents : Seq(Range(c.contents))]
    BY StorageConstants, Zenon
  <1>2. c.contents \in Seq(Chunks)
    <2>1. c.contents \in Seq(Range(c.contents)) /\ Range(c.contents) \subseteq Chunks
      BY <1>1, Zenon DEF Chunks
    <2>2. \A i \in 1..Len(c.contents) : c.contents[i] \in Chunks BY <2>1 DEF Range
    <2> QED BY <2>1, <2>2
  <1>3. c.path \in KeysUsed /\ c.new_path \in KeysUsed BY Zenon DEF KeysUsed
  <1> QED BY <1>1, <1>2, <1>3, Zenon

\* A path that is accepted has a place in the tree.
LEMMA LocationFacts ==
    ASSUME NEW p \in KeysUsed, Valid(p)
    PROVE  Location(p) \in Seq(Names)
  BY StorageConstants, Zenon

\* The calls of a reader, and of the applier.
LEMMA CallFacts ==
    ASSUME NEW t \in Threads, NEW c \in Calls(t)
    PROVE  /\ c.path \in KeysUsed /\ c # NoCall
           /\ t \in Readers => t # Applier /\ c.type = "READ_FILE" /\ c.path \in ReadPaths
           /\ t = Applier => c \in Commands /\ c.type \in CommandTypes
  <1>1. CASE t = Applier
    <2>1. c \in Commands /\ Applier \notin Readers BY <1>1, StorageConstants, Zenon DEF Calls
    <2>2. c.path \in KeysUsed /\ c.type \in CommandTypes BY <2>1, CommandFacts, Zenon
    <2>3. c # NoCall BY <2>2 DEF CommandTypes, NoCall
    <2> QED BY <1>1, <2>1, <2>2, <2>3, Zenon
  <1>2. CASE t # Applier
    <2>1. c \in [type : {"READ_FILE"}, path : ReadPaths] BY <1>2, Zenon DEF Calls
    <2>2. c.type = "READ_FILE" /\ c.path \in ReadPaths BY <2>1, Zenon
    <2>3. c # NoCall BY <2>2 DEF NoCall
    <2>4. c.path \in KeysUsed BY <2>2, Zenon DEF KeysUsed
    <2> QED BY <1>2, <2>2, <2>3, <2>4, Zenon
  <1> QED BY <1>1, <1>2, Zenon

\* The guards of a call are those that FileLocker knows.
LEMMA GuardsKnown ==
    ASSUME NEW t \in Threads, NEW c \in Calls(t), Guards(c) # <<>>
    PROVE  Guards(c) \in Locker!Scripts(t)
  <1>1. CASE t \in Readers
    <2>1. Guards(c) = <<Locker!Read(c.path)>> BY <1>1, CallFacts, Zenon DEF Guards
    <2> QED BY <1>1, <2>1, CallFacts, Zenon DEF Locker!Scripts
  <1>2. CASE t \notin Readers
    <2>1. t = Applier /\ c \in Commands /\ c.type \in CommandTypes
      BY <1>2, CallFacts, Zenon DEF Threads
    <2>2. CASE c.type = "RENAME"
      <3>1. Guards(c) = <<Locker!Write(c.path), Locker!Write(c.new_path)>>
        BY <2>2, Zenon DEF Guards
      <3>2. PICK r \in {<<d.path, d.new_path>> : d \in {e \in Commands : e.type = "RENAME"}} :
              r[1] = c.path /\ r[2] = c.new_path
        <4>1. c \in {e \in Commands : e.type = "RENAME"} BY <2>1, <2>2, Zenon
        <4>2. <<c.path, c.new_path>>[1] = c.path /\ <<c.path, c.new_path>>[2] = c.new_path BY Zenon
        <4> QED BY <4>1, <4>2, Zenon
      <3>3. Guards(c) = <<Locker!Write(r[1]), Locker!Write(r[2])>> BY <3>1, <3>2, Zenon
      <3> QED BY <1>2, <3>3, Zenon DEF Locker!Scripts
    <2>3. CASE c.type # "RENAME"
      <3>1. Guards(c) = <<Locker!Write(c.path)>> BY <2>1, <2>3, Zenon DEF Guards, CommandTypes
      <3>2. c.path \in KeysUsed BY CallFacts, Zenon
      <3> QED BY <1>2, <3>1, <3>2, Zenon DEF Locker!Scripts
    <2> QED BY <2>2, <2>3, Zenon
  <1> QED BY <1>1, <1>2, Zenon

\* Every step of Storage is one of FileLocker, or leaves its variables alone.
LEMMA StepLocks ==
    ASSUME [Next]_vars
    PROVE  [Locker!Next]_(Locker!vars)
  <1> USE DEF Locker!vars, lockVars
  <1>1. ASSUME NEW t \in Threads, NEW c \in Calls(t), Invoke(t, c) PROVE [Locker!Next]_(Locker!vars)
    <2>1. CASE Guards(c) # <<>> /\ Locker!Enter(t, Guards(c))
      BY <2>1, GuardsKnown, Zenon DEF Locker!Next, Locker!Start, Locker!Threads, Threads
    <2> QED BY <1>1, <2>1, Zenon DEF Invoke
  <1>2. ASSUME NEW t \in Threads, Step(t) PROVE [Locker!Next]_(Locker!vars)
    <2>1. CASE Lock(t)
      BY <2>1, Zenon DEF Lock, Locker!Next, Locker!Step, Locker!Threads, Threads
    <2>2. CASE Unlock(t)
      BY <2>2, Zenon DEF Unlock, Locker!Next, Locker!Step, Locker!Threads, Threads
    <2>3. CASE Reject(t) \/ ChangeTree(t) \/ CreateFile(t) \/ OpenForWriting(t) \/ WriteChunk(t)
      BY <2>3, Zenon DEF Reject, ChangeTree, CreateFile, OpenForWriting, WriteChunk
    <2>4. CASE OpenForReading(t) \/ StatFile(t) \/ ReadChunk(t) \/ Return(t)
      BY <2>4, Zenon DEF OpenForReading, StatFile, ReadChunk, Return
    <2> QED BY <1>2, <2>1, <2>2, <2>3, <2>4, Zenon DEF Step
  <1>3. ASSUME NEW t \in Threads, SpuriousWakeup(t) PROVE [Locker!Next]_(Locker!vars)
    BY <1>3, Zenon DEF SpuriousWakeup, Locker!Next, Locker!Threads, Threads
  <1>4. ASSUME NEW t \in Threads, Fault(t) PROVE [Locker!Next]_(Locker!vars)
    BY <1>4, Zenon DEF Fault
  <1>5. CASE UNCHANGED vars BY <1>5, Zenon DEF vars
  <1> QED BY <1>1, <1>2, <1>3, <1>4, <1>5, Zenon DEF Next

\* Storage uses its locks the way FileLocker expects: on every path through every
\* operation, also the failing ones, the guards are constructed before the body and
\* destroyed after it.
THEOREM LocksKept == Spec => LocksAsSpecified
  <1>1. Init => Locker!Init BY Zenon DEF Init
  <1>2. [Next]_vars => [Locker!Next]_(Locker!vars) BY StepLocks, Zenon
  <1> QED BY <1>1, <1>2, PTL DEF Spec, LocksAsSpecified, Locker!Spec

-----------------------------------------------------------------------------
\* The invariant holds before the first call.
LEMMA InvInit == Init => Inv
  <1> SUFFICES ASSUME Init PROVE Inv BY Zenon
  <1>1. Idle \in Frames
    <2>1. 0 \in Nat /\ <<>> \in Seq(Names) /\ <<>> \in Seq(Chunks) OBVIOUS
    <2> QED BY <2>1, Zenon DEF Idle, Frames, AllCalls, NoResult, NoFile, Errors
  <1>2. frame = [t \in Threads |-> Idle] /\ data = <<>> /\ tree = [l \in {<<>>} |-> Dir]
    BY Zenon DEF Init, EmptyTree
  <1>3. data \in Seq(Seq(Chunks)) /\ Len(data) = 0 BY <1>2
  <1>4. WellFormed(tree, Len(data))
    BY <1>2, <1>3 DEF WellFormed, IsFile, Exists, Dir
  <1>5. ASSUME NEW t \in Threads PROVE InFrame(t) /\ InLocks(t)
    <2>1. frame[t] = Idle BY <1>2, Zenon
    <2>2. InFrame(t) BY <1>3, <2>1, StorageConstants DEF InFrame, Idle, NoResult, NoFile, NoCall
    <2>3. script[t] = <<>> BY Zenon DEF Init, Locker!Init, Locker!Threads, Threads
    <2> QED BY <2>1, <2>2, <2>3 DEF InLocks, Idle
  <1> QED BY <1>1, <1>2, <1>3, <1>4, <1>5, Zenon DEF Inv, Types

\* The fields of a frame.
LEMMA FrameFields ==
    ASSUME Types, NEW t \in Threads
    PROVE  /\ frame[t] \in Frames /\ frame[t].fd \in Nat /\ frame[t].size \in Nat
           /\ frame[t].buf \in Seq(Chunks)
           /\ frame[t].full_path \in Seq(Names) /\ frame[t].full_new \in Seq(Names)
  <1>1. frame[t] \in Frames BY Zenon DEF Types
  <1> QED BY <1>1, Zenon DEF Frames

\* A step of thread t, as far as the others are concerned.
Others(t) ==
    \A u \in Threads \ {t} :
        /\ frame'[u] = frame[u]
        /\ script'[u] = script[u] /\ pos'[u] = pos[u] /\ (u \in leaving' <=> u \in leaving)

\* It suffices to look at the thread that took the step.
LEMMA ThreadStep ==
    ASSUME Inv, NEW t \in Threads, Others(t), frame' \in [Threads -> Frames],
           data' \in Seq(Seq(Chunks)), Len(data) <= Len(data'), WellFormed(tree', Len(data')),
           InFrame(t)', InLocks(t)'
    PROVE  Inv'
  <1>1. Types' BY Zenon DEF Types
  <1>2. ASSUME NEW u \in Threads \ {t} PROVE InFrame(u)' /\ InLocks(u)'
    <2>1. /\ frame'[u] = frame[u] /\ script'[u] = script[u] /\ pos'[u] = pos[u]
          /\ (u \in leaving' <=> u \in leaving)
      BY Zenon DEF Others
    <2>2. frame[u].fd <= Len(data')
      <3>1. frame[u].fd <= Len(data) BY Zenon DEF Inv, InFrame
      <3>2. frame[u].fd \in Nat BY FrameFields, Zenon DEF Inv
      <3>3. data \in Seq(Seq(Chunks)) BY Zenon DEF Inv, Types
      <3>4. Len(data) \in Nat /\ Len(data') \in Nat BY <3>3
      <3> QED BY <3>1, <3>2, <3>4
    <2>3. InFrame(u) /\ InLocks(u) BY Zenon DEF Inv
    <2>4. InFrame(u)' BY <2>1, <2>2, <2>3, Zenon DEF InFrame
    <2>5. InLocks(u)' BY <2>1, <2>3, Zenon DEF InLocks
    <2> QED BY <2>4, <2>5, Zenon
  <1> QED BY <1>1, <1>2, Zenon DEF Inv

\* The frame of a call that is over but for its guards.
LEMMA FinishFacts ==
    ASSUME Types, NEW t \in Threads, NEW err \in Errors, NEW bytes \in Seq(Chunks),
           Finish(t, err, bytes)
    PROVE  /\ frame' \in [Threads -> Frames]
           /\ \A u \in Threads \ {t} : frame'[u] = frame[u]
           /\ frame'[t] = [frame[t] EXCEPT !.pc = "return", !.fd = NoFile,
                                           !.res = [err |-> err, data |-> bytes]]
  <1>1. frame \in [Threads -> Frames] /\ frame[t] \in Frames BY Zenon DEF Types
  <1>2. PICK g : g = [frame[t] EXCEPT !.pc = "return", !.fd = NoFile,
                                      !.res = [err |-> err, data |-> bytes]]
    BY Zenon
  <1>3. g \in Frames BY <1>1, <1>2, Zenon DEF Frames, NoFile
  <1>4. frame' = [frame EXCEPT ![t] = g] BY <1>1, <1>2, Zenon DEF Finish
  <1> QED BY <1>1, <1>2, <1>3, <1>4, Zenon

\* A call that ends, and only needs its guards destroyed, keeps the invariant.
LEMMA FinishInv ==
    ASSUME Inv, NEW t \in Threads, frame[t].pc # "idle",
           NEW err \in Errors \ {"NONE"}, NEW bytes \in Seq(Chunks), Finish(t, err, bytes),
           UNCHANGED lockVars,
           data' \in Seq(Seq(Chunks)), Len(data) <= Len(data'), WellFormed(tree', Len(data'))
    PROVE  Inv'
  <1>1. Types /\ InFrame(t) /\ frame[t] \in Frames BY Zenon DEF Inv, Types
  <1>2. /\ frame' \in [Threads -> Frames]
        /\ \A u \in Threads \ {t} : frame'[u] = frame[u]
        /\ frame'[t] = [frame[t] EXCEPT !.pc = "return", !.fd = NoFile,
                                        !.res = [err |-> err, data |-> bytes]]
    BY <1>1, FinishFacts, Zenon
  <1>3. Others(t) BY <1>2, Zenon DEF Others, lockVars
  <1>4. /\ frame'[t].pc = "return" /\ frame'[t].fd = 0 /\ frame'[t].res.err = err
        /\ frame'[t].call = frame[t].call /\ frame'[t].size = frame[t].size
    BY <1>1, <1>2 DEF Frames, NoFile
  <1>5. Len(data') \in Nat OBVIOUS
  <1>6. InFrame(t)' BY <1>1, <1>4, <1>5 DEF InFrame, NoFile, NoResult
  <1>7. InLocks(t)' BY <1>4, Zenon DEF InLocks
  <1> QED BY <1>2, <1>3, <1>6, <1>7, ThreadStep, Zenon

\* A thread outside all guards.
LEMMA NoGuards ==
    ASSUME LockFacts, NEW t \in Threads, script[t] = <<>>
    PROVE  pos[t] = 0 /\ t \notin leaving
  <1>1. pos[t] \in Nat /\ pos[t] <= Len(script[t])
    BY Zenon DEF LockFacts, Locker!TypeOK, Locker!Threads, Threads
  <1> QED BY <1>1 DEF LockFacts

\* The frame of a call that has just begun.
LEMMA InvokeFacts ==
    ASSUME Inv, NEW t \in Threads, NEW c \in Calls(t), Invoke(t, c)
    PROVE  /\ frame' \in [Threads -> Frames]
           /\ \A u \in Threads \ {t} : frame'[u] = frame[u]
           /\ frame'[t].call = c /\ frame'[t].buf = <<>> /\ frame'[t].fd = NoFile
           /\ frame'[t].size = 0 /\ frame'[t].res = NoResult
           /\ Accepted(c) => frame'[t].full_path = Location(c.path)
           /\ Accepted(c) /\ c.type = "RENAME" => frame'[t].full_new = Location(c.new_path)
           /\ ~Accepted(c) => frame'[t].pc = "reject"
           /\ Accepted(c) => frame'[t].pc = IF Guards(c) = <<>> THEN "open" ELSE "lock"
  <1>1. Types /\ frame \in [Threads -> Frames] /\ frame[t] = Idle
    BY Zenon DEF Inv, Types, InFrame, Invoke
  <1>2. PICK a : a = IF Accepted(c) THEN Location(c.path) ELSE <<>> BY Zenon
  <1>3. PICK b : b = IF c.type = "RENAME" /\ Accepted(c) THEN Location(c.new_path) ELSE <<>>
    BY Zenon
  <1>4. PICK p : p = CASE ~Accepted(c) -> "reject"
                       [] Accepted(c) /\ Guards(c) = <<>> -> "open"
                       [] OTHER -> "lock"
    BY Zenon
  <1>5. p = IF Accepted(c) THEN (IF Guards(c) = <<>> THEN "open" ELSE "lock") ELSE "reject"
    BY <1>4, Zenon
  <1>6. PICK g : g = [frame[t] EXCEPT !.call = c, !.full_path = a, !.full_new = b, !.pc = p]
    BY Zenon
  <1>7. g \in Frames
    <2>1. a \in Seq(Names)
      <3>1. c.path \in KeysUsed BY CallFacts, Zenon
      <3> QED BY <1>2, <3>1, LocationFacts DEF Accepted
    <2>2. b \in Seq(Names)
      <3>1. CASE c.type = "RENAME" /\ Accepted(c)
        <4>1. c \in Commands BY <3>1, CallFacts, Zenon DEF Threads
        <4>2. c.new_path \in KeysUsed /\ Valid(c.new_path)
          BY <3>1, <4>1, CommandFacts, Zenon DEF Accepted
        <4> QED BY <1>3, <3>1, <4>2, LocationFacts, Zenon
      <3> QED BY <1>3, <3>1
    <2>3. c \in AllCalls BY Zenon DEF AllCalls, Calls
    <2>4. frame[t] \in Frames BY <1>1, Zenon
    <2>5. p \in {"idle", "reject", "lock", "open", "stat", "io", "return"} BY <1>5, Zenon
    <2> QED BY <1>6, <2>1, <2>2, <2>3, <2>4, <2>5, Zenon DEF Frames
  <1>8. frame' = [frame EXCEPT ![t] = g] BY <1>1, <1>2, <1>3, <1>4, <1>6, Zenon DEF Invoke
  <1>9. frame'[t] = g BY <1>1, <1>8, Zenon
  <1>10. /\ frame'[t].call = c /\ frame'[t].full_path = a /\ frame'[t].full_new = b
         /\ frame'[t].pc = p /\ frame'[t].buf = <<>> /\ frame'[t].fd = NoFile
         /\ frame'[t].size = 0 /\ frame'[t].res = NoResult
    BY <1>1, <1>6, <1>9 DEF Idle
  <1>11. frame' \in [Threads -> Frames] BY <1>1, <1>7, <1>8, Zenon
  <1>12. \A u \in Threads \ {t} : frame'[u] = frame[u] BY <1>1, <1>8, Zenon
  <1> QED BY <1>2, <1>3, <1>5, <1>10, <1>11, <1>12, Zenon

\* A call begins.
LEMMA InvokeInv ==
    ASSUME Inv, LockFacts, NEW t \in Threads, NEW c \in Calls(t), Invoke(t, c)
    PROVE  Inv'
  <1>1. Types /\ script[t] = <<>> BY Zenon DEF Inv, Types, InLocks, Invoke
  <1>2. pos[t] = 0 /\ t \notin leaving BY <1>1, NoGuards, Zenon
  <1>3. DOMAIN script = Threads BY Zenon DEF LockFacts, Locker!TypeOK, Locker!Threads, Threads
  <1>4. /\ pos' = pos /\ leaving' = leaving
        /\ \A u \in Threads \ {t} : script'[u] = script[u]
        /\ script'[t] = IF Accepted(c) THEN Guards(c) ELSE <<>>
    <2>1. CASE Accepted(c) /\ Guards(c) # <<>>
      <3>1. Locker!Enter(t, Guards(c)) BY <2>1, Zenon DEF Invoke
      <3>2. script' = [script EXCEPT ![t] = Guards(c)] /\ pos' = pos /\ leaving' = leaving
        BY <3>1, Zenon DEF Locker!Enter
      <3> QED BY <1>3, <2>1, <3>2, Zenon
    <2>2. CASE ~(Accepted(c) /\ Guards(c) # <<>>)
      <3>1. UNCHANGED lockVars BY <2>2, Zenon DEF Invoke
      <3> QED BY <1>1, <2>2, <3>1, Zenon DEF lockVars
    <2> QED BY <2>1, <2>2, Zenon
  <1>5. Others(t) BY <1>4, InvokeFacts, Zenon DEF Others
  <1>6. data' = data /\ tree' = tree BY Zenon DEF Invoke
  <1>7. data \in Seq(Seq(Chunks)) /\ Len(data) \in Nat BY <1>1 DEF Types
  <1>8. InFrame(t)'
    <2>1. c # NoCall BY CallFacts, Zenon
    <2>2. MaxFileSize \in Nat BY StorageConstants, Zenon
    <2>3. frame'[t].res.err = "NONE" /\ frame'[t].fd = 0 BY InvokeFacts DEF NoResult, NoFile
    <2>4. frame'[t].pc \in {"reject", "open", "lock"} BY InvokeFacts, Zenon
    <2> QED BY <1>6, <1>7, <2>1, <2>2, <2>3, <2>4, InvokeFacts DEF InFrame, NoFile
  <1>9. InLocks(t)'
    <2>1. frame'[t].pc = "reject" => script'[t] = <<>> BY <1>4, InvokeFacts, Zenon
    <2>2. frame'[t].pc = "lock" => script'[t] = Guards(c) /\ t \notin leaving'
      BY <1>2, <1>4, InvokeFacts, Zenon
    <2>3. frame'[t].pc = "open" => script'[t] = Guards(c) /\ pos'[t] = Len(script'[t])
      BY <1>2, <1>4, InvokeFacts
    <2>4. frame'[t].pc \in {"reject", "open", "lock"} /\ frame'[t].call = c BY InvokeFacts, Zenon
    <2> QED BY <2>1, <2>2, <2>3, <2>4, Zenon DEF InLocks
  <1>10. frame' \in [Threads -> Frames] BY InvokeFacts, Zenon
  <1>11. WellFormed(tree', Len(data')) /\ data' \in Seq(Seq(Chunks)) /\ Len(data) <= Len(data')
    BY <1>1, <1>6, <1>7 DEF Types
  <1> QED BY <1>5, <1>8, <1>9, <1>10, <1>11, ThreadStep, Zenon

\* A call goes on at another place, with other values of its local variables.
Goes(t, p, i, k, b) ==
    frame' = [frame EXCEPT ![t].pc = p, ![t].fd = i, ![t].size = k, ![t].buf = b]

\* The frame of that call.
LEMMA GoesFacts ==
    ASSUME Inv, NEW t \in Threads, NEW p \in {"lock", "open", "stat", "io", "return"}, NEW i \in Nat,
           NEW k \in Nat, NEW b \in Seq(Chunks),
           Goes(t, p, i, k, b)
    PROVE  /\ frame' \in [Threads -> Frames]
           /\ \A u \in Threads \ {t} : frame'[u] = frame[u]
           /\ frame'[t].pc = p /\ frame'[t].fd = i /\ frame'[t].size = k /\ frame'[t].buf = b
           /\ frame'[t].call = frame[t].call /\ frame'[t].res = frame[t].res
           /\ frame'[t].full_path = frame[t].full_path /\ frame'[t].full_new = frame[t].full_new
  <1>1. frame \in [Threads -> Frames] /\ frame[t] \in Frames BY Zenon DEF Inv, Types
  <1>2. PICK g : g = [frame[t] EXCEPT !.pc = p, !.fd = i, !.size = k, !.buf = b] BY Zenon
  <1>3. g \in Frames BY <1>1, <1>2, Zenon DEF Frames
  <1>4. frame' = [frame EXCEPT ![t] = g] BY <1>1, <1>2, Zenon DEF Goes
  <1>5. frame'[t] = g BY <1>1, <1>4, Zenon
  <1>6. /\ g.pc = p /\ g.fd = i /\ g.size = k /\ g.buf = b /\ g.call = frame[t].call
        /\ g.res = frame[t].res /\ g.full_path = frame[t].full_path /\ g.full_new = frame[t].full_new
    BY <1>1, <1>2, Zenon DEF Frames
  <1> QED BY <1>1, <1>3, <1>4, <1>5, <1>6, Zenon

\* What a turn in lock_read or lock_write does for the thread, and for the others.
LEMMA LockTurn ==
    ASSUME LockFacts, NEW t \in Threads, Locker!lock_read(t) \/ Locker!lock_write(t)
    PROVE  /\ script' = script /\ leaving' = leaving
           /\ \A u \in Threads \ {t} : pos'[u] = pos[u]
           /\ pos' = pos \/ pos'[t] = pos[t] + 1
  <1>1. pos \in [Threads -> Nat] BY Zenon DEF LockFacts, Locker!TypeOK, Locker!Threads, Threads
  <1>2. CASE Locker!Wait(t) BY <1>2, Zenon DEF Locker!Wait
  <1>3. ASSUME NEW k, NEW st, Locker!Grant(t, k, st)
        PROVE  /\ script' = script /\ leaving' = leaving
               /\ \A u \in Threads \ {t} : pos'[u] = pos[u]
               /\ pos'[t] = pos[t] + 1
    BY <1>1, <1>3, Zenon DEF Locker!Grant
  <1> QED BY <1>2, <1>3, Zenon DEF Locker!lock_read, Locker!lock_write

\* The constructor of a guard.
LEMMA LockInv ==
    ASSUME Inv, LockFacts, NEW t \in Threads, Lock(t)
    PROVE  Inv'
  <1>1. Types /\ InFrame(t) /\ InLocks(t) /\ frame[t].pc = "lock" BY Zenon DEF Inv, Lock
  <1>2. PICK p \in {"lock", "open"} : p = IF pos'[t] = Len(script[t]) THEN "open" ELSE "lock"
    BY Zenon
  <1>3. frame[t].fd \in Nat /\ frame[t].size \in Nat /\ frame[t].buf \in Seq(Chunks)
    BY <1>1, FrameFields, Zenon
  <1>4. Goes(t, p, frame[t].fd, frame[t].size, frame[t].buf)
    <2>1. frame \in [Threads -> Frames] BY <1>1, Zenon DEF Types
    <2>2. frame' = [frame EXCEPT ![t].pc = p] BY <1>2, Zenon DEF Lock
    <2> QED BY <2>1, <2>2, Zenon DEF Frames, Goes
  <1>5. /\ frame' \in [Threads -> Frames]
        /\ \A u \in Threads \ {t} : frame'[u] = frame[u]
        /\ frame'[t].pc = p /\ frame'[t].fd = frame[t].fd
        /\ frame'[t].size = frame[t].size /\ frame'[t].buf = frame[t].buf
        /\ frame'[t].call = frame[t].call /\ frame'[t].res = frame[t].res
        /\ frame'[t].full_path = frame[t].full_path /\ frame'[t].full_new = frame[t].full_new
    BY <1>3, <1>4, GoesFacts
  <1>6. Locker!lock_read(t) \/ Locker!lock_write(t) BY Zenon DEF Lock
  <1>7. /\ script' = script /\ leaving' = leaving
        /\ \A u \in Threads \ {t} : pos'[u] = pos[u]
    BY <1>6, LockTurn, Zenon
  <1>8. Others(t) BY <1>5, <1>7, Zenon DEF Others
  <1>9. data' = data /\ tree' = tree BY Zenon DEF Lock
  <1>10. InFrame(t)' BY <1>1, <1>2, <1>5, <1>9, Zenon DEF InFrame
  <1>11. InLocks(t)' BY <1>1, <1>2, <1>5, <1>7, Zenon DEF InLocks
  <1>12. WellFormed(tree', Len(data')) /\ data' \in Seq(Seq(Chunks)) /\ Len(data) <= Len(data')
    BY <1>1, <1>9 DEF Types
  <1> QED BY <1>5, <1>8, <1>10, <1>11, <1>12, ThreadStep, Zenon

\* The destructor of a guard.
LEMMA UnlockInv ==
    ASSUME Inv, LockFacts, NEW t \in Threads, Unlock(t)
    PROVE  Inv'
  <1>1. Types /\ InFrame(t) /\ frame[t].pc = "return" /\ frame' = frame /\ data' = data /\ tree' = tree
    BY Zenon DEF Inv, Unlock
  <1>2. Locker!PopGuard(t) BY Zenon DEF Unlock, Locker!unlock_read, Locker!unlock_write
  <1>3. pos \in [Threads -> Nat] /\ DOMAIN script = Threads
    BY Zenon DEF LockFacts, Locker!TypeOK, Locker!Threads, Threads
  <1>4. Others(t) BY <1>1, <1>2, <1>3, Zenon DEF Others, Locker!PopGuard
  <1>5. InFrame(t)' BY <1>1, Zenon DEF InFrame
  <1>6. InLocks(t)' BY <1>1, Zenon DEF InLocks
  <1>7. /\ frame' \in [Threads -> Frames] /\ WellFormed(tree', Len(data'))
        /\ data' \in Seq(Seq(Chunks)) /\ Len(data) <= Len(data')
    BY <1>1 DEF Types
  <1> QED BY <1>4, <1>5, <1>6, <1>7, ThreadStep, Zenon

\* A call returns to its caller.
LEMMA ReturnInv ==
    ASSUME Inv, NEW t \in Threads, Return(t)
    PROVE  Inv'
  <1>1. Types /\ frame \in [Threads -> Frames] /\ data' = data /\ tree' = tree
    BY Zenon DEF Inv, Types, Return
  <1>2. frame' = [frame EXCEPT ![t] = Idle] /\ script[t] = <<>> /\ UNCHANGED lockVars
    BY Zenon DEF Return, Locker!Idle
  <1>3. Idle \in Frames
    <2>1. 0 \in Nat /\ <<>> \in Seq(Names) /\ <<>> \in Seq(Chunks) OBVIOUS
    <2> QED BY <2>1, Zenon DEF Idle, Frames, AllCalls, NoResult, NoFile, Errors
  <1>4. Others(t) BY <1>1, <1>2, Zenon DEF Others, lockVars
  <1>5. frame'[t] = Idle /\ frame' \in [Threads -> Frames] BY <1>1, <1>2, <1>3, Zenon
  <1>6. data \in Seq(Seq(Chunks)) /\ Len(data) \in Nat BY <1>1 DEF Types
  <1>7. InFrame(t)'
    BY <1>1, <1>5, <1>6, StorageConstants DEF InFrame, Idle, NoResult, NoFile, NoCall
  <1>8. InLocks(t)' BY <1>2, <1>5, Zenon DEF InLocks, lockVars, Idle
  <1>9. /\ WellFormed(tree', Len(data')) /\ data' \in Seq(Seq(Chunks)) /\ Len(data) <= Len(data')
    BY <1>1, <1>6 DEF Types
  <1> QED BY <1>4, <1>5, <1>7, <1>8, <1>9, ThreadStep, Zenon

\* What an operation returns is an error code, also when it tolerates the outcome.
LEMMA OutcomeFacts ==
    ASSUME NEW sys, NEW tolerated
    PROVE  /\ Outcome(sys, tolerated).err \in Errors \ {"NONE"}
           /\ Outcome(sys, tolerated).tree = sys.tree
           /\ from_errno(sys.err) \in Errors \ {"NONE"}
  BY Zenon DEF Outcome, from_errno, Errors

\* The outcome does not depend on what is in the files.
LEMMA OutcomeSeen ==
    ASSUME NEW sys, NEW tolerated, NEW d
    PROVE  Outcome(Seen(sys, d), tolerated) = Seen(Outcome(sys, tolerated), d)
  BY Zenon DEF Outcome, Seen

\* A call in its body has been accepted.
LEMMA BodyFacts ==
    ASSUME Inv, NEW t \in Threads, frame[t].pc \in {"open", "stat", "io"}
    PROVE  /\ frame[t].call \in Calls(t) /\ Accepted(frame[t].call) /\ frame[t].res = NoResult
           /\ frame[t].full_path = Location(frame[t].call.path)
           /\ frame[t].call.type = "RENAME" => frame[t].full_new = Location(frame[t].call.new_path)
  <1>1. InFrame(t) BY Zenon DEF Inv
  <1>2. frame[t].res = NoResult BY <1>1, Zenon DEF InFrame
  <1> QED BY <1>1, <1>2, Zenon DEF InFrame

\* The operations that are one system call do to the contents of all files what
\* apply_command says.
LEMMA TreeCallFacts ==
    ASSUME Inv, NEW t \in Threads,
           At(t, "open", {"CREATE_DIR", "RENAME", "DELETE_FILE", "DELETE_DIR"})
    PROVE  /\ WellFormed(TreeCall(t).tree, Len(data))
           /\ TreeCall(t).err \in Errors \ {"NONE"}
           /\ apply_command(ContentsOf(tree, data), frame[t].call) = Seen(TreeCall(t), data)
  <1>1. Types /\ frame[t].pc = "open" BY Zenon DEF Inv, At
  <1>2. data \in Seq(Seq(Chunks)) /\ Len(data) \in Nat /\ WellFormed(tree, Len(data))
    BY <1>1 DEF Types
  <1>3. PICK c, l, m : c = frame[t].call /\ l = frame[t].full_path /\ m = frame[t].full_new BY Zenon
  <1>4. l \in Seq(Names) /\ m \in Seq(Names) BY <1>1, <1>3, FrameFields, Zenon
  <1>5. Accepted(c) /\ l = Location(c.path) /\ (c.type = "RENAME" => m = Location(c.new_path))
    BY <1>1, <1>3, BodyFacts, Zenon
  <1>6. Valid(c.path) /\ (c.type = "RENAME" => Valid(c.new_path)) BY <1>5, Zenon DEF Accepted
  <1>7. CASE c.type = "CREATE_DIR"
    <2>1. TreeCall(t) = Outcome(sys_mkdir(tree, l), {"EEXIST"}) BY <1>3, <1>7, Zenon DEF TreeCall
    <2>2. apply_command(ContentsOf(tree, data), c) = Outcome(sys_mkdir(ContentsOf(tree, data), l), {"EEXIST"})
      BY <1>5, <1>6, <1>7, Zenon DEF apply_command, create_directory
    <2>3. /\ sys_mkdir(ContentsOf(tree, data), l) = Seen(sys_mkdir(tree, l), data)
          /\ WellFormed(sys_mkdir(tree, l).tree, Len(data))
      BY <1>2, <1>4, MkdirSeen, Zenon
    <2> QED BY <1>3, <2>1, <2>2, <2>3, OutcomeFacts, OutcomeSeen
  <1>8. CASE c.type = "DELETE_FILE"
    <2>1. TreeCall(t) = Outcome(sys_unlink(tree, l), {"ENOENT"}) BY <1>3, <1>8, Zenon DEF TreeCall
    <2>2. apply_command(ContentsOf(tree, data), c) = Outcome(sys_unlink(ContentsOf(tree, data), l), {"ENOENT"})
      BY <1>5, <1>6, <1>8, Zenon DEF apply_command, delete_file
    <2>3. /\ sys_unlink(ContentsOf(tree, data), l) = Seen(sys_unlink(tree, l), data)
          /\ WellFormed(sys_unlink(tree, l).tree, Len(data))
      BY <1>2, <1>4, UnlinkSeen, Zenon
    <2> QED BY <1>3, <2>1, <2>2, <2>3, OutcomeFacts, OutcomeSeen
  <1>9. CASE c.type = "DELETE_DIR"
    <2>1. TreeCall(t) = Outcome(sys_rmdir(tree, l), {"ENOENT"}) BY <1>3, <1>9, Zenon DEF TreeCall
    <2>2. apply_command(ContentsOf(tree, data), c) = Outcome(sys_rmdir(ContentsOf(tree, data), l), {"ENOENT"})
      BY <1>5, <1>6, <1>9, Zenon DEF apply_command, delete_directory
    <2>3. /\ sys_rmdir(ContentsOf(tree, data), l) = Seen(sys_rmdir(tree, l), data)
          /\ WellFormed(sys_rmdir(tree, l).tree, Len(data))
      BY <1>2, <1>4, RmdirSeen, Zenon
    <2> QED BY <1>3, <2>1, <2>2, <2>3, OutcomeFacts, OutcomeSeen
  <1>10. CASE c.type = "RENAME"
    <2>1. TreeCall(t) = Outcome(sys_rename(tree, l, m), {}) BY <1>3, <1>10, Zenon DEF TreeCall
    <2>2. apply_command(ContentsOf(tree, data), c) = Outcome(sys_rename(ContentsOf(tree, data), l, m), {})
      BY <1>5, <1>6, <1>10, Zenon DEF apply_command, rename
    <2>3. /\ sys_rename(ContentsOf(tree, data), l, m) = Seen(sys_rename(tree, l, m), data)
          /\ WellFormed(sys_rename(tree, l, m).tree, Len(data))
      BY <1>2, <1>4, RenameSeen, Zenon
    <2> QED BY <1>3, <2>1, <2>2, <2>3, OutcomeFacts, OutcomeSeen
  <1> QED BY <1>3, <1>7, <1>8, <1>9, <1>10, Zenon DEF At

\* create_file likewise: a new inode, or none.
LEMMA CreateFacts ==
    ASSUME Inv, NEW t \in Threads, CreateFile(t)
    PROVE  /\ WellFormed(tree', Len(data')) /\ data' \in Seq(Seq(Chunks)) /\ Len(data) <= Len(data')
           /\ apply_command(ContentsOf(tree, data), frame[t].call)
                = [err |-> Outcome(sys_open_excl(tree, frame[t].full_path, NewInode), {"EEXIST"}).err,
                   tree |-> ContentsOf(tree', data')]
  <1>1. Types /\ frame[t].pc = "open" BY Zenon DEF Inv, CreateFile, At
  <1>2. data \in Seq(Seq(Chunks)) /\ WellFormed(tree, Len(data)) BY <1>1, Zenon DEF Types
  <1>3. PICK c, l, sys, see :
          /\ c = frame[t].call /\ l = frame[t].full_path /\ sys = sys_open_excl(tree, l, Len(data) + 1)
          /\ see = sys_open_excl(ContentsOf(tree, data), l, <<>>)
    BY Zenon
  <1>4. l \in Seq(Names) BY <1>1, <1>3, FrameFields, Zenon
  <1>5. c.type = "CREATE_FILE" /\ Valid(c.path) /\ l = Location(c.path)
    BY <1>1, <1>3, BodyFacts, Zenon DEF Accepted, CreateFile, At
  <1>6. apply_command(ContentsOf(tree, data), c) = Outcome(see, {"EEXIST"})
    BY <1>3, <1>5, Zenon DEF apply_command, create_file
  <1>7. tree' = sys.tree /\ data' = IF sys.err = "OK" THEN Append(data, <<>>) ELSE data
    BY <1>3, Zenon DEF CreateFile, NewInode
  <1>8. /\ WellFormed(sys.tree, Len(data')) /\ data' \in Seq(Seq(Chunks)) /\ Len(data) <= Len(data')
        /\ see.err = sys.err /\ see.tree = ContentsOf(sys.tree, data')
    <2>1. PICK d, e, n, i : d = data /\ e = data' /\ n = Len(data) /\ i = n + 1 BY Zenon
    <2>2. n \in Nat /\ WellFormed(tree, n) /\ sys = sys_open_excl(tree, l, i) BY <1>2, <1>3, <2>1
    <2>3. sys_open_excl(ContentsOf(tree, d), l, <<>>).err = sys.err BY <2>2, CreatedSeen
    <2>4. CASE sys.err = "OK"
      <3>1. data' = Append(data, <<>>) BY <1>7, <2>4, Zenon
      <3>2. data' \in Seq(Seq(Chunks)) /\ Len(data') = i BY <1>2, <2>1, <3>1
      <3>3. e[i] = <<>> /\ \A j \in 1..n : e[j] = d[j] BY <1>2, <2>1, <3>1
      <3>4. /\ sys.tree = With(tree, l, File(i)) /\ ~Exists(tree, l)
            /\ see.tree = With(ContentsOf(tree, d), l, File(<<>>))
        BY <1>3, <2>1, <2>2, <2>3, <2>4, OpenExclFacts
      <3>5. ContentsOf(With(tree, l, File(i)), e) = With(ContentsOf(tree, d), l, File(e[i]))
        <4>1. \A j \in 1..n : e[j] = d[j] BY <3>3, Zenon
        <4> QED BY <2>2, <3>4, <4>1, ContentsWithFile
      <3>6. WellFormed(sys.tree, i) BY <1>4, <2>1, <2>2, <2>4, CreatedFormed, Zenon
      <3> QED BY <1>3, <2>1, <2>2, <2>3, <3>2, <3>3, <3>4, <3>5, <3>6
    <2>5. CASE sys.err # "OK"
      <3>1. data' = data BY <1>7, <2>5, Zenon
      <3>2. sys.tree = tree /\ see.tree = ContentsOf(tree, data)
        BY <1>3, <2>1, <2>2, <2>3, <2>5, OpenExclFacts
      <3> QED BY <1>2, <1>3, <2>1, <2>3, <3>1, <3>2
    <2> QED BY <2>4, <2>5, Zenon
  <1> QED BY <1>3, <1>6, <1>7, <1>8, Zenon DEF Outcome, NewInode

\* Readers read, and the applier does everything else.
LEMMA WhoseCall ==
    ASSUME Inv, NEW t \in Threads, frame[t].pc # "idle"
    PROVE  /\ frame[t].call \in Calls(t)
           /\ frame[t].call.type # "READ_FILE" => t = Applier /\ frame[t].call \in Commands
           /\ frame[t].call.type = "READ_FILE" => t \in Readers /\ frame[t].call.path \in ReadPaths
  <1>1. frame[t].call \in Calls(t) BY Zenon DEF Inv, InFrame
  <1>2. t \in Readers \/ t = Applier BY Zenon DEF Threads
  <1> QED BY <1>1, <1>2, CallFacts, Zenon DEF CommandTypes

\* Opening for writing: the file is made unless it is there.
LEMMA OpenWriteFacts ==
    ASSUME Inv, NEW t \in Threads, OpenForWriting(t),
           WalkErr(tree, frame[t].full_path) = "OK", ~IsDir(tree, frame[t].full_path)
    PROVE  /\ frame' = [frame EXCEPT ![t].pc = "io", ![t].fd = tree'[frame[t].full_path].body]
           /\ before' = ContentsOf(tree, data)
           /\ tree' = IF Exists(tree, frame[t].full_path) THEN tree
                      ELSE With(tree, frame[t].full_path, File(NewInode))
  <1>1. PICK l, sys : l = frame[t].full_path /\ sys = sys_open_creat(tree, l, NewInode) BY Zenon
  <1>2. sys.err = "OK" /\ sys.tree = IF Exists(tree, l) THEN tree ELSE With(tree, l, File(NewInode))
    BY <1>1, OpenCreatFacts, Zenon
  <1> QED BY <1>1, <1>2, Zenon DEF OpenForWriting

\* The inode that is opened; only the truncation touches what was there.
LEMMA OpenWriteInode ==
    ASSUME Inv, NEW t \in Threads, OpenForWriting(t),
           WalkErr(tree, frame[t].full_path) = "OK", ~IsDir(tree, frame[t].full_path),
           NEW ino, ino = tree'[frame[t].full_path].body
    PROVE  /\ data' \in Seq(Seq(Chunks)) /\ Len(data) <= Len(data') /\ ino \in 1..Len(data')
           /\ WellFormed(tree', Len(data')) /\ IsFile(tree', frame[t].full_path)
           /\ \A j \in 1..Len(data) : j # ino => data'[j] = data[j]
           /\ ~Exists(tree, frame[t].full_path) \/ frame[t].call.type = "WRITE_FILE" => data'[ino] = <<>>
           /\ Exists(tree, frame[t].full_path) /\ frame[t].call.type # "WRITE_FILE" => data' = data
  <1>1. Types BY Zenon DEF Inv
  <1>2. data \in Seq(Seq(Chunks)) /\ WellFormed(tree, Len(data)) BY <1>1, Zenon DEF Types
  <1>3. PICK l, w : l = frame[t].full_path /\ w = frame[t].call.type BY Zenon
  <1>4. l \in Seq(Names) BY <1>1, <1>3, FrameFields, Zenon
  <1>5. sys_open_creat(tree, l, Len(data) + 1).err = "OK" BY <1>3, OpenCreatFacts, Zenon
  <1>6. /\ tree' = sys_open_creat(tree, l, Len(data) + 1).tree
        /\ data' = OpenData(data, ino, w)
    BY <1>3, <1>5, Zenon DEF OpenForWriting, NewInode, OpenData
  <1>7. /\ IsFile(tree', l) /\ (Exists(tree, l) => tree' = tree /\ ino \in 1..Len(data))
        /\ ~Exists(tree, l) => ino = Len(data) + 1 /\ WellFormed(tree', Len(data) + 1)
    <2>1. PICK g, n : g = tree' /\ n = Len(data) BY Zenon
    <2>2. n \in Nat /\ WellFormed(tree, n) /\ g = sys_open_creat(tree, l, n + 1).tree
      BY <1>2, <1>6, <2>1
    <2>3. /\ IsFile(g, l)
          /\ Exists(tree, l) => g = tree /\ g[l].body \in 1..n
          /\ ~Exists(tree, l) => g[l].body = n + 1 /\ WellFormed(g, n + 1)
      BY <1>3, <1>4, <2>2, OpenedInode
    <2> QED BY <1>3, <2>1, <2>3, Zenon
  <1>8. Len(data) \in Nat /\ ino \in 1..Len(data) + 1 BY <1>2, <1>7
  <1>9. /\ data' \in Seq(Seq(Chunks)) /\ Len(data') = IF ino = Len(data) + 1 THEN ino ELSE Len(data)
        /\ \A j \in 1..Len(data) : j # ino => data'[j] = data[j]
        /\ ino = Len(data) + 1 \/ w = "WRITE_FILE" => data'[ino] = <<>>
        /\ ino # Len(data) + 1 /\ w # "WRITE_FILE" => data' = data
    <2>1. PICK d, i : d = data /\ i = ino BY Zenon
    <2>2. d \in Seq(Seq(Chunks)) /\ i \in 1..Len(d) + 1 BY <1>2, <1>8, <2>1, Zenon
    <2>3. /\ OpenData(d, i, w) \in Seq(Seq(Chunks))
          /\ Len(OpenData(d, i, w)) = IF i = Len(d) + 1 THEN i ELSE Len(d)
          /\ \A j \in 1..Len(d) : j # i => OpenData(d, i, w)[j] = d[j]
          /\ i = Len(d) + 1 \/ w = "WRITE_FILE" => OpenData(d, i, w)[i] = <<>>
          /\ i # Len(d) + 1 /\ w # "WRITE_FILE" => OpenData(d, i, w) = d
      BY <2>2, OpenDataFacts, Zenon
    <2> QED BY <1>6, <2>1, <2>3, Zenon
  <1>10. CASE Exists(tree, l) BY <1>2, <1>3, <1>7, <1>8, <1>9, <1>10
  <1>11. CASE ~Exists(tree, l) BY <1>2, <1>3, <1>7, <1>8, <1>9, <1>11
  <1> QED BY <1>10, <1>11, Zenon

\* A call that ends with an error before it has changed anything.
LEMMA FinishSame ==
    ASSUME Inv, NEW t \in Threads, frame[t].pc # "idle",
           NEW err \in Errors \ {"NONE"}, NEW bytes \in Seq(Chunks), Finish(t, err, bytes),
           UNCHANGED <<lockVars, tree, data>>
    PROVE  Inv'
  <1>1. data' = data /\ tree' = tree /\ UNCHANGED lockVars BY Zenon
  <1>2. data \in Seq(Seq(Chunks)) /\ WellFormed(tree, Len(data)) BY Zenon DEF Inv, Types
  <1>3. Len(data) <= Len(data') BY <1>1, <1>2
  <1> QED BY <1>1, <1>2, <1>3, FinishInv, Zenon

\* A call that goes on with its file open.
LEMMA GoesInv ==
    ASSUME Inv, NEW t \in Threads, frame[t].pc \in {"open", "stat", "io"},
           NEW p \in {"stat", "io"}, NEW i \in 1..Len(data'), NEW k \in 0..MaxFileSize,
           NEW b \in Seq(Chunks), Goes(t, p, i, k, b), UNCHANGED lockVars,
           p = "stat" => frame[t].call.type = "READ_FILE" /\ b = <<>>,
           p = "io" => frame[t].call.type \in {"READ_FILE", "WRITE_FILE", "APPEND_FILE"},
           data' \in Seq(Seq(Chunks)), Len(data) <= Len(data'), WellFormed(tree', Len(data'))
    PROVE  Inv'
  <1>1. InFrame(t) /\ InLocks(t) /\ MaxFileSize \in Nat BY StorageConstants, Zenon DEF Inv
  <1>2. i \in Nat /\ i # 0 /\ i <= Len(data') /\ k \in Nat /\ k <= MaxFileSize BY <1>1
  <1>3. p \in {"lock", "open", "stat", "io", "return"} BY Zenon
  <1>4. /\ frame' \in [Threads -> Frames]
        /\ \A u \in Threads \ {t} : frame'[u] = frame[u]
        /\ frame'[t].pc = p /\ frame'[t].fd = i /\ frame'[t].size = k /\ frame'[t].buf = b
        /\ frame'[t].call = frame[t].call /\ frame'[t].res = frame[t].res
        /\ frame'[t].full_path = frame[t].full_path /\ frame'[t].full_new = frame[t].full_new
    BY <1>2, <1>3, GoesFacts, Zenon
  <1>5. Others(t) BY <1>4, Zenon DEF Others, lockVars
  <1>6. InFrame(t)' BY <1>1, <1>2, <1>4, Zenon DEF InFrame, NoFile
  <1>7. InLocks(t)' BY <1>1, <1>4, Zenon DEF InLocks, lockVars
  <1> QED BY <1>4, <1>5, <1>6, <1>7, ThreadStep, Zenon

\* A change of the place, the descriptor or a local variable, as one of all four.
LEMMA GoesForms ==
    ASSUME Inv, NEW t \in Threads, NEW p, NEW x, NEW b
    PROVE  /\ frame' = [frame EXCEPT ![t].pc = p, ![t].fd = x] =>
                 Goes(t, p, x, frame[t].size, frame[t].buf)
           /\ frame' = [frame EXCEPT ![t].pc = p, ![t].size = x] =>
                 Goes(t, p, frame[t].fd, x, frame[t].buf)
           /\ frame' = [frame EXCEPT ![t].buf = b] =>
                 Goes(t, frame[t].pc, frame[t].fd, frame[t].size, b)
  <1>1. frame \in [Threads -> Frames] BY Zenon DEF Inv, Types
  <1>2. frame' = [frame EXCEPT ![t].pc = p, ![t].fd = x] =>
          Goes(t, p, x, frame[t].size, frame[t].buf)
    BY <1>1, Zenon DEF Frames, Goes
  <1>3. frame' = [frame EXCEPT ![t].pc = p, ![t].size = x] =>
          Goes(t, p, frame[t].fd, x, frame[t].buf)
    BY <1>1, Zenon DEF Frames, Goes
  <1>4. frame' = [frame EXCEPT ![t].buf = b] =>
          Goes(t, frame[t].pc, frame[t].fd, frame[t].size, b)
    BY <1>1, Zenon DEF Frames, Goes
  <1> QED BY <1>2, <1>3, <1>4, Zenon

\* write_file and append_file open their file, or fail to.
LEMMA OpenForWritingInv ==
    ASSUME Inv, NEW t \in Threads, OpenForWriting(t)
    PROVE  Inv'
  <1>1. Types /\ InFrame(t) BY Zenon DEF Inv
  <1>2. /\ frame[t].pc = "open" /\ frame[t].call.type \in {"WRITE_FILE", "APPEND_FILE"}
        /\ UNCHANGED lockVars
    BY Zenon DEF OpenForWriting, At
  <1>3. PICK l : l = frame[t].full_path BY Zenon
  <1>4. CASE WalkErr(tree, l) = "OK" /\ ~IsDir(tree, l)
    <2>1. PICK ino : ino = tree'[l].body BY Zenon
    <2>2. /\ data' \in Seq(Seq(Chunks)) /\ Len(data) <= Len(data') /\ ino \in 1..Len(data')
          /\ WellFormed(tree', Len(data'))
      BY <1>3, <1>4, <2>1, OpenWriteInode, Zenon
    <2>3. frame' = [frame EXCEPT ![t].pc = "io", ![t].fd = ino]
      BY <1>3, <1>4, <2>1, OpenWriteFacts, Zenon
    <2>4. Goes(t, "io", ino, frame[t].size, frame[t].buf) BY <2>3, GoesForms, Zenon
    <2>5. frame[t].size \in Nat /\ frame[t].buf \in Seq(Chunks) BY <1>1, FrameFields, Zenon
    <2>6. frame[t].size <= MaxFileSize /\ MaxFileSize \in Nat
      BY <1>1, StorageConstants, Zenon DEF InFrame
    <2>7. frame[t].size \in 0..MaxFileSize BY <2>5, <2>6
    <2>8. "io" \in {"stat", "io"} /\ "io" # "stat" BY Zenon
    <2> QED BY <1>2, <2>2, <2>4, <2>5, <2>7, <2>8, GoesInv, Zenon
  <1>5. CASE ~(WalkErr(tree, l) = "OK" /\ ~IsDir(tree, l))
    <2>1. PICK sys : sys = sys_open_creat(tree, l, NewInode) BY Zenon
    <2>2. sys.err # "OK" /\ sys.tree = tree BY <1>5, <2>1, OpenCreatFacts, Zenon
    <2>3. Finish(t, from_errno(sys.err), <<>>) /\ UNCHANGED <<lockVars, tree, data>>
      BY <1>3, <2>1, <2>2, Zenon DEF OpenForWriting
    <2>4. from_errno(sys.err) \in Errors \ {"NONE"} BY OutcomeFacts, Zenon
    <2>5. <<>> \in Seq(Chunks) OBVIOUS
    <2> QED BY <1>2, <2>3, <2>4, <2>5, FinishSame, Zenon
  <1> QED BY <1>4, <1>5, Zenon

\* The inode of an open file.
LEMMA OpenFd ==
    ASSUME Inv, NEW t \in Threads, frame[t].pc \in {"stat", "io"}
    PROVE  frame[t].fd \in 1..Len(data) /\ data[frame[t].fd] \in Seq(Chunks)
  <1>1. Types /\ InFrame(t) BY Zenon DEF Inv
  <1>2. data \in Seq(Seq(Chunks)) /\ frame[t].fd \in Nat BY <1>1, FrameFields, Zenon DEF Types
  <1>3. frame[t].fd # 0 /\ frame[t].fd <= Len(data) BY <1>1, Zenon DEF InFrame, NoFile
  <1>4. frame[t].fd \in 1..Len(data) BY <1>2, <1>3
  <1> QED BY <1>2, <1>4

\* A turn of the write loop adds the next chunk to the one open file.
LEMMA WriteFacts ==
    ASSUME Inv, NEW t \in Threads, WriteChunk(t), Len(frame[t].buf) < Len(frame[t].call.contents)
    PROVE  /\ frame[t].call.contents[Len(frame[t].buf) + 1] \in Chunks
           /\ Goes(t, "io", frame[t].fd, frame[t].size,
                   Append(frame[t].buf, frame[t].call.contents[Len(frame[t].buf) + 1]))
           /\ data' \in Seq(Seq(Chunks)) /\ Len(data') = Len(data)
           /\ data'[frame[t].fd]
                = Append(data[frame[t].fd], frame[t].call.contents[Len(frame[t].buf) + 1])
           /\ \A j \in 1..Len(data) : j # frame[t].fd => data'[j] = data[j]
  <1>1. Types /\ frame[t].pc = "io" /\ frame[t].call.type \in {"WRITE_FILE", "APPEND_FILE"}
    BY Zenon DEF Inv, WriteChunk, At
  <1>2. frame[t].call \in Commands BY <1>1, WhoseCall, Zenon
  <1>3. frame[t].call.contents \in Seq(Chunks) /\ frame[t].buf \in Seq(Chunks)
    BY <1>1, <1>2, CommandFacts, FrameFields, Zenon
  <1>4. PICK x, i : x = frame[t].call.contents[Len(frame[t].buf) + 1] /\ i = frame[t].fd BY Zenon
  <1>5. x \in Chunks BY <1>3, <1>4
  <1>6. i \in 1..Len(data) /\ data[i] \in Seq(Chunks) BY <1>1, <1>4, OpenFd, Zenon
  <1>7. data \in Seq(Seq(Chunks)) BY <1>1, Zenon DEF Types
  <1>8. PICK y : y = Append(data[i], x) BY Zenon
  <1>9. y \in Seq(Chunks) BY <1>5, <1>6, <1>8
  <1>10. data' = [data EXCEPT ![i] = y] /\ frame' = [frame EXCEPT ![t].buf = Append(@, x)]
    BY <1>4, <1>8, Zenon DEF WriteChunk
  <1>11. /\ data' \in Seq(Seq(Chunks)) /\ Len(data') = Len(data) /\ data'[i] = y
         /\ \A j \in 1..Len(data) : j # i => data'[j] = data[j]
    BY <1>6, <1>7, <1>9, <1>10
  <1>12. frame' = [frame EXCEPT ![t].buf = Append(frame[t].buf, x)]
    <2>1. frame \in [Threads -> Frames] BY <1>1, Zenon DEF Types
    <2> QED BY <1>10, <2>1, Zenon
  <1>13. Goes(t, "io", i, frame[t].size, Append(frame[t].buf, x))
    BY <1>1, <1>4, <1>12, GoesForms, Zenon
  <1> QED BY <1>4, <1>5, <1>8, <1>11, <1>13, Zenon

\* The write loop.
LEMMA WriteChunkInv ==
    ASSUME Inv, NEW t \in Threads, WriteChunk(t)
    PROVE  Inv'
  <1>1. Types /\ InFrame(t) BY Zenon DEF Inv
  <1>2. /\ frame[t].pc = "io" /\ frame[t].call.type \in {"WRITE_FILE", "APPEND_FILE"}
        /\ UNCHANGED lockVars /\ tree' = tree
    BY Zenon DEF WriteChunk, At
  <1>3. CASE Len(frame[t].buf) < Len(frame[t].call.contents)
    <2>1. PICK b : b = Append(frame[t].buf, frame[t].call.contents[Len(frame[t].buf) + 1]) BY Zenon
    <2>2. Goes(t, "io", frame[t].fd, frame[t].size, b) BY <1>3, <2>1, WriteFacts, Zenon
    <2>3. data' \in Seq(Seq(Chunks)) /\ Len(data') = Len(data) BY <1>3, WriteFacts, Zenon
    <2>4. frame[t].fd \in 1..Len(data') BY <1>2, <2>3, OpenFd, Zenon
    <2>5. WellFormed(tree', Len(data')) /\ Len(data) <= Len(data') BY <1>1, <1>2, <2>3 DEF Types
    <2>6. frame[t].size \in Nat /\ frame[t].buf \in Seq(Chunks) BY <1>1, FrameFields, Zenon
    <2>7. frame[t].size <= MaxFileSize /\ MaxFileSize \in Nat
      BY <1>1, StorageConstants, Zenon DEF InFrame
    <2>8. frame[t].size \in 0..MaxFileSize BY <2>6, <2>7
    <2>9. b \in Seq(Chunks) BY <1>3, <2>1, <2>6, WriteFacts
    <2>10. "io" \in {"stat", "io"} /\ "io" # "stat" BY Zenon
    <2> QED BY <1>2, <2>2, <2>3, <2>4, <2>5, <2>8, <2>9, <2>10, GoesInv, Zenon
  <1>4. CASE ~(Len(frame[t].buf) < Len(frame[t].call.contents))
    <2>1. Finish(t, "Ok", <<>>) /\ UNCHANGED <<lockVars, tree, data>> BY <1>4, Zenon DEF WriteChunk
    <2>2. "Ok" \in Errors \ {"NONE"} /\ <<>> \in Seq(Chunks) BY DEF Errors
    <2> QED BY <1>2, <2>1, <2>2, FinishSame, Zenon
  <1> QED BY <1>3, <1>4, Zenon

\* read_file opens its file, or fails to.
LEMMA OpenForReadingInv ==
    ASSUME Inv, NEW t \in Threads, OpenForReading(t)
    PROVE  Inv'
  <1>1. Types /\ InFrame(t) BY Zenon DEF Inv
  <1>2. /\ frame[t].pc = "open" /\ frame[t].call.type = "READ_FILE" /\ UNCHANGED <<lockVars, tree, data>>
    BY Zenon DEF OpenForReading, At
  <1>3. PICK l, sys : l = frame[t].full_path /\ sys = sys_open_read(tree, l) BY Zenon
  <1>4. CASE sys.err = "OK"
    <2>1. l \in DOMAIN tree /\ ~IsDir(tree, l) BY <1>3, <1>4, OpenReadFacts, Zenon DEF Exists
    <2>2. data \in Seq(Seq(Chunks)) /\ Len(data) \in Nat /\ WellFormed(tree, Len(data))
      BY <1>1 DEF Types
    <2>3. tree[l].body \in 1..Len(data) BY <2>1, <2>2, EntryFacts, Zenon
    <2>4. frame' = [frame EXCEPT ![t].pc = "stat", ![t].fd = tree[l].body]
      BY <1>3, <1>4, Zenon DEF OpenForReading
    <2>5. Goes(t, "stat", tree[l].body, frame[t].size, frame[t].buf) BY <2>4, GoesForms, Zenon
    <2>6. frame[t].size \in Nat /\ frame[t].buf \in Seq(Chunks) BY <1>1, FrameFields, Zenon
    <2>7. frame[t].size <= MaxFileSize /\ MaxFileSize \in Nat /\ frame[t].buf = <<>>
      BY <1>1, <1>2, StorageConstants, Zenon DEF InFrame
    <2>8. frame[t].size \in 0..MaxFileSize BY <2>6, <2>7
    <2>9. data' = data /\ tree' = tree /\ Len(data) <= Len(data') /\ UNCHANGED lockVars
      BY <1>2, <2>2
    <2>10. "stat" \in {"stat", "io"} /\ "io" # "stat" BY Zenon
    <2> QED BY <1>2, <2>2, <2>3, <2>5, <2>6, <2>7, <2>8, <2>9, <2>10, GoesInv, Zenon
  <1>5. CASE sys.err # "OK"
    <2>1. Finish(t, from_errno(sys.err), <<>>) BY <1>3, <1>5, Zenon DEF OpenForReading
    <2>2. from_errno(sys.err) \in Errors \ {"NONE"} BY OutcomeFacts, Zenon
    <2>3. <<>> \in Seq(Chunks) OBVIOUS
    <2> QED BY <1>2, <2>1, <2>2, <2>3, FinishSame, Zenon
  <1> QED BY <1>4, <1>5, Zenon

\* fstat and the size check.
LEMMA StatFileInv ==
    ASSUME Inv, NEW t \in Threads, StatFile(t)
    PROVE  Inv'
  <1>1. Types /\ InFrame(t) BY Zenon DEF Inv
  <1>2. /\ frame[t].pc = "stat" /\ frame[t].call.type = "READ_FILE" /\ UNCHANGED <<lockVars, tree, data>>
    BY Zenon DEF StatFile, At
  <1>3. PICK k : k = Len(data[frame[t].fd]) BY Zenon
  <1>4. frame[t].fd \in 1..Len(data) /\ data[frame[t].fd] \in Seq(Chunks) BY <1>2, OpenFd, Zenon
  <1>5. k \in Nat /\ MaxFileSize \in Nat BY <1>3, <1>4, StorageConstants
  <1>6. CASE k > MaxFileSize
    <2>1. Finish(t, "IoError", <<>>) BY <1>3, <1>6, Zenon DEF StatFile
    <2>2. "IoError" \in Errors \ {"NONE"} /\ <<>> \in Seq(Chunks) BY DEF Errors
    <2> QED BY <1>2, <2>1, <2>2, FinishSame, Zenon
  <1>7. CASE ~(k > MaxFileSize)
    <2>1. frame' = [frame EXCEPT ![t].pc = "io", ![t].size = k] BY <1>3, <1>7, Zenon DEF StatFile
    <2>2. Goes(t, "io", frame[t].fd, k, frame[t].buf) BY <2>1, GoesForms, Zenon
    <2>3. k \in 0..MaxFileSize BY <1>5, <1>7
    <2>4. frame[t].buf \in Seq(Chunks) BY <1>1, FrameFields, Zenon
    <2>5. data' = data /\ tree' = tree /\ UNCHANGED lockVars BY <1>2, Zenon
    <2>6. data \in Seq(Seq(Chunks)) /\ WellFormed(tree, Len(data)) BY <1>1, Zenon DEF Types
    <2>7. Len(data) <= Len(data') BY <2>5, <2>6
    <2>8. "io" \in {"stat", "io"} /\ "io" # "stat" BY Zenon
    <2> QED BY <1>2, <1>4, <2>2, <2>3, <2>4, <2>5, <2>6, <2>7, <2>8, GoesInv, Zenon
  <1> QED BY <1>6, <1>7, Zenon

\* A turn of the read loop takes the next chunk of the open file.
LEMMA ReadFacts ==
    ASSUME Inv, NEW t \in Threads, ReadChunk(t),
           Len(frame[t].buf) < frame[t].size, Len(frame[t].buf) < Len(data[frame[t].fd])
    PROVE  /\ Append(frame[t].buf, data[frame[t].fd][Len(frame[t].buf) + 1]) \in Seq(Chunks)
           /\ Goes(t, "io", frame[t].fd, frame[t].size,
                   Append(frame[t].buf, data[frame[t].fd][Len(frame[t].buf) + 1]))
  <1>1. Types /\ frame[t].pc = "io" BY Zenon DEF Inv, ReadChunk, At
  <1>2. PICK body, x : body = data[frame[t].fd] /\ x = body[Len(frame[t].buf) + 1] BY Zenon
  <1>3. body \in Seq(Chunks) BY <1>1, <1>2, OpenFd, Zenon
  <1>4. frame[t].buf \in Seq(Chunks) BY <1>1, FrameFields, Zenon
  <1>5. x \in Chunks BY <1>2, <1>3, <1>4
  <1>6. PICK b : b = Append(frame[t].buf, x) BY Zenon
  <1>7. b \in Seq(Chunks) BY <1>4, <1>5, <1>6
  <1>8. frame' = [frame EXCEPT ![t].buf = b]
    <2>1. frame' = [frame EXCEPT ![t].buf = Append(@, x)] BY <1>2, Zenon DEF ReadChunk
    <2>2. frame \in [Threads -> Frames] BY <1>1, Zenon DEF Types
    <2> QED BY <1>6, <2>1, <2>2, Zenon
  <1>9. Goes(t, "io", frame[t].fd, frame[t].size, b) BY <1>1, <1>8, GoesForms, Zenon
  <1> QED BY <1>2, <1>6, <1>7, <1>9, Zenon

\* The read loop.
LEMMA ReadChunkInv ==
    ASSUME Inv, NEW t \in Threads, ReadChunk(t)
    PROVE  Inv'
  <1>1. Types /\ InFrame(t) BY Zenon DEF Inv
  <1>2. /\ frame[t].pc = "io" /\ frame[t].call.type = "READ_FILE" /\ UNCHANGED <<lockVars, tree, data>>
    BY Zenon DEF ReadChunk, At
  <1>3. frame[t].buf \in Seq(Chunks) /\ frame[t].size \in Nat BY <1>1, FrameFields, Zenon
  <1>4. CASE Len(frame[t].buf) < frame[t].size /\ Len(frame[t].buf) < Len(data[frame[t].fd])
    <2>1. PICK b : b = Append(frame[t].buf, data[frame[t].fd][Len(frame[t].buf) + 1]) BY Zenon
    <2>2. b \in Seq(Chunks) /\ Goes(t, "io", frame[t].fd, frame[t].size, b)
      BY <1>4, <2>1, ReadFacts, Zenon
    <2>3. frame[t].fd \in 1..Len(data) BY <1>2, OpenFd, Zenon
    <2>4. frame[t].size <= MaxFileSize /\ MaxFileSize \in Nat
      BY <1>1, StorageConstants, Zenon DEF InFrame
    <2>5. frame[t].size \in 0..MaxFileSize BY <1>3, <2>4
    <2>6. data' = data /\ tree' = tree /\ UNCHANGED lockVars BY <1>2, Zenon
    <2>7. data \in Seq(Seq(Chunks)) /\ WellFormed(tree, Len(data)) BY <1>1, Zenon DEF Types
    <2>8. Len(data) <= Len(data') BY <2>6, <2>7
    <2>9. "io" \in {"stat", "io"} /\ "io" # "stat" BY Zenon
    <2> QED BY <1>2, <2>2, <2>3, <2>5, <2>6, <2>7, <2>8, <2>9, GoesInv, Zenon
  <1>5. CASE ~(Len(frame[t].buf) < frame[t].size /\ Len(frame[t].buf) < Len(data[frame[t].fd]))
    <2>1. Finish(t, "Ok", frame[t].buf) BY <1>5, Zenon DEF ReadChunk
    <2>2. "Ok" \in Errors \ {"NONE"} BY Zenon DEF Errors
    <2> QED BY <1>2, <1>3, <2>1, <2>2, FinishSame, Zenon
  <1> QED BY <1>4, <1>5, Zenon

\* Every step keeps the invariant.
LEMMA InvStep ==
    ASSUME Inv, LockFacts, [Next]_vars
    PROVE  Inv'
  <1>1. ASSUME NEW t \in Threads, Reject(t) PROVE Inv'
    <2>1. frame[t].pc # "idle" /\ Finish(t, "InvalidPath", <<>>) /\ UNCHANGED <<lockVars, tree, data>>
      BY <1>1, Zenon DEF Reject
    <2>2. "InvalidPath" \in Errors \ {"NONE"} /\ <<>> \in Seq(Chunks) BY DEF Errors
    <2> QED BY <2>1, <2>2, FinishSame, Zenon
  <1>2. ASSUME NEW t \in Threads, Fault(t) PROVE Inv'
    <2>1. frame[t].pc # "idle" /\ Finish(t, "IoError", <<>>) /\ UNCHANGED <<lockVars, tree, data>>
      BY <1>2, Zenon DEF Fault
    <2>2. "IoError" \in Errors \ {"NONE"} /\ <<>> \in Seq(Chunks) BY DEF Errors
    <2> QED BY <2>1, <2>2, FinishSame, Zenon
  <1>3. ASSUME NEW t \in Threads, ChangeTree(t) PROVE Inv'
    <2>1. /\ frame[t].pc # "idle" /\ UNCHANGED lockVars /\ data' = data /\ tree' = TreeCall(t).tree
          /\ Finish(t, TreeCall(t).err, <<>>)
      BY <1>3, Zenon DEF ChangeTree, At
    <2>2. WellFormed(TreeCall(t).tree, Len(data)) /\ TreeCall(t).err \in Errors \ {"NONE"}
      BY <1>3, TreeCallFacts, Zenon DEF ChangeTree
    <2>3. data \in Seq(Seq(Chunks)) /\ <<>> \in Seq(Chunks) BY DEF Inv, Types
    <2>4. Len(data) <= Len(data') BY <2>1, <2>3
    <2> QED BY <2>1, <2>2, <2>3, <2>4, FinishInv, Zenon
  <1>4. ASSUME NEW t \in Threads, CreateFile(t) PROVE Inv'
    <2>1. PICK err : err = Outcome(sys_open_excl(tree, frame[t].full_path, NewInode), {"EEXIST"}).err
      BY Zenon
    <2>2. frame[t].pc # "idle" /\ UNCHANGED lockVars /\ Finish(t, err, <<>>)
      BY <1>4, <2>1, Zenon DEF CreateFile, At
    <2>3. err \in Errors \ {"NONE"} /\ <<>> \in Seq(Chunks) BY <2>1, OutcomeFacts
    <2>4. data' \in Seq(Seq(Chunks)) /\ Len(data) <= Len(data') /\ WellFormed(tree', Len(data'))
      BY <1>4, CreateFacts, Zenon
    <2> QED BY <2>2, <2>3, <2>4, FinishInv, Zenon
  <1>5. ASSUME NEW t \in Threads, Step(t) PROVE Inv'
    BY <1>1, <1>3, <1>4, <1>5, LockInv, OpenForWritingInv, WriteChunkInv, OpenForReadingInv, StatFileInv, ReadChunkInv, UnlockInv, ReturnInv
      , Zenon DEF Step
  <1>6. ASSUME UNCHANGED <<script, pos, leaving, tree, data, frame>> PROVE Inv'
    <2>1. Types' BY <1>6, Zenon DEF Inv, Types
    <2>2. ASSUME NEW u \in Threads PROVE InFrame(u)' /\ InLocks(u)'
      <3>1. InFrame(u) /\ InLocks(u) BY Zenon DEF Inv
      <3>2. InFrame(u)' BY <1>6, <3>1, Zenon DEF InFrame
      <3>3. InLocks(u)' BY <1>6, <3>1, Zenon DEF InLocks
      <3> QED BY <3>2, <3>3, Zenon
    <2> QED BY <2>1, <2>2, Zenon DEF Inv
  <1>7. ASSUME NEW t \in Threads, SpuriousWakeup(t) PROVE Inv'
    BY <1>6, <1>7, Zenon DEF SpuriousWakeup, Locker!SpuriousWakeup
  <1>8. CASE UNCHANGED vars BY <1>6, <1>8, Zenon DEF vars
  <1>9. ASSUME NEW t \in Threads, NEW c \in Calls(t), Invoke(t, c) PROVE Inv'
    BY <1>9, InvokeInv, Zenon
  <1> QED BY <1>2, <1>5, <1>7, <1>8, <1>9, Zenon DEF Next

\* The invariant says more than the types.
LEMMA InvTypes == Inv => TypeOK
  <1> SUFFICES ASSUME Inv PROVE TypeOK BY Zenon
  <1>1. Types BY Zenon DEF Inv
  <1>2. data \in Seq(Seq(Chunks)) /\ Len(data) \in Nat /\ WellFormed(tree, Len(data)) /\ frame \in [Threads -> Frames]
    BY <1>1 DEF Types
  <1>3. DOMAIN frame = Threads BY <1>2, Zenon
  <1>4. ASSUME NEW t \in Threads
        PROVE  /\ frame[t].call \in Calls(t) \cup {NoCall}
               /\ frame[t].pc \in {"idle", "reject", "lock", "open", "stat", "io", "return"}
               /\ frame[t].fd \in 0..Len(data)
               /\ frame[t].size <= MaxFileSize
    <2>1. InFrame(t) BY Zenon DEF Inv
    <2>2. frame[t] \in Frames /\ frame[t].fd \in Nat BY <1>1, FrameFields, Zenon
    <2>3. frame[t].pc \in {"idle", "reject", "lock", "open", "stat", "io", "return"}
      BY <2>2, Zenon DEF Frames
    <2> QED BY <1>2, <2>1, <2>2, <2>3 DEF InFrame
  <1>5. ASSUME NEW l \in DOMAIN tree, IsFile(tree, l) PROVE tree[l].body \in 1..Len(data)
    BY <1>2, <1>5, EntryFacts, Zenon
  <1> QED BY <1>3, <1>4, <1>5, Zenon DEF TypeOK
=============================================================================
