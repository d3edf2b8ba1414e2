----------------------------- MODULE FileLocker -----------------------------
(***************************************************************************)
(* The per-path reader/writer locks of src/src/storage.cc: FileLocker, one *)
(* mutex-protected table and one condition variable for all paths, and the *)
(* scope guards ReadLock and WriteLock through which Storage uses it.      *)
(*                                                                         *)
(* Readers are the connection threads that run Storage::read_file.  All    *)
(* commands that change storage run on the one thread that braft calls     *)
(* StateMachine::on_apply on: the Applier.  A key is the raw path string   *)
(* of a request; nothing is known of how keys name files at this level.    *)
(***************************************************************************)
EXTENDS Integers, Sequences, FiniteSets

CONSTANTS Readers,   \* threads that construct ReadLocks
          Applier,   \* the thread that constructs WriteLocks
          Keys,      \* the path strings
          Renames    \* the <<old_path, new_path>> pairs of RENAME commands

ASSUME LockerConstants ==
    /\ IsFiniteSet(Readers)
    /\ Applier \notin Readers
    /\ Renames \subseteq Keys \X Keys

VARIABLES locks,    \* locks_: a partial function from keys to lock states
          asleep,   \* the threads inside cv_.wait
          script,   \* script[t]: the guards of the call t runs, in construction order
          pos,      \* pos[t]: how many of them are constructed
          leaving   \* the threads whose call has begun to destroy its guards

vars == <<locks, asleep, script, pos, leaving>>

Threads == Readers \cup {Applier}
LockState == [reader_count : Int, write_locked : BOOLEAN]
Read(k) == [mode |-> "read", key |-> k]
Write(k) == [mode |-> "write", key |-> k]

\* The guards each call constructs: read_file one ReadLock; create_file, write_file,
\* append_file and delete_file one WriteLock; rename one for each of its two paths.
Scripts(t) == IF t \in Readers
              THEN {<<Read(k)>> : k \in Keys}
              ELSE {<<Write(k)>> : k \in Keys} \cup {<<Write(r[1]), Write(r[2])>> : r \in Renames}

Idle(t) == script[t] = <<>>
Wanted(t) == script[t][pos[t] + 1]
Acquiring(t) == t \notin leaving /\ pos[t] < Len(script[t])
Holds(t, g) == \E i \in 1..pos[t] : script[t][i] = g
ReadersOf(k) == {t \in Threads : Holds(t, Read(k))}
WritersOf(k) == {t \in Threads : Holds(t, Write(k))}

Put(k, state) == [x \in DOMAIN locks \cup {k} |-> IF x = k THEN state ELSE locks[x]]
Erase(k) == [x \in DOMAIN locks \ {k} |-> locks[x]]

Init ==
    /\ locks = [k \in {} |-> [reader_count |-> 0, write_locked |-> FALSE]]
    /\ asleep = {}
    /\ script = [t \in Threads |-> <<>>]
    /\ pos = [t \in Threads |-> 0]
    /\ leaving = {}

\* t enters a Storage call that will construct the guards gs.
Enter(t, gs) ==
    /\ Idle(t)
    /\ script' = [script EXCEPT ![t] = gs]
    /\ UNCHANGED <<locks, asleep, pos, leaving>>

\* The outcomes of one turn of the loop in lock_read and lock_write.
Grant(t, k, state) ==
    /\ locks' = Put(k, state)
    /\ pos' = [pos EXCEPT ![t] = @ + 1]
    /\ UNCHANGED <<asleep, script, leaving>>
Wait(t) ==
    /\ asleep' = asleep \cup {t}
    /\ UNCHANGED <<locks, script, pos, leaving>>

\* Mutant: a write lock is granted beside readers.
WriteBlockedByWriter(k) == k \in DOMAIN locks /\ locks[k].write_locked

\* Which states of the table make each lock wait.
ReadBlocked(k) == k \in DOMAIN locks /\ locks[k].write_locked
WriteBlocked(k) ==
    k \in DOMAIN locks /\ ~(locks[k].reader_count = 0 /\ ~locks[k].write_locked)

\* Mutant: a reader that creates the entry does not count itself.
CountedAsZero(k) == IF k \in DOMAIN locks THEN locks[k].reader_count + 1 ELSE 0

CountedAs(k) == IF k \in DOMAIN locks THEN locks[k].reader_count + 1 ELSE 1

lock_read(t) ==
    /\ Acquiring(t) /\ t \notin asleep
    /\ Wanted(t).mode = "read"
    /\ LET k == Wanted(t).key IN
        IF ReadBlocked(k)
        THEN Wait(t)
        ELSE Grant(t, k, [reader_count |-> CountedAs(k), write_locked |-> FALSE])

lock_write(t) ==
    /\ Acquiring(t) /\ t \notin asleep
    /\ Wanted(t).mode = "write"
    /\ LET k == Wanted(t).key IN
        IF WriteBlocked(k)
        THEN Wait(t)
        ELSE Grant(t, k, [reader_count |-> 0, write_locked |-> TRUE])

\* cv_.wait may return although nobody notified; the loop then tests again.
SpuriousWakeup(t) ==
    /\ t \in asleep
    /\ asleep' = asleep \ {t}
    /\ UNCHANGED <<locks, script, pos, leaving>>

\* The guard t destroys next: scopes unwind in reverse order of construction.
Innermost(t) == script[t][pos[t]]
InScope(t) == pos[t] > 0 /\ (t \in leaving \/ pos[t] = Len(script[t]))
PopGuard(t) ==
    /\ pos' = [pos EXCEPT ![t] = @ - 1]
    /\ script' = [script EXCEPT ![t] = IF pos[t] = 1 THEN <<>> ELSE @]
    /\ leaving' = IF pos[t] = 1 THEN leaving \ {t} ELSE leaving \cup {t}

\* Mutant: unlock_read erases the entry whatever the count.
ReleasedForAll(k) == Erase(k)

\* The table after unlock_read(k): the entry goes with its last reader.
Released(k) ==
    IF k \in DOMAIN locks /\ locks[k].reader_count # 1
    THEN [locks EXCEPT ![k].reader_count = @ - 1]
    ELSE Erase(k)

\* Mutant: the waiters are not notified.
notify_nobody(k) == asleep' = asleep

\* cv_.notify_all, skipped by the early return for a key without an entry.
notify_all(k) == asleep' = IF k \in DOMAIN locks THEN {} ELSE asleep

unlock_read(t) ==
    /\ InScope(t) /\ Innermost(t).mode = "read"
    /\ PopGuard(t)
    /\ locks' = Released(Innermost(t).key)
    /\ notify_all(Innermost(t).key)

\* Mutant: unlock_write notifies but leaves its entry in the table.
unlock_write_keeps_entry(t) ==
    /\ InScope(t) /\ Innermost(t).mode = "write"
    /\ PopGuard(t)
    /\ notify_all(Innermost(t).key)
    /\ UNCHANGED locks

unlock_write(t) ==
    /\ InScope(t) /\ Innermost(t).mode = "write"
    /\ PopGuard(t)
    /\ locks' = Erase(Innermost(t).key)
    /\ notify_all(Innermost(t).key)

Step(t) == lock_read(t) \/ lock_write(t) \/ unlock_read(t) \/ unlock_write(t)
Start(t) == \E gs \in Scripts(t) : Enter(t, gs)
Next == \E t \in Threads : Start(t) \/ Step(t) \/ SpuriousWakeup(t)

Spec == Init /\ [][Next]_vars

\* A thread inside a call keeps running: the mutex is held for a few instructions
\* only, and the body of a call (file I/O) ends.  Nothing makes a thread start one.
FairSpec == Spec /\ \A t \in Threads : WF_vars(Step(t))

-----------------------------------------------------------------------------
\* The lock table, the sleepers and the calls in progress have the shapes the code gives
\* them; a call runs only guards of its kind, and no counter goes below zero.
TypeOK ==
    /\ DOMAIN locks \subseteq Keys
    /\ locks \in [DOMAIN locks -> LockState]
    /\ \A k \in DOMAIN locks : locks[k].reader_count >= 0
    /\ asleep \subseteq Threads
    /\ leaving \subseteq Threads
    /\ DOMAIN script = Threads
    /\ \A t \in Threads : script[t] \in Scripts(t) \cup {<<>>}
    /\ pos \in [Threads -> Nat]
    /\ \A t \in Threads : pos[t] <= Len(script[t])

\* locks_ says exactly what the live guards say: a key has an entry iff some guard on it
\* is held, reader_count is the number of ReadLocks and write_locked means a WriteLock.
\* So unlock_read and unlock_write never meet the missing entry they warn about, and the
\* table does not grow with the paths used in the past.
TableMatchesGuards ==
    \A k \in Keys :
        /\ k \in DOMAIN locks <=> ReadersOf(k) \cup WritersOf(k) # {}
        /\ k \in DOMAIN locks =>
              /\ locks[k].reader_count = Cardinality(ReadersOf(k))
              /\ locks[k].write_locked <=> WritersOf(k) # {}

\* What the locks are for: no ReadLock on a path lives beside a WriteLock on it.
MutualExclusion == \A k \in Keys : ReadersOf(k) = {} \/ WritersOf(k) = {}

\* No lost wakeup: a thread sleeps in cv_.wait only while the key it wants is still
\* locked against it, although one condition variable serves all keys and both modes.
NoLostWakeup ==
    \A t \in asleep :
        /\ Acquiring(t)
        /\ LET k == Wanted(t).key IN
            IF Wanted(t).mode = "read" THEN ReadBlocked(k) ELSE WriteBlocked(k)

\* Whoever sleeps is waiting for a thread that can run: some awake thread holds a guard
\* and will destroy it.  Commands take two locks (rename), readers take one.
SomebodyCanRelease == asleep # {} => \E t \in Threads \ asleep : pos[t] > 0

\* Once no new reads start, the applier gets every lock it asks for: neither the readers
\* in flight nor its own nested guards can hold it up for ever.
ApplierServed ==
    <>[][\A t \in Readers : ~Start(t)]_vars => [](Acquiring(Applier) => <>InScope(Applier))

\* Once no new calls start, every call in progress ends.  (New reads of one path can hold
\* up the applier, and with it the readers of a path it has locked already.)
CallsFinish == <>[][\A t \in Threads : ~Start(t)]_vars => \A t \in Threads : []<>Idle(t)
=============================================================================
