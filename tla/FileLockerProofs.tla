-------------------------- MODULE FileLockerProofs --------------------------
(***************************************************************************)
(* Proofs, for any finite set of readers, any set of paths and any set of  *)
(* renames, that the lock table of FileLocker is exact, excludes writers   *)
(* from readers and loses no wakeup; and that nobody waits for a thread    *)
(* that cannot run when no rename names one path string twice.             *)
(***************************************************************************)
EXTENDS FileLocker, FiniteSetTheorems, TLAPS

\* Two guards of one call never protect the same key: the second would have had to
\* wait for the first.
GuardsDistinct ==
    \A t \in Threads : \A i, j \in 1..pos[t] : i # j => script[t][i] # script[t][j]

\* A call that has begun to destroy its guards still has one.
LeavingHolds == \A t \in leaving : pos[t] > 0

\* The inductive invariant.
Inv ==
    /\ TypeOK
    /\ LeavingHolds
    /\ GuardsDistinct
    /\ MutualExclusion
    /\ TableMatchesGuards
    /\ NoLostWakeup

-----------------------------------------------------------------------------
\* What the guards of a call look like.
LEMMA ScriptFacts ==
    ASSUME TypeOK, NEW t \in Threads, NEW i \in 1..Len(script[t])
    PROVE  /\ script[t][i].key \in Keys
           /\ t \in Readers => Len(script[t]) = 1 /\ script[t][i] = Read(script[t][i].key)
           /\ t \notin Readers => Len(script[t]) \in 1..2 /\ script[t][i] = Write(script[t][i].key)
<1>1. script[t] \in Scripts(t)
  <2>1. script[t] # <<>>
    OBVIOUS
  <2> QED BY <2>1 DEF TypeOK
<1>2. CASE t \in Readers
  <2>1. PICK k \in Keys : script[t] = <<Read(k)>>
    BY <1>1, <1>2 DEF Scripts
  <2>2. Len(script[t]) = 1 /\ i = 1 /\ script[t][1] = Read(k)
    BY <2>1
  <2> QED BY <2>2, <1>2 DEF Read
<1>3. CASE t \notin Readers
  <2>1. CASE \E k \in Keys : script[t] = <<Write(k)>>
    <3>1. PICK k \in Keys : script[t] = <<Write(k)>>
      BY <2>1
    <3>2. Len(script[t]) = 1 /\ i = 1 /\ script[t][1] = Write(k)
      BY <3>1
    <3> QED BY <3>2, <1>3 DEF Write
  <2>2. CASE \E r \in Renames : script[t] = <<Write(r[1]), Write(r[2])>>
    <3>1. PICK r \in Renames : script[t] = <<Write(r[1]), Write(r[2])>>
      BY <2>2
    <3>2. r[1] \in Keys /\ r[2] \in Keys
      BY LockerConstants
    <3>3. Len(script[t]) = 2 /\ i \in {1, 2} /\ script[t][1] = Write(r[1])
                                            /\ script[t][2] = Write(r[2])
      BY <3>1
    <3> QED BY <3>2, <3>3, <1>3 DEF Write
  <2> QED BY <1>1, <1>3, <2>1, <2>2 DEF Scripts
<1> QED BY <1>2, <1>3

\* Read and write guards differ, and guards of different keys differ.
LEMMA GuardsApart ==
    /\ \A k, l : Read(k) # Write(l)
    /\ \A k, l : Read(k) = Read(l) => k = l
    /\ \A k, l : Write(k) = Write(l) => k = l
BY DEF Read, Write

\* Lengths are natural numbers, so positions can be compared with them.
LEMMA LenNat ==
    ASSUME TypeOK, NEW t \in Threads
    PROVE  Len(script[t]) \in Nat /\ Len(script[t]) <= 2 /\ pos[t] \in Nat
<1>0. pos[t] \in Nat
  BY DEF TypeOK
<1>1. CASE script[t] = <<>>
  BY <1>0, <1>1
<1>2. CASE script[t] # <<>>
  <2>1. script[t] \in Scripts(t)
    BY <1>2 DEF TypeOK
  <2>2. \/ \E g \in {Read(k) : k \in Keys} \cup {Write(k) : k \in Keys} : script[t] = <<g>>
        \/ \E r \in Renames : script[t] = <<Write(r[1]), Write(r[2])>>
    BY <2>1 DEF Scripts
  <2>3. Len(script[t]) = 1 \/ Len(script[t]) = 2
    BY <2>2
  <2>4. \A n : n = 1 \/ n = 2 => n \in Nat /\ n <= 2
    OBVIOUS
  <2> QED BY <1>0, <2>3, <2>4
<1> QED BY <1>1, <1>2

\* Whoever holds a read guard is a reader, whoever holds a write guard is not.
LEMMA HoldersKind ==
    ASSUME TypeOK, NEW k
    PROVE  ReadersOf(k) \subseteq Readers /\ WritersOf(k) \subseteq {Applier}
<1>1. ASSUME NEW t \in Threads, NEW i \in 1..pos[t]
      PROVE  i \in 1..Len(script[t])
  BY LenNat DEF TypeOK
<1>2. ASSUME NEW t \in ReadersOf(k) PROVE t \in Readers
  BY <1>1, ScriptFacts, GuardsApart DEF ReadersOf, Holds
<1>3. ASSUME NEW t \in WritersOf(k) PROVE t \in {Applier}
  BY <1>1, ScriptFacts, GuardsApart DEF WritersOf, Holds, Threads
<1> QED BY <1>2, <1>3

\* There are finitely many readers of a key.
LEMMA ReadersFinite == \A k : IsFiniteSet(ReadersOf(k))
<1>1. IsFiniteSet(Threads)
  BY LockerConstants, FS_AddElement DEF Threads
<1> QED BY <1>1, FS_Subset DEF ReadersOf
-----------------------------------------------------------------------------
\* Entering a call constructs no guard yet.
LEMMA HoldsEnter ==
    ASSUME TypeOK, NEW t \in Threads, NEW gs, Enter(t, gs)
    PROVE  \A u \in Threads : \A g : Holds(u, g)' <=> Holds(u, g)
<1>1. pos[t] = 0
  BY LenNat DEF TypeOK, Enter, Idle
<1>2. ASSUME NEW u \in Threads, NEW g PROVE Holds(u, g)' <=> Holds(u, g)
  <2>1. CASE u = t
    BY <1>1, <2>1 DEF Enter, Holds
  <2>2. CASE u # t
    BY <2>2 DEF Enter, Holds, TypeOK
  <2> QED BY <2>1, <2>2
<1> QED BY <1>2

\* A granted lock adds the wanted guard to the holder's, and nothing else.
LEMMA HoldsGrant ==
    ASSUME TypeOK, NEW t \in Threads, Acquiring(t), NEW k, NEW state, Grant(t, k, state)
    PROVE  \A u \in Threads : \A g :
              Holds(u, g)' <=> Holds(u, g) \/ (u = t /\ g = Wanted(t))
<1>1. pos[t] \in Nat /\ pos' = [pos EXCEPT ![t] = @ + 1] /\ script' = script
  BY DEF TypeOK, Grant
<1>2. ASSUME NEW u \in Threads, NEW g
      PROVE  Holds(u, g)' <=> Holds(u, g) \/ (u = t /\ g = Wanted(t))
  <2>1. CASE u = t
    <3>1. pos'[t] = pos[t] + 1
      BY <1>1 DEF TypeOK
    <3>2. \A i : i \in 1..pos'[t] <=> i \in 1..pos[t] \/ i = pos[t] + 1
      BY <1>1, <3>1
    <3> QED BY <1>1, <2>1, <3>2 DEF Holds, Wanted
  <2>2. CASE u # t
    BY <1>1, <2>2 DEF Holds, TypeOK
  <2> QED BY <2>1, <2>2
<1> QED BY <1>2

\* Destroying the innermost guard removes it from the holder's, and nothing else.
LEMMA HoldsPop ==
    ASSUME TypeOK, GuardsDistinct, NEW t \in Threads, InScope(t), PopGuard(t)
    PROVE  \A u \in Threads : \A g :
              Holds(u, g)' <=> Holds(u, g) /\ ~(u = t /\ g = Innermost(t))
<1>1. pos[t] \in Nat /\ pos[t] > 0 /\ pos'[t] = pos[t] - 1
  BY DEF TypeOK, PopGuard, InScope
<1>2. ASSUME NEW u \in Threads, NEW g
      PROVE  Holds(u, g)' <=> Holds(u, g) /\ ~(u = t /\ g = Innermost(t))
  <2>1. CASE u = t /\ pos[t] = 1
    BY <1>1, <2>1 DEF Holds, Innermost
  <2>2. CASE u = t /\ pos[t] # 1
    <3>1. script'[t] = script[t]
      BY <2>2 DEF TypeOK, PopGuard
    <3>2. \A i : i \in 1..pos[t] <=> i \in 1..pos'[t] \/ i = pos[t]
      BY <1>1
    <3>3. \A i \in 1..pos'[t] : script[t][i] # script[t][pos[t]]
      BY <1>1 DEF GuardsDistinct
    <3> QED BY <2>2, <3>1, <3>2, <3>3 DEF Holds, Innermost
  <2>3. CASE u # t
    BY <2>3 DEF Holds, TypeOK, PopGuard
  <2> QED BY <2>1, <2>2, <2>3
<1> QED BY <1>2
-----------------------------------------------------------------------------
\* The invariant survives a step that changes no guard and no entry.
LEMMA SameGuards ==
    ASSUME Inv, TypeOK', LeavingHolds', GuardsDistinct', NoLostWakeup', locks' = locks,
           \A u \in Threads : \A g : Holds(u, g)' <=> Holds(u, g)
    PROVE  Inv'
<1>1. \A k : ReadersOf(k)' = ReadersOf(k) /\ WritersOf(k)' = WritersOf(k)
  BY DEF ReadersOf, WritersOf
<1>2. MutualExclusion'
  BY <1>1 DEF Inv, MutualExclusion
<1>3. TableMatchesGuards'
  BY <1>1 DEF Inv, TableMatchesGuards
<1> QED BY <1>2, <1>3 DEF Inv

\* The empty table of a new FileLocker satisfies the invariant.
LEMMA InitInv == Init => Inv
<1> SUFFICES ASSUME Init PROVE Inv
  OBVIOUS
<1>1. TypeOK
  <2>1. \A t \in Threads : pos[t] = 0 /\ script[t] = <<>> /\ Len(script[t]) = 0
    BY DEF Init
  <2>2. DOMAIN locks = {}
    BY DEF Init
  <2>3. locks \in [DOMAIN locks -> LockState]
    BY DEF Init, LockState
  <2> QED BY <2>1, <2>2, <2>3 DEF Init, TypeOK
<1>2. \A t \in Threads : pos[t] = 0
  BY DEF Init
<1>3. \A k : ReadersOf(k) = {} /\ WritersOf(k) = {}
  BY <1>2 DEF ReadersOf, WritersOf, Holds
<1>4. LeavingHolds /\ GuardsDistinct /\ NoLostWakeup /\ MutualExclusion
  BY <1>2, <1>3 DEF Init, LeavingHolds, GuardsDistinct, NoLostWakeup, MutualExclusion
<1>5. TableMatchesGuards
  BY <1>3 DEF Init, TableMatchesGuards
<1> QED BY <1>1, <1>4, <1>5 DEF Inv

\* Entering a Storage call preserves the invariant: no guard is constructed yet.
LEMMA EnterInv ==
    ASSUME Inv, NEW t \in Threads, NEW gs \in Scripts(t), Enter(t, gs)
    PROVE  Inv'
<1>1. pos[t] = 0 /\ t \notin leaving /\ t \notin asleep
  BY LenNat DEF Inv, TypeOK, Enter, Idle, LeavingHolds, NoLostWakeup, Acquiring
<1>2. script' = [script EXCEPT ![t] = gs] /\ script'[t] = gs
  BY DEF Enter, Inv, TypeOK
<1>3. Len(gs) \in Nat
  BY DEF Scripts
<1>4. TypeOK'
  BY <1>1, <1>2, <1>3 DEF Inv, TypeOK, Enter
<1>5. LeavingHolds'
  BY DEF Inv, LeavingHolds, Enter
<1>6. GuardsDistinct'
  <2>1. ASSUME NEW u \in Threads, NEW i \in 1..pos[u], NEW j \in 1..pos[u], i # j
        PROVE  script'[u][i] # script'[u][j]
    BY <1>1, <1>2, <2>1 DEF Inv, TypeOK, GuardsDistinct
  <2> QED BY <2>1 DEF GuardsDistinct, Enter
<1>7. NoLostWakeup'
  <2>1. \A u \in asleep : u \in Threads /\ script'[u] = script[u]
    BY <1>1, <1>2 DEF Inv, TypeOK
  <2> QED BY <2>1 DEF Inv, NoLostWakeup, Enter, Acquiring, Wanted, ReadBlocked, WriteBlocked
<1> QED BY <1>4, <1>5, <1>6, <1>7, HoldsEnter, SameGuards DEF Inv, Enter

\* A thread that goes to sleep found its key locked; one that wakes up tests again.
LEMMA SleepInv ==
    ASSUME Inv, NEW t \in Threads, UNCHANGED <<locks, script, pos, leaving>>,
           \/ /\ asleep' = asleep \cup {t}
              /\ Acquiring(t)
              /\ Wanted(t).mode = "read" => ReadBlocked(Wanted(t).key)
              /\ Wanted(t).mode # "read" => WriteBlocked(Wanted(t).key)
           \/ asleep' = asleep \ {t}
    PROVE  Inv'
<1>1. TypeOK' /\ LeavingHolds' /\ GuardsDistinct'
  BY DEF Inv, TypeOK, LeavingHolds, GuardsDistinct
<1>2. NoLostWakeup'
  BY DEF Inv, NoLostWakeup, Acquiring, Wanted, ReadBlocked, WriteBlocked
<1>3. \A u \in Threads : \A g : Holds(u, g)' <=> Holds(u, g)
  BY DEF Holds
<1> QED BY <1>1, <1>2, <1>3, SameGuards
-----------------------------------------------------------------------------
\* What any granted lock preserves: the shape of the state, and the sleepers that
\* want another key.
LEMMA GrantShape ==
    ASSUME Inv, NEW t \in Threads, Acquiring(t), t \notin asleep,
           NEW k \in Keys, k = Wanted(t).key,
           NEW state \in LockState, state.reader_count >= 0, Grant(t, k, state)
    PROVE  /\ TypeOK' /\ LeavingHolds'
           /\ DOMAIN locks' = DOMAIN locks \cup {k}
           /\ locks'[k] = state
           /\ \A x \in DOMAIN locks \ {k} : locks'[x] = locks[x]
           /\ \A u \in asleep : Acquiring(u)' /\ Wanted(u)' = Wanted(u)
<1>1. pos' = [pos EXCEPT ![t] = @ + 1] /\ pos[t] \in Nat /\ pos'[t] = pos[t] + 1
  BY DEF Inv, TypeOK, Grant
<1>2. pos'[t] <= Len(script[t])
  BY <1>1, LenNat DEF Acquiring, Inv
<1>3. /\ DOMAIN locks' = DOMAIN locks \cup {k}
      /\ locks'[k] = state
      /\ \A x \in DOMAIN locks \ {k} : locks'[x] = locks[x]
  BY DEF Grant, Put
<1>4. locks' \in [DOMAIN locks' -> LockState]
  BY DEF Grant, Put, Inv, TypeOK
<1>5. pos' \in [Threads -> Nat] /\ \A u \in Threads : pos'[u] <= Len(script[u])
  BY <1>1, <1>2 DEF Inv, TypeOK
<1>6. TypeOK'
  BY <1>3, <1>4, <1>5 DEF Grant, Inv, TypeOK
<1>7. LeavingHolds'
  BY <1>1 DEF Grant, Inv, LeavingHolds, TypeOK
<1>8. ASSUME NEW u \in asleep PROVE Acquiring(u)' /\ Wanted(u)' = Wanted(u)
  <2>1. u \in Threads /\ u # t
    BY DEF Inv, TypeOK
  <2>2. pos'[u] = pos[u] /\ script' = script /\ leaving' = leaving
    BY <1>1, <2>1 DEF Grant, Inv, TypeOK
  <2>3. Acquiring(u)
    BY DEF Inv, NoLostWakeup
  <2> QED BY <2>2, <2>3 DEF Acquiring, Wanted
<1> QED BY <1>3, <1>6, <1>7, <1>8

\* lock_read preserves the invariant: the entry counts one reader more, nobody writes.
LEMMA LockReadInv ==
    ASSUME Inv, NEW t \in Threads, lock_read(t)
    PROVE  Inv'
<1>0. PICK k : k = Wanted(t).key
  OBVIOUS
<1>1. Acquiring(t) /\ t \notin asleep /\ Wanted(t).mode = "read"
  BY DEF lock_read
<1>2. pos[t] + 1 \in 1..Len(script[t])
  BY <1>1, LenNat DEF Inv, Acquiring
<1>3. k \in Keys /\ Wanted(t) = Read(k) /\ t \in Readers /\ Len(script[t]) = 1
  <2> DEFINE i == pos[t] + 1
  <2>1. /\ script[t][i].key \in Keys
        /\ t \in Readers => Len(script[t]) = 1 /\ script[t][i] = Read(script[t][i].key)
        /\ t \notin Readers => script[t][i] = Write(script[t][i].key)
    BY <1>2, ScriptFacts DEF Inv
  <2>2. t \in Readers
    BY <1>1, <2>1 DEF Wanted, Write
  <2> QED BY <1>0, <2>1, <2>2 DEF Wanted
<1>4. pos[t] = 0
  BY <1>2, <1>3, LenNat DEF Inv
<1>5. CASE ReadBlocked(k)
  BY <1>0, <1>1, <1>5, SleepInv DEF lock_read, Wait
<1>6. CASE ~ReadBlocked(k)
  <2>0. PICK state : state = [reader_count |-> CountedAs(k), write_locked |-> FALSE]
    OBVIOUS
  <2>1. Grant(t, k, state)
    BY <1>0, <1>6, <2>0 DEF lock_read
  <2>2. WritersOf(k) = {}
    BY <1>3, <1>6 DEF Inv, TableMatchesGuards, ReadBlocked
  <2>3. CountedAs(k) = Cardinality(ReadersOf(k)) + 1
    BY <1>3, FS_EmptySet DEF Inv, TableMatchesGuards, CountedAs
  <2>4. Cardinality(ReadersOf(k)) \in Nat
    BY ReadersFinite, FS_CardinalityType
  <2>5. CountedAs(k) \in Int /\ CountedAs(k) >= 1
    BY <2>3, <2>4
  <2>6. state \in LockState /\ state.reader_count >= 0
    BY <2>0, <2>5 DEF LockState
  <2>7. /\ TypeOK' /\ LeavingHolds'
        /\ DOMAIN locks' = DOMAIN locks \cup {k}
        /\ locks'[k] = state
        /\ \A x \in DOMAIN locks \ {k} : locks'[x] = locks[x]
        /\ \A u \in asleep : Acquiring(u)' /\ Wanted(u)' = Wanted(u)
    <3>1. k \in Keys /\ Acquiring(t) /\ t \notin asleep /\ k = Wanted(t).key
      BY <1>0, <1>1, <1>3
    <3>2. state \in LockState /\ state.reader_count >= 0 /\ Grant(t, k, state)
      BY <2>1, <2>6
    <3> QED BY <3>1, <3>2, GrantShape, Zenon
  <2>8. \A u \in Threads : \A g : Holds(u, g)' <=> Holds(u, g) \/ (u = t /\ g = Read(k))
    BY <1>1, <1>3, <2>1, HoldsGrant DEF Inv
  <2>9. /\ ReadersOf(k)' = ReadersOf(k) \cup {t}
        /\ \A x : x # k => ReadersOf(x)' = ReadersOf(x)
        /\ \A x : WritersOf(x)' = WritersOf(x)
    BY <2>8, GuardsApart DEF ReadersOf, WritersOf
  <2>10. Cardinality(ReadersOf(k)') = Cardinality(ReadersOf(k)) + 1
    <3>1. t \notin ReadersOf(k)
      BY <1>4 DEF ReadersOf, Holds
    <3> QED BY <2>9, <3>1, ReadersFinite, FS_AddElement
  <2>11. GuardsDistinct'
    <3>1. pos' = [pos EXCEPT ![t] = 1] /\ script' = script
      BY <1>4, <2>1 DEF Grant, Inv, TypeOK
    <3>2. ASSUME NEW u \in Threads, NEW i \in 1..pos'[u], NEW j \in 1..pos'[u], i # j
          PROVE  script[u][i] # script[u][j]
      BY <3>1, <3>2 DEF Inv, TypeOK, GuardsDistinct
    <3> QED BY <3>1, <3>2 DEF GuardsDistinct
  <2>12. MutualExclusion'
    BY <2>2, <2>9 DEF Inv, MutualExclusion
  <2>13. TableMatchesGuards'
    <3>1. state.reader_count = CountedAs(k) /\ state.write_locked = FALSE
      BY <2>0
    <3>2. ASSUME NEW x \in Keys, x # k
          PROVE  /\ x \in DOMAIN locks' <=> ReadersOf(x)' \cup WritersOf(x)' # {}
                 /\ x \in DOMAIN locks' =>
                       /\ locks'[x].reader_count = Cardinality(ReadersOf(x)')
                       /\ locks'[x].write_locked <=> WritersOf(x)' # {}
      BY <2>7, <2>9, <3>2 DEF Inv, TableMatchesGuards
    <3>3. /\ k \in DOMAIN locks' /\ ReadersOf(k)' \cup WritersOf(k)' # {}
          /\ locks'[k].reader_count = Cardinality(ReadersOf(k)')
          /\ locks'[k].write_locked <=> WritersOf(k)' # {}
      BY <2>2, <2>3, <2>7, <2>9, <2>10, <3>1
    <3> QED BY <3>2, <3>3 DEF TableMatchesGuards
  <2>14. NoLostWakeup'
    <3>1. state.reader_count # 0
      BY <2>0, <2>5
    <3>2. \A x : ReadBlocked(x) => ReadBlocked(x)'
      BY <1>6, <2>7 DEF ReadBlocked
    <3>3. \A x : WriteBlocked(x) => WriteBlocked(x)'
      BY <2>7, <3>1 DEF WriteBlocked
    <3>4. asleep' = asleep
      BY <2>1 DEF Grant
    <3> QED BY <2>7, <3>2, <3>3, <3>4 DEF Inv, NoLostWakeup
  <2> QED BY <2>7, <2>11, <2>12, <2>13, <2>14 DEF Inv
<1> QED BY <1>5, <1>6
\* lock_write preserves the invariant: the key had no guard at all, not even one of the
\* same call, and now has exactly one.
LEMMA LockWriteInv ==
    ASSUME Inv, NEW t \in Threads, lock_write(t)
    PROVE  Inv'
<1>0. PICK k : k = Wanted(t).key
  OBVIOUS
<1>1. Acquiring(t) /\ t \notin asleep /\ Wanted(t).mode = "write"
  BY DEF lock_write
<1>2. pos[t] + 1 \in 1..Len(script[t])
  BY <1>1, LenNat DEF Inv, Acquiring
<1>3. k \in Keys /\ Wanted(t) = Write(k)
  <2> DEFINE i == pos[t] + 1
  <2>1. /\ script[t][i].key \in Keys
        /\ t \in Readers => script[t][i] = Read(script[t][i].key)
        /\ t \notin Readers => script[t][i] = Write(script[t][i].key)
    BY <1>2, ScriptFacts DEF Inv
  <2>2. t \notin Readers
    BY <1>1, <2>1 DEF Wanted, Read
  <2> QED BY <1>0, <2>1, <2>2 DEF Wanted
<1>4. CASE WriteBlocked(k)
  BY <1>0, <1>1, <1>4, SleepInv DEF lock_write, Wait
<1>5. CASE ~WriteBlocked(k)
  <2>0. PICK state : state = [reader_count |-> 0, write_locked |-> TRUE]
    OBVIOUS
  <2>1. Grant(t, k, state) /\ state \in LockState /\ state.reader_count >= 0
    BY <1>0, <1>5, <2>0 DEF lock_write, LockState
  <2>2. ReadersOf(k) = {} /\ WritersOf(k) = {}
    <3>1. CASE k \notin DOMAIN locks
      BY <1>3, <3>1 DEF Inv, TableMatchesGuards
    <3>2. CASE k \in DOMAIN locks
      <4>1. Cardinality(ReadersOf(k)) = 0 /\ WritersOf(k) = {}
        BY <1>3, <1>5, <3>2 DEF Inv, TableMatchesGuards, WriteBlocked
      <4> QED BY <4>1, ReadersFinite, FS_EmptySet
    <3> QED BY <3>1, <3>2
  <2>3. /\ TypeOK' /\ LeavingHolds'
        /\ DOMAIN locks' = DOMAIN locks \cup {k}
        /\ locks'[k] = state
        /\ \A x \in DOMAIN locks \ {k} : locks'[x] = locks[x]
        /\ \A u \in asleep : Acquiring(u)' /\ Wanted(u)' = Wanted(u)
    <3>1. k \in Keys /\ Acquiring(t) /\ t \notin asleep /\ k = Wanted(t).key
      BY <1>0, <1>1, <1>3
    <3> QED BY <3>1, <2>1, GrantShape, Zenon
  <2>4. \A u \in Threads : \A g : Holds(u, g)' <=> Holds(u, g) \/ (u = t /\ g = Write(k))
    BY <1>1, <1>3, <2>1, HoldsGrant DEF Inv
  <2>5. /\ WritersOf(k)' = {t}
        /\ \A x : x # k => WritersOf(x)' = WritersOf(x)
        /\ \A x : ReadersOf(x)' = ReadersOf(x)
    BY <2>2, <2>4, GuardsApart DEF ReadersOf, WritersOf
  <2>6. GuardsDistinct'
    <3>1. pos' = [pos EXCEPT ![t] = @ + 1] /\ script' = script /\ pos[t] \in Nat
      BY <2>1 DEF Grant, Inv, TypeOK
    <3>2. \A i \in 1..pos[t] : script[t][i] # script[t][pos[t] + 1]
      BY <1>3, <2>2 DEF WritersOf, Holds, Wanted
    <3>3. ASSUME NEW u \in Threads, NEW i \in 1..pos'[u], NEW j \in 1..pos'[u], i # j
          PROVE  script[u][i] # script[u][j]
      <4>1. CASE u # t
        BY <3>1, <3>3, <4>1 DEF Inv, TypeOK, GuardsDistinct
      <4>2. CASE u = t
        <5>1. \A n \in 1..pos'[t] : n \in 1..pos[t] \/ n = pos[t] + 1
          BY <3>1 DEF Inv, TypeOK
        <5> QED BY <3>2, <3>3, <4>2, <5>1 DEF Inv, GuardsDistinct
      <4> QED BY <4>1, <4>2
    <3> QED BY <3>1, <3>3 DEF GuardsDistinct
  <2>7. MutualExclusion'
    BY <2>2, <2>5 DEF Inv, MutualExclusion
  <2>8. TableMatchesGuards'
    <3>1. ASSUME NEW x \in Keys, x # k
          PROVE  /\ x \in DOMAIN locks' <=> ReadersOf(x)' \cup WritersOf(x)' # {}
                 /\ x \in DOMAIN locks' =>
                       /\ locks'[x].reader_count = Cardinality(ReadersOf(x)')
                       /\ locks'[x].write_locked <=> WritersOf(x)' # {}
      BY <2>3, <2>5, <3>1 DEF Inv, TableMatchesGuards
    <3>2. Cardinality(ReadersOf(k)') = 0
      BY <2>2, <2>5, FS_EmptySet
    <3>3. /\ k \in DOMAIN locks' /\ ReadersOf(k)' \cup WritersOf(k)' # {}
          /\ locks'[k].reader_count = Cardinality(ReadersOf(k)')
          /\ locks'[k].write_locked <=> WritersOf(k)' # {}
      BY <2>0, <2>3, <2>5, <3>2
    <3> QED BY <3>1, <3>3 DEF TableMatchesGuards
  <2>9. NoLostWakeup'
    <3>1. \A x : ReadBlocked(x) => ReadBlocked(x)'
      BY <2>0, <2>3 DEF ReadBlocked
    <3>2. \A x : WriteBlocked(x) => WriteBlocked(x)'
      BY <2>0, <2>3 DEF WriteBlocked
    <3>3. asleep' = asleep
      BY <2>1 DEF Grant
    <3> QED BY <2>3, <3>1, <3>2, <3>3 DEF Inv, NoLostWakeup
  <2> QED BY <2>3, <2>6, <2>7, <2>8, <2>9 DEF Inv
<1> QED BY <1>4, <1>5
-----------------------------------------------------------------------------
\* What destroying any guard preserves, and that its key is in the table.
LEMMA PopShape ==
    ASSUME Inv, NEW t \in Threads, InScope(t), PopGuard(t),
           NEW k, k = Innermost(t).key, notify_all(k)
    PROVE  /\ LeavingHolds' /\ GuardsDistinct' /\ NoLostWakeup'
           /\ asleep' = {}
           /\ k \in Keys /\ k \in DOMAIN locks
           /\ leaving' \subseteq Threads
           /\ DOMAIN script' = Threads
           /\ \A u \in Threads : script'[u] \in Scripts(u) \cup {<<>>}
           /\ pos' \in [Threads -> Nat]
           /\ \A u \in Threads : pos'[u] <= Len(script'[u])
           /\ t \in Readers => Innermost(t) = Read(k)
           /\ t \notin Readers => Innermost(t) = Write(k)
<1>1. pos[t] \in Nat /\ pos[t] >= 1 /\ pos[t] <= Len(script[t]) /\ Len(script[t]) \in Nat
  BY LenNat DEF Inv, TypeOK, InScope
<1>2. pos' = [pos EXCEPT ![t] = pos[t] - 1] /\ pos'[t] = pos[t] - 1
  BY DEF Inv, TypeOK, PopGuard
<1>3. /\ k \in Keys
      /\ t \in Readers => Innermost(t) = Read(k)
      /\ t \notin Readers => Innermost(t) = Write(k)
  <2>1. pos[t] \in 1..Len(script[t])
    BY <1>1
  <2> QED BY <2>1, ScriptFacts DEF Inv, Innermost
<1>4. k \in DOMAIN locks
  <2>1. Holds(t, Innermost(t))
    BY <1>1 DEF Holds, Innermost
  <2>2. t \in ReadersOf(k) \cup WritersOf(k)
    BY <1>3, <2>1 DEF ReadersOf, WritersOf
  <2> QED BY <1>3, <2>2 DEF Inv, TableMatchesGuards
<1>5. asleep' = {}
  BY <1>4 DEF notify_all
<1>6. NoLostWakeup'
  BY <1>5 DEF NoLostWakeup
<1>7. LeavingHolds'
  <2>1. CASE pos[t] = 1
    BY <1>2, <2>1 DEF PopGuard, LeavingHolds, Inv, TypeOK
  <2>2. CASE pos[t] # 1
    BY <1>1, <1>2, <2>2 DEF PopGuard, LeavingHolds, Inv, TypeOK
  <2> QED BY <2>1, <2>2
<1>8. GuardsDistinct'
  <2>1. ASSUME NEW u \in Threads, NEW i \in 1..pos'[u], NEW j \in 1..pos'[u], i # j
        PROVE  script'[u][i] # script'[u][j]
    <3>1. i \in 1..pos[u] /\ j \in 1..pos[u]
      BY <1>1, <1>2 DEF Inv, TypeOK
    <3>2. script'[u] = script[u]
      BY <1>2, <2>1 DEF PopGuard, Inv, TypeOK
    <3> QED BY <2>1, <3>1, <3>2 DEF Inv, GuardsDistinct
  <2> QED BY <2>1 DEF GuardsDistinct
<1>9. /\ leaving' \subseteq Threads
      /\ DOMAIN script' = Threads
      /\ \A u \in Threads : script'[u] \in Scripts(u) \cup {<<>>}
      /\ pos' \in [Threads -> Nat]
  BY <1>1, <1>2 DEF PopGuard, Inv, TypeOK
<1>10. ASSUME NEW u \in Threads PROVE pos'[u] <= Len(script'[u])
  <2>1. CASE u # t
    BY <1>2, <2>1 DEF PopGuard, Inv, TypeOK
  <2>2. CASE u = t /\ pos[t] = 1
    BY <1>2, <2>2 DEF PopGuard, Inv, TypeOK
  <2>3. CASE u = t /\ pos[t] # 1
    BY <1>1, <1>2, <2>3 DEF PopGuard, Inv, TypeOK
  <2> QED BY <2>1, <2>2, <2>3
<1> QED BY <1>3, <1>4, <1>5, <1>6, <1>7, <1>8, <1>9, <1>10
\* unlock_read preserves the invariant: the entry is erased with the last reader.
LEMMA UnlockReadInv ==
    ASSUME Inv, NEW t \in Threads, unlock_read(t)
    PROVE  Inv'
<1>0. PICK k : k = Innermost(t).key
  OBVIOUS
<1>1. InScope(t) /\ PopGuard(t) /\ Innermost(t).mode = "read" /\ notify_all(k)
      /\ locks' = Released(k)
  BY <1>0 DEF unlock_read
<1>2. /\ LeavingHolds' /\ GuardsDistinct' /\ NoLostWakeup'
      /\ asleep' = {}
      /\ k \in Keys /\ k \in DOMAIN locks
      /\ leaving' \subseteq Threads
      /\ DOMAIN script' = Threads
      /\ \A u \in Threads : script'[u] \in Scripts(u) \cup {<<>>}
      /\ pos' \in [Threads -> Nat]
      /\ \A u \in Threads : pos'[u] <= Len(script'[u])
      /\ t \in Readers => Innermost(t) = Read(k)
      /\ t \notin Readers => Innermost(t) = Write(k)
  BY <1>0, <1>1, PopShape, Zenon
<1>3. Innermost(t) = Read(k)
  BY <1>1, <1>2 DEF Write
<1>4. \A u \in Threads : \A g : Holds(u, g)' <=> Holds(u, g) /\ ~(u = t /\ g = Read(k))
  BY <1>1, <1>3, HoldsPop DEF Inv
<1>5. /\ ReadersOf(k)' = ReadersOf(k) \ {t}
      /\ \A x : x # k => ReadersOf(x)' = ReadersOf(x)
      /\ \A x : WritersOf(x)' = WritersOf(x)
  BY <1>4, GuardsApart DEF ReadersOf, WritersOf
<1>6. t \in ReadersOf(k)
  <2>1. pos[t] \in 1..pos[t]
    BY <1>1 DEF InScope, Inv, TypeOK
  <2> QED BY <1>3, <2>1 DEF ReadersOf, Holds, Innermost
<1>7. WritersOf(k) = {}
  BY <1>2, <1>6 DEF Inv, MutualExclusion
<1>8. /\ locks[k].reader_count = Cardinality(ReadersOf(k)) /\ locks[k].write_locked = FALSE
      /\ locks[k] \in LockState
  BY <1>2, <1>7 DEF Inv, TableMatchesGuards, TypeOK, LockState
<1>9. Cardinality(ReadersOf(k)') = Cardinality(ReadersOf(k)) - 1
      /\ Cardinality(ReadersOf(k)) \in Nat /\ IsFiniteSet(ReadersOf(k)')
  BY <1>5, <1>6, ReadersFinite, FS_RemoveElement, FS_CardinalityType
<1>10. ReadersOf(k)' = {} <=> Cardinality(ReadersOf(k)) = 1
  <2>1. Cardinality(ReadersOf(k)') = 0 <=> ReadersOf(k)' = {}
    BY <1>9, FS_EmptySet
  <2> QED BY <1>9, <2>1
<1>11. /\ \A x : x # k => (x \in DOMAIN locks' <=> x \in DOMAIN locks)
       /\ \A x \in DOMAIN locks : x # k => locks'[x] = locks[x]
       /\ k \in DOMAIN locks' <=> Cardinality(ReadersOf(k)) # 1
       /\ k \in DOMAIN locks' => /\ locks'[k].reader_count = Cardinality(ReadersOf(k)')
                                 /\ locks'[k].write_locked = FALSE
  BY <1>1, <1>2, <1>8, <1>9 DEF Released, Erase, LockState
<1>12. MutualExclusion'
  BY <1>5, <1>7 DEF Inv, MutualExclusion
<1>13. TableMatchesGuards'
  <2>1. ASSUME NEW x \in Keys, x # k
        PROVE  /\ x \in DOMAIN locks' <=> ReadersOf(x)' \cup WritersOf(x)' # {}
               /\ x \in DOMAIN locks' =>
                     /\ locks'[x].reader_count = Cardinality(ReadersOf(x)')
                     /\ locks'[x].write_locked <=> WritersOf(x)' # {}
    BY <1>5, <1>11, <2>1 DEF Inv, TableMatchesGuards
  <2>2. /\ k \in DOMAIN locks' <=> ReadersOf(k)' \cup WritersOf(k)' # {}
        /\ k \in DOMAIN locks' =>
              /\ locks'[k].reader_count = Cardinality(ReadersOf(k)')
              /\ locks'[k].write_locked <=> WritersOf(k)' # {}
    BY <1>5, <1>7, <1>10, <1>11
  <2> QED BY <2>1, <2>2 DEF TableMatchesGuards
<1>14. TypeOK'
  <2>1. DOMAIN locks' \subseteq Keys
    BY <1>11, <1>2 DEF Inv, TypeOK
  <2>2. locks' \in [DOMAIN locks' -> LockState]
    <3>1. CASE locks[k].reader_count # 1
      <4>1. locks' = [locks EXCEPT ![k].reader_count = locks[k].reader_count - 1]
        BY <1>1, <1>2, <3>1 DEF Released
      <4>2. [locks[k] EXCEPT !.reader_count = locks[k].reader_count - 1] \in LockState
        BY <1>8 DEF LockState
      <4> QED BY <4>1, <4>2 DEF Inv, TypeOK
    <3>2. CASE locks[k].reader_count = 1
      BY <1>1, <3>2 DEF Released, Erase, Inv, TypeOK
    <3> QED BY <3>1, <3>2
  <2>3. ASSUME NEW x \in DOMAIN locks' PROVE locks'[x].reader_count >= 0
    <3>1. Cardinality(ReadersOf(k)') >= 0
      BY <1>9, FS_CardinalityType
    <3>2. CASE x = k
      BY <1>11, <3>1, <3>2
    <3>3. CASE x # k
      BY <1>11, <3>3 DEF Inv, TypeOK
    <3> QED BY <3>2, <3>3
  <2> QED BY <1>2, <2>1, <2>2, <2>3 DEF TypeOK
<1> QED BY <1>2, <1>12, <1>13, <1>14 DEF Inv

\* unlock_write preserves the invariant: the erased entry was this guard's alone.
LEMMA UnlockWriteInv ==
    ASSUME Inv, NEW t \in Threads, unlock_write(t)
    PROVE  Inv'
<1>0. PICK k : k = Innermost(t).key
  OBVIOUS
<1>1. InScope(t) /\ PopGuard(t) /\ Innermost(t).mode = "write" /\ notify_all(k)
      /\ locks' = Erase(k)
  BY <1>0 DEF unlock_write
<1>2. /\ LeavingHolds' /\ GuardsDistinct' /\ NoLostWakeup'
      /\ asleep' = {}
      /\ k \in Keys /\ k \in DOMAIN locks
      /\ leaving' \subseteq Threads
      /\ DOMAIN script' = Threads
      /\ \A u \in Threads : script'[u] \in Scripts(u) \cup {<<>>}
      /\ pos' \in [Threads -> Nat]
      /\ \A u \in Threads : pos'[u] <= Len(script'[u])
      /\ t \in Readers => Innermost(t) = Read(k)
      /\ t \notin Readers => Innermost(t) = Write(k)
  BY <1>0, <1>1, PopShape, Zenon
<1>3. Innermost(t) = Write(k)
  BY <1>1, <1>2 DEF Read
<1>4. \A u \in Threads : \A g : Holds(u, g)' <=> Holds(u, g) /\ ~(u = t /\ g = Write(k))
  BY <1>1, <1>3, HoldsPop DEF Inv
<1>5. /\ WritersOf(k)' = WritersOf(k) \ {t}
      /\ \A x : x # k => WritersOf(x)' = WritersOf(x)
      /\ \A x : ReadersOf(x)' = ReadersOf(x)
  BY <1>4, GuardsApart DEF ReadersOf, WritersOf
<1>6. t \in WritersOf(k)
  <2>1. pos[t] \in 1..pos[t]
    BY <1>1 DEF InScope, Inv, TypeOK
  <2> QED BY <1>3, <2>1 DEF WritersOf, Holds, Innermost
<1>7. ReadersOf(k) = {} /\ WritersOf(k)' = {}
  BY <1>2, <1>5, <1>6, HoldersKind DEF Inv, MutualExclusion
<1>8. DOMAIN locks' = DOMAIN locks \ {k} /\ \A x \in DOMAIN locks' : locks'[x] = locks[x]
  BY <1>1 DEF Erase
<1>9. MutualExclusion'
  BY <1>5, <1>7 DEF Inv, MutualExclusion
<1>10. TableMatchesGuards'
  BY <1>5, <1>7, <1>8 DEF Inv, TableMatchesGuards
<1>11. TypeOK'
  <2>1. locks' \in [DOMAIN locks' -> LockState]
    BY <1>1 DEF Erase, Inv, TypeOK
  <2> QED BY <1>2, <1>8, <2>1 DEF Inv, TypeOK
<1> QED BY <1>2, <1>9, <1>10, <1>11 DEF Inv
-----------------------------------------------------------------------------
\* The inductive step, one case per action of FileLocker.
LEMMA NextInv == Inv /\ [Next]_vars => Inv'
<1> SUFFICES ASSUME Inv, [Next]_vars PROVE Inv'
  OBVIOUS
<1>1. CASE UNCHANGED vars
  <2>1. TypeOK' /\ LeavingHolds' /\ GuardsDistinct'
    BY <1>1 DEF vars, Inv, TypeOK, LeavingHolds, GuardsDistinct
  <2>2. NoLostWakeup'
    BY <1>1 DEF vars, Inv, NoLostWakeup, Acquiring, Wanted, ReadBlocked, WriteBlocked
  <2>3. \A u \in Threads : \A g : Holds(u, g)' <=> Holds(u, g)
    BY <1>1 DEF vars, Holds
  <2> QED BY <1>1, <2>1, <2>2, <2>3, SameGuards DEF vars
<1>2. ASSUME NEW t \in Threads, Start(t) PROVE Inv'
  BY <1>2, EnterInv DEF Start
<1>3. ASSUME NEW t \in Threads, Step(t) PROVE Inv'
  BY <1>3, LockReadInv, LockWriteInv, UnlockReadInv, UnlockWriteInv DEF Step
<1>4. ASSUME NEW t \in Threads, SpuriousWakeup(t) PROVE Inv'
  BY <1>4, SleepInv DEF SpuriousWakeup
<1> QED BY <1>1, <1>2, <1>3, <1>4 DEF Next

\* The invariant holds throughout every behaviour of the locker.
LEMMA AlwaysInv == Spec => []Inv
BY InitInv, NextInv, PTL DEF Spec

\* Type correctness of FileLocker: the table holds lock states of known paths and no
\* reader_count is negative.
THEOREM TypeCorrect == Spec => []TypeOK
<1>1. Inv => TypeOK
  BY DEF Inv
<1> QED BY <1>1, AlwaysInv, PTL

\* A ReadLock and a WriteLock on the same path never live at the same time.
THEOREM Exclusion == Spec => []MutualExclusion
<1>1. Inv => MutualExclusion
  BY DEF Inv
<1> QED BY <1>1, AlwaysInv, PTL

\* locks_ always agrees with the guards alive: no entry leaks, no count drifts, and no
\* unlock meets a missing entry.
THEOREM TableExact == Spec => []TableMatchesGuards
<1>1. Inv => TableMatchesGuards
  BY DEF Inv
<1> QED BY <1>1, AlwaysInv, PTL

\* No thread sleeps in cv_.wait once its key is free.
THEOREM WakeupsKept == Spec => []NoLostWakeup
<1>1. Inv => NoLostWakeup
  BY DEF Inv
<1> QED BY <1>1, AlwaysInv, PTL

\* A sleeper's key is held by some thread.
LEMMA BlockedByHolder ==
    ASSUME Inv, NEW t \in asleep
    PROVE  /\ t \in Threads /\ Wanted(t).key \in Keys
           /\ t \in Readers => WritersOf(Wanted(t).key) # {}
           /\ t \notin Readers =>
                ReadersOf(Wanted(t).key) # {} \/ WritersOf(Wanted(t).key) # {}
<1>1. t \in Threads /\ Acquiring(t)
  BY DEF Inv, TypeOK, NoLostWakeup
<1>2. pos[t] + 1 \in 1..Len(script[t])
  BY <1>1, LenNat DEF Inv, Acquiring
<1>3. /\ Wanted(t).key \in Keys
      /\ t \in Readers => Wanted(t).mode = "read"
      /\ t \notin Readers => Wanted(t).mode # "read"
  <2> DEFINE i == pos[t] + 1
  <2>1. /\ script[t][i].key \in Keys
        /\ t \in Readers => script[t][i] = Read(script[t][i].key)
        /\ t \notin Readers => script[t][i] = Write(script[t][i].key)
    BY <1>1, <1>2, ScriptFacts DEF Inv
  <2> QED BY <2>1 DEF Wanted, Read, Write
<1>4. Wanted(t).key \in DOMAIN locks /\ (t \in Readers => locks[Wanted(t).key].write_locked)
  BY <1>3 DEF Inv, NoLostWakeup, ReadBlocked, WriteBlocked
<1> QED BY <1>1, <1>3, <1>4 DEF Inv, TableMatchesGuards

\* Nobody waits for ever on a thread that cannot run, provided no RENAME command
\* names one path string twice: a sleeping reader waits for the applier, and the
\* applier, when it sleeps too, waits for a reader, which holds its only lock.
THEOREM NoDeadlock ==
    ASSUME \A r \in Renames : r[1] # r[2]
    PROVE  Spec => []SomebodyCanRelease
<1>1. ASSUME Inv PROVE SomebodyCanRelease
  <2>1. ASSUME NEW k, NEW u \in ReadersOf(k)
        PROVE  u \in Threads /\ u \notin asleep /\ pos[u] > 0
    <3>1. u \in Readers /\ u \in Threads
      BY <1>1, HoldersKind DEF Inv, ReadersOf
    <3>2. PICK i \in 1..pos[u] : TRUE
      BY DEF ReadersOf, Holds
    <3>3. pos[u] \in Nat /\ pos[u] > 0 /\ Len(script[u]) \in Nat /\ pos[u] <= Len(script[u])
      BY <1>1, <3>1, <3>2, LenNat DEF Inv, TypeOK
    <3>4. Len(script[u]) = 1
      BY <1>1, <3>1, <3>3, ScriptFacts DEF Inv
    <3>5. ~Acquiring(u)
      BY <3>3, <3>4 DEF Acquiring
    <3> QED BY <1>1, <3>1, <3>3, <3>5 DEF Inv, NoLostWakeup
  <2>2. ASSUME NEW k, WritersOf(k) # {}
        PROVE  Applier \in Threads /\ pos[Applier] > 0 /\ Holds(Applier, Write(k))
    <3>1. Applier \in Threads /\ Applier \in WritersOf(k)
      BY <1>1, <2>2, HoldersKind DEF Inv, Threads
    <3>2. PICK i \in 1..pos[Applier] : script[Applier][i] = Write(k)
      BY <3>1 DEF WritersOf, Holds
    <3> QED BY <1>1, <3>1, <3>2, LenNat DEF Inv, WritersOf
  <2>3. ASSUME Applier \in asleep, WritersOf(Wanted(Applier).key) # {} PROVE FALSE
    <3> DEFINE s == script[Applier]
    <3>1. Applier \in Threads /\ Applier \notin Readers /\ Acquiring(Applier)
      BY <1>1, <2>3, LockerConstants DEF Inv, NoLostWakeup, Threads
    <3>2. Holds(Applier, Write(Wanted(Applier).key)) /\ pos[Applier] > 0
      BY <2>2, <2>3
    <3>3. pos[Applier] = 1 /\ Len(s) = 2
      <4>1. pos[Applier] \in Nat /\ Len(s) \in Nat /\ Len(s) <= 2
        BY <1>1, <3>1, LenNat DEF Inv
      <4>2. pos[Applier] < Len(s)
        BY <3>1 DEF Acquiring
      <4>3. \A m, n \in Nat : m > 0 /\ m < n /\ n <= 2 => m = 1 /\ n = 2
        OBVIOUS
      <4> QED BY <3>2, <4>1, <4>2, <4>3
    <3>4. s \in Scripts(Applier)
      <4>1. s # <<>>
        BY <3>3
      <4> QED BY <1>1, <3>1, <4>1 DEF Inv, TypeOK
    <3>5. PICK r \in Renames : s = <<Write(r[1]), Write(r[2])>>
      BY <3>1, <3>3, <3>4 DEF Scripts
    <3>6. s[1] = Write(Wanted(Applier).key) /\ Wanted(Applier) = s[2]
      BY <3>2, <3>3 DEF Holds, Wanted
    <3>7. Write(r[1]) = Write(r[2])
      BY <3>5, <3>6 DEF Write
    <3> QED BY <3>7, GuardsApart
  <2>4. SUFFICES ASSUME NEW t \in asleep PROVE \E u \in Threads \ asleep : pos[u] > 0
    BY DEF SomebodyCanRelease
  <2>5. CASE Applier \notin asleep
    <3>1. ReadersOf(Wanted(t).key) # {} \/ WritersOf(Wanted(t).key) # {}
      BY <1>1, BlockedByHolder
    <3> QED BY <2>1, <2>2, <2>5, <3>1
  <2>6. CASE Applier \in asleep
    <3>1. ReadersOf(Wanted(Applier).key) # {}
      BY <1>1, <2>3, <2>6, BlockedByHolder, LockerConstants
    <3> QED BY <2>1, <3>1
  <2> QED BY <2>5, <2>6
<1> QED BY <1>1, AlwaysInv, PTL
=============================================================================
