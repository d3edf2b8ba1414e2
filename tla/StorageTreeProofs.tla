-------------------------- MODULE StorageTreeProofs --------------------------
(***************************************************************************)
(* Lemmas about the directory tree of Storage: what the system calls do to *)
(* it, that they keep it well formed and do not care what is in the files, *)
(* and which of them leave a file and the way to it alone.                 *)
(***************************************************************************)
EXTENDS InodeTree, TLAPS

-----------------------------------------------------------------------------
\* The first of up to three tests that fails.
LEMMA MinOfThree ==
    ASSUME NEW S, S \subseteq 1..3, S # {}
    PROVE  Min(S) \in S
  <1>1. \E x \in S : \A y \in S : x <= y
    <2>1. S \subseteq {1, 2, 3} OBVIOUS
    <2>2. CASE 1 \in S BY <2>1, <2>2
    <2>3. CASE 1 \notin S /\ 2 \in S BY <2>1, <2>3
    <2>4. CASE 1 \notin S /\ 2 \notin S
      <3>1. 3 \in S /\ \A y \in S : y = 3 BY <2>1, <2>4, Zenon
      <3> QED BY <3>1
    <2> QED BY <2>2, <2>3, <2>4, Zenon
  <1> QED BY <1>1, Zenon DEF Min

\* A call of two tests succeeds if both pass, and changes nothing otherwise.
LEMMA TryTwo ==
    ASSUME NEW f, NEW g, NEW e1, NEW e2
    PROVE  LET sys == Try(f, <<e1, e2>>, g) IN
           /\ sys.err = "OK" <=> e1 = "OK" /\ e2 = "OK"
           /\ sys.err = "OK" => sys.tree = g
           /\ sys.err # "OK" => sys.tree = f
  <1> DEFINE met == {i \in DOMAIN <<e1, e2>> : <<e1, e2>>[i] # "OK"}
  <1>1. CASE met = {}
    BY <1>1 DEF Try, Done
  <1>2. CASE met # {}
    <2>1. met \subseteq 1..3 OBVIOUS
    <2>2. Min(met) \in met BY <1>2, <2>1, MinOfThree, Zenon
    <2> QED BY <1>2, <2>2 DEF Try, Failed
  <1> QED BY <1>1, <1>2, Zenon

\* The same for three tests.
LEMMA TryThree ==
    ASSUME NEW f, NEW g, NEW e1, NEW e2, NEW e3
    PROVE  LET sys == Try(f, <<e1, e2, e3>>, g) IN
           /\ sys.err = "OK" <=> e1 = "OK" /\ e2 = "OK" /\ e3 = "OK"
           /\ sys.err = "OK" => sys.tree = g
           /\ sys.err # "OK" => sys.tree = f
  <1> DEFINE met == {i \in DOMAIN <<e1, e2, e3>> : <<e1, e2, e3>>[i] # "OK"}
  <1>1. CASE met = {}
    BY <1>1 DEF Try, Done
  <1>2. CASE met # {}
    <2>1. met \subseteq 1..3 OBVIOUS
    <2>2. Min(met) \in met BY <1>2, <2>1, MinOfThree, Zenon
    <2> QED BY <1>2, <2>2 DEF Try, Failed
  <1> QED BY <1>1, <1>2, Zenon

\* A system call leaves the tree as it was, or makes the one tree it can make.
LEMMA TryEither ==
    ASSUME NEW f, NEW tests, NEW g
    PROVE  LET sys == Try(f, tests, g) IN
           \/ sys.tree = f
           \/ sys.tree = g /\ \A i \in DOMAIN tests : tests[i] = "OK"
  BY Zenon DEF Try, Done, Failed

-----------------------------------------------------------------------------
\* The system calls see of a file only that it is one.
LEMMA ShapeFacts ==
    ASSUME NEW f, NEW g, DOMAIN f = DOMAIN g, \A l \in DOMAIN f : f[l].kind = g[l].kind
    PROVE  /\ \A l : /\ Exists(f, l) <=> Exists(g, l)
                     /\ IsDir(f, l) <=> IsDir(g, l)
                     /\ IsFile(f, l) <=> IsFile(g, l)
           /\ \A l : WalkErr(f, l) = WalkErr(g, l)
           /\ \A l : Below(f, l) = Below(g, l)
  <1>1. \A l : /\ Exists(f, l) <=> Exists(g, l)
               /\ IsDir(f, l) <=> IsDir(g, l)
               /\ IsFile(f, l) <=> IsFile(g, l)
    BY Zenon DEF Exists, IsDir, IsFile
  <1>2. ASSUME NEW l PROVE WalkErr(f, l) = WalkErr(g, l)
    <2>1. {i \in 0..Len(l) - 1 : ~IsDir(f, SubSeq(l, 1, i))}
          = {i \in 0..Len(l) - 1 : ~IsDir(g, SubSeq(l, 1, i))}
      BY <1>1, Zenon
    <2> QED BY <1>1, <2>1, Zenon DEF WalkErr
  <1>3. ASSUME NEW l PROVE Below(f, l) = Below(g, l)
    BY Zenon DEF Below
  <1> QED BY <1>1, <1>2, <1>3, Zenon

-----------------------------------------------------------------------------
\* Two sequences with the same elements are the same.
LEMMA SameSeq ==
    ASSUME NEW S, NEW s \in Seq(S), NEW t \in Seq(S), Len(s) = Len(t),
           \A i \in 1..Len(s) : s[i] = t[i]
    PROVE  s = t
  OBVIOUS

\* The elements of a concatenation.
LEMMA ConcatFacts ==
    ASSUME NEW S, NEW s \in Seq(S), NEW t \in Seq(S)
    PROVE  /\ s \o t \in Seq(S) /\ Len(s \o t) = Len(s) + Len(t)
           /\ \A i \in 1..Len(s) : (s \o t)[i] = s[i]
           /\ \A i \in 1..Len(t) : (s \o t)[Len(s) + i] = t[i]
           /\ \A i \in 1..Len(s) + Len(t) : i > Len(s) => (s \o t)[i] = t[i - Len(s)]
  OBVIOUS

\* Where rename puts what is inside o, and where it came from.
To(o, n, x) == n \o SubSeq(x, Len(o) + 1, Len(x))
Back(o, n, m) == o \o SubSeq(m, Len(n) + 1, Len(m))

\* Moving from o to n and back again: nothing is lost.
LEMMA MoveBack ==
    ASSUME NEW S, NEW o \in Seq(S), NEW n \in Seq(S), NEW x \in Seq(S), Inside(o, x)
    PROVE  /\ To(o, n, x) \in Seq(S)
           /\ Inside(n, To(o, n, x))
           /\ Back(o, n, To(o, n, x)) = x
  <1>1. /\ Len(o) \in Nat /\ Len(n) \in Nat /\ Len(x) \in Nat /\ Len(o) < Len(x)
        /\ SubSeq(x, 1, Len(o)) = o
    BY DEF Inside
  <1>2. PICK rest, m : rest = SubSeq(x, Len(o) + 1, Len(x)) /\ m = n \o rest BY Zenon
  <1>3. /\ rest \in Seq(S) /\ Len(rest) = Len(x) - Len(o)
        /\ \A i \in 1..Len(rest) : rest[i] = x[Len(o) + i]
        /\ \A i \in 1..Len(o) : o[i] = x[i]
    BY <1>1, <1>2
  <1>4. /\ m \in Seq(S) /\ Len(m) = Len(n) + Len(rest)
        /\ \A i \in 1..Len(n) : m[i] = n[i]
        /\ \A i \in 1..Len(rest) : m[Len(n) + i] = rest[i]
    <2>1. rest \in Seq(S) BY <1>3, Zenon
    <2>2. m \in Seq(S) /\ Len(m) = Len(n) + Len(rest) BY <1>2, <2>1, ConcatFacts, Zenon
    <2>3. \A i \in 1..Len(n) : m[i] = n[i] BY <1>2, <2>1, ConcatFacts
    <2>4. \A i \in 1..Len(rest) : m[Len(n) + i] = rest[i] BY <1>2, <2>1, ConcatFacts
    <2> QED BY <2>2, <2>3, <2>4, Zenon
  <1>5. SubSeq(m, 1, Len(n)) = n
    BY <1>1, <1>3, <1>4
  <1>6. SubSeq(m, Len(n) + 1, Len(m)) = rest
    BY <1>1, <1>3, <1>4
  <1>7. o \o rest = x
    <2>1. PICK y : y = o \o rest BY Zenon
    <2>2. /\ y \in Seq(S) /\ Len(y) = Len(x)
          /\ \A i \in 1..Len(o) : y[i] = o[i]
          /\ \A i \in 1..Len(rest) : y[Len(o) + i] = rest[i]
      BY <1>1, <1>3, <2>1, ConcatFacts
    <2>3. ASSUME NEW i \in 1..Len(x) PROVE y[i] = x[i]
      <3>1. CASE i <= Len(o)
        <4>1. i \in 1..Len(o) BY <1>1, <3>1
        <4> QED BY <1>3, <2>2, <4>1, Zenon
      <3>2. CASE i > Len(o)
        <4>1. PICK k \in 1..Len(rest) : i = Len(o) + k
          <5>1. i - Len(o) \in 1..Len(rest) /\ i = Len(o) + (i - Len(o)) BY <1>1, <1>3, <3>2
          <5> QED BY <5>1, Zenon
        <4> QED BY <1>3, <2>2, <4>1, Zenon
      <3> QED BY <1>1, <3>1, <3>2
    <2> QED BY <2>1, <2>2, <2>3, SameSeq, Zenon
  <1>8. m = To(o, n, x) BY <1>2, Zenon DEF To
  <1>9. Inside(n, m) BY <1>1, <1>3, <1>4, <1>5 DEF Inside
  <1>10. Back(o, n, m) = x BY <1>6, <1>7, Zenon DEF Back
  <1> QED BY <1>4, <1>8, <1>9, <1>10, Zenon

\* The directory entry itself.
LEMMA MoveSelf ==
    ASSUME NEW S, NEW o \in Seq(S), NEW n \in Seq(S)
    PROVE  Back(o, n, n) = o /\ To(o, n, o) = n
  BY DEF To, Back

-----------------------------------------------------------------------------
\* What a directory entry is.
LEMMA EntryFacts ==
    ASSUME NEW f, NEW n \in Nat, WellFormed(f, n), NEW l \in DOMAIN f
    PROVE  /\ l \in Seq(Names)
           /\ IsDir(f, l) <=> ~IsFile(f, l)
           /\ IsDir(f, l) => f[l] = Dir
           /\ IsFile(f, l) => f[l].body \in 1..n /\ f[l] = File(f[l].body)
  BY DEF WellFormed, IsDir, IsFile, Exists, Dir, File

\* A new entry, for a directory or for a new inode.
LEMMA WithFormed ==
    ASSUME NEW f, NEW n \in Nat, WellFormed(f, n), NEW l \in Seq(Names), ~Exists(f, l)
    PROVE  /\ WellFormed(With(f, l, Dir), n)
           /\ WellFormed(With(f, l, File(n + 1)), n + 1)
  <1>1. DOMAIN f \subseteq Seq(Names) /\ l \notin DOMAIN f
    BY Zenon DEF WellFormed, Exists
  <1>2. ASSUME NEW k \in Nat, n <= k, NEW x \in {Dir} \cup {File(i) : i \in 1..k},
               \A m \in DOMAIN f : IsFile(f, m) => f[m] # x
        PROVE  WellFormed(With(f, l, x), k)
    <2>1. PICK g : g = With(f, l, x) BY Zenon
    <2>2. DOMAIN g = DOMAIN f \cup {l} /\ g[l] = x /\ \A m \in DOMAIN f : g[m] = f[m]
      BY <1>1, <2>1, Zenon DEF With
    <2>3. g \in [DOMAIN g -> {Dir} \cup {File(i) : i \in 1..k}]
      <3>1. ASSUME NEW m \in DOMAIN f PROVE f[m] \in {Dir} \cup {File(i) : i \in 1..k}
        BY <1>2, EntryFacts
      <3> QED BY <1>2, <2>1, <2>2, <3>1, Zenon DEF With
    <2>4. ASSUME NEW a \in DOMAIN g, NEW b \in DOMAIN g, IsFile(g, a), IsFile(g, b),
                 g[a].body = g[b].body
          PROVE  a = b
      <3>1. g[a] = g[b] BY <2>3, <2>4 DEF IsFile, Exists, Dir, File
      <3>2. CASE a \in DOMAIN f /\ b \in DOMAIN f
        BY <2>2, <2>4, <3>2, Zenon DEF WellFormed, IsFile, Exists
      <3>3. CASE a = l /\ b \in DOMAIN f
        BY <1>1, <1>2, <2>2, <2>4, <3>1, <3>3, Zenon DEF IsFile, Exists
      <3>4. CASE b = l /\ a \in DOMAIN f
        BY <1>1, <1>2, <2>2, <2>4, <3>1, <3>4, Zenon DEF IsFile, Exists
      <3> QED BY <2>2, <3>2, <3>3, <3>4, Zenon
    <2> QED BY <1>1, <2>1, <2>2, <2>3, <2>4, Zenon DEF WellFormed
  <1>3. \A m \in DOMAIN f : IsFile(f, m) => f[m] # Dir /\ f[m] # File(n + 1)
    <2> SUFFICES ASSUME NEW m \in DOMAIN f, IsFile(f, m) PROVE f[m] # Dir /\ f[m] # File(n + 1)
      BY Zenon
    <2>1. f[m].body \in 1..n /\ f[m].kind = "file" BY EntryFacts, Zenon DEF IsFile
    <2> QED BY <2>1 DEF Dir, File
  <1> QED BY <1>2, <1>3

\* An entry is removed.
LEMMA WithoutFormed ==
    ASSUME NEW f, NEW n \in Nat, WellFormed(f, n), NEW l
    PROVE  WellFormed(Without(f, l), n)
  BY Zenon DEF WellFormed, Without, Restrict, IsFile, Exists

\* The entries after a rename: those that were moved, each with what was at one old place,
\* and those that stay.
MovedTo(f, o, n) == {n} \cup {To(o, n, x) : x \in Below(f, o)}
Stay(f, o, n) == DOMAIN f \ ({o, n} \cup Below(f, o))

\* A rename in these terms.
LEMMA MovedIs ==
    ASSUME NEW f, NEW o, NEW n
    PROVE  Moved(f, o, n) = [m \in MovedTo(f, o, n) \cup Stay(f, o, n) |->
                               IF m \in MovedTo(f, o, n) THEN f[Back(o, n, m)] ELSE f[m]]
  BY Zenon DEF Moved, MovedTo, Stay, To, Back

\* Each moved entry has one old place.
LEMMA MovedPlaces ==
    ASSUME NEW f, DOMAIN f \subseteq Seq(Names), NEW o \in DOMAIN f, NEW n \in Seq(Names),
           NEW m \in MovedTo(f, o, n)
    PROVE  /\ m \in Seq(Names)
           /\ Back(o, n, m) \in {o} \cup Below(f, o)
           /\ m = To(o, n, Back(o, n, m))
           /\ m = n \/ Inside(n, m)
  <1>1. CASE m = n BY <1>1, MoveSelf, Zenon
  <1>2. CASE m # n
    <2>1. PICK x \in Below(f, o) : m = To(o, n, x) BY <1>2, Zenon DEF MovedTo
    <2>2. x \in Seq(Names) /\ Inside(o, x) BY Zenon DEF Below
    <2>3. m \in Seq(Names) /\ Inside(n, m) /\ Back(o, n, m) = x
      BY <2>1, <2>2, MoveBack
    <2> QED BY <2>1, <2>3, Zenon
  <1> QED BY <1>1, <1>2, Zenon

\* A rename keeps the tree well formed.
LEMMA MovedFormed ==
    ASSUME NEW f, NEW k \in Nat, WellFormed(f, k), NEW o \in DOMAIN f, NEW n \in Seq(Names)
    PROVE  WellFormed(Moved(f, o, n), k)
  <1> DEFINE source(m) == IF m \in MovedTo(f, o, n) THEN Back(o, n, m) ELSE m
  <1>1. PICK g : g = Moved(f, o, n) BY Zenon
  <1>2. DOMAIN f \subseteq Seq(Names) BY Zenon DEF WellFormed
  <1>3. /\ DOMAIN g = MovedTo(f, o, n) \cup Stay(f, o, n)
        /\ \A m \in DOMAIN g : g[m] = f[source(m)]
        /\ g = [m \in DOMAIN g |-> g[m]]
    BY <1>1, MovedIs, Zenon
  <1>4. ASSUME NEW m \in DOMAIN g PROVE m \in Seq(Names) /\ source(m) \in DOMAIN f
    BY <1>2, <1>3, MovedPlaces DEF Stay, Below
  <1>5. ASSUME NEW a \in DOMAIN g, NEW b \in DOMAIN g, source(a) = source(b) PROVE a = b
    <2>1. \A m \in MovedTo(f, o, n) : source(m) \in {o} \cup Below(f, o) /\ m = To(o, n, source(m))
      BY <1>2, MovedPlaces
    <2>2. \A m \in DOMAIN g : m \notin MovedTo(f, o, n) => source(m) = m /\ m \notin {o} \cup Below(f, o)
      BY <1>3, Zenon DEF Stay
    <2> QED BY <1>5, <2>1, <2>2, Zenon
  <1> HIDE DEF source
  <1>6. g \in [DOMAIN g -> {Dir} \cup {File(i) : i \in 1..k}]
    BY <1>3, <1>4, Zenon DEF WellFormed
  <1>7. ASSUME NEW a \in DOMAIN g, NEW b \in DOMAIN g, IsFile(g, a), IsFile(g, b),
               g[a].body = g[b].body
        PROVE  a = b
    <2>1. IsFile(f, source(a)) /\ IsFile(f, source(b)) /\ f[source(a)].body = f[source(b)].body
      BY <1>3, <1>4, <1>7, Zenon DEF IsFile, Exists
    <2>2. source(a) = source(b) BY <1>4, <2>1, Zenon DEF WellFormed
    <2> QED BY <1>5, <2>2, Zenon
  <1> QED BY <1>1, <1>4, <1>6, <1>7, Zenon DEF WellFormed

-----------------------------------------------------------------------------
\* The tree of contents has the shape of the tree.
LEMMA ContentsShape ==
    ASSUME NEW f, NEW n \in Nat, WellFormed(f, n), NEW d
    PROVE  /\ DOMAIN ContentsOf(f, d) = DOMAIN f
           /\ \A l \in DOMAIN f : f[l].kind = ContentsOf(f, d)[l].kind
           /\ \A l \in DOMAIN f : IsFile(f, l) => ContentsOf(f, d)[l] = File(d[f[l].body])
           /\ \A l \in DOMAIN f : IsDir(f, l) => ContentsOf(f, d)[l] = Dir
  BY EntryFacts DEF ContentsOf, IsDir, IsFile, Exists, Dir, File

\* Making and removing entries commutes with looking at the contents.
LEMMA ContentsWith ==
    ASSUME NEW f, NEW n \in Nat, WellFormed(f, n), NEW d, NEW l, ~Exists(f, l)
    PROVE  ContentsOf(With(f, l, Dir), d) = With(ContentsOf(f, d), l, Dir)
  BY Zenon DEF ContentsOf, With, IsDir, Exists, Dir

\* The same for a new file i, when e is the data with that file.
LEMMA ContentsWithFile ==
    ASSUME NEW f, NEW n \in Nat, WellFormed(f, n), NEW d, NEW l, ~Exists(f, l), NEW e, NEW i,
           \A j \in 1..n : e[j] = d[j]
    PROVE  ContentsOf(With(f, l, File(i)), e) = With(ContentsOf(f, d), l, File(e[i]))
  <1>1. PICK g : g = With(f, l, File(i)) BY Zenon
  <1>2. /\ DOMAIN g = DOMAIN f \cup {l} /\ l \notin DOMAIN f
        /\ g[l] = File(i) /\ \A m \in DOMAIN f : g[m] = f[m]
    BY <1>1, Zenon DEF With, Exists
  <1>3. ASSUME NEW m \in DOMAIN f PROVE ContentsOf(g, e)[m] = ContentsOf(f, d)[m]
    <2>1. CASE IsDir(f, m) BY <1>2, <2>1, Zenon DEF ContentsOf, IsDir, Exists
    <2>2. CASE ~IsDir(f, m)
      <3>1. f[m].body \in 1..n BY <2>2, EntryFacts, Zenon
      <3> QED BY <1>2, <2>2, <3>1, Zenon DEF ContentsOf, IsDir, Exists
    <2> QED BY <2>1, <2>2, Zenon
  <1>4. ContentsOf(g, e)[l] = File(e[i]) BY <1>2 DEF ContentsOf, IsDir, Exists, File
  <1>5. ContentsOf(g, e) = [m \in DOMAIN f \cup {l} |-> ContentsOf(g, e)[m]]
    BY <1>2, Zenon DEF ContentsOf
  <1>6. DOMAIN ContentsOf(f, d) = DOMAIN f BY Zenon DEF ContentsOf
  <1> QED BY <1>1, <1>2, <1>3, <1>4, <1>5, <1>6, Zenon DEF With

\* The same for an entry that is removed.
LEMMA ContentsWithout ==
    ASSUME NEW f, NEW d, NEW l
    PROVE  ContentsOf(Without(f, l), d) = Without(ContentsOf(f, d), l)
  BY Zenon DEF ContentsOf, Without, Restrict, IsDir, Exists

\* The same for a rename.
LEMMA ContentsMoved ==
    ASSUME NEW f, NEW k \in Nat, WellFormed(f, k), NEW d, NEW o \in DOMAIN f, NEW n \in Seq(Names)
    PROVE  ContentsOf(Moved(f, o, n), d) = Moved(ContentsOf(f, d), o, n)
  <1>1. PICK g, h : g = ContentsOf(f, d) /\ h = Moved(f, o, n) BY Zenon
  <1>2. /\ DOMAIN g = DOMAIN f /\ DOMAIN f \subseteq Seq(Names)
        /\ \A m \in DOMAIN f : g[m] = IF f[m].kind = "dir" THEN Dir ELSE File(d[f[m].body])
    BY <1>1, Zenon DEF ContentsOf, WellFormed, IsDir, Exists
  <1>3. Below(g, o) = Below(f, o) BY <1>2, Zenon DEF Below
  <1>4. MovedTo(g, o, n) = MovedTo(f, o, n) /\ Stay(g, o, n) = Stay(f, o, n)
    BY <1>2, <1>3, Zenon DEF MovedTo, Stay
  <1>5. /\ DOMAIN h = MovedTo(f, o, n) \cup Stay(f, o, n)
        /\ \A m \in DOMAIN h : h[m] = IF m \in MovedTo(f, o, n) THEN f[Back(o, n, m)] ELSE f[m]
    BY <1>1, MovedIs, Zenon
  <1>6. ASSUME NEW m \in DOMAIN h
        PROVE  ContentsOf(h, d)[m] = IF m \in MovedTo(f, o, n) THEN g[Back(o, n, m)] ELSE g[m]
    <2>1. CASE m \in MovedTo(f, o, n)
      <3>1. Back(o, n, m) \in DOMAIN f BY <1>2, <2>1, MovedPlaces, Zenon DEF Below
      <3> QED BY <1>2, <1>5, <2>1, <3>1, Zenon DEF ContentsOf, IsDir, Exists
    <2>2. CASE m \notin MovedTo(f, o, n)
      <3>1. m \in DOMAIN f BY <1>5, <2>2, Zenon DEF Stay
      <3> QED BY <1>2, <1>5, <2>2, <3>1, Zenon DEF ContentsOf, IsDir, Exists
    <2> QED BY <2>1, <2>2, Zenon
  <1>7. ContentsOf(h, d) = [m \in MovedTo(f, o, n) \cup Stay(f, o, n) |-> ContentsOf(h, d)[m]]
    BY <1>5, Zenon DEF ContentsOf
  <1>8. Moved(g, o, n) = [m \in MovedTo(f, o, n) \cup Stay(f, o, n) |->
                            IF m \in MovedTo(f, o, n) THEN g[Back(o, n, m)] ELSE g[m]]
    BY <1>4, MovedIs, Zenon
  <1> QED BY <1>1, <1>5, <1>6, <1>7, <1>8, Zenon

-----------------------------------------------------------------------------
\* What a system call did, looked at through the contents.
Seen(sys, d) == [err |-> sys.err, tree |-> ContentsOf(sys.tree, d)]

\* A call that makes the same tests and, if they pass, the same change, looks the same.
LEMMA TrySeen ==
    ASSUME NEW f, NEW d, NEW tests, NEW g, NEW h,
           (\A i \in DOMAIN tests : tests[i] = "OK") => h = ContentsOf(g, d)
    PROVE  Try(ContentsOf(f, d), tests, h) = Seen(Try(f, tests, g), d)
  BY Zenon DEF Try, Seen, Done, Failed

\* The calls that change the tree: they look the same, and leave it well formed.
LEMMA MkdirSeen ==
    ASSUME NEW f, NEW n \in Nat, WellFormed(f, n), NEW d, NEW l \in Seq(Names)
    PROVE  /\ sys_mkdir(ContentsOf(f, d), l) = Seen(sys_mkdir(f, l), d)
           /\ WellFormed(sys_mkdir(f, l).tree, n)
  <1> DEFINE F == ContentsOf(f, d)
             tests == <<WalkErr(f, l), When(Exists(f, l), "EEXIST")>>
  <1>1. WalkErr(F, l) = WalkErr(f, l) /\ (Exists(F, l) <=> Exists(f, l))
    BY ContentsShape, ShapeFacts
  <1>2. (\A i \in DOMAIN tests : tests[i] = "OK") => ~Exists(f, l)
    <2>1. 2 \in DOMAIN tests /\ tests[2] = When(Exists(f, l), "EEXIST") OBVIOUS
    <2> QED BY <2>1, Zenon DEF When
  <1>3. (\A i \in DOMAIN tests : tests[i] = "OK") => With(F, l, Dir) = ContentsOf(With(f, l, Dir), d)
    BY <1>2, ContentsWith, Zenon
  <1>4. sys_mkdir(f, l) = Try(f, tests, With(f, l, Dir)) BY Zenon DEF sys_mkdir
  <1>5. sys_mkdir(F, l) = Try(F, tests, With(F, l, Dir)) BY <1>1, Zenon DEF sys_mkdir, When
  <1> HIDE DEF tests
  <1>6. sys_mkdir(F, l) = Seen(sys_mkdir(f, l), d)
    BY <1>3, <1>4, <1>5, TrySeen
  <1>7. WellFormed(sys_mkdir(f, l).tree, n)
    BY <1>2, <1>4, TryEither, WithFormed
  <1> QED BY <1>6, <1>7, Zenon

\* The same for unlink.
LEMMA UnlinkSeen ==
    ASSUME NEW f, NEW n \in Nat, WellFormed(f, n), NEW d, NEW l \in Seq(Names)
    PROVE  /\ sys_unlink(ContentsOf(f, d), l) = Seen(sys_unlink(f, l), d)
           /\ WellFormed(sys_unlink(f, l).tree, n)
  <1> DEFINE F == ContentsOf(f, d)
             tests == <<WalkErr(f, l), When(~Exists(f, l), "ENOENT"), When(IsDir(f, l), "EISDIR")>>
  <1>1. /\ WalkErr(F, l) = WalkErr(f, l)
        /\ (Exists(F, l) <=> Exists(f, l)) /\ (IsDir(F, l) <=> IsDir(f, l))
    BY ContentsShape, ShapeFacts
  <1>2. sys_unlink(f, l) = Try(f, tests, Without(f, l)) BY Zenon DEF sys_unlink
  <1>3. sys_unlink(F, l) = Try(F, tests, Without(F, l)) BY <1>1, Zenon DEF sys_unlink, When
  <1> HIDE DEF tests
  <1>4. sys_unlink(F, l) = Seen(sys_unlink(f, l), d)
    BY <1>2, <1>3, TrySeen, ContentsWithout
  <1>5. WellFormed(sys_unlink(f, l).tree, n)
    BY <1>2, TryEither, WithoutFormed
  <1> QED BY <1>4, <1>5, Zenon

\* The same for rmdir.
LEMMA RmdirSeen ==
    ASSUME NEW f, NEW n \in Nat, WellFormed(f, n), NEW d, NEW l \in Seq(Names)
    PROVE  /\ sys_rmdir(ContentsOf(f, d), l) = Seen(sys_rmdir(f, l), d)
           /\ WellFormed(sys_rmdir(f, l).tree, n)
  <1> DEFINE F == ContentsOf(f, d)
             tests == <<WalkErr(f, l), When(~Exists(f, l), "ENOENT"), When(IsFile(f, l), "ENOTDIR"),
                        When(Below(f, l) # {}, "ENOTEMPTY")>>
  <1>1. /\ WalkErr(F, l) = WalkErr(f, l) /\ Below(F, l) = Below(f, l)
        /\ (Exists(F, l) <=> Exists(f, l)) /\ (IsFile(F, l) <=> IsFile(f, l))
    BY ContentsShape, ShapeFacts
  <1>2. sys_rmdir(f, l) = Try(f, tests, Without(f, l)) BY Zenon DEF sys_rmdir
  <1>3. sys_rmdir(F, l) = Try(F, tests, Without(F, l)) BY <1>1, Zenon DEF sys_rmdir, When
  <1> HIDE DEF tests
  <1>4. sys_rmdir(F, l) = Seen(sys_rmdir(f, l), d)
    BY <1>2, <1>3, TrySeen, ContentsWithout
  <1>5. WellFormed(sys_rmdir(f, l).tree, n)
    BY <1>2, TryEither, WithoutFormed
  <1> QED BY <1>4, <1>5, Zenon

\* The same for rename.
LEMMA RenameSeen ==
    ASSUME NEW f, NEW k \in Nat, WellFormed(f, k), NEW d, NEW o \in Seq(Names), NEW n \in Seq(Names)
    PROVE  /\ sys_rename(ContentsOf(f, d), o, n) = Seen(sys_rename(f, o, n), d)
           /\ WellFormed(sys_rename(f, o, n).tree, k)
  <1> DEFINE F == ContentsOf(f, d)
             tests == <<WalkErr(f, o), WalkErr(f, n), When(~Exists(f, o), "ENOENT"),
                        When(Inside(o, n), "EINVAL"), When(Inside(n, o), "ENOTEMPTY"),
                        When(IsDir(f, o) /\ IsFile(f, n), "ENOTDIR"),
                        When(IsFile(f, o) /\ IsDir(f, n), "EISDIR"),
                        When(o # n /\ Below(f, n) # {}, "ENOTEMPTY")>>
             after(g) == IF o = n THEN g ELSE Moved(g, o, n)
  <1>1. /\ WalkErr(F, o) = WalkErr(f, o) /\ WalkErr(F, n) = WalkErr(f, n) /\ Below(F, n) = Below(f, n)
        /\ (Exists(F, o) <=> Exists(f, o)) /\ (IsFile(F, o) <=> IsFile(f, o))
        /\ (IsDir(F, o) <=> IsDir(f, o))
        /\ (IsFile(F, n) <=> IsFile(f, n)) /\ (IsDir(F, n) <=> IsDir(f, n))
    BY ContentsShape, ShapeFacts
  <1>2. (\A i \in DOMAIN tests : tests[i] = "OK") => o \in DOMAIN f
    <2>1. 3 \in DOMAIN tests /\ tests[3] = When(~Exists(f, o), "ENOENT") OBVIOUS
    <2> QED BY <2>1, Zenon DEF When, Exists
  <1>3. sys_rename(f, o, n) = Try(f, tests, after(f)) BY Zenon DEF sys_rename
  <1>4. sys_rename(F, o, n) = Try(F, tests, after(F)) BY <1>1 DEF sys_rename, When
  <1>5. o \in DOMAIN f => after(F) = ContentsOf(after(f), d) /\ WellFormed(after(f), k)
    BY ContentsMoved, MovedFormed, Zenon
  <1> HIDE DEF tests, after
  <1>6. sys_rename(F, o, n) = Seen(sys_rename(f, o, n), d)
    BY <1>2, <1>3, <1>4, <1>5, TrySeen
  <1>7. WellFormed(sys_rename(f, o, n).tree, k)
    BY <1>2, <1>3, <1>5, TryEither
  <1> QED BY <1>6, <1>7, Zenon

\* open with O_CREAT | O_EXCL succeeds if there is no such file.
LEMMA OpenExclFacts ==
    ASSUME NEW f, NEW l, NEW x
    PROVE  /\ sys_open_excl(f, l, x).err = "OK" <=> WalkErr(f, l) = "OK" /\ ~Exists(f, l)
           /\ sys_open_excl(f, l, x).err = "OK" => sys_open_excl(f, l, x).tree = With(f, l, File(x))
           /\ sys_open_excl(f, l, x).err # "OK" => sys_open_excl(f, l, x).tree = f
  BY TryTwo DEF sys_open_excl, When

\* open with O_CREAT succeeds if there is no such directory.
LEMMA OpenCreatFacts ==
    ASSUME NEW f, NEW l, NEW x
    PROVE  /\ sys_open_creat(f, l, x).err = "OK" <=> WalkErr(f, l) = "OK" /\ ~IsDir(f, l)
           /\ sys_open_creat(f, l, x).err = "OK" =>
                 sys_open_creat(f, l, x).tree = IF Exists(f, l) THEN f ELSE With(f, l, File(x))
           /\ sys_open_creat(f, l, x).err # "OK" => sys_open_creat(f, l, x).tree = f
  BY TryTwo DEF sys_open_creat, When

\* open with O_RDONLY succeeds if there is such a file.
LEMMA OpenReadFacts ==
    ASSUME NEW f, NEW l
    PROVE  sys_open_read(f, l).err = "OK" <=>
              WalkErr(f, l) = "OK" /\ Exists(f, l) /\ ~IsDir(f, l)
  BY TryThree DEF sys_open_read, When

\* The errno of a call depends on its tests alone.
LEMMA TryErr ==
    ASSUME NEW f, NEW g, NEW h, NEW k, NEW tests
    PROVE  Try(f, tests, g).err = Try(h, tests, k).err
  BY Zenon DEF Try, Done, Failed

\* So it does not depend on what is in the files.
LEMMA OpenErr ==
    ASSUME NEW f, NEW g, NEW l, NEW x, NEW y,
           WalkErr(f, l) = WalkErr(g, l), Exists(f, l) <=> Exists(g, l), IsDir(f, l) <=> IsDir(g, l)
    PROVE  /\ sys_open_excl(f, l, x).err = sys_open_excl(g, l, y).err
           /\ sys_open_creat(f, l, x).err = sys_open_creat(g, l, y).err
           /\ sys_open_read(f, l).err = sys_open_read(g, l).err
  <1>1. /\ When(Exists(f, l), "EEXIST") = When(Exists(g, l), "EEXIST")
        /\ When(~Exists(f, l), "ENOENT") = When(~Exists(g, l), "ENOENT")
        /\ When(IsDir(f, l), "EISDIR") = When(IsDir(g, l), "EISDIR")
    BY Zenon DEF When
  <1>2. sys_open_excl(f, l, x).err = sys_open_excl(g, l, y).err
    BY <1>1, TryErr DEF sys_open_excl
  <1>3. sys_open_creat(f, l, x).err = sys_open_creat(g, l, y).err
    BY <1>1, TryErr DEF sys_open_creat
  <1>4. sys_open_read(f, l).err = sys_open_read(g, l).err
    BY <1>1, TryErr DEF sys_open_read
  <1> QED BY <1>2, <1>3, <1>4, Zenon

-----------------------------------------------------------------------------
\* A walk succeeds if there are directories all the way.
LEMMA WalkOk ==
    ASSUME NEW f, NEW l
    PROVE  WalkErr(f, l) = "OK" <=> \A i \in 0..Len(l) - 1 : IsDir(f, SubSeq(l, 1, i))
  BY Zenon DEF WalkErr

\* The directories on the way to l are those that l is inside.
LEMMA OnTheWay ==
    ASSUME NEW S, NEW l \in Seq(S), NEW i \in 0..Len(l) - 1
    PROVE  Inside(SubSeq(l, 1, i), l)
  <1>1. Len(SubSeq(l, 1, i)) = i /\ Len(l) \in Nat /\ i < Len(l)
    OBVIOUS
  <1> QED BY <1>1, Zenon DEF Inside

\* Inside is transitive.
LEMMA InsideInside ==
    ASSUME NEW S, NEW a \in Seq(S), NEW b \in Seq(S), NEW c \in Seq(S), Inside(a, b), Inside(b, c)
    PROVE  Inside(a, c)
  <1>1. Len(a) \in Nat /\ Len(b) \in Nat /\ Len(c) \in Nat /\ Len(a) < Len(b) /\ Len(b) < Len(c)
    BY DEF Inside
  <1>2. \A i \in 1..Len(a) : a[i] = b[i] BY <1>1 DEF Inside
  <1>3. \A i \in 1..Len(b) : b[i] = c[i] BY <1>1 DEF Inside
  <1>4. SubSeq(c, 1, Len(a)) \in Seq(S) /\ Len(SubSeq(c, 1, Len(a))) = Len(a)
        /\ \A i \in 1..Len(a) : SubSeq(c, 1, Len(a))[i] = c[i]
    BY <1>1
  <1>5. ASSUME NEW i \in 1..Len(a) PROVE SubSeq(c, 1, Len(a))[i] = a[i]
    <2>1. i \in 1..Len(b) BY <1>1
    <2> QED BY <1>2, <1>3, <1>4, <2>1, Zenon
  <1>6. SubSeq(c, 1, Len(a)) = a BY <1>4, <1>5, SameSeq, Zenon
  <1> QED BY <1>1, <1>6 DEF Inside

\* The file at l is reachable in g as it is in f.
SameFile(f, g, l) == Reachable(g, l) /\ g[l] = f[l]

\* A file stays where it is if it and the directories on the way to it do.
LEMMA Kept ==
    ASSUME NEW f, NEW n \in Nat, WellFormed(f, n), NEW l, Reachable(f, l), NEW g,
           \A m \in DOMAIN f : m = l \/ (Inside(m, l) /\ IsDir(f, m)) => m \in DOMAIN g /\ g[m] = f[m]
    PROVE  SameFile(f, g, l)
  <1>1. l \in DOMAIN f /\ l \in Seq(Names) BY EntryFacts, Zenon DEF Reachable, IsFile, Exists
  <1>2. IsFile(g, l) /\ g[l] = f[l] BY <1>1, Zenon DEF Reachable, IsFile, Exists
  <1>3. ASSUME NEW i \in 0..Len(l) - 1 PROVE IsDir(g, SubSeq(l, 1, i))
    <2>1. PICK m : m = SubSeq(l, 1, i) BY Zenon
    <2>2. IsDir(f, m) BY <2>1, WalkOk, Zenon DEF Reachable
    <2>3. Inside(m, l) BY <1>1, <2>1, OnTheWay, Zenon
    <2>4. m \in DOMAIN g /\ g[m] = f[m] BY <2>2, <2>3, Zenon DEF IsDir, Exists
    <2> QED BY <2>1, <2>2, <2>4, Zenon DEF IsDir, Exists
  <1> QED BY <1>2, <1>3, WalkOk, Zenon DEF SameFile, Reachable

\* A new entry disturbs no file.
LEMMA KeptWith ==
    ASSUME NEW f, NEW n \in Nat, WellFormed(f, n), NEW l, Reachable(f, l), NEW m, ~Exists(f, m), NEW x
    PROVE  SameFile(f, With(f, m, x), l)
  <1>1. PICK g : g = With(f, m, x) BY Zenon
  <1>2. \A k \in DOMAIN f : k \in DOMAIN g /\ g[k] = f[k] BY <1>1, Zenon DEF With, Exists
  <1>3. SameFile(f, g, l) BY <1>2, Kept, Zenon
  <1> QED BY <1>1, <1>3, Zenon

\* mkdir and open disturb no file.
LEMMA NewKept ==
    ASSUME NEW f, NEW n \in Nat, WellFormed(f, n), NEW l, Reachable(f, l), NEW o, NEW x
    PROVE  /\ SameFile(f, sys_mkdir(f, o).tree, l)
           /\ SameFile(f, sys_open_excl(f, o, x).tree, l)
           /\ SameFile(f, sys_open_creat(f, o, x).tree, l)
  <1>1. SameFile(f, f, l) BY Zenon DEF SameFile
  <1>2. SameFile(f, sys_mkdir(f, o).tree, l)
    <2>1. PICK tests : tests = <<WalkErr(f, o), When(Exists(f, o), "EEXIST")>> BY Zenon
    <2>2. CASE \A i \in DOMAIN tests : tests[i] = "OK"
      <3>1. 2 \in DOMAIN tests /\ tests[2] = When(Exists(f, o), "EEXIST") BY <2>1
      <3>2. ~Exists(f, o) BY <2>2, <3>1, Zenon DEF When
      <3>3. sys_mkdir(f, o).tree = f \/ sys_mkdir(f, o).tree = With(f, o, Dir)
        BY <2>1, TryEither DEF sys_mkdir
      <3> QED BY <1>1, <3>2, <3>3, KeptWith, Zenon
    <2>3. CASE ~\A i \in DOMAIN tests : tests[i] = "OK"
      <3>1. sys_mkdir(f, o).tree = f BY <2>1, <2>3, TryEither DEF sys_mkdir
      <3> QED BY <1>1, <3>1, Zenon
    <2> QED BY <2>2, <2>3, Zenon
  <1>3. SameFile(f, sys_open_excl(f, o, x).tree, l) BY <1>1, OpenExclFacts, KeptWith
  <1>4. SameFile(f, sys_open_creat(f, o, x).tree, l) BY <1>1, OpenCreatFacts, KeptWith
  <1> QED BY <1>2, <1>3, <1>4, Zenon

\* Removing another file, or a directory in which nothing is, disturbs no file.
LEMMA KeptWithout ==
    ASSUME NEW f, NEW n \in Nat, WellFormed(f, n), NEW l, Reachable(f, l),
           NEW m, m # l, IsFile(f, m) \/ Below(f, m) = {}
    PROVE  SameFile(f, Without(f, m), l)
  <1>1. PICK g : g = Without(f, m) BY Zenon
  <1>2. l \in DOMAIN f BY Zenon DEF Reachable, IsFile, Exists
  <1>3. ASSUME NEW k \in DOMAIN f, k = l \/ (Inside(k, l) /\ IsDir(f, k))
        PROVE  k \in DOMAIN g /\ g[k] = f[k]
    <2>1. k # m
      <3>1. CASE k = l BY <3>1, Zenon
      <3>2. CASE Inside(k, l) /\ IsDir(f, k)
        <4>1. ~IsFile(f, k) BY <3>2, EntryFacts, Zenon
        <4>2. Below(f, k) # {} BY <1>2, <3>2, Zenon DEF Below
        <4> QED BY <4>1, <4>2, Zenon
      <3> QED BY <1>3, <3>1, <3>2, Zenon
    <2> QED BY <1>1, <2>1, Zenon DEF Without, Restrict
  <1>4. SameFile(f, g, l) BY <1>3, Kept, Zenon
  <1> QED BY <1>1, <1>4, Zenon

\* unlink of another path, and rmdir, disturb no file.
LEMMA RemoveKept ==
    ASSUME NEW f, NEW n \in Nat, WellFormed(f, n), NEW l, Reachable(f, l), NEW o
    PROVE  /\ o # l => SameFile(f, sys_unlink(f, o).tree, l)
           /\ SameFile(f, sys_rmdir(f, o).tree, l)
  <1>1. SameFile(f, f, l) BY Zenon DEF SameFile
  <1>2. ASSUME o # l PROVE SameFile(f, sys_unlink(f, o).tree, l)
    <2>1. PICK tests : tests = <<WalkErr(f, o), When(~Exists(f, o), "ENOENT"), When(IsDir(f, o), "EISDIR")>>
      BY Zenon
    <2>2. CASE \A i \in DOMAIN tests : tests[i] = "OK"
      <3>1. /\ 2 \in DOMAIN tests /\ tests[2] = When(~Exists(f, o), "ENOENT")
            /\ 3 \in DOMAIN tests /\ tests[3] = When(IsDir(f, o), "EISDIR")
        BY <2>1
      <3>2. When(~Exists(f, o), "ENOENT") = "OK" /\ When(IsDir(f, o), "EISDIR") = "OK"
        BY <2>2, <3>1, Zenon
      <3>3. Exists(f, o) /\ ~IsDir(f, o) BY <3>2, Zenon DEF When
      <3>4. IsFile(f, o) BY <3>3, EntryFacts, Zenon DEF Exists
      <3>5. sys_unlink(f, o).tree = f \/ sys_unlink(f, o).tree = Without(f, o)
        BY <2>1, TryEither DEF sys_unlink
      <3> QED BY <1>1, <1>2, <3>4, <3>5, KeptWithout, Zenon
    <2>3. CASE ~\A i \in DOMAIN tests : tests[i] = "OK"
      <3>1. sys_unlink(f, o).tree = f BY <2>1, <2>3, TryEither DEF sys_unlink
      <3> QED BY <1>1, <3>1, Zenon
    <2> QED BY <2>2, <2>3, Zenon
  <1>3. SameFile(f, sys_rmdir(f, o).tree, l)
    <2>1. PICK tests : tests = <<WalkErr(f, o), When(~Exists(f, o), "ENOENT"), When(IsFile(f, o), "ENOTDIR"),
                                 When(Below(f, o) # {}, "ENOTEMPTY")>>
      BY Zenon
    <2>2. CASE \A i \in DOMAIN tests : tests[i] = "OK"
      <3>1. /\ 3 \in DOMAIN tests /\ tests[3] = When(IsFile(f, o), "ENOTDIR")
            /\ 4 \in DOMAIN tests /\ tests[4] = When(Below(f, o) # {}, "ENOTEMPTY")
        BY <2>1
      <3>2. When(IsFile(f, o), "ENOTDIR") = "OK" /\ When(Below(f, o) # {}, "ENOTEMPTY") = "OK"
        BY <2>2, <3>1, Zenon
      <3>3. ~IsFile(f, o) /\ Below(f, o) = {} BY <3>2, Zenon DEF When
      <3>4. o # l BY <3>3, Zenon DEF Reachable
      <3>5. sys_rmdir(f, o).tree = f \/ sys_rmdir(f, o).tree = Without(f, o)
        BY <2>1, TryEither DEF sys_rmdir
      <3> QED BY <1>1, <3>3, <3>4, <3>5, KeptWithout, Zenon
    <2>3. CASE ~\A i \in DOMAIN tests : tests[i] = "OK"
      <3>1. sys_rmdir(f, o).tree = f BY <2>1, <2>3, TryEither DEF sys_rmdir
      <3> QED BY <1>1, <3>1, Zenon
    <2> QED BY <2>2, <2>3, Zenon
  <1> QED BY <1>2, <1>3, Zenon

\* A rename disturbs no file but those at and below its paths.
LEMMA RenameKept ==
    ASSUME NEW f, NEW k \in Nat, WellFormed(f, k), NEW l, Reachable(f, l),
           NEW o \in Seq(Names), NEW n \in Seq(Names), l # o, l # n, ~Inside(o, l)
    PROVE  SameFile(f, sys_rename(f, o, n).tree, l)
  <1>1. ASSUME o \in DOMAIN f, Below(f, n) = {} PROVE SameFile(f, Moved(f, o, n), l)
    <2>1. PICK g : g = Moved(f, o, n) BY Zenon
    <2>2. l \in DOMAIN f /\ l \in Seq(Names) /\ DOMAIN f \subseteq Seq(Names)
      BY Zenon DEF Reachable, IsFile, Exists, WellFormed
    <2>3. ~Inside(n, l) BY <1>1, <2>2, Zenon DEF Below
    <2>4. ASSUME NEW m \in DOMAIN f, m = l \/ Inside(m, l) PROVE m \in DOMAIN g /\ g[m] = f[m]
      <3>1. m \in Seq(Names) /\ m # o /\ m # n BY <2>2, <2>3, <2>4, Zenon
      <3>2. ~Inside(o, m) BY <2>2, <2>4, <3>1, InsideInside, Zenon
      <3>3. ~Inside(n, m) BY <2>2, <2>3, <2>4, <3>1, InsideInside, Zenon
      <3>4. m \in Stay(f, o, n) BY <3>1, <3>2, Zenon DEF Stay, Below
      <3>5. m \notin MovedTo(f, o, n) BY <1>1, <2>2, <3>1, <3>3, MovedPlaces, Zenon
      <3> QED BY <1>1, <2>1, <3>4, <3>5, MovedIs, Zenon
    <2>5. SameFile(f, g, l) BY <2>4, Kept, Zenon
    <2> QED BY <2>1, <2>5, Zenon
  <1>2. PICK tests :
          tests = <<WalkErr(f, o), WalkErr(f, n), When(~Exists(f, o), "ENOENT"),
                    When(Inside(o, n), "EINVAL"), When(Inside(n, o), "ENOTEMPTY"),
                    When(IsDir(f, o) /\ IsFile(f, n), "ENOTDIR"),
                    When(IsFile(f, o) /\ IsDir(f, n), "EISDIR"),
                    When(o # n /\ Below(f, n) # {}, "ENOTEMPTY")>>
    BY Zenon
  <1>3. PICK g : g = IF o = n THEN f ELSE Moved(f, o, n) BY Zenon
  <1>4. sys_rename(f, o, n) = Try(f, tests, g) BY <1>2, <1>3, Zenon DEF sys_rename
  <1>5. CASE sys_rename(f, o, n).tree = f BY <1>5, Zenon DEF SameFile
  <1>6. CASE sys_rename(f, o, n).tree # f
    <2>1. sys_rename(f, o, n).tree = g /\ \A i \in DOMAIN tests : tests[i] = "OK"
      BY <1>4, <1>6, TryEither
    <2>2. o # n /\ g = Moved(f, o, n) BY <1>3, <1>6, <2>1, Zenon
    <2>3. /\ 3 \in DOMAIN tests /\ tests[3] = When(~Exists(f, o), "ENOENT")
          /\ 8 \in DOMAIN tests /\ tests[8] = When(o # n /\ Below(f, n) # {}, "ENOTEMPTY")
      BY <1>2
    <2>4. When(~Exists(f, o), "ENOENT") = "OK" /\ When(o # n /\ Below(f, n) # {}, "ENOTEMPTY") = "OK"
      BY <2>1, <2>3, Zenon
    <2>5. Exists(f, o) /\ ~(o # n /\ Below(f, n) # {}) BY <2>4, Zenon DEF When
    <2>6. o \in DOMAIN f /\ Below(f, n) = {} BY <2>2, <2>5, Zenon DEF Exists
    <2> QED BY <1>1, <2>1, <2>2, <2>6, Zenon
  <1> QED BY <1>5, <1>6, Zenon

-----------------------------------------------------------------------------
\* What is written to one inode is seen in the one file that has it.
LEMMA ContentsSet ==
    ASSUME NEW f, NEW n \in Nat, WellFormed(f, n), NEW l, IsFile(f, l), NEW d, NEW e,
           \A j \in 1..n : j # f[l].body => e[j] = d[j]
    PROVE  ContentsOf(f, e) = With(ContentsOf(f, d), l, File(e[f[l].body]))
  <1>1. l \in DOMAIN f BY Zenon DEF IsFile, Exists
  <1>2. ~IsDir(f, l) BY <1>1, EntryFacts, Zenon
  <1>3. ASSUME NEW m \in DOMAIN f, m # l, ~IsDir(f, m) PROVE e[f[m].body] = d[f[m].body]
    <2>1. IsFile(f, m) /\ f[m].body \in 1..n BY <1>3, EntryFacts, Zenon
    <2>2. f[m].body # f[l].body BY <1>1, <1>3, <2>1, Zenon DEF WellFormed
    <2> QED BY <2>1, <2>2, Zenon
  <1>4. DOMAIN f \cup {l} = DOMAIN f BY <1>1, Zenon
  <1>5. PICK g : g = ContentsOf(f, d) BY Zenon
  <1>6. DOMAIN g = DOMAIN f BY <1>5, Zenon DEF ContentsOf
  <1>7. \A m \in DOMAIN f : g[m] = IF IsDir(f, m) THEN Dir ELSE File(d[f[m].body])
    BY <1>5, Zenon DEF ContentsOf
  <1>8. ASSUME NEW m \in DOMAIN f
        PROVE  (IF IsDir(f, m) THEN Dir ELSE File(e[f[m].body]))
                 = IF m = l THEN File(e[f[l].body]) ELSE g[m]
    BY <1>2, <1>3, <1>7, Zenon
  <1>9. ContentsOf(f, e) = [m \in DOMAIN f |-> IF m = l THEN File(e[f[l].body]) ELSE g[m]]
    BY <1>8, Zenon DEF ContentsOf
  <1> QED BY <1>4, <1>5, <1>6, <1>9, Zenon DEF With

\* The second of two files at one place replaces the first.
LEMMA WithTwice ==
    ASSUME NEW g, NEW l, NEW x, NEW y
    PROVE  With(With(g, l, x), l, y) = With(g, l, y)
  <1>1. DOMAIN With(g, l, x) \cup {l} = DOMAIN g \cup {l} BY Zenon DEF With
  <1>2. \A m \in DOMAIN g \cup {l} : m # l => With(g, l, x)[m] = g[m] BY Zenon DEF With
  <1> QED BY <1>1, <1>2, Zenon DEF With

\* A new file is not on the way to itself.
LEMMA WalkNew ==
    ASSUME NEW f, NEW l, ~Exists(f, l), WalkErr(f, l) = "OK", NEW x
    PROVE  WalkErr(With(f, l, x), l) = "OK"
  <1>1. \A i \in 0..Len(l) - 1 : IsDir(f, SubSeq(l, 1, i)) BY WalkOk, Zenon
  <1>2. ASSUME NEW i \in 0..Len(l) - 1 PROVE IsDir(With(f, l, x), SubSeq(l, 1, i))
    <2>1. PICK m : m = SubSeq(l, 1, i) BY Zenon
    <2>2. IsDir(f, m) /\ m # l BY <1>1, <2>1, Zenon DEF IsDir
    <2>3. IsDir(With(f, l, x), m) BY <2>2, Zenon DEF IsDir, Exists, With
    <2> QED BY <2>1, <2>3, Zenon
  <1> QED BY <1>2, WalkOk, Zenon

\* A sequence with x at its end.
Longer(s, x) == Append(s, x)

\* What is appended to a concatenation is appended to its second part.
LEMMA ConcatAppend ==
    ASSUME NEW S, NEW a \in Seq(S), NEW b \in Seq(S), NEW x \in S
    PROVE  Longer(a \o b, x) = a \o Longer(b, x)
  <1>1. PICK c \in Seq(S) : c = Append(b, x)
    <2>1. Append(b, x) \in Seq(S) OBVIOUS
    <2> QED BY <2>1, Zenon
  <1>2. PICK u \in Seq(S) : u = a \o b BY ConcatFacts, Zenon
  <1>3. /\ Len(u) = Len(a) + Len(b)
        /\ \A i \in 1..Len(a) : u[i] = a[i]
        /\ \A i \in 1..Len(a) + Len(b) : i > Len(a) => u[i] = b[i - Len(a)]
    BY <1>2, ConcatFacts
  <1>4. PICK v \in Seq(S) : v = a \o c BY ConcatFacts, Zenon
  <1>5. /\ Len(v) = Len(a) + Len(c)
        /\ \A i \in 1..Len(a) : v[i] = a[i]
        /\ \A i \in 1..Len(a) + Len(c) : i > Len(a) => v[i] = c[i - Len(a)]
    BY <1>4, ConcatFacts
  <1>6. PICK w \in Seq(S) : w = Append(u, x)
    <2>1. Append(u, x) \in Seq(S) OBVIOUS
    <2> QED BY <2>1, Zenon
  <1>7. Len(w) = Len(u) + 1 /\ w[Len(u) + 1] = x /\ \A i \in 1..Len(u) : w[i] = u[i] BY <1>6
  <1>8. Len(c) = Len(b) + 1 /\ c[Len(b) + 1] = x /\ \A i \in 1..Len(b) : c[i] = b[i] BY <1>1
  <1>9. Len(w) = Len(v) BY <1>3, <1>5, <1>7, <1>8
  <1>10. Len(a) \in Nat /\ Len(b) \in Nat OBVIOUS
  <1>11. ASSUME NEW i \in 1..Len(w) PROVE w[i] = v[i]
    <2>1. CASE i <= Len(a)
      <3>1. i \in 1..Len(a) /\ i \in 1..Len(u) BY <1>3, <1>10, <2>1
      <3> QED BY <1>3, <1>5, <1>7, <3>1, Zenon
    <2>2. CASE i > Len(a) /\ i <= Len(u)
      <3>1. w[i] = b[i - Len(a)] BY <1>3, <1>7, <1>10, <2>2
      <3>2. v[i] = c[i - Len(a)]
        <4>1. i \in 1..Len(a) + Len(c) /\ i > Len(a) BY <1>3, <1>8, <1>10, <2>2
        <4> QED BY <1>5, <4>1, Zenon
      <3>3. i - Len(a) \in 1..Len(b) BY <1>3, <1>10, <2>2
      <3> QED BY <1>8, <3>1, <3>2, <3>3, Zenon
    <2>3. CASE i = Len(u) + 1
      <3>1. v[i] = c[i - Len(a)]
        <4>1. i \in 1..Len(a) + Len(c) /\ i > Len(a) BY <1>3, <1>8, <1>10, <2>3
        <4> QED BY <1>5, <4>1, Zenon
      <3>2. i - Len(a) = Len(b) + 1 BY <1>3, <1>10, <2>3
      <3> QED BY <1>7, <1>8, <2>3, <3>1, <3>2, Zenon
    <2> QED BY <1>3, <1>7, <1>10, <2>1, <2>2, <2>3
  <1>12. w = v BY <1>9, <1>11, SameSeq, Zenon
  <1> QED BY <1>1, <1>2, <1>4, <1>6, <1>12, Zenon DEF Longer

\* A sequence and nothing before it.
LEMMA EmptyConcat ==
    ASSUME NEW S, NEW a \in Seq(S)
    PROVE  <<>> \o a = a
  <1>1. <<>> \in Seq(S) /\ Len(<<>>) = 0 OBVIOUS
  <1>2. PICK b : b = <<>> \o a BY Zenon
  <1>3. b \in Seq(S) /\ Len(b) = Len(a) /\ \A i \in 1..Len(a) : b[i] = a[i]
    BY <1>1, <1>2, ConcatFacts
  <1> QED BY <1>2, <1>3, SameSeq, Zenon

\* The beginning of a sequence.
LEMMA Beginning ==
    ASSUME NEW S, NEW a \in Seq(S), NEW b \in Seq(S), Len(b) <= Len(a),
           \A i \in 1..Len(b) : b[i] = a[i]
    PROVE  Len(b) \in 0..Len(a) /\ SubSeq(a, 1, Len(b)) = b
  OBVIOUS

\* A sequence and nothing after it.
LEMMA ConcatEmpty ==
    ASSUME NEW S, NEW a \in Seq(S)
    PROVE  a \o <<>> = a
  <1>1. <<>> \in Seq(S) /\ Len(<<>>) = 0 OBVIOUS
  <1>2. a \o <<>> \in Seq(S) /\ Len(a \o <<>>) = Len(a) /\ \A i \in 1..Len(a) : (a \o <<>>)[i] = a[i]
    BY <1>1, ConcatFacts
  <1> QED BY <1>2, SameSeq, Zenon

-----------------------------------------------------------------------------
\* The files right after an open with O_CREAT: f is the tree before it and g the one
\* after it; in inode i of g, the new or opened file, may be anything.
LEMMA OpenedContents ==
    ASSUME NEW f, NEW n \in Nat, WellFormed(f, n), NEW l, WalkErr(f, l) = "OK", ~IsDir(f, l),
           NEW g, g = IF Exists(f, l) THEN f ELSE With(f, l, File(n + 1)), NEW i, i = g[l].body,
           NEW d, NEW e, \A j \in 1..n : j # i => e[j] = d[j]
    PROVE  /\ Reachable(g, l) /\ ContentsOf(g, e) = With(ContentsOf(f, d), l, File(e[i]))
           /\ Exists(f, l) => ContentsOf(f, d)[l] = File(d[i])
  <1>1. CASE Exists(f, l)
    <2>1. g = f /\ l \in DOMAIN f BY <1>1, Zenon DEF Exists
    <2>2. IsFile(f, l) BY <2>1, EntryFacts, Zenon
    <2>3. \A j \in 1..n : j # f[l].body => e[j] = d[j] BY <2>1, Zenon
    <2>4. ContentsOf(f, e) = With(ContentsOf(f, d), l, File(e[f[l].body]))
      BY <2>2, <2>3, ContentsSet
    <2>5. ContentsOf(f, d)[l] = File(d[f[l].body]) BY <2>1, <2>2, ContentsShape, Zenon
    <2> QED BY <2>1, <2>2, <2>4, <2>5, Zenon DEF Reachable
  <1>2. CASE ~Exists(f, l)
    <2>1. g = With(f, l, File(n + 1)) BY <1>2, Zenon
    <2>2. IsFile(g, l) /\ i = n + 1 BY <2>1 DEF IsFile, Exists, With, File
    <2>3. \A j \in 1..n : e[j] = d[j] BY <2>2
    <2>4. ContentsOf(With(f, l, File(i)), e) = With(ContentsOf(f, d), l, File(e[i]))
      BY <1>2, <2>3, ContentsWithFile
    <2>5. WalkErr(g, l) = "OK" BY <1>2, <2>1, WalkNew, Zenon
    <2> QED BY <1>2, <2>1, <2>2, <2>4, <2>5, Zenon DEF Reachable
  <1> QED BY <1>1, <1>2, Zenon

\* A file that was the last to be put at its place.
LEMMA FileHas ==
    ASSUME NEW f, NEW n \in Nat, WellFormed(f, n), NEW l, IsFile(f, l),
           NEW d, NEW b, NEW y, ContentsOf(f, d) = With(b, l, File(y))
    PROVE  d[f[l].body] = y
  <1>1. l \in DOMAIN f BY Zenon DEF IsFile, Exists
  <1>2. ContentsOf(f, d)[l] = File(d[f[l].body]) BY <1>1, ContentsShape, Zenon
  <1>3. With(b, l, File(y))[l] = File(y) BY Zenon DEF With
  <1>4. File(d[f[l].body]) = File(y) BY <1>2, <1>3, Zenon
  <1> QED BY <1>4, Zenon DEF File

\* Whether a file can be created does not depend on what the files hold.
LEMMA CreatedSeen ==
    ASSUME NEW f, NEW n \in Nat, WellFormed(f, n), NEW l, NEW i, NEW d, NEW x
    PROVE  sys_open_excl(ContentsOf(f, d), l, x).err = sys_open_excl(f, l, i).err
  <1>1. PICK g : g = ContentsOf(f, d) BY Zenon
  <1>2. DOMAIN f = DOMAIN g /\ \A m \in DOMAIN f : f[m].kind = g[m].kind
    BY <1>1, ContentsShape, Zenon
  <1>3. /\ WalkErr(f, l) = WalkErr(g, l) /\ (Exists(f, l) <=> Exists(g, l))
        /\ (IsDir(f, l) <=> IsDir(g, l))
    BY <1>2, ShapeFacts, Zenon
  <1> QED BY <1>1, <1>3, OpenErr

\* A file that is created under the next inode leaves the tree well formed.
LEMMA CreatedFormed ==
    ASSUME NEW f, NEW n \in Nat, WellFormed(f, n), NEW l \in Seq(Names),
           sys_open_excl(f, l, n + 1).err = "OK"
    PROVE  WellFormed(sys_open_excl(f, l, n + 1).tree, n + 1)
  BY OpenExclFacts, WithFormed

\* The data after opening inode i of a file for writing.
OpenData(d, i, type) ==
    CASE i = Len(d) + 1 -> Append(d, <<>>)
      [] i # Len(d) + 1 /\ type = "WRITE_FILE" -> [d EXCEPT ![i] = <<>>]
      [] OTHER -> d

\* A new inode is empty, as is a truncated one, and no other inode changes.
LEMMA OpenDataFacts ==
    ASSUME NEW S, NEW d \in Seq(Seq(S)), NEW i \in 1..Len(d) + 1, NEW type
    PROVE  /\ OpenData(d, i, type) \in Seq(Seq(S))
           /\ Len(OpenData(d, i, type)) = IF i = Len(d) + 1 THEN i ELSE Len(d)
           /\ \A j \in 1..Len(d) : j # i => OpenData(d, i, type)[j] = d[j]
           /\ i = Len(d) + 1 \/ type = "WRITE_FILE" => OpenData(d, i, type)[i] = <<>>
           /\ i # Len(d) + 1 /\ type # "WRITE_FILE" => OpenData(d, i, type) = d
  <1>1. <<>> \in Seq(S) OBVIOUS
  <1>2. CASE i = Len(d) + 1
    <2>1. OpenData(d, i, type) = Append(d, <<>>) BY <1>2, Zenon DEF OpenData
    <2>2. /\ Append(d, <<>>) \in Seq(Seq(S)) /\ Len(Append(d, <<>>)) = Len(d) + 1
          /\ Append(d, <<>>)[Len(d) + 1] = <<>>
          /\ \A j \in 1..Len(d) : Append(d, <<>>)[j] = d[j]
      BY <1>1
    <2> QED BY <1>2, <2>1, <2>2, Zenon
  <1>3. CASE i # Len(d) + 1 /\ type = "WRITE_FILE"
    <2>1. OpenData(d, i, type) = [d EXCEPT ![i] = <<>>] BY <1>3, Zenon DEF OpenData
    <2>2. i \in 1..Len(d) BY <1>3
    <2>3. /\ [d EXCEPT ![i] = <<>>] \in Seq(Seq(S)) /\ Len([d EXCEPT ![i] = <<>>]) = Len(d)
          /\ [d EXCEPT ![i] = <<>>][i] = <<>>
          /\ \A j \in 1..Len(d) : j # i => [d EXCEPT ![i] = <<>>][j] = d[j]
      BY <1>1, <2>2
    <2> QED BY <1>3, <2>1, <2>3, Zenon
  <1>4. CASE i # Len(d) + 1 /\ type # "WRITE_FILE" BY <1>4, Zenon DEF OpenData
  <1> QED BY <1>2, <1>3, <1>4, Zenon

\* Opening a file for writing: the inode that is opened.
LEMMA OpenedInode ==
    ASSUME NEW f, NEW n \in Nat, WellFormed(f, n), NEW l \in Seq(Names),
           WalkErr(f, l) = "OK", ~IsDir(f, l), NEW g, g = sys_open_creat(f, l, n + 1).tree
    PROVE  /\ IsFile(g, l)
           /\ Exists(f, l) => g = f /\ g[l].body \in 1..n
           /\ ~Exists(f, l) => g[l].body = n + 1 /\ WellFormed(g, n + 1)
  <1>1. g = IF Exists(f, l) THEN f ELSE With(f, l, File(n + 1)) BY OpenCreatFacts, Zenon
  <1>2. CASE Exists(f, l)
    <2>1. g = f /\ l \in DOMAIN f BY <1>1, <1>2, Zenon DEF Exists
    <2> QED BY <1>2, <2>1, EntryFacts, Zenon
  <1>3. CASE ~Exists(f, l)
    <2>1. g = With(f, l, File(n + 1)) BY <1>1, <1>3, Zenon
    <2>2. g[l].body = n + 1 /\ IsFile(g, l) BY <2>1 DEF With, File, IsFile, Exists
    <2> QED BY <1>3, <2>1, <2>2, WithFormed, Zenon
  <1> QED BY <1>2, <1>3, Zenon

-----------------------------------------------------------------------------
\* The tree once a file holds x, when it can be opened for writing, and when it cannot.
LEMMA StoredFacts ==
    ASSUME NEW f, NEW p, NEW l, l = Location(p), NEW x
    PROVE  /\ WalkErr(f, l) = "OK" /\ ~IsDir(f, l) =>
                 Stored(f, p, x) = [err |-> "Ok", tree |-> With(f, l, File(x))]
           /\ sys_open_creat(f, l, <<>>).err # "OK" =>
                 Stored(f, p, x) = [err |-> from_errno(sys_open_creat(f, l, <<>>).err), tree |-> f]
  <1>1. PICK call : call = sys_open_creat(f, l, <<>>) BY Zenon
  <1>2. ASSUME WalkErr(f, l) = "OK", ~IsDir(f, l)
        PROVE  Stored(f, p, x) = [err |-> "Ok", tree |-> With(f, l, File(x))]
    <2>1. call.err = "OK" /\ call.tree = IF Exists(f, l) THEN f ELSE With(f, l, File(<<>>))
      BY <1>1, <1>2, OpenCreatFacts, Zenon
    <2>2. [call.tree EXCEPT ![l] = File(x)] = With(f, l, File(x))
      <3>1. CASE Exists(f, l)
        <4>1. call.tree = f /\ DOMAIN f \cup {l} = DOMAIN f BY <2>1, <3>1, Zenon DEF Exists
        <4>2. [f EXCEPT ![l] = File(x)] = [k \in DOMAIN f |-> IF k = l THEN File(x) ELSE f[k]]
          BY Zenon
        <4> QED BY <4>1, <4>2, Zenon DEF With
      <3>2. CASE ~Exists(f, l)
        <4>1. PICK g : g = With(f, l, File(<<>>)) BY Zenon
        <4>2. DOMAIN g = DOMAIN f \cup {l} /\ \A k \in DOMAIN g : k # l => g[k] = f[k]
          BY <4>1, Zenon DEF With
        <4>3. [g EXCEPT ![l] = File(x)] = [k \in DOMAIN g |-> IF k = l THEN File(x) ELSE g[k]]
          BY Zenon
        <4> QED BY <2>1, <3>2, <4>1, <4>2, <4>3, Zenon DEF With
      <3> QED BY <3>1, <3>2, Zenon
    <2>3. Stored(f, p, x) = Outcome(Done(With(f, l, File(x))), {})
      BY <1>1, <2>1, <2>2, Zenon DEF Stored
    <2> QED BY <2>3 DEF Outcome, Done, from_errno
  <1>3. ASSUME call.err # "OK" PROVE Stored(f, p, x) = [err |-> from_errno(call.err), tree |-> f]
    <2>1. call.tree = f BY <1>1, <1>3, OpenCreatFacts, Zenon
    <2>2. Stored(f, p, x) = Outcome(call, {}) BY <1>1, <1>3, Zenon DEF Stored
    <2> QED BY <2>1, <2>2, Zenon DEF Outcome
  <1> QED BY <1>1, <1>2, <1>3, Zenon

\* What read_file returns.
LEMMA ReadFileFacts ==
    ASSUME NEW f, NEW p, Valid(p), NEW l, l = Location(p)
    PROVE  /\ sys_open_read(f, l).err # "OK" =>
                 read_file(f, p) = [err |-> from_errno(sys_open_read(f, l).err), data |-> <<>>]
           /\ \A x : sys_open_read(f, l).err = "OK" /\ f[l] = File(x) /\ ~(Len(x) > MaxFileSize) =>
                 read_file(f, p) = [err |-> "Ok", data |-> x]
  <1>1. ASSUME NEW x, f[l] = File(x) PROVE f[l].body = x BY <1>1 DEF File
  <1> QED BY <1>1, Zenon DEF read_file
=============================================================================
