----------------------------- MODULE InodeTree ------------------------------
(***************************************************************************)
(* Directory trees whose files are inodes, and the trees of contents that  *)
(* StorageOps is about.                                                    *)
(***************************************************************************)
EXTENDS StorageOps

\* What a directory entry can be called.
Names == STRING

\* d[i] is what is in inode i.
ContentsOf(tr, d) == [l \in DOMAIN tr |-> IF IsDir(tr, l) THEN Dir ELSE File(d[tr[l].body])]

\* Directory entries name inodes that exist, the first n, each inode by one entry.
WellFormed(f, n) ==
    /\ DOMAIN f \subseteq Seq(Names)
    /\ f \in [DOMAIN f -> {Dir} \cup {File(i) : i \in 1..n}]
    /\ \A l, m \in DOMAIN f : IsFile(f, l) /\ IsFile(f, m) /\ f[l].body = f[m].body => l = m

\* The walk to l ends at a file.
Reachable(f, l) == IsFile(f, l) /\ WalkErr(f, l) = "OK"
=============================================================================
