----------------------------- MODULE FileSystem -----------------------------
(***************************************************************************)
(* The POSIX calls Storage makes, as functions of a directory tree: a      *)
(* partial function from locations (sequences of names below base_path_,   *)
(* <<>> being base_path_ itself) to nodes.  What a file's body is (an      *)
(* inode number, its contents) is left to the user of the module.  Each    *)
(* call returns [err |-> errno, tree |-> the tree after it].               *)
(***************************************************************************)
EXTENDS Integers, Sequences, FiniteSetsExt, Functions

Dir == [kind |-> "dir"]
File(body) == [kind |-> "file", body |-> body]

Exists(tree, l) == l \in DOMAIN tree
IsDir(tree, l) == Exists(tree, l) /\ tree[l].kind = "dir"
IsFile(tree, l) == Exists(tree, l) /\ tree[l].kind = "file"
\* m is somewhere inside the directory l.
Inside(l, m) == Len(l) < Len(m) /\ SubSeq(m, 1, Len(l)) = l
Below(tree, l) == {m \in DOMAIN tree : Inside(l, m)}

Failed(tree, err) == [err |-> err, tree |-> tree]
Done(tree) == [err |-> "OK", tree |-> tree]

\* How the walk to the directory that holds l ends: at the first ancestor that is
\* missing or is not a directory, if there is one.
WalkErr(tree, l) ==
    LET bad == {i \in 0..Len(l) - 1 : ~IsDir(tree, SubSeq(l, 1, i))}
    IN  CASE bad = {} -> "OK"
          [] bad # {} /\ Exists(tree, SubSeq(l, 1, Min(bad))) -> "ENOTDIR"
          [] OTHER -> "ENOENT"

\* The errno of a test that the kernel makes, and the outcome of a call that makes several,
\* in this order: the first that fails decides.
When(condition, err) == IF condition THEN err ELSE "OK"
Try(tree, tests, result) ==
    LET met == {i \in DOMAIN tests : tests[i] # "OK"}
    IN  IF met = {} THEN Done(result) ELSE Failed(tree, tests[Min(met)])

With(tree, l, node) == [m \in DOMAIN tree \cup {l} |-> IF m = l THEN node ELSE tree[m]]
Without(tree, l) == Restrict(tree, DOMAIN tree \ {l})

sys_mkdir(tree, l) ==
    Try(tree, <<WalkErr(tree, l), When(Exists(tree, l), "EEXIST")>>, With(tree, l, Dir))

\* open with O_CREAT | O_EXCL; body is the body of the file it makes.
sys_open_excl(tree, l, body) ==
    Try(tree, <<WalkErr(tree, l), When(Exists(tree, l), "EEXIST")>>, With(tree, l, File(body)))

\* open with O_CREAT for writing: a file that exists is opened as it is.
sys_open_creat(tree, l, body) ==
    Try(tree, <<WalkErr(tree, l), When(IsDir(tree, l), "EISDIR")>>,
        IF Exists(tree, l) THEN tree ELSE With(tree, l, File(body)))

\* open with O_RDONLY.  A directory can be opened, but then read() refuses it.
sys_open_read(tree, l) ==
    Try(tree, <<WalkErr(tree, l), When(~Exists(tree, l), "ENOENT"), When(IsDir(tree, l), "EISDIR")>>,
        tree)

sys_unlink(tree, l) ==
    Try(tree, <<WalkErr(tree, l), When(~Exists(tree, l), "ENOENT"), When(IsDir(tree, l), "EISDIR")>>,
        Without(tree, l))

sys_rmdir(tree, l) ==
    Try(tree,
        <<WalkErr(tree, l), When(~Exists(tree, l), "ENOENT"), When(IsFile(tree, l), "ENOTDIR"),
          When(Below(tree, l) # {}, "ENOTEMPTY")>>,
        Without(tree, l))

\* The tree with o and everything below it moved to n, replacing n.
Moved(tree, o, n) ==
    LET gone == {o, n} \cup Below(tree, o)
        moved == {n} \cup {n \o SubSeq(m, Len(o) + 1, Len(m)) : m \in Below(tree, o)}
    IN  [m \in moved \cup (DOMAIN tree \ gone) |->
            IF m \in moved THEN tree[o \o SubSeq(m, Len(n) + 1, Len(m))] ELSE tree[m]]

sys_rename(tree, o, n) ==
    Try(tree,
        <<WalkErr(tree, o), WalkErr(tree, n), When(~Exists(tree, o), "ENOENT"),
          When(Inside(o, n), "EINVAL"), When(Inside(n, o), "ENOTEMPTY"),
          When(IsDir(tree, o) /\ IsFile(tree, n), "ENOTDIR"),
          When(IsFile(tree, o) /\ IsDir(tree, n), "EISDIR"),
          When(o # n /\ Below(tree, n) # {}, "ENOTEMPTY")>>,
        IF o = n THEN tree ELSE Moved(tree, o, n))
=============================================================================
