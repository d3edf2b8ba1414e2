----------------------------- MODULE MCStorage ------------------------------
(* Storage on small sets of commands, one per question.  "w" and "x" are    *)
(* chunks of contents.                                                      *)
EXTENDS StorageRefinement

CONSTANTS r1, r2

Cmd(type, path) == [type |-> type, path |-> path, new_path |-> <<>>, contents |-> <<>>]
Put(type, path, contents) == [Cmd(type, path) EXCEPT !.contents = contents]
Rename(path, new_path) == [Cmd("RENAME", path) EXCEPT !.new_path = new_path]

a == <<"a">>
b == <<"b">>
dotA == <<".", Slash>> \o a
up == <<"..">>

\* Every operation on two files, each named by one path string; no directory is renamed,
\* but a file may be, to the path that it has.
FileCommands ==
    {Put("WRITE_FILE", a, <<"w", "w">>), Put("APPEND_FILE", a, <<"x">>), Rename(a, b), Rename(a, a),
     Cmd("CREATE_FILE", b), Cmd("DELETE_FILE", a), Cmd("CREATE_DIR", b),
     Cmd("DELETE_DIR", b), Cmd("DELETE_FILE", up)}
FilePaths == {a, b}

\* These names keep the files apart, as Protected needs.
ASSUME Commands = FileCommands => PathsApart

\* The same file named by two path strings.
AliasCommands == {Put("WRITE_FILE", a, <<"w", "w">>), Put("WRITE_FILE", dotA, <<"x", "x">>)}
AliasPaths == {a}

\* A successful read returns the contents of one WRITE_FILE command, whole.  (For command
\* sets whose files are only ever written by WRITE_FILE.)
NoTornRead ==
    \A r \in Readers :
        frame[r].res.err = "Ok" =>
            frame[r].res.data \in {c.contents : c \in {k \in Commands : k.type = "WRITE_FILE"}}
=============================================================================
