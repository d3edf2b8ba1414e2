--------------------------- MODULE MCStateMachine ---------------------------
(* Clusters of two nodes and the requests each question needs.              *)
EXTENDS StateMachine, TLC

CONSTANTS n1, n2, r1, r2, r3

Cmd(type, path) == [type |-> type, path |-> path, new_path |-> <<>>, contents |-> <<>>]
Put(type, path, contents) == [Cmd(type, path) EXCEPT !.contents = contents]

a == <<"a">>
WriteW == Put("WRITE_FILE", a, <<"w", "w">>)
WriteX == Put("WRITE_FILE", a, <<"x">>)
AppendX == Put("APPEND_FILE", a, <<"x">>)

\* A write, and a command that gets the node which applies it stuck.
Hanging == r1 :> WriteX @@ r2 :> [Cmd("RENAME", a) EXCEPT !.new_path = a]
\* Commands that leave the same file whether they run once or again from any point on,
\* and one that is too large for the log.
Replayable == r1 :> WriteW @@ r2 :> Cmd("DELETE_FILE", a) @@ r3 :> Put("WRITE_FILE", a, <<"x", "x", "x">>)
Writes == r1 :> WriteW @@ r2 :> WriteX
Appends == r1 :> AppendX

\* Nodes are interchangeable; used where only safety is checked.
SymmetricNodes == Permutations(Nodes)
=============================================================================
