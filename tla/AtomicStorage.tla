--------------------------- MODULE AtomicStorage ----------------------------
(***************************************************************************)
(* What Storage promises its callers: every call takes effect, or reads,   *)
(* in one instant between its invocation and its return.  A disk fault may *)
(* make a call fail; a failed write or append may leave a part of its      *)
(* contents behind, and no other failed call leaves anything.  What an     *)
(* operation does in that instant is StorageOps' to say.                   *)
(***************************************************************************)
EXTENDS Integers, Sequences

CONSTANTS Readers, Applier,
          Commands,    \* the commands on_apply may pass to Storage
          ReadPaths,   \* the paths read_file may be called with
          EmptyTree, apply_command(_, _), read_file(_, _)    \* of StorageOps

VARIABLES files,  \* the tree of file contents
          call,   \* call[t]: the call t is in, or NoCall
          res     \* res[t]: its result, or NoResult

vars == <<files, call, res>>

Threads == Readers \cup {Applier}
NoCall == [type |-> "NONE"]
NoResult == [err |-> "NONE", data |-> <<>>]
Calls(t) == IF t = Applier THEN Commands ELSE [type : {"READ_FILE"}, path : ReadPaths]
Result(err) == [err |-> err, data |-> <<>>]
Pending(t) == call[t] # NoCall /\ res[t] = NoResult

Init ==
    /\ files = EmptyTree
    /\ call = [t \in Threads |-> NoCall]
    /\ res = [t \in Threads |-> NoResult]

Invoke(t) ==
    /\ call[t] = NoCall
    /\ \E c \in Calls(t) : call' = [call EXCEPT ![t] = c]
    /\ UNCHANGED <<files, res>>

Answer(t, r) == Pending(t) /\ res' = [res EXCEPT ![t] = r] /\ UNCHANGED call

Perform ==
    LET after == apply_command(files, call[Applier])
    IN  Answer(Applier, Result(after.err)) /\ files' = after.tree

ReadFile(r) == Answer(r, read_file(files, call[r].path)) /\ UNCHANGED files

\* The file a failed write leaves: whatever part of the contents got written.
Fail(t) ==
    /\ Answer(t, Result("IoError"))
    /\ \/ UNCHANGED files
       \/ /\ call[t].type \in {"WRITE_FILE", "APPEND_FILE"}
          /\ \E written \in 0..Len(call[t].contents) :
                files' = apply_command(files, [call[t] EXCEPT !.contents = SubSeq(@, 1, written)]).tree

Return(t) ==
    /\ res[t] # NoResult
    /\ call' = [call EXCEPT ![t] = NoCall]
    /\ res' = [res EXCEPT ![t] = NoResult]
    /\ UNCHANGED files

Next ==
    \/ Perform
    \/ \E r \in Readers : ReadFile(r)
    \/ \E t \in Threads : Invoke(t) \/ Fail(t) \/ Return(t)

Spec == Init /\ [][Next]_vars
=============================================================================
