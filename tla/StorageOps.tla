----------------------------- MODULE StorageOps -----------------------------
(***************************************************************************)
(* What each operation of Storage (src/src/storage.cc) does when nothing   *)
(* runs beside it and the disk does not fail: a function from the tree of  *)
(* file contents to the tree after it and the result it returns.  Contents *)
(* are sequences of chunks.  apply_command is StateMachine's dispatch of a *)
(* committed command to these operations.                                  *)
(***************************************************************************)
EXTENDS FileSystem, Paths

CONSTANTS MaxPathLength,  \* the 4096 characters of validate_path
          MaxFileSize     \* MAX_FILE_SIZE, in chunks

from_errno(err) ==
    CASE err = "OK" -> "Ok"
      [] err = "ENOENT" -> "FileNotFound"
      [] err = "EEXIST" -> "AlreadyExists"
      [] err = "ENOTDIR" -> "NotDirectory"
      [] OTHER -> "IoError"

EmptyTree == [l \in {<<>>} |-> Dir]

\* An operation that returns success for the outcomes it tolerates.
Outcome(call, tolerated) ==
    [err |-> IF call.err \in tolerated THEN "Ok" ELSE from_errno(call.err), tree |-> call.tree]
Valid(path) == validate_path(path, MaxPathLength)
Rejected(tree) == [err |-> "InvalidPath", tree |-> tree]

create_file(tree, path) ==
    IF ~Valid(path) THEN Rejected(tree)
    ELSE Outcome(sys_open_excl(tree, Location(path), <<>>), {"EEXIST"})

create_directory(tree, path) ==
    IF ~Valid(path) THEN Rejected(tree)
    ELSE Outcome(sys_mkdir(tree, Location(path)), {"EEXIST"})

\* The tree once the file at path holds contents, whether it existed or not.
Stored(tree, path, contents) ==
    LET call == sys_open_creat(tree, Location(path), <<>>)
    IN  IF call.err # "OK" THEN Outcome(call, {})
        ELSE Outcome(Done([call.tree EXCEPT ![Location(path)] = File(contents)]), {})

\* The contents an append finds: none if there is no such file.
Found(tree, path) == IF IsFile(tree, Location(path)) THEN tree[Location(path)].body ELSE <<>>

write_file(tree, path, contents) ==
    IF ~Valid(path) THEN Rejected(tree) ELSE Stored(tree, path, contents)

append_file(tree, path, contents) ==
    IF ~Valid(path) THEN Rejected(tree)
    ELSE Stored(tree, path, Found(tree, path) \o contents)

\* For two paths that are not the same string; see Returns.
rename(tree, path, new_path) ==
    IF ~Valid(path) \/ ~Valid(new_path) THEN Rejected(tree)
    ELSE Outcome(sys_rename(tree, Location(path), Location(new_path)), {})

delete_file(tree, path) ==
    IF ~Valid(path) THEN Rejected(tree)
    ELSE Outcome(sys_unlink(tree, Location(path)), {"ENOENT"})

delete_directory(tree, path) ==
    IF ~Valid(path) THEN Rejected(tree)
    ELSE Outcome(sys_rmdir(tree, Location(path)), {"ENOENT"})

\* read_file returns the contents, or an error and no contents.
read_file(tree, path) ==
    LET call == sys_open_read(tree, Location(path))
        body == tree[Location(path)].body
    IN  CASE ~Valid(path) -> [err |-> "InvalidPath", data |-> <<>>]
          [] Valid(path) /\ call.err # "OK" -> [err |-> from_errno(call.err), data |-> <<>>]
          [] OTHER -> IF Len(body) > MaxFileSize
                      THEN [err |-> "IoError", data |-> <<>>]
                      ELSE [err |-> "Ok", data |-> body]

\* rename takes a WriteLock for each of its paths: if they are the same string it waits for
\* itself, and apply_command does not return.
Returns(c) == ~(c.type = "RENAME" /\ c.path = c.new_path /\ Valid(c.path))

apply_command(tree, c) ==
    CASE c.type = "CREATE_FILE" -> create_file(tree, c.path)
      [] c.type = "CREATE_DIR" -> create_directory(tree, c.path)
      [] c.type = "WRITE_FILE" -> write_file(tree, c.path, c.contents)
      [] c.type = "APPEND_FILE" -> append_file(tree, c.path, c.contents)
      [] c.type = "RENAME" -> rename(tree, c.path, c.new_path)
      [] c.type = "DELETE_FILE" -> delete_file(tree, c.path)
      [] c.type = "DELETE_DIR" -> delete_directory(tree, c.path)
      [] c.type \in {"READ_FILE", "LIST_DIR"} -> [err |-> "Ok", tree |-> tree]
      [] OTHER -> [err |-> "UnknownCommand", tree |-> tree]
=============================================================================
