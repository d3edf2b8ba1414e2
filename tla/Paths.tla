------------------------------- MODULE Paths --------------------------------
(***************************************************************************)
(* The path functions of src/src/storage.cc.  A path is the sequence of    *)
(* its tokens: the separator Slash, and the maximal runs of other          *)
(* characters (".", "..", and names), which stand for themselves.          *)
(***************************************************************************)
EXTENDS Integers, Sequences, Functions

Slash == "/"

\* std::getline(iss, component, '/') without the empty components it yields.
Components(path) == SelectSeq(path, LAMBDA c : c # Slash)

\* The number of characters; names are one character long.
Length(path) == SumFunction([i \in DOMAIN path |-> IF path[i] = ".." THEN 2 ELSE 1])

\* Mutant: only the first component is looked at.
is_safe_path_first(path) ==
    ~(path # <<>> /\ Head(path) = Slash) /\ ~(path # <<>> /\ Head(path) = "..")

\* No leading slash and no ".." component.  (Names with a NUL byte are not modelled.)
is_safe_path(path) ==
    /\ ~(path # <<>> /\ Head(path) = Slash)
    /\ ".." \notin Range(Components(path))

\* Mutant: the first slash of a run is dropped with the others.
normalize_path_joins(path) == Components(path)

\* Drops leading and repeated slashes while copying, then the trailing one.
normalize_path(path) ==
    LET EndsInSlash(s) == s # <<>> /\ s[Len(s)] = Slash
        copied[i \in 0..Len(path)] ==
            CASE i = 0 -> <<>>
              [] i > 0 /\ path[i] = Slash /\ (copied[i - 1] = <<>> \/ EndsInSlash(copied[i - 1])) ->
                    copied[i - 1]
              [] OTHER -> Append(copied[i - 1], path[i])
        result == copied[Len(path)]
    IN  IF EndsInSlash(result) THEN SubSeq(result, 1, Len(result) - 1) ELSE result

\* What is appended to base_path_: nothing, or a slash and the cleaned path.
resolve_path(path) ==
    LET clean == normalize_path(path)
    IN  IF clean = <<>> THEN <<>> ELSE <<Slash>> \o clean

\* MaxPathLength stands for the 4096 characters of the code.
validate_path(path, MaxPathLength) == Length(path) <= MaxPathLength /\ is_safe_path(path)

-----------------------------------------------------------------------------
\* The kernel's walk from the base directory: "." stays, ".." goes up, a name goes down.
\* The result is the location below the base directory, or Outside once it has left it.
Outside == <<"..">>
Walk(path) ==
    LET names == Components(path)
        go(at, c) ==
            CASE at = Outside \/ c = "." -> at
              [] at # Outside /\ c = ".." -> IF at = <<>> THEN Outside
                                            ELSE SubSeq(at, 1, Len(at) - 1)
              [] OTHER -> Append(at, c)
        at[i \in 0..Len(names)] == IF i = 0 THEN <<>> ELSE go(at[i - 1], names[i])
    IN  at[Len(names)]

\* The location a validated path names: where the kernel gets from base_path_.
Location(path) == Walk(resolve_path(path))
=============================================================================
