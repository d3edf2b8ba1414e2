------------------------------ MODULE MCInputs ------------------------------
(* What the server is given from outside: all paths of up to MaxTokens       *)
(* tokens, grown one token at a time, and all configurations, grown one      *)
(* option at a time.                                                         *)
EXTENDS Paths, Config, SequencesExt

CONSTANTS Names, MaxTokens, MaxPathLength

\* Values of each option: sensible ones, and ones at the edge of what is allowed.
Values(o) ==
    IF o \in Strings THEN {"", "x"}
    ELSE IF o = "rpc_port" THEN {-1, 0, 1, PortModulus, PortModulus + 1}
    ELSE {-1, 0, 1}

VARIABLES
    path,
    config_path,  \* --config: a path, or ""
    readable,     \* whether there is a file there, and it is YAML
    file,         \* the options in it
    given         \* the options on the command line

inputs == <<path, config_path, readable, file, given>>

\* Two runs of other characters never touch: they would be one token.
Extend(c) ==
    /\ given = <<>> /\ file = <<>> /\ config_path = ""
    /\ Len(path) < MaxTokens
    /\ c # Slash /\ path # <<>> => Last(path) = Slash
    /\ path' = Append(path, c)
    /\ UNCHANGED <<config_path, readable, file, given>>

\* The file gets one more option; it may turn out not to be readable.
Write(o, v) ==
    /\ path = <<>> /\ given = <<>> /\ o \notin DOMAIN file
    /\ config_path' = "file" /\ readable' \in BOOLEAN
    /\ file' = (o :> v) @@ file
    /\ UNCHANGED <<path, given>>

Give(o, v) ==
    /\ path = <<>> /\ o \notin DOMAIN given
    /\ given' = (o :> v) @@ given
    /\ UNCHANGED <<path, config_path, readable, file>>

Init == path = <<>> /\ config_path = "" /\ readable = FALSE /\ file = <<>> /\ given = <<>>
Next ==
    \/ \E c \in Names \cup {Slash, ".", ".."} : Extend(c)
    \/ \E o \in Options : \E v \in Values(o) : Write(o, v) \/ Give(o, v)
Spec == Init /\ [][Next]_inputs

\* A path that passes validate_path is resolved to a place inside the base directory, at
\* every point of the kernel's walk and not only at its end.
ValidStaysInside ==
    validate_path(path, MaxPathLength) =>
        \A prefix \in Prefixes(resolve_path(path)) : Walk(prefix) # Outside

\* Cleaning a path loses nothing: the kernel reaches the same place with base_path_ and
\* the cleaned path as with base_path_, a slash and the path as it was given; what is
\* opened never has a doubled or trailing slash; and cleaning again changes nothing.
ResolveFaithful ==
    LET full == resolve_path(path) IN
    /\ Walk(full) = Walk(path)
    /\ Components(full) = Components(path)
    /\ full # <<>> => Last(full) # Slash
    /\ \A i \in 1..Len(full) - 1 : ~(full[i] = Slash /\ full[i + 1] = Slash)
    /\ \A i \in 1..Len(full) - 1 : ~(full[i] # Slash /\ full[i + 1] # Slash)
    /\ normalize_path(normalize_path(path)) = normalize_path(path)

Loaded == load_configuration(config_path, readable, file, Over(given, NoFlags))

\* Each option comes from the command line if it is set there to a value other than "", 0 or
\* below, else from the file, else from the defaults; the server starts with exactly these
\* values or, if one of them makes no sense or the file is broken, not at all.  So no flag
\* can set an option to 0 or "" over the file, as snapshot_interval 0 would; and nothing is
\* claimed of a port beyond 16 bits, which load_configuration takes for another one.
LoadedAsGiven ==
    ~WidePort(given) => Loaded = AskedFor(config_path, readable, file, Heard(given))

\* Whatever is given, the server never gets a configuration that it cannot run with:
\* StateMachine::init accepts what main() has accepted, and the port is one that can be
\* bound.  Flags that are out of range are ignored or narrowed, and checked after that.
LoadedIsUsable == Loaded.ok => Usable(Loaded.value)
=============================================================================
