------------------------------- MODULE Config -------------------------------
(***************************************************************************)
(* The configuration of the server: ServerConfig and ConfigLoader          *)
(* (src/src/config.cc) and load_configuration (src/src/main.cc).  A        *)
(* configuration, the contents of a file and the flags are functions from  *)
(* options to values.                                                      *)
(***************************************************************************)
EXTENDS Integers

CONSTANTS
    Strings,      \* the options that are strings; all are treated alike
    PortModulus   \* 2^16: rpc_port is a uint16_t

Numbers == {"election_timeout_ms", "snapshot_interval_s", "rpc_port"}
Options == Strings \cup Numbers

ASSUME ConfigConstants ==
    /\ Strings \cap Numbers = {}
    /\ PortModulus \in Nat /\ PortModulus > 3   \* the default is a port

\* Result<T>.
Error == [ok |-> FALSE]
Ok(value) == [ok |-> TRUE, value |-> value]

\* The initializers of ServerConfig, and of the flags.
Default == [o \in Options |-> IF o \in Strings THEN "default" ELSE 3]
NoFlags == [o \in Options |-> IF o \in Strings THEN "" ELSE 0]
\* The options that are set, and the others as they were.
Over(set, config) == [o \in Options |-> IF o \in DOMAIN set THEN set[o] ELSE config[o]]

validate(config) ==
    /\ \A o \in Strings : config[o] # ""
    /\ config["election_timeout_ms"] > 0
    /\ config["snapshot_interval_s"] >= 0
    /\ config["rpc_port"] # 0

\* StateMachine::Options::validate, for the options the state machine gets.
StateMachineAccepts(config) ==
    (\A o \in Strings : config[o] # "") /\ config["election_timeout_ms"] > 0

\* A file that cannot be read or parsed, or has a port that is not a uint16_t, is an error;
\* an option that is not in it keeps its default.
parse_yaml(readable, file) ==
    IF ~readable \/ ("rpc_port" \in DOMAIN file /\ file["rpc_port"] \notin 0..PortModulus - 1)
    THEN Error
    ELSE Ok(Over(file, Default))

load_from_file(path, readable, file) ==
    IF path = "" THEN Ok(Default) ELSE parse_yaml(readable, file)

\* Mutant: the file wins over the flags.
apply_command_line_flags_first(config, flags) ==
    [o \in Options |->
        IF o \in Strings THEN IF flags[o] # "" /\ config[o] = Default[o] THEN flags[o] ELSE config[o]
        ELSE IF flags[o] <= 0 \/ config[o] # Default[o] THEN config[o]
        ELSE IF o = "rpc_port" THEN flags[o] % PortModulus ELSE flags[o]]

\* A string that is not empty and a number that is positive override; the port is narrowed
\* to 16 bits.
apply_command_line_flags(config, flags) ==
    [o \in Options |->
        IF o \in Strings THEN IF flags[o] # "" THEN flags[o] ELSE config[o]
        ELSE IF flags[o] <= 0 THEN config[o]
        ELSE IF o = "rpc_port" THEN flags[o] % PortModulus ELSE flags[o]]

\* Mutant: the configuration is validated before the flags are applied.
load_configuration_early(path, readable, file, flags) ==
    LET loaded == load_from_file(path, readable, file) IN
    IF loaded.ok /\ validate(loaded.value)
    THEN Ok(apply_command_line_flags(loaded.value, flags)) ELSE Error

load_configuration(path, readable, file, flags) ==
    LET loaded == load_from_file(path, readable, file) IN
    IF ~loaded.ok THEN Error
    ELSE LET config == apply_command_line_flags(loaded.value, flags) IN
         IF validate(config) THEN Ok(config) ELSE Error
-----------------------------------------------------------------------------
\* What is heard of the command line: gflags has no "not given", so that an option set to
\* the empty string, or to a number that is not positive, is as good as absent.
Heard(given) ==
    [o \in {p \in DOMAIN given : IF p \in Strings THEN given[p] # "" ELSE given[p] > 0} |-> given[o]]
\* A port that is none: it would be narrowed to 16 bits, and the server listen elsewhere.
WidePort(given) == "rpc_port" \in DOMAIN given /\ given["rpc_port"] >= PortModulus

\* What the operator asked for: each option comes from the command line if it is given
\* there, else from the file, else from the defaults; it is an error if the file is broken
\* or one of the values makes no sense.
AskedFor(path, readable, file, given) ==
    LET wanted == Over(given, Over(file, Default)) IN
    IF (path # "" /\ ~parse_yaml(readable, file).ok) \/ ~validate(wanted) THEN Error ELSE Ok(wanted)

\* The process can run with it: StateMachine::init accepts it, and the port can be bound.
Usable(config) ==
    /\ StateMachineAccepts(config)
    /\ config["rpc_port"] \in 1..PortModulus - 1
    /\ config["snapshot_interval_s"] >= 0
=============================================================================
