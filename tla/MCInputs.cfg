\* Every path of up to six tokens; paths of up to five characters are accepted.  The port
\* has values below, at and above the modulus.
CONSTANTS
    Names = {"a", "b"}
    MaxTokens = 6
    MaxPathLength = 5
    Strings = {"base_path"}
    PortModulus = 4
SPECIFICATION Spec
INVARIANTS
    ValidStaysInside
    ResolveFaithful
    LoadedAsGiven
    LoadedIsUsable
CHECK_DEADLOCK FALSE
