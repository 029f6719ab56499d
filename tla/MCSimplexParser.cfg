SPECIFICATION Spec
CONSTANTS
    Letters = {"a", "b"}
    BUFFER_SIZE = 23
    SIMPLEX_NAME_MAX_LEN = 2
    MAXMSGS = 3
    JSON_NPACKET = 2
    Leftovers = {"a", " "}
    Messages <- MCMessages
INVARIANTS
    InBlocks
    RecordsFaithful
