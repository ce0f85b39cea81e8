SPECIFICATION LlmSpec
CONSTANTS
    Requests = {r1}
    Databases <- MCReadOnlyRole
    Replies <- MCReplies
INVARIANTS
    KeysMarked
CHECK_DEADLOCK FALSE
