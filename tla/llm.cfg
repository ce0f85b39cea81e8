SPECIFICATION LlmSpec
CONSTANTS
    Requests = {r1, r2}
    Databases <- MCDatabases
    Replies <- MCReplies
INVARIANTS
    LlmInv
    AnswerIsLastReply
    AttemptsMeasured
    PromptFaithful
CHECK_DEADLOCK FALSE
