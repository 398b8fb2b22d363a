SPECIFICATION TypingSpec
CONSTANTS
    Languages = {"c", "cpp"}
    MaxSigints = 2
    ForkMayFail = TRUE
INVARIANTS Conversation
PROPERTIES ZeroEndsBoth SigintsEndBoth
