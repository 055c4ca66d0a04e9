SPECIFICATION Spec
CONSTANTS
    None = None
    Worker = {w1, w2}
    Url <- MCUrl
    DefaultPort <- MCDefaultPort
    Delay <- MCDelay
    Answers <- MCAnswers
    MaxCalls = 2
INVARIANTS OneRequestEach RuledByOwnOrigin
PROPERTY CachedIsSettled
CHECK_DEADLOCK FALSE
