SPECIFICATION Spec
CONSTANTS
    None = None
    Worker = {w1, w2}
    Url <- MCUrl
    DefaultPort <- MCDefaultPort
    Delay <- MCDelay
    Answers <- MCFlakyAnswers
    MaxCalls = 2
PROPERTY RulesAreKept
CHECK_DEADLOCK FALSE
