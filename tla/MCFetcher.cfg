SPECIFICATION Spec
CONSTANTS
    None = None
    Answers <- MCAnswers
    MaxRetries = 7
    MaxBody = 2
INVARIANTS RetriesAreSpentWell BodyIsWhole PauseIsExponential TemporaryIsRetried
