\* two queries, a sample, and a channel that two replies fill
SPECIFICATION FairSpec
CONSTANTS
    Capacity = 1
    Answers <- AnyThenValue
    MaxGets = 2
    MaxSamples = 1
INVARIANTS
    TypeOK
    AnswerInOrder
    OnlyAdminLeaks
PROPERTIES
    GetReturns
    SamplesGetThrough
CHECK_DEADLOCK FALSE
