SPECIFICATION AnswerSpec
CONSTANTS
    KeyMax = 4
    ValueMax = 3
    MaxHeaders = 2
    BufferSize = 38
    FrameSize = 11
    TagsSize = 9
    Requests <- MCRequests
    Leftovers <- MCLeftovers
INVARIANTS
    AnswerTypeOK
    PageShowsRequest
    FaultsOnlyOnIrregular
    ReadsBack
CHECK_DEADLOCK FALSE
PROPERTY Answered
