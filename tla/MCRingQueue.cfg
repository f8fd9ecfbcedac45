SPECIFICATION Spec
CONSTANTS
    Values = {v1, v2}
    Null = Null
    Garbage = Garbage
    DefaultSize = 2
    MaxCapacity = 4
    ResizeArgs <- MCResizeArgs
INVARIANTS TypeOK BackFollowsFront
PROPERTY ImplementsFifo
