SPECIFICATION Spec
CONSTANTS
    WordBits = 2
    Indices <- MCIndices
INVARIANT TypeOK
PROPERTY ImplementsIndexSet
