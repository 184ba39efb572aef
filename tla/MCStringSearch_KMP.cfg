CONSTANTS
    Alphabet <- MCAlphabet
    MaxText = 6
    MaxPattern = 4
    MinPattern = 1
    Base = 256
    Prime = 101
SPECIFICATION Spec
INVARIANT OptimizedMatchesHighAllocation
