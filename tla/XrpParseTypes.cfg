CONSTANTS
    Token <- MCToken
    Readable <- MCReadable
    MaxInput = 10
    Named <- MCNamed
    NativeAmounts <- MCNativeAmounts
    Supported <- MCSupported
    UnknownFlags <- MCUnknownFlags
    MaxFieldCount = 6
    MaxArrayLen = 2
    MaxPathCount = 2
    MaxStepCount = 2
    DepthModulus = 256
SPECIFICATION Spec
INVARIANT SecondTypeForcesBlind
CHECK_DEADLOCK FALSE
