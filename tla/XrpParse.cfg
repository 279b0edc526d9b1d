CONSTANTS
    Token <- MCToken
    Readable <- MCReadable
    MaxInput = 10
    Named <- MCNamed
    NativeAmounts <- MCNativeAmounts
    Supported <- MCSupported
    UnknownFlags <- MCUnknownFlags
    MaxFieldCount = 6
    MaxArrayLen = 2
    MaxPathCount = 2
    MaxStepCount = 2
    DepthModulus = 3
SPECIFICATION Spec
INVARIANTS
    TypeOK
    ReviewIsTheTransaction
    DepthIsExact
    TypeIsTrusted
    
    MultiSignDetected
    ClearMeansUnderstood
CHECK_DEADLOCK FALSE
