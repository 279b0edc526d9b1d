CONSTANTS
    path1 = path1
    NoPath = NoPath
    BadPath = BadPath
    NoFields <- MCNoFields
    Byte <- MCByteSmall
    Path <- MCPath
    Fields <- MCFields
    ParseTx <- MCParseTx
    SwapMatches <- MCSwapMatches
    PrefixLen = 1
    SuffixLen = 1
    MaxRawTx = 2
    MaxLc = 1
SPECIFICATION Spec
PROPERTIES
    CancelledByUserIs6982
