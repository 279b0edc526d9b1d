CONSTANTS
    path1 = path1
    NoPath = NoPath
    BadPath = BadPath
    NoFields <- MCNoFields
    Byte <- MCByte
    Path <- MCPath
    Fields <- MCFields
    ParseTx <- MCParseTx
    SwapMatches <- MCSwapMatches
    PrefixLen = 1
    SuffixLen = 1
    MaxRawTx = 3
    MaxLc = 1
SPECIFICATION Spec
INVARIANTS
    TypeOK
    IInv
    PendingIsOnScreen
    ReviewNeverShowsAnother
    UploadIsWhole
    RawTxFits
    AddressShownIsReturned
    ReplyAnswersItsCommand
    SwitchShowsSetting
    PrefixMatchesSuffix
    SwapVerdict
PROPERTIES
    SignedIsApproved
    BlindSignNeedsConsent
    ConsentIsKept
