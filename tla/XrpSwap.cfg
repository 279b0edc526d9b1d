CONSTANTS
    Token <- MCToken
    Readable <- MCReadable
    MaxInput = 12
    Named <- MCNamed
    NativeAmounts <- MCNativeAmounts
    Supported <- MCSupported
    UnknownFlags <- MCUnknownFlags
    MaxFieldCount = 10
    MaxArrayLen = 2
    MaxPathCount = 2
    MaxStepCount = 2
    DepthModulus = 256
    Agreements <- MCAgreements
    Word <- MCWord
    AddressText <- MCAddressText
    AmountBit = 64
    WordSize = 256
    Checks <- MCChecks
    KeyAddress <- MCKeyAddress
    MaxPath = 2
    MaxDigits = 2
    Decimals = 2
    AddressSize = 5
    TagSize = 3
SPECIFICATION SwapSpec
INVARIANTS
    SwapSignsTheAgreement
    SwapAcceptsTheAgreement
    ExchangeIsToldTheTruth
CHECK_DEADLOCK FALSE
