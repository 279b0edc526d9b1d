CONSTANTS
    Transactions <- MCTransactions
    MaxFieldsPerPage = 3
    PairsOnPage = 3
    WordSize = 1024
    MaxDigits = 3
    Decimals = 2
    AmountBit = 256
    MantissaMin = 100
    MantissaMax = 999
    ExpMin <- MCExpMin
    ExpMax = 2
    NumberRoom = 8
    MaxFieldLen = 24
    CurrencySize = 5
    TickerStart = 2
    TickerChar = {"X", "R", "P"}
    Printable = {"X", "R", "P", "~"}
    Hex <- MCHex
    RateDecimals = 2
    PageWidth = 4
    Vector256Size = 32
    InBase = 256
    OutBase = 58
    Alphabet <- MCAlphabet
    Growth = 138
    AddressSize = 3
    Checksum <- MCChecksum
SPECIFICATION Spec
INVARIANTS
    TypeOK
    AmountReadsBack
    CurrencyReadsBack
    NumberReadsBack
    AddressReadsBack
    TextIsWholeOrMarked
CHECK_DEADLOCK FALSE
