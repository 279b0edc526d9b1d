CONSTANTS
    Fields <- MCFields
    MaxFieldLen = 128
    Decimal <- MCDecimal
SPECIFICATION Spec
INVARIANTS
    ClearFlagsAreRead
    BlindForAReason
    SetFlagsReadApart
CHECK_DEADLOCK FALSE
