CONSTANTS
    type1 = type1
    account1 = account1
    account2 = account2
    amount1 = amount1
    amount2 = amount2
    Field <- MCField
    IsTransactionTypeField <- MCIsType
    IsNormalAccountField <- MCIsAccount
    MaxFieldCount = 5
SPECIFICATION LiveSpec
INVARIANTS
    TypeOK
    Ordered
    StablePermutation
PROPERTIES
    SortsAtOnce
    SortTakesFewRounds
CHECK_DEADLOCK FALSE
