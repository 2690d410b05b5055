\* Every node state of IndexerChains:
\* a one-transaction block with up to two outputs and two inputs, and a
\* two-transaction block with one output and one input each.
CONSTANTS
    Addr = {W, A}
    Watched = W
    TxIds = {t1, t2}
    t1 = t1
    t2 = t2
    NullHash = NullHash
    Values = {v1, v2}
    NonStandard = NonStandard
    NoAddress = NoAddress
    NoBlock = NoBlock
    Nil = Nil
    MaxOuts1 = 2
    MaxIns1 = 2
    MaxOuts2 = 1
    MaxIns2 = 1
    MaxIndex = 1
    Forks = {}
    MaxReorgs = 0
    Chains <- AllChains

SPECIFICATION Spec

\* A call returns (or panics) and the model stops there.
CHECK_DEADLOCK FALSE

INVARIANT TypeOK

PROPERTY IndexerImplementsSpec
