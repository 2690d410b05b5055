\* IndexerImplementsSpec with one reorganisation at any point of the call,
\* to any block over the stored transactions.  Blocks of one transaction
\* with one output and one input, and of two such transactions.
CONSTANTS
    Addr = {W, A}
    Watched = W
    TxIds = {t1, t2}
    t1 = t1
    t2 = t2
    NullHash = NullHash
    Values = {v1, v2}
    NonStandard = NonStandard
    NoAddress = NoAddress
    NoBlock = NoBlock
    Nil = Nil
    MaxOuts1 = 1
    MaxIns1 = 1
    MaxOuts2 = 1
    MaxIns2 = 1
    MaxIndex = 1
    MaxReorgs = 1
    Forks <- ForkBlocks
    Chains <- AllChains

SPECIFICATION Spec

\* A call returns (or panics) and the model stops there.
CHECK_DEADLOCK FALSE


PROPERTY IndexerImplementsSpec
