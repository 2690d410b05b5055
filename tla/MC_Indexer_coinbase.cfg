\* ConsensusBlocksIndexed over every node state of IndexerChains: TLC finds
\* a valid block whose coinbase pays the watched address.
CONSTANTS
    Addr = {W, A}
    Watched = W
    TxIds = {t1, t2}
    t1 = t1
    t2 = t2
    NullHash = NullHash
    Values = {v1, v2}
    NonStandard = NonStandard
    NoAddress = NoAddress
    NoBlock = NoBlock
    Nil = Nil
    MaxOuts1 = 2
    MaxIns1 = 2
    MaxOuts2 = 1
    MaxIns2 = 1
    MaxIndex = 1
    Forks = {}
    MaxReorgs = 0
    Chains <- AllChains

SPECIFICATION Spec

CHECK_DEADLOCK FALSE

INVARIANT ConsensusBlocksIndexed
