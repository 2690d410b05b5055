\* Every network chaincfg registers, every kind of listenAddress string,
\* and one output of each script template.
CONSTANT Nil = Nil

SPECIFICATION Spec

\* NewBitcoinIndexer refused its address, or parseTx has seen every output.
CHECK_DEADLOCK FALSE

INVARIANT WatchedAddressDetectable
