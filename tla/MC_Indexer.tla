----------------------------- MODULE MC_Indexer -----------------------------
(***************************************************************************)
(* Model-checking instance of Indexer over the node states of              *)
(* IndexerChains.                                                          *)
(***************************************************************************)
EXTENDS Indexer, IndexerChains

=============================================================================
