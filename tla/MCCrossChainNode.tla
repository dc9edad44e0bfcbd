-------------------------- MODULE MCCrossChainNode --------------------------
(* Model for AssetChainNode: the hub chain and requests of MCCrossChain,   *)
(* and chain A's asset chain of MCCrossChain growing block by block from   *)
(* its genesis to height 8.                                                *)
EXTENDS AssetChainNode, MCCrossChain
=============================================================================
