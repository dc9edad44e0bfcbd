---------------------------- MODULE MCChainIndex ----------------------------
(* Model for ChainIndex: a connected chain of heights 0..11 with room for  *)
(* two more entries attached anywhere, so forks, reorgs back and forth,    *)
(* skip pointers across heights up to 13, and locators whose step grows to *)
(* 2 and 4 and is clamped at genesis (from height 12) all occur.           *)
EXTENDS ChainIndex

MCMaxBlocks == 14
MCInitChainLength == 12
=============================================================================
