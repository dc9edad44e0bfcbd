------------------------ MODULE MCCrossChainReader -------------------------
(* Model for CrossChainReader: the chains and asset-chain proofs of        *)
(* MCCrossChain, one GetCrossChainProof call interleaved with any connects *)
(* and disconnects of hub blocks of heights 0..3.  Fewer block contents    *)
(* than MCCrossChain keep the interleavings in reach: an own notarisation  *)
(* carrying the source MoM, one of another ccId, and a block where the     *)
(* target notarises beside another chain, so the scans can succeed, run   *)
(* out, cap with an empty set and meet a disconnected block.               *)
EXTENDS CrossChainReader, MCCrossChain

MCReaderSymbols == {A, B}
MCReaderBlockContents ==
    { <<>>,
      <<N(A, 2, X1)>>,
      <<N(A, 2, X2), N(B, 2, U2)>> }
MCReaderOffsets == {0, 1}
=============================================================================
