--------------------------- MODULE AssetchainProof ---------------------------
(***************************************************************************)
(* CrossChain::GetAssetchainProof of src/src/crosschain.cpp, run on an    *)
(* asset chain: the proof from a transaction to the MoM of the first      *)
(* notarisation of this chain at or above the transaction's height.        *)
(*                                                                         *)
(* An asset chain ac is a sequence of blocks: block h+1 is the block at   *)
(* height h, its transaction hashes (txs) and the notarisations the       *)
(* notarisation store holds for it (notas).  A notarisation here carries  *)
(* the notarised height, MoM, MoMDepth and its hub transaction (txHash).  *)
(* A block's hashMerkleRoot is the Merkle root of its transactions.       *)
(***************************************************************************)
EXTENDS CrossChain

CONSTANTS
    AssetChain,    \* the asset chain's blocks, genesis first, as they will be
    ThisSymbol,    \* chainName: the symbol of this asset chain
    Mempool        \* hashes of transactions known but not in a block

ASSUME \A h \in DOMAIN AssetChain : \A k \in DOMAIN AssetChain[h].notas :
           LET n == AssetChain[h].notas[k]
           IN 0 <= n.height - n.MoMDepth + 1 /\ n.height < h - 1

\* The asset chain's notarisation store, block by block.
AssetNotas(ac) == [h \in DOMAIN ac |-> ac[h].notas]

\* chainActive[h]->hashMerkleRoot on the asset chain.
MerkleRootAt(ac, h) == GetMerkleRoot(ac[h + 1].txs)

\* IsSameAssetChain (lines 346-348).
IsSameAssetChain(n) == n.symbol = ThisSymbol

\* Heights of the blocks holding a transaction (GetTransaction).
TxBlocks(ac, hash) == {h \in 0..Len(ac) - 1 : hash \in Range(ac[h + 1].txs)}

\* The isTarget lambda of lines 522-525.
IsTargetAt(ac, h) == {n \in NotarisationsIn(AssetNotas(ac)) : IsSameAssetChain(n) /\ n.height >= h}

\* Lines 532-547: the MoM's leaves are the Merkle roots of the blocks from
\* the notarised height down, MoMDepth of them; the block's leaf index is
\* its distance below the notarised height.
MoMLeaves(ac, nota) == [i \in 1..nota.MoMDepth |-> MerkleRootAt(ac, nota.height - (i - 1))]

\* Mutant: the block's index in the MoM is added, not shifted above the
\* transaction's index.
AssetProofTxPartNoShift(ac, hash, h, nota, nIndex, branch) ==
    LET txs      == ac[h + 1].txs
        nTxIndex == SelectInSeq(txs, LAMBDA t : t = hash) - 1
        txBranch == GetMerkleBranch(txs, nTxIndex)
        idx      == nIndex + nTxIndex
        full     == txBranch \o branch
    IN CASE CheckMerkleBranch(hash, txBranch, nTxIndex) # MerkleRootAt(ac, h)
                -> Fail("Failed merkle tx->block")
         [] CheckMerkleBranch(hash, full, idx) # nota.MoM
                -> Fail("Failed validating MoM")
         [] OTHER -> [ok |-> TRUE, first |-> nota.txHash,
                      second |-> [nIndex |-> idx, branch |-> full]]

\* Lines 550-587: the transaction's branch in its block, put beneath the
\* block's branch in the MoM, its index shifted above the transaction's,
\* and the whole checked against the MoM.
AssetProofTxPart(ac, hash, h, nota, nIndex, branch) ==
    LET txs      == ac[h + 1].txs
        nTxIndex == SelectInSeq(txs, LAMBDA t : t = hash) - 1
        txBranch == GetMerkleBranch(txs, nTxIndex)
        idx      == nIndex * 2 ^ Len(txBranch) + nTxIndex
        full     == txBranch \o branch
    IN CASE CheckMerkleBranch(hash, txBranch, nTxIndex) # MerkleRootAt(ac, h)
                -> Fail("Failed merkle tx->block")
         [] CheckMerkleBranch(hash, full, idx) # nota.MoM
                -> Fail("Failed validating MoM")
         [] OTHER -> [ok |-> TRUE, first |-> nota.txHash,
                      second |-> [nIndex |-> idx, branch |-> full]]

\* CrossChain::GetAssetchainProof (lines 501-587): the result is
\* [first: the notarisation's hub txid, second: [nIndex, branch]].
GetAssetchainProof(ac, hash) ==
    LET h      == CHOOSE g \in TxBlocks(ac, hash) : TRUE
        scan   == ScanNotarisationsIn(AssetNotas(ac), h, IsTargetAt(ac, h))
        nota   == scan.found
        nIndex == nota.height - h
        branch == GetMerkleBranch(MoMLeaves(ac, nota), nIndex)
    IN CASE TxBlocks(ac, hash) = {} /\ hash \notin Mempool -> Fail("cannot find transaction")
         [] TxBlocks(ac, hash) = {}                       -> Fail("tx still in mempool")
         [] scan.height = 0      -> Fail("backnotarisation not yet confirmed")
         [] CheckMerkleBranch(MerkleRootAt(ac, h), branch, nIndex) # nota.MoM
                                 -> Fail("Failed merkle block->MoM")
         [] OTHER -> AssetProofTxPart(ac, hash, h, nota, nIndex, branch)

\* The asset-chain proof, built on the whole of AssetChain, as
\* GetCrossChainProof takes it as an argument.
SourceProofOf(hash) ==
    LET r == GetAssetchainProof(AssetChain, hash)
    IN [txid |-> hash, nIndex |-> r.second.nIndex, branch |-> r.second.branch]
=============================================================================
