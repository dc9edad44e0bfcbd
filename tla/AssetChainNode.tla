---------------------------- MODULE AssetChainNode ----------------------------
(***************************************************************************)
(* An asset-chain node answering GetAssetchainProof while its chain grows, *)
(* beside the hub chain of CrossChain.  The asset chain's blocks and the   *)
(* notarisations confirmed in them are those of AssetChain; assetTip is    *)
(* the height of the asset chain's tip.  Asset blocks are never            *)
(* disconnected here: the proofs are about one history of the asset chain. *)
(***************************************************************************)
EXTENDS AssetchainProof, FiniteSetsExt

CONSTANT BackScan    \* the 100 blocks CheckMoMoM scans back from the receipt

ASSUME BackScan \in Nat /\ BackScan < ScanLimit

VARIABLE assetTip   \* chainActive.Height() on the asset chain

\* The asset chain's active chain.
AssetChainNow == SubSeq(AssetChain, 1, assetTip + 1)

(***************************************************************************)
(* CrossChain::CheckMoMoM (lines 357-386), run on this asset chain.  A    *)
(* back-notarisation is a notarisation of the asset chain's store; its     *)
(* txHash is the hub notarisation it is the receipt of.                   *)
(***************************************************************************)

\* The heights of the blocks holding a receipt of hub notarisation kh.
ReceiptHeights(ac, kh) ==
    {h \in 0..Len(ac) - 1 : \E k \in DOMAIN ac[h + 1].notas : ac[h + 1].notas[k].txHash = kh}

\* GetBackNotarisation then GetTxConfirmed: the notarisation store keeps
\* one receipt per hub notarisation, the last one written, so the height
\* is that of the highest block holding one; -1 when there is none.
BackNotarisationHeight(ac, kh) ==
    IF ReceiptHeights(ac, kh) = {} THEN -1 ELSE Max(ReceiptHeights(ac, kh))

\* Mutant: the scan starts NOTARISATION_SCAN_LIMIT_BLOCKS below the
\* receipt instead of 100.
CheckMoMoMBackByLimit(ac, kh, momom) ==
    LET hb == BackNotarisationHeight(ac, kh)
    IN /\ hb >= 0
       /\ ScanNotarisationsIn(AssetNotas(ac), hb - ScanLimit,
              {n \in NotarisationsIn(AssetNotas(ac)) : n.MoMoM = momom}).height # 0

\* The receipt's height is found, then the notarisations from BackScan
\* blocks below it are scanned forward for one carrying the MoMoM.
CheckMoMoM(ac, kh, momom) ==
    LET hb == BackNotarisationHeight(ac, kh)
    IN /\ hb >= 0
       /\ ScanNotarisationsIn(AssetNotas(ac), hb - BackScan,
              {n \in NotarisationsIn(AssetNotas(ac)) : n.MoMoM = momom}).height # 0

AssetInit == assetTip = 0

\* The next block of the asset chain is connected.
AssetConnect ==
    /\ assetTip < Len(AssetChain) - 1
    /\ assetTip' = assetTip + 1

\* The two chains grow (and the hub reorganises) independently.
SystemInit == Init /\ AssetInit

SystemNext ==
    \/ Next /\ UNCHANGED assetTip
    \/ AssetConnect /\ UNCHANGED chain

SystemSpec == SystemInit /\ [][SystemNext]_<<chain, assetTip>>

(***************************************************************************)
(* Properties                                                              *)
(***************************************************************************)

\* The asset-chain proof GetAssetchainProof answers for hash now.
ProofNow(hash) == GetAssetchainProof(AssetChainNow, hash)

\* All transaction hashes of the asset chain.
AssetTxs == UNION {Range(AssetChain[i].txs) : i \in DOMAIN AssetChain}

\* Once the block's Merkle root is shown to be a leaf of the MoM, the
\* proof of the transaction always validates: the transaction's branch,
\* put beneath the block's branch with the block's index shifted left by
\* the transaction branch's length, leads from the transaction to the MoM,
\* whatever the number of transactions in the block and the block's place
\* in the MoM; "Failed merkle tx->block" and "Failed validating MoM" never
\* fire, and a returned proof leads to the MoM of the notarisation it names.
AssetProofValidates ==
    \A hash \in AssetTxs :
        LET r == ProofNow(hash)
        IN /\ r # Fail("Failed merkle tx->block")
           /\ r # Fail("Failed validating MoM")
           /\ r.ok => \E n \in NotarisationsIn(AssetNotas(AssetChainNow)) :
                          /\ n.txHash = r.first
                          /\ CheckMerkleBranch(hash, r.second.branch, r.second.nIndex) = n.MoM

\* Every hub notarisation whose receipt is buried in the asset chain (a
\* block is on top of it) passes CheckMoMoM with its MoMoM: the window
\* starting BackScan blocks below the receipt reaches the receipt itself,
\* near genesis where that start is clamped to 1, and when the receipt
\* arrived twice and the store holds the later copy.  (A receipt in the
\* tip block is outside the window: the scan stops below the tip.)
BuriedReceiptAccepted ==
    \A n \in NotarisationsIn(AssetNotas(AssetChainNow)) :
        BackNotarisationHeight(AssetChainNow, n.txHash) < assetTip =>
            CheckMoMoM(AssetChainNow, n.txHash, n.MoMoM)

\* A proof, once GetAssetchainProof has returned one, stays the proof it
\* returns for that transaction while the asset chain grows: notarisations
\* confirmed later, even of the same heights, never change the notarisation
\* the forward scan from the transaction's block anchors on, so a proof
\* handed to the hub for an import remains the asset chain's answer.
ProofStable ==
    [][\A hash \in AssetTxs :
          ProofNow(hash).ok => GetAssetchainProof(AssetChainNow', hash) = ProofNow(hash)
      ]_<<chain, assetTip>>
=============================================================================
