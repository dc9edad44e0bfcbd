---------------------------- MODULE MCCrossChain ----------------------------
(* Model for CrossChain: two staked chains A and B and a hub-class chain K *)
(* notarising into a hub chain of heights 0..4.  The window is 3 blocks    *)
(* and the scan stops at the 2nd own notarisation, so windows running out, *)
(* the cap being reached, notarisations of another class or ccId and MoM   *)
(* sets of up to four leaves (two tree levels) all occur.                  *)
EXTENDS AssetchainProof

A == [name |-> "LABSA", word |-> "LABS", more |-> TRUE]
B == [name |-> "LABSB", word |-> "LABS", more |-> TRUE]
K == [name |-> "DOC",   word |-> "",     more |-> TRUE]

(* Chain A's own blocks, heights 0..8.  Heights 1 and 2 are notarised one *)
(* block at a time; the notarisation of height 4 covers 3 and 4 (MoMDepth *)
(* 2); height 6 is notarised before height 5 (a sequence issue), beside   *)
(* a notarisation of chain B that the asset chain ignores.  Each         *)
(* back-notarisation carries the MoMoM of its hub notarisation; the one   *)
(* of k2 arrives again at height 7, and k4 and k5 share a MoMoM.         *)
\* A transaction hash is a one-element tuple, a Merkle node a pair.
T(x) == <<x>>
TX1 == <<T("t1"), T("s1")>>
TX2 == <<T("s2"), T("t2")>>
TX3 == <<T("a3"), T("b3"), T("c3")>>
TX4 == <<T("a4"), T("b4")>>
X1 == GetMerkleRoot(TX1)
X2 == GetMerkleRoot(TX2)
M43 == GetMerkleRoot(<<GetMerkleRoot(TX4), GetMerkleRoot(TX3)>>)
AN(s, height, depth, mom, txHash, momom) ==
    [symbol |-> s, height |-> height, MoMDepth |-> depth, MoM |-> mom,
     txHash |-> txHash, MoMoM |-> momom]
Blk(txs, notas) == [txs |-> txs, notas |-> notas]
MCAssetChain ==
    << Blk(<<T("g0")>>, <<>>),
       Blk(TX1, <<>>),
       Blk(TX2, <<AN(A, 1, 1, X1, "k1", "mm1")>>),
       Blk(TX3, <<AN(A, 2, 1, X2, "k2", "mm2"), AN(B, 2, 1, X2, "k9", "mm2")>>),
       Blk(TX4, <<>>),
       Blk(<<T("a5")>>, <<AN(A, 4, 2, M43, "k4", "mm3")>>),
       Blk(<<T("a6")>>, <<>>),
       Blk(<<T("a7")>>, <<AN(A, 6, 1, GetMerkleRoot(<<T("a6")>>), "k6", "mm4"),
                          AN(A, 2, 1, X2, "k2", "mm2")>>),
       Blk(<<T("a8")>>, <<AN(A, 5, 1, GetMerkleRoot(<<T("a5")>>), "k5", "mm3")>>) >>
MCMempool == {T("m1")}

\* MoMs of other chains' transactions.
U1 == <<T("u1"), T("v1")>>
U2 == <<T("u2"), T("v2")>>

N(s, c, m) == [symbol |-> s, ccId |-> c, MoM |-> m]

MCSymbols == {A, B, K}
MCCCids == {2, 3}
MCMoMs == <<U1, X1, U2, X2>>
MCBlockContents ==
    { <<>>,
      <<N(A, 2, X1)>>,
      <<N(B, 2, U1)>>,
      <<N(A, 2, X2), N(B, 2, U2)>>,
      <<N(K, 2, U2)>>,
      <<N(B, 3, X2)>> }
\* The asset-chain proofs GetAssetchainProof builds for t1 and t2 (one
\* leaf deep, MoMs X1 and X2) are the source proofs of hub requests.
MCSourceProofs == {SourceProofOf(x) : x \in {x \in {T("t1"), T("t2")} : GetAssetchainProof(MCAssetChain, x).ok}}
MCOffsets == {-1, 0, 1}
=============================================================================
