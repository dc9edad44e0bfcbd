----------------------------- MODULE CrossChain -----------------------------
(***************************************************************************)
(* The proof-chaining engine of src/src/crosschain.cpp, evaluated on the   *)
(* hub chain's active chain: CalculateProofRoot, ScanNotarisationsFromHeight *)
(* and GetCrossChainProof, with the Merkle helpers they call.              *)
(*                                                                         *)
(* The active chain is a sequence of blocks; block h+1 of the sequence is  *)
(* the block at height h, given by the notarisations the notarisation      *)
(* store holds for it (GetBlockNotarisations), in store order.  Hashes     *)
(* are free constructors: Hash(a, b) = <<a, b>>, so two Merkle roots are  *)
(* equal exactly when the trees are.                                       *)
(***************************************************************************)
EXTENDS Integers, Sequences, FiniteSets, SequencesExt, Authority

CONSTANTS
    Symbols,          \* chain symbols (records as in Authority)
    CCids,            \* cross-chain ids a notarisation may carry
    MoMs,             \* the MoM values notarisations may carry, in uint256 order
    ScanLimit,        \* NOTARISATION_SCAN_LIMIT_BLOCKS (1440 in the code)
    OwnCap,           \* own notarisations after which CalculateProofRoot stops (7)
    Null,             \* uint256() and the null notarisation
    BlockContents,    \* the notarisation lists a new hub block may carry
    MaxHeight,        \* the hub chain grows no higher
    SourceProofs,     \* asset-chain proofs [txid, nIndex, branch] from a tx to its MoM
    Offsets           \* offsets a caller may pass to GetCrossChainProof

ASSUME (\A s \in Symbols : IsSymbol(s)) /\ ScanLimit \in Nat \ {0} /\ OwnCap \in Nat \ {0}

VARIABLE chain        \* chainActive with the notarisations of each block

(***************************************************************************)
(* Merkle trees (CBlock::GetMerkleBranch / CheckMerkleBranch, GetMerkleRoot) *)
(***************************************************************************)

Hash(a, b) == <<a, b>>

\* One level up: pairs hashed, an odd last node hashed with itself.
NextLevel(l) ==
    [i \in 1..(Len(l) + 1) \div 2 |->
        Hash(l[2 * i - 1], IF 2 * i <= Len(l) THEN l[2 * i] ELSE l[2 * i - 1])]

RECURSIVE GetMerkleRoot(_)
GetMerkleRoot(l) ==
    CASE Len(l) = 0 -> Null
      [] Len(l) = 1 -> l[1]
      [] OTHER      -> GetMerkleRoot(NextLevel(l))

\* The siblings from leaf idx (0-based) to the root, lowest level first:
\* at each level the node min(idx ^ 1, size - 1), which for an idx past
\* the last leaf is the last node of the level.
RECURSIVE GetMerkleBranch(_, _)
GetMerkleBranch(l, idx) ==
    IF Len(l) <= 1 THEN <<>>
    ELSE LET flip == IF idx % 2 = 1 THEN idx - 1 ELSE idx + 1
             sib  == IF flip < Len(l) - 1 THEN flip ELSE Len(l) - 1
         IN <<l[sib + 1]>> \o GetMerkleBranch(NextLevel(l), idx \div 2)

\* CBlock::CheckMerkleBranch, i.e. MerkleBranch::Exec.
RECURSIVE CheckMerkleBranch(_, _, _)
CheckMerkleBranch(h, branch, idx) ==
    IF branch = <<>> THEN h
    ELSE CheckMerkleBranch(IF idx % 2 = 1 THEN Hash(Head(branch), h)
                                          ELSE Hash(h, Head(branch)),
                           Tail(branch), idx \div 2)

\* MerkleBranch::operator<< : the upper branch goes above the lower one.
Concat(lower, upper) ==
    [nIndex |-> lower.nIndex + upper.nIndex * 2 ^ Len(lower.branch),
     branch |-> lower.branch \o upper.branch]

(***************************************************************************)
(* Hub chain queries                                                       *)
(***************************************************************************)

Height == Len(chain) - 1
BlockAt(h) == chain[h + 1]

\* The std::set of MoMs copied to a vector: ascending uint256 order.
MoMRank(m) == CHOOSE i \in 1..Len(MoMs) : MoMs[i] = m
SortedMoMs(S) == SetToSortSeq(S, LAMBDA a, b : MoMRank(a) < MoMRank(b))

\* Mutant: MoMs are collected from the first scanned block, before any own
\* notarisation has been seen.
ProofRootStepAll(symbol, targetCCid, notas, seen, dest, moms) ==
    LET own   == SelectInSeq(notas, LAMBDA n : n.symbol = symbol)
        seen1 == seen + Len(SelectSeq(notas, LAMBDA n : n.symbol = symbol))
    IN [capped |-> seen < OwnCap /\ seen1 >= OwnCap,
        seen   |-> seen1,
        dest   |-> IF seen = 0 /\ own > 0 THEN notas[own].txid ELSE dest,
        moms   |-> moms \cup {notas[k].MoM : k \in
                      {k \in DOMAIN notas :
                          /\ GetSymbolAuthority(notas[k].symbol) = GetSymbolAuthority(symbol)
                          /\ notas[k].ccId = targetCCid}}]

\* One iteration of the loop of CrossChain::CalculateProofRoot over the
\* notarisations notas of one block: the first own notarisation names the
\* destination; reaching the OwnCap-th own notarisation ends the scan
\* (capped) before the block's MoMs are collected; otherwise, once an own
\* notarisation has been seen, every MoM of the same authority class and
\* ccId is collected.
ProofRootStep(symbol, targetCCid, notas, seen, dest, moms) ==
    LET own   == SelectInSeq(notas, LAMBDA n : n.symbol = symbol)
        seen1 == seen + Len(SelectSeq(notas, LAMBDA n : n.symbol = symbol))
    IN [capped |-> seen < OwnCap /\ seen1 >= OwnCap,
        seen   |-> seen1,
        dest   |-> IF seen = 0 /\ own > 0 THEN notas[own].txid ELSE dest,
        moms   |-> IF seen1 >= 1
                   THEN moms \cup {notas[k].MoM : k \in
                          {k \in DOMAIN notas :
                              /\ GetSymbolAuthority(notas[k].symbol) = GetSymbolAuthority(symbol)
                              /\ notas[k].ccId = targetCCid}}
                   ELSE moms]

\* The result of a capped scan: the collected set in uint256 order and its
\* Merkle root (the code at the end label).
ProofRoot(moms, dest) ==
    [root |-> GetMerkleRoot(SortedMoMs(moms)), moms |-> SortedMoMs(moms), dest |-> dest]

NullRoot == [root |-> Null, moms |-> <<>>, dest |-> Null]

\* The backward scan of CrossChain::CalculateProofRoot from kmdHeight;
\* running out of the window or of blocks gives the null root.
RECURSIVE ProofRootScan(_, _, _, _, _, _, _)
ProofRootScan(symbol, targetCCid, kmdHeight, i, seen, dest, moms) ==
    IF i >= ScanLimit \/ i > kmdHeight
    THEN NullRoot
    ELSE LET r == ProofRootStep(symbol, targetCCid, BlockAt(kmdHeight - i), seen, dest, moms)
         IN IF r.capped
            THEN ProofRoot(moms, r.dest)
            ELSE ProofRootScan(symbol, targetCCid, kmdHeight, i + 1, r.seen, r.dest, r.moms)

\* Mutant: the backward scan starts one block below kmdHeight.
CalculateProofRootFromOne(symbol, targetCCid, kmdHeight) ==
    IF targetCCid < 2 \/ kmdHeight < 0 \/ kmdHeight > Height
    THEN NullRoot
    ELSE ProofRootScan(symbol, targetCCid, kmdHeight, 1, 0, Null, {})

CalculateProofRoot(symbol, targetCCid, kmdHeight) ==
    IF targetCCid < 2 \/ kmdHeight < 0 \/ kmdHeight > Height
    THEN NullRoot
    ELSE ProofRootScan(symbol, targetCCid, kmdHeight, 0, 0, Null, {})

\* The notarisations of a chain of notarisation lists, and of the active chain.
NotarisationsIn(blocks) == UNION {Range(blocks[i]) : i \in DOMAIN blocks}
Notarisations == NotarisationsIn(chain)

\* Mutant: the scan returns the last notarisation in its window.
ScanNotarisationsInLatest(blocks, nHeight, f) ==
    LET tip   == Len(blocks) - 1
        limit == IF nHeight + ScanLimit < tip THEN nHeight + ScanLimit ELSE tip
        start == IF nHeight > 1 THEN nHeight ELSE 1
        hits  == {h \in start..limit - 1 :
                     \E k \in DOMAIN blocks[h + 1] : blocks[h + 1][k] \in f}
    IN IF hits = {} THEN [height |-> 0, found |-> Null]
       ELSE LET h == CHOOSE h \in hits : \A g \in hits : h >= g
            IN [height |-> h,
                found  |-> blocks[h + 1][SelectInSeq(blocks[h + 1], LAMBDA n : n \in f)]]

\* ScanNotarisationsFromHeight on a chain of notarisation lists (block h+1
\* of blocks is height h): the first notarisation the predicate f accepts
\* (given as the set of notarisations it accepts) in heights
\* max(nHeight,1) .. min(nHeight + limit, tip) - 1; height 0 when none.
ScanNotarisationsIn(blocks, nHeight, f) ==
    LET tip   == Len(blocks) - 1
        limit == IF nHeight + ScanLimit < tip THEN nHeight + ScanLimit ELSE tip
        start == IF nHeight > 1 THEN nHeight ELSE 1
        hits  == {h \in start..limit - 1 :
                     \E k \in DOMAIN blocks[h + 1] : blocks[h + 1][k] \in f}
    IN IF hits = {} THEN [height |-> 0, found |-> Null]
       ELSE LET h == CHOOSE h \in hits : \A g \in hits : h <= g
            IN [height |-> h,
                found  |-> blocks[h + 1][SelectInSeq(blocks[h + 1], LAMBDA n : n \in f)]]

\* CrossChain::ScanNotarisationsFromHeight on the hub's active chain.
ScanNotarisationsFromHeight(nHeight, f) == ScanNotarisationsIn(chain, nHeight, f)

\* GetTxConfirmed for a notarisation txid: the height of its block.
TxHeight(txid) ==
    LET hs == {h \in 0..Height : \E k \in DOMAIN BlockAt(h) : BlockAt(h)[k].txid = txid}
    IN IF hs = {} THEN -1 ELSE CHOOSE h \in hs : TRUE

(***************************************************************************)
(* CrossChain::GetCrossChainProof                                          *)
(***************************************************************************)

\* A failure is the runtime_error the code throws, named by its cause.
Fail(why) == [ok |-> FALSE, why |-> why]

\* Mutant: the position of the MoM taken 1-based.
MoMIndexOneBased(moms, MoM) == SelectInSeq(moms, LAMBDA m : m = MoM)

\* The loop of lines 278-284: the 0-based position of MoM in moms, -1 when
\* it is not there (the "Couldn't find MoM" error).
MoMIndex(moms, MoM) == SelectInSeq(moms, LAMBDA m : m = MoM) - 1

\* Lines 277-307: locate the source MoM in the MoMoM set, build the branch
\* from it to the MoMoM, put it above the asset-chain branch and check the
\* result.
ExtendProof(txid, assetBranch, MoM, pr, kmdHeight) ==
    LET nIndex    == MoMIndex(pr.moms, MoM)
        newBranch == Concat(assetBranch,
                            [nIndex |-> nIndex, branch |-> GetMerkleBranch(pr.moms, nIndex)])
    IN CASE nIndex < 0 -> Fail("Couldn't find MoM within MoMoM set")
         [] CheckMerkleBranch(txid, newBranch.branch, newBranch.nIndex) # pr.root
                       -> Fail("Proof check failed")
         [] OTHER -> [ok |-> TRUE, first |-> pr.dest, second |-> newBranch,
                      MoMoM |-> pr.root, kmdHeight |-> kmdHeight]

\* The target notarisations the forward scan looks for (the isTarget lambda).
IsTargetOf(targetSymbol) == {n \in Notarisations : n.symbol = targetSymbol}

\* assetChainProof is [first: notarisation txid, second: [nIndex, branch]].
GetCrossChainProof(txid, targetSymbol, targetCCid, assetChainProof, offset) ==
    LET MoM       == CheckMerkleBranch(txid, assetChainProof.second.branch,
                                       assetChainProof.second.nIndex)
        srcHeight == TxHeight(assetChainProof.first)
        scan      == ScanNotarisationsFromHeight(srcHeight, IsTargetOf(targetSymbol))
        kmdHeight == scan.height + offset
        pr        == CalculateProofRoot(targetSymbol, targetCCid, kmdHeight)
    IN CASE srcHeight < 0       -> Fail("Notarisation not found")
         [] scan.height = 0     -> Fail("Cannot find notarisation for target inclusive of source")
         [] pr.root = Null      -> Fail("No MoMs found")
         [] OTHER -> ExtendProof(txid, assetChainProof.second, MoM, pr, kmdHeight)

\* CrossChain::CompleteImportTransaction (lines 315-340).  An import
\* transaction is abstracted to what the code unpacks from it: whether it
\* unmarshals, its burn transaction (whether that unmarshals, its hash,
\* target symbol and ccId) and its proof (whether it is a plain Merkle
\* branch, and the branch).  The result is the rewritten transaction, whose
\* proof is the extended one, or the error thrown with the caller's
\* transaction untouched.
CompleteImportTransaction(importTx, offset) ==
    LET burn == importTx.burn
        r    == GetCrossChainProof(burn.txid, burn.targetSymbol, burn.targetCCid,
                                   importTx.proof, offset)
    IN CASE ~importTx.unmarshals         -> Fail("Couldn't unmarshal importTx")
         [] ~burn.unmarshals             -> Fail("Couldn't unmarshal burnTx")
         [] ~importTx.proof.isMerkleBranch -> Fail("Incorrect import tx proof")
         [] ~r.ok                        -> r
         [] OTHER -> [ok |-> TRUE, MoMoM |-> r.MoMoM,
                      tx |-> [importTx EXCEPT !.proof = [isMerkleBranch |-> TRUE,
                                                         first  |-> r.first,
                                                         second |-> r.second]]]

(***************************************************************************)
(* The hub chain as the engine sees it.  Blocks are connected and          *)
(* disconnected under cs_main by the validation code; each notarisation    *)
(* gets a transaction id unique to its block and position.                 *)
(***************************************************************************)

Init == chain = <<<<>>>>

\* A block at the next height carrying one of the allowed notarisation lists.
ConnectTip(content) ==
    /\ Height < MaxHeight
    /\ chain' = Append(chain,
                  [k \in DOMAIN content |->
                      [txid   |-> <<Len(chain), k>>, symbol |-> content[k].symbol,
                       ccId   |-> content[k].ccId,   MoM    |-> content[k].MoM]])

\* The tip is disconnected (a reorg shortening the active chain).
DisconnectTip ==
    /\ Height > 0
    /\ chain' = SubSeq(chain, 1, Len(chain) - 1)

Next ==
    \/ \E content \in BlockContents : ConnectTip(content)
    \/ DisconnectTip

Spec == Init /\ [][Next]_chain

(***************************************************************************)
(* Properties.  The inputs of a proof request: a source notarisation on   *)
(* the chain, an asset-chain proof, a target symbol, ccId and offset.      *)
(***************************************************************************)

Request(n, sp, target, ccid, off) ==
    GetCrossChainProof(sp.txid, target, ccid,
                       [first |-> n.txid, second |-> [nIndex |-> sp.nIndex, branch |-> sp.branch]],
                       off)

\* An import transaction burning sp.txid towards t with ccId c, its proof
\* anchored at notarisation n; flags select a transaction, burn or proof
\* that does not unpack.
ImportOf(n, sp, t, c, flags) ==
    [unmarshals |-> "tx" \notin flags,
     burn  |-> [unmarshals |-> "burn" \notin flags, txid |-> sp.txid,
                targetSymbol |-> t, targetCCid |-> c],
     proof |-> [isMerkleBranch |-> "proof" \notin flags, first |-> n.txid,
                second |-> [nIndex |-> sp.nIndex, branch |-> sp.branch]]]

\* Proof round trip (CompleteImportTransaction): once the source MoM has
\* been located in the MoMoM set, the branch built over that set and
\* concatenated beneath the asset-chain branch always leads from the burn
\* transaction to the MoMoM, so the final "Proof check failed" check of
\* GetCrossChainProof never fires, and a completed import keeps its burn
\* and carries a proof that executes from the burn's hash to that MoMoM.
ProofCheckNeverFails ==
    \A n \in Notarisations, sp \in SourceProofs, t \in Symbols, c \in CCids,
       off \in Offsets, flags \in SUBSET {"tx", "burn", "proof"} :
        LET tx == ImportOf(n, sp, t, c, flags)
            r  == CompleteImportTransaction(tx, off)
        IN /\ r # Fail("Proof check failed")
           /\ r.ok => /\ r.tx.burn = tx.burn
                      /\ CheckMerkleBranch(tx.burn.txid, r.tx.proof.second.branch,
                                           r.tx.proof.second.nIndex) = r.MoMoM

\* Scanning forward from the source notarisation's height to the first
\* notarisation of the target (offset 0) always lands on a target
\* notarisation whose MoMoM range includes the source MoM, whenever the two
\* chains share an authority class and ccId and a MoMoM is determinate: the
\* comment "scan forwards to find the notarisation for B, that is
\* inclusive of A" of GetCrossChainProof.
ForwardAnchorIncludesSource ==
    \A n \in Notarisations, sp \in SourceProofs, t \in Symbols :
        LET r == Request(n, sp, t, n.ccId, 0) IN
        (/\ CheckMerkleBranch(sp.txid, sp.branch, sp.nIndex) = n.MoM
         /\ GetSymbolAuthority(n.symbol) = GetSymbolAuthority(t))
        => r # Fail("Couldn't find MoM within MoMoM set")

\* Whatever offset and source a proof was built from, two proofs anchored
\* at the same target notarisation with the same ccId carry the same
\* MoMoM: the MoMoM is a function of the anchor, which is what lets one
\* back-notarisation of that anchor serve every import proved against it.
AnchorDeterminesMoMoM ==
    \A c \in CCids :
        LET built == {r \in {Request(n, sp, t, c, off) :
                                n \in Notarisations, sp \in SourceProofs,
                                t \in Symbols, off \in Offsets} : r.ok}
        IN \A r1, r2 \in built : r1.first = r2.first => r1.MoMoM = r2.MoMoM

\* The design's contract for CalculateProofRoot: the root is null only when
\* the scan window holds no notarisation of the symbol; one notarisation of
\* the symbol with the requested ccId is enough for a non-null MoMoM.
ProofRootNullOnlyWithoutOwn ==
    \A s \in Symbols, c \in CCids, h \in 0..Height :
        (\E g \in 0..h : h - g < ScanLimit /\
            \E k \in DOMAIN BlockAt(g) : BlockAt(g)[k].symbol = s /\ BlockAt(g)[k].ccId = c)
        => CalculateProofRoot(s, c, h).root # Null
=============================================================================
