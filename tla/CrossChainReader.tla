-------------------------- MODULE CrossChainReader --------------------------
(***************************************************************************)
(* CrossChain::GetCrossChainProof as the code runs it: a caller thread     *)
(* reading chainActive block by block, without cs_main (the XXX comment   *)
(* at src/src/crosschain.cpp:44), while the validation thread connects and *)
(* disconnects hub blocks.                                                 *)
(*                                                                         *)
(* Each read of chainActive is one step.  chainActive[h] for h above the  *)
(* tip is NULL, and the code dereferences it at once (lines 149 and 207): *)
(* the reader then crashes.  Getting the source notarisation's height and *)
(* the scan limit are one step; the part after the backward scan reads no *)
(* chain state and is one step.                                            *)
(***************************************************************************)
EXTENDS CrossChain

VARIABLES
    pc,         \* where the caller is in GetCrossChainProof
    req,        \* the call's arguments and the source MoM
    h,          \* ScanNotarisationsFromHeight: the height being read
    limit,      \* ScanNotarisationsFromHeight: the limit read at its start
    kmdHeight,  \* the anchor height plus offset
    ri,         \* CalculateProofRoot: i
    seen,       \* CalculateProofRoot: seenOwnNotarisations
    dest,       \* CalculateProofRoot: destNotarisationTxid
    moms,       \* CalculateProofRoot: tmp_moms
    result      \* the proof returned or the error thrown

rvars == <<pc, req, h, limit, kmdHeight, ri, seen, dest, moms, result>>
allvars == <<chain, rvars>>

Busy == {"scan", "rootinit", "root"}

(***************************************************************************)
(* The caller                                                              *)
(***************************************************************************)

\* Return with a result: the proof or a thrown error.
Return(r) ==
    /\ pc' = "done"
    /\ result' = r
    /\ UNCHANGED <<req, h, limit, kmdHeight, ri, seen, dest, moms>>

\* Lines 240-250 and 201-202: the source MoM, the height of the source
\* notarisation (GetTxConfirmed) and the forward scan's window.
Start(n, sp, t, c, off) ==
    LET srcHeight == TxHeight(n.txid)
    IN /\ pc = "idle"
       /\ pc' = "scan"
       /\ req' = [txid |-> sp.txid, target |-> t, ccid |-> c, off |-> off,
                  first |-> n.txid, branch |-> [nIndex |-> sp.nIndex, branch |-> sp.branch],
                  MoM |-> CheckMerkleBranch(sp.txid, sp.branch, sp.nIndex)]
       /\ limit' = IF srcHeight + ScanLimit < Height THEN srcHeight + ScanLimit ELSE Height
       /\ h' = IF srcHeight > 1 THEN srcHeight ELSE 1
       /\ UNCHANGED <<kmdHeight, ri, seen, dest, moms, result>>

\* Mutant: a block without a target notarisation does not advance the scan.
ScanStepStuck ==
    /\ pc = "scan"
    /\ \/ /\ h >= limit
          /\ Return(Fail("Cannot find notarisation for target inclusive of source"))
       \/ /\ h < limit
          /\ h > Height
          /\ pc' = "crashed"
          /\ UNCHANGED <<req, h, limit, kmdHeight, ri, seen, dest, moms, result>>
       \/ /\ h < limit
          /\ h <= Height
          /\ IF \E k \in DOMAIN BlockAt(h) : BlockAt(h)[k].symbol = req.target
             THEN /\ pc' = "rootinit"
                  /\ kmdHeight' = h + req.off
             ELSE UNCHANGED <<pc, kmdHeight>>
          /\ UNCHANGED <<h, req, limit, ri, seen, dest, moms, result>>

\* One iteration of the loop of ScanNotarisationsFromHeight (lines 204-216),
\* then lines 263-268: the first target notarisation gives the anchor.
ScanStep ==
    /\ pc = "scan"
    /\ \/ /\ h >= limit
          /\ Return(Fail("Cannot find notarisation for target inclusive of source"))
       \/ /\ h < limit
          /\ h > Height
          /\ pc' = "crashed"
          /\ UNCHANGED <<req, h, limit, kmdHeight, ri, seen, dest, moms, result>>
       \/ /\ h < limit
          /\ h <= Height
          /\ IF \E k \in DOMAIN BlockAt(h) : BlockAt(h)[k].symbol = req.target
             THEN /\ pc' = "rootinit"
                  /\ kmdHeight' = h + req.off
                  /\ UNCHANGED h
             ELSE /\ h' = h + 1
                  /\ UNCHANGED <<pc, kmdHeight>>
          /\ UNCHANGED <<req, limit, ri, seen, dest, moms, result>>

\* The guards of CalculateProofRoot (lines 136-144).
RootInit ==
    /\ pc = "rootinit"
    /\ IF req.ccid < 2 \/ kmdHeight < 0 \/ kmdHeight > Height
       THEN Return(Fail("No MoMs found"))
       ELSE /\ pc' = "root"
            /\ ri' = 0
            /\ seen' = 0
            /\ dest' = Null
            /\ moms' = {}
            /\ UNCHANGED <<req, h, limit, kmdHeight, result>>

\* Mutant: the backward scan is bounded by the height only, not the window.
RootStepUnbounded ==
    /\ pc = "root"
    /\ \/ /\ ri > kmdHeight
          /\ Return(Fail("No MoMs found"))
       \/ /\ ri <= kmdHeight
          /\ kmdHeight - ri > Height
          /\ pc' = "crashed"
          /\ UNCHANGED <<req, h, limit, kmdHeight, ri, seen, dest, moms, result>>
       \/ /\ ri <= kmdHeight
          /\ kmdHeight - ri <= Height
          /\ LET r  == ProofRootStep(req.target, req.ccid, BlockAt(kmdHeight - ri), seen, dest, moms)
                 pr == ProofRoot(moms, r.dest)
             IN IF r.capped
                THEN Return(IF pr.root = Null THEN Fail("No MoMs found")
                            ELSE ExtendProof(req.txid, req.branch, req.MoM, pr, kmdHeight))
                ELSE /\ ri' = ri + 1
                     /\ seen' = r.seen
                     /\ dest' = r.dest
                     /\ moms' = r.moms
                     /\ UNCHANGED <<pc, req, h, limit, kmdHeight, result>>

\* One iteration of the loop of CalculateProofRoot (lines 146-175); when it
\* reaches the cap, the rest of GetCrossChainProof (lines 182-186, 272-307):
\* an empty MoM set has the null root and throws "No MoMs found".
RootStep ==
    /\ pc = "root"
    /\ \/ /\ ri >= ScanLimit \/ ri > kmdHeight
          /\ Return(Fail("No MoMs found"))
       \/ /\ ri < ScanLimit /\ ri <= kmdHeight
          /\ kmdHeight - ri > Height
          /\ pc' = "crashed"
          /\ UNCHANGED <<req, h, limit, kmdHeight, ri, seen, dest, moms, result>>
       \/ /\ ri < ScanLimit /\ ri <= kmdHeight
          /\ kmdHeight - ri <= Height
          /\ LET r  == ProofRootStep(req.target, req.ccid, BlockAt(kmdHeight - ri), seen, dest, moms)
                 pr == ProofRoot(moms, r.dest)
             IN IF r.capped
                THEN Return(IF pr.root = Null THEN Fail("No MoMs found")
                            ELSE ExtendProof(req.txid, req.branch, req.MoM, pr, kmdHeight))
                ELSE /\ ri' = ri + 1
                     /\ seen' = r.seen
                     /\ dest' = r.dest
                     /\ moms' = r.moms
                     /\ UNCHANGED <<pc, req, h, limit, kmdHeight, result>>

ReaderStep == ScanStep \/ RootInit \/ RootStep

\* The caller takes the result and may call again; after a crash the node
\* restarts with the hub chain it had (chainActive is rebuilt from disk).
Finish ==
    /\ pc \in {"done", "crashed"}
    /\ pc' = "idle"
    /\ req' = [txid |-> Null]
    /\ result' = Null
    /\ h' = 0 /\ limit' = 0 /\ kmdHeight' = 0
    /\ ri' = 0 /\ seen' = 0 /\ dest' = Null /\ moms' = {}

(***************************************************************************)
(* The validation thread                                                   *)
(***************************************************************************)

\* A block is connected or disconnected while the caller is idle or
\* inside its scans.  Between a return and the caller's
\* Finish the hub steps are taken after Finish, with which they commute.
HubStep ==
    /\ pc \in {"idle"} \cup Busy
    /\ \/ \E content \in BlockContents : ConnectTip(content)
       \/ DisconnectTip
    /\ UNCHANGED <<pc, req, h, limit, kmdHeight, ri, seen, dest, moms, result>>

ReaderInit ==
    /\ Init
    /\ pc = "idle"
    /\ req = [txid |-> Null]
    /\ h = 0
    /\ limit = 0
    /\ kmdHeight = 0
    /\ ri = 0
    /\ seen = 0
    /\ dest = Null
    /\ moms = {}
    /\ result = Null

ReaderNext ==
    \/ /\ pc = "idle"
       /\ \E n \in Notarisations, sp \in SourceProofs, t \in Symbols, c \in CCids, off \in Offsets :
             Start(n, sp, t, c, off)
       /\ UNCHANGED chain
    \/ ReaderStep /\ UNCHANGED chain
    \/ Finish /\ UNCHANGED chain
    \/ HubStep

\* The caller thread is scheduled whenever it can run; the validation
\* thread may connect and disconnect blocks at any time, or never.
ReaderSpec == ReaderInit /\ [][ReaderNext]_allvars /\ WF_allvars(ReaderStep /\ UNCHANGED chain)

(***************************************************************************)
(* Properties                                                              *)
(***************************************************************************)

ReaderTypeOK ==
    /\ pc \in {"idle", "done", "crashed"} \cup Busy
    /\ ri \in 0..ScanLimit
    /\ seen \in Nat
    /\ moms \subseteq Range(MoMs)
    /\ kmdHeight \in Int
    /\ h \in 0..MaxHeight + 1

\* The unlocked reads of chainActive never meet a NULL entry: no block the
\* scans of GetCrossChainProof are about to read is disconnected under
\* them (the crash the comment at crosschain.cpp:44 warns of).
NoNullDereference == pc # "crashed"

\* Every call returns (or crashes), however the validation thread connects
\* and disconnects blocks meanwhile: both loops of GetCrossChainProof are
\* bounded by the scan limit.
CallReturns == (pc \in Busy) ~> (pc \in {"done", "crashed"})
=============================================================================
