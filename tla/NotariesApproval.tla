-------------------------- MODULE NotariesApproval --------------------------
(***************************************************************************)
(* CrossChain::CheckNotariesApproval (src/src/crosschain.cpp 395-491), the *)
(* fallback acceptance of a burn transaction by counting notary approval   *)
(* transactions, with the notary keys it takes from numStakedNotaries      *)
(* (src/src/notaries_staked.cpp 82-113).                                   *)
(*                                                                         *)
(* Each iteration of the loop over notaryTxids is one step.  An approval   *)
(* transaction is abstracted to what the loop tests: whether it loads and  *)
(* decodes, what its txoutproof shows, the era of its block and the key    *)
(* that signed its first input.                                            *)
(***************************************************************************)
EXTENDS Integers, Sequences, FiniteSets

CONSTANTS
    Keys,          \* notary public keys
    Outsider,      \* a key of no notary
    EraKeys,       \* notaries_STAKED decoded: a sequence of key sequences by era
    Slots,         \* the 64 rows of notaries_pubkeys
    MinSigs,       \* the approvals required (5 in the code)
    MaxApprovals,  \* longest notaryTxids list considered
    Garbage,       \* an uninitialised row of notaries_pubkeys that matches no key
    StackResidue   \* keys an earlier call may have left in the array's stack memory

ASSUME StackResidue \subseteq Keys
ASSUME \A e \in DOMAIN EraKeys : Len(EraKeys[e]) <= Cardinality(Slots)

Eras == 0..Len(EraKeys)     \* STAKED_era of the block; 0 is an era gap

\* What the approval's txoutproof shows once decoded:
\*   "good"      the merkle root checks and burntxid is among the matches
\*   "noburn"    the merkle root checks but burntxid is not proven
\*   "badroot"   the extracted root differs from the header's merkle root
\*   "malformed" the tx is not confirmed, has no opret, or fails to decode
Proofs == {"good", "noburn", "badroot", "malformed"}

Approval == [proof : Proofs, era : Eras, signer : Keys \cup {Outsider}]

VARIABLES
    notaryTxids,     \* the approvals passed in (fixed for the call)
    i,               \* the loop position in notaryTxids
    count,           \* approvals counted
    alreadySigned,   \* keys whose approval was counted
    notaries_pubkeys,\* the 64-row key array, declared once outside the loop
    done,            \* the loop has ended and the call returned
    retcode,         \* the result
    counted          \* positions of the approvals counted (history)

vars == <<notaryTxids, i, count, alreadySigned, notaries_pubkeys, done, retcode, counted>>

(***************************************************************************)
(* numStakedNotaries(pubkeys, era): in a gap the whole array is zeroed and *)
(* 64 returned; otherwise the era's keys are copied into the first rows   *)
(* only, and their number returned.                                        *)
(***************************************************************************)
NullKey == "nullkey"

numStakedNotaries(pubkeys, era) ==
    IF era = 0
    THEN [keys |-> [s \in Slots |-> NullKey], n |-> Cardinality(Slots)]
    ELSE [keys |-> [s \in Slots |-> IF s <= Len(EraKeys[era]) THEN EraKeys[era][s]
                                    ELSE pubkeys[s]],
          n    |-> Len(EraKeys[era])]

\* The txoutproof check of line 424:
\*   ExtractMatches(...) != hashMerkleRoot || burntxid found
ProofAccepted(a) == a.proof \in {"badroot", "good"}

\* Mutant: the CheckVinPubKey test is lost; any row not yet signed matches.
SignerRowAnyKey(a, keys) == {s \in Slots : keys[s] \notin alreadySigned}

\* Mutant: a row matches whether or not its key was counted already.
SignerRowReused(a, keys) == {s \in Slots : keys[s] = a.signer}

\* The first row (in order) whose key signed vin 0 and has not signed yet.
SignerRow(a, keys) ==
    {s \in Slots : keys[s] = a.signer /\ keys[s] \notin alreadySigned}

(***************************************************************************)
(* Actions                                                                 *)
(***************************************************************************)

Init ==
    /\ notaryTxids \in UNION {[1..n -> Approval] : n \in 0..MaxApprovals}
    /\ i = 1
    /\ count = 0
    /\ alreadySigned = {}
    /\ notaries_pubkeys \in [Slots -> {Garbage} \cup StackResidue]
    /\ done = FALSE
    /\ retcode = FALSE
    /\ counted = {}

\* One iteration of the loop over notaryTxids.
CheckApproval ==
    /\ i <= Len(notaryTxids)
    /\ LET a == notaryTxids[i]
           r == numStakedNotaries(notaries_pubkeys, a.era)
           rows == SignerRow(a, r.keys)
       IN IF ProofAccepted(a)
          THEN /\ notaries_pubkeys' = r.keys
               /\ IF rows # {}
                  THEN /\ count' = count + 1
                       /\ alreadySigned' = alreadySigned \cup {a.signer}
                       /\ counted' = counted \cup {i}
                  ELSE UNCHANGED <<count, alreadySigned, counted>>
          ELSE UNCHANGED <<notaries_pubkeys, count, alreadySigned, counted>>
    /\ i' = i + 1
    /\ UNCHANGED <<notaryTxids, done, retcode>>

\* After the loop: enough counted approvals accept the burn.
Finish ==
    /\ i > Len(notaryTxids)
    /\ ~done
    /\ done' = TRUE
    /\ retcode' = (count >= MinSigs)
    /\ UNCHANGED <<notaryTxids, i, count, alreadySigned, notaries_pubkeys, counted>>

Next == CheckApproval \/ Finish

Spec == Init /\ [][Next]_vars

(***************************************************************************)
(* Properties                                                              *)
(***************************************************************************)

TypeOK ==
    /\ notaryTxids \in Seq(Approval)
    /\ i \in 1..MaxApprovals + 1
    /\ count \in 0..MaxApprovals
    /\ alreadySigned \subseteq Keys
    /\ notaries_pubkeys \in [Slots -> Keys \cup {NullKey, Garbage}]
    /\ done \in BOOLEAN
    /\ retcode \in BOOLEAN
    /\ counted \subseteq 1..MaxApprovals

\* Every approval counted comes from a different notary key, so a burn is
\* accepted only on MinSigs distinct notaries, however often one notary's
\* approval is repeated or resubmitted under another txid.
AcceptedByDistinctNotaries ==
    /\ count = Cardinality(alreadySigned)
    /\ Cardinality({notaryTxids[j].signer : j \in counted}) = Cardinality(counted)
    /\ retcode = TRUE => Cardinality(alreadySigned) >= MinSigs

\* Every approval counted carries a txoutproof whose merkle root checks and
\* which proves burntxid (the design's CheckNotariesApproval contract).
CountedApprovalsProveBurn ==
    \A j \in counted : notaryTxids[j].proof = "good"

\* Every approval counted is signed by a notary of the era of its own block.
CountedSignerInItsEra ==
    \A j \in counted :
        LET e == notaryTxids[j].era
        IN e # 0 /\ \E s \in DOMAIN EraKeys[e] : EraKeys[e][s] = notaryTxids[j].signer
=============================================================================
