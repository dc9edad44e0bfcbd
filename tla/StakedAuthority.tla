--------------------------- MODULE StakedAuthority ---------------------------
(***************************************************************************)
(* The staked node's notary bookkeeping (StakedNotaries) with the          *)
(* authority check applied to its current era: Choose_auth_STAKED of       *)
(* src/src/notaries_staked.cpp gives the authority CheckTxAuthority of     *)
(* src/src/crosschain.cpp tests a transaction against.  The transactions  *)
(* and the outputs they spend are constants; the era moves as in          *)
(* StakedNotaries.                                                         *)
(***************************************************************************)
EXTENDS StakedNotaries, TxAuthority

CONSTANTS
    PrevTxs,   \* hash -> the outputs of that transaction
    Txs,       \* the transactions to test
    Garbage    \* what vout[n] may read past the end of the outputs

\* The authority of the node's current era.
EraAuthority == Choose_auth_STAKED(EraKeys, STAKED_ERA)

\* In every era, a transaction CheckTxAuthority accepts has at least the
\* era's requiredSigs inputs and its inputs spend the keys of pairwise
\* distinct notaries of that era: the greedy first-unseen-row matching of
\* the seen[] loop never lets one notary count twice, whatever order the
\* inputs come in and whatever is read past the end of the outputs.
NotarySignaturesDistinct ==
    STAKED_ERA # 0 =>
        \A tx \in Txs, g \in Garbage :
            CheckTxAuthority(tx, EraAuthority, PrevTxs, g) =>
                /\ Len(tx.vin) >= EraAuthority.requiredSigs
                /\ \E f \in Injection(DOMAIN tx.vin, 1..EraAuthority.size) :
                       \A i \in DOMAIN tx.vin :
                           ScriptAt(PrevTxs, tx.vin[i], g).key = EraAuthority.notaries[f[i]]

\* The design's failure policy (spec.md, AuthorityResolver): an authority
\* with zero required signatures means "no valid authority, reject" and
\* never "zero threshold passes".  Choose_auth_STAKED gives an era of fewer
\* than five notaries requiredSigs = size / 5 = 0.
ZeroQuorumRejects ==
    STAKED_ERA # 0 /\ EraAuthority.requiredSigs = 0 =>
        \A tx \in Txs, g \in Garbage : ~CheckTxAuthority(tx, EraAuthority, PrevTxs, g)
=============================================================================
