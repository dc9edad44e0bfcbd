-------------------------- MODULE MCStakedNotaries --------------------------
(* Model for StakedNotaries: five eras over five keys in a table of five  *)
(* rows.  The node's key K1 is a notary of eras 1, 3, 4 and 5 *)
(* at different rows and not of era 2; eras shrink and grow, so stale rows *)
(* are left behind in the address table and the cache fills in any order.  *)
EXTENDS StakedAuthority

(* Two earlier transactions: one pays K1 and K2, the other K3, a script   *)
(* that is not pay-to-pubkey and K1 again.  Transactions have up to two   *)
(* inputs, spending outputs 0..2 of either or of an unknown hash, so      *)
(* inputs past the last output, duplicate notaries and non-notary keys   *)
(* all occur.  Past the end lies either a non-script or K2's script.      *)
NotScript == [size |-> 25, push |-> 118, key |-> "none", last |-> "OP_EQUALVERIFY"]
MCPrevTxs == [p \in {"p1", "p2"} |->
                 IF p = "p1" THEN <<P2PK("K1"), P2PK("K2")>>
                 ELSE <<P2PK("K3"), NotScript, P2PK("K1")>>]
MCInputs == {[hash |-> p, n |-> n] : p \in {"p1", "p2", "p9"}, n \in 0..2}
MCTxs == {[vin |-> v] : v \in BoundedSeq(MCInputs, 2)}
MCGarbage == {NotScript, P2PK("K2")}

MCEraKeys == << <<"K1", "K2", "K3">>, <<"K2">>, <<"K3", "K1">>, <<"K4", "K2", "K3", "K5", "K1">>, <<"K2", "K1">> >>
=============================================================================
