----------------------------- MODULE TxAuthority -----------------------------
(***************************************************************************)
(* CrossChain::CheckTxAuthority of src/src/crosschain.cpp: a transaction  *)
(* is signed by an authority when it has at least requiredSigs inputs and *)
(* every input spends a pay-to-pubkey output of a distinct notary.         *)
(*                                                                         *)
(* A scriptPubKey is abstracted to what the code inspects: its size, its  *)
(* first byte (the push length), the 33 bytes after it (the key) and its  *)
(* last byte.  An input is [hash, n]; prev maps the hashes GetTxUnconfirmed *)
(* finds to their outputs.  The guard of line 85 lets n equal the number  *)
(* of outputs through, and vout[n] then reads past the vector: the bytes  *)
(* found there are the parameter garbage, chosen by the caller.           *)
(***************************************************************************)
EXTENDS Authority, SequencesExt

OP_CHECKSIG == "OP_CHECKSIG"

\* The output script "<33-byte key> OP_CHECKSIG".
P2PK(k) == [size |-> 35, push |-> 33, key |-> k, last |-> OP_CHECKSIG]

\* Lines 87-94: the shape test of the spent output script.
IsP2PK(spk) == spk.size = 35 /\ spk.push = 33 /\ spk.last = OP_CHECKSIG

\* tx.vout[txIn.prevout.n], past the end when n = Len(vout).
ScriptAt(prev, in, garbage) ==
    IF in.n < Len(prev[in.hash]) THEN prev[in.hash][in.n + 1] ELSE garbage

\* Mutant: the seen[] flags are not consulted, one notary signs twice.
RECURSIVE CheckVinsNoSeen(_, _, _, _, _)
CheckVinsNoSeen(vin, auth, prev, garbage, seen) ==
    IF vin = <<>> THEN TRUE
    ELSE LET in   == Head(vin)
             spk  == ScriptAt(prev, in, garbage)
             free == {i \in 1..auth.size : auth.notaries[i] = spk.key}
         IN CASE in.hash \notin DOMAIN prev    -> FALSE
              [] Len(prev[in.hash]) < in.n     -> FALSE
              [] ~IsP2PK(spk)                  -> FALSE
              [] free = {}                     -> FALSE
              [] OTHER -> CheckVinsNoSeen(Tail(vin), auth, prev, garbage, seen \cup {Min(free)})

\* Lines 76-108: the loop over the inputs.  seen holds the notary rows
\* already matched; an input matches the first unseen row with its key.
RECURSIVE CheckVins(_, _, _, _, _)
CheckVins(vin, auth, prev, garbage, seen) ==
    IF vin = <<>> THEN TRUE
    ELSE LET in   == Head(vin)
             spk  == ScriptAt(prev, in, garbage)
             free == {i \in 1..auth.size : i \notin seen /\ auth.notaries[i] = spk.key}
         IN CASE in.hash \notin DOMAIN prev    -> FALSE
              [] Len(prev[in.hash]) < in.n     -> FALSE
              [] ~IsP2PK(spk)                  -> FALSE
              [] free = {}                     -> FALSE
              [] OTHER -> CheckVins(Tail(vin), auth, prev, garbage, seen \cup {Min(free)})

\* CrossChain::CheckTxAuthority (lines 71-110).
CheckTxAuthority(tx, auth, prev, garbage) ==
    /\ Len(tx.vin) >= auth.requiredSigs
    /\ CheckVins(tx.vin, auth, prev, garbage, {})
=============================================================================
