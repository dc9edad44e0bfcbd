----------------------------- MODULE Authority ------------------------------
(***************************************************************************)
(* Chain classification and notary eras: is_STAKED, STAKED_era and        *)
(* Choose_auth_STAKED of src/src/notaries_staked.cpp and                   *)
(* CrossChain::GetSymbolAuthority of src/src/crosschain.cpp.               *)
(*                                                                         *)
(* A chain symbol is abstracted to a record: its name, the reserved word   *)
(* it starts with ("" when none) and whether anything follows that word,   *)
(* which is all the prefix and equality tests of the code look at.         *)
(***************************************************************************)
EXTENDS Integers, Sequences

\* The reserved words the code tests symbols against.
Reserved == {"LABS", "CFEK", "TEST", "TXSCL", "THIS_CHAIN_IS_BANNED", ""}

IsSymbol(s) == s.word \in Reserved /\ s.more \in BOOLEAN

\* symbol.find(w) == 0
StartsWith(s, w) == s.word = w
\* symbol == w
IsExactly(s, w) == s.word = w /\ ~s.more

\* is_STAKED: 0 = hub, 1 = LABS, 2 = LABSxxx, 3 = CFEK, 4 = TEST, 255 = banned.
is_STAKED(s) ==
    CASE IsExactly(s, "LABS")                 -> 1
      [] StartsWith(s, "LABS")                -> 2
      [] StartsWith(s, "CFEK")                -> 3
      [] StartsWith(s, "TEST")                -> 4
      [] IsExactly(s, "THIS_CHAIN_IS_BANNED") -> 255
      [] OTHER                                -> 0

\* CrossChain::GetSymbolAuthority
GetSymbolAuthority(s) ==
    IF StartsWith(s, "TXSCL") THEN "CROSSCHAIN_TXSCL"
    ELSE IF is_STAKED(s) # 0 THEN "CROSSCHAIN_STAKED"
    ELSE "CROSSCHAIN_SQUISHY"

(***************************************************************************)
(* Eras.  ts is STAKED_NOTARIES_TIMESTAMP (a sequence, era i ending at     *)
(* ts[i]), gap is STAKED_ERA_GAP.                                          *)
(***************************************************************************)

\* STAKED_era: era 1 up to ts[1]; era i+1 from ts[i] + gap to ts[i+1];
\* 0 in a gap and after the last era.
STAKED_era(ts, gap, timestamp) ==
    IF timestamp <= ts[1] THEN 1
    ELSE LET later == {i \in 2..Len(ts) :
                          timestamp <= ts[i] /\ timestamp >= ts[i - 1] + gap}
         IN IF later = {} THEN 0
            ELSE (CHOOSE i \in later : \A j \in later : i <= j)

\* Choose_auth_STAKED: the era's notaries and a fifth of them as quorum.
\* keys is notaries_STAKED decoded, a sequence of key sequences by era.
Choose_auth_STAKED(keys, era) ==
    [requiredSigs |-> Len(keys[era]) \div 5,
     size         |-> Len(keys[era]),
     notaries     |-> keys[era]]
=============================================================================
