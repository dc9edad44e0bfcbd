--------------------------- MODULE StakedNotaries ---------------------------
(***************************************************************************)
(* The staked-chain notary bookkeeping of src/src/notaries_staked.cpp:    *)
(* the per-era decoded key cache of numStakedNotaries, the address table   *)
(* NOTARYADDRS and the node's own notary id kept by UpdateNotaryAddrs,    *)
(* each era change one step (StakedLookup splits it into rows).          *)
(*                                                                         *)
(* pubkey2addr is injective, so an address is modelled as the key it was  *)
(* derived from, tagged.                                                   *)
(***************************************************************************)
EXTENDS Integers, Sequences, FiniteSets

CONSTANTS
    EraKeys,       \* notaries_STAKED: the key sequence of each era
    MyKey,         \* NOTARY_PUBKEY33, this node's key
    Slots          \* the 64 rows of NOTARYADDRS, 1-based

ASSUME \A e \in DOMAIN EraKeys : Len(EraKeys[e]) <= Cardinality(Slots)

Eras == 0..Len(EraKeys)      \* 0 is an era gap
NullKey == "nullkey"          \* a zeroed pubkey row
NoAddr == <<"addr", "none">>  \* a zeroed address row
Addr(k) == <<"addr", k>>      \* pubkey2addr

VARIABLES
    STAKED_ERA,        \* the era the node is in
    didinit,           \* numStakedNotaries: era -> decoded already
    staked_pubkeys,    \* numStakedNotaries: era -> decoded key rows
    NOTARYADDRS,       \* row -> address
    NOTARY_ADDRESS,    \* this node's notary address, "" when none
    STAKED_NOTARY_ID   \* this node's row in the era's table (0-based), -1 when none

vars == <<STAKED_ERA, didinit, staked_pubkeys, NOTARYADDRS, NOTARY_ADDRESS, STAKED_NOTARY_ID>>

(***************************************************************************)
(* numStakedNotaries(pubkeys, era): decode the era's keys into the cache   *)
(* on first use, copy them out; in a gap the rows are zeroed and 64 is     *)
(* returned.  The result carries the cache after the call.                 *)
(***************************************************************************)
numStakedNotaries(era) ==
    IF era = 0
    THEN [pubkeys |-> [s \in Slots |-> NullKey], n |-> Cardinality(Slots),
          didinit |-> didinit, cache |-> staked_pubkeys]
    ELSE LET cache == IF didinit[era] THEN staked_pubkeys
                      ELSE [staked_pubkeys EXCEPT ![era] =
                              [s \in Slots |-> IF s <= Len(EraKeys[era])
                                               THEN EraKeys[era][s]
                                               ELSE staked_pubkeys[era][s]]]
         IN [pubkeys |-> [s \in Slots |-> IF s <= Len(EraKeys[era])
                                         THEN cache[era][s] ELSE NullKey],
             n       |-> Len(EraKeys[era]),
             didinit |-> [didinit EXCEPT ![era] = TRUE],
             cache   |-> cache]

(***************************************************************************)
(* Actions                                                                 *)
(***************************************************************************)

Init ==
    /\ STAKED_ERA = 0
    /\ didinit = [e \in 1..Len(EraKeys) |-> FALSE]
    /\ staked_pubkeys = [e \in 1..Len(EraKeys) |-> [s \in Slots |-> NullKey]]
    /\ NOTARYADDRS = [s \in Slots |-> NoAddr]
    /\ NOTARY_ADDRESS = ""
    /\ STAKED_NOTARY_ID = -1

\* The node enters era e: the keys come from numStakedNotaries and
\* UpdateNotaryAddrs rewrites the address table.  In a gap (null keys) the
\* table is zeroed; otherwise the era's rows are rewritten and the node's
\* own row, if its key is among them, recorded.
EnterEra(e) ==
    LET r == numStakedNotaries(e)
        mine == {s \in 1..r.n : r.pubkeys[s] = MyKey}
    IN /\ STAKED_ERA' = e
       /\ didinit' = r.didinit
       /\ staked_pubkeys' = r.cache
       /\ IF r.pubkeys[1] = NullKey
          THEN /\ NOTARYADDRS' = [s \in Slots |-> NoAddr]
               /\ UNCHANGED <<NOTARY_ADDRESS, STAKED_NOTARY_ID>>
          ELSE /\ NOTARYADDRS' = [s \in Slots |-> IF s <= r.n THEN Addr(r.pubkeys[s])
                                                  ELSE NOTARYADDRS[s]]
               /\ IF mine = {}
                  THEN UNCHANGED <<NOTARY_ADDRESS, STAKED_NOTARY_ID>>
                  ELSE LET s == CHOOSE s \in mine : \A t \in mine : t <= s
                       IN /\ NOTARY_ADDRESS' = Addr(MyKey)
                          /\ STAKED_NOTARY_ID' = s - 1

Next == \E e \in Eras : EnterEra(e)

Spec == Init /\ [][Next]_vars

(***************************************************************************)
(* Properties                                                              *)
(***************************************************************************)

Keys == UNION {{EraKeys[e][s] : s \in DOMAIN EraKeys[e]} : e \in 1..Len(EraKeys)}

TypeOK ==
    /\ STAKED_ERA \in Eras
    /\ didinit \in [1..Len(EraKeys) -> BOOLEAN]
    /\ staked_pubkeys \in [1..Len(EraKeys) -> [Slots -> Keys \cup {NullKey}]]
    /\ NOTARYADDRS \in [Slots -> {Addr(k) : k \in Keys} \cup {NoAddr}]
    /\ NOTARY_ADDRESS \in {Addr(k) : k \in Keys} \cup {""}
    /\ STAKED_NOTARY_ID \in -1..Cardinality(Slots) - 1

\* The row of key k in the current era's notary list (0-based), -1 if none.
EraRow(k) ==
    IF STAKED_ERA = 0 THEN -1
    ELSE LET rows == {s \in DOMAIN EraKeys[STAKED_ERA] : EraKeys[STAKED_ERA][s] = k}
         IN IF rows = {} THEN -1 ELSE (CHOOSE s \in rows : \A t \in rows : s <= t) - 1

\* The node's own notary id always names its row in the current era: once
\* the node leaves an era it was a notary of, it no longer claims a row.
OwnNotaryIdCurrent ==
    STAKED_NOTARY_ID # -1 => STAKED_NOTARY_ID = EraRow(MyKey)
=============================================================================
