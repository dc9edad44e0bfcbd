---------------------------- MODULE StakedLookup ----------------------------
(***************************************************************************)
(* StakedNotaryID of src/src/notaries_staked.cpp run by a caller thread    *)
(* beside the thread that changes era.  UpdateNotaryAddrs rewrites         *)
(* NOTARYADDRS one row per loop iteration under staked_mutex, but          *)
(* StakedNotaryID takes no lock: each of its iterations re-reads           *)
(* STAKED_ERA for the bound (line 72) and reads one row (line 73), so it   *)
(* can see a table half rewritten, or an era changed under it.            *)
(*                                                                         *)
(* The era thread calls numStakedNotaries, then UpdateNotaryAddrs;        *)
(* STAKED_ERA is assigned by a caller outside this tree, so it may change  *)
(* before the row loop or after it, as TLC chooses.  The zeroing of an    *)
(* era gap (one memset) is one step, with the era change.                 *)
(***************************************************************************)
EXTENDS StakedAuthority

CONSTANT LookupKeys   \* the keys whose addresses callers look up

ASSUME LookupKeys \subseteq Keys

VARIABLES
    wpc,      \* the era thread: "idle", or "rows" inside the loop of line 132
    wkeys,    \* the pubkeys array UpdateNotaryAddrs was passed
    wn,       \* its numNotaries
    wi,       \* the row the loop writes next (1-based)
    rpc,      \* the caller of StakedNotaryID: "idle", "scan", "done"
    rkey,     \* the key whose address Raddress is
    ri,       \* the loop index i of line 72 (0-based)
    rresult,  \* the value StakedNotaryID returned
    rstable,  \* history: no era thread step since the call began, and none under way
    wera      \* the era being entered

lvars == <<wpc, wkeys, wn, wi, rpc, rkey, ri, rresult, rstable, wera>>
allvars == <<vars, lvars>>

LookupInit ==
    /\ Init
    /\ wpc = "idle" /\ wkeys = [s \in Slots |-> NullKey] /\ wn = 0 /\ wi = 1
    /\ rpc = "idle" /\ rkey \in LookupKeys /\ ri = 0 /\ rresult = -1 /\ rstable = TRUE
    /\ wera = 0

(***************************************************************************)
(* The era thread                                                          *)
(***************************************************************************)

\* numStakedNotaries fills the key array for era e; then UpdateNotaryAddrs
\* either zeroes the table (null keys, lines 121-127) or enters its row
\* loop.  STAKED_ERA becomes e here or once the loop is done.
BeginEra(e) ==
    LET r == numStakedNotaries(e)
    IN /\ wpc = "idle"
       /\ wera' = e
       /\ didinit' = r.didinit
       /\ staked_pubkeys' = r.cache
       /\ IF r.pubkeys[1] = NullKey
          THEN /\ NOTARYADDRS' = [s \in Slots |-> NoAddr]
               /\ STAKED_ERA' = e
               /\ UNCHANGED <<wpc, wkeys, wn, wi>>
          ELSE /\ wpc' = "rows" /\ wkeys' = r.pubkeys /\ wn' = r.n /\ wi' = 1
               /\ STAKED_ERA' \in {STAKED_ERA, e}
               /\ UNCHANGED NOTARYADDRS
       /\ rstable' = FALSE
       /\ UNCHANGED <<NOTARY_ADDRESS, STAKED_NOTARY_ID, rpc, rkey, ri, rresult>>

\* Mutant: the node's row recorded 1-based instead of 0-based.
UpdateRowOneBased ==
    /\ wpc = "rows"
    /\ NOTARYADDRS' = [NOTARYADDRS EXCEPT ![wi] = Addr(wkeys[wi])]
    /\ IF wkeys[wi] = MyKey
       THEN NOTARY_ADDRESS' = Addr(MyKey) /\ STAKED_NOTARY_ID' = wi
       ELSE UNCHANGED <<NOTARY_ADDRESS, STAKED_NOTARY_ID>>
    /\ wi' = wi + 1
    /\ wpc' = IF wi = wn THEN "idle" ELSE "rows"
    /\ rstable' = FALSE
    /\ STAKED_ERA' = IF wi = wn THEN wera ELSE STAKED_ERA
    /\ UNCHANGED <<didinit, staked_pubkeys, wkeys, wn, rpc, rkey, ri, rresult, wera>>

\* Lines 132-140: one iteration writes row wi and, on the node's own key,
\* its address and id; the mutex is released after the last row, and
\* STAKED_ERA is the new era by then.
UpdateRow ==
    /\ wpc = "rows"
    /\ NOTARYADDRS' = [NOTARYADDRS EXCEPT ![wi] = Addr(wkeys[wi])]
    /\ IF wkeys[wi] = MyKey
       THEN NOTARY_ADDRESS' = Addr(MyKey) /\ STAKED_NOTARY_ID' = wi - 1
       ELSE UNCHANGED <<NOTARY_ADDRESS, STAKED_NOTARY_ID>>
    /\ wi' = wi + 1
    /\ wpc' = IF wi = wn THEN "idle" ELSE "rows"
    /\ rstable' = FALSE
    /\ STAKED_ERA' = IF wi = wn THEN wera ELSE STAKED_ERA
    /\ UNCHANGED <<didinit, staked_pubkeys, wkeys, wn, rpc, rkey, ri, rresult, wera>>

(***************************************************************************)
(* The caller of StakedNotaryID                                            *)
(***************************************************************************)

\* Line 70: in a gap the call returns -1 at once; otherwise the loop starts.
LookupStart(k) ==
    /\ rpc = "idle"
    /\ rkey' = k
    /\ IF STAKED_ERA = 0
       THEN rpc' = "done" /\ rresult' = -1
       ELSE rpc' = "scan" /\ UNCHANGED rresult
    /\ ri' = 0
    /\ rstable' = (wpc = "idle")
    /\ UNCHANGED <<vars, wpc, wkeys, wn, wi, wera>>

\* Mutant: the loop runs over every row of the table.
LookupStepAllRows ==
    /\ rpc = "scan"
    /\ IF ri >= Cardinality(Slots)
       THEN rpc' = "done" /\ rresult' = -1 /\ UNCHANGED ri
       ELSE IF NOTARYADDRS[ri + 1] = Addr(rkey)
            THEN rpc' = "done" /\ rresult' = ri /\ UNCHANGED ri
            ELSE ri' = ri + 1 /\ UNCHANGED <<rpc, rresult>>
    /\ UNCHANGED <<vars, wpc, wkeys, wn, wi, rkey, rstable, wera>>

\* Lines 72-76: one iteration, the bound num_notaries_STAKED[STAKED_ERA-1]
\* read afresh, then the strcmp of row i.  Once STAKED_ERA is 0 the bound
\* is read at index -1, before the array: any count.
LoopBounds == IF STAKED_ERA = 0 THEN 0..Cardinality(Slots)
              ELSE {Len(EraKeys[STAKED_ERA])}

LookupStep ==
    /\ rpc = "scan"
    /\ \E bound \in LoopBounds :
         IF ri >= bound
         THEN rpc' = "done" /\ rresult' = -1 /\ UNCHANGED ri
         ELSE IF NOTARYADDRS[ri + 1] = Addr(rkey)
              THEN rpc' = "done" /\ rresult' = ri /\ UNCHANGED ri
              ELSE ri' = ri + 1 /\ UNCHANGED <<rpc, rresult>>
    /\ UNCHANGED <<vars, wpc, wkeys, wn, wi, rkey, rstable, wera>>

\* The caller takes the result.
LookupReturn ==
    /\ rpc = "done"
    /\ rpc' = "idle"
    /\ UNCHANGED <<vars, wpc, wkeys, wn, wi, rkey, ri, rresult, rstable, wera>>

LookupNext ==
    \/ \E e \in Eras : BeginEra(e)
    \/ UpdateRow
    \/ \E k \in LookupKeys : LookupStart(k)
    \/ LookupStep
    \/ LookupReturn

LookupSpec == LookupInit /\ [][LookupNext]_allvars

(***************************************************************************)
(* Properties                                                              *)
(***************************************************************************)

\* A StakedNotaryID call during which the era thread neither changed era
\* nor wrote a row returns the key's row in the current era's list, or -1
\* when the key is not a notary of it, although the loop reads the bound
\* and the rows one by one without staked_mutex.
StableLookupMatchesEra ==
    rpc = "done" /\ rstable => rresult = EraRow(rkey)
=============================================================================
