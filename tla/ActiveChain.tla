---------------------------- MODULE ActiveChain -----------------------------
(***************************************************************************)
(* What CChain promises its callers, without the incremental algorithm:   *)
(* the block index is a tree that only grows, and the active chain is at  *)
(* every moment either empty or the whole path from the genesis entry to  *)
(* the entry last passed to SetTip, recomputed from scratch.  ChainIndex  *)
(* is checked to implement this specification.                            *)
(***************************************************************************)
EXTENDS Sequences

CONSTANTS
    Block,      \* block index handles
    NoBlock     \* the null pointer

VARIABLES
    known,      \* entries in the block index
    parent,     \* the parent of each entry
    active      \* the active chain, genesis first

\* The path from the root of the tree to b.
RECURSIVE Path(_)
Path(b) == IF parent[b] = NoBlock THEN <<b>> ELSE Append(Path(parent[b]), b)

Init ==
    /\ known \in SUBSET Block
    /\ parent \in [Block -> Block \cup {NoBlock}]
    /\ \/ active = <<>>
       \/ \E t \in known : active = Path(t)

\* A new entry b is attached below a known entry p.
AddBlock(p, b) ==
    /\ p \in known
    /\ b \in Block \ known
    /\ known' = known \cup {b}
    /\ parent' = [parent EXCEPT ![b] = p]
    /\ UNCHANGED active

\* The active chain becomes the path to t.
SetTip(t) ==
    /\ t \in known
    /\ active' = Path(t)
    /\ UNCHANGED <<known, parent>>

\* The active chain is cleared.
Clear ==
    /\ active' = <<>>
    /\ UNCHANGED <<known, parent>>

Next ==
    \/ \E p, b \in Block : AddBlock(p, b)
    \/ \E t \in Block : SetTip(t)
    \/ Clear

Spec == Init /\ [][Next]_<<known, parent, active>>
=============================================================================
