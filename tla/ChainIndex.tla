----------------------------- MODULE ChainIndex -----------------------------
(***************************************************************************)
(* The block index and the active chain of src/src/chain.cpp.              *)
(*                                                                         *)
(* Block index entries (CBlockIndex) live in an arena of integer handles:  *)
(* pprev, nHeight and pskip are functions of the handle.  The active chain *)
(* (CChain::vChain) is a sequence of handles, slot h+1 holding the entry   *)
(* at height h.  Every operation here asserts cs_main (AssertLockHeld), so *)
(* each is one atomic step.                                                *)
(***************************************************************************)
EXTENDS Integers, Sequences, FiniteSets, Bitwise

CONSTANTS
    MaxBlocks,      \* number of block index entries the arena can hold
    InitChainLength,\* length of the chain already connected in Init
    NoBlock         \* the null CBlockIndex pointer

ASSUME InitChainLength \in 1..MaxBlocks

Block == 1..MaxBlocks
BlockOrNull == Block \cup {NoBlock}

VARIABLES
    allocated,  \* entries present in the block index
    pprev,      \* CBlockIndex::pprev
    nHeight,    \* CBlockIndex::nHeight
    pskip,      \* CBlockIndex::pskip
    vChain,     \* CChain::vChain
    lastWrites  \* heights of vChain written by the latest SetTip (history)

vars == <<allocated, pprev, nHeight, pskip, vChain, lastWrites>>

(***************************************************************************)
(* Skip list (chain.cpp 130-180)                                           *)
(***************************************************************************)

\* Turn the lowest 1 bit of n into 0.
InvertLowestOne(n) == n & (n - 1)

\* The height the pskip pointer of an entry at this height jumps back to.
GetSkipHeight(height) ==
    IF height < 2 THEN 0
    ELSE IF height % 2 = 1
         THEN InvertLowestOne(InvertLowestOne(height - 1)) + 1
         ELSE InvertLowestOne(height)

\* CBlockIndex::GetAncestor over an arena given by pp (pprev) and ps (pskip):
\* the walk that follows pskip when it does not overshoot and pprev's skip
\* is no better, and pprev otherwise.
RECURSIVE AncestorWalk(_, _, _, _, _)
AncestorWalk(pp, ps, walk, heightWalk, height) ==
    IF heightWalk > height /\ walk # NoBlock
    THEN LET heightSkip     == GetSkipHeight(heightWalk)
             heightSkipPrev == GetSkipHeight(heightWalk - 1)
         IN IF /\ ps[walk] # NoBlock
               /\ \/ heightSkip = height
                  \/ /\ heightSkip > height
                     /\ ~(heightSkipPrev < heightSkip - 2 /\ heightSkipPrev >= height)
            THEN AncestorWalk(pp, ps, ps[walk], heightSkip, height)
            ELSE AncestorWalk(pp, ps, pp[walk], heightWalk - 1, height)
    ELSE walk

GetAncestorIn(pp, hgt, ps, b, height) ==
    IF height > hgt[b] \/ height < 0 THEN NoBlock
    ELSE AncestorWalk(pp, ps, b, hgt[b], height)

GetAncestor(b, height) == GetAncestorIn(pprev, nHeight, pskip, b, height)

BuildSkip(pp, hgt, ps, p, h) ==
    IF p = NoBlock THEN NoBlock ELSE GetAncestorIn(pp, hgt, ps, p, GetSkipHeight(h))

(***************************************************************************)
(* Active chain (chain.cpp 35-86)                                          *)
(***************************************************************************)

\* Mutant: resize only ever grows the vector.
ResizeGrowOnly(seq, n) ==
    [i \in 1..IF n > Len(seq) THEN n ELSE Len(seq) |->
        IF i <= Len(seq) THEN seq[i] ELSE NoBlock]

\* Mutant: resize to one slot more than asked.
ResizeOneMore(seq, n) == [i \in 1..n + 1 |-> IF i <= Len(seq) THEN seq[i] ELSE NoBlock]

\* vChain.resize(n): truncate, or pad with null entries.
Resize(seq, n) == [i \in 1..n |-> IF i <= Len(seq) THEN seq[i] ELSE NoBlock]

\* Mutant: the loop never stops early and rewrites the whole path.
RECURSIVE SetTipWalkFull(_, _, _)
SetTipWalkFull(chain, p, written) ==
    IF p # NoBlock
    THEN SetTipWalkFull([chain EXCEPT ![nHeight[p] + 1] = p], pprev[p],
                        written \cup {nHeight[p]})
    ELSE [chain |-> chain, written |-> written]

\* The loop of CChain::SetTip: write pindex into its slot and step to pprev
\* until the slot already holds the entry.  Returns the chain and the
\* heights written.
RECURSIVE SetTipWalk(_, _, _)
SetTipWalk(chain, p, written) ==
    IF p # NoBlock /\ chain[nHeight[p] + 1] # p
    THEN SetTipWalk([chain EXCEPT ![nHeight[p] + 1] = p], pprev[p],
                    written \cup {nHeight[p]})
    ELSE [chain |-> chain, written |-> written]

Height == Len(vChain) - 1
Tip == IF vChain = <<>> THEN NoBlock ELSE vChain[Len(vChain)]

\* CChain::Contains
Contains(b) == nHeight[b] <= Height /\ vChain[nHeight[b] + 1] = b

\* CChain::FindFork: clamp to the active height, then walk pprev until the
\* entry is on the active chain.
RECURSIVE ForkWalk(_)
ForkWalk(p) == IF p # NoBlock /\ ~Contains(p) THEN ForkWalk(pprev[p]) ELSE p

\* Mutant: the clamp goes one height below the active tip.
FindForkClampLow(b) ==
    ForkWalk(IF nHeight[b] > Height - 1 THEN GetAncestor(b, Height - 1) ELSE b)

FindFork(b) ==
    ForkWalk(IF nHeight[b] > Height THEN GetAncestor(b, Height) ELSE b)

\* Mutant: the std::max(..., 0) clamp of the next height is dropped; a
\* negative height reads NULL from both chainActive[] and GetAncestor.
RECURSIVE LocatorWalkNoClamp(_, _, _)
LocatorWalkNoClamp(p, nStep, have) ==
    IF p = NoBlock THEN have
    ELSE LET have1  == Append(have, p)
             h      == nHeight[p] - nStep
             next   == IF h < 0 THEN NoBlock
                       ELSE IF Contains(p) THEN vChain[h + 1] ELSE GetAncestor(p, h)
             nStep1 == IF Len(have1) > 10 THEN nStep * 2 ELSE nStep
         IN IF nHeight[p] = 0 THEN have1 ELSE LocatorWalkNoClamp(next, nStep1, have1)

\* CChain::GetLocator: exponentially sparser hashes back to genesis; the
\* step doubles once more than 10 hashes are collected.
RECURSIVE LocatorWalk(_, _, _)
LocatorWalk(p, nStep, have) ==
    IF p = NoBlock THEN have
    ELSE LET have1  == Append(have, p)
             h      == IF nHeight[p] - nStep > 0 THEN nHeight[p] - nStep ELSE 0
             next   == IF Contains(p) THEN vChain[h + 1] ELSE GetAncestor(p, h)
             nStep1 == IF Len(have1) > 10 THEN nStep * 2 ELSE nStep
         IN IF nHeight[p] = 0 THEN have1 ELSE LocatorWalk(next, nStep1, have1)

GetLocator(b) == LocatorWalk(IF b = NoBlock THEN Tip ELSE b, 1, <<>>)

(***************************************************************************)
(* Actions                                                                 *)
(***************************************************************************)

\* A linear chain of InitChainLength entries connected one by one, each
\* with its skip pointer built by BuildSkip as it was attached.
InitPrev == [b \in Block |-> IF b \in 2..InitChainLength THEN b - 1 ELSE NoBlock]
InitHeight == [b \in Block |-> IF b <= InitChainLength THEN b - 1 ELSE 0]
RECURSIVE InitSkips(_)
InitSkips(n) ==
    IF n = 0 THEN [b \in Block |-> NoBlock]
    ELSE LET ps == InitSkips(n - 1)
         IN [ps EXCEPT ![n] = BuildSkip(InitPrev, InitHeight, ps, InitPrev[n], n - 1)]

Init ==
    /\ allocated = 1..InitChainLength
    /\ pprev = InitPrev
    /\ nHeight = InitHeight
    /\ pskip = InitSkips(InitChainLength)
    /\ vChain = [i \in 1..InitChainLength |-> i]
    /\ lastWrites = {}

\* A new entry is attached below parent p and its skip pointer is built
\* (AddToBlockIndex followed by CBlockIndex::BuildSkip).
ConnectBlock(p) ==
    LET b == Cardinality(allocated) + 1
        h == nHeight[p] + 1
    IN /\ b \in Block
       /\ allocated' = allocated \cup {b}
       /\ pprev' = [pprev EXCEPT ![b] = p]
       /\ nHeight' = [nHeight EXCEPT ![b] = h]
       /\ pskip' = [pskip EXCEPT ![b] = BuildSkip(pprev, nHeight, pskip, p, h)]
       /\ UNCHANGED <<vChain, lastWrites>>

\* CChain::SetTip(pindex) for a non-null pindex.
SetTip(b) ==
    LET r == SetTipWalk(Resize(vChain, nHeight[b] + 1), b, {})
    IN /\ vChain' = r.chain
       /\ lastWrites' = r.written
       /\ UNCHANGED <<allocated, pprev, nHeight, pskip>>

\* CChain::SetTip(NULL) clears the active chain.
SetTipNull ==
    /\ vChain' = <<>>
    /\ lastWrites' = {}
    /\ UNCHANGED <<allocated, pprev, nHeight, pskip>>

Next ==
    \/ \E p \in allocated : ConnectBlock(p)
    \/ \E b \in allocated : SetTip(b)
    \/ SetTipNull

Spec == Init /\ [][Next]_vars

(***************************************************************************)
(* Properties                                                              *)
(***************************************************************************)

\* Reference oracle: the ancestor at a height by walking pprev one step at
\* a time.
RECURSIVE NaiveAncestor(_, _)
NaiveAncestor(b, height) ==
    IF b = NoBlock \/ nHeight[b] = height THEN b ELSE NaiveAncestor(pprev[b], height)

TypeOK ==
    /\ allocated \subseteq Block
    /\ pprev \in [Block -> BlockOrNull]
    /\ pskip \in [Block -> BlockOrNull]
    /\ nHeight \in [Block -> Nat]
    /\ vChain \in [1..Len(vChain) -> Block]
    /\ lastWrites \subseteq Nat

AC == INSTANCE ActiveChain WITH known <- allocated, parent <- pprev, active <- vChain

\* CChain implements its abstract specification: after any sequence of
\* SetTip calls, however the tips jump between branches, the vChain that
\* SetTip's resize and early-stopping back-walk leave behind is exactly the
\* path from genesis to the new tip that a from-scratch recomputation
\* gives, and no other operation touches it.
ImplementsActiveChain == AC!Spec

\* FindFork returns the highest entry that is both an ancestor of b and on
\* the active chain (null only when the active chain is empty).
FindForkIsHighestCommon ==
    \A b \in allocated :
        LET common == {h \in 0..nHeight[b] :
                          h <= Height /\ vChain[h + 1] = NaiveAncestor(b, h)}
        IN FindFork(b) = IF common = {} THEN NoBlock
                         ELSE NaiveAncestor(b, CHOOSE h \in common : \A g \in common : g <= h)

\* The locator of any entry starts at it, lists ancestors of it at strictly
\* decreasing heights and always ends with the genesis entry.
LocatorEndsAtGenesis ==
    \A b \in allocated :
        LET loc == GetLocator(b)
        IN /\ loc[1] = b
           /\ nHeight[loc[Len(loc)]] = 0
           /\ \A i \in 1..Len(loc) : loc[i] # NoBlock /\ loc[i] = NaiveAncestor(b, nHeight[loc[i]])
           /\ \A i \in 1..Len(loc) - 1 : nHeight[loc[i + 1]] < nHeight[loc[i]]

\* SetTip rewrites only the diverging segment: the slots written are
\* exactly the heights above the fork between the old and the new tip.
SetTipWritesOnlyDivergence ==
    [][\A b \in allocated :
          SetTip(b) =>
            LET fork == {h \in 0..nHeight[b] :
                            h <= Height /\ vChain[h + 1] = NaiveAncestor(b, h)}
                top  == IF fork = {} THEN -1 ELSE CHOOSE h \in fork : \A g \in fork : g <= h
            IN lastWrites' = top + 1..nHeight[b]
      ]_vars
=============================================================================
