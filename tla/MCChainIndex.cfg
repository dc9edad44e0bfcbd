CONSTANTS
    MaxBlocks <- MCMaxBlocks
    InitChainLength <- MCInitChainLength
    NoBlock = NoBlock
SPECIFICATION Spec
INVARIANTS
    TypeOK
    
    FindForkIsHighestCommon
    LocatorEndsAtGenesis
PROPERTIES
    SetTipWritesOnlyDivergence
    ImplementsActiveChain
