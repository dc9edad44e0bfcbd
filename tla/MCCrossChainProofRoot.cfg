CONSTANTS
    Symbols <- MCSymbols
    CCids <- MCCCids
    MoMs <- MCMoMs
    ScanLimit = 3
    OwnCap = 2
    Null = Null
    BlockContents <- MCBlockContents
    MaxHeight = 4
    SourceProofs <- MCSourceProofs
    Offsets <- MCOffsets
    AssetChain <- MCAssetChain
    ThisSymbol <- A
    Mempool <- MCMempool
SPECIFICATION Spec
INVARIANT ProofRootNullOnlyWithoutOwn
