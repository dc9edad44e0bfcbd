CONSTANTS
    Symbols <- MCReaderSymbols
    CCids <- MCCCids
    MoMs <- MCMoMs
    ScanLimit = 3
    OwnCap = 2
    Null = Null
    BlockContents <- MCReaderBlockContents
    MaxHeight = 3
    SourceProofs <- MCSourceProofs
    Offsets <- MCReaderOffsets
    AssetChain <- MCAssetChain
    ThisSymbol <- A
    Mempool <- MCMempool
SPECIFICATION ReaderSpec
INVARIANT NoNullDereference
