CONSTANTS
    Symbols <- MCReaderSymbols
    CCids <- MCCCids
    MoMs <- MCMoMs
    ScanLimit = 2
    OwnCap = 2
    Null = Null
    BlockContents <- MCReaderBlockContents
    MaxHeight = 2
    SourceProofs <- MCSourceProofs
    Offsets <- MCReaderOffsets
    AssetChain <- MCAssetChain
    ThisSymbol <- A
    Mempool <- MCMempool
SPECIFICATION ReaderSpec
PROPERTIES
    CallReturns
INVARIANTS
    ReaderTypeOK
