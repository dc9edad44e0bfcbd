CONSTANTS
    EraKeys <- MCEraKeys
    MyKey = "K1"
    LookupKeys = {"K1", "K2"}
    Slots = {1, 2, 3, 4, 5}
    PrevTxs <- MCPrevTxs
    Txs <- MCTxs
    Garbage <- MCGarbage
SPECIFICATION LookupSpec
INVARIANTS
    TypeOK
    NotarySignaturesDistinct
    StableLookupMatchesEra
