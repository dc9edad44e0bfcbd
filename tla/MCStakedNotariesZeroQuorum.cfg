CONSTANTS
    EraKeys <- MCEraKeys
    MyKey = "K1"
    Slots = {1, 2, 3, 4, 5}
    PrevTxs <- MCPrevTxs
    Txs <- MCTxs
    Garbage <- MCGarbage
SPECIFICATION Spec
INVARIANT ZeroQuorumRejects
