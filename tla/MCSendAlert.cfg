CONSTANTS
    Nodes = {n1, n2}
    Networks = {"main", "test", "regtest"}
    PrivKey = "kMain"
    TestNetPrivKey = ""
    PubOf <- MCPubOf
    AlertKey <- MCAlertKey
SPECIFICATION AlertSpec
PROPERTIES
    ShutdownEndsThread
