----------------------------- MODULE MCSendAlert -----------------------------
(* Model for SendAlert: two peers; the main, test and regtest networks.  *)
(* The main-net private key is well formed and matches main's alert key; *)
(* the test-net key is left empty (SetPrivKey fails), and regtest, which *)
(* signs with the main-net key, has an alert key of its own.             *)
EXTENDS SendAlert

MCPubOf == [k \in {"kMain"} |-> "pMain"]
MCAlertKey == [n \in {"main", "test", "regtest"} |->
                  IF n = "main" THEN "pMain" ELSE IF n = "test" THEN "pTest" ELSE "pReg"]
=============================================================================
