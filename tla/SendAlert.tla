------------------------------ MODULE SendAlert ------------------------------
(***************************************************************************)
(* ThreadSendAlert of src/src/sendalert.cpp: a thread started at boot that *)
(* builds, signs and checks an alert, waits for a peer and relays the      *)
(* alert to the connected peers, beside the network thread connecting and *)
(* disconnecting peers and the node requesting shutdown.                  *)
(*                                                                         *)
(* Building, signing and the serialisation round trip read no shared      *)
(* state (mapArgs and the chain parameters are fixed after start-up), so  *)
(* lines 73-163 are one step.  The wait loop reads vNodes.size() and       *)
(* ShutdownRequested() without cs_vNodes, one check per step; the send    *)
(* loop holds cs_vNodes, under which peers are neither added nor removed, *)
(* and is one step.  A key is a model value; the public key of a private  *)
(* key is PubOf[priv].  CAlert::RelayTo (alert.cpp, not in this tree)     *)
(* accepts or declines each peer: a choice.                               *)
(***************************************************************************)
EXTENDS Naturals, FiniteSets

CONSTANTS
    Nodes,          \* peers that may connect
    Networks,       \* values of NetworkIDString()
    PrivKey,        \* pszPrivKey of alertkeys.h
    TestNetPrivKey, \* pszTestNetPrivKey of alertkeys.h
    PubOf,          \* the public key of each valid private key
    AlertKey        \* network -> CChainParams::AlertKey()

VARIABLES
    args,       \* the options of mapArgs among -sendalert, -printalert
    networkID,  \* chainparams.NetworkIDString()
    pc,         \* where ThreadSendAlert is
    signer,     \* the private key alert2 was signed with
    vNodes,     \* connected peers
    shutdown,   \* ShutdownRequested()
    relayed,    \* peers the alert was pushed to
    nSent       \* the count the thread logs

vars == <<args, networkID, pc, signer, vNodes, shutdown, relayed, nSent>>

Options == {"-sendalert", "-printalert"}
NoKey == "NoKey"

\* CKey::SetPrivKey succeeds for a well-formed key only.
ValidKey(k) == k \in DOMAIN PubOf

AlertInit ==
    /\ args \in SUBSET Options
    /\ networkID \in Networks
    /\ pc = "start"
    /\ signer = NoKey
    /\ vNodes = {}
    /\ shutdown = FALSE
    /\ relayed = {}
    /\ nSent = 0

(***************************************************************************)
(* The alert thread                                                        *)
(***************************************************************************)

\* Lines 73-163: no option, a key SetPrivKey rejects, a failed Sign or a
\* signature the network's alert key does not verify end the thread; with
\* -printalert alone it ends after printing.  The key is the test-net one
\* only when the network is "test".
Prepare ==
    LET priv == IF networkID = "test" THEN TestNetPrivKey ELSE PrivKey
    IN /\ pc = "start"
       /\ IF args = {} \/ ~ValidKey(priv)
          THEN pc' = "done" /\ UNCHANGED signer
          ELSE \E signed \in BOOLEAN :
                 /\ signer' = IF signed THEN priv ELSE NoKey
                 /\ pc' = IF signed /\ PubOf[priv] = AlertKey[networkID]
                                    /\ "-sendalert" \in args
                          THEN "wait" ELSE "done"
       /\ UNCHANGED <<args, networkID, vNodes, shutdown, relayed, nSent>>

\* Mutant: the wait loop waits for a peer only, never for shutdown.
WaitNoShutdown ==
    /\ pc = "wait"
    /\ vNodes # {}
    /\ pc' = "recheck"
    /\ UNCHANGED <<args, networkID, signer, vNodes, shutdown, relayed, nSent>>

\* Lines 164-165: one test of the loop; it ends once a peer is connected
\* or shutdown is requested (otherwise MilliSleep and test again).
Wait ==
    /\ pc = "wait"
    /\ vNodes # {} \/ shutdown
    /\ pc' = "recheck"
    /\ UNCHANGED <<args, networkID, signer, vNodes, shutdown, relayed, nSent>>

\* Lines 166-167: ShutdownRequested() read again after the loop.
Recheck ==
    /\ pc = "recheck"
    /\ pc' = IF shutdown THEN "done" ELSE "send"
    /\ UNCHANGED <<args, networkID, signer, vNodes, shutdown, relayed, nSent>>

\* Lines 170-183: under cs_vNodes, RelayTo every connected peer; those
\* that accept get the alert and are counted.
Send ==
    /\ pc = "send"
    /\ \E accepted \in SUBSET vNodes :
         /\ relayed' = relayed \cup accepted
         /\ nSent' = Cardinality(accepted)
    /\ pc' = "done"
    /\ UNCHANGED <<args, networkID, signer, vNodes, shutdown>>

ThreadStep == Prepare \/ Wait \/ Recheck \/ Send

(***************************************************************************)
(* The rest of the node                                                    *)
(***************************************************************************)

\* The network thread adds or drops a peer under cs_vNodes.
PeerConnect(n) ==
    /\ n \notin vNodes
    /\ vNodes' = vNodes \cup {n}
    /\ UNCHANGED <<args, networkID, pc, signer, shutdown, relayed, nSent>>

PeerDisconnect(n) ==
    /\ n \in vNodes
    /\ vNodes' = vNodes \ {n}
    /\ UNCHANGED <<args, networkID, pc, signer, shutdown, relayed, nSent>>

\* StartShutdown: the request is never withdrawn.
RequestShutdown ==
    /\ ~shutdown
    /\ shutdown' = TRUE
    /\ UNCHANGED <<args, networkID, pc, signer, vNodes, relayed, nSent>>

AlertNext ==
    \/ ThreadStep
    \/ \E n \in Nodes : PeerConnect(n) \/ PeerDisconnect(n)
    \/ RequestShutdown

\* The alert thread is an OS thread of its own: a step it can take stays
\* takeable (shutdown is never withdrawn) and is eventually taken.  The
\* network and the shutdown request get no fairness.
AlertSpec == AlertInit /\ [][AlertNext]_vars /\ WF_vars(ThreadStep)

(***************************************************************************)
(* Properties                                                              *)
(***************************************************************************)

\* Once shutdown is requested, the alert thread returns, whether it is
\* waiting for a first peer or about to send: the wait loop and the test
\* after it both read ShutdownRequested().
ShutdownEndsThread == shutdown ~> (pc = "done")
=============================================================================
