-------------------------------- MODULE MCNode -------------------------------
(***************************************************************************)
(* The parts of a node that share no state with each other: its consensus  *)
(* engines, its snapshots, its trie, its network with the transaction pool *)
(* and its keys.  A behaviour exercises one.                               *)
(***************************************************************************)
EXTENDS Tendermint, HotStuff, OptimisticBFT, Snapshots, MerkleTrie, Network, KeyManagement, TLC

CONSTANTS q1, q2, q3

VARIABLE focus    \* the component that this behaviour exercises

mcVars == <<tmVars, hsVars, bftVars, snapVars, trieVars, netVars, keyVars, walletVars, focus>>

MCInit ==
    /\ TmInit /\ HsInit /\ BftInit /\ SnapInit /\ TrieInit
    /\ NetInit /\ KeyInit /\ WalletInit
    /\ focus \in {"tendermint", "hotstuff", "bft", "snapshots", "trie", "network", "keys", "wallet"}

MCNext ==
    \/ /\ focus = "tendermint" /\ TmNext
       /\ UNCHANGED <<hsVars, bftVars, snapVars, trieVars, netVars, keyVars, walletVars, focus>>
    \/ /\ focus = "hotstuff" /\ HsNext
       /\ UNCHANGED <<tmVars, bftVars, snapVars, trieVars, netVars, keyVars, walletVars, focus>>
    \/ /\ focus = "bft" /\ BftNext
       /\ UNCHANGED <<tmVars, hsVars, snapVars, trieVars, netVars, keyVars, walletVars, focus>>
    \/ /\ focus = "snapshots" /\ SnapNext
       /\ UNCHANGED <<tmVars, hsVars, bftVars, trieVars, netVars, keyVars, walletVars, focus>>
    \/ /\ focus = "trie" /\ TrieNext
       /\ UNCHANGED <<tmVars, hsVars, bftVars, snapVars, netVars, keyVars, walletVars, focus>>
    \/ /\ focus = "network" /\ NetNext
       /\ UNCHANGED <<tmVars, hsVars, bftVars, snapVars, trieVars, keyVars, walletVars, focus>>
    \/ /\ focus = "keys" /\ KeyNext
       /\ UNCHANGED <<tmVars, hsVars, bftVars, snapVars, trieVars, netVars, walletVars, focus>>
    \/ /\ focus = "wallet" /\ WalletNext
       /\ UNCHANGED <<tmVars, hsVars, bftVars, snapVars, trieVars, netVars, keyVars, focus>>

MCSpec == MCInit /\ [][MCNext]_mcVars

(* Two transactions of one account and one of another. *)
MCSenderOf == (q1 :> 1) @@ (q2 :> 1) @@ (q3 :> 2)

MCTrieKeys == << <<0, 0>>, <<0, 1>>, <<1, 0>> >>
=============================================================================
