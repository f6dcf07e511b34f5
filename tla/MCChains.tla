------------------------------- MODULE MCChains ------------------------------
(***************************************************************************)
(* The components between chains: cross_chain and layer2.  The bridge's    *)
(* transfers reach the relayer as ids only, and the others share no state, *)
(* so a behaviour exercises one of them.                                   *)
(***************************************************************************)
EXTENDS Bridge, Relayer, IBC, LightClient, Layer2

CONSTANTS q1, q2, q3, m1, m2, ca, cb, cc, g1, g2, g3, g4, g5, g6, NoHeader

VARIABLE focus    \* the component that this behaviour exercises

mcVars == <<bridgeVars, relayVars, ibcVars, lightVars, rollupVars, daVars, focus>>

MCInit ==
    /\ BridgeInit /\ RelayInit /\ IBCInit /\ LightInit /\ RollupInit /\ DAInit
    /\ focus \in {"bridge", "relayer", "ibc", "light", "rollup", "da"}

MCNext ==
    \/ /\ focus = "bridge" /\ BridgeNext
       /\ UNCHANGED <<relayVars, ibcVars, lightVars, rollupVars, daVars, focus>>
    \/ /\ focus = "relayer" /\ RelayNext
       /\ UNCHANGED <<bridgeVars, ibcVars, lightVars, rollupVars, daVars, focus>>
    \/ /\ focus = "ibc" /\ IBCNext
       /\ UNCHANGED <<bridgeVars, relayVars, lightVars, rollupVars, daVars, focus>>
    \/ /\ focus = "light" /\ LightNext
       /\ UNCHANGED <<bridgeVars, relayVars, ibcVars, rollupVars, daVars, focus>>
    \/ /\ focus = "rollup" /\ RollupNext
       /\ UNCHANGED <<bridgeVars, relayVars, ibcVars, lightVars, daVars, focus>>
    \/ /\ focus = "da" /\ DANext
       /\ UNCHANGED <<bridgeVars, relayVars, ibcVars, lightVars, rollupVars, focus>>

MCSpec == MCInit /\ [][MCNext]_mcVars

MCTransferOf == (q1 :> m1) @@ (q2 :> m1) @@ (q3 :> m2)
MCChainOf == (ca :> 1) @@ (cb :> 2) @@ (cc :> 1)

(* g2 and g3 fork on g1, g4 extends g2, g5 comes too late after g2 and g6   *)
(* follows g4 without a quorum.                                             *)
MCHeightOf == (g1 :> 7) @@ (g2 :> 8) @@ (g3 :> 8) @@ (g4 :> 9) @@ (g5 :> 9) @@ (g6 :> 10)
MCTimeOf == (g1 :> 5) @@ (g2 :> 6) @@ (g3 :> 4) @@ (g4 :> 7) @@ (g5 :> 9) @@ (g6 :> 8)
MCPreviousOf == (g1 :> NoHeader) @@ (g2 :> g1) @@ (g3 :> g1) @@ (g4 :> g2) @@ (g5 :> g2) @@ (g6 :> g4)
MCPowerOf == [h \in Headers |-> IF h = g6 THEN 0 ELSE 1000]

(* The rollup's transactions and calls differ in their names only. *)
ChainsSymmetry ==
    Permutations(RollupTxs \ InstantTxs) \cup Permutations(BatchCalls) \cup Permutations(ChallengeCalls)
=============================================================================
