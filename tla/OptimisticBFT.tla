---------------------------- MODULE OptimisticBFT ----------------------------
(***************************************************************************)
(* The engine of consensus/optimistic_bft.rs on the leader of epoch 0, the *)
(* only epoch there is: nothing writes epoch.  The leader executes its     *)
(* fast proposals as it makes them and hears every proposal from its own   *)
(* channel, whose handler would execute it once more.  quick_verify asks   *)
(* for an epoch above 0, so no handler passes it: no vote is cast, nothing *)
(* is committed or rolled back; the confidence stays at one half, so       *)
(* nothing is predicted.                                                   *)
(***************************************************************************)
EXTENDS Integers, Sequences, SequencesExt

CONSTANTS ExecutedCap,    \* the uncommitted blocks kept (10)
          BftSlots,       \* the capacity of the message channel (1000)
          MaxProposed     \* bound: proposals

ASSUME BftAssumption == ExecutedCap \in Nat \ {0}

VARIABLES
    stable,        \* network_conditions: stability_score > 0.8 and latency < 20
    fastEnabled,   \* fast_path_enabled
    executedBlocks,\* executed_blocks
    bftMsgs,       \* the message channel: the proposals in it
    outgoing,      \* the main loop: the proposal it is about to broadcast, if any
    proposed       \* history: how many proposals were made; they are numbered

bftVars == <<stable, fastEnabled, executedBlocks, bftMsgs, outgoing, proposed>>

BftInit ==
    /\ stable = TRUE /\ fastEnabled = TRUE /\ executedBlocks = <<>>
    /\ bftMsgs = <<>> /\ outgoing = <<>> /\ proposed = 0

UsesFastPath == stable /\ fastEnabled

(* monitor_network draws a latency of 10 to 29 ms and a loss of at most 1%: *)
(* the score is above 0.69, so the fast path is never switched off.         *)
MonitorNetwork ==
    /\ stable' \in BOOLEAN
    /\ fastEnabled' = (stable' \/ fastEnabled)
    /\ UNCHANGED <<executedBlocks, bftMsgs, outgoing, proposed>>

(* optimistic_execute *)
OptimisticExecute(s, b) ==
    LET t == Append(s, b) IN IF Len(t) > ExecutedCap THEN Tail(t) ELSE t

ProposeFast ==
    /\ outgoing = <<>> /\ UsesFastPath
    /\ proposed' = proposed + 1
    /\ executedBlocks' = OptimisticExecute(executedBlocks, proposed')
    /\ outgoing' = <<[kind |-> "fast", block |-> proposed']>>
    /\ UNCHANGED <<stable, fastEnabled, bftMsgs>>

ProposeNormal ==
    /\ outgoing = <<>> /\ ~UsesFastPath
    /\ proposed' = proposed + 1
    /\ outgoing' = <<[kind |-> "normal", block |-> proposed']>>
    /\ UNCHANGED <<stable, fastEnabled, executedBlocks, bftMsgs>>

Broadcast ==
    /\ outgoing # <<>> /\ Len(bftMsgs) < BftSlots
    /\ bftMsgs' = bftMsgs \o outgoing
    /\ outgoing' = <<>>
    /\ UNCHANGED <<stable, fastEnabled, executedBlocks, proposed>>

QuickVerify_FirstEpoch(epoch) == epoch >= 0
QuickVerify(epoch) == epoch > 0

(* message_loop with handle_fast_proposal or handle_normal_proposal; the    *)
(* vote after the execution, with the commit or rollback it leads to, is    *)
(* never reached.                                                           *)
HearsProposal ==
    /\ bftMsgs # <<>>
    /\ executedBlocks' = IF QuickVerify(0)
                         THEN OptimisticExecute(executedBlocks, Head(bftMsgs).block)
                         ELSE executedBlocks
    /\ bftMsgs' = Tail(bftMsgs)
    /\ UNCHANGED <<stable, fastEnabled, outgoing, proposed>>

BftNext ==
    \/ MonitorNetwork
    \/ proposed < MaxProposed /\ (ProposeFast \/ ProposeNormal)
    \/ Broadcast \/ HearsProposal

BftSpec == BftInit /\ [][BftNext]_bftVars

-----------------------------------------------------------------------------
(* The proposals that are on their way from the main loop to the message    *)
(* loop, and the executions that the cap has pushed out.                    *)
UnderWay == Range(bftMsgs) \cup Range(outgoing)

PushedOut(b) ==
    Len(executedBlocks) = ExecutedCap /\ \A i \in DOMAIN executedBlocks : executedBlocks[i] > b

(* Whatever path the network makes the main loop take and however far the   *)
(* message loop lags behind, the leader executes a block once and in the    *)
(* order of the proposals, although it hears what it has executed: a fast   *)
(* proposal under way has been executed, and is kept unless that many later *)
(* ones were; a normal one has not been executed.                           *)
ExecutedOnce ==
    /\ \A i, j \in DOMAIN executedBlocks : i < j => executedBlocks[i] < executedBlocks[j]
    /\ \A m \in UnderWay :
          IF m.kind = "fast"
          THEN m.block \in Range(executedBlocks) \/ PushedOut(m.block)
          ELSE m.block \notin Range(executedBlocks)
=============================================================================
