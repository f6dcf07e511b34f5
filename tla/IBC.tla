--------------------------------- MODULE IBC ---------------------------------
(***************************************************************************)
(* The packet handlers of cross_chain/ibc.rs, one per chain, joined by a   *)
(* network that delivers packets and acknowledgements late, in any order,  *)
(* more than once or never.  Every operation keeps the channel table       *)
(* locked until it returns, so each is one step.  Proofs are always        *)
(* accepted, timeouts and the channel's ordering are never looked at.      *)
(***************************************************************************)
EXTENDS Integers, FiniteSets

CONSTANTS Channels,     \* the channels that create_channel makes, on both chains
          ChainOf,      \* the chain whose handler keeps each of them
          NoPeer,       \* no counterparty_channel_id yet
          MaxPackets    \* bound: packets sent on a channel

VARIABLES
    chanState,    \* channel -> its ChannelState, or "None" before create_channel
    chanPeer,     \* channel -> counterparty_channel_id
    nextSequence, \* channel -> next_sequence
    commitments,  \* packet_commitments
    receipts,     \* packet_receipts
    ackTable,     \* packet_acknowledgements, the keys
    wire,         \* the packets sent so far
    ackWire       \* the packets whose receive_packet returned an acknowledgement

ibcVars == <<chanState, chanPeer, nextSequence, commitments, receipts, ackTable, wire, ackWire>>
tables == <<nextSequence, commitments, receipts, ackTable, wire, ackWire>>

IBCInit ==
    /\ chanState = [c \in Channels |-> "None"]
    /\ chanPeer = [c \in Channels |-> NoPeer]
    /\ nextSequence = [c \in Channels |-> 1]
    /\ commitments = {} /\ receipts = {} /\ ackTable = {} /\ wire = {} /\ ackWire = {}

Moves(c, old, new) == chanState[c] = old /\ chanState' = [chanState EXCEPT ![c] = new]

CreateChannel(c) == Moves(c, "None", "Init") /\ UNCHANGED <<chanPeer, tables>>

ChannelOpenTry(c, d) ==
    /\ Moves(c, "Init", "TryOpen")
    /\ chanPeer' = [chanPeer EXCEPT ![c] = d]
    /\ UNCHANGED tables

ChannelOpenConfirm(c) == Moves(c, "TryOpen", "Open") /\ UNCHANGED <<chanPeer, tables>>

(* close_channel takes any state. *)
CloseChannel(c) ==
    /\ chanState[c] \notin {"None", "Closed"}
    /\ Moves(c, chanState[c], "Closed")
    /\ UNCHANGED <<chanPeer, tables>>

SequenceAfter_Stuck(c) == IF nextSequence[c] = 1 THEN 2 ELSE nextSequence[c]

SequenceAfter(c) == nextSequence[c] + 1

SendPacket(c) ==
    /\ chanState[c] = "Open"
    /\ wire' = wire \cup {[src |-> c, seq |-> nextSequence[c], dst |-> chanPeer[c],
                           nth |-> Cardinality({p \in wire : p.src = c})]}
    /\ commitments' = commitments \cup {<<c, nextSequence[c]>>}
    /\ nextSequence' = [nextSequence EXCEPT ![c] = SequenceAfter(c)]
    /\ UNCHANGED <<chanState, chanPeer, receipts, ackTable, ackWire>>

(* receive_packet: a duplicate is received like the first copy. *)
ReceivePacket(p) ==
    /\ chanState[p.dst] = "Open"
    /\ receipts' = receipts \cup {<<p.dst, p.seq>>}
    /\ ackTable' = ackTable \cup {<<p.dst, p.seq>>}
    /\ ackWire' = ackWire \cup {p}
    /\ UNCHANGED <<chanState, chanPeer, nextSequence, commitments, wire>>

(* acknowledge_packet asks for a known channel, not for an open one. *)
AcknowledgePacket(p) ==
    /\ chanState[p.src] # "None"
    /\ commitments' = commitments \ {<<p.src, p.seq>>}
    /\ UNCHANGED <<chanState, chanPeer, nextSequence, receipts, ackTable, wire, ackWire>>

IBCNext ==
    \/ \E c \in Channels :
          \/ CreateChannel(c) \/ ChannelOpenConfirm(c) \/ CloseChannel(c)
          \/ \E d \in Channels : ChainOf[d] # ChainOf[c] /\ ChannelOpenTry(c, d)
          \/ nextSequence[c] <= MaxPackets /\ SendPacket(c)
    \/ \E p \in wire : ReceivePacket(p)
    \/ \E p \in ackWire : AcknowledgePacket(p)

IBCSpec == IBCInit /\ [][IBCNext]_ibcVars

SentOn(c) == {p \in wire : p.src = c}

(* Sequence numbers name packets: two packets of one channel never share    *)
(* one, and they are dense.  So a commitment is dropped only for a packet   *)
(* the other chain took while its channel was open, a packet in flight is   *)
(* still committed whatever is closed meanwhile, and a receipt exists for   *)
(* exactly the packets that were taken, with its acknowledgement.           *)
PacketsAccounted ==
    /\ \A c \in Channels : /\ {p.seq : p \in SentOn(c)} = 1 .. (nextSequence[c] - 1)
                           /\ Cardinality(SentOn(c)) = nextSequence[c] - 1
    /\ \A p \in wire \ ackWire : <<p.src, p.seq>> \in commitments
    /\ receipts = {<<p.dst, p.seq>> : p \in ackWire} /\ ackTable = receipts
    /\ \A c \in Channels : chanState[c] \in {"None", "Init", "TryOpen"} =>
          \A p \in wire : p.src # c /\ (p.dst = c => p \notin ackWire)
=============================================================================
