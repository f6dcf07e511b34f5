------------------------------ MODULE Network --------------------------------
(***************************************************************************)
(* network/mod.rs: the transaction pool, and the peers behind one          *)
(* readers-writer lock that lets nobody in past a waiting writer.          *)
(* Broadcasts keep the lock while they wait for a place in a peer's queue. *)
(* A peer's task hands what it gets to channels whose receivers are        *)
(* dropped in P2PNetwork::new, so the message is gone.  Kinds and payloads *)
(* of messages are left out; consensus and block broadcasts differ from a  *)
(* transaction's only in the order of the peers, which is any order here.  *)
(***************************************************************************)
EXTENDS Integers, Sequences, FiniteSets, Maps

CONSTANTS PoolTxs, SenderOf,   \* transactions, and who sent them
          PoolSize,            \* max_size
          PerAccount,          \* max_per_account
          Peers, PeerSlots,    \* peers, and the capacity of their queues
          NetCalls,            \* concurrent calls
          MaxQueued            \* bound: the transactions queued for an account

ASSUME NetworkAssumption ==
    /\ SenderOf \in [PoolTxs -> Nat] /\ PoolSize \in Nat \ {0} /\ PerAccount \in Nat \ {0}
    /\ PeerSlots \in Nat \ {0}

VARIABLES
    pending,     \* pending: a set, as the hash names the transaction
    queued,      \* queued: account -> sequence of transactions
    pruned,      \* history: something was pruned
    resent,      \* history: a transaction was added while pending or queued
    peers,       \* peers: peer -> number of messages in its queue
    latencies,   \* the peers whose latency_ms was written
    netCall      \* call -> what it does and the peers it has yet to reach

poolVars == <<pending, queued, pruned, resent>>
netVars == <<pending, queued, pruned, resent, peers, latencies, netCall>>

Accounts == {SenderOf[t] : t \in PoolTxs}
Idle == [at |-> "idle", to |-> {}]

NetInit ==
    /\ pending = {} /\ queued = [a \in Accounts |-> <<>>]
    /\ pruned = FALSE /\ resent = FALSE
    /\ peers = <<>> /\ latencies = {}
    /\ netCall = [c \in NetCalls |-> Idle]

-----------------------------------------------------------------------------
(* TransactionPool *)

PendingOf(a) == {t \in pending : SenderOf[t] = a}
Queued(a) == {queued[a][k] : k \in 1 .. Len(queued[a])}

(* A full pool drops the transaction, a full account queues it. *)
AddTransaction(t) ==
    LET a == SenderOf[t]
    IN  /\ IF Cardinality(pending) >= PoolSize THEN UNCHANGED <<pending, queued>>
           ELSE IF Cardinality(PendingOf(a)) >= PerAccount
                THEN /\ Len(queued[a]) < MaxQueued
                     /\ queued' = [queued EXCEPT ![a] = Append(@, t)]
                     /\ UNCHANGED pending
           ELSE pending' = pending \cup {t} /\ UNCHANGED queued
        /\ resent' = (resent \/ t \in pending \cup Queued(a))
        /\ UNCHANGED pruned

Promoted_None(a) == {}

(* remove_transaction moves the youngest queued transaction up. *)
Promoted(a) == IF queued[a] = <<>> THEN {} ELSE {queued[a][Len(queued[a])]}

RemoveTransaction(t) ==
    LET a == SenderOf[t]
    IN  /\ t \in pending
        /\ pending' = (pending \ {t}) \cup Promoted(a)
        /\ queued' = [queued EXCEPT ![a] = SubSeq(@, 1, Len(@) - Cardinality(Promoted(a)))]
        /\ UNCHANGED <<pruned, resent, peers, latencies, netCall>>

(* prune_old_transactions drops what is below the nonces it is given and    *)
(* moves nothing up.                                                        *)
PruneOld(old) ==
    /\ pending' = pending \ old
    /\ pruned' = TRUE
    /\ UNCHANGED <<queued, resent, peers, latencies, netCall>>

ClearPool ==
    /\ pending' = {} /\ queued' = [a \in Accounts |-> <<>>]
    /\ UNCHANGED <<pruned, resent, peers, latencies, netCall>>

-----------------------------------------------------------------------------
(* The lock on peers: who holds it for reading, and who waits to write. *)

KeepsGuard_Dropped == {"send", "ping"}

(* measure_peer_latency keeps its read guard through the whole if let, also *)
(* while it waits to write the latency.                                     *)
KeepsGuard == {"send", "ping", "write"}

Reading(c) == netCall[c].at \in KeepsGuard
NoReader == \A c \in NetCalls : ~Reading(c)
NoWriterWaits == \A c \in NetCalls : netCall[c].at \notin {"add", "write"}

StartTxBroadcast(c, t) ==
    /\ netCall[c].at = "idle"
    /\ AddTransaction(t)
    /\ netCall' = [netCall EXCEPT ![c].at = "enter"]
    /\ UNCHANGED <<peers, latencies>>

(* broadcast_consensus_message and sync_block begin at the lock. *)
StartBroadcast(c) ==
    /\ netCall[c].at = "idle"
    /\ netCall' = [netCall EXCEPT ![c].at = "enter"]
    /\ UNCHANGED <<pending, queued, pruned, resent, peers, latencies>>

EnterBroadcast(c) ==
    /\ netCall[c].at = "enter" /\ NoWriterWaits
    /\ netCall' = [netCall EXCEPT ![c] = [at |-> "send", to |-> DOMAIN peers]]
    /\ UNCHANGED <<pending, queued, pruned, resent, peers, latencies>>

SendTo(c, p) ==
    /\ netCall[c].at = "send" /\ p \in netCall[c].to /\ peers[p] < PeerSlots
    /\ peers' = [peers EXCEPT ![p] = @ + 1]
    /\ netCall' = [netCall EXCEPT ![c].to = @ \ {p}]
    /\ UNCHANGED <<pending, queued, pruned, resent, latencies>>

EndBroadcast(c) ==
    /\ netCall[c] = [at |-> "send", to |-> {}]
    /\ netCall' = [netCall EXCEPT ![c] = Idle]
    /\ UNCHANGED <<pending, queued, pruned, resent, peers, latencies>>

(* add_peer; a peer that is known gets a new, empty queue. *)
AskToAdd(c, p) ==
    /\ netCall[c].at = "idle"
    /\ netCall' = [netCall EXCEPT ![c] = [at |-> "add", to |-> {p}]]
    /\ UNCHANGED <<pending, queued, pruned, resent, peers, latencies>>

(* What is done under the write lock: the peer is added, or its latency is  *)
(* recorded.                                                                *)
WritePeers(c, p) ==
    /\ netCall[c].at \in {"add", "write"} /\ netCall[c].to = {p} /\ NoReader
    /\ IF netCall[c].at = "add" THEN peers' = Put(peers, p, 0) /\ latencies' = latencies \ {p}
       ELSE latencies' = latencies \cup {p} /\ UNCHANGED peers
    /\ netCall' = [netCall EXCEPT ![c] = Idle]
    /\ UNCHANGED <<pending, queued, pruned, resent>>

StartMeasure(c, p) ==
    /\ netCall[c].at = "idle" /\ NoWriterWaits /\ p \in DOMAIN peers
    /\ netCall' = [netCall EXCEPT ![c] = [at |-> "ping", to |-> {p}]]
    /\ UNCHANGED <<pending, queued, pruned, resent, peers, latencies>>

SendPing(c, p) ==
    /\ netCall[c] = [at |-> "ping", to |-> {p}] /\ peers[p] < PeerSlots
    /\ peers' = [peers EXCEPT ![p] = @ + 1]
    /\ netCall' = [netCall EXCEPT ![c].at = "write"]
    /\ UNCHANGED <<pending, queued, pruned, resent, latencies>>

(* The task of a peer takes one message, whose channel has no receiver. *)
HandleMessage(p) ==
    /\ peers[p] > 0
    /\ peers' = [peers EXCEPT ![p] = @ - 1]
    /\ UNCHANGED <<pending, queued, pruned, resent, latencies, netCall>>

-----------------------------------------------------------------------------
NetNext ==
    \/ \E t \in PoolTxs : RemoveTransaction(t) \/ \E c \in NetCalls : StartTxBroadcast(c, t)
    \/ \E old \in SUBSET pending : PruneOld(old)
    \/ ClearPool
    \/ \E c \in NetCalls : StartBroadcast(c) \/ EnterBroadcast(c) \/ EndBroadcast(c)
    \/ \E c \in NetCalls, p \in Peers :
          AskToAdd(c, p) \/ WritePeers(c, p) \/ SendTo(c, p) \/ StartMeasure(c, p) \/ SendPing(c, p)
    \/ \E p \in DOMAIN peers : HandleMessage(p)

NetSpec == NetInit /\ [][NetNext]_netVars

(* The pool keeps its limits whatever moves up, and, as long as nothing was *)
(* pruned or sent twice, a transaction is queued only while its account is  *)
(* full.  (Pruning leaves queued transactions behind that nothing moves up; *)
(* one that is sent again while its account is full comes back after its    *)
(* removal.)                                                                *)
PoolKeepsLimits ==
    /\ Cardinality(pending) <= PoolSize
    /\ \A a \in Accounts : Cardinality(PendingOf(a)) <= PerAccount
    /\ ~pruned /\ ~resent =>
          \A a \in Accounts : queued[a] # <<>> => Cardinality(PendingOf(a)) = PerAccount

(* Once a call to measure_peer_latency asks to write, nobody enters again:  *)
(* it waits for its own read guard.  No latency is ever recorded, no peer   *)
(* is added and no broadcast starts sending from then on.                   *)
MeasureClosesPeers ==
    [][\A c \in NetCalls : netCall[c].at = "write" =>
          /\ netCall'[c].at = "write" /\ DOMAIN peers' = DOMAIN peers /\ latencies' = latencies
          /\ \A d \in NetCalls : netCall'[d].at \in {"send", "ping"} => Reading(d)]_netVars
=============================================================================
