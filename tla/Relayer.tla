------------------------------- MODULE Relayer -------------------------------
(***************************************************************************)
(* The relayer of cross_chain/relayer.rs.  A message is queued when it is  *)
(* submitted and a second copy when it has its confirmations; only the     *)
(* second one is Ready, the first one goes round in the queue for ever.    *)
(* Calls take several locks: submit_transfer the queue and then the        *)
(* pending messages, process_pending_messages the other way round,         *)
(* relay_ready_messages the relayed and then the pending ones, get_stats   *)
(* the pending and then the relayed ones.  A task is a caller or a run of  *)
(* relay_loop; start may be called again while an old loop still runs.     *)
(* relay_message always succeeds, so no message is retried.  The id of a   *)
(* transfer is its lock's id, which two equal locks of a second share, so  *)
(* an id may be submitted more than once.                                  *)
(***************************************************************************)
EXTENDS Integers, Sequences, SequencesExt, FiniteSets, Maps

CONSTANTS Submissions,       \* calls of submit_transfer
          TransferOf,        \* the transfer id each of them submits
          RelayLoops,        \* the loops that start() spawned
          StatCalls,         \* calls of get_stats
          MinConfirmations,  \* min_confirmations
          RelayBatch,        \* batch_size
          Unlocked           \* the holder of a free lock

ASSUME RelayAssumption ==
    /\ MinConfirmations \in Nat \ {0} /\ RelayBatch \in Nat \ {0}
    /\ IsFiniteSet(Submissions) /\ IsFiniteSet(RelayLoops) /\ DOMAIN TransferOf = Submissions
    /\ Submissions \cap RelayLoops = {} /\ (Submissions \cup RelayLoops) \cap StatCalls = {}
    /\ Unlocked \notin Submissions \cup RelayLoops \cup StatCalls

VARIABLES
    relayQueue,   \* message_queue: [id, ready]
    waitingFor,   \* pending_messages: id -> confirmations, or -1 when Ready
    relayed,      \* relayed_messages
    active,
    relayAt,      \* where each task is
    inHand,       \* the messages a loop took out of the queue
    queueBy, pendingBy, relayedBy,   \* who holds each lock across a wait
    deliveries    \* history: id -> the times relay_message was called for it

relayVars == <<relayQueue, waitingFor, relayed, active, relayAt, inHand,
               queueBy, pendingBy, relayedBy, deliveries>>
relayData == <<relayQueue, waitingFor, relayed, active, inHand, deliveries>>
relayLocks == <<queueBy, pendingBy, relayedBy>>

Transfers == Range(TransferOf)

RelayTasks == Submissions \cup RelayLoops \cup StatCalls

RelayInit ==
    /\ relayQueue = <<>> /\ waitingFor = <<>> /\ relayed = {} /\ active = FALSE
    /\ relayAt = [t \in RelayTasks |-> "idle"]
    /\ inHand = [l \in RelayLoops |-> <<>>]
    /\ queueBy = Unlocked /\ pendingBy = Unlocked /\ relayedBy = Unlocked
    /\ deliveries = [m \in Transfers |-> 0]

GoesTo(t, label) == relayAt' = [relayAt EXCEPT ![t] = label]

-----------------------------------------------------------------------------
(* submit_transfer *)
SubmitQueue(c) ==
    /\ relayAt[c] = "idle" /\ queueBy = Unlocked
    /\ queueBy' = c
    /\ relayQueue' = Append(relayQueue, [id |-> TransferOf[c], ready |-> FALSE])
    /\ GoesTo(c, "insert")
    /\ UNCHANGED <<waitingFor, relayed, active, inHand, pendingBy, relayedBy, deliveries>>

SubmitPending(c) ==
    /\ relayAt[c] = "insert" /\ pendingBy = Unlocked
    /\ waitingFor' = Put(waitingFor, TransferOf[c], 0)
    /\ queueBy' = Unlocked
    /\ GoesTo(c, "done")
    /\ UNCHANGED <<relayQueue, relayed, active, inHand, pendingBy, relayedBy, deliveries>>

-----------------------------------------------------------------------------
(* start, stop and relay_loop *)
StartLoop(l) ==
    /\ relayAt[l] = "idle"
    /\ active' = TRUE
    /\ GoesTo(l, "tick")
    /\ UNCHANGED <<relayQueue, waitingFor, relayed, inHand, relayLocks, deliveries>>

StopRelayer ==
    /\ active /\ active' = FALSE
    /\ UNCHANGED <<relayQueue, waitingFor, relayed, inHand, relayAt, relayLocks, deliveries>>

LoopTick(l) ==
    /\ relayAt[l] = "tick"
    /\ GoesTo(l, IF active THEN "confirm" ELSE "done")
    /\ UNCHANGED <<relayData, relayLocks>>

Confirmed(m) == waitingFor[m] + 1 >= MinConfirmations
Pending == {m \in DOMAIN waitingFor : waitingFor[m] >= 0}

(* process_pending_messages: confirmations first, under the pending lock... *)
ConfirmMessages(l) ==
    /\ relayAt[l] = "confirm" /\ pendingBy = Unlocked
    /\ LET now == {m \in Pending : Confirmed(m)}
       IN  /\ waitingFor' = [m \in DOMAIN waitingFor |->
                                IF m \in now THEN -1
                                ELSE IF m \in Pending THEN waitingFor[m] + 1 ELSE waitingFor[m]]
           /\ IF now = {} THEN GoesTo(l, "take") /\ UNCHANGED <<inHand, pendingBy>>
              ELSE /\ pendingBy' = l /\ GoesTo(l, "enqueue")
                   /\ \E s \in SetToSeqs(now) : inHand' = [inHand EXCEPT ![l] = s]
    /\ UNCHANGED <<relayQueue, relayed, active, queueBy, relayedBy, deliveries>>

(* ...then the Ready ones go into the queue, one at a time, with it held. *)
EnqueueReady(l) ==
    /\ relayAt[l] = "enqueue" /\ queueBy = Unlocked
    /\ relayQueue' = Append(relayQueue, [id |-> Head(inHand[l]), ready |-> TRUE])
    /\ inHand' = [inHand EXCEPT ![l] = Tail(@)]
    /\ IF Tail(inHand[l]) = <<>> THEN pendingBy' = Unlocked /\ GoesTo(l, "take")
       ELSE UNCHANGED <<pendingBy, relayAt>>
    /\ UNCHANGED <<waitingFor, relayed, active, queueBy, relayedBy, deliveries>>

(* relay_ready_messages looks at one batch from the front; what is not      *)
(* Ready goes to the back.                                                  *)
FirstBatch == SubSeq(relayQueue, 1, Min({RelayBatch, Len(relayQueue)}))
ReadyOf(s) == Retained(s, {i \in DOMAIN s : s[i].ready})

Rotated_Kept ==
    SubSeq(relayQueue, Len(FirstBatch) + 1, Len(relayQueue)) \o FirstBatch

Rotated ==
    SubSeq(relayQueue, Len(FirstBatch) + 1, Len(relayQueue))
        \o Retained(FirstBatch, {i \in DOMAIN FirstBatch : ~FirstBatch[i].ready})

TakeBatch(l) ==
    /\ relayAt[l] = "take" /\ queueBy = Unlocked
    /\ inHand' = [inHand EXCEPT ![l] = [i \in DOMAIN ReadyOf(FirstBatch) |-> ReadyOf(FirstBatch)[i].id]]
    /\ relayQueue' = Rotated
    /\ GoesTo(l, IF ReadyOf(FirstBatch) = <<>> THEN "tick" ELSE "relay")
    /\ UNCHANGED <<waitingFor, relayed, active, relayLocks, deliveries>>

RelayOne(l) ==
    /\ relayAt[l] = "relay" /\ relayedBy = Unlocked
    /\ LET m == Head(inHand[l])
       IN  /\ deliveries' = [deliveries EXCEPT ![m] = @ + 1]
           /\ relayed' = relayed \cup {m}
    /\ relayedBy' = l
    /\ GoesTo(l, "remove")
    /\ UNCHANGED <<relayQueue, waitingFor, active, inHand, queueBy, pendingBy>>

RemovePending(l) ==
    /\ relayAt[l] = "remove" /\ pendingBy = Unlocked
    /\ waitingFor' = Drop(waitingFor, Head(inHand[l]))
    /\ inHand' = [inHand EXCEPT ![l] = Tail(@)]
    /\ relayedBy' = Unlocked
    /\ GoesTo(l, IF Tail(inHand[l]) = <<>> THEN "tick" ELSE "relay")
    /\ UNCHANGED <<relayQueue, relayed, active, queueBy, pendingBy, deliveries>>

-----------------------------------------------------------------------------
(* get_stats reads the pending, then the relayed messages, then the queue. *)
StatsPending(c) ==
    /\ relayAt[c] = "idle" /\ pendingBy = Unlocked
    /\ pendingBy' = c
    /\ GoesTo(c, "relayed")
    /\ UNCHANGED <<relayData, queueBy, relayedBy>>

StatsRelayed(c) ==
    /\ relayAt[c] = "relayed" /\ relayedBy = Unlocked
    /\ relayedBy' = c
    /\ GoesTo(c, "queue")
    /\ UNCHANGED <<relayData, queueBy, pendingBy>>

StatsQueue(c) ==
    /\ relayAt[c] = "queue" /\ queueBy = Unlocked
    /\ pendingBy' = Unlocked /\ relayedBy' = Unlocked
    /\ GoesTo(c, "done")
    /\ UNCHANGED <<relayData, queueBy>>

LoopStep(l) ==
    \/ LoopTick(l) \/ ConfirmMessages(l) \/ EnqueueReady(l)
    \/ TakeBatch(l) \/ RelayOne(l) \/ RemovePending(l)

RelayNext ==
    \/ StopRelayer
    \/ \E c \in Submissions : SubmitQueue(c) \/ SubmitPending(c)
    \/ \E l \in RelayLoops : StartLoop(l) \/ LoopStep(l)
    \/ \E c \in StatCalls : StatsPending(c) \/ StatsRelayed(c) \/ StatsQueue(c)

-----------------------------------------------------------------------------
SubmissionsOf(m) == {c \in Submissions : TransferOf[c] = m /\ relayAt[c] # "idle"}

(* However many loops run, a transfer is relayed at most once per time it   *)
(* was submitted, a relayed message was recorded, and one whose             *)
(* confirmations are complete is in the queue, in a loop's hands or was     *)
(* relayed: none is dropped between the locks.                              *)
RelayedOnce ==
    \A m \in Transfers :
        /\ deliveries[m] <= Cardinality(SubmissionsOf(m))
        /\ deliveries[m] > 0 <=> m \in relayed
        /\ m \in DOMAIN waitingFor /\ waitingFor[m] = -1 /\ m \notin relayed =>
              \/ \E i \in DOMAIN relayQueue : relayQueue[i] = [id |-> m, ready |-> TRUE]
              \/ \E l \in RelayLoops : m \in Range(inHand[l])

WaitsFor(t, h) ==
    \/ h = queueBy /\ relayAt[t] \in {"enqueue", "take", "queue"}
    \/ h = pendingBy /\ relayAt[t] \in {"insert", "confirm", "remove"}
    \/ h = relayedBy /\ relayAt[t] \in {"relay", "relayed"}

(* Two tasks block each other for good only when a submission meets a loop  *)
(* that has new Ready messages, or the statistics meet a loop that has just *)
(* relayed one, or a submission.  No other pair of calls takes its locks in *)
(* opposite orders.                                                         *)
OnlyKnownInversions ==
    \A t, u \in RelayTasks :
        WaitsFor(t, u) /\ WaitsFor(u, t) =>
            \/ {relayAt[t], relayAt[u]} = {"insert", "enqueue"}
            \/ {relayAt[t], relayAt[u]} = {"relayed", "remove"}
            \/ {relayAt[t], relayAt[u]} = {"queue", "insert"}

(* RelaySound: no message is lost or relayed twice between the locks, and   *)
(* only the known pairs of calls can block each other.                      *)
RelaySound == RelayedOnce /\ OnlyKnownInversions
=============================================================================
