---------------------------- MODULE BatchAuction -----------------------------
(***************************************************************************)
(* The batch auction of dex/mev_protection/batch_auction.rs.  A submission *)
(* puts its order into the pending queue and into the current batch; a new *)
(* batch is filled from the pending queue, which holds the order that just *)
(* came and also those that went into earlier batches.  A batch is given   *)
(* up when its time is over at a submission, or when it is too small at    *)
(* its execution.  An order stands for its transaction.                    *)
(***************************************************************************)
EXTENDS Integers, Sequences, SequencesExt, FiniteSets, Maps

CONSTANTS AuctionOrders,
          BidPrice,      \* [AuctionOrders -> Nat]: the gas price
          MinBatchSize,  \* min_batch_size
          MaxBatchSize,  \* max_batch_size
          NoBatch        \* the current batch when there is none

ASSUME AuctionAssumption == MinBatchSize \in Nat /\ MaxBatchSize \in Nat \ {0}

VARIABLES
    current,    \* current_batch: the orders it collected
    pending,    \* pending_orders
    executed,   \* the results of each executed batch, in order
    submitted   \* history: the orders that came so far

auctionVars == <<current, pending, executed, submitted>>

AuctionInit == current = NoBatch /\ pending = <<>> /\ executed = <<>> /\ submitted = {}

Taken(q) == SubSeq(q, 1, IF Len(q) < MaxBatchSize THEN Len(q) ELSE MaxBatchSize)
Rest(q) == SubSeq(q, Len(Taken(q)) + 1, Len(q))

(* should_seal_batch: the interval is over, or the batch is full. *)
ShouldSeal(timeIsUp) == current # NoBatch /\ (timeIsUp \/ Len(current) >= MaxBatchSize)

(* The current batch and the pending queue before the order is pushed. *)
Opened_NotDrained(q, timeIsUp) ==
    IF current = NoBatch \/ ShouldSeal(timeIsUp)
    THEN [batch |-> Taken(q), pending |-> q]
    ELSE [batch |-> current, pending |-> q]

Opened(q, timeIsUp) ==
    IF current = NoBatch \/ ShouldSeal(timeIsUp)
    THEN [batch |-> Taken(q), pending |-> Rest(q)]
    ELSE [batch |-> current, pending |-> q]

SubmitToBatch(o, timeIsUp) ==
    /\ o \notin submitted
    /\ LET n == Opened(Append(pending, o), timeIsUp)
       IN  /\ current' = IF Len(n.batch) < MaxBatchSize THEN Append(n.batch, o) ELSE n.batch
           /\ pending' = n.pending
    /\ submitted' = submitted \cup {o}
    /\ UNCHANGED executed

(* The highest price first; the shuffle inside a price group may give any  *)
(* order of it.  Every simulated transaction succeeds.                     *)
FairOrders(b) == OrdersBy(b, BidPrice)

(* The batch is taken out of the manager before its size is looked at. *)
ExecuteBatch ==
    /\ current # NoBatch
    /\ current' = NoBatch
    /\ IF Len(current) < MinBatchSize THEN UNCHANGED executed
       ELSE \E r \in FairOrders(current) : executed' = Append(executed, r)
    /\ UNCHANGED <<pending, submitted>>

AuctionNext ==
    \/ \E o \in AuctionOrders, timeIsUp \in BOOLEAN : SubmitToBatch(o, timeIsUp)
    \/ ExecuteBatch

-----------------------------------------------------------------------------
Times(o, s) == Cardinality({i \in DOMAIN s : s[i] = o})
Waiting(o) == Times(o, pending) + IF current = NoBatch THEN 0 ELSE Times(o, current)

(* However batches are sealed, given up and refilled, an order is executed *)
(* at most twice, counting the places it still waits in; an order that is  *)
(* still pending has one execution at most behind it; and no batch grows   *)
(* past its limit.                                                         *)
ExecutedAtMostTwice ==
    /\ \A o \in AuctionOrders :
          /\ Waiting(o) + Times(o, FlattenSeq(executed)) <= 2
          /\ Times(o, pending) <= 1
    /\ \A n \in DOMAIN executed : Len(executed[n]) \in MinBatchSize..MaxBatchSize
=============================================================================
