--------------------------- MODULE BatchProcessor ----------------------------
(***************************************************************************)
(* The batch processor of optimization/batch_processor.rs: submissions     *)
(* wait in a queue, one loop cuts batches off it, and a task per batch     *)
(* runs the processor under a permit and answers.  The waiting times are   *)
(* kept as whether max_wait_time has passed.  The processor is the         *)
(* caller's: it may return fewer results than items, or panic; a           *)
(* submission whose sender is dropped fails.                               *)
(***************************************************************************)
EXTENDS Integers, Sequences, FiniteSets

CONSTANTS Items,            \* the items that are submitted
          FirstMaxBatch,    \* max_batch_size at the start
          MinBatch,         \* min_batch_size
          ParallelBatches   \* parallel_batches

(* The code's configurations start at 50, 100 and 1000, which adapt_config  *)
(* never exceeds; one above would be cut down to it.                        *)
ASSUME BatchAssumption ==
    /\ FirstMaxBatch \in 1 .. 1000 /\ MinBatch \in Nat /\ ParallelBatches \in Nat \ {0}

VARIABLES
    bpQueue,     \* batch_queue
    bpDue,       \* max_wait_time has passed: since the last batch, for the oldest item
    bpLoop,      \* processing_loop: what it is about to do and the batch it holds
    bpTasks,     \* the tasks that it spawned and that hold a permit
    permits,     \* what the semaphore has left
    bpAvg,       \* avg_batch_size
    bpMax,       \* max_batch_size as adapt_config changed it
    bpOutcome    \* item -> "new", "waiting", "answered" or "failed"

bpVars == <<bpQueue, bpDue, bpLoop, bpTasks, permits, bpAvg, bpMax, bpOutcome>>

BpInit ==
    /\ bpQueue = <<>> /\ bpDue = [last |-> FALSE, oldest |-> FALSE]
    /\ bpLoop = [at |-> "look", batch |-> <<>>]
    /\ bpTasks = {} /\ permits = ParallelBatches
    /\ bpAvg = 0 /\ bpMax = FirstMaxBatch
    /\ bpOutcome = [i \in Items |-> "new"]

Submit(i) ==
    /\ bpOutcome[i] = "new"
    /\ bpQueue' = Append(bpQueue, i)
    /\ bpOutcome' = [bpOutcome EXCEPT ![i] = "waiting"]
    /\ UNCHANGED <<bpDue, bpLoop, bpTasks, permits, bpAvg, bpMax>>

TimePasses ==
    /\ bpQueue # <<>>
    /\ bpDue' \in {[bpDue EXCEPT !.last = TRUE], [last |-> TRUE, oldest |-> TRUE]}
    /\ UNCHANGED <<bpQueue, bpLoop, bpTasks, permits, bpAvg, bpMax, bpOutcome>>

-----------------------------------------------------------------------------
(* processing_loop *)

ShouldProcess_OnlyFull ==
    /\ bpQueue # <<>>
    /\ Len(bpQueue) >= bpMax \/ (bpDue.last /\ Len(bpQueue) >= MinBatch)

ShouldProcess ==
    /\ bpQueue # <<>>
    /\ Len(bpQueue) >= bpMax \/ (bpDue.last /\ Len(bpQueue) >= MinBatch) \/ bpDue.oldest

LoopLooks ==
    /\ bpLoop.at = "look" /\ ShouldProcess
    /\ bpLoop' = [bpLoop EXCEPT !.at = "take"]
    /\ UNCHANGED <<bpQueue, bpDue, bpTasks, permits, bpAvg, bpMax, bpOutcome>>

BatchLen_All == Len(bpQueue)

BatchLen == IF Len(bpQueue) < bpMax THEN Len(bpQueue) ELSE bpMax

LoopTakes ==
    /\ bpLoop.at = "take"
    /\ bpLoop' = [at |-> "permit", batch |-> SubSeq(bpQueue, 1, BatchLen)]
    /\ bpQueue' = SubSeq(bpQueue, BatchLen + 1, Len(bpQueue))
    /\ bpDue' = [bpDue EXCEPT !.oldest = FALSE]
    /\ UNCHANGED <<bpTasks, permits, bpAvg, bpMax, bpOutcome>>

(* adapt_config on max_batch_size *)
Adapted(m) ==
    IF bpAvg > (m * 9) \div 10 THEN (IF (m * 3) \div 2 < 1000 THEN (m * 3) \div 2 ELSE 1000) ELSE m

LoopSpawns ==
    /\ bpLoop.at = "permit" /\ permits > 0
    /\ permits' = permits - 1
    /\ bpTasks' = bpTasks \cup {[at |-> "run", batch |-> bpLoop.batch, seen |-> 0]}
    /\ bpMax' = Adapted(bpMax)
    /\ bpDue' = [bpDue EXCEPT !.last = FALSE]
    /\ bpLoop' = [at |-> "look", batch |-> <<>>]
    /\ UNCHANGED <<bpQueue, bpAvg, bpOutcome>>

-----------------------------------------------------------------------------
(* One task: answers, then the metrics in a load and a store. *)

TaskAnswers(t) ==
    /\ t.at = "run"
    /\ \E n \in 0 .. Len(t.batch) :
          bpOutcome' = [i \in Items |->
              IF \E k \in 1 .. n : t.batch[k] = i THEN "answered"
              ELSE IF \E k \in n + 1 .. Len(t.batch) : t.batch[k] = i THEN "failed"
              ELSE bpOutcome[i]]
    /\ bpTasks' = (bpTasks \ {t}) \cup {[t EXCEPT !.at = "load"]}
    /\ UNCHANGED <<bpQueue, bpDue, bpLoop, permits, bpAvg, bpMax>>

TaskLoads(t) ==
    /\ t.at = "load"
    /\ bpTasks' = (bpTasks \ {t}) \cup {[t EXCEPT !.at = "store", !.seen = bpAvg]}
    /\ UNCHANGED <<bpQueue, bpDue, bpLoop, permits, bpAvg, bpMax, bpOutcome>>

(* A panic of the processor drops the senders and the permit. *)
TaskPanics(t) ==
    /\ t.at = "run"
    /\ bpOutcome' = [i \in Items |-> IF \E k \in 1 .. Len(t.batch) : t.batch[k] = i THEN "failed" ELSE bpOutcome[i]]
    /\ permits' = permits + 1
    /\ bpTasks' = bpTasks \ {t}
    /\ UNCHANGED <<bpQueue, bpDue, bpLoop, bpAvg, bpMax>>

NewAvg(seen, size) == (seen * 9 + size) \div 10

TaskStores(t) ==
    /\ t.at = "store"
    /\ bpAvg' = NewAvg(t.seen, Len(t.batch))
    /\ permits' = permits + 1
    /\ bpTasks' = bpTasks \ {t}
    /\ UNCHANGED <<bpQueue, bpDue, bpLoop, bpMax, bpOutcome>>

-----------------------------------------------------------------------------
BpLoopStep == LoopLooks \/ LoopTakes \/ LoopSpawns

BpTaskStep == \E t \in bpTasks : TaskAnswers(t) \/ TaskPanics(t) \/ TaskLoads(t) \/ TaskStores(t)

BpNext == (\E i \in Items : Submit(i)) \/ TimePasses \/ BpLoopStep \/ BpTaskStep

(* The executor polls every task, and time goes on until the oldest item is due. *)
BpFairness ==
    /\ WF_bpVars(BpLoopStep) /\ WF_bpVars(BpTaskStep)
    /\ WF_bpVars(TimePasses /\ bpDue'.oldest)

BpSpec == BpInit /\ [][BpNext]_bpVars /\ BpFairness

(* Every waiting submission is in exactly one place, the queue, the loop's  *)
(* batch or a task that has not answered, and no batch is larger than the   *)
(* maximum; permits are neither lost nor made.  The rounding of the average *)
(* keeps it nine below the size of full batches, so a processor that starts *)
(* with at most 90 items per batch (the network processor's 50) never       *)
(* adapts, although two tasks may overwrite each other's average.           *)
BatchesAccounted ==
    LET held == {bpQueue, bpLoop.batch} \cup {t.batch : t \in {u \in bpTasks : u.at = "run"}}
        In(s) == {s[k] : k \in 1 .. Len(s)}
    IN  /\ {i \in Items : bpOutcome[i] = "waiting"} = UNION {In(s) : s \in held}
        /\ \A s, t \in held : s # t => In(s) \cap In(t) = {}
        /\ \A s \in held : Cardinality(In(s)) = Len(s)
        /\ \A t \in bpTasks : Len(t.batch) \in 1 .. bpMax
        /\ permits + Cardinality(bpTasks) = ParallelBatches
        /\ FirstMaxBatch <= 90 => bpMax = FirstMaxBatch

(* Whatever is submitted is answered, or fails, in the end: a lone item is  *)
(* not left waiting for min_batch_size others.                              *)
SubmissionsSettle ==
    \A i \in Items : bpOutcome[i] = "waiting" ~> bpOutcome[i] \in {"answered", "failed"}
=============================================================================
