-------------------------- MODULE MCLayeredStorage --------------------------
(***************************************************************************)
(* LayeredStorage for TLC, with a history of what has happened so far.  To *)
(* stay small a behaviour has either overlapping operations and prefetches *)
(* or crashes and refused writes.                                          *)
(***************************************************************************)
EXTENDS LayeredStorage, TLC

VARIABLES shared,     \* history: operations overlapped, or a prefetch ran
          troubled    \* history: a crash or a refused write happened

Trouble ==
    \/ Crash
    \/ \E t \in Tasks : PutFlushFail(t) \/ FlushFail(t) \/ WriteFail(t)

MCInit == Init /\ shared = FALSE /\ troubled = FALSE

MCNext ==
    /\ Next
    /\ shared' = (shared \/ \E t \in Tasks :
                    ahead'[t] \/ \E u \in Tasks \ {t} : pc'[t] # "idle" /\ pc'[u] # "idle")
    /\ troubled' = (troubled \/ Trouble)
    /\ ~(shared' /\ troubled')

MCSpec == MCInit /\ [][MCNext]_<<vars, shared, troubled>>

StorageSymmetry ==
    Permutations(Tasks) \cup Permutations(PutKeys) \cup Permutations(BatchKeys)
        \cup Permutations(Values)

(* AloneBatchReadsBack: as long as operations have followed one another    *)
(* and nothing was prefetched, a key that is written with batch_put or     *)
(* deleted reads as the last write that succeeded, or one that failed      *)
(* after it, from whichever layer answers and whatever L1 has evicted,     *)
(* through crashes and refused writes.                                     *)
AloneBatchReadsBack == ~shared => BatchReadsBack

(* CalmPutsSurvive: until a crash or a refused write, the last value that  *)
(* put has acknowledged for a key is in the database or in the batch,      *)
(* whatever tasks put, flush and write beside each other.                  *)
CalmPutsSurvive == ~troubled => PutsSurvive

(* WritesKept: no acknowledged write is lost in the batch, the caches or   *)
(* the database by what overlaps it, crashes or is refused, within what    *)
(* each kind of write promises.                                            *)
WritesKept == PendingBounded /\ AloneBatchReadsBack /\ CalmPutsSurvive
=============================================================================
