------------------------ MODULE LayeredStorageProofs ------------------------
(***************************************************************************)
(* Proofs about LayeredStorage, for any number of tasks, keys and values   *)
(* and any size of the batch, and about its histories in MCLayeredStorage. *)
(***************************************************************************)
EXTENDS MCLayeredStorage, FiniteSetTheorems, TLAPS

(* ArgsOK: a task that is inside an operation has the arguments that its   *)
(* next step uses, and the key of a get or put is in the Bloom filter.     *)
ArgsOK ==
    \A t \in Tasks :
        /\ pc[t] \in {"get_l2", "promote", "prefetched", "put_batch"} => key[t] \in bloom
        /\ pc[t] \in {"promote", "prefetched", "put_batch"} => val[t] \in Values
        /\ pc[t] = "put_batch" => key[t] \in PutKeys
        /\ todo[t] \subseteq BatchKeys
        /\ \A k \in todo[t] : items[t][k] # None
        /\ \A k \in Keys \ BatchKeys : items[t][k] = None

IInv == TypeOK /\ ArgsOK /\ BloomCovers

-----------------------------------------------------------------------------
(* Writing a batch over a map yields a map of the same kind. *)
LEMMA OverrideFact ==
    ASSUME NEW S, NEW T, NEW f \in [S -> T \cup {None}], NEW g \in [S -> T \cup {None}]
    PROVE  Override(f, g) \in [S -> T \cup {None}]
BY DEF Override

(* L1Put leaves the other keys alone or evicts them. *)
LEMMA L1PutFact ==
    ASSUME TypeOK, NEW k \in Keys, NEW v \in Values, L1Put(k, v)
    PROVE  /\ l1' \in [Keys -> Values \cup {None}]
           /\ \A x \in Keys \ {k} : l1'[x] \in {l1[x], None}
           /\ l1'[k] \in {l1[k], v}
           /\ v \notin Large => l1'[k] = v
<1>1. CASE v \in Large
  BY <1>1 DEF L1Put, TypeOK
<1>2. CASE v \notin Large
  <2>1. PICK S \in SUBSET (Keys \ {k}) :
          l1' = [x \in Keys |-> IF x = k THEN v ELSE IF x \in S THEN None ELSE l1[x]]
    BY <1>2 DEF L1Put
  <2> QED  BY <2>1 DEF TypeOK
<1> QED  BY <1>1, <1>2

(* BloomAdd only adds keys. *)
LEMMA BloomAddFact ==
    ASSUME TypeOK, NEW k \in Keys, BloomAdd(k)
    PROVE  bloom' \subseteq Keys /\ bloom \subseteq bloom' /\ k \in bloom'
BY DEF BloomAdd, TypeOK

(* A store that has been opened satisfies the invariant. *)
LEMMA InitInv == Init => IInv
BY StorageAssumption
   DEF Init, IInv, TypeOK, ArgsOK, BloomCovers, Empty

(* Every step of a task preserves it. *)
LEMMA TaskInv == ASSUME IInv, NEW t \in Tasks, Task(t) PROVE IInv'
<1> USE StorageAssumption
<1>1. CASE \E k \in Keys, isAhead \in BOOLEAN : GetMiss(t, k, isAhead)
  <2>1. PICK k \in Keys, isAhead \in BOOLEAN : GetMiss(t, k, isAhead)  BY <1>1
  <2> QED  BY <2>1 DEF GetMiss, Goto, IInv, TypeOK, ArgsOK, BloomCovers, memory, batch
<1>2. CASE GetL2(t)
  <2>1. /\ pc[t] = "get_l2" /\ key[t] \in Keys
        /\ UNCHANGED <<bloom, prefetch, l1, pending, counter, db, latest>>
    BY <1>2 DEF GetL2, IInv, ArgsOK, TypeOK, memory, batch
  <2>2. CASE Return(t)
    BY <2>1, <2>2 DEF Goto, Return, Empty, IInv, TypeOK, ArgsOK, BloomCovers
  <2>3. CASE /\ db[key[t]] # None
             /\ val' = [val EXCEPT ![t] = db[key[t]]]
             /\ Goto(t, "promote")
             /\ UNCHANGED <<key, ahead, items, todo>>
    <3>1. db[key[t]] \in Values  BY <2>1, <2>3 DEF IInv, TypeOK
    <3> QED  BY <2>1, <2>3, <3>1 DEF Goto, IInv, TypeOK, ArgsOK, BloomCovers
  <2> QED  BY <1>2, <2>2, <2>3 DEF GetL2
<1>3. CASE GetPromote(t)
  <2>1. /\ key[t] \in Keys /\ key[t] \in bloom /\ val[t] \in Values
        /\ L1Put(key[t], val[t]) /\ pc[t] = "promote"
        /\ UNCHANGED <<bloom, prefetch, batch, db, latest>>
    BY <1>3 DEF GetPromote, IInv, ArgsOK, TypeOK
  <2>2. /\ l1' \in [Keys -> Values \cup {None}]
        /\ \A x \in Keys \ {key[t]} : l1'[x] \in {l1[x], None}
    BY <2>1, L1PutFact DEF IInv
  <2>3. CASE Return(t)
    BY <2>1, <2>2, <2>3 DEF Goto, Return, Empty, IInv, TypeOK, ArgsOK, BloomCovers, batch
  <2>4. CASE Goto(t, "prefetched") /\ UNCHANGED locals
    BY <2>1, <2>2, <2>4 DEF Goto, locals, IInv, TypeOK, ArgsOK, BloomCovers, batch
  <2> QED  BY <1>3, <2>3, <2>4 DEF GetPromote
<1>4. CASE \E k \in Keys : PrefetchHit(t, k)
  <2>1. PICK k \in Keys : PrefetchHit(t, k)  BY <1>4
  <2> QED  BY <2>1 DEF PrefetchHit, Goto, IInv, TypeOK, ArgsOK, BloomCovers, memory, batch
<1>5. CASE PrefetchInsert(t)
  BY <1>5 DEF PrefetchInsert, Goto, Return, Empty, IInv, TypeOK, ArgsOK, BloomCovers, batch
<1>6. CASE \E k \in PutKeys, v \in Values : PutL1(t, k, v)
  <2>1. PICK k \in PutKeys, v \in Values : PutL1(t, k, v)  BY <1>6
  <2>2. k \in Keys  BY DEF Keys
  <2>3. /\ l1' \in [Keys -> Values \cup {None}]
        /\ \A x \in Keys \ {k} : l1'[x] \in {l1[x], None}
    BY <2>1, <2>2, L1PutFact DEF PutL1, IInv
  <2>4. bloom' \subseteq Keys /\ bloom \subseteq bloom' /\ k \in bloom'
    BY <2>1, <2>2, BloomAddFact DEF PutL1, IInv
  <2> QED  BY <2>1, <2>2, <2>3, <2>4
            DEF PutL1, Goto, IInv, TypeOK, ArgsOK, BloomCovers, batch
<1>7. CASE PutBatch(t)
  BY <1>7 DEF PutBatch, Full, WithPut, Acknowledge, Goto, Return, Empty, IInv, TypeOK,
        ArgsOK, BloomCovers, memory
<1>8. CASE PutFlush(t)
  <2>1. key[t] \in Keys /\ val[t] \in Values
    BY <1>8 DEF PutFlush, IInv, TypeOK, ArgsOK
  <2>2. WithPut(t) \in [Keys -> Values \cup {None}]
    BY <2>1 DEF WithPut, IInv, TypeOK
  <2>3. db' \in [Keys -> Values \cup {None}]
    BY <1>8, <2>2, OverrideFact DEF PutFlush, IInv, TypeOK
  <2>4. latest' \in [Keys -> SUBSET (Values \cup {None})]
    BY <1>8, <2>1 DEF PutFlush, Acknowledge, IInv, TypeOK
  <2>5. /\ pending' = Empty(Keys) /\ counter' = 0 /\ Return(t) /\ UNCHANGED memory
    BY <1>8 DEF PutFlush
  <2> QED  BY <2>3, <2>4, <2>5 DEF Goto, Return, Empty, IInv, TypeOK, ArgsOK,
                BloomCovers, memory
<1>9. CASE PutFlushFail(t)
  BY <1>9 DEF PutFlushFail, Goto, Return, Empty, IInv, TypeOK, ArgsOK, BloomCovers, memory
<1>10. CASE FlushBatch(t)
  <2>1. db' \in [Keys -> Values \cup {None}]
    BY <1>10, OverrideFact DEF FlushBatch, IInv, TypeOK
  <2> QED  BY <1>10, <2>1 DEF FlushBatch, Empty, IInv, TypeOK, ArgsOK, BloomCovers,
                memory, locals
<1>11. CASE FlushFail(t)
  BY <1>11 DEF FlushFail, Empty, IInv, TypeOK, ArgsOK, BloomCovers, memory, locals
<1>12. CASE \E f \in Batches : WriteStart(t, f)
  <2>1. PICK f \in Batches : WriteStart(t, f)  BY <1>12
  <2>2. f \in [BatchKeys -> Values \cup {Deleted, None}]  BY DEF Batches
  <2> QED  BY <2>1, <2>2 DEF WriteStart, Goto, Keys, IInv, TypeOK, ArgsOK, BloomCovers,
                memory, batch
<1>13. CASE \E k \in Keys : WriteL1(t, k)
  <2>1. PICK k \in Keys : WriteL1(t, k)  BY <1>13
  <2>2. /\ l1' \in [Keys -> Values \cup {None}]
        /\ \A x \in Keys \ {k} : l1'[x] \in {l1[x], None}
        /\ bloom' \subseteq Keys /\ bloom \subseteq bloom'
        /\ k \in bloom' \/ l1'[k] = None
    <3>1. CASE items[t][k] = Deleted
      BY <2>1, <3>1 DEF WriteL1, IInv, TypeOK
    <3>2. CASE items[t][k] # Deleted
      <4>1. items[t][k] \in Values /\ L1Put(k, items[t][k]) /\ BloomAdd(k)
        BY <2>1, <3>2 DEF WriteL1, IInv, TypeOK, ArgsOK
      <4> QED  BY <4>1, L1PutFact, BloomAddFact DEF IInv
    <3> QED  BY <3>1, <3>2
  <2>3. UNCHANGED <<prefetch, batch, db, pc, key, val, ahead, items, latest>>
        /\ todo' = [todo EXCEPT ![t] = @ \ {k}]
    BY <2>1 DEF WriteL1
  <2> QED  BY <2>2, <2>3 DEF IInv, TypeOK, ArgsOK, BloomCovers, batch
<1>14. CASE WriteDb(t)
  <2>1. /\ db' \in [Keys -> Values \cup {None}]
        /\ latest' \in [Keys -> SUBSET (Values \cup {None})]
    BY <1>14 DEF WriteDb, Written, IInv, TypeOK
  <2> QED  BY <1>14, <2>1 DEF WriteDb, Goto, Return, Empty, IInv, TypeOK, ArgsOK,
                BloomCovers, memory, batch
<1>15. CASE WriteFail(t)
  <2>1. latest' \in [Keys -> SUBSET (Values \cup {None})]
    BY <1>15 DEF WriteFail, Written, IInv, TypeOK
  <2> QED  BY <1>15, <2>1 DEF WriteFail, Goto, Return, Empty, IInv, TypeOK, ArgsOK,
                BloomCovers, memory, batch
<1>16. CASE Compact(t)
  <2>1. PICK S \in SUBSET Keys : l1' = [k \in Keys |-> IF k \in S THEN None ELSE l1[k]]
    BY <1>16 DEF Compact
  <2> QED  BY <1>16, <2>1 DEF Compact, IInv, TypeOK, ArgsOK, BloomCovers, batch, locals
<1> QED  BY <1>1, <1>2, <1>3, <1>4, <1>5, <1>6, <1>7, <1>8, <1>9, <1>10, <1>11, <1>12,
             <1>13, <1>14, <1>15, <1>16 DEF Task

(* The invariant holds of every reachable state, crashes included. *)
LEMMA IInvHolds == Spec => []IInv
<1>1. IInv /\ [Next]_vars => IInv'
  <2> SUFFICES ASSUME IInv, [Next]_vars PROVE IInv'  OBVIOUS
  <2>1. CASE Crash
    BY <2>1, StorageAssumption DEF Crash, Empty, IInv, TypeOK, ArgsOK, BloomCovers
  <2>2. CASE \E t \in Tasks : Task(t)
    BY <2>2, TaskInv
  <2>3. CASE UNCHANGED vars
    BY <2>3 DEF vars, memory, batch, locals, IInv, TypeOK, ArgsOK, BloomCovers
  <2> QED  BY <2>1, <2>2, <2>3 DEF Next
<1> QED  BY InitInv, <1>1, PTL DEF Spec

-----------------------------------------------------------------------------
(* TypeCorrect: every field keeps its shape through all operations, failed *)
(* writes and crashes.                                                     *)
THEOREM TypeCorrect == Spec => []TypeOK
<1>1. IInv => TypeOK  BY DEF IInv
<1> QED  BY <1>1, IInvHolds, PTL

(* BloomNeverMisses: get never turns away a key that a cache or the batch  *)
(* holds, however the tasks interleave and wherever the process crashes.   *)
THEOREM BloomNeverMisses == Spec => []BloomCovers
<1>1. IInv => BloomCovers  BY DEF IInv
<1> QED  BY <1>1, IInvHolds, PTL

-----------------------------------------------------------------------------
Queued == {k \in Keys : pending[k] # None}
QueueInv ==
    /\ IsFiniteSet(Queued)
    /\ Cardinality(Queued) < BatchSize /\ Cardinality(Queued) <= counter

(* A put adds at most one key to the batch and one to the counter; whatever *)
(* else touches the batch empties it.                                       *)
LEMMA QueueStep == ASSUME IInv, IInv', QueueInv, [Next]_vars PROVE QueueInv'
<1>a. Cardinality(Queued) \in Nat /\ counter \in Nat /\ counter' \in Nat /\ BatchSize \in Nat \ {0}
  BY StorageAssumption, FS_CardinalityType DEF QueueInv, IInv, TypeOK
<1>1. CASE UNCHANGED batch
  BY <1>1 DEF batch, QueueInv, Queued
<1>2. CASE pending' = Empty(Keys)
  <2>1. Queued' = {}
    BY <1>2 DEF Queued, Empty
  <2> QED  BY <1>a, <2>1, FS_EmptySet DEF QueueInv
<1>3. ASSUME NEW t \in Tasks, PutBatch(t) PROVE QueueInv'
  <2>1. Queued' \in SUBSET (Queued \cup {key[t]}) /\ counter' = counter + 1 /\ counter' < BatchSize
    BY <1>a, <1>3 DEF PutBatch, Full, WithPut, Queued, IInv, TypeOK
  <2>2. /\ IsFiniteSet(Queued \cup {key[t]})
        /\ Cardinality(Queued \cup {key[t]}) \in {Cardinality(Queued), Cardinality(Queued) + 1}
    BY FS_AddElement DEF QueueInv
  <2>3. /\ IsFiniteSet(Queued') /\ Cardinality(Queued') \in Nat
        /\ Cardinality(Queued \cup {key[t]}) \in Nat
        /\ Cardinality(Queued') <= Cardinality(Queued \cup {key[t]})
    BY <2>1, <2>2, FS_Subset, FS_CardinalityType
  <2> QED  BY <1>a, <2>1, <2>2, <2>3 DEF QueueInv
<1>4. UNCHANGED batch \/ pending' = Empty(Keys) \/ \E t \in Tasks : PutBatch(t)
  BY DEF Next, vars, Crash, Task, GetMiss, GetL2, GetPromote, PrefetchHit, PrefetchInsert, PutL1,
       PutFlush, PutFlushFail, FlushBatch, FlushFail, WriteStart, WriteL1, WriteDb, WriteFail, Compact
<1> QED  BY <1>1, <1>2, <1>3, <1>4

LEMMA QueueHolds == Spec => []PendingBounded
<1>1. Init => QueueInv
  <2> SUFFICES ASSUME Init PROVE QueueInv  OBVIOUS
  <2>1. Queued = {} /\ counter = 0 /\ BatchSize > 0
    BY StorageAssumption DEF Init, Queued, Empty
  <2> QED  BY <2>1, FS_EmptySet DEF QueueInv
<1>2. QueueInv => PendingBounded
  BY DEF QueueInv, PendingBounded, Queued
<1>3. IInv /\ IInv' /\ QueueInv /\ [Next]_vars => QueueInv'
  BY QueueStep
<1> QED  BY <1>1, <1>2, <1>3, IInvHolds, PTL DEF Spec

-----------------------------------------------------------------------------
(* A step of the store that neither loses a batch nor mixes the two kinds  *)
(* of keys keeps the acknowledged puts.                                    *)
LEMMA PutsStep ==
    ASSUME ~Trouble, PutKeys \cap BatchKeys = {}, IInv, PutsSurvive, [Next]_vars
    PROVE  PutsSurvive'
<1> USE StorageAssumption
<1>1. CASE UNCHANGED <<pending, db, latest>>
  BY <1>1 DEF PutsSurvive, Flushed
<1>2. ASSUME NEW t \in Tasks, Task(t), ~UNCHANGED <<pending, db, latest>>
      PROVE  PutsSurvive'
  <2>0. PutBatch(t) \/ PutFlush(t) \/ FlushBatch(t) \/ WriteDb(t)
    BY <1>2 DEF Trouble, Task, GetMiss, GetL2, GetPromote, PrefetchHit, PrefetchInsert, PutL1,
         WriteStart, WriteL1, Compact, batch
  <2>1. CASE PutBatch(t)
    <3>1. key[t] \in Keys /\ val[t] \in Values
      BY <2>1 DEF PutBatch, IInv, TypeOK, ArgsOK
    <3>2. \A k \in Keys :
            /\ pending'[k] = IF k = key[t] THEN val[t] ELSE pending[k]
            /\ latest'[k] = IF k = key[t] THEN {val[t]} ELSE latest[k]
            /\ db'[k] = db[k]
      BY <2>1, <3>1 DEF PutBatch, WithPut, Acknowledge, IInv, TypeOK
    <3> QED  BY <3>1, <3>2 DEF PutsSurvive, Flushed, Keys
  <2>2. CASE PutFlush(t)
    <3>1. key[t] \in Keys /\ val[t] \in Values
      BY <2>2 DEF PutFlush, IInv, TypeOK, ArgsOK
    <3>2. WithPut(t) \in [Keys -> Values \cup {None}]
      BY <3>1 DEF WithPut, IInv, TypeOK
    <3>3. \A k \in Keys : db'[k] = IF WithPut(t)[k] # None THEN WithPut(t)[k] ELSE db[k]
      BY <2>2 DEF PutFlush, Override, IInv, TypeOK
    <3>4. \A k \in Keys : pending'[k] = None
      BY <2>2 DEF PutFlush, Empty
    <3>5. \A k \in Keys : WithPut(t)[k] = IF k = key[t] THEN val[t] ELSE pending[k]
      BY <3>1 DEF WithPut, IInv, TypeOK
    <3>6. \A k \in Keys : latest'[k] = IF k = key[t] THEN {val[t]} ELSE latest[k]
      BY <2>2, <3>1 DEF PutFlush, Acknowledge, IInv, TypeOK
    <3>7. ASSUME NEW k \in PutKeys PROVE Flushed(k)' \in latest'[k]
      BY <3>1, <3>3, <3>4, <3>5, <3>6 DEF PutsSurvive, Flushed, Keys
    <3> QED  BY <3>7 DEF PutsSurvive
  <2>3. CASE FlushBatch(t)
    <3>1. \A k \in Keys : db'[k] = IF pending[k] # None THEN pending[k] ELSE db[k]
      BY <2>3 DEF FlushBatch, Override, IInv, TypeOK
    <3>2. \A k \in Keys : pending'[k] = None /\ latest' = latest
      BY <2>3 DEF FlushBatch, Empty
    <3> QED  BY <3>1, <3>2 DEF PutsSurvive, Flushed, Keys
  <2>4. CASE WriteDb(t)
    <3>1. \A k \in PutKeys : items[t][k] = None /\ k \in Keys
      BY DEF IInv, ArgsOK, Keys
    <3>2. \A k \in PutKeys : db'[k] = db[k] /\ latest'[k] = latest[k]
      BY <2>4, <3>1 DEF WriteDb, Written
    <3> QED  BY <2>4, <3>2 DEF WriteDb, PutsSurvive, Flushed, batch
  <2> QED  BY <2>0, <2>1, <2>2, <2>3, <2>4
<1>3. CASE Crash  BY <1>3 DEF Trouble
<1>4. CASE UNCHANGED vars  BY <1>1, <1>4 DEF vars, batch
<1> QED  BY <1>1, <1>2, <1>3, <1>4 DEF Next

(* AckedPutsSurvive: while the process runs and RocksDB accepts writes, no *)
(* interleaving of puts, flushes and batches loses a put that returned Ok. *)
THEOREM AckedPutsSurvive ==
    ASSUME "crash" \notin Ops, "fail" \notin Ops, PutKeys \cap BatchKeys = {}
    PROVE  Spec => []PutsSurvive
<1>1. Init => PutsSurvive
  BY DEF Init, Empty, PutsSurvive, Flushed, Keys
<1>2. IInv /\ PutsSurvive /\ [Next]_vars => PutsSurvive'
  <2>1. ~Trouble
    BY DEF Trouble, Crash, PutFlushFail, FlushFail, WriteFail
  <2> QED  BY <2>1, PutsStep
<1> QED  BY <1>1, <1>2, IInvHolds, PTL DEF Spec

-----------------------------------------------------------------------------
(* CachedOK: what L1 holds of a batch key may be read, except that the     *)
(* items which a batch has put into L1 are there before they are written.  *)
InL1(t, k) == items[t][k] # None /\ k \notin todo[t]
CachedOK ==
    \A k \in BatchKeys :
        /\ \A t \in Tasks : InL1(t, k) => l1[k] \in {None, items[t][k]}
        /\ (\A t \in Tasks : ~InL1(t, k)) => l1[k] = None \/ l1[k] \in latest[k]

(* ReadOK: RocksDB holds a readable value of every batch key, and so does  *)
(* a get on its way to L1.                                                 *)
ReadOK ==
    /\ \A k \in BatchKeys : db[k] \in latest[k] /\ pending[k] = None
    /\ \A t \in Tasks : pc[t] = "promote" /\ key[t] \in BatchKeys =>
          val[t] \in latest[key[t]]

(* PlainOK: nobody prefetches, and only a write has items. *)
PlainOK ==
    /\ prefetch = Empty(Keys)
    /\ \A t \in Tasks :
          /\ pc[t] # "prefetched" /\ ahead[t] = FALSE
          /\ pc[t] # "write" => items[t] = Empty(Keys)

(* Alone: at most one task is inside an operation, and none prefetches.    *)
Alone ==
    \A t \in Tasks : ~ahead[t] /\ \A u \in Tasks \ {t} : pc[t] = "idle" \/ pc[u] = "idle"

BInv == IInv /\ CachedOK /\ ReadOK /\ PlainOK

(* The same of one task, which is all there is while the others are idle.  *)
CachedFor(t) ==
    \A k \in BatchKeys :
        IF InL1(t, k) THEN l1[k] \in {None, items[t][k]} ELSE l1[k] = None \/ l1[k] \in latest[k]
ReadFor(t) ==
    /\ \A k \in BatchKeys : db[k] \in latest[k] /\ pending[k] = None
    /\ pc[t] = "promote" /\ key[t] \in BatchKeys => val[t] \in latest[key[t]]
PlainFor(t) ==
    /\ prefetch = Empty(Keys)
    /\ pc[t] # "prefetched" /\ ahead[t] = FALSE
    /\ pc[t] # "write" => items[t] = Empty(Keys)
Safe(t) == CachedFor(t) /\ ReadFor(t) /\ PlainFor(t)

(* A step of a task leaves what the others keep for themselves. *)
LEMMA OthersKeep ==
    ASSUME IInv, NEW t \in Tasks, Task(t), NEW u \in Tasks \ {t}
    PROVE  /\ pc'[u] = pc[u] /\ key'[u] = key[u] /\ val'[u] = val[u] /\ ahead'[u] = ahead[u]
           /\ items'[u] = items[u] /\ todo'[u] = todo[u]
BY DEF Task, GetMiss, GetL2, GetPromote, PrefetchHit, PrefetchInsert, PutL1, PutBatch, PutFlush,
     PutFlushFail, FlushBatch, FlushFail, WriteStart, WriteL1, WriteDb, WriteFail, Compact,
     Goto, Return, locals, IInv, TypeOK

(* A step inside an operation of the only task that is in one keeps the    *)
(* batch keys readable, as far as that task is concerned.                  *)
LEMMA OperationStep ==
    ASSUME NEW t \in Tasks, Large = {}, PutKeys \cap BatchKeys = {}, IInv, IInv', Safe(t),
           ahead'[t] = FALSE, Task(t), pc[t] # "idle" \/ pc'[t] # "idle"
    PROVE  Safe(t)'
<1> USE StorageAssumption
<1>a. BatchKeys \subseteq Keys  BY DEF Keys
<1>s. CachedFor(t) /\ ReadFor(t) /\ PlainFor(t)  BY DEF Safe
<1> USE <1>s
<1>1. CASE \E k \in Keys, isAhead \in BOOLEAN : GetMiss(t, k, isAhead)
  <2>1. PICK k \in Keys, isAhead \in BOOLEAN : GetMiss(t, k, isAhead)  BY <1>1
  <2>2. isAhead = FALSE  BY <2>1 DEF GetMiss, IInv, TypeOK
  <2> QED  BY <2>1, <2>2, <1>a DEF Safe, GetMiss, Goto, IInv, TypeOK, CachedFor, InL1, ReadFor,
                PlainFor, memory, batch
<1>2. CASE GetL2(t)
  <2>1. /\ pc[t] = "get_l2" /\ key[t] \in Keys
        /\ UNCHANGED <<bloom, prefetch, l1, pending, counter, db, latest>>
    BY <1>2 DEF GetL2, IInv, ArgsOK, TypeOK, memory, batch
  <2>2. CASE Return(t)
    BY <2>1, <2>2, <1>a DEF Safe, Goto, Return, Empty, IInv, TypeOK, CachedFor, InL1, ReadFor, PlainFor
  <2>3. CASE /\ val' = [val EXCEPT ![t] = db[key[t]]]
             /\ Goto(t, "promote")
             /\ UNCHANGED <<key, ahead, items, todo>>
    BY <2>1, <2>3, <1>a DEF Safe, Goto, IInv, TypeOK, CachedFor, InL1, ReadFor, PlainFor
  <2> QED  BY <1>2, <2>2, <2>3 DEF GetL2
<1>3. CASE GetPromote(t)
  <2>1. /\ key[t] \in Keys /\ val[t] \in Values /\ pc[t] = "promote"
        /\ L1Put(key[t], val[t])
        /\ UNCHANGED <<bloom, prefetch, pending, counter, db, latest>>
        /\ Return(t)
    BY <1>3 DEF GetPromote, IInv, ArgsOK, TypeOK, PlainFor, batch
  <2>2. /\ \A x \in Keys \ {key[t]} : l1'[x] \in {l1[x], None}
        /\ l1'[key[t]] = val[t]
    BY <2>1, L1PutFact DEF IInv
  <2>3. items[t] = Empty(Keys)  BY <2>1 DEF Safe, PlainFor
  <2>4. ReadFor(t)' /\ PlainFor(t)'
    BY <2>1 DEF Goto, Return, Empty, IInv, TypeOK, ReadFor, PlainFor
  <2>5. CachedFor(t)'
    <3>1. /\ items'[t] = Empty(Keys)
          /\ \A k \in BatchKeys : ~InL1(t, k) /\ ~InL1(t, k)'
      BY <2>1, <2>3, <1>a DEF Return, Empty, IInv, TypeOK, InL1
    <3> QED  BY <2>1, <2>2, <3>1, <1>a DEF CachedFor, ReadFor
  <2> QED  BY <2>4, <2>5 DEF Safe
<1>4. CASE \E k \in Keys : PrefetchHit(t, k)
  BY <1>4 DEF PrefetchHit, IInv, TypeOK
<1>5. CASE PrefetchInsert(t)
  BY <1>5 DEF PrefetchInsert, Safe, PlainFor
<1>6. CASE \E k \in PutKeys, v \in Values : PutL1(t, k, v)
  <2>1. PICK k \in PutKeys, v \in Values : PutL1(t, k, v)  BY <1>6
  <2>2. k \in Keys  BY DEF Keys
  <2>3. \A x \in Keys \ {k} : l1'[x] \in {l1[x], None}
    BY <2>1, <2>2, L1PutFact DEF PutL1, IInv
  <2>4. ReadFor(t)' /\ PlainFor(t)'
    BY <2>1, <2>2, <1>a DEF PutL1, Goto, IInv, TypeOK, ReadFor, PlainFor, batch
  <2>5. CachedFor(t)'
    BY <2>1, <2>2, <2>3, <1>a DEF PutL1, Safe, CachedFor, InL1
  <2> QED  BY <2>4, <2>5 DEF Safe
<1>7. CASE PutBatch(t) \/ PutFlush(t) \/ PutFlushFail(t)
  <2>1. /\ key[t] \in PutKeys /\ key[t] \in Keys /\ val[t] \in Values
        /\ pc[t] = "put_batch" /\ Return(t) /\ UNCHANGED memory
    BY <1>7 DEF PutBatch, PutFlush, PutFlushFail, IInv, ArgsOK, TypeOK, Keys
  <2>2. \A k \in BatchKeys : latest'[k] = latest[k]
    BY <1>7, <2>1, <1>a DEF PutBatch, PutFlush, PutFlushFail, Acknowledge, IInv, TypeOK
  <2>3. \A k \in BatchKeys : WithPut(t)[k] = None
    BY <2>1, <1>a DEF WithPut, IInv, TypeOK, ReadFor
  <2>4. \A k \in BatchKeys : db'[k] = db[k] /\ pending'[k] = None
    BY <1>7, <2>3, <1>a DEF PutBatch, PutFlush, PutFlushFail, Override, Empty, IInv,
         TypeOK, ReadFor, memory
  <2> QED  BY <2>1, <2>2, <2>4, <1>a DEF Safe, Goto, Return, Empty, IInv, TypeOK, CachedFor, InL1,
                ReadFor, PlainFor, memory
<1>8. CASE FlushBatch(t) \/ FlushFail(t) \/ Compact(t)
  BY <1>8 DEF FlushBatch, FlushFail, Compact
<1>9. CASE \E f \in Batches : WriteStart(t, f)
  <2>1. PICK f \in Batches : WriteStart(t, f)  BY <1>9
  <2>2. \A k \in BatchKeys : items'[t][k] # None => k \in todo'[t]
    BY <2>1, <1>a DEF WriteStart, IInv, TypeOK
  <2>3. items[t] = Empty(Keys)  BY <2>1 DEF WriteStart, Safe, PlainFor
  <2>4. CachedFor(t)'
    BY <2>1, <2>2, <2>3, <1>a DEF WriteStart, Safe, CachedFor, InL1, Empty, memory
  <2> QED  BY <2>1, <2>4 DEF Safe, WriteStart, Goto, IInv, TypeOK, ReadFor, PlainFor, memory,
                batch
<1>10. CASE \E k \in Keys : WriteL1(t, k)
  <2>1. PICK k \in Keys : WriteL1(t, k)  BY <1>10
  <2>2. /\ UNCHANGED <<prefetch, pending, db, pc, key, val, ahead, items, latest>>
        /\ todo' = [todo EXCEPT ![t] = @ \ {k}] /\ k \in todo[t] /\ pc[t] = "write"
    BY <2>1 DEF WriteL1, batch
  <2>3. /\ \A x \in Keys \ {k} : l1'[x] \in {l1[x], None}
        /\ l1'[k] \in {None, items[t][k]}
    <3>1. CASE items[t][k] = Deleted
      BY <2>1, <3>1 DEF WriteL1, IInv, TypeOK
    <3>2. CASE items[t][k] # Deleted
      <4>1. items[t][k] \in Values /\ L1Put(k, items[t][k])
        BY <2>1, <3>2 DEF WriteL1, IInv, TypeOK, ArgsOK
      <4> QED  BY <4>1, L1PutFact DEF IInv
    <3> QED  BY <3>1, <3>2
  <2>4. CachedFor(t)'
    BY <2>2, <2>3, <1>a DEF IInv, TypeOK, CachedFor, InL1
  <2> QED  BY <2>2, <2>4 DEF Safe, ReadFor, PlainFor
<1>11. CASE WriteDb(t)
  <2>1. /\ pc[t] = "write" /\ todo[t] = {} /\ Return(t)
        /\ UNCHANGED <<bloom, prefetch, l1, pending, counter>>
        /\ \A k \in Keys : db'[k] = Written(db[k], items[t][k])
        /\ \A k \in Keys : latest'[k] =
              IF items[t][k] = None THEN latest[k] ELSE {Written(None, items[t][k])}
    BY <1>11 DEF WriteDb, memory, batch
  <2>2. items'[t] = Empty(Keys) /\ todo'[t] = {}
    BY <2>1 DEF Return, IInv, TypeOK
  <2>3. ASSUME NEW k \in BatchKeys
        PROVE  db'[k] \in latest'[k] /\ (l1[k] # None => l1[k] \in latest'[k])
    <3>1. /\ k \in Keys /\ l1[k] \in Values \cup {None} /\ db[k] \in latest[k]
          /\ items[t][k] = None => l1[k] = None \/ l1[k] \in latest[k]
          /\ items[t][k] # None => l1[k] \in {None, items[t][k]}
      BY <2>1, <1>a DEF IInv, TypeOK, CachedFor, InL1, ReadFor
    <3>2. CASE items[t][k] = None
      BY <2>1, <3>1, <3>2 DEF Written
    <3>3. CASE items[t][k] # None
      BY <2>1, <3>1, <3>3 DEF Written
    <3> QED  BY <3>2, <3>3
  <2>4. CachedFor(t)'  BY <2>1, <2>2, <2>3, <1>a DEF CachedFor, InL1, Empty
  <2>5. ReadFor(t)' /\ PlainFor(t)'
    BY <2>1, <2>3 DEF Goto, Return, Empty, IInv, TypeOK, ReadFor, PlainFor
  <2> QED  BY <2>4, <2>5 DEF Safe
<1>12. CASE WriteFail(t)
  <2>1. /\ pc[t] = "write" /\ todo[t] = {} /\ Return(t)
        /\ UNCHANGED <<bloom, prefetch, l1, pending, counter, db>>
        /\ \A k \in Keys : latest'[k] = IF items[t][k] = None THEN latest[k]
                                        ELSE latest[k] \cup {Written(None, items[t][k])}
    BY <1>12 DEF WriteFail, memory, batch
  <2>2. items'[t] = Empty(Keys) /\ todo'[t] = {}
    BY <2>1 DEF Return, IInv, TypeOK
  <2>3. ASSUME NEW k \in BatchKeys
        PROVE  db'[k] \in latest'[k] /\ (l1[k] # None => l1[k] \in latest'[k])
    BY <2>1, <1>a, SMTT(30) DEF Written, IInv, TypeOK, CachedFor, InL1, ReadFor
  <2>4. CachedFor(t)'  BY <2>1, <2>2, <2>3, <1>a DEF CachedFor, InL1, Empty
  <2>5. ReadFor(t)' /\ PlainFor(t)'
    BY <2>1, <2>3 DEF Goto, Return, Empty, IInv, TypeOK, ReadFor, PlainFor
  <2> QED  BY <2>4, <2>5 DEF Safe
<1> QED  BY <1>1, <1>2, <1>3, <1>4, <1>5, <1>6, <1>7, <1>8, <1>9, <1>10, <1>11, <1>12 DEF Task

(* A step of a task that is alone keeps them readable. *)
LEMMA BatchStep ==
    ASSUME NEW t \in Tasks, Alone, Alone', Large = {}, PutKeys \cap BatchKeys = {},
           BInv, IInv', Task(t)
    PROVE  BInv'
<1>a. BatchKeys \subseteq Keys  BY DEF Keys
<1>b. \A u \in Tasks \ {t} :
         /\ pc'[u] = pc[u] /\ key'[u] = key[u] /\ val'[u] = val[u] /\ ahead'[u] = ahead[u]
         /\ items'[u] = items[u] /\ todo'[u] = todo[u]
  BY OthersKeep DEF BInv
<1>1. CASE pc[t] # "idle" \/ pc'[t] # "idle"
  <2>1. \A u \in Tasks \ {t} : pc[u] = "idle" /\ pc'[u] = "idle"
    BY <1>1, <1>b DEF Alone
  <2>2. ASSUME NEW u \in Tasks \ {t}, NEW k \in BatchKeys PROVE ~InL1(u, k) /\ ~InL1(u, k)'
    BY <1>a, <1>b, <2>1 DEF BInv, PlainOK, Empty, InL1
  <2>3. Safe(t)
    <3>1. CachedFor(t)  BY <2>2 DEF BInv, CachedOK, CachedFor
    <3> QED  BY <3>1 DEF Safe, ReadFor, PlainFor, BInv, ReadOK, PlainOK
  <2>4. Safe(t)'
    BY <1>1, <2>3, OperationStep DEF BInv, Alone, IInv, TypeOK
  <2>5. CachedOK'
    BY <2>2, <2>4 DEF Safe, CachedOK, CachedFor
  <2>6. ReadOK' /\ PlainOK'
    BY <1>b, <2>1, <2>4 DEF Safe, ReadFor, PlainFor, BInv, ReadOK, PlainOK
  <2> QED  BY <2>5, <2>6 DEF BInv
<1>2. CASE pc[t] = "idle" /\ pc'[t] = "idle"
  <2>1. FlushBatch(t) \/ FlushFail(t) \/ Compact(t)
    BY <1>2 DEF Task, GetMiss, GetL2, GetPromote, PrefetchHit, PrefetchInsert, PutL1, PutBatch,
         PutFlush, PutFlushFail, WriteStart, WriteL1, WriteDb, WriteFail, Goto, BInv, IInv, TypeOK
  <2>2. UNCHANGED <<bloom, prefetch, pc, key, val, ahead, items, todo, latest>>
    BY <2>1 DEF FlushBatch, FlushFail, Compact, memory, locals
  <2>3. \A k \in BatchKeys : db'[k] = db[k] /\ pending'[k] = None
    BY <2>1, <1>a DEF FlushBatch, FlushFail, Compact, batch, Override, Empty, BInv, IInv, TypeOK,
         ReadOK
  <2>4. \A k \in BatchKeys : l1'[k] \in {l1[k], None}
    BY <2>1, <1>a DEF FlushBatch, FlushFail, Compact, memory
  <2> QED  BY <2>2, <2>3, <2>4 DEF BInv, CachedOK, ReadOK, PlainOK, InL1
<1> QED  BY <1>1, <1>2

(* A crash between any two steps leaves what RocksDB holds. *)
LEMMA BatchNext ==
    ASSUME Alone, Alone', Large = {}, PutKeys \cap BatchKeys = {}, BInv, IInv', [Next]_vars
    PROVE  BInv'
<1>1. CASE Crash
  BY <1>1 DEF Crash, Empty, BInv, CachedOK, ReadOK, PlainOK, InL1, Keys
<1>2. CASE \E t \in Tasks : Task(t)
  BY <1>2, BatchStep
<1>3. CASE UNCHANGED vars
  BY <1>3 DEF vars, memory, batch, locals, BInv, CachedOK, ReadOK, PlainOK, InL1
<1> QED  BY <1>1, <1>2, <1>3 DEF Next

LEMMA BatchInit == Init => BInv /\ Alone
<1> SUFFICES ASSUME Init PROVE BInv /\ Alone  OBVIOUS
<1>1. IInv  BY InitInv
<1> QED  BY <1>1 DEF Init, BInv, CachedOK, ReadOK, PlainOK, InL1, Alone, Empty, Keys

LEMMA BatchReads == ASSUME BInv PROVE BatchReadsBack
<1> SUFFICES ASSUME Idle, NEW k \in BatchKeys
             PROVE (k \in bloom => Lookup(k) \in latest[k]) /\ db[k] \in latest[k]
  BY DEF BatchReadsBack
<1>1. prefetch[k] = None /\ k \in Keys /\ \A t \in Tasks : ~InL1(t, k)
  BY DEF Idle, BInv, PlainOK, Empty, Keys, InL1
<1> QED  BY <1>1 DEF Lookup, BInv, CachedOK, ReadOK

(* BatchesReadBack: used by one task and without prefetches, a batch key   *)
(* reads as its last successful write, or one that failed after it,        *)
(* wherever the process crashes and whatever L1 evicts.                    *)
THEOREM BatchesReadBack ==
    ASSUME NEW t, Tasks = {t}, "prefetch" \notin Ops, Large = {},
           PutKeys \cap BatchKeys = {}
    PROVE  Spec => []BatchReadsBack
<1> DEFINE Inv == BInv /\ Alone
<1>1. Inv /\ IInv' /\ [Next]_vars => Inv'
  <2> SUFFICES ASSUME Inv, IInv', [Next]_vars PROVE Inv'  OBVIOUS
  <2>1. ahead'[t] = FALSE
    <3>1. ahead[t] = FALSE /\ ahead \in [Tasks -> BOOLEAN]
      BY DEF BInv, PlainOK, IInv, TypeOK
    <3> QED
      BY <3>1 DEF Next, vars, Crash, Task, GetMiss, GetL2, GetPromote, PrefetchHit, PrefetchInsert,
         PutL1, PutBatch, PutFlush, PutFlushFail, FlushBatch, FlushFail, WriteStart, WriteL1,
         WriteDb, WriteFail, Compact, Goto, Return, locals
  <2> QED  BY <2>1, BatchNext DEF Alone
<1>2. Init => Inv  BY BatchInit
<1>3. Inv => BatchReadsBack  BY BatchReads
<1> QED  BY <1>1, <1>2, <1>3, IInvHolds, PTL DEF Spec

-----------------------------------------------------------------------------
(* Kept: what the histories of MCLayeredStorage add to the invariant.      *)
Kept == (~shared => Alone /\ BInv) /\ (~troubled => PutsSurvive)

LEMMA KeptStep ==
    ASSUME Large = {}, PutKeys \cap BatchKeys = {}, IInv, IInv', Kept,
           [MCNext]_<<vars, shared, troubled>>
    PROVE  Kept'
<1>1. CASE UNCHANGED <<vars, shared, troubled>>
  BY <1>1 DEF Kept, vars, memory, batch, locals, Alone, BInv, IInv, TypeOK, ArgsOK, BloomCovers,
       CachedOK, ReadOK, PlainOK, InL1, PutsSurvive, Flushed
<1>2. CASE MCNext
  <2>1. ASSUME ~shared' PROVE Alone' /\ BInv'
    <3>1. ~shared /\ Alone'
      BY <1>2, <2>1 DEF MCNext, Alone
    <3> QED  BY <1>2, <3>1, BatchNext DEF MCNext, Kept
  <2>2. ASSUME ~troubled' PROVE PutsSurvive'
    <3>1. ~troubled /\ ~Trouble /\ Next
      BY <1>2, <2>2 DEF MCNext
    <3> QED  BY <3>1, PutsStep DEF Kept
  <2> QED  BY <2>1, <2>2 DEF Kept
<1> QED  BY <1>1, <1>2

(* WritesAlwaysKept: for any number of tasks, keys and values, the batch   *)
(* stays bounded, a batch write reads back while operations follow one     *)
(* another, through crashes and refused writes, and a put survives any     *)
(* interleaving until a crash or a refused write.  A value too large for   *)
(* L1 and a key written in both ways are the two cases that break this.    *)
THEOREM WritesAlwaysKept ==
    ASSUME Large = {}, PutKeys \cap BatchKeys = {}
    PROVE  MCSpec => []WritesKept
<1>1. MCInit => Kept
  BY BatchInit DEF MCInit, Kept, Init, Empty, PutsSurvive, Flushed, Keys
<1>2. IInv /\ IInv' /\ Kept /\ [MCNext]_<<vars, shared, troubled>> => Kept'
  BY KeptStep
<1>3. Kept /\ PendingBounded => WritesKept
  BY BatchReads DEF Kept, WritesKept, AloneBatchReadsBack, CalmPutsSurvive
<1>4. MCInit => Init  BY DEF MCInit
<1>5. [MCNext]_<<vars, shared, troubled>> => [Next]_vars  BY DEF MCNext
<1>6. MCSpec => Spec  BY <1>4, <1>5, PTL DEF MCSpec, Spec
<1> QED  BY <1>1, <1>2, <1>3, <1>6, IInvHolds, QueueHolds, PTL DEF MCSpec

(* FilterAlwaysCovers: the store keeps its shape and its filter covers what *)
(* it holds, in every interleaving, with crashes and refused writes.        *)
THEOREM FilterAlwaysCovers == Spec => []FilterCovers
<1>1. IInv => FilterCovers  BY DEF IInv, FilterCovers
<1> QED  BY <1>1, IInvHolds, PTL
=============================================================================
