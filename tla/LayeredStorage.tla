--------------------------- MODULE LayeredStorage ---------------------------
(***************************************************************************)
(* The layered store of storage/layered.rs: a Bloom filter, a prefetch     *)
(* cache and the L1 cache in memory, over RocksDB.  put collects its       *)
(* writes in a shared batch that is written when it is full or flushed;    *)
(* batch_put, delete and batch_delete write RocksDB at once.  An operation *)
(* is one action per stretch between two of its accesses to shared state.  *)
(*                                                                         *)
(* L1 is the LossyCache that MemoryCache implements.  The cold layer never *)
(* answers, and of RocksDB only the map is kept: compact_range changes     *)
(* nothing and a write is atomic and survives a crash of the process.      *)
(***************************************************************************)
EXTENDS Naturals, FiniteSets

CONSTANTS Tasks,      \* the tasks that share the store
          Writers,    \* the tasks that write batches
          PutKeys,    \* the keys that are written with put
          BatchKeys,  \* the keys that are written with batch_put or deleted
          Values,     \* values
          Large,      \* the values that do not fit into L1
          BatchSize,  \* BATCH_WRITE_SIZE
          Ops,        \* what happens: operations, failing writes, crashes
          Deleted,    \* the value of a key that a batch deletes
          None        \* no value

Keys == PutKeys \cup BatchKeys

ASSUME StorageAssumption ==
    /\ BatchSize \in Nat \ {0}
    /\ Large \subseteq Values /\ Writers \subseteq Tasks
    /\ None \notin Values \cup Keys /\ Deleted \notin Values /\ None # Deleted

VARIABLES
    bloom,      \* the keys for which might_contain answers true
    prefetch,   \* [Keys -> value or None]: prefetch_cache
    l1,         \* [Keys -> value or None]: memory_cache
    pending,    \* [Keys -> value or None]: write_batch
    counter,    \* batch_counter; all counts from BatchSize on are alike
    db,         \* [Keys -> value or None]: RocksDB
    pc,         \* where each task is
    key,        \* the key of a task's get or put
    val,        \* the value a task has read or puts
    ahead,      \* whether a task's get is a prefetch
    items,      \* the writes of a task's batch
    todo,       \* the keys of the batch that L1 has not seen
    latest      \* history: the values that a read may answer

memory == <<bloom, prefetch, l1>>
batch == <<pending, counter>>
locals == <<key, val, ahead, items, todo>>
vars == <<memory, batch, db, pc, locals, latest>>

Empty(S) == [x \in S |-> None]
(* f with the keys that g has. *)
Override(f, g) == [x \in DOMAIN f |-> IF g[x] # None THEN g[x] ELSE f[x]]

(* The store as new opens it over a database. *)
Init ==
    /\ bloom = {} /\ prefetch = Empty(Keys) /\ l1 = Empty(Keys)
    /\ pending = Empty(Keys) /\ counter = 0
    /\ db = Empty(Keys)
    /\ pc = [t \in Tasks |-> "idle"]
    /\ key = Empty(Tasks) /\ val = Empty(Tasks)
    /\ ahead = [t \in Tasks |-> FALSE]
    /\ items = [t \in Tasks |-> Empty(Keys)]
    /\ todo = [t \in Tasks |-> {}]
    /\ latest = [k \in Keys |-> {None}]

Goto(t, label) == pc' = [pc EXCEPT ![t] = label]
Return(t) ==
    /\ Goto(t, "idle")
    /\ key' = [key EXCEPT ![t] = None]
    /\ val' = [val EXCEPT ![t] = None]
    /\ ahead' = [ahead EXCEPT ![t] = FALSE]
    /\ items' = [items EXCEPT ![t] = Empty(Keys)]
    /\ todo' = [todo EXCEPT ![t] = {}]

(* The bits of k are set; bits shared with other keys may complete those. *)
BloomAdd(k) == \E S \in SUBSET Keys : bloom' = bloom \cup {k} \cup S

(* MemoryCache::put ignores a value that is too large, and may evict any   *)
(* other keys for one that is not.                                         *)
L1Put(k, v) ==
    IF v \in Large THEN UNCHANGED l1
    ELSE \E S \in SUBSET (Keys \ {k}) :
            l1' = [x \in Keys |-> IF x = k THEN v ELSE IF x \in S THEN None ELSE l1[x]]

-----------------------------------------------------------------------------
(* get.  An answer of the Bloom filter, the prefetch cache or L1 changes   *)
(* nothing and is no action, unless it is for a prefetch.                  *)

GetMiss(t, k, isAhead) ==
    /\ pc[t] = "idle" /\ (IF isAhead THEN "prefetch" ELSE "get") \in Ops
    /\ k \in bloom /\ prefetch[k] = None /\ l1[k] = None
    /\ key' = [key EXCEPT ![t] = k]
    /\ ahead' = [ahead EXCEPT ![t] = isAhead]
    /\ Goto(t, "get_l2")
    /\ UNCHANGED <<memory, batch, db, val, items, todo, latest>>

GetL2(t) ==
    LET found == db[key[t]]
    IN /\ pc[t] = "get_l2"
       /\ \/ found = None /\ Return(t)
          \/ /\ found # None
             /\ val' = [val EXCEPT ![t] = found]
             /\ Goto(t, "promote")
             /\ UNCHANGED <<key, ahead, items, todo>>
       /\ UNCHANGED <<memory, batch, db, latest>>

GetPromote(t) ==
    /\ pc[t] = "promote"
    /\ L1Put(key[t], val[t])
    /\ \/ ~ahead[t] /\ Return(t)
       \/ ahead[t] /\ Goto(t, "prefetched") /\ UNCHANGED locals
    /\ UNCHANGED <<bloom, prefetch, batch, db, latest>>

(* get_with_prefetch spawns a get whose answer enters the prefetch cache. *)
PrefetchHit(t, k) ==
    /\ pc[t] = "idle" /\ "prefetch" \in Ops
    /\ k \in bloom /\ prefetch[k] = None /\ l1[k] # None
    /\ key' = [key EXCEPT ![t] = k]
    /\ val' = [val EXCEPT ![t] = l1[k]]
    /\ ahead' = [ahead EXCEPT ![t] = TRUE]
    /\ Goto(t, "prefetched")
    /\ UNCHANGED <<memory, batch, db, items, todo, latest>>

PrefetchInsert(t) ==
    /\ pc[t] = "prefetched"
    /\ prefetch' = [prefetch EXCEPT ![key[t]] = val[t]]
    /\ Return(t)
    /\ UNCHANGED <<bloom, l1, batch, db, latest>>

-----------------------------------------------------------------------------
(* put: the Bloom filter and L1, then the shared batch under its lock. *)

PutL1_NoBloom(t, k, v) ==
    /\ pc[t] = "idle" /\ "put" \in Ops
    /\ L1Put(k, v)
    /\ key' = [key EXCEPT ![t] = k]
    /\ val' = [val EXCEPT ![t] = v]
    /\ Goto(t, "put_batch")
    /\ UNCHANGED <<bloom, prefetch, batch, db, ahead, items, todo, latest>>

PutL1(t, k, v) ==
    /\ pc[t] = "idle" /\ "put" \in Ops
    /\ BloomAdd(k)
    /\ L1Put(k, v)
    /\ key' = [key EXCEPT ![t] = k]
    /\ val' = [val EXCEPT ![t] = v]
    /\ Goto(t, "put_batch")
    /\ UNCHANGED <<prefetch, batch, db, ahead, items, todo, latest>>

Full == counter + 1 >= BatchSize
WithPut(t) == [pending EXCEPT ![key[t]] = val[t]]
Acknowledge(t) == latest' = [latest EXCEPT ![key[t]] = {val[t]}]

PutBatch(t) ==
    /\ pc[t] = "put_batch" /\ ~Full
    /\ pending' = WithPut(t)
    /\ counter' = counter + 1
    /\ Acknowledge(t)
    /\ Return(t)
    /\ UNCHANGED <<memory, db>>

PutFlush_Pending(t) ==
    /\ pc[t] = "put_batch" /\ Full
    /\ db' = Override(db, pending)
    /\ pending' = Empty(Keys) /\ counter' = 0
    /\ Acknowledge(t)
    /\ Return(t)
    /\ UNCHANGED memory

PutFlush(t) ==
    /\ pc[t] = "put_batch" /\ Full
    /\ db' = Override(db, WithPut(t))
    /\ pending' = Empty(Keys) /\ counter' = 0
    /\ Acknowledge(t)
    /\ Return(t)
    /\ UNCHANGED memory

(* RocksDB refuses the write: the batch has been replaced already. *)
PutFlushFail(t) ==
    /\ pc[t] = "put_batch" /\ Full /\ "fail" \in Ops
    /\ pending' = Empty(Keys) /\ counter' = BatchSize
    /\ latest' = [latest EXCEPT ![key[t]] = @ \cup {val[t]}]
    /\ Return(t)
    /\ UNCHANGED <<memory, db>>

(* flush_batch *)
FlushBatch(t) ==
    /\ pc[t] = "idle" /\ "flush" \in Ops
    /\ pending # Empty(Keys)
    /\ db' = Override(db, pending)
    /\ pending' = Empty(Keys) /\ counter' = 0
    /\ UNCHANGED <<memory, pc, locals, latest>>

FlushFail(t) ==
    /\ pc[t] = "idle" /\ "flush" \in Ops /\ "fail" \in Ops
    /\ pending # Empty(Keys)
    /\ pending' = Empty(Keys)
    /\ UNCHANGED <<memory, counter, db, pc, locals, latest>>

-----------------------------------------------------------------------------
(* batch_put, and batch_delete (of which delete is the case of one key):   *)
(* item by item in memory, then one write of RocksDB.                      *)

Batches ==
    {f \in [BatchKeys -> Values \cup {None}] : \E k \in BatchKeys : f[k] # None} \cup
    {f \in [BatchKeys -> {Deleted, None}] : \E k \in BatchKeys : f[k] # None}

WriteStart(t, f) ==
    /\ pc[t] = "idle" /\ "batch" \in Ops /\ t \in Writers
    /\ items' = [items EXCEPT ![t] = [k \in Keys |-> IF k \in BatchKeys THEN f[k] ELSE None]]
    /\ todo' = [todo EXCEPT ![t] = {k \in BatchKeys : f[k] # None}]
    /\ Goto(t, "write")
    /\ UNCHANGED <<memory, batch, db, key, val, ahead, latest>>

WriteL1(t, k) ==
    /\ pc[t] = "write" /\ k \in todo[t]
    /\ \/ /\ items[t][k] = Deleted
          /\ l1' = [l1 EXCEPT ![k] = None]
          /\ UNCHANGED bloom
       \/ /\ items[t][k] # Deleted
          /\ BloomAdd(k)
          /\ L1Put(k, items[t][k])
    /\ todo' = [todo EXCEPT ![t] = @ \ {k}]
    /\ UNCHANGED <<prefetch, batch, db, pc, key, val, ahead, items, latest>>

(* What a key holds after the write of v over old. *)
Written(old, v) == IF v = Deleted THEN None ELSE IF v = None THEN old ELSE v

WriteDb(t) ==
    /\ pc[t] = "write" /\ todo[t] = {}
    /\ db' = [k \in Keys |-> Written(db[k], items[t][k])]
    /\ latest' = [k \in Keys |->
          IF items[t][k] = None THEN latest[k] ELSE {Written(None, items[t][k])}]
    /\ Return(t)
    /\ UNCHANGED <<memory, batch>>

WriteFail(t) ==
    /\ pc[t] = "write" /\ todo[t] = {} /\ "fail" \in Ops
    /\ latest' = [k \in Keys |->
          IF items[t][k] = None THEN latest[k]
          ELSE latest[k] \cup {Written(None, items[t][k])}]
    /\ Return(t)
    /\ UNCHANGED <<memory, batch, db>>

(* compact evicts the cold entries of L1. *)
Compact(t) ==
    /\ pc[t] = "idle" /\ "compact" \in Ops
    /\ \E S \in SUBSET Keys : l1' = [k \in Keys |-> IF k \in S THEN None ELSE l1[k]]
    /\ UNCHANGED <<bloom, prefetch, batch, db, pc, locals, latest>>

(* The process ends, in the middle of anything, and a new one opens the    *)
(* database.                                                               *)
Crash ==
    /\ "crash" \in Ops
    /\ bloom' = {} /\ prefetch' = Empty(Keys) /\ l1' = Empty(Keys)
    /\ pending' = Empty(Keys) /\ counter' = 0
    /\ pc' = [t \in Tasks |-> "idle"]
    /\ key' = Empty(Tasks) /\ val' = Empty(Tasks)
    /\ ahead' = [t \in Tasks |-> FALSE]
    /\ items' = [t \in Tasks |-> Empty(Keys)]
    /\ todo' = [t \in Tasks |-> {}]
    /\ UNCHANGED <<db, latest>>

-----------------------------------------------------------------------------
Task(t) ==
    \/ \E k \in Keys, isAhead \in BOOLEAN : GetMiss(t, k, isAhead)
    \/ GetL2(t) \/ GetPromote(t)
    \/ (\E k \in Keys : PrefetchHit(t, k)) \/ PrefetchInsert(t)
    \/ (\E k \in PutKeys, v \in Values : PutL1(t, k, v))
    \/ PutBatch(t) \/ PutFlush(t) \/ PutFlushFail(t)
    \/ FlushBatch(t) \/ FlushFail(t)
    \/ (\E f \in Batches : WriteStart(t, f))
    \/ (\E k \in Keys : WriteL1(t, k))
    \/ WriteDb(t) \/ WriteFail(t)
    \/ Compact(t)

Next == Crash \/ \E t \in Tasks : Task(t)

Spec == Init /\ [][Next]_vars

-----------------------------------------------------------------------------
(* Properties *)

(* TypeOK: every variable has the shape of the field it models. *)
TypeOK ==
    /\ bloom \subseteq Keys
    /\ prefetch \in [Keys -> Values \cup {None}]
    /\ l1 \in [Keys -> Values \cup {None}]
    /\ pending \in [Keys -> Values \cup {None}]
    /\ counter \in 0..BatchSize
    /\ db \in [Keys -> Values \cup {None}]
    /\ pc \in [Tasks -> {"idle", "get_l2", "promote", "prefetched", "put_batch", "write"}]
    /\ key \in [Tasks -> Keys \cup {None}]
    /\ val \in [Tasks -> Values \cup {None}]
    /\ ahead \in [Tasks -> BOOLEAN]
    /\ items \in [Tasks -> [Keys -> Values \cup {Deleted, None}]]
    /\ todo \in [Tasks -> SUBSET Keys]
    /\ latest \in [Keys -> SUBSET (Values \cup {None})]

(* BloomCovers: the Bloom filter answers true for every key that a cache   *)
(* or the batch holds: get never turns away a key that was written since   *)
(* the store was opened.                                                   *)
BloomCovers ==
    \A k \in Keys : k \notin bloom =>
        prefetch[k] = None /\ l1[k] = None /\ pending[k] = None

(* FilterCovers: the two together, which the proof needs as one.           *)
FilterCovers == TypeOK /\ BloomCovers

(* PendingBounded: the batch stays below BATCH_WRITE_SIZE puts and the     *)
(* counter, which a failed write does not reset, never undercounts it.     *)
PendingBounded ==
    LET n == Cardinality({k \in Keys : pending[k] # None})
    IN n < BatchSize /\ n <= counter

(* What get answers for a key, and what the database will hold once the    *)
(* batch is flushed.                                                       *)
Lookup(k) ==
    IF k \notin bloom THEN None
    ELSE IF prefetch[k] # None THEN prefetch[k]
    ELSE IF l1[k] # None THEN l1[k] ELSE db[k]
Flushed(k) == IF pending[k] # None THEN pending[k] ELSE db[k]
Idle == \A t \in Tasks : pc[t] = "idle"

(* PutsSurvive: whatever tasks put, flush and write beside each other, the *)
(* last value that put has acknowledged for a key is in the database or in *)
(* the batch.  A crash or a refused write loses it.                        *)
PutsSurvive == \A k \in PutKeys : Flushed(k) \in latest[k]

(* BatchReadsBack: used by one task, a key that is written with batch_put  *)
(* or deleted reads as the last write that succeeded, or one that failed   *)
(* after it, from whichever layer answers and whatever L1 has evicted, and *)
(* so does the database after a crash between any two steps.               *)
BatchReadsBack == Idle =>
    \A k \in BatchKeys :
        /\ k \in bloom => Lookup(k) \in latest[k]
        /\ db[k] \in latest[k]

(* ReadsLatest: get answers the last value written.                        *)
ReadsLatest == Idle => \A k \in Keys : Lookup(k) \in latest[k]
=============================================================================
