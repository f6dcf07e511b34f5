----------------------------- MODULE MemoryCache -----------------------------
(***************************************************************************)
(* The L1 cache of storage/cache.rs: the entries, the LRU queue, the       *)
(* access counts and the size, each behind a lock of its own.  get, remove *)
(* and evict_cold_entries take their locks in one order, keep the lock of  *)
(* the entries to the end and are one step each.  put gives the queue's    *)
(* lock back between two evictions, and clear takes the four locks one     *)
(* after the other without keeping any.                                    *)
(*                                                                         *)
(* A value is opaque but for its length.  A release build computes with    *)
(* usize modulo 2^64: here modulo Word.                                    *)
(***************************************************************************)
EXTENDS Integers, Sequences, FiniteSets, Maps

CONSTANTS Threads,    \* the threads that share the cache
          Keys,       \* keys
          Values,     \* values
          Size,       \* [Values -> Nat]: the length of a value
          MaxSize,    \* max_size
          Word,       \* the number of values of a usize
          MaxQueue,   \* bound: put is not called on a longer queue
          Ops,        \* the operations the threads call
          None        \* no entry, no thread, no argument

ASSUME CacheAssumption ==
    /\ Size \in [Values -> Nat]
    /\ MaxSize \in Nat /\ Word \in Nat /\ 2 * MaxSize < Word
    /\ MaxQueue \in Nat
    /\ None \notin Values \cup Threads \cup Keys \cup [key : Keys, val : Values]

VARIABLES
    data,       \* [Keys -> value or None]
    used,       \* the keys in the order of their last_access
    queue,      \* lru_queue
    counted,    \* the keys in access_count
    size,       \* current_size
    holder,     \* the thread that is in put and holds data and current_size
    pc,         \* where each thread is
    arg         \* the key and the value of a thread's put

vars == <<data, used, queue, counted, size, holder, pc, arg>>

Init ==
    /\ data = [k \in Keys |-> None]
    /\ used = <<>> /\ queue = <<>> /\ counted = {}
    /\ size = 0
    /\ holder = None
    /\ pc = [t \in Threads |-> "idle"]
    /\ arg = [t \in Threads |-> None]

Cached == {k \in Keys : data[k] # None}
SizeOf(k) == Size[data[k]]
WeightOf(S) == SumFunctionOnSet([k \in S |-> SizeOf(k)], S)
Plus(a, b) == (a + b) % Word
Minus(a, b) == (a - b) % Word

(* queue.retain(|k| !S.contains(k)) *)
Retain(q, S) == Retained(q, {i \in DOMAIN q : q[i] \notin S})
MoveBack(q, k) == Append(Retain(q, {k}), k)
Goto(t, label) == pc' = [pc EXCEPT ![t] = label]

-----------------------------------------------------------------------------
(* A hit moves the key to the back of the queue; a miss changes nothing. *)
Get(t, k) ==
    /\ pc[t] = "idle" /\ holder = None
    /\ k \in Cached
    /\ queue' = MoveBack(queue, k)
    /\ used' = MoveBack(used, k)
    /\ counted' = counted \cup {k}
    /\ UNCHANGED <<data, size, holder, pc, arg>>

(* put leaves at once when the value exceeds the whole cache; otherwise it *)
(* drops the old entry, evicts from the front of the queue until there is  *)
(* room and pushes the key.                                                *)
PutStart(t, k, v) ==
    /\ pc[t] = "idle" /\ holder = None
    /\ Size[v] <= MaxSize
    /\ Len(queue) < MaxQueue
    /\ data' = [data EXCEPT ![k] = None]
    /\ size' = IF k \in Cached THEN Minus(size, SizeOf(k)) ELSE size
    /\ holder' = t
    /\ arg' = [arg EXCEPT ![t] = [key |-> k, val |-> v]]
    /\ Goto(t, "put")
    /\ UNCHANGED <<used, queue, counted>>

HasRoom(t) == Plus(size, Size[arg[t].val]) <= MaxSize

PutEvict_KeepSize(t) ==
    LET k == Head(queue)
    IN /\ pc[t] = "put" /\ ~HasRoom(t) /\ queue # <<>>
       /\ queue' = Tail(queue)
       /\ data' = [data EXCEPT ![k] = None]
       /\ counted' = IF k \in Cached THEN counted \ {k} ELSE counted
       /\ UNCHANGED <<used, size, holder, pc, arg>>

(* evict_one; on an empty queue it does nothing and the loop goes on. *)
PutEvict(t) ==
    LET k == Head(queue)
    IN /\ pc[t] = "put" /\ ~HasRoom(t) /\ queue # <<>>
       /\ queue' = Tail(queue)
       /\ data' = [data EXCEPT ![k] = None]
       /\ size' = IF k \in Cached THEN Minus(size, SizeOf(k)) ELSE size
       /\ counted' = IF k \in Cached THEN counted \ {k} ELSE counted
       /\ UNCHANGED <<used, holder, pc, arg>>

PutInsert_NoQueue(t) ==
    LET k == arg[t].key
    IN /\ pc[t] = "put" /\ HasRoom(t)
       /\ data' = [data EXCEPT ![k] = arg[t].val]
       /\ size' = Plus(size, Size[arg[t].val])
       /\ used' = MoveBack(used, k)
       /\ holder' = None
       /\ arg' = [arg EXCEPT ![t] = None]
       /\ Goto(t, "idle")
       /\ UNCHANGED <<queue, counted>>

PutInsert(t) ==
    LET k == arg[t].key
    IN /\ pc[t] = "put" /\ HasRoom(t)
       /\ data' = [data EXCEPT ![k] = arg[t].val]
       /\ size' = Plus(size, Size[arg[t].val])
       /\ used' = MoveBack(used, k)
       /\ queue' = Append(queue, k)
       /\ holder' = None
       /\ arg' = [arg EXCEPT ![t] = None]
       /\ Goto(t, "idle")
       /\ UNCHANGED counted

(* The entries of S leave the cache, the queue and the counts. *)
DropAll(S) ==
    /\ data' = [k \in Keys |-> IF k \in S THEN None ELSE data[k]]
    /\ size' = Minus(size, WeightOf(S))
    /\ queue' = Retain(queue, S)
    /\ counted' = counted \ S
    /\ UNCHANGED <<used, holder, pc, arg>>

RemoveEntry(t, k) ==
    /\ pc[t] = "idle" /\ holder = None
    /\ k \in Cached
    /\ DropAll({k})

(* The cold entries are the ones used before some moment. *)
EvictColdEntries(t) ==
    /\ pc[t] = "idle" /\ holder = None
    /\ \E n \in DOMAIN used : DropAll({used[i] : i \in 1..n} \cap Cached)

-----------------------------------------------------------------------------
ClearData(t) ==
    /\ pc[t] = "idle" /\ "clear" \in Ops
    /\ holder = None
    /\ data' = [k \in Keys |-> None]
    /\ Goto(t, "clear_queue")
    /\ UNCHANGED <<used, queue, counted, size, holder, arg>>

ClearQueue(t) ==
    /\ pc[t] = "clear_queue"
    /\ queue' = <<>>
    /\ Goto(t, "clear_access")
    /\ UNCHANGED <<data, used, counted, size, holder, arg>>

ClearAccess(t) ==
    /\ pc[t] = "clear_access"
    /\ counted' = {}
    /\ Goto(t, "clear_size")
    /\ UNCHANGED <<data, used, queue, size, holder, arg>>

ClearSize(t) ==
    /\ pc[t] = "clear_size"
    /\ holder = None
    /\ size' = 0
    /\ Goto(t, "idle")
    /\ UNCHANGED <<data, used, queue, counted, holder, arg>>

-----------------------------------------------------------------------------
Start(t) ==
    \/ \E k \in Keys : Get(t, k) \/ RemoveEntry(t, k)
    \/ \E k \in Keys, v \in Values : PutStart(t, k, v)
    \/ EvictColdEntries(t)
    \/ ClearData(t)

Continue(t) ==
    \/ PutEvict(t) \/ PutInsert(t)
    \/ ClearQueue(t) \/ ClearAccess(t) \/ ClearSize(t)

Next == \E t \in Threads : Start(t) \/ Continue(t)

Spec == Init /\ [][Next]_vars

(* The operating system runs a thread that can go on. *)
CacheFairness == \A t \in Threads : WF_vars(Continue(t))
FairSpec == Spec /\ CacheFairness

-----------------------------------------------------------------------------
(* Properties *)

(* TypeOK: every variable has the shape of the field it models, and the    *)
(* thread that holds the locks of the entries and the size is in put.      *)
TypeOK ==
    /\ data \in [Keys -> Values \cup {None}]
    /\ used \in Seq(Keys) /\ queue \in Seq(Keys)
    /\ counted \subseteq Keys
    /\ size \in 0..(Word - 1)
    /\ holder \in Threads \cup {None}
    /\ pc \in [Threads -> {"idle", "put", "clear_queue", "clear_access", "clear_size"}]
    /\ arg \in [Threads -> [key : Keys, val : Values] \cup {None}]
    /\ \A t \in Threads : pc[t] = "put" <=> holder = t

(* No thread is between two of clear's locks. *)
Quiet == \A t \in Threads : pc[t] \in {"idle", "put"}

(* SizeIsWeight: current_size is the total length of the cached values and *)
(* never exceeds max_size, through every replacement and eviction: no      *)
(* subtraction of usize passes below zero.  It fails once clear runs       *)
(* beside a put, whose entry survives while the size is reset.             *)
SizeIsWeight == Quiet =>
    /\ size = WeightOf(Cached)
    /\ size <= MaxSize

(* Evictable: every cached key has a place in the queue that evict_one     *)
(* pops, and only cached keys (or the one put is replacing) have an access *)
(* count: no entry stays for ever and get_hot_keys names no dead key.      *)
Evictable == Quiet =>
    /\ \A k \in Cached : \E i \in DOMAIN queue : queue[i] = k
    /\ counted \subseteq Cached \cup {arg[t].key : t \in {u \in Threads : arg[u] # None}}

(* CacheSound: entries, queue, counts and size agree whenever no clear is  *)
(* under way.                                                              *)
CacheSound == TypeOK /\ SizeIsWeight /\ Evictable

(* PutReturns: put comes out of its eviction loop, which holds the locks   *)
(* of the entries and of the size.  Beside a clear it need not: the size   *)
(* may count entries that have no place in the queue.                      *)
PutReturns == \A t \in Threads : pc[t] = "put" ~> pc[t] = "idle"

(* The promise of LossyCache, seen through the entries. *)
Lossy == INSTANCE LossyCache WITH map <- data

(* KeepsPromise: whatever it evicts and in whatever order, the cache is a  *)
(* LossyCache: an entry changes only to a value that is put and all        *)
(* entries fit.                                                            *)
KeepsPromise == Lossy!Spec

(* CacheServes: the cache keeps the promise of LossyCache, and every put   *)
(* comes to its end.                                                       *)
CacheServes == KeepsPromise /\ PutReturns
=============================================================================
