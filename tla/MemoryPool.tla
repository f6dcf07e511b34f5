----------------------------- MODULE MemoryPool ------------------------------
(***************************************************************************)
(* The allocators of optimization/memory_pool.rs: the slab allocator, the  *)
(* arena and the two pools of reusable objects.  An address is a slab or a *)
(* chunk and an offset in it.  Callers give back what they got, once.      *)
(***************************************************************************)
EXTENDS Integers, Sequences, FiniteSets

CONSTANTS BlocksPerSlab, MaxSlabs,   \* blocks_per_slab; bound: slabs
          ChunkSize, Sizes, Align,   \* chunk_size, the sizes asked for, one alignment
          MaxChunks,                 \* bound: chunks of the arena
          ArenaCalls,                \* concurrent calls on the arena
          PoolLimit, MaxObjects      \* max_size of the pools; bound: objects outside

ASSUME MemoryAssumption ==
    /\ BlocksPerSlab \in Nat \ {0} /\ ChunkSize \in Nat \ {0} /\ Align \in Nat \ {0}
    /\ Sizes \subseteq Nat \ {0} /\ PoolLimit \in Nat

VARIABLES
    slabs,      \* slabs: [free |-> free_list, used |-> used_count]
    blocks,     \* the blocks that callers have, <<slab, offset>>
    chunk,      \* current_chunk: [id, cap, used]
    oldChunks,  \* chunks
    given,      \* what callers got since the last clear: [id, from, to]
    arenaCall,  \* call -> what it does and the locks it has
    fixedPool,  \* the pool of this behaviour is a FixedSizePool, not an ObjectPool
    pooled,     \* pool: each object, clean or dirty
    outside     \* the objects that callers have, likewise

slabVars == <<slabs, blocks>>
arenaVars == <<chunk, oldChunks, given, arenaCall>>
objectVars == <<fixedPool, pooled, outside>>
memVars == <<slabVars, arenaVars, objectVars>>

FreshChunk(id) == [id |-> id, cap |-> ChunkSize, used |-> 0]
NoCall == [at |-> "idle", size |-> 0]

MemInit ==
    /\ slabs = <<>> /\ blocks = {}
    /\ chunk = FreshChunk(1) /\ oldChunks = <<>> /\ given = {}
    /\ arenaCall = [c \in ArenaCalls |-> NoCall]
    /\ fixedPool \in BOOLEAN /\ pooled = <<>> /\ outside = <<>>

-----------------------------------------------------------------------------
(* SlabAllocator, under its one mutex *)

(* The offsets of a new slab, highest first, without the one handed out. *)
FreshFreeList == [k \in 1 .. BlocksPerSlab - 1 |-> BlocksPerSlab - k]

SlabAllocate ==
    /\ \/ \E s \in 1 .. Len(slabs) :
             /\ slabs[s].free # <<>> /\ \A r \in 1 .. s - 1 : slabs[r].free = <<>>
             /\ LET f == slabs[s].free
                IN  /\ slabs' = [slabs EXCEPT ![s] = [free |-> SubSeq(f, 1, Len(f) - 1), used |-> @.used + 1]]
                    /\ blocks' = blocks \cup {<<s, f[Len(f)]>>}
       \/ /\ \A s \in 1 .. Len(slabs) : slabs[s].free = <<>>
          /\ Len(slabs) < MaxSlabs
          /\ slabs' = Append(slabs, [free |-> FreshFreeList, used |-> 1])
          /\ blocks' = blocks \cup {<<Len(slabs) + 1, 0>>}
    /\ UNCHANGED <<arenaVars, objectVars>>

SlabDeallocate(b) ==
    /\ slabs' = [slabs EXCEPT ![b[1]] = [free |-> Append(@.free, b[2]), used |-> @.used - 1]]
    /\ blocks' = blocks \ {b}
    /\ UNCHANGED <<arenaVars, objectVars>>

-----------------------------------------------------------------------------
(* Arena.  allocate takes current and, when it starts a chunk, chunks;      *)
(* stats takes chunks and then current; clear takes one after the other.    *)

HoldsCurrent(c) == arenaCall[c].at = "grow"
HoldsChunks(c) == arenaCall[c].at = "stats"
CurrentFree == \A c \in ArenaCalls : ~HoldsCurrent(c)
ChunksFree == \A c \in ArenaCalls : ~HoldsChunks(c)

Aligned(n) == ((n + Align - 1) \div Align) * Align

ArenaAllocate(c, size) ==
    /\ arenaCall[c].at = "idle" /\ CurrentFree
    /\ IF Aligned(chunk.used) + size <= chunk.cap
       THEN /\ given' = given \cup {[id |-> chunk.id, from |-> Aligned(chunk.used), to |-> Aligned(chunk.used) + size]}
            /\ chunk' = [chunk EXCEPT !.used = Aligned(@) + size]
            /\ UNCHANGED arenaCall
       ELSE /\ arenaCall' = [arenaCall EXCEPT ![c] = [at |-> "grow", size |-> size]]
            /\ UNCHANGED <<chunk, given>>
    /\ UNCHANGED <<slabs, blocks, oldChunks, fixedPool, pooled, outside>>

(* The new chunk is as large as the request if that is more than a chunk. *)
ArenaGrow(c) ==
    /\ arenaCall[c].at = "grow" /\ ChunksFree /\ chunk.id < MaxChunks
    /\ LET size == arenaCall[c].size
           id == chunk.id + 1
       IN  /\ oldChunks' = Append(oldChunks, chunk)
           /\ chunk' = [id |-> id, cap |-> IF size > ChunkSize THEN size ELSE ChunkSize, used |-> size]
           /\ given' = given \cup {[id |-> id, from |-> 0, to |-> size]}
    /\ arenaCall' = [arenaCall EXCEPT ![c] = NoCall]
    /\ UNCHANGED <<slabs, blocks, fixedPool, pooled, outside>>

ArenaClearOld(c) ==
    /\ arenaCall[c].at = "idle" /\ ChunksFree
    /\ oldChunks' = <<>>
    /\ given' = {g \in given : g.id = chunk.id}
    /\ arenaCall' = [arenaCall EXCEPT ![c] = [at |-> "clear", size |-> 0]]
    /\ UNCHANGED <<slabs, blocks, chunk, fixedPool, pooled, outside>>

(* What was allocated since the chunks were cleared is dropped as well, but  *)
(* a chunk that was put aside meanwhile stays.                               *)
ArenaClearCurrent(c) ==
    /\ arenaCall[c].at = "clear" /\ CurrentFree /\ chunk.id < MaxChunks
    /\ chunk' = FreshChunk(chunk.id + 1)
    /\ given' = {g \in given : g.id # chunk.id}
    /\ arenaCall' = [arenaCall EXCEPT ![c] = NoCall]
    /\ UNCHANGED <<slabs, blocks, oldChunks, fixedPool, pooled, outside>>

StatsBegin(c) ==
    /\ arenaCall[c].at = "idle" /\ ChunksFree
    /\ arenaCall' = [arenaCall EXCEPT ![c] = [at |-> "stats", size |-> 0]]
    /\ UNCHANGED <<slabs, blocks, chunk, oldChunks, given, fixedPool, pooled, outside>>

StatsEnd(c) ==
    /\ arenaCall[c].at = "stats" /\ CurrentFree
    /\ arenaCall' = [arenaCall EXCEPT ![c] = NoCall]
    /\ UNCHANGED <<slabs, blocks, chunk, oldChunks, given, fixedPool, pooled, outside>>

-----------------------------------------------------------------------------
(* ObjectPool and FixedSizePool: the one resets an object that comes back   *)
(* and takes the oldest, the other does neither.                            *)

Reset(o) == IF fixedPool THEN o ELSE "clean"

Acquire ==
    /\ Len(outside) < MaxObjects
    /\ LET at == IF fixedPool THEN Len(pooled) ELSE 1
       IN  IF pooled = <<>> THEN outside' = Append(outside, "clean") /\ UNCHANGED pooled
           ELSE /\ outside' = Append(outside, pooled[at])
                /\ pooled' = SubSeq(pooled, 1, at - 1) \o SubSeq(pooled, at + 1, Len(pooled))
    /\ UNCHANGED <<slabs, blocks, chunk, oldChunks, given, arenaCall, fixedPool>>

(* The caller may have written to it. *)
GiveBack(k, o) ==
    /\ pooled' = IF Len(pooled) < PoolLimit THEN Append(pooled, Reset(o)) ELSE pooled
    /\ outside' = SubSeq(outside, 1, k - 1) \o SubSeq(outside, k + 1, Len(outside))
    /\ UNCHANGED <<slabs, blocks, chunk, oldChunks, given, arenaCall, fixedPool>>

-----------------------------------------------------------------------------
SlabNext == SlabAllocate \/ \E b \in blocks : SlabDeallocate(b)

ArenaNext ==
    \E c \in ArenaCalls :
       \/ \E size \in Sizes : ArenaAllocate(c, size)
       \/ ArenaGrow(c) \/ ArenaClearOld(c) \/ ArenaClearCurrent(c) \/ StatsBegin(c) \/ StatsEnd(c)

ObjectNext ==
    \/ Acquire
    \/ \E k \in 1 .. Len(outside), o \in {"clean", "dirty"} : GiveBack(k, o)

(* Every block of every slab is free or with exactly one caller, and the    *)
(* count of used ones is right.                                             *)
SlabsPartitioned ==
    \A s \in 1 .. Len(slabs) :
        LET free == {slabs[s].free[k] : k \in 1 .. Len(slabs[s].free)}
            used == {b[2] : b \in {x \in blocks : x[1] = s}}
        IN  /\ free \cap used = {} /\ free \cup used = 0 .. BlocksPerSlab - 1
            /\ Cardinality(free) = Len(slabs[s].free)
            /\ Cardinality(used) = slabs[s].used

(* No two allocations of the arena overlap, and each lies within a chunk    *)
(* that still exists and within what that chunk counts as used, whichever   *)
(* calls clear it or grow it meanwhile.                                     *)
ArenaSound ==
    LET chunks == {chunk} \cup {oldChunks[k] : k \in 1 .. Len(oldChunks)}
    IN  /\ \A g, h \in given : g # h /\ g.id = h.id => g.to <= h.from \/ h.to <= g.from
        /\ \A g \in given : \E k \in chunks : k.id = g.id /\ g.to <= k.used /\ k.used <= k.cap

(* The allocators never hand out what somebody still has, and an object     *)
(* pool hands out only clean objects and keeps no more than its limit.      *)
MemorySound ==
    /\ SlabsPartitioned /\ ArenaSound
    /\ Len(pooled) <= PoolLimit
    /\ ~fixedPool => \A k \in 1 .. Len(outside) : outside[k] = "clean"
=============================================================================
