----------------------------- MODULE MCServices ------------------------------
(***************************************************************************)
(* Parts that share no state with each other: the L1 cache of the storage, *)
(* the runtime optimisations and the parallel EVM.  A behaviour exercises  *)
(* one.                                                                    *)
(***************************************************************************)
EXTENDS MemoryCache, BatchProcessor, RingBuffer, MemoryPool, ParallelEvm, Maps

CONSTANTS small, large, huge, y1, y2, y3, y4, d1, d2, f1, f2

VARIABLE focus    \* the component that this behaviour exercises

mcVars == <<vars, bpVars, ringVars, memVars, evmVars, focus>>

MCInit ==
    /\ Init /\ BpInit /\ RingInit /\ MemInit /\ EvmInit
    /\ focus \in {"cache", "batch", "ring", "slab", "arena", "objects", "evm"}
    /\ focus # "objects" => ~fixedPool

MCNext ==
    \/ /\ focus = "cache" /\ Next
       /\ UNCHANGED <<bpVars, ringVars, memVars, evmVars, focus>>
    \/ /\ focus = "batch" /\ BpNext
       /\ UNCHANGED <<vars, ringVars, memVars, evmVars, focus>>
    \/ /\ focus = "ring" /\ RingNext
       /\ UNCHANGED <<vars, bpVars, memVars, evmVars, focus>>
    \/ /\ \/ focus = "slab" /\ SlabNext
          \/ focus = "arena" /\ ArenaNext
          \/ focus = "objects" /\ ObjectNext
       /\ UNCHANGED <<vars, bpVars, ringVars, evmVars, focus>>
    \/ /\ focus = "evm" /\ EvmNext
       /\ UNCHANGED <<vars, bpVars, ringVars, memVars, focus>>

MCSpec == MCInit /\ [][MCNext]_mcVars /\ CacheFairness /\ BpFairness

(* A value that leaves room for another, one that fills the cache, and one *)
(* that does not fit.                                                      *)
MCSize == (small :> 1) @@ (large :> 2) @@ (huge :> 4)

(* Two calls with transactions of two contracts in turn, one without a      *)
(* contract, one that comes twice, and some in both batches.                *)
MCBatchOf == (f1 :> <<y1, y2, y3, y1, y4>>) @@ (f2 :> <<y3, y1, y4>>)
MCContractOf == (y1 :> d1) @@ (y2 :> d2) @@ (y3 :> d1) @@ (y4 :> NoContract)
MCGasOf == (y1 :> 3) @@ (y2 :> 1) @@ (y3 :> 2) @@ (y4 :> 4)

(* BuffersSound: the ring buffer is a queue, and no allocator hands out     *)
(* what somebody still has.                                                 *)
BuffersSound == RingIsQueue /\ MemorySound
=============================================================================
