----------------------------- MODULE ParallelEvm -----------------------------
(***************************************************************************)
(* ParallelEvmExecutor::execute_batch of evm_compat/parallel_evm.rs, for   *)
(* several callers that share the execution cache.  A transaction's cache  *)
(* key is its hash, so it stands for its key; GasOf is what its execution  *)
(* on any worker gives.                                                    *)
(***************************************************************************)
EXTENDS Integers, Sequences, SequencesExt, FiniteSets, Maps

CONSTANTS EvmCalls, BatchOf,      \* calls, and the transactions each is given
          ContractOf, NoContract, \* the contract a transaction calls, if any
          GasOf, EvmCacheSize     \* gas_used; max_size of the cache

ASSUME EvmAssumption ==
    /\ EvmCacheSize \in Nat \ {0} /\ IsFiniteSet(EvmCalls)
    /\ \A c \in EvmCalls : BatchOf[c] \in Seq(DOMAIN GasOf)

VARIABLES
    evmCache,   \* cache: transaction -> gas_used
    prefetched, \* prefetch_queue: how many keys it holds
    evmCall     \* call -> what it does, the order of execution and the results

evmVars == <<evmCache, prefetched, evmCall>>

EvmInit ==
    /\ evmCache = <<>> /\ prefetched = 0
    /\ evmCall = [c \in EvmCalls |-> [at |-> "idle", todo |-> <<>>, results |-> <<>>]]

HasConflict(t, u) == ContractOf[t] = ContractOf[u] /\ ContractOf[t] # NoContract

(* The groups of analyze_transactions, one after the other: each position   *)
(* that no earlier group has, followed by those in conflict with it.        *)
InGroup(txs, i) == {j \in i + 1 .. Len(txs) : HasConflict(txs[i], txs[j])}

Leads_Always(txs, i) == TRUE

Leads(txs, i) == \A h \in 1 .. i - 1 : i \notin InGroup(txs, h)

Groups(txs) ==
    [i \in 1 .. Len(txs) |-> IF Leads(txs, i) THEN Retained(txs, {i} \cup InGroup(txs, i)) ELSE <<>>]

AnalyzeTransactions(txs) == FlattenSeq(Groups(txs))

Calling(txs) == Cardinality({i \in DOMAIN txs : ContractOf[txs[i]] # NoContract})

StartBatch(c) ==
    /\ evmCall[c].at = "idle"
    /\ evmCall' = [evmCall EXCEPT ![c] = [at |-> "next", todo |-> AnalyzeTransactions(BatchOf[c]), results |-> <<>>]]
    /\ prefetched' = prefetched + Calling(BatchOf[c])
    /\ UNCHANGED evmCache

Answered(c, gas) == [evmCall EXCEPT ![c] =
    [at |-> "next", todo |-> Tail(@.todo), results |-> Append(@.results, <<Head(@.todo), gas>>)]]

CacheHit(c) ==
    /\ evmCall[c].at = "next" /\ evmCall[c].todo # <<>> /\ Head(evmCall[c].todo) \in DOMAIN evmCache
    /\ evmCall' = Answered(c, evmCache[Head(evmCall[c].todo)])
    /\ UNCHANGED <<evmCache, prefetched>>

CacheMiss(c) ==
    /\ evmCall[c].at = "next" /\ evmCall[c].todo # <<>> /\ Head(evmCall[c].todo) \notin DOMAIN evmCache
    /\ evmCall' = [evmCall EXCEPT ![c].at = "put"]
    /\ UNCHANGED <<evmCache, prefetched>>

(* A full cache drops any one entry, also when the key is in it by now. *)
PutResult(c) ==
    /\ evmCall[c].at = "put"
    /\ LET t == Head(evmCall[c].todo)
       IN  /\ \E kept \in IF Cardinality(DOMAIN evmCache) >= EvmCacheSize
                          THEN {Drop(evmCache, k) : k \in DOMAIN evmCache} ELSE {evmCache} :
                 evmCache' = Put(kept, t, GasOf[t])
           /\ evmCall' = Answered(c, GasOf[t])
    /\ UNCHANGED prefetched

EvmNext == \E c \in EvmCalls : StartBatch(c) \/ CacheHit(c) \/ CacheMiss(c) \/ PutResult(c)

(* The transactions of s that call k, or none if it is NoContract, in order. *)
OfContract(s, k) == Retained(s, {i \in DOMAIN s : ContractOf[s[i]] = k})

(* What a call has executed and has yet to execute. *)
Executing(c) ==
    [k \in 1 .. Len(evmCall[c].results) |-> evmCall[c].results[k][1]] \o evmCall[c].todo

(* Every call gets one result per transaction, the one its execution gives, *)
(* and the transactions of one contract in the order they came in, while    *)
(* results of different contracts change places.  The cache keeps its limit *)
(* however callers race to fill it.  The keys to prefetch pile up, as no    *)
(* worker takes them.                                                       *)
ResultsFollowGroups ==
    /\ Cardinality(DOMAIN evmCache) <= EvmCacheSize
    /\ \A t \in DOMAIN evmCache : evmCache[t] = GasOf[t]
    /\ prefetched = SumFunctionOnSet(
           [c \in EvmCalls |-> IF evmCall[c].at = "idle" THEN 0 ELSE Calling(BatchOf[c])], EvmCalls)
    /\ \A c \in EvmCalls : evmCall[c].at # "idle" =>
          /\ Len(Executing(c)) = Len(BatchOf[c])
          /\ \A k \in 1 .. Len(evmCall[c].results) :
                evmCall[c].results[k][2] = GasOf[evmCall[c].results[k][1]]
          /\ \A t \in Range(BatchOf[c]) :
                OfContract(Executing(c), ContractOf[t]) = OfContract(BatchOf[c], ContractOf[t])
=============================================================================
