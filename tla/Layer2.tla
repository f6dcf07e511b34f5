------------------------------- MODULE Layer2 --------------------------------
(***************************************************************************)
(* The rollups of layer2, for a Layer2Manager of the Hybrid type: a        *)
(* transaction goes to zk_rollup.rs when it asks for instant finality and  *)
(* to optimistic_rollup.rs otherwise.  In both, the submission that fills  *)
(* a batch calls create_batch with the pending list locked and waits for   *)
(* itself; its caller may give up, which frees the lock.  A challenge does *)
(* the same with the challenges it has locked, so no challenge is ever     *)
(* resolved, and the private create_batch of the ZK rollup never runs.  A  *)
(* create_batch whose caller gives up leaves what it did: transactions     *)
(* popped, a number and a root given out, a batch without its root.        *)
(* A state root is the sequence of the transactions it stands for.         *)
(***************************************************************************)
EXTENDS Integers, Sequences, SequencesExt, FiniteSets, Maps

CONSTANTS RollupTxs, InstantTxs,   \* the transactions, and those that go to the ZK rollup
          BatchCalls,              \* calls of create_batch
          ChallengeCalls,          \* calls of challenge_state_root
          RollupBatch,             \* batch_size
          ChallengePeriod,         \* challenge_period_blocks * 12
          EndOfRollup,             \* bound: when the clock stops
          NoOne

ASSUME RollupAssumption ==
    /\ RollupBatch \in Nat \ {0} /\ ChallengePeriod \in Nat
    /\ NoOne \notin BatchCalls \cup ChallengeCalls
    /\ RollupTxs \cap BatchCalls = {} /\ (RollupTxs \cup BatchCalls) \cap ChallengeCalls = {}

VARIABLES
    rollupPending, zkPending,   \* the pending transactions of the two rollups
    rollupLock, zkLock,         \* who holds them
    rollupAt,                   \* where each call is
    taken,                      \* batch call -> the transactions it popped
    sequencerBy,                \* who holds the sequencer
    sequenced,                  \* batch call -> the batch it numbered; this and taken are
                                \* history once the call was dropped
    nextBatchId, currentRoot,   \* the sequencer
    rollupBatches,              \* block number -> [txs, prev, root, status, deadline]
    stateRoots,
    batchReaders, batchesBy,    \* readers and the writer of batches
    challenges, challengesBy,   \* batch -> the call that challenged it, and its lock
    admittedAt,                 \* challenge call -> when and for which batch it was admitted
    rollupTime

rollupVars == <<rollupPending, zkPending, rollupLock, zkLock, rollupAt, taken, sequencerBy,
                sequenced, nextBatchId, currentRoot, rollupBatches, stateRoots, batchReaders,
                batchesBy, challenges, challengesBy, admittedAt, rollupTime>>
submitVars == <<rollupPending, zkPending, rollupLock, zkLock>>
batchVars == <<taken, sequencerBy, sequenced, nextBatchId, currentRoot>>
storeVars == <<rollupBatches, stateRoots>>
challengeVars == <<batchReaders, batchesBy, challenges, challengesBy, admittedAt>>

RollupInit ==
    /\ rollupPending = <<>> /\ zkPending = <<>> /\ rollupLock = NoOne /\ zkLock = NoOne
    /\ rollupAt = [c \in RollupTxs \cup BatchCalls \cup ChallengeCalls |-> "idle"]
    /\ taken = <<>> /\ sequencerBy = NoOne /\ sequenced = <<>>
    /\ nextBatchId = 1 /\ currentRoot = <<>>
    /\ rollupBatches = <<>> /\ stateRoots = <<>>
    /\ batchReaders = {} /\ batchesBy = NoOne
    /\ challenges = <<>> /\ challengesBy = NoOne /\ admittedAt = <<>>
    /\ rollupTime = 0

RollupGoes(c, label) == rollupAt' = [rollupAt EXCEPT ![c] = label]

-----------------------------------------------------------------------------
(* Layer2Manager::submit_transaction and the two submit_transaction.  *)
SubmitRollup(tx) ==
    /\ rollupAt[tx] = "idle" /\ tx \notin InstantTxs /\ rollupLock = NoOne
    /\ rollupPending' = Append(rollupPending, tx)
    /\ IF Len(rollupPending) + 1 >= RollupBatch
       THEN rollupLock' = tx /\ RollupGoes(tx, "stuck")
       ELSE UNCHANGED rollupLock /\ RollupGoes(tx, "done")
    /\ UNCHANGED <<zkPending, zkLock, batchVars, storeVars, challengeVars, rollupTime>>

SubmitZk(tx) ==
    /\ rollupAt[tx] = "idle" /\ tx \in InstantTxs /\ zkLock = NoOne
    /\ zkPending' = Append(zkPending, tx)
    /\ IF Len(zkPending) + 1 >= RollupBatch
       THEN zkLock' = tx /\ RollupGoes(tx, "stuck")
       ELSE UNCHANGED zkLock /\ RollupGoes(tx, "done")
    /\ UNCHANGED <<rollupPending, rollupLock, batchVars, storeVars, challengeVars, rollupTime>>

SubmitGivesUp(tx) ==
    /\ rollupAt[tx] = "stuck"
    /\ rollupLock' = IF rollupLock = tx THEN NoOne ELSE rollupLock
    /\ zkLock' = IF zkLock = tx THEN NoOne ELSE zkLock
    /\ RollupGoes(tx, "done")
    /\ UNCHANGED <<rollupPending, zkPending, batchVars, storeVars, challengeVars, rollupTime>>

-----------------------------------------------------------------------------
(* create_batch pops a batch under the pending lock, ... *)
BatchTakes(b) ==
    /\ rollupAt[b] = "idle" /\ rollupLock = NoOne /\ rollupPending # <<>>
    /\ LET n == Min({RollupBatch, Len(rollupPending)})
       IN  /\ taken' = Put(taken, b, SubSeq(rollupPending, 1, n))
           /\ rollupPending' = SubSeq(rollupPending, n + 1, Len(rollupPending))
    /\ RollupGoes(b, "sequence")
    /\ UNCHANGED <<zkPending, rollupLock, zkLock, sequencerBy, sequenced, nextBatchId, currentRoot,
                   storeVars, challengeVars, rollupTime>>

(* compute_state_root *)
ComputeStateRoot(txs, prev) == prev \o txs

(* ... numbers it under the sequencer's lock, kept to the end, ... *)
BatchSequences(b) ==
    /\ rollupAt[b] = "sequence" /\ sequencerBy = NoOne
    /\ LET root == ComputeStateRoot(taken[b], currentRoot)
       IN  /\ sequenced' = Put(sequenced, b,
                 [number |-> nextBatchId, txs |-> taken[b], prev |-> currentRoot, root |-> root,
                  deadline |-> rollupTime + ChallengePeriod])
           /\ currentRoot' = root
    /\ nextBatchId' = nextBatchId + 1
    /\ sequencerBy' = b
    /\ taken' = Drop(taken, b)
    /\ RollupGoes(b, "store")
    /\ UNCHANGED <<submitVars, storeVars, challengeVars, rollupTime>>

(* ... stores it under the lock of batches, kept to the end as well, ... *)
BatchStores(b) ==
    /\ rollupAt[b] = "store" /\ batchesBy = NoOne /\ batchReaders = {}
    /\ LET s == sequenced[b]
       IN  rollupBatches' = Put(rollupBatches, s.number,
               [txs |-> s.txs, prev |-> s.prev, root |-> s.root,
                status |-> "Submitted", deadline |-> s.deadline])
    /\ batchesBy' = b
    /\ RollupGoes(b, "root")
    /\ UNCHANGED <<submitVars, batchVars, stateRoots, batchReaders, challenges, challengesBy,
                   admittedAt, rollupTime>>

(* ... and its root. *)
BatchRoots(b) ==
    /\ rollupAt[b] = "root"
    /\ stateRoots' = Put(stateRoots, sequenced[b].number, sequenced[b].root)
    /\ sequenced' = Drop(sequenced, b)
    /\ sequencerBy' = NoOne /\ batchesBy' = NoOne
    /\ RollupGoes(b, "done")
    /\ UNCHANGED <<submitVars, taken, nextBatchId, currentRoot, rollupBatches, batchReaders,
                   challenges, challengesBy, admittedAt, rollupTime>>

(* The caller gives up at one of the waits after the first: for the         *)
(* sequencer, for the batches or, when the task used up its share of the    *)
(* scheduler's turn, for the roots.  The locks are freed, nothing is undone.*)
BatchGivesUp(b) ==
    /\ rollupAt[b] \in {"sequence", "store", "root"}
    /\ sequencerBy' = IF sequencerBy = b THEN NoOne ELSE sequencerBy
    /\ batchesBy' = IF batchesBy = b THEN NoOne ELSE batchesBy
    /\ RollupGoes(b, "dropped")
    /\ UNCHANGED <<submitVars, taken, sequenced, nextBatchId, currentRoot, storeVars, batchReaders,
                   challenges, challengesBy, admittedAt, rollupTime>>

-----------------------------------------------------------------------------
(* challenge_state_root: admitted under a read lock, ... *)
InTime_Dropped(n) == TRUE
InTime(n) == rollupTime <= rollupBatches[n].deadline

ChallengeChecks(c, n) ==
    /\ rollupAt[c] = "idle" /\ batchesBy = NoOne
    /\ rollupBatches[n].status = "Submitted" /\ InTime(n)
    /\ batchReaders' = batchReaders \cup {c}
    /\ admittedAt' = Put(admittedAt, c, [time |-> rollupTime, batch |-> n])
    /\ RollupGoes(c, "insert")
    /\ UNCHANGED <<submitVars, batchVars, storeVars, batchesBy, challenges, challengesBy, rollupTime>>

(* ... recorded, the read lock dropped, ... *)
ChallengeInserts(c) ==
    /\ rollupAt[c] = "insert" /\ challengesBy = NoOne
    /\ challenges' = Put(challenges, admittedAt[c].batch, c)
    /\ challengesBy' = c
    /\ batchReaders' = batchReaders \ {c}
    /\ RollupGoes(c, "mark")
    /\ UNCHANGED <<submitVars, batchVars, storeVars, batchesBy, admittedAt, rollupTime>>

(* ... marked under a write lock, whatever the status has become; then      *)
(* execute_challenge_resolution waits for the challenges this call holds.   *)
ChallengeMarks(c) ==
    /\ rollupAt[c] = "mark" /\ batchesBy = NoOne /\ batchReaders = {}
    /\ rollupBatches' = [rollupBatches EXCEPT ![admittedAt[c].batch].status = "Challenged"]
    /\ batchesBy' = c
    /\ RollupGoes(c, "resolve")
    /\ UNCHANGED <<submitVars, batchVars, stateRoots, batchReaders, challenges, challengesBy,
                   admittedAt, rollupTime>>

ChallengeGivesUp(c) ==
    /\ rollupAt[c] \in {"insert", "mark", "resolve"}
    /\ batchReaders' = batchReaders \ {c}
    /\ batchesBy' = IF batchesBy = c THEN NoOne ELSE batchesBy
    /\ challengesBy' = IF challengesBy = c THEN NoOne ELSE challengesBy
    /\ RollupGoes(c, "done")
    /\ UNCHANGED <<submitVars, batchVars, storeVars, challenges, admittedAt, rollupTime>>

FinalizeBatch(n) ==
    /\ batchesBy = NoOne /\ batchReaders = {}
    /\ rollupBatches[n].status = "Submitted" /\ rollupTime >= rollupBatches[n].deadline
    /\ rollupBatches' = [rollupBatches EXCEPT ![n].status = "Finalized"]
    /\ UNCHANGED <<submitVars, batchVars, stateRoots, challengeVars, rollupAt, rollupTime>>

RollupTick ==
    /\ rollupTime < EndOfRollup
    /\ rollupTime' = rollupTime + 1
    /\ UNCHANGED <<submitVars, batchVars, storeVars, challengeVars, rollupAt>>

RollupNext ==
    \/ RollupTick
    \/ \E tx \in RollupTxs : SubmitRollup(tx) \/ SubmitZk(tx) \/ SubmitGivesUp(tx)
    \/ \E b \in BatchCalls :
          BatchTakes(b) \/ BatchSequences(b) \/ BatchStores(b) \/ BatchRoots(b) \/ BatchGivesUp(b)
    \/ \E c \in ChallengeCalls :
          \/ ChallengeInserts(c) \/ ChallengeMarks(c) \/ ChallengeGivesUp(c)
          \/ \E n \in DOMAIN rollupBatches : ChallengeChecks(c, n)
    \/ \E n \in DOMAIN rollupBatches : FinalizeBatch(n)

-----------------------------------------------------------------------------
(* The calls that numbered a batch which is not stored, *)
(* and the batches that were numbered, stored or not. *)
Unstored == {b \in DOMAIN sequenced : sequenced[b].number \notin DOMAIN rollupBatches}

Link(n, r) == [number |-> n, txs |-> r.txs, prev |-> r.prev, root |-> r.root]

Numbered ==
    {Link(n, rollupBatches[n]) : n \in DOMAIN rollupBatches}
        \cup {Link(sequenced[b].number, sequenced[b]) : b \in Unstored}

(* Where a submitted transaction may be, and what lies there. *)
Places ==
    {<<"pending", 0>>, <<"instant", 0>>}
    \cup ({"taken"} \X DOMAIN taken) \cup ({"sequenced"} \X Unstored)
    \cup ({"stored"} \X DOMAIN rollupBatches)

Contents ==
    [p \in Places |-> CASE p[1] = "pending" -> rollupPending
                        [] p[1] = "instant" -> zkPending
                        [] p[1] = "taken" -> taken[p[2]]
                        [] p[1] = "sequenced" -> sequenced[p[2]].txs
                        [] p[1] = "stored" -> rollupBatches[p[2]].txs]

(* However calls of create_batch interleave and wherever their callers give *)
(* up, the batches that were numbered are one chain of state roots, every   *)
(* number once.  The stored ones lack a number, or one of them its root,    *)
(* only where a call is under way or was dropped: a later batch may stand   *)
(* on the root of one that is nowhere.                                      *)
RootsChain ==
    /\ {r.number : r \in Numbered} = 1 .. (nextBatchId - 1)
    /\ \A r, s \in Numbered :
          /\ r.root = r.prev \o r.txs
          /\ r.number = 1 => r.prev = <<>>
          /\ s.number = r.number + 1 => s.prev = r.root
          /\ s.number = r.number => s = r
    /\ \A b \in Unstored : rollupAt[b] \in {"store", "dropped"}
    /\ \A n \in DOMAIN rollupBatches :
          \/ n \in DOMAIN stateRoots /\ stateRoots[n] = rollupBatches[n].root
          \/ \E b \in DOMAIN sequenced :
                sequenced[b].number = n /\ rollupAt[b] \in {"root", "dropped"}

(* Each submitted transaction is in exactly one place, and once: pending,   *)
(* in a stored batch, or with a call of create_batch that is under way or   *)
(* was dropped.  No call that returned has lost one.                        *)
TransactionsKept ==
    /\ \A p, q \in Places : \A i \in DOMAIN Contents[p], j \in DOMAIN Contents[q] :
          Contents[p][i] = Contents[q][j] => p = q /\ i = j
    /\ {tx \in RollupTxs : rollupAt[tx] # "idle"} = UNION {Range(Contents[p]) : p \in Places}
    /\ \A b \in DOMAIN taken : rollupAt[b] \in {"sequence", "dropped"}

(* A final batch loses that status only to a challenge that was admitted    *)
(* not after the deadline, at which finalizing begins; and a batch is       *)
(* Challenged only by such a challenge, on record, for ever.                *)
FinalityHolds ==
    [][\A n \in DOMAIN rollupBatches :
          LET old == rollupBatches[n].status
              new == rollupBatches'[n].status
          IN  /\ old = "Challenged" => new = old
              /\ old # new => \/ old = "Submitted" /\ new = "Finalized"
                              \/ /\ new = "Challenged"
                                 /\ admittedAt[challenges[n]].time <= rollupBatches[n].deadline
      ]_rollupVars

(* RollupSound: the numbered batches are one chain of roots, a transaction  *)
(* is lost only to a call that was dropped, and what is final stays so but  *)
(* for admitted challenges.                                                 *)
RollupSound == []RootsChain /\ []TransactionsKept /\ FinalityHolds

-----------------------------------------------------------------------------
(***************************************************************************)
(* The data availability layer of layer2/data_availability.rs with erasure *)
(* coding and without compression (gzip output is never shorter than 18    *)
(* bytes, so that with it no length below panics).  It shares no state     *)
(* with the rollups.  A datum is a sequence of bytes that are all          *)
(* different: its length is all that encode sees.                          *)
(***************************************************************************)
CONSTANTS DataIds,
          DataShards, ParityShards,   \* 4 and 2
          MaxLength                   \* bound: the longest datum

ASSUME DataAssumption == DataShards = 4 /\ ParityShards = 2 /\ MaxLength \in Nat

VARIABLES
    daStorage,  \* id -> the shards
    daLatest    \* history: id -> the datum last stored without a panic

daVars == <<daStorage, daLatest>>

DAInit == daStorage = <<>> /\ daLatest = <<>>

Bytes(n, salt) == [i \in 1 .. n |-> <<salt, i>>]

ShardSize(n) == (n + DataShards - 1) \div DataShards
ShardStart(n, i) == i * ShardSize(n)
ShardEnd(n, i) == Min({ShardStart(n, i) + ShardSize(n), n})

(* The slice data[start..end] panics when start > end. *)
EncodePanics(n) == \E i \in 0 .. (DataShards - 1) : ShardStart(n, i) > ShardEnd(n, i)

(* encode; the bytes of a parity shard are never read back *)
Encode(d) ==
    [i \in 1 .. (DataShards + ParityShards) |->
        [index |-> i - 1, parity |-> i > DataShards,
         bytes |-> IF i > DataShards THEN <<>>
                   ELSE SubSeq(d, ShardStart(Len(d), i - 1) + 1, ShardEnd(Len(d), i - 1))]]

(* decode: the data shards by index *)
Decode(shards) ==
    LET data == Retained(shards, {i \in DOMAIN shards : ~shards[i].parity})
    IN  FlattenSeq([i \in DOMAIN data |-> data[i].bytes])

MinShards_Half(shards) == Len(shards) \div 2
MinShards(shards) == (Len(shards) * 2) \div 3

(* collect_shards stops as soon as it has enough; every shard is available. *)
CollectShards(shards) == SubSeq(shards, 1, MinShards(shards))

StoreData(id, n) ==
    /\ ~EncodePanics(n)
    /\ \E salt \in {0, 1} :
          /\ daStorage' = Put(daStorage, id, Encode(Bytes(n, salt)))
          /\ daLatest' = Put(daLatest, id, Bytes(n, salt))

RetrieveData(id) == Decode(CollectShards(daStorage[id]))

DANext == \E id \in DataIds, n \in 0 .. MaxLength : StoreData(id, n)

(* What is retrieved is what was stored last, for every length that encode  *)
(* survives, although decode ignores parity: the minimal number of shards   *)
(* is exactly the number of data shards.  The only lengths that panic are   *)
(* 1, 2 and 5.                                                              *)
RetrieveIsStored ==
    /\ \A id \in DOMAIN daStorage : RetrieveData(id) = daLatest[id]
    /\ {n \in 0 .. MaxLength : EncodePanics(n)} = {1, 2, 5} \cap (0 .. MaxLength)
=============================================================================
