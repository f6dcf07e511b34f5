-------------------------- MODULE ParallelExecutor --------------------------
(***************************************************************************)
(* ParallelExecutor::execute_batch (state_machine/parallel.rs): the        *)
(* transactions are analysed into tasks with read and write sets, sorted   *)
(* into layers by their conflicts, and each layer runs on concurrent       *)
(* workers that lock the accounts they touch in a ConflictDetector.        *)
(*                                                                         *)
(* What a transaction does to an account is kept as a version: the task    *)
(* that wrote it last.  Executor has the transaction itself.               *)
(***************************************************************************)
EXTENDS Integers, Sequences, FiniteSets

CONSTANTS N,           \* the number of transactions; task ids are 0 .. N-1
          Addrs,       \* account addresses
          Contracts,   \* the addresses with code
          Payers, Payees,     \* who pays whom in the transactions to choose from
          Callers, Accessed,  \* who calls the contracts, and what a call may name
          Workers,     \* worker_count
          Create,      \* the recipient of a contract creation
          NoTask       \* nobody: an unlocked or never written account

Ids == 0..(N - 1)

Txs == [from : Payers, to : Payees, accessed : {{}}]
           \cup [from : Callers, to : Contracts, accessed : Accessed]

ASSUME ParallelAssumption ==
    /\ N \in Nat /\ Workers \in Nat \ {0}
    /\ NoTask \notin Ids
    /\ Txs \subseteq [from : Addrs, to : Addrs \cup {Create}, accessed : SUBSET Addrs]
    /\ Create \notin Addrs

VARIABLES
    txs,         \* [Ids -> Txs]: the block
    remaining,   \* the tasks that topological_sort has not placed
    inDegree,    \* in_degree
    batches,     \* the layers that have not started, in order
    current,     \* the layer that runs
    pc,          \* where each task is
    toLock,      \* the write locks a task has yet to take
    checked,     \* the address whose lock a task has found free
    writeLocks,  \* [Addrs -> the task in write_locks]
    readLocks,   \* [Addrs -> the tasks in read_locks]
    version,     \* [Addrs -> the task that wrote the account last]
    changes      \* the state_changes a task has read back

sortVars == <<remaining, inDegree, batches>>
lockVars == <<toLock, checked, writeLocks, readLocks>>
vars == <<txs, sortVars, current, pc, lockVars, version, changes>>

-----------------------------------------------------------------------------
(* analyze_transactions: a call of a contract reads it, writes it and may  *)
(* read the account named in its data (predict_accessed_accounts).         *)

ReadSet(i) ==
    {txs[i].from} \cup (IF txs[i].to \in Contracts
                        THEN {txs[i].to} \cup txs[i].accessed ELSE {})
WriteSet(i) == {txs[i].from} \cup ({txs[i].to} \ {Create})

HasConflict(i, j) ==
    \/ WriteSet(i) \cap WriteSet(j) # {}
    \/ ReadSet(i) \cap WriteSet(j) # {}
    \/ WriteSet(i) \cap ReadSet(j) # {}

(* build_dependency_graph: a task depends on the earlier ones it conflicts *)
(* with.                                                                   *)
Deps(i) == {j \in Ids : j < i /\ HasConflict(j, i)}

(* The tasks of S that depend on d. *)
Dependents(d, S) == {i \in S : d \in Deps(i)}

Init ==
    /\ txs \in [Ids -> Txs]
    /\ remaining = Ids
    /\ inDegree = [d \in Ids |-> Cardinality(Dependents(d, Ids))]
    /\ batches = <<>> /\ current = {}
    /\ pc = [i \in Ids |-> "waiting"]
    /\ toLock = [i \in Ids |-> {}]
    /\ checked = [i \in Ids |-> NoTask]
    /\ writeLocks = [a \in Addrs |-> NoTask]
    /\ readLocks = [a \in Addrs |-> {}]
    /\ version = [a \in Addrs |-> NoTask]
    /\ changes = [i \in Ids |-> [a \in {} |-> NoTask]]

-----------------------------------------------------------------------------
(* topological_sort.  in_degree counts the tasks that depend on a task, so *)
(* a layer holds the tasks nobody left depends on.  (The branch that       *)
(* forces a task when a layer is empty is dead: see LayerNeverEmpty.)      *)

Layer == {d \in remaining : inDegree[d] = 0}

SortLayer ==
    /\ remaining # {}
    /\ Layer # {}
    /\ batches' = Append(batches, Layer)
    /\ remaining' = remaining \ Layer
    /\ inDegree' = [d \in Ids |->
          LET less == Cardinality(Dependents(d, Layer))
          IN IF inDegree[d] >= less THEN inDegree[d] - less ELSE 0]
    /\ UNCHANGED <<txs, current, pc, lockVars, version, changes>>

-----------------------------------------------------------------------------
(* execute_parallel_batch *)

Goto(i, label) == pc' = [pc EXCEPT ![i] = label]
Active == {i \in current : pc[i] \in {"locking", "insert", "execute", "release"}}

StartBatch ==
    /\ remaining = {} /\ current = {} /\ batches # <<>>
    /\ current' = Head(batches)
    /\ batches' = Tail(batches)
    /\ pc' = [i \in Ids |-> IF i \in Head(batches) THEN "queued" ELSE pc[i]]
    /\ UNCHANGED <<txs, remaining, inDegree, lockVars, version, changes>>

(* A free worker takes a task from the channel. *)
Take(i) ==
    /\ i \in current /\ pc[i] = "queued"
    /\ Cardinality(Active) < Workers
    /\ toLock' = [toLock EXCEPT ![i] = WriteSet(i)]
    /\ Goto(i, "locking")
    /\ UNCHANGED <<txs, sortVars, current, checked, writeLocks, readLocks, version,
                   changes>>

(* acquire_locks looks for the address in write_locks, waiting until it is *)
(* gone, and then inserts it: two steps.                                   *)
LockCheck(i, a) ==
    /\ pc[i] = "locking"
    /\ a \in toLock[i]
    /\ writeLocks[a] = NoTask
    /\ checked' = [checked EXCEPT ![i] = a]
    /\ Goto(i, "insert")
    /\ UNCHANGED <<txs, sortVars, current, toLock, writeLocks, readLocks, version,
                   changes>>

LockInsert(i) ==
    LET left == toLock[i] \ {checked[i]}
    IN /\ pc[i] = "insert"
       /\ writeLocks' = [writeLocks EXCEPT ![checked[i]] = i]
       /\ toLock' = [toLock EXCEPT ![i] = left]
       /\ readLocks' = [a \in Addrs |->
             IF left = {} /\ a \in ReadSet(i) \ WriteSet(i)
             THEN readLocks[a] \cup {i} ELSE readLocks[a]]
       /\ Goto(i, IF left = {} THEN "execute" ELSE "locking")
       /\ UNCHANGED <<txs, sortVars, current, checked, version, changes>>

Execute_ReadFirst(i, ok) ==
    /\ pc[i] = "execute"
    /\ version' = [a \in Addrs |-> IF ok /\ a \in WriteSet(i) THEN i ELSE version[a]]
    /\ changes' = [changes EXCEPT ![i] = [a \in WriteSet(i) |-> version[a]]]
    /\ Goto(i, "release")
    /\ UNCHANGED <<txs, sortVars, current, lockVars>>

(* execute_task: the transaction succeeds or fails, and the accounts of    *)
(* the write set are read back; only a success is applied again later.     *)
Execute(i, ok) ==
    /\ pc[i] = "execute"
    /\ version' = [a \in Addrs |-> IF ok /\ a \in WriteSet(i) THEN i ELSE version[a]]
    /\ changes' = [changes EXCEPT ![i] =
          IF ok THEN [a \in WriteSet(i) |-> version'[a]] ELSE [a \in {} |-> NoTask]]
    /\ Goto(i, "release")
    /\ UNCHANGED <<txs, sortVars, current, lockVars>>

Release_KeepWrite(i) ==
    /\ pc[i] = "release"
    /\ Goto(i, "finished")
    /\ UNCHANGED <<txs, sortVars, current, lockVars, version, changes>>

(* release_locks keeps every reader but task 0. *)
Release(i) ==
    /\ pc[i] = "release"
    /\ writeLocks' = [a \in Addrs |-> IF a \in WriteSet(i) THEN NoTask ELSE writeLocks[a]]
    /\ readLocks' = [a \in Addrs |->
          IF a \in ReadSet(i) \ WriteSet(i) THEN readLocks[a] \ {0} ELSE readLocks[a]]
    /\ Goto(i, "finished")
    /\ UNCHANGED <<txs, sortVars, current, toLock, checked, version, changes>>

(* The results are applied once all workers have ended. *)
Collect ==
    /\ current # {}
    /\ \A i \in current : pc[i] = "finished"
    /\ version' = [a \in Addrs |->
          IF \E i \in current : a \in DOMAIN changes[i]
          THEN LET i == CHOOSE k \in current : a \in DOMAIN changes[k] IN changes[i][a]
          ELSE version[a]]
    /\ current' = {}
    /\ UNCHANGED <<txs, sortVars, pc, lockVars, changes>>

Work(i) ==
    \/ Take(i)
    \/ \E a \in Addrs : LockCheck(i, a)
    \/ LockInsert(i)
    \/ \E ok \in BOOLEAN : Execute(i, ok)
    \/ Release(i)

Next == SortLayer \/ StartBatch \/ Collect \/ \E i \in Ids : Work(i)

Spec == Init /\ [][Next]_vars

(* The sort is a loop, and the runtime polls the workers. *)
FairSpec == Spec /\ WF_vars(Next)

-----------------------------------------------------------------------------
(* Properties *)

(* What a task may have read back: the versions of some accounts. *)
Versions == UNION {[S -> Ids \cup {NoTask}] : S \in SUBSET Addrs}

(* TypeOK: every variable has the shape of the data it models. *)
TypeOK ==
    /\ txs \in [Ids -> Txs]
    /\ remaining \subseteq Ids
    /\ inDegree \in [Ids -> Nat]
    /\ batches \in Seq(SUBSET Ids)
    /\ current \subseteq Ids
    /\ pc \in [Ids -> {"waiting", "queued", "locking", "insert", "execute",
                       "release", "finished"}]
    /\ toLock \in [Ids -> SUBSET Addrs]
    /\ checked \in [Ids -> Addrs \cup {NoTask}]
    /\ writeLocks \in [Addrs -> Ids \cup {NoTask}]
    /\ readLocks \in [Addrs -> SUBSET Ids]
    /\ version \in [Addrs -> Ids \cup {NoTask}]
    /\ changes \in [Ids -> Versions]

(* LayerNeverEmpty: as long as tasks are left, some task has in-degree 0:  *)
(* the layers always make progress and the branch of topological_sort for  *)
(* circular dependencies is never taken.                                   *)
LayerNeverEmpty == remaining # {} => Layer # {}

(* NoConflictRunsTogether: two tasks that workers hold at the same time    *)
(* never conflict, although in_degree counts the wrong end of the          *)
(* dependencies.                                                           *)
NoConflictRunsTogether ==
    \A i, j \in Active : i # j => ~HasConflict(i, j)

(* LocksUncontended: a task that looks for a write lock finds it free, so  *)
(* that the check and the insertion of acquire_locks, two steps, cannot    *)
(* come between those of another task, and no worker waits.                *)
LocksUncontended ==
    \A i \in Active : \A a \in toLock[i] : writeLocks[a] = NoTask

(* WritesSurvive: applying the accounts that the tasks of a layer read     *)
(* back, after all of them have ended, undoes no write of another task.    *)
WritesSurvive == [][current # {} /\ current' = {} => version' = version]_vars

(* BatchesRunSafely: the layers always progress, conflicting tasks never   *)
(* run side by side, locks are found free, and collecting a layer undoes   *)
(* nothing.                                                                *)
LayersSafe == TypeOK /\ LayerNeverEmpty /\ NoConflictRunsTogether /\ LocksUncontended
BatchesRunSafely == []LayersSafe /\ WritesSurvive

(* AllExecuted: every task is executed, once its layer comes.              *)
AllExecuted == <>[](\A i \in Ids : pc[i] = "finished")

(* DependenciesRunFirst: a task is executed after the tasks it depends on. *)
(* It is executed before them: the layers come out in reverse.             *)
DependenciesRunFirst ==
    \A i \in Ids : pc[i] \in {"release", "finished"} =>
        \A j \in Deps(i) : pc[j] \in {"release", "finished"}
=============================================================================
