------------------------------- MODULE StateDB -------------------------------
(***************************************************************************)
(* The account, storage and code caches of state_machine/state.rs over the *)
(* key-value backend.  The caches are concurrent maps; the dirty accounts  *)
(* are a map behind an async RwLock.  A task runs one operation at a time  *)
(* and can be suspended at every wait for the lock or for the backend, so  *)
(* an operation is one action per stretch of code between two such waits.  *)
(*                                                                         *)
(* None stands for a missing key.  Addresses, storage slots (an address    *)
(* and a key), code blobs (with their hash) and balances are opaque; of an *)
(* account only the balance and the code hash are kept.                    *)
(***************************************************************************)
EXTENDS Naturals, FiniteSets

CONSTANTS Tasks,      \* the async tasks that share the StateDB
          Addrs,      \* account addresses
          Slots,      \* storage slots
          Balances,   \* balances and storage values
          Codes,      \* contract codes
          Blocks,     \* block hashes
          CacheSize,  \* cache_size
          Ops,        \* the operations the tasks call
          None        \* no value

ASSUME StateAssumption ==
    /\ CacheSize \in Nat
    /\ None \notin Tasks \cup Balances \cup Codes

Account == [bal : Balances, code : Codes \cup {None}]
Batch == [accounts : [Addrs -> Account \cup {None}],
          slots : [Slots -> Balances \cup {None}], code : SUBSET Codes]

ASSUME NoneNotAccount == None \notin Account

VARIABLES
    accounts,   \* [Addrs -> Account or None]: the account cache
    storage,    \* [Slots -> value or None]: the storage cache
    code,       \* the codes in the code cache
    dirty,      \* [Addrs -> Account or None]: dirty_accounts
    readers,    \* the tasks that hold dirty_accounts for reading
    holder,     \* the task that keeps dirty_accounts for writing
    bAccounts,  \* the backend's account keys
    bSlots,     \* the backend's storage keys, by the form of the key
    bCode,      \* the backend's code keys
    bBlocks,    \* the backend's block keys
    pc,         \* where each task is
    addr,       \* the address a task works on
    val,        \* the account a task works on
    newCode,    \* the code set_code stores; None in other operations
    batch,      \* the batch a commit has collected
    snapshot    \* what create_snapshot returned last

caches == <<accounts, storage, code>>
backend == <<bAccounts, bSlots, bCode, bBlocks>>
locals == <<addr, val, newCode, batch>>
vars == <<caches, dirty, readers, holder, backend, pc, locals, snapshot>>

(* The two forms of a storage key: storage_key writes the 20 bytes of the  *)
(* address, storage_key_from_hash the 32 bytes of the padded address.      *)
Forms == {"address", "hash"}

Empty(S) == [x \in S |-> None]
(* f with the keys that g has. *)
Override(f, g) == [x \in DOMAIN f |-> IF g[x] # None THEN g[x] ELSE f[x]]

(* A StateDB::new over a backend that an earlier process may have filled. *)
Init ==
    /\ accounts = Empty(Addrs) /\ storage = Empty(Slots) /\ code = {}
    /\ dirty = Empty(Addrs) /\ readers = {} /\ holder = None
    /\ bAccounts \in [Addrs -> Account \cup {None}]
    /\ bSlots = [f \in Forms |-> Empty(Slots)]
    /\ bCode = {} /\ bBlocks = {}
    /\ pc = [t \in Tasks |-> "idle"]
    /\ addr = Empty(Tasks) /\ val = Empty(Tasks) /\ newCode = Empty(Tasks)
    /\ batch = Empty(Tasks)
    /\ snapshot = None

Goto(t, label) == pc' = [pc EXCEPT ![t] = label]
(* The operation ends and its local variables are dropped. *)
Return(t) ==
    /\ Goto(t, "idle")
    /\ addr' = [addr EXCEPT ![t] = None]
    /\ val' = [val EXCEPT ![t] = None]
    /\ newCode' = [newCode EXCEPT ![t] = None]
    /\ batch' = [batch EXCEPT ![t] = None]
CanWrite == readers = {} /\ holder = None

-----------------------------------------------------------------------------
(* get_account; is_contract is the same read.  A hit changes nothing. *)

GetMiss(t, a) ==
    /\ pc[t] = "idle" /\ "get" \in Ops
    /\ accounts[a] = None
    /\ addr' = [addr EXCEPT ![t] = a]
    /\ Goto(t, "get_load")
    /\ UNCHANGED <<caches, dirty, readers, holder, backend, val, newCode,
                   batch, snapshot>>

(* The backend's answer; the call ends when the backend has no account. *)
GetLoad(t) ==
    LET found == bAccounts[addr[t]]
    IN /\ pc[t] = "get_load"
       /\ \/ found = None /\ Return(t)
          \/ /\ found # None
             /\ val' = [val EXCEPT ![t] = found]
             /\ Goto(t, "get_insert")
             /\ UNCHANGED <<addr, newCode, batch>>
       /\ UNCHANGED <<caches, dirty, readers, holder, backend, snapshot>>

(* The answer enters the cache, whatever the cache holds by now. *)
GetInsert(t) ==
    /\ pc[t] = "get_insert"
    /\ accounts' = [accounts EXCEPT ![addr[t]] = val[t]]
    /\ \/ newCode[t] = None /\ Return(t)
       \/ newCode[t] # None /\ Goto(t, "set_code") /\ UNCHANGED locals
    /\ UNCHANGED <<storage, code, dirty, readers, holder, backend, snapshot>>

-----------------------------------------------------------------------------
(* set_account: the cache first, then the dirty accounts under their lock. *)

SetAccount(t, a, account) ==
    /\ pc[t] = "idle" /\ "set" \in Ops
    /\ accounts' = [accounts EXCEPT ![a] = account]
    /\ addr' = [addr EXCEPT ![t] = a]
    /\ val' = [val EXCEPT ![t] = account]
    /\ Goto(t, "set_dirty")
    /\ UNCHANGED <<storage, code, dirty, readers, holder, backend, newCode,
                   batch, snapshot>>

SetDirty(t) ==
    /\ pc[t] = "set_dirty"
    /\ CanWrite
    /\ dirty' = [dirty EXCEPT ![addr[t]] = val[t]]
    /\ Return(t)
    /\ UNCHANGED <<caches, readers, holder, backend, snapshot>>

(* evict_cache tosses a coin per entry and removes the ones that win from  *)
(* the map it iterates: the removal waits for the shard that the iterator  *)
(* itself has locked, with the dirty accounts locked too.  (When no entry  *)
(* wins nothing is removed, which is SetDirty.)                            *)
SetDirtyEvict(t) ==
    /\ pc[t] = "set_dirty"
    /\ CanWrite
    /\ Cardinality({a \in Addrs : accounts[a] # None}) > CacheSize
    /\ dirty' = [dirty EXCEPT ![addr[t]] = val[t]]
    /\ holder' = t
    /\ Goto(t, "evict")
    /\ UNCHANGED <<caches, readers, backend, locals, snapshot>>

-----------------------------------------------------------------------------
(* set_storage, and set_code: the code enters its cache before the account *)
(* that refers to it is looked up and written.                             *)

SetStorage(t, s, v) ==
    /\ pc[t] = "idle" /\ "storage" \in Ops
    /\ storage' = [storage EXCEPT ![s] = v]
    /\ UNCHANGED <<accounts, code, dirty, readers, holder, backend, pc, locals,
                   snapshot>>

SetCode(t, a, c) ==
    /\ pc[t] = "idle" /\ "code" \in Ops
    /\ code' = code \cup {c}
    /\ addr' = [addr EXCEPT ![t] = a]
    /\ val' = [val EXCEPT ![t] = accounts[a]]
    /\ newCode' = [newCode EXCEPT ![t] = c]
    /\ Goto(t, IF accounts[a] = None THEN "get_load" ELSE "set_code")
    /\ UNCHANGED <<accounts, storage, dirty, readers, holder, backend, batch,
                   snapshot>>

SetCodeAccount(t) ==
    LET account == [bal |-> val[t].bal, code |-> newCode[t]]
    IN /\ pc[t] = "set_code"
       /\ accounts' = [accounts EXCEPT ![addr[t]] = account]
       /\ val' = [val EXCEPT ![t] = account]
       /\ Goto(t, "set_dirty")
       /\ UNCHANGED <<storage, code, dirty, readers, holder, backend, addr,
                      newCode, batch, snapshot>>

(* get_code puts what the backend has into the cache. *)
GetCode(t, c) ==
    /\ pc[t] = "idle" /\ "code" \in Ops
    /\ c \in bCode \ code
    /\ code' = code \cup {c}
    /\ UNCHANGED <<accounts, storage, dirty, readers, holder, backend, pc,
                   locals, snapshot>>

-----------------------------------------------------------------------------
(* commit holds dirty_accounts for reading until the block is recorded. *)

CommitBegin(t) ==
    /\ pc[t] = "idle" /\ "commit" \in Ops
    /\ holder = None
    /\ readers' = readers \cup {t}
    /\ batch' = [batch EXCEPT ![t] = [accounts |-> dirty, slots |-> Empty(Slots),
                                      code |-> {}]]
    /\ Goto(t, "commit_collect")
    /\ UNCHANGED <<caches, dirty, holder, backend, addr, val, newCode, snapshot>>

(* The storage and code caches are not covered by the lock. *)
CommitCollect(t) ==
    /\ pc[t] = "commit_collect"
    /\ batch' = [batch EXCEPT ![t] = [accounts |-> batch[t].accounts,
                                      slots |-> storage, code |-> code]]
    /\ Goto(t, "commit_put")
    /\ UNCHANGED <<caches, dirty, readers, holder, backend, addr, val, newCode,
                   snapshot>>

CommitPut_Missing(t) ==
    /\ pc[t] = "commit_put"
    /\ bAccounts' = [a \in Addrs |-> IF bAccounts[a] = None THEN batch[t].accounts[a]
                                                            ELSE bAccounts[a]]
    /\ bSlots' = [bSlots EXCEPT !["hash"] = Override(@, batch[t].slots)]
    /\ bCode' = bCode \cup batch[t].code
    /\ Goto(t, "commit_block")
    /\ UNCHANGED <<caches, dirty, readers, holder, bBlocks, locals, snapshot>>

CommitPut(t) ==
    /\ pc[t] = "commit_put"
    /\ bAccounts' = Override(bAccounts, batch[t].accounts)
    /\ bSlots' = [bSlots EXCEPT !["hash"] = Override(@, batch[t].slots)]
    /\ bCode' = bCode \cup batch[t].code
    /\ Goto(t, "commit_block")
    /\ UNCHANGED <<caches, dirty, readers, holder, bBlocks, locals, snapshot>>

CommitBlock(t, b) ==
    /\ pc[t] = "commit_block"
    /\ bBlocks' = bBlocks \cup {b}
    /\ readers' = readers \ {t}
    /\ batch' = [batch EXCEPT ![t] = None]
    /\ Goto(t, "commit_clear")
    /\ UNCHANGED <<caches, dirty, holder, bAccounts, bSlots, bCode, addr, val,
                   newCode, snapshot>>

(* Either write fails: the call returns and the dirty accounts stay. *)
CommitFail(t) ==
    /\ pc[t] \in {"commit_put", "commit_block"}
    /\ readers' = readers \ {t}
    /\ Return(t)
    /\ UNCHANGED <<caches, dirty, holder, backend, snapshot>>

(* The lock is taken a second time to clear the map. *)
CommitClear(t) ==
    /\ pc[t] = "commit_clear"
    /\ CanWrite
    /\ dirty' = Empty(Addrs)
    /\ Return(t)
    /\ UNCHANGED <<caches, readers, holder, backend, snapshot>>

-----------------------------------------------------------------------------
(* rollback, create_snapshot and restore_snapshot. *)

Rollback(t) ==
    /\ pc[t] = "idle" /\ "rollback" \in Ops
    /\ accounts' = Empty(Addrs) /\ storage' = Empty(Slots)
    /\ Goto(t, "rollback_clear")
    /\ UNCHANGED <<code, dirty, readers, holder, backend, locals, snapshot>>

RollbackClear_Code(t) ==
    /\ pc[t] = "rollback_clear"
    /\ CanWrite
    /\ dirty' = Empty(Addrs) /\ code' = {}
    /\ Return(t)
    /\ UNCHANGED <<accounts, storage, readers, holder, backend, snapshot>>

RollbackClear(t) ==
    /\ pc[t] = "rollback_clear"
    /\ CanWrite
    /\ dirty' = Empty(Addrs)
    /\ Return(t)
    /\ UNCHANGED <<caches, readers, holder, backend, snapshot>>

CreateSnapshot(t) ==
    /\ pc[t] = "idle" /\ "snapshot" \in Ops
    /\ snapshot' = [accounts |-> accounts, storage |-> storage, code |-> code]
    /\ UNCHANGED <<caches, dirty, readers, holder, backend, pc, locals>>

RestoreSnapshot(t) ==
    /\ pc[t] = "idle" /\ "snapshot" \in Ops
    /\ snapshot # None
    /\ accounts' = snapshot.accounts
    /\ storage' = snapshot.storage
    /\ code' = snapshot.code
    /\ UNCHANGED <<dirty, readers, holder, backend, pc, locals, snapshot>>

-----------------------------------------------------------------------------
Start(t) ==
    \/ \E a \in Addrs : GetMiss(t, a)
    \/ \E a \in Addrs, account \in Account : SetAccount(t, a, account)
    \/ \E s \in Slots, v \in Balances : SetStorage(t, s, v)
    \/ \E a \in Addrs, c \in Codes : SetCode(t, a, c)
    \/ \E c \in Codes : GetCode(t, c)
    \/ CommitBegin(t) \/ Rollback(t) \/ CreateSnapshot(t) \/ RestoreSnapshot(t)

Continue(t) ==
    \/ GetLoad(t) \/ GetInsert(t)
    \/ SetDirty(t) \/ SetDirtyEvict(t) \/ SetCodeAccount(t)
    \/ CommitCollect(t) \/ CommitPut(t) \/ (\E b \in Blocks : CommitBlock(t, b))
    \/ CommitFail(t) \/ CommitClear(t)
    \/ RollbackClear(t)

Next == \E t \in Tasks : Start(t) \/ Continue(t)

Spec == Init /\ [][Next]_vars

-----------------------------------------------------------------------------
(* Properties *)

(* TypeOK: every variable has the shape of the field it models. *)
TypeOK ==
    /\ accounts \in [Addrs -> Account \cup {None}]
    /\ storage \in [Slots -> Balances \cup {None}]
    /\ code \subseteq Codes
    /\ dirty \in [Addrs -> Account \cup {None}]
    /\ readers \subseteq Tasks
    /\ holder \in Tasks \cup {None}
    /\ bAccounts \in [Addrs -> Account \cup {None}]
    /\ bSlots \in [Forms -> [Slots -> Balances \cup {None}]]
    /\ bCode \subseteq Codes
    /\ bBlocks \subseteq Blocks
    /\ pc \in [Tasks -> {"idle", "get_load", "get_insert", "set_code",
                         "set_dirty", "evict", "commit_collect", "commit_put",
                         "commit_block", "commit_clear", "rollback_clear"}]
    /\ addr \in [Tasks -> Addrs \cup {None}]
    /\ val \in [Tasks -> Account \cup {None}]
    /\ newCode \in [Tasks -> Codes \cup {None}]
    /\ batch \in [Tasks -> Batch \cup {None}]
    /\ snapshot \in [accounts : [Addrs -> Account \cup {None}],
                     storage : [Slots -> Balances \cup {None}],
                     code : SUBSET Codes] \cup {None}

(* CommitPersistsDirty: from the moment commit's batch is written until it *)
(* drops its read guard, the backend holds every dirty account as it is    *)
(* then, whatever the other tasks set, roll back, commit or restore: the   *)
(* guard covers the collection, the write and the block record.            *)
CommitPersistsDirty ==
    \A t \in Tasks : pc[t] = "commit_block" =>
        \A a \in Addrs : dirty[a] # None => bAccounts[a] = dirty[a]

(* CommitsPersist: the two together, which the proof needs as one.         *)
CommitsPersist == TypeOK /\ CommitPersistsDirty

(* ReadsWhatCommits: between operations, what get_account answers is what  *)
(* the backend will hold once the dirty accounts are committed: no write   *)
(* is visible but not going to be persisted, none persisted but not        *)
(* visible, whatever commits failed and whatever was rolled back.          *)
Visible(a) == IF accounts[a] # None THEN accounts[a] ELSE bAccounts[a]
Committed(a) == IF dirty[a] # None THEN dirty[a] ELSE bAccounts[a]
ReadsWhatCommits ==
    (\A t \in Tasks : pc[t] = "idle") => \A a \in Addrs : Visible(a) = Committed(a)
=============================================================================
