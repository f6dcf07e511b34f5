---------------------------- MODULE StateDBHistory ----------------------------
(***************************************************************************)
(* StateDB with a history of what has happened so far, for TLC; and proofs *)
(* about both, for any number of tasks, addresses and values.              *)
(***************************************************************************)
EXTENDS StateDB, TLC, TLAPS

VARIABLES overlapped,   \* history: two operations have been under way at once
          restored      \* history: a snapshot has been restored

MCInit == Init /\ overlapped = FALSE /\ restored = FALSE

MCNext ==
    /\ Next
    /\ overlapped' = (overlapped \/ \E t, u \in Tasks :
                                       t # u /\ pc'[t] # "idle" /\ pc'[u] # "idle")
    /\ restored' = (restored \/ \E t \in Tasks : RestoreSnapshot(t))

MCSpec == MCInit /\ [][MCNext]_<<vars, overlapped, restored>>

StateSymmetry == Permutations(Tasks) \cup Permutations(Addrs)
                    \cup Permutations(Balances)

(* AloneReadsWhatCommits: as long as operations have followed one another  *)
(* and no snapshot has been restored, what get_account answers is what the *)
(* backend will hold after a commit, through failing commits, rollbacks    *)
(* and reads that fill the cache.                                          *)
AloneReadsWhatCommits == ~overlapped /\ ~restored => ReadsWhatCommits

(* CodeNeverLost: a code that get_code could return stays available, in    *)
(* whatever order tasks commit and roll back: a rollback drops the         *)
(* accounts and the storage of the cache, not the code.  (Restoring a      *)
(* snapshot replaces the code cache.)                                      *)
CodeNeverLost ==
    [][~restored' => code \cup bCode \subseteq (code \cup bCode)']_<<vars, restored>>

(* ReadsStayTrue: undisturbed reads answer what will be committed, and no  *)
(* commit or rollback makes a code unavailable.                            *)
ReadsStayTrue == []AloneReadsWhatCommits /\ CodeNeverLost

-----------------------------------------------------------------------------
(* The labels at which a commit holds its read guard. *)
Guarded == {"commit_collect", "commit_put", "commit_block"}

(* ArgsOK: a task that is inside an operation has the arguments that its   *)
(* next step uses; only an idle task has none.                             *)
ArgsOK ==
    \A t \in Tasks :
        /\ pc[t] \in {"get_load", "get_insert", "set_code", "set_dirty"} => addr[t] \in Addrs
        /\ pc[t] \in {"get_insert", "set_code", "set_dirty"} => val[t] \in Account
        /\ pc[t] = "set_code" => newCode[t] \in Codes
        /\ pc[t] \in Guarded => batch[t] \in Batch

(* GuardOK: the tasks inside commit's guarded stretch are the readers of   *)
(* dirty_accounts, and a lock with readers has no writer.                  *)
GuardOK ==
    /\ \A t \in Tasks : pc[t] \in Guarded <=> t \in readers
    /\ readers # {} => holder = None

(* BatchOK: while the guard is held the collected accounts are the dirty   *)
(* accounts: nobody can have written them since.                           *)
BatchOK == \A t \in Tasks : pc[t] \in Guarded => batch[t].accounts = dirty

IInv == TypeOK /\ ArgsOK /\ GuardOK /\ BatchOK /\ CommitPersistsDirty

-----------------------------------------------------------------------------

(* Writing a batch over a map yields a map with every key of the batch. *)
LEMMA OverrideFact ==
    ASSUME NEW S, NEW T, NEW f \in [S -> T \cup {None}], NEW g \in [S -> T \cup {None}]
    PROVE  /\ Override(f, g) \in [S -> T \cup {None}]
           /\ \A x \in S : g[x] # None => Override(f, g)[x] = g[x]
BY DEF Override

(* A fresh StateDB satisfies the invariant. *)
LEMMA InitInv == Init => IInv
BY StateAssumption, NoneNotAccount
   DEF Init, IInv, TypeOK, ArgsOK, GuardOK, BatchOK, CommitPersistsDirty, Empty,
       Guarded, Forms

(* An operation's first step preserves the invariant. *)
LEMMA StartInv == ASSUME IInv, NEW t \in Tasks, Start(t) PROVE IInv'
<1> USE StateAssumption, NoneNotAccount
<1>1. CASE \E a \in Addrs : GetMiss(t, a)
  <2>1. PICK a \in Addrs : GetMiss(t, a)  BY <1>1
  <2> QED  BY <2>1 DEF GetMiss, Goto, IInv, TypeOK, ArgsOK, GuardOK, BatchOK,
                CommitPersistsDirty, Guarded, caches, backend
<1>2. CASE \E a \in Addrs, account \in Account : SetAccount(t, a, account)
  <2>1. PICK a \in Addrs, account \in Account : SetAccount(t, a, account)  BY <1>2
  <2> QED  BY <2>1 DEF SetAccount, Goto, IInv, TypeOK, ArgsOK, GuardOK, BatchOK,
                CommitPersistsDirty, Guarded, backend
<1>3. CASE \E s \in Slots, v \in Balances : SetStorage(t, s, v)
  <2>1. PICK s \in Slots, v \in Balances : SetStorage(t, s, v)  BY <1>3
  <2> QED  BY <2>1 DEF SetStorage, IInv, TypeOK, ArgsOK, GuardOK, BatchOK,
                CommitPersistsDirty, Guarded, backend, locals
<1>4. CASE \E a \in Addrs, c \in Codes : SetCode(t, a, c)
  <2>1. PICK a \in Addrs, c \in Codes : SetCode(t, a, c)  BY <1>4
  <2> QED  BY <2>1 DEF SetCode, Goto, IInv, TypeOK, ArgsOK, GuardOK, BatchOK,
                CommitPersistsDirty, Guarded, backend
<1>5. CASE \E c \in Codes : GetCode(t, c)
  BY <1>5 DEF GetCode, IInv, TypeOK, ArgsOK, GuardOK, BatchOK, CommitPersistsDirty,
        Guarded, backend, locals
<1>6. CASE CommitBegin(t)
  BY <1>6 DEF CommitBegin, Batch, Goto, Empty, IInv, TypeOK, ArgsOK, GuardOK, BatchOK,
        CommitPersistsDirty, Guarded, caches, backend
<1>7. CASE Rollback(t)
  BY <1>7 DEF Rollback, Goto, Empty, IInv, TypeOK, ArgsOK, GuardOK, BatchOK,
        CommitPersistsDirty, Guarded, backend, locals
<1>8. CASE CreateSnapshot(t)
  BY <1>8 DEF CreateSnapshot, IInv, TypeOK, ArgsOK, GuardOK, BatchOK,
        CommitPersistsDirty, Guarded, caches, backend, locals
<1>9. CASE RestoreSnapshot(t)
  BY <1>9 DEF RestoreSnapshot, IInv, TypeOK, ArgsOK, GuardOK, BatchOK,
        CommitPersistsDirty, Guarded, backend, locals
<1> QED  BY <1>1, <1>2, <1>3, <1>4, <1>5, <1>6, <1>7, <1>8, <1>9 DEF Start

(* The later steps preserve it too: those that change the dirty accounts   *)
(* need the lock to themselves, so they meet no commit in its guarded      *)
(* stretch.                                                                *)
LEMMA ContinueInv == ASSUME IInv, NEW t \in Tasks, Continue(t) PROVE IInv'
<1> USE StateAssumption, NoneNotAccount
<1>1. CASE GetLoad(t)
  <2>1. CASE bAccounts[addr[t]] = None
    BY <1>1, <2>1, SMTT(30) DEF GetLoad, Goto, Return, IInv, TypeOK, ArgsOK, GuardOK, BatchOK,
          CommitPersistsDirty, Guarded, caches, backend
  <2>2. CASE bAccounts[addr[t]] # None
    BY <1>1, <2>2 DEF GetLoad, Goto, IInv, TypeOK, ArgsOK, GuardOK, BatchOK,
          CommitPersistsDirty, Guarded, caches, backend
  <2> QED  BY <2>1, <2>2
<1>2. CASE GetInsert(t)
  <2>1. CASE newCode[t] = None
    <3>1. Return(t) /\ pc[t] = "get_insert"  BY <1>2, <2>1 DEF GetInsert
    <3>2. /\ accounts' \in [Addrs -> Account \cup {None}]
          /\ UNCHANGED <<storage, code, dirty, readers, holder, backend, snapshot>>
      BY <1>2 DEF GetInsert, IInv, TypeOK, ArgsOK
    <3> QED  BY <3>1, <3>2 DEF Goto, Return, IInv, TypeOK, ArgsOK, GuardOK, BatchOK,
                  CommitPersistsDirty, Guarded, backend
  <2>2. CASE newCode[t] # None
    BY <1>2, <2>2 DEF GetInsert, Goto, IInv, TypeOK, ArgsOK, GuardOK, BatchOK,
          CommitPersistsDirty, Guarded, backend, locals
  <2> QED  BY <2>1, <2>2
<1>3. CASE SetDirty(t)
  BY <1>3 DEF SetDirty, CanWrite, Goto, Return, IInv, TypeOK, ArgsOK, GuardOK, BatchOK,
        CommitPersistsDirty, Guarded, caches, backend
<1>4. CASE SetDirtyEvict(t)
  BY <1>4 DEF SetDirtyEvict, CanWrite, Goto, IInv, TypeOK, ArgsOK, GuardOK, BatchOK,
        CommitPersistsDirty, Guarded, caches, backend, locals
<1>5. CASE SetCodeAccount(t)
  BY <1>5 DEF SetCodeAccount, Account, Goto, IInv, TypeOK, ArgsOK, GuardOK, BatchOK,
        CommitPersistsDirty, Guarded, backend
<1>6. CASE CommitCollect(t)
  BY <1>6 DEF CommitCollect, Batch, Goto, IInv, TypeOK, ArgsOK, GuardOK, BatchOK,
        CommitPersistsDirty, Guarded, caches, backend
<1>7. CASE CommitPut(t)
  <2> DEFINE b == batch[t]
  <2>1. /\ b \in Batch
        /\ b.accounts = dirty
    BY <1>7 DEF CommitPut, IInv, TypeOK, ArgsOK, BatchOK, Guarded
  <2>2. /\ bAccounts' \in [Addrs -> Account \cup {None}]
        /\ \A a \in Addrs : dirty[a] # None => bAccounts'[a] = dirty[a]
    <3>1. /\ Override(bAccounts, dirty) \in [Addrs -> Account \cup {None}]
          /\ \A a \in Addrs : dirty[a] # None => Override(bAccounts, dirty)[a] = dirty[a]
      <4>1. bAccounts \in [Addrs -> Account \cup {None}] /\ dirty \in [Addrs -> Account \cup {None}]
        BY DEF IInv, TypeOK
      <4> QED  BY <4>1, OverrideFact
    <3> QED  BY <1>7, <2>1, <3>1 DEF CommitPut
  <2>3. bSlots' \in [Forms -> [Slots -> Balances \cup {None}]]
    <3>1. Override(bSlots["hash"], b.slots) \in [Slots -> Balances \cup {None}]
      BY <2>1, OverrideFact DEF IInv, TypeOK, Forms, Batch
    <3> QED  BY <1>7, <3>1 DEF CommitPut, IInv, TypeOK, Forms
  <2>4. TypeOK'
    BY <1>7, <2>1, <2>2, <2>3 DEF CommitPut, Goto, Batch, IInv, TypeOK, caches, locals
  <2>5. ArgsOK' /\ GuardOK' /\ BatchOK'
    BY <1>7 DEF CommitPut, Goto, IInv, TypeOK, ArgsOK, GuardOK, BatchOK, Guarded,
          caches, locals
  <2>6. CommitPersistsDirty'
    BY <1>7, <2>2 DEF CommitPut, CommitPersistsDirty
  <2> QED  BY <2>4, <2>5, <2>6 DEF IInv
<1>8. CASE \E b \in Blocks : CommitBlock(t, b)
  BY <1>8 DEF CommitBlock, Goto, IInv, TypeOK, ArgsOK, GuardOK, BatchOK,
        CommitPersistsDirty, Guarded, caches
<1>9. CASE CommitFail(t)
  BY <1>9 DEF CommitFail, Goto, Return, IInv, TypeOK, ArgsOK, GuardOK, BatchOK,
        CommitPersistsDirty, Guarded, caches, backend
<1>10. CASE CommitClear(t)
  BY <1>10 DEF CommitClear, CanWrite, Empty, Goto, Return, IInv, TypeOK, ArgsOK,
        GuardOK, BatchOK, CommitPersistsDirty, Guarded, caches, backend
<1>11. CASE RollbackClear(t)
  BY <1>11 DEF RollbackClear, CanWrite, Empty, Goto, Return, IInv, TypeOK, ArgsOK,
        GuardOK, BatchOK, CommitPersistsDirty, Guarded, caches, backend
<1> QED
  BY <1>1, <1>2, <1>3, <1>4, <1>5, <1>6, <1>7, <1>8, <1>9, <1>10, <1>11 DEF Continue

LEMMA Stutters == ASSUME IInv, UNCHANGED vars PROVE IInv'
BY DEF vars, caches, backend, locals, IInv, TypeOK, ArgsOK, GuardOK, BatchOK,
       CommitPersistsDirty

(* The invariant holds in every reachable state. *)
LEMMA IInvHolds == Spec => []IInv
<1>1. ASSUME IInv, [Next]_vars PROVE IInv'
  <2>1. CASE Next  BY <1>1, <2>1, StartInv, ContinueInv DEF Next
  <2>2. CASE UNCHANGED vars
    BY <1>1, <2>2, Stutters
  <2> QED  BY <1>1, <2>1, <2>2
<1> QED  BY InitInv, <1>1, PTL DEF Spec

(* TypeCorrect: every field of the StateDB keeps its type, whatever        *)
(* operations the tasks interleave (state.rs).                             *)
THEOREM TypeCorrect == Spec => []TypeOK
BY IInvHolds, PTL DEF IInv

(* CommitPersists: a commit that has written its batch and still holds its *)
(* read guard has every dirty account in the backend, for any number of    *)
(* concurrent set_account, set_code, rollback, restore and commit calls.   *)
THEOREM CommitPersists == Spec => []CommitPersistsDirty
BY IInvHolds, PTL DEF IInv

(* CommitsAlwaysPersist: both facts about state.rs together, for any number *)
(* of tasks, addresses, slots and codes.                                    *)
THEOREM CommitsAlwaysPersist == Spec => []CommitsPersist
<1>1. IInv => CommitsPersist  BY DEF IInv, CommitsPersist
<1> QED  BY <1>1, IInvHolds, PTL

-----------------------------------------------------------------------------
(* While operations follow one another, what a read sees and what a commit  *)
(* would leave differ only inside a write or a rollback.                    *)
hvars == <<vars, overlapped, restored>>

OneAtATime == \A t, u \in Tasks : pc[t] # "idle" /\ pc[u] # "idle" => t = u
Agree(a) == Visible(a) = Committed(a)
Unsettled == {"set_dirty", "evict", "rollback_clear"}

(* What the operation under way has in hand. *)
AloneHolds(t) ==
    /\ pc[t] \in {"get_load", "get_insert"} => accounts[addr[t]] = None
    /\ pc[t] = "get_insert" => val[t] = bAccounts[addr[t]]
    /\ pc[t] = "set_dirty" =>
          accounts[addr[t]] = val[t] /\ \A a \in Addrs \ {addr[t]} : Agree(a)
    /\ pc[t] = "rollback_clear" => \A a \in Addrs : accounts[a] = None
    /\ pc[t] = "commit_clear" => \A a \in Addrs : dirty[a] # None => bAccounts[a] = dirty[a]

AloneInv ==
    ~overlapped /\ ~restored =>
        /\ OneAtATime
        /\ \A t \in Tasks : AloneHolds(t)
        /\ (\A t \in Tasks : pc[t] \notin Unsettled) => \A a \in Addrs : Agree(a)

(* The step of a task that is alone, or that stays idle. *)
LEMMA AloneStep ==
    ASSUME IInv, IInv', OneAtATime, OneAtATime', NEW t \in Tasks, Start(t) \/ Continue(t),
           \A u \in Tasks : AloneHolds(u), ~RestoreSnapshot(t),
           (\A u \in Tasks : pc[u] \notin Unsettled) => \A a \in Addrs : Agree(a)
    PROVE  /\ \A u \in Tasks : AloneHolds(u)'
           /\ (\A u \in Tasks : pc'[u] \notin Unsettled) => \A a \in Addrs : Agree(a)'
<1> USE StateAssumption, NoneNotAccount
<1>0. /\ pc \in [Tasks -> {"idle", "get_load", "get_insert", "set_code", "set_dirty", "evict", "commit_collect",
                           "commit_put", "commit_block", "commit_clear", "rollback_clear"}]
      /\ accounts \in [Addrs -> Account \cup {None}]
      /\ dirty \in [Addrs -> Account \cup {None}] /\ bAccounts \in [Addrs -> Account \cup {None}]
      /\ addr \in [Tasks -> Addrs \cup {None}] /\ val \in [Tasks -> Account \cup {None}]
      /\ newCode \in [Tasks -> Codes \cup {None}] /\ batch \in [Tasks -> Batch \cup {None}]
  BY DEF IInv, TypeOK
<1>1. ASSUME pc[t] # "idle" \/ pc'[t] # "idle", \A u \in Tasks \ {t} : pc'[u] = pc[u]
      PROVE  \A u \in Tasks \ {t} : pc[u] = "idle" /\ pc'[u] = "idle"
  BY <1>1 DEF OneAtATime
<1>2. ASSUME \A u \in Tasks \ {t} : pc'[u] = "idle", AloneHolds(t)' PROVE \A u \in Tasks : AloneHolds(u)'
  BY <1>2 DEF AloneHolds
<1>3. ASSUME \A u \in Tasks \ {t} : pc[u] = "idle", pc[t] \notin Unsettled
      PROVE  \A a \in Addrs : Agree(a)
  BY <1>3 DEF Unsettled
<1>4. CASE UNCHANGED <<accounts, dirty, bAccounts, pc, addr, val>>
  BY <1>4 DEF AloneHolds, Agree, Visible, Committed
<1>5. CASE \E a \in Addrs : GetMiss(t, a)
  <2>1. PICK a \in Addrs : GetMiss(t, a)
    BY <1>5
  <2>2. /\ pc[t] = "idle" /\ pc' = [pc EXCEPT ![t] = "get_load"] /\ accounts[a] = None
        /\ addr' = [addr EXCEPT ![t] = a] /\ UNCHANGED <<accounts, dirty, bAccounts>>
    BY <2>1 DEF GetMiss, Goto, caches, backend
  <2>3. \A u \in Tasks \ {t} : pc[u] = "idle" /\ pc'[u] = "idle"
    BY <1>0, <1>1, <2>2
  <2>4. \A a1 \in Addrs : Agree(a1)
    BY <1>3, <2>2, <2>3 DEF Unsettled
  <2>5. AloneHolds(t)'
    BY <1>0, <2>2 DEF AloneHolds
  <2> QED  BY <1>2, <2>2, <2>3, <2>4, <2>5 DEF Agree, Visible, Committed
<1>6. CASE \E a \in Addrs, account \in Account : SetAccount(t, a, account)
  <2>1. PICK a \in Addrs, account \in Account : SetAccount(t, a, account)
    BY <1>6
  <2>2. /\ pc[t] = "idle" /\ pc' = [pc EXCEPT ![t] = "set_dirty"]
        /\ accounts' = [accounts EXCEPT ![a] = account]
        /\ addr' = [addr EXCEPT ![t] = a] /\ val' = [val EXCEPT ![t] = account]
        /\ UNCHANGED <<dirty, bAccounts>>
    BY <2>1 DEF SetAccount, Goto, backend
  <2>3. \A u \in Tasks \ {t} : pc[u] = "idle" /\ pc'[u] = "idle"
    BY <1>0, <1>1, <2>2
  <2>4. \A a1 \in Addrs : Agree(a1)
    BY <1>3, <2>2, <2>3 DEF Unsettled
  <2>5. \A a1 \in Addrs \ {a} : Agree(a1)'
    BY <1>0, <2>2, <2>4 DEF Agree, Visible, Committed
  <2>6. AloneHolds(t)'
    BY <1>0, <2>2, <2>5 DEF AloneHolds
  <2> QED  BY <1>0, <1>2, <2>2, <2>3, <2>6 DEF Unsettled
<1>7. CASE \E a \in Addrs, c \in Codes : SetCode(t, a, c)
  <2>1. PICK a \in Addrs, c \in Codes : SetCode(t, a, c)
    BY <1>7
  <2>2. /\ pc[t] = "idle"
        /\ pc' = [pc EXCEPT ![t] = IF accounts[a] = None THEN "get_load" ELSE "set_code"]
        /\ addr' = [addr EXCEPT ![t] = a] /\ UNCHANGED <<accounts, dirty, bAccounts>>
    BY <2>1 DEF SetCode, Goto, backend
  <2>3. \A u \in Tasks \ {t} : pc[u] = "idle" /\ pc'[u] = "idle"
    BY <1>0, <1>1, <2>2
  <2>4. \A a1 \in Addrs : Agree(a1)
    BY <1>3, <2>2, <2>3 DEF Unsettled
  <2>5. AloneHolds(t)'
    BY <1>0, <2>2 DEF AloneHolds
  <2> QED  BY <1>2, <2>2, <2>3, <2>4, <2>5 DEF Agree, Visible, Committed
<1>8. CASE CommitBegin(t) \/ CommitCollect(t) \/ (\E b \in Blocks : CommitBlock(t, b)) \/ CommitFail(t)
  <2>1. /\ pc[t] \in {"idle", "commit_collect", "commit_put", "commit_block"}
        /\ pc'[t] \in {"idle", "commit_collect", "commit_put", "commit_clear"}
        /\ pc[t] # "idle" \/ pc'[t] # "idle"
        /\ \A u \in Tasks \ {t} : pc'[u] = pc[u]
        /\ pc'[t] = "commit_clear" => pc[t] = "commit_block"
        /\ UNCHANGED <<accounts, dirty, bAccounts>>
    BY <1>0, <1>8 DEF CommitBegin, CommitCollect, CommitBlock, CommitFail, Return, Goto, caches, backend
  <2>2. \A u \in Tasks \ {t} : pc[u] = "idle" /\ pc'[u] = "idle"
    BY <1>1, <2>1
  <2>3. \A a \in Addrs : Agree(a)
    BY <1>3, <2>1, <2>2 DEF Unsettled
  <2>4. AloneHolds(t)'
    BY <2>1 DEF AloneHolds, IInv, CommitPersistsDirty
  <2> QED  BY <1>2, <2>1, <2>2, <2>3, <2>4 DEF Agree, Visible, Committed
<1>9. CASE Rollback(t)
  <2>1. /\ pc[t] = "idle" /\ pc' = [pc EXCEPT ![t] = "rollback_clear"] /\ accounts' = Empty(Addrs)
    BY <1>9 DEF Rollback, Goto
  <2>2. \A u \in Tasks \ {t} : pc[u] = "idle" /\ pc'[u] = "idle"
    BY <1>0, <1>1, <2>1
  <2>3. AloneHolds(t)'
    BY <1>0, <2>1 DEF AloneHolds, Empty
  <2> QED  BY <1>0, <1>2, <2>1, <2>2, <2>3 DEF Unsettled
<1>10. CASE GetLoad(t)
  <2>1. /\ pc[t] = "get_load" /\ accounts[addr[t]] = None
        /\ pc'[t] \in {"idle", "get_insert"} /\ \A u \in Tasks \ {t} : pc'[u] = pc[u]
        /\ pc'[t] = "get_insert" => val'[t] = bAccounts[addr[t]] /\ addr'[t] = addr[t]
        /\ UNCHANGED <<accounts, dirty, bAccounts>>
    BY <1>0, <1>10 DEF GetLoad, Return, Goto, caches, backend, AloneHolds
  <2>2. \A u \in Tasks \ {t} : pc[u] = "idle" /\ pc'[u] = "idle"
    BY <1>1, <2>1
  <2>3. \A a \in Addrs : Agree(a)
    BY <1>3, <2>1, <2>2 DEF Unsettled
  <2>4. AloneHolds(t)'
    BY <2>1 DEF AloneHolds
  <2> QED  BY <1>2, <2>1, <2>2, <2>3, <2>4 DEF Agree, Visible, Committed
<1>11. CASE GetInsert(t)
  <2>1. /\ pc[t] = "get_insert" /\ accounts' = [accounts EXCEPT ![addr[t]] = val[t]]
        /\ pc'[t] \in {"idle", "set_code"} /\ \A u \in Tasks \ {t} : pc'[u] = pc[u]
        /\ UNCHANGED <<dirty, bAccounts>>
        /\ accounts[addr[t]] = None /\ val[t] = bAccounts[addr[t]] /\ addr[t] \in Addrs
    BY <1>0, <1>11 DEF GetInsert, Return, Goto, backend, AloneHolds, IInv, ArgsOK
  <2>2. \A u \in Tasks \ {t} : pc[u] = "idle" /\ pc'[u] = "idle"
    BY <1>1, <2>1
  <2>3. \A a \in Addrs : Agree(a)
    BY <1>3, <2>1, <2>2 DEF Unsettled
  <2>4. \A a \in Addrs : Visible(a)' = Visible(a)
    BY <1>0, <2>1 DEF Visible
  <2>5. \A a \in Addrs : Agree(a)'
    BY <2>1, <2>3, <2>4 DEF Agree, Committed
  <2>6. AloneHolds(t)'
    BY <2>1 DEF AloneHolds
  <2> QED  BY <1>2, <2>2, <2>5, <2>6
<1>12. CASE SetDirty(t) \/ SetDirtyEvict(t)
  <2>1. /\ pc[t] = "set_dirty" /\ dirty' = [dirty EXCEPT ![addr[t]] = val[t]]
        /\ pc'[t] \in {"idle", "evict"} /\ \A u \in Tasks \ {t} : pc'[u] = pc[u]
        /\ UNCHANGED <<accounts, bAccounts>>
        /\ accounts[addr[t]] = val[t] /\ \A a \in Addrs \ {addr[t]} : Agree(a)
        /\ addr[t] \in Addrs /\ val[t] \in Account
    BY <1>0, <1>12 DEF SetDirty, SetDirtyEvict, Return, Goto, caches, backend, AloneHolds, IInv, ArgsOK
  <2>2. \A u \in Tasks \ {t} : pc[u] = "idle" /\ pc'[u] = "idle"
    BY <1>1, <2>1
  <2>3. \A a \in Addrs : Agree(a)'
    BY <1>0, <2>1 DEF Agree, Visible, Committed
  <2>4. AloneHolds(t)'
    BY <2>1 DEF AloneHolds
  <2> QED  BY <1>2, <2>2, <2>3, <2>4
<1>13. CASE SetCodeAccount(t)
  <2>1. PICK account : /\ accounts' = [accounts EXCEPT ![addr[t]] = account]
                       /\ val' = [val EXCEPT ![t] = account]
    BY <1>13 DEF SetCodeAccount
  <2>2. /\ pc[t] = "set_code" /\ pc' = [pc EXCEPT ![t] = "set_dirty"] /\ addr[t] \in Addrs
        /\ UNCHANGED <<dirty, bAccounts, addr>>
    BY <1>13 DEF SetCodeAccount, Goto, backend, IInv, ArgsOK
  <2>3. \A u \in Tasks \ {t} : pc[u] = "idle" /\ pc'[u] = "idle"
    BY <1>0, <1>1, <2>2
  <2>4. \A a \in Addrs : Agree(a)
    BY <1>3, <2>2, <2>3 DEF Unsettled
  <2>5. \A a \in Addrs \ {addr[t]} : Agree(a)'
    BY <1>0, <2>1, <2>2, <2>4 DEF Agree, Visible, Committed
  <2>6. AloneHolds(t)'
    BY <1>0, <2>1, <2>2, <2>5 DEF AloneHolds
  <2> QED  BY <1>0, <1>2, <2>2, <2>3, <2>6 DEF Unsettled
<1>14. CASE CommitPut(t)
  <2>1. /\ pc[t] = "commit_put" /\ pc'[t] = "commit_block" /\ \A u \in Tasks \ {t} : pc'[u] = pc[u]
        /\ bAccounts' = Override(bAccounts, dirty) /\ UNCHANGED <<accounts, dirty>>
    BY <1>0, <1>14 DEF CommitPut, Goto, caches, IInv, BatchOK, Guarded
  <2>2. \A u \in Tasks \ {t} : pc[u] = "idle" /\ pc'[u] = "idle"
    BY <1>1, <2>1
  <2>3. \A a \in Addrs : Agree(a)
    BY <1>3, <2>1, <2>2 DEF Unsettled
  <2>4. \A a \in Addrs : bAccounts'[a] = IF dirty[a] # None THEN dirty[a] ELSE bAccounts[a]
    BY <1>0, <2>1 DEF Override
  <2>5. \A a \in Addrs : Agree(a)'
    BY <2>1, <2>3, <2>4 DEF Agree, Visible, Committed
  <2>6. AloneHolds(t)'
    BY <2>1 DEF AloneHolds
  <2> QED  BY <1>2, <2>2, <2>5, <2>6
<1>15. CASE CommitClear(t)
  <2>1. /\ pc[t] = "commit_clear" /\ pc'[t] = "idle" /\ \A u \in Tasks \ {t} : pc'[u] = pc[u]
        /\ dirty' = Empty(Addrs) /\ UNCHANGED <<accounts, bAccounts>>
        /\ \A a \in Addrs : dirty[a] # None => bAccounts[a] = dirty[a]
    BY <1>0, <1>15 DEF CommitClear, Return, Goto, caches, backend, AloneHolds
  <2>2. \A u \in Tasks \ {t} : pc[u] = "idle" /\ pc'[u] = "idle"
    BY <1>1, <2>1
  <2>3. \A a \in Addrs : Agree(a)
    BY <1>3, <2>1, <2>2 DEF Unsettled
  <2>4. \A a \in Addrs : Agree(a)'
    BY <2>1, <2>3 DEF Agree, Visible, Committed, Empty
  <2>5. AloneHolds(t)'
    BY <2>1 DEF AloneHolds
  <2> QED  BY <1>2, <2>2, <2>4, <2>5
<1>16. CASE RollbackClear(t)
  <2>1. /\ pc[t] = "rollback_clear" /\ pc'[t] = "idle" /\ \A u \in Tasks \ {t} : pc'[u] = pc[u]
        /\ dirty' = Empty(Addrs) /\ UNCHANGED <<accounts, bAccounts>>
        /\ \A a \in Addrs : accounts[a] = None
    BY <1>0, <1>16 DEF RollbackClear, Return, Goto, caches, backend, AloneHolds
  <2>2. \A u \in Tasks \ {t} : pc[u] = "idle" /\ pc'[u] = "idle"
    BY <1>1, <2>1
  <2>3. \A a \in Addrs : Agree(a)'
    BY <2>1 DEF Agree, Visible, Committed, Empty
  <2>4. AloneHolds(t)'
    BY <2>1 DEF AloneHolds
  <2> QED  BY <1>2, <2>2, <2>3, <2>4
<1>17. CASE \/ \E s \in Slots, v \in Balances : SetStorage(t, s, v)
            \/ \E c \in Codes : GetCode(t, c)
            \/ CreateSnapshot(t)
  BY <1>4, <1>17 DEF SetStorage, GetCode, CreateSnapshot, caches, backend, locals
<1> QED
  BY <1>5, <1>6, <1>7, <1>8, <1>9, <1>10, <1>11, <1>12, <1>13, <1>14, <1>15, <1>16, <1>17
     DEF Start, Continue

LEMMA AloneInit == MCInit => IInv /\ AloneInv
<1> SUFFICES ASSUME MCInit PROVE AloneInv
  BY InitInv DEF MCInit
<1>1. /\ \A t \in Tasks : pc[t] = "idle"
      /\ \A a \in Addrs : accounts[a] = None /\ dirty[a] = None
  BY DEF MCInit, Init, Empty
<1>2. OneAtATime /\ \A t \in Tasks : AloneHolds(t)
  BY <1>1 DEF OneAtATime, AloneHolds
<1>3. \A a \in Addrs : Agree(a)
  BY <1>1 DEF Agree, Visible, Committed
<1> QED  BY <1>2, <1>3 DEF AloneInv

LEMMA HistoryStep == IInv /\ AloneInv /\ [MCNext]_hvars => IInv' /\ AloneInv'
<1> SUFFICES ASSUME IInv, AloneInv, [MCNext]_hvars PROVE IInv' /\ AloneInv'
  OBVIOUS
<1>1. CASE UNCHANGED hvars
  <2>1. UNCHANGED vars /\ UNCHANGED <<overlapped, restored>>
    BY <1>1 DEF hvars
  <2>2. IInv'
    BY <2>1, Stutters
  <2>3. AloneInv'
    BY <2>1 DEF vars, caches, backend, locals, AloneInv, OneAtATime, AloneHolds, Agree, Visible, Committed
  <2> QED  BY <2>2, <2>3
<1>2. ASSUME NEW t \in Tasks, Start(t) \/ Continue(t), MCNext PROVE IInv' /\ AloneInv'
  <2>1. IInv'
    BY <1>2, StartInv, ContinueInv
  <2>2. ASSUME ~overlapped', ~restored'
        PROVE  /\ OneAtATime'
               /\ \A u \in Tasks : AloneHolds(u)'
               /\ (\A u \in Tasks : pc'[u] \notin Unsettled) => \A a \in Addrs : Agree(a)'
    <3>1. ~overlapped /\ ~restored /\ ~RestoreSnapshot(t)
      BY <1>2, <2>2 DEF MCNext
    <3>2. OneAtATime'
      BY <1>2, <2>2 DEF MCNext, OneAtATime
    <3>3. /\ OneAtATime /\ \A u \in Tasks : AloneHolds(u)
          /\ (\A u \in Tasks : pc[u] \notin Unsettled) => \A a \in Addrs : Agree(a)
      BY <3>1 DEF AloneInv
    <3> QED  BY <1>2, <2>1, <3>1, <3>2, <3>3, AloneStep
  <2> QED  BY <2>1, <2>2 DEF AloneInv
<1> QED  BY <1>1, <1>2 DEF MCNext, Next

LEMMA AloneReads == AloneInv => AloneReadsWhatCommits
BY DEF AloneInv, AloneReadsWhatCommits, ReadsWhatCommits, Unsettled, Agree

CodeKept == ~restored' => code \cup bCode \subseteq (code \cup bCode)'

LEMMA CodesGrow == [MCNext]_hvars => [CodeKept]_<<vars, restored>>
<1> SUFFICES ASSUME MCNext, ~restored' PROVE code \cup bCode \subseteq (code \cup bCode)'
  BY DEF hvars, CodeKept
<1>1. PICK t \in Tasks : Start(t) \/ Continue(t)
  BY DEF MCNext, Next
<1>2. ~RestoreSnapshot(t)
  BY DEF MCNext
<1>3. CASE Start(t)
  <2>1. code \subseteq code' /\ bCode' = bCode
    BY <1>2, <1>3 DEF Start, GetMiss, SetAccount, SetStorage, SetCode, GetCode, CommitBegin,
          Rollback, CreateSnapshot, caches, backend
  <2> QED  BY <2>1
<1>4. CASE Continue(t)
  <2>1. code' = code /\ bCode \subseteq bCode'
    BY <1>4 DEF Continue, GetLoad, GetInsert, SetDirty, SetDirtyEvict, SetCodeAccount,
          CommitCollect, CommitPut, CommitBlock, CommitFail, CommitClear, RollbackClear,
          caches, backend
  <2> QED  BY <2>1
<1> QED  BY <1>1, <1>3, <1>4

(* ReadsAlwaysTrue: as long as operations have followed one another,       *)
(* get_account answers what a commit will persist, through failing commits, *)
(* rollbacks and loads; and no interleaving of set_code, commit and         *)
(* rollback makes a code unavailable.                                       *)
THEOREM ReadsAlwaysTrue == MCSpec => ReadsStayTrue
<1>1. MCInit => IInv /\ AloneInv
  BY AloneInit
<1>2. IInv /\ AloneInv /\ [MCNext]_hvars => (IInv /\ AloneInv)'
  BY HistoryStep
<1>3. MCSpec => []AloneReadsWhatCommits
  <2>1. AloneInv => AloneReadsWhatCommits
    BY AloneReads
  <2> QED  BY <1>1, <1>2, <2>1, PTL DEF MCSpec, hvars
<1>4. MCSpec => [][CodeKept]_<<vars, restored>>
  BY CodesGrow, PTL DEF MCSpec, hvars
<1> QED  BY <1>3, <1>4 DEF ReadsStayTrue, CodeNeverLost, CodeKept
=============================================================================
