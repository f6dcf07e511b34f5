------------------------------ MODULE Snapshots ------------------------------
(***************************************************************************)
(* The snapshot manager of storage/snapshot.rs: full snapshots and deltas  *)
(* of a chain's states, and a replica that a caller rebuilds from them.    *)
(* The state of each height is the caller's and is kept in worlds.  An     *)
(* account is the hash of its code, or one of two code-less accounts; a    *)
(* contract's code is named by its hash; a root is the height it is of.    *)
(* Nothing ever fills the sync manager's peers, so every download fails    *)
(* with NoPeersAvailable.                                                  *)
(***************************************************************************)
EXTENDS Integers, FiniteSets, FiniteSetsExt, Maps

CONSTANTS StateAddrs,     \* account addresses
          Slots,          \* storage keys of the contracts
          Codes,          \* code hashes
          PlainAccounts,  \* accounts without code that differ from each other
          MaxSnapshots,   \* max_snapshots
          LastHeight      \* bound: the heights a behaviour goes through

ASSUME SnapshotAssumption ==
    /\ MaxSnapshots \in Nat \ {0} /\ LastHeight \in Nat
    /\ Codes \cap PlainAccounts = {}    \* an account has code or not

VARIABLES
    worlds,         \* the caller's StateData at each height so far
    snapshots,      \* height -> the Snapshot kept for it
    deltas,         \* to_height -> the StateDelta kept for it
    currentHeight,  \* current_height
    sync,           \* the two sync counters of the metrics
    replica,        \* the StateData that is being rebuilt
    chained         \* history: the height whose state the replica should be, or -1

snapVars == <<worlds, snapshots, deltas, currentHeight, sync, replica, chained>>

(* StateData: partial maps for accounts and storage, the deployed code, the root. *)
EmptyWorld == [accounts |-> <<>>, storage |-> <<>>, code |-> {}, root |-> 0]

SnapInit ==
    /\ worlds = [h \in {0} |-> EmptyWorld]
    /\ snapshots = <<>> /\ deltas = <<>>
    /\ currentHeight = 0
    /\ sync = [started |-> 0, completed |-> 0]
    /\ replica = EmptyWorld /\ chained = -1

-----------------------------------------------------------------------------
(* The caller's chain: one more block changes one account or one slot. *)

Height == Max(DOMAIN worlds)

Raised(w) == [w EXCEPT !.root = @ + 1]

(* The account is not a contract, and may be set. *)
IsPlain(w, a) == a \notin DOMAIN w.accounts \/ w.accounts[a] \in PlainAccounts

NextWorlds(w) ==
    {[Raised(w) EXCEPT !.accounts = Put(@, a, b)] : a \in {x \in StateAddrs : IsPlain(w, x)}, b \in PlainAccounts}
    \cup {[Raised(w) EXCEPT !.accounts = Drop(@, a)] : a \in {x \in DOMAIN w.accounts : IsPlain(w, x)}}
    \cup {[accounts |-> Put(w.accounts, a, c), storage |-> w.storage, code |-> w.code \cup {c},
            root |-> w.root + 1] : a \in {x \in StateAddrs : IsPlain(w, x)}, c \in Codes}
    \cup {[Raised(w) EXCEPT !.storage = Put(@, s, v)] : s \in Slots, v \in 1..2}
    \cup {[Raised(w) EXCEPT !.storage = Drop(@, s)] : s \in DOMAIN w.storage}

NewBlock ==
    /\ Height < LastHeight
    /\ \E w \in NextWorlds(worlds[Height]) : worlds' = Put(worlds, Height + 1, w)
    /\ UNCHANGED <<snapshots, deltas, currentHeight, sync, replica, chained>>

-----------------------------------------------------------------------------
(* What the manager keeps. *)

(* When there are too many the lowest height goes, be it the new one. *)
KeptOf(s) == IF Cardinality(DOMAIN s) > MaxSnapshots THEN Drop(s, Min(DOMAIN s)) ELSE s

CreateSnapshot(h) ==
    /\ snapshots' = KeptOf(Put(snapshots, h, worlds[h]))
    /\ currentHeight' = h
    /\ UNCHANGED <<worlds, deltas, sync, replica, chained>>

(* The changes a delta lists: accounts set or deleted, slots set (a slot    *)
(* that is gone is not listed), code that is new and that an account uses.  *)
Changed(old, new) == {k \in DOMAIN new : k \notin DOMAIN old \/ old[k] # new[k]}

DeltaOf_NoDeletes(from, to, old, new) ==
    [from |-> from, to |-> to,
     set |-> Restrict(new.accounts, Changed(old.accounts, new.accounts)),
     deleted |-> {},
     stored |-> Restrict(new.storage, Changed(old.storage, new.storage)),
     deployed |-> {c \in new.code \ old.code : c \in Range(new.accounts)}]

DeltaOf(from, to, old, new) ==
    [from |-> from, to |-> to,
     set |-> Restrict(new.accounts, Changed(old.accounts, new.accounts)),
     deleted |-> DOMAIN old.accounts \ DOMAIN new.accounts,
     stored |-> Restrict(new.storage, Changed(old.storage, new.storage)),
     deployed |-> {c \in new.code \ old.code : c \in Range(new.accounts)}]

CreateDelta(from, to) ==
    /\ deltas' = Put(deltas, to, DeltaOf(from, to, worlds[from], worlds[to]))
    /\ UNCHANGED <<worlds, snapshots, currentHeight, sync, replica, chained>>

Cleanup(keep) ==
    /\ snapshots' = Restrict(snapshots, {h \in DOMAIN snapshots : h >= keep})
    /\ deltas' = Restrict(deltas, {h \in DOMAIN deltas : h >= keep})
    /\ UNCHANGED <<worlds, currentHeight, sync, replica, chained>>

-----------------------------------------------------------------------------
(* Rebuilding a state. *)

ApplySnapshot(h) ==
    /\ replica' = snapshots[h]
    /\ currentHeight' = h
    /\ chained' = h
    /\ UNCHANGED <<worlds, snapshots, deltas, sync>>

(* The root stays as it was, and nothing compares from_height. *)
AppliedTo(d, w) ==
    [accounts |-> Merged(Restrict(w.accounts, DOMAIN w.accounts \ d.deleted), d.set),
     storage |-> Merged(w.storage, d.stored),
     code |-> w.code \cup d.deployed,
     root |-> w.root]

ApplyDelta(h) ==
    /\ replica' = AppliedTo(deltas[h], replica)
    /\ currentHeight' = deltas[h].to
    /\ chained' = IF chained = deltas[h].from THEN deltas[h].to ELSE -1
    /\ UNCHANGED <<worlds, snapshots, deltas, sync>>

-----------------------------------------------------------------------------
(* Syncing: the best snapshot the manager itself has above its height and  *)
(* up to the target decides the strategy.  With no peer to download from,  *)
(* the snapshot strategy fails; the incremental one drops every failed     *)
(* download and reports that it completed.  A target already reached        *)
(* changes nothing.                                                        *)

Better(target) == {h \in DOMAIN snapshots : h <= target /\ h > currentHeight}

SyncToHeight(target) ==
    /\ currentHeight < target
    /\ sync.started < 2      \* bound
    /\ sync' = IF Better(target) # {}
               THEN [sync EXCEPT !.started = @ + 1]
               ELSE [sync EXCEPT !.started = @ + 1, !.completed = @ + 1]
    /\ UNCHANGED <<worlds, snapshots, deltas, currentHeight, replica, chained>>

-----------------------------------------------------------------------------
SnapNext ==
    \/ NewBlock
    \/ \E h \in DOMAIN worlds :
          \/ CreateSnapshot(h)
          \/ \E to \in {x \in DOMAIN worlds : x > h} : CreateDelta(h, to)
          \/ Cleanup(h)
          \/ SyncToHeight(h)
    \/ \E h \in DOMAIN snapshots : ApplySnapshot(h)
    \/ \E h \in DOMAIN deltas : ApplyDelta(h)

SnapSpec == SnapInit /\ [][SnapNext]_snapVars

(* A replica rebuilt from a snapshot and deltas that start where it stands *)
(* is the state of its height: the accounts exactly, every live slot, and  *)
(* the code every account uses.  What it may have over are slots that were *)
(* deleted; its root is the one of the snapshot.                           *)
ReplicaIsFaithful ==
    chained >= 0 =>
        LET w == worlds[chained]
        IN  /\ replica.accounts = w.accounts
            /\ \A s \in DOMAIN w.storage : s \in DOMAIN replica.storage /\ replica.storage[s] = w.storage[s]
            /\ w.code \subseteq replica.code
            /\ replica.root <= chained
=============================================================================
