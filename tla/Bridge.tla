------------------------------- MODULE Bridge --------------------------------
(***************************************************************************)
(* The lock-and-mint bridge of cross_chain/bridge.rs with the transfers of *)
(* the CrossChainManager in cross_chain/mod.rs.  The id of a lock is the   *)
(* hash of owner, token, amount and the second it is made in, so that      *)
(* tuple is its id here; a second equal lock in that second replaces the   *)
(* first one.  Nothing sets a transfer to Verified, so complete_transfer   *)
(* always returns TransferNotVerified and is no action.  burn_tokens       *)
(* changes nothing.                                                        *)
(***************************************************************************)
EXTENDS Integers, Sequences, FiniteSets, Maps

CONSTANTS Owners, Tokens, LockAmounts, BridgeChains,
          MinTransfer, MaxTransfer,   \* min_transfer_amount, max_transfer_amount
          LastLockTime,               \* bound: when the clock stops
          MaxLocks                    \* bound: locks and mints of a behaviour

ASSUME BridgeAssumption == LockAmounts \subseteq Nat /\ MinTransfer \in Nat /\ MaxTransfer \in Nat

VARIABLES
    lockedAssets,  \* lock id -> TRUE while unlock_time is None
    liquidity,     \* token -> the pool's total and available amount
    mappings,      \* token_mappings: <<chain, token>> -> token
    mintedAssets,  \* the assets minted, in order
    transfers,     \* pending_transfers: the ids, in order; all of them Locked
    lockTime,      \* the clock
    shadowed       \* history: token -> amount of the locks that were replaced

bridgeVars == <<lockedAssets, liquidity, mappings, mintedAssets, transfers, lockTime, shadowed>>

BridgeInit ==
    /\ lockedAssets = <<>> /\ mappings = <<>> /\ mintedAssets = <<>> /\ transfers = <<>> /\ lockTime = 0
    /\ liquidity = [t \in Tokens |-> [total |-> 0, available |-> 0]]
    /\ shadowed = [t \in Tokens |-> 0]

LockId(o, t, n) == [owner |-> o, token |-> t, amount |-> n, at |-> lockTime]

WithinLimits(n) == MinTransfer <= n /\ n <= MaxTransfer

PoolLocked_OnlyTotal(t, n) ==
    [liquidity EXCEPT ![t].total = @ + n]

(* update_liquidity_pool *)
PoolLocked(t, n) ==
    [liquidity EXCEPT ![t] = [total |-> @.total + n, available |-> @.available + n]]
PoolUnlocked(t, n) ==
    [liquidity EXCEPT ![t] = [total |-> @.total, available |-> @.available - n]]

(* lock_tokens, and initiate_transfer, which also records the transfer. *)
LockTokens(o, t, n, transfer) ==
    /\ WithinLimits(n)
    /\ LET id == LockId(o, t, n)
           replaces == id \in DOMAIN lockedAssets /\ lockedAssets[id]
       IN  /\ lockedAssets' = Put(lockedAssets, id, TRUE)
           /\ shadowed' = [shadowed EXCEPT ![t] = IF replaces THEN @ + n ELSE @]
           /\ transfers' = IF transfer THEN Append(transfers, id) ELSE transfers
    /\ liquidity' = PoolLocked(t, n)
    /\ UNCHANGED <<mappings, mintedAssets, lockTime>>

(* The time is written before the pool is asked; the pool may refuse. *)
UnlockTokens(id) ==
    /\ lockedAssets[id]
    /\ lockedAssets' = [lockedAssets EXCEPT ![id] = FALSE]
    /\ liquidity' = IF liquidity[id.token].available < id.amount THEN liquidity
                    ELSE PoolUnlocked(id.token, id.amount)
    /\ UNCHANGED <<mappings, mintedAssets, transfers, lockTime, shadowed>>

(* get_wrapped_token: the mapping, or else a token derived from the pair. *)
WrappedToken(c, t) ==
    IF <<c, t>> \in DOMAIN mappings THEN mappings[<<c, t>>] ELSE <<"wrapped", c, t>>

MintTokens(c, t, n) ==
    /\ mintedAssets' = Append(mintedAssets, [token |-> WrappedToken(c, t), amount |-> n])
    /\ UNCHANGED <<lockedAssets, liquidity, mappings, transfers, lockTime, shadowed>>

(* add_token_mapping: both directions *)
AddTokenMapping(c, t, d, u) ==
    /\ mappings' = Put(Put(mappings, <<c, t>>, u), <<d, u>>, t)
    /\ UNCHANGED <<lockedAssets, liquidity, mintedAssets, transfers, lockTime, shadowed>>

LockTick ==
    /\ lockTime < LastLockTime
    /\ lockTime' = lockTime + 1
    /\ UNCHANGED <<lockedAssets, liquidity, mappings, mintedAssets, transfers, shadowed>>

BridgeNext ==
    \/ LockTick
    \/ \E t \in Tokens, n \in LockAmounts :
          \/ \E o \in Owners, transfer \in BOOLEAN :
                /\ liquidity[t].total < MaxLocks * MaxTransfer
                /\ Len(transfers) < MaxLocks
                /\ LockTokens(o, t, n, transfer)
          \/ \E c \in BridgeChains :
                \/ Len(mintedAssets) < 1 /\ MintTokens(c, t, n)
                \/ \E d \in BridgeChains \ {c}, u \in Tokens :
                      mappings = <<>> /\ AddTokenMapping(c, t, d, u)
    \/ \E id \in DOMAIN lockedAssets : UnlockTokens(id)

BridgeSpec == BridgeInit /\ [][BridgeNext]_bridgeVars

(* get_locked_amount *)
LockedAmount(t) ==
    LET held == {id \in DOMAIN lockedAssets : id.token = t /\ lockedAssets[id]}
    IN  SumFunctionOnSet([id \in held |-> id.amount], held)

(* The pool's available amount backs every open lock, also when equal locks *)
(* of one second shadow each other: what is over is exactly the amount of   *)
(* the shadowed locks, which nobody can unlock.  So an unlock that finds    *)
(* its lock always gets its tokens, once.                                   *)
LiquidityBacksLocks ==
    \A t \in Tokens : /\ liquidity[t].available = LockedAmount(t) + shadowed[t]
                      /\ liquidity[t].available <= liquidity[t].total
=============================================================================
