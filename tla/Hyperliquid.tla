----------------------------- MODULE Hyperliquid -----------------------------
(***************************************************************************)
(* The client of the exchange (hyperliquid/): one vault of                 *)
(* vault_integration.rs, and one account's orders in the cache of          *)
(* connector.rs with the calls of order_manager.rs.  They share no state.  *)
(*                                                                         *)
(* deposit and withdraw read the vault, work on that copy, and update the  *)
(* vault and the deposits later, each under two locks in the order it      *)
(* takes them.  The balance that the connector reports covers every amount *)
(* in Amounts.                                                             *)
(***************************************************************************)
EXTENDS Integers, Sequences, SequencesExt, FiniteSetsExt, Maps

CONSTANTS VaultUsers, VaultCalls,
          Amounts,      \* amounts of at least min_deposit, and shares
          LockPeriod,   \* lock_period
          VaultEnd,     \* bound: time
          MaxDeposited, \* bound: the deposits begun, in all
          OrderCalls,
          MaxOrders     \* bound: orders placed

ASSUME VaultAssumption ==
    /\ Amounts \subseteq Nat \ {0} /\ LockPeriod \in Nat
    /\ IsFiniteSet(VaultUsers) /\ IsFiniteSet(VaultCalls)

VARIABLES
    tvl, totalShares,   \* total_value_locked, total_shares
    userDeposits,       \* user_deposits: account -> sequence of [shares, unlock]
    vaultCall,          \* call -> what it does, for whom, how much and what it computed
    vaultNow,           \* the time
    deposited, paid,    \* history: what was deposited and withdrawn in all
    overtaken           \* history: a withdrawal worked on a copy that had changed, or
                        \* was not for what the account had when it was taken off

vaultVars == <<tvl, totalShares, userDeposits, vaultCall, vaultNow, deposited, paid, overtaken>>

NoVaultCall == [at |-> "idle"]

VaultInit ==
    /\ tvl = 0 /\ totalShares = 0
    /\ userDeposits = [a \in VaultUsers |-> <<>>]
    /\ vaultCall = [c \in VaultCalls |-> NoVaultCall]
    /\ vaultNow = 0 /\ deposited = 0 /\ paid = 0
    /\ overtaken = FALSE

DepositsFree == \A c \in VaultCalls : vaultCall[c].at # "total"
VaultsFree == \A c \in VaultCalls : vaultCall[c].at # "retire"

SharesForDeposit(amount) ==
    IF totalShares = 0 THEN amount ELSE (amount * totalShares) \div tvl

WithdrawalAmount(shares) ==
    IF totalShares = 0 THEN 0 ELSE (shares * tvl) \div totalShares

UserShares(a) ==
    LET ds == userDeposits[a]
    IN  SumFunctionOnSet([i \in DOMAIN ds |-> ds[i].shares], DOMAIN ds)

VaultTick ==
    /\ vaultNow < VaultEnd /\ vaultNow' = vaultNow + 1
    /\ UNCHANGED <<tvl, totalShares, userDeposits, vaultCall, deposited, paid, overtaken>>

-----------------------------------------------------------------------------
(* deposit *)

DepositReads(c, a, amount) ==
    /\ vaultCall[c].at = "idle" /\ VaultsFree
    /\ deposited + amount <= MaxDeposited
    /\ totalShares > 0 => tvl > 0      \* or the division panics
    /\ vaultCall' = [vaultCall EXCEPT ![c] =
          [at |-> "push", user |-> a, amount |-> amount, shares |-> SharesForDeposit(amount)]]
    /\ deposited' = deposited + amount
    /\ UNCHANGED <<tvl, totalShares, userDeposits, vaultNow, paid, overtaken>>

DepositPushes(c) ==
    /\ vaultCall[c].at = "push" /\ DepositsFree
    /\ userDeposits' = [userDeposits EXCEPT ![vaultCall[c].user] =
          Append(@, [shares |-> vaultCall[c].shares, unlock |-> vaultNow + LockPeriod])]
    /\ vaultCall' = [vaultCall EXCEPT ![c].at = "total"]
    /\ UNCHANGED <<tvl, totalShares, vaultNow, deposited, paid, overtaken>>

DepositTotals(c) ==
    /\ vaultCall[c].at = "total" /\ VaultsFree
    /\ tvl' = tvl + vaultCall[c].amount
    /\ totalShares' = totalShares + vaultCall[c].shares
    /\ vaultCall' = [vaultCall EXCEPT ![c] = NoVaultCall]
    /\ UNCHANGED <<userDeposits, vaultNow, deposited, paid, overtaken>>

-----------------------------------------------------------------------------
(* withdraw *)

WithdrawReads(c, a, shares) ==
    /\ vaultCall[c].at = "idle" /\ VaultsFree
    /\ vaultCall' = [vaultCall EXCEPT ![c] =
          [at |-> "check", user |-> a, shares |-> shares, amount |-> WithdrawalAmount(shares),
           copy |-> <<tvl, totalShares>>]]
    /\ UNCHANGED <<tvl, totalShares, userDeposits, vaultNow, deposited, paid, overtaken>>

(* get_user_shares; too many shares end the call. *)
WithdrawChecks(c) ==
    /\ vaultCall[c].at = "check" /\ DepositsFree
    /\ LET k == vaultCall[c]
       IN  IF k.shares > UserShares(k.user)
           THEN vaultCall' = [vaultCall EXCEPT ![c] = NoVaultCall]
           ELSE vaultCall' = [vaultCall EXCEPT ![c].at = "unlocked"]
    /\ UNCHANGED <<tvl, totalShares, userDeposits, vaultNow, deposited, paid, overtaken>>

(* One unlocked deposit is enough, whatever its size. *)
WithdrawUnlocked(c) ==
    /\ vaultCall[c].at = "unlocked" /\ DepositsFree
    /\ vaultCall' = IF \E k \in 1 .. Len(userDeposits[vaultCall[c].user]) :
                          userDeposits[vaultCall[c].user][k].unlock <= vaultNow
                    THEN [vaultCall EXCEPT ![c].at = "update"]
                    ELSE [vaultCall EXCEPT ![c] = NoVaultCall]
    /\ UNCHANGED <<tvl, totalShares, userDeposits, vaultNow, deposited, paid, overtaken>>

Less(a, b) == IF a > b THEN a - b ELSE 0

TotalsAfter_KeepShares(k) == <<Less(tvl, k.amount), totalShares>>

TotalsAfter(k) == <<Less(tvl, k.amount), Less(totalShares, k.shares)>>

WithdrawUpdates(c) ==
    /\ vaultCall[c].at = "update" /\ VaultsFree
    /\ tvl' = TotalsAfter(vaultCall[c])[1] /\ totalShares' = TotalsAfter(vaultCall[c])[2]
    /\ paid' = paid + vaultCall[c].amount
    /\ overtaken' = (overtaken \/ vaultCall[c].copy # <<tvl, totalShares>>)
    /\ vaultCall' = [vaultCall EXCEPT ![c].at = "retire"]
    /\ UNCHANGED <<userDeposits, vaultNow, deposited>>

(* Deposits of no more than the shares withdrawn go, larger ones stay whole. *)
WithdrawRetires(c) ==
    /\ vaultCall[c].at = "retire" /\ DepositsFree
    /\ LET k == vaultCall[c]
       IN  /\ userDeposits' = [userDeposits EXCEPT ![k.user] =
                 Retained(@, {i \in DOMAIN @ : @[i].shares > k.shares})]
           /\ overtaken' = (overtaken \/ UserShares(k.user) # k.shares)
    /\ vaultCall' = [vaultCall EXCEPT ![c] = NoVaultCall]
    /\ UNCHANGED <<tvl, totalShares, vaultNow, deposited, paid>>

-----------------------------------------------------------------------------
VaultNext ==
    \/ VaultTick
    \/ \E c \in VaultCalls :
          \/ \E a \in VaultUsers, n \in Amounts : DepositReads(c, a, n) \/ WithdrawReads(c, a, n)
          \/ DepositPushes(c) \/ DepositTotals(c)
          \/ WithdrawChecks(c) \/ WithdrawUnlocked(c) \/ WithdrawUpdates(c) \/ WithdrawRetires(c)

(* As long as each withdrawal is for all that the account then has and of   *)
(* the vault it read, the vault's value and its shares agree, and, whenever *)
(* no call is under way, so do the deposits recorded, and what was paid out *)
(* and what is left is what was deposited.  (A smaller withdrawal leaves    *)
(* the deposit whole, so it can be withdrawn again; an overtaken one takes  *)
(* shares from the vault without their value.)  No share is ever without    *)
(* value, so the next deposit can be priced.                                *)
VaultBacked ==
    /\ ~overtaken => tvl = totalShares
    /\ ~overtaken /\ (\A c \in VaultCalls : vaultCall[c] = NoVaultCall) =>
          /\ totalShares = SumFunctionOnSet([a \in VaultUsers |-> UserShares(a)], VaultUsers)
          /\ paid + tvl = deposited

-----------------------------------------------------------------------------
(* Orders.  An order is named by its place in time, as its id is; symbols   *)
(* are markets, or pairs of spot tokens, which are none.  The exchange may  *)
(* accept or refuse whatever it is asked, and an order may be refused for   *)
(* its leverage, its size or the margin.  pending_orders is left out:       *)
(* orders are pushed to it and dropped after a minute, and nothing reads it. *)

VARIABLES
    openOrders,   \* orders: order -> whether its symbol is a market
    orderCall,    \* call -> where it is
    origin,       \* history: order -> the order it replaces, 0 for none
    overlapped    \* history: orders that two calls asked to cancel at once

orderVars == <<openOrders, orderCall, origin, overlapped>>

NoOrderCall == [at |-> "idle"]

OrderInit ==
    /\ openOrders = <<>>
    /\ orderCall = [c \in OrderCalls |-> NoOrderCall]
    /\ origin = <<>> /\ overlapped = {}

(* cancel_order keeps its read guard while the exchange answers. *)
OrdersUnread == \A c \in OrderCalls : orderCall[c].at # "ask"

(* place_order and close_position on a market, place_spot_order on a pair:  *)
(* the checks and the submission.                                           *)
StartPlace(c, symbol) ==
    /\ orderCall[c].at = "idle"
    /\ orderCall' = [orderCall EXCEPT ![c] = [at |-> "place", symbol |-> symbol, replaces |-> 0]]
    /\ UNCHANGED <<openOrders, origin, overlapped>>

PlaceRefused(c) ==
    /\ orderCall[c].at = "place"
    /\ orderCall' = [orderCall EXCEPT ![c] = NoOrderCall]
    /\ UNCHANGED <<openOrders, origin, overlapped>>

(* update_order_cache *)
PlaceInserts(c) ==
    /\ orderCall[c].at = "place" /\ OrdersUnread /\ Len(origin) < MaxOrders
    /\ openOrders' = Put(openOrders, Len(origin) + 1, orderCall[c].symbol = "market")
    /\ origin' = Append(origin, orderCall[c].replaces)
    /\ orderCall' = [orderCall EXCEPT ![c] = NoOrderCall]
    /\ UNCHANGED overlapped

(* modify_order and cancel_all_orders work through a copy. *)
Cancelling(all, modify) == [at |-> "find", modify |-> modify, all |-> all, todo |-> all, kept |-> {}]

StartModify(c, o) ==
    /\ orderCall[c].at = "idle" /\ o \in DOMAIN openOrders
    /\ orderCall' = [orderCall EXCEPT ![c] = Cancelling({o}, TRUE)]
    /\ UNCHANGED <<openOrders, origin, overlapped>>

StartCancelAll(c) ==
    /\ orderCall[c].at = "idle" /\ openOrders # <<>>
    /\ orderCall' = [orderCall EXCEPT ![c] = Cancelling(DOMAIN openOrders, FALSE)]
    /\ UNCHANGED <<openOrders, origin, overlapped>>

(* cancel_order on the first order left. *)
At(c) == Min(orderCall[c].todo)

CanAsk_Unlisted(o) == o \in DOMAIN openOrders => openOrders[o]
CanAsk(o) == o \in DOMAIN openOrders /\ openOrders[o]

(* An error ends modify_order, and cancel_all_orders goes to the next. *)
NotCancelled(c) ==
    LET k == orderCall[c]
    IN  orderCall' = [orderCall EXCEPT ![c] =
            IF k.modify THEN NoOrderCall
            ELSE [k EXCEPT !.at = "find", !.todo = @ \ {At(c)}, !.kept = @ \cup {At(c)}]]

CancelAsks(c) ==
    /\ orderCall[c].at = "find" /\ orderCall[c].todo # {}
    /\ IF CanAsk(At(c))
       THEN /\ orderCall' = [orderCall EXCEPT ![c].at = "ask"]
            /\ overlapped' = IF \E d \in OrderCalls \ {c} : orderCall[d].at \in {"ask", "retain"} /\ At(d) = At(c)
                             THEN overlapped \cup {At(c)} ELSE overlapped
       ELSE NotCancelled(c) /\ UNCHANGED overlapped
    /\ UNCHANGED <<openOrders, origin>>

ExchangeAccepts(c) ==
    /\ orderCall[c].at = "ask"
    /\ orderCall' = [orderCall EXCEPT ![c].at = "retain"]
    /\ UNCHANGED <<openOrders, origin, overlapped>>

ExchangeRefuses(c) ==
    /\ orderCall[c].at = "ask" /\ NotCancelled(c)
    /\ UNCHANGED <<openOrders, origin, overlapped>>

CancelRetains(c) ==
    /\ orderCall[c].at = "retain" /\ OrdersUnread
    /\ openOrders' = Drop(openOrders, At(c))
    /\ LET k == orderCall[c]
       IN  orderCall' = [orderCall EXCEPT ![c] =
              IF k.modify THEN [at |-> "place", symbol |-> "market", replaces |-> At(c)]
              ELSE [k EXCEPT !.at = "find", !.todo = @ \ {At(c)}]]
    /\ UNCHANGED <<origin, overlapped>>

CancelAllEnds(c) ==
    /\ orderCall[c].at = "find" /\ orderCall[c].todo = {}
    /\ orderCall' = [orderCall EXCEPT ![c] = NoOrderCall]
    /\ UNCHANGED <<openOrders, origin, overlapped>>

OrderNext ==
    \E c \in OrderCalls :
       \/ \E symbol \in {"market", "pair"} : StartPlace(c, symbol)
       \/ \E o \in DOMAIN openOrders : StartModify(c, o)
       \/ PlaceRefused(c) \/ PlaceInserts(c) \/ StartCancelAll(c) \/ CancelAsks(c)
       \/ ExchangeAccepts(c) \/ ExchangeRefuses(c) \/ CancelRetains(c) \/ CancelAllEnds(c)

(* OrdersReplacedOnce: however modify_order and cancel_all_orders overlap,  *)
(* an order that was replaced is no longer open, and it is replaced twice   *)
(* only if two calls were asking the exchange to cancel it at once (each    *)
(* finds it under the shared read guard).  cancel_all_orders leaves of the  *)
(* orders it copied only those that the exchange refused to cancel or whose *)
(* symbol is no market.                                                     *)
OrdersReplacedOnce ==
    /\ \A n \in DOMAIN origin : origin[n] \notin DOMAIN openOrders
    /\ \A m, n \in DOMAIN origin :
          m # n /\ origin[m] = origin[n] /\ origin[m] # 0 => origin[m] \in overlapped
    /\ \A c \in OrderCalls : orderCall[c].at \in {"find", "ask", "retain"} =>
          DOMAIN openOrders \cap orderCall[c].all \subseteq orderCall[c].todo \cup orderCall[c].kept
=============================================================================
