------------------------------ MODULE FlashLoan ------------------------------
(***************************************************************************)
(* The flash loan provider of defi/flash_loan.rs.  A call is one async     *)
(* task and every .await on a lock is a place where it can be suspended,   *)
(* so a call is one action per stretch of code between two lock waits.     *)
(* execute_loan keeps the pools while it waits for the active loans;       *)
(* complete_repayment keeps the active loans while it waits for the pools. *)
(*                                                                         *)
(* A loan's id is the call that takes it (the code draws ids at random).   *)
(* The simulated callback always repays the amount, the fee and 2%.        *)
(***************************************************************************)
EXTENDS Integers, Sequences, FiniteSets, Functions

CONSTANTS LoanCalls,     \* the calls made on the provider, one task each
          LoanAmounts,   \* the amounts the callers use
          FeeBps,        \* fee_bps
          LoanOps,       \* the operations the callers use
          Nobody         \* the writer of a lock nobody holds for writing

ASSUME LoanAssumption ==
    /\ LoanAmounts \subseteq Nat
    /\ FeeBps \in Nat
    /\ Nobody \notin LoanCalls
    /\ IsFiniteSet(LoanCalls)

LoanLocks == {"pools", "active", "history"}

VARIABLES
    pool,       \* the token's LiquidityPool; exists is its key in the map
    loans,      \* active_loans: an entry is never removed
    records,    \* loan_history
    lockW,      \* [LoanLocks -> the call that holds it for writing]
    lockR,      \* [LoanLocks -> the calls that hold it for reading]
    step,       \* where each call is
    asked,      \* the amount a call was made for
    left,       \* how far a call had come when its caller gave up
    paidIn,     \* history: what the liquidity providers deposited
    paidOut     \* history: what the pool took off for withdrawals

loanVars == <<pool, loans, records, lockW, lockR, step, asked, left, paidIn, paidOut>>

LoanInit ==
    /\ pool = [exists |-> FALSE, available |-> 0, total |-> 0]
    /\ loans = [c \in {} |-> "Active"]
    /\ records = <<>>
    /\ lockW = [l \in LoanLocks |-> Nobody]
    /\ lockR = [l \in LoanLocks |-> {}]
    /\ step = [c \in LoanCalls |-> "idle"]
    /\ asked = [c \in LoanCalls |-> 0]
    /\ left = [c \in LoanCalls |-> "none"]
    /\ paidIn = 0
    /\ paidOut = [total |-> 0, lost |-> 0]

-----------------------------------------------------------------------------
FreeForWrite(l) == lockW[l] = Nobody /\ lockR[l] = {}
FreeForRead(l) == lockW[l] = Nobody

Step(c, label) == step' = [step EXCEPT ![c] = label]

Fee(amount) == (amount * FeeBps) \div 10000
Profit(amount) == (amount * 200) \div 10000
Repaid(amount) == amount + Fee(amount) + Profit(amount)

-----------------------------------------------------------------------------
(* add_liquidity and remove_liquidity need the pools only: one step each. *)

AddLiquidity(c, amount) ==
    /\ step[c] = "idle" /\ "add" \in LoanOps
    /\ FreeForWrite("pools")
    /\ pool' = [exists |-> TRUE, available |-> pool.available + amount,
                total |-> pool.total + amount]
    /\ paidIn' = paidIn + amount
    /\ asked' = [asked EXCEPT ![c] = amount]
    /\ Step(c, "done")
    /\ UNCHANGED <<loans, records, lockW, lockR, paidOut, left>>

CanWithdraw(amount) == pool.exists /\ pool.available >= amount

(* The available balance is checked, the total is not: its subtraction     *)
(* panics after the available balance has been written.                    *)
RemoveLiquidity(c, amount) ==
    /\ step[c] = "idle" /\ "remove" \in LoanOps
    /\ FreeForWrite("pools")
    /\ asked' = [asked EXCEPT ![c] = amount]
    /\ \/ /\ ~CanWithdraw(amount)
          /\ Step(c, "failed")
          /\ UNCHANGED <<pool, paidOut>>
       \/ /\ CanWithdraw(amount) /\ amount <= pool.total
          /\ pool' = [pool EXCEPT !.available = @ - amount, !.total = @ - amount]
          /\ paidOut' = [paidOut EXCEPT !.total = @ + amount]
          /\ Step(c, "done")
       \/ /\ CanWithdraw(amount) /\ amount > pool.total
          /\ pool' = [pool EXCEPT !.available = @ - amount]
          /\ paidOut' = [paidOut EXCEPT !.lost = @ + amount]
          /\ Step(c, "panicked")
    /\ UNCHANGED <<loans, records, lockW, lockR, paidIn, left>>

-----------------------------------------------------------------------------
(* execute_loan: the pools are debited, and kept until the loan is stored. *)

LoanDebit(c, amount) ==
    /\ step[c] = "idle" /\ "loan" \in LoanOps
    /\ FreeForWrite("pools")
    /\ asked' = [asked EXCEPT ![c] = amount]
    /\ IF CanWithdraw(amount)
       THEN /\ pool' = [pool EXCEPT !.available = @ - amount]
            /\ lockW' = [lockW EXCEPT !["pools"] = c]
            /\ Step(c, "store")
       ELSE /\ Step(c, "failed")
            /\ UNCHANGED <<pool, lockW>>
    /\ UNCHANGED <<loans, records, lockR, paidIn, paidOut, left>>

LoanStore(c) ==
    /\ step[c] = "store"
    /\ FreeForWrite("active")
    /\ loans' = [d \in DOMAIN loans \cup {c} |->
                   IF d = c THEN "Active" ELSE loans[d]]
    /\ lockW' = [lockW EXCEPT !["pools"] = Nobody]
    /\ Step(c, "repay")
    /\ UNCHANGED <<pool, records, lockR, asked, paidIn, paidOut, left>>

(* complete_repayment: the loan is looked up, and its lock kept for reading *)
(* until the pool is credited.                                              *)
LoanRepay(c) ==
    /\ step[c] = "repay"
    /\ FreeForRead("active")
    /\ lockR' = [lockR EXCEPT !["active"] = @ \cup {c}]
    /\ Step(c, "credit")
    /\ UNCHANGED <<pool, loans, records, lockW, asked, paidIn, paidOut, left>>

LoanCredit_NoFee(c) ==
    /\ step[c] = "credit"
    /\ FreeForWrite("pools")
    /\ pool' = [pool EXCEPT !.available = @ + Repaid(asked[c])]
    /\ lockR' = [lockR EXCEPT !["active"] = @ \ {c}]
    /\ Step(c, "settle")
    /\ UNCHANGED <<loans, records, lockW, asked, paidIn, paidOut, left>>

LoanCredit(c) ==
    /\ step[c] = "credit"
    /\ FreeForWrite("pools")
    /\ pool' = [pool EXCEPT !.available = @ + Repaid(asked[c]),
                            !.total = @ + Fee(asked[c])]
    /\ lockR' = [lockR EXCEPT !["active"] = @ \ {c}]
    /\ Step(c, "settle")
    /\ UNCHANGED <<loans, records, lockW, asked, paidIn, paidOut, left>>

(* The status is written, and the active loans kept until the record is. *)
LoanSettle(c) ==
    /\ step[c] = "settle"
    /\ FreeForWrite("active")
    /\ loans' = [loans EXCEPT ![c] = "Repaid"]
    /\ lockW' = [lockW EXCEPT !["active"] = c]
    /\ Step(c, "record")
    /\ UNCHANGED <<pool, records, lockR, asked, paidIn, paidOut, left>>

LoanRecord_KeepLock(c) ==
    /\ step[c] = "record"
    /\ FreeForWrite("history")
    /\ records' = Append(records, c)
    /\ Step(c, "done")
    /\ UNCHANGED <<pool, loans, lockW, lockR, asked, paidIn, paidOut, left>>

LoanRecord(c) ==
    /\ step[c] = "record"
    /\ FreeForWrite("history")
    /\ records' = Append(records, c)
    /\ lockW' = [lockW EXCEPT !["active"] = Nobody]
    /\ Step(c, "done")
    /\ UNCHANGED <<pool, loans, lockR, asked, paidIn, paidOut, left>>

-----------------------------------------------------------------------------
(* get_loan_stats reads the history and, still holding it, the loans. *)

StatsHistory(c) ==
    /\ step[c] = "idle" /\ "stats" \in LoanOps
    /\ FreeForRead("history")
    /\ lockR' = [lockR EXCEPT !["history"] = @ \cup {c}]
    /\ Step(c, "stats")
    /\ UNCHANGED <<pool, loans, records, lockW, asked, paidIn, paidOut, left>>

StatsActive(c) ==
    /\ step[c] = "stats"
    /\ FreeForRead("active")
    /\ lockR' = [lockR EXCEPT !["history"] = @ \ {c}]
    /\ Step(c, "done")
    /\ UNCHANGED <<pool, loans, records, lockW, asked, paidIn, paidOut, left>>

-----------------------------------------------------------------------------
(* A caller drops the future of a call that waits (a timeout around it):    *)
(* every guard it holds is released, what it has written stays, and the     *)
(* rest of the call never happens.                                          *)
LoanGiveUp(c) ==
    /\ step[c] \in {"store", "repay", "credit", "settle", "record", "stats"}
    /\ lockW' = [l \in LoanLocks |-> IF lockW[l] = c THEN Nobody ELSE lockW[l]]
    /\ lockR' = [l \in LoanLocks |-> lockR[l] \ {c}]
    /\ left' = [left EXCEPT ![c] = step[c]]
    /\ Step(c, "dropped")
    /\ UNCHANGED <<pool, loans, records, asked, paidIn, paidOut>>

LoanCallStart(c) ==
    \/ \E a \in LoanAmounts :
          AddLiquidity(c, a) \/ RemoveLiquidity(c, a) \/ LoanDebit(c, a)
    \/ StatsHistory(c)

LoanCallStep(c) ==
    \/ LoanStore(c) \/ LoanRepay(c) \/ LoanCredit(c)
    \/ LoanSettle(c) \/ LoanRecord(c)
    \/ StatsActive(c)

LoanNext == \E c \in LoanCalls : LoanCallStart(c) \/ LoanCallStep(c) \/ LoanGiveUp(c)

LoanSpec == LoanInit /\ [][LoanNext]_loanVars

-----------------------------------------------------------------------------
Steps == {"idle", "store", "repay", "credit", "settle", "record", "stats",
          "done", "failed", "panicked", "dropped"}

LoanData ==
    /\ pool \in [exists : BOOLEAN, available : Nat, total : Nat]
    /\ DOMAIN loans \subseteq LoanCalls
    /\ \A c \in DOMAIN loans : loans[c] \in {"Active", "Repaid"}
    /\ records \in Seq(LoanCalls)
    /\ step \in [LoanCalls -> Steps]
    /\ asked \in [LoanCalls -> LoanAmounts \cup {0}]
    /\ left \in [LoanCalls -> Steps \cup {"none"}]

LoanGuards ==
    /\ lockW \in [LoanLocks -> LoanCalls \cup {Nobody}]
    /\ lockR \in [LoanLocks -> SUBSET LoanCalls]
    /\ lockR["pools"] = {} /\ lockW["history"] = Nobody
    /\ \A c \in LoanCalls :
         /\ lockW["pools"] = c <=> step[c] = "store"
         /\ lockW["active"] = c <=> step[c] = "record"
         /\ c \in lockR["active"] <=> step[c] = "credit"
         /\ c \in lockR["history"] <=> step[c] = "stats"

(* The provider's state is well formed, no balance goes below zero, and the *)
(* locks are held by the calls whose stretch of execute_loan,               *)
(* complete_repayment or get_loan_stats holds them, and by no other         *)
(* (flash_loan.rs:71, 98, 126, 174, 240).                                   *)
LoanTypeOK == LoanData /\ LoanGuards

(* The loans whose money is out of the pool, and those it came back for. *)
Reached(c) == IF step[c] = "dropped" THEN left[c] ELSE step[c]
Out == {c \in LoanCalls : Reached(c) \in {"store", "repay", "credit"}}
Back == {c \in DOMAIN loans : Reached(c) \in {"settle", "record", "done"}}

Lent == SumFunctionOnSet(asked, Out)
Earned == SumFunctionOnSet([c \in Back |-> Fee(asked[c]) + Profit(asked[c])], Back)
Charged == SumFunctionOnSet([c \in Back |-> Fee(asked[c])], Back)

(* Across every interleaving the pool's two balances are what the deposits, *)
(* the withdrawals and the loans make them: the available balance is short  *)
(* by exactly the loans that are out, the ones cut short for good included, *)
(* and keeps the borrowers' profit; the total grows by the fees only        *)
(* (flash_loan.rs:95, 185, 186, 226).                                       *)
PoolAccounts ==
    /\ pool.available + Lent + paidOut.total + paidOut.lost = paidIn + Earned
    /\ pool.total + paidOut.total = paidIn + Charged

(* The statistics never run ahead of the pool: a loan in the history has    *)
(* been credited and marked repaid, exactly once, and a call that returned  *)
(* Ok is in the history (flash_loan.rs:116, 128, 137).                      *)
RecordsAreRepaid ==
    /\ \A i, j \in DOMAIN records : records[i] = records[j] => i = j
    /\ \A i \in DOMAIN records : /\ records[i] \in Back
                                 /\ loans[records[i]] = "Repaid"
    /\ \A c \in DOMAIN loans :
         step[c] = "done" => \E i \in DOMAIN records : records[i] = c

Unfinished == {c \in LoanCalls : step[c] \notin {"idle", "done", "failed", "panicked", "dropped"}}

(* A call that waits for a lock can take it. *)
CanStep(c) ==
    \/ step[c] = "store"  /\ FreeForWrite("active")
    \/ step[c] = "repay"  /\ FreeForRead("active")
    \/ step[c] = "credit" /\ FreeForWrite("pools")
    \/ step[c] = "settle" /\ FreeForWrite("active")
    \/ step[c] = "record" /\ FreeForWrite("history")
    \/ step[c] = "stats"  /\ FreeForRead("active")

(* The provider comes to a standstill in two ways only, the two pairs of    *)
(* locks that are taken in both orders: a new loan against a repayment      *)
(* (flash_loan.rs:98 and 183), and a finished loan against the statistics   *)
(* (flash_loan.rs:136 and 241).  No other mix of calls blocks itself.       *)
StandstillsAreInversions ==
    (Unfinished # {} /\ \A c \in Unfinished : ~CanStep(c)) =>
        \E c, d \in Unfinished :
            \/ step[c] = "store"  /\ step[d] = "credit"
            \/ step[c] = "record" /\ step[d] = "stats"


(* LoansSound: locks and balances stay consistent, and calls stand still   *)
(* for good only where one takes two locks against the order of another.   *)
LoansSound == LoanTypeOK /\ StandstillsAreInversions
=============================================================================
