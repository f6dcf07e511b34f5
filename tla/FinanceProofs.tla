---------------------------- MODULE FinanceProofs ----------------------------
(***************************************************************************)
(* Proofs about the financial components, for every set of calls, amounts, *)
(* prices and fees.                                                        *)
(***************************************************************************)
EXTENDS MCFinance, TLAPS

-----------------------------------------------------------------------------
(* FlashLoan: LoanTypeOK is inductive, and who holds which lock is all that *)
(* the theorem on standstills needs.                                        *)

(* Fees and profits are natural numbers (flash_loan.rs:79, 165). *)
LEMMA FeesAreNat ==
    ASSUME NEW a \in LoanAmounts \cup {0}
    PROVE  Fee(a) \in Nat /\ Profit(a) \in Nat /\ Repaid(a) \in Nat /\ a \in Nat
<1>1. a \in Nat /\ FeeBps \in Nat
  BY LoanAssumption
<1>2. a * FeeBps \in Nat /\ a * 200 \in Nat
  BY <1>1, Z3
<1>3. (a * FeeBps) \div 10000 \in Nat /\ (a * 200) \div 10000 \in Nat
  BY <1>2, Z3
<1>4. QED
  BY <1>1, <1>3 DEF Fee, Profit, Repaid

(* Writing both balances of a pool keeps it a pool. *)
LEMMA PoolWritten ==
    ASSUME NEW p \in [exists : BOOLEAN, available : Nat, total : Nat],
           NEW x \in Nat, NEW y \in Nat
    PROVE  [p EXCEPT !.available = x, !.total = y]
               \in [exists : BOOLEAN, available : Nat, total : Nat]
OBVIOUS

(* The provider starts with no lock held (flash_loan.rs:54-61). *)
LEMMA LoanInitOK == LoanInit => LoanTypeOK
<1> SUFFICES ASSUME LoanInit PROVE LoanTypeOK
  OBVIOUS
<1>1. LoanData
  BY DEF LoanInit, LoanData, Steps
<1>2. LoanGuards
  BY LoanAssumption DEF LoanInit, LoanGuards, LoanLocks
<1>3. QED
  BY <1>1, <1>2 DEF LoanTypeOK

(* Each stretch of code takes and releases the locks of the labels it       *)
(* leaves and enters, and keeps the balances unsigned.                      *)
LEMMA LoanStepOK == LoanTypeOK /\ [LoanNext]_loanVars => LoanTypeOK'
<1> SUFFICES ASSUME LoanTypeOK, [LoanNext]_loanVars PROVE LoanTypeOK'
  OBVIOUS
<1> USE DEF LoanTypeOK
<1>1. ASSUME NEW c \in LoanCalls, NEW a \in LoanAmounts, AddLiquidity(c, a)
      PROVE  LoanTypeOK'
  <2>1. a \in Nat
    BY LoanAssumption
  <2>2. LoanData'
    BY <1>1, <2>1 DEF AddLiquidity, LoanData, Step, Steps
  <2>3. LoanGuards'
    BY <1>1 DEF AddLiquidity, LoanData, LoanGuards, Step, Steps
  <2>4. QED
    BY <2>2, <2>3
<1>2. ASSUME NEW c \in LoanCalls, NEW a \in LoanAmounts, RemoveLiquidity(c, a)
      PROVE  LoanTypeOK'
  <2>1. a \in Nat
    BY LoanAssumption
  <2>2. pool' \in [exists : BOOLEAN, available : Nat, total : Nat]
    <3>1. CASE ~CanWithdraw(a)
      BY <1>2, <3>1 DEF RemoveLiquidity, LoanData
    <3>2. CASE CanWithdraw(a) /\ a <= pool.total
      <4>1. pool.available - a \in Nat /\ pool.total - a \in Nat
        BY <2>1, <3>2 DEF CanWithdraw, LoanData
      <4>2. ~(a > pool.total)
        BY <2>1, <3>2 DEF LoanData
      <4>3. QED
        BY <1>2, <3>2, <4>1, <4>2, PoolWritten, ZenonT(30) DEF RemoveLiquidity, LoanData
    <3>3. CASE CanWithdraw(a) /\ a > pool.total
      <4>1. pool.available - a \in Nat
        BY <2>1, <3>3 DEF CanWithdraw, LoanData
      <4>2. ~(a <= pool.total)
        BY <2>1, <3>3 DEF LoanData
      <4>3. QED
        BY <1>2, <3>3, <4>1, <4>2 DEF RemoveLiquidity, LoanData
    <3>4. QED
      BY <2>1, <3>1, <3>2, <3>3 DEF LoanData
  <2>3. LoanData'
    BY <1>2, <2>2 DEF RemoveLiquidity, LoanData, Step, Steps
  <2>4. LoanGuards'
    BY <1>2 DEF RemoveLiquidity, LoanData, LoanGuards, Step, Steps
  <2>5. QED
    BY <2>3, <2>4
<1>3. ASSUME NEW c \in LoanCalls, NEW a \in LoanAmounts, LoanDebit(c, a)
      PROVE  LoanTypeOK'
  <2>1. a \in Nat
    BY LoanAssumption
  <2>2. pool' \in [exists : BOOLEAN, available : Nat, total : Nat]
    BY <1>3, <2>1 DEF LoanDebit, CanWithdraw, LoanData
  <2>3. LoanData'
    BY <1>3, <2>2 DEF LoanDebit, LoanData, Step, Steps
  <2>4. LoanGuards'
    BY <1>3, LoanAssumption
       DEF LoanDebit, LoanData, LoanGuards, Step, Steps, FreeForWrite, LoanLocks
  <2>5. QED
    BY <2>3, <2>4
<1>4. ASSUME NEW c \in LoanCalls, LoanStore(c)
      PROVE  LoanTypeOK'
  <2>1. LoanData'
    BY <1>4 DEF LoanStore, LoanData, Step, Steps
  <2>2. LoanGuards'
    BY <1>4, LoanAssumption
       DEF LoanStore, LoanData, LoanGuards, Step, Steps, FreeForWrite, LoanLocks
  <2>3. QED
    BY <2>1, <2>2
<1>5. ASSUME NEW c \in LoanCalls, LoanRepay(c)
      PROVE  LoanTypeOK'
  <2>1. LoanData'
    BY <1>5 DEF LoanRepay, LoanData, Step, Steps
  <2>2. LoanGuards'
    BY <1>5 DEF LoanRepay, LoanData, LoanGuards, Step, Steps, FreeForRead, LoanLocks
  <2>3. QED
    BY <2>1, <2>2
<1>6. ASSUME NEW c \in LoanCalls, LoanCredit(c)
      PROVE  LoanTypeOK'
  <2>1. Fee(asked[c]) \in Nat /\ Repaid(asked[c]) \in Nat
    BY FeesAreNat DEF LoanData
  <2>2. pool.available + Repaid(asked[c]) \in Nat /\ pool.total + Fee(asked[c]) \in Nat
    BY <2>1 DEF LoanData
  <2>3. pool' \in [exists : BOOLEAN, available : Nat, total : Nat]
    BY <1>6, <2>2, PoolWritten DEF LoanCredit, LoanData
  <2>4. LoanData'
    BY <1>6, <2>3 DEF LoanCredit, LoanData, Step, Steps
  <2>5. LoanGuards'
    BY <1>6 DEF LoanCredit, LoanData, LoanGuards, Step, Steps, FreeForWrite, LoanLocks
  <2>6. QED
    BY <2>4, <2>5
<1>7. ASSUME NEW c \in LoanCalls, LoanSettle(c)
      PROVE  LoanTypeOK'
  <2>1. LoanData'
    BY <1>7 DEF LoanSettle, LoanData, Step, Steps
  <2>2. LoanGuards'
    BY <1>7, LoanAssumption
       DEF LoanSettle, LoanData, LoanGuards, Step, Steps, FreeForWrite, LoanLocks
  <2>3. QED
    BY <2>1, <2>2
<1>8. ASSUME NEW c \in LoanCalls, LoanRecord(c)
      PROVE  LoanTypeOK'
  <2>1. LoanData'
    BY <1>8 DEF LoanRecord, LoanData, Step, Steps
  <2>2. LoanGuards'
    BY <1>8, LoanAssumption
       DEF LoanRecord, LoanData, LoanGuards, Step, Steps, FreeForWrite, LoanLocks
  <2>3. QED
    BY <2>1, <2>2
<1>9. ASSUME NEW c \in LoanCalls, StatsHistory(c)
      PROVE  LoanTypeOK'
  <2>1. LoanData'
    BY <1>9 DEF StatsHistory, LoanData, Step, Steps
  <2>2. LoanGuards'
    BY <1>9 DEF StatsHistory, LoanData, LoanGuards, Step, Steps, LoanLocks
  <2>3. QED
    BY <2>1, <2>2
<1>10. ASSUME NEW c \in LoanCalls, StatsActive(c)
       PROVE  LoanTypeOK'
  <2>1. LoanData'
    BY <1>10 DEF StatsActive, LoanData, Step, Steps
  <2>2. LoanGuards'
    BY <1>10 DEF StatsActive, LoanData, LoanGuards, Step, Steps, LoanLocks
  <2>3. QED
    BY <2>1, <2>2
<1>11. ASSUME NEW c \in LoanCalls, LoanGiveUp(c)
       PROVE  LoanTypeOK'
  <2>1. LoanData'
    BY <1>11 DEF LoanGiveUp, LoanData, Step, Steps
  <2>2. LoanGuards'
    BY <1>11, LoanAssumption
       DEF LoanGiveUp, LoanData, LoanGuards, Step, Steps, LoanLocks
  <2>3. QED
    BY <2>1, <2>2
<1>12. CASE UNCHANGED loanVars
  BY <1>12 DEF loanVars, LoanData, LoanGuards
<1>13. QED
  BY <1>1, <1>2, <1>3, <1>4, <1>5, <1>6, <1>7, <1>8, <1>9, <1>10, <1>11, <1>12
     DEF LoanNext, LoanCallStart, LoanCallStep

(* For every number of concurrent calls, locks are held exactly by the      *)
(* calls whose stretch of code holds them, and no balance of the pool goes  *)
(* below zero (flash_loan.rs:63-256).                                       *)
THEOREM LoansTyped == LoanSpec => []LoanTypeOK
<1>1. LoanInit => LoanTypeOK
  BY LoanInitOK
<1>2. LoanTypeOK /\ [LoanNext]_loanVars => LoanTypeOK'
  BY LoanStepOK
<1>3. QED
  BY <1>1, <1>2, PTL DEF LoanSpec

-----------------------------------------------------------------------------
(* Following who waits for whom from any blocked call leads to one of the   *)
(* two inversions in at most three steps.                                   *)
LEMMA BlockedCalls == LoanTypeOK => StandstillsAreInversions
<1> SUFFICES ASSUME LoanTypeOK,
                    NEW c \in Unfinished, \A d \in Unfinished : ~CanStep(d)
             PROVE  \E d, e \in Unfinished :
                        \/ step[d] = "store"  /\ step[e] = "credit"
                        \/ step[d] = "record" /\ step[e] = "stats"
  BY DEF StandstillsAreInversions
<1> DEFINE Inverted == \E d, e \in Unfinished :
                           \/ step[d] = "store"  /\ step[e] = "credit"
                           \/ step[d] = "record" /\ step[e] = "stats"
<1>1. ASSUME NEW d \in LoanCalls,
             step[d] \in {"store", "repay", "credit", "settle", "record", "stats"}
      PROVE  d \in Unfinished
  BY <1>1 DEF Unfinished
<1>2. ASSUME NEW d \in Unfinished, step[d] = "record" PROVE Inverted
  <2>1. ~FreeForWrite("history")
    BY <1>2 DEF CanStep
  <2>2. PICK e \in LoanCalls : e \in lockR["history"]
    BY <2>1 DEF FreeForWrite, LoanTypeOK, LoanGuards, LoanLocks
  <2>3. step[e] = "stats"
    BY <2>2 DEF LoanTypeOK, LoanGuards
  <2>4. QED
    BY <1>1, <1>2, <2>3
<1>3. ASSUME NEW d \in Unfinished, step[d] = "credit" PROVE Inverted
  <2>1. ~FreeForWrite("pools")
    BY <1>3 DEF CanStep
  <2>2. PICK e \in LoanCalls : lockW["pools"] = e
    BY <2>1 DEF FreeForWrite, LoanTypeOK, LoanGuards, LoanLocks
  <2>3. step[e] = "store"
    BY <2>2 DEF LoanTypeOK, LoanGuards
  <2>4. QED
    BY <1>1, <1>3, <2>3
<1>4. ASSUME ~FreeForWrite("active") PROVE Inverted
  <2>1. CASE \E e \in LoanCalls : lockW["active"] = e
    BY <1>1, <1>2, <2>1 DEF LoanTypeOK, LoanGuards
  <2>2. CASE \E e \in LoanCalls : e \in lockR["active"]
    BY <1>1, <1>3, <2>2 DEF LoanTypeOK, LoanGuards
  <2>3. QED
    BY <1>4, <2>1, <2>2 DEF FreeForWrite, LoanTypeOK, LoanGuards, LoanLocks
<1>5. ASSUME ~FreeForRead("active") PROVE Inverted
  BY <1>4, <1>5 DEF FreeForRead, FreeForWrite
<1>6. step[c] \in {"store", "repay", "credit", "settle", "record", "stats"}
  BY DEF Unfinished, LoanTypeOK, LoanData, Steps
<1>7. CASE step[c] \in {"store", "settle"}
  BY <1>4, <1>7 DEF CanStep
<1>8. CASE step[c] \in {"repay", "stats"}
  BY <1>5, <1>8 DEF CanStep
<1>9. QED
  BY <1>2, <1>3, <1>6, <1>7, <1>8

(* However many calls run at once, the provider comes to a standstill only  *)
(* through the two pairs of locks that flash_loan.rs takes in both orders:  *)
(* 98 against 183, and 136 against 241.                                     *)
THEOREM OnlyInversionsBlock == LoanSpec => []StandstillsAreInversions
<1>1. LoanTypeOK => StandstillsAreInversions
  BY BlockedCalls
<1>2. QED
  BY <1>1, LoansTyped, PTL

(* LoansAlwaysSound: for any number of concurrent calls of flash_loan.rs    *)
(* the locks and balances fit the calls in flight, and only the two known   *)
(* lock inversions can bring the provider to a standstill.                  *)
THEOREM LoansAlwaysSound == LoanSpec => []LoansSound
<1>1. LoanTypeOK => LoansSound
  BY BlockedCalls DEF LoansSound
<1>2. QED
  BY <1>1, LoansTyped, PTL

-----------------------------------------------------------------------------
(* AmmPool: what the arithmetic of swap and of the LP tokens guarantees at  *)
(* all reserves, amounts and fee rates.  The steps are about the divisions  *)
(* of the code: a swap never lowers the product of the reserves, from which *)
(* it follows that changing tokens there and back never pays.               *)

(* Integer division: the quotient, and what is left. *)
LEMMA Division ==
    ASSUME NEW a \in Nat, NEW b \in Nat, b > 0
    PROVE  /\ a \div b \in Nat
           /\ (a \div b) * b <= a
           /\ a < (a \div b) * b + b
BY Z3

(* Multiplication by a natural number keeps an order. *)
LEMMA Monotone ==
    ASSUME NEW x \in Int, NEW y \in Int, NEW n \in Nat, x <= y
    PROVE  x * n <= y * n
BY Z3

(* A common positive factor can be taken out of an inequality. *)
LEMMA Cancel ==
    ASSUME NEW x \in Int, NEW y \in Int, NEW n \in Nat, n > 0, x * n <= y * n
    PROVE  x <= y
BY Z3

(* The fee leaves at most the amount (amm.rs:179). *)
LEMMA NetAmount ==
    ASSUME NEW x \in Nat
    PROVE  /\ (x * (10000 - FeeRate)) \div 10000 \in Nat
           /\ (x * (10000 - FeeRate)) \div 10000 <= x
<1>1. 10000 - FeeRate \in Nat /\ 10000 - FeeRate <= 10000
  BY AmmAssumption
<1>2. x * (10000 - FeeRate) \in Nat /\ x * (10000 - FeeRate) <= x * 10000
  BY <1>1, Z3
<1> DEFINE q == (x * (10000 - FeeRate)) \div 10000
<1>3. q \in Nat /\ q * 10000 <= x * (10000 - FeeRate)
  BY <1>2, Division
<1>4. q * 10000 <= x * 10000
  BY <1>2, <1>3
<1>5. QED
  BY <1>3, <1>4

(* The payout of a swap (amm.rs:179-182): it is less than the reserve it is *)
(* paid from, and the product of the reserves does not fall.                *)
THEOREM SwapKeepsProduct ==
    ASSUME NEW x \in Nat, NEW rin \in Nat, NEW rout \in Nat, rin > 0
    PROVE  LET out == AmountOut(x, rin, rout)
           IN /\ out \in Nat /\ out <= rout
              /\ rout > 0 => out < rout
              /\ (rin + x) * (rout - out) >= rin * rout
<1> DEFINE net == (x * (10000 - FeeRate)) \div 10000
           out == (net * rout) \div (rin + net)
<1>1. net \in Nat /\ net <= x
  BY NetAmount
<1> HIDE DEF net
<1>2. rin + net \in Nat /\ rin + net > 0 /\ net * rout \in Nat
  BY <1>1, Z3
<1>3. out \in Nat /\ out * (rin + net) <= net * rout
  BY <1>2, Division
<1> HIDE DEF out
<1>4. AmountOut(x, rin, rout) = out
  BY <1>2 DEF AmountOut, net, out
<1>5. out <= rout
  <2>1. SUFFICES ASSUME out > rout PROVE FALSE
    BY <1>3
  <2>2. (rout + 1) * (rin + net) <= out * (rin + net)
    BY <1>2, <1>3, <2>1, Monotone
  <2>3. (rout + 1) * (rin + net) = rout * rin + rout * net + rin + net
    BY <1>1, Z3
  <2>4. rout * rin \in Nat /\ rout * net \in Nat /\ rout * net = net * rout
    BY <1>1, Z3
  <2>5. QED
    BY <1>1, <1>2, <1>3, <2>2, <2>3, <2>4
<1>6. rout > 0 => out < rout
  <2>1. SUFFICES ASSUME rout > 0, out = rout PROVE FALSE
    BY <1>3, <1>5
  <2>2. rout * (rin + net) = rout * rin + net * rout
    BY <1>1, Z3
  <2>3. rout * rin > 0
    BY <2>1, Z3
  <2>4. QED
    BY <1>1, <1>2, <1>3, <2>1, <2>2, <2>3
<1>7. (rin + net) * (rout - out) >= rin * rout
  <2>1. (rin + net) * (rout - out) = rin * rout + net * rout - out * (rin + net)
    BY <1>1, <1>3, Z3
  <2>2. rin * rout \in Nat /\ out * (rin + net) \in Nat
    BY <1>1, <1>3, Z3
  <2>3. QED
    BY <1>2, <1>3, <2>1, <2>2
<1>8. (rin + net) * (rout - out) <= (rin + x) * (rout - out)
  BY <1>1, <1>3, <1>5, Monotone
<1>9. (rin + net) * (rout - out) \in Int /\ (rin + x) * (rout - out) \in Int /\ rin * rout \in Int
  BY <1>1, <1>3, Z3
<1>10. QED
  BY <1>3, <1>4, <1>5, <1>6, <1>7, <1>8, <1>9

(* Two swaps, there and back, at any reserves (amm.rs:161-201): the product *)
(* of the reserves does not fall twice, so the reserve the first swap paid  *)
(* into cannot end up smaller than it was.                                  *)
LEMMA ThereAndBack ==
    ASSUME NEW x \in Nat, NEW rin \in Nat, NEW rout \in Nat, rin > 0, rout > 0
    PROVE  LET out == AmountOut(x, rin, rout)
           IN AmountOut(out, rout - out, rin + x) <= x
<1> DEFINE out == AmountOut(x, rin, rout)
           back == AmountOut(out, rout - out, rin + x)
<1>1. /\ out \in Nat /\ out < rout
      /\ (rin + x) * (rout - out) >= rin * rout
  BY SwapKeepsProduct
<1> HIDE DEF out
<1>2. rout - out \in Nat /\ rout - out > 0 /\ rin + x \in Nat /\ rin + x > 0
  BY <1>1
<1>3. /\ back \in Nat /\ back <= rin + x
      /\ ((rout - out) + out) * ((rin + x) - back) >= (rout - out) * (rin + x)
  BY <1>1, <1>2, SwapKeepsProduct
<1> HIDE DEF back
<1>4. (rout - out) + out = rout
  BY <1>1
<1>5. rin * rout <= ((rin + x) - back) * rout
  <2>1. (rout - out) * (rin + x) = (rin + x) * (rout - out)
    BY <1>1, <1>2, Z3
  <2>2. rout * ((rin + x) - back) = ((rin + x) - back) * rout
    BY <1>2, <1>3, Z3
  <2>3. /\ (rin + x) * (rout - out) \in Int /\ rin * rout \in Int
        /\ ((rin + x) - back) * rout \in Int
    BY <1>1, <1>2, <1>3, Z3
  <2>4. QED
    BY <1>1, <1>3, <1>4, <2>1, <2>2, <2>3
<1>6. rin <= (rin + x) - back
  BY <1>2, <1>3, <1>5, Cancel
<1>7. QED
  BY <1>3, <1>6 DEF out, back

(* Nobody profits from changing tokens there and back, whatever the         *)
(* amounts, the fee rate and the (unsigned) reserves of the pool            *)
(* (amm.rs:179-182).                                                        *)
THEOREM RoundTripNeverPays == AmmTypeOK => RoundTripLoses
<1> SUFFICES ASSUME AmmTypeOK,
                    NEW t \in Tokens, NEW x \in PoolAmounts,
                    reserve[t] > 0, reserve[Other(t)] > 0
             PROVE  LET out == AmountOut(x, reserve[t], reserve[Other(t)])
                    IN AmountOut(out, reserve[Other(t)] - out, reserve[t] + x) <= x
  BY DEF RoundTripLoses
<1>1. x \in Nat
  BY AmmAssumption
<1>2. reserve[t] \in Nat /\ reserve[Other(t)] \in Nat
  BY DEF AmmTypeOK, Tokens, Other
<1>3. QED
  BY <1>1, <1>2, ThereAndBack

-----------------------------------------------------------------------------
(* What one LP token is worth after n more were minted, or n were burned,   *)
(* with a share of the reserve r that is rounded down (amm.rs:102-108,      *)
(* 144-150).                                                                *)
LEMMA ShareOfReserve ==
    ASSUME NEW r \in Nat, NEW s \in Nat, NEW n \in Nat, s > 0
    PROVE  LET part == (n * r) \div s
           IN /\ part \in Nat
              /\ (r + part) * s + s > r * (s + n)
              /\ (r - part) * s >= r * (s - n)
<1> DEFINE part == (n * r) \div s
<1>1. n * r \in Nat
  BY Z3
<1>2. part \in Nat /\ part * s <= n * r /\ n * r < part * s + s
  BY <1>1, Division
<1> HIDE DEF part
<1>3. /\ (r + part) * s = r * s + part * s
      /\ (r - part) * s = r * s - part * s
      /\ r * (s + n) = r * s + n * r
      /\ r * (s - n) = r * s - n * r
      /\ r * s \in Nat /\ part * s \in Nat
  BY <1>2, Z3
<1>4. (r + part) * s + s > r * (s + n)
  BY <1>1, <1>2, <1>3
<1>5. (r - part) * s >= r * (s - n)
  BY <1>1, <1>2, <1>3
<1>6. QED
  BY <1>2, <1>4, <1>5 DEF part

(* From any well-formed state whose LP tokens are backed, no step of the    *)
(* pool takes more than dust out of the shares of the other providers: for  *)
(* every set of providers, every amount and every fee rate (amm.rs:78-159). *)
THEOREM StepsDiluteByDust ==
    AmmTypeOK /\ AmmTypeOK' /\ SupplyIsBacked /\ [AmmNext]_ammVars => DustStep
<1> SUFFICES ASSUME AmmTypeOK, AmmTypeOK', SupplyIsBacked, [AmmNext]_ammVars,
                    supply > 0, supply' > 0, NEW t \in Tokens
             PROVE  /\ supply' < supply => reserve'[t] * supply >= reserve[t] * supply'
                    /\ supply' > supply => reserve'[t] * supply + supply > reserve[t] * supply'
  BY DEF DustStep
<1>1. reserve[t] \in Nat /\ supply \in Nat /\ supply' \in Nat
  BY DEF AmmTypeOK
<1>2. CASE supply' = supply
  BY <1>1, <1>2
<1>3. ASSUME NEW p \in Providers, NEW x \in PoolAmounts, NEW y \in PoolAmounts,
             AddMore(p, x, y)
      PROVE  /\ supply' < supply => reserve'[t] * supply >= reserve[t] * supply'
             /\ supply' > supply => reserve'[t] * supply + supply > reserve[t] * supply'
  <2> DEFINE lp == Minted(x, y)
  <2>1. supply' = supply + lp /\ reserve'[t] = reserve[t] + (lp * reserve[t]) \div supply
    BY <1>3 DEF AddMore, Added
  <2>2. lp \in Nat
    <3>1. /\ x \in Nat /\ y \in Nat
          /\ reserve["a"] \in Nat /\ reserve["b"] \in Nat
          /\ reserve["a"] > 0 /\ reserve["b"] > 0
      BY AmmAssumption DEF AmmTypeOK, SupplyIsBacked, Tokens
    <3>2. x * supply \in Nat /\ y * supply \in Nat
      BY <1>1, <3>1, Z3
    <3>3. (x * supply) \div reserve["a"] \in Nat /\ (y * supply) \div reserve["b"] \in Nat
      BY <3>1, <3>2, Division
    <3>4. QED
      BY <3>3 DEF Minted, Smaller
  <2>3. QED
    BY <1>1, <2>1, <2>2, ShareOfReserve
<1>4. ASSUME NEW p \in Providers, NEW lp \in PoolAmounts, RemoveShares(p, lp)
      PROVE  /\ supply' < supply => reserve'[t] * supply >= reserve[t] * supply'
             /\ supply' > supply => reserve'[t] * supply + supply > reserve[t] * supply'
  <2>1. supply' = supply - lp /\ reserve'[t] = reserve[t] - (lp * reserve[t]) \div supply
    BY <1>4 DEF RemoveShares, Withdrawn
  <2>2. lp \in Nat
    BY AmmAssumption
  <2>3. QED
    BY <1>1, <2>1, <2>2, ShareOfReserve
<1>5. ASSUME NEW p \in Providers, NEW x \in PoolAmounts, NEW y \in PoolAmounts,
             AddFirst(p, x, y)
      PROVE  FALSE
  BY <1>1, <1>5 DEF AddFirst
<1>6. ASSUME NEW u \in Tokens, NEW x \in PoolAmounts, Swap(u, x)
      PROVE  supply' = supply
  BY <1>6 DEF Swap
<1>7. CASE GiveUp
  BY <1>2, <1>7 DEF GiveUp
<1>8. CASE RangeNext
  BY <1>2, <1>8 DEF RangeNext, AddConcentrated
<1>9. CASE UNCHANGED ammVars
  BY <1>2, <1>9 DEF ammVars
<1>10. CASE PoolNext
  BY <1>2, <1>3, <1>4, <1>5, <1>6, <1>7, <1>10 DEF PoolNext
<1>11. QED
  BY <1>8, <1>9, <1>10 DEF AmmNext

-----------------------------------------------------------------------------
(* ThresholdEncryption: a call sits on a threshold exactly while it holds    *)
(* the key shares, and every share past a threshold was stored by one.       *)

CipherTyped ==
    /\ keyShares \in [CipherTxs -> Nat]
    /\ abandoned \in Nat
    /\ shareLock \in ShareCalls \cup {NoCall}
    /\ callAt \in [ShareCalls -> [at : {"idle", "share", "stuck", "done"}, tx : CipherTxs \cup {NoCall}]]

CallsPlaced ==
    /\ \A c \in ShareCalls :
          /\ callAt[c].at = "stuck" <=> shareLock = c
          /\ callAt[c].at = "share" => callAt[c].tx \in CipherTxs
    /\ promiseReaders \subseteq ShareCalls
    /\ \A c \in promiseReaders : callAt[c].at \in {"share", "stuck"}

Overs == [x \in CipherTxs |-> Over(x)]

OversPaid ==
    SumFunctionOnSet(Overs, CipherTxs) = abandoned + (IF shareLock = NoCall THEN 0 ELSE 1)

CipherInv == CipherTyped /\ CallsPlaced /\ OversPaid

(* Over is what a transaction's shares are past the threshold, from the     *)
(* completing one on (threshold_encryption.rs:87-89).                         *)
LEMMA OversTyped == CipherTyped => \A x \in CipherTxs : Overs[x] \in Nat
<1> SUFFICES ASSUME CipherTyped, NEW x \in CipherTxs PROVE Overs[x] \in Nat
  OBVIOUS
<1>1. Threshold \in Nat /\ keyShares[x] \in Nat
  BY ThresholdAssumption DEF CipherTyped
<1>2. QED
  BY <1>1 DEF Overs, Over

(* Nothing has been submitted at first (threshold_encryption.rs:42-50).     *)
LEMMA CipherStarts == CipherInit => CipherInv
<1> SUFFICES ASSUME CipherInit PROVE CipherInv
  OBVIOUS
<1>1. CipherTyped /\ CallsPlaced
  BY ThresholdAssumption DEF CipherInit, CipherTyped, CallsPlaced, Idle
<1>2. \A x \in CipherTxs : Overs[x] = 0
  BY ThresholdAssumption DEF CipherInit, Overs, Over
<1>3. SumFunctionOnSet(Overs, CipherTxs) = 0
  <2> DEFINE Good(V) == SumFunctionOnSet(Overs, V) = 0
             T == {V \in SUBSET CipherTxs : Good(V)}
  <2>1. {} \in T
    BY FS_EmptySet, SumStep
  <2>2. ASSUME NEW V \in T, NEW x \in CipherTxs PROVE V \cup {x} \in T
    <3>1. CASE x \in V
      <4>1. V \cup {x} = V
        BY <3>1
      <4>2. QED
        BY <4>1
    <3>2. CASE x \notin V
      <4>1. IsFiniteSet(V)
        BY ThresholdAssumption, FS_Subset
      <4>2. \A y \in V \cup {x} : Overs[y] \in Int
        BY <1>2
      <4>3. SumFunctionOnSet(Overs, V \cup {x}) = Overs[x] + SumFunctionOnSet(Overs, V)
        BY <3>2, <4>1, <4>2, SumAdd
      <4>4. QED
        BY <4>3, <1>2
    <3>3. QED
      BY <3>1, <3>2
  <2>3. T = SUBSET CipherTxs
    <3>1. T \in SUBSET SUBSET CipherTxs
      OBVIOUS
    <3> HIDE DEF T
    <3>2. QED
      BY <2>1, <2>2, <3>1, ThresholdAssumption, FiniteSteps
  <2>4. QED
    BY <2>3
<1>4. QED
  BY <1>1, <1>3 DEF CipherInv, OversPaid, CipherInit

(* What leaves the shares, the lock and the count of calls given up alone   *)
(* leaves the account alone.                                                *)
LEMMA OversUntouched ==
    OversPaid /\ UNCHANGED <<keyShares, shareLock, abandoned>> => OversPaid'
<1> SUFFICES ASSUME OversPaid, UNCHANGED <<keyShares, shareLock, abandoned>> PROVE OversPaid'
  OBVIOUS
<1>1. Overs' = Overs
  BY DEF Overs, Over
<1>2. QED
  BY <1>1 DEF OversPaid

(* A share is one more for its transaction; the call that completes the      *)
(* threshold, and every one after it, stays with the lock                    *)
(* (threshold_encryption.rs:81-92, 327).                                       *)
LEMMA SharePaid ==
    ASSUME CipherInv, NEW c \in ShareCalls, SubmitKeyShare(c)
    PROVE  CipherInv'
<1> DEFINE x == callAt[c].tx
           n == keyShares[x] + 1
<1>0. /\ callAt[c].at = "share" /\ shareLock = NoCall /\ x \in CipherTxs
      /\ keyShares' = [keyShares EXCEPT ![x] = n]
      /\ UNCHANGED abandoned
  BY DEF SubmitKeyShare, CipherInv, CallsPlaced
<1>1. keyShares[x] \in Nat /\ n \in Nat /\ Threshold \in Nat \ {0} /\ NoCall \notin ShareCalls
  BY <1>0, ThresholdAssumption DEF CipherInv, CipherTyped
<1>2. CipherTyped'
  <2>1. keyShares' \in [CipherTxs -> Nat]
    BY <1>0, <1>1 DEF CipherInv, CipherTyped
  <2>2. QED
    BY <2>1, <1>0 DEF SubmitKeyShare, CipherInv, CipherTyped, Returned
<1>3. CallsPlaced'
  BY <1>0, <1>1 DEF SubmitKeyShare, CipherInv, CipherTyped, CallsPlaced, Returned
<1>4. shareLock' = IF Completes(n) THEN c ELSE NoCall
  BY <1>0 DEF SubmitKeyShare
<1>5. Overs'[x] = Overs[x] + (IF Completes(n) THEN 1 ELSE 0)
  <2>1. keyShares'[x] = n
    BY <1>0 DEF CipherInv, CipherTyped
  <2>2. Overs'[x] = IF n < Threshold THEN 0 ELSE n - Threshold + 1
    BY <2>1, <1>0 DEF Overs, Over
  <2>3. Overs[x] = IF keyShares[x] < Threshold THEN 0 ELSE keyShares[x] - Threshold + 1
    BY <1>0 DEF Overs, Over
  <2>4. QED
    BY <2>2, <2>3, <1>1 DEF Completes
<1>6. \A y \in CipherTxs \ {x} : Overs'[y] = Overs[y]
  BY <1>0 DEF Overs, Over, CipherInv, CipherTyped
<1>7. OversPaid'
  <2>0. \A y \in CipherTxs : keyShares'[y] \in Nat
    BY <1>2 DEF CipherTyped
  <2>1. \A y \in CipherTxs : Overs[y] \in Int /\ Overs'[y] \in Int
    BY <2>0, <1>1, OversTyped DEF CipherInv, Overs, Over
  <2>2. /\ SumFunctionOnSet(Overs, CipherTxs) \in Int
        /\ SumFunctionOnSet(Overs', CipherTxs)
             = SumFunctionOnSet(Overs, CipherTxs) - Overs[x] + Overs'[x]
    BY <2>1, <1>0, <1>6, ThresholdAssumption, SumChange
  <2>3. SumFunctionOnSet(Overs, CipherTxs) = abandoned /\ abandoned \in Nat
    BY <1>0 DEF CipherInv, OversPaid, CipherTyped
  <2>4. Overs[x] \in Int
    BY <2>1, <1>0
  <2>5. SumFunctionOnSet(Overs', CipherTxs) = abandoned' + (IF Completes(n) THEN 1 ELSE 0)
    BY <2>2, <2>3, <2>4, <1>5, <1>0
  <2>6. Completes(n) => shareLock' # NoCall
    BY <1>1, <1>4
  <2>7. QED
    BY <2>5, <2>6, <1>4 DEF OversPaid
<1>8. QED
  BY <1>2, <1>3, <1>7 DEF CipherInv

(* A caller that gives up a call sitting on a threshold pays for it.        *)
LEMMA GivingUpPaid ==
    ASSUME CipherInv, NEW c \in ShareCalls, CallGivenUp(c)
    PROVE  CipherInv'
<1>0. NoCall \notin ShareCalls /\ abandoned \in Nat
  BY ThresholdAssumption DEF CipherInv, CipherTyped
<1>1. CipherTyped'
  BY <1>0 DEF CallGivenUp, CipherInv, CipherTyped, Returned
<1>2. CallsPlaced'
  BY <1>0 DEF CallGivenUp, CipherInv, CipherTyped, CallsPlaced, Returned
<1>3. abandoned' + (IF shareLock' = NoCall THEN 0 ELSE 1)
         = abandoned + (IF shareLock = NoCall THEN 0 ELSE 1)
  <2>1. CASE callAt[c].at = "stuck"
    <3>1. shareLock = c /\ shareLock' = NoCall /\ abandoned' = abandoned + 1
      BY <2>1 DEF CallGivenUp, CipherInv, CallsPlaced
    <3>2. QED
      BY <3>1, <1>0
  <2>2. CASE callAt[c].at # "stuck"
    <3>1. shareLock' = shareLock /\ abandoned' = abandoned
      BY <2>2, <1>0 DEF CallGivenUp, CipherInv, CallsPlaced
    <3>2. QED
      BY <3>1
  <2>3. QED
    BY <2>1, <2>2
<1>4. Overs' = Overs
  BY DEF CallGivenUp, Overs, Over
<1>5. QED
  BY <1>1, <1>2, <1>3, <1>4 DEF CipherInv, OversPaid

LEMMA CipherSteps == CipherInv /\ [CipherNext]_cipherVars => CipherInv'
<1> SUFFICES ASSUME CipherInv, [CipherNext]_cipherVars PROVE CipherInv'
  OBVIOUS
<1>0. NoCall \notin ShareCalls
  BY ThresholdAssumption
<1>1. CASE UNCHANGED cipherVars
  <2>1. CipherTyped' /\ CallsPlaced'
    BY <1>1 DEF CipherInv, CipherTyped, CallsPlaced, cipherVars
  <2>2. QED
    BY <1>1, <2>1, OversUntouched DEF CipherInv, cipherVars
<1>2. CASE InstantTick
  <2>1. CipherTyped' /\ CallsPlaced'
    BY <1>2 DEF CipherInv, CipherTyped, CallsPlaced, InstantTick
  <2>2. QED
    BY <1>2, <2>1, OversUntouched DEF CipherInv, InstantTick
<1>3. ASSUME NEW x \in CipherTxs, SubmitEncrypted(x) \/ CommitToDecrypt(x) PROVE CipherInv'
  <2>1. CipherTyped' /\ CallsPlaced'
    BY <1>3 DEF CipherInv, CipherTyped, CallsPlaced, SubmitEncrypted, CommitToDecrypt
  <2>2. QED
    BY <1>3, <2>1, OversUntouched DEF CipherInv, SubmitEncrypted, CommitToDecrypt
<1>4. ASSUME NEW c \in ShareCalls, NEW x \in CipherTxs, StartShare(c, x) \/ RevealDecryption(c, x)
      PROVE  CipherInv'
  <2>1. CipherTyped'
    BY <1>4 DEF CipherInv, CipherTyped, StartShare, RevealDecryption
  <2>2. CallsPlaced'
    BY <1>4, <1>0 DEF CipherInv, CipherTyped, CallsPlaced, StartShare, RevealDecryption, Idle
  <2>3. QED
    BY <1>4, <2>1, <2>2, OversUntouched DEF CipherInv, StartShare, RevealDecryption
<1>5. QED
  BY <1>1, <1>2, <1>3, <1>4, SharePaid, GivingUpPaid DEF CipherNext

(* Every share at or past a threshold costs a call that never returned, for *)
(* every number of transactions, calls and shares, and only reveals under   *)
(* way keep commitments out (threshold_encryption.rs:81-92, 148, 327).     *)
THEOREM ThresholdsAlwaysCost == CipherSpec => []ThresholdsCostCalls
<1>1. CipherInv => ThresholdsCostCalls
  BY DEF CipherInv, OversPaid, CallsPlaced, ThresholdsCostCalls, Overs
<1>2. QED
  BY <1>1, CipherStarts, CipherSteps, PTL DEF CipherSpec

-----------------------------------------------------------------------------
(* OptionsProtocol: an option that was not exercised has paid nothing, and  *)
(* the collateral of a put is its price at the strike.                      *)

Contract ==
    [type : {"Call", "Put"}, strike : Strikes, expiry : Nat, amount : Volumes,
     writer : Accounts, holders : SUBSET Accounts, exercised : BOOLEAN, expired : BOOLEAN,
     collateral : Nat]

OptionTyped ==
    /\ option \in [Contracts -> SUBSET Contract]
    /\ payout \in [Contracts -> Int] /\ returned \in [Contracts -> Int]

OptionPaid ==
    \A o \in Contracts :
        /\ option[o] = {} => payout[o] = 0
        /\ \A c \in option[o] :
              /\ option[o] = {c}
              /\ c.collateral = CollateralOf(c.type, c.strike, c.amount)

OptionInv == OptionTyped /\ OptionPaid /\ PaysOnce

(* A put is worth no more than its writer deposited (options.rs:131-143).   *)
LEMMA PutsCovered ==
    ASSUME NEW k \in Nat, NEW a \in Nat, NEW s \in Nat, k > s
    PROVE  (k - s) * a \in Nat /\ k * a \in Nat /\ (k - s) * a <= k * a
<1>1. (k - s) \in Nat /\ k * a = (k - s) * a + s * a
  BY Z3
<1>2. (k - s) * a \in Nat /\ s * a \in Nat /\ k * a \in Nat
  BY <1>1, Z3
<1>3. QED
  BY <1>1, <1>2

(* Collateral and worth are natural numbers.                                *)
LEMMA WorthIsNat ==
    ASSUME NEW c \in Contract
    PROVE  /\ Worth(c) \in Nat /\ CollateralOf(c.type, c.strike, c.amount) \in Nat
           /\ c.type = "Put" /\ Profitable(c) =>
                 Worth(c) <= CollateralOf(c.type, c.strike, c.amount)
<1>1. c.strike \in Nat /\ c.amount \in Nat /\ Spot \in Nat /\ c.type \in {"Call", "Put"}
  BY OptionAssumption DEF Contract
<1>2. c.strike * c.amount \in Nat
  BY <1>1, Z3
<1>3. CASE c.type = "Call"
  <2>1. Spot > c.strike => (Spot - c.strike) * c.amount \in Nat
    BY <1>1, PutsCovered
  <2>2. QED
    BY <1>1, <1>3, <2>1 DEF Worth, CollateralOf
<1>4. CASE c.type = "Put"
  <2>1. c.strike > Spot => /\ (c.strike - Spot) * c.amount \in Nat
                           /\ (c.strike - Spot) * c.amount <= c.strike * c.amount
    BY <1>1, PutsCovered
  <2>2. QED
    BY <1>1, <1>2, <1>4, <2>1 DEF Worth, CollateralOf, Profitable
<1>5. QED
  BY <1>1, <1>3, <1>4

(* A contract that changes only what is not its type, strike or amount is   *)
(* worth the same.                                                          *)
LEMMA WorthSame ==
    ASSUME NEW c, NEW d, c.type = d.type, c.strike = d.strike, c.amount = d.amount
    PROVE  /\ Worth(c) = Worth(d) /\ (Profitable(c) <=> Profitable(d))
BY DEF Worth, Profitable

LEMMA OptionSteps == OptionInv /\ [OptionNext]_optionVars => OptionInv'
<1> SUFFICES ASSUME OptionInv, [OptionNext]_optionVars PROVE OptionInv'
  OBVIOUS
<1>0. UNCHANGED <<option, payout, returned>> => OptionInv'
  BY DEF OptionInv, OptionTyped, OptionPaid, PaysOnce, Worth
<1>1. ASSUME NEW o \in Contracts, NEW w \in Accounts, NEW type \in {"Call", "Put"},
             NEW k \in Strikes, NEW e \in 0..EndOfTime, NEW v \in Volumes,
             CreateOption(o, w, type, k, e, v)
      PROVE  OptionInv'
  <2> DEFINE d == [type |-> type, strike |-> k, expiry |-> e, amount |-> v,
                   writer |-> w, holders |-> {}, exercised |-> FALSE, expired |-> FALSE,
                   collateral |-> CollateralOf(type, k, v)]
  <2>1. CollateralOf(type, k, v) \in Nat
    <3>1. k \in Nat /\ v \in Nat
      BY OptionAssumption
    <3>2. k * v \in Nat
      BY <3>1, Z3
    <3>3. QED
      BY <3>1, <3>2 DEF CollateralOf
  <2>2. d \in Contract
    <3>1. e \in Nat
      BY OptionAssumption
    <3>2. QED
      BY <2>1, <3>1 DEF Contract
  <2>3. /\ option' = [option EXCEPT ![o] = {d}] /\ option[o] = {}
        /\ payout' = payout /\ returned' = returned
    BY <1>1 DEF CreateOption
  <2>4. d.collateral = CollateralOf(d.type, d.strike, d.amount) /\ ~d.exercised /\ ~d.expired
    OBVIOUS
  <2> HIDE DEF d
  <2>5. OptionTyped'
    BY <2>2, <2>3 DEF OptionInv, OptionTyped
  <2>6. OptionPaid'
    BY <2>3, <2>4 DEF OptionInv, OptionTyped, OptionPaid
  <2>7. PaysOnce'
    BY <2>3, <2>4 DEF OptionInv, OptionTyped, OptionPaid, PaysOnce, Worth
  <2>8. QED
    BY <2>5, <2>6, <2>7 DEF OptionInv
<1>2. ASSUME NEW o \in Contracts, NEW c \in option[o], NEW d \in Contract,
             option' = [option EXCEPT ![o] = {d}], payout' = payout, returned' = returned,
             c.type = d.type, c.strike = d.strike, c.amount = d.amount,
             c.collateral = d.collateral, c.exercised = d.exercised,
             d.exercised => ~d.expired
      PROVE  OptionInv'
  <2>1. OptionTyped'
    BY <1>2 DEF OptionInv, OptionTyped
  <2>2. OptionPaid'
    BY <1>2 DEF OptionInv, OptionTyped, OptionPaid, CollateralOf
  <2>3. Worth(c) = Worth(d)
    BY <1>2, WorthSame
  <2>4. PaysOnce'
    BY <1>2, <2>3 DEF OptionInv, OptionTyped, PaysOnce, Worth
  <2>5. QED
    BY <2>1, <2>2, <2>4 DEF OptionInv
<1>3. ASSUME NEW o \in Contracts, NEW a \in Accounts, BuyOption(o, a)
      PROVE  OptionInv'
  <2>1. PICK c \in option[o] : /\ option' = [option EXCEPT ![o] = {[c EXCEPT !.holders = {a}]}]
                               /\ UNCHANGED <<payout, returned>>
    BY <1>3 DEF BuyOption
  <2>2. c \in Contract /\ (c.exercised => ~c.expired)
    BY DEF OptionInv, OptionTyped, PaysOnce
  <2>3. [c EXCEPT !.holders = {a}] \in Contract
    BY <2>2 DEF Contract
  <2>4. QED
    BY <1>2, <2>1, <2>2, <2>3 DEF Contract
<1>4. ASSUME NEW o \in Contracts, NEW a \in Accounts, ExerciseLate(o, a)
      PROVE  OptionInv'
  <2>1. PICK c \in option[o] : /\ Open(c)
                               /\ option' = [option EXCEPT ![o] = {[c EXCEPT !.expired = TRUE]}]
                               /\ UNCHANGED <<payout, returned>>
    BY <1>4 DEF ExerciseLate
  <2>2. c \in Contract /\ ~c.exercised
    BY <2>1 DEF OptionInv, OptionTyped, Open
  <2>3. [c EXCEPT !.expired = TRUE] \in Contract
    BY <2>2 DEF Contract
  <2>4. QED
    BY <1>2, <2>1, <2>2, <2>3 DEF Contract
<1>5. ASSUME NEW o \in Contracts, NEW a \in Accounts, ExerciseOption(o, a)
      PROVE  OptionInv'
  <2>1. PICK c \in option[o] :
           /\ Open(c) /\ Profitable(c)
           /\ option' = [option EXCEPT ![o] = {[c EXCEPT !.exercised = TRUE]}]
           /\ payout' = [payout EXCEPT ![o] = @ + Worth(c)]
           /\ returned' = [returned EXCEPT ![o] =
                 IF c.collateral > Worth(c) THEN c.collateral - Worth(c) ELSE 0]
    BY <1>5 DEF ExerciseOption
  <2> DEFINE d == [c EXCEPT !.exercised = TRUE]
  <2>2. /\ c \in Contract /\ ~c.exercised /\ ~c.expired /\ payout[o] = 0
        /\ c.collateral = CollateralOf(c.type, c.strike, c.amount)
    BY <2>1 DEF OptionInv, OptionTyped, OptionPaid, PaysOnce, Open
  <2>3. /\ d \in Contract /\ d.exercised /\ ~d.expired
        /\ c.type = d.type /\ c.strike = d.strike /\ c.amount = d.amount
        /\ c.collateral = d.collateral
    BY <2>2 DEF Contract
  <2> HIDE DEF d
  <2>4. Worth(c) \in Nat /\ c.collateral \in Nat /\ Worth(d) = Worth(c)
    BY <2>2, <2>3, WorthIsNat, WorthSame
  <2>5. /\ payout'[o] = Worth(d)
        /\ returned'[o] = IF c.collateral > Worth(c) THEN c.collateral - Worth(c) ELSE 0
    BY <2>1, <2>2, <2>4 DEF OptionInv, OptionTyped
  <2>6. option' = [option EXCEPT ![o] = {d}]
    BY <2>1 DEF d
  <2>7. OptionTyped'
    <3>1. payout[o] + Worth(c) \in Int
      BY <2>2, <2>4
    <3>2. (IF c.collateral > Worth(c) THEN c.collateral - Worth(c) ELSE 0) \in Int
      BY <2>4
    <3>3. payout' \in [Contracts -> Int] /\ returned' \in [Contracts -> Int]
      BY <2>1, <3>1, <3>2 DEF OptionInv, OptionTyped
    <3>4. QED
      BY <2>3, <2>6, <3>3 DEF OptionInv, OptionTyped
  <2>8. OptionPaid'
    <3>1. d.collateral = CollateralOf(d.type, d.strike, d.amount)
      BY <2>2, <2>3
    <3>2. QED
      BY <2>1, <2>6, <3>1 DEF OptionInv, OptionTyped, OptionPaid
  <2>9. d.type = "Put" => payout'[o] + returned'[o] = d.collateral
    <3>1. d.type = "Put" => Worth(c) <= c.collateral
      BY <2>1, <2>2, <2>3, WorthIsNat
    <3>2. QED
      BY <2>3, <2>4, <2>5, <3>1
  <2>10. PaysOnce'
    <3>1. ASSUME NEW q \in Contracts, q # o, NEW e \in option'[q]
          PROVE  /\ e \in option[q] /\ payout'[q] = payout[q] /\ returned'[q] = returned[q]
      BY <2>1, <3>1 DEF OptionInv, OptionTyped
    <3>2. ASSUME NEW e \in option'[o] PROVE e = d
      BY <2>6 DEF OptionInv, OptionTyped
    <3>3. ASSUME NEW q \in Contracts, NEW e \in option'[q]
          PROVE  /\ ~(e.exercised /\ e.expired)
                 /\ payout'[q] = IF e.exercised THEN Worth(e) ELSE 0
                 /\ e.type = "Put" /\ e.exercised => payout'[q] + returned'[q] = e.collateral
      <4>1. CASE q = o
        BY <4>1, <3>2, <2>3, <2>5, <2>9
      <4>2. CASE q # o
        BY <4>2, <3>1 DEF OptionInv, PaysOnce
      <4>3. QED
        BY <4>1, <4>2
    <3>4. QED
      BY <3>3 DEF PaysOnce, Worth
  <2>11. QED
    BY <2>7, <2>8, <2>10 DEF OptionInv
<1>6. Tick => OptionInv'
  BY <1>0 DEF Tick
<1>7. QED
  BY <1>0, <1>1, <1>3, <1>4, <1>5, <1>6 DEF OptionNext, optionVars

-----------------------------------------------------------------------------
(* Perpetual: who holds which lock tells what no other call can be doing;   *)
(* so the position a call has in hand is an open one, or one whose side and *)
(* size are still those of the open one with its id.                        *)

PerpLabels == InFlight \cup {"idle", "done", "closed", "liquidated", "failed", "dropped"}
Fresh == {"idle", "open_interest", "open_insert"}
Keeping == {"close_read", "close_write", "liquidate_check", "collateral_price"}
Liquidating == {"liquidate_pay", "liquidate_remove"}
InHand == Keeping \cup Liquidating \cup {"closed", "liquidated"}

PerpTyped ==
    /\ interest \in [BOOLEAN -> Nat] /\ lifted \in [BOOLEAN -> Nat] /\ fund \in Nat
    /\ positions \subseteq Position /\ IsFiniteSet(positions)
    /\ at \in [PerpCalls -> PerpLabels]
    /\ subject \in [PerpCalls -> Position \cup {NoPosition}]
    /\ perpW \in [PerpLocks -> PerpCalls \cup {PerpNobody}]
    /\ perpR \in [PerpLocks -> SUBSET PerpCalls]

PerpGuards ==
    /\ perpR["markets"] = {}
    /\ perpW["positions"] # PerpNobody => perpR["positions"] = {}
    /\ \A c \in PerpCalls :
         /\ perpW["markets"] = c <=> at[c] \in {"open_insert", "open_funding"}
         /\ perpW["positions"] = c <=>
              at[c] \in {"open_funding", "close_read", "close_write", "collateral_price"}
         /\ c \in perpR["positions"] <=> at[c] = "liquidate_check"

UniqueIds == \A p, q \in positions : p.id = q.id => p = q
IdsUsed == \A p \in positions : at[p.id] \notin Fresh
OpeningsOwn ==
    \A c \in PerpCalls : at[c] \in {"open_interest", "open_insert"} =>
        subject[c] \in Position /\ subject[c].id = c
HandsTyped ==
    \A c \in PerpCalls : at[c] \in InHand => subject[c] \in Position /\ at[subject[c].id] \notin Fresh
HandsKept == \A c \in PerpCalls : at[c] \in Keeping => subject[c] \in positions
Matches(p) == \A q \in positions : q.id = p.id => q.size = p.size /\ q.long = p.long
HandsMatch == \A c \in PerpCalls : at[c] \in Liquidating => Matches(subject[c])

PerpSubjects ==
    /\ UniqueIds /\ IdsUsed /\ OpeningsOwn
    /\ HandsTyped /\ HandsKept /\ HandsMatch
    /\ PaidBackOnce

PerpKinds == PerpTyped /\ PerpGuards /\ PerpSubjects
PerpInv == PerpKinds /\ InterestAccounts

LEMMA PerpStarts == PerpInit => PerpInv
<1> SUFFICES ASSUME PerpInit PROVE PerpInv
  OBVIOUS
<1>1. PerpTyped /\ PerpGuards
  BY FS_EmptySet, PerpAssumption
     DEF PerpInit, PerpTyped, PerpGuards, PerpLabels, PerpLocks
<1>2. PerpSubjects
  BY DEF PerpInit, PerpSubjects, UniqueIds, IdsUsed, OpeningsOwn, HandsTyped, HandsKept, HandsMatch,
         PaidBackOnce, InHand, Keeping, Liquidating
<1>3. InterestAccounts
  <2>1. ASSUME NEW b \in BOOLEAN
        PROVE  /\ Side(b) = {} /\ Opening(b) = {} /\ interest[b] = 0 /\ lifted[b] = 0
    BY DEF PerpInit, Side, Opening
  <2>2. \A f : SumFunctionOnSet(f, {}) = 0
    <3>1. \A f : \A x \in {} : f[x] \in Int
      OBVIOUS
    <3>2. QED
      BY <3>1, FS_EmptySet, SumStep
  <2>3. QED
    BY <2>1, <2>2 DEF InterestAccounts, SizeSum
<1>4. QED
  BY <1>1, <1>2, <1>3 DEF PerpInv, PerpKinds

-----------------------------------------------------------------------------
(* What open_position computes: the collateral is a natural number, the     *)
(* liquidation price a number, at every leverage but 0                      *)
(* (perpetual.rs:386-421).                                                 *)
LEMMA PricesTyped ==
    ASSUME NEW s \in Sizes, NEW v \in Leverages, v # 0, NEW b \in BOOLEAN
    PROVE  Collateral(s, v) \in Nat /\ LiquidationPrice(v, b) \in Int
<1>1. s \in Nat /\ v \in Nat /\ v > 0
  BY PerpAssumption
<1> DEFINE value == s * MarkPrice
           x == value \div v
           y == (value * InitialRatio) \div 10000
<1>2. value \in Nat
  BY <1>1, Z3 DEF MarkPrice
<1>3. value * InitialRatio \in Nat
  BY <1>2, Z3 DEF InitialRatio
<1>4. x \in Nat /\ y \in Nat
  BY <1>1, <1>2, <1>3, Z3
<1>5. Max({x, y}) \in Nat
  <2> HIDE DEF x, y
  <2>1. \E m \in {x, y} : \A z \in {x, y} : m >= z
    BY <1>4
  <2>2. Max({x, y}) \in {x, y}
    BY <2>1 DEF Max
  <2>3. QED
    BY <1>4, <2>2
<1>6. Collateral(s, v) \in Nat
  BY <1>5 DEF Collateral
<1>7. 10000 \div v \in Int
  BY <1>1, Z3
<1>8. LiquidationPrice(v, b) \in Int
  BY <1>7 DEF LiquidationPrice, MarkPrice, MaintenanceRatio
<1>9. QED
  BY <1>6, <1>8

(* The fund never loses (perpetual.rs:246-255). *)
LEMMA ContributionIsNat ==
    ASSUME NEW p \in Position
    PROVE  Contribution(p) \in Nat
<1>1. p.collateral \in Nat /\ PenaltyBps \in Nat
  BY PerpAssumption DEF Position
<1>2. p.collateral * PenaltyBps \in Nat
  BY <1>1, Z3
<1> DEFINE fee == (p.collateral * PenaltyBps) \div 10000
<1>3. fee \in Nat
  BY <1>2, Z3
<1>4. fee - fee \div 2 \in Nat
  <2> HIDE DEF fee
  <2>1. QED
    BY <1>3, Z3
<1>5. QED
  BY <1>4 DEF Contribution

(* Sizes and sides of positions. *)
SizeOf == [p \in Position |-> p.size]

SidesSummed ==
    \A b \in BOOLEAN :
        /\ IsFiniteSet(Side(b)) /\ Side(b) \subseteq Position
        /\ SizeSum(Side(b)) = SumFunctionOnSet(SizeOf, Side(b))
        /\ SizeSum(Side(b)) \in Nat

LEMMA SizesAreNat == \A p \in Position : SizeOf[p] = p.size /\ SizeOf[p] \in Nat
<1>1. ASSUME NEW p \in Position PROVE p.size \in Nat
  <2>1. p.size \in Sizes
    BY DEF Position
  <2>2. Sizes \subseteq Nat
    BY PerpAssumption
  <2>3. QED
    BY <2>1, <2>2
<1>2. QED
  BY <1>1 DEF SizeOf

LEMMA SidesAdd == PerpTyped => SidesSummed
<1> SUFFICES ASSUME PerpTyped, NEW b \in BOOLEAN
             PROVE  /\ IsFiniteSet(Side(b)) /\ Side(b) \subseteq Position
                    /\ SizeSum(Side(b)) = SumFunctionOnSet(SizeOf, Side(b))
                    /\ SizeSum(Side(b)) \in Nat
  BY DEF SidesSummed
<1>1. IsFiniteSet(Side(b)) /\ Side(b) \subseteq Position
  BY FS_Subset DEF Side, PerpTyped
<1>2. SumFunctionOnSet([p \in Side(b) |-> p.size], Side(b)) = SumFunctionOnSet(SizeOf, Side(b))
  <2> DEFINE f == [p \in Side(b) |-> p.size]
  <2>1. \A p \in Side(b) : f[p] = SizeOf[p]
    BY <1>1 DEF SizeOf
  <2> HIDE DEF f
  <2>2. SumFunctionOnSet(f, Side(b)) = SumFunctionOnSet(SizeOf, Side(b))
    BY <2>1, SumSame
  <2>3. QED
    BY <2>2 DEF f
<1>4. SumFunctionOnSet(SizeOf, Side(b)) \in Nat
  BY <1>1, SizesAreNat, SumNat
<1>5. QED
  BY <1>1, <1>2, <1>4 DEF SizeSum

Pending(b) == SumFunctionOnSet([c \in Opening(b) |-> subject[c].size], Opening(b))

(* At most one opening is between its two writes: it holds the markets.     *)
PendingAlone ==
    \A b \in BOOLEAN :
        /\ Pending(b) \in Nat
        /\ perpW["markets"] = PerpNobody => Pending(b) = 0
        /\ (\A c \in PerpCalls : at[c] # "open_insert") => Pending(b) = 0
        /\ \A c \in PerpCalls : at[c] = "open_insert" =>
              Pending(b) = IF subject[c].long = b THEN subject[c].size ELSE 0

LEMMA OpeningAlone == PerpKinds => PendingAlone
<1> SUFFICES ASSUME PerpKinds, NEW b \in BOOLEAN
             PROVE  /\ Pending(b) \in Nat
                    /\ perpW["markets"] = PerpNobody => Pending(b) = 0
                    /\ (\A c \in PerpCalls : at[c] # "open_insert") => Pending(b) = 0
                    /\ \A c \in PerpCalls : at[c] = "open_insert" =>
                          Pending(b) = IF subject[c].long = b THEN subject[c].size ELSE 0
  BY DEF PendingAlone
<1> DEFINE f == [c \in Opening(b) |-> subject[c].size]
<1>0. PerpNobody \notin PerpCalls /\ Sizes \subseteq Nat
  BY PerpAssumption
<1>1. Opening(b) = {} => Pending(b) = 0
  <2> SUFFICES ASSUME Opening(b) = {} PROVE SumFunctionOnSet(f, Opening(b)) = 0
    BY DEF Pending
  <2>1. \A c \in Opening(b) : f[c] \in Int
    OBVIOUS
  <2> HIDE DEF f
  <2>2. IsFiniteSet(Opening(b))
    BY FS_EmptySet
  <2>3. QED
    BY <2>1, <2>2, SumStep
<1>2. ASSUME NEW c \in PerpCalls, Opening(b) = {c}
      PROVE  Pending(b) = subject[c].size /\ Pending(b) \in Nat
  <2>0. at[c] = "open_insert"
    BY <1>2 DEF Opening
  <2>1. subject[c].size \in Nat
    <3>1. subject[c] \in Position
      BY <2>0 DEF PerpKinds, PerpSubjects, OpeningsOwn
    <3>2. subject[c].size \in Sizes
      BY <3>1 DEF Position
    <3>3. QED
      BY <3>2, <1>0
  <2>2. f[c] = subject[c].size /\ \A d \in Opening(b) : f[d] \in Int
    BY <1>2, <2>1
  <2> HIDE DEF f
  <2>3. IsFiniteSet(Opening(b)) /\ Opening(b) \ {c} = {}
    <3>1. IsFiniteSet({c})
      BY FS_Singleton
    <3>2. QED
      BY <1>2, <3>1
  <2>4. SumFunctionOnSet(f, Opening(b)) = f[c] + SumFunctionOnSet(f, Opening(b) \ {c})
    BY <1>2, <2>2, <2>3, SumRemove
  <2>5. SumFunctionOnSet(f, {}) = 0
    <3>1. \A d \in {} : f[d] \in Int
      OBVIOUS
    <3>2. QED
      BY <3>1, FS_EmptySet, SumStep
  <2>6. SumFunctionOnSet(f, Opening(b)) = subject[c].size
    BY <2>1, <2>2, <2>3, <2>4, <2>5
  <2>7. QED
    BY <2>1, <2>6 DEF Pending, f
<1>3. \A c, d \in PerpCalls : at[c] = "open_insert" /\ at[d] = "open_insert" => c = d
  BY DEF PerpKinds, PerpGuards
<1>4. perpW["markets"] = PerpNobody => Opening(b) = {}
  BY <1>0 DEF Opening, PerpKinds, PerpGuards
<1>5. ASSUME NEW c \in PerpCalls, at[c] = "open_insert"
      PROVE  Opening(b) = IF subject[c].long = b THEN {c} ELSE {}
  BY <1>3, <1>5 DEF Opening
<1>8. (\A c \in PerpCalls : at[c] # "open_insert") => Opening(b) = {}
  BY DEF Opening
<1>6. Opening(b) = {} \/ \E c \in PerpCalls : Opening(b) = {c}
  BY <1>3 DEF Opening
<1>7. QED
  BY <1>1, <1>2, <1>4, <1>5, <1>6, <1>8

LEMMA SidesAddNext == PerpTyped' => SidesSummed'
BY SidesAdd, PTL

LEMMA OpeningAloneNext == PerpKinds' => PendingAlone'
BY OpeningAlone, PTL

(* A call that neither is nor becomes an opening between its writes leaves  *)
(* the account alone when it leaves the positions and the interest alone.   *)
LEMMA AccountsUntouched ==
    ASSUME PerpInv, UNCHANGED <<interest, positions, lifted>>,
           \A c \in PerpCalls : (at'[c] = "open_insert" <=> at[c] = "open_insert"),
           \A c \in PerpCalls : at[c] = "open_insert" => subject'[c] = subject[c]
    PROVE  InterestAccounts'
<1>1. \A b : Opening(b)' = Opening(b) /\ Side(b)' = Side(b)
  BY DEF Opening, Side
<1>2. ASSUME NEW b \in BOOLEAN PROVE Pending(b)' = Pending(b)
  <2>1. [c \in Opening(b)' |-> subject'[c].size] = [c \in Opening(b) |-> subject[c].size]
    BY <1>1 DEF Opening
  <2>2. QED
    BY <1>1, <2>1 DEF Pending
<1>3. ASSUME NEW b \in BOOLEAN PROVE SizeSum(Side(b))' = SizeSum(Side(b))
  BY <1>1 DEF SizeSum
<1>4. QED
  BY <1>2, <1>3 DEF PerpInv, InterestAccounts, Pending

(* A call that goes on without writing positions keeps what is known of the *)
(* subjects, if its own fits where it goes.                                 *)
LEMMA MovesKeepSubjects ==
    ASSUME PerpTyped, PerpSubjects, NEW c \in PerpCalls, NEW l, NEW p,
           at' = [at EXCEPT ![c] = l], subject' = [subject EXCEPT ![c] = p], positions' = positions,
           l \notin {"idle", "closed", "liquidated"}, l \in Fresh => at[c] \in Fresh,
           l \in {"open_interest", "open_insert"} => p \in Position /\ p.id = c,
           l \in InHand => p \in Position /\ at[p.id] \notin Fresh,
           l \in Keeping => p \in positions, l \in Liquidating => Matches(p)
    PROVE  PerpSubjects'
<1>1. /\ at'[c] = l /\ \A d \in PerpCalls \ {c} : at'[d] = at[d]
      /\ subject'[c] = p /\ \A d \in PerpCalls \ {c} : subject'[d] = subject[d]
  BY DEF PerpTyped
<1>2. \A d \in PerpCalls : at[d] \notin Fresh => at'[d] \notin Fresh
  BY <1>1
<1>3. \A q \in Position : q.id \in PerpCalls
  BY DEF Position
<1>4. UniqueIds'
  BY DEF PerpSubjects, UniqueIds
<1>5. IdsUsed'
  BY <1>2, <1>3 DEF PerpSubjects, PerpTyped, IdsUsed
<1>6. OpeningsOwn'
  BY <1>1 DEF PerpSubjects, OpeningsOwn
<1>7. HandsTyped'
  BY <1>1, <1>2, <1>3 DEF PerpSubjects, HandsTyped
<1>8. HandsKept'
  BY <1>1 DEF PerpSubjects, HandsKept
<1>9. HandsMatch'
  BY <1>1 DEF PerpSubjects, HandsMatch, Matches
<1>10. PaidBackOnce'
  BY <1>1 DEF PerpSubjects, PaidBackOnce, Found
<1>11. QED
  BY <1>4, <1>5, <1>6, <1>7, <1>8, <1>9, <1>10 DEF PerpSubjects

(* open_position, up to its insertion (perpetual.rs:96-153).                *)
LEMMA OpenCheckKinds ==
    ASSUME PerpKinds, NEW c \in PerpCalls, NEW t \in Traders, NEW s \in Sizes,
           NEW v \in Leverages, NEW b \in BOOLEAN, OpenCheck(c, t, s, v, b)
    PROVE  PerpKinds'
<1> USE DEF PerpKinds
<1>1. CASE v > MaxLeverage \/ v = 0
  <2>1. /\ at' = [at EXCEPT ![c] = "failed"]
        /\ UNCHANGED <<subject, positions, interest, fund, perpW, perpR, lifted>>
    BY <1>1 DEF OpenCheck, GoTo
  <2>2. PerpTyped'
    BY <2>1 DEF PerpTyped, PerpLabels
  <2>3. PerpGuards'
    BY <2>1, <1>1 DEF OpenCheck, PerpTyped, PerpGuards
  <2>4. subject' = [subject EXCEPT ![c] = subject[c]]
    BY <2>1 DEF PerpTyped
  <2>5. PerpSubjects'
    BY <2>1, <2>4, MovesKeepSubjects DEF Fresh, InHand, Keeping, Liquidating
  <2>6. QED
    BY <2>2, <2>3, <2>5
<1>2. CASE ~(v > MaxLeverage \/ v = 0)
  <2> DEFINE p == [id |-> c, trader |-> t, size |-> s, long |-> b,
                   collateral |-> Collateral(s, v), leverage |-> v,
                   liquidation |-> LiquidationPrice(v, b)]
  <2>1. /\ at' = [at EXCEPT ![c] = "open_interest"] /\ at[c] = "idle"
        /\ subject' = [subject EXCEPT ![c] = p]
        /\ UNCHANGED <<positions, interest, fund, perpW, perpR, lifted>>
    BY <1>2 DEF OpenCheck, GoTo
  <2>2. p \in Position /\ p.id = c
    BY <1>2, PricesTyped DEF Position
  <2> HIDE DEF p
  <2>3. PerpTyped'
    BY <2>1, <2>2 DEF PerpTyped, PerpLabels, InFlight
  <2>4. PerpGuards'
    BY <2>1 DEF PerpTyped, PerpGuards
  <2>5. PerpSubjects'
    BY <2>1, <2>2, MovesKeepSubjects DEF Fresh, InHand, Keeping, Liquidating
  <2>6. QED
    BY <2>3, <2>4, <2>5
<1>3. QED
  BY <1>1, <1>2

LEMMA OpenInterestKinds ==
    ASSUME PerpKinds, NEW c \in PerpCalls, OpenInterest(c)
    PROVE  PerpKinds'
<1> USE DEF PerpKinds
<1>1. /\ at' = [at EXCEPT ![c] = "open_insert"] /\ at[c] = "open_interest"
      /\ interest' = [interest EXCEPT ![subject[c].long] = @ + subject[c].size]
      /\ UNCHANGED <<positions, fund, perpR, subject, lifted>>
  BY DEF OpenInterest, GoTo
<1>2. subject[c] \in Position /\ subject[c].id = c
  BY <1>1 DEF PerpSubjects, OpeningsOwn
<1>3. subject[c].size \in Nat /\ subject[c].long \in BOOLEAN
  BY <1>2, SizesAreNat DEF SizeOf, Position
<1>4. interest' \in [BOOLEAN -> Nat]
  BY <1>1, <1>3 DEF PerpTyped
<1>5. PerpTyped'
  BY <1>1, <1>4 DEF OpenInterest, PerpTyped, PerpLabels, InFlight, PerpLocks
<1>6. PerpGuards'
  BY PerpAssumption, SMTT(30) DEF OpenInterest, GoTo, PerpTyped, PerpGuards, PerpLocks, WriteFree
<1>7. subject' = [subject EXCEPT ![c] = subject[c]]
  BY <1>1 DEF PerpTyped
<1>8. PerpSubjects'
  BY <1>1, <1>2, <1>7, MovesKeepSubjects DEF Fresh, InHand, Keeping, Liquidating
<1>9. QED
  BY <1>5, <1>6, <1>8

(* The first stretches of close_position (perpetual.rs:168-192).            *)
LEMMA CloseFindKinds ==
    ASSUME PerpKinds, NEW c \in PerpCalls, NEW t \in Traders, NEW id \in PerpCalls,
           CloseFind(c, t, id)
    PROVE  PerpKinds'
<1> USE DEF PerpKinds
<1>0. PerpGuards'
  BY PerpAssumption DEF CloseFind, GoTo, PerpTyped, PerpGuards, PerpLocks, WriteFree
<1>1. CASE \E p \in Found(id) : p.trader = t
  <2>1. PICK p \in Found(id) : subject' = [subject EXCEPT ![c] = p]
    BY <1>1 DEF CloseFind
  <2>2. /\ at' = [at EXCEPT ![c] = "close_read"] /\ at[c] = "idle"
        /\ perpW' = [perpW EXCEPT !["positions"] = c]
        /\ UNCHANGED <<interest, positions, fund, perpR, lifted>>
    BY <1>1 DEF CloseFind, GoTo
  <2>3. p \in positions /\ p \in Position /\ at[p.id] \notin Fresh
    BY DEF Found, PerpTyped, PerpSubjects, IdsUsed
  <2>4. PerpTyped'
    BY <2>1, <2>2, <2>3 DEF PerpTyped, PerpLabels, InFlight, PerpLocks
  <2>5. PerpSubjects'
    BY <2>1, <2>2, <2>3, MovesKeepSubjects DEF Fresh, InHand, Keeping, Liquidating
  <2>6. QED
    BY <1>0, <2>4, <2>5
<1>2. CASE ~ \E p \in Found(id) : p.trader = t
  <2>1. /\ at' = [at EXCEPT ![c] = "failed"]
        /\ UNCHANGED <<subject, perpW, interest, positions, fund, perpR, lifted>>
    BY <1>2 DEF CloseFind, GoTo
  <2>2. PerpTyped'
    BY <2>1 DEF PerpTyped, PerpLabels
  <2>3. subject' = [subject EXCEPT ![c] = subject[c]]
    BY <2>1 DEF PerpTyped
  <2>4. PerpSubjects'
    BY <2>1, <2>3, MovesKeepSubjects DEF Fresh, InHand, Keeping, Liquidating
  <2>5. QED
    BY <1>0, <2>2, <2>4
<1>3. QED
  BY <1>1, <1>2

LEMMA CloseReadKinds ==
    ASSUME PerpKinds, NEW c \in PerpCalls, CloseRead(c)
    PROVE  PerpKinds'
<1> USE DEF PerpKinds
<1>1. /\ at' = [at EXCEPT ![c] = "close_write"] /\ at[c] = "close_read"
      /\ UNCHANGED <<interest, positions, fund, perpW, perpR, subject, lifted>>
  BY DEF CloseRead, GoTo
<1>2. subject[c] \in Position /\ at[subject[c].id] \notin Fresh /\ subject[c] \in positions
  BY <1>1 DEF PerpSubjects, HandsTyped, HandsKept, InHand, Keeping
<1>3. PerpTyped'
  BY <1>1 DEF PerpTyped, PerpLabels, InFlight
<1>4. PerpGuards'
  BY <1>1 DEF PerpTyped, PerpGuards
<1>5. subject' = [subject EXCEPT ![c] = subject[c]]
  BY <1>1 DEF PerpTyped
<1>6. PerpSubjects'
  BY <1>1, <1>2, <1>5, MovesKeepSubjects DEF Fresh, InHand, Keeping, Liquidating
<1>7. QED
  BY <1>3, <1>4, <1>6

(* The first stretches of liquidate_position (perpetual.rs:217-255).        *)
LEMMA LiquidateFindKinds ==
    ASSUME PerpKinds, NEW c \in PerpCalls, NEW id \in PerpCalls, LiquidateFind(c, id)
    PROVE  PerpKinds'
<1> USE DEF PerpKinds
<1>0. PerpGuards'
  BY PerpAssumption DEF LiquidateFind, GoTo, PerpTyped, PerpGuards, PerpLocks, ReadFree
<1>1. CASE Found(id) # {}
  <2>1. PICK p \in Found(id) : subject' = [subject EXCEPT ![c] = p]
    BY <1>1 DEF LiquidateFind
  <2>2. /\ at' = [at EXCEPT ![c] = "liquidate_check"] /\ at[c] = "idle"
        /\ perpR' = [perpR EXCEPT !["positions"] = @ \cup {c}]
        /\ UNCHANGED <<interest, positions, fund, perpW, lifted>>
    BY <1>1 DEF LiquidateFind, GoTo
  <2>3. p \in positions /\ p \in Position /\ at[p.id] \notin Fresh
    BY DEF Found, PerpTyped, PerpSubjects, IdsUsed
  <2>4. PerpTyped'
    BY <2>1, <2>2, <2>3 DEF PerpTyped, PerpLabels, InFlight, PerpLocks
  <2>5. PerpSubjects'
    BY <2>1, <2>2, <2>3, MovesKeepSubjects DEF Fresh, InHand, Keeping, Liquidating
  <2>6. QED
    BY <1>0, <2>4, <2>5
<1>2. CASE Found(id) = {}
  <2>1. /\ at' = [at EXCEPT ![c] = "failed"]
        /\ UNCHANGED <<subject, perpW, interest, positions, fund, perpR, lifted>>
    BY <1>2 DEF LiquidateFind, GoTo
  <2>2. PerpTyped'
    BY <2>1 DEF PerpTyped, PerpLabels
  <2>3. subject' = [subject EXCEPT ![c] = subject[c]]
    BY <2>1 DEF PerpTyped
  <2>4. PerpSubjects'
    BY <2>1, <2>3, MovesKeepSubjects DEF Fresh, InHand, Keeping, Liquidating
  <2>5. QED
    BY <1>0, <2>2, <2>4
<1>3. QED
  BY <1>1, <1>2

LEMMA LiquidateCheckKinds ==
    ASSUME PerpKinds, NEW c \in PerpCalls, LiquidateCheck(c)
    PROVE  PerpKinds'
<1> USE DEF PerpKinds
<1> DEFINE l == IF Liquidatable(subject[c]) THEN "liquidate_pay" ELSE "failed"
<1>1. /\ at' = [at EXCEPT ![c] = l] /\ at[c] = "liquidate_check"
      /\ perpR' = [perpR EXCEPT !["positions"] = @ \ {c}]
      /\ UNCHANGED <<interest, positions, fund, perpW, subject, lifted>>
  BY DEF LiquidateCheck, GoTo
<1>2. l \in {"liquidate_pay", "failed"}
  OBVIOUS
<1> HIDE DEF l
<1>3. subject[c] \in Position /\ at[subject[c].id] \notin Fresh /\ subject[c] \in positions
  BY <1>1 DEF PerpSubjects, HandsTyped, HandsKept, InHand, Keeping
<1>4. Matches(subject[c])
  BY <1>3 DEF PerpSubjects, UniqueIds, Matches
<1>5. PerpTyped'
  BY <1>1, <1>2 DEF PerpTyped, PerpLabels, InFlight, PerpLocks
<1>6. PerpGuards'
  BY <1>1, <1>2 DEF PerpTyped, PerpGuards, PerpLocks
<1>7. subject' = [subject EXCEPT ![c] = subject[c]]
  BY <1>1 DEF PerpTyped
<1>8. PerpSubjects'
  BY <1>1, <1>2, <1>3, <1>4, <1>7, MovesKeepSubjects DEF Fresh, InHand, Keeping, Liquidating
<1>9. QED
  BY <1>5, <1>6, <1>8

LEMMA LiquidatePayKinds ==
    ASSUME PerpKinds, NEW c \in PerpCalls, LiquidatePay(c)
    PROVE  PerpKinds'
<1> USE DEF PerpKinds
<1>1. /\ at' = [at EXCEPT ![c] = "liquidate_remove"] /\ at[c] = "liquidate_pay"
      /\ fund' = fund + Contribution(subject[c])
      /\ UNCHANGED <<interest, positions, perpW, perpR, subject, lifted>>
  BY DEF LiquidatePay, GoTo
<1>2. subject[c] \in Position /\ at[subject[c].id] \notin Fresh
  BY <1>1 DEF PerpSubjects, HandsTyped, InHand, Liquidating
<1>3. Matches(subject[c])
  BY <1>1 DEF PerpSubjects, HandsMatch, Liquidating
<1>4. fund' \in Nat
  BY <1>1, <1>2, ContributionIsNat DEF PerpTyped
<1>5. PerpTyped'
  BY <1>1, <1>4 DEF PerpTyped, PerpLabels, InFlight
<1>6. PerpGuards'
  BY <1>1 DEF PerpTyped, PerpGuards
<1>7. subject' = [subject EXCEPT ![c] = subject[c]]
  BY <1>1 DEF PerpTyped
<1>8. PerpSubjects'
  BY <1>1, <1>2, <1>3, <1>7, MovesKeepSubjects DEF Fresh, InHand, Keeping, Liquidating
<1>9. QED
  BY <1>5, <1>6, <1>8

(* A caller that gives up leaves positions and its subject.                 *)
LEMMA PerpGiveUpKinds ==
    ASSUME PerpKinds, NEW c \in PerpCalls, PerpGiveUp(c)
    PROVE  PerpKinds'
<1> USE DEF PerpKinds
<1>1. /\ at' = [at EXCEPT ![c] = "dropped"] /\ at[c] \in InFlight
      /\ UNCHANGED <<interest, positions, fund, subject>>
  BY DEF PerpGiveUp, GoTo
<1>2. lifted' \in [BOOLEAN -> Nat]
  <2>1. CASE at[c] = "open_insert"
    <3>1. subject[c] \in Position
      BY <2>1 DEF PerpSubjects, OpeningsOwn
    <3>2. subject[c].size \in Nat /\ subject[c].long \in BOOLEAN
      BY <3>1, SizesAreNat DEF SizeOf, Position
    <3>3. lifted' = [lifted EXCEPT ![subject[c].long] = @ + subject[c].size]
      BY <2>1 DEF PerpGiveUp
    <3>4. QED
      BY <3>2, <3>3 DEF PerpTyped
  <2>2. CASE at[c] # "open_insert"
    BY <2>2 DEF PerpGiveUp, PerpTyped
  <2>3. QED
    BY <2>1, <2>2
<1>3. PerpTyped'
  BY <1>1, <1>2 DEF PerpGiveUp, PerpTyped, PerpLabels, PerpLocks
<1>4. PerpGuards'
  BY PerpAssumption, SMTT(30) DEF PerpGiveUp, GoTo, PerpTyped, PerpGuards, PerpLocks, InFlight
<1>5. subject' = [subject EXCEPT ![c] = subject[c]]
  BY <1>1 DEF PerpTyped
<1>6. PerpSubjects'
  BY <1>1, <1>5, MovesKeepSubjects DEF Fresh, InHand, Keeping, Liquidating
<1>7. QED
  BY <1>3, <1>4, <1>6

-----------------------------------------------------------------------------
(* The stretches that write the positions: nobody else has one in hand then *)
(* that it still relies on.                                                 *)
LEMMA WriterAlone ==
    ASSUME PerpTyped, PerpGuards
    PROVE  /\ WriteFree("positions") => \A d \in PerpCalls : at[d] \notin Keeping
           /\ \A c \in PerpCalls : perpW["positions"] = c =>
                 \A d \in PerpCalls \ {c} : at[d] \notin Keeping
<1>1. PerpNobody \notin PerpCalls
  BY PerpAssumption
<1>2. ASSUME NEW d \in PerpCalls, at[d] \in Keeping
      PROVE  perpW["positions"] = d \/ d \in perpR["positions"]
  BY <1>2 DEF Keeping, PerpGuards
<1>3. QED
  BY <1>1, <1>2 DEF PerpGuards, WriteFree

LEMMA OpenInsertKinds ==
    ASSUME PerpKinds, NEW c \in PerpCalls, OpenInsert(c)
    PROVE  PerpKinds'
<1> USE DEF PerpKinds
<1> DEFINE p == subject[c]
<1>1. /\ at' = [at EXCEPT ![c] = "open_funding"] /\ at[c] = "open_insert"
      /\ positions' = positions \cup {p} /\ WriteFree("positions")
      /\ UNCHANGED <<interest, fund, perpR, subject, lifted>>
  BY DEF OpenInsert, GoTo
<1>2. p \in Position /\ p.id = c
  BY <1>1 DEF PerpSubjects, OpeningsOwn
<1>3. at[c] \in Fresh /\ \A d \in PerpCalls : at[d] \notin Keeping
  BY <1>1, WriterAlone DEF Fresh
<1>4. IsFiniteSet(positions')
  BY <1>1, FS_AddElement DEF PerpTyped
<1>5. PerpTyped'
  BY <1>1, <1>2, <1>4 DEF OpenInsert, PerpTyped, PerpLabels, InFlight, PerpLocks
<1>6. PerpGuards'
  BY PerpAssumption, SMTT(30) DEF OpenInsert, GoTo, PerpTyped, PerpGuards, PerpLocks, WriteFree
<1>7. /\ at'[c] = "open_funding" /\ \A d \in PerpCalls \ {c} : at'[d] = at[d]
      /\ \A d \in PerpCalls : at[d] \notin Fresh => at'[d] \notin Fresh
  BY <1>1 DEF PerpTyped, Fresh
<1>8. \A q \in Position : q.id \in PerpCalls
  BY DEF Position
<1>9. \A q \in positions : q \in Position /\ q.id # c
  BY <1>3 DEF PerpSubjects, PerpTyped, IdsUsed
<1>10. UniqueIds'
  BY <1>1, <1>2, <1>9 DEF PerpSubjects, UniqueIds
<1>11. IdsUsed'
  BY <1>1, <1>2, <1>7, <1>8, <1>9 DEF PerpSubjects, IdsUsed, Fresh
<1>12. OpeningsOwn'
  BY <1>1, <1>7 DEF PerpSubjects, OpeningsOwn
<1>13. \A d \in PerpCalls : at'[d] \in InHand =>
          at[d] \in InHand /\ d # c /\ at[subject[d].id] \notin Fresh /\ subject[d].id # c
  BY <1>3, <1>7 DEF PerpSubjects, HandsTyped, InHand, Keeping, Liquidating
<1>14. HandsTyped'
  BY <1>1, <1>7, <1>8, <1>13 DEF PerpSubjects, HandsTyped
<1>15. HandsKept'
  BY <1>3, <1>7 DEF HandsKept, Keeping
<1>16. HandsMatch'
  <2>1. ASSUME NEW d \in PerpCalls, at'[d] \in Liquidating PROVE Matches(subject[d])'
    <3>1. at'[d] \in InHand /\ d # c
      BY <2>1, <1>7 DEF InHand, Liquidating
    <3>2. at[d] \in Liquidating
      BY <2>1, <3>1, <1>7
    <3>3. Matches(subject[d])
      BY <3>2 DEF PerpSubjects, HandsMatch
    <3>4. QED
      BY <1>1, <1>2, <1>13, <3>1, <3>3 DEF Matches
  <2>2. QED
    BY <2>1 DEF HandsMatch
<1>17. PaidBackOnce'
  <2>1. \A d \in PerpCalls : at'[d] \in {"closed", "liquidated"} => at'[d] = at[d] /\ at'[d] \in InHand
    BY <1>7 DEF InHand
  <2>2. QED
    BY <2>1, <1>1, <1>2, <1>13 DEF PerpSubjects, PaidBackOnce, Found
<1>18. QED
  BY <1>5, <1>6, <1>10, <1>11, <1>12, <1>14, <1>15, <1>16, <1>17 DEF PerpSubjects

(* Where positions only go, by id, those that ended before stay ended, and  *)
(* the one that takes a position out ends.                                  *)
LEMMA RemovalKeepsSubjects ==
    ASSUME PerpTyped, PerpSubjects, NEW c \in PerpCalls, NEW l \in {"closed", "liquidated"},
           at[c] \in {"close_write", "liquidate_remove"},
           l = "closed" => at[c] = "close_write",
           at' = [at EXCEPT ![c] = l], subject' = subject,
           positions' = positions \ Found(subject[c].id),
           \A d \in PerpCalls \ {c} : at[d] \notin Keeping
    PROVE  PerpSubjects'
<1>1. /\ at'[c] = l /\ \A d \in PerpCalls \ {c} : at'[d] = at[d]
      /\ \A d \in PerpCalls : at[d] \notin Fresh => at'[d] \notin Fresh
  BY DEF PerpTyped, Fresh
<1>2. \A q \in Position : q.id \in PerpCalls
  BY DEF Position
<1>3. positions' \subseteq positions /\ positions \subseteq Position
  BY DEF PerpTyped
<1>4. UniqueIds' /\ IdsUsed'
  BY <1>1, <1>2, <1>3 DEF PerpSubjects, UniqueIds, IdsUsed
<1>5. OpeningsOwn'
  BY <1>1 DEF PerpSubjects, OpeningsOwn
<1>6. HandsTyped'
  <2>1. at[c] \in InHand
    BY DEF InHand, Keeping, Liquidating
  <2>2. QED
    BY <2>1, <1>1, <1>2 DEF PerpSubjects, HandsTyped
<1>7. HandsKept'
  BY <1>1 DEF HandsKept, Keeping
<1>8. HandsMatch'
  BY <1>1, <1>3 DEF PerpSubjects, HandsMatch, Matches, Liquidating
<1>9. PaidBackOnce'
  <2>1. \A i : Found(i)' \subseteq Found(i)
    BY <1>3 DEF Found
  <2>2. Found(subject[c].id)' = {}
    BY DEF Found
  <2>3. ASSUME NEW d \in PerpCalls \ {c}, at[d] = "closed", l = "closed",
               subject[d].id = subject[c].id
        PROVE  FALSE
    <3>1. Found(subject[d].id) = {}
      BY <2>3 DEF PerpSubjects, PaidBackOnce
    <3>2. subject[c] \in positions
      BY <2>3 DEF PerpSubjects, HandsKept, Keeping
    <3>3. QED
      BY <2>3, <3>1, <3>2 DEF Found
  <2>4. QED
    BY <1>1, <2>1, <2>2, <2>3 DEF PerpSubjects, PaidBackOnce
<1>10. QED
  BY <1>4, <1>5, <1>6, <1>7, <1>8, <1>9 DEF PerpSubjects

LEMMA MaxOfZero ==
    ASSUME NEW x \in Int
    PROVE  Max({0, x}) \in Nat /\ Max({0, x}) = IF x > 0 THEN x ELSE 0
<1>1. \E m \in {0, x} : \A z \in {0, x} : m >= z
  OBVIOUS
<1>2. Max({0, x}) \in {0, x} /\ \A z \in {0, x} : Max({0, x}) >= z
  BY <1>1 DEF Max
<1>3. QED
  BY <1>2

LEMMA CloseWriteKinds ==
    ASSUME PerpKinds, NEW c \in PerpCalls, CloseWrite(c)
    PROVE  PerpKinds'
<1> USE DEF PerpKinds
<1> DEFINE p == subject[c]
<1>1. /\ at' = [at EXCEPT ![c] = "closed"] /\ at[c] = "close_write"
      /\ interest' = [interest EXCEPT ![p.long] = Max({0, @ - p.size})]
      /\ positions' = positions \ Found(p.id)
      /\ UNCHANGED <<fund, perpR, subject, lifted>>
  BY DEF CloseWrite, GoTo
<1>2. p \in Position
  BY <1>1 DEF PerpSubjects, HandsTyped, InHand, Keeping
<1>3. p.size \in Nat /\ p.long \in BOOLEAN
  BY <1>2, SizesAreNat DEF SizeOf, Position
<1>4. Max({0, interest[p.long] - p.size}) \in Nat
  <2>1. interest[p.long] - p.size \in Int
    BY <1>3 DEF PerpTyped
  <2>2. QED
    BY <2>1, MaxOfZero
<1>5. IsFiniteSet(positions') /\ positions' \subseteq Position
  BY <1>1, FS_Subset DEF PerpTyped
<1>6. PerpTyped'
  <2>1. interest' \in [BOOLEAN -> Nat]
    BY <1>1, <1>3, <1>4 DEF PerpTyped
  <2>2. perpW' \in [PerpLocks -> PerpCalls \cup {PerpNobody}]
    BY DEF CloseWrite, PerpTyped, PerpLocks
  <2>3. QED
    BY <1>1, <1>5, <2>1, <2>2 DEF PerpTyped, PerpLabels
<1>7. PerpGuards'
  BY PerpAssumption, SMTT(30) DEF CloseWrite, GoTo, PerpTyped, PerpGuards, PerpLocks
<1>8. \A d \in PerpCalls \ {c} : at[d] \notin Keeping
  BY <1>1, WriterAlone DEF PerpGuards
<1>9. PerpSubjects'
  BY <1>1, <1>8, RemovalKeepsSubjects
<1>10. QED
  BY <1>6, <1>7, <1>9

LEMMA LiquidateRemoveKinds ==
    ASSUME PerpKinds, NEW c \in PerpCalls, LiquidateRemove(c)
    PROVE  PerpKinds'
<1> USE DEF PerpKinds
<1> DEFINE p == subject[c]
<1>1. /\ at' = [at EXCEPT ![c] = "liquidated"] /\ at[c] = "liquidate_remove"
      /\ positions' = positions \ Found(p.id) /\ WriteFree("positions")
      /\ lifted' = IF Found(p.id) # {} THEN [lifted EXCEPT ![p.long] = @ + p.size] ELSE lifted
      /\ UNCHANGED <<interest, fund, perpW, perpR, subject>>
  BY DEF LiquidateRemove, GoTo
<1>2. p \in Position
  BY <1>1 DEF PerpSubjects, HandsTyped, InHand, Liquidating
<1>3. p.size \in Nat /\ p.long \in BOOLEAN
  BY <1>2, SizesAreNat DEF SizeOf, Position
<1>4. lifted' \in [BOOLEAN -> Nat]
  BY <1>1, <1>3 DEF PerpTyped
<1>5. IsFiniteSet(positions') /\ positions' \subseteq Position
  BY <1>1, FS_Subset DEF PerpTyped
<1>6. PerpTyped'
  BY <1>1, <1>4, <1>5 DEF PerpTyped, PerpLabels
<1>7. PerpGuards'
  BY <1>1 DEF PerpTyped, PerpGuards
<1>8. \A d \in PerpCalls \ {c} : at[d] \notin Keeping
  BY <1>1, WriterAlone
<1>9. PerpSubjects'
  BY <1>1, <1>8, RemovalKeepsSubjects
<1>10. QED
  BY <1>6, <1>7, <1>9

(* Where one position is rewritten under its id, side and size, and no      *)
(* other call relies on it.                                                 *)
LEMMA RewriteKeepsSubjects ==
    ASSUME PerpTyped, PerpSubjects, NEW c \in PerpCalls, NEW l \in {"collateral_price", "done"},
           at[c] \in {"idle", "collateral_price"},
           NEW p \in positions, NEW q \in Position, q.id = p.id, q.size = p.size, q.long = p.long,
           NEW r, l = "collateral_price" => r = q,
           at' = [at EXCEPT ![c] = l], subject' = [subject EXCEPT ![c] = r],
           positions' = (positions \ {p}) \cup {q},
           \A d \in PerpCalls \ {c} : at[d] \notin Keeping
    PROVE  PerpSubjects'
<1>1. /\ at'[c] = l /\ \A d \in PerpCalls \ {c} : at'[d] = at[d]
      /\ \A d \in PerpCalls : at[d] \notin Fresh => at'[d] \notin Fresh
      /\ subject'[c] = r /\ \A d \in PerpCalls \ {c} : subject'[d] = subject[d]
  BY DEF PerpTyped, Fresh
<1>2. /\ \A x \in Position : x.id \in PerpCalls
      /\ \A x \in positions : x \in Position /\ at[x.id] \notin Fresh
  BY DEF Position, PerpTyped, PerpSubjects, IdsUsed
<1>3. \A x \in positions' : \E y \in positions : y.id = x.id /\ y.size = x.size /\ y.long = x.long
  OBVIOUS
<1>4. UniqueIds'
  BY DEF PerpSubjects, UniqueIds
<1>5. IdsUsed'
  BY <1>1, <1>2, <1>3 DEF IdsUsed
<1>6. OpeningsOwn'
  BY <1>1 DEF PerpSubjects, OpeningsOwn
<1>7. HandsTyped'
  BY <1>1, <1>2 DEF PerpSubjects, HandsTyped, InHand, Keeping, Liquidating
<1>8. HandsKept'
  BY <1>1 DEF HandsKept, Keeping
<1>9. HandsMatch'
  <2>1. ASSUME NEW d \in PerpCalls, at'[d] \in Liquidating PROVE Matches(subject[d])'
    <3>1. d # c /\ at[d] \in Liquidating /\ subject'[d] = subject[d]
      BY <2>1, <1>1 DEF Liquidating
    <3>2. Matches(subject[d])
      BY <3>1 DEF PerpSubjects, HandsMatch
    <3>3. QED
      BY <3>1, <3>2, <1>3 DEF Matches
  <2>2. QED
    BY <2>1 DEF HandsMatch
<1>10. PaidBackOnce'
  <2>1. \A i : Found(i) = {} => Found(i)' = {}
    BY <1>3 DEF Found
  <2>2. QED
    BY <1>1, <2>1 DEF PerpSubjects, PaidBackOnce
<1>11. QED
  BY <1>4, <1>5, <1>6, <1>7, <1>8, <1>9, <1>10 DEF PerpSubjects

LEMMA CollateralAddKinds ==
    ASSUME PerpKinds, NEW c \in PerpCalls, NEW t \in Traders, NEW id \in PerpCalls, NEW s \in Sizes,
           CollateralAdd(c, t, id, s)
    PROVE  PerpKinds'
<1> USE DEF PerpKinds
<1>0. PerpGuards'
  BY PerpAssumption DEF CollateralAdd, GoTo, PerpTyped, PerpGuards, PerpLocks, WriteFree
<1>1. CASE \E p \in Found(id) : p.trader = t
  <2>1. PICK p \in Found(id) :
           /\ positions' = (positions \ {p}) \cup {[p EXCEPT !.collateral = @ + s]}
           /\ subject' = [subject EXCEPT ![c] = [p EXCEPT !.collateral = @ + s]]
           /\ perpW' = [perpW EXCEPT !["positions"] = c]
           /\ at' = [at EXCEPT ![c] = "collateral_price"]
    BY <1>1 DEF CollateralAdd, GoTo
  <2> DEFINE q == [p EXCEPT !.collateral = @ + s]
  <2>2. /\ at[c] = "idle" /\ WriteFree("positions")
        /\ UNCHANGED <<interest, fund, perpR, lifted>>
    BY DEF CollateralAdd
  <2>3. p \in positions /\ p \in Position
    BY DEF Found, PerpTyped
  <2>4. p.collateral + s \in Nat
    <3>1. s \in Nat
      BY PerpAssumption
    <3>2. QED
      BY <2>3, <3>1 DEF Position
  <2>5. q \in Position /\ q.id = p.id /\ q.size = p.size /\ q.long = p.long
    BY <2>3, <2>4 DEF Position
  <2>6. positions' = (positions \ {p}) \cup {q} /\ subject' = [subject EXCEPT ![c] = q]
    BY <2>1
  <2> HIDE DEF q
  <2>7. IsFiniteSet(positions')
    BY <2>6, FS_RemoveElement, FS_AddElement DEF PerpTyped
  <2>8. PerpTyped'
    BY <2>1, <2>2, <2>5, <2>6, <2>7 DEF PerpTyped, PerpLabels, InFlight, PerpLocks
  <2>9. \A d \in PerpCalls \ {c} : at[d] \notin Keeping
    BY <2>2, WriterAlone
  <2>10. PerpSubjects'
    <3>1. at' = [at EXCEPT ![c] = "collateral_price"] /\ at[c] = "idle"
      BY <2>1, <2>2
    <3>2. QED
      BY <2>3, <2>5, <2>6, <2>9, <3>1, RewriteKeepsSubjects
  <2>11. QED
    BY <1>0, <2>8, <2>10
<1>2. CASE ~ \E p \in Found(id) : p.trader = t
  <2>1. /\ at' = [at EXCEPT ![c] = "failed"]
        /\ UNCHANGED <<subject, perpW, interest, positions, fund, perpR, lifted>>
    BY <1>2 DEF CollateralAdd, GoTo
  <2>2. PerpTyped'
    BY <2>1 DEF PerpTyped, PerpLabels
  <2>3. subject' = [subject EXCEPT ![c] = subject[c]]
    BY <2>1 DEF PerpTyped
  <2>4. PerpSubjects'
    BY <2>1, <2>3, MovesKeepSubjects DEF Fresh, InHand, Keeping, Liquidating
  <2>5. QED
    BY <1>0, <2>2, <2>4
<1>3. QED
  BY <1>1, <1>2

LEMMA CollateralPriceKinds ==
    ASSUME PerpKinds, NEW c \in PerpCalls, CollateralPrice(c)
    PROVE  PerpKinds'
<1> USE DEF PerpKinds
<1> DEFINE p == subject[c]
           q == [p EXCEPT !.liquidation = LiquidationPrice(p.leverage, p.long)]
<1>1. /\ at' = [at EXCEPT ![c] = "done"] /\ at[c] = "collateral_price"
      /\ positions' = (positions \ {p}) \cup {q}
      /\ UNCHANGED <<interest, fund, perpR, subject, lifted>>
  BY DEF CollateralPrice, GoTo
<1>2. p \in positions /\ p \in Position
  BY <1>1 DEF PerpSubjects, HandsTyped, HandsKept, InHand, Keeping
<1>3. LiquidationPrice(p.leverage, p.long) \in Int
  <2>1. p.leverage \in Leverages /\ p.leverage # 0 /\ p.long \in BOOLEAN /\ p.size \in Sizes
    BY <1>2 DEF Position
  <2>2. QED
    BY <2>1, PricesTyped
<1>4. q \in Position /\ q.id = p.id /\ q.size = p.size /\ q.long = p.long
  BY <1>2, <1>3 DEF Position
<1> HIDE DEF q
<1>5. IsFiniteSet(positions')
  BY <1>1, FS_RemoveElement, FS_AddElement DEF PerpTyped
<1>6. PerpTyped'
  BY <1>1, <1>4, <1>5 DEF CollateralPrice, PerpTyped, PerpLabels, PerpLocks
<1>7. PerpGuards'
  BY PerpAssumption, SMTT(30) DEF CollateralPrice, GoTo, PerpTyped, PerpGuards, PerpLocks
<1>8. \A d \in PerpCalls \ {c} : at[d] \notin Keeping
  BY <1>1, WriterAlone DEF PerpGuards
<1>9. subject' = [subject EXCEPT ![c] = p]
  BY <1>1 DEF PerpTyped
<1>10. PerpSubjects'
  BY <1>1, <1>2, <1>4, <1>8, <1>9, RewriteKeepsSubjects
<1>11. QED
  BY <1>6, <1>7, <1>10

-----------------------------------------------------------------------------
(* The open interest, side by side: what the sums become when a position    *)
(* comes, goes or is rewritten.                                             *)

Balance(b) == SumFunctionOnSet(SizeOf, Side(b)) + lifted[b] + Pending(b)

LEMMA Balanced == PerpTyped => (InterestAccounts <=> \A b \in BOOLEAN : interest[b] = Balance(b))
<1> SUFFICES ASSUME PerpTyped, NEW b \in BOOLEAN
             PROVE  SizeSum(Side(b)) = SumFunctionOnSet(SizeOf, Side(b))
  BY DEF InterestAccounts, Balance, Pending
<1>1. QED
  BY SidesAdd DEF SidesSummed

LEMMA BalancedNext ==
    PerpTyped' => (InterestAccounts' <=> \A b \in BOOLEAN : interest'[b] = Balance(b)')
<1>1. PerpTyped' => (InterestAccounts' <=> (\A b \in BOOLEAN : interest[b] = Balance(b))')
  BY Balanced, PTL
<1>2. QED
  BY <1>1

LEMMA PositionAdded ==
    ASSUME NEW V, IsFiniteSet(V), V \subseteq Position, NEW p \in Position, p \notin V
    PROVE  SumFunctionOnSet(SizeOf, V \cup {p}) = SumFunctionOnSet(SizeOf, V) + p.size
<1>1. \A x \in V \cup {p} : SizeOf[x] \in Int
  BY SizesAreNat
<1>2. SumFunctionOnSet(SizeOf, V \cup {p}) = SizeOf[p] + SumFunctionOnSet(SizeOf, V)
  BY <1>1, SumAdd
<1>3. SumFunctionOnSet(SizeOf, V) \in Int
  BY <1>1, SumStep
<1>4. SizeOf[p] = p.size /\ SizeOf[p] \in Int
  BY SizesAreNat
<1>5. QED
  BY <1>2, <1>3, <1>4

LEMMA PositionRemoved ==
    ASSUME NEW V, IsFiniteSet(V), V \subseteq Position, NEW p \in V
    PROVE  /\ SumFunctionOnSet(SizeOf, V) = SumFunctionOnSet(SizeOf, V \ {p}) + p.size
           /\ SumFunctionOnSet(SizeOf, V \ {p}) \in Nat
<1>1. IsFiniteSet(V \ {p}) /\ V \ {p} \subseteq Position /\ p \in Position
  BY FS_RemoveElement
<1>2. SumFunctionOnSet(SizeOf, (V \ {p}) \cup {p}) = SumFunctionOnSet(SizeOf, V \ {p}) + p.size
  BY <1>1, PositionAdded
<1>3. (V \ {p}) \cup {p} = V
  OBVIOUS
<1>4. SumFunctionOnSet(SizeOf, V \ {p}) \in Nat
  BY <1>1, SizesAreNat, SumNat
<1>5. QED
  BY <1>2, <1>3, <1>4

(* open_position adds to the interest before it inserts                     *)
(* (perpetual.rs:150-159).                                                  *)
LEMMA OpenInterestAccounts ==
    ASSUME PerpInv, NEW c \in PerpCalls, OpenInterest(c)
    PROVE  InterestAccounts'
<1> DEFINE p == subject[c]
<1>0. PerpTyped /\ PerpKinds /\ PerpKinds' /\ PerpTyped'
  BY OpenInterestKinds DEF PerpInv, PerpKinds
<1>1. /\ at' = [at EXCEPT ![c] = "open_insert"] /\ at[c] = "open_interest"
      /\ WriteFree("markets")
      /\ interest' = [interest EXCEPT ![p.long] = @ + p.size]
      /\ UNCHANGED <<positions, lifted, subject>>
  BY DEF OpenInterest, GoTo
<1>2. p \in Position
  BY <1>0, <1>1 DEF PerpKinds, PerpSubjects, OpeningsOwn
<1>3. p.size \in Nat /\ p.long \in BOOLEAN
  BY <1>2, SizesAreNat DEF SizeOf, Position
<1>4. ASSUME NEW b \in BOOLEAN PROVE interest'[b] = Balance(b)'
  <2>1. Side(b)' = Side(b)
    BY <1>1 DEF Side
  <2>2. Pending(b) = 0
    BY <1>0, <1>1, OpeningAlone DEF PendingAlone, WriteFree
  <2>3. at'[c] = "open_insert" /\ subject'[c] = p
    BY <1>0, <1>1 DEF PerpTyped
  <2>4. Pending(b)' = IF p.long = b THEN p.size ELSE 0
    BY <1>0, <2>3, OpeningAloneNext DEF PendingAlone
  <2>5. interest[b] = Balance(b) /\ interest[b] \in Nat /\ lifted[b] \in Nat
    BY <1>0, Balanced DEF PerpInv, PerpTyped
  <2>6. interest'[b] = IF p.long = b THEN interest[b] + p.size ELSE interest[b]
    BY <1>0, <1>1, <1>3 DEF PerpTyped
  <2>7. SumFunctionOnSet(SizeOf, Side(b)) \in Nat
    BY <1>0, SidesAdd DEF SidesSummed
  <2>8. QED
    BY <1>1, <1>3, <2>1, <2>2, <2>4, <2>5, <2>6, <2>7 DEF Balance
<1>5. QED
  BY <1>0, <1>4, BalancedNext

LEMMA OpenInsertAccounts ==
    ASSUME PerpInv, NEW c \in PerpCalls, OpenInsert(c)
    PROVE  InterestAccounts'
<1> DEFINE p == subject[c]
<1>0. PerpTyped /\ PerpKinds /\ PerpKinds' /\ PerpTyped'
  BY OpenInsertKinds DEF PerpInv, PerpKinds
<1>1. /\ at' = [at EXCEPT ![c] = "open_funding"] /\ at[c] = "open_insert"
      /\ positions' = positions \cup {p}
      /\ UNCHANGED <<interest, lifted, subject>>
  BY DEF OpenInsert, GoTo
<1>2. p \in Position /\ p.id = c
  BY <1>0, <1>1 DEF PerpKinds, PerpSubjects, OpeningsOwn
<1>3. p.size \in Nat /\ p.long \in BOOLEAN
  BY <1>2, SizesAreNat DEF SizeOf, Position
<1>4. p \notin positions
  BY <1>0, <1>1, <1>2 DEF PerpKinds, PerpSubjects, IdsUsed, Fresh
<1>5. \A d \in PerpCalls : at'[d] # "open_insert"
  <2>1. at'[c] = "open_funding" /\ \A d \in PerpCalls \ {c} : at'[d] = at[d]
    BY <1>0, <1>1 DEF PerpTyped
  <2>2. \A d \in PerpCalls : at[d] = "open_insert" => d = c
    BY <1>0, <1>1 DEF PerpKinds, PerpGuards
  <2>3. QED
    BY <2>1, <2>2
<1>6. ASSUME NEW b \in BOOLEAN PROVE interest'[b] = Balance(b)'
  <2>1. Side(b)' = IF p.long = b THEN Side(b) \cup {p} ELSE Side(b)
    BY <1>1 DEF Side
  <2>2. Pending(b) = IF p.long = b THEN p.size ELSE 0
    BY <1>0, <1>1, OpeningAlone DEF PendingAlone
  <2>3. Pending(b)' = 0
    BY <1>0, <1>5, OpeningAloneNext DEF PendingAlone
  <2>4. interest[b] = Balance(b) /\ interest[b] \in Nat /\ lifted[b] \in Nat
    BY <1>0, Balanced DEF PerpInv, PerpTyped
  <2>5. /\ SumFunctionOnSet(SizeOf, Side(b)) \in Nat
        /\ IsFiniteSet(Side(b)) /\ Side(b) \subseteq Position /\ p \notin Side(b)
    BY <1>0, <1>4, SidesAdd DEF SidesSummed, Side
  <2>6. SumFunctionOnSet(SizeOf, Side(b) \cup {p}) = SumFunctionOnSet(SizeOf, Side(b)) + p.size
    BY <1>2, <2>5, PositionAdded
  <2>7. QED
    BY <1>1, <1>3, <2>1, <2>2, <2>3, <2>4, <2>5, <2>6 DEF Balance
<1>7. QED
  BY <1>0, <1>6, BalancedNext

(* close_position takes off what the position added (perpetual.rs:194-203). *)
LEMMA CloseWriteAccounts ==
    ASSUME PerpInv, NEW c \in PerpCalls, CloseWrite(c)
    PROVE  InterestAccounts'
<1> DEFINE p == subject[c]
<1>0. PerpTyped /\ PerpKinds /\ PerpKinds' /\ PerpTyped'
  BY CloseWriteKinds DEF PerpInv, PerpKinds
<1>1. /\ at' = [at EXCEPT ![c] = "closed"] /\ at[c] = "close_write"
      /\ WriteFree("markets")
      /\ interest' = [interest EXCEPT ![p.long] = Max({0, @ - p.size})]
      /\ positions' = positions \ Found(p.id)
      /\ UNCHANGED <<lifted, subject>>
  BY DEF CloseWrite, GoTo
<1>2. p \in Position /\ p \in positions
  BY <1>0, <1>1 DEF PerpKinds, PerpSubjects, HandsTyped, HandsKept, InHand, Keeping
<1>3. p.size \in Nat /\ p.long \in BOOLEAN
  BY <1>2, SizesAreNat DEF SizeOf, Position
<1>4. Found(p.id) = {p}
  BY <1>0, <1>2 DEF PerpKinds, PerpSubjects, UniqueIds, Found
<1>5. \A d \in PerpCalls : at'[d] # "open_insert"
  <2>1. \A d \in PerpCalls : at[d] # "open_insert"
    BY <1>0, <1>1, PerpAssumption DEF PerpKinds, PerpGuards, WriteFree
  <2>2. QED
    BY <2>1, <1>0, <1>1 DEF PerpTyped
<1>6. ASSUME NEW b \in BOOLEAN PROVE interest'[b] = Balance(b)'
  <2>1. Side(b)' = IF p.long = b THEN Side(b) \ {p} ELSE Side(b)
    BY <1>1, <1>4 DEF Side
  <2>2. Pending(b) = 0
    BY <1>0, <1>1, OpeningAlone DEF PendingAlone, WriteFree
  <2>3. Pending(b)' = 0
    BY <1>0, <1>5, OpeningAloneNext DEF PendingAlone
  <2>4. interest[b] = Balance(b) /\ interest[b] \in Nat /\ lifted[b] \in Nat
    BY <1>0, Balanced DEF PerpInv, PerpTyped
  <2>5. /\ SumFunctionOnSet(SizeOf, Side(b)) \in Nat
        /\ IsFiniteSet(Side(b)) /\ Side(b) \subseteq Position
    BY <1>0, SidesAdd DEF SidesSummed
  <2>6. CASE p.long = b
    <3>1. p \in Side(b)
      BY <1>2, <2>6 DEF Side
    <3>2. /\ SumFunctionOnSet(SizeOf, Side(b)) = SumFunctionOnSet(SizeOf, Side(b) \ {p}) + p.size
          /\ SumFunctionOnSet(SizeOf, Side(b) \ {p}) \in Nat
      BY <2>5, <3>1, PositionRemoved
    <3>3. interest[b] - p.size = SumFunctionOnSet(SizeOf, Side(b) \ {p}) + lifted[b]
      BY <1>3, <2>2, <2>4, <3>2 DEF Balance
    <3>4. interest[b] - p.size \in Nat
      BY <2>4, <3>2, <3>3
    <3>5. Max({0, interest[b] - p.size}) = interest[b] - p.size
      BY <3>4, MaxOfZero
    <3>6. interest'[b] = interest[b] - p.size
      BY <1>0, <1>1, <2>6, <3>5 DEF PerpTyped
    <3>7. QED
      BY <1>1, <2>1, <2>3, <2>4, <2>6, <3>2, <3>3, <3>6 DEF Balance
  <2>7. CASE p.long # b
    <3>1. interest'[b] = interest[b]
      BY <1>0, <1>1, <1>3, <2>7 DEF PerpTyped
    <3>2. QED
      BY <1>1, <2>1, <2>2, <2>3, <2>4, <2>7, <3>1 DEF Balance
  <2>8. QED
    BY <2>6, <2>7
<1>7. QED
  BY <1>0, <1>6, BalancedNext

(* liquidate_position leaves the interest of what it removes               *)
(* (perpetual.rs:252-258).                                                  *)
LEMMA LiquidateRemoveAccounts ==
    ASSUME PerpInv, NEW c \in PerpCalls, LiquidateRemove(c)
    PROVE  InterestAccounts'
<1> DEFINE p == subject[c]
<1>0. PerpTyped /\ PerpKinds /\ PerpKinds' /\ PerpTyped'
  BY LiquidateRemoveKinds DEF PerpInv, PerpKinds
<1>1. /\ at' = [at EXCEPT ![c] = "liquidated"] /\ at[c] = "liquidate_remove"
      /\ positions' = positions \ Found(p.id)
      /\ lifted' = IF Found(p.id) # {} THEN [lifted EXCEPT ![p.long] = @ + p.size] ELSE lifted
      /\ UNCHANGED <<interest, subject>>
  BY DEF LiquidateRemove, GoTo
<1>2. p \in Position /\ Matches(p)
  BY <1>0, <1>1 DEF PerpKinds, PerpSubjects, HandsTyped, HandsMatch, InHand, Liquidating
<1>3. p.size \in Nat /\ p.long \in BOOLEAN
  BY <1>2, SizesAreNat DEF SizeOf, Position
<1>4. \A d \in PerpCalls : /\ at'[d] = "open_insert" <=> at[d] = "open_insert"
                           /\ subject'[d] = subject[d]
  BY <1>0, <1>1 DEF PerpTyped
<1>5. \A b \in BOOLEAN : Pending(b)' = Pending(b)
  <2>1. ASSUME NEW b \in BOOLEAN PROVE Opening(b)' = Opening(b)
    BY <1>4 DEF Opening
  <2>2. QED
    BY <1>1, <2>1 DEF Pending
<1>6. CASE Found(p.id) = {}
  <2>1. positions' = positions /\ lifted' = lifted
    BY <1>1, <1>6
  <2>2. QED
    BY <1>1, <1>4, <2>1, AccountsUntouched
<1>7. CASE Found(p.id) # {}
  <2>1. PICK q : Found(p.id) = {q}
    BY <1>0, <1>7 DEF PerpKinds, PerpSubjects, UniqueIds, Found
  <2>2. /\ q \in positions /\ q \in Position /\ q.size = p.size /\ q.long = p.long
    <3>1. q \in Found(p.id)
      BY <2>1
    <3>2. QED
      BY <3>1, <1>0, <1>2 DEF Found, Matches, PerpTyped
  <2>3. ASSUME NEW b \in BOOLEAN PROVE interest'[b] = Balance(b)'
    <3>1. Side(b)' = IF p.long = b THEN Side(b) \ {q} ELSE Side(b)
      BY <1>1, <2>1, <2>2 DEF Side
    <3>2. interest[b] = Balance(b) /\ interest[b] \in Nat /\ lifted[b] \in Nat
      BY <1>0, Balanced DEF PerpInv, PerpTyped
    <3>3. /\ SumFunctionOnSet(SizeOf, Side(b)) \in Nat
          /\ IsFiniteSet(Side(b)) /\ Side(b) \subseteq Position
      BY <1>0, SidesAdd DEF SidesSummed
    <3>4. Pending(b) \in Nat
      BY <1>0, OpeningAlone DEF PendingAlone
    <3>5. CASE p.long = b
      <4>1. q \in Side(b)
        BY <2>2, <3>5 DEF Side
      <4>2. /\ SumFunctionOnSet(SizeOf, Side(b)) = SumFunctionOnSet(SizeOf, Side(b) \ {q}) + q.size
            /\ SumFunctionOnSet(SizeOf, Side(b) \ {q}) \in Nat
        BY <3>3, <4>1, PositionRemoved
      <4>3. lifted'[b] = lifted[b] + p.size
        BY <1>0, <1>1, <1>7, <3>5 DEF PerpTyped
      <4>4. QED
        BY <1>1, <1>3, <1>5, <2>2, <3>1, <3>2, <3>4, <3>5, <4>2, <4>3 DEF Balance
    <3>6. CASE p.long # b
      <4>1. lifted'[b] = lifted[b]
        BY <1>0, <1>1, <1>3, <3>6 DEF PerpTyped
      <4>2. QED
        BY <1>1, <1>5, <3>1, <3>2, <3>6, <4>1 DEF Balance
    <3>7. QED
      BY <3>5, <3>6
  <2>4. QED
    BY <1>0, <2>3, BalancedNext
<1>8. QED
  BY <1>6, <1>7

(* A position rewritten under its side and size counts the same.            *)
LEMMA RewriteAccounts ==
    ASSUME PerpInv, PerpTyped', UNCHANGED <<interest, lifted>>,
           NEW p \in positions, NEW q \in Position, q.id = p.id, q.size = p.size, q.long = p.long,
           positions' = (positions \ {p}) \cup {q},
           \A c \in PerpCalls : (at'[c] = "open_insert" <=> at[c] = "open_insert"),
           \A c \in PerpCalls : at[c] = "open_insert" => subject'[c] = subject[c]
    PROVE  InterestAccounts'
<1>0. PerpTyped /\ PerpKinds
  BY DEF PerpInv, PerpKinds
<1>1. ASSUME NEW b \in BOOLEAN PROVE interest'[b] = Balance(b)'
  <2>1. Opening(b)' = Opening(b)
    BY DEF Opening
  <2>2. Pending(b)' = Pending(b)
    <3>1. [c \in Opening(b)' |-> subject'[c].size] = [c \in Opening(b) |-> subject[c].size]
      BY <2>1 DEF Opening
    <3>2. QED
      BY <2>1, <3>1 DEF Pending
  <2>3. Side(b)' = IF p.long = b THEN (Side(b) \ {p}) \cup {q} ELSE Side(b)
    BY DEF Side
  <2>4. IsFiniteSet(Side(b)) /\ Side(b) \subseteq Position
    BY <1>0, SidesAdd DEF SidesSummed
  <2>5. CASE p.long = b
    <3>1. p \in Side(b)
      BY <2>5 DEF Side
    <3>2. q \notin Side(b) \ {p}
      BY <1>0 DEF Side, PerpKinds, PerpSubjects, UniqueIds
    <3>3. IsFiniteSet(Side(b) \ {p})
      BY <2>4, FS_RemoveElement
    <3>4. SumFunctionOnSet(SizeOf, Side(b)) = SumFunctionOnSet(SizeOf, Side(b) \ {p}) + p.size
      BY <2>4, <3>1, PositionRemoved
    <3>5. SumFunctionOnSet(SizeOf, (Side(b) \ {p}) \cup {q})
             = SumFunctionOnSet(SizeOf, Side(b) \ {p}) + q.size
      BY <2>4, <3>2, <3>3, PositionAdded
    <3>6. SumFunctionOnSet(SizeOf, Side(b)') = SumFunctionOnSet(SizeOf, Side(b))
      BY <2>3, <2>5, <3>4, <3>5
    <3>7. QED
      BY <1>0, <2>2, <3>6, Balanced DEF Balance, PerpInv
  <2>6. CASE p.long # b
    BY <1>0, <2>2, <2>3, <2>6, Balanced DEF Balance, PerpInv
  <2>7. QED
    BY <2>5, <2>6
<1>2. QED
  BY <1>1, BalancedNext

(* add_collateral (perpetual.rs:263-289). *)
LEMMA CollateralAccounts ==
    ASSUME PerpInv, NEW c \in PerpCalls,
           \/ \E t \in Traders, id \in PerpCalls, s \in Sizes : CollateralAdd(c, t, id, s)
           \/ CollateralPrice(c)
    PROVE  InterestAccounts'
<1>0. PerpTyped /\ PerpKinds /\ PerpTyped'
  BY CollateralAddKinds, CollateralPriceKinds DEF PerpInv, PerpKinds
<1>1. ASSUME NEW t \in Traders, NEW id \in PerpCalls, NEW s \in Sizes, CollateralAdd(c, t, id, s)
      PROVE  InterestAccounts'
  <2>1. CASE \E p \in Found(id) : p.trader = t
    <3>1. PICK p \in Found(id) :
             /\ positions' = (positions \ {p}) \cup {[p EXCEPT !.collateral = @ + s]}
             /\ subject' = [subject EXCEPT ![c] = [p EXCEPT !.collateral = @ + s]]
             /\ at' = [at EXCEPT ![c] = "collateral_price"]
      BY <1>1, <2>1 DEF CollateralAdd, GoTo
    <3> DEFINE q == [p EXCEPT !.collateral = @ + s]
    <3>2. p \in positions /\ p \in Position /\ at[c] = "idle" /\ UNCHANGED <<interest, lifted>>
      BY <1>0, <1>1 DEF Found, PerpTyped, CollateralAdd
    <3>3. p.collateral + s \in Nat
      <4>1. s \in Nat
        BY PerpAssumption
      <4>2. QED
        BY <3>2, <4>1 DEF Position
    <3>4. q \in Position /\ q.id = p.id /\ q.size = p.size /\ q.long = p.long
      BY <3>2, <3>3 DEF Position
    <3>5. positions' = (positions \ {p}) \cup {q}
      BY <3>1
    <3> HIDE DEF q
    <3>6. \A d \in PerpCalls : /\ at'[d] = "open_insert" <=> at[d] = "open_insert"
                               /\ at[d] = "open_insert" => subject'[d] = subject[d]
      BY <1>0, <3>1, <3>2 DEF PerpTyped
    <3>7. QED
      BY <1>0, <3>2, <3>4, <3>5, <3>6, RewriteAccounts
  <2>2. CASE ~ \E p \in Found(id) : p.trader = t
    <3>1. /\ at' = [at EXCEPT ![c] = "failed"] /\ at[c] = "idle"
          /\ UNCHANGED <<subject, interest, positions, lifted>>
      BY <1>1, <2>2 DEF CollateralAdd, GoTo
    <3>2. \A d \in PerpCalls : at'[d] = "open_insert" <=> at[d] = "open_insert"
      BY <1>0, <3>1 DEF PerpTyped
    <3>3. QED
      BY <3>1, <3>2, AccountsUntouched
  <2>3. QED
    BY <2>1, <2>2
<1>2. CASE CollateralPrice(c)
  <2> DEFINE p == subject[c]
             q == [p EXCEPT !.liquidation = LiquidationPrice(p.leverage, p.long)]
  <2>1. /\ at' = [at EXCEPT ![c] = "done"] /\ at[c] = "collateral_price"
        /\ positions' = (positions \ {p}) \cup {q}
        /\ UNCHANGED <<interest, lifted, subject>>
    BY <1>2 DEF CollateralPrice, GoTo
  <2>2. p \in positions /\ p \in Position
    BY <1>0, <2>1 DEF PerpKinds, PerpSubjects, HandsTyped, HandsKept, InHand, Keeping
  <2>3. LiquidationPrice(p.leverage, p.long) \in Int
    <3>1. p.leverage \in Leverages /\ p.leverage # 0 /\ p.long \in BOOLEAN /\ p.size \in Sizes
      BY <2>2 DEF Position
    <3>2. QED
      BY <3>1, PricesTyped
  <2>4. q \in Position /\ q.id = p.id /\ q.size = p.size /\ q.long = p.long
    BY <2>2, <2>3 DEF Position
  <2> HIDE DEF q
  <2>5. \A d \in PerpCalls : /\ at'[d] = "open_insert" <=> at[d] = "open_insert"
                             /\ subject'[d] = subject[d]
    BY <1>0, <2>1 DEF PerpTyped
  <2>6. QED
    BY <1>0, <2>1, <2>2, <2>4, <2>5, RewriteAccounts
<1>3. QED
  BY <1>1, <1>2

(* An opening given up between its writes leaves its interest behind.       *)
LEMMA GiveUpAccounts ==
    ASSUME PerpInv, NEW c \in PerpCalls, PerpGiveUp(c)
    PROVE  InterestAccounts'
<1> DEFINE p == subject[c]
<1>0. PerpTyped /\ PerpKinds /\ PerpKinds' /\ PerpTyped'
  BY PerpGiveUpKinds DEF PerpInv, PerpKinds
<1>1. /\ at' = [at EXCEPT ![c] = "dropped"]
      /\ lifted' = IF at[c] = "open_insert" THEN [lifted EXCEPT ![p.long] = @ + p.size] ELSE lifted
      /\ UNCHANGED <<interest, positions, subject>>
  BY DEF PerpGiveUp, GoTo
<1>2. CASE at[c] = "open_insert"
  <2>1. p \in Position
    BY <1>0, <1>2 DEF PerpKinds, PerpSubjects, OpeningsOwn
  <2>2. p.size \in Nat /\ p.long \in BOOLEAN
    BY <2>1, SizesAreNat DEF SizeOf, Position
  <2>3. \A d \in PerpCalls : at'[d] # "open_insert"
    <3>1. at'[c] = "dropped" /\ \A d \in PerpCalls \ {c} : at'[d] = at[d]
      BY <1>0, <1>1 DEF PerpTyped
    <3>2. \A d \in PerpCalls : at[d] = "open_insert" => d = c
      BY <1>0, <1>2 DEF PerpKinds, PerpGuards
    <3>3. QED
      BY <3>1, <3>2
  <2>4. ASSUME NEW b \in BOOLEAN PROVE interest'[b] = Balance(b)'
    <3>1. Side(b)' = Side(b)
      BY <1>1 DEF Side
    <3>2. Pending(b) = IF p.long = b THEN p.size ELSE 0
      BY <1>0, <1>2, OpeningAlone DEF PendingAlone
    <3>3. Pending(b)' = 0
      BY <1>0, <2>3, OpeningAloneNext DEF PendingAlone
    <3>4. interest[b] = Balance(b) /\ interest[b] \in Nat /\ lifted[b] \in Nat
      BY <1>0, Balanced DEF PerpInv, PerpTyped
    <3>5. lifted'[b] = IF p.long = b THEN lifted[b] + p.size ELSE lifted[b]
      BY <1>0, <1>1, <1>2, <2>2 DEF PerpTyped
    <3>6. SumFunctionOnSet(SizeOf, Side(b)) \in Nat
      BY <1>0, SidesAdd DEF SidesSummed
    <3>7. QED
      BY <1>1, <2>2, <3>1, <3>2, <3>3, <3>4, <3>5, <3>6 DEF Balance
  <2>5. QED
    BY <1>0, <2>4, BalancedNext
<1>3. CASE at[c] # "open_insert"
  <2>1. \A d \in PerpCalls : at'[d] = "open_insert" <=> at[d] = "open_insert"
    BY <1>0, <1>1, <1>3 DEF PerpTyped
  <2>2. QED
    BY <1>1, <1>3, <2>1, AccountsUntouched
<1>4. QED
  BY <1>2, <1>3

LEMMA PerpSteps == PerpInv /\ [PerpNext]_perpVars => PerpInv'
<1> SUFFICES ASSUME PerpInv, [PerpNext]_perpVars PROVE PerpInv'
  OBVIOUS
<1>0. PerpKinds /\ PerpTyped
  BY DEF PerpInv, PerpKinds
<1>1. CASE UNCHANGED perpVars
  <2>1. PerpTyped' /\ PerpGuards'
    BY <1>0, <1>1 DEF perpVars, PerpKinds, PerpTyped, PerpGuards
  <2>2. PerpSubjects'
    BY <1>0, <1>1 DEF perpVars, PerpKinds, PerpSubjects, UniqueIds, IdsUsed, OpeningsOwn,
       HandsTyped, HandsKept, HandsMatch, Matches, PaidBackOnce, Found
  <2>3. InterestAccounts'
    BY <1>1, AccountsUntouched DEF perpVars
  <2>4. QED
    BY <2>1, <2>2, <2>3 DEF PerpInv, PerpKinds
<1>2. ASSUME NEW c \in PerpCalls, NEW t \in Traders, NEW s \in Sizes, NEW v \in Leverages,
             NEW b \in BOOLEAN, OpenCheck(c, t, s, v, b)
      PROVE  PerpInv'
  <2>1. /\ at[c] = "idle" /\ UNCHANGED <<interest, positions, lifted>>
        /\ \E l \in {"failed", "open_interest"} : at' = [at EXCEPT ![c] = l]
        /\ \A d \in PerpCalls : at[d] = "open_insert" => subject'[d] = subject[d]
    BY <1>0, <1>2 DEF OpenCheck, GoTo, PerpTyped
  <2>2. \A d \in PerpCalls : at'[d] = "open_insert" <=> at[d] = "open_insert"
    BY <1>0, <2>1 DEF PerpTyped
  <2>3. QED
    BY <1>0, <1>2, <2>1, <2>2, OpenCheckKinds, AccountsUntouched DEF PerpInv
<1>3. ASSUME NEW c \in PerpCalls, NEW t \in Traders, NEW id \in PerpCalls, CloseFind(c, t, id)
      PROVE  PerpInv'
  <2>1. /\ at[c] = "idle" /\ UNCHANGED <<interest, positions, lifted>>
        /\ \E l \in {"failed", "close_read"} : at' = [at EXCEPT ![c] = l]
        /\ \A d \in PerpCalls : at[d] = "open_insert" => subject'[d] = subject[d]
    BY <1>0, <1>3 DEF CloseFind, GoTo, PerpTyped
  <2>2. \A d \in PerpCalls : at'[d] = "open_insert" <=> at[d] = "open_insert"
    BY <1>0, <2>1 DEF PerpTyped
  <2>3. QED
    BY <1>0, <1>3, <2>1, <2>2, CloseFindKinds, AccountsUntouched DEF PerpInv
<1>4. ASSUME NEW c \in PerpCalls, NEW id \in PerpCalls, LiquidateFind(c, id)
      PROVE  PerpInv'
  <2>1. /\ at[c] = "idle" /\ UNCHANGED <<interest, positions, lifted>>
        /\ \E l \in {"failed", "liquidate_check"} : at' = [at EXCEPT ![c] = l]
        /\ \A d \in PerpCalls : at[d] = "open_insert" => subject'[d] = subject[d]
    BY <1>0, <1>4 DEF LiquidateFind, GoTo, PerpTyped
  <2>2. \A d \in PerpCalls : at'[d] = "open_insert" <=> at[d] = "open_insert"
    BY <1>0, <2>1 DEF PerpTyped
  <2>3. QED
    BY <1>0, <1>4, <2>1, <2>2, LiquidateFindKinds, AccountsUntouched DEF PerpInv
<1>5. ASSUME NEW c \in PerpCalls, CloseRead(c) \/ LiquidateCheck(c) \/ LiquidatePay(c)
      PROVE  PerpInv'
  <2>1. /\ at[c] \in {"close_read", "liquidate_check", "liquidate_pay"}
        /\ UNCHANGED <<interest, positions, lifted, subject>>
        /\ \E l \in {"close_write", "liquidate_pay", "failed", "liquidate_remove"} :
              at' = [at EXCEPT ![c] = l]
    BY <1>5 DEF CloseRead, LiquidateCheck, LiquidatePay, GoTo
  <2>2. \A d \in PerpCalls : at'[d] = "open_insert" <=> at[d] = "open_insert"
    BY <1>0, <2>1 DEF PerpTyped
  <2>3. InterestAccounts'
    BY <2>1, <2>2, AccountsUntouched
  <2>4. QED
    BY <1>0, <1>5, <2>3, CloseReadKinds, LiquidateCheckKinds, LiquidatePayKinds DEF PerpInv
<1>6. ASSUME NEW c \in PerpCalls, OpenInterest(c) \/ OpenInsert(c) PROVE PerpInv'
  BY <1>0, <1>6, OpenInterestKinds, OpenInterestAccounts, OpenInsertKinds, OpenInsertAccounts
     DEF PerpInv
<1>7. ASSUME NEW c \in PerpCalls, CloseWrite(c) \/ LiquidateRemove(c) PROVE PerpInv'
  BY <1>0, <1>7, CloseWriteKinds, CloseWriteAccounts, LiquidateRemoveKinds, LiquidateRemoveAccounts
     DEF PerpInv
<1>8. ASSUME NEW c \in PerpCalls, NEW t \in Traders, NEW id \in PerpCalls, NEW s \in Sizes,
             CollateralAdd(c, t, id, s)
      PROVE  PerpInv'
  <2>1. InterestAccounts'
    BY <1>8, CollateralAccounts
  <2>2. QED
    BY <1>0, <1>8, <2>1, CollateralAddKinds DEF PerpInv
<1>9. ASSUME NEW c \in PerpCalls, CollateralPrice(c) PROVE PerpInv'
  <2>1. InterestAccounts'
    BY <1>9, CollateralAccounts
  <2>2. QED
    BY <1>0, <1>9, <2>1, CollateralPriceKinds DEF PerpInv
<1>10. ASSUME NEW c \in PerpCalls, PerpGiveUp(c) PROVE PerpInv'
  BY <1>0, <1>10, PerpGiveUpKinds, GiveUpAccounts DEF PerpInv
<1>11. ASSUME NEW c \in PerpCalls, PerpStart(c) PROVE PerpInv'
  BY <1>2, <1>3, <1>4, <1>8, <1>11 DEF PerpStart
<1>12. ASSUME NEW c \in PerpCalls, PerpContinue(c) PROVE PerpInv'
  BY <1>5, <1>6, <1>7, <1>9, <1>12 DEF PerpContinue
<1>13. QED
  BY <1>1, <1>10, <1>11, <1>12 DEF PerpNext

LEMMA PerpInvSound == PerpInv => PerpSound /\ PaidBackOnce
<1> SUFFICES ASSUME PerpInv PROVE PerpSound /\ PaidBackOnce
  OBVIOUS
<1>1. PerpTypeOK
  BY DEF PerpInv, PerpKinds, PerpTyped, PerpGuards, PerpSubjects, UniqueIds, PerpTypeOK, PerpLabels
<1>2. QED
  BY <1>1 DEF PerpInv, PerpKinds, PerpSubjects, PerpSound

LEMMA OptionStarts == OptionInit => OptionInv
BY DEF OptionInit, OptionInv, OptionTyped, OptionPaid, PaysOnce

(* The books of the perpetual engine and of the options hold in every       *)
(* behaviour, for every set of calls, traders, sizes, leverages, contracts  *)
(* and strikes: the interest accounts for the positions, a margin is paid   *)
(* back once, an option pays once and a put is covered                      *)
(* (perpetual.rs:96-290, options.rs:81-179).                                *)
THEOREM DerivativesAlwaysSound == MCSpec => []DerivativesSound
<1> DEFINE Inv == PerpInv /\ OptionInv
<1>1. MCInit => Inv
  BY PerpStarts, OptionStarts DEF MCInit
<1>2. Inv /\ [MCNext]_mcVars => Inv'
  <2> SUFFICES ASSUME Inv, [MCNext]_mcVars PROVE Inv'
    OBVIOUS
  <2>1. [PerpNext]_perpVars
    BY DEF MCNext, mcVars, defiVars
  <2>2. [OptionNext]_optionVars
    BY DEF MCNext, mcVars, defiVars
  <2>3. QED
    BY <2>1, <2>2, PerpSteps, OptionSteps
<1>3. Inv => DerivativesSound
  BY PerpInvSound DEF OptionInv, DerivativesSound
<1>4. QED
  BY <1>1, <1>2, <1>3, PTL DEF MCSpec

-----------------------------------------------------------------------------
(* AmmPool, its books: the tokens in circulation are the providers' shares, *)
(* so nobody removes more than there is, and a reserve that backs them is   *)
(* never emptied.  First the square root that the first addition mints: an  *)
(* iteration that is a function because it falls.                           *)

Guess(x, z) == (x \div z + z) \div 2

Iterates(g, x) == g = [z \in 1 .. x |-> IF Guess(x, z) < z THEN g[Guess(x, z)] ELSE z]

LEMMA GuessFalls ==
    ASSUME NEW x \in Nat, x > 0, NEW z \in Nat, z > 0
    PROVE  Guess(x, z) \in Nat /\ Guess(x, z) > 0
<1>1. x \div z \in Nat
  BY Division
<1>2. z = 1 => x \div z = x
  BY Z3
<1>3. x \div z + z \in Nat /\ x \div z + z >= 2
  BY <1>1, <1>2
<1> DEFINE y == x \div z + z
<1>4. y \div 2 \in Nat /\ y \div 2 > 0
  <2>1. y \in Nat /\ y >= 2
    BY <1>3
  <2> HIDE DEF y
  <2>2. QED
    BY <2>1, Z3
<1>5. QED
  BY <1>4 DEF Guess

LEMMA RootExists ==
    ASSUME NEW x \in Nat, x > 0
    PROVE  \E g \in [1 .. x -> Nat] : Iterates(g, x)
<1> DEFINE Good(g, n) == \A z \in 1 .. n : g[z] = IF Guess(x, z) < z THEN g[Guess(x, z)] ELSE z
           N == {n \in Nat : \E g \in [1 .. n -> Nat] : Good(g, n)}
<1>1. 0 \in N
  <2> DEFINE g == [z \in 1 .. 0 |-> 0]
  <2>1. g \in [1 .. 0 -> Nat] /\ Good(g, 0)
    OBVIOUS
  <2>2. QED
    BY <2>1
<1>2. ASSUME NEW n \in N PROVE n + 1 \in N
  <2>1. n \in Nat
    OBVIOUS
  <2>2. PICK g \in [1 .. n -> Nat] : Good(g, n)
    OBVIOUS
  <2> DEFINE y == Guess(x, n + 1)
             v == IF y < n + 1 THEN g[y] ELSE n + 1
             h == [z \in 1 .. (n + 1) |-> IF z = n + 1 THEN v ELSE g[z]]
  <2>3. y \in Nat /\ y > 0
    <3>1. n + 1 \in Nat /\ n + 1 > 0
      BY <2>1
    <3> HIDE DEF N, h, v
    <3>2. QED
      BY <3>1, GuessFalls
  <2>4. v \in Nat
    <3> HIDE DEF y
    <3>1. y < n + 1 => y \in 1 .. n
      BY <2>1, <2>3
    <3>2. QED
      BY <2>1, <3>1
  <2>5. h \in [1 .. (n + 1) -> Nat]
    <3> HIDE DEF v
    <3>1. \A z \in 1 .. (n + 1) : z # n + 1 => z \in 1 .. n
      BY <2>1
    <3>2. QED
      BY <2>4, <3>1
  <2>6. ASSUME NEW z \in 1 .. (n + 1)
        PROVE  h[z] = IF Guess(x, z) < z THEN h[Guess(x, z)] ELSE z
    <3>0. z \in Nat /\ z > 0
      BY <2>1
    <3>1. Guess(x, z) \in Nat /\ Guess(x, z) > 0 /\ z \in Nat
      <4> HIDE DEF N, h, v, y
      <4>1. QED
        BY <3>0, GuessFalls
    <3>2. Guess(x, z) < z => Guess(x, z) \in 1 .. (n + 1) /\ Guess(x, z) # n + 1
      BY <2>1, <3>1
    <3>3. Guess(x, z) < z => h[Guess(x, z)] = g[Guess(x, z)]
      <4> HIDE DEF v
      <4>1. QED
        BY <3>2
    <3>4. CASE z = n + 1
      <4>1. h[z] = v
        BY <3>4
      <4>2. QED
        BY <3>3, <3>4, <4>1
    <3>5. CASE z # n + 1
      <4>1. z \in 1 .. n
        BY <2>1, <3>5
      <4>2. h[z] = g[z]
        BY <3>5
      <4>3. g[z] = IF Guess(x, z) < z THEN g[Guess(x, z)] ELSE z
        BY <2>2, <4>1
      <4> HIDE DEF h
      <4>4. QED
        BY <3>3, <4>2, <4>3
    <3>6. QED
      BY <3>4, <3>5
  <2>7. Good(h, n + 1)
    <3> HIDE DEF h
    <3>1. QED
      BY <2>6
  <2>8. n + 1 \in Nat
    BY <2>1
  <2>9. QED
    <3> HIDE DEF Good, h
    <3>1. QED
      BY <2>5, <2>7, <2>8
<1>3. N = Nat
  <2>1. N \in SUBSET Nat
    OBVIOUS
  <2> HIDE DEF N
  <2>2. QED
    BY <1>1, <1>2, <2>1, NatSteps
<1>4. PICK g \in [1 .. x -> Nat] : Good(g, x)
  BY <1>3
<1>5. g = [z \in 1 .. x |-> IF Guess(x, z) < z THEN g[Guess(x, z)] ELSE z]
  BY <1>4
<1>6. QED
  BY <1>5 DEF Iterates

(* The square root is a natural number, and that of 0 is 0 (amm.rs:334-348). *)
LEMMA SqrtIsNat ==
    ASSUME NEW x \in Nat
    PROVE  Sqrt(x) \in Nat /\ (x = 0 => Sqrt(x) = 0)
<1>1. CASE x = 0
  BY <1>1 DEF Sqrt
<1>2. CASE x > 0
  <2> DEFINE f == CHOOSE g : Iterates(g, x)
  <2>1. Sqrt(x) = f[x]
    BY <1>2 DEF Sqrt, Iterates, Guess
  <2>2. \E g : Iterates(g, x)
    BY <1>2, RootExists
  <2>3. Iterates(f, x)
    BY <2>2
  <2> HIDE DEF f
  <2>4. PICK g \in [1 .. x -> Nat] : Iterates(g, x)
    BY <1>2, RootExists
  <2> DEFINE N == {n \in Nat : \A z \in 1 .. x : z <= n => f[z] = g[z]}
  <2>5. 0 \in N
    OBVIOUS
  <2>6. ASSUME NEW n \in N PROVE n + 1 \in N
    <3>1. n \in Nat /\ \A z \in 1 .. x : z <= n => f[z] = g[z]
      OBVIOUS
    <3>2. ASSUME NEW z \in 1 .. x, z <= n + 1 PROVE f[z] = g[z]
      <4>0. z \in Nat /\ z > 0
        OBVIOUS
      <4>1. Guess(x, z) \in Nat /\ Guess(x, z) > 0 /\ z \in Nat
        <5> HIDE DEF N
        <5>1. QED
          BY <1>2, <4>0, GuessFalls
      <4>2. Guess(x, z) < z => Guess(x, z) \in 1 .. x /\ Guess(x, z) <= n
        BY <3>1, <3>2, <4>1
      <4>3. /\ f[z] = IF Guess(x, z) < z THEN f[Guess(x, z)] ELSE z
            /\ g[z] = IF Guess(x, z) < z THEN g[Guess(x, z)] ELSE z
        <5> HIDE DEF N
        <5>1. f[z] = [q \in 1 .. x |-> IF Guess(x, q) < q THEN f[Guess(x, q)] ELSE q][z]
          BY <2>3 DEF Iterates
        <5>2. g[z] = [q \in 1 .. x |-> IF Guess(x, q) < q THEN g[Guess(x, q)] ELSE q][z]
          BY <2>4 DEF Iterates
        <5>3. QED
          BY <5>1, <5>2
      <4>4. QED
        BY <3>1, <4>2, <4>3
    <3>3. QED
      BY <3>1, <3>2
  <2>7. N = Nat
    <3>1. N \in SUBSET Nat
      OBVIOUS
    <3> HIDE DEF N
    <3>2. QED
      BY <2>5, <2>6, <3>1, NatSteps
  <2>8. x \in N /\ x \in 1 .. x
    BY <1>2, <2>7, SMTT(30)
  <2>9. f[x] = g[x]
    BY <2>8
  <2>10. QED
    BY <1>2, <2>1, <2>8, <2>9
<1>3. QED
  BY <1>1, <1>2

RangePosition == [lower : Int, upper : Int, liquidity : Nat]
RangesTyped ==
    /\ range = [p \in Providers |-> range[p]]
    /\ \A p \in Providers : range[p] # NoRange => range[p] \in RangePosition

AmmInv == PoolSound /\ RangesTyped

LEMMA AmmStarts == AmmInit => AmmInv
<1> SUFFICES ASSUME AmmInit PROVE AmmInv
  OBVIOUS
<1>0. IsFiniteSet(Providers)
  BY AmmAssumption
<1>1. AmmTypeOK /\ SupplyIsBacked /\ RangesTyped
  BY DEF AmmInit, AmmTypeOK, SupplyIsBacked, RangesTyped, Tokens
<1>2. SupplyIsShares
  <2> DEFINE T == {V \in SUBSET Providers : SumFunctionOnSet(share, V) = 0}
  <2>1. \A p \in Providers : share[p] = 0
    BY DEF AmmInit
  <2>2. {} \in T
    BY FS_EmptySet, SumStep
  <2>3. ASSUME NEW V \in T, NEW p \in Providers PROVE V \cup {p} \in T
    <3>1. CASE p \in V
      <4>1. V \cup {p} = V
        BY <3>1
      <4>2. QED
        BY <4>1
    <3>2. CASE p \notin V
      <4>1. IsFiniteSet(V) /\ \A q \in V \cup {p} : share[q] \in Int
        BY <1>0, <2>1, FS_Subset
      <4>2. SumFunctionOnSet(share, V \cup {p}) = share[p] + SumFunctionOnSet(share, V)
        BY <3>2, <4>1, SumAdd
      <4>3. QED
        BY <2>1, <4>2
    <3>3. QED
      BY <3>1, <3>2
  <2>4. T = SUBSET Providers
    <3>1. T \in SUBSET SUBSET Providers
      OBVIOUS
    <3> HIDE DEF T
    <3>2. QED
      BY <1>0, <2>2, <2>3, <3>1, FiniteSteps
  <2>5. SumFunctionOnSet(share, Providers) = 0
    BY <2>4
  <2>6. QED
    BY <2>5 DEF AmmInit, SupplyIsShares
<1>3. ActiveCoversRanges
  <2>1. RangesIn = {} /\ active = 0
    BY DEF AmmInit, RangesIn
  <2>2. \A f : SumFunctionOnSet(f, {}) = 0
    <3>1. \A f : \A x \in {} : f[x] \in Int
      OBVIOUS
    <3>2. QED
      BY <3>1, FS_EmptySet, SumStep
  <2>3. QED
    BY <2>1, <2>2 DEF ActiveCoversRanges
<1>4. QED
  BY <1>1, <1>2, <1>3 DEF AmmInv, PoolSound

(* A share of a reserve is no more than the reserve (amm.rs:144-150).       *)
LEMMA PartOfReserve ==
    ASSUME NEW r \in Nat, NEW s \in Nat, NEW n \in Nat, s > 0, n <= s
    PROVE  /\ (n * r) \div s \in Nat /\ (n * r) \div s <= r
           /\ n < s /\ r > 0 => (n * r) \div s < r
<1> DEFINE part == (n * r) \div s
<1>1. n * r \in Nat /\ n * r <= s * r /\ s * r = r * s
  BY Z3
<1>2. part \in Nat /\ part * s <= n * r
  BY <1>1, Division
<1> HIDE DEF part
<1>3. part * s \in Int /\ r * s \in Int
  BY <1>2, Z3
<1>4. part * s <= r * s
  BY <1>1, <1>2, <1>3
<1>5. part <= r
  BY <1>2, <1>4, Cancel
<1>6. n < s /\ r > 0 => part < r
  <2>1. SUFFICES ASSUME n < s, r > 0, part = r PROVE FALSE
    BY <1>2, <1>5
  <2>2. n * r < r * s
    BY <2>1, Z3
  <2>3. QED
    BY <1>1, <1>2, <1>3, <2>1, <2>2
<1>7. QED
  BY <1>2, <1>5, <1>6 DEF part

(* What a swap pays is in the reserve, an empty one it is paid for included. *)
LEMMA PayoutInReserve ==
    ASSUME NEW x \in Nat, NEW rin \in Nat, NEW rout \in Nat
    PROVE  /\ AmountOut(x, rin, rout) \in Nat /\ AmountOut(x, rin, rout) <= rout
           /\ rin > 0 /\ rout > 0 => AmountOut(x, rin, rout) < rout
<1>1. CASE rin > 0
  BY <1>1, SwapKeepsProduct
<1>2. CASE rin = 0
  <2> DEFINE net == (x * (10000 - FeeRate)) \div 10000
  <2>1. net \in Nat
    BY NetAmount
  <2>2. AmountOut(x, rin, rout) = IF rin + net = 0 THEN 0 ELSE (net * rout) \div (rin + net)
    BY DEF AmountOut
  <2> HIDE DEF net
  <2>3. rin + net = net
    BY <1>2, <2>1
  <2>4. net > 0 => (net * rout) \div net = rout
    BY <2>1, Z3
  <2>5. QED
    BY <1>2, <2>1, <2>2, <2>3, <2>4
<1>3. QED
  BY <1>1, <1>2

LEMMA MintedIsNat ==
    ASSUME AmmTypeOK, SupplyIsBacked, supply > 0, NEW x \in Nat, NEW y \in Nat
    PROVE  Minted(x, y) \in Nat
<1>1. /\ reserve["a"] \in Nat /\ reserve["b"] \in Nat /\ supply \in Nat
      /\ reserve["a"] > 0 /\ reserve["b"] > 0
  BY DEF AmmTypeOK, SupplyIsBacked, Tokens
<1>2. x * supply \in Nat /\ y * supply \in Nat
  BY <1>1, Z3
<1>3. (x * supply) \div reserve["a"] \in Nat /\ (y * supply) \div reserve["b"] \in Nat
  BY <1>1, <1>2, Division
<1>4. QED
  BY <1>3 DEF Minted, Smaller

(* Shares and supply change by the same amount.                             *)
LEMMA SharesChange ==
    ASSUME AmmTypeOK, SupplyIsShares, NEW p \in Providers, share' \in [Providers -> Nat],
           \A q \in Providers \ {p} : share'[q] = share[q],
           supply' = supply + (share'[p] - share[p])
    PROVE  SupplyIsShares'
<1> DEFINE f == share
           g == share'
<1>0. IsFiniteSet(Providers) /\ f \in [Providers -> Nat] /\ g \in [Providers -> Nat] /\ supply \in Nat
  BY AmmAssumption DEF AmmTypeOK
<1>1. \A q \in Providers \ {p} : g[q] = f[q]
  OBVIOUS
<1>2. supply' = supply + (g[p] - f[p]) /\ supply = SumFunctionOnSet(f, Providers)
  BY DEF SupplyIsShares
<1> HIDE DEF f, g
<1>3. \A q \in Providers : f[q] \in Int /\ g[q] \in Int
  BY <1>0
<1>4. SumFunctionOnSet(g, Providers) = SumFunctionOnSet(f, Providers) - f[p] + g[p]
  BY <1>0, <1>1, <1>3, SumChange
<1>5. f[p] \in Nat /\ g[p] \in Nat
  BY <1>0
<1>6. supply' = SumFunctionOnSet(g, Providers)
  BY <1>0, <1>2, <1>4, <1>5
<1>7. QED
  BY <1>6 DEF SupplyIsShares, g

(* Nobody holds more than there is. *)
LEMMA SharesHeld ==
    ASSUME AmmTypeOK, SupplyIsShares, NEW p \in Providers
    PROVE  share[p] <= supply
<1>0. IsFiniteSet(Providers) /\ share \in [Providers -> Nat] /\ supply \in Nat
  BY AmmAssumption DEF AmmTypeOK
<1>1. SumFunctionOnSet(share, Providers) = share[p] + SumFunctionOnSet(share, Providers \ {p})
  BY <1>0, SumRemove
<1>2. IsFiniteSet(Providers \ {p}) /\ \A q \in Providers \ {p} : share[q] \in Nat
  BY <1>0, FS_RemoveElement
<1>3. SumFunctionOnSet(share, Providers \ {p}) \in Nat
  BY <1>2, SumNat
<1>4. share[p] \in Nat
  BY <1>0
<1>5. QED
  BY <1>1, <1>3, <1>4 DEF SupplyIsShares

(* What leaves active and range alone leaves the ranges covered.            *)
LEMMA RangesUntouched ==
    ASSUME AmmInv, UNCHANGED <<active, range>>
    PROVE  ActiveCoversRanges' /\ RangesTyped' /\ active' \in Nat
BY DEF AmmInv, PoolSound, AmmTypeOK, ActiveCoversRanges, RangesIn, RangesTyped

LEMMA AddFirstSound ==
    ASSUME AmmInv, NEW p \in Providers, NEW x \in PoolAmounts, NEW y \in PoolAmounts,
           AddFirst(p, x, y)
    PROVE  AmmInv'
<1> DEFINE n == Sqrt(x * y)
<1>0. AmmTypeOK /\ SupplyIsShares
  BY DEF AmmInv, PoolSound
<1>1. /\ supply = 0 /\ reserve' = [t \in Tokens |-> IF t = "a" THEN x ELSE y]
      /\ supply' = n /\ share' = [share EXCEPT ![p] = @ + n]
      /\ waiting' = TRUE /\ UNCHANGED <<active, range>>
  BY DEF AddFirst
<1>2. x \in Nat /\ y \in Nat
  BY AmmAssumption
<1>3. x * y \in Nat /\ (x = 0 \/ y = 0 => x * y = 0)
  BY <1>2, Z3
<1>4. n \in Nat /\ (x * y = 0 => n = 0)
  BY <1>3, SqrtIsNat
<1> HIDE DEF n
<1>5. /\ share' \in [Providers -> Nat] /\ \A q \in Providers \ {p} : share'[q] = share[q]
      /\ supply' = supply + (share'[p] - share[p])
  BY <1>0, <1>1, <1>4 DEF AmmTypeOK
<1>6. SupplyIsShares' /\ share' \in [Providers -> Nat]
  BY <1>0, <1>5, SharesChange
<1>7. AmmTypeOK' /\ SupplyIsBacked'
  BY <1>1, <1>2, <1>3, <1>4, <1>6, RangesUntouched DEF AmmTypeOK, SupplyIsBacked, Tokens
<1>8. QED
  BY <1>1, <1>6, <1>7, RangesUntouched DEF AmmInv, PoolSound

LEMMA AddMoreSound ==
    ASSUME AmmInv, NEW p \in Providers, NEW x \in PoolAmounts, NEW y \in PoolAmounts,
           AddMore(p, x, y)
    PROVE  AmmInv'
<1> DEFINE n == Minted(x, y)
<1>0. AmmTypeOK /\ SupplyIsShares /\ SupplyIsBacked
  BY DEF AmmInv, PoolSound
<1>1. /\ supply > 0 /\ reserve' = [t \in Tokens |-> reserve[t] + Added(t, n)]
      /\ supply' = supply + n /\ share' = [share EXCEPT ![p] = @ + n]
      /\ waiting' = TRUE /\ UNCHANGED <<active, range>>
  BY DEF AddMore
<1>2. x \in Nat /\ y \in Nat /\ supply \in Nat
  BY <1>0, AmmAssumption DEF AmmTypeOK
<1>3. n \in Nat
  BY <1>0, <1>1, <1>2, MintedIsNat
<1> HIDE DEF n
<1>4. ASSUME NEW t \in Tokens PROVE Added(t, n) \in Nat /\ reserve[t] \in Nat /\ reserve[t] > 0
  <2>1. reserve[t] \in Nat /\ reserve[t] > 0
    BY <1>0, <1>1 DEF AmmTypeOK, SupplyIsBacked
  <2>2. n * reserve[t] \in Nat
    BY <1>3, <2>1, Z3
  <2>3. QED
    BY <1>1, <1>2, <2>1, <2>2, Division DEF Added
<1>5. /\ share' \in [Providers -> Nat] /\ \A q \in Providers \ {p} : share'[q] = share[q]
      /\ supply' = supply + (share'[p] - share[p])
  BY <1>0, <1>1, <1>3 DEF AmmTypeOK
<1>6. SupplyIsShares' /\ share' \in [Providers -> Nat]
  BY <1>0, <1>5, SharesChange
<1>7. reserve' \in [Tokens -> Nat] /\ SupplyIsBacked'
  BY <1>1, <1>4 DEF SupplyIsBacked
<1>8. AmmTypeOK'
  BY <1>1, <1>2, <1>3, <1>6, <1>7, RangesUntouched DEF AmmTypeOK
<1>9. QED
  BY <1>1, <1>6, <1>7, <1>8, RangesUntouched DEF AmmInv, PoolSound

LEMMA RemoveSharesSound ==
    ASSUME AmmInv, NEW p \in Providers, NEW n \in PoolAmounts, RemoveShares(p, n)
    PROVE  AmmInv'
<1>0. AmmTypeOK /\ SupplyIsShares /\ SupplyIsBacked
  BY DEF AmmInv, PoolSound
<1>1. /\ n <= share[p] /\ supply > 0
      /\ reserve' = [t \in Tokens |-> reserve[t] - Withdrawn(t, n)]
      /\ supply' = supply - n /\ share' = [share EXCEPT ![p] = @ - n]
      /\ waiting' = TRUE /\ UNCHANGED <<active, range>>
  BY DEF RemoveShares
<1>2. n \in Nat /\ supply \in Nat /\ share[p] \in Nat
  BY <1>0, AmmAssumption DEF AmmTypeOK
<1>3. /\ share' \in [Providers -> Nat] /\ \A q \in Providers \ {p} : share'[q] = share[q]
      /\ supply' = supply + (share'[p] - share[p])
  BY <1>0, <1>1, <1>2 DEF AmmTypeOK
<1>4. SupplyIsShares' /\ share' \in [Providers -> Nat] /\ share[p] <= supply
  BY <1>0, <1>3, SharesChange, SharesHeld
<1>5. n <= supply /\ supply' \in Nat /\ (supply' > 0 => n < supply)
  BY <1>1, <1>2, <1>4
<1>6. ASSUME NEW t \in Tokens
      PROVE  /\ reserve[t] \in Nat /\ reserve[t] > 0
             /\ Withdrawn(t, n) \in Nat /\ Withdrawn(t, n) <= reserve[t]
             /\ supply' > 0 => Withdrawn(t, n) < reserve[t]
  <2>1. reserve[t] \in Nat /\ reserve[t] > 0
    BY <1>0, <1>1 DEF AmmTypeOK, SupplyIsBacked
  <2>2. QED
    BY <1>1, <1>2, <1>5, <2>1, PartOfReserve DEF Withdrawn
<1>7. reserve' \in [Tokens -> Nat] /\ SupplyIsBacked'
  BY <1>1, <1>6 DEF SupplyIsBacked
<1>8. AmmTypeOK'
  BY <1>1, <1>4, <1>5, <1>7, RangesUntouched DEF AmmTypeOK
<1>9. QED
  BY <1>1, <1>4, <1>7, <1>8, RangesUntouched DEF AmmInv, PoolSound

LEMMA SwapSound ==
    ASSUME AmmInv, NEW u \in Tokens, NEW x \in PoolAmounts, Swap(u, x)
    PROVE  AmmInv'
<1> DEFINE out == AmountOut(x, reserve[u], reserve[Other(u)])
<1>0. AmmTypeOK /\ SupplyIsShares /\ SupplyIsBacked
  BY DEF AmmInv, PoolSound
<1>1. /\ reserve' = [reserve EXCEPT ![u] = @ + x, ![Other(u)] = @ - out]
      /\ waiting' = TRUE /\ UNCHANGED <<supply, share, active, range>>
  BY DEF Swap
<1>2. /\ x \in Nat /\ Other(u) \in Tokens /\ Other(u) # u
      /\ \A t \in Tokens : t = u \/ t = Other(u)
      /\ reserve \in [Tokens -> Nat]
  BY <1>0, AmmAssumption DEF AmmTypeOK, Tokens, Other
<1>3. reserve[u] \in Nat /\ reserve[Other(u)] \in Nat
  BY <1>2
<1>4. /\ out \in Nat /\ out <= reserve[Other(u)]
      /\ reserve[u] > 0 /\ reserve[Other(u)] > 0 => out < reserve[Other(u)]
  BY <1>2, <1>3, PayoutInReserve
<1> HIDE DEF out
<1>5. /\ reserve'[u] = reserve[u] + x /\ reserve'[Other(u)] = reserve[Other(u)] - out
      /\ reserve' \in [Tokens -> Nat]
  BY <1>1, <1>2, <1>3, <1>4
<1>6. SupplyIsBacked'
  BY <1>0, <1>1, <1>2, <1>3, <1>4, <1>5 DEF SupplyIsBacked
<1>7. AmmTypeOK' /\ SupplyIsShares'
  BY <1>0, <1>1, <1>5 DEF AmmTypeOK, SupplyIsShares
<1>8. QED
  BY <1>1, <1>6, <1>7, RangesUntouched DEF AmmInv, PoolSound

(* add_concentrated_liquidity (amm.rs:217-253). *)
LEMMA AddConcentratedSound ==
    ASSUME AmmInv, NEW p \in Providers, NEW lo \in Ticks, NEW hi \in Ticks, NEW l \in PoolAmounts,
           AddConcentrated(p, lo, hi, l)
    PROVE  AmmInv'
<1> DEFINE r == [lower |-> lo, upper |-> hi, liquidity |-> l]
           f == [q \in RangesIn |-> range[q].liquidity]
           g == [q \in RangesIn' |-> range'[q].liquidity]
           V == RangesIn \ {p}
<1>0. AmmTypeOK /\ SupplyIsShares /\ SupplyIsBacked /\ ActiveCoversRanges /\ RangesTyped
  BY DEF AmmInv, PoolSound
<1>1. /\ range' = [range EXCEPT ![p] = r]
      /\ active' = IF InRange([lower |-> lo, upper |-> hi]) THEN active + l ELSE active
      /\ UNCHANGED <<reserve, supply, share, waiting>>
  BY DEF AddConcentrated
<1>2. l \in Nat /\ lo \in Int /\ hi \in Int /\ IsFiniteSet(Providers) /\ active \in Nat
  BY <1>0, AmmAssumption DEF AmmTypeOK
<1>3. r \in RangePosition /\ (InRange([lower |-> lo, upper |-> hi]) <=> InRange(r)) /\ r.liquidity = l
  BY <1>2 DEF RangePosition, InRange
<1> HIDE DEF r
<1>4. /\ range'[p] = r /\ \A q \in Providers \ {p} : range'[q] = range[q]
      /\ range' = [q \in Providers |-> range'[q]]
  BY <1>0, <1>1 DEF RangesTyped
<1>5. RangesTyped'
  BY <1>0, <1>3, <1>4 DEF RangesTyped
<1>6. /\ V \subseteq RangesIn' /\ IsFiniteSet(V) /\ IsFiniteSet(RangesIn)
      /\ RangesIn' = IF r # NoRange /\ InRange(r) THEN V \cup {p} ELSE V
  <2>1. IsFiniteSet(RangesIn) /\ IsFiniteSet(V)
    BY <1>2, FS_Subset DEF RangesIn
  <2>2. QED
    BY <1>4, <2>1 DEF RangesIn
<1>7. \A q \in RangesIn : f[q] \in Nat
  BY <1>0 DEF RangesIn, RangesTyped, RangePosition
<1>8. \A q \in V : g[q] = f[q]
  BY <1>4, <1>6 DEF RangesIn
<1>9. p \in RangesIn' => g[p] = l
  BY <1>3, <1>4
<1> HIDE DEF f, g
<1>10. SumFunctionOnSet(f, V) \in Nat /\ SumFunctionOnSet(f, V) <= active
  <2>1. active >= SumFunctionOnSet(f, RangesIn)
    BY <1>0 DEF ActiveCoversRanges, f
  <2>2. SumFunctionOnSet(f, V) \in Nat
    BY <1>6, <1>7, SumNat
  <2>3. CASE p \in RangesIn
    <3>1. SumFunctionOnSet(f, RangesIn) = f[p] + SumFunctionOnSet(f, V)
      BY <1>6, <1>7, <2>3, SumRemove
    <3>2. f[p] \in Nat
      BY <1>7, <2>3
    <3>3. QED
      BY <1>2, <2>1, <2>2, <3>1, <3>2
  <2>4. CASE p \notin RangesIn
    <3>1. V = RangesIn
      BY <2>4
    <3>2. QED
      BY <1>2, <2>1, <2>2, <3>1
  <2>5. QED
    BY <2>3, <2>4
<1>11. active' >= SumFunctionOnSet(g, RangesIn')
  <2>1. CASE r # NoRange /\ InRange(r)
    <3>1. RangesIn' = V \cup {p} /\ p \notin V
      BY <1>6, <2>1
    <3>2. \A q \in V \cup {p} : g[q] \in Int
      BY <1>2, <1>7, <1>8, <1>9, <3>1
    <3>3. SumFunctionOnSet(g, V \cup {p}) = g[p] + SumFunctionOnSet(f, V)
      <4> HIDE DEF V
      <4>1. IsFiniteSet(V) /\ p \notin V
        BY <1>6, <3>1
      <4>2. QED
        BY <1>8, <3>2, <4>1, SumAdd
    <3>4. g[p] = l /\ active' = active + l
      BY <1>1, <1>3, <1>9, <2>1, <3>1
    <3>5. QED
      BY <1>2, <1>10, <3>1, <3>3, <3>4
  <2>2. CASE ~(r # NoRange /\ InRange(r))
    <3>1. RangesIn' = V
      BY <1>6, <2>2
    <3>2. SumFunctionOnSet(g, V) = SumFunctionOnSet(f, V)
      BY <1>8, SumSame
    <3>3. active' >= active
      BY <1>1, <1>2
    <3>4. active' \in Nat
      BY <1>1, <1>2
    <3>5. QED
      BY <1>2, <1>10, <3>1, <3>2, <3>3, <3>4
  <2>3. QED
    BY <2>1, <2>2
<1>12. ActiveCoversRanges'
  BY <1>11 DEF ActiveCoversRanges, g
<1>13. AmmTypeOK' /\ SupplyIsShares' /\ SupplyIsBacked'
  BY <1>0, <1>1, <1>2 DEF AmmTypeOK, SupplyIsShares, SupplyIsBacked
<1>14. QED
  BY <1>5, <1>12, <1>13 DEF AmmInv, PoolSound

LEMMA AmmSteps == AmmInv /\ [AmmNext]_ammVars => AmmInv'
<1> SUFFICES ASSUME AmmInv, [AmmNext]_ammVars PROVE AmmInv'
  OBVIOUS
<1>1. CASE UNCHANGED ammVars \/ GiveUp
  <2>1. UNCHANGED <<reserve, supply, share, active, range>> /\ waiting' \in BOOLEAN
    BY <1>1 DEF ammVars, GiveUp, AmmInv, PoolSound, AmmTypeOK
  <2>2. AmmTypeOK' /\ SupplyIsShares' /\ SupplyIsBacked'
    BY <2>1 DEF AmmInv, PoolSound, AmmTypeOK, SupplyIsShares, SupplyIsBacked
  <2>3. QED
    BY <2>1, <2>2, RangesUntouched DEF AmmInv, PoolSound
<1>2. CASE PoolNext
  BY <1>1, <1>2, AddFirstSound, AddMoreSound, RemoveSharesSound, SwapSound DEF PoolNext
<1>3. CASE RangeNext
  BY <1>3, AddConcentratedSound DEF RangeNext
<1>4. QED
  BY <1>1, <1>2, <1>3 DEF AmmNext

-----------------------------------------------------------------------------
(* FlashLoan, its books: where a call is tells whether its loan is out,     *)
(* came back, or was recorded.                                              *)

LoanPlaces ==
    /\ paidIn \in Nat /\ paidOut \in [total : Nat, lost : Nat]
    /\ \A c \in LoanCalls :
         /\ step[c] \in {"repay", "credit", "settle", "record"} => c \in DOMAIN loans
         /\ c \in DOMAIN loans => Reached(c) \in {"repay", "credit", "settle", "record", "done"}
         /\ step[c] = "record" => loans[c] = "Repaid"

LoanRecords ==
    /\ \A i, j \in DOMAIN records : records[i] = records[j] => i = j
    /\ \A i \in DOMAIN records : /\ step[records[i]] = "done" /\ records[i] \in DOMAIN loans
                                 /\ loans[records[i]] = "Repaid"
    /\ \A c \in DOMAIN loans : step[c] = "done" => \E i \in DOMAIN records : records[i] = c

LoanBooks == LoanTypeOK /\ LoanPlaces /\ LoanRecords
LoanInv == LoanBooks /\ PoolAccounts

LEMMA NoSum == \A f : SumFunctionOnSet(f, {}) = 0
<1>1. \A f : \A x \in {} : f[x] \in Int
  OBVIOUS
<1>2. QED
  BY <1>1, FS_EmptySet, SumStep

LEMMA LoanStarts == LoanInit => LoanInv
<1> SUFFICES ASSUME LoanInit PROVE LoanInv
  OBVIOUS
<1>1. LoanTypeOK
  BY LoanInitOK
<1>2. LoanPlaces /\ LoanRecords
  BY DEF LoanInit, LoanPlaces, LoanRecords
<1>3. Out = {} /\ Back = {}
  BY DEF LoanInit, Out, Back, Reached
<1>4. Lent = 0 /\ Earned = 0 /\ Charged = 0
  BY <1>3, NoSum DEF Lent, Earned, Charged
<1>5. PoolAccounts
  BY <1>4 DEF LoanInit, PoolAccounts
<1>6. QED
  BY <1>1, <1>2, <1>5 DEF LoanInv, LoanBooks

(* A call that moves reaches where it goes; nobody else is affected.        *)
LEMMA ReachedMoves ==
    ASSUME LoanTypeOK, NEW c \in LoanCalls, NEW l, l # "dropped", step[c] # "dropped",
           step' = [step EXCEPT ![c] = l], left' = left
    PROVE  /\ Reached(c) = step[c] /\ Reached(c)' = l /\ step'[c] = l
           /\ \A d \in LoanCalls \ {c} : Reached(d)' = Reached(d) /\ step'[d] = step[d]
BY DEF LoanTypeOK, LoanData, Reached

(* The sums are the same when the loans out and back, and what they were    *)
(* for, are the same.                                                       *)
LEMMA SumsKept ==
    ASSUME LoanTypeOK, Out' = Out, Back' = Back, \A c \in Out \cup Back : asked'[c] = asked[c]
    PROVE  Lent' = Lent /\ Earned' = Earned /\ Charged' = Charged
<1>1. SumFunctionOnSet(asked', Out) = SumFunctionOnSet(asked, Out)
  <2> DEFINE f == asked
             g == asked'
  <2>1. \A c \in Out : g[c] = f[c]
    OBVIOUS
  <2> HIDE DEF f, g
  <2>2. SumFunctionOnSet(g, Out) = SumFunctionOnSet(f, Out)
    BY <2>1, SumSame
  <2>3. QED
    BY <2>2 DEF f, g
<1>2. [c \in Back' |-> Fee(asked'[c]) + Profit(asked'[c])] = [c \in Back |-> Fee(asked[c]) + Profit(asked[c])]
  OBVIOUS
<1>3. [c \in Back' |-> Fee(asked'[c])] = [c \in Back |-> Fee(asked[c])]
  OBVIOUS
<1>4. QED
  BY <1>1, <1>2, <1>3 DEF Lent, Earned, Charged

(* The sums are numbers. *)
LEMMA LoanSumsTyped ==
    ASSUME LoanTypeOK
    PROVE  /\ Lent \in Int /\ Earned \in Int /\ Charged \in Int
           /\ IsFiniteSet(Out) /\ IsFiniteSet(Back)
           /\ \A c \in LoanCalls : asked[c] \in LoanAmounts \cup {0}
<1>1. \A c \in LoanCalls : asked[c] \in LoanAmounts \cup {0}
  BY DEF LoanTypeOK, LoanData
<1>2. /\ IsFiniteSet(Out) /\ IsFiniteSet(Back) /\ Out \subseteq LoanCalls /\ Back \subseteq LoanCalls
  BY LoanAssumption, FS_Subset DEF LoanTypeOK, LoanData, Out, Back
<1>3. \A c \in LoanCalls : asked[c] \in Int /\ Fee(asked[c]) \in Int /\ Profit(asked[c]) \in Int
  BY <1>1, FeesAreNat
<1>4. Lent \in Int
  BY <1>2, <1>3, SumStep DEF Lent
<1>5. Earned \in Int
  <2> DEFINE f == [c \in Back |-> Fee(asked[c]) + Profit(asked[c])]
  <2>1. \A c \in Back : f[c] \in Int
    BY <1>2, <1>3
  <2> HIDE DEF f
  <2>2. SumFunctionOnSet(f, Back) \in Int
    BY <1>2, <2>1, SumStep
  <2>3. QED
    BY <2>2 DEF Earned, f
<1>6. Charged \in Int
  <2> DEFINE f == [c \in Back |-> Fee(asked[c])]
  <2>1. \A c \in Back : f[c] \in Int
    BY <1>2, <1>3
  <2> HIDE DEF f
  <2>2. SumFunctionOnSet(f, Back) \in Int
    BY <1>2, <2>1, SumStep
  <2>3. QED
    BY <2>2 DEF Charged, f
<1>7. QED
  BY <1>1, <1>2, <1>4, <1>5, <1>6

(* A loan goes out (flash_loan.rs:95). *)
LEMMA LoanGoesOut ==
    ASSUME LoanTypeOK, NEW c \in LoanCalls, c \notin Out, Out' = Out \cup {c}, Back' = Back, c \notin Back,
           NEW a \in LoanAmounts, asked' = [asked EXCEPT ![c] = a]
    PROVE  Lent' = Lent + a /\ Earned' = Earned /\ Charged' = Charged
<1>9. \A d \in LoanCalls : asked[d] \in Int
  <2>1. \A d \in LoanCalls : asked[d] \in LoanAmounts \cup {0}
    BY LoanSumsTyped
  <2>2. \A d \in LoanAmounts : d \in Int
    BY LoanAssumption
  <2>3. QED
    BY <2>1, <2>2
<1> DEFINE f == asked
           g == asked'
<1>0. a \in Nat /\ Out \subseteq LoanCalls /\ Back \subseteq LoanCalls
  BY LoanAssumption DEF Out, Back, LoanTypeOK, LoanData
<1>1. /\ g[c] = a /\ \A d \in LoanCalls \ {c} : g[d] = f[d]
  BY DEF LoanTypeOK, LoanData
<1>2. \A d \in LoanCalls : f[d] \in Int
  BY <1>9
<1>3. Lent \in Int /\ IsFiniteSet(Out)
  BY LoanSumsTyped
<1>4. Lent = SumFunctionOnSet(f, Out) /\ Lent' = SumFunctionOnSet(g, Out \cup {c})
  BY DEF Lent
<1>5. [d \in Back' |-> Fee(asked'[d]) + Profit(asked'[d])] = [d \in Back |-> Fee(asked[d]) + Profit(asked[d])]
  BY <1>0, <1>1
<1>6. [d \in Back' |-> Fee(asked'[d])] = [d \in Back |-> Fee(asked[d])]
  BY <1>0, <1>1
<1> HIDE DEF f, g
<1>7. SumFunctionOnSet(g, Out \cup {c}) = g[c] + SumFunctionOnSet(f, Out)
  <2>1. \A d \in Out \cup {c} : g[d] \in Int
    BY <1>0, <1>1, <1>2
  <2>2. \A d \in Out : f[d] = g[d]
    BY <1>0, <1>1
  <2>3. QED
    BY <1>3, <2>1, <2>2, SumAdd
<1>8. QED
  BY <1>0, <1>1, <1>3, <1>4, <1>5, <1>6, <1>7 DEF Earned, Charged

(* A loan comes back with its fee and the borrower's profit                 *)
(* (flash_loan.rs:183-187).                                                 *)
LEMMA LoanComesBack ==
    ASSUME LoanTypeOK, NEW c \in Out, c \notin Back, Out' = Out \ {c}, Back' = Back \cup {c}, asked' = asked
    PROVE  /\ Lent = Lent' + asked[c] /\ Lent' \in Int
           /\ Earned' = Earned + (Fee(asked[c]) + Profit(asked[c]))
           /\ Charged' = Charged + Fee(asked[c])
<1>0. Out \subseteq LoanCalls /\ Back \subseteq LoanCalls
  BY DEF Out, Back, LoanTypeOK, LoanData
<1>1. /\ IsFiniteSet(Out) /\ IsFiniteSet(Back) /\ Lent \in Int /\ Earned \in Int /\ Charged \in Int
  BY LoanSumsTyped
<1>2. \A d \in LoanCalls : asked[d] \in Int /\ Fee(asked[d]) \in Int /\ Profit(asked[d]) \in Int
  BY LoanSumsTyped, FeesAreNat
<1>3. Lent = Lent' + asked[c] /\ Lent' \in Int
  <2>1. SumFunctionOnSet(asked, Out) = asked[c] + SumFunctionOnSet(asked, Out \ {c})
    BY <1>0, <1>1, <1>2, SumRemove
  <2>2. SumFunctionOnSet(asked, Out \ {c}) \in Int
    <3>1. IsFiniteSet(Out \ {c}) /\ \A d \in Out \ {c} : asked[d] \in Int
      BY <1>0, <1>1, <1>2, FS_RemoveElement
    <3>2. QED
      BY <3>1, SumStep
  <2>3. asked[c] \in Int
    BY <1>0, <1>2
  <2>4. QED
    BY <2>1, <2>2, <2>3 DEF Lent
<1>4. Earned' = Earned + (Fee(asked[c]) + Profit(asked[c]))
  <2> DEFINE f == [d \in Back |-> Fee(asked[d]) + Profit(asked[d])]
             g == [d \in Back \cup {c} |-> Fee(asked[d]) + Profit(asked[d])]
  <2>1. (\A d \in Back \cup {c} : g[d] \in Int) /\ \A d \in Back : f[d] = g[d]
    BY <1>0, <1>2
  <2>2. g[c] = Fee(asked[c]) + Profit(asked[c])
    OBVIOUS
  <2>3. Earned = SumFunctionOnSet(f, Back) /\ Earned' = SumFunctionOnSet(g, Back \cup {c})
    BY DEF Earned
  <2> HIDE DEF f, g
  <2>4. SumFunctionOnSet(g, Back \cup {c}) = g[c] + SumFunctionOnSet(f, Back)
    BY <1>1, <2>1, SumAdd
  <2>5. g[c] \in Int
    BY <2>1
  <2>6. QED
    BY <1>1, <2>2, <2>3, <2>4, <2>5
<1>5. Charged' = Charged + Fee(asked[c])
  <2> DEFINE f == [d \in Back |-> Fee(asked[d])]
             g == [d \in Back \cup {c} |-> Fee(asked[d])]
  <2>1. (\A d \in Back \cup {c} : g[d] \in Int) /\ \A d \in Back : f[d] = g[d]
    BY <1>0, <1>2
  <2>2. g[c] = Fee(asked[c])
    OBVIOUS
  <2>3. Charged = SumFunctionOnSet(f, Back) /\ Charged' = SumFunctionOnSet(g, Back \cup {c})
    BY DEF Charged
  <2> HIDE DEF f, g
  <2>4. SumFunctionOnSet(g, Back \cup {c}) = g[c] + SumFunctionOnSet(f, Back)
    BY <1>1, <2>1, SumAdd
  <2>5. g[c] \in Int
    BY <2>1
  <2>6. QED
    BY <1>1, <2>2, <2>3, <2>4, <2>5
<1>6. QED
  BY <1>3, <1>4, <1>5

(* What a step that moves one call has to show of the sums. *)
LEMMA AccountsKept ==
    ASSUME LoanTypeOK, PoolAccounts, NEW c \in LoanCalls, Out' = Out, Back' = Back,
           asked' = asked \/ (c \notin Out \cup Back /\ \E a : asked' = [asked EXCEPT ![c] = a])
    PROVE  Lent' = Lent /\ Earned' = Earned /\ Charged' = Charged
<1>1. Out \subseteq LoanCalls /\ Back \subseteq LoanCalls
  BY DEF Out, Back, LoanTypeOK, LoanData
<1>2. \A d \in Out \cup Back : asked'[d] = asked[d]
  BY <1>1 DEF LoanTypeOK, LoanData
<1>3. QED
  BY <1>2, SumsKept

LEMMA LoanStepBooks ==
    LoanBooks /\ [LoanNext]_loanVars => LoanPlaces' /\ LoanRecords'
<1> SUFFICES ASSUME LoanBooks, [LoanNext]_loanVars PROVE LoanPlaces' /\ LoanRecords'
  OBVIOUS
<1> USE DEF LoanBooks
<1>1. CASE UNCHANGED loanVars
  BY <1>1 DEF loanVars, LoanPlaces, LoanRecords, Reached
<1>2. ASSUME NEW c \in LoanCalls, LoanGiveUp(c)
      PROVE  LoanPlaces' /\ LoanRecords'
  <2>1. /\ Reached(c)' = Reached(c) /\ step'[c] = "dropped" /\ step[c] # "done"
        /\ \A d \in LoanCalls \ {c} : Reached(d)' = Reached(d) /\ step'[d] = step[d]
        /\ UNCHANGED <<loans, records, paidIn, paidOut>>
    BY <1>2 DEF LoanGiveUp, Step, Reached, LoanTypeOK, LoanData
  <2>2. LoanPlaces'
    BY <2>1 DEF LoanPlaces, LoanTypeOK, LoanData
  <2>3. LoanRecords'
    BY <2>1 DEF LoanRecords, LoanTypeOK, LoanData
  <2>4. QED
    BY <2>2, <2>3
<1>3. ASSUME NEW c \in LoanCalls, NEW a \in LoanAmounts,
             AddLiquidity(c, a) \/ RemoveLiquidity(c, a) \/ LoanDebit(c, a)
      PROVE  LoanPlaces' /\ LoanRecords'
  <2>1. /\ step[c] = "idle" /\ UNCHANGED <<loans, records, left>>
        /\ \E l \in {"done", "failed", "panicked", "store"} : step' = [step EXCEPT ![c] = l]
    BY <1>3 DEF AddLiquidity, RemoveLiquidity, LoanDebit, Step
  <2>2. PICK l \in {"done", "failed", "panicked", "store"} : step' = [step EXCEPT ![c] = l]
    BY <2>1
  <2>3. /\ Reached(c) = "idle" /\ Reached(c)' = l /\ step'[c] = l
        /\ \A d \in LoanCalls \ {c} : Reached(d)' = Reached(d) /\ step'[d] = step[d]
    BY <2>1, <2>2, ReachedMoves
  <2>4. c \notin DOMAIN loans
    BY <2>3 DEF LoanPlaces
  <2>5. a \in Nat
    BY LoanAssumption
  <2>6. paidIn' \in Nat /\ paidOut' \in [total : Nat, lost : Nat]
    BY <1>3, <2>5 DEF AddLiquidity, RemoveLiquidity, LoanDebit, LoanPlaces
  <2>7. LoanPlaces'
    BY <2>1, <2>2, <2>3, <2>4, <2>6 DEF LoanPlaces
  <2>8. LoanRecords'
    BY <2>1, <2>3, <2>4 DEF LoanRecords, LoanTypeOK, LoanData
  <2>9. QED
    BY <2>7, <2>8
<1>4. ASSUME NEW c \in LoanCalls, LoanStore(c)
      PROVE  LoanPlaces' /\ LoanRecords'
  <2>1. /\ Reached(c) = "store" /\ Reached(c)' = "repay" /\ step'[c] = "repay"
        /\ \A d \in LoanCalls \ {c} : Reached(d)' = Reached(d) /\ step'[d] = step[d]
    BY <1>4, ReachedMoves DEF LoanStore, Step
  <2>2. c \notin DOMAIN loans
    BY <2>1 DEF LoanPlaces
  <2>3. /\ DOMAIN loans' = DOMAIN loans \cup {c} /\ loans'[c] = "Active"
        /\ \A d \in DOMAIN loans : loans'[d] = loans[d]
        /\ UNCHANGED <<records, paidIn, paidOut>>
    BY <1>4, <2>2 DEF LoanStore
  <2>4. LoanPlaces'
    BY <2>1, <2>2, <2>3 DEF LoanPlaces
  <2>5. LoanRecords'
    BY <2>1, <2>2, <2>3 DEF LoanRecords, LoanTypeOK, LoanData
  <2>6. QED
    BY <2>4, <2>5
<1>5. ASSUME NEW c \in LoanCalls, LoanRepay(c) \/ LoanCredit(c) \/ LoanSettle(c)
      PROVE  LoanPlaces' /\ LoanRecords'
  <2>1. /\ step[c] \in {"repay", "credit", "settle"} /\ UNCHANGED <<records, paidIn, paidOut, left>>
        /\ \E l \in {"credit", "settle", "record"} :
              /\ step' = [step EXCEPT ![c] = l]
              /\ loans' = IF l = "record" THEN [loans EXCEPT ![c] = "Repaid"] ELSE loans
    BY <1>5 DEF LoanRepay, LoanCredit, LoanSettle, Step
  <2>2. PICK l \in {"credit", "settle", "record"} :
           /\ step' = [step EXCEPT ![c] = l]
           /\ loans' = IF l = "record" THEN [loans EXCEPT ![c] = "Repaid"] ELSE loans
    BY <2>1
  <2>3. /\ Reached(c) = step[c] /\ Reached(c)' = l /\ step'[c] = l
        /\ \A d \in LoanCalls \ {c} : Reached(d)' = Reached(d) /\ step'[d] = step[d]
    BY <2>1, <2>2, ReachedMoves
  <2>4. c \in DOMAIN loans
    BY <2>1 DEF LoanPlaces
  <2>5. /\ DOMAIN loans' = DOMAIN loans /\ (l = "record" => loans'[c] = "Repaid")
        /\ \A d \in DOMAIN loans \ {c} : loans'[d] = loans[d]
    BY <2>2, <2>4
  <2>6. LoanPlaces'
    BY <2>1, <2>3, <2>4, <2>5 DEF LoanPlaces, LoanTypeOK, LoanData
  <2>7. LoanRecords'
    BY <2>1, <2>2, <2>3, <2>4, <2>5 DEF LoanRecords, LoanTypeOK, LoanData
  <2>8. QED
    BY <2>6, <2>7
<1>6. ASSUME NEW c \in LoanCalls, LoanRecord(c)
      PROVE  LoanPlaces' /\ LoanRecords'
  <2>1. /\ Reached(c) = "record" /\ Reached(c)' = "done" /\ step'[c] = "done" /\ step[c] = "record"
        /\ \A d \in LoanCalls \ {c} : Reached(d)' = Reached(d) /\ step'[d] = step[d]
    BY <1>6, ReachedMoves DEF LoanRecord, Step
  <2>2. c \in DOMAIN loans /\ loans[c] = "Repaid"
    BY <2>1 DEF LoanPlaces
  <2>3. /\ UNCHANGED <<loans, paidIn, paidOut>>
        /\ DOMAIN records' = DOMAIN records \cup {Len(records) + 1} /\ records'[Len(records) + 1] = c
        /\ \A i \in DOMAIN records : records'[i] = records[i] /\ records[i] \in LoanCalls
        /\ Len(records) + 1 \notin DOMAIN records
    BY <1>6 DEF LoanRecord, LoanTypeOK, LoanData
  <2>4. \A i \in DOMAIN records : records[i] # c
    BY <2>1 DEF LoanRecords
  <2>5. LoanPlaces'
    BY <2>1, <2>2, <2>3 DEF LoanPlaces
  <2>6. \A i, j \in DOMAIN records' : records'[i] = records'[j] => i = j
    BY <2>3, <2>4 DEF LoanRecords
  <2>7. \A i \in DOMAIN records' : /\ step'[records'[i]] = "done" /\ records'[i] \in DOMAIN loans'
                                   /\ loans'[records'[i]] = "Repaid"
    BY <2>1, <2>2, <2>3, <2>4 DEF LoanRecords
  <2>8. \A d \in DOMAIN loans' : step'[d] = "done" => \E i \in DOMAIN records' : records'[i] = d
    <3>1. SUFFICES ASSUME NEW d \in DOMAIN loans, step'[d] = "done"
                   PROVE  \E i \in DOMAIN records' : records'[i] = d
      BY <2>3
    <3>2. CASE d = c
      BY <2>3, <3>2
    <3>3. CASE d # c
      <4>1. PICK i \in DOMAIN records : records[i] = d
        BY <2>1, <3>1, <3>3 DEF LoanRecords, LoanTypeOK, LoanData
      <4>2. QED
        BY <2>3, <4>1
    <3>4. QED
      BY <3>2, <3>3
  <2>9. QED
    BY <2>5, <2>6, <2>7, <2>8 DEF LoanRecords
<1>7. ASSUME NEW c \in LoanCalls, StatsActive(c)
      PROVE  LoanPlaces' /\ LoanRecords'
  <2>1. /\ Reached(c) = "stats" /\ Reached(c)' = "done" /\ step'[c] = "done" /\ step[c] = "stats"
        /\ \A d \in LoanCalls \ {c} : Reached(d)' = Reached(d) /\ step'[d] = step[d]
        /\ UNCHANGED <<loans, records, paidIn, paidOut>>
    BY <1>7, ReachedMoves DEF StatsActive, Step
  <2>2. c \notin DOMAIN loans
    BY <2>1 DEF LoanPlaces
  <2>3. LoanPlaces'
    BY <2>1, <2>2 DEF LoanPlaces
  <2>4. LoanRecords'
    BY <2>1, <2>2 DEF LoanRecords, LoanTypeOK, LoanData
  <2>5. QED
    BY <2>3, <2>4
<1>8. ASSUME NEW c \in LoanCalls, StatsHistory(c)
      PROVE  LoanPlaces' /\ LoanRecords'
  <2>1. /\ Reached(c) = "idle" /\ Reached(c)' = "stats" /\ step'[c] = "stats" /\ step[c] = "idle"
        /\ \A d \in LoanCalls \ {c} : Reached(d)' = Reached(d) /\ step'[d] = step[d]
        /\ UNCHANGED <<loans, records, paidIn, paidOut>>
    BY <1>8, ReachedMoves DEF StatsHistory, Step
  <2>2. c \notin DOMAIN loans
    BY <2>1 DEF LoanPlaces
  <2>3. LoanPlaces'
    BY <2>1, <2>2 DEF LoanPlaces
  <2>4. LoanRecords'
    BY <2>1, <2>2 DEF LoanRecords, LoanTypeOK, LoanData
  <2>5. QED
    BY <2>3, <2>4
<1>9. QED
  BY <1>1, <1>2, <1>3, <1>4, <1>5, <1>6, <1>7, <1>8 DEF LoanNext, LoanCallStart, LoanCallStep

(* A step that lends nothing and takes nothing back keeps the sums. *)
LEMMA QuietKeepsSums ==
    ASSUME LoanTypeOK, LoanPlaces, NEW c \in LoanCalls, NEW l,
           step[c] # "dropped", l # "dropped", step' = [step EXCEPT ![c] = l], left' = left,
           c \in Out <=> l \in {"store", "repay", "credit"},
           DOMAIN loans' = DOMAIN loans \/ (c \notin DOMAIN loans /\ DOMAIN loans' = DOMAIN loans \cup {c}),
           c \in Back <=> l \in {"settle", "record", "done"} /\ c \in DOMAIN loans',
           asked' = asked \/ (step[c] = "idle" /\ \E a : asked' = [asked EXCEPT ![c] = a])
    PROVE  Lent' = Lent /\ Earned' = Earned /\ Charged' = Charged
<1>1. /\ Reached(c) = step[c] /\ Reached(c)' = l
      /\ \A d \in LoanCalls \ {c} : Reached(d)' = Reached(d)
  BY ReachedMoves
<1>2. DOMAIN loans \subseteq LoanCalls
  BY DEF LoanTypeOK, LoanData
<1>3. Out' = Out
  BY <1>1 DEF Out
<1>4. Back' = Back
  BY <1>1, <1>2 DEF Back
<1>5. asked' = asked \/ (c \notin Out \cup Back /\ \E a : asked' = [asked EXCEPT ![c] = a])
  BY <1>1 DEF Out, Back
<1>6. \A d \in Out \cup Back : asked'[d] = asked[d]
  BY <1>2, <1>5 DEF Out, Back, LoanTypeOK, LoanData
<1>7. QED
  BY <1>3, <1>4, <1>6, SumsKept

(* A call that has not begun is in neither set; a loan on its way is where  *)
(* its step says.                                                           *)
LEMMA WhereCallsAre ==
    ASSUME LoanTypeOK, LoanPlaces, NEW c \in LoanCalls, step[c] # "dropped"
    PROVE  /\ c \in Out <=> step[c] \in {"store", "repay", "credit"}
           /\ c \in Back <=> step[c] \in {"settle", "record", "done"} /\ c \in DOMAIN loans
           /\ step[c] \in {"idle", "stats", "store"} => c \notin DOMAIN loans
           /\ step[c] \in {"repay", "credit", "settle", "record"} => c \in DOMAIN loans
BY DEF LoanPlaces, Out, Back, Reached

(* The money a pool holds, in numbers. *)
LEMMA PoolTyped ==
    ASSUME LoanBooks
    PROVE  /\ pool = [exists |-> pool.exists, available |-> pool.available, total |-> pool.total]
           /\ pool.available \in Nat /\ pool.total \in Nat /\ paidIn \in Nat
           /\ paidOut = [total |-> paidOut.total, lost |-> paidOut.lost]
           /\ paidOut.total \in Nat /\ paidOut.lost \in Nat
           /\ Lent \in Int /\ Earned \in Int /\ Charged \in Int
BY LoanSumsTyped DEF LoanBooks, LoanPlaces, LoanTypeOK, LoanData

LEMMA AddAccounts ==
    ASSUME LoanBooks, PoolAccounts, NEW c \in LoanCalls, NEW a \in LoanAmounts, AddLiquidity(c, a)
    PROVE  PoolAccounts'
<1>1. step[c] = "idle" /\ loans' = loans /\ left' = left /\ step' = [step EXCEPT ![c] = "done"]
      /\ asked' = [asked EXCEPT ![c] = a]
  BY DEF AddLiquidity, Step
<1>2. Lent' = Lent /\ Earned' = Earned /\ Charged' = Charged
  BY <1>1, QuietKeepsSums, WhereCallsAre DEF LoanBooks
<1>3. a \in Nat
  BY LoanAssumption
<1>4. /\ pool'.available = pool.available + a /\ pool'.total = pool.total + a
      /\ paidIn' = paidIn + a /\ paidOut' = paidOut
  BY DEF AddLiquidity
<1>5. QED
  BY <1>2, <1>3, <1>4, PoolTyped DEF PoolAccounts

LEMMA RemoveAccounts ==
    ASSUME LoanBooks, PoolAccounts, NEW c \in LoanCalls, NEW a \in LoanAmounts, RemoveLiquidity(c, a)
    PROVE  PoolAccounts'
<1>1. /\ step[c] = "idle" /\ loans' = loans /\ left' = left /\ asked' = [asked EXCEPT ![c] = a]
      /\ \E l \in {"failed", "done", "panicked"} : step' = [step EXCEPT ![c] = l]
  BY DEF RemoveLiquidity, Step
<1>2. Lent' = Lent /\ Earned' = Earned /\ Charged' = Charged
  <2>1. PICK l \in {"failed", "done", "panicked"} : step' = [step EXCEPT ![c] = l]
    BY <1>1
  <2>2. QED
    BY <1>1, <2>1, QuietKeepsSums, WhereCallsAre DEF LoanBooks
<1>3. a \in Nat
  BY LoanAssumption
<1>4. /\ paidIn' = paidIn
      /\ \/ pool' = pool /\ paidOut' = paidOut
         \/ /\ pool'.available = pool.available - a /\ pool'.total = pool.total - a
            /\ paidOut'.total = paidOut.total + a /\ paidOut'.lost = paidOut.lost
         \/ /\ pool'.available = pool.available - a /\ pool'.total = pool.total
            /\ paidOut'.total = paidOut.total /\ paidOut'.lost = paidOut.lost + a
  BY PoolTyped DEF RemoveLiquidity
<1>5. QED
  BY <1>2, <1>3, <1>4, PoolTyped DEF PoolAccounts

LEMMA DebitAccounts ==
    ASSUME LoanBooks, PoolAccounts, NEW c \in LoanCalls, NEW a \in LoanAmounts, LoanDebit(c, a)
    PROVE  PoolAccounts'
<1>1. /\ step[c] = "idle" /\ loans' = loans /\ left' = left /\ asked' = [asked EXCEPT ![c] = a]
      /\ paidIn' = paidIn /\ paidOut' = paidOut
  BY DEF LoanDebit
<1>2. a \in Nat
  BY LoanAssumption
<1>3. CASE CanWithdraw(a)
  <2>1. step' = [step EXCEPT ![c] = "store"] /\ pool'.available = pool.available - a /\ pool'.total = pool.total
    BY <1>3, PoolTyped DEF LoanDebit, Step
  <2>2. /\ Reached(c) = "idle" /\ Reached(c)' = "store"
        /\ \A d \in LoanCalls \ {c} : Reached(d)' = Reached(d)
    BY <1>1, <2>1, ReachedMoves DEF LoanBooks
  <2>3. /\ Out' = Out \cup {c} /\ c \notin Out /\ Back' = Back /\ c \notin Back
    BY <1>1, <2>2 DEF Out, Back, LoanBooks, LoanTypeOK, LoanData
  <2>4. Lent' = Lent + a /\ Earned' = Earned /\ Charged' = Charged
    BY <1>1, <2>3, LoanGoesOut DEF LoanBooks
  <2>5. QED
    BY <1>1, <1>2, <2>1, <2>4, PoolTyped DEF PoolAccounts
<1>4. CASE ~CanWithdraw(a)
  <2>1. step' = [step EXCEPT ![c] = "failed"] /\ pool' = pool
    BY <1>4 DEF LoanDebit, Step
  <2>2. Lent' = Lent /\ Earned' = Earned /\ Charged' = Charged
    BY <1>1, <2>1, QuietKeepsSums, WhereCallsAre DEF LoanBooks
  <2>3. QED
    BY <1>1, <2>1, <2>2 DEF PoolAccounts
<1>5. QED
  BY <1>3, <1>4

LEMMA CreditAccounts ==
    ASSUME LoanBooks, PoolAccounts, NEW c \in LoanCalls, LoanCredit(c)
    PROVE  PoolAccounts'
<1>1. /\ step[c] = "credit" /\ step' = [step EXCEPT ![c] = "settle"]
      /\ UNCHANGED <<loans, left, asked, paidIn, paidOut>>
      /\ pool'.available = pool.available + Repaid(asked[c])
      /\ pool'.total = pool.total + Fee(asked[c])
  BY PoolTyped DEF LoanCredit, Step
<1>2. /\ Reached(c) = "credit" /\ Reached(c)' = "settle"
      /\ \A d \in LoanCalls \ {c} : Reached(d)' = Reached(d)
  BY <1>1, ReachedMoves DEF LoanBooks
<1>3. c \in DOMAIN loans
  BY <1>1, WhereCallsAre DEF LoanBooks
<1>4. c \in Out /\ c \notin Back /\ Out' = Out \ {c}
  BY <1>2 DEF Out, Back
<1>5. Back' = Back \cup {c}
  BY <1>1, <1>2, <1>3 DEF Back, LoanBooks, LoanTypeOK, LoanData
<1>6. /\ Lent = Lent' + asked[c] /\ Lent' \in Int
      /\ Earned' = Earned + (Fee(asked[c]) + Profit(asked[c]))
      /\ Charged' = Charged + Fee(asked[c])
  BY <1>1, <1>4, <1>5, LoanComesBack DEF LoanBooks
<1>7. asked[c] \in Nat /\ Fee(asked[c]) \in Nat /\ Profit(asked[c]) \in Nat
  <2>1. asked[c] \in LoanAmounts \cup {0}
    BY LoanSumsTyped DEF LoanBooks
  <2>2. QED
    BY <2>1, FeesAreNat
<1>8. Repaid(asked[c]) = asked[c] + Fee(asked[c]) + Profit(asked[c])
  BY DEF Repaid
<1> DEFINE fee == Fee(asked[c])
           profit == Profit(asked[c])
<1> HIDE DEF fee, profit
<1>9. QED
  BY <1>1, <1>6, <1>7, <1>8, PoolTyped DEF PoolAccounts

LEMMA LoanStepAccounts ==
    LoanInv /\ [LoanNext]_loanVars => PoolAccounts'
<1> SUFFICES ASSUME LoanInv, [LoanNext]_loanVars PROVE PoolAccounts'
  OBVIOUS
<1> USE DEF LoanInv
<1>1. LoanTypeOK /\ LoanPlaces
  BY DEF LoanBooks
<1>2. CASE UNCHANGED loanVars
  <2>1. Out' = Out /\ Back' = Back
    BY <1>2 DEF loanVars, Out, Back, Reached
  <2>2. Lent' = Lent /\ Earned' = Earned /\ Charged' = Charged
    BY <1>1, <1>2, <2>1, SumsKept DEF loanVars
  <2>3. QED
    BY <1>2, <2>2 DEF loanVars, PoolAccounts
<1>3. ASSUME NEW c \in LoanCalls, LoanGiveUp(c)
      PROVE  PoolAccounts'
  <2>1. /\ UNCHANGED <<pool, loans, asked, paidIn, paidOut>>
        /\ \A d \in LoanCalls : Reached(d)' = Reached(d)
    BY <1>1, <1>3 DEF LoanGiveUp, Step, Reached, LoanTypeOK, LoanData
  <2>2. Out' = Out /\ Back' = Back
    BY <1>1, <2>1 DEF Out, Back, LoanTypeOK, LoanData
  <2>3. Lent' = Lent /\ Earned' = Earned /\ Charged' = Charged
    BY <1>1, <2>1, <2>2, SumsKept
  <2>4. QED
    BY <2>1, <2>3 DEF PoolAccounts
<1>4. ASSUME NEW c \in LoanCalls,
             LoanStore(c) \/ LoanRepay(c) \/ LoanSettle(c) \/ LoanRecord(c) \/ StatsHistory(c) \/ StatsActive(c)
      PROVE  PoolAccounts'
  <2>1. /\ UNCHANGED <<pool, asked, paidIn, paidOut, left>> /\ step[c] # "dropped"
        /\ \E l \in {"repay", "credit", "record", "done", "stats"} :
              /\ step' = [step EXCEPT ![c] = l]
              /\ \/ l = "repay" /\ step[c] = "store" /\ DOMAIN loans' = DOMAIN loans \cup {c}
                 \/ l = "credit" /\ step[c] = "repay" /\ loans' = loans
                 \/ l = "record" /\ step[c] = "settle" /\ DOMAIN loans' = DOMAIN loans
                 \/ l = "done" /\ step[c] \in {"record", "stats"} /\ loans' = loans
                 \/ l = "stats" /\ step[c] = "idle" /\ loans' = loans
    BY <1>4 DEF LoanStore, LoanRepay, LoanSettle, LoanRecord, StatsHistory, StatsActive, Step
  <2>2. PICK l \in {"repay", "credit", "record", "done", "stats"} :
              /\ step' = [step EXCEPT ![c] = l]
              /\ \/ l = "repay" /\ step[c] = "store" /\ DOMAIN loans' = DOMAIN loans \cup {c}
                 \/ l = "credit" /\ step[c] = "repay" /\ loans' = loans
                 \/ l = "record" /\ step[c] = "settle" /\ DOMAIN loans' = DOMAIN loans
                 \/ l = "done" /\ step[c] \in {"record", "stats"} /\ loans' = loans
                 \/ l = "stats" /\ step[c] = "idle" /\ loans' = loans
    BY <2>1
  <2>3. Lent' = Lent /\ Earned' = Earned /\ Charged' = Charged
    BY <1>1, <2>1, <2>2, QuietKeepsSums, WhereCallsAre
  <2>4. QED
    BY <2>1, <2>3 DEF PoolAccounts
<1>5. QED
  BY <1>2, <1>3, <1>4, AddAccounts, RemoveAccounts, DebitAccounts, CreditAccounts
     DEF LoanNext, LoanCallStart, LoanCallStep

LEMMA LoanSteps == LoanInv /\ [LoanNext]_loanVars => LoanInv'
<1>1. LoanInv /\ [LoanNext]_loanVars => LoanTypeOK'
  BY LoanStepOK DEF LoanInv, LoanBooks
<1>2. LoanInv /\ [LoanNext]_loanVars => LoanPlaces' /\ LoanRecords'
  BY LoanStepBooks DEF LoanInv
<1>3. QED
  BY <1>1, <1>2, LoanStepAccounts DEF LoanInv, LoanBooks

LEMMA LoanInvAccounts == LoanInv => PoolAccounts /\ RecordsAreRepaid
<1> SUFFICES ASSUME LoanInv PROVE RecordsAreRepaid
  BY DEF LoanInv
<1>1. \A i \in DOMAIN records : records[i] \in Back
  BY DEF LoanInv, LoanBooks, LoanRecords, Back, Reached
<1>2. QED
  BY <1>1 DEF LoanInv, LoanBooks, LoanRecords, RecordsAreRepaid

-----------------------------------------------------------------------------
(* What a step of the whole is for its pools. *)
LEMMA PoolsMove == [MCNext]_mcVars => [LoanNext]_loanVars /\ [AmmNext]_ammVars
<1> SUFFICES ASSUME [MCNext]_mcVars PROVE [LoanNext]_loanVars /\ [AmmNext]_ammVars
  OBVIOUS
<1>1. CASE UNCHANGED mcVars
  BY <1>1 DEF mcVars, defiVars
<1>2. CASE MCNext
  BY <1>2 DEF MCNext, defiVars, AmmNext
<1>3. QED
  BY <1>1, <1>2

(* Every token a flash loan pool or an AMM pool holds is accounted for: the *)
(* loans out, the fees and the profits, the records, the shares and the     *)
(* ranges agree, whatever the calls and however they interleave             *)
(* (flash_loan.rs:95-186, dex/mod.rs).                                      *)
THEOREM PoolsAlwaysAccount == MCSpec => []PoolsAccount
<1>1. MCInit => LoanInv /\ AmmInv
  BY LoanStarts, AmmStarts DEF MCInit
<1>2. (LoanInv /\ AmmInv) /\ [MCNext]_mcVars => (LoanInv /\ AmmInv)'
  BY PoolsMove, LoanSteps, AmmSteps
<1>3. LoanInv /\ AmmInv => PoolsAccount
  BY LoanInvAccounts DEF PoolsAccount, AmmInv
<1>4. QED
  BY <1>1, <1>2, <1>3, PTL DEF MCSpec

(* Nobody profits from changing tokens there and back in any state the      *)
(* pools reach (amm.rs:179-182).                                            *)
THEOREM RoundTripsAlwaysLose == MCSpec => []RoundTripLoses
<1>1. MCInit => AmmInv
  BY AmmStarts DEF MCInit
<1>2. AmmInv /\ [MCNext]_mcVars => AmmInv'
  BY PoolsMove, AmmSteps
<1>3. AmmInv => RoundTripLoses
  BY RoundTripNeverPays DEF AmmInv, PoolSound
<1>4. QED
  BY <1>1, <1>2, <1>3, PTL DEF MCSpec

(* Minting and burning LP tokens never takes more than dust out of the      *)
(* shares of the others, in any behaviour of the pools (amm.rs:78-159).     *)
THEOREM DilutionIsAlwaysDust == MCSpec => DilutionIsDust
<1>1. MCInit => AmmInv
  BY AmmStarts DEF MCInit
<1>2. AmmInv /\ [MCNext]_mcVars => AmmInv' /\ [AmmNext]_ammVars
  BY PoolsMove, AmmSteps
<1>3. AmmInv /\ AmmInv' /\ [AmmNext]_ammVars => DustStep
  BY StepsDiluteByDust DEF AmmInv, PoolSound
<1>4. AmmInv /\ [MCNext]_mcVars => AmmInv' /\ [DustStep]_ammVars
  BY <1>2, <1>3
<1>5. QED
  BY <1>1, <1>4, PTL DEF MCSpec, DilutionIsDust
-----------------------------------------------------------------------------
(* PrivatePool: an entry of the queue or of a list is what its bundle asks  *)
(* for, and only admitted bundles have entries.                             *)

Entries == {Entry(b) : b \in DOMAIN admitted}

BundlesKept ==
    /\ \A b \in DOMAIN bundles : bundles[b] \in BundleType
    /\ submitting \in [Bundles -> {"idle", "queue", "stats", "done"}]
    /\ DOMAIN bundles = {b \in Bundles : submitting[b] # "idle"}
    /\ DOMAIN admitted = {b \in Bundles : submitting[b] \in {"stats", "done"}}
    /\ IsFiniteSet(DOMAIN admitted)
    /\ \A b \in DOMAIN admitted :
          admitted[b] \in Nat /\ admitted[b] < Cardinality(DOMAIN admitted)

ListsKept ==
    /\ queue \in Seq(Entries)
    /\ handedOut \in Seq([block : Blocks, list : Seq(Entries)])

AllInOrder == InOrder(queue) /\ \A n \in DOMAIN handedOut : InOrder(handedOut[n].list)

ServedOnce ==
    \A n \in DOMAIN handedOut : \A i \in DOMAIN handedOut[n].list :
        LET r == handedOut[n].list[i]
        IN  /\ DueAt(handedOut[n].block, r)
            /\ \A m \in DOMAIN handedOut \ {n} : r \notin Range(handedOut[m].list)
            /\ r \notin Range(queue)

NoneForgotten ==
    \A b \in DOMAIN admitted :
        \/ \E r \in Range(queue) : r.id = b
        \/ \E n \in DOMAIN handedOut :
              \/ \E r \in Range(handedOut[n].list) : r.id = b
              \/ handedOut[n].block > bundles[b].max

PrivateInv == BundlesKept /\ ListsKept /\ AllInOrder /\ ServedOnce /\ NoneForgotten

LEMMA PrivateInvServes == PrivateInv => BundlesServedInOrder
BY DEF PrivateInv, AllInOrder, ServedOnce, NoneForgotten, BundlesServedInOrder

LEMMA PrivateStarts == PoolInit => PrivateInv
<1> SUFFICES ASSUME PoolInit PROVE PrivateInv
  OBVIOUS
<1>1. DOMAIN bundles = {} /\ DOMAIN admitted = {} /\ DOMAIN queue = {} /\ DOMAIN handedOut = {}
  BY DEF PoolInit
<1>2. BundlesKept
  BY <1>1, FS_EmptySet DEF PoolInit, BundlesKept
<1>3. ListsKept
  BY <1>1 DEF PoolInit, ListsKept
<1> QED
  BY <1>1, <1>2, <1>3 DEF PoolInit, PrivateInv, AllInOrder, InOrder, ServedOnce, NoneForgotten

LEMMA EntriesTyped ==
    ASSUME BundlesKept, NEW r \in Entries
    PROVE  /\ r.id \in DOMAIN admitted /\ r = Entry(r.id)
           /\ r.bid \in Int /\ r.min \in Int /\ r.max \in Int /\ r.min <= r.max
           /\ r.max = bundles[r.id].max
           /\ admitted[r.id] \in Int /\ admitted[r.id] < Cardinality(DOMAIN admitted)
<1>1. PICK b \in DOMAIN admitted : r = Entry(b)
  BY DEF Entries
<1>2. b \in DOMAIN bundles /\ bundles[b] \in BundleType
  BY DEF BundlesKept
<1>3. /\ bundles[b].bid \in Nat /\ bundles[b].min \in Nat /\ bundles[b].max \in Nat
      /\ bundles[b].min <= bundles[b].max
  BY <1>2, PrivatePoolAssumption DEF BundleType
<1>4. r.id = b /\ r.bid = bundles[b].bid /\ r.min = bundles[b].min /\ r.max = bundles[b].max
  BY <1>1 DEF Entry
<1>5. admitted[b] \in Nat /\ admitted[b] < Cardinality(DOMAIN admitted)
  BY DEF BundlesKept
<1> QED  BY <1>1, <1>3, <1>4, <1>5

(* What retain keeps, whatever the order it keeps it in.                   *)
LEMMA KeptInOrder ==
    ASSUME NEW S, NEW s \in Seq(S), NEW K \in SUBSET DOMAIN s
    PROVE  /\ Retained(s, K) \in Seq(S)
           /\ Range(Retained(s, K)) = {s[i] : i \in K}
           /\ InOrder(s) => InOrder(Retained(s, K))
<1> DEFINE t == Retained(s, K)
<1>1. t \in Seq(S)
  BY RetainedIs
<1>2. PICK from : PickedAt(from, t, s, K, Len(s))
  BY RetainedIs
<1> HIDE DEF t
<1>3. DOMAIN t = 1 .. Len(t) /\ DOMAIN s = 1 .. Len(s)
  BY <1>1
<1>4. K \cap (1 .. Len(s)) = K
  BY <1>3
<1>5. /\ \A j \in DOMAIN t : from[j] \in K /\ t[j] = s[from[j]]
      /\ \A j, k \in DOMAIN t : j < k => from[j] < from[k]
      /\ \A i \in K : \E j \in DOMAIN t : from[j] = i
  BY <1>2, <1>3, <1>4 DEF PickedAt
<1>6. Range(t) = {s[i] : i \in K}
  BY <1>5 DEF Range
<1>7. InOrder(s) => InOrder(t)
  BY <1>5 DEF InOrder
<1> QED  BY <1>1, <1>6, <1>7 DEF t

(* t is s with e at place p. *)
HasInserted(t, s, p, e) ==
    /\ Len(t) = Len(s) + 1 /\ DOMAIN t = 1 .. (Len(s) + 1)
    /\ \A i \in 1 .. (Len(s) + 1) :
          t[i] = IF i < p THEN s[i] ELSE IF i = p THEN e ELSE s[i - 1]

LEMMA InsertIs ==
    ASSUME NEW S, NEW s \in Seq(S), NEW e \in S, NEW p \in 1 .. (Len(s) + 1)
    PROVE  InsertAt(s, p, e) \in Seq(S) /\ HasInserted(InsertAt(s, p, e), s, p, e)
<1> DEFINE a == SubSeq(s, 1, p - 1)
           b == SubSeq(s, p, Len(s))
           ae == a \o <<e>>
           t == ae \o b
<1>0. Len(s) \in Nat /\ p \in Nat
  OBVIOUS
<1>1. a \in Seq(S) /\ Len(a) = p - 1 /\ \A i \in 1 .. (p - 1) : a[i] = s[i]
  BY <1>0
<1>2. b \in Seq(S) /\ Len(b) = Len(s) - p + 1 /\ \A i \in 1 .. (Len(s) - p + 1) : b[i] = s[p + i - 1]
  BY <1>0
<1> HIDE DEF a, b
<1>3. ae \in Seq(S) /\ Len(ae) = p /\ \A i \in 1 .. p : ae[i] = IF i = p THEN e ELSE s[i]
  BY <1>0, <1>1
<1> HIDE DEF ae
<1>4. /\ t \in Seq(S) /\ Len(t) = Len(ae) + Len(b)
      /\ \A i \in 1 .. (Len(ae) + Len(b)) : t[i] = IF i <= Len(ae) THEN ae[i] ELSE b[i - Len(ae)]
  BY <1>2, <1>3, ConcatProperties
<1> HIDE DEF t
<1>5. Len(t) = Len(s) + 1 /\ DOMAIN t = 1 .. (Len(s) + 1)
  BY <1>0, <1>2, <1>3, <1>4
<1>7. ASSUME NEW i \in 1 .. (Len(s) + 1)
      PROVE  t[i] = IF i < p THEN s[i] ELSE IF i = p THEN e ELSE s[i - 1]
  <2>1. CASE i <= p
    BY <1>0, <1>2, <1>3, <1>4, <2>1
  <2>2. CASE i > p
    <3>1. PICK k \in Int : k = i - p
      BY <1>0
    <3>2. /\ k \in 1 .. (Len(s) - p + 1) /\ p + k - 1 = i - 1 /\ ~(i <= p) /\ ~(i < p) /\ i # p
          /\ i \in 1 .. (Len(ae) + Len(b))
      BY <1>0, <1>2, <1>3, <2>2, <3>1
    <3>3. t[i] = b[k]
      BY <1>3, <1>4, <3>1, <3>2
    <3>4. b[k] = s[i - 1]
      BY <1>2, <3>2
    <3> QED  BY <3>2, <3>3, <3>4
  <2> QED  BY <1>0, <2>1, <2>2
<1>6. InsertAt(s, p, e) = t
  BY DEF InsertAt, t, ae, a, b
<1>8. HasInserted(t, s, p, e)
  BY <1>5, <1>7 DEF HasInserted
<1> QED  BY <1>4, <1>6, <1>8

LEMMA ListsWiden ==
    ASSUME NEW E, NEW F, E \subseteq F, NEW h \in Seq([block : Blocks, list : Seq(E)])
    PROVE  h \in Seq([block : Blocks, list : Seq(F)])
<1>1. Seq(E) \subseteq Seq(F)
  OBVIOUS
<1>2. [block : Blocks, list : Seq(E)] \subseteq [block : Blocks, list : Seq(F)]
  BY <1>1
<1> DEFINE A == [block : Blocks, list : Seq(E)]
           B == [block : Blocks, list : Seq(F)]
<1>3. A \subseteq B /\ h \in Seq(A)
  BY <1>2
<1> HIDE DEF A, B
<1>4. h \in Seq(B)
  BY <1>3
<1> QED  BY <1>4 DEF B

LEMMA HandedLists ==
    ASSUME ListsKept, NEW m \in DOMAIN handedOut
    PROVE  /\ handedOut[m].block \in Blocks /\ handedOut[m].list \in Seq(Entries)
           /\ \A i \in DOMAIN handedOut[m].list : handedOut[m].list[i] \in Entries
           /\ Range(handedOut[m].list) \subseteq Entries
<1> DEFINE R == [block : Blocks, list : Seq(Entries)]
<1>0. handedOut \in Seq(R)
  BY DEF ListsKept
<1>1. handedOut[m] \in R
  <2> HIDE DEF R
  <2> QED  BY <1>0
<1>2. handedOut[m].block \in Blocks /\ handedOut[m].list \in Seq(Entries)
  BY <1>1
<1> QED  BY <1>2 DEF Range

(* The new bundle goes behind every bid that is as high.                   *)
LEMMA PlaceIs ==
    ASSUME BundlesKept, queue \in Seq(Entries), InOrder(queue),
           NEW r, r.bid \in Nat
    PROVE  /\ Place(r) \in 1 .. (Len(queue) + 1)
           /\ \A i \in 1 .. Len(queue) : i < Place(r) => queue[i].bid >= r.bid
           /\ \A i \in 1 .. Len(queue) : i >= Place(r) => queue[i].bid < r.bid
<1>1. \A i \in 1 .. Len(queue) : queue[i] \in Entries /\ queue[i].bid \in Int
  BY EntriesTyped
<1>2. Len(queue) \in Nat /\ DOMAIN queue = 1 .. Len(queue)
  OBVIOUS
<1>3. CASE Behind(r) = {}
  BY <1>1, <1>2, <1>3 DEF Behind, Place
<1>4. CASE Behind(r) # {}
  <2>1. Behind(r) \subseteq 1 .. Len(queue) /\ IsFiniteSet(1 .. Len(queue))
    BY <1>2, FS_Interval DEF Behind
  <2>2. IsFiniteSet(Behind(r)) /\ Behind(r) \in SUBSET Int
    BY <1>2, <2>1, FS_Subset
  <2>3. \E i \in Behind(r) : \A j \in Behind(r) : i <= j
    BY <1>4, <2>2, Extremes
  <2>4. Place(r) \in Behind(r) /\ \A j \in Behind(r) : Place(r) <= j
    BY <1>4, <2>3 DEF Place
  <2>5. Place(r) \in 1 .. Len(queue) /\ queue[Place(r)].bid < r.bid
    BY <1>2, <2>4 DEF Behind
  <2>6. ASSUME NEW i \in 1 .. Len(queue), i < Place(r) PROVE queue[i].bid >= r.bid
    BY <1>1, <1>2, <2>4, <2>5, <2>6 DEF Behind
  <2>7. ASSUME NEW i \in 1 .. Len(queue), i > Place(r) PROVE queue[i].bid < r.bid
    <3>1. Earlier(queue[Place(r)], queue[i])
      BY <1>2, <2>5, <2>7 DEF InOrder
    <3> QED  BY <1>1, <2>5, <3>1 DEF Earlier
  <2> QED  BY <1>2, <2>5, <2>6, <2>7
<1> QED  BY <1>3, <1>4

LEMMA SubmitKeeps ==
    ASSUME PrivateInv, NEW b \in Bundles, NEW r \in BundleType, SubmitBundle(b, r)
    PROVE  PrivateInv'
<1> USE DEF SubmitBundle
<1>1. b \notin DOMAIN bundles /\ b \notin DOMAIN admitted
  BY DEF PrivateInv, BundlesKept
<1>2. DOMAIN bundles' = DOMAIN bundles \cup {b} /\ \A c \in DOMAIN bundles : bundles'[c] = bundles[c]
  BY <1>1 DEF Put
<1>3. bundles'[b] = r
  BY DEF Put
<1>4. BundlesKept'
  <2>1. \A c \in DOMAIN bundles' : bundles'[c] \in BundleType
    BY <1>2, <1>3 DEF PrivateInv, BundlesKept
  <2>2. /\ submitting' \in [Bundles -> {"idle", "queue", "stats", "done"}]
        /\ submitting'[b] = "queue" /\ \A c \in Bundles \ {b} : submitting'[c] = submitting[c]
    BY DEF PrivateInv, BundlesKept
  <2>3. DOMAIN bundles' = {c \in Bundles : submitting'[c] # "idle"}
    BY <1>2, <2>2 DEF PrivateInv, BundlesKept
  <2>4. DOMAIN admitted = {c \in Bundles : submitting'[c] \in {"stats", "done"}}
    BY <2>2 DEF PrivateInv, BundlesKept
  <2>5. BundleType' = BundleType
    BY DEF BundleType
  <2> QED  BY <2>1, <2>2, <2>3, <2>4, <2>5 DEF PrivateInv, BundlesKept
<1>5. DOMAIN admitted \subseteq DOMAIN bundles
  BY DEF PrivateInv, BundlesKept
<1>6. Entries' = Entries
  BY <1>2, <1>5 DEF Entries, Entry
<1>7. ListsKept'
  BY <1>6 DEF PrivateInv, ListsKept
<1>8. AllInOrder'
  BY DEF PrivateInv, AllInOrder, InOrder, Earlier
<1>9. ServedOnce'
  BY DEF PrivateInv, ServedOnce, DueAt, Range
<1>10. NoneForgotten'
  BY <1>2, <1>5 DEF PrivateInv, NoneForgotten, Range
<1> QED  BY <1>4, <1>7, <1>8, <1>9, <1>10 DEF PrivateInv

(* Steps that leave bundles, queue and lists alone.                        *)
OnlyDone ==
    /\ UNCHANGED <<bundles, queue, handedOut, admitted>>
    /\ submitting' \in [Bundles -> {"idle", "queue", "stats", "done"}]
    /\ \A b \in Bundles : \/ submitting'[b] = submitting[b]
                          \/ submitting[b] = "stats" /\ submitting'[b] = "done"

LEMMA OthersKeep == PrivateInv /\ OnlyDone => PrivateInv'
<1> SUFFICES ASSUME PrivateInv, OnlyDone PROVE PrivateInv'
  OBVIOUS
<1> USE DEF OnlyDone
<1>1. BundlesKept'
  <2>1. BundleType' = BundleType
    BY DEF BundleType
  <2>2. /\ {b \in Bundles : submitting'[b] # "idle"} = {b \in Bundles : submitting[b] # "idle"}
        /\ {b \in Bundles : submitting'[b] \in {"stats", "done"}}
              = {b \in Bundles : submitting[b] \in {"stats", "done"}}
    OBVIOUS
  <2> QED  BY <2>1, <2>2 DEF PrivateInv, BundlesKept
<1>2. Entries' = Entries
  BY DEF Entries, Entry
<1>3. ListsKept'
  BY <1>2 DEF PrivateInv, ListsKept
<1>4. AllInOrder'
  BY DEF PrivateInv, AllInOrder, InOrder, Earlier
<1>5. ServedOnce'
  BY DEF PrivateInv, ServedOnce, DueAt, Range
<1>6. NoneForgotten'
  BY DEF PrivateInv, NoneForgotten, Range
<1> QED  BY <1>1, <1>3, <1>4, <1>5, <1>6 DEF PrivateInv

LEMMA AddKeeps ==
    ASSUME PrivateInv, NEW b \in Bundles, AddBundle(b)
    PROVE  PrivateInv'
<1>p. PICK p, e, n : p = Place(bundles[b]) /\ e = Entry(b) /\ n = Len(queue)
  OBVIOUS
<1>a. /\ submitting[b] = "queue" /\ queue' = InsertAt(queue, p, e)
      /\ admitted' = Put(admitted, b, Cardinality(DOMAIN admitted))
      /\ submitting' = [submitting EXCEPT ![b] = IF bundles[b].private THEN "done" ELSE "stats"]
      /\ UNCHANGED <<bundles, handedOut>>
  BY <1>p DEF AddBundle
<1>0. /\ BundlesKept /\ queue \in Seq(Entries) /\ InOrder(queue) /\ n \in Nat
      /\ DOMAIN queue = 1 .. n
  BY <1>p DEF PrivateInv, ListsKept, AllInOrder
<1>1. b \in DOMAIN bundles /\ b \notin DOMAIN admitted /\ DOMAIN admitted \subseteq DOMAIN bundles
  BY <1>a DEF PrivateInv, BundlesKept
<1>2. bundles[b].bid \in Nat
  BY <1>0, <1>1, PrivatePoolAssumption DEF BundlesKept, BundleType
<1>3. /\ p \in 1 .. (n + 1)
      /\ \A i \in 1 .. n : i < p => queue[i].bid >= bundles[b].bid
      /\ \A i \in 1 .. n : i >= p => queue[i].bid < bundles[b].bid
  BY <1>p, <1>0, <1>2, PlaceIs
<1>4. DOMAIN admitted' = DOMAIN admitted \cup {b} /\ \A c \in DOMAIN admitted : admitted'[c] = admitted[c]
  BY <1>a, <1>1 DEF Put
<1>5. admitted'[b] = Cardinality(DOMAIN admitted)
  BY <1>a DEF Put
<1>6. /\ IsFiniteSet(DOMAIN admitted') /\ Cardinality(DOMAIN admitted) \in Nat
      /\ Cardinality(DOMAIN admitted') = Cardinality(DOMAIN admitted) + 1
  <2>1. PICK A : A = DOMAIN admitted
    OBVIOUS
  <2>2. IsFiniteSet(A) /\ b \notin A /\ DOMAIN admitted' = A \cup {b}
    BY <1>0, <1>1, <1>4, <2>1 DEF BundlesKept
  <2>3. /\ IsFiniteSet(A \cup {b}) /\ Cardinality(A) \in Nat
        /\ Cardinality(A \cup {b}) = Cardinality(A) + 1
    BY <2>2, FS_AddElement, FS_CardinalityType
  <2> QED  BY <2>1, <2>2, <2>3
<1>7. BundlesKept'
  <2>1. /\ submitting' \in [Bundles -> {"idle", "queue", "stats", "done"}]
        /\ submitting'[b] \in {"stats", "done"} /\ \A c \in Bundles \ {b} : submitting'[c] = submitting[c]
    BY <1>a, <1>0 DEF BundlesKept
  <2>2. DOMAIN bundles = {c \in Bundles : submitting'[c] # "idle"}
    BY <1>a, <1>0, <1>1, <2>1 DEF BundlesKept
  <2>3. DOMAIN admitted' = {c \in Bundles : submitting'[c] \in {"stats", "done"}}
    BY <1>a, <1>0, <1>4, <2>1 DEF BundlesKept
  <2>4. \A c \in DOMAIN admitted' : admitted'[c] \in Nat /\ admitted'[c] < Cardinality(DOMAIN admitted')
    BY <1>0, <1>4, <1>5, <1>6 DEF BundlesKept
  <2>5. BundleType' = BundleType
    BY DEF BundleType
  <2> QED  BY <1>a, <1>0, <1>6, <2>1, <2>2, <2>3, <2>4, <2>5 DEF BundlesKept
<1>8. Entries \subseteq Entries' /\ e \in Entries'
  BY <1>a, <1>p, <1>4 DEF Entries, Entry
<1>9. /\ queue' \in Seq(Entries') /\ DOMAIN queue' = 1 .. (n + 1)
      /\ \A i \in 1 .. (n + 1) :
            queue'[i] = IF i < p THEN queue[i] ELSE IF i = p THEN e ELSE queue[i - 1]
  <2>1. PICK S, q : S = Entries' /\ q = queue
    OBVIOUS
  <2>2. q \in Seq(S) /\ e \in S /\ n = Len(q) /\ queue' = InsertAt(q, p, e)
    BY <1>a, <1>p, <1>0, <1>8, <2>1
  <2>3. p \in 1 .. (Len(q) + 1)
    BY <1>3, <2>2
  <2>4. queue' \in Seq(S) /\ HasInserted(queue', q, p, e)
    BY <2>2, <2>3, InsertIs
  <2> QED  BY <2>1, <2>2, <2>4 DEF HasInserted
<1>10. ListsKept'
  BY <1>a, <1>8, <1>9, ListsWiden DEF PrivateInv, ListsKept
<1>11. e.id = b /\ e.bid = bundles[b].bid
  BY <1>p DEF Entry
<1>12. \A r \in Entries : /\ r.id \in DOMAIN admitted /\ r.bid \in Int /\ r.id # b
                          /\ admitted'[r.id] = admitted[r.id] /\ admitted[r.id] < admitted'[b]
  BY <1>0, <1>1, <1>4, <1>5, EntriesTyped
<1> DEFINE Before(x, y) ==
              x.bid > y.bid \/ (x.bid = y.bid /\ admitted'[x.id] < admitted'[y.id])
<1>13. InOrder(queue)'
  <2> SUFFICES ASSUME NEW i \in 1 .. (n + 1), NEW j \in 1 .. (n + 1), i < j
               PROVE  Before(queue'[i], queue'[j])
    BY <1>9 DEF InOrder, Earlier
  <2>1. \A k \in 1 .. n : queue[k] \in Entries
    BY <1>0
  <2>2. \A k, l \in 1 .. n : k < l => Before(queue[k], queue[l])
    BY <1>0, <1>12, <2>1 DEF InOrder, Earlier
  <2> HIDE DEF Before
  <2>3. CASE j < p
    BY <1>0, <1>3, <1>9, <2>2, <2>3
  <2>4. CASE j = p
    <3>1. i \in 1 .. n /\ i < p /\ queue'[i] = queue[i] /\ queue'[j] = e
      BY <1>0, <1>3, <1>9, <2>4
    <3>2. queue[i].bid >= e.bid /\ admitted'[queue[i].id] < admitted'[e.id]
      BY <1>3, <1>11, <1>12, <2>1, <3>1
    <3>3. queue[i].bid \in Int /\ e.bid \in Int
      BY <1>2, <1>11, <1>12, <2>1, <3>1
    <3> QED  BY <3>1, <3>2, <3>3 DEF Before
  <2>5. CASE i = p
    <3>1. j - 1 \in 1 .. n /\ j - 1 >= p /\ queue'[i] = e /\ queue'[j] = queue[j - 1]
      BY <1>0, <1>3, <1>9, <2>5
    <3>2. queue[j - 1].bid < e.bid /\ queue[j - 1].bid \in Int /\ e.bid \in Int
      BY <1>2, <1>3, <1>11, <1>12, <2>1, <3>1
    <3> QED  BY <3>1, <3>2 DEF Before
  <2>6. CASE i < p /\ j > p
    <3>1. i \in 1 .. n /\ j - 1 \in 1 .. n /\ i < j - 1 /\ queue'[i] = queue[i] /\ queue'[j] = queue[j - 1]
      BY <1>0, <1>3, <1>9, <2>6
    <3> QED  BY <2>2, <3>1
  <2>7. CASE i > p
    <3>1. /\ i - 1 \in 1 .. n /\ j - 1 \in 1 .. n /\ i - 1 < j - 1
          /\ queue'[i] = queue[i - 1] /\ queue'[j] = queue[j - 1]
      BY <1>0, <1>3, <1>9, <2>7
    <3> QED  BY <2>2, <3>1
  <2> QED  BY <1>0, <1>3, <2>3, <2>4, <2>5, <2>6, <2>7
<1>14. \A m \in DOMAIN handedOut : \A i \in DOMAIN handedOut[m].list : handedOut[m].list[i] \in Entries
  BY HandedLists DEF PrivateInv
<1>15. AllInOrder'
  <2>1. \A m \in DOMAIN handedOut : InOrder(handedOut[m].list)'
    BY <1>a, <1>12, <1>14 DEF PrivateInv, AllInOrder, InOrder, Earlier
  <2> QED  BY <1>a, <1>13, <2>1 DEF AllInOrder
<1>16. Range(queue') \subseteq Range(queue) \cup {e} /\ e \in Range(queue') /\ Range(queue) \subseteq Range(queue')
  <2>1. ASSUME NEW i \in 1 .. (n + 1) PROVE queue'[i] \in Range(queue) \cup {e}
    <3>1. i = p \/ (i < p /\ i \in 1 .. n) \/ (i > p /\ i - 1 \in 1 .. n)
      BY <1>0, <1>3
    <3> QED  BY <1>0, <1>3, <1>9, <3>1 DEF Range
  <2>2. e = queue'[p] /\ p \in DOMAIN queue'
    BY <1>0, <1>3, <1>9
  <2>3. ASSUME NEW i \in 1 .. n PROVE queue[i] \in Range(queue')
    <3>1. CASE i < p
      <4>1. queue'[i] = queue[i] /\ i \in DOMAIN queue'
        BY <1>0, <1>3, <1>9, <3>1
      <4> QED  BY <4>1 DEF Range
    <3>2. CASE i >= p
      <4>1. queue'[i + 1] = queue[i] /\ i + 1 \in DOMAIN queue'
        BY <1>0, <1>3, <1>9, <3>2
      <4> QED  BY <4>1 DEF Range
    <3> QED  BY <1>0, <1>3, <3>1, <3>2
  <2> QED  BY <1>0, <1>9, <2>1, <2>2, <2>3 DEF Range
<1>17. ServedOnce'
  <2>1. \A r \in Entries : r # e
    BY <1>11, <1>12
  <2>2. \A r \in Entries : r \notin Range(queue) => r \notin Range(queue')
    BY <1>16, <2>1
  <2> QED  BY <1>a, <1>14, <2>2 DEF PrivateInv, ServedOnce, DueAt
<1>18. NoneForgotten'
  BY <1>a, <1>4, <1>11, <1>16 DEF PrivateInv, NoneForgotten
<1> QED  BY <1>7, <1>10, <1>15, <1>17, <1>18 DEF PrivateInv

LEMMA GetKeeps ==
    ASSUME PrivateInv, NEW n \in Blocks, GetNextBundles(n)
    PROVE  PrivateInv'
<1>a. /\ handedOut' = Append(handedOut, [block |-> n, list |-> Due(n)])
      /\ queue' = Early(n)
      /\ UNCHANGED <<bundles, submitting, admitted>>
  BY DEF GetNextBundles
<1>0. /\ BundlesKept /\ ListsKept /\ queue \in Seq(Entries) /\ InOrder(queue)
      /\ handedOut \in Seq([block : Blocks, list : Seq(Entries)])
  BY DEF PrivateInv, ListsKept, AllInOrder
<1>1. PICK due, early : due = Due(n) /\ early = Early(n)
  OBVIOUS
<1>2. /\ due \in Seq(Entries) /\ InOrder(due)
      /\ Range(due) = {queue[i] : i \in {j \in DOMAIN queue : DueAt(n, queue[j])}}
  <2>1. {i \in DOMAIN queue : DueAt(n, queue[i])} \in SUBSET DOMAIN queue
    OBVIOUS
  <2> QED  BY <1>0, <1>1, <2>1, KeptInOrder DEF Due
<1>3. /\ early \in Seq(Entries) /\ InOrder(early)
      /\ Range(early) = {queue[i] : i \in {j \in DOMAIN queue : LaterThan(n, queue[j])}}
  <2>1. {i \in DOMAIN queue : LaterThan(n, queue[i])} \in SUBSET DOMAIN queue
    OBVIOUS
  <2> QED  BY <1>0, <1>1, <2>1, KeptInOrder DEF Early
<1>4. /\ Range(due) = {r \in Range(queue) : DueAt(n, r)}
      /\ Range(early) = {r \in Range(queue) : LaterThan(n, r)}
  BY <1>2, <1>3 DEF Range
<1>5. PICK k : k = Len(handedOut) + 1
  OBVIOUS
<1>6. /\ DOMAIN handedOut' = DOMAIN handedOut \cup {k} /\ k \notin DOMAIN handedOut
      /\ handedOut'[k] = [block |-> n, list |-> due]
      /\ \A m \in DOMAIN handedOut : handedOut'[m] = handedOut[m]
      /\ handedOut' \in Seq([block : Blocks, list : Seq(Entries)])
  <2> DEFINE R == [block : Blocks, list : Seq(Entries)]
  <2>1. [block |-> n, list |-> due] \in R
    BY <1>2
  <2>2. handedOut \in Seq(R) /\ handedOut' = Append(handedOut, [block |-> n, list |-> due])
    BY <1>0, <1>a, <1>1
  <2> HIDE DEF R
  <2>3. PICK x : x = [block |-> n, list |-> due]
    OBVIOUS
  <2>4. x \in R /\ handedOut' = Append(handedOut, x)
    BY <2>1, <2>2, <2>3
  <2>5. handedOut' \in Seq(R) /\ DOMAIN handedOut' = DOMAIN handedOut \cup {k} /\ k \notin DOMAIN handedOut
    BY <1>5, <2>2, <2>4
  <2>6. handedOut'[k] = x /\ \A m \in DOMAIN handedOut : handedOut'[m] = handedOut[m]
    BY <1>5, <2>2, <2>4
  <2> QED  BY <2>3, <2>5, <2>6 DEF R
<1>7. handedOut'[k].block = n /\ handedOut'[k].list = due
  BY <1>6
<1>8. BundlesKept'
  <2>1. BundleType' = BundleType
    BY DEF BundleType
  <2> QED  BY <1>a, <1>0, <2>1 DEF BundlesKept
<1>9. ListsKept'
  <2>1. Entries' = Entries
    BY <1>a DEF Entries, Entry
  <2> QED  BY <1>a, <1>1, <1>3, <1>6, <2>1 DEF ListsKept
<1>10. AllInOrder'
  <2>1. InOrder(queue)'
    BY <1>a, <1>1, <1>3 DEF InOrder, Earlier
  <2>2. ASSUME NEW m \in DOMAIN handedOut' PROVE InOrder(handedOut[m].list)'
    <3>1. CASE m = k
      BY <1>a, <1>2, <1>7, <3>1 DEF InOrder, Earlier
    <3>2. CASE m \in DOMAIN handedOut
      BY <1>a, <1>6, <3>2 DEF PrivateInv, AllInOrder, InOrder, Earlier
    <3> QED  BY <1>6, <3>1, <3>2
  <2> QED  BY <2>1, <2>2 DEF AllInOrder
<1>11. \A m \in DOMAIN handedOut : \A r \in Range(handedOut[m].list) :
          /\ DueAt(handedOut[m].block, r) /\ r \notin Range(queue)
          /\ \A l \in DOMAIN handedOut \ {m} : r \notin Range(handedOut[l].list)
  BY DEF PrivateInv, ServedOnce, Range
<1>12. \A r \in Range(queue) :
          /\ r \in Entries /\ ~ (DueAt(n, r) /\ LaterThan(n, r))
          /\ DueAt(n, r) \/ LaterThan(n, r) \/ n > bundles[r.id].max
  <2>1. Range(queue) \subseteq Entries /\ n \in Nat
    BY <1>0, PrivatePoolAssumption DEF Range
  <2> QED  BY <1>0, <2>1, EntriesTyped DEF DueAt, LaterThan
<1>13. ServedOnce'
  <2>1. Range(queue') = Range(early)
    BY <1>a, <1>1
  <2>2. ASSUME NEW m \in DOMAIN handedOut', NEW r \in Range(handedOut'[m].list)
        PROVE  /\ DueAt(handedOut'[m].block, r) /\ r \notin Range(queue')
               /\ \A l \in DOMAIN handedOut' \ {m} : r \notin Range(handedOut'[l].list)
    <3>1. CASE m = k
      <4>1. r \in Range(queue) /\ DueAt(n, r)
        BY <1>4, <1>7, <2>2, <3>1
      <4>2. \A l \in DOMAIN handedOut : r \notin Range(handedOut'[l].list)
        BY <1>6, <1>11, <4>1
      <4> QED  BY <1>4, <1>6, <1>7, <1>12, <2>1, <3>1, <4>1, <4>2
    <3>2. CASE m \in DOMAIN handedOut
      <4>1. r \in Range(handedOut[m].list) /\ handedOut'[m].block = handedOut[m].block
        BY <1>6, <2>2, <3>2
      <4>2. /\ DueAt(handedOut[m].block, r) /\ r \notin Range(queue)
            /\ \A l \in DOMAIN handedOut \ {m} : r \notin Range(handedOut'[l].list)
        BY <1>6, <1>11, <3>2, <4>1
      <4>3. r \notin Range(due) /\ r \notin Range(early)
        BY <1>4, <4>2
      <4> QED  BY <1>6, <1>7, <2>1, <4>1, <4>2, <4>3
    <3> QED  BY <1>6, <3>1, <3>2
  <2>3. \A m \in DOMAIN handedOut' : \A i \in DOMAIN handedOut'[m].list :
            handedOut'[m].list[i] \in Range(handedOut'[m].list)
    BY DEF Range
  <2> QED  BY <2>2, <2>3 DEF ServedOnce, DueAt
<1>14. NoneForgotten'
  <2> SUFFICES ASSUME NEW b \in DOMAIN admitted
               PROVE  \/ \E r \in Range(queue') : r.id = b
                      \/ \E m \in DOMAIN handedOut' :
                            \/ \E r \in Range(handedOut'[m].list) : r.id = b
                            \/ handedOut'[m].block > bundles[b].max
    BY <1>a DEF NoneForgotten
  <2>1. CASE \E r \in Range(queue) : r.id = b
    BY <1>a, <1>1, <1>4, <1>6, <1>7, <1>12, <2>1
  <2>2. CASE \E m \in DOMAIN handedOut :
                \/ \E r \in Range(handedOut[m].list) : r.id = b
                \/ handedOut[m].block > bundles[b].max
    BY <1>6, <2>2
  <2> QED  BY <2>1, <2>2 DEF PrivateInv, NoneForgotten
<1> QED  BY <1>8, <1>9, <1>10, <1>13, <1>14 DEF PrivateInv

LEMMA PrivateSteps == PrivateInv /\ [MCNext]_mcVars => PrivateInv'
<1> SUFFICES ASSUME PrivateInv, [MCNext]_mcVars PROVE PrivateInv'
  OBVIOUS
<1>0. submitting \in [Bundles -> {"idle", "queue", "stats", "done"}]
  BY DEF PrivateInv, BundlesKept
<1>1. CASE UNCHANGED poolVars
  BY <1>0, <1>1, OthersKeep DEF OnlyDone, poolVars
<1>2. CASE PoolTxNext
  <2>1. ASSUME NEW b \in Bundles, NEW r \in BundleType, SubmitBundle(b, r) PROVE PrivateInv'
    BY <2>1, SubmitKeeps
  <2>2. ASSUME NEW b \in Bundles, AddBundle(b) PROVE PrivateInv'
    BY <2>2, AddKeeps
  <2>3. ASSUME NEW b \in Bundles, UpdateSearcherStats(b) PROVE PrivateInv'
    BY <1>0, <2>3, OthersKeep DEF OnlyDone, UpdateSearcherStats
  <2>4. ASSUME NEW b \in Bundles, NEW reverted \in BOOLEAN, ReportBundleResult(b, reverted)
        PROVE  PrivateInv'
    BY <1>0, <2>4, OthersKeep DEF OnlyDone, ReportBundleResult
  <2>5. ASSUME NEW n \in Blocks, GetNextBundles(n) PROVE PrivateInv'
    BY <2>5, GetKeeps
  <2>6. ASSUME NEW s \in Searchers, AddToWhitelist(s) \/ RemoveFromWhitelist(s) PROVE PrivateInv'
    BY <1>0, <2>6, OthersKeep DEF OnlyDone, AddToWhitelist, RemoveFromWhitelist
  <2> QED  BY <1>2, <2>1, <2>2, <2>3, <2>4, <2>5, <2>6 DEF PoolTxNext
<1>3. UNCHANGED poolVars \/ PoolTxNext
  BY DEF MCNext, mcVars, mevVars
<1> QED  BY <1>1, <1>2, <1>3

(* The private pool serves by bid and, between equal bids, by the order of  *)
(* queueing; each bundle once, in its window; and drops none that was not   *)
(* past it, however the submissions, the calls for bundles and the reports  *)
(* interleave (private_pool.rs:86-148, 214-228).                            *)
THEOREM BundlesAlwaysInOrder == MCSpec => []BundlesServedInOrder
<1>1. MCInit => PrivateInv
  BY PrivateStarts DEF MCInit
<1>2. PrivateInv /\ [MCNext]_mcVars => PrivateInv'
  BY PrivateSteps
<1>3. PrivateInv => BundlesServedInOrder
  BY PrivateInvServes
<1>4. QED
  BY <1>1, <1>2, <1>3, PTL DEF MCSpec
-----------------------------------------------------------------------------
(* The vault: what the deposits and the calls under way add up to.          *)

DepositRecords == [shares : Nat, unlock : Nat]

SharesOf(ds) == SumFunctionOnSet([i \in DOMAIN ds |-> ds[i].shares], DOMAIN ds)

AllShares(u) == SumFunctionOnSet([a \in VaultUsers |-> SharesOf(u[a])], VaultUsers)

PendingOf(k) == IF k.at \in {"push", "total"} THEN k.amount ELSE 0

Underway(calls) == SumFunctionOnSet([c \in VaultCalls |-> PendingOf(calls[c])], VaultCalls)

LEMMA SharesAreNat ==
    ASSUME NEW ds \in Seq(DepositRecords)
    PROVE  /\ SharesOf(ds) \in Nat /\ SharesOf(<<>>) = 0
           /\ \A i \in DOMAIN ds : ds[i].shares \in Nat /\ ds[i].shares <= SharesOf(ds)
<1> DEFINE f == [i \in DOMAIN ds |-> ds[i].shares]
<1>0. DOMAIN ds = 1 .. Len(ds) /\ Len(ds) \in Nat
  OBVIOUS
<1>1. IsFiniteSet(DOMAIN ds)
  BY <1>0, FS_Interval
<1>2. \A i \in DOMAIN ds : f[i] \in Nat /\ f[i] \in Int /\ f[i] = ds[i].shares
  <2>1. \A i \in DOMAIN ds : ds[i] \in DepositRecords
    BY <1>0
  <2> QED  BY <2>1 DEF DepositRecords
<1> HIDE DEF f
<1>3. SumFunctionOnSet(f, DOMAIN ds) \in Nat
  BY <1>1, <1>2, SumNat
<1>4. ASSUME NEW i \in DOMAIN ds PROVE f[i] <= SumFunctionOnSet(f, DOMAIN ds)
  <2>1. SumFunctionOnSet(f, DOMAIN ds) = f[i] + SumFunctionOnSet(f, DOMAIN ds \ {i})
    BY <1>1, <1>2, SumRemove
  <2>2. IsFiniteSet(DOMAIN ds \ {i}) /\ \A j \in DOMAIN ds \ {i} : f[j] \in Nat
    BY <1>1, <1>2, FS_Subset
  <2>3. SumFunctionOnSet(f, DOMAIN ds \ {i}) \in Nat
    BY <2>2, SumNat
  <2>4. f[i] \in Nat
    BY <1>2
  <2> QED  BY <2>1, <2>3, <2>4
<1>5. SharesOf(<<>>) = 0
  <2>1. DOMAIN <<>> = {}
    OBVIOUS
  <2> QED  BY <2>1, SumNone DEF SharesOf
<1>6. SharesOf(ds) = SumFunctionOnSet(f, DOMAIN ds)
  BY DEF SharesOf, f
<1> QED  BY <1>2, <1>3, <1>4, <1>5, <1>6

LEMMA SharesAppend ==
    ASSUME NEW ds \in Seq(DepositRecords), NEW d \in DepositRecords
    PROVE  /\ Append(ds, d) \in Seq(DepositRecords)
           /\ SharesOf(Append(ds, d)) = SharesOf(ds) + d.shares
<1> DEFINE t == Append(ds, d)
           n == Len(ds)
           f == [i \in DOMAIN t |-> t[i].shares]
           g == [i \in DOMAIN ds |-> ds[i].shares]
<1>1. n \in Nat /\ DOMAIN ds = 1 .. n /\ DOMAIN t = 1 .. (n + 1) /\ t \in Seq(DepositRecords)
  OBVIOUS
<1>2. t[n + 1] = d /\ \A i \in 1 .. n : t[i] = ds[i]
  OBVIOUS
<1>3. \A i \in 1 .. (n + 1) : f[i] = t[i].shares /\ f[i] \in Int
  <2>1. \A i \in 1 .. (n + 1) : t[i] \in DepositRecords
    BY <1>1
  <2> QED  BY <1>1, <2>1 DEF DepositRecords
<1>4. \A i \in 1 .. n : g[i] = f[i]
  BY <1>1, <1>2
<1>5. f[n + 1] = d.shares /\ d.shares \in Nat
  BY <1>1, <1>2 DEF DepositRecords
<1>6. SharesOf(t) = SumFunctionOnSet(f, 1 .. (n + 1)) /\ SharesOf(ds) = SumFunctionOnSet(g, 1 .. n)
  BY <1>1 DEF SharesOf
<1> HIDE DEF f, g, n, t
<1>7. /\ SumFunctionOnSet(f, 1 .. (n + 1)) = f[n + 1] + SumFunctionOnSet(g, 1 .. n)
      /\ SumFunctionOnSet(g, 1 .. n) \in Int
  BY <1>1, <1>3, <1>4, SumOneMore
<1>8. t \in Seq(DepositRecords) /\ SharesOf(t) = SharesOf(ds) + d.shares
  BY <1>1, <1>5, <1>6, <1>7
<1> QED  BY <1>8 DEF t

(* A withdrawal of all the shares leaves no deposit.                       *)
LEMMA AllTaken ==
    ASSUME NEW ds \in Seq(DepositRecords)
    PROVE  Retained(ds, {i \in DOMAIN ds : ds[i].shares > SharesOf(ds)}) = <<>>
<1> DEFINE K == {i \in DOMAIN ds : ds[i].shares > SharesOf(ds)}
           t == Retained(ds, K)
<1>1. K = {}
  BY SharesAreNat
<1>2. t \in Seq(DepositRecords) /\ \E from : PickedAt(from, t, ds, K, Len(ds))
  BY RetainedIs
<1>3. PICK from : PickedAt(from, t, ds, K, Len(ds))
  BY <1>2
<1> HIDE DEF t
<1>4. from \in [1 .. Len(t) -> {}]
  BY <1>1, <1>3 DEF PickedAt
<1>5. ~ (1 \in 1 .. Len(t))
  BY <1>4
<1>6. Len(t) = 0
  BY <1>2, <1>5
<1>7. t = <<>>
  BY <1>2, <1>6
<1> QED  BY <1>7 DEF t

LEMMA SomeKept ==
    ASSUME NEW ds \in Seq(DepositRecords), NEW K
    PROVE  Retained(ds, K) \in Seq(DepositRecords)
BY RetainedIs

LEMMA AllSharesChange ==
    ASSUME NEW u \in [VaultUsers -> Seq(DepositRecords)], NEW a \in VaultUsers,
           NEW ds \in Seq(DepositRecords)
    PROVE  /\ AllShares(u) \in Nat /\ SharesOf(u[a]) \in Nat /\ SharesOf(u[a]) <= AllShares(u)
           /\ AllShares([u EXCEPT ![a] = ds]) = AllShares(u) - SharesOf(u[a]) + SharesOf(ds)
<1> DEFINE v == [u EXCEPT ![a] = ds]
           f == [x \in VaultUsers |-> SharesOf(u[x])]
           g == [x \in VaultUsers |-> SharesOf(v[x])]
<1>0. IsFiniteSet(VaultUsers)
  BY VaultAssumption
<1>1. v \in [VaultUsers -> Seq(DepositRecords)] /\ v[a] = ds /\ \A x \in VaultUsers \ {a} : v[x] = u[x]
  OBVIOUS
<1> HIDE DEF v
<1>2. \A x \in VaultUsers : f[x] \in Nat /\ g[x] \in Nat /\ f[x] \in Int /\ g[x] \in Int
  BY <1>1, SharesAreNat
<1>3. f[a] = SharesOf(u[a]) /\ g[a] = SharesOf(ds) /\ \A x \in VaultUsers \ {a} : g[x] = f[x]
  BY <1>1
<1>4. AllShares(u) = SumFunctionOnSet(f, VaultUsers) /\ AllShares(v) = SumFunctionOnSet(g, VaultUsers)
  BY DEF AllShares
<1> HIDE DEF f, g
<1>5. /\ SumFunctionOnSet(f, VaultUsers) \in Int
      /\ SumFunctionOnSet(g, VaultUsers) = SumFunctionOnSet(f, VaultUsers) - f[a] + g[a]
  BY <1>0, <1>2, <1>3, SumChange
<1>6. /\ SumFunctionOnSet(f, VaultUsers) = f[a] + SumFunctionOnSet(f, VaultUsers \ {a})
      /\ SumFunctionOnSet(f, VaultUsers \ {a}) \in Nat
  <2>1. IsFiniteSet(VaultUsers \ {a}) /\ \A x \in VaultUsers \ {a} : f[x] \in Nat
    BY <1>0, <1>2, FS_Subset
  <2> QED  BY <1>0, <1>2, <2>1, SumRemove, SumNat
<1>7. f[a] \in Nat /\ g[a] \in Nat
  BY <1>2
<1>8. AllShares(v) = AllShares(u) - SharesOf(u[a]) + SharesOf(ds)
  BY <1>3, <1>4, <1>5
<1>9. AllShares(u) \in Nat /\ SharesOf(u[a]) \in Nat /\ SharesOf(u[a]) <= AllShares(u)
  BY <1>3, <1>4, <1>6, <1>7
<1> QED  BY <1>8, <1>9 DEF v

LEMMA PendingChange ==
    ASSUME NEW calls, \A x \in VaultCalls : PendingOf(calls[x]) \in Nat,
           NEW c \in VaultCalls, NEW after, PendingOf(after[c]) \in Nat,
           \A x \in VaultCalls \ {c} : after[x] = calls[x]
    PROVE  /\ Underway(calls) \in Nat
           /\ Underway(after) = Underway(calls) - PendingOf(calls[c]) + PendingOf(after[c])
<1> DEFINE f == [x \in VaultCalls |-> PendingOf(calls[x])]
           g == [x \in VaultCalls |-> PendingOf(after[x])]
<1>0. IsFiniteSet(VaultCalls)
  BY VaultAssumption
<1>1. /\ \A x \in VaultCalls : f[x] \in Nat /\ g[x] \in Nat /\ f[x] \in Int /\ g[x] \in Int
      /\ f[c] = PendingOf(calls[c]) /\ g[c] = PendingOf(after[c])
      /\ \A x \in VaultCalls \ {c} : g[x] = f[x]
  OBVIOUS
<1>2. Underway(calls) = SumFunctionOnSet(f, VaultCalls) /\ Underway(after) = SumFunctionOnSet(g, VaultCalls)
  BY DEF Underway
<1> HIDE DEF f, g
<1>3. /\ SumFunctionOnSet(f, VaultCalls) \in Nat
      /\ SumFunctionOnSet(g, VaultCalls) = SumFunctionOnSet(f, VaultCalls) - f[c] + g[c]
  BY <1>0, <1>1, SumChange, SumNat
<1> QED  BY <1>1, <1>2, <1>3

Depositing == [at : {"push", "total"}, user : VaultUsers, amount : Amounts, shares : Nat]

Withdrawing ==
    [at : {"check", "unlocked", "update", "retire"}, user : VaultUsers,
     shares : Amounts, amount : Nat, copy : Nat \X Nat]

VaultTyped ==
    /\ tvl \in Nat /\ totalShares \in Nat /\ vaultNow \in Nat
    /\ deposited \in Nat /\ paid \in Nat /\ overtaken \in BOOLEAN
    /\ userDeposits \in [VaultUsers -> Seq(DepositRecords)]
    /\ DOMAIN vaultCall = VaultCalls
    /\ \A c \in VaultCalls :
          vaultCall[c] = NoVaultCall \/ vaultCall[c] \in Depositing \/ vaultCall[c] \in Withdrawing
    /\ \A c, d \in VaultCalls :
          c # d /\ vaultCall[c].at = vaultCall[d].at => vaultCall[c].at \notin {"total", "retire"}

(* What each call computed, unless a withdrawal was overtaken.             *)
CallsPriced ==
    \A c \in VaultCalls :
        LET k == vaultCall[c]
        IN  /\ k.at \in {"push", "total"} => k.amount = k.shares
            /\ k.at \in {"check", "unlocked", "update"} =>
                  k.copy[1] = k.copy[2] /\ k.amount = IF k.copy[2] = 0 THEN 0 ELSE k.shares

(* The totals and the deposits while no withdrawal holds the vaults; and    *)
(* while one does and can still get the deposits, which nobody can then     *)
(* have changed since it took its shares off.                               *)
SharesAgree ==
    /\ VaultsFree =>
          /\ DepositsFree => totalShares = AllShares(userDeposits)
          /\ \A c \in VaultCalls : vaultCall[c].at = "total" =>
                totalShares + vaultCall[c].shares = AllShares(userDeposits)
          /\ paid + tvl + Underway(vaultCall) = deposited
    /\ \A c \in VaultCalls : vaultCall[c].at = "retire" /\ DepositsFree =>
          /\ totalShares = Less(AllShares(userDeposits), vaultCall[c].shares)
          /\ vaultCall[c].shares <= AllShares(userDeposits) =>
                paid + tvl + Underway(vaultCall) = deposited

VaultInv ==
    /\ VaultTyped
    /\ ~overtaken => tvl = totalShares /\ CallsPriced /\ SharesAgree

LEMMA VaultStarts == VaultInit => VaultInv
<1> SUFFICES ASSUME VaultInit PROVE VaultInv
  OBVIOUS
<1> USE DEF VaultInit
<1>1. \A c \in VaultCalls : vaultCall[c] = NoVaultCall /\ vaultCall[c].at = "idle"
  BY DEF NoVaultCall
<1>2. VaultTyped
  <2>1. << >> \in Seq(DepositRecords)
    OBVIOUS
  <2>2. PICK none : none = << >> /\ none \in Seq(DepositRecords)
    BY <2>1
  <2>3. userDeposits \in [VaultUsers -> Seq(DepositRecords)]
    BY <2>2
  <2>4. \A c, d \in VaultCalls :
          c # d /\ vaultCall[c].at = vaultCall[d].at => vaultCall[c].at \notin {"total", "retire"}
    BY <1>1
  <2>5. DOMAIN vaultCall = VaultCalls
    OBVIOUS
  <2> QED  BY <1>1, <2>3, <2>4, <2>5 DEF VaultTyped
<1>3. CallsPriced
  BY <1>1 DEF CallsPriced
<1>4. AllShares(userDeposits) = 0
  <2> DEFINE f == [a \in VaultUsers |-> SharesOf(userDeposits[a])]
  <2>1. \A a \in VaultUsers : f[a] = 0 /\ f[a] \in Int
    <3>1. << >> \in Seq(DepositRecords)
      OBVIOUS
    <3>2. SharesOf(<< >>) = 0
      BY <3>1, SharesAreNat
    <3> QED  BY <3>2
  <2>2. AllShares(userDeposits) = SumFunctionOnSet(f, VaultUsers)
    BY DEF AllShares
  <2> HIDE DEF f
  <2>3. SumFunctionOnSet(f, VaultUsers) = 0
    BY <2>1, VaultAssumption, SumZero
  <2> QED  BY <2>2, <2>3
<1>5. Underway(vaultCall) = 0
  <2> DEFINE f == [c \in VaultCalls |-> PendingOf(vaultCall[c])]
  <2>1. \A c \in VaultCalls : f[c] = 0 /\ f[c] \in Int
    BY <1>1 DEF PendingOf
  <2>2. Underway(vaultCall) = SumFunctionOnSet(f, VaultCalls)
    BY DEF Underway
  <2> HIDE DEF f
  <2>3. SumFunctionOnSet(f, VaultCalls) = 0
    BY <2>1, VaultAssumption, SumZero
  <2> QED  BY <2>2, <2>3
<1>6. SharesAgree
  BY <1>1, <1>4, <1>5 DEF SharesAgree
<1> QED  BY <1>2, <1>3, <1>6 DEF VaultInv

LEMMA VaultInvBacks == VaultInv => VaultBacked
<1> SUFFICES ASSUME VaultInv PROVE VaultBacked
  OBVIOUS
<1>1. AllShares(userDeposits) = SumFunctionOnSet([a \in VaultUsers |-> UserShares(a)], VaultUsers)
  BY DEF AllShares, SharesOf, UserShares
<1>2. ASSUME ~overtaken, \A c \in VaultCalls : vaultCall[c] = NoVaultCall
      PROVE  totalShares = AllShares(userDeposits) /\ paid + tvl = deposited
  <2>1. VaultsFree /\ DepositsFree
    BY <1>2 DEF VaultsFree, DepositsFree, NoVaultCall
  <2>2. Underway(vaultCall) = 0
    <3> DEFINE f == [c \in VaultCalls |-> PendingOf(vaultCall[c])]
    <3>1. \A c \in VaultCalls : f[c] = 0 /\ f[c] \in Int
      BY <1>2 DEF PendingOf, NoVaultCall
    <3>2. Underway(vaultCall) = SumFunctionOnSet(f, VaultCalls)
      BY DEF Underway
    <3> HIDE DEF f
    <3>3. SumFunctionOnSet(f, VaultCalls) = 0
      BY <3>1, VaultAssumption, SumZero
    <3> QED  BY <3>2, <3>3
  <2> QED  BY <1>2, <2>1, <2>2 DEF VaultInv, VaultTyped, SharesAgree
<1> QED  BY <1>1, <1>2 DEF VaultInv, VaultBacked

(* What a call under way looks like.                                       *)
LEMMA CallShapes ==
    ASSUME VaultTyped, NEW c \in VaultCalls
    PROVE  LET k == vaultCall[c]
           IN /\ k.at \in {"push", "total"} => k \in Depositing
              /\ k.at \in {"check", "unlocked", "update", "retire"} => k \in Withdrawing
              /\ k.at = "idle" => k = NoVaultCall
              /\ PendingOf(k) \in Nat
<1>1. vaultCall[c] = NoVaultCall \/ vaultCall[c] \in Depositing \/ vaultCall[c] \in Withdrawing
  BY DEF VaultTyped
<1>2. CASE vaultCall[c] = NoVaultCall
  BY <1>2 DEF NoVaultCall, PendingOf
<1>3. CASE vaultCall[c] \in Depositing
  BY <1>3, VaultAssumption DEF Depositing, PendingOf
<1>4. CASE vaultCall[c] \in Withdrawing
  BY <1>4 DEF Withdrawing, PendingOf
<1> QED  BY <1>1, <1>2, <1>3, <1>4

LEMMA DivNat ==
    ASSUME NEW m \in Nat, NEW n \in Nat, NEW d \in Nat \ {0}
    PROVE  (m * n) \div d \in Nat /\ (m * d) \div d = m /\ (d * m) \div d = m
<1>1. m * n \in Nat
  OBVIOUS
<1>2. (m * n) \div d \in Nat
  BY <1>1
<1>3. (m * d) \div d = m
  BY Z3
<1>4. m * d = d * m
  BY Z3
<1> QED  BY <1>2, <1>3, <1>4

(* The calls after a step of c: only c's entry is another.                 *)
Moves(c) == DOMAIN vaultCall' = VaultCalls /\ \A d \in VaultCalls \ {c} : vaultCall'[d] = vaultCall[d]

LEMMA MovesTyped ==
    ASSUME VaultTyped, NEW c \in VaultCalls, Moves(c),
           \/ vaultCall'[c] = NoVaultCall \/ vaultCall'[c] \in Depositing \/ vaultCall'[c] \in Withdrawing,
           vaultCall'[c].at = "total" => DepositsFree,
           vaultCall'[c].at = "retire" => VaultsFree,
           tvl' \in Nat /\ totalShares' \in Nat /\ vaultNow' \in Nat,
           deposited' \in Nat /\ paid' \in Nat /\ overtaken' \in BOOLEAN,
           userDeposits' \in [VaultUsers -> Seq(DepositRecords)]
    PROVE  /\ VaultTyped'
           /\ PendingOf(vaultCall'[c]) \in Nat
           /\ Underway(vaultCall) \in Nat
           /\ Underway(vaultCall') = Underway(vaultCall) - PendingOf(vaultCall[c]) + PendingOf(vaultCall'[c])
           /\ AllShares(userDeposits) \in Nat
<1>1. \A d \in VaultCalls :
          vaultCall'[d] = NoVaultCall \/ vaultCall'[d] \in Depositing \/ vaultCall'[d] \in Withdrawing
  BY DEF VaultTyped, Moves
<1>2. ASSUME NEW d \in VaultCalls, NEW e \in VaultCalls, d # e, vaultCall'[d].at = vaultCall'[e].at
      PROVE  vaultCall'[d].at \notin {"total", "retire"}
  BY <1>2 DEF VaultTyped, Moves, DepositsFree, VaultsFree
<1>3. VaultTyped'
  <2>1. Depositing' = Depositing /\ Withdrawing' = Withdrawing /\ DepositRecords' = DepositRecords
    BY DEF Depositing, Withdrawing, DepositRecords
  <2>2. NoVaultCall' = NoVaultCall
    BY DEF NoVaultCall
  <2> QED  BY <1>1, <1>2, <2>1, <2>2 DEF VaultTyped, Moves
<1>4. \A d \in VaultCalls : PendingOf(vaultCall[d]) \in Nat
  BY CallShapes
<1>5. PendingOf(vaultCall'[c]) \in Nat
  <2>1. CASE vaultCall'[c] = NoVaultCall
    BY <2>1 DEF NoVaultCall, PendingOf
  <2>2. CASE vaultCall'[c] \in Depositing
    BY <2>2, VaultAssumption DEF Depositing, PendingOf
  <2>3. CASE vaultCall'[c] \in Withdrawing
    BY <2>3 DEF Withdrawing, PendingOf
  <2> QED  BY <2>1, <2>2, <2>3
<1>6. /\ Underway(vaultCall) \in Nat
      /\ Underway(vaultCall') = Underway(vaultCall) - PendingOf(vaultCall[c]) + PendingOf(vaultCall'[c])
  BY <1>4, <1>5, PendingChange DEF Moves
<1>7. AllShares(userDeposits) \in Nat
  <2> DEFINE f == [a \in VaultUsers |-> SharesOf(userDeposits[a])]
  <2>1. \A a \in VaultUsers : f[a] \in Nat
    BY SharesAreNat DEF VaultTyped
  <2>2. AllShares(userDeposits) = SumFunctionOnSet(f, VaultUsers)
    BY DEF AllShares
  <2> HIDE DEF f
  <2>3. SumFunctionOnSet(f, VaultUsers) \in Nat
    BY <2>1, VaultAssumption, SumNat
  <2> QED  BY <2>2, <2>3
<1> QED  BY <1>3, <1>5, <1>6, <1>7

(* Steps of a call that holds nothing: only its own record changes.        *)
Quiet(c) ==
    /\ Moves(c) /\ UNCHANGED <<tvl, totalShares, userDeposits, deposited, paid, overtaken>>
    /\ vaultNow' \in Nat
    /\ vaultCall[c].at \notin {"push", "total", "retire"}
    /\ vaultCall'[c] = NoVaultCall \/ (vaultCall'[c] \in Withdrawing /\ vaultCall'[c].at # "retire")
    /\ ~overtaken /\ vaultCall'[c].at \in {"check", "unlocked", "update"} =>
          /\ vaultCall'[c].copy[1] = vaultCall'[c].copy[2]
          /\ vaultCall'[c].amount = IF vaultCall'[c].copy[2] = 0 THEN 0 ELSE vaultCall'[c].shares

LEMMA QuietKeeps ==
    ASSUME VaultInv, NEW c \in VaultCalls, Quiet(c)
    PROVE  VaultInv'
<1> USE DEF Quiet
<1>0. VaultTyped
  BY DEF VaultInv
<1>1. vaultCall'[c].at \notin {"push", "total", "retire"}
  <2>1. CASE vaultCall'[c] = NoVaultCall
    BY <2>1 DEF NoVaultCall
  <2>2. CASE vaultCall'[c] \in Withdrawing /\ vaultCall'[c].at # "retire"
    BY <2>2 DEF Withdrawing
  <2> QED  BY <2>1, <2>2
<1>2. /\ VaultTyped' /\ Underway(vaultCall) \in Nat
      /\ Underway(vaultCall') = Underway(vaultCall) - PendingOf(vaultCall[c]) + PendingOf(vaultCall'[c])
  BY <1>0, <1>1, MovesTyped DEF VaultTyped
<1>3. Underway(vaultCall') = Underway(vaultCall)
  BY <1>1, <1>2 DEF PendingOf
<1>4. ASSUME ~overtaken PROVE CallsPriced'
  BY <1>1, <1>4 DEF VaultInv, CallsPriced, Moves
<1>5. /\ DepositsFree' <=> DepositsFree
      /\ VaultsFree' <=> VaultsFree
  BY <1>1 DEF DepositsFree, VaultsFree, Moves
<1>6. ASSUME ~overtaken PROVE SharesAgree'
  BY <1>1, <1>3, <1>5, <1>6 DEF VaultInv, SharesAgree, Moves
<1> QED  BY <1>2, <1>4, <1>6 DEF VaultInv

LEMMA DepositReadsKeeps ==
    ASSUME VaultInv, NEW c \in VaultCalls, NEW a \in VaultUsers, NEW n \in Amounts, DepositReads(c, a, n)
    PROVE  VaultInv'
<1>0. VaultTyped /\ n \in Nat /\ n > 0
  BY VaultAssumption DEF VaultInv
<1>1. SharesForDeposit(n) \in Nat /\ (tvl = totalShares => SharesForDeposit(n) = n)
  <2>1. tvl \in Nat /\ totalShares \in Nat /\ (totalShares > 0 => tvl > 0)
    BY <1>0 DEF VaultTyped, DepositReads
  <2>2. CASE totalShares = 0
    BY <1>0, <2>2 DEF SharesForDeposit
  <2>3. CASE totalShares # 0
    <3>1. tvl \in Nat \ {0}
      BY <2>1, <2>3
    <3>2. (n * totalShares) \div tvl \in Nat
      BY <1>0, <2>1, <3>1, DivNat
    <3>3. (n * tvl) \div tvl = n
      BY <1>0, <3>1, DivNat
    <3> QED  BY <2>3, <3>2, <3>3 DEF SharesForDeposit
  <2> QED  BY <2>2, <2>3
<1>2. PICK k : k = [at |-> "push", user |-> a, amount |-> n, shares |-> SharesForDeposit(n)]
  OBVIOUS
<1>3. k \in Depositing /\ k.at = "push" /\ k.amount = n /\ k.shares = SharesForDeposit(n)
  BY <1>1, <1>2 DEF Depositing
<1>4. /\ vaultCall' = [vaultCall EXCEPT ![c] = k] /\ deposited' = deposited + n
      /\ UNCHANGED <<tvl, totalShares, userDeposits, vaultNow, paid, overtaken>>
      /\ vaultCall[c].at = "idle" /\ VaultsFree
  BY <1>2 DEF DepositReads
<1>5. Moves(c) /\ vaultCall'[c] = k
  BY <1>0, <1>4 DEF Moves, VaultTyped
<1>6. /\ VaultTyped' /\ Underway(vaultCall) \in Nat
      /\ Underway(vaultCall') = Underway(vaultCall) - PendingOf(vaultCall[c]) + PendingOf(vaultCall'[c])
  <2>1. deposited' \in Nat
    BY <1>0, <1>4 DEF VaultTyped
  <2> QED  BY <1>0, <1>3, <1>4, <1>5, <2>1, MovesTyped DEF VaultTyped
<1>7. Underway(vaultCall') = Underway(vaultCall) + n
  BY <1>0, <1>3, <1>4, <1>5, <1>6 DEF PendingOf
<1>8. ASSUME ~overtaken PROVE CallsPriced'
  BY <1>1, <1>3, <1>4, <1>5, <1>8 DEF VaultInv, CallsPriced, Moves
<1>9. (DepositsFree' <=> DepositsFree) /\ (VaultsFree' <=> VaultsFree)
  BY <1>3, <1>4, <1>5 DEF DepositsFree, VaultsFree, Moves
<1>10. ASSUME ~overtaken PROVE SharesAgree'
  <2>1. \A d \in VaultCalls : vaultCall'[d].at # "retire"
    BY <1>4, <1>9 DEF VaultsFree
  <2>2. paid' + tvl' + Underway(vaultCall') = deposited'
    BY <1>0, <1>4, <1>6, <1>7, <1>10 DEF VaultInv, SharesAgree, VaultTyped
  <2>3. \A d \in VaultCalls : vaultCall'[d].at = "total" => vaultCall[d].at = "total" /\ vaultCall'[d] = vaultCall[d]
    BY <1>3, <1>5 DEF Moves
  <2> QED  BY <1>4, <1>9, <1>10, <2>1, <2>2, <2>3 DEF VaultInv, SharesAgree
<1> QED  BY <1>4, <1>6, <1>8, <1>10 DEF VaultInv

LEMMA DepositPushesKeeps ==
    ASSUME VaultInv, NEW c \in VaultCalls, DepositPushes(c)
    PROVE  VaultInv'
<1>0. VaultTyped /\ vaultCall[c].at = "push" /\ DepositsFree
  BY DEF VaultInv, DepositPushes
<1>1. PICK k : k = vaultCall[c]
  OBVIOUS
<1>2. k \in Depositing /\ k.at = "push" /\ k.user \in VaultUsers /\ k.shares \in Nat /\ k.amount \in Nat
  BY <1>0, <1>1, CallShapes, VaultAssumption DEF Depositing
<1>3. PICK after : after = [k EXCEPT !.at = "total"]
  OBVIOUS
<1>4. /\ after \in Depositing /\ after.at = "total"
      /\ after.shares = k.shares /\ after.amount = k.amount
  BY <1>2, <1>3 DEF Depositing
<1>5. PICK d : d = [shares |-> k.shares, unlock |-> vaultNow + LockPeriod]
  OBVIOUS
<1>6. d \in DepositRecords /\ d.shares = k.shares
  BY <1>0, <1>2, <1>5, VaultAssumption DEF DepositRecords, VaultTyped
<1>7. PICK ds : ds = userDeposits[k.user]
  OBVIOUS
<1>8. /\ vaultCall' = [vaultCall EXCEPT ![c] = after]
      /\ userDeposits' = [userDeposits EXCEPT ![k.user] = Append(ds, d)]
      /\ UNCHANGED <<tvl, totalShares, vaultNow, deposited, paid, overtaken>>
  BY <1>1, <1>3, <1>5, <1>7 DEF DepositPushes
<1>9. /\ Append(ds, d) \in Seq(DepositRecords)
      /\ SharesOf(Append(ds, d)) = SharesOf(ds) + k.shares /\ ds \in Seq(DepositRecords)
  <2>1. ds \in Seq(DepositRecords)
    BY <1>0, <1>2, <1>7 DEF VaultTyped
  <2> QED  BY <1>6, <2>1, SharesAppend
<1>10. /\ userDeposits' \in [VaultUsers -> Seq(DepositRecords)]
       /\ AllShares(userDeposits) \in Nat
       /\ AllShares(userDeposits') = AllShares(userDeposits) + k.shares
  <2>1. PICK u, v : u = userDeposits /\ v = Append(ds, d)
    OBVIOUS
  <2>2. u \in [VaultUsers -> Seq(DepositRecords)] /\ v \in Seq(DepositRecords) /\ k.user \in VaultUsers
    BY <1>0, <1>2, <1>9, <2>1 DEF VaultTyped
  <2>3. /\ AllShares(u) \in Nat /\ SharesOf(u[k.user]) \in Nat
        /\ AllShares([u EXCEPT ![k.user] = v]) = AllShares(u) - SharesOf(u[k.user]) + SharesOf(v)
    BY <2>2, AllSharesChange
  <2>4. userDeposits' = [u EXCEPT ![k.user] = v]
    BY <1>8, <2>1
  <2>5. userDeposits' \in [VaultUsers -> Seq(DepositRecords)]
    BY <2>2, <2>4
  <2> QED  BY <1>2, <1>7, <1>9, <2>1, <2>3, <2>4, <2>5
<1>11. Moves(c) /\ vaultCall'[c] = after
  BY <1>0, <1>8 DEF Moves, VaultTyped
<1>12. /\ VaultTyped' /\ Underway(vaultCall) \in Nat
       /\ Underway(vaultCall') = Underway(vaultCall) - PendingOf(vaultCall[c]) + PendingOf(vaultCall'[c])
  BY <1>0, <1>4, <1>8, <1>10, <1>11, MovesTyped DEF VaultTyped
<1>13. Underway(vaultCall') = Underway(vaultCall)
  BY <1>1, <1>2, <1>4, <1>11, <1>12 DEF PendingOf
<1>14. ASSUME ~overtaken PROVE CallsPriced'
  BY <1>0, <1>1, <1>2, <1>4, <1>11, <1>14 DEF VaultInv, CallsPriced, Moves
<1>15. VaultsFree' <=> VaultsFree
  BY <1>0, <1>4, <1>11 DEF VaultsFree, Moves
<1>16. ASSUME ~overtaken PROVE SharesAgree'
  <2>1. ~ DepositsFree'
    BY <1>4, <1>11 DEF DepositsFree
  <2>2. \A e \in VaultCalls : vaultCall'[e].at = "total" => e = c
    BY <1>0, <1>11 DEF Moves, DepositsFree
  <2>3. VaultsFree => totalShares + k.shares = AllShares(userDeposits')
    BY <1>0, <1>10, <1>16 DEF VaultInv, SharesAgree
  <2> QED
    BY <1>4, <1>8, <1>11, <1>13, <1>15, <1>16, <2>1, <2>2, <2>3 DEF VaultInv, SharesAgree
<1> QED  BY <1>8, <1>12, <1>14, <1>16 DEF VaultInv

LEMMA DepositTotalsKeeps ==
    ASSUME VaultInv, NEW c \in VaultCalls, DepositTotals(c)
    PROVE  VaultInv'
<1>0. VaultTyped /\ vaultCall[c].at = "total" /\ VaultsFree
  BY DEF VaultInv, DepositTotals
<1>1. PICK k : k = vaultCall[c]
  OBVIOUS
<1>2. k \in Depositing /\ k.at = "total" /\ k.shares \in Nat /\ k.amount \in Nat
  BY <1>0, <1>1, CallShapes, VaultAssumption DEF Depositing
<1>3. /\ vaultCall' = [vaultCall EXCEPT ![c] = NoVaultCall]
      /\ tvl' = tvl + k.amount /\ totalShares' = totalShares + k.shares
      /\ UNCHANGED <<userDeposits, vaultNow, deposited, paid, overtaken>>
  BY <1>1 DEF DepositTotals
<1>4. Moves(c) /\ vaultCall'[c] = NoVaultCall /\ vaultCall'[c].at = "idle"
  BY <1>0, <1>3 DEF Moves, VaultTyped, NoVaultCall
<1>5. tvl' \in Nat /\ totalShares' \in Nat
  BY <1>0, <1>2, <1>3 DEF VaultTyped
<1>6. /\ VaultTyped' /\ Underway(vaultCall) \in Nat
      /\ Underway(vaultCall') = Underway(vaultCall) - PendingOf(vaultCall[c]) + PendingOf(vaultCall'[c])
  BY <1>0, <1>3, <1>4, <1>5, MovesTyped DEF VaultTyped
<1>7. Underway(vaultCall') = Underway(vaultCall) - k.amount
  BY <1>1, <1>2, <1>4, <1>6 DEF PendingOf
<1>8. ASSUME ~overtaken PROVE CallsPriced' /\ k.amount = k.shares
  BY <1>1, <1>2, <1>4, <1>8 DEF VaultInv, CallsPriced, Moves
<1>9. VaultsFree' /\ DepositsFree'
  BY <1>0, <1>4 DEF VaultsFree, DepositsFree, VaultTyped, Moves
<1>10. ASSUME ~overtaken PROVE SharesAgree' /\ tvl' = totalShares'
  <2>1. totalShares' = AllShares(userDeposits')
    BY <1>0, <1>1, <1>2, <1>3, <1>10 DEF VaultInv, SharesAgree
  <2>2. paid' + tvl' + Underway(vaultCall') = deposited'
    BY <1>0, <1>2, <1>3, <1>6, <1>7, <1>10 DEF VaultInv, SharesAgree, VaultTyped
  <2>3. tvl' = totalShares'
    BY <1>3, <1>8, <1>10 DEF VaultInv
  <2> QED  BY <1>9, <2>1, <2>2, <2>3 DEF SharesAgree, VaultsFree, DepositsFree
<1> QED  BY <1>3, <1>6, <1>8, <1>10 DEF VaultInv

LEMMA WithdrawReadsKeeps ==
    ASSUME VaultInv, NEW c \in VaultCalls, NEW a \in VaultUsers, NEW n \in Amounts, WithdrawReads(c, a, n)
    PROVE  VaultInv'
<1>0. VaultTyped /\ n \in Nat /\ n > 0 /\ tvl \in Nat /\ totalShares \in Nat
  BY VaultAssumption DEF VaultInv, VaultTyped
<1>1. /\ WithdrawalAmount(n) \in Nat
      /\ tvl = totalShares => WithdrawalAmount(n) = IF totalShares = 0 THEN 0 ELSE n
  <2>1. CASE totalShares = 0
    BY <2>1 DEF WithdrawalAmount
  <2>2. CASE totalShares # 0
    <3>1. totalShares \in Nat \ {0}
      BY <1>0, <2>2
    <3>2. (n * tvl) \div totalShares \in Nat /\ (n * totalShares) \div totalShares = n
      BY <1>0, <3>1, DivNat
    <3> QED  BY <2>2, <3>2 DEF WithdrawalAmount
  <2> QED  BY <2>1, <2>2
<1>2. PICK k : k = [at |-> "check", user |-> a, shares |-> n, amount |-> WithdrawalAmount(n),
                    copy |-> <<tvl, totalShares>>]
  OBVIOUS
<1>3. /\ k \in Withdrawing /\ k.at = "check" /\ k.shares = n /\ k.amount = WithdrawalAmount(n)
      /\ k.copy[1] = tvl /\ k.copy[2] = totalShares
  BY <1>0, <1>1, <1>2 DEF Withdrawing
<1>4. /\ vaultCall' = [vaultCall EXCEPT ![c] = k] /\ vaultCall[c].at = "idle"
      /\ UNCHANGED <<tvl, totalShares, userDeposits, vaultNow, deposited, paid, overtaken>>
  BY <1>2 DEF WithdrawReads
<1>5. Moves(c) /\ vaultCall'[c] = k /\ vaultNow' \in Nat
  BY <1>0, <1>4 DEF Moves, VaultTyped
<1>6. Quiet(c)
  BY <1>1, <1>3, <1>4, <1>5 DEF Quiet, VaultInv
<1> QED  BY <1>6, QuietKeeps

(* A withdrawal that goes on as it is, or ends.                            *)
LEMMA GoesOnKeeps ==
    ASSUME VaultInv, NEW c \in VaultCalls, NEW stage \in {"check", "unlocked", "update"},
           vaultCall[c].at \in {"check", "unlocked"},
           vaultCall' \in {[vaultCall EXCEPT ![c] = NoVaultCall], [vaultCall EXCEPT ![c].at = stage]},
           UNCHANGED <<tvl, totalShares, userDeposits, vaultNow, deposited, paid, overtaken>>
    PROVE  VaultInv'
<1>0. VaultTyped
  BY DEF VaultInv
<1>1. PICK k : k = vaultCall[c]
  OBVIOUS
<1>2. k \in Withdrawing
  BY <1>0, <1>1, CallShapes
<1>3. PICK after : after = [k EXCEPT !.at = stage]
  OBVIOUS
<1>4. /\ after \in Withdrawing /\ after.at = stage /\ after.copy = k.copy
      /\ after.amount = k.amount /\ after.shares = k.shares
  BY <1>2, <1>3 DEF Withdrawing
<1>5. vaultCall' \in {[vaultCall EXCEPT ![c] = NoVaultCall], [vaultCall EXCEPT ![c] = after]}
  BY <1>1, <1>3
<1>6. Moves(c) /\ vaultCall'[c] \in {NoVaultCall, after} /\ vaultNow' \in Nat
  BY <1>0, <1>5 DEF Moves, VaultTyped
<1>7. ~overtaken => k.copy[1] = k.copy[2] /\ k.amount = IF k.copy[2] = 0 THEN 0 ELSE k.shares
  BY <1>1 DEF VaultInv, CallsPriced
<1>8. CASE vaultCall'[c] = NoVaultCall
  <2>1. vaultCall'[c].at = "idle"
    BY <1>8 DEF NoVaultCall
  <2> QED  BY <1>6, <1>8, <2>1, QuietKeeps DEF Quiet
<1>9. CASE vaultCall'[c] = after
  <2>1. Quiet(c)
    BY <1>4, <1>6, <1>7, <1>9 DEF Quiet
  <2> QED  BY <2>1, QuietKeeps
<1> QED  BY <1>6, <1>8, <1>9

LEMMA WithdrawUpdatesKeeps ==
    ASSUME VaultInv, NEW c \in VaultCalls, WithdrawUpdates(c)
    PROVE  VaultInv'
<1>0. VaultTyped /\ vaultCall[c].at = "update" /\ VaultsFree
  BY DEF VaultInv, WithdrawUpdates
<1>1. PICK k : k = vaultCall[c]
  OBVIOUS
<1>2. k \in Withdrawing /\ k.at = "update" /\ k.shares \in Nat \ {0} /\ k.amount \in Nat
  BY <1>0, <1>1, CallShapes, VaultAssumption DEF Withdrawing
<1>3. PICK after : after = [k EXCEPT !.at = "retire"]
  OBVIOUS
<1>4. after \in Withdrawing /\ after.at = "retire" /\ after.shares = k.shares
  BY <1>2, <1>3 DEF Withdrawing
<1>5. /\ vaultCall' = [vaultCall EXCEPT ![c] = after]
      /\ tvl' = Less(tvl, k.amount) /\ totalShares' = Less(totalShares, k.shares)
      /\ paid' = paid + k.amount
      /\ overtaken' = (overtaken \/ k.copy # <<tvl, totalShares>>)
      /\ UNCHANGED <<userDeposits, vaultNow, deposited>>
  BY <1>1, <1>3 DEF WithdrawUpdates, TotalsAfter
<1>6. Moves(c) /\ vaultCall'[c] = after
  BY <1>0, <1>5 DEF Moves, VaultTyped
<1>7. tvl' \in Nat /\ totalShares' \in Nat /\ paid' \in Nat /\ overtaken' \in BOOLEAN
  BY <1>0, <1>2, <1>5 DEF VaultTyped, Less
<1>8. /\ VaultTyped' /\ Underway(vaultCall) \in Nat /\ AllShares(userDeposits) \in Nat
      /\ Underway(vaultCall') = Underway(vaultCall) - PendingOf(vaultCall[c]) + PendingOf(vaultCall'[c])
  BY <1>0, <1>4, <1>5, <1>6, <1>7, MovesTyped DEF VaultTyped
<1>9. Underway(vaultCall') = Underway(vaultCall)
  BY <1>1, <1>2, <1>4, <1>6, <1>8 DEF PendingOf
<1>10. ASSUME ~overtaken'
       PROVE  tvl' = totalShares' /\ CallsPriced' /\ SharesAgree'
  <2>0. ~overtaken /\ k.copy = <<tvl, totalShares>>
    BY <1>5, <1>10
  <2>1. ~overtaken /\ k.copy[1] = tvl /\ k.copy[2] = totalShares
    BY <2>0
  <2>2. tvl = totalShares /\ k.amount = IF totalShares = 0 THEN 0 ELSE k.shares
    BY <1>1, <1>2, <2>1 DEF VaultInv, CallsPriced
  <2>3. tvl' = totalShares'
    BY <1>0, <1>2, <1>5, <2>2 DEF Less, VaultTyped
  <2>4. CallsPriced'
    BY <1>4, <1>6, <2>1 DEF VaultInv, CallsPriced, Moves
  <2>5. ~ VaultsFree'
    BY <1>4, <1>6 DEF VaultsFree
  <2>6. \A d \in VaultCalls : vaultCall'[d].at = "retire" => d = c
    BY <1>0, <1>6 DEF VaultsFree, Moves
  <2>7. DepositsFree' <=> DepositsFree
    BY <1>1, <1>2, <1>4, <1>6 DEF DepositsFree, Moves
  <2>8. ASSUME DepositsFree
        PROVE  /\ totalShares' = Less(AllShares(userDeposits), k.shares)
               /\ k.shares <= AllShares(userDeposits) => paid' + tvl' + Underway(vaultCall') = deposited
    <3>1. totalShares = AllShares(userDeposits) /\ paid + tvl + Underway(vaultCall) = deposited
      BY <1>0, <2>1, <2>8 DEF VaultInv, SharesAgree
    <3>2. k.shares <= AllShares(userDeposits) => k.amount = k.shares /\ tvl' = tvl - k.amount
      BY <1>0, <1>2, <1>5, <2>2, <3>1 DEF Less, VaultTyped
    <3>3. totalShares' = Less(AllShares(userDeposits), k.shares)
      BY <1>5, <3>1, Zenon
    <3>4. /\ paid \in Nat /\ tvl \in Nat /\ deposited \in Nat /\ deposited' = deposited
          /\ paid' = paid + k.amount /\ Underway(vaultCall') = Underway(vaultCall)
      BY <1>0, <1>5, <1>9 DEF VaultTyped
    <3>5. k.shares <= AllShares(userDeposits) => paid' + tvl' + Underway(vaultCall') = deposited
      BY <1>2, <1>8, <3>1, <3>2, <3>4
    <3> QED  BY <1>5, <3>3, <3>5
  <2> QED  BY <1>4, <1>5, <1>6, <2>3, <2>4, <2>5, <2>6, <2>7, <2>8 DEF SharesAgree
<1> QED  BY <1>8, <1>10 DEF VaultInv

LEMMA WithdrawRetiresKeeps ==
    ASSUME VaultInv, NEW c \in VaultCalls, WithdrawRetires(c)
    PROVE  VaultInv'
<1>0. VaultTyped /\ vaultCall[c].at = "retire" /\ DepositsFree
  BY DEF VaultInv, WithdrawRetires
<1>1. PICK k, ds : k = vaultCall[c] /\ ds = userDeposits[k.user]
  OBVIOUS
<1>2. k \in Withdrawing /\ k.at = "retire" /\ k.shares \in Nat /\ k.user \in VaultUsers
  BY <1>0, <1>1, CallShapes, VaultAssumption DEF Withdrawing
<1>3. PICK kept : kept = Retained(ds, {i \in DOMAIN ds : ds[i].shares > k.shares})
  OBVIOUS
<1>4. /\ vaultCall' = [vaultCall EXCEPT ![c] = NoVaultCall]
      /\ userDeposits' = [userDeposits EXCEPT ![k.user] = kept]
      /\ overtaken' = (overtaken \/ SharesOf(ds) # k.shares)
      /\ UNCHANGED <<tvl, totalShares, vaultNow, deposited, paid>>
  BY <1>1, <1>3 DEF WithdrawRetires, UserShares, SharesOf
<1>5. ds \in Seq(DepositRecords) /\ kept \in Seq(DepositRecords)
  <2>1. ds \in Seq(DepositRecords)
    BY <1>0, <1>1, <1>2 DEF VaultTyped
  <2> QED  BY <1>3, <2>1, SomeKept
<1>6. /\ userDeposits' \in [VaultUsers -> Seq(DepositRecords)]
      /\ AllShares(userDeposits) \in Nat /\ SharesOf(ds) <= AllShares(userDeposits)
      /\ AllShares(userDeposits') = AllShares(userDeposits) - SharesOf(ds) + SharesOf(kept)
  <2>1. PICK u : u = userDeposits
    OBVIOUS
  <2>2. u \in [VaultUsers -> Seq(DepositRecords)]
    BY <1>0, <2>1 DEF VaultTyped
  <2>3. /\ AllShares(u) \in Nat /\ SharesOf(u[k.user]) <= AllShares(u)
        /\ AllShares([u EXCEPT ![k.user] = kept]) = AllShares(u) - SharesOf(u[k.user]) + SharesOf(kept)
    BY <1>2, <1>5, <2>2, AllSharesChange
  <2>4. userDeposits' = [u EXCEPT ![k.user] = kept]
    BY <1>4, <2>1
  <2>5. userDeposits' \in [VaultUsers -> Seq(DepositRecords)]
    BY <1>2, <1>5, <2>2, <2>4
  <2> QED  BY <1>1, <2>1, <2>3, <2>4, <2>5
<1>7. Moves(c) /\ vaultCall'[c] = NoVaultCall /\ vaultCall'[c].at = "idle"
  BY <1>0, <1>4 DEF Moves, VaultTyped, NoVaultCall
<1>8. /\ VaultTyped' /\ Underway(vaultCall) \in Nat
      /\ Underway(vaultCall') = Underway(vaultCall) - PendingOf(vaultCall[c]) + PendingOf(vaultCall'[c])
  <2>1. overtaken' \in BOOLEAN
    BY <1>0, <1>4 DEF VaultTyped
  <2> QED  BY <1>0, <1>4, <1>6, <1>7, <2>1, MovesTyped DEF VaultTyped
<1>9. Underway(vaultCall') = Underway(vaultCall)
  BY <1>1, <1>2, <1>7, <1>8 DEF PendingOf
<1>10. ASSUME ~overtaken'
       PROVE  tvl' = totalShares' /\ CallsPriced' /\ SharesAgree'
  <2>1. ~overtaken /\ SharesOf(ds) = k.shares
    BY <1>4, <1>10
  <2>2. kept = <<>> /\ SharesOf(kept) = 0
    BY <1>3, <1>5, <2>1, AllTaken, SharesAreNat
  <2>3. AllShares(userDeposits') = AllShares(userDeposits) - k.shares /\ k.shares <= AllShares(userDeposits)
    BY <1>2, <1>6, <2>1, <2>2
  <2>4. /\ totalShares = Less(AllShares(userDeposits), k.shares)
        /\ paid + tvl + Underway(vaultCall) = deposited
    BY <1>0, <1>1, <2>1, <2>3 DEF VaultInv, SharesAgree
  <2>5. totalShares' = AllShares(userDeposits') /\ paid' + tvl' + Underway(vaultCall') = deposited'
    BY <1>2, <1>4, <1>6, <1>9, <2>3, <2>4 DEF Less
  <2>6. VaultsFree' /\ DepositsFree'
    BY <1>0, <1>7 DEF VaultsFree, DepositsFree, VaultTyped, Moves
  <2>7. SharesAgree'
    BY <2>5, <2>6 DEF SharesAgree, VaultsFree, DepositsFree
  <2>8. CallsPriced'
    BY <1>7, <2>1 DEF VaultInv, CallsPriced, Moves
  <2> QED  BY <1>4, <2>1, <2>7, <2>8 DEF VaultInv
<1> QED  BY <1>8, <1>10 DEF VaultInv

LEMMA VaultStays ==
    ASSUME VaultInv, UNCHANGED <<tvl, totalShares, userDeposits, vaultCall, deposited, paid, overtaken>>,
           vaultNow' \in Nat
    PROVE  VaultInv'
<1>1. Depositing' = Depositing /\ Withdrawing' = Withdrawing /\ DepositRecords' = DepositRecords /\ NoVaultCall' = NoVaultCall
  BY DEF Depositing, Withdrawing, DepositRecords, NoVaultCall
<1>2. VaultTyped'
  BY <1>1 DEF VaultInv, VaultTyped
<1>3. ASSUME ~overtaken PROVE CallsPriced' /\ SharesAgree'
  BY <1>3 DEF VaultInv, CallsPriced, SharesAgree, VaultsFree, DepositsFree
<1> QED  BY <1>2, <1>3 DEF VaultInv

LEMMA VaultSteps == VaultInv /\ [MCNext]_mcVars => VaultInv'
<1> SUFFICES ASSUME VaultInv, [MCNext]_mcVars PROVE VaultInv'
  OBVIOUS
<1>0. vaultNow \in Nat
  BY DEF VaultInv, VaultTyped
<1>1. CASE UNCHANGED vaultVars
  BY <1>0, <1>1, VaultStays DEF vaultVars
<1>2. CASE VaultNext
  <2>1. CASE VaultTick
    <3>1. vaultNow' \in Nat
      BY <1>0, <2>1 DEF VaultTick
    <3> QED  BY <2>1, <3>1, VaultStays DEF VaultTick
  <2>2. ASSUME NEW c \in VaultCalls, NEW a \in VaultUsers, NEW n \in Amounts,
               DepositReads(c, a, n) \/ WithdrawReads(c, a, n)
        PROVE  VaultInv'
    BY <2>2, DepositReadsKeeps, WithdrawReadsKeeps
  <2>3. ASSUME NEW c \in VaultCalls, DepositPushes(c) \/ DepositTotals(c) PROVE VaultInv'
    BY <2>3, DepositPushesKeeps, DepositTotalsKeeps
  <2>4. ASSUME NEW c \in VaultCalls, WithdrawChecks(c) PROVE VaultInv'
    <3>1. vaultCall' \in {[vaultCall EXCEPT ![c] = NoVaultCall], [vaultCall EXCEPT ![c].at = "unlocked"]}
      BY <2>4 DEF WithdrawChecks
    <3>2. /\ vaultCall[c].at \in {"check", "unlocked"}
          /\ UNCHANGED <<tvl, totalShares, userDeposits, vaultNow, deposited, paid, overtaken>>
      BY <2>4 DEF WithdrawChecks
    <3>3. PICK stage \in {"check", "unlocked", "update"} : stage = "unlocked"
      OBVIOUS
    <3> QED  BY <3>1, <3>2, <3>3, GoesOnKeeps
  <2>5. ASSUME NEW c \in VaultCalls, WithdrawUnlocked(c) PROVE VaultInv'
    <3>1. vaultCall' \in {[vaultCall EXCEPT ![c] = NoVaultCall], [vaultCall EXCEPT ![c].at = "update"]}
      BY <2>5 DEF WithdrawUnlocked
    <3>2. /\ vaultCall[c].at \in {"check", "unlocked"}
          /\ UNCHANGED <<tvl, totalShares, userDeposits, vaultNow, deposited, paid, overtaken>>
      BY <2>5 DEF WithdrawUnlocked
    <3>3. PICK stage \in {"check", "unlocked", "update"} : stage = "update"
      OBVIOUS
    <3> QED  BY <3>1, <3>2, <3>3, GoesOnKeeps
  <2>6. ASSUME NEW c \in VaultCalls, WithdrawUpdates(c) \/ WithdrawRetires(c) PROVE VaultInv'
    BY <2>6, WithdrawUpdatesKeeps, WithdrawRetiresKeeps
  <2> QED  BY <1>2, <2>1, <2>2, <2>3, <2>4, <2>5, <2>6 DEF VaultNext
<1>3. UNCHANGED vaultVars \/ VaultNext
  BY DEF MCNext, mcVars, exchangeVars
<1> QED  BY <1>1, <1>2, <1>3

-----------------------------------------------------------------------------
(* The orders: a call claims the order it replaces, or asks the exchange to *)
(* cancel; two claims on one order need two calls that asked at once.       *)

Placing == [at : {"place"}, symbol : {"market", "pair"}, replaces : Nat]

Cancels ==
    [at : {"find", "ask", "retain"}, modify : BOOLEAN,
     all : SUBSET Nat, todo : SUBSET Nat, kept : SUBSET Nat]

AtOf(k) == Min(k.todo)
Taking(k) == k.at \in {"ask", "retain"}
Claims(k, x) == k.at = "place" /\ k.replaces = x /\ x # 0

OrderTyped ==
    /\ origin \in Seq(Nat) /\ DOMAIN openOrders \subseteq 1 .. Len(origin)
    /\ DOMAIN orderCall = OrderCalls
    /\ \A c \in OrderCalls :
          orderCall[c] = NoOrderCall \/ orderCall[c] \in Placing \/ orderCall[c] \in Cancels

(* An order that is replaced is no longer open.                            *)
ReplacedAreGone ==
    /\ \A n \in DOMAIN origin : origin[n] <= Len(origin) /\ origin[n] \notin DOMAIN openOrders
    /\ \A c \in OrderCalls :
          LET k == orderCall[c]
          IN  /\ k.at = "place" => k.replaces <= Len(origin) /\ k.replaces \notin DOMAIN openOrders
              /\ Taking(k) => AtOf(k) \in 1 .. Len(origin)
              /\ k.at \in {"find", "ask", "retain"} =>
                    /\ k.all \subseteq 1 .. Len(origin)
                    /\ DOMAIN openOrders \cap k.all \subseteq k.todo \cup k.kept

ClaimedOnce ==
    /\ \A c, d \in OrderCalls : c # d =>
          /\ Taking(orderCall[c]) /\ Taking(orderCall[d]) /\ AtOf(orderCall[c]) = AtOf(orderCall[d]) =>
                AtOf(orderCall[c]) \in overlapped
          /\ Taking(orderCall[c]) /\ Claims(orderCall[d], AtOf(orderCall[c])) =>
                AtOf(orderCall[c]) \in overlapped
          /\ \A x : Claims(orderCall[c], x) /\ Claims(orderCall[d], x) => x \in overlapped
    /\ \A c \in OrderCalls : \A n \in DOMAIN origin :
          /\ Taking(orderCall[c]) /\ origin[n] = AtOf(orderCall[c]) => origin[n] \in overlapped
          /\ Claims(orderCall[c], origin[n]) => origin[n] \in overlapped
    /\ \A m, n \in DOMAIN origin :
          m # n /\ origin[m] = origin[n] /\ origin[m] # 0 => origin[m] \in overlapped

OrderInv == OrderTyped /\ ReplacedAreGone /\ ClaimedOnce

LEMMA OrderInvReplaces == OrderInv => OrdersReplacedOnce
BY DEF OrderInv, OrderTyped, ReplacedAreGone, ClaimedOnce, OrdersReplacedOnce

LEMMA OrderStarts == OrderInit => OrderInv
<1> SUFFICES ASSUME OrderInit PROVE OrderInv
  OBVIOUS
<1>1. \A c \in OrderCalls : orderCall[c] = NoOrderCall /\ orderCall[c].at = "idle"
  BY DEF OrderInit, NoOrderCall
<1>2. /\ origin \in Seq(Nat) /\ DOMAIN origin = {} /\ DOMAIN openOrders = {}
      /\ DOMAIN orderCall = OrderCalls
  BY DEF OrderInit
<1>3. \A c \in OrderCalls : ~ Taking(orderCall[c]) /\ \A x : ~ Claims(orderCall[c], x)
  BY <1>1 DEF Taking, Claims
<1> QED  BY <1>1, <1>2, <1>3 DEF OrderInv, OrderTyped, ReplacedAreGone, ClaimedOnce

LEMMA OrderCallShapes ==
    ASSUME OrderTyped, NEW c \in OrderCalls
    PROVE  LET k == orderCall[c]
           IN /\ k.at = "place" => k \in Placing
              /\ k.at \in {"find", "ask", "retain"} => k \in Cancels
              /\ k.at = "idle" => k = NoOrderCall
<1>1. orderCall[c] = NoOrderCall \/ orderCall[c] \in Placing \/ orderCall[c] \in Cancels
  BY DEF OrderTyped
<1> QED  BY <1>1 DEF NoOrderCall, Placing, Cancels

OrderMoves(c) ==
    DOMAIN orderCall' = OrderCalls /\ \A d \in OrderCalls \ {c} : orderCall'[d] = orderCall[d]

LEMMA OrderMovesTyped ==
    ASSUME OrderTyped, NEW c \in OrderCalls, OrderMoves(c),
           orderCall'[c] = NoOrderCall \/ orderCall'[c] \in Placing \/ orderCall'[c] \in Cancels,
           origin' \in Seq(Nat) /\ DOMAIN openOrders' \subseteq 1 .. Len(origin')
    PROVE  OrderTyped'
<1>1. NoOrderCall' = NoOrderCall /\ Placing' = Placing /\ Cancels' = Cancels
  BY DEF NoOrderCall, Placing, Cancels
<1>2. \A d \in OrderCalls :
          orderCall'[d] = NoOrderCall \/ orderCall'[d] \in Placing \/ orderCall'[d] \in Cancels
  BY DEF OrderTyped, OrderMoves
<1> QED  BY <1>1, <1>2 DEF OrderTyped, OrderMoves

(* A call that claims nothing and asks for nothing after its step.         *)
Harmless(k) ==
    \/ k = NoOrderCall
    \/ k \in Placing /\ k.replaces = 0
    \/ /\ k \in Cancels /\ k.at = "find" /\ k.all \subseteq 1 .. Len(origin)
       /\ DOMAIN openOrders \cap k.all \subseteq k.todo \cup k.kept

LEMMA HarmlessKeeps ==
    ASSUME OrderInv, NEW c \in OrderCalls, NEW k, Harmless(k),
           orderCall' = [orderCall EXCEPT ![c] = k], UNCHANGED <<openOrders, origin, overlapped>>
    PROVE  OrderInv'
<1>0. OrderTyped
  BY DEF OrderInv
<1>1. OrderMoves(c) /\ orderCall'[c] = k
  BY <1>0 DEF OrderMoves, OrderTyped
<1>2. k = NoOrderCall \/ k \in Placing \/ k \in Cancels
  BY DEF Harmless
<1>3. OrderTyped'
  BY <1>0, <1>1, <1>2, OrderMovesTyped DEF OrderTyped
<1>4. /\ ~ Taking(k) /\ \A x : ~ Claims(k, x)
      /\ k.at = "place" => k.replaces = 0
      /\ k.at \in {"find", "ask", "retain"} =>
            k.all \subseteq 1 .. Len(origin) /\ DOMAIN openOrders \cap k.all \subseteq k.todo \cup k.kept
  BY DEF Harmless, NoOrderCall, Placing, Cancels, Taking, Claims
<1>5. Len(origin) \in Nat /\ DOMAIN openOrders \subseteq 1 .. Len(origin)
  BY <1>0 DEF OrderTyped
<1>6. ReplacedAreGone'
  <2> SUFFICES ASSUME NEW d \in OrderCalls
      PROVE  LET j == orderCall'[d]
             IN  /\ j.at = "place" => j.replaces <= Len(origin) /\ j.replaces \notin DOMAIN openOrders
                 /\ Taking(j) => AtOf(j) \in 1 .. Len(origin)
                 /\ j.at \in {"find", "ask", "retain"} =>
                       /\ j.all \subseteq 1 .. Len(origin)
                       /\ DOMAIN openOrders \cap j.all \subseteq j.todo \cup j.kept
    BY DEF OrderInv, ReplacedAreGone, Taking, AtOf
  <2>1. CASE d = c
    BY <1>1, <1>4, <1>5, <2>1
  <2>2. CASE d # c
    BY <1>1, <2>2 DEF OrderInv, ReplacedAreGone, OrderMoves
  <2> QED  BY <2>1, <2>2
<1>7. ClaimedOnce'
  <2>1. \A d \in OrderCalls :
           \/ orderCall'[d] = orderCall[d]
           \/ ~ Taking(orderCall'[d]) /\ \A x : ~ Claims(orderCall'[d], x)
    BY <1>1, <1>4 DEF OrderMoves
  <2> QED
    BY <2>1 DEF OrderInv, ClaimedOnce, Taking, Claims, AtOf
<1> QED  BY <1>3, <1>6, <1>7 DEF OrderInv

(* The records that the steps make of a cancelling call.                   *)
LEMMA StageRecord ==
    ASSUME NEW k \in Cancels, NEW stage \in {"find", "ask", "retain"}, NEW j, j = [k EXCEPT !.at = stage]
    PROVE  j \in Cancels /\ j.at = stage /\ j.todo = k.todo /\ j.all = k.all /\ j.kept = k.kept
BY DEF Cancels

LEMMA TakenRecord ==
    ASSUME NEW k \in Cancels, NEW x, NEW j, j = [k EXCEPT !.at = "find", !.todo = @ \ {x}]
    PROVE  j \in Cancels /\ j.at = "find" /\ j.todo = k.todo \ {x} /\ j.all = k.all /\ j.kept = k.kept
<1>1. PICK t : t = k.todo \ {x}
  OBVIOUS
<1>2. t \in SUBSET Nat
  BY <1>1 DEF Cancels
<1>3. PICK f : f = [k EXCEPT !.at = "find"]
  OBVIOUS
<1>4. f \in Cancels /\ f.at = "find" /\ f.todo = k.todo /\ f.all = k.all /\ f.kept = k.kept
  BY <1>3 DEF Cancels
<1>5. PICK g : g = [f EXCEPT !.todo = t]
  OBVIOUS
<1>6. g \in Cancels /\ g.at = "find" /\ g.todo = t /\ g.all = k.all /\ g.kept = k.kept
  BY <1>2, <1>4, <1>5 DEF Cancels
<1>7. j = g
  BY <1>1, <1>3, <1>4, <1>5, Zenon DEF Cancels
<1> QED  BY <1>1, <1>6, <1>7

(* What the invariant says of one call and of the orders.                  *)
LEMMA OneCall ==
    ASSUME OrderInv, NEW c \in OrderCalls
    PROVE  LET k == orderCall[c]
           IN  /\ k.at = "place" => k \in Placing /\ k.replaces <= Len(origin) /\ k.replaces \notin DOMAIN openOrders
               /\ Taking(k) => AtOf(k) \in 1 .. Len(origin)
               /\ k.at \in {"find", "ask", "retain"} =>
                     /\ k \in Cancels /\ k.all \subseteq 1 .. Len(origin)
                     /\ DOMAIN openOrders \cap k.all \subseteq k.todo \cup k.kept
<1>1. OrderTyped
  BY DEF OrderInv
<1> QED  BY <1>1, OrderCallShapes DEF OrderInv, ReplacedAreGone

LEMMA OrderCounts ==
    OrderInv => /\ origin \in Seq(Nat) /\ Len(origin) \in Nat /\ DOMAIN origin = 1 .. Len(origin)
                /\ DOMAIN openOrders \subseteq 1 .. Len(origin)
BY DEF OrderInv, OrderTyped

LEMMA NotCancelledHarmless ==
    ASSUME OrderInv, NEW c \in OrderCalls, orderCall[c].at \in {"find", "ask"}, At(c) \in Nat
    PROVE  LET k == orderCall[c]
           IN  Harmless(IF k.modify THEN NoOrderCall
                        ELSE [k EXCEPT !.at = "find", !.todo = @ \ {At(c)}, !.kept = @ \cup {At(c)}])
<1>1. PICK k, x : k = orderCall[c] /\ x = At(c) /\ x \in Nat
  OBVIOUS
<1>2. /\ k \in Cancels /\ k.all \subseteq 1 .. Len(origin)
      /\ DOMAIN openOrders \cap k.all \subseteq k.todo \cup k.kept
  BY <1>1, OneCall
<1>3. PICK j : j = [k EXCEPT !.at = "find", !.todo = @ \ {x}, !.kept = @ \cup {x}]
  OBVIOUS
<1>4. /\ j \in Cancels /\ j.at = "find" /\ j.todo = k.todo \ {x} /\ j.all = k.all
      /\ j.kept = k.kept \cup {x}
  <2>1. PICK t, v : t = k.todo \ {x} /\ v = k.kept \cup {x}
    OBVIOUS
  <2>2. t \in SUBSET Nat /\ v \in SUBSET Nat
    BY <1>1, <1>2, <2>1 DEF Cancels
  <2>3. PICK f : f = [k EXCEPT !.at = "find"]
    OBVIOUS
  <2>4. f \in Cancels /\ f.at = "find" /\ f.todo = k.todo /\ f.all = k.all /\ f.kept = k.kept
    BY <1>2, <2>3, StageRecord
  <2>5. PICK g : g = [f EXCEPT !.todo = t]
    OBVIOUS
  <2>6. g \in Cancels /\ g.at = "find" /\ g.todo = t /\ g.all = k.all /\ g.kept = k.kept
    BY <2>2, <2>4, <2>5 DEF Cancels
  <2>7. PICK h : h = [g EXCEPT !.kept = v]
    OBVIOUS
  <2>8. h \in Cancels /\ h.at = "find" /\ h.todo = t /\ h.all = k.all /\ h.kept = v
    BY <2>2, <2>6, <2>7 DEF Cancels
  <2>9. j = h
    BY <1>3, <2>1, <2>3, <2>4, <2>5, <2>6, <2>7, Zenon DEF Cancels
  <2> QED  BY <2>1, <2>8, <2>9
<1>5. Harmless(j) /\ Harmless(NoOrderCall)
  BY <1>2, <1>4 DEF Harmless
<1> QED  BY <1>1, <1>3, <1>5

(* A step that makes c ask for, or keep taking, an order.                  *)
LEMMA TakesKeeps ==
    ASSUME OrderInv, NEW c \in OrderCalls, NEW stage \in {"ask", "retain"},
           NEW k, k = orderCall[c], k \in Cancels, AtOf(k) \in 1 .. Len(origin),
           orderCall' = [orderCall EXCEPT ![c] = [k EXCEPT !.at = stage]],
           UNCHANGED <<openOrders, origin>>, overlapped \subseteq overlapped',
           \A d \in OrderCalls \ {c} :
              Taking(orderCall[d]) /\ AtOf(orderCall[d]) = AtOf(k) => AtOf(k) \in overlapped',
           Taking(k) \/ AtOf(k) \in DOMAIN openOrders
    PROVE  OrderInv'
<1>0. OrderTyped
  BY DEF OrderInv
<1>1. PICK j : j = [k EXCEPT !.at = stage]
  OBVIOUS
<1>2. j \in Cancels /\ j.at = stage /\ j.todo = k.todo /\ j.all = k.all /\ j.kept = k.kept
  BY <1>1, StageRecord
<1>3. OrderMoves(c) /\ orderCall'[c] = j
  BY <1>0, <1>1 DEF OrderMoves, OrderTyped
<1>4. OrderTyped'
  BY <1>0, <1>2, <1>3, OrderMovesTyped DEF OrderTyped
<1>5. PICK x : x = AtOf(k)
  OBVIOUS
<1>6. AtOf(j) = x /\ Taking(j) /\ \A y : ~ Claims(j, y)
  BY <1>2, <1>5 DEF AtOf, Taking, Claims
<1>7. k.all \subseteq 1 .. Len(origin) /\ DOMAIN openOrders \cap k.all \subseteq k.todo \cup k.kept
  BY OneCall DEF Cancels
<1>8. ReplacedAreGone'
  <2> SUFFICES ASSUME NEW d \in OrderCalls
      PROVE  LET i == orderCall'[d]
             IN  /\ i.at = "place" => i.replaces <= Len(origin) /\ i.replaces \notin DOMAIN openOrders
                 /\ Taking(i) => AtOf(i) \in 1 .. Len(origin)
                 /\ i.at \in {"find", "ask", "retain"} =>
                       /\ i.all \subseteq 1 .. Len(origin)
                       /\ DOMAIN openOrders \cap i.all \subseteq i.todo \cup i.kept
    BY DEF OrderInv, ReplacedAreGone, Taking, AtOf
  <2>1. CASE d = c
    BY <1>2, <1>3, <1>5, <1>6, <1>7, <2>1
  <2>2. CASE d # c
    BY <1>3, <2>2 DEF OrderInv, ReplacedAreGone, OrderMoves
  <2> QED  BY <2>1, <2>2
<1>9. ASSUME NEW d \in OrderCalls, d # c, Claims(orderCall[d], x) PROVE x \in overlapped'
  <2>1. CASE Taking(k)
    BY <1>5, <1>9, <2>1 DEF OrderInv, ClaimedOnce
  <2>2. CASE x \in DOMAIN openOrders
    BY <1>9, <2>2, OneCall DEF Claims
  <2> QED  BY <1>5, <2>1, <2>2
<1>10. ASSUME NEW n \in DOMAIN origin, origin[n] = x PROVE x \in overlapped'
  <2>1. CASE Taking(k)
    BY <1>5, <1>10, <2>1 DEF OrderInv, ClaimedOnce
  <2>2. CASE x \in DOMAIN openOrders
    BY <1>10, <2>2 DEF OrderInv, ReplacedAreGone
  <2> QED  BY <1>5, <2>1, <2>2
<1>11. ClaimedOnce'
  <2>1. \A d \in OrderCalls \ {c} : orderCall'[d] = orderCall[d]
    BY <1>3 DEF OrderMoves
  <2>2. \A d \in OrderCalls \ {c} : Taking(orderCall[d]) /\ AtOf(orderCall[d]) = x => x \in overlapped'
    BY <1>5
  <2>3. ASSUME NEW d \in OrderCalls, NEW e \in OrderCalls, d # e
        PROVE  /\ Taking(orderCall'[d]) /\ Taking(orderCall'[e]) /\ AtOf(orderCall'[d]) = AtOf(orderCall'[e]) =>
                     AtOf(orderCall'[d]) \in overlapped'
               /\ Taking(orderCall'[d]) /\ Claims(orderCall'[e], AtOf(orderCall'[d])) =>
                     AtOf(orderCall'[d]) \in overlapped'
               /\ \A y : Claims(orderCall'[d], y) /\ Claims(orderCall'[e], y) => y \in overlapped'
    <3>1. CASE d = c
      BY <1>3, <1>6, <1>9, <2>1, <2>2, <2>3, <3>1
    <3>2. CASE e = c
      BY <1>3, <1>6, <2>1, <2>2, <2>3, <3>2
    <3>3. CASE d # c /\ e # c
      BY <2>1, <2>3, <3>3 DEF OrderInv, ClaimedOnce
    <3> QED  BY <3>1, <3>2, <3>3
  <2>4. ASSUME NEW d \in OrderCalls, NEW n \in DOMAIN origin
        PROVE  /\ Taking(orderCall'[d]) /\ origin[n] = AtOf(orderCall'[d]) => origin[n] \in overlapped'
               /\ Claims(orderCall'[d], origin[n]) => origin[n] \in overlapped'
    <3>1. CASE d = c
      BY <1>3, <1>6, <1>10, <3>1
    <3>2. CASE d # c
      BY <2>1, <3>2 DEF OrderInv, ClaimedOnce
    <3> QED  BY <3>1, <3>2
  <2>5. \A m, n \in DOMAIN origin : m # n /\ origin[m] = origin[n] /\ origin[m] # 0 => origin[m] \in overlapped'
    BY DEF OrderInv, ClaimedOnce
  <2> QED  BY <2>3, <2>4, <2>5 DEF ClaimedOnce, Taking, Claims, AtOf
<1> QED  BY <1>4, <1>8, <1>11 DEF OrderInv

LEMMA RetainsKeeps ==
    ASSUME OrderInv, NEW c \in OrderCalls, CancelRetains(c)
    PROVE  OrderInv'
<1>0. OrderTyped
  BY DEF OrderInv
<1>1. PICK k, x : k = orderCall[c] /\ x = At(c)
  OBVIOUS
<1>2. /\ k \in Cancels /\ k.at = "retain" /\ k.all \subseteq 1 .. Len(origin)
      /\ DOMAIN openOrders \cap k.all \subseteq k.todo \cup k.kept
      /\ x \in 1 .. Len(origin) /\ x = AtOf(k) /\ Taking(k)
  BY <1>1, OneCall DEF CancelRetains, At, AtOf, Taking
<1>3. PICK j : j = IF k.modify THEN [at |-> "place", symbol |-> "market", replaces |-> x]
                   ELSE [k EXCEPT !.at = "find", !.todo = @ \ {x}]
  OBVIOUS
<1>4. /\ openOrders' = Drop(openOrders, x) /\ UNCHANGED <<origin, overlapped>>
      /\ orderCall' = [orderCall EXCEPT ![c] = j]
  <2>1. orderCall' = [orderCall EXCEPT ![c] =
            IF orderCall[c].modify THEN [at |-> "place", symbol |-> "market", replaces |-> At(c)]
            ELSE [orderCall[c] EXCEPT !.at = "find", !.todo = @ \ {At(c)}]]
    BY Zenon DEF CancelRetains
  <2>2. orderCall' = [orderCall EXCEPT ![c] = j]
    BY <1>1, <1>3, <2>1, Zenon
  <2>3. openOrders' = Drop(openOrders, x) /\ UNCHANGED <<origin, overlapped>>
    BY <1>1, Zenon DEF CancelRetains
  <2> QED  BY <2>2, <2>3
<1>5. OrderMoves(c) /\ orderCall'[c] = j
  BY <1>0, <1>4 DEF OrderMoves, OrderTyped
<1>6. /\ Len(origin) \in Nat /\ DOMAIN openOrders' = DOMAIN openOrders \ {x}
      /\ DOMAIN openOrders \subseteq 1 .. Len(origin)
  BY <1>0, <1>4 DEF OrderTyped, Drop
<1>7. /\ j \in Placing \/ j \in Cancels
      /\ ~ Taking(j) /\ \A y : Claims(j, y) => y = x
      /\ j.at = "place" => j.replaces <= Len(origin) /\ j.replaces \notin DOMAIN openOrders'
      /\ j.at \in {"find", "ask", "retain"} =>
            j.all \subseteq 1 .. Len(origin) /\ DOMAIN openOrders' \cap j.all \subseteq j.todo \cup j.kept
  <2>1. CASE k.modify
    <3>1. j = [at |-> "place", symbol |-> "market", replaces |-> x]
      BY <1>3, <2>1
    <3>2. j \in Placing /\ j.at = "place" /\ j.replaces = x
      BY <1>2, <3>1 DEF Placing
    <3> QED  BY <1>2, <1>6, <3>2 DEF Taking, Claims
  <2>2. CASE ~ k.modify
    <3>1. j = [k EXCEPT !.at = "find", !.todo = @ \ {x}]
      BY <1>3, <2>2
    <3>2. /\ j \in Cancels /\ j.at = "find" /\ j.todo = k.todo \ {x} /\ j.all = k.all
          /\ j.kept = k.kept
      <4>1. PICK t : t = k.todo \ {x}
        OBVIOUS
      <4>2. t \in SUBSET Nat
        BY <1>2, <4>1 DEF Cancels
      <4>3. PICK f : f = [k EXCEPT !.at = "find"]
        OBVIOUS
      <4>4. f \in Cancels /\ f.at = "find" /\ f.todo = k.todo /\ f.all = k.all /\ f.kept = k.kept
        BY <1>2, <4>3, StageRecord
      <4>5. PICK g : g = [f EXCEPT !.todo = t]
        OBVIOUS
      <4>6. g \in Cancels /\ g.at = "find" /\ g.todo = t /\ g.all = k.all /\ g.kept = k.kept
        BY <4>2, <4>4, <4>5 DEF Cancels
      <4>7. j = g
        BY <3>1, <4>1, <4>3, <4>4, <4>5, Zenon DEF Cancels
      <4> QED  BY <4>1, <4>6, <4>7
    <3> QED  BY <1>2, <1>6, <3>2 DEF Taking, Claims
  <2> QED  BY <2>1, <2>2
<1>8. OrderTyped'
  BY <1>0, <1>4, <1>5, <1>6, <1>7, OrderMovesTyped DEF OrderTyped
<1>9. ReplacedAreGone'
  <2>1. ASSUME NEW d \in OrderCalls
        PROVE  LET i == orderCall'[d]
               IN  /\ i.at = "place" => i.replaces <= Len(origin) /\ i.replaces \notin DOMAIN openOrders'
                   /\ Taking(i) => AtOf(i) \in 1 .. Len(origin)
                   /\ i.at \in {"find", "ask", "retain"} =>
                         /\ i.all \subseteq 1 .. Len(origin)
                         /\ DOMAIN openOrders' \cap i.all \subseteq i.todo \cup i.kept
    <3>1. CASE d = c
      BY <1>5, <1>7, <3>1
    <3>2. CASE d # c
      BY <1>5, <1>6, <3>2 DEF OrderInv, ReplacedAreGone, OrderMoves
    <3> QED  BY <3>1, <3>2
  <2>2. \A n \in DOMAIN origin : origin[n] <= Len(origin) /\ origin[n] \notin DOMAIN openOrders'
    BY <1>6 DEF OrderInv, ReplacedAreGone
  <2> QED  BY <1>4, <2>1, <2>2 DEF ReplacedAreGone, Taking, AtOf
<1>10. \A d \in OrderCalls : d # c =>
          /\ Taking(orderCall[d]) /\ AtOf(orderCall[d]) = x => x \in overlapped
          /\ Claims(orderCall[d], x) => x \in overlapped
  BY <1>1, <1>2 DEF OrderInv, ClaimedOnce
<1>11. \A n \in DOMAIN origin : origin[n] = x => x \in overlapped
  BY <1>1, <1>2 DEF OrderInv, ClaimedOnce
<1>12. ClaimedOnce'
  <2>1. \A d \in OrderCalls \ {c} : orderCall'[d] = orderCall[d]
    BY <1>5 DEF OrderMoves
  <2>2. ASSUME NEW d \in OrderCalls, NEW e \in OrderCalls, d # e
        PROVE  /\ Taking(orderCall'[d]) /\ Taking(orderCall'[e]) /\ AtOf(orderCall'[d]) = AtOf(orderCall'[e]) =>
                     AtOf(orderCall'[d]) \in overlapped
               /\ Taking(orderCall'[d]) /\ Claims(orderCall'[e], AtOf(orderCall'[d])) =>
                     AtOf(orderCall'[d]) \in overlapped
               /\ \A y : Claims(orderCall'[d], y) /\ Claims(orderCall'[e], y) => y \in overlapped
    <3>1. CASE d = c
      BY <1>5, <1>7, <1>10, <2>1, <2>2, <3>1
    <3>2. CASE e = c
      BY <1>5, <1>7, <1>10, <2>1, <2>2, <3>2
    <3>3. CASE d # c /\ e # c
      BY <2>1, <2>2, <3>3 DEF OrderInv, ClaimedOnce
    <3> QED  BY <3>1, <3>2, <3>3
  <2>3. ASSUME NEW d \in OrderCalls, NEW n \in DOMAIN origin
        PROVE  /\ Taking(orderCall'[d]) /\ origin[n] = AtOf(orderCall'[d]) => origin[n] \in overlapped
               /\ Claims(orderCall'[d], origin[n]) => origin[n] \in overlapped
    <3>1. CASE d = c
      BY <1>5, <1>7, <1>11, <3>1
    <3>2. CASE d # c
      BY <2>1, <3>2 DEF OrderInv, ClaimedOnce
    <3> QED  BY <3>1, <3>2
  <2>4. \A m, n \in DOMAIN origin : m # n /\ origin[m] = origin[n] /\ origin[m] # 0 => origin[m] \in overlapped
    BY DEF OrderInv, ClaimedOnce
  <2> QED  BY <1>4, <2>2, <2>3, <2>4 DEF ClaimedOnce, Taking, Claims, AtOf
<1> QED  BY <1>8, <1>9, <1>12 DEF OrderInv

LEMMA InsertsKeeps ==
    ASSUME OrderInv, NEW c \in OrderCalls, PlaceInserts(c)
    PROVE  OrderInv'
<1>0. OrderTyped
  BY DEF OrderInv
<1>1. PICK r, n : r = orderCall[c].replaces /\ n = Len(origin)
  OBVIOUS
<1>3. /\ n \in Nat /\ origin \in Seq(Nat) /\ DOMAIN origin = 1 .. n /\ DOMAIN openOrders \subseteq 1 .. n
  BY <1>1, OrderCounts
<1>a. r \in Nat /\ r <= n /\ r \notin DOMAIN openOrders /\ (Claims(orderCall[c], r) \/ r = 0)
  BY <1>1, <1>3, OneCall DEF PlaceInserts, Placing, Claims
<1>4. /\ DOMAIN openOrders' = DOMAIN openOrders \cup {n + 1}
      /\ origin' = Append(origin, r) /\ orderCall' = [orderCall EXCEPT ![c] = NoOrderCall]
      /\ UNCHANGED overlapped
  BY <1>1 DEF PlaceInserts, Put
<1>5. /\ origin' \in Seq(Nat) /\ Len(origin') = n + 1 /\ DOMAIN origin' = 1 .. (n + 1)
      /\ origin'[n + 1] = r /\ \A m \in 1 .. n : origin'[m] = origin[m]
  BY <1>a, <1>1, <1>3, <1>4
<1>6. OrderMoves(c) /\ orderCall'[c] = NoOrderCall
  BY <1>0, <1>4 DEF OrderMoves, OrderTyped
<1>7. DOMAIN openOrders' \subseteq 1 .. (n + 1)
  BY <1>3, <1>4
<1>8. OrderTyped'
  BY <1>0, <1>5, <1>6, <1>7, OrderMovesTyped
<1>9. /\ NoOrderCall.at = "idle" /\ ~ Taking(NoOrderCall) /\ \A y : ~ Claims(NoOrderCall, y)
  BY DEF NoOrderCall, Taking, Claims
<1>10. \A d \in OrderCalls \ {c} : orderCall'[d] = orderCall[d]
  BY <1>6 DEF OrderMoves
<1>11. ReplacedAreGone'
  <2>1. ASSUME NEW d \in OrderCalls
        PROVE  LET i == orderCall'[d]
               IN  /\ i.at = "place" => i.replaces <= n + 1 /\ i.replaces \notin DOMAIN openOrders'
                   /\ Taking(i) => AtOf(i) \in 1 .. (n + 1)
                   /\ i.at \in {"find", "ask", "retain"} =>
                         /\ i.all \subseteq 1 .. (n + 1)
                         /\ DOMAIN openOrders' \cap i.all \subseteq i.todo \cup i.kept
    <3>1. CASE d = c
      BY <1>6, <1>9, <3>1
    <3>2. CASE d # c
      <4>1. PICK i : i = orderCall[d] /\ i = orderCall'[d]
        BY <1>10, <3>2
      <4>2. /\ i.at = "place" => i \in Placing /\ i.replaces <= n /\ i.replaces \notin DOMAIN openOrders
            /\ Taking(i) => AtOf(i) \in 1 .. n
            /\ i.at \in {"find", "ask", "retain"} =>
                  i.all \subseteq 1 .. n /\ DOMAIN openOrders \cap i.all \subseteq i.todo \cup i.kept
        BY <1>1, <4>1, OneCall
      <4>3. n + 1 \notin 1 .. n /\ 1 .. n \subseteq 1 .. (n + 1)
        BY <1>3
      <4>4. i.at = "place" => i.replaces <= n + 1 /\ i.replaces \notin DOMAIN openOrders'
        BY <1>3, <1>4, <4>2 DEF Placing
      <4>5. i.at \in {"find", "ask", "retain"} =>
               i.all \subseteq 1 .. (n + 1) /\ DOMAIN openOrders' \cap i.all \subseteq i.todo \cup i.kept
        BY <1>4, <4>2, <4>3
      <4> QED  BY <4>1, <4>2, <4>3, <4>4, <4>5
    <3> QED  BY <3>1, <3>2
  <2>2. \A m \in 1 .. n : origin[m] \in Nat /\ origin[m] <= n /\ origin[m] \notin DOMAIN openOrders
    BY <1>1, <1>3 DEF OrderInv, ReplacedAreGone
  <2>3. ASSUME NEW m \in 1 .. (n + 1) PROVE origin'[m] <= n + 1 /\ origin'[m] \notin DOMAIN openOrders'
    <3>1. CASE m = n + 1
      BY <1>a, <1>3, <1>4, <1>5, <3>1
    <3>2. CASE m \in 1 .. n
      BY <1>3, <1>4, <1>5, <2>2, <3>2
    <3> QED  BY <1>3, <3>1, <3>2
  <2> QED  BY <1>5, <2>1, <2>3 DEF ReplacedAreGone, Taking, AtOf
<1>12. r # 0 => /\ \A d \in OrderCalls \ {c} : Claims(orderCall[d], r) => r \in overlapped
                /\ \A d \in OrderCalls \ {c} : Taking(orderCall[d]) /\ AtOf(orderCall[d]) = r => r \in overlapped
                /\ \A m \in 1 .. n : origin[m] = r => r \in overlapped
  BY <1>a, <1>3 DEF OrderInv, ClaimedOnce
<1>13. ClaimedOnce'
  <2>1. ASSUME NEW d \in OrderCalls, NEW e \in OrderCalls, d # e
        PROVE  /\ Taking(orderCall'[d]) /\ Taking(orderCall'[e]) /\ AtOf(orderCall'[d]) = AtOf(orderCall'[e]) =>
                     AtOf(orderCall'[d]) \in overlapped
               /\ Taking(orderCall'[d]) /\ Claims(orderCall'[e], AtOf(orderCall'[d])) =>
                     AtOf(orderCall'[d]) \in overlapped
               /\ \A y : Claims(orderCall'[d], y) /\ Claims(orderCall'[e], y) => y \in overlapped
    <3>1. CASE d = c \/ e = c
      BY <1>6, <1>9, <3>1
    <3>2. CASE d # c /\ e # c
      BY <1>10, <2>1, <3>2 DEF OrderInv, ClaimedOnce
    <3> QED  BY <3>1, <3>2
  <2>2. ASSUME NEW d \in OrderCalls, NEW m \in 1 .. (n + 1)
        PROVE  /\ Taking(orderCall'[d]) /\ origin'[m] = AtOf(orderCall'[d]) => origin'[m] \in overlapped
               /\ Claims(orderCall'[d], origin'[m]) => origin'[m] \in overlapped
    <3>1. CASE d = c
      BY <1>6, <1>9, <3>1
    <3>2. CASE d # c /\ m = n + 1
      <4>1. Taking(orderCall[d]) /\ r = AtOf(orderCall[d]) => r # 0
        BY <3>2, OneCall
      <4>2. Claims(orderCall[d], r) => r # 0
        BY DEF Claims
      <4> QED  BY <1>5, <1>10, <1>12, <3>2, <4>1, <4>2
    <3>3. CASE d # c /\ m \in 1 .. n
      BY <1>3, <1>5, <1>10, <3>3 DEF OrderInv, ClaimedOnce
    <3> QED  BY <1>3, <3>1, <3>2, <3>3
  <2>3. ASSUME NEW l \in 1 .. (n + 1), NEW m \in 1 .. (n + 1), l # m, origin'[l] = origin'[m], origin'[l] # 0
        PROVE  origin'[l] \in overlapped
    <3>1. CASE l \in 1 .. n /\ m \in 1 .. n
      BY <1>3, <1>5, <2>3, <3>1 DEF OrderInv, ClaimedOnce
    <3>2. CASE l = n + 1
      <4>1. m \in 1 .. n
        BY <1>3, <2>3, <3>2
      <4> QED  BY <1>5, <1>12, <2>3, <3>2, <4>1
    <3>3. CASE m = n + 1
      <4>1. l \in 1 .. n
        BY <1>3, <2>3, <3>3
      <4> QED  BY <1>5, <1>12, <2>3, <3>3, <4>1
    <3> QED  BY <1>3, <3>1, <3>2, <3>3
  <2> QED  BY <1>4, <1>5, <2>1, <2>2, <2>3 DEF ClaimedOnce, Taking, Claims, AtOf
<1> QED  BY <1>8, <1>11, <1>13 DEF OrderInv

LEMMA NotCancelledKeeps ==
    ASSUME OrderInv, NEW c \in OrderCalls, orderCall[c].at \in {"find", "ask"}, At(c) \in Nat,
           NotCancelled(c), UNCHANGED <<openOrders, origin, overlapped>>
    PROVE  OrderInv'
<1>1. PICK k : k = IF orderCall[c].modify THEN NoOrderCall
                   ELSE [orderCall[c] EXCEPT !.at = "find", !.todo = @ \ {At(c)}, !.kept = @ \cup {At(c)}]
  OBVIOUS
<1>2. Harmless(k)
  BY <1>1, NotCancelledHarmless
<1>3. orderCall' = [orderCall EXCEPT ![c] = k]
  BY <1>1 DEF NotCancelled
<1> QED  BY <1>2, <1>3, HarmlessKeeps

LEMMA OrderStays == OrderInv /\ UNCHANGED orderVars => OrderInv'
BY DEF orderVars, OrderInv, OrderTyped, ReplacedAreGone, ClaimedOnce, Taking, Claims, AtOf,
       NoOrderCall, Placing, Cancels

(* The smallest of the orders that are left is one of them.                *)
LEMMA AtIsLeft ==
    ASSUME NEW S \in SUBSET Nat, S # {}
    PROVE  Min(S) \in S
<1>1. PICK m \in S : m \in Nat
  OBVIOUS
<1>2. PICK T : T = S \cap (0 .. m)
  OBVIOUS
<1>3. IsFiniteSet(0 .. m)
  BY <1>1, FS_Interval
<1>4. T \in SUBSET Int /\ IsFiniteSet(T) /\ m \in T
  BY <1>1, <1>2, <1>3, FS_Subset
<1>5. PICK x \in T : \A y \in T : x <= y
  BY <1>4, Extremes
<1>6. \A y \in S : x <= y
  BY <1>1, <1>2, <1>4, <1>5
<1> QED  BY <1>2, <1>5, <1>6 DEF Min

LEMMA OrderSteps == OrderInv /\ [MCNext]_mcVars => OrderInv'
<1> SUFFICES ASSUME OrderInv, [MCNext]_mcVars PROVE OrderInv'
  OBVIOUS
<1>1. CASE UNCHANGED orderVars
  BY <1>1, OrderStays
<1>2. ASSUME NEW c \in OrderCalls, NEW symbol \in {"market", "pair"}, StartPlace(c, symbol)
      PROVE  OrderInv'
  <2>1. PICK k : k = [at |-> "place", symbol |-> symbol, replaces |-> 0]
    OBVIOUS
  <2>2. Harmless(k)
    BY <2>1 DEF Harmless, Placing
  <2> QED  BY <1>2, <2>1, <2>2, HarmlessKeeps DEF StartPlace
<1>3. ASSUME NEW c \in OrderCalls, PlaceRefused(c) \/ CancelAllEnds(c)
      PROVE  OrderInv'
  <2>1. PICK k : k = NoOrderCall
    OBVIOUS
  <2>2. Harmless(k)
    BY <2>1 DEF Harmless
  <2> QED  BY <1>3, <2>1, <2>2, HarmlessKeeps DEF PlaceRefused, CancelAllEnds
<1>4. ASSUME NEW c \in OrderCalls, NEW S \in SUBSET DOMAIN openOrders, NEW modify \in BOOLEAN,
             orderCall' = [orderCall EXCEPT ![c] = Cancelling(S, modify)],
             UNCHANGED <<openOrders, origin, overlapped>>
      PROVE  OrderInv'
  <2>1. PICK k : k = Cancelling(S, modify)
    OBVIOUS
  <2>2. S \subseteq 1 .. Len(origin) /\ S \subseteq Nat
    BY OrderCounts
  <2>3. k \in Cancels /\ k.at = "find" /\ k.all = S /\ k.todo = S /\ k.kept = {}
    BY <2>1, <2>2 DEF Cancelling, Cancels
  <2>4. Harmless(k)
    BY <2>2, <2>3 DEF Harmless
  <2> QED  BY <1>4, <2>1, <2>4, HarmlessKeeps
<1>5. ASSUME NEW c \in OrderCalls, NEW o \in DOMAIN openOrders, StartModify(c, o)
      PROVE  OrderInv'
  <2>1. PICK S \in SUBSET DOMAIN openOrders : S = {o}
    OBVIOUS
  <2>2. PICK modify \in BOOLEAN : modify = TRUE
    OBVIOUS
  <2>3. orderCall' = [orderCall EXCEPT ![c] = Cancelling(S, modify)]
    BY <1>5, <2>1, <2>2, Zenon DEF StartModify
  <2> QED  BY <1>4, <1>5, <2>3 DEF StartModify
<1>6. ASSUME NEW c \in OrderCalls, StartCancelAll(c)
      PROVE  OrderInv'
  <2>1. PICK S \in SUBSET DOMAIN openOrders : S = DOMAIN openOrders
    OBVIOUS
  <2>2. PICK modify \in BOOLEAN : modify = FALSE
    OBVIOUS
  <2>3. orderCall' = [orderCall EXCEPT ![c] = Cancelling(S, modify)]
    BY <1>6, <2>1, <2>2, Zenon DEF StartCancelAll
  <2> QED  BY <1>4, <1>6, <2>3 DEF StartCancelAll
<1>7. ASSUME NEW c \in OrderCalls, CancelAsks(c)
      PROVE  OrderInv'
  <2>1. PICK k : k = orderCall[c]
    OBVIOUS
  <2>2. k \in Cancels /\ k.at = "find" /\ k.todo # {} /\ AtOf(k) = At(c)
    BY <1>7, <2>1, OneCall DEF CancelAsks, AtOf, At
  <2>3. CASE CanAsk(At(c))
    <3>1. PICK stage \in {"ask", "retain"} : stage = "ask"
      OBVIOUS
    <3>2. AtOf(k) \in DOMAIN openOrders /\ AtOf(k) \in 1 .. Len(origin)
      BY <2>2, <2>3, OrderCounts DEF CanAsk
    <3>3. /\ orderCall' = [orderCall EXCEPT ![c].at = "ask"]
          /\ overlapped' = IF \E d \in OrderCalls \ {c} : orderCall[d].at \in {"ask", "retain"} /\ At(d) = At(c)
                           THEN overlapped \cup {At(c)} ELSE overlapped
          /\ UNCHANGED <<openOrders, origin>>
      BY <1>7, <2>3 DEF CancelAsks
    <3>4. orderCall' = [orderCall EXCEPT ![c] = [k EXCEPT !.at = stage]]
      BY <2>1, <3>1, <3>3
    <3>5. /\ overlapped \subseteq overlapped'
          /\ \A d \in OrderCalls \ {c} :
                Taking(orderCall[d]) /\ AtOf(orderCall[d]) = AtOf(k) => AtOf(k) \in overlapped'
      BY <2>2, <3>3 DEF Taking, AtOf, At
    <3> QED  BY <2>1, <2>2, <3>2, <3>3, <3>4, <3>5, TakesKeeps
  <2>4. CASE ~ CanAsk(At(c))
    <3>1. At(c) \in Nat
      BY <2>1, <2>2, AtIsLeft DEF Cancels, At
    <3> QED  BY <1>7, <2>4, <3>1, NotCancelledKeeps DEF CancelAsks
  <2> QED  BY <2>3, <2>4
<1>8. ASSUME NEW c \in OrderCalls, ExchangeAccepts(c)
      PROVE  OrderInv'
  <2>1. PICK k : k = orderCall[c]
    OBVIOUS
  <2>2. Taking(k) /\ k \in Cancels /\ AtOf(k) \in 1 .. Len(origin)
    BY <1>8, <2>1, OneCall DEF ExchangeAccepts, Taking
  <2>3. PICK stage \in {"ask", "retain"} : stage = "retain"
    OBVIOUS
  <2>4. /\ orderCall' = [orderCall EXCEPT ![c] = [k EXCEPT !.at = stage]]
        /\ UNCHANGED <<openOrders, origin>> /\ overlapped \subseteq overlapped'
    BY <1>8, <2>1, <2>3 DEF ExchangeAccepts
  <2>5. \A d \in OrderCalls \ {c} :
            Taking(orderCall[d]) /\ AtOf(orderCall[d]) = AtOf(k) => AtOf(k) \in overlapped'
    BY <2>1, <2>2, <2>4 DEF OrderInv, ClaimedOnce
  <2> QED  BY <2>1, <2>2, <2>4, <2>5, TakesKeeps
<1>9. ASSUME NEW c \in OrderCalls, ExchangeRefuses(c)
      PROVE  OrderInv'
  <2>1. At(c) \in Nat
    BY <1>9, OneCall DEF ExchangeRefuses, Taking, At, AtOf
  <2> QED  BY <1>9, <2>1, NotCancelledKeeps DEF ExchangeRefuses
<1>10. UNCHANGED orderVars \/ OrderNext
  BY DEF MCNext, mcVars, exchangeVars
<1> QED
  BY <1>1, <1>2, <1>3, <1>5, <1>6, <1>7, <1>8, <1>9, <1>10, RetainsKeeps, InsertsKeeps DEF OrderNext

(* The exchange client: the vault's value backs its shares and what the     *)
(* accounts deposited, as long as each withdrawal is of all the account has *)
(* and of the vault it read (vault_integration.rs:29-140); and an order is   *)
(* replaced once, unless two calls asked to cancel it at once               *)
(* (order_manager.rs, connector.rs).                                         *)
THEOREM ExchangeAlwaysSound == MCSpec => []ExchangeSound
<1>1. MCInit => VaultInv /\ OrderInv
  BY VaultStarts, OrderStarts DEF MCInit
<1>2. (VaultInv /\ OrderInv) /\ [MCNext]_mcVars => (VaultInv /\ OrderInv)'
  BY VaultSteps, OrderSteps
<1>3. VaultInv /\ OrderInv => ExchangeSound
  BY VaultInvBacks, OrderInvReplaces DEF ExchangeSound
<1>4. QED
  BY <1>1, <1>2, <1>3, PTL DEF MCSpec
-----------------------------------------------------------------------------
(* CommitReveal and BatchAuction, for any transactions, prices and limits *)

Reveals == [tx : SecretTxs, at : Nat]

LEMMA TxsAre ==
    ASSUME NEW s \in Seq(Reveals)
    PROVE  TxsOf(s) \in Seq(SecretTxs) /\ Len(TxsOf(s)) = Len(s) /\ \A i \in 1 .. Len(s) : TxsOf(s)[i] = s[i].tx
<1>1. PICK n \in Nat : n = Len(s) /\ DOMAIN s = 1 .. n
  BY LenProperties
<1>2. TxsOf(s) = [i \in 1 .. n |-> s[i].tx]
  BY <1>1 DEF TxsOf
<1>3. ASSUME NEW i \in 1 .. n PROVE s[i].tx \in SecretTxs
  <2>1. s[i] \in Reveals
    BY <1>1, ElementOfSeq
  <2> QED  BY <2>1 DEF Reveals
<1> QED  BY <1>1, <1>2, <1>3

(* A transaction is retained as often as its reveals are. *)
LEMMA RevealsRetained ==
    ASSUME NEW s \in Seq(Reveals), NEW kept, NEW x
    PROVE  Copies(TxsOf(Retained(s, kept)), x) = Cardinality(Spots(TxsOf(s), x) \cap kept)
<1>1. PICK t, n, m : t = Retained(s, kept) /\ n = Len(s) /\ m = Len(t)
  OBVIOUS
<1>2. t \in Seq(Reveals) /\ n \in Nat /\ m \in Nat
  BY <1>1, RetainedIs, LenProperties
<1>3. PICK f : PickedAt(f, t, s, kept, n)
  BY <1>1, RetainedIs
<1>4. /\ f \in [1 .. m -> kept \cap (1 .. n)]
      /\ \A j \in 1 .. m : t[j] = s[f[j]]
      /\ \A j, k \in 1 .. m : j < k => f[j] < f[k]
      /\ \A i \in kept \cap (1 .. n) : \E j \in 1 .. m : f[j] = i
  BY <1>1, <1>3 DEF PickedAt
<1>5. PICK J, I, P, met : /\ J = 1 .. m /\ I = kept \cap (1 .. n) /\ P = Spots(TxsOf(s), x) \cap kept
                          /\ met = Spots(TxsOf(t), x)
  OBVIOUS
<1>6. \A j, k \in J : f[j] = f[k] => j = k
  <2> SUFFICES ASSUME NEW j \in J, NEW k \in J, f[j] = f[k] PROVE j = k
    OBVIOUS
  <2>1. f[j] \in Int /\ f[k] \in Int /\ j \in Int /\ k \in Int
    BY <1>2, <1>4, <1>5
  <2>2. (j < k => f[j] < f[k]) /\ (k < j => f[k] < f[j])
    BY <1>4, <1>5
  <2> QED  BY <2>1, <2>2
<1>7. TxsOf(s) \in Seq(SecretTxs) /\ Len(TxsOf(s)) = n /\ \A i \in 1 .. n : TxsOf(s)[i] = s[i].tx
  BY <1>1, TxsAre
<1>8. TxsOf(t) \in Seq(SecretTxs) /\ Len(TxsOf(t)) = m /\ \A i \in 1 .. m : TxsOf(t)[i] = t[i].tx
  BY <1>1, <1>2, TxsAre
<1>9. P \in SUBSET I /\ \A i \in I : i \in P <=> s[i].tx = x
  BY <1>5, <1>7 DEF Spots
<1>10. met = {j \in J : f[j] \in P}
  <2>1. met = {j \in J : t[j].tx = x}
    BY <1>5, <1>8 DEF Spots
  <2>2. \A j \in J : t[j] = s[f[j]] /\ f[j] \in I
    BY <1>4, <1>5
  <2> QED  BY <1>9, <2>1, <2>2
<1>11. IsFiniteSet(J) /\ f \in [J -> I] /\ \A i \in P : \E j \in J : f[j] = i
  <2>1. IsFiniteSet(J)
    BY <1>2, <1>5, FS_Interval
  <2>2. f \in [J -> I] /\ \A i \in I : \E j \in J : f[j] = i
    BY <1>4, <1>5
  <2> QED  BY <1>9, <2>1, <2>2
<1>12. GoesThrough(J, I, f, P, met)
  BY <1>6, <1>9, <1>10, <1>11 DEF GoesThrough
<1>13. Cardinality(met) = Cardinality(P)
  BY <1>12, CountThrough
<1> QED  BY <1>1, <1>5, <1>13 DEF Copies

(* What is ready and what is not is all. *)
LEMMA RevealsSplit ==
    ASSUME NEW s \in Seq(Reveals), NEW kept \in SUBSET DOMAIN s, NEW x
    PROVE  Copies(TxsOf(s), x) = Copies(TxsOf(Retained(s, kept)), x)
                                  + Copies(TxsOf(Retained(s, DOMAIN s \ kept)), x)
<1>1. PICK P, Q, R : P = Spots(TxsOf(s), x) /\ Q = P \cap kept /\ R = P \cap (DOMAIN s \ kept)
  OBVIOUS
<1>2. IsFiniteSet(P) /\ P \subseteq DOMAIN s
  BY <1>1, TxsAre, CopiesAreFew, LenProperties DEF Spots
<1>3. IsFiniteSet(Q) /\ IsFiniteSet(R) /\ Q \cup R = P /\ Q \cap R = {}
  BY <1>1, <1>2, FS_Subset
<1>4. Cardinality(Q \cup R) = Cardinality(Q) + Cardinality(R) - Cardinality(Q \cap R)
  BY <1>3, FS_Union
<1>5. Cardinality(Q \cap R) = 0 /\ Cardinality(Q) \in Nat /\ Cardinality(R) \in Nat
  BY <1>3, FS_EmptySet, FS_CardinalityType
<1>6. Cardinality(P) = Cardinality(Q) + Cardinality(R)
  <2>1. Cardinality(P) = Cardinality(Q \cup R)
    BY <1>3
  <2>2. Cardinality(Q) + Cardinality(R) - 0 = Cardinality(Q) + Cardinality(R)
    BY <1>5
  <2> QED  BY <1>4, <1>5, <2>1, <2>2
<1> QED  BY <1>1, <1>6, RevealsRetained DEF Copies

(* A transaction whose reveal was accepted is either pending or handed out, *)
(* and once; the rest has never been in either place.                       *)
Shown(x) == IF x \in DOMAIN commitments /\ commitments[x].revealed THEN 1 ELSE 0
HandedOut(x) == Copies(FlattenSeq(released), x)
StillDue(x) == Copies(TxsOf(pendingReveals), x)

Descends(r) == \A i, j \in 1 .. Len(r) : i < j => GasPrice[r[i]] >= GasPrice[r[j]]

RevealShape ==
    /\ DOMAIN commitments \subseteq SecretTxs
    /\ \A x \in DOMAIN commitments : commitments[x] \in [at : Nat, deadline : Nat, revealed : BOOLEAN]
    /\ second \in Nat /\ slashed \cap DOMAIN commitments = {}
    /\ pendingReveals \in Seq(Reveals) /\ released \in Seq(Seq(SecretTxs))
    /\ \A n \in DOMAIN released : Descends(released[n])

InWindow ==
    \A i \in 1 .. Len(pendingReveals) :
        LET r == pendingReveals[i]
        IN  r.tx \in DOMAIN commitments /\ commitments[r.tx].revealed /\ r.at <= commitments[r.tx].deadline

RevealInv ==
    /\ RevealShape /\ InWindow
    /\ \A x \in SecretTxs : HandedOut(x) + StillDue(x) = Shown(x)

LEMMA RevealCounts ==
    ASSUME RevealShape, NEW x
    PROVE  HandedOut(x) \in Nat /\ StillDue(x) \in Nat /\ FlattenSeq(released) \in Seq(SecretTxs)
<1>1. FlattenSeq(released) \in Seq(SecretTxs)
  <2>1. << >> \in Seq(SecretTxs)
    OBVIOUS
  <2> QED  BY <2>1, FlattenAppend DEF RevealShape
<1>2. TxsOf(pendingReveals) \in Seq(SecretTxs)
  BY TxsAre DEF RevealShape
<1> QED  BY <1>1, <1>2, CopiesAreFew DEF HandedOut, StillDue

LEMMA RevealStarts == RevealInit => RevealInv
<1> SUFFICES ASSUME RevealInit PROVE RevealInv
  OBVIOUS
<1>1. /\ DOMAIN commitments = {} /\ pendingReveals = <<>> /\ second = 0 /\ slashed = {} /\ released = <<>>
      /\ Len(pendingReveals) = 0 /\ DOMAIN released = {}
  BY DEF RevealInit
<1>2. RevealShape /\ InWindow
  BY <1>1 DEF RevealShape, InWindow
<1>3. TxsOf(<<>>) = <<>>
  BY DEF TxsOf
<1>4. ASSUME NEW x \in SecretTxs PROVE HandedOut(x) = 0 /\ StillDue(x) = 0 /\ Shown(x) = 0
  BY <1>1, <1>3, FlattenNone, CopiesOfOne DEF HandedOut, StillDue, Shown
<1> QED  BY <1>2, <1>4 DEF RevealInv

LEMMA CommitKeeps == ASSUME RevealInv, NEW x \in SecretTxs, SubmitCommitment(x) PROVE RevealInv'
<1>1. PICK new : new = [at |-> second, deadline |-> second + RevealTimeout, revealed |-> FALSE]
  OBVIOUS
<1>2. /\ x \notin DOMAIN commitments /\ x \notin slashed /\ commitments' = Put(commitments, x, new)
      /\ UNCHANGED <<pendingReveals, second, slashed, released>>
  BY <1>1 DEF SubmitCommitment
<1>3. new \in [at : Nat, deadline : Nat, revealed : BOOLEAN] /\ ~new.revealed
  BY <1>1, RevealAssumption DEF RevealInv, RevealShape
<1>4. /\ DOMAIN commitments' = DOMAIN commitments \cup {x} /\ commitments'[x] = new
      /\ \A y \in DOMAIN commitments : commitments'[y] = commitments[y]
  BY <1>2 DEF Put
<1>5. RevealShape'
  BY <1>2, <1>3, <1>4 DEF RevealInv, RevealShape, Descends
<1>6. InWindow'
  BY <1>2, <1>4 DEF RevealInv, InWindow
<1>7. \A y \in SecretTxs : HandedOut(y)' = HandedOut(y) /\ StillDue(y)' = StillDue(y)
  BY <1>2 DEF HandedOut, StillDue
<1>8. \A y \in SecretTxs : Shown(y)' = Shown(y)
  BY <1>2, <1>3, <1>4 DEF Shown
<1> QED  BY <1>5, <1>6, <1>7, <1>8 DEF RevealInv

LEMMA RevealKeeps == ASSUME RevealInv, NEW x \in SecretTxs, RevealTransaction(x) PROVE RevealInv'
<1>1. PICK c, r : c = commitments[x] /\ r = [tx |-> x, at |-> second]
  OBVIOUS
<1>2. /\ x \in DOMAIN commitments /\ ~c.revealed /\ second <= c.deadline
      /\ commitments' = [commitments EXCEPT ![x].revealed = TRUE]
      /\ pendingReveals' = Append(pendingReveals, r)
      /\ UNCHANGED <<second, slashed, released>>
  BY <1>1 DEF RevealTransaction, RevealAccepted
<1>3. c \in [at : Nat, deadline : Nat, revealed : BOOLEAN] /\ r \in Reveals /\ r.tx = x /\ r.at = second
  BY <1>1, <1>2 DEF RevealInv, RevealShape, Reveals
<1>4. /\ DOMAIN commitments' = DOMAIN commitments
      /\ commitments'[x] \in [at : Nat, deadline : Nat, revealed : BOOLEAN]
      /\ commitments'[x].revealed /\ commitments'[x].deadline = c.deadline
      /\ \A y \in DOMAIN commitments \ {x} : commitments'[y] = commitments[y]
  BY <1>1, <1>2, <1>3 DEF RevealInv, RevealShape
<1>5. PICK n \in Nat : n = Len(pendingReveals)
  BY LenProperties DEF RevealInv, RevealShape
<1>6. /\ pendingReveals' \in Seq(Reveals) /\ Len(pendingReveals') = n + 1
      /\ \A i \in 1 .. n : pendingReveals'[i] = pendingReveals[i]
      /\ pendingReveals'[n + 1] = r
  BY <1>2, <1>3, <1>5, AppendProperties DEF RevealInv, RevealShape
<1>7. RevealShape'
  <2>1. \A y \in DOMAIN commitments' : commitments'[y] \in [at : Nat, deadline : Nat, revealed : BOOLEAN]
    BY <1>4 DEF RevealInv, RevealShape
  <2> QED  BY <1>2, <1>4, <1>6, <2>1 DEF RevealInv, RevealShape, Descends
<1>8. InWindow'
  <2>1. ASSUME NEW i \in 1 .. n + 1
        PROVE  LET s == pendingReveals'[i]
               IN  s.tx \in DOMAIN commitments' /\ commitments'[s.tx].revealed
                   /\ s.at <= commitments'[s.tx].deadline
    <3>1. CASE i = n + 1
      BY <1>2, <1>3, <1>4, <1>6, <3>1
    <3>2. CASE i # n + 1
      <4>1. i \in 1 .. n
        BY <3>2
      <4>2. PICK s : s = pendingReveals[i]
        OBVIOUS
      <4>3. s.tx \in DOMAIN commitments /\ commitments[s.tx].revealed /\ s.at <= commitments[s.tx].deadline
        BY <1>5, <4>1, <4>2 DEF RevealInv, InWindow
      <4>4. s.tx # x
        BY <1>1, <1>2, <4>3
      <4> QED  BY <1>4, <1>6, <4>1, <4>2, <4>3, <4>4
    <3> QED  BY <3>1, <3>2
  <2> QED  BY <1>6, <2>1 DEF InWindow
<1>9. TxsOf(pendingReveals') = Append(TxsOf(pendingReveals), x)
  <2>1. TxsOf(pendingReveals) \in Seq(SecretTxs) /\ Len(TxsOf(pendingReveals)) = n
        /\ \A i \in 1 .. n : TxsOf(pendingReveals)[i] = pendingReveals[i].tx
    BY <1>5, TxsAre DEF RevealInv, RevealShape
  <2>2. TxsOf(pendingReveals') \in Seq(SecretTxs) /\ Len(TxsOf(pendingReveals')) = n + 1
        /\ \A i \in 1 .. n + 1 : TxsOf(pendingReveals')[i] = pendingReveals'[i].tx
    BY <1>6, TxsAre
  <2>3. PICK u : u = Append(TxsOf(pendingReveals), x)
    OBVIOUS
  <2>4. u \in Seq(SecretTxs) /\ Len(u) = n + 1 /\ u[n + 1] = x
        /\ \A i \in 1 .. n : u[i] = TxsOf(pendingReveals)[i]
    BY <2>1, <2>3, AppendProperties
  <2>5. ASSUME NEW i \in 1 .. n + 1 PROVE u[i] = TxsOf(pendingReveals')[i]
    <3>1. CASE i = n + 1
      BY <1>3, <1>6, <2>2, <2>4, <3>1
    <3>2. CASE i # n + 1
      <4>1. i \in 1 .. n
        BY <3>2
      <4> QED  BY <1>6, <2>1, <2>2, <2>4, <4>1
    <3> QED  BY <3>1, <3>2
  <2>6. u = TxsOf(pendingReveals')
    BY <2>2, <2>4, <2>5, SeqEqual
  <2> QED  BY <2>3, <2>6
<1>10. ASSUME NEW y \in SecretTxs PROVE HandedOut(y)' + StillDue(y)' = Shown(y)'
  <2>1. HandedOut(y)' = HandedOut(y)
    BY <1>2 DEF HandedOut
  <2>2. StillDue(y)' = StillDue(y) + (IF x = y THEN 1 ELSE 0)
    <3>1. TxsOf(pendingReveals) \in Seq(SecretTxs)
      BY TxsAre DEF RevealInv, RevealShape
    <3>2. Copies(Append(TxsOf(pendingReveals), x), y) = Copies(TxsOf(pendingReveals), y) + (IF x = y THEN 1 ELSE 0)
      BY <3>1, CopiesOfMore
    <3> QED  BY <1>9, <3>2 DEF StillDue
  <2>3. Shown(y)' = Shown(y) + (IF x = y THEN 1 ELSE 0)
    BY <1>1, <1>2, <1>4 DEF Shown
  <2>4. HandedOut(y) \in Nat /\ StillDue(y) \in Nat /\ HandedOut(y) + StillDue(y) = Shown(y)
    BY RevealCounts DEF RevealInv
  <2> QED  BY <2>1, <2>2, <2>3, <2>4
<1> QED  BY <1>7, <1>8, <1>10 DEF RevealInv

LEMMA GetReadyKeeps == ASSUME RevealInv, GetReadyTransactions PROVE RevealInv'
<1>1. PICK ready, s : ready = {i \in DOMAIN pendingReveals : IsReady(i)} /\ s = pendingReveals
  OBVIOUS
<1>2. PICK t, late : t = Retained(s, ready) /\ late = Retained(s, DOMAIN s \ ready)
  OBVIOUS
<1>3. PICK r \in OrdersBy(TxsOf(t), GasPrice) :
        /\ released' = Append(released, r) /\ pendingReveals' = late
        /\ UNCHANGED <<commitments, second, slashed>>
  BY <1>1, <1>2 DEF GetReadyTransactions, ByPrice
<1>4. s \in Seq(Reveals) /\ t \in Seq(Reveals) /\ late \in Seq(Reveals) /\ ready \in SUBSET DOMAIN s
  BY <1>1, <1>2, RetainedIs DEF RevealInv, RevealShape
<1>5. TxsOf(t) \in Seq(SecretTxs)
  BY <1>4, TxsAre
<1>6. r \in Seq(SecretTxs) /\ Descends(r) /\ \A v : Copies(r, v) = Copies(TxsOf(t), v)
  BY <1>5, OrdersAre DEF Descends
<1>7. PICK n \in Nat : n = Len(released)
  BY LenProperties DEF RevealInv, RevealShape
<1>8. /\ released' \in Seq(Seq(SecretTxs)) /\ DOMAIN released' = 1 .. n + 1
      /\ \A i \in 1 .. n : i \in DOMAIN released /\ released'[i] = released[i]
      /\ released'[n + 1] = r
  BY <1>3, <1>6, <1>7, AppendProperties, LenProperties DEF RevealInv, RevealShape
<1>9. \A i \in DOMAIN released' : Descends(released'[i])
  <2>1. ASSUME NEW i \in 1 .. n + 1 PROVE Descends(released'[i])
    <3>1. CASE i = n + 1
      BY <1>6, <1>8, <3>1
    <3>2. CASE i # n + 1
      <4>1. i \in 1 .. n
        BY <3>2
      <4>2. i \in DOMAIN released /\ released'[i] = released[i] /\ Descends(released[i])
        BY <1>8, <4>1 DEF RevealInv, RevealShape
      <4> QED  BY <4>2
    <3> QED  BY <3>1, <3>2
  <2> QED  BY <1>8, <2>1
<1>10. RevealShape'
  BY <1>3, <1>4, <1>8, <1>9 DEF RevealInv, RevealShape, Descends
<1>11. InWindow'
  <2>1. ASSUME NEW i \in 1 .. Len(late) PROVE \E j \in 1 .. Len(s) : late[i] = s[j]
    <3>1. PICK f : PickedAt(f, late, s, DOMAIN s \ ready, Len(s))
      BY <1>2, <1>4, RetainedIs
    <3>2. f[i] \in 1 .. Len(s) /\ late[i] = s[f[i]]
      BY <3>1 DEF PickedAt
    <3> QED  BY <3>2
  <2> QED  BY <1>1, <1>3, <2>1 DEF RevealInv, InWindow
<1>12. ASSUME NEW y \in SecretTxs PROVE HandedOut(y)' + StillDue(y)' = Shown(y)'
  <2>1. Shown(y)' = Shown(y) /\ HandedOut(y) + StillDue(y) = Shown(y)
    BY <1>3 DEF Shown, RevealInv
  <2>2. FlattenSeq(released) \in Seq(SecretTxs) /\ FlattenSeq(released') = FlattenSeq(released) \o r
    BY <1>3, <1>6, FlattenAppend DEF RevealInv, RevealShape
  <2>3. HandedOut(y)' = HandedOut(y) + Copies(r, y)
    <3>1. Copies(FlattenSeq(released) \o r, y) = Copies(FlattenSeq(released), y) + Copies(r, y)
      BY <1>6, <2>2, CopiesOfBoth
    <3> QED  BY <2>2, <3>1 DEF HandedOut
  <2>4. StillDue(y) = Copies(TxsOf(t), y) + Copies(TxsOf(late), y)
    BY <1>1, <1>2, <1>4, RevealsSplit DEF StillDue
  <2>5. StillDue(y)' = Copies(TxsOf(late), y)
    BY <1>3 DEF StillDue
  <2>6. Copies(TxsOf(t), y) \in Nat /\ Copies(TxsOf(late), y) \in Nat /\ HandedOut(y) \in Nat
    BY <1>4, TxsAre, CopiesAreFew, RevealCounts DEF RevealInv
  <2>7. Copies(r, y) = Copies(TxsOf(t), y)
    BY <1>6
  <2> QED  BY <2>1, <2>3, <2>4, <2>5, <2>6, <2>7
<1> QED  BY <1>10, <1>11, <1>12 DEF RevealInv

LEMMA SlashKeeps == ASSUME RevealInv, SlashExpired PROVE RevealInv'
<1>1. PICK gone : gone = {x \in DOMAIN commitments : Expired(x)}
  OBVIOUS
<1>2. /\ slashed' = slashed \cup gone /\ commitments' = Restrict(commitments, DOMAIN commitments \ gone)
      /\ UNCHANGED <<pendingReveals, second, released>>
  BY <1>1 DEF SlashExpired
<1>3. /\ DOMAIN commitments' = DOMAIN commitments \ gone
      /\ \A x \in DOMAIN commitments \ gone : commitments'[x] = commitments[x]
  BY <1>2 DEF Restrict
<1>4. \A x \in gone : x \in DOMAIN commitments /\ ~commitments[x].revealed
  BY <1>1 DEF Expired
<1>5. RevealShape'
  BY <1>2, <1>3 DEF RevealInv, RevealShape, Descends
<1>6. InWindow'
  BY <1>2, <1>3, <1>4 DEF RevealInv, InWindow
<1>7. \A y \in SecretTxs : HandedOut(y)' = HandedOut(y) /\ StillDue(y)' = StillDue(y)
  BY <1>2 DEF HandedOut, StillDue
<1>8. \A y \in SecretTxs : Shown(y)' = Shown(y)
  BY <1>3, <1>4 DEF Shown
<1> QED  BY <1>5, <1>6, <1>7, <1>8 DEF RevealInv

LEMMA RevealSteps == ASSUME RevealInv, [RevealNext]_revealVars PROVE RevealInv'
<1>1. CASE UNCHANGED revealVars
  BY <1>1 DEF revealVars, RevealInv, RevealShape, InWindow, Descends, HandedOut, StillDue, Shown
<1>2. CASE ClockTick
  <2>1. second' \in Nat /\ UNCHANGED <<commitments, pendingReveals, slashed, released>>
    BY <1>2 DEF ClockTick, RevealInv, RevealShape
  <2>2. RevealShape'
    BY <2>1 DEF RevealInv, RevealShape, Descends
  <2>3. InWindow'
    BY <2>1 DEF RevealInv, InWindow
  <2> QED  BY <2>1, <2>2, <2>3 DEF RevealInv, HandedOut, StillDue, Shown
<1> QED  BY <1>1, <1>2, GetReadyKeeps, SlashKeeps, CommitKeeps, RevealKeeps DEF RevealNext

LEMMA RevealGives == ASSUME RevealInv PROVE RevealOnceOrSlash
<1>1. PICK out, due, both : /\ out = FlattenSeq(released) /\ due = TxsOf(pendingReveals) /\ both = out \o due
  OBVIOUS
<1>2. out \in Seq(SecretTxs) /\ due \in Seq(SecretTxs)
  BY <1>1, RevealCounts, TxsAre DEF RevealInv, RevealShape
<1>3. both \in Seq(SecretTxs) /\ DOMAIN both = 1 .. Len(both)
  BY <1>1, <1>2, ConcatProperties, LenProperties
<1>4. ASSUME NEW x \in SecretTxs PROVE Copies(both, x) = Shown(x)
  <2>1. Copies(both, x) = Copies(out, x) + Copies(due, x)
    BY <1>1, <1>2, CopiesOfBoth
  <2> QED  BY <1>1, <2>1 DEF RevealInv, HandedOut, StillDue
<1>5. ASSUME NEW i \in DOMAIN both, NEW j \in DOMAIN both, both[i] = both[j] PROVE i = j
  <2>1. PICK x \in SecretTxs : x = both[i]
    BY <1>3, <1>5, ElementOfSeq
  <2>2. Copies(both, x) <= 1
    BY <1>4 DEF Shown
  <2> QED  BY <1>3, <1>5, <2>1, <2>2, OnceOnly
<1>6. Range(both) = {x \in DOMAIN commitments : commitments[x].revealed}
  <2>1. Range(both) \subseteq SecretTxs
    <3>1. \A i \in DOMAIN both : both[i] \in SecretTxs
      BY <1>3, ElementOfSeq
    <3> QED  BY <3>1 DEF Range
  <2>2. \A x \in SecretTxs : x \in Range(both) <=> Copies(both, x) > 0
    BY <1>3, HasCopy
  <2>3. \A x \in SecretTxs : x \in Range(both) <=> x \in DOMAIN commitments /\ commitments[x].revealed
    BY <1>4, <2>2 DEF Shown
  <2> QED  BY <2>1, <2>3 DEF RevealInv, RevealShape
<1>7. Range(both) \cap slashed = {}
  BY <1>6 DEF RevealInv, RevealShape
<1>8. ASSUME NEW i \in DOMAIN pendingReveals
      PROVE  pendingReveals[i].at <= commitments[pendingReveals[i].tx].deadline
  <2>1. i \in 1 .. Len(pendingReveals)
    BY LenProperties DEF RevealInv, RevealShape
  <2> QED  BY <2>1 DEF RevealInv, InWindow
<1>9. ASSUME NEW n \in DOMAIN released, NEW i \in DOMAIN released[n], NEW j \in DOMAIN released[n], i < j
      PROVE  GasPrice[released[n][i]] >= GasPrice[released[n][j]]
  <2>1. Descends(released[n])
    BY DEF RevealInv, RevealShape
  <2>2. released[n] \in Seq(SecretTxs)
    BY ElementOfSeq, LenProperties DEF RevealInv, RevealShape
  <2>3. DOMAIN released[n] = 1 .. Len(released[n])
    BY <2>2, LenProperties
  <2> QED  BY <1>9, <2>1, <2>3 DEF Descends
<1> QED  BY <1>1, <1>5, <1>6, <1>7, <1>8, <1>9 DEF RevealOnceOrSlash

(* In every place an order is as often as its submissions put it there. *)
Sold(o) == Times(o, FlattenSeq(executed))
Held(o) == IF current = NoBatch THEN 0 ELSE Times(o, current)
Queued(o) == Times(o, pending)

AuctionShape ==
    /\ pending \in Seq(AuctionOrders) /\ executed \in Seq(Seq(AuctionOrders))
    /\ current # NoBatch => current \in Seq(AuctionOrders) /\ Len(current) <= MaxBatchSize
    /\ \A n \in DOMAIN executed : Len(executed[n]) \in MinBatchSize .. MaxBatchSize

AuctionInv ==
    /\ AuctionShape
    /\ \A o \in AuctionOrders : /\ Queued(o) + Held(o) + Sold(o) <= 2 /\ Queued(o) <= 1
                                /\ o \notin submitted => Queued(o) + Held(o) + Sold(o) = 0

LEMMA TimesIsCopies == ASSUME NEW S, NEW s \in Seq(S), NEW o PROVE Times(o, s) = Copies(s, o) /\ Times(o, s) \in Nat
<1>1. {i \in DOMAIN s : s[i] = o} = Spots(s, o)
  BY LenProperties DEF Spots
<1> QED  BY <1>1, CopiesAreFew DEF Times, Copies

LEMMA AuctionCounts ==
    ASSUME AuctionShape, NEW o
    PROVE  Queued(o) \in Nat /\ Held(o) \in Nat /\ Sold(o) \in Nat /\ FlattenSeq(executed) \in Seq(AuctionOrders)
<1>1. FlattenSeq(executed) \in Seq(AuctionOrders)
  <2>1. << >> \in Seq(AuctionOrders)
    OBVIOUS
  <2> QED  BY <2>1, FlattenAppend DEF AuctionShape
<1>2. Queued(o) \in Nat
  BY TimesIsCopies DEF Queued, AuctionShape
<1>3. Held(o) \in Nat
  BY TimesIsCopies DEF Held, AuctionShape
<1>4. Sold(o) \in Nat
  BY <1>1, TimesIsCopies DEF Sold
<1> QED  BY <1>1, <1>2, <1>3, <1>4

LEMMA AuctionStarts == AuctionInit => AuctionInv
<1> SUFFICES ASSUME AuctionInit PROVE AuctionInv
  OBVIOUS
<1>1. current = NoBatch /\ pending = <<>> /\ executed = <<>> /\ DOMAIN executed = {}
  BY DEF AuctionInit
<1>2. AuctionShape
  BY <1>1 DEF AuctionShape
<1>3. ASSUME NEW o \in AuctionOrders PROVE Queued(o) = 0 /\ Held(o) = 0 /\ Sold(o) = 0
  <2>1. << >> \in Seq(AuctionOrders)
    OBVIOUS
  <2>2. Times(o, <<>>) = 0
    BY <2>1, TimesIsCopies, CopiesOfOne
  <2> QED  BY <1>1, <2>2, FlattenNone DEF Queued, Held, Sold
<1> QED  BY <1>2, <1>3 DEF AuctionInv

(* drain takes from the front what a batch holds. *)
LEMMA Drained ==
    ASSUME NEW q \in Seq(AuctionOrders)
    PROVE  /\ Taken(q) \in Seq(AuctionOrders) /\ Rest(q) \in Seq(AuctionOrders)
           /\ Len(Taken(q)) <= MaxBatchSize
           /\ \A o : Times(o, q) = Times(o, Taken(q)) + Times(o, Rest(q))
<1>1. PICK n \in Nat : n = Len(q)
  BY LenProperties
<1>2. PICK m : m = IF n < MaxBatchSize THEN n ELSE MaxBatchSize
  OBVIOUS
<1>3. m \in Nat /\ m <= n /\ m <= MaxBatchSize
  BY <1>2, AuctionAssumption
<1>4. Taken(q) = SubSeq(q, 1, m)
  BY <1>1, <1>2 DEF Taken
<1>5. Taken(q) \in Seq(AuctionOrders) /\ Len(Taken(q)) = m /\ \A i \in 1 .. m : Taken(q)[i] = q[i]
  BY <1>1, <1>3, <1>4
<1>6. Rest(q) = SubSeq(q, m + 1, n)
  BY <1>1, <1>5 DEF Rest
<1>7. Rest(q) \in Seq(AuctionOrders) /\ Len(Rest(q)) = n - m /\ \A i \in 1 .. n - m : Rest(q)[i] = q[m + i]
  BY <1>1, <1>3, <1>6
<1>8. Taken(q) \o Rest(q) = q
  <2>1. PICK t, r, u : t = Taken(q) /\ r = Rest(q) /\ u = t \o r
    OBVIOUS
  <2>2. u \in Seq(AuctionOrders) /\ Len(u) = n
        /\ \A i \in 1 .. n : u[i] = IF i <= m THEN Taken(q)[i] ELSE Rest(q)[i - m]
    <3>1. t \in Seq(AuctionOrders) /\ r \in Seq(AuctionOrders) /\ Len(t) = m /\ Len(r) = n - m
      BY <1>5, <1>7, <2>1
    <3>2. /\ u \in Seq(AuctionOrders) /\ Len(u) = Len(t) + Len(r)
          /\ \A i \in 1 .. Len(t) + Len(r) : u[i] = IF i <= Len(t) THEN t[i] ELSE r[i - Len(t)]
      BY <2>1, <3>1, ConcatProperties
    <3>3. Len(t) + Len(r) = n
      BY <1>3, <3>1
    <3> QED  BY <2>1, <3>1, <3>2, <3>3
  <2>3. ASSUME NEW i \in 1 .. n PROVE u[i] = q[i]
    <3>1. CASE i <= m
      BY <1>3, <1>5, <2>2, <3>1
    <3>2. CASE ~(i <= m)
      <4>1. i - m \in 1 .. n - m /\ m + (i - m) = i
        BY <1>3, <3>2
      <4> QED  BY <1>7, <2>2, <3>2, <4>1
    <3> QED  BY <3>1, <3>2
  <2> QED  BY <1>1, <2>1, <2>2, <2>3, SeqEqual
<1>9. ASSUME NEW o PROVE Times(o, q) = Times(o, Taken(q)) + Times(o, Rest(q))
  <2>1. Copies(Taken(q) \o Rest(q), o) = Copies(Taken(q), o) + Copies(Rest(q), o)
    BY <1>5, <1>7, CopiesOfBoth
  <2> QED  BY <1>5, <1>7, <1>8, <2>1, TimesIsCopies
<1> QED  BY <1>3, <1>5, <1>7, <1>9

LEMMA TimesOfMore ==
    ASSUME NEW q \in Seq(AuctionOrders), NEW o \in AuctionOrders, NEW x
    PROVE  /\ Append(q, o) \in Seq(AuctionOrders)
           /\ Times(x, Append(q, o)) = Times(x, q) + (IF o = x THEN 1 ELSE 0)
<1>1. Append(q, o) \in Seq(AuctionOrders)
  OBVIOUS
<1>2. Times(x, Append(q, o)) = Copies(Append(q, o), x)
  BY <1>1, TimesIsCopies
<1>3. Times(x, q) = Copies(q, x)
  BY TimesIsCopies
<1>4. Copies(Append(q, o), x) = Copies(q, x) + (IF o = x THEN 1 ELSE 0)
  BY CopiesOfMore
<1> QED  BY <1>1, <1>2, <1>3, <1>4

(* A batch opened with what was pending, or the one there is. *)
LEMMA OpensWith ==
    ASSUME AuctionShape, NEW q \in Seq(AuctionOrders), NEW timeIsUp
    PROVE  LET n == Opened(q, timeIsUp)
           IN  /\ n.batch \in Seq(AuctionOrders) /\ n.pending \in Seq(AuctionOrders)
               /\ Len(n.batch) <= MaxBatchSize
               /\ \A x : /\ Times(x, n.pending) <= Times(x, q)
                         /\ Times(x, n.pending) + Times(x, n.batch) <= Times(x, q) + Held(x)
<1>1. PICK n : n = Opened(q, timeIsUp)
  OBVIOUS
<1>2. CASE current = NoBatch \/ ShouldSeal(timeIsUp)
  <2>1. n.batch = Taken(q) /\ n.pending = Rest(q)
    BY <1>1, <1>2 DEF Opened
  <2>2. /\ Taken(q) \in Seq(AuctionOrders) /\ Rest(q) \in Seq(AuctionOrders)
        /\ Len(Taken(q)) <= MaxBatchSize
        /\ \A x : Times(x, q) = Times(x, Taken(q)) + Times(x, Rest(q))
    BY Drained
  <2>3. ASSUME NEW x PROVE Times(x, Taken(q)) \in Nat /\ Times(x, Rest(q)) \in Nat /\ Held(x) \in Nat
    BY <2>2, TimesIsCopies, AuctionCounts
  <2>4. ASSUME NEW x
        PROVE  Times(x, Rest(q)) <= Times(x, q) /\ Times(x, Rest(q)) + Times(x, Taken(q)) <= Times(x, q) + Held(x)
    <3>1. PICK a \in Nat, b \in Nat, c \in Nat : a = Times(x, Taken(q)) /\ b = Times(x, Rest(q)) /\ c = Held(x)
      BY <2>3
    <3>2. Times(x, q) = a + b
      BY <2>2, <3>1
    <3> QED  BY <3>1, <3>2
  <2> QED  BY <1>1, <2>1, <2>2, <2>4
<1>3. CASE ~(current = NoBatch \/ ShouldSeal(timeIsUp))
  <2>1. n.batch = current /\ n.pending = q /\ current # NoBatch
    BY <1>1, <1>3 DEF Opened
  <2>2. current \in Seq(AuctionOrders) /\ Len(current) <= MaxBatchSize
    BY <2>1 DEF AuctionShape
  <2>3. ASSUME NEW x PROVE Times(x, q) \in Nat /\ Held(x) \in Nat /\ Held(x) = Times(x, current)
    BY <2>1, <2>2, TimesIsCopies, AuctionCounts DEF Held
  <2>4. ASSUME NEW x PROVE Times(x, q) <= Times(x, q) /\ Times(x, q) + Times(x, current) <= Times(x, q) + Held(x)
    BY <2>3
  <2> QED  BY <1>1, <2>1, <2>2, <2>4
<1> QED  BY <1>2, <1>3

LEMMA SubmitToBatchKeeps ==
    ASSUME AuctionInv, NEW o \in AuctionOrders, NEW timeIsUp, SubmitToBatch(o, timeIsUp)
    PROVE  AuctionInv'
<1>1. PICK q, n : q = Append(pending, o) /\ n = Opened(q, timeIsUp)
  OBVIOUS
<1>2. /\ o \notin submitted /\ submitted' = submitted \cup {o} /\ executed' = executed
      /\ current' = (IF Len(n.batch) < MaxBatchSize THEN Append(n.batch, o) ELSE n.batch)
      /\ pending' = n.pending
  BY <1>1 DEF SubmitToBatch
<1>3. q \in Seq(AuctionOrders) /\ \A x : Times(x, q) = Queued(x) + (IF o = x THEN 1 ELSE 0)
  BY <1>1, TimesOfMore DEF Queued, AuctionInv, AuctionShape
<1>4. /\ n.batch \in Seq(AuctionOrders) /\ n.pending \in Seq(AuctionOrders)
      /\ Len(n.batch) <= MaxBatchSize
      /\ \A x : /\ Times(x, n.pending) <= Times(x, q)
                /\ Times(x, n.pending) + Times(x, n.batch) <= Times(x, q) + Held(x)
  BY <1>1, <1>3, OpensWith DEF AuctionInv
<1>5. current' \in Seq(AuctionOrders) /\ Len(current') <= MaxBatchSize
      /\ \A x : Times(x, current') <= Times(x, n.batch) + (IF o = x THEN 1 ELSE 0)
  <2>1. CASE Len(n.batch) < MaxBatchSize
    <3>1. PICK u : u = Append(n.batch, o)
      OBVIOUS
    <3>2. u \in Seq(AuctionOrders) /\ Len(u) = Len(n.batch) + 1 /\ Len(n.batch) \in Nat
      BY <1>4, <3>1, AppendProperties, LenProperties
    <3>3. ASSUME NEW x PROVE Times(x, u) <= Times(x, n.batch) + (IF o = x THEN 1 ELSE 0)
      <4>1. Times(x, u) = Times(x, n.batch) + (IF o = x THEN 1 ELSE 0) /\ Times(x, n.batch) \in Nat
        BY <1>4, <3>1, TimesOfMore, TimesIsCopies
      <4> QED  BY <4>1
    <3>4. Len(u) <= MaxBatchSize
      BY <2>1, <3>2, AuctionAssumption
    <3> QED  BY <1>2, <2>1, <3>1, <3>2, <3>3, <3>4
  <2>2. CASE ~(Len(n.batch) < MaxBatchSize)
    <3>1. current' = n.batch
      BY <1>2, <2>2
    <3>2. ASSUME NEW x PROVE Times(x, n.batch) <= Times(x, n.batch) + (IF o = x THEN 1 ELSE 0)
      <4>1. Times(x, n.batch) \in Nat
        BY <1>4, TimesIsCopies
      <4> QED  BY <4>1
    <3> QED  BY <1>4, <3>1, <3>2
  <2> QED  BY <2>1, <2>2
<1>6. AuctionShape'
  BY <1>2, <1>4, <1>5 DEF AuctionInv, AuctionShape
<1>7. ASSUME NEW x \in AuctionOrders
      PROVE  /\ Queued(x)' + Held(x)' + Sold(x)' <= 2 /\ Queued(x)' <= 1
             /\ x \notin submitted' => Queued(x)' + Held(x)' + Sold(x)' = 0
  <2>1. PICK p \in Nat, h \in Nat, s \in Nat : p = Queued(x) /\ h = Held(x) /\ s = Sold(x)
    BY AuctionCounts DEF AuctionInv
  <2>2. p + h + s <= 2 /\ p <= 1 /\ (x \notin submitted => p + h + s = 0)
    BY <2>1 DEF AuctionInv
  <2>3. PICK d \in {0, 1} : d = (IF o = x THEN 1 ELSE 0)
    OBVIOUS
  <2>4. PICK p2 \in Nat, b2 \in Nat : p2 = Times(x, n.pending) /\ b2 = Times(x, n.batch)
    BY <1>4, TimesIsCopies
  <2>5. p2 <= p + d /\ p2 + b2 <= p + d + h
    BY <1>3, <1>4, <2>1, <2>3, <2>4
  <2>6. Times(x, current') \in Nat /\ Times(x, current') <= b2 + d
    BY <1>5, <2>3, <2>4, TimesIsCopies
  <2>7. Held(x)' \in Nat /\ Held(x)' <= b2 + d
    BY <2>4, <2>6 DEF Held
  <2>8. Queued(x)' = p2 /\ Sold(x)' = s
    BY <1>2, <2>1, <2>4 DEF Queued, Sold
  <2>9. CASE o = x
    <3>1. d = 1 /\ p = 0 /\ h = 0 /\ s = 0 /\ x \in submitted'
      BY <1>2, <2>2, <2>3, <2>9
    <3> QED  BY <2>5, <2>7, <2>8, <3>1
  <2>10. CASE o # x
    <3>1. d = 0 /\ (x \notin submitted' => x \notin submitted)
      BY <1>2, <2>3, <2>10
    <3> QED  BY <2>2, <2>5, <2>7, <2>8, <3>1
  <2> QED  BY <2>9, <2>10
<1> QED  BY <1>6, <1>7 DEF AuctionInv

LEMMA ExecuteBatchKeeps == ASSUME AuctionInv, ExecuteBatch PROVE AuctionInv'
<1>1. /\ current # NoBatch /\ current' = NoBatch /\ pending' = pending /\ submitted' = submitted
      /\ current \in Seq(AuctionOrders) /\ Len(current) <= MaxBatchSize
      /\ pending \in Seq(AuctionOrders) /\ executed \in Seq(Seq(AuctionOrders))
  BY DEF ExecuteBatch, AuctionInv, AuctionShape
<1>2. CASE Len(current) < MinBatchSize
  <2>1. executed' = executed
    BY <1>2 DEF ExecuteBatch
  <2>2. AuctionShape'
    BY <1>1, <2>1 DEF AuctionInv, AuctionShape
  <2>3. ASSUME NEW x \in AuctionOrders
        PROVE  /\ Queued(x)' + Held(x)' + Sold(x)' <= 2 /\ Queued(x)' <= 1
               /\ x \notin submitted' => Queued(x)' + Held(x)' + Sold(x)' = 0
    <3>1. Queued(x) \in Nat /\ Held(x) \in Nat /\ Sold(x) \in Nat
      BY AuctionCounts DEF AuctionInv
    <3>2. Queued(x)' = Queued(x) /\ Held(x)' = 0 /\ Sold(x)' = Sold(x)
      BY <1>1, <2>1 DEF Queued, Held, Sold
    <3>3. Queued(x) + Held(x) + Sold(x) <= 2 /\ Queued(x) <= 1
          /\ (x \notin submitted => Queued(x) + Held(x) + Sold(x) = 0)
      BY DEF AuctionInv
    <3> QED  BY <1>1, <3>1, <3>2, <3>3
  <2> QED  BY <2>2, <2>3 DEF AuctionInv
<1>3. CASE ~(Len(current) < MinBatchSize)
  <2>1. PICK r \in OrdersBy(current, BidPrice) : executed' = Append(executed, r)
    BY <1>3 DEF ExecuteBatch, FairOrders
  <2>2. r \in Seq(AuctionOrders) /\ Len(r) = Len(current) /\ \A v : Copies(r, v) = Copies(current, v)
    BY <1>1, OrdersAre
  <2>3. Len(r) \in MinBatchSize .. MaxBatchSize
    <3>1. Len(current) \in Nat
      BY <1>1, LenProperties
    <3> QED  BY <1>1, <1>3, <2>2, <3>1, AuctionAssumption
  <2>4. PICK n \in Nat : n = Len(executed)
    BY <1>1, LenProperties
  <2>5. /\ executed' \in Seq(Seq(AuctionOrders)) /\ DOMAIN executed' = 1 .. n + 1
        /\ \A i \in 1 .. n : i \in DOMAIN executed /\ executed'[i] = executed[i]
        /\ executed'[n + 1] = r
    BY <1>1, <2>1, <2>2, <2>4, AppendProperties, LenProperties
  <2>6. ASSUME NEW i \in 1 .. n + 1 PROVE Len(executed'[i]) \in MinBatchSize .. MaxBatchSize
    <3>1. CASE i = n + 1
      BY <2>3, <2>5, <3>1
    <3>2. CASE i # n + 1
      <4>1. i \in 1 .. n
        BY <3>2
      <4>2. i \in DOMAIN executed /\ executed'[i] = executed[i]
        BY <2>5, <4>1
      <4> QED  BY <4>2 DEF AuctionInv, AuctionShape
    <3> QED  BY <3>1, <3>2
  <2>7. AuctionShape'
    BY <1>1, <2>5, <2>6 DEF AuctionShape
  <2>8. ASSUME NEW x \in AuctionOrders
        PROVE  /\ Queued(x)' + Held(x)' + Sold(x)' <= 2 /\ Queued(x)' <= 1
               /\ x \notin submitted' => Queued(x)' + Held(x)' + Sold(x)' = 0
    <3>1. Queued(x) \in Nat /\ Held(x) \in Nat /\ Sold(x) \in Nat /\ FlattenSeq(executed) \in Seq(AuctionOrders)
      BY AuctionCounts DEF AuctionInv
    <3>2. Queued(x)' = Queued(x) /\ Held(x)' = 0
      BY <1>1 DEF Queued, Held
    <3>3. FlattenSeq(executed') = FlattenSeq(executed) \o r
      BY <1>1, <2>1, <2>2, FlattenAppend
    <3>4. PICK both : both = FlattenSeq(executed) \o r
      OBVIOUS
    <3>5. both \in Seq(AuctionOrders) /\ Copies(both, x) = Copies(FlattenSeq(executed), x) + Copies(r, x)
      BY <2>2, <3>1, <3>4, ConcatProperties, CopiesOfBoth
    <3>6. Sold(x)' = Copies(both, x)
      BY <3>3, <3>4, <3>5, TimesIsCopies DEF Sold
    <3>7. Sold(x) = Copies(FlattenSeq(executed), x)
      BY <3>1, TimesIsCopies DEF Sold
    <3>8. Held(x) = Copies(r, x)
      BY <1>1, <2>2, TimesIsCopies DEF Held
    <3>9. Sold(x)' = Sold(x) + Held(x)
      BY <3>5, <3>6, <3>7, <3>8
    <3>10. Queued(x) + Held(x) + Sold(x) <= 2 /\ Queued(x) <= 1
          /\ (x \notin submitted => Queued(x) + Held(x) + Sold(x) = 0)
      BY DEF AuctionInv
    <3> QED  BY <1>1, <3>1, <3>2, <3>9, <3>10
  <2> QED  BY <2>7, <2>8 DEF AuctionInv
<1> QED  BY <1>2, <1>3

LEMMA AuctionSteps == ASSUME AuctionInv, [AuctionNext]_auctionVars PROVE AuctionInv'
<1>1. CASE UNCHANGED auctionVars
  BY <1>1 DEF auctionVars, AuctionInv, AuctionShape, Queued, Held, Sold
<1> QED  BY <1>1, SubmitToBatchKeeps, ExecuteBatchKeeps DEF AuctionNext

LEMMA AuctionGives == ASSUME AuctionInv PROVE ExecutedAtMostTwice
<1>1. ASSUME NEW o \in AuctionOrders
      PROVE  Waiting(o) + Times(o, FlattenSeq(executed)) <= 2 /\ Times(o, pending) <= 1
  <2>1. Queued(o) + Held(o) + Sold(o) <= 2 /\ Queued(o) <= 1
    BY DEF AuctionInv
  <2>2. Waiting(o) = Queued(o) + Held(o)
    BY DEF Waiting, Queued, Held
  <2> QED  BY <2>1, <2>2 DEF Sold, Queued
<1> QED  BY <1>1 DEF AuctionInv, AuctionShape, ExecutedAtMostTwice

(* ExecutedAlwaysAsOften: for any transactions, prices and limits, a        *)
(* transaction that is committed is handed out at most once, after a reveal *)
(* in its window and never when it was slashed (commit_reveal.rs:45-154),   *)
(* and an auctioned one is in at most two executed batches                  *)
(* (batch_auction.rs:58-119, 188-217).                                      *)
THEOREM ExecutedAlwaysAsOften == MCSpec => []ExecutedAsOften
<1>1. MCInit => RevealInv /\ AuctionInv
  BY RevealStarts, AuctionStarts DEF MCInit
<1>2. [MCNext]_mcVars => [RevealNext]_revealVars /\ [AuctionNext]_auctionVars
  BY DEF MCNext, mcVars, defiVars, mevVars, exchangeVars
<1>3. RevealInv /\ AuctionInv /\ [MCNext]_mcVars => RevealInv' /\ AuctionInv'
  BY <1>2, RevealSteps, AuctionSteps
<1>4. RevealInv /\ AuctionInv => ExecutedAsOften
  BY RevealGives, AuctionGives DEF ExecutedAsOften
<1> QED  BY <1>1, <1>3, <1>4, PTL DEF MCSpec
-----------------------------------------------------------------------------
(* PathFinder: what its sorts, its edges and its costs are; then what the   *)
(* three searches keep of the routes.                                       *)

(* s is the n positions of key, each once, one with the least key first.    *)
SortsTo(s, key, n) ==
    /\ n \in Nat /\ n = Cardinality(DOMAIN key) /\ DOMAIN s = 1 .. n
    /\ \A k \in 1 .. n : s[k] \in DOMAIN key
    /\ \A i \in DOMAIN key : \E k \in 1 .. n : s[k] = i
    /\ \A j, k \in 1 .. n : s[j] = s[k] => j = k
    /\ n > 0 => \A i \in DOMAIN key : key[s[1]] <= key[i]

LEMMA SortedIs ==
    ASSUME NEW key, IsFiniteSet(DOMAIN key), DOMAIN key \subseteq Int, \A i \in DOMAIN key : key[i] \in Int
    PROVE  SortsTo(Sorted(key), key, Cardinality(DOMAIN key))
<1>1. PICK D, n, s : D = DOMAIN key /\ n = Cardinality(D) /\ s = Sorted(key)
  OBVIOUS
<1>2. n \in Nat /\ IsFiniteSet(D)
  BY <1>1, FS_CardinalityType
<1> DEFINE ahead(i) == Cardinality(SortsBefore(key, i))
<1>3. ASSUME NEW i \in D
      PROVE  /\ SortsBefore(key, i) \in SUBSET D /\ i \notin SortsBefore(key, i)
             /\ IsFiniteSet(SortsBefore(key, i)) /\ ahead(i) \in Nat /\ ahead(i) < n
  <2>1. SortsBefore(key, i) \in SUBSET D /\ i \notin SortsBefore(key, i) /\ SortsBefore(key, i) # D
    BY <1>1 DEF SortsBefore
  <2>2. IsFiniteSet(SortsBefore(key, i)) /\ ahead(i) <= n /\ ahead(i) # n
    BY <1>1, <1>2, <2>1, FS_Subset
  <2>3. ahead(i) \in Nat
    BY <2>2, FS_CardinalityType
  <2> QED  BY <1>2, <2>1, <2>2, <2>3
<1>4. ASSUME NEW i \in D, NEW j \in SortsBefore(key, i) PROVE ahead(j) < ahead(i)
  <2>1. j \in D
    BY <1>3
  <2>2. SortsBefore(key, j) \in SUBSET SortsBefore(key, i)
    BY <1>1, <2>1 DEF SortsBefore
  <2>3. SortsBefore(key, j) # SortsBefore(key, i)
    BY <1>3, <2>1
  <2>4. ahead(j) <= ahead(i) /\ ahead(j) # ahead(i)
    BY <1>3, <2>2, <2>3, FS_Subset
  <2>5. ahead(j) \in Nat /\ ahead(i) \in Nat
    BY <1>3, <2>1
  <2> QED  BY <2>4, <2>5
<1>5. ASSUME NEW i \in D, NEW j \in D, ahead(i) = ahead(j) PROVE i = j
  <2>1. i = j \/ j \in SortsBefore(key, i) \/ i \in SortsBefore(key, j)
    BY <1>1 DEF SortsBefore
  <2>2. ahead(i) \in Nat /\ ahead(j) \in Nat
    BY <1>3
  <2>3. j \notin SortsBefore(key, i)
    BY <1>4, <1>5, <2>2
  <2>4. i \notin SortsBefore(key, j)
    BY <1>4, <1>5, <2>2
  <2> QED  BY <2>1, <2>3, <2>4
<1> HIDE DEF ahead
<1> DEFINE rank == [i \in D |-> ahead(i) + 1]
<1>6. \A i \in D : rank[i] = ahead(i) + 1 /\ rank[i] \in 1 .. n
  BY <1>2, <1>3 DEF ahead
<1>7. rank \in [D -> 1 .. n] /\ \A i, j \in D : rank[i] = rank[j] => i = j
  <2>1. ASSUME NEW i \in D, NEW j \in D, rank[i] = rank[j] PROVE i = j
    <3>1. ahead(i) \in Nat /\ ahead(j) \in Nat
      BY <1>3 DEF ahead
    <3>2. ahead(i) = ahead(j)
      BY <1>6, <2>1, <3>1
    <3> QED  BY <1>5, <3>2
  <2> QED  BY <1>6, <2>1
<1> HIDE DEF rank
<1>8. rank \in Injection(D, 1 .. n)
  BY <1>7 DEF Injection, IsInjective
<1>9. IsFiniteSet(1 .. n) /\ Cardinality(1 .. n) = n
  BY <1>2, FS_Interval
<1>10. rank \in Surjection(D, 1 .. n)
  BY <1>1, <1>8, <1>9, FS_Injection
<1>11. ASSUME NEW k \in 1 .. n PROVE s[k] \in D /\ ahead(s[k]) = k - 1
  <2>1. PICK i \in D : rank[i] = k
    BY <1>10 DEF Surjection
  <2>2. ahead(i) \in Nat /\ ahead(i) = k - 1
    <3>1. ahead(i) \in Nat
      BY <1>3 DEF ahead
    <3> QED  BY <1>6, <2>1, <3>1
  <2>3. s[k] = CHOOSE x \in D : ahead(x) = k - 1
    BY <1>1 DEF Sorted, ahead
  <2> QED  BY <2>2, <2>3
<1>12. ASSUME NEW i \in D PROVE \E k \in 1 .. n : s[k] = i
  <2>1. rank[i] \in 1 .. n /\ rank[i] = ahead(i) + 1 /\ ahead(i) \in Nat
    BY <1>3, <1>6 DEF ahead
  <2>2. s[rank[i]] \in D /\ ahead(s[rank[i]]) = rank[i] - 1
    BY <1>11, <2>1
  <2>3. ahead(s[rank[i]]) = ahead(i)
    BY <2>1, <2>2
  <2>4. s[rank[i]] = i
    BY <1>5, <2>2, <2>3 DEF ahead
  <2> QED  BY <2>1, <2>4
<1>13. ASSUME NEW j \in 1 .. n, NEW k \in 1 .. n, s[j] = s[k] PROVE j = k
  <2>1. j - 1 = k - 1
    BY <1>11, <1>13
  <2> QED  BY <2>1
<1>14. ASSUME n > 0, NEW i \in D PROVE key[s[1]] <= key[i]
  <2>1. 1 \in 1 .. n
    BY <1>2, <1>14
  <2>2. s[1] \in D /\ ahead(s[1]) = 0
    BY <1>11, <2>1
  <2>3. SortsBefore(key, s[1]) = {}
    BY <1>3, <2>2, FS_EmptySet DEF ahead
  <2>4. i \notin SortsBefore(key, s[1]) /\ key[i] \in Int /\ key[s[1]] \in Int
    BY <1>1, <2>2, <2>3
  <2> QED  BY <1>1, <2>4 DEF SortsBefore
<1>15. DOMAIN s = 1 .. n
  BY <1>1 DEF Sorted
<1> QED  BY <1>1, <1>2, <1>11, <1>12, <1>13, <1>14, <1>15 DEF SortsTo

(* r is s without its k-th element. *)
IsWithout(r, s, k) ==
    /\ Len(r) = Len(s) - 1
    /\ \A j \in 1 .. Len(r) : r[j] = IF j < k THEN s[j] ELSE s[j + 1]
    /\ \A i \in 1 .. Len(s) : i # k => \E j \in 1 .. Len(r) : r[j] = s[i]
    /\ \A j \in 1 .. Len(r) : \E i \in 1 .. Len(s) : r[j] = s[i]

LEMMA RemovedAt ==
    ASSUME NEW S, NEW s \in Seq(S), NEW k \in 1 .. Len(s)
    PROVE  RemoveAt(s, k) \in Seq(S) /\ IsWithout(RemoveAt(s, k), s, k)
<1>1. PICK n \in Nat : n = Len(s)
  BY LenProperties
<1>2. PICK u, v, r : u = SubSeq(s, 1, k - 1) /\ v = SubSeq(s, k + 1, n) /\ r = u \o v
  OBVIOUS
<1>3. r = RemoveAt(s, k) /\ k \in 1 .. n /\ k \in Nat
  BY <1>1, <1>2 DEF RemoveAt
<1>4. /\ u \in Seq(S) /\ Len(u) = k - 1 /\ \A j \in 1 .. k - 1 : u[j] = s[j]
      /\ v \in Seq(S) /\ Len(v) = n - k /\ \A j \in 1 .. n - k : v[j] = s[k + j]
  BY <1>1, <1>2, <1>3
<1>5. r \in Seq(S) /\ Len(r) = n - 1
      /\ \A j \in 1 .. n - 1 : r[j] = IF j <= k - 1 THEN u[j] ELSE v[j - (k - 1)]
  <2>1. /\ r \in Seq(S) /\ Len(r) = Len(u) + Len(v)
        /\ \A j \in 1 .. Len(u) + Len(v) : r[j] = IF j <= Len(u) THEN u[j] ELSE v[j - Len(u)]
    <3>1. u \in Seq(S) /\ v \in Seq(S) /\ r = u \o v
      BY <1>2, <1>4
    <3> QED  BY <3>1, ConcatProperties
  <2>2. Len(u) + Len(v) = n - 1
    BY <1>3, <1>4
  <2> QED  BY <1>4, <2>1, <2>2
<1>6. ASSUME NEW j \in 1 .. n - 1 PROVE r[j] = IF j < k THEN s[j] ELSE s[j + 1]
  <2>1. CASE j < k
    BY <1>3, <1>4, <1>5, <2>1
  <2>2. CASE ~(j < k)
    <3>1. j - (k - 1) \in 1 .. n - k /\ k + (j - (k - 1)) = j + 1 /\ ~(j <= k - 1)
      BY <1>3, <2>2
    <3> QED  BY <1>4, <1>5, <2>2, <3>1
  <2> QED  BY <2>1, <2>2
<1>7. ASSUME NEW i \in 1 .. n, i # k PROVE \E j \in 1 .. n - 1 : r[j] = s[i]
  <2>1. CASE i < k
    <3>1. i \in 1 .. n - 1
      BY <1>3, <2>1
    <3> QED  BY <1>6, <2>1, <3>1
  <2>2. CASE ~(i < k)
    <3>1. i - 1 \in 1 .. n - 1 /\ ~(i - 1 < k) /\ (i - 1) + 1 = i
      BY <1>3, <1>7, <2>2
    <3> QED  BY <1>6, <3>1
  <2> QED  BY <2>1, <2>2
<1>8. ASSUME NEW j \in 1 .. n - 1 PROVE \E i \in 1 .. n : r[j] = s[i]
  <2>1. j \in 1 .. n /\ j + 1 \in 1 .. n
    BY <1>1
  <2> QED  BY <1>6, <2>1
<1> QED  BY <1>1, <1>3, <1>5, <1>6, <1>7, <1>8 DEF IsWithout

PathEdges == [to : RouteTokens, weight : Nat]

(* What edges of t are: a pool's, and every pool of t has its own. *)
EdgesOf(es, t) ==
    /\ es \in Seq(PathEdges)
    /\ \A k \in 1 .. Len(es) : \E i \in Between(t, es[k].to) : es[k].weight = pools[i].weight
    /\ \A u \in RouteTokens : \A i \in Between(t, u) :
          \E k \in 1 .. Len(es) : es[k].to = u /\ es[k].weight = pools[i].weight

LEMMA EdgesAre == ASSUME pools \in Seq(RoutePools), NEW t \in RouteTokens PROVE EdgesOf(Edges(t), t)
<1>1. PICK m \in Nat : m = Len(pools) /\ DOMAIN pools = 1 .. m
  BY LenProperties
<1>2. PICK touching : touching = {i \in DOMAIN pools : t \in {pools[i].a, pools[i].b}}
  OBVIOUS
<1>3. PICK key : key = [i \in touching |-> pools[i].weight]
  OBVIOUS
<1>4. \A i \in 1 .. m : pools[i] \in RoutePools
  BY <1>1, ElementOfSeq
<1>5. IsFiniteSet(touching) /\ touching \subseteq 1 .. m /\ DOMAIN key = touching
  <2>1. touching \in SUBSET (1 .. m) /\ DOMAIN key = touching
    BY <1>1, <1>2, <1>3
  <2>2. IsFiniteSet(1 .. m)
    BY FS_Interval
  <2> QED  BY <2>1, <2>2, FS_Subset
<1>6. ASSUME NEW i \in touching
      PROVE  /\ EdgeOf(t, pools[i]) \in PathEdges /\ i \in Between(t, EdgeOf(t, pools[i]).to)
             /\ EdgeOf(t, pools[i]).weight = pools[i].weight /\ key[i] \in Int
  <2>1. PICK p \in RoutePools : p = pools[i] /\ t \in {p.a, p.b}
    BY <1>2, <1>4, <1>5
  <2>2. p.a \in RouteTokens /\ p.b \in RouteTokens /\ p.weight \in Nat
    BY DEF RoutePools
  <2>3. EdgeOf(t, p) \in PathEdges /\ EdgeOf(t, p).weight = p.weight /\ {p.a, p.b} = {t, EdgeOf(t, p).to}
    BY <2>1, <2>2 DEF EdgeOf, PathEdges
  <2>4. i \in Between(t, EdgeOf(t, p).to)
    BY <1>1, <1>5, <2>1, <2>3 DEF Between
  <2> QED  BY <1>3, <2>1, <2>2, <2>3, <2>4
<1>7. PICK where, n : where = Sorted(key) /\ SortsTo(where, key, n)
  <2>0. 1 .. m \subseteq Int
    OBVIOUS
  <2>1. DOMAIN key \subseteq Int /\ IsFiniteSet(DOMAIN key) /\ \A i \in DOMAIN key : key[i] \in Int
    BY <1>5, <1>6, <2>0
  <2> QED  BY <2>1, SortedIs
<1>8. /\ n \in Nat /\ DOMAIN where = 1 .. n /\ \A k \in 1 .. n : where[k] \in touching
      /\ \A i \in touching : \E k \in 1 .. n : where[k] = i
  BY <1>5, <1>7 DEF SortsTo
<1>9. PICK es : es = Edges(t)
  OBVIOUS
<1>10. es = [k \in 1 .. n |-> EdgeOf(t, pools[where[k]])]
  BY <1>2, <1>3, <1>7, <1>8, <1>9 DEF Edges
<1>11. \A k \in 1 .. n : es[k] = EdgeOf(t, pools[where[k]]) /\ es[k] \in PathEdges
  BY <1>6, <1>8, <1>10
<1>12. es \in Seq(PathEdges) /\ Len(es) = n
  BY <1>8, <1>10, <1>11
<1>13. ASSUME NEW k \in 1 .. n PROVE \E i \in Between(t, es[k].to) : es[k].weight = pools[i].weight
  BY <1>6, <1>8, <1>11
<1>14. ASSUME NEW u \in RouteTokens, NEW i \in Between(t, u)
       PROVE  \E k \in 1 .. n : es[k].to = u /\ es[k].weight = pools[i].weight
  <2>1. i \in 1 .. m /\ {pools[i].a, pools[i].b} = {t, u}
    BY <1>1, <1>14 DEF Between
  <2>2. i \in touching
    BY <1>1, <1>2, <2>1
  <2>3. PICK k \in 1 .. n : where[k] = i
    BY <1>8, <2>2
  <2>4. EdgeOf(t, pools[i]).to = u
    BY <2>1 DEF EdgeOf
  <2> QED  BY <1>6, <1>11, <2>2, <2>3, <2>4
<1> QED  BY <1>9, <1>12, <1>13, <1>14 DEF EdgesOf

(* The cost of a hop: its cheapest pool's. *)
HopOf(t, u) == Min({pools[i].weight : i \in Between(t, u)})

LEMMA HopIs ==
    ASSUME pools \in Seq(RoutePools), NEW t, NEW u, Between(t, u) # {}
    PROVE  /\ HopOf(t, u) \in Nat /\ \A i \in Between(t, u) : HopOf(t, u) <= pools[i].weight
           /\ \E i \in Between(t, u) : HopOf(t, u) = pools[i].weight
<1>1. PICK m \in Nat : m = Len(pools) /\ DOMAIN pools = 1 .. m
  BY LenProperties
<1>2. PICK B : B = Between(t, u)
  OBVIOUS
<1>3. IsFiniteSet(B) /\ B \subseteq 1 .. m
  <2>1. B \in SUBSET (1 .. m)
    BY <1>1, <1>2 DEF Between
  <2>2. IsFiniteSet(1 .. m)
    BY FS_Interval
  <2> QED  BY <2>1, <2>2, FS_Subset
<1>4. \A i \in B : pools[i].weight \in Nat
  <2>1. ASSUME NEW i \in B PROVE pools[i].weight \in Nat
    <3>1. pools[i] \in RoutePools
      BY <1>1, <1>3, ElementOfSeq
    <3> QED  BY <3>1 DEF RoutePools
  <2> QED  BY <2>1
<1>5. PICK ws : ws = {pools[i].weight : i \in B}
  OBVIOUS
<1>6. PICK f : f = [i \in B |-> pools[i].weight]
  OBVIOUS
<1>7. f \in Surjection(B, ws)
  BY <1>5, <1>6 DEF Surjection
<1>8. IsFiniteSet(ws) /\ ws \in SUBSET Int /\ ws # {}
  BY <1>2, <1>3, <1>4, <1>5, <1>7, FS_Surjection
<1>9. \E x \in ws : \A y \in ws : x <= y
  BY <1>8, Extremes
<1>10. HopOf(t, u) \in ws /\ \A y \in ws : HopOf(t, u) <= y
  BY <1>2, <1>5, <1>9 DEF HopOf, Min
<1> QED  BY <1>2, <1>4, <1>5, <1>10

(* p goes from pool to pool. *)
Linked(p) == \A k \in 1 .. Len(p) - 1 : Between(p[k], p[k + 1]) # {}

CostTo(p, k) == SumFunctionOnSet(HopCosts(p), 1 .. k - 1)

LEMMA HopsAre ==
    ASSUME pools \in Seq(RoutePools), NEW p \in Seq(RouteTokens), Linked(p)
    PROVE  \A k \in 1 .. Len(p) - 1 : HopCosts(p)[k] = HopOf(p[k], p[k + 1]) /\ HopCosts(p)[k] \in Nat
<1> SUFFICES ASSUME NEW k \in 1 .. Len(p) - 1
             PROVE  HopCosts(p)[k] = HopOf(p[k], p[k + 1]) /\ HopCosts(p)[k] \in Nat
  OBVIOUS
<1>1. HopCosts(p)[k] = HopOf(p[k], p[k + 1])
  BY DEF HopCosts, HopOf
<1>2. Between(p[k], p[k + 1]) # {}
  BY DEF Linked
<1>3. HopOf(p[k], p[k + 1]) \in Nat
  BY <1>2, HopIs
<1> QED  BY <1>1, <1>3

(* Costs along a path: nothing at its start, a hop more at each step. *)
LEMMA CostsRise ==
    ASSUME pools \in Seq(RoutePools), NEW p \in Seq(RouteTokens), Linked(p), Len(p) > 0
    PROVE  /\ CostTo(p, 1) = 0 /\ CostTo(p, Len(p)) = RouteCost(p) /\ RouteCost(p) \in Nat
           /\ \A k \in 1 .. Len(p) : CostTo(p, k) \in Nat /\ CostTo(p, k) <= RouteCost(p)
           /\ \A k \in 1 .. Len(p) - 1 : CostTo(p, k + 1) = CostTo(p, k) + HopOf(p[k], p[k + 1])
<1>0. PICK n \in Nat : n = Len(p) - 1
  BY LenProperties
<1>1. PICK f : f = HopCosts(p) /\ n = Len(p) - 1
  BY <1>0
<1>2. \A k \in 1 .. n : f[k] = HopOf(p[k], p[k + 1]) /\ f[k] \in Nat
  BY <1>1, HopsAre
<1>3. \A k : CostTo(p, k) = SumFunctionOnSet(f, 1 .. k - 1)
  BY <1>1 DEF CostTo
<1>4. RouteCost(p) = SumFunctionOnSet(f, 1 .. n)
  BY <1>1 DEF RouteCost
<1>5. CostTo(p, 1) = 0
  <2>1. SumFunctionOnSet(f, {}) = 0 /\ 1 .. 1 - 1 = {}
    BY SumNone
  <2>2. CostTo(p, 1) = SumFunctionOnSet(f, 1 .. 1 - 1)
    BY <1>3
  <2> QED  BY <2>1, <2>2
<1>6. ASSUME NEW k \in 1 .. n + 1
      PROVE  CostTo(p, k) \in Nat /\ RouteCost(p) \in Nat /\ CostTo(p, k) <= RouteCost(p)
  <2>1. PICK N, R : N = 1 .. n /\ R = 1 .. k - 1
    OBVIOUS
  <2>2. IsFiniteSet(N) /\ R \in SUBSET N /\ IsFiniteSet(R) /\ IsFiniteSet(N \ R)
    <3>1. IsFiniteSet(N) /\ R \in SUBSET N
      BY <2>1, FS_Interval
    <3> QED  BY <3>1, FS_Subset
  <2>3. /\ \A x \in N : f[x] \in Int
        /\ \A x \in R : f[x] \in Nat
        /\ \A x \in N \ R : f[x] \in Nat
    BY <1>2, <2>1, <2>2
  <2>4. SumFunctionOnSet(f, N) = SumFunctionOnSet(f, R) + SumFunctionOnSet(f, N \ R)
    BY <2>2, <2>3, SumSplit
  <2>5. SumFunctionOnSet(f, R) \in Nat
    BY <2>2, <2>3, SumNat
  <2>6. SumFunctionOnSet(f, N \ R) \in Nat
    BY <2>2, <2>3, SumNat
  <2>7. CostTo(p, k) = SumFunctionOnSet(f, R) /\ RouteCost(p) = SumFunctionOnSet(f, N)
    BY <1>3, <1>4, <2>1
  <2> QED  BY <2>4, <2>5, <2>6, <2>7
<1>7. ASSUME NEW k \in 1 .. n PROVE CostTo(p, k + 1) = CostTo(p, k) + HopOf(p[k], p[k + 1])
  <2>1. PICK m \in Nat : m = k - 1 /\ m + 1 = k
    OBVIOUS
  <2>2. \A i \in 1 .. (m + 1) : f[i] \in Int
    BY <1>2, <2>1
  <2>3. SumFunctionOnSet(f, 1 .. (m + 1)) = f[m + 1] + SumFunctionOnSet(f, 1 .. m)
        /\ SumFunctionOnSet(f, 1 .. m) \in Int
    BY <2>2, SumOneMore
  <2>4. CostTo(p, k + 1) = SumFunctionOnSet(f, 1 .. (m + 1)) /\ CostTo(p, k) = SumFunctionOnSet(f, 1 .. m)
    <3>1. (k + 1) - 1 = m + 1 /\ k - 1 = m
      BY <2>1
    <3> QED  BY <1>3, <3>1
  <2>5. f[m + 1] = HopOf(p[k], p[k + 1]) /\ f[m + 1] \in Int
    BY <1>2, <2>1
  <2> QED  BY <2>3, <2>4, <2>5
<1>8. CostTo(p, Len(p)) = RouteCost(p)
  <2>1. Len(p) - 1 = n
    BY <1>1
  <2> QED  BY <1>3, <1>4, <2>1
<1>9. 1 \in 1 .. n + 1 /\ Len(p) = n + 1
  BY <1>1, LenProperties
<1> QED  BY <1>1, <1>5, <1>6, <1>7, <1>8, <1>9

(* One token more costs one hop more. *)
LEMMA CostOfMore ==
    ASSUME pools \in Seq(RoutePools), NEW p \in Seq(RouteTokens), Linked(p), Len(p) > 0,
           NEW u \in RouteTokens, Between(Last(p), u) # {}
    PROVE  /\ RouteCost(Append(p, u)) = RouteCost(p) + HopOf(Last(p), u)
           /\ RouteCost(p) \in Nat /\ Linked(Append(p, u))
<1>0. PICK n \in Nat : n = Len(p) - 1 /\ n + 1 = Len(p)
  BY LenProperties
<1>1. PICK q : q = Append(p, u) /\ n = Len(p) - 1 /\ n + 1 = Len(p)
  BY <1>0
<1>2. /\ q \in Seq(RouteTokens) /\ Len(q) = n + 2 /\ \A i \in 1 .. n + 1 : q[i] = p[i]
      /\ q[n + 2] = u /\ Last(p) = p[n + 1]
  <2>1. /\ q \in Seq(RouteTokens) /\ Len(q) = Len(p) + 1 /\ \A i \in 1 .. Len(p) : q[i] = p[i]
        /\ q[Len(p) + 1] = u
    BY <1>1, AppendProperties
  <2>2. Len(p) + 1 = n + 2
    BY <1>1
  <2> QED  BY <1>1, <2>1, <2>2 DEF Last
<1>3. Linked(q)
  <2>1. ASSUME NEW k \in 1 .. n + 1 PROVE Between(q[k], q[k + 1]) # {}
    <3>1. CASE k = n + 1
      <4>1. q[k] = Last(p) /\ k + 1 = n + 2
        BY <1>2, <3>1
      <4> QED  BY <1>2, <4>1
    <3>2. CASE k # n + 1
      <4>1. k \in 1 .. n /\ k \in 1 .. n + 1 /\ k + 1 \in 1 .. n + 1 /\ k \in 1 .. Len(p) - 1
        BY <1>1, <3>2
      <4>2. q[k] = p[k] /\ q[k + 1] = p[k + 1]
        BY <1>2, <4>1
      <4> QED  BY <4>1, <4>2 DEF Linked
    <3> QED  BY <3>1, <3>2
  <2>2. Len(q) - 1 = n + 1
    BY <1>2
  <2> QED  BY <2>1, <2>2 DEF Linked
<1>4. PICK f, g : f = HopCosts(q) /\ g = HopCosts(p)
  OBVIOUS
<1>5. \A k \in 1 .. n + 1 : f[k] = HopOf(q[k], q[k + 1]) /\ f[k] \in Int
  <2>1. Len(q) - 1 = n + 1 /\ q \in Seq(RouteTokens)
    BY <1>2
  <2>2. \A k \in 1 .. Len(q) - 1 : HopCosts(q)[k] = HopOf(q[k], q[k + 1]) /\ HopCosts(q)[k] \in Nat
    BY <1>3, <2>1, HopsAre
  <2> QED  BY <1>4, <2>1, <2>2
<1>6. \A k \in 1 .. n : g[k] = HopOf(p[k], p[k + 1]) /\ g[k] \in Nat
  BY <1>1, <1>4, HopsAre
<1>7. \A k \in 1 .. n : g[k] = f[k]
  <2>1. ASSUME NEW k \in 1 .. n PROVE g[k] = f[k]
    <3>1. k \in 1 .. n + 1 /\ k + 1 \in 1 .. n + 1
      OBVIOUS
    <3>2. q[k] = p[k] /\ q[k + 1] = p[k + 1]
      BY <1>2, <3>1
    <3> QED  BY <1>5, <1>6, <3>1, <3>2
  <2> QED  BY <2>1
<1>8. SumFunctionOnSet(f, 1 .. (n + 1)) = f[n + 1] + SumFunctionOnSet(g, 1 .. n)
      /\ SumFunctionOnSet(g, 1 .. n) \in Int
  BY <1>5, <1>7, SumOneMore
<1>9. RouteCost(q) = SumFunctionOnSet(f, 1 .. (n + 1)) /\ RouteCost(p) = SumFunctionOnSet(g, 1 .. n)
  <2>1. Len(q) - 1 = n + 1
    BY <1>2
  <2> QED  BY <1>1, <1>4, <2>1 DEF RouteCost
<1>10. f[n + 1] = HopOf(Last(p), u) /\ f[n + 1] \in Int
  <2>1. n + 1 \in 1 .. n + 1 /\ (n + 1) + 1 = n + 2
    OBVIOUS
  <2> QED  BY <1>2, <1>5, <2>1
<1>11. RouteCost(p) \in Nat
  BY CostsRise
<1> QED  BY <1>1, <1>3, <1>8, <1>9, <1>10, <1>11

(* What every search keeps on its agenda: the beginning of a route.         *)
IsWalk(p) ==
    /\ p \in Seq(RouteTokens) /\ Len(p) \in 1 .. maxHops + 1 /\ p[1] = TokenIn /\ Linked(p)
    /\ \A i, j \in 1 .. Len(p) : p[i] = p[j] => i = j
    /\ \A k \in 1 .. Len(p) - 1 : p[k] # TokenOut

IsRoute(r) == IsWalk(r) /\ Len(r) >= 2 /\ Last(r) = TokenOut

LEMMA RoutesAre == ASSUME maxHops \in Nat, NEW r PROVE r \in Routes(maxHops) <=> IsRoute(r)
<1>1. ASSUME r \in Routes(maxHops) PROVE IsRoute(r)
  <2>1. PICK n \in 2 .. maxHops + 1 : r \in [1 .. n -> RouteTokens]
    BY <1>1 DEF Routes
  <2>2. r \in Seq(RouteTokens) /\ Len(r) = n /\ DOMAIN r = 1 .. n /\ n \in Nat
    BY <2>1
  <2>3. r[1] = TokenIn /\ Last(r) = TokenOut /\ Linked(r)
        /\ \A i, j \in DOMAIN r : r[i] = r[j] => i = j
    BY <1>1 DEF Routes, Linked, IsInjective
  <2>4. ASSUME NEW k \in 1 .. Len(r) - 1 PROVE r[k] # TokenOut
    <3>1. k \in DOMAIN r /\ n \in DOMAIN r /\ k # n
      BY <2>1, <2>2
    <3>2. r[n] = TokenOut
      BY <2>2, <2>3 DEF Last
    <3> QED  BY <2>3, <3>1, <3>2
  <2>5. Len(r) \in 1 .. maxHops + 1 /\ Len(r) >= 2
    BY <2>1, <2>2
  <2> QED  BY <2>2, <2>3, <2>4, <2>5 DEF IsRoute, IsWalk
<1>2. ASSUME IsRoute(r) PROVE r \in Routes(maxHops)
  <2>1. PICK n \in 2 .. maxHops + 1 : n = Len(r)
    BY <1>2 DEF IsRoute, IsWalk
  <2>2. r \in Seq(RouteTokens) /\ DOMAIN r = 1 .. n
    BY <1>2, <2>1, LenProperties DEF IsRoute, IsWalk
  <2>3. r \in [1 .. n -> RouteTokens]
    BY <2>1, <2>2, LenProperties
  <2>4. IsInjective(r)
    BY <1>2, <2>1, <2>2 DEF IsRoute, IsWalk, IsInjective
  <2>5. r[1] = TokenIn /\ Last(r) = TokenOut /\ \A k \in 1 .. Len(r) - 1 : Between(r[k], r[k + 1]) # {}
    BY <1>2 DEF IsRoute, IsWalk, Linked
  <2> QED  BY <2>3, <2>4, <2>5 DEF Routes
<1> QED  BY <1>1, <1>2

(* A walk that arrives is a route, and one that does not may go on. *)
LEMMA WalkEndsWell ==
    ASSUME maxHops \in Nat, NEW p, IsWalk(p), Last(p) = TokenOut
    PROVE  p \in Routes(maxHops) /\ IsRoute(p)
<1>1. Len(p) # 1
  <2> SUFFICES ASSUME Len(p) = 1 PROVE FALSE
    OBVIOUS
  <2> QED  BY PathAssumption DEF IsWalk, Last
<1>2. Len(p) >= 2
  <2>1. PICK n \in Nat : n = Len(p) /\ n >= 1
    BY LenProperties DEF IsWalk
  <2> QED  BY <1>1, <2>1
<1> QED  BY <1>2, RoutesAre DEF IsRoute

Grown(q, p, u) ==
    /\ q \in Seq(RouteTokens) /\ Len(q) = Len(p) + 1 /\ Last(q) = u /\ q[Len(p) + 1] = u
    /\ \A i \in 1 .. Len(p) : q[i] = p[i]

LEMMA WalkGrows ==
    ASSUME maxHops \in Nat, NEW p, IsWalk(p), Last(p) # TokenOut, Len(p) <= maxHops,
           pools \in Seq(RoutePools),
           NEW u \in RouteTokens, Between(Last(p), u) # {}, ~Contains(p, u)
    PROVE  IsWalk(Append(p, u)) /\ Grown(Append(p, u), p, u)
<1>1. PICK q, n : q = Append(p, u) /\ n = Len(p)
  OBVIOUS
<1>2. n \in Nat /\ n >= 1 /\ n <= maxHops /\ p \in Seq(RouteTokens)
  BY <1>1 DEF IsWalk
<1>3. q \in Seq(RouteTokens) /\ Len(q) = n + 1 /\ q[n + 1] = u /\ \A i \in 1 .. n : q[i] = p[i]
  BY <1>1, <1>2, AppendProperties
<1>4. Last(q) = u
  BY <1>3 DEF Last
<1>5. Linked(q)
  BY <1>1, <1>2, CostOfMore DEF IsWalk
<1>6. \A i \in 1 .. n : p[i] # u
  BY <1>1 DEF Contains
<1>7. ASSUME NEW i \in 1 .. n + 1, NEW j \in 1 .. n + 1, q[i] = q[j] PROVE i = j
  <2>1. CASE i = n + 1 /\ j = n + 1
    BY <2>1
  <2>2. CASE i = n + 1 /\ j # n + 1
    <3>1. j \in 1 .. n
      BY <1>2, <2>2
    <3> QED  BY <1>3, <1>6, <1>7, <2>2, <3>1
  <2>3. CASE i # n + 1 /\ j = n + 1
    <3>1. i \in 1 .. n
      BY <1>2, <2>3
    <3> QED  BY <1>3, <1>6, <1>7, <2>3, <3>1
  <2>4. CASE i # n + 1 /\ j # n + 1
    <3>1. i \in 1 .. n /\ j \in 1 .. n
      BY <1>2, <2>4
    <3>2. p[i] = p[j]
      BY <1>3, <1>7, <3>1
    <3> QED  BY <1>1, <3>1, <3>2 DEF IsWalk
  <2> QED  BY <2>1, <2>2, <2>3, <2>4
<1>8. ASSUME NEW k \in 1 .. n PROVE q[k] # TokenOut
  <2>1. CASE k = n
    BY <1>1, <1>3, <2>1 DEF Last
  <2>2. CASE k # n
    <3>1. k \in 1 .. Len(p) - 1
      BY <1>1, <1>2, <2>2
    <3> QED  BY <1>3, <3>1 DEF IsWalk
  <2> QED  BY <2>1, <2>2
<1>9. q[1] = TokenIn
  <2>1. 1 \in 1 .. n
    BY <1>2
  <2> QED  BY <1>3, <2>1 DEF IsWalk
<1>10. Len(q) \in 1 .. maxHops + 1 /\ Len(q) - 1 = n
  BY <1>2, <1>3
<1>11. IsWalk(q)
  BY <1>3, <1>5, <1>7, <1>8, <1>9, <1>10 DEF IsWalk
<1> QED  BY <1>1, <1>3, <1>4, <1>11 DEF Grown

(* The tokens that a route goes on from. *)
MidTokens == {t \in RouteTokens : \E r \in Routes(maxHops) : \E k \in 1 .. Len(r) - 1 : r[k] = t}

(* Where labels suffice, no walk to such a token has used up the hops. *)
LEMMA HopsSuffice ==
    ASSUME maxHops \in Nat, pools \in Seq(RoutePools), LabelsSuffice,
           NEW p, IsWalk(p), Last(p) \in MidTokens
    PROVE  Len(p) <= maxHops /\ Last(p) # TokenOut
<1>0. PICK r \in Routes(maxHops) : \E k \in 1 .. Len(r) - 1 : r[k] = Last(p)
  BY DEF MidTokens
<1>1. PICK k \in 1 .. Len(r) - 1 : r[k] = Last(p)
  BY <1>0
<1>2. IsWalk(r) /\ Len(r) \in 2 .. maxHops + 1
  BY <1>1, RoutesAre DEF IsRoute, IsWalk
<1>3. Last(p) # TokenOut
  BY <1>1, <1>2 DEF IsWalk
<1>4. PICK n \in Nat : n = Len(p) /\ n >= 1 /\ p \in Seq(RouteTokens) /\ DOMAIN p = 1 .. n
  BY LenProperties DEF IsWalk
<1>5. \A i \in 1 .. n : p[i] # TokenOut /\ p[i] \in RouteTokens
  <2>1. ASSUME NEW i \in 1 .. n PROVE p[i] # TokenOut
    <3>1. CASE i = n
      BY <1>3, <1>4, <3>1 DEF Last
    <3>2. CASE i # n
      <4>1. i \in 1 .. Len(p) - 1
        BY <1>4, <3>2
      <4> QED  BY <4>1 DEF IsWalk
    <3> QED  BY <3>1, <3>2
  <2> QED  BY <1>4, <2>1, ElementOfSeq
<1>6. \A i, j \in 1 .. n : p[i] = p[j] => i = j
  BY <1>4 DEF IsWalk
<1>7. CASE maxHops >= Cardinality(RouteTokens) - 1
  <2>1. PICK U : U = RouteTokens \ {TokenOut}
    OBVIOUS
  <2>2. IsFiniteSet(U) /\ Cardinality(U) = Cardinality(RouteTokens) - 1 /\ Cardinality(U) \in Nat
    <3>1. TokenOut \in RouteTokens /\ IsFiniteSet(RouteTokens)
      BY PathAssumption
    <3>2. IsFiniteSet(U) /\ Cardinality(U) = Cardinality(RouteTokens) - 1
      BY <2>1, <3>1, FS_RemoveElement
    <3> QED  BY <3>2, FS_CardinalityType
  <2>3. p \in [1 .. n -> U]
    BY <1>4, <1>5, <2>1
  <2>4. p \in Injection(1 .. n, U)
    BY <1>6, <2>3 DEF Injection, IsInjective
  <2>5. Cardinality(1 .. n) <= Cardinality(U)
    BY <2>2, <2>4, FS_Injection
  <2>6. Cardinality(1 .. n) = n
    <3>1. Cardinality(1 .. n) = IF 1 > n THEN 0 ELSE n - 1 + 1
      BY FS_Interval
    <3> QED  BY <1>4, <3>1
  <2> QED  BY <1>3, <1>4, <1>7, <2>2, <2>5, <2>6
<1>8. CASE \A i \in DOMAIN pools : {pools[i].a, pools[i].b} \cap {TokenIn, TokenOut} # {}
  <2>1. ASSUME NEW j \in 1 .. n - 1 PROVE j = 1
    <3>1. j \in 1 .. n /\ j + 1 \in 1 .. n /\ 1 \in 1 .. n /\ j + 1 # 1 /\ j \in 1 .. Len(p) - 1
      BY <1>4
    <3>2. PICK i \in Between(p[j], p[j + 1]) : TRUE
      BY <3>1 DEF IsWalk, Linked
    <3>3. i \in DOMAIN pools /\ {pools[i].a, pools[i].b} = {p[j], p[j + 1]}
      BY DEF Between
    <3>4. p[j] # TokenOut /\ p[j + 1] # TokenOut
      BY <1>5, <3>1
    <3>5. {p[j], p[j + 1]} \cap {TokenIn, TokenOut} # {}
      BY <1>8, <3>3
    <3>6. p[j] = TokenIn \/ p[j + 1] = TokenIn
      BY <3>4, <3>5
    <3>7. p[1] = TokenIn
      BY DEF IsWalk
    <3> QED  BY <1>6, <3>1, <3>6, <3>7
  <2>2. n <= 2
    <3> SUFFICES ASSUME ~(n <= 2) PROVE FALSE
      OBVIOUS
    <3>1. n - 1 \in 1 .. n - 1 /\ n - 1 # 1
      BY <1>4
    <3> QED  BY <2>1, <3>1
  <2>3. CASE n = 1
    BY <1>2, <1>3, <1>4, <2>3
  <2>4. CASE n = 2
    <3>1. r[k] = p[2] /\ p[2] # p[1] /\ p[1] = r[1]
      <4>1. Last(p) = p[2] /\ 1 \in 1 .. n /\ 2 \in 1 .. n /\ 1 # 2
        BY <1>4, <2>4 DEF Last
      <4>2. p[2] # p[1]
        BY <1>6, <4>1
      <4> QED  BY <1>1, <1>2, <4>1, <4>2 DEF IsWalk
    <3>2. k # 1
      BY <3>1
    <3>3. Len(r) >= 3
      BY <1>1, <1>2, <3>2
    <3> QED  BY <1>2, <1>3, <1>4, <2>4, <3>3
  <2>5. n = 1 \/ n = 2
    BY <1>4, <2>2
  <2> QED  BY <2>3, <2>4, <2>5
<1> QED  BY <1>7, <1>8 DEF LabelsSuffice

(* Dijkstra: q is a walk that costs no more than it says, and the tokens on *)
(* it have labels that are no higher.                                       *)
PathNodes == [path : Seq(RouteTokens), cost : Nat]

NodeOK(q, labels) ==
    /\ q \in PathNodes /\ IsWalk(q.path) /\ RouteCost(q.path) <= q.cost
    /\ \A i \in 1 .. Len(q.path) :
          q.path[i] # TokenOut => q.path[i] \in DOMAIN labels /\ labels[q.path[i]] <= q.cost

LabelsOK(labels) ==
    /\ DOMAIN labels \subseteq RouteTokens /\ labels \in [DOMAIN labels -> Nat]
    /\ TokenIn \in DOMAIN labels /\ labels[TokenIn] = 0

SearchOK(labels, nodes) ==
    /\ LabelsOK(labels) /\ nodes \in Seq(PathNodes)
    /\ \A j \in 1 .. Len(nodes) : NodeOK(nodes[j], labels)

(* A token's own node waits, or all its neighbours are reached from it. *)
IsWaiting(x, labels, nodes) ==
    \E j \in 1 .. Len(nodes) : Here(nodes[j]) = x /\ nodes[j].cost = labels[x]

IsReached(u, c, labels, nodes) ==
    IF u = TokenOut THEN \E j \in 1 .. Len(nodes) : Here(nodes[j]) = u /\ nodes[j].cost <= c
    ELSE u \in DOMAIN labels /\ labels[u] <= c

IsSettled(x, labels, nodes) ==
    \A u \in RouteTokens : \A i \in Between(x, u) :
        IsReached(u, labels[x] + pools[i].weight, labels, nodes)

IsCovered(X, labels, nodes) ==
    \A x \in X \cap DOMAIN labels :
        x # TokenOut => IsWaiting(x, labels, nodes) \/ IsSettled(x, labels, nodes)

(* Labels fall, nodes are added, and a token whose label falls waits. *)
Improves(l2, n2, l1, n1) ==
    /\ DOMAIN l1 \subseteq DOMAIN l2
    /\ \A x \in DOMAIN l1 : x # TokenOut => l2[x] <= l1[x]
    /\ \A j \in 1 .. Len(n1) : \E k \in 1 .. Len(n2) : n2[k] = n1[j]
    /\ \A x \in DOMAIN l2 : x # TokenOut => \/ x \in DOMAIN l1 /\ l2[x] = l1[x]
                                            \/ IsWaiting(x, l2, n2)

LEMMA ImprovesReached ==
    ASSUME NEW l1, LabelsOK(l1), NEW n1, NEW l2, LabelsOK(l2), NEW n2, Improves(l2, n2, l1, n1),
           NEW u, NEW c \in Nat, IsReached(u, c, l1, n1)
    PROVE  IsReached(u, c, l2, n2)
<1>1. CASE u = TokenOut
  <2>1. PICK j \in 1 .. Len(n1) : Here(n1[j]) = u /\ n1[j].cost <= c
    BY <1>1 DEF IsReached
  <2>2. PICK k \in 1 .. Len(n2) : n2[k] = n1[j]
    BY DEF Improves
  <2> QED  BY <1>1, <2>1, <2>2 DEF IsReached
<1>2. CASE u # TokenOut
  <2>1. u \in DOMAIN l1 /\ l1[u] <= c
    BY <1>2 DEF IsReached
  <2>2. u \in DOMAIN l2 /\ l2[u] <= l1[u]
    BY <1>2, <2>1 DEF Improves
  <2>3. l1[u] \in Nat /\ l2[u] \in Nat
    BY <2>1, <2>2 DEF LabelsOK
  <2>4. l2[u] <= c
    BY <2>1, <2>2, <2>3
  <2> QED  BY <1>2, <2>2, <2>4 DEF IsReached
<1> QED  BY <1>1, <1>2

LEMMA ImprovesNode ==
    ASSUME NEW l1, LabelsOK(l1), NEW n1, NEW l2, LabelsOK(l2), NEW n2, Improves(l2, n2, l1, n1),
           NEW q, NodeOK(q, l1)
    PROVE  NodeOK(q, l2)
<1>1. ASSUME NEW i \in 1 .. Len(q.path), q.path[i] # TokenOut
      PROVE  q.path[i] \in DOMAIN l2 /\ l2[q.path[i]] <= q.cost
  <2>1. PICK x : x = q.path[i]
    OBVIOUS
  <2>2. x \in DOMAIN l1 /\ l1[x] <= q.cost
    BY <1>1, <2>1 DEF NodeOK
  <2>3. x \in DOMAIN l2 /\ l2[x] <= l1[x]
    BY <1>1, <2>1, <2>2 DEF Improves
  <2>4. l1[x] \in Nat /\ l2[x] \in Nat /\ q.cost \in Nat
    BY <2>2, <2>3 DEF LabelsOK, NodeOK, PathNodes
  <2> QED  BY <2>1, <2>2, <2>3, <2>4
<1> QED  BY <1>1 DEF NodeOK

LEMMA WeightsAre ==
    ASSUME pools \in Seq(RoutePools), NEW t, NEW u, NEW i \in Between(t, u)
    PROVE  pools[i].weight \in Nat /\ i \in DOMAIN pools
<1>1. i \in DOMAIN pools
  BY DEF Between
<1>2. pools[i] \in RoutePools
  BY <1>1, ElementOfSeq, LenProperties
<1> QED  BY <1>1, <1>2 DEF RoutePools

LEMMA ImprovesCovered ==
    ASSUME pools \in Seq(RoutePools),
           NEW l1, LabelsOK(l1), NEW n1, NEW l2, LabelsOK(l2), NEW n2, Improves(l2, n2, l1, n1),
           NEW X, IsCovered(X, l1, n1)
    PROVE  IsCovered(X, l2, n2)
<1> SUFFICES ASSUME NEW x \in X \cap DOMAIN l2, x # TokenOut, ~IsWaiting(x, l2, n2)
             PROVE  IsSettled(x, l2, n2)
  BY DEF IsCovered
<1>1. x \in DOMAIN l1 /\ l2[x] = l1[x]
  BY DEF Improves
<1>2. ~IsWaiting(x, l1, n1)
  <2> SUFFICES ASSUME IsWaiting(x, l1, n1) PROVE FALSE
    OBVIOUS
  <2>1. PICK j \in 1 .. Len(n1) : Here(n1[j]) = x /\ n1[j].cost = l1[x]
    BY DEF IsWaiting
  <2>2. PICK k \in 1 .. Len(n2) : n2[k] = n1[j]
    BY DEF Improves
  <2> QED  BY <1>1, <2>1, <2>2 DEF IsWaiting
<1>3. IsSettled(x, l1, n1)
  BY <1>1, <1>2 DEF IsCovered
<1>4. ASSUME NEW u \in RouteTokens, NEW i \in Between(x, u)
      PROVE  IsReached(u, l2[x] + pools[i].weight, l2, n2)
  <2>1. PICK c \in Nat : c = l1[x] + pools[i].weight
    <3>1. l1[x] \in Nat /\ pools[i].weight \in Nat
      BY <1>1, WeightsAre DEF LabelsOK
    <3> QED  BY <3>1
  <2>2. IsReached(u, c, l1, n1)
    BY <1>3, <2>1 DEF IsSettled
  <2>3. IsReached(u, c, l2, n2)
    BY <2>2, ImprovesReached
  <2> QED  BY <1>1, <2>1, <2>3
<1> QED  BY <1>4 DEF IsSettled

LEMMA ImprovesSelf == ASSUME NEW l, LabelsOK(l), NEW n PROVE Improves(l, n, l, n)
<1>1. \A x \in DOMAIN l : l[x] <= l[x]
  BY DEF LabelsOK
<1> QED  BY <1>1 DEF Improves

LEMMA ImprovesAgain ==
    ASSUME NEW l1, LabelsOK(l1), NEW n1, NEW l2, LabelsOK(l2), NEW n2, NEW l3, LabelsOK(l3), NEW n3,
           Improves(l2, n2, l1, n1), Improves(l3, n3, l2, n2)
    PROVE  Improves(l3, n3, l1, n1)
<1>1. DOMAIN l1 \subseteq DOMAIN l2 /\ DOMAIN l2 \subseteq DOMAIN l3
  BY DEF Improves
<1>2. ASSUME NEW x \in DOMAIN l1, x # TokenOut PROVE l3[x] <= l1[x]
  <2>1. l2[x] <= l1[x] /\ l3[x] <= l2[x]
    BY <1>1, <1>2 DEF Improves
  <2>2. l1[x] \in Nat /\ l2[x] \in Nat /\ l3[x] \in Nat
    BY <1>1 DEF LabelsOK
  <2> QED  BY <2>1, <2>2
<1>3. ASSUME NEW j \in 1 .. Len(n1) PROVE \E k \in 1 .. Len(n3) : n3[k] = n1[j]
  <2>1. PICK i \in 1 .. Len(n2) : n2[i] = n1[j]
    BY DEF Improves
  <2>2. PICK k \in 1 .. Len(n3) : n3[k] = n2[i]
    BY DEF Improves
  <2> QED  BY <2>1, <2>2
<1>4. ASSUME NEW x \in DOMAIN l3, x # TokenOut, ~IsWaiting(x, l3, n3)
      PROVE  x \in DOMAIN l1 /\ l3[x] = l1[x]
  <2>1. x \in DOMAIN l2 /\ l3[x] = l2[x]
    BY <1>4 DEF Improves
  <2>2. ~IsWaiting(x, l2, n2)
    <3> SUFFICES ASSUME IsWaiting(x, l2, n2) PROVE FALSE
      OBVIOUS
    <3>1. PICK j \in 1 .. Len(n2) : Here(n2[j]) = x /\ n2[j].cost = l2[x]
      BY DEF IsWaiting
    <3>2. PICK k \in 1 .. Len(n3) : n3[k] = n2[j]
      BY DEF Improves
    <3> QED  BY <1>4, <2>1, <3>1, <3>2 DEF IsWaiting
  <2> QED  BY <1>4, <2>1, <2>2 DEF Improves
<1> QED  BY <1>1, <1>2, <1>3, <1>4 DEF Improves

(* Whom an edge of t leads to has been dealt with once it is relaxed. *)
Relaxes(r, s, node, e) ==
    /\ SearchOK(r.labels, r.nodes) /\ Improves(r.labels, r.nodes, s.labels, s.nodes)
    /\ r.labels[Here(node)] = s.labels[Here(node)]
    /\ IsReached(e.to, node.cost + e.weight, r.labels, r.nodes)

(* What an expanded node is: short of the end and of the hops. *)
Expandable(node) == Here(node) # TokenOut /\ Len(node.path) <= maxHops

LEMMA NodeAtHere ==
    ASSUME NEW labels, NEW node, NodeOK(node, labels)
    PROVE  /\ Len(node.path) \in Nat /\ Len(node.path) \in 1 .. Len(node.path)
           /\ node.path[Len(node.path)] = Here(node) /\ Here(node) \in RouteTokens /\ node.cost \in Nat
           /\ node.path \in Seq(RouteTokens) /\ IsWalk(node.path) /\ Last(node.path) = Here(node)
           /\ Here(node) # TokenOut => Here(node) \in DOMAIN labels /\ labels[Here(node)] <= node.cost
<1>1. PICK p, n : p = node.path /\ n = Len(p)
  OBVIOUS
<1>2. p \in Seq(RouteTokens) /\ n \in Nat /\ n \in 1 .. n /\ IsWalk(p) /\ node.cost \in Nat
  BY <1>1 DEF NodeOK, PathNodes, IsWalk
<1>3. p[n] = Here(node) /\ Last(p) = Here(node)
  BY <1>1 DEF Here, Last
<1>4. p[n] \in RouteTokens
  BY <1>1, <1>2, ElementOfSeq
<1>5. p[n] # TokenOut => p[n] \in DOMAIN labels /\ labels[p[n]] <= node.cost
  BY <1>1, <1>2 DEF NodeOK
<1> QED  BY <1>1, <1>2, <1>3, <1>4, <1>5

LEMMA RelaxSkips ==
    ASSUME maxHops \in Nat, pools \in Seq(RoutePools), NEW s, SearchOK(s.labels, s.nodes),
           NEW node, NodeOK(node, s.labels), Expandable(node),
           NEW e \in PathEdges,
           \/ Contains(node.path, e.to)
           \/ e.to # TokenOut /\ e.to \in DOMAIN s.labels /\ node.cost + e.weight >= s.labels[e.to]
    PROVE  Relaxes(s, s, node, e)
<1>1. PICK c \in Nat : c = node.cost + e.weight /\ c >= node.cost
  BY DEF NodeOK, PathNodes, PathEdges
<1>2. CASE Contains(node.path, e.to)
  <2>1. PICK i \in 1 .. Len(node.path) : node.path[i] = e.to
    BY <1>2 DEF Contains
  <2>2. e.to # TokenOut
    <3>1. CASE i = Len(node.path)
      BY <2>1, <3>1 DEF Expandable, Here, Last
    <3>2. CASE i # Len(node.path)
      <4>1. i \in 1 .. Len(node.path) - 1
        BY <3>2, NodeAtHere
      <4> QED  BY <2>1, <4>1 DEF NodeOK, IsWalk
    <3> QED  BY <3>1, <3>2
  <2>3. e.to \in DOMAIN s.labels /\ s.labels[e.to] <= node.cost
    BY <2>1, <2>2 DEF NodeOK
  <2>4. s.labels[e.to] \in Nat /\ node.cost \in Nat
    BY <2>3 DEF SearchOK, LabelsOK, NodeOK, PathNodes
  <2>5. IsReached(e.to, c, s.labels, s.nodes)
    BY <1>1, <2>2, <2>3, <2>4 DEF IsReached
  <2> QED  BY <1>1, <2>5, ImprovesSelf DEF Relaxes, SearchOK
<1>3. CASE e.to # TokenOut /\ e.to \in DOMAIN s.labels /\ node.cost + e.weight >= s.labels[e.to]
  <2>1. s.labels[e.to] \in Nat
    BY <1>3 DEF SearchOK, LabelsOK
  <2>2. IsReached(e.to, c, s.labels, s.nodes)
    BY <1>1, <1>3, <2>1 DEF IsReached
  <2> QED  BY <1>1, <2>2, ImprovesSelf DEF Relaxes, SearchOK
<1> QED  BY <1>2, <1>3

LEMMA RelaxAdds ==
    ASSUME maxHops \in Nat, pools \in Seq(RoutePools), NEW s, SearchOK(s.labels, s.nodes),
           NEW node, NodeOK(node, s.labels), Expandable(node),
           NEW e \in PathEdges, NEW i \in Between(Here(node), e.to), e.weight = pools[i].weight,
           ~Contains(node.path, e.to),
           ~(e.to # TokenOut /\ e.to \in DOMAIN s.labels /\ node.cost + e.weight >= s.labels[e.to]),
           NEW r, r = [labels |-> Put(s.labels, e.to, node.cost + e.weight),
                       nodes |-> Append(s.nodes, [path |-> Append(node.path, e.to),
                                                  cost |-> node.cost + e.weight])]
    PROVE  Relaxes(r, s, node, e)
<1>1. PICK p, u, c, q, l1, n1 :
         /\ p = node.path /\ u = e.to /\ c = node.cost + e.weight
         /\ q = [path |-> Append(p, u), cost |-> c] /\ l1 = s.labels /\ n1 = s.nodes
  OBVIOUS
<1>2. PICK l2, n2 : l2 = Put(l1, u, c) /\ n2 = Append(n1, q)
  OBVIOUS
<1>3. r.labels = l2 /\ r.nodes = n2
  BY <1>1, <1>2
<1>4. c \in Nat /\ node.cost \in Nat /\ e.weight \in Nat /\ node.cost <= c /\ u \in RouteTokens
  BY <1>1 DEF NodeOK, PathNodes, PathEdges
<1>5. /\ LabelsOK(l1) /\ n1 \in Seq(PathNodes) /\ \A j \in 1 .. Len(n1) : NodeOK(n1[j], l1)
      /\ NodeOK(node, l1)
  BY <1>1 DEF SearchOK
<1>6. PICK m \in Nat : /\ m = Len(p) /\ m \in 1 .. m /\ p[m] = Here(node) /\ p \in Seq(RouteTokens)
                       /\ IsWalk(p) /\ Last(p) = Here(node)
  BY <1>1, <1>5, NodeAtHere
<1>7. \A j \in 1 .. m : p[j] # u
  BY <1>1, <1>6 DEF Contains
<1>8. IsWalk(Append(p, u)) /\ Grown(Append(p, u), p, u)
  <2>1. Last(p) # TokenOut /\ Len(p) <= maxHops /\ Between(Last(p), u) # {} /\ ~Contains(p, u)
    BY <1>1, <1>6 DEF Expandable
  <2> QED  BY <1>4, <1>6, <2>1, WalkGrows
<1>9. RouteCost(Append(p, u)) <= c /\ RouteCost(Append(p, u)) \in Nat
  <2>1. Linked(p) /\ Len(p) > 0 /\ Between(Last(p), u) # {}
    BY <1>1, <1>6 DEF IsWalk
  <2>2. RouteCost(Append(p, u)) = RouteCost(p) + HopOf(Last(p), u) /\ RouteCost(p) \in Nat
    BY <1>4, <1>6, <2>1, CostOfMore
  <2>3. HopOf(Last(p), u) \in Nat /\ HopOf(Last(p), u) <= e.weight
    <3>1. \A k \in Between(Last(p), u) : HopOf(Last(p), u) <= pools[k].weight
      BY <2>1, HopIs
    <3>2. i \in Between(Last(p), u)
      BY <1>1, <1>6
    <3> QED  BY <2>1, <3>1, <3>2, HopIs
  <2>4. RouteCost(p) <= node.cost
    BY <1>1 DEF NodeOK
  <2> QED  BY <1>1, <1>4, <2>2, <2>3, <2>4
<1>10. /\ DOMAIN l2 = DOMAIN l1 \cup {u} /\ l2[u] = c
       /\ \A x \in DOMAIN l1 : x # u => l2[x] = l1[x]
  BY <1>2 DEF Put
<1>11. u # TokenIn
  <2>1. 1 \in 1 .. m /\ p[1] = TokenIn
    BY <1>6 DEF IsWalk
  <2> QED  BY <1>7, <2>1
<1>12. LabelsOK(l2)
  <2>1. \A x \in DOMAIN l2 : l2[x] \in Nat
    BY <1>4, <1>5, <1>10 DEF LabelsOK
  <2>2. l2 = [x \in DOMAIN l2 |-> l2[x]]
    BY <1>2 DEF Put
  <2>3. DOMAIN l2 \subseteq RouteTokens /\ TokenIn \in DOMAIN l2 /\ l2[TokenIn] = 0
    BY <1>4, <1>5, <1>10, <1>11 DEF LabelsOK
  <2> QED  BY <2>1, <2>2, <2>3 DEF LabelsOK
<1>13. q \in PathNodes /\ q.path = Append(p, u) /\ q.cost = c /\ Here(q) = u
  <2>1. Append(p, u) \in Seq(RouteTokens) /\ Last(Append(p, u)) = u
    BY <1>8 DEF Grown
  <2> QED  BY <1>1, <1>4, <2>1 DEF PathNodes, Here
<1>14. /\ n2 \in Seq(PathNodes) /\ Len(n2) = Len(n1) + 1 /\ Len(n1) \in Nat
       /\ n2[Len(n1) + 1] = q /\ \A j \in 1 .. Len(n1) : n2[j] = n1[j]
  BY <1>2, <1>5, <1>13, AppendProperties, LenProperties
<1>15. IsWaiting(u, l2, n2)
  <2>1. Len(n1) + 1 \in 1 .. Len(n2)
    BY <1>14
  <2> QED  BY <1>10, <1>13, <1>14, <2>1 DEF IsWaiting
<1>16. Improves(l2, n2, l1, n1)
  <2>1. ASSUME NEW x \in DOMAIN l1, x # TokenOut PROVE l2[x] <= l1[x]
    <3>1. l1[x] \in Nat
      BY <1>5 DEF LabelsOK
    <3>2. CASE x # u
      BY <1>10, <3>1, <3>2
    <3>3. CASE x = u
      <4>1. ~(c >= l1[u])
        BY <1>1, <2>1, <3>3
      <4> QED  BY <1>4, <1>10, <3>1, <3>3, <4>1
    <3> QED  BY <3>2, <3>3
  <2>2. ASSUME NEW j \in 1 .. Len(n1) PROVE \E k \in 1 .. Len(n2) : n2[k] = n1[j]
    <3>1. j \in 1 .. Len(n2)
      BY <1>14
    <3> QED  BY <1>14, <3>1
  <2>3. ASSUME NEW x \in DOMAIN l2, x # TokenOut
        PROVE  (x \in DOMAIN l1 /\ l2[x] = l1[x]) \/ IsWaiting(x, l2, n2)
    BY <1>10, <1>15
  <2> QED  BY <1>10, <2>1, <2>2, <2>3 DEF Improves
<1>17. NodeOK(q, l2)
  <2>1. ASSUME NEW j \in 1 .. Len(q.path), q.path[j] # TokenOut
        PROVE  q.path[j] \in DOMAIN l2 /\ l2[q.path[j]] <= q.cost
    <3>1. Len(q.path) = m + 1 /\ q.path[m + 1] = u /\ \A k \in 1 .. m : q.path[k] = p[k]
      BY <1>6, <1>8, <1>13 DEF Grown
    <3>2. CASE j = m + 1
      BY <1>4, <1>10, <1>13, <3>1, <3>2
    <3>3. CASE j # m + 1
      <4>1. j \in 1 .. m
        BY <1>6, <3>1, <3>3
      <4>2. q.path[j] = p[j] /\ p[j] # u
        BY <1>7, <3>1, <4>1
      <4>3. p[j] \in DOMAIN l1 /\ l1[p[j]] <= node.cost
        BY <1>1, <1>5, <1>6, <2>1, <4>1, <4>2 DEF NodeOK
      <4>4. l1[p[j]] \in Nat /\ l2[p[j]] = l1[p[j]] /\ p[j] \in DOMAIN l2
        BY <1>5, <1>10, <4>2, <4>3 DEF LabelsOK
      <4> QED  BY <1>4, <1>13, <4>2, <4>3, <4>4
    <3> QED  BY <3>2, <3>3
  <2> QED  BY <1>8, <1>9, <1>13, <2>1 DEF NodeOK
<1>18. SearchOK(l2, n2)
  <2>1. ASSUME NEW j \in 1 .. Len(n2) PROVE NodeOK(n2[j], l2)
    <3>1. CASE j = Len(n1) + 1
      BY <1>14, <1>17, <3>1
    <3>2. CASE j # Len(n1) + 1
      <4>1. j \in 1 .. Len(n1)
        BY <1>14, <3>2
      <4>2. NodeOK(n1[j], l1) /\ n2[j] = n1[j]
        BY <1>5, <1>14, <4>1
      <4>3. NodeOK(n1[j], l2)
        BY <1>5, <1>12, <1>16, <4>2, ImprovesNode
      <4> QED  BY <4>2, <4>3
    <3> QED  BY <3>1, <3>2
  <2> QED  BY <1>12, <1>14, <2>1 DEF SearchOK
<1>19. l2[Here(node)] = l1[Here(node)]
  <2>1. Here(node) # u
    BY <1>6, <1>7
  <2>2. Here(node) \in DOMAIN l1
    BY <1>5, NodeAtHere DEF Expandable
  <2> QED  BY <1>10, <2>1, <2>2
<1>20. IsReached(u, c, l2, n2)
  <2>1. CASE u = TokenOut
    <3>1. Len(n1) + 1 \in 1 .. Len(n2) /\ c <= c
      BY <1>4, <1>14
    <3> QED  BY <1>13, <1>14, <2>1, <3>1 DEF IsReached
  <2>2. CASE u # TokenOut
    BY <1>4, <1>10, <2>2 DEF IsReached
  <2> QED  BY <2>1, <2>2
<1> QED  BY <1>1, <1>3, <1>16, <1>18, <1>19, <1>20 DEF Relaxes

LEMMA RelaxDoes ==
    ASSUME maxHops \in Nat, pools \in Seq(RoutePools), NEW s, SearchOK(s.labels, s.nodes),
           NEW node, NodeOK(node, s.labels), Expandable(node),
           NEW e \in PathEdges, NEW i \in Between(Here(node), e.to), e.weight = pools[i].weight
    PROVE  Relaxes(Relax(node, s, e), s, node, e)
<1>1. PICK r : r = Relax(node, s, e)
  OBVIOUS
<1>2. CASE \/ Contains(node.path, e.to)
           \/ e.to # TokenOut /\ e.to \in DOMAIN s.labels /\ node.cost + e.weight >= s.labels[e.to]
  <2>1. r = s
    BY <1>1, <1>2 DEF Relax
  <2>2. Relaxes(s, s, node, e)
    BY <1>2, RelaxSkips
  <2> QED  BY <1>1, <2>1, <2>2
<1>3. CASE ~(\/ Contains(node.path, e.to)
             \/ e.to # TokenOut /\ e.to \in DOMAIN s.labels /\ node.cost + e.weight >= s.labels[e.to])
  <2>1. r = [labels |-> Put(s.labels, e.to, node.cost + e.weight),
             nodes |-> Append(s.nodes, [path |-> Append(node.path, e.to), cost |-> node.cost + e.weight])]
    BY <1>1, <1>3 DEF Relax
  <2>2. Relaxes(r, s, node, e)
    BY <1>3, <2>1, RelaxAdds
  <2> QED  BY <1>1, <2>2
<1> QED  BY <1>2, <1>3

(* The loop over the edges: g is what it has after each of them. *)
Labelings == UNION {[D -> Nat] : D \in SUBSET RouteTokens}
Searches == [labels : Labelings, nodes : Seq(PathNodes)]

RelaxedBy(g, node, s, es) ==
    /\ g[0] = s /\ Relaxed(node, s, es) = g[Len(es)]
    /\ \A n \in 0 .. Len(es) - 1 : n + 1 \in 1 .. Len(es) /\ g[n + 1] = Relax(node, g[n], es[n + 1])

RelaxedSoFar(g, node, s, es) ==
    g = [n \in 0 .. Len(es) |-> IF n = 0 THEN s ELSE Relax(node, g[n - 1], es[n])]

LEMMA PutIs ==
    ASSUME NEW l \in Labelings, NEW u \in RouteTokens, NEW c \in Nat
    PROVE  Put(l, u, c) \in Labelings
<1>1. PICK D \in SUBSET RouteTokens : l \in [D -> Nat]
  BY DEF Labelings
<1>2. Put(l, u, c) \in [D \cup {u} -> Nat]
  BY <1>1 DEF Put
<1>3. D \cup {u} \in SUBSET RouteTokens
  OBVIOUS
<1> QED  BY <1>2, <1>3 DEF Labelings

LEMMA RelaxedSteps ==
    ASSUME NEW node \in PathNodes, NEW s \in Searches, NEW es \in Seq(PathEdges)
    PROVE  \E g : RelaxedBy(g, node, s, es)
<1>1. PICK m \in Nat : m = Len(es)
  BY LenProperties
<1> DEFINE F == [n \in 1 .. m |-> [x \in Searches |-> Relax(node, x, es[n])]]
<1>2. ASSUME NEW n \in 1 .. m, NEW x \in Searches
      PROVE  F[n][x] = Relax(node, x, es[n]) /\ F[n][x] \in Searches
  <2>1. F[n][x] = Relax(node, x, es[n])
    OBVIOUS
  <2>2. PICK e \in PathEdges : e = es[n]
    BY <1>1, ElementOfSeq
  <2>3. PICK c \in Nat : c = node.cost + e.weight
    BY DEF PathNodes, PathEdges
  <2>4. PICK l, q : l = Put(x.labels, e.to, c) /\ q = [path |-> Append(node.path, e.to), cost |-> c]
    OBVIOUS
  <2>5. l \in Labelings /\ x.nodes \in Seq(PathNodes)
    BY <2>4, PutIs DEF Searches, PathEdges
  <2>6. q \in PathNodes
    <3>1. node.path \in Seq(RouteTokens) /\ e.to \in RouteTokens
      BY DEF PathNodes, PathEdges
    <3>2. Append(node.path, e.to) \in Seq(RouteTokens)
      BY <3>1, AppendProperties
    <3> QED  BY <2>4, <3>2 DEF PathNodes
  <2>7. Append(x.nodes, q) \in Seq(PathNodes)
    BY <2>5, <2>6, AppendProperties
  <2>8. [labels |-> l, nodes |-> Append(x.nodes, q)] \in Searches
    BY <2>5, <2>7 DEF Searches
  <2>9. Relax(node, x, e) = x \/ Relax(node, x, e) = [labels |-> l, nodes |-> Append(x.nodes, q)]
    BY <2>3, <2>4 DEF Relax
  <2>10. Relax(node, x, e) \in Searches
    BY <2>8, <2>9
  <2> HIDE DEF F
  <2> QED  BY <2>1, <2>2, <2>10
<1> HIDE DEF F
<1>3. PICK h \in [0 .. m -> Searches] : StepsTo(h, s, F, m)
  BY <1>2, StepsExist
<1>4. ASSUME NEW n \in 0 .. m PROVE h[n] = IF n = 0 THEN s ELSE Relax(node, h[n - 1], es[n])
  <2>1. CASE n = 0
    BY <1>3, <2>1 DEF StepsTo
  <2>2. CASE n # 0
    <3>1. n \in 1 .. m /\ n - 1 \in 0 .. m
      BY <2>2
    <3>2. h[n] = F[n][h[n - 1]] /\ h[n - 1] \in Searches
      BY <1>3, <2>2, <3>1 DEF StepsTo
    <3> QED  BY <1>2, <2>2, <3>1, <3>2
  <2> QED  BY <2>1, <2>2
<1>5. RelaxedSoFar(h, node, s, es)
  BY <1>1, <1>3, <1>4 DEF RelaxedSoFar
<1>6. PICK g : g = CHOOSE f : RelaxedSoFar(f, node, s, es)
  OBVIOUS
<1>7. RelaxedSoFar(g, node, s, es)
  BY <1>5, <1>6
<1>8. Relaxed(node, s, es) = g[Len(es)]
  BY <1>6 DEF Relaxed, RelaxedSoFar
<1>9. \A n \in 0 .. m : g[n] = IF n = 0 THEN s ELSE Relax(node, g[n - 1], es[n])
  BY <1>1, <1>7 DEF RelaxedSoFar
<1>10. g[0] = s
  <2>1. 0 \in 0 .. m
    OBVIOUS
  <2> QED  BY <1>9, <2>1
<1>11. ASSUME NEW n \in 0 .. m - 1 PROVE n + 1 \in 1 .. m /\ g[n + 1] = Relax(node, g[n], es[n + 1])
  <2>1. n + 1 \in 0 .. m /\ n + 1 # 0 /\ (n + 1) - 1 = n /\ n + 1 \in 1 .. m
    OBVIOUS
  <2>2. g[n + 1] = Relax(node, g[(n + 1) - 1], es[n + 1])
    BY <1>9, <2>1
  <2> QED  BY <2>1, <2>2
<1> QED  BY <1>1, <1>8, <1>10, <1>11 DEF RelaxedBy

(* What the loop has done after n of the edges es of node. *)
RelaxedTo(r, s, node, es, n) ==
    /\ SearchOK(r.labels, r.nodes) /\ Improves(r.labels, r.nodes, s.labels, s.nodes)
    /\ r.labels[Here(node)] = s.labels[Here(node)]
    /\ \A j \in 1 .. n : IsReached(es[j].to, node.cost + es[j].weight, r.labels, r.nodes)

LEMMA RelaxedOneMore ==
    ASSUME maxHops \in Nat, pools \in Seq(RoutePools), NEW s, SearchOK(s.labels, s.nodes),
           NEW node, NodeOK(node, s.labels), Expandable(node),
           NEW es, EdgesOf(es, Here(node)), NEW n \in Nat, n + 1 \in 1 .. Len(es),
           NEW x, RelaxedTo(x, s, node, es, n)
    PROVE  RelaxedTo(Relax(node, x, es[n + 1]), s, node, es, n + 1)
<1>1. PICK e, r : e = es[n + 1] /\ r = Relax(node, x, e)
  OBVIOUS
<1>2. es \in Seq(PathEdges) /\ \E i \in Between(Here(node), e.to) : e.weight = pools[i].weight
  BY <1>1 DEF EdgesOf
<1>3. e \in PathEdges /\ \A j \in 1 .. Len(es) : es[j] \in PathEdges
  BY <1>1, <1>2, ElementOfSeq
<1>4. PICK i \in Between(Here(node), e.to) : e.weight = pools[i].weight
  BY <1>2
<1>5. /\ SearchOK(x.labels, x.nodes) /\ Improves(x.labels, x.nodes, s.labels, s.nodes)
      /\ x.labels[Here(node)] = s.labels[Here(node)] /\ LabelsOK(x.labels) /\ LabelsOK(s.labels)
  BY DEF RelaxedTo, SearchOK
<1>6. NodeOK(node, x.labels)
  BY <1>5, ImprovesNode
<1>7. Relaxes(r, x, node, e)
  BY <1>1, <1>3, <1>4, <1>5, <1>6, RelaxDoes
<1>8. /\ SearchOK(r.labels, r.nodes) /\ Improves(r.labels, r.nodes, x.labels, x.nodes) /\ LabelsOK(r.labels)
      /\ r.labels[Here(node)] = x.labels[Here(node)]
      /\ IsReached(e.to, node.cost + e.weight, r.labels, r.nodes)
  BY <1>7 DEF Relaxes, SearchOK
<1>9. Improves(r.labels, r.nodes, s.labels, s.nodes)
  BY <1>5, <1>8, ImprovesAgain
<1>10. ASSUME NEW j \in 1 .. n + 1 PROVE IsReached(es[j].to, node.cost + es[j].weight, r.labels, r.nodes)
  <2>1. CASE j = n + 1
    BY <1>1, <1>8, <2>1
  <2>2. CASE j # n + 1
    <3>1. j \in 1 .. n /\ j \in 1 .. Len(es)
      BY <1>2, <2>2, LenProperties
    <3>2. PICK c \in Nat : c = node.cost + es[j].weight
      BY <1>3, <3>1 DEF NodeOK, PathNodes, PathEdges
    <3>3. IsReached(es[j].to, c, x.labels, x.nodes)
      BY <3>1, <3>2 DEF RelaxedTo
    <3>4. IsReached(es[j].to, c, r.labels, r.nodes)
      BY <1>5, <1>8, <3>3, ImprovesReached
    <3> QED  BY <3>2, <3>4
  <2> QED  BY <2>1, <2>2
<1> QED  BY <1>1, <1>5, <1>8, <1>9, <1>10 DEF RelaxedTo

LEMMA RelaxedDoes ==
    ASSUME maxHops \in Nat, pools \in Seq(RoutePools), NEW s \in Searches, SearchOK(s.labels, s.nodes),
           NEW node, NodeOK(node, s.labels), Expandable(node), node.cost = s.labels[Here(node)],
           NEW r, r = Relaxed(node, s, Edges(Here(node)))
    PROVE  /\ SearchOK(r.labels, r.nodes) /\ Improves(r.labels, r.nodes, s.labels, s.nodes)
           /\ IsSettled(Here(node), r.labels, r.nodes)
<1>1. PICK t, es, m : t = Here(node) /\ es = Edges(t) /\ m = Len(es)
  OBVIOUS
<1>2. t \in RouteTokens /\ node \in PathNodes
  BY <1>1, NodeAtHere DEF NodeOK
<1>3. EdgesOf(es, t)
  BY <1>1, <1>2, EdgesAre
<1>4. es \in Seq(PathEdges) /\ m \in Nat
  BY <1>1, <1>3, LenProperties DEF EdgesOf
<1>5. PICK g : RelaxedBy(g, node, s, es)
  BY <1>2, <1>4, RelaxedSteps
<1>6. /\ g[0] = s /\ r = g[m]
      /\ \A n \in 0 .. m - 1 : n + 1 \in 1 .. m /\ g[n + 1] = Relax(node, g[n], es[n + 1])
  BY <1>1, <1>5 DEF RelaxedBy
<1> DEFINE T == {n \in Nat : RelaxedTo(g[n], s, node, es, n)}
<1>7. 0 \in T
  BY <1>6, ImprovesSelf DEF RelaxedTo, SearchOK
<1>8. ASSUME NEW n \in T, n < m PROVE n + 1 \in T
  <2>1. n \in Nat /\ n \in 0 .. m - 1 /\ n + 1 \in 1 .. Len(es) /\ RelaxedTo(g[n], s, node, es, n)
    BY <1>1, <1>4, <1>8
  <2>2. g[n + 1] = Relax(node, g[n], es[n + 1])
    BY <1>6, <2>1
  <2>3. RelaxedTo(Relax(node, g[n], es[n + 1]), s, node, es, n + 1)
    BY <1>1, <1>3, <2>1, RelaxedOneMore
  <2> QED  BY <2>1, <2>2, <2>3
<1>9. m \in T
  <2>1. T \in SUBSET Nat
    OBVIOUS
  <2> HIDE DEF T
  <2> QED  BY <1>4, <1>7, <1>8, <2>1, PrefixSteps
<1>10. RelaxedTo(r, s, node, es, m)
  BY <1>6, <1>9
<1>11. ASSUME NEW u \in RouteTokens, NEW i \in Between(t, u)
       PROVE  IsReached(u, r.labels[t] + pools[i].weight, r.labels, r.nodes)
  <2>1. PICK k \in 1 .. m : es[k].to = u /\ es[k].weight = pools[i].weight
    BY <1>1, <1>3 DEF EdgesOf
  <2>2. IsReached(es[k].to, node.cost + es[k].weight, r.labels, r.nodes)
    BY <1>10, <2>1 DEF RelaxedTo
  <2>3. r.labels[t] = node.cost
    BY <1>1, <1>10 DEF RelaxedTo
  <2> QED  BY <2>1, <2>2, <2>3
<1> QED  BY <1>1, <1>10, <1>11 DEF RelaxedTo, IsSettled

(* Where the tokens of the routes are covered, something on the agenda      *)
(* costs no more than any route.                                            *)
LEMMA AgendaIsAhead ==
    ASSUME maxHops \in Nat, pools \in Seq(RoutePools), NEW l, NEW ns, SearchOK(l, ns),
           IsCovered(MidTokens, l, ns), NEW r \in Routes(maxHops)
    PROVE  \E j \in 1 .. Len(ns) : ns[j].cost <= RouteCost(r)
<1> SUFFICES ASSUME \A j \in 1 .. Len(ns) : ~(ns[j].cost <= RouteCost(r)) PROVE FALSE
  OBVIOUS
<1>1. IsWalk(r) /\ Len(r) >= 2 /\ Last(r) = TokenOut
  BY RoutesAre DEF IsRoute
<1>2. PICK n \in Nat : /\ n >= 2 /\ n = Len(r) /\ r \in Seq(RouteTokens) /\ Linked(r) /\ r[1] = TokenIn
                       /\ r[n] = TokenOut /\ \A k \in 1 .. n - 1 : r[k] # TokenOut
  BY <1>1, LenProperties DEF IsWalk, Last
<1>3. /\ CostTo(r, 1) = 0 /\ CostTo(r, n) = RouteCost(r) /\ RouteCost(r) \in Nat
      /\ \A k \in 1 .. n : CostTo(r, k) \in Nat /\ CostTo(r, k) <= RouteCost(r)
      /\ \A k \in 1 .. n - 1 : CostTo(r, k + 1) = CostTo(r, k) + HopOf(r[k], r[k + 1])
  BY <1>2, CostsRise
<1>4. LabelsOK(l) /\ \A j \in 1 .. Len(ns) : ns[j].cost \in Nat
  BY DEF SearchOK, NodeOK, PathNodes
<1>5. ASSUME NEW k \in 1 .. n - 1, r[k] \in DOMAIN l, l[r[k]] <= CostTo(r, k)
      PROVE  IsReached(r[k + 1], CostTo(r, k + 1), l, ns)
  <2>1. PICK x, u : x = r[k] /\ u = r[k + 1]
    OBVIOUS
  <2>2. k \in 1 .. n /\ k + 1 \in 1 .. n /\ x \in RouteTokens /\ u \in RouteTokens
    BY <1>2, <2>1, ElementOfSeq
  <2>3. x \in MidTokens \cap DOMAIN l /\ x # TokenOut
    BY <1>2, <1>5, <2>1, <2>2 DEF MidTokens
  <2>4. l[x] \in Nat /\ CostTo(r, k) \in Nat /\ CostTo(r, k) <= RouteCost(r)
    BY <1>3, <1>4, <2>2, <2>3 DEF LabelsOK
  <2>5. ~IsWaiting(x, l, ns)
    <3> SUFFICES ASSUME NEW j \in 1 .. Len(ns), ns[j].cost = l[x] PROVE FALSE
      BY DEF IsWaiting
    <3>1. ns[j].cost <= RouteCost(r)
      BY <1>3, <1>5, <2>1, <2>4
    <3> QED  BY <3>1
  <2>6. IsSettled(x, l, ns)
    BY <2>3, <2>5 DEF IsCovered
  <2>7. Between(x, u) # {}
    BY <1>2, <2>1 DEF Linked
  <2>8. PICK i \in Between(x, u) : HopOf(x, u) = pools[i].weight
    BY <2>7, HopIs
  <2>9. PICK c, d : c = l[x] + pools[i].weight /\ d = CostTo(r, k + 1)
    OBVIOUS
  <2>10. c \in Nat /\ d \in Nat /\ c <= d
    <3>1. pools[i].weight \in Nat
      BY WeightsAre
    <3>2. d = CostTo(r, k) + pools[i].weight
      BY <1>3, <2>1, <2>8, <2>9
    <3>3. l[x] <= CostTo(r, k)
      BY <1>5, <2>1
    <3>4. PICK y \in Nat, z \in Nat, w \in Nat : y = l[x] /\ z = CostTo(r, k) /\ w = pools[i].weight
      BY <2>4, <3>1
    <3>5. c = y + w /\ d = z + w /\ y <= z
      BY <2>9, <3>2, <3>3, <3>4
    <3> QED  BY <3>5
  <2>11. IsReached(u, c, l, ns)
    BY <2>2, <2>6, <2>9 DEF IsSettled
  <2>12. IsReached(u, d, l, ns)
    <3>1. CASE u = TokenOut
      <4>1. PICK j \in 1 .. Len(ns) : Here(ns[j]) = u /\ ns[j].cost <= c
        BY <2>11, <3>1 DEF IsReached
      <4>2. ns[j].cost <= d
        BY <1>4, <2>10, <4>1
      <4> QED  BY <3>1, <4>1, <4>2 DEF IsReached
    <3>2. CASE u # TokenOut
      <4>1. u \in DOMAIN l /\ l[u] <= c /\ l[u] \in Nat
        BY <1>4, <2>11, <3>2 DEF IsReached, LabelsOK
      <4> QED  BY <2>10, <3>2, <4>1 DEF IsReached
    <3> QED  BY <3>1, <3>2
  <2> QED  BY <2>1, <2>9, <2>12
<1> DEFINE T == {k \in Nat : r[k + 1] \in DOMAIN l /\ l[r[k + 1]] <= CostTo(r, k + 1)}
<1>6. 0 \in T
  <2>1. r[0 + 1] = TokenIn /\ CostTo(r, 0 + 1) = 0
    BY <1>2, <1>3
  <2> QED  BY <1>4, <2>1 DEF LabelsOK
<1>7. ASSUME NEW k \in T, k < n - 2 PROVE k + 1 \in T
  <2>1. k + 1 \in 1 .. n - 1 /\ (k + 1) + 1 \in 1 .. n - 1 /\ k + 1 \in Nat
    BY <1>2, <1>7
  <2>2. r[k + 1] \in DOMAIN l /\ l[r[k + 1]] <= CostTo(r, k + 1)
    BY <1>7
  <2>3. IsReached(r[(k + 1) + 1], CostTo(r, (k + 1) + 1), l, ns)
    BY <1>5, <2>1, <2>2
  <2>4. r[(k + 1) + 1] # TokenOut
    BY <1>2, <2>1
  <2>5. r[(k + 1) + 1] \in DOMAIN l /\ l[r[(k + 1) + 1]] <= CostTo(r, (k + 1) + 1)
    BY <2>3, <2>4 DEF IsReached
  <2> QED  BY <2>1, <2>5
<1>8. n - 2 \in T
  <2>1. T \in SUBSET Nat /\ n - 2 \in Nat
    BY <1>2
  <2> HIDE DEF T
  <2> QED  BY <1>6, <1>7, <2>1, PrefixSteps
<1>9. n - 1 \in 1 .. n - 1 /\ (n - 2) + 1 = n - 1 /\ (n - 1) + 1 = n
  BY <1>2
<1>10. r[n - 1] \in DOMAIN l /\ l[r[n - 1]] <= CostTo(r, n - 1)
  BY <1>8, <1>9
<1>11. IsReached(r[n], CostTo(r, n), l, ns)
  BY <1>5, <1>9, <1>10
<1>12. \E j \in 1 .. Len(ns) : ns[j].cost <= RouteCost(r)
  BY <1>2, <1>3, <1>11 DEF IsReached
<1> QED  BY <1>12

Begins(p, r) == Len(p) <= Len(r) /\ \A i \in 1 .. Len(p) : p[i] = r[i]

(* The queue of the breadth first search: shorter paths first, one hop      *)
(* between the first and the last.                                          *)
IsFrontier(ns) ==
    \A i, j \in 1 .. Len(ns) :
        i <= j => Len(ns[i].path) <= Len(ns[j].path) /\ Len(ns[j].path) <= Len(ns[i].path) + 1

(* The inductive invariant, of the values of search, agenda, distances,     *)
(* arrived and allPaths: the agenda holds beginnings of routes and the      *)
(* results hold routes; the labels of Dijkstra's search cover the tokens of *)
(* the routes until the first arrival, which is a cheapest; every route     *)
(* begins on the queue of the breadth first search until the first arrival, *)
(* which is a shortest.                                                     *)
PathsTyped(se, ag, di, ar, al) ==
    /\ pools \in Seq(RoutePools) /\ maxHops \in Nat
    /\ se \in {"idle", "dijkstra", "bfs", "dfs", "done", "failed"}
    /\ ag \in Seq(PathNodes) /\ \A j \in 1 .. Len(ag) : IsWalk(ag[j].path)
    /\ ar \in Seq(Routes(maxHops)) /\ al \in Seq(Routes(maxHops))
    /\ se = "idle" => ar = <<>> /\ al = <<>>

CheapestFirst(ag, di, ar) ==
    IF ar = <<>> THEN IsCovered(MidTokens, di, ag)
    ELSE \A r \in Routes(maxHops) : RouteCost(ar[1]) <= RouteCost(r)

ShortestFirst(ag, ar) ==
    /\ IsFrontier(ag)
    /\ IF ar = <<>> THEN \A r \in Routes(maxHops) : \E j \in 1 .. Len(ag) : Begins(ag[j].path, r)
       ELSE \A r \in Routes(maxHops) : Len(ar[1]) <= Len(r)

HasShortest(al) == \A r \in Routes(maxHops) : \E k \in 1 .. Len(al) : Len(al[k]) <= Len(r)

IsResult(al) == IsInjective(al) /\ \A r \in Routes(maxHops) : Len(al[1]) <= Len(r)

SearchFound(se, ag, di, ar, al) ==
    /\ PathsTyped(se, ag, di, ar, al)
    /\ se = "dijkstra" => /\ al = <<>> /\ SearchOK(di, ag)
                          /\ LabelsSuffice => CheapestFirst(ag, di, ar)
    /\ se = "failed" => (LabelsSuffice => Routes(maxHops) = {})
    /\ se = "bfs" => ShortestFirst(ag, ar)
    /\ se = "dfs" => HasShortest(al)
    /\ se = "done" => IsResult(al)

PathInv ==
    \E se, ag, di, ar, al :
        /\ se = search /\ ag = agenda /\ di = distances /\ ar = arrived /\ al = allPaths
        /\ SearchFound(se, ag, di, ar, al)

LEMMA BetweenStays ==
    ASSUME pools' = pools PROVE \A t, u : Between(t, u)' = Between(t, u)
BY DEF Between

LEMMA CostStays ==
    ASSUME pools' = pools PROVE \A p : RouteCost(p)' = RouteCost(p)
<1> SUFFICES ASSUME NEW p PROVE RouteCost(p)' = RouteCost(p)
  OBVIOUS
<1>1. HopCosts(p)' = HopCosts(p)
  <2>1. ASSUME NEW k \in 1 .. Len(p) - 1
        PROVE  {pools'[i].weight : i \in Between(p[k], p[k + 1])'} = {pools[i].weight : i \in Between(p[k], p[k + 1])}
    <3>1. PICK t, u : t = p[k] /\ u = p[k + 1]
      OBVIOUS
    <3>2. Between(t, u)' = Between(t, u)
      BY BetweenStays
    <3> QED  BY <3>1, <3>2
  <2> QED  BY <2>1 DEF HopCosts
<1> QED  BY <1>1 DEF RouteCost

LEMMA RoutesStay ==
    ASSUME pools' = pools, maxHops' = maxHops
    PROVE  /\ \A p : IsWalk(p)' <=> IsWalk(p)
           /\ Routes(maxHops)' = Routes(maxHops) /\ MidTokens' = MidTokens
           /\ LabelsSuffice' <=> LabelsSuffice
<1>1. \A p : IsWalk(p)' <=> IsWalk(p)
  BY BetweenStays DEF IsWalk, Linked
<1>2. Routes(maxHops)' = Routes(maxHops)
  <2> SUFFICES ASSUME NEW p PROVE p \in Routes(maxHops)' <=> p \in Routes(maxHops)
    OBVIOUS
  <2>1. (\A k \in 1 .. Len(p) - 1 : Between(p[k], p[k + 1])' # {})
        <=> \A k \in 1 .. Len(p) - 1 : Between(p[k], p[k + 1]) # {}
    BY BetweenStays
  <2> QED  BY <2>1 DEF Routes
<1>3. MidTokens' = MidTokens
  BY <1>2 DEF MidTokens
<1>4. LabelsSuffice' <=> LabelsSuffice
  BY DEF LabelsSuffice
<1> QED  BY <1>1, <1>2, <1>3, <1>4

LEMMA SearchStays ==
    ASSUME pools' = pools, maxHops' = maxHops
    PROVE  /\ \A l, ns : SearchOK(l, ns)' <=> SearchOK(l, ns)
           /\ \A X, l, ns : IsCovered(X, l, ns)' <=> IsCovered(X, l, ns)
<1>1. \A q, l : NodeOK(q, l)' <=> NodeOK(q, l)
  BY RoutesStay, CostStays DEF NodeOK
<1>2. \A x, l, ns : IsSettled(x, l, ns)' <=> IsSettled(x, l, ns)
  BY BetweenStays DEF IsSettled, IsReached
<1>3. \A l, ns : SearchOK(l, ns)' <=> SearchOK(l, ns)
  BY <1>1 DEF SearchOK, LabelsOK
<1>4. \A X, l, ns : IsCovered(X, l, ns)' <=> IsCovered(X, l, ns)
  BY <1>2 DEF IsCovered, IsWaiting
<1> QED  BY <1>3, <1>4

LEMMA FoundStays ==
    ASSUME pools' = pools, maxHops' = maxHops, NEW se, NEW ag, NEW di, NEW ar, NEW al,
           SearchFound(se, ag, di, ar, al)
    PROVE  SearchFound(se, ag, di, ar, al)'
<1>1. PathsTyped(se, ag, di, ar, al)'
  BY RoutesStay DEF SearchFound, PathsTyped
<1>2. CheapestFirst(ag, di, ar)' <=> CheapestFirst(ag, di, ar)
  <2>1. (IsCovered(MidTokens, di, ag))' <=> IsCovered(MidTokens, di, ag)
    <3>1. PICK X : X = MidTokens /\ X = MidTokens'
      BY RoutesStay
    <3>2. IsCovered(X, di, ag)' <=> IsCovered(X, di, ag)
      BY SearchStays
    <3> QED  BY <3>1, <3>2
  <2> QED  BY <2>1, RoutesStay, CostStays DEF CheapestFirst
<1>3. SearchOK(di, ag)' <=> SearchOK(di, ag)
  BY SearchStays
<1>4. ShortestFirst(ag, ar)' <=> ShortestFirst(ag, ar)
  BY RoutesStay DEF ShortestFirst, IsFrontier, Begins
<1>5. HasShortest(al)' <=> HasShortest(al)
  BY RoutesStay DEF HasShortest
<1>6. IsResult(al)' <=> IsResult(al)
  BY RoutesStay DEF IsResult
<1> QED  BY <1>1, <1>2, <1>3, <1>4, <1>5, <1>6, RoutesStay DEF SearchFound

(* The one-token path that each search starts from. *)
LEMMA StartIsWalk ==
    ASSUME maxHops \in Nat
    PROVE  /\ Start \in Seq(PathNodes) /\ Len(Start) = 1 /\ Start[1] = [path |-> <<TokenIn>>, cost |-> 0]
           /\ IsWalk(<<TokenIn>>) /\ RouteCost(<<TokenIn>>) = 0 /\ Here(Start[1]) = TokenIn
           /\ \A r \in Routes(maxHops) : Begins(<<TokenIn>>, r)
<1>1. TokenIn \in RouteTokens
  BY PathAssumption
<1>2. PICK p : p = <<TokenIn>>
  OBVIOUS
<1>3. p \in Seq(RouteTokens) /\ Len(p) = 1 /\ p[1] = TokenIn
  BY <1>1, <1>2
<1>4. Linked(p)
  <2>1. \A k \in 1 .. Len(p) - 1 : FALSE
    BY <1>3
  <2> QED  BY <2>1 DEF Linked
<1>5. IsWalk(p)
  <2>1. Len(p) \in 1 .. maxHops + 1 /\ \A i, j \in 1 .. Len(p) : p[i] = p[j] => i = j
    BY <1>3
  <2>2. \A k \in 1 .. Len(p) - 1 : FALSE
    BY <1>3
  <2> QED  BY <1>3, <1>4, <2>1, <2>2 DEF IsWalk
<1>6. RouteCost(p) = 0
  <2>1. 1 .. Len(p) - 1 = {}
    BY <1>3
  <2> QED  BY <2>1, SumNone DEF RouteCost
<1>7. PICK q : q = [path |-> p, cost |-> 0]
  OBVIOUS
<1>8. q \in PathNodes
  BY <1>3, <1>7 DEF PathNodes
<1>9. Start = <<q>>
  BY <1>2, <1>7 DEF Start
<1>10. Here(q) = TokenIn
  BY <1>3, <1>7 DEF Here, Last
<1>11. ASSUME NEW r \in Routes(maxHops) PROVE Begins(p, r)
  <2>1. PICK n \in Nat : n = Len(r) /\ n >= 1 /\ r[1] = TokenIn
    BY RoutesAre, LenProperties DEF IsRoute, IsWalk
  <2> QED  BY <1>3, <2>1 DEF Begins
<1> QED  BY <1>2, <1>5, <1>6, <1>7, <1>8, <1>9, <1>10, <1>11

LEMMA FirstLabels ==
    LabelsOK(Put(<<>>, TokenIn, 0)) /\ DOMAIN Put(<<>>, TokenIn, 0) = {TokenIn}
<1>1. PICK l : l = Put(<<>>, TokenIn, 0)
  OBVIOUS
<1>2. DOMAIN l = {TokenIn} /\ l[TokenIn] = 0 /\ l = [x \in DOMAIN l |-> l[x]]
  BY <1>1 DEF Put
<1>3. TokenIn \in RouteTokens
  BY PathAssumption
<1> QED  BY <1>1, <1>2, <1>3 DEF LabelsOK

LEMMA FoundAtStart ==
    pools \in Seq(RoutePools) /\ maxHops \in Nat =>
        SearchFound("dijkstra", Start, Put(<<>>, TokenIn, 0), <<>>, <<>>)
<1> SUFFICES ASSUME pools \in Seq(RoutePools), maxHops \in Nat
             PROVE  SearchFound("dijkstra", Start, Put(<<>>, TokenIn, 0), <<>>, <<>>)
  OBVIOUS
<1>1. PICK l, ns, q : l = Put(<<>>, TokenIn, 0) /\ ns = Start /\ q = Start[1]
  OBVIOUS
<1>2. /\ ns \in Seq(PathNodes) /\ Len(ns) = 1 /\ ns[1] = q /\ q.path = <<TokenIn>> /\ q.cost = 0
      /\ IsWalk(q.path) /\ RouteCost(q.path) = 0 /\ Here(q) = TokenIn
  BY <1>1, StartIsWalk
<1>3. LabelsOK(l) /\ DOMAIN l = {TokenIn} /\ l[TokenIn] = 0
  BY <1>1, FirstLabels DEF LabelsOK
<1>4. NodeOK(q, l)
  <2>1. q \in PathNodes
    <3>1. 1 \in 1 .. Len(ns)
      BY <1>2
    <3> QED  BY <1>2, <3>1, ElementOfSeq
  <2>2. \A i \in 1 .. Len(q.path) : q.path[i] = TokenIn
    BY <1>2
  <2>3. RouteCost(q.path) <= q.cost /\ l[TokenIn] <= q.cost
    BY <1>2, <1>3
  <2> QED  BY <1>2, <1>3, <2>1, <2>2, <2>3 DEF NodeOK
<1>5. SearchOK(l, ns)
  <2>1. \A j \in 1 .. Len(ns) : NodeOK(ns[j], l)
    BY <1>2, <1>4
  <2> QED  BY <1>2, <1>3, <2>1 DEF SearchOK
<1>6. IsCovered(MidTokens, l, ns)
  <2>1. IsWaiting(TokenIn, l, ns)
    <3>1. 1 \in 1 .. Len(ns)
      BY <1>2
    <3> QED  BY <1>2, <1>3, <3>1 DEF IsWaiting
  <2> QED  BY <1>3, <2>1 DEF IsCovered
<1>7. PathsTyped("dijkstra", ns, l, <<>>, <<>>)
  <2>1. \A j \in 1 .. Len(ns) : IsWalk(ns[j].path)
    BY <1>2
  <2>2. <<>> \in Seq(Routes(maxHops))
    OBVIOUS
  <2> QED  BY <1>2, <2>1, <2>2 DEF PathsTyped
<1> QED  BY <1>1, <1>5, <1>6, <1>7 DEF SearchFound, CheapestFirst

LEMMA PathStarts == ASSUME PathInit PROVE PathInv
<1>1. /\ pools = <<>> /\ maxHops = 0 /\ search = "idle" /\ agenda = <<>> /\ distances = <<>>
      /\ arrived = <<>> /\ allPaths = <<>>
  BY DEF PathInit
<1>2. PathsTyped("idle", <<>>, <<>>, <<>>, <<>>)
  <2>1. pools \in Seq(RoutePools) /\ maxHops \in Nat /\ <<>> \in Seq(PathNodes) /\ <<>> \in Seq(Routes(maxHops))
    BY <1>1
  <2>2. \A j \in 1 .. Len(<<>>) : FALSE
    OBVIOUS
  <2> QED  BY <2>1, <2>2 DEF PathsTyped
<1>3. SearchFound("idle", <<>>, <<>>, <<>>, <<>>)
  BY <1>2 DEF SearchFound
<1> QED  BY <1>1, <1>3 DEF PathInv

LEMMA FindAllPathsKeeps ==
    ASSUME NEW list \in PoolLists, NEW hops \in HopLimits, PathInv, FindAllPaths(list, hops)
    PROVE  PathInv'
<1>1. /\ pools' \in Seq(RoutePools) /\ maxHops' \in Nat /\ search' = "dijkstra"
      /\ agenda' = Start /\ distances' = Put(<<>>, TokenIn, 0)
      /\ search = "idle" /\ arrived' = arrived /\ allPaths' = allPaths
  BY PathAssumption DEF FindAllPaths
<1>2. arrived = <<>> /\ allPaths = <<>>
  BY <1>1 DEF PathInv, SearchFound, PathsTyped
<1>3. (pools \in Seq(RoutePools) /\ maxHops \in Nat =>
         SearchFound("dijkstra", Start, Put(<<>>, TokenIn, 0), <<>>, <<>>))'
  BY FoundAtStart, PTL
<1>4. PICK se, ag, di, ar, al :
         se = "dijkstra" /\ ag = Start /\ di = Put(<<>>, TokenIn, 0) /\ ar = <<>> /\ al = <<>>
  OBVIOUS
<1>5. SearchFound(se, ag, di, ar, al)'
  BY <1>1, <1>3, <1>4
<1>6. se = search' /\ ag = agenda' /\ di = distances' /\ ar = arrived' /\ al = allPaths'
  BY <1>1, <1>2, <1>4
<1> QED  BY <1>5, <1>6 DEF PathInv

(* A step that leaves the arguments alone and finds again. *)
LEMMA FindsOn ==
    ASSUME pools' = pools, maxHops' = maxHops, SearchFound(search', agenda', distances', arrived', allPaths')
    PROVE  PathInv'
<1>1. PICK se, ag, di, ar, al :
         /\ se = search' /\ ag = agenda' /\ di = distances' /\ ar = arrived' /\ al = allPaths'
         /\ SearchFound(se, ag, di, ar, al)
  OBVIOUS
<1>2. SearchFound(se, ag, di, ar, al)'
  BY <1>1, FoundStays
<1> QED  BY <1>1, <1>2 DEF PathInv

(* The popped node: the rest is still in order, and covers what it covered, *)
(* except the token of a node that was waiting for its own label.           *)
LEMMA PopKeepsOrder ==
    ASSUME NEW l, NEW ns, SearchOK(l, ns), NEW k \in 1 .. Len(ns)
    PROVE  /\ SearchOK(l, RemoveAt(ns, k)) /\ IsWithout(RemoveAt(ns, k), ns, k)
           /\ [labels |-> l, nodes |-> RemoveAt(ns, k)] \in Searches
<1>1. PICK rs : rs = RemoveAt(ns, k)
  OBVIOUS
<1>2. rs \in Seq(PathNodes) /\ IsWithout(rs, ns, k)
  BY <1>1, RemovedAt DEF SearchOK
<1>3. ASSUME NEW j \in 1 .. Len(rs) PROVE NodeOK(rs[j], l)
  <2>1. PICK i \in 1 .. Len(ns) : rs[j] = ns[i]
    BY <1>2 DEF IsWithout
  <2> QED  BY <2>1 DEF SearchOK
<1>4. SearchOK(l, rs)
  BY <1>2, <1>3 DEF SearchOK
<1>5. l \in Labelings
  <2>1. l \in [DOMAIN l -> Nat] /\ DOMAIN l \in SUBSET RouteTokens
    BY DEF SearchOK, LabelsOK
  <2> QED  BY <2>1 DEF Labelings
<1> QED  BY <1>1, <1>2, <1>4, <1>5 DEF Searches

LEMMA PopKeepsCovered ==
    ASSUME NEW l, NEW ns, NEW k \in 1 .. Len(ns), NEW rs, IsWithout(rs, ns, k),
           NEW X, IsCovered(X, l, ns), Here(ns[k]) # TokenOut,
           NEW Y \in SUBSET X, Here(ns[k]) \in Y => ns[k].cost # l[Here(ns[k])]
    PROVE  IsCovered(Y, l, rs)
<1> SUFFICES ASSUME NEW x \in Y \cap DOMAIN l, x # TokenOut
             PROVE  IsWaiting(x, l, rs) \/ IsSettled(x, l, rs)
  BY DEF IsCovered
<1>1. IsWaiting(x, l, ns) \/ IsSettled(x, l, ns)
  BY DEF IsCovered
<1>2. CASE IsWaiting(x, l, ns)
  <2>1. PICK i \in 1 .. Len(ns) : Here(ns[i]) = x /\ ns[i].cost = l[x]
    BY <1>2 DEF IsWaiting
  <2>2. i # k
    BY <2>1
  <2>3. PICK j \in 1 .. Len(rs) : rs[j] = ns[i]
    BY <2>2 DEF IsWithout
  <2> QED  BY <2>1, <2>3 DEF IsWaiting
<1>3. CASE IsSettled(x, l, ns)
  <2>1. ASSUME NEW u, NEW c, IsReached(u, c, l, ns) PROVE IsReached(u, c, l, rs)
    <3>1. CASE u = TokenOut
      <4>1. PICK i \in 1 .. Len(ns) : Here(ns[i]) = u /\ ns[i].cost <= c
        BY <2>1, <3>1 DEF IsReached
      <4>2. i # k
        BY <3>1, <4>1
      <4>3. PICK j \in 1 .. Len(rs) : rs[j] = ns[i]
        BY <4>2 DEF IsWithout
      <4> QED  BY <3>1, <4>1, <4>3 DEF IsReached
    <3>2. CASE u # TokenOut
      BY <2>1, <3>2 DEF IsReached
    <3> QED  BY <3>1, <3>2
  <2> QED  BY <1>3, <2>1 DEF IsSettled
<1> QED  BY <1>1, <1>2, <1>3

(* What expanding a node of the agenda leads to. *)
Expanded(l, ns, k) ==
    LET node == ns[k]
        rest == [labels |-> l, nodes |-> RemoveAt(ns, k)]
    IN IF HopsLeft(node) /\ node.cost <= l[Here(node)] THEN Relaxed(node, rest, Edges(Here(node)))
       ELSE rest

LEMMA ExpandKeeps ==
    ASSUME maxHops \in Nat, pools \in Seq(RoutePools), NEW l, NEW ns, SearchOK(l, ns),
           NEW k \in 1 .. Len(ns), ~Arrives(ns[k]),
           NEW r, r = Expanded(l, ns, k)
    PROVE  /\ SearchOK(r.labels, r.nodes)
           /\ LabelsSuffice /\ IsCovered(MidTokens, l, ns) => IsCovered(MidTokens, r.labels, r.nodes)
<1>1. PICK node, t, rs, rest :
         /\ node = ns[k] /\ t = Here(node) /\ rs = RemoveAt(ns, k)
         /\ rest = [labels |-> l, nodes |-> rs]
  OBVIOUS
<1>2. /\ SearchOK(l, rs) /\ IsWithout(rs, ns, k) /\ rest \in Searches
      /\ rest.labels = l /\ rest.nodes = rs
  BY <1>1, PopKeepsOrder
<1>3. NodeOK(node, l) /\ LabelsOK(l)
  BY <1>1 DEF SearchOK
<1>4. /\ IsWalk(node.path) /\ Last(node.path) = t /\ t \in RouteTokens /\ node.cost \in Nat
      /\ t # TokenOut => t \in DOMAIN l /\ l[t] <= node.cost
  BY <1>1, <1>3, NodeAtHere
<1>5. t # TokenOut
  <2>1. PICK n \in Nat : n = Len(node.path) /\ n <= maxHops + 1
    BY <1>4 DEF IsWalk
  <2> QED  BY <1>1, <2>1 DEF Arrives
<1>6. t \in DOMAIN l /\ l[t] <= node.cost /\ l[t] \in Nat
  BY <1>3, <1>4, <1>5 DEF LabelsOK
<1>7. CASE HopsLeft(node) /\ node.cost <= l[t]
  <2>1. node.cost = l[t] /\ r = Relaxed(node, rest, Edges(t))
    BY <1>1, <1>4, <1>6, <1>7 DEF Expanded
  <2>2. Expandable(node)
    BY <1>1, <1>5, <1>7 DEF Expandable, HopsLeft
  <2>3. /\ SearchOK(r.labels, r.nodes) /\ Improves(r.labels, r.nodes, l, rs)
        /\ IsSettled(t, r.labels, r.nodes)
    <3>1. SearchOK(rest.labels, rest.nodes) /\ NodeOK(node, rest.labels) /\ node.cost = rest.labels[Here(node)]
          /\ r = Relaxed(node, rest, Edges(Here(node))) /\ rest \in Searches
      BY <1>1, <1>2, <1>3, <2>1
    <3>2. /\ SearchOK(r.labels, r.nodes) /\ Improves(r.labels, r.nodes, rest.labels, rest.nodes)
          /\ IsSettled(Here(node), r.labels, r.nodes)
      BY <2>2, <3>1, RelaxedDoes
    <3> QED  BY <1>1, <1>2, <3>2
  <2>4. ASSUME IsCovered(MidTokens, l, ns) PROVE IsCovered(MidTokens, r.labels, r.nodes)
    <3>1. PICK Y : Y = MidTokens \ {t}
      OBVIOUS
    <3>2. IsCovered(Y, l, rs)
      BY <1>1, <1>2, <1>5, <2>4, <3>1, PopKeepsCovered
    <3>3. LabelsOK(l) /\ LabelsOK(r.labels)
      BY <1>3, <2>3 DEF SearchOK
    <3>4. IsCovered(Y, r.labels, r.nodes)
      BY <2>3, <3>2, <3>3, ImprovesCovered
    <3> QED  BY <2>3, <3>1, <3>4 DEF IsCovered
  <2> QED  BY <2>3, <2>4
<1>8. CASE ~(HopsLeft(node) /\ node.cost <= l[t])
  <2>1. r.labels = l /\ r.nodes = rs
    BY <1>1, <1>8 DEF Expanded
  <2>2. ASSUME LabelsSuffice, IsCovered(MidTokens, l, ns) PROVE IsCovered(MidTokens, l, rs)
    <3>1. t \in MidTokens => node.cost # l[t]
      <4> SUFFICES ASSUME t \in MidTokens PROVE node.cost # l[t]
        OBVIOUS
      <4>1. Len(node.path) <= maxHops
        BY <1>4, <2>2, HopsSuffice
      <4>2. ~(node.cost <= l[t])
        BY <1>8, <4>1 DEF HopsLeft
      <4> QED  BY <1>4, <1>6, <4>2
    <3>2. MidTokens \in SUBSET MidTokens
      OBVIOUS
    <3> QED  BY <1>1, <1>2, <1>5, <2>2, <3>1, <3>2, PopKeepsCovered
  <2> QED  BY <1>2, <2>1, <2>2
<1> QED  BY <1>1, <1>7, <1>8

LEMMA SearchIsWalks ==
    ASSUME NEW l, NEW ns, SearchOK(l, ns)
    PROVE  ns \in Seq(PathNodes) /\ \A j \in 1 .. Len(ns) : IsWalk(ns[j].path)
BY DEF SearchOK, NodeOK

LEMMA DijkstraExpandsKeeps ==
    ASSUME PathInv, NEW k \in DOMAIN agenda, DijkstraExpands(k) PROVE PathInv'
<1>1. PICK se, ag, di, ar, al :
         /\ se = search /\ ag = agenda /\ di = distances /\ ar = arrived /\ al = allPaths
         /\ SearchFound(se, ag, di, ar, al)
  BY DEF PathInv
<1>2. PICK ag2, di2 : ag2 = agenda' /\ di2 = distances'
  OBVIOUS
<1>3. PICK r : r = Expanded(di, ag, k)
  OBVIOUS
<1>4. /\ pools' = pools /\ maxHops' = maxHops /\ search' = search /\ arrived' = arrived
      /\ allPaths' = allPaths /\ se = "dijkstra" /\ ~Arrives(ag[k])
  BY <1>1 DEF DijkstraExpands, PopsCheapest
<1>5. ag2 = r.nodes /\ di2 = r.labels
  BY <1>1, <1>2, <1>3 DEF DijkstraExpands, Expanded
<1>6. PathsTyped(se, ag, di, ar, al) /\ al = <<>> /\ SearchOK(di, ag)
      /\ (LabelsSuffice => CheapestFirst(ag, di, ar))
  BY <1>1, <1>4 DEF SearchFound
<1>7. /\ maxHops \in Nat /\ pools \in Seq(RoutePools) /\ ag \in Seq(PathNodes) /\ k \in 1 .. Len(ag)
  BY <1>1, <1>6, LenProperties DEF PathsTyped
<1>8. /\ SearchOK(di2, ag2)
      /\ LabelsSuffice /\ IsCovered(MidTokens, di, ag) => IsCovered(MidTokens, di2, ag2)
  BY <1>3, <1>4, <1>5, <1>6, <1>7, ExpandKeeps
<1>9. LabelsSuffice => CheapestFirst(ag2, di2, ar)
  BY <1>6, <1>8 DEF CheapestFirst
<1>10. PathsTyped(se, ag2, di2, ar, al)
  BY <1>6, <1>8, SearchIsWalks DEF PathsTyped
<1>11. SearchFound(se, ag2, di2, ar, al)
  BY <1>4, <1>6, <1>8, <1>9, <1>10 DEF SearchFound
<1>12. SearchFound(search', agenda', distances', arrived', allPaths')
  BY <1>1, <1>2, <1>4, <1>11
<1> QED  BY <1>4, <1>12, FindsOn

LEMMA DijkstraArrivesKeeps ==
    ASSUME PathInv, NEW k \in DOMAIN agenda, DijkstraArrives(k) PROVE PathInv'
<1>1. PICK se, ag, di, ar, al :
         /\ se = search /\ ag = agenda /\ di = distances /\ ar = arrived /\ al = allPaths
         /\ SearchFound(se, ag, di, ar, al)
  BY DEF PathInv
<1>2. PICK ag2, ar2, p : ag2 = agenda' /\ ar2 = arrived' /\ p = ag[k].path
  OBVIOUS
<1>3. /\ pools' = pools /\ maxHops' = maxHops /\ search' = search /\ distances' = distances
      /\ allPaths' = allPaths /\ se = "dijkstra" /\ Arrives(ag[k]) /\ ar2 = Append(ar, p)
      /\ ag2 = RemoveAt(ag, k) /\ \A j \in DOMAIN ag : ag[k].cost <= ag[j].cost
  BY <1>1, <1>2 DEF DijkstraArrives, PopsCheapest
<1>4. PathsTyped(se, ag, di, ar, al) /\ al = <<>> /\ SearchOK(di, ag)
      /\ (LabelsSuffice => CheapestFirst(ag, di, ar))
  BY <1>1, <1>3 DEF SearchFound
<1>5. /\ maxHops \in Nat /\ pools \in Seq(RoutePools) /\ ag \in Seq(PathNodes) /\ DOMAIN ag = 1 .. Len(ag)
      /\ k \in 1 .. Len(ag) /\ ar \in Seq(Routes(maxHops))
  BY <1>1, <1>4, LenProperties DEF PathsTyped
<1>6. SearchOK(di, ag2)
  BY <1>3, <1>4, <1>5, PopKeepsOrder
<1>7. NodeOK(ag[k], di)
  BY <1>4, <1>5 DEF SearchOK
<1>8. p \in Routes(maxHops)
  <2>1. IsWalk(p) /\ Last(p) = TokenOut
    BY <1>2, <1>3, <1>7 DEF NodeOK, Arrives, Here
  <2> QED  BY <1>5, <2>1, WalkEndsWell
<1>9. /\ ar2 \in Seq(Routes(maxHops)) /\ ar2 # <<>>
      /\ ar = <<>> => ar2[1] = p
      /\ ar # <<>> => ar2[1] = ar[1]
  <2>1. PICK n \in Nat : n = Len(ar)
    BY <1>5, LenProperties
  <2>2. /\ ar2 \in Seq(Routes(maxHops)) /\ Len(ar2) = n + 1 /\ ar2[n + 1] = p
        /\ \A i \in 1 .. n : ar2[i] = ar[i]
    BY <1>3, <1>5, <1>8, <2>1, AppendProperties
  <2>3. ar = <<>> <=> n = 0
    BY <1>5, <2>1, EmptySeq
  <2>4. ar2 # <<>>
    BY <2>1, <2>2
  <2> QED  BY <2>1, <2>2, <2>3, <2>4
<1>10. ASSUME LabelsSuffice PROVE CheapestFirst(ag2, di, ar2)
  <2>1. ASSUME NEW r \in Routes(maxHops) PROVE RouteCost(ar2[1]) <= RouteCost(r)
    <3>1. CASE ar = <<>>
      <4>1. IsCovered(MidTokens, di, ag)
        BY <1>4, <1>10, <3>1 DEF CheapestFirst
      <4>2. PICK j \in 1 .. Len(ag) : ag[j].cost <= RouteCost(r)
        BY <1>4, <1>5, <4>1, AgendaIsAhead
      <4>3. RouteCost(p) <= ag[k].cost /\ ag[k].cost <= ag[j].cost
        BY <1>2, <1>3, <1>5, <1>7 DEF NodeOK
      <4>4. ag[k].cost \in Nat /\ ag[j].cost \in Nat
        BY <1>4, <1>7 DEF SearchOK, NodeOK, PathNodes
      <4>5. RouteCost(p) \in Nat /\ RouteCost(r) \in Nat
        <5>1. ASSUME NEW q \in Routes(maxHops) PROVE RouteCost(q) \in Nat
          <6>1. q \in Seq(RouteTokens) /\ Linked(q) /\ Len(q) > 0
            BY <1>5, RoutesAre, LenProperties DEF IsRoute, IsWalk
          <6> QED  BY <1>5, <6>1, CostsRise
        <5> QED  BY <1>8, <5>1
      <4> QED  BY <1>9, <3>1, <4>2, <4>3, <4>4, <4>5
    <3>2. CASE ar # <<>>
      BY <1>4, <1>9, <1>10, <3>2 DEF CheapestFirst
    <3> QED  BY <3>1, <3>2
  <2> QED  BY <1>9, <2>1 DEF CheapestFirst
<1>11. PathsTyped(se, ag2, di, ar2, al)
  BY <1>3, <1>4, <1>6, <1>9, SearchIsWalks DEF PathsTyped
<1>12. SearchFound(se, ag2, di, ar2, al)
  BY <1>3, <1>4, <1>6, <1>10, <1>11 DEF SearchFound
<1>13. SearchFound(search', agenda', distances', arrived', allPaths')
  BY <1>1, <1>2, <1>3, <1>12
<1> QED  BY <1>3, <1>13, FindsOn

(* A new search starts over with the results so far. *)
LEMMA StartsOver ==
    ASSUME maxHops \in Nat
    PROVE  ShortestFirst(Start, <<>>) /\ <<>> \in Seq(Routes(maxHops)) /\ Start \in Seq(PathNodes)
           /\ \A j \in 1 .. Len(Start) : IsWalk(Start[j].path)
<1>1. PICK ns : ns = Start
  OBVIOUS
<1>2. /\ ns \in Seq(PathNodes) /\ Len(ns) = 1 /\ ns[1].path = <<TokenIn>> /\ IsWalk(<<TokenIn>>)
      /\ \A r \in Routes(maxHops) : Begins(<<TokenIn>>, r)
  BY <1>1, StartIsWalk
<1>3. \A j \in 1 .. Len(ns) : ns[j].path = <<TokenIn>>
  BY <1>2
<1>4. IsFrontier(ns)
  BY <1>3 DEF IsFrontier
<1>5. 1 \in 1 .. Len(ns)
  BY <1>2
<1>6. ShortestFirst(ns, <<>>)
  BY <1>2, <1>4, <1>5 DEF ShortestFirst
<1> QED  BY <1>1, <1>2, <1>3, <1>6

LEMMA DijkstraEndsKeeps == ASSUME PathInv, DijkstraEnds PROVE PathInv'
<1>1. PICK se, ag, di, ar, al :
         /\ se = search /\ ag = agenda /\ di = distances /\ ar = arrived /\ al = allPaths
         /\ SearchFound(se, ag, di, ar, al)
  BY DEF PathInv
<1>2. /\ pools' = pools /\ maxHops' = maxHops /\ se = "dijkstra" /\ distances' = distances
      /\ arrived' = <<>> /\ (ag = <<>> \/ Len(ar) = 3)
  BY <1>1 DEF DijkstraEnds
<1>3. PathsTyped(se, ag, di, ar, al) /\ al = <<>> /\ SearchOK(di, ag)
      /\ (LabelsSuffice => CheapestFirst(ag, di, ar))
  BY <1>1, <1>2 DEF SearchFound
<1>4. maxHops \in Nat /\ pools \in Seq(RoutePools) /\ ar \in Seq(Routes(maxHops))
  BY <1>3 DEF PathsTyped
<1>5. CASE ar = <<>>
  <2>1. search' = "failed" /\ agenda' = ag /\ allPaths' = al /\ ag = <<>>
    BY <1>1, <1>2, <1>5 DEF DijkstraEnds
  <2>2. ASSUME LabelsSuffice, NEW r \in Routes(maxHops) PROVE FALSE
    <3>1. IsCovered(MidTokens, di, ag)
      BY <1>3, <1>5, <2>2 DEF CheapestFirst
    <3>2. \E j \in 1 .. Len(ag) : ag[j].cost <= RouteCost(r)
      BY <1>3, <1>4, <3>1, AgendaIsAhead
    <3>3. \A j \in 1 .. Len(ag) : FALSE
      BY <2>1
    <3> QED  BY <3>2, <3>3
  <2>3. PathsTyped("failed", ag, di, <<>>, al)
    BY <1>3, <1>5 DEF PathsTyped
  <2>4. SearchFound("failed", ag, di, <<>>, al)
    BY <2>2, <2>3 DEF SearchFound
  <2>5. SearchFound(search', agenda', distances', arrived', allPaths')
    BY <1>1, <1>2, <2>1, <2>4
  <2> QED  BY <1>2, <2>5, FindsOn
<1>6. CASE ar # <<>>
  <2>1. search' = "bfs" /\ agenda' = Start /\ allPaths' = ar
    BY <1>1, <1>2, <1>6 DEF DijkstraEnds
  <2>2. PathsTyped("bfs", Start, di, <<>>, ar)
    BY <1>3, <1>4, StartsOver DEF PathsTyped
  <2>3. SearchFound("bfs", Start, di, <<>>, ar)
    BY <1>4, <2>2, StartsOver DEF SearchFound
  <2>4. SearchFound(search', agenda', distances', arrived', allPaths')
    BY <1>1, <1>2, <2>1, <2>3
  <2> QED  BY <1>2, <2>4, FindsOn
<1> QED  BY <1>5, <1>6

(* Extensions: the walks of one token more, to every neighbour not met.     *)
Extends1(q, node) ==
    \E u \in RouteTokens : /\ q.path = Append(node.path, u) /\ Between(Here(node), u) # {}
                           /\ ~Contains(node.path, u)

ExtendsAll(xs, node) ==
    /\ xs \in Seq(PathNodes) /\ \A j \in 1 .. Len(xs) : Extends1(xs[j], node)
    /\ xs # <<>> => HopsLeft(node)
    /\ HopsLeft(node) => \A u \in RouteTokens : Between(Here(node), u) # {} /\ ~Contains(node.path, u) =>
                            \E j \in 1 .. Len(xs) : xs[j].path = Append(node.path, u)

LEMMA ExtensionsAre ==
    ASSUME pools \in Seq(RoutePools), NEW node \in PathNodes, Here(node) \in RouteTokens
    PROVE  ExtendsAll(Extensions(node), node)
<1>1. PICK xs, t : xs = Extensions(node) /\ t = Here(node)
  OBVIOUS
<1>2. CASE ~HopsLeft(node)
  <2>1. xs = <<>>
    BY <1>1, <1>2 DEF Extensions
  <2>2. xs \in Seq(PathNodes) /\ \A j \in 1 .. Len(xs) : FALSE
    BY <2>1
  <2> QED  BY <1>1, <1>2, <2>1, <2>2 DEF ExtendsAll
<1>3. CASE HopsLeft(node)
  <2>1. PICK all : all = Edges(t)
    OBVIOUS
  <2>2. EdgesOf(all, t) /\ all \in Seq(PathEdges)
    BY <1>1, <2>1, EdgesAre DEF EdgesOf
  <2>3. PICK m \in Nat : m = Len(all) /\ DOMAIN all = 1 .. m
    BY <2>2, LenProperties
  <2>4. PICK K : K = {k \in DOMAIN all : ~Contains(node.path, all[k].to)}
    OBVIOUS
  <2>5. PICK es : es = Retained(all, K)
    OBVIOUS
  <2>6. es \in Seq(PathEdges)
    BY <2>2, <2>5, RetainedIs
  <2>7. PICK where : PickedAt(where, es, all, K, Len(all))
    BY <2>2, <2>5, RetainedIs
  <2>8. PICK n \in Nat : n = Len(es) /\ DOMAIN es = 1 .. n
    BY <2>6, LenProperties
  <2>9. /\ \A j \in 1 .. n : where[j] \in K /\ es[j] = all[where[j]]
        /\ \A i \in K : \E j \in 1 .. n : where[j] = i
    <3>1. K \cap (1 .. Len(all)) = K
      BY <2>3, <2>4
    <3> QED  BY <2>7, <2>8, <3>1 DEF PickedAt
  <2>10. xs = [k \in 1 .. n |-> [path |-> Append(node.path, es[k].to), cost |-> 0]]
    BY <1>1, <1>3, <2>1, <2>4, <2>5, <2>8 DEF Extensions
  <2>11. ASSUME NEW j \in 1 .. n PROVE xs[j] \in PathNodes /\ Extends1(xs[j], node)
    <3>1. PICK u : u = es[j].to
      OBVIOUS
    <3>2. xs[j] = [path |-> Append(node.path, u), cost |-> 0]
      BY <2>10, <3>1
    <3>3. u \in RouteTokens
      <4>1. es[j] \in PathEdges
        BY <2>6, <2>8, ElementOfSeq
      <4> QED  BY <3>1, <4>1 DEF PathEdges
    <3>4. Append(node.path, u) \in Seq(RouteTokens)
      <4>1. node.path \in Seq(RouteTokens)
        BY DEF PathNodes
      <4> QED  BY <3>3, <4>1, AppendProperties
    <3>5. where[j] \in 1 .. m /\ all[where[j]].to = u /\ ~Contains(node.path, u)
      BY <2>3, <2>4, <2>9, <3>1
    <3>6. Between(t, u) # {}
      BY <2>2, <2>3, <3>5 DEF EdgesOf
    <3> QED  BY <1>1, <3>2, <3>3, <3>4, <3>5, <3>6 DEF PathNodes, Extends1
  <2>12. xs \in Seq(PathNodes) /\ Len(xs) = n
    BY <2>10, <2>11
  <2>13. ASSUME NEW u \in RouteTokens, Between(t, u) # {}, ~Contains(node.path, u)
         PROVE  \E j \in 1 .. n : xs[j].path = Append(node.path, u)
    <3>1. PICK i \in Between(t, u) : TRUE
      BY <2>13
    <3>2. PICK k \in 1 .. m : all[k].to = u
      BY <2>2, <2>3 DEF EdgesOf
    <3>3. k \in K
      BY <2>3, <2>4, <2>13, <3>2
    <3>4. PICK j \in 1 .. n : where[j] = k
      BY <2>9, <3>3
    <3>5. es[j].to = u
      BY <2>9, <3>2, <3>4
    <3> QED  BY <2>10, <3>5
  <2> QED  BY <1>1, <1>3, <2>11, <2>12, <2>13 DEF ExtendsAll
<1> QED  BY <1>2, <1>3

LEMMA FrontTaken ==
    ASSUME NEW S, NEW s \in Seq(S), s # <<>>
    PROVE  /\ Head(s) = s[1] /\ Head(s) \in S /\ 1 \in 1 .. Len(s)
           /\ Tail(s) \in Seq(S) /\ Len(Tail(s)) = Len(s) - 1
           /\ \A i \in 1 .. Len(s) - 1 : Tail(s)[i] = s[i + 1] /\ i + 1 \in 1 .. Len(s)
<1>1. PICK n \in Nat : n = Len(s) /\ n # 0
  BY LenProperties, EmptySeq
<1>2. Head(s) = s[1] /\ Tail(s) \in Seq(S) /\ Len(Tail(s)) = n - 1 /\ \A i \in 1 .. n - 1 : Tail(s)[i] = s[i + 1]
  BY <1>1
<1>3. 1 \in 1 .. n /\ \A i \in 1 .. n - 1 : i + 1 \in 1 .. n
  BY <1>1
<1>4. s[1] \in S
  BY <1>1, <1>3, ElementOfSeq
<1> QED  BY <1>1, <1>2, <1>3, <1>4

(* w is s and then t. *)
IsBoth(w, s, t) ==
    /\ Len(w) = Len(s) + Len(t)
    /\ \A i \in 1 .. Len(w) : \/ i \in 1 .. Len(s) /\ w[i] = s[i]
                              \/ i - Len(s) \in 1 .. Len(t) /\ w[i] = t[i - Len(s)]
    /\ \A i \in 1 .. Len(s) : \E j \in 1 .. Len(w) : w[j] = s[i]
    /\ \A i \in 1 .. Len(t) : \E j \in 1 .. Len(w) : w[j] = t[i]

LEMMA TwoTogether ==
    ASSUME NEW S, NEW s \in Seq(S), NEW t \in Seq(S)
    PROVE  s \o t \in Seq(S) /\ IsBoth(s \o t, s, t)
<1>0. PICK w : w = s \o t
  OBVIOUS
<1>1. PICK m \in Nat : m = Len(s)
  BY LenProperties
<1>2. PICK n \in Nat : n = Len(t)
  BY LenProperties
<1>3. /\ w \in Seq(S) /\ Len(w) = m + n
      /\ \A i \in 1 .. m + n : w[i] = IF i <= m THEN s[i] ELSE t[i - m]
  BY <1>0, <1>1, <1>2, ConcatProperties
<1>4. ASSUME NEW i \in 1 .. m + n
      PROVE  \/ i \in 1 .. m /\ w[i] = s[i]
             \/ i - m \in 1 .. n /\ w[i] = t[i - m]
  BY <1>3
<1>5. ASSUME NEW i \in 1 .. m PROVE \E j \in 1 .. m + n : w[j] = s[i]
  <2>1. i \in 1 .. m + n /\ i <= m
    OBVIOUS
  <2>2. w[i] = s[i]
    BY <1>3, <2>1
  <2> QED  BY <2>1, <2>2
<1>6. ASSUME NEW i \in 1 .. n PROVE \E j \in 1 .. m + n : w[j] = t[i]
  <2>1. m + i \in 1 .. m + n /\ ~(m + i <= m) /\ (m + i) - m = i
    OBVIOUS
  <2> QED  BY <1>3, <2>1
<1> QED  BY <1>0, <1>1, <1>2, <1>3, <1>4, <1>5, <1>6 DEF IsBoth

LEMMA WalkArrivesKeeps == ASSUME PathInv, WalkArrives PROVE PathInv'
<1>1. PICK se, ag, di, ar, al :
         /\ se = search /\ ag = agenda /\ di = distances /\ ar = arrived /\ al = allPaths
         /\ SearchFound(se, ag, di, ar, al)
  BY DEF PathInv
<1>2. PICK ag2, ar2, p : ag2 = Tail(ag) /\ p = ag[1].path /\ ar2 = Append(ar, p)
  OBVIOUS
<1>3. PathsTyped(se, ag, di, ar, al)
  BY <1>1 DEF SearchFound
<1>4. /\ maxHops \in Nat /\ ag \in Seq(PathNodes) /\ ar \in Seq(Routes(maxHops))
      /\ \A j \in 1 .. Len(ag) : IsWalk(ag[j].path)
  BY <1>3 DEF PathsTyped
<1>5. ag # <<>> /\ Len(ar) < Limit /\ Here(Head(ag)) = TokenOut
  BY <1>1 DEF WalkArrives
<1>6. /\ Head(ag) = ag[1] /\ 1 \in 1 .. Len(ag) /\ ag2 \in Seq(PathNodes) /\ Len(ag2) = Len(ag) - 1
      /\ \A i \in 1 .. Len(ag) - 1 : ag2[i] = ag[i + 1] /\ i + 1 \in 1 .. Len(ag)
  BY <1>2, <1>4, <1>5, FrontTaken
<1>7. PICK m \in Nat : m = Len(ag) - 1 /\ Len(ag) = m + 1
  BY <1>4, <1>6, LenProperties
<1>8. PICK n \in Nat : n = Len(ar)
  BY <1>4, LenProperties
<1>9. /\ pools' = pools /\ maxHops' = maxHops /\ search' = se /\ agenda' = ag2 /\ distances' = di
      /\ arrived' = ar2 /\ allPaths' = al
  BY <1>1, <1>2, <1>6 DEF WalkArrives
<1>10. se = "bfs" \/ se = "dfs"
  <2>1. Limit # 0
    BY <1>5, <1>8
  <2> QED  BY <1>1, <2>1 DEF Limit
<1>11. p \in Routes(maxHops)
  <2>1. IsWalk(p) /\ Last(p) = TokenOut
    BY <1>2, <1>4, <1>5, <1>6 DEF Here
  <2> QED  BY <1>4, <2>1, WalkEndsWell
<1>12. /\ ar2 \in Seq(Routes(maxHops)) /\ ar2 # <<>>
       /\ ar = <<>> => ar2[1] = p
       /\ ar # <<>> => ar2[1] = ar[1]
  <2>1. /\ ar2 \in Seq(Routes(maxHops)) /\ Len(ar2) = n + 1 /\ ar2[n + 1] = p
        /\ \A i \in 1 .. n : ar2[i] = ar[i]
    BY <1>2, <1>4, <1>8, <1>11, AppendProperties
  <2>2. ar = <<>> <=> n = 0
    BY <1>4, <1>8, EmptySeq
  <2>3. ar2 # <<>>
    BY <2>1
  <2> QED  BY <2>1, <2>2, <2>3
<1>13. PathsTyped(se, ag2, di, ar2, al)
  <2>1. \A j \in 1 .. Len(ag2) : IsWalk(ag2[j].path)
    BY <1>4, <1>6
  <2> QED  BY <1>3, <1>6, <1>10, <1>12, <2>1 DEF PathsTyped
<1>14. ASSUME se = "bfs" PROVE ShortestFirst(ag2, ar2)
  <2>1. ShortestFirst(ag, ar)
    BY <1>1, <1>14 DEF SearchFound
  <2>2. IsFrontier(ag)
    BY <2>1 DEF ShortestFirst
  <2>3. IsFrontier(ag2)
    <3>1. ASSUME NEW i \in 1 .. m, NEW j \in 1 .. m, i <= j
          PROVE  Len(ag2[i].path) <= Len(ag2[j].path) /\ Len(ag2[j].path) <= Len(ag2[i].path) + 1
      <4>1. ag2[i] = ag[i + 1] /\ ag2[j] = ag[j + 1] /\ i + 1 \in 1 .. Len(ag) /\ j + 1 \in 1 .. Len(ag)
        BY <1>6, <1>7
      <4>2. i + 1 <= j + 1
        BY <3>1
      <4> QED  BY <2>2, <4>1, <4>2 DEF IsFrontier
    <3> QED  BY <1>6, <1>7, <3>1 DEF IsFrontier
  <2>4. ASSUME NEW r \in Routes(maxHops) PROVE Len(ar2[1]) <= Len(r)
    <3>1. CASE ar = <<>>
      <4>1. PICK j \in 1 .. Len(ag) : Begins(ag[j].path, r)
        BY <2>1, <3>1 DEF ShortestFirst
      <4>2. Len(ag[1].path) <= Len(ag[j].path)
        <5>1. 1 <= j
          BY <1>7
        <5> QED  BY <1>6, <2>2, <5>1 DEF IsFrontier
      <4>3. Len(ag[j].path) <= Len(r)
        BY <4>1 DEF Begins
      <4>4. /\ IsWalk(ag[1].path) /\ IsWalk(ag[j].path) /\ IsWalk(r)
        BY <1>4, <1>6, RoutesAre DEF IsRoute
      <4>5. \A q : IsWalk(q) => Len(q) \in Nat
        BY LenProperties DEF IsWalk
      <4>6. Len(ag[1].path) \in Nat /\ Len(ag[j].path) \in Nat /\ Len(r) \in Nat
        BY <4>4, <4>5
      <4>7. Len(p) <= Len(r)
        BY <1>2, <4>2, <4>3, <4>6
      <4> QED  BY <1>12, <3>1, <4>7
    <3>2. CASE ar # <<>>
      BY <1>12, <2>1, <3>2 DEF ShortestFirst
    <3> QED  BY <3>1, <3>2
  <2> QED  BY <1>12, <2>3, <2>4 DEF ShortestFirst
<1>15. se = "dfs" => HasShortest(al)
  BY <1>1 DEF SearchFound
<1>16. SearchFound(se, ag2, di, ar2, al)
  BY <1>10, <1>13, <1>14, <1>15 DEF SearchFound
<1>17. SearchFound(search', agenda', distances', arrived', allPaths')
  BY <1>9, <1>16
<1> QED  BY <1>9, <1>17, FindsOn

(* A walk that begins a route and has not arrived goes on in its extensions. *)
LEMMA BeginsOn ==
    ASSUME maxHops \in Nat, NEW node, IsWalk(node.path), Here(node) # TokenOut,
           NEW r \in Routes(maxHops), Begins(node.path, r),
           NEW xs, ExtendsAll(xs, node)
    PROVE  \E j \in 1 .. Len(xs) : Begins(xs[j].path, r)
<1>1. PICK p : p = node.path
  OBVIOUS
<1>2. PICK m \in Nat : m = Len(p) /\ m >= 1 /\ p \in Seq(RouteTokens) /\ Last(p) = p[m] /\ p[m] = Here(node)
  BY <1>1, LenProperties DEF IsWalk, Last, Here
<1>3. IsWalk(r) /\ Last(r) = TokenOut
  BY RoutesAre DEF IsRoute
<1>4. PICK n \in Nat : /\ n = Len(r) /\ n <= maxHops + 1 /\ r \in Seq(RouteTokens) /\ r[n] = TokenOut
                       /\ Linked(r) /\ \A i, j \in 1 .. n : r[i] = r[j] => i = j
  BY <1>3, LenProperties DEF IsWalk, Last
<1>5. m <= n /\ \A i \in 1 .. m : p[i] = r[i]
  BY <1>1, <1>2, <1>4 DEF Begins
<1>6. m < n /\ m \in 1 .. m /\ m \in 1 .. n - 1 /\ m + 1 \in 1 .. n
  <2>1. m \in 1 .. m
    BY <1>2
  <2>2. m # n
    BY <1>2, <1>4, <1>5, <2>1
  <2> QED  BY <1>2, <1>5, <2>1, <2>2
<1>7. HopsLeft(node)
  BY <1>1, <1>2, <1>4, <1>6 DEF HopsLeft
<1>8. PICK u \in RouteTokens : u = r[m + 1]
  BY <1>4, <1>6, ElementOfSeq
<1>9. Between(Here(node), u) # {}
  BY <1>2, <1>4, <1>5, <1>6, <1>8 DEF Linked
<1>10. ~Contains(p, u)
  <2> SUFFICES ASSUME NEW i \in 1 .. m, p[i] = u PROVE FALSE
    BY <1>2 DEF Contains
  <2>1. i \in 1 .. n /\ r[i] = r[m + 1] /\ i # m + 1
    BY <1>5, <1>6, <1>8
  <2> QED  BY <1>4, <1>6, <2>1
<1>11. PICK j \in 1 .. Len(xs) : xs[j].path = Append(p, u)
  BY <1>1, <1>7, <1>9, <1>10 DEF ExtendsAll
<1>12. PICK q : q = Append(p, u)
  OBVIOUS
<1>13. Len(q) = m + 1 /\ q[m + 1] = u /\ \A i \in 1 .. m : q[i] = p[i]
  BY <1>2, <1>12, AppendProperties
<1>14. ASSUME NEW i \in 1 .. m + 1 PROVE q[i] = r[i]
  <2>1. CASE i = m + 1
    BY <1>8, <1>13, <2>1
  <2>2. CASE i # m + 1
    <3>1. i \in 1 .. m
      BY <2>2
    <3> QED  BY <1>5, <1>13, <3>1
  <2> QED  BY <2>1, <2>2
<1>15. Begins(q, r)
  BY <1>4, <1>6, <1>13, <1>14 DEF Begins
<1> QED  BY <1>11, <1>12, <1>15

LEMMA ExtensionsWalk ==
    ASSUME maxHops \in Nat, pools \in Seq(RoutePools), NEW node, IsWalk(node.path), Here(node) # TokenOut,
           NEW xs, ExtendsAll(xs, node), NEW j \in 1 .. Len(xs)
    PROVE  IsWalk(xs[j].path) /\ Len(xs[j].path) = Len(node.path) + 1
<1>1. PICK u \in RouteTokens : /\ xs[j].path = Append(node.path, u) /\ Between(Here(node), u) # {}
                               /\ ~Contains(node.path, u)
  BY DEF ExtendsAll, Extends1
<1>2. xs # <<>>
  BY DEF ExtendsAll
<1>3. Len(node.path) <= maxHops
  BY <1>2 DEF ExtendsAll, HopsLeft
<1>4. IsWalk(Append(node.path, u)) /\ Grown(Append(node.path, u), node.path, u)
  BY <1>1, <1>3, WalkGrows DEF Here
<1> QED  BY <1>1, <1>4 DEF Grown

LEMMA ExpandedFrontier ==
    ASSUME NEW ag \in Seq(PathNodes), ag # <<>>, IsFrontier(ag), \A j \in 1 .. Len(ag) : IsWalk(ag[j].path),
           NEW xs \in Seq(PathNodes),
           \A j \in 1 .. Len(xs) : Len(xs[j].path) = Len(ag[1].path) + 1
    PROVE  IsFrontier(Tail(ag) \o xs)
<1>1. PICK tl, w : tl = Tail(ag) /\ w = Tail(ag) \o xs
  OBVIOUS
<1>2. /\ 1 \in 1 .. Len(ag) /\ tl \in Seq(PathNodes) /\ Len(tl) = Len(ag) - 1
      /\ \A i \in 1 .. Len(ag) - 1 : tl[i] = ag[i + 1] /\ i + 1 \in 1 .. Len(ag)
  BY <1>1, FrontTaken
<1>3. PICK m \in Nat : m = Len(tl) /\ m = Len(ag) - 1
  BY <1>2, LenProperties
<1>4. PICK h \in Nat : h = Len(ag[1].path)
  BY <1>2, LenProperties DEF IsWalk
<1>5. ASSUME NEW i \in 1 .. m
      PROVE  Len(tl[i].path) \in Nat /\ h <= Len(tl[i].path) /\ Len(tl[i].path) <= h + 1
  <2>1. tl[i] = ag[i + 1] /\ i + 1 \in 1 .. Len(ag) /\ 1 <= i + 1
    BY <1>2, <1>3
  <2>2. Len(ag[i + 1].path) \in Nat
    BY <2>1, LenProperties DEF IsWalk
  <2> QED  BY <1>2, <1>4, <2>1, <2>2 DEF IsFrontier
<1>6. /\ Len(w) = m + Len(xs)
      /\ \A i \in 1 .. Len(w) : \/ i \in 1 .. m /\ w[i] = tl[i]
                                \/ i - m \in 1 .. Len(xs) /\ w[i] = xs[i - m]
  <2>1. w \in Seq(PathNodes) /\ IsBoth(w, tl, xs)
    BY <1>1, <1>2, TwoTogether
  <2> QED  BY <1>3, <2>1 DEF IsBoth
<1>7. PICK n \in Nat : n = Len(xs)
  BY LenProperties
<1>8. ASSUME NEW i \in 1 .. m + n, NEW j \in 1 .. m + n, i <= j
      PROVE  Len(w[i].path) <= Len(w[j].path) /\ Len(w[j].path) <= Len(w[i].path) + 1
  <2>1. CASE i \in 1 .. m /\ j \in 1 .. m
    <3>1. w[i] = tl[i] /\ w[j] = tl[j]
      BY <1>6, <1>7, <2>1
    <3>2. tl[i] = ag[i + 1] /\ tl[j] = ag[j + 1] /\ i + 1 \in 1 .. Len(ag) /\ j + 1 \in 1 .. Len(ag)
      BY <1>2, <1>3, <2>1
    <3>3. i + 1 <= j + 1
      BY <1>8
    <3> QED  BY <3>1, <3>2, <3>3 DEF IsFrontier
  <2>2. CASE i \in 1 .. m /\ ~(j \in 1 .. m)
    <3>1. w[i] = tl[i] /\ j - m \in 1 .. n /\ w[j] = xs[j - m]
      BY <1>6, <1>7, <2>2
    <3>2. Len(w[j].path) = h + 1
      BY <1>4, <1>7, <3>1
    <3>3. Len(tl[i].path) \in Nat /\ h <= Len(tl[i].path) /\ Len(tl[i].path) <= h + 1
      BY <1>5, <2>2
    <3> QED  BY <3>1, <3>2, <3>3
  <2>3. CASE ~(i \in 1 .. m)
    <3>1. ~(j \in 1 .. m)
      BY <1>8, <2>3
    <3>2. i - m \in 1 .. n /\ w[i] = xs[i - m] /\ j - m \in 1 .. n /\ w[j] = xs[j - m]
      BY <1>6, <1>7, <2>3, <3>1
    <3>3. Len(w[i].path) = h + 1 /\ Len(w[j].path) = h + 1
      BY <1>4, <1>7, <3>2
    <3> QED  BY <3>3
  <2> QED  BY <2>1, <2>2, <2>3
<1>9. IsFrontier(w)
  BY <1>6, <1>7, <1>8 DEF IsFrontier
<1> QED  BY <1>1, <1>9

LEMMA WalkExpandsKeeps == ASSUME PathInv, WalkExpands PROVE PathInv'
<1>1. PICK se, ag, di, ar, al :
         /\ se = search /\ ag = agenda /\ di = distances /\ ar = arrived /\ al = allPaths
         /\ SearchFound(se, ag, di, ar, al)
  BY DEF PathInv
<1>2. PICK tl, xs, node : tl = Tail(ag) /\ xs = Extensions(ag[1]) /\ node = ag[1]
  OBVIOUS
<1>3. PathsTyped(se, ag, di, ar, al)
  BY <1>1 DEF SearchFound
<1>4. /\ maxHops \in Nat /\ pools \in Seq(RoutePools) /\ ag \in Seq(PathNodes)
      /\ ar \in Seq(Routes(maxHops)) /\ \A j \in 1 .. Len(ag) : IsWalk(ag[j].path)
  BY <1>3 DEF PathsTyped
<1>5. ag # <<>> /\ Len(ar) < Limit /\ Here(Head(ag)) # TokenOut
  BY <1>1 DEF WalkExpands
<1>6. /\ Head(ag) = node /\ node \in PathNodes /\ 1 \in 1 .. Len(ag) /\ tl \in Seq(PathNodes)
      /\ Len(tl) = Len(ag) - 1
      /\ \A i \in 1 .. Len(ag) - 1 : tl[i] = ag[i + 1] /\ i + 1 \in 1 .. Len(ag)
  BY <1>2, <1>4, <1>5, FrontTaken
<1>7. IsWalk(node.path) /\ Here(node) # TokenOut
  BY <1>2, <1>4, <1>5, <1>6
<1>8. Here(node) \in RouteTokens
  <2>1. PICK m \in Nat : m = Len(node.path) /\ m >= 1 /\ node.path \in Seq(RouteTokens) /\ Here(node) = node.path[m]
    BY <1>7, LenProperties DEF IsWalk, Here, Last
  <2> QED  BY <2>1, ElementOfSeq
<1>9. ExtendsAll(xs, node) /\ xs \in Seq(PathNodes)
  BY <1>2, <1>4, <1>6, <1>8, ExtensionsAre DEF ExtendsAll
<1>10. \A j \in 1 .. Len(xs) : IsWalk(xs[j].path) /\ Len(xs[j].path) = Len(node.path) + 1
  BY <1>4, <1>7, <1>9, ExtensionsWalk
<1>11. \A j \in 1 .. Len(tl) : IsWalk(tl[j].path)
  BY <1>4, <1>6
<1>12. se = "bfs" \/ se = "dfs"
  <2>1. Limit # 0
    BY <1>4, <1>5, LenProperties
  <2> QED  BY <1>1, <2>1 DEF Limit
<1>13. /\ pools' = pools /\ maxHops' = maxHops /\ search' = se /\ distances' = di
       /\ arrived' = ar /\ allPaths' = al
       /\ agenda' = IF se = "bfs" THEN tl \o xs ELSE xs \o tl
  BY <1>1, <1>2, <1>6 DEF WalkExpands
<1>14. ASSUME NEW w, w = tl \o xs \/ w = xs \o tl
       PROVE  w \in Seq(PathNodes) /\ \A i \in 1 .. Len(w) : IsWalk(w[i].path)
  <2>1. CASE w = tl \o xs
    <3>1. /\ w \in Seq(PathNodes)
          /\ \A i \in 1 .. Len(w) : \/ i \in 1 .. Len(tl) /\ w[i] = tl[i]
                                    \/ i - Len(tl) \in 1 .. Len(xs) /\ w[i] = xs[i - Len(tl)]
      <4>1. w \in Seq(PathNodes) /\ IsBoth(w, tl, xs)
        BY <1>6, <1>9, <2>1, TwoTogether
      <4> QED  BY <4>1 DEF IsBoth
    <3> QED  BY <1>10, <1>11, <3>1
  <2>2. CASE w = xs \o tl
    <3>1. /\ w \in Seq(PathNodes)
          /\ \A i \in 1 .. Len(w) : \/ i \in 1 .. Len(xs) /\ w[i] = xs[i]
                                    \/ i - Len(xs) \in 1 .. Len(tl) /\ w[i] = tl[i - Len(xs)]
      <4>1. w \in Seq(PathNodes) /\ IsBoth(w, xs, tl)
        BY <1>6, <1>9, <2>2, TwoTogether
      <4> QED  BY <4>1 DEF IsBoth
    <3> QED  BY <1>10, <1>11, <3>1
  <2> QED  BY <1>14, <2>1, <2>2
<1>15. PICK w : w = agenda' /\ w = IF se = "bfs" THEN tl \o xs ELSE xs \o tl
  BY <1>13
<1>16. PathsTyped(se, w, di, ar, al)
  <2>1. w \in Seq(PathNodes) /\ \A i \in 1 .. Len(w) : IsWalk(w[i].path)
    BY <1>14, <1>15
  <2> QED  BY <1>3, <2>1 DEF PathsTyped
<1>17. ASSUME se = "bfs" PROVE ShortestFirst(w, ar)
  <2>1. w = tl \o xs /\ ShortestFirst(ag, ar) /\ IsFrontier(ag)
    BY <1>1, <1>15, <1>17 DEF SearchFound, ShortestFirst
  <2>2. IsFrontier(w)
    BY <1>2, <1>4, <1>5, <1>9, <1>10, <2>1, ExpandedFrontier
  <2>3. ASSUME ar = <<>>, NEW r \in Routes(maxHops) PROVE \E j \in 1 .. Len(w) : Begins(w[j].path, r)
    <3>1. PICK j \in 1 .. Len(ag) : Begins(ag[j].path, r)
      BY <2>1, <2>3 DEF ShortestFirst
    <3>2. /\ \A i \in 1 .. Len(tl) : \E k \in 1 .. Len(w) : w[k] = tl[i]
          /\ \A i \in 1 .. Len(xs) : \E k \in 1 .. Len(w) : w[k] = xs[i]
      <4>1. tl \in Seq(PathNodes) /\ xs \in Seq(PathNodes) /\ w = tl \o xs
        BY <1>6, <1>9, <2>1
      <4>2. IsBoth(w, tl, xs)
        BY <4>1, TwoTogether
      <4> QED  BY <4>2 DEF IsBoth
    <3>3. CASE j = 1
      <4>1. PICK i \in 1 .. Len(xs) : Begins(xs[i].path, r)
        BY <1>2, <1>4, <1>7, <1>9, <3>1, <3>3, BeginsOn
      <4>2. PICK k \in 1 .. Len(w) : w[k] = xs[i]
        BY <3>2
      <4> QED  BY <4>1, <4>2
    <3>4. CASE j # 1
      <4>1. PICK n \in Nat : n = Len(ag)
        BY <1>4, LenProperties
      <4>2. PICK i \in 1 .. n - 1 : i + 1 = j
        <5>1. j - 1 \in 1 .. n - 1 /\ (j - 1) + 1 = j
          BY <3>4, <4>1
        <5> QED  BY <5>1
      <4>3. tl[i] = ag[j] /\ i \in 1 .. Len(tl)
        BY <1>6, <4>1, <4>2
      <4>4. PICK k \in 1 .. Len(w) : w[k] = tl[i]
        BY <3>2, <4>3
      <4> QED  BY <3>1, <4>3, <4>4
    <3> QED  BY <3>3, <3>4
  <2> QED  BY <2>1, <2>2, <2>3 DEF ShortestFirst
<1>18. se = "dfs" => HasShortest(al)
  BY <1>1 DEF SearchFound
<1>19. SearchFound(se, w, di, ar, al)
  BY <1>12, <1>16, <1>17, <1>18 DEF SearchFound
<1>20. SearchFound(search', agenda', distances', arrived', allPaths')
  BY <1>13, <1>15, <1>19
<1> QED  BY <1>13, <1>20, FindsOn

(* The result: each path once, one of the fewest hops first. *)
LEMMA DeduplicatedIs ==
    ASSUME NEW S, NEW ps \in Seq(S), \A k \in 1 .. Len(ps) : Len(ps[k]) \in Nat,
           NEW d, d = Deduplicated(ps)
    PROVE  /\ d \in Seq(S) /\ IsInjective(d)
           /\ \A k \in 1 .. Len(ps) : 1 \in DOMAIN d /\ Len(d[1]) <= Len(ps[k])
<1>1. PICK m \in Nat : m = Len(ps) /\ DOMAIN ps = 1 .. m
  BY LenProperties
<1>2. PICK firsts : firsts = {i \in DOMAIN ps : \A j \in 1 .. i - 1 : ps[j] # ps[i]}
  OBVIOUS
<1>3. PICK key : key = [i \in firsts |-> Len(ps[i])]
  OBVIOUS
<1>4. firsts \in SUBSET (1 .. m) /\ IsFiniteSet(firsts) /\ DOMAIN key = firsts
  <2>1. firsts \in SUBSET (1 .. m) /\ DOMAIN key = firsts
    BY <1>1, <1>2, <1>3
  <2>2. IsFiniteSet(1 .. m)
    BY FS_Interval
  <2> QED  BY <2>1, <2>2, FS_Subset
<1>5. PICK where, n : where = Sorted(key) /\ SortsTo(where, key, n)
  <2>1. 1 .. m \subseteq Int
    OBVIOUS
  <2>2. \A i \in firsts : key[i] \in Int
    BY <1>1, <1>3, <1>4
  <2>3. DOMAIN key \subseteq Int /\ IsFiniteSet(DOMAIN key) /\ \A i \in DOMAIN key : key[i] \in Int
    BY <1>4, <2>1, <2>2
  <2> QED  BY <2>3, SortedIs
<1>6. /\ n \in Nat /\ DOMAIN where = 1 .. n /\ \A k \in 1 .. n : where[k] \in firsts
      /\ \A i \in firsts : \E k \in 1 .. n : where[k] = i
      /\ \A j, k \in 1 .. n : where[j] = where[k] => j = k
      /\ n > 0 => \A i \in firsts : key[where[1]] <= key[i]
  BY <1>4, <1>5 DEF SortsTo
<1>7. d = [k \in 1 .. n |-> ps[where[k]]]
  BY <1>2, <1>3, <1>5, <1>6 DEF Deduplicated
<1>8. \A k \in 1 .. n : d[k] = ps[where[k]] /\ d[k] \in S
  <2>1. \A i \in firsts : ps[i] \in S
    BY <1>1, <1>4, ElementOfSeq
  <2> QED  BY <1>6, <1>7, <2>1
<1>9. d \in Seq(S) /\ DOMAIN d = 1 .. n
  BY <1>6, <1>7, <1>8
<1>10. ASSUME NEW i \in firsts, NEW j \in firsts, ps[i] = ps[j] PROVE i = j
  <2>1. i \in 1 .. m /\ j \in 1 .. m
    BY <1>4
  <2>2. ~(i < j)
    <3> SUFFICES ASSUME i < j PROVE FALSE
      OBVIOUS
    <3>1. i \in 1 .. j - 1
      BY <2>1
    <3> QED  BY <1>2, <1>10, <3>1
  <2>3. ~(j < i)
    <3> SUFFICES ASSUME j < i PROVE FALSE
      OBVIOUS
    <3>1. j \in 1 .. i - 1
      BY <2>1
    <3> QED  BY <1>2, <1>10, <3>1
  <2> QED  BY <2>1, <2>2, <2>3
<1>11. IsInjective(d)
  <2>1. ASSUME NEW j \in 1 .. n, NEW k \in 1 .. n, d[j] = d[k] PROVE j = k
    <3>1. ps[where[j]] = ps[where[k]] /\ where[j] \in firsts /\ where[k] \in firsts
      BY <1>6, <1>8, <2>1
    <3>2. where[j] = where[k]
      BY <1>10, <3>1
    <3> QED  BY <1>6, <3>2
  <2> QED  BY <1>9, <2>1 DEF IsInjective
<1>12. ASSUME NEW k \in 1 .. m PROVE \E i \in firsts : ps[i] = ps[k]
  <2>1. PICK same : same = {i \in 1 .. m : ps[i] = ps[k]}
    OBVIOUS
  <2>2. same \in SUBSET (1 .. m) /\ k \in same
    BY <2>1
  <2>3. IsFiniteSet(same)
    <3>1. IsFiniteSet(1 .. m)
      BY FS_Interval
    <3> QED  BY <2>2, <3>1, FS_Subset
  <2>4. same \in SUBSET Int /\ same # {}
    BY <2>2
  <2>5. PICK i \in same : \A j \in same : i <= j
    BY <2>3, <2>4, Extremes
  <2>6. i \in 1 .. m /\ ps[i] = ps[k]
    BY <2>1
  <2>7. ASSUME NEW j \in 1 .. i - 1, ps[j] = ps[i] PROVE FALSE
    <3>1. j \in 1 .. m /\ ~(i <= j)
      BY <2>6
    <3>2. j \in same
      BY <2>1, <2>6, <2>7, <3>1
    <3> QED  BY <2>5, <3>1, <3>2
  <2>8. i \in firsts
    BY <1>1, <1>2, <2>6, <2>7
  <2> QED  BY <2>6, <2>8
<1>13. ASSUME NEW k \in 1 .. m PROVE 1 \in DOMAIN d /\ Len(d[1]) <= Len(ps[k])
  <2>1. PICK i \in firsts : ps[i] = ps[k]
    BY <1>12
  <2>2. PICK x \in 1 .. n : where[x] = i
    BY <1>6
  <2>3. n > 0 /\ 1 \in 1 .. n
    BY <1>6, <2>2
  <2>4. key[where[1]] <= key[i] /\ where[1] \in firsts
    BY <1>6, <2>3
  <2>5. key[where[1]] = Len(d[1]) /\ key[i] = Len(ps[k])
    BY <1>3, <1>8, <2>1, <2>3, <2>4
  <2> QED  BY <1>9, <2>3, <2>4, <2>5
<1> QED  BY <1>1, <1>9, <1>11, <1>13

LEMMA WalkEndsKeeps == ASSUME PathInv, WalkEnds PROVE PathInv'
<1>1. PICK se, ag, di, ar, al :
         /\ se = search /\ ag = agenda /\ di = distances /\ ar = arrived /\ al = allPaths
         /\ SearchFound(se, ag, di, ar, al)
  BY DEF PathInv
<1>2. PathsTyped(se, ag, di, ar, al)
  BY <1>1 DEF SearchFound
<1>3. /\ maxHops \in Nat /\ pools \in Seq(RoutePools) /\ ar \in Seq(Routes(maxHops))
      /\ al \in Seq(Routes(maxHops))
  BY <1>2 DEF PathsTyped
<1>4. /\ pools' = pools /\ maxHops' = maxHops /\ distances' = di /\ arrived' = <<>>
      /\ Limit > 0 /\ (ag = <<>> \/ Len(ar) = Limit)
  BY <1>1 DEF WalkEnds
<1>5. se = "bfs" \/ se = "dfs"
  <2>1. Limit # 0
    BY <1>4
  <2> QED  BY <1>1, <2>1 DEF Limit
<1>6. PICK ps : ps = al \o ar
  OBVIOUS
<1>7. /\ ps \in Seq(Routes(maxHops))
      /\ \A i \in 1 .. Len(al) : \E j \in 1 .. Len(ps) : ps[j] = al[i]
      /\ \A i \in 1 .. Len(ar) : \E j \in 1 .. Len(ps) : ps[j] = ar[i]
  <2>1. ps \in Seq(Routes(maxHops)) /\ IsBoth(ps, al, ar)
    BY <1>3, <1>6, TwoTogether
  <2> QED  BY <2>1 DEF IsBoth
<1>8. \A r \in Routes(maxHops) : Len(r) \in Nat
  BY <1>3, RoutesAre, LenProperties DEF IsRoute, IsWalk
<1>9. CASE se = "bfs"
  <2>1. search' = "dfs" /\ agenda' = Start /\ allPaths' = ps /\ Limit = 3
    BY <1>1, <1>6, <1>9 DEF WalkEnds, Limit
  <2>2. ShortestFirst(ag, ar)
    BY <1>1, <1>9 DEF SearchFound
  <2>3. ASSUME NEW r \in Routes(maxHops) PROVE \E k \in 1 .. Len(ps) : Len(ps[k]) <= Len(r)
    <3>1. ar # <<>>
      <4> SUFFICES ASSUME ar = <<>> PROVE FALSE
        OBVIOUS
      <4>1. Len(ar) = 0
        OBVIOUS
      <4>2. ag = <<>>
        BY <1>4, <2>1, <4>1
      <4>3. \A j \in 1 .. Len(ag) : FALSE
        BY <4>2
      <4>4. \E j \in 1 .. Len(ag) : Begins(ag[j].path, r)
        BY <2>2 DEF ShortestFirst
      <4> QED  BY <4>3, <4>4
    <3>2. Len(ar[1]) <= Len(r)
      BY <2>2, <3>1 DEF ShortestFirst
    <3>3. 1 \in 1 .. Len(ar)
      BY <1>3, <3>1, FrontTaken
    <3>4. PICK j \in 1 .. Len(ps) : ps[j] = ar[1]
      BY <1>7, <3>3
    <3> QED  BY <3>2, <3>4
  <2>4. PathsTyped("dfs", Start, di, <<>>, ps)
    BY <1>2, <1>3, <1>7, StartsOver DEF PathsTyped
  <2>5. SearchFound("dfs", Start, di, <<>>, ps)
    BY <2>3, <2>4 DEF SearchFound, HasShortest
  <2>6. SearchFound(search', agenda', distances', arrived', allPaths')
    BY <1>4, <2>1, <2>5
  <2> QED  BY <1>4, <2>6, FindsOn
<1>10. CASE se = "dfs"
  <2>1. search' = "done" /\ agenda' = <<>> /\ allPaths' = Deduplicated(ps)
    BY <1>1, <1>6, <1>10 DEF WalkEnds
  <2>2. HasShortest(al)
    BY <1>1, <1>10 DEF SearchFound
  <2>3. PICK d : d = Deduplicated(ps)
    OBVIOUS
  <2>4. \A k \in 1 .. Len(ps) : ps[k] \in Routes(maxHops) /\ Len(ps[k]) \in Nat
    BY <1>7, <1>8, ElementOfSeq
  <2>5. d \in Seq(Routes(maxHops)) /\ IsInjective(d)
        /\ \A k \in 1 .. Len(ps) : 1 \in DOMAIN d /\ Len(d[1]) <= Len(ps[k])
    BY <1>7, <2>3, <2>4, DeduplicatedIs
  <2>6. ASSUME NEW r \in Routes(maxHops) PROVE Len(d[1]) <= Len(r)
    <3>1. PICK i \in 1 .. Len(al) : Len(al[i]) <= Len(r)
      BY <2>2 DEF HasShortest
    <3>2. PICK k \in 1 .. Len(ps) : ps[k] = al[i]
      BY <1>7
    <3>3. Len(d[1]) <= Len(ps[k]) /\ Len(ps[k]) <= Len(r) /\ Len(ps[k]) \in Nat /\ Len(r) \in Nat
      BY <1>8, <2>4, <2>5, <3>1, <3>2
    <3>4. 1 \in DOMAIN d
      BY <2>5, <3>2
    <3>5. Len(d[1]) \in Nat
      BY <1>8, <2>5, <3>4, ElementOfSeq, LenProperties
    <3> QED  BY <3>3, <3>5
  <2>7. PathsTyped("done", <<>>, di, <<>>, d)
    <3>1. <<>> \in Seq(PathNodes) /\ <<>> \in Seq(Routes(maxHops)) /\ \A j \in 1 .. Len(<<>>) : FALSE
      OBVIOUS
    <3> QED  BY <1>2, <2>5, <3>1 DEF PathsTyped
  <2>8. SearchFound("done", <<>>, di, <<>>, d)
    BY <2>5, <2>6, <2>7 DEF SearchFound, IsResult
  <2>9. SearchFound(search', agenda', distances', arrived', allPaths')
    BY <1>4, <2>1, <2>3, <2>8
  <2> QED  BY <1>4, <2>9, FindsOn
<1> QED  BY <1>5, <1>9, <1>10

LEMMA PathSteps == ASSUME PathInv, [PathNext]_pathVars PROVE PathInv'
<1>1. CASE UNCHANGED pathVars
  <2>1. /\ pools' = pools /\ maxHops' = maxHops /\ search' = search /\ agenda' = agenda
        /\ distances' = distances /\ arrived' = arrived /\ allPaths' = allPaths
    BY <1>1 DEF pathVars
  <2>2. SearchFound(search, agenda, distances, arrived, allPaths)
    BY DEF PathInv
  <2> QED  BY <2>1, <2>2, FindsOn
<1> QED  BY <1>1, FindAllPathsKeeps, DijkstraArrivesKeeps, DijkstraExpandsKeeps, DijkstraEndsKeeps,
            WalkArrivesKeeps, WalkExpandsKeeps, WalkEndsKeeps DEF PathNext

LEMMA PathGives == ASSUME PathInv PROVE PathsFound
<1>1. SearchFound(search, agenda, distances, arrived, allPaths)
  BY DEF PathInv
<1>2. PathsTyped(search, agenda, distances, arrived, allPaths)
  BY <1>1 DEF SearchFound
<1>3. \A k \in DOMAIN allPaths : allPaths[k] \in Routes(maxHops)
  BY <1>2, ElementOfSeq, LenProperties DEF PathsTyped
<1>4. search = "done" => /\ IsInjective(allPaths)
                         /\ \A r \in Routes(maxHops) : Len(allPaths[1]) <= Len(r)
  BY <1>1 DEF SearchFound, IsResult
<1>5. LabelsSuffice => /\ search = "failed" => Routes(maxHops) = {}
                       /\ search = "dijkstra" /\ arrived # <<>> =>
                             \A r \in Routes(maxHops) : RouteCost(arrived[1]) <= RouteCost(r)
  BY <1>1 DEF SearchFound, CheapestFirst
<1> QED  BY <1>3, <1>4, <1>5 DEF PathsFound

(* PathsAlwaysFound: for any tokens, pools and hop limits, and whichever of *)
(* the cheapest nodes Dijkstra's heap yields, find_all_paths                *)
(* (pathfinder.rs:49-102) returns routes within the hops, each once, one of *)
(* the fewest hops first; and with pools that all touch an end, or hops     *)
(* enough for every token, it fails only when there is no route and its     *)
(* first path is a cheapest one.                                            *)
THEOREM PathsAlwaysFound == MCSpec => []PathsFound
<1>1. MCInit => PathInv
  BY PathStarts DEF MCInit
<1>2. [MCNext]_mcVars => [PathNext]_pathVars
  BY DEF MCNext, mcVars, defiVars, mevVars, exchangeVars
<1>3. PathInv /\ [MCNext]_mcVars => PathInv'
  BY <1>2, PathSteps
<1> QED  BY <1>1, <1>3, PathGives, PTL DEF MCSpec
=============================================================================
