------------------------------ MODULE Perpetual ------------------------------
(***************************************************************************)
(* The perpetual futures engine of defi/perpetual.rs, one market: one      *)
(* action per stretch of a call between two lock waits.                    *)
(*                                                                         *)
(* open_position still holds the markets for writing when it calls         *)
(* update_funding_rate, which waits for them again: the call never returns *)
(* and nothing else can run until its caller gives up (drops the future),  *)
(* which releases the locks and undoes nothing.  So the funding rate stays *)
(* 0, the mark price is never written after create_market, and neither     *)
(* profit nor funding is ever paid.                                        *)
(*                                                                         *)
(* Prices are multiples of the mark price, in basis points.  The constant  *)
(* 1000 * 10^18 of create_market does not fit its 64 bits: a debug build   *)
(* panics there, so what is modelled is the release build, whose price is  *)
(* the wrapped constant.                                                   *)
(***************************************************************************)
EXTENDS Integers, FiniteSets, FiniteSetsExt, Functions

CONSTANTS PerpCalls,    \* the calls made on the engine, one task each
          Traders,      \* the addresses that trade
          Sizes,        \* the position sizes they ask for
          Leverages,    \* the leverages they ask for
          MaxLeverage,  \* max_leverage of the market
          PenaltyBps,   \* liquidation_penalty_bps
          PerpNobody    \* the writer of a lock nobody holds for writing

ASSUME PerpAssumption ==
    /\ Sizes \subseteq Nat /\ Leverages \subseteq Nat
    /\ MaxLeverage \in Nat /\ PenaltyBps \in 0..10000
    /\ PerpNobody \notin PerpCalls

PerpLocks == {"markets", "positions"}
MarkPrice == 10000
MaintenanceRatio == 250
InitialRatio == 500

VARIABLES
    interest,    \* open_interest_long and open_interest_short, by is_long
    positions,   \* the open positions; an id is the call that opened it
    fund,        \* InsuranceFund.total_contributions
    perpW,       \* [PerpLocks -> the call that holds it for writing]
    perpR,       \* [PerpLocks -> the calls that hold it for reading]
    at,          \* where each call is
    subject,     \* the position a call works on
    lifted       \* history: what opened and never closed left in interest

perpVars == <<interest, positions, fund, perpW, perpR, at, subject, lifted>>

NoPosition == [id |-> PerpNobody]

PerpInit ==
    /\ interest = [b \in BOOLEAN |-> 0]
    /\ positions = {}
    /\ fund = 0
    /\ perpW = [l \in PerpLocks |-> PerpNobody]
    /\ perpR = [l \in PerpLocks |-> {}]
    /\ at = [c \in PerpCalls |-> "idle"]
    /\ subject = [c \in PerpCalls |-> NoPosition]
    /\ lifted = [b \in BOOLEAN |-> 0]

-----------------------------------------------------------------------------
WriteFree(l) == perpW[l] = PerpNobody /\ perpR[l] = {}
ReadFree(l) == perpW[l] = PerpNobody
GoTo(c, label) == at' = [at EXCEPT ![c] = label]
Found(id) == {p \in positions : p.id = id}

(* calculate_required_collateral *)
Collateral(size, leverage) ==
    LET value == size * MarkPrice
    IN Max({value \div leverage, (value * InitialRatio) \div 10000})

(* calculate_liquidation_price: the maintenance margin of 250 basis points *)
(* becomes 2, and is added to basis points.                                *)
LiquidationPrice(leverage, long) ==
    LET margin == (MaintenanceRatio * 100) \div 10000
    IN IF long THEN MarkPrice - 10000 \div leverage + margin
               ELSE MarkPrice + 10000 \div leverage - margin

Liquidatable(p) ==
    IF p.long THEN MarkPrice <= p.liquidation ELSE MarkPrice >= p.liquidation

-----------------------------------------------------------------------------
(* open_position: a leverage above the market's is refused, leverage 0     *)
(* panics in a division; neither changes anything.                         *)
OpenCheck(c, trader, size, leverage, long) ==
    /\ at[c] = "idle"
    /\ ReadFree("markets")
    /\ IF leverage > MaxLeverage \/ leverage = 0
       THEN GoTo(c, "failed") /\ UNCHANGED subject
       ELSE /\ subject' = [subject EXCEPT ![c] =
                 [id |-> c, trader |-> trader, size |-> size, long |-> long,
                  collateral |-> Collateral(size, leverage), leverage |-> leverage,
                  liquidation |-> LiquidationPrice(leverage, long)]]
            /\ GoTo(c, "open_interest")
    /\ UNCHANGED <<interest, positions, fund, perpW, perpR, lifted>>

OpenInterest(c) ==
    LET p == subject[c]
    IN /\ at[c] = "open_interest"
       /\ WriteFree("markets")
       /\ interest' = [interest EXCEPT ![p.long] = @ + p.size]
       /\ perpW' = [perpW EXCEPT !["markets"] = c]
       /\ GoTo(c, "open_insert")
       /\ UNCHANGED <<positions, fund, perpR, subject, lifted>>

(* From here the call waits for the markets it holds itself. *)
OpenInsert(c) ==
    /\ at[c] = "open_insert"
    /\ WriteFree("positions")
    /\ positions' = positions \cup {subject[c]}
    /\ perpW' = [perpW EXCEPT !["positions"] = c]
    /\ GoTo(c, "open_funding")
    /\ UNCHANGED <<interest, fund, perpR, subject, lifted>>

-----------------------------------------------------------------------------
(* close_position holds the positions to its end and waits for the markets *)
(* twice, for reading and for writing.                                     *)
CloseFind(c, trader, id) ==
    /\ at[c] = "idle"
    /\ WriteFree("positions")
    /\ IF \E p \in Found(id) : p.trader = trader
       THEN /\ \E p \in Found(id) : subject' = [subject EXCEPT ![c] = p]
            /\ perpW' = [perpW EXCEPT !["positions"] = c]
            /\ GoTo(c, "close_read")
       ELSE GoTo(c, "failed") /\ UNCHANGED <<subject, perpW>>
    /\ UNCHANGED <<interest, positions, fund, perpR, lifted>>

CloseRead(c) ==
    /\ at[c] = "close_read"
    /\ ReadFree("markets")
    /\ GoTo(c, "close_write")
    /\ UNCHANGED <<interest, positions, fund, perpW, perpR, subject, lifted>>

CloseWrite_Forget(c) ==
    LET p == subject[c]
    IN /\ at[c] = "close_write"
       /\ WriteFree("markets")
       /\ interest' = [interest EXCEPT ![p.long] = Max({0, @ - p.size})]
       /\ perpW' = [perpW EXCEPT !["positions"] = PerpNobody]
       /\ GoTo(c, "closed")
       /\ UNCHANGED <<positions, fund, perpR, subject, lifted>>

CloseWrite(c) ==
    LET p == subject[c]
    IN /\ at[c] = "close_write"
       /\ WriteFree("markets")
       /\ interest' = [interest EXCEPT ![p.long] = Max({0, @ - p.size})]
       /\ positions' = positions \ Found(p.id)
       /\ perpW' = [perpW EXCEPT !["positions"] = PerpNobody]
       /\ GoTo(c, "closed")
       /\ UNCHANGED <<fund, perpR, subject, lifted>>

-----------------------------------------------------------------------------
(* liquidate_position reads the position and the market under two read     *)
(* locks, gives both up, and then pays the fund and removes the position.  *)
LiquidateFind(c, id) ==
    /\ at[c] = "idle"
    /\ ReadFree("positions")
    /\ IF Found(id) # {}
       THEN /\ \E p \in Found(id) : subject' = [subject EXCEPT ![c] = p]
            /\ perpR' = [perpR EXCEPT !["positions"] = @ \cup {c}]
            /\ GoTo(c, "liquidate_check")
       ELSE GoTo(c, "failed") /\ UNCHANGED <<subject, perpR>>
    /\ UNCHANGED <<interest, positions, fund, perpW, lifted>>

LiquidateCheck(c) ==
    /\ at[c] = "liquidate_check"
    /\ ReadFree("markets")
    /\ perpR' = [perpR EXCEPT !["positions"] = @ \ {c}]
    /\ GoTo(c, IF Liquidatable(subject[c]) THEN "liquidate_pay" ELSE "failed")
    /\ UNCHANGED <<interest, positions, fund, perpW, subject, lifted>>

(* Half of the penalty, rounded up, goes to the insurance fund, which is   *)
(* then kept until the position has been removed.                          *)
Contribution(p) ==
    LET fee == (p.collateral * PenaltyBps) \div 10000 IN fee - fee \div 2

LiquidatePay(c) ==
    /\ at[c] = "liquidate_pay"
    /\ \A d \in PerpCalls : at[d] # "liquidate_remove"
    /\ fund' = fund + Contribution(subject[c])
    /\ GoTo(c, "liquidate_remove")
    /\ UNCHANGED <<interest, positions, perpW, perpR, subject, lifted>>

LiquidateRemove(c) ==
    LET p == subject[c]
    IN /\ at[c] = "liquidate_remove"
       /\ WriteFree("positions")
       /\ positions' = positions \ Found(p.id)
       /\ lifted' = IF Found(p.id) # {} THEN [lifted EXCEPT ![p.long] = @ + p.size]
                                        ELSE lifted
       /\ GoTo(c, "liquidated")
       /\ UNCHANGED <<interest, fund, perpW, perpR, subject>>

-----------------------------------------------------------------------------
(* add_collateral keeps the positions while it waits for the markets. The  *)
(* liquidation price is computed again from the leverage, which has not    *)
(* changed, and not from the collateral.                                   *)
CollateralAdd(c, trader, id, amount) ==
    /\ at[c] = "idle"
    /\ WriteFree("positions")
    /\ IF \E p \in Found(id) : p.trader = trader
       THEN \E p \in Found(id) :
               LET q == [p EXCEPT !.collateral = @ + amount]
               IN /\ positions' = (positions \ {p}) \cup {q}
                  /\ subject' = [subject EXCEPT ![c] = q]
                  /\ perpW' = [perpW EXCEPT !["positions"] = c]
                  /\ GoTo(c, "collateral_price")
       ELSE GoTo(c, "failed") /\ UNCHANGED <<positions, subject, perpW>>
    /\ UNCHANGED <<interest, fund, perpR, lifted>>

CollateralPrice(c) ==
    LET p == subject[c]
        q == [p EXCEPT !.liquidation = LiquidationPrice(p.leverage, p.long)]
    IN /\ at[c] = "collateral_price"
       /\ ReadFree("markets")
       /\ positions' = (positions \ {p}) \cup {q}
       /\ perpW' = [perpW EXCEPT !["positions"] = PerpNobody]
       /\ GoTo(c, "done")
       /\ UNCHANGED <<interest, fund, perpR, subject, lifted>>

-----------------------------------------------------------------------------
InFlight == {"open_interest", "open_insert", "open_funding", "close_read", "close_write",
             "liquidate_check", "liquidate_pay", "liquidate_remove", "collateral_price"}

(* A caller drops the future of a call that waits.  Every guard it holds is *)
(* released; what it has written stays.                                     *)
PerpGiveUp(c) ==
    /\ at[c] \in InFlight
    /\ perpW' = [l \in PerpLocks |-> IF perpW[l] = c THEN PerpNobody ELSE perpW[l]]
    /\ perpR' = [l \in PerpLocks |-> perpR[l] \ {c}]
    /\ lifted' = IF at[c] = "open_insert"
                 THEN [lifted EXCEPT ![subject[c].long] = @ + subject[c].size]
                 ELSE lifted
    /\ GoTo(c, "dropped")
    /\ UNCHANGED <<interest, positions, fund, subject>>

PerpStart(c) ==
    \/ \E t \in Traders, s \in Sizes, v \in Leverages, b \in BOOLEAN : OpenCheck(c, t, s, v, b)
    \/ \E t \in Traders, id \in PerpCalls : CloseFind(c, t, id)
    \/ \E id \in PerpCalls : LiquidateFind(c, id)
    \/ \E t \in Traders, id \in PerpCalls, s \in Sizes : CollateralAdd(c, t, id, s)

PerpContinue(c) ==
    \/ OpenInterest(c) \/ OpenInsert(c)
    \/ CloseRead(c) \/ CloseWrite(c)
    \/ LiquidateCheck(c) \/ LiquidatePay(c) \/ LiquidateRemove(c)
    \/ CollateralPrice(c)

PerpNext == \E c \in PerpCalls : PerpStart(c) \/ PerpContinue(c) \/ PerpGiveUp(c)

PerpSpec == PerpInit /\ [][PerpNext]_perpVars

-----------------------------------------------------------------------------
Position == [id : PerpCalls, trader : Traders, size : Sizes, long : BOOLEAN,
             collateral : Nat, leverage : Leverages \ {0}, liquidation : Int]

(* Positions have unique ids, and the locks are held by the calls whose     *)
(* stretch of code holds them (perpetual.rs:150, 159, 173, 222, 269).       *)
PerpTypeOK ==
    /\ interest \in [BOOLEAN -> Nat]
    /\ positions \subseteq Position
    /\ \A p, q \in positions : p.id = q.id => p = q
    /\ fund \in Nat
    /\ at \in [PerpCalls -> InFlight \cup {"idle", "done", "closed", "liquidated", "failed", "dropped"}]
    /\ \A c \in PerpCalls :
         /\ perpW["markets"] = c <=> at[c] \in {"open_insert", "open_funding"}
         /\ perpW["positions"] = c <=>
              at[c] \in {"open_funding", "close_read", "close_write", "collateral_price"}
         /\ c \in perpR["positions"] <=> at[c] = "liquidate_check"

SizeSum(S) == SumFunctionOnSet([p \in S |-> p.size], S)

(* The positions of a side, and the openings of it not yet inserted. *)
Side(long) == {p \in positions : p.long = long}
Opening(long) == {c \in PerpCalls : at[c] = "open_insert" /\ subject[c].long = long}

(* The open interest of a side is what its open positions add up to, plus   *)
(* exactly what openings cut short before their insertion and liquidations, *)
(* which never take theirs off, left behind (perpetual.rs:153, 197, 258).   *)
InterestAccounts ==
    \A b \in BOOLEAN :
        interest[b] = SizeSum(Side(b)) + lifted[b]
                      + SumFunctionOnSet([c \in Opening(b) |-> subject[c].size], Opening(b))

(* The books of the engine, after every call and every call cut short: the  *)
(* locks are where the code holds them, and the open interest accounts for  *)
(* the positions (perpetual.rs:96-290).                                     *)
PerpSound == PerpTypeOK /\ InterestAccounts

(* A trader gets the collateral of a position back once: whoever closed or  *)
(* liquidated it took it out for good, no call that had it in hand puts it  *)
(* back, and no two calls close it (perpetual.rs:173, 203, 258, 276).       *)
PaidBackOnce ==
    /\ \A c \in PerpCalls : at[c] \in {"closed", "liquidated"} => Found(subject[c].id) = {}
    /\ \A c, d \in PerpCalls :
         at[c] = "closed" /\ at[d] = "closed" /\ subject[c].id = subject[d].id => c = d
=============================================================================
