------------------------------- MODULE AmmPool -------------------------------
(***************************************************************************)
(* The automated market maker pool of dex/amm.rs, at real token counts and *)
(* with every integer division of the code.                                *)
(*                                                                         *)
(* add_liquidity, remove_liquidity and swap take the locks of the reserves *)
(* for writing and then call update_oracle, which calls get_price, which   *)
(* waits for the same locks for reading: a tokio RwLock is not reentrant,  *)
(* and the clock is past last_update = 0 at the first call and at every    *)
(* later one, since no call gets as far as writing it.  So each of these   *)
(* calls changes the pool and then waits for itself until its caller gives *)
(* up (drops the future), which releases the locks and undoes nothing; the *)
(* oracle never changes.                                                   *)
(***************************************************************************)
EXTENDS Integers, FiniteSets, FiniteSetsExt, Functions

CONSTANTS Providers,     \* the addresses that provide liquidity
          PoolAmounts,   \* the amounts the callers use
          FeeRate,       \* fee_rate, in basis points
          MaxReserve,    \* bound: calls that would exceed it are not made
          Ticks,         \* the ticks the callers use
          TickSpacing,   \* tick_spacing
          NoRange        \* a provider without a concentrated position

ASSUME AmmAssumption ==
    /\ IsFiniteSet(Providers)
    /\ PoolAmounts \subseteq Nat
    /\ FeeRate \in 0..10000
    /\ MaxReserve \in Nat
    /\ Ticks \subseteq Int /\ TickSpacing \in Nat \ {0}

Tokens == {"a", "b"}
Other(token) == IF token = "a" THEN "b" ELSE "a"

VARIABLES
    reserve,    \* [Tokens -> Nat]: reserve_a, reserve_b
    supply,     \* total_supply of the LP tokens
    share,      \* [Providers -> Nat]: liquidity_providers
    waiting,    \* a call holds the locks and waits for itself
    active,     \* ConcentratedLiquidity.liquidity
    range       \* [Providers -> LiquidityPosition]

ammVars == <<reserve, supply, share, waiting, active, range>>

AmmInit ==
    /\ reserve = [t \in Tokens |-> 0]
    /\ supply = 0
    /\ share = [p \in Providers |-> 0]
    /\ waiting = FALSE
    /\ active = 0
    /\ range = [p \in Providers |-> NoRange]

-----------------------------------------------------------------------------
(* Newton's iteration of sqrt: z falls until the next y is not below it. *)
Sqrt(x) ==
    LET f[z \in 1..x] ==
            LET y == (x \div z + z) \div 2 IN IF y < z THEN f[y] ELSE z
    IN IF x = 0 THEN 0 ELSE f[x]

Smaller(x, y) == IF x < y THEN x ELSE y

(* The LP tokens an addition to a pool in use is worth, and what it adds. *)
Minted(x, y) == Smaller((x * supply) \div reserve["a"], (y * supply) \div reserve["b"])
Added(token, lp) == (lp * reserve[token]) \div supply

(* The first addition sets the reserves, and so does every later one while *)
(* the supply is still zero.                                               *)
AddFirst(p, x, y) ==
    /\ ~waiting /\ supply = 0
    /\ x + y <= MaxReserve
    /\ reserve' = [t \in Tokens |-> IF t = "a" THEN x ELSE y]
    /\ supply' = Sqrt(x * y)
    /\ share' = [share EXCEPT ![p] = @ + Sqrt(x * y)]
    /\ waiting' = TRUE
    /\ UNCHANGED <<active, range>>

AddMore_Larger(p, x, y) ==
    LET lp == Max({(x * supply) \div reserve["a"], (y * supply) \div reserve["b"]})
    IN /\ ~waiting /\ supply > 0
       /\ reserve["a"] + reserve["b"] + x + y <= MaxReserve /\ supply + lp <= MaxReserve
       /\ reserve' = [t \in Tokens |-> reserve[t] + (IF t = "a" THEN x ELSE y)]
       /\ supply' = supply + lp
       /\ share' = [share EXCEPT ![p] = @ + lp]
       /\ waiting' = TRUE
       /\ UNCHANGED <<active, range>>

AddMore(p, x, y) ==
    LET lp == Minted(x, y)
    IN /\ ~waiting /\ supply > 0
       /\ reserve["a"] + reserve["b"] + x + y <= MaxReserve /\ supply + lp <= MaxReserve
       /\ reserve' = [t \in Tokens |-> reserve[t] + Added(t, lp)]
       /\ supply' = supply + lp
       /\ share' = [share EXCEPT ![p] = @ + lp]
       /\ waiting' = TRUE
       /\ UNCHANGED <<active, range>>

Withdrawn(token, lp) == (lp * reserve[token]) \div supply

(* A balance that is too small is refused; with no supply the division     *)
(* panics, as does the removal of nothing by a stranger.  None of these    *)
(* changes the pool.                                                       *)
RemoveShares(p, lp) ==
    /\ ~waiting
    /\ lp <= share[p] /\ supply > 0
    /\ reserve' = [t \in Tokens |-> reserve[t] - Withdrawn(t, lp)]
    /\ supply' = supply - lp
    /\ share' = [share EXCEPT ![p] = @ - lp]
    /\ waiting' = TRUE
    /\ UNCHANGED <<active, range>>

AmountOut_NoFee(x, rin, rout) ==
    IF rin + x = 0 THEN 0 ELSE (x * rout + rin) \div (rin + x)

(* What a swap of x pays, 0 also standing for its refusal and for the      *)
(* panic on an empty pool.                                                 *)
AmountOut(x, rin, rout) ==
    LET net == (x * (10000 - FeeRate)) \div 10000
    IN IF rin + net = 0 THEN 0 ELSE (net * rout) \div (rin + net)

Swap(token, x) ==
    LET out == AmountOut(x, reserve[token], reserve[Other(token)])
    IN /\ ~waiting
       /\ out > 0
       /\ reserve["a"] + reserve["b"] + x <= MaxReserve
       /\ reserve' = [reserve EXCEPT ![token] = @ + x, ![Other(token)] = @ - out]
       /\ waiting' = TRUE
       /\ UNCHANGED <<supply, share, active, range>>

(* The caller gives up: the locks are released, the changes stay. *)
GiveUp ==
    /\ waiting
    /\ waiting' = FALSE
    /\ UNCHANGED <<reserve, supply, share, active, range>>

-----------------------------------------------------------------------------
(* add_concentrated_liquidity has a lock of its own and never waits.  The   *)
(* current tick is always 0.                                                *)
CurrentTick == 0
InRange(r) == r.lower <= CurrentTick /\ CurrentTick < r.upper

AddConcentrated(p, lo, hi, l) ==
    /\ lo < hi /\ lo % TickSpacing = 0 /\ hi % TickSpacing = 0
    /\ active + l <= MaxReserve
    /\ range' = [range EXCEPT ![p] = [lower |-> lo, upper |-> hi, liquidity |-> l]]
    /\ active' = IF InRange([lower |-> lo, upper |-> hi]) THEN active + l ELSE active
    /\ UNCHANGED <<reserve, supply, share, waiting>>

-----------------------------------------------------------------------------
PoolNext ==
    \/ \E p \in Providers, x, y \in PoolAmounts : AddFirst(p, x, y) \/ AddMore(p, x, y)
    \/ \E p \in Providers, lp \in PoolAmounts : RemoveShares(p, lp)
    \/ \E t \in Tokens, x \in PoolAmounts : Swap(t, x)
    \/ GiveUp

RangeNext ==
    \E p \in Providers, lo, hi \in Ticks, l \in PoolAmounts : AddConcentrated(p, lo, hi, l)

AmmNext == PoolNext \/ RangeNext

AmmSpec == AmmInit /\ [][AmmNext]_ammVars

-----------------------------------------------------------------------------
(* Balances are unsigned: no subtraction of remove_liquidity or swap ever   *)
(* goes below zero (amm.rs:148-153, 189-195).                               *)
AmmTypeOK ==
    /\ reserve \in [Tokens -> Nat]
    /\ supply \in Nat
    /\ share \in [Providers -> Nat]
    /\ waiting \in BOOLEAN
    /\ active \in Nat

(* The LP tokens in circulation are the ones the providers hold, whatever   *)
(* was added, removed or cut short (amm.rs:91-114, 150-153).                *)
SupplyIsShares == supply = SumFunctionOnSet(share, Providers)

(* LP tokens are backed by both tokens, so that add_liquidity and           *)
(* remove_liquidity never divide by an empty reserve (amm.rs:98-99).        *)
SupplyIsBacked == supply > 0 => \A t \in Tokens : reserve[t] > 0

(* Changing tokens there and back never pays, at any reserves the pool can  *)
(* reach and with every rounding of swap (amm.rs:179-182).                  *)
RoundTripLoses ==
    \A t \in Tokens, x \in PoolAmounts :
        LET rin == reserve[t]
            rout == reserve[Other(t)]
            out == AmountOut(x, rin, rout)
        IN rin > 0 /\ rout > 0 => AmountOut(out, rout - out, rin + x) <= x

DustStep ==
    supply > 0 /\ supply' > 0 =>
        \A t \in Tokens :
            /\ supply' < supply => reserve'[t] * supply >= reserve[t] * supply'
            /\ supply' > supply => reserve'[t] * supply + supply > reserve[t] * supply'

(* Nobody takes value out of the other providers' shares: a removal never   *)
(* lowers what an LP token is worth in either token, and an addition, whose *)
(* divisions round in favour of the newcomer, by less than one unit of the  *)
(* token over all the old shares (amm.rs:98-108, 144-150).                  *)
DilutionIsDust == [][DustStep]_ammVars

RangesIn == {p \in Providers : range[p] # NoRange /\ InRange(range[p])}

(* The active liquidity never falls short of the positions that are in      *)
(* range; a provider who opens a second position leaves the liquidity of    *)
(* the first one in it (amm.rs:245-250).                                    *)
ActiveCoversRanges == active >= SumFunctionOnSet([p \in RangesIn |-> range[p].liquidity], RangesIn)

(* The books of a pool, after every call and every call cut short: unsigned *)
(* balances, LP tokens that are all held and all backed, and active         *)
(* liquidity for every position in range (amm.rs:78-159, 217-253).          *)
PoolSound == AmmTypeOK /\ SupplyIsShares /\ SupplyIsBacked /\ ActiveCoversRanges
=============================================================================
