--------------------------- MODULE OptionsProtocol ---------------------------
(***************************************************************************)
(* The option contracts of defi/options.rs.  Every call holds the one lock *)
(* from its first test to its last write (create_option draws the id and   *)
(* prices the option before it), so a call is one step; the clock moves    *)
(* between calls.  The spot price is a constant of the code (2000 * 10^18, *)
(* which a debug build refuses to compute in 64 bits and a release build   *)
(* wraps), and 10^18 is the unit of prices and amounts.  Premiums are not  *)
(* modelled: they are computed in floating point and nothing depends on    *)
(* them.                                                                   *)
(***************************************************************************)
EXTENDS Integers, FiniteSets

CONSTANTS Accounts,   \* writers and buyers
          Contracts,  \* the options that can be created
          Strikes,    \* strike prices
          Volumes,    \* amounts
          Spot,       \* get_spot_price
          EndOfTime   \* bound: the last moment of the clock

ASSUME OptionAssumption ==
    /\ Strikes \subseteq Nat /\ Volumes \subseteq Nat
    /\ Spot \in Nat /\ EndOfTime \in Nat

VARIABLES
    now,        \* the clock
    option,     \* [Contracts -> {} or {the OptionContract}]
    payout,     \* [Contracts -> what exercise_option returned], 0 before
    returned    \* [Contracts -> the collateral it gave back], 0 before

optionVars == <<now, option, payout, returned>>

OptionInit ==
    /\ now = 0
    /\ option = [o \in Contracts |-> {}]
    /\ payout = [o \in Contracts |-> 0]
    /\ returned = [o \in Contracts |-> 0]

-----------------------------------------------------------------------------

(* A call is covered by the underlying, a put by its price in cash. *)
CollateralOf(type, strike, amount) ==
    IF type = "Call" THEN amount ELSE strike * amount

CreateOption(o, writer, type, strike, expiry, amount) ==
    /\ option[o] = {}
    /\ expiry > now
    /\ option' = [option EXCEPT ![o] =
         {[type |-> type, strike |-> strike, expiry |-> expiry, amount |-> amount,
           writer |-> writer, holders |-> {}, exercised |-> FALSE, expired |-> FALSE,
           collateral |-> CollateralOf(type, strike, amount)]}]
    /\ UNCHANGED <<now, payout, returned>>

(* Whether the option is still alive is not looked at. *)
BuyOption(o, buyer) ==
    \E c \in option[o] :
        /\ c.holders = {}
        /\ option' = [option EXCEPT ![o] = {[c EXCEPT !.holders = {buyer}]}]
        /\ UNCHANGED <<now, payout, returned>>

(* What an option is worth: exercise_option and calculate_intrinsic_value. *)
Worth(c) ==
    IF c.type = "Call" THEN (IF Spot > c.strike THEN (Spot - c.strike) * c.amount ELSE 0)
                       ELSE (IF c.strike > Spot THEN (c.strike - Spot) * c.amount ELSE 0)
Profitable(c) == IF c.type = "Call" THEN Spot > c.strike ELSE c.strike > Spot

Open(c) == ~c.exercised /\ ~c.expired

(* The holder is late: the option is marked and the call fails. *)
ExerciseLate(o, holder) ==
    \E c \in option[o] :
        /\ c.holders = {holder} /\ Open(c) /\ now > c.expiry
        /\ option' = [option EXCEPT ![o] = {[c EXCEPT !.expired = TRUE]}]
        /\ UNCHANGED <<now, payout, returned>>

(* The payout is taken off the collateral, at least to zero. *)
ExerciseOption(o, holder) ==
    \E c \in option[o] :
        /\ c.holders = {holder} /\ Open(c) /\ now <= c.expiry /\ Profitable(c)
        /\ option' = [option EXCEPT ![o] = {[c EXCEPT !.exercised = TRUE]}]
        /\ payout' = [payout EXCEPT ![o] = @ + Worth(c)]
        /\ returned' = [returned EXCEPT ![o] =
             IF c.collateral > Worth(c) THEN c.collateral - Worth(c) ELSE 0]
        /\ UNCHANGED now

Tick ==
    /\ now < EndOfTime
    /\ now' = now + 1
    /\ UNCHANGED <<option, payout, returned>>

OptionNext ==
    \/ \E o \in Contracts, w \in Accounts, type \in {"Call", "Put"}, k \in Strikes,
          e \in 0..EndOfTime, v \in Volumes : CreateOption(o, w, type, k, e, v)
    \/ \E o \in Contracts, a \in Accounts :
          BuyOption(o, a) \/ ExerciseLate(o, a) \/ ExerciseOption(o, a)
    \/ Tick

OptionSpec == OptionInit /\ [][OptionNext]_optionVars

-----------------------------------------------------------------------------
(* An option pays once: nothing before it is exercised, exactly its worth   *)
(* afterwards, whatever is tried again later, and never after it was found  *)
(* expired.  A put is covered: payout and returned collateral make up       *)
(* exactly what its writer deposited, at every strike (options.rs:81,       *)
(* 131-143, 162, 174-179).                                                  *)
PaysOnce ==
    \A o \in Contracts : \A c \in option[o] :
        /\ ~(c.exercised /\ c.expired)
        /\ payout[o] = IF c.exercised THEN Worth(c) ELSE 0
        /\ c.type = "Put" /\ c.exercised => payout[o] + returned[o] = c.collateral
=============================================================================
