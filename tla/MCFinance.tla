------------------------------ MODULE MCFinance ------------------------------
(***************************************************************************)
(* The financial components: the flash loan provider, the perpetual engine *)
(* and the option protocol that defi/mod.rs holds, the AMM pools of        *)
(* dex/mod.rs, whose reserves and concentrated positions are apart, the    *)
(* MEV protections, to one of which submit_transaction hands each          *)
(* transaction, the path search of the router, and the client of the       *)
(* external exchange.  They share no state and never call each other, so a *)
(* behaviour exercises one of them.                                        *)
(***************************************************************************)
EXTENDS FlashLoan, AmmPool, Perpetual, OptionsProtocol,
        CommitReveal, PrivatePool, BatchAuction, ThresholdEncryption, PathFinder,
        Hyperliquid, TLC

CONSTANTS s1, s2, s3, o1, o2, o3, o4, tx, ty

VARIABLE focus    \* the component that this behaviour exercises

defiVars == <<loanVars, ammVars, perpVars, optionVars>>
exchangeVars == <<vaultVars, orderVars>>
mevVars == <<revealVars, poolVars, auctionVars, cipherVars>>
mcVars == <<defiVars, mevVars, pathVars, exchangeVars, focus>>

MCInit ==
    /\ LoanInit /\ AmmInit /\ PerpInit /\ OptionInit
    /\ RevealInit /\ PoolInit /\ AuctionInit /\ CipherInit /\ PathInit
    /\ VaultInit /\ OrderInit
    /\ focus \in {"loans", "reserves", "ranges", "perpetual", "options", "reveal",
                 "private", "auction", "cipher", "paths", "vault", "orders"}

MCNext ==
    \/ /\ focus = "loans" /\ LoanNext
       /\ UNCHANGED <<ammVars, perpVars, optionVars, mevVars, pathVars, exchangeVars, focus>>
    \/ /\ \/ focus = "reserves" /\ PoolNext
          \/ focus = "ranges" /\ RangeNext
       /\ UNCHANGED <<loanVars, perpVars, optionVars, mevVars, pathVars, exchangeVars, focus>>
    \/ /\ focus = "perpetual" /\ PerpNext
       /\ UNCHANGED <<loanVars, ammVars, optionVars, mevVars, pathVars, exchangeVars, focus>>
    \/ /\ focus = "options" /\ OptionNext
       /\ UNCHANGED <<loanVars, ammVars, perpVars, mevVars, pathVars, exchangeVars, focus>>
    \/ /\ focus = "reveal" /\ RevealNext
       /\ UNCHANGED <<defiVars, poolVars, auctionVars, cipherVars, pathVars, exchangeVars, focus>>
    \/ /\ focus = "private" /\ PoolTxNext
       /\ UNCHANGED <<defiVars, revealVars, auctionVars, cipherVars, pathVars, exchangeVars, focus>>
    \/ /\ focus = "auction" /\ AuctionNext
       /\ UNCHANGED <<defiVars, revealVars, poolVars, cipherVars, pathVars, exchangeVars, focus>>
    \/ /\ focus = "cipher" /\ CipherNext
       /\ UNCHANGED <<defiVars, revealVars, poolVars, auctionVars, pathVars, exchangeVars, focus>>
    \/ /\ focus = "paths" /\ PathNext
       /\ UNCHANGED <<defiVars, mevVars, exchangeVars, focus>>
    \/ /\ focus = "vault" /\ VaultNext
       /\ UNCHANGED <<defiVars, mevVars, pathVars, orderVars, focus>>
    \/ /\ focus = "orders" /\ OrderNext
       /\ UNCHANGED <<defiVars, mevVars, pathVars, vaultVars, focus>>

MCSpec == MCInit /\ [][MCNext]_mcVars

(* One tick below the current one, at it and above it, and one off the grid. *)
MCTicks == {-60, 0, 1, 60}

MCGasPrice == (s1 :> 1) @@ (s2 :> 2) @@ (s3 :> 2)
MCBidPrice == (o1 :> 1) @@ (o2 :> 1) @@ (o3 :> 2) @@ (o4 :> 2)

(* Between four tokens, pools that are missing, light or heavy, in the order *)
(* of Pairs; and two pools of the same tokens beside others.                 *)
Pool(p, w) == [a |-> p[1], b |-> p[2], weight |-> w]
Pairs == <<<<TokenIn, TokenOut>>, <<TokenIn, tx>>, <<tx, TokenOut>>,
           <<ty, TokenIn>>, <<TokenOut, ty>>, <<tx, ty>>>>
Weights == <<{0, 3}, {0, 1, 3}, {0, 1, 3}, {0, 1}, {0, 1, 3}, {0, 1}>>
MCPoolLists ==
    {LET kept == Sorted([i \in {j \in DOMAIN Pairs : w[j] > 0} |-> i])
     IN [k \in DOMAIN kept |-> Pool(Pairs[kept[k]], w[kept[k]])] :
        w \in {v \in [DOMAIN Pairs -> {0, 1, 3}] : \A i \in DOMAIN Pairs : v[i] \in Weights[i]}}
    \cup {<<Pool(Pairs[2], v), Pool(Pairs[2], 2), Pool(Pairs[3], w), Pool(Pairs[1], 3)>> :
            v \in {1, 2, 3}, w \in {1, 2}}

(* The calls of the perpetual engine and the bundles are the same values,   *)
(* and so are the calls on the vault and on the orders.                     *)
FinanceSymmetry == Permutations(PerpCalls \cup Bundles) \cup Permutations(VaultCalls \cup OrderCalls)

(* ExecutedAsOften: a transaction that one of the MEV protections takes is   *)
(* executed as often as it lets it: at most once, and not if it was slashed, *)
(* when revealed; in at most two batches when auctioned.                     *)
ExecutedAsOften == RevealOnceOrSlash /\ ExecutedAtMostTwice

(* PoolsAccount: the flash loan pools account for every token lent, and a   *)
(* loan's record goes only with its repayment; the AMM's reserves, shares   *)
(* and ranges stay consistent.                                              *)
PoolsAccount == PoolAccounts /\ RecordsAreRepaid /\ PoolSound

(* DerivativesSound: open interest, margins and positions of the perpetual  *)
(* engine agree, a margin is paid back once however closing and             *)
(* liquidating overlap, and an option pays at most once.                    *)
DerivativesSound == PerpSound /\ PaidBackOnce /\ PaysOnce

(* ExchangeSound: the vault's value backs the shares, and no order is       *)
(* replaced twice unless two calls cancelled it at once.                    *)
ExchangeSound == VaultBacked /\ OrdersReplacedOnce
=============================================================================
