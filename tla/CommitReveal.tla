---------------------------- MODULE CommitReveal -----------------------------
(***************************************************************************)
(* The commit-reveal scheme of dex/mev_protection/commit_reveal.rs.  The   *)
(* hash of a transaction and a random nonce is one commitment, so a        *)
(* commitment is named by the transaction and a reveal is right or wrong.  *)
(* Every operation holds the lock of the commitments or of the pending     *)
(* reveals from its first check to its last write.                         *)
(***************************************************************************)
EXTENDS Integers, Sequences, SequencesExt, FiniteSets, Maps

CONSTANTS SecretTxs,        \* the transactions that are committed to
          GasPrice,         \* [SecretTxs -> Nat]
          RevealTimeout,    \* reveal_timeout in seconds
          MinCommitPeriod,  \* min_commit_period in seconds
          LastSecond        \* bound: when the clock stops

ASSUME RevealAssumption == RevealTimeout \in Nat /\ MinCommitPeriod \in Nat

VARIABLES
    commitments,    \* transaction -> its Commitment
    pendingReveals, \* pending_reveals: revealed, not yet handed out
    second,         \* the system clock
    slashed,        \* history: the commitments whose senders were slashed
    released        \* history: the transactions handed out, one batch per call

revealVars == <<commitments, pendingReveals, second, slashed, released>>

RevealInit ==
    /\ commitments = <<>> /\ pendingReveals = <<>> /\ second = 0
    /\ slashed = {} /\ released = <<>>

ClockTick ==
    /\ second < LastSecond
    /\ second' = second + 1
    /\ UNCHANGED <<commitments, pendingReveals, slashed, released>>

SubmitCommitment(x) ==
    /\ x \notin DOMAIN commitments \cup slashed      \* nonces are random
    /\ commitments' = Put(commitments, x, [at |-> second, deadline |-> second + RevealTimeout,
                                           revealed |-> FALSE])
    /\ UNCHANGED <<pendingReveals, second, slashed, released>>

(* What reveal_transaction wants besides the right transaction and nonce; a *)
(* refused reveal changes nothing.                                          *)
RevealAccepted_Late(x) ==
    /\ x \in DOMAIN commitments /\ ~commitments[x].revealed
    /\ second >= commitments[x].at + MinCommitPeriod

RevealAccepted(x) ==
    /\ x \in DOMAIN commitments /\ ~commitments[x].revealed
    /\ second <= commitments[x].deadline
    /\ second >= commitments[x].at + MinCommitPeriod

RevealTransaction(x) ==
    /\ RevealAccepted(x)
    /\ commitments' = [commitments EXCEPT ![x].revealed = TRUE]
    /\ pendingReveals' = Append(pendingReveals, [tx |-> x, at |-> second])
    /\ UNCHANGED <<second, slashed, released>>

TxsOf(s) == [i \in DOMAIN s |-> s[i].tx]

IsReady(i) == second >= pendingReveals[i].at + 1

(* Highest gas price first; the order among equals is that of the nonces,   *)
(* which may be any.                                                        *)
ByPrice(s) == OrdersBy(TxsOf(s), GasPrice)

GetReadyTransactions ==
    LET ready == {i \in DOMAIN pendingReveals : IsReady(i)}
    IN  /\ ready # {}
        /\ \E r \in ByPrice(Retained(pendingReveals, ready)) : released' = Append(released, r)
        /\ pendingReveals' = Retained(pendingReveals, DOMAIN pendingReveals \ ready)
        /\ UNCHANGED <<commitments, second, slashed>>

Expired(x) == ~commitments[x].revealed /\ second > commitments[x].deadline

SlashExpired ==
    /\ LET gone == {x \in DOMAIN commitments : Expired(x)}
       IN  /\ gone # {}
           /\ slashed' = slashed \cup gone
           /\ commitments' = Restrict(commitments, DOMAIN commitments \ gone)
    /\ UNCHANGED <<pendingReveals, second, released>>

RevealNext ==
    \/ ClockTick \/ GetReadyTransactions \/ SlashExpired
    \/ \E x \in SecretTxs : SubmitCommitment(x) \/ RevealTransaction(x)

(* Each transaction is handed out at most once and only after a reveal      *)
(* within its window; nobody whose transaction was or will be handed out is *)
(* slashed; and a batch never puts a lower gas price before a higher one.   *)
RevealOnceOrSlash ==
    LET out == FlattenSeq(released)
        due == TxsOf(pendingReveals)
    IN  /\ \A i, j \in DOMAIN (out \o due) : (out \o due)[i] = (out \o due)[j] => i = j
        /\ Range(out \o due) \cap slashed = {}
        /\ Range(out \o due) = {x \in DOMAIN commitments : commitments[x].revealed}
        /\ \A i \in DOMAIN pendingReveals :
              pendingReveals[i].at <= commitments[pendingReveals[i].tx].deadline
        /\ \A n \in DOMAIN released : \A i, j \in DOMAIN released[n] :
              i < j => GasPrice[released[n][i]] >= GasPrice[released[n][j]]
=============================================================================
