----------------------------- MODULE Tendermint ------------------------------
(***************************************************************************)
(* The engine of consensus/tendermint.rs.  A node hears only itself: it is *)
(* always the proposer, its one vote per proposal is a Prevote, and        *)
(* process_votes empties the vote channel at the end of every turn of the  *)
(* loop, so one turn is one step.  A timeout around a state change expires *)
(* when get_metrics keeps a lock for too long; the change is then left out *)
(* or, in start_new_round, half done.                                      *)
(***************************************************************************)
EXTENDS Integers, FiniteSets, Maps

CONSTANTS Validators,   \* how many there are
          LastRound     \* bound: the last round

ASSUME ValidatorsAssumption == Validators \in Nat \ {0}

VARIABLES
    tmHeight, tmRound,   \* height, round
    tmState,             \* ConsensusState
    tmVotes,             \* <<height, round, vote type>> -> how many votes
    validBlock           \* valid_block: <<height, round>> it was made in, or <<>>

tmVars == <<tmHeight, tmRound, tmState, tmVotes, validBlock>>

TmInit ==
    /\ tmHeight = 0 /\ tmRound = 0 /\ tmState = "NewHeight"
    /\ tmVotes = <<>> /\ validBlock = <<>>

Votes(type) ==
    LET key == <<tmHeight, tmRound, type>>
    IN  IF key \in DOMAIN tmVotes THEN tmVotes[key] ELSE 0

TwoThirds == (Validators * 2) \div 3 + 1

HasTwoThirdsPrevotes == Votes("Prevote") >= TwoThirds

HasTwoThirdsPrecommits_AnyType == Votes("Prevote") + Votes("Precommit") >= TwoThirds

HasTwoThirdsPrecommits == Votes("Precommit") >= TwoThirds

StartNewHeight ==
    /\ tmState = "NewHeight"
    /\ tmHeight' = tmHeight + 1 /\ tmRound' = 0 /\ tmState' = "Propose"
    /\ UNCHANGED <<tmVotes, validBlock>>

(* The block, the vote, and the step unless the timeout expires. *)
HandlePropose(expired) ==
    /\ tmState = "Propose"
    /\ validBlock' = <<tmHeight, tmRound>>
    /\ tmVotes' = Put(tmVotes, <<tmHeight, tmRound, "Prevote">>, Votes("Prevote") + 1)
    /\ tmState' = IF expired THEN tmState ELSE "Prevote"
    /\ UNCHANGED <<tmHeight, tmRound>>

(* Precommit comes with a quorum of prevotes and without one. *)
HandlePrevote(expired) ==
    /\ tmState = "Prevote"
    /\ tmState' = IF ~HasTwoThirdsPrevotes /\ expired THEN tmState ELSE "Precommit"
    /\ UNCHANGED <<tmHeight, tmRound, tmVotes, validBlock>>

(* start_new_round writes the round before it asks for the state. *)
HandlePrecommit(expired) ==
    /\ tmState = "Precommit"
    /\ IF HasTwoThirdsPrecommits THEN tmState' = "Commit" /\ UNCHANGED tmRound
       ELSE /\ tmRound' = tmRound + 1
            /\ tmState' = IF expired THEN tmState ELSE "Propose"
    /\ UNCHANGED <<tmHeight, tmVotes, validBlock>>

TmNext ==
    \/ StartNewHeight
    \/ \E expired \in BOOLEAN :
          \/ HandlePropose(expired) /\ Votes("Prevote") <= Validators
          \/ HandlePrevote(expired)
          \/ HandlePrecommit(expired) /\ tmRound < LastRound

(* No height is ever decided, whatever the number of validators and even    *)
(* when expired timeouts let the node vote often enough to make up a quorum *)
(* of prevotes by itself: no precommit is ever cast.  The first height goes *)
(* through rounds for ever and every one of them leaves its votes behind.   *)
NothingDecided ==
    /\ tmState # "Commit" /\ tmHeight <= 1
    /\ \A k \in DOMAIN tmVotes : k[1] = 1 /\ k[2] <= tmRound /\ k[3] = "Prevote"
    /\ validBlock # <<>> => <<1, validBlock[2], "Prevote">> \in DOMAIN tmVotes

TmSpec == TmInit /\ [][TmNext]_tmVars
=============================================================================
