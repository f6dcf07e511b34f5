------------------------------ MODULE NodeProofs ------------------------------
(***************************************************************************)
(* Proofs about the parts of a node: its consensus engines, its network    *)
(* with the transaction pool, its snapshots and its keys, and the parallel *)
(* execution of a batch of its transactions.                               *)
(***************************************************************************)
EXTENDS Tendermint, HotStuff, OptimisticBFT, Snapshots, Network, KeyManagement,
        ParallelExecutor, SequenceTheorems, WellFoundedInduction, TLAPS

-----------------------------------------------------------------------------
(* Tendermint, for any number of validators, rounds and expired timeouts *)

(* The only votes are the node's own prevotes of rounds of height 1.        *)
TmInv ==
    /\ tmHeight \in {0, 1} /\ tmRound \in Nat
    /\ tmState \in {"NewHeight", "Propose", "Prevote", "Precommit"}
    /\ (tmState = "NewHeight" <=> tmHeight = 0) /\ (tmHeight = 0 => tmRound = 0)
    /\ \A k \in DOMAIN tmVotes : \E r \in 0 .. tmRound : k = <<1, r, "Prevote">>
    /\ validBlock # <<>> =>
          \E r \in 0 .. tmRound : validBlock = <<1, r>> /\ <<1, r, "Prevote">> \in DOMAIN tmVotes

(* Without a precommit there are never two thirds of them: the threshold is *)
(* at least one vote, also for a single validator.                          *)
LEMMA NoPrecommits == TmInv => ~HasTwoThirdsPrecommits
<1> SUFFICES ASSUME TmInv PROVE ~HasTwoThirdsPrecommits
  OBVIOUS
<1>1. Votes("Precommit") = 0
  <2>1. <<tmHeight, tmRound, "Precommit">> \notin DOMAIN tmVotes
    BY DEF TmInv
  <2> QED  BY <2>1 DEF Votes
<1>2. TwoThirds \in Nat /\ TwoThirds >= 1
  BY ValidatorsAssumption DEF TwoThirds
<1> QED  BY <1>1, <1>2 DEF HasTwoThirdsPrecommits

LEMMA TmStep == TmInv /\ [TmNext]_tmVars => TmInv'
<1> SUFFICES ASSUME TmInv, [TmNext]_tmVars PROVE TmInv'
  OBVIOUS
<1>1. CASE StartNewHeight
  <2>1. tmHeight' = 1 /\ tmRound' = 0 /\ tmRound = 0 /\ tmState' = "Propose"
        /\ tmVotes' = tmVotes /\ validBlock' = validBlock
    BY <1>1 DEF StartNewHeight, TmInv
  <2> QED  BY <2>1 DEF TmInv
<1>2. ASSUME NEW expired \in BOOLEAN, HandlePropose(expired) PROVE TmInv'
  <2>1. tmHeight = 1 /\ tmHeight' = 1 /\ tmRound' = tmRound /\ tmRound \in Nat
    BY <1>2 DEF HandlePropose, TmInv
  <2>2. DOMAIN tmVotes' = DOMAIN tmVotes \cup {<<1, tmRound, "Prevote">>}
    BY <1>2, <2>1 DEF HandlePropose, Put
  <2>3. \A k \in DOMAIN tmVotes' : \E r \in 0 .. tmRound' : k = <<1, r, "Prevote">>
    BY <2>1, <2>2 DEF TmInv
  <2>4. validBlock' = <<1, tmRound>> /\ tmState' \in {"Propose", "Prevote"}
    BY <1>2, <2>1 DEF HandlePropose
  <2> QED  BY <2>1, <2>2, <2>3, <2>4 DEF TmInv
<1>3. ASSUME NEW expired \in BOOLEAN, HandlePrevote(expired) PROVE TmInv'
  BY <1>3 DEF HandlePrevote, TmInv
<1>4. ASSUME NEW expired \in BOOLEAN, HandlePrecommit(expired) PROVE TmInv'
  <2>1. tmRound' = tmRound + 1 /\ tmState' \in {"Propose", "Precommit"} /\ tmState = "Precommit"
        /\ tmHeight' = tmHeight /\ tmVotes' = tmVotes /\ validBlock' = validBlock
    BY <1>4, NoPrecommits DEF HandlePrecommit
  <2>2. 0 .. tmRound \subseteq 0 .. tmRound' /\ tmRound' \in Nat
    BY <2>1 DEF TmInv
  <2> QED  BY <2>1, <2>2 DEF TmInv
<1>5. CASE UNCHANGED tmVars
  BY <1>5 DEF tmVars, TmInv
<1> QED  BY <1>1, <1>2, <1>3, <1>4, <1>5 DEF TmNext

(* NeverDecides: the loop of tendermint.rs decides no height, for any       *)
(* number of validators, through any rounds and expired timeouts.           *)
THEOREM NeverDecides == TmSpec => []NothingDecided
<1>1. TmInit => TmInv
  BY DEF TmInit, TmInv
<1>2. ASSUME TmInv PROVE NothingDecided
  <2>1. ASSUME NEW k \in DOMAIN tmVotes PROVE k[1] = 1 /\ k[2] <= tmRound /\ k[3] = "Prevote"
    <3>1. PICK r \in 0 .. tmRound : k = <<1, r, "Prevote">>
      BY <1>2 DEF TmInv
    <3> QED  BY <1>2, <3>1 DEF TmInv
  <2>2. ASSUME validBlock # <<>> PROVE <<1, validBlock[2], "Prevote">> \in DOMAIN tmVotes
    <3>1. PICK r \in 0 .. tmRound : validBlock = <<1, r>> /\ <<1, r, "Prevote">> \in DOMAIN tmVotes
      BY <1>2, <2>2 DEF TmInv
    <3> QED  BY <3>1
  <2>3. tmState # "Commit" /\ tmHeight <= 1
    BY <1>2 DEF TmInv
  <2> QED  BY <2>1, <2>2, <2>3 DEF NothingDecided
<1> QED  BY <1>1, <1>2, TmStep, PTL DEF TmSpec

-----------------------------------------------------------------------------
(* KeyManagement, for any number of callers, keys and signers *)

Holds(r, k) == rotation[r].at \in {"generate", "retire"} /\ rotation[r].key = k

(* A key in a caller's hands began its rotation, and has a successor before *)
(* it is retired.                                                           *)
RotationsOK ==
    \A r \in KeyCallers :
       \/ rotation[r].at \in {"idle", "mark"}
       \/ /\ rotation[r] \in [at : {"generate", "retire"}, left : SUBSET KeyIds, key : DOMAIN keys]
          /\ keys[rotation[r].key].status # "Active"
          /\ rotation[r].at = "retire" => successors[rotation[r].key] # {}

KeyRecord == [status : {"Active", "Rotating", "Deprecated", "Recovered"}, hardware : BOOLEAN]

(* What a status says of the key's past and of the callers. *)
StatusOK(k) ==
    /\ keys[k].status = "Deprecated" => successors[k] # {}
    /\ keys[k].status = "Rotating" => k \in gaveUp \/ \E r \in KeyCallers : Holds(r, k)
    /\ keys[k].status = "Active" => successors[k] = {} /\ k \notin gaveUp

KeyInv ==
    /\ \E n \in Nat : n <= MaxKeys /\ DOMAIN keys = 1 .. n
    /\ \A k \in DOMAIN keys : keys[k] \in KeyRecord
    /\ gaveUp \subseteq DOMAIN keys /\ aged \subseteq DOMAIN keys
    /\ DOMAIN rotation = KeyCallers /\ DOMAIN successors = KeyIds
    /\ \A k \in KeyIds : successors[k] # {} => k \in DOMAIN keys
    /\ \A r \in KeyCallers : rotation[r].left \in SUBSET KeyIds
    /\ RotationsOK
    /\ \A k \in DOMAIN keys : StatusOK(k)

(* Keys have ids. *)
LEMMA KeysAreIds == KeyInv => DOMAIN keys \subseteq KeyIds
<1> SUFFICES ASSUME KeyInv PROVE DOMAIN keys \subseteq KeyIds
  OBVIOUS
<1>1. PICK n \in Nat : n <= MaxKeys /\ DOMAIN keys = 1 .. n
  BY DEF KeyInv
<1> QED  BY <1>1, KeysAssumption DEF KeyIds

(* A fresh id is the next one, and nothing is known of it. *)
LEMMA FreshKey ==
    ASSUME KeyInv, NEW n \in Fresh
    PROVE  /\ n \in KeyIds /\ n \notin DOMAIN keys /\ DOMAIN keys \cup {n} = 1 .. n
           /\ n \in Nat /\ n <= MaxKeys
           /\ successors[n] = {} /\ n \notin gaveUp
           /\ \A r \in KeyCallers : ~Holds(r, n)
<1>1. PICK m \in Nat : m <= MaxKeys /\ DOMAIN keys = 1 .. m
  BY DEF KeyInv
<1>2. Cardinality(DOMAIN keys) = m
  BY <1>1, FS_Interval
<1>3. n = m + 1 /\ n \in KeyIds
  BY <1>2 DEF Fresh
<1>4. n \notin DOMAIN keys /\ DOMAIN keys \cup {n} = 1 .. n /\ n \in Nat /\ n <= MaxKeys
  BY <1>1, <1>3, KeysAssumption DEF KeyIds
<1>5. successors[n] = {} /\ n \notin gaveUp
  BY <1>3, <1>4 DEF KeyInv
<1>6. ASSUME NEW r \in KeyCallers, Holds(r, n) PROVE FALSE
  BY <1>4, <1>6 DEF KeyInv, RotationsOK, Holds
<1> QED  BY <1>3, <1>4, <1>5, <1>6

(* generate_key and recover_key: a new key that is not rotating. *)
LEMMA NewKeyStep ==
    ASSUME KeyInv, NEW n \in Fresh, NEW e \in KeyRecord, e.status \in {"Active", "Recovered"},
           keys' = Put(keys, n, e), UNCHANGED <<aged, rotation, successors, gaveUp, shared>>
    PROVE  KeyInv'
<1>1. /\ DOMAIN keys' = DOMAIN keys \cup {n} /\ keys'[n] = e
      /\ \A k \in DOMAIN keys : keys'[k] = keys[k]
  BY FreshKey DEF Put
<1>2. \E m \in Nat : m <= MaxKeys /\ DOMAIN keys' = 1 .. m
  BY <1>1, FreshKey
<1>3. \A k \in DOMAIN keys' : keys'[k] \in KeyRecord
  BY <1>1 DEF KeyInv
<1>4. RotationsOK'
  BY <1>1 DEF KeyInv, RotationsOK
<1>5. ASSUME NEW k \in DOMAIN keys' PROVE StatusOK(k)'
  <2>1. CASE k = n
    BY <1>1, <2>1, FreshKey DEF StatusOK
  <2>2. CASE k \in DOMAIN keys
    BY <1>1, <2>2 DEF KeyInv, StatusOK, Holds
  <2> QED  BY <1>1, <2>1, <2>2
<1> QED  BY <1>1, <1>2, <1>3, <1>4, <1>5 DEF KeyInv

(* The first and the last step of a rotation change one key's status. *)
LEMMA MarkStep ==
    ASSUME KeyInv, NEW k \in DOMAIN keys, NEW r \in KeyCallers, MarkRotating(r, k)
    PROVE  KeyInv'
<1>1. /\ DOMAIN keys' = DOMAIN keys /\ keys'[k].status = "Rotating" /\ keys'[k] \in KeyRecord
      /\ \A j \in DOMAIN keys : j # k => keys'[j] = keys[j]
  BY DEF MarkRotating, KeyInv, KeyRecord
<1>2. /\ DOMAIN rotation' = KeyCallers
      /\ rotation'[r] = [at |-> "generate", left |-> rotation[r].left, key |-> k]
      /\ \A q \in KeyCallers : q # r => rotation'[q] = rotation[q]
      /\ rotation[r].at = "mark" /\ rotation[r].left \in SUBSET KeyIds
  BY DEF MarkRotating, KeyInv
<1>3. aged' \subseteq DOMAIN keys /\ UNCHANGED <<successors, gaveUp>>
  BY DEF MarkRotating, KeyInv
<1>4. RotationsOK'
  <2> SUFFICES ASSUME NEW q \in KeyCallers, rotation'[q].at \notin {"idle", "mark"}
               PROVE  /\ rotation'[q] \in [at : {"generate", "retire"}, left : SUBSET KeyIds, key : DOMAIN keys']
                      /\ keys'[rotation'[q].key].status # "Active"
                      /\ rotation'[q].at = "retire" => successors'[rotation'[q].key] # {}
    BY DEF RotationsOK
  <2>1. CASE q = r
    BY <1>1, <1>2, <2>1
  <2>2. CASE q # r
    BY <1>1, <1>2, <1>3, <2>2 DEF KeyInv, RotationsOK
  <2> QED  BY <2>1, <2>2
<1>5. ASSUME NEW j \in DOMAIN keys' PROVE StatusOK(j)'
  <2>1. CASE j = k
    <3>1. Holds(r, k)'
      BY <1>2 DEF Holds
    <3> QED  BY <1>1, <2>1, <3>1 DEF StatusOK
  <2>2. CASE j # k
    <3>1. ASSUME NEW q \in KeyCallers, Holds(q, j) PROVE Holds(q, j)'
      BY <1>2, <3>1 DEF Holds
    <3> QED  BY <1>1, <1>3, <2>2, <3>1 DEF KeyInv, StatusOK
  <2> QED  BY <2>1, <2>2
<1>6. \A q \in KeyCallers : rotation'[q].left \in SUBSET KeyIds
  BY <1>2 DEF KeyInv
<1>7. \A j \in DOMAIN keys' : keys'[j] \in KeyRecord
  BY <1>1 DEF KeyInv
<1> QED  BY <1>1, <1>2, <1>3, <1>4, <1>5, <1>6, <1>7 DEF KeyInv

LEMMA RetireStep ==
    ASSUME KeyInv, NEW r \in KeyCallers, Retire(r)
    PROVE  KeyInv'
<1> DEFINE k == rotation[r].key
<1>1. /\ rotation[r].at = "retire" /\ k \in DOMAIN keys /\ successors[k] # {}
      /\ rotation[r].left \in SUBSET KeyIds
  BY DEF Retire, KeyInv, RotationsOK
<1>2. /\ DOMAIN keys' = DOMAIN keys /\ keys'[k].status = "Deprecated" /\ keys'[k] \in KeyRecord
      /\ \A j \in DOMAIN keys : j # k => keys'[j] = keys[j]
  BY <1>1 DEF Retire, KeyInv, KeyRecord
<1>3. /\ DOMAIN rotation' = KeyCallers /\ rotation'[r].at \in {"idle", "mark"}
      /\ rotation'[r].left \in SUBSET KeyIds
      /\ \A q \in KeyCallers : q # r => rotation'[q] = rotation[q]
      /\ UNCHANGED <<aged, successors, gaveUp>>
  BY <1>1 DEF Retire, KeyInv, NoRotation
<1> HIDE DEF k
<1>4. RotationsOK'
  <2> SUFFICES ASSUME NEW q \in KeyCallers, rotation'[q].at \notin {"idle", "mark"}
               PROVE  /\ rotation'[q] \in [at : {"generate", "retire"}, left : SUBSET KeyIds, key : DOMAIN keys']
                      /\ keys'[rotation'[q].key].status # "Active"
                      /\ rotation'[q].at = "retire" => successors'[rotation'[q].key] # {}
    BY DEF RotationsOK
  <2>1. q # r /\ rotation'[q] = rotation[q]
    BY <1>3
  <2> QED  BY <1>2, <1>3, <2>1 DEF KeyInv, RotationsOK
<1>5. ASSUME NEW j \in DOMAIN keys' PROVE StatusOK(j)'
  <2>1. CASE j = k
    BY <1>1, <1>2, <1>3, <2>1 DEF StatusOK
  <2>2. CASE j # k
    <3>1. ASSUME NEW q \in KeyCallers, Holds(q, j) PROVE Holds(q, j)'
      BY <1>3, <2>2, <3>1 DEF Holds, k
    <3> QED  BY <1>2, <1>3, <2>2, <3>1 DEF KeyInv, StatusOK
  <2> QED  BY <2>1, <2>2
<1>6. /\ \A q \in KeyCallers : rotation'[q].left \in SUBSET KeyIds
      /\ \A j \in DOMAIN keys' : keys'[j] \in KeyRecord
  BY <1>1, <1>2, <1>3 DEF KeyInv
<1> QED  BY <1>2, <1>3, <1>4, <1>5, <1>6 DEF KeyInv

(* Between them a successor is made, or the hardware wallet fails. *)
LEMMA SuccessorStep ==
    ASSUME KeyInv, NEW r \in KeyCallers, NEW n \in Fresh, MakeSuccessor(r, n)
    PROVE  KeyInv'
<1> DEFINE k == rotation[r].key
<1>1. /\ rotation[r] \in [at : {"generate"}, left : SUBSET KeyIds, key : DOMAIN keys]
      /\ k \in DOMAIN keys /\ keys[k].status # "Active" /\ k \in KeyIds /\ keys[k] \in KeyRecord
  <2>1. rotation[r].at = "generate"
    BY DEF MakeSuccessor
  <2>2. /\ rotation[r] \in [at : {"generate", "retire"}, left : SUBSET KeyIds, key : DOMAIN keys]
        /\ keys[k].status # "Active"
    BY <2>1 DEF KeyInv, RotationsOK
  <2>3. k \in DOMAIN keys /\ rotation[r] \in [at : {"generate"}, left : SUBSET KeyIds, key : DOMAIN keys]
    BY <2>1, <2>2
  <2> QED  BY <2>2, <2>3, KeysAreIds DEF KeyInv
<1>2. NewKey(keys[k].hardware) \in KeyRecord /\ NewKey(keys[k].hardware).status = "Active"
  BY <1>1 DEF NewKey, KeyRecord
<1>3. /\ DOMAIN keys' = DOMAIN keys \cup {n} /\ keys'[n] \in KeyRecord /\ keys'[n].status = "Active"
      /\ \A j \in DOMAIN keys : keys'[j] = keys[j]
  BY <1>2, FreshKey DEF MakeSuccessor, AfterGenerate, Put
<1>4. /\ DOMAIN rotation' = KeyCallers /\ rotation'[r] = [rotation[r] EXCEPT !.at = "retire"]
      /\ \A q \in KeyCallers : q # r => rotation'[q] = rotation[q]
  BY DEF MakeSuccessor, KeyInv
<1>5. rotation'[r] \in [at : {"retire"}, left : SUBSET KeyIds, key : DOMAIN keys] /\ rotation'[r].key = k
  BY <1>1, <1>4
<1>6. /\ DOMAIN successors' = KeyIds /\ successors'[k] # {}
      /\ \A j \in KeyIds : j # k => successors'[j] = successors[j]
      /\ UNCHANGED <<aged, gaveUp>>
  BY <1>1 DEF MakeSuccessor, KeyInv
<1> HIDE DEF k
<1>7. RotationsOK'
  <2> SUFFICES ASSUME NEW q \in KeyCallers, rotation'[q].at \notin {"idle", "mark"}
               PROVE  /\ rotation'[q] \in [at : {"generate", "retire"}, left : SUBSET KeyIds, key : DOMAIN keys']
                      /\ keys'[rotation'[q].key].status # "Active"
                      /\ rotation'[q].at = "retire" => successors'[rotation'[q].key] # {}
    BY DEF RotationsOK
  <2>1. CASE q = r
    BY <1>1, <1>3, <1>5, <1>6, <2>1
  <2>2. CASE q # r
    <3>1. /\ rotation[q] \in [at : {"generate", "retire"}, left : SUBSET KeyIds, key : DOMAIN keys]
          /\ keys[rotation[q].key].status # "Active"
          /\ rotation[q].at = "retire" => successors[rotation[q].key] # {}
          /\ rotation'[q] = rotation[q]
      BY <1>4, <2>2 DEF KeyInv, RotationsOK
    <3>2. rotation[q].key \in DOMAIN keys /\ rotation[q].key \in KeyIds
      BY <3>1, KeysAreIds
    <3> QED  BY <1>3, <1>6, <3>1, <3>2
  <2> QED  BY <2>1, <2>2
<1>8. ASSUME NEW j \in DOMAIN keys' PROVE StatusOK(j)'
  <2>1. CASE j = n
    BY <1>1, <1>3, <1>6, <2>1, FreshKey DEF StatusOK
  <2>2. CASE j \in DOMAIN keys
    <3>1. ASSUME NEW q \in KeyCallers, Holds(q, j) PROVE Holds(q, j)'
      BY <1>4, <1>5, <3>1 DEF Holds, k
    <3>2. j \in KeyIds /\ StatusOK(j)
      BY <2>2, KeysAreIds DEF KeyInv
    <3> QED  BY <1>1, <1>3, <1>6, <2>2, <3>1, <3>2 DEF StatusOK
  <2> QED  BY <1>3, <2>1, <2>2
<1>9. /\ \E m \in Nat : m <= MaxKeys /\ DOMAIN keys' = 1 .. m
      /\ \A j \in DOMAIN keys' : keys'[j] \in KeyRecord
      /\ \A q \in KeyCallers : rotation'[q].left \in SUBSET KeyIds
      /\ \A j \in KeyIds : successors'[j] # {} => j \in DOMAIN keys'
  BY <1>1, <1>3, <1>4, <1>5, <1>6, FreshKey DEF KeyInv
<1> QED  BY <1>3, <1>4, <1>6, <1>7, <1>8, <1>9 DEF KeyInv

LEMMA FailStep ==
    ASSUME KeyInv, NEW r \in KeyCallers, HardwareFails(r)
    PROVE  KeyInv'
<1> DEFINE k == rotation[r].key
<1>1. rotation[r].at = "generate" /\ k \in DOMAIN keys /\ keys[k].status # "Active"
  BY DEF HardwareFails, KeyInv, RotationsOK
<1>2. /\ DOMAIN rotation' = KeyCallers /\ rotation'[r] = NoRotation
      /\ \A q \in KeyCallers : q # r => rotation'[q] = rotation[q]
      /\ gaveUp' = gaveUp \cup {k} /\ UNCHANGED <<keys, aged, successors>>
  BY DEF HardwareFails, KeyInv
<1> HIDE DEF k
<1>3. RotationsOK'
  BY <1>2 DEF KeyInv, RotationsOK, NoRotation
<1>4. ASSUME NEW j \in DOMAIN keys PROVE StatusOK(j)'
  <2>1. ASSUME NEW q \in KeyCallers, Holds(q, j), j # k PROVE Holds(q, j)'
    BY <1>2, <2>1 DEF Holds, k
  <2>2. StatusOK(j)
    BY DEF KeyInv
  <2> QED  BY <1>1, <1>2, <2>1, <2>2 DEF StatusOK
<1> QED  BY <1>1, <1>2, <1>3, <1>4 DEF KeyInv, NoRotation

LEMMA KeyStep == ASSUME KeyInv, KeyNext PROVE KeyInv'
<1>1. ASSUME NEW n \in Fresh, NEW hardware \in BOOLEAN, GenerateKey(n, hardware) PROVE KeyInv'
  <2>1. NewKey(hardware) \in KeyRecord /\ NewKey(hardware).status = "Active"
    BY DEF NewKey, KeyRecord
  <2> QED  BY <1>1, <2>1, NewKeyStep DEF GenerateKey
<1>2. ASSUME NEW n \in Fresh, NEW s \in shared, RecoverKey(s, n) PROVE KeyInv'
  <2>1. [status |-> "Recovered", hardware |-> FALSE] \in KeyRecord
    BY DEF KeyRecord
  <2> QED  BY <1>2, <2>1, NewKeyStep DEF RecoverKey
<1>3. ASSUME NEW k \in DOMAIN keys, KeyAges(k) \/ Sign(k) \/ CreateShares(k) PROVE KeyInv'
  BY <1>3 DEF KeyAges, Sign, CreateShares, KeyInv, RotationsOK, StatusOK, Holds
<1>4. ASSUME NEW r \in KeyCallers, NEW ks \in SUBSET DOMAIN keys, StartRotation(r, ks) PROVE KeyInv'
  <2>1. /\ DOMAIN rotation' = KeyCallers /\ rotation'[r] = [at |-> "mark", left |-> ks]
        /\ rotation[r].at = "idle" /\ UNCHANGED <<keys, aged, successors, gaveUp>>
        /\ \A q \in KeyCallers : q # r => rotation'[q] = rotation[q]
    BY <1>4 DEF StartRotation, KeyInv
  <2>2. ks \in SUBSET KeyIds
    BY KeysAreIds
  <2>3. RotationsOK'
    BY <2>1 DEF KeyInv, RotationsOK
  <2>4. \A j \in KeyIds, q \in KeyCallers : Holds(q, j) => Holds(q, j)'
    BY <2>1 DEF Holds
  <2>5. ASSUME NEW j \in DOMAIN keys PROVE StatusOK(j)'
    <3>1. j \in KeyIds /\ StatusOK(j)
      BY KeysAreIds DEF KeyInv
    <3> QED  BY <2>1, <2>4, <3>1 DEF StatusOK
  <2> QED  BY <2>1, <2>2, <2>3, <2>5 DEF KeyInv
<1>5. ASSUME NEW k \in DOMAIN keys PROVE {k} \in SUBSET DOMAIN keys
  OBVIOUS
<1>6. aged \in SUBSET DOMAIN keys
  BY DEF KeyInv
<1> QED
  BY <1>1, <1>2, <1>3, <1>4, <1>5, <1>6, MarkStep, SuccessorStep, FailStep, RetireStep DEF KeyNext

-----------------------------------------------------------------------------
(* A transaction waits below the threshold, or ran once with just enough    *)
(* signers.                                                                 *)
WalletInv ==
    /\ DOMAIN walletRuns = WalletTxs
    /\ \A t \in DOMAIN wallet : wallet[t] \in SUBSET Signers /\ Cardinality(wallet[t]) < Threshold
    /\ \A t \in WalletTxs :
          /\ t \in DOMAIN wallet => walletRuns[t] = {}
          /\ walletRuns[t] = {} \/ \E s \in SUBSET Signers : walletRuns[t] = {s} /\ Cardinality(s) = Threshold

LEMMA WalletStep == ASSUME WalletInv, WalletNext PROVE WalletInv'
<1>1. ASSUME NEW t \in WalletTxs, SubmitToWallet(t) PROVE WalletInv'
  <2>1. /\ DOMAIN wallet' = DOMAIN wallet \cup {t} /\ wallet'[t] = {} /\ UNCHANGED walletRuns
        /\ \A u \in DOMAIN wallet : wallet'[u] = wallet[u]
        /\ walletRuns[t] = {}
    BY <1>1 DEF SubmitToWallet, Put
  <2>2. Cardinality({}) < Threshold
    BY FS_EmptySet, FS_CardinalityType, WalletAssumption
  <2> QED  BY <2>1, <2>2 DEF WalletInv
<1>2. ASSUME NEW t \in WalletTxs, NEW s \in Signers, SignTransaction(t, s) PROVE WalletInv'
  <2> DEFINE all == wallet[t] \cup {s}
  <2>1. t \in DOMAIN wallet /\ wallet[t] \in SUBSET Signers /\ Cardinality(wallet[t]) < Threshold
        /\ walletRuns[t] = {}
    BY <1>2 DEF SignTransaction, WalletInv
  <2>2. IsFiniteSet(wallet[t]) /\ Cardinality(wallet[t]) \in Nat /\ Threshold \in Nat
    BY <2>1, FS_Subset, FS_CardinalityType, WalletAssumption
  <2>3. Cardinality(all) \in Nat /\ Cardinality(all) <= Threshold /\ all \in SUBSET Signers
    <3>1. IsFiniteSet(all) /\ (Cardinality(all) = Cardinality(wallet[t]) \/ Cardinality(all) = Cardinality(wallet[t]) + 1)
      BY <2>2, FS_AddElement
    <3>2. Cardinality(all) \in Nat
      BY <3>1, FS_CardinalityType
    <3> HIDE DEF all
    <3>3. Cardinality(all) <= Threshold
      BY <2>1, <2>2, <3>1, <3>2
    <3> QED  BY <2>1, <3>2, <3>3 DEF all
  <2>4. CASE ReachesThreshold(all)
    <3>1. /\ DOMAIN walletRuns' = WalletTxs /\ walletRuns'[t] = {all}
          /\ \A u \in WalletTxs : u # t => walletRuns'[u] = walletRuns[u]
      BY <1>2, <2>1, <2>4 DEF SignTransaction, WalletInv
    <3>2. DOMAIN wallet' = DOMAIN wallet \ {t} /\ \A u \in DOMAIN wallet' : wallet'[u] = wallet[u]
      BY <1>2, <2>4 DEF SignTransaction, Drop
    <3>3. Cardinality(all) = Threshold
      BY <2>2, <2>3, <2>4 DEF ReachesThreshold
    <3> QED  BY <2>3, <3>1, <3>2, <3>3 DEF WalletInv
  <2>5. CASE ~ReachesThreshold(all)
    <3>1. /\ DOMAIN wallet' = DOMAIN wallet /\ wallet'[t] = all /\ UNCHANGED walletRuns
          /\ \A u \in DOMAIN wallet : u # t => wallet'[u] = wallet[u]
      BY <1>2, <2>1, <2>5 DEF SignTransaction, Put
    <3>2. Cardinality(all) < Threshold
      BY <2>2, <2>3, <2>5 DEF ReachesThreshold
    <3> QED  BY <2>3, <3>1, <3>2 DEF WalletInv
  <2> QED  BY <2>4, <2>5
<1> QED  BY <1>1, <1>2 DEF WalletNext

(* KeysAlwaysRetire: the life of keys and of wallet transactions in         *)
(* key_management.rs, however many callers rotate the same keys.            *)
THEOREM KeysAlwaysRetire == KeySpec => []KeysRetire
<1>1. KeyInit /\ WalletInit => KeyInv /\ WalletInv
  <2>1. 1 .. 0 = {} /\ DOMAIN <<>> = {} /\ 0 \in Nat /\ 0 <= MaxKeys
    BY KeysAssumption
  <2> SUFFICES ASSUME KeyInit, WalletInit PROVE KeyInv /\ WalletInv
    OBVIOUS
  <2>2. \E n \in Nat : n <= MaxKeys /\ DOMAIN keys = 1 .. n
    BY <2>1 DEF KeyInit
  <2>3. KeyInv
    BY <2>1, <2>2 DEF KeyInit, KeyInv, RotationsOK, StatusOK, NoRotation
  <2> QED  BY <2>1, <2>3 DEF WalletInit, WalletInv
<1>2. ASSUME KeyInv, WalletInv,
             [\/ KeyNext /\ UNCHANGED walletVars
              \/ WalletNext /\ UNCHANGED keyVars]_<<keyVars, walletVars>>
      PROVE  KeyInv' /\ WalletInv'
  <2>1. ASSUME UNCHANGED walletVars PROVE WalletInv'
    <3>1. wallet' = wallet /\ walletRuns' = walletRuns
      BY <2>1 DEF walletVars
    <3> QED  BY <1>2, <3>1 DEF WalletInv
  <2>2. ASSUME UNCHANGED keyVars PROVE KeyInv'
    <3>1. /\ keys' = keys /\ aged' = aged /\ rotation' = rotation
          /\ successors' = successors /\ gaveUp' = gaveUp
      BY <2>2 DEF keyVars
    <3>2. \A r, k : Holds(r, k)' <=> Holds(r, k)
      BY <3>1 DEF Holds
    <3>3. ASSUME NEW k \in DOMAIN keys PROVE StatusOK(k)'
      BY <1>2, <3>1, <3>2 DEF KeyInv, StatusOK
    <3>4. RotationsOK'
      BY <1>2, <3>1 DEF KeyInv, RotationsOK
    <3> QED  BY <1>2, <3>1, <3>3, <3>4 DEF KeyInv
  <2>3. CASE KeyNext /\ UNCHANGED walletVars
    BY <1>2, <2>1, <2>3, KeyStep
  <2>4. CASE WalletNext /\ UNCHANGED keyVars
    BY <1>2, <2>2, <2>4, WalletStep
  <2>5. CASE UNCHANGED <<keyVars, walletVars>>
    BY <2>1, <2>2, <2>5
  <2> QED  BY <1>2, <2>3, <2>4, <2>5
<1>3. ASSUME KeyInv, WalletInv PROVE KeysRetire
  <2>1. ASSUME NEW t \in WalletTxs
        PROVE  /\ Cardinality(walletRuns[t]) <= 1 /\ \A s \in walletRuns[t] : Cardinality(s) = Threshold
               /\ t \in DOMAIN wallet => walletRuns[t] = {} /\ ~ReachesThreshold(wallet[t])
    <3>1. walletRuns[t] = {} \/ \E s : walletRuns[t] = {s} /\ Cardinality(s) = Threshold
      BY <1>3 DEF WalletInv
    <3>2. Cardinality(walletRuns[t]) <= 1
      <4>1. CASE walletRuns[t] = {}
        <5>1. Cardinality(walletRuns[t]) = 0
          BY <4>1, FS_EmptySet
        <5> QED  BY <5>1
      <4>2. ASSUME NEW s, walletRuns[t] = {s} PROVE Cardinality(walletRuns[t]) <= 1
        <5>1. Cardinality(walletRuns[t]) = 1
          BY <4>2, FS_Singleton
        <5> QED  BY <5>1
      <4> QED  BY <3>1, <4>1, <4>2
    <3>3. ASSUME t \in DOMAIN wallet PROVE walletRuns[t] = {} /\ ~ReachesThreshold(wallet[t])
      <4>1. walletRuns[t] = {} /\ wallet[t] \in SUBSET Signers /\ Cardinality(wallet[t]) < Threshold
        BY <1>3, <3>3 DEF WalletInv
      <4>2. Cardinality(wallet[t]) \in Nat /\ Threshold \in Nat
        BY <4>1, FS_Subset, FS_CardinalityType, WalletAssumption
      <4> QED  BY <4>1, <4>2 DEF ReachesThreshold
    <3> QED  BY <3>1, <3>2, <3>3
  <2> QED  BY <1>3, <2>1 DEF KeysRetire, KeyInv, StatusOK, Holds
<1> QED  BY <1>1, <1>2, <1>3, PTL DEF KeySpec

-----------------------------------------------------------------------------
(* HsTyped, VotesCounted: the main loop holds at most one proposal that the *)
(* vote channel has not counted.                                            *)
HsTyped ==
    /\ hsView \in 0 .. (HsValidators - 1) /\ hsTicks \in 0 .. (2 * HsValidators - 1)
    /\ hsTimer \in [at : {"wait", "write"}, current : 0 .. (HsValidators - 1),
                    last : 0 .. (HsValidators - 1)]
    /\ hsMain \in [at : {"loop", "propose", "broadcast", "vote"}, view : 0 .. (HsValidators - 1)]
    /\ hsVotes \in 0 .. VoteSlots /\ hsProposals \in Nat
VotesCounted == hsProposals = hsVotes + IF hsMain.at \in {"loop", "propose"} THEN 0 ELSE 1

(* TicksCount: k views have passed, and the timer has still to see the new  *)
(* one, to change it, or to forget the change it made.                      *)
TicksCount ==
    HsValidators # 1 =>
        \E k \in 0 .. (HsValidators - 1) :
            \/ hsTicks = 2 * k /\ hsTimer.at = "wait" /\ hsTimer.last = k /\ hsView = k
            \/ hsTicks = 2 * k + 1 /\ hsTimer.at = "write" /\ hsTimer.current = k /\ hsView = k
            \/ /\ hsTicks = 2 * k + 1 /\ hsTimer.at = "wait" /\ hsTimer.last = k
               /\ hsView = IF k + 1 = HsValidators THEN 0 ELSE k + 1
HsInv == HsTyped /\ VotesCounted /\ TicksCount

LEMMA WrapFact ==
    ASSUME NEW n \in Nat \ {0}, NEW k \in 0 .. n
    PROVE  k % n = IF k = n THEN 0 ELSE k
<1>1. CASE k = n
  BY <1>1
<1>2. CASE k < n
  BY <1>2
<1> QED  BY <1>1, <1>2

LEMMA HsTimerStep ==
    ASSUME HsInv, TimerReads \/ TimerWrites
    PROVE  HsInv'
<1>0. HsValidators \in Nat \ {0} /\ 2 * HsValidators \in Nat \ {0}
  BY HotStuffAssumption
<1>1. ASSUME NEW x \in 0 .. (HsValidators - 1)
      PROVE  (x + 1) % HsValidators = IF x + 1 = HsValidators THEN 0 ELSE x + 1
  <2>1. x + 1 \in 0 .. HsValidators  BY <1>0
  <2> QED  BY <1>0, <2>1, WrapFact
<1>2. ASSUME NEW x \in 0 .. (2 * HsValidators - 1)
      PROVE  (x + 1) % (2 * HsValidators) = IF x + 1 = 2 * HsValidators THEN 0 ELSE x + 1
  <2> DEFINE n == 2 * HsValidators
  <2>1. x + 1 \in 0 .. n /\ n \in Nat \ {0}  BY <1>0
  <2> HIDE DEF n
  <2>2. (x + 1) % n = IF x + 1 = n THEN 0 ELSE x + 1  BY <2>1, WrapFact
  <2> QED  BY <2>2 DEF n
<1>3. CASE TimerReads
  <2>1. /\ hsTimer.at = "wait" /\ UNCHANGED <<hsView, hsMain, hsMsgs, hsVotes, hsProposals>>
        /\ hsTicks' = IF hsTicks + 1 = 2 * HsValidators THEN 0 ELSE hsTicks + 1
    <3>1. hsTicks \in 0 .. (2 * HsValidators - 1) /\ hsTicks' = (hsTicks + 1) % (2 * HsValidators)
      BY <1>3 DEF TimerReads, HsInv, HsTyped
    <3> QED  BY <1>2, <1>3, <3>1 DEF TimerReads
  <2>a. /\ hsTimer' \in [at : {"wait", "write"}, current : 0 .. (HsValidators - 1),
                         last : 0 .. (HsValidators - 1)]
        /\ hsView = hsTimer.last => /\ hsTimer'.at = "write" /\ hsTimer'.current = hsView
                                    /\ hsTimer'.last = hsTimer.last
        /\ hsView # hsTimer.last => hsTimer'.at = "wait" /\ hsTimer'.last = hsView
    BY <1>3 DEF TimerReads, HsInv, HsTyped
  <2>2. HsTyped'
    <3>1. hsTicks' \in 0 .. (2 * HsValidators - 1)
      BY <1>0, <2>1 DEF HsInv, HsTyped
    <3> QED  BY <2>1, <2>a, <3>1 DEF HsInv, HsTyped
  <2>3. TicksCount'
    <3> SUFFICES ASSUME HsValidators # 1 PROVE TicksCount'
      BY DEF TicksCount
    <3>1. PICK k \in 0 .. (HsValidators - 1) :
             \/ hsTicks = 2 * k /\ hsTimer.last = k /\ hsView = k
             \/ hsTicks = 2 * k + 1 /\ hsTimer.last = k
                  /\ hsView = IF k + 1 = HsValidators THEN 0 ELSE k + 1
      BY <2>1 DEF HsInv, TicksCount
    <3>2. CASE hsTicks = 2 * k /\ hsTimer.last = k /\ hsView = k
      <4>1. hsTicks + 1 # 2 * HsValidators
        BY <1>0, <3>2
      <4> QED  BY <2>1, <2>a, <3>2, <4>1 DEF TicksCount
    <3>3. CASE hsTicks = 2 * k + 1 /\ hsTimer.last = k
                  /\ hsView = IF k + 1 = HsValidators THEN 0 ELSE k + 1
      <4>1. hsView # hsTimer.last
        BY <1>0, <3>3
      <4>2. CASE k + 1 = HsValidators
        BY <1>0, <2>1, <2>a, <3>3, <4>1, <4>2 DEF TicksCount
      <4>3. CASE k + 1 # HsValidators
        <5>1. hsTicks' = 2 * (k + 1) /\ k + 1 \in 0 .. (HsValidators - 1)
          BY <1>0, <2>1, <3>3, <4>3
        <5> QED  BY <2>1, <2>a, <3>3, <4>1, <4>3, <5>1 DEF TicksCount
      <4> QED  BY <4>2, <4>3
    <3> QED  BY <3>1, <3>2, <3>3
  <2> QED  BY <2>1, <2>2, <2>3 DEF HsInv, VotesCounted
<1>4. CASE TimerWrites
  <2>1. /\ hsTimer.at = "write" /\ UNCHANGED <<hsTicks, hsMain, hsMsgs, hsVotes, hsProposals>>
        /\ hsTimer' = [at |-> "wait", current |-> 0, last |-> hsTimer.current]
        /\ hsView' = IF hsTimer.current + 1 = HsValidators THEN 0 ELSE hsTimer.current + 1
        /\ hsTimer.current \in 0 .. (HsValidators - 1)
    BY <1>1, <1>4 DEF TimerWrites, HsInv, HsTyped
  <2>2. HsTyped'
    BY <1>0, <2>1 DEF HsInv, HsTyped
  <2>3. TicksCount'
    BY <2>1 DEF HsInv, TicksCount
  <2> QED  BY <2>1, <2>2, <2>3 DEF HsInv, VotesCounted
<1> QED  BY <1>3, <1>4

LEMMA HsMainStep ==
    ASSUME HsInv, MainLooks \/ MainProposes \/ MainBroadcasts \/ MainVotes \/ HandleProposal
    PROVE  HsInv'
<1>1. UNCHANGED <<hsView, hsTicks, hsTimer>>
  BY DEF MainLooks, MainProposes, MainBroadcasts, MainVotes, HandleProposal
<1>2. /\ hsVotes' \in 0 .. VoteSlots /\ hsProposals' \in Nat
      /\ hsMain' \in [at : {"loop", "propose", "broadcast", "vote"}, view : 0 .. (HsValidators - 1)]
      /\ VotesCounted'
  <2> USE HotStuffAssumption DEF HsInv, HsTyped, VotesCounted
  <2>1. CASE MainLooks  BY <2>1 DEF MainLooks
  <2>2. CASE MainProposes  BY <2>2 DEF MainProposes
  <2>3. CASE MainBroadcasts  BY <2>3 DEF MainBroadcasts
  <2>4. CASE MainVotes
    <3>1. /\ hsVotes' = hsVotes + 1 /\ hsVotes' <= VoteSlots /\ hsProposals' = hsProposals
          /\ hsMain.at = "vote" /\ hsMain' = [hsMain EXCEPT !.at = "loop"]
      BY <2>4 DEF MainVotes, VoteSent
    <3> QED  BY <3>1
  <2>5. CASE HandleProposal  BY <2>5 DEF HandleProposal
  <2> QED  BY <2>1, <2>2, <2>3, <2>4, <2>5
<1>3. TicksCount'
  BY <1>1 DEF HsInv, TicksCount
<1> QED  BY <1>1, <1>2, <1>3 DEF HsInv, HsTyped

(* ProposalsAlwaysRunOut: for any number of validators and any capacities   *)
(* of the channels, the node of hotstuff.rs begins at most one proposal     *)
(* more than the unread vote channel has slots, and its views go on at      *)
(* every second tick only.                                                  *)
THEOREM ProposalsAlwaysRunOut == HsSpec => []ProposalsRunOut
<1>1. HsInit => HsInv
  BY HotStuffAssumption DEF HsInit, HsInv, HsTyped, VotesCounted, TicksCount
<1>2. HsInv /\ [HsNext]_hsVars => HsInv'
  <2> SUFFICES ASSUME HsInv, [HsNext]_hsVars PROVE HsInv'
    OBVIOUS
  <2>1. CASE UNCHANGED hsVars
    BY <2>1 DEF hsVars, HsInv, HsTyped, VotesCounted, TicksCount
  <2> QED  BY <2>1, HsMainStep, HsTimerStep DEF HsNext
<1>3. HsInv => ProposalsRunOut
  <2> SUFFICES ASSUME HsInv PROVE ProposalsRunOut
    OBVIOUS
  <2>1. hsProposals <= VoteSlots + 1
    BY HotStuffAssumption DEF HsInv, HsTyped, VotesCounted
  <2>2. ASSUME hsTimer.at = "wait" PROVE hsView = ((hsTicks + 1) \div 2) % HsValidators
    <3>1. CASE HsValidators = 1
      <4>1. hsView = 0 /\ hsTicks + 1 \in {1, 2}
        BY <3>1 DEF HsInv, HsTyped
      <4>2. ((hsTicks + 1) \div 2) \in {0, 1}
        BY <4>1
      <4> QED  BY <3>1, <4>1, <4>2
    <3>2. CASE HsValidators # 1
      <4>1. PICK k \in 0 .. (HsValidators - 1) :
               \/ hsTicks = 2 * k /\ hsView = k
               \/ hsTicks = 2 * k + 1 /\ hsView = IF k + 1 = HsValidators THEN 0 ELSE k + 1
        BY <2>2, <3>2 DEF HsInv, TicksCount
      <4>2. k \in 0 .. HsValidators /\ k + 1 \in 0 .. HsValidators /\ k # HsValidators
        BY HotStuffAssumption
      <4>3. CASE hsTicks = 2 * k /\ hsView = k
        <5>1. (hsTicks + 1) \div 2 = k
          BY <4>2, <4>3
        <5> QED  BY <4>2, <4>3, <5>1, WrapFact, HotStuffAssumption
      <4>4. CASE hsTicks = 2 * k + 1 /\ hsView = IF k + 1 = HsValidators THEN 0 ELSE k + 1
        <5>1. (hsTicks + 1) \div 2 = k + 1
          BY <4>2, <4>4
        <5> QED  BY <4>2, <4>4, <5>1, WrapFact, HotStuffAssumption
      <4> QED  BY <4>1, <4>3, <4>4
    <3> QED  BY <3>1, <3>2
  <2> QED  BY <2>1, <2>2 DEF HsInv, VotesCounted, ProposalsRunOut
<1> QED  BY <1>1, <1>2, <1>3, PTL DEF HsSpec

-----------------------------------------------------------------------------
(* PoolTyped: an account queues its own transactions.  QueueApart: without  *)
(* a second sending, what is queued is queued once and not pending.         *)
PoolTyped ==
    /\ IsFiniteSet(pending) /\ pending \subseteq PoolTxs
    /\ pruned \in BOOLEAN /\ resent \in BOOLEAN
    /\ queued \in [Accounts -> Seq(PoolTxs)]
    /\ \A a \in Accounts : \A i \in 1 .. Len(queued[a]) : SenderOf[queued[a][i]] = a
QueueApart ==
    ~resent => \A a \in Accounts : \A i \in 1 .. Len(queued[a]) :
        /\ queued[a][i] \notin pending
        /\ \A j \in 1 .. Len(queued[a]) : queued[a][i] = queued[a][j] => i = j
PoolInv == PoolTyped /\ QueueApart /\ PoolKeepsLimits

(* Replacing an element changes the size only if the new one is there.      *)
LEMMA SwapFact ==
    ASSUME NEW S, IsFiniteSet(S), NEW t \in S, NEW x
    PROVE  /\ IsFiniteSet((S \ {t}) \cup {x})
           /\ Cardinality((S \ {t}) \cup {x}) <= Cardinality(S)
           /\ x \notin S => Cardinality((S \ {t}) \cup {x}) = Cardinality(S)
<1>1. IsFiniteSet(S \ {t}) /\ Cardinality(S \ {t}) = Cardinality(S) - 1 /\ Cardinality(S) \in Nat
  BY FS_RemoveElement, FS_CardinalityType
<1>2. /\ IsFiniteSet((S \ {t}) \cup {x})
      /\ Cardinality((S \ {t}) \cup {x}) = IF x \in S \ {t} THEN Cardinality(S \ {t})
                                           ELSE Cardinality(S \ {t}) + 1
  BY <1>1, FS_AddElement
<1> QED  BY <1>1, <1>2

LEMMA PendingFact ==
    ASSUME PoolInv, NEW a \in Accounts
    PROVE  /\ IsFiniteSet(PendingOf(a)) /\ Cardinality(PendingOf(a)) \in Nat
           /\ Cardinality(pending) \in Nat
BY FS_Subset, FS_CardinalityType DEF PoolInv, PoolTyped, PendingOf

(* The pool keeps its shape when it only loses pending transactions.        *)
LEMMA ShrinkStep ==
    ASSUME PoolInv, pending' \subseteq pending, UNCHANGED resent,
           \/ queued' = queued /\ pruned' = TRUE
           \/ queued' = [a \in Accounts |-> <<>>] /\ pruned' = pruned
    PROVE  PoolInv'
<1>1. IsFiniteSet(pending') /\ Cardinality(pending') <= Cardinality(pending)
  BY FS_Subset DEF PoolInv, PoolTyped
<1>2. PoolTyped'
  <2>1. <<>> \in Seq(PoolTxs) /\ Len(<<>>) = 0 /\ 1 .. 0 = {}
    OBVIOUS
  <2>2. CASE queued' = queued /\ pruned' = TRUE
    BY <1>1, <2>2 DEF PoolInv, PoolTyped
  <2>3. CASE queued' = [a \in Accounts |-> <<>>] /\ pruned' = pruned
    <3>1. /\ queued' \in [Accounts -> Seq(PoolTxs)]
          /\ \A a \in Accounts : 1 .. Len(queued'[a]) = {}
      BY <2>1, <2>3
    <3> QED  BY <1>1, <2>3, <3>1 DEF PoolInv, PoolTyped
  <2> QED  BY <2>2, <2>3
<1>3. QueueApart'
  BY DEF PoolInv, QueueApart
<1>4. Cardinality(pending') <= PoolSize
  <2>1. Cardinality(pending') \in Nat /\ Cardinality(pending) \in Nat
    BY <1>1, FS_CardinalityType DEF PoolInv, PoolTyped
  <2> QED  BY <1>1, <2>1, NetworkAssumption DEF PoolInv, PoolKeepsLimits
<1>5. ASSUME NEW a \in Accounts PROVE Cardinality(PendingOf(a)') <= PerAccount
  <2>1. PendingOf(a)' \subseteq PendingOf(a)
    BY DEF PendingOf
  <2>2. /\ Cardinality(PendingOf(a)') <= Cardinality(PendingOf(a))
        /\ Cardinality(PendingOf(a)') \in Nat /\ Cardinality(PendingOf(a)) \in Nat
    BY <2>1, PendingFact, FS_Subset, FS_CardinalityType
  <2> QED  BY <2>2, NetworkAssumption DEF PoolInv, PoolKeepsLimits
<1>6. PoolKeepsLimits'
  BY <1>4, <1>5 DEF PoolKeepsLimits, PendingOf
<1> QED  BY <1>2, <1>3, <1>6 DEF PoolInv

LEMMA RemoveStep ==
    ASSUME PoolInv, NEW t \in PoolTxs, RemoveTransaction(t)
    PROVE  PoolInv'
<1> DEFINE a == SenderOf[t]
           q == queued[a]
           x == q[Len(q)]
<1>1. /\ a \in Accounts /\ t \in pending /\ t \in PendingOf(a)
      /\ q \in Seq(PoolTxs) /\ Len(q) \in Nat
      /\ pending' = (pending \ {t}) \cup Promoted(a) /\ UNCHANGED <<pruned, resent>>
      /\ queued' = [queued EXCEPT ![a] = SubSeq(q, 1, Len(q) - Cardinality(Promoted(a)))]
  BY DEF RemoveTransaction, Accounts, PendingOf, PoolInv, PoolTyped
<1>2. CASE q = <<>>
  <2>1. Promoted(a) = {} /\ Cardinality(Promoted(a)) = 0
    BY <1>2, FS_EmptySet DEF Promoted
  <2>2. SubSeq(q, 1, 0) = q
    BY <1>2, SubSeqEmpty
  <2>3. pending' = pending \ {t} /\ queued' = queued
    BY <1>1, <1>2, <2>1, <2>2 DEF PoolInv, PoolTyped
  <2>4. IsFiniteSet(pending') /\ Cardinality(pending') <= PoolSize
    <3>1. IsFiniteSet(pending') /\ Cardinality(pending') = Cardinality(pending) - 1
      BY <1>1, <2>3, FS_RemoveElement DEF PoolInv, PoolTyped
    <3>2. Cardinality(pending) \in Nat /\ Cardinality(pending) <= PoolSize
      BY <1>1, PendingFact DEF PoolInv, PoolKeepsLimits
    <3> QED  BY <3>1, <3>2, NetworkAssumption
  <2>5. ASSUME NEW b \in Accounts
        PROVE  /\ Cardinality(PendingOf(b)') <= PerAccount
               /\ b # a => PendingOf(b)' = PendingOf(b)
    <3>1. b # a => PendingOf(b)' = PendingOf(b)
      BY <2>3 DEF PendingOf
    <3>2. b = a => PendingOf(b)' = PendingOf(b) \ {t}
      BY <2>3 DEF PendingOf
    <3>3. b = a => Cardinality(PendingOf(b) \ {t}) = Cardinality(PendingOf(b)) - 1
      BY <1>1, PendingFact, FS_RemoveElement
    <3>4. Cardinality(PendingOf(b)) \in Nat /\ Cardinality(PendingOf(b)) <= PerAccount
      BY PendingFact DEF PoolInv, PoolKeepsLimits
    <3> HIDE DEF a
    <3>5. CASE b # a
      BY <3>1, <3>4, <3>5
    <3>6. CASE b = a
      <4>1. Cardinality(PendingOf(b)') = Cardinality(PendingOf(b)) - 1
        <5>1. PendingOf(b)' = PendingOf(b) \ {t}
          BY <3>2, <3>6
        <5> QED  BY <3>3, <3>6, <5>1
      <4> QED  BY <3>4, <3>6, <4>1, NetworkAssumption
    <3> QED  BY <3>5, <3>6
  <2>6. PoolTyped' /\ QueueApart'
    BY <1>1, <2>3, <2>4 DEF PoolInv, PoolTyped, QueueApart
  <2>7. PoolKeepsLimits'
    BY <1>1, <1>2, <2>3, <2>4, <2>5 DEF PoolInv, PoolKeepsLimits, PendingOf
  <2> QED  BY <2>6, <2>7 DEF PoolInv
<1>3. CASE q # <<>>
  <2>1. /\ Promoted(a) = {x} /\ Cardinality(Promoted(a)) = 1 /\ Len(q) \in 1 .. Len(q)
        /\ x \in PoolTxs /\ SenderOf[x] = a
    <3>1. Promoted(a) = {x}
      BY <1>3 DEF Promoted
    <3>2. Len(q) \in 1 .. Len(q)
      BY <1>1, <1>3, EmptySeq
    <3>3. x \in PoolTxs
      BY <1>1, <3>2
    <3>4. \A i \in 1 .. Len(q) : SenderOf[q[i]] = a
      BY <1>1 DEF PoolInv, PoolTyped
    <3>5. SenderOf[x] = a
      BY <3>2, <3>4
    <3> QED  BY <3>1, <3>2, <3>3, <3>5, FS_Singleton
  <2> DEFINE r == SubSeq(q, 1, Len(q) - 1)
  <2>2. r \in Seq(PoolTxs) /\ Len(r) = Len(q) - 1 /\ \A i \in 1 .. (Len(q) - 1) : r[i] = q[i]
    BY <1>1, <2>1, SubSeqProperties
  <2>3. /\ pending' = (pending \ {t}) \cup {x} /\ queued'[a] = r
        /\ \A b \in Accounts \ {a} : queued'[b] = queued[b]
        /\ queued' \in [Accounts -> Seq(PoolTxs)]
    BY <1>1, <2>1, <2>2 DEF PoolInv, PoolTyped
  <2> HIDE DEF r
  <2>4. IsFiniteSet(pending') /\ Cardinality(pending') <= PoolSize
    <3>1. IsFiniteSet(pending') /\ Cardinality(pending') <= Cardinality(pending)
      <4>1. IsFiniteSet(pending) /\ t \in pending
        BY <1>1 DEF PoolInv, PoolTyped
      <4> HIDE DEF x
      <4> QED  BY <2>3, <4>1, SwapFact
    <3>2. Cardinality(pending') \in Nat
      BY <3>1, FS_CardinalityType
    <3> QED  BY <1>1, <3>1, <3>2, PendingFact, NetworkAssumption DEF PoolInv, PoolKeepsLimits
  <2>5. PendingOf(a)' = (PendingOf(a) \ {t}) \cup {x}
    BY <1>1, <2>1, <2>3 DEF PendingOf
  <2>6. /\ Cardinality(PendingOf(a)') <= Cardinality(PendingOf(a))
        /\ Cardinality(PendingOf(a)') \in Nat
        /\ ~resent => Cardinality(PendingOf(a)') = Cardinality(PendingOf(a))
    <3>1. ~resent => x \notin PendingOf(a)
      BY <1>1, <2>1 DEF PendingOf, PoolInv, QueueApart
    <3>2. IsFiniteSet(PendingOf(a)) /\ t \in PendingOf(a)
      BY <1>1, PendingFact
    <3> HIDE DEF x, a
    <3>3. /\ IsFiniteSet(PendingOf(a)') /\ Cardinality(PendingOf(a)') <= Cardinality(PendingOf(a))
          /\ x \notin PendingOf(a) => Cardinality(PendingOf(a)') = Cardinality(PendingOf(a))
      BY <2>5, <3>2, SwapFact
    <3> QED  BY <3>1, <3>3, FS_CardinalityType
  <2>7. ASSUME NEW b \in Accounts \ {a} PROVE PendingOf(b)' = PendingOf(b)
    BY <2>1, <2>3 DEF PendingOf
  <2>8. PoolTyped'
    <3>1. ASSUME NEW b \in Accounts, NEW i \in 1 .. Len(queued'[b])
          PROVE  SenderOf[queued'[b][i]] = b
      <4>1. CASE b = a
        <5>1. i \in 1 .. Len(q) /\ queued'[b][i] = q[i]
          BY <1>1, <2>2, <2>3, <4>1
        <5> QED  BY <1>1, <4>1, <5>1 DEF PoolInv, PoolTyped
      <4>2. CASE b # a
        BY <2>3, <4>2 DEF PoolInv, PoolTyped
      <4> QED  BY <4>1, <4>2
    <3>2. pending' \subseteq PoolTxs /\ pruned' \in BOOLEAN /\ resent' \in BOOLEAN
      BY <1>1, <2>1, <2>3 DEF PoolInv, PoolTyped
    <3> QED  BY <2>3, <2>4, <3>1, <3>2 DEF PoolTyped
  <2>9. QueueApart'
    <3> SUFFICES ASSUME ~resent', NEW b \in Accounts, NEW i \in 1 .. Len(queued'[b])
                 PROVE  /\ queued'[b][i] \notin pending'
                        /\ \A j \in 1 .. Len(queued'[b]) : queued'[b][i] = queued'[b][j] => i = j
      BY DEF QueueApart
    <3>1. CASE b = a
      <4>1. i \in 1 .. (Len(q) - 1) /\ i \in 1 .. Len(q) /\ i # Len(q)
        BY <1>1, <2>2, <2>3, <3>1
      <4>2. q[i] # x /\ q[i] \notin pending
        BY <1>1, <2>1, <4>1 DEF PoolInv, QueueApart
      <4>3. \A j \in 1 .. (Len(q) - 1) : j \in 1 .. Len(q) /\ (q[i] = q[j] => i = j)
        BY <1>1, <4>1 DEF PoolInv, QueueApart
      <4> QED  BY <2>2, <2>3, <3>1, <4>1, <4>2, <4>3
    <3>2. CASE b # a
      <4>1. i \in 1 .. Len(queued[b]) /\ SenderOf[queued[b][i]] = b
        BY <2>3, <3>2 DEF PoolInv, PoolTyped
      <4> QED  BY <1>1, <2>1, <2>3, <3>2, <4>1 DEF PoolInv, QueueApart
    <3> QED  BY <3>1, <3>2
  <2>10. \A b \in Accounts : Cardinality(PendingOf(b)') <= PerAccount
    BY <1>1, <2>6, <2>7, PendingFact, NetworkAssumption DEF PoolInv, PoolKeepsLimits
  <2>11. ASSUME ~pruned', ~resent', NEW b \in Accounts, queued'[b] # <<>>
         PROVE  Cardinality(PendingOf(b)') = PerAccount
    <3>1. CASE b = a
      BY <1>1, <1>3, <2>6, <2>11, <3>1 DEF PoolInv, PoolKeepsLimits
    <3>2. CASE b # a
      BY <1>1, <2>3, <2>7, <2>11, <3>2 DEF PoolInv, PoolKeepsLimits
    <3> QED  BY <3>1, <3>2
  <2>12. PoolKeepsLimits'
    BY <2>4, <2>10, <2>11 DEF PoolKeepsLimits, PendingOf
  <2> QED  BY <2>8, <2>9, <2>12 DEF PoolInv
<1> QED  BY <1>2, <1>3

LEMMA AddStep ==
    ASSUME PoolInv, NEW t \in PoolTxs, AddTransaction(t)
    PROVE  PoolInv'
<1> DEFINE a == SenderOf[t]
           q == queued[a]
<1>1. /\ a \in Accounts /\ pruned' = pruned /\ pruned \in BOOLEAN /\ resent \in BOOLEAN
      /\ resent' = (resent \/ t \in pending \cup Queued(a))
      /\ q \in Seq(PoolTxs) /\ Len(q) \in Nat
  BY DEF AddTransaction, Accounts, PoolInv, PoolTyped
<1>2. resent' \in BOOLEAN /\ (~resent' => ~resent /\ t \notin pending /\ t \notin Queued(a))
  BY <1>1
<1>3. CASE UNCHANGED <<pending, queued>>
  <2>1. PoolTyped' /\ QueueApart'
    BY <1>1, <1>2, <1>3 DEF PoolInv, PoolTyped, QueueApart
  <2>2. PoolKeepsLimits'
    BY <1>1, <1>2, <1>3 DEF PoolInv, PoolKeepsLimits, PendingOf
  <2> QED  BY <2>1, <2>2 DEF PoolInv
<1>4. CASE /\ Cardinality(PendingOf(a)) >= PerAccount
           /\ queued' = [queued EXCEPT ![a] = Append(@, t)] /\ UNCHANGED pending
  <2> DEFINE r == Append(q, t)
  <2>1. /\ r \in Seq(PoolTxs) /\ Len(r) = Len(q) + 1 /\ r[Len(q) + 1] = t
        /\ \A i \in 1 .. Len(q) : r[i] = q[i]
    BY <1>1, AppendProperties
  <2>2. /\ queued' \in [Accounts -> Seq(PoolTxs)] /\ queued'[a] = r
        /\ \A b \in Accounts \ {a} : queued'[b] = queued[b]
    BY <1>1, <1>4, <2>1 DEF PoolInv, PoolTyped
  <2> HIDE DEF r
  <2>3. ASSUME NEW b \in Accounts, NEW i \in 1 .. Len(queued'[b])
        PROVE  SenderOf[queued'[b][i]] = b
    <3>1. CASE b = a
      <4>1. CASE i = Len(q) + 1
        BY <2>1, <2>2, <3>1, <4>1
      <4>2. CASE i # Len(q) + 1
        <5>1. i \in 1 .. Len(q)
          BY <1>1, <2>1, <2>2, <3>1, <4>2
        <5>2. SenderOf[q[i]] = a
          BY <1>1, <5>1 DEF PoolInv, PoolTyped
        <5>3. queued'[b][i] = q[i]
          BY <2>1, <2>2, <3>1, <5>1
        <5> QED  BY <3>1, <5>2, <5>3
      <4> QED  BY <4>1, <4>2
    <3>2. CASE b # a
      BY <2>2, <3>2 DEF PoolInv, PoolTyped
    <3> QED  BY <3>1, <3>2
  <2>4. PoolTyped'
    BY <1>1, <1>2, <1>4, <2>2, <2>3 DEF PoolInv, PoolTyped
  <2>5. QueueApart'
    <3> SUFFICES ASSUME ~resent', NEW b \in Accounts, NEW i \in 1 .. Len(queued'[b])
                 PROVE  /\ queued'[b][i] \notin pending'
                        /\ \A j \in 1 .. Len(queued'[b]) : queued'[b][i] = queued'[b][j] => i = j
      BY DEF QueueApart
    <3>1. CASE b = a
      <4>1. \A k \in 1 .. Len(q) : q[k] # t
        BY <1>2 DEF Queued
      <4>2. \A k \in 1 .. Len(q) : q[k] \notin pending /\ \A j \in 1 .. Len(q) : q[k] = q[j] => k = j
        BY <1>1, <1>2 DEF PoolInv, QueueApart
      <4>3. \A j \in 1 .. (Len(q) + 1) : j \in 1 .. Len(q) \/ j = Len(q) + 1
        BY <1>1
      <4> QED  BY <1>2, <1>4, <2>1, <2>2, <3>1, <4>1, <4>2, <4>3
    <3>2. CASE b # a
      BY <1>2, <1>4, <2>2, <3>2 DEF PoolInv, QueueApart
    <3> QED  BY <3>1, <3>2
  <2>6. PoolKeepsLimits'
    <3>1. Cardinality(PendingOf(a)) = PerAccount
      BY <1>1, <1>4, PendingFact, NetworkAssumption DEF PoolInv, PoolKeepsLimits
    <3>2. ASSUME ~pruned', ~resent', NEW b \in Accounts, queued'[b] # <<>>
          PROVE  Cardinality(PendingOf(b)) = PerAccount
      <4>1. CASE b = a
        BY <3>1, <4>1
      <4>2. CASE b # a
        BY <1>1, <1>2, <2>2, <3>2, <4>2 DEF PoolInv, PoolKeepsLimits
      <4> QED  BY <4>1, <4>2
    <3>3. pending' = pending
      BY <1>4
    <3>4. \A b \in Accounts : PendingOf(b)' = PendingOf(b)
      BY <3>3 DEF PendingOf
    <3> QED  BY <3>2, <3>3, <3>4 DEF PoolInv, PoolKeepsLimits
  <2> QED  BY <2>4, <2>5, <2>6 DEF PoolInv
<1>5. CASE /\ ~(Cardinality(pending) >= PoolSize) /\ ~(Cardinality(PendingOf(a)) >= PerAccount)
           /\ pending' = pending \cup {t} /\ UNCHANGED queued
  <2>1. /\ IsFiniteSet(pending') /\ Cardinality(pending') <= PoolSize
    <3>1. /\ IsFiniteSet(pending')
          /\ Cardinality(pending') \in {Cardinality(pending), Cardinality(pending) + 1}
      BY <1>5, FS_AddElement DEF PoolInv, PoolTyped
    <3>2. Cardinality(pending) \in Nat
      BY <1>1, PendingFact
    <3> QED  BY <1>5, <3>1, <3>2, NetworkAssumption
  <2>2. PendingOf(a)' = PendingOf(a) \cup {t} /\ \A b \in Accounts \ {a} : PendingOf(b)' = PendingOf(b)
    BY <1>5 DEF PendingOf
  <2>3. Cardinality(PendingOf(a)') <= PerAccount
    <3>1. /\ IsFiniteSet(PendingOf(a)) /\ Cardinality(PendingOf(a)) \in Nat
      BY <1>1, PendingFact
    <3>2. Cardinality(PendingOf(a) \cup {t}) \in {Cardinality(PendingOf(a)), Cardinality(PendingOf(a)) + 1}
      BY <3>1, FS_AddElement
    <3>3. Cardinality(PendingOf(a)') \in {Cardinality(PendingOf(a)), Cardinality(PendingOf(a)) + 1}
      BY <2>2, <3>2
    <3> QED  BY <1>5, <3>1, <3>3, NetworkAssumption
  <2>4. \A b \in Accounts : Cardinality(PendingOf(b)') <= PerAccount
    <3>1. ASSUME NEW b \in Accounts, b # a PROVE Cardinality(PendingOf(b)') <= PerAccount
      BY <2>2, <3>1 DEF PoolInv, PoolKeepsLimits
    <3> QED  BY <2>3, <3>1
  <2>5. ASSUME ~pruned', ~resent', NEW b \in Accounts, queued'[b] # <<>>
        PROVE  Cardinality(PendingOf(b)') = PerAccount
    <3>1. ~pruned /\ ~resent /\ queued[b] # <<>>
      BY <1>1, <1>2, <1>5, <2>5
    <3>2. Cardinality(PendingOf(b)) = PerAccount
      BY <3>1 DEF PoolInv, PoolKeepsLimits
    <3>3. b # a
      BY <1>5, <3>2, NetworkAssumption
    <3> QED  BY <2>2, <3>2, <3>3
  <2>6. PoolTyped'
    BY <1>1, <1>2, <1>5, <2>1 DEF PoolInv, PoolTyped
  <2>7. QueueApart'
    <3> SUFFICES ASSUME ~resent', NEW b \in Accounts, NEW i \in 1 .. Len(queued[b])
                 PROVE  /\ queued[b][i] \notin pending'
                        /\ \A j \in 1 .. Len(queued[b]) : queued[b][i] = queued[b][j] => i = j
      BY <1>5 DEF QueueApart
    <3>1. queued[b][i] # t
      <4>1. CASE b = a
        BY <1>2, <4>1 DEF Queued
      <4>2. CASE b # a
        BY <4>2 DEF PoolInv, PoolTyped
      <4> QED  BY <4>1, <4>2
    <3> QED  BY <1>2, <1>5, <3>1 DEF PoolInv, QueueApart
  <2>8. PoolKeepsLimits'
    BY <2>1, <2>4, <2>5 DEF PoolKeepsLimits, PendingOf
  <2> QED  BY <2>6, <2>7, <2>8 DEF PoolInv
<1> QED  BY <1>3, <1>4, <1>5 DEF AddTransaction

(* NetTyped: what the calls on the peers are doing.                         *)
NetTyped ==
    netCall \in [NetCalls -> [at : {"idle", "enter", "send", "add", "ping", "write"}, to : SUBSET Peers]]
        /\ DOMAIN peers \subseteq Peers

LEMMA CallStep ==
    ASSUME NetTyped, [NetNext]_netVars
    PROVE  /\ NetTyped'
           /\ \A c \in NetCalls : netCall[c].at = "write" =>
                /\ netCall'[c].at = "write" /\ DOMAIN peers' = DOMAIN peers /\ latencies' = latencies
                /\ \A d \in NetCalls : netCall'[d].at \in {"send", "ping"} => Reading(d)
<1> DEFINE Closed ==
       \A c \in NetCalls : netCall[c].at = "write" =>
                /\ netCall'[c].at = "write" /\ DOMAIN peers' = DOMAIN peers /\ latencies' = latencies
                /\ \A d \in NetCalls : netCall'[d].at \in {"send", "ping"} => Reading(d)
<1>1. CASE UNCHANGED <<peers, latencies, netCall>>
  BY <1>1 DEF NetTyped, Reading, KeepsGuard
<1>2. ASSUME NEW c \in NetCalls, NEW p \in Peers,
             \/ \E t \in PoolTxs : StartTxBroadcast(c, t)
             \/ StartBroadcast(c) \/ EndBroadcast(c) \/ AskToAdd(c, p)
      PROVE  NetTyped' /\ Closed
  BY <1>2 DEF StartTxBroadcast, StartBroadcast, EndBroadcast, AskToAdd, Idle, NetTyped, Reading,
              KeepsGuard
<1>3. ASSUME NEW c \in NetCalls, EnterBroadcast(c) PROVE NetTyped' /\ Closed
  BY <1>3 DEF EnterBroadcast, NoWriterWaits, NetTyped, Reading, KeepsGuard
<1>4. ASSUME NEW c \in NetCalls, NEW p \in Peers, StartMeasure(c, p) PROVE NetTyped' /\ Closed
  BY <1>4 DEF StartMeasure, NoWriterWaits, NetTyped, Reading, KeepsGuard
<1>5. ASSUME NEW c \in NetCalls, NEW p \in Peers, WritePeers(c, p) PROVE NetTyped' /\ Closed
  <2>1. NetTyped'
    BY <1>5 DEF WritePeers, Idle, Put, NetTyped
  <2>2. \A d \in NetCalls : netCall[d].at # "write"
    BY <1>5 DEF WritePeers, NoReader, Reading, KeepsGuard
  <2> QED  BY <2>1, <2>2
<1>6. ASSUME NEW c \in NetCalls, NEW p \in Peers, SendTo(c, p) \/ SendPing(c, p)
      PROVE  NetTyped' /\ Closed
  BY <1>6 DEF SendTo, SendPing, NetTyped, Reading, KeepsGuard
<1>7. ASSUME NEW p \in DOMAIN peers, HandleMessage(p) PROVE NetTyped' /\ Closed
  BY <1>7 DEF HandleMessage, NetTyped, Reading, KeepsGuard
<1>8. ASSUME NEW c \in NetCalls, StartBroadcast(c) \/ EndBroadcast(c) PROVE NetTyped' /\ Closed
  BY <1>8 DEF StartBroadcast, EndBroadcast, Idle, NetTyped, Reading, KeepsGuard
<1>9. ASSUME NEW c \in NetCalls, NEW t \in PoolTxs, StartTxBroadcast(c, t) PROVE NetTyped' /\ Closed
  BY <1>9 DEF StartTxBroadcast, NetTyped, Reading, KeepsGuard
<1> QED  BY <1>1, <1>2, <1>3, <1>4, <1>5, <1>6, <1>7, <1>8, <1>9
            DEF NetNext, netVars, RemoveTransaction, PruneOld, ClearPool

(* PoolAlwaysKeepsLimits: for any transactions, senders and limits, the     *)
(* pool of network/mod.rs keeps its limits whatever moves up, and queues    *)
(* only for full accounts until something is pruned or sent twice.          *)
THEOREM PoolAlwaysKeepsLimits == NetSpec => []PoolKeepsLimits
<1>1. NetInit => PoolInv
  <2> SUFFICES ASSUME NetInit PROVE PoolInv
    OBVIOUS
  <2>1. /\ pending = {} /\ Cardinality(pending) = 0 /\ IsFiniteSet(pending)
        /\ \A a \in Accounts : PendingOf(a) = {} /\ queued[a] = <<>> /\ Len(queued[a]) = 0
    BY FS_EmptySet, EmptySeq DEF NetInit, PendingOf
  <2>2. /\ 1 .. 0 = {} /\ queued \in [Accounts -> Seq(PoolTxs)]
    BY EmptySeq DEF NetInit
  <2>3. PoolTyped /\ QueueApart
    BY <2>1, <2>2 DEF NetInit, PoolTyped, QueueApart
  <2>4. 0 <= PoolSize /\ 0 <= PerAccount
    BY NetworkAssumption
  <2>5. /\ Cardinality(pending) <= PoolSize
        /\ \A a \in Accounts : Cardinality(PendingOf(a)) <= PerAccount
    BY <2>1, <2>4
  <2>6. PoolKeepsLimits
    BY <2>1, <2>5 DEF PoolKeepsLimits
  <2> QED  BY <2>3, <2>6 DEF PoolInv
<1>2. PoolInv /\ [NetNext]_netVars => PoolInv'
  <2> SUFFICES ASSUME PoolInv, [NetNext]_netVars PROVE PoolInv'
    OBVIOUS
  <2>1. CASE UNCHANGED <<pending, queued, pruned, resent>>
    BY <2>1 DEF PoolInv, PoolTyped, QueueApart, PoolKeepsLimits, PendingOf
  <2>2. ASSUME NEW t \in PoolTxs, NEW c \in NetCalls, StartTxBroadcast(c, t) PROVE PoolInv'
    BY <2>2, AddStep DEF StartTxBroadcast
  <2>3. ASSUME NEW old \in SUBSET pending, PruneOld(old) PROVE PoolInv'
    BY <2>3, ShrinkStep DEF PruneOld
  <2>4. CASE ClearPool
    BY <2>4, ShrinkStep DEF ClearPool
  <2>5. ASSUME NEW c \in NetCalls, StartBroadcast(c) \/ EnterBroadcast(c) \/ EndBroadcast(c)
        PROVE  UNCHANGED <<pending, queued, pruned, resent>>
    BY <2>5 DEF StartBroadcast, EnterBroadcast, EndBroadcast
  <2>6. ASSUME NEW c \in NetCalls, NEW p \in Peers,
               AskToAdd(c, p) \/ WritePeers(c, p) \/ SendTo(c, p) \/ StartMeasure(c, p) \/ SendPing(c, p)
        PROVE  UNCHANGED <<pending, queued, pruned, resent>>
    BY <2>6 DEF AskToAdd, WritePeers, SendTo, StartMeasure, SendPing
  <2>7. ASSUME NEW p \in DOMAIN peers, HandleMessage(p)
        PROVE  UNCHANGED <<pending, queued, pruned, resent>>
    BY <2>7 DEF HandleMessage
  <2> QED  BY <2>1, <2>2, <2>3, <2>4, <2>5, <2>6, <2>7, RemoveStep DEF NetNext, netVars
<1>3. PoolInv => PoolKeepsLimits
  BY DEF PoolInv
<1> QED  BY <1>1, <1>2, <1>3, PTL DEF NetSpec

(* PeersStayClosed: whatever peers there are and whatever runs beside it, a *)
(* call to measure_peer_latency that asks to write waits for itself, and    *)
(* nothing is recorded, added or begun from then on.                        *)
THEOREM PeersStayClosed == NetSpec => MeasureClosesPeers
<1>1. NetInit => NetTyped
  BY DEF NetInit, NetTyped, Idle
<1>2. NetTyped /\ [NetNext]_netVars => NetTyped'
  BY CallStep
<1>3. NetTyped /\ [NetNext]_netVars =>
         [\A c \in NetCalls : netCall[c].at = "write" =>
             /\ netCall'[c].at = "write" /\ DOMAIN peers' = DOMAIN peers /\ latencies' = latencies
             /\ \A d \in NetCalls : netCall'[d].at \in {"send", "ping"} => Reading(d)]_netVars
  BY CallStep
<1> QED  BY <1>1, <1>2, <1>3, PTL DEF NetSpec, MeasureClosesPeers
-----------------------------------------------------------------------------
(* The optimistic engine, for any cap and any capacity of the channel *)

BftProposal == [kind : {"fast", "normal"}, block : Nat]

Ascending(s) == \A i, j \in DOMAIN s : i < j => s[i] < s[j]

(* What a proposal under way tells of the executions s. *)
Settled(s, m) ==
    IF m.kind = "fast"
    THEN \/ \E i \in DOMAIN s : s[i] = m.block
         \/ Len(s) = ExecutedCap /\ \A i \in DOMAIN s : s[i] > m.block
    ELSE \A i \in DOMAIN s : s[i] # m.block

BftInv ==
    /\ proposed \in Nat
    /\ executedBlocks \in Seq(Nat) /\ Len(executedBlocks) <= ExecutedCap
    /\ Ascending(executedBlocks) /\ \A i \in DOMAIN executedBlocks : executedBlocks[i] <= proposed
    /\ bftMsgs \in Seq(BftProposal) /\ outgoing \in Seq(BftProposal)
    /\ \A m \in UnderWay : m.block <= proposed /\ Settled(executedBlocks, m)

(* One more execution keeps the order and pushes out at most the oldest.    *)
LEMMA ExecutesNext ==
    ASSUME NEW s \in Seq(Nat), Len(s) <= ExecutedCap, Ascending(s), NEW n \in Nat,
           \A i \in DOMAIN s : s[i] <= n
    PROVE  LET t == OptimisticExecute(s, n + 1)
           IN  /\ t \in Seq(Nat) /\ Len(t) <= ExecutedCap
               /\ Ascending(t) /\ \A i \in DOMAIN t : t[i] <= n + 1
               /\ \E i \in DOMAIN t : t[i] = n + 1
               /\ \A m \in BftProposal : m.block <= n /\ Settled(s, m) => Settled(t, m)
<1>0. /\ Len(s) \in Nat /\ ExecutedCap \in Nat
      /\ Len(s) < ExecutedCap => Len(s) # ExecutedCap
      /\ Len(s) < ExecutedCap \/ Len(s) = ExecutedCap
  <2>1. Len(s) \in Nat /\ ExecutedCap \in Nat
    BY BftAssumption
  <2> QED  BY <2>1
<1> DEFINE u == Append(s, n + 1)
           t == OptimisticExecute(s, n + 1)
<1>1. /\ u \in Seq(Nat) /\ Len(u) = Len(s) + 1 /\ Len(s) \in Nat
      /\ DOMAIN s = 1 .. Len(s) /\ DOMAIN u = 1 .. Len(s) + 1
      /\ \A i \in 1 .. Len(s) : u[i] = s[i] /\ s[i] \in Nat
      /\ u[Len(s) + 1] = n + 1
  OBVIOUS
<1>2. ExecutedCap \in Nat /\ ExecutedCap >= 1
  BY BftAssumption
<1>3. t = IF Len(u) > ExecutedCap THEN Tail(u) ELSE u
  BY DEF OptimisticExecute
<1>4. CASE Len(s) < ExecutedCap
  <2>1. t = u
    <3> HIDE DEF u, t
    <3> QED  BY <1>1, <1>2, <1>3, <1>4
  <2>2. Ascending(u) /\ \A i \in DOMAIN u : u[i] <= n + 1
    <3> HIDE DEF u, t
    <3>1. ASSUME NEW i \in DOMAIN u
          PROVE  \/ i \in DOMAIN s /\ u[i] = s[i] /\ s[i] \in Nat /\ s[i] <= n
                 \/ i = Len(s) + 1 /\ u[i] = n + 1
      BY <1>1, <3>1
    <3>2. ASSUME NEW i \in DOMAIN u, NEW j \in DOMAIN u, i < j PROVE u[i] < u[j]
      <4>1. i \in DOMAIN s /\ u[i] = s[i] /\ s[i] \in Nat /\ s[i] <= n
        BY <1>1, <3>1, <3>2
      <4> QED  BY <3>1, <3>2, <4>1 DEF Ascending
    <3>3. \A i \in DOMAIN u : u[i] <= n + 1
      BY <3>1
    <3> QED  BY <3>2, <3>3 DEF Ascending
  <2>3. ASSUME NEW m \in BftProposal, m.block <= n, Settled(s, m) PROVE Settled(u, m)
    <3>1. m.block \in Nat /\ m.block # n + 1
      BY <2>3 DEF BftProposal
    <3> HIDE DEF u, t
    <3>2. CASE m.kind = "fast"
      <4>1. PICK i \in DOMAIN s : s[i] = m.block
        <5>1. Len(s) # ExecutedCap
          BY <1>0, <1>4
        <5> QED  BY <2>3, <3>2, <5>1 DEF Settled
      <4>2. i \in DOMAIN u /\ u[i] = m.block
        BY <1>1, <4>1
      <4> QED  BY <3>2, <4>2 DEF Settled
    <3>3. CASE m.kind # "fast"
      BY <1>1, <2>3, <3>1, <3>3 DEF Settled
    <3> QED  BY <3>2, <3>3
  <2> HIDE DEF u, t
  <2>4. Len(s) + 1 \in DOMAIN u /\ Len(u) <= ExecutedCap
    BY <1>1, <1>2, <1>4
  <2>5. \E i \in DOMAIN u : u[i] = n + 1
    BY <1>1, <2>4
  <2> QED  BY <1>1, <2>1, <2>2, <2>3, <2>4, <2>5 DEF t
<1>5. CASE Len(s) = ExecutedCap
  <2>1. t = Tail(u)
    <3> HIDE DEF u, t
    <3> QED  BY <1>1, <1>2, <1>3, <1>5
  <2>2. /\ t \in Seq(Nat) /\ Len(t) = ExecutedCap /\ DOMAIN t = 1 .. ExecutedCap
        /\ \A i \in 1 .. ExecutedCap : t[i] = u[i + 1]
    <3> HIDE DEF u, t
    <3> QED  BY <1>1, <1>2, <1>5, <2>1
  <2> HIDE DEF u, t
  <2>3. Ascending(t) /\ \A i \in DOMAIN t : t[i] <= n + 1
    <3>1. ASSUME NEW i \in 1 .. ExecutedCap
          PROVE  /\ i < ExecutedCap => t[i] = s[i + 1] /\ i + 1 \in 1 .. Len(s)
                 /\ i = ExecutedCap => t[i] = n + 1
      BY <1>1, <1>2, <1>5, <2>2, <3>1
    <3>2. ASSUME NEW i \in 1 .. ExecutedCap, NEW j \in 1 .. ExecutedCap, i < j PROVE t[i] < t[j]
      <4>1. i < ExecutedCap /\ t[i] = s[i + 1] /\ i + 1 \in DOMAIN s
        BY <1>1, <1>2, <3>1, <3>2
      <4>2. CASE j = ExecutedCap
        <5>1. s[i + 1] \in Nat /\ s[i + 1] <= n /\ t[j] = n + 1
          BY <1>1, <3>1, <4>1, <4>2
        <5> QED  BY <4>1, <5>1
      <4>3. CASE j # ExecutedCap
        <5>1. t[j] = s[j + 1] /\ j + 1 \in DOMAIN s /\ i + 1 < j + 1
          BY <1>1, <1>2, <3>1, <3>2, <4>3
        <5> QED  BY <4>1, <5>1 DEF Ascending
      <4> QED  BY <4>2, <4>3
    <3>3. ASSUME NEW i \in 1 .. ExecutedCap PROVE t[i] <= n + 1
      <4>1. CASE i = ExecutedCap
        BY <3>1, <4>1
      <4>2. CASE i # ExecutedCap
        <5>1. i + 1 \in DOMAIN s /\ t[i] = s[i + 1]
          BY <1>1, <1>2, <3>1, <4>2
        <5>2. s[i + 1] \in Nat /\ s[i + 1] <= n
          BY <1>1, <5>1
        <5> QED  BY <5>1, <5>2
      <4> QED  BY <4>1, <4>2
    <3> QED  BY <2>2, <3>2, <3>3 DEF Ascending
  <2>4. ExecutedCap \in DOMAIN t /\ t[ExecutedCap] = n + 1
    BY <1>1, <1>2, <1>5, <2>2
  <2>5. ASSUME NEW m \in BftProposal, m.block <= n, Settled(s, m) PROVE Settled(t, m)
    <3>1. m.block \in Nat /\ m.block < n + 1
      BY <2>5 DEF BftProposal
    <3>2. ASSUME NEW i \in 1 .. ExecutedCap
          PROVE  \/ t[i] = n + 1
                 \/ i + 1 \in DOMAIN s /\ t[i] = s[i + 1] /\ s[1] < s[i + 1]
      <4>1. CASE i = ExecutedCap
        BY <2>4, <4>1
      <4>2. CASE i # ExecutedCap
        <5>1. i + 1 \in DOMAIN s /\ t[i] = s[i + 1] /\ 1 \in DOMAIN s /\ 1 < i + 1
          BY <1>1, <1>2, <1>5, <2>2, <3>2, <4>2
        <5> QED  BY <5>1 DEF Ascending
      <4> QED  BY <4>1, <4>2
    <3>3. CASE m.kind = "fast" /\ \E i \in DOMAIN s : s[i] = m.block
      <4>1. PICK i \in DOMAIN s : s[i] = m.block
        BY <3>3
      <4>2. CASE i = 1
        <5>1. \A j \in DOMAIN t : t[j] > m.block
          BY <1>1, <2>2, <3>1, <3>2, <4>1, <4>2
        <5> QED  BY <2>2, <3>3, <5>1 DEF Settled
      <4>3. CASE i # 1
        <5>1. i - 1 \in 1 .. ExecutedCap /\ (i - 1) + 1 = i /\ i \in 1 .. Len(s)
          BY <1>1, <1>2, <1>5, <4>1, <4>3
        <5>2. t[i - 1] = m.block
          BY <1>1, <2>2, <4>1, <5>1
        <5> QED  BY <2>2, <3>3, <5>1, <5>2 DEF Settled
      <4> QED  BY <4>2, <4>3
    <3>4. CASE m.kind = "fast" /\ \A i \in DOMAIN s : s[i] > m.block
      <4>1. \A j \in DOMAIN t : t[j] > m.block
        BY <2>2, <3>1, <3>2, <3>4
      <4> QED  BY <2>2, <3>4, <4>1 DEF Settled
    <3>5. CASE m.kind # "fast"
      <4>1. \A j \in DOMAIN t : t[j] # m.block
        BY <2>2, <2>5, <3>1, <3>2, <3>5 DEF Settled
      <4> QED  BY <3>5, <4>1 DEF Settled
    <3> QED  BY <2>5, <3>3, <3>4, <3>5 DEF Settled
  <2> QED  BY <1>2, <2>2, <2>3, <2>4, <2>5 DEF t
<1> QED  BY <1>0, <1>4, <1>5

(* ExecutionsAlwaysOnce: for any cap on the uncommitted blocks and any      *)
(* channel of consensus/optimistic_bft.rs, no block is executed twice or    *)
(* out of order although the leader receives what it has executed, and      *)
(* every fast proposal under way was executed, every normal one was not.    *)
THEOREM ExecutionsAlwaysOnce == BftSpec => []ExecutedOnce
<1>1. BftInit => BftInv
  BY BftAssumption, EmptySeq DEF BftInit, BftInv, UnderWay, Range, Ascending
<1>2. BftInv /\ [BftNext]_bftVars => BftInv'
  <2> SUFFICES ASSUME BftInv, [BftNext]_bftVars PROVE BftInv'
    OBVIOUS
  <2>0. UnderWay \subseteq BftProposal
    BY DEF BftInv, UnderWay, Range
  <2>1. CASE UNCHANGED bftVars
    BY <2>1 DEF BftInv, bftVars, UnderWay
  <2>2. CASE MonitorNetwork
    BY <2>2 DEF BftInv, MonitorNetwork, UnderWay
  <2>3. CASE ProposeFast
    <3> DEFINE m == [kind |-> "fast", block |-> proposed + 1]
    <3>1. /\ proposed' = proposed + 1 /\ outgoing = <<>> /\ outgoing' = <<m>> /\ bftMsgs' = bftMsgs
          /\ executedBlocks' = OptimisticExecute(executedBlocks, proposed + 1)
      BY <2>3 DEF ProposeFast
    <3>2. /\ executedBlocks' \in Seq(Nat) /\ Len(executedBlocks') <= ExecutedCap
          /\ Ascending(executedBlocks')
          /\ \A i \in DOMAIN executedBlocks' : executedBlocks'[i] <= proposed + 1
          /\ \E i \in DOMAIN executedBlocks' : executedBlocks'[i] = proposed + 1
          /\ \A p \in BftProposal :
                p.block <= proposed /\ Settled(executedBlocks, p) => Settled(executedBlocks', p)
      BY <3>1, ExecutesNext DEF BftInv
    <3>3. m \in BftProposal /\ outgoing' \in Seq(BftProposal) /\ Settled(executedBlocks', m)
      BY <3>1, <3>2 DEF BftProposal, BftInv, Settled
    <3>4. UnderWay' = UnderWay \cup {m}
      BY <3>1 DEF UnderWay, Range
    <3>5. ASSUME NEW p \in UnderWay' PROVE p.block <= proposed' /\ Settled(executedBlocks', p)
      <4>1. CASE p \in UnderWay
        <5>1. p.block \in Nat /\ p.block <= proposed
          BY <2>0, <4>1 DEF BftInv, BftProposal
        <5> QED  BY <2>0, <3>1, <3>2, <4>1, <5>1 DEF BftInv
      <4>2. CASE p = m
        BY <3>1, <3>3, <4>2 DEF BftInv
      <4> QED  BY <3>4, <4>1, <4>2
    <3> HIDE DEF m
    <3> QED  BY <3>1, <3>2, <3>3, <3>5 DEF BftInv
  <2>4. CASE ProposeNormal
    <3> DEFINE m == [kind |-> "normal", block |-> proposed + 1]
    <3>1. /\ proposed' = proposed + 1 /\ outgoing = <<>> /\ outgoing' = <<m>> /\ bftMsgs' = bftMsgs
          /\ executedBlocks' = executedBlocks
      BY <2>4 DEF ProposeNormal
    <3>2. \A i \in DOMAIN executedBlocks :
             executedBlocks[i] \in Nat /\ executedBlocks[i] <= proposed
      BY DEF BftInv
    <3>3. m \in BftProposal /\ outgoing' \in Seq(BftProposal) /\ Settled(executedBlocks, m)
      BY <3>1, <3>2 DEF BftProposal, BftInv, Settled
    <3>4. UnderWay' = UnderWay \cup {m}
      BY <3>1 DEF UnderWay, Range
    <3>5. ASSUME NEW p \in UnderWay' PROVE p.block <= proposed' /\ Settled(executedBlocks', p)
      <4>1. CASE p \in UnderWay
        <5>1. p.block \in Nat /\ p.block <= proposed
          BY <2>0, <4>1 DEF BftInv, BftProposal
        <5> QED  BY <2>0, <3>1, <4>1, <5>1 DEF BftInv
      <4>2. CASE p = m
        BY <3>1, <3>3, <4>2 DEF BftInv
      <4> QED  BY <3>4, <4>1, <4>2
    <3> HIDE DEF m
    <3> QED  BY <3>1, <3>2, <3>3, <3>5 DEF BftInv
  <2>5. CASE Broadcast
    <3>1. /\ bftMsgs' = bftMsgs \o outgoing /\ outgoing' = <<>>
          /\ UNCHANGED <<executedBlocks, proposed>>
      BY <2>5 DEF Broadcast
    <3>2. bftMsgs' \in Seq(BftProposal) /\ outgoing' \in Seq(BftProposal)
      BY <3>1 DEF BftInv
    <3>3. UnderWay' \subseteq UnderWay
      <4>1. bftMsgs \in Seq(BftProposal) /\ outgoing \in Seq(BftProposal)
        BY DEF BftInv
      <4>2. ASSUME NEW i \in DOMAIN bftMsgs'
            PROVE  \/ \E j \in DOMAIN bftMsgs : bftMsgs'[i] = bftMsgs[j]
                   \/ \E j \in DOMAIN outgoing : bftMsgs'[i] = outgoing[j]
        <5>1. bftMsgs' = bftMsgs \o outgoing /\ i \in DOMAIN (bftMsgs \o outgoing)
          BY <3>1, <4>2
        <5>2. /\ Len(bftMsgs) \in Nat /\ Len(outgoing) \in Nat
              /\ DOMAIN bftMsgs = 1 .. Len(bftMsgs) /\ DOMAIN outgoing = 1 .. Len(outgoing)
              /\ i \in 1 .. Len(bftMsgs) + Len(outgoing)
              /\ bftMsgs'[i] = IF i <= Len(bftMsgs) THEN bftMsgs[i] ELSE outgoing[i - Len(bftMsgs)]
          BY <4>1, <5>1
        <5> QED  BY <5>2
      <4> QED  BY <3>1, <4>2 DEF UnderWay, Range
    <3> QED  BY <3>1, <3>2, <3>3 DEF BftInv
  <2>6. CASE HearsProposal
    <3>1. /\ bftMsgs # <<>> /\ bftMsgs' = Tail(bftMsgs)
          /\ UNCHANGED <<executedBlocks, outgoing, proposed>>
      BY <2>6 DEF HearsProposal, QuickVerify
    <3>2. bftMsgs \in Seq(BftProposal) /\ bftMsgs' \in Seq(BftProposal)
      BY <3>1, HeadTailProperties DEF BftInv
    <3>3. UnderWay' \subseteq UnderWay
      <4>1. ASSUME NEW i \in DOMAIN bftMsgs'
            PROVE  \E j \in DOMAIN bftMsgs : bftMsgs'[i] = bftMsgs[j]
        <5>1. i + 1 \in DOMAIN bftMsgs /\ bftMsgs'[i] = bftMsgs[i + 1]
          BY <3>1, <3>2, <4>1
        <5> QED  BY <5>1
      <4> QED  BY <3>1, <4>1 DEF UnderWay, Range
    <3> QED  BY <3>1, <3>2, <3>3 DEF BftInv
  <2> QED  BY <2>1, <2>2, <2>3, <2>4, <2>5, <2>6 DEF BftNext
<1>3. BftInv => ExecutedOnce
  <2> SUFFICES ASSUME BftInv, NEW m \in UnderWay
               PROVE  IF m.kind = "fast"
                      THEN m.block \in Range(executedBlocks) \/ PushedOut(m.block)
                      ELSE m.block \notin Range(executedBlocks)
    BY DEF BftInv, ExecutedOnce, Ascending
  <2>1. Settled(executedBlocks, m)
    BY DEF BftInv
  <2> QED  BY <2>1 DEF Settled, Range, PushedOut
<1> QED  BY <1>1, <1>2, <1>3, PTL DEF BftSpec
-----------------------------------------------------------------------------
(* Snapshots, for any accounts, slots, code and number of snapshots kept *)

IsMap(f) == f = [x \in DOMAIN f |-> f[x]]

(* A state of the chain: every code that was deployed is still an account's. *)
IsWorld(w) ==
    /\ w = [accounts |-> w.accounts, storage |-> w.storage, code |-> w.code, root |-> w.root]
    /\ IsMap(w.accounts) /\ IsMap(w.storage)
    /\ w.root \in Nat
    /\ w.code \subseteq Codes
    /\ \A c \in w.code : \E a \in DOMAIN w.accounts : w.accounts[a] = c

(* What a replica of the state w has. *)
Faithful(r, w) ==
    /\ r.accounts = w.accounts
    /\ \A s \in DOMAIN w.storage : s \in DOMAIN r.storage /\ r.storage[s] = w.storage[s]
    /\ w.code \subseteq r.code
    /\ r.root <= w.root

IsReplica(r) ==
    /\ r = [accounts |-> r.accounts, storage |-> r.storage, code |-> r.code, root |-> r.root]
    /\ r.root \in Nat

SnapInv ==
    /\ \E H \in Nat : DOMAIN worlds = 0 .. H
    /\ IsMap(worlds)
    /\ \A h \in DOMAIN worlds : IsWorld(worlds[h]) /\ worlds[h].root = h
    /\ \A h \in DOMAIN snapshots : h \in DOMAIN worlds /\ snapshots[h] = worlds[h]
    /\ \A h \in DOMAIN deltas :
          /\ deltas[h].to = h /\ h \in DOMAIN worlds
          /\ deltas[h].from \in DOMAIN worlds /\ deltas[h].from < h
          /\ deltas[h] = DeltaOf(deltas[h].from, h, worlds[deltas[h].from], worlds[h])
    /\ IsReplica(replica)
    /\ chained \in DOMAIN worlds \cup {-1}
    /\ chained # -1 => Faithful(replica, worlds[chained])

LEMMA WorldStep ==
    ASSUME NEW w, IsWorld(w), NEW n \in NextWorlds(w)
    PROVE  IsWorld(n) /\ n.root = w.root + 1
<1>1. /\ Raised(w) = [accounts |-> w.accounts, storage |-> w.storage, code |-> w.code, root |-> w.root + 1]
      /\ w.root + 1 \in Nat
  BY DEF IsWorld, Raised
<1>2. \A a : IsPlain(w, a) => \A b \in DOMAIN w.accounts : w.accounts[b] \in Codes => b # a
  BY SnapshotAssumption DEF IsPlain
<1>3. ASSUME NEW a, IsPlain(w, a), NEW b \in PlainAccounts,
             n = [Raised(w) EXCEPT !.accounts = Put(@, a, b)]
      PROVE  IsWorld(n) /\ n.root = w.root + 1
  <2>1. n = [accounts |-> Put(w.accounts, a, b), storage |-> w.storage, code |-> w.code, root |-> w.root + 1]
    BY <1>1, <1>3
  <2>2. /\ IsMap(Put(w.accounts, a, b))
        /\ \A x \in DOMAIN w.accounts : x # a =>
              x \in DOMAIN Put(w.accounts, a, b) /\ Put(w.accounts, a, b)[x] = w.accounts[x]
    BY DEF IsMap, Put
  <2>3. \A c \in w.code : \E x \in DOMAIN Put(w.accounts, a, b) : Put(w.accounts, a, b)[x] = c
    BY <1>2, <1>3, <2>2 DEF IsWorld
  <2> QED  BY <1>1, <2>1, <2>2, <2>3 DEF IsWorld
<1>4. ASSUME NEW a, IsPlain(w, a), n = [Raised(w) EXCEPT !.accounts = Drop(@, a)]
      PROVE  IsWorld(n) /\ n.root = w.root + 1
  <2>1. n = [accounts |-> Drop(w.accounts, a), storage |-> w.storage, code |-> w.code, root |-> w.root + 1]
    BY <1>1, <1>4
  <2>2. /\ IsMap(Drop(w.accounts, a))
        /\ \A x \in DOMAIN w.accounts : x # a =>
              x \in DOMAIN Drop(w.accounts, a) /\ Drop(w.accounts, a)[x] = w.accounts[x]
    BY DEF IsMap, Drop
  <2>3. \A c \in w.code : \E x \in DOMAIN Drop(w.accounts, a) : Drop(w.accounts, a)[x] = c
    BY <1>2, <1>4, <2>2 DEF IsWorld
  <2> QED  BY <1>1, <2>1, <2>2, <2>3 DEF IsWorld
<1>5. ASSUME NEW a, IsPlain(w, a), NEW c \in Codes,
             n = [accounts |-> Put(w.accounts, a, c), storage |-> w.storage,
                  code |-> w.code \cup {c}, root |-> w.root + 1]
      PROVE  IsWorld(n) /\ n.root = w.root + 1
  <2>1. n = [accounts |-> Put(w.accounts, a, c), storage |-> w.storage,
             code |-> w.code \cup {c}, root |-> w.root + 1]
    BY <1>5
  <2>2. /\ IsMap(Put(w.accounts, a, c))
        /\ \A x \in DOMAIN w.accounts : x # a =>
              x \in DOMAIN Put(w.accounts, a, c) /\ Put(w.accounts, a, c)[x] = w.accounts[x]
        /\ a \in DOMAIN Put(w.accounts, a, c) /\ Put(w.accounts, a, c)[a] = c
    BY DEF IsMap, Put
  <2>3. \A k \in w.code \cup {c} : \E x \in DOMAIN Put(w.accounts, a, c) : Put(w.accounts, a, c)[x] = k
    BY <1>2, <1>5, <2>2 DEF IsWorld
  <2> QED  BY <1>1, <2>1, <2>2, <2>3 DEF IsWorld
<1>6. ASSUME NEW s, NEW v, \/ n = [Raised(w) EXCEPT !.storage = Put(@, s, v)]
                           \/ n = [Raised(w) EXCEPT !.storage = Drop(@, s)]
      PROVE  IsWorld(n) /\ n.root = w.root + 1
  <2>1. \E m : /\ n = [accounts |-> w.accounts, storage |-> m, code |-> w.code, root |-> w.root + 1]
               /\ IsMap(m)
    <3>1. IsMap(Put(w.storage, s, v)) /\ IsMap(Drop(w.storage, s))
      BY DEF IsMap, Put, Drop
    <3> QED  BY <1>1, <1>6, <3>1
  <2> QED  BY <1>1, <2>1 DEF IsWorld
<1>7. CASE n \in {[Raised(w) EXCEPT !.accounts = Put(@, a, b)] :
                 a \in {x \in StateAddrs : IsPlain(w, x)}, b \in PlainAccounts}
  BY <1>3, <1>7
<1>8. CASE n \in {[Raised(w) EXCEPT !.accounts = Drop(@, a)] : a \in {x \in DOMAIN w.accounts : IsPlain(w, x)}}
  BY <1>4, <1>8
<1>9. CASE n \in {[accounts |-> Put(w.accounts, a, c), storage |-> w.storage, code |-> w.code \cup {c},
                  root |-> w.root + 1] : a \in {x \in StateAddrs : IsPlain(w, x)}, c \in Codes}
  BY <1>5, <1>9
<1>10. CASE n \in {[Raised(w) EXCEPT !.storage = Put(@, s, v)] : s \in Slots, v \in 1..2}
  BY <1>6, <1>10
<1>11. CASE n \in {[Raised(w) EXCEPT !.storage = Drop(@, s)] : s \in DOMAIN w.storage}
  BY <1>6, <1>11
<1> QED  BY <1>7, <1>8, <1>9, <1>10, <1>11 DEF NextWorlds

(* A delta takes a replica of the state it starts from to the one it ends in. *)
LEMMA DeltaApplies ==
    ASSUME NEW v, IsWorld(v), NEW w, IsWorld(w), NEW from, NEW to, v.root <= w.root,
           NEW r, IsReplica(r), Faithful(r, v)
    PROVE  Faithful(AppliedTo(DeltaOf(from, to, v, w), r), w)
<1> DEFINE d == DeltaOf(from, to, v, w)
           n == AppliedTo(d, r)
           kept == Restrict(r.accounts, DOMAIN r.accounts \ d.deleted)
<1>1. /\ d.set = Restrict(w.accounts, Changed(v.accounts, w.accounts))
      /\ d.deleted = DOMAIN v.accounts \ DOMAIN w.accounts
      /\ d.stored = Restrict(w.storage, Changed(v.storage, w.storage))
      /\ d.deployed = {c \in w.code \ v.code : c \in Range(w.accounts)}
  BY DEF DeltaOf
<1>2. /\ n.accounts = Merged(kept, d.set)
      /\ n.storage = Merged(r.storage, d.stored)
      /\ n.code = r.code \cup d.deployed
      /\ n.root = r.root
  <2> HIDE DEF d
  <2> QED  BY DEF AppliedTo, IsReplica
<1>3. n.accounts = w.accounts
  <2>1. r.accounts = v.accounts
    BY DEF Faithful
  <2>2. /\ DOMAIN kept = DOMAIN v.accounts \cap DOMAIN w.accounts
        /\ \A a \in DOMAIN kept : kept[a] = v.accounts[a]
    <3> HIDE DEF d
    <3> QED  BY <1>1, <2>1 DEF Restrict
  <2>3. /\ DOMAIN d.set = Changed(v.accounts, w.accounts)
        /\ \A a \in DOMAIN d.set : d.set[a] = w.accounts[a]
    <3> HIDE DEF d
    <3> QED  BY <1>1 DEF Restrict, Changed
  <2>4. DOMAIN kept \cup DOMAIN d.set = DOMAIN w.accounts
    BY <2>2, <2>3 DEF Changed
  <2>5. \A a \in DOMAIN w.accounts : (IF a \in DOMAIN d.set THEN d.set[a] ELSE kept[a]) = w.accounts[a]
    BY <2>2, <2>3 DEF Changed
  <2> HIDE DEF kept, d, n
  <2>6. Merged(kept, d.set) = [a \in DOMAIN w.accounts |-> w.accounts[a]]
    BY <2>4, <2>5 DEF Merged
  <2> QED  BY <1>2, <2>6 DEF IsWorld, IsMap
<1>4. \A s \in DOMAIN w.storage : s \in DOMAIN n.storage /\ n.storage[s] = w.storage[s]
  <2>1. /\ DOMAIN d.stored = Changed(v.storage, w.storage)
        /\ \A s \in DOMAIN d.stored : d.stored[s] = w.storage[s]
    <3> HIDE DEF d
    <3> QED  BY <1>1 DEF Restrict, Changed
  <2> HIDE DEF d, n
  <2> QED  BY <1>2, <2>1 DEF Merged, Changed, Faithful
<1>5. w.code \subseteq n.code
  <2>1. \A c \in w.code : c \in Range(w.accounts)
    BY DEF IsWorld, Range
  <2> HIDE DEF d, n
  <2> QED  BY <1>1, <1>2, <2>1 DEF Faithful
<1>6. n.root <= w.root
  <2> HIDE DEF d, n
  <2> QED  BY <1>2 DEF Faithful, IsWorld, IsReplica
<1>7. Faithful(n, w)
  <2> HIDE DEF d, n
  <2> QED  BY <1>3, <1>4, <1>5, <1>6 DEF Faithful
<1> QED  BY <1>7

LEMMA AppliedReplica ==
    ASSUME NEW d, NEW r, IsReplica(r) PROVE IsReplica(AppliedTo(d, r))
BY DEF IsReplica, AppliedTo

LEMMA TopHeight == ASSUME NEW H \in Nat, DOMAIN worlds = 0 .. H PROVE Height = H
<1>1. H \in 0 .. H /\ \A y \in 0 .. H : y <= H
  OBVIOUS
<1>2. \A x \in 0 .. H : (\A y \in 0 .. H : x >= y) => x = H
  <2> SUFFICES ASSUME NEW x \in 0 .. H, \A y \in 0 .. H : x >= y PROVE x = H
    OBVIOUS
  <2>1. x >= H
    BY <1>1
  <2> QED  BY <2>1
<1>3. Height \in 0 .. H /\ \A y \in 0 .. H : Height >= y
  BY <1>1 DEF Height, Max
<1> QED  BY <1>2, <1>3

(* ReplicaAlwaysFaithful: for any accounts, slots, code and number of       *)
(* snapshots of storage/snapshot.rs, a replica that was rebuilt from a      *)
(* snapshot and deltas that start where it stands is the state of its       *)
(* height, whatever was cleaned up or dropped in between.                   *)
THEOREM ReplicaAlwaysFaithful == SnapSpec => []ReplicaIsFaithful
<1>1. SnapInit => SnapInv
  <2> SUFFICES ASSUME SnapInit PROVE SnapInv
    OBVIOUS
  <2>1. DOMAIN worlds = 0 .. 0 /\ worlds[0] = EmptyWorld /\ IsMap(worlds)
    BY DEF SnapInit, IsMap
  <2>2. /\ EmptyWorld.accounts = <<>> /\ EmptyWorld.storage = <<>> /\ EmptyWorld.code = {} /\ EmptyWorld.root = 0
        /\ IsMap(<<>>)
    BY DEF EmptyWorld, IsMap
  <2>3. IsWorld(EmptyWorld) /\ IsReplica(EmptyWorld)
    BY <2>2 DEF IsWorld, IsReplica, EmptyWorld
  <2>4. DOMAIN snapshots = {} /\ DOMAIN deltas = {} /\ replica = EmptyWorld /\ chained = -1
    BY DEF SnapInit
  <2> HIDE DEF EmptyWorld
  <2>5. \A h \in DOMAIN worlds : IsWorld(worlds[h]) /\ worlds[h].root = h
    BY <2>1, <2>2, <2>3
  <2> QED  BY <2>1, <2>3, <2>4, <2>5 DEF SnapInv
<1>2. SnapInv /\ [SnapNext]_snapVars => SnapInv'
  <2> SUFFICES ASSUME SnapInv, [SnapNext]_snapVars PROVE SnapInv'
    OBVIOUS
  <2>1. CASE UNCHANGED snapVars
    BY <2>1 DEF SnapInv, snapVars
  <2>2. CASE NewBlock
    <3>1. PICK H \in Nat : DOMAIN worlds = 0 .. H
      BY DEF SnapInv
    <3>2. Height = H
      BY <3>1, TopHeight
    <3>3. PICK w \in NextWorlds(worlds[H]) : worlds' = Put(worlds, H + 1, w)
      BY <2>2, <3>2 DEF NewBlock
    <3>4. IsWorld(w) /\ w.root = H + 1
      <4>1. H \in DOMAIN worlds
        BY <3>1
      <4>2. IsWorld(worlds[H]) /\ worlds[H].root = H
        BY <4>1 DEF SnapInv
      <4> QED  BY <3>3, <4>2, WorldStep
    <3>5. /\ DOMAIN worlds' = 0 .. H + 1 /\ H + 1 \in Nat /\ IsMap(worlds')
          /\ worlds'[H + 1] = w
          /\ \A h \in DOMAIN worlds : h \in DOMAIN worlds' /\ worlds'[h] = worlds[h]
      BY <3>1, <3>3 DEF Put, IsMap
    <3>6. \A h \in DOMAIN worlds' : IsWorld(worlds'[h]) /\ worlds'[h].root = h
      <4>1. \A h \in DOMAIN worlds' : h \in DOMAIN worlds \/ h = H + 1
        BY <3>1, <3>5
      <4> QED  BY <3>4, <3>5, <4>1 DEF SnapInv
    <3>7. UNCHANGED <<snapshots, deltas, replica, chained>>
      BY <2>2 DEF NewBlock
    <3> QED  BY <3>5, <3>6, <3>7 DEF SnapInv
  <2>3. ASSUME NEW h \in DOMAIN worlds, CreateSnapshot(h) PROVE SnapInv'
    <3>1. \A k \in DOMAIN snapshots' : k \in DOMAIN worlds /\ snapshots'[k] = worlds[k]
      <4>1. \A k \in DOMAIN Put(snapshots, h, worlds[h]) :
               k \in DOMAIN worlds /\ Put(snapshots, h, worlds[h])[k] = worlds[k]
        BY DEF Put, SnapInv
      <4>2. snapshots' = Put(snapshots, h, worlds[h])
            \/ \E m : snapshots' = Drop(Put(snapshots, h, worlds[h]), m)
        BY <2>3 DEF CreateSnapshot, KeptOf
      <4> QED  BY <4>1, <4>2 DEF Drop
    <3>2. UNCHANGED <<worlds, deltas, replica, chained>>
      BY <2>3 DEF CreateSnapshot
    <3> QED  BY <3>1, <3>2 DEF SnapInv
  <2>4. ASSUME NEW h \in DOMAIN worlds, NEW to \in DOMAIN worlds, to > h, CreateDelta(h, to) PROVE SnapInv'
    <3>1. /\ DeltaOf(h, to, worlds[h], worlds[to]).to = to
          /\ DeltaOf(h, to, worlds[h], worlds[to]).from = h
      BY DEF DeltaOf
    <3>2. UNCHANGED <<worlds, snapshots, replica, chained>>
          /\ deltas' = Put(deltas, to, DeltaOf(h, to, worlds[h], worlds[to]))
      BY <2>4 DEF CreateDelta
    <3>3. h < to
      BY <2>4 DEF SnapInv
    <3>4. \A k \in DOMAIN deltas' :
             \/ k = to /\ deltas'[k] = DeltaOf(h, to, worlds[h], worlds[to])
             \/ k \in DOMAIN deltas /\ deltas'[k] = deltas[k]
      BY <3>2 DEF Put
    <3>5. \A k \in DOMAIN deltas' :
             /\ deltas'[k].to = k /\ k \in DOMAIN worlds
             /\ deltas'[k].from \in DOMAIN worlds /\ deltas'[k].from < k
             /\ deltas'[k] = DeltaOf(deltas'[k].from, k, worlds[deltas'[k].from], worlds[k])
      BY <3>1, <3>3, <3>4 DEF SnapInv
    <3> QED  BY <3>2, <3>5 DEF SnapInv
  <2>5. ASSUME NEW h \in DOMAIN worlds, Cleanup(h) PROVE SnapInv'
    <3>1. UNCHANGED <<worlds, replica, chained>>
      BY <2>5 DEF Cleanup
    <3>2. /\ \A k \in DOMAIN snapshots' : k \in DOMAIN snapshots /\ snapshots'[k] = snapshots[k]
          /\ \A k \in DOMAIN deltas' : k \in DOMAIN deltas /\ deltas'[k] = deltas[k]
      BY <2>5 DEF Cleanup, Restrict
    <3> QED  BY <3>1, <3>2 DEF SnapInv
  <2>6. ASSUME NEW h \in DOMAIN worlds, SyncToHeight(h) PROVE SnapInv'
    BY <2>6 DEF SyncToHeight, SnapInv
  <2>7. ASSUME NEW h \in DOMAIN snapshots, ApplySnapshot(h) PROVE SnapInv'
    <3>1. /\ UNCHANGED <<worlds, snapshots, deltas>>
          /\ replica' = worlds[h] /\ chained' = h /\ h \in DOMAIN worlds
      BY <2>7 DEF ApplySnapshot, SnapInv
    <3>2. IsWorld(worlds[h])
      BY <3>1 DEF SnapInv
    <3>3. IsReplica(worlds[h]) /\ Faithful(worlds[h], worlds[h])
      BY <3>2 DEF IsWorld, IsReplica, Faithful
    <3> QED  BY <3>1, <3>3 DEF SnapInv
  <2>8. ASSUME NEW h \in DOMAIN deltas, ApplyDelta(h) PROVE SnapInv'
    <3> DEFINE from == deltas[h].from
    <3>1. /\ UNCHANGED <<worlds, snapshots, deltas>>
          /\ replica' = AppliedTo(deltas[h], replica)
          /\ chained' = IF chained = from THEN h ELSE -1
      BY <2>8 DEF ApplyDelta, SnapInv
    <3>2. /\ h \in DOMAIN worlds /\ from \in DOMAIN worlds /\ from < h
          /\ deltas[h] = DeltaOf(from, h, worlds[from], worlds[h])
          /\ IsWorld(worlds[from]) /\ IsWorld(worlds[h])
          /\ worlds[from].root = from /\ worlds[h].root = h
      BY DEF SnapInv
    <3>3. IsReplica(replica')
      BY <3>1, AppliedReplica DEF SnapInv
    <3> HIDE DEF from
    <3>4. ASSUME chained = from PROVE Faithful(replica', worlds[h])
      <4>1. from # -1 /\ worlds[from].root <= worlds[h].root
        BY <3>2 DEF IsWorld
      <4>2. Faithful(replica, worlds[from]) /\ IsReplica(replica)
        BY <3>4, <4>1 DEF SnapInv
      <4>3. replica' = AppliedTo(DeltaOf(from, h, worlds[from], worlds[h]), replica)
        BY <3>1, <3>2
      <4> QED  BY <3>2, <4>1, <4>2, <4>3, DeltaApplies
    <3> QED  BY <3>1, <3>2, <3>3, <3>4 DEF SnapInv
  <2> QED  BY <2>1, <2>2, <2>3, <2>4, <2>5, <2>6, <2>7, <2>8 DEF SnapNext
<1>3. SnapInv => ReplicaIsFaithful
  <2> SUFFICES ASSUME SnapInv, chained >= 0 PROVE ReplicaIsFaithful
    BY DEF ReplicaIsFaithful
  <2>1. chained # -1 /\ Faithful(replica, worlds[chained]) /\ worlds[chained].root = chained
    BY DEF SnapInv
  <2> QED  BY <2>1 DEF Faithful, ReplicaIsFaithful
<1> QED  BY <1>1, <1>2, <1>3, PTL DEF SnapSpec

-----------------------------------------------------------------------------
(* ParallelExecutor, for any number of transactions, accounts and workers *)

Independent(S) == \A i, j \in S : i # j => ~HasConflict(i, j)

(* DegreeOK: in_degree counts the unplaced tasks that depend on a task. *)
DegreeOK == \A d \in Ids : inDegree[d] = Cardinality(Dependents(d, remaining))

(* LayersOK: the tasks of a layer do not conflict. *)
LayersOK ==
    /\ \A k \in DOMAIN batches : Independent(batches[k])
    /\ Independent(current)

(* LocksOK: a write lock is held by a task that a worker runs, that writes *)
(* the account and that has no more need to take it.                       *)
LocksOK ==
    /\ \A i \in Ids : toLock[i] \subseteq WriteSet(i)
    /\ \A i \in Ids : pc[i] = "insert" => checked[i] \in toLock[i]
    /\ \A i \in Ids : pc[i] \in {"locking", "insert", "execute", "release"} => i \in current
    /\ \A a \in Addrs : writeLocks[a] # NoTask =>
          /\ writeLocks[a] \in Active
          /\ a \in WriteSet(writeLocks[a])
          /\ a \notin toLock[writeLocks[a]]

(* PlacedOK: a task is unplaced, in one layer, or in the running layer;    *)
(* it waits until its layer starts.                                        *)
PlacedOK ==
    /\ \A i \in remaining : pc[i] = "waiting"
    /\ \A k \in DOMAIN batches : \A i \in batches[k] : pc[i] = "waiting" /\ i \notin remaining
    /\ \A k, l \in DOMAIN batches : k # l => batches[k] \cap batches[l] = {}
    /\ \A i \in current : pc[i] # "waiting"

(* ChangesOK: what a task of the running layer has read back is what the   *)
(* accounts still hold; a task that has not been executed has nothing.     *)
ChangesOK ==
    /\ \A i \in Ids : pc[i] \in {"waiting", "queued", "locking", "insert", "execute"}
                         => DOMAIN changes[i] = {}
    /\ \A i \in current : \A a \in DOMAIN changes[i] :
          a \in WriteSet(i) /\ version[a] = changes[i][a]

IInv == TypeOK /\ DegreeOK /\ LayersOK /\ LocksOK /\ PlacedOK /\ ChangesOK

-----------------------------------------------------------------------------
(* A nonempty set of task ids has a largest element. *)
LEMMA LargestId ==
    ASSUME NEW S \in SUBSET Ids, S # {}
    PROVE  \E m \in S : \A i \in S : i <= m
<1> DEFINE T == {N - i : i \in S}
<1>1. T \subseteq Nat /\ T # {}
  <2>1. \A i \in S : N - i \in Nat  BY ParallelAssumption DEF Ids
  <2>2. PICK i \in S : TRUE  OBVIOUS
  <2>3. N - i \in T  BY <2>2
  <2> QED  BY <2>1, <2>3
<1>2. PICK x \in T : \A y \in T : ~(<<y, x>> \in OpToRel(<, Nat))
  BY <1>1, WFMin, NatLessThanWellFounded
<1>3. PICK m \in S : x = N - m  OBVIOUS
<1>4. \A i \in S : ~(N - i < N - m)
  <2> SUFFICES ASSUME NEW i \in S PROVE ~(N - i < N - m)  OBVIOUS
  <2>1. N - i \in T /\ N - i \in Nat /\ x \in Nat  BY <1>1
  <2> QED  BY <1>2, <1>3, <2>1 DEF OpToRel
<1> QED  BY <1>4, ParallelAssumption DEF Ids

(* The dependents of a task are finitely many. *)
LEMMA DependentsFinite ==
    ASSUME NEW d, NEW S \in SUBSET Ids
    PROVE  /\ IsFiniteSet(Dependents(d, S))
           /\ Cardinality(Dependents(d, S)) \in Nat
           /\ Cardinality(Dependents(d, S)) = 0 <=> Dependents(d, S) = {}
<1>1. IsFiniteSet(Ids)  BY FS_Interval, ParallelAssumption DEF Ids
<1>2. Dependents(d, S) \in SUBSET Ids  BY DEF Dependents
<1>3. IsFiniteSet(Dependents(d, S))  BY <1>1, <1>2, FS_Subset
<1> QED  BY <1>3, FS_CardinalityType, FS_EmptySet

(* The relations between tasks only depend on the block. *)
LEMMA Frame ==
    ASSUME txs' = txs
    PROVE  /\ \A i, j : HasConflict(i, j)' <=> HasConflict(i, j)
           /\ \A i : WriteSet(i)' = WriteSet(i)
           /\ \A i : ReadSet(i)' = ReadSet(i)
           /\ \A i : Deps(i)' = Deps(i)
BY DEF HasConflict, WriteSet, ReadSet, Deps

(* A set in which nobody has dependents is free of conflicts. *)
LEMMA LayerIndependent == ASSUME IInv PROVE Independent(Layer)
<1> SUFFICES ASSUME NEW i \in Layer, NEW j \in Layer, i < j, HasConflict(i, j)
             PROVE  FALSE
  <2>1. \A i, j : HasConflict(i, j) <=> HasConflict(j, i)  BY DEF HasConflict
  <2>2. \A i, j \in Layer : i # j => i < j \/ j < i
    BY ParallelAssumption DEF Layer, IInv, TypeOK, Ids
  <2> QED  BY <2>1, <2>2 DEF Independent
<1>1. i \in Ids /\ j \in Ids /\ j \in remaining /\ inDegree[i] = 0
  BY DEF Layer, IInv, TypeOK
<1>2. j \in Dependents(i, remaining)  BY <1>1 DEF Dependents, Deps
<1>3. Dependents(i, remaining) = {}
  BY <1>1, DependentsFinite DEF IInv, TypeOK, DegreeOK
<1> QED  BY <1>2, <1>3

(* The invariant rules out the branch for circular dependencies. *)
LEMMA LayerExists == ASSUME IInv PROVE LayerNeverEmpty
<1> SUFFICES ASSUME remaining # {} PROVE Layer # {}  BY DEF LayerNeverEmpty
<1>1. remaining \in SUBSET Ids  BY DEF IInv, TypeOK
<1>2. PICK m \in remaining : \A i \in remaining : i <= m  BY <1>1, LargestId
<1>3. Dependents(m, remaining) = {}
  <2>1. \A i \in remaining : i \in Int /\ m \in Int /\ ~(m < i)
    BY <1>1, <1>2, ParallelAssumption DEF Ids
  <2> QED  BY <2>1 DEF Dependents, Deps
<1>4. inDegree[m] = 0  BY <1>1, <1>3, DependentsFinite DEF IInv, DegreeOK
<1> QED  BY <1>4 DEF Layer

-----------------------------------------------------------------------------
(* What a set of tasks loses in dependents when part of it is placed. *)
LEMMA DependentsSplit ==
    ASSUME NEW d, NEW S \in SUBSET Ids, NEW T \in SUBSET S
    PROVE  Cardinality(Dependents(d, S \ T)) =
             Cardinality(Dependents(d, S)) - Cardinality(Dependents(d, T))
<1>1. Dependents(d, S \ T) = Dependents(d, S) \ Dependents(d, T)  BY DEF Dependents
<1>2. Dependents(d, S) \cap Dependents(d, T) = Dependents(d, T)  BY DEF Dependents
<1>3. IsFiniteSet(Dependents(d, S))  BY DependentsFinite
<1> QED  BY <1>1, <1>2, <1>3, FS_Difference

(* The initial state satisfies the invariant. *)
LEMMA InitInv == Init => IInv
<1> SUFFICES ASSUME Init PROVE IInv  OBVIOUS
<1>1. inDegree \in [Ids -> Nat]
  <2>1. \A d \in Ids : Cardinality(Dependents(d, Ids)) \in Nat  BY DependentsFinite
  <2> QED  BY <2>1 DEF Init
<1>2. TypeOK
  <2>1. [a \in {} |-> NoTask] \in Versions
    <3>1. [a \in {} |-> NoTask] \in [{} -> Ids \cup {NoTask}]  OBVIOUS
    <3> QED  BY <3>1 DEF Versions
  <2> QED  BY <1>1, <2>1 DEF Init, TypeOK
<1>3. DegreeOK  BY DEF Init, DegreeOK
<1>4. LayersOK  BY DEF Init, LayersOK, Independent
<1>5. LocksOK  BY DEF Init, LocksOK
<1>6. PlacedOK /\ ChangesOK  BY DEF Init, PlacedOK, ChangesOK
<1> QED  BY <1>2, <1>3, <1>4, <1>5, <1>6 DEF IInv

(* A step of topological_sort. *)
LEMMA SortInv == ASSUME IInv, SortLayer PROVE IInv'
<1>1. txs' = txs  BY DEF SortLayer
<1>2. Layer \in SUBSET remaining /\ remaining \in SUBSET Ids
  BY DEF Layer, IInv, TypeOK
<1>3. \A d \in Ids : Dependents(d, remaining)' = Dependents(d, remaining \ Layer)
  BY <1>1, Frame DEF SortLayer, Dependents
<1>4. \A d \in Ids : inDegree'[d] = Cardinality(Dependents(d, remaining \ Layer))
  <2> SUFFICES ASSUME NEW d \in Ids
               PROVE  inDegree'[d] = Cardinality(Dependents(d, remaining \ Layer))
    OBVIOUS
  <2> DEFINE less == Cardinality(Dependents(d, Layer))
             all == Cardinality(Dependents(d, remaining))
             left == Cardinality(Dependents(d, remaining \ Layer))
  <2>1. less \in Nat /\ all \in Nat /\ left \in Nat
    BY <1>2, DependentsFinite
  <2>2. left = all - less  BY <1>2, DependentsSplit
  <2>3. inDegree[d] = all  BY DEF IInv, DegreeOK
  <2>4. inDegree'[d] = IF inDegree[d] >= less THEN inDegree[d] - less ELSE 0
    BY DEF SortLayer
  <2> HIDE DEF less, all, left
  <2>5. inDegree'[d] = left  BY <2>1, <2>2, <2>3, <2>4
  <2> QED  BY <2>5 DEF left
<1>5. TypeOK'
  <2>1. inDegree' \in [Ids -> Nat]
    <3>1. \A d \in Ids : inDegree'[d] \in Nat  BY <1>2, <1>4, DependentsFinite
    <3> QED  BY <3>1 DEF SortLayer
  <2>2. batches' \in Seq(SUBSET Ids)  BY <1>2 DEF SortLayer, IInv, TypeOK
  <2> QED  BY <2>1, <2>2, <1>2 DEF SortLayer, IInv, TypeOK, lockVars
<1>6. DegreeOK'
  BY <1>3, <1>4 DEF DegreeOK, SortLayer
<1>7. LayersOK'
  <2>1. Independent(Layer)  BY LayerIndependent
  <2>2. batches \in Seq(SUBSET Ids) /\ batches' = Append(batches, Layer)
    BY DEF SortLayer, IInv, TypeOK
  <2>3. \A k \in DOMAIN batches' : Independent(batches'[k])
    BY <2>1, <2>2 DEF IInv, LayersOK
  <2> QED  BY <1>1, <2>3, Frame DEF SortLayer, IInv, LayersOK, Independent
<1>8. LocksOK'
  BY <1>1, Frame DEF SortLayer, IInv, LocksOK, Active, lockVars
<1>9. PlacedOK'
  <2>1. batches \in Seq(SUBSET Ids) /\ batches' = Append(batches, Layer)
    BY DEF SortLayer, IInv, TypeOK
  <2>2. remaining' = remaining \ Layer /\ UNCHANGED <<pc, current>>  BY DEF SortLayer
  <2>3. \A k \in DOMAIN batches' :
           \/ k \in DOMAIN batches /\ batches'[k] = batches[k]
           \/ k = Len(batches) + 1 /\ batches'[k] = Layer
    BY <2>1
  <2>4. \A k \in DOMAIN batches : batches[k] \cap Layer = {}
    BY <1>2 DEF IInv, PlacedOK
  <2> QED  BY <1>2, <2>2, <2>3, <2>4 DEF IInv, PlacedOK
<1>10. ChangesOK'
  BY <1>1, Frame DEF SortLayer, IInv, ChangesOK
<1> QED  BY <1>5, <1>6, <1>7, <1>8, <1>9, <1>10 DEF IInv

(* Applying the collected changes writes what the accounts hold already. *)
LEMMA CollectKeeps == ASSUME IInv, Collect PROVE version' = version
<1>1. \A a \in Addrs : version'[a] = version[a]
  <2> SUFFICES ASSUME NEW a \in Addrs PROVE version'[a] = version[a]  OBVIOUS
  <2> DEFINE k == CHOOSE k \in current : a \in DOMAIN changes[k]
  <2>1. CASE \E i \in current : a \in DOMAIN changes[i]
    <3>1. k \in current /\ a \in DOMAIN changes[k]  BY <2>1
    <3>2. version'[a] = changes[k][a]  BY <2>1 DEF Collect
    <3> HIDE DEF k
    <3> QED  BY <3>1, <3>2 DEF IInv, ChangesOK
  <2>2. CASE ~\E i \in current : a \in DOMAIN changes[i]
    BY <2>2 DEF Collect
  <2> QED  BY <2>1, <2>2
<1>2. version' = [a \in Addrs |-> version'[a]] /\ version = [a \in Addrs |-> version[a]]
  BY DEF Collect, IInv, TypeOK
<1> QED  BY <1>1, <1>2

(* Starting a layer and collecting its results: no worker runs then, so no *)
(* write lock is held.                                                     *)
LEMMA BatchInv == ASSUME IInv, StartBatch \/ Collect PROVE IInv'
<1>1. txs' = txs /\ inDegree' = inDegree /\ remaining' = remaining
      /\ UNCHANGED lockVars
  BY DEF StartBatch, Collect, sortVars
<1>2. Active = {}  BY DEF StartBatch, Collect, Active
<1>3. \A a \in Addrs : writeLocks[a] = NoTask  BY <1>2 DEF IInv, LocksOK
<1>4. DegreeOK'  BY <1>1, Frame DEF IInv, DegreeOK, Dependents
<1>5. CASE StartBatch
  <2>1. /\ batches \in Seq(SUBSET Ids) /\ batches # <<>>
        /\ current' = Head(batches) /\ batches' = Tail(batches)
    BY <1>5 DEF StartBatch, IInv, TypeOK
  <2>2. /\ batches' \in Seq(SUBSET Ids) /\ current' \in SUBSET Ids
        /\ Head(batches) = batches[1] /\ 1 \in DOMAIN batches
        /\ \A k \in DOMAIN batches' : k + 1 \in DOMAIN batches /\ batches'[k] = batches[k + 1]
    BY <2>1
  <2>3. TypeOK'
    BY <1>1, <1>5, <2>2 DEF StartBatch, IInv, TypeOK, lockVars
  <2>4. LayersOK'
    BY <1>1, <2>1, <2>2, Frame DEF IInv, LayersOK, Independent
  <2>5. LocksOK'
    BY <1>1, <1>3, <1>5, <2>1, Frame DEF StartBatch, IInv, TypeOK, LocksOK, lockVars
  <2>6. PlacedOK'
    <3>1. \A k \in DOMAIN batches' : k + 1 # 1 /\ batches[k + 1] \cap batches[1] = {}
      BY <2>1, <2>2 DEF IInv, PlacedOK
    <3>2. \A k \in DOMAIN batches' : \A i \in batches'[k] : i \in Ids /\ pc'[i] = "waiting"
      BY <1>5, <2>1, <2>2, <3>1 DEF StartBatch, IInv, TypeOK, PlacedOK
    <3>3. \A k, l \in DOMAIN batches' : k # l => batches'[k] \cap batches'[l] = {}
      BY <2>1, <2>2 DEF IInv, PlacedOK
    <3>4. \A i \in current' : pc'[i] = "queued"
      BY <1>5, <2>1, <2>2 DEF StartBatch
    <3> QED  BY <1>1, <1>5, <3>2, <3>3, <3>4 DEF StartBatch, PlacedOK
  <2>7. ChangesOK'
    <3>1. \A i \in current' : pc[i] = "waiting" /\ pc'[i] = "queued" /\ i \in Ids
      BY <1>5, <2>1, <2>2 DEF StartBatch, IInv, PlacedOK
    <3>2. changes' = changes /\ \A i \in Ids : pc'[i] # "queued" => pc'[i] = pc[i]
      BY <1>5 DEF StartBatch
    <3>3. \A i \in Ids : pc'[i] = "queued" => pc[i] \in {"waiting", "queued"}
      BY <1>5, <2>1, <2>2 DEF StartBatch, IInv, PlacedOK
    <3> QED  BY <3>1, <3>2, <3>3 DEF IInv, ChangesOK
  <2> QED  BY <1>4, <2>3, <2>4, <2>5, <2>6, <2>7 DEF IInv
<1>6. CASE Collect
  <2>1. version' = version  BY <1>6, CollectKeeps
  <2>2. TypeOK'  BY <1>1, <1>6, <2>1 DEF Collect, IInv, TypeOK, sortVars, lockVars
  <2>3. LayersOK'
    BY <1>1, <1>6, Frame DEF Collect, IInv, LayersOK, Independent, sortVars
  <2>4. LocksOK'
    BY <1>1, <1>3, <1>6, Frame DEF Collect, IInv, TypeOK, LocksOK, lockVars
  <2>5. PlacedOK' /\ ChangesOK'
    BY <1>6 DEF Collect, IInv, PlacedOK, ChangesOK, sortVars
  <2> QED  BY <1>4, <2>2, <2>3, <2>4, <2>5 DEF IInv
<1> QED  BY <1>5, <1>6

(* A step of a worker. *)
LEMMA WorkInv == ASSUME IInv, NEW i \in Ids, Work(i) PROVE IInv'
<1>1. txs' = txs /\ UNCHANGED <<sortVars, current>>
  BY DEF Work, Take, LockCheck, LockInsert, Execute, Release
<1>2. DegreeOK' /\ LayersOK'
  BY <1>1, Frame DEF IInv, DegreeOK, Dependents, LayersOK, Independent, sortVars
<1>3. WriteSet(i) \subseteq Addrs
  <2>1. txs[i] \in [from : Addrs, to : Addrs \cup {Create}, accessed : SUBSET Addrs]
    BY ParallelAssumption DEF IInv, TypeOK
  <2> QED  BY <2>1 DEF WriteSet
<1>9. i \in current /\ PlacedOK'
  <2>1. i \in current /\ pc[i] # "waiting"
    BY DEF Work, Take, LockCheck, LockInsert, Execute, Release, IInv, LocksOK
  <2>2. pc'[i] # "waiting" /\ \A j \in Ids : j # i => pc'[j] = pc[j]
    BY DEF Work, Take, LockCheck, LockInsert, Execute, Release, Goto, IInv, TypeOK
  <2>3. remaining \subseteq Ids /\ current \subseteq Ids
        /\ \A k \in DOMAIN batches : batches[k] \subseteq Ids
    BY DEF IInv, TypeOK
  <2> QED  BY <1>1, <2>1, <2>2, <2>3 DEF IInv, PlacedOK, sortVars
<1>4. CASE Take(i)
  <2>1. TypeOK'  BY <1>1, <1>3, <1>4 DEF Take, Goto, IInv, TypeOK, sortVars
  <2>2. LocksOK'
    BY <1>1, <1>4, Frame DEF Take, Goto, IInv, TypeOK, LocksOK, Active
  <2>3. ChangesOK'
    BY <1>1, <1>4, Frame DEF Take, Goto, IInv, TypeOK, ChangesOK
  <2> QED  BY <1>2, <1>9, <2>1, <2>2, <2>3 DEF IInv
<1>5. CASE \E a \in Addrs : LockCheck(i, a)
  <2>1. TypeOK'  BY <1>1, <1>5 DEF LockCheck, Goto, IInv, TypeOK, sortVars
  <2>2. LocksOK'
    <3>1. PICK a \in Addrs : LockCheck(i, a)  BY <1>5
    <3>2. \A j \in Ids : j \in Active' <=> j \in Active
      BY <1>1, <3>1 DEF LockCheck, Goto, Active, IInv, TypeOK
    <3>3. \A j \in Ids :
             /\ pc'[j] = "insert" => checked'[j] \in toLock'[j]
             /\ pc'[j] \in {"locking", "insert", "execute", "release"} => j \in current'
      BY <1>1, <3>1 DEF LockCheck, Goto, IInv, TypeOK, LocksOK
    <3>4. UNCHANGED <<toLock, writeLocks>>  BY <3>1 DEF LockCheck
    <3>5. \A b \in Addrs : writeLocks'[b] # NoTask =>
             /\ writeLocks'[b] \in Active'
             /\ b \in WriteSet(writeLocks[b])
             /\ b \notin toLock'[writeLocks'[b]]
      BY <3>2, <3>4 DEF IInv, TypeOK, LocksOK
    <3>6. \A j \in Ids : toLock'[j] \subseteq WriteSet(j)
      BY <3>4 DEF IInv, LocksOK
    <3> QED  BY <1>1, <3>3, <3>4, <3>5, <3>6, Frame DEF LocksOK
  <2>3. ChangesOK'
    BY <1>1, <1>5, Frame DEF LockCheck, Goto, IInv, TypeOK, ChangesOK
  <2> QED  BY <1>2, <1>9, <2>1, <2>2, <2>3 DEF IInv
<1>6. CASE LockInsert(i)
  <2>1. TypeOK'  BY <1>1, <1>6 DEF LockInsert, Goto, IInv, TypeOK, sortVars
  <2>2. LocksOK'
    BY <1>1, <1>3, <1>6, Frame DEF LockInsert, Goto, IInv, TypeOK, LocksOK, Active
  <2>3. ChangesOK'
    BY <1>1, <1>6, Frame DEF LockInsert, Goto, IInv, TypeOK, ChangesOK
  <2> QED  BY <1>2, <1>9, <2>1, <2>2, <2>3 DEF IInv
<1>7. CASE \E ok \in BOOLEAN : Execute(i, ok)
  <2> PICK ok \in BOOLEAN : Execute(i, ok)  BY <1>7
  <2> DEFINE read == IF ok THEN [a \in WriteSet(i) |-> version'[a]] ELSE [a \in {} |-> NoTask]
  <2>a. /\ version' = [a \in Addrs |-> IF ok /\ a \in WriteSet(i) THEN i ELSE version[a]]
        /\ changes' = [changes EXCEPT ![i] = read]
        /\ pc[i] = "execute" /\ pc' = [pc EXCEPT ![i] = "release"]
        /\ UNCHANGED lockVars
    BY DEF Execute, Goto
  <2>b. version' \in [Addrs -> Ids \cup {NoTask}]  BY <2>a DEF IInv, TypeOK
  <2>c. /\ DOMAIN read \subseteq WriteSet(i)
        /\ \A a \in DOMAIN read : read[a] = version'[a]
    OBVIOUS
  <2>d. read \in Versions
    <3>1. read \in [DOMAIN read -> Ids \cup {NoTask}] /\ DOMAIN read \in SUBSET Addrs
      BY <1>3, <2>b
    <3> QED  BY <3>1 DEF Versions
  <2> HIDE DEF read
  <2>1. TypeOK'
    BY <1>1, <2>a, <2>b, <2>d DEF IInv, TypeOK, sortVars, lockVars
  <2>2. LocksOK'
    BY <1>1, <2>a, Frame DEF IInv, TypeOK, LocksOK, Active, lockVars
  <2>3. ChangesOK'
    <3>1. \A j \in Ids : pc'[j] \in {"waiting", "queued", "locking", "insert", "execute"}
                           => DOMAIN changes'[j] = {}
      BY <2>a DEF IInv, TypeOK, ChangesOK
    <3>2. ASSUME NEW j \in current, NEW a \in DOMAIN changes'[j]
          PROVE  a \in WriteSet(j) /\ version'[a] = changes'[j][a]
      <4>0. j \in Ids  BY DEF IInv, TypeOK
      <4>1. CASE j = i
        BY <2>a, <2>c, <4>1, <3>2 DEF IInv, TypeOK
      <4>2. CASE j # i
        <5>1. changes'[j] = changes[j]  BY <2>a, <4>0, <4>2 DEF IInv, TypeOK
        <5>2. a \in WriteSet(j) /\ version[a] = changes[j][a]
          BY <3>2, <5>1 DEF IInv, ChangesOK
        <5>3. a \notin WriteSet(i)
          BY <1>9, <4>2, <5>2 DEF IInv, LayersOK, Independent, HasConflict
        <5>4. a \in Addrs
          <6>1. changes[j] \in Versions  BY <4>0 DEF IInv, TypeOK
          <6> QED  BY <5>1, <6>1, <3>2 DEF Versions
        <5> QED  BY <2>a, <5>1, <5>2, <5>3, <5>4
      <4> QED  BY <4>1, <4>2
    <3> QED  BY <1>1, <3>1, <3>2, Frame DEF ChangesOK
  <2> QED  BY <1>2, <1>9, <2>1, <2>2, <2>3 DEF IInv
<1>8. CASE Release(i)
  <2>1. TypeOK'  BY <1>1, <1>8 DEF Release, Goto, IInv, TypeOK, sortVars
  <2>2. LocksOK'
    BY <1>1, <1>8, Frame, ParallelAssumption DEF Release, Goto, IInv, TypeOK, LocksOK, Active
  <2>3. ChangesOK'
    BY <1>1, <1>8, Frame DEF Release, Goto, IInv, TypeOK, ChangesOK
  <2> QED  BY <1>2, <1>9, <2>1, <2>2, <2>3 DEF IInv
<1> QED  BY <1>4, <1>5, <1>6, <1>7, <1>8 DEF Work

(* The invariant holds in every reachable state. *)
LEMMA IInvHolds == Spec => []IInv
<1>1. ASSUME IInv, [Next]_vars PROVE IInv'
  <2>1. CASE SortLayer  BY <1>1, <2>1, SortInv
  <2>2. CASE StartBatch \/ Collect  BY <1>1, <2>2, BatchInv
  <2>3. CASE \E i \in Ids : Work(i)  BY <1>1, <2>3, WorkInv
  <2>4. CASE UNCHANGED vars
    <3>1. txs' = txs  BY <2>4 DEF vars
    <3> QED
      BY <1>1, <2>4, <3>1, Frame DEF vars, sortVars, lockVars, IInv, TypeOK, DegreeOK,
         Dependents, LayersOK, Independent, LocksOK, Active, PlacedOK, ChangesOK
  <2> QED  BY <1>1, <2>1, <2>2, <2>3, <2>4 DEF Next
<1> QED  BY InitInv, <1>1, PTL DEF Spec

(* TypeCorrect: the scheduler's and the lock table's fields keep their     *)
(* types (parallel.rs).                                                    *)
THEOREM TypeCorrect == Spec => []TypeOK
BY IInvHolds, PTL DEF IInv

(* NoEmptyLayer: topological_sort finds a task of in-degree 0 as long as   *)
(* tasks are left, so its branch for circular dependencies is dead.        *)
THEOREM NoEmptyLayer == Spec => []LayerNeverEmpty
<1>1. IInv => LayerNeverEmpty  BY LayerExists
<1> QED  BY <1>1, IInvHolds, PTL

(* ConflictFreeWorkers: workers never run two conflicting tasks of a block *)
(* at the same time (execute_parallel_batch).                              *)
THEOREM ConflictFreeWorkers == Spec => []NoConflictRunsTogether
<1>1. IInv => NoConflictRunsTogether
  BY DEF IInv, LayersOK, Independent, NoConflictRunsTogether, Active
<1> QED  BY <1>1, IInvHolds, PTL

(* LocksAlwaysFree: acquire_locks never finds a write lock taken, so its   *)
(* check and its insertion, two steps, are not interrupted by another task *)
(* that wants the same account.                                            *)
THEOREM LocksAlwaysFree == Spec => []LocksUncontended
<1>1. ASSUME IInv PROVE LocksUncontended
  <2> SUFFICES ASSUME NEW i \in Active, NEW a \in toLock[i], writeLocks[a] # NoTask
               PROVE  FALSE
    BY DEF LocksUncontended
  <2>1. i \in Ids /\ i \in current /\ a \in Addrs /\ a \in WriteSet(i)
    BY <1>1 DEF Active, IInv, TypeOK, LocksOK
  <2>2. /\ writeLocks[a] \in current /\ a \in WriteSet(writeLocks[a])
        /\ a \notin toLock[writeLocks[a]]
    BY <1>1, <2>1 DEF IInv, LocksOK, Active
  <2> QED  BY <1>1, <2>1, <2>2 DEF IInv, LayersOK, Independent, HasConflict
<1> QED  BY <1>1, IInvHolds, PTL

(* CollectedWritesSurvive: applying the collected state_changes after a    *)
(* layer changes no account (execute_parallel_batch).                      *)
THEOREM CollectedWritesSurvive == Spec => WritesSurvive
<1>1. ASSUME IInv, [Next]_vars, current # {} /\ current' = {} PROVE version' = version
  <2>1. CASE Collect  BY <1>1, <2>1, CollectKeeps
  <2>2. CASE SortLayer  BY <1>1, <2>2 DEF SortLayer
  <2>3. CASE StartBatch  BY <1>1, <2>3 DEF StartBatch
  <2>4. CASE \E i \in Ids : Work(i)
    BY <1>1, <2>4 DEF Work, Take, LockCheck, LockInsert, Execute, Release
  <2>5. CASE UNCHANGED vars  BY <1>1, <2>5 DEF vars
  <2> QED  BY <1>1, <2>1, <2>2, <2>3, <2>4, <2>5 DEF Next
<1> QED  BY <1>1, IInvHolds, PTL DEF Spec, WritesSurvive

(* BatchesAlwaysSafe: whatever the block and the number of workers, the     *)
(* layers progress, conflicting tasks never run together, no lock is        *)
(* contended and no collected write is undone (parallel.rs).                *)
THEOREM BatchesAlwaysSafe == Spec => BatchesRunSafely
<1>1. TypeOK /\ LayerNeverEmpty /\ NoConflictRunsTogether /\ LocksUncontended => LayersSafe
  BY DEF LayersSafe
<1>2. Spec => []LayersSafe
  BY <1>1, TypeCorrect, NoEmptyLayer, ConflictFreeWorkers, LocksAlwaysFree, PTL
<1> QED  BY <1>2, CollectedWritesSurvive DEF BatchesRunSafely
=============================================================================
