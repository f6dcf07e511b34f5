---------------------------- MODULE KeyManagement ----------------------------
(***************************************************************************)
(* security/key_management.rs: the life of the keys in a KeyManager, and   *)
(* the transactions of a MultiSigWallet.  Key ids are random: the n-th key *)
(* made is n; a hardware wallet may fail to make or to use a key.  The     *)
(* encryption and the splitting of secrets are left out: a recovery share  *)
(* is its key's id.                                                        *)
(***************************************************************************)
EXTENDS Integers, FiniteSets, Maps

CONSTANTS MaxKeys,           \* bound: the keys made
          KeyCallers,        \* concurrent callers of rotate_key and batch_rotate
          HardwareThere,     \* set_hardware_wallet was called
          MaxShared,         \* bound: the keys with recovery shares
          Signers, Threshold, WalletTxs

ASSUME WalletAssumption == IsFiniteSet(Signers) /\ Threshold \in 1 .. Cardinality(Signers)
ASSUME KeysAssumption == MaxKeys \in Nat

VARIABLES
    keys,        \* keys: id -> [status, hardware]
    aged,        \* the active keys for which should_rotate holds
    rotation,    \* caller -> what it does and the keys it has yet to rotate
    successors,  \* history: key -> the keys made to replace it
    gaveUp,      \* history: the keys whose replacement could not be made
    shared,      \* the keys that recovery_shares has shares of
    wallet,      \* pending_transactions: transaction -> who signed it
    walletRuns   \* history: transaction -> the signer sets it was executed with

keyVars == <<keys, aged, rotation, successors, gaveUp, shared>>
walletVars == <<wallet, walletRuns>>

KeyIds == 1 .. MaxKeys
NoRotation == [at |-> "idle", left |-> {}]

KeyInit ==
    /\ keys = <<>> /\ aged = {} /\ shared = {} /\ gaveUp = {}
    /\ rotation = [r \in KeyCallers |-> NoRotation]
    /\ successors = [k \in KeyIds |-> {}]

WalletInit == wallet = <<>> /\ walletRuns = [t \in WalletTxs |-> {}]

Fresh == {Cardinality(DOMAIN keys) + 1} \cap KeyIds
NewKey(hardware) == [status |-> "Active", hardware |-> hardware]

-----------------------------------------------------------------------------
(* KeyManager *)

GenerateKey(k, hardware) ==
    /\ keys' = Put(keys, k, NewKey(hardware))
    /\ UNCHANGED <<aged, rotation, successors, gaveUp, shared>>

(* The key expires. *)
KeyAges(k) ==
    /\ keys[k].status = "Active"
    /\ aged' = aged \cup {k}
    /\ UNCHANGED <<keys, rotation, successors, gaveUp, shared>>

(* rotate_key is given any key; batch_rotate picks the active ones that are *)
(* due, and rotates them later, one by one, whatever became of them.        *)
StartRotation(r, ks) ==
    /\ rotation[r].at = "idle" /\ ks # {}
    /\ rotation' = [rotation EXCEPT ![r] = [at |-> "mark", left |-> ks]]
    /\ UNCHANGED <<keys, aged, successors, gaveUp, shared>>

MarkRotating(r, k) ==
    /\ rotation[r].at = "mark" /\ k \in rotation[r].left
    /\ keys' = [keys EXCEPT ![k].status = "Rotating"]
    /\ rotation' = [rotation EXCEPT ![r] = [at |-> "generate", left |-> rotation[r].left, key |-> k]]
    /\ aged' = aged \ {k}
    /\ UNCHANGED <<successors, gaveUp, shared>>

AfterGenerate_Marked(k, n) == [Put(keys, n, NewKey(keys[k].hardware)) EXCEPT ![k].status = "Active"]

AfterGenerate(k, n) == Put(keys, n, NewKey(keys[k].hardware))

MakeSuccessor(r, n) ==
    /\ rotation[r].at = "generate"
    /\ LET k == rotation[r].key
       IN  /\ keys' = AfterGenerate(k, n)
           /\ successors' = [successors EXCEPT ![k] = @ \cup {n}]
    /\ rotation' = [rotation EXCEPT ![r].at = "retire"]
    /\ UNCHANGED <<aged, gaveUp, shared>>

(* The hardware wallet fails: the call and the rest of its list end here. *)
HardwareFails(r) ==
    /\ rotation[r].at = "generate" /\ keys[rotation[r].key].hardware /\ HardwareThere
    /\ gaveUp' = gaveUp \cup {rotation[r].key}
    /\ rotation' = [rotation EXCEPT ![r] = NoRotation]
    /\ UNCHANGED <<keys, aged, successors, shared>>

Retire(r) ==
    /\ rotation[r].at = "retire"
    /\ keys' = [keys EXCEPT ![rotation[r].key].status = "Deprecated"]
    /\ rotation' = [rotation EXCEPT ![r] =
          LET rest == rotation[r].left \ {rotation[r].key}
          IN  IF rest = {} THEN NoRotation ELSE [at |-> "mark", left |-> rest]]
    /\ UNCHANGED <<aged, successors, gaveUp, shared>>

(* The use that brings the key to its limit; the others leave no trace.  It  *)
(* counts before the hardware wallet is asked, which may not be there.      *)
Sign(k) ==
    /\ keys[k].status = "Active"
    /\ aged' = aged \cup {k}
    /\ UNCHANGED <<keys, rotation, successors, gaveUp, shared>>

CreateShares(k) ==
    /\ Cardinality(shared) < MaxShared
    /\ shared' = shared \cup {k}
    /\ UNCHANGED <<keys, aged, rotation, successors, gaveUp>>

RecoverKey(k, n) ==
    /\ k \in shared
    /\ keys' = Put(keys, n, [status |-> "Recovered", hardware |-> FALSE])
    /\ UNCHANGED <<aged, rotation, successors, gaveUp, shared>>

KeyNext ==
    \/ \E k \in Fresh : (\E hardware \in BOOLEAN : GenerateKey(k, hardware))
                        \/ (\E s \in shared : RecoverKey(s, k))
                        \/ (\E r \in KeyCallers : MakeSuccessor(r, k))
    \/ \E k \in DOMAIN keys : KeyAges(k) \/ Sign(k) \/ CreateShares(k)
                              \/ \E r \in KeyCallers : StartRotation(r, {k}) \/ MarkRotating(r, k)
    \/ \E r \in KeyCallers : StartRotation(r, aged) \/ HardwareFails(r) \/ Retire(r)

-----------------------------------------------------------------------------
(* MultiSigWallet *)

SubmitToWallet(t) ==
    /\ t \notin DOMAIN wallet /\ walletRuns[t] = {}
    /\ wallet' = Put(wallet, t, {})
    /\ UNCHANGED walletRuns

ReachesThreshold(s) == Cardinality(s) >= Threshold

(* The transaction's expiry is not looked at. *)
SignTransaction(t, s) ==
    /\ t \in DOMAIN wallet /\ s \in Signers
    /\ LET all == wallet[t] \cup {s}
       IN  IF ReachesThreshold(all)
           THEN /\ walletRuns' = [walletRuns EXCEPT ![t] = @ \cup {all}]
                /\ wallet' = Drop(wallet, t)
           ELSE wallet' = Put(wallet, t, all) /\ UNCHANGED walletRuns

WalletNext == \E t \in WalletTxs : SubmitToWallet(t) \/ \E s \in Signers : SignTransaction(t, s)

-----------------------------------------------------------------------------
(* However rotations of one key overlap, no key is active again once its    *)
(* rotation began; a deprecated key has a successor; one that still rotates *)
(* is in the hands of a caller or was given up, and is then lost for good:  *)
(* it neither signs nor was replaced by that call.  A wallet's transaction  *)
(* runs once, with the threshold's number of different signers.             *)
KeysRetire ==
    /\ \A k \in DOMAIN keys :
          /\ keys[k].status = "Deprecated" => successors[k] # {}
          /\ keys[k].status = "Rotating" =>
                \/ k \in gaveUp
                \/ \E r \in KeyCallers : rotation[r].at \in {"generate", "retire"} /\ rotation[r].key = k
          /\ keys[k].status = "Active" => successors[k] = {} /\ k \notin gaveUp
    /\ \A t \in WalletTxs :
          /\ Cardinality(walletRuns[t]) <= 1 /\ \A s \in walletRuns[t] : Cardinality(s) = Threshold
          /\ t \in DOMAIN wallet => walletRuns[t] = {} /\ ~ReachesThreshold(wallet[t])

KeySpec ==
    /\ KeyInit /\ WalletInit
    /\ [][\/ KeyNext /\ UNCHANGED walletVars
          \/ WalletNext /\ UNCHANGED keyVars]_<<keyVars, walletVars>>
=============================================================================
