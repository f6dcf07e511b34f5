------------------------- MODULE ThresholdEncryption -------------------------
(***************************************************************************)
(* Threshold encryption of dex/mev_protection/threshold_encryption.rs.     *)
(* The call whose share completes a threshold keeps the key shares locked  *)
(* for writing and waits to read them: it never goes on, and neither does  *)
(* a later call that needs the key shares, until its caller gives up.  A   *)
(* reveal keeps the commitments locked for reading while it submits.       *)
(* The AES key is dropped after encryption, so no shares ever decrypt.     *)
(***************************************************************************)
EXTENDS Integers, FiniteSetsExt, Maps

CONSTANTS CipherTxs,    \* the transactions that are encrypted
          ShareCalls,   \* the calls made, one task each
          Threshold,    \* threshold
          ShareWindow,  \* the 30 seconds of a decryption commitment
          EndOfShares,  \* bound: when the clock stops
          NoCall        \* nobody

ASSUME ThresholdAssumption ==
    /\ Threshold \in Nat \ {0} /\ NoCall \notin ShareCalls
    /\ IsFiniteSet(CipherTxs)

VARIABLES
    encryptedPool,  \* the transactions in encrypted_pool
    keyShares,      \* transaction -> number of its KeyShares
    promised,       \* transaction -> deadlines of its DecryptionCommitments
    shareLock,      \* the call that holds key_shares for writing
    promiseReaders, \* the calls that hold decryption_commitments for reading
    callAt,         \* where each call is, with its transaction
    instant,        \* the clock
    abandoned       \* history: the calls given up while they sat on a threshold

cipherVars == <<encryptedPool, keyShares, promised, shareLock, promiseReaders, callAt, instant, abandoned>>

Idle == [at |-> "idle", tx |-> NoCall]

CipherInit ==
    /\ encryptedPool = {} /\ keyShares = [x \in CipherTxs |-> 0]
    /\ promised = [x \in CipherTxs |-> {}]
    /\ shareLock = NoCall /\ promiseReaders = {}
    /\ callAt = [c \in ShareCalls |-> Idle]
    /\ instant = 0 /\ abandoned = 0

SubmitEncrypted(x) ==
    /\ x \notin encryptedPool
    /\ encryptedPool' = encryptedPool \cup {x}
    /\ UNCHANGED <<keyShares, promised, shareLock, promiseReaders, callAt, instant, abandoned>>

(* commit_to_decrypt needs the commitments for writing. *)
CommitToDecrypt(x) ==
    /\ promiseReaders = {} /\ promised[x] = {}      \* only the first one counts
    /\ promised' = [promised EXCEPT ![x] = {instant + ShareWindow}]
    /\ UNCHANGED <<encryptedPool, keyShares, shareLock, promiseReaders, callAt, instant, abandoned>>

(* A call: submit_key_share for any transaction, or reveal_decryption for  *)
(* one whose commitment is not past its deadline.                          *)
StartShare(c, x) ==
    /\ callAt[c] = Idle
    /\ callAt' = [callAt EXCEPT ![c] = [at |-> "share", tx |-> x]]
    /\ UNCHANGED <<encryptedPool, keyShares, promised, shareLock, promiseReaders, instant, abandoned>>

RevealDecryption(c, x) ==
    /\ callAt[c] = Idle
    /\ \E d \in promised[x] : instant <= d
    /\ promiseReaders' = promiseReaders \cup {c}
    /\ callAt' = [callAt EXCEPT ![c] = [at |-> "share", tx |-> x]]
    /\ UNCHANGED <<encryptedPool, keyShares, promised, shareLock, instant, abandoned>>

Returned(c) == [callAt EXCEPT ![c] = [at |-> "done", tx |-> NoCall]]

(* The share is stored; the one that reaches the threshold waits for itself. *)
Completes_Late(n) == n > Threshold
Completes(n) == n >= Threshold

SubmitKeyShare(c) ==
    /\ callAt[c].at = "share" /\ shareLock = NoCall
    /\ LET x == callAt[c].tx
           n == keyShares[x] + 1
       IN  /\ keyShares' = [keyShares EXCEPT ![x] = n]
           /\ IF Completes(n)
              THEN /\ shareLock' = c
                   /\ callAt' = [callAt EXCEPT ![c].at = "stuck"]
                   /\ UNCHANGED promiseReaders
              ELSE /\ callAt' = Returned(c)
                   /\ promiseReaders' = promiseReaders \ {c}
                   /\ UNCHANGED shareLock
    /\ UNCHANGED <<encryptedPool, promised, instant, abandoned>>

(* A caller that drops the future gives back what the call held. *)
CallGivenUp(c) ==
    /\ callAt[c].at \in {"share", "stuck"}
    /\ callAt' = Returned(c)
    /\ shareLock' = IF shareLock = c THEN NoCall ELSE shareLock
    /\ promiseReaders' = promiseReaders \ {c}
    /\ abandoned' = abandoned + IF callAt[c].at = "stuck" THEN 1 ELSE 0
    /\ UNCHANGED <<encryptedPool, keyShares, promised, instant>>

InstantTick ==
    /\ instant < EndOfShares
    /\ instant' = instant + 1
    /\ UNCHANGED <<encryptedPool, keyShares, promised, shareLock, promiseReaders, callAt, abandoned>>

CipherNext ==
    \/ InstantTick
    \/ \E x \in CipherTxs : SubmitEncrypted(x) \/ CommitToDecrypt(x)
    \/ \E c \in ShareCalls :
          \/ SubmitKeyShare(c) \/ CallGivenUp(c)
          \/ \E x \in CipherTxs : StartShare(c, x) \/ RevealDecryption(c, x)

CipherSpec == CipherInit /\ [][CipherNext]_cipherVars

Over(x) == IF keyShares[x] < Threshold THEN 0 ELSE keyShares[x] - Threshold + 1

(* Every share at or past a threshold costs a call that never returned: its *)
(* caller gave up, or it still blocks the shares of all transactions.  And  *)
(* only reveals under way keep new commitments out.                         *)
ThresholdsCostCalls ==
    /\ SumFunctionOnSet([x \in CipherTxs |-> Over(x)], CipherTxs) = abandoned + IF shareLock = NoCall THEN 0 ELSE 1
    /\ \A c \in promiseReaders : callAt[c].at \in {"share", "stuck"}
=============================================================================
