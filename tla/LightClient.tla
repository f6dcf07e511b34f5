----------------------------- MODULE LightClient -----------------------------
(***************************************************************************)
(* The light client of cross_chain/light_client.rs for one chain, driven   *)
(* by update_light_client and initialize_chain of the CrossChainManager.   *)
(* The manager keeps its table of clients write-locked over update_header, *)
(* which by itself checks a header under one lock and stores it under      *)
(* another.  The headers a relayer can offer are a finite tree; a header's *)
(* hash is its name, since it covers all fields but the signatures.        *)
(***************************************************************************)
EXTENDS Integers, Sequences, SequencesExt, Maps

CONSTANTS Headers,        \* the headers on offer
          HeightOf, TimeOf, PreviousOf,   \* their fields
          PowerOf,        \* the voting power of the signatures that verify
          QuorumPower,    \* the validator set's threshold
          BlockTime,      \* average_block_time
          TrustingPeriod,
          HeaderWindow,   \* the headers kept (100)
          Updates,        \* calls of update_light_client
          NoUpdate,
          MaxClients      \* bound: calls of initialize_chain

ASSUME LightAssumption ==
    /\ HeightOf \in [Headers -> Nat] /\ NoUpdate \notin Updates
    /\ HeaderWindow \in Nat \ {0}

VARIABLES
    trusted,      \* trusted_headers
    syncedTo,     \* sync_state: latest height and timestamp
    clientLock,   \* who write-locks light_clients
    checkedHeader,\* call -> the header it verified and is about to store
    clients,      \* the clients made so far; the last one is in the table
    pinned        \* history: height -> the header this client trusted there

lightVars == <<trusted, syncedTo, clientLock, checkedHeader, clients, pinned>>

LightInit ==
    /\ trusted = <<>> /\ syncedTo = <<0, 0>> /\ clientLock = NoUpdate
    /\ checkedHeader = <<>> /\ clients = 0 /\ pinned = <<>>

(* initialize_chain puts a new client in the place of the old one. *)
InitializeChain ==
    /\ clientLock = NoUpdate
    /\ clients' = clients + 1
    /\ trusted' = <<>> /\ syncedTo' = <<0, 0>> /\ pinned' = <<>>
    /\ UNCHANGED <<clientLock, checkedHeader>>

(* verify_header: height, hash and time against the newest header, if any;  *)
(* a timestamp that goes back saturates to a difference of zero.            *)
Follows(h, last) ==
    /\ HeightOf[h] = HeightOf[last] + 1
    /\ PreviousOf[h] = last
    /\ TimeOf[h] - TimeOf[last] <= 2 * BlockTime

(* verify_signatures *)
HasQuorum(h) == PowerOf[h] >= QuorumPower

VerifyHeader(h) == (trusted # <<>> => Follows(h, Last(trusted))) /\ HasQuorum(h)

MayEnter_Unlocked(u) == u # clientLock
MayEnter(u) == clientLock = NoUpdate

UpdateChecks(u, h) ==
    /\ clients > 0 /\ MayEnter(u) /\ u \notin DOMAIN checkedHeader
    /\ VerifyHeader(h)
    /\ clientLock' = u
    /\ checkedHeader' = Put(checkedHeader, u, h)
    /\ UNCHANGED <<trusted, syncedTo, clients, pinned>>

(* update_header's second half: push, trim, and the sync state. *)
Trimmed(s) == IF Len(s) > HeaderWindow THEN Tail(s) ELSE s

UpdateStores(u) ==
    /\ u \in DOMAIN checkedHeader
    /\ LET h == checkedHeader[u]
       IN  /\ trusted' = Trimmed(Append(trusted, h))
           /\ syncedTo' = <<HeightOf[h], TimeOf[h]>>
           /\ pinned' = Put(pinned, HeightOf[h], h)
    /\ checkedHeader' = Drop(checkedHeader, u)
    /\ clientLock' = NoUpdate
    /\ UNCHANGED clients

(* bisection_verify(untrusted, base) changes nothing: what it accepts. *)
BisectionVerify(h, base) ==
    /\ HeightOf[h] > HeightOf[base] /\ TimeOf[h] > TimeOf[base]
    /\ TimeOf[h] <= TimeOf[base] + TrustingPeriod
    /\ VerifyHeader(h)

(* verify_transaction finds the header of a height by a scan. *)
HeaderAt(n) == SelectInSeq(trusted, LAMBDA h : HeightOf[h] = n)

LightNext ==
    \/ clients < MaxClients /\ InitializeChain
    \/ \E u \in Updates : UpdateStores(u) \/ \E h \in Headers : UpdateChecks(u, h)

LightSpec == LightInit /\ [][LightNext]_lightVars

(* The trusted headers are one chain: each names the one before it, each    *)
(* has a quorum, no height has two of them however the updates interleave,  *)
(* the scan of verify_transaction finds the one this client pinned at the   *)
(* height, the sync state is the newest one's, and bisection accepts only   *)
(* what extends it.                                                         *)
TrustedChain ==
    /\ \A i \in 1 .. (Len(trusted) - 1) : Follows(trusted[i + 1], trusted[i])
    /\ \A i \in DOMAIN trusted : /\ HasQuorum(trusted[i])
                                 /\ HeaderAt(HeightOf[trusted[i]]) = i
                                 /\ pinned[HeightOf[trusted[i]]] = trusted[i]
    /\ trusted # <<>> => syncedTo = <<HeightOf[Last(trusted)], TimeOf[Last(trusted)]>>
    /\ \A h \in Headers : trusted # <<>> /\ BisectionVerify(h, trusted[1]) =>
          PreviousOf[h] = Last(trusted) /\ HeightOf[h] \notin DOMAIN pinned
=============================================================================
