----------------------------- MODULE PrivatePool -----------------------------
(***************************************************************************)
(* The private transaction pool of dex/mev_protection/private_pool.rs.     *)
(* A submission checks the searcher under one lock, queues the bundle      *)
(* under two others and then updates the searcher's profile: each is a     *)
(* step of its own.  submit_private is a bundle with the widest window     *)
(* and leaves the profile alone.                                           *)
(***************************************************************************)
EXTENDS Integers, Sequences, SequencesExt, FiniteSets, Maps

CONSTANTS Bundles,        \* the bundles that are submitted
          Searchers,
          Bids,           \* bid amounts
          MinBid,         \* min_bid_amount
          MinReputation,  \* min_reputation_score
          WhitelistOnly,  \* whitelist_only
          Blocks,         \* block numbers
          MaxReports,     \* bound: results reported
          MaxCalls        \* bound: calls of get_next_bundles

ASSUME PrivatePoolAssumption ==
    Bids \subseteq Nat /\ Blocks \subseteq Nat /\ WhitelistOnly \in BOOLEAN

VARIABLES
    bundles,      \* private_bundles: never shrinks
    queue,        \* pending_queue
    profiles,     \* searcher_profiles: searcher -> reputation_score (the rest is statistics)
    whitelist,
    submitting,   \* bundle -> where its submission is
    handedOut,    \* history: [block, bundles] of each get_next_bundles
    admitted,     \* history: bundle -> position in the order of queueing
    reports       \* the results reported so far

poolVars == <<bundles, queue, profiles, whitelist, submitting, handedOut, admitted, reports>>

PoolInit ==
    /\ bundles = <<>> /\ queue = <<>> /\ profiles = <<>> /\ whitelist = {}
    /\ submitting = [b \in Bundles |-> "idle"]
    /\ handedOut = <<>> /\ admitted = <<>> /\ reports = 0

(* verify_access: an unknown searcher is let in when there is no whitelist. *)
VerifyAccess(s) ==
    IF WhitelistOnly THEN s \in whitelist
    ELSE s \in DOMAIN profiles => profiles[s] >= MinReputation

(* A private transaction's window is every block. *)
BundleType ==
    {r \in [searcher : Searchers, bid : Bids, min : Blocks, max : Blocks, private : BOOLEAN] :
        r.min <= r.max /\ (r.private => Blocks \subseteq r.min .. r.max)}

SubmitBundle(b, r) ==
    /\ submitting[b] = "idle" /\ VerifyAccess(r.searcher)
    /\ r.private \/ r.bid >= MinBid
    /\ bundles' = Put(bundles, b, r)
    /\ submitting' = [submitting EXCEPT ![b] = "queue"]
    /\ UNCHANGED <<queue, profiles, whitelist, handedOut, admitted, reports>>

(* The first entry with a lower bid, or the end. *)
Behind(r) == {i \in DOMAIN queue : queue[i].bid < r.bid}
Place_Front(r) == 1
Place(r) == IF Behind(r) = {} THEN Len(queue) + 1 ELSE CHOOSE i \in Behind(r) : \A j \in Behind(r) : i <= j

(* Of a queued bundle only its bid and its window are asked for. *)
Entry(b) == [id |-> b, bid |-> bundles[b].bid, min |-> bundles[b].min, max |-> bundles[b].max]

AddBundle(b) ==
    /\ submitting[b] = "queue"
    /\ queue' = InsertAt(queue, Place(bundles[b]), Entry(b))
    /\ admitted' = Put(admitted, b, Cardinality(DOMAIN admitted))
    /\ submitting' = [submitting EXCEPT ![b] = IF bundles[b].private THEN "done" ELSE "stats"]
    /\ UNCHANGED <<bundles, profiles, whitelist, handedOut, reports>>

ScoreOf(s, default) == IF s \in DOMAIN profiles THEN profiles[s] ELSE default

UpdateSearcherStats(b) ==
    /\ submitting[b] = "stats"
    /\ LET s == bundles[b].searcher
       IN  profiles' = Put(profiles, s, ScoreOf(s, 50))
    /\ submitting' = [submitting EXCEPT ![b] = "done"]
    /\ UNCHANGED <<bundles, queue, whitelist, handedOut, admitted, reports>>

-----------------------------------------------------------------------------
DueAt(n, r) == r.min <= n /\ n <= r.max

LaterThan(n, r) == n < r.min

Due(n) == Retained(queue, {i \in DOMAIN queue : DueAt(n, queue[i])})

Early(n) == Retained(queue, {i \in DOMAIN queue : LaterThan(n, queue[i])})

(* Bundles in their window are handed out, those that are early stay, the  *)
(* rest is dropped.  The final sort by bid is stable.                      *)
GetNextBundles(n) ==
    /\ queue # <<>> /\ Len(handedOut) < MaxCalls
    /\ handedOut' = Append(handedOut, [block |-> n, list |-> Due(n)])
    /\ queue' = Early(n)
    /\ UNCHANGED <<bundles, profiles, whitelist, submitting, admitted, reports>>

Adjusted(score, reverted) ==
    IF reverted THEN (IF score < 5 THEN 0 ELSE score - 5)
    ELSE IF score + 2 > 100 THEN 100 ELSE score + 2

(* The result may be of any bundle, queued or not, and be reported again. *)
ReportBundleResult(b, reverted) ==
    /\ b \in DOMAIN bundles /\ bundles[b].searcher \in DOMAIN profiles
    /\ reports < MaxReports
    /\ reports' = reports + 1
    /\ profiles' = [profiles EXCEPT ![bundles[b].searcher] = Adjusted(@, reverted)]
    /\ UNCHANGED <<bundles, queue, whitelist, submitting, handedOut, admitted>>

AddToWhitelist(s) ==
    /\ whitelist' = whitelist \cup {s}
    /\ profiles' = Put(profiles, s, ScoreOf(s, 100))
    /\ UNCHANGED <<bundles, queue, submitting, handedOut, admitted, reports>>

RemoveFromWhitelist(s) ==
    /\ whitelist' = whitelist \ {s}
    /\ UNCHANGED <<bundles, queue, profiles, submitting, handedOut, admitted, reports>>

PoolTxNext ==
    \/ \E b \in Bundles :
          \/ \E r \in BundleType : SubmitBundle(b, r)
          \/ AddBundle(b) \/ UpdateSearcherStats(b)
          \/ \E reverted \in BOOLEAN : ReportBundleResult(b, reverted)
    \/ \E n \in Blocks : GetNextBundles(n)
    \/ \E s \in Searchers : AddToWhitelist(s) \/ RemoveFromWhitelist(s)

-----------------------------------------------------------------------------
Earlier(x, y) == x.bid > y.bid \/ (x.bid = y.bid /\ admitted[x.id] < admitted[y.id])
InOrder(s) == \A i, j \in DOMAIN s : i < j => Earlier(s[i], s[j])

(* Queue and every list handed out go by bid and, between equal bids, by     *)
(* the order of queueing; a bundle is handed out once, in its window; and    *)
(* it leaves the queue unserved only at a block that is past its window.     *)
BundlesServedInOrder ==
    /\ InOrder(queue) /\ \A n \in DOMAIN handedOut : InOrder(handedOut[n].list)
    /\ \A n \in DOMAIN handedOut : \A i \in DOMAIN handedOut[n].list :
          LET r == handedOut[n].list[i]
          IN  /\ DueAt(handedOut[n].block, r)
              /\ \A m \in DOMAIN handedOut \ {n} : r \notin Range(handedOut[m].list)
              /\ r \notin Range(queue)
    /\ \A b \in DOMAIN admitted :
          \/ \E r \in Range(queue) : r.id = b
          \/ \E n \in DOMAIN handedOut :
                \/ \E r \in Range(handedOut[n].list) : r.id = b
                \/ handedOut[n].block > bundles[b].max
=============================================================================
