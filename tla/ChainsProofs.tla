---------------------------- MODULE ChainsProofs -----------------------------
(***************************************************************************)
(* Proofs about the components between chains (the bridge, the relayer,    *)
(* the packet handlers, the light client, the rollups and their data) and  *)
(* about the executor of blocks, for any sets of owners, tokens,           *)
(* submissions, channels, headers, accounts and transactions.              *)
(***************************************************************************)
EXTENDS Bridge, Relayer, IBC, LightClient, Layer2, Executor, SequenceTheorems, TLAPS

(* The ids that a lock can have, those that hold a token, and their sum.   *)
LockIds == [owner : Owners, token : Tokens, amount : LockAmounts, at : Nat]
HeldIn(t) == {id \in DOMAIN lockedAssets : id.token = t /\ lockedAssets[id]}
AmountOf(H) == SumFunctionOnSet([id \in H |-> id.amount], H)

BridgeInv ==
    /\ IsFiniteSet(DOMAIN lockedAssets) /\ DOMAIN lockedAssets \subseteq LockIds
    /\ \A id \in DOMAIN lockedAssets : lockedAssets[id] \in BOOLEAN
    /\ lockTime \in Nat
    /\ liquidity \in [Tokens -> [total : Nat, available : Nat]]
    /\ shadowed \in [Tokens -> Nat]
    /\ LiquidityBacksLocks

LEMMA AmountFact ==
    ASSUME NEW H \in SUBSET LockIds, IsFiniteSet(H)
    PROVE  /\ AmountOf(H) \in Nat
           /\ H = {} => AmountOf(H) = 0
           /\ \A e \in LockIds \ H : AmountOf(H \cup {e}) = e.amount + AmountOf(H)
<1>1. \A id \in H : [x \in H |-> x.amount][id] \in Nat
  BY BridgeAssumption DEF LockIds
<1>2. AmountOf(H) \in Nat
  BY <1>1, SumNat DEF AmountOf
<1>3. H = {} => AmountOf(H) = 0
  BY <1>1, SumStep DEF AmountOf
<1>4. ASSUME NEW e \in LockIds \ H PROVE AmountOf(H \cup {e}) = e.amount + AmountOf(H)
  <2> DEFINE f == [x \in H \cup {e} |-> x.amount]
             g == [x \in H |-> x.amount]
  <2>0. \A x \in LockIds : x.amount \in Nat
    BY BridgeAssumption DEF LockIds
  <2>1. /\ \A x \in H \cup {e} : f[x] \in Int
        /\ \A x \in H : g[x] = f[x]
        /\ f[e] = e.amount /\ e \notin H
    BY <2>0
  <2> HIDE DEF f, g
  <2>2. SumFunctionOnSet(f, H \cup {e}) = f[e] + SumFunctionOnSet(g, H)
    BY <2>1, SumAdd, Zenon
  <2>3. SumFunctionOnSet(f, H \cup {e}) = e.amount + SumFunctionOnSet(g, H)
    BY <2>1, <2>2
  <2> QED  BY <2>3 DEF AmountOf, f, g
<1> QED  BY <1>2, <1>3, <1>4

LEMMA HeldFact ==
    ASSUME BridgeInv, NEW t \in Tokens
    PROVE  /\ HeldIn(t) \in SUBSET LockIds /\ IsFiniteSet(HeldIn(t))
           /\ liquidity[t].available = AmountOf(HeldIn(t)) + shadowed[t]
           /\ liquidity[t].available <= liquidity[t].total
           /\ AmountOf(HeldIn(t)) \in Nat /\ shadowed[t] \in Nat
<1>1. HeldIn(t) \in SUBSET LockIds /\ HeldIn(t) \subseteq DOMAIN lockedAssets
  BY DEF HeldIn, BridgeInv
<1>2. IsFiniteSet(HeldIn(t))
  BY <1>1, FS_Subset DEF BridgeInv
<1>3. AmountOf(HeldIn(t)) \in Nat
  BY <1>1, <1>2, AmountFact
<1> QED  BY <1>1, <1>2, <1>3 DEF BridgeInv, LiquidityBacksLocks, LockedAmount, AmountOf, HeldIn

(* What a step has to show of each token. *)
BackedFor(t) ==
    /\ liquidity[t].available = AmountOf(HeldIn(t)) + shadowed[t]
    /\ liquidity[t].available <= liquidity[t].total

LEMMA LockStep ==
    ASSUME BridgeInv, NEW o \in Owners, NEW t \in Tokens, NEW n \in LockAmounts,
           NEW transfer \in BOOLEAN, LockTokens(o, t, n, transfer)
    PROVE  BridgeInv'
<1> DEFINE id == LockId(o, t, n)
           replaces == id \in DOMAIN lockedAssets /\ lockedAssets[id]
<1>1. /\ id \in LockIds /\ id.token = t /\ id.amount = n /\ n \in Nat
      /\ replaces \in BOOLEAN
  BY BridgeAssumption DEF LockId, LockIds, BridgeInv
<1>2. /\ lockedAssets' = Put(lockedAssets, id, TRUE)
      /\ shadowed' = [shadowed EXCEPT ![t] = IF replaces THEN @ + n ELSE @]
      /\ liquidity' = PoolLocked(t, n) /\ UNCHANGED lockTime
  BY DEF LockTokens
<1> HIDE DEF id
<1>3. /\ DOMAIN lockedAssets' = DOMAIN lockedAssets \cup {id}
      /\ \A x \in DOMAIN lockedAssets' : lockedAssets'[x] = IF x = id THEN TRUE ELSE lockedAssets[x]
  BY <1>2 DEF Put
<1>4. IsFiniteSet(DOMAIN lockedAssets')
  BY <1>3, FS_AddElement DEF BridgeInv
<1>5. /\ liquidity' \in [Tokens -> [total : Nat, available : Nat]]
      /\ liquidity'[t].available = liquidity[t].available + n
      /\ liquidity'[t].total = liquidity[t].total + n
      /\ \A u \in Tokens \ {t} : liquidity'[u] = liquidity[u]
  BY <1>1, <1>2 DEF PoolLocked, BridgeInv
<1>6. /\ shadowed' \in [Tokens -> Nat]
      /\ shadowed'[t] = IF replaces THEN shadowed[t] + n ELSE shadowed[t]
      /\ \A u \in Tokens \ {t} : shadowed'[u] = shadowed[u]
  BY <1>1, <1>2 DEF BridgeInv
<1>7. ASSUME NEW u \in Tokens PROVE BackedFor(u)'
  <2>0. liquidity[u].available \in Nat /\ liquidity[u].total \in Nat
    BY DEF BridgeInv
  <2>1. CASE u # t
    <3>1. HeldIn(u)' = HeldIn(u)
      BY <1>1, <1>3, <2>1 DEF HeldIn
    <3> QED  BY <1>5, <1>6, <2>1, <3>1, HeldFact DEF BackedFor
  <2>2. CASE u = t /\ replaces
    <3>1. HeldIn(t)' = HeldIn(t)
      BY <1>1, <1>3, <2>2 DEF HeldIn
    <3> QED  BY <1>1, <1>5, <1>6, <2>0, <2>2, <3>1, HeldFact DEF BackedFor
  <2>3. CASE u = t /\ ~replaces
    <3>1. HeldIn(t)' = HeldIn(t) \cup {id} /\ id \notin HeldIn(t)
      BY <1>1, <1>3, <2>3 DEF HeldIn
    <3>2. AmountOf(HeldIn(t) \cup {id}) = n + AmountOf(HeldIn(t))
      BY <1>1, <3>1, HeldFact, AmountFact
    <3>3. AmountOf(HeldIn(t))' = n + AmountOf(HeldIn(t))
      BY <3>1, <3>2 DEF AmountOf
    <3> QED  BY <1>1, <1>5, <1>6, <2>0, <2>3, <3>3, HeldFact DEF BackedFor
  <2> QED  BY <2>1, <2>2, <2>3
<1>8. LiquidityBacksLocks'
  BY <1>7 DEF BackedFor, LiquidityBacksLocks, LockedAmount, AmountOf, HeldIn
<1> QED  BY <1>1, <1>2, <1>3, <1>4, <1>5, <1>6, <1>8 DEF BridgeInv

LEMMA UnlockStep ==
    ASSUME BridgeInv, NEW id \in DOMAIN lockedAssets, UnlockTokens(id)
    PROVE  BridgeInv'
<1> DEFINE t == id.token
           n == id.amount
           rest == HeldIn(t) \ {id}
<1>1. /\ id \in LockIds /\ t \in Tokens /\ n \in Nat /\ lockedAssets[id]
      /\ id \in HeldIn(t) /\ UNCHANGED <<lockTime, shadowed>>
      /\ DOMAIN lockedAssets' = DOMAIN lockedAssets
      /\ \A x \in DOMAIN lockedAssets : lockedAssets'[x] = IF x = id THEN FALSE ELSE lockedAssets[x]
  BY BridgeAssumption DEF UnlockTokens, LockIds, BridgeInv, HeldIn
<1>2. rest \in SUBSET LockIds /\ IsFiniteSet(rest) /\ rest \cup {id} = HeldIn(t) /\ id \notin rest
  BY <1>1, HeldFact, FS_RemoveElement
<1>3. AmountOf(HeldIn(t)) = n + AmountOf(rest) /\ AmountOf(rest) \in Nat
  <2>1. AmountOf(rest \cup {id}) = n + AmountOf(rest) /\ AmountOf(rest) \in Nat
    BY <1>1, <1>2, AmountFact
  <2> QED  BY <1>2, <2>1
<1>4. HeldIn(t)' = rest
  BY <1>1 DEF HeldIn
<1>5. AmountOf(HeldIn(t))' = AmountOf(rest)
  BY <1>4 DEF AmountOf
<1> HIDE DEF rest
<1>6. /\ liquidity[t].available \in Nat /\ liquidity[t].total \in Nat
      /\ liquidity[t].available = n + AmountOf(rest) + shadowed[t] /\ shadowed[t] \in Nat
      /\ liquidity[t].available <= liquidity[t].total
  BY <1>1, <1>3, HeldFact DEF BridgeInv
<1>7. ~(liquidity[t].available < n) /\ liquidity' = PoolUnlocked(t, n)
  <2>1. ~(liquidity[t].available < n)
    BY <1>1, <1>3, <1>6
  <2> QED  BY <2>1 DEF UnlockTokens
<1>8. liquidity[t].available - n \in Nat
  BY <1>1, <1>3, <1>6
<1>9. /\ liquidity' \in [Tokens -> [total : Nat, available : Nat]]
      /\ liquidity'[t].available = liquidity[t].available - n
      /\ liquidity'[t].total = liquidity[t].total
      /\ \A u \in Tokens \ {t} : liquidity'[u] = liquidity[u]
  BY <1>1, <1>6, <1>7, <1>8 DEF PoolUnlocked, BridgeInv
<1>10. ASSUME NEW u \in Tokens PROVE BackedFor(u)'
  <2>1. CASE u # t
    <3>1. HeldIn(u)' = HeldIn(u)
      BY <1>1, <2>1 DEF HeldIn
    <3> QED  BY <1>1, <1>9, <2>1, <3>1, HeldFact DEF BackedFor
  <2>2. CASE u = t
    BY <1>1, <1>3, <1>5, <1>6, <1>9, <2>2 DEF BackedFor
  <2> QED  BY <2>1, <2>2
<1>11. LiquidityBacksLocks'
  BY <1>10 DEF BackedFor, LiquidityBacksLocks, LockedAmount, AmountOf, HeldIn
<1>12. shadowed' \in [Tokens -> Nat] /\ lockTime' \in Nat
  BY <1>1 DEF BridgeInv
<1>13. \A x \in DOMAIN lockedAssets' : lockedAssets'[x] \in BOOLEAN
  BY <1>1 DEF BridgeInv
<1> QED  BY <1>1, <1>9, <1>11, <1>12, <1>13 DEF BridgeInv

(* LiquidityAlwaysBacks: for any tokens, amounts and interleaving of locks, *)
(* unlocks and ticks of the clock, the pool of bridge.rs has what the open  *)
(* locks and the shadowed ones amount to.                                   *)
THEOREM LiquidityAlwaysBacks == BridgeSpec => []LiquidityBacksLocks
<1>1. BridgeInit => BridgeInv
  <2> SUFFICES ASSUME BridgeInit PROVE BridgeInv
    OBVIOUS
  <2>1. DOMAIN lockedAssets = {} /\ lockTime = 0 /\ shadowed = [t \in Tokens |-> 0]
        /\ liquidity = [t \in Tokens |-> [total |-> 0, available |-> 0]]
    BY DEF BridgeInit
  <2>2. ASSUME NEW t \in Tokens PROVE BackedFor(t)
    <3>1. HeldIn(t) = {}
      BY <2>1 DEF HeldIn
    <3>2. AmountOf({}) = 0
      BY AmountFact, FS_EmptySet
    <3> QED  BY <2>1, <3>1, <3>2 DEF BackedFor
  <2>3. LiquidityBacksLocks
    BY <2>2 DEF BackedFor, LiquidityBacksLocks, LockedAmount, AmountOf, HeldIn
  <2> QED  BY <2>1, <2>3, FS_EmptySet DEF BridgeInv
<1>2. BridgeInv /\ [BridgeNext]_bridgeVars => BridgeInv'
  <2> SUFFICES ASSUME BridgeInv, [BridgeNext]_bridgeVars PROVE BridgeInv'
    OBVIOUS
  <2>1. ASSUME UNCHANGED <<lockedAssets, liquidity, shadowed>>, lockTime' \in Nat PROVE BridgeInv'
    BY <2>1 DEF BridgeInv, LiquidityBacksLocks, LockedAmount
  <2>2. CASE UNCHANGED bridgeVars
    BY <2>1, <2>2 DEF bridgeVars, BridgeInv
  <2>3. CASE LockTick
    BY <2>1, <2>3 DEF LockTick, BridgeInv
  <2>4. ASSUME NEW t \in Tokens, NEW n \in LockAmounts, NEW c \in BridgeChains,
               \/ MintTokens(c, t, n)
               \/ \E d \in BridgeChains, u \in Tokens : AddTokenMapping(c, t, d, u)
        PROVE  BridgeInv'
    BY <2>1, <2>4 DEF MintTokens, AddTokenMapping, BridgeInv
  <2> QED  BY <2>2, <2>3, <2>4, LockStep, UnlockStep DEF BridgeNext
<1>3. BridgeInv => LiquidityBacksLocks
  BY DEF BridgeInv
<1> QED  BY <1>1, <1>2, <1>3, PTL DEF BridgeSpec

-----------------------------------------------------------------------------
(* ChannelInv: the tables have the shape of the fields, a channel that may  *)
(* send knows its counterparty, and a packet was sent and taken by channels *)
(* that had been opened; its channel and number name it.                    *)
Once == {"Open", "Closed"}
ChannelInv ==
    /\ chanState \in [Channels -> {"None", "Init", "TryOpen", "Open", "Closed"}]
    /\ nextSequence \in [Channels -> Nat \ {0}]
    /\ chanPeer \in [Channels -> Channels \cup {NoPeer}]
    /\ \A c \in Channels : chanState[c] \in {"TryOpen", "Open"} => chanPeer[c] \in Channels
    /\ IsFiniteSet(wire) /\ ackWire \subseteq wire
    /\ \A p \in wire : /\ p.src \in Channels /\ p.dst \in Channels /\ chanState[p.src] \in Once
                       /\ p.seq \in 1 .. (nextSequence[p.src] - 1)
                       /\ p \in ackWire => chanState[p.dst] \in Once
    /\ \A p, q \in wire : p.src = q.src /\ p.seq = q.seq => p = q
SequencesDense ==
    \A c \in Channels : /\ {p.seq : p \in SentOn(c)} = 1 .. (nextSequence[c] - 1)
                        /\ Cardinality(SentOn(c)) = nextSequence[c] - 1
TablesAgree ==
    /\ \A p \in wire \ ackWire : <<p.src, p.seq>> \in commitments
    /\ receipts = {<<p.dst, p.seq>> : p \in ackWire} /\ ackTable = receipts
IBCInv == ChannelInv /\ SequencesDense /\ TablesAgree

LEMMA IBCInitInv == IBCInit => IBCInv
<1> SUFFICES ASSUME IBCInit PROVE IBCInv
  OBVIOUS
<1>1. wire = {} /\ ackWire = {} /\ receipts = {} /\ ackTable = {}
      /\ nextSequence = [c \in Channels |-> 1] /\ 1 .. (1 - 1) = {}
  BY DEF IBCInit
<1>2. ChannelInv
  BY <1>1, FS_EmptySet DEF IBCInit, ChannelInv
<1>3. ASSUME NEW c \in Channels PROVE SentOn(c) = {} /\ nextSequence[c] - 1 = 0
  BY <1>1 DEF SentOn
<1>4. SequencesDense
  BY <1>1, <1>3, FS_EmptySet DEF SequencesDense
<1> QED  BY <1>1, <1>2, <1>4 DEF IBCInv, TablesAgree

LEMMA SendStep ==
    ASSUME IBCInv, NEW c \in Channels, SendPacket(c)
    PROVE  IBCInv'
<1> DEFINE new == [src |-> c, seq |-> nextSequence[c], dst |-> chanPeer[c],
                   nth |-> Cardinality({p \in wire : p.src = c})]
<1>1. /\ new.src = c /\ new.seq = nextSequence[c] /\ new.dst = chanPeer[c]
      /\ wire' = wire \cup {new}
      /\ commitments' = commitments \cup {<<c, nextSequence[c]>>}
      /\ nextSequence' = [nextSequence EXCEPT ![c] = nextSequence[c] + 1]
      /\ chanState[c] = "Open" /\ chanPeer[c] \in Channels
      /\ UNCHANGED <<chanState, chanPeer, receipts, ackTable, ackWire>>
  BY DEF SendPacket, SequenceAfter, IBCInv, ChannelInv
<1> HIDE DEF new
<1>2. /\ nextSequence[c] \in Nat \ {0} /\ nextSequence'[c] = nextSequence[c] + 1
      /\ nextSequence' \in [Channels -> Nat \ {0}]
      /\ \A d \in Channels \ {c} : nextSequence'[d] = nextSequence[d]
  BY <1>1 DEF IBCInv, ChannelInv
<1>3. \A p \in wire : ~(p.src = c /\ p.seq = nextSequence[c])
  BY <1>2 DEF IBCInv, ChannelInv
<1>4. new \notin wire
  BY <1>1, <1>3
<1>5. ChannelInv'
  <2>1. IsFiniteSet(wire')
    BY <1>1, FS_AddElement DEF IBCInv, ChannelInv
  <2>2. ASSUME NEW p \in wire'
        PROVE  /\ p.src \in Channels /\ p.dst \in Channels /\ chanState'[p.src] \in Once
               /\ p.seq \in 1 .. (nextSequence'[p.src] - 1)
               /\ p \in ackWire' => chanState'[p.dst] \in Once
    <3>1. CASE p \in wire
      BY <1>1, <1>2, <3>1 DEF IBCInv, ChannelInv
    <3>2. CASE p = new
      BY <1>1, <1>2, <1>4, <3>2 DEF IBCInv, ChannelInv, Once
    <3> QED  BY <1>1, <3>1, <3>2
  <2>3. \A p, q \in wire' : p.src = q.src /\ p.seq = q.seq => p = q
    BY <1>1, <1>3 DEF IBCInv, ChannelInv
  <2> QED  BY <1>1, <1>2, <2>1, <2>2, <2>3 DEF IBCInv, ChannelInv
<1>6. SequencesDense'
  <2> SUFFICES ASSUME NEW d \in Channels
               PROVE  /\ {p.seq : p \in SentOn(d)'} = 1 .. (nextSequence'[d] - 1)
                      /\ Cardinality(SentOn(d)') = nextSequence'[d] - 1
    BY DEF SequencesDense, SentOn
  <2>1. CASE d # c
    <3>1. SentOn(d)' = SentOn(d)
      BY <1>1, <2>1 DEF SentOn
    <3> QED  BY <1>2, <2>1, <3>1 DEF IBCInv, SequencesDense
  <2>2. CASE d = c
    <3>1. SentOn(c)' = SentOn(c) \cup {new} /\ new \notin SentOn(c)
      BY <1>1, <1>4 DEF SentOn
    <3>2. IsFiniteSet(SentOn(c))
      BY FS_Subset DEF SentOn, IBCInv, ChannelInv
    <3>3. Cardinality(SentOn(c)') = Cardinality(SentOn(c)) + 1
      BY <3>1, <3>2, FS_AddElement
    <3>4. {p.seq : p \in SentOn(c)'} = {p.seq : p \in SentOn(c)} \cup {nextSequence[c]}
      BY <1>1, <3>1
    <3>5. /\ {p.seq : p \in SentOn(c)} = 1 .. (nextSequence[c] - 1)
          /\ Cardinality(SentOn(c)) = nextSequence[c] - 1
      BY DEF IBCInv, SequencesDense
    <3>6. (1 .. (nextSequence[c] - 1)) \cup {nextSequence[c]} = 1 .. nextSequence[c]
      BY <1>2
    <3>7. nextSequence'[c] - 1 = nextSequence[c] /\ nextSequence[c] - 1 + 1 = nextSequence[c]
      BY <1>2
    <3> QED  BY <2>2, <3>3, <3>4, <3>5, <3>6, <3>7
  <2> QED  BY <2>1, <2>2
<1>7. TablesAgree'
  BY <1>1 DEF IBCInv, TablesAgree
<1> QED  BY <1>5, <1>6, <1>7 DEF IBCInv

(* The other steps send nothing. *)
LEMMA DenseStays ==
    ASSUME IBCInv, UNCHANGED <<wire, nextSequence>> PROVE SequencesDense'
BY DEF IBCInv, SequencesDense, SentOn

LEMMA ReceiveStep == ASSUME IBCInv, NEW p \in wire, ReceivePacket(p) PROVE IBCInv'
<1>1. ChannelInv'
  BY DEF ReceivePacket, IBCInv, ChannelInv, Once
<1>2. TablesAgree'
  BY DEF ReceivePacket, IBCInv, TablesAgree
<1> QED  BY <1>1, <1>2, DenseStays DEF ReceivePacket, IBCInv

LEMMA AcknowledgeStep == ASSUME IBCInv, NEW p \in ackWire, AcknowledgePacket(p) PROVE IBCInv'
<1>1. ChannelInv'
  BY DEF AcknowledgePacket, IBCInv, ChannelInv
<1>2. \A q \in wire \ ackWire : <<q.src, q.seq>> # <<p.src, p.seq>>
  BY DEF IBCInv, ChannelInv
<1>3. TablesAgree'
  BY <1>2 DEF AcknowledgePacket, IBCInv, TablesAgree
<1> QED  BY <1>1, <1>3, DenseStays DEF AcknowledgePacket, IBCInv

LEMMA HandshakeStep ==
    ASSUME IBCInv, NEW c \in Channels,
           \/ CreateChannel(c) \/ ChannelOpenConfirm(c) \/ CloseChannel(c)
           \/ \E d \in Channels : ChannelOpenTry(c, d)
    PROVE  IBCInv'
<1>1. UNCHANGED tables
  BY DEF CreateChannel, ChannelOpenConfirm, CloseChannel, ChannelOpenTry
<1>2. PICK old, new \in {"None", "Init", "TryOpen", "Open", "Closed"} :
         /\ chanState[c] = old /\ chanState' = [chanState EXCEPT ![c] = new]
         /\ old \in Once => new \in Once
         /\ new = "Open" => old = "TryOpen"
         /\ new = "TryOpen" => chanPeer'[c] \in Channels
         /\ new # "TryOpen" => chanPeer' = chanPeer
  BY DEF CreateChannel, ChannelOpenConfirm, CloseChannel, ChannelOpenTry, Moves, Once, IBCInv,
       ChannelInv
<1>3. /\ chanPeer' \in [Channels -> Channels \cup {NoPeer}]
      /\ \A d \in Channels \ {c} : chanPeer'[d] = chanPeer[d]
  BY DEF CreateChannel, ChannelOpenConfirm, CloseChannel, ChannelOpenTry, IBCInv, ChannelInv
<1>4. ChannelInv'
  BY <1>1, <1>2, <1>3 DEF tables, IBCInv, ChannelInv
<1>5. TablesAgree'
  BY <1>1 DEF tables, IBCInv, TablesAgree
<1> QED  BY <1>1, <1>4, <1>5, DenseStays DEF tables, IBCInv

(* PacketsAlwaysAccounted: for any channels and any delivery of packets and *)
(* acknowledgements, late, twice, out of order or never, the tables of      *)
(* ibc.rs say of every packet what became of it.                            *)
THEOREM PacketsAlwaysAccounted == IBCSpec => []PacketsAccounted
<1>1. IBCInv /\ [IBCNext]_ibcVars => IBCInv'
  <2> SUFFICES ASSUME IBCInv, [IBCNext]_ibcVars PROVE IBCInv'
    OBVIOUS
  <2>1. CASE UNCHANGED ibcVars
    BY <2>1, DenseStays DEF ibcVars, IBCInv, ChannelInv, TablesAgree
  <2> QED  BY <2>1, SendStep, ReceiveStep, AcknowledgeStep, HandshakeStep DEF IBCNext, IBCInv,
                ChannelInv
<1>2. IBCInv => PacketsAccounted
  <2> SUFFICES ASSUME IBCInv PROVE PacketsAccounted
    OBVIOUS
  <2>1. ASSUME NEW c \in Channels, chanState[c] \in {"None", "Init", "TryOpen"}, NEW p \in wire
        PROVE  p.src # c /\ (p.dst = c => p \notin ackWire)
    BY <2>1 DEF IBCInv, ChannelInv, Once
  <2> QED  BY <2>1 DEF IBCInv, SequencesDense, TablesAgree, PacketsAccounted
<1> QED  BY <1>1, <1>2, IBCInitInv, PTL DEF IBCSpec

-----------------------------------------------------------------------------
(* HeightsAscend: the trusted heights have no gap, so that each is found at *)
(* one place, and nothing was pinned above the newest.                      *)
HeightsAscend ==
    /\ \A i \in DOMAIN trusted :
          HeightOf[trusted[i]] = HeightOf[Last(trusted)] - (Len(trusted) - i)
    /\ \A n \in DOMAIN pinned : n \in Nat /\ trusted # <<>> /\ n <= HeightOf[Last(trusted)]
Linked ==
    /\ \A i \in 1 .. (Len(trusted) - 1) : Follows(trusted[i + 1], trusted[i])
    /\ \A i \in DOMAIN trusted : /\ HasQuorum(trusted[i])
                                 /\ HeightOf[trusted[i]] \in DOMAIN pinned
                                 /\ pinned[HeightOf[trusted[i]]] = trusted[i]
    /\ trusted # <<>> => syncedTo = <<HeightOf[Last(trusted)], TimeOf[Last(trusted)]>>

(* What an update has checked still holds when it stores, under the lock.   *)
CheckedStays ==
    \A u \in DOMAIN checkedHeader :
        /\ u \in Updates /\ clientLock = u /\ checkedHeader[u] \in Headers
        /\ VerifyHeader(checkedHeader[u])
LightInv == trusted \in Seq(Headers) /\ CheckedStays /\ HeightsAscend /\ Linked

(* Where the headers are after one has been stored. *)
LEMMA StoreFact ==
    ASSUME NEW s \in Seq(Headers), NEW h \in Headers
    PROVE  \E d \in {0, 1} :
              /\ Trimmed(Append(s, h)) \in Seq(Headers)
              /\ Len(Trimmed(Append(s, h))) = Len(s) + 1 - d
              /\ Len(Trimmed(Append(s, h))) >= 1
              /\ \A i \in 1 .. (Len(s) + 1 - d) :
                    Trimmed(Append(s, h))[i] = IF i + d = Len(s) + 1 THEN h ELSE s[i + d]
<1> DEFINE a == Append(s, h)
<1>1. /\ a \in Seq(Headers) /\ Len(a) = Len(s) + 1 /\ Len(s) \in Nat
      /\ \A i \in 1 .. Len(a) : a[i] = IF i = Len(s) + 1 THEN h ELSE s[i]
  BY AppendProperties
<1> HIDE DEF a
<1>2. CASE Len(a) > HeaderWindow
  <2>1. Trimmed(a) = Tail(a) /\ a # <<>> /\ Len(a) >= 2
    BY <1>1, <1>2, LightAssumption DEF Trimmed
  <2>2. /\ Tail(a) \in Seq(Headers) /\ Len(Tail(a)) = Len(a) - 1
        /\ \A i \in 1 .. Len(Tail(a)) : Tail(a)[i] = a[i + 1]
    BY <1>1, <2>1, HeadTailProperties
  <2>3. \A i \in 1 .. (Len(s) + 1 - 1) : Trimmed(a)[i] = IF i + 1 = Len(s) + 1 THEN h ELSE s[i + 1]
    BY <1>1, <2>1, <2>2
  <2> QED  BY <1>1, <2>1, <2>2, <2>3, SMTT(30) DEF a
<1>3. CASE ~(Len(a) > HeaderWindow)
  <2>1. Trimmed(a) = a
    BY <1>3 DEF Trimmed
  <2>2. \A i \in 1 .. (Len(s) + 1 - 0) : Trimmed(a)[i] = IF i + 0 = Len(s) + 1 THEN h ELSE s[i + 0]
    BY <1>1, <2>1
  <2> QED  BY <1>1, <2>1, <2>2 DEF a
<1> QED  BY <1>2, <1>3

LEMMA StoreStep == ASSUME LightInv, NEW u, UpdateStores(u) PROVE LightInv'
<1> DEFINE h == checkedHeader[u]
<1>1. /\ h \in Headers /\ VerifyHeader(h) /\ clientLock = u /\ u \in DOMAIN checkedHeader
      /\ trusted' = Trimmed(Append(trusted, h)) /\ syncedTo' = <<HeightOf[h], TimeOf[h]>>
      /\ pinned' = Put(pinned, HeightOf[h], h) /\ checkedHeader' = Drop(checkedHeader, u)
      /\ HeightOf[h] \in Nat
  BY LightAssumption DEF UpdateStores, LightInv, CheckedStays
<1>2. CheckedStays'
  BY <1>1 DEF LightInv, CheckedStays, Drop
<1> HIDE DEF h
<1>3. PICK d \in {0, 1} :
         /\ trusted' \in Seq(Headers) /\ Len(trusted') = Len(trusted) + 1 - d /\ Len(trusted') >= 1
         /\ \A i \in 1 .. (Len(trusted) + 1 - d) :
               trusted'[i] = IF i + d = Len(trusted) + 1 THEN h ELSE trusted[i + d]
  BY <1>1, StoreFact DEF LightInv
<1>4. /\ Len(trusted) \in Nat /\ DOMAIN trusted = 1 .. Len(trusted)
      /\ DOMAIN trusted' = 1 .. (Len(trusted) + 1 - d)
      /\ \A i \in 1 .. Len(trusted) : trusted[i] \in Headers /\ HeightOf[trusted[i]] \in Nat
  BY <1>3, LightAssumption DEF LightInv
<1>5. trusted'[Len(trusted')] = h /\ Last(trusted') = h /\ trusted' # <<>>
  BY <1>3, <1>4 DEF Last
<1>6. ASSUME trusted # <<>>
      PROVE  /\ Len(trusted) >= 1 /\ Last(trusted) = trusted[Len(trusted)]
             /\ Follows(h, trusted[Len(trusted)]) /\ HasQuorum(h)
             /\ HeightOf[h] = HeightOf[Last(trusted)] + 1
  BY <1>1, <1>4, <1>6 DEF VerifyHeader, Follows, Last, LightInv
<1>7. HasQuorum(h)
  BY <1>1 DEF VerifyHeader
<1>8. HeightsAscend'
  <2>1. ASSUME NEW i \in DOMAIN trusted'
        PROVE  HeightOf[trusted'[i]] = HeightOf[h] - (Len(trusted') - i)
    <3>1. CASE i + d = Len(trusted) + 1
      <4>1. trusted'[i] = h /\ Len(trusted') = i /\ i \in Nat
        BY <1>3, <1>4, <2>1, <3>1
      <4> QED  BY <1>1, <4>1
    <3>2. CASE i + d # Len(trusted) + 1
      <4>1. i + d \in 1 .. Len(trusted) /\ trusted # <<>> /\ trusted'[i] = trusted[i + d]
        BY <1>3, <1>4, <2>1, <3>2
      <4>2. HeightOf[trusted[i + d]] = HeightOf[Last(trusted)] - (Len(trusted) - (i + d))
        BY <1>4, <4>1 DEF LightInv, HeightsAscend
      <4>3. HeightOf[Last(trusted)] \in Nat
        BY <1>4, <1>6, <4>1
      <4> QED  BY <1>3, <1>4, <1>6, <2>1, <4>1, <4>2, <4>3
    <3> QED  BY <3>1, <3>2
  <2>2. ASSUME NEW n \in DOMAIN pinned' PROVE n \in Nat /\ n <= HeightOf[h]
    <3>1. CASE n = HeightOf[h]
      BY <1>1, <3>1
    <3>2. CASE n # HeightOf[h]
      <4>1. n \in DOMAIN pinned
        BY <1>1, <2>2, <3>2 DEF Put
      <4>2. /\ n \in Nat /\ trusted # <<>> /\ n <= HeightOf[Last(trusted)]
            /\ HeightOf[Last(trusted)] \in Nat
        BY <1>4, <1>6, <4>1 DEF LightInv, HeightsAscend
      <4> QED  BY <1>1, <1>6, <4>2
    <3> QED  BY <3>1, <3>2
  <2> QED  BY <1>5, <2>1, <2>2 DEF HeightsAscend
<1>9. Linked'
  <2>1. ASSUME NEW i \in 1 .. (Len(trusted') - 1) PROVE Follows(trusted'[i + 1], trusted'[i])
    <3>1. /\ i + d \in 1 .. Len(trusted) /\ trusted # <<>> /\ trusted'[i] = trusted[i + d]
          /\ i + 1 \in 1 .. (Len(trusted) + 1 - d)
      BY <1>3, <1>4, <2>1
    <3>2. CASE i + d = Len(trusted)
      BY <1>3, <1>4, <1>6, <3>1, <3>2
    <3>3. CASE i + d # Len(trusted)
      <4>0. i \in Int /\ d \in Int /\ Len(trusted) \in Int
        BY <1>4, <2>1
      <4>1. /\ i + 1 + d # Len(trusted) + 1 /\ i + 1 + d = i + d + 1
            /\ i + d \in 1 .. (Len(trusted) - 1)
        BY <3>1, <3>3, <4>0
      <4>2. trusted'[i + 1] = trusted[i + d + 1]
        BY <1>3, <3>1, <4>1
      <4> QED  BY <3>1, <4>1, <4>2 DEF LightInv, Linked
    <3> QED  BY <3>2, <3>3
  <2>2. ASSUME NEW i \in DOMAIN trusted'
        PROVE  /\ HasQuorum(trusted'[i]) /\ HeightOf[trusted'[i]] \in DOMAIN pinned'
               /\ pinned'[HeightOf[trusted'[i]]] = trusted'[i]
    <3>1. CASE i + d = Len(trusted) + 1
      BY <1>1, <1>3, <1>4, <1>7, <2>2, <3>1 DEF Put
    <3>2. CASE i + d # Len(trusted) + 1
      <4>1. i + d \in 1 .. Len(trusted) /\ trusted # <<>> /\ trusted'[i] = trusted[i + d]
        BY <1>3, <1>4, <2>2, <3>2
      <4>2. HeightOf[trusted[i + d]] = HeightOf[Last(trusted)] - (Len(trusted) - (i + d))
        BY <1>4, <4>1 DEF LightInv, HeightsAscend
      <4>3. HeightOf[trusted[i + d]] # HeightOf[h]
        BY <1>3, <1>4, <1>6, <4>1, <4>2
      <4> QED  BY <1>1, <1>4, <4>1, <4>3 DEF LightInv, Linked, Put
    <3> QED  BY <3>1, <3>2
  <2> QED  BY <1>1, <1>5, <2>1, <2>2 DEF Linked
<1> QED  BY <1>2, <1>3, <1>8, <1>9 DEF LightInv

(* The scan of a chain without gaps finds each header where it is. *)
LEMMA ScanFact ==
    ASSUME LightInv, NEW i \in DOMAIN trusted
    PROVE  HeaderAt(HeightOf[trusted[i]]) = i
<1> DEFINE found == {j \in 1 .. Len(trusted) : HeightOf[trusted[j]] = HeightOf[trusted[i]]}
<1>1. /\ i \in 1 .. Len(trusted) /\ DOMAIN trusted = 1 .. Len(trusted) /\ Len(trusted) \in Nat
      /\ Last(trusted) \in Headers /\ HeightOf[Last(trusted)] \in Nat
  BY LightAssumption DEF LightInv, Last
<1>2. ASSUME NEW j \in found PROVE j = i
  BY <1>1 DEF LightInv, HeightsAscend
<1>3. found = {i}
  BY <1>1, <1>2
<1>4. HeaderAt(HeightOf[trusted[i]]) = IF found # {} THEN CHOOSE x \in found : \A y \in found : x <= y ELSE 0
  BY DEF HeaderAt, SelectInSeq, Min
<1> HIDE DEF found
<1> QED  BY <1>1, <1>3, <1>4

(* AlwaysTrustedChain: for any tree of headers and any interleaving of      *)
(* updates, the headers that light_client.rs trusts are one chain that the  *)
(* scan finds its way in and that bisection only extends.                   *)
THEOREM AlwaysTrustedChain == LightSpec => []TrustedChain
<1>1. LightInit => LightInv
  BY DEF LightInit, LightInv, CheckedStays, HeightsAscend, Linked
<1>2. LightInv /\ [LightNext]_lightVars => LightInv'
  <2> SUFFICES ASSUME LightInv, [LightNext]_lightVars PROVE LightInv'
    OBVIOUS
  <2>1. CASE UNCHANGED lightVars
    BY <2>1 DEF lightVars, LightInv, CheckedStays, VerifyHeader, HeightsAscend, Linked
  <2>2. CASE InitializeChain
    <3>1. DOMAIN checkedHeader = {} /\ checkedHeader' = checkedHeader
      BY <2>2, LightAssumption DEF InitializeChain, LightInv, CheckedStays
    <3> QED  BY <2>2, <3>1 DEF InitializeChain, LightInv, CheckedStays, HeightsAscend, Linked
  <2>3. ASSUME NEW u \in Updates, NEW h \in Headers, UpdateChecks(u, h) PROVE LightInv'
    <3>1. /\ DOMAIN checkedHeader = {} /\ clientLock' = u /\ VerifyHeader(h)
          /\ checkedHeader' = Put(checkedHeader, u, h)
          /\ UNCHANGED <<trusted, syncedTo, pinned>>
      BY <2>3, LightAssumption DEF UpdateChecks, MayEnter, LightInv, CheckedStays
    <3>2. DOMAIN checkedHeader' = {u} /\ checkedHeader'[u] = h
      BY <3>1 DEF Put
    <3> QED  BY <3>1, <3>2 DEF LightInv, CheckedStays, VerifyHeader, HeightsAscend, Linked
  <2> QED  BY <2>1, <2>2, <2>3, StoreStep DEF LightNext
<1>3. LightInv => TrustedChain
  <2> SUFFICES ASSUME LightInv PROVE TrustedChain
    OBVIOUS
  <2>1. ASSUME NEW g \in Headers, trusted # <<>>, BisectionVerify(g, trusted[1])
        PROVE  PreviousOf[g] = Last(trusted) /\ HeightOf[g] \notin DOMAIN pinned
    <3>1. PreviousOf[g] = Last(trusted) /\ HeightOf[g] = HeightOf[Last(trusted)] + 1
      BY <2>1 DEF BisectionVerify, VerifyHeader, Follows
    <3>2. Last(trusted) \in Headers /\ HeightOf[Last(trusted)] \in Nat
      BY <2>1, LightAssumption DEF LightInv, Last
    <3> QED  BY <3>1, <3>2 DEF LightInv, HeightsAscend
  <2> QED  BY <2>1, ScanFact DEF LightInv, Linked, TrustedChain
<1> QED  BY <1>1, <1>2, <1>3, PTL DEF LightSpec

-----------------------------------------------------------------------------
(* The calls of the rollup and what a batch is. *)
RollupCalls == RollupTxs \cup BatchCalls \cup ChallengeCalls
RollupLabels == {"idle", "stuck", "sequence", "store", "root", "insert", "mark", "resolve", "done",
                 "dropped"}
TxSeq == Seq(RollupTxs)
StoredBatch == [txs : TxSeq, prev : TxSeq, root : TxSeq,
                status : {"Submitted", "Challenged", "Finalized"}, deadline : Nat]
NumberedBatch == [number : Nat, txs : TxSeq, prev : TxSeq, root : TxSeq, deadline : Nat]

RollupTyped ==
    /\ rollupAt \in [RollupCalls -> RollupLabels]
    /\ rollupPending \in TxSeq /\ zkPending \in TxSeq
    /\ nextBatchId \in Nat \ {0} /\ currentRoot \in TxSeq /\ rollupTime \in Nat
    /\ \A b \in DOMAIN taken : taken[b] \in TxSeq
    /\ \A b \in DOMAIN sequenced : sequenced[b] \in NumberedBatch
    /\ \A n \in DOMAIN rollupBatches : rollupBatches[n] \in StoredBatch

(* Where a call of create_batch is tells what it holds; one that was        *)
(* dropped holds whatever it had.                                           *)
CallsHold ==
    /\ DOMAIN taken \subseteq BatchCalls /\ DOMAIN sequenced \subseteq BatchCalls
    /\ \A b \in DOMAIN taken : rollupAt[b] \in {"sequence", "dropped"}
    /\ \A b \in DOMAIN sequenced : rollupAt[b] \in {"store", "root", "dropped"}
    /\ \A b \in BatchCalls :
          /\ rollupAt[b] = "sequence" => b \in DOMAIN taken
          /\ rollupAt[b] = "store" => b \in Unstored
          /\ rollupAt[b] = "root" => b \in DOMAIN sequenced /\ b \notin Unstored

(* No number is given out twice, and the batch that a call has stored is    *)
(* the one it numbered.                                                     *)
NumbersOnce ==
    /\ DOMAIN rollupBatches \subseteq 1 .. (nextBatchId - 1)
    /\ \A b \in DOMAIN sequenced :
          /\ sequenced[b].number \in 1 .. (nextBatchId - 1)
          /\ b \notin Unstored => rollupBatches[sequenced[b].number].root = sequenced[b].root
    /\ \A a, b \in DOMAIN sequenced : sequenced[a].number = sequenced[b].number => a = b

(* The numbered batches follow each other, up to the sequencer's root. *)
LinksFollow ==
    /\ {r.number : r \in Numbered} = 1 .. (nextBatchId - 1)
    /\ \A r, s \in Numbered :
          /\ r.root = r.prev \o r.txs
          /\ r.number = 1 => r.prev = <<>>
          /\ s.number = r.number + 1 => s.prev = r.root
          /\ s.number = r.number => s = r
    /\ \A r \in Numbered : r.number = nextBatchId - 1 => r.root = currentRoot
    /\ nextBatchId = 1 => currentRoot = <<>>

(* A stored batch has its root, or the call that is to write it. *)
RootsStored ==
    \A n \in DOMAIN rollupBatches :
        \/ n \in DOMAIN stateRoots /\ stateRoots[n] = rollupBatches[n].root
        \/ \E b \in DOMAIN sequenced :
              sequenced[b].number = n /\ rollupAt[b] \in {"root", "dropped"}

(* A challenge under way was admitted in time for a batch that is stored,   *)
(* and the one that holds the challenges is the one on record.              *)
ChallengesAdmitted ==
    \A c \in ChallengeCalls :
        /\ rollupAt[c] \in {"insert", "mark", "resolve"} =>
              /\ c \in DOMAIN admittedAt
              /\ admittedAt[c].batch \in DOMAIN rollupBatches
              /\ admittedAt[c].time <= rollupBatches[admittedAt[c].batch].deadline
        /\ rollupAt[c] \in {"mark", "resolve"} =>
              challengesBy = c /\ challenges[admittedAt[c].batch] = c

BatchInv == RollupTyped /\ CallsHold /\ NumbersOnce /\ LinksFollow /\ RootsStored

LEMMA RollupInitInv == RollupInit => BatchInv /\ ChallengesAdmitted
<1> SUFFICES ASSUME RollupInit PROVE BatchInv /\ ChallengesAdmitted
  OBVIOUS
<1>1. DOMAIN << >> = {} /\ << >> \in TxSeq
  BY DEF TxSeq
<1>2. RollupTyped
  BY <1>1, RollupAssumption DEF RollupInit, RollupTyped, RollupCalls, RollupLabels
<1>3. DOMAIN taken = {} /\ DOMAIN sequenced = {} /\ DOMAIN rollupBatches = {} /\ Unstored = {}
      /\ nextBatchId = 1 /\ currentRoot = << >>
  BY <1>1 DEF RollupInit, Unstored
<1>4. CallsHold /\ NumbersOnce /\ RootsStored
  BY <1>3, RollupAssumption DEF RollupInit, CallsHold, NumbersOnce, RootsStored, RollupCalls
<1>5. Numbered = {} /\ 1 .. (nextBatchId - 1) = {}
  BY <1>3 DEF Numbered
<1>6. LinksFollow
  BY <1>3, <1>5 DEF LinksFollow
<1> QED  BY <1>2, <1>4, <1>6, RollupAssumption DEF BatchInv, ChallengesAdmitted, RollupInit, RollupCalls

(* The numbered batches, one by one. *)
NumberedKnown ==
    \A x : x \in Numbered <=> \/ \E n \in DOMAIN rollupBatches : x = Link(n, rollupBatches[n])
                              \/ \E b \in Unstored : x = Link(sequenced[b].number, sequenced[b])

LEMMA NumberedAre == NumberedKnown
BY DEF NumberedKnown, Numbered

(* What neither numbers nor stores a batch and leaves a call of             *)
(* create_batch where it is, or drops it, keeps what holds of the batches.  *)
LEMMA BatchKept ==
    ASSUME BatchInv, UNCHANGED <<taken, sequenced, nextBatchId, currentRoot, stateRoots>>,
           rollupAt' \in [RollupCalls -> RollupLabels],
           \A b \in BatchCalls :
              \/ rollupAt'[b] = rollupAt[b]
              \/ rollupAt[b] \in {"sequence", "store", "root"} /\ rollupAt'[b] = "dropped",
           rollupPending' \in TxSeq, zkPending' \in TxSeq, rollupTime' \in Nat,
           DOMAIN rollupBatches' = DOMAIN rollupBatches,
           \A n \in DOMAIN rollupBatches :
              /\ rollupBatches'[n] \in StoredBatch
              /\ rollupBatches'[n].txs = rollupBatches[n].txs
              /\ rollupBatches'[n].prev = rollupBatches[n].prev
              /\ rollupBatches'[n].root = rollupBatches[n].root
    PROVE  BatchInv' /\ Unstored' = Unstored
<1>1. RollupTyped'
  BY DEF BatchInv, RollupTyped
<1>2. Unstored' = Unstored
  BY DEF Unstored
<1>3. DOMAIN sequenced \subseteq BatchCalls /\ DOMAIN taken \subseteq BatchCalls
  BY DEF BatchInv, CallsHold
<1>4. CallsHold'
  BY <1>2, <1>3 DEF BatchInv, CallsHold
<1>5. NumbersOnce'
  <2>1. \A b \in DOMAIN sequenced : b \notin Unstored => sequenced[b].number \in DOMAIN rollupBatches
    BY DEF Unstored
  <2> QED  BY <1>2, <2>1 DEF BatchInv, NumbersOnce
<1>6. Numbered' = Numbered
  <2>1. NumberedKnown /\ NumberedKnown'
    BY NumberedAre, PTL
  <2>2. \A n \in DOMAIN rollupBatches : Link(n, rollupBatches'[n]) = Link(n, rollupBatches[n])
    BY DEF Link
  <2>3. \A x : x \in Numbered' <=> x \in Numbered
    BY <1>2, <2>1, <2>2 DEF NumberedKnown
  <2> QED  BY <2>3
<1>7. LinksFollow'
  BY <1>6 DEF BatchInv, LinksFollow
<1>8. RootsStored'
  BY <1>3 DEF BatchInv, RootsStored
<1> QED  BY <1>1, <1>2, <1>4, <1>5, <1>7, <1>8 DEF BatchInv

LEMMA TakesBatch ==
    ASSUME BatchInv, NEW b \in BatchCalls, BatchTakes(b)
    PROVE  /\ BatchInv'
           /\ \E n \in 1 .. Len(rollupPending) :
                 /\ taken' = Put(taken, b, SubSeq(rollupPending, 1, n))
                 /\ rollupPending' = SubSeq(rollupPending, n + 1, Len(rollupPending))
<1> DEFINE n == Min({RollupBatch, Len(rollupPending)})
<1>1. rollupPending \in TxSeq /\ Len(rollupPending) \in Nat \ {0}
  BY DEF BatchInv, RollupTyped, TxSeq, BatchTakes
<1>2. n \in 1 .. Len(rollupPending)
  <2> DEFINE S == {RollupBatch, Len(rollupPending)}
  <2>1. S \subseteq Nat \ {0} /\ \E x \in S : \A y \in S : x <= y
    BY <1>1, RollupAssumption
  <2>2. n = CHOOSE x \in S : \A y \in S : x <= y
    BY DEF Min
  <2> HIDE DEF n
  <2>3. n \in S /\ \A y \in S : n <= y
    BY <2>1, <2>2
  <2> QED  BY <1>1, <2>1, <2>3
<1>3. /\ taken' = Put(taken, b, SubSeq(rollupPending, 1, n))
      /\ rollupPending' = SubSeq(rollupPending, n + 1, Len(rollupPending))
      /\ rollupAt[b] = "idle" /\ rollupAt' = [rollupAt EXCEPT ![b] = "sequence"]
      /\ UNCHANGED <<zkPending, sequenced, nextBatchId, currentRoot, rollupBatches, stateRoots,
                     rollupTime>>
  BY DEF BatchTakes, RollupGoes, storeVars
<1> HIDE DEF n
<1>4. rollupPending' \in TxSeq /\ SubSeq(rollupPending, 1, n) \in TxSeq
  BY <1>1, <1>2, <1>3 DEF TxSeq
<1>5. RollupTyped'
  <2>1. \A x \in DOMAIN taken' : taken'[x] \in TxSeq
    BY <1>3, <1>4 DEF BatchInv, RollupTyped, Put
  <2> QED  BY <1>3, <1>4, <2>1 DEF BatchInv, RollupTyped, RollupCalls, RollupLabels
<1>6. Unstored' = Unstored /\ Numbered' = Numbered
  BY <1>3 DEF Unstored, Numbered
<1>7. CallsHold'
  BY <1>3, <1>6 DEF BatchInv, RollupTyped, CallsHold, Put, RollupCalls
<1>8. NumbersOnce' /\ LinksFollow'
  BY <1>3, <1>6 DEF BatchInv, NumbersOnce, LinksFollow
<1>9. RootsStored'
  <2>1. b \notin DOMAIN sequenced
    BY <1>3 DEF BatchInv, CallsHold
  <2>2. \A c \in DOMAIN sequenced : rollupAt'[c] = rollupAt[c]
    BY <1>3, <2>1
  <2> QED  BY <1>3, <2>2 DEF BatchInv, RootsStored
<1> QED  BY <1>2, <1>3, <1>5, <1>7, <1>8, <1>9 DEF BatchInv

LEMMA SequencesBatch ==
    ASSUME BatchInv, NEW b \in BatchCalls, BatchSequences(b)
    PROVE  /\ BatchInv' /\ b \in DOMAIN taken /\ b \notin DOMAIN sequenced
           /\ Unstored' = Unstored \cup {b}
<1> DEFINE s == [number |-> nextBatchId, txs |-> taken[b], prev |-> currentRoot,
                 root |-> currentRoot \o taken[b], deadline |-> rollupTime + ChallengePeriod]
<1>1. /\ rollupAt[b] = "sequence"
      /\ sequenced' = Put(sequenced, b, s) /\ currentRoot' = s.root
      /\ nextBatchId' = nextBatchId + 1 /\ taken' = Drop(taken, b)
      /\ rollupAt' = [rollupAt EXCEPT ![b] = "store"]
      /\ UNCHANGED <<rollupPending, zkPending, rollupBatches, stateRoots, rollupTime>>
  BY DEF BatchSequences, ComputeStateRoot, RollupGoes, submitVars, storeVars
<1>2. /\ b \in DOMAIN taken /\ b \notin DOMAIN sequenced
      /\ taken[b] \in TxSeq /\ nextBatchId \in Nat \ {0}
  BY <1>1 DEF BatchInv, CallsHold, RollupTyped
<1>3. s \in NumberedBatch
  BY <1>2, RollupAssumption DEF NumberedBatch, BatchInv, RollupTyped, TxSeq
<1>4. s.number = nextBatchId /\ s.prev = currentRoot /\ s.root = s.prev \o s.txs
  OBVIOUS
<1> HIDE DEF s
<1>5. /\ DOMAIN sequenced' = DOMAIN sequenced \cup {b} /\ sequenced'[b] = s
      /\ \A c \in DOMAIN sequenced : sequenced'[c] = sequenced[c]
      /\ DOMAIN taken' = DOMAIN taken \ {b} /\ \A c \in DOMAIN taken' : taken'[c] = taken[c]
  BY <1>1, <1>2 DEF Put, Drop
<1>6. RollupTyped'
  <2>1. currentRoot' \in TxSeq
    BY <1>1, <1>3 DEF NumberedBatch
  <2>2. \A x \in DOMAIN sequenced' : sequenced'[x] \in NumberedBatch
    BY <1>3, <1>5 DEF BatchInv, RollupTyped
  <2>3. \A x \in DOMAIN taken' : taken'[x] \in TxSeq
    BY <1>5 DEF BatchInv, RollupTyped
  <2> QED  BY <1>1, <1>2, <2>1, <2>2, <2>3 DEF BatchInv, RollupTyped, RollupCalls, RollupLabels
<1>7. nextBatchId \notin DOMAIN rollupBatches
  BY <1>2 DEF BatchInv, NumbersOnce
<1>8. Unstored' = Unstored \cup {b}
  BY <1>1, <1>2, <1>4, <1>5, <1>7 DEF Unstored
<1>9. CallsHold'
  BY <1>1, <1>2, <1>5, <1>8 DEF BatchInv, RollupTyped, CallsHold, RollupCalls
<1>10. NumbersOnce'
  <2>1. 1 .. (nextBatchId' - 1) = 1 .. (nextBatchId - 1) \cup {nextBatchId}
        /\ nextBatchId \notin 1 .. (nextBatchId - 1)
    BY <1>1, <1>2
  <2> QED  BY <1>1, <1>4, <1>5, <1>8, <2>1 DEF BatchInv, NumbersOnce
<1> DEFINE l == Link(s.number, s)
<1>11. l.number = nextBatchId /\ l.prev = currentRoot /\ l.root = l.prev \o l.txs
       /\ l.root = currentRoot'
  BY <1>1, <1>4 DEF Link
<1>12. Numbered' = Numbered \cup {l}
  <2>1. NumberedKnown /\ NumberedKnown'
    BY NumberedAre, PTL
  <2>2. Unstored \subseteq DOMAIN sequenced
    BY DEF Unstored
  <2>3. ASSUME NEW x PROVE x \in Numbered' <=> x \in Numbered \cup {l}
    BY <1>1, <1>5, <1>8, <2>1, <2>2 DEF NumberedKnown
  <2> QED  BY <2>3
<1> HIDE DEF l
<1>13. LinksFollow'
  <2>1. \A r \in Numbered : r.number \in 1 .. (nextBatchId - 1)
    BY DEF BatchInv, LinksFollow
  <2>2. {r.number : r \in Numbered'} = {r.number : r \in Numbered} \cup {nextBatchId}
    BY <1>11, <1>12
  <2>3. {r.number : r \in Numbered'} = 1 .. (nextBatchId' - 1)
    <3>1. {r.number : r \in Numbered} = 1 .. (nextBatchId - 1)
      BY DEF BatchInv, LinksFollow
    <3>2. 1 .. (nextBatchId' - 1) = 1 .. (nextBatchId - 1) \cup {nextBatchId}
      BY <1>1, <1>2
    <3> QED  BY <2>2, <3>1, <3>2
  <2>4. nextBatchId = 1 => currentRoot = << >>
    BY DEF BatchInv, LinksFollow
  <2>5. \A r \in Numbered : r.number = nextBatchId - 1 => r.root = currentRoot
    BY DEF BatchInv, LinksFollow
  <2>6. ASSUME NEW r \in Numbered', NEW t \in Numbered'
        PROVE  /\ r.root = r.prev \o r.txs
               /\ r.number = 1 => r.prev = <<>>
               /\ t.number = r.number + 1 => t.prev = r.root
               /\ t.number = r.number => t = r
    <3>1. CASE r \in Numbered /\ t \in Numbered
      BY <3>1 DEF BatchInv, LinksFollow
    <3>2. CASE r \in Numbered /\ t = l
      <4>1. r.number \in 1 .. (nextBatchId - 1) /\ t.number = nextBatchId
        BY <1>11, <2>1, <3>2
      <4>2. r.root = r.prev \o r.txs /\ (r.number = 1 => r.prev = <<>>)
        BY <3>2 DEF BatchInv, LinksFollow
      <4>3. t.number = r.number + 1 => r.root = currentRoot
        BY <1>2, <2>5, <3>2, <4>1
      <4>4. t.number # r.number
        BY <1>2, <4>1
      <4> QED  BY <1>11, <3>2, <4>2, <4>3, <4>4
    <3>3. CASE r = l /\ t \in Numbered
      <4>1. t.number \in 1 .. (nextBatchId - 1) /\ r.number = nextBatchId
        BY <1>11, <2>1, <3>3
      <4>2. t.number # r.number /\ t.number # r.number + 1
        BY <1>2, <4>1
      <4>3. r.number = 1 => r.prev = << >>
        BY <1>11, <2>4, <3>3
      <4>4. r.root = r.prev \o r.txs
        BY <1>11, <3>3
      <4> QED  BY <4>2, <4>3, <4>4
    <3>4. CASE r = l /\ t = l
      <4>1. t.number # r.number + 1
        BY <1>2, <1>11, <3>4
      <4>2. r.number = 1 => r.prev = << >>
        BY <1>11, <2>4, <3>4
      <4>3. r.root = r.prev \o r.txs
        BY <1>11, <3>4
      <4> QED  BY <3>4, <4>1, <4>2, <4>3
    <3> QED  BY <1>12, <3>1, <3>2, <3>3, <3>4
  <2>7. ASSUME NEW r \in Numbered', r.number = nextBatchId' - 1 PROVE r.root = currentRoot'
    BY <1>1, <1>2, <1>11, <1>12, <2>1, <2>7
  <2>8. nextBatchId' # 1
    BY <1>1, <1>2
  <2> QED  BY <2>3, <2>6, <2>7, <2>8 DEF LinksFollow
<1>14. RootsStored'
  <2>1. \A c \in DOMAIN sequenced : rollupAt'[c] = rollupAt[c] /\ c \in DOMAIN sequenced'
    BY <1>1, <1>2, <1>5
  <2> QED  BY <1>1, <1>5, <2>1 DEF BatchInv, RootsStored
<1> QED  BY <1>2, <1>6, <1>8, <1>9, <1>10, <1>13, <1>14 DEF BatchInv

LEMMA StoresBatch ==
    ASSUME BatchInv, NEW b \in BatchCalls, BatchStores(b)
    PROVE  /\ BatchInv' /\ sequenced[b].number \notin DOMAIN rollupBatches
           /\ b \in Unstored /\ Unstored' = Unstored \ {b}
<1> DEFINE s == sequenced[b]
           new == [txs |-> s.txs, prev |-> s.prev, root |-> s.root,
                   status |-> "Submitted", deadline |-> s.deadline]
<1>1. /\ rollupAt[b] = "store" /\ rollupBatches' = Put(rollupBatches, s.number, new)
      /\ rollupAt' = [rollupAt EXCEPT ![b] = "root"]
      /\ UNCHANGED <<rollupPending, zkPending, taken, sequenced, nextBatchId, currentRoot,
                     stateRoots, rollupTime>>
  BY DEF BatchStores, RollupGoes, submitVars, batchVars
<1>2. b \in Unstored /\ b \in DOMAIN sequenced /\ s.number \notin DOMAIN rollupBatches
      /\ s \in NumberedBatch
  BY <1>1 DEF BatchInv, CallsHold, Unstored, RollupTyped
<1>3. new \in StoredBatch /\ new.txs = s.txs /\ new.prev = s.prev /\ new.root = s.root
  BY <1>2 DEF NumberedBatch, StoredBatch
<1>4. s = sequenced[b]
  OBVIOUS
<1> HIDE DEF s, new
<1>5. /\ DOMAIN rollupBatches' = DOMAIN rollupBatches \cup {s.number}
      /\ rollupBatches'[s.number] = new
      /\ \A n \in DOMAIN rollupBatches : rollupBatches'[n] = rollupBatches[n]
  BY <1>1, <1>2 DEF Put
<1>6. RollupTyped'
  <2>1. \A n \in DOMAIN rollupBatches' : rollupBatches'[n] \in StoredBatch
    BY <1>3, <1>5 DEF BatchInv, RollupTyped
  <2> QED  BY <1>1, <2>1 DEF BatchInv, RollupTyped, RollupCalls, RollupLabels
<1>7. Unstored' = Unstored \ {b}
  <2>1. \A c \in DOMAIN sequenced : sequenced[c].number = s.number => c = b
    BY <1>2, <1>4 DEF BatchInv, NumbersOnce
  <2> QED  BY <1>1, <1>4, <1>5, <2>1 DEF Unstored
<1>8. CallsHold'
  BY <1>1, <1>2, <1>7 DEF BatchInv, RollupTyped, CallsHold, RollupCalls
<1>9. NumbersOnce'
  <2>1. s.number \in 1 .. (nextBatchId - 1)
    BY <1>2, <1>4 DEF BatchInv, NumbersOnce
  <2>2. DOMAIN rollupBatches' \subseteq 1 .. (nextBatchId' - 1)
    BY <1>1, <1>5, <2>1 DEF BatchInv, NumbersOnce
  <2>3. ASSUME NEW c \in DOMAIN sequenced, c \notin Unstored'
        PROVE  rollupBatches'[sequenced[c].number].root = sequenced[c].root
    <3>1. CASE c = b
      BY <1>3, <1>4, <1>5, <3>1
    <3>2. CASE c # b
      <4>1. c \notin Unstored /\ sequenced[c].number \in DOMAIN rollupBatches
        BY <1>7, <2>3, <3>2 DEF Unstored
      <4> QED  BY <1>5, <4>1 DEF BatchInv, NumbersOnce
    <3> QED  BY <3>1, <3>2
  <2> QED  BY <1>1, <2>2, <2>3 DEF BatchInv, NumbersOnce
<1>10. Numbered' = Numbered
  <2>1. NumberedKnown /\ NumberedKnown'
    BY NumberedAre, PTL
  <2>2. Link(s.number, new) = Link(sequenced[b].number, sequenced[b])
    BY <1>3, <1>4 DEF Link
  <2>3. ASSUME NEW x PROVE x \in Numbered' <=> x \in Numbered
    BY <1>1, <1>2, <1>5, <1>7, <2>1, <2>2 DEF NumberedKnown
  <2> QED  BY <2>3
<1>11. LinksFollow'
  BY <1>1, <1>10 DEF BatchInv, LinksFollow
<1>12. RootsStored'
  <2>1. rollupAt'[b] = "root" /\ \A c \in DOMAIN sequenced : c # b => rollupAt'[c] = rollupAt[c]
    BY <1>1 DEF BatchInv, RollupTyped, RollupCalls
  <2>2. ASSUME NEW n \in DOMAIN rollupBatches'
        PROVE  \/ n \in DOMAIN stateRoots' /\ stateRoots'[n] = rollupBatches'[n].root
               \/ \E c \in DOMAIN sequenced' :
                     sequenced'[c].number = n /\ rollupAt'[c] \in {"root", "dropped"}
    <3>1. CASE n = s.number
      BY <1>1, <1>2, <1>4, <2>1, <3>1
    <3>2. CASE n \in DOMAIN rollupBatches
      BY <1>1, <1>5, <2>1, <3>2 DEF BatchInv, RootsStored
    <3> QED  BY <1>5, <3>1, <3>2
  <2> QED  BY <2>2 DEF RootsStored
<1> QED  BY <1>2, <1>4, <1>6, <1>7, <1>8, <1>9, <1>11, <1>12 DEF BatchInv

LEMMA RootsBatch ==
    ASSUME BatchInv, NEW b \in BatchCalls, BatchRoots(b)
    PROVE  /\ BatchInv' /\ Unstored' = Unstored
           /\ \A c \in Unstored : sequenced'[c] = sequenced[c]
<1>1. /\ rollupAt[b] = "root" /\ sequenced' = Drop(sequenced, b)
      /\ stateRoots' = Put(stateRoots, sequenced[b].number, sequenced[b].root)
      /\ rollupAt' = [rollupAt EXCEPT ![b] = "done"]
      /\ UNCHANGED <<rollupPending, zkPending, taken, nextBatchId, currentRoot, rollupBatches,
                     rollupTime>>
  BY DEF BatchRoots, RollupGoes, submitVars
<1>2. b \in DOMAIN sequenced /\ b \notin Unstored
  BY <1>1 DEF BatchInv, CallsHold
<1>3. /\ DOMAIN sequenced' = DOMAIN sequenced \ {b}
      /\ \A c \in DOMAIN sequenced' : sequenced'[c] = sequenced[c]
  BY <1>1 DEF Drop
<1>4. Unstored' = Unstored /\ \A c \in Unstored : sequenced'[c] = sequenced[c]
  BY <1>1, <1>2, <1>3 DEF Unstored
<1>5. RollupTyped'
  BY <1>1, <1>3 DEF BatchInv, RollupTyped, RollupCalls, RollupLabels
<1>6. CallsHold'
  BY <1>1, <1>2, <1>3, <1>4 DEF BatchInv, RollupTyped, CallsHold, RollupCalls
<1>7. NumbersOnce'
  BY <1>1, <1>3, <1>4 DEF BatchInv, NumbersOnce
<1>8. Numbered' = Numbered
  <2>1. NumberedKnown /\ NumberedKnown'
    BY NumberedAre, PTL
  <2>2. ASSUME NEW x PROVE x \in Numbered' <=> x \in Numbered
    BY <1>1, <1>4, <2>1 DEF NumberedKnown
  <2> QED  BY <2>2
<1>9. LinksFollow'
  BY <1>1, <1>8 DEF BatchInv, LinksFollow
<1>10. RootsStored'
  <2>1. /\ sequenced[b].number \in DOMAIN stateRoots'
        /\ stateRoots'[sequenced[b].number] = sequenced[b].root
        /\ \A n \in DOMAIN stateRoots :
              n \in DOMAIN stateRoots' /\ (n # sequenced[b].number => stateRoots'[n] = stateRoots[n])
    BY <1>1 DEF Put
  <2>2. rollupBatches[sequenced[b].number].root = sequenced[b].root
    BY <1>2 DEF BatchInv, NumbersOnce
  <2>3. \A c \in DOMAIN sequenced : c # b => rollupAt'[c] = rollupAt[c]
    BY <1>1
  <2>4. ASSUME NEW n \in DOMAIN rollupBatches
        PROVE  \/ n \in DOMAIN stateRoots' /\ stateRoots'[n] = rollupBatches'[n].root
               \/ \E c \in DOMAIN sequenced' :
                     sequenced'[c].number = n /\ rollupAt'[c] \in {"root", "dropped"}
    <3>1. CASE n = sequenced[b].number
      BY <1>1, <2>1, <2>2, <3>1
    <3>2. CASE n # sequenced[b].number
      BY <1>1, <1>3, <2>1, <2>3, <3>2 DEF BatchInv, RootsStored
    <3> QED  BY <3>1, <3>2
  <2> QED  BY <1>1, <2>4 DEF RootsStored
<1> QED  BY <1>4, <1>5, <1>6, <1>7, <1>9, <1>10 DEF BatchInv

LEMMA DropsBatch ==
    ASSUME BatchInv, NEW b \in BatchCalls, BatchGivesUp(b)
    PROVE  BatchInv' /\ Unstored' = Unstored
<1>1. /\ rollupAt[b] \in {"sequence", "store", "root"}
      /\ rollupAt' = [rollupAt EXCEPT ![b] = "dropped"]
      /\ UNCHANGED <<rollupPending, zkPending, taken, sequenced, nextBatchId, currentRoot,
                     rollupBatches, stateRoots, rollupTime>>
  BY DEF BatchGivesUp, RollupGoes, submitVars, storeVars
<1>2. /\ rollupAt' \in [RollupCalls -> RollupLabels]
      /\ \A c \in BatchCalls : c # b => rollupAt'[c] = rollupAt[c]
      /\ rollupAt'[b] = "dropped"
  BY <1>1 DEF BatchInv, RollupTyped, RollupCalls, RollupLabels
<1> QED  BY <1>1, <1>2, BatchKept DEF BatchInv, RollupTyped

LEMMA StatusOnly ==
    ASSUME BatchInv, NEW k \in DOMAIN rollupBatches, NEW st \in {"Challenged", "Finalized"},
           rollupBatches' = [rollupBatches EXCEPT ![k].status = st]
    PROVE  /\ DOMAIN rollupBatches' = DOMAIN rollupBatches
           /\ \A n \in DOMAIN rollupBatches :
                 /\ rollupBatches'[n] \in StoredBatch
                 /\ rollupBatches'[n].txs = rollupBatches[n].txs
                 /\ rollupBatches'[n].prev = rollupBatches[n].prev
                 /\ rollupBatches'[n].root = rollupBatches[n].root
                 /\ rollupBatches'[n].deadline = rollupBatches[n].deadline
                 /\ rollupBatches'[n].status = IF n = k THEN st ELSE rollupBatches[n].status
<1>1. \A n \in DOMAIN rollupBatches : rollupBatches[n] \in StoredBatch
  BY DEF BatchInv, RollupTyped
<1>2. DOMAIN rollupBatches' = DOMAIN rollupBatches
  OBVIOUS
<1>3. /\ rollupBatches'[k] = [rollupBatches[k] EXCEPT !.status = st]
      /\ \A n \in DOMAIN rollupBatches : n # k => rollupBatches'[n] = rollupBatches[n]
  OBVIOUS
<1>4. rollupBatches[k] \in StoredBatch
  BY <1>1
<1>5. /\ [rollupBatches[k] EXCEPT !.status = st] \in StoredBatch
      /\ [rollupBatches[k] EXCEPT !.status = st].txs = rollupBatches[k].txs
      /\ [rollupBatches[k] EXCEPT !.status = st].prev = rollupBatches[k].prev
      /\ [rollupBatches[k] EXCEPT !.status = st].root = rollupBatches[k].root
      /\ [rollupBatches[k] EXCEPT !.status = st].deadline = rollupBatches[k].deadline
      /\ [rollupBatches[k] EXCEPT !.status = st].status = st
  BY <1>4 DEF StoredBatch
<1> QED  BY <1>1, <1>2, <1>3, <1>5

LEMMA ChallengeMarksOnly ==
    ASSUME BatchInv, ChallengesAdmitted, NEW c \in ChallengeCalls, ChallengeMarks(c)
    PROVE  \E k \in DOMAIN rollupBatches :
              /\ challenges[k] = c /\ admittedAt[c].time <= rollupBatches[k].deadline
              /\ rollupBatches' = [rollupBatches EXCEPT ![k].status = "Challenged"]
BY DEF ChallengeMarks, ChallengesAdmitted

LEMMA BatchStep ==
    ASSUME BatchInv, ChallengesAdmitted, [RollupNext]_rollupVars
    PROVE  BatchInv'
<1>1. CASE UNCHANGED rollupVars
  BY <1>1, BatchKept DEF rollupVars, BatchInv, RollupTyped
<1>2. CASE RollupTick
  BY <1>2, BatchKept
  DEF RollupTick, BatchInv, RollupTyped, submitVars, batchVars, storeVars, challengeVars
<1>3. ASSUME NEW tx \in RollupTxs, SubmitRollup(tx) \/ SubmitZk(tx) \/ SubmitGivesUp(tx)
      PROVE  BatchInv'
  <2>1. /\ UNCHANGED <<batchVars, storeVars, rollupTime>>
        /\ rollupPending' \in {rollupPending, Append(rollupPending, tx)}
        /\ zkPending' \in {zkPending, Append(zkPending, tx)}
    BY <1>3 DEF SubmitRollup, SubmitZk, SubmitGivesUp
  <2>2. /\ rollupPending' \in TxSeq /\ zkPending' \in TxSeq
    <3>1. rollupPending \in Seq(RollupTxs) /\ zkPending \in Seq(RollupTxs)
      BY DEF BatchInv, RollupTyped, TxSeq
    <3>2. /\ Append(rollupPending, tx) \in Seq(RollupTxs)
          /\ Append(zkPending, tx) \in Seq(RollupTxs)
      BY <3>1, AppendProperties
    <3> QED  BY <2>1, <3>1, <3>2, Zenon DEF TxSeq
  <2>3. \E l \in {"done", "stuck"} : rollupAt' = [rollupAt EXCEPT ![tx] = l]
    BY <1>3 DEF SubmitRollup, SubmitZk, SubmitGivesUp, RollupGoes
  <2>4. /\ rollupAt' \in [RollupCalls -> RollupLabels]
        /\ \A b \in BatchCalls : rollupAt'[b] = rollupAt[b]
    BY <2>3, RollupAssumption DEF BatchInv, RollupTyped, RollupCalls, RollupLabels
  <2> QED  BY <2>1, <2>2, <2>4, BatchKept DEF BatchInv, RollupTyped, batchVars, storeVars
<1>4. ASSUME NEW b \in BatchCalls,
             \/ BatchTakes(b) \/ BatchSequences(b) \/ BatchStores(b)
             \/ BatchRoots(b) \/ BatchGivesUp(b)
      PROVE  BatchInv'
  BY <1>4, TakesBatch, SequencesBatch, StoresBatch, RootsBatch, DropsBatch
<1>5. ASSUME NEW c \in ChallengeCalls,
             \/ ChallengeInserts(c) \/ ChallengeMarks(c) \/ ChallengeGivesUp(c)
             \/ \E n \in DOMAIN rollupBatches : ChallengeChecks(c, n)
      PROVE  BatchInv'
  <2>1. UNCHANGED <<submitVars, batchVars, stateRoots, rollupTime>>
    BY <1>5 DEF ChallengeInserts, ChallengeMarks, ChallengeGivesUp, ChallengeChecks, storeVars
  <2>2. \E l \in {"insert", "mark", "resolve", "done"} : rollupAt' = [rollupAt EXCEPT ![c] = l]
    BY <1>5 DEF ChallengeInserts, ChallengeMarks, ChallengeGivesUp, ChallengeChecks, RollupGoes
  <2>3. /\ rollupAt' \in [RollupCalls -> RollupLabels]
        /\ \A b \in BatchCalls : rollupAt'[b] = rollupAt[b]
    BY <2>2, RollupAssumption DEF BatchInv, RollupTyped, RollupCalls, RollupLabels
  <2>4. CASE ChallengeMarks(c)
    <3>1. PICK k \in DOMAIN rollupBatches :
             rollupBatches' = [rollupBatches EXCEPT ![k].status = "Challenged"]
      BY <2>4, ChallengeMarksOnly
    <3> QED  BY <2>1, <2>3, <3>1, StatusOnly, BatchKept
             DEF BatchInv, RollupTyped, batchVars, submitVars
  <2>5. CASE ~ChallengeMarks(c)
    <3>1. UNCHANGED rollupBatches
      BY <1>5, <2>5 DEF ChallengeInserts, ChallengeGivesUp, ChallengeChecks, storeVars
    <3> QED  BY <2>1, <2>3, <3>1, BatchKept DEF BatchInv, RollupTyped, batchVars, submitVars
  <2> QED  BY <2>4, <2>5
<1>6. ASSUME NEW n \in DOMAIN rollupBatches, FinalizeBatch(n)
      PROVE  BatchInv'
  <2>1. /\ UNCHANGED <<submitVars, batchVars, stateRoots, rollupAt, rollupTime>>
        /\ rollupBatches' = [rollupBatches EXCEPT ![n].status = "Finalized"]
    BY <1>6 DEF FinalizeBatch
  <2> QED  BY <2>1, StatusOnly, BatchKept DEF BatchInv, RollupTyped, batchVars, submitVars
<1> QED  BY <1>1, <1>2, <1>3, <1>4, <1>5, <1>6 DEF RollupNext

(* A batch that is stored keeps its deadline. *)
LEMMA DeadlinesKept ==
    ASSUME BatchInv, ChallengesAdmitted, [RollupNext]_rollupVars, NEW n \in DOMAIN rollupBatches
    PROVE  /\ n \in DOMAIN rollupBatches'
           /\ rollupBatches'[n].deadline = rollupBatches[n].deadline
<1>1. ASSUME NEW b \in BatchCalls, BatchStores(b)
      PROVE  n \in DOMAIN rollupBatches' /\ rollupBatches'[n] = rollupBatches[n]
  BY <1>1, StoresBatch DEF BatchStores, Put
<1>2. ASSUME NEW c \in ChallengeCalls, ChallengeMarks(c)
      PROVE  n \in DOMAIN rollupBatches' /\ rollupBatches'[n].deadline = rollupBatches[n].deadline
  BY <1>2, ChallengeMarksOnly, StatusOnly
<1>3. ASSUME NEW k \in DOMAIN rollupBatches, FinalizeBatch(k)
      PROVE  n \in DOMAIN rollupBatches' /\ rollupBatches'[n].deadline = rollupBatches[n].deadline
  BY <1>3, StatusOnly DEF FinalizeBatch
<1>4. CASE UNCHANGED rollupBatches
  BY <1>4
<1> QED  BY <1>1, <1>2, <1>3, <1>4
         DEF RollupNext, rollupVars, RollupTick, SubmitRollup, SubmitZk, SubmitGivesUp, BatchTakes,
             BatchSequences, BatchRoots, BatchGivesUp, ChallengeInserts,
             ChallengeGivesUp, ChallengeChecks, storeVars

LEMMA ChallengeStep ==
    ASSUME BatchInv, ChallengesAdmitted, [RollupNext]_rollupVars
    PROVE  ChallengesAdmitted'
<1>0. /\ RollupTxs \cap ChallengeCalls = {} /\ BatchCalls \cap ChallengeCalls = {}
      /\ NoOne \notin ChallengeCalls /\ rollupAt \in [RollupCalls -> RollupLabels]
  BY RollupAssumption DEF BatchInv, RollupTyped
<1>1. CASE /\ \A c \in ChallengeCalls : rollupAt'[c] = rollupAt[c]
           /\ UNCHANGED <<challenges, challengesBy, admittedAt>>
  BY <1>1, DeadlinesKept DEF ChallengesAdmitted
<1>2. ASSUME NEW c \in ChallengeCalls,
             \/ ChallengeInserts(c) \/ ChallengeMarks(c) \/ ChallengeGivesUp(c)
             \/ \E n \in DOMAIN rollupBatches : ChallengeChecks(c, n)
      PROVE  ChallengesAdmitted'
  <2>1. CASE ChallengeInserts(c)
    <3>1. /\ rollupAt[c] = "insert" /\ challengesBy = NoOne /\ challengesBy' = c
          /\ challenges' = Put(challenges, admittedAt[c].batch, c)
          /\ rollupAt' = [rollupAt EXCEPT ![c] = "mark"] /\ UNCHANGED <<admittedAt, rollupBatches>>
      BY <2>1 DEF ChallengeInserts, RollupGoes, storeVars
    <3>2. ASSUME NEW d \in ChallengeCalls, rollupAt'[d] \in {"insert", "mark", "resolve"}
          PROVE  rollupAt[d] \in {"insert", "mark", "resolve"}
      BY <3>1, <3>2, <1>0 DEF RollupCalls
    <3>3. ASSUME NEW d \in ChallengeCalls, rollupAt'[d] \in {"mark", "resolve"}
          PROVE  d = c
      BY <3>1, <3>3, <1>0 DEF RollupCalls, ChallengesAdmitted
    <3>4. challenges'[admittedAt[c].batch] = c
      BY <3>1 DEF Put
    <3> QED  BY <3>1, <3>2, <3>3, <3>4 DEF ChallengesAdmitted
  <2>2. CASE ChallengeMarks(c)
    <3>1. /\ rollupAt[c] = "mark" /\ rollupAt' = [rollupAt EXCEPT ![c] = "resolve"]
          /\ UNCHANGED <<challenges, challengesBy, admittedAt>>
      BY <2>2 DEF ChallengeMarks, RollupGoes
    <3> QED  BY <3>1, <1>0, DeadlinesKept DEF ChallengesAdmitted, RollupCalls
  <2>3. CASE ChallengeGivesUp(c)
    <3>1. /\ rollupAt[c] \in {"insert", "mark", "resolve"}
          /\ rollupAt' = [rollupAt EXCEPT ![c] = "done"]
          /\ challengesBy' = IF challengesBy = c THEN NoOne ELSE challengesBy
          /\ UNCHANGED <<challenges, admittedAt, rollupBatches>>
      BY <2>3 DEF ChallengeGivesUp, RollupGoes, storeVars
    <3> QED  BY <3>1, <1>0 DEF ChallengesAdmitted, RollupCalls
  <2>4. ASSUME NEW n \in DOMAIN rollupBatches, ChallengeChecks(c, n)
        PROVE  ChallengesAdmitted'
    <3>1. /\ rollupAt[c] = "idle" /\ rollupTime <= rollupBatches[n].deadline
          /\ rollupAt' = [rollupAt EXCEPT ![c] = "insert"]
          /\ admittedAt' = Put(admittedAt, c, [time |-> rollupTime, batch |-> n])
          /\ UNCHANGED <<challenges, challengesBy, rollupBatches>>
      BY <2>4 DEF ChallengeChecks, InTime, RollupGoes, storeVars
    <3>2. /\ c \in DOMAIN admittedAt' /\ admittedAt'[c].time = rollupTime
          /\ admittedAt'[c].batch = n
          /\ \A d \in DOMAIN admittedAt :
                d \in DOMAIN admittedAt' /\ (d # c => admittedAt'[d] = admittedAt[d])
      BY <3>1 DEF Put
    <3>3. /\ rollupAt'[c] = "insert"
          /\ \A d \in ChallengeCalls : d # c => rollupAt'[d] = rollupAt[d]
      BY <3>1, <1>0 DEF RollupCalls
    <3> QED  BY <2>4, <3>1, <3>2, <3>3 DEF ChallengesAdmitted
  <2> QED  BY <1>2, <2>1, <2>2, <2>3, <2>4
<1>3. ASSUME NEW c \in RollupTxs \cup BatchCalls, NEW l, rollupAt' = [rollupAt EXCEPT ![c] = l],
             UNCHANGED <<challenges, challengesBy, admittedAt>>
      PROVE  ChallengesAdmitted'
  BY <1>0, <1>1, <1>3
<1>4. ASSUME NEW tx \in RollupTxs, SubmitRollup(tx) \/ SubmitZk(tx) \/ SubmitGivesUp(tx)
      PROVE  ChallengesAdmitted'
  BY <1>3, <1>4 DEF SubmitRollup, SubmitZk, SubmitGivesUp, RollupGoes, challengeVars
<1>5. ASSUME NEW b \in BatchCalls,
             \/ BatchTakes(b) \/ BatchSequences(b) \/ BatchStores(b)
             \/ BatchRoots(b) \/ BatchGivesUp(b)
      PROVE  ChallengesAdmitted'
  BY <1>3, <1>5 DEF BatchTakes, BatchSequences, BatchStores, BatchRoots, BatchGivesUp, RollupGoes,
                    challengeVars
<1>6. CASE UNCHANGED <<rollupAt, challenges, challengesBy, admittedAt>>
  BY <1>1, <1>6
<1> QED  BY <1>2, <1>4, <1>5, <1>6
         DEF RollupNext, rollupVars, RollupTick, FinalizeBatch, challengeVars

LEMMA FinalityStep ==
    ASSUME BatchInv, ChallengesAdmitted, RollupNext, NEW n \in DOMAIN rollupBatches
    PROVE  LET old == rollupBatches[n].status
               new == rollupBatches'[n].status
           IN  /\ old = "Challenged" => new = old
               /\ old # new => \/ old = "Submitted" /\ new = "Finalized"
                               \/ /\ new = "Challenged"
                                  /\ admittedAt[challenges[n]].time <= rollupBatches[n].deadline
<1>1. ASSUME NEW b \in BatchCalls, BatchStores(b)
      PROVE  rollupBatches'[n] = rollupBatches[n]
  BY <1>1, StoresBatch DEF BatchStores, Put
<1>2. CASE \E c \in ChallengeCalls : ChallengeMarks(c)
  <2>1. PICK c \in ChallengeCalls : ChallengeMarks(c)
    BY <1>2
  <2>2. PICK k \in DOMAIN rollupBatches :
           /\ challenges[k] = c /\ admittedAt[c].time <= rollupBatches[k].deadline
           /\ rollupBatches' = [rollupBatches EXCEPT ![k].status = "Challenged"]
    BY <2>1, ChallengeMarksOnly
  <2>3. rollupBatches'[n].status = IF n = k THEN "Challenged" ELSE rollupBatches[n].status
    BY <2>2, StatusOnly
  <2> QED  BY <2>2, <2>3
<1>3. CASE \E k \in DOMAIN rollupBatches : FinalizeBatch(k)
  <2>1. PICK k \in DOMAIN rollupBatches : FinalizeBatch(k)
    BY <1>3
  <2>2. /\ rollupBatches[k].status = "Submitted"
        /\ rollupBatches'[n].status = IF n = k THEN "Finalized" ELSE rollupBatches[n].status
    BY <2>1, StatusOnly DEF FinalizeBatch
  <2> QED  BY <2>2
<1>4. CASE rollupBatches'[n] = rollupBatches[n]
  BY <1>4
<1> QED  BY <1>1, <1>2, <1>3, <1>4
         DEF RollupNext, RollupTick, SubmitRollup, SubmitZk, SubmitGivesUp, BatchTakes,
             BatchSequences, BatchRoots, BatchGivesUp, ChallengeInserts,
             ChallengeGivesUp, ChallengeChecks, storeVars

-----------------------------------------------------------------------------
(* Families of sequences without an element at two places: what holds when  *)
(* one of them grows, is split in two or moves to another place.            *)
Apart(F) ==
    \A p, q \in DOMAIN F : \A i \in DOMAIN F[p], j \in DOMAIN F[q] :
        F[p][i] = F[q][j] => p = q /\ i = j
Within(F) == {x \in RollupTxs : \E p \in DOMAIN F : \E i \in DOMAIN F[p] : F[p][i] = x}

LEMMA GrowsApart ==
    ASSUME NEW F, NEW G, NEW p \in DOMAIN F, NEW x \in RollupTxs, F[p] \in Seq(RollupTxs),
           Apart(F), x \notin Within(F), DOMAIN G = DOMAIN F, G[p] = Append(F[p], x),
           \A q \in DOMAIN F : q # p => G[q] = F[q]
    PROVE  Apart(G) /\ Within(G) = Within(F) \cup {x}
<1>1. /\ Len(F[p]) \in Nat /\ DOMAIN F[p] = 1 .. Len(F[p])
      /\ DOMAIN G[p] = 1 .. (Len(F[p]) + 1)
      /\ \A i \in DOMAIN F[p] : G[p][i] = F[p][i]
      /\ G[p][Len(F[p]) + 1] = x
  BY AppendProperties
<1>2. \A q \in DOMAIN F : \A i \in DOMAIN F[q] : F[q][i] # x
  BY DEF Within
<1>3. ASSUME NEW q \in DOMAIN G, NEW i \in DOMAIN G[q]
      PROVE  \/ i \in DOMAIN F[q] /\ G[q][i] = F[q][i]
             \/ q = p /\ i = Len(F[p]) + 1 /\ G[q][i] = x
  BY <1>1, <1>3
<1>4. Apart(G)
  BY <1>2, <1>3 DEF Apart
<1>5. ASSUME NEW y \in Within(G) PROVE y \in Within(F) \cup {x}
  BY <1>3, <1>5 DEF Within
<1>6. x \in Within(G)
  BY <1>1 DEF Within
<1>7. ASSUME NEW y \in Within(F) PROVE y \in Within(G)
  <2>1. PICK q \in DOMAIN F : \E i \in DOMAIN F[q] : F[q][i] = y
    BY <1>7 DEF Within
  <2>2. \E i \in DOMAIN G[q] : G[q][i] = y
    BY <1>1, <2>1
  <2> QED  BY <1>7, <2>1, <2>2 DEF Within
<1> QED  BY <1>4, <1>5, <1>6, <1>7

LEMMA SplitsApart ==
    ASSUME NEW F, NEW G, NEW p \in DOMAIN F, F[p] \in Seq(RollupTxs), NEW n \in 1 .. Len(F[p]),
           NEW q, q \notin DOMAIN F, Apart(F), DOMAIN G = DOMAIN F \cup {q},
           G[q] = SubSeq(F[p], 1, n), G[p] = SubSeq(F[p], n + 1, Len(F[p])),
           \A r \in DOMAIN F : r # p => G[r] = F[r]
    PROVE  Apart(G) /\ Within(G) = Within(F)
<1>1. /\ Len(F[p]) \in Nat /\ DOMAIN F[p] = 1 .. Len(F[p]) /\ n \in Nat /\ n <= Len(F[p])
      /\ DOMAIN G[q] = 1 .. n /\ \A i \in 1 .. n : G[q][i] = F[p][i]
      /\ DOMAIN G[p] = 1 .. (Len(F[p]) - n)
      /\ \A i \in 1 .. (Len(F[p]) - n) : G[p][i] = F[p][i + n]
  OBVIOUS
(* where what lies at r and i in G lay in F *)
<1> DEFINE home(r) == IF r = q THEN p ELSE r
           place(r, i) == IF r = p THEN i + n ELSE i
<1>2. ASSUME NEW r \in DOMAIN G, NEW i \in DOMAIN G[r]
      PROVE  /\ home(r) \in DOMAIN F /\ place(r, i) \in DOMAIN F[home(r)]
             /\ G[r][i] = F[home(r)][place(r, i)]
  <2>1. CASE r = q
    <3>1. home(r) = p /\ place(r, i) = i /\ i \in 1 .. n
      BY <1>1, <1>2, <2>1
    <3> HIDE DEF home, place
    <3> QED  BY <1>1, <2>1, <3>1
  <2>2. CASE r = p
    <3>1. home(r) = p /\ place(r, i) = i + n /\ i \in 1 .. (Len(F[p]) - n)
      BY <1>1, <1>2, <2>2
    <3> HIDE DEF home, place
    <3> QED  BY <1>1, <2>2, <3>1
  <2>3. CASE r # q /\ r # p
    BY <1>2, <2>3
  <2> QED  BY <2>1, <2>2, <2>3
<1>3. ASSUME NEW r \in DOMAIN G, NEW s \in DOMAIN G, NEW i \in DOMAIN G[r], NEW j \in DOMAIN G[s],
             G[r][i] = G[s][j]
      PROVE  r = s /\ i = j
  <2>1. home(r) = home(s) /\ place(r, i) = place(s, j)
    <3> HIDE DEF home, place
    <3> QED  BY <1>2, <1>3 DEF Apart
  <2>2. CASE r = q /\ s = p
    BY <1>1, <2>1, <2>2
  <2>3. CASE r = p /\ s = q
    BY <1>1, <2>1, <2>3
  <2>4. CASE ~(r = q /\ s = p) /\ ~(r = p /\ s = q)
    <3>1. r = s
      BY <2>1, <2>4
    <3>2. CASE r = p
      BY <1>1, <2>1, <3>1, <3>2
    <3>3. CASE r # p
      BY <2>1, <3>1, <3>3
    <3> QED  BY <3>1, <3>2, <3>3
  <2> QED  BY <2>2, <2>3, <2>4
<1>4. Apart(G)
  BY <1>3 DEF Apart
<1>5. ASSUME NEW x \in Within(G) PROVE x \in Within(F)
  <2> HIDE DEF home, place
  <2> QED  BY <1>2, <1>5 DEF Within
<1>6. ASSUME NEW x \in Within(F) PROVE x \in Within(G)
  <2>0. PICK r \in DOMAIN F : \E i \in DOMAIN F[r] : F[r][i] = x
    BY <1>6 DEF Within
  <2>1. PICK i \in DOMAIN F[r] : F[r][i] = x
    BY <2>0
  <2>2. CASE r # p
    BY <1>6, <2>1, <2>2 DEF Within
  <2>3. CASE r = p /\ i <= n
    <3>1. i \in DOMAIN G[q] /\ G[q][i] = x
      BY <1>1, <2>1, <2>3
    <3> QED  BY <1>6, <3>1 DEF Within
  <2>4. CASE r = p /\ ~(i <= n)
    <3>1. i - n \in DOMAIN G[p] /\ G[p][i - n] = x
      BY <1>1, <2>1, <2>4
    <3> QED  BY <1>6, <3>1 DEF Within
  <2> QED  BY <2>2, <2>3, <2>4
<1> QED  BY <1>4, <1>5, <1>6

LEMMA MovesApart ==
    ASSUME NEW F, NEW G, NEW p \in DOMAIN F, NEW q, q \notin DOMAIN F, Apart(F),
           DOMAIN G = (DOMAIN F \ {p}) \cup {q}, G[q] = F[p],
           \A r \in DOMAIN F \ {p} : G[r] = F[r]
    PROVE  Apart(G) /\ Within(G) = Within(F)
<1> DEFINE home(r) == IF r = q THEN p ELSE r
<1>1. \A r \in DOMAIN G : home(r) \in DOMAIN F /\ G[r] = F[home(r)]
  OBVIOUS
<1>2. \A r, s \in DOMAIN G : home(r) = home(s) => r = s
  OBVIOUS
<1>3. \A r \in DOMAIN F : \E s \in DOMAIN G : F[r] = G[s]
  OBVIOUS
<1> HIDE DEF home
<1>4. Apart(G)
  <2>1. ASSUME NEW r \in DOMAIN G, NEW s \in DOMAIN G, NEW i \in DOMAIN G[r], NEW j \in DOMAIN G[s],
               G[r][i] = G[s][j]
        PROVE  r = s /\ i = j
    <3>1. /\ home(r) \in DOMAIN F /\ home(s) \in DOMAIN F
          /\ i \in DOMAIN F[home(r)] /\ j \in DOMAIN F[home(s)]
          /\ F[home(r)][i] = F[home(s)][j]
      BY <1>1, <2>1
    <3>2. home(r) = home(s) /\ i = j
      BY <3>1 DEF Apart
    <3> QED  BY <1>2, <3>2
  <2> QED  BY <2>1 DEF Apart
<1>5. ASSUME NEW x \in RollupTxs PROVE x \in Within(G) <=> x \in Within(F)
  BY <1>1, <1>3 DEF Within
<1> QED  BY <1>4, <1>5 DEF Within

(* The places, one by one. *)
PlacesKnown ==
    /\ DOMAIN Contents = Places
    /\ <<"pending", 0>> \in Places /\ Contents[<<"pending", 0>>] = rollupPending
    /\ <<"instant", 0>> \in Places /\ Contents[<<"instant", 0>>] = zkPending
    /\ \A b : <<"taken", b>> \in Places <=> b \in DOMAIN taken
    /\ \A b \in DOMAIN taken : Contents[<<"taken", b>>] = taken[b]
    /\ \A b : <<"sequenced", b>> \in Places <=> b \in Unstored
    /\ \A b \in Unstored : Contents[<<"sequenced", b>>] = sequenced[b].txs
    /\ \A n : <<"stored", n>> \in Places <=> n \in DOMAIN rollupBatches
    /\ \A n \in DOMAIN rollupBatches : Contents[<<"stored", n>>] = rollupBatches[n].txs
    /\ \A p \in Places : \/ p = <<"pending", 0>> \/ p = <<"instant", 0>>
                         \/ \E b \in DOMAIN taken : p = <<"taken", b>>
                         \/ \E b \in Unstored : p = <<"sequenced", b>>
                         \/ \E n \in DOMAIN rollupBatches : p = <<"stored", n>>

LEMMA PlacesAre == PlacesKnown
<1>1. DOMAIN Contents = Places
  BY DEF Contents
<1>2. /\ <<"pending", 0>> \in Places /\ <<"instant", 0>> \in Places
      /\ \A b : <<"taken", b>> \in Places <=> b \in DOMAIN taken
      /\ \A b : <<"sequenced", b>> \in Places <=> b \in Unstored
      /\ \A n : <<"stored", n>> \in Places <=> n \in DOMAIN rollupBatches
  BY DEF Places
<1>3. /\ Contents[<<"pending", 0>>] = rollupPending
      /\ Contents[<<"instant", 0>>] = zkPending
      /\ \A b \in DOMAIN taken : Contents[<<"taken", b>>] = taken[b]
      /\ \A b \in Unstored : Contents[<<"sequenced", b>>] = sequenced[b].txs
      /\ \A n \in DOMAIN rollupBatches : Contents[<<"stored", n>>] = rollupBatches[n].txs
  BY <1>2 DEF Contents
<1>4. \A p \in Places : \/ p = <<"pending", 0>> \/ p = <<"instant", 0>>
                        \/ \E b \in DOMAIN taken : p = <<"taken", b>>
                        \/ \E b \in Unstored : p = <<"sequenced", b>>
                        \/ \E n \in DOMAIN rollupBatches : p = <<"stored", n>>
  BY DEF Places
<1> QED  BY <1>1, <1>2, <1>3, <1>4 DEF PlacesKnown

Submitted == {tx \in RollupTxs : rollupAt[tx] # "idle"}
OnePlace == Apart(Contents) /\ Within(Contents) = Submitted

LEMMA PlacesSame ==
    ASSUME OnePlace, UNCHANGED <<rollupPending, zkPending, taken>>, Unstored' = Unstored,
           \A b \in Unstored : sequenced'[b] = sequenced[b],
           DOMAIN rollupBatches' = DOMAIN rollupBatches,
           \A n \in DOMAIN rollupBatches : rollupBatches'[n].txs = rollupBatches[n].txs,
           \A tx \in RollupTxs : rollupAt'[tx] = "idle" <=> rollupAt[tx] = "idle"
    PROVE  OnePlace'
<1>1. PlacesKnown /\ PlacesKnown'
  BY PlacesAre, PTL
<1>2. Places' = Places
  BY DEF Places
<1>3. \A p \in Places : Contents'[p] = Contents[p]
  BY <1>1, <1>2 DEF PlacesKnown
<1>4. DOMAIN Contents' = Places /\ DOMAIN Contents = Places
  BY <1>1, <1>2 DEF PlacesKnown
<1>5. Submitted' = Submitted
  BY DEF Submitted
<1>6. Apart(Contents')
  BY <1>3, <1>4 DEF Apart, OnePlace
<1>7. Within(Contents') = Within(Contents)
  BY <1>3, <1>4 DEF Within
<1> QED  BY <1>5, <1>6, <1>7 DEF OnePlace

LEMMA PlacesElsewhere ==
    ASSUME UNCHANGED <<taken, sequenced, rollupBatches>>, NEW q \in Places,
           q # <<"pending", 0>>, q # <<"instant", 0>>
    PROVE  Contents'[q] = Contents[q]
<1>1. PlacesKnown /\ PlacesKnown'
  BY PlacesAre, PTL
<1>2. Unstored' = Unstored
  BY DEF Unstored
<1>3. CASE \E b \in DOMAIN taken : q = <<"taken", b>>
  BY <1>1, <1>3 DEF PlacesKnown
<1>4. CASE \E b \in Unstored : q = <<"sequenced", b>>
  <2>1. PICK b \in Unstored : q = <<"sequenced", b>>
    BY <1>4
  <2>2. Contents'[q] = sequenced'[b].txs /\ Contents[q] = sequenced[b].txs
    BY <1>1, <1>2, <2>1 DEF PlacesKnown
  <2> QED  BY <2>2
<1>5. CASE \E n \in DOMAIN rollupBatches : q = <<"stored", n>>
  BY <1>1, <1>5 DEF PlacesKnown
<1> QED  BY <1>1, <1>3, <1>4, <1>5 DEF PlacesKnown

LEMMA PlacesGrow ==
    ASSUME BatchInv, OnePlace, NEW tx \in RollupTxs, SubmitRollup(tx) \/ SubmitZk(tx)
    PROVE  OnePlace'
<1>1. PlacesKnown /\ PlacesKnown'
  BY PlacesAre, PTL
<1>2. UNCHANGED <<taken, sequenced, rollupBatches>> /\ Unstored' = Unstored
  BY DEF SubmitRollup, SubmitZk, batchVars, storeVars, Unstored
<1>3. Places' = Places
  BY <1>2 DEF Places
<1>4. tx \notin Within(Contents) /\ Submitted' = Submitted \cup {tx}
  <2>1. \E l \in {"done", "stuck"} : rollupAt' = [rollupAt EXCEPT ![tx] = l]
    BY DEF SubmitRollup, SubmitZk, RollupGoes
  <2>2. rollupAt[tx] = "idle"
    BY DEF SubmitRollup, SubmitZk
  <2> QED  BY <2>1, <2>2 DEF OnePlace, Submitted, BatchInv, RollupTyped, RollupCalls
<1>5. ASSUME NEW p \in {<<"pending", 0>>, <<"instant", 0>>},
             Contents[p] \in Seq(RollupTxs), Contents'[p] = Append(Contents[p], tx),
             \A q \in Places : q # p => Contents'[q] = Contents[q]
      PROVE  OnePlace'
  <2>1. p \in DOMAIN Contents /\ DOMAIN Contents = Places /\ DOMAIN Contents' = Places
    BY <1>1, <1>3 DEF PlacesKnown
  <2>2. Apart(Contents') /\ Within(Contents') = Within(Contents) \cup {tx}
    BY <1>4, <1>5, <2>1, GrowsApart DEF OnePlace
  <2> QED  BY <1>4, <2>2 DEF OnePlace
<1>6. CASE SubmitRollup(tx)
  <2>1. rollupPending' = Append(rollupPending, tx) /\ zkPending' = zkPending
    BY <1>6 DEF SubmitRollup
  <2>2. Contents[<<"pending", 0>>] \in Seq(RollupTxs)
    BY <1>1 DEF PlacesKnown, BatchInv, RollupTyped, TxSeq
  <2>3. Contents'[<<"pending", 0>>] = Append(Contents[<<"pending", 0>>], tx)
    BY <1>1, <2>1 DEF PlacesKnown
  <2>4. ASSUME NEW q \in Places, q # <<"pending", 0>> PROVE Contents'[q] = Contents[q]
    <3>1. CASE q = <<"instant", 0>>
      BY <1>1, <2>1, <3>1 DEF PlacesKnown
    <3>2. CASE q # <<"instant", 0>>
      BY <1>2, <2>4, <3>2, PlacesElsewhere
    <3> QED  BY <3>1, <3>2
  <2> QED  BY <1>5, <2>2, <2>3, <2>4
<1>7. CASE SubmitZk(tx)
  <2>1. zkPending' = Append(zkPending, tx) /\ rollupPending' = rollupPending
    BY <1>7 DEF SubmitZk
  <2>2. Contents[<<"instant", 0>>] \in Seq(RollupTxs)
    BY <1>1 DEF PlacesKnown, BatchInv, RollupTyped, TxSeq
  <2>3. Contents'[<<"instant", 0>>] = Append(Contents[<<"instant", 0>>], tx)
    BY <1>1, <2>1 DEF PlacesKnown
  <2>4. ASSUME NEW q \in Places, q # <<"instant", 0>> PROVE Contents'[q] = Contents[q]
    <3>1. CASE q = <<"pending", 0>>
      BY <1>1, <2>1, <3>1 DEF PlacesKnown
    <3>2. CASE q # <<"pending", 0>>
      BY <1>2, <2>4, <3>2, PlacesElsewhere
    <3> QED  BY <3>1, <3>2
  <2> QED  BY <1>5, <2>2, <2>3, <2>4
<1> QED  BY <1>6, <1>7

LEMMA PlacesSplit ==
    ASSUME BatchInv, OnePlace, NEW b \in BatchCalls, BatchTakes(b)
    PROVE  OnePlace'
<1>1. PlacesKnown /\ PlacesKnown'
  BY PlacesAre, PTL
<1>2. UNCHANGED <<zkPending, sequenced, rollupBatches>> /\ Unstored' = Unstored
  BY DEF BatchTakes, storeVars, Unstored
<1>3. PICK n \in 1 .. Len(rollupPending) :
         /\ taken' = Put(taken, b, SubSeq(rollupPending, 1, n))
         /\ rollupPending' = SubSeq(rollupPending, n + 1, Len(rollupPending))
  BY TakesBatch
<1> DEFINE p == <<"pending", 0>>
           q == <<"taken", b>>
<1>4. b \notin DOMAIN taken /\ Submitted' = Submitted
  <2>1. rollupAt[b] = "idle" /\ rollupAt' = [rollupAt EXCEPT ![b] = "sequence"]
    BY DEF BatchTakes, RollupGoes
  <2>2. b \notin RollupTxs
    BY RollupAssumption
  <2> QED  BY <2>1, <2>2 DEF Submitted, BatchInv, CallsHold, RollupTyped, RollupCalls
<1>5. /\ p \in DOMAIN Contents /\ q \notin DOMAIN Contents
      /\ Contents[p] = rollupPending /\ Contents[p] \in Seq(RollupTxs)
  BY <1>1, <1>4 DEF PlacesKnown, BatchInv, RollupTyped, TxSeq
<1>6. DOMAIN taken' = DOMAIN taken \cup {b} /\ taken'[b] = SubSeq(rollupPending, 1, n)
      /\ \A x \in DOMAIN taken : taken'[x] = taken[x]
  BY <1>3, <1>4 DEF Put
<1>7. DOMAIN Contents' = DOMAIN Contents \cup {q}
  <2>1. Places' = Places \cup {q}
    BY <1>2, <1>6 DEF Places
  <2> QED  BY <1>1, <2>1 DEF PlacesKnown
<1>8. /\ Contents'[q] = SubSeq(Contents[p], 1, n)
      /\ Contents'[p] = SubSeq(Contents[p], n + 1, Len(Contents[p]))
  BY <1>1, <1>3, <1>5, <1>6 DEF PlacesKnown
<1>9. ASSUME NEW r \in DOMAIN Contents, r # p PROVE Contents'[r] = Contents[r]
  <2>1. r \in Places
    BY <1>1 DEF PlacesKnown
  <2>2. CASE r = <<"instant", 0>>
    BY <1>1, <1>2, <2>2 DEF PlacesKnown
  <2>3. CASE \E x \in DOMAIN taken : r = <<"taken", x>>
    <3>1. PICK x \in DOMAIN taken : r = <<"taken", x>>
      BY <2>3
    <3>2. x \in DOMAIN taken' /\ taken'[x] = taken[x]
      BY <1>6
    <3> QED  BY <1>1, <3>1, <3>2 DEF PlacesKnown
  <2>4. CASE \/ \E x \in Unstored : r = <<"sequenced", x>>
             \/ \E x \in DOMAIN rollupBatches : r = <<"stored", x>>
    BY <1>1, <1>2, <2>4 DEF PlacesKnown
  <2> QED  BY <1>1, <1>9, <2>1, <2>2, <2>3, <2>4 DEF PlacesKnown
<1> HIDE DEF p, q
<1>10. Apart(Contents') /\ Within(Contents') = Within(Contents)
  BY <1>3, <1>5, <1>7, <1>8, <1>9, SplitsApart DEF OnePlace
<1> QED  BY <1>4, <1>10 DEF OnePlace

LEMMA PlacesMove ==
    ASSUME BatchInv, OnePlace, NEW b \in BatchCalls, BatchSequences(b) \/ BatchStores(b)
    PROVE  OnePlace'
<1>1. PlacesKnown /\ PlacesKnown'
  BY PlacesAre, PTL
<1>2. Submitted' = Submitted
  <2>1. \E l \in RollupLabels : rollupAt' = [rollupAt EXCEPT ![b] = l]
    BY DEF BatchSequences, BatchStores, RollupGoes, RollupLabels
  <2>2. b \notin RollupTxs
    BY RollupAssumption
  <2> QED  BY <2>1, <2>2 DEF Submitted
<1>3. ASSUME NEW p \in DOMAIN Contents, NEW q, q \notin DOMAIN Contents,
             Places' = (Places \ {p}) \cup {q}, Contents'[q] = Contents[p],
             \A r \in DOMAIN Contents \ {p} : Contents'[r] = Contents[r]
      PROVE  OnePlace'
  <2>1. DOMAIN Contents' = (DOMAIN Contents \ {p}) \cup {q}
    BY <1>1, <1>3 DEF PlacesKnown
  <2>2. Apart(Contents') /\ Within(Contents') = Within(Contents)
    BY <1>3, <2>1, MovesApart DEF OnePlace
  <2> QED  BY <1>2, <2>2 DEF OnePlace
<1>4. CASE BatchSequences(b)
  <2> DEFINE p == <<"taken", b>>
             q == <<"sequenced", b>>
  <2>1. /\ rollupAt[b] = "sequence" /\ taken' = Drop(taken, b)
        /\ \E s : s.txs = taken[b] /\ sequenced' = Put(sequenced, b, s)
        /\ UNCHANGED <<rollupPending, zkPending, rollupBatches>>
    <3> DEFINE s == [number |-> nextBatchId, txs |-> taken[b], prev |-> currentRoot,
                     root |-> ComputeStateRoot(taken[b], currentRoot),
                     deadline |-> rollupTime + ChallengePeriod]
    <3>1. s.txs = taken[b] /\ sequenced' = Put(sequenced, b, s)
      BY <1>4 DEF BatchSequences
    <3> HIDE DEF s
    <3> QED  BY <1>4, <3>1 DEF BatchSequences, submitVars, storeVars
  <2>2. /\ b \in DOMAIN taken /\ b \notin DOMAIN sequenced
        /\ b \notin Unstored /\ Unstored' = Unstored \cup {b}
    BY <1>4, SequencesBatch DEF Unstored
  <2>3. /\ DOMAIN taken' = DOMAIN taken \ {b}
        /\ \A x \in DOMAIN taken' : taken'[x] = taken[x]
        /\ sequenced'[b].txs = taken[b]
        /\ \A x \in Unstored : sequenced'[x] = sequenced[x]
    BY <2>1, <2>2 DEF Put, Drop, Unstored
  <2>4. p \in DOMAIN Contents /\ q \notin DOMAIN Contents /\ Places' = (Places \ {p}) \cup {q}
    BY <1>1, <2>1, <2>2, <2>3 DEF PlacesKnown, Places
  <2>5. Contents'[q] = Contents[p]
    BY <1>1, <2>2, <2>3 DEF PlacesKnown
  <2>6. ASSUME NEW r \in DOMAIN Contents \ {p} PROVE Contents'[r] = Contents[r]
    BY <1>1, <2>1, <2>2, <2>3, <2>6 DEF PlacesKnown
  <2> HIDE DEF p, q
  <2> QED  BY <1>3, <2>4, <2>5, <2>6
<1>5. CASE BatchStores(b)
  <2> DEFINE k == sequenced[b].number
             p == <<"sequenced", b>>
             q == <<"stored", k>>
  <2>1. /\ \E s : s.txs = sequenced[b].txs /\ rollupBatches' = Put(rollupBatches, k, s)
        /\ UNCHANGED <<rollupPending, zkPending, taken, sequenced>>
    <3> DEFINE s == [txs |-> sequenced[b].txs, prev |-> sequenced[b].prev,
                     root |-> sequenced[b].root, status |-> "Submitted",
                     deadline |-> sequenced[b].deadline]
    <3>1. s.txs = sequenced[b].txs /\ rollupBatches' = Put(rollupBatches, k, s)
      BY <1>5 DEF BatchStores
    <3> HIDE DEF s
    <3> QED  BY <1>5, <3>1 DEF BatchStores, submitVars, batchVars
  <2>2. b \in Unstored /\ Unstored' = Unstored \ {b} /\ k \notin DOMAIN rollupBatches
    BY <1>5, StoresBatch
  <2> HIDE DEF k
  <2>3. /\ DOMAIN rollupBatches' = DOMAIN rollupBatches \cup {k}
        /\ rollupBatches'[k].txs = sequenced[b].txs
        /\ \A x \in DOMAIN rollupBatches : rollupBatches'[x] = rollupBatches[x]
    BY <2>1, <2>2 DEF Put
  <2>4. p \in DOMAIN Contents /\ q \notin DOMAIN Contents /\ Places' = (Places \ {p}) \cup {q}
    BY <1>1, <2>1, <2>2, <2>3 DEF PlacesKnown, Places
  <2>5. Contents'[q] = Contents[p]
    BY <1>1, <2>2, <2>3 DEF PlacesKnown
  <2>6. ASSUME NEW r \in DOMAIN Contents \ {p} PROVE Contents'[r] = Contents[r]
    BY <1>1, <2>1, <2>2, <2>3, <2>6 DEF PlacesKnown
  <2> HIDE DEF p, q
  <2> QED  BY <1>3, <2>4, <2>5, <2>6
<1> QED  BY <1>4, <1>5

LEMMA PlacesStep ==
    ASSUME BatchInv, ChallengesAdmitted, OnePlace, [RollupNext]_rollupVars
    PROVE  OnePlace'
<1>0. rollupAt \in [RollupCalls -> RollupLabels]
  BY DEF BatchInv, RollupTyped
<1>1. CASE UNCHANGED <<rollupAt, rollupPending, zkPending, taken, sequenced, rollupBatches>>
  BY <1>1, PlacesSame DEF Unstored
<1>2. ASSUME NEW tx \in RollupTxs, SubmitGivesUp(tx) PROVE OnePlace'
  <2>1. /\ rollupAt[tx] = "stuck" /\ rollupAt' = [rollupAt EXCEPT ![tx] = "done"]
        /\ UNCHANGED <<rollupPending, zkPending, taken, sequenced, rollupBatches>>
    BY <1>2 DEF SubmitGivesUp, RollupGoes, batchVars, storeVars
  <2>2. \A x \in RollupTxs : rollupAt'[x] = "idle" <=> rollupAt[x] = "idle"
    BY <1>0, <2>1 DEF RollupCalls
  <2> QED  BY <2>1, <2>2, PlacesSame DEF Unstored
<1>3. ASSUME NEW c \in ChallengeCalls,
             \/ ChallengeInserts(c) \/ ChallengeMarks(c) \/ ChallengeGivesUp(c)
             \/ \E n \in DOMAIN rollupBatches : ChallengeChecks(c, n)
      PROVE  OnePlace'
  <2>1. UNCHANGED <<rollupPending, zkPending, taken, sequenced>>
    BY <1>3 DEF ChallengeInserts, ChallengeMarks, ChallengeGivesUp, ChallengeChecks, submitVars,
                batchVars
  <2>2. \E l \in RollupLabels : rollupAt' = [rollupAt EXCEPT ![c] = l]
    BY <1>3 DEF ChallengeInserts, ChallengeMarks, ChallengeGivesUp, ChallengeChecks, RollupGoes,
                RollupLabels
  <2>3. \A x \in RollupTxs : rollupAt'[x] = rollupAt[x]
    BY <2>2, RollupAssumption
  <2>4. CASE ChallengeMarks(c)
    <3>1. PICK k \in DOMAIN rollupBatches :
             rollupBatches' = [rollupBatches EXCEPT ![k].status = "Challenged"]
      BY <2>4, ChallengeMarksOnly
    <3>2. DOMAIN rollupBatches' = DOMAIN rollupBatches /\ Unstored' = Unstored
      BY <2>1, <3>1 DEF Unstored
    <3> QED  BY <2>1, <2>3, <3>1, <3>2, StatusOnly, PlacesSame
  <2>5. CASE ~ChallengeMarks(c)
    <3>1. UNCHANGED rollupBatches
      BY <1>3, <2>5 DEF ChallengeInserts, ChallengeGivesUp, ChallengeChecks, storeVars
    <3> QED  BY <2>1, <2>3, <3>1, PlacesSame DEF Unstored
  <2> QED  BY <2>4, <2>5
<1>4. ASSUME NEW n \in DOMAIN rollupBatches, FinalizeBatch(n) PROVE OnePlace'
  <2>1. /\ UNCHANGED <<rollupAt, rollupPending, zkPending, taken, sequenced>>
        /\ rollupBatches' = [rollupBatches EXCEPT ![n].status = "Finalized"]
    BY <1>4 DEF FinalizeBatch, submitVars, batchVars
  <2>2. DOMAIN rollupBatches' = DOMAIN rollupBatches /\ Unstored' = Unstored
    BY <2>1 DEF Unstored
  <2> QED  BY <2>1, <2>2, StatusOnly, PlacesSame
<1>5. CASE RollupTick
  BY <1>1, <1>5 DEF RollupTick, submitVars, batchVars, storeVars
<1>6. ASSUME NEW b \in BatchCalls, BatchRoots(b) \/ BatchGivesUp(b) PROVE OnePlace'
  <2>1. UNCHANGED <<rollupPending, zkPending, taken, rollupBatches>>
    BY <1>6 DEF BatchRoots, BatchGivesUp, submitVars, storeVars
  <2>2. Unstored' = Unstored /\ \A c \in Unstored : sequenced'[c] = sequenced[c]
    BY <1>6, RootsBatch, DropsBatch DEF BatchGivesUp
  <2>3. \A x \in RollupTxs : rollupAt'[x] = rollupAt[x]
    <3>1. \E l \in RollupLabels : rollupAt' = [rollupAt EXCEPT ![b] = l]
      BY <1>6 DEF BatchRoots, BatchGivesUp, RollupGoes, RollupLabels
    <3> QED  BY <3>1, RollupAssumption
  <2> QED  BY <2>1, <2>2, <2>3, PlacesSame
<1> QED  BY <1>1, <1>2, <1>3, <1>4, <1>5, <1>6, PlacesGrow, PlacesSplit, PlacesMove
         DEF RollupNext, rollupVars

RollupSpec == RollupInit /\ [][RollupNext]_rollupVars
RollupInv == BatchInv /\ ChallengesAdmitted /\ OnePlace

(* RollupAlwaysSound: for any set of transactions, any calls of             *)
(* create_batch and of challenge_state_root and any batch size, the batches *)
(* that optimistic_rollup.rs numbers are one chain of roots; one that is    *)
(* not stored, has no root or holds a transaction that is nowhere else is   *)
(* with a call that is under way or was dropped; and what is final stays so *)
(* but for a challenge that was admitted in time.                           *)
THEOREM RollupAlwaysSound == RollupSpec => RollupSound
<1>1. RollupInit => RollupInv
  <2> SUFFICES ASSUME RollupInit PROVE OnePlace
    BY RollupInitInv DEF RollupInv
  <2>1. PlacesKnown
    BY PlacesAre
  <2>2. \A p \in Places : Contents[p] = << >>
    <3>1. DOMAIN taken = {} /\ Unstored = {} /\ DOMAIN rollupBatches = {}
      BY DEF RollupInit, Unstored
    <3> QED  BY <2>1, <3>1 DEF PlacesKnown, RollupInit
  <2>3. \A p \in DOMAIN Contents : DOMAIN Contents[p] = {}
    BY <2>1, <2>2 DEF PlacesKnown
  <2>4. Submitted = {}
    BY DEF Submitted, RollupInit
  <2> QED  BY <2>3, <2>4 DEF OnePlace, Apart, Within
<1>2. RollupInv /\ [RollupNext]_rollupVars => RollupInv'
  BY BatchStep, ChallengeStep, PlacesStep DEF RollupInv
<1>3. RollupInv => RootsChain
  <2> SUFFICES ASSUME RollupInv PROVE RootsChain
    OBVIOUS
  <2>1. \A b \in Unstored : rollupAt[b] \in {"store", "dropped"}
    BY DEF RollupInv, BatchInv, CallsHold, Unstored
  <2> QED  BY <2>1 DEF RollupInv, BatchInv, LinksFollow, RootsStored, RootsChain
<1>4. RollupInv => TransactionsKept
  <2> SUFFICES ASSUME RollupInv PROVE TransactionsKept
    OBVIOUS
  <2>1. PlacesKnown
    BY PlacesAre
  <2>2. \A p, q \in Places : \A i \in DOMAIN Contents[p], j \in DOMAIN Contents[q] :
           Contents[p][i] = Contents[q][j] => p = q /\ i = j
    BY <2>1 DEF RollupInv, OnePlace, Apart, PlacesKnown
  <2>3. ASSUME NEW p \in Places PROVE Contents[p] \in Seq(RollupTxs)
    <3>1. /\ rollupPending \in TxSeq /\ zkPending \in TxSeq
          /\ \A b \in DOMAIN taken : taken[b] \in TxSeq
          /\ \A b \in Unstored : sequenced[b].txs \in TxSeq
          /\ \A n \in DOMAIN rollupBatches : rollupBatches[n].txs \in TxSeq
      BY DEF RollupInv, BatchInv, RollupTyped, StoredBatch, NumberedBatch, Unstored
    <3>2. Contents[p] \in TxSeq
      BY <2>1, <2>3, <3>1 DEF PlacesKnown
    <3> QED  BY <3>2 DEF TxSeq
  <2>4. ASSUME NEW x PROVE x \in UNION {Range(Contents[p]) : p \in Places} <=> x \in Within(Contents)
    <3>1. x \in UNION {Range(Contents[p]) : p \in Places}
             <=> \E p \in Places : \E i \in DOMAIN Contents[p] : Contents[p][i] = x
      BY DEF Range
    <3>2. \A p \in Places : \A i \in DOMAIN Contents[p] : Contents[p][i] \in RollupTxs
      BY <2>3
    <3> QED  BY <2>1, <3>1, <3>2 DEF Within, PlacesKnown
  <2>5. \A b \in DOMAIN taken : rollupAt[b] \in {"sequence", "dropped"}
    BY DEF RollupInv, BatchInv, CallsHold
  <2> QED  BY <2>2, <2>4, <2>5 DEF TransactionsKept, RollupInv, OnePlace, Submitted
<1>5. RollupInv /\ [RollupNext]_rollupVars =>
         [\A n \in DOMAIN rollupBatches :
             LET old == rollupBatches[n].status
                 new == rollupBatches'[n].status
             IN  /\ old = "Challenged" => new = old
                 /\ old # new => \/ old = "Submitted" /\ new = "Finalized"
                                 \/ /\ new = "Challenged"
                                    /\ admittedAt[challenges[n]].time <= rollupBatches[n].deadline
         ]_rollupVars
  BY FinalityStep DEF RollupInv
<1> QED  BY <1>1, <1>2, <1>3, <1>4, <1>5, PTL DEF RollupSpec, RollupSound, FinalityHolds
-----------------------------------------------------------------------------
(* Executor, for any accounts, workers and blocks *)

(* What a pass over the block finds processed, position by position. *)
Found(b, p, seen) ==
    seen = [i \in 0 .. Len(b) |->
               IF i = 0 THEN p
               ELSE IF Deps(b, i) \subseteq seen[i - 1] THEN seen[i - 1] \cup {i}
               ELSE seen[i - 1]]

LEMMA PassFinds ==
    ASSUME NEW b, Len(b) \in Nat, NEW p \in SUBSET (1 .. Len(b))
    PROVE  \E g \in [0 .. Len(b) -> SUBSET (1 .. Len(b))] : Found(b, p, g) /\ Pass(b, p) = g[Len(b)]
<1> DEFINE m == Len(b)
           T == SUBSET (1 .. m)
           F == [i \in 1 .. m |-> [x \in T |-> IF Deps(b, i) \subseteq x THEN x \cup {i} ELSE x]]
           G == CHOOSE g : Found(b, p, g)
<1>1. \A i \in 1 .. m : \A x \in T : F[i][x] \in T
  OBVIOUS
<1>2. PICK g \in [0 .. m -> T] : StepsTo(g, p, F, m)
  <2> HIDE DEF F
  <2> QED  BY <1>1, StepsExist
<1>3. ASSUME NEW i \in 0 .. m
      PROVE  g[i] = IF i = 0 THEN p
                    ELSE IF Deps(b, i) \subseteq g[i - 1] THEN g[i - 1] \cup {i} ELSE g[i - 1]
  <2>1. CASE i = 0
    BY <1>2, <2>1 DEF StepsTo
  <2>2. CASE i # 0
    <3>1. i \in 1 .. m /\ i - 1 \in 0 .. m
      BY <2>2
    <3>2. g[i] = F[i][g[i - 1]] /\ g[i - 1] \in T
      BY <1>2, <2>2, <3>1 DEF StepsTo
    <3>3. F[i][g[i - 1]] = IF Deps(b, i) \subseteq g[i - 1] THEN g[i - 1] \cup {i} ELSE g[i - 1]
      BY <3>1, <3>2
    <3> QED  BY <2>2, <3>2, <3>3
  <2> QED  BY <2>1, <2>2
<1>4. Found(b, p, g)
  BY <1>2, <1>3 DEF Found
<1>5. Found(b, p, G)
  BY <1>4
<1>6. Pass(b, p) = G[m]
  BY DEF Pass, Found
<1> HIDE DEF F, G
<1>7. /\ G = [i \in 0 .. m |-> G[i]]
      /\ \A i \in 0 .. m : G[i] = IF i = 0 THEN p
               ELSE IF Deps(b, i) \subseteq G[i - 1] THEN G[i - 1] \cup {i} ELSE G[i - 1]
  BY <1>5 DEF Found
<1>8. \A i \in 0 .. m : G[i] = g[i]
  <2> DEFINE N == {n \in Nat : n <= m => G[n] = g[n]}
  <2>1. 0 \in N
    <3>1. 0 \in 0 .. m /\ G[0] = p /\ g[0] = p
      BY <1>3, <1>7
    <3> QED  BY <3>1
  <2>2. ASSUME NEW n \in N PROVE n + 1 \in N
    <3> SUFFICES ASSUME n + 1 <= m PROVE G[n + 1] = g[n + 1]
      OBVIOUS
    <3>1. n + 1 \in 0 .. m /\ n + 1 # 0 /\ (n + 1) - 1 = n /\ G[n] = g[n]
      OBVIOUS
    <3>2. g[n + 1] = IF Deps(b, n + 1) \subseteq g[n] THEN g[n] \cup {n + 1} ELSE g[n]
      BY <1>3, <3>1
    <3>3. G[n + 1] = IF Deps(b, n + 1) \subseteq G[n] THEN G[n] \cup {n + 1} ELSE G[n]
      BY <1>7, <3>1
    <3> QED  BY <3>1, <3>2, <3>3
  <2>3. N = Nat
    <3>1. N \in SUBSET Nat
      OBVIOUS
    <3> HIDE DEF N
    <3> QED  BY <2>1, <2>2, <3>1, NatSteps
  <2> QED  BY <2>3
<1>9. G \in [0 .. m -> T] /\ m \in 0 .. m
  BY <1>7, <1>8
<1> QED  BY <1>5, <1>6, <1>9

LEMMA PassWithin ==
    ASSUME NEW b, Len(b) \in Nat, NEW p \in SUBSET (1 .. Len(b))
    PROVE  /\ Pass(b, p) \in SUBSET (1 .. Len(b))
           /\ (\A i \in 1 .. Len(b) : Deps(b, i) = {}) => Pass(b, p) = 1 .. Len(b)
<1>1. PICK g \in [0 .. Len(b) -> SUBSET (1 .. Len(b))] : Found(b, p, g) /\ Pass(b, p) = g[Len(b)]
  BY PassFinds
<1>2. Pass(b, p) \in SUBSET (1 .. Len(b))
  BY <1>1
<1>3. ASSUME \A i \in 1 .. Len(b) : Deps(b, i) = {} PROVE Pass(b, p) = 1 .. Len(b)
  <2> DEFINE N == {n \in Nat : n <= Len(b) => 1 .. n \subseteq g[n]}
  <2>1. 0 \in N
    OBVIOUS
  <2>2. ASSUME NEW n \in N PROVE n + 1 \in N
    <3> SUFFICES ASSUME n + 1 <= Len(b) PROVE 1 .. (n + 1) \subseteq g[n + 1]
      OBVIOUS
    <3>1. /\ n + 1 \in 1 .. Len(b) /\ n + 1 \in 0 .. Len(b) /\ n + 1 # 0 /\ (n + 1) - 1 = n
          /\ 1 .. n \subseteq g[n] /\ 1 .. (n + 1) = (1 .. n) \cup {n + 1}
      OBVIOUS
    <3>2. g[n + 1] = g[n] \cup {n + 1}
      BY <1>1, <1>3, <3>1 DEF Found
    <3> QED  BY <3>1, <3>2
  <2>3. N = Nat
    <3>1. N \in SUBSET Nat
      OBVIOUS
    <3> HIDE DEF N
    <3> QED  BY <2>1, <2>2, <3>1, NatSteps
  <2> QED  BY <1>1, <1>2, <2>3
<1> QED  BY <1>2, <1>3

(* What the passes have processed, one after the other. *)
Processed(b, done) ==
    done = [k \in 0 .. Len(b) |-> IF k = 0 THEN {} ELSE Pass(b, done[k - 1])]

LEMMA PassesWithin ==
    ASSUME NEW b, Len(b) \in Nat
    PROVE  LET D == CHOOSE g : Processed(b, g)
           IN  D \in [0 .. Len(b) -> SUBSET (1 .. Len(b))] /\ Processed(b, D)
<1> DEFINE m == Len(b)
           T == SUBSET (1 .. m)
           F == [i \in 1 .. m |-> [x \in T |-> Pass(b, x)]]
           D == CHOOSE g : Processed(b, g)
<1>1. \A i \in 1 .. m : \A x \in T : F[i][x] = Pass(b, x) /\ F[i][x] \in T
  BY PassWithin
<1>2. PICK g \in [0 .. m -> T] : StepsTo(g, {}, F, m)
  <2>1. {} \in T
    OBVIOUS
  <2> HIDE DEF F, T
  <2> QED  BY <1>1, <2>1, StepsExist
<1>3. ASSUME NEW i \in 0 .. m PROVE g[i] = IF i = 0 THEN {} ELSE Pass(b, g[i - 1])
  <2>1. CASE i = 0
    BY <1>2, <2>1 DEF StepsTo
  <2>2. CASE i # 0
    <3>1. i \in 1 .. m /\ i - 1 \in 0 .. m
      BY <2>2
    <3> HIDE DEF F
    <3>2. g[i] = F[i][g[i - 1]] /\ g[i - 1] \in T
      BY <1>2, <2>2, <3>1 DEF StepsTo
    <3> QED  BY <1>1, <2>2, <3>1, <3>2
  <2> QED  BY <2>1, <2>2
<1>4. Processed(b, g)
  BY <1>3 DEF Processed
<1>5. Processed(b, D)
  BY <1>4
<1> HIDE DEF D, F
<1>6. /\ D = [i \in 0 .. m |-> D[i]]
      /\ \A i \in 0 .. m : D[i] = IF i = 0 THEN {} ELSE Pass(b, D[i - 1])
  BY <1>5 DEF Processed
<1>7. \A i \in 0 .. m : D[i] \in T
  <2> DEFINE N == {n \in Nat : n <= m => D[n] \in T}
  <2>1. 0 \in N
    <3>1. 0 \in 0 .. m /\ D[0] = {}
      BY <1>6
    <3> QED  BY <3>1
  <2>2. ASSUME NEW n \in N PROVE n + 1 \in N
    <3> SUFFICES ASSUME n + 1 <= m PROVE D[n + 1] \in T
      OBVIOUS
    <3>1. n + 1 \in 0 .. m /\ n + 1 # 0 /\ (n + 1) - 1 = n /\ D[n] \in T
      OBVIOUS
    <3>2. D[n + 1] = Pass(b, D[n])
      BY <1>6, <3>1
    <3> QED  BY <3>1, <3>2, PassWithin
  <2>3. N = Nat
    <3>1. N \in SUBSET Nat
      OBVIOUS
    <3> HIDE DEF N
    <3> QED  BY <2>1, <2>2, <3>1, NatSteps
  <2> QED  BY <2>3
<1>8. D \in [0 .. m -> T]
  BY <1>6, <1>7
<1> QED  BY <1>5, <1>8 DEF D

(* Groups are positions of the block; without dependencies all are in one. *)
LEMMA GroupsWithin ==
    ASSUME NEW b, Len(b) \in Nat
    PROVE  /\ GroupByDependency(b) \in Seq(SUBSET (1 .. Len(b)))
           /\ (\A i \in 1 .. Len(b) : Deps(b, i) = {})
                 => GroupByDependency(b) = IF Len(b) = 0 THEN <<>> ELSE <<1 .. Len(b)>>
<1> DEFINE m == Len(b)
           D == CHOOSE g : Processed(b, g)
           New == {k \in 1 .. m : D[k] # D[k - 1]}
<1>1. GroupByDependency(b) = [k \in 1 .. Cardinality(New) |-> D[k] \ D[k - 1]]
  BY DEF GroupByDependency, Processed
<1>2. D \in [0 .. m -> SUBSET (1 .. m)] /\ Processed(b, D)
  BY PassesWithin
<1>3. IsFiniteSet(1 .. m) /\ Cardinality(1 .. m) = m
  <2> HIDE DEF m
  <2>1. m \in Nat /\ 1 \in Int /\ m \in Int
    BY DEF m
  <2>2. IsFiniteSet(1 .. m) /\ Cardinality(1 .. m) = IF 1 > m THEN 0 ELSE m - 1 + 1
    BY <2>1, FS_Interval
  <2> QED  BY <2>1, <2>2
<1>4. IsFiniteSet(New) /\ Cardinality(New) \in Nat /\ Cardinality(New) <= m
  BY <1>3, FS_Subset, FS_CardinalityType
<1> HIDE DEF D
<1>5. GroupByDependency(b) \in Seq(SUBSET (1 .. m))
  <2> DEFINE n == Cardinality(New)
  <2>1. \A k \in 1 .. n : D[k] \ D[k - 1] \in SUBSET (1 .. m)
    BY <1>2, <1>4
  <2> HIDE DEF n
  <2>2. n \in Nat
    BY <1>4 DEF n
  <2>3. GroupByDependency(b) = [k \in 1 .. n |-> D[k] \ D[k - 1]]
    BY <1>1 DEF n
  <2> QED  BY <2>1, <2>2, <2>3
<1>6. ASSUME \A i \in 1 .. m : Deps(b, i) = {}
      PROVE  GroupByDependency(b) = IF m = 0 THEN <<>> ELSE <<1 .. m>>
  <2>1. D[0] = {} /\ \A k \in 1 .. m : D[k] = 1 .. m
    <3>1. ASSUME NEW k \in 1 .. m PROVE D[k] = 1 .. m
      <4>1. k \in 0 .. m /\ k - 1 \in 0 .. m /\ k # 0
        OBVIOUS
      <4>2. D[k] = Pass(b, D[k - 1]) /\ D[k - 1] \in SUBSET (1 .. m)
        BY <1>2, <4>1 DEF Processed
      <4> QED  BY <1>6, <4>2, PassWithin
    <3>2. D[0] = {}
      BY <1>2 DEF Processed
    <3> QED  BY <3>1, <3>2
  <2>2. CASE m = 0
    <3>1. New = {}
      BY <2>2
    <3>2. Cardinality(New) = 0
      BY <3>1, FS_EmptySet
    <3> HIDE DEF New
    <3> QED  BY <1>1, <2>2, <3>2
  <2>3. CASE m # 0
    <3>1. New = {1}
      <4>1. 1 \in New
        BY <2>1, <2>3
      <4>2. ASSUME NEW k \in 1 .. m, k # 1 PROVE k \notin New
        <5>1. k - 1 \in 1 .. m
          BY <4>2
        <5> QED  BY <2>1, <5>1
      <4> QED  BY <4>1, <4>2
    <3>2. Cardinality(New) = 1
      BY <3>1, FS_Singleton
    <3>3. D[1] = 1 .. m /\ D[0] = {}
      BY <2>1, <2>3
    <3> HIDE DEF New
    <3>4. GroupByDependency(b) = [k \in 1 .. 1 |-> D[k] \ D[k - 1]]
      BY <1>1, <3>2
    <3> QED  BY <2>3, <3>3, <3>4
  <2> QED  BY <2>2, <2>3
<1> QED  BY <1>5, <1>6

LEMMA FreeAreApart ==
    ASSUME NEW b, ConflictFree(b), DOMAIN b = 1 .. Len(b), Len(b) \in Nat,
           NEW i \in 1 .. Len(b)
    PROVE  Deps(b, i) = {}
<1>1. \A j \in 1 .. (i - 1) : j \in DOMAIN b /\ i \in DOMAIN b /\ i # j
  OBVIOUS
<1>2. b[i].from # b[i].to /\ \A j \in 1 .. (i - 1) : Touches(b[i]) \cap Touches(b[j]) = {}
  BY <1>1 DEF ConflictFree
<1>3. \A j \in 1 .. (i - 1) : /\ b[j].from # b[i].from
                              /\ b[j].to # Create => b[j].to # b[i].from
                              /\ b[i].to # Create => b[j].from # b[i].to
                              /\ b[i].to # Create /\ b[j].to # Create => b[j].to # b[i].to
  BY <1>2 DEF Touches
<1>4. LastUse(b, b[i].from, i - 1) = {}
  BY <1>3 DEF LastUse
<1>5. b[i].to # Create => LastUse(b, b[i].to, i - 1) = {}
  BY <1>3 DEF LastUse
<1> QED  BY <1>2, <1>4, <1>5 DEF Deps

States == [Address -> Account \cup {NoAccount}]

(* What a transaction that succeeds writes: the sender's account and the   *)
(* recipient's.                                                            *)
Target(tx) == IF tx.to = Create THEN <<tx.from, tx.nonce>> ELSE tx.to
Paid(s, tx) ==
    [bal |-> s[tx.from].bal - tx.value - RefGas(s, tx) * GasPrice,
     nonce |-> s[tx.from].nonce + 1, code |-> s[tx.from].code]
Received(s, tx) ==
    IF tx.to = Create THEN [bal |-> tx.value, nonce |-> 0, code |-> TRUE]
    ELSE IF s[tx.to] = NoAccount THEN [bal |-> tx.value, nonce |-> 0, code |-> FALSE]
    ELSE [s[tx.to] EXCEPT !.bal = @ + tx.value]

LEMMA Remainder ==
    ASSUME NEW a \in Nat, NEW g \in Nat, g <= a, NEW p \in Nat
    PROVE  a * p \in Nat /\ g * p \in Nat /\ (a - g) * p \in Nat /\ (a - g) * p = a * p - g * p
<1>1. a - g \in Nat
  OBVIOUS
<1>2. a * p \in Nat /\ g * p \in Nat /\ (a - g) * p \in Nat
  BY <1>1
<1>3. (a - g) * p = a * p - g * p
  OBVIOUS
<1> QED  BY <1>2, <1>3

LEMMA TwoFields ==
    ASSUME NEW s \in Account, NEW p \in Nat, NEW q \in Nat
    PROVE  /\ [s EXCEPT !.bal = p, !.nonce = q] = [bal |-> p, nonce |-> q, code |-> s.code]
           /\ [s EXCEPT !.bal = p, !.nonce = q] \in Account
<1>1. [s EXCEPT !.bal = p] = [bal |-> p, nonce |-> s.nonce, code |-> s.code]
  BY DEF Account
<1>2. [[bal |-> p, nonce |-> s.nonce, code |-> s.code] EXCEPT !.nonce = q]
        = [bal |-> p, nonce |-> q, code |-> s.code]
  OBVIOUS
<1>3. [s EXCEPT !.bal = p, !.nonce = q] = [[s EXCEPT !.bal = p] EXCEPT !.nonce = q]
  OBVIOUS
<1> QED  BY <1>1, <1>2, <1>3 DEF Account

LEMMA SendersDiffer ==
    ASSUME NEW tx \in Transaction, tx.from # tx.to
    PROVE  tx.from \in Address /\ Target(tx) # tx.from /\ Touches(tx) = {tx.from, Target(tx)}
<1>1. tx.from \in Addrs
  BY DEF Transaction
<1>2. <<tx.from, tx.nonce>> # tx.from
  BY <1>1, ExecutorAssumption DEF Transaction
<1> QED  BY <1>1, <1>2 DEF Target, Touches, Address

LEMMA GasNeeded == ASSUME NEW s, NEW tx PROVE RefGas(s, tx) \in Nat
BY ExecutorAssumption DEF RefGas

LEMMA StepIs ==
    ASSUME NEW s \in States, NEW tx \in Transaction, tx.from # tx.to
    PROVE  /\ RefSucceeds(s, tx) =>
                /\ Paid(s, tx) \in Account /\ Received(s, tx) \in Account
                /\ RefStep(s, tx) = [a \in Address |->
                      IF a = Target(tx) THEN Received(s, tx)
                      ELSE IF a = tx.from THEN Paid(s, tx) ELSE s[a]]
           /\ ~RefSucceeds(s, tx) => RefStep(s, tx) = s
           /\ RefStep(s, tx) \in States
<1>1. /\ tx.from \in Address /\ Target(tx) # tx.from
      /\ tx.value \in Nat /\ tx.gas \in Nat /\ tx.to \in Address \cup {Create}
  BY SendersDiffer DEF Transaction
<1>2. ~RefSucceeds(s, tx) => RefStep(s, tx) = s
  BY DEF RefStep
<1>3. ASSUME RefSucceeds(s, tx)
      PROVE  /\ Paid(s, tx) \in Account /\ Received(s, tx) \in Account
             /\ RefStep(s, tx) = [a \in Address |->
                   IF a = Target(tx) THEN Received(s, tx)
                   ELSE IF a = tx.from THEN Paid(s, tx) ELSE s[a]]
  <2> DEFINE f == tx.from
             p == RefPay(s, tx)
             g == RefGas(s, tx) * GasPrice
  <2>1. s[f] \in Account /\ s[f].bal >= tx.value + tx.gas * GasPrice
    BY <1>1, <1>3 DEF RefSucceeds, RefValid, TotalCost, States
  <2>2. g \in Nat /\ g <= tx.gas * GasPrice /\ tx.gas * GasPrice \in Nat
    <3>1. RefGas(s, tx) <= tx.gas /\ GasPrice \in Nat
      BY <1>3, ExecutorAssumption DEF RefSucceeds
    <3> QED  BY <1>1, <3>1, GasNeeded, Remainder
  <2> HIDE DEF g
  <2>3. Paid(s, tx) = [bal |-> s[f].bal - tx.value - g, nonce |-> s[f].nonce + 1, code |-> s[f].code]
    BY DEF Paid, g
  <2>4. Paid(s, tx) \in Account
    BY <1>1, <2>1, <2>2, <2>3 DEF Account
  <2>5. p = [a \in Address |-> IF a = f THEN Paid(s, tx) ELSE s[a]]
    BY <1>1, <2>1, <2>3 DEF RefPay, States, Account, g
  <2> HIDE DEF p
  <2>6. CASE tx.to = Create
    <3>1. RefCredit(p, tx, tx.value) = [p EXCEPT ![Target(tx)] = Received(s, tx)]
      BY <2>6 DEF RefCredit, Received, Target
    <3>2. Received(s, tx) \in Account
      BY <1>1, <2>6 DEF Received, Account
    <3> QED  BY <1>3, <2>4, <2>5, <3>1, <3>2 DEF RefStep, p
  <2>7. CASE tx.to # Create
    <3>1. tx.to \in Address /\ tx.to # f /\ Target(tx) = tx.to /\ p[tx.to] = s[tx.to]
          /\ s[tx.to] \in Account \cup {NoAccount}
      BY <1>1, <2>5, <2>7 DEF Target, States
    <3>2. Received(s, tx) \in Account
      BY <1>1, <2>7, <3>1 DEF Received, Account
    <3>3. Received(s, tx) = [bal |-> (IF s[tx.to] = NoAccount THEN 0 ELSE s[tx.to].bal) + tx.value,
                             nonce |-> IF s[tx.to] = NoAccount THEN 0 ELSE s[tx.to].nonce,
                             code |-> IF s[tx.to] = NoAccount THEN FALSE ELSE s[tx.to].code]
      <4>1. CASE s[tx.to] = NoAccount
        <5>1. Received(s, tx) = [bal |-> tx.value, nonce |-> 0, code |-> FALSE]
          BY <2>7, <4>1 DEF Received
        <5>2. 0 + tx.value = tx.value
          BY <1>1
        <5>3. /\ (IF s[tx.to] = NoAccount THEN 0 ELSE s[tx.to].bal) = 0
              /\ (IF s[tx.to] = NoAccount THEN 0 ELSE s[tx.to].nonce) = 0
              /\ (IF s[tx.to] = NoAccount THEN FALSE ELSE s[tx.to].code) = FALSE
          BY <4>1, Zenon
        <5> QED  BY <5>1, <5>2, <5>3, Zenon
      <4>2. CASE s[tx.to] # NoAccount
        <5>1. s[tx.to] \in Account
          BY <3>1, <4>2
        <5> QED  BY <2>7, <4>2, <5>1 DEF Received, Account
      <4> QED  BY <4>1, <4>2
    <3>4. RefCredit(p, tx, tx.value) = [p EXCEPT ![tx.to] = Received(s, tx)]
      BY <2>7, <3>1, <3>3 DEF RefCredit
    <3> QED  BY <1>3, <2>4, <2>5, <3>1, <3>2, <3>4 DEF RefStep, p
  <2> QED  BY <2>6, <2>7
<1>4. RefStep(s, tx) \in States
  BY <1>2, <1>3 DEF States
<1> QED  BY <1>2, <1>3, <1>4

(* A transaction reads and writes only the accounts that it touches. *)
LEMMA StepIsLocal ==
    ASSUME NEW s \in States, NEW r \in States, NEW tx \in Transaction, tx.from # tx.to,
           \A a \in Touches(tx) \cap Address : r[a] = s[a]
    PROVE  /\ RefSucceeds(r, tx) <=> RefSucceeds(s, tx)
           /\ \A a \in Touches(tx) \cap Address : RefStep(r, tx)[a] = RefStep(s, tx)[a]
           /\ \A a \in Address \ Touches(tx) : RefStep(r, tx)[a] = r[a]
<1>1. /\ tx.from \in Address /\ Touches(tx) = {tx.from, Target(tx)}
      /\ tx.to # Create => tx.to \in Address /\ Target(tx) = tx.to
  BY SendersDiffer DEF Transaction, Target
<1>2. r[tx.from] = s[tx.from] /\ (tx.to # Create => r[tx.to] = s[tx.to])
  BY <1>1
<1>3. RefGas(r, tx) = RefGas(s, tx)
  BY <1>2 DEF RefGas
<1>4. RefSucceeds(r, tx) <=> RefSucceeds(s, tx)
  BY <1>2, <1>3 DEF RefSucceeds, RefValid
<1>5. Paid(r, tx) = Paid(s, tx) /\ Received(r, tx) = Received(s, tx)
  BY <1>2, <1>3 DEF Paid, Received
<1>6. CASE RefSucceeds(s, tx)
  BY <1>1, <1>4, <1>5, <1>6, StepIs
<1>7. CASE ~RefSucceeds(s, tx)
  BY <1>4, <1>7, StepIs
<1> QED  BY <1>4, <1>6, <1>7

(* The states of the block's transactions one after the other. *)
Serial(s) ==
    s = [k \in 0 .. Len(block) |-> IF k = 0 THEN start ELSE RefStep(s[k - 1], block[InOrder[k]])]

LEMMA SerialIs ==
    ASSUME block \in Seq(Transaction), start \in States,
           \A i \in DOMAIN block : block[i].from # block[i].to
    PROVE  LET R == RefStates(block, InOrder)
           IN  /\ R[0] = start
               /\ \A k \in 0 .. Len(block) : R[k] \in States
               /\ \A k \in 1 .. Len(block) : R[k] = RefStep(R[k - 1], block[k])
<1> DEFINE m == Len(block)
           F == [i \in 1 .. m |-> [x \in States |-> RefStep(x, block[i])]]
           R == CHOOSE g : Serial(g)
<1>0. m \in Nat /\ DOMAIN block = 1 .. m /\ \A i \in 1 .. m : block[i] \in Transaction /\ InOrder[i] = i
  BY DEF InOrder, Positions
<1>1. \A i \in 1 .. m : \A x \in States : F[i][x] = RefStep(x, block[i]) /\ F[i][x] \in States
  BY <1>0, StepIs
<1> HIDE DEF F
<1>2. PICK g \in [0 .. m -> States] : StepsTo(g, start, F, m)
  BY <1>0, <1>1, StepsExist
<1>3. ASSUME NEW i \in 0 .. m PROVE g[i] = IF i = 0 THEN start ELSE RefStep(g[i - 1], block[InOrder[i]])
  <2>1. CASE i = 0
    BY <1>2, <2>1 DEF StepsTo
  <2>2. CASE i # 0
    <3>1. i \in 1 .. m /\ i - 1 \in 0 .. m
      BY <1>0, <2>2
    <3>2. g[i] = F[i][g[i - 1]] /\ g[i - 1] \in States
      BY <1>2, <2>2, <3>1 DEF StepsTo
    <3> QED  BY <1>0, <1>1, <2>2, <3>1, <3>2
  <2> QED  BY <2>1, <2>2
<1>4. Serial(g)
  <2>1. g = [i \in 0 .. m |-> g[i]]
    BY <1>2
  <2> QED  BY <1>3, <2>1 DEF Serial
<1>5. Serial(R)
  BY <1>4
<1>6. RefStates(block, InOrder) = R
  BY DEF RefStates, Serial
<1> HIDE DEF R
<1>7. ASSUME NEW i \in 0 .. m PROVE R[i] = IF i = 0 THEN start ELSE RefStep(R[i - 1], block[InOrder[i]])
  BY <1>5 DEF Serial
<1>8. R[0] = start /\ \A k \in 1 .. m : R[k] = RefStep(R[k - 1], block[k])
  <2>1. 0 \in 0 .. m
    BY <1>0
  <2>2. R[0] = start
    BY <1>7, <2>1
  <2>3. ASSUME NEW k \in 1 .. m PROVE R[k] = RefStep(R[k - 1], block[k])
    <3>1. k \in 0 .. m /\ k # 0 /\ InOrder[k] = k
      BY <1>0
    <3> QED  BY <1>7, <3>1
  <2> QED  BY <2>2, <2>3
<1>9. \A k \in 0 .. m : R[k] \in States
  <2> DEFINE N == {n \in Nat : n <= m => R[n] \in States}
  <2>1. 0 \in N
    BY <1>8
  <2>2. ASSUME NEW n \in N PROVE n + 1 \in N
    <3> SUFFICES ASSUME n + 1 <= m PROVE R[n + 1] \in States
      OBVIOUS
    <3>1. n + 1 \in 1 .. m /\ (n + 1) - 1 = n /\ R[n] \in States
      BY <1>0
    <3>2. R[n + 1] = RefStep(R[n], block[n + 1]) /\ block[n + 1] \in Transaction
          /\ block[n + 1].from # block[n + 1].to
      BY <1>0, <1>8, <3>1
    <3> QED  BY <3>1, <3>2, StepIs
  <2>3. N = Nat
    <3>1. N \in SUBSET Nat
      OBVIOUS
    <3> HIDE DEF N
    <3> QED  BY <2>1, <2>2, <3>1, NatSteps
  <2> QED  BY <2>3
<1> QED  BY <1>6, <1>8, <1>9

(* Transactions that share no account do in turn what each does alone. *)
LEMMA SerialWhenApart ==
    ASSUME block \in Seq(Transaction), start \in States, ConflictFree(block)
    PROVE  LET R == RefStates(block, InOrder)
               m == Len(block)
           IN  /\ \A i \in 1 .. m : RefSucceeds(R[i - 1], block[i]) <=> RefSucceeds(start, block[i])
               /\ R[m] \in States
               /\ \A a \in Address :
                     /\ (\A i \in 1 .. m : a \notin Touches(block[i])) => R[m][a] = start[a]
                     /\ \A i \in 1 .. m : a \in Touches(block[i]) => R[m][a] = RefStep(start, block[i])[a]
<1> DEFINE m == Len(block)
           R == RefStates(block, InOrder)
           Done(k) == \A a \in Address :
              /\ (\A i \in 1 .. k : a \notin Touches(block[i])) => R[k][a] = start[a]
              /\ \A i \in 1 .. k : a \in Touches(block[i]) => R[k][a] = RefStep(start, block[i])[a]
<1>0. m \in Nat /\ DOMAIN block = 1 .. m /\ \A i \in 1 .. m : block[i] \in Transaction
  OBVIOUS
<1>1. /\ \A i \in 1 .. m : block[i].from # block[i].to
      /\ \A i, j \in 1 .. m : i # j => Touches(block[i]) \cap Touches(block[j]) = {}
  BY <1>0 DEF ConflictFree
<1>2. /\ R[0] = start
      /\ \A k \in 0 .. m : R[k] \in States
      /\ \A k \in 1 .. m : R[k] = RefStep(R[k - 1], block[k])
  BY <1>0, <1>1, SerialIs
<1> HIDE DEF R
<1>3. ASSUME NEW k \in Nat, k + 1 <= m, Done(k)
      PROVE  /\ RefSucceeds(R[k], block[k + 1]) <=> RefSucceeds(start, block[k + 1])
             /\ Done(k + 1)
  <2> DEFINE tx == block[k + 1]
  <2>1. /\ k + 1 \in 1 .. m /\ (k + 1) - 1 = k /\ k \in 0 .. m /\ 1 .. (k + 1) = (1 .. k) \cup {k + 1}
        /\ \A i \in 1 .. k : i \in 1 .. m /\ i # k + 1
    BY <1>0, <1>3
  <2>2. R[k] \in States /\ R[k + 1] = RefStep(R[k], tx) /\ tx \in Transaction /\ tx.from # tx.to
    <3>1. R[k + 1] = RefStep(R[(k + 1) - 1], block[k + 1])
      BY <1>2, <2>1
    <3> QED  BY <1>0, <1>1, <1>2, <2>1, <3>1
  <2>3. \A i \in 1 .. k : Touches(block[i]) \cap Touches(tx) = {}
    BY <1>1, <2>1
  <2> HIDE DEF tx
  <2>4. \A a \in Touches(tx) \cap Address : R[k][a] = start[a]
    BY <1>3, <2>3
  <2>5. /\ RefSucceeds(R[k], tx) <=> RefSucceeds(start, tx)
        /\ \A a \in Touches(tx) \cap Address : RefStep(R[k], tx)[a] = RefStep(start, tx)[a]
        /\ \A a \in Address \ Touches(tx) : RefStep(R[k], tx)[a] = R[k][a]
    BY <2>2, <2>4, StepIsLocal
  <2>6. ASSUME NEW a \in Address, \A i \in 1 .. (k + 1) : a \notin Touches(block[i])
        PROVE  R[k + 1][a] = start[a]
    <3>1. a \notin Touches(tx) /\ \A i \in 1 .. k : a \notin Touches(block[i])
      BY <2>1, <2>6 DEF tx
    <3> QED  BY <1>3, <2>2, <2>5, <3>1
  <2>7. ASSUME NEW a \in Address, NEW i \in 1 .. (k + 1), a \in Touches(block[i])
        PROVE  R[k + 1][a] = RefStep(start, block[i])[a]
    <3>1. CASE i = k + 1
      BY <2>2, <2>5, <2>7, <3>1 DEF tx
    <3>2. CASE i # k + 1
      <4>1. i \in 1 .. k
        BY <2>1, <3>2
      <4>2. a \notin Touches(tx)
        BY <2>3, <2>7, <4>1
      <4> QED  BY <1>3, <2>2, <2>5, <2>7, <4>1, <4>2
    <3> QED  BY <3>1, <3>2
  <2> QED  BY <2>5, <2>6, <2>7 DEF tx
<1>4. \A k \in 0 .. m : Done(k)
  <2> DEFINE N == {n \in Nat : n <= m => Done(n)}
  <2>1. Done(0)
    <3>1. 1 .. 0 = {}
      OBVIOUS
    <3> QED  BY <1>2, <3>1
  <2> HIDE DEF Done
  <2>2. 0 \in N
    BY <2>1
  <2>3. ASSUME NEW n \in N PROVE n + 1 \in N
    <3> SUFFICES ASSUME n + 1 <= m PROVE Done(n + 1)
      OBVIOUS
    <3>1. n \in Nat /\ Done(n)
      BY <1>0
    <3> QED  BY <1>3, <3>1
  <2>4. N = Nat
    <3>1. N \in SUBSET Nat
      OBVIOUS
    <3> HIDE DEF N
    <3> QED  BY <2>2, <2>3, <3>1, NatSteps
  <2> QED  BY <2>4
<1>5. ASSUME NEW i \in 1 .. m PROVE RefSucceeds(R[i - 1], block[i]) <=> RefSucceeds(start, block[i])
  <2> HIDE DEF Done
  <2>1. PICK k \in Nat : k = i - 1 /\ k + 1 = i /\ k + 1 <= m /\ k \in 0 .. m
    BY <1>0
  <2>2. Done(k)
    BY <1>4, <2>1
  <2> QED  BY <1>3, <2>1, <2>2
<1>6. Done(m) /\ R[m] \in States
  <2>1. m \in 0 .. m
    BY <1>0
  <2> HIDE DEF Done
  <2> QED  BY <1>2, <1>4, <2>1
<1> QED  BY <1>5, <1>6 DEF R

Labels == {"queued", "validate", "read_from", "read_to", "apply", "done", "failed"}
Early == {"queued", "validate", "read_from"}
Active == {"validate", "read_from", "read_to", "apply"}
Changes == [addr : Address, acc : Account]

(* The transactions of a sender that have raised its nonce or given up, and *)
(* how high it can be: two more for each block.                             *)
Past(a) == {i \in Positions : block[i].from = a /\ pc[i] \notin Early}
Highest(a) == IF phase = "waiting" THEN 2 * delivered
                                   ELSE 2 * delivered - 2 + Cardinality(Past(a))

(* Only transactions of the group at the head are with a worker. *)
ShapeInv ==
    /\ delivered \in 0 .. MaxBlocks /\ (phase # "waiting" => delivered > 0)
    /\ phase \in {"waiting", "running", "ok", "err", "dead"}
    /\ accounts \in States /\ committed \in States /\ start \in States
    /\ block \in Seq(Transaction)
    /\ \A a \in Addrs : Cardinality({i \in DOMAIN block : block[i].from = a}) <= 2
    /\ pc \in [Positions -> Labels] /\ changes \in [Positions -> SUBSET Changes]
    /\ groups \in Seq(SUBSET Positions)
    /\ \A i \in Positions : pc[i] \in Active =>
          phase = "running" /\ groups # <<>> /\ i \in Head(groups)

(* The address of a contract is made from a nonce, which is never too high. *)
NonceInv ==
    /\ \A a \in Address : accounts[a] # NoAccount => accounts[a].nonce <= Highest(a)
    /\ \A i \in Positions : \A c \in changes[i] : c.acc.nonce <= Highest(c.addr)
    /\ \A i \in Positions :
          /\ pc[i] = "read_from" => accounts[block[i].from] # NoAccount
          /\ pc[i] = "read_to" => \E c \in changes[i] :
                changes[i] = {c} /\ c.addr = block[i].from /\ c.acc.nonce > 0
          /\ pc[i] = "apply" => changes[i] # {}

(* What a transaction of a block without shared accounts has found and done: *)
(* it sees the accounts of the start until it writes its own.                *)
Part(i) ==
    LET tx == block[i]
        end == RefStep(start, tx)
        own == Touches(tx) \cap Address
    IN  /\ pc[i] \in Early \cup {"read_to", "failed"} => \A a \in own : accounts[a] = start[a]
        /\ pc[i] = "failed" => ~RefSucceeds(start, tx)
        /\ pc[i] \in {"read_from", "read_to"} => RefValid(start, tx)
        /\ pc[i] = "read_to" => changes[i] =
              {[addr |-> tx.from,
                acc |-> [start[tx.from] EXCEPT !.bal = @ - TotalCost(tx), !.nonce = @ + 1]]}
        /\ pc[i] \in {"apply", "done"} =>
              /\ RefSucceeds(start, tx)
              /\ \A c \in changes[i] : c.addr \in own /\ c.acc = end[c.addr]
              /\ \A a \in own : accounts[a] = end[a] \/ \E c \in changes[i] : c.addr = a
        /\ pc[i] = "done" => changes[i] = {}

PartsInv ==
    ConflictFree(block) /\ phase \in {"running", "ok", "err"} =>
        /\ groups \in {<<>>, <<Positions>>}
        /\ phase = "running" /\ groups = <<>> => \A i \in Positions : pc[i] = "done"
        /\ phase = "ok" => \A i \in Positions : pc[i] = "done"
        /\ phase = "err" => /\ \A i \in Positions : pc[i] \in {"done", "failed"}
                            /\ \E i \in Positions : pc[i] = "failed"
        /\ \A a \in Address :
              (\A i \in Positions : a \notin Touches(block[i])) => accounts[a] = start[a]
        /\ \A i \in Positions : Part(i)

ExecInv == ShapeInv /\ NonceInv /\ PartsInv

LEMMA PastIs ==
    ASSUME ShapeInv, NEW a \in Address
    PROVE  IsFiniteSet(Past(a)) /\ Cardinality(Past(a)) \in 0 .. 2
<1>0. block \in Seq(Transaction)
  BY DEF ShapeInv
<1>1. /\ Positions = 1 .. Len(block) /\ Len(block) \in Nat
      /\ \A i \in Positions : block[i].from \in Addrs
  <2>1. Positions = 1 .. Len(block) /\ Len(block) \in Nat /\ \A i \in Positions : block[i] \in Transaction
    BY <1>0 DEF Positions
  <2>2. \A tx \in Transaction : tx.from \in Addrs
    BY DEF Transaction
  <2> QED  BY <2>1, <2>2
<1>2. IsFiniteSet(Positions)
  BY <1>1, FS_Interval
<1>3. CASE a \in Addrs
  <2> DEFINE S == {i \in Positions : block[i].from = a}
             P == Past(a)
  <2>1. Cardinality(S) <= 2
    BY <1>3 DEF ShapeInv, Positions
  <2>2. P \subseteq S /\ S \subseteq Positions
    BY DEF Past
  <2> HIDE DEF S, P
  <2>3. IsFiniteSet(S) /\ IsFiniteSet(P) /\ Cardinality(P) <= Cardinality(S)
    BY <1>2, <2>2, FS_Subset
  <2>4. Cardinality(P) \in Nat /\ Cardinality(S) \in Nat
    BY <2>3, FS_CardinalityType
  <2> QED  BY <2>1, <2>3, <2>4 DEF P
<1>4. CASE a \notin Addrs
  <2>1. Past(a) = {}
    BY <1>1, <1>4 DEF Past
  <2> QED  BY <2>1, FS_EmptySet
<1> QED  BY <1>3, <1>4

LEMMA HighestIs ==
    ASSUME ShapeInv, NEW a \in Address
    PROVE  Highest(a) \in Int /\ 0 <= Highest(a) /\ Highest(a) <= 2 * delivered
<1>1. Cardinality(Past(a)) \in 0 .. 2 /\ delivered \in Nat /\ (phase # "waiting" => delivered > 0)
  BY PastIs DEF ShapeInv
<1> QED  BY <1>1 DEF Highest

(* A transaction goes on: its sender's nonce may be one more once it has    *)
(* read the sender's account.                                               *)
LEMMA HighestGrows ==
    ASSUME ShapeInv, phase = "running", NEW i \in Positions, NEW l \in Labels,
           pc' = [pc EXCEPT ![i] = l], UNCHANGED <<block, delivered, phase>>,
           pc[i] \in Early \/ l \notin Early, NEW a \in Address
    PROVE  /\ Highest(a)' \in Int /\ Highest(a) <= Highest(a)'
           /\ pc[i] \in Early /\ l \notin Early /\ a = block[i].from => Highest(a)' = Highest(a) + 1
<1>1. /\ pc'[i] = l /\ \A j \in Positions : j # i => pc'[j] = pc[j]
      /\ Positions' = Positions /\ block' = block /\ delivered' = delivered /\ phase' = "running"
      /\ delivered \in Nat
  BY DEF ShapeInv, Positions
<1>2. IsFiniteSet(Past(a)) /\ Cardinality(Past(a)) \in Nat
  BY PastIs
<1>3. CASE a = block[i].from /\ pc[i] \in Early /\ l \notin Early
  <2>1. Past(a)' = Past(a) \cup {i} /\ i \notin Past(a)
    BY <1>1, <1>3 DEF Past
  <2>2. Cardinality(Past(a))' = Cardinality(Past(a)) + 1
    BY <1>2, <2>1, FS_AddElement
  <2> QED  BY <1>1, <1>2, <2>2 DEF Highest
<1>4. CASE ~(a = block[i].from /\ pc[i] \in Early /\ l \notin Early)
  <2>1. Past(a)' = Past(a)
    BY <1>1, <1>4 DEF Past
  <2>2. Cardinality(Past(a))' = Cardinality(Past(a))
    BY <2>1
  <2> QED  BY <1>1, <1>2, <1>4, <2>2 DEF Highest
<1> QED  BY <1>3, <1>4

LEMMA WorkShape ==
    ASSUME ShapeInv, NEW i \in Positions, NEW l \in Labels, Goto(i, l), UNCHANGED Rest,
           phase = "running", groups # <<>>, i \in Head(groups),
           accounts' \in States, changes' \in [Positions -> SUBSET Changes]
    PROVE  ShapeInv'
<1>1. /\ UNCHANGED <<committed, delivered, phase, block, groups, start>>
      /\ Positions' = Positions /\ pc' = [pc EXCEPT ![i] = l]
  BY DEF Rest, Positions, Goto
<1>2. pc' \in [Positions -> Labels] /\ \A j \in Positions : j # i => pc'[j] = pc[j]
  BY <1>1 DEF ShapeInv
<1> QED  BY <1>1, <1>2 DEF ShapeInv

(* A worker takes a queued transaction of the group at the head.            *)
LEMMA TakeIs ==
    ASSUME ShapeInv, NEW i \in Positions, Take(i)
    PROVE  phase = "running" /\ groups # <<>> /\ i \in Head(groups) /\ pc[i] = "queued"
<1> DEFINE S == {j \in Head(groups) : pc[j] = "queued"} \cup {Len(block) + 1}
<1>1. Positions = 1 .. Len(block) /\ Len(block) \in Nat /\ groups # <<>> /\ i = Min(S)
  BY DEF ShapeInv, Take, Positions
<1>2. S \subseteq 1 .. (Len(block) + 1)
  <2>1. Head(groups) \subseteq Positions
    BY <1>1 DEF ShapeInv
  <2> QED  BY <1>1, <2>1
<1>3. IsFiniteSet(S) /\ S # {} /\ S \in SUBSET Int
  <2>1. IsFiniteSet(1 .. (Len(block) + 1))
    BY <1>1, FS_Interval
  <2>2. S # {}
    OBVIOUS
  <2> HIDE DEF S
  <2>3. IsFiniteSet(S)
    BY <1>2, <2>1, FS_Subset
  <2> QED  BY <1>1, <1>2, <2>2, <2>3
<1>4. i \in S
  <2> HIDE DEF S
  <2>1. \E x \in S : \A y \in S : x <= y
    BY <1>3, Extremes
  <2> QED  BY <1>1, <2>1 DEF Min
<1>5. i # Len(block) + 1
  BY <1>1
<1> QED  BY <1>4, <1>5 DEF Take

(* What a step of one transaction must leave for the nonces to stay low.    *)
LEMMA WorkNonce ==
    ASSUME ShapeInv, NonceInv, ShapeInv', NEW i \in Positions, NEW l \in Labels, Goto(i, l),
           UNCHANGED Rest, phase = "running", pc[i] \in Early \/ l \notin Early,
           \A a \in Address : \/ accounts'[a] = accounts[a]
                              \/ accounts'[a] # NoAccount /\ accounts'[a].nonce <= Highest(a)',
           \A j \in Positions : j # i => changes'[j] = changes[j],
           \A c \in changes'[i] : c \in changes[i] \/ c.acc.nonce <= Highest(c.addr)',
           l = "read_from" => accounts'[block[i].from] # NoAccount,
           l = "read_to" => \E c \in changes'[i] :
              changes'[i] = {c} /\ c.addr = block[i].from /\ c.acc.nonce > 0,
           l = "apply" => changes'[i] # {}
    PROVE  NonceInv'
<1>1. /\ UNCHANGED <<block, delivered, phase>> /\ Positions' = Positions
      /\ pc' = [pc EXCEPT ![i] = l] /\ pc'[i] = l /\ \A j \in Positions : j # i => pc'[j] = pc[j]
  BY DEF Rest, Positions, Goto, ShapeInv
<1>2. /\ accounts \in States /\ changes \in [Positions -> SUBSET Changes]
      /\ changes' \in [Positions -> SUBSET Changes]
  BY <1>1 DEF ShapeInv
<1>3. \A a \in Address : /\ Highest(a) \in Int /\ Highest(a)' \in Int /\ Highest(a) <= Highest(a)'
                         /\ accounts[a] # NoAccount => accounts[a].nonce \in Nat
                         /\ accounts[a] # NoAccount => accounts'[a] # NoAccount
  BY <1>1, <1>2, HighestIs, HighestGrows DEF States, Account
<1>4. \A c \in Changes : c.addr \in Address /\ c.acc.nonce \in Nat
  BY DEF Changes, Account
<1>5. \A a \in Address : accounts'[a] # NoAccount => accounts'[a].nonce <= Highest(a)'
  <2> SUFFICES ASSUME NEW a \in Address, accounts'[a] # NoAccount, accounts'[a] = accounts[a]
               PROVE  accounts'[a].nonce <= Highest(a)'
    OBVIOUS
  <2>1. accounts[a].nonce <= Highest(a)
    BY DEF NonceInv
  <2> QED  BY <1>3, <2>1
<1>6. \A j \in Positions : \A c \in changes[j] : c.acc.nonce <= Highest(c.addr)'
  <2> SUFFICES ASSUME NEW j \in Positions, NEW c \in changes[j] PROVE c.acc.nonce <= Highest(c.addr)'
    OBVIOUS
  <2>1. c.acc.nonce <= Highest(c.addr) /\ c \in Changes
    BY <1>2 DEF NonceInv
  <2>2. PICK a \in Address : a = c.addr
    BY <1>4, <2>1
  <2>3. Highest(a) \in Int /\ Highest(a)' \in Int /\ Highest(a) <= Highest(a)'
    BY <1>3
  <2> QED  BY <1>4, <2>1, <2>2, <2>3
<1>7. \A j \in Positions : \A c \in changes'[j] : c.acc.nonce <= Highest(c.addr)'
  BY <1>6
<1>8. \A j \in Positions :
          /\ pc'[j] = "read_from" => accounts'[block[j].from] # NoAccount
          /\ pc'[j] = "read_to" => \E c \in changes'[j] :
                changes'[j] = {c} /\ c.addr = block[j].from /\ c.acc.nonce > 0
          /\ pc'[j] = "apply" => changes'[j] # {}
  <2> SUFFICES ASSUME NEW j \in Positions, j # i
               PROVE  /\ pc'[j] = "read_from" => accounts'[block[j].from] # NoAccount
                      /\ pc'[j] = "read_to" => \E c \in changes'[j] :
                            changes'[j] = {c} /\ c.addr = block[j].from /\ c.acc.nonce > 0
                      /\ pc'[j] = "apply" => changes'[j] # {}
    BY <1>1
  <2>1. pc'[j] = pc[j] /\ changes'[j] = changes[j] /\ block[j].from \in Address
    <3>1. block[j] \in Transaction
      BY DEF ShapeInv, Positions
    <3> QED  BY <1>1, <3>1 DEF Transaction, Address
  <2> QED  BY <1>3, <2>1 DEF NonceInv
<1> QED  BY <1>1, <1>5, <1>7, <1>8 DEF NonceInv

LEMMA TxIs ==
    ASSUME ShapeInv, NEW i \in Positions
    PROVE  /\ block[i] \in Transaction /\ block[i].from \in Addrs /\ block[i].from \in Address
           /\ block[i].to \in Address \cup {Create} /\ {block[i].value, block[i].gas, block[i].nonce} \subseteq Nat
           /\ TotalCost(block[i]) \in Nat /\ GasPrice \in Nat
<1>1. block[i] \in Transaction
  BY DEF ShapeInv, Positions
<1>2. /\ block[i].from \in Addrs /\ block[i].from \in Address
      /\ block[i].to \in Address \cup {Create} /\ {block[i].value, block[i].gas, block[i].nonce} \subseteq Nat
  BY <1>1 DEF Transaction, Address
<1>3. GasPrice \in Nat
  BY ExecutorAssumption
<1>4. block[i].gas * GasPrice \in Nat
  BY <1>2, <1>3, Remainder
<1> QED  BY <1>1, <1>2, <1>3, <1>4 DEF TotalCost

LEMMA AtWork ==
    ASSUME ShapeInv, NEW i \in Positions, pc[i] \in Active
    PROVE  phase = "running" /\ groups # <<>> /\ i \in Head(groups)
BY DEF ShapeInv

LEMMA TakeNonce ==
    ASSUME ShapeInv, NonceInv, NEW i \in Positions, Take(i) PROVE ShapeInv' /\ NonceInv'
<1>1. phase = "running" /\ groups # <<>> /\ i \in Head(groups) /\ pc[i] = "queued"
  BY TakeIs
<1>2. Goto(i, "validate") /\ UNCHANGED <<accounts, changes>> /\ UNCHANGED Rest
  BY DEF Take
<1>3. "validate" \in Labels /\ "queued" \in Early
  BY DEF Labels, Early
<1>4. accounts' \in States /\ changes' \in [Positions -> SUBSET Changes]
  BY <1>2 DEF ShapeInv
<1>5. ShapeInv'
  BY <1>1, <1>2, <1>3, <1>4, WorkShape
<1> QED  BY <1>1, <1>2, <1>3, <1>5, WorkNonce

LEMMA ValidateNonce ==
    ASSUME ShapeInv, NonceInv, NEW i \in Positions, Validate(i) PROVE ShapeInv' /\ NonceInv'
<1>1. pc[i] = "validate" /\ UNCHANGED <<accounts, changes>> /\ UNCHANGED Rest
  BY DEF Validate
<1>2. PICK l \in {"read_from", "failed"} :
         Goto(i, l) /\ (l = "read_from" => accounts[block[i].from] # NoAccount)
  BY DEF Validate
<1>3. l \in Labels /\ pc[i] \in Early /\ pc[i] \in Active
  BY <1>1 DEF Labels, Early, Active
<1>4. phase = "running" /\ groups # <<>> /\ i \in Head(groups)
  BY <1>3, AtWork
<1>5. accounts' \in States /\ changes' \in [Positions -> SUBSET Changes]
  BY <1>1 DEF ShapeInv
<1>6. ShapeInv'
  BY <1>1, <1>2, <1>3, <1>4, <1>5, WorkShape
<1> QED  BY <1>1, <1>2, <1>3, <1>4, <1>6, WorkNonce

LEMMA ReadFromNonce ==
    ASSUME ShapeInv, NonceInv, NEW i \in Positions, ReadFrom(i) PROVE ShapeInv' /\ NonceInv'
<1> DEFINE from == accounts[block[i].from]
           cost == TotalCost(block[i])
<1>1. pc[i] = "read_from" /\ UNCHANGED accounts /\ UNCHANGED Rest
  BY DEF ReadFrom
<1>2. pc[i] \in Early /\ pc[i] \in Active /\ "read_to" \in Labels /\ "failed" \in Labels
      /\ "read_to" \notin Early /\ "failed" \notin Early
  BY <1>1 DEF Labels, Early, Active
<1>3. phase = "running" /\ groups # <<>> /\ i \in Head(groups)
  BY <1>2, AtWork
<1>4. accounts' \in States /\ from \in Account /\ block[i].from \in Address /\ cost \in Nat
  BY <1>1, TxIs DEF ShapeInv, NonceInv, States
<1>5. CASE from.bal >= cost
  <2>1. PICK c : /\ c = [addr |-> block[i].from, acc |-> [from EXCEPT !.bal = @ - cost, !.nonce = @ + 1]]
                 /\ changes' = [changes EXCEPT ![i] = {c}] /\ Goto(i, "read_to")
    BY <1>5 DEF ReadFrom
  <2>2. c.addr = block[i].from /\ c \in Changes /\ c.acc.nonce = from.nonce + 1 /\ from.nonce \in Nat
    <3> HIDE DEF from, cost
    <3>1. from.bal - cost \in Nat /\ from.nonce + 1 \in Nat /\ from.nonce \in Nat
      BY <1>4, <1>5 DEF Account
    <3>2. PICK p \in Nat, q \in Nat : p = from.bal - cost /\ q = from.nonce + 1
      BY <3>1
    <3>3. c = [addr |-> block[i].from, acc |-> [from EXCEPT !.bal = p, !.nonce = q]]
      BY <2>1, <3>2
    <3>4. [from EXCEPT !.bal = p, !.nonce = q] \in Account
          /\ [from EXCEPT !.bal = p, !.nonce = q].nonce = q
      <4>1. [from EXCEPT !.bal = p, !.nonce = q] = [bal |-> p, nonce |-> q, code |-> from.code]
            /\ [from EXCEPT !.bal = p, !.nonce = q] \in Account
        BY <1>4, TwoFields, Zenon
      <4> QED  BY <4>1
    <3> QED  BY <1>4, <3>1, <3>2, <3>3, <3>4 DEF Changes
  <2>3. changes' \in [Positions -> SUBSET Changes] /\ changes'[i] = {c}
        /\ \A j \in Positions : j # i => changes'[j] = changes[j]
    BY <2>1, <2>2 DEF ShapeInv
  <2>4. ShapeInv'
    BY <1>1, <1>2, <1>3, <1>4, <2>1, <2>3, WorkShape
  <2>5. PICK f \in Address : f = block[i].from
    BY <1>4
  <2>6. Highest(f)' = Highest(f) + 1 /\ Highest(f) \in Int
    <3>1. UNCHANGED <<block, delivered, phase>> /\ pc' = [pc EXCEPT ![i] = "read_to"]
      BY <1>1, <2>1 DEF Rest, Goto
    <3> QED  BY <1>2, <1>3, <2>5, <3>1, HighestGrows, HighestIs
  <2>7. from.nonce <= Highest(f)
    BY <1>1, <1>4, <2>5 DEF NonceInv
  <2>8. c.acc.nonce <= Highest(f)' /\ c.acc.nonce > 0 /\ c.addr = f
    BY <2>2, <2>5, <2>6, <2>7
  <2>9. c.acc.nonce <= Highest(c.addr)'
    BY <2>8
  <2> QED  BY <1>1, <1>2, <1>3, <2>1, <2>2, <2>3, <2>4, <2>8, <2>9, WorkNonce
<1>6. CASE ~(from.bal >= cost)
  <2>1. changes' = changes /\ Goto(i, "failed")
    BY <1>6 DEF ReadFrom
  <2>2. changes' \in [Positions -> SUBSET Changes]
    BY <2>1 DEF ShapeInv
  <2>3. ShapeInv'
    BY <1>1, <1>2, <1>3, <1>4, <2>1, <2>2, WorkShape
  <2> QED  BY <1>1, <1>2, <1>3, <2>1, <2>3, WorkNonce
<1> QED  BY <1>5, <1>6

LEMMA CreditedIs ==
    ASSUME ShapeInv, NonceInv, NEW i \in Positions, NEW d \in Changes,
           d.addr = block[i].from, d.acc.nonce > 0, d.acc.nonce <= Highest(d.addr)
    PROVE  LET e == Credited(block[i], d.acc)
           IN  e \in Changes /\ e.acc.nonce <= Highest(e.addr)
<1>1. d.addr \in Address /\ d.acc \in Account /\ d.acc.nonce \in Nat
  BY DEF Changes, Account
<1>2. MaxBlocks \in Nat /\ delivered \in Nat /\ delivered <= MaxBlocks /\ accounts \in States
  BY ExecutorAssumption DEF ShapeInv
<1>3. /\ block[i].from \in Addrs /\ block[i].to \in Address \cup {Create} /\ block[i].value \in Nat
  BY TxIs
<1>4. \A a \in Address : Highest(a) \in Int /\ 0 <= Highest(a) /\ Highest(a) <= 2 * delivered
  BY HighestIs
<1>5. CASE block[i].to = Create
  <2>1. PICK n \in Nat : n = d.acc.nonce - 1
    BY <1>1
  <2>2. Highest(d.addr) \in Int /\ Highest(d.addr) <= 2 * delivered
    BY <1>1, <1>4
  <2>3. n \in Nonces
    BY <1>1, <1>2, <2>1, <2>2 DEF Nonces
  <2>4. PICK a \in Address : a = <<block[i].from, n>>
    BY <1>3, <2>3 DEF Address, Created
  <2>5. PICK acc \in Account : acc = [bal |-> block[i].value, nonce |-> 0, code |-> TRUE]
    BY <1>3 DEF Account
  <2>6. Credited(block[i], d.acc) = [addr |-> a, acc |-> acc]
    BY <1>5, <2>1, <2>4, <2>5 DEF Credited
  <2>7. acc.nonce = 0 /\ 0 <= Highest(a)
    BY <1>4, <2>5
  <2> QED  BY <2>6, <2>7 DEF Changes
<1>6. CASE block[i].to # Create
  <2>1. PICK a \in Address : a = block[i].to
    BY <1>3, <1>6
  <2>2. PICK acc \in Account : acc = Account0(a)
    <3>1. Default \in Account
      BY DEF Default, Account
    <3> QED  BY <1>2, <3>1 DEF Account0, States
  <2>3. acc.nonce \in Nat /\ acc.nonce <= Highest(a) /\ acc.bal \in Nat
    <3>1. CASE accounts[a] = NoAccount
      BY <1>4, <2>2, <3>1 DEF Account0, Default
    <3>2. CASE accounts[a] # NoAccount
      BY <2>2, <3>2 DEF Account0, NonceInv, Account
    <3> QED  BY <2>2, <3>1, <3>2 DEF Account
  <2>4. PICK more \in Account : more = [acc EXCEPT !.bal = @ + block[i].value] /\ more.nonce = acc.nonce
    <3>1. PICK b \in Nat : b = acc.bal + block[i].value
      BY <1>3, <2>3
    <3>2. [acc EXCEPT !.bal = b] \in Account /\ [acc EXCEPT !.bal = b].nonce = acc.nonce
      BY <3>1 DEF Account
    <3> QED  BY <3>1, <3>2
  <2>5. Credited(block[i], d.acc) = [addr |-> a, acc |-> more]
    BY <1>6, <2>1, <2>2, <2>4 DEF Credited
  <2>6. PICK e : e = Credited(block[i], d.acc) /\ e = [addr |-> a, acc |-> more]
    BY <2>5
  <2>7. e \in Changes /\ e.addr = a /\ e.acc.nonce = acc.nonce
    <3>1. e.addr = a /\ e.acc = more
      BY <2>6
    <3>2. e \in Changes
      BY <2>6 DEF Changes
    <3> QED  BY <2>4, <3>1, <3>2
  <2>8. e.acc.nonce <= Highest(e.addr)
    BY <2>3, <2>7
  <2> QED  BY <2>6, <2>7, <2>8
<1> QED  BY <1>5, <1>6

LEMMA GasUsedIs == \A tx : GasUsed(tx) \in Nat
BY ExecutorAssumption DEF GasUsed

(* The refund changes a balance and nothing else.                           *)
LEMMA RefundIs ==
    ASSUME NEW c \in Changes, NEW r \in Nat
    PROVE  LET e == [c EXCEPT !.acc.bal = @ + r]
           IN  e \in Changes /\ e.addr = c.addr /\ e.acc.nonce = c.acc.nonce
BY DEF Changes, Account

LEMMA ReadToNonce ==
    ASSUME ShapeInv, NonceInv, NEW i \in Positions, ReadTo(i) PROVE ShapeInv' /\ NonceInv'
<1>1. pc[i] = "read_to" /\ UNCHANGED accounts /\ UNCHANGED Rest
  BY DEF ReadTo
<1>2. pc[i] \in Active /\ {"apply", "failed"} \subseteq Labels /\ "apply" \notin Early /\ "failed" \notin Early
  BY <1>1 DEF Labels, Early, Active
<1>3. phase = "running" /\ groups # <<>> /\ i \in Head(groups)
  BY <1>2, AtWork
<1>4. accounts' \in States /\ changes \in [Positions -> SUBSET Changes]
  BY <1>1 DEF ShapeInv
<1>5. PICK d \in Changes : /\ changes[i] = {d} /\ d.addr = block[i].from /\ d.acc.nonce > 0
                           /\ d.acc.nonce <= Highest(d.addr)
  BY <1>1, <1>4 DEF NonceInv
<1>6. (CHOOSE c \in changes[i] : TRUE) = d
  BY <1>5
<1>7. CASE GasUsed(block[i]) > block[i].gas
  <2>1. changes' = [changes EXCEPT ![i] = {}] /\ Goto(i, "failed")
    BY <1>7 DEF ReadTo
  <2>2. changes' \in [Positions -> SUBSET Changes] /\ changes'[i] = {}
        /\ \A j \in Positions : j # i => changes'[j] = changes[j]
    BY <1>4, <2>1
  <2>3. ShapeInv'
    BY <1>1, <1>2, <1>3, <1>4, <2>1, <2>2, WorkShape
  <2> QED  BY <1>1, <1>2, <1>3, <2>1, <2>2, <2>3, WorkNonce
<1>8. CASE ~(GasUsed(block[i]) > block[i].gas)
  <2> DEFINE credited == Credited(block[i], d.acc)
             entries == IF credited.addr = d.addr THEN {credited} ELSE {d, credited}
             refund == (block[i].gas - GasUsed(block[i])) * GasPrice
             After(c) == IF c.addr = block[i].from THEN [c EXCEPT !.acc.bal = @ + refund] ELSE c
             S == {After(c) : c \in entries}
  <2>1. changes' = [changes EXCEPT ![i] = S] /\ Goto(i, "apply")
    BY <1>6, <1>8 DEF ReadTo
  <2>2. refund \in Nat
    <3>1. GasUsed(block[i]) \in Nat /\ block[i].gas \in Nat /\ GasPrice \in Nat
      BY GasUsedIs, TxIs
    <3> QED  BY <1>8, <3>1, Remainder
  <2>3. \A c \in entries : c \in Changes /\ c.acc.nonce <= Highest(c.addr)
    BY <1>5, CreditedIs
  <2>4. entries # {}
    OBVIOUS
  <2> HIDE DEF refund, credited, entries
  <2>5. \A e \in S : e \in Changes /\ e.acc.nonce <= Highest(e.addr)
    <3> SUFFICES ASSUME NEW c \in entries
                 PROVE  After(c) \in Changes /\ After(c).acc.nonce <= Highest(After(c).addr)
      OBVIOUS
    <3>1. After(c) \in Changes /\ After(c).addr = c.addr /\ After(c).acc.nonce = c.acc.nonce
      BY <2>2, <2>3, RefundIs
    <3> QED  BY <2>3, <3>1
  <2>6. S # {}
    BY <2>4
  <2> HIDE DEF S
  <2>7. changes' \in [Positions -> SUBSET Changes] /\ changes'[i] = S
        /\ \A j \in Positions : j # i => changes'[j] = changes[j]
    BY <1>4, <2>1, <2>5
  <2>8. ShapeInv'
    BY <1>1, <1>2, <1>3, <1>4, <2>1, <2>7, WorkShape
  <2>9. \A e \in S : e.acc.nonce <= Highest(e.addr)'
    <3> SUFFICES ASSUME NEW e \in S PROVE e.acc.nonce <= Highest(e.addr)'
      OBVIOUS
    <3>1. PICK a \in Address : a = e.addr
      BY <2>5 DEF Changes
    <3>2. e.acc.nonce \in Nat /\ e.acc.nonce <= Highest(a)
      BY <2>5, <3>1 DEF Changes, Account
    <3>3. UNCHANGED <<block, delivered, phase>> /\ pc' = [pc EXCEPT ![i] = "apply"]
      BY <1>1, <2>1 DEF Rest, Goto
    <3>4. Highest(a) \in Int /\ Highest(a)' \in Int /\ Highest(a) <= Highest(a)'
      BY <1>2, <1>3, <3>3, HighestGrows, HighestIs
    <3>5. e.acc.nonce <= Highest(a)'
      BY <3>2, <3>4
    <3> QED  BY <3>1, <3>5
  <2> QED  BY <1>1, <1>2, <1>3, <2>1, <2>6, <2>7, <2>8, <2>9, WorkNonce
<1> QED  BY <1>7, <1>8

LEMMA ApplyNonce ==
    ASSUME ShapeInv, NonceInv, NEW i \in Positions, Apply(i) PROVE ShapeInv' /\ NonceInv'
<1>1. pc[i] = "apply" /\ UNCHANGED Rest
  BY DEF Apply
<1>2. pc[i] \in Active /\ {"apply", "done"} \subseteq Labels /\ "apply" \notin Early /\ "done" \notin Early
  BY <1>1 DEF Labels, Early, Active
<1>3. phase = "running" /\ groups # <<>> /\ i \in Head(groups)
  BY <1>2, AtWork
<1>4. PICK c \in changes[i] : /\ accounts' = [accounts EXCEPT ![c.addr] = c.acc]
                              /\ changes' = [changes EXCEPT ![i] = @ \ {c}]
                              /\ Goto(i, IF changes[i] = {c} THEN "done" ELSE "apply")
  BY DEF Apply
<1>5. PICK l \in {"apply", "done"} : Goto(i, l) /\ (l = "apply" => changes[i] # {c})
  BY <1>4
<1>6. accounts \in States /\ changes \in [Positions -> SUBSET Changes]
  BY DEF ShapeInv
<1>7. c \in Changes /\ c.addr \in Address /\ c.acc \in Account /\ c.acc.nonce \in Nat
  BY <1>6 DEF Changes, Account
<1>8. accounts' \in States /\ \A a \in Address : accounts'[a] = IF a = c.addr THEN c.acc ELSE accounts[a]
  BY <1>4, <1>6, <1>7 DEF States
<1>9. changes' \in [Positions -> SUBSET Changes] /\ changes'[i] = changes[i] \ {c}
      /\ \A j \in Positions : j # i => changes'[j] = changes[j]
  BY <1>4, <1>6
<1>10. ShapeInv'
  BY <1>1, <1>2, <1>3, <1>5, <1>8, <1>9, WorkShape
<1>11. PICK a \in Address : a = c.addr /\ c.acc.nonce <= Highest(a)
  BY <1>7 DEF NonceInv
<1>12. c.acc.nonce <= Highest(a)'
  <2>1. UNCHANGED <<block, delivered, phase>> /\ pc' = [pc EXCEPT ![i] = l]
    BY <1>1, <1>5 DEF Rest, Goto
  <2>2. Highest(a) \in Int /\ Highest(a)' \in Int /\ Highest(a) <= Highest(a)'
    BY <1>2, <1>3, <1>5, <2>1, HighestGrows, HighestIs
  <2> QED  BY <1>7, <1>11, <2>2
<1>13. c.acc # NoAccount
  BY <1>7, ExecutorAssumption
<1>14. \A b \in Address : \/ accounts'[b] = accounts[b]
                          \/ accounts'[b] # NoAccount /\ accounts'[b].nonce <= Highest(b)'
  BY <1>8, <1>11, <1>12, <1>13
<1>15. l = "apply" => changes'[i] # {}
  BY <1>5, <1>9
<1> QED  BY <1>1, <1>2, <1>3, <1>5, <1>9, <1>10, <1>14, <1>15, WorkNonce

(* Between two blocks, and when a group has ended, no transaction is with a *)
(* worker.                                                                  *)
LEMMA NoneAtWork ==
    ASSUME ShapeInv, phase # "running" \/ groups = <<>> \/ GroupEnded
    PROVE  \A i \in Positions : pc[i] \notin Active
<1>1. ASSUME NEW i \in Positions, pc[i] \in Active PROVE FALSE
  <2>1. phase = "running" /\ groups # <<>> /\ i \in Head(groups)
    BY <1>1, AtWork
  <2>2. pc[i] \in {"done", "failed"}
    BY <2>1 DEF GroupEnded, Ended
  <2> QED  BY <1>1, <2>2 DEF Active
<1> QED  BY <1>1

LEMMA ControlNonce ==
    ASSUME ShapeInv, NonceInv, Control PROVE ShapeInv' /\ NonceInv'
<1>1. UNCHANGED <<accounts, delivered, block, pc, changes, start>>
      /\ Positions' = Positions
  BY DEF Control, NextGroup, BlockFails, BlockExecuted, CommitState, LogError, Positions
<1>2. /\ phase' \in {"waiting", "running", "ok", "err", "dead"}
      /\ phase # "waiting" /\ phase' # "running" => phase' = phase \/ phase \in {"ok", "err", "running"}
      /\ phase # "waiting"
      /\ phase' = "running" => phase = "running"
      /\ committed' \in States
  BY DEF Control, NextGroup, BlockFails, BlockExecuted, CommitState, LogError, ShapeInv
<1>3. groups' \in Seq(SUBSET Positions)
  <2>1. groups \in Seq(SUBSET Positions)
    BY DEF ShapeInv
  <2>2. groups' = groups \/ (groups # <<>> /\ groups' = Tail(groups))
    BY DEF Control, NextGroup, BlockFails, BlockExecuted, CommitState, LogError, GroupOk, GroupEnded
  <2> QED  BY <2>1, <2>2
<1>4. \A i \in Positions : pc[i] \notin Active
  <2>1. phase # "running" \/ groups = <<>> \/ GroupEnded
    BY DEF Control, NextGroup, BlockFails, BlockExecuted, CommitState, LogError, GroupOk
  <2> QED  BY <2>1, NoneAtWork
<1>5. ShapeInv'
  BY <1>1, <1>2, <1>3, <1>4 DEF ShapeInv
<1>6. \A a \in Address : Highest(a) \in Int /\ Highest(a)' \in Int /\ Highest(a) <= Highest(a)'
  <2> SUFFICES ASSUME NEW a \in Address
               PROVE  Highest(a) \in Int /\ Highest(a)' \in Int /\ Highest(a) <= Highest(a)'
    OBVIOUS
  <2>1. Past(a)' = Past(a)
    BY <1>1 DEF Past
  <2>2. Cardinality(Past(a)) \in 0 .. 2 /\ Cardinality(Past(a))' = Cardinality(Past(a))
        /\ delivered \in Nat /\ delivered' = delivered
    BY <1>1, <2>1, PastIs DEF ShapeInv
  <2> QED  BY <1>2, <2>2 DEF Highest
<1>7. \A a \in Address : accounts'[a] # NoAccount => accounts'[a].nonce <= Highest(a)'
  <2> SUFFICES ASSUME NEW a \in Address, accounts[a] # NoAccount PROVE accounts[a].nonce <= Highest(a)'
    BY <1>1
  <2>1. accounts[a].nonce \in Nat
    BY DEF ShapeInv, States, Account
  <2>2. accounts[a].nonce <= Highest(a)
    BY DEF NonceInv
  <2>3. Highest(a) \in Int /\ Highest(a)' \in Int /\ Highest(a) <= Highest(a)'
    BY <1>6
  <2> QED  BY <2>1, <2>2, <2>3
<1>8. \A i \in Positions : \A c \in changes[i] : c.acc.nonce <= Highest(c.addr)'
  <2> SUFFICES ASSUME NEW i \in Positions, NEW c \in changes[i] PROVE c.acc.nonce <= Highest(c.addr)'
    OBVIOUS
  <2>1. PICK a \in Address : a = c.addr /\ c.acc.nonce \in Nat
    BY DEF ShapeInv, Changes, Account
  <2>2. c.acc.nonce <= Highest(a)
    BY <2>1 DEF NonceInv
  <2>3. Highest(a) \in Int /\ Highest(a)' \in Int /\ Highest(a) <= Highest(a)'
    BY <1>6
  <2> QED  BY <2>1, <2>2, <2>3
<1> QED  BY <1>1, <1>5, <1>7, <1>8 DEF NonceInv

LEMMA DeliverNonce ==
    ASSUME ShapeInv, NonceInv, NEW b \in Blocks, Deliver(b) PROVE ShapeInv' /\ NonceInv'
<1>1. /\ phase = "waiting" /\ phase' = "running" /\ delivered < MaxBlocks /\ delivered' = delivered + 1
      /\ block' = b /\ groups' = GroupByDependency(b) /\ start' = accounts
      /\ pc' = [i \in DOMAIN b |-> "queued"] /\ changes' = [i \in DOMAIN b |-> {}]
      /\ UNCHANGED <<accounts, committed>>
  BY DEF Deliver
<1>2. /\ b \in Seq(Transaction) /\ DOMAIN b = 1 .. Len(b) /\ Len(b) \in Nat /\ Positions' = DOMAIN b
      /\ \A a \in Addrs : Cardinality({i \in DOMAIN b : b[i].from = a}) <= 2
      /\ MaxBlocks \in Nat
  BY <1>1, ExecutorAssumption DEF Positions
<1>3. groups' \in Seq(SUBSET (DOMAIN b))
  BY <1>1, <1>2, GroupsWithin
<1>4. \A i \in DOMAIN b : pc'[i] = "queued" /\ changes'[i] = {}
  BY <1>1
<1>5. ShapeInv'
  <2>1. "queued" \in Labels /\ "queued" \notin Active
    BY DEF Labels, Active
  <2>2. delivered' \in 0 .. MaxBlocks /\ delivered' > 0
    BY <1>1, <1>2 DEF ShapeInv
  <2>3. pc' \in [Positions' -> Labels] /\ changes' \in [Positions' -> SUBSET Changes]
    BY <1>1, <1>2, <2>1
  <2>4. \A a \in Addrs : Cardinality({i \in DOMAIN block' : block'[i].from = a}) <= 2
    BY <1>1, <1>2
  <2> QED  BY <1>1, <1>2, <1>3, <1>4, <2>1, <2>2, <2>3, <2>4 DEF ShapeInv
<1>6. \A a \in Address : accounts'[a] # NoAccount => accounts'[a].nonce <= Highest(a)'
  <2> SUFFICES ASSUME NEW a \in Address, accounts[a] # NoAccount PROVE accounts[a].nonce <= Highest(a)'
    BY <1>1
  <2>1. Past(a)' = {}
    BY <1>2, <1>4 DEF Past, Early
  <2>2. Cardinality(Past(a))' = 0
    BY <2>1, FS_EmptySet
  <2>3. Highest(a)' = 2 * delivered /\ Highest(a) = 2 * delivered
    BY <1>1, <2>2 DEF Highest, ShapeInv
  <2> QED  BY <2>3 DEF NonceInv
<1> QED  BY <1>2, <1>4, <1>5, <1>6 DEF NonceInv

LEMMA ExecInit == Init => ShapeInv /\ NonceInv
<1> SUFFICES ASSUME Init PROVE ShapeInv /\ NonceInv
  OBVIOUS
<1>1. /\ block = <<>> /\ Positions = {} /\ groups = <<>> /\ delivered = 0 /\ phase = "waiting"
      /\ pc = <<>> /\ changes = <<>> /\ start = accounts /\ committed = accounts
  <2>1. /\ block = <<>> /\ groups = <<>> /\ delivered = 0 /\ phase = "waiting"
        /\ pc = <<>> /\ changes = <<>> /\ start = accounts /\ committed = accounts
    BY DEF Init
  <2>2. DOMAIN << >> = {}
    OBVIOUS
  <2> QED  BY <2>1, <2>2 DEF Positions
<1>2. \A a \in Address : accounts[a] =
          CASE a \in Addrs -> [Default EXCEPT !.bal = Genesis[a]]
            [] a \in Contracts -> [Default EXCEPT !.bal = Genesis[a], !.code = TRUE]
            [] OTHER -> NoAccount
  BY DEF Init
<1>3. ASSUME NEW g \in Nat
      PROVE  /\ [Default EXCEPT !.bal = g] = [bal |-> g, nonce |-> 0, code |-> FALSE]
             /\ [Default EXCEPT !.bal = g, !.code = TRUE] = [bal |-> g, nonce |-> 0, code |-> TRUE]
  <2>1. PICK no, yes : no = FALSE /\ yes = TRUE
    OBVIOUS
  <2>2. PICK d : d = Default
    OBVIOUS
  <2>3. d = [bal |-> 0, nonce |-> 0, code |-> no]
    BY <2>1, <2>2, Zenon DEF Default
  <2>4. [d EXCEPT !.bal = g] = [bal |-> g, nonce |-> 0, code |-> no]
    BY <2>3
  <2>5. [d EXCEPT !.bal = g, !.code = yes] = [[d EXCEPT !.bal = g] EXCEPT !.code = yes]
    BY <2>3
  <2>6. [d EXCEPT !.bal = g, !.code = yes] = [bal |-> g, nonce |-> 0, code |-> yes]
    <3>1. [[bal |-> g, nonce |-> 0, code |-> no] EXCEPT !.code = yes] = [bal |-> g, nonce |-> 0, code |-> yes]
      OBVIOUS
    <3> QED  BY <2>4, <2>5, <3>1
  <2> QED  BY <2>1, <2>2, <2>4, <2>6, Zenon
<1>4. ASSUME NEW a \in Address
      PROVE  accounts[a] \in Account \cup {NoAccount} /\ (accounts[a] # NoAccount => accounts[a].nonce = 0)
  <2>1. ASSUME NEW g \in Nat, NEW x \in BOOLEAN
        PROVE  LET r == [bal |-> g, nonce |-> 0, code |-> x] IN r \in Account /\ r.nonce = 0
    BY DEF Account
  <2>2. CASE a \in Addrs
    <3>1. PICK g \in Nat : g = Genesis[a]
      BY <2>2, ExecutorAssumption
    <3>2. accounts[a] = [Default EXCEPT !.bal = Genesis[a]]
      BY <1>2, <2>2, ExecutorAssumption
    <3>3. accounts[a] = [bal |-> g, nonce |-> 0, code |-> FALSE] /\ FALSE \in BOOLEAN
      BY <1>3, <3>1, <3>2, Zenon
    <3> QED  BY <2>1, <3>3, Zenon
  <2>3. CASE a \in Contracts /\ a \notin Addrs
    <3>1. PICK g \in Nat : g = Genesis[a]
      BY <2>3, ExecutorAssumption
    <3>2. accounts[a] = [Default EXCEPT !.bal = Genesis[a], !.code = TRUE]
      BY <1>2, <2>3
    <3>3. accounts[a] = [bal |-> g, nonce |-> 0, code |-> TRUE] /\ TRUE \in BOOLEAN
      BY <1>3, <3>1, <3>2, Zenon
    <3> QED  BY <2>1, <3>3, Zenon
  <2>4. CASE a \notin Contracts /\ a \notin Addrs
    BY <1>2, <2>4
  <2> QED  BY <2>2, <2>3, <2>4
<1>5. accounts \in States
  BY <1>4 DEF Init, States
<1>6. \A a \in Addrs : Cardinality({i \in DOMAIN block : block[i].from = a}) <= 2
  <2> SUFFICES ASSUME NEW a \in Addrs PROVE Cardinality({i \in DOMAIN block : block[i].from = a}) <= 2
    OBVIOUS
  <2>1. {i \in DOMAIN block : block[i].from = a} = {}
    BY <1>1
  <2> QED  BY <2>1, FS_EmptySet
<1>7. ShapeInv
  BY <1>1, <1>5, <1>6, ExecutorAssumption DEF ShapeInv
<1>8. \A a \in Address : Highest(a) = 0
  BY <1>1 DEF Highest
<1> QED  BY <1>1, <1>4, <1>7, <1>8 DEF NonceInv

LEMMA ExecNonceStep == ASSUME ShapeInv, NonceInv, [Next]_vars PROVE ShapeInv' /\ NonceInv'
<1>1. CASE UNCHANGED vars
  <2>1. UNCHANGED <<accounts, committed, delivered, phase, block, groups, pc, changes, start>>
        /\ Positions' = Positions
    BY <1>1 DEF vars, Positions
  <2>2. \A a : Highest(a)' = Highest(a)
    BY <2>1 DEF Highest, Past
  <2> QED  BY <2>1, <2>2 DEF ShapeInv, NonceInv
<1>2. CASE \E i \in Positions : Work(i)
  BY <1>2, TakeNonce, ValidateNonce, ReadFromNonce, ReadToNonce, ApplyNonce DEF Work
<1> QED  BY <1>1, <1>2, ControlNonce, DeliverNonce DEF Next

Own(i) == Touches(block[i]) \cap Address

LEMMA PartFrame ==
    ASSUME ShapeInv, ConflictFree(block), NEW i \in Positions, NEW j \in Positions, j # i, Part(j),
           UNCHANGED <<block, start>>, pc'[j] = pc[j], changes'[j] = changes[j],
           \A a \in Address \ Touches(block[i]) : accounts'[a] = accounts[a]
    PROVE  Part(j)'
<1>1. \A a \in Touches(block[j]) \cap Address : accounts'[a] = accounts[a]
  BY DEF ConflictFree, Positions
<1> QED  BY <1>1 DEF Part

LEMMA WorkParts ==
    ASSUME ShapeInv, PartsInv, NEW i \in Positions, NEW l \in Labels, Goto(i, l), UNCHANGED Rest,
           phase = "running", groups # <<>>,
           \A j \in Positions : j # i => changes'[j] = changes[j],
           ConflictFree(block) => /\ Part(i)'
                                  /\ \A a \in Address \ Touches(block[i]) : accounts'[a] = accounts[a]
    PROVE  PartsInv'
<1> SUFFICES ASSUME ConflictFree(block)' PROVE PartsInv'
  BY DEF PartsInv
<1>1. /\ UNCHANGED <<committed, delivered, phase, block, groups, start>>
      /\ Positions' = Positions /\ pc' = [pc EXCEPT ![i] = l]
  BY DEF Rest, Positions, Goto
<1>2. ConflictFree(block)
  BY <1>1 DEF ConflictFree
<1>3. \A j \in Positions : j # i => pc'[j] = pc[j]
  BY <1>1 DEF ShapeInv
<1>4. /\ groups \in {<<>>, <<Positions>>} /\ \A j \in Positions : Part(j)
      /\ \A a \in Address : (\A j \in Positions : a \notin Touches(block[j])) => accounts[a] = start[a]
  BY <1>2 DEF PartsInv
<1>5. \A j \in Positions : Part(j)'
  BY <1>1, <1>2, <1>3, <1>4, PartFrame
<1>6. \A a \in Address : (\A j \in Positions : a \notin Touches(block[j])) => accounts'[a] = start[a]
  BY <1>2, <1>4
<1> QED  BY <1>1, <1>4, <1>5, <1>6 DEF PartsInv

LEMMA OfPart ==
    ASSUME ShapeInv, PartsInv, ConflictFree(block), phase = "running", NEW i \in Positions
    PROVE  /\ Part(i) /\ block[i].from # block[i].to
           /\ block[i].from \in Own(i) /\ (block[i].to # Create => block[i].to \in Own(i))
<1>1. Part(i) /\ block[i].from # block[i].to
  BY DEF PartsInv, ConflictFree, Positions
<1>2. block[i].from \in Address /\ block[i].to \in Address \cup {Create}
  BY TxIs
<1> QED  BY <1>1, <1>2 DEF Own, Touches

LEMMA TakeParts ==
    ASSUME ShapeInv, PartsInv, NEW i \in Positions, Take(i) PROVE PartsInv'
<1>1. phase = "running" /\ groups # <<>> /\ pc[i] = "queued"
  BY TakeIs
<1>2. Goto(i, "validate") /\ UNCHANGED <<accounts, changes>> /\ UNCHANGED Rest
  BY DEF Take
<1>3. "validate" \in Labels /\ "validate" \in Early /\ "queued" \in Early
  BY DEF Labels, Early
<1>4. pc'[i] = "validate" /\ UNCHANGED <<block, start>>
  BY <1>2 DEF Goto, ShapeInv, Rest
<1>5. ASSUME ConflictFree(block) PROVE Part(i)'
  <2>1. \A a \in Own(i) : accounts[a] = start[a]
    BY <1>1, <1>3, <1>5, OfPart DEF Part, Own
  <2> QED  BY <1>2, <1>3, <1>4, <2>1 DEF Part, Own
<1> QED  BY <1>1, <1>2, <1>3, <1>5, WorkParts

LEMMA ValidateParts ==
    ASSUME ShapeInv, PartsInv, NEW i \in Positions, Validate(i) PROVE PartsInv'
<1>1. pc[i] = "validate" /\ UNCHANGED <<accounts, changes>> /\ UNCHANGED Rest
  BY DEF Validate
<1>2. pc[i] \in Active /\ pc[i] \in Early /\ {"read_from", "failed"} \subseteq Labels
  BY <1>1 DEF Labels, Early, Active
<1>3. phase = "running" /\ groups # <<>>
  BY <1>2, AtWork
<1>4. PICK l \in {"read_from", "failed"} :
         /\ Goto(i, l)
         /\ l = "read_from" <=> /\ block[i].signed /\ accounts[block[i].from] # NoAccount
                                /\ accounts[block[i].from].nonce = block[i].nonce
                                /\ accounts[block[i].from].bal >= TotalCost(block[i])
                                /\ block[i].gas >= BaseGas
  BY DEF Validate
<1>5. pc'[i] = l /\ UNCHANGED <<block, start>>
  BY <1>1, <1>2, <1>4 DEF Goto, ShapeInv, Rest
<1>6. ASSUME ConflictFree(block) PROVE Part(i)'
  <2>1. \A a \in Own(i) : accounts[a] = start[a]
    BY <1>2, <1>3, <1>6, OfPart DEF Part, Own
  <2>2. accounts[block[i].from] = start[block[i].from]
    BY <1>3, <1>6, <2>1, OfPart
  <2>3. l = "read_from" <=> RefValid(start, block[i])
    BY <1>4, <2>2 DEF RefValid
  <2>4. l = "failed" => ~RefSucceeds(start, block[i])
    BY <2>3 DEF RefSucceeds
  <2> QED  BY <1>1, <1>5, <2>1, <2>3, <2>4 DEF Part, Own
<1> QED  BY <1>1, <1>2, <1>3, <1>4, <1>6, WorkParts

LEMMA ReadFromParts ==
    ASSUME ShapeInv, PartsInv, NEW i \in Positions, ReadFrom(i) PROVE PartsInv'
<1>1. pc[i] = "read_from" /\ UNCHANGED accounts /\ UNCHANGED Rest
  BY DEF ReadFrom
<1>2. pc[i] \in Active /\ pc[i] \in Early /\ {"read_to", "failed"} \subseteq Labels
  BY <1>1 DEF Labels, Early, Active
<1>3. phase = "running" /\ groups # <<>>
  BY <1>2, AtWork
<1>4. PICK l \in {"read_to", "failed"} : Goto(i, l)
  BY DEF ReadFrom
<1>5. pc'[i] = l /\ UNCHANGED <<block, start>>
  BY <1>1, <1>2, <1>4 DEF Goto, ShapeInv, Rest
<1>6. \A j \in Positions : j # i => changes'[j] = changes[j]
  BY DEF ReadFrom, ShapeInv
<1>7. ASSUME ConflictFree(block) PROVE Part(i)'
  <2>1. RefValid(start, block[i]) /\ \A a \in Own(i) : accounts[a] = start[a]
    BY <1>1, <1>2, <1>3, <1>7, OfPart DEF Part, Own
  <2>2. accounts[block[i].from] = start[block[i].from]
    BY <1>3, <1>7, <2>1, OfPart
  <2>3. accounts[block[i].from].bal >= TotalCost(block[i])
    BY <2>1, <2>2 DEF RefValid
  <2>4. /\ Goto(i, "read_to")
        /\ changes' = [changes EXCEPT ![i] =
              {[addr |-> block[i].from,
                acc |-> [start[block[i].from] EXCEPT !.bal = @ - TotalCost(block[i]), !.nonce = @ + 1]]}]
    BY <2>2, <2>3 DEF ReadFrom
  <2>5. pc'[i] = "read_to"
    BY <2>4 DEF Goto, ShapeInv
  <2>6. changes'[i] =
              {[addr |-> block[i].from,
                acc |-> [start[block[i].from] EXCEPT !.bal = @ - TotalCost(block[i]), !.nonce = @ + 1]]}
    BY <2>4 DEF ShapeInv
  <2> QED  BY <1>1, <1>5, <2>1, <2>5, <2>6 DEF Part, Own
<1> QED  BY <1>1, <1>2, <1>3, <1>4, <1>6, <1>7, WorkParts

LEMMA ApplyParts ==
    ASSUME ShapeInv, PartsInv, NEW i \in Positions, Apply(i) PROVE PartsInv'
<1>1. pc[i] = "apply" /\ UNCHANGED Rest
  BY DEF Apply
<1>2. pc[i] \in Active /\ {"apply", "done"} \subseteq Labels
  BY <1>1 DEF Labels, Active
<1>3. phase = "running" /\ groups # <<>>
  BY <1>2, AtWork
<1>4. PICK c \in changes[i] : /\ accounts' = [accounts EXCEPT ![c.addr] = c.acc]
                              /\ changes' = [changes EXCEPT ![i] = @ \ {c}]
                              /\ Goto(i, IF changes[i] = {c} THEN "done" ELSE "apply")
  BY DEF Apply
<1>5. PICK l \in {"apply", "done"} : Goto(i, l) /\ (l = "done" => changes[i] = {c})
  BY <1>4
<1>6. pc'[i] = l /\ UNCHANGED <<block, start>>
  BY <1>1, <1>2, <1>5 DEF Goto, ShapeInv, Rest
<1>7. /\ changes'[i] = changes[i] \ {c} /\ \A j \in Positions : j # i => changes'[j] = changes[j]
      /\ c.addr \in Address
      /\ \A a \in Address : accounts'[a] = IF a = c.addr THEN c.acc ELSE accounts[a]
  BY <1>4 DEF ShapeInv, States, Changes
<1>8. ASSUME ConflictFree(block)
      PROVE  Part(i)' /\ \A a \in Address \ Touches(block[i]) : accounts'[a] = accounts[a]
  <2> DEFINE end == RefStep(start, block[i])
  <2>1. /\ RefSucceeds(start, block[i])
        /\ \A x \in changes[i] : x.addr \in Own(i) /\ x.acc = end[x.addr]
        /\ \A a \in Own(i) : accounts[a] = end[a] \/ \E x \in changes[i] : x.addr = a
    BY <1>1, <1>3, <1>8, OfPart DEF Part, Own
  <2>2. \A a \in Own(i) : accounts'[a] = end[a] \/ \E x \in changes'[i] : x.addr = a
    BY <1>7, <2>1 DEF Own
  <2>3. \A x \in changes'[i] : x.addr \in Own(i) /\ x.acc = end[x.addr]
    BY <1>7, <2>1
  <2>4. l = "done" => changes'[i] = {}
    BY <1>5, <1>7
  <2>5. end' = end
    BY <1>6
  <2>6. pc'[i] \notin Early \cup {"read_to", "failed"}
    BY <1>6 DEF Early
  <2>7. Part(i)'
    BY <1>6, <2>1, <2>2, <2>3, <2>4, <2>6 DEF Part, Own
  <2> QED  BY <1>7, <2>1, <2>7 DEF Own
<1> QED  BY <1>1, <1>2, <1>3, <1>5, <1>7, <1>8, WorkParts

(* The sender's entry before the refund, as read_from leaves it.            *)
Entry(s, tx) ==
    [addr |-> tx.from,
     acc |-> [s[tx.from] EXCEPT !.bal = @ - TotalCost(tx), !.nonce = @ + 1]]

LEMMA EntryIs ==
    ASSUME ShapeInv, NEW i \in Positions, RefValid(start, block[i])
    PROVE  LET tx == block[i]
               d == Entry(start, tx)
           IN  /\ d \in Changes /\ d.addr = tx.from /\ d.acc.nonce = tx.nonce + 1
               /\ d.acc = [bal |-> start[tx.from].bal - TotalCost(tx),
                           nonce |-> start[tx.from].nonce + 1, code |-> start[tx.from].code]
<1>1. block[i].from \in Address /\ TotalCost(block[i]) \in Nat /\ block[i].nonce \in Nat
  BY TxIs
<1>2. PICK s \in Account : /\ s = start[block[i].from] /\ s.bal >= TotalCost(block[i])
                           /\ s.nonce = block[i].nonce
  BY <1>1 DEF RefValid, ShapeInv, States
<1>3. s.bal \in Nat /\ s.nonce \in Nat
  BY DEF Account
<1>4. PICK p \in Nat, q \in Nat : p = s.bal - TotalCost(block[i]) /\ q = s.nonce + 1
  BY <1>1, <1>2, <1>3
<1>5. PICK e : e = [s EXCEPT !.bal = p, !.nonce = q]
  OBVIOUS
<1>6. e = [bal |-> p, nonce |-> q, code |-> s.code] /\ e \in Account
  BY <1>5, TwoFields, Zenon
<1>7. e.nonce = q
  BY <1>6
<1>8. Entry(start, block[i]) = [addr |-> block[i].from, acc |-> e]
  BY <1>2, <1>4, <1>5 DEF Entry
<1> QED  BY <1>1, <1>2, <1>4, <1>6, <1>7, <1>8 DEF Changes

(* With the refund the sender has paid for the gas that was used.           *)
LEMMA RefundedIsPaid ==
    ASSUME ShapeInv, NEW i \in Positions, RefValid(start, block[i]),
           NEW g \in Nat, g = RefGas(start, block[i]), g <= block[i].gas
    PROVE  [Entry(start, block[i]) EXCEPT !.acc.bal = @ + (block[i].gas - g) * GasPrice]
             = [addr |-> block[i].from, acc |-> Paid(start, block[i])]
<1>1. /\ block[i].gas \in Nat /\ block[i].value \in Nat /\ GasPrice \in Nat /\ block[i].from \in Address
  BY TxIs
<1>2. PICK s \in Account : s = start[block[i].from]
  BY <1>1 DEF RefValid, ShapeInv, States
<1>3. PICK a \in Nat, b \in Nat, r \in Nat :
         /\ a = block[i].gas * GasPrice /\ b = g * GasPrice /\ r = (block[i].gas - g) * GasPrice
         /\ r = a - b
  <2>1. PICK n \in Nat, p \in Nat : n = block[i].gas /\ p = GasPrice /\ g <= n
    BY <1>1
  <2>2. n * p \in Nat /\ g * p \in Nat /\ (n - g) * p \in Nat /\ (n - g) * p = n * p - g * p
    BY <2>1, Remainder
  <2> QED  BY <2>1, <2>2
<1>4. PICK d : d = Entry(start, block[i])
  OBVIOUS
<1>5. /\ d \in Changes /\ d.addr = block[i].from
      /\ d.acc = [bal |-> s.bal - (block[i].value + a), nonce |-> s.nonce + 1, code |-> s.code]
  BY <1>2, <1>3, <1>4, EntryIs DEF TotalCost
<1>6. d.acc.bal + r = s.bal - block[i].value - b
  <2>1. d.acc.bal = s.bal - (block[i].value + a) /\ s.bal \in Nat
    BY <1>5 DEF Account
  <2> QED  BY <1>1, <1>3, <2>1
<1>7. [d EXCEPT !.acc.bal = @ + r] = [addr |-> d.addr, acc |-> [d.acc EXCEPT !.bal = d.acc.bal + r]]
  BY <1>5 DEF Changes
<1>8. [d.acc EXCEPT !.bal = d.acc.bal + r]
        = [bal |-> d.acc.bal + r, nonce |-> s.nonce + 1, code |-> s.code]
  BY <1>5
<1>9. Paid(start, block[i]) = [bal |-> s.bal - block[i].value - b, nonce |-> s.nonce + 1, code |-> s.code]
  BY <1>2, <1>3 DEF Paid
<1>10. [d EXCEPT !.acc.bal = @ + r] = [addr |-> block[i].from, acc |-> Paid(start, block[i])]
  BY <1>5, <1>6, <1>7, <1>8, <1>9
<1> QED  BY <1>3, <1>4, <1>10

Refunded(tx, from, used) ==
    LET credited == Credited(tx, from.acc)
        entries == IF credited.addr = from.addr THEN {credited} ELSE {from, credited}
        refund == (tx.gas - used) * GasPrice
    IN  {IF c.addr = tx.from THEN [c EXCEPT !.acc.bal = @ + refund] ELSE c : c \in entries}

LEMMA ReadToParts ==
    ASSUME ShapeInv, NonceInv, PartsInv, NEW i \in Positions, ReadTo(i) PROVE PartsInv'
<1>1. pc[i] = "read_to" /\ UNCHANGED accounts /\ UNCHANGED Rest
  BY DEF ReadTo
<1>2. pc[i] \in Active /\ {"apply", "failed"} \subseteq Labels
  BY <1>1 DEF Labels, Active
<1>3. phase = "running" /\ groups # <<>>
  BY <1>2, AtWork
<1>4. PICK l \in {"apply", "failed"} : Goto(i, l)
  BY DEF ReadTo
<1>5. pc'[i] = l /\ UNCHANGED <<block, start>>
  BY <1>1, <1>2, <1>4 DEF Goto, ShapeInv, Rest
<1>6. \A j \in Positions : j # i => changes'[j] = changes[j]
  BY DEF ReadTo, ShapeInv
<1>7. ASSUME ConflictFree(block) PROVE Part(i)'
  <2> DEFINE tx == block[i]
             d == Entry(start, tx)
             g == RefGas(start, tx)
             credited == Credited(tx, d.acc)
  <2>1. /\ RefValid(start, tx) /\ \A a \in Own(i) : accounts[a] = start[a]
        /\ changes[i] = {d} /\ tx.from # tx.to
    BY <1>1, <1>3, <1>7, OfPart DEF Part, Own, Entry
  <2>2. (CHOOSE c \in changes[i] : TRUE) = d
    BY <2>1
  <2>3. accounts[tx.from] = start[tx.from] /\ (tx.to # Create => accounts[tx.to] = start[tx.to])
    BY <1>3, <1>7, <2>1, OfPart
  <2>4. GasUsed(tx) = g /\ g \in Nat
    BY <2>3, GasNeeded DEF GasUsed, RefGas, IsContract
  <2>5. CASE g > tx.gas
    <3>1. Goto(i, "failed")
      BY <2>4, <2>5 DEF ReadTo
    <3>2. pc'[i] = "failed"
      BY <3>1 DEF Goto, ShapeInv
    <3>3. tx.gas \in Nat
      BY TxIs
    <3>4. ~RefSucceeds(start, tx)
      BY <2>4, <2>5, <3>3 DEF RefSucceeds
    <3> QED  BY <1>1, <1>5, <2>1, <3>2, <3>4 DEF Part, Own
  <2>6. CASE ~(g > tx.gas)
    <3> DEFINE refund == (tx.gas - g) * GasPrice
               entries == IF credited.addr = d.addr THEN {credited} ELSE {d, credited}
               S == {IF c.addr = tx.from THEN [c EXCEPT !.acc.bal = @ + refund] ELSE c : c \in entries}
               end == RefStep(start, tx)
               paid == [addr |-> tx.from, acc |-> Paid(start, tx)]
    <3>1. changes' = [changes EXCEPT ![i] = S] /\ Goto(i, "apply")
      <4> HIDE DEF d, g
      <4>1. ~(GasUsed(tx) > tx.gas)
        BY <2>4, <2>6
      <4>2. /\ changes' = [changes EXCEPT ![i] = Refunded(tx, CHOOSE c \in changes[i] : TRUE, GasUsed(tx))]
            /\ Goto(i, "apply")
        BY <4>1 DEF ReadTo, Refunded
      <4>3. Refunded(tx, CHOOSE c \in changes[i] : TRUE, GasUsed(tx)) = Refunded(tx, d, g)
        BY <2>2, <2>4
      <4>4. Refunded(tx, d, g) = S
        BY DEF Refunded
      <4> QED  BY <4>2, <4>3, <4>4
    <3>2. pc'[i] = "apply" /\ changes'[i] = S
      BY <3>1 DEF Goto, ShapeInv
    <3>3. tx.gas \in Nat /\ g <= tx.gas /\ RefSucceeds(start, tx) /\ tx \in Transaction /\ start \in States
      BY <2>1, <2>4, <2>6, TxIs DEF RefSucceeds, ShapeInv
    <3>4. d \in Changes /\ d.addr = tx.from /\ d.acc.nonce = tx.nonce + 1 /\ tx.nonce \in Nat
      BY <2>1, EntryIs, TxIs
    <3>5. Target(tx) # tx.from /\ Touches(tx) = {tx.from, Target(tx)} /\ tx.from \in Address
      BY <2>1, <3>3, SendersDiffer
    <3>6. credited \in Changes
      <4>1. d \in changes[i]
        BY <2>1
      <4>2. d.acc.nonce <= Highest(d.addr)
        BY <4>1 DEF NonceInv
      <4>3. d.acc.nonce > 0
        BY <3>4
      <4> HIDE DEF d
      <4> QED  BY <3>4, <4>2, <4>3, CreditedIs
    <3>7. credited = [addr |-> Target(tx), acc |-> Received(start, tx)]
      <4> HIDE DEF d
      <4>1. CASE tx.to = Create
        <5>1. d.acc.nonce - 1 = tx.nonce
          BY <3>4
        <5> QED  BY <4>1, <5>1 DEF Credited, Target, Received
      <4>2. CASE tx.to # Create
        <5>1. PICK m : m = start[tx.to]
          OBVIOUS
        <5>2. credited = [addr |-> tx.to, acc |-> [Account0(tx.to) EXCEPT !.bal = @ + tx.value]]
          BY <4>2 DEF Credited
        <5>3. CASE m = NoAccount
          <6>1. Account0(tx.to) = Default
            BY <2>3, <4>2, <5>1, <5>3 DEF Account0
          <6>2. PICK no : no = FALSE
            OBVIOUS
          <6>3. PICK z : z = Default
            OBVIOUS
          <6>4. z = [bal |-> 0, nonce |-> 0, code |-> no]
            BY <6>2, <6>3, Zenon DEF Default
          <6>5. tx.value \in Nat
            BY TxIs
          <6>6. [z EXCEPT !.bal = @ + tx.value] = [bal |-> tx.value, nonce |-> 0, code |-> no]
            BY <6>4, <6>5
          <6>7. Received(start, tx) = [bal |-> tx.value, nonce |-> 0, code |-> no]
            BY <4>2, <5>1, <5>3, <6>2, Zenon DEF Received
          <6>8. Target(tx) = tx.to
            BY <4>2 DEF Target
          <6> QED  BY <5>2, <6>1, <6>3, <6>6, <6>7, <6>8
        <5>4. CASE m # NoAccount
          BY <2>3, <4>2, <5>1, <5>2, <5>4 DEF Account0, Target, Received
        <5> QED  BY <5>3, <5>4
      <4> QED  BY <4>1, <4>2
    <3>8. [d EXCEPT !.acc.bal = @ + refund] = paid
      BY <2>1, <2>4, <3>3, RefundedIsPaid
    <3> HIDE DEF d, credited, refund
    <3>9. credited.addr = Target(tx) /\ credited.acc = Received(start, tx) /\ Target(tx) \in Address
      BY <3>6, <3>7 DEF Changes
    <3>10. entries = {d, credited}
      BY <3>4, <3>5, <3>9
    <3> HIDE DEF entries
    <3>11. S = {paid, credited}
      BY <3>4, <3>5, <3>8, <3>9, <3>10
    <3>12. end = [a \in Address |-> IF a = Target(tx) THEN Received(start, tx)
                                    ELSE IF a = tx.from THEN Paid(start, tx) ELSE start[a]]
      BY <2>1, <3>3, StepIs
    <3>13. end[tx.from] = Paid(start, tx) /\ end[Target(tx)] = Received(start, tx)
      BY <3>5, <3>9, <3>12
    <3> HIDE DEF end, S
    <3>14. paid.addr = tx.from /\ paid.acc = Paid(start, tx)
      OBVIOUS
    <3>15. \A c \in S : c.addr \in Own(i) /\ c.acc = end[c.addr]
      BY <3>5, <3>9, <3>11, <3>13, <3>14 DEF Own
    <3>16. \A a \in Own(i) : \E c \in S : c.addr = a
      BY <3>5, <3>9, <3>11, <3>14 DEF Own
    <3> QED  BY <1>5, <3>2, <3>3, <3>15, <3>16 DEF Part, Own, Early, end
  <2> QED  BY <2>5, <2>6
<1> QED  BY <1>1, <1>2, <1>3, <1>4, <1>6, <1>7, WorkParts

LEMMA ControlParts ==
    ASSUME ShapeInv, PartsInv, Control PROVE PartsInv'
<1> SUFFICES ASSUME ConflictFree(block)', phase' \in {"running", "ok", "err"} PROVE PartsInv'
  BY DEF PartsInv
<1>1. UNCHANGED <<accounts, block, pc, changes, start>> /\ Positions' = Positions
  BY DEF Control, NextGroup, BlockFails, BlockExecuted, CommitState, LogError, Positions
<1>2. ConflictFree(block) /\ phase = "running"
  BY <1>1 DEF Control, NextGroup, BlockFails, BlockExecuted, CommitState, LogError, ConflictFree
<1>3. /\ groups \in {<<>>, <<Positions>>} /\ \A j \in Positions : Part(j)
      /\ groups = <<>> => \A i \in Positions : pc[i] = "done"
      /\ \A a \in Address : (\A j \in Positions : a \notin Touches(block[j])) => accounts[a] = start[a]
  BY <1>2 DEF PartsInv
<1>4. \A j \in Positions : Part(j)'
  BY <1>1, <1>3 DEF Part
<1>5. \A a \in Address : (\A j \in Positions' : a \notin Touches(block'[j])) => accounts'[a] = start'[a]
  BY <1>1, <1>3
<1>6. CASE NextGroup
  <2>1. /\ groups # <<>> /\ groups' = Tail(groups) /\ phase' = phase
        /\ \A i \in Head(groups) : pc[i] = "done"
    BY <1>6 DEF NextGroup, GroupOk, GroupEnded
  <2>2. groups = <<Positions>> /\ Head(groups) = Positions /\ groups' = <<>>
    <3>1. PICK P : P = Positions
      OBVIOUS
    <3>2. Head(<<P>>) = P /\ Len(Tail(<<P>>)) = 0 /\ Tail(<<P>>) \in Seq({P})
      OBVIOUS
    <3>3. Tail(<<P>>) = << >>
      BY <3>2
    <3> QED  BY <1>3, <2>1, <3>1, <3>2, <3>3
  <2> QED  BY <1>1, <1>2, <1>4, <1>5, <2>1, <2>2 DEF PartsInv
<1>7. CASE BlockFails
  <2>1. /\ groups # <<>> /\ groups' = groups /\ phase' = "err" /\ Head(groups) \subseteq Ended
        /\ \E i \in Head(groups) : pc[i] # "done"
    BY <1>7 DEF BlockFails, GroupOk, GroupEnded
  <2>2. groups = <<Positions>> /\ Head(groups) = Positions
    BY <1>3, <2>1
  <2>3. (\A i \in Positions : pc[i] \in {"done", "failed"}) /\ \E i \in Positions : pc[i] = "failed"
    BY <2>1, <2>2 DEF Ended
  <2> QED  BY <1>1, <1>4, <1>5, <2>1, <2>2, <2>3 DEF PartsInv
<1>8. CASE BlockExecuted
  <2>1. groups = <<>> /\ groups' = groups /\ phase' = "ok"
    BY <1>8 DEF BlockExecuted
  <2> QED  BY <1>1, <1>3, <1>4, <1>5, <2>1 DEF PartsInv
<1>9. CASE CommitState \/ LogError
  BY <1>2, <1>9 DEF CommitState, LogError
<1> QED  BY <1>6, <1>7, <1>8, <1>9 DEF Control

LEMMA DeliverParts ==
    ASSUME ShapeInv, NEW b \in Blocks, Deliver(b) PROVE PartsInv'
<1> SUFFICES ASSUME ConflictFree(block)' PROVE PartsInv'
  BY DEF PartsInv
<1>1. /\ phase' = "running" /\ block' = b /\ groups' = GroupByDependency(b) /\ start' = accounts
      /\ pc' = [i \in DOMAIN b |-> "queued"] /\ changes' = [i \in DOMAIN b |-> {}]
      /\ UNCHANGED accounts
  BY DEF Deliver
<1>2. /\ b \in Seq(Transaction) /\ DOMAIN b = 1 .. Len(b) /\ Len(b) \in Nat /\ Positions' = DOMAIN b
      /\ ConflictFree(b)
  BY <1>1, ExecutorAssumption DEF Positions, ConflictFree
<1>3. \A i \in 1 .. Len(b) : Deps(b, i) = {}
  BY <1>2, FreeAreApart
<1>4. GroupByDependency(b) = IF Len(b) = 0 THEN <<>> ELSE <<1 .. Len(b)>>
  BY <1>2, <1>3, GroupsWithin
<1>5. groups' \in {<<>>, <<Positions'>>} /\ (groups' = <<>> => Positions' = {})
  <2>1. <<1 .. Len(b)>> # << >>
    OBVIOUS
  <2> QED  BY <1>1, <1>2, <1>4, <2>1
<1>6. \A i \in Positions' : pc'[i] = "queued" /\ changes'[i] = {}
  BY <1>1, <1>2
<1>7. \A i \in Positions' : Part(i)'
  BY <1>1, <1>6 DEF Part
<1> QED  BY <1>1, <1>5, <1>7 DEF PartsInv

LEMMA ExecStep == ASSUME ExecInv, [Next]_vars PROVE ExecInv'
<1>1. ShapeInv /\ NonceInv /\ PartsInv
  BY DEF ExecInv
<1>2. ShapeInv' /\ NonceInv'
  BY <1>1, ExecNonceStep
<1>3. PartsInv'
  <2>1. CASE UNCHANGED vars
    <3>1. UNCHANGED <<accounts, committed, delivered, phase, block, groups, pc, changes, start>>
          /\ Positions' = Positions
      BY <2>1 DEF vars, Positions
    <3>2. ConflictFree(block)' <=> ConflictFree(block)
      BY <3>1 DEF ConflictFree
    <3>3. \A i \in Positions : Part(i)' <=> Part(i)
      BY <3>1 DEF Part
    <3> QED  BY <1>1, <3>1, <3>2, <3>3 DEF PartsInv
  <2>2. CASE \E i \in Positions : Work(i)
    BY <1>1, <2>2, TakeParts, ValidateParts, ReadFromParts, ReadToParts, ApplyParts DEF Work
  <2> QED  BY <1>1, <2>1, <2>2, ControlParts, DeliverParts DEF Next
<1> QED  BY <1>2, <1>3 DEF ExecInv

LEMMA ExecSerial == ASSUME ExecInv PROVE SerialWhenFree
<1>1. ShapeInv /\ PartsInv
  BY DEF ExecInv
<1>2. TypeOK
  <2>1. accounts \in [Address -> Account \cup {NoAccount}] /\ committed \in [Address -> Account \cup {NoAccount}]
    BY <1>1 DEF ShapeInv, States
  <2>2. \A i \in Positions : pc[i] \in Labels /\ \A c \in changes[i] : c.addr \in Address /\ c.acc \in Account
    BY <1>1 DEF ShapeInv, Changes
  <2> QED  BY <1>1, <2>1, <2>2 DEF TypeOK, ShapeInv, Labels
<1> DEFINE R == RefStates(block, InOrder)
           m == Len(block)
<1>3. block \in Seq(Transaction) /\ start \in States /\ accounts \in States
      /\ Positions = 1 .. m /\ \A i \in 1 .. m : block[i] \in Transaction
  BY <1>1 DEF ShapeInv, Positions
<1>4. ASSUME ConflictFree(block)
      PROVE  /\ \A i \in 1 .. m : RefSucceeds(R[i - 1], block[i]) <=> RefSucceeds(start, block[i])
             /\ R[m] \in States
             /\ \A a \in Address :
                   /\ (\A i \in 1 .. m : a \notin Touches(block[i])) => R[m][a] = start[a]
                   /\ \A i \in 1 .. m : a \in Touches(block[i]) => R[m][a] = RefStep(start, block[i])[a]
  BY <1>3, <1>4, SerialWhenApart
<1> HIDE DEF R
<1>5. ASSUME ConflictFree(block), phase \in {"ok", "err"}
      PROVE  /\ \A i \in Positions : Part(i) /\ pc[i] \in {"done", "failed"}
             /\ phase = "ok" => \A i \in Positions : pc[i] = "done"
             /\ phase = "err" => \E i \in Positions : pc[i] = "failed"
             /\ \A a \in Address : (\A j \in Positions : a \notin Touches(block[j])) => accounts[a] = start[a]
  BY <1>1, <1>5 DEF PartsInv
<1>6. ConflictFreeIsSerial
  <2> SUFFICES ASSUME phase \in {"ok", "err"}, ConflictFree(block) PROVE accounts = R[m]
    BY DEF ConflictFreeIsSerial, R
  <2>1. ASSUME NEW a \in Address PROVE accounts[a] = R[m][a]
    <3>1. CASE \A i \in 1 .. m : a \notin Touches(block[i])
      BY <1>3, <1>4, <1>5, <3>1
    <3>2. CASE \E i \in 1 .. m : a \in Touches(block[i])
      <4>1. PICK i \in 1 .. m : a \in Touches(block[i])
        BY <3>2
      <4>2. R[m][a] = RefStep(start, block[i])[a] /\ Part(i) /\ pc[i] \in {"done", "failed"}
        BY <1>3, <1>4, <1>5, <4>1
      <4>3. CASE pc[i] = "done"
        BY <4>1, <4>2, <4>3 DEF Part
      <4>4. CASE pc[i] = "failed"
        <5>1. accounts[a] = start[a] /\ ~RefSucceeds(start, block[i])
          BY <4>1, <4>2, <4>4 DEF Part
        <5> QED  BY <4>2, <5>1 DEF RefStep
      <4> QED  BY <4>2, <4>3, <4>4
    <3> QED  BY <3>1, <3>2
  <2> QED  BY <1>3, <1>4, <2>1 DEF States
<1>7. VerdictIsSerial
  <2> SUFFICES ASSUME ConflictFree(block)
               PROVE  /\ phase = "ok" => \A k \in Positions : RefSucceeds(R[k - 1], block[k])
                      /\ phase = "err" => \E k \in Positions : ~RefSucceeds(R[k - 1], block[k])
    BY DEF VerdictIsSerial, R
  <2>1. ASSUME phase = "ok", NEW k \in Positions PROVE RefSucceeds(R[k - 1], block[k])
    <3>1. Part(k) /\ pc[k] = "done"
      BY <1>5, <2>1
    <3> QED  BY <1>3, <1>4, <3>1 DEF Part
  <2>2. ASSUME phase = "err" PROVE \E k \in Positions : ~RefSucceeds(R[k - 1], block[k])
    <3>1. PICK k \in Positions : pc[k] = "failed" /\ Part(k)
      BY <1>5, <2>2
    <3>2. ~RefSucceeds(start, block[k])
      BY <3>1 DEF Part
    <3> QED  BY <1>3, <1>4, <3>2
  <2> QED  BY <2>1, <2>2
<1> QED  BY <1>2, <1>6, <1>7 DEF SerialWhenFree

(* BlockIsSerial: for any accounts, workers and blocks, a block whose       *)
(* transactions share no account ends with the accounts and the verdict of  *)
(* its transactions one after the other, in every order of the workers'     *)
(* steps; and no block, free of conflicts or not, takes a field of an       *)
(* account out of its range.                                                *)
THEOREM BlockIsSerial == Spec => []SerialWhenFree
<1>1. Init => ExecInv
  BY ExecInit DEF ExecInv, PartsInv, Init
<1> QED  BY <1>1, ExecStep, ExecSerial, PTL DEF Spec
-----------------------------------------------------------------------------
(* The relayer, for any submissions, loops and calls of the statistics *)

(* What a loop still has to hand on: the message it has just relayed does   *)
(* not count.                                                               *)
Hands(l) == IF relayAt[l] = "remove" THEN Tail(inHand[l]) ELSE inHand[l]
InHands(m) == SumFunctionOnSet([l \in RelayLoops |-> Copies(Hands(l), m)], RelayLoops)
Waits(m) == IF m \in DOMAIN waitingFor /\ waitingFor[m] >= 0 THEN 1 ELSE 0
ReadyEntry(m) == [id |-> m, ready |-> TRUE]
Entered(m) == {c \in Submissions : TransferOf[c] = m /\ relayAt[c] = "done"}

RelayShape ==
    /\ relayQueue \in Seq([id : Transfers, ready : BOOLEAN])
    /\ inHand \in [RelayLoops -> Seq(Transfers)]
    /\ DOMAIN waitingFor \subseteq Transfers
    /\ \A m \in DOMAIN waitingFor : waitingFor[m] \in Int /\ waitingFor[m] >= -1
    /\ deliveries \in [Transfers -> Nat] /\ relayed \subseteq Transfers
    /\ \A l \in RelayLoops : relayAt[l] \in {"enqueue", "relay", "remove"} <=> inHand[l] # <<>>
    /\ \A l \in RelayLoops : relayAt[l] = "remove" => Head(inHand[l]) \in relayed

(* Each lock is held by the tasks that are where they hold it. *)
RelayHolders ==
    /\ relayAt \in [RelayTasks -> {"idle", "insert", "tick", "confirm", "enqueue", "take", "relay",
                                   "remove", "relayed", "queue", "done"}]
    /\ \A c \in Submissions : relayAt[c] \in {"idle", "insert", "done"}
    /\ \A l \in RelayLoops : relayAt[l] \notin {"insert", "relayed", "queue"}
    /\ \A c \in StatCalls : relayAt[c] \in {"idle", "relayed", "queue", "done"}
    /\ {queueBy, pendingBy, relayedBy} \subseteq RelayTasks \cup {Unlocked}
    /\ \A t \in RelayTasks :
          /\ queueBy = t <=> relayAt[t] = "insert"
          /\ pendingBy = t <=> relayAt[t] \in {"enqueue", "relayed", "queue"}
          /\ relayedBy = t <=> relayAt[t] \in {"remove", "queue"}

(* A message is ready in the queue, in a loop's hands, delivered or still   *)
(* waiting at most as often as a submission of it has returned.             *)
RelayCounts ==
    \A m \in Transfers :
        /\ deliveries[m] + Copies(relayQueue, ReadyEntry(m)) + InHands(m) + Waits(m)
             <= Cardinality(Entered(m))
        /\ deliveries[m] > 0 <=> m \in relayed
        /\ m \in DOMAIN waitingFor /\ waitingFor[m] = -1 /\ m \notin relayed =>
              \/ Copies(relayQueue, ReadyEntry(m)) > 0
              \/ \E l \in RelayLoops : Copies(inHand[l], m) > 0

RelayInv == RelayShape /\ RelayHolders /\ RelayCounts

LEMMA HoldersStep == ASSUME RelayHolders, [RelayNext]_relayVars PROVE RelayHolders'
<1> USE RelayAssumption DEF RelayTasks, GoesTo
<1>1. CASE UNCHANGED relayVars \/ StopRelayer
  BY <1>1 DEF RelayHolders, StopRelayer, relayVars, relayLocks
<1>2. ASSUME NEW c \in Submissions, SubmitQueue(c) PROVE RelayHolders'
  BY <1>2 DEF RelayHolders, SubmitQueue
<1>3. ASSUME NEW c \in Submissions, SubmitPending(c) PROVE RelayHolders'
  BY <1>3 DEF RelayHolders, SubmitPending
<1>4. ASSUME NEW l \in RelayLoops, StartLoop(l) \/ LoopTick(l) PROVE RelayHolders'
  BY <1>4 DEF RelayHolders, StartLoop, LoopTick, relayLocks
<1>5. ASSUME NEW l \in RelayLoops, ConfirmMessages(l) PROVE RelayHolders'
  <2> DEFINE now == {m \in Pending : Confirmed(m)}
  <2>1. CASE now = {}
    BY <1>5, <2>1 DEF RelayHolders, ConfirmMessages
  <2>2. CASE now # {}
    BY <1>5, <2>2 DEF RelayHolders, ConfirmMessages
  <2> QED  BY <2>1, <2>2
<1>6. ASSUME NEW l \in RelayLoops, EnqueueReady(l) PROVE RelayHolders'
  <2>1. CASE Tail(inHand[l]) = <<>>
    BY <1>6, <2>1 DEF RelayHolders, EnqueueReady
  <2>2. CASE Tail(inHand[l]) # <<>>
    BY <1>6, <2>2 DEF RelayHolders, EnqueueReady
  <2> QED  BY <2>1, <2>2
<1>7. ASSUME NEW l \in RelayLoops, TakeBatch(l) PROVE RelayHolders'
  BY <1>7 DEF RelayHolders, TakeBatch, relayLocks
<1>8. ASSUME NEW l \in RelayLoops, RelayOne(l) PROVE RelayHolders'
  BY <1>8 DEF RelayHolders, RelayOne
<1>9. ASSUME NEW l \in RelayLoops, RemovePending(l) PROVE RelayHolders'
  BY <1>9 DEF RelayHolders, RemovePending
<1>10. ASSUME NEW c \in StatCalls, StatsPending(c) PROVE RelayHolders'
  BY <1>10 DEF RelayHolders, StatsPending
<1>11. ASSUME NEW c \in StatCalls, StatsRelayed(c) PROVE RelayHolders'
  BY <1>11 DEF RelayHolders, StatsRelayed
<1>12. ASSUME NEW c \in StatCalls, StatsQueue(c) PROVE RelayHolders'
  BY <1>12 DEF RelayHolders, StatsQueue
<1> QED  BY <1>1, <1>2, <1>3, <1>4, <1>5, <1>6, <1>7, <1>8, <1>9, <1>10, <1>11, <1>12 DEF RelayNext, LoopStep

LEMMA InversionsKnown == ASSUME RelayHolders PROVE OnlyKnownInversions
<1> SUFFICES ASSUME NEW t \in RelayTasks, NEW u \in RelayTasks, WaitsFor(t, u), WaitsFor(u, t)
             PROVE  \/ {relayAt[t], relayAt[u]} = {"insert", "enqueue"}
                    \/ {relayAt[t], relayAt[u]} = {"relayed", "remove"}
                    \/ {relayAt[t], relayAt[u]} = {"queue", "insert"}
  BY DEF OnlyKnownInversions
<1>1. ASSUME NEW x \in RelayTasks, NEW y \in RelayTasks, WaitsFor(x, y)
      PROVE  \/ relayAt[y] = "insert" /\ relayAt[x] \in {"enqueue", "take", "queue"}
             \/ relayAt[y] \in {"enqueue", "relayed", "queue"} /\ relayAt[x] \in {"insert", "confirm", "remove"}
             \/ relayAt[y] \in {"remove", "queue"} /\ relayAt[x] \in {"relay", "relayed"}
  BY <1>1 DEF WaitsFor, RelayHolders
<1>2. PICK a, b : a = relayAt[t] /\ b = relayAt[u]
  OBVIOUS
<1> QED  BY <1>1, <1>2

LEMMA TransfersFew == IsFiniteSet(Transfers) /\ \A c \in Submissions : TransferOf[c] \in Transfers
<1> DEFINE f == [c \in Submissions |-> TransferOf[c]]
<1>1. f \in Surjection(Submissions, Transfers)
  BY RelayAssumption DEF Transfers, Range, Surjection
<1>2. IsFiniteSet(Submissions)
  BY RelayAssumption
<1> HIDE DEF f
<1>3. IsFiniteSet(Transfers)
  BY <1>1, <1>2, FS_Surjection
<1> QED  BY <1>3, RelayAssumption DEF Transfers, Range

LEMMA HandsFact ==
    ASSUME RelayShape, NEW m
    PROVE  /\ \A l \in RelayLoops : Hands(l) \in Seq(Transfers) /\ inHand[l] \in Seq(Transfers)
           /\ \A l \in RelayLoops : Copies(Hands(l), m) \in Nat
           /\ InHands(m) \in Nat /\ Copies(relayQueue, ReadyEntry(m)) \in Nat /\ Waits(m) \in {0, 1}
           /\ IsFiniteSet(Entered(m)) /\ Cardinality(Entered(m)) \in Nat
<1>1. ASSUME NEW l \in RelayLoops PROVE Hands(l) \in Seq(Transfers) /\ inHand[l] \in Seq(Transfers)
  <2>1. inHand[l] \in Seq(Transfers) /\ (relayAt[l] = "remove" => inHand[l] # <<>>)
    BY DEF RelayShape
  <2>2. inHand[l] # <<>> => Tail(inHand[l]) \in Seq(Transfers)
    BY <2>1, HeadTailProperties
  <2> QED  BY <2>1, <2>2 DEF Hands
<1>2. \A l \in RelayLoops : Copies(Hands(l), m) \in Nat
  BY <1>1, CopiesAreFew
<1>3. InHands(m) \in Nat
  <2> DEFINE f == [l \in RelayLoops |-> Copies(Hands(l), m)]
  <2>1. IsFiniteSet(RelayLoops) /\ \A l \in RelayLoops : f[l] \in Nat
    BY <1>2, RelayAssumption
  <2> HIDE DEF f
  <2>2. SumFunctionOnSet(f, RelayLoops) \in Nat
    BY <2>1, SumNat
  <2> QED  BY <2>2 DEF f, InHands
<1>4. Copies(relayQueue, ReadyEntry(m)) \in Nat
  BY CopiesAreFew DEF RelayShape
<1>5. IsFiniteSet(Entered(m)) /\ Cardinality(Entered(m)) \in Nat
  <2>1. Entered(m) \in SUBSET Submissions
    BY DEF Entered
  <2> QED  BY <2>1, FS_Subset, FS_CardinalityType, RelayAssumption
<1> QED  BY <1>1, <1>2, <1>3, <1>4, <1>5 DEF Waits

LEMMA HandsStep ==
    ASSUME RelayShape, RelayShape', NEW l \in RelayLoops,
           \A k \in RelayLoops \ {l} : Hands(k)' = Hands(k), NEW m
    PROVE  InHands(m)' = InHands(m) - Copies(Hands(l), m) + Copies(Hands(l)', m)
<1> DEFINE f == [k \in RelayLoops |-> Copies(Hands(k), m)]
           g == [k \in RelayLoops |-> Copies(Hands(k)', m)]
<1>1. \A k \in RelayLoops : f[k] \in Int /\ g[k] \in Int
  <2>1. \A k \in RelayLoops : Hands(k) \in Seq(Transfers)
    BY HandsFact
  <2>2. \A k \in RelayLoops : Hands(k)' \in Seq(Transfers)
    <3> SUFFICES ASSUME NEW k \in RelayLoops PROVE Hands(k)' \in Seq(Transfers)
      OBVIOUS
    <3>1. inHand'[k] \in Seq(Transfers) /\ (relayAt'[k] = "remove" => inHand'[k] # <<>>)
      BY DEF RelayShape
    <3>2. inHand'[k] # <<>> => Tail(inHand'[k]) \in Seq(Transfers)
      BY <3>1, HeadTailProperties
    <3> QED  BY <3>1, <3>2 DEF Hands
  <2> QED  BY <2>1, <2>2, CopiesAreFew
<1>2. \A k \in RelayLoops \ {l} : g[k] = f[k]
  OBVIOUS
<1>3. IsFiniteSet(RelayLoops)
  BY RelayAssumption
<1>4. f[l] = Copies(Hands(l), m) /\ g[l] = Copies(Hands(l)', m)
  OBVIOUS
<1>5. InHands(m) = SumFunctionOnSet(f, RelayLoops) /\ InHands(m)' = SumFunctionOnSet(g, RelayLoops)
  BY DEF InHands
<1> HIDE DEF f, g
<1>6. SumFunctionOnSet(g, RelayLoops) = SumFunctionOnSet(f, RelayLoops) - f[l] + g[l]
  BY <1>1, <1>2, <1>3, SumChange
<1> QED  BY <1>4, <1>5, <1>6

LEMMA EnteredGrows ==
    ASSUME RelayHolders, NEW t, NEW label, GoesTo(t, label), relayAt[t] # "done", NEW m
    PROVE  Cardinality(Entered(m)) \in Nat /\ Cardinality(Entered(m)') \in Nat
           /\ Cardinality(Entered(m)) <= Cardinality(Entered(m)')
<1> PICK old, new : old = Entered(m) /\ new = Entered(m)'
  OBVIOUS
<1>1. old \in SUBSET new /\ new \in SUBSET Submissions
  BY DEF Entered, GoesTo, RelayHolders, RelayTasks
<1>2. IsFiniteSet(new)
  BY <1>1, FS_Subset, RelayAssumption
<1> QED  BY <1>1, <1>2, FS_Subset, FS_CardinalityType

(* Steps that move no message. *)
LEMMA RelayQuiet ==
    ASSUME RelayShape, RelayHolders, RelayCounts,
           UNCHANGED <<relayQueue, inHand, waitingFor, deliveries, relayed>>,
           NEW t \in RelayTasks, NEW label, GoesTo(t, label), relayAt[t] # "done",
           {relayAt[t], label} \cap {"enqueue", "relay", "remove"} = {}
    PROVE  RelayShape' /\ RelayCounts'
<1>0. \A l \in RelayLoops : relayAt'[l] = relayAt[l]
         \/ {relayAt[l], relayAt'[l]} \cap {"enqueue", "relay", "remove"} = {}
  <2>1. relayAt'[t] = label /\ \A u \in RelayTasks \ {t} : relayAt'[u] = relayAt[u]
    BY DEF GoesTo, RelayHolders
  <2>2. RelayLoops \subseteq RelayTasks
    BY DEF RelayTasks
  <2> QED  BY <2>1, <2>2
<1>1. RelayShape'
  <2>1. \A l \in RelayLoops : relayAt'[l] \in {"enqueue", "relay", "remove"} <=> inHand'[l] # <<>>
    BY <1>0 DEF RelayShape
  <2>2. \A l \in RelayLoops : relayAt'[l] = "remove" => Head(inHand'[l]) \in relayed'
    BY <1>0 DEF RelayShape
  <2> QED  BY <2>1, <2>2 DEF RelayShape
<1>2. \A l \in RelayLoops : Hands(l)' = Hands(l)
  BY <1>0 DEF Hands
<1>3. ASSUME NEW m PROVE InHands(m)' = InHands(m)
  <2> DEFINE f == [l \in RelayLoops |-> Copies(Hands(l), m)]
             g == [l \in RelayLoops |-> Copies(Hands(l)', m)]
  <2>1. f = g
    BY <1>2
  <2> QED  BY <2>1 DEF InHands
<1>4. ASSUME NEW m PROVE Waits(m)' = Waits(m)
  BY DEF Waits
<1>5. ASSUME NEW m \in Transfers
      PROVE  deliveries'[m] + Copies(relayQueue', ReadyEntry(m)) + InHands(m)' + Waits(m)'
               <= Cardinality(Entered(m)')
  <2>1. deliveries[m] + Copies(relayQueue, ReadyEntry(m)) + InHands(m) + Waits(m)
          <= Cardinality(Entered(m))
    BY DEF RelayCounts
  <2>2. deliveries[m] \in Nat /\ deliveries' = deliveries /\ relayQueue' = relayQueue
    BY DEF RelayShape
  <2>3. Cardinality(Entered(m)') \in Nat /\ Cardinality(Entered(m)) <= Cardinality(Entered(m)')
    BY EnteredGrows
  <2> QED  BY <1>3, <1>4, <2>1, <2>2, <2>3, HandsFact
<1> QED  BY <1>1, <1>5 DEF RelayCounts

LEMMA SubmitsKeep ==
    ASSUME RelayShape, RelayHolders, RelayCounts, NEW c \in Submissions, SubmitQueue(c) \/ SubmitPending(c)
    PROVE  RelayShape' /\ RelayCounts'
<1> DEFINE T == TransferOf[c]
           e == [id |-> T, ready |-> FALSE]
<1>0. c \in RelayTasks /\ T \in Transfers /\ e \in [id : Transfers, ready : BOOLEAN] /\ c \notin RelayLoops
  BY TransfersFew, RelayAssumption DEF RelayTasks
<1>1. CASE SubmitQueue(c)
  <2>1. relayQueue' = Append(relayQueue, e) /\ GoesTo(c, "insert") /\ relayAt[c] = "idle"
        /\ UNCHANGED <<inHand, waitingFor, deliveries, relayed>>
    BY <1>1 DEF SubmitQueue
  <2>2. relayQueue \in Seq([id : Transfers, ready : BOOLEAN])
    BY DEF RelayShape
  <2>3. Append(relayQueue, e) \in Seq([id : Transfers, ready : BOOLEAN])
    BY <1>0, <2>2, AppendProperties
  <2>4. \A l \in RelayLoops : relayAt'[l] = relayAt[l]
    BY <1>0, <2>1 DEF GoesTo
  <2>5. RelayShape'
    BY <2>1, <2>3, <2>4 DEF RelayShape
  <2>6. ASSUME NEW m PROVE Copies(relayQueue', ReadyEntry(m)) = Copies(relayQueue, ReadyEntry(m))
    <3>1. e # ReadyEntry(m) /\ Copies(relayQueue, ReadyEntry(m)) \in Nat
      BY HandsFact DEF ReadyEntry
    <3>2. Copies(Append(relayQueue, e), ReadyEntry(m)) = Copies(relayQueue, ReadyEntry(m)) + 0
      BY <1>0, <2>2, <3>1, CopiesOfMore
    <3> QED  BY <2>1, <3>1, <3>2
  <2>7. ASSUME NEW m PROVE InHands(m)' = InHands(m) /\ Waits(m)' = Waits(m)
    <3> DEFINE f == [l \in RelayLoops |-> Copies(Hands(l), m)]
               g == [l \in RelayLoops |-> Copies(Hands(l)', m)]
    <3>1. f = g
      BY <2>1, <2>4 DEF Hands
    <3> QED  BY <2>1, <3>1 DEF InHands, Waits
  <2>8. ASSUME NEW m \in Transfers
        PROVE  deliveries'[m] + Copies(relayQueue', ReadyEntry(m)) + InHands(m)' + Waits(m)'
                 <= Cardinality(Entered(m)')
    <3>1. deliveries[m] + Copies(relayQueue, ReadyEntry(m)) + InHands(m) + Waits(m)
            <= Cardinality(Entered(m))
      BY DEF RelayCounts
    <3>2. deliveries[m] \in Nat /\ deliveries' = deliveries
      BY <2>1 DEF RelayShape
    <3>3. Cardinality(Entered(m)') \in Nat /\ Cardinality(Entered(m)) <= Cardinality(Entered(m)')
      BY <2>1, EnteredGrows
    <3>4. /\ Copies(relayQueue', ReadyEntry(m)) = Copies(relayQueue, ReadyEntry(m))
          /\ InHands(m)' = InHands(m) /\ Waits(m)' = Waits(m)
      BY <2>6, <2>7
    <3>5. deliveries'[m] = deliveries[m]
      BY <3>2
    <3>6. /\ InHands(m) \in Nat /\ Copies(relayQueue, ReadyEntry(m)) \in Nat /\ Waits(m) \in {0, 1}
          /\ Cardinality(Entered(m)) \in Nat
      BY HandsFact
    <3> QED  BY <3>1, <3>2, <3>3, <3>4, <3>5, <3>6
  <2>9. \A m \in Transfers : Copies(relayQueue', ReadyEntry(m)) = Copies(relayQueue, ReadyEntry(m))
    BY <2>6
  <2> QED  BY <2>1, <2>5, <2>8, <2>9 DEF RelayCounts
<1>2. CASE SubmitPending(c)
  <2>1. waitingFor' = Put(waitingFor, T, 0) /\ GoesTo(c, "done") /\ relayAt[c] = "insert"
        /\ UNCHANGED <<relayQueue, inHand, deliveries, relayed>>
    BY <1>2 DEF SubmitPending
  <2>2. /\ DOMAIN waitingFor' = DOMAIN waitingFor \cup {T}
        /\ \A m \in DOMAIN waitingFor' : waitingFor'[m] = IF m = T THEN 0 ELSE waitingFor[m]
    BY <2>1 DEF Put
  <2>4. \A l \in RelayLoops : relayAt'[l] = relayAt[l]
    BY <1>0, <2>1 DEF GoesTo
  <2>5. RelayShape'
    <3>1. DOMAIN waitingFor' \subseteq Transfers
      BY <1>0, <2>2 DEF RelayShape
    <3>2. \A m \in DOMAIN waitingFor' : waitingFor'[m] \in Int /\ waitingFor'[m] >= -1
      BY <2>2 DEF RelayShape
    <3>3. \A l \in RelayLoops : relayAt'[l] \in {"enqueue", "relay", "remove"} <=> inHand'[l] # <<>>
      BY <2>1, <2>4 DEF RelayShape
    <3>4. \A l \in RelayLoops : relayAt'[l] = "remove" => Head(inHand'[l]) \in relayed'
      BY <2>1, <2>4 DEF RelayShape
    <3> QED  BY <2>1, <3>1, <3>2, <3>3, <3>4 DEF RelayShape
  <2>6. ASSUME NEW m PROVE InHands(m)' = InHands(m)
    <3> DEFINE f == [l \in RelayLoops |-> Copies(Hands(l), m)]
               g == [l \in RelayLoops |-> Copies(Hands(l)', m)]
    <3>1. f = g
      BY <2>1, <2>4 DEF Hands
    <3> QED  BY <2>1, <3>1 DEF InHands
  <2>7. ASSUME NEW m \in Transfers
        PROVE  deliveries'[m] + Copies(relayQueue', ReadyEntry(m)) + InHands(m)' + Waits(m)'
                 <= Cardinality(Entered(m)')
    <3>1. deliveries[m] + Copies(relayQueue, ReadyEntry(m)) + InHands(m) + Waits(m)
            <= Cardinality(Entered(m))
      BY DEF RelayCounts
    <3>2. deliveries[m] \in Nat /\ deliveries' = deliveries /\ relayQueue' = relayQueue
      BY <2>1 DEF RelayShape
    <3>3. CASE m = T
      <4> PICK old, new : old = Entered(m) /\ new = Entered(m)'
        OBVIOUS
      <4>1. relayAt'[c] = "done" /\ \A d \in Submissions \ {c} : relayAt'[d] = relayAt[d]
        BY <1>0, <2>1 DEF GoesTo, RelayHolders
      <4>2. new = old \cup {c} /\ c \notin old /\ IsFiniteSet(old)
        BY <2>1, <3>3, <4>1, HandsFact DEF Entered
      <4>3. Cardinality(new) = Cardinality(old) + 1
        BY <4>2, FS_AddElement
      <4>4. Waits(m)' = 1
        BY <2>2, <3>3 DEF Waits
      <4>5. Cardinality(Entered(m)') = Cardinality(Entered(m)) + 1
        BY <4>3
      <4> QED  BY <2>1, <2>6, <3>1, <3>2, <4>4, <4>5, HandsFact
    <3>4. CASE m # T
      <4>1. Waits(m)' = Waits(m)
        BY <2>2, <3>4 DEF Waits
      <4>2. Cardinality(Entered(m)') \in Nat /\ Cardinality(Entered(m)) <= Cardinality(Entered(m)')
        BY <2>1, EnteredGrows
      <4> QED  BY <2>1, <2>6, <3>1, <3>2, <4>1, <4>2, HandsFact
    <3> QED  BY <3>3, <3>4
  <2>8. \A m \in DOMAIN waitingFor' : waitingFor'[m] = -1 => m \in DOMAIN waitingFor /\ waitingFor[m] = -1
    BY <2>2
  <2> QED  BY <2>1, <2>5, <2>7, <2>8 DEF RelayCounts
<1> QED  BY <1>1, <1>2

(* A loop's step that leaves the others' hands alone. *)
LEMMA LoopFrame ==
    ASSUME RelayShape, RelayHolders, NEW l \in RelayLoops, NEW s \in Seq(Transfers), NEW label,
           inHand' = [inHand EXCEPT ![l] = s], GoesTo(l, label), relayAt[l] # "done"
    PROVE  /\ inHand'[l] = s /\ relayAt'[l] = label /\ inHand' \in [RelayLoops -> Seq(Transfers)]
           /\ \A k \in RelayLoops \ {l} : inHand'[k] = inHand[k] /\ relayAt'[k] = relayAt[k]
           /\ \A k \in RelayLoops \ {l} : Hands(k)' = Hands(k)
           /\ Hands(l)' = IF label = "remove" THEN Tail(s) ELSE s
           /\ \A m : Cardinality(Entered(m)) \in Nat /\ Cardinality(Entered(m)') \in Nat
                     /\ Cardinality(Entered(m)) <= Cardinality(Entered(m)')
<1>0. l \in RelayTasks /\ RelayLoops \subseteq RelayTasks
  BY DEF RelayTasks
<1>1. /\ inHand'[l] = s /\ relayAt'[l] = label /\ inHand' \in [RelayLoops -> Seq(Transfers)]
      /\ \A k \in RelayLoops \ {l} : inHand'[k] = inHand[k] /\ relayAt'[k] = relayAt[k]
  BY <1>0 DEF RelayShape, RelayHolders, GoesTo
<1>2. /\ \A k \in RelayLoops \ {l} : Hands(k)' = Hands(k)
      /\ Hands(l)' = IF label = "remove" THEN Tail(s) ELSE s
  BY <1>1 DEF Hands
<1>3. \A m : Cardinality(Entered(m)) \in Nat /\ Cardinality(Entered(m)') \in Nat
             /\ Cardinality(Entered(m)) <= Cardinality(Entered(m)')
  BY EnteredGrows
<1> QED  BY <1>1, <1>2, <1>3

LEMMA ConfirmKeeps ==
    ASSUME RelayShape, RelayHolders, RelayCounts, NEW l \in RelayLoops, ConfirmMessages(l)
    PROVE  RelayShape' /\ RelayCounts'
<1> DEFINE isNow(m) == m \in DOMAIN waitingFor /\ waitingFor[m] >= 0 /\ waitingFor[m] + 1 >= MinConfirmations
<1>1. PICK now : now = {m \in Pending : Confirmed(m)}
  OBVIOUS
<1>2. /\ relayAt[l] = "confirm"
      /\ waitingFor' = [m \in DOMAIN waitingFor |->
                          IF m \in now THEN -1
                          ELSE IF m \in Pending THEN waitingFor[m] + 1 ELSE waitingFor[m]]
      /\ UNCHANGED <<relayQueue, relayed, deliveries>>
  BY <1>1 DEF ConfirmMessages
<1>3. now \subseteq Pending /\ Pending \subseteq DOMAIN waitingFor /\ DOMAIN waitingFor \subseteq Transfers
      /\ \A m \in DOMAIN waitingFor : m \in Pending <=> waitingFor[m] >= 0
  BY <1>1 DEF Pending, RelayShape
<1>4. IsFiniteSet(now) /\ Cardinality(now) \in Nat
  BY <1>3, TransfersFew, FS_Subset, FS_CardinalityType
<1>5. \E s \in Seq(Transfers), label \in {"take", "enqueue"} :
         /\ inHand' = [inHand EXCEPT ![l] = s] /\ GoesTo(l, label)
         /\ label = "enqueue" <=> s # <<>>
         /\ \A m : Copies(s, m) = IF m \in now THEN 1 ELSE 0
  <2>1. CASE now = {}
    <3>1. GoesTo(l, "take") /\ inHand' = inHand /\ inHand[l] = <<>>
      BY <1>1, <1>2, <2>1 DEF ConfirmMessages, RelayShape
    <3>2. inHand' = [inHand EXCEPT ![l] = <<>>]
      BY <3>1 DEF RelayShape
    <3>3. << >> \in Seq(Transfers)
      OBVIOUS
    <3>4. \A m : Copies(<<>>, m) = 0
      BY CopiesOfOne
    <3> QED  BY <2>1, <3>1, <3>2, <3>3, <3>4
  <2>2. CASE now # {}
    <3>1. PICK s \in SetToSeqs(now) : inHand' = [inHand EXCEPT ![l] = s] /\ GoesTo(l, "enqueue")
      BY <1>1, <2>2 DEF ConfirmMessages
    <3>2. PICK n \in Nat : n = Cardinality(now)
      BY <1>4
    <3>3. s \in [1 .. n -> now] /\ \A i, j \in 1 .. n : i # j => s[i] # s[j]
      BY <3>2 DEF SetToSeqs
    <3>4. s \in Seq(Transfers) /\ Len(s) = n /\ DOMAIN s = 1 .. n
      BY <1>3, <3>3
    <3>5. n # 0
      BY <1>4, <2>2, <3>2, FS_EmptySet
    <3>6. s # <<>>
      BY <3>4, <3>5
    <3>7. \A m \in now : \E i \in 1 .. n : s[i] = m
      <4>1. s \in Injection(1 .. n, now)
        BY <3>3 DEF Injection, IsInjective
      <4>2. Cardinality(1 .. n) = n
        BY FS_Interval
      <4>3. s \in Surjection(1 .. n, now)
        BY <1>4, <3>2, <4>1, <4>2, FS_Injection
      <4> QED  BY <4>3 DEF Surjection
    <3>8. ASSUME NEW m PROVE Copies(s, m) = IF m \in now THEN 1 ELSE 0
      <4>1. Copies(s, m) \in Nat /\ Copies(s, m) <= 1
        BY <3>3, <3>4, CopiesAreFew
      <4>2. CASE m \in now
        BY <3>4, <3>7, <4>1, <4>2, HasCopy
      <4>3. CASE m \notin now
        BY <3>3, <3>4, <4>3, CopiesAreFew
      <4> QED  BY <4>2, <4>3
    <3> QED  BY <3>1, <3>4, <3>6, <3>8
  <2> QED  BY <2>1, <2>2
<1>6. PICK s \in Seq(Transfers), label \in {"take", "enqueue"} :
         /\ inHand' = [inHand EXCEPT ![l] = s] /\ GoesTo(l, label)
         /\ label = "enqueue" <=> s # <<>>
         /\ \A m : Copies(s, m) = IF m \in now THEN 1 ELSE 0
  BY <1>5
<1>7. /\ inHand'[l] = s /\ relayAt'[l] = label /\ inHand' \in [RelayLoops -> Seq(Transfers)]
      /\ \A k \in RelayLoops \ {l} : inHand'[k] = inHand[k] /\ relayAt'[k] = relayAt[k]
      /\ \A k \in RelayLoops \ {l} : Hands(k)' = Hands(k)
      /\ Hands(l)' = s
      /\ \A m : Cardinality(Entered(m)) \in Nat /\ Cardinality(Entered(m)') \in Nat
                /\ Cardinality(Entered(m)) <= Cardinality(Entered(m)')
  BY <1>2, <1>6, LoopFrame
<1>8. Hands(l) = <<>> /\ inHand[l] = <<>>
  BY <1>2 DEF RelayShape, Hands
<1>9. /\ DOMAIN waitingFor' = DOMAIN waitingFor
      /\ \A m \in DOMAIN waitingFor : waitingFor'[m] =
            IF m \in now THEN -1 ELSE IF m \in Pending THEN waitingFor[m] + 1 ELSE waitingFor[m]
  BY <1>2
<1>10. RelayShape'
  <2>1. \A m \in DOMAIN waitingFor' : waitingFor'[m] \in Int /\ waitingFor'[m] >= -1
    BY <1>9 DEF RelayShape
  <2>2. \A k \in RelayLoops : relayAt'[k] \in {"enqueue", "relay", "remove"} <=> inHand'[k] # <<>>
    BY <1>6, <1>7 DEF RelayShape
  <2>3. \A k \in RelayLoops : relayAt'[k] = "remove" => Head(inHand'[k]) \in relayed'
    BY <1>2, <1>6, <1>7 DEF RelayShape
  <2> QED  BY <1>2, <1>7, <1>9, <2>1, <2>2, <2>3 DEF RelayShape
<1>11. ASSUME NEW m \in Transfers
       PROVE  /\ deliveries'[m] + Copies(relayQueue', ReadyEntry(m)) + InHands(m)' + Waits(m)'
                   <= Cardinality(Entered(m)')
              /\ deliveries'[m] > 0 <=> m \in relayed'
              /\ m \in DOMAIN waitingFor' /\ waitingFor'[m] = -1 /\ m \notin relayed' =>
                    \/ Copies(relayQueue', ReadyEntry(m)) > 0
                    \/ \E k \in RelayLoops : Copies(inHand'[k], m) > 0
  <2>1. /\ deliveries[m] + Copies(relayQueue, ReadyEntry(m)) + InHands(m) + Waits(m)
             <= Cardinality(Entered(m))
        /\ deliveries[m] > 0 <=> m \in relayed
        /\ m \in DOMAIN waitingFor /\ waitingFor[m] = -1 /\ m \notin relayed =>
              \/ Copies(relayQueue, ReadyEntry(m)) > 0
              \/ \E k \in RelayLoops : Copies(inHand[k], m) > 0
    BY DEF RelayCounts
  <2>2. InHands(m)' = InHands(m) - Copies(Hands(l), m) + Copies(Hands(l)', m)
    BY <1>7, <1>10, HandsStep
  <2>3. Copies(Hands(l), m) = 0 /\ Copies(inHand[l], m) = 0
    BY <1>8, CopiesOfOne
  <2>4. Waits(m)' = IF m \in now THEN 0 ELSE Waits(m)
    BY <1>3, <1>9 DEF Waits, RelayShape
  <2>5. m \in now => Waits(m) = 1
    BY <1>3 DEF Waits
  <2>6. Copies(Hands(l)', m) = (IF m \in now THEN 1 ELSE 0) /\ Copies(inHand'[l], m) = IF m \in now THEN 1 ELSE 0
    BY <1>6, <1>7
  <2>7. deliveries[m] \in Nat /\ deliveries' = deliveries /\ relayQueue' = relayQueue /\ relayed' = relayed
    BY <1>2 DEF RelayShape
  <2>8. InHands(m)' + Waits(m)' = InHands(m) + Waits(m)
    BY <2>2, <2>3, <2>4, <2>5, <2>6, HandsFact
  <2>9. deliveries'[m] + Copies(relayQueue', ReadyEntry(m)) + InHands(m)' + Waits(m)'
          <= Cardinality(Entered(m)')
    <3>1. InHands(m)' \in Int /\ Waits(m)' \in Int
      BY <2>2, <2>3, <2>4, <2>6, HandsFact
    <3>2. InHands(m) \in Nat /\ Copies(relayQueue, ReadyEntry(m)) \in Nat /\ Waits(m) \in Int
      BY HandsFact
    <3>3. /\ Cardinality(Entered(m)) \in Nat /\ Cardinality(Entered(m)') \in Nat
          /\ Cardinality(Entered(m)) <= Cardinality(Entered(m)')
      BY <1>7
    <3>4. deliveries'[m] = deliveries[m] /\ Copies(relayQueue', ReadyEntry(m)) = Copies(relayQueue, ReadyEntry(m))
      BY <2>7
    <3>5. PICK d \in Nat, c \in Nat, e \in Nat, e2 \in Nat :
             /\ d = deliveries[m] /\ c = Copies(relayQueue, ReadyEntry(m))
             /\ e = Cardinality(Entered(m)) /\ e2 = Cardinality(Entered(m)')
      BY <2>7, <3>2, <3>3
    <3>6. PICK h \in Int, w \in Int, h2 \in Int, w2 \in Int :
             h = InHands(m) /\ w = Waits(m) /\ h2 = InHands(m)' /\ w2 = Waits(m)'
      BY <3>1, <3>2
    <3>7. d + c + h + w <= e /\ h2 + w2 = h + w /\ e <= e2
      BY <2>1, <2>8, <3>3, <3>5, <3>6
    <3>8. d + c + h2 + w2 <= e2
      <4>1. d + c + h2 + w2 = d + c + h + w
        BY <3>7
      <4>2. d + c + h + w <= e2
        BY <3>7
      <4> QED  BY <4>1, <4>2
    <3>9. deliveries'[m] = d /\ Copies(relayQueue', ReadyEntry(m)) = c
      BY <3>4, <3>5
    <3> QED  BY <3>5, <3>6, <3>8, <3>9
  <2>10. ASSUME m \in DOMAIN waitingFor', waitingFor'[m] = -1, m \notin relayed'
         PROVE  \/ Copies(relayQueue', ReadyEntry(m)) > 0
                \/ \E k \in RelayLoops : Copies(inHand'[k], m) > 0
    <3>1. CASE m \in now
      BY <2>6, <3>1
    <3>2. CASE m \notin now
      <4>1. m \in DOMAIN waitingFor /\ waitingFor[m] = -1 /\ m \notin relayed
        BY <1>3, <1>9, <2>7, <2>10, <3>2 DEF RelayShape
      <4>2. CASE Copies(relayQueue, ReadyEntry(m)) > 0
        BY <2>7, <4>2
      <4>3. CASE \E k \in RelayLoops : Copies(inHand[k], m) > 0
        <5>1. PICK k \in RelayLoops : Copies(inHand[k], m) > 0
          BY <4>3
        <5>2. k # l
          BY <2>3, <5>1
        <5> QED  BY <1>7, <5>1, <5>2
      <4> QED  BY <2>1, <4>1, <4>2, <4>3
    <3> QED  BY <3>1, <3>2
  <2> QED  BY <2>1, <2>7, <2>9, <2>10
<1> QED  BY <1>10, <1>11 DEF RelayCounts

(* The balance of a message m that a step leaves as it is. *)
MessageBalanced(m) ==
    /\ deliveries[m] + Copies(relayQueue, ReadyEntry(m)) + InHands(m) + Waits(m)
         <= Cardinality(Entered(m))
    /\ deliveries[m] > 0 <=> m \in relayed
    /\ m \in DOMAIN waitingFor /\ waitingFor[m] = -1 /\ m \notin relayed =>
          \/ Copies(relayQueue, ReadyEntry(m)) > 0
          \/ \E l \in RelayLoops : Copies(inHand[l], m) > 0

LEMMA EnqueueKeeps ==
    ASSUME RelayShape, RelayHolders, RelayCounts, NEW l \in RelayLoops, EnqueueReady(l)
    PROVE  RelayShape' /\ RelayCounts'
<1>1. PICK h, s : h = Head(inHand[l]) /\ s = Tail(inHand[l])
  OBVIOUS
<1>2. inHand[l] # <<>> /\ inHand[l] \in Seq(Transfers) /\ relayAt[l] = "enqueue"
  BY DEF EnqueueReady, RelayShape
<1>3. h \in Transfers /\ s \in Seq(Transfers)
  BY <1>1, <1>2, HeadTailProperties
<1>4. \E label \in {"take", "enqueue"} : GoesTo(l, label) /\ (label = "enqueue" <=> s # <<>>)
  <2>1. CASE s = <<>>
    BY <1>1, <2>1 DEF EnqueueReady
  <2>2. CASE s # <<>>
    <3>1. relayAt' = relayAt
      BY <1>1, <2>2 DEF EnqueueReady
    <3>2. GoesTo(l, "enqueue")
      BY <1>2, <3>1 DEF GoesTo, RelayHolders, RelayTasks
    <3> QED  BY <2>2, <3>2
  <2> QED  BY <2>1, <2>2
<1>5. PICK label \in {"take", "enqueue"} : GoesTo(l, label) /\ (label = "enqueue" <=> s # <<>>)
  BY <1>4
<1>6. /\ inHand' = [inHand EXCEPT ![l] = s] /\ relayQueue' = Append(relayQueue, ReadyEntry(h))
      /\ UNCHANGED <<waitingFor, relayed, deliveries>>
  BY <1>1 DEF EnqueueReady, ReadyEntry
<1>7. /\ inHand'[l] = s /\ relayAt'[l] = label /\ inHand' \in [RelayLoops -> Seq(Transfers)]
      /\ \A k \in RelayLoops \ {l} : inHand'[k] = inHand[k] /\ relayAt'[k] = relayAt[k]
      /\ \A k \in RelayLoops \ {l} : Hands(k)' = Hands(k)
      /\ Hands(l)' = s
      /\ \A m : Cardinality(Entered(m)) \in Nat /\ Cardinality(Entered(m)') \in Nat
                /\ Cardinality(Entered(m)) <= Cardinality(Entered(m)')
  BY <1>2, <1>3, <1>5, <1>6, LoopFrame
<1>8. Hands(l) = inHand[l]
  BY <1>2 DEF Hands
<1>9. relayQueue \in Seq([id : Transfers, ready : BOOLEAN]) /\ ReadyEntry(h) \in [id : Transfers, ready : BOOLEAN]
  BY <1>3 DEF RelayShape, ReadyEntry
<1>10. RelayShape'
  <2>1. relayQueue' \in Seq([id : Transfers, ready : BOOLEAN])
    BY <1>6, <1>9, AppendProperties
  <2>2. \A k \in RelayLoops : relayAt'[k] \in {"enqueue", "relay", "remove"} <=> inHand'[k] # <<>>
    BY <1>5, <1>7 DEF RelayShape
  <2>3. \A k \in RelayLoops : relayAt'[k] = "remove" => Head(inHand'[k]) \in relayed'
    BY <1>5, <1>6, <1>7 DEF RelayShape
  <2> QED  BY <1>6, <1>7, <2>1, <2>2, <2>3 DEF RelayShape
<1>11. ASSUME NEW m \in Transfers PROVE MessageBalanced(m)'
  <2>1. MessageBalanced(m)
    BY DEF RelayCounts, MessageBalanced
  <2>2. InHands(m)' = InHands(m) - Copies(Hands(l), m) + Copies(Hands(l)', m)
    BY <1>7, <1>10, HandsStep
  <2>3. PICK one \in {0, 1} : one = IF h = m THEN 1 ELSE 0
    OBVIOUS
  <2>4. Copies(inHand[l], m) = Copies(s, m) + one /\ Copies(s, m) \in Nat
    BY <1>1, <1>2, <1>3, <2>3, CopiesOfLess, CopiesAreFew
  <2>5. Copies(relayQueue', ReadyEntry(m)) = Copies(relayQueue, ReadyEntry(m)) + one
    <3>1. ReadyEntry(h) = ReadyEntry(m) <=> h = m
      BY DEF ReadyEntry
    <3>2. Copies(Append(relayQueue, ReadyEntry(h)), ReadyEntry(m))
            = Copies(relayQueue, ReadyEntry(m)) + IF ReadyEntry(h) = ReadyEntry(m) THEN 1 ELSE 0
      BY <1>9, CopiesOfMore
    <3> QED  BY <1>6, <2>3, <3>1, <3>2
  <2>6. deliveries[m] \in Nat /\ deliveries' = deliveries /\ relayed' = relayed
        /\ waitingFor' = waitingFor /\ Waits(m)' = Waits(m)
    BY <1>6 DEF RelayShape, Waits
  <2>7. deliveries'[m] + Copies(relayQueue', ReadyEntry(m)) + InHands(m)' + Waits(m)'
          <= Cardinality(Entered(m)')
    <3>1. InHands(m)' = InHands(m) - one
      BY <1>7, <1>8, <2>2, <2>4, HandsFact
    <3>2. /\ InHands(m) \in Nat /\ Copies(relayQueue, ReadyEntry(m)) \in Nat /\ Waits(m) \in {0, 1}
          /\ Cardinality(Entered(m)) \in Nat /\ Cardinality(Entered(m)') \in Nat
          /\ Cardinality(Entered(m)) <= Cardinality(Entered(m)')
      BY <1>7, HandsFact
    <3>3. deliveries[m] + Copies(relayQueue, ReadyEntry(m)) + InHands(m) + Waits(m) <= Cardinality(Entered(m))
      BY <2>1 DEF MessageBalanced
    <3>4. /\ deliveries'[m] + Copies(relayQueue', ReadyEntry(m))
               = deliveries[m] + Copies(relayQueue, ReadyEntry(m)) + one
          /\ Waits(m)' = Waits(m)
      BY <2>5, <2>6, <3>2
    <3> QED  BY <2>3, <2>6, <3>1, <3>2, <3>3, <3>4
  <2>8. ASSUME \E k \in RelayLoops : Copies(inHand[k], m) > 0
        PROVE  \/ Copies(relayQueue', ReadyEntry(m)) > 0
               \/ \E k \in RelayLoops : Copies(inHand'[k], m) > 0
    <3>1. PICK k \in RelayLoops : Copies(inHand[k], m) > 0
      BY <2>8
    <3>2. CASE k = l
      <4>1. Copies(relayQueue, ReadyEntry(m)) \in Nat
        BY HandsFact
      <4>2. CASE one = 1
        BY <2>5, <4>1, <4>2
      <4>3. CASE one = 0
        BY <1>7, <2>4, <3>1, <3>2, <4>3
      <4> QED  BY <4>2, <4>3
    <3>3. CASE k # l
      BY <1>7, <3>1, <3>3
    <3> QED  BY <3>2, <3>3
  <2>9. Copies(relayQueue, ReadyEntry(m)) > 0 => Copies(relayQueue', ReadyEntry(m)) > 0
    BY <2>5, HandsFact
  <2> QED  BY <2>1, <2>6, <2>7, <2>8, <2>9 DEF MessageBalanced
<1> QED  BY <1>10, <1>11 DEF RelayCounts, MessageBalanced

LEMMA RelayOneKeeps ==
    ASSUME RelayShape, RelayHolders, RelayCounts, NEW l \in RelayLoops, RelayOne(l)
    PROVE  RelayShape' /\ RelayCounts'
<1>1. PICK h, s : h = Head(inHand[l]) /\ s = inHand[l]
  OBVIOUS
<1>2. s # <<>> /\ s \in Seq(Transfers) /\ relayAt[l] = "relay"
  BY <1>1 DEF RelayOne, RelayShape
<1>3. h \in Transfers /\ Tail(s) \in Seq(Transfers)
  BY <1>1, <1>2, HeadTailProperties
<1>4. /\ GoesTo(l, "remove") /\ deliveries' = [deliveries EXCEPT ![h] = @ + 1]
      /\ relayed' = relayed \cup {h} /\ UNCHANGED <<relayQueue, waitingFor, inHand>>
  BY <1>1 DEF RelayOne
<1>5. inHand' = [inHand EXCEPT ![l] = s]
  BY <1>1, <1>4 DEF RelayShape
<1>7. /\ inHand'[l] = s /\ relayAt'[l] = "remove" /\ inHand' \in [RelayLoops -> Seq(Transfers)]
      /\ \A k \in RelayLoops \ {l} : inHand'[k] = inHand[k] /\ relayAt'[k] = relayAt[k]
      /\ \A k \in RelayLoops \ {l} : Hands(k)' = Hands(k)
      /\ Hands(l)' = Tail(s)
      /\ \A m : Cardinality(Entered(m)) \in Nat /\ Cardinality(Entered(m)') \in Nat
                /\ Cardinality(Entered(m)) <= Cardinality(Entered(m)')
  BY <1>2, <1>4, <1>5, LoopFrame
<1>8. Hands(l) = s
  BY <1>1, <1>2 DEF Hands
<1>9. /\ deliveries' \in [Transfers -> Nat]
      /\ \A m \in Transfers : deliveries'[m] = deliveries[m] + IF h = m THEN 1 ELSE 0
  BY <1>3, <1>4 DEF RelayShape
<1>10. RelayShape'
  <2>1. \A k \in RelayLoops : relayAt'[k] \in {"enqueue", "relay", "remove"} <=> inHand'[k] # <<>>
    BY <1>2, <1>7 DEF RelayShape
  <2>2. \A k \in RelayLoops : relayAt'[k] = "remove" => Head(inHand'[k]) \in relayed'
    BY <1>1, <1>4, <1>7 DEF RelayShape
  <2> QED  BY <1>3, <1>4, <1>7, <1>9, <2>1, <2>2 DEF RelayShape
<1>11. ASSUME NEW m \in Transfers PROVE MessageBalanced(m)'
  <2>1. MessageBalanced(m)
    BY DEF RelayCounts, MessageBalanced
  <2>2. InHands(m)' = InHands(m) - Copies(Hands(l), m) + Copies(Hands(l)', m)
    BY <1>7, <1>10, HandsStep
  <2>3. PICK one \in {0, 1} : one = IF h = m THEN 1 ELSE 0
    OBVIOUS
  <2>4. Copies(s, m) = Copies(Tail(s), m) + one /\ Copies(Tail(s), m) \in Nat
    BY <1>1, <1>2, <1>3, <2>3, CopiesOfLess, CopiesAreFew
  <2>5. deliveries'[m] = deliveries[m] + one /\ deliveries[m] \in Nat
    BY <1>9, <2>3 DEF RelayShape
  <2>6. relayQueue' = relayQueue /\ inHand' = inHand /\ waitingFor' = waitingFor /\ Waits(m)' = Waits(m)
    BY <1>4 DEF Waits
  <2>7. deliveries'[m] + Copies(relayQueue', ReadyEntry(m)) + InHands(m)' + Waits(m)'
          <= Cardinality(Entered(m)')
    <3>1. InHands(m)' = InHands(m) - one
      BY <1>7, <1>8, <2>2, <2>4, HandsFact
    <3>2. /\ InHands(m) \in Nat /\ Copies(relayQueue, ReadyEntry(m)) \in Nat /\ Waits(m) \in {0, 1}
          /\ Cardinality(Entered(m)) \in Nat /\ Cardinality(Entered(m)') \in Nat
          /\ Cardinality(Entered(m)) <= Cardinality(Entered(m)')
      BY <1>7, HandsFact
    <3>3. deliveries[m] + Copies(relayQueue, ReadyEntry(m)) + InHands(m) + Waits(m) <= Cardinality(Entered(m))
      BY <2>1 DEF MessageBalanced
    <3>4. /\ deliveries'[m] + Copies(relayQueue', ReadyEntry(m))
               = deliveries[m] + Copies(relayQueue, ReadyEntry(m)) + one
          /\ Waits(m)' = Waits(m)
      BY <2>5, <2>6, <3>2
    <3> QED  BY <2>3, <2>5, <3>1, <3>2, <3>3, <3>4
  <2>8. deliveries'[m] > 0 <=> m \in relayed'
    BY <1>4, <2>1, <2>3, <2>5 DEF MessageBalanced
  <2> QED  BY <1>4, <2>1, <2>6, <2>7, <2>8 DEF MessageBalanced
<1> QED  BY <1>10, <1>11 DEF RelayCounts, MessageBalanced

LEMMA RemoveKeeps ==
    ASSUME RelayShape, RelayHolders, RelayCounts, NEW l \in RelayLoops, RemovePending(l)
    PROVE  RelayShape' /\ RelayCounts'
<1>1. PICK h, s : h = Head(inHand[l]) /\ s = Tail(inHand[l])
  OBVIOUS
<1>2. inHand[l] # <<>> /\ inHand[l] \in Seq(Transfers) /\ relayAt[l] = "remove" /\ h \in relayed
  BY <1>1 DEF RemovePending, RelayShape
<1>3. h \in Transfers /\ s \in Seq(Transfers)
  BY <1>1, <1>2, HeadTailProperties
<1>4. \E label \in {"tick", "relay"} : GoesTo(l, label) /\ (label = "relay" <=> s # <<>>)
  BY <1>1 DEF RemovePending
<1>5. PICK label \in {"tick", "relay"} : GoesTo(l, label) /\ (label = "relay" <=> s # <<>>)
  BY <1>4
<1>6. /\ inHand' = [inHand EXCEPT ![l] = s] /\ waitingFor' = Drop(waitingFor, h)
      /\ UNCHANGED <<relayQueue, relayed, deliveries>>
  BY <1>1 DEF RemovePending
<1>7. /\ inHand'[l] = s /\ relayAt'[l] = label /\ inHand' \in [RelayLoops -> Seq(Transfers)]
      /\ \A k \in RelayLoops \ {l} : inHand'[k] = inHand[k] /\ relayAt'[k] = relayAt[k]
      /\ \A k \in RelayLoops \ {l} : Hands(k)' = Hands(k)
      /\ Hands(l)' = s
      /\ \A m : Cardinality(Entered(m)) \in Nat /\ Cardinality(Entered(m)') \in Nat
                /\ Cardinality(Entered(m)) <= Cardinality(Entered(m)')
  BY <1>2, <1>3, <1>5, <1>6, LoopFrame
<1>8. Hands(l) = s
  BY <1>1, <1>2 DEF Hands
<1>9. /\ DOMAIN waitingFor' = DOMAIN waitingFor \ {h}
      /\ \A m \in DOMAIN waitingFor' : waitingFor'[m] = waitingFor[m]
  BY <1>6 DEF Drop
<1>10. RelayShape'
  <2>1. \A k \in RelayLoops : relayAt'[k] \in {"enqueue", "relay", "remove"} <=> inHand'[k] # <<>>
    BY <1>5, <1>7 DEF RelayShape
  <2>2. \A k \in RelayLoops : relayAt'[k] = "remove" => Head(inHand'[k]) \in relayed'
    BY <1>5, <1>6, <1>7 DEF RelayShape
  <2> QED  BY <1>6, <1>7, <1>9, <2>1, <2>2 DEF RelayShape
<1>11. ASSUME NEW m \in Transfers PROVE MessageBalanced(m)'
  <2>1. MessageBalanced(m)
    BY DEF RelayCounts, MessageBalanced
  <2>2. InHands(m)' = InHands(m)
    <3>1. InHands(m)' = InHands(m) - Copies(Hands(l), m) + Copies(Hands(l)', m)
      BY <1>7, <1>10, HandsStep
    <3> QED  BY <1>7, <1>8, <3>1, HandsFact
  <2>3. Waits(m)' <= Waits(m) /\ Waits(m)' \in {0, 1} /\ Waits(m) \in {0, 1}
    BY <1>9 DEF Waits
  <2>6. deliveries[m] \in Nat /\ deliveries' = deliveries /\ relayed' = relayed /\ relayQueue' = relayQueue
    BY <1>6 DEF RelayShape
  <2>7. deliveries'[m] + Copies(relayQueue', ReadyEntry(m)) + InHands(m)' + Waits(m)'
          <= Cardinality(Entered(m)')
    BY <1>7, <2>1, <2>2, <2>3, <2>6, HandsFact DEF MessageBalanced
  <2>8. ASSUME m \in DOMAIN waitingFor', waitingFor'[m] = -1, m \notin relayed',
               NEW k \in RelayLoops, Copies(inHand[k], m) > 0
        PROVE  Copies(inHand'[k], m) > 0
    <3>1. m # h
      BY <1>2, <2>6, <2>8
    <3>2. Copies(inHand[l], m) = Copies(s, m) + 0 /\ Copies(s, m) \in Nat
      BY <1>1, <1>2, <1>3, <3>1, CopiesOfLess, CopiesAreFew
    <3> QED  BY <1>7, <2>8, <3>2
  <2>9. \A k \in RelayLoops : m \in DOMAIN waitingFor' /\ waitingFor'[m] = -1 /\ m \notin relayed'
           /\ Copies(inHand[k], m) > 0 => Copies(inHand'[k], m) > 0
    BY <2>8
  <2> QED  BY <1>9, <2>1, <2>6, <2>7, <2>9 DEF MessageBalanced
<1> QED  BY <1>10, <1>11 DEF RelayCounts, MessageBalanced

LEMMA BatchSplits ==
    ASSUME RelayShape
    PROVE  \E rest \in Seq([id : Transfers, ready : BOOLEAN]) :
              /\ FirstBatch \in Seq([id : Transfers, ready : BOOLEAN])
              /\ relayQueue = FirstBatch \o rest
              /\ rest = SubSeq(relayQueue, Len(FirstBatch) + 1, Len(relayQueue))
<1> DEFINE E == [id : Transfers, ready : BOOLEAN]
           n == Min({RelayBatch, Len(relayQueue)})
           rest == SubSeq(relayQueue, n + 1, Len(relayQueue))
<1>1. relayQueue \in Seq(E) /\ Len(relayQueue) \in Nat
  BY LenProperties DEF RelayShape
<1>2. n \in Nat /\ n <= Len(relayQueue)
  <2> DEFINE both == {RelayBatch, Len(relayQueue)}
  <2>1. \E x \in both : \A y \in both : x <= y
    BY <1>1, RelayAssumption
  <2>2. Min(both) \in both /\ \A y \in both : Min(both) <= y
    BY <2>1 DEF Min
  <2> QED  BY <1>1, <2>2, RelayAssumption
<1> HIDE DEF n, E
<1>3. /\ SubSeq(relayQueue, 1, n) \in Seq(E) /\ Len(SubSeq(relayQueue, 1, n)) = n
      /\ SubSeq(relayQueue, n + 1, Len(relayQueue)) \in Seq(E)
  <2>1. \A i \in 1 .. Len(relayQueue) : relayQueue[i] \in E
    BY <1>1, ElementOfSeq
  <2> QED  BY <1>1, <1>2, <2>1, SubSeqProperties
<1>4. SubSeq(relayQueue, 1, n) \o SubSeq(relayQueue, n + 1, Len(relayQueue)) = relayQueue
  <2>1. 1 \in 1 .. Len(relayQueue) + 1 /\ n \in 1 - 1 .. Len(relayQueue) /\ Len(relayQueue) \in n .. Len(relayQueue)
    BY <1>1, <1>2
  <2>2. SubSeq(relayQueue, 1, n) \o SubSeq(relayQueue, n + 1, Len(relayQueue))
          = SubSeq(relayQueue, 1, Len(relayQueue))
    BY <1>1, <2>1, ConcatAdjacentSubSeq
  <2> QED  BY <1>1, <2>2, SubSeqFull
<1>5. FirstBatch = SubSeq(relayQueue, 1, n)
  BY DEF FirstBatch, n
<1> QED  BY <1>3, <1>4, <1>5 DEF E

LEMMA TakeKeeps ==
    ASSUME RelayShape, RelayHolders, RelayCounts, NEW l \in RelayLoops, TakeBatch(l)
    PROVE  RelayShape' /\ RelayCounts'
<1> DEFINE E == [id : Transfers, ready : BOOLEAN]
<1>1. PICK rest \in Seq(E) :
              /\ FirstBatch \in Seq(E) /\ relayQueue = FirstBatch \o rest
              /\ rest = SubSeq(relayQueue, Len(FirstBatch) + 1, Len(relayQueue))
  BY BatchSplits
<1>2. PICK b, late : b = FirstBatch /\ late = {i \in DOMAIN b : ~b[i].ready}
  OBVIOUS
<1>3. PICK soon, r : soon = {i \in DOMAIN b : b[i].ready} /\ r = Retained(b, soon)
  OBVIOUS
<1>4. PICK s : s = [i \in DOMAIN r |-> r[i].id]
  OBVIOUS
<1>5. /\ relayAt[l] = "take" /\ inHand' = [inHand EXCEPT ![l] = s]
      /\ relayQueue' = rest \o Retained(b, late)
      /\ GoesTo(l, IF r = <<>> THEN "tick" ELSE "relay")
      /\ UNCHANGED <<waitingFor, relayed, deliveries>>
  BY <1>1, <1>2, <1>3, <1>4 DEF TakeBatch, ReadyOf, Rotated
<1>6. b \in Seq(E) /\ r \in Seq(E) /\ Retained(b, late) \in Seq(E)
  BY <1>1, <1>2, <1>3, RetainedIs
<1>7. DOMAIN b = 1 .. Len(b) /\ DOMAIN r = 1 .. Len(r) /\ Len(r) \in Nat /\ Len(b) \in Nat
  BY <1>6, LenProperties
<1>8. s \in Seq(Transfers) /\ Len(s) = Len(r) /\ \A i \in 1 .. Len(r) : s[i] = r[i].id
  <2>1. ASSUME NEW i \in 1 .. Len(r) PROVE r[i].id \in Transfers
    <3>1. r[i] \in E
      BY <1>6, ElementOfSeq
    <3> QED  BY <3>1
  <2> QED  BY <1>4, <1>7, <2>1
<1>9. \A i \in 1 .. Len(r) : r[i].ready = TRUE
  <2>1. PICK f : PickedAt(f, r, b, soon, Len(b))
    BY <1>3, <1>6, RetainedIs
  <2>2. \A i \in 1 .. Len(r) : f[i] \in soon /\ r[i] = b[f[i]]
    BY <2>1 DEF PickedAt
  <2>3. \A i \in soon : b[i] \in E
    BY <1>3, <1>6, <1>7, ElementOfSeq
  <2> QED  BY <1>3, <2>2, <2>3
<1>10. PICK label \in {"tick", "relay"} : GoesTo(l, label) /\ (label = "relay" <=> s # <<>>)
  <2>1. r = <<>> <=> s = <<>>
    BY <1>6, <1>8, EmptySeq
  <2> QED  BY <1>5, <2>1
<1>11. /\ inHand'[l] = s /\ relayAt'[l] = label /\ inHand' \in [RelayLoops -> Seq(Transfers)]
       /\ \A k \in RelayLoops \ {l} : inHand'[k] = inHand[k] /\ relayAt'[k] = relayAt[k]
       /\ \A k \in RelayLoops \ {l} : Hands(k)' = Hands(k)
       /\ Hands(l)' = s
       /\ \A m : Cardinality(Entered(m)) \in Nat /\ Cardinality(Entered(m)') \in Nat
                 /\ Cardinality(Entered(m)) <= Cardinality(Entered(m)')
  BY <1>5, <1>8, <1>10, LoopFrame
<1>12. Hands(l) = <<>> /\ inHand[l] = <<>>
  BY <1>5 DEF RelayShape, Hands
<1>13. RelayShape'
  <2>1. relayQueue' \in Seq(E)
    BY <1>1, <1>5, <1>6, ConcatProperties
  <2>2. \A k \in RelayLoops : relayAt'[k] \in {"enqueue", "relay", "remove"} <=> inHand'[k] # <<>>
    BY <1>10, <1>11 DEF RelayShape
  <2>3. \A k \in RelayLoops : relayAt'[k] = "remove" => Head(inHand'[k]) \in relayed'
    BY <1>5, <1>10, <1>11 DEF RelayShape
  <2> QED  BY <1>5, <1>11, <2>1, <2>2, <2>3 DEF RelayShape
<1>14. ASSUME NEW m PROVE
          /\ Copies(relayQueue, ReadyEntry(m)) = Copies(relayQueue', ReadyEntry(m)) + Copies(s, m)
          /\ Copies(relayQueue', ReadyEntry(m)) \in Nat /\ Copies(s, m) \in Nat
  <2>1. PICK e : e = ReadyEntry(m)
    OBVIOUS
  <2>0. rest \in Seq(E) /\ b \in Seq(E) /\ Retained(b, late) \in Seq(E)
    BY <1>1, <1>6
  <2> HIDE DEF E
  <2>2. Copies(relayQueue, e) = Copies(b, e) + Copies(rest, e)
    <3>1. Copies(b \o rest, e) = Copies(b, e) + Copies(rest, e)
      BY <2>0, CopiesOfBoth
    <3> QED  BY <1>1, <1>2, <3>1
  <2>3. Copies(relayQueue', e) = Copies(rest, e) + Copies(Retained(b, late), e)
    <3>1. Copies(rest \o Retained(b, late), e) = Copies(rest, e) + Copies(Retained(b, late), e)
      BY <2>0, CopiesOfBoth
    <3> QED  BY <1>5, <3>1
  <2>4. Spots(b, e) \subseteq soon /\ Spots(b, e) \cap late = {}
    BY <1>2, <1>3, <1>7, <2>1 DEF Spots, ReadyEntry
  <2>5. Copies(Retained(b, late), e) = 0
    BY <1>6, <2>4, CopiesOfSome
  <2>6. Copies(r, e) = Copies(b, e)
    BY <1>3, <1>6, <2>4, CopiesOfSome
  <2>7. Spots(r, e) = Spots(s, m)
    <3>1. ASSUME NEW i \in 1 .. Len(r) PROVE r[i] = e <=> s[i] = m
      <4>1. r[i] \in E /\ r[i].ready = TRUE /\ s[i] = r[i].id
        BY <1>6, <1>8, <1>9, ElementOfSeq
      <4>2. r[i] = ReadyEntry(s[i])
        BY <4>1 DEF ReadyEntry, E
      <4>3. ReadyEntry(s[i]) = ReadyEntry(m) <=> s[i] = m
        BY DEF ReadyEntry
      <4> QED  BY <2>1, <4>2, <4>3
    <3> QED  BY <1>8, <3>1 DEF Spots
  <2>8. Copies(r, e) = Copies(s, m)
    BY <2>7 DEF Copies
  <2>9. /\ Copies(rest, e) \in Nat /\ Copies(b, e) \in Nat /\ Copies(s, m) \in Nat
    BY <1>1, <1>6, <1>8, CopiesAreFew
  <2> QED  BY <2>1, <2>2, <2>3, <2>5, <2>6, <2>8, <2>9
<1>15. ASSUME NEW m \in Transfers PROVE MessageBalanced(m)'
  <2>1. MessageBalanced(m)
    BY DEF RelayCounts, MessageBalanced
  <2>2. InHands(m)' = InHands(m) + Copies(s, m)
    <3>1. InHands(m)' = InHands(m) - Copies(Hands(l), m) + Copies(Hands(l)', m)
      BY <1>11, <1>13, HandsStep
    <3>2. Copies(Hands(l), m) = 0
      BY <1>12, CopiesOfOne
    <3> QED  BY <1>11, <3>1, <3>2, HandsFact, <1>14
  <2>6. deliveries[m] \in Nat /\ deliveries' = deliveries /\ relayed' = relayed
        /\ waitingFor' = waitingFor /\ Waits(m)' = Waits(m)
    BY <1>5 DEF RelayShape, Waits
  <2>7. deliveries'[m] + Copies(relayQueue', ReadyEntry(m)) + InHands(m)' + Waits(m)'
          <= Cardinality(Entered(m)')
    <3>1. /\ InHands(m) \in Nat /\ Copies(relayQueue, ReadyEntry(m)) \in Nat /\ Waits(m) \in {0, 1}
          /\ Cardinality(Entered(m)) \in Nat /\ Cardinality(Entered(m)') \in Nat
          /\ Cardinality(Entered(m)) <= Cardinality(Entered(m)')
      BY <1>11, HandsFact
    <3>2. deliveries[m] + Copies(relayQueue, ReadyEntry(m)) + InHands(m) + Waits(m) <= Cardinality(Entered(m))
      BY <2>1 DEF MessageBalanced
    <3>3. /\ Copies(relayQueue, ReadyEntry(m)) = Copies(relayQueue', ReadyEntry(m)) + Copies(s, m)
          /\ Copies(relayQueue', ReadyEntry(m)) \in Nat /\ Copies(s, m) \in Nat
      BY <1>14
    <3>4. deliveries'[m] = deliveries[m] /\ Waits(m)' = Waits(m)
      BY <2>6
    <3> QED  BY <2>2, <2>6, <3>1, <3>2, <3>3, <3>4
  <2>8. ASSUME NEW k \in RelayLoops, Copies(inHand[k], m) > 0
        PROVE  Copies(inHand'[k], m) > 0
    <3>1. Copies(inHand[l], m) = 0
      BY <1>12, CopiesOfOne
    <3>2. k # l
      BY <2>8, <3>1
    <3> QED  BY <1>11, <2>8, <3>2
  <2>9. Copies(relayQueue, ReadyEntry(m)) > 0 =>
           Copies(relayQueue', ReadyEntry(m)) > 0 \/ Copies(inHand'[l], m) > 0
    BY <1>11, <1>14
  <2>10. \A k \in RelayLoops : Copies(inHand[k], m) > 0 => Copies(inHand'[k], m) > 0
    BY <2>8
  <2> QED  BY <2>1, <2>6, <2>7, <2>9, <2>10 DEF MessageBalanced
<1> QED  BY <1>13, <1>15 DEF RelayCounts, MessageBalanced

RelaySpec == RelayInit /\ [][RelayNext]_relayVars

LEMMA RelayStarts == RelayInit => RelayInv
<1> SUFFICES ASSUME RelayInit PROVE RelayInv
  OBVIOUS
<1>1. RelayShape /\ RelayHolders
  BY RelayAssumption DEF RelayInit, RelayShape, RelayHolders, RelayTasks
<1>2. ASSUME NEW m \in Transfers PROVE MessageBalanced(m)
  <2>1. \A l \in RelayLoops : Hands(l) = <<>>
    BY RelayAssumption DEF RelayInit, Hands, RelayTasks
  <2>2. InHands(m) = 0
    <3> DEFINE f == [l \in RelayLoops |-> Copies(Hands(l), m)]
               z == [l \in RelayLoops |-> 0]
    <3>1. f = z
      BY <2>1, CopiesOfOne
    <3>2. SumFunctionOnSet(z, RelayLoops) = 0
      BY RelayAssumption, SumZero
    <3> QED  BY <3>1, <3>2 DEF InHands
  <2>3. Copies(relayQueue, ReadyEntry(m)) = 0 /\ deliveries[m] = 0 /\ m \notin relayed
        /\ DOMAIN waitingFor = {} /\ Waits(m) = 0
    <3>1. relayQueue = <<>> /\ deliveries[m] = 0 /\ m \notin relayed /\ waitingFor = <<>>
      BY DEF RelayInit
    <3>2. DOMAIN waitingFor = {}
      BY <3>1
    <3>3. Copies(relayQueue, ReadyEntry(m)) = 0
      BY <3>1, CopiesOfOne
    <3> QED  BY <3>1, <3>2, <3>3 DEF Waits
  <2>4. Cardinality(Entered(m)) \in Nat
    BY <1>1, HandsFact
  <2> QED  BY <2>2, <2>3, <2>4 DEF MessageBalanced
<1> QED  BY <1>1, <1>2 DEF RelayInv, RelayCounts, MessageBalanced

LEMMA RelayStep == ASSUME RelayInv, [RelayNext]_relayVars PROVE RelayInv'
<1>0. RelayShape /\ RelayHolders /\ RelayCounts /\ RelayHolders'
  BY HoldersStep DEF RelayInv
<1>1. CASE UNCHANGED relayVars \/ StopRelayer
  <2>1. UNCHANGED <<relayQueue, inHand, waitingFor, deliveries, relayed, relayAt>>
    BY <1>1 DEF relayVars, StopRelayer
  <2>2. RelayShape'
    BY <1>0, <2>1 DEF RelayShape
  <2>3. \A m : InHands(m)' = InHands(m) /\ Waits(m)' = Waits(m) /\ Entered(m)' = Entered(m)
    BY <2>1 DEF InHands, Hands, Waits, Entered
  <2>4. RelayCounts'
    BY <1>0, <2>1, <2>3 DEF RelayCounts
  <2> QED  BY <1>0, <2>2, <2>4 DEF RelayInv
<1>2. ASSUME NEW c \in Submissions, SubmitQueue(c) \/ SubmitPending(c) PROVE RelayInv'
  BY <1>0, <1>2, SubmitsKeep DEF RelayInv
<1>3. ASSUME NEW l \in RelayLoops, StartLoop(l) \/ LoopTick(l) PROVE RelayInv'
  <2>1. UNCHANGED <<relayQueue, inHand, waitingFor, deliveries, relayed>>
    BY <1>3 DEF StartLoop, LoopTick, relayData
  <2>2. \E label \in {"tick", "confirm", "done"} : GoesTo(l, label)
    BY <1>3 DEF StartLoop, LoopTick
  <2>3. relayAt[l] \in {"idle", "tick"} /\ l \in RelayTasks
    BY <1>3 DEF StartLoop, LoopTick, RelayTasks
  <2> QED  BY <1>0, <2>1, <2>2, <2>3, RelayQuiet DEF RelayInv
<1>4. ASSUME NEW c \in StatCalls, StatsPending(c) \/ StatsRelayed(c) \/ StatsQueue(c) PROVE RelayInv'
  <2>1. UNCHANGED <<relayQueue, inHand, waitingFor, deliveries, relayed>>
    BY <1>4 DEF StatsPending, StatsRelayed, StatsQueue, relayData
  <2>2. \E label \in {"relayed", "queue", "done"} : GoesTo(c, label)
    BY <1>4 DEF StatsPending, StatsRelayed, StatsQueue
  <2>3. relayAt[c] \in {"idle", "relayed", "queue"} /\ c \in RelayTasks
    BY <1>4 DEF StatsPending, StatsRelayed, StatsQueue, RelayTasks
  <2> QED  BY <1>0, <2>1, <2>2, <2>3, RelayQuiet DEF RelayInv
<1>5. ASSUME NEW l \in RelayLoops, ConfirmMessages(l) PROVE RelayInv'
  BY <1>0, <1>5, ConfirmKeeps DEF RelayInv
<1>6. ASSUME NEW l \in RelayLoops, EnqueueReady(l) PROVE RelayInv'
  BY <1>0, <1>6, EnqueueKeeps DEF RelayInv
<1>7. ASSUME NEW l \in RelayLoops, TakeBatch(l) PROVE RelayInv'
  BY <1>0, <1>7, TakeKeeps DEF RelayInv
<1>8. ASSUME NEW l \in RelayLoops, RelayOne(l) PROVE RelayInv'
  BY <1>0, <1>8, RelayOneKeeps DEF RelayInv
<1>9. ASSUME NEW l \in RelayLoops, RemovePending(l) PROVE RelayInv'
  BY <1>0, <1>9, RemoveKeeps DEF RelayInv
<1> QED  BY <1>1, <1>2, <1>3, <1>4, <1>5, <1>6, <1>7, <1>8, <1>9 DEF RelayNext, LoopStep

LEMMA RelayGives == ASSUME RelayInv PROVE RelaySound
<1>0. RelayShape /\ RelayHolders /\ RelayCounts
  BY DEF RelayInv
<1>1. OnlyKnownInversions
  BY <1>0, InversionsKnown
<1>2. ASSUME NEW m \in Transfers
      PROVE  /\ deliveries[m] <= Cardinality(SubmissionsOf(m))
             /\ deliveries[m] > 0 <=> m \in relayed
             /\ m \in DOMAIN waitingFor /\ waitingFor[m] = -1 /\ m \notin relayed =>
                   \/ \E i \in DOMAIN relayQueue : relayQueue[i] = [id |-> m, ready |-> TRUE]
                   \/ \E l \in RelayLoops : m \in Range(inHand[l])
  <2>1. MessageBalanced(m)
    BY <1>0 DEF RelayCounts, MessageBalanced
  <2>2. Cardinality(Entered(m)) <= Cardinality(SubmissionsOf(m)) /\ Cardinality(SubmissionsOf(m)) \in Nat
    <3> PICK few, all : few = Entered(m) /\ all = SubmissionsOf(m)
      OBVIOUS
    <3>1. few \in SUBSET all /\ all \in SUBSET Submissions
      BY DEF Entered, SubmissionsOf
    <3>2. IsFiniteSet(all)
      BY <3>1, FS_Subset, RelayAssumption
    <3> QED  BY <3>1, <3>2, FS_Subset, FS_CardinalityType
  <2>3. deliveries[m] \in Nat
    BY <1>0 DEF RelayShape
  <2>4. deliveries[m] <= Cardinality(SubmissionsOf(m))
    BY <1>0, <2>1, <2>2, <2>3, HandsFact DEF MessageBalanced
  <2>5. Copies(relayQueue, ReadyEntry(m)) > 0 =>
           \E i \in DOMAIN relayQueue : relayQueue[i] = [id |-> m, ready |-> TRUE]
    BY <1>0, HasCopy DEF RelayShape, ReadyEntry
  <2>6. ASSUME NEW l \in RelayLoops, Copies(inHand[l], m) > 0 PROVE m \in Range(inHand[l])
    BY <1>0, <2>6, HandsFact, HasCopy
  <2> QED  BY <2>1, <2>4, <2>5, <2>6 DEF MessageBalanced
<1> QED  BY <1>1, <1>2 DEF RelaySound, RelayedOnce

(* RelayAlwaysSound: for any submissions, loops and calls of the            *)
(* statistics, submit_transfer, process_pending_messages and                *)
(* relay_ready_messages (relayer.rs:52-179) relay a transfer at most as     *)
(* often as it was submitted and drop none between their locks, and only    *)
(* the known pairs of calls, get_stats (relayer.rs:212-223) among them,     *)
(* take their locks in opposite orders.                                     *)
THEOREM RelayAlwaysSound == RelaySpec => []RelaySound
<1>1. RelayInit => RelayInv
  BY RelayStarts
<1>2. RelayInv /\ [RelayNext]_relayVars => RelayInv'
  BY RelayStep
<1>3. RelayInv => RelaySound
  BY RelayGives
<1> QED  BY <1>1, <1>2, <1>3, PTL DEF RelaySpec
-----------------------------------------------------------------------------
(* Data availability, for data of any length *)

LEMMA MinOf == \A a, b \in Int : Min({a, b}) = IF a <= b THEN a ELSE b
<1> SUFFICES ASSUME NEW a \in Int, NEW b \in Int PROVE Min({a, b}) = IF a <= b THEN a ELSE b
  OBVIOUS
<1>1. PICK m : m = IF a <= b THEN a ELSE b
  OBVIOUS
<1>2. m \in {a, b} /\ \A y \in {a, b} : m <= y
  BY <1>1
<1>3. \A x \in {a, b} : (\A y \in {a, b} : x <= y) => x = m
  BY <1>1
<1>4. Min({a, b}) = m
  BY <1>2, <1>3 DEF Min
<1> QED  BY <1>1, <1>4

(* The length in shards, and what is left of it. *)
LEMMA Quarters ==
    ASSUME NEW n \in Nat
    PROVE  \E k \in Nat, r \in 0 .. 3 :
              n = 4 * k + r /\ ShardSize(n) = IF r = 0 THEN k ELSE k + 1
<1>1. PICK k, r : k = n \div 4 /\ r = n % 4
  OBVIOUS
<1>2. k \in Nat /\ r \in 0 .. 3 /\ n = 4 * k + r
  BY <1>1
<1>3. ShardSize(n) = (n + 3) \div 4
  BY DataAssumption DEF ShardSize
<1>4. (n + 3) \div 4 = IF r = 0 THEN k ELSE k + 1
  BY <1>2
<1> QED  BY <1>2, <1>3, <1>4

(* ShardEnd, and where the slices of a datum lie that encode survives. *)
LEMMA ShardsAre ==
    ASSUME NEW n \in Nat
    PROVE  /\ ShardSize(n) \in Nat /\ n <= 4 * ShardSize(n)
           /\ \A i \in 0 .. 3 : /\ ShardStart(n, i) = i * ShardSize(n)
                                /\ ShardEnd(n, i) = IF i * ShardSize(n) + ShardSize(n) <= n
                                                    THEN i * ShardSize(n) + ShardSize(n) ELSE n
<1>1. PICK k \in Nat, r \in 0 .. 3 : n = 4 * k + r /\ ShardSize(n) = IF r = 0 THEN k ELSE k + 1
  BY Quarters
<1>2. ShardSize(n) \in Nat /\ n <= 4 * ShardSize(n)
  BY <1>1
<1>3. ASSUME NEW i \in 0 .. 3
      PROVE  ShardEnd(n, i) = IF i * ShardSize(n) + ShardSize(n) <= n
                              THEN i * ShardSize(n) + ShardSize(n) ELSE n
  <2>1. PICK z \in Int : z = i * ShardSize(n) + ShardSize(n)
    BY <1>2
  <2>2. ShardEnd(n, i) = Min({z, n})
    BY <2>1 DEF ShardEnd, ShardStart
  <2> QED  BY <2>1, <2>2, MinOf
<1> QED  BY <1>2, <1>3 DEF ShardStart

LEMMA PanicsAt == \A n \in Nat : EncodePanics(n) <=> n \in {1, 2, 5}
<1> SUFFICES ASSUME NEW n \in Nat PROVE EncodePanics(n) <=> n \in {1, 2, 5}
  OBVIOUS
<1>1. PICK k \in Nat, r \in 0 .. 3 : n = 4 * k + r /\ ShardSize(n) = IF r = 0 THEN k ELSE k + 1
  BY Quarters
<1>2. PICK s \in Nat : s = ShardSize(n)
  BY <1>1
<1>3. EncodePanics(n) <=> \E i \in 0 .. 3 : i * s > n
  <2>1. EncodePanics(n) <=> \E i \in 0 .. 3 : ShardStart(n, i) > ShardEnd(n, i)
    BY DataAssumption DEF EncodePanics
  <2>2. ASSUME NEW i \in 0 .. 3 PROVE ShardStart(n, i) > ShardEnd(n, i) <=> i * s > n
    <3>1. PICK z \in Nat : z = i * s
      BY <1>2
    <3>2. ShardStart(n, i) = z /\ ShardEnd(n, i) = IF z + s <= n THEN z + s ELSE n
      BY <1>2, <3>1, ShardsAre
    <3> QED  BY <3>1, <3>2
  <2> QED  BY <2>1, <2>2
<1>4. (\E i \in 0 .. 3 : i * s > n) <=> 3 * s > n
  <2>1. ASSUME NEW i \in 0 .. 3, i * s > n PROVE 3 * s > n
    <3>1. CASE i = 0
      BY <2>1, <3>1
    <3>2. CASE i = 1
      BY <2>1, <3>2
    <3>3. CASE i = 2
      BY <2>1, <3>3
    <3>4. CASE i = 3
      BY <2>1, <3>4
    <3> QED  BY <3>1, <3>2, <3>3, <3>4
  <2>2. 3 \in 0 .. 3
    OBVIOUS
  <2> QED  BY <2>1, <2>2
<1>5. 3 * s > n <=> n \in {1, 2, 5}
  <2>1. CASE r = 0
    BY <1>1, <1>2, <2>1
  <2>2. CASE r = 1
    BY <1>1, <1>2, <2>2
  <2>3. CASE r = 2
    BY <1>1, <1>2, <2>3
  <2>4. CASE r = 3
    BY <1>1, <1>2, <2>4
  <2> QED  BY <2>1, <2>2, <2>3, <2>4
<1> QED  BY <1>3, <1>4, <1>5

(* Two slices, one after the other. *)
LEMMA SlicesJoin ==
    ASSUME NEW S, NEW d \in Seq(S), NEW a \in 0 .. Len(d), NEW b \in a .. Len(d)
    PROVE  SubSeq(d, 1, a) \o SubSeq(d, a + 1, b) = SubSeq(d, 1, b)
<1>1. PICK n \in Nat : n = Len(d)
  BY LenProperties
<1>2. a \in Nat /\ b \in Nat /\ a <= b /\ b <= n
  BY <1>1
<1>3. PICK u, v, w : u = SubSeq(d, 1, a) /\ v = SubSeq(d, a + 1, b) /\ w = SubSeq(d, 1, b)
  OBVIOUS
<1>4. /\ u \in Seq(S) /\ Len(u) = a /\ \A i \in 1 .. a : u[i] = d[i]
      /\ w \in Seq(S) /\ Len(w) = b /\ \A i \in 1 .. b : w[i] = d[i]
      /\ v \in Seq(S) /\ Len(v) = b - a /\ \A i \in 1 .. b - a : v[i] = d[a + i]
  BY <1>1, <1>2, <1>3
<1>5. /\ u \o v \in Seq(S) /\ Len(u \o v) = b
      /\ \A i \in 1 .. b : (u \o v)[i] = IF i <= a THEN u[i] ELSE v[i - a]
  BY <1>2, <1>4, ConcatProperties
<1>6. ASSUME NEW i \in 1 .. b PROVE (u \o v)[i] = w[i]
  <2>1. CASE i <= a
    BY <1>2, <1>4, <1>5, <2>1
  <2>2. CASE ~(i <= a)
    <3>1. i - a \in 1 .. b - a /\ a + (i - a) = i
      BY <1>2, <2>2
    <3> QED  BY <1>4, <1>5, <2>2, <3>1
  <2> QED  BY <2>1, <2>2
<1>7. u \o v = w
  BY <1>4, <1>5, <1>6, SeqEqual
<1> QED  BY <1>3, <1>7

(* The first i shards of d, joined. *)
UpTo(d, i) == IF i = 0 THEN 0 ELSE ShardEnd(Len(d), i - 1)

(* Each shard begins where the one before it ends, and the last one ends    *)
(* with the datum.                                                          *)
LEMMA ShardsMeet ==
    ASSUME NEW S, NEW d \in Seq(S), ~EncodePanics(Len(d))
    PROVE  /\ UpTo(d, 0) = 0 /\ UpTo(d, 4) = Len(d)
           /\ \A i \in 0 .. 3 : /\ UpTo(d, i) \in 0 .. Len(d)
                                /\ ShardStart(Len(d), i) = UpTo(d, i)
                                /\ ShardEnd(Len(d), i) = UpTo(d, i + 1)
                                /\ UpTo(d, i + 1) \in UpTo(d, i) .. Len(d)
<1>1. PICK n \in Nat : n = Len(d)
  BY LenProperties
<1>2. PICK s \in Nat : s = ShardSize(n) /\ n <= 4 * s
  BY ShardsAre
<1>3. ASSUME NEW i \in 0 .. 3
      PROVE  i * s \in Nat /\ i * s <= n /\ ShardStart(n, i) = i * s
             /\ ShardEnd(n, i) = IF i * s + s <= n THEN i * s + s ELSE n
  <2>1. ShardStart(n, i) = i * s /\ ShardEnd(n, i) = IF i * s + s <= n THEN i * s + s ELSE n
    BY <1>2, ShardsAre
  <2>2. i * s \in Nat
    BY <1>2
  <2>3. ~(ShardStart(n, i) > ShardEnd(n, i))
    BY <1>1, DataAssumption DEF EncodePanics
  <2> QED  BY <2>1, <2>2, <2>3
<1>4. UpTo(d, 0) = 0
  BY DEF UpTo
<1>5. ASSUME NEW i \in 0 .. 3 PROVE UpTo(d, i + 1) = ShardEnd(n, i)
  <2>1. i + 1 # 0 /\ (i + 1) - 1 = i
    OBVIOUS
  <2> QED  BY <1>1, <2>1 DEF UpTo
<1>6. ASSUME NEW i \in 0 .. 3 PROVE UpTo(d, i) = i * s
  <2>1. CASE i = 0
    BY <1>2, <1>4, <2>1
  <2>2. ASSUME NEW j \in 0 .. 2 PROVE UpTo(d, j + 1) = (j + 1) * s
    <3>1. j \in 0 .. 3 /\ j + 1 \in 0 .. 3
      OBVIOUS
    <3>2. PICK z \in Nat : z = j * s
      BY <1>3, <3>1
    <3>3. (j + 1) * s = z + s
      BY <3>2
    <3>4. (j + 1) * s <= n
      BY <1>3, <3>1
    <3>5. ShardEnd(n, j) = IF z + s <= n THEN z + s ELSE n
      BY <1>3, <3>1, <3>2
    <3>6. UpTo(d, j + 1) = ShardEnd(n, j)
      BY <1>5, <3>1
    <3> QED  BY <3>3, <3>4, <3>5, <3>6
  <2>3. CASE i # 0
    <3>1. i - 1 \in 0 .. 2 /\ (i - 1) + 1 = i
      BY <2>3
    <3> QED  BY <2>2, <3>1
  <2> QED  BY <2>1, <2>3
<1>7. UpTo(d, 4) = n
  <2>1. 3 \in 0 .. 3 /\ 3 + 1 = 4
    OBVIOUS
  <2>2. UpTo(d, 4) = IF 3 * s + s <= n THEN 3 * s + s ELSE n
    BY <1>3, <1>5, <2>1
  <2>3. 3 * s + s = 4 * s
    BY <1>2
  <2> QED  BY <1>2, <2>2, <2>3
<1>8. ASSUME NEW i \in 0 .. 3
      PROVE  UpTo(d, i) \in 0 .. n /\ ShardStart(n, i) = UpTo(d, i) /\ ShardEnd(n, i) = UpTo(d, i + 1)
             /\ UpTo(d, i + 1) \in UpTo(d, i) .. n
  <2>0. PICK z \in Nat : z = i * s
    BY <1>3
  <2>1. z = i * s /\ z <= n
    BY <1>3, <2>0
  <2>2. UpTo(d, i) = z /\ ShardStart(n, i) = z /\ UpTo(d, i + 1) = IF z + s <= n THEN z + s ELSE n
    BY <1>3, <1>5, <1>6, <2>1
  <2>3. UpTo(d, i + 1) = ShardEnd(n, i)
    BY <1>5
  <2>4. PICK v : v = IF z + s <= n THEN z + s ELSE n
    OBVIOUS
  <2>5. z \in 0 .. n /\ v \in z .. n
    <3>1. z <= n
      BY <2>1
    <3> QED  BY <2>4, <3>1
  <2> QED  BY <2>2, <2>3, <2>4, <2>5
<1> QED  BY <1>1, <1>4, <1>7, <1>8

(* What collect_shards takes is the data shards, each a slice. *)
LEMMA CollectsData ==
    ASSUME NEW S, NEW d \in Seq(S), ~EncodePanics(Len(d))
    PROVE  LET data == CollectShards(Encode(d))
           IN  /\ data \in Seq([index : Int, parity : BOOLEAN, bytes : Seq(S)]) /\ Len(data) = 4
               /\ \A i \in 1 .. 4 : ~data[i].parity
               /\ \A i \in 0 .. 3 : data[i + 1].bytes = SubSeq(d, UpTo(d, i) + 1, UpTo(d, i + 1))
<1> DEFINE Shard == [index : Int, parity : BOOLEAN, bytes : Seq(S)]
<1>1. PICK e : e = Encode(d)
  OBVIOUS
<1>2. PICK slice : slice = [i \in 1 .. 6 |-> IF i > 4 THEN <<>>
                             ELSE SubSeq(d, ShardStart(Len(d), i - 1) + 1, ShardEnd(Len(d), i - 1))]
  OBVIOUS
<1>3. ASSUME NEW i \in 0 .. 3
      PROVE  /\ slice[i + 1] = SubSeq(d, UpTo(d, i) + 1, UpTo(d, i + 1))
             /\ slice[i + 1] \in Seq(S)
  <2>1. i + 1 \in 1 .. 6 /\ ~(i + 1 > 4) /\ (i + 1) - 1 = i
    OBVIOUS
  <2>2. slice[i + 1] = SubSeq(d, ShardStart(Len(d), i) + 1, ShardEnd(Len(d), i))
    BY <1>2, <2>1
  <2>3. /\ UpTo(d, i) \in 0 .. Len(d) /\ ShardStart(Len(d), i) = UpTo(d, i)
        /\ ShardEnd(Len(d), i) = UpTo(d, i + 1) /\ UpTo(d, i + 1) \in UpTo(d, i) .. Len(d)
    BY ShardsMeet
  <2>4. PICK a \in Nat, b \in Nat : a = UpTo(d, i) /\ b = UpTo(d, i + 1) /\ a <= b /\ b <= Len(d)
    BY <2>3, LenProperties
  <2>5. SubSeq(d, a + 1, b) \in Seq(S)
    <3>1. Len(d) \in Nat
      BY LenProperties
    <3> QED  BY <2>4, <3>1
  <2> QED  BY <2>2, <2>3, <2>4, <2>5
<1>4. \A i \in 1 .. 6 : slice[i] \in Seq(S)
  <2>1. ASSUME NEW i \in 1 .. 6 PROVE slice[i] \in Seq(S)
    <3>1. CASE i > 4
      BY <1>2, <3>1
    <3>2. CASE ~(i > 4)
      <4>1. i - 1 \in 0 .. 3 /\ (i - 1) + 1 = i
        BY <3>2
      <4> QED  BY <1>3, <4>1
    <3> QED  BY <3>1, <3>2
  <2> QED  BY <2>1
<1>5. e = [i \in 1 .. 6 |-> [index |-> i - 1, parity |-> i > 4, bytes |-> slice[i]]]
  <2>1. DataShards + ParityShards = 6 /\ DataShards = 4
    BY DataAssumption
  <2> QED  BY <1>1, <1>2, <2>1 DEF Encode
<1>6. \A i \in 1 .. 6 : e[i].parity = (i > 4) /\ e[i].bytes = slice[i] /\ e[i] \in Shard
  BY <1>4, <1>5
<1>7. e \in Seq(Shard) /\ Len(e) = 6
  BY <1>5, <1>6
<1> HIDE DEF Shard
<1>8. PICK data : data = CollectShards(e)
  OBVIOUS
<1>9. data = SubSeq(e, 1, 4)
  <2>1. MinShards(e) = 4
    BY <1>7 DEF MinShards
  <2> QED  BY <1>8, <2>1 DEF CollectShards
<1>10. data \in Seq(Shard) /\ Len(data) = 4 /\ \A i \in 1 .. 4 : data[i] = e[i]
  <2>1. ASSUME NEW i \in 1 .. 4 PROVE e[i] \in Shard
    <3>1. i \in 1 .. 6
      OBVIOUS
    <3> QED  BY <1>6, <3>1
  <2>2. /\ SubSeq(e, 1, 4) \in Seq(Shard) /\ Len(SubSeq(e, 1, 4)) = IF 1 <= 4 THEN 4 - 1 + 1 ELSE 0
        /\ \A i \in 1 .. 4 - 1 + 1 : SubSeq(e, 1, 4)[i] = e[1 + i - 1]
    BY <2>1, SubSeqProperties
  <2>3. (1 .. 4 - 1 + 1) = 1 .. 4 /\ \A i \in 1 .. 4 : 1 + i - 1 = i
    OBVIOUS
  <2>4. Len(data) = 4
    BY <1>9, <2>2
  <2> QED  BY <1>9, <2>2, <2>3, <2>4
<1>11. \A i \in 1 .. 4 : ~data[i].parity /\ data[i].bytes = slice[i]
  <2>1. ASSUME NEW i \in 1 .. 4 PROVE ~data[i].parity /\ data[i].bytes = slice[i]
    <3>1. i \in 1 .. 6 /\ ~(i > 4) /\ data[i] = e[i]
      BY <1>10
    <3> QED  BY <1>6, <3>1
  <2> QED  BY <2>1
<1>12. \A i \in 0 .. 3 : data[i + 1].bytes = SubSeq(d, UpTo(d, i) + 1, UpTo(d, i + 1))
  BY <1>3, <1>11
<1> QED  BY <1>1, <1>8, <1>10, <1>11, <1>12 DEF Shard

(* decode gives back what encode was given. *)
LEMMA DecodesEncoded ==
    ASSUME NEW S, NEW d \in Seq(S), ~EncodePanics(Len(d))
    PROVE  Decode(CollectShards(Encode(d))) = d
<1> DEFINE Shard == [index : Int, parity : BOOLEAN, bytes : Seq(S)]
<1>1. PICK data : data = CollectShards(Encode(d))
  OBVIOUS
<1>2. /\ data \in Seq(Shard) /\ Len(data) = 4
      /\ \A i \in 1 .. 4 : ~data[i].parity
      /\ \A i \in 0 .. 3 : data[i + 1].bytes = SubSeq(d, UpTo(d, i) + 1, UpTo(d, i + 1))
  BY <1>1, CollectsData
<1>3. PICK kept : kept = {i \in DOMAIN data : ~data[i].parity}
  OBVIOUS
<1>4. DOMAIN data = 1 .. 4 /\ kept = 1 .. 4
  <2>1. DOMAIN data = 1 .. 4
    BY <1>2, LenProperties
  <2> QED  BY <1>2, <1>3, <2>1
<1>5. Retained(data, kept) = data
  BY <1>2, <1>4, RetainedAll
<1>6. PICK q : q = [i \in 1 .. 4 |-> data[i].bytes]
  OBVIOUS
<1>7. Decode(data) = FlattenSeq(q)
  BY <1>3, <1>4, <1>5, <1>6 DEF Decode
<1>8. q \in Seq(Seq(S)) /\ Len(q) = 4
  <2>1. \A i \in 1 .. 4 : data[i].bytes \in Seq(S)
    <3>1. ASSUME NEW i \in 1 .. 4 PROVE data[i].bytes \in Seq(S)
      <4>1. data[i] \in Shard
        BY <1>2, ElementOfSeq
      <4> QED  BY <4>1
    <3> QED  BY <3>1
  <2> QED  BY <1>6, <2>1
<1>9. PICK g : FlattenedBy(g, S, q)
  BY <1>8, FlattenSteps
<1>10. g[0] = <<>> /\ FlattenSeq(q) = g[4] /\ \A i \in 0 .. 3 : g[i + 1] = g[i] \o q[i + 1]
  <2>1. Len(q) = 4 /\ 0 .. Len(q) - 1 = 0 .. 3
    BY <1>8
  <2>2. g[0] = <<>> /\ FlattenSeq(q) = g[Len(q)]
        /\ \A i \in 0 .. Len(q) - 1 : g[i + 1] = g[i] \o q[i + 1]
    BY <1>9 DEF FlattenedBy
  <2> QED  BY <2>1, <2>2
<1> DEFINE F(i) == SubSeq(d, 1, UpTo(d, i))
<1>11. ASSUME NEW i \in 0 .. 3, g[i] = F(i) PROVE g[i + 1] = F(i + 1)
  <2>1. q[i + 1] = SubSeq(d, UpTo(d, i) + 1, UpTo(d, i + 1))
    BY <1>2, <1>6
  <2>2. UpTo(d, i) \in 0 .. Len(d) /\ UpTo(d, i + 1) \in UpTo(d, i) .. Len(d)
    BY ShardsMeet
  <2>3. SubSeq(d, 1, UpTo(d, i)) \o SubSeq(d, UpTo(d, i) + 1, UpTo(d, i + 1)) = SubSeq(d, 1, UpTo(d, i + 1))
    BY <2>2, SlicesJoin
  <2> QED  BY <1>10, <1>11, <2>1, <2>3
<1>12. g[0] = F(0)
  <2>1. SubSeq(d, 1, 0) = <<>>
    OBVIOUS
  <2> QED  BY <1>10, <2>1, ShardsMeet
<1>13. F(4) = d
  <2>1. UpTo(d, 4) = Len(d) /\ Len(d) \in Nat
    BY ShardsMeet, LenProperties
  <2>2. SubSeq(d, 1, Len(d)) = d
    BY <2>1
  <2> QED  BY <2>1, <2>2
<1> HIDE DEF F
<1>14. g[1] = F(1)
  <2>1. 0 \in 0 .. 3 /\ 0 + 1 = 1
    OBVIOUS
  <2> QED  BY <1>11, <1>12, <2>1
<1>15. g[2] = F(2)
  <2>1. 1 \in 0 .. 3 /\ 1 + 1 = 2
    OBVIOUS
  <2> QED  BY <1>11, <1>14, <2>1
<1>16. g[3] = F(3)
  <2>1. 2 \in 0 .. 3 /\ 2 + 1 = 3
    OBVIOUS
  <2> QED  BY <1>11, <1>15, <2>1
<1>17. g[4] = F(4)
  <2>1. 3 \in 0 .. 3 /\ 3 + 1 = 4
    OBVIOUS
  <2> QED  BY <1>11, <1>16, <2>1
<1> QED  BY <1>1, <1>7, <1>10, <1>13, <1>17

(* The shards of each id are those of what was stored last, which encode    *)
(* survived.                                                                *)
Salted == {0, 1} \X Nat
DAInv ==
    /\ DOMAIN daStorage = DOMAIN daLatest
    /\ \A id \in DOMAIN daStorage :
          /\ daLatest[id] \in Seq(Salted) /\ ~EncodePanics(Len(daLatest[id]))
          /\ daStorage[id] = Encode(daLatest[id])

DASpec == DAInit /\ [][DANext]_daVars

LEMMA DAStep == ASSUME DAInv, [DANext]_daVars PROVE DAInv'
<1>1. CASE UNCHANGED daVars
  BY <1>1 DEF daVars, DAInv
<1>2. ASSUME NEW id \in DataIds, NEW n \in 0 .. MaxLength, StoreData(id, n) PROVE DAInv'
  <2>1. PICK salt \in {0, 1} : /\ daStorage' = Put(daStorage, id, Encode(Bytes(n, salt)))
                               /\ daLatest' = Put(daLatest, id, Bytes(n, salt))
    BY <1>2 DEF StoreData
  <2>2. PICK d : d = Bytes(n, salt)
    OBVIOUS
  <2>3. d \in Seq(Salted) /\ Len(d) = n
    <3>1. n \in Nat
      BY DataAssumption
    <3>2. \A i \in 1 .. n : <<salt, i>> \in Salted
      BY <3>1 DEF Salted
    <3>3. d = [i \in 1 .. n |-> <<salt, i>>]
      BY <2>2 DEF Bytes
    <3> QED  BY <3>1, <3>2, <3>3
  <2>4. ~EncodePanics(n)
    BY <1>2 DEF StoreData
  <2>5. /\ DOMAIN daStorage' = DOMAIN daStorage \cup {id} /\ DOMAIN daLatest' = DOMAIN daLatest \cup {id}
        /\ \A k \in DOMAIN daStorage \cup {id} : daStorage'[k] = IF k = id THEN Encode(d) ELSE daStorage[k]
        /\ \A k \in DOMAIN daLatest \cup {id} : daLatest'[k] = IF k = id THEN d ELSE daLatest[k]
    BY <2>1, <2>2 DEF Put
  <2> QED  BY <2>3, <2>4, <2>5 DEF DAInv
<1> QED  BY <1>1, <1>2 DEF DANext

LEMMA DAGives == ASSUME DAInv PROVE RetrieveIsStored
<1>1. ASSUME NEW id \in DOMAIN daStorage PROVE RetrieveData(id) = daLatest[id]
  <2>1. PICK d : d = daLatest[id]
    OBVIOUS
  <2>2. d \in Seq(Salted) /\ ~EncodePanics(Len(d)) /\ daStorage[id] = Encode(d)
    BY <2>1 DEF DAInv
  <2>3. Decode(CollectShards(Encode(d))) = d
    BY <2>2, DecodesEncoded
  <2> QED  BY <2>1, <2>2, <2>3 DEF RetrieveData
<1>2. {n \in 0 .. MaxLength : EncodePanics(n)} = {1, 2, 5} \cap (0 .. MaxLength)
  BY DataAssumption, PanicsAt
<1> QED  BY <1>1, <1>2 DEF RetrieveIsStored

(* RetrieveIsAlwaysStored: for data of any length, what retrieve_data gives *)
(* is what store_data was given last (data_availability.rs:262-302), though *)
(* decode makes no use of parity: the shards that collect_shards stops at   *)
(* are the data shards.  encode panics at the lengths 1, 2 and 5 only.      *)
THEOREM RetrieveIsAlwaysStored == DASpec => []RetrieveIsStored
<1>1. DAInit => DAInv
  BY DEF DAInit, DAInv
<1>2. DAInv /\ [DANext]_daVars => DAInv'
  BY DAStep
<1>3. DAInv => RetrieveIsStored
  BY DAGives
<1> QED  BY <1>1, <1>2, <1>3, PTL DEF DASpec
=============================================================================
