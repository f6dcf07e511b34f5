--------------------------- MODULE OrderBookProofs ---------------------------
(***************************************************************************)
(* Proofs about OrderBook, for any numbers of calls, prices and amounts.   *)
(* AccountInv is inductive: what each call holds between two of its writes, *)
(* what the levels and the index hold, and the account of what was traded.  *)
(* TimeInv adds that every level holds its orders as they arrived.          *)
(***************************************************************************)
EXTENDS OrderBook, SequenceTheorems, TLAPS

Trade == [maker : Calls, amount : Nat, price : Prices]
BookLabels == {"idle", "add_book", "match", "match_index", "match_stats", "cancel_book",
               "depth_sell", "done"}
BookResults == {"none", "invalid", "accepted", "panicked", "filled", "partial", "not_found",
                "cancelled", "depth"}

BookTyped ==
    /\ book \in [Sides -> [Prices -> Seq(Order)]]
    /\ index \subseteq Order
    /\ writer \in [Locks -> Calls \cup {NoCall}]
    /\ readers \in [Sides -> SUBSET Calls]
    /\ pc \in [Calls -> BookLabels]
    /\ order \in [Calls -> Order \cup Taker \cup {<<>>}]
    /\ remaining \in [Calls -> Nat] /\ filled \in [Calls -> Nat]
    /\ trades \in [Calls -> Seq(Trade)]
    /\ result \in [Calls -> BookResults]
    /\ stats \in [volume : Nat, count : Nat, high : Nat, low : Nat, last : Nat]

(* c has put its order on the book, once. *)
OwnOrder(c) == c \in Calls /\ order[c] \in Order /\ order[c].id = c
Booked(c) == OwnOrder(c) /\ pc[c] = "done"

(* What is at a level is what its owner added, less what was traded, and    *)
(* it is there once.                                                        *)
EntryOK(o, s, p) ==
    /\ Booked(o.id) /\ order[o.id].side = s /\ order[o.id].price = p /\ o.price = p
    /\ o.amount + filled[o.id] = order[o.id].amount
LevelOK(q, s, p) ==
    /\ \A i \in DOMAIN q : EntryOK(q[i], s, p)
    /\ \A i, j \in DOMAIN q : q[i].id = q[j].id => i = j
LevelsOwn == \A s \in Sides, p \in Prices : LevelOK(book[s][p], s, p)

IndexOwn ==
    \A o \in index : OwnOrder(o.id) /\ order[o.id] = o /\ pc[o.id] \in {"add_book", "done"}
FilledOwn == \A c \in Calls : filled[c] > 0 => Booked(c) /\ filled[c] <= order[c].amount

(* What a call holds where it is. *)
LastMaker(c) == trades[c][Len(trades[c])].maker
MatchHolds(c) ==
    pc[c] \in {"match", "match_index"} =>
        order[c] \in Taker /\ writer[Opposite(order[c].side)] = c
PoppedHeld(c) ==
    pc[c] = "match_index" =>
        /\ Len(trades[c]) > 0 /\ Booked(LastMaker(c))
        /\ order[LastMaker(c)].side = Opposite(order[c].side)
        /\ LastMaker(c) \notin Ids(Resting)
CancelHolds(c) ==
    pc[c] = "cancel_book" =>
        /\ order[c] \in Order /\ Booked(order[c].id) /\ order[order[c].id] = order[c]
        /\ writer["index"] = c
CancelledGone(c) ==
    result[c] = "cancelled" => Booked(order[c].id) /\ order[c].id \notin Ids(Resting)
HeldBy(c) ==
    /\ pc[c] = "add_book" => OwnOrder(c)
    /\ result[c] # "none" => pc[c] = "done"
    /\ MatchHolds(c) /\ PoppedHeld(c) /\ CancelHolds(c) /\ CancelledGone(c)
BookHeld == \A c \in Calls : HeldBy(c)

ShapeInv == BookTyped /\ LevelsOwn /\ IndexOwn /\ FilledOwn /\ BookHeld

-----------------------------------------------------------------------------
(* The ids on the book, level by level. *)
IdsIn(q) == {q[i].id : i \in DOMAIN q}

RestingKnown ==
    \A x : x \in Ids(Resting) <=> \E s \in Sides, p \in Prices : x \in IdsIn(book[s][p])

LEMMA RestingIs == RestingKnown
<1> SUFFICES ASSUME NEW x
             PROVE  x \in Ids(Resting) <=> \E s \in Sides, p \in Prices : x \in IdsIn(book[s][p])
  BY DEF RestingKnown
<1>1. Resting = Queued("Buy") \cup Queued("Sell") /\ Sides = {"Buy", "Sell"}
  BY DEF Resting, Sides
<1>2. \A s : \A o : o \in Queued(s) <=> \E p \in Prices : \E i \in DOMAIN book[s][p] : book[s][p][i] = o
  BY DEF Queued
<1>3. x \in Ids(Resting) <=> \E o \in Resting : o.id = x
  BY DEF Ids
<1>4. \A s, p : x \in IdsIn(book[s][p]) <=> \E i \in DOMAIN book[s][p] : book[s][p][i].id = x
  BY DEF IdsIn
<1>5. \A s : (\E o \in Queued(s) : o.id = x) <=> \E p \in Prices : x \in IdsIn(book[s][p])
  BY <1>2, <1>4
<1> QED  BY <1>1, <1>3, <1>5

(* An id on the book is at one level only. *)
LEMMA OneLevel ==
    ASSUME LevelsOwn, NEW s \in Sides, NEW p \in Prices, NEW x \in IdsIn(book[s][p])
    PROVE  /\ Booked(x) /\ order[x].side = s /\ order[x].price = p
           /\ \A t \in Sides, q \in Prices : x \in IdsIn(book[t][q]) => t = s /\ q = p
BY DEF LevelsOwn, LevelOK, EntryOK, IdsIn

(* One level is replaced. *)
LEMMA LevelChange ==
    ASSUME BookTyped, LevelsOwn, NEW s \in Sides, NEW p \in Prices, NEW q,
           book' = [book EXCEPT ![s][p] = q]
    PROVE  /\ Ids(Resting)' = (Ids(Resting) \ IdsIn(book[s][p])) \cup IdsIn(q)
           /\ book'[s][p] = q
           /\ \A t \in Sides, r \in Prices : ~(t = s /\ r = p) => book'[t][r] = book[t][r]
           /\ q \in Seq(Order) => book' \in [Sides -> [Prices -> Seq(Order)]]
<1>1. book \in [Sides -> [Prices -> Seq(Order)]]
  BY DEF BookTyped
<1>2. /\ book'[s][p] = q
      /\ \A t \in Sides, r \in Prices : ~(t = s /\ r = p) => book'[t][r] = book[t][r]
  BY <1>1
<1>3. q \in Seq(Order) => book' \in [Sides -> [Prices -> Seq(Order)]]
  BY <1>1
<1>4. \A x : x \in Ids(Resting)' <=> \E t \in Sides, r \in Prices : x \in IdsIn(book'[t][r])
  <2>1. RestingKnown'
    BY RestingIs, PTL
  <2> QED  BY <2>1 DEF RestingKnown
<1>5. \A t \in Sides, r \in Prices : ~(t = s /\ r = p) =>
         \A x \in IdsIn(book[t][r]) : x \notin IdsIn(book[s][p])
  BY OneLevel
<1>6. \A x : x \in Ids(Resting)' <=> x \in (Ids(Resting) \ IdsIn(book[s][p])) \cup IdsIn(q)
  BY <1>2, <1>4, <1>5, RestingIs DEF RestingKnown
<1> QED  BY <1>2, <1>3, <1>6

-----------------------------------------------------------------------------
(* A step of call c changes what c itself holds and no other call. *)
StepOf(c) ==
    /\ \A d \in Calls \ {c} : /\ pc'[d] = pc[d] /\ order'[d] = order[d]
                              /\ trades'[d] = trades[d] /\ result'[d] = result[d]
    /\ \A l \in Locks, d \in Calls \ {c} : writer[l] = d => writer'[l] = d

LEMMA BookedStays ==
    ASSUME NEW c \in Calls, pc[c] # "done", StepOf(c), NEW m, Booked(m)
    PROVE  Booked(m)' /\ order'[m] = order[m] /\ m # c
BY DEF StepOf, Booked, OwnOrder

LEMMA OthersHold ==
    ASSUME ShapeInv, NEW c \in Calls, pc[c] # "done", StepOf(c),
           Ids(Resting)' \subseteq Ids(Resting) \cup {c},
           HeldBy(c)'
    PROVE  BookHeld'
<1> SUFFICES ASSUME NEW d \in Calls \ {c} PROVE HeldBy(d)'
  BY DEF BookHeld
<1>1. /\ HeldBy(d) /\ pc'[d] = pc[d] /\ order'[d] = order[d] /\ trades'[d] = trades[d]
      /\ result'[d] = result[d]
  BY DEF ShapeInv, BookHeld, StepOf
<1>2. (pc[d] = "add_book" => OwnOrder(d)') /\ (result'[d] # "none" => pc'[d] = "done")
  BY <1>1 DEF HeldBy, OwnOrder
<1>3. MatchHolds(d)'
  <2> SUFFICES ASSUME pc[d] \in {"match", "match_index"}
               PROVE  order'[d] \in Taker /\ writer'[Opposite(order[d].side)] = d
    BY <1>1 DEF MatchHolds
  <2>1. order[d] \in Taker /\ writer[Opposite(order[d].side)] = d
    BY <1>1 DEF HeldBy, MatchHolds
  <2>2. Opposite(order[d].side) \in Locks
    BY DEF Opposite, Locks, Sides
  <2> QED  BY <1>1, <2>1, <2>2 DEF StepOf
<1>4. PoppedHeld(d)'
  <2> SUFFICES ASSUME pc[d] = "match_index" PROVE PoppedHeld(d)'
    BY <1>1 DEF PoppedHeld
  <2>1. /\ Len(trades[d]) > 0 /\ Booked(LastMaker(d))
        /\ order[LastMaker(d)].side = Opposite(order[d].side)
        /\ LastMaker(d) \notin Ids(Resting)
    BY <1>1 DEF HeldBy, PoppedHeld
  <2>2. LastMaker(d)' = LastMaker(d)
    BY <1>1 DEF LastMaker
  <2> DEFINE m == LastMaker(d)
  <2>3. Booked(m) /\ m' = m
    BY <2>1, <2>2
  <2>4. /\ \A x : Booked(x) => Booked(x)' /\ order'[x] = order[x] /\ x # c
    BY BookedStays
  <2>5. PICK x : x = LastMaker(d)
    OBVIOUS
  <2>6. Booked(x)' /\ order'[x] = order[x] /\ x # c
    BY <2>1, <2>4, <2>5
  <2>7. x \notin Ids(Resting)'
    BY <2>1, <2>5, <2>6
  <2>8. LastMaker(d)' = x
    BY <2>2, <2>5
  <2> QED  BY <1>1, <2>1, <2>5, <2>6, <2>7, <2>8 DEF PoppedHeld, Booked, OwnOrder
<1>5. CancelHolds(d)'
  <2> SUFFICES ASSUME pc[d] = "cancel_book" PROVE CancelHolds(d)'
    BY <1>1 DEF CancelHolds
  <2>1. /\ order[d] \in Order /\ Booked(order[d].id) /\ order[order[d].id] = order[d]
        /\ writer["index"] = d
    BY <1>1 DEF HeldBy, CancelHolds
  <2>2. PICK x : x = order[d].id
    OBVIOUS
  <2>3. Booked(x)' /\ order'[x] = order[x]
    BY <2>1, <2>2, BookedStays
  <2>4. writer'["index"] = d
    BY <2>1 DEF StepOf, Locks
  <2> QED  BY <1>1, <2>1, <2>2, <2>3, <2>4 DEF CancelHolds, Booked, OwnOrder
<1>6. CancelledGone(d)'
  <2> SUFFICES ASSUME result[d] = "cancelled" PROVE CancelledGone(d)'
    BY <1>1 DEF CancelledGone
  <2>1. PICK x : x = order[d].id
    OBVIOUS
  <2>2. Booked(x) /\ x \notin Ids(Resting)
    BY <1>1, <2>1 DEF HeldBy, CancelledGone
  <2>3. Booked(x)' /\ x # c
    BY <2>2, BookedStays
  <2>4. x \notin Ids(Resting)' /\ order'[d].id = x
    BY <1>1, <2>1, <2>2, <2>3
  <2> QED  BY <2>3, <2>4 DEF CancelledGone, Booked, OwnOrder
<1> QED  BY <1>1, <1>2, <1>3, <1>4, <1>5, <1>6 DEF HeldBy

LEMMA SameBook ==
    ASSUME ShapeInv, NEW c \in Calls, pc[c] # "done", StepOf(c), UNCHANGED <<book, filled>>
    PROVE  LevelsOwn' /\ FilledOwn' /\ Ids(Resting)' = Ids(Resting)
<1>1. \A x : Booked(x) => Booked(x)' /\ order'[x] = order[x]
  BY BookedStays
<1>2. LevelsOwn'
  <2> SUFFICES ASSUME NEW s \in Sides, NEW p \in Prices PROVE LevelOK(book[s][p], s, p)'
    BY DEF LevelsOwn
  <2>1. PICK q : q = book[s][p]
    OBVIOUS
  <2>2. LevelOK(q, s, p)
    BY <2>1 DEF ShapeInv, LevelsOwn
  <2>3. \A e, t, r : EntryOK(e, t, r) => EntryOK(e, t, r)'
    BY <1>1 DEF EntryOK
  <2>4. LevelOK(q, s, p)'
    BY <2>2, <2>3 DEF LevelOK
  <2>5. book'[s][p] = q
    BY <2>1
  <2> QED  BY <2>4, <2>5 DEF LevelOK, EntryOK, Booked, OwnOrder
<1>3. FilledOwn'
  BY <1>1 DEF ShapeInv, FilledOwn
<1>4. Ids(Resting)' = Ids(Resting)
  BY DEF Ids, Resting, Queued
<1> QED  BY <1>2, <1>3, <1>4

LEMMA SameIndex ==
    ASSUME ShapeInv, NEW c \in Calls, pc[c] \notin {"done", "add_book"}, StepOf(c),
           index' \subseteq index
    PROVE  IndexOwn'
<1> SUFFICES ASSUME NEW o \in index'
             PROVE  OwnOrder(o.id)' /\ order'[o.id] = o /\ pc'[o.id] \in {"add_book", "done"}
  BY DEF IndexOwn
<1>1. OwnOrder(o.id) /\ order[o.id] = o /\ pc[o.id] \in {"add_book", "done"}
  BY DEF ShapeInv, IndexOwn
<1>2. o.id \in Calls \ {c}
  BY <1>1 DEF OwnOrder
<1> QED  BY <1>1, <1>2 DEF StepOf, OwnOrder

-----------------------------------------------------------------------------
(* Who is between two writes, before and after a step of c. *)
LEMMA BetweenWrites ==
    ASSUME BookTyped, NEW c \in Calls, StepOf(c)
    PROVE  /\ \A x : x \in Adding <=> x \in Calls /\ pc[x] = "add_book"
           /\ \A x : x \in Adding' <=> x \in Adding \ {c} \/ (x = c /\ pc'[c] = "add_book")
           /\ \A x : x \in UsedUp <=> \/ \E d \in Calls \ {c} : pc[d] = "match_index" /\ x = LastMaker(d)
                                      \/ pc[c] = "match_index" /\ x = LastMaker(c)
           /\ \A x : x \in UsedUp' <=> \/ \E d \in Calls \ {c} : pc[d] = "match_index" /\ x = LastMaker(d)
                                       \/ pc'[c] = "match_index" /\ x = LastMaker(c)'
           /\ \A x : x \in Cancelling <=> \E d \in Calls : pc[d] = "cancel_book" /\ x = order[d].id
           /\ \A x : x \in Cancelling' <=>
                 \/ \E d \in Calls \ {c} : pc[d] = "cancel_book" /\ x = order[d].id
                 \/ pc'[c] = "cancel_book" /\ x = order'[c].id
<1>1. /\ \A x : x \in Adding <=> x \in Calls /\ pc[x] = "add_book"
      /\ \A x : x \in Adding' <=> x \in Calls /\ pc'[x] = "add_book"
  BY DEF Adding
<1>2. /\ \A x : x \in UsedUp <=> \E d \in Calls : pc[d] = "match_index" /\ x = LastMaker(d)
      /\ \A x : x \in UsedUp' <=> \E d \in Calls : pc'[d] = "match_index" /\ x = LastMaker(d)'
  BY DEF UsedUp, LastMaker
<1>3. /\ \A x : x \in Cancelling <=> \E d \in Calls : pc[d] = "cancel_book" /\ x = order[d].id
      /\ \A x : x \in Cancelling' <=> \E d \in Calls : pc'[d] = "cancel_book" /\ x = order'[d].id
  BY DEF Cancelling
<1>4. \A d \in Calls \ {c} : /\ pc'[d] = pc[d] /\ order'[d] = order[d]
                             /\ LastMaker(d)' = LastMaker(d)
  BY DEF StepOf, LastMaker
<1>5. \A x : x \in Adding' <=> x \in Adding \ {c} \/ (x = c /\ pc'[c] = "add_book")
  BY <1>1, <1>4
<1>6. \A x : /\ x \in UsedUp <=> \/ \E d \in Calls \ {c} : pc[d] = "match_index" /\ x = LastMaker(d)
                                 \/ pc[c] = "match_index" /\ x = LastMaker(c)
             /\ x \in UsedUp' <=> \/ \E d \in Calls \ {c} : pc[d] = "match_index" /\ x = LastMaker(d)
                                  \/ pc'[c] = "match_index" /\ x = LastMaker(c)'
  BY <1>2, <1>4
<1>7. \A x : x \in Cancelling' <=>
                \/ \E d \in Calls \ {c} : pc[d] = "cancel_book" /\ x = order[d].id
                \/ pc'[c] = "cancel_book" /\ x = order'[c].id
  BY <1>3, <1>4
<1> QED  BY <1>1, <1>3, <1>5, <1>6, <1>7

(* A step that touches neither book nor index nor a hand between two writes. *)
LEMMA QuietStep ==
    ASSUME ShapeInv, IndexBookAgree, NEW c \in Calls, StepOf(c), BookTyped', HeldBy(c)',
           UNCHANGED <<book, index, filled>>,
           pc[c] \notin {"done", "add_book", "match_index", "cancel_book"},
           pc'[c] \notin {"add_book", "match_index", "cancel_book"}
    PROVE  ShapeInv' /\ IndexBookAgree'
<1>1. LevelsOwn' /\ FilledOwn' /\ Ids(Resting)' = Ids(Resting)
  BY SameBook
<1>2. IndexOwn'
  BY SameIndex
<1>3. BookHeld'
  BY <1>1, OthersHold
<1>4. BookTyped
  BY DEF ShapeInv
<1>5. Adding' = Adding /\ UsedUp' = UsedUp /\ Cancelling' = Cancelling
  <2>1. \A x : x \in Adding' <=> x \in Adding
    BY <1>4, BetweenWrites
  <2>2. \A x : x \in UsedUp' <=> x \in UsedUp
    BY <1>4, BetweenWrites
  <2>3. \A x : x \in Cancelling' <=> x \in Cancelling
    BY <1>4, BetweenWrites
  <2> QED  BY <2>1, <2>2, <2>3
<1>6. Ids(index)' = Ids(index)
  BY DEF Ids
<1>7. IndexBookAgree'
  BY <1>1, <1>5, <1>6 DEF IndexBookAgree
<1> QED  BY <1>1, <1>2, <1>3, <1>7 DEF ShapeInv

LEMMA QuietActions ==
    ASSUME ShapeInv, IndexBookAgree, NEW c \in Calls,
           \/ \E type \in Types, price \in Prices, amount \in Amounts, visible \in Amounts :
                 AddRejected(c, type, price, amount, visible)
           \/ Match(c) \/ MatchEnd(c) \/ MatchStats(c) \/ DepthBuy(c) \/ DepthSell(c),
           stats' \in [volume : Nat, count : Nat, high : Nat, low : Nat, last : Nat]
    PROVE  ShapeInv' /\ IndexBookAgree'
<1>0. BookTyped /\ HeldBy(c) /\ NoCall \notin Calls
  BY BookAssumption DEF ShapeInv, BookHeld
<1>1. ASSUME NEW type \in Types, NEW price \in Prices, NEW amount \in Amounts, NEW visible \in Amounts,
             AddRejected(c, type, price, amount, visible)
      PROVE  ShapeInv' /\ IndexBookAgree'
  <2>1. /\ pc[c] = "idle" /\ pc' = [pc EXCEPT ![c] = "done"]
        /\ \E r \in BookResults \ {"cancelled"} : result' = [result EXCEPT ![c] = r]
        /\ UNCHANGED <<book, index, writer, readers, order, remaining, trades, stats, filled>>
    BY <1>1 DEF AddRejected, Return, Goto, BookResults
  <2>2. BookTyped' /\ StepOf(c) /\ pc'[c] = "done" /\ result'[c] # "cancelled"
    BY <1>0, <2>1 DEF BookTyped, StepOf, BookLabels
  <2>3. HeldBy(c)'
    BY <2>2 DEF HeldBy, MatchHolds, PoppedHeld, CancelHolds, CancelledGone
  <2> QED  BY <2>1, <2>2, <2>3, QuietStep
<1>2. CASE Match(c)
  <2>1. PICK t \in Taker, amount \in Amounts : MatchStart(c, t, amount)
    BY <1>2 DEF Match, Taker
  <2>2. /\ pc[c] = "idle" /\ pc' = [pc EXCEPT ![c] = "match"]
        /\ writer[Opposite(t.side)] = NoCall
        /\ writer' = [writer EXCEPT ![Opposite(t.side)] = c]
        /\ order' = [order EXCEPT ![c] = t] /\ remaining' = [remaining EXCEPT ![c] = amount]
        /\ UNCHANGED <<book, index, readers, trades, stats, result, filled>>
    BY <2>1 DEF MatchStart, Goto, CanWrite
  <2>3. Opposite(t.side) \in Locks /\ amount \in Nat
    BY BookAssumption DEF Opposite, Locks, Sides
  <2>4. BookTyped' /\ StepOf(c) /\ pc'[c] = "match" /\ order'[c] = t /\ writer'[Opposite(t.side)] = c
    BY <1>0, <2>2, <2>3 DEF BookTyped, StepOf, BookLabels
  <2>5. HeldBy(c)'
    BY <1>0, <2>2, <2>4 DEF HeldBy, MatchHolds, PoppedHeld, CancelHolds, CancelledGone
  <2> QED  BY <2>2, <2>4, <2>5, QuietStep
<1>3. CASE MatchEnd(c)
  <2>1. /\ pc[c] = "match" /\ pc' = [pc EXCEPT ![c] = "match_stats"]
        /\ writer' = [writer EXCEPT ![Opposite(order[c].side)] = NoCall]
        /\ UNCHANGED <<book, index, readers, order, remaining, trades, stats, result, filled>>
    BY <1>3 DEF MatchEnd, Goto
  <2>2. writer[Opposite(order[c].side)] = c /\ Opposite(order[c].side) \in Locks
    BY <1>0, <2>1 DEF HeldBy, MatchHolds, Opposite, Locks, Sides
  <2>3. BookTyped' /\ StepOf(c) /\ pc'[c] = "match_stats"
    BY <1>0, <2>1, <2>2 DEF BookTyped, StepOf, BookLabels
  <2>4. HeldBy(c)'
    BY <1>0, <2>1, <2>3 DEF HeldBy, MatchHolds, PoppedHeld, CancelHolds, CancelledGone
  <2> QED  BY <2>1, <2>3, <2>4, QuietStep
<1>4. CASE MatchStats(c)
  <2>1. /\ pc[c] = "match_stats" /\ pc' = [pc EXCEPT ![c] = "done"]
        /\ trades' = [trades EXCEPT ![c] = <<>>]
        /\ \E r \in BookResults \ {"cancelled"} : result' = [result EXCEPT ![c] = r]
        /\ UNCHANGED <<book, index, writer, readers, order, remaining, filled>>
    <3>1. \E r \in {"filled", "partial"} : result' = [result EXCEPT ![c] = r]
      BY <1>4 DEF MatchStats, Return
    <3>2. {"filled", "partial"} \subseteq BookResults \ {"cancelled"}
      BY DEF BookResults
    <3> QED  BY <1>4, <3>1, <3>2 DEF MatchStats, Return, Goto
  <2>2. << >> \in Seq(Trade)
    OBVIOUS
  <2>3. BookTyped' /\ StepOf(c) /\ pc'[c] = "done" /\ result'[c] # "cancelled"
    BY <1>0, <2>1, <2>2 DEF BookTyped, StepOf, BookLabels
  <2>4. HeldBy(c)'
    BY <2>3 DEF HeldBy, MatchHolds, PoppedHeld, CancelHolds, CancelledGone
  <2> QED  BY <2>1, <2>3, <2>4, QuietStep
<1>5. CASE DepthBuy(c)
  <2>1. /\ pc[c] = "idle" /\ pc' = [pc EXCEPT ![c] = "depth_sell"]
        /\ readers' = [readers EXCEPT !["Buy"] = @ \cup {c}]
        /\ UNCHANGED <<book, index, writer, order, remaining, trades, stats, result, filled>>
    BY <1>5 DEF DepthBuy, Goto
  <2>2. BookTyped' /\ StepOf(c) /\ pc'[c] = "depth_sell"
    BY <1>0, <2>1 DEF BookTyped, StepOf, BookLabels, Sides
  <2>3. HeldBy(c)'
    BY <1>0, <2>1, <2>2 DEF HeldBy, MatchHolds, PoppedHeld, CancelHolds, CancelledGone
  <2> QED  BY <2>1, <2>2, <2>3, QuietStep
<1>6. CASE DepthSell(c)
  <2>1. /\ pc[c] = "depth_sell" /\ pc' = [pc EXCEPT ![c] = "done"]
        /\ readers' = [readers EXCEPT !["Buy"] = @ \ {c}]
        /\ result' = [result EXCEPT ![c] = "depth"]
        /\ UNCHANGED <<book, index, writer, order, remaining, trades, stats, filled>>
    BY <1>6 DEF DepthSell, Return, Goto
  <2>2. BookTyped' /\ StepOf(c) /\ pc'[c] = "done" /\ result'[c] # "cancelled"
    BY <1>0, <2>1 DEF BookTyped, StepOf, BookLabels, BookResults, Sides
  <2>3. HeldBy(c)'
    BY <2>2 DEF HeldBy, MatchHolds, PoppedHeld, CancelHolds, CancelledGone
  <2> QED  BY <2>1, <2>2, <2>3, QuietStep
<1> QED  BY <1>1, <1>2, <1>3, <1>4, <1>5, <1>6

-----------------------------------------------------------------------------
(* Between two writes are only calls that are booked, or about to be. *)
LEMMA HandsBooked ==
    ASSUME ShapeInv, IndexBookAgree
    PROVE  /\ \A x \in Ids(Resting) : Booked(x)
           /\ \A x \in UsedUp : Booked(x) /\ x \notin Ids(Resting)
           /\ \A x \in Cancelling : Booked(x)
<1>1. \A x \in Ids(Resting) : Booked(x)
  BY OneLevel, RestingIs DEF ShapeInv, RestingKnown
<1>2. \A x \in UsedUp : Booked(x) /\ x \notin Ids(Resting)
  BY DEF UsedUp, LastMaker, ShapeInv, BookHeld, HeldBy, PoppedHeld
<1>3. \A x \in Cancelling : Booked(x)
  BY DEF Cancelling, ShapeInv, BookHeld, HeldBy, CancelHolds
<1> QED  BY <1>1, <1>2, <1>3

LEMMA AddIndexStep ==
    ASSUME ShapeInv, IndexBookAgree, NEW c \in Calls,
           NEW side \in Sides, NEW type \in Types, NEW price \in Prices, NEW amount \in Amounts,
           NEW visible \in Amounts, AddIndex(c, side, type, price, amount, visible)
    PROVE  ShapeInv' /\ IndexBookAgree'
<1> DEFINE o == [id |-> c, side |-> side, price |-> price,
                 amount |-> VisibleAmount(type, amount, visible)]
<1>1. /\ pc[c] = "idle" /\ pc' = [pc EXCEPT ![c] = "add_book"] /\ index' = index \cup {o}
      /\ order' = [order EXCEPT ![c] = o]
      /\ UNCHANGED <<book, writer, readers, remaining, trades, stats, result, filled>>
  BY DEF AddIndex, Goto
<1>2. o \in Order /\ o.id = c
  BY BookAssumption DEF Order, VisibleAmount
<1> HIDE DEF o
<1>3. BookTyped /\ HeldBy(c)
  BY DEF ShapeInv, BookHeld
<1>4. BookTyped' /\ StepOf(c) /\ pc'[c] = "add_book" /\ order'[c] = o
  BY <1>1, <1>2, <1>3 DEF BookTyped, StepOf, BookLabels
<1>5. HeldBy(c)'
  BY <1>1, <1>2, <1>3, <1>4 DEF HeldBy, MatchHolds, PoppedHeld, CancelHolds, CancelledGone, OwnOrder
<1>6. LevelsOwn' /\ FilledOwn' /\ Ids(Resting)' = Ids(Resting)
  BY <1>1, <1>4, SameBook
<1>7. BookHeld'
  BY <1>1, <1>4, <1>5, <1>6, OthersHold
<1>8. IndexOwn'
  <2> SUFFICES ASSUME NEW e \in index'
               PROVE  OwnOrder(e.id)' /\ order'[e.id] = e /\ pc'[e.id] \in {"add_book", "done"}
    BY DEF IndexOwn
  <2>1. CASE e = o
    BY <1>2, <1>4, <2>1 DEF OwnOrder
  <2>2. CASE e # o
    <3>1. OwnOrder(e.id) /\ order[e.id] = e /\ pc[e.id] \in {"add_book", "done"}
      BY <1>1, <2>2 DEF ShapeInv, IndexOwn
    <3>2. e.id \in Calls \ {c}
      BY <1>1, <3>1 DEF OwnOrder
    <3> QED  BY <1>4, <3>1, <3>2 DEF StepOf, OwnOrder
  <2> QED  BY <2>1, <2>2
<1>9. IndexBookAgree'
  <2>1. Ids(index)' = Ids(index) \cup {c}
    BY <1>1, <1>2 DEF Ids
  <2>2. \A x : x \in Adding' <=> x \in Adding \/ x = c
    BY <1>1, <1>3, <1>4, BetweenWrites
  <2>3. \A x : x \in UsedUp' <=> x \in UsedUp
    BY <1>1, <1>3, <1>4, BetweenWrites
  <2>4. \A x : x \in Cancelling' <=> x \in Cancelling
    BY <1>1, <1>3, <1>4, BetweenWrites
  <2>5. c \notin Cancelling
    BY <1>1, HandsBooked DEF Booked
  <2> QED  BY <1>6, <2>1, <2>2, <2>3, <2>4, <2>5 DEF IndexBookAgree
<1> QED  BY <1>4, <1>6, <1>7, <1>8, <1>9 DEF ShapeInv

(* Levels stay right when one is replaced by a level that is. *)
LEMMA LevelsStay ==
    ASSUME LevelsOwn, NEW s \in Sides, NEW p \in Prices, NEW q,
           \A e, t, r : EntryOK(e, t, r) /\ ~(t = s /\ r = p) => EntryOK(e, t, r)',
           book'[s][p] = q, LevelOK(q, s, p)',
           \A t \in Sides, r \in Prices : ~(t = s /\ r = p) => book'[t][r] = book[t][r]
    PROVE  LevelsOwn'
<1> SUFFICES ASSUME NEW t \in Sides, NEW r \in Prices PROVE LevelOK(book[t][r], t, r)'
  BY DEF LevelsOwn
<1>1. CASE t = s /\ r = p
  BY <1>1 DEF LevelOK, EntryOK, Booked, OwnOrder
<1>2. CASE ~(t = s /\ r = p)
  <2>1. PICK u : u = book[t][r]
    OBVIOUS
  <2>2. LevelOK(u, t, r)
    BY <2>1 DEF LevelsOwn
  <2>3. LevelOK(u, t, r)'
    BY <1>2, <2>2 DEF LevelOK
  <2>4. book'[t][r] = u
    BY <1>2, <2>1
  <2> QED  BY <2>3, <2>4 DEF LevelOK, EntryOK, Booked, OwnOrder
<1> QED  BY <1>1, <1>2

LEMMA AddBookStep ==
    ASSUME ShapeInv, IndexBookAgree, NEW c \in Calls, AddBook(c)
    PROVE  ShapeInv' /\ IndexBookAgree' /\ Ids(Resting)' = Ids(Resting) \cup {c}
<1>1. PICK o : o = order[c]
  OBVIOUS
<1>2. BookTyped /\ HeldBy(c) /\ LevelsOwn
  BY DEF ShapeInv, BookHeld
<1>3. PICK s, p, old, q : s = o.side /\ p = o.price /\ old = book[s][p] /\ q = Append(old, o)
  OBVIOUS
<1>4. /\ pc[c] = "add_book" /\ pc' = [pc EXCEPT ![c] = "done"]
      /\ book' = [book EXCEPT ![s][p] = q]
      /\ result' = [result EXCEPT ![c] = "accepted"]
      /\ UNCHANGED <<index, writer, readers, order, remaining, trades, stats, filled>>
  BY <1>1, <1>3 DEF AddBook, Return, Goto
<1>5. o \in Order /\ o.id = c /\ s \in Sides /\ p \in Prices /\ o.amount \in Nat
  BY <1>1, <1>2, <1>3, <1>4 DEF HeldBy, OwnOrder, Order
<1>6. old \in Seq(Order)
  BY <1>2, <1>3, <1>5 DEF BookTyped
<1>7. /\ q \in Seq(Order) /\ Len(old) \in Nat
      /\ \A i \in 1 .. Len(old) : q[i] = old[i]
      /\ q[Len(old) + 1] = o /\ DOMAIN q = 1 .. (Len(old) + 1) /\ DOMAIN old = 1 .. Len(old)
  <2>1. /\ Append(old, o) \in Seq(Order) /\ Len(Append(old, o)) = Len(old) + 1
        /\ \A i \in 1 .. Len(old) : Append(old, o)[i] = old[i]
        /\ Append(old, o)[Len(old) + 1] = o
    BY <1>5, <1>6, AppendProperties
  <2>2. q = Append(old, o)
    BY <1>3
  <2>3. q \in Seq(Order) /\ Len(q) = Len(old) + 1
    BY <2>1, <2>2
  <2>4. /\ Len(old) \in Nat /\ DOMAIN old = 1 .. Len(old) /\ DOMAIN q = 1 .. Len(q)
    BY <1>6, <2>3, LenProperties
  <2> QED  BY <2>1, <2>2, <2>3, <2>4
<1>8. /\ Ids(Resting)' = (Ids(Resting) \ IdsIn(old)) \cup IdsIn(q)
      /\ book'[s][p] = q
      /\ \A t \in Sides, r \in Prices : ~(t = s /\ r = p) => book'[t][r] = book[t][r]
      /\ book' \in [Sides -> [Prices -> Seq(Order)]]
  <2>1. ASSUME NEW t \in Sides, NEW r \in Prices, NEW u, book' = [book EXCEPT ![t][r] = u]
        PROVE  /\ Ids(Resting)' = (Ids(Resting) \ IdsIn(book[t][r])) \cup IdsIn(u)
               /\ book'[t][r] = u
               /\ \A t1 \in Sides, r1 \in Prices : ~(t1 = t /\ r1 = r) => book'[t1][r1] = book[t1][r1]
               /\ u \in Seq(Order) => book' \in [Sides -> [Prices -> Seq(Order)]]
    BY <1>2, <2>1, LevelChange
  <2>2. /\ s \in Sides /\ p \in Prices /\ book' = [book EXCEPT ![s][p] = q]
        /\ q \in Seq(Order) /\ old = book[s][p]
    BY <1>3, <1>4, <1>5, <1>7
  <2>3. /\ Ids(Resting)' = (Ids(Resting) \ IdsIn(book[s][p])) \cup IdsIn(q)
        /\ book'[s][p] = q
        /\ \A t \in Sides, r \in Prices : ~(t = s /\ r = p) => book'[t][r] = book[t][r]
        /\ q \in Seq(Order) => book' \in [Sides -> [Prices -> Seq(Order)]]
    <3>1. s \in Sides /\ p \in Prices /\ book' = [book EXCEPT ![s][p] = q]
      BY <2>2
    <3> QED  BY <2>1, <3>1
  <2> QED  BY <2>2, <2>3
<1>9. BookTyped' /\ StepOf(c) /\ pc'[c] = "done" /\ order' = order
  BY <1>2, <1>4, <1>8 DEF BookTyped, StepOf, BookLabels, BookResults
<1>10. HeldBy(c)'
  BY <1>2, <1>4, <1>9 DEF HeldBy, MatchHolds, PoppedHeld, CancelHolds, CancelledGone
<1>11. Ids(Resting)' = Ids(Resting) \cup {c}
  <2>1. IdsIn(old) \subseteq Ids(Resting)
    BY <1>3, <1>5, RestingIs DEF RestingKnown
  <2>2. IdsIn(q) = IdsIn(old) \cup {c}
    <3>1. \A i \in DOMAIN q : q[i].id \in IdsIn(old) \cup {c}
      <4> SUFFICES ASSUME NEW i \in DOMAIN q PROVE q[i].id \in IdsIn(old) \cup {c}
        OBVIOUS
      <4>1. i \in DOMAIN old \/ i = Len(old) + 1
        BY <1>7
      <4> QED  BY <1>5, <1>7, <4>1 DEF IdsIn
    <3>2. \A i \in DOMAIN old : i \in DOMAIN q /\ q[i] = old[i]
      BY <1>7
    <3>3. Len(old) + 1 \in DOMAIN q
      BY <1>7
    <3> QED  BY <1>5, <1>7, <3>1, <3>2, <3>3 DEF IdsIn
  <2> QED  BY <1>8, <2>1, <2>2
<1>12. BookHeld'
  BY <1>4, <1>9, <1>10, <1>11, OthersHold
<1>13. filled[c] = 0 /\ Booked(c)' /\ \A x : Booked(x) => Booked(x)' /\ x # c
  <2>1. ~(filled[c] > 0) /\ filled[c] \in Nat
    BY <1>2, <1>4 DEF ShapeInv, FilledOwn, Booked, BookTyped
  <2>2. Booked(c)'
    BY <1>1, <1>5, <1>9 DEF Booked, OwnOrder
  <2>3. \A x : Booked(x) => Booked(x)' /\ x # c
    BY <1>4, <1>9, BookedStays
  <2> QED  BY <2>1, <2>2, <2>3
<1>14. \A e, t, r : EntryOK(e, t, r) => EntryOK(e, t, r)'
  BY <1>4, <1>13 DEF EntryOK
<1>15. LevelsOwn'
  <2>1. EntryOK(o, s, p)'
    BY <1>1, <1>3, <1>4, <1>5, <1>13, SMTT(30) DEF EntryOK
  <2>2. LevelOK(old, s, p)
    BY <1>2, <1>3, <1>5 DEF LevelsOwn
  <2>3. \A i \in DOMAIN old : EntryOK(old[i], s, p)' /\ old[i].id # c
    BY <1>13, <1>14, <2>2 DEF LevelOK, EntryOK
  <2>4. ASSUME NEW i \in DOMAIN q
        PROVE  (i \in DOMAIN old /\ q[i] = old[i]) \/ (i = Len(old) + 1 /\ q[i] = o)
    BY <1>7
  <2>5. \A i \in DOMAIN q : EntryOK(q[i], s, p)'
    BY <2>1, <2>3, <2>4
  <2>6. ASSUME NEW i \in DOMAIN q, NEW j \in DOMAIN q, q[i].id = q[j].id PROVE i = j
    BY <1>5, <2>2, <2>3, <2>4, <2>6 DEF LevelOK
  <2>7. LevelOK(q, s, p)'
    BY <2>5, <2>6 DEF LevelOK
  <2> QED  BY <1>2, <1>5, <1>8, <1>14, <2>7, LevelsStay
<1>16. FilledOwn'
  BY <1>4, <1>13 DEF ShapeInv, FilledOwn
<1>17. IndexOwn'
  <2> SUFFICES ASSUME NEW e \in index
               PROVE  OwnOrder(e.id)' /\ order'[e.id] = e /\ pc'[e.id] \in {"add_book", "done"}
    BY <1>4 DEF IndexOwn
  <2>1. OwnOrder(e.id) /\ order[e.id] = e /\ pc[e.id] \in {"add_book", "done"}
    BY DEF ShapeInv, IndexOwn
  <2> QED  BY <1>2, <1>4, <2>1 DEF OwnOrder, BookTyped
<1>18. IndexBookAgree'
  <2>1. \A x : x \in Adding' <=> x \in Adding /\ x # c
    BY <1>2, <1>9, BetweenWrites
  <2>2. \A x : x \in UsedUp' <=> x \in UsedUp
    BY <1>2, <1>4, <1>9, BetweenWrites
  <2>3. \A x : x \in Cancelling' <=> x \in Cancelling
    BY <1>2, <1>4, <1>9, BetweenWrites
  <2>4. c \in Adding /\ Ids(index)' = Ids(index)
    BY <1>4 DEF Adding, Ids
  <2> QED  BY <1>11, <2>1, <2>2, <2>3, <2>4 DEF IndexBookAgree
<1> QED  BY <1>9, <1>11, <1>12, <1>15, <1>16, <1>17, <1>18 DEF ShapeInv

-----------------------------------------------------------------------------
(* The best price of a side that is not empty has a level. *)
LEMMA BestIs ==
    ASSUME BookTyped, NEW s \in Sides, Queued(s) # {}
    PROVE  BestPrice(s) \in Prices /\ book[s][BestPrice(s)] # <<>>
<1> DEFINE S == {p \in Prices : book[s][p] # <<>>}
<1>1. S # {}
  BY DEF Queued
<1>2. S \in SUBSET Int /\ IsFiniteSet(S)
  <2>1. S \subseteq Prices
    OBVIOUS
  <2> HIDE DEF S
  <2>2. IsFiniteSet(S)
    BY <2>1, BookAssumption, FS_Subset
  <2>3. S \in SUBSET Int
    BY <2>1, BookAssumption
  <2> QED  BY <2>2, <2>3
<1>3. /\ \E x \in S : \A y \in S : x <= y
      /\ \E x \in S : \A y \in S : x >= y
  <2> HIDE DEF S
  <2> QED  BY <1>1, <1>2, Extremes
<1>4. Min(S) \in S /\ Max(S) \in S
  <2> HIDE DEF S
  <2> QED  BY <1>3 DEF Min, Max
<1> QED  BY <1>4 DEF BestPrice

(* What a fill does: of the maker at the front of the level p of side s,    *)
(* the amount a is traded, and q is what is left of the level.              *)
FillOf(c, s, p, maker, a, used, q) ==
    /\ s = Opposite(order[c].side) /\ s \in Sides /\ p \in Prices
    /\ pc[c] = "match" /\ book[s][p] # <<>> /\ maker = Head(book[s][p])
    /\ a \in Nat /\ a <= maker.amount /\ a <= remaining[c] /\ used = (a = maker.amount)
    /\ used \/ a = remaining[c]
    /\ q = IF used THEN Tail(book[s][p]) ELSE FrontLess(book[s][p], a)
    /\ book' = [book EXCEPT ![s][p] = q]
    /\ trades' = [trades EXCEPT ![c] = Append(@, [maker |-> maker.id, amount |-> a, price |-> p])]
    /\ remaining' = [remaining EXCEPT ![c] = @ - a]
    /\ filled' = [filled EXCEPT ![maker.id] = @ + a]
    /\ pc' = [pc EXCEPT ![c] = IF used THEN "match_index" ELSE "match"]
    /\ UNCHANGED <<index, writer, readers, order, stats, result, arrived>>

LEMMA FillIs ==
    ASSUME ShapeInv, NEW c \in Calls, MatchFill(c)
    PROVE  \E s, p, maker, a, used, q :
              FillOf(c, s, p, maker, a, used, q) /\ p = BestPrice(s)
<1>0. PICK s, p, old, maker, a :
         /\ s = Opposite(order[c].side) /\ p = BestPrice(s) /\ old = book[s][p]
         /\ maker = Head(old) /\ a = Min({remaining[c], maker.amount})
  OBVIOUS
<1>1. BookTyped /\ HeldBy(c)
  BY DEF ShapeInv, BookHeld
<1>2. pc[c] = "match" /\ Queued(s) # {} /\ s \in Sides
  <2>1. pc[c] = "match" /\ Queued(s) # {}
    BY <1>0 DEF MatchFill, CanFill
  <2>2. order[c].side \in Sides
    BY <1>1, <2>1 DEF HeldBy, MatchHolds, Taker
  <2> QED  BY <1>0, <2>1, <2>2 DEF Opposite, Sides
<1>3. p \in Prices /\ old # <<>>
  BY <1>0, <1>1, <1>2, BestIs
<1>4. old \in Seq(Order)
  BY <1>0, <1>1, <1>2, <1>3 DEF BookTyped
<1>5. maker \in Order
  BY <1>0, <1>3, <1>4, HeadTailProperties
<1>6. maker.amount \in Nat /\ remaining[c] \in Nat
  BY <1>1, <1>5 DEF Order, BookTyped
<1>7. /\ a \in Nat /\ a <= maker.amount /\ a <= remaining[c]
      /\ a = maker.amount \/ a = remaining[c]
  <2>1. PICK x, y : x = remaining[c] /\ y = maker.amount
    OBVIOUS
  <2>2. x \in Nat /\ y \in Nat /\ a = Min({x, y})
    BY <1>0, <1>6, <2>1
  <2>3. \E z \in {x, y} : \A w \in {x, y} : z <= w
    BY <2>2
  <2>4. a \in {x, y} /\ \A w \in {x, y} : a <= w
    BY <2>2, <2>3 DEF Min
  <2> QED  BY <2>1, <2>2, <2>4
<1>8. PICK used : used = (a = maker.amount)
  OBVIOUS
<1>9. PICK q : q = IF used THEN Tail(old) ELSE FrontLess(old, a)
  OBVIOUS
<1>10. /\ book' = [book EXCEPT ![s][p] = IF used THEN Tail(@) ELSE FrontLess(@, a)]
       /\ trades' = [trades EXCEPT ![c] = Append(@, [maker |-> maker.id, amount |-> a, price |-> p])]
       /\ remaining' = [remaining EXCEPT ![c] = @ - a]
       /\ filled' = [filled EXCEPT ![maker.id] = @ + a]
       /\ pc' = [pc EXCEPT ![c] = IF used THEN "match_index" ELSE "match"]
       /\ UNCHANGED <<index, writer, readers, order, stats, result, arrived>>
  BY <1>0, <1>8 DEF MatchFill, Goto
<1>11. book' = [book EXCEPT ![s][p] = q]
  BY <1>0, <1>9, <1>10
<1>12. FillOf(c, s, p, maker, a, used, q)
  BY <1>0, <1>2, <1>3, <1>7, <1>8, <1>9, <1>10, <1>11 DEF FillOf
<1> QED  BY <1>0, <1>12

(* A fill pops the front order or leaves it with less: the rest of the     *)
(* level is as it was.                                                     *)
OneEach(q) == \A i, j \in DOMAIN q : q[i].id = q[j].id => i = j

(* q holds orders of old, in the order they have there. *)
InOrderOf(q, old) ==
    \E at \in [DOMAIN q -> DOMAIN old] :
        /\ \A j, k \in DOMAIN q : j < k => at[j] < at[k]
        /\ \A j \in DOMAIN q : q[j].id = old[at[j]].id
LevelsInOrder == \A t \in Sides, r \in Prices : InOrderOf(book'[t][r], book[t][r])

LEMMA InOrderSame == ASSUME NEW q PROVE InOrderOf(q, q)
<1> DEFINE at == [j \in DOMAIN q |-> j]
<1>1. at \in [DOMAIN q -> DOMAIN q] /\ \A j \in DOMAIN q : at[j] = j
  OBVIOUS
<1> QED  BY <1>1 DEF InOrderOf

LEMMA FrontIs ==
    ASSUME NEW old \in Seq(Order), old # <<>>
    PROVE  /\ Len(old) \in Nat \ {0} /\ DOMAIN old = 1 .. Len(old) /\ 1 \in DOMAIN old
           /\ \A i \in DOMAIN old : old[i] \in Order
           /\ Head(old) = old[1] /\ Head(old) \in Order /\ Head(old).id \in IdsIn(old)
<1>1. /\ Len(old) \in Nat \ {0} /\ DOMAIN old = 1 .. Len(old) /\ 1 \in DOMAIN old
      /\ \A i \in DOMAIN old : old[i] \in Order
      /\ Head(old) = old[1]
  BY HeadTailProperties, EmptySeq
<1> QED  BY <1>1 DEF IdsIn

(* q is old, of n more orders, without its front order. *)
Pops(q, old, n) ==
    /\ n \in Nat /\ DOMAIN old = 1 .. (n + 1) /\ DOMAIN q = 1 .. n
    /\ \A i \in 1 .. n : q[i] = old[i + 1]

LEMMA PoppedIds ==
    ASSUME NEW n, NEW old, NEW q, Pops(q, old, n), OneEach(old)
    PROVE  /\ OneEach(q) /\ InOrderOf(q, old)
           /\ \A i \in DOMAIN q : q[i].id # old[1].id /\ \E j \in DOMAIN old : q[i] = old[j]
           /\ IdsIn(q) = IdsIn(old) \ {old[1].id}
<1>0. /\ n \in Nat /\ DOMAIN old = 1 .. (n + 1) /\ DOMAIN q = 1 .. n
      /\ \A i \in 1 .. n : q[i] = old[i + 1]
  BY DEF Pops
<1> USE <1>0
<1>1. ASSUME NEW i \in 1 .. n
      PROVE  i + 1 \in 1 .. (n + 1) /\ i + 1 # 1 /\ q[i] = old[i + 1]
  OBVIOUS
<1>2. 1 \in 1 .. (n + 1)
  OBVIOUS
<1>3. \A i \in DOMAIN q : q[i].id # old[1].id /\ \E j \in DOMAIN old : q[i] = old[j]
  <2> SUFFICES ASSUME NEW i \in 1 .. n
               PROVE  q[i].id # old[1].id /\ \E j \in DOMAIN old : q[i] = old[j]
    OBVIOUS
  <2>1. i + 1 \in DOMAIN old /\ 1 \in DOMAIN old /\ q[i] = old[i + 1]
    BY <1>1, <1>2
  <2>2. old[i + 1].id # old[1].id
    BY <1>1, <2>1 DEF OneEach
  <2> QED  BY <2>1, <2>2
<1>4. OneEach(q)
  <2> SUFFICES ASSUME NEW i \in 1 .. n, NEW j \in 1 .. n, q[i].id = q[j].id PROVE i = j
    BY DEF OneEach
  <2>1. i + 1 = j + 1
    <3>1. i + 1 \in DOMAIN old /\ j + 1 \in DOMAIN old /\ old[i + 1].id = old[j + 1].id
      BY <1>1
    <3> QED  BY <3>1 DEF OneEach
  <2> QED  BY <2>1
<1>5. ASSUME NEW i \in DOMAIN old, i # 1 PROVE \E j \in DOMAIN q : q[j] = old[i]
  <2>1. i - 1 \in 1 .. n /\ (i - 1) + 1 = i
    BY <1>5
  <2> QED  BY <2>1
<1>6. IdsIn(q) \subseteq IdsIn(old) \ {old[1].id}
  <2> SUFFICES ASSUME NEW i \in DOMAIN q PROVE q[i].id \in IdsIn(old) \ {old[1].id}
    BY Zenon DEF IdsIn
  <2>1. PICK j \in DOMAIN old : q[i] = old[j]
    BY <1>3
  <2> QED  BY <1>3, <2>1 DEF IdsIn
<1>7. IdsIn(old) \ {old[1].id} \subseteq IdsIn(q)
  <2> SUFFICES ASSUME NEW i \in DOMAIN old, old[i].id # old[1].id PROVE old[i].id \in IdsIn(q)
    BY Zenon DEF IdsIn
  <2>1. PICK j \in DOMAIN q : q[j] = old[i]
    BY <1>5
  <2> QED  BY <2>1, Zenon DEF IdsIn
<1>8. IdsIn(q) = IdsIn(old) \ {old[1].id}
  BY <1>6, <1>7
<1>9. InOrderOf(q, old)
  <2> DEFINE at == [j \in 1 .. n |-> j + 1]
  <2>1. at \in [1 .. n -> 1 .. (n + 1)] /\ \A j \in 1 .. n : at[j] = j + 1
    OBVIOUS
  <2> HIDE DEF at
  <2>2. \A j, k \in 1 .. n : j < k => at[j] < at[k]
    BY <2>1
  <2>3. \A j \in 1 .. n : q[j].id = old[at[j]].id
    BY <2>1
  <2> QED  BY <2>1, <2>2, <2>3, Zenon DEF InOrderOf
<1> QED  BY <1>3, <1>4, <1>8, <1>9

LEMMA FrontPopped ==
    ASSUME NEW old \in Seq(Order), old # <<>>, OneEach(old)
    PROVE  /\ Tail(old) \in Seq(Order) /\ OneEach(Tail(old)) /\ InOrderOf(Tail(old), old)
           /\ \A i \in DOMAIN Tail(old) : Tail(old)[i].id # old[1].id
                                         /\ \E j \in DOMAIN old : Tail(old)[i] = old[j]
           /\ IdsIn(Tail(old)) = IdsIn(old) \ {old[1].id}
<1>1. /\ Len(old) \in Nat \ {0} /\ DOMAIN old = 1 .. Len(old)
  BY FrontIs
<1>2. /\ Tail(old) \in Seq(Order) /\ Len(Tail(old)) = Len(old) - 1
      /\ \A i \in 1 .. Len(Tail(old)) : Tail(old)[i] = old[i + 1]
      /\ DOMAIN Tail(old) = 1 .. Len(Tail(old))
  <2>1. /\ Tail(old) \in Seq(Order) /\ Len(Tail(old)) = Len(old) - 1
        /\ \A i \in 1 .. Len(Tail(old)) : Tail(old)[i] = old[i + 1]
    BY HeadTailProperties
  <2> QED  BY <2>1, LenProperties
<1>3. PICK q, n : q = Tail(old) /\ n = Len(q)
  OBVIOUS
<1>4. n \in Nat /\ Len(old) = n + 1
  BY <1>1, <1>2, <1>3
<1>5. Pops(q, old, n)
  BY <1>1, <1>2, <1>3, <1>4 DEF Pops
<1>6. /\ OneEach(q) /\ InOrderOf(q, old)
      /\ \A i \in DOMAIN q : q[i].id # old[1].id /\ \E j \in DOMAIN old : q[i] = old[j]
      /\ IdsIn(q) = IdsIn(old) \ {old[1].id}
  BY <1>5, PoppedIds
<1> QED  BY <1>2, <1>3, <1>6, Zenon

LEMMA FrontLessIs ==
    ASSUME NEW old \in Seq(Order), old # <<>>, OneEach(old),
           NEW a \in Nat, a <= old[1].amount, NEW q, q = FrontLess(old, a)
    PROVE  /\ q \in Seq(Order) /\ OneEach(q) /\ InOrderOf(q, old) /\ DOMAIN q = DOMAIN old
           /\ q[1].id = old[1].id /\ q[1].price = old[1].price /\ q[1].amount = old[1].amount - a
           /\ \A i \in DOMAIN q : i # 1 => q[i].id # old[1].id /\ q[i] = old[i]
           /\ IdsIn(q) = IdsIn(old)
<1>1. /\ Len(old) \in Nat \ {0} /\ DOMAIN old = 1 .. Len(old) /\ 1 \in DOMAIN old
      /\ \A i \in DOMAIN old : old[i] \in Order
  BY FrontIs
<1>2. PICK maker \in Order : maker = old[1]
  BY <1>1
<1>3. PICK less : less = [maker EXCEPT !.amount = maker.amount - a]
  OBVIOUS
<1>4. less \in Order /\ less.id = maker.id /\ less.price = maker.price /\ less.amount = maker.amount - a
  BY <1>2, <1>3 DEF Order
<1>5. q = [old EXCEPT ![1] = less]
  BY <1>2, <1>3 DEF FrontLess
<1>6. /\ q \in Seq(Order) /\ DOMAIN q = DOMAIN old /\ q[1] = less
      /\ \A i \in DOMAIN old : i # 1 => q[i] = old[i]
  <2>1. q \in Seq(Order)
    BY <1>1, <1>4, <1>5, ExceptSeq
  <2> QED  BY <1>1, <1>5, <2>1
<1>7. \A i \in DOMAIN old : q[i].id = old[i].id
  BY <1>2, <1>4, <1>6
<1>8. IdsIn(q) = IdsIn(old) /\ OneEach(q)
  BY <1>6, <1>7 DEF IdsIn, OneEach
<1>9. \A i \in DOMAIN q : i # 1 => q[i].id # old[1].id /\ q[i] = old[i]
  BY <1>1, <1>6 DEF OneEach
<1>10. InOrderOf(q, old)
  <2>1. InOrderOf(old, old)
    BY InOrderSame
  <2> QED  BY <1>6, <1>7, <2>1 DEF InOrderOf
<1> QED  BY <1>2, <1>4, <1>6, <1>8, <1>9, <1>10

(* The level a fill leaves, whether the front order is used up or not. *)
LEMMA FillLevel ==
    ASSUME ShapeInv, NEW c \in Calls, NEW s, NEW p, NEW maker, NEW a, NEW used, NEW q,
           FillOf(c, s, p, maker, a, used, q)
    PROVE  /\ maker.id \in Calls /\ maker.amount \in Nat /\ EntryOK(maker, s, p)
           /\ maker.id \in IdsIn(book[s][p]) /\ q \in Seq(Order) /\ OneEach(q)
           /\ InOrderOf(q, book[s][p])
           /\ \A i \in DOMAIN q :
                 \/ q[i].id # maker.id /\ EntryOK(q[i], s, p)
                 \/ ~used /\ q[i].id = maker.id /\ q[i].price = p /\ q[i].amount = maker.amount - a
           /\ IdsIn(q) = IF used THEN IdsIn(book[s][p]) \ {maker.id} ELSE IdsIn(book[s][p])
<1>1. /\ s \in Sides /\ p \in Prices /\ book[s][p] # <<>> /\ maker = Head(book[s][p])
      /\ a \in Nat /\ a <= maker.amount
      /\ q = IF used THEN Tail(book[s][p]) ELSE FrontLess(book[s][p], a)
  BY DEF FillOf
<1>2. PICK old : old = book[s][p]
  OBVIOUS
<1>3. old \in Seq(Order) /\ old # <<>> /\ LevelOK(old, s, p)
  BY <1>1, <1>2 DEF ShapeInv, BookTyped, LevelsOwn
<1>4. OneEach(old) /\ \A i \in DOMAIN old : EntryOK(old[i], s, p)
  BY <1>3 DEF LevelOK, OneEach
<1>5. maker = old[1] /\ maker \in Order /\ maker.id \in IdsIn(old) /\ 1 \in DOMAIN old
  BY <1>1, <1>2, <1>3, FrontIs
<1>6. maker.id \in Calls /\ maker.amount \in Nat /\ EntryOK(maker, s, p)
  BY <1>4, <1>5 DEF Order
<1>7. CASE used
  <2>1. q = Tail(old)
    BY <1>1, <1>2, <1>7
  <2>2. /\ q \in Seq(Order) /\ OneEach(q) /\ InOrderOf(q, old) /\ IdsIn(q) = IdsIn(old) \ {maker.id}
        /\ \A i \in DOMAIN q : q[i].id # maker.id /\ \E j \in DOMAIN old : q[i] = old[j]
    BY <1>3, <1>4, <1>5, <2>1, FrontPopped
  <2> QED  BY <1>2, <1>4, <1>5, <1>6, <1>7, <2>2
<1>8. CASE ~used
  <2>1. q = FrontLess(old, a) /\ a \in Nat /\ a <= old[1].amount
    BY <1>1, <1>2, <1>5, <1>8
  <2>2. /\ q \in Seq(Order) /\ OneEach(q) /\ InOrderOf(q, old) /\ IdsIn(q) = IdsIn(old)
        /\ DOMAIN q = DOMAIN old
        /\ q[1].id = maker.id /\ q[1].price = maker.price /\ q[1].amount = maker.amount - a
        /\ \A i \in DOMAIN q : i # 1 => q[i].id # maker.id /\ q[i] = old[i]
    BY <1>3, <1>4, <1>5, <2>1, FrontLessIs
  <2>3. maker.price = p
    BY <1>6 DEF EntryOK
  <2> QED  BY <1>2, <1>4, <1>5, <1>6, <1>8, <2>2, <2>3
<1> QED  BY <1>7, <1>8

LEMMA MatchFillStep ==
    ASSUME ShapeInv, IndexBookAgree, NEW c \in Calls, MatchFill(c)
    PROVE  ShapeInv' /\ IndexBookAgree' /\ LevelsInOrder /\ Ids(Resting)' \subseteq Ids(Resting)
<1>1. PICK s, p, maker, a, used, q : FillOf(c, s, p, maker, a, used, q)
  BY FillIs
<1>2. BookTyped /\ HeldBy(c) /\ LevelsOwn
  BY DEF ShapeInv, BookHeld
<1>3. PICK m, old : m = maker.id /\ old = book[s][p]
  OBVIOUS
<1>4. /\ m \in Calls /\ maker.amount \in Nat /\ EntryOK(maker, s, p)
      /\ m \in IdsIn(old) /\ q \in Seq(Order) /\ OneEach(q) /\ InOrderOf(q, old)
      /\ \A i \in DOMAIN q :
            \/ q[i].id # m /\ EntryOK(q[i], s, p)
            \/ ~used /\ q[i].id = m /\ q[i].price = p /\ q[i].amount = maker.amount - a
      /\ IdsIn(q) = IF used THEN IdsIn(old) \ {m} ELSE IdsIn(old)
  BY <1>1, <1>3, FillLevel
<1>5. /\ s \in Sides /\ p \in Prices /\ pc[c] = "match" /\ a \in Nat /\ a <= maker.amount
      /\ a <= remaining[c] /\ s = Opposite(order[c].side)
      /\ book' = [book EXCEPT ![s][p] = q]
      /\ trades' = [trades EXCEPT ![c] = Append(@, [maker |-> m, amount |-> a, price |-> p])]
      /\ remaining' = [remaining EXCEPT ![c] = @ - a]
      /\ filled' = [filled EXCEPT ![m] = @ + a]
      /\ pc' = [pc EXCEPT ![c] = IF used THEN "match_index" ELSE "match"]
      /\ UNCHANGED <<index, writer, readers, order, stats, result, arrived>>
  BY <1>1, <1>3 DEF FillOf
<1>6. /\ Booked(m) /\ order[m].side = s /\ order[m].price = p
      /\ maker.amount + filled[m] = order[m].amount
  BY <1>3, <1>4 DEF EntryOK
<1>7. /\ Ids(Resting)' = (Ids(Resting) \ IdsIn(old)) \cup IdsIn(q)
      /\ book'[s][p] = q
      /\ \A t \in Sides, r \in Prices : ~(t = s /\ r = p) => book'[t][r] = book[t][r]
      /\ book' \in [Sides -> [Prices -> Seq(Order)]]
  <2>1. /\ Ids(Resting)' = (Ids(Resting) \ IdsIn(book[s][p])) \cup IdsIn(q)
        /\ book'[s][p] = q
        /\ \A t \in Sides, r \in Prices : ~(t = s /\ r = p) => book'[t][r] = book[t][r]
        /\ q \in Seq(Order) => book' \in [Sides -> [Prices -> Seq(Order)]]
    <3>1. s \in Sides /\ p \in Prices /\ book' = [book EXCEPT ![s][p] = q] /\ BookTyped /\ LevelsOwn
      BY <1>2, <1>5
    <3>2. ASSUME NEW t \in Sides, NEW r \in Prices, NEW u, book' = [book EXCEPT ![t][r] = u]
          PROVE  /\ Ids(Resting)' = (Ids(Resting) \ IdsIn(book[t][r])) \cup IdsIn(u)
                 /\ book'[t][r] = u
                 /\ \A t1 \in Sides, r1 \in Prices : ~(t1 = t /\ r1 = r) => book'[t1][r1] = book[t1][r1]
                 /\ u \in Seq(Order) => book' \in [Sides -> [Prices -> Seq(Order)]]
      BY <1>2, <3>2, LevelChange
    <3> QED  BY <3>1, <3>2
  <2> QED  BY <1>3, <1>4, <2>1
<1>8. IdsIn(old) \subseteq Ids(Resting)
  BY <1>3, <1>5, RestingIs DEF RestingKnown
<1>9. Ids(Resting)' = IF used THEN Ids(Resting) \ {m} ELSE Ids(Resting)
  BY <1>4, <1>7, <1>8
<1>10. /\ trades[c] \in Seq(Trade) /\ [maker |-> m, amount |-> a, price |-> p] \in Trade
       /\ remaining[c] \in Nat /\ remaining[c] - a \in Nat /\ filled[m] \in Nat /\ filled[m] + a \in Nat
  <2>1. trades[c] \in Seq(Trade) /\ remaining[c] \in Nat /\ filled[m] \in Nat
    BY <1>2, <1>4 DEF BookTyped
  <2>2. remaining[c] - a \in Nat /\ filled[m] + a \in Nat
    BY <1>5, <2>1
  <2>3. [maker |-> m, amount |-> a, price |-> p] \in Trade
    BY <1>4, <1>5 DEF Trade
  <2> QED  BY <2>1, <2>2, <2>3
<1>11. /\ trades' \in [Calls -> Seq(Trade)] /\ Len(trades'[c]) > 0 /\ LastMaker(c)' = m
  <2>1. PICK ts, tr : ts = trades[c] /\ tr = [maker |-> m, amount |-> a, price |-> p]
    OBVIOUS
  <2>2. /\ Append(ts, tr) \in Seq(Trade) /\ Len(Append(ts, tr)) = Len(ts) + 1 /\ Len(ts) \in Nat
        /\ Append(ts, tr)[Len(ts) + 1] = tr
    BY <1>10, <2>1, AppendProperties
  <2>3. trades'[c] = Append(ts, tr)
    BY <1>2, <1>5, <2>1 DEF BookTyped
  <2>4. trades' \in [Calls -> Seq(Trade)]
    BY <1>2, <1>5, <2>1, <2>2 DEF BookTyped
  <2>5. LastMaker(c)' = tr.maker
    BY <2>2, <2>3 DEF LastMaker
  <2> QED  BY <2>1, <2>2, <2>3, <2>4, <2>5
<1>12. /\ remaining' \in [Calls -> Nat] /\ filled' \in [Calls -> Nat]
       /\ filled'[m] = filled[m] + a /\ \A d \in Calls : d # m => filled'[d] = filled[d]
  BY <1>2, <1>4, <1>5, <1>10 DEF BookTyped
<1>13. /\ pc' \in [Calls -> BookLabels] /\ pc'[c] = IF used THEN "match_index" ELSE "match"
  BY <1>2, <1>5 DEF BookTyped, BookLabels
<1>14. BookTyped' /\ StepOf(c) /\ order' = order
  <2>1. /\ pc' = [pc EXCEPT ![c] = IF used THEN "match_index" ELSE "match"]
        /\ trades' = [trades EXCEPT ![c] = Append(@, [maker |-> m, amount |-> a, price |-> p])]
        /\ UNCHANGED <<index, writer, readers, order, stats, result, arrived>>
    BY <1>5
  <2>2. StepOf(c)
    BY <1>2, <2>1 DEF StepOf, BookTyped
  <2>3. book' \in [Sides -> [Prices -> Seq(Order)]]
    BY <1>7
  <2>4. BookTyped'
    BY <1>2, <1>11, <1>12, <1>13, <2>1, <2>3 DEF BookTyped
  <2> QED  BY <2>1, <2>2, <2>4
<1>15. Booked(m)' /\ m # c /\ \A x : Booked(x) => Booked(x)'
  BY <1>5, <1>6, <1>14, BookedStays
<1>16. HeldBy(c)'
  <2>1. (pc'[c] = "add_book" => OwnOrder(c)') /\ (result'[c] # "none" => pc'[c] = "done")
    BY <1>2, <1>5, <1>13 DEF HeldBy
  <2>2. MatchHolds(c)'
    BY <1>2, <1>5, <1>13 DEF HeldBy, MatchHolds
  <2>3. PoppedHeld(c)'
    <3> SUFFICES ASSUME used PROVE PoppedHeld(c)'
      BY <1>13 DEF PoppedHeld
    <3>1. m \notin Ids(Resting)'
      BY <1>9
    <3>2. order'[m].side = Opposite(order'[c].side)
      BY <1>5, <1>6
    <3>3. LastMaker(c)' = m /\ Booked(m)' /\ Len(trades'[c]) > 0
      BY <1>11, <1>15
    <3>4. PICK lm : lm = LastMaker(c)'
      OBVIOUS
    <3> QED  BY <3>1, <3>2, <3>3, <3>4 DEF PoppedHeld, Booked, OwnOrder
  <2>4. CancelHolds(c)'
    BY <1>13 DEF CancelHolds
  <2>5. CancelledGone(c)'
    BY <1>2, <1>5 DEF HeldBy, CancelledGone
  <2> QED  BY <1>2, <1>5, <2>1, <2>2, <2>3, <2>4, <2>5 DEF HeldBy
<1>17. BookHeld'
  <2>1. Ids(Resting)' \subseteq Ids(Resting) \cup {c}
    BY <1>9
  <2> QED  BY <1>5, <1>14, <1>16, <2>1, OthersHold
<1>18. LevelsOwn'
  <2>1. \A e, t, r : EntryOK(e, t, r) /\ ~(t = s /\ r = p) => EntryOK(e, t, r)'
    <3> SUFFICES ASSUME NEW e, NEW t, NEW r, EntryOK(e, t, r), ~(t = s /\ r = p)
                 PROVE  EntryOK(e, t, r)'
      OBVIOUS
    <3>1. e.id # m /\ e.id \in Calls
      BY <1>6 DEF EntryOK, Booked, OwnOrder
    <3> QED  BY <1>12, <1>14, <1>15, <3>1 DEF EntryOK
  <2>2. ASSUME NEW i \in DOMAIN q PROVE EntryOK(q[i], s, p)'
    <3>1. CASE q[i].id # m /\ EntryOK(q[i], s, p)
      <4>1. q[i].id \in Calls
        BY <3>1 DEF EntryOK, Booked, OwnOrder
      <4> QED  BY <1>12, <1>14, <1>15, <3>1, <4>1 DEF EntryOK
    <3>2. CASE q[i].id = m /\ q[i].price = p /\ q[i].amount = maker.amount - a
      <4>1. q[i].amount + filled'[m] = order'[m].amount
        BY <1>4, <1>5, <1>6, <1>10, <1>12, <3>2
      <4> QED  BY <1>6, <1>3, <1>14, <1>15, <3>2, <4>1 DEF EntryOK
    <3> QED  BY <1>4, <3>1, <3>2
  <2>3. LevelOK(q, s, p)'
    BY <1>4, <2>2 DEF LevelOK, OneEach
  <2> QED  BY <1>2, <1>5, <1>7, <2>1, <2>3, LevelsStay
<1>19. FilledOwn'
  <2> SUFFICES ASSUME NEW d \in Calls, filled'[d] > 0
               PROVE  Booked(d)' /\ filled'[d] <= order'[d].amount
    BY DEF FilledOwn
  <2>1. CASE d = m
    BY <1>4, <1>5, <1>6, <1>10, <1>12, <1>14, <1>15, <2>1
  <2>2. CASE d # m
    BY <1>12, <1>14, <1>15, <2>2 DEF ShapeInv, FilledOwn
  <2> QED  BY <2>1, <2>2
<1>20. IndexOwn'
  <2>1. index' \subseteq index
    BY <1>5
  <2> QED  BY <1>5, <1>14, <2>1, SameIndex
<1>21. IndexBookAgree'
  <2>1. \A x : x \in Adding' <=> x \in Adding
    BY <1>2, <1>5, <1>13, <1>14, BetweenWrites
  <2>2. \A x : x \in UsedUp' <=> x \in UsedUp \/ (used /\ x = m)
    BY <1>2, <1>5, <1>11, <1>13, <1>14, BetweenWrites
  <2>3. \A x : x \in Cancelling' <=> x \in Cancelling
    BY <1>2, <1>5, <1>13, <1>14, BetweenWrites
  <2>4. Ids(index)' = Ids(index) /\ m \in Ids(Resting)
    BY <1>4, <1>5, <1>8 DEF Ids
  <2> QED  BY <1>9, <2>1, <2>2, <2>3, <2>4 DEF IndexBookAgree
<1>22. LevelsInOrder
  <2> SUFFICES ASSUME NEW t \in Sides, NEW r \in Prices PROVE InOrderOf(book'[t][r], book[t][r])
    BY DEF LevelsInOrder
  <2>1. CASE t = s /\ r = p
    BY <1>3, <1>4, <1>7, <2>1
  <2>2. CASE ~(t = s /\ r = p)
    BY <1>7, <2>2, InOrderSame
  <2> QED  BY <2>1, <2>2
<1> QED  BY <1>9, <1>14, <1>17, <1>18, <1>19, <1>20, <1>21, <1>22 DEF ShapeInv

(* The orders without the given id are kept, in order, each once. *)
Others(old, x) == {i \in DOMAIN old : old[i].id # x}

LEMMA LevelWithout ==
    ASSUME NEW old \in Seq(Order), OneEach(old), NEW x
    PROVE  /\ Retained(old, Others(old, x)) \in Seq(Order)
           /\ OneEach(Retained(old, Others(old, x)))
           /\ InOrderOf(Retained(old, Others(old, x)), old)
           /\ \A i \in DOMAIN Retained(old, Others(old, x)) :
                 \E j \in DOMAIN old : Retained(old, Others(old, x))[i] = old[j]
           /\ IdsIn(Retained(old, Others(old, x))) = IdsIn(old) \ {x}
<1>0. PICK K : K = Others(old, x) /\ K = {i \in DOMAIN old : old[i].id # x}
  BY DEF Others
<1>1. PICK q : q = Retained(old, K) /\ q = Retained(old, Others(old, x))
  BY <1>0
<1>2. q \in Seq(Order) /\ \E at : PickedAt(at, q, old, K, Len(old))
  BY <1>1, RetainedIs
<1>3. PICK at : PickedAt(at, q, old, K, Len(old))
  BY <1>2
<1>4. DOMAIN q = 1 .. Len(q) /\ DOMAIN old = 1 .. Len(old) /\ Len(q) \in Nat /\ Len(old) \in Nat
  BY <1>2
<1>5. /\ \A j \in DOMAIN q : at[j] \in K /\ at[j] \in DOMAIN old /\ q[j] = old[at[j]]
      /\ \A j, k \in DOMAIN q : j < k => at[j] < at[k]
      /\ \A i \in K : \E j \in DOMAIN q : at[j] = i
  BY <1>0, <1>3, <1>4 DEF PickedAt
<1>6. OneEach(q)
  <2> SUFFICES ASSUME NEW j \in DOMAIN q, NEW k \in DOMAIN q, q[j].id = q[k].id PROVE j = k
    BY DEF OneEach
  <2>1. at[j] = at[k] /\ at[j] \in Int
    BY <1>4, <1>5 DEF OneEach
  <2>2. ~(j < k) /\ ~(k < j)
    BY <1>5, <2>1
  <2> QED  BY <1>4, <2>2
<1>7. IdsIn(q) = IdsIn(old) \ {x}
  <2>1. ASSUME NEW j \in DOMAIN q PROVE q[j].id \in IdsIn(old) \ {x}
    BY <1>0, <1>5 DEF IdsIn
  <2>2. ASSUME NEW i \in DOMAIN old, old[i].id # x PROVE old[i].id \in IdsIn(q)
    <3>1. PICK j \in DOMAIN q : at[j] = i
      BY <1>0, <1>5, <2>2
    <3> QED  BY <1>5, <3>1 DEF IdsIn
  <2>3. IdsIn(q) \subseteq IdsIn(old) \ {x}
    BY <2>1, Zenon DEF IdsIn
  <2>4. IdsIn(old) \ {x} \subseteq IdsIn(q)
    <3> SUFFICES ASSUME NEW i \in DOMAIN old, old[i].id # x PROVE old[i].id \in IdsIn(q)
      BY Zenon DEF IdsIn
    <3> QED  BY <2>2
  <2> QED  BY <2>3, <2>4
<1>8. InOrderOf(q, old)
  <2>1. at \in [DOMAIN q -> DOMAIN old]
    BY <1>0, <1>3, <1>4 DEF PickedAt
  <2> QED  BY <1>5, <2>1 DEF InOrderOf
<1> QED  BY <1>0, <1>1, <1>2, <1>5, <1>6, <1>7, <1>8

(* The maker a match has popped is not the maker of another match, and no  *)
(* cancel holds the index while a match has it.                            *)
LEMMA MatchIndexStep ==
    ASSUME ShapeInv, IndexBookAgree, NEW c \in Calls, MatchIndex(c)
    PROVE  ShapeInv' /\ IndexBookAgree'
<1>1. BookTyped /\ HeldBy(c) /\ NoCall \notin Calls
  BY BookAssumption DEF ShapeInv, BookHeld
<1>2. PICK m : m = LastMaker(c)
  OBVIOUS
<1>3. /\ pc[c] = "match_index" /\ pc' = [pc EXCEPT ![c] = "match"] /\ writer["index"] = NoCall
      /\ index' = {o \in index : o.id # m}
      /\ UNCHANGED <<book, writer, readers, order, remaining, trades, stats, result, filled>>
  BY <1>2 DEF MatchIndex, Goto, CanWrite, LastMaker
<1>4. /\ Booked(m) /\ order[m].side = Opposite(order[c].side) /\ m \notin Ids(Resting)
      /\ writer[Opposite(order[c].side)] = c
  BY <1>1, <1>2, <1>3 DEF HeldBy, PoppedHeld, MatchHolds
<1>5. BookTyped' /\ StepOf(c) /\ pc'[c] = "match"
  BY <1>1, <1>3 DEF BookTyped, StepOf, BookLabels
<1>6. HeldBy(c)'
  BY <1>1, <1>3, <1>5 DEF HeldBy, MatchHolds, PoppedHeld, CancelHolds, CancelledGone
<1>7. LevelsOwn' /\ FilledOwn' /\ Ids(Resting)' = Ids(Resting)
  BY <1>3, <1>5, SameBook
<1>8. BookHeld'
  BY <1>3, <1>5, <1>6, <1>7, OthersHold
<1>9. IndexOwn'
  <2>1. index' \subseteq index
    BY <1>3
  <2> QED  BY <1>3, <1>5, <2>1, SameIndex
<1>10. ASSUME NEW d \in Calls \ {c}, pc[d] = "match_index" PROVE LastMaker(d) # m
  BY <1>4, <1>10 DEF ShapeInv, BookHeld, HeldBy, PoppedHeld, MatchHolds
<1>11. Cancelling = {}
  BY <1>1, <1>3 DEF Cancelling, ShapeInv, BookHeld, HeldBy, CancelHolds
<1>12. IndexBookAgree'
  <2>1. \A x : x \in Adding' <=> x \in Adding
    BY <1>1, <1>3, <1>5, BetweenWrites
  <2>2. \A x : x \in UsedUp' <=> x \in UsedUp /\ x # m
    <3>1. \A x : x \in UsedUp <=> \/ \E d \in Calls \ {c} : pc[d] = "match_index" /\ x = LastMaker(d)
                                  \/ pc[c] = "match_index" /\ x = LastMaker(c)
      BY <1>1, <1>5, BetweenWrites
    <3>2. \A x : x \in UsedUp' <=> \E d \in Calls \ {c} : pc[d] = "match_index" /\ x = LastMaker(d)
      BY <1>1, <1>5, BetweenWrites
    <3> QED  BY <1>2, <1>3, <1>10, <3>1, <3>2
  <2>3. \A x : x \in Cancelling' <=> x \in Cancelling
    BY <1>1, <1>3, <1>5, BetweenWrites
  <2>4. \A x : x \in Ids(index)' <=> x \in Ids(index) /\ x # m
    BY <1>3 DEF Ids
  <2>5. m \notin Adding
    BY <1>4 DEF Adding, Booked
  <2> QED  BY <1>4, <1>7, <1>11, <2>1, <2>2, <2>3, <2>4, <2>5 DEF IndexBookAgree
<1> QED  BY <1>5, <1>7, <1>8, <1>9, <1>12 DEF ShapeInv

(* A client names only an order whose add has returned or that has traded. *)
LEMMA CancelIndexStep ==
    ASSUME ShapeInv, IndexBookAgree, NEW c \in Calls, Cancel(c)
    PROVE  ShapeInv' /\ IndexBookAgree'
<1>1. BookTyped /\ HeldBy(c) /\ NoCall \notin Calls
  BY BookAssumption DEF ShapeInv, BookHeld
<1>2. PICK id \in KnownIds : CancelIndex(c, id)
  BY DEF Cancel
<1>3. pc[c] = "idle" /\ writer["index"] = NoCall
      /\ UNCHANGED <<book, readers, remaining, trades, stats, filled>>
  BY <1>2 DEF CancelIndex, CanWrite
<1>4. CASE id \notin Ids(index)
  <2>1. /\ pc' = [pc EXCEPT ![c] = "done"] /\ result' = [result EXCEPT ![c] = "not_found"]
        /\ UNCHANGED <<index, writer, order>>
    BY <1>2, <1>4 DEF CancelIndex, Return, Goto
  <2>2. BookTyped' /\ StepOf(c) /\ pc'[c] = "done" /\ result'[c] # "cancelled"
    BY <1>1, <1>3, <2>1 DEF BookTyped, StepOf, BookLabels, BookResults
  <2>3. HeldBy(c)'
    BY <2>2 DEF HeldBy, MatchHolds, PoppedHeld, CancelHolds, CancelledGone
  <2> QED  BY <1>3, <2>1, <2>2, <2>3, QuietStep
<1>5. CASE id \in Ids(index)
  <2>1. PICK o \in index : o.id = id /\ order' = [order EXCEPT ![c] = o]
    BY <1>2, <1>5 DEF CancelIndex
  <2>2. /\ index' = {e \in index : e.id # id} /\ writer' = [writer EXCEPT !["index"] = c]
        /\ pc' = [pc EXCEPT ![c] = "cancel_book"] /\ UNCHANGED result
    BY <1>2, <1>5 DEF CancelIndex, Goto
  <2>3. Booked(id) /\ order[id] = o /\ id # c /\ o \in Order
    <3>1. OwnOrder(id) /\ order[id] = o /\ o \in Order
      BY <1>1, <2>1 DEF ShapeInv, IndexOwn, BookTyped
    <3>2. pc[id] = "done"
      BY DEF KnownIds, ShapeInv, FilledOwn, BookHeld, HeldBy, Booked
    <3> QED  BY <1>3, <3>1, <3>2 DEF Booked
  <2>4. BookTyped' /\ StepOf(c) /\ pc'[c] = "cancel_book" /\ order'[c] = o /\ writer'["index"] = c
    <3>1. "index" \in Locks
      BY DEF Locks
    <3> QED  BY <1>1, <1>3, <2>1, <2>2, <2>3, <3>1 DEF BookTyped, StepOf, BookLabels
  <2>5. Booked(id)' /\ order'[id] = o
    BY <1>3, <2>3, <2>4, BookedStays
  <2>6. HeldBy(c)'
    <3>1. CancelHolds(c)'
      <4>1. Booked(order[c].id)'
        BY <2>1, <2>4, <2>5 DEF Booked, OwnOrder
      <4> QED  BY <2>1, <2>3, <2>4, <2>5, <4>1 DEF CancelHolds
    <3> QED  BY <1>1, <1>3, <2>2, <2>4, <3>1 DEF HeldBy, MatchHolds, PoppedHeld, CancelledGone
  <2>7. LevelsOwn' /\ FilledOwn' /\ Ids(Resting)' = Ids(Resting)
    BY <1>3, <2>4, SameBook
  <2>8. BookHeld'
    BY <1>3, <2>4, <2>6, <2>7, OthersHold
  <2>9. IndexOwn'
    <3>1. index' \subseteq index
      BY <2>2
    <3> QED  BY <1>3, <2>4, <3>1, SameIndex
  <2>10. Cancelling = {}
    BY <1>1, <1>3 DEF Cancelling, ShapeInv, BookHeld, HeldBy, CancelHolds
  <2>11. IndexBookAgree'
    <3>1. \A x : x \in Adding' <=> x \in Adding
      BY <1>1, <1>3, <2>4, BetweenWrites
    <3>2. \A x : x \in UsedUp' <=> x \in UsedUp
      BY <1>1, <1>3, <2>4, BetweenWrites
    <3>3. \A x : x \in Cancelling' <=> x = id
      <4>1. \A x : x \in Cancelling' <=>
               \/ \E d \in Calls \ {c} : pc[d] = "cancel_book" /\ x = order[d].id
               \/ pc'[c] = "cancel_book" /\ x = order'[c].id
        BY <1>1, <2>4, BetweenWrites
      <4>2. \A d \in Calls \ {c} : pc[d] # "cancel_book"
        BY <1>1, <1>3 DEF ShapeInv, BookHeld, HeldBy, CancelHolds
      <4> QED  BY <2>1, <2>4, <4>1, <4>2
    <3>4. \A x : x \in Ids(index)' <=> x \in Ids(index) /\ x # id
      BY <2>2 DEF Ids
    <3>5. id \notin Adding
      BY <2>3 DEF Adding, Booked
    <3> QED  BY <1>5, <2>7, <2>10, <3>1, <3>2, <3>3, <3>4, <3>5 DEF IndexBookAgree
  <2> QED  BY <2>4, <2>7, <2>8, <2>9, <2>11 DEF ShapeInv
<1> QED  BY <1>4, <1>5

(* No match holds the side a cancel writes: what a match has popped is on  *)
(* the other side.                                                         *)
LEMMA CancelBookStep ==
    ASSUME ShapeInv, IndexBookAgree, NEW c \in Calls, CancelBook(c)
    PROVE  ShapeInv' /\ IndexBookAgree' /\ LevelsInOrder /\ Ids(Resting)' \subseteq Ids(Resting)
<1>1. BookTyped /\ HeldBy(c) /\ NoCall \notin Calls /\ LevelsOwn
  BY BookAssumption DEF ShapeInv, BookHeld
<1>2. PICK o : o = order[c]
  OBVIOUS
<1>3. PICK s, p, x, old : s = o.side /\ p = o.price /\ x = o.id /\ old = book[s][p]
  OBVIOUS
<1>4. PICK q : q = Retained(old, Others(old, x))
  OBVIOUS
<1>5. /\ pc[c] = "cancel_book" /\ pc' = [pc EXCEPT ![c] = "done"] /\ writer[s] = NoCall
      /\ writer' = [writer EXCEPT !["index"] = NoCall]
      /\ result' = [result EXCEPT ![c] = "cancelled"]
      /\ UNCHANGED <<index, readers, order, remaining, trades, stats, filled>>
  BY <1>2, <1>3 DEF CancelBook, Return, Goto, CanWrite
<1>6. book' = [book EXCEPT ![s][p] = q]
  BY <1>2, <1>3, <1>4 DEF CancelBook, Others
<1>7. /\ o \in Order /\ s \in Sides /\ p \in Prices /\ Booked(x) /\ order[x] = o
      /\ writer["index"] = c
  BY <1>1, <1>2, <1>3, <1>5 DEF HeldBy, CancelHolds, Order
<1>8. old \in Seq(Order) /\ LevelOK(old, s, p)
  BY <1>1, <1>3, <1>7 DEF BookTyped, LevelsOwn
<1>9. OneEach(old) /\ \A i \in DOMAIN old : EntryOK(old[i], s, p)
  BY <1>8 DEF LevelOK, OneEach
<1>10. /\ q \in Seq(Order) /\ OneEach(q) /\ InOrderOf(q, old) /\ IdsIn(q) = IdsIn(old) \ {x}
       /\ \A i \in DOMAIN q : \E j \in DOMAIN old : q[i] = old[j]
  BY <1>4, <1>8, <1>9, LevelWithout
<1>11. /\ Ids(Resting)' = (Ids(Resting) \ IdsIn(old)) \cup IdsIn(q)
       /\ book'[s][p] = q
       /\ \A t \in Sides, r \in Prices : ~(t = s /\ r = p) => book'[t][r] = book[t][r]
       /\ book' \in [Sides -> [Prices -> Seq(Order)]]
  <2>1. ASSUME NEW t \in Sides, NEW r \in Prices, NEW u, book' = [book EXCEPT ![t][r] = u]
        PROVE  /\ Ids(Resting)' = (Ids(Resting) \ IdsIn(book[t][r])) \cup IdsIn(u)
               /\ book'[t][r] = u
               /\ \A t1 \in Sides, r1 \in Prices : ~(t1 = t /\ r1 = r) => book'[t1][r1] = book[t1][r1]
               /\ u \in Seq(Order) => book' \in [Sides -> [Prices -> Seq(Order)]]
    BY <1>1, <2>1, LevelChange
  <2>2. /\ Ids(Resting)' = (Ids(Resting) \ IdsIn(book[s][p])) \cup IdsIn(q)
        /\ book'[s][p] = q
        /\ \A t1 \in Sides, r1 \in Prices : ~(t1 = s /\ r1 = p) => book'[t1][r1] = book[t1][r1]
        /\ q \in Seq(Order) => book' \in [Sides -> [Prices -> Seq(Order)]]
    BY <1>6, <1>7, <2>1
  <2> QED  BY <1>3, <1>10, <2>2
<1>12. BookTyped' /\ StepOf(c) /\ pc'[c] = "done" /\ order' = order
  <2>1. "index" \in Locks
    BY DEF Locks
  <2> QED  BY <1>1, <1>5, <1>7, <1>11, <2>1 DEF BookTyped, StepOf, BookLabels, BookResults
<1>13. \A y : Booked(y) => Booked(y)'
  BY <1>5, <1>12, BookedStays
<1>14. \A y : y \in Ids(Resting)' <=> y \in Ids(Resting) /\ y # x
  <2>1. IdsIn(old) \subseteq Ids(Resting)
    BY <1>3, <1>7, RestingIs DEF RestingKnown
  <2>2. x \in Ids(Resting) => x \in IdsIn(old)
    <3> SUFFICES ASSUME x \in Ids(Resting) PROVE x \in IdsIn(old)
      OBVIOUS
    <3>1. PICK t \in Sides, r \in Prices : x \in IdsIn(book[t][r])
      BY RestingIs DEF RestingKnown
    <3>2. order[x].side = t /\ order[x].price = r
      BY <1>1, <3>1, OneLevel
    <3> QED  BY <1>3, <1>7, <3>1, <3>2
  <2> QED  BY <1>10, <1>11, <2>1, <2>2
<1>15. HeldBy(c)'
  <2>1. order'[c].id = x /\ Booked(x)' /\ x \notin Ids(Resting)'
    BY <1>2, <1>3, <1>7, <1>12, <1>13, <1>14
  <2>2. CancelledGone(c)'
    BY <2>1 DEF CancelledGone, Booked, OwnOrder
  <2> QED  BY <1>12, <2>2 DEF HeldBy, MatchHolds, PoppedHeld, CancelHolds
<1>16. BookHeld'
  <2>1. Ids(Resting)' \subseteq Ids(Resting) \cup {c}
    BY <1>14
  <2> QED  BY <1>5, <1>12, <1>15, <2>1, OthersHold
<1>17. LevelsOwn'
  <2>1. \A e, t, r : EntryOK(e, t, r) => EntryOK(e, t, r)'
    BY <1>5, <1>12, <1>13 DEF EntryOK
  <2>2. \A i \in DOMAIN q : EntryOK(q[i], s, p)'
    BY <1>9, <1>10, <2>1
  <2>3. LevelOK(q, s, p)'
    BY <1>10, <2>2 DEF LevelOK, OneEach
  <2> QED  BY <1>1, <1>7, <1>11, <2>1, <2>3, LevelsStay
<1>18. FilledOwn'
  BY <1>5, <1>12, <1>13 DEF ShapeInv, FilledOwn
<1>19. IndexOwn'
  <2>1. index' \subseteq index
    BY <1>5
  <2> QED  BY <1>5, <1>12, <2>1, SameIndex
<1>20. IndexBookAgree'
  <2>1. \A y : y \in Adding' <=> y \in Adding
    BY <1>1, <1>5, <1>12, BetweenWrites
  <2>2. \A y : y \in UsedUp' <=> y \in UsedUp
    BY <1>1, <1>5, <1>12, BetweenWrites
  <2>3. \A d \in Calls \ {c} : pc[d] # "cancel_book"
    BY <1>7 DEF ShapeInv, BookHeld, HeldBy, CancelHolds
  <2>4. \A y : y \in Cancelling <=> y = x
    BY <1>2, <1>3, <1>5, <2>3 DEF Cancelling
  <2>5. \A y : y \notin Cancelling'
    BY <1>1, <1>12, <2>3, BetweenWrites
  <2>6. x \notin Adding
    BY <1>7 DEF Adding, Booked
  <2>7. x \notin UsedUp
    <3> SUFFICES ASSUME NEW d \in Calls, pc[d] = "match_index", x = LastMaker(d) PROVE FALSE
      BY DEF UsedUp, LastMaker
    <3>1. order[x].side = Opposite(order[d].side) /\ writer[Opposite(order[d].side)] = d
      BY DEF ShapeInv, BookHeld, HeldBy, PoppedHeld, MatchHolds
    <3> QED  BY <1>1, <1>3, <1>5, <1>7, <3>1
  <2>8. Ids(index)' = Ids(index)
    BY <1>5 DEF Ids
  <2> QED  BY <1>14, <2>1, <2>2, <2>4, <2>5, <2>6, <2>7, <2>8 DEF IndexBookAgree
<1>21. LevelsInOrder
  <2> SUFFICES ASSUME NEW t \in Sides, NEW r \in Prices PROVE InOrderOf(book'[t][r], book[t][r])
    BY DEF LevelsInOrder
  <2>1. CASE t = s /\ r = p
    BY <1>3, <1>10, <1>11, <2>1
  <2>2. CASE ~(t = s /\ r = p)
    BY <1>11, <2>2, InOrderSame
  <2> QED  BY <2>1, <2>2
<1>22. Ids(Resting)' \subseteq Ids(Resting)
  BY <1>14
<1> QED  BY <1>12, <1>16, <1>17, <1>18, <1>19, <1>20, <1>21, <1>22 DEF ShapeInv

-----------------------------------------------------------------------------
(* What update_stats makes of the trades of a match. *)
StatsRecord == [volume : Nat, count : Nat, high : Nat, low : Nat, last : Nat]
LastBetween(s) == s.low <= s.last /\ s.last <= s.high
Updates(u, b, ts) ==
    u = [i \in 0 .. Len(ts) |-> IF i = 0 THEN b ELSE CountTrade(u[i - 1], ts[i])]

AmountAt(ts) == [i \in DOMAIN ts |-> ts[i].amount]

LEMMA Traded ==
    ASSUME NEW ts \in Seq(Trade)
    PROVE  /\ DOMAIN ts = 1 .. Len(ts) /\ Len(ts) \in Nat
           /\ \A i \in DOMAIN ts : AmountAt(ts)[i] = ts[i].amount /\ ts[i].amount \in Nat
                                   /\ ts[i].price \in Nat
           /\ TradedBy(ts) = SumFunctionOnSet(AmountAt(ts), 1 .. Len(ts))
           /\ TradedBy(ts) \in Nat
<1>1. DOMAIN ts = 1 .. Len(ts) /\ Len(ts) \in Nat /\ \A i \in DOMAIN ts : ts[i] \in Trade
  OBVIOUS
<1>2. \A i \in DOMAIN ts : AmountAt(ts)[i] = ts[i].amount /\ ts[i].amount \in Nat
                           /\ ts[i].price \in Nat
  BY <1>1, BookAssumption DEF AmountAt, Trade
<1>3. TradedBy(ts) = SumFunctionOnSet(AmountAt(ts), 1 .. Len(ts))
  BY <1>1 DEF TradedBy, AmountAt
<1>4. IsFiniteSet(1 .. Len(ts))
  BY <1>1, FS_Interval
<1>5. TradedBy(ts) \in Nat
  BY <1>1, <1>2, <1>3, <1>4, SumNat
<1> QED  BY <1>1, <1>2, <1>3, <1>5

LEMMA OneMoreTraded ==
    ASSUME NEW ts \in Seq(Trade), NEW tr \in Trade
    PROVE  TradedBy(Append(ts, tr)) = TradedBy(ts) + tr.amount
<1>1. PICK n, all : n = Len(ts) /\ all = Append(ts, tr)
  OBVIOUS
<1>2. /\ all \in Seq(Trade) /\ Len(all) = n + 1 /\ n \in Nat /\ all[n + 1] = tr
      /\ \A i \in 1 .. n : all[i] = ts[i]
  BY <1>1, AppendProperties
<1>3. /\ TradedBy(all) = SumFunctionOnSet(AmountAt(all), 1 .. (n + 1))
      /\ \A i \in 1 .. (n + 1) : AmountAt(all)[i] = all[i].amount /\ all[i].amount \in Nat
  BY <1>2, Traded
<1>4. /\ TradedBy(ts) = SumFunctionOnSet(AmountAt(ts), 1 .. n) /\ TradedBy(ts) \in Nat
      /\ \A i \in 1 .. n : AmountAt(ts)[i] = ts[i].amount
  BY <1>1, Traded
<1>5. \A i \in 1 .. (n + 1) : AmountAt(all)[i] \in Int
  BY <1>3
<1>6. \A i \in 1 .. n : i \in 1 .. (n + 1) /\ AmountAt(ts)[i] = AmountAt(all)[i]
  BY <1>2, <1>3, <1>4
<1>7. SumFunctionOnSet(AmountAt(all), 1 .. (n + 1))
         = AmountAt(all)[n + 1] + SumFunctionOnSet(AmountAt(ts), 1 .. n)
  BY <1>2, <1>5, <1>6, SumOneMore
<1>8. n + 1 \in 1 .. (n + 1)
  BY <1>2
<1>9. AmountAt(all)[n + 1] = tr.amount /\ tr.amount \in Nat
  BY <1>2, <1>3, <1>8
<1> QED  BY <1>1, <1>3, <1>4, <1>7, <1>9

LEMMA NoneTraded == TradedBy(<<>>) = 0
<1>1. << >> \in Seq(Trade) /\ Len(<< >>) = 0 /\ 1 .. 0 = {}
  OBVIOUS
<1>2. TradedBy(<<>>) = SumFunctionOnSet(AmountAt(<<>>), {})
  BY <1>1, Traded
<1> QED  BY <1>2, SumNone

LEMMA CountTradeIs ==
    ASSUME NEW s \in StatsRecord, NEW t \in Trade
    PROVE  /\ CountTrade(s, t) \in StatsRecord /\ CountTrade(s, t).volume = s.volume + t.amount
           /\ LastBetween(CountTrade(s, t))
<1>1. t.amount \in Nat /\ t.price \in Nat
  BY BookAssumption DEF Trade
<1> QED  BY <1>1 DEF CountTrade, StatsRecord, LastBetween

LEMMA UpdatesExist ==
    ASSUME NEW b \in StatsRecord, NEW ts \in Seq(Trade)
    PROVE  \E u \in [0 .. Len(ts) -> StatsRecord] : Updates(u, b, ts)
<1> DEFINE F == [i \in 1 .. Len(ts) |-> [x \in StatsRecord |-> CountTrade(x, ts[i])]]
<1>1. Len(ts) \in Nat /\ \A i \in 1 .. Len(ts) : ts[i] \in Trade
  OBVIOUS
<1>2. ASSUME NEW i \in 1 .. Len(ts), NEW x \in StatsRecord
      PROVE  F[i][x] = CountTrade(x, ts[i]) /\ F[i][x] \in StatsRecord
  BY <1>1, CountTradeIs
<1> HIDE DEF F
<1>3. PICK g \in [0 .. Len(ts) -> StatsRecord] : StepsTo(g, b, F, Len(ts))
  BY <1>1, <1>2, StepsExist
<1>4. ASSUME NEW i \in 0 .. Len(ts)
      PROVE  g[i] = IF i = 0 THEN b ELSE CountTrade(g[i - 1], ts[i])
  <2>1. CASE i = 0
    BY <1>3, <2>1 DEF StepsTo
  <2>2. CASE i # 0
    <3>1. i \in 1 .. Len(ts) /\ i - 1 \in 0 .. Len(ts)
      BY <1>1, <2>2
    <3>2. g[i] = F[i][g[i - 1]] /\ g[i - 1] \in StatsRecord
      BY <1>3, <2>2, <3>1 DEF StepsTo
    <3> QED  BY <1>2, <2>2, <3>1, <3>2
  <2> QED  BY <2>1, <2>2
<1>5. Updates(g, b, ts)
  BY <1>4 DEF Updates
<1> QED  BY <1>5

LEMMA StatsUpdated ==
    ASSUME stats \in StatsRecord, LastBetween(stats), NEW ts \in Seq(Trade)
    PROVE  /\ UpdateStats(ts) \in StatsRecord /\ LastBetween(UpdateStats(ts))
           /\ UpdateStats(ts).volume = stats.volume + TradedBy(ts)
<1> DEFINE u == CHOOSE g : Updates(g, stats, ts)
           N == {n \in Nat : n <= Len(ts) =>
                   /\ u[n] \in StatsRecord /\ LastBetween(u[n])
                   /\ u[n].volume = stats.volume + SumFunctionOnSet(AmountAt(ts), 1 .. n)}
<1>1. Updates(u, stats, ts)
  BY UpdatesExist
<1>2. UpdateStats(ts) = u[Len(ts)]
  BY DEF UpdateStats, Updates
<1>3. ASSUME NEW i \in 0 .. Len(ts)
      PROVE  u[i] = IF i = 0 THEN stats ELSE CountTrade(u[i - 1], ts[i])
  <2> HIDE DEF u
  <2> QED  BY <1>1 DEF Updates
<1> HIDE DEF u
<1>4. /\ DOMAIN ts = 1 .. Len(ts) /\ Len(ts) \in Nat
      /\ \A i \in 1 .. Len(ts) : AmountAt(ts)[i] = ts[i].amount /\ ts[i].amount \in Nat /\ ts[i] \in Trade
      /\ TradedBy(ts) = SumFunctionOnSet(AmountAt(ts), 1 .. Len(ts))
  BY Traded
<1>5. 0 \in N
  <2>1. 1 .. 0 = {} /\ SumFunctionOnSet(AmountAt(ts), {}) = 0
    BY SumNone
  <2>2. u[0] = stats
    BY <1>3, <1>4
  <2>3. stats.volume \in Nat
    BY DEF StatsRecord
  <2> QED  BY <2>1, <2>2, <2>3
<1>6. ASSUME NEW n \in N PROVE n + 1 \in N
  <2> SUFFICES ASSUME n + 1 <= Len(ts)
               PROVE  /\ u[n + 1] \in StatsRecord /\ LastBetween(u[n + 1])
                      /\ u[n + 1].volume = stats.volume + SumFunctionOnSet(AmountAt(ts), 1 .. (n + 1))
    OBVIOUS
  <2>1. /\ n \in Nat /\ n <= Len(ts) /\ n + 1 \in 0 .. Len(ts) /\ n + 1 # 0 /\ (n + 1) - 1 = n
        /\ n + 1 \in 1 .. Len(ts)
    BY <1>4
  <2>2. /\ u[n] \in StatsRecord
        /\ u[n].volume = stats.volume + SumFunctionOnSet(AmountAt(ts), 1 .. n)
    BY <2>1
  <2> HIDE DEF N
  <2>3. u[n + 1] = CountTrade(u[n], ts[n + 1])
    BY <1>3, <2>1
  <2>4. /\ u[n + 1] \in StatsRecord /\ LastBetween(u[n + 1])
        /\ u[n + 1].volume = u[n].volume + ts[n + 1].amount
    BY <1>4, <2>1, <2>2, <2>3, CountTradeIs
  <2>5. \A i \in 1 .. (n + 1) : i \in 1 .. Len(ts)
    BY <1>4, <2>1
  <2>6. \A i \in 1 .. (n + 1) : AmountAt(ts)[i] \in Int
    BY <1>4, <2>5
  <2>7. /\ SumFunctionOnSet(AmountAt(ts), 1 .. (n + 1))
             = AmountAt(ts)[n + 1] + SumFunctionOnSet(AmountAt(ts), 1 .. n)
        /\ SumFunctionOnSet(AmountAt(ts), 1 .. n) \in Int
    BY <2>1, <2>6, SumOneMore
  <2>8. AmountAt(ts)[n + 1] = ts[n + 1].amount /\ ts[n + 1].amount \in Nat /\ stats.volume \in Nat
    BY <1>4, <2>1 DEF StatsRecord
  <2> QED  BY <2>2, <2>4, <2>7, <2>8
<1>7. N = Nat
  <2>1. N \in SUBSET Nat
    OBVIOUS
  <2> HIDE DEF N
  <2> QED  BY <1>5, <1>6, <2>1, NatSteps
<1>8. Len(ts) <= Len(ts) /\ Len(ts) \in N
  BY <1>4, <1>7
<1> QED  BY <1>2, <1>4, <1>8

-----------------------------------------------------------------------------
(* What is traded is in the statistics, or on its way there. *)
LEMMA PendingIs ==
    ASSUME BookTyped
    PROVE  \A c \in Calls : /\ Pending[c] = TradedBy(trades[c]) /\ Pending[c] \in Int
                            /\ trades[c] \in Seq(Trade) /\ filled[c] \in Int
<1> SUFFICES ASSUME NEW c \in Calls
             PROVE  /\ Pending[c] = TradedBy(trades[c]) /\ Pending[c] \in Int
                    /\ trades[c] \in Seq(Trade) /\ filled[c] \in Int
  OBVIOUS
<1>1. trades[c] \in Seq(Trade) /\ filled[c] \in Int
  BY DEF BookTyped
<1>2. TradedBy(trades[c]) \in Int
  BY <1>1, Traded
<1> QED  BY <1>1, <1>2 DEF Pending

LEMMA FillCounted ==
    ASSUME ShapeInv, StatsAccount, NEW c \in Calls, MatchFill(c), BookTyped'
    PROVE  StatsAccount' /\ stats' \in StatsRecord
<1>1. PICK s, p, maker, a, used, q : FillOf(c, s, p, maker, a, used, q)
  BY FillIs
<1>2. BookTyped
  BY DEF ShapeInv
<1>3. PICK m, tr : m = maker.id /\ tr = [maker |-> m, amount |-> a, price |-> p]
  OBVIOUS
<1>4. /\ m \in Calls /\ a \in Nat /\ p \in Prices /\ stats' = stats
      /\ trades' = [trades EXCEPT ![c] = Append(@, tr)]
      /\ filled' = [filled EXCEPT ![m] = @ + a]
  <2>1. m \in Calls
    BY <1>1, <1>3, FillLevel
  <2> QED  BY <1>1, <1>3, <2>1 DEF FillOf
<1>5. tr \in Trade /\ tr.amount = a
  BY <1>3, <1>4 DEF Trade
<1>6. /\ \A d \in Calls : Pending[d] = TradedBy(trades[d]) /\ Pending[d] \in Int
                          /\ trades[d] \in Seq(Trade) /\ filled[d] \in Int
      /\ \A d \in Calls : Pending'[d] = TradedBy(trades'[d]) /\ Pending'[d] \in Int /\ filled'[d] \in Int
  <2>1. \A d \in Calls : Pending[d] = TradedBy(trades[d]) /\ Pending[d] \in Int
                          /\ trades[d] \in Seq(Trade) /\ filled[d] \in Int
    BY <1>2, PendingIs
  <2>2. \A d \in Calls : trades'[d] \in Seq(Trade) /\ filled'[d] \in Int
    BY DEF BookTyped
  <2>3. \A d \in Calls : Pending'[d] = TradedBy(trades'[d])
    BY DEF Pending
  <2>4. \A d \in Calls : TradedBy(trades'[d]) \in Int
    BY <2>2, Traded
  <2> QED  BY <2>1, <2>2, <2>3, <2>4
<1>7. /\ Pending'[c] = Pending[c] + a
      /\ \A d \in Calls \ {c} : Pending'[d] = Pending[d]
  <2>1. trades'[c] = Append(trades[c], tr) /\ \A d \in Calls \ {c} : trades'[d] = trades[d]
    BY <1>2, <1>4 DEF BookTyped
  <2>2. TradedBy(Append(trades[c], tr)) = TradedBy(trades[c]) + a
    BY <1>5, <1>6, OneMoreTraded
  <2> QED  BY <1>6, <2>1, <2>2
<1>8. /\ filled'[m] = filled[m] + a
      /\ \A d \in Calls \ {m} : filled'[d] = filled[d]
  BY <1>2, <1>4 DEF BookTyped
<1>9. /\ Total(Pending) \in Int /\ Total(Pending)' = Total(Pending) - Pending[c] + Pending'[c]
  <2>1. PICK f, g : f = Pending /\ g = Pending'
    OBVIOUS
  <2>2. (\A d \in Calls : f[d] \in Int /\ g[d] \in Int) /\ \A d \in Calls \ {c} : g[d] = f[d]
    BY <1>6, <1>7, <2>1
  <2>3. /\ SumFunctionOnSet(f, Calls) \in Int
        /\ SumFunctionOnSet(g, Calls) = SumFunctionOnSet(f, Calls) - f[c] + g[c]
    BY <2>2, BookAssumption, SumChange
  <2>4. Total(Pending) = SumFunctionOnSet(f, Calls) /\ Total(Pending)' = SumFunctionOnSet(g, Calls)
    BY <2>1 DEF Total
  <2> QED  BY <2>1, <2>3, <2>4
<1>10. /\ Total(filled) \in Int /\ Total(filled)' = Total(filled) - filled[m] + filled'[m]
  <2>1. PICK f, g : f = filled /\ g = filled'
    OBVIOUS
  <2>2. (\A d \in Calls : f[d] \in Int /\ g[d] \in Int) /\ \A d \in Calls \ {m} : g[d] = f[d]
    BY <1>6, <1>8, <2>1
  <2>3. /\ SumFunctionOnSet(f, Calls) \in Int
        /\ SumFunctionOnSet(g, Calls) = SumFunctionOnSet(f, Calls) - f[m] + g[m]
    BY <1>4, <2>2, BookAssumption, SumChange
  <2>4. Total(filled) = SumFunctionOnSet(f, Calls) /\ Total(filled)' = SumFunctionOnSet(g, Calls)
    BY <2>1 DEF Total
  <2> QED  BY <2>1, <2>3, <2>4
<1>11. stats \in StatsRecord /\ stats.volume \in Nat
  BY <1>2 DEF BookTyped, StatsRecord
<1>12. stats.volume + Total(Pending)' = Total(filled)'
  <2>1. PICK P, Q, F, G : P = Total(Pending) /\ Q = Total(Pending)' /\ F = Total(filled) /\ G = Total(filled)'
    OBVIOUS
  <2>2. Q = P + a
    <3>1. P \in Int /\ Q = P - Pending[c] + Pending'[c] /\ Pending[c] \in Int
      BY <1>6, <1>9, <2>1
    <3> QED  BY <1>4, <1>7, <3>1
  <2>3. G = F + a
    <3>1. F \in Int /\ G = F - filled[m] + filled'[m] /\ filled[m] \in Int
      BY <1>4, <1>6, <1>10, <2>1
    <3> QED  BY <1>4, <1>8, <3>1
  <2>4. stats.volume + P = F /\ P \in Int /\ F \in Int
    BY <1>9, <1>10, <2>1 DEF StatsAccount
  <2> QED  BY <1>4, <1>11, <2>1, <2>2, <2>3, <2>4
<1> QED  BY <1>4, <1>11, <1>12 DEF StatsAccount

LEMMA StatsCounted ==
    ASSUME BookTyped, StatsAccount, NEW c \in Calls, MatchStats(c)
    PROVE  StatsAccount' /\ stats' \in StatsRecord
<1>1. /\ stats' = UpdateStats(trades[c]) /\ trades' = [trades EXCEPT ![c] = <<>>]
      /\ filled' = filled
  BY DEF MatchStats
<1>2. \A d \in Calls : Pending[d] = TradedBy(trades[d]) /\ Pending[d] \in Int
                       /\ trades[d] \in Seq(Trade) /\ filled[d] \in Int
  BY PendingIs
<1>3. stats \in StatsRecord /\ LastBetween(stats) /\ stats.volume \in Nat
  BY DEF BookTyped, StatsAccount, StatsRecord, LastBetween
<1>4. /\ stats' \in StatsRecord /\ LastBetween(stats)'
      /\ stats'.volume = stats.volume + Pending[c]
  <2>1. PICK ts : ts = trades[c]
    OBVIOUS
  <2>2. /\ UpdateStats(ts) \in StatsRecord /\ LastBetween(UpdateStats(ts))
        /\ UpdateStats(ts).volume = stats.volume + TradedBy(ts)
    BY <1>2, <1>3, <2>1, StatsUpdated
  <2> QED  BY <1>1, <1>2, <2>1, <2>2 DEF LastBetween
<1>5. /\ Pending'[c] = 0 /\ \A d \in Calls \ {c} : Pending'[d] = Pending[d]
  <2>1. trades'[c] = <<>> /\ \A d \in Calls \ {c} : trades'[d] = trades[d]
    BY <1>1 DEF BookTyped
  <2>2. \A d \in Calls : Pending'[d] = TradedBy(trades'[d])
    BY DEF Pending
  <2> QED  BY <1>2, <2>1, <2>2, NoneTraded
<1>6. /\ Total(Pending) \in Int /\ Total(Pending)' = Total(Pending) - Pending[c] + Pending'[c]
  <2>1. PICK f, g : f = Pending /\ g = Pending'
    OBVIOUS
  <2>2. (\A d \in Calls : f[d] \in Int /\ g[d] \in Int) /\ \A d \in Calls \ {c} : g[d] = f[d]
    BY <1>2, <1>5, <2>1
  <2>3. /\ SumFunctionOnSet(f, Calls) \in Int
        /\ SumFunctionOnSet(g, Calls) = SumFunctionOnSet(f, Calls) - f[c] + g[c]
    BY <2>2, BookAssumption, SumChange
  <2>4. Total(Pending) = SumFunctionOnSet(f, Calls) /\ Total(Pending)' = SumFunctionOnSet(g, Calls)
    BY <2>1 DEF Total
  <2> QED  BY <2>1, <2>3, <2>4
<1>7. Total(filled)' = Total(filled)
  BY <1>1 DEF Total
<1>8. stats'.volume + Total(Pending)' = Total(filled)'
  BY <1>2, <1>3, <1>4, <1>5, <1>6, <1>7 DEF StatsAccount
<1> QED  BY <1>4, <1>8 DEF StatsAccount, LastBetween

LEMMA NothingCounted ==
    ASSUME StatsAccount, UNCHANGED <<stats, trades, filled>>
    PROVE  StatsAccount'
BY DEF StatsAccount, Total, Pending

-----------------------------------------------------------------------------
AccountInv == ShapeInv /\ IndexBookAgree /\ StatsAccount

LEMMA AccountInit == Init => AccountInv
<1> SUFFICES ASSUME Init PROVE AccountInv
  OBVIOUS
<1>1. << >> \in Seq(Order) /\ << >> \in Seq(Trade) /\ \A i : i \notin DOMAIN << >>
  OBVIOUS
<1>2. BookTyped
  BY <1>1 DEF Init, BookTyped, BookLabels, BookResults
<1>3. \A s \in Sides, p \in Prices : book[s][p] = << >>
  BY DEF Init
<1>4. LevelsOwn
  BY <1>1, <1>3 DEF LevelsOwn, LevelOK
<1>5. IndexOwn /\ FilledOwn /\ BookHeld
  BY DEF Init, IndexOwn, FilledOwn, BookHeld, HeldBy, MatchHolds, PoppedHeld, CancelHolds, CancelledGone
<1>6. IndexBookAgree
  <2>1. Adding = {} /\ UsedUp = {} /\ Cancelling = {} /\ Ids(index) = {}
    BY DEF Init, Adding, UsedUp, Cancelling, Ids
  <2>2. \A x : x \notin Ids(Resting)
    BY <1>1, <1>3, RestingIs DEF RestingKnown, IdsIn
  <2> QED  BY <2>1, <2>2 DEF IndexBookAgree
<1>7. StatsAccount
  <2>1. \A c \in Calls : filled[c] = 0 /\ Pending[c] = 0
    BY NoneTraded DEF Init, Pending
  <2>2. SumFunctionOnSet(filled, Calls) = SumFunctionOnSet(Pending, Calls)
    <3>1. PICK f, g : f = filled /\ g = Pending
      OBVIOUS
    <3>2. \A c \in Calls : f[c] = g[c]
      BY <2>1, <3>1
    <3>3. SumFunctionOnSet(f, Calls) = SumFunctionOnSet(g, Calls)
      BY <3>2, SumSame
    <3> QED  BY <3>1, <3>3
  <2>3. SumFunctionOnSet(Pending, Calls) \in Int
    <3>1. PICK g : g = Pending
      OBVIOUS
    <3>2. \A c \in Calls : g[c] \in Int
      BY <2>1, <3>1
    <3>3. SumFunctionOnSet(g, Calls) \in Int
      BY <3>2, SumStep, BookAssumption
    <3> QED  BY <3>1, <3>3
  <2>4. stats.volume = 0 /\ stats.low = 0 /\ stats.last = 0 /\ stats.high = 0
    BY DEF Init
  <2> QED  BY <2>2, <2>3, <2>4 DEF StatsAccount, Total
<1> QED  BY <1>2, <1>4, <1>5, <1>6, <1>7 DEF AccountInv, ShapeInv

LEMMA AccountStep == AccountInv /\ [Next]_vars => AccountInv'
<1> SUFFICES ASSUME AccountInv, [Next]_vars PROVE AccountInv'
  OBVIOUS
<1>0. ShapeInv /\ IndexBookAgree /\ StatsAccount /\ BookTyped /\ stats \in StatsRecord
  BY DEF AccountInv, ShapeInv, BookTyped, StatsRecord
<1>1. CASE UNCHANGED vars
  <2>1. Ids(Resting)' = Ids(Resting) /\ Ids(index)' = Ids(index)
    BY <1>1 DEF vars, Ids, Resting, Queued
  <2>2. Adding' = Adding /\ UsedUp' = UsedUp /\ Cancelling' = Cancelling
    BY <1>1 DEF vars, Adding, UsedUp, Cancelling
  <2>3. IndexBookAgree'
    BY <1>0, <2>1, <2>2 DEF IndexBookAgree
  <2>4. ShapeInv'
    BY <1>0, <1>1, <2>1, SMTT(30) DEF vars, ShapeInv, BookTyped, LevelsOwn, LevelOK, EntryOK, IndexOwn,
          FilledOwn, BookHeld, HeldBy, MatchHolds, PoppedHeld, CancelHolds, CancelledGone, LastMaker, Booked, OwnOrder
  <2>5. StatsAccount'
    BY <1>0, <1>1, NothingCounted DEF vars
  <2> QED  BY <2>3, <2>4, <2>5 DEF AccountInv
<1>2. ASSUME NEW c \in Calls, Add(c) \/ Match(c) \/ Cancel(c) \/ DepthBuy(c) \/ Continue(c)
      PROVE  AccountInv'
  <2>1. CASE \E type \in Types, price \in Prices, amount \in Amounts, visible \in Amounts :
                AddRejected(c, type, price, amount, visible)
    <3>1. UNCHANGED <<stats, trades, filled>>
      BY <2>1 DEF AddRejected
    <3> QED  BY <1>0, <2>1, <3>1, QuietActions, NothingCounted DEF AccountInv, StatsRecord
  <2>2. CASE Match(c) \/ MatchEnd(c) \/ DepthBuy(c) \/ DepthSell(c)
    <3>1. UNCHANGED <<stats, trades, filled>>
      BY <2>2 DEF Match, MatchStart, MatchEnd, DepthBuy, DepthSell
    <3> QED  BY <1>0, <2>2, <3>1, QuietActions, NothingCounted DEF AccountInv, StatsRecord
  <2>3. CASE MatchStats(c)
    <3>1. StatsAccount' /\ stats' \in StatsRecord
      BY <1>0, <2>3, StatsCounted
    <3> QED  BY <1>0, <2>3, <3>1, QuietActions DEF AccountInv, StatsRecord
  <2>4. ASSUME NEW side \in Sides, NEW type \in Types, NEW price \in Prices, NEW amount \in Amounts,
               NEW visible \in Amounts, AddIndex(c, side, type, price, amount, visible)
        PROVE  AccountInv'
    <3>1. UNCHANGED <<stats, trades, filled>>
      BY <2>4 DEF AddIndex
    <3> QED  BY <1>0, <2>4, <3>1, AddIndexStep, NothingCounted DEF AccountInv
  <2>5. CASE AddBook(c)
    <3>1. UNCHANGED <<stats, trades, filled>>
      BY <2>5 DEF AddBook
    <3> QED  BY <1>0, <2>5, <3>1, AddBookStep, NothingCounted DEF AccountInv
  <2>6. CASE MatchFill(c)
    <3>1. ShapeInv' /\ IndexBookAgree'
      BY <1>0, <2>6, MatchFillStep
    <3>2. StatsAccount'
      BY <1>0, <2>6, <3>1, FillCounted DEF ShapeInv
    <3> QED  BY <3>1, <3>2 DEF AccountInv
  <2>7. CASE MatchIndex(c)
    <3>1. UNCHANGED <<stats, trades, filled>>
      BY <2>7 DEF MatchIndex
    <3> QED  BY <1>0, <2>7, <3>1, MatchIndexStep, NothingCounted DEF AccountInv
  <2>8. CASE Cancel(c)
    <3>1. UNCHANGED <<stats, trades, filled>>
      BY <2>8 DEF Cancel, CancelIndex
    <3> QED  BY <1>0, <2>8, <3>1, CancelIndexStep, NothingCounted DEF AccountInv
  <2>9. CASE CancelBook(c)
    <3>1. UNCHANGED <<stats, trades, filled>>
      BY <2>9 DEF CancelBook
    <3> QED  BY <1>0, <2>9, <3>1, CancelBookStep, NothingCounted DEF AccountInv
  <2> QED  BY <1>2, <2>1, <2>2, <2>3, <2>4, <2>5, <2>6, <2>7, <2>8, <2>9 DEF Add, Continue
<1> QED  BY <1>1, <1>2 DEF Next

LEMMA AccountImplies == AccountInv => BookKeepsAccount
<1> SUFFICES ASSUME AccountInv PROVE BookKeepsAccount
  OBVIOUS
<1>1. ShapeInv /\ IndexBookAgree /\ StatsAccount /\ BookTyped
  BY DEF AccountInv, ShapeInv
<1>2. TypeOK
  <2>1. \A c \in Calls : \A i \in DOMAIN trades[c] : trades[c][i] \in Trade
    <3> SUFFICES ASSUME NEW c \in Calls PROVE \A i \in DOMAIN trades[c] : trades[c][i] \in Trade
      OBVIOUS
    <3>1. PICK ts : ts = trades[c]
      OBVIOUS
    <3>2. ts \in Seq(Trade)
      BY <1>1, <3>1 DEF BookTyped
    <3> QED  BY <3>1, <3>2
  <2> QED  BY <1>1, <2>1 DEF TypeOK, BookTyped, Trade
<1>3. FillsConserve
  <2>1. ASSUME NEW o \in Resting PROVE o.amount + filled[o.id] = order[o.id].amount
    <3>1. PICK s \in Sides, p \in Prices : \E i \in DOMAIN book[s][p] : book[s][p][i] = o
      BY DEF Resting, Queued, Sides
    <3> QED  BY <1>1, <3>1 DEF ShapeInv, LevelsOwn, LevelOK, EntryOK
  <2> QED  BY <1>1, <2>1 DEF FillsConserve, ShapeInv, FilledOwn
<1> QED  BY <1>1, <1>2, <1>3 DEF BookKeepsAccount, BooksSound

(* BookAlwaysKeepsAccount: whatever the calls in flight are between, index *)
(* and books agree, no amount is lost or traded twice, and the statistics  *)
(* account for every trade (add_limit_order, match_order, cancel_order,    *)
(* update_stats).                                                          *)
THEOREM BookAlwaysKeepsAccount == Spec => []BookKeepsAccount
<1>1. Init => AccountInv
  BY AccountInit
<1>2. AccountInv /\ [Next]_vars => AccountInv'
  BY AccountStep
<1>3. AccountInv => BookKeepsAccount
  BY AccountImplies
<1> QED  BY <1>1, <1>2, <1>3, PTL DEF Spec

-----------------------------------------------------------------------------
(* Price and time: a level holds its orders in the order they arrived.     *)
InTime(q, a) ==
    \A j, k \in DOMAIN q : j < k =>
        \A m, n \in DOMAIN a : a[m] = q[j].id /\ a[n] = q[k].id => m < n
TimeInv ==
    /\ arrived \in Seq(Calls)
    /\ \A i \in DOMAIN arrived : pc[arrived[i]] = "done"
    /\ \A i, j \in DOMAIN arrived : arrived[i] = arrived[j] => i = j
    /\ \A x \in Ids(Resting) : \E i \in DOMAIN arrived : arrived[i] = x
    /\ \A s \in Sides, p \in Prices : InTime(book[s][p], arrived)

LEMMA InTimeKept ==
    ASSUME NEW old, NEW q, NEW a, InTime(old, a), InOrderOf(q, old)
    PROVE  InTime(q, a)
<1>1. PICK at \in [DOMAIN q -> DOMAIN old] :
         /\ \A j, k \in DOMAIN q : j < k => at[j] < at[k]
         /\ \A j \in DOMAIN q : q[j].id = old[at[j]].id
  BY DEF InOrderOf
<1> SUFFICES ASSUME NEW j \in DOMAIN q, NEW k \in DOMAIN q, j < k,
                    NEW m \in DOMAIN a, NEW n \in DOMAIN a, a[m] = q[j].id, a[n] = q[k].id
             PROVE  m < n
  BY DEF InTime
<1>2. at[j] \in DOMAIN old /\ at[k] \in DOMAIN old /\ at[j] < at[k]
  BY <1>1
<1>3. a[m] = old[at[j]].id /\ a[n] = old[at[k]].id
  BY <1>1
<1> QED  BY <1>2, <1>3 DEF InTime

(* A call that has returned stays returned. *)
LEMMA DoneStays ==
    ASSUME BookTyped, NEW c \in Calls,
           Add(c) \/ Match(c) \/ Cancel(c) \/ DepthBuy(c) \/ Continue(c)
    PROVE  \A x \in Calls : pc[x] = "done" => pc'[x] = "done"
<1>1. /\ pc \in [Calls -> BookLabels] /\ pc[c] # "done"
      /\ \E l : pc' = [pc EXCEPT ![c] = l]
  <2>1. CASE Add(c)
    BY <2>1 DEF BookTyped, Add, AddRejected, AddIndex, Return, Goto
  <2>2. CASE Match(c) \/ Cancel(c) \/ DepthBuy(c)
    BY <2>2 DEF BookTyped, Match, MatchStart, Cancel, CancelIndex, DepthBuy, Return, Goto
  <2>3. CASE Continue(c)
    BY <2>3 DEF BookTyped, Continue, AddBook, MatchFill, CanFill, MatchIndex, MatchEnd, MatchStats,
                CancelBook, DepthSell, Return, Goto
  <2> QED  BY <2>1, <2>2, <2>3
<1> QED  BY <1>1

LEMMA TimeKept ==
    ASSUME TimeInv, BookTyped, BookTyped', arrived' = arrived,
           \A x \in Calls : pc[x] = "done" => pc'[x] = "done",
           Ids(Resting)' \subseteq Ids(Resting), LevelsInOrder
    PROVE  TimeInv'
<1>1. arrived \in Seq(Calls) /\ \A i \in DOMAIN arrived : arrived[i] \in Calls
  BY DEF TimeInv
<1>2. \A i \in DOMAIN arrived' : pc'[arrived'[i]] = "done"
  BY <1>1 DEF TimeInv
<1>3. \A x \in Ids(Resting)' : \E i \in DOMAIN arrived' : arrived'[i] = x
  BY DEF TimeInv
<1>4. ASSUME NEW s \in Sides, NEW p \in Prices PROVE InTime(book'[s][p], arrived')
  BY InTimeKept DEF TimeInv, LevelsInOrder
<1>5. \A s \in Sides, p \in Prices : InTime(book[s][p], arrived)'
  BY <1>4 DEF InTime
<1> QED  BY <1>1, <1>2, <1>3, <1>5 DEF TimeInv

(* Whose order is put at the end has arrived last. *)
LEMMA InTimeMore ==
    ASSUME NEW a \in Seq(Calls), NEW c, \A i \in DOMAIN a : a[i] # c,
           NEW q, InTime(q, a), \A j \in DOMAIN q : q[j].id # c
    PROVE  InTime(q, Append(a, c))
<1>1. PICK n \in Nat : n = Len(a)
  OBVIOUS
<1>2. PICK b : b = Append(a, c)
  OBVIOUS
<1>3. /\ DOMAIN a = 1 .. n /\ DOMAIN b = 1 .. (n + 1) /\ b[n + 1] = c
      /\ \A i \in 1 .. n : b[i] = a[i]
  BY <1>1, <1>2
<1> SUFFICES ASSUME NEW j \in DOMAIN q, NEW k \in DOMAIN q, j < k,
                    NEW m \in DOMAIN b, NEW l \in DOMAIN b, b[m] = q[j].id, b[l] = q[k].id
             PROVE  m < l
  BY <1>2 DEF InTime
<1>4. m # n + 1 /\ l # n + 1
  BY <1>3
<1>5. m \in DOMAIN a /\ l \in DOMAIN a /\ a[m] = q[j].id /\ a[l] = q[k].id
  BY <1>3, <1>4
<1> QED  BY <1>5 DEF InTime

LEMMA InTimeLast ==
    ASSUME NEW a \in Seq(Calls), NEW c, \A i \in DOMAIN a : a[i] # c,
           NEW q \in Seq(Order), InTime(q, a), \A j \in DOMAIN q : q[j].id # c,
           NEW o \in Order, o.id = c
    PROVE  InTime(Append(q, o), Append(a, c))
<1>1. PICK n \in Nat, h \in Nat : n = Len(a) /\ h = Len(q)
  OBVIOUS
<1>2. PICK b, r : b = Append(a, c) /\ r = Append(q, o)
  OBVIOUS
<1>3. /\ DOMAIN a = 1 .. n /\ DOMAIN b = 1 .. (n + 1) /\ b[n + 1] = c
      /\ \A i \in 1 .. n : b[i] = a[i]
  BY <1>1, <1>2
<1>4. /\ DOMAIN q = 1 .. h /\ DOMAIN r = 1 .. (h + 1) /\ r[h + 1] = o
      /\ \A i \in 1 .. h : r[i] = q[i]
  BY <1>1, <1>2
<1>5. InTime(q, b)
  BY <1>2, InTimeMore
<1> SUFFICES ASSUME NEW j \in DOMAIN r, NEW k \in DOMAIN r, j < k,
                    NEW m \in DOMAIN b, NEW l \in DOMAIN b, b[m] = r[j].id, b[l] = r[k].id
             PROVE  m < l
  BY <1>2 DEF InTime
<1>6. j \in DOMAIN q /\ r[j] = q[j]
  BY <1>4
<1>7. CASE k = h + 1
  <2>1. b[l] = c /\ b[m] # c
    BY <1>4, <1>6, <1>7
  <2>2. l = n + 1
    BY <1>3, <2>1
  <2>3. m \in 1 .. n
    BY <1>3, <2>1
  <2> QED  BY <2>2, <2>3
<1>8. CASE k # h + 1
  <2>1. k \in DOMAIN q /\ r[k] = q[k]
    BY <1>4, <1>8
  <2> QED  BY <1>5, <1>6, <2>1 DEF InTime
<1> QED  BY <1>7, <1>8

LEMMA TimeAdded ==
    ASSUME ShapeInv, IndexBookAgree, TimeInv, NEW c \in Calls, AddBook(c)
    PROVE  TimeInv'
<1>1. Ids(Resting)' = Ids(Resting) \cup {c}
  BY AddBookStep
<1>2. BookTyped /\ HeldBy(c)
  BY DEF ShapeInv, BookHeld
<1>3. PICK o, s, p, a : o = order[c] /\ s = o.side /\ p = o.price /\ a = arrived
  OBVIOUS
<1>4. /\ pc[c] = "add_book" /\ book' = [book EXCEPT ![s][p] = Append(@, o)]
      /\ arrived' = Append(a, c) /\ pc' = [pc EXCEPT ![c] = "done"]
  BY <1>3 DEF AddBook, Return, Goto
<1>5. o \in Order /\ o.id = c /\ s \in Sides /\ p \in Prices
  BY <1>2, <1>3, <1>4 DEF HeldBy, OwnOrder, Order
<1>6. /\ a \in Seq(Calls) /\ \A i \in DOMAIN a : a[i] \in Calls /\ pc[a[i]] = "done" /\ a[i] # c
      /\ \A i, j \in DOMAIN a : a[i] = a[j] => i = j
      /\ \A x \in Ids(Resting) : \E i \in DOMAIN a : a[i] = x
      /\ \A t \in Sides, r \in Prices : InTime(book[t][r], a)
  BY <1>3, <1>4 DEF TimeInv
<1>7. PICK n, b : n = Len(a) /\ b = Append(a, c)
  OBVIOUS
<1>8. /\ n \in Nat /\ DOMAIN a = 1 .. n /\ DOMAIN b = 1 .. (n + 1) /\ b[n + 1] = c
      /\ \A i \in 1 .. n : b[i] = a[i]
      /\ b \in Seq(Calls) /\ arrived' = b
  BY <1>4, <1>6, <1>7
<1>9. \A i \in 1 .. (n + 1) : (i \in 1 .. n /\ b[i] = a[i]) \/ (i = n + 1 /\ b[i] = c)
  BY <1>8
<1>10. \A i \in DOMAIN b : pc'[b[i]] = "done"
  BY <1>2, <1>4, <1>6, <1>8, <1>9, SMTT(30) DEF BookTyped
<1>11. \A i, j \in DOMAIN b : b[i] = b[j] => i = j
  BY <1>6, <1>8, <1>9
<1>12. \A x \in Ids(Resting)' : \E i \in DOMAIN b : b[i] = x
  <2> SUFFICES ASSUME NEW x \in Ids(Resting)' PROVE \E i \in DOMAIN b : b[i] = x
    OBVIOUS
  <2>1. CASE x = c
    <3>1. n + 1 \in DOMAIN b
      BY <1>8
    <3> QED  BY <1>8, <2>1, <3>1
  <2>2. CASE x \in Ids(Resting)
    <3>1. PICK i \in DOMAIN a : a[i] = x
      BY <1>6, <2>2
    <3>2. i \in DOMAIN b /\ b[i] = x
      BY <1>8, <3>1
    <3> QED  BY <3>2
  <2> QED  BY <1>1, <2>1, <2>2
<1>13. \A t \in Sides, r \in Prices : \A j \in DOMAIN book[t][r] : book[t][r][j].id # c
  BY <1>4 DEF ShapeInv, LevelsOwn, LevelOK, EntryOK, Booked
<1>14. ASSUME NEW t \in Sides, NEW r \in Prices PROVE InTime(book'[t][r], b)
  <2>1. CASE t = s /\ r = p
    <3>1. book'[t][r] = Append(book[s][p], o) /\ book[s][p] \in Seq(Order)
      BY <1>2, <1>4, <1>5, <2>1 DEF BookTyped
    <3>2. PICK q : q = book[s][p]
      OBVIOUS
    <3>3. q \in Seq(Order) /\ InTime(q, a) /\ \A j \in DOMAIN q : q[j].id # c
      BY <1>5, <1>6, <1>13, <3>1, <3>2
    <3>4. InTime(Append(q, o), Append(a, c))
      BY <1>5, <1>6, <3>3, InTimeLast
    <3> QED  BY <1>7, <3>1, <3>2, <3>4
  <2>2. CASE ~(t = s /\ r = p)
    <3>1. PICK q : q = book[t][r]
      OBVIOUS
    <3>2. book'[t][r] = q
      BY <1>2, <1>4, <1>5, <2>2, <3>1 DEF BookTyped
    <3>3. InTime(q, a) /\ \A j \in DOMAIN q : q[j].id # c
      BY <1>6, <1>13, <3>1
    <3>4. InTime(q, Append(a, c))
      BY <1>6, <3>3, InTimeMore
    <3> QED  BY <1>7, <3>2, <3>4
  <2> QED  BY <2>1, <2>2
<1>15. \A t \in Sides, r \in Prices : InTime(book[t][r], arrived)'
  BY <1>8, <1>14 DEF InTime
<1> QED  BY <1>8, <1>10, <1>11, <1>12, <1>15 DEF TimeInv

LEMMA TimeInit == Init => TimeInv
<1> SUFFICES ASSUME Init PROVE TimeInv
  OBVIOUS
<1>1. << >> \in Seq(Calls) /\ \A i : i \notin DOMAIN << >>
  OBVIOUS
<1>2. arrived = << >> /\ \A s \in Sides, p \in Prices : book[s][p] = << >>
  BY DEF Init
<1>3. \A x : x \notin Ids(Resting)
  BY <1>1, <1>2, RestingIs DEF RestingKnown, IdsIn
<1> QED  BY <1>1, <1>2, <1>3 DEF TimeInv, InTime

LEMMA TimeStep == AccountInv /\ TimeInv /\ [Next]_vars => TimeInv'
<1> SUFFICES ASSUME AccountInv, TimeInv, [Next]_vars PROVE TimeInv'
  OBVIOUS
<1>0. ShapeInv /\ IndexBookAgree /\ BookTyped
  BY DEF AccountInv, ShapeInv
<1>1. BookTyped'
  BY AccountStep DEF AccountInv, ShapeInv
<1>2. ASSUME UNCHANGED <<book, arrived>>, \A x \in Calls : pc[x] = "done" => pc'[x] = "done"
      PROVE  TimeInv'
  <2>1. Ids(Resting)' = Ids(Resting)
    BY <1>2 DEF Ids, Resting, Queued
  <2>2. LevelsInOrder
    BY <1>2, InOrderSame DEF LevelsInOrder
  <2> QED  BY <1>0, <1>1, <1>2, <2>1, <2>2, TimeKept
<1>3. CASE UNCHANGED vars
  BY <1>2, <1>3 DEF vars
<1>4. ASSUME NEW c \in Calls, Add(c) \/ Match(c) \/ Cancel(c) \/ DepthBuy(c) \/ Continue(c)
      PROVE  TimeInv'
  <2>0. \A x \in Calls : pc[x] = "done" => pc'[x] = "done"
    BY <1>0, <1>4, DoneStays
  <2>1. CASE AddBook(c)
    BY <1>0, <2>1, TimeAdded
  <2>2. CASE MatchFill(c)
    <3>1. LevelsInOrder /\ Ids(Resting)' \subseteq Ids(Resting)
      BY <1>0, <2>2, MatchFillStep
    <3>2. arrived' = arrived
      BY <2>2 DEF MatchFill
    <3> QED  BY <1>0, <1>1, <2>0, <3>1, <3>2, TimeKept
  <2>3. CASE CancelBook(c)
    <3>1. LevelsInOrder /\ Ids(Resting)' \subseteq Ids(Resting)
      BY <1>0, <2>3, CancelBookStep
    <3>2. arrived' = arrived
      BY <2>3 DEF CancelBook
    <3> QED  BY <1>0, <1>1, <2>0, <3>1, <3>2, TimeKept
  <2>4. CASE Add(c) \/ Match(c) \/ Cancel(c) \/ DepthBuy(c)
    <3>1. UNCHANGED <<book, arrived>>
      BY <2>4 DEF Add, AddRejected, AddIndex, Match, MatchStart, Cancel, CancelIndex, DepthBuy
    <3> QED  BY <1>2, <2>0, <3>1
  <2>5. CASE MatchIndex(c) \/ MatchEnd(c) \/ MatchStats(c) \/ DepthSell(c)
    <3>1. UNCHANGED <<book, arrived>>
      BY <2>5 DEF MatchIndex, MatchEnd, MatchStats, DepthSell
    <3> QED  BY <1>2, <2>0, <3>1
  <2> QED  BY <1>4, <2>1, <2>2, <2>3, <2>4, <2>5 DEF Continue
<1> QED  BY <1>3, <1>4 DEF Next

(* An order that has arrived has one position. *)
LEMMA PositionIs ==
    ASSUME TimeInv, NEW i \in DOMAIN arrived
    PROVE  Position(arrived[i]) = i
BY DEF TimeInv, Position

(* No level of a side is better than the best. *)
LEMMA BestIsBest ==
    ASSUME BookTyped, NEW s \in Sides, NEW p \in Prices, book[s][p] # <<>>
    PROVE  ~Better(s, p, BestPrice(s)) /\ BestPrice(s) \in Prices
<1> DEFINE S == {r \in Prices : book[s][r] # <<>>}
<1>1. p \in S
  OBVIOUS
<1>2. S \in SUBSET Int /\ IsFiniteSet(S) /\ S \subseteq Prices /\ Prices \subseteq Nat
  <2>1. S \subseteq Prices
    OBVIOUS
  <2> HIDE DEF S
  <2>2. IsFiniteSet(S)
    BY <2>1, BookAssumption, FS_Subset
  <2>3. S \in SUBSET Int
    BY <2>1, BookAssumption
  <2> QED  BY <2>1, <2>2, <2>3, BookAssumption
<1>3. BestPrice(s) = IF s = "Sell" THEN Min(S) ELSE Max(S)
  BY DEF BestPrice
<1> HIDE DEF S
<1>4. /\ \E x \in S : \A y \in S : x <= y
      /\ \E x \in S : \A y \in S : x >= y
  BY <1>1, <1>2, Extremes
<1>5. /\ Min(S) \in S /\ \A y \in S : Min(S) <= y
      /\ Max(S) \in S /\ \A y \in S : Max(S) >= y
  BY <1>4 DEF Min, Max
<1>6. PICK best : best = BestPrice(s)
  OBVIOUS
<1>7. best \in S /\ IF s = "Sell" THEN best <= p ELSE best >= p
  BY <1>1, <1>3, <1>5, <1>6
<1>8. best \in Nat /\ p \in Nat /\ best \in Prices
  BY <1>2, <1>7
<1> QED  BY <1>6, <1>7, <1>8 DEF Better

FairFill ==
    \A s \in Sides : \A o \in Queued(s) : filled'[o.id] > filled[o.id] =>
        \A q \in Queued(s) \ {o} :
            /\ ~Better(s, q.price, o.price)
            /\ q.price = o.price => Position(o.id) < Position(q.id)
FinalCancel ==
    \A c \in Calls : result[c] = "cancelled" =>
        /\ order[c].id \notin Ids(Resting')
        /\ filled'[order[c].id] = filled[order[c].id]

(* A fill is of the front order of the best level, the first to arrive.    *)
LEMMA FillIsFair ==
    ASSUME ShapeInv, TimeInv, NEW c \in Calls, MatchFill(c)
    PROVE  FairFill
<1>1. PICK s, p, maker, a, used, q : FillOf(c, s, p, maker, a, used, q) /\ p = BestPrice(s)
  BY FillIs
<1>2. BookTyped /\ LevelsOwn
  BY DEF ShapeInv
<1>3. /\ s \in Sides /\ p \in Prices /\ book[s][p] # <<>> /\ maker = Head(book[s][p])
      /\ filled' = [filled EXCEPT ![maker.id] = @ + a]
  BY <1>1 DEF FillOf
<1>4. /\ maker.id \in IdsIn(book[s][p])
  BY <1>1, FillLevel
<1>5. book[s][p] \in Seq(Order) /\ maker = book[s][p][1] /\ 1 \in DOMAIN book[s][p]
      /\ DOMAIN book[s][p] \subseteq Nat \ {0}
  <2>1. book[s][p] \in Seq(Order)
    BY <1>2, <1>3 DEF BookTyped
  <2> QED  BY <1>3, <2>1, FrontIs
<1> SUFFICES ASSUME NEW t \in Sides, NEW o \in Queued(t), filled'[o.id] > filled[o.id],
                    NEW e \in Queued(t) \ {o}
             PROVE  /\ ~Better(t, e.price, o.price)
                    /\ e.price = o.price => Position(o.id) < Position(e.id)
  BY DEF FairFill
<1>6. PICK r \in Prices : \E i \in DOMAIN book[t][r] : book[t][r][i] = o
  BY DEF Queued
<1>7. PICK i \in DOMAIN book[t][r] : book[t][r][i] = o
  BY <1>6
<1>8. PICK v \in Prices : \E j \in DOMAIN book[t][v] : book[t][v][j] = e
  BY DEF Queued
<1>9. PICK j \in DOMAIN book[t][v] : book[t][v][j] = e
  BY <1>8
<1>10. EntryOK(o, t, r) /\ EntryOK(e, t, v)
  BY <1>2, <1>7, <1>9 DEF LevelsOwn, LevelOK
<1>11. o.id = maker.id
  <2>1. o.id \in Calls /\ filled \in [Calls -> Nat]
    BY <1>2, <1>10 DEF EntryOK, Booked, OwnOrder, BookTyped
  <2> QED  BY <1>3, <2>1
<1>12. t = s /\ r = p /\ o = maker /\ i = 1
  <2>1. EntryOK(maker, s, p)
    BY <1>1, FillLevel
  <2>2. t = s /\ r = p
    BY <1>10, <1>11, <2>1 DEF EntryOK
  <2>3. i = 1
    BY <1>2, <1>3, <1>5, <1>7, <1>11, <2>2 DEF LevelsOwn, LevelOK
  <2> QED  BY <1>5, <1>7, <2>2, <2>3
<1>13. o.price = p /\ e.price = v
  BY <1>10, <1>12 DEF EntryOK
<1>14. ~Better(t, e.price, o.price)
  <2>1. book[t][v] # <<>>
    BY <1>9
  <2> QED  BY <1>1, <1>2, <1>12, <1>13, <2>1, BestIsBest
<1>15. ASSUME e.price = o.price PROVE Position(o.id) < Position(e.id)
  <2>1. v = p /\ j \in DOMAIN book[s][p] /\ book[s][p][j] = e
    BY <1>9, <1>12, <1>13, <1>15
  <2>2. j # 1 /\ 1 < j
    BY <1>5, <1>12, <2>1
  <2>3. o.id \in Ids(Resting) /\ e.id \in Ids(Resting)
    BY <1>3, <1>4, <1>11, <2>1, RestingIs DEF RestingKnown, IdsIn
  <2>4. PICK m \in DOMAIN arrived, n \in DOMAIN arrived : arrived[m] = o.id /\ arrived[n] = e.id
    BY <2>3 DEF TimeInv
  <2>5. InTime(book[s][p], arrived)
    BY <1>3 DEF TimeInv
  <2>6. m < n
    BY <1>5, <1>12, <2>1, <2>2, <2>4, <2>5 DEF InTime
  <2> QED  BY <2>4, <2>6, PositionIs
<1> QED  BY <1>14, <1>15

LEMMA StepIsFair == AccountInv /\ TimeInv /\ [Next]_vars => FairFill /\ FinalCancel
<1> SUFFICES ASSUME AccountInv, TimeInv, [Next]_vars PROVE FairFill /\ FinalCancel
  OBVIOUS
<1>0. ShapeInv /\ IndexBookAgree /\ BookTyped
  BY DEF AccountInv, ShapeInv
<1>1. \A c \in Calls : result[c] = "cancelled" =>
         Booked(order[c].id) /\ order[c].id \notin Ids(Resting)
  BY <1>0 DEF ShapeInv, BookHeld, HeldBy, CancelledGone
<1>2. \A s \in Sides : \A o \in Queued(s) : o.id \in Calls
  <2> SUFFICES ASSUME NEW s \in Sides, NEW o \in Queued(s) PROVE o.id \in Calls
    OBVIOUS
  <2>1. PICK r \in Prices : \E i \in DOMAIN book[s][r] : book[s][r][i] = o
    BY DEF Queued
  <2> QED  BY <1>0, <2>1 DEF ShapeInv, LevelsOwn, LevelOK, EntryOK, Booked, OwnOrder
<1>3. ASSUME filled' = filled, Ids(Resting)' \subseteq Ids(Resting)
      PROVE  FairFill /\ FinalCancel
  <2>1. FairFill
    <3>1. \A x \in Calls : ~(filled[x] > filled[x])
      BY <1>0 DEF BookTyped
    <3> QED  BY <1>2, <1>3, <3>1 DEF FairFill
  <2>2. Ids(Resting') = Ids(Resting)'
    BY DEF Ids
  <2> QED  BY <1>1, <1>3, <2>1, <2>2 DEF FinalCancel
<1>4. CASE UNCHANGED vars
  BY <1>3, <1>4 DEF vars, Ids, Resting, Queued
<1>5. ASSUME NEW c \in Calls, Add(c) \/ Match(c) \/ Cancel(c) \/ DepthBuy(c) \/ Continue(c)
      PROVE  FairFill /\ FinalCancel
  <2>1. CASE AddBook(c)
    <3>1. Ids(Resting)' = Ids(Resting) \cup {c} /\ filled' = filled /\ pc[c] # "done"
      BY <1>0, <2>1, AddBookStep DEF AddBook
    <3>2. FairFill
      <4>1. \A x \in Calls : ~(filled[x] > filled[x])
        BY <1>0 DEF BookTyped
      <4> QED  BY <1>2, <3>1, <4>1 DEF FairFill
    <3>3. Ids(Resting') = Ids(Resting)'
      BY DEF Ids
    <3> QED  BY <1>1, <3>1, <3>2, <3>3 DEF FinalCancel, Booked
  <2>2. CASE MatchFill(c)
    <3>1. FairFill
      BY <1>0, <2>2, FillIsFair
    <3>2. PICK s, p, maker, a, used, q : FillOf(c, s, p, maker, a, used, q)
      BY <1>0, <2>2, FillIs
    <3>3. maker.id \in Ids(Resting) /\ maker.id \in Calls
      <4>1. maker.id \in IdsIn(book[s][p]) /\ maker.id \in Calls
        BY <1>0, <3>2, FillLevel
      <4> QED  BY <3>2, <4>1, RestingIs DEF RestingKnown, FillOf
    <3>4. \A x \in Calls : x # maker.id => filled'[x] = filled[x]
      BY <1>0, <3>2 DEF FillOf, BookTyped
    <3>5. Ids(Resting') = Ids(Resting)'
      BY DEF Ids
    <3>6. Ids(Resting)' \subseteq Ids(Resting)
      BY <1>0, <2>2, MatchFillStep
    <3> QED  BY <1>1, <3>1, <3>3, <3>4, <3>5, <3>6 DEF FinalCancel, Booked, OwnOrder
  <2>3. CASE CancelBook(c)
    <3>1. filled' = filled
      BY <2>3 DEF CancelBook
    <3>2. Ids(Resting)' \subseteq Ids(Resting)
      BY <1>0, <2>3, CancelBookStep
    <3> QED  BY <1>3, <3>1, <3>2
  <2>4. CASE Add(c) \/ Match(c) \/ Cancel(c) \/ DepthBuy(c)
    <3>1. UNCHANGED <<book, filled>>
      BY <2>4 DEF Add, AddRejected, AddIndex, Match, MatchStart, Cancel, CancelIndex, DepthBuy
    <3> QED  BY <1>3, <3>1 DEF Ids, Resting, Queued
  <2>5. CASE MatchIndex(c) \/ MatchEnd(c) \/ MatchStats(c) \/ DepthSell(c)
    <3>1. UNCHANGED <<book, filled>>
      BY <2>5 DEF MatchIndex, MatchEnd, MatchStats, DepthSell
    <3> QED  BY <1>3, <3>1 DEF Ids, Resting, Queued
  <2> QED  BY <1>5, <2>1, <2>2, <2>3, <2>4, <2>5 DEF Continue
<1> QED  BY <1>4, <1>5 DEF Next

-----------------------------------------------------------------------------
(* The asks from the lowest price up: Priced counts the prices in order. *)
Below(p) == {q \in Prices : q < p}

LEMMA BelowIs ==
    ASSUME NEW p \in Prices
    PROVE  /\ IsFiniteSet(Below(p)) /\ Rank(p) = Cardinality(Below(p)) /\ Rank(p) \in Nat
           /\ Rank(p) < Cardinality(Prices) /\ Cardinality(Prices) \in Nat
<1>1. IsFiniteSet(Prices) /\ Below(p) \in SUBSET Prices /\ p \notin Below(p)
      /\ Rank(p) = Cardinality(Below(p))
  BY BookAssumption DEF Below, Rank
<1>2. /\ IsFiniteSet(Below(p)) /\ Cardinality(Below(p)) \in Nat /\ Cardinality(Prices) \in Nat
      /\ Cardinality(Below(p)) <= Cardinality(Prices)
      /\ Cardinality(Prices) = Cardinality(Below(p)) => Prices = Below(p)
  BY <1>1, FS_Subset, FS_CardinalityType
<1> QED  BY <1>1, <1>2

LEMMA PricesAreNat ==
    /\ Prices \subseteq Nat /\ IsFiniteSet(Prices) /\ Cardinality(Prices) \in Nat
    /\ \A p \in Prices : p \in Int
BY BookAssumption, FS_CardinalityType

LEMMA RankGrows ==
    ASSUME NEW p \in Prices, NEW q \in Prices, q < p
    PROVE  Rank(q) < Rank(p)
<1>1. /\ IsFiniteSet(Below(p)) /\ Rank(p) = Cardinality(Below(p)) /\ Rank(p) \in Nat
      /\ IsFiniteSet(Below(q)) /\ Rank(q) = Cardinality(Below(q)) /\ Rank(q) \in Nat
  BY BelowIs
<1>2. Below(q) \in SUBSET Below(p)
  <2> SUFFICES ASSUME NEW x \in Below(q) PROVE x \in Below(p)
    OBVIOUS
  <2>1. x \in Prices /\ x < q
    BY DEF Below
  <2>2. x \in Int /\ q \in Int /\ p \in Int
    BY <2>1, PricesAreNat
  <2>3. x < p
    BY <2>1, <2>2
  <2> QED  BY <2>1, <2>3 DEF Below
<1>3. q \in Below(p) /\ q \notin Below(q)
  <2>1. q \in Int
    BY PricesAreNat
  <2>2. ~(q < q)
    BY <2>1
  <2> QED  BY <2>2 DEF Below
<1>4. /\ Cardinality(Below(q)) <= Cardinality(Below(p))
      /\ Cardinality(Below(p)) = Cardinality(Below(q)) => Below(p) = Below(q)
  BY <1>1, <1>2, FS_Subset
<1> QED  BY <1>1, <1>3, <1>4

LEMMA RanksReached ==
    ASSUME NEW n \in Nat, n < Cardinality(Prices)
    PROVE  \E p \in Prices : Rank(p) = n
<1> DEFINE N == {i \in Nat : i < Cardinality(Prices) => \E p \in Prices : Rank(p) = i}
<1>1. \A V \in SUBSET Prices : IsFiniteSet(V) /\ V \in SUBSET Int
  <2> SUFFICES ASSUME NEW V \in SUBSET Prices PROVE IsFiniteSet(V) /\ V \in SUBSET Int
    OBVIOUS
  <2>1. IsFiniteSet(V)
    BY PricesAreNat, FS_Subset
  <2> QED  BY <2>1, PricesAreNat
<1>2. 0 \in N
  <2> SUFFICES ASSUME 0 < Cardinality(Prices) PROVE \E p \in Prices : Rank(p) = 0
    OBVIOUS
  <2>1. Prices # {} /\ Prices \in SUBSET Int
    BY PricesAreNat, FS_EmptySet
  <2>2. PICK p \in Prices : \A y \in Prices : p <= y
    BY PricesAreNat, <2>1, Extremes
  <2>3. Below(p) = {}
    <3> SUFFICES ASSUME NEW x \in Prices PROVE ~(x < p)
      BY DEF Below
    <3>1. p <= x /\ p \in Int /\ x \in Int
      BY <2>2, PricesAreNat
    <3> QED  BY <3>1
  <2>4. Rank(p) = 0
    BY <2>3, BelowIs, FS_EmptySet
  <2> QED  BY <2>4
<1>3. ASSUME NEW i \in N PROVE i + 1 \in N
  <2> SUFFICES ASSUME i + 1 < Cardinality(Prices) PROVE \E p \in Prices : Rank(p) = i + 1
    OBVIOUS
  <2>1. i \in Nat /\ i < Cardinality(Prices)
    BY PricesAreNat
  <2>2. PICK p \in Prices : Rank(p) = i
    BY <2>1
  <2> DEFINE V == {q \in Prices : p < q}
  <2>a. p \in Int
    BY PricesAreNat
  <2>3. /\ IsFiniteSet(Below(p)) /\ Cardinality(Below(p)) = i /\ p \notin Below(p)
    BY <2>a, <2>2, BelowIs DEF Below
  <2>4. Cardinality(Below(p) \cup {p}) = i + 1
    BY <2>3, FS_AddElement
  <2>5. V # {}
    <3> SUFFICES ASSUME V = {} PROVE FALSE
      OBVIOUS
    <3>1. \A x \in Prices : x \in Below(p) \cup {p}
      <4> SUFFICES ASSUME NEW x \in Prices PROVE x \in Below(p) \cup {p}
        OBVIOUS
      <4>1. ~(p < x)
        OBVIOUS
      <4>2. x \in Int
        BY PricesAreNat
      <4>3. x < p \/ x = p
        BY <2>a, <4>1, <4>2
      <4> QED  BY <4>3 DEF Below
    <3>2. Below(p) \cup {p} = Prices
      BY <3>1 DEF Below
    <3> QED  BY <2>1, <2>4, <3>2
  <2>6. PICK m \in V : \A y \in V : m <= y
    <3>1. V \in SUBSET Prices
      OBVIOUS
    <3> HIDE DEF V
    <3> QED  BY <1>1, <2>5, <3>1, Extremes
  <2>7. Below(m) = Below(p) \cup {p}
    <3>1. m \in Prices /\ m \in Int /\ p < m
      BY <2>6, PricesAreNat
    <3>2. ASSUME NEW x \in Prices PROVE x < m <=> x < p \/ x = p
      <4>1. x \in Int
        BY PricesAreNat
      <4>2. p < x => m <= x
        BY <2>6
      <4> QED  BY <2>a, <3>1, <4>1, <4>2
    <3> QED  BY <3>1, <3>2 DEF Below
  <2>8. m \in Prices /\ Rank(m) = i + 1
    BY <2>4, <2>7, BelowIs
  <2> QED  BY <2>8
<1>4. N = Nat
  <2>1. N \in SUBSET Nat
    OBVIOUS
  <2> HIDE DEF N
  <2> QED  BY <1>2, <1>3, <2>1, NatSteps
<1> QED  BY <1>4

LEMMA PricedIs ==
    ASSUME NEW i \in 1 .. Cardinality(Prices)
    PROVE  Priced(i) \in Prices /\ Rank(Priced(i)) = i - 1
<1>1. Cardinality(Prices) \in Nat
  BY BookAssumption, FS_CardinalityType
<1>2. \E p \in Prices : Rank(p) = i - 1
  BY <1>1, RanksReached
<1> QED  BY <1>2 DEF Priced

Joins(u, levels) ==
    u = [i \in 0 .. Cardinality(Prices) |-> IF i = 0 THEN <<>> ELSE u[i - 1] \o levels[Priced(i)]]

LEMMA JoinsExist ==
    ASSUME NEW levels \in [Prices -> Seq(Order)]
    PROVE  \E u \in [0 .. Cardinality(Prices) -> Seq(Order)] : Joins(u, levels)
<1> DEFINE N == Cardinality(Prices)
           F == [i \in 1 .. N |-> [x \in Seq(Order) |-> x \o levels[Priced(i)]]]
<1>1. N \in Nat /\ << >> \in Seq(Order)
  BY BookAssumption, FS_CardinalityType
<1>2. ASSUME NEW i \in 1 .. N, NEW x \in Seq(Order)
      PROVE  F[i][x] = x \o levels[Priced(i)] /\ F[i][x] \in Seq(Order)
  <2>1. F[i][x] = x \o levels[Priced(i)]
    OBVIOUS
  <2>2. levels[Priced(i)] \in Seq(Order)
    BY PricedIs
  <2> HIDE DEF F, N
  <2> QED  BY <2>1, <2>2, ConcatProperties
<1> HIDE DEF F, N
<1>3. PICK g \in [0 .. N -> Seq(Order)] : StepsTo(g, <<>>, F, N)
  BY <1>1, <1>2, StepsExist
<1>4. ASSUME NEW i \in 0 .. N
      PROVE  g[i] = IF i = 0 THEN <<>> ELSE g[i - 1] \o levels[Priced(i)]
  <2>1. CASE i = 0
    BY <1>3, <2>1 DEF StepsTo
  <2>2. CASE i # 0
    <3>1. i \in 1 .. N /\ i - 1 \in 0 .. N
      BY <1>1, <2>2
    <3>2. g[i] = F[i][g[i - 1]] /\ g[i - 1] \in Seq(Order)
      BY <1>3, <2>2, <3>1 DEF StepsTo
    <3> QED  BY <1>2, <2>2, <3>1, <3>2
  <2> QED  BY <2>1, <2>2
<1>5. Joins(g, levels)
  BY <1>4 DEF Joins, N
<1> QED  BY <1>5 DEF N

JoinOf(levels) == CHOOSE u : Joins(u, levels)

LEMMA JoinIs ==
    ASSUME NEW levels \in [Prices -> Seq(Order)]
    PROVE  /\ AskSeq(levels) = JoinOf(levels)[Cardinality(Prices)]
           /\ JoinOf(levels)[0] = <<>>
           /\ \A i \in 1 .. Cardinality(Prices) :
                 JoinOf(levels)[i] = JoinOf(levels)[i - 1] \o levels[Priced(i)]
<1>1. AskSeq(levels) = JoinOf(levels)[Cardinality(Prices)]
  BY DEF AskSeq, JoinOf, Joins
<1>2. Joins(JoinOf(levels), levels)
  BY JoinsExist DEF JoinOf
<1>3. Cardinality(Prices) \in Nat
  BY BookAssumption, FS_CardinalityType
<1>4. \A i \in 0 .. Cardinality(Prices) :
         JoinOf(levels)[i] = IF i = 0 THEN <<>> ELSE JoinOf(levels)[i - 1] \o levels[Priced(i)]
  BY <1>2, Zenon DEF Joins
<1>5. JoinOf(levels)[0] = <<>>
  BY <1>3, <1>4
<1>6. ASSUME NEW i \in 1 .. Cardinality(Prices)
      PROVE  JoinOf(levels)[i] = JoinOf(levels)[i - 1] \o levels[Priced(i)]
  <2>1. i \in 0 .. Cardinality(Prices) /\ i # 0
    BY <1>3
  <2> QED  BY <1>4, <2>1
<1> QED  BY <1>1, <1>5, <1>6

(* What a trade of a with the front order leaves of s. *)
Left(s, used, a) == IF used THEN Tail(s) ELSE FrontLess(s, a)
CanLose(s, a) == s \in Seq(Order) /\ s # <<>> /\ a \in Nat /\ a <= Head(s).amount

LEMMA LeftIs ==
    ASSUME NEW s, NEW a, CanLose(s, a), NEW used
    PROVE  /\ Left(s, used, a) \in Seq(Order)
           /\ Len(Left(s, used, a)) = IF used THEN Len(s) - 1 ELSE Len(s)
           /\ \A i \in 1 .. Len(Left(s, used, a)) :
                 Left(s, used, a)[i] = IF used THEN s[i + 1]
                                       ELSE IF i = 1 THEN [s[1] EXCEPT !.amount = @ - a] ELSE s[i]
<1>1. /\ s \in Seq(Order) /\ s # <<>> /\ a \in Nat /\ a <= s[1].amount /\ Len(s) \in Nat \ {0}
      /\ DOMAIN s = 1 .. Len(s) /\ 1 \in DOMAIN s /\ \A i \in DOMAIN s : s[i] \in Order
  BY FrontIs DEF CanLose
<1>2. CASE used
  <2>1. Left(s, used, a) = Tail(s)
    BY <1>2 DEF Left
  <2> QED  BY <1>1, <1>2, <2>1, HeadTailProperties
<1>3. CASE ~used
  <2>1. PICK m, less : m = s[1] /\ less = [m EXCEPT !.amount = @ - a]
    OBVIOUS
  <2>2. m \in Order /\ a <= m.amount /\ a \in Nat
    BY <1>1, <2>1
  <2>3. less \in Order
    BY <2>1, <2>2 DEF Order
  <2>4. Left(s, used, a) = [s EXCEPT ![1] = less]
    BY <1>3, <2>1 DEF Left, FrontLess
  <2>5. /\ [s EXCEPT ![1] = less] \in Seq(Order) /\ Len([s EXCEPT ![1] = less]) = Len(s)
        /\ \A i \in 1 .. Len(s) : [s EXCEPT ![1] = less][i] = IF i = 1 THEN less ELSE s[i]
    BY <1>1, <2>3, ExceptSeq
  <2> QED  BY <1>3, <2>1, <2>4, <2>5
<1> QED  BY <1>2, <1>3

LEMMA LeftConcat ==
    ASSUME NEW s, NEW a, CanLose(s, a), NEW used, NEW t \in Seq(Order)
    PROVE  /\ CanLose(s \o t, a) /\ Head(s \o t) = Head(s)
           /\ Left(s \o t, used, a) = Left(s, used, a) \o t
<1>1. s \in Seq(Order) /\ s # <<>> /\ a \in Nat /\ a <= Head(s).amount
  BY DEF CanLose
<1>2. /\ Len(s) \in Nat \ {0} /\ DOMAIN s = 1 .. Len(s) /\ Head(s) = s[1] /\ Len(t) \in Nat
  BY <1>1, FrontIs
<1>3. PICK st : st = s \o t
  OBVIOUS
<1>4. /\ st \in Seq(Order) /\ Len(st) = Len(s) + Len(t)
      /\ \A i \in 1 .. Len(s) + Len(t) : st[i] = IF i <= Len(s) THEN s[i] ELSE t[i - Len(s)]
  BY <1>1, <1>3, ConcatProperties
<1>5. st # <<>> /\ st[1] = s[1]
  <2>1. Len(st) # 0 /\ 1 \in 1 .. Len(s) + Len(t) /\ 1 <= Len(s)
    BY <1>2, <1>4
  <2> QED  BY <1>4, <2>1
<1>6. Head(st) = Head(s)
  BY <1>2, <1>4, <1>5, FrontIs
<1>7. CanLose(st, a)
  BY <1>1, <1>4, <1>5, <1>6 DEF CanLose
<1>8. Left(st, used, a) = Left(s, used, a) \o t
  <2>1. PICK x, y : x = Left(st, used, a) /\ y = Left(s, used, a)
    OBVIOUS
  <2>2. /\ x \in Seq(Order) /\ Len(x) = IF used THEN Len(st) - 1 ELSE Len(st)
        /\ \A i \in 1 .. Len(x) :
              x[i] = IF used THEN st[i + 1] ELSE IF i = 1 THEN [st[1] EXCEPT !.amount = @ - a] ELSE st[i]
    BY <1>7, <2>1, LeftIs
  <2>3. /\ y \in Seq(Order) /\ Len(y) = IF used THEN Len(s) - 1 ELSE Len(s)
        /\ \A i \in 1 .. Len(y) :
              y[i] = IF used THEN s[i + 1] ELSE IF i = 1 THEN [s[1] EXCEPT !.amount = @ - a] ELSE s[i]
    BY <2>1, LeftIs
  <2>4. /\ y \o t \in Seq(Order) /\ Len(y \o t) = Len(y) + Len(t)
        /\ \A i \in 1 .. Len(y) + Len(t) : (y \o t)[i] = IF i <= Len(y) THEN y[i] ELSE t[i - Len(y)]
    <3>1. y \in Seq(Order)
      BY <2>3
    <3> QED  BY <3>1, ConcatProperties
  <2>5. Len(x) = Len(y \o t) /\ Len(y) \in Nat /\ Len(x) = Len(y) + Len(t)
    <3>1. /\ Len(x) = IF used THEN Len(st) - 1 ELSE Len(st)
          /\ Len(y) = IF used THEN Len(s) - 1 ELSE Len(s)
          /\ Len(y \o t) = Len(y) + Len(t) /\ Len(st) = Len(s) + Len(t)
      BY <1>4, <2>2, <2>3, <2>4
    <3>2. PICK ls, lt : ls = Len(s) /\ lt = Len(t) /\ ls \in Nat \ {0} /\ lt \in Nat
      BY <1>2
    <3>3. CASE used
      <4>1. Len(y) = ls - 1 /\ Len(x) = (ls + lt) - 1
        BY <3>1, <3>2, <3>3
      <4> QED  BY <3>1, <3>2, <4>1
    <3>4. CASE ~used
      <4>1. Len(y) = ls /\ Len(x) = ls + lt
        BY <3>1, <3>2, <3>4
      <4> QED  BY <3>1, <3>2, <4>1
    <3> QED  BY <3>3, <3>4
  <2>6. ASSUME NEW i \in 1 .. Len(x) PROVE x[i] = (y \o t)[i]
    <3>1. i \in 1 .. Len(y) + Len(t)
      BY <2>5
    <3>2. CASE used
      <4>1. i + 1 \in 1 .. Len(s) + Len(t) /\ (i + 1) - Len(s) = i - Len(y)
        BY <1>2, <2>3, <3>1, <3>2
      <4>2. x[i] = st[i + 1] /\ st[i + 1] = IF i + 1 <= Len(s) THEN s[i + 1] ELSE t[(i + 1) - Len(s)]
        BY <1>4, <2>2, <3>2, <4>1
      <4>3. CASE i <= Len(y)
        <5>1. i \in 1 .. Len(y) /\ i + 1 <= Len(s)
          BY <1>2, <2>3, <3>1, <3>2, <4>3
        <5> QED  BY <2>3, <2>4, <3>1, <3>2, <4>2, <4>3, <5>1
      <4>4. CASE ~(i <= Len(y))
        <5>1. ~(i + 1 <= Len(s))
          BY <1>2, <2>3, <3>1, <3>2, <4>4
        <5> QED  BY <2>4, <3>1, <4>1, <4>2, <4>4, <5>1
      <4> QED  BY <4>3, <4>4
    <3>3. CASE ~used
      <4>1. Len(y) = Len(s) /\ i \in 1 .. Len(s) + Len(t)
        BY <2>3, <3>1, <3>3
      <4>2. CASE i <= Len(y)
        <5>1. i \in 1 .. Len(y)
          BY <1>2, <3>1, <4>1, <4>2
        <5>2. (y \o t)[i] = y[i]
          BY <2>4, <3>1, <4>2
        <5>3. x[i] = IF i = 1 THEN [st[1] EXCEPT !.amount = @ - a] ELSE st[i]
          BY <2>2, <3>3
        <5>4. y[i] = IF i = 1 THEN [s[1] EXCEPT !.amount = @ - a] ELSE s[i]
          BY <2>3, <3>3, <5>1
        <5>5. st[i] = s[i]
          BY <1>4, <4>1, <4>2
        <5> QED  BY <1>5, <5>2, <5>3, <5>4, <5>5
      <4>3. CASE ~(i <= Len(y))
        <5>1. i # 1
          BY <1>2, <3>1, <4>1, <4>3
        <5> QED  BY <1>4, <2>2, <2>4, <3>1, <3>3, <4>1, <4>3, <5>1
      <4> QED  BY <4>2, <4>3
    <3> QED  BY <3>2, <3>3
  <2> QED  BY <2>1, <2>2, <2>4, <2>5, <2>6, SeqEqual
<1> QED  BY <1>3, <1>6, <1>7, <1>8

(* A trade with the front order of the lowest price: new is what it leaves  *)
(* of the levels.                                                           *)
LowestTraded(levels, new, p, used, a) ==
    /\ levels \in [Prices -> Seq(Order)] /\ new \in [Prices -> Seq(Order)]
    /\ p \in Prices /\ CanLose(levels[p], a)
    /\ \A r \in Prices : r < p => levels[r] = <<>>
    /\ new[p] = Left(levels[p], used, a)
    /\ \A r \in Prices : r # p => new[r] = levels[r]

LEMMA PricedOf ==
    ASSUME NEW p \in Prices
    PROVE  /\ Rank(p) + 1 \in 1 .. Cardinality(Prices) /\ Priced(Rank(p) + 1) = p
           /\ \A i \in 1 .. Cardinality(Prices) :
                 /\ Priced(i) \in Prices
                 /\ i < Rank(p) + 1 => Priced(i) < p
                 /\ i # Rank(p) + 1 => Priced(i) # p
<1>1. PICK k, N : k = Rank(p) /\ N = Cardinality(Prices)
  OBVIOUS
<1>2. k \in Nat /\ k < N /\ N \in Nat /\ k + 1 \in 1 .. N
  BY <1>1, BelowIs
<1>3. ASSUME NEW i \in 1 .. N
      PROVE  /\ Priced(i) \in Prices /\ Rank(Priced(i)) = i - 1
             /\ Priced(i) < p <=> i < k + 1
             /\ Priced(i) = p <=> i = k + 1
  <2>1. PICK q, r : q = Priced(i) /\ r = Rank(q)
    OBVIOUS
  <2>2. q \in Prices /\ r = i - 1
    BY <1>1, <2>1, PricedIs
  <2>3. q \in Int /\ p \in Int
    BY <2>2, PricesAreNat
  <2>4. (q < p => r < k) /\ (p < q => k < r) /\ (q = p => r = k)
    <3>1. q < p => Rank(q) < Rank(p)
      BY <2>2, RankGrows
    <3>2. p < q => Rank(p) < Rank(q)
      BY <2>2, RankGrows
    <3> QED  BY <1>1, <2>1, <3>1, <3>2
  <2>5. (q < p <=> i < k + 1) /\ (q = p <=> i = k + 1)
    BY <1>2, <2>2, <2>3, <2>4
  <2> QED  BY <2>1, <2>2, <2>5
<1> QED  BY <1>1, <1>2, <1>3

LEMMA JoinsTyped ==
    ASSUME NEW levels \in [Prices -> Seq(Order)]
    PROVE  \A i \in 0 .. Cardinality(Prices) : JoinOf(levels)[i] \in Seq(Order)
<1> DEFINE J == JoinOf(levels)
           N == Cardinality(Prices)
           T == {n \in Nat : n <= N => J[n] \in Seq(Order)}
<1>1. N \in Nat
  BY PricesAreNat
<1>2. 0 \in T
  <2>1. J[0] = <<>> /\ << >> \in Seq(Order)
    BY JoinIs, EmptySeq
  <2> QED  BY <2>1
<1>3. ASSUME NEW n \in T PROVE n + 1 \in T
  <2> SUFFICES ASSUME n + 1 <= N PROVE J[n + 1] \in Seq(Order)
    OBVIOUS
  <2>1. n \in Nat /\ n + 1 \in 1 .. N /\ (n + 1) - 1 = n
    BY <1>1
  <2>2. J[n] \in Seq(Order)
    BY <1>1, <2>1
  <2>3. J[n + 1] = J[n] \o levels[Priced(n + 1)]
    BY <2>1, JoinIs
  <2>4. levels[Priced(n + 1)] \in Seq(Order)
    BY <2>1, PricedIs
  <2> QED  BY <2>2, <2>3, <2>4, ConcatProperties
<1>4. T = Nat
  <2>1. T \in SUBSET Nat
    OBVIOUS
  <2> HIDE DEF T
  <2> QED  BY <1>2, <1>3, <2>1, NatSteps
<1> QED  BY <1>1, <1>4

LEMMA FirstAsk ==
    ASSUME NEW levels, NEW new, NEW p, NEW used, NEW a, LowestTraded(levels, new, p, used, a)
    PROVE  /\ CanLose(AskSeq(levels), a) /\ Head(AskSeq(levels)) = Head(levels[p])
           /\ AskSeq(new) = Left(AskSeq(levels), used, a)
<1>1. /\ levels \in [Prices -> Seq(Order)] /\ new \in [Prices -> Seq(Order)]
      /\ p \in Prices /\ CanLose(levels[p], a)
      /\ \A r \in Prices : r < p => levels[r] = <<>>
      /\ new[p] = Left(levels[p], used, a)
      /\ \A r \in Prices : r # p => new[r] = levels[r]
  BY DEF LowestTraded
<1> DEFINE J == JoinOf(levels)
           K == JoinOf(new)
           N == Cardinality(Prices)
           k == Rank(p) + 1
           Before(n) == J[n] = <<>> /\ K[n] = <<>>
           After(n) == /\ CanLose(J[n], a) /\ Head(J[n]) = Head(levels[p])
                       /\ K[n] = Left(J[n], used, a)
           T == {n \in Nat : n <= N => IF n < k THEN Before(n) ELSE After(n)}
<1>2. N \in Nat /\ k \in 1 .. N /\ Rank(p) \in Nat
  BY <1>1, PricesAreNat, PricedOf, BelowIs
<1>3. J[0] = <<>> /\ K[0] = <<>>
  BY <1>1, JoinIs
<1>4. ASSUME NEW n \in Nat, n + 1 <= N
      PROVE  /\ J[n + 1] = J[n] \o levels[Priced(n + 1)] /\ K[n + 1] = K[n] \o new[Priced(n + 1)]
             /\ J[n] \in Seq(Order) /\ K[n] \in Seq(Order) /\ Priced(n + 1) \in Prices
             /\ n + 1 < k => Priced(n + 1) < p
             /\ n + 1 # k => Priced(n + 1) # p
             /\ n + 1 = k => Priced(n + 1) = p
  <2>1. n + 1 \in 1 .. N /\ (n + 1) - 1 = n /\ n \in 0 .. N
    BY <1>2, <1>4
  <2>2. J[n + 1] = J[n] \o levels[Priced(n + 1)] /\ K[n + 1] = K[n] \o new[Priced(n + 1)]
    <3>1. J[n + 1] = J[(n + 1) - 1] \o levels[Priced(n + 1)]
      BY <1>1, <2>1, JoinIs
    <3>2. K[n + 1] = K[(n + 1) - 1] \o new[Priced(n + 1)]
      BY <1>1, <2>1, JoinIs
    <3> QED  BY <2>1, <3>1, <3>2
  <2>3. J[n] \in Seq(Order) /\ K[n] \in Seq(Order)
    BY <1>1, <2>1, JoinsTyped
  <2> QED  BY <1>1, <2>1, <2>2, <2>3, PricedOf
<1> HIDE DEF J, K, N, k
<1>5. 0 \in T
  BY <1>2, <1>3
<1>6. ASSUME NEW n \in T PROVE n + 1 \in T
  <2> SUFFICES ASSUME n + 1 <= N PROVE IF n + 1 < k THEN Before(n + 1) ELSE After(n + 1)
    OBVIOUS
  <2>1. n \in Nat /\ n <= N
    BY <1>2
  <2>2. PICK r : r = Priced(n + 1)
    OBVIOUS
  <2>3. /\ J[n + 1] = J[n] \o levels[r] /\ K[n + 1] = K[n] \o new[r]
        /\ J[n] \in Seq(Order) /\ K[n] \in Seq(Order) /\ r \in Prices
        /\ n + 1 < k => r < p
        /\ n + 1 # k => r # p
        /\ n + 1 = k => r = p
    BY <1>4, <2>1, <2>2
  <2>4. levels[r] \in Seq(Order) /\ new[r] \in Seq(Order)
    BY <1>1, <2>3
  <2>5. CASE n + 1 < k
    <3>1. Before(n)
      BY <1>2, <2>1, <2>5
    <3>2. r # p /\ levels[r] = <<>> /\ new[r] = <<>>
      BY <1>1, <1>2, <2>1, <2>3, <2>5
    <3>3. << >> \o << >> = << >>
      BY <2>3, <3>1, ConcatEmptySeq
    <3> QED  BY <2>3, <2>5, <3>1, <3>2, <3>3
  <2>6. CASE n + 1 = k
    <3>1. Before(n) /\ ~(n + 1 < k)
      BY <1>2, <2>1, <2>6
    <3>2. J[n + 1] = levels[p] /\ K[n + 1] = new[p]
      BY <2>3, <2>4, <2>6, <3>1, ConcatEmptySeq
    <3> QED  BY <1>1, <3>1, <3>2
  <2>7. CASE n + 1 > k
    <3>1. After(n) /\ ~(n + 1 < k)
      BY <1>2, <2>1, <2>7
    <3>2. r # p /\ new[r] = levels[r]
      BY <1>1, <1>2, <2>1, <2>3, <2>7
    <3>3. PICK j, t : j = J[n] /\ t = levels[r]
      OBVIOUS
    <3>4. CanLose(j, a) /\ t \in Seq(Order)
      BY <2>4, <3>1, <3>3
    <3>5. /\ CanLose(j \o t, a) /\ Head(j \o t) = Head(j)
          /\ Left(j \o t, used, a) = Left(j, used, a) \o t
      BY <3>4, LeftConcat
    <3> QED  BY <2>3, <3>1, <3>2, <3>3, <3>5
  <2> QED  BY <1>2, <2>1, <2>5, <2>6, <2>7
<1>7. T = Nat
  <2>1. T \in SUBSET Nat
    OBVIOUS
  <2> HIDE DEF T
  <2> QED  BY <1>5, <1>6, <2>1, NatSteps
<1>8. After(N)
  BY <1>2, <1>7
<1>9. AskSeq(levels) = J[N] /\ AskSeq(new) = K[N]
  BY <1>1, JoinIs DEF J, K, N
<1> QED  BY <1>8, <1>9

-----------------------------------------------------------------------------
(* What a quote walks through.                                             *)
Walked == [left : Nat, cost : Nat]
Walks(u, asks, amount) ==
    u = [i \in 0 .. Len(asks) |->
            IF i = 0 THEN [left |-> amount, cost |-> 0] ELSE Take(u[i - 1], asks[i])]

LEMMA TakeIs ==
    ASSUME NEW w \in Walked, NEW ask \in Order
    PROVE  /\ Take(w, ask) \in Walked
           /\ w.left <= ask.amount => Take(w, ask) = [left |-> 0, cost |-> w.cost + w.left * ask.price]
           /\ ask.amount <= w.left =>
                 Take(w, ask) = [left |-> w.left - ask.amount, cost |-> w.cost + ask.amount * ask.price]
<1>1. PICK x, y, a, p : /\ x = w.left /\ y = w.cost /\ a = ask.amount /\ p = ask.price
                        /\ x \in Nat /\ y \in Nat /\ a \in Nat /\ p \in Nat
  BY BookAssumption DEF Walked, Order
<1>2. PICK m : m = Min({x, a})
  OBVIOUS
<1>3. m \in {x, a} /\ m <= x /\ m <= a
  <2>1. \E z \in {x, a} : \A v \in {x, a} : z <= v
    BY <1>1
  <2>2. m \in {x, a} /\ \A v \in {x, a} : m <= v
    BY <1>2, <2>1 DEF Min
  <2> QED  BY <2>2
<1>4. Take(w, ask) = [left |-> x - m, cost |-> y + m * p]
  BY <1>1, <1>2 DEF Take
<1>5. m \in Nat /\ x - m \in Nat /\ (x <= a => m = x) /\ (a <= x => m = a) /\ x - x = 0
  BY <1>1, <1>3
<1>6. m * p \in Nat
  BY <1>1, <1>5
<1>7. y + m * p \in Nat
  BY <1>1, <1>6
<1> QED  BY <1>1, <1>4, <1>5, <1>7 DEF Walked

LEMMA WalksExist ==
    ASSUME NEW asks \in Seq(Order), NEW amount \in Nat
    PROVE  \E u \in [0 .. Len(asks) -> Walked] : Walks(u, asks, amount)
<1> DEFINE F == [i \in 1 .. Len(asks) |-> [w \in Walked |-> Take(w, asks[i])]]
           b == [left |-> amount, cost |-> 0]
<1>1. Len(asks) \in Nat /\ b \in Walked /\ \A i \in 1 .. Len(asks) : asks[i] \in Order
  BY DEF Walked
<1>2. ASSUME NEW i \in 1 .. Len(asks), NEW w \in Walked
      PROVE  F[i][w] = Take(w, asks[i]) /\ F[i][w] \in Walked
  BY <1>1, TakeIs
<1> HIDE DEF F, b
<1>3. PICK u \in [0 .. Len(asks) -> Walked] : StepsTo(u, b, F, Len(asks))
  BY <1>1, <1>2, StepsExist
<1>4. ASSUME NEW i \in 0 .. Len(asks)
      PROVE  u[i] = IF i = 0 THEN b ELSE Take(u[i - 1], asks[i])
  <2>1. CASE i = 0
    BY <1>3, <2>1 DEF StepsTo
  <2>2. CASE i # 0
    <3>1. i \in 1 .. Len(asks) /\ i - 1 \in 0 .. Len(asks)
      BY <1>1, <2>2
    <3>2. u[i] = F[i][u[i - 1]] /\ u[i - 1] \in Walked
      BY <1>3, <2>2, <3>1 DEF StepsTo
    <3> QED  BY <1>2, <2>2, <3>1, <3>2
  <2> QED  BY <2>1, <2>2
<1>5. Walks(u, asks, amount)
  BY <1>4 DEF Walks, b
<1> QED  BY <1>5

WalkOf(asks, amount) == CHOOSE u : Walks(u, asks, amount)
End(asks, amount) == WalkOf(asks, amount)[Len(asks)]

LEMMA WalkIs ==
    ASSUME NEW asks \in Seq(Order), NEW amount \in Nat
    PROVE  /\ CostOf(asks, amount)
                = IF End(asks, amount).left > 0 THEN -1 ELSE End(asks, amount).cost
           /\ WalkOf(asks, amount)[0] = [left |-> amount, cost |-> 0]
           /\ \A i \in 0 .. Len(asks) : WalkOf(asks, amount)[i] \in Walked
           /\ \A i \in 1 .. Len(asks) :
                 WalkOf(asks, amount)[i] = Take(WalkOf(asks, amount)[i - 1], asks[i])
<1>1. CostOf(asks, amount) = IF End(asks, amount).left > 0 THEN -1 ELSE End(asks, amount).cost
  BY DEF CostOf, WalkOf, Walks, End
<1>2. Walks(WalkOf(asks, amount), asks, amount)
  BY WalksExist DEF WalkOf
<1>3. Len(asks) \in Nat
  OBVIOUS
<1> DEFINE u == WalkOf(asks, amount)
<1>4. \A i \in 0 .. Len(asks) :
         u[i] = IF i = 0 THEN [left |-> amount, cost |-> 0] ELSE Take(u[i - 1], asks[i])
  BY <1>2, Zenon DEF Walks
<1> HIDE DEF u
<1>5. u[0] = [left |-> amount, cost |-> 0]
  BY <1>3, <1>4
<1>6. \A i \in 1 .. Len(asks) : u[i] = Take(u[i - 1], asks[i])
  <2> SUFFICES ASSUME NEW i \in 1 .. Len(asks) PROVE u[i] = Take(u[i - 1], asks[i])
    OBVIOUS
  <2>1. i \in 0 .. Len(asks) /\ i # 0
    BY <1>3
  <2> QED  BY <1>4, <2>1
<1>7. \A i \in 0 .. Len(asks) : u[i] \in Walked
  <2> DEFINE T == {n \in Nat : n <= Len(asks) => u[n] \in Walked}
  <2>1. 0 \in T
    BY <1>5 DEF Walked
  <2>2. ASSUME NEW n \in T PROVE n + 1 \in T
    <3> SUFFICES ASSUME n + 1 <= Len(asks) PROVE u[n + 1] \in Walked
      OBVIOUS
    <3>1. n \in Nat /\ n + 1 \in 1 .. Len(asks) /\ (n + 1) - 1 = n /\ u[n] \in Walked
      BY <1>3
    <3>2. asks[n + 1] \in Order /\ u[n + 1] = Take(u[n], asks[n + 1])
      BY <1>6, <3>1
    <3> QED  BY <3>1, <3>2, TakeIs
  <2>3. T = Nat
    <3>1. T \in SUBSET Nat
      OBVIOUS
    <3> HIDE DEF T
    <3> QED  BY <2>1, <2>2, <3>1, NatSteps
  <2> QED  BY <1>3, <2>3
<1> QED  BY <1>1, <1>5, <1>6, <1>7 DEF u

(* Once nothing is left to buy the cost stays. *)
LEMMA NothingLeft ==
    ASSUME NEW asks \in Seq(Order), NEW amount \in Nat, NEW j \in 0 .. Len(asks),
           WalkOf(asks, amount)[j].left = 0
    PROVE  CostOf(asks, amount) = WalkOf(asks, amount)[j].cost
<1> DEFINE u == WalkOf(asks, amount)
           T == {n \in Nat : j + n <= Len(asks) => u[j + n] = u[j]}
<1>1. Len(asks) \in Nat /\ j \in Nat /\ j <= Len(asks) /\ j + 0 = j
  OBVIOUS
<1>2. /\ \A i \in 0 .. Len(asks) : u[i] \in Walked
      /\ \A i \in 1 .. Len(asks) : u[i] = Take(u[i - 1], asks[i])
  BY WalkIs
<1>3. u[j] \in Walked /\ u[j].left = 0
  BY <1>2
<1>4. CostOf(asks, amount) = IF u[Len(asks)].left > 0 THEN -1 ELSE u[Len(asks)].cost
  BY WalkIs DEF End
<1> HIDE DEF u
<1>5. 0 \in T
  BY <1>1
<1>6. ASSUME NEW n \in T PROVE n + 1 \in T
  <2> SUFFICES ASSUME j + (n + 1) <= Len(asks) PROVE u[j + (n + 1)] = u[j]
    OBVIOUS
  <2>1. n \in Nat /\ j + (n + 1) \in 1 .. Len(asks) /\ (j + (n + 1)) - 1 = j + n /\ j + n <= Len(asks)
    BY <1>1
  <2>2. u[j + n] = u[j]
    BY <2>1
  <2>3. PICK i, w, ask : i = j + (n + 1) /\ w = u[j] /\ ask = asks[i]
    OBVIOUS
  <2>4. ask \in Order /\ u[i] = Take(w, ask)
    BY <1>2, <2>1, <2>2, <2>3
  <2>5. w \in Walked /\ w.left = 0 /\ ask.amount \in Nat /\ ask.price \in Nat
    BY <1>3, <2>3, <2>4, BookAssumption DEF Order
  <2>6. Take(w, ask) = [left |-> 0, cost |-> w.cost + w.left * ask.price]
    BY <2>4, <2>5, TakeIs
  <2>7. w.cost + w.left * ask.price = w.cost
    BY <2>5 DEF Walked
  <2>8. w = [left |-> 0, cost |-> w.cost]
    BY <2>5 DEF Walked
  <2> QED  BY <2>3, <2>4, <2>6, <2>7, <2>8
<1>7. T = Nat
  <2>1. T \in SUBSET Nat
    OBVIOUS
  <2> HIDE DEF T
  <2> QED  BY <1>5, <1>6, <2>1, NatSteps
<1>8. PICK d \in Nat : Len(asks) = j + d
  <2>1. Len(asks) - j \in Nat /\ Len(asks) = j + (Len(asks) - j)
    BY <1>1
  <2> QED  BY <2>1
<1>9. d \in T
  BY <1>7
<1>10. u[Len(asks)] = u[j]
  <2>1. j + d <= Len(asks)
    BY <1>1, <1>8
  <2> QED  BY <1>8, <1>9, <2>1
<1> QED  BY <1>3, <1>4, <1>10 DEF u

(* A trade of a for p each leaves that much less to pay. *)
LEMMA TradedLessOwed ==
    ASSUME NEW asks, NEW a, CanLose(asks, a), NEW amount \in Nat, a <= amount,
           NEW used \in BOOLEAN, used = (a = Head(asks).amount), used \/ a = amount,
           CostOf(asks, amount) # -1
    PROVE  /\ CostOf(asks, amount) \in Nat
           /\ CostOf(Left(asks, used, a), amount - a) = CostOf(asks, amount) - a * Head(asks).price
<1>1. PICK m, rest, n, left : /\ m = Head(asks) /\ rest = Left(asks, used, a) /\ n = Len(rest)
                              /\ left = amount - a
  OBVIOUS
<1>2. /\ asks \in Seq(Order) /\ asks # <<>> /\ a \in Nat /\ a <= m.amount
      /\ Len(asks) \in Nat \ {0} /\ asks[1] = m /\ m \in Order
  BY <1>1, FrontIs DEF CanLose
<1>3. /\ m.amount \in Nat /\ m.price \in Nat /\ left \in Nat
  <2>1. m.amount \in Nat /\ m.price \in Prices
    BY <1>2 DEF Order
  <2>2. left \in Nat
    BY <1>1, <1>2
  <2> QED  BY <2>1, <2>2, PricesAreNat
<1>4. /\ rest \in Seq(Order) /\ n = (IF used THEN Len(asks) - 1 ELSE Len(asks)) /\ n \in Nat
      /\ used => \A i \in 1 .. n : rest[i] = asks[i + 1]
  <2>1. /\ rest \in Seq(Order) /\ Len(rest) = (IF used THEN Len(asks) - 1 ELSE Len(asks))
        /\ \A i \in 1 .. Len(rest) :
              rest[i] = IF used THEN asks[i + 1]
                        ELSE IF i = 1 THEN [asks[1] EXCEPT !.amount = @ - a] ELSE asks[i]
    BY <1>1, LeftIs
  <2>2. Len(rest) \in Nat
    BY <2>1
  <2> QED  BY <1>1, <2>1, <2>2
<1> DEFINE u == WalkOf(asks, amount)
           v == WalkOf(rest, left)
           paid == a * m.price
<1>5. /\ u[0] = [left |-> amount, cost |-> 0]
      /\ \A i \in 0 .. Len(asks) : u[i] \in Walked
      /\ \A i \in 1 .. Len(asks) : u[i] = Take(u[i - 1], asks[i])
      /\ CostOf(asks, amount) = IF u[Len(asks)].left > 0 THEN -1 ELSE u[Len(asks)].cost
  BY <1>2, WalkIs DEF End
<1>6. /\ v[0] = [left |-> left, cost |-> 0]
      /\ \A i \in 0 .. n : v[i] \in Walked
      /\ \A i \in 1 .. n : v[i] = Take(v[i - 1], rest[i])
      /\ CostOf(rest, left) = IF v[n].left > 0 THEN -1 ELSE v[n].cost
  <2>1. rest \in Seq(Order) /\ left \in Nat /\ n = Len(rest)
    BY <1>1, <1>3, <1>4
  <2>2. /\ v[0] = [left |-> left, cost |-> 0]
        /\ \A i \in 0 .. Len(rest) : v[i] \in Walked
        /\ \A i \in 1 .. Len(rest) : v[i] = Take(v[i - 1], rest[i])
        /\ CostOf(rest, left) = IF v[Len(rest)].left > 0 THEN -1 ELSE v[Len(rest)].cost
    BY <2>1, WalkIs DEF End
  <2> QED  BY <2>1, <2>2
<1>7. CostOf(asks, amount) \in Nat /\ u[Len(asks)] \in Walked
  BY <1>2, <1>5 DEF Walked
<1>8. paid \in Nat
  BY <1>2, <1>3
<1> HIDE DEF u, v, paid
<1>9. u[1] = [left |-> left, cost |-> paid]
  <2>1. 1 \in 1 .. Len(asks) /\ 1 - 1 = 0
    BY <1>2
  <2>2. u[1] = Take(u[0], m) /\ u[0] \in Walked /\ u[0].left = amount /\ u[0].cost = 0
    BY <1>2, <1>5, <2>1 DEF Walked
  <2>3. CASE used
    <3>1. a = m.amount /\ m.amount <= u[0].left
      BY <1>1, <2>2, <2>3
    <3>2. u[1] = [left |-> amount - a, cost |-> 0 + a * m.price]
      BY <1>2, <2>2, <3>1, TakeIs
    <3> QED  BY <1>1, <1>8, <3>2 DEF paid
  <2>4. CASE ~used
    <3>1. a = amount /\ u[0].left <= m.amount
      BY <1>2, <2>2, <2>4
    <3>2. u[1] = [left |-> 0, cost |-> 0 + a * m.price]
      BY <1>2, <2>2, <3>1, TakeIs
    <3>3. left = 0
      BY <1>1, <3>1
    <3> QED  BY <1>8, <3>2, <3>3 DEF paid
  <2> QED  BY <2>3, <2>4
<1>10. CASE used
  <2> DEFINE T == {i \in Nat : i <= n => u[i + 1] = [left |-> v[i].left, cost |-> v[i].cost + paid]}
  <2>1. 0 \in T
    BY <1>6, <1>8, <1>9
  <2>2. ASSUME NEW i \in T PROVE i + 1 \in T
    <3> SUFFICES ASSUME i + 1 <= n
                 PROVE  u[(i + 1) + 1] = [left |-> v[i + 1].left, cost |-> v[i + 1].cost + paid]
      OBVIOUS
    <3>1. i \in Nat /\ i <= n /\ i + 1 \in 1 .. n /\ (i + 1) - 1 = i /\ i \in 0 .. n
          /\ i + 2 \in 1 .. Len(asks) /\ (i + 2) - 1 = i + 1 /\ (i + 1) + 1 = i + 2
          /\ i + 1 \in 0 .. Len(asks)
      BY <1>2, <1>4, <1>10
    <3>2. PICK w, x, ask : w = v[i] /\ x = u[i + 1] /\ ask = rest[i + 1]
      OBVIOUS
    <3>3. ask = asks[i + 2] /\ ask \in Order
      BY <1>2, <1>4, <1>10, <3>1, <3>2
    <3>4. w \in Walked /\ x \in Walked /\ v[i + 1] = Take(w, ask) /\ u[i + 2] = Take(x, ask)
      BY <1>5, <1>6, <3>1, <3>2, <3>3
    <3>5. x.left = w.left /\ x.cost = w.cost + paid
      BY <3>1, <3>2
    <3>6. /\ w.left \in Nat /\ w.cost \in Nat /\ ask.amount \in Nat /\ ask.price \in Nat
      BY <3>3, <3>4, BookAssumption DEF Walked, Order
    <3>7. CASE w.left <= ask.amount
      <4>1. /\ Take(w, ask) = [left |-> 0, cost |-> w.cost + w.left * ask.price]
            /\ Take(x, ask) = [left |-> 0, cost |-> (w.cost + paid) + w.left * ask.price]
        BY <3>3, <3>4, <3>5, <3>7, TakeIs
      <4>2. PICK b : b = w.left * ask.price /\ b \in Nat
        BY <3>6
      <4>3. (w.cost + paid) + b = (w.cost + b) + paid
        BY <1>8, <3>6, <4>2
      <4> QED  BY <3>1, <3>4, <4>1, <4>2, <4>3
    <3>8. CASE ask.amount <= w.left
      <4>1. /\ Take(w, ask) = [left |-> w.left - ask.amount, cost |-> w.cost + ask.amount * ask.price]
            /\ Take(x, ask) = [left |-> w.left - ask.amount,
                               cost |-> (w.cost + paid) + ask.amount * ask.price]
        BY <3>3, <3>4, <3>5, <3>8, TakeIs
      <4>2. PICK b : b = ask.amount * ask.price /\ b \in Nat
        BY <3>6
      <4>3. (w.cost + paid) + b = (w.cost + b) + paid
        BY <1>8, <3>6, <4>2
      <4> QED  BY <3>1, <3>4, <4>1, <4>2, <4>3
    <3> QED  BY <3>6, <3>7, <3>8
  <2>3. T = Nat
    <3>1. T \in SUBSET Nat
      OBVIOUS
    <3> HIDE DEF T
    <3> QED  BY <2>1, <2>2, <3>1, NatSteps
  <2>4. n + 1 = Len(asks) /\ n <= n
    BY <1>2, <1>4, <1>10
  <2>5. u[Len(asks)] = [left |-> v[n].left, cost |-> v[n].cost + paid]
    <3>1. n \in T
      BY <1>4, <2>3
    <3> QED  BY <2>4, <3>1
  <2>6. v[n] \in Walked
    BY <1>4, <1>6
  <2>7. ~(v[n].left > 0) /\ CostOf(asks, amount) = v[n].cost + paid
    BY <1>5, <2>5
  <2>8. CostOf(rest, left) = CostOf(asks, amount) - paid
    BY <1>6, <1>8, <2>6, <2>7 DEF Walked
  <2> QED  BY <1>1, <1>7, <2>8 DEF paid
<1>11. CASE ~used
  <2>1. left = 0 /\ 1 \in 0 .. Len(asks) /\ 0 \in 0 .. n
    BY <1>1, <1>2, <1>4, <1>11
  <2>2. CostOf(asks, amount) = paid
    <3>1. u[1].left = 0 /\ u[1].cost = paid
      BY <1>9, <2>1
    <3> QED  BY <1>2, <2>1, <3>1, NothingLeft DEF u
  <2>3. CostOf(rest, left) = 0
    <3>1. v[0].left = 0 /\ v[0].cost = 0
      BY <1>6, <2>1
    <3> QED  BY <1>1, <1>3, <1>4, <2>1, <3>1, NothingLeft DEF v
  <2>4. CostOf(rest, left) = CostOf(asks, amount) - paid
    BY <1>8, <2>2, <2>3
  <2> QED  BY <1>1, <1>7, <2>4 DEF paid
<1> QED  BY <1>10, <1>11

-----------------------------------------------------------------------------
(* What a match has paid. *)
PriceAt(ts) == [i \in DOMAIN ts |-> ts[i].amount * ts[i].price]

LEMMA OneMorePaid ==
    ASSUME NEW ts \in Seq(Trade), NEW tr \in Trade
    PROVE  /\ PaidFor(ts) \in Int /\ tr.amount * tr.price \in Int
           /\ PaidFor(Append(ts, tr)) = PaidFor(ts) + tr.amount * tr.price
<1>1. PICK n, all : n = Len(ts) /\ all = Append(ts, tr)
  OBVIOUS
<1>2. /\ all \in Seq(Trade) /\ Len(all) = n + 1 /\ n \in Nat /\ all[n + 1] = tr
      /\ \A i \in 1 .. n : all[i] = ts[i]
  BY <1>1, AppendProperties
<1>3. DOMAIN all = 1 .. (n + 1) /\ DOMAIN ts = 1 .. n
  BY <1>1, <1>2
<1>4. PaidFor(all) = SumFunctionOnSet(PriceAt(all), 1 .. (n + 1))
  BY <1>3 DEF PaidFor, PriceAt
<1>5. PaidFor(ts) = SumFunctionOnSet(PriceAt(ts), 1 .. n)
  BY <1>3 DEF PaidFor, PriceAt
<1>6. ASSUME NEW i \in 1 .. (n + 1) PROVE PriceAt(all)[i] \in Int
  <2>1. all[i].amount \in Nat /\ all[i].price \in Nat
    BY <1>2, <1>3, <1>6, Traded
  <2>2. PriceAt(all)[i] = all[i].amount * all[i].price
    BY <1>3 DEF PriceAt
  <2>3. PICK x, y : x = all[i].amount /\ y = all[i].price
    OBVIOUS
  <2>4. x * y \in Int
    BY <2>1, <2>3
  <2> QED  BY <2>2, <2>3, <2>4
<1>7. \A i \in 1 .. n : PriceAt(ts)[i] = PriceAt(all)[i]
  <2> SUFFICES ASSUME NEW i \in 1 .. n PROVE PriceAt(ts)[i] = PriceAt(all)[i]
    OBVIOUS
  <2>1. i \in 1 .. (n + 1) /\ all[i] = ts[i]
    BY <1>2
  <2> QED  BY <1>3, <2>1 DEF PriceAt
<1>8. /\ SumFunctionOnSet(PriceAt(all), 1 .. (n + 1))
            = PriceAt(all)[n + 1] + SumFunctionOnSet(PriceAt(ts), 1 .. n)
      /\ SumFunctionOnSet(PriceAt(ts), 1 .. n) \in Int
  BY <1>2, <1>6, <1>7, SumOneMore
<1>9. n + 1 \in 1 .. (n + 1)
  BY <1>2
<1>10. PICK z : z = tr.amount * tr.price
  OBVIOUS
<1>11. PriceAt(all)[n + 1] = z /\ z \in Int
  <2>1. PriceAt(all)[n + 1] = z
    BY <1>2, <1>3, <1>9, <1>10 DEF PriceAt
  <2> QED  BY <1>6, <1>9, <2>1
<1>12. PaidFor(all) = PaidFor(ts) + z /\ PaidFor(ts) \in Int
  BY <1>4, <1>5, <1>8, <1>11
<1> QED  BY <1>1, <1>10, <1>11, <1>12

QuoteHeld ==
    \A c \in Calls :
        /\ pc[c] = "match" /\ order[c].side = "Buy" /\ order[c].type = "Market"
        /\ Len(trades'[c]) > Len(trades[c])
        /\ MarketBuyCost(remaining[c]) # -1
        => Paid(c)' + MarketBuyCost(remaining[c])'
              = Paid(c) + MarketBuyCost(remaining[c])

(* A fill pays what the quote for the rest goes down by. *)
LEMMA FillIsPaid ==
    ASSUME ShapeInv, NEW c \in Calls, MatchFill(c), order[c].side = "Buy",
           MarketBuyCost(remaining[c]) # -1
    PROVE  Paid(c)' + MarketBuyCost(remaining[c])' = Paid(c) + MarketBuyCost(remaining[c])
<1>1. PICK s, p, maker, a, used, q : FillOf(c, s, p, maker, a, used, q) /\ p = BestPrice(s)
  BY FillIs
<1>2. BookTyped /\ LevelsOwn
  BY DEF ShapeInv
<1>3. /\ s = "Sell" /\ s \in Sides /\ p \in Prices
      /\ book[s][p] # <<>> /\ maker = Head(book[s][p])
      /\ a \in Nat /\ a <= maker.amount /\ a <= remaining[c] /\ used = (a = maker.amount)
      /\ used \/ a = remaining[c]
      /\ q = Left(book[s][p], used, a)
      /\ book' = [book EXCEPT ![s][p] = q]
      /\ trades' = [trades EXCEPT ![c] = Append(@, [maker |-> maker.id, amount |-> a, price |-> p])]
      /\ remaining' = [remaining EXCEPT ![c] = @ - a]
  BY <1>1 DEF FillOf, Opposite, Left
<1>4. maker.id \in Calls /\ maker.price = p /\ q \in Seq(Order)
  <2>1. maker.id \in Calls /\ EntryOK(maker, s, p) /\ q \in Seq(Order)
    BY <1>1, FillLevel
  <2> QED  BY <2>1 DEF EntryOK
<1>5. PICK levels, new, r : levels = book["Sell"] /\ new = book'["Sell"] /\ r = remaining[c]
  OBVIOUS
<1>6. LowestTraded(levels, new, p, used, a)
  <2>1. levels \in [Prices -> Seq(Order)]
    BY <1>2, <1>3, <1>5 DEF BookTyped, Sides
  <2>2. /\ book'[s][p] = q /\ book' \in [Sides -> [Prices -> Seq(Order)]]
        /\ \A v \in Prices : v # p => book'[s][v] = book[s][v]
    <3>1. s \in Sides /\ p \in Prices /\ book' = [book EXCEPT ![s][p] = q] /\ q \in Seq(Order)
      BY <1>3, <1>4
    <3>2. /\ book'[s][p] = q
          /\ \A y \in Sides, x \in Prices : ~(y = s /\ x = p) => book'[y][x] = book[y][x]
          /\ q \in Seq(Order) => book' \in [Sides -> [Prices -> Seq(Order)]]
      <4>1. book \in [Sides -> [Prices -> Seq(Order)]]
        BY <1>2 DEF BookTyped
      <4> QED  BY <3>1, <4>1
    <3> QED  BY <3>1, <3>2
  <2>3. new \in [Prices -> Seq(Order)]
    BY <1>3, <1>5, <2>2
  <2>4. CanLose(levels[p], a)
    BY <1>3, <1>5, <2>1 DEF CanLose
  <2>5. \A v \in Prices : v < p => levels[v] = <<>>
    <3> SUFFICES ASSUME NEW v \in Prices, v < p, levels[v] # <<>> PROVE FALSE
      OBVIOUS
    <3>1. ~Better(s, v, BestPrice(s))
      BY <1>2, <1>3, <1>5, BestIsBest
    <3> QED  BY <1>1, <1>3, <3>1 DEF Better
  <2> QED  BY <1>3, <1>5, <2>1, <2>2, <2>3, <2>4, <2>5 DEF LowestTraded
<1>7. PICK asks : asks = AskSeq(levels)
  OBVIOUS
<1>8. CanLose(asks, a) /\ Head(asks) = maker /\ AskSeq(new) = Left(asks, used, a)
  BY <1>3, <1>5, <1>6, <1>7, FirstAsk
<1>9. r \in Nat /\ used \in BOOLEAN /\ a <= r /\ used = (a = Head(asks).amount) /\ (used \/ a = r)
  BY <1>2, <1>3, <1>5, <1>8 DEF BookTyped
<1>10. MarketBuyCost(remaining[c]) = CostOf(asks, r)
  BY <1>5, <1>7 DEF MarketBuyCost
<1>11. MarketBuyCost(remaining[c])' = CostOf(AskSeq(new), r - a)
  <2>1. remaining'[c] = r - a
    BY <1>2, <1>3, <1>5 DEF BookTyped
  <2> QED  BY <1>5, <2>1 DEF MarketBuyCost
<1>12. PICK z : z = a * p
  OBVIOUS
<1>13. CostOf(asks, r) \in Nat /\ CostOf(AskSeq(new), r - a) = CostOf(asks, r) - z
  <2>1. CostOf(asks, r) # -1
    BY <1>10
  <2>2. /\ CostOf(asks, r) \in Nat
        /\ CostOf(Left(asks, used, a), r - a) = CostOf(asks, r) - a * Head(asks).price
    BY <1>8, <1>9, <2>1, TradedLessOwed
  <2> QED  BY <1>4, <1>8, <1>12, <2>2
<1>14. PICK ts, tr : ts = trades[c] /\ tr = [maker |-> maker.id, amount |-> a, price |-> p]
  OBVIOUS
<1>15. /\ ts \in Seq(Trade) /\ tr \in Trade /\ tr.amount = a /\ tr.price = p
       /\ trades'[c] = Append(ts, tr)
  BY <1>2, <1>3, <1>4, <1>14 DEF BookTyped, Trade
<1>16. PaidFor(ts) \in Int /\ z \in Int /\ PaidFor(Append(ts, tr)) = PaidFor(ts) + z
  BY <1>12, <1>15, OneMorePaid
<1>17. Paid(c) = PaidFor(ts) /\ Paid(c)' = PaidFor(ts) + z
  BY <1>14, <1>15, <1>16 DEF Paid, PaidFor
<1> QED  BY <1>10, <1>11, <1>13, <1>16, <1>17

LEMMA StepIsPaid == AccountInv /\ [Next]_vars => QuoteHeld
<1> SUFFICES ASSUME AccountInv, [Next]_vars, NEW c \in Calls, pc[c] = "match",
                    order[c].side = "Buy", Len(trades'[c]) > Len(trades[c]),
                    MarketBuyCost(remaining[c]) # -1
             PROVE  Paid(c)' + MarketBuyCost(remaining[c])' = Paid(c) + MarketBuyCost(remaining[c])
  BY DEF QuoteHeld
<1>0. ShapeInv /\ trades \in [Calls -> Seq(Trade)]
  BY DEF AccountInv, ShapeInv, BookTyped
<1>1. CASE MatchFill(c)
  BY <1>0, <1>1, FillIsPaid
<1>2. ASSUME trades'[c] = trades[c] PROVE FALSE
  <2>1. Len(trades[c]) \in Nat /\ Len(trades[c]) > Len(trades[c])
    BY <1>0, <1>2
  <2> QED  BY <2>1
<1>3. ASSUME NEW d \in Calls, Add(d) \/ Match(d) \/ Cancel(d) \/ DepthBuy(d) \/ Continue(d),
             ~MatchFill(c)
      PROVE  trades'[c] = trades[c]
  <2>1. CASE Add(d) \/ Match(d) \/ Cancel(d) \/ DepthBuy(d)
    BY <2>1 DEF Add, AddRejected, AddIndex, Match, MatchStart, Cancel, CancelIndex, DepthBuy
  <2>2. CASE AddBook(d) \/ MatchIndex(d) \/ MatchEnd(d) \/ CancelBook(d) \/ DepthSell(d)
    BY <2>2 DEF AddBook, MatchIndex, MatchEnd, CancelBook, DepthSell
  <2>3. CASE MatchFill(d)
    <3>1. c # d
      BY <1>3, <2>3
    <3>2. \E tr : trades' = [trades EXCEPT ![d] = Append(@, tr)]
      BY <2>3 DEF MatchFill
    <3> QED  BY <1>0, <3>1, <3>2
  <2>4. CASE MatchStats(d)
    <3>1. c # d
      BY <2>4 DEF MatchStats
    <3>2. trades' = [trades EXCEPT ![d] = <<>>]
      BY <2>4 DEF MatchStats
    <3> QED  BY <1>0, <3>1, <3>2
  <2> QED  BY <1>3, <2>1, <2>2, <2>3, <2>4 DEF Continue
<1>4. CASE UNCHANGED vars
  BY <1>2, <1>4 DEF vars
<1> QED  BY <1>1, <1>2, <1>3, <1>4 DEF Next

(* TradesAreFair holds of every run: whichever order add_limit_order,      *)
(* match_order and cancel_order interleave in, a fill is of the first order *)
(* to arrive at the best price, an order whose cancel has returned never    *)
(* trades again, and a market buy pays what calculate_market_buy quoted.    *)
THEOREM TradesStayFair == Spec => TradesAreFair
<1>1. Init => AccountInv /\ TimeInv
  BY AccountInit, TimeInit
<1>2. AccountInv /\ TimeInv /\ [Next]_vars => (AccountInv /\ TimeInv)'
  BY AccountStep, TimeStep
<1>3. AccountInv /\ TimeInv /\ [Next]_vars => [FairFill]_vars
  BY StepIsFair
<1>4. AccountInv /\ TimeInv /\ [Next]_vars => [FinalCancel]_vars
  BY StepIsFair
<1>5. AccountInv /\ TimeInv /\ [Next]_vars => [QuoteHeld]_vars
  BY StepIsPaid
<1>6. Spec => [][FairFill]_vars /\ [][FinalCancel]_vars /\ [][QuoteHeld]_vars
  BY <1>1, <1>2, <1>3, <1>4, <1>5, PTL DEF Spec
<1> QED  BY <1>6 DEF TradesAreFair, PriceTimePriority, CancelIsFinal, QuoteIsPaid,
                     FairFill, FinalCancel, QuoteHeld
=============================================================================
