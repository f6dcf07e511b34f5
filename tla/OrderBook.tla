------------------------------ MODULE OrderBook ------------------------------
(***************************************************************************)
(* The limit order book of dex/orderbook.rs as the tasks that call it see  *)
(* it.  A call is one async task; every .await on a tokio RwLock is a      *)
(* place where it can be suspended, so an operation is one action per      *)
(* stretch of code between two lock waits.                                 *)
(*                                                                         *)
(* A price level is a queue; an empty queue stands for a price that has no *)
(* key in the BTreeMap.  An order's id is the call that added it: the code *)
(* draws ids at random, so they never collide and nobody can name an order *)
(* before add_order has returned its id or a trade has published it.       *)
(***************************************************************************)
EXTENDS Integers, Sequences, FiniteSets, FiniteSetsExt, TLC, Maps

CONSTANTS Calls,     \* the calls made on the book, one async task each
          Prices,    \* the prices the callers use
          Amounts,   \* the amounts the callers use
          Types,     \* the order types the callers use
          NoCall     \* the holder of a lock nobody has for writing

ASSUME BookAssumption ==
    /\ Prices \subseteq Nat /\ Amounts \subseteq Nat /\ IsFiniteSet(Prices) /\ IsFiniteSet(Calls)
    /\ Types \subseteq {"Limit", "Market", "Conditional", "Iceberg"}
    /\ NoCall \notin Calls

Sides == {"Buy", "Sell"}
Locks == Sides \cup {"index"}
Opposite(s) == IF s = "Buy" THEN "Sell" ELSE "Buy"

(* A resting order, and the argument of a call. *)
Order == [id : Calls, side : Sides, price : Prices, amount : Nat]
Taker == [side : Sides, type : {"Limit", "Market"}, price : Prices]

VARIABLES
    book,       \* [Sides -> [Prices -> Seq(Order)]]: buy_orders, sell_orders
    index,      \* order_index, as the set of orders it maps ids to
    writer,     \* [Locks -> the call that holds the RwLock for writing]
    readers,    \* [Sides -> the calls that hold the RwLock for reading]
    pc,         \* where each call is
    order,      \* the order, taker or id a call works on
    remaining,  \* match_order's remaining amount
    trades,     \* match_order's trades that are not in the statistics yet
    stats,      \* MarketStats and last_price
    result,     \* what a finished call returned
    filled,     \* history: the amount traded out of each resting order
    arrived     \* history: the resting orders, in the order they were added

vars == <<book, index, writer, readers, pc, order, remaining, trades, stats,
          result, filled, arrived>>

Init ==
    /\ book = [s \in Sides |-> [p \in Prices |-> <<>>]]
    /\ index = {}
    /\ writer = [l \in Locks |-> NoCall]
    /\ readers = [s \in Sides |-> {}]
    /\ pc = [c \in Calls |-> "idle"]
    /\ order = [c \in Calls |-> <<>>]
    /\ remaining = [c \in Calls |-> 0]
    /\ trades = [c \in Calls |-> <<>>]
    /\ stats = [volume |-> 0, count |-> 0, high |-> 0, low |-> 0, last |-> 0]
    /\ result = [c \in Calls |-> "none"]
    /\ filled = [c \in Calls |-> 0]
    /\ arrived = <<>>

-----------------------------------------------------------------------------
(* Locks: a writer needs the lock to itself, a reader only no writer.  The *)
(* index is never locked for reading.                                      *)

CanWrite(l) == writer[l] = NoCall /\ (l \in Sides => readers[l] = {})
CanRead(s) == writer[s] = NoCall

Goto(c, label) == pc' = [pc EXCEPT ![c] = label]
Return(c, r) == Goto(c, "done") /\ result' = [result EXCEPT ![c] = r]

Queued(s) == UNION {{book[s][p][i] : i \in DOMAIN book[s][p]} : p \in Prices}
Resting == Queued("Buy") \cup Queued("Sell")
Ids(S) == {o.id : o \in S}

-----------------------------------------------------------------------------
(* add_order, called through DexEngine::place_limit_order, which validates *)
(* the order first.  A market order is refused, a stop-loss or take-profit *)
(* is accepted and forgotten, an iceberg order becomes a limit order for   *)
(* its visible amount (the subtraction panics when that exceeds the        *)
(* amount).                                                                *)

Invalid(type, price, amount) == amount = 0 \/ (price = 0 /\ type = "Limit")

(* The amount that add_order puts on the book. *)
VisibleAmount(type, amount, visible) ==
    IF type = "Iceberg" THEN visible ELSE amount

AddRejected(c, type, price, amount, visible) ==
    /\ pc[c] = "idle"
    /\ \/ Invalid(type, price, amount) /\ Return(c, "invalid")
       \/ ~Invalid(type, price, amount) /\ type = "Market" /\ Return(c, "invalid")
       \/ /\ ~Invalid(type, price, amount) /\ type = "Conditional"
          /\ Return(c, "accepted")
       \/ /\ ~Invalid(type, price, amount) /\ type = "Iceberg" /\ visible > amount
          /\ Return(c, "panicked")
    /\ UNCHANGED <<book, index, writer, readers, order, remaining, trades,
                   stats, filled, arrived>>

(* add_limit_order: the index entry is written first, under its own lock. *)
AddIndex(c, side, type, price, amount, visible) ==
    LET o == [id |-> c, side |-> side, price |-> price,
              amount |-> VisibleAmount(type, amount, visible)]
    IN /\ pc[c] = "idle"
       /\ ~Invalid(type, price, amount)
       /\ type \in {"Limit", "Iceberg"}
       /\ type = "Iceberg" => visible <= amount
       /\ CanWrite("index")
       /\ index' = index \cup {o}
       /\ order' = [order EXCEPT ![c] = o]
       /\ Goto(c, "add_book")
       /\ UNCHANGED <<book, writer, readers, remaining, trades, stats, result,
                      filled, arrived>>

AddBook_Front(c) ==
    LET o == order[c]
    IN /\ pc[c] = "add_book"
       /\ CanWrite(o.side)
       /\ book' = [book EXCEPT ![o.side][o.price] = <<o>> \o @]
       /\ arrived' = Append(arrived, c)
       /\ Return(c, "accepted")
       /\ UNCHANGED <<index, writer, readers, order, remaining, trades, stats,
                      filled>>

AddBook(c) ==
    LET o == order[c]
    IN /\ pc[c] = "add_book"
       /\ CanWrite(o.side)
       /\ book' = [book EXCEPT ![o.side][o.price] = Append(@, o)]
       /\ arrived' = Append(arrived, c)
       /\ Return(c, "accepted")
       /\ UNCHANGED <<index, writer, readers, order, remaining, trades, stats,
                      filled>>

-----------------------------------------------------------------------------
(* match_order.  The taker holds the opposite side for writing during the  *)
(* whole match, and waits for the index each time a maker is used up.      *)

Acceptable(t, price) ==
    \/ t.type = "Market"
    \/ t.side = "Buy"  /\ price <= t.price
    \/ t.side = "Sell" /\ price >= t.price

(* Asks are walked from the lowest price up, bids from the highest down. *)
BestPrice(s) ==
    LET S == {p \in Prices : book[s][p] # <<>>}
    IN IF s = "Sell" THEN Min(S) ELSE Max(S)

MatchStart(c, t, amount) ==
    /\ pc[c] = "idle"
    /\ CanWrite(Opposite(t.side))
    /\ writer' = [writer EXCEPT ![Opposite(t.side)] = c]
    /\ order' = [order EXCEPT ![c] = t]
    /\ remaining' = [remaining EXCEPT ![c] = amount]
    /\ Goto(c, "match")
    /\ UNCHANGED <<book, index, readers, trades, stats, result, filled, arrived>>

CanFill(c) ==
    LET s == Opposite(order[c].side)
    IN /\ pc[c] = "match"
       /\ remaining[c] > 0
       /\ Queued(s) # {}
       /\ Acceptable(order[c], BestPrice(s))

MatchFill_KeepMaker(c) ==
    LET s == Opposite(order[c].side)
        p == BestPrice(s)
        maker == Head(book[s][p])
        amount == Min({remaining[c], maker.amount})
        used == amount = maker.amount
    IN /\ CanFill(c)
       /\ trades' = [trades EXCEPT ![c] =
                       Append(@, [maker |-> maker.id, amount |-> amount, price |-> p])]
       /\ remaining' = [remaining EXCEPT ![c] = @ - amount]
       /\ filled' = [filled EXCEPT ![maker.id] = @ + amount]
       /\ book' = [book EXCEPT ![s][p] = IF used THEN Tail(@) ELSE @]
       /\ Goto(c, IF used THEN "match_index" ELSE "match")
       /\ UNCHANGED <<index, writer, readers, order, stats, result, arrived>>

(* What the front order keeps when it is not used up. *)
FrontLess(q, amount) == [q EXCEPT ![1].amount = @ - amount]

(* One trade with the front order of the best level. *)
MatchFill(c) ==
    LET s == Opposite(order[c].side)
        p == BestPrice(s)
        maker == Head(book[s][p])
        amount == Min({remaining[c], maker.amount})
        used == amount = maker.amount
    IN /\ CanFill(c)
       /\ trades' = [trades EXCEPT ![c] =
                       Append(@, [maker |-> maker.id, amount |-> amount, price |-> p])]
       /\ remaining' = [remaining EXCEPT ![c] = @ - amount]
       /\ filled' = [filled EXCEPT ![maker.id] = @ + amount]
       /\ book' = [book EXCEPT ![s][p] =
                     IF used THEN Tail(@) ELSE FrontLess(@, amount)]
       /\ Goto(c, IF used THEN "match_index" ELSE "match")
       /\ UNCHANGED <<index, writer, readers, order, stats, result, arrived>>

(* The used-up maker leaves the index. *)
MatchIndex(c) ==
    /\ pc[c] = "match_index"
    /\ CanWrite("index")
    /\ index' = {o \in index : o.id # trades[c][Len(trades[c])].maker}
    /\ Goto(c, "match")
    /\ UNCHANGED <<book, writer, readers, order, remaining, trades, stats,
                   result, filled, arrived>>

(* Nothing more to match: the side is released before the statistics. *)
MatchEnd(c) ==
    /\ pc[c] = "match"
    /\ ~CanFill(c)
    /\ writer' = [writer EXCEPT ![Opposite(order[c].side)] = NoCall]
    /\ Goto(c, "match_stats")
    /\ UNCHANGED <<book, index, readers, order, remaining, trades, stats,
                   result, filled, arrived>>

CountTrade(s, t) ==
    [volume |-> s.volume + t.amount, count |-> s.count + 1,
     high |-> IF s.high < t.price THEN t.price ELSE s.high,
     low |-> IF s.low = 0 \/ s.low > t.price THEN t.price ELSE s.low,
     last |-> t.price]

(* update_stats holds its two locks without waiting for any other: one step. *)
UpdateStats(ts) ==
    LET upd[i \in 0..Len(ts)] ==
            IF i = 0 THEN stats ELSE CountTrade(upd[i - 1], ts[i])
    IN upd[Len(ts)]

MatchStats(c) ==
    /\ pc[c] = "match_stats"
    /\ stats' = UpdateStats(trades[c])
    /\ trades' = [trades EXCEPT ![c] = <<>>]
    /\ Return(c, IF remaining[c] = 0 THEN "filled" ELSE "partial")
    /\ UNCHANGED <<book, index, writer, readers, order, remaining, filled, arrived>>

-----------------------------------------------------------------------------
(* cancel_order takes the index and, still holding it, the order's side. *)

(* The ids a client can name: add_order returned them or a trade shows them. *)
KnownIds == {c \in Calls : result[c] = "accepted" \/ filled[c] > 0}

CancelIndex(c, id) ==
    /\ pc[c] = "idle"
    /\ CanWrite("index")
    /\ IF id \in Ids(index)
       THEN /\ \E o \in index : o.id = id /\ order' = [order EXCEPT ![c] = o]
            /\ index' = {o \in index : o.id # id}
            /\ writer' = [writer EXCEPT !["index"] = c]
            /\ Goto(c, "cancel_book")
            /\ UNCHANGED result
       ELSE /\ Return(c, "not_found")
            /\ UNCHANGED <<index, writer, order>>
    /\ UNCHANGED <<book, readers, remaining, trades, stats, filled, arrived>>

CancelBook(c) ==
    LET o == order[c]
        Kept(q) == {i \in DOMAIN q : q[i].id # o.id}
    IN /\ pc[c] = "cancel_book"
       /\ CanWrite(o.side)
       /\ book' = [book EXCEPT ![o.side][o.price] = Retained(@, Kept(@))]
       /\ writer' = [writer EXCEPT !["index"] = NoCall]
       /\ Return(c, "cancelled")
       /\ UNCHANGED <<index, readers, order, remaining, trades, stats, filled, arrived>>

-----------------------------------------------------------------------------
(* get_depth holds the bids for reading while it waits for the asks. *)

DepthBuy(c) ==
    /\ pc[c] = "idle"
    /\ CanRead("Buy")
    /\ readers' = [readers EXCEPT !["Buy"] = @ \cup {c}]
    /\ Goto(c, "depth_sell")
    /\ UNCHANGED <<book, index, writer, order, remaining, trades, stats, result,
                   filled, arrived>>

DepthSell(c) ==
    /\ pc[c] = "depth_sell"
    /\ CanRead("Sell")
    /\ readers' = [readers EXCEPT !["Buy"] = @ \ {c}]
    /\ Return(c, "depth")
    /\ UNCHANGED <<book, index, writer, order, remaining, trades, stats, filled,
                   arrived>>

-----------------------------------------------------------------------------
(* What a client asks for. *)
Add(c) ==
    \E side \in Sides, type \in Types, price \in Prices, amount \in Amounts,
       visible \in Amounts :
        \/ AddRejected(c, type, price, amount, visible)
        \/ AddIndex(c, side, type, price, amount, visible)

Match(c) ==
    \E side \in Sides, type \in Types \cap {"Limit", "Market"}, price \in Prices,
       amount \in Amounts :
        MatchStart(c, [side |-> side, type |-> type, price |-> price], amount)

Cancel(c) == \E id \in KnownIds : CancelIndex(c, id)

(* The rest of a call that has started. *)
Continue(c) ==
    \/ AddBook(c)
    \/ MatchFill(c) \/ MatchIndex(c) \/ MatchEnd(c) \/ MatchStats(c)
    \/ CancelBook(c)
    \/ DepthSell(c)

Next == \E c \in Calls :
    Add(c) \/ Match(c) \/ Cancel(c) \/ DepthBuy(c) \/ Continue(c)

Spec == Init /\ [][Next]_vars

(* The runtime polls a task that can run: a started call goes on. *)
Fairness == \A c \in Calls : WF_vars(Continue(c))
FairSpec == Spec /\ Fairness

-----------------------------------------------------------------------------
(* calculate_market_buy: the cost of taking the given amount off the asks, *)
(* walked in the order a market order would; -1 when they hold less.       *)
Rank(p) == Cardinality({q \in Prices : q < p})
Priced(i) == CHOOSE p \in Prices : Rank(p) = i - 1     \* the ith lowest price

AskSeq(levels) ==
    LET upTo[i \in 0 .. Cardinality(Prices)] ==
            IF i = 0 THEN <<>> ELSE upTo[i - 1] \o levels[Priced(i)]
    IN upTo[Cardinality(Prices)]

Take(w, ask) ==     \* what is left to buy, and its cost so far
    LET amount == Min({w.left, ask.amount})
    IN [left |-> w.left - amount, cost |-> w.cost + amount * ask.price]

CostOf(asks, amount) ==
    LET walk[i \in 0 .. Len(asks)] ==
            IF i = 0 THEN [left |-> amount, cost |-> 0] ELSE Take(walk[i - 1], asks[i])
        end == walk[Len(asks)]
    IN IF end.left > 0 THEN -1 ELSE end.cost

MarketBuyCost(amount) == CostOf(AskSeq(book["Sell"]), amount)

-----------------------------------------------------------------------------
(* Properties *)

(* TypeOK: every variable has the shape of the field it models. *)
TypeOK ==
    /\ book \in [Sides -> [Prices -> Seq(Order)]]
    /\ index \subseteq Order
    /\ writer \in [Locks -> Calls \cup {NoCall}]
    /\ readers \in [Sides -> SUBSET Calls]
    /\ \A c \in Calls : order[c] \in Order \cup Taker \cup {<<>>}
    /\ remaining \in [Calls -> Nat]
    /\ filled \in [Calls -> Nat]
    /\ \A c \in Calls : \A i \in DOMAIN trades[c] :
          trades[c][i] \in [maker : Calls, amount : Nat, price : Prices]

(* The calls that are between their two writes of an add, the makers that  *)
(* a match has popped but not yet removed from the index, and the orders a *)
(* cancel has removed from the index only.                                 *)
Adding == {c \in Calls : pc[c] = "add_book"}
UsedUp == {trades[c][Len(trades[c])].maker :
              c \in {d \in Calls : pc[d] = "match_index"}}
Cancelling == {order[c].id : c \in {d \in Calls : pc[d] = "cancel_book"}}

(* IndexBookAgree: order_index and the two books are written under         *)
(* different locks, yet they differ only by the adds, fills and cancels    *)
(* that are between their two writes: no interleaving leaves an order that *)
(* can be traded but not cancelled, or cancelled but not found.            *)
IndexBookAgree ==
    /\ Ids(index) = (Ids(Resting) \cup Adding \cup UsedUp) \ Cancelling
    /\ Cancelling \subseteq Ids(Resting) \cup UsedUp

(* BooksSound: the fields are well typed and index and books agree, after   *)
(* every step of add_limit_order, match_order and cancel_order.             *)
BooksSound == TypeOK /\ IndexBookAgree

(* FillsConserve: an order on the book holds exactly the amount it was     *)
(* added with minus what was traded out of it, and never trades more than  *)
(* it was added with (match_buy_order, match_sell_order).                  *)
FillsConserve ==
    /\ \A o \in Resting : o.amount + filled[o.id] = order[o.id].amount
    /\ \A c \in Calls : filled[c] > 0 => filled[c] <= order[c].amount

(* StatsAccount: the statistics of update_stats plus the trades of matches *)
(* that have not reached it account for every amount traded, although they *)
(* are applied after the book's lock is released, in any order.            *)
Total(f) == SumFunctionOnSet(f, Calls)
TradedBy(ts) == SumFunctionOnSet([i \in DOMAIN ts |-> ts[i].amount], DOMAIN ts)
Pending == [c \in Calls |-> TradedBy(trades[c])]
StatsAccount ==
    /\ stats.volume + Total(Pending) = Total(filled)
    /\ stats.low <= stats.last /\ stats.last <= stats.high

(* PriceTimePriority: whenever an order trades, no order on its side has a *)
(* better price, and none at its price arrived before it.                  *)
Position(id) == CHOOSE i \in DOMAIN arrived : arrived[i] = id
Better(s, p, q) == IF s = "Sell" THEN p < q ELSE p > q
PriceTimePriority ==
    [][\A s \in Sides : \A o \in Queued(s) : filled'[o.id] > filled[o.id] =>
          \A q \in Queued(s) \ {o} :
              /\ ~Better(s, q.price, o.price)
              /\ q.price = o.price => Position(o.id) < Position(q.id)]_vars

(* CancelIsFinal: once cancel_order has returned Ok, the order is off the  *)
(* book and no match that was already running trades with it.              *)
CancelIsFinal ==
    [][\A c \in Calls : result[c] = "cancelled" =>
          /\ order[c].id \notin Ids(Resting')
          /\ filled'[order[c].id] = filled[order[c].id]]_vars

(* QuoteIsPaid: every trade of a market buy keeps what it has paid plus    *)
(* what calculate_market_buy quotes for the rest constant: the quote a     *)
(* caller gets is the price match_buy_order then charges.                  *)
PaidFor(ts) ==
    SumFunctionOnSet([i \in DOMAIN ts |-> ts[i].amount * ts[i].price], DOMAIN ts)
Paid(c) == PaidFor(trades[c])
QuoteIsPaid ==
    [][\A c \in Calls :
          /\ pc[c] = "match" /\ order[c].side = "Buy" /\ order[c].type = "Market"
          /\ Len(trades'[c]) > Len(trades[c])
          /\ MarketBuyCost(remaining[c]) # -1
          => Paid(c)' + MarketBuyCost(remaining[c])'
                = Paid(c) + MarketBuyCost(remaining[c])]_vars

(* BookKeepsAccount: whatever add_limit_order, match_order and cancel_order *)
(* are between their two writes, index and books agree, no amount is lost   *)
(* or traded twice, and the statistics account for every trade.             *)
BookKeepsAccount == BooksSound /\ FillsConserve /\ StatsAccount

(* TradesAreFair: matches respect price and time, a cancel that returned is *)
(* final, and a market buy costs what it was quoted.                        *)
TradesAreFair == PriceTimePriority /\ CancelIsFinal /\ QuoteIsPaid

(* EveryCallReturns: a call that the book has started on returns.  It does *)
(* not: cancel_order waits for a side while it holds the index and         *)
(* match_order waits for the index while it holds a side.                  *)
EveryCallReturns ==
    \A c \in Calls : pc[c] # "idle" ~> pc[c] = "done"

(* For TLC: calls are interchangeable in the safety run. *)
CallSymmetry == Permutations(Calls)
=============================================================================
