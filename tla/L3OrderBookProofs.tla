-------------------------- MODULE L3OrderBookProofs ---------------------------
(***************************************************************************)
(* The order book keeps its parts in agreement, conserves quantities and   *)
(* trades by price and time, whatever is called and however many orders,   *)
(* prices and levels there are.                                            *)
(***************************************************************************)
EXTENDS L3OrderBook, L3BookLemmas

Types ==
  /\ pc \in {"idle", "match", "finish"}
  /\ order \in Orders \cup {NoOrder}
  /\ trades \in Seq(Trade)
  /\ report.status \in Statuses /\ report.reject_reason \in Reasons
  /\ submitted \in [OrderIds -> Int] /\ executed \in [OrderIds -> Nat]

Sound == BookSound(book, OrderIds, Traders, TickPrices)

AllConserved == Conserved(book, submitted, executed)

(* Inside add_order: the incoming order does not rest, its records agree   *)
(* with its trades, and a fill-or-kill order that is being matched can     *)
(* still be filled.                                                        *)
InCall ==
  pc # "idle" =>
    /\ order \in Orders
    /\ order.id \notin DOMAIN book.index
    /\ submitted[order.id] = order.qty
    /\ executed[order.id] = TradedQty
    /\ Left >= 0 \/ trades = <<>>
    /\ pc = "finish" => trades = <<>> /\ order.tif = "FOK"
    /\ pc = "match" /\ order.tif = "FOK" => Available(book, order) >= Left

(* The published top of book is out of date only while trades are made.    *)
Published == pc = "idle" \/ trades = <<>> => tob = TopOfBook(book)

IInv == Types /\ Sound /\ AllConserved /\ InCall /\ Published /\ ReportHonest

LEMMA InitInv == Init => IInv
<1> SUFFICES ASSUME Init PROVE IInv
  OBVIOUS
<1>1. Sound
  BY EmptyBookSound DEF Init, Sound
<1>2. AllConserved
  BY DEF Init, AllConserved, Conserved, EmptyBook, EmptyMap, Prices
<1>3. Types
  <2>1. << >> \in Seq(Trade)
    BY EmptySeq
  <2> QED BY <2>1 DEF Init, Types, NoReport, Statuses, Reasons
<1>4. InCall /\ Published /\ ReportHonest
  BY DEF Init, InCall, Published, ReportHonest
<1> QED BY <1>1, <1>2, <1>3, <1>4 DEF IInv

-------------------------------------------------------------------------------
(* The steps that trade nothing.                                           *)

(* add_order is entered on a sound book.                                   *)
LEMMA Entered ==
  ASSUME Types, NEW o \in Orders, EnterAdd(book', o), o.id \notin DOMAIN (book').index,
         BookSound(book', OrderIds, Traders, TickPrices), Conserved(book', submitted, executed),
         tob' = TopOfBook(book'), report' = report
  PROVE  IInv'
<1>1. /\ order' = o /\ trades' = <<>> /\ before' = book'
      /\ pc' = (IF CanFill(book', o) THEN "match" ELSE "finish")
      /\ submitted' = [submitted EXCEPT ![o.id] = o.qty]
      /\ executed' = [executed EXCEPT ![o.id] = 0]
  BY DEF EnterAdd
<1>2. o.id \in OrderIds /\ o.qty \in Int
  BY QuantitiesAssumption DEF Orders
<1>3. Types'
  <2>1. << >> \in Seq(Trade)
    BY EmptySeq
  <2> QED BY <1>1, <1>2, <2>1 DEF Types
<1>4. Sound'
  BY DEF Sound
<1>5. AllConserved'
  <2>1. SameRecords(DOMAIN (book').index, submitted, executed, submitted', executed')
    BY <1>1 DEF SameRecords
  <2>2. IndexExact(book')
    BY DEF BookSound
  <2> QED BY <2>1, <2>2, RecordsConserve DEF AllConserved
<1>6. InCall'
  <2>1. (TradedQty)' = 0 /\ (Left)' = o.qty
    BY <1>1, <1>2, TotalEmpty DEF TradedQty, Left, Remaining
  <2>2. (submitted')[o.id] = o.qty /\ (executed')[o.id] = 0
    BY <1>1, <1>2 DEF Types
  <2>3. CASE CanFill(book', o)
    <3>1. o.tif = "FOK" => Available(book', o) >= o.qty
      BY <2>3 DEF CanFill
    <3> QED BY <1>1, <2>1, <2>2, <2>3, <3>1 DEF InCall
  <2>4. CASE ~CanFill(book', o)
    <3>1. o.tif = "FOK"
      BY <2>4 DEF CanFill
    <3> QED BY <1>1, <2>1, <2>2, <2>4, <3>1 DEF InCall
  <2> QED BY <2>3, <2>4
<1>7. Published'
  BY DEF Published
<1>8. ReportHonest'
  BY <1>1 DEF ReportHonest
<1> QED BY <1>3, <1>4, <1>5, <1>6, <1>7, <1>8 DEF IInv

(* A call that is over at once leaves nothing to report of an order.       *)
LEMMA Answered ==
  ASSUME Types, pc' = "idle", order' = NoOrder, trades' = <<>>,
         (report').status \in Statuses, (report').reject_reason \in Reasons,
         submitted' = submitted, executed' = executed,
         BookSound(book', OrderIds, Traders, TickPrices), Conserved(book', submitted, executed),
         tob' = TopOfBook(book')
  PROVE  IInv'
<1>1. Types'
  <2>1. << >> \in Seq(Trade)
    BY EmptySeq
  <2> QED BY <2>1 DEF Types
<1>2. Sound' /\ AllConserved'
  BY DEF Sound, AllConserved
<1>3. InCall' /\ Published' /\ ReportHonest'
  BY DEF InCall, Published, ReportHonest
<1> QED BY <1>1, <1>2, <1>3 DEF IInv

(* Taking an order out.                                                    *)
LEMMA Taken ==
  ASSUME NEW b, BookSound(b, OrderIds, Traders, TickPrices),
         Conserved(b, submitted, executed), NEW id \in DOMAIN b.index
  PROVE  /\ BookSound(RemoveOrder(b, id), OrderIds, Traders, TickPrices)
         /\ Conserved(RemoveOrder(b, id), submitted, executed)
         /\ KeepsOrder(b, RemoveOrder(b, id))
         /\ id \notin DOMAIN RemoveOrder(b, id).index
         /\ b.index[id].side \in Sides
<1> DEFINE s == b.index[id].side
           p == b.index[id].price
           c == RemoveOrder(b, id)
           k == PlaceOf(b, id)
           q == update_queue_positions(RemoveAt(QueueOf(b, id), k))
<1>1. BookTyped(b, OrderIds, Traders, TickPrices) /\ IndexExact(b)
  BY DEF BookSound
<1>2. /\ IsBook(c) /\ s \in Sides /\ p \in Prices(b, s)
      /\ k \in DOMAIN b.levels[s][p] /\ b.levels[s][p][k].id = id
      /\ q \in Seq(L3Orders(OrderIds, Traders)) /\ Removes(b, c, s, p, k, q)
  BY <1>1, RemoveOrderRemoves
<1>3. TickPrices \in SUBSET Int
  BY PricesAssumption
<1> HIDE DEF s, p, c, k, q
<1>4. BookSound(c, OrderIds, Traders, TickPrices)
  BY <1>2, <1>3, OrderRemoved
<1>5. SameRecords(DOMAIN c.index, submitted, executed, submitted, executed)
  BY DEF SameRecords
<1>6. Conserved(c, submitted, executed)
  BY <1>2, <1>4, <1>5, RemovedConserves
<1>7. KeepsOrder(b, c)
  BY <1>2, <1>4, RemovedKeepsOrder
<1>8. id \notin DOMAIN c.index
  BY <1>2 DEF Removes, Erase, Restrict
<1> QED BY <1>2, <1>4, <1>6, <1>7, <1>8 DEF c, s

-------------------------------------------------------------------------------
(* A trade.                                                                *)

(* In the loop: the order, what it can still trade, and the resting order  *)
(* it trades with next.                                                    *)
Trading(s, p, q, front) ==
  /\ order \in Orders /\ s = Opposite(order.side) /\ s \in Sides
  /\ p = BestPrice(book, s) /\ p \in Prices(book, s) /\ Crosses(order, p)
  /\ book.levels[s][p] \in Seq(L3Orders(OrderIds, Traders)) /\ book.levels[s][p] # <<>>
  /\ front = book.levels[s][p][1] /\ 1 \in DOMAIN book.levels[s][p]
  /\ front \in L3Orders(OrderIds, Traders)
  /\ q = MatchQty(book, order, Left) /\ q \in Nat /\ 0 < q /\ q <= Left /\ q <= front.qty
  /\ q # front.qty => Reduce(front, q) \in L3Orders(OrderIds, Traders)
  /\ TradeOf(book, order, Left) =
       [resting |-> front.id, trader |-> front.trader, price |-> p, qty |-> q]
  /\ IsBook(MatchOne(book, order, Left))
  /\ Trades(book, MatchOne(book, order, Left), s, p, q)

(* The quantities of trades are numbers.                                   *)
LEMMA TradedInt ==
  ASSUME Types
  PROVE  /\ TradedQty \in Int
         /\ order \in Orders => Left \in Int /\ order.qty \in Int /\ Left = order.qty - TradedQty
<1>1. \A t \in Trade : t.qty \in Int
  BY DEF Trade
<1>2. TradedQty \in Int
  <2> DEFINE g == [k \in 1 .. Len(trades) |-> trades[k].qty]
  <2>1. \A k \in 1 .. Len(trades) : g[k] = trades[k].qty
    OBVIOUS
  <2>2. trades \in Seq(Trade)
    BY DEF Types
  <2> HIDE DEF g
  <2> QED BY <1>1, <2>1, <2>2, TotalIs DEF TradedQty
<1>3. order \in Orders => order.qty \in Int
  BY QuantitiesAssumption DEF Orders
<1> QED BY <1>2, <1>3 DEF Left, Remaining, TradedQty

LEMMA NextTrade ==
  ASSUME IInv, Match
  PROVE  \E s, p, q, front : Trading(s, p, q, front)
<1>1. Types /\ Sound /\ order \in Orders /\ CanMatch(book, order, Left)
  BY DEF Match, IInv, InCall
<1>2. order.side \in Sides /\ Left \in Int
  BY <1>1, TradedInt DEF Orders
<1>3. BookSound(book, OrderIds, Traders, TickPrices) /\ TickPrices \in SUBSET Int
  BY <1>1, PricesAssumption DEF Sound
<1> DEFINE s == Opposite(order.side)
           p == BestPrice(book, s)
           c == MatchOne(book, order, Left)
           q == MatchQty(book, order, Left)
           front == book.levels[s][p][1]
<1>4. /\ IsBook(c) /\ Trades(book, c, s, p, q)
      /\ s \in Sides /\ p \in Prices(book, s) /\ Crosses(order, p)
      /\ book.levels[s][p] \in Seq(L3Orders(OrderIds, Traders)) /\ book.levels[s][p] # <<>>
      /\ NextResting(book, order) = front
      /\ q \in Nat /\ 0 < q /\ q <= Left /\ q <= front.qty
      /\ front \in L3Orders(OrderIds, Traders)
      /\ q # front.qty => Reduce(front, q) \in L3Orders(OrderIds, Traders)
  BY <1>1, <1>2, <1>3, MatchOneTrades
<1>5. 1 \in DOMAIN book.levels[s][p]
  BY <1>4, EmptySeq, LenProperties
<1>6. TradeOf(book, order, Left) =
        [resting |-> front.id, trader |-> front.trader, price |-> p, qty |-> q]
  BY <1>4 DEF TradeOf
<1>7. s = Opposite(order.side) /\ p = BestPrice(book, s) /\ q = MatchQty(book, order, Left)
      /\ front = book.levels[s][p][1] /\ c = MatchOne(book, order, Left)
  OBVIOUS
<1> HIDE DEF s, p, c, q, front
<1>8. Trading(s, p, q, front)
  BY <1>1, <1>4, <1>5, <1>6, <1>7 DEF Trading
<1> QED BY <1>8

(* The front order rests, and the incoming order does not.                 *)
LEMMA FrontRests ==
  ASSUME IInv, Match, NEW s, NEW p, NEW q, NEW front, Trading(s, p, q, front)
  PROVE  /\ front.id \in DOMAIN book.index /\ front.id # order.id
         /\ front.id \in OrderIds /\ order.id \in OrderIds
         /\ QueueOf(book, front.id) = book.levels[s][p] /\ PlaceOf(book, front.id) = 1
<1>1. Sound /\ order.id \notin DOMAIN book.index
  BY DEF Match, IInv, InCall
<1>2. IndexExact(book)
  BY <1>1 DEF Sound, BookSound
<1>3. /\ s \in Sides /\ p \in Prices(book, s) /\ 1 \in DOMAIN book.levels[s][p]
      /\ front = book.levels[s][p][1]
  BY DEF Trading
<1>4. /\ front.id \in DOMAIN book.index
      /\ QueueOf(book, front.id) = book.levels[s][p] /\ PlaceOf(book, front.id) = 1
  <2>1. /\ front.id \in DOMAIN book.index /\ book.index[front.id] = [side |-> s, price |-> p]
        /\ PlaceOf(book, front.id) = 1
    BY <1>2, <1>3, PlaceIs
  <2> QED BY <2>1 DEF QueueOf
<1>5. front.id \in OrderIds /\ order.id \in OrderIds
  BY DEF Trading, L3Orders, Orders
<1> QED BY <1>1, <1>4, <1>5

(* What a trade does to the variables beside the book and the trades.      *)
LEMMA TradedRest ==
  ASSUME Match, NEW s, NEW p, NEW q, NEW front, Trading(s, p, q, front)
  PROVE  /\ pc' = pc /\ order' = order /\ report' = report /\ submitted' = submitted
         /\ executed' = [executed EXCEPT ![front.id] = @ + q, ![order.id] = @ + q]
<1> DEFINE t == TradeOf(book, order, Left)
<1>1. executed' = [executed EXCEPT ![t.resting] = @ + t.qty, ![order.id] = @ + t.qty]
  BY DEF Match
<1>2. t = [resting |-> front.id, trader |-> front.trader, price |-> p, qty |-> q]
  BY DEF Trading
<1>3. pc' = pc /\ order' = order /\ report' = report /\ submitted' = submitted
  BY DEF Match
<1> HIDE DEF t
<1>4. t.resting = front.id /\ t.qty = q
  BY <1>2
<1> QED BY <1>1, <1>3, <1>4

LEMMA TradedBook ==
  ASSUME IInv, Match, NEW s, NEW p, NEW q, NEW front, Trading(s, p, q, front)
  PROVE  /\ BookSound(book', OrderIds, Traders, TickPrices)
         /\ Conserved(book', submitted', executed')
         /\ KeepsOrder(book, book')
         /\ Available(book', order) = Available(book, order) - q
         /\ order.id \notin DOMAIN (book').index
<1>1. /\ Types /\ BookSound(book, OrderIds, Traders, TickPrices)
      /\ Conserved(book, submitted, executed) /\ order.id \notin DOMAIN book.index
  BY DEF Match, IInv, InCall, Sound, AllConserved
<1>2. TickPrices \in SUBSET Int
  BY PricesAssumption
<1>3. /\ IsBook(book') /\ Trades(book, book', s, p, q)
      /\ s \in Sides /\ p \in Prices(book, s) /\ book.levels[s][p] # <<>>
      /\ book.levels[s][p] \in Seq(L3Orders(OrderIds, Traders))
      /\ 1 \in DOMAIN book.levels[s][p] /\ front = book.levels[s][p][1]
      /\ q \in Nat /\ 0 < q /\ q <= front.qty
      /\ q # front.qty => Reduce(front, q) \in L3Orders(OrderIds, Traders)
  BY DEF Match, Trading
<1>4. /\ front.id \in DOMAIN book.index /\ front.id # order.id
      /\ front.id \in OrderIds /\ order.id \in OrderIds
  BY FrontRests
<1>5. /\ submitted' = submitted
      /\ executed' = [executed EXCEPT ![front.id] = @ + q, ![order.id] = @ + q]
  BY TradedRest
<1>6. /\ (executed')[front.id] = executed[front.id] + q
      /\ \A id \in OrderIds \ {front.id, order.id} : (executed')[id] = executed[id]
  BY <1>1, <1>4, <1>5 DEF Types
<1>7. Available(book', order) = Available(book, order) - q
      \/ ~BookSound(book', OrderIds, Traders, TickPrices)
  <2>1. BookTyped(book, OrderIds, Traders, TickPrices)
    BY <1>1 DEF BookSound
  <2>2. BookSound(book', OrderIds, Traders, TickPrices)
          => BookTyped(book', OrderIds, Traders, TickPrices)
    BY DEF BookSound
  <2>3. order.side \in Sides /\ s = Opposite(order.side) /\ Crosses(order, p)
    BY DEF Trading, Orders
  <2>4. q # book.levels[s][p][1].qty
          => Reduce(book.levels[s][p][1], q) \in L3Orders(OrderIds, Traders)
    BY <1>3
  <2> QED BY <1>3, <2>1, <2>2, <2>3, <2>4, TradeTakesAvailable
<1>8. CASE q = front.qty
  <2> DEFINE u == Tail(book.levels[s][p])
  <2>1. Removes(book, book', s, p, 1, u) /\ u \in Seq(L3Orders(OrderIds, Traders))
    BY <1>3, <1>8, HeadTailProperties DEF Trades
  <2> HIDE DEF u
  <2>2. BookSound(book', OrderIds, Traders, TickPrices)
    BY <1>1, <1>2, <1>3, <2>1, OrderRemoved
  <2>3. KeepsOrder(book, book')
    BY <1>1, <1>3, <2>1, <2>2, RemovedKeepsOrder
  <2>4. DOMAIN (book').index = DOMAIN book.index \ {front.id}
    BY <1>3, <2>1 DEF Removes, Erase, Restrict
  <2>5. SameRecords(DOMAIN (book').index, submitted, executed, submitted', executed')
    <3>1. DOMAIN book.index \subseteq OrderIds
      BY <1>1 DEF BookSound, BookTyped
    <3> QED BY <1>1, <1>5, <1>6, <2>4, <3>1 DEF SameRecords
  <2>6. Conserved(book', submitted', executed')
    BY <1>1, <1>3, <2>1, <2>2, <2>5, RemovedConserves
  <2> QED BY <1>1, <1>7, <2>2, <2>3, <2>4, <2>6
<1>9. CASE q # front.qty
  <2> DEFINE r == Reduce(front, q)
  <2>1. Reduces(book, book', s, p, r) /\ r \in L3Orders(OrderIds, Traders)
    BY <1>3, <1>9 DEF Trades
  <2>2. r.id = front.id /\ r.qty = front.qty - q /\ r.filled = front.filled + q
    BY DEF Reduce, Trading, L3Orders
  <2> HIDE DEF r
  <2>3. BookSound(book', OrderIds, Traders, TickPrices)
    BY <1>1, <1>2, <1>3, <2>1, OrderReduced
  <2>4. KeepsOrder(book, book')
    BY <1>1, <1>3, <2>1, <2>3, ReducedKeepsOrder
  <2>5. (book').index = book.index
    BY <2>1 DEF Reduces
  <2>6. SameRecords(DOMAIN (book').index \ {r.id}, submitted, executed, submitted', executed')
    <3>1. DOMAIN book.index \subseteq OrderIds
      BY <1>1 DEF BookSound, BookTyped
    <3> QED BY <1>1, <1>5, <1>6, <2>2, <2>5, <3>1 DEF SameRecords
  <2>7. Accounted(r, submitted', executed')
    <3>1. Accounted(front, submitted, executed)
      BY <1>1, <1>3 DEF Conserved
    <3>2. front.qty \in Nat /\ front.filled \in Nat /\ q \in Nat
      BY <1>3 DEF Trading, L3Orders
    <3> QED BY <1>5, <1>6, <2>2, <3>1, <3>2 DEF Accounted
  <2>8. Conserved(book', submitted', executed')
    BY <1>1, <1>3, <2>1, <2>3, <2>6, <2>7, ReducedConserves
  <2> QED BY <1>1, <1>7, <2>3, <2>4, <2>5, <2>8
<1> QED BY <1>8, <1>9

LEMMA Traded ==
  ASSUME IInv, Match, NEW s, NEW p, NEW q, NEW front, Trading(s, p, q, front)
  PROVE  /\ trades' \in Seq(Trade) /\ trades' # <<>>
         /\ (TradedQty)' = TradedQty + q /\ (Left)' = Left - q
         /\ Last(trades') = TradeOf(book, order, Left)
<1> DEFINE t == TradeOf(book, order, Left)
<1>1. /\ Types /\ Sound /\ order \in Orders
      /\ trades' = Append(trades, t) /\ order' = order
  BY DEF IInv, Match, InCall
<1>2. TradedQty \in Int /\ Left \in Int /\ order.qty \in Int /\ Left = order.qty - TradedQty
  BY <1>1, TradedInt
<1>3. t = [resting |-> front.id, trader |-> front.trader, price |-> p, qty |-> q]
  BY DEF Trading
<1>4. s \in Sides /\ p \in Prices(book, s) /\ q \in Nat /\ front \in L3Orders(OrderIds, Traders)
  BY DEF Trading
<1>5. p \in TickPrices
  BY <1>1, <1>4 DEF Sound, BookSound, BookTyped
<1>6. t \in Trade /\ t.qty = q
  BY <1>3, <1>4, <1>5 DEF Trade, L3Orders
<1> HIDE DEF t
<1>7. \A r \in Trade : r.qty \in Int
  BY DEF Trade
<1>8. trades \in Seq(Trade)
  BY <1>1 DEF Types
<1>9. TotalQty(trades') = TotalQty(trades) + q
  BY <1>1, <1>6, <1>7, <1>8, TotalAppend
<1>10. trades' \in Seq(Trade) /\ trades' # <<>> /\ Last(trades') = t
  <2>1. /\ Append(trades, t) \in Seq(Trade) /\ Len(Append(trades, t)) = Len(trades) + 1
        /\ Append(trades, t)[Len(trades) + 1] = t /\ Append(trades, t) # <<>>
    BY <1>6, <1>8, AppendProperties
  <2> QED BY <1>1, <2>1 DEF Last
<1> QED BY <1>1, <1>2, <1>4, <1>9, <1>10 DEF TradedQty, Left, Remaining, t

LEMMA Matched ==
  ASSUME IInv, Match
  PROVE  IInv'
<1>1. PICK s, p, q, front : Trading(s, p, q, front)
  BY NextTrade
<1>2. /\ Types /\ InCall /\ order \in Orders /\ pc = "match"
      /\ submitted[order.id] = order.qty /\ executed[order.id] = TradedQty
      /\ order.tif = "FOK" => Available(book, order) >= Left
  BY DEF IInv, Match, InCall
<1>3. /\ pc' = pc /\ order' = order /\ report' = report /\ submitted' = submitted
      /\ executed' = [executed EXCEPT ![front.id] = @ + q, ![order.id] = @ + q]
  BY <1>1, TradedRest
<1>4. /\ trades' \in Seq(Trade) /\ trades' # <<>>
      /\ (TradedQty)' = TradedQty + q /\ (Left)' = Left - q
  BY <1>1, Traded
<1>5. /\ BookSound(book', OrderIds, Traders, TickPrices)
      /\ Conserved(book', submitted', executed')
      /\ Available(book', order) = Available(book, order) - q
      /\ order.id \notin DOMAIN (book').index
  BY <1>1, TradedBook
<1>6. front.id # order.id /\ front.id \in OrderIds /\ order.id \in OrderIds
  BY <1>1, FrontRests
<1>7. q \in Nat /\ q <= Left
  BY <1>1 DEF Trading
<1>8. executed' \in [OrderIds -> Nat] /\ (executed')[order.id] = executed[order.id] + q
  BY <1>2, <1>3, <1>6, <1>7 DEF Types
<1>9. Types'
  BY <1>2, <1>3, <1>4, <1>8 DEF Types
<1>10. Sound' /\ AllConserved'
  BY <1>5 DEF Sound, AllConserved
<1>11. InCall'
  <2>1. TradedQty \in Int /\ Left \in Int
    BY <1>2, TradedInt
  <2>2. Available(book, order) \in Int
    <3>1. BookTyped(book, OrderIds, Traders, TickPrices) /\ order.side \in Sides
      BY <1>2 DEF IInv, Sound, BookSound, Orders
    <3> QED BY <3>1, AvailableIs
  <2>3. (Left)' >= 0
    BY <1>4, <1>7, <2>1
  <2>4. order.tif = "FOK" => Available(book', order) >= (Left)'
    BY <1>2, <1>4, <1>5, <1>7, <2>1, <2>2
  <2>5. (executed')[order.id] = (TradedQty)'
    BY <1>2, <1>4, <1>8
  <2> QED BY <1>2, <1>3, <1>5, <2>3, <2>4, <2>5 DEF InCall
<1>12. Published' /\ ReportHonest'
  BY <1>2, <1>3, <1>4 DEF Published, ReportHonest
<1> QED BY <1>9, <1>10, <1>11, <1>12 DEF IInv

-------------------------------------------------------------------------------
(* The end of add_order.                                                   *)

(* The remainder rests only where it does not cross.                       *)
LEMMA RemainderRests ==
  ASSUME IInv, AddFinish
  PROVE  /\ BookSound(book', OrderIds, Traders, TickPrices)
         /\ Conserved(book', submitted, executed)
         /\ KeepsOrder(book, book')
         /\ book' = book \/ Rests(order, trades)
         /\ order.id \in DOMAIN (book').index <=> Rests(order, trades)
<1>1. /\ Types /\ order \in Orders /\ order.id \notin DOMAIN book.index
      /\ BookSound(book, OrderIds, Traders, TickPrices)
      /\ Conserved(book, submitted, executed)
      /\ submitted[order.id] = order.qty /\ executed[order.id] = TradedQty
      /\ pc = "finish" => order.tif = "FOK"
      /\ pc = "finish" \/ (pc = "match" /\ ~CanMatch(book, order, Left))
      /\ book' = RestRemainder(book, order, trades)
  BY DEF IInv, AddFinish, InCall, Sound, AllConserved
<1>2. TradedQty \in Int /\ Left \in Int /\ order.qty \in Int /\ Left = order.qty - TradedQty
  BY <1>1, TradedInt
<1>3. BookTyped(book, OrderIds, Traders, TickPrices) /\ IndexExact(book)
  BY <1>1 DEF BookSound
<1>4. TickPrices \in SUBSET Int
  BY PricesAssumption
<1>5. CASE ~Rests(order, trades)
  <2>1. book' = book
    BY <1>1, <1>5 DEF RestRemainder
  <2>2. KeepsOrder(book, book)
    BY DEF KeepsOrder
  <2>3. ~(order.id \in DOMAIN (book').index)
    BY <1>1, <2>1
  <2> QED BY <1>1, <1>5, <2>1, <2>2, <2>3
<1>6. CASE Rests(order, trades)
  <2> DEFINE r == Entry(book, order, Left)
             s == order.side
             p == order.price
  <2>1. book' = add_resting_order(book, order, Left)
    BY <1>1, <1>6 DEF RestRemainder, Left
  <2>2. Left > 0 /\ order.type = "Limit" /\ order.tif # "FOK"
    BY <1>6 DEF Rests, Left
  <2>3. /\ s \in Sides /\ order.id \in OrderIds \ DOMAIN book.index /\ order.trader \in Traders
        /\ p \in TickPrices
    BY <1>1, <2>2 DEF Orders
  <2>4. Left \in Nat \ {0} /\ order.qty - Left = TradedQty /\ TradedQty \in Nat
    BY SMTT(30), <1>1, <1>2, <2>2, <2>3 DEF Types
  <2>5. IsBook(book') /\ r \in L3Orders(OrderIds, Traders) /\ Adds(book, book', s, p, r)
    BY <1>2, <1>3, <2>1, <2>3, <2>4, RestingAdds
  <2>6. \A y \in Prices(book, Opposite(s)) : IF s = Buy THEN p < y ELSE y < p
    <3> SUFFICES ASSUME NEW y \in Prices(book, Opposite(s))
                 PROVE  IF s = Buy THEN p < y ELSE y < p
      OBVIOUS
    <3> DEFINE best == BestPrice(book, Opposite(s))
    <3>1. ~CanMatch(book, order, Left)
      BY <1>1, <2>2
    <3>2. ~Crosses(order, best)
      BY <2>2, <3>1 DEF CanMatch
    <3>3. Opposite(s) \in Sides
      BY DEF Opposite, Sides
    <3>4. /\ best \in Prices(book, Opposite(s))
          /\ IF Opposite(s) = Buy THEN y <= best ELSE best <= y
      BY <1>3, <1>4, <3>3, BestIs
    <3>5. y \in Int /\ best \in Int /\ p \in Int
      BY <1>3, <1>4, <2>3, <3>3, <3>4 DEF BookTyped
    <3> HIDE DEF best
    <3>6. CASE s = Buy
      BY <3>2, <3>4, <3>5, <3>6 DEF Crosses, Opposite, Buy, Sell
    <3>7. CASE s = Sell
      BY <3>2, <3>4, <3>5, <3>7 DEF Crosses, Opposite, Buy, Sell
    <3> QED BY <2>3, <3>6, <3>7 DEF Sides
  <2>7. Accounted(r, submitted, executed)
    BY <1>1, <1>2, <2>4 DEF Accounted, Entry
  <2>11. order.id \in DOMAIN (book').index
    BY <2>5 DEF Adds, Put, Entry
  <2> HIDE DEF r, s, p
  <2>8. BookSound(book', OrderIds, Traders, TickPrices)
    BY <1>1, <1>4, <2>3, <2>5, <2>6, OrderAdded DEF s, p
  <2>9. Conserved(book', submitted, executed)
    BY <1>1, <2>3, <2>5, <2>7, AddedConserves DEF s, p
  <2>10. KeepsOrder(book, book')
    BY <1>1, <2>3, <2>5, <2>8, AddedKeepsOrder DEF s, p
  <2> QED BY <1>6, <2>8, <2>9, <2>10, <2>11
<1> QED BY <1>5, <1>6

(* What add_order reports and whether it announces the book.               *)
LEMMA Reported ==
  ASSUME IInv, AddFinish
  PROVE  /\ (report').status \in Statuses /\ (report').reject_reason \in Reasons
         /\ trades = <<>> /\ Rests(order, trades) => PublishesTob(order, trades)
         /\ (report').filled_qty = TradedQty
         /\ order.tif = "FOK" /\ order.qty > 0 => TradedQty \in {0, order.qty}
         /\ (report').status = "Filled" <=> TradedQty = order.qty
         /\ (report').status = "PartiallyFilled" <=> TradedQty \in 1..(order.qty - 1)
         /\ order.type = "Limit" => ((report').leaves_qty > 0 <=> Rests(order, trades))
         /\ Rests(order, trades) => (report').leaves_qty = Left
<1>1. /\ Types /\ Sound /\ order \in Orders /\ report' = AddReport(order, trades)
      /\ Left >= 0 \/ trades = <<>>
      /\ executed[order.id] = TradedQty
      /\ pc = "finish" => trades = <<>>
      /\ pc = "match" /\ order.tif = "FOK" => Available(book, order) >= Left
      /\ pc = "finish" \/ (pc = "match" /\ ~CanMatch(book, order, Left))
  BY DEF IInv, AddFinish, InCall
<1>2. TradedQty \in Int /\ Left \in Int /\ order.qty \in Int /\ Left = order.qty - TradedQty
  BY <1>1, TradedInt
<1>3. trades = <<>> => TradedQty = 0
  BY TotalEmpty DEF TradedQty
<1>4. Remaining(order, trades) = Left /\ TotalQty(trades) = TradedQty
  BY DEF Left, TradedQty
<1>5. pc = "match" /\ order.tif = "FOK" => Left <= 0
  <2> SUFFICES ASSUME pc = "match", order.tif = "FOK", Left > 0 PROVE FALSE
    BY <1>2
  <2> DEFINE s == Opposite(order.side)
             S == {p \in Prices(book, s) : Crosses(order, p)}
  <2>1. BookTyped(book, OrderIds, Traders, TickPrices) /\ TickPrices \in SUBSET Int
    BY <1>1, PricesAssumption DEF Sound, BookSound
  <2>2. s \in Sides /\ order.side \in Sides
    BY <1>1 DEF Opposite, Sides, Orders
  <2>3. S = {}
    <3> SUFFICES ASSUME NEW p \in Prices(book, s), Crosses(order, p) PROVE FALSE
      OBVIOUS
    <3> DEFINE best == BestPrice(book, s)
    <3>1. ~Crosses(order, best)
      BY <1>1 DEF CanMatch
    <3>2. best \in Prices(book, s) /\ IF s = Buy THEN p <= best ELSE best <= p
      BY <2>1, <2>2, BestIs
    <3>3. p \in Int /\ best \in Int
      BY <2>1, <2>2, <3>2 DEF BookTyped
    <3>4. order.price \in Int
      <4>1. order.price \in TickPrices \cup {0}
        BY <1>1 DEF Orders
      <4>2. \A x \in TickPrices \cup {0} : x \in Int
        BY PricesAssumption
      <4> QED BY <4>1, <4>2
    <3> HIDE DEF best
    <3>5. CASE order.side = Buy
      BY <3>1, <3>2, <3>3, <3>4, <3>5 DEF Crosses, Opposite, Buy, Sell
    <3>6. CASE order.side = Sell
      BY <3>1, <3>2, <3>3, <3>4, <3>6 DEF Crosses, Opposite, Buy, Sell
    <3> QED BY <2>2, <3>5, <3>6 DEF Sides
  <2>4. Available(book, order) = 0
    BY <2>1, <2>2, <2>3, AvailableIs
  <2> QED BY <1>1, <1>2, <2>4
<1>6. order.tif = "FOK" /\ order.qty > 0 => TradedQty \in {0, order.qty}
  BY <1>1, <1>2, <1>3, <1>5
<1>7. ~Kills(order, trades) \/ TradedQty = 0
  BY <1>1, <1>2, <1>3, <1>4, <1>5 DEF Kills
<1>8. (report').filled_qty = TradedQty
  BY <1>1, <1>4, <1>7 DEF AddReport
<1>9. (report').status = AddStatus(order, trades)
      /\ (report').reject_reason \in {"None", "InsufficientLiquidity"}
  BY <1>1 DEF AddReport
<1>10. AddStatus(order, trades) \in Statuses
  BY DEF AddStatus, Statuses
<1>11. trades = <<>> /\ Rests(order, trades) => AddStatus(order, trades) = "New"
  BY <1>2, <1>3, <1>4 DEF Rests, AddStatus, Kills, Expires
<1>12. /\ (report').status = "Filled" <=> TradedQty = order.qty
       /\ (report').status = "PartiallyFilled" <=> TradedQty \in 1..(order.qty - 1)
  <2>1. TradedQty \in Nat /\ (Left >= 0 \/ TradedQty = 0)
    BY <1>1, <1>3 DEF Types, Orders
  <2>2. CASE Kills(order, trades)
    BY <1>2, <1>4, <1>7, <1>9, <2>2 DEF AddStatus, Kills
  <2>3. CASE ~Kills(order, trades)
    <3>1. CASE Left = 0
      BY <1>2, <1>4, <1>9, <2>3, <3>1 DEF AddStatus
    <3>2. CASE Left # 0 /\ TradedQty > 0
      BY <1>2, <1>4, <1>9, <2>1, <2>3, <3>2 DEF AddStatus
    <3>3. CASE Left # 0 /\ TradedQty = 0
      BY <1>2, <1>4, <1>9, <2>3, <3>3 DEF AddStatus
    <3> QED BY <1>2, <2>1, <3>1, <3>2, <3>3
  <2> QED BY <2>2, <2>3
<1>13. /\ order.type = "Limit" => ((report').leaves_qty > 0 <=> Rests(order, trades))
       /\ Rests(order, trades) => (report').leaves_qty = Left
  <2>1. (report').leaves_qty = IF Kills(order, trades) \/ Expires(order, trades) THEN 0 ELSE Left
    BY <1>1, <1>4 DEF AddReport
  <2>2. order.tif \in {"Day", "GTC", "IOC", "FOK"}
    BY <1>1, TifsAssumption DEF Orders
  <2> QED BY <1>2, <1>4, <2>1, <2>2 DEF Rests, Kills, Expires
<1> QED BY <1>6, <1>8, <1>9, <1>10, <1>11, <1>12, <1>13 DEF Reasons, PublishesTob

LEMMA Finished ==
  ASSUME IInv, AddFinish
  PROVE  IInv'
<1>1. /\ BookSound(book', OrderIds, Traders, TickPrices)
      /\ Conserved(book', submitted, executed)
      /\ book' = book \/ Rests(order, trades)
      /\ order.id \in DOMAIN (book').index <=> Rests(order, trades)
  BY RemainderRests
<1>2. /\ (report').status \in Statuses /\ (report').reject_reason \in Reasons
      /\ trades = <<>> /\ Rests(order, trades) => PublishesTob(order, trades)
      /\ (report').filled_qty = TradedQty
      /\ order.tif = "FOK" /\ order.qty > 0 => TradedQty \in {0, order.qty}
      /\ (report').status = "Filled" <=> TradedQty = order.qty
      /\ (report').status = "PartiallyFilled" <=> TradedQty \in 1..(order.qty - 1)
      /\ order.type = "Limit" => ((report').leaves_qty > 0 <=> Rests(order, trades))
      /\ Rests(order, trades) => (report').leaves_qty = Left
  BY Reported
<1>3. /\ pc' = "idle" /\ order' = order /\ trades' = trades
      /\ submitted' = submitted /\ executed' = executed
      /\ tob' = IF PublishesTob(order, trades) THEN TopOfBook(book') ELSE tob
      /\ pc # "idle"
  BY DEF AddFinish
<1>4. Types /\ Published /\ executed[order.id] = TradedQty
  BY <1>3 DEF IInv, InCall
<1>5. Types'
  BY <1>2, <1>3, <1>4 DEF Types
<1>6. Sound' /\ AllConserved'
  BY <1>1, <1>3 DEF Sound, AllConserved
<1>7. InCall'
  BY <1>3 DEF InCall
<1>8. Published'
  <2>1. ~PublishesTob(order, trades) => trades = <<>>
    BY DEF PublishesTob
  <2>2. ~PublishesTob(order, trades) => book' = book /\ tob = TopOfBook(book)
    BY <1>1, <1>2, <1>4, <2>1 DEF Published
  <2>3. tob' = TopOfBook(book')
    BY <1>3, <2>2
  <2> QED BY <2>3 DEF Published
<1>9. ReportHonest'
  <2>1. (TradedQty)' = TradedQty
    BY <1>3 DEF TradedQty
  <2>3. /\ submitted[order.id] = order.qty /\ TradedQty \in Int /\ order.qty \in Int
        /\ Left = order.qty - TradedQty
    BY <1>3, TradedInt DEF IInv, InCall
  <2>2. LeavesAreResting'
    <3> SUFFICES ASSUME NEW s \in Sides, NEW p \in Prices(book', s),
                        NEW k \in DOMAIN (book').levels[s][p],
                        (book').levels[s][p][k].id = order.id
                 PROVE  (report').leaves_qty = (book').levels[s][p][k].qty
      BY <1>1, <1>2, <1>3 DEF LeavesAreResting
    <3> DEFINE e == (book').levels[s][p][k]
    <3>1. BookTyped(book', OrderIds, Traders, TickPrices) /\ IndexExact(book')
      BY <1>1 DEF BookSound
    <3>2. e \in L3Orders(OrderIds, Traders)
      BY <3>1 DEF BookTyped
    <3>3. e.id \in DOMAIN (book').index
      BY <3>1 DEF IndexExact
    <3>4. Accounted(e, submitted, executed)
      BY <1>1 DEF Conserved
    <3>5. e.qty \in Int /\ e.filled \in Int
      BY <3>2 DEF L3Orders
    <3>6. (report').leaves_qty = Left
      BY <1>1, <1>2, <3>3
    <3> HIDE DEF e
    <3>7. e.id = order.id
      BY DEF e
    <3>8. e.qty = order.qty - TradedQty
      BY <1>3, <1>4, <3>4, <3>5, <3>7, <2>3 DEF Accounted
    <3>9. e.qty = Left
      BY <2>3, <3>8
    <3> QED BY <3>6, <3>9 DEF e
  <2> QED BY <1>2, <1>3, <1>4, <2>1, <2>2 DEF ReportHonest
<1> QED BY <1>5, <1>6, <1>7, <1>8, <1>9 DEF IInv

-------------------------------------------------------------------------------
(* Every step keeps the invariant and the order of the queues.             *)

LEMMA NextInv ==
  ASSUME IInv, [Next]_vars
  PROVE  IInv' /\ KeepsOrder(book, book')
<1>1. /\ Types /\ BookSound(book, OrderIds, Traders, TickPrices)
      /\ Conserved(book, submitted, executed)
      /\ pc = "idle" => tob = TopOfBook(book)
  BY DEF IInv, Sound, AllConserved, Published
<1>2. book' = book => KeepsOrder(book, book')
  BY DEF KeepsOrder
<1>3. ASSUME NEW o \in Orders, AddBegin(o)
      PROVE  IInv' /\ KeepsOrder(book, book')
  <2>1. book' = book /\ tob' = TopOfBook(book') /\ report' = report
        /\ EnterAdd(book', o) /\ o.id \notin DOMAIN (book').index
    BY <1>1, <1>3 DEF AddBegin
  <2> QED BY <1>1, <1>2, <2>1, Entered
<1>4. ASSUME NEW o \in Orders, AddDuplicate(o)
      PROVE  IInv' /\ KeepsOrder(book, book')
  <2>1. (report').status \in Statuses /\ (report').reject_reason \in Reasons
    BY <1>4 DEF AddDuplicate, Rejection, NoReport, Statuses, Reasons
  <2>2. /\ pc' = "idle" /\ order' = NoOrder /\ trades' = <<>> /\ book' = book
        /\ submitted' = submitted /\ executed' = executed /\ tob' = TopOfBook(book')
    BY <1>1, <1>4 DEF AddDuplicate
  <2> QED BY <1>1, <1>2, <2>1, <2>2, Answered
<1>5. ASSUME NEW id \in OrderIds, Unknown(id)
      PROVE  IInv' /\ KeepsOrder(book, book')
  <2>1. (report').status \in Statuses /\ (report').reject_reason \in Reasons
    BY <1>5 DEF Unknown, Rejection, NoReport, Statuses, Reasons
  <2>2. /\ pc' = "idle" /\ order' = NoOrder /\ trades' = <<>> /\ book' = book
        /\ submitted' = submitted /\ executed' = executed /\ tob' = TopOfBook(book')
    BY <1>1, <1>5 DEF Unknown
  <2> QED BY <1>1, <1>2, <2>1, <2>2, Answered
<1>6. ASSUME NEW id \in OrderIds, Cancel(id)
      PROVE  IInv' /\ KeepsOrder(book, book')
  <2>1. id \in DOMAIN book.index /\ book' = RemoveOrder(book, id)
    BY <1>6 DEF Cancel
  <2>2. /\ BookSound(book', OrderIds, Traders, TickPrices)
        /\ Conserved(book', submitted, executed) /\ KeepsOrder(book, book')
    BY <1>1, <2>1, Taken
  <2>3. (report').status \in Statuses /\ (report').reject_reason \in Reasons
    <3>1. report' = CancelReport(book, id)
      BY <1>6 DEF Cancel
    <3>2. CancelReport(book, id).status = "Canceled" /\ CancelReport(book, id).reject_reason = "None"
      BY DEF CancelReport, NoReport
    <3> QED BY <3>1, <3>2 DEF Statuses, Reasons
  <2>4. /\ pc' = "idle" /\ order' = NoOrder /\ trades' = <<>>
        /\ submitted' = submitted /\ executed' = executed /\ tob' = TopOfBook(book')
    BY <1>6 DEF Cancel
  <2> QED BY <1>1, <2>2, <2>3, <2>4, Answered
<1>7. ASSUME NEW id \in OrderIds, NEW t \in Traders, NEW p \in TickPrices, NEW q \in Quantities,
             Replace(id, t, p, q)
      PROVE  IInv' /\ KeepsOrder(book, book')
  <2> DEFINE o == Replacement(book, id, t, p, q)
  <2>1. id \in DOMAIN book.index /\ book' = RemoveOrder(book, id)
    BY <1>7 DEF Replace
  <2>2. /\ BookSound(book', OrderIds, Traders, TickPrices)
        /\ Conserved(book', submitted, executed) /\ KeepsOrder(book, book')
        /\ id \notin DOMAIN (book').index /\ book.index[id].side \in Sides
    BY <1>1, <2>1, Taken
  <2>3. o \in Orders /\ o.id = id
    <3>1. p # 0
      BY PricesAssumption
    <3> QED BY <2>2, <3>1, TifsAssumption DEF Orders, Replacement
  <2>4. EnterAdd(book', o) /\ tob' = TopOfBook(book') /\ report' = report
    BY <1>7 DEF Replace
  <2> HIDE DEF o
  <2> QED BY <1>1, <2>2, <2>3, <2>4, Entered
<1>8. ASSUME Match PROVE IInv' /\ KeepsOrder(book, book')
  <2>1. PICK s, p, q, front : Trading(s, p, q, front)
    BY <1>8, NextTrade
  <2>2. KeepsOrder(book, book')
    BY <1>8, <2>1, TradedBook
  <2> QED BY <1>8, <2>2, Matched
<1>9. ASSUME AddFinish PROVE IInv' /\ KeepsOrder(book, book')
  BY <1>9, Finished, RemainderRests
<1>10. ASSUME UNCHANGED vars PROVE IInv' /\ KeepsOrder(book, book')
  <2>1. IInv'
    BY <1>10 DEF vars, IInv, Types, Sound, AllConserved, InCall, Published, ReportHonest,
                 LeavesAreResting, TradedQty, Left
  <2> QED BY <1>2, <1>10, <2>1 DEF vars
<1> QED BY <1>3, <1>4, <1>5, <1>6, <1>7, <1>8, <1>9, <1>10 DEF Next

THEOREM BookInvariant == Spec => []IInv
<1>1. IInv /\ [Next]_vars => IInv'
  BY NextInv
<1> QED BY InitInv, <1>1, PTL DEF Spec

-------------------------------------------------------------------------------
(* What follows from the invariant.                                        *)

(* The book, the call in progress and the records have their types.        *)
THEOREM BookTypes == Spec => []TypeOK
<1>1. IInv => TypeOK
  <2> SUFFICES ASSUME IInv PROVE TypeOK
    OBVIOUS
  <2>1. Types /\ BookTyped(book, OrderIds, Traders, TickPrices)
    BY DEF IInv, Sound, BookSound
  <2>2. L3Order = L3Orders(OrderIds, Traders)
    BY DEF L3Order, L3Orders
  <2> QED BY <2>1, <2>2 DEF TypeOK, Types, BookTyped
<1> QED BY BookInvariant, <1>1, PTL

(* Levels, index and counts describe the same orders, each once: a cancel  *)
(* finds every resting order and no iterator of the index dangles.         *)
THEOREM PartsAgree == Spec => []BookConsistent
<1>1. IInv => BookConsistent
  BY DEF IInv, Sound, BookSound, BookConsistent
<1> QED BY BookInvariant, <1>1, PTL

(* What is open and what was reported executed make up what was submitted, *)
(* for each resting order, after any sequence of calls.                    *)
THEOREM NothingLost == Spec => []QuantityConserved
<1>1. IInv => QuantityConserved
  BY DEF IInv, Sound, AllConserved, BookSound, OrdersSound, Conserved, Accounted, QuantityConserved
<1> QED BY BookInvariant, <1>1, PTL

(* The report of add_order says what the trade callback saw: its quantity, *)
(* its status and what is left are those of the trades and of the order    *)
(* that rests, and a fill-or-kill order trades in full or not at all: the  *)
(* check before the loop and the loop agree on what can be traded.         *)
THEOREM ReportsHonest == Spec => []ReportHonest
<1>1. IInv => ReportHonest
  BY DEF IInv
<1> QED BY BookInvariant, <1>1, PTL

(* Between calls subscribers hold the current top of a book that is not    *)
(* crossed.                                                                *)
THEOREM TopCurrent == Spec => []TopOfBookSound
<1>1. IInv => TopOfBookSound
  BY DEF IInv, Sound, BookSound, Uncrossed, Published, TopOfBookSound, TobCurrent, NotCrossed
<1> QED BY BookInvariant, <1>1, PTL

(* The stored position of an order is never better than its real one.      *)
THEOREM PositionsHonest == Spec => []PositionNotAhead
<1>1. IInv => PositionNotAhead
  <2> SUFFICES ASSUME IInv, NEW id \in DOMAIN book.index
               PROVE  queue_position(book, id) >= PlaceOf(book, id) - 1
    BY DEF PositionNotAhead
  <2>1. /\ BookTyped(book, OrderIds, Traders, TickPrices) /\ IndexExact(book)
        /\ OrdersSound(book)
    BY DEF IInv, Sound, BookSound
  <2> DEFINE s == book.index[id].side
             p == book.index[id].price
             k == PlaceOf(book, id)
  <2>2. LeadsTo(book, id, s, p, k)
    BY <2>1, FoundByIndex
  <2> HIDE DEF s, p, k
  <2>3. book.levels[s][p][k].queue_pos >= k - 1
    BY <2>1, <2>2 DEF LeadsTo, OrdersSound
  <2> QED BY <2>2, <2>3 DEF LeadsTo, queue_position, k
<1> QED BY BookInvariant, <1>1, PTL

(* The trade that match_against makes is with the order that has priority. *)
LEMMA MatchBestFirst ==
  ASSUME IInv, Match
  PROVE  BestFirst
<1>1. PICK s, p, q, front : Trading(s, p, q, front)
  BY NextTrade
<1>2. Last(trades') = [resting |-> front.id, trader |-> front.trader, price |-> p, qty |-> q]
  BY <1>1, Traded DEF Trading
<1>3. s = Opposite(order.side) /\ s \in Sides /\ Crosses(order, p) /\ p = BestPrice(book, s)
      /\ p \in Prices(book, s)
  BY <1>1 DEF Trading
<1>4. \A y \in Prices(book, s) : IF s = Buy THEN y <= p ELSE y >= p
  <2>1. BookTyped(book, OrderIds, Traders, TickPrices) /\ TickPrices \in SUBSET Int
    BY PricesAssumption DEF IInv, Sound, BookSound
  <2>2. \A y \in Prices(book, s) : IF s = Buy THEN y <= p ELSE p <= y
    BY <1>3, <2>1, BestIs
  <2>3. p \in Int /\ \A y \in Prices(book, s) : y \in Int
    BY <1>3, <2>1 DEF BookTyped
  <2> QED BY <2>2, <2>3
<1>5. quantity_ahead(book, front.id) = 0
  <2>1. PlaceOf(book, front.id) = 1
    BY <1>1, FrontRests
  <2>2. SubSeq(QueueOf(book, front.id), 1, 1 - 1) = <<>>
    BY SubSeqEmpty
  <2> QED BY <2>1, <2>2, TotalEmpty DEF quantity_ahead
<1> QED BY <1>2, <1>3, <1>4, <1>5 DEF BestFirst

LEMMA PriorityStep ==
  ASSUME IInv, Next
  PROVE  NoOvertaking /\ BestFirst
<1>1. NoOvertaking
  <2>1. KeepsOrder(book, book')
    BY NextInv
  <2> SUFFICES ASSUME NEW id1 \in OrderIds, NEW id2 \in OrderIds,
                      id1 \in DOMAIN book.index, Before(id2, id1)'
               PROVE  Before(id2, id1)
    BY DEF NoOvertaking
  <2>2. Precedes(book', id2, id1) /\ id2 \in DOMAIN (book').index
    BY DEF Before, Precedes
  <2> QED BY <2>1, <2>2 DEF Before, Precedes, KeepsOrder
<1>2. BestFirst
  <2>1. CASE Match
    BY <2>1, MatchBestFirst
  <2>2. CASE ~Match
    <3>1. trades' = trades \/ trades' = <<>>
      BY <2>2 DEF Next, AddBegin, AddDuplicate, AddFinish, Unknown, Cancel, Replace, EnterAdd
    <3> QED BY <3>1 DEF BestFirst
  <2> QED BY <2>1, <2>2
<1> QED BY <1>1, <1>2

(* No call puts an order in front of one that rests at its price, and      *)
(* every trade is at the best price, with the order that came first.       *)
THEOREM PriorityKept == Spec => PriceTimePriority
<1>1. IInv /\ [Next]_vars => [NoOvertaking /\ BestFirst]_vars
  BY PriorityStep
<1> QED BY BookInvariant, <1>1, PTL DEF Spec, PriceTimePriority

-------------------------------------------------------------------------------
(* The call in small steps is the call in one step.                        *)

Now == [book |-> book, trades |-> trades]

(* After as many iterations as there are trades, the loop of the call in   *)
(* one step is where the call in small steps is.                           *)
InStep ==
  pc # "idle" =>
    /\ order.id \notin DOMAIN before.index
    /\ Len(trades) <= TradedQty
    /\ pc = "match" => /\ CanFill(before, order)
                       /\ \A F : IsRun(F, before, order) => F[Len(trades)] = Now
    /\ pc = "finish" => ~CanFill(before, order) /\ Now = Start(before)

LEMMA InStepEntered ==
  ASSUME NEW o \in Orders, EnterAdd(book', o), o.id \notin DOMAIN (book').index
  PROVE  InStep'
<1>1. /\ order' = o /\ trades' = <<>> /\ before' = book'
      /\ pc' = (IF CanFill(book', o) THEN "match" ELSE "finish")
  BY DEF EnterAdd
<1>2. Len(trades') = 0 /\ (TradedQty)' = 0
  <2>1. Len(<<>>) = 0
    OBVIOUS
  <2> QED BY <1>1, <2>1, TotalEmpty DEF TradedQty
<1>3. (Now)' = Start(before')
  BY <1>1 DEF Now, Start
<1>4. \A F : IsRun(F, before', order') => F[0] = (Now)'
  BY <1>3 DEF IsRun, Runs
<1> QED BY <1>1, <1>2, <1>3, <1>4 DEF InStep

LEMMA InStepMatched ==
  ASSUME IInv, InStep, Match
  PROVE  InStep'
<1>1. PICK s, p, q, front : Trading(s, p, q, front)
  BY NextTrade
<1>2. /\ Types /\ order \in Orders /\ pc = "match" /\ CanMatch(book, order, Left)
      /\ order.id \notin DOMAIN before.index /\ Len(trades) <= TradedQty
      /\ CanFill(before, order)
      /\ \A F : IsRun(F, before, order) => F[Len(trades)] = Now
  BY DEF IInv, Match, InCall, InStep
<1>3. /\ pc' = pc /\ order' = order /\ before' = before
      /\ book' = MatchOne(book, order, Left)
      /\ trades' = Append(trades, TradeOf(book, order, Left))
  BY DEF Match
<1>4. (TradedQty)' = TradedQty + q
  BY <1>1, Traded
<1>5. TradedQty \in Int /\ Left \in Int /\ order.qty \in Int /\ Left = order.qty - TradedQty
  BY <1>2, TradedInt
<1>6. q \in Nat /\ 0 < q
  BY <1>1 DEF Trading
<1>7. Len(trades) \in Nat /\ Len(trades') = Len(trades) + 1
  <2>1. trades \in Seq(Trade) /\ trades' \in Seq(Trade)
    BY <1>1, <1>2, Traded DEF Types
  <2>2. Len(trades) \in Nat
    BY <2>1, LenProperties
  <2>3. Len(Append(trades, TradeOf(book, order, Left))) = Len(trades) + 1
    BY <2>1
  <2> QED BY <1>3, <2>2, <2>3
<1>8. Len(trades') <= (TradedQty)'
  BY <1>2, <1>4, <1>5, <1>6, <1>7
<1>9. ASSUME NEW F, IsRun(F, before, order)
      PROVE  F[Len(trades')] = (Now)'
  <2>1. F[Len(trades)] = Now
    BY <1>2, <1>9
  <2>2. Left > 0
    BY <1>2 DEF CanMatch
  <2>3. Len(trades) < order.qty
    BY <1>2, <1>5, <1>7, <2>2
  <2>4. F[Len(trades) + 1] = Iteration(order, Now)
    BY <1>7, <1>9, <2>1, <2>3 DEF IsRun, Runs
  <2>5. Iteration(order, Now) = [book |-> book', trades |-> trades']
    BY <1>2, <1>3 DEF Iteration, Now, Left
  <2> QED BY <1>7, <2>4, <2>5 DEF Now
<1> QED BY <1>2, <1>3, <1>8, <1>9 DEF InStep

LEMMA InStepNext ==
  ASSUME IInv, InStep, [Next]_vars
  PROVE  InStep'
<1>1. ASSUME NEW o \in Orders, AddBegin(o) PROVE InStep'
  <2>1. EnterAdd(book', o) /\ o.id \notin DOMAIN (book').index
    BY <1>1 DEF AddBegin
  <2> QED BY <2>1, InStepEntered
<1>2. ASSUME NEW id \in OrderIds, NEW t \in Traders, NEW p \in TickPrices, NEW q \in Quantities,
             Replace(id, t, p, q)
      PROVE  InStep'
  <2> DEFINE o == Replacement(book, id, t, p, q)
  <2>1. id \in DOMAIN book.index /\ book' = RemoveOrder(book, id) /\ EnterAdd(book', o)
    BY <1>2 DEF Replace
  <2>2. id \notin DOMAIN (book').index /\ book.index[id].side \in Sides
    <3>1. BookSound(book, OrderIds, Traders, TickPrices) /\ Conserved(book, submitted, executed)
      BY DEF IInv, Sound, AllConserved
    <3> QED BY <2>1, <3>1, Taken
  <2>3. o \in Orders /\ o.id = id
    <3>1. p # 0
      BY PricesAssumption
    <3> QED BY <2>2, <3>1, TifsAssumption DEF Orders, Replacement
  <2> HIDE DEF o
  <2> QED BY <2>1, <2>2, <2>3, InStepEntered
<1>3. ASSUME Match PROVE InStep'
  BY <1>3, InStepMatched
<1>4. ASSUME pc' = "idle" PROVE InStep'
  BY <1>4 DEF InStep
<1>5. ASSUME UNCHANGED vars PROVE InStep'
  BY <1>5 DEF vars, InStep, Now, TradedQty
<1> QED BY <1>1, <1>2, <1>3, <1>4, <1>5 DEF Next, AddDuplicate, AddFinish, Unknown, Cancel

(* When the loop ends, the loop of the call in one step has ended in the   *)
(* same state.                                                             *)
LEMMA LoopsAgree ==
  ASSUME IInv, InStep, AddFinish
  PROVE  match_incoming(before, order) = Now
<1>1. /\ Types /\ order \in Orders /\ Len(trades) <= TradedQty
      /\ Left >= 0 \/ trades = <<>>
  BY DEF IInv, InCall, InStep, AddFinish
<1>2. TradedQty \in Int /\ Left \in Int /\ order.qty \in Int /\ Left = order.qty - TradedQty
  BY <1>1, TradedInt
<1>3. CASE pc = "finish"
  BY <1>3 DEF InStep, match_incoming, Start
<1>4. CASE pc = "match"
  <2>1. CanFill(before, order) /\ ~CanMatch(book, order, Left)
    BY <1>4 DEF InStep, AddFinish
  <2>2. PICK n \in Nat : n = IF order.qty > 0 THEN order.qty ELSE 0
    BY <1>2
  <2>3. PICK F : IsRun(F, before, order) /\ match_incoming(before, order) = F[n]
    BY <1>2, <2>1, <2>2, MatchIncomingRuns
  <2>4. F[Len(trades)] = Now
    BY <1>4, <2>3 DEF InStep
  <2>5. Len(trades) \in Nat /\ (trades = <<>> => Len(trades) = 0)
    <3>1. trades \in Seq(Trade)
      BY <1>1 DEF Types
    <3> QED BY <3>1, LenProperties, EmptySeq
  <2>6. PICK k \in Nat : k = Len(trades)
    BY <2>5
  <2>7. k <= n /\ (n = 0 \/ n <= order.qty)
    BY <1>1, <1>2, <2>2, <2>5, <2>6
  <2>8. ~CanMatch(F[k].book, order, Remaining(order, F[k].trades))
    BY <2>1, <2>4, <2>6 DEF Now, Left
  <2>9. order.qty \in Int /\ IsRun(F, before, order)
    BY <1>2, <2>3
  <2>10. F[n] = F[k]
    BY <2>7, <2>8, <2>9, RunEnds
  <2> QED BY <2>3, <2>4, <2>6, <2>10
<1> QED BY <1>3, <1>4 DEF AddFinish

(* What other modules use as one step, add_order, is what the steps of the *)
(* call make of the book, the trades and the report.                       *)
THEOREM AddAtomic == Spec => AddIsAtomic
<1>1. Init => InStep
  BY DEF Init, InStep
<1>2. IInv /\ InStep /\ [Next]_vars => InStep'
  BY InStepNext
<1>3. ASSUME IInv, InStep, Next, pc # "idle", pc' = "idle"
      PROVE  add_order(before, order) = [book |-> book', trades |-> trades, report |-> report']
  <2>1. AddFinish
    BY <1>3 DEF Next, AddBegin, AddDuplicate, Match, Unknown, Cancel, Replace
  <2>2. match_incoming(before, order) = Now /\ order.id \notin DOMAIN before.index
    BY <1>3, <2>1, LoopsAgree DEF InStep
  <2>3. book' = RestRemainder(book, order, trades) /\ report' = AddReport(order, trades)
    BY <2>1 DEF AddFinish
  <2> QED BY <2>2, <2>3 DEF add_order, Now
<1>4. IInv /\ InStep /\ [Next]_vars =>
        [pc # "idle" /\ pc' = "idle" =>
           add_order(before, order) = [book |-> book', trades |-> trades, report |-> report']]_vars
  BY <1>3
<1> QED BY BookInvariant, <1>1, <1>2, <1>4, PTL DEF Spec, AddIsAtomic
===============================================================================
