----------------------------- MODULE L3OrderBook ------------------------------
(***************************************************************************)
(* One L3OrderBook object driven by arbitrary add, cancel and replace      *)
(* calls.  The calls are synchronous and the book is owned by one thread;  *)
(* an add takes one step per iteration of match_against, so that the       *)
(* properties also speak about the book between two trades of one order.   *)
(***************************************************************************)
EXTENDS L3Book

CONSTANTS
  OrderIds,      \* ids clients may use; an id may be reused
  TickPrices,    \* prices of limit orders, in ticks (positive: see RiskEngine)
  Quantities,    \* quantities clients may ask for; add_order does not check them
  Tifs,          \* times in force
  Traders,       \* traders
  MaxVolume      \* bound: no add or replace starts after this much has traded

ASSUME PricesAssumption == TickPrices \subseteq Nat \ {0}
ASSUME QuantitiesAssumption == Quantities \subseteq Int
ASSUME TifsAssumption ==
  Tifs \subseteq {"Day", "GTC", "IOC", "FOK"} /\ "Day" \in Tifs   \* replace_order's
ASSUME MaxVolumeAssumption == MaxVolume \in Nat

VARIABLES
  book,       \* the L3OrderBook object
  pc,         \* "idle", or inside add_order: "match" or "finish"
  order,      \* the order add_order was last called with
  trades,     \* result.trades of that call
  report,     \* the last ExecutionReport returned
  tob,        \* the last TopOfBook passed to the callback
  before,     \* history: the book when the add in progress was entered
  submitted,  \* history: quantity of the last accepted order of each id
  executed    \* history: how much of it the trade callback reported

vars == <<book, pc, order, trades, report, tob, before, submitted, executed>>

(* A market order's price is ignored by the book: 0 stands for it.         *)
Orders ==
  {o \in [id : OrderIds, trader : Traders, side : Sides, type : {"Limit", "Market"},
          tif : Tifs, price : TickPrices \cup {0}, qty : Quantities] :
     o.type = "Market" <=> o.price = 0}

Trade == [resting : OrderIds, trader : Traders, price : TickPrices, qty : Nat]

L3Order ==
  [id : OrderIds, trader : Traders, qty : Nat, filled : Nat, queue_pos : Nat]

Statuses == {"None", "New", "PartiallyFilled", "Filled", "Canceled", "Rejected"}
Reasons == {"None", "DuplicateOrderId", "InsufficientLiquidity"}

NoOrder == [id |-> 0, side |-> Buy, type |-> "Limit", tif |-> "Day", qty |-> 0]

TypeOK ==
  /\ \A s \in Sides : /\ Prices(book, s) \subseteq TickPrices
                      /\ \A p \in Prices(book, s) : book.levels[s][p] \in Seq(L3Order)
  /\ DOMAIN book.index \subseteq OrderIds
  /\ \A id \in DOMAIN book.index : book.index[id] \in [side : Sides, price : TickPrices]
  /\ book.count \in [Sides -> Nat]
  /\ book.trades \in Nat /\ book.volume \in Nat
  /\ pc \in {"idle", "match", "finish"}
  /\ order \in Orders \cup {NoOrder}
  /\ trades \in Seq(Trade)
  /\ report.status \in Statuses /\ report.reject_reason \in Reasons
  /\ submitted \in [OrderIds -> Int] /\ executed \in [OrderIds -> Nat]

TradedQty == TotalQty(trades)
Left == Remaining(order, trades)

Init ==
  /\ book = EmptyBook
  /\ pc = "idle"
  /\ order = NoOrder
  /\ trades = <<>>
  /\ report = NoReport
  /\ tob = TopOfBook(EmptyBook)
  /\ before = EmptyBook
  /\ submitted = [id \in OrderIds |-> 0]
  /\ executed = [id \in OrderIds |-> 0]

-------------------------------------------------------------------------------
(* add_order up to the matching loop: the duplicate check, then the        *)
(* fill-or-kill check of match_incoming.                                   *)

AddDuplicate(o) ==
  /\ pc = "idle"
  /\ o.id \in DOMAIN book.index
  /\ report' = Rejection(o.qty, "DuplicateOrderId")
  /\ order' = NoOrder /\ trades' = <<>>
  /\ UNCHANGED <<book, pc, tob, before, submitted, executed>>

(* add_order is entered with o, on book b.                                 *)
EnterAdd(b, o) ==
  /\ order' = o /\ trades' = <<>> /\ before' = b
  /\ pc' = IF CanFill(b, o) THEN "match" ELSE "finish"
  /\ submitted' = [submitted EXCEPT ![o.id] = o.qty]
  /\ executed' = [executed EXCEPT ![o.id] = 0]

AddBegin(o) ==
  /\ pc = "idle"
  /\ book.volume < MaxVolume
  /\ o.id \notin DOMAIN book.index
  /\ EnterAdd(book, o)
  /\ UNCHANGED <<book, report, tob>>

(* One trade of match_against.                                             *)
Match ==
  /\ pc = "match"
  /\ CanMatch(book, order, Left)
  /\ LET t == TradeOf(book, order, Left)
     IN  /\ trades' = Append(trades, t)
         /\ executed' = [executed EXCEPT ![t.resting] = @ + t.qty, ![order.id] = @ + t.qty]
  /\ book' = MatchOne(book, order, Left)
  /\ UNCHANGED <<pc, order, report, tob, before, submitted>>

(* The rest of add_order: the remainder, the report and the top-of-book    *)
(* callback.                                                               *)
AddFinish ==
  /\ \/ pc = "finish"
     \/ pc = "match" /\ ~CanMatch(book, order, Left)
  /\ book' = RestRemainder(book, order, trades)
  /\ report' = AddReport(order, trades)
  /\ tob' = IF PublishesTob(order, trades) THEN TopOfBook(book') ELSE tob
  /\ pc' = "idle" /\ before' = EmptyBook
  /\ UNCHANGED <<order, trades, submitted, executed>>

-------------------------------------------------------------------------------
(* cancel_order and replace_order.                                         *)

Unknown(id) ==
  /\ pc = "idle"
  /\ id \notin DOMAIN book.index
  /\ report' = Rejection(0, "None")
  /\ order' = NoOrder /\ trades' = <<>>
  /\ UNCHANGED <<book, pc, tob, before, submitted, executed>>

Cancel(id) ==
  /\ pc = "idle"
  /\ id \in DOMAIN book.index
  /\ book' = RemoveOrder(book, id)
  /\ tob' = TopOfBook(book')
  /\ report' = CancelReport(book, id)
  /\ order' = NoOrder /\ trades' = <<>>
  /\ UNCHANGED <<pc, before, submitted, executed>>

(* Cancel, then add_order with a Day limit order of the same id and side.  *)
Replace(id, trader, price, qty) ==
  /\ pc = "idle"
  /\ book.volume < MaxVolume
  /\ id \in DOMAIN book.index
  /\ book' = RemoveOrder(book, id)
  /\ tob' = TopOfBook(book')
  /\ EnterAdd(book', Replacement(book, id, trader, price, qty))
  /\ UNCHANGED report

Next ==
  \/ \E o \in Orders : AddBegin(o) \/ AddDuplicate(o)
  \/ Match
  \/ AddFinish
  \/ \E id \in OrderIds : Unknown(id) \/ Cancel(id)
  \/ \E id \in OrderIds, t \in Traders, p \in TickPrices, q \in Quantities :
       Replace(id, t, p, q)

Spec == Init /\ [][Next]_vars

-------------------------------------------------------------------------------
(* Properties.                                                             *)

(* Between calls the best bid is below the best ask.                       *)
NotCrossed ==
  pc = "idle" =>
    \A b \in Prices(book, Buy), a \in Prices(book, Sell) : b < a

(* The parts of the book describe the same orders.                         *)
BookConsistent == IndexExact(book) /\ CountsExact(book)

(* Open plus filled quantity of a resting order is what was submitted, and *)
(* its filled quantity is what the trade callback reported for it, over    *)
(* all the calls that ever touched it.                                     *)
QuantityConserved ==
  \A s \in Sides : \A p \in Prices(book, s) : \A k \in DOMAIN book.levels[s][p] :
    LET o == book.levels[s][p][k]
    IN  /\ o.qty > 0
        /\ o.qty + o.filled = submitted[o.id]
        /\ o.filled = executed[o.id] \/ (pc # "idle" /\ o.id = order.id)

(* What add_order says is left of an order is what rests of it. (Of a      *)
(* market order what is left is reported although it never rests.)         *)
LeavesAreResting ==
  /\ order.type = "Limit" => (report.leaves_qty > 0 <=> order.id \in DOMAIN book.index)
  /\ \A s \in Sides : \A p \in Prices(book, s) : \A k \in DOMAIN book.levels[s][p] :
       book.levels[s][p][k].id = order.id =>
         report.leaves_qty = book.levels[s][p][k].qty

(* The report of add_order: filled_qty is what the callback saw traded,    *)
(* the status says how much of the order that is, leaves_qty is what rests *)
(* of it, and a rejected fill-or-kill has traded nothing, so that nothing  *)
(* needs rolling back.                                                     *)
ReportHonest ==
  pc = "idle" /\ order # NoOrder =>
    /\ report.filled_qty = TradedQty
    /\ report.filled_qty = executed[order.id]
    /\ report.status = "Filled" <=> TradedQty = order.qty
    /\ report.status = "PartiallyFilled" <=> TradedQty \in 1..(order.qty - 1)
    /\ order.tif = "FOK" /\ order.qty > 0 => TradedQty \in {0, order.qty}
    /\ LeavesAreResting

(* What subscribers were last told is what the book looks like.            *)
TobCurrent == pc = "idle" => tob = TopOfBook(book)

(* Between calls the published top is that of the book and not crossed.    *)
TopOfBookSound == TobCurrent /\ NotCrossed

(* A stored queue position never flatters: it is at least the real one.    *)
(* (It is not always the real one: a fill leaves the positions of the      *)
(* orders behind as they were.)                                            *)
PositionNotAhead ==
  \A id \in DOMAIN book.index : queue_position(book, id) >= PlaceOf(book, id) - 1

(* Time priority: no step puts an order in front of one that was already  *)
(* resting at the same price, be it a newcomer or one that was behind it.  *)
Before(id1, id2) ==
  /\ id1 \in DOMAIN book.index /\ id2 \in DOMAIN book.index
  /\ book.index[id1] = book.index[id2]
  /\ PlaceOf(book, id1) < PlaceOf(book, id2)
NoOvertaking ==
  \A id1, id2 \in OrderIds :
    id1 \in DOMAIN book.index /\ Before(id2, id1)' => Before(id2, id1)

(* Price and time priority of executions: the order that trades is one no  *)
(* other order on its side could claim to precede.                         *)
BestFirst ==
  trades' # trades /\ trades' # <<>> =>
    LET side == Opposite(order.side)
        t == Last(trades')
    IN  /\ Crosses(order, t.price)
        /\ \A p \in Prices(book, side) :
             IF side = Buy THEN p <= t.price ELSE p >= t.price
        /\ quantity_ahead(book, t.resting) = 0

(* Price-time priority, of the queues and of the executions.               *)
PriceTimePriority == [][NoOvertaking /\ BestFirst]_vars

(* The call in one step that other modules use is the call in small steps. *)
AddIsAtomic ==
  [][pc # "idle" /\ pc' = "idle" =>
       add_order(before, order) = [book |-> book', trades |-> trades, report |-> report']]_vars

-------------------------------------------------------------------------------
(* A claim of the documentation that the code does not keep.               *)

(* "Fill entire quantity or reject completely"                             *)
FokFilledOrRejected ==
  pc = "idle" /\ order # NoOrder /\ order.tif = "FOK" /\ order.qty > 0 =>
    report.status \in {"Filled", "Rejected"}
===============================================================================
