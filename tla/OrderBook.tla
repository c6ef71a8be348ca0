------------------------------- MODULE OrderBook ------------------------------
(***************************************************************************)
(* src/market/order_book: the simple book, an alternative to L3OrderBook   *)
(* without reports, times in force or a check for duplicate ids.           *)
(*                                                                         *)
(* Its caller matches an incoming order and adds what is left of a limit   *)
(* order (addOrder itself does not match).  A twin L3 book gets the same   *)
(* orders and cancels.                                                     *)
(*                                                                         *)
(* An order resting in the book is a node of a std::list; its uid stands   *)
(* for the node's address, which is what an iterator of the index holds.   *)
(***************************************************************************)
EXTENDS L3Book

CONSTANTS
  BookOrders,   \* orders a caller may send
  MaxNodes      \* bound: no order is sent after this many were added

ASSUME BookOrdersAssumption ==
  \A o \in BookOrders : o.qty \in Nat /\ o.side \in Sides /\ o.price \in Int
ASSUME MaxNodesAssumption == MaxNodes \in Nat

VARIABLES
  queues,        \* bids_, asks_: queues of nodes by side and price
  order_index,   \* order_index_
  last_trades,   \* the trades of the last matchIncoming
  nodes,         \* number of list nodes made so far
  reused,        \* history: ids that were sent while an order of that id rested
  twin,          \* the L3OrderBook driven by the same calls
  twin_trades    \* the trades of its last add_order

simpleVars == <<queues, order_index, last_trades, nodes, reused, twin, twin_trades>>

BookIds == {o.id : o \in BookOrders}
Node == [uid : 1 .. MaxNodes, id : BookIds, qty : Nat]
NodesAt(side) == UNION {ToSet(queues[side][p]) : p \in DOMAIN queues[side]}
AllNodes == NodesAt(Buy) \cup NodesAt(Sell)

SimpleTypeOK ==
  /\ \A s \in Sides : /\ DOMAIN queues[s] \subseteq Int
                      /\ \A p \in DOMAIN queues[s] : queues[s][p] \in Seq(Node)
  /\ DOMAIN order_index \subseteq BookIds
  /\ \A id \in DOMAIN order_index :
       order_index[id] \in [side : Sides, price : Int, uid : 1 .. MaxNodes]
  /\ nodes \in 0 .. MaxNodes
  /\ reused \subseteq BookIds

SimpleInit ==
  /\ queues = [s \in Sides |-> EmptyMap]
  /\ order_index = EmptyMap
  /\ last_trades = <<>> /\ twin_trades = <<>>
  /\ nodes = 0 /\ reused = {}
  /\ twin = EmptyBook

-------------------------------------------------------------------------------
(* matchIncoming.                                                          *)

(* begin() of the side the order meets.                                    *)
BeginPrice(qs, side) == IF side = Buy THEN Max(DOMAIN qs[side]) ELSE Min(DOMAIN qs[side])

(* Fault: the limit is not looked at.                                      *)
MeetsAny(qs, o, remaining) == remaining > 0 /\ DOMAIN qs[Opposite(o.side)] # {}

Meets(qs, o, remaining) ==
  LET opp == Opposite(o.side)
  IN  /\ remaining > 0
      /\ DOMAIN qs[opp] # {}
      /\ Crosses(o, BeginPrice(qs, opp))

(* Fault: the index entry of a filled order stays.                         *)
TradeFrontKeepEntry(st, o) ==
  LET opp == Opposite(o.side)
      p == BeginPrice(st.queues, opp)
      queue == st.queues[opp][p]
      node == Head(queue)
      matched == Min({st.remaining, node.qty})
      left == IF matched = node.qty THEN Tail(queue) ELSE [queue EXCEPT ![1].qty = @ - matched]
  IN  [queues |-> [st.queues EXCEPT ![opp] = SetLevel(@, p, left)],
       index |-> st.index,
       trades |-> Append(st.trades, [resting |-> node.id, price |-> p, qty |-> matched]),
       remaining |-> st.remaining - matched]

(* One trade with the front of the best level; a filled order is erased,   *)
(* by its id, from the index.                                              *)
TradeFront(st, o) ==
  LET opp == Opposite(o.side)
      p == BeginPrice(st.queues, opp)
      queue == st.queues[opp][p]
      node == Head(queue)
      matched == Min({st.remaining, node.qty})
      filled == matched = node.qty
      left == IF filled THEN Tail(queue) ELSE [queue EXCEPT ![1].qty = @ - matched]
  IN  [queues |-> [st.queues EXCEPT ![opp] = SetLevel(@, p, left)],
       index |-> IF filled THEN Erase(st.index, node.id) ELSE st.index,
       trades |-> Append(st.trades, [resting |-> node.id, price |-> p, qty |-> matched]),
       remaining |-> st.remaining - matched]

matchIncoming(o) ==
  FoldLeft(LAMBDA st, i : IF Meets(st.queues, o, st.remaining) THEN TradeFront(st, o) ELSE st,
           [queues |-> queues, index |-> order_index, trades |-> <<>>, remaining |-> o.qty],
           [i \in 1 .. o.qty |-> i])

-------------------------------------------------------------------------------
(* addOrder: a second order of an id takes over the index entry.           *)

addOrder(st, o) ==
  LET at == st.queues[o.side]
      queue == IF o.price \in DOMAIN at THEN at[o.price] ELSE <<>>
      node == [uid |-> nodes + 1, id |-> o.id, qty |-> st.remaining]
  IN  /\ queues' = [st.queues EXCEPT ![o.side] = Put(@, o.price, Append(queue, node))]
      /\ order_index' =
           Put(st.index, o.id, [side |-> o.side, price |-> o.price, uid |-> nodes + 1])
      /\ nodes' = nodes + 1

TwinOrder(o) == [id |-> o.id, trader |-> 0, side |-> o.side, type |-> o.type,
                 tif |-> "Day", price |-> o.price, qty |-> o.qty]

Enter(o) ==
  /\ nodes < MaxNodes
  /\ reused' = IF \E n \in AllNodes : n.id = o.id THEN reused \cup {o.id} ELSE reused
  /\ LET st == matchIncoming(o)
         r == add_order(twin, TwinOrder(o))
     IN  /\ last_trades' = st.trades
         /\ IF st.remaining > 0 /\ o.type = "Limit"
            THEN addOrder(st, o)
            ELSE queues' = st.queues /\ order_index' = st.index /\ UNCHANGED nodes
         /\ twin' = r.book
         /\ twin_trades' =
              [k \in DOMAIN r.trades |->
                 [resting |-> r.trades[k].resting, price |-> r.trades[k].price,
                  qty |-> r.trades[k].qty]]

-------------------------------------------------------------------------------
(* cancelOrder.                                                            *)

(* The place in its queue of the node that an index entry denotes.         *)
PlaceIn(queue, uid) == CHOOSE k \in DOMAIN queue : queue[k].uid = uid

(* Fault: the level an order leaves empty is not erased.                   *)
WithoutKeepLevel(side, p, uid) ==
  LET queue == queues[side][p]
  IN  [queues EXCEPT ![side] = Put(@, p, RemoveAt(queue, PlaceIn(queue, uid)))]

(* The queues without that node.                                           *)
Without(side, p, uid) ==
  LET queue == queues[side][p]
  IN  [queues EXCEPT ![side] = SetLevel(@, p, RemoveAt(queue, PlaceIn(queue, uid)))]

cancelOrder(id) ==
  /\ IF id \in DOMAIN order_index
     THEN LET loc == order_index[id]
          IN  /\ queues' = Without(loc.side, loc.price, loc.uid)
              /\ order_index' = Erase(order_index, id)
     ELSE UNCHANGED <<queues, order_index>>
  /\ twin' = cancel_order(twin, id).book
  /\ last_trades' = <<>> /\ twin_trades' = <<>>
  /\ UNCHANGED <<nodes, reused>>

SimpleNext ==
  \/ \E o \in BookOrders : Enter(o)
  \/ \E id \in BookIds : cancelOrder(id)

SimpleSpec == SimpleInit /\ [][SimpleNext]_simpleVars

-------------------------------------------------------------------------------
(* Properties.                                                             *)

(* An entry of the index denotes a node that is in the list, under the     *)
(* side, price and id of the entry: erasing through it is defined, also    *)
(* when ids are reused.                                                    *)
NoDanglingEntry ==
  \A id \in DOMAIN order_index :
    LET loc == order_index[id]
    IN  /\ loc.price \in DOMAIN queues[loc.side]
        /\ \E n \in ToSet(queues[loc.side][loc.price]) : n.uid = loc.uid /\ n.id = id

(* An order can always be cancelled, unless its id was sent again while    *)
(* an order of that id rested.                                             *)
Cancellable ==
  \A n \in AllNodes : n.id \notin reused =>
    n.id \in DOMAIN order_index /\ order_index[n.id].uid = n.uid

IndexSound == NoDanglingEntry /\ Cancellable

(* bids and asks, without a bound on the depth.                            *)
LevelsOf(side) ==
  [p \in DOMAIN queues[side] |-> TotalQty(queues[side][p])]

(* "lightweight alternative to L3OrderBook": as long as no id was reused   *)
(* while its order rested, which the L3 book refuses, the two books show   *)
(* the same levels and make the same trades.                               *)
AgreesWithL3 ==
  reused = {} =>
    /\ \A s \in Sides :
         LevelsOf(s) = [p \in Prices(twin, s) |-> LevelInfo(twin, s, p).qty]
    /\ last_trades = twin_trades
===============================================================================
