----------------------------- MODULE L3BookLemmas -----------------------------
(***************************************************************************)
(* What the operations on a book do to it, for every book that is sound:   *)
(* trading, adding and removing an order keep it sound.                    *)
(***************************************************************************)
EXTENDS L3Book, CommonLemmas, SequenceTheorems, TLAPS

(* Quantities of queues.                                                   *)

(* The quantity of a queue, as a sum over its places.                      *)
LEMMA TotalIs ==
  ASSUME NEW R, \A r \in R : r.qty \in Int, NEW q \in Seq(R),
         NEW f, \A k \in 1 .. Len(q) : f[k] = q[k].qty
  PROVE  /\ TotalQty(q) = SumFunctionOnSet(f, 1 .. Len(q))
         /\ TotalQty(q) \in Int
         /\ \A k \in 1 .. Len(q) : f[k] \in Int
<1> DEFINE e == [k \in DOMAIN q |-> q[k].qty]
<1>1. DOMAIN e = 1 .. Len(q) /\ IsFiniteSet(1 .. Len(q)) /\ DOMAIN q = 1 .. Len(q)
  BY FS_Interval, LenProperties
<1>2. \A k \in 1 .. Len(q) : e[k] = f[k] /\ e[k] \in Int
  BY <1>1, ElementOfSeq
<1>3. TotalQty(q) = SumFunctionOnSet(e, DOMAIN e)
  BY DEF TotalQty, SumFunction
<1> HIDE DEF e
<1>4. SumFunctionOnSet(e, DOMAIN e) = SumFunctionOnSet(f, 1 .. Len(q))
  BY SMTT(30), <1>1, <1>2, SumSame
<1> QED BY <1>1, <1>2, <1>3, <1>4, SumRecursion

LEMMA TotalEmpty == TotalQty(<<>>) = 0
<1> DEFINE q == << >>
<1>1. q \in Seq({}) /\ 1 .. Len(q) = {}
  OBVIOUS
<1>2. TotalQty(q) = SumFunctionOnSet(q, 1 .. Len(q))
  <2>1. \A k \in 1 .. Len(q) : q[k] = q[k].qty
    BY <1>1
  <2> HIDE DEF q
  <2> QED BY <1>1, <2>1, TotalIs
<1> QED BY <1>1, <1>2, SumRecursion, FS_EmptySet

LEMMA TotalAppend ==
  ASSUME NEW R, \A r \in R : r.qty \in Int, NEW q \in Seq(R), NEW r \in R
  PROVE  TotalQty(Append(q, r)) = TotalQty(q) + r.qty
<1> DEFINE n == Len(q)
           a == Append(q, r)
           f == [k \in 1 .. n + 1 |-> IF k <= n THEN q[k].qty ELSE r.qty]
<1>1. n \in Nat /\ a \in Seq(R) /\ Len(a) = n + 1
  BY AppendProperties, LenProperties
<1>2. \A k \in 1 .. n + 1 : f[k] = a[k].qty
  BY AppendProperties
<1>3. \A k \in 1 .. n : f[k] = q[k].qty
  BY <1>1
<1> HIDE DEF n, a, f
<1>4. TotalQty(a) = SumFunctionOnSet(f, 1 .. (n + 1)) /\ \A k \in 1 .. n + 1 : f[k] \in Int
  BY <1>1, <1>2, TotalIs
<1>5. TotalQty(q) = SumFunctionOnSet(f, 1 .. n) /\ TotalQty(q) \in Int
  BY <1>3, TotalIs DEF n
<1>6. SumFunctionOnSet(f, 1 .. (n + 1)) = f[n + 1] + SumFunctionOnSet(f, 1 .. n)
  BY <1>1, <1>4, SumEnds
<1>7. f[n + 1] = r.qty /\ r.qty \in Int
  BY <1>1 DEF f
<1> QED BY <1>4, <1>5, <1>6, <1>7 DEF a

(* The first order of a queue, and the rest.                               *)
LEMMA TotalFirst ==
  ASSUME NEW R, \A r \in R : r.qty \in Int, NEW q \in Seq(R), q # <<>>
  PROVE  /\ TotalQty(q) = q[1].qty + TotalQty(Tail(q))
         /\ TotalQty(Tail(q)) \in Int
         /\ \A r \in R : TotalQty([q EXCEPT ![1] = r]) = r.qty + TotalQty(Tail(q))
<1>1. PICK n \in Nat : Len(q) = n + 1
  <2>1. Len(q) \in Nat /\ Len(q) # 0
    BY EmptySeq, LenProperties
  <2> QED BY <2>1
<1> DEFINE t == Tail(q)
           f == [k \in 1 .. n |-> t[k].qty]
<1>2. t \in Seq(R) /\ Len(t) = n /\ \A k \in 1 .. n : t[k] = q[k + 1]
  BY <1>1, HeadTailProperties
<1>3. TotalQty(t) = SumFunctionOnSet(f, 1 .. n) /\ TotalQty(t) \in Int
      /\ \A k \in 1 .. n : f[k] \in Int
  <2>1. \A k \in 1 .. n : f[k] = t[k].qty
    OBVIOUS
  <2> HIDE DEF f, t
  <2> QED BY <1>2, <2>1, TotalIs
<1>4. ASSUME NEW u \in Seq(R), Len(u) = n + 1, \A k \in 2 .. (n + 1) : u[k] = q[k]
      PROVE  TotalQty(u) = u[1].qty + TotalQty(t)
  <2> DEFINE e == [k \in 1 .. (n + 1) |-> u[k].qty]
  <2>1. \A k \in 1 .. n : e[k + 1] = f[k]
    <3>1. \A k \in 1 .. n : k + 1 \in 2 .. (n + 1) /\ k + 1 \in 1 .. (n + 1)
      OBVIOUS
    <3> QED BY <1>2, <1>4, <3>1
  <2>2. \A k \in 1 .. (n + 1) : e[k] = u[k].qty
    OBVIOUS
  <2> HIDE DEF e, f, t
  <2>3. TotalQty(u) = SumFunctionOnSet(e, 1 .. (n + 1)) /\ \A k \in 1 .. (n + 1) : e[k] \in Int
    BY <1>4, <2>2, TotalIs
  <2>4. SumFunctionOnSet(e, 1 .. (n + 1)) = e[1] + SumFunctionOnSet(e, 2 .. (n + 1))
    <3>1. 1 <= n + 1 /\ n \in Int /\ 1 \in Int
      OBVIOUS
    <3> QED BY <2>3, <3>1, SumEnds
  <2>5. SumFunctionOnSet(e, 2 .. (n + 1)) = SumFunctionOnSet(f, 1 .. n)
    BY <1>3, <2>1, SumShift
  <2>6. e[1] = u[1].qty
    <3>1. 1 \in 1 .. (n + 1)
      OBVIOUS
    <3> QED BY <2>2, <3>1
  <2> QED BY <1>3, <2>3, <2>4, <2>5, <2>6
<1> HIDE DEF t, f
<1>5. TotalQty(q) = q[1].qty + TotalQty(t)
  BY <1>1, <1>4
<1>6. ASSUME NEW r \in R
      PROVE  TotalQty([q EXCEPT ![1] = r]) = r.qty + TotalQty(t)
  <2> DEFINE u == [q EXCEPT ![1] = r]
  <2>1. u \in Seq(R) /\ Len(u) = n + 1 /\ u[1] = r /\ \A k \in 2 .. (n + 1) : u[k] = q[k]
    BY <1>1, ExceptSeq
  <2> HIDE DEF u
  <2>2. TotalQty(u) = r.qty + TotalQty(t)
    BY <1>4, <2>1
  <2> QED BY <2>2 DEF u
<1> QED BY <1>3, <1>5, <1>6 DEF t

-------------------------------------------------------------------------------
(* Best prices.                                                            *)

(* A finite set of numbers has a greatest and a least element.             *)
LEMMA Extremes ==
  ASSUME NEW S \in SUBSET Int, IsFiniteSet(S), S # {}
  PROVE  /\ Max(S) \in S /\ \A x \in S : x <= Max(S)
         /\ Min(S) \in S /\ \A x \in S : Min(S) <= x
<1> DEFINE HasMax(T) == \E x \in T : \A y \in T : x >= y
           HasMin(T) == \E x \in T : \A y \in T : x <= y
           B == {T \in SUBSET S : T # {} /\ ~(HasMax(T) /\ HasMin(T))}
<1>1. B = {}
  <2> SUFFICES ASSUME B # {} PROVE FALSE
    OBVIOUS
  <2>1. PICK T \in B : \A U \in B : Cardinality(T) <= Cardinality(U)
    BY SmallestSubset
  <2>2. PICK z \in T : TRUE
    OBVIOUS
  <2> DEFINE U == T \ {z}
  <2>3. U \in SUBSET S /\ Cardinality(T) \in Nat /\ Cardinality(U) = Cardinality(T) - 1
    BY SmallerPart
  <2>4. U \notin B
    <3> HIDE DEF B, U
    <3> QED BY <2>1, <2>3
  <2>5. CASE U = {}
    <3>1. T = {z} /\ z \in Int
      BY <2>5
    <3> QED BY <3>1
  <2>6. CASE U # {}
    <3>1. PICK x \in U : \A y \in U : x >= y
      BY <2>3, <2>4, <2>6
    <3>2. PICK w \in U : \A y \in U : w <= y
      BY <2>3, <2>4, <2>6
    <3>3. x \in Int /\ w \in Int /\ z \in Int /\ T = U \cup {z} /\ U \in SUBSET Int
      OBVIOUS
    <3>4. HasMax(T)
      <4> HIDE DEF U, B
      <4>1. CASE x >= z
        BY <3>1, <3>3, <4>1
      <4>2. CASE ~(x >= z)
        <5>1. \A y \in T : z >= y
          BY <3>1, <3>3, <4>2
        <5> QED BY <3>3, <5>1
      <4> QED BY <4>1, <4>2
    <3>5. HasMin(T)
      <4> HIDE DEF U, B
      <4>1. CASE w <= z
        BY <3>2, <3>3, <4>1
      <4>2. CASE ~(w <= z)
        <5>1. \A y \in T : z <= y
          BY <3>2, <3>3, <4>2
        <5> QED BY <3>3, <5>1
      <4> QED BY <4>1, <4>2
    <3> QED BY <3>4, <3>5
  <2> QED BY <2>5, <2>6
<1>2. HasMax(S) /\ HasMin(S)
  BY <1>1
<1> QED BY <1>2 DEF Max, Min

(* std::min and std::max of two numbers.                                   *)
LEMMA MinMaxOfTwo ==
  ASSUME NEW a \in Int, NEW b \in Int
  PROVE  /\ Min({a, b}) = IF a <= b THEN a ELSE b
         /\ Max({a, b}) = IF a >= b THEN a ELSE b
<1> DEFINE S == {a, b}
<1>1. S \in SUBSET Int /\ S # {} /\ a \in S /\ b \in S /\ \A x \in S : x = a \/ x = b
  OBVIOUS
<1>2. IsFiniteSet(S)
  <2>1. IsFiniteSet({a}) /\ S = {a} \cup {b}
    BY FS_Singleton
  <2> HIDE DEF S
  <2> QED BY <2>1, FS_AddElement
<1> HIDE DEF S
<1>3. /\ Max(S) \in S /\ \A x \in S : x <= Max(S)
      /\ Min(S) \in S /\ \A x \in S : Min(S) <= x
  BY <1>1, <1>2, Extremes
<1>4. PICK u \in Int, v \in Int : u = Min(S) /\ v = Max(S) /\ u \in S /\ v \in S
  BY <1>1, <1>3
<1>5. u <= a /\ u <= b /\ a <= v /\ b <= v /\ (u = a \/ u = b) /\ (v = a \/ v = b)
  BY <1>1, <1>3, <1>4
<1>6. u = (IF a <= b THEN a ELSE b) /\ v = (IF a >= b THEN a ELSE b)
  BY <1>5
<1> QED BY <1>4, <1>6 DEF S

-------------------------------------------------------------------------------
(* Sound books.                                                            *)

L3Orders(ids, traders) ==
  [id : ids, trader : traders, qty : Nat, filled : Nat, queue_pos : Nat]

(* The types of the parts of a book, with finitely many levels.            *)
BookTyped(b, ids, traders, prices) ==
  /\ b = [levels |-> b.levels, index |-> b.index, count |-> b.count,
          trades |-> b.trades, volume |-> b.volume, last_price |-> b.last_price]
  /\ b.levels = [s \in Sides |-> b.levels[s]]
  /\ \A s \in Sides :
       /\ Prices(b, s) \subseteq prices /\ IsFiniteSet(Prices(b, s))
       /\ \A p \in Prices(b, s) : b.levels[s][p] \in Seq(L3Orders(ids, traders))
  /\ DOMAIN b.index \subseteq ids /\ IsFiniteSet(DOMAIN b.index)
  /\ \A id \in DOMAIN b.index : b.index[id] \in [side : Sides, price : prices]
  /\ b.count \in [Sides -> Nat]
  /\ b.trades \in Nat /\ b.volume \in Nat

(* A resting order has something left to trade, and its stored position is *)
(* not ahead of its place.                                                 *)
OrdersSound(b) ==
  \A s \in Sides : \A p \in Prices(b, s) : \A k \in DOMAIN b.levels[s][p] :
    b.levels[s][p][k].qty > 0 /\ b.levels[s][p][k].queue_pos >= k - 1

Uncrossed(b) == \A x \in Prices(b, Buy), y \in Prices(b, Sell) : x < y

BookSound(b, ids, traders, prices) ==
  /\ BookTyped(b, ids, traders, prices)
  /\ IndexExact(b) /\ CountsExact(b) /\ OrdersSound(b) /\ Uncrossed(b)

LEMMA EmptyBookSound ==
  ASSUME NEW I, NEW T, NEW P
  PROVE  BookSound(EmptyBook, I, T, P)
<1>1. \A s \in Sides : Prices(EmptyBook, s) = {}
  BY DEF EmptyBook, EmptyMap, Prices
<1>2. DOMAIN EmptyBook.index = {}
  BY DEF EmptyBook, EmptyMap
<1>3. BookTyped(EmptyBook, I, T, P)
  BY <1>1, <1>2, FS_EmptySet DEF BookTyped, EmptyBook
<1>4. CountsExact(EmptyBook)
  <2>1. {id \in DOMAIN EmptyBook.index : TRUE} = {}
    BY <1>2
  <2>2. \A s \in Sides : {id \in DOMAIN EmptyBook.index : EmptyBook.index[id].side = s} = {}
    BY <1>2
  <2>3. \A s \in Sides : EmptyBook.count[s] = 0
    BY DEF EmptyBook
  <2> QED BY <1>1, <2>2, <2>3, FS_EmptySet DEF CountsExact
<1>5. IndexExact(EmptyBook)
  BY <1>1, <1>2 DEF IndexExact
<1>6. OrdersSound(EmptyBook) /\ Uncrossed(EmptyBook)
  BY <1>1 DEF OrdersSound, Uncrossed, Sides
<1> QED BY <1>3, <1>4, <1>5, <1>6 DEF BookSound

(* The levels of c are those of b, except that level p of side s holds q.  *)
LevelIs(b, c, s, p, q) == c.levels = [b.levels EXCEPT ![s] = SetLevel(@, p, q)]

(* What that means, level by level.                                        *)
LevelByLevel(b, c, s, p, q, ids, traders, prices) ==
  /\ c.levels = [x \in Sides |-> c.levels[x]]
  /\ \A x \in Sides : Prices(c, x) \subseteq prices /\ IsFiniteSet(Prices(c, x))
  /\ \A x \in Sides : \A y \in Prices(c, x) :
       /\ c.levels[x][y] \in Seq(L3Orders(ids, traders))
       /\ IF x = s /\ y = p THEN c.levels[x][y] = q /\ q # <<>>
          ELSE y \in Prices(b, x) /\ c.levels[x][y] = b.levels[x][y]
  /\ \A x \in Sides : \A y \in Prices(b, x) : ~(x = s /\ y = p) => y \in Prices(c, x)
  /\ q # <<>> => p \in Prices(c, s)

LEMMA LevelSet ==
  ASSUME NEW I, NEW T, NEW P, NEW b, BookTyped(b, I, T, P),
         NEW s \in Sides, NEW p \in P, NEW q \in Seq(L3Orders(I, T)),
         NEW c, LevelIs(b, c, s, p, q)
  PROVE  LevelByLevel(b, c, s, p, q, I, T, P)
<1> SUFFICES /\ c.levels = [x \in Sides |-> c.levels[x]]
             /\ \A x \in Sides : Prices(c, x) \subseteq P /\ IsFiniteSet(Prices(c, x))
             /\ \A x \in Sides : \A y \in Prices(c, x) :
                  /\ c.levels[x][y] \in Seq(L3Orders(I, T))
                  /\ IF x = s /\ y = p THEN c.levels[x][y] = q /\ q # <<>>
                     ELSE y \in Prices(b, x) /\ c.levels[x][y] = b.levels[x][y]
             /\ \A x \in Sides : \A y \in Prices(b, x) :
                  ~(x = s /\ y = p) => y \in Prices(c, x)
             /\ q # <<>> => p \in Prices(c, s)
  BY DEF LevelByLevel
<1>1. /\ DOMAIN b.levels = Sides
      /\ \A x \in Sides : Prices(b, x) \subseteq P /\ IsFiniteSet(Prices(b, x))
      /\ \A x \in Sides : \A y \in Prices(b, x) : b.levels[x][y] \in Seq(L3Orders(I, T))
  BY DEF BookTyped
<1>2. /\ c.levels = [x \in Sides |-> c.levels[x]]
      /\ c.levels[s] = SetLevel(b.levels[s], p, q)
      /\ \A x \in Sides \ {s} : c.levels[x] = b.levels[x]
  BY <1>1 DEF LevelIs, BookTyped
<1>3. \A x \in Sides \ {s} : Prices(c, x) = Prices(b, x)
  BY <1>2 DEF Prices
<1>4. CASE q = <<>>
  <2>1. c.levels[s] = [x \in DOMAIN b.levels[s] \ {p} |-> b.levels[s][x]]
    BY <1>2, <1>4 DEF SetLevel, Erase, Restrict
  <2>2. Prices(c, s) = Prices(b, s) \ {p}
    BY <2>1 DEF Prices
  <2>3. IsFiniteSet(Prices(c, s))
    BY <1>1, <2>2, FS_RemoveElement
  <2>4. \A y \in Prices(c, s) : c.levels[s][y] = b.levels[s][y]
    BY <2>1, <2>2 DEF Prices
  <2> QED BY <1>1, <1>2, <1>3, <1>4, <2>2, <2>3, <2>4
<1>5. CASE q # <<>>
  <2>1. c.levels[s] = [x \in DOMAIN b.levels[s] \cup {p} |-> IF x = p THEN q ELSE b.levels[s][x]]
    BY <1>2, <1>5 DEF SetLevel, Put
  <2>2. Prices(c, s) = Prices(b, s) \cup {p}
    BY <2>1 DEF Prices
  <2>3. IsFiniteSet(Prices(c, s))
    BY <1>1, <2>2, FS_AddElement
  <2>4. \A y \in Prices(c, s) : c.levels[s][y] = IF y = p THEN q ELSE b.levels[s][y]
    BY <2>1, <2>2 DEF Prices
  <2> QED BY ZenonT(30), <1>1, <1>2, <1>3, <1>5, <2>2, <2>3, <2>4
<1> QED BY <1>4, <1>5

(* c has all the fields of a book.                                         *)
IsBook(c) ==
  /\ c = [levels |-> c.levels, index |-> c.index, count |-> c.count,
          trades |-> c.trades, volume |-> c.volume, last_price |-> c.last_price]
  /\ c.trades \in Nat /\ c.volume \in Nat

(* The order at place k of a level is removed from queue, index and count; *)
(* the orders behind it move up and may be renumbered.                     *)
Removes(b, c, s, p, k, q) ==
  /\ LevelIs(b, c, s, p, q)
  /\ c.index = Erase(b.index, b.levels[s][p][k].id)
  /\ c.count = [b.count EXCEPT ![s] = @ - 1]
  /\ Len(q) = Len(b.levels[s][p]) - 1
  /\ \A j \in 1 .. Len(q) :
       LET o == b.levels[s][p][IF j < k THEN j ELSE j + 1]
       IN  /\ q[j].id = o.id /\ q[j].qty = o.qty /\ q[j].filled = o.filled
           /\ q[j].queue_pos >= j - 1

LEMMA OrderRemoved ==
  ASSUME NEW I, NEW T, NEW P \in SUBSET Int, NEW b, BookSound(b, I, T, P),
         NEW s \in Sides, NEW p \in Prices(b, s), NEW k \in DOMAIN b.levels[s][p],
         NEW q \in Seq(L3Orders(I, T)), NEW c, IsBook(c), Removes(b, c, s, p, k, q)
  PROVE  BookSound(c, I, T, P)
<1> DEFINE old == b.levels[s][p]
           id == old[k].id
<1>1. BookTyped(b, I, T, P) /\ IndexExact(b) /\ CountsExact(b) /\ OrdersSound(b) /\ Uncrossed(b)
  BY DEF BookSound
<1>2. p \in P /\ old \in Seq(L3Orders(I, T))
  BY <1>1 DEF BookTyped
<1>3. LevelIs(b, c, s, p, q)
  BY DEF Removes
<1>4. /\ c.levels = [x \in Sides |-> c.levels[x]]
      /\ \A x \in Sides : Prices(c, x) \subseteq P /\ IsFiniteSet(Prices(c, x))
      /\ \A x \in Sides : \A y \in Prices(c, x) :
           /\ c.levels[x][y] \in Seq(L3Orders(I, T))
           /\ IF x = s /\ y = p THEN c.levels[x][y] = q /\ q # <<>>
              ELSE y \in Prices(b, x) /\ c.levels[x][y] = b.levels[x][y]
      /\ \A x \in Sides : \A y \in Prices(b, x) : ~(x = s /\ y = p) => y \in Prices(c, x)
      /\ q # <<>> => p \in Prices(c, s)
  <2>1. LevelByLevel(b, c, s, p, q, I, T, P)
    BY <1>1, <1>2, <1>3, LevelSet
  <2> QED BY <2>1 DEF LevelByLevel
<1>5. /\ id \in DOMAIN b.index /\ b.index[id] = [side |-> s, price |-> p]
      /\ \A j \in DOMAIN old : old[j].id = id => j = k
  BY <1>1 DEF IndexExact
<1>6. /\ DOMAIN c.index = DOMAIN b.index \ {id}
      /\ \A x \in DOMAIN c.index : c.index[x] = b.index[x]
  BY DEF Removes, Erase, Restrict
<1>7. /\ DOMAIN old = 1 .. Len(old) /\ Len(old) \in Nat /\ DOMAIN q = 1 .. Len(q) /\ Len(q) \in Nat
      /\ k \in 1 .. Len(old) /\ Len(q) = Len(old) - 1
  BY <1>2, LenProperties DEF Removes
<1> DEFINE at(j) == IF j < k THEN j ELSE j + 1
<1>8. \A j \in DOMAIN q : /\ at(j) \in DOMAIN old /\ at(j) # k
                          /\ q[j].id = old[at(j)].id /\ q[j].qty = old[at(j)].qty
                          /\ q[j].queue_pos >= j - 1
  <2> TAKE j \in DOMAIN q
  <2>1. /\ q[j].id = old[at(j)].id /\ q[j].qty = old[at(j)].qty
        /\ q[j].queue_pos >= j - 1
    BY <1>7 DEF Removes
  <2>2. at(j) \in DOMAIN old /\ at(j) # k
    BY <1>7
  <2> QED BY <2>1, <2>2
<1>9. \A j, m \in DOMAIN q : at(j) = at(m) => j = m
  BY <1>7
<1>10. \A j \in DOMAIN old \ {k} : \E m \in DOMAIN q : q[m].id = old[j].id
  <2> TAKE j \in DOMAIN old \ {k}
  <2>1. CASE j < k
    <3>1. j \in DOMAIN q /\ at(j) = j
      BY <1>7, <2>1
    <3> QED BY <1>8, <3>1
  <2>2. CASE ~(j < k)
    <3>1. j - 1 \in DOMAIN q /\ at(j - 1) = j
      BY <1>7, <2>2
    <3> QED BY <1>8, <3>1
  <2> QED BY <2>1, <2>2
<1> HIDE DEF at
<1>11. BookTyped(c, I, T, P)
  <2>1. c.count \in [Sides -> Nat]
    <3>1. b.count \in [Sides -> Nat] /\ b.count[s] = Cardinality({x \in DOMAIN b.index : b.index[x].side = s})
      BY <1>1 DEF BookTyped, CountsExact
    <3>2. IsFiniteSet({x \in DOMAIN b.index : b.index[x].side = s})
      BY <1>1, FS_Subset DEF BookTyped
    <3>3. id \in {x \in DOMAIN b.index : b.index[x].side = s}
      BY <1>5
    <3>4. b.count[s] # 0
      BY <3>1, <3>2, <3>3, FS_EmptySet
    <3> QED BY <3>1, <3>4 DEF Removes
  <2>2. IsFiniteSet(DOMAIN c.index)
    <3> DEFINE D == DOMAIN b.index
    <3>1. IsFiniteSet(D) /\ DOMAIN c.index = D \ {id}
      BY <1>1, <1>6 DEF BookTyped
    <3> HIDE DEF D, id
    <3>2. IsFiniteSet(D \ {id})
      BY <3>1, FS_RemoveElement
    <3> QED BY <3>1, <3>2
  <2>3. DOMAIN c.index \subseteq I /\ \A x \in DOMAIN c.index : c.index[x] \in [side : Sides, price : P]
    BY <1>1, <1>6 DEF BookTyped
  <2>4. c = [levels |-> c.levels, index |-> c.index, count |-> c.count,
             trades |-> c.trades, volume |-> c.volume, last_price |-> c.last_price]
        /\ c.trades \in Nat /\ c.volume \in Nat
    BY DEF IsBook
  <2> QED BY <1>4, <2>1, <2>2, <2>3, <2>4 DEF BookTyped
<1>12. IndexExact(c)
  <2>1. ASSUME NEW x \in Sides, NEW y \in Prices(c, x), NEW j \in DOMAIN c.levels[x][y]
        PROVE  LET i == c.levels[x][y][j].id
               IN  /\ i \in DOMAIN c.index
                   /\ c.index[i] = [side |-> x, price |-> y]
                   /\ \A m \in DOMAIN c.levels[x][y] : c.levels[x][y][m].id = i => m = j
    <3>1. CASE x = s /\ y = p
      <4>1. c.levels[x][y] = q
        BY <1>4, <3>1
      <4>2. at(j) \in DOMAIN old /\ at(j) # k /\ q[j].id = old[at(j)].id
        BY <1>8, <4>1
      <4>3. q[j].id # id /\ q[j].id \in DOMAIN b.index /\ b.index[q[j].id] = [side |-> s, price |-> p]
        BY <1>1, <1>5, <4>2 DEF IndexExact
      <4>4. \A m \in DOMAIN q : q[m].id = q[j].id => m = j
        <5> TAKE m \in DOMAIN q
        <5> HAVE q[m].id = q[j].id
        <5>1. at(m) \in DOMAIN old /\ old[at(m)].id = old[at(j)].id
          BY <1>8, <4>2
        <5>2. at(m) = at(j)
          BY <1>1, <4>2, <5>1 DEF IndexExact
        <5> QED BY <1>9, <4>1, <5>2
      <4> QED BY <1>6, <3>1, <4>1, <4>3, <4>4
    <3>2. CASE ~(x = s /\ y = p)
      <4>1. y \in Prices(b, x) /\ c.levels[x][y] = b.levels[x][y]
        BY <1>4, <3>2
      <4> DEFINE i == b.levels[x][y][j].id
      <4>2. /\ i \in DOMAIN b.index /\ b.index[i] = [side |-> x, price |-> y]
            /\ \A m \in DOMAIN b.levels[x][y] : b.levels[x][y][m].id = i => m = j
        BY <1>1, <4>1 DEF IndexExact
      <4>3. i # id
        BY <1>5, <3>2, <4>2
      <4>4. c.levels[x][y][j].id = i
        BY <4>1
      <4> HIDE DEF i
      <4>5. i \in DOMAIN c.index /\ c.index[i] = [side |-> x, price |-> y]
        BY <1>6, <4>2, <4>3
      <4> QED BY <4>1, <4>2, <4>4, <4>5
    <3> QED BY <3>1, <3>2
  <2>2. ASSUME NEW i \in DOMAIN c.index
        PROVE  /\ c.index[i].price \in Prices(c, c.index[i].side)
               /\ \E j \in DOMAIN QueueOf(c, i) : QueueOf(c, i)[j].id = i
    <3> DEFINE x == c.index[i].side
               y == c.index[i].price
    <3>1. i # id /\ i \in DOMAIN b.index /\ c.index[i] = b.index[i]
      BY <1>6
    <3>2. x \in Sides /\ y \in Prices(b, x) /\ \E j \in DOMAIN b.levels[x][y] : b.levels[x][y][j].id = i
      BY ZenonT(30), <1>1, <3>1 DEF IndexExact, QueueOf, BookTyped
    <3>3. QueueOf(c, i) = c.levels[x][y]
      BY DEF QueueOf
    <3> HIDE DEF x, y
    <3>4. CASE x = s /\ y = p
      <4>1. PICK j \in DOMAIN old : old[j].id = i
        BY <3>2, <3>4
      <4>2. PICK m \in DOMAIN q : q[m].id = i
        BY <1>10, <3>1, <4>1
      <4>3. q # <<>>
        BY <1>7, <4>2
      <4>4. y \in Prices(c, x) /\ c.levels[x][y] = q
        BY <1>4, <3>4, <4>3
      <4> QED BY <3>3, <4>2, <4>4 DEF x, y
    <3>5. CASE ~(x = s /\ y = p)
      <4>1. y \in Prices(c, x) /\ c.levels[x][y] = b.levels[x][y]
        BY <1>4, <3>2, <3>5
      <4> QED BY <3>2, <3>3, <4>1 DEF x, y
    <3> QED BY <3>4, <3>5
  <2> QED BY <2>1, <2>2 DEF IndexExact
<1>13. CountsExact(c)
  <2> SUFFICES ASSUME NEW x \in Sides
               PROVE  /\ \A y \in Prices(c, x) : c.levels[x][y] # <<>>
                      /\ c.count[x] = Cardinality({i \in DOMAIN c.index : c.index[i].side = x})
    BY DEF CountsExact
  <2>1. ASSUME NEW y \in Prices(c, x) PROVE c.levels[x][y] # <<>>
    <3>1. CASE x = s /\ y = p
      BY <1>4, <3>1
    <3>2. CASE ~(x = s /\ y = p)
      BY <1>1, <1>4, <3>2 DEF CountsExact
    <3> QED BY <3>1, <3>2
  <2> DEFINE B == {i \in DOMAIN b.index : b.index[i].side = x}
             C == {i \in DOMAIN c.index : c.index[i].side = x}
  <2>2. IsFiniteSet(B) /\ b.count[x] = Cardinality(B) /\ b.count \in [Sides -> Nat]
    BY <1>1, FS_Subset DEF BookTyped, CountsExact
  <2> HIDE DEF id
  <2>3. CASE x = s
    <3>1. C = B \ {id} /\ id \in B
      BY <1>5, <1>6, <2>3
    <3>2. c.count[x] = b.count[x] - 1
      BY <2>2, <2>3 DEF Removes
    <3>3. Cardinality(C) = Cardinality(B) - 1
      <4> HIDE DEF B, C
      <4> QED BY <2>2, <3>1, FS_RemoveElement
    <3> QED BY <2>1, <2>2, <3>2, <3>3
  <2>4. CASE x # s
    <3>1. C = B
      BY <1>5, <1>6, <2>4
    <3>2. c.count[x] = b.count[x]
      BY <2>2, <2>4 DEF Removes
    <3> QED BY <2>1, <2>2, <3>1, <3>2
  <2> QED BY <2>3, <2>4
<1>14. OrdersSound(c)
  <2> SUFFICES ASSUME NEW x \in Sides, NEW y \in Prices(c, x), NEW j \in DOMAIN c.levels[x][y]
               PROVE  c.levels[x][y][j].qty > 0 /\ c.levels[x][y][j].queue_pos >= j - 1
    BY DEF OrdersSound
  <2>1. CASE x = s /\ y = p
    <3>1. c.levels[x][y] = q
      BY <1>4, <2>1
    <3>2. at(j) \in DOMAIN old /\ q[j].qty = old[at(j)].qty /\ q[j].queue_pos >= j - 1
      BY <1>8, <3>1
    <3>3. old[at(j)].qty > 0
      BY <1>1, <3>2 DEF OrdersSound
    <3> QED BY <3>1, <3>2, <3>3
  <2>2. CASE ~(x = s /\ y = p)
    <3>1. y \in Prices(b, x) /\ c.levels[x][y] = b.levels[x][y]
      BY <1>4, <2>2
    <3> QED BY <1>1, <3>1 DEF OrdersSound
  <2> QED BY <2>1, <2>2
<1>15. Uncrossed(c)
  <2>1. \A x \in Sides : Prices(c, x) \subseteq Prices(b, x)
    <3> TAKE x \in Sides
    <3>1. \A y \in Prices(c, x) : y \in Prices(b, x)
      BY <1>4
    <3> QED BY <3>1
  <2> QED BY <1>1, <2>1 DEF Uncrossed, Sides
<1> QED BY <1>11, <1>12, <1>13, <1>14, <1>15 DEF BookSound

(* The order at the front of a level has traded, but not all of it.        *)
Reduces(b, c, s, p, r) ==
  /\ LevelIs(b, c, s, p, [b.levels[s][p] EXCEPT ![1] = r])
  /\ c.index = b.index /\ c.count = b.count
  /\ r.id = b.levels[s][p][1].id /\ r.qty > 0 /\ r.queue_pos >= 0

LEMMA OrderReduced ==
  ASSUME NEW I, NEW T, NEW P \in SUBSET Int, NEW b, BookSound(b, I, T, P),
         NEW s \in Sides, NEW p \in Prices(b, s), NEW r \in L3Orders(I, T),
         NEW c, IsBook(c), Reduces(b, c, s, p, r)
  PROVE  BookSound(c, I, T, P)
<1> DEFINE old == b.levels[s][p]
           q == [old EXCEPT ![1] = r]
<1>1. BookTyped(b, I, T, P) /\ IndexExact(b) /\ CountsExact(b) /\ OrdersSound(b) /\ Uncrossed(b)
  BY DEF BookSound
<1>2. p \in P /\ old \in Seq(L3Orders(I, T)) /\ old # <<>>
  BY <1>1 DEF BookTyped, CountsExact
<1>3. /\ q \in Seq(L3Orders(I, T)) /\ DOMAIN q = DOMAIN old /\ q # <<>>
      /\ \A j \in DOMAIN q : q[j].id = old[j].id /\ q[j].qty > 0 /\ q[j].queue_pos >= j - 1
  <2>1. 1 \in DOMAIN old /\ DOMAIN old = 1 .. Len(old) /\ Len(old) \in Nat
    BY <1>2, EmptySeq, LenProperties
  <2>2. q \in Seq(L3Orders(I, T)) /\ DOMAIN q = DOMAIN old
    BY <1>2, <2>1, ExceptSeq
  <2>3. q[1] = r /\ \A j \in DOMAIN q \ {1} : q[j] = old[j]
    BY <2>1
  <2>4. \A j \in DOMAIN old : old[j].qty > 0 /\ old[j].queue_pos >= j - 1
    BY <1>1 DEF OrdersSound
  <2>5. r.id = old[1].id /\ r.qty > 0 /\ r.queue_pos >= 0
    BY DEF Reduces
  <2>6. q # <<>>
    BY <2>1, <2>2
  <2> HIDE DEF q, old
  <2> QED BY <2>2, <2>3, <2>4, <2>5, <2>6
<1>4. /\ c.levels = [x \in Sides |-> c.levels[x]]
      /\ \A x \in Sides : Prices(c, x) \subseteq P /\ IsFiniteSet(Prices(c, x))
      /\ \A x \in Sides : \A y \in Prices(c, x) :
           /\ c.levels[x][y] \in Seq(L3Orders(I, T))
           /\ IF x = s /\ y = p THEN c.levels[x][y] = q /\ q # <<>>
              ELSE y \in Prices(b, x) /\ c.levels[x][y] = b.levels[x][y]
      /\ \A x \in Sides : \A y \in Prices(b, x) : ~(x = s /\ y = p) => y \in Prices(c, x)
      /\ q # <<>> => p \in Prices(c, s)
  <2>1. LevelByLevel(b, c, s, p, q, I, T, P)
    BY <1>1, <1>2, <1>3, LevelSet DEF Reduces
  <2> QED BY <2>1 DEF LevelByLevel
<1>5. \A x \in Sides : Prices(c, x) = Prices(b, x)
  <2> TAKE x \in Sides
  <2>1. \A y \in Prices(c, x) : y \in Prices(b, x)
    BY <1>4
  <2>2. \A y \in Prices(b, x) : y \in Prices(c, x)
    BY <1>3, <1>4
  <2> QED BY <2>1, <2>2
<1> HIDE DEF q
<1>6. \A x \in Sides : \A y \in Prices(c, x) :
        /\ DOMAIN c.levels[x][y] = DOMAIN b.levels[x][y] /\ c.levels[x][y] # <<>>
        /\ \A j \in DOMAIN c.levels[x][y] :
             /\ c.levels[x][y][j].id = b.levels[x][y][j].id
             /\ c.levels[x][y][j].qty > 0 /\ c.levels[x][y][j].queue_pos >= j - 1
  <2> TAKE x \in Sides
  <2> TAKE y \in Prices(c, x)
  <2>1. CASE x = s /\ y = p
    <3>1. c.levels[x][y] = q
      BY <1>4, <2>1
    <3> QED BY <1>3, <2>1, <3>1
  <2>2. CASE ~(x = s /\ y = p)
    <3>1. y \in Prices(b, x) /\ c.levels[x][y] = b.levels[x][y]
      BY <1>4, <2>2
    <3> QED BY <1>1, <3>1 DEF OrdersSound, CountsExact
  <2> QED BY <2>1, <2>2
<1>7. c.index = b.index /\ c.count = b.count
  BY DEF Reduces
<1>8. BookTyped(c, I, T, P)
  BY <1>1, <1>4, <1>7 DEF BookTyped, IsBook
<1>9. IndexExact(c)
  <2>1. ASSUME NEW x \in Sides, NEW y \in Prices(c, x), NEW j \in DOMAIN c.levels[x][y]
        PROVE  LET i == c.levels[x][y][j].id
               IN  /\ i \in DOMAIN c.index
                   /\ c.index[i] = [side |-> x, price |-> y]
                   /\ \A m \in DOMAIN c.levels[x][y] : c.levels[x][y][m].id = i => m = j
    <3>1. /\ y \in Prices(b, x) /\ j \in DOMAIN b.levels[x][y]
          /\ DOMAIN c.levels[x][y] = DOMAIN b.levels[x][y]
          /\ \A m \in DOMAIN c.levels[x][y] : c.levels[x][y][m].id = b.levels[x][y][m].id
      BY <1>5, <1>6
    <3> DEFINE i == b.levels[x][y][j].id
    <3>2. /\ i \in DOMAIN b.index /\ b.index[i] = [side |-> x, price |-> y]
          /\ \A m \in DOMAIN b.levels[x][y] : b.levels[x][y][m].id = i => m = j
      BY <1>1, <3>1 DEF IndexExact
    <3> HIDE DEF i
    <3>3. c.levels[x][y][j].id = i
      BY <3>1 DEF i
    <3> QED BY <1>7, <3>1, <3>2, <3>3
  <2>2. ASSUME NEW i \in DOMAIN c.index
        PROVE  /\ c.index[i].price \in Prices(c, c.index[i].side)
               /\ \E j \in DOMAIN QueueOf(c, i) : QueueOf(c, i)[j].id = i
    <3>1. c.index[i].side \in Sides /\ c.index[i].price \in Prices(b, c.index[i].side)
      BY <1>1, <1>7 DEF IndexExact, BookTyped
    <3>2. PICK j \in DOMAIN QueueOf(b, i) : QueueOf(b, i)[j].id = i
      BY <1>1, <1>7 DEF IndexExact
    <3> DEFINE x == c.index[i].side
               y == c.index[i].price
    <3>3. QueueOf(b, i) = b.levels[x][y] /\ QueueOf(c, i) = c.levels[x][y]
      BY <1>7 DEF QueueOf
    <3>4. x \in Sides /\ y \in Prices(c, x)
      BY <1>5, <3>1
    <3> HIDE DEF x, y
    <3>5. j \in DOMAIN QueueOf(c, i) /\ QueueOf(c, i)[j].id = i
      BY <1>6, <3>2, <3>3, <3>4
    <3> QED BY <3>4, <3>5 DEF x, y
  <2> QED BY <2>1, <2>2 DEF IndexExact
<1>10. CountsExact(c)
  BY <1>1, <1>5, <1>6, <1>7 DEF CountsExact
<1>11. OrdersSound(c)
  BY <1>6 DEF OrdersSound
<1>12. Uncrossed(c)
  BY <1>1, <1>5 DEF Uncrossed, Sides
<1> QED BY <1>8, <1>9, <1>10, <1>11, <1>12 DEF BookSound

(* An order with a new id is put at the end of its level.                  *)
Adds(b, c, s, p, r) ==
  /\ LevelIs(b, c, s, p, Append(LevelOrNew(b, s, p), r))
  /\ c.index = Put(b.index, r.id, [side |-> s, price |-> p])
  /\ c.count = [b.count EXCEPT ![s] = @ + 1]
  /\ r.id \notin DOMAIN b.index /\ r.qty > 0
  /\ r.queue_pos >= Len(LevelOrNew(b, s, p))

(* That keeps the book sound if the price does not cross.                  *)
LEMMA OrderAdded ==
  ASSUME NEW I, NEW T, NEW P \in SUBSET Int, NEW b, BookSound(b, I, T, P),
         NEW s \in Sides, NEW p \in P, NEW r \in L3Orders(I, T),
         NEW c, IsBook(c), Adds(b, c, s, p, r),
         \A y \in Prices(b, Opposite(s)) : IF s = Buy THEN p < y ELSE y < p
  PROVE  BookSound(c, I, T, P)
<1> DEFINE old == LevelOrNew(b, s, p)
           q == Append(old, r)
           n == Len(old) + 1
<1>1. BookTyped(b, I, T, P) /\ IndexExact(b) /\ CountsExact(b) /\ OrdersSound(b) /\ Uncrossed(b)
  BY DEF BookSound
<1>2. /\ old \in Seq(L3Orders(I, T))
      /\ p \in Prices(b, s) => old = b.levels[s][p]
      /\ p \notin Prices(b, s) => old = <<>>
  <2>1. << >> \in Seq(L3Orders(I, T))
    BY EmptySeq
  <2> QED BY <1>1, <2>1 DEF BookTyped, LevelOrNew
<1>3. /\ r.id \notin DOMAIN b.index /\ r.qty > 0 /\ r.queue_pos >= Len(old)
      /\ DOMAIN c.index = DOMAIN b.index \cup {r.id}
      /\ c.index[r.id] = [side |-> s, price |-> p]
      /\ \A i \in DOMAIN b.index : c.index[i] = b.index[i]
  BY DEF Adds, Put
<1>4. /\ q \in Seq(L3Orders(I, T)) /\ q # <<>> /\ DOMAIN q = 1 .. n /\ q[n] = r
      /\ DOMAIN old = 1 .. n - 1 /\ n \in Nat \ {0} /\ Len(old) = n - 1
      /\ \A j \in 1 .. n - 1 : q[j] = old[j]
  BY <1>2, AppendProperties, LenProperties
<1>5. /\ c.levels = [x \in Sides |-> c.levels[x]]
      /\ \A x \in Sides : Prices(c, x) \subseteq P /\ IsFiniteSet(Prices(c, x))
      /\ \A x \in Sides : \A y \in Prices(c, x) :
           /\ c.levels[x][y] \in Seq(L3Orders(I, T))
           /\ IF x = s /\ y = p THEN c.levels[x][y] = q /\ q # <<>>
              ELSE y \in Prices(b, x) /\ c.levels[x][y] = b.levels[x][y]
      /\ \A x \in Sides : \A y \in Prices(b, x) : ~(x = s /\ y = p) => y \in Prices(c, x)
      /\ q # <<>> => p \in Prices(c, s)
  <2>1. LevelByLevel(b, c, s, p, q, I, T, P)
    BY <1>1, <1>4, LevelSet DEF Adds
  <2> QED BY <2>1 DEF LevelByLevel
<1>6. \A j \in 1 .. n - 1 : /\ old[j].id \in DOMAIN b.index /\ old[j].id # r.id
                            /\ b.index[old[j].id] = [side |-> s, price |-> p]
                            /\ \A m \in 1 .. n - 1 : old[m].id = old[j].id => m = j
                            /\ old[j].qty > 0 /\ old[j].queue_pos >= j - 1
  <2> TAKE j \in 1 .. n - 1
  <2>1. p \in Prices(b, s) /\ old = b.levels[s][p]
    BY <1>2, <1>4
  <2>2. j \in DOMAIN b.levels[s][p]
    BY <1>4, <2>1
  <2>3. old[j].id \in DOMAIN b.index /\ b.index[old[j].id] = [side |-> s, price |-> p]
        /\ \A m \in DOMAIN old : old[m].id = old[j].id => m = j
    BY <1>1, <2>1, <2>2 DEF IndexExact
  <2>4. old[j].qty > 0 /\ old[j].queue_pos >= j - 1
    BY <1>1, <2>1, <2>2 DEF OrdersSound
  <2> QED BY <1>3, <1>4, <2>3, <2>4
<1> HIDE DEF q, old, n
<1>7. BookTyped(c, I, T, P)
  <2>1. r.id \in I
    BY DEF L3Orders
  <2>2. IsFiniteSet(DOMAIN c.index)
    <3> DEFINE D == DOMAIN b.index
               e == r.id
    <3>1. IsFiniteSet(D) /\ DOMAIN c.index = D \cup {e}
      BY <1>1, <1>3 DEF BookTyped
    <3> HIDE DEF D, e
    <3> QED BY <3>1, FS_AddElement
  <2>3. DOMAIN c.index \subseteq I /\ \A i \in DOMAIN c.index : c.index[i] \in [side : Sides, price : P]
    BY <1>1, <1>3, <2>1 DEF BookTyped
  <2>4. c.count \in [Sides -> Nat]
    BY <1>1 DEF BookTyped, Adds
  <2> QED BY <1>5, <2>2, <2>3, <2>4 DEF BookTyped, IsBook
<1>8. IndexExact(c)
  <2>1. ASSUME NEW x \in Sides, NEW y \in Prices(c, x), NEW j \in DOMAIN c.levels[x][y]
        PROVE  LET i == c.levels[x][y][j].id
               IN  /\ i \in DOMAIN c.index
                   /\ c.index[i] = [side |-> x, price |-> y]
                   /\ \A m \in DOMAIN c.levels[x][y] : c.levels[x][y][m].id = i => m = j
    <3>1. CASE x = s /\ y = p
      <4>1. c.levels[x][y] = q
        BY <1>5, <3>1
      <4>2. CASE j = n
        <5>1. \A m \in 1 .. n : q[m].id = r.id => m = n
          BY <1>4, <1>6
        <5> QED BY <1>3, <1>4, <3>1, <4>1, <4>2, <5>1
      <4>3. CASE j # n
        <5>1. j \in 1 .. n - 1 /\ q[j] = old[j]
          BY <1>4, <4>1, <4>3
        <5>2. \A m \in 1 .. n : q[m].id = q[j].id => m = j
          BY <1>4, <1>6, <5>1
        <5> QED BY <1>3, <1>4, <1>6, <3>1, <4>1, <5>1, <5>2
      <4> QED BY <4>2, <4>3
    <3>2. CASE ~(x = s /\ y = p)
      <4>1. y \in Prices(b, x) /\ c.levels[x][y] = b.levels[x][y]
        BY <1>5, <3>2
      <4> QED BY <1>1, <1>3, <4>1 DEF IndexExact
    <3> QED BY <3>1, <3>2
  <2>2. ASSUME NEW i \in DOMAIN c.index
        PROVE  /\ c.index[i].price \in Prices(c, c.index[i].side)
               /\ \E j \in DOMAIN QueueOf(c, i) : QueueOf(c, i)[j].id = i
    <3>1. CASE i = r.id
      <4>1. QueueOf(c, i) = q /\ p \in Prices(c, s)
        BY <1>3, <1>4, <1>5, <3>1 DEF QueueOf
      <4> QED BY <1>3, <1>4, <3>1, <4>1
    <3>2. CASE i # r.id
      <4> DEFINE x == b.index[i].side
                 y == b.index[i].price
      <4>1. i \in DOMAIN b.index /\ c.index[i] = b.index[i]
        BY <1>3, <3>2
      <4>2. x \in Sides /\ y \in Prices(b, x) /\ \E j \in DOMAIN b.levels[x][y] : b.levels[x][y][j].id = i
        BY <1>1, <4>1 DEF IndexExact, QueueOf, BookTyped
      <4>3. QueueOf(c, i) = c.levels[x][y] /\ c.index[i].side = x /\ c.index[i].price = y
        BY <4>1 DEF QueueOf
      <4> HIDE DEF x, y
      <4>4. CASE x = s /\ y = p
        <5>1. c.levels[x][y] = q /\ y \in Prices(c, x) /\ b.levels[x][y] = old
          BY <1>2, <1>4, <1>5, <4>2, <4>4
        <5>2. PICK j \in DOMAIN old : old[j].id = i
          BY <4>2, <5>1
        <5>3. j \in DOMAIN q /\ q[j].id = i
          BY <1>4, <5>2
        <5> QED BY <4>3, <5>1, <5>3
      <4>5. CASE ~(x = s /\ y = p)
        <5>1. y \in Prices(c, x) /\ c.levels[x][y] = b.levels[x][y]
          BY <1>5, <4>2, <4>5
        <5> QED BY <4>2, <4>3, <5>1
      <4> QED BY <4>4, <4>5
    <3> QED BY <3>1, <3>2
  <2> QED BY <2>1, <2>2 DEF IndexExact
<1>9. CountsExact(c)
  <2> SUFFICES ASSUME NEW x \in Sides
               PROVE  /\ \A y \in Prices(c, x) : c.levels[x][y] # <<>>
                      /\ c.count[x] = Cardinality({i \in DOMAIN c.index : c.index[i].side = x})
    BY DEF CountsExact
  <2>1. ASSUME NEW y \in Prices(c, x) PROVE c.levels[x][y] # <<>>
    <3>1. CASE x = s /\ y = p
      BY <1>5, <3>1
    <3>2. CASE ~(x = s /\ y = p)
      BY <1>1, <1>5, <3>2 DEF CountsExact
    <3> QED BY <3>1, <3>2
  <2> DEFINE B == {i \in DOMAIN b.index : b.index[i].side = x}
             C == {i \in DOMAIN c.index : c.index[i].side = x}
  <2>2. IsFiniteSet(B) /\ b.count[x] = Cardinality(B) /\ b.count \in [Sides -> Nat]
    BY <1>1, FS_Subset DEF BookTyped, CountsExact
  <2>3. CASE x = s
    <3>1. C = B \cup {r.id} /\ r.id \notin B
      BY <1>3, <2>3
    <3>2. c.count[x] = b.count[x] + 1
      BY <2>2, <2>3 DEF Adds
    <3>3. Cardinality(C) = Cardinality(B) + 1
      <4> HIDE DEF B, C
      <4> QED BY <2>2, <3>1, FS_AddElement
    <3> QED BY <2>1, <2>2, <3>2, <3>3
  <2>4. CASE x # s
    <3>1. C = B
      BY <1>3, <2>4
    <3>2. c.count[x] = b.count[x]
      BY <2>2, <2>4 DEF Adds
    <3> QED BY <2>1, <2>2, <3>1, <3>2
  <2> QED BY <2>3, <2>4
<1>10. OrdersSound(c)
  <2> SUFFICES ASSUME NEW x \in Sides, NEW y \in Prices(c, x), NEW j \in DOMAIN c.levels[x][y]
               PROVE  c.levels[x][y][j].qty > 0 /\ c.levels[x][y][j].queue_pos >= j - 1
    BY DEF OrdersSound
  <2>1. CASE x = s /\ y = p
    <3>1. c.levels[x][y] = q
      BY <1>5, <2>1
    <3>2. CASE j = n
      BY <1>3, <1>4, <3>1, <3>2
    <3>3. CASE j # n
      BY <1>4, <1>6, <3>1, <3>3
    <3> QED BY <3>2, <3>3
  <2>2. CASE ~(x = s /\ y = p)
    <3>1. y \in Prices(b, x) /\ c.levels[x][y] = b.levels[x][y]
      BY <1>5, <2>2
    <3> QED BY <1>1, <3>1 DEF OrdersSound
  <2> QED BY <2>1, <2>2
<1>11. Uncrossed(c)
  <2>1. \A x \in Sides : \A y \in Prices(c, x) : y \in Prices(b, x) \/ (x = s /\ y = p)
    BY <1>5
  <2>2. \A x \in Prices(b, Buy), y \in Prices(b, Sell) : x < y
    BY <1>1 DEF Uncrossed
  <2>3. CASE s = Buy
    BY <2>1, <2>2, <2>3 DEF Uncrossed, Sides, Opposite, Buy, Sell
  <2>4. CASE s = Sell
    BY <2>1, <2>2, <2>4 DEF Uncrossed, Sides, Opposite, Buy, Sell
  <2> QED BY <2>3, <2>4 DEF Sides
<1> QED BY <1>7, <1>8, <1>9, <1>10, <1>11 DEF BookSound

-------------------------------------------------------------------------------
(* What rests where.                                                       *)

(* The order at place k of a level is the one its id leads to.             *)
LEMMA PlaceIs ==
  ASSUME NEW b, IndexExact(b),
         NEW s \in Sides, NEW p \in Prices(b, s), NEW k \in DOMAIN b.levels[s][p]
  PROVE  LET id == b.levels[s][p][k].id
         IN  /\ id \in DOMAIN b.index /\ b.index[id] = [side |-> s, price |-> p]
             /\ QueueOf(b, id) = b.levels[s][p] /\ PlaceOf(b, id) = k
<1> DEFINE id == b.levels[s][p][k].id
<1>1. /\ id \in DOMAIN b.index /\ b.index[id] = [side |-> s, price |-> p]
      /\ \A j \in DOMAIN b.levels[s][p] : b.levels[s][p][j].id = id => j = k
  BY DEF IndexExact
<1>2. QueueOf(b, id) = b.levels[s][p]
  BY <1>1 DEF QueueOf
<1>3. PlaceOf(b, id) = k
  BY <1>1, <1>2 DEF PlaceOf
<1> QED BY <1>1, <1>2, <1>3

(* Every id in the index leads to an order: the one at place k of level p  *)
(* of side s.                                                              *)
LeadsTo(b, id, s, p, k) ==
  /\ b.index[id] = [side |-> s, price |-> p]
  /\ s \in Sides /\ p \in Prices(b, s) /\ k \in DOMAIN b.levels[s][p]
  /\ b.levels[s][p][k].id = id
  /\ QueueOf(b, id) = b.levels[s][p] /\ PlaceOf(b, id) = k

LEMMA FoundByIndex ==
  ASSUME NEW I, NEW T, NEW P, NEW b, BookTyped(b, I, T, P), IndexExact(b),
         NEW id \in DOMAIN b.index
  PROVE  LeadsTo(b, id, b.index[id].side, b.index[id].price, PlaceOf(b, id))
<1>1. b.index[id] \in [side : Sides, price : P]
  BY DEF BookTyped
<1>2. PICK k \in DOMAIN QueueOf(b, id) : QueueOf(b, id)[k].id = id
  BY DEF IndexExact
<1>3. PlaceOf(b, id) \in DOMAIN QueueOf(b, id) /\ QueueOf(b, id)[PlaceOf(b, id)].id = id
  BY <1>2 DEF PlaceOf
<1>4. b.index[id].price \in Prices(b, b.index[id].side)
  BY DEF IndexExact
<1> QED BY <1>1, <1>3, <1>4 DEF QueueOf, LeadsTo

LEMMA BestIs ==
  ASSUME NEW I, NEW T, NEW P \in SUBSET Int, NEW b, BookTyped(b, I, T, P),
         NEW s \in Sides, Prices(b, s) # {}
  PROVE  /\ BestPrice(b, s) \in Prices(b, s)
         /\ \A y \in Prices(b, s) :
              IF s = Buy THEN y <= BestPrice(b, s) ELSE BestPrice(b, s) <= y
<1> DEFINE S == Prices(b, s)
<1>1. S \in SUBSET Int /\ IsFiniteSet(S)
  BY DEF BookTyped
<1> HIDE DEF S
<1>2. S # {} => /\ Max(S) \in S /\ \A x \in S : x <= Max(S)
                /\ Min(S) \in S /\ \A x \in S : Min(S) <= x
  BY <1>1, Extremes
<1> QED BY <1>2 DEF BestPrice, S

-------------------------------------------------------------------------------
(* What the operations do to the book.                                     *)

(* A trade of q with the front of level p of side s.                       *)
Trades(b, c, s, p, q) ==
  LET front == b.levels[s][p][1]
  IN  IF q = front.qty THEN Removes(b, c, s, p, 1, Tail(b.levels[s][p]))
      ELSE Reduces(b, c, s, p, Reduce(front, q))

LEMMA MatchOneTrades ==
  ASSUME NEW I, NEW T, NEW P \in SUBSET Int, NEW b, BookSound(b, I, T, P),
         NEW o, o.side \in Sides, NEW rem \in Int, CanMatch(b, o, rem)
  PROVE  LET s == Opposite(o.side)
             p == BestPrice(b, s)
             c == MatchOne(b, o, rem)
             q == MatchQty(b, o, rem)
             front == b.levels[s][p][1]
         IN  /\ IsBook(c) /\ Trades(b, c, s, p, q)
             /\ s \in Sides /\ p \in Prices(b, s) /\ Crosses(o, p)
             /\ b.levels[s][p] \in Seq(L3Orders(I, T)) /\ b.levels[s][p] # <<>>
             /\ NextResting(b, o) = front
             /\ q \in Nat /\ 0 < q /\ q <= rem /\ q <= front.qty
             /\ front \in L3Orders(I, T)
             /\ q # front.qty => Reduce(front, q) \in L3Orders(I, T)
<1> DEFINE s == Opposite(o.side)
           p == BestPrice(b, s)
           old == b.levels[s][p]
           c == MatchOne(b, o, rem)
           q == MatchQty(b, o, rem)
           front == old[1]
<1>1. BookTyped(b, I, T, P) /\ CountsExact(b) /\ OrdersSound(b)
  BY DEF BookSound
<1>2. s \in Sides /\ Prices(b, s) # {} /\ rem > 0 /\ Crosses(o, p)
  BY DEF CanMatch, Opposite, Sides
<1>3. p \in Prices(b, s)
  BY <1>1, <1>2, BestIs
<1>4. old \in Seq(L3Orders(I, T)) /\ old # <<>>
  BY <1>1, <1>2, <1>3 DEF BookTyped, CountsExact
<1>5. 1 \in DOMAIN old /\ front \in L3Orders(I, T) /\ Len(old) \in Nat /\ Len(old) # 0
  BY <1>4, EmptySeq, LenProperties, ElementOfSeq
<1>6. front.qty > 0 /\ front.queue_pos >= 0
  <2>1. old[1].qty > 0 /\ old[1].queue_pos >= 1 - 1
    BY <1>1, <1>2, <1>3, <1>5 DEF OrdersSound
  <2> QED BY <2>1
<1>7. NextResting(b, o) = front
  BY <1>4 DEF NextResting
<1>8. q = IF rem < front.qty THEN rem ELSE front.qty
  BY <1>7 DEF MatchQty
<1>9. front.qty \in Nat /\ front.filled \in Nat /\ front.queue_pos \in Nat
      /\ front.id \in I /\ front.trader \in T
  BY <1>5 DEF L3Orders
<1>10. q \in Nat /\ 0 < q /\ q <= rem /\ q <= front.qty
  BY <1>2, <1>6, <1>8, <1>9
<1>11. Reduce(front, q) = [id |-> front.id, trader |-> front.trader, qty |-> front.qty - q,
                           filled |-> front.filled + q, queue_pos |-> front.queue_pos]
  <2> HIDE DEF front, q
  <2> DEFINE r == [front EXCEPT !.qty = @ - q]
  <2>1. front = [id |-> front.id, trader |-> front.trader, qty |-> front.qty,
                 filled |-> front.filled, queue_pos |-> front.queue_pos]
    BY <1>5 DEF L3Orders
  <2>2. r = [id |-> front.id, trader |-> front.trader, qty |-> front.qty - q,
             filled |-> front.filled, queue_pos |-> front.queue_pos]
    BY <2>1
  <2>3. r.filled = front.filled
    BY <2>1, <2>2
  <2>4. Reduce(front, q) = [r EXCEPT !.filled = front.filled + q]
    BY <2>1, <2>3, Zenon DEF Reduce
  <2> HIDE DEF r
  <2> QED BY <2>2, <2>4
<1>12. /\ c.levels = [b.levels EXCEPT ![s] =
                       SetLevel(@, p, IF q = front.qty THEN Tail(old)
                                      ELSE [old EXCEPT ![1] = Reduce(@, q)])]
       /\ c.index = IF q = front.qty THEN Erase(b.index, front.id) ELSE b.index
       /\ c.count = [b.count EXCEPT ![s] = IF q = front.qty THEN @ - 1 ELSE @]
       /\ c.trades = b.trades + 1 /\ c.volume = b.volume + q
       /\ c = [levels |-> c.levels, index |-> c.index, count |-> c.count,
               trades |-> c.trades, volume |-> c.volume, last_price |-> c.last_price]
  BY <1>7, <1>4 DEF MatchOne, NextResting
<1> HIDE DEF s, p, old, c, q, front
<1>13. IsBook(c)
  BY <1>1, <1>10, <1>12 DEF IsBook, BookTyped
<1>14. CASE q = front.qty
  <2> DEFINE t == Tail(old)
  <2>1. t \in Seq(L3Orders(I, T)) /\ Len(t) = Len(old) - 1 /\ \A j \in 1 .. Len(t) : t[j] = old[j + 1]
    BY <1>4, HeadTailProperties
  <2>2. \A j \in 1 .. Len(t) : j + 1 \in DOMAIN old /\ t[j] = old[j + 1] /\ ~(j < 1)
    BY <1>4, <1>5, <2>1, LenProperties
  <2>3. \A j \in 1 .. Len(t) : t[j].queue_pos >= j - 1
    <3> TAKE j \in 1 .. Len(t)
    <3>1. old[j + 1].queue_pos >= (j + 1) - 1 /\ old[j + 1] \in L3Orders(I, T)
      BY <1>1, <1>2, <1>3, <1>4, <2>2, ElementOfSeq DEF OrdersSound, old
    <3>2. old[j + 1].queue_pos \in Nat /\ j \in Int
      BY <3>1 DEF L3Orders
    <3> QED BY <2>2, <3>1, <3>2
  <2>4. LevelIs(b, c, s, p, t)
    BY <1>12, <1>14 DEF LevelIs
  <2> HIDE DEF t
  <2>5. Removes(b, c, s, p, 1, t)
    BY <1>12, <1>14, <2>1, <2>2, <2>3, <2>4 DEF Removes, old, front
  <2>6. Trades(b, c, s, p, q)
    BY <1>14, <2>5 DEF Trades, old, front, t
  <2> QED BY <1>2, <1>3, <1>4, <1>5, <1>7, <1>10, <1>13, <1>14, <2>6 DEF s, p, old, c, q, front
<1>15. CASE q # front.qty
  <2> DEFINE r == Reduce(front, q)
  <2>1. r \in L3Orders(I, T) /\ r.id = front.id /\ r.qty > 0 /\ r.queue_pos >= 0
    BY <1>6, <1>9, <1>10, <1>11, <1>15 DEF L3Orders
  <2>2. c.levels = [b.levels EXCEPT ![s] = SetLevel(@, p, [old EXCEPT ![1] = r])]
    BY <1>12, <1>15 DEF front
  <2>3. c.count = b.count
    BY <1>1, <1>2, <1>12, <1>15 DEF BookTyped
  <2> HIDE DEF r
  <2>4. Reduces(b, c, s, p, r)
    BY <1>12, <1>15, <2>1, <2>2, <2>3 DEF Reduces, LevelIs, old, front
  <2>5. Trades(b, c, s, p, q)
    BY <1>15, <2>4 DEF Trades, old, front, r
  <2> QED BY <1>2, <1>3, <1>4, <1>5, <1>7, <1>10, <1>13, <1>15, <2>1, <2>5 DEF s, p, old, c, q, front, r
<1> QED BY <1>14, <1>15

(* An update of one level, the index and one count, field by field.        *)
LEMMA FieldByField ==
  ASSUME NEW b, NEW s, NEW x, NEW y, NEW z, NEW c,
         c = [b EXCEPT !.levels[s] = x, !.index = y, !.count[s] = z],
         b = [levels |-> b.levels, index |-> b.index, count |-> b.count,
              trades |-> b.trades, volume |-> b.volume, last_price |-> b.last_price]
  PROVE  /\ c.levels = [b.levels EXCEPT ![s] = x]
         /\ c.index = y
         /\ c.count = [b.count EXCEPT ![s] = z]
         /\ c.trades = b.trades /\ c.volume = b.volume
         /\ c = [levels |-> c.levels, index |-> c.index, count |-> c.count,
                 trades |-> c.trades, volume |-> c.volume, last_price |-> c.last_price]
OBVIOUS

(* The entry add_resting_order makes.                                      *)
Entry(b, o, rem) ==
  [id |-> o.id, trader |-> o.trader, qty |-> rem, filled |-> o.qty - rem,
   queue_pos |-> Len(LevelOrNew(b, o.side, o.price))]

LEMMA RestingAdds ==
  ASSUME NEW I, NEW T, NEW P, NEW b, BookTyped(b, I, T, P),
         NEW o, o.side \in Sides, o.id \in I \ DOMAIN b.index, o.trader \in T, o.qty \in Int,
         NEW rem \in Nat \ {0}, o.qty - rem \in Nat
  PROVE  LET c == add_resting_order(b, o, rem)
             r == Entry(b, o, rem)
         IN  /\ IsBook(c) /\ r \in L3Orders(I, T) /\ Adds(b, c, o.side, o.price, r)
             /\ c.trades = b.trades
<1> DEFINE c == add_resting_order(b, o, rem)
           r == Entry(b, o, rem)
           old == LevelOrNew(b, o.side, o.price)
           q == Append(old, r)
<1>1. old \in Seq(L3Orders(I, T))
  <2>1. << >> \in Seq(L3Orders(I, T))
    BY EmptySeq
  <2> QED BY <2>1 DEF LevelOrNew, BookTyped
<1>2. Len(old) \in Nat
  BY <1>1, LenProperties
<1>3. /\ r \in L3Orders(I, T) /\ r.id \notin DOMAIN b.index /\ r.qty > 0
      /\ r.queue_pos >= Len(old) /\ r.id = o.id
  BY <1>2 DEF L3Orders, Entry
<1>4. q # <<>>
  BY <1>1, <1>3, AppendProperties
<1>5. /\ c.levels = [b.levels EXCEPT ![o.side] = Put(@, o.price, q)]
      /\ c.index = Put(b.index, o.id, [side |-> o.side, price |-> o.price])
      /\ c.count = [b.count EXCEPT ![o.side] = @ + 1]
      /\ c.trades = b.trades /\ c.volume = b.volume
      /\ c = [levels |-> c.levels, index |-> c.index, count |-> c.count,
              trades |-> c.trades, volume |-> c.volume, last_price |-> c.last_price]
  <2>1. b = [levels |-> b.levels, index |-> b.index, count |-> b.count,
             trades |-> b.trades, volume |-> b.volume, last_price |-> b.last_price]
    BY DEF BookTyped
  <2>2. c = [b EXCEPT !.levels[o.side] = Put(@, o.price, q),
                      !.index = Put(@, o.id, [side |-> o.side, price |-> o.price]),
                      !.count[o.side] = @ + 1]
    BY DEF add_resting_order, Entry
  <2> HIDE DEF c, q
  <2> QED BY <2>1, <2>2, FieldByField
<1> HIDE DEF c, r, old, q
<1>6. SetLevel(b.levels[o.side], o.price, q) = Put(b.levels[o.side], o.price, q)
  BY <1>4 DEF SetLevel
<1>7. LevelIs(b, c, o.side, o.price, q)
  BY <1>5, <1>6 DEF LevelIs
<1>8. IsBook(c)
  BY <1>5 DEF IsBook, BookTyped
<1>9. Adds(b, c, o.side, o.price, r)
  BY <1>3, <1>5, <1>7 DEF Adds, q, old
<1> QED BY <1>3, <1>5, <1>8, <1>9 DEF c, r

(* The queue without the order at place k.                                 *)
LEMMA RemovedAt ==
  ASSUME NEW R, NEW q \in Seq(R), NEW k \in 1 .. Len(q)
  PROVE  /\ RemoveAt(q, k) \in Seq(R) /\ Len(RemoveAt(q, k)) = Len(q) - 1
         /\ \A j \in 1 .. Len(q) - 1 : /\ (IF j < k THEN j ELSE j + 1) \in 1 .. Len(q)
                                       /\ RemoveAt(q, k)[j] = q[IF j < k THEN j ELSE j + 1]
<1> DEFINE n == Len(q)
           u == SubSeq(q, 1, k - 1)
           v == SubSeq(q, k + 1, n)
<1>1. n \in Nat /\ k \in Int /\ 1 <= k /\ k <= n
  BY LenProperties
<1>2. u \in Seq(R) /\ Len(u) = k - 1 /\ \A i \in 1 .. k - 1 : u[i] = q[i]
  <2>1. 1 \in 1 .. n + 1 /\ k - 1 \in 1 - 1 .. n
    BY <1>1
  <2>2. 1 <= k - 1 \/ k - 1 = 0
    BY <1>1
  <2> QED BY <1>1, <2>1, <2>2, SubSeqProperties
<1>3. v \in Seq(R) /\ Len(v) = n - k /\ \A i \in 1 .. n - k : v[i] = q[i + k]
  <2>1. k + 1 \in 1 .. n + 1 /\ n \in (k + 1) - 1 .. n
    BY <1>1
  <2>2. k + 1 <= n \/ k = n
    BY <1>1
  <2> QED BY <1>1, <2>1, <2>2, SubSeqProperties
<1>4. RemoveAt(q, k) = u \o v
  BY DEF RemoveAt
<1> HIDE DEF n, u, v
<1>5. /\ u \o v \in Seq(R) /\ Len(u \o v) = n - 1
      /\ \A j \in 1 .. n - 1 : (u \o v)[j] = IF j <= k - 1 THEN u[j] ELSE v[j - (k - 1)]
  <2>1. (k - 1) + (n - k) = n - 1
    BY <1>1
  <2>2. /\ u \o v \in Seq(R) /\ Len(u \o v) = Len(u) + Len(v)
        /\ \A j \in 1 .. Len(u) + Len(v) :
             (u \o v)[j] = IF j <= Len(u) THEN u[j] ELSE v[j - Len(u)]
    BY <1>2, <1>3, ConcatProperties
  <2>3. Len(u) = k - 1 /\ Len(v) = n - k
    BY <1>2, <1>3
  <2> QED BY <2>1, <2>2, <2>3
<1>6. ASSUME NEW j \in 1 .. n - 1
      PROVE  /\ (IF j < k THEN j ELSE j + 1) \in 1 .. n
             /\ (u \o v)[j] = q[IF j < k THEN j ELSE j + 1]
  <2>1. CASE j < k
    <3>1. j \in 1 .. k - 1 /\ j <= k - 1 /\ j \in 1 .. n
      BY <1>1, <2>1
    <3> QED BY <1>2, <1>5, <2>1, <3>1
  <2>2. CASE ~(j < k)
    <3>1. /\ j - (k - 1) \in 1 .. n - k /\ ~(j <= k - 1) /\ j + 1 \in 1 .. n
          /\ (j - (k - 1)) + k = j + 1
      BY <1>1, <2>2
    <3> QED BY <1>3, <1>5, <2>2, <3>1
  <2> QED BY <2>1, <2>2
<1> QED BY <1>4, <1>5, <1>6 DEF n

LEMMA RemoveOrderRemoves ==
  ASSUME NEW I, NEW T, NEW P, NEW b, BookTyped(b, I, T, P), IndexExact(b),
         NEW id \in DOMAIN b.index
  PROVE  LET s == b.index[id].side
             p == b.index[id].price
             c == RemoveOrder(b, id)
             k == PlaceOf(b, id)
             q == update_queue_positions(RemoveAt(QueueOf(b, id), k))
         IN  /\ IsBook(c) /\ s \in Sides /\ p \in Prices(b, s)
             /\ k \in DOMAIN b.levels[s][p] /\ b.levels[s][p][k].id = id
             /\ q \in Seq(L3Orders(I, T)) /\ Removes(b, c, s, p, k, q)
             /\ c.volume = b.volume /\ c.trades = b.trades
<1> DEFINE s == b.index[id].side
           p == b.index[id].price
           c == RemoveOrder(b, id)
           k == PlaceOf(b, id)
           old == b.levels[s][p]
           u == RemoveAt(old, k)
           q == update_queue_positions(u)
<1>1. /\ s \in Sides /\ p \in Prices(b, s) /\ QueueOf(b, id) = old
      /\ old \in Seq(L3Orders(I, T)) /\ k \in DOMAIN old /\ old[k].id = id
  <2>1. LeadsTo(b, id, s, p, k)
    BY FoundByIndex
  <2> HIDE DEF s, p, k
  <2> QED BY <2>1 DEF LeadsTo, BookTyped
<1>2. k \in 1 .. Len(old) /\ Len(old) \in Nat
  BY <1>1, LenProperties
<1>3. /\ c.levels = [b.levels EXCEPT ![s] = SetLevel(@, p, q)]
      /\ c.index = Erase(b.index, id)
      /\ c.count = [b.count EXCEPT ![s] = @ - 1]
      /\ c.trades = b.trades /\ c.volume = b.volume
      /\ c = [levels |-> c.levels, index |-> c.index, count |-> c.count,
              trades |-> c.trades, volume |-> c.volume, last_price |-> c.last_price]
  <2>1. b = [levels |-> b.levels, index |-> b.index, count |-> b.count,
             trades |-> b.trades, volume |-> b.volume, last_price |-> b.last_price]
    BY DEF BookTyped
  <2>2. c = [b EXCEPT !.levels[s] = SetLevel(@, p, q),
                      !.index = Erase(@, id),
                      !.count[s] = @ - 1]
    BY <1>1 DEF RemoveOrder
  <2> HIDE DEF c, q, s
  <2> QED BY <2>1, <2>2, FieldByField
<1> HIDE DEF s, p, c, k, old
<1>4. /\ u \in Seq(L3Orders(I, T)) /\ Len(u) = Len(old) - 1
      /\ \A j \in 1 .. Len(old) - 1 : u[j] = old[IF j < k THEN j ELSE j + 1]
  BY <1>1, <1>2, RemovedAt
<1> HIDE DEF u
<1>5. /\ q \in Seq(L3Orders(I, T)) /\ Len(q) = Len(u)
      /\ \A j \in 1 .. Len(u) : /\ q[j].id = u[j].id /\ q[j].qty = u[j].qty
                                /\ q[j].filled = u[j].filled /\ q[j].queue_pos = j - 1
  <2>1. Len(u) \in Nat /\ DOMAIN u = 1 .. Len(u) /\ \A j \in 1 .. Len(u) : u[j] \in L3Orders(I, T)
    BY <1>4, LenProperties, ElementOfSeq
  <2>2. ASSUME NEW j \in 1 .. Len(u)
        PROVE  /\ [u[j] EXCEPT !.queue_pos = j - 1] \in L3Orders(I, T)
               /\ q[j] = [u[j] EXCEPT !.queue_pos = j - 1]
               /\ q[j].id = u[j].id /\ q[j].qty = u[j].qty
               /\ q[j].filled = u[j].filled /\ q[j].queue_pos = j - 1
    <3>1. q[j] = [u[j] EXCEPT !.queue_pos = j - 1]
      BY <2>1 DEF update_queue_positions
    <3>2. j - 1 \in Nat
      OBVIOUS
    <3> HIDE DEF q
    <3>3. u[j] \in L3Orders(I, T)
      BY <2>1
    <3> QED BY <3>1, <3>2, <3>3 DEF L3Orders
  <2>3. q = [j \in 1 .. Len(u) |-> [u[j] EXCEPT !.queue_pos = j - 1]]
    BY <2>1 DEF update_queue_positions
  <2> HIDE DEF q
  <2>4. q \in Seq(L3Orders(I, T)) /\ Len(q) = Len(u)
    BY <2>1, <2>2, <2>3, IsASeq, LenProperties
  <2> QED BY <2>2, <2>4
<1> HIDE DEF q
<1>6. \A j \in 1 .. Len(q) :
        /\ q[j].id = old[IF j < k THEN j ELSE j + 1].id
        /\ q[j].qty = old[IF j < k THEN j ELSE j + 1].qty
        /\ q[j].filled = old[IF j < k THEN j ELSE j + 1].filled
        /\ q[j].queue_pos >= j - 1
  BY <1>4, <1>5
<1>7. Removes(b, c, s, p, k, q)
  BY <1>1, <1>3, <1>4, <1>5, <1>6 DEF Removes, LevelIs, old
<1>8. IsBook(c)
  BY <1>3 DEF IsBook, BookTyped
<1>9. c.volume = b.volume /\ c.trades = b.trades
  BY <1>3
<1> QED BY <1>1, <1>5, <1>7, <1>8, <1>9 DEF s, p, c, k, old, u, q

-------------------------------------------------------------------------------
(* Which order of the book before the operation an order is.               *)

(* The orders at place j of level y of side x in c and at place m in b have *)
(* the same id and quantities.                                             *)
SameOrder(b, m, c, j, x, y) ==
  /\ y \in Prices(b, x) /\ m \in DOMAIN b.levels[x][y]
  /\ c.levels[x][y][j].id = b.levels[x][y][m].id
  /\ c.levels[x][y][j].qty = b.levels[x][y][m].qty
  /\ c.levels[x][y][j].filled = b.levels[x][y][m].filled

(* Removing place k of level p of side s moves the orders behind it up.    *)
Behind(s, p, k, x, y, j) == x = s /\ y = p /\ ~(j < k)

LEMMA RemovedOrigin ==
  ASSUME NEW I, NEW T, NEW P, NEW b, BookTyped(b, I, T, P),
         NEW s \in Sides, NEW p \in Prices(b, s), NEW k \in DOMAIN b.levels[s][p],
         NEW q \in Seq(L3Orders(I, T)), NEW c, Removes(b, c, s, p, k, q),
         NEW x \in Sides, NEW y \in Prices(c, x), NEW j \in DOMAIN c.levels[x][y]
  PROVE  SameOrder(b, IF Behind(s, p, k, x, y, j) THEN j + 1 ELSE j, c, j, x, y)
<1>1. p \in P /\ b.levels[s][p] \in Seq(L3Orders(I, T)) /\ LevelIs(b, c, s, p, q)
  BY DEF BookTyped, Removes
<1>2. LevelByLevel(b, c, s, p, q, I, T, P)
  BY <1>1, LevelSet
<1>3. CASE x = s /\ y = p
  <2>1. c.levels[x][y] = q
    BY <1>2, <1>3 DEF LevelByLevel
  <2>2. /\ DOMAIN q = 1 .. Len(q) /\ Len(q) \in Nat /\ Len(q) = Len(b.levels[s][p]) - 1
        /\ DOMAIN b.levels[s][p] = 1 .. Len(b.levels[s][p]) /\ Len(b.levels[s][p]) \in Nat
    BY <1>1, LenProperties DEF Removes
  <2>3. (IF j < k THEN j ELSE j + 1) \in DOMAIN b.levels[s][p]
    BY <2>1, <2>2
  <2>4. /\ q[j].id = b.levels[s][p][IF j < k THEN j ELSE j + 1].id
        /\ q[j].qty = b.levels[s][p][IF j < k THEN j ELSE j + 1].qty
        /\ q[j].filled = b.levels[s][p][IF j < k THEN j ELSE j + 1].filled
    BY <2>1, <2>2 DEF Removes
  <2>5. Behind(s, p, k, x, y, j) <=> ~(j < k)
    BY <1>3 DEF Behind
  <2>6. CASE j < k
    BY <1>3, <2>1, <2>3, <2>4, <2>5, <2>6 DEF SameOrder
  <2>7. CASE ~(j < k)
    BY <1>3, <2>1, <2>3, <2>4, <2>5, <2>7 DEF SameOrder
  <2> QED BY <2>6, <2>7
<1>4. CASE ~(x = s /\ y = p)
  <2>1. y \in Prices(b, x) /\ c.levels[x][y] = b.levels[x][y]
    BY <1>2, <1>4 DEF LevelByLevel
  <2> QED BY <1>4, <2>1 DEF SameOrder, Behind
<1> QED BY <1>3, <1>4

(* The front of level p of side s is r, the others are as before.          *)
LEMMA ReducedOrigin ==
  ASSUME NEW I, NEW T, NEW P, NEW b, BookTyped(b, I, T, P), CountsExact(b),
         NEW s \in Sides, NEW p \in Prices(b, s), NEW r \in L3Orders(I, T),
         NEW c, Reduces(b, c, s, p, r),
         NEW x \in Sides, NEW y \in Prices(c, x), NEW j \in DOMAIN c.levels[x][y]
  PROVE  /\ y \in Prices(b, x) /\ j \in DOMAIN b.levels[x][y]
         /\ c.levels[x][y][j].id = b.levels[x][y][j].id
         /\ IF x = s /\ y = p /\ j = 1 THEN c.levels[x][y][j] = r
            ELSE SameOrder(b, j, c, j, x, y)
<1> DEFINE old == b.levels[s][p]
           q == [old EXCEPT ![1] = r]
<1>1. p \in P /\ old \in Seq(L3Orders(I, T)) /\ old # <<>> /\ r.id = old[1].id
  BY DEF BookTyped, CountsExact, Reduces
<1>2. /\ DOMAIN q = DOMAIN old /\ q \in Seq(L3Orders(I, T)) /\ q[1] = r
      /\ \A m \in DOMAIN old \ {1} : q[m] = old[m]
  <2>1. 1 \in DOMAIN old /\ DOMAIN old = 1 .. Len(old) /\ Len(old) \in Nat
    BY <1>1, EmptySeq, LenProperties
  <2>2. q \in Seq(L3Orders(I, T)) /\ DOMAIN q = DOMAIN old
    BY <1>1, <2>1, ExceptSeq
  <2> QED BY <2>1, <2>2
<1>3. LevelByLevel(b, c, s, p, q, I, T, P)
  BY <1>1, <1>2, LevelSet DEF Reduces
<1> HIDE DEF q
<1>4. CASE x = s /\ y = p
  <2>1. c.levels[x][y] = q
    BY <1>3, <1>4 DEF LevelByLevel
  <2> QED BY <1>1, <1>2, <1>4, <2>1 DEF SameOrder
<1>5. CASE ~(x = s /\ y = p)
  <2>1. y \in Prices(b, x) /\ c.levels[x][y] = b.levels[x][y]
    BY <1>3, <1>5 DEF LevelByLevel
  <2> QED BY <1>5, <2>1 DEF SameOrder
<1> QED BY <1>4, <1>5

(* The last order of level p of side s is r, the others are as before.     *)
LEMMA AddedOrigin ==
  ASSUME NEW I, NEW T, NEW P, NEW b, BookTyped(b, I, T, P),
         NEW s \in Sides, NEW p \in P, NEW r \in L3Orders(I, T),
         NEW c, Adds(b, c, s, p, r),
         NEW x \in Sides, NEW y \in Prices(c, x), NEW j \in DOMAIN c.levels[x][y]
  PROVE  \/ c.levels[x][y][j] = r /\ \A m \in DOMAIN c.levels[x][y] : m <= j
         \/ SameOrder(b, j, c, j, x, y)
<1> DEFINE old == LevelOrNew(b, s, p)
           q == Append(old, r)
<1>1. /\ old \in Seq(L3Orders(I, T))
      /\ p \in Prices(b, s) => old = b.levels[s][p]
      /\ p \notin Prices(b, s) => old = <<>>
  <2>1. << >> \in Seq(L3Orders(I, T))
    BY EmptySeq
  <2> QED BY <2>1 DEF BookTyped, LevelOrNew
<1>2. /\ q \in Seq(L3Orders(I, T)) /\ Len(q) = Len(old) + 1 /\ DOMAIN q = 1 .. Len(q)
      /\ q[Len(q)] = r /\ DOMAIN old = 1 .. Len(old) /\ Len(old) \in Nat
      /\ \A m \in 1 .. Len(old) : q[m] = old[m]
  BY <1>1, AppendProperties, LenProperties
<1>3. LevelByLevel(b, c, s, p, q, I, T, P)
  BY <1>2, LevelSet DEF Adds
<1> HIDE DEF q, old
<1>4. CASE x = s /\ y = p
  <2>1. c.levels[x][y] = q
    BY <1>3, <1>4 DEF LevelByLevel
  <2>2. CASE j = Len(q)
    BY <1>2, <2>1, <2>2
  <2>3. CASE j # Len(q)
    <3>1. j \in 1 .. Len(old) /\ q[j] = old[j]
      BY <1>2, <2>1, <2>3
    <3>2. p \in Prices(b, s)
      BY <1>1, <1>2, <3>1
    <3> QED BY <1>1, <1>2, <1>4, <2>1, <3>1, <3>2 DEF SameOrder
  <2> QED BY <2>2, <2>3
<1>5. CASE ~(x = s /\ y = p)
  <2>1. y \in Prices(b, x) /\ c.levels[x][y] = b.levels[x][y]
    BY <1>3, <1>5 DEF LevelByLevel
  <2> QED BY <1>5, <2>1 DEF SameOrder
<1> QED BY <1>4, <1>5

-------------------------------------------------------------------------------
(* Time priority: no operation puts an order in front of one that rests.   *)

Precedes(b, id1, id2) ==
  /\ id1 \in DOMAIN b.index /\ id2 \in DOMAIN b.index
  /\ b.index[id1] = b.index[id2]
  /\ PlaceOf(b, id1) < PlaceOf(b, id2)

KeepsOrder(b, c) ==
  \A id1 \in DOMAIN b.index, id2 \in DOMAIN c.index :
    Precedes(c, id2, id1) => Precedes(b, id2, id1)

(* The orders at places i and j of a level were in that order before.      *)
WereInOrder(b, c, x, y, i, j) ==
  /\ y \in Prices(b, x)
  /\ \E m \in DOMAIN b.levels[x][y], n \in DOMAIN b.levels[x][y] :
       /\ m < n
       /\ c.levels[x][y][i].id = b.levels[x][y][m].id
       /\ c.levels[x][y][j].id = b.levels[x][y][n].id

LEMMA OrderKept ==
  ASSUME NEW I, NEW T, NEW P, NEW b, IndexExact(b),
         NEW c, BookTyped(c, I, T, P), IndexExact(c),
         \A x \in Sides : \A y \in Prices(c, x) :
           \A i \in DOMAIN c.levels[x][y], j \in DOMAIN c.levels[x][y] :
             i < j /\ c.levels[x][y][j].id \in DOMAIN b.index => WereInOrder(b, c, x, y, i, j)
  PROVE  KeepsOrder(b, c)
<1> SUFFICES ASSUME NEW id1 \in DOMAIN b.index, NEW id2 \in DOMAIN c.index, Precedes(c, id2, id1)
             PROVE  Precedes(b, id2, id1)
  BY DEF KeepsOrder
<1> DEFINE x == c.index[id1].side
           y == c.index[id1].price
           i == PlaceOf(c, id2)
           j == PlaceOf(c, id1)
<1>1. id1 \in DOMAIN c.index /\ c.index[id2] = c.index[id1] /\ i < j
  BY DEF Precedes
<1>2. LeadsTo(c, id1, x, y, j)
  BY <1>1, FoundByIndex
<1>3. LeadsTo(c, id2, x, y, i)
  <2>1. LeadsTo(c, id2, c.index[id2].side, c.index[id2].price, i)
    BY FoundByIndex
  <2> QED BY <1>1, <2>1
<1> HIDE DEF x, y, i, j
<1>4. WereInOrder(b, c, x, y, i, j)
  BY <1>1, <1>2, <1>3 DEF LeadsTo
<1>5. PICK m \in DOMAIN b.levels[x][y], n \in DOMAIN b.levels[x][y] :
        y \in Prices(b, x) /\ m < n /\ b.levels[x][y][m].id = id2 /\ b.levels[x][y][n].id = id1
  BY <1>2, <1>3, <1>4 DEF WereInOrder, LeadsTo
<1>6. x \in Sides
  BY <1>2 DEF LeadsTo
<1>7. id2 \in DOMAIN b.index /\ b.index[id2] = [side |-> x, price |-> y] /\ PlaceOf(b, id2) = m
  BY <1>5, <1>6, PlaceIs
<1>8. b.index[id1] = [side |-> x, price |-> y] /\ PlaceOf(b, id1) = n
  BY <1>5, <1>6, PlaceIs
<1> QED BY <1>5, <1>7, <1>8 DEF Precedes

LEMMA RemovedKeepsOrder ==
  ASSUME NEW I, NEW T, NEW P, NEW b, BookSound(b, I, T, P),
         NEW s \in Sides, NEW p \in Prices(b, s), NEW k \in DOMAIN b.levels[s][p],
         NEW q \in Seq(L3Orders(I, T)), NEW c, BookSound(c, I, T, P), Removes(b, c, s, p, k, q)
  PROVE  KeepsOrder(b, c)
<1>1. BookTyped(b, I, T, P) /\ IndexExact(b) /\ BookTyped(c, I, T, P) /\ IndexExact(c)
  BY DEF BookSound
<1>2. ASSUME NEW x \in Sides, NEW y \in Prices(c, x),
             NEW i \in DOMAIN c.levels[x][y], NEW j \in DOMAIN c.levels[x][y], i < j
      PROVE  WereInOrder(b, c, x, y, i, j)
  <2> DEFINE m == IF Behind(s, p, k, x, y, i) THEN i + 1 ELSE i
             n == IF Behind(s, p, k, x, y, j) THEN j + 1 ELSE j
  <2>1. SameOrder(b, m, c, i, x, y)
    BY <1>1, RemovedOrigin
  <2>2. SameOrder(b, n, c, j, x, y)
    BY <1>1, RemovedOrigin
  <2>3. i \in Int /\ j \in Int /\ k \in Int
    <3>1. c.levels[x][y] \in Seq(L3Orders(I, T)) /\ b.levels[s][p] \in Seq(L3Orders(I, T))
      BY <1>1 DEF BookTyped
    <3> QED BY SMTT(30), <3>1, LenProperties
  <2>4. m < n
    BY <1>2, <2>3 DEF Behind
  <2> QED BY <2>1, <2>2, <2>4 DEF SameOrder, WereInOrder
<1> QED BY <1>1, <1>2, OrderKept

LEMMA ReducedKeepsOrder ==
  ASSUME NEW I, NEW T, NEW P, NEW b, BookSound(b, I, T, P),
         NEW s \in Sides, NEW p \in Prices(b, s), NEW r \in L3Orders(I, T),
         NEW c, BookSound(c, I, T, P), Reduces(b, c, s, p, r)
  PROVE  KeepsOrder(b, c)
<1>1. /\ BookTyped(b, I, T, P) /\ IndexExact(b) /\ CountsExact(b)
      /\ BookTyped(c, I, T, P) /\ IndexExact(c)
  BY DEF BookSound
<1>2. ASSUME NEW x \in Sides, NEW y \in Prices(c, x),
             NEW i \in DOMAIN c.levels[x][y], NEW j \in DOMAIN c.levels[x][y], i < j
      PROVE  WereInOrder(b, c, x, y, i, j)
  <2>1. y \in Prices(b, x) /\ i \in DOMAIN b.levels[x][y]
        /\ c.levels[x][y][i].id = b.levels[x][y][i].id
    BY <1>1, ReducedOrigin
  <2>2. j \in DOMAIN b.levels[x][y] /\ c.levels[x][y][j].id = b.levels[x][y][j].id
    BY <1>1, ReducedOrigin
  <2> QED BY <1>2, <2>1, <2>2 DEF WereInOrder
<1> QED BY <1>1, <1>2, OrderKept

LEMMA AddedKeepsOrder ==
  ASSUME NEW I, NEW T, NEW P, NEW b, BookSound(b, I, T, P),
         NEW s \in Sides, NEW p \in P, NEW r \in L3Orders(I, T),
         NEW c, BookSound(c, I, T, P), Adds(b, c, s, p, r)
  PROVE  KeepsOrder(b, c)
<1>1. /\ BookTyped(b, I, T, P) /\ IndexExact(b)
      /\ BookTyped(c, I, T, P) /\ IndexExact(c)
  BY DEF BookSound
<1>2. ASSUME NEW x \in Sides, NEW y \in Prices(c, x),
             NEW i \in DOMAIN c.levels[x][y], NEW j \in DOMAIN c.levels[x][y],
             i < j, c.levels[x][y][j].id \in DOMAIN b.index
      PROVE  WereInOrder(b, c, x, y, i, j)
  <2>1. c.levels[x][y][j] # r
    BY <1>2 DEF Adds
  <2>2. SameOrder(b, j, c, j, x, y)
    BY <1>1, <2>1, AddedOrigin
  <2>3. ~(\A m \in DOMAIN c.levels[x][y] : m <= i)
    <3>1. c.levels[x][y] \in Seq(L3Orders(I, T))
      BY <1>1 DEF BookTyped
    <3>2. i \in Int /\ j \in Int
      BY <3>1, LenProperties
    <3> QED BY <1>2, <3>2
  <2>4. SameOrder(b, i, c, i, x, y)
    BY <1>1, <2>3, AddedOrigin
  <2> QED BY <1>2, <2>2, <2>4 DEF WereInOrder, SameOrder
<1> QED BY <1>1, <1>2, OrderKept

-------------------------------------------------------------------------------
(* Quantities: an order's open and filled quantity make up what was        *)
(* submitted, and the filled quantity is what was executed.                *)

Accounted(o, submitted, executed) ==
  o.qty + o.filled = submitted[o.id] /\ o.filled = executed[o.id]

Conserved(b, submitted, executed) ==
  \A s \in Sides : \A p \in Prices(b, s) : \A k \in DOMAIN b.levels[s][p] :
    Accounted(b.levels[s][p][k], submitted, executed)

(* S and E record the same as s and e about the orders in ids.             *)
SameRecords(ids, s, e, S, E) == \A id \in ids : S[id] = s[id] /\ E[id] = e[id]

LEMMA RemovedConserves ==
  ASSUME NEW I, NEW T, NEW P, NEW b, BookSound(b, I, T, P),
         NEW s \in Sides, NEW p \in Prices(b, s), NEW k \in DOMAIN b.levels[s][p],
         NEW q \in Seq(L3Orders(I, T)), NEW c, BookSound(c, I, T, P), Removes(b, c, s, p, k, q),
         NEW sub, NEW exe, Conserved(b, sub, exe),
         NEW S, NEW E, SameRecords(DOMAIN c.index, sub, exe, S, E)
  PROVE  Conserved(c, S, E)
<1>1. BookTyped(b, I, T, P) /\ IndexExact(c)
  BY DEF BookSound
<1> SUFFICES ASSUME NEW x \in Sides, NEW y \in Prices(c, x), NEW j \in DOMAIN c.levels[x][y]
             PROVE  Accounted(c.levels[x][y][j], S, E)
  BY DEF Conserved
<1> DEFINE m == IF Behind(s, p, k, x, y, j) THEN j + 1 ELSE j
<1>2. SameOrder(b, m, c, j, x, y)
  BY <1>1, RemovedOrigin
<1> HIDE DEF m
<1>3. Accounted(b.levels[x][y][m], sub, exe)
  BY <1>2 DEF Conserved, SameOrder
<1>4. c.levels[x][y][j].id \in DOMAIN c.index
  BY <1>1 DEF IndexExact
<1> QED BY <1>2, <1>3, <1>4 DEF SameOrder, Accounted, SameRecords

LEMMA ReducedConserves ==
  ASSUME NEW I, NEW T, NEW P, NEW b, BookSound(b, I, T, P),
         NEW s \in Sides, NEW p \in Prices(b, s), NEW r \in L3Orders(I, T),
         NEW c, BookSound(c, I, T, P), Reduces(b, c, s, p, r),
         NEW sub, NEW exe, Conserved(b, sub, exe),
         NEW S, NEW E, SameRecords(DOMAIN c.index \ {r.id}, sub, exe, S, E), Accounted(r, S, E)
  PROVE  Conserved(c, S, E)
<1>1. /\ BookTyped(b, I, T, P) /\ IndexExact(c) /\ IndexExact(b) /\ CountsExact(b)
      /\ BookTyped(c, I, T, P) /\ OrdersSound(b)
  BY DEF BookSound
<1> SUFFICES ASSUME NEW x \in Sides, NEW y \in Prices(c, x), NEW j \in DOMAIN c.levels[x][y]
             PROVE  Accounted(c.levels[x][y][j], S, E)
  BY DEF Conserved
<1>2. /\ y \in Prices(b, x) /\ j \in DOMAIN b.levels[x][y]
      /\ c.levels[x][y][j].id = b.levels[x][y][j].id
      /\ IF x = s /\ y = p /\ j = 1 THEN c.levels[x][y][j] = r
         ELSE SameOrder(b, j, c, j, x, y)
  BY <1>1, ReducedOrigin
<1>3. CASE x = s /\ y = p /\ j = 1
  BY <1>2, <1>3
<1>4. CASE ~(x = s /\ y = p /\ j = 1)
  <2>1. SameOrder(b, j, c, j, x, y)
    BY <1>2, <1>4
  <2>2. Accounted(b.levels[x][y][j], sub, exe)
    BY <1>2 DEF Conserved
  <2>3. c.levels[x][y][j].id \in DOMAIN c.index
    BY <1>1 DEF IndexExact
  <2>4. c.levels[x][y][j].id # r.id
    <3>1. 1 \in DOMAIN b.levels[s][p] /\ r.id = b.levels[s][p][1].id
      <4>1. b.levels[s][p] \in Seq(L3Orders(I, T)) /\ b.levels[s][p] # <<>>
        BY <1>1 DEF BookTyped, CountsExact
      <4> QED BY <4>1, EmptySeq, LenProperties DEF Reduces
    <3>2. b.index[r.id] = [side |-> s, price |-> p] /\ PlaceOf(b, r.id) = 1
      BY <1>1, <3>1, PlaceIs
    <3>3. /\ b.index[b.levels[x][y][j].id] = [side |-> x, price |-> y]
          /\ PlaceOf(b, b.levels[x][y][j].id) = j
      BY <1>1, <1>2, PlaceIs
    <3> QED BY <1>2, <1>4, <3>2, <3>3
  <2> QED BY <2>1, <2>2, <2>3, <2>4 DEF SameOrder, Accounted, SameRecords
<1> QED BY <1>3, <1>4

LEMMA AddedConserves ==
  ASSUME NEW I, NEW T, NEW P, NEW b, BookSound(b, I, T, P),
         NEW s \in Sides, NEW p \in P, NEW r \in L3Orders(I, T),
         NEW c, Adds(b, c, s, p, r),
         NEW sub, NEW exe, Conserved(b, sub, exe), Accounted(r, sub, exe)
  PROVE  Conserved(c, sub, exe)
<1>1. BookTyped(b, I, T, P)
  BY DEF BookSound
<1> SUFFICES ASSUME NEW x \in Sides, NEW y \in Prices(c, x), NEW j \in DOMAIN c.levels[x][y],
                    c.levels[x][y][j] # r
             PROVE  Accounted(c.levels[x][y][j], sub, exe)
  BY DEF Conserved
<1>2. SameOrder(b, j, c, j, x, y)
  BY <1>1, AddedOrigin
<1>3. Accounted(b.levels[x][y][j], sub, exe)
  BY <1>2 DEF Conserved, SameOrder
<1> QED BY <1>2, <1>3 DEF SameOrder, Accounted

-------------------------------------------------------------------------------
(* The quantity an order could trade goes down by what it trades.          *)

LEMMA AvailableIs ==
  ASSUME NEW I, NEW T, NEW P, NEW b, BookTyped(b, I, T, P), NEW o, o.side \in Sides
  PROVE  LET s == Opposite(o.side)
             f == [p \in Prices(b, s) |-> TotalQty(b.levels[s][p])]
             S == {p \in Prices(b, s) : Crosses(o, p)}
         IN  /\ Available(b, o) = SumFunctionOnSet(f, S)
             /\ s \in Sides /\ IsFiniteSet(S) /\ \A p \in S : f[p] \in Int
             /\ Available(b, o) \in Int
             /\ S = {} => Available(b, o) = 0
<1> DEFINE s == Opposite(o.side)
           f == [p \in Prices(b, s) |-> TotalQty(b.levels[s][p])]
           S == {p \in Prices(b, s) : Crosses(o, p)}
<1>1. s \in Sides
  BY DEF Opposite, Sides
<1>2. IsFiniteSet(S)
  BY <1>1, FS_Subset DEF BookTyped
<1>3. \A p \in S : f[p] \in Int
  <2> TAKE p \in S
  <2>1. b.levels[s][p] \in Seq(L3Orders(I, T)) /\ p \in Prices(b, s)
    BY <1>1 DEF BookTyped
  <2>2. \A r \in L3Orders(I, T) : r.qty \in Int
    BY DEF L3Orders
  <2>3. TotalQty(b.levels[s][p]) \in Int
    <3> DEFINE q == b.levels[s][p]
               g == [k \in 1 .. Len(q) |-> q[k].qty]
    <3>1. \A k \in 1 .. Len(q) : g[k] = q[k].qty
      OBVIOUS
    <3> HIDE DEF q, g
    <3> QED BY <2>1, <2>2, <3>1, TotalIs DEF q
  <2> QED BY <2>1, <2>3
<1>4. Available(b, o) = SumFunctionOnSet(f, S)
  BY DEF Available
<1> HIDE DEF f, S
<1>5. Available(b, o) \in Int /\ (S = {} => Available(b, o) = 0)
  BY <1>2, <1>3, <1>4, SumRecursion
<1> QED BY <1>1, <1>2, <1>3, <1>4, <1>5 DEF f, S

LEMMA TradeTakesAvailable ==
  ASSUME NEW I, NEW T, NEW P, NEW b, BookTyped(b, I, T, P), NEW o, o.side \in Sides,
         NEW s, s = Opposite(o.side), NEW p \in Prices(b, s), Crosses(o, p),
         b.levels[s][p] # <<>>, NEW q \in Int,
         q # b.levels[s][p][1].qty => Reduce(b.levels[s][p][1], q) \in L3Orders(I, T),
         NEW c, BookTyped(c, I, T, P), Trades(b, c, s, p, q)
  PROVE  Available(c, o) = Available(b, o) - q
<1> DEFINE old == b.levels[s][p]
           r == Reduce(old[1], q)
           new == IF q = old[1].qty THEN Tail(old) ELSE [old EXCEPT ![1] = r]
           f == [x \in Prices(b, s) |-> TotalQty(b.levels[s][x])]
           g == [x \in Prices(c, s) |-> TotalQty(c.levels[s][x])]
           F == {x \in Prices(b, s) : Crosses(o, x)}
           G == {x \in Prices(c, s) : Crosses(o, x)}
<1>1. /\ Available(b, o) = SumFunctionOnSet(f, F) /\ IsFiniteSet(F) /\ \A x \in F : f[x] \in Int
      /\ s \in Sides
  BY ZenonT(30), AvailableIs
<1>2. Available(c, o) = SumFunctionOnSet(g, G) /\ IsFiniteSet(G) /\ \A x \in G : g[x] \in Int
  BY ZenonT(30), AvailableIs
<1>3. old \in Seq(L3Orders(I, T)) /\ p \in P /\ old # <<>> /\ 1 \in DOMAIN old
      /\ old[1] \in L3Orders(I, T) /\ DOMAIN old = 1 .. Len(old)
  <2>1. old \in Seq(L3Orders(I, T)) /\ p \in P /\ old # <<>>
    BY <1>1 DEF BookTyped
  <2> QED BY <2>1, EmptySeq, LenProperties, ElementOfSeq
<1>4. \A x \in L3Orders(I, T) : x.qty \in Int
  BY DEF L3Orders
<1>5. new \in Seq(L3Orders(I, T)) /\ TotalQty(new) = TotalQty(old) - q /\ LevelIs(b, c, s, p, new)
  <2>1. TotalQty(old) = old[1].qty + TotalQty(Tail(old)) /\ TotalQty(Tail(old)) \in Int
    BY <1>3, <1>4, TotalFirst
  <2>2. old[1].qty \in Int
    BY <1>3, <1>4
  <2>3. CASE q = old[1].qty
    <3>1. new = Tail(old) /\ new \in Seq(L3Orders(I, T))
      BY <1>3, <2>3, HeadTailProperties
    <3>2. LevelIs(b, c, s, p, Tail(old))
      BY <2>3 DEF Trades, Removes
    <3> QED BY <2>1, <2>2, <2>3, <3>1, <3>2
  <2>4. CASE q # old[1].qty
    <3>1. new = [old EXCEPT ![1] = r] /\ r \in L3Orders(I, T)
      BY <2>4
    <3>2. new \in Seq(L3Orders(I, T))
      BY <1>3, <3>1, ExceptSeq
    <3>3. TotalQty([old EXCEPT ![1] = r]) = r.qty + TotalQty(Tail(old))
      BY <1>3, <1>4, <3>1, TotalFirst
    <3>4. r.qty = old[1].qty - q
      BY <1>3 DEF Reduce, L3Orders
    <3>5. LevelIs(b, c, s, p, [old EXCEPT ![1] = r])
      BY <2>4 DEF Trades, Reduces
    <3> HIDE DEF r, old
    <3> QED BY <2>1, <2>2, <3>1, <3>2, <3>3, <3>4, <3>5
  <2> QED BY <2>3, <2>4
<1> HIDE DEF new
<1>6. LevelByLevel(b, c, s, p, new, I, T, P)
  BY <1>1, <1>3, <1>5, LevelSet
<1>7. f[p] = TotalQty(old) /\ p \in F
  OBVIOUS
<1>8. F \ {p} = G \ {p} /\ \A x \in F \ {p} : f[x] = g[x]
  <2>1. \A x \in Prices(c, s) : x # p => x \in Prices(b, s) /\ c.levels[s][x] = b.levels[s][x]
    BY <1>1, <1>6 DEF LevelByLevel
  <2>2. \A x \in Prices(b, s) : x # p => x \in Prices(c, s)
    BY <1>1, <1>6 DEF LevelByLevel
  <2>3. F \ {p} = G \ {p}
    BY <2>1, <2>2
  <2> QED BY <2>1, <2>2, <2>3
<1>9. p \in Prices(c, s) => c.levels[s][p] = new /\ new # <<>>
  BY <1>1, <1>6 DEF LevelByLevel
<1>10. new # <<>> => p \in Prices(c, s)
  BY <1>6 DEF LevelByLevel
<1>11. p \in G => g[p] = TotalQty(new)
  BY <1>9
<1>12. new = <<>> => TotalQty(new) = 0 /\ p \notin G
  BY <1>9, TotalEmpty
<1>13. new # <<>> => p \in G
  BY <1>10
<1> HIDE DEF f, g, F, G, old
<1>14. SumFunctionOnSet(f, F) = f[p] + SumFunctionOnSet(f, F \ {p})
  BY <1>1, <1>7, SumSplit
<1>15. /\ SumFunctionOnSet(f, F \ {p}) = SumFunctionOnSet(g, G \ {p})
       /\ SumFunctionOnSet(f, F \ {p}) \in Int
  <2>1. IsFiniteSet(F \ {p}) /\ \A x \in F \ {p} : f[x] = g[x] /\ f[x] \in Int
    BY <1>1, <1>8, FS_Subset
  <2>2. SumFunctionOnSet(f, F \ {p}) = SumFunctionOnSet(g, F \ {p})
    BY <2>1, SumSame
  <2> QED BY <1>8, <2>1, <2>2, SumRecursion
<1>16. CASE new = <<>>
  <2>1. G \ {p} = G
    BY <1>12, <1>16
  <2>2. f[p] \in Int /\ f[p] - q = 0
    BY <1>1, <1>5, <1>7, <1>12, <1>16
  <2>3. Available(c, o) = SumFunctionOnSet(f, F \ {p})
    BY <1>2, <1>15, <2>1
  <2> QED BY <1>1, <1>14, <1>15, <2>2, <2>3
<1>17. CASE new # <<>>
  <2>1. SumFunctionOnSet(g, G) = g[p] + SumFunctionOnSet(g, G \ {p})
    BY <1>2, <1>13, <1>17, SumSplit
  <2>2. f[p] \in Int /\ g[p] \in Int
    BY <1>1, <1>2, <1>7, <1>13, <1>17
  <2> QED BY <1>1, <1>2, <1>5, <1>7, <1>11, <1>13, <1>14, <1>15, <1>17, <2>1, <2>2
<1> QED BY <1>16, <1>17

(* Only the records of the orders that rest matter.                        *)
LEMMA RecordsConserve ==
  ASSUME NEW b, IndexExact(b), NEW sub, NEW exe, Conserved(b, sub, exe),
         NEW S, NEW E, SameRecords(DOMAIN b.index, sub, exe, S, E)
  PROVE  Conserved(b, S, E)
<1> SUFFICES ASSUME NEW x \in Sides, NEW y \in Prices(b, x), NEW j \in DOMAIN b.levels[x][y]
             PROVE  Accounted(b.levels[x][y][j], S, E)
  BY DEF Conserved
<1>1. Accounted(b.levels[x][y][j], sub, exe)
  BY DEF Conserved
<1>2. b.levels[x][y][j].id \in DOMAIN b.index
  BY DEF IndexExact
<1> QED BY <1>1, <1>2 DEF Accounted, SameRecords

-------------------------------------------------------------------------------
(* The matching loop as a whole: match_incoming repeats one iteration.     *)

(* An iteration of the loop on a book and the trades so far.               *)
Iteration(o, st) ==
  IF CanMatch(st.book, o, Remaining(o, st.trades))
  THEN [book |-> MatchOne(st.book, o, Remaining(o, st.trades)),
        trades |-> Append(st.trades, TradeOf(st.book, o, Remaining(o, st.trades)))]
  ELSE st

Start(b) == [book |-> b, trades |-> <<>>]

(* F lists what 0, 1, .. n iterations make of book b.                      *)
Runs(F, b, o, n) ==
  F[0] = Start(b) /\ \A m \in Nat : m < n => F[m + 1] = Iteration(o, F[m])
IsRun(F, b, o) == Runs(F, b, o, o.qty)

(* The library folds over a set of places, the greatest one last.          *)
IsFold(g, b, o, S) ==
  g = [s \in SUBSET S |-> IF s = {} THEN Start(b) ELSE Iteration(o, g[s \ {Max(s)}])]

LEMMA MatchIncomingIs ==
  ASSUME NEW b, NEW o, CanFill(b, o), NEW S, S = DOMAIN [i \in 1 .. o.qty |-> i]
  PROVE  match_incoming(b, o) = (CHOOSE g : IsFold(g, b, o, S))[S]
BY DEF match_incoming, FoldLeft, MapThenFoldSet, IsFold, Start, Iteration

(* The places that a fold has still to take: without the greatest one.     *)
LEMMA WithoutGreatest ==
  ASSUME NEW n \in Nat, NEW s \in SUBSET (1 .. n), s # {}
  PROVE  /\ s \ {Max(s)} \in SUBSET (1 .. n) /\ Cardinality(s \ {Max(s)}) \in Nat
         /\ Cardinality(s \ {Max(s)}) < n
         /\ Cardinality(s) = Cardinality(s \ {Max(s)}) + 1
<1> DEFINE S == 1 .. n
           x == Max(s)
           t == s \ {x}
<1>1. IsFiniteSet(S) /\ Cardinality(S) = n /\ S \in SUBSET Int
  <2>1. n > 0 \/ n = 0
    OBVIOUS
  <2> QED BY <2>1, FS_Interval
<1> HIDE DEF S
<1>2. IsFiniteSet(s) /\ s \in SUBSET Int /\ Cardinality(s) <= n
  BY <1>1, FS_Subset DEF S
<1>3. x \in s
  BY <1>2, Extremes
<1> HIDE DEF x
<1>4. t \in SUBSET s /\ Cardinality(s) \in Nat /\ Cardinality(t) \in Nat
      /\ Cardinality(t) = Cardinality(s) - 1
  BY <1>2, <1>3, SmallerPart
<1> HIDE DEF t
<1>5. Cardinality(t) < n /\ Cardinality(s) = Cardinality(t) + 1
  BY <1>2, <1>4
<1> QED BY <1>4, <1>5 DEF t, x

LEMMA GreatestOfInterval ==
  ASSUME NEW m \in Nat
  PROVE  1 .. (m + 1) # {} /\ (1 .. (m + 1)) \ {Max(1 .. (m + 1))} = 1 .. m
<1> DEFINE s == 1 .. (m + 1)
<1>1. s # {} /\ s \in SUBSET Int /\ IsFiniteSet(s)
  <2>1. IsFiniteSet(s)
    BY FS_Interval
  <2>2. m + 1 \in s
    OBVIOUS
  <2> QED BY <2>1, <2>2
<1>2. Max(s) \in s /\ \A x \in s : x <= Max(s)
  BY <1>1, Extremes
<1>3. Max(s) = m + 1
  BY <1>2
<1>4. s \ {Max(s)} = 1 .. m
  BY <1>3
<1> QED BY <1>1, <1>4

(* There is a list of the states after 0, 1, .. n iterations.              *)
LEMMA RunExists ==
  ASSUME NEW b, NEW o, NEW n \in Nat
  PROVE  \E F : Runs(F, b, o, n)
<1> DEFINE P == {k \in Nat : \E F : Runs(F, b, o, k)}
<1>1. 0 \in P
  <2> DEFINE F == [i \in {0} |-> Start(b)]
  <2>1. Runs(F, b, o, 0)
    BY DEF Runs
  <2> QED BY <2>1
<1>2. ASSUME NEW k \in P PROVE k + 1 \in P
  <2>1. PICK F : Runs(F, b, o, k)
    OBVIOUS
  <2> DEFINE G == [i \in 0 .. (k + 1) |-> IF i <= k THEN F[i] ELSE Iteration(o, F[k])]
  <2>2. G[0] = Start(b)
    BY <2>1 DEF Runs
  <2>3. ASSUME NEW m \in Nat, m < k + 1 PROVE G[m + 1] = Iteration(o, G[m])
    <3>1. m \in 0 .. (k + 1) /\ m + 1 \in 0 .. (k + 1) /\ m <= k /\ G[m] = F[m]
      BY <2>3
    <3>2. CASE m < k
      <4>1. m + 1 <= k /\ F[m + 1] = Iteration(o, F[m])
        BY <2>1, <3>2 DEF Runs
      <4> QED BY <3>1, <4>1
    <3>3. CASE ~(m < k)
      <4>1. m = k /\ ~(m + 1 <= k)
        BY <3>1, <3>3
      <4> QED BY <3>1, <4>1
    <3> QED BY <3>2, <3>3
  <2> HIDE DEF G
  <2>4. Runs(G, b, o, k + 1)
    BY <2>2, <2>3 DEF Runs
  <2> QED BY <2>4
<1>3. P \in SUBSET Nat
  OBVIOUS
<1> HIDE DEF P
<1>4. P = Nat
  BY <1>1, <1>2, <1>3, SetInduction
<1> QED BY <1>4 DEF P

(* The fold has a solution: the state after as many iterations as there    *)
(* are places.                                                             *)
LEMMA FoldExists ==
  ASSUME NEW b, NEW o, NEW n \in Nat
  PROVE  \E g : IsFold(g, b, o, 1 .. n)
<1> DEFINE S == 1 .. n
<1>1. PICK F : Runs(F, b, o, n)
  BY RunExists
<1> DEFINE g == [s \in SUBSET S |-> F[Cardinality(s)]]
<1>3. ASSUME NEW s \in SUBSET S
      PROVE  F[Cardinality(s)] = IF s = {} THEN Start(b) ELSE Iteration(o, g[s \ {Max(s)}])
  <2>1. CASE s = {}
    BY <1>1, <2>1, FS_EmptySet DEF Runs
  <2>2. CASE s # {}
    <3>1. /\ s \ {Max(s)} \in SUBSET S /\ Cardinality(s \ {Max(s)}) \in Nat
          /\ Cardinality(s \ {Max(s)}) < n
          /\ Cardinality(s) = Cardinality(s \ {Max(s)}) + 1
      BY <2>2, WithoutGreatest
    <3>2. g[s \ {Max(s)}] = F[Cardinality(s \ {Max(s)})]
      BY <3>1
    <3>3. PICK m \in Nat : m = Cardinality(s \ {Max(s)}) /\ m < n /\ m + 1 = Cardinality(s)
      BY <3>1
    <3>4. F[m + 1] = Iteration(o, F[m])
      BY <1>1, <3>3 DEF Runs
    <3> QED BY <2>2, <3>2, <3>3, <3>4
  <2> QED BY <2>1, <2>2
<1>4. IsFold(g, b, o, S)
  BY <1>3 DEF IsFold
<1> QED BY <1>4 DEF S

(* The whole loop is o.qty iterations.                                     *)
LEMMA MatchIncomingRuns ==
  ASSUME NEW b, NEW o, o.qty \in Int, CanFill(b, o)
  PROVE  \E F : /\ IsRun(F, b, o)
                /\ match_incoming(b, o) = F[IF o.qty > 0 THEN o.qty ELSE 0]
<1>1. PICK n \in Nat : n = IF o.qty > 0 THEN o.qty ELSE 0
  OBVIOUS
<1>2. DOMAIN [i \in 1 .. o.qty |-> i] = 1 .. n
  BY <1>1
<1> DEFINE g == CHOOSE g : IsFold(g, b, o, 1 .. n)
           F == [m \in 0 .. n |-> g[1 .. m]]
<1>3. IsFold(g, b, o, 1 .. n)
  <2>1. \E h : IsFold(h, b, o, 1 .. n)
    BY FoldExists
  <2> QED BY <2>1
<1>4. match_incoming(b, o) = g[1 .. n]
  BY <1>2, MatchIncomingIs
<1> HIDE DEF g
<1>5. ASSUME NEW s \in SUBSET (1 .. n)
      PROVE  g[s] = IF s = {} THEN Start(b) ELSE Iteration(o, g[s \ {Max(s)}])
  BY <1>3 DEF IsFold
<1>6. F[0] = Start(b)
  <2>1. 0 \in 0 .. n /\ 1 .. 0 = {}
    OBVIOUS
  <2> QED BY <1>5, <2>1
<1>7. ASSUME NEW m \in Nat, m < n PROVE F[m + 1] = Iteration(o, F[m])
  <2>1. m + 1 \in 0 .. n /\ m \in 0 .. n /\ 1 .. (m + 1) \in SUBSET (1 .. n)
    BY <1>7
  <2>2. 1 .. (m + 1) # {} /\ (1 .. (m + 1)) \ {Max(1 .. (m + 1))} = 1 .. m
    BY GreatestOfInterval
  <2>3. g[1 .. (m + 1)] = Iteration(o, g[1 .. m])
    BY <1>5, <2>1, <2>2
  <2> QED BY <2>1, <2>3
<1>8. F[n] = g[1 .. n]
  OBVIOUS
<1> HIDE DEF F
<1>9. \A m \in Nat : m < o.qty => m < n
  BY <1>1
<1>10. IsRun(F, b, o)
  BY <1>6, <1>7, <1>9 DEF IsRun, Runs
<1> QED BY <1>1, <1>4, <1>8, <1>10

(* Once the loop condition fails the remaining iterations change nothing.  *)
LEMMA RunEnds ==
  ASSUME NEW b, NEW o, o.qty \in Int, NEW F, IsRun(F, b, o),
         NEW k \in Nat, NEW n \in Nat, k <= n, n = 0 \/ n <= o.qty,
         ~CanMatch(F[k].book, o, Remaining(o, F[k].trades))
  PROVE  F[n] = F[k]
<1> DEFINE P == {m \in Nat : k + m <= n => F[k + m] = F[k]}
<1>1. 0 \in P
  OBVIOUS
<1>2. ASSUME NEW m \in P PROVE m + 1 \in P
  <2> SUFFICES ASSUME k + (m + 1) <= n PROVE F[k + (m + 1)] = F[k]
    OBVIOUS
  <2>1. k + m \in Nat /\ k + m < o.qty /\ k + m <= n /\ k + (m + 1) = (k + m) + 1
    OBVIOUS
  <2>2. F[k + m] = F[k]
    BY <2>1
  <2>3. F[(k + m) + 1] = Iteration(o, F[k + m])
    BY <2>1 DEF IsRun, Runs
  <2>4. Iteration(o, F[k]) = F[k]
    BY DEF Iteration
  <2> QED BY <2>1, <2>2, <2>3, <2>4
<1>3. P \in SUBSET Nat
  OBVIOUS
<1> HIDE DEF P
<1>4. P = Nat
  BY <1>1, <1>2, <1>3, SetInduction
<1>5. n - k \in P /\ k + (n - k) = n
  BY <1>4
<1> QED BY <1>5 DEF P
-------------------------------------------------------------------------------
(* Whole calls.                                                            *)

(* Taking an order out keeps a book sound.                                 *)
LEMMA RemovalSound ==
  ASSUME NEW I, NEW T, NEW P \in SUBSET Int, NEW b, BookSound(b, I, T, P), NEW id \in DOMAIN b.index
  PROVE  /\ BookSound(RemoveOrder(b, id), I, T, P)
         /\ DOMAIN RemoveOrder(b, id).index = DOMAIN b.index \ {id}
         /\ RemoveOrder(b, id).trades = b.trades
         /\ b.index[id].side \in Sides
<1> DEFINE s == b.index[id].side
           p == b.index[id].price
           c == RemoveOrder(b, id)
           k == PlaceOf(b, id)
           q == update_queue_positions(RemoveAt(QueueOf(b, id), k))
<1>1. BookTyped(b, I, T, P) /\ IndexExact(b)
  BY DEF BookSound
<1>2. /\ IsBook(c) /\ s \in Sides /\ p \in Prices(b, s)
      /\ k \in DOMAIN b.levels[s][p] /\ b.levels[s][p][k].id = id
      /\ q \in Seq(L3Orders(I, T)) /\ Removes(b, c, s, p, k, q)
      /\ c.trades = b.trades
  BY SMTT(30), <1>1, RemoveOrderRemoves
<1> HIDE DEF s, p, c, k, q
<1>3. BookSound(c, I, T, P)
  BY <1>2, OrderRemoved
<1>4. DOMAIN c.index = DOMAIN b.index \ {id}
  BY <1>2 DEF Removes, Erase, Restrict
<1> QED BY <1>2, <1>3, <1>4 DEF s, c

(* What a client may ask of add_order.                                     *)
Incoming(o, ids, traders, prices) ==
  /\ o.id \in ids /\ o.trader \in traders /\ o.side \in Sides /\ o.qty \in Int
  /\ o.type = "Market" \/ o.price \in prices

TradesMade(ids, traders, prices) ==
  [resting : ids, trader : traders, price : prices, qty : Nat]

(* After k iterations of the loop on book b the state is st: the trades    *)
(* are no more than was asked for, and at least k units, unless the loop   *)
(* has ended.                                                              *)
RunSound(b, o, st, k, ids, traders, prices) ==
  /\ BookSound(st.book, ids, traders, prices)
  /\ st.trades \in Seq(TradesMade(ids, traders, prices))
  /\ DOMAIN st.book.index \subseteq DOMAIN b.index
  /\ st.book.trades = b.trades + Len(st.trades)
  /\ TotalQty(st.trades) \in Nat
  /\ TotalQty(st.trades) <= o.qty \/ st.trades = <<>>
  /\ TotalQty(st.trades) >= k \/ ~CanMatch(st.book, o, Remaining(o, st.trades))

(* One trade of the loop.                                                  *)
LEMMA IterationSound ==
  ASSUME NEW I, NEW T, NEW P \in SUBSET Int, NEW b, b.trades \in Nat,
         NEW o, Incoming(o, I, T, P),
         NEW st, NEW k \in Nat, RunSound(b, o, st, k, I, T, P)
  PROVE  RunSound(b, o, Iteration(o, st), k + 1, I, T, P)
<1>1. CASE ~CanMatch(st.book, o, Remaining(o, st.trades))
  BY <1>1 DEF Iteration, RunSound
<1>2. CASE CanMatch(st.book, o, Remaining(o, st.trades))
  <2> DEFINE B == st.book
             rem == Remaining(o, st.trades)
             s == Opposite(o.side)
             p == BestPrice(B, s)
             c == MatchOne(B, o, rem)
             q == MatchQty(B, o, rem)
             t == TradeOf(B, o, rem)
             front == B.levels[s][p][1]
             R == TradesMade(I, T, P)
  <2>1. /\ BookSound(B, I, T, P) /\ st.trades \in Seq(R)
        /\ DOMAIN B.index \subseteq DOMAIN b.index /\ B.trades = b.trades + Len(st.trades)
        /\ TotalQty(st.trades) \in Nat
        /\ TotalQty(st.trades) >= k
    BY <1>2 DEF RunSound
  <2>2. rem \in Int /\ rem = o.qty - TotalQty(st.trades) /\ o.side \in Sides /\ o.qty \in Int
    BY <2>1 DEF Remaining, Incoming
  <2>3. /\ IsBook(c) /\ Trades(B, c, s, p, q)
        /\ s \in Sides /\ p \in Prices(B, s)
        /\ B.levels[s][p] \in Seq(L3Orders(I, T)) /\ B.levels[s][p] # <<>>
        /\ NextResting(B, o) = front
        /\ q \in Nat /\ 0 < q /\ q <= rem /\ q <= front.qty
        /\ front \in L3Orders(I, T)
        /\ q # front.qty => Reduce(front, q) \in L3Orders(I, T)
    <3>1. CanMatch(B, o, rem)
      BY <1>2
    <3> HIDE DEF rem, B
    <3> QED BY SMTT(30), <2>1, <2>2, <3>1, MatchOneTrades
  <2>4. t = [resting |-> front.id, trader |-> front.trader, price |-> p, qty |-> q]
    BY <2>3 DEF TradeOf
  <2>5. Iteration(o, st) = [book |-> c, trades |-> Append(st.trades, t)]
    BY <1>2 DEF Iteration
  <2>6. c.trades = B.trades + 1
    BY DEF MatchOne
  <2>7. 1 \in DOMAIN B.levels[s][p]
    BY <2>3, EmptySeq, LenProperties
  <2>8. p \in P
    BY <2>1, <2>3 DEF BookSound, BookTyped
  <2> HIDE DEF rem, B, s, p, c, q, t, front
  <2>9. t \in R /\ t.qty = q
    BY <2>3, <2>4, <2>8 DEF TradesMade, L3Orders
  <2>10. BookSound(c, I, T, P) /\ DOMAIN c.index \subseteq DOMAIN B.index
    <3>1. CASE q = front.qty
      <4> DEFINE u == Tail(B.levels[s][p])
      <4>1. Removes(B, c, s, p, 1, u) /\ u \in Seq(L3Orders(I, T))
        BY <2>3, <3>1, HeadTailProperties DEF Trades, front
      <4> HIDE DEF u
      <4>2. BookSound(c, I, T, P)
        BY <2>1, <2>3, <2>7, <4>1, OrderRemoved
      <4>3. DOMAIN c.index \subseteq DOMAIN B.index
        BY <4>1 DEF Removes, Erase, Restrict
      <4> QED BY <4>2, <4>3
    <3>2. CASE q # front.qty
      <4> DEFINE r == Reduce(front, q)
      <4>1. Reduces(B, c, s, p, r) /\ r \in L3Orders(I, T)
        BY <2>3, <3>2 DEF Trades, front
      <4> HIDE DEF r
      <4>2. BookSound(c, I, T, P)
        BY <2>1, <2>3, <4>1, OrderReduced
      <4>3. c.index = B.index
        BY <4>1 DEF Reduces
      <4> QED BY <4>2, <4>3
    <3> QED BY <3>1, <3>2
  <2>11. TotalQty(Append(st.trades, t)) = TotalQty(st.trades) + q
    <3>1. \A r \in R : r.qty \in Int
      BY DEF TradesMade
    <3> HIDE DEF R
    <3> QED BY <2>1, <2>9, <3>1, TotalAppend
  <2>12. Append(st.trades, t) \in Seq(R) /\ Len(Append(st.trades, t)) = Len(st.trades) + 1
         /\ Len(st.trades) \in Nat
    BY <2>1, <2>9, AppendProperties, LenProperties
  <2>13. c.trades = b.trades + Len(Append(st.trades, t))
    BY <2>1, <2>6, <2>12
  <2>14. /\ TotalQty(Append(st.trades, t)) \in Nat
         /\ TotalQty(Append(st.trades, t)) <= o.qty
         /\ TotalQty(Append(st.trades, t)) >= k + 1
    BY <2>1, <2>2, <2>3, <2>11
  <2> QED BY <2>1, <2>5, <2>10, <2>12, <2>13, <2>14 DEF RunSound, B
<1> QED BY <1>1, <1>2

(* The loop as a whole: what it trades, and that it has ended.             *)
LEMMA MatchIncomingSound ==
  ASSUME NEW I, NEW T, NEW P \in SUBSET Int, NEW b, BookSound(b, I, T, P),
         NEW o, Incoming(o, I, T, P)
  PROVE  LET m == match_incoming(b, o)
         IN  /\ RunSound(b, o, m, 0, I, T, P)
             /\ o.tif = "FOK" \/ ~CanMatch(m.book, o, Remaining(o, m.trades))
<1>1. o.qty \in Int /\ b.trades \in Nat
  BY DEF Incoming, BookSound, BookTyped
<1>2. RunSound(b, o, Start(b), 0, I, T, P)
  <2>1. << >> \in Seq(TradesMade(I, T, P)) /\ Len(<<>>) = 0
    BY EmptySeq
  <2> QED BY <1>1, <2>1, TotalEmpty DEF RunSound, Start
<1>3. CASE ~CanFill(b, o)
  <2>1. match_incoming(b, o) = Start(b) /\ o.tif = "FOK"
    BY <1>3 DEF match_incoming, Start, CanFill
  <2> QED BY <1>2, <2>1
<1>4. CASE CanFill(b, o)
  <2>1. PICK n \in Nat : n = IF o.qty > 0 THEN o.qty ELSE 0
    BY <1>1
  <2>2. PICK F : IsRun(F, b, o) /\ match_incoming(b, o) = F[n]
    BY <1>1, <1>4, <2>1, MatchIncomingRuns
  <2> DEFINE S == {k \in Nat : k <= n => RunSound(b, o, F[k], k, I, T, P)}
  <2>3. 0 \in S
    BY <1>2, <2>2 DEF IsRun, Runs
  <2>4. ASSUME NEW k \in S PROVE k + 1 \in S
    <3> SUFFICES ASSUME k + 1 <= n PROVE RunSound(b, o, F[k + 1], k + 1, I, T, P)
      OBVIOUS
    <3>1. k \in Nat /\ k < o.qty /\ RunSound(b, o, F[k], k, I, T, P)
      BY <1>1, <2>1
    <3>2. F[k + 1] = Iteration(o, F[k])
      BY <2>2, <3>1 DEF IsRun, Runs
    <3>3. RunSound(b, o, Iteration(o, F[k]), k + 1, I, T, P)
      BY <1>1, <3>1, IterationSound
    <3> QED BY <3>2, <3>3
  <2>5. S \in SUBSET Nat
    OBVIOUS
  <2> HIDE DEF S
  <2>6. S = Nat
    BY <2>3, <2>4, <2>5, SetInduction
  <2>7. RunSound(b, o, F[n], n, I, T, P)
    BY <2>6 DEF S
  <2>8. ~CanMatch(F[n].book, o, Remaining(o, F[n].trades))
    <3>1. CASE TotalQty(F[n].trades) >= n
      <4>1. TotalQty(F[n].trades) \in Nat
        BY <2>7 DEF RunSound
      <4>2. ~(Remaining(o, F[n].trades) > 0)
        BY <1>1, <2>1, <3>1, <4>1 DEF Remaining
      <4> QED BY <4>2 DEF CanMatch
    <3> QED BY <2>7, <3>1 DEF RunSound
  <2>9. RunSound(b, o, F[n], 0, I, T, P)
    BY <2>7, <2>8 DEF RunSound
  <2> QED BY <2>2, <2>8, <2>9
<1> QED BY <1>3, <1>4

(* What a call makes of a book: r is the result, id the order it is about. *)
CallSound(b, id, r, ids, traders, prices) ==
  /\ BookSound(r.book, ids, traders, prices)
  /\ DOMAIN r.book.index \subseteq DOMAIN b.index \cup {id}
  /\ r.trades \in Seq(TradesMade(ids, traders, prices))
  /\ r.book.trades = b.trades + Len(r.trades)

(* add_order: the remainder rests only where it does not cross, an order   *)
(* that rests is reported as new or partially filled, and no more is       *)
(* reported filled than was asked for.                                     *)
LEMMA AddOrderSound ==
  ASSUME NEW I, NEW T, NEW P \in SUBSET Int, NEW b, BookSound(b, I, T, P),
         NEW o, Incoming(o, I, T, P)
  PROVE  LET r == add_order(b, o)
         IN  /\ CallSound(b, o.id, r, I, T, P)
             /\ o.id \in DOMAIN r.book.index =>
                  o.id \in DOMAIN b.index \/ r.report.status \in {"New", "PartiallyFilled"}
             /\ o.id \in DOMAIN b.index => r.report.status = "Rejected"
             /\ r.report.filled_qty \in Nat
             /\ r.report.filled_qty > 0 => r.report.filled_qty <= o.qty
<1> DEFINE r == add_order(b, o)
           m == match_incoming(b, o)
           rem == Remaining(o, m.trades)
<1>1. o.qty \in Int /\ b.trades \in Nat /\ o.id \in I /\ o.trader \in T /\ o.side \in Sides
  BY DEF Incoming, BookSound, BookTyped
<1>2. << >> \in Seq(TradesMade(I, T, P)) /\ Len(<<>>) = 0
  BY EmptySeq
<1>3. CASE o.id \in DOMAIN b.index
  <2>1. r = [book |-> b, trades |-> <<>>, report |-> Rejection(o.qty, "DuplicateOrderId")]
    BY <1>3 DEF add_order
  <2>2. /\ Rejection(o.qty, "DuplicateOrderId").status = "Rejected"
        /\ Rejection(o.qty, "DuplicateOrderId").filled_qty = 0
    BY DEF Rejection, NoReport
  <2> HIDE DEF r
  <2>3. CallSound(b, o.id, r, I, T, P)
    BY <1>1, <1>2, <2>1 DEF CallSound
  <2> QED BY <1>3, <2>1, <2>2, <2>3 DEF r
<1>4. CASE o.id \notin DOMAIN b.index
  <2>1. r = [book |-> RestRemainder(m.book, o, m.trades), trades |-> m.trades,
             report |-> AddReport(o, m.trades)]
    BY <1>4 DEF add_order
  <2>2. /\ RunSound(b, o, m, 0, I, T, P)
        /\ o.tif = "FOK" \/ ~CanMatch(m.book, o, rem)
    BY MatchIncomingSound
  <2> HIDE DEF m, r
  <2>3. /\ BookSound(m.book, I, T, P) /\ m.trades \in Seq(TradesMade(I, T, P))
        /\ DOMAIN m.book.index \subseteq DOMAIN b.index
        /\ m.book.trades = b.trades + Len(m.trades)
        /\ TotalQty(m.trades) \in Nat
        /\ TotalQty(m.trades) <= o.qty \/ m.trades = <<>>
    BY <2>2 DEF RunSound
  <2>4. rem = o.qty - TotalQty(m.trades)
    BY DEF Remaining
  <2>5. m.trades = <<>> => TotalQty(m.trades) = 0
    BY TotalEmpty
  <2>6. /\ AddReport(o, m.trades).filled_qty \in {0, TotalQty(m.trades)}
        /\ AddReport(o, m.trades).status = AddStatus(o, m.trades)
    BY DEF AddReport
  <2>7. AddReport(o, m.trades).filled_qty \in Nat
        /\ (AddReport(o, m.trades).filled_qty > 0 => AddReport(o, m.trades).filled_qty <= o.qty)
    BY <1>1, <2>3, <2>5, <2>6
  <2>8. CASE ~Rests(o, m.trades)
    <3>1. RestRemainder(m.book, o, m.trades) = m.book
      BY <2>8 DEF RestRemainder
    <3>2. CallSound(b, o.id, r, I, T, P)
      BY <2>1, <2>3, <3>1 DEF CallSound
    <3> QED BY <1>4, <2>1, <2>3, <2>7, <3>1, <3>2 DEF r
  <2>9. CASE Rests(o, m.trades)
    <3> DEFINE e == Entry(m.book, o, rem)
               c == add_resting_order(m.book, o, rem)
               s == o.side
               p == o.price
    <3>1. RestRemainder(m.book, o, m.trades) = c
      BY <2>9 DEF RestRemainder
    <3>2. rem > 0 /\ o.type = "Limit" /\ o.tif # "FOK"
      BY <2>9 DEF Rests
    <3>3. p \in P /\ o.id \in I \ DOMAIN m.book.index
      BY <1>1, <1>4, <2>3, <3>2 DEF Incoming
    <3>4. rem \in Nat \ {0} /\ o.qty - rem \in Nat
      BY <1>1, <2>3, <2>4, <3>2
    <3>5. BookTyped(m.book, I, T, P)
      BY <2>3 DEF BookSound
    <3>6. IsBook(c) /\ e \in L3Orders(I, T) /\ Adds(m.book, c, s, p, e) /\ c.trades = m.book.trades
      <4> HIDE DEF rem
      <4> QED BY <1>1, <3>3, <3>4, <3>5, RestingAdds
    <3>7. \A y \in Prices(m.book, Opposite(s)) : IF s = Buy THEN p < y ELSE y < p
      <4> SUFFICES ASSUME NEW y \in Prices(m.book, Opposite(s))
                   PROVE  IF s = Buy THEN p < y ELSE y < p
        OBVIOUS
      <4> DEFINE best == BestPrice(m.book, Opposite(s))
      <4>1. ~Crosses(o, best)
        BY <2>2, <3>2 DEF CanMatch
      <4>2. Opposite(s) \in Sides
        BY DEF Opposite, Sides
      <4>3. /\ best \in Prices(m.book, Opposite(s))
            /\ IF Opposite(s) = Buy THEN y <= best ELSE best <= y
        BY <3>5, <4>2, BestIs
      <4>4. y \in Int /\ best \in Int /\ p \in Int
        BY <3>3, <3>5, <4>2, <4>3 DEF BookTyped
      <4> HIDE DEF best
      <4>5. CASE s = Buy
        BY <4>1, <4>3, <4>4, <4>5 DEF Crosses, Opposite, Buy, Sell
      <4>6. CASE s = Sell
        BY <4>1, <4>3, <4>4, <4>6 DEF Crosses, Opposite, Buy, Sell
      <4> QED BY <1>1, <4>5, <4>6 DEF Sides
    <3> HIDE DEF e, c, s, p
    <3>8. BookSound(c, I, T, P)
      BY <1>1, <2>3, <3>3, <3>6, <3>7, OrderAdded DEF s, p
    <3>9. DOMAIN c.index = DOMAIN m.book.index \cup {o.id}
      BY <3>6 DEF Adds, Put, e, Entry
    <3>10. AddStatus(o, m.trades) \in {"New", "PartiallyFilled"}
      <4>1. ~Kills(o, m.trades) /\ ~Expires(o, m.trades) /\ Remaining(o, m.trades) # 0
        BY <2>9, <3>4 DEF Kills, Expires, Rests
      <4> HIDE DEF rem
      <4> QED BY <4>1 DEF AddStatus
    <3>11. CallSound(b, o.id, r, I, T, P)
      BY <2>1, <2>3, <3>1, <3>6, <3>8, <3>9 DEF CallSound
    <3> QED BY <1>4, <2>1, <2>6, <2>7, <3>10, <3>11 DEF r
  <2> QED BY <2>8, <2>9
<1> QED BY <1>3, <1>4

(* cancel_order: an order that rests is taken out and reported canceled.   *)
LEMMA CancelOrderSound ==
  ASSUME NEW I, NEW T, NEW P \in SUBSET Int, NEW b, BookSound(b, I, T, P), NEW id
  PROVE  LET r == cancel_order(b, id)
         IN  /\ BookSound(r.book, I, T, P)
             /\ r.book.trades = b.trades
             /\ DOMAIN r.book.index = DOMAIN b.index \ {id}
             /\ r.report.status = "Canceled" <=> id \in DOMAIN b.index
<1>1. CASE id \in DOMAIN b.index
  <2>1. CancelReport(b, id).status = "Canceled"
    BY DEF CancelReport, NoReport
  <2>2. /\ BookSound(RemoveOrder(b, id), I, T, P)
        /\ DOMAIN RemoveOrder(b, id).index = DOMAIN b.index \ {id}
        /\ RemoveOrder(b, id).trades = b.trades
    BY <1>1, RemovalSound
  <2> QED BY <1>1, <2>1, <2>2 DEF cancel_order
<1>2. CASE id \notin DOMAIN b.index
  <2>1. Rejection(0, "None").status = "Rejected"
    BY DEF Rejection, NoReport
  <2> QED BY <1>2, <2>1 DEF cancel_order
<1> QED BY <1>1, <1>2

(* replace_order: nothing but the order itself may come to rest.           *)
LEMMA ReplaceOrderSound ==
  ASSUME NEW I, NEW T, NEW P \in SUBSET Int, NEW b, BookSound(b, I, T, P),
         NEW id, NEW t \in T, NEW p \in P, NEW q \in Int
  PROVE  LET r == replace_order(b, id, t, p, q)
         IN  CallSound(b, id, r, I, T, P) /\ DOMAIN r.book.index \subseteq DOMAIN b.index
<1> DEFINE r == replace_order(b, id, t, p, q)
<1>1. CASE id \in DOMAIN b.index
  <2> DEFINE o == Replacement(b, id, t, p, q)
             B == RemoveOrder(b, id)
  <2>1. /\ BookSound(B, I, T, P) /\ DOMAIN B.index = DOMAIN b.index \ {id}
        /\ B.trades = b.trades /\ b.index[id].side \in Sides
    BY <1>1, RemovalSound
  <2>2. id \in I
    BY <1>1 DEF BookSound, BookTyped
  <2>3. Incoming(o, I, T, P) /\ o.id = id
    BY <2>1, <2>2 DEF Incoming, Replacement
  <2>4. r = add_order(B, o)
    BY <1>1 DEF replace_order
  <2> HIDE DEF o, B, r
  <2>5. CallSound(B, o.id, r, I, T, P)
    BY <2>1, <2>3, <2>4, AddOrderSound
  <2>6. CallSound(b, id, r, I, T, P) /\ DOMAIN r.book.index \subseteq DOMAIN b.index
    BY <1>1, <2>1, <2>3, <2>5 DEF CallSound
  <2> QED BY <2>6 DEF r
<1>2. CASE id \notin DOMAIN b.index
  <2>1. << >> \in Seq(TradesMade(I, T, P)) /\ Len(<<>>) = 0
    BY EmptySeq
  <2>2. r = [book |-> b, trades |-> <<>>, report |-> Rejection(0, "None")]
    BY <1>2 DEF replace_order
  <2>3. b.trades \in Nat
    BY DEF BookSound, BookTyped
  <2> HIDE DEF r
  <2>4. CallSound(b, id, r, I, T, P) /\ DOMAIN r.book.index \subseteq DOMAIN b.index
    BY <2>1, <2>2, <2>3 DEF CallSound
  <2> QED BY <2>4 DEF r
<1> QED BY <1>1, <1>2
===============================================================================
