--------------------------- MODULE BacktestProofs ---------------------------
(***************************************************************************)
(* The backtesting loop books every payment, ends without a position, and  *)
(* moves a stop only towards profit, for any number of pairs, any prices,  *)
(* amounts and candles.                                                    *)
(*                                                                         *)
(* What a trade holds is what its filled orders come to (Books, by         *)
(* recursion on the order list).  The invariant says so of every trade:    *)
(* there is a list of filled orders, its base, that its amount, stake and  *)
(* realized profit fit, and at most one open order behind them (Rests).    *)
(* Cancelling goes back to the base, placing an order leaves the base, and *)
(* an order that fills makes the base longer by one; the lemmas of the     *)
(* second section say what each does to the value of the trade, which is   *)
(* what its books still owe to the profit.  The class lists are a          *)
(* bijection between open trades and the pairs that hold one (Listed);     *)
(* flow is the profit and the sum of the values (Worth).                   *)
(***************************************************************************)
EXTENDS Backtest, SumLemmas

-----------------------------------------------------------------------------
(* What the orders of a trade come to *)

Zero == [amount |-> 0, stake |-> 0, real |-> 0]
BooksType == [amount : Nat, stake : Int, real : Int]

Runs(g, orders, sgn, n) ==
  \A k \in 0..n : g[k] = IF k = 0 THEN Zero ELSE Booked(g[k - 1], orders[k], sgn)

LEMMA RunExists ==
  ASSUME NEW orders, Len(orders) \in Nat, NEW sgn
  PROVE  \E g : g = [n \in 0..Len(orders) |->
                       IF n = 0 THEN [amount |-> 0, stake |-> 0, real |-> 0]
                       ELSE Booked(g[n - 1], orders[n], sgn)]
  <1> DEFINE Is(g, n) == g = [k \in 0..n |->
                       IF k = 0 THEN [amount |-> 0, stake |-> 0, real |-> 0]
                       ELSE Booked(g[k - 1], orders[k], sgn)]
             Good == {n \in Nat : \E g : Is(g, n)}
  <1>1. 0 \in Good
    <2>1. Is([k \in 0..0 |-> [amount |-> 0, stake |-> 0, real |-> 0]], 0)  OBVIOUS
    <2> QED  BY <2>1
  <1>2. ASSUME NEW n \in Nat, n \in Good PROVE n + 1 \in Good
    <2>1. PICK g : Is(g, n)  BY <1>2
    <2> DEFINE last == Booked(g[n], orders[n + 1], sgn)
               h == [k \in 0..n + 1 |-> IF k = n + 1 THEN last ELSE g[k]]
    <2>2. \A k \in 0..n : g[k] = IF k = 0 THEN [amount |-> 0, stake |-> 0, real |-> 0]
                       ELSE Booked(g[k - 1], orders[k], sgn)
      BY <2>1
    <2>3. \A k \in 0..n : h[k] = g[k]  OBVIOUS
    <2>4. h[n + 1] = last  OBVIOUS
    <2> HIDE DEF h
    <2>5. \A k \in 0..n + 1 : h[k] = IF k = 0 THEN [amount |-> 0, stake |-> 0, real |-> 0]
                       ELSE Booked(h[k - 1], orders[k], sgn)
      <3> SUFFICES ASSUME NEW k \in 0..n + 1
                   PROVE h[k] = IF k = 0 THEN [amount |-> 0, stake |-> 0, real |-> 0]
                       ELSE Booked(h[k - 1], orders[k], sgn)
        OBVIOUS
      <3>1. CASE k = n + 1
        <4>1. k # 0 /\ k - 1 = n /\ n \in 0..n  BY <3>1
        <4> QED  BY <3>1, <4>1, <2>3, <2>4
      <3>2. CASE k = 0  BY <3>2, <2>2, <2>3
      <3>3. CASE k \in 1..n
        <4>1. k \in 0..n /\ k - 1 \in 0..n /\ k # 0  BY <3>3
        <4> QED  BY <4>1, <2>2, <2>3
      <3> QED  BY <3>1, <3>2, <3>3
    <2>6. h = [k \in 0..n + 1 |-> h[k]]  BY DEF h
    <2>7. Is(h, n + 1)  BY <2>5, <2>6
    <2> HIDE DEF Is
    <2> QED  BY <2>7
  <1>3. Nat \subseteq Good  BY <1>1, <1>2, NatSteps
  <1> QED  BY <1>3

LEMMA BooksRun ==
  ASSUME NEW orders, Len(orders) \in Nat, NEW sgn
  PROVE  \E g : Runs(g, orders, sgn, Len(orders)) /\ Books(orders, sgn) = g[Len(orders)]
  <1> DEFINE Is(g) == g = [n \in 0..Len(orders) |->
                       IF n = 0 THEN [amount |-> 0, stake |-> 0, real |-> 0]
                       ELSE Booked(g[n - 1], orders[n], sgn)]
             c == CHOOSE g : Is(g)
  <1>1. \E g : Is(g)  BY RunExists
  <1>2. Is(c)  BY <1>1
  <1>3. Books(orders, sgn) = c[Len(orders)]  BY DEF Books
  <1> HIDE DEF c
  <1>4. Runs(c, orders, sgn, Len(orders))  BY <1>2 DEF Runs, Zero
  <1> QED  BY <1>3, <1>4

\* Orders that are booked alike come to the same.
LEMMA RunsAgree ==
  ASSUME NEW a, NEW b, NEW sgn, NEW g, NEW h, NEW n \in Nat,
         Runs(g, a, sgn, n), Runs(h, b, sgn, n),
         \A k \in 1..n : \A s : Booked(s, a[k], sgn) = Booked(s, b[k], sgn)
  PROVE  g[n] = h[n]
  <1> DEFINE Good == {k \in Nat : k <= n => g[k] = h[k]}
  <1>1. 0 \in Good  BY DEF Runs
  <1>2. ASSUME NEW k \in Nat, k \in Good PROVE k + 1 \in Good
    <2> SUFFICES ASSUME k + 1 <= n PROVE g[k + 1] = h[k + 1]
      OBVIOUS
    <2>1. k + 1 \in 1..n /\ k + 1 \in 0..n /\ k + 1 # 0 /\ (k + 1) - 1 = k /\ k <= n
      OBVIOUS
    <2>2. g[k] = h[k]  BY <1>2, <2>1
    <2>3. g[k + 1] = Booked(g[k], a[k + 1], sgn) /\ h[k + 1] = Booked(h[k], b[k + 1], sgn)
      BY <2>1 DEF Runs
    <2>4. Booked(g[k], a[k + 1], sgn) = Booked(g[k], b[k + 1], sgn)  BY <2>1
    <2> QED  BY <2>2, <2>3, <2>4
  <1>3. n \in Good  BY <1>1, <1>2, NatSteps
  <1> QED  BY <1>3

LEMMA BooksAlike ==
  ASSUME NEW a, NEW b, NEW sgn, Len(a) \in Nat, Len(b) = Len(a),
         \A k \in 1..Len(a) : \A s : Booked(s, a[k], sgn) = Booked(s, b[k], sgn)
  PROVE  Books(a, sgn) = Books(b, sgn)
  <1>1. PICK g : Runs(g, a, sgn, Len(a)) /\ Books(a, sgn) = g[Len(a)]  BY BooksRun
  <1>2. PICK h : Runs(h, b, sgn, Len(a)) /\ Books(b, sgn) = h[Len(a)]  BY BooksRun
  <1> QED  BY <1>1, <1>2, RunsAgree

LEMMA BooksEmpty == ASSUME NEW sgn PROVE Books(<<>>, sgn) = Zero
  <1>1. Len(<<>>) = 0  OBVIOUS
  <1>2. PICK g : Runs(g, <<>>, sgn, 0) /\ Books(<<>>, sgn) = g[0]  BY <1>1, BooksRun
  <1> QED  BY <1>2 DEF Runs

LEMMA BooksAppend ==
  ASSUME NEW S, NEW orders \in Seq(S), NEW o \in S, NEW sgn
  PROVE  Books(Append(orders, o), sgn) = Booked(Books(orders, sgn), o, sgn)
  <1>1. PICK n \in Nat : n = Len(orders)  OBVIOUS
  <1>2. PICK more \in Seq(S) : more = Append(orders, o)
    <2>1. Append(orders, o) \in Seq(S)  OBVIOUS
    <2> QED  BY <2>1, Zenon
  <1>3. Len(more) = n + 1 /\ more[n + 1] = o /\ \A k \in 1..n : more[k] = orders[k]
    BY <1>1, <1>2
  <1>4. PICK g : Runs(g, orders, sgn, n) /\ Books(orders, sgn) = g[n]  BY <1>1, BooksRun
  <1>5. PICK h : Runs(h, more, sgn, n + 1) /\ Books(more, sgn) = h[n + 1]
    BY <1>1, <1>3, BooksRun
  <1>6. Runs(h, more, sgn, n)  BY <1>5 DEF Runs
  <1>7. g[n] = h[n]
    <2>1. \A k \in 1..n : \A s : Booked(s, orders[k], sgn) = Booked(s, more[k], sgn)  BY <1>3
    <2> QED  BY <1>4, <1>6, <2>1, RunsAgree
  <1>8. n + 1 \in 0..n + 1 /\ n + 1 # 0 /\ (n + 1) - 1 = n  OBVIOUS
  <1>9. h[n + 1] = Booked(h[n], o, sgn)  BY <1>3, <1>5, <1>8 DEF Runs
  <1> QED  BY <1>2, <1>4, <1>5, <1>7, <1>9

-----------------------------------------------------------------------------
(* Trades and their orders *)

AllClosed(orders) == \A i \in 1..Len(orders) : ~orders[i].open
Bought(orders) == {i \in 1..Len(orders) : orders[i].side = "entry"}

\* What the filled orders, base, say of a trade.
Fits(tr, base) ==
  LET s == Books(base, Sgn(tr))
  IN  /\ s \in BooksType /\ s.amount = tr.amount
      /\ tr.amount > 0 => s.stake = tr.stake /\ Bought(base) # {} /\ tr.init
      /\ tr.amount = 0 => s = Zero /\ Bought(base) = {} /\ tr.real = 0
      /\ tr.real # s.real => s.real = 0

\* The orders of a trade are filled but for the last; an open exit can be paid.
Waits(tr, base, o) ==
  /\ o \in OrderType /\ o.open /\ tr.orders = Append(base, o)
  /\ o.side = "exit" => o.amount <= tr.amount
Rests(tr, base) ==
  /\ base \in Seq(OrderType) /\ AllClosed(base) /\ Fits(tr, base)
  /\ tr.orders = base \/ \E o : Waits(tr, base, o)
Sound(tr) == tr \in TradeType /\ tr.dir \in Dirs /\ \E base : Rests(tr, base)

Value(tr) == Totals(tr).real - Sgn(tr) * Totals(tr).stake

LEMMA SgnIs ==
  ASSUME NEW tr
  PROVE  /\ Sgn(tr) \in {1, -1} /\ Sgn(tr) \in Int
         /\ \A n \in Int : Sgn(tr) * n = n \/ Sgn(tr) * n = -n
  BY DEF Sgn

LEMMA OpenIs ==
  ASSUME NEW tr \in TradeType
  PROVE  /\ tr.orders \in Seq(OrderType) /\ DOMAIN tr.orders = 1..Len(tr.orders)
         /\ Len(tr.orders) \in Nat
         /\ OpenOrders(tr) = {i \in 1..Len(tr.orders) : tr.orders[i].open}
  <1>1. tr.orders \in Seq(OrderType)  BY DEF TradeType
  <1>2. DOMAIN tr.orders = 1..Len(tr.orders) /\ Len(tr.orders) \in Nat  BY <1>1
  <1>3. \A i \in 1..Len(tr.orders) : tr.orders[i] \in OrderType  BY <1>1
  <1>4. \A i \in 1..Len(tr.orders) : tr.orders[i].side \in {"entry", "exit"}
    BY <1>3 DEF OrderType
  <1> QED  BY <1>1, <1>2, <1>4 DEF OpenOrders, OpenAt

\* A trade all of whose orders are filled.
LEMMA NoneWait ==
  ASSUME NEW tr \in TradeType, AllClosed(tr.orders)
  PROVE  /\ OpenOrders(tr) = {} /\ OpenAt(tr, "entry") = {} /\ OpenAt(tr, "exit") = {}
         /\ Filled(tr, "entry") = Bought(tr.orders)
         /\ CancelAll(tr) = tr
  <1>1. PICK s \in Seq(OrderType) : s = tr.orders  BY OpenIs
  <1>2. DOMAIN s = 1..Len(s) /\ Len(s) \in Nat  OBVIOUS
  <1>3. \A i \in 1..Len(s) : ~s[i].open  BY <1>1 DEF AllClosed
  <1>4. OpenOrders(tr) = {} /\ OpenAt(tr, "entry") = {} /\ OpenAt(tr, "exit") = {}
    BY <1>1, <1>2, <1>3 DEF OpenOrders, OpenAt
  <1>5. Filled(tr, "entry") = Bought(tr.orders)
    BY <1>1, <1>2, <1>3 DEF Filled, Bought
  <1>6. CancelAll(tr) = tr
    <2>1. {i \in DOMAIN s : ~s[i].open} = 1..Len(s)  BY <1>2, <1>3
    <2>2. Subsequence(s, 1..Len(s)) = SubSeq(s, 1, Len(s))  BY <1>2, SubsequenceFront
    <2>3. SubSeq(s, 1, Len(s)) = s  BY <1>2
    <2>4. CancelAll(tr) = [tr EXCEPT !.orders = s]  BY <1>1, <2>1, <2>2, <2>3 DEF CancelAll
    <2>5. [tr EXCEPT !.orders = s] = tr  BY <1>1 DEF TradeType
    <2> QED  BY <2>4, <2>5
  <1> QED  BY <1>4, <1>5, <1>6

\* A trade whose last order is open.
LEMMA OneWaits ==
  ASSUME NEW tr \in TradeType, NEW base \in Seq(OrderType), AllClosed(base),
         NEW o \in OrderType, o.open, tr.orders = Append(base, o),
         NEW n, n = Len(base) + 1
  PROVE  /\ n \in Nat /\ Len(tr.orders) = n /\ tr.orders[n] = o
         /\ OpenOrders(tr) = {n} /\ OpenAt(tr, o.side) = {n}
         /\ \A side : side # o.side => OpenAt(tr, side) = {}
         /\ Filled(tr, "entry") = Bought(base)
         /\ CancelAll(tr) = [tr EXCEPT !.orders = base] /\ Drop(tr, n) = CancelAll(tr)
         /\ Totals(tr) = Books(base, Sgn(tr))
  <1>1. PICK s \in Seq(OrderType) : s = tr.orders  BY OpenIs
  <1>2. DOMAIN s = 1..n /\ Len(s) = n /\ n \in Nat /\ n - 1 = Len(base) /\ s[n] = o
    BY <1>1
  <1>3. \A i \in 1..n - 1 : s[i] = base[i] /\ ~s[i].open  BY <1>1, <1>2 DEF AllClosed
  <1>4. \A i \in 1..n : i = n \/ i \in 1..n - 1  BY <1>2
  <1>5. n \in 1..n /\ 1..n - 1 \subseteq 1..n  BY <1>2
  <1>6. OpenOrders(tr) = {n}
    <2>1. OpenOrders(tr) = {i \in 1..n : s[i].open}  BY <1>1, <1>2, OpenIs
    <2> QED  BY <1>2, <1>3, <1>4, <1>5, <2>1
  <1>7. OpenAt(tr, o.side) = {n} /\ \A side : side # o.side => OpenAt(tr, side) = {}
    BY <1>1, <1>2, <1>3, <1>4, <1>5 DEF OpenAt
  <1>8. Filled(tr, "entry") = Bought(base)
    <2>1. Filled(tr, "entry") = {i \in 1..n : ~s[i].open /\ s[i].side = "entry"}
      BY <1>1, <1>2 DEF Filled
    <2>2. Bought(base) = {i \in 1..n - 1 : base[i].side = "entry"}  BY <1>2 DEF Bought
    <2> QED  BY <1>2, <1>3, <1>4, <1>5, <2>1, <2>2
  <1>9. SubSeq(s, 1, n - 1) = base  BY <1>1, <1>2
  <1>10. CancelAll(tr) = [tr EXCEPT !.orders = base]
    <2>1. {i \in DOMAIN s : ~s[i].open} = 1..n - 1  BY <1>2, <1>3, <1>4, <1>5
    <2>2. Subsequence(s, 1..n - 1) = SubSeq(s, 1, n - 1)
      <3>1. n - 1 \in 0..Len(s)  BY <1>2
      <3> QED  BY <3>1, SubsequenceFront
    <2> QED  BY <1>1, <1>9, <2>1, <2>2 DEF CancelAll
  <1>11. Drop(tr, n) = [tr EXCEPT !.orders = base]
    <2>1. RemoveAt(s, n) = SubSeq(s, 1, n - 1) \o SubSeq(s, n + 1, Len(s))  BY DEF RemoveAt
    <2>2. SubSeq(s, n + 1, Len(s)) = <<>>  BY <1>2
    <2>3. base \o <<>> = base  OBVIOUS
    <2>4. RemoveAt(s, n) = base  BY <1>9, <2>1, <2>2, <2>3, Zenon
    <2> QED  BY <1>1, <2>4 DEF Drop
  <1>12. Totals(tr) = Books(base, Sgn(tr))
    <2>1. Books(Append(base, o), Sgn(tr)) = Booked(Books(base, Sgn(tr)), o, Sgn(tr))
      BY BooksAppend
    <2> QED  BY <2>1 DEF Totals, Booked
  <1> QED  BY <1>1, <1>2, <1>6, <1>7, <1>8, <1>10, <1>11, <1>12

LEMMA BoughtIs ==
  ASSUME NEW base \in Seq(OrderType)
  PROVE  /\ IsFiniteSet(Bought(base)) /\ Cardinality(Bought(base)) \in Nat
         /\ Cardinality(Bought(base)) > 0 <=> Bought(base) # {}
  <1>1. Len(base) \in Nat  OBVIOUS
  <1>2. IsFiniteSet(1..Len(base)) /\ Bought(base) \subseteq 1..Len(base)
    <2>1. IsFiniteSet(1..Len(base))  BY <1>1, FS_Interval
    <2> QED  BY <2>1 DEF Bought
  <1>3. IsFiniteSet(Bought(base))  BY <1>2, FS_Subset
  <1>4. Cardinality(Bought(base)) \in Nat  BY <1>3, FS_CardinalityType
  <1>5. Cardinality(Bought(base)) = 0 <=> Bought(base) = {}  BY <1>3, FS_EmptySet
  <1> QED  BY <1>3, <1>4, <1>5

LEMMA BoughtMore ==
  ASSUME NEW base \in Seq(OrderType), NEW o \in OrderType
  PROVE  /\ o.side = "entry" => Bought(Append(base, o)) = Bought(base) \union {Len(base) + 1}
         /\ o.side # "entry" => Bought(Append(base, o)) = Bought(base)
         /\ Len(base) + 1 \notin Bought(base)
         /\ AllClosed(base) /\ ~o.open => AllClosed(Append(base, o))
         /\ Append(base, o) \in Seq(OrderType)
  <1>1. PICK n \in Nat : n = Len(base)  OBVIOUS
  <1>2. Append(base, o) \in Seq(OrderType)  OBVIOUS
  <1>3. PICK more \in Seq(OrderType) : more = Append(base, o)  BY <1>2, Zenon
  <1>4. Len(more) = n + 1 /\ more[n + 1] = o /\ \A i \in 1..n : more[i] = base[i]
    BY <1>1, <1>3
  <1>5. \A i \in 1..n + 1 : i = n + 1 \/ i \in 1..n  OBVIOUS
  <1>6. 1..n \subseteq 1..n + 1 /\ n + 1 \in 1..n + 1 /\ n + 1 \notin 1..n  OBVIOUS
  <1>7. Bought(base) = {i \in 1..n : base[i].side = "entry"}  BY <1>1 DEF Bought
  <1>8. Bought(more) = {i \in 1..n + 1 : more[i].side = "entry"}  BY <1>4 DEF Bought
  <1>9. o.side = "entry" => Bought(more) = Bought(base) \union {n + 1}
    BY <1>4, <1>5, <1>6, <1>7, <1>8
  <1>10. o.side # "entry" => Bought(more) = Bought(base)
    BY <1>4, <1>5, <1>6, <1>7, <1>8
  <1>11. AllClosed(base) /\ ~o.open => AllClosed(more)
    BY <1>1, <1>4, <1>5 DEF AllClosed
  <1> QED  BY <1>1, <1>2, <1>3, <1>6, <1>7, <1>9, <1>10, <1>11

\* Two trades that differ in nothing their orders say.
Alike(a, b) ==
  /\ a.dir = b.dir /\ a.orders = b.orders /\ a.amount = b.amount
  /\ a.stake = b.stake /\ a.real = b.real

LEMMA FitsAlike ==
  ASSUME NEW a, NEW b, a.dir = b.dir, a.amount = b.amount, a.stake = b.stake,
         a.real = b.real, a.init => b.init, NEW base, Fits(a, base)
  PROVE  Fits(b, base)
  <1>1. Sgn(a) = Sgn(b)  BY DEF Sgn
  <1> QED  BY <1>1 DEF Fits

\* The stop only walks towards profit once it was set.
Ratchets(a, b) == a.init => b.init /\ Sgn(a) * b.stop >= Sgn(a) * a.stop

LEMMA AdjustIs ==
  ASSUME NEW tr \in TradeType, NEW price \in Int, NEW dist \in Nat
  PROVE  LET new == AdjustStop(tr, price, dist)
         IN  new \in TradeType /\ Alike(new, tr) /\ new.init /\ Ratchets(tr, new)
  <1> DEFINE stop == price - Sgn(tr) * dist
  <1>1. PICK g \in {1, -1} : g = Sgn(tr)  BY SgnIs
  <1>2. stop \in Int  BY <1>1
  <1>3. tr.stop \in Int /\ tr.init \in BOOLEAN  BY DEF TradeType
  <1> HIDE DEF stop
  <1>4. CASE ~tr.init
    <2>1. AdjustStop(tr, price, dist) = [tr EXCEPT !.stop = stop, !.pct = dist, !.init = TRUE]
      BY <1>4 DEF AdjustStop, stop
    <2>2. PICK new : new = [tr EXCEPT !.stop = stop, !.pct = dist, !.init = TRUE]  OBVIOUS
    <2>3. new \in TradeType /\ new.init  BY <1>2, <2>2 DEF TradeType
    <2>4. Alike(new, tr)  BY <2>2 DEF Alike, TradeType
    <2>5. Ratchets(tr, new)  BY <1>4 DEF Ratchets
    <2> QED  BY <2>1, <2>2, <2>3, <2>4, <2>5
  <1>5. CASE tr.init /\ Sgn(tr) * stop > Sgn(tr) * tr.stop
    <2>1. AdjustStop(tr, price, dist) = [tr EXCEPT !.stop = stop, !.pct = dist, !.trailing = TRUE]
      BY <1>5 DEF AdjustStop, stop
    <2>2. PICK new : new = [tr EXCEPT !.stop = stop, !.pct = dist, !.trailing = TRUE]  OBVIOUS
    <2>3. new \in TradeType /\ new.init /\ new.stop = stop  BY <1>2, <1>5, <2>2 DEF TradeType
    <2>4. Alike(new, tr)  BY <2>2 DEF Alike, TradeType
    <2>5. Ratchets(tr, new)  BY <1>1, <1>2, <1>3, <1>5, <2>3 DEF Ratchets
    <2> QED  BY <2>1, <2>2, <2>3, <2>4, <2>5
  <1>6. CASE tr.init /\ ~(Sgn(tr) * stop > Sgn(tr) * tr.stop)
    <2>1. AdjustStop(tr, price, dist) = tr  BY <1>6 DEF AdjustStop, stop
    <2>2. Ratchets(tr, tr)  BY <1>1, <1>3 DEF Ratchets
    <2> QED  BY <1>6, <2>1, <2>2 DEF Alike
  <1> QED  BY <1>3, <1>4, <1>5, <1>6

\* What recalc_trade_from_orders writes.
LEMMA RecalcIs ==
  ASSUME NEW tr \in TradeType, NEW s \in BooksType, Totals(tr) = s
  PROVE  LET new == Recalc(tr)
         IN  /\ new \in TradeType /\ new.dir = tr.dir /\ new.orders = tr.orders
             /\ new.real = IF s.real # 0 THEN s.real ELSE tr.real
             /\ s.amount > 0 => new.amount = s.amount /\ new.stake = s.stake /\ new.init
             /\ s.amount = 0 => new.amount = tr.amount /\ new.stake = tr.stake
                                /\ new.init = tr.init
             /\ Ratchets(tr, new)
  <1>1. PICK g \in {1, -1} : g = Sgn(tr)  BY SgnIs
  <1>2. s.amount \in Nat /\ s.stake \in Int /\ s.real \in Int  BY DEF BooksType
  <1>3. tr.real \in Int /\ tr.stop \in Int /\ tr.pct \in Nat  BY DEF TradeType
  <1>4. PICK r : r = [tr EXCEPT !.real = IF s.real # 0 THEN s.real ELSE tr.real]  OBVIOUS
  <1>5. /\ r \in TradeType /\ r.dir = tr.dir /\ r.orders = tr.orders /\ r.pct = tr.pct
        /\ r.real = IF s.real # 0 THEN s.real ELSE tr.real
        /\ r.amount = tr.amount /\ r.stake = tr.stake /\ r.init = tr.init /\ r.stop = tr.stop
    BY <1>2, <1>3, <1>4 DEF TradeType
  <1>6. CASE s.amount = 0
    <2>1. Recalc(tr) = r  BY <1>2, <1>4, <1>6 DEF Recalc
    <2>2. Ratchets(tr, r)  BY <1>1, <1>3, <1>5 DEF Ratchets
    <2> QED  BY <1>2, <1>5, <1>6, <2>1, <2>2
  <1>7. CASE s.amount > 0
    <2>1. PICK rate \in Int : rate = s.stake \div s.amount  BY <1>2, <1>7
    <2>2. PICK q : q = [r EXCEPT !.amount = s.amount, !.stake = s.stake, !.rate = rate]  OBVIOUS
    <2>3. /\ q \in TradeType /\ q.dir = r.dir /\ q.orders = r.orders /\ q.real = r.real
          /\ q.amount = s.amount /\ q.stake = s.stake /\ q.init = r.init /\ q.stop = r.stop
      BY <1>2, <1>5, <2>1, <2>2 DEF TradeType
    <2>4. Recalc(tr) = AdjustStop(q, rate, tr.pct)  BY <1>4, <1>7, <2>1, <2>2 DEF Recalc
    <2>5. PICK new : new = AdjustStop(q, rate, tr.pct)  OBVIOUS
    <2>6. new \in TradeType /\ Alike(new, q) /\ new.init /\ Ratchets(q, new)
      BY <1>3, <2>1, <2>3, <2>5, AdjustIs
    <2>7. Sgn(q) = Sgn(tr)  BY <1>5, <2>3 DEF Sgn
    <2>8. Ratchets(tr, new)  BY <1>5, <2>3, <2>6, <2>7 DEF Ratchets
    <2>9. new.dir = tr.dir /\ new.orders = tr.orders /\ new.real = r.real
      BY <1>5, <2>3, <2>6 DEF Alike
    <2>10. new.amount = s.amount /\ new.stake = s.stake  BY <2>3, <2>6 DEF Alike
    <2>11. new = Recalc(tr) /\ s.amount # 0  BY <1>7, <2>4, <2>5
    <2> QED  BY <1>5, <2>6, <2>8, <2>9, <2>10, <2>11
  <1> QED  BY <1>2, <1>6, <1>7

\* What is known of a trade from its filled orders.
LEMMA RestsIs ==
  ASSUME NEW tr \in TradeType, NEW base, Rests(tr, base)
  PROVE  /\ Totals(tr) = Books(base, Sgn(tr)) /\ Totals(tr) \in BooksType
         /\ Entries(tr) = Cardinality(Bought(base))
         /\ Entries(tr) > 0 <=> tr.amount > 0
         /\ OpenOrders(tr) \subseteq {Len(tr.orders)}
         /\ CancelAll(tr) = [tr EXCEPT !.orders = base]
         /\ tr.orders = base => OpenOrders(tr) = {}
  <1>1. base \in Seq(OrderType) /\ AllClosed(base) /\ Fits(tr, base)  BY DEF Rests
  <1>2. Totals(tr) = Books(base, Sgn(tr)) /\ Filled(tr, "entry") = Bought(base)
        /\ CancelAll(tr) = [tr EXCEPT !.orders = base]
        /\ OpenOrders(tr) \subseteq {Len(tr.orders)}
        /\ (tr.orders = base => OpenOrders(tr) = {})
    <2>1. CASE tr.orders = base
      <3>1. [tr EXCEPT !.orders = base] = tr  BY <2>1 DEF TradeType
      <3>2. AllClosed(tr.orders)  BY <1>1, <2>1
      <3>3. Totals(tr) = Books(base, Sgn(tr))  BY <2>1 DEF Totals
      <3> QED  BY <2>1, <3>1, <3>2, <3>3, NoneWait
    <2>2. CASE tr.orders # base
      <3>1. PICK o : Waits(tr, base, o)  BY <2>2 DEF Rests
      <3>2. o \in OrderType /\ o.open /\ tr.orders = Append(base, o)  BY <3>1 DEF Waits
      <3> QED  BY <1>1, <2>2, <3>2, OneWaits
    <2> QED  BY <2>1, <2>2
  <1>3. Entries(tr) = Cardinality(Bought(base))  BY <1>2 DEF Entries
  <1>4. tr.amount \in Nat  BY DEF TradeType
  <1>5. Entries(tr) > 0 <=> Bought(base) # {}  BY <1>1, <1>3, BoughtIs
  <1>6. Bought(base) # {} <=> tr.amount > 0  BY <1>1, <1>4 DEF Fits
  <1>7. Books(base, Sgn(tr)) \in BooksType  BY <1>1 DEF Fits
  <1> QED  BY <1>2, <1>3, <1>5, <1>6, <1>7

LEMMA CancelIs ==
  ASSUME NEW tr \in TradeType, NEW base, Rests(tr, base)
  PROVE  LET new == CancelAll(tr)
         IN  /\ new = [tr EXCEPT !.orders = base] /\ new \in TradeType
             /\ new.orders = base /\ new.dir = tr.dir /\ new.amount = tr.amount
             /\ Rests(new, base) /\ Value(new) = Value(tr) /\ Ratchets(tr, new)
  <1>1. base \in Seq(OrderType) /\ AllClosed(base) /\ Fits(tr, base)  BY DEF Rests
  <1>2. PICK new : new = [tr EXCEPT !.orders = base]  OBVIOUS
  <1>3. /\ new \in TradeType /\ new.orders = base /\ new.dir = tr.dir
        /\ new.amount = tr.amount /\ new.stake = tr.stake /\ new.real = tr.real
        /\ new.init = tr.init /\ new.stop = tr.stop
    BY <1>1, <1>2 DEF TradeType
  <1>4. CancelAll(tr) = new  BY <1>2, RestsIs
  <1>5. Fits(new, base)  BY <1>1, <1>3, FitsAlike
  <1>6. Rests(new, base)  BY <1>1, <1>3, <1>5 DEF Rests
  <1>7. Sgn(new) = Sgn(tr)  BY <1>3 DEF Sgn
  <1>8. Value(new) = Value(tr)
    <2>1. Totals(new) = Books(base, Sgn(new)) /\ Totals(tr) = Books(base, Sgn(tr))
      BY <1>3, <1>6, RestsIs
    <2> QED  BY <1>7, <2>1 DEF Value
  <1>9. Ratchets(tr, new)
    <2>1. tr.stop \in Int  BY DEF TradeType
    <2>2. PICK g \in {1, -1} : g = Sgn(tr)  BY SgnIs
    <2> QED  BY <1>3, <2>1, <2>2 DEF Ratchets
  <1> QED  BY <1>2, <1>3, <1>4, <1>6, <1>8, <1>9

\* A new order takes the place of what was open.
LEMMA PlaceIs ==
  ASSUME NEW tr \in TradeType, NEW base, Rests(tr, base), NEW side \in {"entry", "exit"},
         NEW price \in Int, NEW amount \in Nat \ {0}, side = "exit" => amount <= tr.amount
  PROVE  LET new == Place(tr, side, price, amount)
         IN  /\ new \in TradeType /\ new.dir = tr.dir /\ new.amount = tr.amount
             /\ new.stop = tr.stop
             /\ new.rate = tr.rate /\ new.pct = tr.pct
             /\ new.stake = tr.stake /\ new.real = tr.real
             /\ new.init = tr.init /\ new.orders = Append(base, Order(side, price, amount))
             /\ Rests(new, base) /\ Waits(new, base, Order(side, price, amount))
             /\ Len(new.orders) = Len(base) + 1 /\ Value(new) = Value(tr) /\ Ratchets(tr, new)
  <1>1. base \in Seq(OrderType) /\ AllClosed(base) /\ Fits(tr, base)  BY DEF Rests
  <1>2. PICK o : o = Order(side, price, amount)  OBVIOUS
  <1>3. o \in OrderType /\ o.open /\ o.side = side /\ o.amount = amount
    BY <1>2 DEF Order, OrderType
  <1>4. PICK more : more = Append(base, o)  OBVIOUS
  <1>5. more \in Seq(OrderType) /\ Len(more) = Len(base) + 1  BY <1>1, <1>3, <1>4
  <1>6. PICK new : new = [tr EXCEPT !.orders = more]  OBVIOUS
  <1>7. /\ new \in TradeType /\ new.orders = more /\ new.dir = tr.dir
        /\ new.amount = tr.amount /\ new.stake = tr.stake /\ new.real = tr.real
        /\ new.init = tr.init /\ new.stop = tr.stop /\ new.rate = tr.rate /\ new.pct = tr.pct
    BY <1>5, <1>6 DEF TradeType
  <1>8. Place(tr, side, price, amount) = new
    <2>1. PICK c : c = CancelAll(tr)  OBVIOUS
    <2>2. c = [tr EXCEPT !.orders = base] /\ c.orders = base  BY <2>1, CancelIs
    <2>3. Place(tr, side, price, amount) = [c EXCEPT !.orders = more]
      BY <1>2, <1>4, <2>1, <2>2 DEF Place
    <2>4. [c EXCEPT !.orders = more] = [tr EXCEPT !.orders = more]  BY <2>2 DEF TradeType
    <2> QED  BY <1>6, <2>3, <2>4
  <1>9. Fits(new, base)  BY <1>1, <1>7, FitsAlike
  <1>10. Waits(new, base, o)  BY <1>3, <1>4, <1>7 DEF Waits
  <1>11. Rests(new, base)  BY <1>1, <1>9, <1>10 DEF Rests
  <1>12. Sgn(new) = Sgn(tr)  BY <1>7 DEF Sgn
  <1>13. Value(new) = Value(tr)
    <2>1. Totals(new) = Books(base, Sgn(new)) /\ Totals(tr) = Books(base, Sgn(tr))
      BY <1>7, <1>11, RestsIs
    <2> QED  BY <1>12, <2>1 DEF Value
  <1>14. Ratchets(tr, new)
    <2>1. tr.stop \in Int  BY DEF TradeType
    <2>2. PICK g \in {1, -1} : g = Sgn(tr)  BY SgnIs
    <2> QED  BY <1>7, <2>1, <2>2 DEF Ratchets
  <1> QED  BY <1>2, <1>4, <1>5, <1>7, <1>8, <1>10, <1>11, <1>13, <1>14

LEMMA EntryBooked ==
  ASSUME NEW s \in BooksType, NEW o \in OrderType, ~o.open, o.side = "entry", NEW g \in {1, -1}
  PROVE  /\ Booked(s, o, g) \in BooksType /\ Booked(s, o, g).amount = s.amount + o.amount
         /\ Booked(s, o, g).real = s.real
         /\ Booked(s, o, g).real - g * Booked(s, o, g).stake
              = (s.real - g * s.stake) - g * (o.price * o.amount)
  <1>1. s.amount \in Nat /\ s.stake \in Int /\ s.real \in Int  BY DEF BooksType
  <1>2. PICK spent \in Int : spent = o.price * o.amount  BY DEF OrderType
  <1>3. o.amount \in Nat  BY DEF OrderType
  <1>4. PICK new : new = [amount |-> s.amount + o.amount, stake |-> s.stake + spent,
                          real |-> s.real]
    OBVIOUS
  <1>5. /\ new \in BooksType /\ new.amount = s.amount + o.amount
        /\ new.stake = s.stake + spent /\ new.real = s.real
    <2>1. s.amount + o.amount \in Nat /\ s.stake + spent \in Int  BY <1>1, <1>2, <1>3
    <2> QED  BY <1>1, <1>4, <2>1 DEF BooksType
  <1>6. Booked(s, o, g) = new  BY <1>2, <1>4 DEF Booked
  <1>7. new.real - g * new.stake = (s.real - g * s.stake) - g * spent
    BY <1>1, <1>2, <1>5
  <1> QED  BY <1>2, <1>5, <1>6, <1>7

LEMMA ExitBooked ==
  ASSUME NEW s \in BooksType, NEW o \in OrderType, ~o.open, o.side = "exit", NEW g \in {1, -1},
         o.amount <= s.amount
  PROVE  /\ Booked(s, o, g) \in BooksType /\ Booked(s, o, g).amount = s.amount - o.amount
         /\ o.amount = s.amount => Booked(s, o, g).stake = 0
         /\ Booked(s, o, g).real - g * Booked(s, o, g).stake
              = (s.real - g * s.stake) + g * (o.price * o.amount)
  <1>1. s.amount \in Nat /\ s.stake \in Int /\ s.real \in Int  BY DEF BooksType
  <1>2. PICK paid \in Int : paid = o.price * o.amount  BY DEF OrderType
  <1>3. o.amount \in Nat \ {0} /\ s.amount > 0  BY <1>1 DEF OrderType
  <1>4. PICK cost \in Int : cost = (s.stake * o.amount) \div s.amount  BY <1>1, <1>3
  <1>5. o.amount = s.amount => cost = s.stake
    <2> SUFFICES ASSUME NEW a \in Nat \ {0}, a = s.amount, a = o.amount PROVE cost = s.stake
      BY <1>3
    <2>1. \A x \in Int : (x * a) \div a = x  OBVIOUS
    <2> QED  BY <1>1, <1>4, <2>1
  <1>6. PICK new : new = [amount |-> s.amount - o.amount, stake |-> s.stake - cost,
                          real |-> s.real + g * (paid - cost)]
    OBVIOUS
  <1>7. /\ new.amount = s.amount - o.amount /\ new.stake = s.stake - cost
        /\ new.real = s.real + g * (paid - cost)
    BY <1>6
  <1>8. new \in BooksType  BY <1>1, <1>2, <1>3, <1>4, <1>6 DEF BooksType
  <1>9. Booked(s, o, g) = new  BY <1>2, <1>4, <1>6 DEF Booked
  <1>10. new.real - g * new.stake = (s.real - g * s.stake) + g * paid
    BY <1>1, <1>2, <1>4, <1>7
  <1>11. o.amount = s.amount => new.stake = 0  BY <1>1, <1>5, <1>7
  <1> QED  BY <1>2, <1>7, <1>8, <1>9, <1>10, <1>11

LEMMA RatchetsTwice ==
  ASSUME NEW a \in TradeType, NEW b \in TradeType, NEW c \in TradeType,
         b.dir = a.dir, Ratchets(a, b), Ratchets(b, c)
  PROVE  Ratchets(a, c)
  <1>1. PICK g \in {1, -1} : g = Sgn(a)  BY SgnIs
  <1>2. Sgn(b) = g  BY <1>1 DEF Sgn
  <1>3. a.stop \in Int /\ b.stop \in Int /\ c.stop \in Int  BY DEF TradeType
  <1>4. SUFFICES ASSUME a.init PROVE c.init /\ g * c.stop >= g * a.stop
    BY <1>1 DEF Ratchets
  <1>5. b.init /\ g * b.stop >= g * a.stop  BY <1>1, <1>4 DEF Ratchets
  <1>6. c.init /\ g * c.stop >= g * b.stop  BY <1>2, <1>5 DEF Ratchets
  <1> QED  BY <1>1, <1>3, <1>5, <1>6

\* A stop that may have been set anew by a fill at the price.
Steps(a, b, price) ==
  \/ Sgn(a) * b.stop >= Sgn(a) * a.stop
  \/ \E k \in Customs : /\ Sgn(a) * a.stop < Sgn(a) * price
                        /\ Sgn(a) * b.stop >= Sgn(a) * price - k

LEMMA StaysPut ==
  ASSUME NEW tr \in TradeType
  PROVE  Sgn(tr) * tr.stop >= Sgn(tr) * tr.stop
  <1>1. PICK g \in {1, -1} : g = Sgn(tr)  BY SgnIs
  <1>2. tr.stop \in Int  BY DEF TradeType
  <1> QED  BY <1>1, <1>2

LEMMA DistancesAre == Dist \in Nat /\ Customs \subseteq Nat /\ Distances \subseteq Nat
  BY MoneyAssumption DEF Distances

\* _call_adjust_stop: it changes nothing that the orders say.
LEMMA AfterFillIs ==
  ASSUME NEW tr \in TradeType, tr.init, NEW price \in Int, NEW s \in AfterFills
  PROVE  LET new == AfterFill(tr, price, s)
         IN  new \in TradeType /\ Alike(new, tr) /\ new.init /\ Steps(tr, new, price)
  <1>1. PICK g \in {1, -1} : g = Sgn(tr)  BY SgnIs
  <1>2. tr.stop \in Int  BY DEF TradeType
  <1>3. s.custom \in Customs \union {0} /\ s.trail \in Distances \union {0}
    BY DEF AfterFills
  <1>4. PICK c : c = IF s.custom = 0 THEN tr ELSE RefreshStop(tr, price, s.custom)  OBVIOUS
  <1>5. CASE g * tr.stop >= g * price
    <2>1. AfterFill(tr, price, s) = tr  BY <1>1, <1>5 DEF AfterFill
    <2>2. Steps(tr, tr, price)  BY StaysPut DEF Steps
    <2> QED  BY <2>1, <2>2 DEF Alike
  <1>6. CASE ~(g * tr.stop >= g * price)
    <2>1. g * tr.stop < g * price  BY <1>1, <1>2, <1>6
    <2>2. /\ c \in TradeType /\ Alike(c, tr) /\ c.init /\ Sgn(c) = g
          /\ \/ c.stop = tr.stop
             \/ \E k \in Customs : g * c.stop >= g * price - k
      <3>1. CASE s.custom = 0
        <4>1. c = tr  BY <1>4, <3>1
        <4> QED  BY <1>1, <4>1 DEF Alike
      <3>2. CASE s.custom # 0
        <4>1. PICK k \in Customs : k = s.custom  BY <1>3, <3>2
        <4>2. k \in Nat  BY DistancesAre
        <4>3. PICK stop \in Int : stop = price - g * k  BY <1>1, <4>2
        <4>4. c = [tr EXCEPT !.stop = stop, !.pct = k]
          BY <1>1, <1>4, <3>2, <4>1, <4>3 DEF RefreshStop
        <4>5. c \in TradeType /\ c.init /\ c.dir = tr.dir /\ c.stop = stop
          BY <4>2, <4>4 DEF TradeType
        <4>6. Alike(c, tr)  BY <4>4 DEF Alike, TradeType
        <4>7. Sgn(c) = g  BY <1>1, <4>5 DEF Sgn
        <4>8. g * c.stop >= g * price - k  BY <1>1, <4>2, <4>3, <4>5
        <4> QED  BY <4>5, <4>6, <4>7, <4>8
      <3> QED  BY <3>1, <3>2
    <2>3. PICK new : new = AfterFill(tr, price, s)  OBVIOUS
    <2>4. new \in TradeType /\ Alike(new, c) /\ new.init /\ g * new.stop >= g * c.stop
      <3>1. CASE s.trail = 0
        <4>1. new = c  BY <1>1, <1>4, <1>6, <2>3, <3>1 DEF AfterFill
        <4> QED  BY <2>2, <4>1, StaysPut DEF Alike
      <3>2. CASE s.trail # 0
        <4>1. PICK k \in Nat : k = s.trail  BY <1>3, <3>2, DistancesAre
        <4>2. new = AdjustStop(c, price, k)
          BY <1>1, <1>4, <1>6, <2>3, <3>2, <4>1 DEF AfterFill
        <4>3. new \in TradeType /\ Alike(new, c) /\ new.init /\ Ratchets(c, new)
          BY <2>2, <4>2, AdjustIs
        <4> QED  BY <2>2, <4>3 DEF Ratchets
      <3> QED  BY <3>1, <3>2
    <2>5. Alike(new, tr)  BY <2>2, <2>4 DEF Alike
    <2>6. new.stop \in Int /\ c.stop \in Int  BY <2>2, <2>4 DEF TradeType
    <2>7. Steps(tr, new, price)
      <3>1. CASE c.stop = tr.stop
        <4>1. g * new.stop >= g * tr.stop  BY <2>4, <3>1
        <4> QED  BY <1>1, <4>1 DEF Steps
      <3>2. CASE c.stop # tr.stop
        <4>1. PICK k \in Customs : g * c.stop >= g * price - k  BY <2>2, <3>2
        <4>2. k \in Nat  BY DistancesAre
        <4>3. g * new.stop >= g * price - k  BY <1>1, <2>4, <2>6, <4>1, <4>2
        <4> QED  BY <1>1, <2>1, <4>3 DEF Steps
      <3> QED  BY <3>1, <3>2
    <2> QED  BY <2>3, <2>4, <2>5, <2>7
  <1> QED  BY <1>5, <1>6

\* A stop that ratchets, is set by a fill, and ratchets again.
LEMMA StepsOn ==
  ASSUME NEW a \in TradeType, NEW b \in TradeType, NEW c \in TradeType, NEW e \in TradeType,
         b.dir = a.dir, c.dir = a.dir, a.init, c.init, NEW price \in Int,
         Ratchets(a, b), Steps(b, c, price), Ratchets(c, e)
  PROVE  Steps(a, e, price)
  <1>1. PICK g \in {1, -1} : g = Sgn(a)  BY SgnIs
  <1>2. Sgn(b) = g /\ Sgn(c) = g  BY <1>1 DEF Sgn
  <1>3. a.stop \in Int /\ b.stop \in Int /\ c.stop \in Int /\ e.stop \in Int  BY DEF TradeType
  <1>4. g * b.stop >= g * a.stop /\ g * e.stop >= g * c.stop
    BY <1>1, <1>2 DEF Ratchets
  <1>5. CASE g * c.stop >= g * b.stop
    <2>1. g * e.stop >= g * a.stop  BY <1>1, <1>3, <1>4, <1>5
    <2> QED  BY <1>1, <2>1 DEF Steps
  <1>6. CASE ~(g * c.stop >= g * b.stop)
    <2>1. PICK k \in Customs : g * b.stop < g * price /\ g * c.stop >= g * price - k
      BY <1>2, <1>6 DEF Steps
    <2>2. k \in Nat  BY DistancesAre
    <2>3. g * a.stop < g * price /\ g * e.stop >= g * price - k
      BY <1>1, <1>3, <1>4, <2>1, <2>2
    <2> QED  BY <1>1, <2>3 DEF Steps
  <1> QED  BY <1>5, <1>6

\* What a fill does to a trade that rests on its orders, and the stop it leaves.
Fills(a, base, b) ==
  \E c \in OrderType : /\ ~c.open /\ b.orders = Append(base, c) /\ Steps(a, b, c.price)

LEMMA FillWalks ==
  ASSUME NEW a \in TradeType, NEW base, Rests(a, base), NEW b, Fills(a, base, b)
  PROVE  Walked(a, b)
  <1>1. PICK c \in OrderType : /\ ~c.open /\ b.orders = Append(base, c)
                               /\ Steps(a, b, c.price)
    BY DEF Fills
  <1>2. base \in Seq(OrderType)  BY DEF Rests
  <1>3. PICK n \in Nat : n = Len(base) + 1  BY <1>2
  <1>4. PICK more \in Seq(OrderType) : more = Append(base, c)
    <2>1. Append(base, c) \in Seq(OrderType)  BY <1>2
    <2> QED  BY <2>1, Zenon
  <1>5. DOMAIN more = 1..n /\ more[n] = c /\ n \in 1..n  BY <1>2, <1>3, <1>4
  <1>6. ~(n \in DOMAIN a.orders /\ ~a.orders[n].open)
    <2>1. CASE a.orders = base
      <3>1. n \notin DOMAIN base  BY <1>2, <1>3
      <3> QED  BY <2>1, <3>1
    <2>2. CASE a.orders # base
      <3>1. PICK w : Waits(a, base, w)  BY <2>2 DEF Rests
      <3>2. w \in OrderType /\ w.open /\ a.orders = Append(base, w)  BY <3>1 DEF Waits
      <3>3. Append(base, w)[n] = w  BY <1>2, <1>3, <3>2
      <3> QED  BY <3>2, <3>3
    <2> QED  BY <2>1, <2>2
  <1>7. n \in JustFilled(a, b)  BY <1>1, <1>4, <1>5, <1>6 DEF JustFilled
  <1>8. b.orders[n].price = c.price  BY <1>1, <1>4, <1>5
  <1>9. CASE Sgn(a) * b.stop >= Sgn(a) * a.stop  BY <1>9 DEF Walked
  <1>10. CASE \E k \in Customs : /\ Sgn(a) * a.stop < Sgn(a) * c.price
                                 /\ Sgn(a) * b.stop >= Sgn(a) * c.price - k
    <2>1. Refreshed(a, b)  BY <1>7, <1>8, <1>10 DEF Refreshed
    <2> QED  BY <2>1 DEF Walked
  <1> QED  BY <1>1, <1>9, <1>10 DEF Steps

\* What is known of the stop after a step of a trade that rests on its orders.
Goes(a, base, b) == Ratchets(a, b) \/ Fills(a, base, b)

LEMMA GoesOn ==
  ASSUME NEW a \in TradeType, NEW base, Rests(a, base), a.amount > 0,
         NEW b \in TradeType, b.dir = a.dir, Ratchets(a, b),
         NEW c \in TradeType, c.dir = a.dir, c.init, Goes(b, base, c)
  PROVE  Goes(a, base, c)
  <1>1. a.init  BY DEF Rests, Fits
  <1>2. CASE Ratchets(b, c)  BY <1>2, RatchetsTwice DEF Goes
  <1>3. CASE Fills(b, base, c)
    <2>1. PICK o \in OrderType : /\ ~o.open /\ c.orders = Append(base, o)
                                 /\ Steps(b, c, o.price)
      BY <1>3 DEF Fills
    <2>2. o.price \in Int  BY DEF OrderType
    <2>3. Ratchets(c, c)  BY StaysPut DEF Ratchets
    <2>4. Steps(a, c, o.price)  BY <1>1, <2>1, <2>2, <2>3, StepsOn
    <2> QED  BY <2>1, <2>4 DEF Fills, Goes
  <1> QED  BY <1>2, <1>3 DEF Goes

\* A trade that holds coins goes as StopRatchets says.
LEMMA GoesWalks ==
  ASSUME NEW a, Sound(a), NEW b, NEW base, Rests(a, base),
         a.amount > 0 => Goes(a, base, b), Entries(a) > 0
  PROVE  Walked(a, b)
  <1>1. a \in TradeType  BY DEF Sound
  <1>2. a.amount > 0  BY <1>1, RestsIs
  <1>3. a.init  BY <1>2 DEF Rests, Fits
  <1>4. CASE Ratchets(a, b)  BY <1>3, <1>4 DEF Ratchets, Walked
  <1>5. CASE Fills(a, base, b)  BY <1>1, <1>5, FillWalks
  <1> QED  BY <1>2, <1>4, <1>5 DEF Goes

\* The order that fills.
Done(o) == [o EXCEPT !.open = FALSE]
Filling(tr) == [tr EXCEPT !.orders[Len(tr.orders)].open = FALSE]

LEMMA DoneIs ==
  ASSUME NEW tr \in TradeType, NEW base \in Seq(OrderType), AllClosed(base),
         NEW o, Waits(tr, base, o)
  PROVE  LET more == Append(base, Done(o))
             new == Filling(tr)
         IN  /\ Done(o) \in OrderType /\ ~Done(o).open /\ Done(o).side = o.side
             /\ Done(o).price = o.price /\ Done(o).amount = o.amount
             /\ more \in Seq(OrderType) /\ AllClosed(more)
             /\ new = [tr EXCEPT !.orders = more] /\ new \in TradeType
             /\ Totals(new) = Booked(Books(base, Sgn(tr)), Done(o), Sgn(tr))
             /\ tr.orders[Len(tr.orders)] = o
  <1>1. o \in OrderType /\ o.open /\ tr.orders = Append(base, o)  BY DEF Waits
  <1>2. /\ Done(o) \in OrderType /\ ~Done(o).open /\ Done(o).side = o.side
        /\ Done(o).price = o.price /\ Done(o).amount = o.amount
    BY <1>1 DEF Done, OrderType
  <1>3. PICK n \in Nat : n = Len(base) + 1  OBVIOUS
  <1>4. PICK s \in Seq(OrderType) : s = tr.orders  BY OpenIs
  <1>5. Len(s) = n /\ s[n] = o /\ \A i \in 1..n - 1 : s[i] = base[i]  BY <1>1, <1>3, <1>4
  <1>6. PICK more : more = Append(base, Done(o))  OBVIOUS
  <1>7. more \in Seq(OrderType) /\ AllClosed(more)
    BY <1>2, <1>6, BoughtMore
  <1>8. Len(more) = n /\ more[n] = Done(o) /\ \A i \in 1..n - 1 : more[i] = base[i]
    BY <1>2, <1>3, <1>6
  <1>9. [s EXCEPT ![n].open = FALSE] = more
    <2>1. PICK e : e = [s EXCEPT ![n] = Done(o)]  OBVIOUS
    <2>2. n \in 1..n /\ DOMAIN s = 1..n  BY <1>3, <1>5
    <2>3. e = [i \in 1..n |-> IF i = n THEN Done(o) ELSE s[i]]  BY <2>1, <2>2
    <2>4. \A i \in 1..n : i = n \/ i \in 1..n - 1  BY <1>3
    <2>5. more = [i \in 1..n |-> more[i]]  BY <1>7, <1>8
    <2>6. \A i \in 1..n : (IF i = n THEN Done(o) ELSE s[i]) = more[i]  BY <1>5, <1>8, <2>4
    <2>7. e = more  BY <2>3, <2>5, <2>6
    <2>8. [s EXCEPT ![n].open = FALSE] = e  BY <1>5, <2>1 DEF Done
    <2> QED  BY <2>7, <2>8
  <1>10. PICK new : new = [tr EXCEPT !.orders = more]  OBVIOUS
  <1>11. new \in TradeType /\ new.orders = more /\ new.dir = tr.dir
    BY <1>7, <1>10 DEF TradeType
  <1>12. Filling(tr) = new
    <2>1. [tr EXCEPT !.orders[n].open = FALSE]
            = [tr EXCEPT !.orders = [tr.orders EXCEPT ![n].open = FALSE]]
      OBVIOUS
    <2> QED  BY <1>4, <1>5, <1>9, <1>10, <2>1 DEF Filling
  <1>13. Totals(new) = Booked(Books(base, Sgn(tr)), Done(o), Sgn(tr))
    <2>1. Sgn(new) = Sgn(tr)  BY <1>11 DEF Sgn
    <2> QED  BY <1>2, <1>6, <1>11, <2>1, BooksAppend DEF Totals
  <1> QED  BY <1>2, <1>4, <1>5, <1>6, <1>7, <1>10, <1>11, <1>12, <1>13

LEMMA StepGoes ==
  ASSUME NEW a \in TradeType, NEW base, Rests(a, base), NEW o, Waits(a, base, o),
         NEW b, b.orders = Append(base, Done(o)), Steps(a, b, o.price)
  PROVE  Goes(a, base, b)
  <1>1. base \in Seq(OrderType) /\ AllClosed(base)  BY DEF Rests
  <1>2. Done(o) \in OrderType /\ ~Done(o).open /\ Done(o).price = o.price  BY <1>1, DoneIs
  <1> QED  BY <1>2 DEF Goes, Fills

\* An entry that fills: the trade holds more, and the money has gone out.
LEMMA EntryFilled ==
  ASSUME NEW tr \in TradeType, NEW base, Rests(tr, base), NEW o, Waits(tr, base, o),
         o.side = "entry"
  PROVE  LET new == CloseOrder(tr, Len(tr.orders))
             more == Append(base, Done(o))
         IN  /\ new \in TradeType /\ new.dir = tr.dir /\ new.orders = more
             /\ Rests(new, more) /\ new.amount = tr.amount + o.amount /\ new.amount > 0
             /\ tr.amount > 0 => Ratchets(tr, new)
             /\ Value(new) = Value(tr) - Sgn(tr) * (o.price * o.amount)
  <1>1. base \in Seq(OrderType) /\ AllClosed(base) /\ Fits(tr, base)  BY DEF Rests
  <1>2. PICK g \in {1, -1} : g = Sgn(tr)  BY SgnIs
  <1>3. PICK s \in BooksType : s = Books(base, g)  BY <1>1, <1>2 DEF Fits
  <1>4. s.amount = tr.amount /\ s.amount \in Nat /\ s.stake \in Int /\ s.real \in Int
    BY <1>1, <1>2, <1>3 DEF Fits, BooksType
  <1>5. PICK n \in Nat : n = Len(tr.orders)  BY OpenIs
  <1>6. PICK c : c = Done(o)  OBVIOUS
  <1>7. PICK more : more = Append(base, c)  OBVIOUS
  <1>8. PICK closed : closed = Filling(tr)  OBVIOUS
  <1>9. /\ c \in OrderType /\ ~c.open /\ c.side = "entry" /\ c.price = o.price
        /\ c.amount = o.amount /\ more \in Seq(OrderType) /\ AllClosed(more)
        /\ closed = [tr EXCEPT !.orders = more] /\ closed \in TradeType
        /\ tr.orders[n] = o
    <2>1. /\ Done(o) \in OrderType /\ ~Done(o).open /\ Done(o).side = o.side
          /\ Done(o).price = o.price /\ Done(o).amount = o.amount
      BY <1>1, DoneIs
    <2>3. Append(base, Done(o)) \in Seq(OrderType) /\ AllClosed(Append(base, Done(o)))
      BY <1>1, <2>1, BoughtMore
    <2>2. /\ Filling(tr) = [tr EXCEPT !.orders = Append(base, Done(o))]
          /\ Filling(tr) \in TradeType /\ tr.orders[Len(tr.orders)] = o
      BY <1>1, DoneIs
    <2> QED  BY <1>5, <1>6, <1>7, <1>8, <2>1, <2>2, <2>3
  <1>10. PICK b \in BooksType : b = Booked(s, c, g)
    BY <1>2, <1>3, <1>9, EntryBooked
  <1>11. /\ b.amount = s.amount + o.amount /\ b.real = s.real
         /\ b.real - g * b.stake = (s.real - g * s.stake) - g * (o.price * o.amount)
    BY <1>2, <1>3, <1>9, <1>10, EntryBooked
  <1>12. b.amount > 0 /\ b.amount \in Nat
    <2>1. o.amount \in Nat \ {0}  BY <1>9 DEF OrderType
    <2> QED  BY <1>4, <1>11, <2>1
  <1>13. PICK at : at = [closed EXCEPT !.rate = o.price]  OBVIOUS
  <1>14. /\ at \in TradeType /\ at.orders = more /\ at.dir = tr.dir /\ at.amount = tr.amount
         /\ at.stake = tr.stake /\ at.real = tr.real /\ at.init = tr.init /\ at.stop = tr.stop
    <2>1. c.price \in Int  BY <1>9 DEF OrderType
    <2> QED  BY <1>9, <1>13, <2>1 DEF TradeType
  <1>15. Sgn(at) = g  BY <1>2, <1>14 DEF Sgn
  <1>16. Totals(at) = b
    BY <1>1, <1>3, <1>7, <1>9, <1>10, <1>14, <1>15, BooksAppend DEF Totals
  <1>17. PICK priced : priced = Recalc(at)  OBVIOUS
  <1>18. /\ priced \in TradeType /\ priced.dir = at.dir /\ priced.orders = at.orders
         /\ priced.real = (IF b.real # 0 THEN b.real ELSE at.real)
         /\ priced.amount = b.amount /\ priced.stake = b.stake /\ priced.init
         /\ Ratchets(at, priced)
    BY <1>12, <1>14, <1>16, <1>17, RecalcIs
  <1>19. PICK reset : reset = IF Entries(priced) = 1
                              THEN [priced EXCEPT !.init = FALSE, !.trailing = FALSE]
                              ELSE priced
    OBVIOUS
  <1>20. reset \in TradeType /\ Alike(reset, priced) /\ reset.stop = priced.stop
    <2>1. CASE Entries(priced) = 1
      <3>1. reset = [priced EXCEPT !.init = FALSE, !.trailing = FALSE]  BY <1>19, <2>1
      <3> QED  BY <1>18, <3>1 DEF TradeType, Alike
    <2>2. CASE Entries(priced) # 1
      <3>1. reset = priced  BY <1>19, <2>2
      <3> QED  BY <1>18, <3>1 DEF Alike
    <2> QED  BY <2>1, <2>2
  <1>21. PICK new : new = AdjustStop(reset, reset.rate, reset.pct)  OBVIOUS
  <1>22. new \in TradeType /\ Alike(new, reset) /\ new.init /\ Ratchets(reset, new)
    <2>1. reset.rate \in Int /\ reset.pct \in Nat  BY <1>20 DEF TradeType
    <2> QED  BY <1>20, <1>21, <2>1, AdjustIs
  <1>23. CloseOrder(tr, n) = new
    BY <1>5, <1>8, <1>9, <1>13, <1>17, <1>19, <1>21 DEF CloseOrder, Filling
  <1>24. /\ new.dir = tr.dir /\ new.orders = more /\ new.amount = b.amount
         /\ new.stake = b.stake /\ new.real = IF b.real # 0 THEN b.real ELSE tr.real
    BY <1>14, <1>18, <1>20, <1>22 DEF Alike
  <1>25. Sgn(new) = g  BY <1>2, <1>24 DEF Sgn
  <1>26. Books(more, g) = b  BY <1>14, <1>15, <1>16 DEF Totals
  <1>27. Bought(more) = Bought(base) \union {Len(base) + 1} /\ Len(base) + 1 \notin Bought(base)
    BY <1>1, <1>7, <1>9, BoughtMore
  <1>28. Fits(new, more)
    <2>1. b \in BooksType /\ b.amount = new.amount /\ new.amount > 0  BY <1>12, <1>24
    <2>2. Bought(more) # {}  BY <1>27
    <2>3. new.real # b.real => b.real = 0  BY <1>24
    <2> QED  BY <1>12, <1>22, <1>24, <1>25, <1>26, <2>1, <2>2, <2>3 DEF Fits
  <1>29. Rests(new, more)  BY <1>9, <1>24, <1>28 DEF Rests
  <1>30. ASSUME tr.amount > 0 PROVE Ratchets(tr, new)
    <2>1. Bought(base) # {}  BY <1>1, <1>30 DEF Fits
    <2>2. Entries(priced) = Cardinality(Bought(more))
      <3>1. AllClosed(priced.orders)  BY <1>9, <1>14, <1>18
      <3>2. Filled(priced, "entry") = Bought(priced.orders)  BY <1>18, <3>1, NoneWait
      <3> QED  BY <1>14, <1>18, <3>2 DEF Entries
    <2>3. Cardinality(Bought(more)) = Cardinality(Bought(base)) + 1
      <3>1. IsFiniteSet(Bought(base))  BY <1>1, BoughtIs
      <3> QED  BY <1>27, <3>1, FS_AddElement
    <2>4. Cardinality(Bought(base)) \in Nat /\ Cardinality(Bought(base)) > 0
      BY <1>1, <2>1, BoughtIs
    <2>5. reset = priced  BY <1>19, <2>2, <2>3, <2>4
    <2>6. new.stop \in Int /\ priced.stop \in Int /\ tr.stop \in Int
      BY <1>18, <1>22 DEF TradeType
    <2>7. tr.init => g * priced.stop >= g * tr.stop
      BY <1>2, <1>14, <1>15, <1>18 DEF Ratchets
    <2>8. Sgn(priced) = g  BY <1>14, <1>15, <1>18 DEF Sgn
    <2>9. g * new.stop >= g * priced.stop  BY <1>18, <1>22, <2>5, <2>8 DEF Ratchets
    <2>10. tr.init => g * new.stop >= g * tr.stop  BY <1>2, <2>6, <2>7, <2>9
    <2> QED  BY <1>2, <1>22, <2>10 DEF Ratchets
  <1>31. Value(new) = Value(tr) - g * (o.price * o.amount)
    <2>1. Totals(new) = b  BY <1>24, <1>25, <1>26 DEF Totals
    <2>2. Totals(tr) = s  BY <1>2, <1>3, RestsIs
    <2> QED  BY <1>2, <1>11, <1>25, <2>1, <2>2 DEF Value
  <1>32. new.amount = tr.amount + o.amount /\ new.amount > 0  BY <1>4, <1>11, <1>12, <1>24
  <1> QED  BY <1>2, <1>5, <1>6, <1>7, <1>22, <1>23, <1>24, <1>29, <1>30, <1>31, <1>32

\* A trade whose orders say the same rests on them as well.
LEMMA AlikeRests ==
  ASSUME NEW a \in TradeType, NEW b \in TradeType, Alike(b, a), a.init => b.init,
         NEW base, Rests(a, base)
  PROVE  Rests(b, base) /\ Value(b) = Value(a)
  <1>1. /\ b.dir = a.dir /\ b.orders = a.orders /\ b.amount = a.amount
        /\ b.stake = a.stake /\ b.real = a.real
    BY DEF Alike
  <1>2. Fits(b, base)  BY <1>1, FitsAlike DEF Rests
  <1>3. \A o : Waits(a, base, o) => Waits(b, base, o)  BY <1>1 DEF Waits
  <1>4. Rests(b, base)  BY <1>1, <1>2, <1>3 DEF Rests
  <1>5. Sgn(b) = Sgn(a)  BY <1>1 DEF Sgn
  <1>6. Totals(b) = Totals(a)  BY <1>1, <1>5 DEF Totals
  <1> QED  BY <1>4, <1>5, <1>6 DEF Value

\* An exit that fills: its price comes in, and what is left stays booked.
LEMMA ExitFilled ==
  ASSUME NEW tr \in TradeType, NEW base, Rests(tr, base), NEW o, Waits(tr, base, o),
         o.side = "exit", NEW f \in AfterFills
  PROVE  LET closed == TryClose(tr, Len(tr.orders), f)
             new == Recalc(closed)
         IN  /\ o.amount = tr.amount =>
                  Totals(closed).real = Value(tr) + Sgn(tr) * (o.price * o.amount)
             /\ o.amount # tr.amount =>
                  /\ new \in TradeType /\ new.dir = tr.dir /\ new.amount > 0
                  /\ Rests(new, Append(base, Done(o)))
                  /\ new.orders = Append(base, Done(o)) /\ Steps(tr, new, o.price)
                  /\ Value(new) = Value(tr) + Sgn(tr) * (o.price * o.amount)
  <1>1. base \in Seq(OrderType) /\ AllClosed(base) /\ Fits(tr, base)  BY DEF Rests
  <1>2. PICK g \in {1, -1} : g = Sgn(tr)  BY SgnIs
  <1>3. PICK s \in BooksType : s = Books(base, g)  BY <1>1, <1>2 DEF Fits
  <1>4. s.amount = tr.amount /\ s.amount \in Nat /\ s.stake \in Int /\ s.real \in Int
    BY <1>1, <1>2, <1>3 DEF Fits, BooksType
  <1>5. PICK n \in Nat : n = Len(tr.orders)  BY OpenIs
  <1>6. PICK c : c = Done(o)  OBVIOUS
  <1>7. PICK more : more = Append(base, c)  OBVIOUS
  <1>8. PICK closed : closed = Filling(tr)  OBVIOUS
  <1>9. /\ c \in OrderType /\ ~c.open /\ c.side = "exit" /\ c.price = o.price
        /\ c.amount = o.amount /\ more \in Seq(OrderType) /\ AllClosed(more)
        /\ closed = [tr EXCEPT !.orders = more] /\ closed \in TradeType
        /\ tr.orders[n] = o
    <2>1. /\ Done(o) \in OrderType /\ ~Done(o).open /\ Done(o).side = o.side
          /\ Done(o).price = o.price /\ Done(o).amount = o.amount
      BY <1>1, DoneIs
    <2>2. Append(base, Done(o)) \in Seq(OrderType) /\ AllClosed(Append(base, Done(o)))
      BY <1>1, <2>1, BoughtMore
    <2>3. /\ Filling(tr) = [tr EXCEPT !.orders = Append(base, Done(o))]
          /\ Filling(tr) \in TradeType /\ tr.orders[Len(tr.orders)] = o
      BY <1>1, DoneIs
    <2> QED  BY <1>5, <1>6, <1>7, <1>8, <2>1, <2>2, <2>3
  <1>10. o.amount <= s.amount /\ o.amount \in Nat \ {0}
    BY <1>4, <1>9 DEF Waits, OrderType
  <1>11. PICK b \in BooksType : b = Booked(s, c, g)
    BY <1>2, <1>9, <1>10, ExitBooked
  <1>12. /\ b.amount = s.amount - o.amount /\ (o.amount = s.amount => b.stake = 0)
         /\ b.real - g * b.stake = (s.real - g * s.stake) + g * (o.price * o.amount)
    BY <1>2, <1>9, <1>10, <1>11, ExitBooked
  <1>13. b.amount \in Nat /\ b.stake \in Int /\ b.real \in Int  BY DEF BooksType
  <1>14. /\ closed.orders = more /\ closed.dir = tr.dir /\ closed.amount = tr.amount
         /\ closed.real = tr.real /\ closed.init = tr.init /\ closed.stop = tr.stop
    BY <1>9 DEF TradeType
  <1>15. Sgn(closed) = g  BY <1>2, <1>14 DEF Sgn
  <1>16. Totals(closed) = b
    BY <1>1, <1>3, <1>7, <1>9, <1>11, <1>14, <1>15, BooksAppend DEF Totals
  <1>17. CloseOrder(tr, n) = closed  BY <1>5, <1>8, <1>9 DEF CloseOrder, Filling, Waits
  <1>18. Value(tr) = s.real - g * s.stake
    <2>1. Totals(tr) = s  BY <1>2, <1>3, RestsIs
    <2> QED  BY <1>2, <2>1 DEF Value
  <1>19. ASSUME o.amount = tr.amount PROVE b.real = Value(tr) + g * (o.price * o.amount)
    BY <1>2, <1>4, <1>12, <1>13, <1>18, <1>19
  <1>20. TryClose(tr, n, f) = IF o.amount = tr.amount THEN closed
                              ELSE AfterFill(closed, o.price, f)
    BY <1>9, <1>17 DEF TryClose
  <1>21. ASSUME o.amount # tr.amount, NEW new, new = Recalc(AfterFill(closed, o.price, f))
         PROVE  /\ new \in TradeType /\ new.dir = tr.dir /\ new.amount > 0
                /\ Rests(new, more) /\ new.orders = more /\ Steps(tr, new, o.price)
                /\ Value(new) = Value(tr) + g * (o.price * o.amount)
    <2>1. b.amount > 0
      <3>1. PICK a \in Nat \ {0} : a = o.amount  BY <1>10
      <3>2. PICK m \in Nat : m = s.amount  BY <1>4
      <3>3. a <= m /\ a # m /\ b.amount = m - a  BY <1>4, <1>10, <1>12, <1>21, <3>1, <3>2
      <3>4. b.amount = m - a /\ m - a > 0  BY <3>3
      <3> QED  BY <3>4
    <2>2. tr.init
      <3>1. tr.amount > 0  BY <1>4, <1>10
      <3> QED  BY <1>1, <3>1 DEF Fits
    <2>3. o.price \in Int  BY DEF Waits, OrderType
    <2>4. PICK after : after = AfterFill(closed, o.price, f)  OBVIOUS
    <2>5. /\ after \in TradeType /\ Alike(after, closed) /\ after.init
          /\ Steps(closed, after, o.price)
      BY <1>9, <1>14, <2>2, <2>3, <2>4, AfterFillIs
    <2>6. after.dir = tr.dir /\ after.orders = more /\ after.real = tr.real
      BY <1>14, <2>5 DEF Alike
    <2>7. Sgn(after) = g  BY <1>2, <2>6 DEF Sgn
    <2>8. Totals(after) = b  BY <1>14, <1>15, <1>16, <2>6, <2>7 DEF Totals
    <2>9. /\ new \in TradeType /\ new.dir = after.dir /\ new.orders = after.orders
          /\ new.real = (IF b.real # 0 THEN b.real ELSE after.real)
          /\ new.amount = b.amount /\ new.stake = b.stake /\ new.init
          /\ Ratchets(after, new)
      BY <1>21, <2>1, <2>4, <2>5, <2>8, RecalcIs
    <2>10. new.orders = more /\ new.dir = tr.dir  BY <2>6, <2>9
    <2>11. Sgn(new) = g  BY <1>2, <2>10 DEF Sgn
    <2>12. Books(more, g) = b  BY <1>14, <1>15, <1>16 DEF Totals
    <2>13. Bought(more) = Bought(base)  BY <1>1, <1>7, <1>9, BoughtMore
    <2>14. Bought(base) # {}  BY <1>4, <1>10, <1>1 DEF Fits
    <2>15. Fits(new, more)  BY <1>13, <2>1, <2>9, <2>11, <2>12, <2>13, <2>14 DEF Fits
    <2>16. Rests(new, more)  BY <1>9, <2>10, <2>15 DEF Rests
    <2>17. Steps(tr, new, o.price)
      <3>1. Ratchets(tr, closed)
        <4>1. closed.init /\ closed.stop = tr.stop  BY <1>14, <2>2
        <4> QED  BY <4>1, StaysPut DEF Ratchets
      <3> QED  BY <1>9, <1>14, <2>2, <2>3, <2>5, <2>6, <2>9, <3>1, StepsOn
    <2>18. Value(new) = b.real - g * b.stake
      <3>1. Totals(new) = b  BY <2>10, <2>11, <2>12 DEF Totals
      <3> QED  BY <2>11, <3>1 DEF Value
    <2> QED  BY <1>12, <1>18, <2>1, <2>9, <2>10, <2>16, <2>17, <2>18
  <1> QED  BY <1>2, <1>5, <1>6, <1>7, <1>16, <1>19, <1>20, <1>21

LEMMA FlowIs ==
  ASSUME NEW tr, NEW price \in Int, NEW amount \in Int
  PROVE  /\ InRow(price, row) => EntryFlow(tr, price, amount) = -(Sgn(tr) * (price * amount))
         /\ ~InRow(price, row) => EntryFlow(tr, price, amount) = 0
         /\ Sgn(tr) * price * amount = Sgn(tr) * (price * amount)
         /\ EntryFlow(tr, price, amount) \in Int
  <1>1. PICK g \in {1, -1} : g = Sgn(tr)  BY SgnIs
  <1>2. PICK m \in Int : m = price * amount  OBVIOUS
  <1>3. g * price * amount = g * m /\ -g * price * amount = -(g * m)
    <2>1. CASE g = 1
      <3>1. 1 * price = price /\ -1 * price = -price /\ (-price) * amount = -(price * amount)
        OBVIOUS
      <3> QED  BY <1>2, <2>1, <3>1
    <2>2. CASE g = -1
      <3>1. (-1) * price = -price /\ -(-1) * price = price /\ (-price) * amount = -(price * amount)
        OBVIOUS
      <3> QED  BY <1>2, <2>2, <3>1
    <2> QED  BY <2>1, <2>2
  <1> QED  BY <1>1, <1>2, <1>3 DEF EntryFlow

\* A recalculation of a trade that rests on its orders changes the stop at most.
LEMMA RecalcRests ==
  ASSUME NEW tr \in TradeType, NEW base, Rests(tr, base)
  PROVE  LET new == Recalc(tr)
         IN  /\ new \in TradeType /\ new.dir = tr.dir /\ new.amount = tr.amount
             /\ new.orders = tr.orders
             /\ Rests(new, base) /\ Value(new) = Value(tr) /\ Ratchets(tr, new)
  <1>1. base \in Seq(OrderType) /\ AllClosed(base) /\ Fits(tr, base)  BY DEF Rests
  <1>2. PICK s \in BooksType : s = Totals(tr)  BY RestsIs
  <1>3. s = Books(base, Sgn(tr))  BY <1>2, RestsIs
  <1>4. s.amount = tr.amount /\ s.amount \in Nat  BY <1>1, <1>3 DEF Fits, BooksType
  <1>5. PICK new : new = Recalc(tr)  OBVIOUS
  <1>6. /\ new \in TradeType /\ new.dir = tr.dir /\ new.orders = tr.orders
        /\ new.real = (IF s.real # 0 THEN s.real ELSE tr.real)
        /\ (s.amount > 0 => new.amount = s.amount /\ new.stake = s.stake /\ new.init)
        /\ (s.amount = 0 => new.amount = tr.amount /\ new.stake = tr.stake
                            /\ new.init = tr.init)
        /\ Ratchets(tr, new)
    BY <1>2, <1>5, RecalcIs
  <1>7. new.amount = tr.amount  BY <1>4, <1>6
  <1>8. Sgn(new) = Sgn(tr)  BY <1>6 DEF Sgn
  <1>9. Fits(new, base)
    <2>1. CASE tr.amount > 0
      <3>1. Bought(base) # {}  BY <1>1, <2>1 DEF Fits
      <3>2. new.real # s.real => s.real = 0  BY <1>6
      <3> QED  BY <1>3, <1>4, <1>6, <1>8, <2>1, <3>1, <3>2 DEF Fits
    <2>2. CASE tr.amount = 0
      <3>1. s = Zero /\ Bought(base) = {} /\ tr.real = 0  BY <1>1, <1>3, <2>2 DEF Fits
      <3>2. new.real = 0 /\ s.real = 0  BY <1>6, <3>1 DEF Zero
      <3> QED  BY <1>3, <1>4, <1>6, <1>8, <2>2, <3>1, <3>2 DEF Fits
    <2> QED  BY <1>4, <2>1, <2>2
  <1>10. \A o : Waits(tr, base, o) => Waits(new, base, o)  BY <1>6, <1>7 DEF Waits
  <1>11. Rests(new, base)  BY <1>1, <1>6, <1>9, <1>10 DEF Rests
  <1>12. Totals(new) = Totals(tr)  BY <1>6, <1>8 DEF Totals
  <1>13. Value(new) = Value(tr)  BY <1>8, <1>12 DEF Value
  <1> QED  BY <1>5, <1>6, <1>7, <1>11, <1>13

\* An entry that fills, and the stop the strategy then sets.
LEMMA EntryTaken ==
  ASSUME NEW tr \in TradeType, NEW base, Rests(tr, base), NEW o, Waits(tr, base, o),
         o.side = "entry", NEW f \in AfterFills
  PROVE  LET new == TryClose(tr, Len(tr.orders), f)
             more == Append(base, Done(o))
         IN  /\ new \in TradeType /\ new.dir = tr.dir /\ new.orders = more
             /\ Rests(new, more) /\ new.amount > 0 /\ new.init
             /\ tr.amount > 0 => tr.init /\ Steps(tr, new, o.price)
             /\ Value(new) = Value(tr) - Sgn(tr) * (o.price * o.amount)
  <1>1. PICK closed : closed = CloseOrder(tr, Len(tr.orders))  OBVIOUS
  <1>2. PICK more : more = Append(base, Done(o))  OBVIOUS
  <1>3. /\ closed \in TradeType /\ closed.dir = tr.dir /\ closed.orders = more
        /\ Rests(closed, more) /\ closed.amount > 0
        /\ (tr.amount > 0 => Ratchets(tr, closed))
        /\ Value(closed) = Value(tr) - Sgn(tr) * (o.price * o.amount)
    BY <1>1, <1>2, EntryFilled
  <1>4. closed.init  BY <1>3 DEF Rests, Fits
  <1>5. o.price \in Int  BY DEF Waits, OrderType
  <1>6. PICK new : new = AfterFill(closed, o.price, f)  OBVIOUS
  <1>7. /\ new \in TradeType /\ Alike(new, closed) /\ new.init
        /\ Steps(closed, new, o.price)
    BY <1>3, <1>4, <1>5, <1>6, AfterFillIs
  <1>8. TryClose(tr, Len(tr.orders), f) = new
    <2>1. base \in Seq(OrderType) /\ AllClosed(base)  BY DEF Rests
    <2>2. tr.orders[Len(tr.orders)] = o  BY <2>1, DoneIs
    <2> QED  BY <1>1, <1>6, <2>2 DEF TryClose
  <1>9. Rests(new, more) /\ Value(new) = Value(closed)  BY <1>3, <1>7, AlikeRests
  <1>10. new.dir = tr.dir /\ new.orders = more /\ new.amount > 0  BY <1>3, <1>7 DEF Alike
  <1>11. ASSUME tr.amount > 0 PROVE tr.init /\ Steps(tr, new, o.price)
    <2>1. tr.init  BY <1>11 DEF Rests, Fits
    <2>2. Ratchets(new, new)  BY <1>7, StaysPut DEF Ratchets
    <2> QED  BY <1>3, <1>5, <1>7, <1>10, <1>11, <2>1, <2>2, StepsOn
  <1> QED  BY <1>2, <1>3, <1>7, <1>8, <1>9, <1>10, <1>11

\* A new entry: at once filled and paid for, or waiting and worth nothing yet.
LEMMA PlaceEntryIs ==
  ASSUME NEW tr \in TradeType, NEW base, Rests(tr, base), NEW price \in Int,
         NEW amount \in Nat \ {0}, NEW f \in AfterFills
  PROVE  LET new == PlaceEntry(tr, price, amount, f)
         IN  /\ new \in TradeType /\ new.dir = tr.dir /\ \E more : Rests(new, more)
             /\ tr.amount > 0 => new.amount > 0 /\ Goes(tr, base, new)
             /\ Value(new) = Value(tr) + EntryFlow(tr, price, amount)
  <1>1. PICK adj : adj = IF tr.stop = 0 THEN AdjustStop(tr, tr.rate, Dist) ELSE tr  OBVIOUS
  <1>2. adj \in TradeType /\ Alike(adj, tr) /\ (tr.init => adj.init) /\ Ratchets(tr, adj)
    <2>1. CASE tr.stop = 0
      <3>1. tr.rate \in Int /\ Dist \in Nat  BY MoneyAssumption DEF TradeType
      <3>2. adj = AdjustStop(tr, tr.rate, Dist)  BY <1>1, <2>1
      <3> QED  BY <3>1, <3>2, AdjustIs
    <2>2. CASE tr.stop # 0
      <3>1. adj = tr  BY <1>1, <2>2
      <3>2. tr.stop \in Int  BY DEF TradeType
      <3>3. PICK g \in {1, -1} : g = Sgn(tr)  BY SgnIs
      <3> QED  BY <3>1, <3>2, <3>3 DEF Alike, Ratchets
    <2> QED  BY <2>1, <2>2
  <1>3. Rests(adj, base) /\ Value(adj) = Value(tr)  BY <1>2, AlikeRests
  <1>4. adj.dir = tr.dir /\ adj.amount = tr.amount  BY <1>2 DEF Alike
  <1>5. PICK o : o = Order("entry", price, amount)  OBVIOUS
  <1>6. o.side = "entry" /\ o.price = price /\ o.amount = amount  BY <1>5 DEF Order
  <1>7. PICK placed : placed = Place(adj, "entry", price, amount)  OBVIOUS
  <1>8. /\ placed \in TradeType /\ placed.dir = adj.dir /\ placed.amount = adj.amount
        /\ Rests(placed, base) /\ Waits(placed, base, o) /\ Value(placed) = Value(adj)
        /\ Ratchets(adj, placed)
    <2>1. "entry" \in {"entry", "exit"} /\ "entry" # "exit"  OBVIOUS
    <2> QED  BY <1>2, <1>3, <1>5, <1>7, <2>1, PlaceIs
  <1>9. placed.dir = tr.dir /\ placed.amount = tr.amount /\ Sgn(placed) = Sgn(tr)
    BY <1>4, <1>8 DEF Sgn
  <1>10. Ratchets(tr, placed)  BY <1>2, <1>4, <1>8, RatchetsTwice
  <1>11. PICK new : new = PlaceEntry(tr, price, amount, f)  OBVIOUS
  <1>12. CASE InRow(price, row)
    <2>1. PICK closed : closed = TryClose(placed, Len(placed.orders), f)  OBVIOUS
    <2>2. PICK more : more = Append(base, Done(o))  OBVIOUS
    <2>3. /\ closed \in TradeType /\ closed.dir = placed.dir /\ Rests(closed, more)
          /\ closed.amount > 0 /\ closed.init /\ closed.orders = more
          /\ (placed.amount > 0 => placed.init /\ Steps(placed, closed, o.price))
          /\ Value(closed) = Value(placed) - Sgn(placed) * (o.price * o.amount)
      BY <1>6, <1>8, <2>1, <2>2, EntryTaken
    <2>4. new = Recalc(closed)  BY <1>1, <1>7, <1>11, <1>12, <2>1 DEF PlaceEntry
    <2>5. /\ new \in TradeType /\ new.dir = closed.dir /\ new.amount = closed.amount
          /\ new.orders = closed.orders
          /\ Rests(new, more) /\ Value(new) = Value(closed) /\ Ratchets(closed, new)
      BY <2>3, <2>4, RecalcRests
    <2>6. ASSUME tr.amount > 0 PROVE Goes(tr, base, new)
      <3>1. tr.init  BY <2>6 DEF Rests, Fits
      <3>2. Steps(placed, closed, price)  BY <1>6, <1>9, <2>3, <2>6
      <3>3. Steps(tr, new, price)
        BY <1>8, <1>9, <1>10, <2>3, <2>5, <3>1, <3>2, StepsOn
      <3>4. base \in Seq(OrderType) /\ AllClosed(base)  BY DEF Rests
      <3>5. Done(o) \in OrderType /\ ~Done(o).open /\ Done(o).price = price
        BY <1>6, <1>8, <3>4, DoneIs
      <3>6. Fills(tr, base, new)  BY <2>2, <2>3, <2>5, <3>3, <3>5 DEF Fills
      <3> QED  BY <3>6 DEF Goes
    <2>7. EntryFlow(tr, price, amount) = -(Sgn(tr) * (price * amount))  BY <1>12, FlowIs
    <2>8. Value(new) = Value(tr) + EntryFlow(tr, price, amount)
      <3>1. PICK cost : cost = Sgn(tr) * (price * amount)  OBVIOUS
      <3>2. cost \in Int  BY <3>1, SgnIs
      <3>3. Value(new) = Value(tr) - cost  BY <1>3, <1>6, <1>8, <1>9, <2>3, <2>5, <3>1
      <3>4. Value(tr) \in Int
        <4>1. Totals(tr).real \in Int /\ Totals(tr).stake \in Int  BY RestsIs DEF BooksType
        <4> QED  BY <4>1, SgnIs DEF Value
      <3> QED  BY <2>7, <3>1, <3>2, <3>3, <3>4
    <2> QED  BY <1>9, <1>11, <2>3, <2>5, <2>6, <2>8
  <1>13. CASE ~InRow(price, row)
    <2>1. new = Recalc(placed)  BY <1>1, <1>7, <1>11, <1>13 DEF PlaceEntry
    <2>2. /\ new \in TradeType /\ new.dir = placed.dir /\ new.amount = placed.amount
          /\ Rests(new, base) /\ Value(new) = Value(placed) /\ Ratchets(placed, new)
      BY <1>8, <2>1, RecalcRests
    <2>3. Goes(tr, base, new)
      BY <1>8, <1>9, <1>10, <2>2, RatchetsTwice DEF Goes
    <2>4. EntryFlow(tr, price, amount) = 0  BY <1>13, FlowIs
    <2>5. Value(tr) \in Int
      <3>1. Totals(tr).real \in Int /\ Totals(tr).stake \in Int  BY RestsIs DEF BooksType
      <3> QED  BY <3>1, SgnIs DEF Value
    <2> QED  BY <1>3, <1>8, <1>9, <1>11, <2>2, <2>3, <2>4, <2>5
  <1> QED  BY <1>12, <1>13

LEMMA NewestIs == ASSUME NEW n \in Int PROVE Newest({n}) = n
  <1>1. \A i \in {n} : i = n  OBVIOUS
  <1>2. \E i \in {n} : \A j \in {n} : j <= i  OBVIOUS
  <1> QED  BY <1>1, <1>2 DEF Newest

\* The only open order of a trade is its last one.
LEMMA WaitingIs ==
  ASSUME NEW tr \in TradeType, NEW base, Rests(tr, base), OpenOrders(tr) # {}
  PROVE  \E o : /\ Waits(tr, base, o) /\ tr.orders[Len(tr.orders)] = o
                /\ o \in OrderType /\ Len(tr.orders) \in Nat
                /\ Newest(OpenOrders(tr)) = Len(tr.orders)
                /\ OpenAt(tr, o.side) = {Len(tr.orders)}
                /\ Newest(OpenAt(tr, o.side)) = Len(tr.orders)
                /\ \A side : OpenAt(tr, side) # {} => side = o.side
                /\ Drop(tr, Len(tr.orders)) = CancelAll(tr)
  <1>1. base \in Seq(OrderType) /\ AllClosed(base)  BY DEF Rests
  <1>2. tr.orders # base  BY RestsIs
  <1>3. PICK o : Waits(tr, base, o)  BY <1>2 DEF Rests
  <1>4. o \in OrderType /\ o.open /\ tr.orders = Append(base, o)  BY <1>3 DEF Waits
  <1>5. PICK n : n = Len(base) + 1  OBVIOUS
  <1>6. /\ n \in Nat /\ Len(tr.orders) = n /\ tr.orders[n] = o
        /\ OpenOrders(tr) = {n} /\ OpenAt(tr, o.side) = {n}
        /\ (\A side : side # o.side => OpenAt(tr, side) = {})
        /\ Drop(tr, n) = CancelAll(tr)
    BY <1>1, <1>4, <1>5, OneWaits
  <1>7. Newest({n}) = n  BY <1>6, NewestIs
  <1> QED  BY <1>3, <1>4, <1>6, <1>7

LEMMA WaitingAt ==
  ASSUME NEW tr \in TradeType, NEW side, OpenAt(tr, side) # {}
  PROVE  OpenOrders(tr) # {}
  <1>1. PICK i \in OpenAt(tr, side) : TRUE  OBVIOUS
  <1>2. i \in 1..Len(tr.orders) /\ tr.orders[i].open  BY <1>1, OpenIs DEF OpenAt
  <1> QED  BY <1>2, OpenIs

LEMMA ValueIs ==
  ASSUME NEW tr \in TradeType, NEW base, Rests(tr, base)
  PROVE  Value(tr) \in Int /\ (tr.amount = 0 => Value(tr) = 0)
         /\ (Entries(tr) = 0 => tr.amount = 0)
  <1>1. Totals(tr).real \in Int /\ Totals(tr).stake \in Int  BY RestsIs DEF BooksType
  <1>2. tr.amount = 0 => Totals(tr) = Zero  BY RestsIs DEF Rests, Fits
  <1>3. tr.amount = 0 => Value(tr) = 0
    <2> SUFFICES ASSUME tr.amount = 0 PROVE Value(tr) = 0  OBVIOUS
    <2>1. Totals(tr).real = 0 /\ Totals(tr).stake = 0  BY <1>2 DEF Zero
    <2>2. PICK g \in {1, -1} : g = Sgn(tr)  BY SgnIs
    <2> QED  BY <2>1, <2>2 DEF Value
  <1>4. tr.amount \in Nat  BY DEF TradeType
  <1> QED  BY <1>1, <1>3, <1>4, SgnIs, RestsIs DEF Value

\* What is not in the books of any trade.
LEMMA NoTradeIs ==
  /\ NoTrade \in TradeType /\ NoTrade.dir = "none" /\ "none" \notin Dirs
  /\ Totals(NoTrade) = Zero /\ Value(NoTrade) = 0 /\ OpenOrders(NoTrade) = {}
  /\ Entries(NoTrade) = 0 /\ ~Kept(NoTrade)
  <1>1. <<>> \in Seq(OrderType)  OBVIOUS
  <1>2. NoTrade \in TradeType  BY <1>1 DEF NoTrade, TradeType
  <1>3. NoTrade.orders = <<>> /\ NoTrade.dir = "none" /\ NoTrade.real = 0  BY DEF NoTrade
  <1>4. Totals(NoTrade) = Zero  BY <1>3, BooksEmpty DEF Totals
  <1>5. Sgn(NoTrade) = 1  BY <1>3 DEF Sgn
  <1>6. Value(NoTrade) = 0  BY <1>4, <1>5 DEF Value, Zero
  <1>7. AllClosed(NoTrade.orders) /\ Bought(NoTrade.orders) = {}
    BY <1>3 DEF AllClosed, Bought
  <1>8. OpenOrders(NoTrade) = {} /\ Filled(NoTrade, "entry") = {}  BY <1>2, <1>7, NoneWait
  <1>9. Entries(NoTrade) = 0  BY <1>8, FS_EmptySet DEF Entries
  <1>10. ~Kept(NoTrade)  BY <1>3, <1>4 DEF Kept, Zero
  <1>11. "none" \notin Dirs  BY CandlesAssumption
  <1> QED  BY <1>2, <1>3, <1>4, <1>6, <1>8, <1>9, <1>10, <1>11

LEMMA NewTradeIs ==
  ASSUME NEW dir \in Dirs, NEW price \in Int, NEW amount \in Nat \ {0}, NEW f \in AfterFills
  PROVE  LET new == NewTrade(dir, price, amount, f)
         IN  Sound(new) /\ new.dir = dir /\ Value(new) = EntryFlow(new, price, amount)
  <1>1. PICK tr : tr = [NoTrade EXCEPT !.dir = dir, !.rate = price,
                                       !.stake = price * amount, !.fresh = TRUE]
    OBVIOUS
  <1>2. PICK cost \in Int : cost = price * amount  OBVIOUS
  <1>3. tr = [dir |-> dir, orders |-> <<>>, stop |-> 0, pct |-> 0, init |-> FALSE,
              trailing |-> FALSE, amount |-> 0, rate |-> price, stake |-> cost, real |-> 0,
              fresh |-> TRUE]
    BY <1>1, <1>2 DEF NoTrade
  <1>4. <<>> \in Seq(OrderType)  OBVIOUS
  <1>5. tr \in TradeType /\ tr.dir = dir /\ tr.orders = <<>> /\ tr.amount = 0 /\ tr.real = 0
    BY <1>2, <1>3, <1>4 DEF TradeType
  <1>6. Rests(tr, <<>>)
    <2>1. AllClosed(<<>>) /\ Bought(<<>>) = {}  BY DEF AllClosed, Bought
    <2>2. Books(<<>>, Sgn(tr)) = Zero  BY BooksEmpty
    <2>3. Zero \in BooksType /\ Zero.amount = 0 /\ Zero.real = 0  BY DEF Zero, BooksType
    <2>4. Fits(tr, <<>>)  BY <1>5, <2>1, <2>2, <2>3 DEF Fits
    <2> QED  BY <1>4, <1>5, <2>1, <2>4 DEF Rests
  <1>7. Value(tr) = 0  BY <1>5, <1>6, ValueIs
  <1>8. PICK new : new = NewTrade(dir, price, amount, f)  OBVIOUS
  <1>9. new = PlaceEntry(tr, price, amount, f)  BY <1>1, <1>8 DEF NewTrade
  <1>10. /\ new \in TradeType /\ new.dir = tr.dir /\ (\E more : Rests(new, more))
         /\ Value(new) = Value(tr) + EntryFlow(tr, price, amount)
    BY <1>5, <1>6, <1>9, PlaceEntryIs
  <1>11. EntryFlow(tr, price, amount) = EntryFlow(new, price, amount)
    BY <1>10 DEF EntryFlow, Sgn
  <1>12. EntryFlow(new, price, amount) \in Int  BY FlowIs
  <1> QED  BY <1>5, <1>7, <1>8, <1>10, <1>11, <1>12 DEF Sound

\* A candle later nothing is fresh, and all the rest is as it was.
Staled(o) == [o EXCEPT !.fresh = FALSE]
Aged(orders) == [i \in 1..Len(orders) |-> Staled(orders[i])]

LEMMA AgedIs ==
  ASSUME NEW orders \in Seq(OrderType)
  PROVE  LET new == Aged(orders)
         IN  /\ new \in Seq(OrderType) /\ Len(new) = Len(orders)
             /\ (AllClosed(orders) => AllClosed(new)) /\ Bought(new) = Bought(orders)
             /\ \A sgn : Books(new, sgn) = Books(orders, sgn)
  <1>1. PICK n \in Nat : n = Len(orders)  OBVIOUS
  <1>2. PICK new : new = Aged(orders)  OBVIOUS
  <1>3. \A i \in 1..n : orders[i] \in OrderType  BY <1>1
  <1>4. \A o \in OrderType :
          /\ Staled(o) \in OrderType /\ Staled(o).open = o.open /\ Staled(o).side = o.side
          /\ Staled(o).price = o.price /\ Staled(o).amount = o.amount
    BY DEF Staled, OrderType
  <1>5. new = [i \in 1..n |-> Staled(orders[i])]  BY <1>1, <1>2 DEF Aged
  <1>6. \A i \in 1..n : new[i] \in OrderType  BY <1>3, <1>4, <1>5
  <1>7. new \in Seq(OrderType) /\ Len(new) = n
    <2>1. new \in [1..n -> OrderType]  BY <1>5, <1>6
    <2> QED  BY <1>1, <2>1
  <1>8. \A i \in 1..n : /\ new[i].open = orders[i].open /\ new[i].side = orders[i].side
                        /\ new[i].price = orders[i].price /\ new[i].amount = orders[i].amount
    BY <1>3, <1>4, <1>5
  <1>9. AllClosed(orders) => AllClosed(new)  BY <1>1, <1>7, <1>8 DEF AllClosed
  <1>10. Bought(new) = Bought(orders)  BY <1>1, <1>7, <1>8 DEF Bought
  <1>11. ASSUME NEW sgn PROVE Books(new, sgn) = Books(orders, sgn)
    <2>1. \A k \in 1..n : \A s : Booked(s, new[k], sgn) = Booked(s, orders[k], sgn)
      BY <1>8 DEF Booked
    <2> QED  BY <1>1, <1>7, <2>1, BooksAlike
  <1> QED  BY <1>1, <1>2, <1>7, <1>9, <1>10, <1>11

LEMMA AgedAppend ==
  ASSUME NEW base \in Seq(OrderType), NEW o \in OrderType
  PROVE  Aged(Append(base, o)) = Append(Aged(base), Staled(o))
  <1>1. PICK n \in Nat : n = Len(base)  OBVIOUS
  <1>2. Append(base, o) \in Seq(OrderType)  OBVIOUS
  <1>3. PICK more \in Seq(OrderType) : more = Append(base, o)  BY <1>2, Zenon
  <1>4. Len(more) = n + 1 /\ more[n + 1] = o /\ \A i \in 1..n : more[i] = base[i]
    BY <1>1, <1>3
  <1>5. PICK old \in Seq(OrderType) : old = Aged(base)  BY AgedIs
  <1>6. Len(old) = n /\ \A i \in 1..n : old[i] = Staled(base[i])
    <2>1. Len(old) = n  BY <1>1, <1>5, AgedIs
    <2> QED  BY <1>1, <1>5, <2>1 DEF Aged
  <1>7. Staled(o) \in OrderType  BY DEF Staled, OrderType
  <1>8. Append(old, Staled(o)) = [i \in 1..n + 1 |-> Staled(more[i])]
    <2>1. PICK a : a = Append(old, Staled(o))  OBVIOUS
    <2>2. a \in Seq(OrderType) /\ Len(a) = n + 1 /\ a[n + 1] = Staled(o)
          /\ \A i \in 1..n : a[i] = old[i]
      BY <1>6, <1>7, <2>1
    <2>3. a = [i \in 1..n + 1 |-> a[i]]  BY <2>2
    <2>4. \A i \in 1..n + 1 : i = n + 1 \/ i \in 1..n  OBVIOUS
    <2>5. \A i \in 1..n + 1 : a[i] = Staled(more[i])  BY <1>4, <1>6, <2>2, <2>4
    <2> QED  BY <2>1, <2>3, <2>5
  <1>9. Aged(more) = [i \in 1..n + 1 |-> Staled(more[i])]  BY <1>4 DEF Aged
  <1> QED  BY <1>3, <1>5, <1>8, <1>9

LEMMA OlderOf ==
  ASSUME NEW tr \in TradeType
  PROVE  Older(tr) = [tr EXCEPT !.fresh = FALSE, !.orders = Aged(tr.orders)]
  <1>1. DOMAIN tr.orders = 1..Len(tr.orders)  BY OpenIs
  <1> QED  BY <1>1 DEF Older, Aged, Staled

LEMMA OlderIs ==
  ASSUME NEW tr \in TradeType, NEW base, Rests(tr, base)
  PROVE  LET new == Older(tr)
         IN  /\ new \in TradeType /\ new.dir = tr.dir /\ new.amount = tr.amount
             /\ new.stop = tr.stop
             /\ Rests(new, Aged(base)) /\ Value(new) = Value(tr)
  <1>1. base \in Seq(OrderType) /\ AllClosed(base) /\ Fits(tr, base)  BY DEF Rests
  <1>2. PICK aged : aged = Aged(tr.orders)  OBVIOUS
  <1>3. tr.orders \in Seq(OrderType)  BY OpenIs
  <1>4. aged \in Seq(OrderType) /\ \A sgn : Books(aged, sgn) = Books(tr.orders, sgn)
    BY <1>2, <1>3, AgedIs
  <1>5. PICK new : new = [tr EXCEPT !.fresh = FALSE, !.orders = aged]  OBVIOUS
  <1>6. Older(tr) = new  BY <1>2, <1>5, OlderOf
  <1>7. /\ new \in TradeType /\ new.dir = tr.dir /\ new.amount = tr.amount
        /\ new.stake = tr.stake /\ new.real = tr.real /\ new.init = tr.init
        /\ new.stop = tr.stop /\ new.orders = aged
    BY <1>4, <1>5 DEF TradeType
  <1>8. Sgn(new) = Sgn(tr)  BY <1>7 DEF Sgn
  <1>9. Totals(new) = Totals(tr)  BY <1>4, <1>7, <1>8 DEF Totals
  <1>10. Value(new) = Value(tr)  BY <1>8, <1>9 DEF Value
  <1>11. PICK old : old = Aged(base)  OBVIOUS
  <1>12. /\ old \in Seq(OrderType) /\ AllClosed(old) /\ Bought(old) = Bought(base)
         /\ Books(old, Sgn(tr)) = Books(base, Sgn(tr))
    BY <1>1, <1>11, AgedIs
  <1>13. Fits(new, old)  BY <1>1, <1>7, <1>8, <1>12 DEF Fits
  <1>14. new.orders = old \/ \E o : Waits(new, old, o)
    <2>1. CASE tr.orders = base  BY <1>2, <1>7, <1>11, <2>1
    <2>2. CASE tr.orders # base
      <3>1. PICK o : Waits(tr, base, o)  BY <2>2 DEF Rests
      <3>2. /\ o \in OrderType /\ o.open /\ tr.orders = Append(base, o)
            /\ (o.side = "exit" => o.amount <= tr.amount)
        BY <3>1 DEF Waits
      <3>3. aged = Append(old, Staled(o))  BY <1>1, <1>2, <1>11, <3>2, AgedAppend
      <3>4. Staled(o) \in OrderType /\ Staled(o).open /\ Staled(o).side = o.side
            /\ Staled(o).amount = o.amount
        BY <3>2 DEF Staled, OrderType
      <3>5. Waits(new, old, Staled(o))  BY <1>7, <3>2, <3>3, <3>4 DEF Waits
      <3> QED  BY <3>5
    <2> QED  BY <2>1, <2>2
  <1>15. Rests(new, old)  BY <1>12, <1>13, <1>14 DEF Rests
  <1> QED  BY <1>6, <1>7, <1>10, <1>11, <1>15

LEMMA OlderNone == Older(NoTrade) = NoTrade
  <1>1. NoTrade \in TradeType  BY NoTradeIs
  <1>2. NoTrade.orders = <<>> /\ NoTrade.fresh = FALSE  BY DEF NoTrade
  <1>3. Aged(<<>>) = <<>>
    <2>1. <<>> \in Seq(OrderType)  OBVIOUS
    <2>2. Aged(<<>>) \in Seq(OrderType) /\ Len(Aged(<<>>)) = 0  BY <2>1, AgedIs
    <2> QED  BY <2>2
  <1>4. Older(NoTrade) = [NoTrade EXCEPT !.fresh = FALSE, !.orders = <<>>]
    BY <1>1, <1>2, <1>3, OlderOf
  <1>5. PICK new : new = [NoTrade EXCEPT !.fresh = FALSE, !.orders = <<>>]  OBVIOUS
  <1>6. new = [dir |-> "none", orders |-> <<>>, stop |-> 0, pct |-> 0, init |-> FALSE,
               trailing |-> FALSE, amount |-> 0, rate |-> 0, stake |-> 0, real |-> 0,
               fresh |-> FALSE]
    BY <1>5 DEF NoTrade
  <1> QED  BY <1>4, <1>5, <1>6 DEF NoTrade

LEMMA RowIs ==
  ASSUME row \in Rows
  PROVE  row.open \in Nat /\ row.low \in Nat /\ row.high \in Nat
  <1>1. Prices \subseteq Nat  BY MoneyAssumption
  <1>2. row \in [open : Prices, low : Prices, high : Prices]  BY Zenon DEF Rows
  <1>3. row.open \in Prices /\ row.low \in Prices /\ row.high \in Prices
    BY <1>2
  <1> QED  BY <1>1, <1>3

\* A trailing stop is the same trade with a stop that ratcheted.
LEMMA TrailedIs ==
  ASSUME NEW tr \in TradeType, NEW base, Rests(tr, base), row \in Rows, NEW new \in Trailed(tr)
  PROVE  /\ new \in TradeType /\ Alike(new, tr) /\ (tr.init => new.init)
         /\ Rests(new, base) /\ Value(new) = Value(tr) /\ Ratchets(tr, new)
  <1>1. row.low \in Int /\ row.high \in Int /\ Distances \subseteq Nat
    BY RowIs, DistancesAre
  <1>2. new \in TradeType /\ Alike(new, tr) /\ (tr.init => new.init) /\ Ratchets(tr, new)
    <2>1. CASE new = tr
      <3>1. tr.stop \in Int  BY DEF TradeType
      <3>2. PICK g \in {1, -1} : g = Sgn(tr)  BY SgnIs
      <3> QED  BY <2>1, <3>1, <3>2 DEF Alike, Ratchets
    <2>2. CASE new # tr
      <3>1. PICK price \in Int, k \in Distances : new = AdjustStop(tr, price, k)
        BY <1>1, <2>2 DEF Trailed
      <3> QED  BY <1>1, <3>1, AdjustIs
    <2> QED  BY <2>1, <2>2
  <1> QED  BY <1>2, AlikeRests

-----------------------------------------------------------------------------
(* The class lists and what the trades in them are worth *)

Traded(trs) ==
  trs \in [Ids -> TradeType] /\ \A id \in Ids : trs[id] = NoTrade \/ Sound(trs[id])
Listed(trs, list, of, n) ==
  /\ list \in Seq(Ids) /\ IsInjective(list) /\ n = Len(list) /\ of \in [Pairs -> Seq(Ids)]
  /\ \A id \in Ids : id \in ToSet(list) <=> trs[id] # NoTrade
  /\ \A p \in Pairs : of[p] = <<>> \/ \E id \in ToSet(list) : of[p] = <<id>>
  /\ \A id \in ToSet(list) : \E p \in Pairs : of[p] = <<id>>
  /\ \A p, r \in Pairs : of[p] # <<>> /\ of[p] = of[r] => p = r
  /\ MaxOpen > 0 => n <= MaxOpen
Values(trs) == [id \in Ids |-> Value(trs[id])]
Worth(trs) == SumOver(Values(trs), Ids)

LEMMA IdsAre == IsFiniteSet(Ids) /\ Ids \subseteq Nat /\ Cardinality(Ids) = Cardinality(Pairs)
  <1>1. PICK n \in Nat : n = Cardinality(Pairs)
    <2>1. Cardinality(Pairs) \in Nat  BY CandlesAssumption, FS_CardinalityType
    <2> QED  BY <2>1
  <1>2. Ids = 1..n  BY <1>1 DEF Ids
  <1>3. IsFiniteSet(1..n) /\ Cardinality(1..n) = IF 1 > n THEN 0 ELSE n - 1 + 1
    BY FS_Interval
  <1>4. Cardinality(1..n) = n  BY <1>3
  <1> QED  BY <1>1, <1>2, <1>3, <1>4

\* A trade in the lists is sound, and its value an amount of money.
LEMMA SoundIs ==
  ASSUME NEW trs, Traded(trs), NEW id \in Ids
  PROVE  /\ trs[id] \in TradeType /\ Value(trs[id]) \in Int
         /\ trs[id] # NoTrade => Sound(trs[id])
         /\ Sound(trs[id]) => trs[id] # NoTrade
  <1>1. trs[id] \in TradeType  BY DEF Traded
  <1>2. Value(trs[id]) \in Int
    <2>1. CASE trs[id] = NoTrade  BY <2>1, NoTradeIs
    <2>2. CASE Sound(trs[id])
      <3>1. PICK base : Rests(trs[id], base)  BY <2>2 DEF Sound
      <3> QED  BY <1>1, <3>1, ValueIs
    <2> QED  BY <2>1, <2>2 DEF Traded
  <1>3. Sound(trs[id]) => trs[id] # NoTrade  BY NoTradeIs DEF Sound
  <1> QED  BY <1>1, <1>2, <1>3 DEF Traded

LEMMA WorthIs ==
  ASSUME NEW trs, Traded(trs)
  PROVE  Summable(Values(trs), Ids) /\ Worth(trs) \in Int
  <1>1. \A id \in Ids : Values(trs)[id] \in Int  BY SoundIs DEF Values
  <1>2. Summable(Values(trs), Ids)  BY <1>1, IdsAre DEF Summable
  <1> QED  BY <1>2, SumType DEF Worth

\* Another value of one trade.
SetTo(trs, id, tr) == [trs EXCEPT ![id] = tr]

LEMMA SetIs ==
  ASSUME NEW trs, Traded(trs), NEW id \in Ids, NEW tr \in TradeType,
         tr = NoTrade \/ Sound(tr)
  PROVE  /\ Traded(SetTo(trs, id, tr))
         /\ Worth(SetTo(trs, id, tr)) = Worth(trs) + (Value(tr) - Value(trs[id]))
         /\ SetTo(trs, id, tr)[id] = tr
         /\ \A x \in Ids \ {id} : SetTo(trs, id, tr)[x] = trs[x]
  <1>1. trs \in [Ids -> TradeType]  BY DEF Traded
  <1>2. PICK new : new = SetTo(trs, id, tr)  OBVIOUS
  <1>3. new \in [Ids -> TradeType] /\ new[id] = tr /\ \A x \in Ids \ {id} : new[x] = trs[x]
    BY <1>1, <1>2 DEF SetTo
  <1>4. Traded(new)  BY <1>3 DEF Traded
  <1>5. PICK f : f = Values(trs)  OBVIOUS
  <1>6. PICK h : h = Values(new)  OBVIOUS
  <1>7. h[id] = Value(tr) /\ f[id] = Value(trs[id]) /\ \A y \in Ids \ {id} : h[y] = f[y]
    BY <1>3, <1>5, <1>6 DEF Values
  <1>8. Value(new[id]) \in Int  BY <1>4, SoundIs
  <1>9. h[id] \in Int  BY <1>3, <1>7, <1>8
  <1>10. Summable(f, Ids)  BY <1>5, WorthIs
  <1>11. SumOver(h, Ids) = SumOver(f, Ids) + (h[id] - f[id])
    BY <1>7, <1>9, <1>10, SumChange
  <1> QED  BY <1>2, <1>3, <1>4, <1>5, <1>6, <1>7, <1>11 DEF Worth

LEMMA SwapIs ==
  ASSUME NEW trs, Traded(trs), NEW id \in Ids, NEW tr, Sound(tr), trs[id] # NoTrade
  PROVE  /\ Traded(SetTo(trs, id, tr))
         /\ Worth(SetTo(trs, id, tr)) = Worth(trs) + (Value(tr) - Value(trs[id]))
         /\ SetTo(trs, id, tr)[id] = tr
         /\ \A x \in Ids \ {id} : SetTo(trs, id, tr)[x] = trs[x]
         /\ \A list, of, n : Listed(trs, list, of, n) => Listed(SetTo(trs, id, tr), list, of, n)
  <1>1. tr \in TradeType  BY DEF Sound
  <1>2. /\ Traded(SetTo(trs, id, tr))
        /\ Worth(SetTo(trs, id, tr)) = Worth(trs) + (Value(tr) - Value(trs[id]))
        /\ SetTo(trs, id, tr)[id] = tr
        /\ \A x \in Ids \ {id} : SetTo(trs, id, tr)[x] = trs[x]
    BY <1>1, SetIs
  <1>3. tr # NoTrade  BY NoTradeIs DEF Sound
  <1>4. \A x \in Ids : SetTo(trs, id, tr)[x] # NoTrade <=> trs[x] # NoTrade  BY <1>2, <1>3
  <1>5. \A list, of, n : Listed(trs, list, of, n) => Listed(SetTo(trs, id, tr), list, of, n)
    BY <1>4 DEF Listed
  <1> QED  BY <1>2, <1>5

LEMMA LenOf ==
  ASSUME NEW S, NEW list \in Seq(S), IsInjective(list)
  PROVE  IsFiniteSet(ToSet(list)) /\ Cardinality(ToSet(list)) = Len(list)
  <1>1. PICK n \in Nat : n = Len(list)  OBVIOUS
  <1>2. DOMAIN list = 1..n /\ list \in [1..n -> ToSet(list)]  BY <1>1 DEF ToSet
  <1>3. list \in Bijection(1..n, ToSet(list))
    BY <1>2 DEF Bijection, Injection, Surjection, ToSet
  <1>4. ExistsBijection(1..n, ToSet(list))  BY <1>3 DEF ExistsBijection
  <1> QED  BY <1>1, <1>4, FS_NatBijection, FS_CountingElements

LEMMA WithoutIs ==
  ASSUME NEW list \in Seq(Ids), IsInjective(list), NEW id \in ToSet(list)
  PROVE  LET new == Without(list, id)
         IN  /\ new \in Seq(Ids) /\ IsInjective(new) /\ ToSet(new) = ToSet(list) \ {id}
             /\ Len(new) = Len(list) - 1
  <1>1. PICK n \in Nat : n = Len(list)  OBVIOUS
  <1>2. DOMAIN list = 1..n  BY <1>1
  <1>3. PICK I \in SUBSET (1..Len(list)) : I = {i \in 1..n : list[i] # id}  BY <1>1
  <1>4. PICK new : new = Without(list, id)  OBVIOUS
  <1>5. new = Subsequence(list, I)  BY <1>2, <1>3, <1>4 DEF Without
  <1>6. new \in Seq(Ids) /\ ToSet(new) = {list[i] : i \in I}  BY <1>5, SubsequenceSet
  <1>7. IsInjective(new)
    <2>1. \A i, j \in I : list[i] = list[j] => i = j  BY <1>2, <1>3 DEF IsInjective
    <2> QED  BY <1>5, <2>1, SubsequenceDistinct
  <1>8. ToSet(new) = ToSet(list) \ {id}  BY <1>2, <1>3, <1>6 DEF ToSet
  <1>9. Len(new) = Len(list) - 1
    <2>1. IsFiniteSet(ToSet(list)) /\ Cardinality(ToSet(list)) = n  BY <1>1, LenOf
    <2>2. Cardinality(ToSet(list) \ {id}) = n - 1  BY <2>1, FS_RemoveElement
    <2>3. Cardinality(ToSet(new)) = Len(new)  BY <1>6, <1>7, LenOf
    <2> QED  BY <1>1, <1>8, <2>2, <2>3
  <1> QED  BY <1>4, <1>6, <1>7, <1>8, <1>9

LEMMA WithoutOnly == ASSUME NEW id \in Ids PROVE Without(<<id>>, id) = <<>>
  <1>1. <<id>> \in Seq(Ids) /\ Len(<<id>>) = 1 /\ <<id>>[1] = id /\ DOMAIN <<id>> = 1..1
    OBVIOUS
  <1>2. IsInjective(<<id>>) /\ id \in ToSet(<<id>>)  BY <1>1 DEF IsInjective, ToSet
  <1>3. Without(<<id>>, id) \in Seq(Ids) /\ Len(Without(<<id>>, id)) = 1 - 1
    BY <1>1, <1>2, WithoutIs
  <1> QED  BY <1>3

LEMMA ListedIs ==
  ASSUME NEW trs, Traded(trs), NEW list, NEW of, NEW n, Listed(trs, list, of, n),
         NEW p \in Pairs, of[p] # <<>>
  PROVE  \E id \in Ids : of[p] = <<id>> /\ Head(of[p]) = id /\ id \in ToSet(list)
                         /\ trs[id] # NoTrade /\ Sound(trs[id])
  <1>1. PICK id \in ToSet(list) : of[p] = <<id>>  BY DEF Listed
  <1>2. list \in Seq(Ids)  BY DEF Listed
  <1>3. id \in Ids  BY <1>1, <1>2 DEF ToSet
  <1>4. trs[id] # NoTrade  BY <1>1, <1>3 DEF Listed
  <1>5. Sound(trs[id])  BY <1>3, <1>4, SoundIs
  <1>6. Head(<<id>>) = id  OBVIOUS
  <1> QED  BY <1>1, <1>3, <1>4, <1>5, <1>6

LEMMA HeldIs ==
  ASSUME NEW trs, Traded(trs), NEW list, NEW of, NEW n, Listed(trs, list, of, n),
         NEW p \in Pairs, NEW id \in Ids, of[p] = <<id>>
  PROVE  Sound(trs[id])
  <1>1. <<id>> # <<>> /\ <<id>>[1] = id  OBVIOUS
  <1>2. of[p] # <<>>  BY <1>1
  <1>3. PICK x \in ToSet(list) : of[p] = <<x>>  BY <1>2 DEF Listed
  <1>4. <<x>>[1] = x  OBVIOUS
  <1>5. id \in ToSet(list)  BY <1>1, <1>3, <1>4
  <1>6. trs[id] # NoTrade  BY <1>5 DEF Listed
  <1> QED  BY <1>6, SoundIs

\* A trade leaves the lists.
Cut(of, p, id) == [of EXCEPT ![p] = Without(of[p], id)]

LEMMA UnlistIs ==
  ASSUME NEW trs, Traded(trs), NEW list, NEW of, NEW n, Listed(trs, list, of, n),
         NEW p \in Pairs, NEW id \in Ids, of[p] = <<id>>
  PROVE  /\ Traded(SetTo(trs, id, NoTrade))
         /\ Worth(SetTo(trs, id, NoTrade)) = Worth(trs) - Value(trs[id])
         /\ SetTo(trs, id, NoTrade)[id] = NoTrade
         /\ \A x \in Ids \ {id} : SetTo(trs, id, NoTrade)[x] = trs[x]
         /\ Cut(of, p, id)[p] = <<>>
         /\ Listed(SetTo(trs, id, NoTrade), Without(list, id), Cut(of, p, id), n - 1)
  <1>1. PICK new : new = SetTo(trs, id, NoTrade)  OBVIOUS
  <1>2. /\ Traded(new) /\ Worth(new) = Worth(trs) + (Value(NoTrade) - Value(trs[id]))
        /\ new[id] = NoTrade /\ \A x \in Ids \ {id} : new[x] = trs[x]
    BY <1>1, NoTradeIs, SetIs
  <1>3. Worth(new) = Worth(trs) - Value(trs[id])
    <2>1. Worth(trs) \in Int /\ Value(trs[id]) \in Int  BY WorthIs, SoundIs
    <2> QED  BY <1>2, <2>1, NoTradeIs
  <1>4. /\ list \in Seq(Ids) /\ IsInjective(list) /\ n = Len(list) /\ of \in [Pairs -> Seq(Ids)]
        /\ (MaxOpen > 0 => n <= MaxOpen)
    BY DEF Listed
  <1>5. \A x \in Ids : x \in ToSet(list) <=> trs[x] # NoTrade  BY DEF Listed
  <1>6. \A r \in Pairs : of[r] = <<>> \/ \E x \in ToSet(list) : of[r] = <<x>>  BY DEF Listed
  <1>7. \A x \in ToSet(list) : \E r \in Pairs : of[r] = <<x>>  BY DEF Listed
  <1>8. \A r, u \in Pairs : of[r] # <<>> /\ of[r] = of[u] => r = u  BY DEF Listed
  <1>9. id \in ToSet(list)
    <2>1. PICK x \in ToSet(list) : of[p] = <<x>>  BY <1>6
    <2> QED  BY <2>1
  <1>10. PICK less : less = Without(list, id)  OBVIOUS
  <1>11. /\ less \in Seq(Ids) /\ IsInjective(less) /\ ToSet(less) = ToSet(list) \ {id}
         /\ Len(less) = Len(list) - 1
    BY <1>4, <1>9, <1>10, WithoutIs
  <1>12. PICK cut : cut = Cut(of, p, id)  OBVIOUS
  <1>13. /\ cut \in [Pairs -> Seq(Ids)] /\ cut[p] = <<>>
         /\ \A r \in Pairs \ {p} : cut[r] = of[r]
    <2>1. Without(of[p], id) = <<>>  BY WithoutOnly
    <2>2. cut = [of EXCEPT ![p] = <<>>]  BY <1>12, <2>1 DEF Cut
    <2>3. <<>> \in Seq(Ids)  OBVIOUS
    <2> QED  BY <1>4, <2>2, <2>3
  <1>14. \A x \in Ids : x \in ToSet(less) <=> new[x] # NoTrade  BY <1>2, <1>5, <1>11
  <1>15. \A r \in Pairs : cut[r] = <<>> \/ \E x \in ToSet(less) : cut[r] = <<x>>
    <2> SUFFICES ASSUME NEW r \in Pairs, r # p, of[r] # <<>>
                 PROVE \E x \in ToSet(less) : of[r] = <<x>>
      BY <1>13
    <2>1. PICK x \in ToSet(list) : of[r] = <<x>>  BY <1>6
    <2>2. x # id  BY <1>8, <2>1
    <2> QED  BY <1>11, <2>1, <2>2
  <1>16. \A x \in ToSet(less) : \E r \in Pairs : cut[r] = <<x>>
    <2> SUFFICES ASSUME NEW x \in ToSet(less) PROVE \E r \in Pairs : cut[r] = <<x>>
      OBVIOUS
    <2>1. PICK r \in Pairs : of[r] = <<x>>  BY <1>7, <1>11
    <2>2. x # id  BY <1>11
    <2>3. r # p
      <3>1. <<x>>[1] = x /\ <<id>>[1] = id  OBVIOUS
      <3> QED  BY <2>1, <2>2, <3>1
    <2> QED  BY <1>13, <2>1, <2>3
  <1>17. \A r, u \in Pairs : cut[r] # <<>> /\ cut[r] = cut[u] => r = u  BY <1>8, <1>13
  <1>18. n - 1 = Len(less) /\ (MaxOpen > 0 => n - 1 <= MaxOpen)
    <2>1. n \in Nat /\ MaxOpen \in Nat  BY <1>4, MoneyAssumption
    <2> QED  BY <1>4, <1>11, <2>1
  <1>19. Listed(new, less, cut, n - 1)
    BY <1>11, <1>13, <1>14, <1>15, <1>16, <1>17, <1>18 DEF Listed
  <1> QED  BY <1>1, <1>2, <1>3, <1>10, <1>12, <1>13, <1>19

\* A trade enters them.
Add(of, p, id) == [of EXCEPT ![p] = Append(of[p], id)]

LEMMA EnlistIs ==
  ASSUME NEW trs, Traded(trs), NEW list, NEW of, NEW n, Listed(trs, list, of, n),
         NEW p \in Pairs, of[p] = <<>>, NEW id \in Ids, trs[id] = NoTrade,
         NEW tr, Sound(tr), MaxOpen = 0 \/ n < MaxOpen
  PROVE  /\ Traded(SetTo(trs, id, tr))
         /\ Worth(SetTo(trs, id, tr)) = Worth(trs) + Value(tr)
         /\ SetTo(trs, id, tr)[id] = tr
         /\ \A x \in Ids \ {id} : SetTo(trs, id, tr)[x] = trs[x]
         /\ Add(of, p, id)[p] = <<id>>
         /\ Listed(SetTo(trs, id, tr), Append(list, id), Add(of, p, id), n + 1)
  <1>1. PICK new : new = SetTo(trs, id, tr)  OBVIOUS
  <1>2. /\ Traded(new) /\ Worth(new) = Worth(trs) + (Value(tr) - Value(trs[id]))
        /\ new[id] = tr /\ \A x \in Ids \ {id} : new[x] = trs[x]
    <2>1. tr \in TradeType  BY DEF Sound
    <2> QED  BY <1>1, <2>1, SetIs
  <1>3. Worth(new) = Worth(trs) + Value(tr)
    <2>1. Worth(trs) \in Int /\ Value(new[id]) \in Int  BY <1>2, WorthIs, SoundIs
    <2>2. Value(tr) \in Int /\ Value(trs[id]) = 0  BY <1>2, <2>1, NoTradeIs
    <2> QED  BY <1>2, <2>1, <2>2
  <1>4. /\ list \in Seq(Ids) /\ IsInjective(list) /\ n = Len(list) /\ of \in [Pairs -> Seq(Ids)]
        /\ (MaxOpen > 0 => n <= MaxOpen)
    BY DEF Listed
  <1>5. \A x \in Ids : x \in ToSet(list) <=> trs[x] # NoTrade  BY DEF Listed
  <1>6. \A r \in Pairs : of[r] = <<>> \/ \E x \in ToSet(list) : of[r] = <<x>>  BY DEF Listed
  <1>7. \A x \in ToSet(list) : \E r \in Pairs : of[r] = <<x>>  BY DEF Listed
  <1>8. \A r, u \in Pairs : of[r] # <<>> /\ of[r] = of[u] => r = u  BY DEF Listed
  <1>9. id \notin ToSet(list) /\ tr # NoTrade  BY <1>5, NoTradeIs DEF Sound
  <1>10. PICK more : more = Append(list, id)  OBVIOUS
  <1>11. PICK len \in Nat : len = Len(list)  BY <1>4
  <1>12. /\ more \in Seq(Ids) /\ Len(more) = len + 1 /\ more[len + 1] = id
         /\ DOMAIN more = 1..len + 1 /\ DOMAIN list = 1..len
         /\ \A i \in 1..len : more[i] = list[i]
    BY <1>4, <1>10, <1>11
  <1>13. \A i \in 1..len + 1 : i = len + 1 \/ i \in 1..len  OBVIOUS
  <1>14. 1..len \subseteq 1..len + 1 /\ len + 1 \in 1..len + 1  OBVIOUS
  <1>15. ToSet(more) = ToSet(list) \union {id}  BY <1>12, <1>13, <1>14 DEF ToSet
  <1>16. IsInjective(more)
    <2>1. \A i \in 1..len : list[i] # id  BY <1>9, <1>12 DEF ToSet
    <2>2. \A i, j \in 1..len : list[i] = list[j] => i = j  BY <1>4, <1>12 DEF IsInjective
    <2>3. \A i, j \in 1..len + 1 : more[i] = more[j] => i = j
      BY <1>12, <1>13, <2>1, <2>2
    <2> QED  BY <1>12, <2>3 DEF IsInjective
  <1>17. PICK add : add = Add(of, p, id)  OBVIOUS
  <1>18. /\ add \in [Pairs -> Seq(Ids)] /\ add[p] = <<id>>
         /\ \A r \in Pairs \ {p} : add[r] = of[r]
    <2>1. Append(of[p], id) = <<id>> /\ <<id>> \in Seq(Ids)  OBVIOUS
    <2>2. add = [of EXCEPT ![p] = <<id>>]  BY <1>17, <2>1 DEF Add
    <2> QED  BY <1>4, <2>1, <2>2
  <1>19. \A x \in Ids : x \in ToSet(more) <=> new[x] # NoTrade  BY <1>2, <1>5, <1>9, <1>15
  <1>20. \A r \in Pairs : add[r] = <<>> \/ \E x \in ToSet(more) : add[r] = <<x>>
    BY <1>6, <1>15, <1>18
  <1>21. \A x \in ToSet(more) : \E r \in Pairs : add[r] = <<x>>
    <2> SUFFICES ASSUME NEW x \in ToSet(more) PROVE \E r \in Pairs : add[r] = <<x>>
      OBVIOUS
    <2>1. CASE x = id  BY <1>18, <2>1
    <2>2. CASE x \in ToSet(list)
      <3>1. PICK r \in Pairs : of[r] = <<x>>  BY <1>7, <2>2
      <3>2. r # p
        <4>1. <<x>> # <<>>  OBVIOUS
        <4> QED  BY <3>1, <4>1
      <3> QED  BY <1>18, <3>1, <3>2
    <2> QED  BY <1>15, <2>1, <2>2
  <1>22. \A r, u \in Pairs : add[r] # <<>> /\ add[r] = add[u] => r = u
    <2>1. \A r \in Pairs \ {p} : add[r] # <<id>>
      <3> SUFFICES ASSUME NEW r \in Pairs, r # p, of[r] = <<id>> PROVE FALSE  BY <1>18
      <3>1. <<id>> # <<>>  OBVIOUS
      <3>2. PICK x \in ToSet(list) : of[r] = <<x>>  BY <1>6, <3>1
      <3>3. <<x>>[1] = x /\ <<id>>[1] = id  OBVIOUS
      <3> QED  BY <1>9, <3>2, <3>3
    <2> QED  BY <1>8, <1>18, <2>1
  <1>23. n + 1 = Len(more) /\ (MaxOpen > 0 => n + 1 <= MaxOpen)
    <2>1. n \in Nat /\ MaxOpen \in Nat  BY <1>4, MoneyAssumption
    <2> QED  BY <1>4, <1>11, <1>12, <2>1
  <1>24. Listed(new, more, add, n + 1)
    BY <1>12, <1>16, <1>18, <1>19, <1>20, <1>21, <1>22, <1>23 DEF Listed
  <1> QED  BY <1>1, <1>2, <1>3, <1>10, <1>17, <1>18, <1>24

\* A pair without a trade leaves an id without one.
LEMMA FreeIdIs ==
  ASSUME NEW trs, Traded(trs), NEW list, NEW of, NEW n, Listed(trs, list, of, n),
         NEW p \in Pairs, of[p] = <<>>
  PROVE  \E id \in Ids : trs[id] = NoTrade
  <1>1. SUFFICES ASSUME \A id \in Ids : trs[id] # NoTrade PROVE FALSE  OBVIOUS
  <1>2. \A id \in Ids : id \in ToSet(list)  BY <1>1 DEF Listed
  <1>3. \A id \in Ids : \E r \in Pairs : of[r] = <<id>>  BY <1>2 DEF Listed
  <1>4. \A id \in Ids : <<id>> # <<>> /\ <<id>>[1] = id  OBVIOUS
  <1> DEFINE f == [id \in Ids |-> CHOOSE r \in Pairs : of[r] = <<id>>]
  <1>5. \A id \in Ids : f[id] \in Pairs /\ of[f[id]] = <<id>>  BY <1>3
  <1>6. \A id \in Ids : f[id] \in Pairs \ {p}  BY <1>4, <1>5
  <1>7. f \in [Ids -> Pairs \ {p}]  BY <1>6
  <1>8. DOMAIN f = Ids  OBVIOUS
  <1> HIDE DEF f
  <1>9. \A i, j \in Ids : f[i] = f[j] => i = j  BY <1>4, <1>5
  <1>10. f \in Injection(Ids, Pairs \ {p})  BY <1>7, <1>8, <1>9 DEF Injection, IsInjective
  <1>11. IsFiniteSet(Pairs) /\ Cardinality(Pairs) \in Nat
    BY CandlesAssumption, FS_CardinalityType
  <1>12. IsFiniteSet(Pairs \ {p}) /\ Cardinality(Pairs \ {p}) = Cardinality(Pairs) - 1
    BY <1>11, FS_RemoveElement
  <1>13. Cardinality(Ids) <= Cardinality(Pairs \ {p})  BY <1>10, <1>12, FS_Injection
  <1> QED  BY <1>11, <1>12, <1>13, IdsAre

\* All trades a candle later.
LEMMA AgeIs ==
  ASSUME NEW trs, Traded(trs), NEW new, new = [id \in Ids |-> Older(trs[id])]
  PROVE  /\ Traded(new) /\ Worth(new) = Worth(trs)
         /\ \A id \in Ids : new[id].dir = trs[id].dir /\ new[id].stop = trs[id].stop
                            /\ new[id].amount = trs[id].amount
         /\ \A list, of, n : Listed(trs, list, of, n) => Listed(new, list, of, n)
  <1>1. \A id \in Ids : new[id] = Older(trs[id])  OBVIOUS
  <1>2. ASSUME NEW id \in Ids
        PROVE  /\ Older(trs[id]) \in TradeType /\ Older(trs[id]).dir = trs[id].dir
               /\ Older(trs[id]).stop = trs[id].stop /\ Older(trs[id]).amount = trs[id].amount
               /\ Value(Older(trs[id])) = Value(trs[id])
               /\ (trs[id] = NoTrade => Older(trs[id]) = NoTrade)
               /\ (trs[id] # NoTrade => Sound(Older(trs[id])) /\ Older(trs[id]) # NoTrade)
    <2>1. CASE trs[id] = NoTrade  BY <2>1, OlderNone, SoundIs
    <2>2. CASE trs[id] # NoTrade
      <3>1. Sound(trs[id]) /\ trs[id] \in TradeType  BY <2>2, SoundIs
      <3>2. PICK base : Rests(trs[id], base)  BY <3>1 DEF Sound
      <3>3. PICK old : old = Older(trs[id])  OBVIOUS
      <3>4. /\ old \in TradeType /\ old.dir = trs[id].dir /\ old.amount = trs[id].amount
            /\ old.stop = trs[id].stop /\ Rests(old, Aged(base)) /\ Value(old) = Value(trs[id])
        BY <3>1, <3>2, <3>3, OlderIs
      <3>5. Sound(old)  BY <3>1, <3>4 DEF Sound
      <3>6. old # NoTrade  BY <3>5, NoTradeIs DEF Sound
      <3> QED  BY <2>2, <3>3, <3>4, <3>5, <3>6
    <2> QED  BY <2>1, <2>2
  <1>3. new \in [Ids -> TradeType]  BY <1>2
  <1>4. \A id \in Ids : new[id] = NoTrade \/ Sound(new[id])  BY <1>1, <1>2
  <1>5. Traded(new)  BY <1>3, <1>4 DEF Traded
  <1>6. Worth(new) = Worth(trs)
    <2>1. PICK f : f = Values(trs)  OBVIOUS
    <2>2. PICK h : h = Values(new)  OBVIOUS
    <2>3. \A id \in Ids : f[id] = h[id]  BY <1>1, <1>2, <2>1, <2>2 DEF Values
    <2>4. Summable(f, Ids)  BY <2>1, WorthIs
    <2>5. SumOver(f, Ids) = SumOver(h, Ids)  BY <2>3, <2>4, SumCongruence
    <2> QED  BY <2>1, <2>2, <2>5 DEF Worth
  <1>7. \A id \in Ids : new[id] # NoTrade <=> trs[id] # NoTrade  BY <1>1, <1>2
  <1>8. \A list, of, n : Listed(trs, list, of, n) => Listed(new, list, of, n)
    BY <1>7 DEF Listed
  <1> QED  BY <1>1, <1>2, <1>5, <1>6, <1>8

\* What the wallet says is an amount of money, and all of it without a trade.
LEMMA FreeIs ==
  ASSUME NEW trs, Traded(trs), NEW list \in Seq(Ids), NEW total \in Int
  PROVE  Free(trs, list, total) \in Int /\ (list = <<>> => Free(trs, list, total) = Start + total)
  <1> DEFINE S == ToSet(list)
             f == [id \in Ids |-> trs[id].real - trs[id].stake]
             Eq(g) == g = [T \in SUBSET S |->
               IF T = {} THEN 0
               ELSE LET x == CHOOSE x \in T : TRUE
                    IN  (trs[x].real - trs[x].stake) + g[T \ {x}]]
  <1>1. S \subseteq Ids  BY DEF ToSet
  <1>2. \A id \in Ids : f[id] = trs[id].real - trs[id].stake /\ f[id] \in Int
    <2> SUFFICES ASSUME NEW id \in Ids
                 PROVE f[id] = trs[id].real - trs[id].stake /\ f[id] \in Int
      OBVIOUS
    <2>1. trs[id] \in TradeType  BY SoundIs
    <2> QED  BY <2>1 DEF TradeType
  <1> HIDE DEF f
  <1>3. IsFiniteSet(S)  BY <1>1, IdsAre, FS_Subset
  <1>4. Summable(f, S)  BY <1>1, <1>2, <1>3 DEF Summable
  <1>5. \A g : Eq(g) <=> Adds(g, f, S)
    <2>1. \A T \in SUBSET S : T # {} => Pick(T) \in Ids  BY <1>1 DEF Pick
    <2>2. \A T \in SUBSET S : T # {} =>
             f[Pick(T)] = trs[CHOOSE x \in T : TRUE].real - trs[CHOOSE x \in T : TRUE].stake
      BY <1>2, <2>1 DEF Pick
    <2> HIDE DEF S
    <2> QED  BY <2>2 DEF Adds, Pick
  <1>6. \E g : Eq(g)
    <2> HIDE DEF Eq
    <2> QED  BY <1>4, <1>5, SumExists
  <1>7. Adds(CHOOSE g : Eq(g), f, S)  BY <1>5, <1>6
  <1>8. MapThenSumSet(LAMBDA id : trs[id].real - trs[id].stake, S) = (CHOOSE g : Eq(g))[S]
    BY DEF MapThenSumSet, MapThenFoldSet
  <1> HIDE DEF Eq
  <1>9. MapThenSumSet(LAMBDA id : trs[id].real - trs[id].stake, S) = SumOver(f, S)
    BY <1>4, <1>7, <1>8, SumIs
  <1>10. Free(trs, list, total) = Start + total + SumOver(f, S)  BY <1>9 DEF Free
  <1>11. SumOver(f, S) \in Int /\ Start \in Int  BY <1>4, SumType, MoneyAssumption
  <1>12. list = <<>> => S = {}  BY DEF ToSet
  <1>13. list = <<>> => SumOver(f, S) = 0  BY <1>12, SumEmpty
  <1> QED  BY <1>10, <1>11, <1>13

LEMMA PairOfIs ==
  ASSUME NEW trs, Listed(trs, open, pp, count), NEW id \in ToSet(open)
  PROVE  PairOf(id) \in Pairs /\ pp[PairOf(id)] = <<id>>
  <1>1. PICK p \in Pairs : pp[p] = <<id>>  BY DEF Listed
  <1>2. Len(<<id>>) = 1 /\ <<id>>[1] = id  OBVIOUS
  <1>3. Contains(pp[p], id)  BY <1>1, <1>2 DEF Contains
  <1>4. PairOf(id) \in Pairs /\ Contains(pp[PairOf(id)], id)  BY <1>3 DEF PairOf
  <1>5. PICK r \in Pairs : r = PairOf(id)  BY <1>4
  <1>6. pp[r] # <<>>
    <2>1. Len(<<>>) = 0  OBVIOUS
    <2> QED  BY <1>4, <1>5, <2>1 DEF Contains
  <1>7. PICK x \in ToSet(open) : pp[r] = <<x>>  BY <1>6 DEF Listed
  <1>8. x = id
    <2>1. Len(<<x>>) = 1 /\ <<x>>[1] = x /\ \A i \in 1..1 : i = 1  OBVIOUS
    <2> QED  BY <1>4, <1>5, <1>7, <2>1 DEF Contains
  <1> QED  BY <1>5, <1>7, <1>8

LEMMA PairOrderIs == PairOrder \in Seq(Pairs)
  <1>1. PICK n \in Nat : n = Cardinality(Pairs)
    <2>1. Cardinality(Pairs) \in Nat  BY CandlesAssumption, FS_CardinalityType
    <2> QED  BY <2>1
  <1>2. ExistsBijection(1..n, Pairs)
    <2>1. PICK m \in Nat : ExistsBijection(1..m, Pairs)  BY CandlesAssumption, FS_NatBijection
    <2>2. m = n  BY <1>1, <2>1, FS_CountingElements
    <2> QED  BY <2>1, <2>2
  <1>3. PICK f : f \in Bijection(1..n, Pairs)  BY <1>2 DEF ExistsBijection
  <1>4. f \in [1..n -> Pairs] /\ \A i, j \in 1..n : i # j => f[i] # f[j]
    BY <1>3 DEF Bijection, Injection, IsInjective
  <1>5. f \in SetToSeqs(Pairs)  BY <1>1, <1>4 DEF SetToSeqs
  <1>6. PairOrder \in SetToSeqs(Pairs)  BY <1>5 DEF PairOrder
  <1>7. PairOrder \in [1..n -> Pairs]  BY <1>1, <1>6 DEF SetToSeqs
  <1> QED  BY <1>1, <1>7

\* The queue of a tick holds pairs.
LEMMA PairQueueIs ==
  ASSUME NEW trs, Listed(trs, open, pp, count)
  PROVE  PairQueue \in Seq(Pairs)
  <1>1. open \in Seq(Ids)  BY DEF Listed
  <1>2. PICK n \in Nat : n = Len(open)  BY <1>1
  <1>3. DOMAIN open = 1..n  BY <1>1, <1>2
  <1>4. PICK held : held = [i \in DOMAIN open |-> PairOf(open[i])]  OBVIOUS
  <1>5. \A i \in 1..n : PairOf(open[i]) \in Pairs
    <2> SUFFICES ASSUME NEW i \in 1..n PROVE PairOf(open[i]) \in Pairs  OBVIOUS
    <2>1. open[i] \in ToSet(open)  BY <1>3 DEF ToSet
    <2> QED  BY <2>1, PairOfIs
  <1>6. held \in Seq(Pairs)
    <2>1. held \in [1..n -> Pairs]  BY <1>3, <1>4, <1>5
    <2> QED  BY <1>2, <2>1
  <1>7. PICK all : all = held \o PairOrder  OBVIOUS
  <1>8. all \in Seq(Pairs)  BY <1>6, <1>7, PairOrderIs
  <1>9. PICK I : I = {i \in DOMAIN all : \A j \in 1..i - 1 : all[j] # all[i]}  OBVIOUS
  <1>10. Subsequence(all, I) \in Seq(Pairs)
    <2>1. I \subseteq DOMAIN all  BY <1>9
    <2>2. I \in SUBSET (1..Len(all))  BY <1>8, <2>1
    <2> QED  BY <1>8, <2>2, SubsequenceSet
  <1> QED  BY <1>4, <1>7, <1>9, <1>10 DEF PairQueue

-----------------------------------------------------------------------------
(* The inductive invariant *)

\* Where a step of the loop finds the clock, its own variables and the trades.
ClockOK ==
  /\ t \in 1..Candles + 1 /\ d \in Ticks /\ queue \in Seq(Pairs)
  /\ withOpen \subseteq Pairs /\ sigOf \in [Pairs -> Dirs \union {None}]
  /\ detailed \subseteq Pairs
LoopOK ==
  /\ pc \in Parts /\ row \in Rows \union {NoRow}
  /\ sig \in Dirs \union {None} /\ pass \in {1, 2} /\ exiting \in Dirs \union {None}
  /\ kind \in {None, "partial_exit", "signal", "roi", "stop"}
Control ==
  /\ pc \notin {"pick", "left", "done"} => queue # <<>> /\ row \in Rows
  /\ pc \in {"adjust", "partial", "exit"} => Mine # <<>> /\ Tr.amount > 0
  /\ pc = "process" => Mine # <<>>
  /\ pc = "done" => open = <<>> /\ free = Start + profit
\* Every trade rests on its orders, the lists hold the trades, and what was paid and
\* received is the profit of the closed trades and the worth of the others.
BInv ==
  /\ Traded(trade) /\ Listed(trade, open, pp, count)
  /\ profit \in Int /\ flow = profit + Worth(trade)
  /\ free \in Int /\ ClockOK /\ LoopOK /\ Control

Walks ==
  \A id \in Ids :
     Entries(trade[id]) > 0 /\ trade'[id].dir = trade[id].dir =>
       Walked(trade[id], trade'[id])
\* What a step does to the trades, the lists and the money.
Moves ==
  /\ Traded(trade') /\ Listed(trade', open', pp', count')
  /\ profit' \in Int /\ flow' = profit' + Worth(trade') /\ Walks

\* A trade that keeps its direction and its stop has walked.
LEMMA StillWalks ==
  ASSUME NEW a \in TradeType, NEW b, b.stop = a.stop
  PROVE  Walked(a, b)
  BY StaysPut DEF Walked

LEMMA StillMoves ==
  ASSUME BInv, UNCHANGED <<trade, lists, profit, flow>>
  PROVE  Moves
  <1>1. /\ trade' = trade /\ open' = open /\ pp' = pp /\ count' = count
        /\ profit' = profit /\ flow' = flow
    BY DEF lists
  <1>2. \A id \in Ids : trade[id] \in TradeType  BY SoundIs DEF BInv
  <1>3. Walks  BY <1>1, <1>2, StillWalks DEF Walks
  <1> QED  BY <1>1, <1>3 DEF Moves, BInv

LEMMA AgeMoves ==
  ASSUME BInv, trade' = [id \in Ids |-> Older(trade[id])], UNCHANGED <<lists, profit, flow>>
  PROVE  Moves
  <1>1. /\ open' = open /\ pp' = pp /\ count' = count /\ profit' = profit /\ flow' = flow
    BY DEF lists
  <1>2. PICK new : new = trade'  OBVIOUS
  <1>3. /\ Traded(new) /\ Worth(new) = Worth(trade)
        /\ \A id \in Ids : new[id].dir = trade[id].dir /\ new[id].stop = trade[id].stop
        /\ \A list, of, n : Listed(trade, list, of, n) => Listed(new, list, of, n)
    BY <1>2, AgeIs DEF BInv
  <1>4. \A id \in Ids : trade[id] \in TradeType  BY SoundIs DEF BInv
  <1>5. Walks  BY <1>2, <1>3, <1>4, StillWalks DEF Walks
  <1>6. Listed(new, open, pp, count)  BY <1>3 DEF BInv
  <1> QED  BY <1>1, <1>2, <1>3, <1>5, <1>6 DEF Moves, BInv

LEMMA SwapMoves ==
  ASSUME BInv, NEW id \in Ids, Sound(trade[id]), NEW tr, Sound(tr),
         trade' = [trade EXCEPT ![id] = tr], UNCHANGED <<lists, profit>>,
         flow' = flow + (Value(tr) - Value(trade[id])),
         NEW base, Rests(trade[id], base), trade[id].amount > 0 => Goes(trade[id], base, tr)
  PROVE  Moves
  <1>1. open' = open /\ pp' = pp /\ count' = count /\ profit' = profit  BY DEF lists
  <1>2. trade' = SetTo(trade, id, tr)  BY DEF SetTo
  <1>3. Traded(trade) /\ trade[id] # NoTrade  BY SoundIs DEF BInv
  <1>4. PICK new : new = SetTo(trade, id, tr)  OBVIOUS
  <1>5. /\ Traded(new) /\ Worth(new) = Worth(trade) + (Value(tr) - Value(trade[id]))
        /\ new[id] = tr /\ (\A x \in Ids \ {id} : new[x] = trade[x])
        /\ \A list, of, n : Listed(trade, list, of, n) => Listed(new, list, of, n)
    BY <1>3, <1>4, SwapIs
  <1>6. \A x \in Ids : trade[x] \in TradeType  BY <1>3, SoundIs
  <1>7. Walks
    <2>1. Entries(trade[id]) > 0 => Walked(trade[id], tr)  BY GoesWalks
    <2> QED  BY <1>2, <1>4, <1>5, <1>6, <2>1, StillWalks DEF Walks
  <1>8. flow' = profit' + Worth(new)
    <2>1. profit \in Int /\ flow = profit + Worth(trade)  BY DEF BInv
    <2>2. Worth(trade) \in Int /\ Value(trade[id]) \in Int /\ Value(new[id]) \in Int
      BY <1>3, <1>5, WorthIs, SoundIs
    <2> QED  BY <1>1, <1>5, <2>1, <2>2
  <1>9. Listed(new, open, pp, count)  BY <1>5 DEF BInv
  <1>10. profit' \in Int  BY <1>1 DEF BInv
  <1> QED  BY <1>1, <1>2, <1>4, <1>5, <1>7, <1>8, <1>9, <1>10 DEF Moves

LEMMA OutMoves ==
  ASSUME BInv, NEW p \in Pairs, NEW id \in Ids, pp[p] = <<id>>, Unlist(p, id),
         profit' \in Int, flow' = profit' + (flow - profit - Value(trade[id]))
  PROVE  Moves /\ pp'[p] = <<>>
  <1>1. /\ trade' = SetTo(trade, id, NoTrade) /\ open' = Without(open, id)
        /\ pp' = Cut(pp, p, id) /\ count' = count - 1
    BY DEF Unlist, SetTo, Cut
  <1>2. Traded(trade) /\ Listed(trade, open, pp, count)  BY DEF BInv
  <1>3. PICK new : new = SetTo(trade, id, NoTrade)  OBVIOUS
  <1>4. /\ Traded(new) /\ Worth(new) = Worth(trade) - Value(trade[id])
        /\ new[id] = NoTrade /\ (\A x \in Ids \ {id} : new[x] = trade[x])
        /\ Cut(pp, p, id)[p] = <<>>
        /\ Listed(new, Without(open, id), Cut(pp, p, id), count - 1)
    BY <1>2, <1>3, UnlistIs
  <1>5. \A x \in Ids : trade[x] \in TradeType  BY <1>2, SoundIs
  <1>6. trade[id].dir # "none"
    <2>1. Sound(trade[id])  BY <1>2, HeldIs
    <2> QED  BY <2>1, NoTradeIs DEF Sound
  <1>7. Walks
    <2>1. NoTrade.dir = "none"  BY NoTradeIs
    <2> QED  BY <1>1, <1>3, <1>4, <1>5, <1>6, <2>1, StillWalks DEF Walks
  <1>8. flow' = profit' + Worth(new)
    <2>1. profit \in Int /\ flow = profit + Worth(trade)  BY DEF BInv
    <2>2. Worth(trade) \in Int /\ Value(trade[id]) \in Int  BY <1>2, WorthIs, SoundIs
    <2> QED  BY <1>4, <2>1, <2>2
  <1> QED  BY <1>1, <1>3, <1>4, <1>7, <1>8 DEF Moves

\* The trade of the pair at hand.
LEMMA MineIs ==
  ASSUME BInv, queue # <<>>, Mine # <<>>
  PROVE  /\ Pair \in Pairs /\ Id \in Ids /\ pp[Pair] = <<Id>> /\ Sound(Tr)
         /\ Tr \in TradeType /\ \E base : Rests(Tr, base)
  <1>1. Pair \in Pairs  BY DEF BInv, ClockOK, Pair
  <1>2. PICK id \in Ids : /\ pp[Pair] = <<id>> /\ Head(pp[Pair]) = id
                          /\ Sound(trade[id])
    BY <1>1, ListedIs DEF BInv, Mine
  <1>3. id = Id  BY <1>2 DEF Id, Mine
  <1> QED  BY <1>1, <1>2, <1>3 DEF Tr, Sound

LEMMA FreeTyped ==
  ASSUME Moves, UpdateWallets
  PROVE  free' \in Int /\ (open' = <<>> => free' = Start + profit')
  <1>1. open' \in Seq(Ids)  BY DEF Moves, Listed
  <1> QED  BY <1>1, FreeIs DEF Moves, UpdateWallets

LEMMA StepIs ==
  ASSUME Moves, free' \in Int, ClockOK', LoopOK', Control'
  PROVE  BInv' /\ Walks
  BY DEF BInv, Moves

-----------------------------------------------------------------------------
(* The first state, and the steps that only move on *)

LEMMA InitHolds == ASSUME Init PROVE BInv
  <1>1. /\ trade = [id \in Ids |-> NoTrade] /\ open = <<>> /\ pp = [p \in Pairs |-> <<>>]
        /\ count = 0 /\ profit = 0 /\ free = Start /\ flow = 0
    BY DEF Init
  <1>2. Traded(trade)  BY <1>1, NoTradeIs DEF Traded
  <1>3. Listed(trade, open, pp, count)
    <2>1. <<>> \in Seq(Ids) /\ IsInjective(<<>>) /\ Len(<<>>) = 0 /\ ToSet(<<>>) = {}
      BY DEF IsInjective, ToSet
    <2>2. MaxOpen \in Nat  BY MoneyAssumption
    <2> QED  BY <1>1, <2>1, <2>2 DEF Listed
  <1>4. Worth(trade) = 0
    <2>1. PICK f : f = Values(trade)  OBVIOUS
    <2>2. \A id \in Ids : f[id] = 0  BY <1>1, <2>1, NoTradeIs DEF Values
    <2>3. Summable(f, {})  BY FS_EmptySet DEF Summable
    <2>4. Summable(f, Ids)  BY <1>2, <2>1, WorthIs
    <2>5. SumOver(f, Ids) = SumOver(f, {})  BY <2>2, <2>3, <2>4, SumPadded
    <2> QED  BY <2>1, <2>5, SumEmpty DEF Worth
  <1>5. free \in Int /\ profit \in Int /\ flow = profit + Worth(trade)
    BY <1>1, <1>4, MoneyAssumption
  <1>6. ClockOK
    <2>1. /\ t = 1 /\ d = 0 /\ queue = PairQueue /\ withOpen = {} /\ detailed = {}
          /\ sigOf = [p \in Pairs |-> None]
      BY DEF Init
    <2>2. queue \in Seq(Pairs)  BY <1>3, <2>1, PairQueueIs
    <2>3. 1 \in 1..Candles + 1 /\ 0 \in Ticks  BY CandlesAssumption DEF Ticks
    <2> QED  BY <2>1, <2>2, <2>3 DEF ClockOK
  <1>7. LoopOK /\ Control  BY DEF Init, LoopOK, Control, Parts
  <1> QED  BY <1>2, <1>3, <1>5, <1>6, <1>7 DEF BInv

LEMMA NextTickStep == ASSUME BInv, NextTick PROVE BInv' /\ Walks
  <1>1. /\ pc = "pick" /\ queue = <<>> /\ t <= Candles
        /\ trade' = [id \in Ids |-> Older(trade[id])]
        /\ UNCHANGED lists /\ UNCHANGED money /\ UNCHANGED loop /\ kind' = kind
    BY DEF NextTick
  <1>2. /\ open' = open /\ pp' = pp /\ count' = count /\ profit' = profit /\ free' = free
        /\ flow' = flow
    BY <1>1 DEF lists, money
  <1>3. row' = row /\ sig' = sig /\ pass' = pass /\ exiting' = exiting  BY <1>1 DEF loop
  <1>4. Moves  BY <1>1, <1>2, AgeMoves DEF lists
  <1>5. /\ t' \in 1..Candles + 1 /\ d' \in Ticks /\ withOpen' \subseteq Pairs
        /\ sigOf' \in [Pairs -> Dirs \union {None}] /\ detailed' \subseteq Pairs
    <2>1. t \in 1..Candles + 1 /\ t <= Candles /\ Candles \in Nat /\ d \in Ticks
          /\ Details \in Nat \ {0}
      BY <1>1, CandlesAssumption DEF BInv, ClockOK
    <2>2. CASE d + 1 < Details /\ detailed # {}
      <3>1. /\ d' = d + 1 /\ t' = t /\ withOpen' = withOpen /\ sigOf' = sigOf
            /\ detailed' = detailed
        BY <2>2 DEF NextTick
      <3>2. d + 1 \in Ticks  BY <2>1, <2>2 DEF Ticks
      <3> QED  BY <2>1, <3>1, <3>2 DEF BInv, ClockOK
    <2>3. CASE ~(d + 1 < Details /\ detailed # {})
      <3>1. /\ t' = t + 1 /\ d' = 0 /\ withOpen' = Holding
            /\ sigOf' = [p \in Pairs |-> None] /\ detailed' = {}
        BY <2>3 DEF NextTick
      <3>2. t + 1 \in 1..Candles + 1 /\ 0 \in Ticks  BY <2>1 DEF Ticks
      <3> QED  BY <3>1, <3>2 DEF Holding
    <2> QED  BY <2>2, <2>3
  <1>6. queue' \in Seq(Pairs)
    <2>1. PairQueue \in Seq(Pairs)  BY PairQueueIs DEF BInv
    <2>2. <<>> \in Seq(Pairs)  OBVIOUS
    <2>3. queue' = IF t' <= Candles THEN PairQueue ELSE <<>>  BY DEF NextTick
    <2> QED  BY <2>1, <2>2, <2>3
  <1>7. ClockOK'  BY <1>5, <1>6 DEF ClockOK
  <1>8. pc' \in {"pick", "left"}  BY DEF NextTick, Goto
  <1>9. LoopOK'  BY <1>1, <1>3, <1>8 DEF LoopOK, Parts, BInv
  <1>10. Control'  BY <1>8 DEF Control
  <1>11. free' \in Int  BY <1>2 DEF BInv
  <1> QED  BY <1>4, <1>7, <1>9, <1>10, <1>11, StepIs

LEMMA SkipPairStep == ASSUME BInv, SkipPair PROVE BInv' /\ Walks
  <1>1. /\ pc = "pick" /\ queue # <<>> /\ queue' = Tail(queue) /\ UNCHANGED trade
        /\ UNCHANGED lists /\ UNCHANGED money /\ t' = t /\ d' = d /\ withOpen' = withOpen
        /\ sigOf' = sigOf /\ detailed' = detailed /\ pc' = pc /\ UNCHANGED loop /\ kind' = kind
    BY DEF SkipPair
  <1>2. free' = free /\ profit' = profit /\ flow' = flow  BY <1>1 DEF money
  <1>3. row' = row /\ sig' = sig /\ pass' = pass /\ exiting' = exiting  BY <1>1 DEF loop
  <1>4. Moves  BY <1>1, <1>2, StillMoves DEF lists
  <1>5. queue \in Seq(Pairs)  BY DEF BInv, ClockOK
  <1>6. queue' \in Seq(Pairs)  BY <1>1, <1>5
  <1>7. ClockOK'  BY <1>1, <1>6 DEF ClockOK, BInv
  <1>8. LoopOK'  BY <1>1, <1>3 DEF LoopOK, BInv
  <1>9. Control'  BY <1>1 DEF Control
  <1>10. free' \in Int  BY <1>2 DEF BInv
  <1> QED  BY <1>4, <1>7, <1>8, <1>9, <1>10, StepIs

LEMMA StartLoopStep ==
  ASSUME BInv, NEW dir \in Dirs \union {None}, NEW r \in Rows, queue # <<>>,
         StartLoop(dir, r), sigOf' \in [Pairs -> Dirs \union {None}], detailed' \subseteq Pairs
  PROVE  BInv' /\ Walks
  <1>1. /\ row' = r /\ sig' = dir /\ pass' = 1 /\ pc' = "manage"
        /\ UNCHANGED trade /\ UNCHANGED lists /\ UNCHANGED money /\ t' = t /\ d' = d
        /\ queue' = queue /\ kind' = kind
        /\ exiting' = (IF Mine = <<>> THEN None ELSE Tr.dir)
        /\ withOpen' = (IF Mine = <<>> THEN withOpen ELSE withOpen \union {Pair})
    BY DEF StartLoop, Goto
  <1>2. free' = free /\ profit' = profit /\ flow' = flow  BY <1>1 DEF money
  <1>3. Moves  BY <1>1, <1>2, StillMoves DEF lists
  <1>4. Pair \in Pairs  BY DEF BInv, ClockOK, Pair
  <1>5. exiting' \in Dirs \union {None}
    <2>1. CASE Mine = <<>>  BY <1>1, <2>1
    <2>2. CASE Mine # <<>>
      <3>1. Tr.dir \in Dirs  BY <2>2, MineIs DEF Sound
      <3> QED  BY <1>1, <2>2, <3>1
    <2> QED  BY <2>1, <2>2
  <1>6. ClockOK'  BY <1>1, <1>4 DEF ClockOK, BInv
  <1>7. LoopOK'  BY <1>1, <1>5 DEF LoopOK, Parts, BInv
  <1>8. Control'  BY <1>1 DEF Control
  <1>9. free' \in Int  BY <1>2 DEF BInv
  <1> QED  BY <1>3, <1>6, <1>7, <1>8, <1>9, StepIs

LEMMA PickMainStep == ASSUME BInv, PickMain PROVE BInv' /\ Walks
  <1>1. queue # <<>>  BY DEF PickMain
  <1>2. PICK dir \in Dirs \union {None}, r \in Rows :
          /\ StartLoop(dir, r) /\ sigOf' = [sigOf EXCEPT ![Pair] = dir]
          /\ detailed' = IF Details > 1 /\ (dir # None \/ Mine # <<>>)
                         THEN detailed \union {Pair} ELSE detailed
    BY DEF PickMain
  <1>3. Pair \in Pairs /\ sigOf \in [Pairs -> Dirs \union {None}] /\ detailed \subseteq Pairs
    BY <1>1 DEF BInv, ClockOK, Pair
  <1>4. sigOf' \in [Pairs -> Dirs \union {None}] /\ detailed' \subseteq Pairs
    BY <1>2, <1>3
  <1> QED  BY <1>1, <1>2, <1>4, StartLoopStep

LEMMA PickDetailStep == ASSUME BInv, PickDetail PROVE BInv' /\ Walks
  <1>1. queue # <<>> /\ sigOf' = sigOf /\ detailed' = detailed  BY DEF PickDetail
  <1>2. PICK dir \in {sigOf[Pair], None}, r \in Rows : StartLoop(dir, r)  BY DEF PickDetail
  <1>3. Pair \in Pairs /\ sigOf \in [Pairs -> Dirs \union {None}] /\ detailed \subseteq Pairs
    BY <1>1 DEF BInv, ClockOK, Pair
  <1>4. dir \in Dirs \union {None}  BY <1>2, <1>3
  <1> QED  BY <1>1, <1>2, <1>3, <1>4, StartLoopStep

LEMMA LoopKept ==
  ASSUME BInv, UNCHANGED clock, UNCHANGED loop, pc' \in Parts,
         kind' \in {None, "partial_exit", "signal", "roi", "stop"}
  PROVE  ClockOK' /\ LoopOK' /\ queue' = queue /\ row' = row
  <1>1. /\ t' = t /\ d' = d /\ queue' = queue /\ withOpen' = withOpen /\ sigOf' = sigOf
        /\ detailed' = detailed
    BY DEF clock
  <1>2. row' = row /\ sig' = sig /\ pass' = pass /\ exiting' = exiting  BY DEF loop
  <1>3. ClockOK'  BY <1>1 DEF ClockOK, BInv
  <1>4. LoopOK'  BY <1>2 DEF LoopOK, BInv
  <1> QED  BY <1>1, <1>2, <1>3, <1>4

\* The trade at hand after a step that leaves the lists alone.
LEMMA ControlKept ==
  ASSUME queue # <<>>, row \in Rows, queue' = queue, row' = row, pp' = pp, pc' # "done",
         pc' \in {"adjust", "partial", "exit"} => Mine # <<>> /\ trade'[Id].amount > 0,
         pc' = "process" => Mine # <<>>
  PROVE  Control'
  <1>1. Mine' = Mine /\ Id' = Id  BY DEF Mine, Id, Pair
  <1>2. Tr' = trade'[Id]  BY <1>1 DEF Tr
  <1> QED  BY <1>1, <1>2 DEF Control

LEMMA KindOf == ASSUME BInv PROVE kind \in {None, "partial_exit", "signal", "roi", "stop"}
  BY DEF BInv, LoopOK

\* A step that only moves on.
LEMMA QuietStep ==
  ASSUME BInv, queue # <<>>, row \in Rows,
         UNCHANGED trade, UNCHANGED lists, UNCHANGED money, UNCHANGED clock, UNCHANGED loop,
         kind' \in {None, "partial_exit", "signal", "roi", "stop"},
         pc' \in Parts \ {"done"},
         pc' \in {"adjust", "partial", "exit"} => Mine # <<>> /\ Tr.amount > 0,
         pc' = "process" => Mine # <<>>
  PROVE  BInv' /\ Walks
  <1>1. free' = free /\ profit' = profit /\ flow' = flow /\ pp' = pp  BY DEF money, lists
  <1>2. Moves  BY <1>1, StillMoves DEF lists
  <1>3. ClockOK' /\ LoopOK' /\ queue' = queue /\ row' = row  BY LoopKept
  <1>4. trade'[Id] = Tr  BY DEF Tr
  <1>5. Control'  BY <1>1, <1>3, <1>4, ControlKept
  <1>6. free' \in Int  BY <1>1 DEF BInv
  <1> QED  BY <1>2, <1>3, <1>5, <1>6, StepIs

LEMMA ManageKeepStep == ASSUME BInv, ManageKeep PROVE BInv' /\ Walks
  <1>1. /\ pc = "manage" /\ pc' = "entry" /\ UNCHANGED trade /\ UNCHANGED lists
        /\ UNCHANGED money /\ UNCHANGED clock /\ UNCHANGED loop /\ kind' = kind
    BY DEF ManageKeep, Goto
  <1>2. queue # <<>> /\ row \in Rows  BY <1>1 DEF BInv, Control
  <1> QED  BY <1>1, <1>2, KindOf, QuietStep DEF Parts

LEMMA EnterNotStep == ASSUME BInv, EnterNot PROVE BInv' /\ Walks
  <1>1. /\ pc = "entry" /\ pc' = "fill" /\ UNCHANGED trade /\ UNCHANGED lists
        /\ UNCHANGED money /\ UNCHANGED clock /\ UNCHANGED loop /\ kind' = kind
    BY DEF EnterNot, Goto
  <1>2. queue # <<>> /\ row \in Rows  BY <1>1 DEF BInv, Control
  <1> QED  BY <1>1, <1>2, KindOf, QuietStep DEF Parts

LEMMA FillNotStep == ASSUME BInv, FillNot PROVE BInv' /\ Walks
  <1>1. /\ pc = "fill" /\ UNCHANGED trade /\ UNCHANGED lists
        /\ pc' = (IF Mine = <<>> THEN "again" ELSE IF Tr.amount > 0 THEN "adjust" ELSE "process")
        /\ UNCHANGED money /\ UNCHANGED clock /\ UNCHANGED loop /\ kind' = kind
    BY DEF FillNot, Goto
  <1>2. queue # <<>> /\ row \in Rows  BY <1>1 DEF BInv, Control
  <1>3. pc' \in Parts \ {"done"}  BY <1>1 DEF Parts
  <1>4. /\ pc' \in {"adjust", "partial", "exit"} => Mine # <<>> /\ Tr.amount > 0
        /\ pc' = "process" => Mine # <<>>
    BY <1>1
  <1> QED  BY <1>1, <1>2, <1>3, <1>4, KindOf, QuietStep

LEMMA AdjustNotStep == ASSUME BInv, AdjustNot PROVE BInv' /\ Walks
  <1>1. /\ pc = "adjust" /\ pc' = "exit" /\ UNCHANGED trade /\ UNCHANGED lists
        /\ UNCHANGED money /\ UNCHANGED clock /\ UNCHANGED loop /\ kind' = kind
    BY DEF AdjustNot, Goto
  <1>2. queue # <<>> /\ row \in Rows /\ Mine # <<>> /\ Tr.amount > 0
    BY <1>1 DEF BInv, Control
  <1> QED  BY <1>1, <1>2, KindOf, QuietStep DEF Parts

LEMMA ProcessNotStep == ASSUME BInv, ProcessNot PROVE BInv' /\ Walks
  <1>1. /\ pc \in {"partial", "process"} /\ pc' = (IF pc = "partial" THEN "exit" ELSE "again")
        /\ UNCHANGED trade /\ UNCHANGED lists
        /\ UNCHANGED money /\ UNCHANGED clock /\ UNCHANGED loop /\ kind' = None
    BY DEF ProcessNot, Goto
  <1>2. queue # <<>> /\ row \in Rows /\ (pc = "partial" => Mine # <<>> /\ Tr.amount > 0)
    BY <1>1 DEF BInv, Control
  <1>3. pc' \in Parts \ {"done"} /\ pc' # "process"  BY <1>1 DEF Parts
  <1>4. pc' \in {"adjust", "partial", "exit"} => Mine # <<>> /\ Tr.amount > 0
    BY <1>1, <1>2
  <1> QED  BY <1>1, <1>2, <1>3, <1>4, QuietStep

LEMMA AgainStep == ASSUME BInv, Again PROVE BInv' /\ Walks
  <1>1. /\ pc = "again" /\ UNCHANGED trade /\ UNCHANGED lists /\ UNCHANGED money
        /\ t' = t /\ d' = d /\ withOpen' = withOpen /\ sigOf' = sigOf
        /\ detailed' = detailed /\ kind' = kind
    BY DEF Again
  <1>2. free' = free /\ profit' = profit /\ flow' = flow  BY <1>1 DEF money
  <1>3. queue # <<>> /\ row \in Rows /\ queue \in Seq(Pairs)
    BY <1>1 DEF BInv, Control, ClockOK
  <1>4. Moves  BY <1>1, <1>2, StillMoves DEF lists
  <1>5. \/ pass' = 2 /\ pc' = "manage" /\ exiting' = None /\ queue' = queue /\ row' = row
           /\ sig' = sig
        \/ pass' = 1 /\ pc' = "pick" /\ exiting' = None /\ queue' = Tail(queue)
           /\ row' = NoRow /\ sig' = None
    BY DEF Again, Goto
  <1>6. queue' \in Seq(Pairs)  BY <1>3, <1>5
  <1>7. ClockOK'  BY <1>1, <1>6 DEF ClockOK, BInv
  <1>8. LoopOK'  BY <1>1, <1>5 DEF LoopOK, Parts, BInv
  <1>9. Control'  BY <1>3, <1>5 DEF Control
  <1>10. free' \in Int  BY <1>2 DEF BInv
  <1> QED  BY <1>4, <1>7, <1>8, <1>9, <1>10, StepIs

-----------------------------------------------------------------------------
(* The steps that change the trade at hand *)

LEMMA SwapStep ==
  ASSUME BInv, queue # <<>>, row \in Rows, Mine # <<>>, NEW tr, Sound(tr), Put(tr),
         UNCHANGED lists, UNCHANGED profit, flow' = flow + (Value(tr) - Value(Tr)),
         NEW base, Rests(Tr, base), Tr.amount > 0 => Goes(Tr, base, tr),
         free' = free \/ UpdateWallets,
         UNCHANGED clock, UNCHANGED loop,
         kind' \in {None, "partial_exit", "signal", "roi", "stop"},
         pc' \in Parts \ {"done"}, pc' \in {"adjust", "partial", "exit"} => tr.amount > 0
  PROVE  BInv' /\ Walks
  <1>1. Id \in Ids /\ Sound(Tr)  BY MineIs
  <1>2. trade' = [trade EXCEPT ![Id] = tr]  BY DEF Put
  <1>3. Moves
    <2>1. PICK id \in Ids : id = Id  BY <1>1
    <2>2. Sound(trade[id]) /\ flow' = flow + (Value(tr) - Value(trade[id]))
          /\ Rests(trade[id], base) /\ (trade[id].amount > 0 => Goes(trade[id], base, tr))
          /\ trade' = [trade EXCEPT ![id] = tr]
      BY <1>1, <1>2, <2>1 DEF Tr
    <2> QED  BY <2>2, SwapMoves
  <1>4. free' \in Int
    <2>1. free \in Int  BY DEF BInv
    <2> QED  BY <1>3, <2>1, FreeTyped
  <1>5. ClockOK' /\ LoopOK' /\ queue' = queue /\ row' = row  BY LoopKept
  <1>6. trade'[Id] = tr
    <2>1. trade \in [Ids -> TradeType]  BY DEF BInv, Traded
    <2> QED  BY <1>1, <1>2, <2>1
  <1>7. pp' = pp  BY DEF lists
  <1>8. Control'  BY <1>5, <1>6, <1>7, ControlKept
  <1> QED  BY <1>3, <1>4, <1>5, <1>8, StepIs

LEMMA OutStep ==
  ASSUME BInv, queue # <<>>, row \in Rows, Mine # <<>>, Unlist(Pair, Id), profit' \in Int,
         flow' = profit' + (flow - profit - Value(Tr)), UpdateWallets,
         UNCHANGED clock, UNCHANGED loop,
         kind' \in {None, "partial_exit", "signal", "roi", "stop"}, pc' \in {"entry", "again"}
  PROVE  BInv' /\ Walks
  <1>1. Pair \in Pairs /\ Id \in Ids /\ pp[Pair] = <<Id>>  BY MineIs
  <1>2. Moves  BY <1>1, OutMoves DEF Tr
  <1>3. free' \in Int  BY <1>2, FreeTyped
  <1>4. pc' \in Parts  BY DEF Parts
  <1>5. ClockOK' /\ LoopOK' /\ queue' = queue /\ row' = row  BY <1>4, LoopKept
  <1>6. Control'  BY <1>5 DEF Control
  <1> QED  BY <1>2, <1>3, <1>5, <1>6, StepIs

LEMMA ManageDropStep == ASSUME BInv, ManageDrop PROVE BInv' /\ Walks
  <1>1. /\ pc = "manage" /\ Mine # <<>> /\ OpenOrders(Tr) # {} /\ pc' = "entry"
        /\ flow' = flow /\ UNCHANGED clock /\ UNCHANGED loop /\ kind' = kind
    BY DEF ManageDrop, Goto
  <1>2. queue # <<>> /\ row \in Rows  BY <1>1 DEF BInv, Control
  <1>3. PICK base : Rests(Tr, base)  BY <1>1, <1>2, MineIs
  <1>4. Tr \in TradeType /\ Sound(Tr)  BY <1>1, <1>2, MineIs
  <1>5. Value(Tr) \in Int /\ profit \in Int /\ flow \in Int
    <2>1. profit \in Int /\ flow = profit + Worth(trade) /\ Traded(trade)  BY DEF BInv
    <2>2. Worth(trade) \in Int  BY <2>1, WorthIs
    <2> QED  BY <1>3, <1>4, <2>1, <2>2, ValueIs
  <1>6. kind' \in {None, "partial_exit", "signal", "roi", "stop"}  BY <1>1, KindOf
  <1>7. CASE Managed.side = "entry" /\ Entries(Tr) = 0
    <2>1. Unlist(Pair, Id) /\ profit' = profit /\ UpdateWallets
      BY <1>7 DEF ManageDrop, RemoveTrade
    <2>2. Value(Tr) = 0  BY <1>3, <1>4, <1>7, ValueIs
    <2>3. profit' \in Int /\ flow' = profit' + (flow - profit - Value(Tr))
      BY <1>1, <1>5, <2>1, <2>2
    <2> QED  BY <1>1, <1>2, <1>6, <2>1, <2>3, OutStep
  <1>8. CASE ~(Managed.side = "entry" /\ Entries(Tr) = 0)
    <2>1. Put(Drop(Tr, Newest(OpenOrders(Tr)))) /\ UNCHANGED lists /\ profit' = profit
          /\ free' = free
      BY <1>8 DEF ManageDrop
    <2>2. Drop(Tr, Newest(OpenOrders(Tr))) = CancelAll(Tr)  BY <1>1, <1>3, <1>4, WaitingIs
    <2>3. PICK tr : tr = CancelAll(Tr)  OBVIOUS
    <2>4. /\ tr \in TradeType /\ tr.dir = Tr.dir /\ Rests(tr, base) /\ Value(tr) = Value(Tr)
          /\ Ratchets(Tr, tr)
      BY <1>3, <1>4, <2>3, CancelIs
    <2>5. Sound(tr)  BY <1>4, <2>4 DEF Sound
    <2>6. flow' = flow + (Value(tr) - Value(Tr))  BY <1>1, <1>5, <2>4
    <2>7. Put(tr)  BY <2>1, <2>2, <2>3
    <2>8. pc' \in Parts \ {"done"} /\ pc' \notin {"adjust", "partial", "exit"}
      BY <1>1 DEF Parts
    <2>9. Goes(Tr, base, tr)  BY <2>4 DEF Goes
    <2> QED  BY <1>1, <1>2, <1>3, <1>6, <2>1, <2>5, <2>6, <2>7, <2>8, <2>9, SwapStep
  <1> QED  BY <1>7, <1>8

LEMMA PriceIs == ASSUME NEW price \in Prices PROVE price \in Nat \ {0}
  BY MoneyAssumption

LEMMA CoinsAre == ASSUME NEW amount \in Coins PROVE amount \in Nat \ {0}
  BY MoneyAssumption

LEMMA FlowTyped == ASSUME BInv PROVE flow \in Int
  <1>1. profit \in Int /\ flow = profit + Worth(trade) /\ Traded(trade)  BY DEF BInv
  <1>2. Worth(trade) \in Int  BY <1>1, WorthIs
  <1> QED  BY <1>1, <1>2

\* The flow of an entry and the value it adds.
LEMMA PaysFor ==
  ASSUME NEW a \in TradeType, NEW base, Rests(a, base), NEW b \in TradeType, NEW more,
         Rests(b, more), NEW e \in Int, Value(b) = Value(a) + e, NEW f \in Int
  PROVE  f + e = f + (Value(b) - Value(a))
  BY ValueIs

LEMMA ManageReplaceStep == ASSUME BInv, ManageReplace PROVE BInv' /\ Walks
  <1>1. /\ pc = "manage" /\ Mine # <<>> /\ OpenOrders(Tr) # {} /\ pc' = "entry"
        /\ UNCHANGED clock /\ UNCHANGED loop /\ kind' = kind
    BY DEF ManageReplace, Goto
  <1>2. queue # <<>> /\ row \in Rows  BY <1>1 DEF BInv, Control
  <1>3. PICK base : Rests(Tr, base)  BY <1>1, <1>2, MineIs
  <1>4. Tr \in TradeType /\ Sound(Tr)  BY <1>1, <1>2, MineIs
  <1>5. PICK o : /\ Waits(Tr, base, o) /\ Tr.orders[Len(Tr.orders)] = o /\ o \in OrderType
                 /\ Newest(OpenOrders(Tr)) = Len(Tr.orders)
                 /\ Drop(Tr, Len(Tr.orders)) = CancelAll(Tr)
    BY <1>1, <1>3, <1>4, WaitingIs
  <1>6. Managed = o  BY <1>5 DEF Managed
  <1>7. PICK dropped : dropped = Drop(Tr, Newest(OpenOrders(Tr)))  OBVIOUS
  <1>8. /\ dropped \in TradeType /\ dropped.dir = Tr.dir /\ dropped.amount = Tr.amount
        /\ Rests(dropped, base) /\ Value(dropped) = Value(Tr) /\ Ratchets(Tr, dropped)
    <2>1. dropped = CancelAll(Tr)  BY <1>5, <1>7
    <2> QED  BY <1>3, <1>4, <2>1, CancelIs
  <1>9. kind' \in {None, "partial_exit", "signal", "roi", "stop"}  BY <1>1, KindOf
  <1>10. pc' \in Parts \ {"done"} /\ pc' \notin {"adjust", "partial", "exit"}
    BY <1>1 DEF Parts
  <1>11. flow \in Int  BY FlowTyped
  <1>12. PICK price \in Prices \ {Managed.price}, f \in AfterFills :
           \/ /\ o.side = "entry" /\ (o.amount * o.price) \div price > 0
              /\ Put(PlaceEntry(dropped, price, (o.amount * o.price) \div price, f))
              /\ flow' = flow + EntryFlow(Tr, price, (o.amount * o.price) \div price)
              /\ UNCHANGED <<lists, profit, free>>
           \/ /\ o.side = "exit"
              /\ Put(Place(dropped, "exit", price, o.amount))
              /\ UNCHANGED <<lists, money>>
    BY <1>6, <1>7 DEF ManageReplace
  <1>13. price \in Nat \ {0}  BY <1>12, PriceIs
  <1>14. CASE o.side = "entry"
    <2>1. PICK amount : amount = (o.amount * o.price) \div price  OBVIOUS
    <2>2. /\ amount > 0 /\ Put(PlaceEntry(dropped, price, amount, f))
          /\ flow' = flow + EntryFlow(Tr, price, amount)
          /\ UNCHANGED lists /\ profit' = profit /\ free' = free
      BY <1>12, <1>14, <2>1
    <2>3. amount \in Int
      <3>1. o.amount \in Int /\ o.price \in Int  BY <1>5 DEF OrderType
      <3>2. PICK m \in Int : m = o.amount * o.price  BY <3>1
      <3> QED  BY <1>13, <2>1, <3>2
    <2>4. amount \in Nat \ {0}  BY <2>2, <2>3
    <2>5. PICK tr : tr = PlaceEntry(dropped, price, amount, f)  OBVIOUS
    <2>6. /\ tr \in TradeType /\ tr.dir = dropped.dir /\ (\E more : Rests(tr, more))
          /\ (dropped.amount > 0 => tr.amount > 0 /\ Goes(dropped, base, tr))
          /\ Value(tr) = Value(dropped) + EntryFlow(dropped, price, amount)
      BY <1>8, <1>12, <1>13, <2>4, <2>5, PlaceEntryIs
    <2>7. Sound(tr)  BY <1>4, <1>8, <2>6 DEF Sound
    <2>8. EntryFlow(dropped, price, amount) = EntryFlow(Tr, price, amount)
      BY <1>8 DEF EntryFlow, Sgn
    <2>9. EntryFlow(Tr, price, amount) \in Int  BY <1>13, <2>3, FlowIs
    <2>10. PICK more : Rests(tr, more)  BY <2>6
    <2>11. PICK e \in Int : e = EntryFlow(Tr, price, amount)  BY <2>9
    <2>12. Value(tr) = Value(Tr) + e  BY <1>8, <2>6, <2>8, <2>11
    <2>13. flow' = flow + (Value(tr) - Value(Tr))
      <3>1. flow + e = flow + (Value(tr) - Value(Tr))
        BY <1>3, <1>4, <1>11, <2>6, <2>10, <2>12, PaysFor
      <3> QED  BY <2>2, <2>11, <3>1
    <2>14. ASSUME Tr.amount > 0 PROVE Goes(Tr, base, tr)
      <3>1. tr.amount > 0 /\ tr.dir = Tr.dir  BY <1>8, <2>6, <2>14
      <3>2. tr.init  BY <2>10, <3>1 DEF Rests, Fits
      <3>3. Goes(dropped, base, tr)  BY <1>8, <2>6, <2>14
      <3> QED  BY <1>3, <1>4, <1>8, <2>6, <2>14, <3>1, <3>2, <3>3, GoesOn
    <2>15. Put(tr)  BY <2>2, <2>5
    <2> QED  BY <1>1, <1>2, <1>3, <1>9, <1>10, <2>2, <2>7, <2>13, <2>14, <2>15, SwapStep
  <1>15. CASE o.side # "entry"
    <2>1. o.side = "exit" /\ o.amount \in Nat \ {0}  BY <1>5, <1>15 DEF OrderType
    <2>2. o.amount <= dropped.amount  BY <1>5, <1>8, <2>1 DEF Waits
    <2>3. Put(Place(dropped, "exit", price, o.amount)) /\ UNCHANGED lists
          /\ flow' = flow /\ profit' = profit /\ free' = free
      BY <1>12, <1>15 DEF money
    <2>4. PICK tr : tr = Place(dropped, "exit", price, o.amount)  OBVIOUS
    <2>5. /\ tr \in TradeType /\ tr.dir = dropped.dir /\ Rests(tr, base)
          /\ Value(tr) = Value(dropped) /\ Ratchets(dropped, tr)
      <3>1. "exit" \in {"entry", "exit"}  OBVIOUS
      <3> QED  BY <1>8, <1>13, <2>1, <2>2, <2>4, <3>1, PlaceIs
    <2>6. Sound(tr)  BY <1>4, <1>8, <2>5 DEF Sound
    <2>7. Value(Tr) \in Int  BY <1>3, <1>4, ValueIs
    <2>8. flow' = flow + (Value(tr) - Value(Tr))  BY <1>8, <1>11, <2>3, <2>5, <2>7
    <2>9. Goes(Tr, base, tr)  BY <1>4, <1>8, <2>5, RatchetsTwice DEF Goes
    <2>10. Put(tr)  BY <2>3, <2>4
    <2> QED  BY <1>1, <1>2, <1>3, <1>9, <1>10, <2>3, <2>6, <2>8, <2>9, <2>10, SwapStep
  <1> QED  BY <1>14, <1>15

\* What the steps from an adjustment to an exit find.
LEMMA AtTrade ==
  ASSUME BInv, pc \in {"adjust", "partial", "exit"}
  PROVE  /\ queue # <<>> /\ row \in Rows /\ Mine # <<>> /\ Tr.amount > 0
         /\ Sound(Tr) /\ Tr \in TradeType /\ Tr.amount \in Nat /\ Value(Tr) \in Int
         /\ \E base : Rests(Tr, base)
  <1>1. queue # <<>> /\ row \in Rows /\ Mine # <<>> /\ Tr.amount > 0  BY DEF BInv, Control
  <1>2. Tr \in TradeType /\ Sound(Tr)  BY <1>1, MineIs
  <1>3. PICK base : Rests(Tr, base)  BY <1>1, MineIs
  <1>4. Tr.amount \in Nat  BY <1>2 DEF TradeType
  <1>5. Value(Tr) \in Int  BY <1>2, <1>3, ValueIs
  <1> QED  BY <1>1, <1>2, <1>3, <1>4, <1>5

LEMMA AdjustEntryStep == ASSUME BInv, AdjustEntry PROVE BInv' /\ Walks
  <1>1. /\ pc = "adjust" /\ pc' = "exit" /\ UNCHANGED lists /\ profit' = profit
        /\ UNCHANGED clock /\ UNCHANGED loop /\ kind' = kind /\ UpdateWallets
    BY DEF AdjustEntry, Goto
  <1>2. /\ queue # <<>> /\ row \in Rows /\ Mine # <<>> /\ Tr.amount > 0
        /\ Sound(Tr) /\ Tr \in TradeType
    BY <1>1, AtTrade
  <1>3. PICK base : Rests(Tr, base)  BY <1>1, AtTrade
  <1>4. PICK price \in Prices, amount \in Coins, f \in AfterFills :
          /\ Put(PlaceEntry(Tr, price, amount, f))
          /\ flow' = flow + EntryFlow(Tr, price, amount)
    BY DEF AdjustEntry
  <1>5. price \in Nat \ {0} /\ amount \in Nat \ {0}  BY <1>4, PriceIs, CoinsAre
  <1>6. PICK tr : tr = PlaceEntry(Tr, price, amount, f)  OBVIOUS
  <1>7. /\ tr \in TradeType /\ tr.dir = Tr.dir /\ (\E more : Rests(tr, more))
        /\ (Tr.amount > 0 => tr.amount > 0 /\ Goes(Tr, base, tr))
        /\ Value(tr) = Value(Tr) + EntryFlow(Tr, price, amount)
    BY <1>2, <1>3, <1>4, <1>5, <1>6, PlaceEntryIs
  <1>8. Sound(tr)  BY <1>2, <1>7 DEF Sound
  <1>9. PICK more : Rests(tr, more)  BY <1>7
  <1>10. PICK e \in Int : e = EntryFlow(Tr, price, amount)  BY <1>5, FlowIs
  <1>11. flow' = flow + (Value(tr) - Value(Tr))
    <2>1. flow \in Int  BY FlowTyped
    <2>2. Value(tr) = Value(Tr) + e  BY <1>7, <1>10
    <2>3. flow + e = flow + (Value(tr) - Value(Tr))
      BY <1>2, <1>3, <1>7, <1>9, <2>1, <2>2, PaysFor
    <2> QED  BY <1>4, <1>10, <2>3
  <1>12. Put(tr)  BY <1>4, <1>6
  <1>13. kind' \in {None, "partial_exit", "signal", "roi", "stop"}  BY <1>1, KindOf
  <1>14. pc' \in Parts \ {"done"}  BY <1>1 DEF Parts
  <1> QED  BY <1>1, <1>2, <1>3, <1>7, <1>8, <1>11, <1>12, <1>13, <1>14, SwapStep

\* An exit order placed for the trade at hand, or for it with its stop moved.
LEMMA ExitPlaced ==
  ASSUME NEW tr \in TradeType, Sound(tr), NEW base, Rests(tr, base),
         NEW from \in TradeType, from.dir = tr.dir, from.amount = tr.amount,
         Rests(from, base), Value(from) = Value(tr), Ratchets(tr, from),
         NEW price \in Int, NEW amount \in Nat \ {0}, amount <= tr.amount,
         NEW new, new = Place(from, "exit", price, amount)
  PROVE  /\ Sound(new) /\ new.amount = tr.amount /\ Value(new) = Value(tr)
         /\ Ratchets(tr, new)
  <1>1. /\ new \in TradeType /\ new.dir = from.dir /\ new.amount = from.amount
        /\ Rests(new, base) /\ Value(new) = Value(from) /\ Ratchets(from, new)
    <2>1. "exit" \in {"entry", "exit"}  OBVIOUS
    <2> QED  BY <2>1, PlaceIs
  <1>2. Sound(new)  BY <1>1 DEF Sound
  <1>3. Ratchets(tr, new)  BY <1>1, RatchetsTwice
  <1> QED  BY <1>1, <1>2, <1>3

LEMMA SelfRatchets == ASSUME NEW tr \in TradeType PROVE Ratchets(tr, tr)
  BY StaysPut DEF Ratchets

LEMMA AdjustExitStep == ASSUME BInv, AdjustExit PROVE BInv' /\ Walks
  <1>1. /\ pc = "adjust" /\ pc' = "partial" /\ UNCHANGED lists /\ UNCHANGED money
        /\ UNCHANGED clock /\ UNCHANGED loop /\ kind' = "partial_exit"
    BY DEF AdjustExit, Goto
  <1>2. /\ queue # <<>> /\ row \in Rows /\ Mine # <<>> /\ Tr.amount > 0
        /\ Sound(Tr) /\ Tr \in TradeType /\ Tr.amount \in Nat /\ Value(Tr) \in Int
    BY <1>1, AtTrade
  <1>3. PICK base : Rests(Tr, base)  BY <1>1, AtTrade
  <1>4. PICK price \in Prices, amount \in 1..Tr.amount : Put(Place(Tr, "exit", price, amount))
    BY DEF AdjustExit
  <1>5. price \in Int /\ amount \in Nat \ {0} /\ amount <= Tr.amount
    BY <1>2, <1>4, PriceIs
  <1>6. PICK tr : tr = Place(Tr, "exit", price, amount)  OBVIOUS
  <1>7. Sound(tr) /\ tr.amount = Tr.amount /\ Value(tr) = Value(Tr) /\ Ratchets(Tr, tr)
    BY <1>2, <1>3, <1>5, <1>6, SelfRatchets, ExitPlaced
  <1>8. flow' = flow /\ profit' = profit /\ free' = free  BY <1>1 DEF money
  <1>9. flow' = flow + (Value(tr) - Value(Tr))  BY <1>2, <1>7, <1>8, FlowTyped
  <1>10. Put(tr)  BY <1>4, <1>6
  <1>11. pc' \in Parts \ {"done"}  BY <1>1 DEF Parts
  <1> QED  BY <1>1, <1>2, <1>3, <1>7, <1>8, <1>9, <1>10, <1>11, SwapStep DEF Goes

LEMMA ExitNotStep == ASSUME BInv, ExitNot PROVE BInv' /\ Walks
  <1>1. /\ pc = "exit" /\ pc' = "process" /\ UNCHANGED lists /\ UNCHANGED money
        /\ UNCHANGED clock /\ UNCHANGED loop /\ kind' = kind
    BY DEF ExitNot, Goto
  <1>2. /\ queue # <<>> /\ row \in Rows /\ Mine # <<>>
        /\ Sound(Tr) /\ Tr \in TradeType /\ Value(Tr) \in Int
    BY <1>1, AtTrade
  <1>3. PICK base : Rests(Tr, base)  BY <1>1, AtTrade
  <1>4. PICK tr \in Trailed(Tr) : Put(tr)  BY DEF ExitNot
  <1>5. /\ tr \in TradeType /\ Alike(tr, Tr) /\ Rests(tr, base) /\ Value(tr) = Value(Tr)
        /\ Ratchets(Tr, tr)
    BY <1>2, <1>3, <1>4, TrailedIs
  <1>6. Sound(tr)  BY <1>2, <1>5 DEF Sound, Alike
  <1>7. flow' = flow /\ profit' = profit /\ free' = free  BY <1>1 DEF money
  <1>8. flow' = flow + (Value(tr) - Value(Tr))  BY <1>2, <1>5, <1>7, FlowTyped
  <1>9. kind' \in {None, "partial_exit", "signal", "roi", "stop"}  BY <1>1, KindOf
  <1>10. pc' \in Parts \ {"done"} /\ pc' \notin {"adjust", "partial", "exit"}
    BY <1>1 DEF Parts
  <1> QED  BY <1>1, <1>2, <1>3, <1>4, <1>5, <1>6, <1>7, <1>8, <1>9, <1>10, SwapStep DEF Goes

LEMMA ExitsAre ==
  ASSUME row \in Rows, NEW tr \in TradeType, NEW e \in Exits(tr)
  PROVE  e[1] \in {"signal", "roi", "stop"} /\ e[2] \in Int
  <1>1. row.open \in Nat /\ row.low \in Nat /\ row.high \in Nat  BY RowIs
  <1>2. tr.stop \in Int /\ tr.pct \in Nat  BY DEF TradeType
  <1>3. StopRate(tr) \in Int
    <2>1. Higher(row.low, row.open - tr.pct) \in Int /\ Lower(row.high, row.open + tr.pct) \in Int
      BY <1>1, <1>2 DEF Higher, Lower
    <2> QED  BY <1>1, <1>2, <2>1 DEF StopRate
  <1>4. CASE \E p \in Prices : e = <<"signal", p>>
    <2>1. PICK p \in Prices : e = <<"signal", p>>  BY <1>4
    <2> QED  BY <2>1, PriceIs
  <1>5. CASE \E p \in Prices : e = <<"roi", p>>
    <2>1. PICK p \in Prices : e = <<"roi", p>>  BY <1>5
    <2> QED  BY <2>1, PriceIs
  <1>6. CASE e = <<"stop", StopRate(tr)>>  BY <1>3, <1>6
  <1> QED  BY <1>4, <1>5, <1>6 DEF Exits, RoiRates

LEMMA ExitTradeStep == ASSUME BInv, ExitTrade PROVE BInv' /\ Walks
  <1>1. /\ pc = "exit" /\ pc' = "process" /\ UNCHANGED lists /\ UNCHANGED money
        /\ UNCHANGED clock /\ UNCHANGED loop
    BY DEF ExitTrade, Goto
  <1>2. /\ queue # <<>> /\ row \in Rows /\ Mine # <<>> /\ Tr.amount > 0
        /\ Sound(Tr) /\ Tr \in TradeType /\ Tr.amount \in Nat /\ Value(Tr) \in Int
    BY <1>1, AtTrade
  <1>3. PICK base : Rests(Tr, base)  BY <1>1, AtTrade
  <1>4. PICK from \in Trailed(Tr) : \E e \in Exits(from) :
          Put(Place(from, "exit", e[2], from.amount)) /\ kind' = e[1]
    BY DEF ExitTrade
  <1>5. PICK e \in Exits(from) : Put(Place(from, "exit", e[2], from.amount)) /\ kind' = e[1]
    BY <1>4
  <1>6. /\ from \in TradeType /\ Alike(from, Tr) /\ Rests(from, base)
        /\ Value(from) = Value(Tr) /\ Ratchets(Tr, from)
    BY <1>2, <1>3, <1>4, TrailedIs
  <1>7. e[1] \in {"signal", "roi", "stop"} /\ e[2] \in Int  BY <1>2, <1>5, <1>6, ExitsAre
  <1>8. from.dir = Tr.dir /\ from.amount = Tr.amount  BY <1>6 DEF Alike
  <1>9. PICK price \in Int : price = e[2]  BY <1>7
  <1>10. PICK tr : tr = Place(from, "exit", price, Tr.amount)  OBVIOUS
  <1>11. Sound(tr) /\ tr.amount = Tr.amount /\ Value(tr) = Value(Tr) /\ Ratchets(Tr, tr)
    <2>1. Tr.amount \in Nat \ {0} /\ Tr.amount <= Tr.amount  BY <1>2
    <2> QED  BY <1>2, <1>3, <1>6, <1>8, <1>10, <2>1, ExitPlaced
  <1>12. flow' = flow /\ profit' = profit /\ free' = free  BY <1>1 DEF money
  <1>13. flow' = flow + (Value(tr) - Value(Tr))  BY <1>2, <1>11, <1>12, FlowTyped
  <1>14. Put(tr)  BY <1>5, <1>8, <1>9, <1>10
  <1>15. kind' \in {None, "partial_exit", "signal", "roi", "stop"}  BY <1>5, <1>7
  <1>16. pc' \in Parts \ {"done"} /\ pc' \notin {"adjust", "partial", "exit"}
    BY <1>1 DEF Parts
  <1> QED  BY <1>1, <1>2, <1>3, <1>11, <1>12, <1>13, <1>14, <1>15, <1>16, SwapStep DEF Goes

LEMMA FillEntryStep == ASSUME BInv, FillEntry PROVE BInv' /\ Walks
  <1>1. /\ pc = "fill" /\ Mine # <<>> /\ OpenAt(Tr, "entry") # {} /\ pc' = "adjust"
        /\ UNCHANGED lists /\ profit' = profit
        /\ UNCHANGED clock /\ UNCHANGED loop /\ kind' = kind /\ UpdateWallets
    BY DEF FillEntry, Goto
  <1>2. queue # <<>> /\ row \in Rows  BY <1>1 DEF BInv, Control
  <1>3. Tr \in TradeType /\ Sound(Tr)  BY <1>1, <1>2, MineIs
  <1>4. PICK base : Rests(Tr, base)  BY <1>1, <1>2, MineIs
  <1>5. OpenOrders(Tr) # {}  BY <1>1, <1>3, WaitingAt
  <1>6. PICK o : /\ Waits(Tr, base, o) /\ Tr.orders[Len(Tr.orders)] = o /\ o \in OrderType
                 /\ Newest(OpenAt(Tr, o.side)) = Len(Tr.orders)
                 /\ \A side : OpenAt(Tr, side) # {} => side = o.side
    BY <1>3, <1>4, <1>5, WaitingIs
  <1>7. o.side = "entry"  BY <1>1, <1>6
  <1>8. PICK i : i = Newest(OpenAt(Tr, "entry"))  OBVIOUS
  <1>9. i = Len(Tr.orders) /\ Tr.orders[i] = o  BY <1>6, <1>7, <1>8
  <1>10. /\ \E s \in AfterFills : Put(TryClose(Tr, i, s))
         /\ flow' = flow - Sgn(Tr) * Tr.orders[i].price * Tr.orders[i].amount
    BY <1>8 DEF FillEntry
  <1>11. PICK s \in AfterFills : Put(TryClose(Tr, i, s))  BY <1>10
  <1>12. PICK tr : tr = TryClose(Tr, i, s)  OBVIOUS
  <1>13. /\ tr \in TradeType /\ tr.dir = Tr.dir /\ Rests(tr, Append(base, Done(o)))
         /\ tr.amount > 0 /\ tr.orders = Append(base, Done(o))
         /\ (Tr.amount > 0 => Steps(Tr, tr, o.price))
         /\ Value(tr) = Value(Tr) - Sgn(Tr) * (o.price * o.amount)
    BY <1>3, <1>4, <1>6, <1>7, <1>9, <1>11, <1>12, EntryTaken
  <1>14. Sound(tr)  BY <1>3, <1>13 DEF Sound
  <1>15. o.price \in Int /\ o.amount \in Int  BY <1>6 DEF OrderType
  <1>16. Sgn(Tr) * o.price * o.amount = Sgn(Tr) * (o.price * o.amount)  BY <1>15, FlowIs
  <1>17. PICK f \in Int : f = Sgn(Tr) * (o.price * o.amount)
    <2>1. PICK m \in Int : m = o.price * o.amount  BY <1>15
    <2>2. PICK g \in {1, -1} : g = Sgn(Tr)  BY SgnIs
    <2> QED  BY <2>1, <2>2
  <1>18. flow' = flow + (Value(tr) - Value(Tr))
    <2>1. flow' = flow - f  BY <1>9, <1>10, <1>16, <1>17
    <2>2. Value(tr) = Value(Tr) - f  BY <1>13, <1>17
    <2>3. flow \in Int /\ Value(Tr) \in Int  BY <1>3, <1>4, FlowTyped, ValueIs
    <2> QED  BY <2>1, <2>2, <2>3
  <1>19. Put(tr)  BY <1>11, <1>12
  <1>20. kind' \in {None, "partial_exit", "signal", "roi", "stop"}  BY <1>1, KindOf
  <1>21. pc' \in Parts \ {"done"}  BY <1>1 DEF Parts
  <1>22. Tr.amount > 0 => Goes(Tr, base, tr)  BY <1>3, <1>4, <1>6, <1>13, StepGoes
  <1> QED  BY <1>1, <1>2, <1>4, <1>13, <1>14, <1>18, <1>19, <1>20, <1>21, <1>22, SwapStep

LEMMA EnterStep == ASSUME BInv, Enter PROVE BInv' /\ Walks
  <1>1. /\ pc = "entry" /\ Mine = <<>> /\ sig # None /\ SlotAvailable /\ pc' = "fill"
        /\ profit' = profit /\ UNCHANGED clock /\ UNCHANGED loop /\ kind' = kind
        /\ UpdateWallets
    BY DEF Enter, Goto
  <1>2. queue # <<>> /\ row \in Rows  BY <1>1 DEF BInv, Control
  <1>3. PICK p \in Pairs : p = Pair  BY <1>2 DEF BInv, ClockOK, Pair
  <1>4. PICK id : id = CHOOSE i \in Ids : trade[i] = NoTrade  OBVIOUS
  <1>5. PICK price \in Prices, amount \in Coins, f \in AfterFills :
          /\ trade' = [trade EXCEPT ![id] = NewTrade(sig, price, amount, f)]
          /\ open' = Append(open, id) /\ count' = count + 1
          /\ pp' = [pp EXCEPT ![Pair] = Append(pp[Pair], id)]
          /\ flow' = flow + EntryFlow(NewTrade(sig, price, amount, f), price, amount)
    BY <1>4, Zenon DEF Enter
  <1>6. Traded(trade) /\ Listed(trade, open, pp, count)  BY DEF BInv
  <1>7. pp[p] = <<>>  BY <1>1, <1>3 DEF Mine
  <1>8. id \in Ids /\ trade[id] = NoTrade
    <2>1. \E i \in Ids : trade[i] = NoTrade  BY <1>6, <1>7, FreeIdIs
    <2> QED  BY <1>4, <2>1
  <1>9. sig \in Dirs  BY <1>1 DEF BInv, LoopOK
  <1>10. price \in Nat \ {0} /\ amount \in Nat \ {0}  BY <1>5, PriceIs, CoinsAre
  <1>11. PICK tr : tr = NewTrade(sig, price, amount, f)  OBVIOUS
  <1>12. Sound(tr) /\ Value(tr) = EntryFlow(tr, price, amount)
    BY <1>5, <1>9, <1>10, <1>11, NewTradeIs
  <1>13. MaxOpen = 0 \/ count < MaxOpen  BY <1>1 DEF SlotAvailable
  <1>14. /\ trade' = SetTo(trade, id, tr) /\ pp' = Add(pp, p, id)
    BY <1>3, <1>5, <1>11 DEF SetTo, Add
  <1>15. PICK new : new = SetTo(trade, id, tr)  OBVIOUS
  <1>16. /\ Traded(new) /\ Worth(new) = Worth(trade) + Value(tr)
         /\ new[id] = tr /\ (\A x \in Ids \ {id} : new[x] = trade[x])
         /\ Listed(new, Append(open, id), Add(pp, p, id), count + 1)
    BY <1>6, <1>7, <1>8, <1>12, <1>13, <1>15, EnlistIs
  <1>17. Moves
    <2>1. Walks
      <3>1. \A x \in Ids : trade[x] \in TradeType  BY <1>6, SoundIs
      <3>2. Entries(trade[id]) = 0  BY <1>8, NoTradeIs
      <3>3. \A x \in Ids \ {id} : trade'[x] = trade[x]  BY <1>14, <1>15, <1>16
      <3> QED  BY <3>1, <3>2, <3>3, StillWalks DEF Walks
    <2>2. flow' = profit' + Worth(new)
      <3>1. profit \in Int /\ flow = profit + Worth(trade)  BY DEF BInv
      <3>2. Worth(trade) \in Int /\ Value(new[id]) \in Int
        BY <1>6, <1>8, <1>16, WorthIs, SoundIs
      <3>3. flow' = flow + Value(tr)  BY <1>5, <1>11, <1>12
      <3> QED  BY <1>1, <1>16, <3>1, <3>2, <3>3
    <2>3. profit' \in Int  BY <1>1 DEF BInv
    <2> QED  BY <1>5, <1>14, <1>15, <1>16, <2>1, <2>2, <2>3 DEF Moves
  <1>18. free' \in Int  BY <1>1, <1>17, FreeTyped
  <1>19. kind' \in {None, "partial_exit", "signal", "roi", "stop"}  BY <1>1, KindOf
  <1>20. pc' \in Parts  BY <1>1 DEF Parts
  <1>21. ClockOK' /\ LoopOK' /\ queue' = queue /\ row' = row
    BY <1>1, <1>19, <1>20, LoopKept
  <1>22. Control'  BY <1>1, <1>2, <1>21 DEF Control
  <1> QED  BY <1>17, <1>18, <1>21, <1>22, StepIs

LEMMA ProcessExitStep == ASSUME BInv, ProcessExit PROVE BInv' /\ Walks
  <1>1. /\ pc \in {"partial", "process"} /\ OpenAt(Tr, "exit") # {}
        /\ (\E s \in AfterFills : FillExit(Pair, Id, ExitOrder, s)) /\ kind' = None
        /\ pc' = (IF pc = "partial" /\ pp'[Pair] # <<>> THEN "exit" ELSE "again")
        /\ UNCHANGED clock /\ UNCHANGED loop
    BY DEF ProcessExit, Goto
  <1>2. queue # <<>> /\ row \in Rows /\ Mine # <<>>  BY <1>1 DEF BInv, Control
  <1>3. Tr \in TradeType /\ Sound(Tr) /\ Pair \in Pairs /\ Id \in Ids /\ pp[Pair] = <<Id>>
    BY <1>2, MineIs
  <1>4. PICK base : Rests(Tr, base)  BY <1>2, MineIs
  <1>5. OpenOrders(Tr) # {}  BY <1>1, <1>3, WaitingAt
  <1>6. PICK o : /\ Waits(Tr, base, o) /\ Tr.orders[Len(Tr.orders)] = o /\ o \in OrderType
                 /\ Newest(OpenAt(Tr, o.side)) = Len(Tr.orders)
                 /\ \A side : OpenAt(Tr, side) # {} => side = o.side
    BY <1>3, <1>4, <1>5, WaitingIs
  <1>7. o.side = "exit"  BY <1>1, <1>6
  <1>8. ExitOrder = Len(Tr.orders) /\ Tr.orders[ExitOrder] = o
    BY <1>6, <1>7 DEF ExitOrder
  <1>9. PICK s \in AfterFills : FillExit(Pair, Id, ExitOrder, s)  BY <1>1
  <1>10. PICK closed : closed = TryClose(Tr, Len(Tr.orders), s)  OBVIOUS
  <1>11. /\ flow' = flow + Sgn(Tr) * o.price * o.amount
         /\ (o.amount # Tr.amount => Put(Recalc(closed)) /\ UNCHANGED lists
                                     /\ UNCHANGED profit)
         /\ (o.amount = Tr.amount => Unlist(Pair, Id)
                                     /\ profit' = profit + Totals(closed).real)
         /\ UpdateWallets
    BY <1>8, <1>9, <1>10 DEF FillExit, Tr, Put
  <1>12. o.price \in Int /\ o.amount \in Int  BY <1>6 DEF OrderType
  <1>13. Sgn(Tr) * o.price * o.amount = Sgn(Tr) * (o.price * o.amount)  BY <1>12, FlowIs
  <1>14. PICK f \in Int : f = Sgn(Tr) * (o.price * o.amount)
    <2>1. PICK m \in Int : m = o.price * o.amount  BY <1>12
    <2>2. PICK g \in {1, -1} : g = Sgn(Tr)  BY SgnIs
    <2> QED  BY <2>1, <2>2
  <1>15. flow \in Int /\ Value(Tr) \in Int /\ profit \in Int
    BY <1>3, <1>4, FlowTyped, ValueIs DEF BInv
  <1>16. flow' = flow + f  BY <1>11, <1>13, <1>14
  <1>17. CASE o.amount = Tr.amount
    <2>1. Totals(closed).real = Value(Tr) + f
      BY <1>3, <1>4, <1>6, <1>7, <1>9, <1>10, <1>14, <1>17, ExitFilled
    <2>2. Unlist(Pair, Id) /\ profit' = profit + (Value(Tr) + f)  BY <1>11, <1>17, <2>1
    <2>3. profit' \in Int /\ flow' = profit' + (flow - profit - Value(Tr))
      BY <1>14, <1>15, <1>16, <2>2
    <2>4. pp'[Pair] = <<>>
      <3>1. Without(<<Id>>, Id) = <<>>  BY <1>3, WithoutOnly
      <3>2. pp' = [pp EXCEPT ![Pair] = Without(pp[Pair], Id)]  BY <2>2 DEF Unlist
      <3>3. pp \in [Pairs -> Seq(Ids)]  BY DEF BInv, Listed
      <3> QED  BY <1>3, <3>1, <3>2, <3>3
    <2>5. pc' = "again"  BY <1>1, <2>4
    <2> QED  BY <1>1, <1>2, <1>11, <2>2, <2>3, <2>5, OutStep
  <1>18. CASE o.amount # Tr.amount
    <2>1. PICK tr : tr = Recalc(closed)  OBVIOUS
    <2>2. /\ tr \in TradeType /\ tr.dir = Tr.dir /\ tr.amount > 0
          /\ Rests(tr, Append(base, Done(o))) /\ tr.orders = Append(base, Done(o))
          /\ Steps(Tr, tr, o.price) /\ Value(tr) = Value(Tr) + f
      BY <1>3, <1>4, <1>6, <1>7, <1>9, <1>10, <1>14, <1>18, <2>1, ExitFilled
    <2>3. Sound(tr)  BY <1>3, <2>2 DEF Sound
    <2>4. Put(tr) /\ UNCHANGED lists /\ UNCHANGED profit  BY <1>11, <1>18, <2>1
    <2>5. flow' = flow + (Value(tr) - Value(Tr))  BY <1>14, <1>15, <1>16, <2>2
    <2>6. pc' \in Parts \ {"done"}  BY <1>1 DEF Parts
    <2>7. Goes(Tr, base, tr)  BY <1>3, <1>4, <1>6, <2>2, StepGoes
    <2> QED  BY <1>1, <1>2, <1>4, <1>11, <2>2, <2>3, <2>4, <2>5, <2>6, <2>7, SwapStep
  <1> QED  BY <1>17, <1>18

-----------------------------------------------------------------------------
(* What is left open, and the theorems *)

LEMMA LeftControl ==
  ASSUME pc' = "left"
  PROVE  Control'
  BY DEF Control

LEMMA LeftStep ==
  ASSUME BInv, pc = "left", pc' = pc, open # <<>>, Left(Head(open)),
         UNCHANGED clock, UNCHANGED loop, kind' = kind
  PROVE  BInv' /\ Walks
  <1>1. open \in Seq(Ids) /\ Traded(trade)  BY DEF BInv, Listed
  <1>2. PICK id \in Ids : id = Head(open)  BY <1>1
  <1>3. id \in ToSet(open)
    <2>1. 1 \in DOMAIN open /\ Head(open) = open[1]  BY <1>1
    <2> QED  BY <1>2, <2>1 DEF ToSet
  <1>4. PICK p \in Pairs : p = PairOf(id) /\ pp[p] = <<id>>  BY <1>3, PairOfIs DEF BInv
  <1>5. Sound(trade[id])  BY <1>4, HeldIs DEF BInv
  <1>6. PICK tr \in TradeType : tr = trade[id]  BY <1>5 DEF Sound
  <1>7. Sound(tr)  BY <1>5, <1>6
  <1>8. PICK base : Rests(tr, base)  BY <1>7 DEF Sound
  <1>9. flow \in Int /\ Value(tr) \in Int /\ profit \in Int
    BY <1>8, FlowTyped, ValueIs DEF BInv
  <1>10. ClockOK' /\ LoopOK'
    <2>1. pc' \in Parts  BY DEF Parts
    <2> QED  BY <2>1, KindOf, LoopKept
  <1>11. Control'  BY LeftControl
  <1>12. CASE (OpenOrders(tr) # {} /\ Entries(tr) = 0) \/ tr.amount = 0
    <2>1. Unlist(p, id) /\ profit' = profit /\ free' = free /\ flow' = flow
      BY <1>2, <1>4, <1>6, <1>12 DEF Left, money
    <2>2. Value(tr) = 0  BY <1>8, <1>12, ValueIs
    <2>3. profit' \in Int /\ flow' = profit' + (flow - profit - Value(trade[id]))
      BY <1>6, <1>9, <2>1, <2>2
    <2>4. Moves  BY <1>4, <2>1, <2>3, OutMoves
    <2>5. free' \in Int  BY <2>1 DEF BInv
    <2> QED  BY <1>10, <1>11, <2>4, <2>5, StepIs
  <1>13. CASE ~((OpenOrders(tr) # {} /\ Entries(tr) = 0) \/ tr.amount = 0)
    <2>1. PICK price \in Prices, s \in AfterFills :
            LET placed == IF Similar(tr, "exit", price, tr.amount) THEN tr
                          ELSE Place(tr, "exit", price, tr.amount)
                closed == TryClose(placed, Len(placed.orders), s)
                o == Last(placed.orders)
            IN  /\ flow' = flow + Sgn(tr) * o.price * o.amount
                /\ IF o.amount # tr.amount
                   THEN /\ trade' = [trade EXCEPT ![id] = Recalc(closed)]
                        /\ UNCHANGED <<lists, profit>>
                   ELSE /\ Unlist(p, id) /\ profit' = profit + Totals(closed).real
                /\ UpdateWallets
      BY <1>2, <1>4, <1>6, <1>13, Zenon DEF Left
    <2>2. PICK placed : placed = IF Similar(tr, "exit", price, tr.amount) THEN tr
                                 ELSE Place(tr, "exit", price, tr.amount)
      OBVIOUS
    <2>3. PICK closed : closed = TryClose(placed, Len(placed.orders), s)  OBVIOUS
    <2>4. PICK o : o = Last(placed.orders)  OBVIOUS
    <2>5. tr.amount \in Nat \ {0} /\ price \in Int  BY <1>13, <2>1, PriceIs DEF TradeType
    <2>6. /\ placed \in TradeType /\ placed.dir = tr.dir /\ placed.amount = tr.amount
          /\ Rests(placed, base) /\ Value(placed) = Value(tr) /\ Ratchets(tr, placed)
          /\ Waits(placed, base, o) /\ o.side = "exit"
      <3>1. CASE Similar(tr, "exit", price, tr.amount)
        <4>1. placed = tr  BY <2>2, <3>1
        <4>2. OpenAt(tr, "exit") # {}  BY <3>1 DEF Similar
        <4>3. OpenOrders(tr) # {}  BY <4>2, WaitingAt
        <4>4. PICK w : /\ Waits(tr, base, w) /\ tr.orders[Len(tr.orders)] = w
                       /\ \A side : OpenAt(tr, side) # {} => side = w.side
          BY <1>8, <4>3, WaitingIs
        <4>5. o = w  BY <2>4, <4>1, <4>4 DEF Last
        <4> QED  BY <1>8, <4>1, <4>2, <4>4, <4>5, SelfRatchets
      <3>2. CASE ~Similar(tr, "exit", price, tr.amount)
        <4>1. placed = Place(tr, "exit", price, tr.amount)  BY <2>2, <3>2
        <4>2. "exit" \in {"entry", "exit"} /\ tr.amount <= tr.amount  BY <2>5
        <4>3. PICK w : w = Order("exit", price, tr.amount)  OBVIOUS
        <4>4. /\ placed \in TradeType /\ placed.dir = tr.dir /\ placed.amount = tr.amount
              /\ Rests(placed, base) /\ Waits(placed, base, w)
              /\ placed.orders = Append(base, w) /\ Len(placed.orders) = Len(base) + 1
              /\ Value(placed) = Value(tr) /\ Ratchets(tr, placed)
          BY <1>8, <2>5, <4>1, <4>2, <4>3, PlaceIs
        <4>5. w.side = "exit"  BY <4>3 DEF Order
        <4>6. o = w
          <5>1. base \in Seq(OrderType) /\ w \in OrderType  BY <4>4 DEF Rests, Waits
          <5>2. Append(base, w)[Len(base) + 1] = w  BY <5>1
          <5> QED  BY <2>4, <4>4, <5>2 DEF Last
        <4> QED  BY <4>4, <4>5, <4>6
      <3> QED  BY <3>1, <3>2
    <2>7. o.price \in Int /\ o.amount \in Int  BY <2>6 DEF Waits, OrderType
    <2>8. Sgn(tr) * o.price * o.amount = Sgn(tr) * (o.price * o.amount)  BY <2>7, FlowIs
    <2>9. PICK f \in Int : f = Sgn(tr) * (o.price * o.amount)
      <3>1. PICK m \in Int : m = o.price * o.amount  BY <2>7
      <3>2. PICK g \in {1, -1} : g = Sgn(tr)  BY SgnIs
      <3> QED  BY <3>1, <3>2
    <2>10. Sgn(placed) = Sgn(tr)  BY <2>6 DEF Sgn
    <2>11. /\ flow' = flow + f /\ UpdateWallets
           /\ (o.amount # tr.amount => trade' = [trade EXCEPT ![id] = Recalc(closed)]
                                       /\ UNCHANGED lists /\ UNCHANGED profit)
           /\ (o.amount = tr.amount => Unlist(p, id)
                                       /\ profit' = profit + Totals(closed).real)
      BY <2>1, <2>2, <2>3, <2>4, <2>8, <2>9
    <2>12. CASE o.amount = tr.amount
      <3>1. Totals(closed).real = Value(tr) + f
        BY <2>1, <2>3, <2>6, <2>9, <2>10, <2>12, ExitFilled
      <3>2. Unlist(p, id) /\ profit' = profit + (Value(tr) + f)  BY <2>11, <2>12, <3>1
      <3>3. profit' \in Int /\ flow' = profit' + (flow - profit - Value(trade[id]))
        BY <1>6, <1>9, <2>9, <2>11, <3>2
      <3>4. Moves  BY <1>4, <3>2, <3>3, OutMoves
      <3>5. free' \in Int  BY <2>11, <3>4, FreeTyped
      <3> QED  BY <1>10, <1>11, <3>4, <3>5, StepIs
    <2>13. CASE o.amount # tr.amount
      <3>1. PICK new : new = Recalc(closed)  OBVIOUS
      <3>2. /\ new \in TradeType /\ new.dir = placed.dir /\ new.amount > 0
            /\ Steps(placed, new, o.price) /\ new.orders = Append(base, Done(o))
            /\ Rests(new, Append(base, Done(o))) /\ Value(new) = Value(placed) + f
        BY <2>1, <2>3, <2>6, <2>9, <2>10, <2>13, <3>1, ExitFilled
      <3>3. Sound(new)  BY <1>7, <2>6, <3>2 DEF Sound
      <3>4. Goes(tr, base, new)
        <4>1. tr.amount > 0 /\ new.dir = tr.dir  BY <2>5, <2>6, <3>2
        <4>2. new.init  BY <3>2 DEF Rests, Fits
        <4>3. Goes(placed, base, new)  BY <2>6, <3>2, StepGoes
        <4> QED  BY <1>8, <2>6, <3>2, <4>1, <4>2, <4>3, GoesOn
      <3>5. flow' = flow + (Value(new) - Value(trade[id]))
        BY <1>6, <1>9, <2>6, <2>9, <2>11, <3>2
      <3>6. /\ trade' = [trade EXCEPT ![id] = new] /\ UNCHANGED lists /\ UNCHANGED profit
        BY <2>11, <2>13, <3>1
      <3>7. Rests(trade[id], base) /\ Goes(trade[id], base, new)  BY <1>6, <1>8, <3>4
      <3>8. Moves  BY <1>5, <3>3, <3>5, <3>6, <3>7, SwapMoves
      <3>9. free' \in Int  BY <2>11, <3>8, FreeTyped
      <3> QED  BY <1>10, <1>11, <3>8, <3>9, StepIs
    <2> QED  BY <2>12, <2>13
  <1> QED  BY <1>12, <1>13

LEMMA LeftOpenStep == ASSUME BInv, LeftOpen PROVE BInv' /\ Walks
  <1>1. /\ pc = "left" /\ UNCHANGED clock /\ UNCHANGED loop /\ kind' = kind
    BY DEF LeftOpen
  <1>2. CASE open # <<>> /\ Left(Head(open)) /\ UNCHANGED pc  BY <1>1, <1>2, LeftStep
  <1>3. CASE /\ open = <<>> /\ pc' = "done"
             /\ UNCHANGED <<trade, lists, profit, flow>> /\ UpdateWallets
    <2>1. Moves  BY <1>3, StillMoves
    <2>2. open' = <<>>  BY <1>3 DEF lists
    <2>3. free' \in Int /\ free' = Start + profit'  BY <1>3, <2>1, <2>2, FreeTyped
    <2>4. pc' \in Parts  BY <1>3 DEF Parts
    <2>5. ClockOK' /\ LoopOK'  BY <1>1, <2>4, KindOf, LoopKept
    <2>6. Control'  BY <1>3, <2>2, <2>3 DEF Control
    <2> QED  BY <2>1, <2>3, <2>5, <2>6, StepIs
  <1> QED  BY <1>2, <1>3 DEF LeftOpen, Goto

LEMMA StutterStep == ASSUME BInv, UNCHANGED vars PROVE BInv' /\ Walks
  <1>1. /\ UNCHANGED trade /\ UNCHANGED lists /\ UNCHANGED money /\ UNCHANGED clock
        /\ pc' = pc /\ UNCHANGED loop /\ kind' = kind
    BY DEF vars
  <1>2. free' = free /\ profit' = profit /\ flow' = flow /\ pp' = pp /\ open' = open
    BY <1>1 DEF money, lists
  <1>3. Moves  BY <1>1, <1>2, StillMoves DEF lists
  <1>4. pc \in Parts  BY DEF BInv, LoopOK
  <1>5. ClockOK' /\ LoopOK' /\ queue' = queue /\ row' = row
    BY <1>1, <1>4, KindOf, LoopKept
  <1>6. Mine' = Mine /\ Tr' = Tr  BY <1>1, <1>2, <1>5 DEF Mine, Tr, Id, Pair
  <1>7. Control'  BY <1>1, <1>2, <1>5, <1>6 DEF Control, BInv
  <1>8. free' \in Int  BY <1>2 DEF BInv
  <1> QED  BY <1>3, <1>5, <1>7, <1>8, StepIs

LEMMA StepHolds == BInv /\ [Next]_vars => BInv' /\ Walks
  <1>1. SUFFICES ASSUME BInv, [Next]_vars PROVE BInv' /\ Walks  OBVIOUS
  <1>2. CASE Generator
    BY <1>1, <1>2, NextTickStep, SkipPairStep, PickMainStep, PickDetailStep DEF Generator
  <1>3. CASE Manage
    BY <1>1, <1>3, ManageKeepStep, ManageDropStep, ManageReplaceStep DEF Manage
  <1>4. CASE Entry
    BY <1>1, <1>4, EnterStep, EnterNotStep, FillEntryStep, FillNotStep DEF Entry
  <1>5. CASE Exit
    BY <1>1, <1>5, AdjustNotStep, AdjustEntryStep, AdjustExitStep, ExitNotStep,
       ExitTradeStep DEF Exit
  <1>6. CASE Process
    BY <1>1, <1>6, ProcessNotStep, ProcessExitStep, AgainStep DEF Process
  <1>7. CASE LeftOpen  BY <1>1, <1>7, LeftOpenStep
  <1>8. CASE UNCHANGED vars  BY <1>1, <1>8, StutterStep
  <1> QED  BY <1>1, <1>2, <1>3, <1>4, <1>5, <1>6, <1>7, <1>8 DEF Next

\* Type correctness: the trades are typed because they are sound.
LEMMA TypesHold == ASSUME BInv PROVE TypeOK
  <1>1. trade \in [Ids -> TradeType]  BY DEF BInv, Traded
  <1>2. open \in Seq(Ids) /\ pp \in [Pairs -> Seq(Ids)] /\ count \in Int
    <2>1. open \in Seq(Ids) /\ pp \in [Pairs -> Seq(Ids)] /\ count = Len(open)
      BY DEF BInv, Listed
    <2>2. Len(open) \in Nat  BY <2>1
    <2> QED  BY <2>1, <2>2
  <1>3. profit \in Int /\ free \in Int /\ flow \in Int  BY FlowTyped DEF BInv
  <1> QED  BY <1>1, <1>2, <1>3 DEF TypeOK, BInv, ClockOK, LoopOK

LEMMA SlotsHold == ASSUME BInv PROVE SlotsRespected
  <1>1. Traded(trade) /\ Listed(trade, open, pp, count)  BY DEF BInv
  <1>2. open \in Seq(Ids) /\ count = Len(open) /\ (MaxOpen > 0 => count <= MaxOpen)
    BY <1>1 DEF Listed
  <1>3. ToSet(open) \subseteq Ids  BY <1>2 DEF ToSet
  <1>4. ToSet(open) = {id \in Ids : trade[id] # NoTrade}  BY <1>1, <1>3 DEF Listed
  <1>5. \A id : ToSet(<<id>>) = {id} /\ Len(<<id>>) = 1
    <2> SUFFICES ASSUME NEW id PROVE ToSet(<<id>>) = {id} /\ Len(<<id>>) = 1  OBVIOUS
    <2>1. DOMAIN <<id>> = {1} /\ <<id>>[1] = id  OBVIOUS
    <2> QED  BY <2>1 DEF ToSet
  <1>6. ToSet(<<>>) = {} /\ Len(<<>>) = 0  BY DEF ToSet
  <1>7. \A p \in Pairs : Len(pp[p]) <= 1 /\ ToSet(pp[p]) \subseteq ToSet(open)
    <2> SUFFICES ASSUME NEW p \in Pairs
                 PROVE Len(pp[p]) <= 1 /\ ToSet(pp[p]) \subseteq ToSet(open)
      OBVIOUS
    <2>1. CASE pp[p] = <<>>  BY <1>6, <2>1
    <2>2. CASE \E id \in ToSet(open) : pp[p] = <<id>>
      <3>1. PICK id \in ToSet(open) : pp[p] = <<id>>  BY <2>2
      <3>2. ToSet(pp[p]) = {id} /\ Len(pp[p]) = 1  BY <1>5, <3>1
      <3> QED  BY <3>1, <3>2
    <2> QED  BY <1>1, <2>1, <2>2 DEF Listed
  <1>8. \A id \in ToSet(open) : \E p \in Pairs : id \in ToSet(pp[p])
    <2> SUFFICES ASSUME NEW id \in ToSet(open) PROVE \E p \in Pairs : id \in ToSet(pp[p])
      OBVIOUS
    <2>1. PICK p \in Pairs : pp[p] = <<id>>  BY <1>1 DEF Listed
    <2>2. id \in ToSet(pp[p])  BY <1>5, <2>1
    <2> QED  BY <2>2
  <1>9. ToSet(open) = UNION {ToSet(pp[p]) : p \in Pairs}  BY <1>7, <1>8
  <1> QED  BY <1>2, <1>4, <1>7, <1>9 DEF SlotsRespected

\* What the books say of one trade is its value.
Booking(x) ==
  (IF Kept(x) THEN 0 ELSE x.real) - (IF x.amount > 0 THEN Sgn(x) * x.stake ELSE 0)

LEMMA BookingIs ==
  ASSUME NEW x, Sound(x)
  PROVE  Booking(x) = Value(x) /\ (Kept(x) => Totals(x).real = 0)
         /\ OpenOrders(x) \subseteq {Len(x.orders)}
  <1>1. PICK base : x \in TradeType /\ Rests(x, base)  BY DEF Sound
  <1>2. PICK s \in BooksType : s = Totals(x)  BY <1>1, RestsIs
  <1>3. s = Books(base, Sgn(x))  BY <1>1, <1>2, RestsIs
  <1>4. Fits(x, base)  BY <1>1 DEF Rests
  <1>5. Kept(x) => s.real = 0  BY <1>2, <1>3, <1>4 DEF Fits, Kept
  <1>6. s.stake \in Int /\ s.real \in Int /\ x.amount \in Nat /\ x.stake \in Int
    BY <1>1 DEF BooksType, TradeType
  <1>7. (IF Kept(x) THEN 0 ELSE x.real) = s.real  BY <1>2, <1>5 DEF Kept
  <1>8. (IF x.amount > 0 THEN Sgn(x) * x.stake ELSE 0) = Sgn(x) * s.stake
    <2>1. CASE x.amount > 0  BY <1>3, <1>4, <2>1 DEF Fits
    <2>2. CASE x.amount = 0
      <3>1. s.stake = 0  BY <1>3, <1>4, <2>2 DEF Fits, Zero
      <3>2. PICK g \in {1, -1} : g = Sgn(x)  BY SgnIs
      <3>3. g * 0 = 0  BY <3>2
      <3> QED  BY <2>2, <3>1, <3>2, <3>3
    <2> QED  BY <1>6, <2>1, <2>2
  <1>9. Booking(x) = Value(x)  BY <1>2, <1>7, <1>8 DEF Booking, Value
  <1> QED  BY <1>1, <1>2, <1>5, <1>9, RestsIs

LEMMA BookingsSum ==
  ASSUME NEW trs, NEW S \in SUBSET Ids, NEW f, \A id \in S : f[id] = Booking(trs[id]),
         Summable(f, S)
  PROVE  MapThenSumSet(
           LAMBDA id : LET x == trs[id] IN
             (IF Kept(x) THEN 0 ELSE x.real) - (IF x.amount > 0 THEN Sgn(x) * x.stake ELSE 0),
           S) = SumOver(f, S)
  <1> DEFINE Eq(g) == g = [T \in SUBSET S |->
               IF T = {} THEN 0
               ELSE LET i == CHOOSE i \in T : TRUE IN Booking(trs[i]) + g[T \ {i}]]
  <1>1. \A g : Eq(g) <=> Adds(g, f, S)
    <2>1. \A T \in SUBSET S : T # {} => Pick(T) \in S  BY DEF Pick
    <2>2. \A T \in SUBSET S : T # {} => f[Pick(T)] = Booking(trs[CHOOSE i \in T : TRUE])
      BY <2>1 DEF Pick
    <2> QED  BY <2>2 DEF Adds, Pick
  <1>2. \E g : Eq(g)
    <2> HIDE DEF Eq
    <2> QED  BY <1>1, SumExists
  <1>3. Adds(CHOOSE g : Eq(g), f, S)  BY <1>1, <1>2
  <1>4. MapThenSumSet(
          LAMBDA id : LET x == trs[id] IN
            (IF Kept(x) THEN 0 ELSE x.real) - (IF x.amount > 0 THEN Sgn(x) * x.stake ELSE 0),
          S) = (CHOOSE g : Eq(g))[S]
    BY DEF MapThenSumSet, MapThenFoldSet, Booking
  <1> HIDE DEF Eq
  <1> QED  BY <1>3, <1>4, SumIs

LEMMA FlowsHold == ASSUME BInv PROVE FlowsAreBooked
  <1>1. TypeOK /\ SlotsRespected  BY TypesHold, SlotsHold
  <1>2. Traded(trade) /\ profit \in Int /\ flow = profit + Worth(trade)  BY DEF BInv
  <1>3. \A id \in Ids : trade[id] # NoTrade => Sound(trade[id])  BY <1>2, SoundIs
  <1>4. OneOpenOrder
    <2> SUFFICES ASSUME NEW id \in Ids
                 PROVE OpenOrders(trade[id]) \subseteq {Len(trade[id].orders)}
      BY DEF OneOpenOrder
    <2>1. CASE trade[id] = NoTrade  BY <2>1, NoTradeIs
    <2>2. CASE trade[id] # NoTrade  BY <1>3, <2>2, BookingIs
    <2> QED  BY <2>1, <2>2
  <1>5. \A id \in Ids : Kept(trade[id]) => Totals(trade[id]).real = 0
    <2> SUFFICES ASSUME NEW id \in Ids, Kept(trade[id])
                 PROVE Totals(trade[id]).real = 0
      OBVIOUS
    <2>1. trade[id] # NoTrade  BY NoTradeIs
    <2> QED  BY <1>3, <2>1, BookingIs
  <1>6. PICK S \in SUBSET Ids : S = ToSet(open)
    <2>1. ToSet(open) \subseteq Ids  BY DEF BInv, Listed, ToSet
    <2> QED  BY <2>1
  <1>7. \A id \in Ids : id \in S <=> trade[id] # NoTrade  BY <1>6 DEF BInv, Listed
  <1>8. PICK f : f = Values(trade)  OBVIOUS
  <1>9. Summable(f, Ids) /\ Summable(f, S)  BY <1>2, <1>8, WorthIs, SumSubset
  <1>10. \A id \in S : f[id] = Booking(trade[id])
    BY <1>3, <1>7, <1>8, BookingIs DEF Values
  <1>11. \A id \in Ids \ S : f[id] = 0  BY <1>7, <1>8, NoTradeIs DEF Values
  <1>12. SumOver(f, Ids) = SumOver(f, S)  BY <1>9, <1>11, SumPadded
  <1>13. flow = profit + SumOver(f, S)  BY <1>2, <1>8, <1>12 DEF Worth
  <1>14. MapThenSumSet(
           LAMBDA id : LET x == trade[id] IN
             (IF Kept(x) THEN 0 ELSE x.real) - (IF x.amount > 0 THEN Sgn(x) * x.stake ELSE 0),
           S) = SumOver(f, S)
    BY <1>9, <1>10, BookingsSum
  <1> QED  BY <1>1, <1>4, <1>5, <1>6, <1>13, <1>14 DEF FlowsAreBooked

LEMMA FlatHolds == ASSUME BInv PROVE EndsFlat
  <1>1. SUFFICES ASSUME pc = "done" PROVE open = <<>> /\ flow = profit /\ free = Start + profit
    BY DEF EndsFlat
  <1>2. open = <<>> /\ free = Start + profit  BY <1>1 DEF BInv, Control
  <1>3. Traded(trade) /\ profit \in Int /\ flow = profit + Worth(trade)  BY DEF BInv
  <1>4. \A id \in Ids : trade[id] = NoTrade
    <2>1. ToSet(open) = {}  BY <1>2 DEF ToSet
    <2> QED  BY <2>1 DEF BInv, Listed
  <1>5. PICK f : f = Values(trade)  OBVIOUS
  <1>6. \A id \in Ids : f[id] = 0  BY <1>4, <1>5, NoTradeIs DEF Values
  <1>7. Summable(f, Ids) /\ Summable(f, {})
    <2>1. {} \in SUBSET Ids  OBVIOUS
    <2> QED  BY <1>3, <1>5, <2>1, WorthIs, SumSubset
  <1>8. SumOver(f, Ids) = SumOver(f, {})  BY <1>6, <1>7, SumPadded
  <1>9. Worth(trade) = 0  BY <1>5, <1>8, SumEmpty DEF Worth
  <1> QED  BY <1>2, <1>3, <1>9

\* What holds of every state of a backtest: the lists, the count and the trades agree,
\* every trade is what its filled orders make of it, and the books have every payment.
THEOREM BooksInvariant == Spec => []BInv
  <1>1. Init => BInv  BY InitHolds
  <1>2. BInv /\ [Next]_vars => BInv'  BY StepHolds
  <1> QED  BY <1>1, <1>2, PTL DEF Spec

\* A backtest loses no money and invents none: after every step what all filled orders
\* brought and cost is the profit of the closed trades plus what the books say of the
\* open ones, whatever was replaced, cancelled, adjusted or recalculated on the way; no
\* pair ever has two trades, max_open_trades is respected, and only the last order of a
\* trade can be open.
THEOREM FlowsBooked == Spec => []FlowsAreBooked
  <1>1. BInv => FlowsAreBooked  BY FlowsHold
  <1> QED  BY <1>1, BooksInvariant, PTL

\* handle_left_open leaves nothing: a finished run has no open trade, its profit is all
\* the money that moved, and the wallet shows the start and that profit.
THEOREM FlatAtTheEnd == Spec => []EndsFlat
  <1>1. BInv => EndsFlat  BY FlatHolds
  <1> QED  BY <1>1, BooksInvariant, PTL

\* adjust_stop_loss and its callers: once a trade holds coins its stop only walks towards
\* profit, for longs and shorts, through additional entries, partial exits, trailing and
\* recalculations.  The one exception is a fill: if the stop was not beyond its price,
\* custom_stoploss may set it anew (allow_refresh), and then it is never further behind
\* the price of that fill than the distance that was asked for.
THEOREM StopsOnlyRatchet == Spec => StopRatchets
  <1>1. BInv /\ [Next]_vars => Walks  BY StepHolds
  <1>2. BInv /\ [Next]_vars =>
          [\A id \in Ids :
             Entries(trade[id]) > 0 /\ trade'[id].dir = trade[id].dir =>
               Walked(trade[id], trade'[id])]_vars
    BY <1>1 DEF Walks
  <1> QED  BY <1>2, BooksInvariant, PTL DEF Spec, StopRatchets
=============================================================================
