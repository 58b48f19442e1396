------------------------------ MODULE Backtest ------------------------------
(***************************************************************************)
(* The simulation loop of freqtrade/optimize/backtesting.py over recorded  *)
(* candles: for every main candle (and, with a detail timeframe, every     *)
(* detail candle in it) and every pair, open orders are timed out,         *)
(* cancelled or replaced, a signal may open a trade, entry orders fill,    *)
(* positions are adjusted, exits are placed and filled; at the end what is *)
(* left is closed.  Trades live in the class lists of LocalTrade and the   *)
(* simulated wallet is computed from them (wallets._update_dry).           *)
(*                                                                         *)
(* A step is one numbered part of backtest_loop for one pair.  Candles,    *)
(* signals and every strategy callback are chosen freely.  Prices are      *)
(* integers, the fee is zero, leverage is 1, a stop is a distance below    *)
(* (above, for a short) a price.                                           *)
(***************************************************************************)
EXTENDS Integers, Sequences, FiniteSets, SequencesExt, Subsequences

CONSTANTS
    Pairs, None,
    Dirs,           \* {"long"}, or {"long", "short"} where the market can short
    Prices,         \* prices of candles and orders
    Dist,           \* distance of the stop, strategy.stoploss
    Customs,        \* distances custom_stoploss may ask for; {}: it has no after_fill
    Coins,          \* amounts custom_stake_amount may ask for
    MaxOpen,        \* max_open_trades, 0 for no limit
    MaxAdjust,      \* max_entry_position_adjustment, -1: no position adjustment
    Candles,        \* bound: main candles of the run
    Details,        \* detail candles in a main candle, 1: no detail timeframe
    Start           \* dry_run_wallet

ASSUME CandlesAssumption ==
    /\ Candles \in Nat \ {0} /\ Details \in Nat \ {0}
    /\ IsFiniteSet(Pairs) /\ None \notin Pairs
    /\ Dirs \in {{"long"}, {"long", "short"}}
ASSUME MoneyAssumption ==
    /\ Prices \subseteq Nat /\ Coins \subseteq Nat \ {0} /\ Start \in Nat
    /\ Dist \in Nat \ {0} /\ Customs \subseteq Nat \ {0}
    /\ \A p \in Prices : \A k \in Customs \union {Dist} : p > k
    /\ MaxOpen \in Nat /\ MaxAdjust \in Nat \union {-1}

Ids == 1..Cardinality(Pairs)
Ticks == 0..Details - 1

VARIABLES
    trade,              \* the LocalTrade of an id that is in use
    open, pp, count,    \* bt_trades_open, bt_trades_open_pp, bt_open_open_trade_count
    profit,             \* bt_total_profit
    free,               \* wallets.get_free(stake currency), as of the last update
    flow,               \* history: what all sells brought less what all buys cost
    t, d, queue,        \* main candle, detail candle in it, pairs still to do
    withOpen,           \* pairs_with_open_trades
    sigOf, detailed,    \* pair_tradedir_cache, pairs in pair_detail_cache
    pc, row, sig,       \* part of backtest_loop, candle of the pair, trade_dir
    pass, exiting,      \* first or second call for the candle, exiting_dir
    kind                \* exit type of the order just placed

lists == <<open, pp, count>>
money == <<profit, free, flow>>
clock == <<t, d, queue, withOpen, sigOf, detailed>>
loop == <<row, sig, pass, exiting>>
vars == <<trade, lists, money, clock, pc, loop, kind>>

NoRow == [open |-> 0, low |-> 0, high |-> 0]
Rows == {r \in [open : Prices, low : Prices, high : Prices] :
            r.low <= r.open /\ r.open <= r.high}
Parts == {"pick", "manage", "entry", "fill", "adjust", "partial", "exit",
          "process", "again", "left", "done"}
NoTrade == [dir |-> "none", orders |-> <<>>, stop |-> 0, pct |-> 0, init |-> FALSE,
            trailing |-> FALSE, amount |-> 0, rate |-> 0, stake |-> 0, real |-> 0,
            fresh |-> FALSE]

Sgn(tr) == IF tr.dir = "short" THEN -1 ELSE 1
Higher(a, b) == IF a > b THEN a ELSE b
Lower(a, b) == IF a < b THEN a ELSE b
InRow(price, r) == r.low <= price /\ price <= r.high
OpenAt(tr, side) == {i \in DOMAIN tr.orders : tr.orders[i].open /\ tr.orders[i].side = side}
OpenOrders(tr) == OpenAt(tr, "entry") \union OpenAt(tr, "exit")
Newest(S) == CHOOSE i \in S : \A j \in S : j <= i
Filled(tr, side) == {i \in DOMAIN tr.orders : ~tr.orders[i].open /\ tr.orders[i].side = side}
Entries(tr) == Cardinality(Filled(tr, "entry"))

\* LocalTrade.adjust_stop_loss: the first call after a reset sets, later ones ratchet.
AdjustStop(tr, price, dist) ==
    LET new == price - Sgn(tr) * dist
    IN  IF ~tr.init
        THEN [tr EXCEPT !.stop = new, !.pct = dist, !.init = TRUE]
        ELSE IF Sgn(tr) * new > Sgn(tr) * tr.stop
        THEN [tr EXCEPT !.stop = new, !.pct = dist, !.trailing = TRUE]
        ELSE tr

\* adjust_stop_loss with allow_refresh: in both directions, and not as trailing.
RefreshStop(tr, price, dist) == [tr EXCEPT !.stop = price - Sgn(tr) * dist, !.pct = dist]

\* What the strategy makes of the stop after a fill: a distance that custom_stoploss
\* returns, and one of trailing_stop; 0 where there is none, as always without after_fill.
Distances == Customs \union {Dist}
AfterFills == [custom : Customs \union {0},
               trail : {0} \union IF Customs = {} THEN {} ELSE Distances]
\* _call_adjust_stop: ft_stoploss_adjust at the price of the fill, unless the stop is
\* beyond it.
AfterFill(tr, price, s) ==
    LET custom == IF s.custom = 0 THEN tr ELSE RefreshStop(tr, price, s.custom)
    IN  IF Sgn(tr) * tr.stop >= Sgn(tr) * price THEN tr
        ELSE IF s.trail = 0 THEN custom ELSE AdjustStop(custom, price, s.trail)

\* recalc_trade_from_orders: amount, stake and profit of the filled orders in order.
\* What is sold cost its share of the stake, avg_price for each coin.
Booked(s, o, sgn) ==
    LET cost == (s.stake * o.amount) \div s.amount
    IN  IF o.open THEN s
        ELSE IF o.side = "entry"
        THEN [amount |-> s.amount + o.amount, stake |-> s.stake + o.price * o.amount,
              real |-> s.real]
        ELSE [amount |-> s.amount - o.amount, stake |-> s.stake - cost,
              real |-> s.real + sgn * (o.price * o.amount - cost)]
Books(orders, sgn) ==
    LET after[n \in 0..Len(orders)] ==
            IF n = 0 THEN [amount |-> 0, stake |-> 0, real |-> 0]
            ELSE Booked(after[n - 1], orders[n], sgn)
    IN  after[Len(orders)]
Totals(tr) == Books(tr.orders, Sgn(tr))
Recalc(tr) ==
    LET s == Totals(tr)
        r == [tr EXCEPT !.real = IF s.real # 0 THEN s.real ELSE @]
    IN  IF s.amount > 0
        THEN AdjustStop([r EXCEPT !.amount = s.amount, !.stake = s.stake,
                                  !.rate = s.stake \div s.amount],
                        s.stake \div s.amount, tr.pct)
        ELSE r

Order(side, price, amount) ==
    [side |-> side, price |-> price, amount |-> amount, open |-> TRUE, fresh |-> TRUE]
Drop(tr, i) == [tr EXCEPT !.orders = RemoveAt(@, i)]
CancelAll(tr) == [tr EXCEPT !.orders = Subsequence(@, {i \in DOMAIN @ : ~@[i].open})]
Similar(tr, side, price, amount) ==
    /\ OpenAt(tr, side) # {}
    /\ LET o == tr.orders[Newest(OpenAt(tr, side))]
       IN  o.price = price /\ o.amount = amount

\* Mutant: every entry starts the stop anew.
CloseOrderAnew(tr, i) ==
    LET closed == [tr EXCEPT !.orders[i].open = FALSE]
        priced == Recalc([closed EXCEPT !.rate = tr.orders[i].price])
        reset == [priced EXCEPT !.init = FALSE, !.trailing = FALSE]
    IN  IF tr.orders[i].side = "entry" THEN AdjustStop(reset, reset.rate, reset.pct)
        ELSE closed
\* close_bt_order: an entry takes its price; the first one starts the stop anew.
CloseOrder(tr, i) ==
    LET closed == [tr EXCEPT !.orders[i].open = FALSE]
        priced == Recalc([closed EXCEPT !.rate = tr.orders[i].price])
        reset == IF Entries(priced) = 1
                 THEN [priced EXCEPT !.init = FALSE, !.trailing = FALSE] ELSE priced
    IN  IF tr.orders[i].side = "entry" THEN AdjustStop(reset, reset.rate, reset.pct)
        ELSE closed

\* _try_close_open_order of an order that fills: the stop is looked at again unless
\* the whole position was sold.
TryClose(tr, i, s) ==
    LET o == tr.orders[i]
        closed == CloseOrder(tr, i)
    IN  IF o.side = "exit" /\ o.amount = tr.amount THEN closed
        ELSE AfterFill(closed, o.price, s)

\* handle_similar_order's cancel_open_orders and the new order.
Place(tr, side, price, amount) ==
    [CancelAll(tr) EXCEPT !.orders = Append(@, Order(side, price, amount))]
\* _enter_trade from the new order on: it fills at once if its price is in the candle.
PlaceEntry(tr, price, amount, s) ==
    LET placed == Place(IF tr.stop = 0 THEN AdjustStop(tr, tr.rate, Dist) ELSE tr,
                        "entry", price, amount)
    IN  Recalc(IF InRow(price, row) THEN TryClose(placed, Len(placed.orders), s)
               ELSE placed)
NewTrade(dir, price, amount, s) ==
    PlaceEntry([NoTrade EXCEPT !.dir = dir, !.rate = price, !.stake = price * amount,
                               !.fresh = TRUE], price, amount, s)
\* The cash an entry that fills now moves: a long buys, a short sells.
EntryFlow(tr, price, amount) ==
    IF InRow(price, row) THEN -Sgn(tr) * price * amount ELSE 0

\* wallets._update_dry: free stake currency from the class lists.
Free(trs, ids, total) ==
    Start + total + MapThenSumSet(LAMBDA id : trs[id].real - trs[id].stake, ToSet(ids))
UpdateWallets == free' = Free(trade', open', profit')

Pair == Head(queue)
Mine == pp[Pair]
Id == Head(Mine)
Tr == trade[Id]
Put(tr) == trade' = [trade EXCEPT ![Id] = tr]
Without(list, id) == Subsequence(list, {i \in DOMAIN list : list[i] # id})
\* remove_bt_trade and the list part of close_bt_trade.
Unlist(pair, id) ==
    /\ trade' = [trade EXCEPT ![id] = NoTrade]
    /\ open' = Without(open, id)
    /\ pp' = [pp EXCEPT ![pair] = Without(@, id)]
    /\ count' = count - 1
Goto(part) == pc' = part

PairOf(id) == CHOOSE p \in Pairs : Contains(pp[p], id)
\* Pairs of open trades come first, in the order of bt_trades_open.
PairOrder == CHOOSE s \in SetToSeqs(Pairs) : TRUE
PairQueue ==
    LET all == [i \in DOMAIN open |-> PairOf(open[i])] \o PairOrder
    IN  Subsequence(all, {i \in DOMAIN all : \A j \in 1..i - 1 : all[j] # all[i]})
Holding == {p \in Pairs : pp[p] # <<>>}

Init ==
    /\ trade = [id \in Ids |-> NoTrade]
    /\ open = <<>> /\ pp = [p \in Pairs |-> <<>>] /\ count = 0
    /\ profit = 0 /\ free = Start /\ flow = 0
    /\ t = 1 /\ d = 0 /\ queue = PairQueue
    /\ withOpen = {} /\ sigOf = [p \in Pairs |-> None] /\ detailed = {}
    /\ pc = "pick" /\ row = NoRow /\ sig = None /\ pass = 1 /\ exiting = None
    /\ kind = None

-----------------------------------------------------------------------------
(* time_pair_generator *)

Older(tr) == [tr EXCEPT !.fresh = FALSE,
                        !.orders = [i \in DOMAIN @ |-> [@[i] EXCEPT !.fresh = FALSE]]]
NextTick ==
    /\ pc = "pick" /\ queue = <<>> /\ t <= Candles
    /\ trade' = [id \in Ids |-> Older(trade[id])]
    /\ IF d + 1 < Details /\ detailed # {}
       THEN /\ d' = d + 1 /\ UNCHANGED <<t, withOpen, sigOf, detailed>>
       ELSE /\ t' = t + 1 /\ d' = 0 /\ withOpen' = Holding
            /\ sigOf' = [p \in Pairs |-> None] /\ detailed' = {}
    /\ queue' = IF t' <= Candles THEN PairQueue ELSE <<>>
    /\ Goto(IF t' <= Candles THEN "pick" ELSE "left")
    /\ UNCHANGED <<lists, money, loop, kind>>

\* No row for the pair, or one of the generator's continue statements.
SkipPair ==
    /\ pc = "pick" /\ queue # <<>>
    /\ queue' = Tail(queue)
    /\ UNCHANGED <<trade, lists, money, t, d, withOpen, sigOf, detailed, pc, loop, kind>>

StartLoop(dir, r) ==
    /\ row' = r /\ sig' = dir /\ pass' = 1 /\ Goto("manage")
    /\ exiting' = IF Mine = <<>> THEN None ELSE Tr.dir
    /\ withOpen' = IF Mine = <<>> THEN withOpen ELSE withOpen \union {Pair}
    /\ UNCHANGED <<trade, lists, money, t, d, queue, kind>>
PickMain ==
    /\ pc = "pick" /\ queue # <<>> /\ d = 0
    /\ Pair \in withOpen => Mine # <<>>
    /\ \E dir \in Dirs \union {None}, r \in Rows :
          /\ StartLoop(dir, r)
          /\ sigOf' = [sigOf EXCEPT ![Pair] = dir]
          /\ detailed' = IF Details > 1 /\ (dir # None \/ Mine # <<>>)
                         THEN detailed \union {Pair} ELSE detailed
PickDetail ==
    /\ pc = "pick" /\ queue # <<>> /\ d > 0 /\ Pair \in detailed
    /\ Pair \in withOpen => Mine # <<>>
    /\ \E dir \in {sigOf[Pair], None}, r \in Rows : StartLoop(dir, r)
    /\ UNCHANGED <<sigOf, detailed>>

-----------------------------------------------------------------------------
(* backtest_loop, 1: manage_open_orders *)

Managed == Tr.orders[Newest(OpenOrders(Tr))]
\* No open order, or one that has not timed out and keeps its price.
ManageKeep ==
    /\ pc = "manage" /\ Goto("entry")
    /\ UNCHANGED <<trade, lists, money, clock, loop, kind>>
RemoveTrade ==
    /\ Unlist(Pair, Id) /\ UNCHANGED profit /\ UpdateWallets
\* Mutant: a timed out entry removes the trade, filled entries or not.
ManageDropTrade ==
    /\ pc = "manage" /\ Mine # <<>> /\ OpenOrders(Tr) # {} /\ Goto("entry")
    /\ IF Managed.side = "entry"
       THEN RemoveTrade
       ELSE Put(Drop(Tr, Newest(OpenOrders(Tr)))) /\ UNCHANGED <<lists, profit, free>>
    /\ UNCHANGED <<flow, clock, loop, kind>>
\* check_order_cancel; check_order_replace without a new price or a new order.
ManageDrop ==
    /\ pc = "manage" /\ Mine # <<>> /\ OpenOrders(Tr) # {} /\ Goto("entry")
    /\ IF Managed.side = "entry" /\ Entries(Tr) = 0
       THEN RemoveTrade
       ELSE Put(Drop(Tr, Newest(OpenOrders(Tr)))) /\ UNCHANGED <<lists, profit, free>>
    /\ UNCHANGED <<flow, clock, loop, kind>>
\* check_order_replace: the order is deleted, then placed at the new price (ManageDrop
\* when confirm_trade_entry or the amount left after truncation prevents it).
ManageReplace ==
    /\ pc = "manage" /\ Mine # <<>> /\ OpenOrders(Tr) # {} /\ ~Managed.fresh /\ Goto("entry")
    /\ \E price \in Prices \ {Managed.price}, s \in AfterFills :
        LET dropped == Drop(Tr, Newest(OpenOrders(Tr)))
            amount == (Managed.amount * Managed.price) \div price
        IN  \/ /\ Managed.side = "entry" /\ amount > 0
               /\ Put(PlaceEntry(dropped, price, amount, s))
               /\ flow' = flow + EntryFlow(Tr, price, amount)
               /\ UNCHANGED <<lists, profit, free>>
            \/ /\ Managed.side = "exit"
               /\ Put(Place(dropped, "exit", price, Managed.amount))
               /\ UNCHANGED <<lists, money>>
    /\ UNCHANGED <<clock, loop, kind>>

-----------------------------------------------------------------------------
(* 2: a new trade.  3: entry orders *)

LastRow == t = Candles /\ d = 0
SlotAvailable == MaxOpen = 0 \/ count < MaxOpen
\* wallets.validate_stake_amount caps a stake to what was free at the last update.
Affordable(price, amount) == price * amount <= free
EntryPrice(dir, price) ==
    price \in Prices /\ IF dir = "long" THEN price <= row.high ELSE price >= row.low
Enter ==
    /\ pc = "entry" /\ Mine = <<>> /\ sig # None /\ ~LastRow /\ SlotAvailable
    /\ \E price \in Prices, amount \in Coins, s \in AfterFills :
        LET id == CHOOSE i \in Ids : trade[i] = NoTrade
            tr == NewTrade(sig, price, amount, s)
        IN  /\ EntryPrice(sig, price) /\ Affordable(price, amount)
            /\ trade' = [trade EXCEPT ![id] = tr]
            /\ open' = Append(open, id) /\ count' = count + 1
            /\ pp' = [pp EXCEPT ![Pair] = Append(@, id)]
            /\ flow' = flow + EntryFlow(tr, price, amount)
    /\ UNCHANGED <<profit, clock, loop, kind>>
    /\ UpdateWallets /\ Goto("fill")
\* No signal, a locked pair, no slot, no stake, or confirm_trade_entry said no.
EnterNot ==
    /\ pc = "entry" /\ Goto("fill")
    /\ UNCHANGED <<trade, lists, money, clock, loop, kind>>

FillEntry ==
    /\ pc = "fill" /\ Mine # <<>> /\ OpenAt(Tr, "entry") # {}
    /\ LET i == Newest(OpenAt(Tr, "entry"))
       IN  /\ InRow(Tr.orders[i].price, row)
           /\ \E s \in AfterFills : Put(TryClose(Tr, i, s))
           /\ flow' = flow - Sgn(Tr) * Tr.orders[i].price * Tr.orders[i].amount
    /\ UNCHANGED <<lists, profit, clock, loop, kind>>
    /\ UpdateWallets /\ Goto("adjust")
FillNot ==
    /\ pc = "fill"
    /\ Mine # <<>> => \A i \in OpenAt(Tr, "entry") : ~InRow(Tr.orders[i].price, row)
    /\ Goto(IF Mine = <<>> THEN "again" ELSE IF Tr.amount > 0 THEN "adjust" ELSE "process")
    /\ UNCHANGED <<trade, lists, money, clock, loop, kind>>

-----------------------------------------------------------------------------
(* 4: _check_adjust_trade_for_candle, then _check_trade_exit *)

AdjustNot ==
    /\ pc = "adjust" /\ Goto("exit")
    /\ UNCHANGED <<trade, lists, money, clock, loop, kind>>
AdjustEntry ==
    /\ pc = "adjust" /\ Goto("exit") /\ Entries(Tr) <= MaxAdjust
    /\ \E price \in Prices, amount \in Coins, s \in AfterFills :
          /\ EntryPrice(Tr.dir, price) /\ Affordable(price, amount)
          /\ ~Similar(Tr, "entry", price, amount)
          /\ Put(PlaceEntry(Tr, price, amount, s))
          /\ flow' = flow + EntryFlow(Tr, price, amount)
    /\ UNCHANGED <<lists, profit, clock, loop, kind>>
    /\ UpdateWallets
\* A custom exit price is clipped to the candle's far side.
ExitPrice(tr, price) ==
    price \in Prices /\ IF tr.dir = "long" THEN price >= row.low ELSE price <= row.high
AdjustExit ==
    /\ pc = "adjust" /\ MaxAdjust >= 0 /\ Goto("partial")
    /\ \E price \in Prices, amount \in 1..Tr.amount :
          /\ ExitPrice(Tr, price) /\ ~Similar(Tr, "exit", price, amount)
          /\ Put(Place(Tr, "exit", price, amount))
    /\ kind' = "partial_exit"
    /\ UNCHANGED <<lists, money, clock, loop>>

\* ft_stoploss_adjust: a custom or trailing stop, while the stop is out of the candle.
Trailed(tr) ==
    {tr} \union
    IF tr.dir = "long"
    THEN IF tr.stop < row.low THEN {AdjustStop(tr, row.high, k) : k \in Distances} ELSE {}
    ELSE IF tr.stop > row.high THEN {AdjustStop(tr, row.low, k) : k \in Distances} ELSE {}
StopHit(tr) == IF tr.dir = "long" THEN tr.stop >= row.low ELSE tr.stop <= row.high
\* _get_close_rate_for_stoploss
StopRate(tr) ==
    IF tr.dir = "long"
    THEN IF tr.stop > row.high THEN row.open
         ELSE IF tr.trailing /\ tr.fresh THEN Higher(row.low, row.open - tr.pct) ELSE tr.stop
    ELSE IF tr.stop < row.low THEN row.open
         ELSE IF tr.trailing /\ tr.fresh THEN Lower(row.high, row.open + tr.pct) ELSE tr.stop
\* _get_close_rate_for_roi: the open, or the rate of the ROI clipped to the candle.
RoiRates == {q \in Prices : InRow(q, row)}
\* should_exit: what it may propose, at which price.
Exits(tr) ==
    {<<"signal", p>> : p \in {q \in Prices : ExitPrice(tr, q)}}
    \union {<<"roi", p>> : p \in RoiRates}
    \union IF StopHit(tr) THEN {<<"stop", StopRate(tr)>>} ELSE {}
ExitNot ==
    /\ pc = "exit" /\ \E tr \in Trailed(Tr) : Put(tr)
    /\ Goto("process")
    /\ UNCHANGED <<lists, money, clock, loop, kind>>
ExitTrade ==
    /\ pc = "exit"
    /\ \E tr \in Trailed(Tr) : \E e \in Exits(tr) :
          /\ ~Similar(tr, "exit", e[2], tr.amount)
          /\ Put(Place(tr, "exit", e[2], tr.amount)) /\ kind' = e[1]
    /\ Goto("process")
    /\ UNCHANGED <<lists, money, clock, loop>>

-----------------------------------------------------------------------------
(* 5: _process_exit_order *)

ExitOrder == Newest(OpenAt(Tr, "exit"))
ProcessNot ==
    /\ pc \in {"partial", "process"}
    /\ OpenAt(Tr, "exit") # {} => ~InRow(Tr.orders[ExitOrder].price, row)
    /\ kind' = None /\ Goto(IF pc = "partial" THEN "exit" ELSE "again")
    /\ UNCHANGED <<trade, lists, money, clock, loop>>
\* The order at i of trade id fills: the whole position closes the trade.
FillExit(pair, id, i, s) ==
    LET closed == TryClose(trade[id], i, s)
        o == trade[id].orders[i]
    IN  /\ flow' = flow + Sgn(trade[id]) * o.price * o.amount
        /\ IF o.amount # trade[id].amount
           THEN /\ trade' = [trade EXCEPT ![id] = Recalc(closed)]
                /\ UNCHANGED <<lists, profit>>
           ELSE /\ Unlist(pair, id)
                /\ profit' = profit + Totals(closed).real
        /\ UpdateWallets
ProcessExit ==
    /\ pc \in {"partial", "process"} /\ OpenAt(Tr, "exit") # {}
    /\ InRow(Tr.orders[ExitOrder].price, row)
    /\ \E s \in AfterFills : FillExit(Pair, Id, ExitOrder, s)
    /\ kind' = None
    /\ Goto(IF pc = "partial" /\ pp'[Pair] # <<>> THEN "exit" ELSE "again")
    /\ UNCHANGED <<clock, loop>>

\* backtest: a second call when the position closed and the signal is for the other side.
Again ==
    /\ pc = "again"
    /\ IF /\ Cardinality(Dirs) > 1 /\ sig # None /\ pass = 1
          /\ exiting # None /\ Mine = <<>> /\ exiting # sig
       THEN pass' = 2 /\ Goto("manage") /\ exiting' = None /\ UNCHANGED <<queue, row, sig>>
       ELSE /\ pass' = 1 /\ Goto("pick") /\ exiting' = None
            /\ queue' = Tail(queue) /\ row' = NoRow /\ sig' = None
    /\ UNCHANGED <<trade, lists, money, t, d, withOpen, sigOf, detailed, kind>>

-----------------------------------------------------------------------------
(* handle_left_open *)

\* Mutant: every trade with an open order is ignored at the end.
LeftIgnored(id) ==
    LET tr == trade[id]
        p == PairOf(id)
    IN  IF OpenOrders(tr) # {} \/ tr.amount = 0
        THEN Unlist(p, id) /\ UNCHANGED money
        ELSE \E price \in Prices :
               /\ flow' = flow + Sgn(tr) * price * tr.amount
               /\ Unlist(p, id)
               /\ profit' = profit + Totals(CloseOrder(
                     Place(tr, "exit", price, tr.amount), Len(tr.orders) + 1)).real
               /\ UpdateWallets
Left(id) ==
    LET tr == trade[id]
        p == PairOf(id)
    IN  IF (OpenOrders(tr) # {} /\ Entries(tr) = 0) \/ tr.amount = 0
        THEN Unlist(p, id) /\ UNCHANGED money
        ELSE \E price \in Prices, s \in AfterFills :
               LET placed == IF Similar(tr, "exit", price, tr.amount) THEN tr
                             ELSE Place(tr, "exit", price, tr.amount)
                   closed == TryClose(placed, Len(placed.orders), s)
                   o == Last(placed.orders)
               IN  /\ flow' = flow + Sgn(tr) * o.price * o.amount
                   /\ IF o.amount # tr.amount
                      THEN /\ trade' = [trade EXCEPT ![id] = Recalc(closed)]
                           /\ UNCHANGED <<lists, profit>>
                      ELSE /\ Unlist(p, id) /\ profit' = profit + Totals(closed).real
                   /\ UpdateWallets
LeftOpen ==
    /\ pc = "left"
    /\ \/ open # <<>> /\ Left(Head(open)) /\ UNCHANGED pc
       \/ /\ open = <<>> /\ Goto("done")
          /\ UNCHANGED <<trade, lists, profit, flow>> /\ UpdateWallets
    /\ UNCHANGED <<clock, loop, kind>>

Generator == NextTick \/ SkipPair \/ PickMain \/ PickDetail
Manage == ManageKeep \/ ManageDrop \/ ManageReplace
Entry == Enter \/ EnterNot \/ FillEntry \/ FillNot
Exit == AdjustNot \/ AdjustEntry \/ AdjustExit \/ ExitNot \/ ExitTrade
Process == ProcessNot \/ ProcessExit \/ Again
Next == Generator \/ Manage \/ Entry \/ Exit \/ Process \/ LeftOpen

Spec == Init /\ [][Next]_vars

-----------------------------------------------------------------------------
OrderType == [side : {"entry", "exit"}, price : Int, amount : Nat \ {0},
              open : BOOLEAN, fresh : BOOLEAN]
TradeType == [dir : Dirs \union {"none"}, orders : Seq(OrderType), stop : Int,
              pct : Nat, init : BOOLEAN, trailing : BOOLEAN, amount : Nat,
              rate : Int, stake : Int, real : Int, fresh : BOOLEAN]

\* Type correctness of every variable.
TypeOK ==
    /\ trade \in [Ids -> TradeType] /\ open \in Seq(Ids) /\ pp \in [Pairs -> Seq(Ids)]
    /\ count \in Int /\ profit \in Int /\ free \in Int /\ flow \in Int
    /\ t \in 1..Candles + 1 /\ d \in Ticks /\ queue \in Seq(Pairs)
    /\ withOpen \subseteq Pairs /\ sigOf \in [Pairs -> Dirs \union {None}]
    /\ detailed \subseteq Pairs /\ pc \in Parts /\ row \in Rows \union {NoRow}
    /\ sig \in Dirs \union {None} /\ pass \in {1, 2} /\ exiting \in Dirs \union {None}
    /\ kind \in {None, "partial_exit", "signal", "roi", "stop"}

\* The three books of open trades (the list, the list per pair, the count kept by
\* hand) agree through entries, removals, closes and second calls, no pair has two
\* trades, and max_open_trades is respected.
SlotsRespected ==
    /\ count = Len(open) /\ ToSet(open) = UNION {ToSet(pp[p]) : p \in Pairs}
    /\ ToSet(open) = {id \in Ids : trade[id] # NoTrade}
    /\ \A p \in Pairs : Len(pp[p]) <= 1
    /\ MaxOpen > 0 => count <= MaxOpen

\* check_order_replace's assumption that there is never a second open order, and
\* handle_left_open's that the order it processes is the trade's last.
OneOpenOrder ==
    \A id \in Ids : OpenOrders(trade[id]) \subseteq {Len(trade[id].orders)}

\* What the filled orders brought and cost is what the books say: profit of closed
\* trades, realized profit and stake of open ones, none lost by a removed trade or
\* order and none counted twice by a recalculation.  A realized profit that comes
\* back to zero is not written (if close_profit), so a trade keeps the one before.
Kept(tr) == tr.real # Totals(tr).real
FlowsAreBooked ==
    /\ TypeOK /\ SlotsRespected /\ OneOpenOrder
    /\ \A id \in Ids : Kept(trade[id]) => Totals(trade[id]).real = 0
    /\ flow = profit + MapThenSumSet(
          LAMBDA id : LET x == trade[id] IN
              (IF Kept(x) THEN 0 ELSE x.real) - (IF x.amount > 0 THEN Sgn(x) * x.stake ELSE 0),
          ToSet(open))

\* A finished run holds nothing: the final balance is the start and what was traded.
EndsFlat == pc = "done" => open = <<>> /\ flow = profit /\ free = Start + profit

\* The orders of a trade that a step from a to b filled.
JustFilled(a, b) == {i \in DOMAIN b.orders :
    ~b.orders[i].open /\ ~(i \in DOMAIN a.orders /\ ~a.orders[i].open)}
\* A stop that was not beyond the price of such an order is at most the distance that
\* custom_stoploss asked for behind that price.
Refreshed(a, b) == \E i \in JustFilled(a, b), k \in Customs :
    LET price == b.orders[i].price
    IN  Sgn(a) * a.stop < Sgn(a) * price /\ Sgn(a) * b.stop >= Sgn(a) * price - k
Walked(a, b) == Sgn(a) * b.stop >= Sgn(a) * a.stop \/ Refreshed(a, b)

\* Once a trade holds coins its stop only walks towards profit, through additional
\* entries, partial exits and recalculations, except where a fill lets custom_stoploss
\* set it anew: then it is no further behind the price of that fill than it asked for.
StopRatchets ==
    [][\A id \in Ids :
         Entries(trade[id]) > 0 /\ trade'[id].dir = trade[id].dir =>
           Walked(trade[id], trade'[id])]_vars

=============================================================================
