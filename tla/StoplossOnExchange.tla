------------------------- MODULE StoplossOnExchange -------------------------
(***************************************************************************)
(* The stoploss order that freqtrade/freqtradebot.py keeps on the exchange *)
(* for an open trade (handle_stoploss_on_exchange and what it calls), next *)
(* to the exit and entry orders of that trade.  The stop is created,       *)
(* trailed by cancelling and creating again, given up before an exit, and  *)
(* cancelled when an entry fills or the trade closes, one exchange call at *)
(* a time, while the exchange fills and cancels what it holds.             *)
(*                                                                         *)
(* One trade whose first entry is booked.  A step is what the bot does     *)
(* between two exchange calls.  Rows that are appended but not committed   *)
(* are lost when the process dies.  Prices are levels of the stop.         *)
(***************************************************************************)
EXTENDS Integers, FiniteSets, FiniteSetsExt

CONSTANTS
    MaxIds,         \* orders at a time; ids of finished ones are reused
    FirstAmt,       \* coins the first entry bought
    AddAmt,         \* coins an additional entry buys, 0: no position adjustment
    MaxHeld,        \* bound on the coins additional entries may lead to
    MaxLevel,       \* highest level of the stop
    MaxFaults,      \* bound on failing calls, lost replies and process deaths
    Denying         \* confirm_trade_exit may return False

ASSUME SizesAssumption ==
    /\ MaxIds \in Nat \ {0} /\ FirstAmt \in Nat \ {0} /\ AddAmt \in Nat
    /\ MaxHeld \in Nat /\ MaxLevel \in Nat \ {0}
ASSUME FaultsAssumption ==
    MaxFaults \in Nat /\ Denying \in BOOLEAN

Ids == 1..MaxIds
Levels == 1..MaxLevel

VARIABLES
    blocks,                     \* stoploss_blocks_assets of the exchange, fixed
    kind, amt, fill, stat, lvl, \* the exchange's orders; kind "none": free id
    bal,                        \* coins of the pair in the account
    row, known, fresh,          \* rows: kind and state, filled; not yet committed
    past,                       \* net amount of the rows whose id was given back
    isOpen, amount,             \* Trade.is_open, Trade.amount
    stopLoss, saved,            \* Trade.stop_loss in memory and committed
    part, pc, ret,              \* part of process(), step in it, step after clearing
    todo, seen, clr,            \* loop rest, stops with a reply, stops to cancel
    want,                       \* amount of the exit order to place
    faults, lost, crashes

exch == <<kind, amt, fill, stat, lvl, bal>>
rows == <<row, known, fresh, past, isOpen, amount, saved>>
control == <<part, pc, ret, todo, seen, clr, want>>
counters == <<faults, lost, crashes>>
vars == <<blocks, exch, rows, stopLoss, control, counters>>

NoRow == [as |-> "none", open |-> FALSE]
Rows == [as : {"entry", "exit", "stop"}, open : BOOLEAN] \union {NoRow}
Steps == {"off", "sync", "manage", "recover", "stops", "create", "trade", "clear",
          "place", "refind", "commit", "adjust", "end"}

TypeOK ==
    /\ blocks \in BOOLEAN
    /\ kind \in [Ids -> {"none", "entry", "exit", "stop"}]
    /\ amt \in [Ids -> Nat] /\ fill \in [Ids -> Nat]
    /\ stat \in [Ids -> {"open", "closed", "canceled"}]
    /\ lvl \in [Ids -> Nat]
    /\ bal \in Int
    /\ row \in [Ids -> Rows]
    /\ known \in [Ids -> Nat] /\ fresh \subseteq Ids /\ past \in Int
    /\ isOpen \in BOOLEAN /\ amount \in Int
    /\ stopLoss \in Levels /\ saved \in Levels
    /\ part \in {"startup", "manage", "exits", "emergency", "adjust"}
    /\ pc \in Steps /\ ret \in Steps
    /\ todo \subseteq Ids /\ seen \subseteq Ids /\ clr \subseteq Ids
    /\ want \in Int
    /\ faults \in Nat /\ lost \in Nat /\ crashes \in Nat

-----------------------------------------------------------------------------
(* What the rows say.                                                      *)

OpenRows == {o \in Ids : row[o].open}
OpenStops == {o \in OpenRows : row[o].as = "stop"}          \* open_sl_orders
OpenOthers == {o \in OpenRows : row[o].as # "stop"}         \* open_orders
First(o, S) == o \in S /\ \A p \in S : o <= p

Live(o) == kind[o] # "none" /\ stat[o] = "open"

\* Coins tied up in sell orders; on exchanges whose stops do not block assets
\* (futures) orders only reduce the position and tie up nothing.
Tied == IF blocks
        THEN MapThenSumSet(LAMBDA o : amt[o] - fill[o],
                           {o \in Ids : Live(o) /\ kind[o] # "entry"})
        ELSE 0

\* The sum recalc_trade_from_orders takes over the orders that are not open.
Signed(fs, o) == IF row[o].as = "entry" THEN fs[o] ELSE -fs[o]
NetFilled(fs, S) == past + MapThenSumSet(LAMBDA o : Signed(fs, o), S)

-----------------------------------------------------------------------------
(* The exchange.                                                           *)

\* Sell orders fill only while there is something to sell (reduceOnly).
ExchangeFill(o) ==
    /\ Live(o)
    /\ kind[o] = "entry" \/ bal > 0
    /\ fill' = [fill EXCEPT ![o] = @ + 1]
    /\ stat' = [stat EXCEPT ![o] = IF fill[o] + 1 >= amt[o] THEN "closed" ELSE @]
    /\ bal' = IF kind[o] = "entry" THEN bal + 1 ELSE bal - 1
    /\ UNCHANGED <<blocks, kind, amt, lvl, rows, stopLoss, control, counters>>

\* By the user, or by the exchange for a reduceOnly order without a position.
ExchangeCancel(o) ==
    /\ Live(o)
    /\ stat' = [stat EXCEPT ![o] = "canceled"]
    /\ UNCHANGED <<blocks, kind, amt, fill, lvl, bal, rows, stopLoss, control, counters>>

\* A bound: the bot waits for an id to become free.
Room == \E o \in Ids : kind[o] = "none"

\* A new order, and its row r unless the reply is lost (NoRow).
NewOrder(k, a, l, r) ==
    \E o \in Ids :
        /\ First(o, {p \in Ids : kind[p] = "none"})
        /\ kind' = [kind EXCEPT ![o] = k]
        /\ amt' = [amt EXCEPT ![o] = a]
        /\ lvl' = [lvl EXCEPT ![o] = l]
        /\ row' = [row EXCEPT ![o] = r]
        \* An exit or entry is committed at once, a stop at the end of the loop.
        /\ fresh' = IF r.as = "stop" THEN fresh \union {o}
                    ELSE IF r = NoRow THEN fresh ELSE {}
        /\ saved' = IF r.as \in {"stop", "none"} THEN saved ELSE stopLoss
        /\ UNCHANGED <<fill, stat, bal, known, past, isOpen, amount>>

\* Orders that are done and whose rows say so give their ids back; what they
\* filled keeps counting in past.
Done(o) == kind[o] # "none" /\ stat[o] # "open" /\ ~row[o].open /\ known[o] = fill[o]
Keep(f, none) == [o \in Ids |-> IF Done(o) THEN none ELSE f[o]]

-----------------------------------------------------------------------------
(* update_trade_state: the reply (status st, f filled) about o is written   *)
(* to the row and, unless the order is open or was cancelled empty, booked. *)
(* Stops are cancelled before the step that follows when an entry filled or *)
(* the trade is closed.  Every write here is committed.                     *)

\* The stops in clr, if any, are cancelled before the step `then'.
Clearing(then) ==
    IF clr' = {} THEN pc' = then /\ ret' = "end" ELSE pc' = "clear" /\ ret' = then

\* Mutant: what a cancelled order had filled is not booked.
BooksClosed(st, f) == st = "closed"

Books(st, f) == st # "open" /\ f > 0

\* Mutant: any fill of an exit or a stop closes.
ClosesUnchecked(o, f) == row[o].as # "entry" /\ f > 0

\* update_trade: an exit or a stop that sold all there is closes the trade, and
\* so does, except in handle_onexchange_order, one that sold more.
Closes(o, f) ==
    row[o].as # "entry" /\ (f = amount \/ (f > amount /\ pc # "recover"))

AmountAfter(o, f) ==
    LET net == NetFilled([known EXCEPT ![o] = f],
                         {p \in Ids \ OpenRows : row[p] # NoRow} \union {o})
    IN IF net > 0 THEN net ELSE amount

\* Mutant: closing the trade cancels no stop.
UpdateTradeStateKeeping(o, st, f, then) ==
    /\ row' = [row EXCEPT ![o] = [as |-> IF @ = NoRow THEN "exit" ELSE @.as,
                                   open |-> st = "open"]]
    /\ known' = [known EXCEPT ![o] = f]
    /\ fresh' = {} /\ saved' = stopLoss
    /\ IF Books(st, f)
       THEN /\ amount' = AmountAfter(o, f)
            /\ isOpen' = (isOpen /\ ~Closes(o, f))
            /\ clr' = IF row[o].as = "entry" THEN OpenStops ELSE clr
       ELSE UNCHANGED <<amount, isOpen, clr>>
    /\ Clearing(then)
    /\ UNCHANGED past

UpdateTradeState(o, st, f, then) ==
    /\ row' = [row EXCEPT ![o] = [as |-> IF @ = NoRow THEN "exit" ELSE @.as,
                                   open |-> st = "open"]]
    /\ known' = [known EXCEPT ![o] = f]
    /\ fresh' = {} /\ saved' = stopLoss
    /\ IF Books(st, f)
       THEN /\ amount' = AmountAfter(o, f)
            /\ isOpen' = (isOpen /\ ~Closes(o, f))
            /\ clr' = IF ~isOpen' \/ (row[o].as = "entry" /\ pc # "recover")
                      THEN OpenStops \ {o} ELSE clr
       ELSE UNCHANGED <<amount, isOpen, clr>>
    /\ Clearing(then)
    /\ UNCHANGED past

Troubles == faults + lost + crashes

\* One call ends in a TemporaryError.
Fault == Troubles < MaxFaults /\ faults' = faults + 1 /\ UNCHANGED <<lost, crashes>>

\* The step after an exit, or the refinding of orders after one that could not
\* be paid; want = 0 says the stop could not.  emergency_exit returns to the
\* trade it was called for.
Leave(then) ==
    /\ pc' = IF part = "emergency" THEN "trade" ELSE IF part = "adjust" THEN "end" ELSE then
    /\ part' = IF part = "emergency" THEN "exits" ELSE part
    /\ want' = 0

\* A TemporaryError while stops are cancelled goes on with the next order at
\* startup and in handle_insufficient_funds, ends process() in
\* manage_open_orders, and elsewhere leaves the trade alone for this time.
Caught ==
    IF ret \in {"sync", "refind"} THEN pc' = ret /\ UNCHANGED <<part, want>>
    ELSE Leave(IF part = "manage" THEN "end" ELSE "commit")

-----------------------------------------------------------------------------
(* cancel_stoploss_on_exchange: the stops in clr, one cancel call each.     *)
(* The reply of a cancel tells what was filled; the reply that              *)
(* cancel_stoploss_order_with_result makes up for an exchange that no       *)
(* longer knows a cancelled order is left out.                              *)

CancelStop ==
    \E o \in clr :
        /\ pc = "clear" /\ First(o, clr) /\ Live(o)
        /\ stat' = [stat EXCEPT ![o] = "canceled"]
        /\ UNCHANGED <<kind, amt, fill, lvl, bal>>
        /\ LET rest == clr \ {o} IN
           /\ row' = [row EXCEPT ![o] = [as |-> @.as, open |-> FALSE]]
           /\ known' = [known EXCEPT ![o] = fill[o]]
           /\ fresh' = {} /\ saved' = stopLoss
           /\ amount' = IF fill[o] > 0 THEN AmountAfter(o, fill[o]) ELSE amount
           /\ isOpen' = (isOpen /\ ~(fill[o] > 0 /\ Closes(o, fill[o])))
           /\ clr' = IF fill[o] > 0 /\ ~isOpen' THEN OpenStops \ {o} ELSE rest
           /\ Clearing(ret)
           /\ UNCHANGED past
        /\ UNCHANGED <<blocks, stopLoss, part, todo, seen, want, counters>>

\* InvalidOrderException: the stop is no longer there to cancel.  Only logged.
CancelStopInvalid ==
    \E o \in clr :
        /\ pc = "clear" /\ First(o, clr) /\ ~Live(o)
        /\ clr' = clr \ {o}
        /\ Clearing(ret)
        /\ UNCHANGED <<blocks, exch, rows, stopLoss, part, todo, seen, want, counters>>

\* TemporaryError: the caller is left; the exchange may have cancelled it.
CancelStopFails ==
    \E o \in clr :
        /\ pc = "clear" /\ First(o, clr) /\ Fault
        /\ stat' \in {stat} \union {[stat EXCEPT ![o] = "canceled"] : x \in {y \in {o} : Live(y)}}
        /\ Caught /\ clr' = {} /\ ret' = "end"
        /\ UNCHANGED <<blocks, kind, amt, fill, lvl, bal, rows, stopLoss, todo, seen>>

\* Start cancelling the open stops, then go on with step then.
ClearStops(then) ==
    /\ clr' = OpenStops
    /\ Clearing(then)

-----------------------------------------------------------------------------
(* Worker and startup.                                                      *)

Start ==
    /\ pc = "off"
    /\ pc' = "sync" /\ part' = "startup" /\ todo' = OpenRows
    /\ UNCHANGED <<blocks, exch, rows, stopLoss, ret, seen, clr, want, counters>>

\* startup_update_open_orders, for every order whose row is open.
SyncOrder ==
    \E o \in todo :
        /\ pc = "sync" /\ First(o, todo)
        /\ todo' = todo \ {o}
        /\ UpdateTradeState(o, stat[o], fill[o], "sync")
        /\ UNCHANGED <<blocks, exch, stopLoss, part, seen, want, counters>>

\* An order that cannot be fetched, or cancelled, is passed over: here, and in
\* manage_open_orders and handle_insufficient_funds.
Unreachable ==
    \E o \in todo :
        /\ pc \in {"sync", "manage", "refind"} /\ First(o, todo) /\ Fault
        /\ todo' = todo \ {o}
        /\ UNCHANGED <<blocks, exch, rows, stopLoss, part, pc, ret, seen, clr, want>>

\* The next process(): what was not committed is, and the open orders of the
\* open trade, other than stops, are managed.
NextIteration ==
    /\ pc = "end" \/ (pc = "sync" /\ todo = {})
    /\ isOpen
    /\ fresh' = {} /\ saved' = stopLoss
    /\ part' = "manage" /\ pc' = "manage" /\ todo' = OpenOthers
    /\ seen' = {} /\ clr' = {} /\ ret' = "end" /\ want' = 0
    /\ past' = past + MapThenSumSet(LAMBDA o : Signed(known, o), {o \in Ids : Done(o)})
    /\ kind' = Keep(kind, "none") /\ row' = Keep(row, NoRow) /\ stat' = Keep(stat, "open")
    /\ amt' = Keep(amt, 0) /\ fill' = Keep(fill, 0) /\ lvl' = Keep(lvl, 0)
    /\ known' = Keep(known, 0)
    /\ UNCHANGED <<blocks, bal, isOpen, amount, stopLoss, counters>>

\* The trade is closed: process() no longer touches it.
TradeOver ==
    /\ pc = "end" \/ (pc = "sync" /\ todo = {})
    /\ ~isOpen
    /\ UNCHANGED vars

\* Mutant: the bot restarts with the initial stop.
CrashForgets ==
    /\ pc # "off" /\ Troubles < MaxFaults
    /\ crashes' = crashes + 1 /\ stopLoss' = 1
    /\ row' = [o \in Ids |-> IF o \in fresh THEN NoRow ELSE row[o]]
    /\ fresh' = {} /\ pc' = "off" /\ part' = "startup" /\ ret' = "end"
    /\ todo' = {} /\ seen' = {} /\ clr' = {} /\ want' = 0
    /\ UNCHANGED <<blocks, exch, known, past, isOpen, amount, saved, faults, lost>>

Crash ==
    /\ pc # "off" /\ Troubles < MaxFaults
    /\ crashes' = crashes + 1
    /\ row' = [o \in Ids |-> IF o \in fresh THEN NoRow ELSE row[o]]
    /\ fresh' = {} /\ stopLoss' = saved
    /\ pc' = "off" /\ part' = "startup" /\ ret' = "end"
    /\ todo' = {} /\ seen' = {} /\ clr' = {} /\ want' = 0
    /\ UNCHANGED <<blocks, exch, known, past, isOpen, amount, saved, faults, lost>>

-----------------------------------------------------------------------------
(* manage_open_orders for the entry and exit orders of the trade.           *)

ManageOrder ==
    \E o \in todo :
        /\ pc = "manage" /\ First(o, todo)
        /\ todo' = todo \ {o}
        /\ UpdateTradeState(o, stat[o], fill[o], "manage")
        /\ UNCHANGED <<blocks, exch, stopLoss, part, seen, want, counters>>

\* It timed out and is cancelled; nothing filled in between, and the reply of the
\* cancel tells what was filled.
ManageTimeout ==
    \E o \in todo :
        /\ pc = "manage" /\ First(o, todo) /\ Live(o)
        /\ todo' = todo \ {o}
        /\ stat' = [stat EXCEPT ![o] = "canceled"]
        /\ UpdateTradeState(o, "canceled", fill[o], "manage")
        /\ UNCHANGED <<blocks, kind, amt, fill, lvl, bal, stopLoss, part, seen, want, counters>>

\* exit_positions.  When nothing of the trade is open and the wallet holds less
\* than its amount, the exchange's orders are gone through first, unless the
\* wallet's numbers are old or the orders cannot be had.
ManageDone ==
    /\ pc = "manage" /\ todo = {} /\ isOpen
    /\ part' = "exits"
    /\ \/ pc' = "stops" /\ todo' = OpenStops
       \/ /\ OpenRows = {} /\ bal < amount
          /\ pc' = "recover" /\ todo' = {o \in Ids : kind[o] # "none"}
    /\ UNCHANGED <<blocks, exch, rows, stopLoss, ret, seen, clr, want, counters>>

ManageClosed ==
    /\ pc = "manage" /\ todo = {} /\ ~isOpen
    /\ pc' = "end"
    /\ UNCHANGED <<blocks, exch, rows, stopLoss, part, ret, todo, seen, clr, want, counters>>

\* handle_onexchange_order: an order without a row gets one by its side.
RecoverOrder ==
    \E o \in todo :
        /\ pc = "recover" /\ First(o, todo)
        /\ todo' = todo \ {o}
        /\ UpdateTradeState(o, stat[o], fill[o], "recover")
        /\ UNCHANGED <<blocks, exch, stopLoss, part, seen, want, counters>>

RecoverDone ==
    /\ pc = "recover" /\ todo = {}
    /\ pc' = "stops" /\ todo' = OpenStops
    /\ UNCHANGED <<blocks, exch, rows, stopLoss, part, ret, seen, clr, want, counters>>

-----------------------------------------------------------------------------
(* handle_stoploss_on_exchange.                                             *)

\* Mutant: the reply is looked at and not booked.
FetchStopUntold ==
    \E o \in todo :
        /\ pc = "stops" /\ First(o, todo)
        /\ todo' = todo \ {o} /\ seen' = seen \union {o}
        /\ pc' = IF stat[o] = "closed" THEN "commit" ELSE "stops"
        /\ UNCHANGED <<blocks, exch, rows, stopLoss, part, ret, clr, want, counters>>

\* The reply is booked; a stop that sold ends the loop and the trade's turn.
FetchStop ==
    \E o \in todo :
        /\ pc = "stops" /\ First(o, todo)
        /\ todo' = todo \ {o} /\ seen' = seen \union {o}
        /\ UpdateTradeState(o, stat[o], fill[o], IF stat[o] = "closed" THEN "commit" ELSE "stops")
        /\ UNCHANGED <<blocks, exch, stopLoss, part, want, counters>>

\* InvalidOrderException, also when the order was not found in time: no reply.
FetchStopInvalid ==
    \E o \in todo :
        /\ pc = "stops" /\ First(o, todo) /\ Fault
        /\ todo' = todo \ {o}
        /\ UNCHANGED <<blocks, exch, rows, stopLoss, part, pc, ret, seen, clr, want>>

FetchStopFails ==
    /\ pc = "stops" /\ todo # {} /\ Fault
    /\ pc' = "commit"
    /\ UNCHANGED <<blocks, exch, rows, stopLoss, part, ret, todo, seen, clr, want>>

NeedsStop == isOpen /\ ~(blocks /\ OpenOthers # {})
Active == {o \in seen : row[o].open}

\* No stop, or all of them cancelled: create one.
NoStopLeft ==
    /\ pc = "stops" /\ todo = {} /\ NeedsStop /\ Active = {} /\ Room
    /\ pc' = "create" /\ seen' = {}
    /\ UNCHANGED <<blocks, exch, rows, stopLoss, part, ret, todo, clr, want, counters>>

\* handle_trailing_stoploss_on_exchange, when the update is due: the stops are
\* cancelled, and a new one created if the trade is still open.
TrailStop ==
    /\ pc = "stops" /\ todo = {} /\ NeedsStop /\ Room
    /\ \E o \in Active : lvl[o] < stopLoss
    /\ ClearStops("create") /\ seen' = {}
    /\ UNCHANGED <<blocks, exch, rows, stopLoss, part, todo, want, counters>>

\* No stop is wanted, or the one there is stays.
KeepStop ==
    /\ pc = "stops" /\ todo = {} /\ (NeedsStop /\ Room => Active # {})
    /\ pc' = "trade" /\ seen' = {}
    /\ UNCHANGED <<blocks, exch, rows, stopLoss, part, ret, todo, clr, want, counters>>

-----------------------------------------------------------------------------
(* create_stoploss_order: one order for trade.amount at the stop level.     *)

Affordable(a) == blocks => bal - Tied >= a

CreateStop ==
    /\ pc = "create" /\ isOpen /\ Affordable(amount)
    /\ NewOrder("stop", amount, stopLoss, [as |-> "stop", open |-> TRUE])
    /\ pc' = "trade"
    /\ UNCHANGED <<blocks, stopLoss, part, ret, todo, seen, clr, want, counters>>

\* The trade turned out closed while its stops were cancelled for trailing.
CreateNot ==
    /\ pc = "create" /\ ~isOpen
    /\ pc' = "trade"
    /\ UNCHANGED <<blocks, exch, rows, stopLoss, part, ret, todo, seen, clr, want, counters>>

\* InsufficientFundsError: handle_insufficient_funds looks at the open rows.
Refind == pc' = "refind" /\ todo' = OpenRows /\ UNCHANGED ret

CreateUnpaid ==
    /\ pc = "create" /\ isOpen /\ ~Affordable(amount)
    /\ Refind
    /\ UNCHANGED <<blocks, exch, rows, stopLoss, part, seen, clr, want, counters>>

\* InvalidOrderException: emergency_exit of the whole amount.
CreateInvalid ==
    /\ pc = "create" /\ isOpen /\ OpenOthers = {} /\ Fault
    /\ part' = "emergency" /\ want' = amount
    /\ IF blocks THEN ClearStops("place") ELSE pc' = "place" /\ UNCHANGED <<clr, ret>>
    /\ UNCHANGED <<blocks, exch, rows, stopLoss, todo, seen>>

CreateFails ==
    /\ pc = "create" /\ isOpen /\ Fault
    /\ pc' = "trade"
    /\ UNCHANGED <<blocks, exch, rows, stopLoss, part, ret, todo, seen, clr, want>>

\* The reply does not come although the exchange has the order.
CreateLost ==
    /\ pc = "create" /\ isOpen /\ Affordable(amount) /\ Troubles < MaxFaults
    /\ lost' = lost + 1
    /\ NewOrder("stop", amount, stopLoss, NoRow)
    /\ pc' = "trade"
    /\ UNCHANGED <<blocks, stopLoss, part, ret, todo, seen, clr, want, faults, crashes>>

\* Orders that were booked while an earlier one of the loop was are passed over.
RefindOrder ==
    \E o \in todo :
        /\ pc = "refind" /\ First(o, todo)
        /\ todo' = todo \ {o}
        /\ IF row[o].open THEN UpdateTradeState(o, stat[o], fill[o], "refind")
           ELSE UNCHANGED <<rows, clr, pc, ret>>
        /\ UNCHANGED <<blocks, exch, stopLoss, part, seen, want, counters>>

RefindDone ==
    /\ pc = "refind" /\ todo = {}
    /\ Leave(IF want = 0 THEN "trade" ELSE "commit")
    /\ UNCHANGED <<blocks, exch, rows, stopLoss, ret, todo, seen, clr, counters>>

-----------------------------------------------------------------------------
(* handle_trade and execute_trade_exit.  An exit that is asked for while    *)
(* another entry or exit order is open is the subject of OrderLifecycle.    *)

\* Mutant: the stop follows the price down as well.
HandleTradeDown ==
    /\ pc = "trade" /\ pc' = "commit"
    /\ stopLoss' \in Levels
    /\ UNCHANGED <<blocks, exch, rows, part, ret, todo, seen, clr, want, counters>>

\* The stop is trailed; it only walks up.
HandleTrade ==
    /\ pc = "trade"
    /\ stopLoss' \in {l \in Levels : l >= stopLoss /\ (l # stopLoss => isOpen)}
    /\ pc' = "commit"
    /\ UNCHANGED <<blocks, exch, rows, part, ret, todo, seen, clr, want, counters>>

\* The stops are given up first, where they block the coins to sell.
ExitSignal ==
    /\ pc = "trade" /\ isOpen /\ OpenOthers = {} /\ Room
    /\ stopLoss' \in {l \in Levels : l >= stopLoss}
    /\ want' = amount
    /\ IF blocks THEN ClearStops("place") ELSE pc' = "place" /\ UNCHANGED <<clr, ret>>
    /\ UNCHANGED <<blocks, exch, rows, part, todo, seen, counters>>

PlaceExit ==
    /\ pc = "place" /\ Affordable(want)
    /\ NewOrder("exit", want, 0, [as |-> "exit", open |-> TRUE])
    /\ Leave("commit")
    /\ UNCHANGED <<blocks, stopLoss, ret, todo, seen, clr, counters>>

\* _safe_exit_amount finds too little in the wallet, or confirm_trade_exit says
\* no (it is not asked about partial exits), or the order call fails.
PlaceNot ==
    /\ pc = "place"
    /\ \/ blocks /\ bal < want /\ UNCHANGED counters
       \/ Denying /\ part # "adjust" /\ UNCHANGED counters
       \/ Fault
    /\ Leave("commit")
    /\ UNCHANGED <<blocks, exch, rows, stopLoss, ret, todo, seen, clr>>

PlaceUnpaid ==
    /\ pc = "place" /\ bal >= want /\ ~Affordable(want)
    /\ Refind
    /\ UNCHANGED <<blocks, exch, rows, stopLoss, part, seen, clr, want, counters>>

\* The rows written by exit_positions are committed.
Commit ==
    /\ pc = "commit"
    /\ fresh' = {} /\ saved' = stopLoss
    /\ part' = "adjust" /\ pc' = "adjust"
    /\ UNCHANGED <<blocks, exch, row, known, past, isOpen, amount, stopLoss,
                   ret, todo, seen, clr, want, counters>>

-----------------------------------------------------------------------------
(* process_open_trade_positions.                                            *)

AdjustNot ==
    /\ pc = "adjust"
    /\ pc' = "end"
    /\ UNCHANGED <<blocks, exch, rows, stopLoss, part, ret, todo, seen, clr, want, counters>>

AdjustEntry ==
    /\ pc = "adjust" /\ isOpen /\ OpenOthers = {} /\ Room
    /\ AddAmt > 0 /\ amount + AddAmt <= MaxHeld
    /\ NewOrder("entry", AddAmt, 0, [as |-> "entry", open |-> TRUE])
    /\ pc' = "end"
    /\ UNCHANGED <<blocks, stopLoss, part, ret, todo, seen, clr, want, counters>>

\* A partial exit, of one coin.
AdjustExit ==
    /\ pc = "adjust" /\ isOpen /\ OpenOthers = {} /\ Room
    /\ amount > 1 /\ want' = 1
    /\ IF blocks THEN ClearStops("place") ELSE pc' = "place" /\ UNCHANGED <<clr, ret>>
    /\ UNCHANGED <<blocks, exch, rows, stopLoss, part, todo, seen, counters>>

-----------------------------------------------------------------------------
Init ==
    /\ blocks \in BOOLEAN
    /\ kind = [o \in Ids |-> "none"]
    /\ amt = [o \in Ids |-> 0] /\ fill = [o \in Ids |-> 0]
    /\ stat = [o \in Ids |-> "open"] /\ lvl = [o \in Ids |-> 0]
    /\ bal = FirstAmt /\ past = FirstAmt /\ amount = FirstAmt /\ isOpen = TRUE
    /\ row = [o \in Ids |-> NoRow] /\ known = [o \in Ids |-> 0] /\ fresh = {}
    /\ stopLoss = 1 /\ saved = 1
    /\ part = "adjust" /\ pc = "end" /\ ret = "end"
    /\ todo = {} /\ seen = {} /\ clr = {} /\ want = 0
    /\ faults = 0 /\ lost = 0 /\ crashes = 0

StartupStep == Start \/ SyncOrder \/ Unreachable
ManageStep == ManageOrder \/ ManageTimeout \/ ManageDone \/ ManageClosed
RecoverStep == RecoverOrder \/ RecoverDone
ClearStep == CancelStop \/ CancelStopInvalid \/ CancelStopFails
StopStep == FetchStop \/ FetchStopInvalid \/ FetchStopFails \/ NoStopLeft \/ TrailStop \/ KeepStop
CreateStep == CreateStop \/ CreateNot \/ CreateUnpaid \/ CreateInvalid \/ CreateFails \/ CreateLost
RefindStep == RefindOrder \/ RefindDone
ExitStep == HandleTrade \/ ExitSignal \/ PlaceExit \/ PlaceNot \/ PlaceUnpaid \/ Commit
AdjustStep == AdjustNot \/ AdjustEntry \/ AdjustExit

Bot ==
    \/ StartupStep \/ NextIteration \/ ManageStep \/ RecoverStep \/ ClearStep
    \/ StopStep \/ CreateStep \/ RefindStep \/ ExitStep \/ AdjustStep

Exchange == \E o \in Ids : ExchangeFill(o) \/ ExchangeCancel(o)

Next == Bot \/ Exchange \/ Crash \/ TradeOver

Spec == Init /\ [][Next]_vars

\* The worker calls process() for as long as the bot runs.
FairSpec == Spec /\ WF_vars(Bot)

-----------------------------------------------------------------------------
(* Properties.                                                              *)

\* Stops the bot knows of.
Stops == {o \in Ids : row[o].as = "stop"}
Rest == pc \in {"off", "end"}
AllTold == \A o \in Ids : kind[o] # "none" =>
    row[o] # NoRow /\ ~row[o].open /\ known[o] = fill[o] /\ ~Live(o)

\* The stop on the exchange never stands above the trade's stop loss, and what
\* is committed never above the committed one: after a restart the bot trails
\* from a level no lower than any stop it knows (adjust_stop_loss, "stop losses
\* only walk up").
LevelsBounded ==
    /\ saved <= stopLoss
    /\ \A o \in Stops : lvl[o] <= stopLoss /\ (o \notin fresh => lvl[o] <= saved)

\* A stop is never replaced by a lower one: a stop created now stands at least as
\* high as every stop known before.
StopNeverLowered ==
    [][\A o \in Ids : (kind'[o] = "stop" /\ stat'[o] = "open" /\ ~Live(o))
            => \A p \in Stops : lvl[p] <= lvl'[o]]_vars

\* When every order is done and told, trade.amount is the position that is left.
AmountAgrees == (isOpen /\ AllTold) => amount = bal

\* process() closes the trade only on orders that together sold what was bought:
\* a fill is not counted again because its stop was cancelled, refound and told in
\* different loops.  At startup and in handle_onexchange_order it may be.
Booked == NetFilled(known, {o \in Ids : row[o] # NoRow /\ ~row[o].open})
CloseIsBooked ==
    [][(part # "startup" /\ pc # "recover" /\ isOpen /\ ~isOpen') => Booked' <= 0]_vars

\* No stop outlives its trade unless a call failed or the bot died.
ClosedLeavesNothing ==
    /\ TypeOK
    /\ (Rest /\ ~isOpen /\ Troubles = 0) => \A o \in Ids : ~(Live(o) /\ kind[o] = "stop")

\* Again and again the position is stopped, being sold, or gone: a live stop,
\* another order of the trade, too few coins, or closed.  The stop is for the
\* whole amount if nothing went wrong.
Stopped ==
    \/ ~isOpen \/ OpenOthers # {} \/ (blocks /\ bal < amount)
    \/ \E o \in Ids : Live(o) /\ kind[o] = "stop" /\ (amt[o] >= amount \/ Troubles > 0)
AlwaysStopped == []<>Stopped
=============================================================================
