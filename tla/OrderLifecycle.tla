--------------------------- MODULE OrderLifecycle ---------------------------
(***************************************************************************)
(* The order and trade lifecycle of freqtrade/freqtradebot.py and          *)
(* freqtrade/persistence/trade_model.py for one spot pair: the orders as   *)
(* the exchange holds them, the rows the bot keeps about them, and the bot *)
(* that moves between the two with one exchange call per step.  The        *)
(* exchange fills and cancels between any two of those calls, replies get  *)
(* lost, and the process may die and be started again.                     *)
(*                                                                         *)
(* Prices, fees on the amount and wording are left out; amounts are small  *)
(* integers.  Every database write the model makes is followed by a commit *)
(* in the code before the next exchange call, so rows survive a crash and  *)
(* the control variables do not.                                           *)
(***************************************************************************)
EXTENDS Integers, FiniteSets, FiniteSetsExt

CONSTANTS
    MaxOrders,      \* bound on the orders created in a behaviour
    MaxTrades,      \* bound on the trades created in a behaviour
    OrderAmt,       \* base amount of a new entry order
    MinAmt,         \* get_min_pair_stake_amount, in units of the base coin
    OtherCoins,     \* base coins in the account that no trade bought
    CreateStats,    \* statuses create_order may return, by time in force
    Replacing,      \* adjust_order_price may return another price or None
    Adjusting,      \* position_adjustment_enable
    Forgetful,      \* InvalidOrderException about an order the exchange holds
    ExitTimeouts,   \* unfilledtimeout.exit_timeout_count, 0 is off
    MaxCrashes,     \* bound on process deaths (each one is restarted)
    MaxLost         \* bound on create_order replies lost on the way back

NonOpen == {"closed", "canceled", "expired"}   \* NON_OPEN_EXCHANGE_STATES
Canceled == {"canceled", "expired"}            \* CANCELED_EXCHANGE_STATES
Statuses == NonOpen \union {"open"}

ASSUME BoundsAssumption ==
    /\ MaxOrders \in Nat \ {0} /\ MaxTrades \in Nat \ {0}
    /\ OrderAmt \in Nat \ {0} /\ MinAmt \in Nat /\ OtherCoins \in Nat
    /\ MaxCrashes \in Nat /\ MaxLost \in Nat /\ ExitTimeouts \in Nat

ASSUME ConfigAssumption ==
    /\ CreateStats \subseteq Statuses
    /\ Replacing \in BOOLEAN /\ Adjusting \in BOOLEAN /\ Forgetful \in BOOLEAN

Orders == 1..MaxOrders
Trades == 1..MaxTrades
NoTrade == 0
NoOrder == 0
Amounts == -(MaxOrders * OrderAmt) .. (MaxOrders * OrderAmt + OtherCoins)

Reply == [stat : Statuses, fill : Nat]
NoReply == [stat |-> "open", fill |-> 0]
Plan == [trade : Trades \union {NoTrade}, side : {"buy", "sell"}, amt : Nat,
         mode : {"initial", "pos_adjust", "replace", "exit"}]
NoPlan == [trade |-> NoTrade, side |-> "sell", amt |-> 0, mode |-> "exit"]

VARIABLES
    exSide, exAmt, exFill, exStat,  \* the exchange's orders ("none": not created)
    bal,                            \* base coins in the account, free and used
    owner, dStat, dFill,            \* order rows: trade, status, filled
    trd, amount, fee,               \* trade rows: state, amount, fee_open_currency set
    pc, phase,                      \* where the bot is: step, and part of process()
    todo, clr,                      \* orders the loop has left, and a loop inside it
    cur, resp, job,                 \* order in hand, reply about it, why it is cancelled
    plan, ret,                      \* order to place next, step after booking
    crashes, lost

exch == <<exSide, exAmt, exFill, exStat, bal>>
rows == <<owner, dStat, dFill, trd, amount, fee>>
control == <<pc, phase, todo, clr, cur, resp, job, plan, ret>>
vars == <<exch, rows, control, crashes, lost>>

TypeOK ==
    /\ exSide \in [Orders -> {"buy", "sell"}]
    /\ exAmt \in [Orders -> Nat]
    /\ exFill \in [Orders -> Nat]
    /\ exStat \in [Orders -> Statuses \union {"none"}]
    /\ bal \in Int
    /\ owner \in [Orders -> Trades \union {NoTrade}]
    /\ dStat \in [Orders -> Statuses \union {"none"}]
    /\ dFill \in [Orders -> Nat]
    /\ trd \in [Trades -> {"none", "open", "closed", "deleted"}]
    /\ amount \in [Trades -> Nat]
    /\ fee \in [Trades -> BOOLEAN]
    /\ pc \in {"off", "sync", "loop", "cancel", "book", "failed", "safe",
               "similar", "clear", "record", "recover", "signal", "done"}
    /\ phase \in {"startup", "fees", "manage", "exit", "adjust", "enter"}
    /\ todo \subseteq Orders /\ clr \subseteq Orders
    /\ cur \in Orders \union {NoOrder}
    /\ resp \in Reply
    /\ job \in {"startup", "timeout", "drop", "replace", "clear"}
    /\ plan \in Plan
    /\ ret \in {"sync", "loop", "failed", "safe", "similar", "clear", "recover", "done"}
    /\ crashes \in Nat /\ lost \in Nat

-----------------------------------------------------------------------------
(* What the rows say.                                                      *)

OrdersOf(t) == {o \in Orders : owner[o] = t}
OpenOrders(t) == {o \in OrdersOf(t) : dStat[o] = "open"}

\* Mutant: select_filled_orders takes orders that are done but bought nothing.
FilledEntriesOrNot(t) ==
    {o \in OrdersOf(t) : exSide[o] = "buy" /\ dStat[o] \in NonOpen}

\* select_filled_orders of the entry side.
FilledEntries(t) ==
    {o \in OrdersOf(t) : exSide[o] = "buy" /\ dStat[o] \in NonOpen /\ dFill[o] > 0}
CanceledExits(t) ==
    {o \in OrdersOf(t) : exSide[o] = "sell" /\ dStat[o] \in Canceled}
OpenTrades == {t \in Trades : trd[t] = "open"}

\* The sum over orders that recalc_trade_from_orders walks: filled amounts of
\* orders no longer open, entries positive and exits negative.
Signed(o) == IF exSide[o] = "buy" THEN dFill[o] ELSE -dFill[o]
NetFilled(t) == MapThenSumSet(Signed, {o \in OrdersOf(t) : dStat[o] \in NonOpen})

\* Loops walk orders in the order of their ids, select_order takes the last.
First(o, S) == o \in S /\ \A p \in S : o <= p
Latest(o, S) == o \in S /\ \A p \in S : p <= o

Created == {o \in Orders : exStat[o] # "none"}
Snapshot(o) == [stat |-> exStat[o], fill |-> exFill[o]]
Locked == MapThenSumSet(LAMBDA o : exAmt[o] - exFill[o],
            {o \in Orders : exStat[o] = "open" /\ exSide[o] = "sell"})

-----------------------------------------------------------------------------
(* The exchange.                                                           *)

ExchangeFill(o) ==
    /\ exStat[o] = "open"
    /\ exFill' = [exFill EXCEPT ![o] = @ + 1]
    /\ exStat' = [exStat EXCEPT ![o] = IF exFill[o] + 1 >= exAmt[o] THEN "closed" ELSE "open"]
    /\ bal' = IF exSide[o] = "buy" THEN bal + 1 ELSE bal - 1
    /\ UNCHANGED <<exSide, exAmt, rows, control, crashes, lost>>

\* Cancelled by the user or by the exchange itself.
ExchangeCancel(o) ==
    /\ exStat[o] = "open"
    /\ exStat' = [exStat EXCEPT ![o] = "canceled"]
    /\ UNCHANGED <<exSide, exAmt, exFill, bal, rows, control, crashes, lost>>

-----------------------------------------------------------------------------
(* Order.update_orders and the part of update_trade_state before fees.     *)

\* Mutant: a cancelled order counts as unfilled, whatever it had filled.
UpdateOrderReset(o, r) ==
    /\ dStat' = [dStat EXCEPT ![o] = r.stat]
    /\ dFill' = [dFill EXCEPT ![o] = IF r.stat \in Canceled THEN 0 ELSE r.fill]

\* update_from_ccxt_object copies status and filled amount of the reply.
UpdateOrder(o, r) ==
    /\ dStat' = [dStat EXCEPT ![o] = r.stat]
    /\ dFill' = [dFill EXCEPT ![o] = r.fill]

\* Mutant: only completely filled orders are booked, a cancelled order's partial
\* fill is not.
UpdateTradeStateClosed(o, r, next) ==
    /\ UpdateOrder(o, r)
    /\ cur' = o
    /\ IF r.stat = "closed" THEN pc' = "book" /\ ret' = next ELSE pc' = next /\ ret' = ret

\* Continue at `next`, through BookOrder when the order is done and filled.
UpdateTradeState(o, r, next) ==
    /\ UpdateOrder(o, r)
    /\ cur' = o
    /\ IF r.stat \in NonOpen /\ r.fill > 0
       THEN pc' = "book" /\ ret' = next
       ELSE pc' = next /\ ret' = ret

\* Trade.delete: the trade row goes, and its order rows with it.
DeleteTrade(t) ==
    /\ trd' = [trd EXCEPT ![t] = "deleted"]
    /\ amount' = [amount EXCEPT ![t] = 0]
    /\ fee' = [fee EXCEPT ![t] = FALSE]
    /\ owner' = [o \in Orders |-> IF owner[o] = t THEN NoTrade ELSE owner[o]]
    /\ dStat' = [o \in Orders |-> IF owner[o] = t THEN "none" ELSE dStat[o]]
    /\ dFill' = [o \in Orders |-> IF owner[o] = t THEN 0 ELSE dFill[o]]

\* send_msg = False: update_trades_without_assigned_fees, handle_onexchange_order.
Recalculating == ret = "recover" \/ phase = "fees"

\* Trade.update_trade: the exit that sold all there was closes the trade.
Closes(o) ==
    /\ exSide[o] = "sell"
    /\ \/ dFill[o] = amount[owner[o]]
       \/ ~Recalculating /\ dFill[o] > amount[owner[o]]

\* recalc_trade_from_orders sets the amount to the sum n when that is positive;
\* else it stays what it was, which for an entry update_trade has just set.
NewAmount(o, n) ==
    IF n > 0 THEN n ELSE IF exSide[o] = "buy" THEN dFill[o] ELSE amount[owner[o]]

\* handle_order_fee, Trade.update_trade and _update_trade_after_fill, all
\* between the commit of the order row and the commit of the trade row.
BookOrder ==
    /\ pc = "book"
    /\ LET t == owner[cur]
           entry == exSide[cur] = "buy"
       IN /\ t # NoTrade
          /\ \E n \in Amounts :
                /\ n = NetFilled(t)
                /\ amount' = [amount EXCEPT ![t] = NewAmount(cur, n)]
          /\ trd' = IF Closes(cur) THEN [trd EXCEPT ![t] = "closed"] ELSE trd
          /\ \E detected \in BOOLEAN :
                fee' = [fee EXCEPT ![t] =
                    IF ~entry THEN @
                    ELSE IF ~Recalculating /\ Cardinality(FilledEntries(t)) > 1 THEN FALSE
                    ELSE @ \/ detected]
    /\ pc' = ret
    /\ UNCHANGED <<exch, owner, dStat, dFill, phase, todo, clr, cur, resp, job,
                   plan, ret, crashes, lost>>

-----------------------------------------------------------------------------
(* The order of FreqtradeBot.process.                                      *)

\* Mutant: exit_positions starts over as long as there is an open trade.
NextPhaseAgain == [startup |-> "fees", fees |-> "manage", manage |-> "exit",
                   exit |-> "exit", adjust |-> "enter", enter |-> "fees"]

\* The calls of process(), each entered when the one before has returned.
NextPhase == [startup |-> "fees", fees |-> "manage", manage |-> "exit",
              exit |-> "adjust", adjust |-> "enter", enter |-> "fees"]

\* Mutant: only the orders of trades that hold something are listed.
GoToHeld(p) ==
    /\ phase' = p
    /\ pc' = "loop"
    /\ todo' = IF p = "manage"
               THEN UNION {OpenOrders(t) : t \in {u \in OpenTrades : amount[u] > 0}} ELSE {}

\* manage_open_orders lists the open orders of open trades when it begins.
GoTo(p) ==
    /\ phase' = p
    /\ pc' = "loop"
    /\ todo' = IF p = "manage" THEN UNION {OpenOrders(t) : t \in OpenTrades} ELSE {}

\* A handler returned: go on with the loop it was called from.
Resume ==
    /\ pc = "done"
    /\ IF phase = "manage" THEN pc' = "loop" /\ UNCHANGED <<phase, todo>>
                           ELSE GoTo(NextPhase[phase])
    /\ clr' = {} /\ cur' = NoOrder /\ resp' = NoReply /\ job' = "timeout"
    /\ plan' = NoPlan /\ ret' = "done"
    /\ UNCHANGED <<exch, rows, crashes, lost>>

\* A TemporaryError the handlers do not catch: _process_running sleeps and
\* process() starts over.
Abandon ==
    /\ phase' = "fees" /\ pc' = "loop" /\ todo' = {} /\ clr' = {}
    /\ cur' = NoOrder /\ resp' = NoReply /\ job' = "timeout"
    /\ plan' = NoPlan /\ ret' = "done"

\* The part of a DependencyException: logged by exit_positions,
\* process_open_trade_positions or enter_positions, and replace_order_failed
\* when a replacement was under way.
Failed == IF plan.mode = "replace" THEN "failed" ELSE "done"

-----------------------------------------------------------------------------
(* startup_update_open_orders, and handle_insufficient_funds which walks   *)
(* the open orders of one trade in the same way, inside another loop.      *)

Start ==
    /\ pc = "off"
    /\ pc' = "sync" /\ phase' = "startup"
    /\ todo' = {o \in Orders : dStat[o] = "open"}
    /\ UNCHANGED <<exch, rows, clr, cur, resp, job, plan, ret, crashes, lost>>

SyncNext(o) ==
    /\ pc = "sync"
    /\ IF phase = "startup"
       THEN First(o, todo) /\ todo' = todo \ {o} /\ clr' = clr
       ELSE First(o, clr) /\ clr' = clr \ {o} /\ todo' = todo

SyncOrder(o) ==
    /\ SyncNext(o)
    /\ UpdateTradeState(o, Snapshot(o), "sync")
    /\ UNCHANGED <<exch, owner, trd, amount, fee, phase, resp, job, plan, crashes, lost>>

\* Mutant: a forgotten order is taken for a filled one.
SyncForgottenFilled(o) ==
    /\ Forgetful
    /\ pc = "sync" /\ phase = "startup" /\ First(o, todo)
    /\ todo' = todo \ {o}
    /\ cur' = o /\ pc' = "cancel" /\ job' = "startup"
    /\ resp' = [stat |-> "canceled", fill |-> exAmt[o]]
    /\ UNCHANGED <<exch, rows, phase, clr, plan, ret, crashes, lost>>

\* InvalidOrderException at startup: order_date - 5 days is always in the past,
\* so the order counts as cancelled with what was known to be filled.
SyncForgotten(o) ==
    /\ Forgetful
    /\ pc = "sync" /\ phase = "startup" /\ First(o, todo)
    /\ todo' = todo \ {o}
    /\ cur' = o /\ pc' = "cancel" /\ job' = "startup"
    /\ resp' = [stat |-> "canceled", fill |-> dFill[o]]
    /\ UNCHANGED <<exch, rows, phase, clr, plan, ret, crashes, lost>>

\* ExchangeError on the fetch: logged, the order is left for later.
SyncUnreachable(o) ==
    /\ SyncNext(o)
    /\ UNCHANGED <<exch, rows, pc, phase, cur, resp, job, plan, ret, crashes, lost>>

SyncDone ==
    /\ pc = "sync"
    /\ IF phase = "startup" THEN todo = {} /\ GoTo("fees")
                            ELSE clr = {} /\ pc' = Failed /\ UNCHANGED <<phase, todo>>
    /\ UNCHANGED <<exch, rows, clr, cur, resp, job, plan, ret, crashes, lost>>

-----------------------------------------------------------------------------
(* update_trades_without_assigned_fees, its second loop, for open trades.  *)
(* The first, left out, books the last exit of a closed trade once more    *)
(* for its fee: the trade stays closed, its rows say the same again.       *)

FeeMissing(t) ==
    /\ ~fee[t] /\ FilledEntries(t) # {}
    /\ \A o \in OpenOrders(t) : exSide[o] # "buy"

AssignFees ==
    /\ pc = "loop" /\ phase = "fees"
    /\ \E t \in OpenTrades : \E o \in FilledEntries(t) :
        /\ FeeMissing(t) /\ Latest(o, FilledEntries(t))
        /\ UpdateTradeState(o, Snapshot(o), "done")
    /\ UNCHANGED <<exch, owner, trd, amount, fee, phase, todo, clr, resp, job, plan,
                   crashes, lost>>

\* None are missing, or the order could not be fetched.
NoFeesAssigned ==
    /\ pc = "loop" /\ phase = "fees"
    /\ GoTo("manage")
    /\ UNCHANGED <<exch, rows, clr, cur, resp, job, plan, ret, crashes, lost>>

-----------------------------------------------------------------------------
(* manage_open_orders and replace_order.                                   *)

Managing == pc = "loop" /\ phase = "manage"

ManageOrder(o) ==
    /\ Managing /\ First(o, todo)
    /\ owner[o] # NoTrade
    /\ todo' = todo \ {o}
    /\ resp' = Snapshot(o)
    /\ \/ /\ exStat[o] = "open" \/ exFill[o] = 0
          /\ UpdateOrder(o, Snapshot(o)) /\ cur' = o /\ ret' = ret
          /\ \/ exStat[o] = "open" /\ pc' = "done" /\ job' = job   \* keep it
             \/ pc' = "cancel" /\ job' = "timeout"
             \/ /\ Replacing /\ exStat[o] = "open"
                /\ pc' = "cancel" /\ job' \in {"replace", "drop"}
       \/ /\ exStat[o] \in NonOpen /\ exFill[o] > 0
          /\ UpdateTradeState(o, Snapshot(o), "done") /\ job' = job
    /\ UNCHANGED <<exch, owner, trd, amount, fee, phase, clr, plan, crashes, lost>>

\* fetch_order raised, or the row went with its trade earlier in the loop.
ManageUnreachable(o) ==
    /\ Managing /\ First(o, todo)
    /\ todo' = todo \ {o}
    /\ UNCHANGED <<exch, rows, pc, phase, clr, cur, resp, job, plan, ret, crashes, lost>>

ManageDone ==
    /\ Managing /\ todo = {}
    /\ GoTo("exit")
    /\ UNCHANGED <<exch, rows, clr, cur, resp, job, plan, ret, crashes, lost>>

-----------------------------------------------------------------------------
(* handle_cancel_order: the order in hand is `cur`, the reply fetched for  *)
(* it earlier is `resp`, and the exchange has gone on since.               *)

\* What the caller does with handle_cancel_order's result.
AfterCancel(result) ==
    CASE job = "clear" -> "clear"
      [] job = "startup" -> "sync"
      [] job = "timeout" -> "done"
      [] job = "drop" -> IF result THEN "done" ELSE "failed"
      [] job = "replace" -> IF ~result THEN "failed"
                            ELSE IF exSide[cur] = "buy" THEN "similar" ELSE "safe"

\* The order to place once the cancel went through (handle_replace_order);
\* an exit's safe_remaining of 0 reads as "no sub_trade_amt" (SafeExit).
NextPlan(result, c) ==
    IF job = "replace" /\ result
    THEN [trade |-> owner[cur], side |-> exSide[cur], amt |-> exAmt[cur] - c.fill,
          mode |-> "replace"]
    ELSE plan

\* handle_cancel_enter once the order is known to be done.
EntryCancelled(c) ==
    LET t == owner[cur]
        deletes == /\ c.fill = 0 /\ job \in {"startup", "timeout", "drop"}
                   /\ OpenOrders(t) \ {cur} = {} /\ FilledEntries(t) = {}
    IN /\ IF deletes
          THEN DeleteTrade(t) /\ pc' = AfterCancel(TRUE) /\ UNCHANGED <<cur, ret>>
          ELSE UpdateTradeState(cur, c, AfterCancel(c.fill = 0))
               /\ UNCHANGED <<owner, trd, amount, fee>>
       /\ plan' = NextPlan(c.fill = 0, c)

\* handle_cancel_exit once cancel_order_with_result has answered (`acted`) or
\* the order was done before (its result is then False).
ExitCancelled(c, acted) ==
    LET t == owner[cur]
        canceledNow == Cardinality(CanceledExits(t) \union
                          (IF c.stat \in Canceled THEN {cur} ELSE {}))
        emergency == /\ acted /\ job \in {"timeout", "drop"}
                     /\ ExitTimeouts > 0 /\ canceledNow >= ExitTimeouts
    IN /\ UpdateTradeState(cur, c, IF emergency THEN "safe" ELSE AfterCancel(acted))
       /\ plan' = IF emergency
                  THEN [trade |-> t, side |-> "sell", amt |-> exAmt[cur] - c.fill, mode |-> "exit"]
                  ELSE NextPlan(acted, c)
       /\ UNCHANGED <<owner, trd, amount, fee>>

\* Cancelling would leave less than can be traded: the order is kept.
KeepPartial ==
    /\ MinAmt > 0 /\ resp.fill > 0
    /\ IF exSide[cur] = "buy" THEN resp.fill < MinAmt
                              ELSE amount[owner[cur]] - resp.fill < MinAmt

CancelKept ==
    /\ pc = "cancel" /\ resp.stat = "open" /\ KeepPartial
    /\ pc' = AfterCancel(FALSE)
    /\ UNCHANGED <<exch, rows, phase, todo, clr, cur, resp, job, plan, ret, crashes, lost>>

\* The order was done when it was fetched.
CancelKnown ==
    /\ pc = "cancel" /\ resp.stat \in NonOpen
    /\ IF exSide[cur] = "buy" THEN EntryCancelled(resp) ELSE ExitCancelled(resp, FALSE)
    /\ UNCHANGED <<exch, phase, todo, clr, resp, job, crashes, lost>>

\* Mutant: the filled amount is read off the reply from before the cancel.
CancelAckedStale ==
    /\ pc = "cancel" /\ resp.stat = "open" /\ ~KeepPartial
    /\ exStat' = [exStat EXCEPT ![cur] = IF @ = "open" THEN "canceled" ELSE @]
    /\ LET c == [stat |-> IF exStat[cur] = "open" THEN "canceled" ELSE exStat[cur],
                 fill |-> resp.fill]
       IN IF exSide[cur] = "buy" THEN EntryCancelled(c) ELSE ExitCancelled(c, TRUE)
    /\ UNCHANGED <<exSide, exAmt, exFill, bal, phase, todo, clr, resp, job, crashes, lost>>

\* cancel_order_with_result: the exchange cancels what is still open and
\* answers with the order as it then is.
CancelAcked ==
    /\ pc = "cancel" /\ resp.stat = "open" /\ ~KeepPartial
    /\ exStat' = [exStat EXCEPT ![cur] = IF @ = "open" THEN "canceled" ELSE @]
    /\ LET c == [stat |-> IF exStat[cur] = "open" THEN "canceled" ELSE exStat[cur],
                 fill |-> exFill[cur]]
       IN IF exSide[cur] = "buy" THEN EntryCancelled(c) ELSE ExitCancelled(c, TRUE)
    /\ UNCHANGED <<exSide, exAmt, exFill, bal, phase, todo, clr, resp, job, crashes, lost>>

\* Mutant: an entry is not kept when the answer still shows it open.
CancelPendingTrusted ==
    /\ pc = "cancel" /\ resp.stat = "open" /\ ~KeepPartial
    /\ exStat[cur] = "open"
    /\ IF exSide[cur] = "buy" THEN EntryCancelled(Snapshot(cur))
                              ELSE ExitCancelled(Snapshot(cur), TRUE)
    /\ UNCHANGED <<exch, phase, todo, clr, resp, job, crashes, lost>>

\* The answer still shows the order open, after the three extra fetches of a
\* replacement too: entries bail out, exits go on as if cancelled.
CancelPending ==
    /\ pc = "cancel" /\ resp.stat = "open" /\ ~KeepPartial
    /\ exStat[cur] = "open"
    /\ IF exSide[cur] = "buy"
       THEN pc' = AfterCancel(FALSE) /\ UNCHANGED <<rows, plan, cur, ret>>
       ELSE ExitCancelled(Snapshot(cur), TRUE)
    /\ UNCHANGED <<exch, phase, todo, clr, resp, job, crashes, lost>>

\* cancel_order and fetch_order both raise InvalidOrderException: the reply is
\* made up, cancelled with nothing filled.
CancelForgotten ==
    /\ Forgetful
    /\ pc = "cancel" /\ resp.stat = "open" /\ ~KeepPartial
    /\ exStat' = [exStat EXCEPT ![cur] = IF @ = "open" THEN "canceled" ELSE @]
    /\ LET c == [stat |-> "canceled", fill |-> 0]
       IN IF exSide[cur] = "buy" THEN EntryCancelled(c) ELSE ExitCancelled(c, TRUE)
    /\ UNCHANGED <<exSide, exAmt, exFill, bal, phase, todo, clr, resp, job, crashes, lost>>

\* TemporaryError out of cancel_order, its request carried out or not.
CancelRaised ==
    /\ pc = "cancel" /\ resp.stat = "open" /\ ~KeepPartial
    /\ \/ exStat' = exStat
       \/ exStat' = [exStat EXCEPT ![cur] = IF @ = "open" THEN "canceled" ELSE @]
    /\ IF job = "clear"
       THEN pc' = Failed /\ UNCHANGED <<phase, todo, clr, cur, resp, job, plan, ret>>
       ELSE Abandon
    /\ UNCHANGED <<exSide, exAmt, exFill, bal, rows, crashes, lost>>

\* replace_order_failed: without a filled entry the trade is deleted.
ReplaceOrderFailed ==
    /\ pc = "failed"
    /\ LET t == IF plan.trade = NoTrade THEN owner[cur] ELSE plan.trade
       IN IF t # NoTrade /\ FilledEntries(t) = {}
          THEN DeleteTrade(t)
          ELSE UNCHANGED rows
    /\ pc' = "done"
    /\ UNCHANGED <<exch, phase, todo, clr, cur, resp, job, plan, ret, crashes, lost>>

-----------------------------------------------------------------------------
(* execute_trade_exit and execute_entry.                                   *)

\* _safe_exit_amount; a sub-amount of 0 stands for the whole trade.amount.
SafeExit ==
    /\ pc = "safe" /\ plan.trade # NoTrade
    /\ LET a == IF plan.amt = 0 THEN amount[plan.trade] ELSE plan.amt
       IN \/ /\ bal >= a
             /\ pc' = "similar" /\ plan' = [plan EXCEPT !.amt = a]
          \/ /\ bal < a \/ plan.amt = 0       \* confirm_trade_exit may say no
             /\ pc' = Failed /\ plan' = plan
    /\ UNCHANGED <<exch, rows, phase, todo, clr, cur, resp, job, ret, crashes, lost>>

\* handle_similar_open_order: the newest open order of this side is kept when
\* it has the same amount and (here: possibly) the same price; otherwise every
\* open order of the trade is cancelled first.
HandleSimilarOpenOrder ==
    /\ pc = "similar"
    /\ LET same == {o \in OpenOrders(plan.trade) : exSide[o] = plan.side}
       IN \/ /\ \E o \in same : Latest(o, same) /\ exAmt[o] = plan.amt
             /\ pc' = Failed /\ clr' = clr
          \/ /\ plan.side = "buy"              \* no stake left for an entry
             /\ pc' = Failed /\ clr' = clr
          \/ pc' = "clear" /\ clr' = OpenOrders(plan.trade)
    /\ UNCHANGED <<exch, rows, phase, todo, cur, resp, job, plan, ret, crashes, lost>>

\* cancel_open_orders_of_trade: fetch, then cancel whatever was fetched.
ClearOrder(o) ==
    /\ pc = "clear" /\ First(o, clr)
    /\ clr' = clr \ {o}
    /\ pc' = "cancel" /\ cur' = o /\ resp' = Snapshot(o) /\ job' = "clear"
    /\ UNCHANGED <<exch, rows, phase, todo, plan, ret, crashes, lost>>

ClearUnreachable(o) ==
    /\ pc = "clear" /\ First(o, clr)
    /\ clr' = clr \ {o}
    /\ UNCHANGED <<exch, rows, pc, phase, todo, cur, resp, job, plan, ret, crashes, lost>>

Placing == pc = "clear" /\ clr = {}
CanPay == plan.side = "sell" => plan.amt <= bal - Locked

\* The exchange accepts the order with some status and filled amount.
PlaceOnExchange(o, st, f) ==
    /\ CanPay /\ plan.amt > 0
    /\ First(o, Orders \ Created)
    /\ f \in 0..plan.amt
    /\ (st = "closed") = (f = plan.amt)
    /\ st = "open" => f = 0
    /\ exSide' = [exSide EXCEPT ![o] = plan.side]
    /\ exAmt' = [exAmt EXCEPT ![o] = plan.amt]
    /\ exFill' = [exFill EXCEPT ![o] = f]
    /\ exStat' = [exStat EXCEPT ![o] = st]
    /\ bal' = IF plan.side = "buy" THEN bal + f ELSE bal - f

CreateOrder(o) ==
    /\ Placing
    /\ \E st \in CreateStats, f \in 0..plan.amt :
        /\ PlaceOnExchange(o, st, f)
        /\ resp' = [stat |-> st, fill |-> f]
    /\ cur' = o
    /\ pc' = "record"
    /\ UNCHANGED <<rows, phase, todo, clr, job, plan, ret, crashes, lost>>

\* The order is placed but the reply times out: TemporaryError.
CreateReplyLost(o) ==
    /\ Placing /\ lost < MaxLost
    /\ lost' = lost + 1
    /\ PlaceOnExchange(o, "open", 0)
    /\ pc' = Failed
    /\ UNCHANGED <<rows, phase, todo, clr, cur, resp, job, plan, ret, crashes>>

\* The exchange rejects it: InvalidOrderException, or no stake left.
CreateRejected ==
    /\ Placing
    /\ pc' = Failed
    /\ UNCHANGED <<exch, rows, phase, todo, clr, cur, resp, job, plan, ret, crashes, lost>>

\* InsufficientFundsError on an exit: handle_insufficient_funds.
CreateUnpaid ==
    /\ Placing /\ plan.side = "sell" /\ ~CanPay
    /\ pc' = "sync" /\ clr' = OpenOrders(plan.trade)
    /\ UNCHANGED <<exch, rows, phase, todo, cur, resp, job, plan, ret, crashes, lost>>

-----------------------------------------------------------------------------
(* The rest of execute_entry and execute_trade_exit, after the reply.      *)

\* Both commit the order row, an entry its trade row too.
RecordRow ==
    /\ owner' = [owner EXCEPT ![cur] = plan.trade]
    /\ UpdateOrder(cur, resp)

\* Mutant: any unfilled entry is dropped, not only one that expired.
UnfilledDropped == plan.side = "buy" /\ resp.fill = 0

\* A time-in-force entry that expired empty leaves no row behind.
ExpiredEmpty == plan.side = "buy" /\ resp.stat = "expired" /\ resp.fill = 0

RecordNothing ==
    /\ pc = "record" /\ ExpiredEmpty
    /\ pc' = Failed
    /\ UNCHANGED <<exch, rows, phase, todo, clr, cur, resp, job, plan, ret, crashes, lost>>

RecordEntry ==
    /\ pc = "record" /\ plan.side = "buy" /\ ~ExpiredEmpty
    /\ RecordRow
    /\ LET t == plan.trade
           done == IF resp.stat \in NonOpen THEN resp.fill ELSE 0
       IN /\ trd' = [trd EXCEPT ![t] = "open"]
          /\ \E n \in Amounts :
                /\ n = NetFilled(t) + done
                /\ amount' = [amount EXCEPT ![t] = IF n > 0 THEN n ELSE @]
    /\ IF resp.stat \in NonOpen /\ resp.fill > 0
       THEN pc' = "book" /\ ret' = "done" /\ job' = job
       ELSE IF resp.stat \in NonOpen /\ plan.mode # "replace"
       THEN pc' = "cancel" /\ ret' = ret /\ job' = "timeout"
       ELSE pc' = "done" /\ ret' = ret /\ job' = job
    /\ UNCHANGED <<exch, fee, phase, todo, clr, cur, resp, plan, crashes, lost>>

\* Of the replies that are not open, only closed and expired are booked.
RecordExit ==
    /\ pc = "record" /\ plan.side = "sell"
    /\ RecordRow
    /\ IF resp.stat \in {"closed", "expired"} /\ resp.fill > 0
       THEN pc' = "book" /\ ret' = "done"
       ELSE pc' = "done" /\ ret' = ret
    /\ UNCHANGED <<exch, trd, amount, fee, phase, todo, clr, cur, resp, job, plan, crashes, lost>>

-----------------------------------------------------------------------------
(* exit_positions, with handle_onexchange_order when coins are missing.    *)

Exiting == pc = "loop" /\ phase = "exit"
Coming(t) == [NoPlan EXCEPT !.trade = t]

CoinsMissing(t) == OpenOrders(t) = {} /\ fee[t] /\ bal < amount[t]

\* Orders of the pair since the trade was opened, other trades' left out.
OnExchange(t) ==
    {o \in Created : /\ owner[o] \in {t, NoTrade}
                     /\ \E first \in OrdersOf(t) : first <= o}

\* Without missing coins, on a wallet not refreshed since, or when
\* fetch_orders fails, the trade goes on to its exit signals.
ExitTrade ==
    /\ Exiting
    /\ \E t \in OpenTrades :
        /\ plan' = Coming(t)
        /\ \/ pc' = "signal" /\ todo' = todo
           \/ CoinsMissing(t) /\ pc' = "recover" /\ todo' = OnExchange(t)
    /\ UNCHANGED <<exch, rows, phase, clr, cur, resp, job, ret, crashes, lost>>

\* The code reads all orders in one call before the first is handled; here each
\* is read when its turn comes, which allows that and more.
RecoverOrder(o) ==
    /\ pc = "recover" /\ First(o, todo)
    /\ owner' = [owner EXCEPT ![o] = plan.trade]
    /\ UpdateTradeState(o, Snapshot(o), "recover")
    /\ todo' = todo \ {o}
    /\ UNCHANGED <<exch, trd, amount, fee, phase, clr, resp, job, plan, crashes, lost>>

RecoverDone ==
    /\ pc = "recover" /\ todo = {}
    /\ LET t == plan.trade
       IN IF /\ trd[t] = "open" /\ bal < amount[t]
             /\ \A o \in OrdersOf(t) :
                   exSide[o] = "buy" /\ dStat[o] \in Canceled /\ dFill[o] = 0
          THEN DeleteTrade(t) /\ pc' = "done"
          ELSE UNCHANGED rows /\ pc' = "signal"
    /\ UNCHANGED <<exch, phase, todo, clr, cur, resp, job, plan, ret, crashes, lost>>

ExitSignal ==
    /\ pc = "signal"
    /\ \/ pc' = "done"
       \/ /\ trd[plan.trade] = "open" /\ amount[plan.trade] > 0
          /\ pc' = "safe"
    /\ UNCHANGED <<exch, rows, phase, todo, clr, cur, resp, job, plan, ret, crashes, lost>>

ExitsDone ==
    /\ Exiting /\ OpenTrades = {}
    /\ GoTo("adjust")
    /\ UNCHANGED <<exch, rows, clr, cur, resp, job, plan, ret, crashes, lost>>

-----------------------------------------------------------------------------
(* process_open_trade_positions and enter_positions.                       *)

AdjustPosition ==
    /\ pc = "loop" /\ phase = "adjust" /\ Adjusting
    /\ \E t \in OpenTrades :
        \/ /\ amount[t] > 0 \/ OpenOrders(t) # {}
           /\ plan' = [trade |-> t, side |-> "buy", amt |-> OrderAmt, mode |-> "pos_adjust"]
           /\ pc' = "similar"
        \/ \E a \in 1..amount[t] :
             /\ amount[t] = a \/ amount[t] - a >= MinAmt
             /\ plan' = [trade |-> t, side |-> "sell", amt |-> a, mode |-> "exit"]
             /\ pc' = "safe"
    /\ UNCHANGED <<exch, rows, phase, todo, clr, cur, resp, job, ret, crashes, lost>>

NoAdjustment ==
    /\ pc = "loop" /\ phase = "adjust"
    /\ GoTo("enter")
    /\ UNCHANGED <<exch, rows, clr, cur, resp, job, plan, ret, crashes, lost>>

\* Mutant: the pairs of open trades stay on the whitelist.
EnterPositionAgain ==
    /\ pc = "loop" /\ phase = "enter"
    /\ \E t \in Trades :
        /\ trd[t] = "none" /\ \A u \in Trades : u < t => trd[u] # "none"
        /\ plan' = [trade |-> t, side |-> "buy", amt |-> OrderAmt, mode |-> "initial"]
    /\ pc' = "clear" /\ clr' = {}
    /\ UNCHANGED <<exch, rows, phase, todo, cur, resp, job, ret, crashes, lost>>

\* One trade per pair: pairs of open trades leave the whitelist.
EnterPosition ==
    /\ pc = "loop" /\ phase = "enter"
    /\ OpenTrades = {}
    /\ \E t \in Trades :
        /\ trd[t] = "none" /\ \A u \in Trades : u < t => trd[u] # "none"
        /\ plan' = [trade |-> t, side |-> "buy", amt |-> OrderAmt, mode |-> "initial"]
    /\ pc' = "clear" /\ clr' = {}
    /\ UNCHANGED <<exch, rows, phase, todo, cur, resp, job, ret, crashes, lost>>

NoEntry ==
    /\ pc = "loop" /\ phase = "enter"
    /\ GoTo("fees")
    /\ UNCHANGED <<exch, rows, clr, cur, resp, job, plan, ret, crashes, lost>>

-----------------------------------------------------------------------------
(* The process dies between any two steps; worker and database start over. *)

Crash ==
    /\ pc # "off" /\ crashes < MaxCrashes
    /\ crashes' = crashes + 1
    /\ pc' = "off" /\ phase' = "startup" /\ todo' = {} /\ clr' = {}
    /\ cur' = NoOrder /\ resp' = NoReply /\ job' = "timeout"
    /\ plan' = NoPlan /\ ret' = "done"
    /\ UNCHANGED <<exch, rows, lost>>

Init ==
    /\ exSide = [o \in Orders |-> "buy"] /\ exAmt = [o \in Orders |-> 0]
    /\ exFill = [o \in Orders |-> 0] /\ exStat = [o \in Orders |-> "none"]
    /\ bal = OtherCoins
    /\ owner = [o \in Orders |-> NoTrade]
    /\ dStat = [o \in Orders |-> "none"] /\ dFill = [o \in Orders |-> 0]
    /\ trd = [t \in Trades |-> "none"] /\ amount = [t \in Trades |-> 0]
    /\ fee = [t \in Trades |-> FALSE]
    /\ pc = "off" /\ phase = "startup" /\ todo = {} /\ clr = {}
    /\ cur = NoOrder /\ resp = NoReply /\ job = "timeout" /\ plan = NoPlan /\ ret = "done"
    /\ crashes = 0 /\ lost = 0

\* What the bot does about one order, and its steps that concern none.
Startup(o) == SyncOrder(o) \/ SyncForgotten(o) \/ SyncUnreachable(o)
Manage(o) == ManageOrder(o) \/ ManageUnreachable(o)
Place(o) == ClearOrder(o) \/ ClearUnreachable(o) \/ CreateOrder(o) \/ CreateReplyLost(o)
Loops == \/ Start \/ SyncDone \/ AssignFees \/ NoFeesAssigned \/ ManageDone
         \/ ExitTrade \/ RecoverDone \/ ExitSignal \/ ExitsDone
         \/ AdjustPosition \/ NoAdjustment \/ EnterPosition \/ NoEntry \/ Resume
Handlers == \/ BookOrder \/ CancelKept \/ CancelKnown \/ CancelAcked \/ CancelPending
            \/ CancelForgotten \/ CancelRaised \/ ReplaceOrderFailed
            \/ SafeExit \/ HandleSimilarOpenOrder \/ CreateRejected \/ CreateUnpaid
            \/ RecordNothing \/ RecordEntry \/ RecordExit
Bot == \/ \E o \in Orders : Startup(o) \/ Manage(o) \/ Place(o) \/ RecoverOrder(o)
       \/ Loops \/ Handlers

Exchange == \E o \in Orders : ExchangeFill(o) \/ ExchangeCancel(o)

Next == Bot \/ Exchange \/ Crash
Spec == Init /\ [][Next]_vars

\* The worker calls process() again and again; a fetch, a cancel or a placement
\* that is tried forever succeeds some time.
Fairness ==
    /\ WF_vars(Bot)
    /\ \A o \in Orders : SF_vars(SyncOrder(o)) /\ SF_vars(ManageOrder(o))
    /\ SF_vars(CancelAcked)
FairSpec == Spec /\ Fairness

-----------------------------------------------------------------------------
(* Properties.  The bot is between two handlers when pc is "loop".         *)

\* No row and no trade claims more than the exchange filled: neither a reply
\* that was made up nor one applied late adds coins nobody bought.
NeverOverstated ==
    /\ \A o \in Orders : dFill[o] <= exFill[o]
    /\ \A t \in Trades : amount[t] <=
            MapThenSumSet(LAMBDA o : exFill[o], {o \in OrdersOf(t) : exSide[o] = "buy"})

\* enter_positions drops the pairs of open trades from its whitelist, and no
\* handler reopens or creates a second trade for the pair behind its back.
OnePerPair == Cardinality(OpenTrades) <= 1

\* What a row says of its order was once true: no more is recorded as filled
\* than the exchange filled, and a row that is no longer open shows the final
\* status and amount, so that nothing filled later escapes the bookkeeping.
KnowledgeIsPast ==
    \A o \in Orders : dStat[o] # "none" =>
        /\ dFill[o] <= exFill[o]
        /\ dStat[o] \in NonOpen => dStat[o] = exStat[o] /\ dFill[o] = exFill[o]

\* A reply fetched earlier never overwrites a later one: as long as the row
\* exists its filled amount does not shrink and a final status stays.
KnowledgeGrows ==
    [][\A o \in Orders : owner[o] # NoTrade /\ owner'[o] = owner[o] =>
          /\ dFill'[o] >= dFill[o]
          /\ dStat[o] \in NonOpen => dStat'[o] = dStat[o]]_vars

\* An order that can still fill is an open row of an open trade, so the next
\* manage_open_orders looks at it; only the order being placed is not yet.
LiveOrdersTracked ==
    \A o \in Orders : exStat[o] = "open" =>
        \/ pc = "record" /\ o = cur
        \/ dStat[o] = "open" /\ trd[owner[o]] = "open"

\* Whenever no handler runs, the amount of an open trade is what its finished
\* orders bought less what they sold, and a closed one has sold all it bought:
\* booking twice or not at all would show, and so would coins that no exit signal
\* will ever look at.
BooksAgree ==
    pc = "loop" => \A t \in Trades :
        /\ trd[t] = "open" => amount[t] = IF NetFilled(t) > 0 THEN NetFilled(t) ELSE 0
        /\ trd[t] = "closed" => NetFilled(t) = 0

\* An open trade whose orders are all done and bought nothing is gone once
\* manage_open_orders has run: it would hold its slot and its pair for ever.
NoZombie ==
    pc = "loop" /\ phase \in {"adjust", "enter"} =>
        \A t \in OpenTrades : amount[t] > 0 \/ OpenOrders(t) # {}

\* Trade.delete only removes trades that bought nothing and cannot buy later.
DeleteOnlyEmpty ==
    [][\A o \in Orders : owner[o] # NoTrade /\ owner'[o] = NoTrade =>
          exFill[o] = 0 /\ exStat'[o] # "open"]_vars

\* As long as the trade of an order is open, the row of an order that is done
\* on the exchange does not stay open for ever.
Unbooked(o) == dStat[o] = "open" /\ exStat[o] # "open" /\ owner[o] \in OpenTrades
FillsAreBooked == \A o \in Orders : Unbooked(o) ~> ~Unbooked(o)

\* No handler keeps the bot: process() is started again and again, whatever
\* the exchange answers.
IterationsEnd == []<>(pc = "loop" /\ phase = "fees")
=============================================================================
