------------------------ MODULE OrderLifecycleProofs ------------------------
(***************************************************************************)
(* What holds of OrderLifecycle for every number of orders and trades, all *)
(* amounts, any number of crashes and lost replies, and every              *)
(* configuration that a theorem does not exclude.                          *)
(*                                                                         *)
(* TypeOK is not inductive: an exit's remaining amount exAmt - fill is a   *)
(* natural number only because no reply reports more than was ordered.     *)
(* IInv says so of the exchange's orders (ExchangeOK), of the rows         *)
(* (RowsLag), of the reply in hand (ReplyLags) and of the orders that rows *)
(* and loops may be about (RowsExist).  With an exchange that does not     *)
(* answer InvalidOrder about orders it holds, KInv adds that final rows    *)
(* and final replies are exact (RowsExact, ReplyExact).                    *)
(*                                                                         *)
(* OneInvolved says that at most one trade is in play: open, planned for,  *)
(* or the owner of an order that is being managed.  It is what keeps one   *)
(* open trade per pair although replacements reopen trades.                *)
(*                                                                         *)
(* NotOverstated bounds what a trade claims by what was bought for it; it  *)
(* needs to know whose orders handle_onexchange_order takes over and that  *)
(* an order is recorded on the side it was planned for (Orderly).          *)
(*                                                                         *)
(* EInv is about what Trade.delete deletes: rows have a status             *)
(* (RowsComplete) and exits only exist for trades with a filled entry      *)
(* (EntriesFirst), so that a trade without one has no other order.         *)
(*                                                                         *)
(* The last two parts are about processes that do not die and do not       *)
(* adjust positions (a crash between two commits does leave the books      *)
(* apart).  ZInv says why an open trade may hold nothing: an order of its  *)
(* own is open, or one is about to be booked, dropped or replaced          *)
(* (Backed), and what the handlers are doing meanwhile (ExitHeld,          *)
(* Prepared).  NoZombie follows.                                           *)
(*                                                                         *)
(* BInv is about one undisturbed process (Plain).  Only the last order can *)
(* still fill, and the account holds exactly what it bought or has yet to  *)
(* sell (Sequenced); a row that is read again is open, so that nothing is  *)
(* booked twice, and an exit is for all the coins there are (Control); the *)
(* amount of the open trade is the sum of its done rows, and the account   *)
(* holds the sum of its orders (Books).  That every live order has an open *)
(* row and that the books agree when no handler runs follow.               *)
(***************************************************************************)
EXTENDS OrderLifecycle, SumLemmas

ExchangeOK ==
    \A o \in Orders :
        /\ exFill[o] <= exAmt[o]
        /\ exStat[o] = "open" => exFill[o] < exAmt[o]
        /\ exStat[o] = "none" => exFill[o] = 0

RowsLag == \A o \in Orders : dFill[o] <= exFill[o]

\* The steps that work on the order in `cur`.
InHand == pc \in {"cancel", "record", "book"}
ReplyLags ==
    /\ InHand => cur \in Orders
    /\ pc \in {"cancel", "record"} => resp.fill <= exFill[cur]

RowsExist ==
    /\ \A o \in Orders : dStat[o] # "none" \/ owner[o] # NoTrade => exStat[o] # "none"
    /\ \A o \in todo \union clr : exStat[o] # "none"
    /\ InHand => exStat[cur] # "none"
    /\ pc = "record" => owner[cur] = NoTrade

IInv == TypeOK /\ ExchangeOK /\ RowsLag /\ ReplyLags /\ RowsExist

\* What the assumptions on the constants give.
LEMMA ConstantFacts ==
    /\ Orders \subseteq Nat \ {0} /\ Trades \subseteq Nat \ {0}
    /\ NoOrder \notin Orders /\ NoTrade \notin Trades
    /\ NonOpen \subseteq Statuses /\ "open" \in Statuses
    /\ "canceled" \in NonOpen /\ "open" \notin NonOpen /\ "none" \notin Statuses
    /\ OtherCoins \in Nat /\ Amounts \subseteq Int
  BY BoundsAssumption DEF Orders, Trades, NoOrder, NoTrade, NonOpen, Statuses, Amounts

\* The database starts empty and the exchange without orders of the bot.
LEMMA InitInv == Init => IInv
  BY ConstantFacts DEF Init, IInv, TypeOK, ExchangeOK, RowsLag, ReplyLags, RowsExist,
     InHand, NoReply, Reply,
     NoPlan, Plan, Statuses, NoTrade, NoOrder

-----------------------------------------------------------------------------
(* What the helpers of OrderLifecycle return.                              *)

RowsTyped ==
    /\ owner \in [Orders -> Trades \union {NoTrade}]
    /\ dStat \in [Orders -> Statuses \union {"none"}]
    /\ dFill \in [Orders -> Nat]
    /\ trd \in [Trades -> {"none", "open", "closed", "deleted"}]
    /\ amount \in [Trades -> Nat]
    /\ fee \in [Trades -> BOOLEAN]

\* Order.update_orders keeps the types of the rows it writes.
LEMMA UpdateTyped ==
  ASSUME TypeOK, NEW o \in Orders, NEW r \in Reply, UpdateOrder(o, r)
  PROVE  /\ dStat' \in [Orders -> Statuses \union {"none"}]
         /\ dFill' \in [Orders -> Nat]
  BY DEF TypeOK, UpdateOrder, Reply

\* fetch_order answers with a reply about an order that exists.
LEMMA SnapshotTyped ==
  ASSUME TypeOK, NEW o \in Orders, exStat[o] # "none"
  PROVE  Snapshot(o) \in Reply
  BY DEF TypeOK, Snapshot, Reply

\* Trade.delete keeps the types of all rows.
LEMMA DeleteTyped ==
  ASSUME TypeOK, NEW t, DeleteTrade(t)
  PROVE  RowsTyped'
  <1> USE ConstantFacts DEF TypeOK, DeleteTrade, RowsTyped
  <1>1. owner' \in [Orders -> Trades \union {NoTrade}]
    OBVIOUS
  <1>2. dStat' \in [Orders -> Statuses \union {"none"}] /\ dFill' \in [Orders -> Nat]
    OBVIOUS
  <1>3. trd' \in [Trades -> {"none", "open", "closed", "deleted"}]
    OBVIOUS
  <1>4. amount' \in [Trades -> Nat] /\ fee' \in [Trades -> BOOLEAN]
    OBVIOUS
  <1> QED  BY <1>1, <1>2, <1>3, <1>4

AfterCancels == {"clear", "sync", "done", "failed", "similar", "safe"}

\* handle_cancel_order goes back to one of the loops or handlers that call it.
LEMMA AfterCancelTyped ==
  ASSUME TypeOK, NEW result \in BOOLEAN
  PROVE  AfterCancel(result) \in AfterCancels
  BY DEF TypeOK, AfterCancel, AfterCancels

\* The order that replaces a cancelled one has the natural number left over as
\* its amount, because the reply reports no more than was ordered.
LEMMA NextPlanTyped ==
  ASSUME TypeOK, cur \in Orders, NEW result \in BOOLEAN, NEW c \in Reply, c.fill <= exAmt[cur]
  PROVE  NextPlan(result, c) \in Plan
  <1>1. exAmt[cur] - c.fill \in Nat  BY DEF TypeOK, Reply
  <1>2. owner[cur] \in Trades \union {NoTrade} /\ exSide[cur] \in {"buy", "sell"} /\ plan \in Plan
    BY DEF TypeOK
  <1> QED  BY <1>1, <1>2 DEF NextPlan, Plan

\* handle_cancel_enter keeps the types.
LEMMA EntryCancelledTyped ==
  ASSUME TypeOK, cur \in Orders, NEW c \in Reply, c.fill <= exAmt[cur], EntryCancelled(c)
  PROVE  /\ RowsTyped' /\ plan' \in Plan /\ cur' \in Orders
         /\ pc' \in AfterCancels \union {"book"}
         /\ ret' \in AfterCancels \union {"loop", "recover"}
  <1>1. plan' \in Plan  BY NextPlanTyped DEF EntryCancelled
  <1>2. ret \in AfterCancels \union {"loop", "recover"}  BY DEF TypeOK, AfterCancels
  <1>3. CASE DeleteTrade(owner[cur]) /\ pc' = AfterCancel(TRUE) /\ UNCHANGED <<cur, ret>>
    BY <1>1, <1>2, <1>3, DeleteTyped, AfterCancelTyped
  <1>4. CASE /\ UpdateTradeState(cur, c, AfterCancel(c.fill = 0))
             /\ UNCHANGED <<owner, trd, amount, fee>>
    BY <1>1, <1>2, <1>4, UpdateTyped, AfterCancelTyped DEF UpdateTradeState, RowsTyped,
       TypeOK
  <1> QED  BY <1>3, <1>4 DEF EntryCancelled

\* handle_cancel_exit keeps the types.
LEMMA ExitCancelledTyped ==
  ASSUME TypeOK, cur \in Orders, NEW c \in Reply, c.fill <= exAmt[cur],
         NEW acted \in BOOLEAN, ExitCancelled(c, acted)
  PROVE  /\ RowsTyped' /\ plan' \in Plan /\ cur' \in Orders
         /\ pc' \in AfterCancels \union {"book"}
         /\ ret' \in AfterCancels \union {"loop", "recover"}
  <1>1. plan' \in Plan
    <2>1. exAmt[cur] - c.fill \in Nat /\ owner[cur] \in Trades \union {NoTrade}
      BY DEF TypeOK, Reply
    <2> QED  BY <2>1, NextPlanTyped DEF ExitCancelled, Plan
  <1>2. ret \in AfterCancels \union {"loop", "recover"}  BY DEF TypeOK, AfterCancels
  <1>3. PICK next \in AfterCancels : UpdateTradeState(cur, c, next)
    BY AfterCancelTyped DEF ExitCancelled, AfterCancels
  <1>4. UNCHANGED <<owner, trd, amount, fee>>  BY DEF ExitCancelled
  <1> QED  BY <1>1, <1>2, <1>3, <1>4, UpdateTyped DEF UpdateTradeState, RowsTyped, TypeOK

\* What either cancel handler leaves of each row: as it was, as the reply says,
\* or gone with its trade.
CancelledRow(o, c) ==
    \/ UNCHANGED <<owner[o], dStat[o], dFill[o]>>
    \/ o = cur /\ owner'[o] = owner[o] /\ dStat'[o] = c.stat /\ dFill'[o] = c.fill
    \/ owner'[o] = NoTrade /\ dStat'[o] = "none" /\ dFill'[o] = 0

\* handle_cancel_enter changes no row but that of the order in hand, except by
\* deleting the trade.
LEMMA EntryCancelledRows ==
  ASSUME TypeOK, NEW c, EntryCancelled(c), NEW o \in Orders
  PROVE  CancelledRow(o, c)
  <1>1. CASE DeleteTrade(owner[cur])
    BY <1>1 DEF TypeOK, DeleteTrade, CancelledRow
  <1>2. CASE UpdateOrder(cur, c) /\ UNCHANGED owner
    BY <1>2 DEF TypeOK, UpdateOrder, CancelledRow
  <1> QED  BY <1>1, <1>2 DEF EntryCancelled, UpdateTradeState

\* handle_cancel_exit changes no row but that of the order in hand.
LEMMA ExitCancelledRows ==
  ASSUME TypeOK, NEW c, NEW acted, ExitCancelled(c, acted), NEW o \in Orders
  PROVE  CancelledRow(o, c)
  <1>1. UpdateOrder(cur, c) /\ UNCHANGED owner  BY DEF ExitCancelled, UpdateTradeState
  <1> QED  BY <1>1 DEF TypeOK, UpdateOrder, CancelledRow

\* A phase of process() begins with rows that are open, or with none.
LEMMA GoToTodo ==
  ASSUME TypeOK, NEW p, GoTo(p)
  PROVE  todo' \subseteq {o \in Orders : dStat[o] = "open"}
  BY DEF GoTo, OpenOrders, OrdersOf

\* The new amount a recalculation gives one trade is a natural number.
LEMMA AmountTyped ==
  ASSUME NEW f \in [Trades -> Nat], NEW t \in Trades \union {NoTrade}, NEW n \in Int,
         NEW v, t \in Trades => v \in Nat
  PROVE  [f EXCEPT ![t] = IF n > 0 THEN n ELSE v] \in [Trades -> Nat]
  <1>1. CASE t \in Trades
    <2>1. (IF n > 0 THEN n ELSE v) \in Nat  BY <1>1
    <2> QED  BY <1>1, <2>1
  <1>2. CASE t \notin Trades  BY <1>2
  <1> QED  BY <1>1, <1>2

-----------------------------------------------------------------------------
(* The invariant is inductive: the actions that disturb it.                *)

\* One more unit filled keeps an order within its amount.
LEMMA ExchangeFillStep == ASSUME IInv, NEW o \in Orders, ExchangeFill(o) PROVE IInv'
  <1> USE ConstantFacts DEF IInv, ExchangeFill, rows, control
  <1>1. exFill[o] \in Nat /\ exAmt[o] \in Nat /\ exFill[o] < exAmt[o]
    BY DEF TypeOK, ExchangeOK
  <1>2. TypeOK'  BY <1>1 DEF TypeOK, Statuses, NonOpen
  <1>3. ExchangeOK'  BY <1>1 DEF ExchangeOK, TypeOK
  <1>4. RowsLag' /\ ReplyLags'  BY <1>1 DEF RowsLag, ReplyLags, InHand, TypeOK, Reply
  <1>5. RowsExist'  BY DEF RowsExist, InHand, TypeOK
  <1> QED  BY <1>2, <1>3, <1>4, <1>5

\* A booking gives the trade a natural amount, whatever the sum over its
\* orders is.
LEMMA BookOrderStep == ASSUME IInv, BookOrder PROVE IInv'
  <1> USE DEF IInv, BookOrder, exch
  <1>1. TypeOK'
    <2>1. cur \in Orders /\ dFill[cur] \in Nat  BY DEF ReplyLags, InHand, TypeOK
    <2>2. amount' \in [Trades -> Nat]
      <3>1. PICK n \in Amounts :
               amount' = [amount EXCEPT ![owner[cur]] = NewAmount(cur, n)]
        BY Zenon
      <3>2. n \in Int  BY ConstantFacts
      <3>3. amount \in [Trades -> Nat]  BY DEF TypeOK
      <3>4. owner[cur] \in Trades \union {NoTrade}  BY <2>1 DEF TypeOK
      <3> DEFINE v == IF exSide[cur] = "buy" THEN dFill[cur] ELSE amount[owner[cur]]
      <3>5. owner[cur] \in Trades => v \in Nat  BY <2>1, <3>3
      <3>6. amount' = [amount EXCEPT ![owner[cur]] = IF n > 0 THEN n ELSE v]
        BY <3>1, Zenon DEF NewAmount
      <3> HIDE DEF v, BookOrder
      <3> QED  BY <3>2, <3>3, <3>4, <3>5, <3>6, AmountTyped
    <2>3. trd' \in [Trades -> {"none", "open", "closed", "deleted"}]  BY DEF TypeOK
    <2>4. fee' \in [Trades -> BOOLEAN]  BY Zenon DEF TypeOK
    <2>5. pc' \in {"off", "sync", "loop", "cancel", "book", "failed", "safe",
                    "similar", "clear", "record", "recover", "signal", "done"}
      BY DEF TypeOK
    <2> QED  BY ZenonT(60), <2>2, <2>3, <2>4, <2>5 DEF TypeOK
  <1>2. ExchangeOK' /\ RowsLag'  BY DEF ExchangeOK, RowsLag
  <1>3. ReplyLags' /\ RowsExist'  BY DEF ReplyLags, RowsExist, InHand, TypeOK
  <1> QED  BY <1>1, <1>2, <1>3

\* The next loop starts from rows of orders the exchange knows.
LEMMA ResumeStep == ASSUME IInv, Resume PROVE IInv'
  <1> USE ConstantFacts DEF IInv, Resume, exch, rows
  <1>1. phase' \in {"startup", "fees", "manage", "exit", "adjust", "enter"} /\ pc' = "loop"
    BY DEF TypeOK, GoTo, NextPhase
  <1>2. /\ todo' \subseteq Orders /\ clr' \subseteq Orders
        /\ \A o \in todo' \union clr' : exStat[o] # "none"
    BY GoToTodo DEF TypeOK, RowsExist
  <1>3. resp' \in Reply /\ plan' \in Plan
    BY DEF NoReply, NoPlan, Reply, Plan, Statuses
  <1>4. TypeOK'  BY <1>1, <1>2, <1>3 DEF TypeOK, NoOrder
  <1>5. RowsExist'  BY <1>1, <1>2 DEF RowsExist, InHand
  <1> QED  BY <1>1, <1>4, <1>5 DEF ExchangeOK, RowsLag, ReplyLags, InHand

\* What the four ways of learning that the order in hand is done or cancelled
\* have in common: a reply c that reports no more than was filled goes through
\* handle_cancel_enter or handle_cancel_exit.
Cancelling(c, acted) ==
    /\ pc = "cancel" /\ c \in Reply /\ c.fill <= exFill[cur]
    /\ EntryCancelled(c) \/ ExitCancelled(c, acted)
    /\ \/ exStat' = exStat
       \/ exStat' = [exStat EXCEPT ![cur] = IF @ = "open" THEN "canceled" ELSE @]
    /\ UNCHANGED <<exSide, exAmt, exFill, bal, phase, todo, clr, resp, job, crashes, lost>>

\* Whatever the handlers do with such a reply keeps the invariant, and the bot
\* does not go on to another cancel or to a new order with it.
LEMMA CancellingStep ==
  ASSUME IInv, NEW c, NEW acted \in BOOLEAN, Cancelling(c, acted)
  PROVE  IInv' /\ pc' \in AfterCancels \union {"book"} /\ cur \in Orders
  <1> USE ConstantFacts DEF IInv, Cancelling
  <1>1. cur \in Orders /\ exStat[cur] # "none"  BY DEF ReplyLags, RowsExist, InHand
  <1>2. c.fill <= exAmt[cur]  BY <1>1 DEF TypeOK, Reply, ExchangeOK
  <1>3. /\ RowsTyped' /\ plan' \in Plan /\ cur' \in Orders
        /\ pc' \in AfterCancels \union {"book"}
        /\ ret' \in AfterCancels \union {"loop", "recover"}
    BY <1>1, <1>2, EntryCancelledTyped, ExitCancelledTyped
  <1>4. cur' = cur  BY DEF EntryCancelled, ExitCancelled, UpdateTradeState
  <1>5. \A o \in Orders : CancelledRow(o, c)
    BY EntryCancelledRows, ExitCancelledRows
  <1>6. exStat' \in [Orders -> Statuses \union {"none"}]  BY DEF TypeOK
  <1>7. TypeOK'  BY <1>3, <1>6 DEF TypeOK, RowsTyped, AfterCancels
  <1>8. ExchangeOK'  BY <1>1 DEF ExchangeOK, TypeOK
  <1>9. RowsLag'  BY <1>5 DEF CancelledRow, RowsLag, TypeOK
  <1>10. ReplyLags'  BY <1>3 DEF ReplyLags, InHand, AfterCancels
  <1>11. RowsExist'
    BY <1>1, <1>3, <1>4, <1>5 DEF CancelledRow, RowsExist, InHand, AfterCancels, TypeOK
  <1> QED  BY <1>1, <1>3, <1>7, <1>8, <1>9, <1>10, <1>11

\* The order was done when it was fetched.
LEMMA CancelKnownCase ==
  ASSUME IInv, CancelKnown
  PROVE  \E acted \in BOOLEAN : Cancelling(resp, acted)
  BY DEF IInv, TypeOK, ReplyLags, CancelKnown, Cancelling, exch

\* What cancel_order_with_result answers once the order is done.
Answer == [stat |-> IF exStat[cur] = "open" THEN "canceled" ELSE exStat[cur],
           fill |-> exFill[cur]]

LEMMA CancelAckedCase ==
  ASSUME IInv, CancelAcked
  PROVE  Cancelling(Answer, TRUE) /\ exStat' = [exStat EXCEPT ![cur] = Answer.stat]
  <1>1. cur \in Orders /\ exStat[cur] # "none"
    BY DEF IInv, ReplyLags, RowsExist, InHand, CancelAcked
  <1>2. Answer \in Reply /\ Answer.fill = exFill[cur]
    BY <1>1 DEF IInv, TypeOK, Reply, Answer, Statuses, NonOpen
  <1>3. EntryCancelled(Answer) \/ ExitCancelled(Answer, TRUE)
    BY DEF CancelAcked, Answer
  <1>4. exStat' = [exStat EXCEPT ![cur] = IF @ = "open" THEN "canceled" ELSE @]
    BY DEF CancelAcked
  <1>5. exStat' = [exStat EXCEPT ![cur] = Answer.stat]
    BY <1>1, <1>4 DEF Answer, IInv, TypeOK
  <1>6. exFill[cur] <= exFill[cur]  BY <1>1 DEF IInv, TypeOK
  <1> QED  BY <1>2, <1>3, <1>4, <1>5, <1>6 DEF Cancelling, CancelAcked

\* An exit that still shows open is treated as cancelled.
LEMMA CancelPendingCase ==
  ASSUME IInv, CancelPending, exSide[cur] # "buy"
  PROVE  Cancelling(Snapshot(cur), TRUE)
  <1>1. cur \in Orders /\ exStat[cur] # "none"
    BY DEF IInv, ReplyLags, RowsExist, InHand, CancelPending
  <1>2. Snapshot(cur) \in Reply /\ Snapshot(cur).fill <= exFill[cur]
    BY <1>1, SnapshotTyped DEF IInv, TypeOK, Snapshot
  <1> QED  BY <1>2 DEF CancelPending, Cancelling, exch

\* The made-up reply: cancelled, nothing filled.
LEMMA CancelForgottenCase ==
  ASSUME IInv, CancelForgotten
  PROVE  Cancelling([stat |-> "canceled", fill |-> 0], TRUE)
  <1>1. cur \in Orders  BY DEF IInv, ReplyLags, InHand, CancelForgotten
  <1>2. /\ [stat |-> "canceled", fill |-> 0] \in Reply
        /\ [stat |-> "canceled", fill |-> 0].fill <= exFill[cur]
    BY <1>1 DEF IInv, TypeOK, Reply, Statuses, NonOpen
  <1> QED  BY <1>2 DEF CancelForgotten, Cancelling

\* An entry that still shows open is kept, the replacement given up.
LEMMA CancelPendingStep == ASSUME IInv, CancelPending PROVE IInv'
  <1>1. CASE exSide[cur] = "buy"
    <2>1. pc' \in AfterCancels  BY <1>1, AfterCancelTyped DEF IInv, CancelPending
    <2>2. UNCHANGED <<exch, rows, phase, todo, clr, cur, resp, job, plan, ret, crashes, lost>>
      BY <1>1 DEF CancelPending, rows
    <2>3. TypeOK'  BY <2>1, <2>2 DEF IInv, TypeOK, exch, rows, AfterCancels
    <2> QED  BY <2>1, <2>2, <2>3 DEF IInv, exch, rows, AfterCancels,
             ExchangeOK, RowsLag, ReplyLags, RowsExist, InHand
  <1>2. CASE exSide[cur] # "buy"  BY <1>2, CancelPendingCase, CancellingStep
  <1> QED  BY <1>1, <1>2

\* A cancel whose answer is lost gives the iteration up.
LEMMA CancelRaisedStep == ASSUME IInv, CancelRaised PROVE IInv'
  <1> USE ConstantFacts DEF IInv, CancelRaised, rows
  <1>1. cur \in Orders  BY DEF ReplyLags, InHand
  <1>2. exStat' \in [Orders -> Statuses \union {"none"}]  BY DEF TypeOK
  <1>3. resp' \in Reply /\ plan' \in Plan
    BY DEF TypeOK, Abandon, NoReply, NoPlan, Reply, Plan, Statuses
  <1>4. TypeOK'  BY <1>1, <1>2, <1>3 DEF TypeOK, Abandon, Failed, NoOrder
  <1> QED
    BY <1>1, <1>4 DEF TypeOK, Abandon, Failed, ExchangeOK, RowsLag, ReplyLags, RowsExist,
       InHand

\* Deleting a trade forgets its rows.
LEMMA ReplaceOrderFailedStep == ASSUME IInv, ReplaceOrderFailed PROVE IInv'
  <1> USE ConstantFacts DEF IInv, ReplaceOrderFailed, exch
  <1>1. RowsTyped'  BY DeleteTyped DEF TypeOK, RowsTyped, rows
  <1>2. TypeOK'  BY <1>1 DEF TypeOK, RowsTyped
  <1>3. RowsLag' /\ ExchangeOK'  BY DEF RowsLag, ExchangeOK, DeleteTrade, rows, TypeOK
  <1> QED  BY <1>2, <1>3 DEF ReplyLags, RowsExist, InHand, DeleteTrade, rows

\* Only open rows of the trade are cleared.
LEMMA HandleSimilarOpenOrderStep == ASSUME IInv, HandleSimilarOpenOrder PROVE IInv'
  <1> USE ConstantFacts DEF IInv, HandleSimilarOpenOrder, exch, rows
  <1>1. clr' \subseteq Orders /\ \A o \in clr' : exStat[o] # "none"
    BY DEF TypeOK, OpenOrders, OrdersOf, RowsExist
  <1>2. pc' \in {"failed", "done", "clear"}  BY DEF Failed
  <1>3. TypeOK'  BY <1>1, <1>2 DEF TypeOK
  <1>4. RowsExist'  BY <1>1, <1>2 DEF RowsExist, InHand
  <1> QED  BY <1>2, <1>3, <1>4 DEF ExchangeOK, RowsLag, ReplyLags, InHand

\* cancel_open_orders_of_trade goes on with the reply it fetched.
LEMMA ClearOrderStep == ASSUME IInv, NEW o \in Orders, ClearOrder(o) PROVE IInv'
  <1> USE ConstantFacts DEF IInv, ClearOrder, exch, rows, First
  <1>1. resp' \in Reply  BY SnapshotTyped DEF TypeOK, RowsExist
  <1>2. TypeOK'  BY <1>1 DEF TypeOK
  <1>3. ReplyLags'  BY DEF ReplyLags, InHand, Snapshot, TypeOK
  <1> QED  BY <1>2, <1>3 DEF ExchangeOK, RowsLag, RowsExist, InHand, TypeOK

\* The order the exchange accepts is a new one, filled by no more than its
\* amount.
LEMMA CreateOrderStep == ASSUME IInv, NEW o \in Orders, CreateOrder(o) PROVE IInv'
  <1> USE ConstantFacts DEF IInv, CreateOrder, rows, First, Created
  <1>1. PICK st \in CreateStats, f \in 0..plan.amt :
           PlaceOnExchange(o, st, f) /\ resp' = [stat |-> st, fill |-> f]
    OBVIOUS
  <1>2. st \in Statuses /\ f \in Nat /\ plan.amt \in Nat /\ plan.side \in {"buy", "sell"}
    BY ConfigAssumption DEF TypeOK, Plan
  <1>3. /\ exSide' \in [Orders -> {"buy", "sell"}] /\ exAmt' \in [Orders -> Nat]
        /\ exFill' \in [Orders -> Nat] /\ exStat' \in [Orders -> Statuses \union {"none"}]
        /\ bal' \in Int
    BY <1>1, <1>2 DEF TypeOK, PlaceOnExchange
  <1>4. resp' \in Reply  BY <1>1, <1>2 DEF Reply
  <1>5. TypeOK'  BY <1>3, <1>4 DEF TypeOK
  <1>6. exStat[o] = "none" /\ exFill[o] = 0 /\ owner[o] = NoTrade
    BY <1>1 DEF PlaceOnExchange, ExchangeOK, RowsExist
  <1>7. ExchangeOK'  BY <1>1, <1>2, <1>6 DEF ExchangeOK, PlaceOnExchange, TypeOK
  <1>8. RowsLag'  BY <1>1, <1>2, <1>6 DEF RowsLag, PlaceOnExchange, TypeOK
  <1>9. ReplyLags'  BY <1>1, <1>2 DEF ReplyLags, InHand, PlaceOnExchange, TypeOK
  <1>10. RowsExist'  BY <1>1, <1>2, <1>6 DEF RowsExist, InHand, PlaceOnExchange, TypeOK
  <1> QED  BY <1>5, <1>7, <1>8, <1>9, <1>10

\* The same, with nobody to hear of it.
LEMMA CreateReplyLostStep == ASSUME IInv, NEW o \in Orders, CreateReplyLost(o) PROVE IInv'
  <1> USE ConstantFacts DEF IInv, CreateReplyLost, rows, First, Created
  <1>1. plan.amt \in Nat /\ plan.side \in {"buy", "sell"}  BY DEF TypeOK, Plan
  <1>2. exStat[o] = "none" /\ exFill[o] = 0  BY DEF PlaceOnExchange, ExchangeOK
  <1>3. pc' \in {"failed", "done"}  BY DEF Failed
  <1>4. TypeOK'  BY <1>1, <1>3 DEF TypeOK, PlaceOnExchange
  <1>5. ExchangeOK'  BY <1>1, <1>2 DEF ExchangeOK, PlaceOnExchange, TypeOK
  <1>6. RowsLag'  BY <1>1, <1>2 DEF RowsLag, PlaceOnExchange, TypeOK
  <1>7. ReplyLags'  BY <1>3 DEF ReplyLags, InHand
  <1>8. RowsExist'  BY <1>3 DEF RowsExist, InHand, PlaceOnExchange, TypeOK
  <1> QED  BY <1>4, <1>5, <1>6, <1>7, <1>8

\* The row of a new entry is written as the reply says, and the sum over the
\* trade's orders is a natural amount again.
LEMMA RecordEntryStep == ASSUME IInv, RecordEntry PROVE IInv'
  <1> USE ConstantFacts DEF IInv, RecordEntry, exch
  <1>1. cur \in Orders /\ resp \in Reply /\ resp.fill \in Nat /\ resp.fill <= exFill[cur]
    BY DEF TypeOK, Reply, ReplyLags, InHand
  <1>2. owner' \in [Orders -> Trades \union {NoTrade}]  BY DEF TypeOK, RecordRow, Plan
  <1>3. amount' \in [Trades -> Nat]
    <2>1. PICK n \in Amounts : amount' = [amount EXCEPT ![plan.trade] = IF n > 0 THEN n ELSE @]
      BY Zenon
    <2>2. n \in Int  BY ConstantFacts
    <2>3. amount \in [Trades -> Nat]  BY DEF TypeOK
    <2>4. plan.trade \in Trades \union {NoTrade}  BY DEF TypeOK, Plan
    <2> QED  BY <2>1, <2>2, <2>3, <2>4, AmountTyped
  <1>4. trd' \in [Trades -> {"none", "open", "closed", "deleted"}]  BY DEF TypeOK
  <1>5. TypeOK'  BY <1>1, <1>2, <1>3, <1>4, UpdateTyped DEF RecordRow, TypeOK
  <1>6. RowsLag' /\ ExchangeOK'
    BY <1>1 DEF RecordRow, UpdateOrder, RowsLag, ExchangeOK, TypeOK
  <1>7. ReplyLags' /\ RowsExist'
    BY <1>1 DEF RecordRow, UpdateOrder, ReplyLags, RowsExist, InHand, TypeOK
  <1> QED  BY <1>5, <1>6, <1>7

\* The row of a new exit is written as the reply says.
LEMMA RecordExitStep == ASSUME IInv, RecordExit PROVE IInv'
  <1> USE ConstantFacts DEF IInv, RecordExit, exch
  <1>1. cur \in Orders /\ resp \in Reply /\ resp.fill \in Nat /\ resp.fill <= exFill[cur]
    BY DEF TypeOK, Reply, ReplyLags, InHand
  <1>2. owner' \in [Orders -> Trades \union {NoTrade}]  BY DEF TypeOK, RecordRow, Plan
  <1>3. TypeOK'  BY <1>1, <1>2, UpdateTyped DEF RecordRow, TypeOK
  <1>4. RowsLag' /\ ExchangeOK'
    BY <1>1 DEF RecordRow, UpdateOrder, RowsLag, ExchangeOK, TypeOK
  <1>5. ReplyLags' /\ RowsExist'
    BY <1>1 DEF RecordRow, UpdateOrder, ReplyLags, RowsExist, InHand, TypeOK
  <1> QED  BY <1>3, <1>4, <1>5

\* handle_onexchange_order adopts orders the exchange knows.
LEMMA RecoverOrderStep == ASSUME IInv, NEW o \in Orders, RecoverOrder(o) PROVE IInv'
  <1> USE ConstantFacts DEF IInv, RecoverOrder, exch, First, UpdateTradeState
  <1>1. exStat[o] # "none" /\ Snapshot(o) \in Reply /\ Snapshot(o).fill = exFill[o]
    BY SnapshotTyped DEF RowsExist, Snapshot
  <1>2. owner' \in [Orders -> Trades \union {NoTrade}]  BY DEF TypeOK, Plan
  <1>3. TypeOK'  BY <1>1, <1>2, UpdateTyped DEF TypeOK
  <1>4. RowsLag' /\ ExchangeOK'  BY <1>1 DEF UpdateOrder, RowsLag, ExchangeOK, TypeOK
  <1>5. ReplyLags' /\ RowsExist'
    BY <1>1 DEF UpdateOrder, ReplyLags, RowsExist, InHand, TypeOK
  <1> QED  BY <1>3, <1>4, <1>5

\* handle_onexchange_order keeps the trade or deletes it with its rows.
LEMMA RecoverDoneStep == ASSUME IInv, RecoverDone PROVE IInv'
  <1> USE ConstantFacts DEF IInv, RecoverDone, exch
  <1>1. RowsTyped'  BY DeleteTyped DEF TypeOK, RowsTyped, rows
  <1>2. TypeOK'  BY <1>1 DEF TypeOK, RowsTyped
  <1>3. RowsLag' /\ ExchangeOK'  BY DEF RowsLag, ExchangeOK, DeleteTrade, rows, TypeOK
  <1> QED  BY <1>2, <1>3 DEF ReplyLags, RowsExist, InHand, DeleteTrade, rows

\* The order check_and_call_adjust_trade_position asks for has a natural amount.
LEMMA AdjustPositionStep == ASSUME IInv, AdjustPosition PROVE IInv'
  <1> USE ConstantFacts DEF IInv, AdjustPosition, exch, rows
  <1>1. plan' \in Plan
    <2>1. OrderAmt \in Nat  BY BoundsAssumption
    <2>2. \A t \in OpenTrades : t \in Trades /\ 1..amount[t] \subseteq Nat
      BY DEF OpenTrades, TypeOK
    <2> QED  BY <2>1, <2>2 DEF Plan
  <1>2. TypeOK'  BY <1>1 DEF TypeOK
  <1> QED  BY <1>2 DEF TypeOK, ExchangeOK, RowsLag, ReplyLags, RowsExist, InHand

\* So has the first order of a new trade.
LEMMA EnterPositionStep == ASSUME IInv, EnterPosition PROVE IInv'
  <1> USE ConstantFacts DEF IInv, EnterPosition, exch, rows
  <1>1. plan' \in Plan  BY BoundsAssumption DEF Plan
  <1>2. TypeOK'  BY <1>1 DEF TypeOK
  <1> QED  BY <1>2 DEF TypeOK, ExchangeOK, RowsLag, ReplyLags, RowsExist, InHand

-----------------------------------------------------------------------------
(* The invariant is inductive: every step.                                 *)

\* The order synchronised exists, since a loop lists only orders that do.
LEMMA SyncOrderStep == ASSUME IInv, NEW o \in Orders, SyncOrder(o) PROVE IInv'
  <1>1. exStat[o] # "none" /\ pc = "sync"
    BY DEF SyncOrder, SyncNext, First, IInv, RowsExist
  <1>2. /\ todo' \subseteq todo /\ clr' \subseteq clr /\ UNCHANGED phase
    BY DEF SyncOrder, SyncNext
  <1>3. /\ UNCHANGED <<exch, owner, trd, amount, fee, resp, job, plan, crashes, lost>>
        /\ dStat' = [dStat EXCEPT ![o] = exStat[o]] /\ dFill' = [dFill EXCEPT ![o] = exFill[o]]
        /\ cur' = o /\ pc' \in {"book", "sync"} /\ ret' \in {"sync", ret}
    BY DEF SyncOrder, UpdateTradeState, UpdateOrder, Snapshot
  <1> QED
    BY <1>1, <1>2, <1>3 DEF IInv, ExchangeOK, RowsLag, ReplyLags, RowsExist, InHand,
       TypeOK, exch

\* Each action of the bot and of the exchange keeps the invariant.
LEMMA StepInv == ASSUME IInv, [Next]_vars PROVE IInv'
  <1> USE ConstantFacts DEF IInv, ExchangeOK, RowsLag, ReplyLags, RowsExist, InHand
  <1>1. ASSUME NEW o \in Orders, ExchangeFill(o) PROVE IInv'  BY <1>1, ExchangeFillStep
  <1>2. ASSUME NEW o \in Orders, ExchangeCancel(o) PROVE IInv'
    BY <1>2 DEF ExchangeCancel, rows, control, TypeOK, Statuses
  <1>3. CASE Start
    BY <1>3 DEF Start, exch, rows, TypeOK
  <1>4. ASSUME NEW o \in Orders, SyncOrder(o) PROVE IInv'  BY <1>4, SyncOrderStep
  <1>5. ASSUME NEW o \in Orders, SyncForgotten(o) PROVE IInv'
    BY <1>5 DEF SyncForgotten, exch, rows, First, TypeOK, Reply, Statuses
  <1>6. ASSUME NEW o \in Orders, SyncUnreachable(o) PROVE IInv'
    BY ZenonT(60), <1>6 DEF SyncUnreachable, SyncNext, exch, rows, First, TypeOK
  <1>7. CASE SyncDone
    BY ZenonT(60), <1>7, GoToTodo DEF SyncDone, exch, rows, GoTo, Failed, TypeOK
  <1>8. CASE AssignFees
    BY <1>8 DEF AssignFees, exch, Latest, FilledEntries, OrdersOf, OpenTrades,
       UpdateTradeState, UpdateOrder, Snapshot, TypeOK, Reply
  <1>9. CASE NoFeesAssigned
    BY <1>9, GoToTodo DEF NoFeesAssigned, exch, rows, GoTo, TypeOK
  <1>10. CASE BookOrder  BY <1>10, BookOrderStep
  <1>11. ASSUME NEW o \in Orders, ManageOrder(o) PROVE IInv'
    BY <1>11 DEF ManageOrder, exch, First, Managing, UpdateTradeState, UpdateOrder,
       Snapshot, TypeOK, Reply
  <1>12. ASSUME NEW o \in Orders, ManageUnreachable(o) PROVE IInv'
    BY <1>12 DEF ManageUnreachable, exch, rows, First, Managing, TypeOK
  <1>13. CASE ManageDone
    BY <1>13, GoToTodo DEF ManageDone, exch, rows, GoTo, Managing, TypeOK
  <1>14. CASE Resume  BY <1>14, ResumeStep
  <1>15. CASE CancelKept
    BY <1>15 DEF CancelKept, exch, rows, AfterCancel, TypeOK, Reply
  <1>16. CASE CancelKnown  BY <1>16, CancelKnownCase, CancellingStep
  <1>17. CASE CancelAcked  BY <1>17, CancelAckedCase, CancellingStep
  <1>18. CASE CancelPending  BY <1>18, CancelPendingStep
  <1>19. CASE CancelForgotten  BY <1>19, CancelForgottenCase, CancellingStep
  <1>20. CASE CancelRaised  BY <1>20, CancelRaisedStep
  <1>21. CASE ReplaceOrderFailed  BY <1>21, ReplaceOrderFailedStep
  <1>22. CASE SafeExit
    BY <1>22 DEF SafeExit, exch, rows, Failed, TypeOK, Reply, Plan
  <1>23. CASE HandleSimilarOpenOrder  BY <1>23, HandleSimilarOpenOrderStep
  <1>24. ASSUME NEW o \in Orders, ClearOrder(o) PROVE IInv'  BY <1>24, ClearOrderStep
  <1>25. ASSUME NEW o \in Orders, ClearUnreachable(o) PROVE IInv'
    BY <1>25 DEF ClearUnreachable, exch, rows, First, TypeOK
  <1>26. ASSUME NEW o \in Orders, CreateOrder(o) PROVE IInv'  BY <1>26, CreateOrderStep
  <1>27. ASSUME NEW o \in Orders, CreateReplyLost(o) PROVE IInv'
    BY <1>27, CreateReplyLostStep
  <1>28. CASE CreateRejected
    BY <1>28 DEF CreateRejected, exch, rows, Placing, Failed, TypeOK
  <1>29. CASE CreateUnpaid
    BY <1>29 DEF CreateUnpaid, exch, rows, Placing, OpenOrders, OrdersOf, TypeOK
  <1>30. CASE RecordNothing
    BY <1>30 DEF RecordNothing, exch, rows, Failed, TypeOK
  <1>31. CASE RecordEntry  BY <1>31, RecordEntryStep
  <1>32. CASE RecordExit  BY <1>32, RecordExitStep
  <1>33. CASE ExitTrade
    BY <1>33 DEF ExitTrade, exch, rows, Coming, OnExchange, Created, OpenTrades, Exiting,
       TypeOK, Plan, NoPlan
  <1>34. ASSUME NEW o \in Orders, RecoverOrder(o) PROVE IInv'  BY <1>34, RecoverOrderStep
  <1>35. CASE RecoverDone  BY <1>35, RecoverDoneStep
  <1>36. CASE ExitSignal
    BY <1>36 DEF ExitSignal, exch, rows, TypeOK
  <1>37. CASE ExitsDone
    BY <1>37, GoToTodo DEF ExitsDone, exch, rows, GoTo, Exiting, TypeOK
  <1>38. CASE AdjustPosition  BY <1>38, AdjustPositionStep
  <1>39. CASE NoAdjustment
    BY <1>39, GoToTodo DEF NoAdjustment, exch, rows, GoTo, TypeOK
  <1>40. CASE EnterPosition  BY <1>40, EnterPositionStep
  <1>41. CASE NoEntry
    BY <1>41, GoToTodo DEF NoEntry, exch, rows, GoTo, TypeOK
  <1>42. CASE Crash
    BY <1>42 DEF Crash, exch, rows, TypeOK, Plan, NoPlan, Reply, NoReply, Statuses, NoOrder
  <1>43. CASE UNCHANGED vars  BY <1>43 DEF vars, exch, rows, control, TypeOK
  <1> QED
    BY <1>1, <1>2, <1>3, <1>4, <1>5, <1>6, <1>7, <1>8, <1>9, <1>10, <1>11, <1>12,
       <1>13, <1>14, <1>15, <1>16, <1>17, <1>18, <1>19, <1>20, <1>21, <1>22, <1>23, <1>24,
       <1>25, <1>26, <1>27, <1>28, <1>29, <1>30, <1>31, <1>32, <1>33, <1>34, <1>35, <1>36,
       <1>37, <1>38, <1>39, <1>40, <1>41, <1>42, <1>43
    DEF Next, Bot, Exchange, Startup, Manage, Place, Loops, Handlers

\* The invariant holds in every state of every behaviour.
THEOREM Invariant == Spec => []IInv
  <1>1. IInv /\ [Next]_vars => IInv'  BY StepInv
  <1> QED  BY InitInv, <1>1, PTL DEF Spec

\* No order row claims more than the exchange filled, whatever the exchange
\* denies and whatever replies are made up for it.
THEOREM RowsNeverOverstate == Spec => []RowsLag
  <1>1. IInv => RowsLag  BY DEF IInv
  <1> QED  BY Invariant, <1>1, PTL

\* Type correctness: the bot never computes a negative amount or remaining
\* amount, and never works on an order, trade or step that does not exist.
THEOREM TypeCorrect == Spec => []TypeOK
  <1>1. IInv => TypeOK  BY DEF IInv
  <1> QED  BY Invariant, <1>1, PTL

-----------------------------------------------------------------------------
(* Rows are exact when the exchange does not forget orders.                *)

RowsExact ==
    \A o \in Orders : dStat[o] \in NonOpen => dStat[o] = exStat[o] /\ dFill[o] = exFill[o]
ReplyExact ==
    pc \in {"cancel", "record"} /\ resp.stat \in NonOpen =>
        exStat[cur] = resp.stat /\ exFill[cur] = resp.fill
KInv == IInv /\ RowsExact /\ ReplyExact

\* The step that KnowledgeGrows speaks of, for one order.
Grows(o) ==
    owner[o] # NoTrade /\ owner'[o] = owner[o] =>
        /\ dFill'[o] >= dFill[o]
        /\ dStat[o] \in NonOpen => dStat'[o] = dStat[o]
Exact == RowsExact' /\ ReplyExact' /\ \A o \in Orders : Grows(o)

\* A cancel whose reply is what the exchange then holds keeps final rows exact,
\* and no reply fetched before it overwrites it.
LEMMA CancellingExact ==
  ASSUME KInv, NEW c, NEW acted \in BOOLEAN, Cancelling(c, acted),
         c.stat = exStat'[cur], c.fill = exFill[cur]
  PROVE  Exact
  <1>1. pc' \in AfterCancels \union {"book"} /\ cur \in Orders
    BY CancellingStep DEF KInv
  <1>2. ReplyExact'  BY <1>1 DEF ReplyExact, AfterCancels
  <1>3. ASSUME NEW o \in Orders
        PROVE  /\ CancelledRow(o, c) /\ exFill'[o] = exFill[o]
               /\ dFill[o] \in Nat /\ dFill[o] <= exFill[o]
               /\ exStat[o] \in NonOpen => exStat'[o] = exStat[o]
    <2>1. CancelledRow(o, c)
      BY EntryCancelledRows, ExitCancelledRows DEF Cancelling, KInv, IInv
    <2>2. exStat[o] \in NonOpen => exStat'[o] = exStat[o]
      BY ConstantFacts DEF Cancelling, KInv, IInv, TypeOK
    <2> QED  BY <2>1, <2>2 DEF Cancelling, KInv, IInv, TypeOK, RowsLag
  <1>4. RowsExact'
    BY <1>1, <1>3, ConstantFacts DEF RowsExact, CancelledRow, KInv, NonOpen
  <1>5. ASSUME NEW o \in Orders PROVE Grows(o)
    BY <1>1, <1>3, <1>5 DEF Grows, CancelledRow, RowsExact, KInv, NoTrade
  <1> QED  BY <1>2, <1>4, <1>5 DEF Exact

\* Deleting a trade leaves the rows of other trades alone.
LEMMA DeleteExact ==
  ASSUME KInv, NEW t, DeleteTrade(t) \/ UNCHANGED rows, UNCHANGED exch,
         pc' \notin {"cancel", "record"}
  PROVE  Exact
  <1> USE ConstantFacts DEF KInv, IInv, DeleteTrade, exch, rows
  <1>1. RowsExact'  BY DEF RowsExact, TypeOK, NonOpen
  <1>2. ReplyExact'  BY DEF ReplyExact
  <1>3. ASSUME NEW o \in Orders PROVE Grows(o)  BY DEF Grows, TypeOK
  <1> QED  BY <1>1, <1>2, <1>3 DEF Exact

\* A step that touches neither exchange nor rows and does not fetch a reply.
LEMMA ControlExact ==
  ASSUME KInv, UNCHANGED <<exch, rows>>,
         pc' \notin {"cancel", "record"} \/ UNCHANGED <<pc, cur, resp>>
  PROVE  Exact
  BY DEF Exact, RowsExact, ReplyExact, Grows, KInv, IInv, TypeOK, exch, rows

\* Each row written is at least as recent as the one it replaces: what is
\* fetched is recorded before anything else is, or has become final.
LEMMA StepExact == ASSUME KInv, ~Forgetful, [Next]_vars PROVE Exact
  <1> USE ConstantFacts DEF KInv, IInv, RowsExact, ReplyExact, Grows
  <1>1. ASSUME NEW o \in Orders, ExchangeFill(o) PROVE Exact
    BY <1>1 DEF ExchangeFill, rows, control, TypeOK, Exact, ReplyLags, InHand, RowsLag
  <1>2. ASSUME NEW o \in Orders, ExchangeCancel(o) PROVE Exact
    BY <1>2 DEF ExchangeCancel, rows, control, TypeOK, Exact, ReplyLags, InHand
  <1>3. CASE Start  BY <1>3, ControlExact DEF Start
  <1>4. ASSUME NEW o \in Orders, SyncOrder(o) PROVE Exact
    BY <1>4 DEF SyncOrder, SyncNext, exch, First, UpdateTradeState, UpdateOrder, Snapshot, TypeOK,
       Exact, RowsLag
  <1>5. ASSUME NEW o \in Orders, SyncForgotten(o) PROVE Exact  BY <1>5 DEF SyncForgotten
  <1>6. ASSUME NEW o \in Orders, SyncUnreachable(o) PROVE Exact
    BY <1>6, ControlExact DEF SyncUnreachable, SyncNext
  <1>7. CASE SyncDone  BY <1>7, ControlExact DEF SyncDone, GoTo, Failed
  <1>8. CASE AssignFees
    BY <1>8 DEF AssignFees, exch, Latest, FilledEntries, OrdersOf, OpenTrades,
       UpdateTradeState, UpdateOrder, Snapshot, TypeOK, Exact, RowsLag
  <1>9. CASE NoFeesAssigned  BY <1>9, ControlExact DEF NoFeesAssigned, GoTo
  <1>10. CASE BookOrder
    BY <1>10 DEF BookOrder, exch, TypeOK, Exact, ReplyLags, InHand
  <1>11. ASSUME NEW o \in Orders, ManageOrder(o) PROVE Exact
    BY <1>11 DEF ManageOrder, exch, First, Managing, UpdateTradeState, UpdateOrder,
       Snapshot, TypeOK, Exact, RowsLag
  <1>12. ASSUME NEW o \in Orders, ManageUnreachable(o) PROVE Exact
    BY <1>12, ControlExact DEF ManageUnreachable, Managing
  <1>13. CASE ManageDone  BY <1>13, ControlExact DEF ManageDone, GoTo, Managing
  <1>14. CASE Resume  BY <1>14, ControlExact DEF Resume, GoTo
  <1>15. CASE CancelKept
    <2>1. pc' \in AfterCancels  BY <1>15, AfterCancelTyped DEF CancelKept
    <2> QED  BY <1>15, <2>1, ControlExact DEF CancelKept, AfterCancels
  <1>16. CASE CancelKnown
    <2>1. PICK acted \in BOOLEAN : Cancelling(resp, acted)  BY <1>16, CancelKnownCase
    <2>2. exStat'[cur] = resp.stat /\ exFill[cur] = resp.fill
      BY <1>16 DEF CancelKnown, exch
    <2> QED  BY <2>1, <2>2, CancellingExact
  <1>17. CASE CancelAcked
    <2>1. Cancelling(Answer, TRUE) /\ exStat' = [exStat EXCEPT ![cur] = Answer.stat]
      BY <1>17, CancelAckedCase
    <2>2. cur \in Orders  BY <2>1, CancellingStep
    <2>3. Answer.stat = exStat'[cur] /\ Answer.fill = exFill[cur]
      BY <2>1, <2>2 DEF TypeOK, Answer
    <2> QED  BY <2>1, <2>3, CancellingExact
  <1>18. CASE CancelPending
    <2>1. CASE exSide[cur] = "buy"
      <3>1. pc' \in AfterCancels  BY <1>18, <2>1, AfterCancelTyped DEF CancelPending
      <3> QED  BY <1>18, <2>1, <3>1, ControlExact DEF CancelPending, AfterCancels
    <2>2. CASE exSide[cur] # "buy"
      <3>1. Cancelling(Snapshot(cur), TRUE)  BY <1>18, <2>2, CancelPendingCase
      <3>2. Snapshot(cur).stat = exStat'[cur] /\ Snapshot(cur).fill = exFill[cur]
        BY <1>18 DEF CancelPending, Snapshot, exch
      <3> QED  BY <3>1, <3>2, CancellingExact
    <2> QED  BY <2>1, <2>2
  <1>19. CASE CancelForgotten  BY <1>19 DEF CancelForgotten
  <1>20. CASE CancelRaised
    BY <1>20 DEF CancelRaised, rows, Abandon, Failed, TypeOK, Exact
  <1>21. CASE ReplaceOrderFailed  BY <1>21, DeleteExact DEF ReplaceOrderFailed
  <1>22. CASE SafeExit  BY <1>22, ControlExact DEF SafeExit, Failed
  <1>23. CASE HandleSimilarOpenOrder
    BY <1>23, ControlExact DEF HandleSimilarOpenOrder, Failed
  <1>24. ASSUME NEW o \in Orders, ClearOrder(o) PROVE Exact
    BY <1>24 DEF ClearOrder, exch, rows, First, Snapshot, TypeOK, Exact
  <1>25. ASSUME NEW o \in Orders, ClearUnreachable(o) PROVE Exact
    BY <1>25, ControlExact DEF ClearUnreachable
  <1>26. ASSUME NEW o \in Orders, CreateOrder(o) PROVE Exact
    BY <1>26 DEF CreateOrder, rows, Placing, PlaceOnExchange, First, Created, TypeOK,
       Exact, RowsExist
  <1>27. ASSUME NEW o \in Orders, CreateReplyLost(o) PROVE Exact
    BY <1>27 DEF CreateReplyLost, rows, Placing, PlaceOnExchange, First, Created, Failed,
       TypeOK, Exact, RowsExist
  <1>28. CASE CreateRejected  BY <1>28, ControlExact DEF CreateRejected, Placing, Failed
  <1>29. CASE CreateUnpaid  BY <1>29, ControlExact DEF CreateUnpaid, Placing
  <1>30. CASE RecordNothing  BY <1>30, ControlExact DEF RecordNothing, Failed
  <1>31. CASE RecordEntry
    BY <1>31 DEF RecordEntry, exch, RecordRow, UpdateOrder, TypeOK, Exact, ReplyLags,
       InHand, RowsExist
  <1>32. CASE RecordExit
    BY <1>32 DEF RecordExit, exch, RecordRow, UpdateOrder, TypeOK, Exact, ReplyLags,
       InHand, RowsExist
  <1>33. CASE ExitTrade  BY <1>33, ControlExact DEF ExitTrade, Exiting
  <1>34. ASSUME NEW o \in Orders, RecoverOrder(o) PROVE Exact
    BY <1>34 DEF RecoverOrder, exch, First, UpdateTradeState, UpdateOrder, Snapshot,
       TypeOK, Exact, RowsLag
  <1>35. CASE RecoverDone  BY <1>35, DeleteExact DEF RecoverDone
  <1>36. CASE ExitSignal  BY <1>36, ControlExact DEF ExitSignal
  <1>37. CASE ExitsDone  BY <1>37, ControlExact DEF ExitsDone, GoTo, Exiting
  <1>38. CASE AdjustPosition  BY <1>38, ControlExact DEF AdjustPosition
  <1>39. CASE NoAdjustment  BY <1>39, ControlExact DEF NoAdjustment, GoTo
  <1>40. CASE EnterPosition  BY <1>40, ControlExact DEF EnterPosition
  <1>41. CASE NoEntry  BY <1>41, ControlExact DEF NoEntry, GoTo
  <1>42. CASE Crash  BY <1>42, ControlExact DEF Crash
  <1>43. CASE UNCHANGED vars  BY <1>43, ControlExact DEF vars, control
  <1> QED
    BY <1>1, <1>2, <1>3, <1>4, <1>5, <1>6, <1>7, <1>8, <1>9, <1>10, <1>11, <1>12,
       <1>13, <1>14, <1>15, <1>16, <1>17, <1>18, <1>19, <1>20, <1>21, <1>22, <1>23, <1>24,
       <1>25, <1>26, <1>27, <1>28, <1>29, <1>30, <1>31, <1>32, <1>33, <1>34, <1>35, <1>36,
       <1>37, <1>38, <1>39, <1>40, <1>41, <1>42, <1>43
    DEF Next, Bot, Exchange, Startup, Manage, Place, Loops, Handlers

LEMMA InitExact == Init => KInv
  BY InitInv DEF Init, KInv, RowsExact, ReplyExact, NonOpen

\* With an exchange that answers for every order it holds, final rows and final
\* replies are exact in every state.
THEOREM ExactInvariant == ASSUME ~Forgetful PROVE Spec => []KInv
  <1>1. KInv /\ [Next]_vars => KInv'
    BY StepInv, StepExact DEF KInv, Exact
  <1> QED  BY InitExact, <1>1, PTL DEF Spec

\* What a row says of its order was once true and what it says is final is
\* final: no fill of any order ever escapes the bookkeeping after its row is
\* done, whatever the exchange does between the calls, whenever the process
\* dies and whatever replies are lost.
THEOREM RowsAreTrue == ASSUME ~Forgetful PROVE Spec => []KnowledgeIsPast
  <1>1. KInv => KnowledgeIsPast
    BY DEF KInv, IInv, RowsLag, RowsExact, KnowledgeIsPast
  <1> QED  BY ExactInvariant, <1>1, PTL

\* A reply fetched earlier never overwrites a later one.
THEOREM RowsOnlyGrow == ASSUME ~Forgetful PROVE Spec => KnowledgeGrows
  <1>1. KInv /\ [Next]_vars =>
          [\A o \in Orders : owner[o] # NoTrade /\ owner'[o] = owner[o] =>
             /\ dFill'[o] >= dFill[o]
             /\ dStat[o] \in NonOpen => dStat'[o] = dStat[o]]_vars
    BY StepExact DEF Exact, Grows
  <1> QED  BY ExactInvariant, <1>1, PTL DEF Spec, KnowledgeGrows

-----------------------------------------------------------------------------
(* One trade per pair.                                                     *)

\* The trades that a handler may open, or take for the next order.
Involved(t) ==
    \/ trd[t] = "open"
    \/ plan.trade = t
    \/ phase = "manage" /\ \E o \in todo : owner[o] = t
    \/ pc = "cancel" /\ job \in {"timeout", "drop", "replace"} /\ owner[cur] = t

OneInvolved == \A t, u \in Trades : Involved(t) /\ Involved(u) => t = u

\* A step involves no trade that was not, except when all were closed: then it
\* may involve one.
NoneJoins == \A t \in Trades : Involved(t)' => Involved(t)
OnlyOne == \E t \in Trades : \A u \in Trades : Involved(u)' => u = t

\* A phase begins with the orders of open trades, if with any.
LEMMA GoToInvolves ==
  ASSUME TypeOK, NEW p, GoTo(p), UNCHANGED <<owner, trd, plan>>
  PROVE  NoneJoins
  <1> SUFFICES ASSUME NEW t \in Trades, Involved(t)' PROVE Involved(t)
    BY DEF NoneJoins
  <1>1. pc' = "loop"  BY DEF GoTo
  <1>2. CASE \E o \in todo' : owner[o] = t
    <2>1. \A o \in todo' : owner[o] \in OpenTrades  BY DEF GoTo, OpenOrders, OrdersOf
    <2> QED  BY <1>2, <2>1 DEF Involved, OpenTrades
  <1>3. CASE trd'[t] = "open" \/ plan'.trade = t  BY <1>3 DEF Involved
  <1> QED  BY <1>1, <1>2, <1>3 DEF Involved

\* Cancelling goes on with the trade of the order in hand, if with another.
LEMMA CancellingInvolves ==
  ASSUME IInv, NEW c, NEW acted \in BOOLEAN, Cancelling(c, acted)
  PROVE  NoneJoins
  <1> SUFFICES ASSUME NEW t \in Trades, Involved(t)' PROVE Involved(t)
    BY DEF NoneJoins
  <1>1. pc' # "cancel" /\ cur \in Orders  BY CancellingStep DEF AfterCancels
  <1>2. trd'[t] = "open" => trd[t] = "open"
    BY ZenonT(60) DEF Cancelling, EntryCancelled, ExitCancelled, DeleteTrade, IInv, TypeOK
  <1>3. \A o \in Orders : owner'[o] = t => owner[o] = t
    <2>1. \A o \in Orders : CancelledRow(o, c)
      BY EntryCancelledRows, ExitCancelledRows DEF Cancelling, IInv
    <2> QED  BY <2>1, ConstantFacts DEF CancelledRow
  <1>4. plan'.trade = t => Involved(t)
    <2>1. CASE EntryCancelled(c)
      BY <2>1 DEF Cancelling, EntryCancelled, NextPlan, Involved
    <2>2. CASE ExitCancelled(c, acted)
      BY <2>2 DEF Cancelling, ExitCancelled, NextPlan, Involved
    <2> QED  BY <2>1, <2>2 DEF Cancelling
  <1>5. UNCHANGED <<phase, todo>> /\ todo \subseteq Orders
    BY DEF Cancelling, IInv, TypeOK
  <1> QED  BY <1>1, <1>2, <1>3, <1>4, <1>5 DEF Involved

\* A step of a handler that fetches nothing: the trade planned for, the rows
\* and the loop stay, or the handler gives up.
LEMMA QuietInvolves ==
  ASSUME TypeOK, UNCHANGED <<owner, trd>>,
         plan'.trade \in {plan.trade, NoTrade},
         todo' \subseteq todo, phase' = phase \/ phase' # "manage",
         pc' # "cancel" \/ job' \in {"startup", "clear"} \/ UNCHANGED <<pc, job, cur>>
  PROVE  NoneJoins
  BY ConstantFacts DEF NoneJoins, Involved

\* Every step of Next keeps to the trade in play.
LEMMA StepInvolves ==
  ASSUME IInv, OneInvolved, [Next]_vars
  PROVE  NoneJoins \/ OnlyOne
  <1> USE ConstantFacts DEF IInv
  <1>1. ASSUME NEW o \in Orders, ExchangeFill(o) PROVE NoneJoins
    BY <1>1, QuietInvolves DEF ExchangeFill, rows, control
  <1>2. ASSUME NEW o \in Orders, ExchangeCancel(o) PROVE NoneJoins
    BY <1>2, QuietInvolves DEF ExchangeCancel, rows, control
  <1>3. CASE Start
    BY <1>3 DEF Start, exch, rows, NoneJoins, Involved
  <1>4. ASSUME NEW o \in Orders, SyncOrder(o) PROVE NoneJoins
    BY <1>4, QuietInvolves DEF SyncOrder, SyncNext, UpdateTradeState, UpdateOrder
  <1>5. ASSUME NEW o \in Orders, SyncForgotten(o) PROVE NoneJoins
    BY <1>5, QuietInvolves DEF SyncForgotten, rows
  <1>6. ASSUME NEW o \in Orders, SyncUnreachable(o) PROVE NoneJoins
    BY <1>6, QuietInvolves DEF SyncUnreachable, SyncNext, rows
  <1>7. CASE SyncDone
    <2>1. CASE phase = "startup"
      BY <1>7, <2>1, GoToInvolves DEF SyncDone, rows
    <2>2. CASE phase # "startup"
      BY <1>7, <2>2, QuietInvolves DEF SyncDone, rows, Failed
    <2> QED  BY <2>1, <2>2
  <1>8. CASE AssignFees
    BY <1>8, QuietInvolves DEF AssignFees, UpdateTradeState, UpdateOrder
  <1>9. CASE NoFeesAssigned  BY <1>9, GoToInvolves DEF NoFeesAssigned, rows
  <1>10. CASE BookOrder
    <2>1. \A t \in Trades : trd'[t] = "open" => trd[t] = "open"
      BY <1>10 DEF BookOrder, TypeOK
    <2>2. ret # "cancel"  BY DEF TypeOK
    <2> QED  BY <1>10, <2>1, <2>2 DEF BookOrder, NoneJoins, Involved
  <1>11. ASSUME NEW o \in Orders, ManageOrder(o) PROVE NoneJoins
    BY <1>11 DEF ManageOrder, Managing, First, UpdateTradeState, UpdateOrder, NoneJoins,
       Involved
  <1>12. ASSUME NEW o \in Orders, ManageUnreachable(o) PROVE NoneJoins
    BY <1>12, QuietInvolves DEF ManageUnreachable, rows
  <1>13. CASE ManageDone  BY <1>13, GoToInvolves DEF ManageDone, rows
  <1>14. CASE Resume
    <2>1. CASE phase = "manage"
      BY <1>14, <2>1, QuietInvolves DEF Resume, rows, NoPlan
    <2>2. CASE phase # "manage"
      <3>1. PICK p : GoTo(p)  BY <1>14, <2>2 DEF Resume
      <3>2. \A o \in todo' : owner[o] \in OpenTrades
        BY <3>1 DEF GoTo, OpenOrders, OrdersOf
      <3> QED  BY <1>14, <3>1, <3>2 DEF Resume, rows, GoTo, NoPlan, NoneJoins, Involved, OpenTrades
    <2> QED  BY <2>1, <2>2
  <1>15. CASE CancelKept
    <2>1. pc' # "cancel"  BY <1>15, AfterCancelTyped DEF CancelKept, AfterCancels
    <2> QED  BY <1>15, <2>1, QuietInvolves DEF CancelKept, rows
  <1>16. CASE CancelKnown  BY <1>16, CancelKnownCase, CancellingInvolves
  <1>17. CASE CancelAcked  BY <1>17, CancelAckedCase, CancellingInvolves
  <1>18. CASE CancelPending
    <2>1. CASE exSide[cur] = "buy"
      <3>1. pc' # "cancel"  BY <1>18, <2>1, AfterCancelTyped DEF CancelPending, AfterCancels
      <3> QED  BY <1>18, <2>1, <3>1, QuietInvolves DEF CancelPending, rows
    <2>2. CASE exSide[cur] # "buy"
      BY <1>18, <2>2, CancelPendingCase, CancellingInvolves
    <2> QED  BY <2>1, <2>2
  <1>19. CASE CancelForgotten  BY <1>19, CancelForgottenCase, CancellingInvolves
  <1>20. CASE CancelRaised
    BY <1>20, QuietInvolves DEF CancelRaised, rows, Abandon, Failed, NoPlan
  <1>21. CASE ReplaceOrderFailed
    BY <1>21 DEF ReplaceOrderFailed, rows, DeleteTrade, TypeOK, NoneJoins, Involved
  <1>22. CASE SafeExit
    <2>1. plan'.trade = plan.trade  BY <1>22 DEF SafeExit, TypeOK, Plan
    <2> QED  BY <1>22, <2>1, QuietInvolves DEF SafeExit, rows, Failed
  <1>23. CASE HandleSimilarOpenOrder
    BY <1>23, QuietInvolves DEF HandleSimilarOpenOrder, rows, Failed
  <1>24. ASSUME NEW o \in Orders, ClearOrder(o) PROVE NoneJoins
    BY <1>24, QuietInvolves DEF ClearOrder, rows
  <1>25. ASSUME NEW o \in Orders, ClearUnreachable(o) PROVE NoneJoins
    BY <1>25, QuietInvolves DEF ClearUnreachable, rows
  <1>26. ASSUME NEW o \in Orders, CreateOrder(o) PROVE NoneJoins
    BY <1>26, QuietInvolves DEF CreateOrder, rows
  <1>27. ASSUME NEW o \in Orders, CreateReplyLost(o) PROVE NoneJoins
    BY <1>27, QuietInvolves DEF CreateReplyLost, rows, Failed
  <1>28. CASE CreateRejected  BY <1>28, QuietInvolves DEF CreateRejected, rows, Failed
  <1>29. CASE CreateUnpaid  BY <1>29, QuietInvolves DEF CreateUnpaid, rows
  <1>30. CASE RecordNothing  BY <1>30, QuietInvolves DEF RecordNothing, rows, Failed
  <1>31. CASE RecordEntry
    <2>1. cur \in Orders /\ todo \subseteq Orders
      BY <1>31 DEF RecordEntry, ReplyLags, InHand, TypeOK
    <2>2. \A t \in Trades : trd'[t] = "open" => trd[t] = "open" \/ t = plan.trade
      BY <1>31 DEF RecordEntry, TypeOK
    <2>3. \A t \in Trades, o \in Orders : owner'[o] = t => owner[o] = t \/ t = plan.trade
      BY <1>31 DEF RecordEntry, RecordRow, TypeOK
    <2>4. UNCHANGED <<phase, todo, cur, plan>>  BY <1>31 DEF RecordEntry
    <2>5. pc = "record"  BY <1>31 DEF RecordEntry
    <2>6. pc' = "cancel" => owner'[cur] = plan.trade
      BY <1>31, <2>1 DEF RecordEntry, RecordRow, TypeOK
    <2> QED  BY <2>1, <2>2, <2>3, <2>4, <2>5, <2>6 DEF NoneJoins, Involved
  <1>32. CASE RecordExit
    BY <1>32 DEF RecordExit, RecordRow, UpdateOrder, TypeOK, NoneJoins, Involved
  <1>33. CASE ExitTrade
    BY <1>33 DEF ExitTrade, Exiting, rows, Coming, NoPlan, OpenTrades, NoneJoins, Involved
  <1>34. ASSUME NEW o \in Orders, RecoverOrder(o) PROVE NoneJoins
    BY <1>34 DEF RecoverOrder, UpdateTradeState, UpdateOrder, TypeOK, NoneJoins, Involved
  <1>35. CASE RecoverDone
    BY <1>35 DEF RecoverDone, rows, DeleteTrade, TypeOK, NoneJoins, Involved
  <1>36. CASE ExitSignal  BY <1>36, QuietInvolves DEF ExitSignal, rows
  <1>37. CASE ExitsDone  BY <1>37, GoToInvolves DEF ExitsDone, rows
  <1>38. CASE AdjustPosition
    BY <1>38 DEF AdjustPosition, rows, OpenTrades, NoneJoins, Involved
  <1>39. CASE NoAdjustment  BY <1>39, GoToInvolves DEF NoAdjustment, rows
  <1>40. CASE EnterPosition
    BY <1>40 DEF EnterPosition, rows, OpenTrades, OnlyOne, Involved
  <1>41. CASE NoEntry  BY <1>41, GoToInvolves DEF NoEntry, rows
  <1>42. CASE Crash
    BY <1>42 DEF Crash, rows, NoPlan, NoneJoins, Involved
  <1>43. CASE UNCHANGED vars
    BY <1>43, QuietInvolves DEF vars, rows, control
  <1> QED
    BY <1>1, <1>2, <1>3, <1>4, <1>5, <1>6, <1>7, <1>8, <1>9, <1>10, <1>11, <1>12,
       <1>13, <1>14, <1>15, <1>16, <1>17, <1>18, <1>19, <1>20, <1>21, <1>22, <1>23, <1>24,
       <1>25, <1>26, <1>27, <1>28, <1>29, <1>30, <1>31, <1>32, <1>33, <1>34, <1>35, <1>36,
       <1>37, <1>38, <1>39, <1>40, <1>41, <1>42, <1>43
    DEF Next, Bot, Exchange, Startup, Manage, Place, Loops, Handlers

\* At most one trade is in play.
THEOREM OneTradeInPlay == Spec => []OneInvolved
  <1>1. Init => OneInvolved
    BY ConstantFacts DEF Init, OneInvolved, Involved, NoPlan
  <1>2. IInv /\ OneInvolved /\ [Next]_vars => OneInvolved'
    BY StepInvolves DEF NoneJoins, OnlyOne, OneInvolved
  <1> QED  BY Invariant, <1>1, <1>2, PTL DEF Spec

\* enter_positions drops the pairs of open trades from its whitelist, and no
\* handler opens a second trade for the pair, not even a replacement that
\* reopens its trade.
THEOREM OneTradePerPair == Spec => []OnePerPair
  <1>1. OneInvolved => OnePerPair
    <2> SUFFICES ASSUME OneInvolved PROVE Cardinality(OpenTrades) <= 1
      BY DEF OnePerPair
    <2>1. \A t, u \in OpenTrades : t = u  BY DEF OneInvolved, Involved, OpenTrades
    <2>2. CASE OpenTrades = {}  BY <2>2, FS_EmptySet
    <2>3. CASE OpenTrades # {}
      <3>1. PICK t \in OpenTrades : TRUE  BY <2>3
      <3>2. OpenTrades = {t}  BY <2>1, <3>1
      <3> QED  BY <3>2, FS_Singleton
    <2> QED  BY <2>2, <2>3
  <1> QED  BY OneTradeInPlay, <1>1, PTL

-----------------------------------------------------------------------------
(* The sums of the model are sums of functions.                            *)

BuysOf(t) == {o \in OrdersOf(t) : exSide[o] = "buy"}
DoneOf(t) == {o \in OrdersOf(t) : dStat[o] \in NonOpen}
SignedFill == [o \in Orders |-> Signed(o)]
Bought(t) == SumOver(exFill, BuysOf(t))
Net(t) == SumOver(SignedFill, DoneOf(t))

LEMMA OrdersFinite ==
  ASSUME NEW S \in SUBSET Orders
  PROVE  IsFiniteSet(S)
  <1>1. IsFiniteSet(Orders)  BY BoundsAssumption, FS_Interval DEF Orders
  <1> QED  BY <1>1, FS_Subset

LEMMA OrderSums ==
  ASSUME TypeOK, NEW S \in SUBSET Orders
  PROVE  Summable(exFill, S) /\ Summable(SignedFill, S)
  BY OrdersFinite DEF Summable, SignedFill, Signed, TypeOK

\* The amount bought, as NeverOverstated writes it.
LEMMA BoughtIsSum ==
  ASSUME TypeOK, NEW t
  PROVE  MapThenSumSet(LAMBDA o : exFill[o], BuysOf(t)) = Bought(t)
  <1> DEFINE S == BuysOf(t)
  <1> DEFINE Eq(g) == g = [T \in SUBSET S |->
               IF T = {} THEN 0
               ELSE LET x == CHOOSE x \in T : TRUE IN exFill[x] + g[T \ {x}]]
  <1>1. \A g : Eq(g) <=> Adds(g, exFill, S)  BY DEF Adds, Pick
  <1>2. Summable(exFill, S)  BY OrderSums DEF BuysOf, OrdersOf
  <1>3. \E g : Eq(g)
    <2> HIDE DEF Eq
    <2> QED  BY <1>1, <1>2, SumExists
  <1>4. Adds(CHOOSE g : Eq(g), exFill, S)  BY <1>1, <1>3
  <1>5. MapThenSumSet(LAMBDA o : exFill[o], S) = (CHOOSE g : Eq(g))[S]
    BY DEF MapThenSumSet, MapThenFoldSet
  <1> HIDE DEF Eq
  <1> QED  BY <1>2, <1>4, <1>5, SumIs DEF Bought

\* The net amount that recalc_trade_from_orders computes.
LEMMA NetIsSum ==
  ASSUME TypeOK, NEW t
  PROVE  NetFilled(t) = Net(t)
  <1> DEFINE S == DoneOf(t)
  <1> DEFINE Eq(g) == g = [T \in SUBSET S |->
               IF T = {} THEN 0
               ELSE LET x == CHOOSE x \in T : TRUE IN Signed(x) + g[T \ {x}]]
  <1>1. \A g : Eq(g) <=> Adds(g, SignedFill, S)
    <2>1. \A T \in SUBSET S : T # {} => Pick(T) \in Orders
      BY DEF Pick, DoneOf, OrdersOf
    <2>2. \A T \in SUBSET S : T # {} => SignedFill[Pick(T)] = Signed(CHOOSE x \in T : TRUE)
      BY <2>1 DEF Pick, SignedFill
    <2> QED  BY <2>2 DEF Adds, Pick
  <1>2. Summable(SignedFill, S)  BY OrderSums DEF DoneOf, OrdersOf
  <1>3. \E g : Eq(g)
    <2> HIDE DEF Eq
    <2> QED  BY <1>1, <1>2, SumExists
  <1>4. Adds(CHOOSE g : Eq(g), SignedFill, S)  BY <1>1, <1>3
  <1>5. NetFilled(t) = (CHOOSE g : Eq(g))[S]
    BY DEF NetFilled, MapThenSumSet, MapThenFoldSet, DoneOf
  <1> HIDE DEF Eq
  <1> QED  BY <1>2, <1>4, <1>5, SumIs DEF Net

-----------------------------------------------------------------------------
(* No trade claims coins that nobody bought.                               *)

\* handle_onexchange_order takes over orders of its own trade and orphans.
Recovering == pc = "recover" \/ (pc = "book" /\ ret = "recover")
RecoversOwn ==
    Recovering => /\ plan.trade \in Trades
                  /\ \A o \in todo : owner[o] \in {plan.trade, NoTrade}
SideAsPlanned == pc = "record" => exSide[cur] = plan.side
Orderly == RecoversOwn /\ SideAsPlanned
NotOverstated == \A t \in Trades : amount[t] <= Bought(t)

\* What is bought for a trade does not shrink while its orders stay its own.
KeepsOrders(t) ==
    \A o \in Orders : owner[o] = t =>
        /\ owner'[o] = t /\ exSide'[o] = exSide[o] /\ exFill[o] <= exFill'[o]

LEMMA BoughtGrows ==
  ASSUME TypeOK, TypeOK', NEW t, KeepsOrders(t)
  PROVE  Bought(t) <= Bought(t)'
  <1>1. BuysOf(t) \in SUBSET Orders /\ BuysOf(t)' \in SUBSET Orders
    BY DEF BuysOf, OrdersOf
  <1>2. Summable(exFill, BuysOf(t)) /\ Summable(exFill', BuysOf(t)')
    BY <1>1, OrdersFinite DEF Summable, TypeOK
  <1>3. BuysOf(t) \subseteq BuysOf(t)'  BY DEF KeepsOrders, BuysOf, OrdersOf
  <1>4. \A o \in BuysOf(t) : exFill[o] <= exFill'[o]  BY DEF KeepsOrders, BuysOf, OrdersOf
  <1>5. \A o \in BuysOf(t)' : exFill'[o] >= 0  BY <1>1 DEF TypeOK
  <1> QED  BY <1>2, <1>3, <1>4, <1>5, SumBelow DEF Bought

LEMMA BoughtType ==
  ASSUME TypeOK, NEW t
  PROVE  /\ Bought(t) \in Nat
         /\ \A o \in BuysOf(t) : exFill[o] <= Bought(t)
  <1>1. BuysOf(t) \in SUBSET Orders  BY DEF BuysOf, OrdersOf
  <1> QED  BY <1>1, OrdersFinite, SumNat DEF Bought, TypeOK

\* What the rows of finished orders net is no more than was bought.
LEMMA NetBelowBought ==
  ASSUME IInv, NEW t
  PROVE  Net(t) \in Int /\ Net(t) <= Bought(t)
  <1> USE DEF IInv
  <1>1. BuysOf(t) \in SUBSET Orders /\ DoneOf(t) \in SUBSET Orders
    BY DEF BuysOf, DoneOf, OrdersOf
  <1>2. Summable(exFill, BuysOf(t)) /\ Summable(SignedFill, DoneOf(t))
    BY <1>1, OrderSums
  <1>3. \A o \in DoneOf(t) \intersect BuysOf(t) : SignedFill[o] <= exFill[o]
    BY <1>1 DEF SignedFill, Signed, BuysOf, RowsLag
  <1>4. \A o \in DoneOf(t) \ BuysOf(t) : SignedFill[o] <= 0
    BY <1>1 DEF SignedFill, Signed, BuysOf, DoneOf, TypeOK
  <1>5. \A o \in BuysOf(t) : exFill[o] >= 0  BY <1>1 DEF TypeOK
  <1> QED  BY <1>2, <1>3, <1>4, <1>5, SumBelow, SumType DEF Net, Bought

\* A step after which a trade claims no more than before, of the same orders.
Steady == \A t \in Trades :
    amount'[t] = 0 \/ (amount'[t] <= amount[t] /\ KeepsOrders(t))

LEMMA SteadyKeeps ==
  ASSUME TypeOK, TypeOK', NotOverstated, Steady
  PROVE  NotOverstated'
  <1> SUFFICES ASSUME NEW t \in Trades PROVE amount'[t] <= Bought(t)'
    BY DEF NotOverstated
  <1>1. Bought(t) \in Nat /\ Bought(t)' \in Nat
    <2>1. TypeOK => Bought(t) \in Nat  BY BoughtType
    <2>2. (TypeOK => Bought(t) \in Nat)'
      <3>1. TypeOK' => BuysOf(t)' \in SUBSET Orders  BY DEF BuysOf, OrdersOf
      <3> QED  BY <3>1, OrdersFinite, SumNat DEF Bought, TypeOK
    <2> QED  BY <2>1, <2>2
  <1>2. amount[t] \in Nat /\ amount'[t] \in Nat  BY DEF TypeOK
  <1>3. CASE amount'[t] = 0  BY <1>1, <1>3
  <1>4. CASE amount'[t] <= amount[t] /\ KeepsOrders(t)
    <2>1. Bought(t) <= Bought(t)'  BY <1>4, BoughtGrows
    <2>2. amount[t] <= Bought(t)  BY DEF NotOverstated
    <2> QED  BY <1>1, <1>2, <1>4, <2>1, <2>2
  <1> QED  BY <1>3, <1>4 DEF Steady

\* A step that leaves what is bought and claimed alone.
LEMMA QuietSteady ==
  ASSUME TypeOK, UNCHANGED <<owner, exSide, exFill, amount>>
  PROVE  Steady
  BY DEF Steady, KeepsOrders, TypeOK

\* A deleted trade claims nothing, the others what they did.
LEMMA DeleteSteady ==
  ASSUME TypeOK, NEW d, DeleteTrade(d), UNCHANGED <<exSide, exFill>>
  PROVE  Steady
  <1> SUFFICES ASSUME NEW t \in Trades
               PROVE  amount'[t] = 0 \/ (amount'[t] <= amount[t] /\ KeepsOrders(t))
    BY DEF Steady
  <1>1. CASE t = d  BY <1>1 DEF DeleteTrade, TypeOK
  <1>2. CASE t # d
    <2>1. amount'[t] <= amount[t]  BY <1>2 DEF DeleteTrade, TypeOK
    <2>2. KeepsOrders(t)  BY <1>2 DEF DeleteTrade, TypeOK, KeepsOrders
    <2> QED  BY <2>1, <2>2
  <1> QED  BY <1>1, <1>2

LEMMA CancellingSteady ==
  ASSUME TypeOK, NEW c, NEW acted, Cancelling(c, acted)
  PROVE  Steady
  <1>1. UNCHANGED <<exSide, exFill>>  BY DEF Cancelling
  <1>2. DeleteTrade(owner[cur]) \/ UNCHANGED <<owner, amount>>
    BY DEF Cancelling, EntryCancelled, ExitCancelled
  <1> QED  BY <1>1, <1>2, DeleteSteady, QuietSteady

\* The claim that a booking writes is at most what was bought.
LEMMA BookOrderCovered ==
  ASSUME IInv, NotOverstated, BookOrder
  PROVE  NotOverstated'
  <1> USE ConstantFacts DEF IInv
  <1> SUFFICES ASSUME NEW t \in Trades PROVE amount'[t] <= Bought(t)'
    BY DEF NotOverstated
  <1>1. cur \in Orders /\ owner[cur] \in Trades
    BY DEF BookOrder, ReplyLags, InHand, TypeOK
  <1>2. Bought(t)' = Bought(t) /\ Bought(t) \in Nat /\ amount[t] <= Bought(t)
    BY BoughtType DEF BookOrder, exch, Bought, BuysOf, OrdersOf, NotOverstated
  <1>3. CASE t # owner[cur]
    BY <1>2, <1>3 DEF BookOrder, TypeOK
  <1>4. CASE t = owner[cur]
    <2>1. amount'[t] = NewAmount(cur, NetFilled(t))
      BY <1>1, <1>4 DEF BookOrder, TypeOK
    <2>2. NetFilled(t) <= Bought(t)  BY NetIsSum, NetBelowBought
    <2>3. exSide[cur] = "buy" => dFill[cur] <= Bought(t)
      <3>1. exSide[cur] = "buy" => cur \in BuysOf(t)  BY <1>1, <1>4 DEF BuysOf, OrdersOf
      <3>2. dFill[cur] <= exFill[cur] /\ dFill[cur] \in Nat /\ exFill[cur] \in Nat
        BY <1>1 DEF RowsLag, TypeOK
      <3> QED  BY <1>2, <3>1, <3>2, BoughtType
    <2> QED  BY <1>2, <1>4, <2>1, <2>2, <2>3 DEF NewAmount
  <1> QED  BY <1>3, <1>4

\* So is the amount an entry begins with: the new order counts as bought.
LEMMA RecordEntryCovered ==
  ASSUME IInv, IInv', NotOverstated, SideAsPlanned, RecordEntry
  PROVE  NotOverstated'
  <1> USE ConstantFacts DEF IInv
  <1> SUFFICES ASSUME NEW t \in Trades PROVE amount'[t] <= Bought(t)'
    BY DEF NotOverstated
  <1>1. /\ cur \in Orders /\ owner[cur] = NoTrade /\ exSide[cur] = "buy"
        /\ resp.fill <= exFill[cur] /\ resp.fill \in Nat /\ exFill[cur] \in Nat
    BY DEF RecordEntry, ReplyLags, InHand, RowsExist, SideAsPlanned, TypeOK, Reply
  <1>2. KeepsOrders(t)
    BY <1>1 DEF RecordEntry, RecordRow, exch, KeepsOrders, TypeOK
  <1>3. Bought(t) <= Bought(t)' /\ Bought(t) \in Nat /\ amount[t] <= Bought(t)
    BY <1>2, BoughtGrows, BoughtType DEF NotOverstated
  <1>4. Bought(t)' \in Int
    <2>1. BuysOf(t)' \in SUBSET Orders  BY DEF BuysOf, OrdersOf
    <2>2. \A o \in BuysOf(t)' : exFill'[o] \in Nat  BY <2>1 DEF TypeOK
    <2> QED  BY <2>1, <2>2, OrdersFinite, SumNat DEF Bought
  <1>5. CASE t # plan.trade
    BY <1>3, <1>4, <1>5 DEF RecordEntry, TypeOK
  <1>6. CASE t = plan.trade
    <2> DEFINE done == IF resp.stat \in NonOpen THEN resp.fill ELSE 0
    <2>1. NetFilled(t) \in Int /\ NetFilled(t) <= Bought(t)
      BY NetIsSum, NetBelowBought
    <2>2. amount'[t] \in {amount[t], NetFilled(t) + done}
      BY <1>6 DEF RecordEntry, TypeOK
    <2>3. Bought(t)' = exFill[cur] + Bought(t)
      <3>1. cur \notin BuysOf(t) /\ BuysOf(t) \in SUBSET Orders
        BY <1>1 DEF BuysOf, OrdersOf
      <3>2. BuysOf(t)' = BuysOf(t) \union {cur}
        BY <1>1, <1>6 DEF RecordEntry, RecordRow, exch, BuysOf, OrdersOf, TypeOK
      <3>3. exFill' = exFill  BY DEF RecordEntry, exch
      <3> QED  BY <1>1, <3>1, <3>2, <3>3, OrderSums, SumAdd DEF Bought
    <2>4. done \in Nat /\ done <= resp.fill  BY <1>1
    <2>5. amount[t] \in Nat  BY DEF TypeOK
    <2> HIDE DEF done
    <2> QED  BY <1>1, <1>3, <2>1, <2>2, <2>3, <2>4, <2>5
  <1> QED  BY <1>5, <1>6

\* No other step makes a claim, and none takes an order away from its trade.
LEMMA StepSteady ==
  ASSUME IInv, RecoversOwn, [Next]_vars, ~BookOrder, ~RecordEntry
  PROVE  Steady
  <1> USE ConstantFacts DEF IInv
  <1>1. ASSUME NEW o \in Orders, ExchangeFill(o) PROVE Steady
    BY <1>1 DEF ExchangeFill, rows, Steady, KeepsOrders, TypeOK
  <1>2. ASSUME NEW o \in Orders, ExchangeCancel(o) PROVE Steady
    BY <1>2, QuietSteady DEF ExchangeCancel, exch, rows
  <1>3. CASE Start  BY <1>3, QuietSteady DEF Start, exch, rows
  <1>4. ASSUME NEW o \in Orders, SyncOrder(o) PROVE Steady
    BY <1>4, QuietSteady DEF SyncOrder, exch
  <1>5. ASSUME NEW o \in Orders, SyncForgotten(o) PROVE Steady
    BY <1>5, QuietSteady DEF SyncForgotten, exch, rows
  <1>6. ASSUME NEW o \in Orders, SyncUnreachable(o) PROVE Steady
    BY <1>6, QuietSteady DEF SyncUnreachable, exch, rows
  <1>7. CASE SyncDone  BY <1>7, QuietSteady DEF SyncDone, exch, rows
  <1>8. CASE AssignFees  BY <1>8, QuietSteady DEF AssignFees, exch, rows
  <1>9. CASE NoFeesAssigned  BY <1>9, QuietSteady DEF NoFeesAssigned, exch, rows
  <1>10. CASE BookOrder  BY <1>10
  <1>11. ASSUME NEW o \in Orders, ManageOrder(o) PROVE Steady
    BY <1>11, QuietSteady DEF ManageOrder, exch, rows
  <1>12. ASSUME NEW o \in Orders, ManageUnreachable(o) PROVE Steady
    BY <1>12, QuietSteady DEF ManageUnreachable, exch, rows
  <1>13. CASE ManageDone  BY <1>13, QuietSteady DEF ManageDone, exch, rows
  <1>14. CASE Resume  BY <1>14, QuietSteady DEF Resume, exch, rows
  <1>15. CASE CancelKept  BY <1>15, QuietSteady DEF CancelKept, exch, rows
  <1>16. CASE CancelKnown  BY <1>16, CancelKnownCase, CancellingSteady
  <1>17. CASE CancelAcked  BY <1>17, CancelAckedCase, CancellingSteady
  <1>18. CASE CancelPending
    <2>1. CASE exSide[cur] = "buy"  BY <1>18, <2>1, QuietSteady DEF CancelPending, exch, rows
    <2>2. CASE exSide[cur] # "buy"  BY <1>18, <2>2, CancelPendingCase, CancellingSteady
    <2> QED  BY <2>1, <2>2
  <1>19. CASE CancelForgotten  BY <1>19, CancelForgottenCase, CancellingSteady
  <1>20. CASE CancelRaised  BY <1>20, QuietSteady DEF CancelRaised, exch, rows
  <1>21. CASE ReplaceOrderFailed
    BY <1>21, QuietSteady, DeleteSteady DEF ReplaceOrderFailed, exch, rows
  <1>22. CASE SafeExit  BY <1>22, QuietSteady DEF SafeExit, exch, rows
  <1>23. CASE HandleSimilarOpenOrder
    BY <1>23, QuietSteady DEF HandleSimilarOpenOrder, exch, rows
  <1>24. ASSUME NEW o \in Orders, ClearOrder(o) PROVE Steady
    BY <1>24, QuietSteady DEF ClearOrder, exch, rows
  <1>25. ASSUME NEW o \in Orders, ClearUnreachable(o) PROVE Steady
    BY <1>25, QuietSteady DEF ClearUnreachable, exch, rows
  <1>26. ASSUME NEW o \in Orders, CreateOrder(o) PROVE Steady
    BY <1>26 DEF CreateOrder, rows, PlaceOnExchange, First, Created, RowsExist, Steady,
       KeepsOrders, TypeOK
  <1>27. ASSUME NEW o \in Orders, CreateReplyLost(o) PROVE Steady
    BY <1>27 DEF CreateReplyLost, rows, PlaceOnExchange, First, Created, RowsExist, Steady,
       KeepsOrders, TypeOK
  <1>28. CASE CreateRejected  BY <1>28, QuietSteady DEF CreateRejected, exch, rows
  <1>29. CASE CreateUnpaid  BY <1>29, QuietSteady DEF CreateUnpaid, exch, rows
  <1>30. CASE RecordNothing  BY <1>30, QuietSteady DEF RecordNothing, exch, rows
  <1>31. CASE RecordEntry  BY <1>31
  <1>32. CASE RecordExit
    BY <1>32 DEF RecordExit, RecordRow, exch, Steady, KeepsOrders, TypeOK, RowsExist
  <1>33. CASE ExitTrade  BY <1>33, QuietSteady DEF ExitTrade, exch, rows
  <1>34. ASSUME NEW o \in Orders, RecoverOrder(o) PROVE Steady
    BY <1>34 DEF RecoverOrder, exch, First, RecoversOwn, Recovering, Steady, KeepsOrders,
       TypeOK
  <1>35. CASE RecoverDone  BY <1>35, QuietSteady, DeleteSteady DEF RecoverDone, exch, rows
  <1>36. CASE ExitSignal  BY <1>36, QuietSteady DEF ExitSignal, exch, rows
  <1>37. CASE ExitsDone  BY <1>37, QuietSteady DEF ExitsDone, exch, rows
  <1>38. CASE AdjustPosition  BY <1>38, QuietSteady DEF AdjustPosition, exch, rows
  <1>39. CASE NoAdjustment  BY <1>39, QuietSteady DEF NoAdjustment, exch, rows
  <1>40. CASE EnterPosition  BY <1>40, QuietSteady DEF EnterPosition, exch, rows
  <1>41. CASE NoEntry  BY <1>41, QuietSteady DEF NoEntry, exch, rows
  <1>42. CASE Crash  BY <1>42, QuietSteady DEF Crash, exch, rows
  <1>43. CASE UNCHANGED vars  BY <1>43, QuietSteady DEF vars, exch, rows
  <1> QED
    BY <1>1, <1>2, <1>3, <1>4, <1>5, <1>6, <1>7, <1>8, <1>9, <1>10, <1>11, <1>12, <1>13,
       <1>14, <1>15, <1>16, <1>17, <1>18, <1>19, <1>20, <1>21, <1>22, <1>23, <1>24, <1>25,
       <1>26, <1>27, <1>28, <1>29, <1>30, <1>31, <1>32, <1>33, <1>34, <1>35, <1>36, <1>37,
       <1>38, <1>39, <1>40, <1>41, <1>42, <1>43
    DEF Next, Bot, Exchange, Startup, Manage, Place, Loops, Handlers

\* A cancel does not go back into handle_onexchange_order.
LEMMA CancellingOrderly ==
  ASSUME IInv, NEW c, NEW acted \in BOOLEAN, Cancelling(c, acted)
  PROVE  Orderly'
  <1> USE DEF IInv
  <1>1. pc' \in AfterCancels \union {"book"}  BY CancellingStep
  <1>2. pc' = "book" => ret' # "recover"
    <2>1. CASE pc' = AfterCancel(TRUE)
      BY <2>1, AfterCancelTyped DEF AfterCancels
    <2>2. CASE \E next \in AfterCancels : UpdateTradeState(cur, c, next)
      BY <2>2 DEF UpdateTradeState, AfterCancels
    <2>3. pc' = AfterCancel(TRUE) \/ \E next \in AfterCancels : UpdateTradeState(cur, c, next)
      <3>1. \A result \in BOOLEAN : AfterCancel(result) \in AfterCancels
        BY AfterCancelTyped
      <3>2. CASE EntryCancelled(c)  BY <3>1, <3>2 DEF EntryCancelled
      <3>3. CASE ExitCancelled(c, acted)  BY <3>1, <3>3 DEF ExitCancelled, AfterCancels
      <3> QED  BY <3>2, <3>3 DEF Cancelling
    <2> QED  BY <2>1, <2>2, <2>3
  <1> QED  BY <1>1, <1>2 DEF AfterCancels, Orderly, RecoversOwn, Recovering, SideAsPlanned

\* handle_onexchange_order keeps to the orders it was called with, and the order
\* that execute_entry or execute_trade_exit records is of the side it placed.
LEMMA StepOrderly ==
  ASSUME IInv, Orderly, [Next]_vars
  PROVE  Orderly'
  <1> USE ConstantFacts DEF IInv, TypeOK, Orderly, RecoversOwn, Recovering, SideAsPlanned
  <1>1. ASSUME NEW o \in Orders, ExchangeFill(o) PROVE Orderly'
    BY <1>1 DEF ExchangeFill, rows, control
  <1>2. ASSUME NEW o \in Orders, ExchangeCancel(o) PROVE Orderly'
    BY <1>2 DEF ExchangeCancel, rows, control
  <1>3. CASE Start  BY <1>3 DEF Start, exch, rows
  <1>4. ASSUME NEW o \in Orders, SyncOrder(o) PROVE Orderly'
    BY <1>4 DEF SyncOrder, SyncNext, UpdateTradeState
  <1>5. ASSUME NEW o \in Orders, SyncForgotten(o) PROVE Orderly'
    BY <1>5 DEF SyncForgotten, exch, rows
  <1>6. ASSUME NEW o \in Orders, SyncUnreachable(o) PROVE Orderly'
    BY <1>6 DEF SyncUnreachable, SyncNext
  <1>7. CASE SyncDone  BY <1>7 DEF SyncDone, GoTo, Failed, rows
  <1>8. CASE AssignFees  BY <1>8 DEF AssignFees, UpdateTradeState
  <1>9. CASE NoFeesAssigned  BY <1>9 DEF NoFeesAssigned, GoTo
  <1>10. CASE BookOrder  BY <1>10 DEF BookOrder
  <1>11. ASSUME NEW o \in Orders, ManageOrder(o) PROVE Orderly'
    BY <1>11 DEF ManageOrder, UpdateTradeState
  <1>12. ASSUME NEW o \in Orders, ManageUnreachable(o) PROVE Orderly'
    BY <1>12 DEF ManageUnreachable, Managing
  <1>13. CASE ManageDone  BY <1>13 DEF ManageDone, GoTo
  <1>14. CASE Resume  BY <1>14 DEF Resume, GoTo
  <1>15. CASE CancelKept
    <2>1. pc' \in AfterCancels  BY <1>15, AfterCancelTyped DEF CancelKept
    <2> QED  BY <2>1 DEF AfterCancels
  <1>16. CASE CancelKnown  BY <1>16, CancelKnownCase, CancellingOrderly
  <1>17. CASE CancelAcked  BY <1>17, CancelAckedCase, CancellingOrderly
  <1>18. CASE CancelPending
    <2>1. CASE exSide[cur] = "buy"
      <3>1. pc' \in AfterCancels  BY <1>18, <2>1, AfterCancelTyped DEF CancelPending
      <3> QED  BY <3>1 DEF AfterCancels
    <2>2. CASE exSide[cur] # "buy"  BY <1>18, <2>2, CancelPendingCase, CancellingOrderly
    <2> QED  BY <2>1, <2>2
  <1>19. CASE CancelForgotten  BY <1>19, CancelForgottenCase, CancellingOrderly
  <1>20. CASE CancelRaised  BY <1>20 DEF CancelRaised, Abandon, Failed
  <1>21. CASE ReplaceOrderFailed
    BY <1>21 DEF ReplaceOrderFailed, exch, rows
  <1>22. CASE SafeExit  BY <1>22 DEF SafeExit, Failed
  <1>23. CASE HandleSimilarOpenOrder
    BY <1>23 DEF HandleSimilarOpenOrder, Failed
  <1>24. ASSUME NEW o \in Orders, ClearOrder(o) PROVE Orderly'
    BY <1>24 DEF ClearOrder, exch, rows
  <1>25. ASSUME NEW o \in Orders, ClearUnreachable(o) PROVE Orderly'
    BY <1>25 DEF ClearUnreachable
  <1>26. ASSUME NEW o \in Orders, CreateOrder(o) PROVE Orderly'
    BY <1>26 DEF CreateOrder, PlaceOnExchange, exch, rows
  <1>27. ASSUME NEW o \in Orders, CreateReplyLost(o) PROVE Orderly'
    BY <1>27 DEF CreateReplyLost, Failed
  <1>28. CASE CreateRejected  BY <1>28 DEF CreateRejected, Failed
  <1>29. CASE CreateUnpaid  BY <1>29 DEF CreateUnpaid, exch, rows
  <1>30. CASE RecordNothing  BY <1>30 DEF RecordNothing, Failed
  <1>31. CASE RecordEntry  BY <1>31 DEF RecordEntry, exch, rows
  <1>32. CASE RecordExit  BY <1>32 DEF RecordExit, exch, rows
  <1>33. CASE ExitTrade
    BY <1>33 DEF ExitTrade, Exiting, Coming, NoPlan, OnExchange, OpenTrades, rows
  <1>34. ASSUME NEW o \in Orders, RecoverOrder(o) PROVE Orderly'
    BY <1>34 DEF RecoverOrder, UpdateTradeState, First
  <1>35. CASE RecoverDone  BY <1>35 DEF RecoverDone, exch, rows
  <1>36. CASE ExitSignal  BY <1>36 DEF ExitSignal, exch, rows
  <1>37. CASE ExitsDone  BY <1>37 DEF ExitsDone, GoTo
  <1>38. CASE AdjustPosition  BY <1>38 DEF AdjustPosition, exch, rows
  <1>39. CASE NoAdjustment  BY <1>39 DEF NoAdjustment, GoTo
  <1>40. CASE EnterPosition  BY <1>40 DEF EnterPosition, exch, rows
  <1>41. CASE NoEntry  BY <1>41 DEF NoEntry, GoTo
  <1>42. CASE Crash  BY <1>42 DEF Crash, exch, rows
  <1>43. CASE UNCHANGED vars  BY <1>43 DEF vars, exch, rows, control
  <1> QED
    BY <1>1, <1>2, <1>3, <1>4, <1>5, <1>6, <1>7, <1>8, <1>9, <1>10, <1>11, <1>12, <1>13,
       <1>14, <1>15, <1>16, <1>17, <1>18, <1>19, <1>20, <1>21, <1>22, <1>23, <1>24, <1>25,
       <1>26, <1>27, <1>28, <1>29, <1>30, <1>31, <1>32, <1>33, <1>34, <1>35, <1>36, <1>37,
       <1>38, <1>39, <1>40, <1>41, <1>42, <1>43
    DEF Next, Bot, Exchange, Startup, Manage, Place, Loops, Handlers

LEMMA InitBooks == Init => OneInvolved /\ Orderly /\ NotOverstated
  <1> SUFFICES ASSUME Init PROVE Orderly /\ NotOverstated /\ OneInvolved
    OBVIOUS
  <1>1. TypeOK  BY InitInv DEF IInv
  <1>2. NotOverstated
    <2> SUFFICES ASSUME NEW t \in Trades PROVE amount[t] <= Bought(t)
      BY DEF NotOverstated
    <2>1. Bought(t) \in Nat  BY <1>1, BoughtType
    <2>2. amount[t] = 0  BY DEF Init
    <2> QED  BY <2>1, <2>2
  <1>3. Orderly  BY DEF Init, Orderly, RecoversOwn, Recovering, SideAsPlanned
  <1>4. OneInvolved  BY ConstantFacts DEF Init, OneInvolved, Involved, NoPlan
  <1> QED  BY <1>2, <1>3, <1>4

LEMMA StepNotOverstated ==
  ASSUME IInv, IInv', Orderly, NotOverstated, [Next]_vars
  PROVE  NotOverstated'
  <1>1. CASE BookOrder  BY <1>1, BookOrderCovered
  <1>2. CASE RecordEntry  BY <1>2, RecordEntryCovered DEF Orderly
  <1>3. CASE ~BookOrder /\ ~RecordEntry
    <2>1. Steady  BY <1>3, StepSteady DEF Orderly
    <2> QED  BY <2>1, SteadyKeeps DEF IInv
  <1> QED  BY <1>1, <1>2, <1>3

\* No row and no trade claims more than the exchange filled, whatever the
\* configuration: neither a reply made up for a forgotten order nor one applied
\* late adds coins that nobody bought.
THEOREM ClaimsAreBought == Spec => []NeverOverstated
  <1>1. IInv /\ Orderly /\ NotOverstated /\ [Next]_vars
        => (IInv /\ Orderly /\ NotOverstated)'
    BY StepInv, StepOrderly, StepNotOverstated
  <1>2. Init => IInv /\ Orderly /\ NotOverstated  BY InitInv, InitBooks
  <1>3. IInv /\ NotOverstated => NeverOverstated
    <2> SUFFICES ASSUME IInv, NotOverstated, NEW t \in Trades
                 PROVE  amount[t] <= MapThenSumSet(LAMBDA o : exFill[o], BuysOf(t))
      BY DEF NeverOverstated, IInv, RowsLag, BuysOf
    <2> QED  BY BoughtIsSum DEF NotOverstated, IInv
  <1> QED  BY <1>1, <1>2, <1>3, PTL DEF Spec

-----------------------------------------------------------------------------
(* Only what bought nothing is deleted, with an exchange that knows its    *)
(* orders and a strategy that does not move prices.                        *)

\* Rows have a status, what is booked is done and filled, and the orders that
\* are managed or placed belong to a trade.
RowsComplete ==
    /\ \A o \in Orders : owner[o] \in Trades => dStat[o] # "none"
    /\ pc = "book" => dStat[cur] \in NonOpen /\ dFill[cur] > 0
    /\ pc = "cancel" /\ job \in {"timeout", "drop", "replace"} => owner[cur] \in Trades
    /\ plan.side = "buy" => plan.trade \in Trades

\* Without replacements no handler ends in replace_order_failed.
NeverReplaces ==
    /\ plan.mode # "replace" /\ job \notin {"replace", "drop"}
    /\ pc # "failed" /\ (pc = "book" => ret \notin {"failed", "similar"})

\* A row that a step takes from its trade: its order is done, and the trade has
\* no filled entry.
Gone(o) ==
    /\ owner'[o] = NoTrade /\ FilledEntries(owner[o]) = {}
    /\ exStat'[o] # "open" /\ (exFill[o] = 0 \/ dStat[o] \in NonOpen)
Leaves == \A o \in Orders : owner[o] \in Trades =>
    exSide'[o] = exSide[o] /\ (owner'[o] = owner[o] \/ Gone(o))

LEMMA QuietLeaves ==
  ASSUME UNCHANGED <<owner, exSide>>
  PROVE  Leaves
  BY DEF Leaves

\* handle_cancel_enter deletes a trade only when the order in hand turned out
\* empty and all the others are done.
LEMMA CancellingLeaves ==
  ASSUME KInv, RowsComplete, NEW c, NEW acted \in BOOLEAN, Cancelling(c, acted),
         c.stat = exStat'[cur], c.fill = exFill[cur], c.stat \in NonOpen
  PROVE  Leaves
  <1> USE ConstantFacts DEF KInv, IInv
  <1>1. CASE UNCHANGED owner  BY <1>1, QuietLeaves DEF Cancelling
  <1>2. CASE ~ UNCHANGED owner
    <2>1. /\ DeleteTrade(owner[cur]) /\ c.fill = 0
          /\ OpenOrders(owner[cur]) \ {cur} = {} /\ FilledEntries(owner[cur]) = {}
      BY <1>2 DEF Cancelling, EntryCancelled, ExitCancelled
    <2>2. cur \in Orders  BY CancellingStep
    <2>3. ASSUME NEW o \in Orders, owner[o] \in Trades, owner[o] = owner[cur]
          PROVE  Gone(o)
      <3>1. owner'[o] = NoTrade /\ FilledEntries(owner[o]) = {}
        BY <2>1, <2>3 DEF DeleteTrade
      <3>2. CASE o = cur  BY <2>1, <3>1, <3>2 DEF Gone
      <3>3. CASE o # cur
        <4>1. dStat[o] # "open" /\ dStat[o] # "none"
          BY <2>1, <2>3, <3>3 DEF OpenOrders, OrdersOf, RowsComplete
        <4>2. dStat[o] \in NonOpen  BY <4>1 DEF TypeOK, Statuses
        <4>3. exStat[o] \in NonOpen  BY <4>2 DEF RowsExact
        <4>4. exStat'[o] # "open"  BY <3>3, <4>3 DEF Cancelling, TypeOK
        <4> QED  BY <3>1, <4>2, <4>4 DEF Gone
      <3> QED  BY <3>2, <3>3
    <2>4. ASSUME NEW o \in Orders, owner[o] # owner[cur] PROVE owner'[o] = owner[o]
      BY <2>1, <2>4 DEF DeleteTrade
    <2> QED  BY <2>3, <2>4 DEF Leaves, Cancelling
  <1> QED  BY <1>1, <1>2

\* No order leaves its trade otherwise.
LEMMA StepLeaves ==
  ASSUME KInv, RowsComplete, RecoversOwn, NeverReplaces, ~Forgetful, [Next]_vars
  PROVE  Leaves
  <1> USE ConstantFacts DEF KInv, IInv, TypeOK, NeverReplaces
  <1>1. ASSUME NEW o \in Orders, ExchangeFill(o) PROVE Leaves
    BY <1>1, QuietLeaves DEF ExchangeFill, rows
  <1>2. ASSUME NEW o \in Orders, ExchangeCancel(o) PROVE Leaves
    BY <1>2, QuietLeaves DEF ExchangeCancel, rows
  <1>3. CASE Start  BY <1>3, QuietLeaves DEF Start, exch, rows
  <1>4. ASSUME NEW o \in Orders, SyncOrder(o) PROVE Leaves
    BY <1>4, QuietLeaves DEF SyncOrder, exch
  <1>5. ASSUME NEW o \in Orders, SyncForgotten(o) PROVE Leaves  BY <1>5 DEF SyncForgotten
  <1>6. ASSUME NEW o \in Orders, SyncUnreachable(o) PROVE Leaves
    BY <1>6, QuietLeaves DEF SyncUnreachable, exch, rows
  <1>7. CASE SyncDone  BY <1>7, QuietLeaves DEF SyncDone, exch, rows
  <1>8. CASE AssignFees  BY <1>8, QuietLeaves DEF AssignFees, exch
  <1>9. CASE NoFeesAssigned  BY <1>9, QuietLeaves DEF NoFeesAssigned, exch, rows
  <1>10. CASE BookOrder  BY <1>10, QuietLeaves DEF BookOrder, exch
  <1>11. ASSUME NEW o \in Orders, ManageOrder(o) PROVE Leaves
    BY <1>11, QuietLeaves DEF ManageOrder, exch
  <1>12. ASSUME NEW o \in Orders, ManageUnreachable(o) PROVE Leaves
    BY <1>12, QuietLeaves DEF ManageUnreachable, exch, rows
  <1>13. CASE ManageDone  BY <1>13, QuietLeaves DEF ManageDone, exch, rows
  <1>14. CASE Resume  BY <1>14, QuietLeaves DEF Resume, exch, rows
  <1>15. CASE CancelKept  BY <1>15, QuietLeaves DEF CancelKept, exch, rows
  <1>16. CASE CancelKnown
    <2>1. PICK acted \in BOOLEAN : Cancelling(resp, acted)  BY <1>16, CancelKnownCase
    <2>2. resp.stat = exStat'[cur] /\ resp.fill = exFill[cur] /\ resp.stat \in NonOpen
      BY <1>16 DEF CancelKnown, exch, ReplyExact
    <2> QED  BY <2>1, <2>2, CancellingLeaves
  <1>17. CASE CancelAcked
    <2>1. Cancelling(Answer, TRUE) /\ exStat' = [exStat EXCEPT ![cur] = Answer.stat]
      BY <1>17, CancelAckedCase
    <2>2. cur \in Orders /\ exStat[cur] # "none"
      BY <1>17 DEF CancelAcked, ReplyLags, RowsExist, InHand
    <2>3. /\ Answer.stat = exStat'[cur] /\ Answer.fill = exFill[cur]
          /\ Answer.stat \in NonOpen
      BY <2>1, <2>2 DEF Answer, Statuses
    <2> QED  BY <2>1, <2>3, CancellingLeaves
  <1>18. CASE CancelPending
    <2>1. UNCHANGED <<owner, exSide>>
      BY <1>18 DEF CancelPending, ExitCancelled, exch, rows
    <2> QED  BY <2>1, QuietLeaves
  <1>19. CASE CancelForgotten  BY <1>19 DEF CancelForgotten
  <1>20. CASE CancelRaised  BY <1>20, QuietLeaves DEF CancelRaised, rows
  <1>21. CASE ReplaceOrderFailed  BY <1>21 DEF ReplaceOrderFailed
  <1>22. CASE SafeExit  BY <1>22, QuietLeaves DEF SafeExit, exch, rows
  <1>23. CASE HandleSimilarOpenOrder
    BY <1>23, QuietLeaves DEF HandleSimilarOpenOrder, exch, rows
  <1>24. ASSUME NEW o \in Orders, ClearOrder(o) PROVE Leaves
    BY <1>24, QuietLeaves DEF ClearOrder, exch, rows
  <1>25. ASSUME NEW o \in Orders, ClearUnreachable(o) PROVE Leaves
    BY <1>25, QuietLeaves DEF ClearUnreachable, exch, rows
  <1>26. ASSUME NEW o \in Orders, CreateOrder(o) PROVE Leaves
    BY <1>26 DEF CreateOrder, rows, PlaceOnExchange, First, Created, RowsExist, Leaves
  <1>27. ASSUME NEW o \in Orders, CreateReplyLost(o) PROVE Leaves
    BY <1>27 DEF CreateReplyLost, rows, PlaceOnExchange, First, Created, RowsExist, Leaves
  <1>28. CASE CreateRejected  BY <1>28, QuietLeaves DEF CreateRejected, exch, rows
  <1>29. CASE CreateUnpaid  BY <1>29, QuietLeaves DEF CreateUnpaid, exch, rows
  <1>30. CASE RecordNothing  BY <1>30, QuietLeaves DEF RecordNothing, exch, rows
  <1>31. CASE RecordEntry  BY <1>31 DEF RecordEntry, RecordRow, exch, Leaves, RowsExist
  <1>32. CASE RecordExit  BY <1>32 DEF RecordExit, RecordRow, exch, Leaves, RowsExist
  <1>33. CASE ExitTrade  BY <1>33, QuietLeaves DEF ExitTrade, exch, rows
  <1>34. ASSUME NEW o \in Orders, RecoverOrder(o) PROVE Leaves
    BY <1>34 DEF RecoverOrder, exch, First, RecoversOwn, Recovering, Leaves
  <1>35. CASE RecoverDone
    <2>1. CASE UNCHANGED rows  BY <1>35, <2>1, QuietLeaves DEF RecoverDone, exch, rows
    <2>2. CASE ~ UNCHANGED rows
      <3>1. /\ DeleteTrade(plan.trade) /\ UNCHANGED exch
            /\ \A o \in OrdersOf(plan.trade) :
                  exSide[o] = "buy" /\ dStat[o] \in Canceled /\ dFill[o] = 0
        BY <1>35, <2>2 DEF RecoverDone
      <3>2. ASSUME NEW o \in Orders, owner[o] = plan.trade, owner[o] \in Trades
            PROVE  Gone(o)
        <4>1. owner'[o] = NoTrade  BY <3>1, <3>2 DEF DeleteTrade
        <4>2. FilledEntries(owner[o]) = {}
          <5> SUFFICES ASSUME NEW p \in FilledEntries(owner[o]) PROVE FALSE
            OBVIOUS
          <5>1. p \in OrdersOf(plan.trade) /\ dFill[p] > 0
            BY <3>2 DEF FilledEntries, OrdersOf
          <5> QED  BY <3>1, <5>1
        <4>3. dStat[o] \in NonOpen /\ exStat[o] = dStat[o]
          BY <3>1, <3>2 DEF OrdersOf, Canceled, NonOpen, RowsExact
        <4> QED  BY <3>1, <4>1, <4>2, <4>3 DEF Gone, exch
      <3>3. ASSUME NEW o \in Orders, owner[o] # plan.trade
            PROVE  owner'[o] = owner[o]
        BY <3>1, <3>3 DEF DeleteTrade
      <3> QED  BY <3>1, <3>2, <3>3 DEF Leaves, exch
    <2> QED  BY <2>1, <2>2
  <1>36. CASE ExitSignal  BY <1>36, QuietLeaves DEF ExitSignal, exch, rows
  <1>37. CASE ExitsDone  BY <1>37, QuietLeaves DEF ExitsDone, exch, rows
  <1>38. CASE AdjustPosition  BY <1>38, QuietLeaves DEF AdjustPosition, exch, rows
  <1>39. CASE NoAdjustment  BY <1>39, QuietLeaves DEF NoAdjustment, exch, rows
  <1>40. CASE EnterPosition  BY <1>40, QuietLeaves DEF EnterPosition, exch, rows
  <1>41. CASE NoEntry  BY <1>41, QuietLeaves DEF NoEntry, exch, rows
  <1>42. CASE Crash  BY <1>42, QuietLeaves DEF Crash, exch, rows
  <1>43. CASE UNCHANGED vars  BY <1>43, QuietLeaves DEF vars, exch, rows, control
  <1> QED
    BY <1>1, <1>2, <1>3, <1>4, <1>5, <1>6, <1>7, <1>8, <1>9, <1>10, <1>11, <1>12, <1>13,
       <1>14, <1>15, <1>16, <1>17, <1>18, <1>19, <1>20, <1>21, <1>22, <1>23, <1>24, <1>25,
       <1>26, <1>27, <1>28, <1>29, <1>30, <1>31, <1>32, <1>33, <1>34, <1>35, <1>36, <1>37,
       <1>38, <1>39, <1>40, <1>41, <1>42, <1>43
    DEF Next, Bot, Exchange, Startup, Manage, Place, Loops, Handlers

\* A step that writes no row, and books or cancels no other order.
LEMMA QuietComplete ==
  ASSUME RowsComplete, UNCHANGED <<owner, dStat, dFill>>,
         \/ pc' \notin {"book", "cancel"}
         \/ UNCHANGED <<pc, cur, job>>
         \/ pc' = "cancel" /\ job' \in {"startup", "clear"},
         plan' = plan \/ (plan'.side = "buy" => plan'.trade \in Trades)
  PROVE  RowsComplete'
  BY DEF RowsComplete

\* update_trade_state with an order as the exchange holds it.
LEMMA FetchedComplete ==
  ASSUME IInv, RowsComplete, UNCHANGED <<owner, plan>>, NEW o \in Orders, exStat[o] # "none",
         NEW next, next \notin {"book", "cancel"}, UpdateTradeState(o, Snapshot(o), next)
  PROVE  RowsComplete'
  <1>1. Snapshot(o) \in Reply  BY SnapshotTyped DEF IInv
  <1> QED
    BY <1>1, ConstantFacts DEF UpdateTradeState, UpdateOrder, IInv, TypeOK, Reply, RowsComplete

LEMMA CancellingComplete ==
  ASSUME IInv, RowsComplete, NEW c, NEW acted \in BOOLEAN, Cancelling(c, acted)
  PROVE  RowsComplete'
  <1> USE ConstantFacts DEF IInv
  <1>1. pc' # "cancel" /\ cur \in Orders  BY CancellingStep DEF AfterCancels
  <1>2. ASSUME NEW o \in Orders, owner'[o] \in Trades PROVE dStat'[o] # "none"
    <2>1. CancelledRow(o, c)
      BY EntryCancelledRows, ExitCancelledRows DEF Cancelling
    <2>2. c.stat # "none"  BY DEF Cancelling, Reply
    <2> QED  BY <1>2, <2>1, <2>2 DEF CancelledRow, RowsComplete
  <1>3. pc' = "book" => dStat'[cur'] \in NonOpen /\ dFill'[cur'] > 0
    <2>1. CASE pc' = AfterCancel(TRUE)
      BY <2>1, AfterCancelTyped DEF AfterCancels
    <2>2. CASE \E next \in AfterCancels : UpdateTradeState(cur, c, next)
      BY <1>1, <2>2 DEF UpdateTradeState, UpdateOrder, AfterCancels, TypeOK
    <2>3. pc' = AfterCancel(TRUE) \/ \E next \in AfterCancels : UpdateTradeState(cur, c, next)
      <3>1. \A result \in BOOLEAN : AfterCancel(result) \in AfterCancels
        BY AfterCancelTyped
      <3>2. CASE EntryCancelled(c)  BY <3>1, <3>2 DEF EntryCancelled
      <3>3. CASE ExitCancelled(c, acted)  BY <3>1, <3>3 DEF ExitCancelled, AfterCancels
      <3> QED  BY <3>2, <3>3 DEF Cancelling
    <2> QED  BY <2>1, <2>2, <2>3
  <1>4. plan' = plan \/ (plan'.side = "buy" => plan'.trade \in Trades)
    <2>1. job = "replace" => owner[cur] \in Trades  BY DEF Cancelling, RowsComplete
    <2>2. CASE EntryCancelled(c)  BY <2>1, <2>2 DEF EntryCancelled, NextPlan
    <2>3. CASE ExitCancelled(c, acted)  BY <2>1, <2>3 DEF ExitCancelled, NextPlan
    <2> QED  BY <2>2, <2>3 DEF Cancelling
  <1> QED  BY <1>1, <1>2, <1>3, <1>4 DEF RowsComplete

LEMMA StepRowsComplete ==
  ASSUME IInv, RowsComplete, [Next]_vars
  PROVE  RowsComplete'
  <1> USE ConstantFacts DEF IInv, TypeOK
  <1>1. ASSUME NEW o \in Orders, ExchangeFill(o) PROVE RowsComplete'
    BY <1>1, QuietComplete DEF ExchangeFill, rows, control
  <1>2. ASSUME NEW o \in Orders, ExchangeCancel(o) PROVE RowsComplete'
    BY <1>2, QuietComplete DEF ExchangeCancel, rows, control
  <1>3. CASE Start  BY <1>3, QuietComplete DEF Start, exch, rows
  <1>4. ASSUME NEW o \in Orders, SyncOrder(o) PROVE RowsComplete'
    BY <1>4, FetchedComplete DEF SyncOrder, SyncNext, First, RowsExist
  <1>5. ASSUME NEW o \in Orders, SyncForgotten(o) PROVE RowsComplete'
    BY <1>5, QuietComplete DEF SyncForgotten, exch, rows
  <1>6. ASSUME NEW o \in Orders, SyncUnreachable(o) PROVE RowsComplete'
    BY <1>6, QuietComplete DEF SyncUnreachable, SyncNext, rows
  <1>7. CASE SyncDone  BY <1>7, QuietComplete DEF SyncDone, GoTo, Failed, rows
  <1>8. CASE AssignFees
    <2>1. PICK o \in Orders : exStat[o] # "none" /\ UpdateTradeState(o, Snapshot(o), "done")
      BY <1>8 DEF AssignFees, FilledEntries, OrdersOf, RowsExist, OpenTrades
    <2> QED  BY <1>8, <2>1, FetchedComplete DEF AssignFees
  <1>9. CASE NoFeesAssigned  BY <1>9, QuietComplete DEF NoFeesAssigned, GoTo, rows
  <1>10. CASE BookOrder  BY <1>10 DEF BookOrder, RowsComplete
  <1>11. ASSUME NEW o \in Orders, ManageOrder(o) PROVE RowsComplete'
    <2>1. exStat[o] # "none" /\ owner[o] \in Trades
      BY <1>11 DEF ManageOrder, First, RowsExist
    <2>2. CASE UpdateTradeState(o, Snapshot(o), "done")
      BY <1>11, <2>1, <2>2, FetchedComplete DEF ManageOrder
    <2>3. CASE UpdateOrder(o, Snapshot(o)) /\ cur' = o /\ pc' # "book"
      BY <1>11, <2>1, <2>3 DEF ManageOrder, UpdateOrder, Snapshot, RowsComplete
    <2> QED  BY <1>11, <2>2, <2>3 DEF ManageOrder
  <1>12. ASSUME NEW o \in Orders, ManageUnreachable(o) PROVE RowsComplete'
    BY <1>12, QuietComplete DEF ManageUnreachable, Managing, rows
  <1>13. CASE ManageDone  BY <1>13, QuietComplete DEF ManageDone, GoTo, rows
  <1>14. CASE Resume  BY <1>14, QuietComplete DEF Resume, GoTo, rows, NoPlan
  <1>15. CASE CancelKept
    <2>1. pc' \in AfterCancels  BY <1>15, AfterCancelTyped DEF CancelKept
    <2> QED  BY <1>15, <2>1, QuietComplete DEF CancelKept, rows, AfterCancels
  <1>16. CASE CancelKnown  BY <1>16, CancelKnownCase, CancellingComplete
  <1>17. CASE CancelAcked  BY <1>17, CancelAckedCase, CancellingComplete
  <1>18. CASE CancelPending
    <2>1. CASE exSide[cur] = "buy"
      <3>1. pc' \in AfterCancels  BY <1>18, <2>1, AfterCancelTyped DEF CancelPending
      <3> QED  BY <1>18, <2>1, <3>1, QuietComplete DEF CancelPending, rows, AfterCancels
    <2>2. CASE exSide[cur] # "buy"  BY <1>18, <2>2, CancelPendingCase, CancellingComplete
    <2> QED  BY <2>1, <2>2
  <1>19. CASE CancelForgotten  BY <1>19, CancelForgottenCase, CancellingComplete
  <1>20. CASE CancelRaised
    BY <1>20, QuietComplete DEF CancelRaised, Abandon, Failed, rows, NoPlan
  <1>21. CASE ReplaceOrderFailed
    BY <1>21 DEF ReplaceOrderFailed, DeleteTrade, rows, RowsComplete
  <1>22. CASE SafeExit
    <2>1. plan'.trade = plan.trade /\ plan'.side = plan.side  BY <1>22 DEF SafeExit, Plan
    <2> QED  BY <1>22, <2>1, QuietComplete DEF SafeExit, Failed, rows, RowsComplete
  <1>23. CASE HandleSimilarOpenOrder
    BY <1>23, QuietComplete DEF HandleSimilarOpenOrder, Failed, rows
  <1>24. ASSUME NEW o \in Orders, ClearOrder(o) PROVE RowsComplete'
    BY <1>24, QuietComplete DEF ClearOrder, exch, rows
  <1>25. ASSUME NEW o \in Orders, ClearUnreachable(o) PROVE RowsComplete'
    BY <1>25, QuietComplete DEF ClearUnreachable, exch, rows
  <1>26. ASSUME NEW o \in Orders, CreateOrder(o) PROVE RowsComplete'
    BY <1>26, QuietComplete DEF CreateOrder, rows
  <1>27. ASSUME NEW o \in Orders, CreateReplyLost(o) PROVE RowsComplete'
    BY <1>27, QuietComplete DEF CreateReplyLost, Failed, rows
  <1>28. CASE CreateRejected  BY <1>28, QuietComplete DEF CreateRejected, Failed, rows
  <1>29. CASE CreateUnpaid  BY <1>29, QuietComplete DEF CreateUnpaid, exch, rows
  <1>30. CASE RecordNothing  BY <1>30, QuietComplete DEF RecordNothing, Failed, rows
  <1>31. CASE RecordEntry
    <2>1. cur \in Orders  BY <1>31 DEF RecordEntry, ReplyLags, InHand
    <2>2. plan.trade \in Trades \union {NoTrade}  BY DEF Plan
    <2>3. resp.stat \in Statuses  BY DEF Reply
    <2>4. dStat' = [dStat EXCEPT ![cur] = resp.stat] /\ dFill' = [dFill EXCEPT ![cur] = resp.fill]
          /\ owner' = [owner EXCEPT ![cur] = plan.trade] /\ cur' = cur
      BY <1>31 DEF RecordEntry, RecordRow, UpdateOrder
    <2>5. pc' = "book" => resp.stat \in NonOpen /\ resp.fill > 0
      BY <1>31 DEF RecordEntry
    <2>6. pc' = "cancel" => plan.trade \in Trades
      BY <1>31 DEF RecordEntry, RowsComplete
    <2>7. ASSUME NEW o \in Orders, owner'[o] \in Trades PROVE dStat'[o] # "none"
      BY <2>1, <2>3, <2>4, <2>7 DEF RowsComplete
    <2>8. pc' = "book" => dStat'[cur'] \in NonOpen /\ dFill'[cur'] > 0
      BY <2>1, <2>4, <2>5
    <2>9. pc' = "cancel" => owner'[cur'] \in Trades  BY <2>1, <2>4, <2>6
    <2> HIDE DEF TypeOK, IInv
    <2> QED  BY <1>31, <2>7, <2>8, <2>9 DEF RowsComplete, RecordEntry
  <1>32. CASE RecordExit
    <2>1. cur \in Orders /\ resp.stat \in Statuses
      BY <1>32 DEF RecordExit, ReplyLags, InHand, Reply
    <2>2. dStat' = [dStat EXCEPT ![cur] = resp.stat] /\ dFill' = [dFill EXCEPT ![cur] = resp.fill]
          /\ owner' = [owner EXCEPT ![cur] = plan.trade] /\ cur' = cur /\ pc' # "cancel"
      BY <1>32 DEF RecordExit, RecordRow, UpdateOrder
    <2>3. pc' = "book" => resp.stat \in NonOpen /\ resp.fill > 0
      BY <1>32 DEF RecordExit, NonOpen
    <2>4. ASSUME NEW o \in Orders, owner'[o] \in Trades PROVE dStat'[o] # "none"
      BY <2>1, <2>2, <2>4 DEF RowsComplete
    <2>5. pc' = "book" => dStat'[cur'] \in NonOpen /\ dFill'[cur'] > 0
      BY <2>1, <2>2, <2>3
    <2> HIDE DEF TypeOK, IInv
    <2> QED  BY <1>32, <2>2, <2>4, <2>5 DEF RowsComplete, RecordExit
  <1>33. CASE ExitTrade
    <2>1. \A t : Coming(t).side = "sell"  BY DEF Coming, NoPlan
    <2>2. plan'.side = "sell"  BY <1>33, <2>1 DEF ExitTrade
    <2> QED  BY <1>33, <2>2, QuietComplete DEF ExitTrade, rows
  <1>34. ASSUME NEW o \in Orders, RecoverOrder(o) PROVE RowsComplete'
    <2>1. exStat[o] # "none"  BY <1>34 DEF RecoverOrder, First, RowsExist
    <2>2. Snapshot(o) \in Reply  BY <2>1, SnapshotTyped
    <2> QED  BY <1>34, <2>2 DEF RecoverOrder, UpdateTradeState, UpdateOrder, Reply, RowsComplete
  <1>35. CASE RecoverDone  BY <1>35 DEF RecoverDone, DeleteTrade, rows, RowsComplete
  <1>36. CASE ExitSignal  BY <1>36, QuietComplete DEF ExitSignal, exch, rows
  <1>37. CASE ExitsDone  BY <1>37, QuietComplete DEF ExitsDone, GoTo, rows
  <1>38. CASE AdjustPosition
    <2>1. plan'.trade \in Trades  BY <1>38 DEF AdjustPosition, OpenTrades
    <2> QED  BY <1>38, <2>1, QuietComplete DEF AdjustPosition, rows
  <1>39. CASE NoAdjustment  BY <1>39, QuietComplete DEF NoAdjustment, GoTo, rows
  <1>40. CASE EnterPosition
    <2>1. plan'.trade \in Trades  BY <1>40 DEF EnterPosition
    <2> QED  BY <1>40, <2>1, QuietComplete DEF EnterPosition, rows
  <1>41. CASE NoEntry  BY <1>41, QuietComplete DEF NoEntry, GoTo, rows
  <1>42. CASE Crash  BY <1>42, QuietComplete DEF Crash, NoPlan, rows
  <1>43. CASE UNCHANGED vars  BY <1>43, QuietComplete DEF vars, exch, rows, control
  <1> QED
    BY <1>1, <1>2, <1>3, <1>4, <1>5, <1>6, <1>7, <1>8, <1>9, <1>10, <1>11, <1>12, <1>13,
       <1>14, <1>15, <1>16, <1>17, <1>18, <1>19, <1>20, <1>21, <1>22, <1>23, <1>24, <1>25,
       <1>26, <1>27, <1>28, <1>29, <1>30, <1>31, <1>32, <1>33, <1>34, <1>35, <1>36, <1>37,
       <1>38, <1>39, <1>40, <1>41, <1>42, <1>43
    DEF Next, Bot, Exchange, Startup, Manage, Place, Loops, Handlers

LEMMA StepNeverReplaces ==
  ASSUME TypeOK, ~Replacing, NeverReplaces, [Next]_vars
  PROVE  NeverReplaces'
  <1> USE DEF TypeOK, NeverReplaces
  <1>1. ASSUME NEW o \in Orders, ExchangeFill(o) PROVE NeverReplaces'
    BY <1>1 DEF ExchangeFill, control
  <1>2. ASSUME NEW o \in Orders, ExchangeCancel(o) PROVE NeverReplaces'
    BY <1>2 DEF ExchangeCancel, control
  <1>3. CASE Start  BY <1>3 DEF Start
  <1>4. ASSUME NEW o \in Orders, SyncOrder(o) PROVE NeverReplaces'
    BY <1>4 DEF SyncOrder, UpdateTradeState
  <1>5. ASSUME NEW o \in Orders, SyncForgotten(o) PROVE NeverReplaces'
    BY <1>5 DEF SyncForgotten
  <1>6. ASSUME NEW o \in Orders, SyncUnreachable(o) PROVE NeverReplaces'
    BY <1>6 DEF SyncUnreachable, SyncNext
  <1>7. CASE SyncDone  BY <1>7 DEF SyncDone, GoTo, Failed
  <1>8. CASE AssignFees  BY <1>8 DEF AssignFees, UpdateTradeState
  <1>9. CASE NoFeesAssigned  BY <1>9 DEF NoFeesAssigned, GoTo
  <1>10. CASE BookOrder  BY <1>10 DEF BookOrder
  <1>11. ASSUME NEW o \in Orders, ManageOrder(o) PROVE NeverReplaces'
    BY <1>11 DEF ManageOrder, UpdateTradeState
  <1>12. ASSUME NEW o \in Orders, ManageUnreachable(o) PROVE NeverReplaces'
    BY <1>12 DEF ManageUnreachable, Managing
  <1>13. CASE ManageDone  BY <1>13 DEF ManageDone, GoTo
  <1>14. CASE Resume  BY <1>14 DEF Resume, GoTo, NoPlan
  <1>15. CASE CancelKept  BY <1>15 DEF CancelKept, AfterCancel
  <1>16. CASE CancelKnown
    BY <1>16 DEF CancelKnown, AfterCancel, EntryCancelled, ExitCancelled, UpdateTradeState,
       NextPlan
  <1>17. CASE CancelAcked
    BY <1>17 DEF CancelAcked, AfterCancel, EntryCancelled, ExitCancelled, UpdateTradeState,
       NextPlan
  <1>18. CASE CancelPending
    BY <1>18 DEF CancelPending, AfterCancel, ExitCancelled, UpdateTradeState, NextPlan
  <1>19. CASE CancelForgotten
    BY <1>19 DEF CancelForgotten, AfterCancel, EntryCancelled, ExitCancelled,
       UpdateTradeState, NextPlan
  <1>20. CASE CancelRaised  BY <1>20 DEF CancelRaised, Failed, Abandon, NoPlan
  <1>21. CASE ReplaceOrderFailed  BY <1>21 DEF ReplaceOrderFailed
  <1>22. CASE SafeExit  BY <1>22 DEF SafeExit, Failed, Plan
  <1>23. CASE HandleSimilarOpenOrder  BY <1>23 DEF HandleSimilarOpenOrder, Failed
  <1>24. ASSUME NEW o \in Orders, ClearOrder(o) PROVE NeverReplaces'  BY <1>24 DEF ClearOrder
  <1>25. ASSUME NEW o \in Orders, ClearUnreachable(o) PROVE NeverReplaces'
    BY <1>25 DEF ClearUnreachable
  <1>26. ASSUME NEW o \in Orders, CreateOrder(o) PROVE NeverReplaces'  BY <1>26 DEF CreateOrder
  <1>27. ASSUME NEW o \in Orders, CreateReplyLost(o) PROVE NeverReplaces'
    BY <1>27 DEF CreateReplyLost, Failed
  <1>28. CASE CreateRejected  BY <1>28 DEF CreateRejected, Failed
  <1>29. CASE CreateUnpaid  BY <1>29 DEF CreateUnpaid
  <1>30. CASE RecordNothing  BY <1>30 DEF RecordNothing, Failed
  <1>31. CASE RecordEntry  BY <1>31 DEF RecordEntry
  <1>32. CASE RecordExit  BY <1>32 DEF RecordExit
  <1>33. CASE ExitTrade  BY <1>33 DEF ExitTrade, Coming, NoPlan
  <1>34. ASSUME NEW o \in Orders, RecoverOrder(o) PROVE NeverReplaces'
    BY <1>34 DEF RecoverOrder, UpdateTradeState
  <1>35. CASE RecoverDone  BY <1>35 DEF RecoverDone
  <1>36. CASE ExitSignal  BY <1>36 DEF ExitSignal
  <1>37. CASE ExitsDone  BY <1>37 DEF ExitsDone, GoTo
  <1>38. CASE AdjustPosition  BY <1>38 DEF AdjustPosition, OpenTrades
  <1>39. CASE NoAdjustment  BY <1>39 DEF NoAdjustment, GoTo
  <1>40. CASE EnterPosition  BY <1>40 DEF EnterPosition
  <1>41. CASE NoEntry  BY <1>41 DEF NoEntry, GoTo
  <1>42. CASE Crash  BY <1>42 DEF Crash, NoPlan
  <1>43. CASE UNCHANGED vars  BY <1>43 DEF vars, control
  <1> QED
    BY <1>1, <1>2, <1>3, <1>4, <1>5, <1>6, <1>7, <1>8, <1>9, <1>10, <1>11, <1>12, <1>13,
       <1>14, <1>15, <1>16, <1>17, <1>18, <1>19, <1>20, <1>21, <1>22, <1>23, <1>24, <1>25,
       <1>26, <1>27, <1>28, <1>29, <1>30, <1>31, <1>32, <1>33, <1>34, <1>35, <1>36, <1>37,
       <1>38, <1>39, <1>40, <1>41, <1>42, <1>43
    DEF Next, Bot, Exchange, Startup, Manage, Place, Loops, Handlers

\* A trade that holds coins, or that an exit is made for, has bought some; so
\* has each trade with an exit order.
HasEntry(t) == FilledEntries(t) # {}
Exits == /\ plan.side = "sell"
         /\ \/ pc \in {"safe", "similar", "clear", "record"}
            \/ pc = "cancel" /\ job = "clear"
            \/ pc = "book" /\ ret \in {"clear", "safe"}
EntriesFirst ==
    /\ \A t \in Trades : amount[t] > 0 \/ fee[t] => HasEntry(t)
    /\ \A o \in Orders : owner[o] \in Trades /\ exSide[o] = "sell" => HasEntry(owner[o])
    /\ Exits \/ Recovering => plan.trade \in Trades /\ HasEntry(plan.trade)
    /\ pc = "signal" => plan.trade \in Trades

\* What a trade has bought stays bought.
EntriesStay == \A t \in Trades : FilledEntries(t) \subseteq FilledEntries(t)'

LEMMA StepEntriesStay ==
  ASSUME KInv, KInv', Leaves, Exact
  PROVE  EntriesStay
  <1> SUFFICES ASSUME NEW t \in Trades, NEW o \in FilledEntries(t)
               PROVE  o \in FilledEntries(t)'
    BY DEF EntriesStay
  <1> USE ConstantFacts
  <1>1. /\ o \in Orders /\ owner[o] = t /\ exSide[o] = "buy"
        /\ dStat[o] \in NonOpen /\ dFill[o] > 0
    BY DEF FilledEntries, OrdersOf
  <1>2. exSide'[o] = "buy" /\ owner'[o] = t  BY <1>1 DEF Leaves, Gone
  <1>3. dFill'[o] >= dFill[o] /\ dStat'[o] = dStat[o]
    BY <1>1, <1>2 DEF Exact, Grows
  <1>4. dFill[o] \in Nat /\ dFill'[o] \in Nat  BY <1>1 DEF KInv, IInv, TypeOK
  <1> QED  BY <1>1, <1>2, <1>3, <1>4 DEF FilledEntries, OrdersOf

\* A positive net amount has an entry among its terms.
LEMMA NetPositive ==
  ASSUME TypeOK, NEW t, NetFilled(t) > 0
  PROVE  HasEntry(t)
  <1> SUFFICES ASSUME FilledEntries(t) = {} PROVE FALSE
    BY DEF HasEntry
  <1>1. DoneOf(t) \in SUBSET Orders  BY DEF DoneOf, OrdersOf
  <1>2. Summable(SignedFill, DoneOf(t))  BY <1>1, OrderSums
  <1>3. \A o \in DoneOf(t) : SignedFill[o] <= 0
    BY <1>1 DEF SignedFill, Signed, DoneOf, OrdersOf, FilledEntries, TypeOK
  <1>4. Net(t) <= 0 /\ Net(t) \in Int  BY <1>2, <1>3, SumNotPositive, SumType DEF Net
  <1> QED  BY <1>4, NetIsSum

\* A step that at most takes rows and amounts away.
QuietRows ==
    /\ \A t \in Trades : amount'[t] > 0 \/ fee'[t] => amount[t] > 0 \/ fee[t]
    /\ \A o \in Orders : owner'[o] \in Trades =>
          owner'[o] = owner[o] /\ exSide'[o] = exSide[o]

LEMMA SameRows ==
  ASSUME UNCHANGED <<amount, fee, owner, exSide>>
  PROVE  QuietRows
  BY DEF QuietRows

LEMMA DeleteQuiet ==
  ASSUME TypeOK, NEW d, DeleteTrade(d), UNCHANGED exSide
  PROVE  QuietRows
  BY ConstantFacts DEF DeleteTrade, QuietRows, TypeOK

LEMMA QuietEntries ==
  ASSUME EntriesFirst, EntriesStay, QuietRows,
         Exits' \/ Recovering' => (Exits \/ Recovering) /\ plan'.trade = plan.trade,
         pc' = "signal" => plan'.trade \in Trades
  PROVE  EntriesFirst'
  BY DEF EntriesFirst, EntriesStay, HasEntry, QuietRows

\* What handle_cancel_order goes on with, when nothing is to be replaced.
LEMMA EntryCancelledEntries ==
  ASSUME KInv, NeverReplaces, EntriesFirst, EntriesStay, pc = "cancel",
         NEW c, EntryCancelled(c), UNCHANGED <<exSide, job>>
  PROVE  EntriesFirst'
  <1>1. QuietRows
    BY SameRows, DeleteQuiet DEF EntryCancelled, KInv, IInv
  <1>2. PICK next \in {"clear", "sync", "done"} :
           /\ plan' = plan /\ (next = "clear" => job = "clear")
           /\ pc' = next \/ (pc' = "book" /\ ret' = next)
    <2>1. \A result : AfterCancel(result) \in {"clear", "sync", "done"}
                      /\ (AfterCancel(result) = "clear" => job = "clear")
      BY DEF AfterCancel, NeverReplaces, KInv, IInv, TypeOK
    <2>2. plan' = plan  BY DEF EntryCancelled, NextPlan, NeverReplaces
    <2>3. \E result : pc' = AfterCancel(result) \/ (pc' = "book" /\ ret' = AfterCancel(result))
      BY DEF EntryCancelled, UpdateTradeState
    <2> QED  BY <2>1, <2>2, <2>3
  <1>3. Exits' \/ Recovering' => (Exits \/ Recovering) /\ plan'.trade = plan.trade
    BY <1>2 DEF Exits, Recovering
  <1> QED  BY <1>1, <1>2, <1>3, QuietEntries

LEMMA ExitCancelledEntries ==
  ASSUME KInv, RowsComplete, NeverReplaces, EntriesFirst, EntriesStay, pc = "cancel",
         exSide[cur] # "buy", NEW c, NEW acted, ExitCancelled(c, acted),
         UNCHANGED <<exSide, job>>
  PROVE  EntriesFirst'
  <1>1. cur \in Orders /\ exSide[cur] = "sell"
    BY DEF KInv, IInv, TypeOK, ReplyLags, InHand
  <1>2. UNCHANGED <<owner, amount, fee>>  BY DEF ExitCancelled
  <1>3. PICK next \in {"clear", "sync", "done", "safe"} :
           /\ IF next = "safe" THEN job = "timeout" /\ plan'.trade = owner[cur] ELSE plan' = plan
           /\ next = "clear" => job = "clear"
           /\ pc' = next \/ (pc' = "book" /\ ret' = next)
    <2>1. AfterCancel(acted) \in {"clear", "sync", "done"}
          /\ (AfterCancel(acted) = "clear" => job = "clear")
      BY DEF AfterCancel, NeverReplaces, KInv, IInv, TypeOK
    <2>2. NextPlan(acted, c) = plan  BY DEF NextPlan, NeverReplaces
    <2> QED
      BY <2>1, <2>2 DEF ExitCancelled, UpdateTradeState, NeverReplaces
  <1>4. CASE next = "safe"
    <2>1. owner[cur] \in Trades  BY <1>3, <1>4 DEF RowsComplete
    <2>2. HasEntry(owner[cur])  BY <1>1, <2>1 DEF EntriesFirst
    <2>3. pc' # "signal"  BY <1>3, <1>4
    <2> QED  BY <1>2, <1>3, <1>4, <2>1, <2>2, <2>3 DEF EntriesFirst, EntriesStay, HasEntry
  <1>5. CASE next # "safe"
    <2>1. QuietRows  BY <1>2, SameRows
    <2>2. Exits' \/ Recovering' => (Exits \/ Recovering) /\ plan'.trade = plan.trade
      BY <1>3, <1>5 DEF Exits, Recovering
    <2>3. pc' # "signal"  BY <1>3
    <2> QED  BY <2>1, <2>2, <2>3, QuietEntries
  <1> QED  BY <1>4, <1>5

LEMMA StepEntriesFirst ==
  ASSUME KInv, RowsComplete, NeverReplaces, ~Forgetful, SideAsPlanned, EntriesFirst,
         EntriesStay, [Next]_vars
  PROVE  EntriesFirst'
  <1> USE ConstantFacts DEF KInv, IInv, TypeOK
  <1>1. ASSUME NEW o \in Orders, ExchangeFill(o) PROVE EntriesFirst'
    BY <1>1, SameRows, QuietEntries DEF ExchangeFill, rows, control, EntriesFirst, Exits,
       Recovering
  <1>2. ASSUME NEW o \in Orders, ExchangeCancel(o) PROVE EntriesFirst'
    BY <1>2, SameRows, QuietEntries DEF ExchangeCancel, rows, control, EntriesFirst, Exits,
       Recovering
  <1>3. CASE Start  BY <1>3, SameRows, QuietEntries DEF Start, exch, rows, Exits, Recovering
  <1>4. ASSUME NEW o \in Orders, SyncOrder(o) PROVE EntriesFirst'
    BY <1>4, SameRows, QuietEntries DEF SyncOrder, exch, SyncNext, UpdateTradeState, Exits,
       Recovering
  <1>5. ASSUME NEW o \in Orders, SyncForgotten(o) PROVE EntriesFirst'
    BY <1>5 DEF SyncForgotten
  <1>6. ASSUME NEW o \in Orders, SyncUnreachable(o) PROVE EntriesFirst'
    BY <1>6, SameRows, QuietEntries DEF SyncUnreachable, exch, SyncNext, rows, Exits,
       Recovering
  <1>7. CASE SyncDone
    BY <1>7, SameRows, QuietEntries DEF SyncDone, exch, GoTo, Failed, rows, NeverReplaces,
       Exits, Recovering
  <1>8. CASE AssignFees
    BY <1>8, SameRows, QuietEntries DEF AssignFees, exch, UpdateTradeState, Exits, Recovering
  <1>9. CASE NoFeesAssigned
    BY <1>9, SameRows, QuietEntries DEF NoFeesAssigned, exch, GoTo, rows, Exits, Recovering
  <1>10. CASE BookOrder
    <2>1. cur \in Orders /\ dStat[cur] \in NonOpen /\ dFill[cur] > 0
      BY <1>10 DEF BookOrder, ReplyLags, InHand, RowsComplete
    <2>2. UNCHANGED <<owner, exSide, plan>> /\ pc' = ret /\ owner[cur] \in Trades
      BY <1>10, <2>1 DEF BookOrder, exch
    <2>3. exSide[cur] = "buy" => cur \in FilledEntries(owner[cur])
      BY <2>1 DEF FilledEntries, OrdersOf
    <2>4. HasEntry(owner[cur])
      BY <2>1, <2>2, <2>3 DEF HasEntry, EntriesFirst
    <2>5. \A t \in Trades \ {owner[cur]} : amount'[t] = amount[t] /\ fee'[t] = fee[t]
      BY <1>10 DEF BookOrder
    <2>6. \A t \in Trades : amount'[t] > 0 \/ fee'[t] => HasEntry(t)
      BY <2>4, <2>5 DEF EntriesFirst
    <2>7. Exits' \/ Recovering' => Exits \/ Recovering
      BY <1>10, <2>2 DEF BookOrder, Exits, Recovering, NeverReplaces
    <2>8. pc' # "signal"  BY <2>2
    <2> HIDE DEF TypeOK, IInv
    <2> QED  BY <2>2, <2>6, <2>7, <2>8 DEF EntriesFirst, EntriesStay, HasEntry
  <1>11. ASSUME NEW o \in Orders, ManageOrder(o) PROVE EntriesFirst'
    BY <1>11, SameRows, QuietEntries DEF ManageOrder, exch, UpdateTradeState, Exits,
       Recovering
  <1>12. ASSUME NEW o \in Orders, ManageUnreachable(o) PROVE EntriesFirst'
    BY <1>12, SameRows, QuietEntries DEF ManageUnreachable, exch, Managing, rows, Exits,
       Recovering
  <1>13. CASE ManageDone
    BY <1>13, SameRows, QuietEntries DEF ManageDone, exch, GoTo, rows, Exits, Recovering
  <1>14. CASE Resume
    BY <1>14, SameRows, QuietEntries DEF Resume, exch, GoTo, rows, Exits, Recovering
  <1>15. CASE CancelKept
    <2>1. pc' \in {"clear", "sync", "done"} /\ (pc' = "clear" => job = "clear")
      BY <1>15 DEF CancelKept, AfterCancel, NeverReplaces
    <2> QED  BY <1>15, <2>1, SameRows, QuietEntries DEF CancelKept, exch, rows, Exits, Recovering
  <1>16. CASE CancelKnown
    <2>1. CASE exSide[cur] = "buy"
      <3>1. EntryCancelled(resp)  BY <1>16, <2>1 DEF CancelKnown
      <3> QED  BY <1>16, <3>1, EntryCancelledEntries DEF CancelKnown, exch
    <2>2. CASE exSide[cur] # "buy"
      <3>1. ExitCancelled(resp, FALSE)  BY <1>16, <2>2 DEF CancelKnown
      <3> QED  BY <1>16, <2>2, <3>1, ExitCancelledEntries DEF CancelKnown, exch
    <2> QED  BY <2>1, <2>2
  <1>17. CASE CancelAcked
    <2>1. CASE exSide[cur] = "buy"
      <3>1. EntryCancelled(Answer)  BY <1>17, <2>1 DEF CancelAcked, Answer
      <3> QED  BY <1>17, <3>1, EntryCancelledEntries DEF CancelAcked
    <2>2. CASE exSide[cur] # "buy"
      <3>1. ExitCancelled(Answer, TRUE)  BY <1>17, <2>2 DEF CancelAcked, Answer
      <3> QED  BY <1>17, <2>2, <3>1, ExitCancelledEntries DEF CancelAcked
    <2> QED  BY <2>1, <2>2
  <1>18. CASE CancelPending
    <2>1. CASE exSide[cur] = "buy"
      <3>1. pc' \in {"clear", "sync", "done"} /\ (pc' = "clear" => job = "clear")
        BY <1>18, <2>1 DEF CancelPending, AfterCancel, NeverReplaces
      <3> QED
        BY <1>18, <2>1, <3>1, SameRows, QuietEntries DEF CancelPending, exch, rows, Exits,
           Recovering
    <2>2. CASE exSide[cur] # "buy"
      <3>1. ExitCancelled(Snapshot(cur), TRUE)  BY <1>18, <2>2 DEF CancelPending
      <3> QED  BY <1>18, <2>2, <3>1, ExitCancelledEntries DEF CancelPending, exch
    <2> QED  BY <2>1, <2>2
  <1>19. CASE CancelForgotten  BY <1>19 DEF CancelForgotten
  <1>20. CASE CancelRaised
    BY <1>20, SameRows, QuietEntries DEF CancelRaised, Abandon, Failed, rows, NeverReplaces,
       Exits, Recovering
  <1>21. CASE ReplaceOrderFailed  BY <1>21 DEF ReplaceOrderFailed, NeverReplaces
  <1>22. CASE SafeExit
    <2>1. plan'.trade = plan.trade /\ plan'.side = plan.side  BY <1>22 DEF SafeExit, Plan
    <2> QED
      BY <1>22, <2>1, SameRows, QuietEntries DEF SafeExit, exch, rows, Failed, Exits,
         Recovering, NeverReplaces
  <1>23. CASE HandleSimilarOpenOrder
    BY <1>23, SameRows, QuietEntries DEF HandleSimilarOpenOrder, exch, Failed, rows,
       NeverReplaces, Exits, Recovering
  <1>24. ASSUME NEW o \in Orders, ClearOrder(o) PROVE EntriesFirst'
    BY <1>24, SameRows, QuietEntries DEF ClearOrder, exch, rows, Exits, Recovering
  <1>25. ASSUME NEW o \in Orders, ClearUnreachable(o) PROVE EntriesFirst'
    BY <1>25, SameRows, QuietEntries DEF ClearUnreachable, exch, rows, Exits, Recovering
  <1>26. ASSUME NEW o \in Orders, CreateOrder(o) PROVE EntriesFirst'
    <2>1. QuietRows
      BY <1>26 DEF CreateOrder, PlaceOnExchange, First, Created, RowsExist, rows, QuietRows
    <2> QED  BY <1>26, <2>1, QuietEntries DEF CreateOrder, Placing, Exits, Recovering
  <1>27. ASSUME NEW o \in Orders, CreateReplyLost(o) PROVE EntriesFirst'
    <2>1. QuietRows
      BY <1>27 DEF CreateReplyLost, PlaceOnExchange, First, Created, RowsExist, rows, QuietRows
    <2> QED
      BY <1>27, <2>1, QuietEntries DEF CreateReplyLost, Failed, Exits, Recovering, NeverReplaces
  <1>28. CASE CreateRejected
    BY <1>28, SameRows, QuietEntries DEF CreateRejected, exch, Failed, rows, NeverReplaces,
       Exits, Recovering
  <1>29. CASE CreateUnpaid
    BY <1>29, SameRows, QuietEntries DEF CreateUnpaid, exch, rows, Exits, Recovering
  <1>30. CASE RecordNothing
    BY <1>30, SameRows, QuietEntries DEF RecordNothing, exch, Failed, rows, NeverReplaces,
       Exits, Recovering
  <1>31. CASE RecordEntry
    <2> DEFINE done == IF resp.stat \in NonOpen THEN resp.fill ELSE 0
    <2>1. cur \in Orders /\ owner[cur] = NoTrade /\ exSide[cur] = "buy" /\ resp.fill \in Nat
      BY <1>31 DEF RecordEntry, ReplyLags, InHand, RowsExist, SideAsPlanned, Reply
    <2>2. /\ owner' = [owner EXCEPT ![cur] = plan.trade]
          /\ dStat' = [dStat EXCEPT ![cur] = resp.stat]
          /\ dFill' = [dFill EXCEPT ![cur] = resp.fill]
          /\ UNCHANGED <<exSide, plan, fee>> /\ plan.side = "buy"
          /\ pc' # "recover" /\ pc' # "signal"
          /\ (pc' = "book" => ret' # "recover")
      BY <1>31 DEF RecordEntry, RecordRow, UpdateOrder, exch
    <2>3. ASSUME NEW t \in Trades, amount'[t] > 0, amount'[t] # amount[t] PROVE HasEntry(t)'
      <3>1. t = plan.trade /\ amount'[t] = NetFilled(t) + done /\ NetFilled(t) + done > 0
        BY <1>31, <2>3 DEF RecordEntry
      <3>2. CASE done > 0
        <4>1. resp.stat \in NonOpen /\ resp.fill > 0  BY <3>2
        <4>2. cur \in FilledEntries(t)'
          BY <2>1, <2>2, <3>1, <4>1 DEF FilledEntries, OrdersOf
        <4> QED  BY <4>2 DEF HasEntry
      <3>3. CASE ~ (done > 0)
        <4>1. done = 0 /\ NetFilled(t) \in Int
          BY <2>1, <3>3, NetIsSum, NetBelowBought
        <4>2. NetFilled(t) > 0  BY <3>1, <4>1
        <4>3. HasEntry(t)  BY <4>2, NetPositive
        <4> QED  BY <4>3 DEF EntriesStay, HasEntry
      <3> QED  BY <3>2, <3>3
    <2>4. \A t \in Trades : amount'[t] > 0 \/ fee'[t] => HasEntry(t)'
      BY <2>2, <2>3 DEF EntriesFirst, EntriesStay, HasEntry
    <2>5. ASSUME NEW o \in Orders, owner'[o] \in Trades, exSide'[o] = "sell"
          PROVE  HasEntry(owner[o])'
      BY ZenonT(60), <2>1, <2>2, <2>5 DEF EntriesFirst, EntriesStay, HasEntry
    <2>6. ~ (Exits' \/ Recovering')  BY <2>2 DEF Exits, Recovering
    <2> HIDE DEF TypeOK, IInv
    <2> QED  BY <2>2, <2>4, <2>5, <2>6 DEF EntriesFirst
  <1>32. CASE RecordExit
    <2>1. cur \in Orders /\ Exits
      BY <1>32 DEF RecordExit, ReplyLags, InHand, Exits
    <2>2. /\ owner' = [owner EXCEPT ![cur] = plan.trade]
          /\ UNCHANGED <<exSide, plan, fee, amount>> /\ pc' # "recover" /\ pc' # "signal"
          /\ pc' \in {"book", "done"} /\ (pc' = "book" => ret' = "done")
      BY <1>32 DEF RecordExit, RecordRow, exch
    <2>3. ASSUME NEW o \in Orders, owner'[o] \in Trades, exSide'[o] = "sell"
          PROVE  HasEntry(owner[o])'
      BY <2>1, <2>2, <2>3 DEF EntriesFirst, EntriesStay, HasEntry
    <2>4. ~ (Exits' \/ Recovering')  BY <2>2 DEF Exits, Recovering
    <2> HIDE DEF TypeOK, IInv
    <2> QED  BY <2>2, <2>3, <2>4 DEF EntriesFirst, EntriesStay, HasEntry
  <1>33. CASE ExitTrade
    <2>1. PICK t \in OpenTrades :
             /\ plan' = Coming(t)
             /\ pc' = "signal" \/ (CoinsMissing(t) /\ pc' = "recover")
      BY <1>33 DEF ExitTrade
    <2>2. t \in Trades /\ plan'.trade = t
      <3> HIDE DEF TypeOK, IInv
      <3>1. t \in Trades  BY <2>1 DEF OpenTrades
      <3>2. Coming(t).trade = t  BY DEF Coming, NoPlan
      <3> QED  BY <2>1, <3>1, <3>2
    <2>3. pc' = "recover" => HasEntry(t)
      BY <2>1, <2>2 DEF CoinsMissing, EntriesFirst
    <2>4. UNCHANGED <<owner, amount, fee, exSide>>  BY <1>33 DEF ExitTrade, rows, exch
    <2>5. Exits' \/ Recovering' => pc' = "recover"  BY <2>1 DEF Exits, Recovering
    <2> HIDE DEF TypeOK, IInv
    <2> QED  BY <2>2, <2>3, <2>4, <2>5 DEF EntriesFirst, EntriesStay, HasEntry
  <1>34. ASSUME NEW o \in Orders, RecoverOrder(o) PROVE EntriesFirst'
    <2>1. Recovering /\ o \in Orders  BY <1>34 DEF RecoverOrder, Recovering
    <2>2. /\ owner' = [owner EXCEPT ![o] = plan.trade]
          /\ UNCHANGED <<exSide, plan, fee, amount>> /\ pc' # "signal"
      BY <1>34 DEF RecoverOrder, UpdateTradeState, exch
    <2>3. ASSUME NEW p \in Orders, owner'[p] \in Trades, exSide'[p] = "sell"
          PROVE  HasEntry(owner[p])'
      BY <2>1, <2>2, <2>3 DEF EntriesFirst, EntriesStay, HasEntry
    <2> HIDE DEF TypeOK, IInv
    <2> QED  BY <2>1, <2>2, <2>3 DEF EntriesFirst, EntriesStay, HasEntry
  <1>35. CASE RecoverDone
    <2>1. QuietRows
      <3>1. CASE UNCHANGED rows  BY <1>35, <3>1, SameRows DEF RecoverDone, rows, exch
      <3>2. CASE DeleteTrade(plan.trade)  BY <1>35, <3>2, DeleteQuiet DEF RecoverDone, exch
      <3> QED  BY <1>35, <3>1, <3>2 DEF RecoverDone
    <2>2. Recovering /\ plan' = plan /\ pc' \in {"done", "signal"}
      BY <1>35 DEF RecoverDone, Recovering
    <2>3. ~ (Exits' \/ Recovering')  BY <2>2 DEF Exits, Recovering
    <2> QED  BY <2>1, <2>2, <2>3, QuietEntries DEF EntriesFirst
  <1>36. CASE ExitSignal
    <2>1. plan.trade \in Trades /\ plan' = plan /\ UNCHANGED <<owner, amount, fee, exSide>>
      BY <1>36 DEF ExitSignal, EntriesFirst, rows, exch
    <2>2. pc' = "done" \/ (pc' = "safe" /\ HasEntry(plan.trade))
      BY <1>36, <2>1 DEF ExitSignal, EntriesFirst
    <2>3. Exits' \/ Recovering' => pc' = "safe"  BY <2>2 DEF Exits, Recovering
    <2> HIDE DEF TypeOK, IInv
    <2> QED  BY <2>1, <2>2, <2>3 DEF EntriesFirst, EntriesStay, HasEntry
  <1>37. CASE ExitsDone
    BY <1>37, SameRows, QuietEntries DEF ExitsDone, exch, GoTo, rows, Exits, Recovering
  <1>38. CASE AdjustPosition
    <2>1. PICK t \in OpenTrades :
             \/ plan'.side = "buy" /\ pc' = "similar"
             \/ plan'.trade = t /\ amount[t] > 0 /\ pc' = "safe"
      <3> HIDE DEF TypeOK, IInv
      <3>1. PICK t \in OpenTrades :
             \/ /\ plan' = [trade |-> t, side |-> "buy", amt |-> OrderAmt, mode |-> "pos_adjust"]
                /\ pc' = "similar"
             \/ \E a \in 1..amount[t] :
                  /\ plan' = [trade |-> t, side |-> "sell", amt |-> a, mode |-> "exit"]
                  /\ pc' = "safe"
        BY <1>38 DEF AdjustPosition
      <3>2. amount[t] \in Nat  BY <3>1 DEF TypeOK, IInv, OpenTrades
      <3> QED  BY <3>1, <3>2
    <2>2. t \in Trades /\ UNCHANGED <<owner, amount, fee, exSide>>
      BY <1>38 DEF OpenTrades, AdjustPosition, rows, exch
    <2>3. Exits' \/ Recovering' => plan'.trade \in Trades /\ HasEntry(plan'.trade)
      BY <2>1, <2>2 DEF Exits, Recovering, EntriesFirst
    <2>4. pc' # "signal"  BY <2>1
    <2> HIDE DEF TypeOK, IInv
    <2> QED  BY <2>2, <2>3, <2>4 DEF EntriesFirst, EntriesStay, HasEntry
  <1>39. CASE NoAdjustment
    BY <1>39, SameRows, QuietEntries DEF NoAdjustment, exch, GoTo, rows, Exits, Recovering
  <1>40. CASE EnterPosition
    BY <1>40, SameRows, QuietEntries DEF EnterPosition, exch, rows, Exits, Recovering
  <1>41. CASE NoEntry
    BY <1>41, SameRows, QuietEntries DEF NoEntry, exch, GoTo, rows, Exits, Recovering
  <1>42. CASE Crash  BY <1>42, SameRows, QuietEntries DEF Crash, exch, rows, Exits, Recovering
  <1>43. CASE UNCHANGED vars
    BY <1>43, SameRows, QuietEntries DEF vars, exch, rows, control, EntriesFirst, Exits,
       Recovering
  <1> QED
    BY <1>1, <1>2, <1>3, <1>4, <1>5, <1>6, <1>7, <1>8, <1>9, <1>10, <1>11, <1>12, <1>13,
       <1>14, <1>15, <1>16, <1>17, <1>18, <1>19, <1>20, <1>21, <1>22, <1>23, <1>24, <1>25,
       <1>26, <1>27, <1>28, <1>29, <1>30, <1>31, <1>32, <1>33, <1>34, <1>35, <1>36, <1>37,
       <1>38, <1>39, <1>40, <1>41, <1>42, <1>43
    DEF Next, Bot, Exchange, Startup, Manage, Place, Loops, Handlers

\* The invariant behind DeleteOnlyEmpty.
EInv == KInv /\ Orderly /\ RowsComplete /\ NeverReplaces /\ EntriesFirst

LEMMA StepEmpty ==
  ASSUME ~Forgetful, ~Replacing, EInv, [Next]_vars
  PROVE  EInv' /\ Leaves /\ EntriesStay
  <1> USE DEF EInv
  <1>1. Exact /\ KInv'  BY StepInv, StepExact DEF KInv, Exact
  <1>2. Orderly' /\ RowsComplete' /\ NeverReplaces'
    BY StepOrderly, StepRowsComplete, StepNeverReplaces DEF KInv, IInv
  <1>3. Leaves  BY StepLeaves DEF Orderly
  <1>4. EntriesStay  BY <1>1, <1>3, StepEntriesStay
  <1>5. EntriesFirst'  BY <1>4, StepEntriesFirst DEF Orderly
  <1> QED  BY <1>1, <1>2, <1>3, <1>4, <1>5

\* Trade.delete takes away rows of orders that brought nothing.
LEMMA GoneEmpty ==
  ASSUME EInv, NEW o \in Orders, owner[o] \in Trades, Gone(o)
  PROVE  exFill[o] = 0
  <1> USE ConstantFacts DEF EInv, KInv, IInv
  <1>1. CASE dStat[o] \in NonOpen
    <2>1. exFill[o] = dFill[o]  BY <1>1 DEF RowsExact
    <2>2. exSide[o] = "buy"  BY DEF EntriesFirst, HasEntry, Gone, TypeOK
    <2>3. ~ (dFill[o] > 0)  BY <1>1, <2>2 DEF Gone, FilledEntries, OrdersOf
    <2>4. dFill[o] \in Nat  BY DEF TypeOK
    <2> QED  BY <2>1, <2>3, <2>4
  <1> QED  BY <1>1 DEF Gone

LEMMA InitEmpty == Init => EInv
  <1> SUFFICES ASSUME Init PROVE EInv
    OBVIOUS
  <1>1. KInv /\ Orderly  BY InitExact, InitBooks
  <1>2. RowsComplete /\ NeverReplaces
    BY ConstantFacts DEF Init, RowsComplete, NeverReplaces, NoPlan
  <1>3. EntriesFirst
    BY ConstantFacts DEF Init, EntriesFirst, Exits, Recovering
  <1> QED  BY <1>1, <1>2, <1>3 DEF EInv

\* Trade.delete only removes trades that bought nothing and cannot buy later,
\* however the replies and the fills fall, whenever the process dies: with an
\* exchange that knows its orders and a strategy that does not move the price
\* of an open order (replace_order_failed does delete a trade while an order is
\* open, which is why the model's other configurations are left out here).
THEOREM OnlyEmptyDeleted ==
  ASSUME ~Forgetful, ~Replacing
  PROVE  Spec => DeleteOnlyEmpty
  <1>1. EInv /\ [Next]_vars => EInv'  BY StepEmpty
  <1>2. EInv /\ [Next]_vars =>
          [\A o \in Orders : owner[o] # NoTrade /\ owner'[o] = NoTrade =>
             exFill[o] = 0 /\ exStat'[o] # "open"]_vars
    <2> SUFFICES ASSUME EInv, [Next]_vars, NEW o \in Orders, owner[o] # NoTrade,
                        owner'[o] = NoTrade
                 PROVE  exFill[o] = 0 /\ exStat'[o] # "open"
      OBVIOUS
    <2>1. owner[o] \in Trades  BY DEF EInv, KInv, IInv, TypeOK
    <2>2. Gone(o)  BY <2>1, StepEmpty, ConstantFacts DEF Leaves
    <2> QED  BY <2>1, <2>2, GoneEmpty DEF Gone
  <1> QED  BY InitEmpty, <1>1, <1>2, PTL DEF Spec, DeleteOnlyEmpty

-----------------------------------------------------------------------------
(* No trade stays open that holds nothing and waits for nothing, unless    *)
(* the process dies or positions are adjusted: then it can (a crash        *)
(* between two cancels, an entry cleared for one that is then rejected).   *)

\* Without a crash there are no rows before the first iteration.
NothingYet ==
    /\ pc = "off" => phase = "startup"
    /\ phase = "startup" =>
          /\ pc \in {"off", "sync"} /\ todo = {} /\ clr = {}
          /\ \A o \in Orders : dStat[o] = "none"
          /\ \A t \in Trades : trd[t] # "open"
    /\ job # "startup"

\* From execute_entry or execute_trade_exit to the row of the new order, with
\* the cancels and the bookings on the way.
Preparing ==
    \/ pc \in {"safe", "similar", "clear", "record"}
    \/ pc = "sync" /\ phase # "startup"
    \/ pc = "cancel" /\ job = "clear"
    \/ pc = "book" /\ ret \in {"clear", "safe", "similar", "sync"}

\* Why a trade may hold nothing although it is open: its entry is about to be
\* booked, or about to be dropped, or being replaced.
EntryBooked(t) == pc = "book" /\ owner[cur] = t /\ exSide[cur] = "buy"
Emptied(t) == /\ pc = "cancel" /\ owner[cur] = t /\ exSide[cur] = "buy"
              /\ job = "timeout" /\ resp.stat \in NonOpen /\ resp.fill = 0
Replaced(t) == plan.mode = "replace" /\ plan.trade = t /\ (Preparing \/ pc = "failed")
Pending(t) == EntryBooked(t) \/ Emptied(t) \/ Replaced(t)

\* Whoever bought something holds something, and so does whoever sells; an open
\* trade that holds nothing has an order on its way.
Backed(t) ==
    /\ HasEntry(t) => amount[t] > 0 \/ EntryBooked(t)
    /\ \A o \in OrdersOf(t) : exSide[o] = "sell" => amount[t] > 0
    /\ fee[t] => amount[t] > 0
    /\ trd[t] = "open" => amount[t] > 0 \/ OpenOrders(t) # {} \/ Pending(t)
AllBacked == \A t \in Trades : Backed(t)

\* An exit is made for a trade that holds something.
ExitHeld ==
    /\ Recovering \/ (Preparing /\ plan.side = "sell") =>
          plan.trade \in Trades /\ amount[plan.trade] > 0
    /\ Recovering \/ pc = "signal" => plan.trade \in Trades /\ plan.side = "sell"
    /\ pc = "sync" \/ (pc = "book" /\ ret = "sync") => phase = "startup" \/ plan.side = "sell"

\* The orders that are cleared first are those of the trade planned for.
Prepared ==
    /\ plan.side = "buy" => plan.mode \in {"initial", "replace"}
    /\ Preparing /\ plan.side = "buy" /\ plan.mode = "initial" =>
          clr = {} /\ pc \in {"clear", "record"}
    /\ clr # {} => Preparing \/ pc \in {"done", "failed"}
    /\ Preparing => \A o \in clr : owner[o] = plan.trade
    /\ pc = "cancel" /\ job = "clear" => owner[cur] = plan.trade
    /\ pc = "record" => /\ clr = {} /\ resp.stat \in CreateStats
                        /\ resp.stat = "closed" => resp.fill > 0

LEMMA CancellingNothingYet ==
  ASSUME TypeOK, NothingYet, NEW c, NEW acted, Cancelling(c, acted)
  PROVE  NothingYet'
  <1>1. phase # "startup"  BY DEF Cancelling, NothingYet
  <1>2. pc' # "off"
    <2>1. \A result : AfterCancel(result) # "off"  BY DEF AfterCancel, TypeOK
    <2> QED  BY <2>1 DEF Cancelling, EntryCancelled, ExitCancelled, UpdateTradeState
  <1> QED  BY <1>1, <1>2 DEF Cancelling, NothingYet

LEMMA StepNothingYet ==
  ASSUME TypeOK, IInv, MaxCrashes = 0, NothingYet, [Next]_vars
  PROVE  NothingYet'
  <1> USE DEF TypeOK, NothingYet
  <1>1. ASSUME NEW o \in Orders, ExchangeFill(o) PROVE NothingYet'
    BY <1>1 DEF ExchangeFill, rows, control
  <1>2. ASSUME NEW o \in Orders, ExchangeCancel(o) PROVE NothingYet'
    BY <1>2 DEF ExchangeCancel, rows, control
  <1>3. CASE Start  BY <1>3 DEF Start, rows, exch
  <1>4. ASSUME NEW o \in Orders, SyncOrder(o) PROVE NothingYet'
    BY <1>4 DEF SyncOrder, SyncNext, UpdateTradeState, First
  <1>5. ASSUME NEW o \in Orders, SyncForgotten(o) PROVE NothingYet'
    BY <1>5 DEF SyncForgotten, First
  <1>6. ASSUME NEW o \in Orders, SyncUnreachable(o) PROVE NothingYet'
    BY <1>6 DEF SyncUnreachable, SyncNext, rows, exch
  <1>7. CASE SyncDone  BY <1>7 DEF SyncDone, GoTo, Failed, rows, exch
  <1>8. CASE AssignFees  BY <1>8 DEF AssignFees, UpdateTradeState
  <1>9. CASE NoFeesAssigned  BY <1>9 DEF NoFeesAssigned, GoTo, rows, exch
  <1>10. CASE BookOrder  BY <1>10 DEF BookOrder
  <1>11. ASSUME NEW o \in Orders, ManageOrder(o) PROVE NothingYet'
    BY <1>11 DEF ManageOrder, Managing, UpdateTradeState
  <1>12. ASSUME NEW o \in Orders, ManageUnreachable(o) PROVE NothingYet'
    BY <1>12 DEF ManageUnreachable, Managing, rows, exch
  <1>13. CASE ManageDone  BY <1>13 DEF ManageDone, Managing, GoTo, rows, exch
  <1>14. CASE Resume  BY <1>14 DEF Resume, GoTo, rows, exch, NoPlan, NextPhase
  <1>15. CASE CancelKept  BY <1>15 DEF CancelKept, rows, exch, AfterCancel
  <1>16. CASE CancelKnown  BY <1>16, CancelKnownCase, CancellingNothingYet
  <1>17. CASE CancelAcked  BY <1>17, CancelAckedCase, CancellingNothingYet
  <1>18. CASE CancelPending
    BY <1>18 DEF CancelPending, ExitCancelled, UpdateTradeState, AfterCancel
  <1>19. CASE CancelForgotten  BY <1>19, CancelForgottenCase, CancellingNothingYet
  <1>20. CASE CancelRaised  BY <1>20 DEF CancelRaised, Abandon, Failed, rows, NoPlan
  <1>21. CASE ReplaceOrderFailed  BY <1>21 DEF ReplaceOrderFailed
  <1>22. CASE SafeExit  BY <1>22 DEF SafeExit, Failed, rows, exch, Plan
  <1>23. CASE HandleSimilarOpenOrder  BY <1>23 DEF HandleSimilarOpenOrder, Failed, rows, exch
  <1>24. ASSUME NEW o \in Orders, ClearOrder(o) PROVE NothingYet'
    BY <1>24 DEF ClearOrder, rows, exch
  <1>25. ASSUME NEW o \in Orders, ClearUnreachable(o) PROVE NothingYet'
    BY <1>25 DEF ClearUnreachable, rows, exch
  <1>26. ASSUME NEW o \in Orders, CreateOrder(o) PROVE NothingYet'
    BY <1>26 DEF CreateOrder, Placing, PlaceOnExchange, rows
  <1>27. ASSUME NEW o \in Orders, CreateReplyLost(o) PROVE NothingYet'
    BY <1>27 DEF CreateReplyLost, Placing, PlaceOnExchange, Failed, rows
  <1>28. CASE CreateRejected  BY <1>28 DEF CreateRejected, Placing, Failed, rows, exch
  <1>29. CASE CreateUnpaid  BY <1>29 DEF CreateUnpaid, Placing, rows, exch
  <1>30. CASE RecordNothing  BY <1>30 DEF RecordNothing, Failed, rows, exch
  <1>31. CASE RecordEntry  BY <1>31 DEF RecordEntry
  <1>32. CASE RecordExit  BY <1>32 DEF RecordExit
  <1>33. CASE ExitTrade  BY <1>33 DEF ExitTrade, Exiting, rows, exch
  <1>34. ASSUME NEW o \in Orders, RecoverOrder(o) PROVE NothingYet'
    BY <1>34 DEF RecoverOrder, UpdateTradeState
  <1>35. CASE RecoverDone  BY <1>35 DEF RecoverDone
  <1>36. CASE ExitSignal  BY <1>36 DEF ExitSignal, rows, exch
  <1>37. CASE ExitsDone  BY <1>37 DEF ExitsDone, GoTo, Exiting, rows, exch
  <1>38. CASE AdjustPosition  BY <1>38 DEF AdjustPosition, rows
  <1>39. CASE NoAdjustment  BY <1>39 DEF NoAdjustment, GoTo, rows, exch
  <1>40. CASE EnterPosition  BY <1>40 DEF EnterPosition, rows, exch
  <1>41. CASE NoEntry  BY <1>41 DEF NoEntry, GoTo, rows, exch
  <1>42. CASE Crash  BY <1>42 DEF Crash
  <1>43. CASE UNCHANGED vars  BY <1>43 DEF vars, exch, rows, control
  <1> QED
    BY <1>1, <1>2, <1>3, <1>4, <1>5, <1>6, <1>7, <1>8, <1>9, <1>10, <1>11, <1>12, <1>13,
       <1>14, <1>15, <1>16, <1>17, <1>18, <1>19, <1>20, <1>21, <1>22, <1>23, <1>24, <1>25,
       <1>26, <1>27, <1>28, <1>29, <1>30, <1>31, <1>32, <1>33, <1>34, <1>35, <1>36, <1>37,
       <1>38, <1>39, <1>40, <1>41, <1>42, <1>43
    DEF Next, Bot, Exchange, Startup, Manage, Place, Loops, Handlers

\* A step of a handler that leaves the plan and its orders as they are.
LEMMA KeptControl ==
  ASSUME ExitHeld, Prepared, UNCHANGED <<owner, amount, plan, phase>>, clr' \subseteq clr,
         Recovering' => Recovering, Preparing' => Preparing,
         clr # {} => Preparing' \/ pc' \in {"done", "failed"},
         Preparing' /\ plan.side = "buy" /\ plan.mode = "initial" => pc' \in {"clear", "record"},
         pc' = "signal" => pc = "signal",
         pc' = "sync" \/ (pc' = "book" /\ ret' = "sync") =>
             pc = "sync" \/ (pc = "book" /\ ret = "sync"),
         pc' = "cancel" /\ job' = "clear" => owner[cur'] = plan.trade,
         pc' = "record" => /\ clr' = {} /\ resp'.stat \in CreateStats
                           /\ resp'.stat = "closed" => resp'.fill > 0
  PROVE  ExitHeld' /\ Prepared'
  <1>1. ExitHeld'  BY DEF ExitHeld
  <1>2. Prepared'  BY DEF Prepared
  <1> QED  BY <1>1, <1>2

\* A step after which no order is being placed.
LEMMA IdleControl ==
  ASSUME Prepared, ~Preparing', ~Recovering', pc' # "signal", plan' \in {plan, NoPlan},
         pc' = "sync" => phase' = "startup", ~ (pc' = "book" /\ ret' = "sync"),
         clr' = {} \/ pc' \in {"done", "failed"}
  PROVE  ExitHeld' /\ Prepared'
  BY DEF ExitHeld, Prepared, Preparing, NoPlan

\* After a cancel the loop over the orders to clear goes on, or the handler is
\* left, or a replacement or an emergency exit is prepared.
LEMMA EntryCancelledControl ==
  ASSUME IInv, NothingYet, ExitHeld, Prepared, pc = "cancel", exSide[cur] = "buy",
         NEW c, EntryCancelled(c), UNCHANGED <<phase, job, clr>>
  PROVE  ExitHeld' /\ Prepared'
  <1> USE DEF IInv, TypeOK
  <1>1. PICK result \in BOOLEAN :
           /\ pc' = AfterCancel(result) \/ (pc' = "book" /\ ret' = AfterCancel(result))
           /\ plan' = NextPlan(result, c)
    BY DEF EntryCancelled, UpdateTradeState
  <1>2. job = "clear" => UNCHANGED <<owner, amount>>  BY DEF EntryCancelled
  <1>3. CASE job = "clear"
    <2>1. plan' = plan /\ (pc' = "clear" \/ (pc' = "book" /\ ret' = "clear"))
      BY <1>1, <1>3 DEF AfterCancel, NextPlan
    <2> QED  BY <1>2, <1>3, <2>1, KeptControl DEF Preparing, Recovering, Prepared
  <1>4. CASE job # "clear"
    <2>1. clr = {}  BY <1>4 DEF Prepared, Preparing
    <2>2. CASE job = "replace" /\ result
      <3>1. /\ plan'.side = "buy" /\ plan'.mode = "replace"
            /\ pc' = "similar" \/ (pc' = "book" /\ ret' = "similar")
        BY <1>1, <2>2 DEF AfterCancel, NextPlan
      <3> QED  BY <2>1, <3>1 DEF ExitHeld, Prepared, Preparing, Recovering
    <2>3. CASE ~ (job = "replace" /\ result)
      <3>1. plan' = plan /\ AfterCancel(result) \in {"done", "failed"}
        BY <1>1, <1>4, <2>3 DEF AfterCancel, NextPlan, NothingYet
      <3> QED  BY <1>1, <2>1, <3>1, IdleControl DEF Preparing, Recovering
    <2> QED  BY <2>2, <2>3
  <1> QED  BY <1>3, <1>4

LEMMA ExitCancelledControl ==
  ASSUME IInv, RowsComplete, NothingYet, AllBacked, ExitHeld, Prepared, pc = "cancel",
         exSide[cur] # "buy", NEW c, NEW acted \in BOOLEAN, ExitCancelled(c, acted),
         UNCHANGED <<phase, job, clr>>
  PROVE  ExitHeld' /\ Prepared'
  <1> USE DEF IInv, TypeOK
  <1>1. cur \in Orders /\ exSide[cur] = "sell" /\ UNCHANGED <<owner, amount>>
    BY DEF ReplyLags, InHand, ExitCancelled
  <1>2. job # "clear" => owner[cur] \in Trades /\ amount[owner[cur]] > 0
    BY <1>1 DEF RowsComplete, AllBacked, Backed, OrdersOf, NothingYet
  <1>3. PICK next \in AfterCancels :
           /\ pc' = next \/ (pc' = "book" /\ ret' = next)
           /\ \/ /\ job # "clear" /\ next = "safe"
                 /\ plan'.trade = owner[cur] /\ plan'.side = "sell"
              \/ /\ plan' = plan /\ next = AfterCancel(acted)
                 /\ job = "replace" => ~acted
    <2>1. CASE job = "replace" /\ acted
      <3>1. /\ pc' = "safe" \/ (pc' = "book" /\ ret' = "safe")
            /\ plan'.trade = owner[cur] /\ plan'.side = "sell"
        BY <1>1, <2>1 DEF ExitCancelled, UpdateTradeState, AfterCancel, NextPlan
      <3> QED  BY <2>1, <3>1 DEF AfterCancels
    <2>2. CASE ~ (job = "replace" /\ acted)
      <3>1. NextPlan(acted, c) = plan  BY <2>2 DEF NextPlan
      <3>2. AfterCancel(acted) \in AfterCancels  BY AfterCancelTyped
      <3> QED  BY <2>2, <3>1, <3>2 DEF ExitCancelled, UpdateTradeState, AfterCancels
    <2> QED  BY <2>1, <2>2
  <1>4. CASE job # "clear" /\ next = "safe" /\ plan'.trade = owner[cur] /\ plan'.side = "sell"
    <2>1. clr = {}  BY <1>4 DEF Prepared, Preparing
    <2> QED
      BY <1>1, <1>2, <1>3, <1>4, <2>1 DEF ExitHeld, Prepared, Preparing, Recovering
  <1>5. CASE plan' = plan /\ next = AfterCancel(acted) /\ (job = "replace" => ~acted)
    <2>1. CASE job = "clear"
      <3>1. next = "clear"  BY <1>5, <2>1 DEF AfterCancel
      <3> QED
        BY <1>1, <1>3, <1>5, <2>1, <3>1, KeptControl DEF Preparing, Recovering, Prepared
    <2>2. CASE job # "clear"
      <3>1. clr = {}  BY <2>2 DEF Prepared, Preparing
      <3>2. next \in {"done", "failed"}  BY <1>5, <2>2 DEF AfterCancel, NothingYet
      <3> QED  BY <1>3, <1>5, <3>1, <3>2, IdleControl DEF Preparing, Recovering
    <2> QED  BY <2>1, <2>2
  <1> QED  BY <1>3, <1>4, <1>5

LEMMA StepControl ==
  ASSUME IInv, ~Adjusting, RowsComplete, NothingYet, AllBacked, ExitHeld, Prepared,
         MaxCrashes = 0, [Next]_vars
  PROVE  ExitHeld' /\ Prepared'
  <1> USE DEF IInv, TypeOK
  <1>1. ASSUME NEW o \in Orders, ExchangeFill(o) PROVE ExitHeld' /\ Prepared'
    BY <1>1, KeptControl DEF ExchangeFill, rows, control, Preparing, Recovering, Prepared
  <1>2. ASSUME NEW o \in Orders, ExchangeCancel(o) PROVE ExitHeld' /\ Prepared'
    BY <1>2, KeptControl DEF ExchangeCancel, rows, control, Preparing, Recovering, Prepared
  <1>3. CASE Start
    BY <1>3, IdleControl DEF Start, rows, exch, NothingYet, Prepared, Preparing, Recovering
  <1>4. ASSUME NEW o \in Orders, SyncOrder(o) PROVE ExitHeld' /\ Prepared'
    BY <1>4, KeptControl DEF SyncOrder, SyncNext, UpdateTradeState, UpdateOrder, exch, First,
       NothingYet, Preparing, Recovering, Prepared
  <1>5. ASSUME NEW o \in Orders, SyncForgotten(o) PROVE ExitHeld' /\ Prepared'
    BY <1>5 DEF SyncForgotten, NothingYet, First
  <1>6. ASSUME NEW o \in Orders, SyncUnreachable(o) PROVE ExitHeld' /\ Prepared'
    BY <1>6, KeptControl DEF SyncUnreachable, SyncNext, rows, exch, Preparing, Recovering,
       Prepared
  <1>7. CASE SyncDone
    BY <1>7, IdleControl DEF SyncDone, GoTo, Failed, rows, exch, NothingYet, Prepared,
       Preparing, Recovering
  <1>8. CASE AssignFees
    BY <1>8, IdleControl DEF AssignFees, UpdateTradeState, UpdateOrder, exch, NothingYet,
       Prepared, Preparing, Recovering
  <1>9. CASE NoFeesAssigned
    BY <1>9, IdleControl DEF NoFeesAssigned, GoTo, rows, exch, NothingYet, Prepared,
       Preparing, Recovering
  <1>10. CASE BookOrder
    <2>1. cur \in Orders /\ dFill[cur] > 0
      BY <1>10 DEF BookOrder, ReplyLags, InHand, RowsComplete
    <2>2. UNCHANGED <<owner, plan, clr, phase>> /\ pc' = ret /\ phase # "startup" /\ pc = "book"
      BY <1>10 DEF BookOrder, NothingYet
    <2>3. \A t \in Trades : amount[t] > 0 => amount'[t] > 0
      BY <1>10, <2>1 DEF BookOrder, NewAmount
    <2>4. /\ Recovering' => Recovering
          /\ Preparing' => Preparing
          /\ pc' \notin {"signal", "cancel", "record"}
      BY <2>2 DEF Recovering, Preparing
    <2>5. ExitHeld'  BY <2>2, <2>3, <2>4 DEF ExitHeld
    <2>6. Prepared'
      BY <2>2, <2>4 DEF Prepared, Preparing
    <2> QED  BY <2>5, <2>6
  <1>11. ASSUME NEW o \in Orders, ManageOrder(o) PROVE ExitHeld' /\ Prepared'
    BY <1>11, IdleControl DEF ManageOrder, Managing, UpdateTradeState, UpdateOrder, exch,
       NothingYet, Prepared, Preparing, Recovering
  <1>12. ASSUME NEW o \in Orders, ManageUnreachable(o) PROVE ExitHeld' /\ Prepared'
    BY <1>12, IdleControl DEF ManageUnreachable, Managing, rows, exch, NothingYet, Prepared,
       Preparing, Recovering
  <1>13. CASE ManageDone
    BY <1>13, IdleControl DEF ManageDone, Managing, GoTo, rows, exch, NothingYet, Prepared,
       Preparing, Recovering
  <1>14. CASE Resume
    BY <1>14, IdleControl DEF Resume, GoTo, rows, exch, NoPlan, NextPhase, NothingYet,
       Prepared, Preparing, Recovering
  <1>15. CASE CancelKept
    <2>1. /\ UNCHANGED <<owner, amount, plan, phase, clr>>
          /\ pc' \in {"clear", "done", "failed"} /\ (pc' = "clear" => job = "clear")
      BY <1>15 DEF CancelKept, rows, AfterCancel, NothingYet
    <2> QED
      BY <1>15, <2>1, KeptControl DEF CancelKept, Preparing, Recovering, Prepared
  <1>16. CASE CancelKnown
    <2>1. CASE exSide[cur] = "buy"
      <3>1. EntryCancelled(resp)  BY <1>16, <2>1 DEF CancelKnown
      <3> QED  BY <1>16, <2>1, <3>1, EntryCancelledControl DEF CancelKnown, exch
    <2>2. CASE exSide[cur] # "buy"
      <3>1. ExitCancelled(resp, FALSE)  BY <1>16, <2>2 DEF CancelKnown
      <3> QED  BY <1>16, <2>2, <3>1, ExitCancelledControl DEF CancelKnown, exch
    <2> QED  BY <2>1, <2>2
  <1>17. CASE CancelAcked
    <2>1. CASE exSide[cur] = "buy"
      <3>1. EntryCancelled(Answer)  BY <1>17, <2>1 DEF CancelAcked, Answer
      <3> QED  BY <1>17, <2>1, <3>1, EntryCancelledControl DEF CancelAcked
    <2>2. CASE exSide[cur] # "buy"
      <3>1. ExitCancelled(Answer, TRUE)  BY <1>17, <2>2 DEF CancelAcked, Answer
      <3> QED  BY <1>17, <2>2, <3>1, ExitCancelledControl DEF CancelAcked
    <2> QED  BY <2>1, <2>2
  <1>18. CASE CancelPending
    <2>1. CASE exSide[cur] = "buy"
      <3>1. /\ UNCHANGED <<owner, amount, plan, phase, clr>>
            /\ pc' \in {"clear", "done", "failed"} /\ (pc' = "clear" => job = "clear")
        BY <1>18, <2>1 DEF CancelPending, rows, AfterCancel, NothingYet
      <3> QED
        BY <1>18, <3>1, KeptControl DEF CancelPending, Preparing, Recovering, Prepared
    <2>2. CASE exSide[cur] # "buy"
      <3>1. ExitCancelled(Snapshot(cur), TRUE)  BY <1>18, <2>2 DEF CancelPending
      <3> QED  BY <1>18, <2>2, <3>1, ExitCancelledControl DEF CancelPending, exch
    <2> QED  BY <2>1, <2>2
  <1>19. CASE CancelForgotten
    <2> DEFINE c == [stat |-> "canceled", fill |-> 0]
    <2>1. CASE exSide[cur] = "buy"
      <3>1. EntryCancelled(c)  BY <1>19, <2>1 DEF CancelForgotten
      <3> QED  BY <1>19, <2>1, <3>1, EntryCancelledControl DEF CancelForgotten
    <2>2. CASE exSide[cur] # "buy"
      <3>1. ExitCancelled(c, TRUE)  BY <1>19, <2>2 DEF CancelForgotten
      <3> QED  BY <1>19, <2>2, <3>1, ExitCancelledControl DEF CancelForgotten
    <2> QED  BY <2>1, <2>2
  <1>20. CASE CancelRaised
    BY <1>20, IdleControl DEF CancelRaised, Abandon, Failed, rows, NoPlan, NothingYet,
       Prepared, Preparing, Recovering
  <1>21. CASE ReplaceOrderFailed
    BY <1>21, IdleControl DEF ReplaceOrderFailed, DeleteTrade, rows, exch, NothingYet,
       Prepared, Preparing, Recovering
  <1>22. CASE SafeExit
    <2>1. plan'.trade = plan.trade /\ plan'.side = plan.side /\ plan'.mode = plan.mode
      BY <1>22 DEF SafeExit, Plan
    <2>2. CASE pc' = "similar"
      BY <1>22, <2>1, <2>2 DEF SafeExit, rows, ExitHeld, Prepared, Preparing, Recovering
    <2>3. CASE pc' # "similar"
      BY <1>22, <2>1, <2>3 DEF SafeExit, Failed, rows, ExitHeld, Prepared, Preparing, Recovering
    <2> QED  BY <2>2, <2>3
  <1>23. CASE HandleSimilarOpenOrder
    <2>1. CASE pc' = Failed /\ clr' = clr
      BY <1>23, <2>1, IdleControl
      DEF HandleSimilarOpenOrder, Failed, Preparing, Recovering, Prepared
    <2>2. CASE pc' = "clear" /\ clr' = OpenOrders(plan.trade)
      <3>1. Preparing /\ pc = "similar" /\ UNCHANGED <<owner, amount, plan>>
        BY <1>23 DEF HandleSimilarOpenOrder, Preparing, rows
      <3>2. \A o \in clr' : owner[o] = plan.trade  BY <2>2 DEF OpenOrders, OrdersOf
      <3> QED
        BY <2>2, <3>1, <3>2 DEF ExitHeld, Prepared, Preparing, Recovering
    <2> QED  BY <1>23, <2>1, <2>2 DEF HandleSimilarOpenOrder
  <1>24. ASSUME NEW o \in Orders, ClearOrder(o) PROVE ExitHeld' /\ Prepared'
    <2>1. /\ pc = "clear" /\ o \in clr /\ clr' \subseteq clr
          /\ pc' = "cancel" /\ job' = "clear" /\ cur' = o
      BY <1>24 DEF ClearOrder, First
    <2>2. UNCHANGED <<owner, amount, plan, phase>>  BY <1>24 DEF ClearOrder, rows
    <2> QED  BY <2>1, <2>2, KeptControl DEF Prepared, Preparing, Recovering
  <1>25. ASSUME NEW o \in Orders, ClearUnreachable(o) PROVE ExitHeld' /\ Prepared'
    BY <1>25, KeptControl DEF ClearUnreachable, rows, exch, Preparing, Recovering, Prepared
  <1>26. ASSUME NEW o \in Orders, CreateOrder(o) PROVE ExitHeld' /\ Prepared'
    <2>1. /\ pc = "clear" /\ pc' = "record" /\ clr = {}
          /\ UNCHANGED <<owner, amount, plan, phase, clr>>
      BY <1>26 DEF CreateOrder, Placing, rows
    <2>2. resp'.stat \in CreateStats /\ (resp'.stat = "closed" => resp'.fill > 0)
      BY <1>26 DEF CreateOrder, PlaceOnExchange
    <2> QED  BY <2>1, <2>2, KeptControl DEF Prepared, Preparing, Recovering
  <1>27. ASSUME NEW o \in Orders, CreateReplyLost(o) PROVE ExitHeld' /\ Prepared'
    BY <1>27, IdleControl DEF CreateReplyLost, Placing, PlaceOnExchange, Failed, rows,
       NothingYet, Prepared, Preparing, Recovering
  <1>28. CASE CreateRejected
    BY <1>28, IdleControl DEF CreateRejected, Placing, Failed, rows, exch, NothingYet,
       Prepared, Preparing, Recovering
  <1>29. CASE CreateUnpaid
    <2>1. /\ pc = "clear" /\ pc' = "sync" /\ plan.side = "sell"
          /\ UNCHANGED <<owner, amount, plan, phase>>
      BY <1>29 DEF CreateUnpaid, Placing, rows
    <2>2. \A o \in clr' : owner[o] = plan.trade
      BY <1>29 DEF CreateUnpaid, OpenOrders, OrdersOf
    <2> QED  BY <2>1, <2>2 DEF ExitHeld, Prepared, Preparing, Recovering, NothingYet
  <1>30. CASE RecordNothing
    BY <1>30, IdleControl DEF RecordNothing, Failed, rows, exch, NothingYet, Prepared,
       Preparing, Recovering
  <1>31. CASE RecordEntry
    BY <1>31, IdleControl DEF RecordEntry, RecordRow, UpdateOrder, exch, NothingYet, Prepared,
       Preparing, Recovering
  <1>32. CASE RecordExit
    BY <1>32, IdleControl DEF RecordExit, RecordRow, UpdateOrder, exch, NothingYet, Prepared,
       Preparing, Recovering
  <1>33. CASE ExitTrade
    <2>1. PICK t \in OpenTrades :
             /\ plan' = Coming(t)
             /\ pc' = "signal" \/ (CoinsMissing(t) /\ pc' = "recover")
      BY <1>33 DEF ExitTrade
    <2>2. t \in Trades /\ plan'.trade = t /\ plan'.side = "sell"
      <3>1. t \in Trades  BY <2>1 DEF OpenTrades
      <3>2. Coming(t).trade = t /\ Coming(t).side = "sell"  BY DEF Coming, NoPlan
      <3> QED  BY <2>1, <3>1, <3>2
    <2>3. pc' = "recover" => amount[t] > 0
      BY <2>1, <2>2 DEF CoinsMissing, AllBacked, Backed
    <2>4. UNCHANGED <<owner, amount, clr>> /\ clr = {}
      BY <1>33 DEF ExitTrade, Exiting, rows, Prepared, Preparing
    <2> QED  BY <2>1, <2>2, <2>3, <2>4 DEF ExitHeld, Prepared, Preparing, Recovering
  <1>34. ASSUME NEW o \in Orders, RecoverOrder(o) PROVE ExitHeld' /\ Prepared'
    <2>1. Recovering /\ clr = {}  BY <1>34 DEF RecoverOrder, Recovering, Prepared, Preparing
    <2>2. /\ UNCHANGED <<plan, amount, clr>>
          /\ pc' = "recover" \/ (pc' = "book" /\ ret' = "recover")
      BY <1>34 DEF RecoverOrder, UpdateTradeState
    <2> QED  BY <2>1, <2>2 DEF ExitHeld, Prepared, Preparing, Recovering
  <1>35. CASE RecoverDone
    <2>1. Recovering /\ clr = {}  BY <1>35 DEF RecoverDone, Recovering, Prepared, Preparing
    <2>2. UNCHANGED <<plan, clr>> /\ pc' \in {"done", "signal"}  BY <1>35 DEF RecoverDone
    <2> QED  BY <2>1, <2>2 DEF ExitHeld, Prepared, Preparing, Recovering
  <1>36. CASE ExitSignal
    <2>1. plan.trade \in Trades /\ plan.side = "sell" /\ clr = {}
      BY <1>36 DEF ExitSignal, ExitHeld, Prepared, Preparing
    <2>2. /\ UNCHANGED <<plan, clr, owner, amount>>
          /\ pc' = "done" \/ (pc' = "safe" /\ amount[plan.trade] > 0)
      BY <1>36 DEF ExitSignal, rows
    <2> QED  BY <2>1, <2>2 DEF ExitHeld, Prepared, Preparing, Recovering
  <1>37. CASE ExitsDone
    BY <1>37, IdleControl DEF ExitsDone, GoTo, Exiting, rows, exch, NothingYet, Prepared,
       Preparing, Recovering
  <1>38. CASE AdjustPosition  BY <1>38 DEF AdjustPosition
  <1>39. CASE NoAdjustment
    BY <1>39, IdleControl DEF NoAdjustment, GoTo, rows, exch, NothingYet, Prepared, Preparing,
       Recovering
  <1>40. CASE EnterPosition
    <2>1. /\ plan'.side = "buy" /\ plan'.mode = "initial"
          /\ pc' = "clear" /\ clr' = {}
      BY <1>40 DEF EnterPosition
    <2> QED  BY <2>1 DEF ExitHeld, Prepared, Preparing, Recovering
  <1>41. CASE NoEntry
    BY <1>41, IdleControl DEF NoEntry, GoTo, rows, exch, NothingYet, Prepared, Preparing,
       Recovering
  <1>42. CASE Crash
    BY <1>42, IdleControl DEF Crash, rows, exch, NothingYet, Prepared, Preparing, Recovering
  <1>43. CASE UNCHANGED vars
    BY <1>43, KeptControl DEF vars, exch, rows, control, Preparing, Recovering, Prepared
  <1> QED
    BY <1>1, <1>2, <1>3, <1>4, <1>5, <1>6, <1>7, <1>8, <1>9, <1>10, <1>11, <1>12, <1>13,
       <1>14, <1>15, <1>16, <1>17, <1>18, <1>19, <1>20, <1>21, <1>22, <1>23, <1>24, <1>25,
       <1>26, <1>27, <1>28, <1>29, <1>30, <1>31, <1>32, <1>33, <1>34, <1>35, <1>36, <1>37,
       <1>38, <1>39, <1>40, <1>41, <1>42, <1>43
    DEF Next, Bot, Exchange, Startup, Manage, Place, Loops, Handlers

\* A step that leaves the trade t and its orders as they are.
Backs(t) ==
    /\ amount'[t] = amount[t] /\ fee'[t] = fee[t] /\ trd'[t] = trd[t]
    /\ OrdersOf(t)' = OrdersOf(t)
    /\ \A o \in OrdersOf(t) :
          dStat'[o] = dStat[o] /\ dFill'[o] = dFill[o] /\ exSide'[o] = exSide[o]

LEMMA BackedKept ==
  ASSUME NEW t, Backed(t), Backs(t),
         EntryBooked(t) => EntryBooked(t)', Pending(t) => Pending(t)'
  PROVE  Backed(t)'
  <1>1. FilledEntries(t)' = FilledEntries(t) /\ OpenOrders(t)' = OpenOrders(t)
    BY DEF Backs, FilledEntries, OpenOrders
  <1> QED  BY <1>1 DEF Backs, Backed, HasEntry

\* Trade.delete leaves no order behind.
LEMMA DeletedBacked ==
  ASSUME TypeOK, AllBacked, NEW t \in Trades, NEW d, DeleteTrade(d), UNCHANGED exSide,
         t # d => ~Pending(t) /\ ~EntryBooked(t)
  PROVE  Backed(t)'
  <1>1. CASE t = d
    <2>1. OrdersOf(t)' = {}  BY <1>1, ConstantFacts DEF DeleteTrade, OrdersOf, NoTrade
    <2>2. trd'[t] = "deleted" /\ fee'[t] = FALSE  BY <1>1 DEF DeleteTrade, TypeOK
    <2> QED  BY <2>1, <2>2 DEF Backed, HasEntry, FilledEntries
  <1>2. CASE t # d
    <2>1. Backs(t)
      BY <1>2, ConstantFacts DEF DeleteTrade, Backs, OrdersOf, TypeOK, NoTrade
    <2> QED  BY <1>2, <2>1, BackedKept DEF AllBacked
  <1> QED  BY <1>1, <1>2

\* A step that writes the row of one order, of a trade that holds something.
LEMMA OneRowBacked ==
  ASSUME TypeOK, AllBacked, NEW t \in Trades, NEW o \in Orders, NEW r, UpdateOrder(o, r),
         UNCHANGED <<exSide, owner, trd, amount, fee>>,
         t # owner[o] \/ amount[t] > 0,
         t # owner[o] => (EntryBooked(t) => EntryBooked(t)') /\ (Pending(t) => Pending(t)')
  PROVE  Backed(t)'
  <1>1. CASE amount[t] > 0  BY <1>1 DEF Backed
  <1>2. CASE t # owner[o]
    <2>1. Backs(t)  BY <1>2 DEF UpdateOrder, Backs, OrdersOf, TypeOK
    <2> QED  BY <1>2, <2>1, BackedKept DEF AllBacked
  <1> QED  BY <1>1, <1>2

\* An order that is open or bought nothing is no filled entry.
LEMMA OneRowEntries ==
  ASSUME TypeOK, NEW t, NEW o \in Orders, ~HasEntry(t), UNCHANGED exSide,
         \A p \in Orders \ {o} : owner'[p] = owner[p],
         \A p \in Orders \ {o} : dStat'[p] = dStat[p] /\ dFill'[p] = dFill[p],
         dStat'[o] = "open" \/ dFill'[o] = 0
  PROVE  ~HasEntry(t)'
  BY ConstantFacts DEF HasEntry, FilledEntries, OrdersOf

LEMMA EntryCancelledBacked ==
  ASSUME IInv, RowsComplete, NothingYet, ExitHeld, Prepared, AllBacked, pc = "cancel",
         exSide[cur] = "buy", NEW c, c.stat \in NonOpen, c.fill \in Nat, EntryCancelled(c),
         UNCHANGED <<exSide, phase, job, resp>>, NEW t \in Trades
  PROVE  Backed(t)'
  <1> USE DEF IInv
  <1>1. cur \in Orders  BY DEF ReplyLags, InHand
  <1>2. t # owner[cur] => ~Pending(t) /\ ~EntryBooked(t)
    BY DEF Pending, Emptied, Replaced, EntryBooked, Preparing, Prepared
  <1>3. CASE DeleteTrade(owner[cur])  BY <1>2, <1>3, DeletedBacked
  <1>4. CASE /\ UpdateTradeState(cur, c, AfterCancel(c.fill = 0))
             /\ UNCHANGED <<owner, trd, amount, fee>>
             /\ c.fill = 0 /\ job \in {"timeout", "drop"} =>
                   OpenOrders(owner[cur]) \ {cur} # {} \/ HasEntry(owner[cur])
    <2>1. UpdateOrder(cur, c)  BY <1>4 DEF UpdateTradeState
    <2>2. CASE t # owner[cur] \/ amount[t] > 0
      BY <1>1, <1>2, <1>4, <2>1, <2>2, OneRowBacked
    <2>3. CASE t = owner[cur] /\ ~ (amount[t] > 0)
      <3>1. /\ ~HasEntry(t) /\ ~fee[t]
            /\ \A p \in OrdersOf(t) : exSide[p] # "sell"
        BY <2>3 DEF AllBacked, Backed, EntryBooked
      <3>2. CASE c.fill > 0
        <4>1. EntryBooked(t)'
          BY <1>4, <2>3, <3>2 DEF UpdateTradeState, EntryBooked
        <4> QED  BY <1>4, <3>1, <4>1 DEF Backed, OrdersOf, Pending
      <3>3. CASE c.fill = 0
        <4>1. ~HasEntry(t)'
          BY <1>1, <1>4, <2>1, <3>1, <3>3, OneRowEntries DEF UpdateOrder, TypeOK
        <4>2. pc' = AfterCancel(TRUE) /\ plan' = NextPlan(TRUE, c)
          <5>1. (c.fill = 0) = TRUE  BY <3>3
          <5>2. pc' = AfterCancel(c.fill = 0)  BY <1>4, <3>3 DEF UpdateTradeState
          <5>3. plan' = NextPlan(c.fill = 0, c)  BY DEF EntryCancelled
          <5> QED  BY <5>1, <5>2, <5>3
        <4>3. OpenOrders(t)' # {} \/ Replaced(t)'
          <5>1. CASE job \in {"timeout", "drop"}
            <6>1. PICK p \in OpenOrders(t) : p # cur
              BY <1>4, <2>3, <3>1, <3>3, <5>1
            <6>2. p \in OpenOrders(t)'
              BY <1>4, <2>1, <6>1 DEF OpenOrders, OrdersOf, UpdateOrder, TypeOK
            <6> QED  BY <6>2
          <5>2. CASE job = "replace"
            BY <2>3, <4>2, <5>2 DEF AfterCancel, NextPlan, Replaced, Preparing
          <5>3. CASE job = "clear"
            <6>1. plan' = plan /\ pc' = "clear" /\ plan.trade = t /\ Preparing
              BY <2>3, <4>2, <5>3 DEF AfterCancel, NextPlan, Prepared, Preparing
            <6>2. plan.side = "buy"
              BY <2>3, <6>1 DEF ExitHeld, TypeOK, Plan
            <6>3. plan.mode = "replace"
              BY <6>1, <6>2 DEF Prepared
            <6> QED  BY <6>1, <6>3 DEF Replaced, Preparing
          <5> QED  BY <5>1, <5>2, <5>3 DEF NothingYet, TypeOK
        <4> QED  BY <1>4, <3>1, <4>1, <4>3 DEF Backed, OrdersOf, Pending
      <3> QED  BY <3>2, <3>3
    <2> QED  BY <2>2, <2>3
  <1> QED  BY <1>3, <1>4 DEF EntryCancelled, HasEntry

LEMMA ExitCancelledBacked ==
  ASSUME IInv, Prepared, AllBacked, pc = "cancel", exSide[cur] # "buy",
         NEW c, NEW acted, ExitCancelled(c, acted), UNCHANGED exSide, NEW t \in Trades
  PROVE  Backed(t)'
  <1> USE DEF IInv
  <1>1. cur \in Orders /\ exSide[cur] = "sell"  BY DEF ReplyLags, InHand, TypeOK
  <1>2. t # owner[cur] => ~Pending(t) /\ ~EntryBooked(t)
    BY DEF Pending, Emptied, Replaced, EntryBooked, Preparing, Prepared
  <1>3. t = owner[cur] => amount[t] > 0
    BY <1>1 DEF AllBacked, Backed, OrdersOf
  <1>4. UpdateOrder(cur, c) /\ UNCHANGED <<owner, trd, amount, fee>>
    BY DEF ExitCancelled, UpdateTradeState
  <1> QED  BY <1>1, <1>2, <1>3, <1>4, OneRowBacked

\* An entry is recorded: it is open, or filled and booked next, or it is empty
\* and dropped next.  Only a replacement that comes back cancelled is not.
LEMMA RecordEntryBacked ==
  ASSUME IInv, Orderly, RowsComplete, Prepared, AllBacked, RecordEntry,
         plan.mode # "replace" \/ "canceled" \notin CreateStats, NEW t \in Trades
  PROVE  Backed(t)'
  <1> USE ConstantFacts DEF IInv
  <1>1. /\ plan.trade \in Trades /\ plan.side = "buy" /\ exSide[cur] = "buy"
        /\ cur \in Orders /\ owner[cur] = NoTrade /\ pc = "record"
    BY DEF RecordEntry, RowsComplete, Orderly, SideAsPlanned, ReplyLags, InHand, RowsExist
  <1>2. /\ owner' = [owner EXCEPT ![cur] = plan.trade]
        /\ UpdateOrder(cur, resp) /\ UNCHANGED <<exSide, fee, cur, resp, plan>>
    BY DEF RecordEntry, RecordRow, exch
  <1>3. CASE t # plan.trade
    <2>1. ~Pending(t) /\ ~EntryBooked(t)
      BY <1>1, <1>3 DEF Pending, Emptied, Replaced, EntryBooked
    <2>2. amount'[t] = amount[t] /\ trd'[t] = trd[t]
      BY <1>1, <1>3 DEF RecordEntry
    <2>3. Backs(t)
      BY <1>1, <1>2, <1>3, <2>2 DEF Backs, OrdersOf, UpdateOrder
    <2> QED  BY <2>1, <2>3, BackedKept DEF AllBacked
  <1>4. CASE t = plan.trade /\ amount'[t] > 0  BY <1>4 DEF Backed
  <1>5. CASE t = plan.trade /\ ~ (amount'[t] > 0)
    <2>1. ~ (amount[t] > 0)
      <3>1. PICK n \in Amounts : amount' = [amount EXCEPT ![t] = IF n > 0 THEN n ELSE @]
        BY <1>5 DEF RecordEntry
      <3> QED  BY <1>5, <3>1 DEF TypeOK
    <2>2. ~HasEntry(t) /\ ~fee[t] /\ \A p \in OrdersOf(t) : exSide[p] # "sell"
      BY <1>1, <2>1 DEF AllBacked, Backed, EntryBooked
    <2>3. \A p \in OrdersOf(t)' : exSide'[p] # "sell"
      BY <1>1, <1>2, <2>2 DEF OrdersOf
    <2>4. owner'[cur] = t  BY <1>1, <1>2, <1>5 DEF TypeOK
    <2>5. CASE resp.stat = "open"
      <3>1. dStat'[cur] = "open"  BY <1>1, <1>2, <2>5 DEF UpdateOrder, TypeOK
      <3>2. cur \in OpenOrders(t)'  BY <1>1, <2>4, <3>1 DEF OpenOrders, OrdersOf
      <3>3. ~HasEntry(t)'
        BY <1>1, <1>2, <2>2, <3>1, OneRowEntries DEF UpdateOrder, TypeOK
      <3> QED  BY <1>2, <2>2, <2>3, <3>2, <3>3 DEF Backed
    <2>6. CASE resp.stat \in NonOpen /\ resp.fill > 0
      <3>1. pc' = "book"  BY <2>6 DEF RecordEntry
      <3>2. EntryBooked(t)'  BY <1>1, <1>2, <2>4, <3>1 DEF EntryBooked
      <3> QED  BY <1>2, <2>2, <2>3, <3>2 DEF Backed, Pending
    <2>7. CASE resp.stat \in NonOpen /\ ~ (resp.fill > 0)
      <3>1. resp.fill = 0  BY <2>7 DEF TypeOK, Reply
      <3>2. plan.mode # "replace"
        <4>1. resp.stat # "closed" /\ resp.stat \in CreateStats
          BY <1>1, <2>7 DEF Prepared
        <4>2. resp.stat # "expired"
          BY <1>1, <3>1 DEF RecordEntry, ExpiredEmpty
        <4> QED  BY <2>7, <4>1, <4>2 DEF NonOpen
      <3>3. pc' = "cancel" /\ job' = "timeout"
        BY <2>7, <3>2 DEF RecordEntry
      <3>4. Emptied(t)'
        BY <1>1, <1>2, <2>4, <2>7, <3>1, <3>3 DEF Emptied
      <3>5. dFill'[cur] = 0  BY <1>1, <1>2, <3>1 DEF UpdateOrder, TypeOK
      <3>6. ~HasEntry(t)'
        BY <1>1, <1>2, <2>2, <3>5, OneRowEntries DEF UpdateOrder, TypeOK
      <3> QED  BY <1>2, <2>2, <2>3, <3>4, <3>6 DEF Backed, Pending
    <2> QED  BY <2>5, <2>6, <2>7 DEF TypeOK, Reply, Statuses
  <1> QED  BY <1>3, <1>4, <1>5

\* One order is in hand at a time, and every step leaves its trade backed.
LEMMA StepBacked ==
  ASSUME IInv, Orderly, RowsComplete, NothingYet, ExitHeld, Prepared, AllBacked,
         ~Adjusting, MaxCrashes = 0,
         plan.mode # "replace" \/ "canceled" \notin CreateStats, [Next]_vars
  PROVE  AllBacked'
  <1> SUFFICES ASSUME NEW t \in Trades PROVE Backed(t)'
    BY DEF AllBacked
  <1> USE ConstantFacts DEF IInv, TypeOK, Orderly
  <1>0. Backed(t)  BY DEF AllBacked
  <1>1. ASSUME NEW o \in Orders, ExchangeFill(o) PROVE Backed(t)'
    BY <1>1, <1>0, BackedKept DEF ExchangeFill, rows, control, Backs, OrdersOf, Pending,
       Emptied, Replaced, EntryBooked, Preparing
  <1>2. ASSUME NEW o \in Orders, ExchangeCancel(o) PROVE Backed(t)'
    BY <1>2, <1>0, BackedKept DEF ExchangeCancel, rows, control, Backs, OrdersOf, Pending,
       Emptied, Replaced, EntryBooked, Preparing
  <1>3. CASE Start
    BY <1>3, <1>0, BackedKept DEF Start, rows, exch, Backs, OrdersOf, Pending, Emptied,
       Replaced, EntryBooked, Preparing
  <1>4. ASSUME NEW o \in Orders, SyncOrder(o) PROVE Backed(t)'
    <2>1. /\ owner[o] = plan.trade /\ amount[owner[o]] > 0 /\ owner[o] \in Trades
          /\ pc = "sync"
      BY <1>4 DEF SyncOrder, SyncNext, First, NothingYet, ExitHeld, Prepared, Preparing
    <2>2. /\ UpdateOrder(o, Snapshot(o)) /\ UNCHANGED <<exSide, owner, trd, amount, fee, plan>>
          /\ pc' \in {"sync", "book"} /\ (pc' = "book" => ret' = "sync") /\ phase' = phase
      BY <1>4 DEF SyncOrder, UpdateTradeState, exch
    <2> QED
      BY <2>1, <2>2, OneRowBacked DEF Pending, Emptied, Replaced, EntryBooked
  <1>5. ASSUME NEW o \in Orders, SyncForgotten(o) PROVE Backed(t)'
    BY <1>5 DEF SyncForgotten, NothingYet, First
  <1>6. ASSUME NEW o \in Orders, SyncUnreachable(o) PROVE Backed(t)'
    BY <1>6, <1>0, BackedKept DEF SyncUnreachable, SyncNext, rows, exch, Backs, OrdersOf,
       Pending, Emptied, Replaced, EntryBooked, Preparing
  <1>7. CASE SyncDone
    BY <1>7, <1>0, BackedKept DEF SyncDone, GoTo, Failed, rows, exch, Backs, OrdersOf,
       Pending, Emptied, Replaced, EntryBooked, Preparing
  <1>8. CASE AssignFees
    <2>1. PICK u \in OpenTrades : \E o \in FilledEntries(u) :
             UpdateTradeState(o, Snapshot(o), "done")
      BY <1>8 DEF AssignFees
    <2>2. PICK o \in FilledEntries(u) : UpdateTradeState(o, Snapshot(o), "done")
      BY <2>1
    <2>3. u \in Trades /\ o \in Orders /\ owner[o] = u /\ amount[u] > 0 /\ pc = "loop"
      BY <1>8 DEF AssignFees, OpenTrades, FilledEntries, OrdersOf, AllBacked, Backed, HasEntry,
         EntryBooked
    <2>4. UpdateOrder(o, Snapshot(o)) /\ UNCHANGED <<exSide, owner, trd, amount, fee>>
      BY <1>8, <2>2 DEF AssignFees, UpdateTradeState, exch
    <2> QED
      BY <2>3, <2>4, OneRowBacked DEF Pending, Emptied, Replaced, EntryBooked, Preparing
  <1>9. CASE NoFeesAssigned
    BY <1>9, <1>0, BackedKept DEF NoFeesAssigned, GoTo, rows, exch, Backs, OrdersOf, Pending,
       Emptied, Replaced, EntryBooked, Preparing
  <1>10. CASE BookOrder
    <2>1. /\ cur \in Orders /\ dFill[cur] > 0 /\ owner[cur] \in Trades /\ phase # "startup"
      BY <1>10 DEF BookOrder, ReplyLags, InHand, RowsComplete, NothingYet, NoTrade
    <2>2. /\ UNCHANGED <<exSide, owner, dStat, dFill, plan, phase>> /\ pc' = ret /\ pc = "book"
      BY <1>10 DEF BookOrder, exch
    <2>3. CASE t = owner[cur]
      <3>1. PICK n \in Amounts : amount' = [amount EXCEPT ![t] = NewAmount(cur, n)]
        BY <1>10, <2>3 DEF BookOrder
      <3>2. NewAmount(cur, n) > 0
        <4>1. exSide[cur] # "buy" => amount[t] > 0
          BY <2>1, <2>3 DEF AllBacked, Backed, OrdersOf
        <4> QED  BY <2>1, <2>3, <4>1 DEF NewAmount
      <3>3. amount'[t] > 0  BY <3>1, <3>2
      <3> QED  BY <3>3 DEF Backed
    <2>4. CASE t # owner[cur]
      <3>1. amount'[t] = amount[t] /\ fee'[t] = fee[t] /\ trd'[t] = trd[t]
        BY <1>10, <2>1, <2>4 DEF BookOrder
      <3>2. Backs(t)
        BY <2>2, <3>1 DEF Backs, OrdersOf
      <3>3. ~EntryBooked(t) /\ (Pending(t) => Pending(t)')
        BY <2>1, <2>2, <2>4 DEF Pending, Emptied, Replaced, EntryBooked, Preparing
      <3> QED  BY <3>2, <3>3, BackedKept DEF AllBacked
    <2> QED  BY <2>3, <2>4
  <1>11. ASSUME NEW o \in Orders, ManageOrder(o) PROVE Backed(t)'
    <2>1. /\ pc = "loop" /\ owner[o] \in Trades
          /\ UpdateOrder(o, Snapshot(o)) /\ UNCHANGED <<exSide, owner, trd, amount, fee, plan>>
      BY <1>11 DEF ManageOrder, Managing, UpdateTradeState, exch
    <2>2. CASE t # owner[o] \/ amount[t] > 0
      BY <2>1, <2>2, OneRowBacked DEF Pending, Emptied, Replaced, EntryBooked, Preparing
    <2>3. CASE t = owner[o] /\ ~ (amount[t] > 0)
      <3>1. /\ exSide[o] = "buy" /\ ~HasEntry(t) /\ ~fee[t]
            /\ \A p \in OrdersOf(t) : exSide[p] = "buy"
        BY <2>1, <2>3 DEF AllBacked, Backed, OrdersOf, EntryBooked
      <3>2. exStat[o] \in Statuses
        BY <2>1 DEF RowsExist, NoTrade
      <3>3. CASE exStat[o] = "open"
        <4>1. dStat'[o] = "open" /\ owner'[o] = t
          BY <2>1, <2>3, <3>3 DEF UpdateOrder, Snapshot
        <4>2. OpenOrders(t)' # {}  BY <4>1 DEF OpenOrders, OrdersOf
        <4>3. ~HasEntry(t)'
          BY <2>1, <3>1, <4>1, OneRowEntries DEF UpdateOrder
        <4> QED  BY <2>1, <3>1, <4>2, <4>3 DEF Backed, OrdersOf
      <3>4. CASE exStat[o] # "open" /\ exFill[o] = 0
        <4>1. /\ cur' = o /\ pc' = "cancel" /\ job' = "timeout" /\ resp' = Snapshot(o)
          BY <1>11, <3>4 DEF ManageOrder
        <4>2. Emptied(t)'
          BY <2>1, <2>3, <3>1, <3>2, <3>4, <4>1 DEF Emptied, Snapshot, Statuses
        <4>3. dFill'[o] = 0  BY <2>1, <3>4 DEF UpdateOrder, Snapshot
        <4>4. ~HasEntry(t)'
          BY <2>1, <3>1, <4>3, OneRowEntries DEF UpdateOrder
        <4> QED  BY <2>1, <3>1, <4>2, <4>4 DEF Backed, OrdersOf, Pending
      <3>5. CASE exStat[o] \in NonOpen /\ exFill[o] > 0
        <4>1. cur' = o /\ pc' = "book"
          BY <1>11, <3>5 DEF ManageOrder, UpdateTradeState, Snapshot, NonOpen
        <4>2. EntryBooked(t)'  BY <2>1, <2>3, <3>1, <4>1 DEF EntryBooked
        <4> QED  BY <2>1, <3>1, <4>2 DEF Backed, OrdersOf, Pending
      <3> QED  BY <2>1, <3>2, <3>3, <3>4, <3>5 DEF Statuses
    <2> QED  BY <2>2, <2>3
  <1>12. ASSUME NEW o \in Orders, ManageUnreachable(o) PROVE Backed(t)'
    BY <1>12, <1>0, BackedKept DEF ManageUnreachable, Managing, rows, exch, Backs, OrdersOf,
       Pending, Emptied, Replaced, EntryBooked, Preparing
  <1>13. CASE ManageDone
    BY <1>13, <1>0, BackedKept DEF ManageDone, Managing, GoTo, rows, exch, Backs, OrdersOf,
       Pending, Emptied, Replaced, EntryBooked, Preparing
  <1>14. CASE Resume
    BY <1>14, <1>0, BackedKept DEF Resume, GoTo, rows, exch, NoPlan, NextPhase, Backs,
       OrdersOf, Pending, Emptied, Replaced, EntryBooked, Preparing
  <1>15. CASE CancelKept
    BY <1>15, <1>0, BackedKept DEF CancelKept, rows, exch, AfterCancel, Backs, OrdersOf,
       Pending, Emptied, Replaced, EntryBooked, Preparing, AfterCancel
  <1>16. CASE CancelKnown
    <2>1. CASE exSide[cur] = "buy"
      <3>1. EntryCancelled(resp)  BY <1>16, <2>1 DEF CancelKnown
      <3>2. resp.stat \in NonOpen /\ resp.fill \in Nat  BY <1>16 DEF CancelKnown, Reply
      <3> QED  BY <1>16, <2>1, <3>1, <3>2, EntryCancelledBacked DEF CancelKnown, exch
    <2>2. CASE exSide[cur] # "buy"
      <3>1. ExitCancelled(resp, FALSE)  BY <1>16, <2>2 DEF CancelKnown
      <3> QED  BY <1>16, <2>2, <3>1, ExitCancelledBacked DEF CancelKnown, exch
    <2> QED  BY <2>1, <2>2
  <1>17. CASE CancelAcked
    <2>1. CASE exSide[cur] = "buy"
      <3>1. EntryCancelled(Answer)  BY <1>17, <2>1 DEF CancelAcked, Answer
      <3>2. Answer.stat \in NonOpen /\ Answer.fill \in Nat
        BY <1>17, ConstantFacts DEF CancelAcked, Answer, ReplyLags, InHand, RowsExist, Statuses
      <3> QED  BY <1>17, <2>1, <3>1, <3>2, EntryCancelledBacked DEF CancelAcked
    <2>2. CASE exSide[cur] # "buy"
      <3>1. ExitCancelled(Answer, TRUE)  BY <1>17, <2>2 DEF CancelAcked, Answer
      <3> QED  BY <1>17, <2>2, <3>1, ExitCancelledBacked DEF CancelAcked
    <2> QED  BY <2>1, <2>2
  <1>18. CASE CancelPending
    <2>1. CASE exSide[cur] = "buy"
      <3>1. /\ UNCHANGED <<rows, exSide, plan>> /\ pc = "cancel" /\ resp.stat = "open"
            /\ pc' \in {"clear", "done", "failed"} /\ (job = "clear" => pc' = "clear")
        BY <1>18, <2>1 DEF CancelPending, exch, AfterCancel, NothingYet
      <3> QED
        BY <3>1, BackedKept, ConstantFacts
        DEF rows, AllBacked, Backs, OrdersOf, Pending, Emptied, Replaced, EntryBooked, Preparing
    <2>2. CASE exSide[cur] # "buy"
      <3>1. ExitCancelled(Snapshot(cur), TRUE)  BY <1>18, <2>2 DEF CancelPending
      <3> QED  BY <1>18, <2>2, <3>1, ExitCancelledBacked DEF CancelPending, exch
    <2> QED  BY <2>1, <2>2
  <1>19. CASE CancelForgotten
    <2> DEFINE c == [stat |-> "canceled", fill |-> 0]
    <2>1. CASE exSide[cur] = "buy"
      <3>1. EntryCancelled(c)  BY <1>19, <2>1 DEF CancelForgotten
      <3>2. c.stat \in NonOpen /\ c.fill \in Nat  BY ConstantFacts
      <3> QED  BY <1>19, <2>1, <3>1, <3>2, EntryCancelledBacked DEF CancelForgotten
    <2>2. CASE exSide[cur] # "buy"
      <3>1. ExitCancelled(c, TRUE)  BY <1>19, <2>2 DEF CancelForgotten
      <3> QED  BY <1>19, <2>2, <3>1, ExitCancelledBacked DEF CancelForgotten
    <2> QED  BY <2>1, <2>2
  <1>20. CASE CancelRaised
    BY <1>20, <1>0, BackedKept DEF CancelRaised, Abandon, Failed, rows, NoPlan, Backs,
       OrdersOf, Pending, Emptied, Replaced, EntryBooked, Preparing
  <1>21. CASE ReplaceOrderFailed
    <2> DEFINE d == IF plan.trade = NoTrade THEN owner[cur] ELSE plan.trade
    <2>1. pc = "failed" /\ pc' = "done" /\ UNCHANGED <<exSide, plan>>
      BY <1>21 DEF ReplaceOrderFailed, exch
    <2>2. CASE DeleteTrade(d) /\ d # NoTrade /\ FilledEntries(d) = {}
      <3>1. t # d => ~Pending(t) /\ ~EntryBooked(t)
        BY <2>1, ConstantFacts DEF Pending, Emptied, Replaced, EntryBooked
      <3> HIDE DEF d
      <3> QED  BY <2>1, <2>2, <3>1, DeletedBacked
    <2>3. CASE UNCHANGED rows /\ ~ (d # NoTrade /\ FilledEntries(d) = {})
      <3>1. HasEntry(t) \/ ~Pending(t)
        BY <2>1, <2>3, ConstantFacts DEF HasEntry, Pending, Emptied, Replaced, EntryBooked
      <3>2. HasEntry(t) => amount[t] > 0  BY <2>1 DEF AllBacked, Backed, EntryBooked
      <3>3. CASE amount[t] > 0  BY <2>3, <3>3 DEF rows, Backed
      <3>4. CASE ~Pending(t)
        BY <2>1, <2>3, <3>4, BackedKept DEF rows, AllBacked, Backs, OrdersOf, EntryBooked
      <3> QED  BY <3>1, <3>2, <3>3, <3>4
    <2> QED  BY <1>21, <2>2, <2>3 DEF ReplaceOrderFailed
  <1>22. CASE SafeExit
    BY <1>22, <1>0, BackedKept DEF SafeExit, Failed, rows, exch, Plan, Backs, OrdersOf,
       Pending, Emptied, Replaced, EntryBooked, Preparing
  <1>23. CASE HandleSimilarOpenOrder
    BY <1>23, <1>0, BackedKept DEF HandleSimilarOpenOrder, Failed, rows, exch, Backs,
       OrdersOf, Pending, Emptied, Replaced, EntryBooked, Preparing
  <1>24. ASSUME NEW o \in Orders, ClearOrder(o) PROVE Backed(t)'
    BY <1>24, <1>0, BackedKept DEF ClearOrder, rows, exch, Backs, OrdersOf, Pending, Emptied,
       Replaced, EntryBooked, Preparing
  <1>25. ASSUME NEW o \in Orders, ClearUnreachable(o) PROVE Backed(t)'
    BY <1>25, <1>0, BackedKept DEF ClearUnreachable, rows, exch, Backs, OrdersOf, Pending,
       Emptied, Replaced, EntryBooked, Preparing
  <1>26. ASSUME NEW o \in Orders, CreateOrder(o) PROVE Backed(t)'
    BY <1>26, <1>0, BackedKept DEF CreateOrder, Placing, PlaceOnExchange, rows, Backs,
       OrdersOf, Pending, Emptied, Replaced, EntryBooked, Preparing, First, Created, RowsExist
  <1>27. ASSUME NEW o \in Orders, CreateReplyLost(o) PROVE Backed(t)'
    BY <1>27, <1>0, BackedKept DEF CreateReplyLost, Placing, PlaceOnExchange, Failed, rows,
       Backs, OrdersOf, Pending, Emptied, Replaced, EntryBooked, Preparing, First, Created,
       RowsExist
  <1>28. CASE CreateRejected
    BY <1>28, <1>0, BackedKept DEF CreateRejected, Placing, Failed, rows, exch, Backs,
       OrdersOf, Pending, Emptied, Replaced, EntryBooked, Preparing
  <1>29. CASE CreateUnpaid
    BY <1>29, <1>0, BackedKept DEF CreateUnpaid, Placing, rows, exch, Backs, OrdersOf,
       Pending, Emptied, Replaced, EntryBooked, Preparing, NothingYet
  <1>30. CASE RecordNothing
    BY <1>30, <1>0, BackedKept DEF RecordNothing, Failed, rows, exch, Backs, OrdersOf,
       Pending, Emptied, Replaced, EntryBooked, Preparing
  <1>31. CASE RecordEntry  BY <1>31, RecordEntryBacked
  <1>32. CASE RecordExit
    <2>1. /\ plan.trade \in Trades /\ amount[plan.trade] > 0
          /\ cur \in Orders /\ owner[cur] = NoTrade /\ pc = "record"
      BY <1>32 DEF RecordExit, ExitHeld, Preparing, ReplyLags, InHand, RowsExist
    <2>2. /\ owner' = [owner EXCEPT ![cur] = plan.trade]
          /\ UpdateOrder(cur, resp) /\ UNCHANGED <<exSide, trd, amount, fee>>
      BY <1>32 DEF RecordExit, RecordRow, exch
    <2>3. CASE t = plan.trade  BY <2>1, <2>2, <2>3 DEF Backed
    <2>4. CASE t # plan.trade
      <3>1. ~Pending(t) /\ ~EntryBooked(t)
        BY <2>1, <2>4 DEF Pending, Emptied, Replaced, EntryBooked
      <3>2. Backs(t)
        BY <2>1, <2>2, <2>4, ConstantFacts DEF Backs, OrdersOf, UpdateOrder
      <3> QED  BY <3>1, <3>2, BackedKept DEF AllBacked
    <2> QED  BY <2>3, <2>4
  <1>33. CASE ExitTrade
    BY <1>33, <1>0, BackedKept DEF ExitTrade, Exiting, rows, exch, Backs, OrdersOf, Pending,
       Emptied, Replaced, EntryBooked, Preparing
  <1>34. ASSUME NEW o \in Orders, RecoverOrder(o) PROVE Backed(t)'
    <2>1. /\ plan.trade \in Trades /\ amount[plan.trade] > 0
          /\ owner[o] \in {plan.trade, NoTrade} /\ pc = "recover"
      BY <1>34 DEF RecoverOrder, ExitHeld, Recovering, RecoversOwn, First
    <2>2. /\ owner' = [owner EXCEPT ![o] = plan.trade]
          /\ UpdateOrder(o, Snapshot(o)) /\ UNCHANGED <<exSide, trd, amount, fee>>
      BY <1>34 DEF RecoverOrder, UpdateTradeState, exch
    <2>3. CASE t = plan.trade  BY <2>1, <2>2, <2>3 DEF Backed
    <2>4. CASE t # plan.trade
      <3>1. ~Pending(t) /\ ~EntryBooked(t)
        BY <2>1, <2>4 DEF Pending, Emptied, Replaced, EntryBooked
      <3>2. Backs(t)
        BY <2>1, <2>2, <2>4, ConstantFacts DEF Backs, OrdersOf, UpdateOrder
      <3> QED  BY <3>1, <3>2, BackedKept DEF AllBacked
    <2> QED  BY <2>3, <2>4
  <1>35. CASE RecoverDone
    <2>1. pc = "recover" /\ UNCHANGED exSide  BY <1>35 DEF RecoverDone, exch
    <2>2. ~Pending(t) /\ ~EntryBooked(t)
      BY <2>1 DEF Pending, Emptied, Replaced, EntryBooked, Preparing
    <2>3. CASE DeleteTrade(plan.trade)  BY <2>1, <2>2, <2>3, DeletedBacked
    <2>4. CASE UNCHANGED rows
      BY <2>1, <2>2, <2>4, BackedKept DEF rows, AllBacked, Backs, OrdersOf
    <2> QED  BY <1>35, <2>3, <2>4 DEF RecoverDone
  <1>36. CASE ExitSignal
    BY <1>36, <1>0, BackedKept DEF ExitSignal, rows, exch, Backs, OrdersOf, Pending, Emptied,
       Replaced, EntryBooked, Preparing
  <1>37. CASE ExitsDone
    BY <1>37, <1>0, BackedKept DEF ExitsDone, GoTo, Exiting, rows, exch, Backs, OrdersOf,
       Pending, Emptied, Replaced, EntryBooked, Preparing
  <1>38. CASE AdjustPosition  BY <1>38 DEF AdjustPosition
  <1>39. CASE NoAdjustment
    BY <1>39, <1>0, BackedKept DEF NoAdjustment, GoTo, rows, exch, Backs, OrdersOf, Pending,
       Emptied, Replaced, EntryBooked, Preparing
  <1>40. CASE EnterPosition
    BY <1>40, <1>0, BackedKept DEF EnterPosition, rows, exch, Backs, OrdersOf, Pending,
       Emptied, Replaced, EntryBooked, Preparing
  <1>41. CASE NoEntry
    BY <1>41, <1>0, BackedKept DEF NoEntry, GoTo, rows, exch, Backs, OrdersOf, Pending,
       Emptied, Replaced, EntryBooked, Preparing
  <1>42. CASE Crash  BY <1>42 DEF Crash
  <1>43. CASE UNCHANGED vars
    BY <1>43, <1>0, BackedKept DEF vars, exch, rows, control, Backs, OrdersOf, Pending,
       Emptied, Replaced, EntryBooked, Preparing
  <1> QED
    BY <1>1, <1>2, <1>3, <1>4, <1>5, <1>6, <1>7, <1>8, <1>9, <1>10, <1>11, <1>12, <1>13,
       <1>14, <1>15, <1>16, <1>17, <1>18, <1>19, <1>20, <1>21, <1>22, <1>23, <1>24, <1>25,
       <1>26, <1>27, <1>28, <1>29, <1>30, <1>31, <1>32, <1>33, <1>34, <1>35, <1>36, <1>37,
       <1>38, <1>39, <1>40, <1>41, <1>42, <1>43
    DEF Next, Bot, Exchange, Startup, Manage, Place, Loops, Handlers

\* The invariant behind NoZombie.
ZInv == /\ IInv /\ Orderly /\ RowsComplete /\ (Replacing \/ NeverReplaces)
        /\ NothingYet /\ ExitHeld /\ Prepared /\ AllBacked

LEMMA InitBacked == Init => ZInv
  <1> SUFFICES ASSUME Init PROVE ZInv
    OBVIOUS
  <1>1. IInv /\ Orderly /\ RowsComplete /\ NeverReplaces
    BY InitEmpty DEF EInv, KInv
  <1>2. NothingYet
    BY ConstantFacts DEF Init, NothingYet
  <1>3. ExitHeld /\ Prepared
    BY DEF Init, ExitHeld, Prepared, Preparing, Recovering, NoPlan
  <1>4. AllBacked
    BY ConstantFacts DEF Init, AllBacked, Backed, HasEntry, FilledEntries, OrdersOf
  <1> QED  BY <1>1, <1>2, <1>3, <1>4 DEF ZInv

LEMMA StepZ ==
  ASSUME MaxCrashes = 0, ~Adjusting, ~Replacing \/ "canceled" \notin CreateStats,
         ZInv, [Next]_vars
  PROVE  ZInv'
  <1> USE DEF ZInv
  <1>1. IInv' /\ Orderly' /\ RowsComplete'
    BY StepInv, StepOrderly, StepRowsComplete
  <1>2. (Replacing \/ NeverReplaces)'
    BY StepNeverReplaces DEF IInv
  <1>3. NothingYet'  BY StepNothingYet DEF IInv
  <1>4. ExitHeld' /\ Prepared'  BY StepControl
  <1>5. AllBacked'  BY StepBacked DEF NeverReplaces
  <1> QED  BY <1>1, <1>2, <1>3, <1>4, <1>5

\* When no trade is adjusted and the process stays up, an open trade that holds
\* nothing has an order row that is still open once manage_open_orders has run: it
\* cannot keep its slot and its pair for ever.  Replies may be made up or get
\* lost and the account may hold other coins; only an exchange that answers a
\* replacement order with "canceled" is left out, which execute_entry records
\* and does not cancel again.
THEOREM NoTradeForgotten ==
  ASSUME MaxCrashes = 0, ~Adjusting, ~Replacing \/ "canceled" \notin CreateStats
  PROVE  Spec => []NoZombie
  <1>1. ZInv /\ [Next]_vars => ZInv'  BY StepZ
  <1>2. ZInv => NoZombie
    BY DEF ZInv, AllBacked, Backed, NoZombie, OpenTrades, Pending, Emptied, Replaced,
       EntryBooked, Preparing
  <1> QED  BY InitBacked, <1>1, <1>2, PTL DEF Spec

-----------------------------------------------------------------------------
(* The books agree with the account, and no order that can still fill is   *)
(* out of sight.                                                            *)

\* The coins that the orders of a trade brought, whatever their rows say.
SignedOn == [o \in Orders |-> IF exSide[o] = "buy" THEN exFill[o] ELSE -exFill[o]]
Total(t) == SumOver(SignedOn, OrdersOf(t))

LEMMA BookSums ==
  ASSUME TypeOK, NEW t
  PROVE  /\ OrdersOf(t) \in SUBSET Orders /\ DoneOf(t) \in SUBSET OrdersOf(t)
         /\ \A S \in SUBSET Orders : Summable(SignedOn, S) /\ Summable(SignedFill, S)
         /\ Net(t) \in Int /\ Total(t) \in Int
  <1>1. OrdersOf(t) \in SUBSET Orders /\ DoneOf(t) \in SUBSET OrdersOf(t)
    BY DEF OrdersOf, DoneOf
  <1>2. \A S \in SUBSET Orders : Summable(SignedOn, S) /\ Summable(SignedFill, S)
    BY OrdersFinite, OrderSums DEF Summable, SignedOn, TypeOK
  <1>3. Summable(SignedOn, OrdersOf(t)) /\ Summable(SignedFill, DoneOf(t))
    BY <1>1, <1>2
  <1> QED  BY <1>1, <1>2, <1>3, SumType DEF Net, Total

\* The sums stay when the orders and the amounts do.
LEMMA SameNet ==
  ASSUME TypeOK, NEW t, DoneOf(t)' = DoneOf(t),
         \A o \in DoneOf(t) : exSide'[o] = exSide[o] /\ dFill'[o] = dFill[o]
  PROVE  Net(t)' = Net(t)
  <1>1. DoneOf(t) \in SUBSET Orders /\ Summable(SignedFill, DoneOf(t))  BY BookSums
  <1>2. \A o \in DoneOf(t) : SignedFill[o] = SignedFill'[o]
    BY <1>1 DEF SignedFill, Signed
  <1> QED  BY <1>1, <1>2, SumCongruence DEF Net

LEMMA SameTotal ==
  ASSUME TypeOK, NEW t, OrdersOf(t)' = OrdersOf(t),
         \A o \in OrdersOf(t) : exSide'[o] = exSide[o] /\ exFill'[o] = exFill[o]
  PROVE  Total(t)' = Total(t)
  <1>1. OrdersOf(t) \in SUBSET Orders /\ Summable(SignedOn, OrdersOf(t))  BY BookSums
  <1>2. \A o \in OrdersOf(t) : SignedOn[o] = SignedOn'[o]
    BY <1>1 DEF SignedOn
  <1> QED  BY <1>1, <1>2, SumCongruence DEF Total

\* One order more is done, one more belongs to the trade, one is filled further.
LEMMA NetGrows ==
  ASSUME TypeOK, TypeOK', NEW t, NEW o \in Orders, o \notin DoneOf(t),
         DoneOf(t)' = DoneOf(t) \union {o},
         \A p \in DoneOf(t) : exSide'[p] = exSide[p] /\ dFill'[p] = dFill[p]
  PROVE  Net(t)' = Net(t) + (IF exSide'[o] = "buy" THEN dFill'[o] ELSE -dFill'[o])
  <1>1. DoneOf(t) \in SUBSET Orders /\ Summable(SignedFill, DoneOf(t))  BY BookSums
  <1>2. \A p \in DoneOf(t) : SignedFill[p] = SignedFill'[p]
    BY <1>1 DEF SignedFill, Signed
  <1>3. SumOver(SignedFill', DoneOf(t)) = Net(t)
    BY <1>1, <1>2, SumCongruence DEF Net
  <1>4. SignedFill'[o] \in Int
        /\ SignedFill'[o] = IF exSide'[o] = "buy" THEN dFill'[o] ELSE -dFill'[o]
    BY DEF SignedFill, Signed, TypeOK
  <1>5. Summable(SignedFill', DoneOf(t))
    BY <1>1, <1>2 DEF Summable
  <1>6. SumOver(SignedFill', DoneOf(t) \union {o}) =
           SignedFill'[o] + SumOver(SignedFill', DoneOf(t))
    BY <1>4, <1>5, SumAdd
  <1> QED  BY <1>3, <1>4, <1>6, BookSums DEF Net

LEMMA TotalGrows ==
  ASSUME TypeOK, TypeOK', NEW t, NEW o \in Orders, o \notin OrdersOf(t),
         OrdersOf(t)' = OrdersOf(t) \union {o},
         \A p \in OrdersOf(t) : exSide'[p] = exSide[p] /\ exFill'[p] = exFill[p]
  PROVE  Total(t)' = Total(t) + SignedOn'[o]
  <1>1. OrdersOf(t) \in SUBSET Orders /\ Summable(SignedOn, OrdersOf(t))  BY BookSums
  <1>2. \A p \in OrdersOf(t) : SignedOn[p] = SignedOn'[p]
    BY <1>1 DEF SignedOn
  <1>3. SumOver(SignedOn', OrdersOf(t)) = Total(t)
    BY <1>1, <1>2, SumCongruence DEF Total
  <1>4. SignedOn'[o] \in Int  BY DEF SignedOn, TypeOK
  <1>5. Summable(SignedOn', OrdersOf(t))
    BY <1>1, <1>2 DEF Summable
  <1>6. SumOver(SignedOn', OrdersOf(t) \union {o}) =
           SignedOn'[o] + SumOver(SignedOn', OrdersOf(t))
    BY <1>4, <1>5, SumAdd
  <1> QED  BY <1>3, <1>4, <1>6, BookSums DEF Total

LEMMA TotalFills ==
  ASSUME TypeOK, TypeOK', NEW t, NEW o \in OrdersOf(t), OrdersOf(t)' = OrdersOf(t),
         UNCHANGED exSide, \A p \in Orders \ {o} : exFill'[p] = exFill[p]
  PROVE  Total(t)' = Total(t) - SignedOn[o] + SignedOn'[o]
  <1>1. OrdersOf(t) \in SUBSET Orders /\ Summable(SignedOn, OrdersOf(t))  BY BookSums
  <1>2. o \in Orders  BY <1>1
  <1>3. SignedOn'[o] \in Int  BY <1>2 DEF SignedOn, TypeOK
  <1>4. \A p \in OrdersOf(t) \ {o} : SignedOn'[p] = SignedOn[p]
    BY <1>1 DEF SignedOn
  <1>5. Summable(SignedOn', OrdersOf(t))  BY <1>1, <1>3, <1>4 DEF Summable
  <1>6. Summable(SignedOn, OrdersOf(t) \ {o})  BY <1>1, BookSums
  <1>7. SumOver(SignedOn, OrdersOf(t) \ {o}) = SumOver(SignedOn', OrdersOf(t) \ {o})
    BY <1>4, <1>6, SumCongruence
  <1>8. Total(t) = SignedOn[o] + SumOver(SignedOn, OrdersOf(t) \ {o})
    BY <1>1, SumRemove DEF Total
  <1>9. SumOver(SignedOn', OrdersOf(t)) =
           SignedOn'[o] + SumOver(SignedOn', OrdersOf(t) \ {o})
    BY <1>5, SumRemove
  <1>10. SumOver(SignedOn, OrdersOf(t) \ {o}) \in Int  BY <1>6, SumType
  <1>11. SignedOn[o] \in Int  BY <1>2 DEF SignedOn, TypeOK
  <1> QED  BY <1>3, <1>7, <1>8, <1>9, <1>10, <1>11 DEF Total

\* When the entries are done, rows that are not yet up to date hide only sales.
LEMMA NetAboveTotal ==
  ASSUME TypeOK, RowsExact, NEW t,
         \A o \in OrdersOf(t) : exSide[o] = "buy" => dStat[o] \in NonOpen
  PROVE  /\ Net(t) >= Total(t)
         /\ DoneOf(t) = OrdersOf(t) => Net(t) = Total(t)
         /\ Net(t) = Total(t) => \A o \in OrdersOf(t) \ DoneOf(t) : exFill[o] = 0
  <1> DEFINE D == DoneOf(t)
             R == OrdersOf(t) \ DoneOf(t)
  <1>1. /\ D \in SUBSET Orders /\ R \in SUBSET Orders /\ D \intersect R = {}
        /\ D \union R = OrdersOf(t)
    BY BookSums
  <1>2. Summable(SignedOn, D) /\ Summable(SignedOn, R) /\ Summable(SignedFill, D)
    BY <1>1, BookSums
  <1>3. \A o \in D : SignedFill[o] = SignedOn[o]
    BY <1>1 DEF SignedFill, SignedOn, Signed, DoneOf, RowsExact
  <1>4. Net(t) = SumOver(SignedOn, D)
    BY <1>2, <1>3, SumCongruence DEF Net
  <1>5. Total(t) = SumOver(SignedOn, D) + SumOver(SignedOn, R)
    <2> HIDE DEF D, R
    <2> QED  BY <1>1, <1>2, SumUnion DEF Total
  <1>6. \A o \in R : SignedOn[o] = -exFill[o] /\ exFill[o] \in Nat
    BY <1>1 DEF SignedOn, DoneOf, TypeOK
  <1>7. \A o \in R : SignedOn[o] <= 0  BY <1>6
  <1>8. SumOver(SignedOn, R) <= 0 /\ SumOver(SignedOn, R) \in Int
        /\ SumOver(SignedOn, D) \in Int
    <2> HIDE DEF D, R
    <2> QED  BY <1>2, <1>7, SumNotPositive, SumType
  <1>9. D = OrdersOf(t) => SumOver(SignedOn, R) = 0
    <2>1. D = OrdersOf(t) => R = {}  OBVIOUS
    <2> QED  BY <2>1, SumEmpty
  <1>10. ASSUME SumOver(SignedOn, R) = 0, NEW o \in R PROVE exFill[o] = 0
    <2>1. SumOver(SignedOn, R) = SignedOn[o] + SumOver(SignedOn, R \ {o})
      <3> HIDE DEF R
      <3> QED  BY <1>2, <1>10, SumRemove
    <2>2. Summable(SignedOn, R \ {o})  BY <1>1, BookSums
    <2>3. SumOver(SignedOn, R \ {o}) <= 0 /\ SumOver(SignedOn, R \ {o}) \in Int
      <3>1. \A x \in R \ {o} : SignedOn[x] <= 0  BY <1>7
      <3> HIDE DEF R
      <3> QED  BY <2>2, <3>1, SumNotPositive, SumType
    <2>4. SignedOn[o] = -exFill[o] /\ exFill[o] \in Nat  BY <1>6, <1>10
    <2> HIDE DEF R
    <2> QED  BY <1>10, <2>1, <2>3, <2>4
  <1> HIDE DEF D, R
  <1>11. Net(t) >= Total(t)  BY <1>4, <1>5, <1>8
  <1>12. D = OrdersOf(t) => Net(t) = Total(t)  BY <1>4, <1>5, <1>8, <1>9
  <1>13. Net(t) = Total(t) => \A o \in R : exFill[o] = 0
    BY <1>4, <1>5, <1>8, <1>10
  <1> QED  BY <1>11, <1>12, <1>13 DEF D, R

\* What live exits have locked is at least what each of them still sells.
LEMMA LockedCovers ==
  ASSUME TypeOK, ExchangeOK
  PROVE  /\ Locked \in Nat
         /\ \A o \in Orders : exStat[o] = "open" /\ exSide[o] = "sell" =>
               exAmt[o] - exFill[o] <= Locked
  <1> DEFINE S == {o \in Orders : exStat[o] = "open" /\ exSide[o] = "sell"}
             left == [o \in Orders |-> exAmt[o] - exFill[o]]
             Eq(g) == g = [T \in SUBSET S |->
               IF T = {} THEN 0
               ELSE LET x == CHOOSE x \in T : TRUE
                    IN (exAmt[x] - exFill[x]) + g[T \ {x}]]
  <1>1. S \in SUBSET Orders  OBVIOUS
  <1>2. \A o \in S : left[o] \in Nat  BY DEF TypeOK, ExchangeOK
  <1>3. \A g : Eq(g) <=> Adds(g, left, S)
    <2>1. \A T \in SUBSET S : T # {} => (CHOOSE x \in T : TRUE) \in Orders
      OBVIOUS
    <2>2. ASSUME NEW g
          PROVE  [T \in SUBSET S |-> IF T = {} THEN 0
                    ELSE LET x == CHOOSE x \in T : TRUE
                         IN (exAmt[x] - exFill[x]) + g[T \ {x}]] =
                 [T \in SUBSET S |-> IF T = {} THEN 0
                    ELSE left[Pick(T)] + g[T \ {Pick(T)}]]
      BY <2>1 DEF Pick
    <2> HIDE DEF left
    <2> QED  BY <2>2 DEF Adds
  <1>4. Summable(left, S) /\ SumOver(left, S) \in Nat
        /\ \A o \in S : left[o] <= SumOver(left, S)
    <2> HIDE DEF left, S
    <2> QED  BY <1>1, <1>2, OrdersFinite, SumNat
  <1>5. \E g : Eq(g)
    <2> HIDE DEF Eq, left, S
    <2> QED  BY <1>3, <1>4, SumExists
  <1>6. Adds(CHOOSE g : Eq(g), left, S)
    <2> HIDE DEF Adds, left
    <2> QED  BY <1>3, <1>5
  <1>7. Locked = (CHOOSE g : Eq(g))[S]
    BY DEF Locked, MapThenSumSet, MapThenFoldSet
  <1>8. Locked = SumOver(left, S)
    <2> HIDE DEF Eq, left, S
    <2> QED  BY <1>4, <1>6, <1>7, SumIs
  <1> QED  BY <1>4, <1>8

\* One process that keeps running, without replacements and adjustments, with an
\* exchange that knows its orders, whose replies arrive and that rejects what it
\* does not take (rather than answer "canceled"); no other coins in the account.
Plain ==
    /\ MaxCrashes = 0 /\ MaxLost = 0 /\ OtherCoins = 0
    /\ ~Adjusting /\ ~Replacing /\ ~Forgetful /\ "canceled" \notin CreateStats

Known == EInv /\ ZInv /\ OneInvolved

LEMMA StepKnown ==
  ASSUME Plain, Known, [Next]_vars
  PROVE  Known' /\ Leaves /\ EntriesStay /\ Exact
  <1> USE DEF Plain, Known
  <1>1. EInv' /\ Leaves /\ EntriesStay  BY StepEmpty
  <1>2. ZInv'  BY StepZ
  <1>3. OneInvolved'  BY StepInvolves DEF NoneJoins, OnlyOne, OneInvolved, ZInv
  <1>4. Exact  BY StepExact DEF EInv
  <1> QED  BY <1>1, <1>2, <1>3, <1>4

\* The exchange numbers its orders.  Only the last can still fill; if it is an
\* exit, it was for all the coins there were, and if it is an entry, there were
\* none before.
IsLast(o) == o \in Created /\ \A p \in Created : p <= o
Sequenced ==
    /\ \A o \in Created : \A p \in Orders : p <= o => p \in Created
    /\ bal >= 0
    /\ \A o \in Orders : IsLast(o) =>
          bal = IF exSide[o] = "buy" THEN exFill[o] ELSE exAmt[o] - exFill[o]
    /\ \A o \in Orders : exStat[o] = "open" => IsLast(o)
    /\ pc = "cancel" /\ resp.stat = "open" => IsLast(cur)
    /\ pc = "record" => IsLast(cur)

\* The rows that are read again are open, so that nothing is booked twice.
OpenRows ==
    /\ todo # {} => phase = "manage" /\ ~Preparing /\ pc # "signal"
    /\ \A o \in todo : owner[o] \in Trades => dStat[o] = "open"
    /\ InHand => cur \notin todo /\ (Preparing => cur \notin clr)
    /\ Preparing => \A o \in clr : dStat[o] = "open"
    /\ pc = "cancel" => dStat[cur] = "open" \/ (resp.stat \in NonOpen /\ resp.fill = 0)
    /\ pc = "cancel" /\ resp.stat = "open" => todo = {}

\* An exit is for all the coins there are, an entry for when there is no trade.
Selling == Exits /\ pc # "record" =>
    \/ plan.amt >= bal
    \/ plan.amt = 0 /\ (pc = "safe" \/ (pc = "book" /\ ret = "safe"))
Planned ==
    /\ pc = "signal" => plan.amt = 0
    /\ Preparing /\ plan.side = "buy" => OpenTrades = {} /\ trd[plan.trade] = "none"
    /\ pc = "record" /\ plan.side = "sell" => plan.trade \in OpenTrades
Control == OpenRows /\ Selling /\ Planned /\ ~Recovering

\* A trade has one entry, and orders only as long as it exists.
OneEntry ==
    /\ \A o, p \in Orders : owner[o] \in Trades /\ owner[p] = owner[o]
                           /\ exSide[o] = "buy" /\ exSide[p] = "buy" => o = p
    /\ \A t \in Trades : trd[t] \in {"none", "deleted"} => OrdersOf(t) = {}
Owned == \A o \in Orders : exStat[o] = "open" =>
    (pc = "record" /\ o = cur) \/ owner[o] \in OpenTrades

\* The account holds what the open trade bought and has not sold, and its amount
\* is what the done rows say, except for the order that is about to be booked.
Balanced ==
    /\ OpenTrades = {} /\ pc # "record" => bal = 0
    /\ \A t \in OpenTrades : bal = Total(t) + (IF pc = "record" THEN SignedOn[cur] ELSE 0)
Booked ==
    /\ \A t \in OpenTrades :
          IF pc = "book" /\ owner[cur] = t
          THEN IF exSide[cur] = "buy" THEN Net(t) > 0 ELSE amount[t] = Net(t) + dFill[cur]
          ELSE amount[t] = Net(t)
    /\ pc = "book" => owner[cur] \in OpenTrades
Closed == \A t \in Trades : trd[t] = "closed" =>
    /\ Net(t) = 0
    /\ \A o \in OrdersOf(t) : dStat[o] \notin NonOpen => exFill[o] = 0
Books == OneEntry /\ Owned /\ Balanced /\ Booked /\ Closed

BInv == Known /\ Sequenced /\ Control /\ Books

-----------------------------------------------------------------------------
(* What the invariant says of a new order and of an exit.                  *)

\* Every entry of a trade that has bought something is done.
LEMMA EntriesDone ==
  ASSUME OneEntry, NEW t \in Trades, HasEntry(t)
  PROVE  \A o \in OrdersOf(t) : exSide[o] = "buy" => dStat[o] \in NonOpen
  BY DEF OneEntry, HasEntry, FilledEntries, OrdersOf

\* Only one trade is open, and it is the one that is planned for.
LEMMA OnlyPlanned ==
  ASSUME Known, plan.trade \in Trades, NEW t \in OpenTrades
  PROVE  t = plan.trade
  BY DEF Known, OneInvolved, Involved, OpenTrades

LEMMA OnlyOpen ==
  ASSUME Known, NEW t \in OpenTrades, NEW u \in OpenTrades
  PROVE  t = u
  BY DEF Known, OneInvolved, Involved, OpenTrades

\* An order can only be placed when no other can fill, with all the coins.
LEMMA NewOrderAlone ==
  ASSUME BInv, Placing, CanPay, plan.amt > 0
  PROVE  /\ \A o \in Orders : exStat[o] # "open"
         /\ plan.side = "buy" => bal = 0 /\ OpenTrades = {}
         /\ plan.side = "sell" => bal = plan.amt /\ plan.trade \in OpenTrades
  <1> USE DEF BInv, Known, EInv, KInv, IInv, Placing
  <1>1. TypeOK /\ Preparing  BY DEF Preparing
  <1>2. CASE plan.side = "buy"
    <2>1. OpenTrades = {}  BY <1>1, <1>2 DEF Control, Planned
    <2> QED  BY <1>2, <2>1 DEF Books, Balanced, Owned
  <1>3. CASE plan.side = "sell"
    <2>1. Locked \in Nat /\ plan.amt <= bal - Locked  BY <1>3, LockedCovers DEF CanPay
    <2>2. plan.trade \in Trades /\ HasEntry(plan.trade) /\ plan.amt >= bal
      BY <1>3 DEF EntriesFirst, Exits, Control, Selling
    <2>3. bal \in Int /\ plan.amt \in Nat  BY <1>1 DEF TypeOK, Plan
    <2>4. Locked = 0 /\ plan.amt = bal  BY <2>1, <2>2, <2>3
    <2>5. plan.trade \in OpenTrades
      <3>1. OpenTrades # {}  BY <2>3, <2>4 DEF Books, Balanced
      <3> QED  BY <2>2, <3>1, OnlyPlanned
    <2>6. ASSUME NEW o \in Orders, exStat[o] = "open" PROVE FALSE
      <3>1. exFill[o] < exAmt[o] /\ exFill[o] \in Nat /\ exAmt[o] \in Nat
        BY <1>1, <2>6 DEF ExchangeOK, TypeOK
      <3>2. exSide[o] = "buy"  BY <1>1, <2>4, <2>6, <3>1, LockedCovers DEF TypeOK
      <3>3. owner[o] = plan.trade
        BY <2>2, <2>6, OnlyPlanned DEF Books, Owned
      <3>4. dStat[o] \in NonOpen
        BY <2>2, <3>2, <3>3, EntriesDone DEF Books, OrdersOf
      <3> QED  BY <2>6, <3>4 DEF RowsExact, NonOpen
    <2> QED  BY <1>3, <2>4, <2>5, <2>6
  <1> QED  BY <1>1, <1>2, <1>3 DEF TypeOK, Plan

\* What an open trade that has bought something holds is no less than what the
\* account holds, and all of it when its rows are up to date.
LEMMA AmountCovers ==
  ASSUME BInv, pc \notin {"record", "book"}, NEW t \in OpenTrades, HasEntry(t)
  PROVE  /\ amount[t] >= bal
         /\ OpenOrders(t) = {} => amount[t] = bal
  <1> USE DEF BInv, Known, EInv, KInv, IInv
  <1>1. t \in Trades  BY DEF OpenTrades
  <1>2. bal = Total(t) /\ amount[t] = Net(t) /\ Total(t) \in Int /\ Net(t) \in Int
    BY BookSums DEF Books, Balanced, Booked, TypeOK
  <1>3. \A o \in OrdersOf(t) : exSide[o] = "buy" => dStat[o] \in NonOpen
    BY <1>1, EntriesDone DEF Books
  <1>4. OpenOrders(t) = {} => DoneOf(t) = OrdersOf(t)
    BY <1>1 DEF OpenOrders, OrdersOf, DoneOf, RowsComplete, TypeOK, Statuses
  <1> QED  BY <1>2, <1>3, <1>4, NetAboveTotal

-----------------------------------------------------------------------------
(* The exchange's side.                                                    *)

\* A step that at most cancels orders.
LEMMA SequencedKept ==
  ASSUME Sequenced, UNCHANGED <<exSide, exAmt, exFill, bal>>,
         \/ exStat' = exStat
         \/ \E o \in Orders :
               exStat' = [exStat EXCEPT ![o] = IF @ = "open" THEN "canceled" ELSE @],
         TypeOK,
         pc' = "cancel" /\ resp'.stat = "open" =>
             (pc = "cancel" /\ resp.stat = "open" /\ cur' = cur) \/ IsLast(cur'),
         pc' = "record" => pc = "record" /\ cur' = cur
  PROVE  Sequenced'
  <1>1. /\ Created' = Created
        /\ \A o \in Orders : exStat'[o] = "open" => exStat[o] = "open"
    BY DEF TypeOK, Created
  <1> QED  BY <1>1 DEF Sequenced, IsLast

LEMMA CancellingSequenced ==
  ASSUME IInv, Sequenced, NEW c, NEW acted \in BOOLEAN, Cancelling(c, acted)
  PROVE  Sequenced'
  <1>1. cur \in Orders /\ pc' \notin {"cancel", "record"}
    BY CancellingStep DEF AfterCancels
  <1> QED  BY <1>1, SequencedKept DEF Cancelling, IInv

LEMMA StepSequenced ==
  ASSUME Plain, BInv, [Next]_vars
  PROVE  Sequenced'
  <1> USE DEF BInv, Known, EInv, KInv, IInv, TypeOK
  <1>1. ASSUME NEW o \in Orders, ExchangeFill(o) PROVE Sequenced'
    <2>1. IsLast(o) /\ exFill[o] < exAmt[o]
      BY <1>1 DEF ExchangeFill, Sequenced, ExchangeOK
    <2>2. Created' = Created /\ UNCHANGED control
      BY <1>1 DEF ExchangeFill, Created
    <2>3. bal' >= 0
      BY <1>1, <2>1 DEF ExchangeFill, Sequenced
    <2>4. ASSUME NEW p \in Orders, IsLast(p)
          PROVE  p = o
      BY <2>1, <2>4 DEF IsLast, Created, Orders
    <2>5. bal' = IF exSide[o] = "buy" THEN exFill'[o] ELSE exAmt[o] - exFill'[o]
      BY <1>1, <2>1 DEF ExchangeFill, Sequenced
    <2>6. \A p \in Orders : exStat'[p] = "open" => exStat[p] = "open"
      BY <1>1 DEF ExchangeFill
    <2>7. exSide' = exSide /\ exAmt' = exAmt  BY <1>1 DEF ExchangeFill
    <2> QED
      BY <2>2, <2>3, <2>4, <2>5, <2>6, <2>7 DEF Sequenced, IsLast, control
  <1>2. ASSUME NEW o \in Orders, ExchangeCancel(o) PROVE Sequenced'
    BY <1>2, SequencedKept DEF ExchangeCancel, control
  <1>3. CASE Start  BY <1>3, SequencedKept DEF Start, rows, exch
  <1>4. ASSUME NEW o \in Orders, SyncOrder(o) PROVE Sequenced'
    BY <1>4, SequencedKept DEF SyncOrder, SyncNext, UpdateTradeState, UpdateOrder, exch
  <1>5. ASSUME NEW o \in Orders, SyncForgotten(o) PROVE Sequenced'
    BY <1>5 DEF SyncForgotten, Plain
  <1>6. ASSUME NEW o \in Orders, SyncUnreachable(o) PROVE Sequenced'
    BY <1>6, SequencedKept DEF SyncUnreachable, SyncNext, rows, exch
  <1>7. CASE SyncDone  BY <1>7, SequencedKept DEF SyncDone, GoTo, Failed, rows, exch
  <1>8. CASE AssignFees
    BY <1>8, SequencedKept DEF AssignFees, UpdateTradeState, UpdateOrder, exch
  <1>9. CASE NoFeesAssigned  BY <1>9, SequencedKept DEF NoFeesAssigned, GoTo, rows, exch
  <1>10. CASE BookOrder  BY <1>10, SequencedKept DEF BookOrder, exch
  <1>11. ASSUME NEW o \in Orders, ManageOrder(o) PROVE Sequenced'
    <2>1. /\ UNCHANGED exch /\ resp' = Snapshot(o) /\ cur' = o /\ pc' # "record"
      BY <1>11 DEF ManageOrder, UpdateTradeState
    <2>2. resp'.stat = "open" => exStat[o] = "open"  BY <2>1 DEF Snapshot
    <2> QED  BY <2>1, <2>2, SequencedKept DEF exch, Sequenced
  <1>12. ASSUME NEW o \in Orders, ManageUnreachable(o) PROVE Sequenced'
    BY <1>12, SequencedKept DEF ManageUnreachable, Managing, rows, exch
  <1>13. CASE ManageDone  BY <1>13, SequencedKept DEF ManageDone, Managing, GoTo, rows, exch
  <1>14. CASE Resume  BY <1>14, SequencedKept DEF Resume, GoTo, rows, exch, NoPlan, NextPhase
  <1>15. CASE CancelKept
    BY <1>15, SequencedKept DEF CancelKept, rows, exch, AfterCancel, AfterCancel
  <1>16. CASE CancelKnown  BY <1>16, CancelKnownCase, CancellingSequenced
  <1>17. CASE CancelAcked  BY <1>17, CancelAckedCase, CancellingSequenced
  <1>18. CASE CancelPending
    <2>1. CASE exSide[cur] = "buy"
      <3>1. pc' \notin {"cancel", "record"}
        BY <1>18, <2>1 DEF CancelPending, AfterCancel
      <3> QED  BY <1>18, <2>1, <3>1, SequencedKept DEF CancelPending, exch
    <2>2. CASE exSide[cur] # "buy"
      BY <1>18, <2>2, CancelPendingCase, CancellingSequenced
    <2> QED  BY <2>1, <2>2
  <1>19. CASE CancelForgotten  BY <1>19, CancelForgottenCase, CancellingSequenced
  <1>20. CASE CancelRaised  BY <1>20, SequencedKept DEF CancelRaised, Abandon, Failed
  <1>21. CASE ReplaceOrderFailed
    BY <1>21, SequencedKept DEF ReplaceOrderFailed, DeleteTrade, rows, exch
  <1>22. CASE SafeExit  BY <1>22, SequencedKept DEF SafeExit, Failed, rows, exch, Plan
  <1>23. CASE HandleSimilarOpenOrder
    BY <1>23, SequencedKept DEF HandleSimilarOpenOrder, Failed, rows, exch
  <1>24. ASSUME NEW o \in Orders, ClearOrder(o) PROVE Sequenced'
    <2>1. /\ UNCHANGED exch /\ resp' = Snapshot(o) /\ cur' = o /\ pc' # "record"
      BY <1>24 DEF ClearOrder
    <2>2. resp'.stat = "open" => exStat[o] = "open"  BY <2>1 DEF Snapshot
    <2> QED  BY <2>1, <2>2, SequencedKept DEF exch, Sequenced
  <1>25. ASSUME NEW o \in Orders, ClearUnreachable(o) PROVE Sequenced'
    BY <1>25, SequencedKept DEF ClearUnreachable, rows, exch
  <1>26. ASSUME NEW o \in Orders, CreateOrder(o) PROVE Sequenced'
    <2>1. Placing /\ CanPay /\ plan.amt > 0  BY <1>26 DEF CreateOrder, PlaceOnExchange
    <2>2. PICK f \in 0..plan.amt :
             /\ exFill' = [exFill EXCEPT ![o] = f]
             /\ bal' = IF plan.side = "buy" THEN bal + f ELSE bal - f
      BY <1>26 DEF CreateOrder, PlaceOnExchange
    <2>3. /\ exSide' = [exSide EXCEPT ![o] = plan.side]
          /\ exAmt' = [exAmt EXCEPT ![o] = plan.amt]
          /\ pc' = "record" /\ cur' = o /\ First(o, Orders \ Created)
      BY <1>26 DEF CreateOrder, PlaceOnExchange
    <2>4. Created' = Created \union {o} /\ \A p \in Orders \ {o} : exStat'[p] = exStat[p]
          <3>1. PICK st \in CreateStats : exStat' = [exStat EXCEPT ![o] = st]
        BY <1>26 DEF CreateOrder, PlaceOnExchange
      <3>2. st # "none"  BY ConfigAssumption, ConstantFacts
      <3> QED  BY <3>1, <3>2 DEF Created
    <2>5. \A p \in Created : p < o
      <3> SUFFICES ASSUME NEW p \in Created, ~ (p < o) PROVE FALSE
        OBVIOUS
      <3>1. o <= p /\ o \in Orders \ Created  BY <2>3 DEF First, Created, Orders
      <3> QED  BY <3>1 DEF Sequenced
    <2>6. \A p \in Orders : p < o => p \in Created
      BY <2>3 DEF First, Orders
    <2>7. /\ \A p \in Orders : exStat[p] # "open"
          /\ plan.side = "buy" => bal = 0
          /\ plan.side = "sell" => bal = plan.amt
      BY <2>1, NewOrderAlone
    <2>8. \A p \in Orders : IsLast(p)' <=> p = o
      BY <2>4, <2>5 DEF IsLast, Created, Orders
    <2>9. bal' = (IF exSide'[o] = "buy" THEN exFill'[o] ELSE exAmt'[o] - exFill'[o])
          /\ bal' >= 0
      BY <2>2, <2>3, <2>7 DEF Plan
    <2>10. \A q \in Created' : \A p \in Orders : p <= q => p \in Created'
      BY <2>4, <2>5, <2>6 DEF Orders, Created
    <2>11. \A p \in Orders : exStat'[p] = "open" => p = o  BY <2>4, <2>7
    <2> QED
      BY <2>3, <2>8, <2>9, <2>10, <2>11 DEF Sequenced
  <1>27. ASSUME NEW o \in Orders, CreateReplyLost(o) PROVE Sequenced'
    BY <1>27 DEF CreateReplyLost, Plain
  <1>28. CASE CreateRejected
    BY <1>28, SequencedKept DEF CreateRejected, Placing, Failed, rows, exch
  <1>29. CASE CreateUnpaid  BY <1>29, SequencedKept DEF CreateUnpaid, Placing, rows, exch
  <1>30. CASE RecordNothing  BY <1>30, SequencedKept DEF RecordNothing, Failed, rows, exch
  <1>31. CASE RecordEntry
    <2>1. UNCHANGED exch /\ UNCHANGED resp /\ pc' # "record"
          /\ (pc' = "cancel" => resp.stat \in NonOpen)
      BY <1>31 DEF RecordEntry
    <2> QED  BY <2>1, SequencedKept, ConstantFacts DEF exch
  <1>32. CASE RecordExit  BY <1>32, SequencedKept DEF RecordExit, RecordRow, UpdateOrder, exch
  <1>33. CASE ExitTrade  BY <1>33, SequencedKept DEF ExitTrade, Exiting, rows, exch
  <1>34. ASSUME NEW o \in Orders, RecoverOrder(o) PROVE Sequenced'
    BY <1>34, SequencedKept DEF RecoverOrder, UpdateTradeState, UpdateOrder, exch
  <1>35. CASE RecoverDone  BY <1>35, SequencedKept DEF RecoverDone, DeleteTrade, rows, exch
  <1>36. CASE ExitSignal  BY <1>36, SequencedKept DEF ExitSignal, rows, exch
  <1>37. CASE ExitsDone  BY <1>37, SequencedKept DEF ExitsDone, GoTo, Exiting, rows, exch
  <1>38. CASE AdjustPosition  BY <1>38 DEF AdjustPosition, Plain
  <1>39. CASE NoAdjustment  BY <1>39, SequencedKept DEF NoAdjustment, GoTo, rows, exch
  <1>40. CASE EnterPosition  BY <1>40, SequencedKept DEF EnterPosition, rows, exch
  <1>41. CASE NoEntry  BY <1>41, SequencedKept DEF NoEntry, GoTo, rows, exch
  <1>42. CASE Crash  BY <1>42 DEF Crash, Plain
  <1>43. CASE UNCHANGED vars  BY <1>43, SequencedKept DEF vars, exch, rows, control
  <1> QED
    BY <1>1, <1>2, <1>3, <1>4, <1>5, <1>6, <1>7, <1>8, <1>9, <1>10, <1>11, <1>12, <1>13,
       <1>14, <1>15, <1>16, <1>17, <1>18, <1>19, <1>20, <1>21, <1>22, <1>23, <1>24, <1>25,
       <1>26, <1>27, <1>28, <1>29, <1>30, <1>31, <1>32, <1>33, <1>34, <1>35, <1>36, <1>37,
       <1>38, <1>39, <1>40, <1>41, <1>42, <1>43
    DEF Next, Bot, Exchange, Startup, Manage, Place, Loops, Handlers

-----------------------------------------------------------------------------
(* The bot's side.                                                         *)

\* An order to buy is placed at once, with nothing to clear before it.
LEMMA BuysAtOnce ==
  ASSUME Known, Preparing, plan.side = "buy"
  PROVE  pc \in {"clear", "record"}
  BY DEF Known, EInv, ZInv, Prepared, NeverReplaces

\* While an exit is prepared no entry can fill.
LEMMA ExitsAlone ==
  ASSUME BInv, Exits, pc # "record", NEW o \in Orders, exStat[o] = "open"
  PROVE  exSide[o] # "buy"
  <1> USE DEF BInv, Known, EInv, KInv
  <1>1. plan.trade \in Trades /\ HasEntry(plan.trade)  BY DEF EntriesFirst
  <1>2. owner[o] = plan.trade  BY <1>1, OnlyPlanned DEF Books, Owned
  <1>3. exSide[o] = "buy" => dStat[o] \in NonOpen
    BY <1>1, <1>2, EntriesDone DEF Books, OrdersOf
  <1> QED  BY <1>3 DEF RowsExact, NonOpen

\* A step after which no order is being placed.
LEMMA IdleNext ==
  ASSUME ~Preparing', pc' # "signal", ~Recovering', OpenRows'
  PROVE  Control'
  BY DEF Control, Selling, Planned, Exits, Preparing

LEMMA RestControl ==
  ASSUME Control, ~Preparing', pc' # "signal", ~Recovering', UNCHANGED <<owner, dStat>>,
         todo' \subseteq todo, todo' = {} \/ phase' = phase,
         pc' \notin {"cancel", "record", "book"}
  PROVE  Control'
  <1>1. OpenRows'  BY DEF Control, OpenRows, InHand
  <1> QED  BY <1>1, IdleNext

LEMMA NoLoopControl ==
  ASSUME todo' = {}, ~Preparing', pc' \notin {"cancel", "signal"}, ~Recovering'
  PROVE  Control'
  <1>1. OpenRows'  BY DEF OpenRows
  <1> QED  BY <1>1, IdleNext

LEMMA GoToControl ==
  ASSUME NEW p, GoTo(p), UNCHANGED <<owner, dStat>>
  PROVE  Control'
  <1>1. pc' = "loop" /\ (todo' # {} => phase' = "manage")
        /\ \A o \in todo' : dStat[o] = "open"
    BY DEF GoTo, OpenOrders, OrdersOf
  <1>2. ~Preparing' /\ ~Recovering'  BY <1>1 DEF Preparing, Recovering
  <1>3. OpenRows'  BY <1>1, <1>2 DEF OpenRows, InHand
  <1> QED  BY <1>1, <1>2, <1>3, IdleNext

\* A step that at most skips orders.
LEMMA ControlQuiet ==
  ASSUME Control, UNCHANGED <<bal, owner, dStat, trd, plan>>,
         todo' \subseteq todo, clr' \subseteq clr,
         UNCHANGED <<pc, phase, cur, resp, job, ret>>
  PROVE  Control'
  <1>1. Preparing' = Preparing /\ Recovering' = Recovering /\ Exits' = Exits /\ InHand' = InHand
    BY DEF Preparing, Recovering, Exits, InHand
  <1>2. OpenRows'  BY <1>1 DEF Control, OpenRows
  <1>3. Planned' /\ Selling'
    BY <1>1 DEF Control, Planned, Selling, OpenTrades
  <1> QED  BY <1>1, <1>2, <1>3 DEF Control

\* What follows a cancel when nothing is to be replaced.
LEMMA AfterPlain ==
  ASSUME Known, pc = "cancel"
  PROVE  /\ job \in {"clear", "timeout"}
         /\ \A r \in BOOLEAN : AfterCancel(r) = IF job = "clear" THEN "clear" ELSE "done"
         /\ \A r \in BOOLEAN : \A c : NextPlan(r, c) = plan
  <1>1. job \in {"clear", "timeout"}
    BY DEF Known, EInv, ZInv, KInv, IInv, TypeOK, NeverReplaces, NothingYet
  <1> QED  BY <1>1 DEF AfterCancel, NextPlan

\* An order that is kept.
LEMMA CancelNothing ==
  ASSUME Known, Control, pc = "cancel", pc' = AfterCancel(FALSE), UNCHANGED rows,
         UNCHANGED <<bal, phase, todo, clr, cur, resp, job, plan, ret>>
  PROVE  Control'
  <1>1. CASE job = "clear"
    <2>1. pc' = "clear" /\ Preparing  BY <1>1, AfterPlain DEF Preparing
    <2>2. OpenRows'  BY <2>1 DEF Control, OpenRows, InHand, rows
    <2>3. Exits' => Exits  BY <1>1, <2>1 DEF Exits
    <2>4. Planned' /\ Selling' /\ ~Recovering'
      BY <2>1, <2>3 DEF Control, Planned, Selling, Recovering, rows, OpenTrades
    <2> QED  BY <2>2, <2>4 DEF Control
  <1>2. CASE job # "clear"
    <2>1. pc' = "done"  BY <1>2, AfterPlain
    <2>2. ~Preparing' /\ ~Recovering'  BY <2>1 DEF Preparing, Recovering
    <2>3. UNCHANGED <<owner, dStat>>  BY DEF rows
    <2> QED  BY <2>1, <2>2, <2>3, RestControl
  <1> QED  BY <1>1, <1>2

\* An order that is cancelled: an emergency exit is for what it had left.
LEMMA CancellingControl ==
  ASSUME BInv, NEW c, NEW acted \in BOOLEAN, Cancelling(c, acted),
         acted => resp.stat = "open" /\ c.fill = exFill[cur],
         EntryCancelled(c) \/ (exSide[cur] = "sell" /\ ExitCancelled(c, acted))
  PROVE  Control'
  <1> USE DEF BInv, Known, EInv, KInv, IInv
  <1>1. /\ pc = "cancel" /\ cur \in Orders /\ cur' = cur
        /\ UNCHANGED <<exSide, bal, phase, todo, clr, resp, job>>
    BY CancellingStep DEF Cancelling, EntryCancelled, ExitCancelled, UpdateTradeState
  <1>2. \A o \in Orders : CancelledRow(o, c)
    BY EntryCancelledRows, ExitCancelledRows DEF Cancelling
  <1> DEFINE emergency == /\ acted /\ job = "timeout" /\ exSide[cur] = "sell"
                          /\ plan' = [trade |-> owner[cur], side |-> "sell",
                                      amt |-> exAmt[cur] - c.fill, mode |-> "exit"]
  <1>3. \/ /\ emergency
           /\ pc' = "safe" \/ (pc' = "book" /\ ret' = "safe")
        \/ /\ plan' = plan
           /\ LET next == IF job = "clear" THEN "clear" ELSE "done"
              IN pc' = next \/ (pc' = "book" /\ ret' = next)
    <2>1. CASE EntryCancelled(c)
      BY <1>1, <2>1, AfterPlain DEF EntryCancelled, UpdateTradeState
    <2>2. CASE ExitCancelled(c, acted) /\ exSide[cur] = "sell"
      BY <1>1, <2>2, AfterPlain DEF ExitCancelled, UpdateTradeState
    <2> QED  BY <2>1, <2>2
  <1>4. \A o \in todo : owner'[o] \in Trades => dStat'[o] = "open"
    BY <1>1, <1>2, ConstantFacts DEF CancelledRow, Control, OpenRows, TypeOK, InHand
  <1>5. ~Recovering'  BY <1>3 DEF Recovering
  <1>6. CASE job = "clear"
    <2>1. Preparing /\ todo = {} /\ cur \notin clr
      BY <1>1, <1>6 DEF Preparing, Control, OpenRows, InHand
    <2>2. pc' = "clear" \/ (pc' = "book" /\ ret' = "clear")  BY <1>3, <1>6
    <2>3. plan' = plan  BY <1>3, <1>6
    <2>4. \A o \in clr : dStat'[o] = "open"
      <3>1. UpdateOrder(cur, c)
        BY <1>6 DEF Cancelling, EntryCancelled, ExitCancelled, UpdateTradeState
      <3> QED  BY <2>1, <3>1 DEF UpdateOrder, Control, OpenRows
    <2>5. OpenRows'  BY <1>1, <2>1, <2>2, <2>4 DEF OpenRows
    <2>6. plan.side = "sell"  BY <1>1, <2>1, BuysAtOnce DEF TypeOK, Plan
    <2>7. Exits  BY <1>1, <1>6, <2>6 DEF Exits
    <2>8. Planned' /\ Selling'
      BY <1>1, <2>2, <2>3, <2>6, <2>7 DEF Planned, Control, Selling
    <2> QED  BY <1>5, <2>5, <2>8 DEF Control
  <1>7. CASE job # "clear" /\ ~ (emergency /\ (pc' = "safe" \/ (pc' = "book" /\ ret' = "safe")))
    <2>1. pc' = "done" \/ (pc' = "book" /\ ret' = "done")  BY <1>3, <1>7
    <2>2. ~Preparing' /\ pc' # "signal"  BY <2>1 DEF Preparing
    <2>3. ~Preparing  BY <1>1, <1>7 DEF Preparing
    <2>4. OpenRows'
      BY <1>1, <1>4, <2>1, <2>2, <2>3 DEF Control, OpenRows, InHand
    <2> QED  BY <1>5, <2>2, <2>4, IdleNext
  <1>8. CASE job # "clear" /\ emergency /\ (pc' = "safe" \/ (pc' = "book" /\ ret' = "safe"))
    <2>1. todo = {} /\ clr = {}
      BY <1>1, <1>8 DEF Control, OpenRows, Prepared, Preparing, ZInv
    <2>2. OpenRows'  BY <1>1, <1>8, <2>1 DEF OpenRows
    <2>3. IsLast(cur)  BY <1>1, <1>8 DEF Sequenced
    <2>4. bal = exAmt[cur] - exFill[cur]  BY <1>1, <1>8, <2>3 DEF Sequenced
    <2>5. plan'.amt = bal' /\ plan'.side = "sell" /\ bal' \in Int
      BY <1>1, <1>8, <2>4 DEF TypeOK
    <2>6. Planned' /\ Selling'  BY <1>8, <2>5 DEF Planned, Selling
    <2> QED  BY <1>5, <2>2, <2>6 DEF Control
  <1> QED  BY <1>6, <1>7, <1>8

LEMMA StepHandlers ==
  ASSUME Plain, BInv, [Next]_vars
  PROVE  Control'
  <1> USE DEF BInv, Known, EInv, KInv, ZInv, IInv, TypeOK
  <1>1. ASSUME NEW o \in Orders, ExchangeFill(o) PROVE Control'
    <2>1. UNCHANGED <<rows, control>> /\ exStat[o] = "open"
          /\ bal' = IF exSide[o] = "buy" THEN bal + 1 ELSE bal - 1
      BY <1>1 DEF ExchangeFill
    <2>2. (OpenRows /\ Planned /\ ~Recovering)'
      BY <2>1 DEF Control, OpenRows, Planned, Recovering, Preparing, InHand, OpenTrades, rows,
         control
    <2>3. ASSUME Exits, pc # "record" PROVE exSide[o] = "sell"
      BY <2>1, <2>3, ExitsAlone DEF TypeOK
    <2>4. Selling'
      <3>1. Exits' = Exits /\ pc' = pc /\ plan' = plan /\ ret' = ret
        BY <2>1 DEF Exits, control
      <3> QED  BY <2>1, <2>3, <3>1 DEF Control, Selling, Plan
    <2> QED  BY <2>2, <2>4 DEF Control
  <1>2. ASSUME NEW o \in Orders, ExchangeCancel(o) PROVE Control'
    BY <1>2, ControlQuiet DEF ExchangeCancel, rows, control, Preparing, Exits
  <1>3. CASE Start
    <2>1. todo' = {}  BY <1>3 DEF Start, NothingYet
    <2> QED  BY <1>3, <2>1, NoLoopControl DEF Start, Preparing, Recovering
  <1>4. ASSUME NEW o \in Orders, SyncOrder(o) PROVE Control'
    <2>1. phase # "startup"  BY <1>4 DEF SyncOrder, SyncNext, First, NothingYet
    <2>2. /\ Preparing /\ todo = {} /\ todo' = {} /\ clr' = clr \ {o}
          /\ plan' = plan /\ cur' = o /\ UNCHANGED <<owner, trd>>
          /\ \A p \in Orders \ {o} : dStat'[p] = dStat[p]
          /\ pc' = "sync" \/ (pc' = "book" /\ ret' = "sync")
      BY <1>4, <2>1 DEF SyncOrder, SyncNext, UpdateTradeState, UpdateOrder, Preparing, Control,
         OpenRows
    <2>3. pc = "sync"  BY <1>4 DEF SyncOrder, SyncNext
    <2>4. plan.side = "sell"  BY <2>2, <2>3, BuysAtOnce DEF Plan
    <2>5. OpenRows'  BY <2>2 DEF Control, OpenRows
    <2>6. Planned' /\ Selling' /\ ~Recovering'
      BY <2>2, <2>4 DEF Planned, Selling, Exits, Recovering
    <2> QED  BY <2>5, <2>6 DEF Control
  <1>5. ASSUME NEW o \in Orders, SyncForgotten(o) PROVE Control'
    BY <1>5 DEF SyncForgotten, Plain
  <1>6. ASSUME NEW o \in Orders, SyncUnreachable(o) PROVE Control'
    BY <1>6, ControlQuiet DEF SyncUnreachable, SyncNext, exch, rows, Preparing, Exits
  <1>7. CASE SyncDone
    <2>1. CASE phase = "startup"  BY <1>7, <2>1, GoToControl DEF SyncDone, rows
    <2>2. CASE phase # "startup"
      <3>1. pc' = "done"  BY <1>7, <2>2 DEF SyncDone, Failed, NeverReplaces
      <3> QED
        BY <1>7, <2>2, <3>1, RestControl DEF SyncDone, rows, Preparing, Recovering
    <2> QED  BY <2>1, <2>2
  <1>8. CASE AssignFees
    <2>1. todo' = {} /\ (pc' = "done" \/ (pc' = "book" /\ ret' = "done"))
      BY <1>8 DEF AssignFees, UpdateTradeState, Control, OpenRows
    <2> QED  BY <2>1, NoLoopControl DEF Preparing, Recovering
  <1>9. CASE NoFeesAssigned  BY <1>9, GoToControl DEF NoFeesAssigned, rows
  <1>10. CASE BookOrder
    <2>1. /\ pc = "book" /\ pc' = ret
          /\ UNCHANGED <<bal, owner, dStat, phase, todo, clr, plan, ret>>
      BY <1>10 DEF BookOrder, exch
    <2>2. ret \notin {"cancel", "record", "book", "signal", "recover"}
      BY <2>1 DEF TypeOK, Control, Recovering
    <2>3. CASE ~Preparing'
      BY <2>1, <2>2, <2>3, RestControl DEF Recovering
    <2>4. CASE Preparing'
      <3>1. Preparing /\ ret # "similar"
        BY <2>1, <2>2, <2>4 DEF Preparing, NeverReplaces
      <3>2. plan.side = "sell"  BY <2>1, <3>1, BuysAtOnce DEF Plan
      <3>3. OpenRows'
        BY <2>1, <2>2, <3>1 DEF Control, OpenRows, InHand
      <3>4. Planned' /\ ~Recovering'
        BY <2>1, <2>2, <3>2 DEF Planned, Recovering
      <3>5. Selling'
        <4>1. Exits' => ret \in {"clear", "safe"}
          BY <2>1, <2>2, <3>1 DEF Exits
        <4>2. Exits' => Exits  BY <2>1, <3>2, <4>1 DEF Exits
        <4> QED  BY <2>1, <2>2, <4>1, <4>2 DEF Control, Selling
      <3> QED  BY <3>3, <3>4, <3>5 DEF Control
    <2> QED  BY <2>3, <2>4
  <1>11. ASSUME NEW o \in Orders, ManageOrder(o) PROVE Control'
    <2>1. /\ pc = "loop" /\ phase = "manage" /\ UNCHANGED <<owner, phase, clr>>
          /\ First(o, todo) /\ todo' = todo \ {o} /\ cur' = o /\ resp' = Snapshot(o)
          /\ dStat' = [dStat EXCEPT ![o] = exStat[o]]
          /\ \/ pc' = "done"
             \/ pc' = "cancel" /\ job' = "timeout" /\ (exStat[o] = "open" \/ exFill[o] = 0)
             \/ pc' = "book" /\ ret' = "done"
      BY <1>11 DEF ManageOrder, Managing, UpdateTradeState, UpdateOrder, Snapshot, Plain
    <2>2. ~Preparing' /\ pc' # "signal" /\ ~Recovering'
      BY <2>1 DEF Preparing, Recovering
    <2>3. resp'.stat = exStat[o] /\ resp'.fill = exFill[o]  BY <2>1 DEF Snapshot
    <2>4. ASSUME pc' = "cancel"
          PROVE  dStat'[o] = "open" \/ (resp'.stat \in NonOpen /\ resp'.fill = 0)
      <3>1. o \in todo  BY <2>1 DEF First
      <3>2. exStat[o] \in Statuses  BY <3>1 DEF RowsExist
      <3> QED  BY <2>1, <2>3, <2>4, <3>2 DEF Statuses
    <2>5. ASSUME exStat[o] = "open" PROVE todo' = {}
      <3>1. IsLast(o) /\ todo \subseteq Created
        BY <2>5 DEF Sequenced, Created, RowsExist
      <3>2. ASSUME NEW p \in todo PROVE p = o
        <4>1. p <= o /\ o <= p  BY <2>1, <3>1, <3>2 DEF IsLast, First
        <4> QED  BY <3>2, <4>1 DEF Orders
      <3> QED  BY <2>1, <3>2
    <2>6. \A p \in todo' : owner'[p] \in Trades => dStat'[p] = "open"
      BY <2>1 DEF Control, OpenRows
    <2>7. OpenRows'
      BY <2>1, <2>2, <2>3, <2>4, <2>5, <2>6 DEF OpenRows
    <2> QED  BY <2>2, <2>7, IdleNext
  <1>12. ASSUME NEW o \in Orders, ManageUnreachable(o) PROVE Control'
    BY <1>12, RestControl DEF ManageUnreachable, Managing, rows, Preparing, Recovering
  <1>13. CASE ManageDone  BY <1>13, GoToControl DEF ManageDone, rows
  <1>14. CASE Resume
    <2>1. CASE phase = "manage"
      BY <1>14, <2>1, RestControl DEF Resume, rows, Preparing, Recovering
    <2>2. CASE phase # "manage"
      BY <1>14, <2>2, GoToControl DEF Resume, rows
    <2> QED  BY <2>1, <2>2
  <1>15. CASE CancelKept  BY <1>15, CancelNothing DEF CancelKept, exch
  <1>16. CASE CancelKnown
    <2>1. PICK acted \in BOOLEAN : Cancelling(resp, acted)  BY <1>16, CancelKnownCase
    <2>2. resp.stat \in NonOpen  BY <1>16 DEF CancelKnown
    <2>3. EntryCancelled(resp) \/ ExitCancelled(resp, FALSE)  BY <1>16 DEF CancelKnown
    <2>4. Cancelling(resp, FALSE)  BY <2>1, <2>3 DEF Cancelling
    <2>5. exSide[cur] = "buy" \/ exSide[cur] = "sell"
      BY <1>16 DEF CancelKnown, ReplyLags, InHand
    <2> QED  BY <1>16, <2>4, <2>5, CancellingControl DEF CancelKnown
  <1>17. CASE CancelAcked
    <2>1. Cancelling(Answer, TRUE)  BY <1>17, CancelAckedCase
    <2>2. resp.stat = "open" /\ Answer.fill = exFill[cur]  BY <1>17 DEF CancelAcked, Answer
    <2>3. exSide[cur] = "buy" \/ exSide[cur] = "sell"
      BY <1>17 DEF CancelAcked, ReplyLags, InHand
    <2>4. EntryCancelled(Answer) \/ (exSide[cur] = "sell" /\ ExitCancelled(Answer, TRUE))
      BY <1>17, <2>3 DEF CancelAcked, Answer
    <2> QED  BY <2>1, <2>2, <2>4, CancellingControl
  <1>18. CASE CancelPending
    <2>1. CASE exSide[cur] = "buy"
      BY <1>18, <2>1, CancelNothing DEF CancelPending, exch
    <2>2. CASE exSide[cur] # "buy"
      <3>1. Cancelling(Snapshot(cur), TRUE)  BY <1>18, <2>2, CancelPendingCase
      <3>2. resp.stat = "open" /\ Snapshot(cur).fill = exFill[cur]
        BY <1>18 DEF CancelPending, Snapshot
      <3>3. exSide[cur] = "sell"  BY <1>18, <2>2 DEF CancelPending, ReplyLags, InHand
      <3>4. ExitCancelled(Snapshot(cur), TRUE)  BY <1>18, <2>2 DEF CancelPending
      <3> QED  BY <3>1, <3>2, <3>3, <3>4, CancellingControl
    <2> QED  BY <2>1, <2>2
  <1>19. CASE CancelForgotten  BY <1>19 DEF CancelForgotten, Plain
  <1>20. CASE CancelRaised
    <2>1. CASE job = "clear"
      <3>1. pc' = "done"  BY <1>20, <2>1 DEF CancelRaised, Failed, NeverReplaces
      <3> QED
        BY <1>20, <2>1, <3>1, RestControl DEF CancelRaised, rows, Preparing, Recovering
    <2>2. CASE job # "clear"
      BY <1>20, <2>2, NoLoopControl DEF CancelRaised, Abandon, Preparing, Recovering
    <2> QED  BY <2>1, <2>2
  <1>21. CASE ReplaceOrderFailed  BY <1>21 DEF ReplaceOrderFailed, NeverReplaces
  <1>22. CASE SafeExit
    <2>1. pc = "safe" /\ Preparing /\ UNCHANGED <<bal, owner, dStat, phase, todo, clr, ret>>
      BY <1>22 DEF SafeExit, Preparing, exch, rows
    <2>2. plan.side = "sell"  BY <2>1, BuysAtOnce DEF Plan
    <2>3. CASE pc' = Failed
      <3>1. pc' = "done"  BY <2>3 DEF Failed, NeverReplaces
      <3> QED  BY <2>1, <3>1, RestControl DEF Preparing, Recovering
    <2>4. CASE pc' # Failed
      <3> DEFINE a == IF plan.amt = 0 THEN amount[plan.trade] ELSE plan.amt
      <3>1. pc' = "similar" /\ plan' = [plan EXCEPT !.amt = a]
        BY <1>22, <2>4 DEF SafeExit
      <3>2. OpenRows'  BY <2>1, <3>1 DEF Control, OpenRows, Preparing, InHand
      <3>3. Planned' /\ ~Recovering'  BY <2>2, <3>1 DEF Planned, Recovering, Plan
      <3>4. Exits  BY <2>1, <2>2 DEF Exits
      <3>5. a >= bal
        <4>1. CASE plan.amt # 0
          BY <2>1, <3>4, <4>1 DEF Control, Selling
        <4>2. CASE plan.amt = 0
          <5>1. plan.trade \in Trades /\ HasEntry(plan.trade)  BY <3>4 DEF EntriesFirst
          <5>2. CASE plan.trade \in OpenTrades
            BY <2>1, <4>2, <5>1, <5>2, AmountCovers
          <5>3. CASE plan.trade \notin OpenTrades
            <6>1. OpenTrades = {}  BY <5>1, <5>3, OnlyPlanned
            <6>2. bal = 0  BY <2>1, <6>1 DEF Books, Balanced
            <6> QED  BY <4>2, <5>1, <6>2
          <5> QED  BY <5>2, <5>3
        <4> QED  BY <4>1, <4>2
      <3>6. Selling'
        <4>1. plan'.amt = a  BY <3>1 DEF Plan
        <4> QED  BY <2>1, <3>5, <4>1 DEF Selling
      <3> QED  BY <3>2, <3>3, <3>6 DEF Control
    <2> QED  BY <2>3, <2>4
  <1>23. CASE HandleSimilarOpenOrder
    <2>1. pc = "similar" /\ Preparing
          /\ UNCHANGED <<bal, owner, dStat, phase, todo, plan, ret>>
      BY <1>23 DEF HandleSimilarOpenOrder, Preparing, exch, rows
    <2>2. plan.side = "sell"  BY <2>1, BuysAtOnce DEF Plan
    <2>3. CASE pc' = Failed
      <3>1. pc' = "done"  BY <2>3 DEF Failed, NeverReplaces
      <3> QED  BY <2>1, <3>1, RestControl DEF Preparing, Recovering
    <2>4. CASE pc' # Failed
      <3>1. pc' = "clear" /\ clr' = OpenOrders(plan.trade)
        BY <1>23, <2>4 DEF HandleSimilarOpenOrder
      <3>2. OpenRows'
        BY <2>1, <3>1 DEF Control, OpenRows, InHand, OpenOrders
      <3>3. Planned' /\ ~Recovering'  BY <2>1, <2>2, <3>1 DEF Planned, Recovering
      <3>4. Selling'
        <4>1. Exits  BY <2>1, <2>2 DEF Exits
        <4> QED  BY <2>1, <4>1 DEF Control, Selling
      <3> QED  BY <3>2, <3>3, <3>4 DEF Control
    <2> QED  BY <2>3, <2>4
  <1>24. ASSUME NEW o \in Orders, ClearOrder(o) PROVE Control'
    <2>1. /\ pc = "clear" /\ Preparing /\ o \in clr /\ clr' = clr \ {o}
          /\ pc' = "cancel" /\ cur' = o /\ job' = "clear"
          /\ UNCHANGED <<bal, owner, dStat, trd, phase, todo, plan, ret>>
      BY <1>24 DEF ClearOrder, First, Preparing, exch, rows
    <2>2. OpenRows'
      BY <2>1 DEF Control, OpenRows
    <2>3. Planned' /\ ~Recovering'
      BY <2>1 DEF Control, Planned, Recovering, OpenTrades
    <2>4. Selling'
      <3>1. Exits' => Exits  BY <2>1 DEF Exits
      <3> QED  BY <2>1, <3>1 DEF Control, Selling
    <2> QED  BY <2>2, <2>3, <2>4 DEF Control
  <1>25. ASSUME NEW o \in Orders, ClearUnreachable(o) PROVE Control'
    BY <1>25, ControlQuiet DEF ClearUnreachable, exch, rows, Preparing, Exits
  <1>26. ASSUME NEW o \in Orders, CreateOrder(o) PROVE Control'
    <2>1. /\ Placing /\ CanPay /\ plan.amt > 0 /\ Preparing /\ todo = {} /\ clr = {}
          /\ pc' = "record" /\ cur' = o
          /\ UNCHANGED <<owner, dStat, trd, phase, todo, clr, plan, ret>>
      BY <1>26 DEF CreateOrder, PlaceOnExchange, Placing, Preparing, rows, Control, OpenRows
    <2>2. OpenRows'  BY <2>1 DEF Control, OpenRows
    <2>3. Planned'
      <3>1. plan.side = "sell" => plan.trade \in OpenTrades  BY <2>1, NewOrderAlone
      <3> QED  BY <2>1, <3>1 DEF Control, Planned, OpenTrades
    <2>4. Selling' /\ ~Recovering'  BY <2>1 DEF Selling, Recovering
    <2> QED  BY <2>2, <2>3, <2>4 DEF Control
  <1>27. ASSUME NEW o \in Orders, CreateReplyLost(o) PROVE Control'
    BY <1>27 DEF CreateReplyLost, Plain
  <1>28. CASE CreateRejected
    <2>1. pc' = "done"  BY <1>28 DEF CreateRejected, Failed, NeverReplaces
    <2> QED  BY <1>28, <2>1, RestControl DEF CreateRejected, rows, Preparing, Recovering
  <1>29. CASE CreateUnpaid
    <2>1. /\ pc = "clear" /\ Preparing /\ pc' = "sync" /\ clr' = OpenOrders(plan.trade)
          /\ plan.side = "sell" /\ UNCHANGED <<owner, dStat, phase, todo, plan, ret>>
      BY <1>29 DEF CreateUnpaid, Placing, Preparing, rows
    <2>2. OpenRows'  BY <2>1 DEF Control, OpenRows, InHand, OpenOrders
    <2>3. Planned' /\ Selling' /\ ~Recovering'
      BY <2>1 DEF Planned, Selling, Exits, Recovering
    <2> QED  BY <2>2, <2>3 DEF Control
  <1>30. CASE RecordNothing
    <2>1. pc' = "done"  BY <1>30 DEF RecordNothing, Failed, NeverReplaces
    <2> QED  BY <1>30, <2>1, RestControl DEF RecordNothing, rows, Preparing, Recovering
  <1>31. CASE RecordEntry
    <2>1. todo' = {}  BY <1>31 DEF RecordEntry, Preparing, Control, OpenRows
    <2>2. /\ UNCHANGED resp
          /\ \/ pc' = "book" /\ ret' = "done"
             \/ /\ pc' = "cancel" /\ job' = "timeout" /\ resp.stat \in NonOpen
                /\ ~ (resp.fill > 0)
             \/ pc' = "done"
      BY <1>31 DEF RecordEntry
    <2>3. CASE pc' # "cancel"  BY <2>1, <2>2, <2>3, NoLoopControl DEF Preparing, Recovering
    <2>4. CASE pc' = "cancel"
      <3>1. ~Preparing' /\ ~Recovering'  BY <2>2, <2>4 DEF Preparing, Recovering
      <3>2. resp.fill = 0  BY <2>2, <2>4 DEF Reply
      <3>3. OpenRows'  BY <2>1, <2>2, <2>4, <3>1, <3>2 DEF OpenRows
      <3> QED  BY <2>4, <3>1, <3>3, IdleNext
    <2> QED  BY <2>3, <2>4
  <1>32. CASE RecordExit
    <2>1. todo' = {}  BY <1>32 DEF RecordExit, Preparing, Control, OpenRows
    <2>2. (pc' = "book" /\ ret' = "done") \/ pc' = "done"
      BY <1>32 DEF RecordExit
    <2> QED  BY <2>1, <2>2, NoLoopControl DEF Preparing, Recovering
  <1>33. CASE ExitTrade
    <2>1. PICK t \in OpenTrades :
             /\ plan' = Coming(t)
             /\ \/ pc' = "signal" /\ todo' = todo
                \/ CoinsMissing(t) /\ pc' = "recover" /\ todo' = OnExchange(t)
      BY <1>33 DEF ExitTrade
    <2>2. pc = "loop" /\ phase = "exit"  BY <1>33 DEF ExitTrade, Exiting
    <2>3. ~CoinsMissing(t)
      <3>1. SUFFICES ASSUME CoinsMissing(t) PROVE FALSE
        OBVIOUS
      <3>2. t \in Trades /\ HasEntry(t)  BY <3>1 DEF CoinsMissing, EntriesFirst, OpenTrades
      <3>3. amount[t] = bal  BY <2>2, <3>1, <3>2, AmountCovers DEF CoinsMissing
      <3> QED  BY <3>1, <3>3 DEF CoinsMissing
    <2>4. pc' = "signal" /\ todo' = {}  BY <2>1, <2>2, <2>3 DEF Control, OpenRows
    <2>5. plan'.amt = 0  BY <2>1 DEF Coming, NoPlan
    <2>6. ~Preparing' /\ ~Recovering'  BY <2>4 DEF Preparing, Recovering
    <2>7. OpenRows'  BY <2>4, <2>6 DEF OpenRows, InHand
    <2>8. Planned' /\ Selling'  BY <2>4, <2>5, <2>6 DEF Planned, Selling, Exits
    <2> QED  BY <2>6, <2>7, <2>8 DEF Control
  <1>34. ASSUME NEW o \in Orders, RecoverOrder(o) PROVE Control'
    BY <1>34 DEF RecoverOrder, Control, Recovering
  <1>35. CASE RecoverDone  BY <1>35 DEF RecoverDone, Control, Recovering
  <1>36. CASE ExitSignal
    <2>1. pc = "signal" /\ UNCHANGED <<bal, owner, dStat, phase, todo, clr, plan, ret>>
      BY <1>36 DEF ExitSignal, exch, rows
    <2>2. CASE pc' = "done"
      BY <2>1, <2>2, RestControl DEF Preparing, Recovering
    <2>3. CASE pc' = "safe"
      <3>1. todo = {} /\ clr = {} /\ plan.amt = 0 /\ plan.side = "sell"
        BY <2>1 DEF Control, OpenRows, Planned, Prepared, Preparing, ExitHeld
      <3>2. OpenRows'  BY <2>1, <2>3, <3>1 DEF OpenRows, InHand
      <3>3. Planned' /\ Selling' /\ ~Recovering'
        BY <2>1, <2>3, <3>1 DEF Planned, Selling, Recovering
      <3> QED  BY <3>2, <3>3 DEF Control
    <2> QED  BY <1>36, <2>2, <2>3 DEF ExitSignal
  <1>37. CASE ExitsDone  BY <1>37, GoToControl DEF ExitsDone, rows
  <1>38. CASE AdjustPosition  BY <1>38 DEF AdjustPosition, Plain
  <1>39. CASE NoAdjustment  BY <1>39, GoToControl DEF NoAdjustment, rows
  <1>40. CASE EnterPosition
    <2>1. /\ todo' = {} /\ clr' = {} /\ pc' = "clear" /\ trd' = trd
          /\ OpenTrades = {}
      BY <1>40 DEF EnterPosition, rows, Control, OpenRows
    <2>2. plan'.side = "buy" /\ trd[plan'.trade] = "none"
      BY <1>40 DEF EnterPosition
    <2>3. OpenRows'  BY <2>1 DEF OpenRows, InHand
    <2>4. Planned' /\ Selling' /\ ~Recovering'
      BY <2>1, <2>2 DEF Planned, Selling, Exits, Recovering, OpenTrades
    <2> QED  BY <2>3, <2>4 DEF Control
  <1>41. CASE NoEntry  BY <1>41, GoToControl DEF NoEntry, rows
  <1>42. CASE Crash  BY <1>42 DEF Crash, Plain
  <1>43. CASE UNCHANGED vars
    BY <1>43, ControlQuiet DEF vars, exch, rows, control, Preparing, Exits
  <1> QED
    BY <1>1, <1>2, <1>3, <1>4, <1>5, <1>6, <1>7, <1>8, <1>9, <1>10, <1>11, <1>12, <1>13,
       <1>14, <1>15, <1>16, <1>17, <1>18, <1>19, <1>20, <1>21, <1>22, <1>23, <1>24, <1>25,
       <1>26, <1>27, <1>28, <1>29, <1>30, <1>31, <1>32, <1>33, <1>34, <1>35, <1>36, <1>37,
       <1>38, <1>39, <1>40, <1>41, <1>42, <1>43
    DEF Next, Bot, Exchange, Startup, Manage, Place, Loops, Handlers

-----------------------------------------------------------------------------
(* The books.                                                              *)

LEMMA TradeKept ==
  ASSUME TypeOK, NEW t, OrdersOf(t)' = OrdersOf(t),
         \A o \in OrdersOf(t) :
            exSide'[o] = exSide[o] /\ dStat'[o] = dStat[o] /\ dFill'[o] = dFill[o]
  PROVE  DoneOf(t)' = DoneOf(t) /\ Net(t)' = Net(t)
  <1>1. DoneOf(t)' = DoneOf(t)  BY DEF DoneOf
  <1>2. \A o \in DoneOf(t) : exSide'[o] = exSide[o] /\ dFill'[o] = dFill[o]
    BY DEF DoneOf
  <1> QED  BY <1>1, <1>2, SameNet

\* The order that is placed or booked stays in hand, or there is none.
SameInHand ==
    \/ pc \notin {"record", "book"} /\ pc' \notin {"record", "book"}
    \/ UNCHANGED <<pc, cur>>
FewerOpen == \A o \in Orders : exStat'[o] = "open" => exStat[o] = "open"

LEMMA QuietBooks ==
  ASSUME TypeOK, Books, FewerOpen, SameInHand,
         UNCHANGED <<exSide, exFill, bal, owner, dStat, dFill, trd, amount>>
  PROVE  Books'
  <1>1. \A t : OrdersOf(t)' = OrdersOf(t)  BY DEF OrdersOf
  <1>2. \A t : Net(t)' = Net(t)  BY <1>1, TradeKept
  <1>3. \A t : Total(t)' = Total(t)  BY <1>1, SameTotal
  <1>4. OpenTrades' = OpenTrades  BY DEF OpenTrades
  <1>5. SignedOn' = SignedOn  BY DEF SignedOn
  <1>6. OneEntry'  BY <1>1 DEF Books, OneEntry
  <1>7. Owned'  BY <1>4 DEF Books, Owned, FewerOpen, SameInHand
  <1>8. Balanced'  BY <1>3, <1>4, <1>5 DEF Books, Balanced, SameInHand
  <1>9. Booked'  BY <1>2, <1>4 DEF Books, Booked, SameInHand
  <1>10. Closed'  BY <1>1, <1>2 DEF Books, Closed
  <1> QED  BY <1>6, <1>7, <1>8, <1>9, <1>10 DEF Books

\* The row of an order is written that was open, or said the same before.
RowAnew(o, r) ==
    \/ dStat[o] = "open"
    \/ dStat[o] = r.stat /\ dFill[o] = r.fill /\ r.fill = 0

LEMMA UpdatedBooks ==
  ASSUME BInv, TypeOK', NEW o \in Orders, owner[o] \in Trades,
         NEW r \in Reply, r.fill <= exFill[o], UpdateOrder(o, r), RowAnew(o, r),
         UNCHANGED <<exSide, exFill, bal, owner, trd, amount>>, FewerOpen,
         pc \notin {"record", "book"}, pc' # "record",
         IF r.stat \in NonOpen /\ r.fill > 0 THEN pc' = "book" /\ cur' = o ELSE pc' # "book"
  PROVE  Books'
  <1> USE DEF BInv, Known, EInv, KInv, IInv
  <1>1. \A t : OrdersOf(t)' = OrdersOf(t)  BY DEF OrdersOf
  <1>2. \A t : Total(t)' = Total(t)  BY <1>1, SameTotal
  <1>3. OpenTrades' = OpenTrades  BY DEF OpenTrades
  <1>4. dStat'[o] = r.stat /\ dFill'[o] = r.fill
        /\ \A p \in Orders \ {o} : dStat'[p] = dStat[p] /\ dFill'[p] = dFill[p]
    BY DEF UpdateOrder, TypeOK
  <1>5. r.stat \in Statuses /\ r.fill \in Nat /\ exFill[o] \in Nat  BY DEF Reply, TypeOK
  <1>6. \A t : t # owner[o] => Net(t)' = Net(t)
    BY <1>1, <1>4, TradeKept DEF OrdersOf
  <1>7. o \in OrdersOf(owner[o])  BY DEF OrdersOf
  <1>8. /\ ~ (r.stat \in NonOpen /\ r.fill > 0) => Net(owner[o])' = Net(owner[o])
        /\ r.stat \in NonOpen /\ r.fill > 0 =>
              Net(owner[o])' = Net(owner[o]) + (IF exSide[o] = "buy" THEN r.fill ELSE -r.fill)
    <2>1. CASE dStat[o] # "open"
      BY <1>1, <1>4, <2>1, TradeKept DEF RowAnew, OrdersOf
    <2>2. CASE dStat[o] = "open" /\ r.stat \in NonOpen
      <3>1. o \notin DoneOf(owner[o]) /\ DoneOf(owner[o])' = DoneOf(owner[o]) \union {o}
        BY <1>1, <1>4, <1>7, <2>2, ConstantFacts DEF DoneOf, OrdersOf
      <3>2. \A p \in DoneOf(owner[o]) : exSide'[p] = exSide[p] /\ dFill'[p] = dFill[p]
        BY <1>4, <3>1 DEF DoneOf, OrdersOf
      <3>3. Net(owner[o])' =
              Net(owner[o]) + (IF exSide'[o] = "buy" THEN dFill'[o] ELSE -dFill'[o])
        BY <3>1, <3>2, NetGrows
      <3>4. Net(owner[o]) \in Int  BY BookSums
      <3> QED  BY <1>4, <1>5, <2>2, <3>3, <3>4
    <2>3. CASE dStat[o] = "open" /\ r.stat \notin NonOpen
      <3>1. DoneOf(owner[o])' = DoneOf(owner[o]) /\ o \notin DoneOf(owner[o])
        BY <1>1, <1>4, <2>3, ConstantFacts DEF DoneOf, OrdersOf
      <3>2. \A p \in DoneOf(owner[o]) : exSide'[p] = exSide[p] /\ dFill'[p] = dFill[p]
        BY <1>4, <3>1 DEF DoneOf, OrdersOf
      <3> QED  BY <2>3, <3>1, <3>2, SameNet
    <2> QED  BY <2>1, <2>2, <2>3
  <1>9. r.fill > 0 => owner[o] \in OpenTrades
    <2> SUFFICES ASSUME r.fill > 0 PROVE owner[o] \in OpenTrades
      OBVIOUS
    <2>1. dStat[o] = "open" /\ exFill[o] # 0  BY <1>5 DEF RowAnew
    <2>2. trd[owner[o]] # "closed"
      BY <1>7, <2>1, ConstantFacts DEF Books, Closed
    <2>3. trd[owner[o]] \notin {"none", "deleted"}  BY <1>7 DEF Books, OneEntry
    <2> QED  BY <2>2, <2>3 DEF TypeOK, OpenTrades
  <1>10. OneEntry'  BY <1>1 DEF Books, OneEntry
  <1>11. Owned'  BY <1>3 DEF Books, Owned, FewerOpen
  <1>12. Balanced'  BY <1>2, <1>3 DEF Books, Balanced
  <1>13. Booked'
    <2>1. \A t \in OpenTrades : amount[t] = Net(t) /\ amount[t] \in Nat
      BY DEF Books, Booked, TypeOK, OpenTrades
    <2>2. pc' = "book" => cur' = o /\ r.stat \in NonOpen /\ r.fill > 0
      OBVIOUS
    <2>3. pc' = "book" => (owner[cur] \in OpenTrades)'
      BY <1>3, <1>9, <2>2
    <2>4. ASSUME NEW t \in OpenTrades, t # owner[o]
          PROVE  amount'[t] = Net(t)' /\ ~ (pc' = "book" /\ owner'[cur'] = t)
      BY <1>6, <2>1, <2>2, <2>4
    <2>5. ASSUME owner[o] \in OpenTrades, pc' # "book"
          PROVE  amount'[owner[o]] = Net(owner[o])'
      BY <1>8, <2>1, <2>5
    <2>6. ASSUME owner[o] \in OpenTrades, pc' = "book"
          PROVE  IF exSide'[cur'] = "buy" THEN Net(owner[o])' > 0
                 ELSE amount'[owner[o]] = Net(owner[o])' + dFill'[cur']
      <3>1. Net(owner[o])' = Net(owner[o]) + (IF exSide[o] = "buy" THEN r.fill ELSE -r.fill)
        BY <1>8, <2>2, <2>6
      <3>2. amount'[owner[o]] = Net(owner[o]) /\ Net(owner[o]) \in Nat  BY <2>1, <2>6
      <3> QED  BY <1>4, <1>5, <2>2, <2>6, <3>1, <3>2
    <2>7. ASSUME NEW t \in OpenTrades
          PROVE  (IF pc = "book" /\ owner[cur] = t
                  THEN IF exSide[cur] = "buy" THEN Net(t) > 0
                       ELSE amount[t] = Net(t) + dFill[cur]
                  ELSE amount[t] = Net(t))'
      <3>1. CASE t # owner[o]  BY <2>4, <3>1
      <3>2. CASE t = owner[o] /\ pc' # "book"  BY <2>5, <3>2
      <3>3. CASE t = owner[o] /\ pc' = "book"  BY <2>2, <2>6, <3>3
      <3> QED  BY <3>1, <3>2, <3>3
    <2> QED  BY <1>3, <2>3, <2>7 DEF Booked
  <1>14. Closed'
    <2>1. ASSUME NEW t \in Trades, trd[t] = "closed"
          PROVE  Net(t)' = 0
      <3>1. owner[o] = t => ~ (r.fill > 0)  BY <1>9, <2>1 DEF OpenTrades
      <3>2. Net(t) = 0  BY <2>1 DEF Books, Closed
      <3> QED  BY <1>6, <1>8, <3>1, <3>2
    <2>2. ASSUME NEW t \in Trades, trd[t] = "closed", NEW p \in OrdersOf(t),
                 dStat'[p] \notin NonOpen
          PROVE  exFill[p] = 0
      <3>1. p \in Orders  BY DEF OrdersOf
      <3>2. dStat[p] \notin NonOpen
        BY <1>4, <2>2, <3>1, ConstantFacts DEF RowAnew
      <3> QED  BY <2>2, <3>2 DEF Books, Closed
    <2> QED  BY <1>1, <2>1, <2>2 DEF Closed
  <1> QED  BY <1>10, <1>11, <1>12, <1>13, <1>14 DEF Books

LEMMA DeletedBooks ==
  ASSUME BInv, Leaves, NEW d \in Trades, DeleteTrade(d), FewerOpen,
         UNCHANGED <<exSide, exFill, bal>>,
         pc \notin {"record", "book"}, pc' \notin {"record", "book"}
  PROVE  Books'
  <1> USE ConstantFacts DEF BInv, Known, EInv, KInv, IInv
  <1>1. \A o \in Orders : owner[o] = d => owner'[o] = NoTrade /\ dStat'[o] = "none"
    BY DEF DeleteTrade
  <1>2. \A o \in Orders : owner[o] # d =>
           owner'[o] = owner[o] /\ dStat'[o] = dStat[o] /\ dFill'[o] = dFill[o]
    BY DEF DeleteTrade
  <1>3. trd'[d] = "deleted"
        /\ \A t \in Trades \ {d} : trd'[t] = trd[t] /\ amount'[t] = amount[t]
    BY DEF DeleteTrade, TypeOK
  <1>4. OrdersOf(d)' = {}  BY <1>1, <1>2 DEF OrdersOf
  <1>5. \A t \in Trades \ {d} : OrdersOf(t)' = OrdersOf(t)
    BY <1>1, <1>2 DEF OrdersOf
  <1>6. ASSUME NEW t \in Trades \ {d} PROVE Net(t)' = Net(t) /\ Total(t)' = Total(t)
    <2>1. OrdersOf(t)' = OrdersOf(t)  BY <1>5
    <2>2. \A o \in OrdersOf(t) : /\ exSide'[o] = exSide[o] /\ exFill'[o] = exFill[o]
                                 /\ dStat'[o] = dStat[o] /\ dFill'[o] = dFill[o]
      BY <1>2 DEF OrdersOf
    <2> QED  BY <2>1, <2>2, TradeKept, SameTotal
  <1>7. ASSUME NEW o \in OrdersOf(d) PROVE exFill[o] = 0 /\ exStat'[o] # "open"
    <2>1. o \in Orders /\ owner[o] = d  BY DEF OrdersOf
    <2>2. Gone(o)  BY <1>1, <2>1 DEF Leaves
    <2> QED  BY <2>1, <2>2, GoneEmpty DEF Gone
  <1>8. OpenTrades' = OpenTrades \ {d}  BY <1>3 DEF OpenTrades
  <1>9. OneEntry'
    <2>1. \A o \in Orders : owner'[o] \in Trades => owner'[o] = owner[o]
      BY <1>1, <1>2
    <2> QED  BY <1>3, <1>4, <1>5, <2>1 DEF Books, OneEntry
  <1>10. Owned'
    <2> SUFFICES ASSUME NEW o \in Orders, exStat'[o] = "open" PROVE owner'[o] \in OpenTrades'
      BY DEF Owned
    <2>1. owner[o] \in OpenTrades  BY DEF FewerOpen, Books, Owned
    <2>2. owner[o] # d  BY <1>7 DEF OrdersOf
    <2> QED  BY <1>2, <1>8, <2>1, <2>2
  <1>11. Balanced'
    <2> \A t : Total(t) \in Int  BY BookSums
    <2>1. \A t \in OpenTrades' : bal' = Total(t)' /\ Total(t)' \in Int
      BY <1>6, <1>8 DEF Books, Balanced, OpenTrades
    <2>2. ASSUME OpenTrades' = {} PROVE bal = 0
      <3>1. CASE d \notin OpenTrades  BY <1>8, <2>2, <3>1 DEF Books, Balanced
      <3>2. CASE d \in OpenTrades
        <4>1. bal = Total(d)  BY <3>2 DEF Books, Balanced
        <4>2. OrdersOf(d) \in SUBSET Orders /\ Summable(SignedOn, OrdersOf(d))  BY BookSums
        <4>3. \A o \in OrdersOf(d) : SignedOn[o] \in Nat /\ SignedOn[o] <= 0
          BY <1>7, <4>2 DEF SignedOn
        <4>4. IsFiniteSet(OrdersOf(d))  BY <4>2 DEF Summable
        <4>5. Total(d) \in Nat /\ Total(d) <= 0
          BY <4>2, <4>3, <4>4, SumNat, SumNotPositive DEF Total
        <4> QED  BY <4>1, <4>5
      <3> QED  BY <3>1, <3>2
    <2> QED  BY <2>1, <2>2 DEF Balanced
  <1>12. Booked'
    BY <1>3, <1>6, <1>8 DEF Books, Booked, OpenTrades
  <1>13. Closed'
    <2>1. ASSUME NEW t \in Trades, trd'[t] = "closed" PROVE t # d /\ trd[t] = "closed"
      BY <1>3, <2>1
    <2>2. ASSUME NEW t \in Trades, trd'[t] = "closed", NEW o \in OrdersOf(t)',
                 dStat'[o] \notin NonOpen
          PROVE  exFill'[o] = 0
      <3>1. t # d /\ trd[t] = "closed" /\ o \in OrdersOf(t)
        BY <1>5, <2>1, <2>2
      <3>2. dStat'[o] = dStat[o]  BY <1>2, <3>1 DEF OrdersOf
      <3> QED  BY <2>2, <3>1, <3>2 DEF Books, Closed
    <2>3. \A t \in Trades : trd'[t] = "closed" => Net(t)' = 0
      BY <1>6, <2>1 DEF Books, Closed
    <2> QED  BY <2>2, <2>3 DEF Closed
  <1> QED  BY <1>9, <1>10, <1>11, <1>12, <1>13 DEF Books

\* A booking: an exit that sold all there was closes the trade, and then nothing
\* is left that could fill.
LEMMA BookedBooks ==
  ASSUME BInv, BookOrder
  PROVE  Books'
  <1> USE DEF BInv, Known, EInv, KInv, IInv
  <1> DEFINE t == owner[cur]
  <1>1. /\ pc = "book" /\ pc' = ret /\ cur \in Orders
        /\ UNCHANGED <<exSide, exFill, exStat, exAmt, bal, owner, dStat, dFill, cur>>
    BY DEF BookOrder, exch, ReplyLags, InHand
  <1>2. pc' \notin {"book", "record"}  BY <1>1 DEF TypeOK
  <1>3. t \in OpenTrades /\ t \in Trades  BY <1>1 DEF Books, Booked, OpenTrades
  <1>4. \A u \in OpenTrades : u = t  BY <1>3, OnlyOpen
  <1>5. /\ amount'[t] = NewAmount(cur, Net(t))
        /\ \A u \in Trades \ {t} : amount'[u] = amount[u]
    BY <1>3, NetIsSum DEF BookOrder, TypeOK
  <1>6. trd' = IF Closes(cur) THEN [trd EXCEPT ![t] = "closed"] ELSE trd
    BY DEF BookOrder
  <1>7. \A u \in Trades \ {t} : trd'[u] = trd[u]  BY <1>6 DEF TypeOK
  <1>8. \A u : OrdersOf(u)' = OrdersOf(u)  BY <1>1 DEF OrdersOf
  <1>9. \A u : Net(u)' = Net(u) /\ Total(u)' = Total(u)
    BY <1>1, <1>8, TradeKept, SameTotal
  <1>10. bal = Total(t) /\ Net(t) \in Int /\ Total(t) \in Int /\ dFill[cur] \in Nat
    BY <1>1, <1>3, BookSums DEF Books, Balanced, TypeOK
  <1>11. OneEntry'
    <2>1. \A u \in Trades : trd'[u] \in {"none", "deleted"} => trd[u] \in {"none", "deleted"}
      BY <1>6, <1>7 DEF TypeOK
    <2> QED  BY <1>1, <1>8, <2>1 DEF Books, OneEntry
  <1> HIDE DEF t
  <1>12. CASE trd' = trd /\ amount'[t] = Net(t)
    <2>1. OpenTrades' = OpenTrades  BY <1>12 DEF OpenTrades
    <2>2. Owned' /\ Balanced'
      BY <1>1, <1>2, <1>9, <2>1 DEF Books, Owned, Balanced
    <2>3. Booked'  BY <1>2, <1>4, <1>9, <1>12, <2>1 DEF Booked
    <2>4. Closed'  BY <1>1, <1>8, <1>9, <1>12 DEF Books, Closed
    <2> QED  BY <1>11, <2>2, <2>3, <2>4 DEF Books
  <1>13. CASE exSide[cur] = "buy"
    <2>1. Net(t) > 0  BY <1>1, <1>3, <1>13 DEF Books, Booked, t
    <2>2. trd' = trd /\ amount'[t] = Net(t)
      BY <1>5, <1>6, <1>13, <2>1 DEF Closes, NewAmount
    <2> QED  BY <1>12, <2>2
  <1>14. CASE exSide[cur] = "sell"
    <2>1. amount[t] = Net(t) + dFill[cur]
      BY <1>1, <1>3, <1>14 DEF Books, Booked, t
    <2>2. HasEntry(t)  BY <1>1, <1>3, <1>14 DEF EntriesFirst, t
    <2>3. \A o \in OrdersOf(t) : exSide[o] = "buy" => dStat[o] \in NonOpen
      BY <1>3, <2>2, EntriesDone DEF Books
    <2>4. /\ Net(t) >= bal /\ bal >= 0 /\ bal \in Int
          /\ Net(t) = bal => \A o \in OrdersOf(t) \ DoneOf(t) : exFill[o] = 0
      BY <1>10, <2>3, NetAboveTotal DEF Sequenced, TypeOK
    <2>5. CASE Net(t) > 0
      <3>1. ~Closes(cur)  BY <1>10, <2>1, <2>5 DEF Closes, t
      <3>2. amount'[t] = Net(t)  BY <1>5, <2>5 DEF NewAmount
      <3> QED  BY <1>6, <1>12, <3>1, <3>2
    <2>6. CASE Net(t) = 0
      <3>1. Closes(cur)  BY <1>10, <1>14, <2>1, <2>6 DEF Closes, t
      <3>2. trd'[t] = "closed"  BY <1>3, <1>6, <3>1 DEF t, TypeOK
      <3>3. OpenTrades' = {}  BY <1>4, <1>7, <3>2 DEF OpenTrades
      <3>4. bal = 0 /\ \A o \in OrdersOf(t) : dStat[o] \notin NonOpen => exFill[o] = 0
        BY <2>4, <2>6 DEF DoneOf
      <3>5. Closed'
        <4>1. ASSUME NEW u \in Trades, trd'[u] = "closed"
              PROVE  Net(u) = 0 /\ \A o \in OrdersOf(u) : dStat[o] \notin NonOpen => exFill[o] = 0
          <5>1. CASE u = t  BY <2>6, <3>4, <5>1
          <5>2. CASE u # t  BY <1>7, <4>1, <5>2 DEF Books, Closed
          <5> QED  BY <5>1, <5>2
        <4> QED  BY <1>1, <1>8, <1>9, <4>1 DEF Closed
      <3>6. ASSUME NEW o \in Orders, exStat[o] = "open" PROVE FALSE
        <4>1. owner[o] \in OpenTrades  BY <1>1, <3>6 DEF Books, Owned
        <4>2. o \in OrdersOf(t)  BY <1>4, <4>1 DEF OrdersOf
        <4>3. dStat[o] \notin NonOpen  BY <3>6, ConstantFacts DEF RowsExact
        <4>4. exSide[o] = "sell"  BY <2>3, <4>2, <4>3 DEF TypeOK
        <4>5. bal = exAmt[o] - exFill[o]  BY <3>6, <4>4 DEF Sequenced
        <4>6. exFill[o] < exAmt[o] /\ exFill[o] \in Nat /\ exAmt[o] \in Nat
          BY <3>6 DEF ExchangeOK, TypeOK
        <4> QED  BY <3>4, <4>5, <4>6
      <3>7. Owned'  BY <1>1, <3>6 DEF Owned
      <3>8. Balanced' /\ Booked'  BY <1>1, <1>2, <3>3, <3>4 DEF Balanced, Booked
      <3> QED  BY <1>11, <3>5, <3>7, <3>8 DEF Books
    <2> QED  BY <1>10, <2>4, <2>5, <2>6
  <1>15. exSide[cur] \in {"buy", "sell"}  BY <1>1 DEF TypeOK
  <1> QED  BY <1>13, <1>14, <1>15

\* One more unit, of the order in hand or of the open trade.
LEMMA FilledBooks ==
  ASSUME BInv, TypeOK', NEW o \in Orders, ExchangeFill(o)
  PROVE  Books'
  <1> USE DEF BInv, Known, EInv, KInv, IInv
  <1>1. /\ exStat[o] = "open" /\ UNCHANGED <<exSide, rows, control>>
        /\ exFill' = [exFill EXCEPT ![o] = @ + 1]
        /\ bal' = IF exSide[o] = "buy" THEN bal + 1 ELSE bal - 1
        /\ FewerOpen
    BY DEF ExchangeFill, FewerOpen, TypeOK
  <1>2. UNCHANGED <<owner, dStat, dFill, trd, amount, pc, cur>>
    BY <1>1 DEF rows, control
  <1>3. \A p \in Orders \ {o} : exFill'[p] = exFill[p]  BY <1>1
  <1>4. \A t : OrdersOf(t)' = OrdersOf(t)  BY <1>2 DEF OrdersOf
  <1>5. \A t : Net(t)' = Net(t)  BY <1>1, <1>2, <1>4, TradeKept
  <1>6. OpenTrades' = OpenTrades  BY <1>2 DEF OpenTrades
  <1>7. OneEntry'  BY <1>1, <1>2, <1>4 DEF Books, OneEntry
  <1>8. Owned'  BY <1>1, <1>2, <1>6 DEF Books, Owned, FewerOpen
  <1>9. Booked'  BY <1>1, <1>2, <1>5, <1>6 DEF Books, Booked
  <1>10. (pc = "record" /\ o = cur /\ owner[o] = NoTrade) \/ owner[o] \in OpenTrades
    BY <1>1 DEF Books, Owned, RowsExist
  <1>11. owner[o] \in Trades => trd[owner[o]] = "open"
    BY <1>10, ConstantFacts DEF OpenTrades
  <1>12. Closed'
    <2>1. ASSUME NEW t \in Trades, trd[t] = "closed", NEW p \in OrdersOf(t)
          PROVE  exFill'[p] = exFill[p]
      BY <1>3, <1>11, <2>1 DEF OrdersOf
    <2> QED  BY <1>2, <1>4, <1>5, <2>1 DEF Books, Closed
  <1>13. SignedOn'[o] = SignedOn[o] + bal' - bal /\ SignedOn[o] \in Int /\ bal \in Int
         /\ bal' \in Int
    BY <1>1 DEF SignedOn, TypeOK
  <1>14. \A t : Total(t) \in Int  BY BookSums
  <1>15. Balanced'
    <2>1. CASE owner[o] \in OpenTrades
      <3>1. PICK t \in OpenTrades : owner[o] = t  BY <2>1
      <3>2. \A u \in OpenTrades : u = t  BY OnlyOpen
      <3>3. o \in OrdersOf(t)  BY <3>1 DEF OrdersOf
      <3>4. Total(t)' = Total(t) - SignedOn[o] + SignedOn'[o]
        BY <1>1, <1>3, <1>4, <3>3, TotalFills
      <3>5. Total(t)' = Total(t) + bal' - bal  BY <1>13, <1>14, <3>4
      <3>6. pc = "record" => cur \in Orders /\ cur # o /\ SignedOn'[cur] = SignedOn[cur]
        <4>1. pc = "record" => cur \in Orders /\ owner[cur] = NoTrade
          BY DEF RowsExist, ReplyLags, InHand
        <4>2. owner[o] # NoTrade  BY <2>1, ConstantFacts DEF OpenTrades
        <4> QED  BY <1>1, <1>3, <4>1, <4>2 DEF SignedOn
      <3>7. pc = "record" => SignedOn[cur] \in Int  BY <3>6 DEF SignedOn, TypeOK
      <3>8. bal = Total(t) + (IF pc = "record" THEN SignedOn[cur] ELSE 0)
        BY DEF Books, Balanced
      <3>9. bal' = Total(t)' + (IF pc = "record" THEN SignedOn'[cur] ELSE 0)
        BY <1>13, <1>14, <3>5, <3>6, <3>7, <3>8
      <3> QED  BY <1>2, <1>6, <3>2, <3>9 DEF Balanced
    <2>2. CASE pc = "record" /\ o = cur /\ owner[o] = NoTrade
      <3>1. ASSUME NEW t \in OpenTrades PROVE Total(t)' = Total(t)
        <4>1. \A p \in OrdersOf(t) : exFill'[p] = exFill[p] /\ exSide'[p] = exSide[p]
          BY <1>1, <1>3, <2>2, ConstantFacts DEF OrdersOf, OpenTrades
        <4> QED  BY <1>4, <4>1, SameTotal
      <3>2. ASSUME NEW t \in OpenTrades PROVE bal' = Total(t)' + SignedOn'[cur]
        <4>1. bal = Total(t) + SignedOn[cur]  BY <2>2 DEF Books, Balanced
        <4> QED  BY <1>13, <1>14, <2>2, <3>1, <4>1
      <3> QED  BY <1>2, <1>6, <2>2, <3>2 DEF Balanced
    <2> QED  BY <1>10, <2>1, <2>2
  <1> QED  BY <1>7, <1>8, <1>9, <1>12, <1>15 DEF Books

\* The new order is nobody's yet, and no other can fill.
LEMMA CreatedBooks ==
  ASSUME BInv, TypeOK', NEW o \in Orders, CreateOrder(o)
  PROVE  Books'
  <1> USE DEF BInv, Known, EInv, KInv, IInv
  <1>1. /\ Placing /\ CanPay /\ plan.amt > 0 /\ pc = "clear" /\ pc' = "record" /\ cur' = o
        /\ UNCHANGED <<owner, dStat, dFill, trd, amount>>
    BY DEF CreateOrder, PlaceOnExchange, Placing, rows
  <1>2. PICK f \in 0..plan.amt :
           /\ exFill' = [exFill EXCEPT ![o] = f]
           /\ bal' = IF plan.side = "buy" THEN bal + f ELSE bal - f
    BY DEF CreateOrder, PlaceOnExchange
  <1>3. /\ exSide' = [exSide EXCEPT ![o] = plan.side] /\ o \notin Created
        /\ \A p \in Orders \ {o} : exStat'[p] = exStat[p]
    BY DEF CreateOrder, PlaceOnExchange, First
  <1>4. owner[o] = NoTrade /\ dStat[o] = "none"  BY <1>3 DEF RowsExist, Created
  <1>5. \A p \in Orders : exStat[p] # "open"  BY <1>1, NewOrderAlone
  <1>6. \A t : OrdersOf(t)' = OrdersOf(t)  BY <1>1 DEF OrdersOf
  <1>7. \A p \in Orders : owner[p] \in Trades => exSide'[p] = exSide[p] /\ exFill'[p] = exFill[p]
    BY <1>2, <1>3, <1>4, ConstantFacts
  <1>8. ASSUME NEW t \in Trades PROVE Net(t)' = Net(t) /\ Total(t)' = Total(t)
    <2>1. \A p \in OrdersOf(t) : exSide'[p] = exSide[p] /\ exFill'[p] = exFill[p]
      BY <1>7 DEF OrdersOf
    <2> QED  BY <1>1, <1>6, <2>1, TradeKept, SameTotal
  <1>9. OpenTrades' = OpenTrades  BY <1>1 DEF OpenTrades
  <1>10. OneEntry'  BY <1>1, <1>6, <1>7 DEF Books, OneEntry
  <1>11. Owned'  BY <1>1, <1>3, <1>5 DEF Owned
  <1>12. Balanced'
    <2>1. SignedOn'[o] = bal' - bal /\ bal \in Int /\ bal' \in Int
      BY <1>2, <1>3 DEF SignedOn, TypeOK, Plan
    <2>2. ASSUME NEW t \in OpenTrades PROVE bal' = Total(t)' + SignedOn'[o]
      <3>1. bal = Total(t) /\ Total(t) \in Int /\ Total(t)' = Total(t)
        BY <1>1, <1>8, BookSums DEF Books, Balanced, OpenTrades
      <3> QED  BY <2>1, <3>1
    <2> QED  BY <1>1, <1>9, <2>2 DEF Balanced
  <1>13. Booked'  BY <1>1, <1>8, <1>9 DEF Books, Booked, OpenTrades
  <1>14. Closed'
    <2>1. ASSUME NEW t \in Trades, NEW p \in OrdersOf(t) PROVE exFill'[p] = exFill[p]
      BY <1>7 DEF OrdersOf
    <2> QED  BY <1>1, <1>6, <1>8, <2>1 DEF Books, Closed
  <1> QED  BY <1>10, <1>11, <1>12, <1>13, <1>14 DEF Books

\* The entry of a new trade.
LEMMA EnteredBooks ==
  ASSUME BInv, TypeOK', NEW t \in Trades, RecordEntry, plan.trade = t
  PROVE  Books'
  <1> USE DEF BInv, Known, EInv, KInv, IInv
  <1>1. /\ pc = "record" /\ plan.side = "buy" /\ cur \in Orders /\ cur' = cur
        /\ UNCHANGED <<exSide, exFill, exStat, bal>>
        /\ owner' = [owner EXCEPT ![cur] = t] /\ UpdateOrder(cur, resp)
        /\ trd' = [trd EXCEPT ![t] = "open"]
    BY DEF RecordEntry, RecordRow, ReplyLags, InHand, exch
  <1>2. exSide[cur] = "buy" /\ owner[cur] = NoTrade /\ resp \in Reply /\ resp.fill \in Nat
    BY <1>1 DEF Orderly, SideAsPlanned, RowsExist, TypeOK, Reply
  <1>3. OpenTrades = {} /\ trd[t] = "none"
    BY <1>1 DEF Control, Planned, Preparing
  <1>4. OrdersOf(t) = {} /\ amount[t] = 0
    <2>1. OrdersOf(t) = {}  BY <1>3 DEF Books, OneEntry
    <2>2. ~ (amount[t] > 0)  BY <2>1 DEF EntriesFirst, HasEntry, FilledEntries
    <2> QED  BY <2>1, <2>2 DEF TypeOK
  <1>5. OrdersOf(t)' = {cur}
    BY <1>1, <1>4 DEF OrdersOf, TypeOK
  <1>6. \A u \in Trades \ {t} : OrdersOf(u)' = OrdersOf(u)
    BY <1>1, <1>2, ConstantFacts DEF OrdersOf, TypeOK
  <1>7. /\ dStat'[cur] = resp.stat /\ dFill'[cur] = resp.fill
        /\ \A p \in Orders \ {cur} : dStat'[p] = dStat[p] /\ dFill'[p] = dFill[p]
        /\ \A p \in Orders \ {cur} : owner'[p] = owner[p]
    BY <1>1 DEF UpdateOrder, TypeOK
  <1>8. \A u \in Trades \ {t} : \A p \in OrdersOf(u) : p # cur
    BY <1>2, ConstantFacts DEF OrdersOf
  <1>9. ASSUME NEW u \in Trades \ {t} PROVE Net(u)' = Net(u)
    BY <1>1, <1>6, <1>7, <1>8, TradeKept DEF OrdersOf
  <1>10. trd'[t] = "open" /\ OpenTrades' = {t}
         /\ \A u \in Trades \ {t} : trd'[u] = trd[u]
    BY <1>1, <1>3 DEF OpenTrades, TypeOK
  <1>11. pc' # "record" /\ (pc' = "book" => resp.stat \in NonOpen /\ resp.fill > 0)
         /\ (resp.stat \in NonOpen /\ resp.fill > 0 => pc' = "book")
    BY DEF RecordEntry
  <1>12. DoneOf(t) = {} /\ Net(t) = 0 /\ Total(t) = 0
    BY <1>4, SumEmpty DEF DoneOf, Net, Total
  <1>13. Net(t)' = IF resp.stat \in NonOpen THEN resp.fill ELSE 0
    <2>1. CASE resp.stat \in NonOpen
      <3>1. DoneOf(t)' = DoneOf(t) \union {cur} /\ cur \notin DoneOf(t)
        BY <1>5, <1>7, <1>12, <2>1 DEF DoneOf
      <3>2. \A p \in DoneOf(t) : exSide'[p] = exSide[p] /\ dFill'[p] = dFill[p]
        BY <1>12
      <3>3. Net(t)' = Net(t) + (IF exSide'[cur] = "buy" THEN dFill'[cur] ELSE -dFill'[cur])
        BY <1>1, <3>1, <3>2, NetGrows
      <3> QED  BY <1>1, <1>2, <1>7, <1>12, <2>1, <3>3
    <2>2. CASE resp.stat \notin NonOpen
      <3>1. DoneOf(t)' = DoneOf(t)  BY <1>5, <1>7, <1>12, <2>2 DEF DoneOf
      <3>2. Net(t)' = Net(t)  BY <1>12, <3>1, SameNet
      <3> QED  BY <1>12, <2>2, <3>2
    <2> QED  BY <2>1, <2>2
  <1>14. SignedOn[cur] = bal /\ bal = exFill[cur] /\ bal \in Int /\ SignedOn'[cur] = SignedOn[cur]
    BY <1>1, <1>2 DEF SignedOn, Sequenced, TypeOK
  <1>15. Total(t)' = bal
    <2>1. OrdersOf(t)' = OrdersOf(t) \union {cur} /\ cur \notin OrdersOf(t)  BY <1>4, <1>5
    <2>2. \A p \in OrdersOf(t) : exSide'[p] = exSide[p] /\ exFill'[p] = exFill[p]
      BY <1>4
    <2>3. Total(t)' = Total(t) + SignedOn'[cur]  BY <1>1, <2>1, <2>2, TotalGrows
    <2> QED  BY <1>12, <1>14, <2>3
  <1>16. OneEntry'
    <2>1. ASSUME NEW o \in Orders, NEW p \in Orders, owner'[o] \in Trades, owner'[p] = owner'[o],
                 exSide[o] = "buy", exSide[p] = "buy"
          PROVE  o = p
      <3>1. CASE owner'[o] = t  BY <1>5, <2>1, <3>1 DEF OrdersOf
      <3>2. CASE owner'[o] # t
        <4>1. owner[o] = owner'[o] /\ owner[p] = owner'[p]
          BY <1>1, <2>1, <3>2 DEF TypeOK
        <4> QED  BY <2>1, <4>1 DEF Books, OneEntry
      <3> QED  BY <3>1, <3>2
    <2>2. \A u \in Trades : trd'[u] \in {"none", "deleted"} => OrdersOf(u)' = {}
      BY <1>6, <1>10 DEF Books, OneEntry
    <2> QED  BY <1>1, <2>1, <2>2 DEF OneEntry
  <1>17. Owned'
    BY <1>1, <1>3, <1>10 DEF Books, Owned, TypeOK
  <1>18. Balanced'  BY <1>1, <1>10, <1>11, <1>14, <1>15 DEF Balanced
  <1>19. Booked'
    <2>1. owner'[cur'] = t  BY <1>1 DEF TypeOK
    <2>2. pc' = "book" => Net(t)' > 0  BY <1>11, <1>13
    <2>3. pc' # "book" => amount'[t] = Net(t)'
      <3> SUFFICES ASSUME pc' # "book" PROVE amount'[t] = Net(t)'
        OBVIOUS
      <3>1. Net(t)' = 0  BY <1>2, <1>11, <1>13
      <3>2. PICK n \in Amounts :
               /\ n = NetFilled(t) + (IF resp.stat \in NonOpen THEN resp.fill ELSE 0)
               /\ amount' = [amount EXCEPT ![t] = IF n > 0 THEN n ELSE @]
        BY DEF RecordEntry
      <3>3. NetFilled(t) = 0  BY <1>12, NetIsSum
      <3>4. n = 0  BY <1>2, <1>11, <3>2, <3>3
      <3> QED  BY <1>4, <3>1, <3>2, <3>4 DEF TypeOK
    <2> QED  BY <1>1, <1>2, <1>10, <2>1, <2>2, <2>3 DEF Booked
  <1>20. Closed'
    <2>1. ASSUME NEW u \in Trades, trd'[u] = "closed"
          PROVE  u \in Trades \ {t} /\ trd[u] = "closed"
      BY <1>10, <2>1
    <2>2. ASSUME NEW u \in Trades \ {t}, trd[u] = "closed", NEW p \in OrdersOf(u),
                 dStat'[p] \notin NonOpen
          PROVE  exFill[p] = 0
      <3>1. p \in Orders /\ dStat'[p] = dStat[p]  BY <1>7, <1>8, <2>2 DEF OrdersOf
      <3> QED  BY <2>2, <3>1 DEF Books, Closed
    <2>3. \A u \in Trades \ {t} : trd[u] = "closed" => Net(u)' = 0
      BY <1>9 DEF Books, Closed
    <2> QED  BY <1>1, <1>6, <2>1, <2>2, <2>3 DEF Closed
  <1> QED  BY <1>16, <1>17, <1>18, <1>19, <1>20 DEF Books

\* An exit of the open trade.
LEMMA ExitedBooks ==
  ASSUME Plain, BInv, TypeOK', NEW t \in OpenTrades, RecordExit, plan.trade = t
  PROVE  Books'
  <1> USE DEF BInv, Known, EInv, KInv, IInv
  <1>1. /\ pc = "record" /\ plan.side = "sell" /\ cur \in Orders /\ cur' = cur
        /\ UNCHANGED <<exSide, exFill, exStat, bal, trd, amount>>
        /\ owner' = [owner EXCEPT ![cur] = t] /\ UpdateOrder(cur, resp)
    BY DEF RecordExit, RecordRow, ReplyLags, InHand, exch
  <1>2. exSide[cur] = "sell" /\ owner[cur] = NoTrade /\ resp.fill \in Nat /\ t \in Trades
    BY <1>1 DEF Orderly, SideAsPlanned, RowsExist, TypeOK, Reply, OpenTrades
  <1>3. cur \notin OrdersOf(t) /\ OrdersOf(t)' = OrdersOf(t) \union {cur}
    BY <1>1, <1>2, ConstantFacts DEF OrdersOf, TypeOK
  <1>4. \A u \in Trades \ {t} : OrdersOf(u)' = OrdersOf(u)
    BY <1>1, <1>2, ConstantFacts DEF OrdersOf, TypeOK
  <1>5. /\ dStat'[cur] = resp.stat /\ dFill'[cur] = resp.fill
        /\ \A p \in Orders \ {cur} : dStat'[p] = dStat[p] /\ dFill'[p] = dFill[p]
        /\ \A p \in Orders \ {cur} : owner'[p] = owner[p]
    BY <1>1 DEF UpdateOrder, TypeOK
  <1>6. \A u \in Trades : \A p \in OrdersOf(u) : p \in Orders \ {cur}
    BY <1>2, ConstantFacts DEF OrdersOf
  <1>7. ASSUME NEW u \in Trades \ {t} PROVE Net(u)' = Net(u)
    BY <1>1, <1>4, <1>5, <1>6, TradeKept
  <1>8. OpenTrades' = OpenTrades /\ \A u \in OpenTrades : u = t
    BY <1>1, OnlyOpen DEF OpenTrades
  <1>9. /\ pc' # "record" /\ (pc' = "book" => resp.stat \in NonOpen /\ resp.fill > 0)
        /\ (resp.stat \in NonOpen /\ resp.fill > 0 => pc' = "book")
    <2>1. resp.stat # "canceled"  BY <1>1 DEF Prepared, ZInv, Plain
    <2> QED  BY <2>1 DEF RecordExit, NonOpen
  <1>10. amount[t] = Net(t) /\ Net(t) \in Int /\ Total(t) \in Int
    BY <1>1, BookSums DEF Books, Booked
  <1>11. Net(t)' = IF resp.stat \in NonOpen THEN Net(t) - resp.fill ELSE Net(t)
    <2>1. \A p \in DoneOf(t) : exSide'[p] = exSide[p] /\ dFill'[p] = dFill[p]
      BY <1>1, <1>2, <1>5, <1>6 DEF DoneOf
    <2>2. CASE resp.stat \in NonOpen
      <3>1. DoneOf(t)' = DoneOf(t) \union {cur} /\ cur \notin DoneOf(t)
        BY <1>2, <1>3, <1>5, <1>6, <2>2 DEF DoneOf
      <3>2. Net(t)' = Net(t) + (IF exSide'[cur] = "buy" THEN dFill'[cur] ELSE -dFill'[cur])
        BY <1>1, <2>1, <3>1, NetGrows
      <3> QED  BY <1>1, <1>2, <1>5, <1>10, <2>2, <3>2
    <2>3. CASE resp.stat \notin NonOpen
      <3>1. DoneOf(t)' = DoneOf(t)  BY <1>2, <1>3, <1>5, <1>6, <2>3 DEF DoneOf
      <3>2. Net(t)' = Net(t)  BY <2>1, <3>1, SameNet
      <3> QED  BY <2>3, <3>2
    <2> QED  BY <2>2, <2>3
  <1>12. Total(t)' = Total(t) + SignedOn'[cur]
    <2>1. \A p \in OrdersOf(t) : exSide'[p] = exSide[p] /\ exFill'[p] = exFill[p]
      BY <1>1
    <2> QED  BY <1>1, <1>3, <2>1, TotalGrows
  <1>13. SignedOn' = SignedOn  BY <1>1 DEF SignedOn
  <1>14. OneEntry'
    <2>1. ASSUME NEW o \in Orders, NEW p \in Orders, owner'[o] \in Trades, owner'[p] = owner'[o],
                 exSide[o] = "buy", exSide[p] = "buy"
          PROVE  o = p
      <3>1. o # cur /\ p # cur  BY <1>2, <2>1
      <3> QED  BY <1>5, <2>1, <3>1 DEF Books, OneEntry
    <2>2. \A u \in Trades : trd[u] \in {"none", "deleted"} => OrdersOf(u)' = {}
      BY <1>4 DEF Books, OneEntry, OpenTrades
    <2> QED  BY <1>1, <2>1, <2>2 DEF OneEntry
  <1>15. Owned'
    BY <1>1, <1>5, <1>8 DEF Books, Owned, TypeOK
  <1>16. Balanced'
    <2>1. bal = Total(t) + SignedOn[cur]  BY <1>1 DEF Books, Balanced
    <2>2. SignedOn[cur] \in Int /\ Total(t)' \in Int
      BY <1>1, <1>10, <1>12, <1>13 DEF SignedOn, TypeOK
    <2> QED  BY <1>1, <1>8, <1>9, <1>12, <1>13, <2>1, <2>2 DEF Balanced
  <1>17. Booked'
    <2>1. owner'[cur'] = t  BY <1>1 DEF TypeOK
    <2>2. pc' = "book" => amount'[t] = Net(t)' + dFill'[cur']
      BY <1>1, <1>2, <1>5, <1>9, <1>10, <1>11
    <2>3. pc' # "book" => amount'[t] = Net(t)'
      BY <1>1, <1>2, <1>9, <1>10, <1>11
    <2> QED  BY <1>1, <1>2, <1>8, <2>1, <2>2, <2>3 DEF Booked
  <1>18. Closed'
    <2>1. ASSUME NEW u \in Trades, trd[u] = "closed" PROVE u \in Trades \ {t}
      BY <2>1 DEF OpenTrades
    <2>2. ASSUME NEW u \in Trades, trd[u] = "closed", NEW p \in OrdersOf(u),
                 dStat'[p] \notin NonOpen
          PROVE  exFill[p] = 0
      <3>1. dStat'[p] = dStat[p]  BY <1>5, <1>6, <2>2
      <3> QED  BY <2>2, <3>1 DEF Books, Closed
    <2>3. \A u \in Trades : trd[u] = "closed" => Net(u)' = 0
      BY <1>7, <2>1 DEF Books, Closed
    <2> QED  BY <1>1, <1>4, <2>1, <2>2, <2>3 DEF Closed
  <1> QED  BY <1>14, <1>15, <1>16, <1>17, <1>18 DEF Books

\* An entry that expired empty.
LEMMA ExpiredBooks ==
  ASSUME BInv, RecordNothing
  PROVE  Books'
  <1> USE DEF BInv, Known, EInv, KInv, IInv
  <1>1. /\ pc = "record" /\ pc' = "done" /\ plan.side = "buy" /\ cur \in Orders
        /\ resp.stat = "expired" /\ resp.fill = 0
        /\ UNCHANGED <<exSide, exFill, exStat, bal, owner, dStat, dFill, trd, amount>>
    BY DEF RecordNothing, ExpiredEmpty, Failed, NeverReplaces, ReplyLags, InHand, exch, rows
  <1>2. exStat[cur] = "expired" /\ exFill[cur] = 0
    BY <1>1 DEF ReplyExact, NonOpen
  <1>3. OpenTrades = {} /\ exSide[cur] = "buy" /\ bal = 0
    BY <1>1, <1>2 DEF Control, Planned, Preparing, Orderly, SideAsPlanned, Sequenced
  <1>4. \A t : OrdersOf(t)' = OrdersOf(t)  BY <1>1 DEF OrdersOf
  <1>5. \A t : Net(t)' = Net(t)  BY <1>1, <1>4, TradeKept
  <1>6. OpenTrades' = {}  BY <1>1, <1>3 DEF OpenTrades
  <1>7. OneEntry'  BY <1>1, <1>4 DEF Books, OneEntry
  <1>8. Owned'  BY <1>1, <1>2, <1>3 DEF Books, Owned
  <1>9. Balanced' /\ Booked'  BY <1>1, <1>3, <1>6 DEF Balanced, Booked
  <1>10. Closed'  BY <1>1, <1>4, <1>5 DEF Books, Closed
  <1> QED  BY <1>7, <1>8, <1>9, <1>10 DEF Books

\* The fee of an entry that is done: nothing new in the rows.
LEMMA AssignedBooks ==
  ASSUME BInv, AssignFees
  PROVE  Books'
  <1> USE DEF BInv, Known, EInv, KInv, IInv
  <1>1. PICK t \in OpenTrades : \E o \in FilledEntries(t) : UpdateTradeState(o, Snapshot(o), "done")
    BY DEF AssignFees
  <1>2. PICK o \in FilledEntries(t) : UpdateTradeState(o, Snapshot(o), "done")
    BY <1>1
  <1>3. /\ pc = "loop" /\ UNCHANGED <<exSide, exFill, exStat, bal, owner, trd, amount>>
    BY DEF AssignFees, exch
  <1>4. /\ o \in Orders /\ owner[o] = t /\ exSide[o] = "buy"
        /\ dStat[o] = exStat[o] /\ dFill[o] = exFill[o] /\ exStat[o] \in NonOpen
        /\ exFill[o] > 0 /\ t \in Trades
    BY <1>2 DEF FilledEntries, OrdersOf, RowsExact, OpenTrades
  <1>5. UNCHANGED <<dStat, dFill>> /\ cur' = o /\ pc' = "book"
    BY <1>2, <1>4 DEF UpdateTradeState, UpdateOrder, Snapshot, TypeOK
  <1>6. \A u : OrdersOf(u)' = OrdersOf(u)  BY <1>3 DEF OrdersOf
  <1>7. \A u : Net(u)' = Net(u)  BY <1>3, <1>5, <1>6, TradeKept
  <1>8. \A u : Total(u)' = Total(u)  BY <1>3, <1>6, SameTotal
  <1>9. OpenTrades' = OpenTrades  BY <1>3 DEF OpenTrades
  <1>10. amount[t] = Net(t) /\ Net(t) > 0
    <2>1. HasEntry(t)  BY <1>2 DEF HasEntry
    <2>2. amount[t] > 0  BY <1>3, <1>4, <2>1 DEF ZInv, AllBacked, Backed, EntryBooked
    <2> QED  BY <1>3, <2>2 DEF Books, Booked
  <1>11. OneEntry'  BY <1>3, <1>6 DEF Books, OneEntry
  <1>12. Owned' /\ Balanced'
    BY <1>3, <1>5, <1>8, <1>9 DEF Books, Owned, Balanced
  <1>13. Booked'
    BY <1>3, <1>4, <1>5, <1>7, <1>9, <1>10 DEF Books, Booked
  <1>14. Closed'  BY <1>3, <1>5, <1>6, <1>7 DEF Books, Closed
  <1> QED  BY <1>11, <1>12, <1>13, <1>14 DEF Books

\* A cancelled order: its trade is deleted, or its row is written.
LEMMA CancellingBooks ==
  ASSUME BInv, Leaves, TypeOK', NEW c, NEW acted \in BOOLEAN, Cancelling(c, acted),
         c = resp \/ resp.stat = "open"
  PROVE  Books'
  <1> USE DEF BInv, Known, EInv, KInv, IInv
  <1>1. /\ pc = "cancel" /\ cur \in Orders /\ c \in Reply /\ c.fill <= exFill[cur]
        /\ UNCHANGED <<exSide, exFill, bal>>
    BY CancellingStep DEF Cancelling
  <1>2. FewerOpen  BY <1>1 DEF Cancelling, FewerOpen, TypeOK
  <1>3. owner[cur] \in Trades /\ dStat[cur] # "none"
    <2>1. CASE job = "clear"
      <3>1. Preparing /\ owner[cur] = plan.trade
        BY <1>1, <2>1 DEF Preparing, Prepared, ZInv
      <3>2. plan.trade \in Trades
        BY <3>1 DEF ExitHeld, ZInv, RowsComplete, TypeOK, Plan
      <3> QED  BY <1>1, <3>1, <3>2 DEF RowsComplete
    <2>2. CASE job # "clear"
      <3>1. job = "timeout"  BY <1>1, <2>2, AfterPlain
      <3> QED  BY <1>1, <3>1 DEF RowsComplete
    <2> QED  BY <2>1, <2>2
  <1>4. RowAnew(cur, c)
    <2>1. CASE dStat[cur] = "open"  BY <2>1 DEF RowAnew
    <2>2. CASE dStat[cur] # "open"
      <3>1. resp.stat \in NonOpen /\ resp.fill = 0 /\ dStat[cur] \in NonOpen
        BY <1>1, <1>3, <2>2 DEF Control, OpenRows, TypeOK, Statuses
      <3>2. c = resp  BY <3>1, ConstantFacts
      <3> QED  BY <1>1, <3>1, <3>2 DEF RowsExact, ReplyExact, RowAnew
    <2> QED  BY <2>1, <2>2
  <1>5. CASE DeleteTrade(owner[cur]) /\ pc' = AfterCancel(TRUE)
    <2>1. pc' \in {"clear", "done"}  BY <1>1, <1>5, AfterPlain
    <2> QED  BY <1>1, <1>2, <1>3, <1>5, <2>1, DeletedBooks
  <1>6. ASSUME NEW next \in {"clear", "done", "safe"}, UpdateTradeState(cur, c, next),
               UNCHANGED <<owner, trd, amount>>
        PROVE  Books'
    <2>1. UpdateOrder(cur, c) /\ pc' # "record"  BY <1>6 DEF UpdateTradeState
    <2>2. IF c.stat \in NonOpen /\ c.fill > 0 THEN pc' = "book" /\ cur' = cur ELSE pc' # "book"
      BY <1>6 DEF UpdateTradeState
    <2> QED  BY <1>1, <1>2, <1>3, <1>4, <1>6, <2>1, <2>2, UpdatedBooks
  <1>7. CASE EntryCancelled(c)
    <2>1. CASE DeleteTrade(owner[cur]) /\ pc' = AfterCancel(TRUE)  BY <1>5, <2>1
    <2>2. CASE ~ (DeleteTrade(owner[cur]) /\ pc' = AfterCancel(TRUE))
      <3>1. UpdateTradeState(cur, c, AfterCancel(c.fill = 0)) /\ UNCHANGED <<owner, trd, amount>>
        BY <1>7, <2>2 DEF EntryCancelled
      <3>2. AfterCancel(c.fill = 0) \in {"clear", "done", "safe"}
        BY <1>1, AfterPlain
      <3> QED  BY <1>6, <3>1, <3>2
    <2> QED  BY <2>1, <2>2
  <1>8. CASE ExitCancelled(c, acted)
    <2>1. AfterCancel(acted) \in {"clear", "done", "safe"}  BY <1>1, AfterPlain
    <2>2. PICK next \in {"clear", "done", "safe"} : UpdateTradeState(cur, c, next)
      BY <1>8, <2>1 DEF ExitCancelled
    <2>3. UNCHANGED <<owner, trd, amount>>  BY <1>8 DEF ExitCancelled
    <2> QED  BY <1>6, <2>2, <2>3
  <1> QED  BY <1>7, <1>8 DEF Cancelling

LEMMA StepBooks ==
  ASSUME Plain, BInv, TypeOK', Leaves, [Next]_vars
  PROVE  Books'
  <1> USE DEF BInv, Known, EInv, ZInv, KInv, IInv, TypeOK
  <1>1. ASSUME NEW o \in Orders, ExchangeFill(o) PROVE Books'  BY <1>1, FilledBooks
  <1>2. ASSUME NEW o \in Orders, ExchangeCancel(o) PROVE Books'
    BY <1>2, QuietBooks DEF ExchangeCancel, rows, control, SameInHand, FewerOpen
  <1>3. CASE Start  BY <1>3, QuietBooks DEF Start, rows, exch, SameInHand, FewerOpen
  <1>4. ASSUME NEW o \in Orders, SyncOrder(o) PROVE Books'
    <2>1. phase # "startup"  BY <1>4 DEF SyncOrder, SyncNext, First, NothingYet
    <2>2. /\ pc = "sync" /\ o \in clr /\ UNCHANGED <<exch, owner, trd, amount>>
          /\ UpdateTradeState(o, Snapshot(o), "sync")
      BY <1>4, <2>1 DEF SyncOrder, SyncNext, First
    <2>3. Preparing  BY <2>1, <2>2 DEF Preparing
    <2>4. plan.trade \in Trades
      BY <2>3 DEF ExitHeld, RowsComplete, Plan
    <2>5. owner[o] \in Trades /\ dStat[o] = "open" /\ exStat[o] # "none"
      BY <2>2, <2>3, <2>4 DEF Prepared, Control, OpenRows, RowsExist
    <2>6. Snapshot(o) \in Reply  BY <2>5, SnapshotTyped
    <2> QED
      BY <2>2, <2>5, <2>6, UpdatedBooks DEF UpdateTradeState, Snapshot, RowAnew, FewerOpen, exch
  <1>5. ASSUME NEW o \in Orders, SyncForgotten(o) PROVE Books'
    BY <1>5 DEF SyncForgotten, Plain
  <1>6. ASSUME NEW o \in Orders, SyncUnreachable(o) PROVE Books'
    BY <1>6, QuietBooks DEF SyncUnreachable, SyncNext, rows, exch, SameInHand, FewerOpen
  <1>7. CASE SyncDone
    BY <1>7, QuietBooks DEF SyncDone, GoTo, Failed, rows, exch, SameInHand, FewerOpen
  <1>8. CASE AssignFees  BY <1>8, AssignedBooks
  <1>9. CASE NoFeesAssigned
    BY <1>9, QuietBooks DEF NoFeesAssigned, GoTo, rows, exch, SameInHand, FewerOpen
  <1>10. CASE BookOrder  BY <1>10, BookedBooks
  <1>11. ASSUME NEW o \in Orders, ManageOrder(o) PROVE Books'
    <2>1. /\ pc = "loop" /\ o \in todo /\ owner[o] \in Trades
          /\ UNCHANGED <<exch, owner, trd, amount>>
          /\ UpdateOrder(o, Snapshot(o)) /\ cur' = o /\ pc' # "record"
      BY <1>11 DEF ManageOrder, Managing, First, UpdateTradeState
    <2>2. IF Snapshot(o).stat \in NonOpen /\ Snapshot(o).fill > 0
          THEN pc' = "book" ELSE pc' # "book"
      BY <1>11, ConstantFacts DEF ManageOrder, UpdateTradeState, Snapshot
    <2>3. dStat[o] = "open" /\ exStat[o] # "none"
      BY <2>1 DEF Control, OpenRows, RowsExist
    <2>4. Snapshot(o) \in Reply  BY <2>3, SnapshotTyped
    <2> QED
      BY <2>1, <2>2, <2>3, <2>4, UpdatedBooks DEF Snapshot, RowAnew, FewerOpen, exch
  <1>12. ASSUME NEW o \in Orders, ManageUnreachable(o) PROVE Books'
    BY <1>12, QuietBooks DEF ManageUnreachable, Managing, rows, exch, SameInHand, FewerOpen
  <1>13. CASE ManageDone
    BY <1>13, QuietBooks DEF ManageDone, Managing, GoTo, rows, exch, SameInHand, FewerOpen
  <1>14. CASE Resume
    <2>1. pc = "done" /\ pc' = "loop" /\ UNCHANGED <<exch, rows>>
      BY <1>14 DEF Resume, GoTo
    <2> QED  BY <2>1, QuietBooks DEF exch, rows, SameInHand, FewerOpen
  <1>15. CASE CancelKept
    <2>1. pc' \in {"clear", "done"}  BY <1>15, AfterPlain DEF CancelKept
    <2> QED  BY <1>15, <2>1, QuietBooks DEF CancelKept, exch, rows, SameInHand, FewerOpen
  <1>16. CASE CancelKnown
    <2>1. PICK acted \in BOOLEAN : Cancelling(resp, acted)  BY <1>16, CancelKnownCase
    <2> QED  BY <2>1, CancellingBooks
  <1>17. CASE CancelAcked
    <2>1. Cancelling(Answer, TRUE) /\ resp.stat = "open"
      BY <1>17, CancelAckedCase DEF CancelAcked
    <2> QED  BY <2>1, CancellingBooks
  <1>18. CASE CancelPending
    <2>1. CASE exSide[cur] = "buy"
      <3>1. /\ pc = "cancel" /\ pc' = AfterCancel(FALSE) /\ UNCHANGED <<exch, rows>>
        BY <1>18, <2>1 DEF CancelPending
      <3>2. pc' \in {"clear", "done"}  BY <3>1, AfterPlain
      <3> QED  BY <3>1, <3>2, QuietBooks DEF exch, rows, SameInHand, FewerOpen
    <2>2. CASE exSide[cur] # "buy"
      <3>1. Cancelling(Snapshot(cur), TRUE) /\ resp.stat = "open"
        BY <1>18, <2>2, CancelPendingCase DEF CancelPending
      <3> QED  BY <3>1, CancellingBooks
    <2> QED  BY <2>1, <2>2
  <1>19. CASE CancelForgotten  BY <1>19 DEF CancelForgotten, Plain
  <1>20. CASE CancelRaised
    <2>1. pc = "cancel" /\ pc' \in {"done", "failed", "loop"}
          /\ UNCHANGED <<exSide, exFill, bal, rows>>
      BY <1>20 DEF CancelRaised, Failed, Abandon
    <2>2. FewerOpen  BY <1>20 DEF CancelRaised, FewerOpen
    <2> QED  BY <2>1, <2>2, QuietBooks DEF rows, SameInHand
  <1>21. CASE ReplaceOrderFailed  BY <1>21 DEF ReplaceOrderFailed, NeverReplaces
  <1>22. CASE SafeExit
    BY <1>22, QuietBooks DEF SafeExit, Failed, rows, exch, Plan, SameInHand, FewerOpen
  <1>23. CASE HandleSimilarOpenOrder
    BY <1>23, QuietBooks DEF HandleSimilarOpenOrder, Failed, rows, exch, SameInHand, FewerOpen
  <1>24. ASSUME NEW o \in Orders, ClearOrder(o) PROVE Books'
    BY <1>24, QuietBooks DEF ClearOrder, rows, exch, SameInHand, FewerOpen
  <1>25. ASSUME NEW o \in Orders, ClearUnreachable(o) PROVE Books'
    BY <1>25, QuietBooks DEF ClearUnreachable, rows, exch, SameInHand, FewerOpen
  <1>26. ASSUME NEW o \in Orders, CreateOrder(o) PROVE Books'  BY <1>26, CreatedBooks
  <1>27. ASSUME NEW o \in Orders, CreateReplyLost(o) PROVE Books'
    BY <1>27 DEF CreateReplyLost, Plain
  <1>28. CASE CreateRejected
    BY <1>28, QuietBooks DEF CreateRejected, Placing, Failed, rows, exch, SameInHand,
       FewerOpen
  <1>29. CASE CreateUnpaid
    BY <1>29, QuietBooks DEF CreateUnpaid, Placing, rows, exch, SameInHand, FewerOpen
  <1>30. CASE RecordNothing  BY <1>30, ExpiredBooks
  <1>31. CASE RecordEntry
    <2>1. plan.trade \in Trades  BY <1>31 DEF RecordEntry, RowsComplete
    <2> QED  BY <1>31, <2>1, EnteredBooks
  <1>32. CASE RecordExit
    <2>1. plan.trade \in OpenTrades  BY <1>32 DEF RecordExit, Control, Planned
    <2> QED  BY <1>32, <2>1, ExitedBooks
  <1>33. CASE ExitTrade
    BY <1>33, QuietBooks DEF ExitTrade, Exiting, rows, exch, SameInHand, FewerOpen
  <1>34. ASSUME NEW o \in Orders, RecoverOrder(o) PROVE Books'
    BY <1>34 DEF RecoverOrder, Control, Recovering
  <1>35. CASE RecoverDone  BY <1>35 DEF RecoverDone, Control, Recovering
  <1>36. CASE ExitSignal
    BY <1>36, QuietBooks DEF ExitSignal, rows, exch, SameInHand, FewerOpen
  <1>37. CASE ExitsDone
    BY <1>37, QuietBooks DEF ExitsDone, GoTo, Exiting, rows, exch, SameInHand, FewerOpen
  <1>38. CASE AdjustPosition  BY <1>38 DEF AdjustPosition, Plain
  <1>39. CASE NoAdjustment
    BY <1>39, QuietBooks DEF NoAdjustment, GoTo, rows, exch, SameInHand, FewerOpen
  <1>40. CASE EnterPosition
    BY <1>40, QuietBooks DEF EnterPosition, rows, exch, SameInHand, FewerOpen
  <1>41. CASE NoEntry
    BY <1>41, QuietBooks DEF NoEntry, GoTo, rows, exch, SameInHand, FewerOpen
  <1>42. CASE Crash  BY <1>42 DEF Crash, Plain
  <1>43. CASE UNCHANGED vars
    BY <1>43, QuietBooks DEF vars, exch, rows, control, SameInHand, FewerOpen
  <1> QED
    BY <1>1, <1>2, <1>3, <1>4, <1>5, <1>6, <1>7, <1>8, <1>9, <1>10, <1>11, <1>12, <1>13,
       <1>14, <1>15, <1>16, <1>17, <1>18, <1>19, <1>20, <1>21, <1>22, <1>23, <1>24, <1>25,
       <1>26, <1>27, <1>28, <1>29, <1>30, <1>31, <1>32, <1>33, <1>34, <1>35, <1>36, <1>37,
       <1>38, <1>39, <1>40, <1>41, <1>42, <1>43
    DEF Next, Bot, Exchange, Startup, Manage, Place, Loops, Handlers

LEMMA InitBalanced == ASSUME Plain PROVE Init => BInv
  <1> SUFFICES ASSUME Init PROVE BInv
    OBVIOUS
  <1>1. Known  BY InitEmpty, InitBacked, InitBooks DEF Known
  <1>2. Created = {} /\ bal = 0 /\ OpenTrades = {}
    BY DEF Init, Created, OpenTrades, Plain
  <1>3. Sequenced
    BY <1>2, ConstantFacts DEF Init, Sequenced, IsLast
  <1>4. Control
    BY ConstantFacts DEF Init, Control, OpenRows, Selling, Planned, Recovering, Exits,
       Preparing, InHand, NoReply, NonOpen
  <1>5. Books
    <2>1. OneEntry  BY ConstantFacts DEF Init, OneEntry, OrdersOf
    <2>2. Owned /\ Balanced /\ Booked
      BY <1>2 DEF Init, Owned, Balanced, Booked
    <2>3. Closed  BY DEF Init, Closed
    <2> QED  BY <2>1, <2>2, <2>3 DEF Books
  <1> QED  BY <1>1, <1>3, <1>4, <1>5 DEF BInv

LEMMA StepBalanced ==
  ASSUME Plain, BInv, [Next]_vars
  PROVE  BInv'
  <1>1. Known' /\ Leaves  BY StepKnown DEF BInv
  <1>2. TypeOK'  BY <1>1 DEF Known, EInv, KInv, IInv
  <1>3. Sequenced'  BY StepSequenced
  <1>4. Control'  BY StepHandlers
  <1>5. Books'  BY <1>1, <1>2, StepBooks
  <1> QED  BY <1>1, <1>3, <1>4, <1>5 DEF BInv

\* No order that can still fill is out of sight: its row is open and belongs to an
\* open trade, which is what manage_open_orders looks for, whatever the exchange
\* does between two calls of the bot.
THEOREM LiveOrdersSeen ==
  ASSUME Plain
  PROVE  Spec => []LiveOrdersTracked
  <1>1. BInv /\ [Next]_vars => BInv'  BY StepBalanced
  <1>2. BInv => LiveOrdersTracked
    <2> SUFFICES ASSUME BInv, NEW o \in Orders, exStat[o] = "open",
                        ~ (pc = "record" /\ o = cur)
                 PROVE  dStat[o] = "open" /\ trd[owner[o]] = "open"
      BY DEF LiveOrdersTracked
    <2> USE DEF BInv, Known, EInv, KInv, IInv
    <2>1. owner[o] \in OpenTrades  BY DEF Books, Owned
    <2>2. dStat[o] # "none" /\ dStat[o] \notin NonOpen
      BY <2>1, ConstantFacts DEF OpenTrades, RowsComplete, RowsExact
    <2> QED  BY <2>1, <2>2 DEF OpenTrades, TypeOK, Statuses
  <1> QED  BY InitBalanced, <1>1, <1>2, PTL DEF Spec

\* Whenever no handler runs, the amount of the open trade is what its done orders
\* bought less what they sold, and a closed trade has sold all it bought: nothing
\* is booked twice, or forgotten, or claimed for another trade.
THEOREM BooksBalance ==
  ASSUME Plain
  PROVE  Spec => []BooksAgree
  <1>1. BInv /\ [Next]_vars => BInv'  BY StepBalanced
  <1>2. BInv => BooksAgree
    <2> SUFFICES ASSUME BInv, pc = "loop", NEW t \in Trades
                 PROVE  /\ trd[t] = "open" =>
                              amount[t] = IF NetFilled(t) > 0 THEN NetFilled(t) ELSE 0
                        /\ trd[t] = "closed" => NetFilled(t) = 0
      BY DEF BooksAgree
    <2> USE DEF BInv, Known, EInv, KInv, IInv
    <2>1. NetFilled(t) = Net(t)  BY NetIsSum
    <2>2. trd[t] = "open" => amount[t] = Net(t) /\ amount[t] \in Nat
      BY DEF Books, Booked, OpenTrades, TypeOK
    <2>3. trd[t] = "closed" => Net(t) = 0  BY DEF Books, Closed
    <2> QED  BY <2>1, <2>2, <2>3
  <1> QED  BY InitBalanced, <1>1, <1>2, PTL DEF Spec

=============================================================================
