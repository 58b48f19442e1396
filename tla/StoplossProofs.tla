--------------------------- MODULE StoplossProofs ---------------------------
(***************************************************************************)
(* What holds of StoplossOnExchange for every number of orders, all        *)
(* amounts and levels, on both kinds of exchange, and any number of failed *)
(* calls, lost replies and process deaths.                                 *)
(*                                                                         *)
(* Levels: the stops the bot knows never stand above the level it trails   *)
(* from, and a new stop is never lower than one it knows.  LevelsBounded   *)
(* is inductive with the types of what it speaks of.  Steps are of four    *)
(* shapes: a new order, the next process(), a crash, and all others, which *)
(* are Quiet.                                                              *)
(*                                                                         *)
(* Books: the amount of the trade is what its orders bought less what they *)
(* sold, a closed trade has sold all, and no stop is left behind it.  IInv *)
(* joins the books of filled rows, the types and where the loop stands in  *)
(* its control, and what a leftover stop may be.                           *)
(***************************************************************************)
EXTENDS StoplossOnExchange, SumLemmas

LInv ==
    /\ kind \in [Ids -> {"none", "entry", "exit", "stop"}]
    /\ stat \in [Ids -> {"open", "closed", "canceled"}]
    /\ lvl \in [Ids -> Nat]
    /\ row \in [Ids -> Rows]
    /\ stopLoss \in Nat /\ saved \in Nat
    /\ LevelsBounded

\* No order is new, rows keep what they are, and the stop loss goes up or is
\* committed.
Quiet ==
    /\ lvl' = lvl /\ kind' = kind
    /\ stat' \in [Ids -> {"open", "closed", "canceled"}]
    /\ \A p \in Ids : stat'[p] = "open" => stat[p] = "open"
    /\ row' \in [Ids -> Rows]
    /\ \A p \in Ids : row'[p].as = "stop" => row[p].as = "stop"
    /\ \/ stopLoss' \in Nat /\ stopLoss' >= stopLoss /\ saved' = saved /\ fresh' = fresh
       \/ stopLoss' = stopLoss /\ saved' = stopLoss

NewStop(o) == kind'[o] = "stop" /\ stat'[o] = "open" /\ ~Live(o)
NotLower == \A o \in Ids : NewStop(o) => \A p \in Stops : lvl[p] <= lvl'[o]

-----------------------------------------------------------------------------
(* The four shapes.                                                         *)

\* A quiet step.
LEMMA QuietStep == LInv /\ Quiet => LInv' /\ NotLower
<1> SUFFICES ASSUME LInv, Quiet PROVE LInv' /\ NotLower  OBVIOUS
<1>1. Stops' \subseteq Stops
  BY DEF Quiet, Stops
<1>2. LevelsBounded'
  <2>1. CASE stopLoss' \in Nat /\ stopLoss' >= stopLoss /\ saved' = saved /\ fresh' = fresh
    <3>1. \A o \in Stops' : lvl'[o] <= stopLoss'
      BY <1>1, <2>1 DEF Quiet, LInv, LevelsBounded, Stops
    <3>2. \A o \in Stops' : o \notin fresh' => lvl'[o] <= saved'
      BY <1>1, <2>1 DEF Quiet, LInv, LevelsBounded, Stops
    <3> QED  BY <2>1, <3>1, <3>2 DEF LInv, LevelsBounded
  <2>2. CASE stopLoss' = stopLoss /\ saved' = stopLoss
    BY <1>1, <2>2 DEF Quiet, LInv, LevelsBounded, Stops
  <2> QED  BY <2>1, <2>2 DEF Quiet
<1>3. LInv'
  BY <1>2 DEF LInv, Quiet
<1>4. NotLower
  BY DEF NotLower, NewStop, Live, Quiet, LInv
<1> QED  BY <1>3, <1>4

\* NewOrder, by whatever action: a stop gets the level of the trade.
LEMMA NewOrderStep ==
  ASSUME LInv, NEW k \in {"entry", "exit", "stop"}, NEW a, NEW l \in Nat,
         NEW r \in Rows, r.as = "stop" => l = stopLoss, k = "stop" => l = stopLoss,
         NewOrder(k, a, l, r), stopLoss' = stopLoss
  PROVE  LInv' /\ NotLower
<1>1. PICK o \in Ids :
        /\ kind[o] = "none"
        /\ kind' = [kind EXCEPT ![o] = k]
        /\ lvl' = [lvl EXCEPT ![o] = l]
        /\ row' = [row EXCEPT ![o] = r]
        /\ fresh' = IF r.as = "stop" THEN fresh \union {o}
                    ELSE IF r = NoRow THEN fresh ELSE {}
        /\ saved' = IF r.as \in {"stop", "none"} THEN saved ELSE stopLoss
        /\ stat' = stat
  BY DEF NewOrder, First
<1>2. /\ kind' \in [Ids -> {"none", "entry", "exit", "stop"}]
      /\ stat' \in [Ids -> {"open", "closed", "canceled"}]
      /\ lvl' \in [Ids -> Nat] /\ row' \in [Ids -> Rows]
  BY <1>1 DEF LInv
<1>3. stopLoss' \in Nat /\ saved' \in Nat /\ saved' <= stopLoss'
  BY <1>1 DEF LInv, LevelsBounded
<1>4. \A p \in Stops' : lvl'[p] <= stopLoss'
  BY <1>1 DEF LInv, LevelsBounded, Stops
<1>5. r.as = "none" => r = NoRow
  BY DEF Rows, NoRow
<1>6. ASSUME NEW p \in Stops', p \notin fresh'  PROVE lvl'[p] <= saved'
  <2>1. CASE p = o
    <3>1. r.as = "stop"
      BY <1>1, <1>6, <2>1 DEF Stops, LInv
    <3> QED  BY <1>1, <1>6, <2>1, <3>1
  <2>2. CASE p # o
    <3>1. p \in Stops /\ lvl'[p] = lvl[p]
      BY <1>1, <1>6, <2>2 DEF Stops, LInv
    <3>2. CASE fresh \subseteq fresh'
      <4>1. lvl[p] <= saved
        BY <1>6, <3>1, <3>2 DEF LInv, LevelsBounded
      <4> QED
        BY <1>1, <1>3, <3>1, <4>1, <1>6, <2>2 DEF LInv, LevelsBounded, Stops
    <3>3. CASE ~(fresh \subseteq fresh')
      <4>1. saved' = stopLoss
        BY <1>1, <1>5, <3>3
      <4> QED  BY <3>1, <4>1 DEF LInv, LevelsBounded
    <3> QED  BY <3>2, <3>3
  <2> QED  BY <2>1, <2>2
<1>7. NotLower
  <2> SUFFICES ASSUME NEW q \in Ids, NewStop(q), NEW p \in Stops
               PROVE  lvl[p] <= lvl'[q]
    BY DEF NotLower
  <2>1. q = o
    BY <1>1 DEF NewStop, Live, LInv
  <2>2. k = "stop" /\ lvl'[q] = stopLoss
    BY <2>1, <1>1 DEF NewStop, LInv
  <2> QED  BY <2>2 DEF LInv, LevelsBounded
<1> QED  BY <1>2, <1>3, <1>4, <1>6, <1>7 DEF LInv, LevelsBounded

\* The next process(): rows are committed and finished ids given back.
LEMMA NextIterationStep == LInv /\ NextIteration => LInv' /\ NotLower
<1> SUFFICES ASSUME LInv, NextIteration PROVE LInv' /\ NotLower  OBVIOUS
<1>1. \A o \in Ids : IF Done(o)
        THEN kind'[o] = "none" /\ row'[o] = NoRow /\ stat'[o] = "open" /\ lvl'[o] = 0
        ELSE kind'[o] = kind[o] /\ row'[o] = row[o] /\ stat'[o] = stat[o] /\ lvl'[o] = lvl[o]
  BY DEF NextIteration, Keep
<1>2. NoRow \in Rows /\ NoRow.as = "none"
  BY DEF Rows, NoRow
<1>3. /\ kind' \in [Ids -> {"none", "entry", "exit", "stop"}]
      /\ stat' \in [Ids -> {"open", "closed", "canceled"}]
  BY DEF NextIteration, Keep, LInv
<1>4. lvl' \in [Ids -> Nat] /\ row' \in [Ids -> Rows]
  BY <1>2 DEF NextIteration, Keep, LInv
<1>5. saved' = stopLoss /\ stopLoss' = stopLoss
  BY DEF NextIteration
<1>6. \A p \in Stops' : p \in Stops /\ lvl'[p] = lvl[p]
  BY <1>1, <1>2 DEF Stops
<1>7. NotLower
  BY <1>1 DEF NotLower, NewStop, Live
<1> QED  BY <1>3, <1>4, <1>5, <1>6, <1>7 DEF LInv, LevelsBounded

\* The process dies: stops that were not committed are forgotten.
LEMMA CrashStep == LInv /\ Crash => LInv' /\ NotLower
<1> SUFFICES ASSUME LInv, Crash PROVE LInv' /\ NotLower  OBVIOUS
<1>1. \A o \in Ids : row'[o] = IF o \in fresh THEN NoRow ELSE row[o]
  BY DEF Crash
<1>2. NoRow \in Rows /\ NoRow.as = "none"
  BY DEF Rows, NoRow
<1>3. UNCHANGED <<kind, stat, lvl, saved>> /\ stopLoss' = saved
  BY DEF Crash, exch
<1>4. row' \in [Ids -> Rows]
  BY <1>2 DEF Crash, LInv
<1>5. \A p \in Stops' : p \in Stops /\ p \notin fresh
  BY <1>1, <1>2 DEF Stops
<1>6. NotLower
  BY <1>3 DEF NotLower, NewStop, Live
<1> QED  BY <1>3, <1>4, <1>5, <1>6 DEF LInv, LevelsBounded

-----------------------------------------------------------------------------
(* The quiet steps.                                                         *)

\* Booking a reply keeps what the row is, or makes an order without row an exit.
LEMMA UpdateTradeStateQuiet ==
  ASSUME LInv, NEW o, NEW st, NEW f, NEW then, UpdateTradeState(o, st, f, then),
         lvl' = lvl, kind' = kind, stopLoss' = stopLoss,
         stat' \in [Ids -> {"open", "closed", "canceled"}],
         \A p \in Ids : stat'[p] = "open" => stat[p] = "open"
  PROVE  Quiet
<1>1. row' = [row EXCEPT ![o] = [as |-> IF row[o] = NoRow THEN "exit" ELSE row[o].as,
                                 open |-> st = "open"]]
  BY DEF UpdateTradeState
<1>2. saved' = stopLoss
  BY DEF UpdateTradeState
<1>3. \A p \in Ids : row[p] # NoRow => row[p].as \in {"entry", "exit", "stop"}
  BY DEF LInv, Rows
<1>4. ASSUME o \in Ids
      PROVE [as |-> IF row[o] = NoRow THEN "exit" ELSE row[o].as, open |-> st = "open"] \in Rows
  BY <1>3, <1>4 DEF Rows
<1>5. row' \in [Ids -> Rows]
  BY <1>1, <1>4 DEF LInv
<1>6. \A p \in Ids : row'[p].as = "stop" => row[p].as = "stop"
  BY <1>1 DEF LInv
<1> QED  BY <1>2, <1>5, <1>6 DEF Quiet

\* Steps that leave the orders alone.
LEMMA LeaveQuiet ==
  ASSUME LInv, UNCHANGED <<kind, stat, lvl, row>>,
         \/ stopLoss' \in Nat /\ stopLoss' >= stopLoss /\ saved' = saved /\ fresh' = fresh
         \/ stopLoss' = stopLoss /\ saved' = stopLoss
  PROVE  Quiet
  BY DEF Quiet, LInv

\* The exchange fills and cancels; it revives nothing.
LEMMA ExchangeQuiet ==
  ASSUME LInv, NEW o \in Ids, ExchangeFill(o) \/ ExchangeCancel(o)
  PROVE  Quiet
<1>1. UNCHANGED <<kind, lvl, row, fresh, saved, stopLoss>>
  BY DEF ExchangeFill, ExchangeCancel, rows
<1>2. \/ stat' = [stat EXCEPT ![o] = IF fill[o] + 1 >= amt[o] THEN "closed" ELSE stat[o]]
      \/ stat' = [stat EXCEPT ![o] = "canceled"]
  BY DEF ExchangeFill, ExchangeCancel
<1>3. /\ stat' \in [Ids -> {"open", "closed", "canceled"}]
      /\ \A p \in Ids : stat'[p] = "open" => stat[p] = "open"
  BY <1>2 DEF LInv
<1> QED  BY <1>1, <1>3 DEF Quiet, LInv

\* The steps that book a reply; of these only a timeout changes the order.
LEMMA BookQuiet ==
  ASSUME LInv, SyncOrder \/ ManageOrder \/ RecoverOrder \/ RefindOrder \/ FetchStop
  PROVE  Quiet
<1>1. CASE SyncOrder
  BY <1>1, UpdateTradeStateQuiet DEF SyncOrder, exch, LInv
<1>2. CASE ManageOrder
  BY <1>2, UpdateTradeStateQuiet DEF ManageOrder, exch, LInv
<1>3. CASE RecoverOrder
  BY <1>3, UpdateTradeStateQuiet DEF RecoverOrder, exch, LInv
<1>4. CASE RefindOrder
  <2>1. PICK o \in todo :
          /\ IF row[o].open THEN UpdateTradeState(o, stat[o], fill[o], "refind")
             ELSE UNCHANGED <<rows, clr, pc, ret>>
          /\ UNCHANGED <<exch, stopLoss>>
    BY <1>4 DEF RefindOrder
  <2>2. CASE row[o].open
    BY <2>1, <2>2, UpdateTradeStateQuiet DEF exch, LInv
  <2>3. CASE ~row[o].open
    BY <2>1, <2>3, LeaveQuiet DEF exch, rows, LInv
  <2> QED  BY <2>2, <2>3
<1>5. CASE FetchStop
  BY <1>5, UpdateTradeStateQuiet DEF FetchStop, exch, LInv
<1> QED  BY <1>1, <1>2, <1>3, <1>4, <1>5

LEMMA ManageTimeoutQuiet == LInv /\ ManageTimeout => Quiet
<1> SUFFICES ASSUME LInv, ManageTimeout PROVE Quiet  OBVIOUS
<1>1. PICK o \in todo :
        /\ stat' = [stat EXCEPT ![o] = "canceled"]
        /\ UpdateTradeState(o, "canceled", fill[o], "manage")
        /\ UNCHANGED <<kind, lvl, stopLoss>>
  BY DEF ManageTimeout
<1>2. /\ stat' \in [Ids -> {"open", "closed", "canceled"}]
      /\ \A p \in Ids : stat'[p] = "open" => stat[p] = "open"
  BY <1>1 DEF LInv
<1> QED  BY <1>1, <1>2, UpdateTradeStateQuiet

\* Cancelling a stop, whether or not the cancel arrives.
LEMMA CancelQuiet ==
  ASSUME LInv, CancelStop \/ CancelStopInvalid \/ CancelStopFails
  PROVE  Quiet
<1>1. CASE CancelStop
  <2>1. PICK o \in clr :
          /\ stat' = [stat EXCEPT ![o] = "canceled"]
          /\ row' = [row EXCEPT ![o] = [as |-> row[o].as, open |-> FALSE]]
          /\ saved' = stopLoss
          /\ Live(o)
          /\ UNCHANGED <<kind, lvl, stopLoss>>
    BY <1>1 DEF CancelStop
  <2>2. /\ stat' \in [Ids -> {"open", "closed", "canceled"}]
        /\ \A p \in Ids : stat'[p] = "open" => stat[p] = "open"
    BY <2>1 DEF LInv
  <2>3. ASSUME NEW p \in Ids  PROVE row'[p] \in Rows /\ row'[p].as = row[p].as
    <3>1. CASE p # o
      BY <2>1, <3>1 DEF LInv
    <3>2. CASE p = o
      <4>1. row'[p] = [as |-> row[p].as, open |-> FALSE]
        BY <2>1, <3>2 DEF LInv
      <4>2. CASE row[p] = NoRow
        <5>1. row'[p] = NoRow
          BY <4>1, <4>2 DEF NoRow
        <5> QED  BY <5>1, <4>2 DEF Rows
      <4>3. CASE row[p] \in [as : {"entry", "exit", "stop"}, open : BOOLEAN]
        <5>2. row[p].as \in {"entry", "exit", "stop"}
          BY <4>3
        <5>3. [as |-> row[p].as, open |-> FALSE] \in Rows
          BY <5>2 DEF Rows
        <5> QED  BY <4>1, <5>3
      <4> QED  BY <4>2, <4>3 DEF LInv, Rows
    <3> QED  BY <3>1, <3>2
  <2>4. row' \in [Ids -> Rows]
    BY <2>1, <2>3 DEF LInv
  <2> QED  BY <2>1, <2>2, <2>3, <2>4 DEF Quiet
<1>2. CASE CancelStopInvalid
  BY <1>2, LeaveQuiet DEF CancelStopInvalid, exch, rows, LInv
<1>3. CASE CancelStopFails
  <2>1. UNCHANGED <<kind, lvl, row, fresh, saved, stopLoss>>
    BY <1>3 DEF CancelStopFails, rows
  <2>2. stat' = stat \/ \E o \in Ids : stat' = [stat EXCEPT ![o] = "canceled"]
    <3>1. PICK o \in clr :
            stat' \in {stat} \union {[stat EXCEPT ![o] = "canceled"] : x \in {y \in {o} : Live(y)}}
      BY <1>3 DEF CancelStopFails
    <3>2. stat' = stat \/ stat' = [stat EXCEPT ![o] = "canceled"]
      BY <3>1
    <3>3. o \in Ids \/ [stat EXCEPT ![o] = "canceled"] = stat
      BY DEF LInv
    <3> QED  BY <3>2, <3>3
  <2>3. /\ stat' \in [Ids -> {"open", "closed", "canceled"}]
        /\ \A p \in Ids : stat'[p] = "open" => stat[p] = "open"
    BY <2>2 DEF LInv
  <2> QED  BY <2>1, <2>3 DEF Quiet, LInv
<1> QED  BY <1>1, <1>2, <1>3

\* The steps that move the bot along, trail the stop or commit.
LEMMA MoveQuiet ==
  ASSUME LInv,
         \/ Start \/ Unreachable \/ ManageDone \/ ManageClosed \/ RecoverDone
         \/ FetchStopInvalid \/ FetchStopFails \/ NoStopLeft \/ TrailStop \/ KeepStop
         \/ CreateNot \/ CreateUnpaid \/ CreateInvalid \/ CreateFails \/ RefindDone
         \/ HandleTrade \/ ExitSignal \/ PlaceNot \/ PlaceUnpaid \/ Commit
         \/ AdjustNot \/ AdjustExit \/ TradeOver \/ UNCHANGED vars
  PROVE  Quiet
<1>1. UNCHANGED <<kind, stat, lvl, row>>
  BY DEF Start, Unreachable, ManageDone, ManageClosed, RecoverDone,
     FetchStopInvalid, FetchStopFails, NoStopLeft, TrailStop, KeepStop,
     CreateNot, CreateUnpaid, CreateInvalid, CreateFails, RefindDone,
     HandleTrade, ExitSignal, PlaceNot, PlaceUnpaid, Commit,
     AdjustNot, AdjustExit, TradeOver, vars, exch, rows
<1>2. CASE HandleTrade \/ ExitSignal
  <2>1. stopLoss' \in Nat /\ stopLoss' >= stopLoss /\ saved' = saved /\ fresh' = fresh
    BY <1>2 DEF HandleTrade, ExitSignal, Levels, rows
  <2> QED  BY <1>1, <2>1, LeaveQuiet
<1>3. CASE Commit
  BY <1>1, <1>3, LeaveQuiet DEF Commit
<1>4. CASE ~(HandleTrade \/ ExitSignal \/ Commit)
  <2>1. UNCHANGED <<stopLoss, saved, fresh>>
    BY <1>4 DEF Start, Unreachable, ManageDone, ManageClosed, RecoverDone,
       FetchStopInvalid, FetchStopFails, NoStopLeft, TrailStop, KeepStop,
       CreateNot, CreateUnpaid, CreateInvalid, CreateFails, RefindDone,
       PlaceNot, PlaceUnpaid, AdjustNot, AdjustExit, TradeOver, vars, rows
  <2>2. stopLoss' \in Nat /\ stopLoss' >= stopLoss
    BY <2>1 DEF LInv
  <2> QED  BY <1>1, <2>1, <2>2, LeaveQuiet
<1> QED  BY <1>2, <1>3, <1>4

-----------------------------------------------------------------------------
\* The steps that place an order.
LEMMA PlaceSteps ==
  ASSUME LInv, CreateStop \/ CreateLost \/ PlaceExit \/ AdjustEntry
  PROVE  LInv' /\ NotLower
<1>1. /\ [as |-> "stop", open |-> TRUE] \in Rows /\ [as |-> "exit", open |-> TRUE] \in Rows
      /\ [as |-> "entry", open |-> TRUE] \in Rows /\ NoRow \in Rows /\ NoRow.as = "none"
  BY DEF Rows, NoRow
<1>2. CASE CreateStop
  <2>1. NewOrder("stop", amount, stopLoss, [as |-> "stop", open |-> TRUE]) /\ stopLoss' = stopLoss
    BY <1>2 DEF CreateStop
  <2> QED  BY <1>1, <2>1, NewOrderStep DEF LInv
<1>3. CASE CreateLost
  <2>1. NewOrder("stop", amount, stopLoss, NoRow) /\ stopLoss' = stopLoss
    BY <1>3 DEF CreateLost
  <2> QED  BY <1>1, <2>1, NewOrderStep DEF LInv
<1>4. CASE PlaceExit
  <2>1. NewOrder("exit", want, 0, [as |-> "exit", open |-> TRUE]) /\ stopLoss' = stopLoss
    BY <1>4 DEF PlaceExit
  <2> QED  BY <1>1, <2>1, NewOrderStep
<1>5. CASE AdjustEntry
  <2>1. NewOrder("entry", AddAmt, 0, [as |-> "entry", open |-> TRUE]) /\ stopLoss' = stopLoss
    BY <1>5 DEF AdjustEntry
  <2> QED  BY <1>1, <2>1, NewOrderStep
<1> QED  BY <1>2, <1>3, <1>4, <1>5

\* Every step keeps the levels ordered and creates no lower stop.
LEMMA StepInv == LInv /\ [Next]_vars => LInv' /\ NotLower
<1> SUFFICES ASSUME LInv, [Next]_vars PROVE LInv' /\ NotLower  OBVIOUS
<1>1. CASE Crash
  BY <1>1, CrashStep
<1>2. CASE NextIteration
  BY <1>2, NextIterationStep
<1>3. CASE CreateStop \/ CreateLost \/ PlaceExit \/ AdjustEntry
  BY <1>3, PlaceSteps
<1>4. CASE Exchange
  BY <1>4, ExchangeQuiet, QuietStep DEF Exchange
<1>5. CASE SyncOrder \/ ManageOrder \/ RecoverOrder \/ RefindOrder \/ FetchStop
  BY <1>5, BookQuiet, QuietStep
<1>6. CASE ManageTimeout
  BY <1>6, ManageTimeoutQuiet, QuietStep
<1>7. CASE CancelStop \/ CancelStopInvalid \/ CancelStopFails
  BY <1>7, CancelQuiet, QuietStep
<1>8. CASE \/ Start \/ Unreachable \/ ManageDone \/ ManageClosed \/ RecoverDone
           \/ FetchStopInvalid \/ FetchStopFails \/ NoStopLeft \/ TrailStop \/ KeepStop
           \/ CreateNot \/ CreateUnpaid \/ CreateInvalid \/ CreateFails \/ RefindDone
           \/ HandleTrade \/ ExitSignal \/ PlaceNot \/ PlaceUnpaid \/ Commit
           \/ AdjustNot \/ AdjustExit \/ TradeOver \/ UNCHANGED vars
  BY <1>8, MoveQuiet, QuietStep
<1> QED
  BY <1>1, <1>2, <1>3, <1>4, <1>5, <1>6, <1>7, <1>8
  DEF Next, Bot, StartupStep, ManageStep, RecoverStep, ClearStep, StopStep, CreateStep,
      RefindStep, ExitStep, AdjustStep

LEMMA InitInv == Init => LInv
  BY DEF Init, LInv, LevelsBounded, Stops, Rows, NoRow

\* No stop the bot knows stands above the level it trails from, committed ones
\* not above the committed level, so that a restart never trails from below.
THEOREM Spec_LevelsBounded == Spec => []LevelsBounded
<1>1. LInv /\ [Next]_vars => LInv'
  BY StepInv
<1>2. LInv => LevelsBounded
  BY DEF LInv
<1> QED  BY InitInv, <1>1, <1>2, PTL DEF Spec

\* Trailing, recreating and restarting never lower the stop: one created now is
\* at least as high as every stop known before.
THEOREM Spec_StopNeverLowered == Spec => StopNeverLowered
<1>1. LInv /\ [Next]_vars => LInv'
  BY StepInv
<1>2. LInv /\ [Next]_vars =>
        [\A o \in Ids : (kind'[o] = "stop" /\ stat'[o] = "open" /\ ~Live(o))
            => \A p \in Stops : lvl[p] <= lvl'[o]]_vars
  BY StepInv DEF NotLower, NewStop
<1> QED  BY InitInv, <1>1, <1>2, PTL DEF Spec, StopNeverLowered

-----------------------------------------------------------------------------
(* The books.  Every order is entered in its row when a reply about it      *)
(* arrives; what the closed rows and the orders given back amount to is the *)
(* amount of the trade, and what all orders filled is the balance.          *)

Told(o) == row[o] # NoRow /\ ~row[o].open
Sound(o) ==
    /\ kind[o] = "none" => row[o] = NoRow /\ fill[o] = 0
    /\ row[o] = NoRow => known[o] = 0 /\ kind[o] # "entry"
    /\ row[o] # NoRow => (row[o].as = "entry" <=> kind[o] = "entry")
    /\ Told(o) => stat[o] # "open" /\ known[o] = fill[o]
    /\ o \in fresh => row[o] = [as |-> "stop", open |-> TRUE] /\ known[o] = 0
Moves == [o \in Ids |-> IF kind[o] = "entry" THEN fill[o] ELSE -fill[o]]
Counted == [o \in Ids |-> IF Told(o) THEN Signed(known, o) ELSE 0]
Net == past + SumOver(Counted, Ids)

DataTypes ==
    /\ kind \in [Ids -> {"none", "entry", "exit", "stop"}]
    /\ stat \in [Ids -> {"open", "closed", "canceled"}]
    /\ row \in [Ids -> Rows]
    /\ amt \in [Ids -> Nat] /\ fill \in [Ids -> Nat] /\ known \in [Ids -> Nat]
    /\ fresh \subseteq Ids /\ isOpen \in BOOLEAN /\ past \in Int
    /\ bal \in Nat /\ amount \in Nat \ {0}
AllSound == \A o \in Ids : Sound(o)
Balance == bal = past + SumOver(Moves, Ids)
AmountIsNet == isOpen => amount = Net
BooksInv == DataTypes /\ AllSound /\ Balance /\ AmountIsNet

NoOpenEntry == \A o \in OpenRows : row[o].as # "entry"

LEMMA IdsFinite == IsFiniteSet(Ids)
  BY FS_Interval, SizesAssumption DEF Ids

LEMMA SumsTyped ==
  ASSUME DataTypes
  PROVE  /\ Summable(Moves, Ids) /\ SumOver(Moves, Ids) \in Int
         /\ Summable(Counted, Ids) /\ SumOver(Counted, Ids) \in Int
         /\ Net \in Int
  <1>1. Summable(Moves, Ids)  BY IdsFinite DEF Summable, Moves, DataTypes
  <1>2. Summable(Counted, Ids)  BY IdsFinite DEF Summable, Counted, Signed, DataTypes
  <1> QED  BY <1>1, <1>2, SumType DEF Net, DataTypes

\* The sums of the model over a set of orders.
LEMMA FilledIsSum ==
  ASSUME NEW fs \in [Ids -> Nat], NEW S \in SUBSET Ids,
         NEW f, \A o \in S : f[o] = Signed(fs, o)
  PROVE  MapThenSumSet(LAMBDA o : Signed(fs, o), S) = SumOver(f, S) /\ Summable(f, S)
  <1> DEFINE Eq(g) == g = [T \in SUBSET S |->
               IF T = {} THEN 0
               ELSE LET x == CHOOSE x \in T : TRUE IN Signed(fs, x) + g[T \ {x}]]
  <1>1. \A g : Eq(g) <=> Adds(g, f, S)
    <2>1. \A T \in SUBSET S : T # {} => Pick(T) \in S  BY DEF Pick
    <2>2. \A T \in SUBSET S : T # {} => f[Pick(T)] = Signed(fs, CHOOSE x \in T : TRUE)
      BY <2>1 DEF Pick
    <2> QED  BY <2>2 DEF Adds, Pick
  <1>2. Summable(f, S)
    <2>1. IsFiniteSet(S)  BY IdsFinite, FS_Subset
    <2>2. \A o \in S : fs[o] \in Int  OBVIOUS
    <2> QED  BY <2>1, <2>2 DEF Summable, Signed
  <1>3. \E g : Eq(g)
    <2> HIDE DEF Eq
    <2> QED  BY <1>1, <1>2, SumExists
  <1>4. Adds(CHOOSE g : Eq(g), f, S)  BY <1>1, <1>3
  <1>5. MapThenSumSet(LAMBDA o : Signed(fs, o), S) = (CHOOSE g : Eq(g))[S]
    BY DEF MapThenSumSet, MapThenFoldSet
  <1> HIDE DEF Eq
  <1> QED  BY <1>2, <1>4, <1>5, SumIs

\* Booked of the properties is the net of the closed rows.
LEMMA BookedIsNet ==
  ASSUME DataTypes
  PROVE  Booked = Net
  <1> DEFINE S == {o \in Ids : row[o] # NoRow /\ ~row[o].open}
  <1>1. PICK f : f = Counted  OBVIOUS
  <1>2. \A o \in S : f[o] = Signed(known, o)  BY <1>1 DEF Counted, Told
  <1>3. known \in [Ids -> Nat]  BY DEF DataTypes
  <1>4. PICK k \in [Ids -> Nat], R \in SUBSET Ids : k = known /\ R = S  BY <1>3
  <1>5. MapThenSumSet(LAMBDA o : Signed(k, o), R) = SumOver(f, R) /\ Summable(f, R)
    <2>1. \A o \in R : f[o] = Signed(k, o)  BY <1>2, <1>4
    <2> HIDE DEF S
    <2> QED  BY <2>1, FilledIsSum
  <1>6. Summable(f, Ids)  BY <1>1, SumsTyped
  <1>7. \A o \in Ids \ R : f[o] = 0  BY <1>1, <1>4 DEF Counted, Told
  <1>8. SumOver(f, Ids) = SumOver(f, R)  BY <1>4, <1>5, <1>6, <1>7, SumPadded
  <1>9. Booked = past + MapThenSumSet(LAMBDA o : Signed(known, o), S)
    BY DEF Booked, NetFilled
  <1> QED  BY <1>1, <1>4, <1>5, <1>8, <1>9 DEF Net

-----------------------------------------------------------------------------
(* A reply about an order is entered in its row.                            *)

Tell(o, st) ==
    /\ UNCHANGED <<kind, amt, fill, bal, past>>
    /\ stat' = [stat EXCEPT ![o] = st]
    /\ row' = [row EXCEPT ![o] = [as |-> IF row[o] = NoRow THEN "exit" ELSE row[o].as,
                                   open |-> st = "open"]]
    /\ known' = [known EXCEPT ![o] = fill[o]]
    /\ fresh' = {}
    /\ amount' = IF Books(st, fill[o]) THEN AmountAfter(o, fill[o]) ELSE amount
    /\ isOpen' = (isOpen /\ ~(Books(st, fill[o]) /\ Closes(o, fill[o])))
Statuses == {"open", "closed", "canceled"}

LEMMA TellRow ==
  ASSUME BooksInv, NEW o \in Ids, kind[o] # "none", NEW st \in Statuses,
         st = stat[o] \/ st = "canceled", Tell(o, st)
  PROVE  /\ row'[o] \in Rows /\ row'[o] # NoRow
         /\ row'[o].open <=> st = "open"
         /\ row'[o].as = "entry" <=> row[o].as = "entry"
         /\ row[o] # NoRow => row'[o].as = row[o].as
         /\ row'[o].as = "entry" <=> kind[o] = "entry"
         /\ Told(o) => st # "open"
         /\ \A p \in Ids \ {o} : row'[p] = row[p]
         /\ stat'[o] = st /\ \A p \in Ids \ {o} : stat'[p] = stat[p]
         /\ known'[o] = fill[o] /\ \A p \in Ids \ {o} : known'[p] = known[p]
  <1>1. row \in [Ids -> Rows] /\ stat \in [Ids -> Statuses] /\ known \in [Ids -> Nat]
    BY DEF BooksInv, DataTypes, Statuses
  <1>2. row'[o] = [as |-> IF row[o] = NoRow THEN "exit" ELSE row[o].as, open |-> st = "open"]
    BY <1>1 DEF Tell
  <1>3. row[o] = NoRow \/ row[o] \in [as : {"entry", "exit", "stop"}, open : BOOLEAN]
    BY <1>1 DEF Rows
  <1>4. (IF row[o] = NoRow THEN "exit" ELSE row[o].as) \in {"entry", "exit", "stop"}
    BY <1>3
  <1>5. row'[o] \in Rows /\ row'[o] # NoRow  BY <1>2, <1>4 DEF Rows, NoRow
  <1>6. NoRow.as = "none"  BY DEF NoRow
  <1>7. Sound(o)  BY DEF BooksInv, AllSound
  <1>8. row[o] = NoRow => kind[o] # "entry"  BY <1>7 DEF Sound
  <1>9. row[o] # NoRow => (row[o].as = "entry" <=> kind[o] = "entry")  BY <1>7 DEF Sound
  <1>10. Told(o) => st # "open"  BY <1>7 DEF Sound
  <1>11. /\ \A p \in Ids \ {o} : row'[p] = row[p]
         /\ stat'[o] = st /\ \A p \in Ids \ {o} : stat'[p] = stat[p]
         /\ known'[o] = fill[o] /\ \A p \in Ids \ {o} : known'[p] = known[p]
    BY <1>1 DEF Tell
  <1>12. row'[o].open <=> st = "open"
    <2>1. row'[o].open = (st = "open")  BY <1>2
    <2> QED  BY <2>1
  <1>13. row'[o].as = IF row[o] = NoRow THEN "exit" ELSE row[o].as  BY <1>2
  <1> QED  BY <1>5, <1>6, <1>8, <1>9, <1>10, <1>11, <1>12, <1>13

\* The orders that are counted after a booking are those that the code sums.
LEMMA TellNet ==
  ASSUME BooksInv, NEW o \in Ids, kind[o] # "none", NEW st \in Statuses,
         st = stat[o] \/ st = "canceled", Tell(o, st), st # "open"
  PROVE  AmountAfter(o, fill[o]) = IF Net' > 0 THEN Net' ELSE amount
  <1> DEFINE S == {p \in Ids \ OpenRows : row[p] # NoRow} \union {o}
  <1>1. known \in [Ids -> Nat] /\ fill \in [Ids -> Nat]  BY DEF BooksInv, DataTypes
  <1>2. PICK k \in [Ids -> Nat] : k = [known EXCEPT ![o] = fill[o]] /\ k = known'
    BY <1>1 DEF Tell
  <1>3. PICK c : c = Counted'  OBVIOUS
  <1>4. PICK R \in SUBSET Ids : R = S  OBVIOUS
  <1>5. \A p \in Ids : p \in R <=> Told(p)'
    BY <1>4, TellRow DEF Told, OpenRows
  <1>6. \A p \in Ids : c[p] = IF p \in R THEN Signed(k, p) ELSE 0
    <2> SUFFICES ASSUME NEW p \in Ids PROVE c[p] = IF p \in R THEN Signed(k, p) ELSE 0
      OBVIOUS
    <2>1. c[p] = IF p \in R THEN Signed(known, p)' ELSE 0  BY <1>3, <1>5 DEF Counted
    <2>2. Signed(known, p)' = IF row'[p].as = "entry" THEN k[p] ELSE -k[p]
      BY <1>2 DEF Signed
    <2>3. row'[p].as = "entry" <=> row[p].as = "entry"  BY TellRow
    <2> QED  BY <2>1, <2>2, <2>3 DEF Signed
  <1>7. MapThenSumSet(LAMBDA p : Signed(k, p), R) = SumOver(c, R) /\ Summable(c, R)
    BY <1>6, FilledIsSum
  <1>8. Summable(c, Ids)  BY <1>6, IdsFinite DEF Summable, Signed
  <1>9. SumOver(c, Ids) = SumOver(c, R)  BY <1>6, <1>7, <1>8, SumPadded
  <1>10. NetFilled(k, R) = Net'
    <2>1. past' = past  BY DEF Tell
    <2> QED  BY <1>3, <1>7, <1>9, <2>1 DEF NetFilled, Net
  <1>11. AmountAfter(o, fill[o]) = IF NetFilled(k, R) > 0 THEN NetFilled(k, R) ELSE amount
    BY <1>2, <1>4 DEF AmountAfter
  <1> QED  BY <1>10, <1>11

\* The net after a reply about o: unless the row was closed before, what o
\* filled is counted now.
LEMMA NetAfter ==
  ASSUME BooksInv, NEW o \in Ids, kind[o] # "none", NEW st \in Statuses,
         st = stat[o] \/ st = "canceled", Tell(o, st)
  PROVE  /\ Net \in Int /\ Net' \in Int
         /\ Told(o) \/ ~Books(st, fill[o]) => Net' = Net
         /\ ~Told(o) /\ Books(st, fill[o])
              => Net' = Net + (IF row[o].as = "entry" THEN fill[o] ELSE -fill[o])
  <1>1. Summable(Counted, Ids) /\ SumOver(Counted, Ids) \in Int /\ Net \in Int
    BY SumsTyped DEF BooksInv
  <1>2. PICK c, d : c = Counted /\ d = Counted'  OBVIOUS
  <1>3. \A p \in Ids \ {o} : d[p] = c[p]
    BY <1>2, TellRow DEF Counted, Told, Signed
  <1>4. /\ fill[o] \in Nat /\ past \in Int /\ past' = past
    BY DEF BooksInv, DataTypes, Tell
  <1>5. d[o] = IF st # "open" THEN (IF row[o].as = "entry" THEN fill[o] ELSE -fill[o]) ELSE 0
    BY <1>2, TellRow DEF Counted, Told, Signed
  <1>6. c[o] = IF Told(o) THEN d[o] ELSE 0
    <2>1. CASE Told(o)
      <3>1. known[o] = fill[o] /\ st # "open"
        BY <2>1, TellRow DEF BooksInv, AllSound, Sound
      <3> QED  BY <1>2, <1>5, <2>1, <3>1 DEF Counted, Signed
    <2>2. CASE ~Told(o)  BY <1>2, <2>2 DEF Counted
    <2> QED  BY <2>1, <2>2
  <1>7. c[o] \in Int /\ d[o] \in Int  BY <1>4, <1>5, <1>6
  <1>8. SumOver(d, Ids) = SumOver(c, Ids) + (d[o] - c[o])
    BY <1>1, <1>2, <1>3, <1>7, SumChange
  <1>9. Net' = Net + (d[o] - c[o])
    BY <1>1, <1>2, <1>4, <1>7, <1>8 DEF Net
  <1>10. Told(o) \/ ~Books(st, fill[o]) => d[o] = c[o]
    BY <1>4, <1>5, <1>6 DEF Books
  <1>11. ~Told(o) /\ Books(st, fill[o])
           => /\ c[o] = 0
              /\ d[o] = IF row[o].as = "entry" THEN fill[o] ELSE -fill[o]
    BY <1>5, <1>6 DEF Books
  <1> QED  BY <1>1, <1>4, <1>7, <1>9, <1>10, <1>11

\* While orders are recovered an exit cannot have sold more than the amount:
\* all that was bought is counted.
LEMMA RecoveredFits ==
  ASSUME BooksInv, isOpen, NoOpenEntry, NEW o \in Ids, ~Told(o), row[o].as # "entry"
  PROVE  fill[o] <= amount
  <1>1. /\ Summable(Moves, Ids) /\ SumOver(Moves, Ids) \in Int
        /\ Summable(Counted, Ids) /\ SumOver(Counted, Ids) \in Int
    BY SumsTyped DEF BooksInv
  <1>2. PICK c, m : c = Counted /\ m = Moves  OBVIOUS
  <1>3. fill \in [Ids -> Nat] /\ past \in Int /\ bal \in Nat  BY DEF BooksInv, DataTypes
  <1>4. PICK h : h = [p \in Ids |-> IF p = o THEN -fill[o] ELSE c[p]]  OBVIOUS
  <1>5. c[o] = 0  BY <1>2 DEF Counted
  <1>6. h[o] = -fill[o] /\ h[o] \in Int /\ c[o] \in Int  BY <1>3, <1>4, <1>5
  <1>7. \A p \in Ids \ {o} : h[p] = c[p]  BY <1>4
  <1>8. SumOver(h, Ids) = SumOver(c, Ids) + (h[o] - c[o])
    BY <1>1, <1>2, <1>6, <1>7, SumChange
  <1>9. Summable(h, Ids)  BY <1>1, <1>2, <1>6, <1>7 DEF Summable
  <1>10. \A p \in Ids : m[p] <= h[p]
    <2> SUFFICES ASSUME NEW p \in Ids PROVE m[p] <= h[p]  OBVIOUS
    <2>1. Sound(p)  BY DEF BooksInv, AllSound
    <2>2. m[p] = IF kind[p] = "entry" THEN fill[p] ELSE -fill[p]  BY <1>2 DEF Moves
    <2>3. fill[p] \in Nat  BY <1>3
    <2>4. kind[p] = "entry" => Told(p)
      BY <2>1 DEF Sound, NoOpenEntry, OpenRows, Told
    <2>5. CASE Told(p)
      <3>1. p # o /\ row[p].as = "entry" <=> kind[p] = "entry"
        BY <2>1, <2>5 DEF Sound, Told
      <3>2. c[p] = m[p]
        BY <1>2, <2>1, <2>2, <2>5, <3>1 DEF Counted, Signed, Sound
      <3>3. p # o  BY <2>5
      <3> QED  BY <1>7, <2>2, <2>3, <3>2, <3>3
    <2>6. CASE ~Told(p)
      <3>1. m[p] = -fill[p]  BY <2>2, <2>4, <2>6
      <3>2. c[p] = 0  BY <1>2, <2>6 DEF Counted
      <3> QED  BY <1>4, <2>3, <3>1, <3>2
    <2> QED  BY <2>5, <2>6
  <1>11. SumOver(m, Ids) <= SumOver(h, Ids)
    BY <1>1, <1>2, <1>9, <1>10, SumMonotone
  <1>12. amount = past + SumOver(c, Ids)
    BY <1>2 DEF BooksInv, AmountIsNet, Net
  <1>13. bal = past + SumOver(m, Ids)  BY <1>2 DEF BooksInv, Balance
  <1>14. fill[o] \in Nat  BY <1>3
  <1> QED  BY <1>1, <1>2, <1>3, <1>5, <1>6, <1>8, <1>11, <1>12, <1>13, <1>14

\* Entering a reply keeps the books, and a trade that it closes has sold all.
LEMMA TellStep ==
  ASSUME BooksInv, NEW o \in Ids, kind[o] # "none", NEW st \in Statuses,
         st = stat[o] \/ st = "canceled", Tell(o, st),
         isOpen /\ pc = "recover" => NoOpenEntry
  PROVE  /\ BooksInv'
         /\ isOpen /\ ~isOpen' /\ ~Told(o) /\ pc # "recover" => Net' <= 0
  <1>1. fill[o] \in Nat /\ amount \in Nat \ {0}  BY DEF BooksInv, DataTypes
  <1>2. Net \in Int /\ Net' \in Int  BY NetAfter
  <1>3. AllSound'
    <2> SUFFICES ASSUME NEW p \in Ids PROVE Sound(p)'  BY DEF AllSound
    <2>1. Sound(p)  BY DEF BooksInv, AllSound
    <2>2. UNCHANGED <<kind, fill>> /\ fresh' = {}  BY DEF Tell
    <2>3. CASE p = o  BY <2>2, <2>3, TellRow DEF Sound, Told
    <2>4. CASE p # o  BY <2>1, <2>2, <2>4, TellRow DEF Sound, Told
    <2> QED  BY <2>3, <2>4
  <1>4. Balance'
    <2>1. Moves' = Moves  BY DEF Moves, Tell
    <2> QED  BY <2>1 DEF Tell, Balance, BooksInv
  <1>5. CASE ~Books(st, fill[o])
    <2>1. amount' = amount /\ isOpen' = isOpen
      BY <1>5 DEF Tell, BooksInv, DataTypes
    <2>2. Net' = Net  BY <1>5, NetAfter
    <2>3. AmountIsNet'  BY <2>1, <2>2 DEF AmountIsNet, BooksInv
    <2>4. DataTypes'
      <3>1. row' \in [Ids -> Rows] /\ stat' \in [Ids -> Statuses] /\ known' \in [Ids -> Nat]
        BY ZenonT(60), <1>1, TellRow DEF BooksInv, DataTypes, Tell, Statuses
      <3> QED  BY <2>1, <3>1 DEF BooksInv, DataTypes, Tell, Statuses
    <2> QED  BY <1>3, <1>4, <2>1, <2>3, <2>4 DEF BooksInv
  <1>6. CASE Books(st, fill[o])
    <2>1. st # "open" /\ fill[o] > 0  BY <1>6 DEF Books
    <2>2. amount' = IF Net' > 0 THEN Net' ELSE amount
      BY <1>6, <2>1, TellNet DEF Tell
    <2>3. isOpen' = (isOpen /\ ~Closes(o, fill[o]))  BY <1>6 DEF Tell
    <2>4. amount' \in Nat \ {0}  BY <1>1, <1>2, <2>2
    <2>5. isOpen => amount = Net  BY DEF BooksInv, AmountIsNet
    <2>6. AmountIsNet'
      <3> SUFFICES ASSUME isOpen' PROVE Net' > 0  BY <2>2 DEF AmountIsNet
      <3>1. isOpen /\ ~Closes(o, fill[o])  BY <2>3
      <3>2. CASE Told(o)  BY <1>1, <2>5, <3>1, <3>2, NetAfter
      <3>3. CASE ~Told(o) /\ row[o].as = "entry"
        BY <1>1, <1>6, <2>1, <2>5, <3>1, <3>3, NetAfter
      <3>4. CASE ~Told(o) /\ row[o].as # "entry"
        <4>1. Net' = amount - fill[o]
          BY <1>1, <1>6, <2>5, <3>1, <3>4, NetAfter
        <4>2. fill[o] # amount /\ (fill[o] > amount => pc = "recover")
          BY <3>1, <3>4 DEF Closes
        <4>3. pc = "recover" => fill[o] <= amount
          BY <3>1, <3>4, RecoveredFits
        <4> QED  BY <1>1, <4>1, <4>2, <4>3
      <3> QED  BY <3>2, <3>3, <3>4
    <2>7. DataTypes'
      <3>1. row' \in [Ids -> Rows] /\ stat' \in [Ids -> Statuses] /\ known' \in [Ids -> Nat]
        BY ZenonT(60), <1>1, TellRow DEF BooksInv, DataTypes, Tell, Statuses
      <3>2. isOpen' \in BOOLEAN  BY <2>3
      <3> QED  BY <2>4, <3>1, <3>2 DEF BooksInv, DataTypes, Tell, Statuses
    <2>8. ASSUME isOpen, ~isOpen', ~Told(o), pc # "recover" PROVE Net' <= 0
      <3>1. row[o].as # "entry" /\ fill[o] >= amount
        <4>1. Closes(o, fill[o])  BY <2>3, <2>8
        <4>2. row[o].as # "entry" /\ (fill[o] = amount \/ fill[o] > amount)
          BY <4>1 DEF Closes
        <4> QED  BY <1>1, <4>2
      <3>2. Net' = amount - fill[o]
        BY <1>1, <1>6, <2>5, <2>8, <3>1, NetAfter
      <3> QED  BY <1>1, <3>1, <3>2
    <2> QED  BY <1>3, <1>4, <2>6, <2>7, <2>8 DEF BooksInv
  <1> QED  BY <1>5, <1>6

-----------------------------------------------------------------------------
(* The other shapes of steps.                                               *)

\* Orders may be cancelled and rows committed.
Kept ==
    /\ UNCHANGED <<kind, amt, fill, bal, row, known, past, isOpen, amount>>
    /\ fresh' = fresh \/ fresh' = {}
    /\ stat' \in [Ids -> Statuses]
    /\ \A p \in Ids : stat'[p] = stat[p] \/ stat'[p] = "canceled"

LEMMA KeptStep == BooksInv /\ Kept => BooksInv'
  <1> SUFFICES ASSUME BooksInv, Kept PROVE BooksInv'  OBVIOUS
  <1>1. DataTypes'  BY DEF BooksInv, DataTypes, Kept, Statuses
  <1>2. AllSound'
    <2> SUFFICES ASSUME NEW p \in Ids PROVE Sound(p)'  BY DEF AllSound
    <2>1. Sound(p)  BY DEF BooksInv, AllSound
    <2> QED  BY <2>1 DEF Sound, Told, Kept
  <1>3. Moves' = Moves /\ Counted' = Counted
    BY DEF Moves, Counted, Told, Signed, Kept
  <1>4. Balance' /\ AmountIsNet'
    BY <1>3 DEF BooksInv, Balance, AmountIsNet, Net, Kept
  <1> QED  BY <1>1, <1>2, <1>4 DEF BooksInv

\* One more coin is bought or sold by a live order.
LEMMA FillStep ==
  ASSUME BooksInv, NEW o \in Ids, ExchangeFill(o)
  PROVE  BooksInv'
  <1>1. /\ kind[o] # "none" /\ stat[o] = "open" /\ (kind[o] = "entry" \/ bal > 0)
        /\ fill' = [fill EXCEPT ![o] = fill[o] + 1]
        /\ stat' = [stat EXCEPT ![o] = IF fill[o] + 1 >= amt[o] THEN "closed" ELSE stat[o]]
        /\ bal' = IF kind[o] = "entry" THEN bal + 1 ELSE bal - 1
        /\ UNCHANGED <<kind, amt, row, known, fresh, past, isOpen, amount>>
    BY DEF ExchangeFill, Live, rows
  <1>2. fill \in [Ids -> Nat] /\ bal \in Nat /\ stat \in [Ids -> Statuses] /\ past \in Int
    BY DEF BooksInv, DataTypes, Statuses
  <1>3. DataTypes'
    <2>1. fill' \in [Ids -> Nat] /\ bal' \in Nat /\ stat' \in [Ids -> Statuses]
      BY <1>1, <1>2 DEF Statuses
    <2> QED  BY <1>1, <2>1 DEF BooksInv, DataTypes, Statuses
  <1>4. AllSound'
    <2> SUFFICES ASSUME NEW p \in Ids PROVE Sound(p)'  BY DEF AllSound
    <2>1. Sound(p)  BY DEF BooksInv, AllSound
    <2>2. CASE p = o
      <3>1. ~Told(o)  BY <1>1, <2>1, <2>2 DEF Sound
      <3> QED  BY <1>1, <2>1, <2>2, <3>1 DEF Sound, Told
    <2>3. CASE p # o  BY <1>1, <1>2, <2>1, <2>3 DEF Sound, Told
    <2> QED  BY <2>2, <2>3
  <1>5. Balance'
    <2>1. PICK m, n : m = Moves /\ n = Moves'  OBVIOUS
    <2>2. Summable(m, Ids) /\ SumOver(m, Ids) \in Int  BY <2>1, SumsTyped DEF BooksInv
    <2>3. \A p \in Ids \ {o} : n[p] = m[p]  BY <1>1, <1>2, <2>1 DEF Moves
    <2>4. /\ m[o] \in Int /\ n[o] \in Int
          /\ n[o] - m[o] = IF kind[o] = "entry" THEN 1 ELSE -1
      BY <1>1, <1>2, <2>1 DEF Moves
    <2>5. SumOver(n, Ids) = SumOver(m, Ids) + (n[o] - m[o])
      BY <2>2, <2>3, <2>4, SumChange
    <2>6. bal = past + SumOver(m, Ids)  BY <2>1 DEF BooksInv, Balance
    <2>7. bal' = past + SumOver(n, Ids)
      BY <1>1, <1>2, <2>2, <2>4, <2>5, <2>6
    <2> QED  BY <1>1, <2>1, <2>7 DEF Balance
  <1>6. AmountIsNet'
    <2>1. Counted' = Counted  BY <1>1 DEF Counted, Told, Signed
    <2> QED  BY <1>1, <2>1 DEF BooksInv, AmountIsNet, Net
  <1> QED  BY <1>3, <1>4, <1>5, <1>6 DEF BooksInv

\* An order is placed and its row written, unless the reply to a stop is lost.
LEMMA PlacedStep ==
  ASSUME BooksInv, NEW k \in {"entry", "exit", "stop"}, NEW a \in Nat, NEW l, NEW r,
         r = [as |-> k, open |-> TRUE] \/ (k = "stop" /\ r = NoRow), NewOrder(k, a, l, r)
  PROVE  /\ BooksInv'
         /\ \E o \in Ids : /\ kind[o] = "none" /\ row[o] = NoRow
                           /\ kind' = [kind EXCEPT ![o] = k] /\ row' = [row EXCEPT ![o] = r]
  <1>1. PICK o \in Ids :
          /\ kind[o] = "none"
          /\ kind' = [kind EXCEPT ![o] = k] /\ amt' = [amt EXCEPT ![o] = a]
          /\ row' = [row EXCEPT ![o] = r]
          /\ fresh' = IF r.as = "stop" THEN fresh \union {o}
                      ELSE IF r = NoRow THEN fresh ELSE {}
          /\ UNCHANGED <<fill, stat, bal, known, past, isOpen, amount>>
    BY DEF NewOrder, First
  <1>2. Sound(o) /\ row[o] = NoRow /\ fill[o] = 0 /\ known[o] = 0
    BY <1>1 DEF BooksInv, AllSound, Sound
  <1>3. r \in Rows /\ r.as \in {k, "none"} /\ (r # NoRow => r.as = k /\ r.open)
        /\ (r = NoRow => k = "stop" /\ r.as = "none")
    <2>1. CASE r = [as |-> k, open |-> TRUE]  BY <2>1 DEF Rows, NoRow
    <2>2. CASE k = "stop" /\ r = NoRow  BY <2>2 DEF Rows, NoRow
    <2> QED  BY <2>1, <2>2
  <1>4. row \in [Ids -> Rows] /\ kind \in [Ids -> {"none", "entry", "exit", "stop"}]
    BY DEF BooksInv, DataTypes
  <1>5. DataTypes'
    <2>1. row' \in [Ids -> Rows]  BY <1>1, <1>3, <1>4
    <2>2. kind' \in [Ids -> {"none", "entry", "exit", "stop"}]  BY <1>1, <1>4
    <2>3. fresh' \subseteq Ids  BY <1>1 DEF BooksInv, DataTypes
    <2> QED  BY <1>1, <2>1, <2>2, <2>3 DEF BooksInv, DataTypes
  <1>6. AllSound'
    <2> SUFFICES ASSUME NEW p \in Ids PROVE Sound(p)'  BY DEF AllSound
    <2>1. Sound(p)  BY DEF BooksInv, AllSound
    <2>2. CASE p = o
      <3>1. row'[o] = r /\ kind'[o] = k /\ fill'[o] = 0 /\ known'[o] = 0
        BY <1>1, <1>2, <1>4
      <3>2. o \notin fresh  BY <1>2 DEF Sound, NoRow
      <3>3. o \in fresh' => r = [as |-> "stop", open |-> TRUE]
        BY <1>1, <1>3, <3>2
      <3> QED  BY <1>3, <2>2, <3>1, <3>3 DEF Sound, Told
    <2>3. CASE p # o
      <3>1. p \in fresh' => p \in fresh  BY <1>1, <2>3
      <3> QED  BY <1>1, <1>4, <2>1, <2>3, <3>1 DEF Sound, Told
    <2> QED  BY <2>2, <2>3
  <1>7. Moves' = Moves
    <2>1. \A p \in Ids : (IF kind'[p] = "entry" THEN fill'[p] ELSE -fill'[p])
                          = (IF kind[p] = "entry" THEN fill[p] ELSE -fill[p])
      BY <1>1, <1>2, <1>4
    <2> QED  BY <2>1 DEF Moves
  <1>8. Counted' = Counted
    <2>1. ~Told(o) /\ ~Told(o)'  BY <1>1, <1>2, <1>3, <1>4 DEF Told
    <2>2. \A p \in Ids \ {o} : Told(p)' = Told(p) /\ Signed(known, p)' = Signed(known, p)
      BY <1>1, <1>4 DEF Told, Signed
    <2> QED  BY <2>1, <2>2 DEF Counted
  <1>9. Balance' /\ AmountIsNet'
    BY <1>1, <1>7, <1>8 DEF BooksInv, Balance, AmountIsNet, Net
  <1>10. BooksInv'  BY <1>5, <1>6, <1>9 DEF BooksInv
  <1> QED  BY <1>1, <1>2, <1>10

\* The process dies: rows of stops that were not committed are forgotten.
LEMMA CrashedStep == BooksInv /\ Crash => BooksInv'
  <1> SUFFICES ASSUME BooksInv, Crash PROVE BooksInv'  OBVIOUS
  <1>1. /\ row' = [o \in Ids |-> IF o \in fresh THEN NoRow ELSE row[o]]
        /\ fresh' = {}
        /\ UNCHANGED <<kind, amt, fill, stat, bal, known, past, isOpen, amount>>
    BY DEF Crash, exch
  <1>2. DataTypes'
    <2>1. row' \in [Ids -> Rows]  BY <1>1 DEF BooksInv, DataTypes, Rows
    <2> QED  BY <1>1, <2>1 DEF BooksInv, DataTypes
  <1>3. NoRow # [as |-> "stop", open |-> TRUE] /\ NoRow.as = "none"  BY DEF NoRow
  <1>4. AllSound'
    <2> SUFFICES ASSUME NEW p \in Ids PROVE Sound(p)'  BY DEF AllSound
    <2>1. Sound(p)  BY DEF BooksInv, AllSound
    <2> QED  BY <1>1, <1>3, <2>1 DEF Sound, Told
  <1>5. Moves' = Moves  BY <1>1 DEF Moves
  <1>6. Counted' = Counted
    <2>1. ASSUME NEW p \in Ids
          PROVE (IF Told(p) THEN Signed(known, p) ELSE 0)'
                  = IF Told(p) THEN Signed(known, p) ELSE 0
      <3>1. Sound(p)  BY DEF BooksInv, AllSound
      <3>2. CASE p \in fresh
        BY <1>1, <3>1, <3>2 DEF Sound, Told
      <3>3. CASE p \notin fresh
        BY <1>1, <3>3 DEF Told, Signed
      <3> QED  BY <3>2, <3>3
    <2> QED  BY <2>1 DEF Counted
  <1>7. Balance' /\ AmountIsNet'
    BY <1>1, <1>5, <1>6 DEF BooksInv, Balance, AmountIsNet, Net
  <1> QED  BY <1>2, <1>4, <1>7 DEF BooksInv

\* Ids are given back: what their orders filled moves from the rows to past.
LEMMA GivenBackStep == BooksInv /\ NextIteration => BooksInv'
  <1> SUFFICES ASSUME BooksInv, NextIteration PROVE BooksInv'  OBVIOUS
  <1> DEFINE D == {o \in Ids : Done(o)}
  <1>1. \A o \in Ids : IF Done(o)
          THEN /\ kind'[o] = "none" /\ row'[o] = NoRow /\ stat'[o] = "open"
               /\ fill'[o] = 0 /\ known'[o] = 0
          ELSE /\ kind'[o] = kind[o] /\ row'[o] = row[o] /\ stat'[o] = stat[o]
               /\ fill'[o] = fill[o] /\ known'[o] = known[o]
    BY DEF NextIteration, Keep
  <1>2. fresh' = {} /\ UNCHANGED <<bal, isOpen, amount>>  BY DEF NextIteration
  <1>3. fill \in [Ids -> Nat] /\ known \in [Ids -> Nat] /\ past \in Int
    BY DEF BooksInv, DataTypes
  <1>4. PICK k \in [Ids -> Nat], R \in SUBSET Ids : k = known /\ R = D  BY <1>3
  <1>5. PICK m, n, c, d : m = Moves /\ n = Moves' /\ c = Counted /\ d = Counted'  OBVIOUS
  <1>6. Summable(m, Ids) /\ Summable(c, Ids)
    BY <1>5, SumsTyped DEF BooksInv
  <1>7. \A o \in R : m[o] = Signed(k, o) /\ c[o] = Signed(k, o)
    <2> SUFFICES ASSUME NEW o \in Ids, Done(o)
                 PROVE  m[o] = Signed(k, o) /\ c[o] = Signed(k, o)
      BY <1>4
    <2>1. Sound(o)  BY DEF BooksInv, AllSound
    <2>2. NoRow.as = "none"  BY DEF NoRow
    <2>3. known[o] = fill[o] /\ ~row[o].open  BY DEF Done
    <2>4. row[o].as = "entry" <=> kind[o] = "entry"  BY <2>1, <2>2 DEF Sound
    <2>5. m[o] = Signed(k, o)  BY <1>4, <1>5, <2>3, <2>4 DEF Moves, Signed
    <2>6. c[o] = Signed(k, o)
      <3>1. CASE row[o] = NoRow
        <4>1. known[o] = 0  BY <2>1, <3>1 DEF Sound
        <4> QED  BY <1>4, <1>5, <2>2, <3>1, <4>1 DEF Counted, Told, Signed
      <3>2. CASE row[o] # NoRow
        BY <1>4, <1>5, <2>3, <3>2 DEF Counted, Told
      <3> QED  BY <3>1, <3>2
    <2> QED  BY <2>5, <2>6
  <1>8. \A o \in Ids : n[o] = (IF o \in R THEN 0 ELSE m[o])
                       /\ d[o] = (IF o \in R THEN 0 ELSE c[o])
    <2> SUFFICES ASSUME NEW o \in Ids
                 PROVE  n[o] = (IF Done(o) THEN 0 ELSE m[o])
                        /\ d[o] = (IF Done(o) THEN 0 ELSE c[o])
      BY <1>4
    <2>1. CASE Done(o)  BY <1>1, <1>5, <2>1 DEF Moves, Counted, Told, NoRow
    <2>2. CASE ~Done(o)  BY <1>1, <1>5, <2>2 DEF Moves, Counted, Told, Signed
    <2> QED  BY <2>1, <2>2
  <1>9. /\ Summable(m, R) /\ SumOver(m, Ids) = SumOver(n, Ids) + SumOver(m, R)
        /\ Summable(n, Ids)
    BY <1>6, <1>8, SumCleared
  <1>10. /\ Summable(c, R) /\ SumOver(c, Ids) = SumOver(d, Ids) + SumOver(c, R)
         /\ Summable(d, Ids)
    BY <1>6, <1>8, SumCleared
  <1>11. SumOver(m, R) = SumOver(c, R)
    BY <1>7, <1>9, SumCongruence
  <1>12. past' = past + SumOver(c, R)
    <2>1. past' = past + MapThenSumSet(LAMBDA o : Signed(known, o), D)  BY DEF NextIteration
    <2>2. \A o \in R : c[o] = Signed(k, o)  BY <1>7
    <2>3. MapThenSumSet(LAMBDA o : Signed(k, o), R) = SumOver(c, R)
      BY <2>2, FilledIsSum
    <2> HIDE DEF D
    <2> QED  BY <1>4, <2>1, <2>3
  <1>13. /\ SumOver(c, R) \in Int /\ SumOver(n, Ids) \in Int /\ SumOver(d, Ids) \in Int
    BY <1>9, <1>10, SumType
  <1>14. DataTypes'
    <2>1. past' \in Int  BY <1>3, <1>12, <1>13
    <2>2. /\ kind' \in [Ids -> {"none", "entry", "exit", "stop"}]
          /\ stat' \in [Ids -> Statuses] /\ row' \in [Ids -> Rows]
      BY DEF NextIteration, Keep, BooksInv, DataTypes, Statuses, Rows
    <2>3. amt' \in [Ids -> Nat] /\ fill' \in [Ids -> Nat] /\ known' \in [Ids -> Nat]
      BY DEF NextIteration, Keep, BooksInv, DataTypes
    <2> QED  BY <1>2, <2>1, <2>2, <2>3 DEF BooksInv, DataTypes, Statuses
  <1>15. AllSound'
    <2> SUFFICES ASSUME NEW p \in Ids PROVE Sound(p)'  BY DEF AllSound
    <2>1. Sound(p)  BY DEF BooksInv, AllSound
    <2>2. CASE Done(p)  BY <1>1, <1>2, <2>2 DEF Sound, Told
    <2>3. CASE ~Done(p)  BY <1>1, <1>2, <2>1, <2>3 DEF Sound, Told
    <2> QED  BY <2>2, <2>3
  <1>16. Balance'
    <2>1. bal = past + SumOver(m, Ids)  BY <1>5 DEF BooksInv, Balance
    <2>2. bal = past' + SumOver(n, Ids)
      BY <1>3, <1>9, <1>11, <1>12, <1>13, <2>1
    <2> QED  BY <1>2, <1>5, <2>2 DEF Balance
  <1>17. AmountIsNet'
    <2>1. isOpen => amount = past + SumOver(c, Ids)
      BY <1>5 DEF BooksInv, AmountIsNet, Net
    <2>2. isOpen => amount = past' + SumOver(d, Ids)
      BY <1>3, <1>10, <1>12, <1>13, <2>1
    <2> QED  BY <1>2, <1>5, <2>2 DEF AmountIsNet, Net
  <1> QED  BY <1>14, <1>15, <1>16, <1>17 DEF BooksInv

-----------------------------------------------------------------------------
(* Where the bot is.                                                        *)

ControlTypes ==
    /\ blocks \in BOOLEAN /\ lvl \in [Ids -> Nat]
    /\ stopLoss \in Levels /\ saved \in Levels
    /\ part \in {"startup", "manage", "exits", "emergency", "adjust"}
    /\ pc \in Steps /\ ret \in Steps
    /\ todo \subseteq Ids /\ seen \subseteq Ids /\ clr \subseteq Ids
    /\ want \in Nat
    /\ faults \in Nat /\ lost \in Nat /\ crashes \in Nat

\* Stops are cancelled in one step and no other; the rows a loop goes through
\* are still open when it gets to them.
Control ==
    /\ pc # "clear" => ret = "end" /\ clr = {}
    /\ clr \subseteq OpenStops
    /\ \A o \in todo : kind[o] # "none"
    /\ pc = "sync" \/ ret = "sync" => part = "startup"
    /\ pc = "manage" \/ ret = "manage" => todo \subseteq OpenOthers
    /\ pc = "stops" /\ isOpen => todo \subseteq OpenStops
    /\ ret \in {"stops", "recover"} => ~isOpen
    /\ pc = "recover" /\ isOpen => NoOpenEntry

\* When nothing went wrong every order has its row, and the stops of a closed
\* trade are being cancelled.
Leftovers ==
    Troubles = 0 =>
        /\ \A o \in Ids : kind[o] # "none"
             => row[o] # NoRow /\ (row[o].as = "stop" <=> kind[o] = "stop")
        /\ ~isOpen => \A o \in Ids : Live(o) /\ kind[o] = "stop" => o \in clr

IInv == BooksInv /\ ControlTypes /\ Control /\ Leftovers

LEMMA KeptRows ==
  ASSUME Kept
  PROVE  /\ OpenRows' = OpenRows /\ OpenStops' = OpenStops /\ OpenOthers' = OpenOthers
         /\ NoOpenEntry' = NoOpenEntry
         /\ kind' = kind /\ isOpen' = isOpen
  BY DEF Kept, OpenRows, OpenStops, OpenOthers, NoOpenEntry

\* No order comes alive and none loses its row.
LEMMA KeptLeftovers ==
  ASSUME Leftovers, Kept, UNCHANGED counters,
         isOpen \/ \A o \in clr \ clr' : ~Live(o)
  PROVE  Leftovers'
  <1>1. Troubles' = Troubles  BY DEF Troubles, counters
  <1>2. \A o \in Ids : Live(o)' => Live(o)  BY DEF Kept, Live
  <1>3. UNCHANGED <<kind, row, isOpen>>  BY DEF Kept
  <1> QED  BY <1>1, <1>2, <1>3 DEF Leftovers

LEMMA FaultLeftovers ==
  ASSUME ControlTypes,
         \/ faults' = faults + 1 /\ UNCHANGED <<lost, crashes>>
         \/ lost' = lost + 1 /\ UNCHANGED <<faults, crashes>>
         \/ crashes' = crashes + 1 /\ UNCHANGED <<faults, lost>>
  PROVE  /\ Leftovers'
         /\ faults' \in Nat /\ lost' \in Nat /\ crashes' \in Nat
  <1>1. /\ Troubles' # 0
        /\ faults' \in Nat /\ lost' \in Nat /\ crashes' \in Nat
    BY DEF ControlTypes, Troubles
  <1> QED  BY <1>1 DEF Leftovers

\* The steps that leave the orders and the books alone.
Moving ==
    \/ Start \/ Unreachable \/ ManageDone \/ ManageClosed \/ RecoverDone
    \/ FetchStopInvalid \/ FetchStopFails \/ NoStopLeft \/ TrailStop \/ KeepStop
    \/ CreateNot \/ CreateUnpaid \/ CreateInvalid \/ CreateFails \/ RefindDone
    \/ HandleTrade \/ ExitSignal \/ PlaceNot \/ PlaceUnpaid \/ Commit
    \/ AdjustNot \/ AdjustExit \/ TradeOver \/ UNCHANGED vars

LEMMA MovingKept == BooksInv /\ Moving => Kept
  <1> SUFFICES ASSUME BooksInv, Moving PROVE Kept  OBVIOUS
  <1>1. UNCHANGED exch /\ UNCHANGED <<row, known, past, isOpen, amount>>
    BY DEF Moving, Start, Unreachable, ManageDone, ManageClosed, RecoverDone,
       FetchStopInvalid, FetchStopFails, NoStopLeft, TrailStop, KeepStop,
       CreateNot, CreateUnpaid, CreateInvalid, CreateFails, RefindDone,
       HandleTrade, ExitSignal, PlaceNot, PlaceUnpaid, Commit,
       AdjustNot, AdjustExit, TradeOver, vars, rows
  <1>2. fresh' = fresh \/ fresh' = {}
    BY DEF Moving, Start, Unreachable, ManageDone, ManageClosed, RecoverDone,
       FetchStopInvalid, FetchStopFails, NoStopLeft, TrailStop, KeepStop,
       CreateNot, CreateUnpaid, CreateInvalid, CreateFails, RefindDone,
       HandleTrade, ExitSignal, PlaceNot, PlaceUnpaid, Commit,
       AdjustNot, AdjustExit, TradeOver, vars, rows
  <1>3. stat \in [Ids -> Statuses]  BY DEF BooksInv, DataTypes, Statuses
  <1> QED  BY <1>1, <1>2, <1>3 DEF Kept, exch

LEMMA MovingTypes ==
  ASSUME IInv, Moving
  PROVE  ControlTypes'
  <1> USE DEF IInv, ControlTypes, Steps, Fault
  <1>1. blocks' = blocks /\ lvl' = lvl
    BY DEF Moving, Start, Unreachable, ManageDone, ManageClosed, RecoverDone,
       FetchStopInvalid, FetchStopFails, NoStopLeft, TrailStop, KeepStop,
       CreateNot, CreateUnpaid, CreateInvalid, CreateFails, RefindDone,
       HandleTrade, ExitSignal, PlaceNot, PlaceUnpaid, Commit,
       AdjustNot, AdjustExit, TradeOver, vars, exch
  <1>2. amount \in Nat /\ OpenRows \subseteq Ids /\ OpenStops \subseteq Ids
    BY DEF BooksInv, DataTypes, OpenRows, OpenStops
  <1>3. CASE Start  BY <1>1, <1>2, <1>3 DEF Start, rows, counters
  <1>4. CASE Unreachable  BY <1>1, <1>4 DEF Unreachable, rows
  <1>5. CASE ManageDone  BY <1>1, <1>2, <1>5 DEF ManageDone, rows, counters
  <1>6. CASE ManageClosed  BY <1>1, <1>6 DEF ManageClosed, rows, counters
  <1>7. CASE RecoverDone  BY <1>1, <1>2, <1>7 DEF RecoverDone, rows, counters
  <1>8. CASE FetchStopInvalid  BY <1>1, <1>8 DEF FetchStopInvalid, rows
  <1>9. CASE FetchStopFails  BY <1>1, <1>9 DEF FetchStopFails, rows
  <1>10. CASE NoStopLeft  BY <1>1, <1>10 DEF NoStopLeft, rows, counters
  <1>11. CASE TrailStop
    BY <1>1, <1>2, <1>11 DEF TrailStop, ClearStops, Clearing, rows, counters
  <1>12. CASE KeepStop  BY <1>1, <1>12 DEF KeepStop, rows, counters
  <1>13. CASE CreateNot  BY <1>1, <1>13 DEF CreateNot, rows, counters
  <1>14. CASE CreateUnpaid  BY <1>1, <1>2, <1>14 DEF CreateUnpaid, Refind, rows, counters
  <1>15. CASE CreateInvalid
    BY <1>1, <1>2, <1>15 DEF CreateInvalid, ClearStops, Clearing, rows
  <1>16. CASE CreateFails  BY <1>1, <1>16 DEF CreateFails, rows
  <1>17. CASE RefindDone  BY <1>1, <1>17 DEF RefindDone, Leave, rows, counters
  <1>18. CASE HandleTrade  BY <1>1, <1>18 DEF HandleTrade, rows, counters
  <1>19. CASE ExitSignal
    BY <1>1, <1>2, <1>19 DEF ExitSignal, ClearStops, Clearing, rows, counters
  <1>20. CASE PlaceNot  BY <1>1, <1>20 DEF PlaceNot, Leave, rows, counters
  <1>21. CASE PlaceUnpaid  BY <1>1, <1>2, <1>21 DEF PlaceUnpaid, Refind, rows, counters
  <1>22. CASE Commit  BY <1>1, <1>22 DEF Commit, counters
  <1>23. CASE AdjustNot  BY <1>1, <1>23 DEF AdjustNot, rows, counters
  <1>24. CASE AdjustExit
    BY <1>1, <1>2, <1>24 DEF AdjustExit, ClearStops, Clearing, rows, counters
  <1>25. CASE TradeOver \/ UNCHANGED vars
    BY <1>1, <1>25 DEF TradeOver, vars, rows, control, counters
  <1> QED
    BY <1>3, <1>4, <1>5, <1>6, <1>7, <1>8, <1>9, <1>10, <1>11, <1>12, <1>13, <1>14, <1>15,
       <1>16, <1>17, <1>18, <1>19, <1>20, <1>21, <1>22, <1>23, <1>24, <1>25 DEF Moving

LEMMA MovingControl ==
  ASSUME IInv, Moving
  PROVE  Control'
  <1> USE DEF IInv, Control
  <1>1. /\ OpenRows' = OpenRows /\ OpenStops' = OpenStops /\ OpenOthers' = OpenOthers
        /\ NoOpenEntry' = NoOpenEntry
        /\ kind' = kind /\ isOpen' = isOpen
    BY MovingKept, KeptRows
  <1>2. \A o \in OpenRows : kind[o] # "none"
    <2>1. \A o \in Ids : Sound(o)  BY DEF BooksInv, AllSound
    <2>2. \A o \in OpenRows : o \in Ids /\ row[o] # NoRow  BY DEF OpenRows, NoRow
    <2> QED  BY <2>1, <2>2 DEF Sound
  <1>3. OpenStops \subseteq OpenRows  BY DEF OpenStops
  <1>4. CASE Start  BY <1>1, <1>2, <1>4 DEF Start
  <1>5. CASE Unreachable  BY <1>1, <1>5 DEF Unreachable
  <1>6. CASE ManageDone
    BY <1>1, <1>2, <1>3, <1>6 DEF ManageDone, NoOpenEntry
  <1>7. CASE ManageClosed  BY <1>1, <1>7 DEF ManageClosed
  <1>8. CASE RecoverDone  BY <1>1, <1>2, <1>3, <1>8 DEF RecoverDone
  <1>9. CASE FetchStopInvalid  BY <1>1, <1>9 DEF FetchStopInvalid
  <1>10. CASE FetchStopFails  BY <1>1, <1>10 DEF FetchStopFails
  <1>11. CASE NoStopLeft  BY <1>1, <1>11 DEF NoStopLeft
  <1>12. CASE TrailStop  BY <1>1, <1>12 DEF TrailStop, ClearStops, Clearing
  <1>13. CASE KeepStop  BY <1>1, <1>13 DEF KeepStop
  <1>14. CASE CreateNot  BY <1>1, <1>14 DEF CreateNot
  <1>15. CASE CreateUnpaid  BY <1>1, <1>2, <1>15 DEF CreateUnpaid, Refind
  <1>16. CASE CreateInvalid  BY <1>1, <1>16 DEF CreateInvalid, ClearStops, Clearing
  <1>17. CASE CreateFails  BY <1>1, <1>17 DEF CreateFails
  <1>18. CASE RefindDone  BY <1>1, <1>18 DEF RefindDone, Leave
  <1>19. CASE HandleTrade  BY <1>1, <1>19 DEF HandleTrade
  <1>20. CASE ExitSignal  BY <1>1, <1>20 DEF ExitSignal, ClearStops, Clearing
  <1>21. CASE PlaceNot  BY <1>1, <1>21 DEF PlaceNot, Leave
  <1>22. CASE PlaceUnpaid  BY <1>1, <1>2, <1>22 DEF PlaceUnpaid, Refind
  <1>23. CASE Commit  BY <1>1, <1>23 DEF Commit
  <1>24. CASE AdjustNot  BY <1>1, <1>24 DEF AdjustNot
  <1>25. CASE AdjustExit  BY <1>1, <1>25 DEF AdjustExit, ClearStops, Clearing
  <1>26. CASE TradeOver \/ UNCHANGED vars
    BY <1>1, <1>26 DEF TradeOver, vars, control
  <1> QED
    BY <1>4, <1>5, <1>6, <1>7, <1>8, <1>9, <1>10, <1>11, <1>12, <1>13, <1>14, <1>15, <1>16,
       <1>17, <1>18, <1>19, <1>20, <1>21, <1>22, <1>23, <1>24, <1>25, <1>26 DEF Moving

LEMMA MovingLeftovers ==
  ASSUME IInv, Moving
  PROVE  Leftovers'
  <1>1. Kept  BY MovingKept DEF IInv
  <1>2. CASE Unreachable \/ FetchStopInvalid \/ FetchStopFails \/ CreateInvalid \/ CreateFails
    BY <1>2, FaultLeftovers
    DEF IInv, Unreachable, FetchStopInvalid, FetchStopFails, CreateInvalid, CreateFails, Fault
  <1>3. CASE PlaceNot
    <2>1. CASE Fault  BY <2>1, FaultLeftovers DEF IInv, Fault
    <2>2. CASE UNCHANGED counters
      <3>1. clr' = clr  BY <1>3 DEF PlaceNot
      <3> QED  BY <1>1, <2>2, <3>1, KeptLeftovers DEF IInv
    <2> QED  BY <1>3, <2>1, <2>2 DEF PlaceNot
  <1>4. CASE \/ Start \/ ManageDone \/ ManageClosed \/ RecoverDone \/ NoStopLeft \/ KeepStop
             \/ CreateNot \/ CreateUnpaid \/ RefindDone \/ HandleTrade \/ PlaceUnpaid
             \/ Commit \/ AdjustNot \/ TradeOver \/ UNCHANGED vars
    <2>1. clr' = clr /\ UNCHANGED counters
      BY <1>4 DEF Start, ManageDone, ManageClosed, RecoverDone, NoStopLeft, KeepStop,
         CreateNot, CreateUnpaid, RefindDone, HandleTrade, PlaceUnpaid, Commit, AdjustNot,
         TradeOver, vars, control, Refind
    <2> QED  BY <1>1, <2>1, KeptLeftovers DEF IInv
  <1>5. CASE TrailStop \/ ExitSignal \/ AdjustExit
    <2>1. isOpen /\ UNCHANGED counters  BY <1>5 DEF TrailStop, NeedsStop, ExitSignal, AdjustExit
    <2> QED  BY <1>1, <2>1, KeptLeftovers DEF IInv
  <1> QED  BY <1>2, <1>3, <1>4, <1>5 DEF Moving

-----------------------------------------------------------------------------
(* The steps that enter a reply.                                            *)

LEMMA UpdateTells ==
  ASSUME BooksInv, NEW o \in Ids, NEW st, NEW then, UpdateTradeState(o, st, fill[o], then),
         UNCHANGED <<kind, amt, fill, bal>>, stat' = [stat EXCEPT ![o] = st]
  PROVE  Tell(o, st)
  <1>1. isOpen \in BOOLEAN  BY DEF BooksInv, DataTypes
  <1> QED  BY <1>1 DEF Tell, UpdateTradeState

LEMMA SameStat ==
  ASSUME BooksInv, NEW o \in Ids, UNCHANGED stat
  PROVE  stat' = [stat EXCEPT ![o] = stat[o]] /\ stat[o] \in Statuses
  BY DEF BooksInv, DataTypes, Statuses

\* Rows other than the one of o stay as they are; stops are cancelled only for
\* an entry that filled or because the trade is closed, all of those left.
LEMMA UpdateControl ==
  ASSUME IInv, NEW o \in Ids, kind[o] # "none", NEW st \in Statuses,
         st = stat[o] \/ st = "canceled", pc # "clear",
         NEW then \in Steps, UpdateTradeState(o, st, fill[o], then), Tell(o, st)
  PROVE  /\ clr' \subseteq OpenStops' /\ clr' \subseteq Ids
         /\ \/ pc' = then /\ ret' = "end" /\ clr' = {}
            \/ pc' = "clear" /\ ret' = then /\ clr' # {}
         /\ clr' # {} => (~isOpen' \/ (row[o].as = "entry" /\ pc # "recover"))
         /\ \A p \in Ids \ {o} : row'[p] = row[p]
         /\ ~isOpen => ~isOpen'
         /\ ~isOpen' /\ isOpen => clr' = OpenStops \ {o}
         /\ ~isOpen => clr' = {} \/ clr' = OpenStops \ {o}
         /\ fresh' = {} /\ saved' = stopLoss
  <1>1. clr = {} /\ ret = "end"  BY DEF IInv, Control
  <1>2. \A p \in Ids \ {o} : row'[p] = row[p]  BY TellRow DEF IInv
  <1>3. OpenStops \ {o} \subseteq OpenStops' /\ OpenStops \subseteq Ids
    BY <1>2 DEF OpenStops, OpenRows
  <1>4. \/ clr' = clr /\ isOpen' = isOpen
        \/ /\ isOpen' = (isOpen /\ ~Closes(o, fill[o]))
           /\ clr' = IF ~isOpen' \/ (row[o].as = "entry" /\ pc # "recover")
                     THEN OpenStops \ {o} ELSE clr
    BY DEF UpdateTradeState
  <1>5. /\ clr' = {} => pc' = then /\ ret' = "end"
        /\ clr' # {} => pc' = "clear" /\ ret' = then
    BY DEF UpdateTradeState, Clearing
  <1>6. fresh' = {} /\ saved' = stopLoss  BY DEF UpdateTradeState
  <1>7. isOpen \in BOOLEAN /\ isOpen' \in BOOLEAN
    BY <1>4 DEF IInv, BooksInv, DataTypes
  <1>8. CASE clr' = clr /\ isOpen' = isOpen
    BY <1>1, <1>2, <1>3, <1>5, <1>6, <1>7, <1>8
  <1>9. CASE /\ isOpen' = (isOpen /\ ~Closes(o, fill[o]))
             /\ clr' = IF ~isOpen' \/ (row[o].as = "entry" /\ pc # "recover")
                       THEN OpenStops \ {o} ELSE clr
    <2>1. ~isOpen => ~isOpen'  BY <1>9
    <2>2. ~isOpen' => clr' = OpenStops \ {o}  BY <1>9
    <2>3. clr' \subseteq OpenStops' /\ clr' \subseteq Ids  BY <1>1, <1>3, <1>9
    <2>4. clr' # {} => (~isOpen' \/ (row[o].as = "entry" /\ pc # "recover"))
      BY <1>1, <1>9
    <2> QED  BY <1>2, <1>5, <1>6, <2>1, <2>2, <2>3, <2>4
  <1> QED  BY <1>4, <1>8, <1>9

\* A row is entered and the stops of a trade that it closed are noted.
LEMMA TellLeftovers ==
  ASSUME IInv, NEW o \in Ids, kind[o] # "none", NEW st \in Statuses,
         st = stat[o] \/ st = "canceled", Tell(o, st), UNCHANGED counters,
         ~isOpen => ~isOpen',
         ~isOpen' /\ isOpen => OpenStops \ {o} \subseteq clr',
         ~isOpen => clr \ {o} \subseteq clr' \/ OpenStops \ {o} \subseteq clr',
         ~isOpen /\ o \in clr => st # "open"
  PROVE  Leftovers'
  <1>1. Troubles' = Troubles  BY DEF Troubles, counters
  <1> SUFFICES ASSUME Troubles = 0 PROVE Leftovers'  BY <1>1 DEF Leftovers
  <1>2. \A p \in Ids : kind[p] # "none"
          => row[p] # NoRow /\ (row[p].as = "stop" <=> kind[p] = "stop")
    BY DEF IInv, Leftovers
  <1>3. kind' = kind  BY DEF Tell
  <1>4. ASSUME NEW p \in Ids, kind[p] # "none"
        PROVE  row'[p] # NoRow /\ (row'[p].as = "stop" <=> kind[p] = "stop")
    BY <1>2, <1>4, TellRow DEF IInv
  <1>5. ASSUME ~isOpen', NEW p \in Ids, Live(p)', kind[p] = "stop" PROVE p \in clr'
    <2>1. Live(p)  BY <1>3, <1>5, TellRow DEF Live, IInv
    <2>2. ~Told(p) /\ row[p].as = "stop"
      BY <1>2, <1>5, <2>1 DEF IInv, BooksInv, AllSound, Sound, Live
    <2>3. p \in OpenStops  BY <1>2, <1>5, <2>2 DEF OpenStops, OpenRows, Told
    <2>4. CASE isOpen
      <3>1. p # o
        <4>1. ASSUME p = o PROVE FALSE
          <5>1. st = "open"  BY <1>5, <4>1, TellRow DEF Live, IInv
          <5>2. ~Books(st, fill[o])  BY <5>1 DEF Books
          <5>3. isOpen'  BY <2>4, <5>2 DEF Tell
          <5> QED  BY <1>5, <5>3
        <4> QED  BY <4>1
      <3> QED  BY <1>5, <2>3, <2>4, <3>1
    <2>5. CASE ~isOpen
      <3>1. p \in clr  BY <1>5, <2>1, <2>5 DEF IInv, Leftovers
      <3>2. p # o
        <4>1. ASSUME p = o PROVE FALSE
          <5>1. st = "open"  BY <1>5, <4>1, TellRow DEF Live, IInv
          <5> QED  BY <2>5, <3>1, <4>1, <5>1
        <4> QED  BY <4>1
      <3> QED  BY <2>3, <2>5, <3>1, <3>2
    <2> QED  BY <2>4, <2>5
  <1> QED  BY <1>3, <1>4, <1>5 DEF Leftovers

\* What the loops that enter replies have in common.
Booking(o, st, then) ==
    /\ UpdateTradeState(o, st, fill[o], then) /\ Tell(o, st)
    /\ todo' = todo \ {o}
    /\ UNCHANGED <<blocks, lvl, stopLoss, part, want, counters>>

LEMMA BookingStep ==
  ASSUME IInv, NEW o \in todo, NEW st \in Statuses, st = stat[o] \/ st = "canceled",
         NEW then \in Steps, Booking(o, st, then), seen' \subseteq Ids,
         \/ pc \in {"sync", "manage", "recover"} /\ then = pc
         \/ pc = "refind" /\ then = pc
         \/ pc = "stops" /\ then \in {"stops", "commit"}
  PROVE  IInv' /\ (isOpen /\ ~isOpen' /\ ~Told(o) /\ pc # "recover" => Net' <= 0)
  <1>1. o \in Ids /\ kind[o] # "none" /\ pc # "clear" /\ ret = "end" /\ clr = {}
    BY DEF IInv, Control, ControlTypes
  <1>2. Tell(o, st) /\ UpdateTradeState(o, st, fill[o], then)  BY DEF Booking
  <1>3. /\ clr' \subseteq OpenStops' /\ clr' \subseteq Ids
        /\ \/ pc' = then /\ ret' = "end" /\ clr' = {}
           \/ pc' = "clear" /\ ret' = then /\ clr' # {}
        /\ clr' # {} => (~isOpen' \/ (row[o].as = "entry" /\ pc # "recover"))
        /\ \A p \in Ids \ {o} : row'[p] = row[p]
        /\ ~isOpen => ~isOpen'
        /\ ~isOpen' /\ isOpen => clr' = OpenStops \ {o}
        /\ ~isOpen => clr' = {} \/ clr' = OpenStops \ {o}
        /\ fresh' = {} /\ saved' = stopLoss
    BY <1>1, <1>2, UpdateControl
  <1>4. isOpen /\ pc = "recover" => NoOpenEntry  BY DEF IInv, Control
  <1>5. BooksInv' /\ (isOpen /\ ~isOpen' /\ ~Told(o) /\ pc # "recover" => Net' <= 0)
    BY <1>1, <1>2, <1>4, TellStep DEF IInv
  <1>6. ControlTypes'
    <2>1. pc' \in Steps /\ ret' \in Steps  BY <1>3 DEF Steps
    <2> QED  BY <1>3, <2>1 DEF Booking, IInv, ControlTypes, counters
  <1>7. Leftovers'
    <2>1. UNCHANGED counters  BY DEF Booking
    <2> QED  BY <1>1, <1>2, <1>3, <2>1, TellLeftovers
  <1>8. Control'
    <2>1. todo' = todo \ {o} /\ part' = part /\ kind' = kind  BY DEF Booking, Tell
    <2>2. \A p \in Ids \ {o} : /\ p \in OpenStops => p \in OpenStops'
                               /\ p \in OpenOthers => p \in OpenOthers'
      BY <1>3 DEF OpenStops, OpenOthers, OpenRows
    <2>3. todo \subseteq Ids  BY DEF IInv, ControlTypes
    <2>4. pc' # "clear" => ret' = "end" /\ clr' = {}  BY <1>3
    <2>5. \A p \in todo' : kind'[p] # "none"  BY <2>1 DEF IInv, Control
    <2>6. pc' = "sync" \/ ret' = "sync" => part' = "startup"
      BY <1>3, <2>1 DEF IInv, Control
    <2>7. pc' = "manage" \/ ret' = "manage" => todo' \subseteq OpenOthers'
      <3>1. pc' = "manage" \/ ret' = "manage" => pc = "manage"  BY <1>3
      <3> QED  BY <2>1, <2>2, <2>3, <3>1 DEF IInv, Control
    <2>8. pc' = "stops" /\ isOpen' => todo' \subseteq OpenStops'
      <3>1. pc' = "stops" => pc = "stops"  BY <1>3
      <3> QED  BY <1>3, <2>1, <2>2, <2>3, <3>1 DEF IInv, Control
    <2>9. ret' \in {"stops", "recover"} => ~isOpen'
      <3>1. CASE pc = "recover"  BY <1>3, <3>1
      <3>2. CASE pc = "stops"
        <4>1. CASE isOpen
          <5>1. o \in OpenStops  BY <3>2, <4>1 DEF IInv, Control
          <5>2. row[o].as # "entry"  BY <5>1 DEF OpenStops
          <5> QED  BY <1>3, <5>2
        <4>2. CASE ~isOpen  BY <1>3, <4>2
        <4> QED  BY <4>1, <4>2
      <3>3. CASE pc \notin {"recover", "stops"}  BY <1>3, <3>3
      <3> QED  BY <3>1, <3>2, <3>3
    <2>10. pc' = "recover" /\ isOpen' => NoOpenEntry'
      <3> SUFFICES ASSUME pc' = "recover", isOpen', NEW p \in OpenRows'
                   PROVE  row'[p].as # "entry"
        BY DEF NoOpenEntry
      <3>1. pc = "recover" /\ isOpen /\ NoOpenEntry /\ p \in Ids
        BY <1>3, <1>4 DEF OpenRows
      <3>2. CASE p # o
        BY <1>3, <3>1, <3>2 DEF NoOpenEntry, OpenRows
      <3>3. CASE p = o
        <4>1. row'[o].as = "entry" => row[o].as = "entry" /\ row[o] # NoRow
          BY <1>1, <1>2, TellRow DEF IInv, NoRow
        <4>2. row'[o].open => st = "open"  BY <1>1, <1>2, TellRow DEF IInv
        <4>3. Told(o) => st # "open"  BY <1>1, <1>2, TellRow DEF IInv
        <4>4. row[o].open => row[o].as # "entry"  BY <1>1, <3>1 DEF NoOpenEntry, OpenRows
        <4>5. row'[o].open  BY <3>3 DEF OpenRows
        <4> QED  BY <3>3, <4>1, <4>2, <4>3, <4>4, <4>5 DEF Told
      <3> QED  BY <3>2, <3>3
    <2> QED  BY <1>3, <2>4, <2>5, <2>6, <2>7, <2>8, <2>9, <2>10 DEF Control
  <1> QED  BY <1>5, <1>6, <1>7, <1>8 DEF IInv

LEMMA LoopSteps ==
  ASSUME IInv, \/ SyncOrder \/ ManageOrder \/ ManageTimeout \/ RecoverOrder \/ FetchStop
               \/ RefindOrder
  PROVE  /\ IInv'
         /\ isOpen /\ ~isOpen' /\ part # "startup" /\ pc # "recover" => Net' <= 0
  <1>1. /\ BooksInv /\ todo \subseteq Ids /\ seen \subseteq Ids
        /\ \A o \in todo : kind[o] # "none"
    BY DEF IInv, ControlTypes, Control
  <1>2. \A o \in OpenRows : ~Told(o)  BY DEF OpenRows, Told
  <1>3. pc \in {"manage", "stops"} /\ isOpen => todo \subseteq OpenRows
    BY DEF IInv, Control, OpenStops, OpenOthers
  <1>4. CASE SyncOrder
    <2>1. PICK o \in todo :
            /\ pc = "sync" /\ todo' = todo \ {o}
            /\ UpdateTradeState(o, stat[o], fill[o], "sync")
            /\ UNCHANGED <<blocks, exch, stopLoss, part, seen, want, counters>>
      BY <1>4 DEF SyncOrder
    <2>2. Tell(o, stat[o]) /\ stat[o] \in Statuses
      BY <1>1, <2>1, UpdateTells, SameStat DEF exch
    <2>3. Booking(o, stat[o], "sync") /\ seen' \subseteq Ids  BY <1>1, <2>1, <2>2 DEF Booking, exch
    <2>4. part = "startup"  BY <2>1 DEF IInv, Control
    <2>5. IInv'  BY <2>1, <2>2, <2>3, BookingStep DEF Steps
    <2> QED  BY <2>4, <2>5
  <1>5. CASE ManageOrder
    <2>1. PICK o \in todo :
            /\ pc = "manage" /\ todo' = todo \ {o}
            /\ UpdateTradeState(o, stat[o], fill[o], "manage")
            /\ UNCHANGED <<blocks, exch, stopLoss, part, seen, want, counters>>
      BY <1>5 DEF ManageOrder
    <2>2. Tell(o, stat[o]) /\ stat[o] \in Statuses
      BY <1>1, <2>1, UpdateTells, SameStat DEF exch
    <2>3. Booking(o, stat[o], "manage") /\ seen' \subseteq Ids
      BY <1>1, <2>1, <2>2 DEF Booking, exch
    <2>4. IInv' /\ (isOpen /\ ~isOpen' /\ ~Told(o) /\ pc # "recover" => Net' <= 0)
      BY <2>1, <2>2, <2>3, BookingStep DEF Steps
    <2> QED  BY <1>2, <1>3, <2>1, <2>4
  <1>6. CASE ManageTimeout
    <2>1. PICK o \in todo :
            /\ pc = "manage" /\ todo' = todo \ {o}
            /\ stat' = [stat EXCEPT ![o] = "canceled"]
            /\ UpdateTradeState(o, "canceled", fill[o], "manage")
            /\ UNCHANGED <<blocks, kind, amt, fill, lvl, bal, stopLoss, part, seen, want, counters>>
      BY <1>6 DEF ManageTimeout
    <2>2. Tell(o, "canceled") /\ "canceled" \in Statuses
      BY <1>1, <2>1, UpdateTells DEF Statuses
    <2>3. Booking(o, "canceled", "manage") /\ seen' \subseteq Ids
      BY <1>1, <2>1, <2>2 DEF Booking
    <2>4. IInv' /\ (isOpen /\ ~isOpen' /\ ~Told(o) /\ pc # "recover" => Net' <= 0)
      BY <2>1, <2>2, <2>3, BookingStep DEF Steps
    <2> QED  BY <1>2, <1>3, <2>1, <2>4
  <1>7. CASE RecoverOrder
    <2>1. PICK o \in todo :
            /\ pc = "recover" /\ todo' = todo \ {o}
            /\ UpdateTradeState(o, stat[o], fill[o], "recover")
            /\ UNCHANGED <<blocks, exch, stopLoss, part, seen, want, counters>>
      BY <1>7 DEF RecoverOrder
    <2>2. Tell(o, stat[o]) /\ stat[o] \in Statuses
      BY <1>1, <2>1, UpdateTells, SameStat DEF exch
    <2>3. Booking(o, stat[o], "recover") /\ seen' \subseteq Ids
      BY <1>1, <2>1, <2>2 DEF Booking, exch
    <2>4. IInv'  BY <2>1, <2>2, <2>3, BookingStep DEF Steps
    <2> QED  BY <2>1, <2>4
  <1>8. CASE FetchStop
    <2>1. PICK o \in todo :
            /\ pc = "stops" /\ todo' = todo \ {o} /\ seen' = seen \union {o}
            /\ UpdateTradeState(o, stat[o], fill[o],
                                IF stat[o] = "closed" THEN "commit" ELSE "stops")
            /\ UNCHANGED <<blocks, exch, stopLoss, part, want, counters>>
      BY <1>8 DEF FetchStop
    <2>2. PICK then \in {"stops", "commit"} : UpdateTradeState(o, stat[o], fill[o], then)
      BY <2>1
    <2>3. Tell(o, stat[o]) /\ stat[o] \in Statuses
      BY <1>1, <2>1, <2>2, UpdateTells, SameStat DEF exch
    <2>4. Booking(o, stat[o], then) /\ seen' \subseteq Ids
      BY <1>1, <2>1, <2>2, <2>3 DEF Booking, exch
    <2>5. then \in Steps  BY DEF Steps
    <2>6. IInv' /\ (isOpen /\ ~isOpen' /\ ~Told(o) /\ pc # "recover" => Net' <= 0)
      BY <2>1, <2>2, <2>3, <2>4, <2>5, BookingStep
    <2> QED  BY <1>2, <1>3, <2>1, <2>6
  <1>9. CASE RefindOrder
    <2>1. PICK o \in todo :
            /\ pc = "refind" /\ todo' = todo \ {o}
            /\ IF row[o].open THEN UpdateTradeState(o, stat[o], fill[o], "refind")
               ELSE UNCHANGED <<rows, clr, pc, ret>>
            /\ UNCHANGED <<blocks, exch, stopLoss, part, seen, want, counters>>
      BY <1>9 DEF RefindOrder
    <2>2. CASE row[o].open
      <3>1. UpdateTradeState(o, stat[o], fill[o], "refind")  BY <2>1, <2>2
      <3>2. Tell(o, stat[o]) /\ stat[o] \in Statuses
        BY <1>1, <2>1, <3>1, UpdateTells, SameStat DEF exch
      <3>3. Booking(o, stat[o], "refind") /\ seen' \subseteq Ids
        BY <1>1, <2>1, <3>1, <3>2 DEF Booking, exch
      <3>4. IInv' /\ (isOpen /\ ~isOpen' /\ ~Told(o) /\ pc # "recover" => Net' <= 0)
        BY <2>1, <3>2, <3>3, BookingStep DEF Steps
      <3> QED  BY <2>2, <3>4 DEF Told
    <2>3. CASE ~row[o].open
      <3>1. UNCHANGED <<rows, clr, pc, ret>>  BY <2>1, <2>3
      <3>2. Kept  BY <1>1, <2>1, <3>1, SameStat DEF Kept, exch, rows, BooksInv, DataTypes, Statuses
      <3>3. BooksInv'  BY <1>1, <3>2, KeptStep
      <3>4. ControlTypes'  BY <2>1, <3>1 DEF IInv, ControlTypes, exch, rows, counters
      <3>5. Control'
        <4>1. /\ OpenStops' = OpenStops /\ OpenOthers' = OpenOthers
              /\ NoOpenEntry' = NoOpenEntry /\ kind' = kind /\ isOpen' = isOpen
          BY <3>2, KeptRows
        <4> QED  BY <2>1, <3>1, <4>1 DEF IInv, Control
      <3>6. Leftovers'  BY <2>1, <3>1, <3>2, KeptLeftovers DEF IInv
      <3>7. isOpen' = isOpen  BY <3>1 DEF rows
      <3> QED  BY <3>3, <3>4, <3>5, <3>6, <3>7 DEF IInv
    <2> QED  BY <2>2, <2>3
  <1> QED  BY <1>4, <1>5, <1>6, <1>7, <1>8, <1>9

\* A stop is cancelled and entered.
LEMMA CancelStep ==
  ASSUME IInv, CancelStop
  PROVE  IInv' /\ (isOpen /\ ~isOpen' => Net' <= 0)
  <1>1. PICK o \in clr :
          /\ pc = "clear" /\ Live(o)
          /\ stat' = [stat EXCEPT ![o] = "canceled"]
          /\ UNCHANGED <<kind, amt, fill, lvl, bal, past>>
          /\ row' = [row EXCEPT ![o] = [as |-> row[o].as, open |-> FALSE]]
          /\ known' = [known EXCEPT ![o] = fill[o]]
          /\ fresh' = {} /\ saved' = stopLoss
          /\ amount' = IF fill[o] > 0 THEN AmountAfter(o, fill[o]) ELSE amount
          /\ isOpen' = (isOpen /\ ~(fill[o] > 0 /\ Closes(o, fill[o])))
          /\ clr' = IF fill[o] > 0 /\ ~isOpen' THEN OpenStops \ {o} ELSE clr \ {o}
          /\ Clearing(ret)
          /\ UNCHANGED <<blocks, stopLoss, part, todo, seen, want, counters>>
    BY DEF CancelStop
  <1>2. o \in Ids /\ o \in OpenStops /\ kind[o] # "none" /\ row[o] # NoRow /\ ~Told(o)
        /\ OpenStops \subseteq Ids /\ clr \subseteq OpenStops
    BY <1>1 DEF IInv, Control, OpenStops, OpenRows, Told, NoRow, Live
  <1>3. Tell(o, "canceled")
    <2>1. Books("canceled", fill[o]) <=> fill[o] > 0  BY DEF Books
    <2>2. row' = [row EXCEPT ![o] = [as |-> IF row[o] = NoRow THEN "exit" ELSE row[o].as,
                                     open |-> "canceled" = "open"]]
      BY <1>1, <1>2
    <2>3. amount' = IF Books("canceled", fill[o]) THEN AmountAfter(o, fill[o]) ELSE amount
      BY <1>1, <2>1
    <2>4. isOpen' = (isOpen /\ ~(Books("canceled", fill[o]) /\ Closes(o, fill[o])))
      <3>1. isOpen \in BOOLEAN  BY DEF IInv, BooksInv, DataTypes
      <3> QED  BY <1>1, <2>1, <3>1
    <2> QED  BY <1>1, <2>2, <2>3, <2>4 DEF Tell
  <1>4. "canceled" \in Statuses  BY DEF Statuses
  <1>5. BooksInv' /\ (isOpen /\ ~isOpen' => Net' <= 0)
    BY <1>1, <1>2, <1>3, <1>4, TellStep DEF IInv
  <1>6. \A p \in Ids \ {o} : row'[p] = row[p]  BY <1>2, <1>3, <1>4, TellRow DEF IInv
  <1>7. /\ OpenStops \ {o} \subseteq OpenStops' /\ OpenOthers \subseteq OpenOthers'
    BY <1>2, <1>6 DEF OpenStops, OpenOthers, OpenRows
  <1>8. clr' \subseteq OpenStops' /\ clr' \subseteq Ids  BY <1>1, <1>2, <1>7
  <1>9. \/ pc' = ret /\ ret' = "end" /\ clr' = {}
        \/ pc' = "clear" /\ ret' = ret
    BY <1>1 DEF Clearing
  <1>10. ~isOpen => ~isOpen'  BY <1>1
  <1>11. ControlTypes'
    <2>1. pc' \in Steps /\ ret' \in Steps  BY <1>9 DEF IInv, ControlTypes, Steps
    <2> QED  BY <1>1, <1>8, <2>1 DEF IInv, ControlTypes, counters
  <1>12. Control'
    <2>1. pc' # "clear" => ret' = "end" /\ clr' = {}  BY <1>9
    <2>2. \A p \in todo' : kind'[p] # "none"  BY <1>1 DEF IInv, Control
    <2>3. pc' = "sync" \/ ret' = "sync" => part' = "startup"
      BY <1>1, <1>9 DEF IInv, Control
    <2>4. pc' = "manage" \/ ret' = "manage" => todo' \subseteq OpenOthers'
      BY <1>1, <1>7, <1>9 DEF IInv, Control
    <2>5. pc' \in {"stops", "recover"} \/ ret' \in {"stops", "recover"} => ~isOpen'
      BY <1>9, <1>10 DEF IInv, Control
    <2> QED  BY <1>8, <2>1, <2>2, <2>3, <2>4, <2>5 DEF Control
  <1>13. Leftovers'
    <2>1. ~isOpen' /\ isOpen => OpenStops \ {o} \subseteq clr'  BY <1>1
    <2>2. clr \ {o} \subseteq clr' \/ OpenStops \ {o} \subseteq clr'  BY <1>1
    <2>3. UNCHANGED counters  BY <1>1
    <2> QED  BY <1>2, <1>3, <1>4, <1>10, <2>1, <2>2, <2>3, TellLeftovers
  <1> QED  BY <1>5, <1>11, <1>12, <1>13 DEF IInv

\* A stop was not there to cancel, or the call failed.
LEMMA CancelFailsStep ==
  ASSUME IInv, CancelStopInvalid \/ CancelStopFails
  PROVE  IInv' /\ isOpen' = isOpen
  <1>1. CASE CancelStopInvalid
    <2>1. PICK o \in clr :
            /\ pc = "clear" /\ ~Live(o) /\ clr' = clr \ {o} /\ Clearing(ret)
            /\ UNCHANGED <<blocks, exch, rows, stopLoss, part, todo, seen, want, counters>>
      BY <1>1 DEF CancelStopInvalid
    <2>2. Kept  BY <2>1 DEF Kept, exch, rows, IInv, BooksInv, DataTypes, Statuses
    <2>3. BooksInv'  BY <2>2, KeptStep DEF IInv
    <2>4. \/ pc' = ret /\ ret' = "end" /\ clr' = {}
          \/ pc' = "clear" /\ ret' = ret
      BY <2>1 DEF Clearing
    <2>5. ControlTypes'
      <3>1. pc' \in Steps /\ ret' \in Steps  BY <2>4 DEF IInv, ControlTypes, Steps
      <3> QED  BY <2>1, <3>1 DEF IInv, ControlTypes, exch, rows, counters
    <2>6. /\ OpenStops' = OpenStops /\ OpenOthers' = OpenOthers
          /\ NoOpenEntry' = NoOpenEntry /\ kind' = kind /\ isOpen' = isOpen
      BY <2>2, KeptRows
    <2>7. Control'  BY <2>1, <2>4, <2>6 DEF IInv, Control
    <2>8. Leftovers'  BY <2>1, <2>2, KeptLeftovers DEF IInv
    <2> QED  BY <2>3, <2>5, <2>6, <2>7, <2>8 DEF IInv
  <1>2. CASE CancelStopFails
    <2>1. PICK o \in clr :
            /\ pc = "clear" /\ Fault /\ Caught /\ clr' = {} /\ ret' = "end"
            /\ stat' = stat \/ stat' = [stat EXCEPT ![o] = "canceled"]
            /\ UNCHANGED <<blocks, kind, amt, fill, lvl, bal, rows, stopLoss, todo, seen>>
      BY <1>2 DEF CancelStopFails
    <2>2. Kept
      <3>1. stat \in [Ids -> Statuses] /\ o \in Ids
        BY <2>1 DEF IInv, BooksInv, DataTypes, ControlTypes, Statuses
      <3>2. /\ stat' \in [Ids -> Statuses]
            /\ \A p \in Ids : stat'[p] = stat[p] \/ stat'[p] = "canceled"
        BY <2>1, <3>1 DEF Statuses
      <3> QED  BY <2>1, <3>2 DEF Kept, rows
    <2>3. BooksInv'  BY <2>2, KeptStep DEF IInv
    <2>4. /\ pc' \in {"trade", "end", "commit"}
             \/ (ret \in {"sync", "refind"} /\ pc' = ret /\ part' = part)
          /\ part' \in {part, "exits"} /\ want' \in {want, 0}
      BY <2>1 DEF Caught, Leave
    <2>5. Leftovers' /\ faults' \in Nat /\ lost' \in Nat /\ crashes' \in Nat
      BY <2>1, FaultLeftovers DEF Fault, IInv
    <2>6. ControlTypes'
      BY <2>1, <2>4, <2>5 DEF IInv, ControlTypes, Steps, rows
    <2>7. /\ OpenStops' = OpenStops /\ OpenOthers' = OpenOthers
          /\ NoOpenEntry' = NoOpenEntry /\ kind' = kind /\ isOpen' = isOpen
      BY <2>2, KeptRows
    <2>8. Control'  BY <2>1, <2>4, <2>7 DEF IInv, Control
    <2> QED  BY <2>3, <2>5, <2>6, <2>7, <2>8 DEF IInv
  <1> QED  BY <1>1, <1>2

-----------------------------------------------------------------------------
(* The other steps.                                                         *)

\* Which rows and orders there are when one is placed.
LEMMA PlaceRows ==
  ASSUME IInv, NEW p \in Ids, NEW k \in {"entry", "exit", "stop"}, NEW r,
         kind[p] = "none", row[p] = NoRow,
         kind' = [kind EXCEPT ![p] = k], row' = [row EXCEPT ![p] = r],
         UNCHANGED <<stat, isOpen, clr, todo>>, pc # "clear"
  PROVE  /\ clr' = {} /\ \A o \in todo' : kind'[o] # "none"
         /\ UNCHANGED counters /\ r = [as |-> k, open |-> TRUE]
              /\ (k = "stop" => isOpen) => Leftovers'
  <1>1. clr = {} /\ \A o \in todo : kind[o] # "none"  BY DEF IInv, Control
  <1>2. kind \in [Ids -> {"none", "entry", "exit", "stop"}] /\ row \in [Ids -> Rows]
    BY DEF IInv, BooksInv, DataTypes
  <1>3. \A o \in Ids : o # p => kind'[o] = kind[o] /\ row'[o] = row[o]  BY <1>2
  <1>4. kind'[p] = k /\ row'[p] = r  BY <1>2
  <1>5. todo \subseteq Ids  BY DEF IInv, ControlTypes
  <1>6. \A o \in todo' : kind'[o] # "none"  BY <1>1, <1>3, <1>4, <1>5
  <1>7. ASSUME UNCHANGED counters, r = [as |-> k, open |-> TRUE], k = "stop" => isOpen
        PROVE  Leftovers'
    <2>1. Troubles' = Troubles  BY <1>7 DEF Troubles, counters
    <2>2. r # NoRow /\ r.as = k  BY <1>7 DEF NoRow
    <2>3. ASSUME Troubles = 0, NEW o \in Ids, kind'[o] # "none"
          PROVE  row'[o] # NoRow /\ (row'[o].as = "stop" <=> kind'[o] = "stop")
      <3>1. CASE o = p  BY <1>4, <2>2, <3>1
      <3>2. CASE o # p  BY <1>3, <2>3, <3>2 DEF IInv, Leftovers
      <3> QED  BY <3>1, <3>2
    <2>4. ASSUME Troubles = 0, ~isOpen', NEW o \in Ids, Live(o)', kind'[o] = "stop"
          PROVE  o \in clr'
      <3>1. CASE o = p  BY <1>4, <1>7, <2>4, <3>1
      <3>2. CASE o # p
        <4>1. Live(o) /\ kind[o] = "stop"  BY <1>3, <2>4, <3>2 DEF Live
        <4> QED  BY <2>4, <4>1 DEF IInv, Leftovers
      <3> QED  BY <3>1, <3>2
    <2> QED  BY <2>1, <2>3, <2>4 DEF Leftovers
  <1> QED  BY <1>1, <1>6, <1>7

LEMMA PlaceStep ==
  ASSUME IInv, CreateStop \/ CreateLost \/ PlaceExit \/ AdjustEntry
  PROVE  IInv' /\ isOpen' = isOpen
  <1>1. PICK k \in {"entry", "exit", "stop"}, a \in Nat, l \in Nat, r \in Rows :
          /\ r = [as |-> k, open |-> TRUE] \/ (k = "stop" /\ r = NoRow)
          /\ NewOrder(k, a, l, r)
          /\ \/ UNCHANGED counters /\ r = [as |-> k, open |-> TRUE] /\ (k = "stop" => isOpen)
             \/ lost' = lost + 1 /\ UNCHANGED <<faults, crashes>>
    <2>1. amount \in Nat /\ want \in Nat /\ AddAmt \in Nat /\ stopLoss \in Nat
      BY SizesAssumption DEF IInv, BooksInv, DataTypes, ControlTypes, Levels
    <2> NoRow \in Rows /\ \A b \in {"entry", "exit", "stop"} : [as |-> b, open |-> TRUE] \in Rows
      BY DEF Rows
    <2>2. CASE CreateStop
      <3>1. /\ NewOrder("stop", amount, stopLoss, [as |-> "stop", open |-> TRUE])
            /\ isOpen /\ UNCHANGED counters
        BY <2>2 DEF CreateStop
      <3> QED  BY <2>1, <3>1
    <2>3. CASE CreateLost
      <3>1. /\ NewOrder("stop", amount, stopLoss, NoRow)
            /\ lost' = lost + 1 /\ UNCHANGED <<faults, crashes>>
        BY <2>3 DEF CreateLost
      <3> QED  BY <2>1, <3>1
    <2>4. CASE PlaceExit
      <3>1. /\ NewOrder("exit", want, 0, [as |-> "exit", open |-> TRUE])
            /\ UNCHANGED counters
        BY <2>4 DEF PlaceExit
      <3> QED  BY <2>1, <3>1
    <2>5. CASE AdjustEntry
      <3>1. /\ NewOrder("entry", AddAmt, 0, [as |-> "entry", open |-> TRUE])
            /\ UNCHANGED counters
        BY <2>5 DEF AdjustEntry
      <3> QED  BY <2>1, <3>1
    <2> QED  BY <2>2, <2>3, <2>4, <2>5
  <1>2. BooksInv'  BY <1>1, PlacedStep DEF IInv
  <1>3. PICK p \in Ids : /\ kind[p] = "none" /\ row[p] = NoRow
                         /\ kind' = [kind EXCEPT ![p] = k] /\ row' = [row EXCEPT ![p] = r]
    BY <1>1, PlacedStep DEF IInv
  <1>4. /\ UNCHANGED <<stat, isOpen>> /\ saved' \in {saved, stopLoss}
        /\ \E o \in Ids : lvl' = [lvl EXCEPT ![o] = l]
    BY <1>1 DEF NewOrder, First
  <1>5. /\ pc \in {"create", "place", "adjust"} /\ pc' \in {"trade", "end", "commit"}
        /\ UNCHANGED <<blocks, stopLoss, ret, todo, seen, clr>>
        /\ part' \in {part, "exits"} /\ want' \in {want, 0}
    BY DEF CreateStop, CreateLost, PlaceExit, AdjustEntry, Leave
  <1>6. clr' = {} /\ \A o \in todo' : kind'[o] # "none"
    BY <1>3, <1>4, <1>5, PlaceRows
  <1>7. Leftovers'
    <2>1. CASE lost' = lost + 1 /\ UNCHANGED <<faults, crashes>>
      BY <2>1, FaultLeftovers DEF IInv
    <2>2. CASE UNCHANGED counters /\ r = [as |-> k, open |-> TRUE] /\ (k = "stop" => isOpen)
      BY <1>3, <1>4, <1>5, <2>2, PlaceRows
    <2> QED  BY <1>1, <2>1, <2>2
  <1>8. ControlTypes'
    <2>1. lvl' \in [Ids -> Nat]  BY <1>4 DEF IInv, ControlTypes
    <2>2. faults' \in Nat /\ lost' \in Nat /\ crashes' \in Nat
      BY <1>1 DEF IInv, ControlTypes, counters
    <2> QED  BY <1>4, <1>5, <1>6, <2>1, <2>2 DEF IInv, ControlTypes, Steps
  <1>9. Control'  BY <1>5, <1>6 DEF IInv, Control
  <1> QED  BY <1>2, <1>4, <1>7, <1>8, <1>9 DEF IInv

LEMMA NextStep ==
  ASSUME IInv, NextIteration
  PROVE  IInv' /\ isOpen' = isOpen
  <1>1. BooksInv'  BY GivenBackStep DEF IInv
  <1>2. /\ isOpen /\ isOpen' = isOpen /\ saved' = stopLoss
        /\ UNCHANGED <<blocks, stopLoss, counters>>
        /\ part' = "manage" /\ pc' = "manage" /\ todo' = OpenOthers
        /\ seen' = {} /\ clr' = {} /\ ret' = "end" /\ want' = 0
        /\ lvl' = Keep(lvl, 0)
    BY DEF NextIteration
  <1>3. ControlTypes'
    <2>1. OpenOthers \subseteq Ids  BY DEF OpenOthers, OpenRows
    <2>2. lvl' \in [Ids -> Nat]  BY <1>2 DEF IInv, ControlTypes, Keep
    <2> QED  BY <1>2, <2>1, <2>2 DEF IInv, ControlTypes, Steps, counters
  <1>4. \A o \in Ids : IF Done(o)
          THEN kind'[o] = "none" /\ row'[o] = NoRow
          ELSE kind'[o] = kind[o] /\ row'[o] = row[o] /\ stat'[o] = stat[o]
    BY DEF NextIteration, Keep
  <1>5. Control'
    <2>1. \A o \in OpenOthers : o \in Ids /\ ~Done(o) /\ row[o] # NoRow
      BY DEF OpenOthers, OpenRows, Done, NoRow
    <2>2. \A o \in OpenOthers : kind[o] # "none"
      BY <2>1 DEF IInv, BooksInv, AllSound, Sound
    <2>3. OpenOthers \subseteq OpenOthers'  BY <1>4, <2>1 DEF OpenOthers, OpenRows
    <2>4. \A o \in todo' : kind'[o] # "none"  BY <1>2, <1>4, <2>1, <2>2
    <2> QED  BY <1>2, <2>3, <2>4 DEF Control
  <1>6. Leftovers'
    <2>1. Troubles' = Troubles  BY <1>2 DEF Troubles, counters
    <2> QED  BY <1>2, <1>4, <2>1 DEF IInv, Leftovers
  <1> QED  BY <1>1, <1>2, <1>3, <1>5, <1>6 DEF IInv

LEMMA DieStep ==
  ASSUME IInv, Crash
  PROVE  IInv' /\ isOpen' = isOpen
  <1>1. BooksInv'  BY CrashedStep DEF IInv
  <1>2. /\ crashes' = crashes + 1 /\ UNCHANGED <<faults, lost, blocks, lvl, saved, isOpen, kind>>
        /\ stopLoss' = saved /\ pc' = "off" /\ part' = "startup" /\ ret' = "end"
        /\ todo' = {} /\ seen' = {} /\ clr' = {} /\ want' = 0
    BY DEF Crash, exch
  <1>3. Leftovers' /\ faults' \in Nat /\ lost' \in Nat /\ crashes' \in Nat
    BY <1>2, FaultLeftovers DEF IInv
  <1>4. ControlTypes'  BY <1>2, <1>3 DEF IInv, ControlTypes, Steps
  <1>5. Control'  BY <1>2 DEF Control
  <1> QED  BY <1>1, <1>2, <1>3, <1>4, <1>5 DEF IInv

LEMMA ExchangeStep ==
  ASSUME IInv, NEW o \in Ids, ExchangeFill(o) \/ ExchangeCancel(o)
  PROVE  IInv' /\ isOpen' = isOpen
  <1>1. /\ UNCHANGED <<blocks, kind, lvl, row, saved, isOpen, stopLoss, control, counters>>
        /\ \/ stat' = [stat EXCEPT ![o] = IF fill[o] + 1 >= amt[o] THEN "closed" ELSE stat[o]]
           \/ stat' = [stat EXCEPT ![o] = "canceled"]
    BY DEF ExchangeFill, ExchangeCancel, rows
  <1>2. stat \in [Ids -> Statuses]  BY DEF IInv, BooksInv, DataTypes, Statuses
  <1>3. BooksInv'
    <2>1. CASE ExchangeFill(o)  BY <2>1, FillStep DEF IInv
    <2>2. CASE ExchangeCancel(o)
      <3>1. Kept  BY <1>2, <2>2 DEF ExchangeCancel, Kept, rows, Statuses
      <3> QED  BY <3>1, KeptStep DEF IInv
    <2> QED  BY <2>1, <2>2
  <1>4. ControlTypes'  BY <1>1 DEF IInv, ControlTypes, control, counters
  <1>5. Control'
    <2>1. OpenStops' = OpenStops /\ OpenOthers' = OpenOthers /\ NoOpenEntry' = NoOpenEntry
      BY <1>1 DEF OpenStops, OpenOthers, NoOpenEntry, OpenRows
    <2> QED  BY <1>1, <2>1 DEF IInv, Control, control
  <1>6. Leftovers'
    <2>1. \A p \in Ids : Live(p)' => Live(p)  BY <1>1, <1>2 DEF Live
    <2>2. Troubles' = Troubles /\ clr' = clr  BY <1>1 DEF Troubles, counters, control
    <2> QED  BY <1>1, <2>1, <2>2 DEF IInv, Leftovers
  <1> QED  BY <1>1, <1>3, <1>4, <1>5, <1>6 DEF IInv

LEMMA MovingStep ==
  ASSUME IInv, Moving
  PROVE  IInv' /\ isOpen' = isOpen
  <1>1. Kept  BY MovingKept DEF IInv
  <1>2. BooksInv' /\ isOpen' = isOpen  BY <1>1, KeptStep DEF IInv, Kept
  <1> QED  BY <1>2, MovingTypes, MovingControl, MovingLeftovers DEF IInv

LEMMA InitBooks == Init => IInv
  <1> SUFFICES ASSUME Init PROVE IInv  OBVIOUS
  <1>1. FirstAmt \in Nat \ {0} /\ MaxLevel \in Nat \ {0}  BY SizesAssumption
  <1>2. DataTypes  BY <1>1 DEF Init, DataTypes, Rows
  <1>3. AllSound  BY DEF Init, AllSound, Sound, Told, NoRow
  <1>4. PICK m, c : m = Moves /\ c = Counted  OBVIOUS
  <1>5. \A o \in Ids : m[o] = 0 /\ c[o] = 0
    <2>1. \A o \in Ids : kind[o] = "none" /\ fill[o] = 0 /\ row[o] = NoRow  BY DEF Init
    <2> QED  BY <1>4, <2>1 DEF Moves, Counted, Told
  <1>6. SumOver(m, Ids) = 0 /\ SumOver(c, Ids) = 0
    <2>1. Summable(m, Ids) /\ Summable(c, Ids)  BY <1>5, IdsFinite DEF Summable
    <2>2. SumOver(m, Ids) \in Nat /\ SumOver(c, Ids) \in Nat  BY <1>5, IdsFinite, SumNat
    <2>3. SumOver(m, Ids) <= 0 /\ SumOver(c, Ids) <= 0  BY <1>5, <2>1, SumNotPositive
    <2> QED  BY <2>2, <2>3
  <1>7. Balance /\ AmountIsNet
    BY <1>1, <1>4, <1>6 DEF Init, Balance, AmountIsNet, Net
  <1>8. ControlTypes  BY <1>1 DEF Init, ControlTypes, Steps, Levels
  <1>9. Control  BY DEF Init, Control
  <1>10. Leftovers  BY DEF Init, Leftovers
  <1> QED  BY <1>2, <1>3, <1>7, <1>8, <1>9, <1>10 DEF IInv, BooksInv

\* Every step keeps the books, and process() closes the trade on a net of 0 or
\* less.
LEMMA StepBooks ==
  ASSUME IInv, [Next]_vars
  PROVE  IInv' /\ (part # "startup" /\ pc # "recover" /\ isOpen /\ ~isOpen' => Net' <= 0)
  <1>1. CASE \/ SyncOrder \/ ManageOrder \/ ManageTimeout \/ RecoverOrder \/ FetchStop
             \/ RefindOrder
    BY <1>1, LoopSteps
  <1>2. CASE CancelStop  BY <1>2, CancelStep
  <1>3. CASE CancelStopInvalid \/ CancelStopFails  BY <1>3, CancelFailsStep
  <1>4. CASE CreateStop \/ CreateLost \/ PlaceExit \/ AdjustEntry  BY <1>4, PlaceStep
  <1>5. CASE NextIteration  BY <1>5, NextStep
  <1>6. CASE Crash  BY <1>6, DieStep
  <1>7. CASE Exchange  BY <1>7, ExchangeStep DEF Exchange
  <1>8. CASE Moving  BY <1>8, MovingStep
  <1> QED
    BY <1>1, <1>2, <1>3, <1>4, <1>5, <1>6, <1>7, <1>8
    DEF Next, Bot, StartupStep, ManageStep, RecoverStep, ClearStep, StopStep, CreateStep,
        RefindStep, ExitStep, AdjustStep, Moving

\* When every order is done and entered, Trade.amount is the position that is
\* left, whatever was filled, cancelled, lost or booked in whatever order.
THEOREM AmountIsPosition == Spec => []AmountAgrees
  <1>1. IInv => AmountAgrees
    <2> SUFFICES ASSUME IInv, isOpen, AllTold PROVE amount = bal  BY DEF AmountAgrees
    <2>1. ASSUME NEW o \in Ids
          PROVE  (IF kind[o] = "entry" THEN fill[o] ELSE -fill[o])
                   = (IF Told(o) THEN Signed(known, o) ELSE 0)
      <3>1. Sound(o) /\ fill[o] \in Nat  BY DEF IInv, BooksInv, AllSound, DataTypes
      <3>2. CASE kind[o] = "none"  BY <3>1, <3>2 DEF Sound, Told
      <3>3. CASE kind[o] # "none"
        <4>1. Told(o) /\ known[o] = fill[o] /\ row[o] # NoRow  BY <3>3 DEF AllTold, Told
        <4> QED  BY <3>1, <4>1 DEF Sound, Signed
      <3> QED  BY <3>2, <3>3
    <2>2. Moves = Counted  BY <2>1 DEF Moves, Counted
    <2> QED  BY <2>2 DEF IInv, BooksInv, Balance, AmountIsNet, Net
  <1>2. IInv /\ [Next]_vars => IInv'  BY StepBooks
  <1> QED  BY InitBooks, <1>1, <1>2, PTL DEF Spec

\* process() closes the trade only on orders that together sold all that was
\* bought: no fill is counted twice because its stop was cancelled in one loop
\* and told about in another.
THEOREM ClosedIsSold == Spec => CloseIsBooked
  <1>1. IInv /\ [Next]_vars => IInv'  BY StepBooks
  <1>2. IInv => Booked = Net  BY BookedIsNet DEF IInv, BooksInv
  <1>3. IInv /\ (Booked = Net)' /\ [Next]_vars
          => [(part # "startup" /\ pc # "recover" /\ isOpen /\ ~isOpen') => Booked' <= 0]_vars
    BY StepBooks
  <1> QED  BY InitBooks, <1>1, <1>2, <1>3, PTL DEF Spec, CloseIsBooked

\* No stop outlives its trade while no call failed and the bot did not die; and
\* the types of the module.
THEOREM NoStopLeftBehind == Spec => []ClosedLeavesNothing
  <1>1. IInv => ClosedLeavesNothing
    <2> SUFFICES ASSUME IInv PROVE ClosedLeavesNothing  OBVIOUS
    <2>1. TypeOK
      BY DEF IInv, BooksInv, DataTypes, ControlTypes, TypeOK
    <2>2. ASSUME Rest, ~isOpen, Troubles = 0, NEW o \in Ids PROVE ~(Live(o) /\ kind[o] = "stop")
      <3>1. clr = {}  BY <2>2 DEF Rest, IInv, Control
      <3> QED  BY <2>2, <3>1 DEF IInv, Leftovers
    <2> QED  BY <2>1, <2>2 DEF ClosedLeavesNothing
  <1>2. IInv /\ [Next]_vars => IInv'  BY StepBooks
  <1> QED  BY InitBooks, <1>1, <1>2, PTL DEF Spec

=============================================================================
