---------------------------- MODULE EntryProofs ----------------------------
(***************************************************************************)
(* Proofs about the two sides of an entry: LiveSignals, which says when    *)
(* one is made, and StakeAllocation, which says for how much.              *)
(*                                                                         *)
(* LiveSignals, for every horizon, every number of candles, trades and     *)
(* crashes, all cooldowns and lookbacks, with and without a feed.  An exit *)
(* that locked its side, or was found by the cooldown, keeps every later   *)
(* entry from the candles that had closed before.  Both rest on LockInv:   *)
(* whatever the histories say of an exit, there is a lock that lasts as    *)
(* long.  Four steps touch it, CloseTrade, AutoLock and Protect or         *)
(* ProtectDies; all others are Calm.  The cache never holds a made-up      *)
(* candle in the place of a real one, and entries use closed candles.      *)
(* Both rest on CacheInv: the cache has no hole and reaches as far as its  *)
(* last refresh says, and a download under way brings what is missing.  A  *)
(* reply is the last Limit candles; NoGap shows that it reaches back into  *)
(* what is held.                                                           *)
(*                                                                         *)
(* StakeAllocation, for any number of pairs, all amounts, ratios, limits   *)
(* and callbacks: an entry that was computed is covered by what is free,   *)
(* and does not take the bot beyond what it may use.  Between Propose and  *)
(* Create only the exchange moves.  The balance that was read is at most   *)
(* what is free, unless money left unseen (BalanceSeen); the stake was     *)
(* computed from that balance and from the stakes of the open trades, and  *)
(* none of these changes meanwhile (WithinMeans).  A trade's stake covers  *)
(* what it holds and what its entry may still buy, but for an adjustment   *)
(* that is not booked (Covered).                                           *)
(***************************************************************************)
EXTENDS LiveSignals, StakeAllocation, SumLemmas

ExitRecords == [handled : Int, sold : Int, locked : BOOLEAN, cooled : BOOLEAN]

\* The locks that are there for the exits that are remembered.
Locks ==
    \A s \in Sides :
        /\ last_exit[s].locked => lock_end[s] >= last_exit[s].handled + 1
        /\ last_exit[s].cooled => lock_end[Both] >= last_exit[s].sold + Cooldown + 1

\* Between the exit and its cooldown the job is about that exit.
ExitInHand ==
    pc \in {"lock", "protect"} =>
        job.kind \in Sides /\ job.at \in Int /\ job.at = last_exit[job.kind].sold

LockInv ==
    /\ now \in Int
    /\ Held \subseteq Int
    /\ analyzed.upto \in Int /\ analyzed.signal \in Sides \union {NoSide}
    /\ lock_end \in [Sides \union {Both} -> Int]
    /\ last_exit \in [Sides -> ExitRecords]
    /\ position \in Sides \union {NoSide} /\ sold \in Int
    /\ sold # None => position \in Sides
    /\ Locks
    /\ ExitInHand

\* A step that leaves the locks and the exits alone.
Calm ==
    /\ now' \in Int /\ Held' \subseteq Int
    /\ analyzed'.upto \in Int /\ analyzed'.signal \in Sides \union {NoSide}
    /\ lock_end' = lock_end /\ last_exit' = last_exit
    /\ position' \in Sides \union {NoSide} /\ sold' \in Int
    /\ sold' # None => position' \in Sides
    /\ pc' \in {"lock", "protect"} => pc' = pc /\ job' = job

-----------------------------------------------------------------------------
(* Helpers                                                                  *)

\* The larger of two integers is one of them, and no smaller than either.
LEMMA MaxOfTwo ==
  ASSUME NEW a \in Int, NEW b \in Int
  PROVE  /\ Max({a, b}) \in {a, b}
         /\ Max({a, b}) >= a
         /\ Max({a, b}) >= b
<1>1. \E x \in {a, b} : \A y \in {a, b} : x >= y
  <2>1. CASE a >= b  BY <2>1
  <2>2. CASE ~(a >= b)  BY <2>2
  <2> QED  BY <2>1, <2>2
<1>2. Max({a, b}) \in {a, b} /\ \A y \in {a, b} : Max({a, b}) >= y
  BY <1>1 DEF Max
<1> QED  BY <1>2

\* A lock only ever makes the end of its side later, and lasts at least until
\* the candle after its date.
LEMMA LockingGrows ==
  ASSUME LockInv, NEW side \in Sides \union {Both}, NEW until \in Int,
         lock_end' = Locking(side, until)
  PROVE  /\ lock_end' \in [Sides \union {Both} -> Int]
         /\ \A s \in Sides \union {Both} : lock_end'[s] >= lock_end[s]
         /\ lock_end'[side] >= until + 1
<1>1. lock_end[side] \in Int /\ until + 1 \in Int  BY DEF LockInv
<1> DEFINE m == Max({lock_end[side], until + 1})
<1>2. m \in {lock_end[side], until + 1} /\ m >= lock_end[side] /\ m >= until + 1
  BY <1>1, MaxOfTwo
<1>3. lock_end' = [lock_end EXCEPT ![side] = m]  BY DEF Locking
<1> HIDE DEF m
<1> QED  BY <1>1, <1>2, <1>3 DEF LockInv

\* What is kept of a reply and filled up is cached under candle numbers.
LEMMA CachedCandles ==
  ASSUME Held \subseteq Int, NEW ticks, DOMAIN ticks \subseteq Int, NEW drop,
         ProcessOhlcv(ticks, drop)
  PROVE  Held' \subseteq Int
<1> DEFINE new == [t \in Kept(DOMAIN ticks, drop) |-> ticks[t]]
<1> DEFINE all == Concat(new, klines)
<1>1. DOMAIN all \subseteq Int
  <2>1. DOMAIN all = DOMAIN new \union Held  BY DEF Concat, Held
  <2>2. DOMAIN new \subseteq DOMAIN ticks  BY DEF Kept
  <2> QED  BY <2>1, <2>2
<1>2. klines' = TailOf(FillMissing(all))  BY DEF ProcessOhlcv
<1> HIDE DEF all
<1>3. DOMAIN FillMissing(all) \subseteq Int
  <2>1. CASE DOMAIN all = {}  BY <2>1 DEF FillMissing
  <2>2. CASE DOMAIN all # {}
    <3>1. DOMAIN FillMissing(all) = Min(DOMAIN all)..Max(DOMAIN all)  BY <2>2 DEF FillMissing
    <3> QED  BY <3>1
  <2> QED  BY <2>1, <2>2
<1>4. DOMAIN TailOf(FillMissing(all)) \subseteq DOMAIN FillMissing(all)
  BY DEF TailOf, Largest
<1> QED  BY <1>2, <1>3, <1>4 DEF Held

-----------------------------------------------------------------------------
(* The steps                                                                *)

LEMMA CalmStep == LockInv /\ Calm => LockInv'
<1> SUFFICES ASSUME LockInv, Calm PROVE LockInv'  OBVIOUS
<1>1. Locks'
  BY DEF LockInv, Calm, Locks
<1>2. ExitInHand'
  BY DEF LockInv, Calm, ExitInHand
<1> QED  BY <1>1, <1>2 DEF LockInv, Calm

\* The first state.
LEMMA InitLocks == Init => LockInv
<1> SUFFICES ASSUME Init PROVE LockInv  OBVIOUS
<1>1. now \in Int  BY TimesAssumption DEF Init
<1>2. Held \subseteq Int  BY DEF Init, Held, Empty
<1>3. /\ analyzed.upto \in Int /\ analyzed.signal \in Sides \union {NoSide}
      /\ sold \in Int /\ sold = None
  BY DEF Init, Blank, None
<1>4. lock_end \in [Sides \union {Both} -> Int]  BY DEF Init
<1>5. last_exit \in [Sides -> ExitRecords]
  BY DEF Init, NoExit, None, ExitRecords
<1>6. Locks  BY DEF Init, Locks, NoExit
<1>7. ExitInHand  BY DEF Init, ExitInHand
<1>8. position \in Sides \union {NoSide}  BY DEF Init
<1> QED  BY <1>1, <1>2, <1>3, <1>4, <1>5, <1>6, <1>7, <1>8 DEF LockInv

\* The exit is committed; nothing is promised of it yet.
LEMMA CloseTradeStep == LockInv /\ CloseTrade => LockInv'
<1> SUFFICES ASSUME LockInv, CloseTrade, sold # None PROVE LockInv'
  BY DEF CloseTrade
<1> DEFINE closed == [handled |-> now, sold |-> sold, locked |-> FALSE, cooled |-> FALSE]
<1>1. last_exit' = [last_exit EXCEPT ![position] = closed]  BY DEF CloseTrade
<1>2. closed \in ExitRecords  BY DEF LockInv, ExitRecords
<1>3. last_exit' \in [Sides -> ExitRecords]  BY <1>1, <1>2 DEF LockInv
<1>4. lock_end' = lock_end  BY DEF CloseTrade
<1>5. Locks'
  <2>1. \A s \in Sides : last_exit'[s] = IF s = position THEN closed ELSE last_exit[s]
    BY <1>1 DEF LockInv
  <2> QED  BY <2>1, <1>4 DEF LockInv, Locks
<1>6. ExitInHand'
  <2>1. position \in Sides
    BY DEF LockInv, CloseTrade
  <2> QED  BY <2>1, <1>1 DEF LockInv, CloseTrade, ExitInHand
<1>7. now' = now /\ Held' = Held /\ analyzed' = analyzed /\ position' = NoSide /\ sold' = None
  BY DEF CloseTrade, clock, cache, memory, Held
<1> QED  BY <1>3, <1>4, <1>5, <1>6, <1>7 DEF LockInv, None

\* The auto lock lasts beyond the candle in which it is made.
LEMMA AutoLockStep == LockInv /\ AutoLock => LockInv'
<1> SUFFICES ASSUME LockInv, AutoLock PROVE LockInv'  OBVIOUS
<1> DEFINE side == job.kind
<1> DEFINE locked == [last_exit[side] EXCEPT !.handled = now, !.locked = TRUE]
<1>1. side \in Sides /\ job.at \in Int /\ job.at = last_exit[side].sold
  BY DEF AutoLock, LockInv, ExitInHand
<1>2. /\ lock_end' \in [Sides \union {Both} -> Int]
      /\ \A s \in Sides \union {Both} : lock_end'[s] >= lock_end[s]
      /\ lock_end'[side] >= now + 1
  BY <1>1, LockingGrows DEF AutoLock, LockInv
<1>3. last_exit' = [last_exit EXCEPT ![side] = locked]  BY DEF AutoLock
<1>4. /\ locked \in ExitRecords
      /\ locked.handled = now /\ locked.locked
      /\ locked.sold = last_exit[side].sold /\ locked.cooled = last_exit[side].cooled
  BY <1>1 DEF LockInv, ExitRecords
<1> HIDE DEF locked, side
<1>5. last_exit' \in [Sides -> ExitRecords]  BY <1>3, <1>4 DEF LockInv
<1>6. \A s \in Sides : last_exit'[s] = IF s = side THEN locked ELSE last_exit[s]
  BY <1>3 DEF LockInv
<1>7. Locks'
  <2> SUFFICES ASSUME NEW s \in Sides
               PROVE  /\ last_exit'[s].locked => lock_end'[s] >= last_exit'[s].handled + 1
                      /\ last_exit'[s].cooled
                           => lock_end'[Both] >= last_exit'[s].sold + Cooldown + 1
    BY DEF Locks
  <2>1. /\ lock_end[s] \in Int /\ lock_end'[s] \in Int
        /\ lock_end[Both] \in Int /\ lock_end'[Both] \in Int
        /\ last_exit[s] \in ExitRecords /\ Cooldown \in Int /\ now \in Int
    BY <1>2, TimesAssumption DEF LockInv
  <2>2. last_exit[s].handled \in Int /\ last_exit[s].sold \in Int  BY <2>1 DEF ExitRecords
  <2>3. last_exit'[s].locked => lock_end'[s] >= last_exit'[s].handled + 1
    BY <1>2, <1>4, <1>6, <2>1, <2>2 DEF LockInv, Locks
  <2>4. last_exit'[s].sold = last_exit[s].sold /\ last_exit'[s].cooled = last_exit[s].cooled
    BY <1>4, <1>6
  <2>5. lock_end'[Both] >= lock_end[Both]
    BY <1>2
  <2>6. last_exit[s].cooled => lock_end[Both] >= last_exit[s].sold + Cooldown + 1
    BY DEF LockInv, Locks
  <2>7. last_exit[s].cooled => lock_end'[Both] >= last_exit[s].sold + Cooldown + 1
    BY <2>1, <2>2, <2>5, <2>6
  <2>8. last_exit'[s].cooled => lock_end'[Both] >= last_exit'[s].sold + Cooldown + 1
    BY <2>4, <2>7, Zenon
  <2> QED  BY <2>3, <2>8
<1>8. ExitInHand'
  BY <1>1, <1>4, <1>6 DEF AutoLock, ExitInHand, side
<1>9. /\ now' = now /\ Held' = Held /\ analyzed' = analyzed
      /\ position' = position /\ sold' = sold
  BY DEF AutoLock, clock, cache, memory, Held
<1> QED  BY <1>2, <1>5, <1>7, <1>8, <1>9 DEF LockInv

\* The cooldown leaves a lock for both sides, the one it makes or the longer
\* one it finds, also when the process ends with it.
LEMMA ProtectStep == LockInv /\ (Protect \/ ProtectDies) => LockInv'
<1> SUFFICES ASSUME LockInv, Protect \/ ProtectDies PROVE LockInv'  OBVIOUS
<1> DEFINE side == job.kind
<1>1. side \in Sides /\ job.at \in Int /\ job.at = last_exit[side].sold
  BY DEF Protect, ProtectDies, LockInv, ExitInHand
<1>2. Cooldown \in Int /\ Lookback \in Int /\ now \in Int /\ Both \in Sides \union {Both}
  BY TimesAssumption DEF LockInv
<1>3. PICK found \in BOOLEAN :
        /\ last_exit' = Noted(found)
        /\ lock_end' \in [Sides \union {Both} -> Int]
        /\ \A s \in Sides \union {Both} : lock_end'[s] >= lock_end[s]
        /\ found => lock_end'[Both] >= job.at + Cooldown + 1
  <2>1. CASE Protect
    <3>1. /\ last_exit' = Noted(now - job.at < Lookback)
          /\ lock_end' = lock_end
          /\ now - job.at < Lookback => lock_end[Both] > job.at + Cooldown
      BY <2>1 DEF Protect, LockedLonger, CooldownEnd
    <3>2. /\ lock_end' \in [Sides \union {Both} -> Int]
          /\ \A s \in Sides \union {Both} : lock_end'[s] >= lock_end[s]
          /\ now - job.at < Lookback => lock_end'[Both] >= job.at + Cooldown + 1
      BY <1>1, <1>2, <3>1 DEF LockInv
    <3>3. (now - job.at < Lookback) \in BOOLEAN
      OBVIOUS
    <3> DEFINE due == now - job.at < Lookback
    <3> HIDE DEF due
    <3>4. /\ due \in BOOLEAN /\ last_exit' = Noted(due)
          /\ due => lock_end'[Both] >= job.at + Cooldown + 1
      BY <3>1, <3>2, <3>3 DEF due
    <3> QED  BY <3>2, <3>4
  <2>2. CASE ProtectDies
    <3>1. last_exit' = Noted(TRUE) /\ lock_end' = Locking(Both, CooldownEnd)
      BY <2>2 DEF ProtectDies
    <3>2. /\ lock_end' \in [Sides \union {Both} -> Int]
          /\ \A s \in Sides \union {Both} : lock_end'[s] >= lock_end[s]
          /\ lock_end'[Both] >= job.at + Cooldown + 1
      BY <1>1, <1>2, <3>1, LockingGrows DEF CooldownEnd
    <3> QED  BY <3>1, <3>2
  <2> QED  BY <2>1, <2>2
<1> DEFINE cooled == [last_exit[side] EXCEPT !.cooled = found]
<1>4. last_exit' = [last_exit EXCEPT ![side] = cooled]  BY <1>3 DEF Noted
<1>5. /\ cooled \in ExitRecords
      /\ cooled.handled = last_exit[side].handled /\ cooled.locked = last_exit[side].locked
      /\ cooled.sold = job.at /\ cooled.cooled = found
  BY <1>1, <1>3 DEF LockInv, ExitRecords
<1> HIDE DEF cooled, side
<1>6. last_exit' \in [Sides -> ExitRecords]  BY <1>4, <1>5 DEF LockInv
<1>7. \A s \in Sides : last_exit'[s] = IF s = side THEN cooled ELSE last_exit[s]
  BY <1>4 DEF LockInv
<1>8. Locks'
  <2> SUFFICES ASSUME NEW s \in Sides
               PROVE  /\ last_exit'[s].locked => lock_end'[s] >= last_exit'[s].handled + 1
                      /\ last_exit'[s].cooled
                           => lock_end'[Both] >= last_exit'[s].sold + Cooldown + 1
    BY DEF Locks
  <2>1. /\ lock_end[s] \in Int /\ lock_end'[s] \in Int
        /\ lock_end[Both] \in Int /\ lock_end'[Both] \in Int
        /\ last_exit[s] \in ExitRecords
    BY <1>3 DEF LockInv
  <2>2. last_exit[s].handled \in Int /\ last_exit[s].sold \in Int  BY <2>1 DEF ExitRecords
  <2>3. last_exit'[s].handled = last_exit[s].handled /\ last_exit'[s].locked = last_exit[s].locked
    BY <1>5, <1>7
  <2>4. last_exit'[s].locked => lock_end'[s] >= last_exit'[s].handled + 1
    <3>1. lock_end'[s] >= lock_end[s]
      BY <1>3
    <3>2. last_exit[s].locked => lock_end[s] >= last_exit[s].handled + 1
      BY DEF LockInv, Locks
    <3>3. last_exit[s].locked => lock_end'[s] >= last_exit[s].handled + 1
      BY <2>1, <2>2, <3>1, <3>2
    <3> QED  BY <2>3, <3>3, Zenon
  <2>5. CASE s = side
    <3>1. last_exit'[s].cooled = found /\ last_exit'[s].sold = job.at
      BY <1>5, <1>7, <2>5
    <3>2. last_exit'[s].cooled => lock_end'[Both] >= last_exit'[s].sold + Cooldown + 1
      BY <1>3, <3>1, Zenon
    <3> QED  BY <2>4, <3>2
  <2>6. CASE s # side
    <3>1. lock_end'[Both] >= lock_end[Both]
      BY <1>2, <1>3
    <3>2. last_exit[s].cooled => lock_end[Both] >= last_exit[s].sold + Cooldown + 1
      BY DEF LockInv, Locks
    <3>3. last_exit[s].cooled => lock_end'[Both] >= last_exit[s].sold + Cooldown + 1
      BY <1>2, <2>1, <2>2, <3>1, <3>2
    <3>4. last_exit'[s] = last_exit[s]
      BY <1>7, <2>6
    <3> QED  BY <2>4, <3>3, <3>4
  <2> QED  BY <2>5, <2>6
<1>9. ExitInHand'
  BY DEF Protect, ProtectDies, Restarted, ExitInHand
<1>10. /\ now' = now /\ Held' \subseteq Int
       /\ analyzed'.upto \in Int /\ analyzed'.signal \in Sides \union {NoSide}
       /\ position' = position /\ sold' = sold
  <2>1. CASE Protect
    BY <2>1 DEF Protect, clock, cache, memory, Held, LockInv
  <2>2. CASE ProtectDies
    BY <2>2 DEF ProtectDies, Restarted, clock, Held, Empty, Blank, None
  <2> QED  BY <2>1, <2>2
<1> QED  BY <1>3, <1>6, <1>8, <1>9, <1>10 DEF LockInv

-----------------------------------------------------------------------------
(* All other steps are calm.                                                *)

LEMMA ExchangeCalm ==
  LockInv /\ (Tick \/ FeedMessage \/ FeedStops \/ Sell) => Calm
<1> SUFFICES ASSUME LockInv, Tick \/ FeedMessage \/ FeedStops \/ Sell PROVE Calm
  OBVIOUS
<1>1. CASE Tick
  BY <1>1 DEF Tick, LockInv, Calm, cache, memory, account, Held
<1>2. CASE FeedMessage
  BY <1>2 DEF FeedMessage, LockInv, Calm, clock, cache, memory, account, Held
<1>3. CASE FeedStops
  BY <1>3 DEF FeedStops, LockInv, Calm, clock, cache, memory, account, Held
<1>4. CASE Sell
  BY <1>4 DEF Sell, LockInv, Calm, clock, cache, memory, Held
<1> QED  BY <1>1, <1>2, <1>3, <1>4

LEMMA CacheCalm ==
  LockInv /\ (Refresh \/ FetchRest \/ FetchFeed \/ FetchFails) => Calm
<1> SUFFICES ASSUME LockInv, Refresh \/ FetchRest \/ FetchFeed \/ FetchFails PROVE Calm
  OBVIOUS
<1>1. Held \subseteq Int /\ now \in Int  BY DEF LockInv
<1>2. CASE Refresh
  <2>1. CASE BuildCoroutine
    <3>1. Held' \subseteq Int
      BY <1>1, <2>1 DEF BuildCoroutine, Held, Empty
    <3> QED  BY <2>1, <3>1 DEF BuildCoroutine, LockInv, Calm, clock, memory, account
  <2>2. CASE ~BuildCoroutine
    BY <1>2, <2>2 DEF Refresh, LockInv, Calm, clock, cache, memory, account, Held
  <2> QED  BY <2>1, <2>2
<1>3. CASE FetchRest
  <2>1. PICK top \in {now - 1, now} :
          ProcessOhlcv([t \in IF job.kind = "history" THEN FromStart(top) ELSE Latest(top)
                          |-> IF t = now THEN "partial" ELSE "final"], TRUE)
    BY <1>3 DEF FetchRest
  <2>2. FromStart(top) \subseteq Int /\ Latest(top) \subseteq Int
    BY DEF FromStart, Latest, Largest, Traded
  <2>3. Held' \subseteq Int
    BY <1>1, <2>1, <2>2, CachedCandles
  <2> QED  BY <1>3, <2>3 DEF FetchRest, LockInv, Calm, clock, memory, account
<1>4. CASE FetchFeed
  <2>1. PICK delivered \in {"final", "partial"} :
          ProcessOhlcv([t \in Traded(feed.lo, feed.hi)
                          |-> IF t = feed.hi THEN delivered ELSE "final"], feed.hi >= job.at)
    BY <1>4 DEF FetchFeed
  <2>2. Traded(feed.lo, feed.hi) \subseteq Int
    BY DEF Traded
  <2>3. Held' \subseteq Int
    BY <1>1, <2>1, <2>2, CachedCandles
  <2> QED  BY <1>4, <2>3 DEF FetchFeed, LockInv, Calm, clock, memory, account
<1>5. CASE FetchFails
  BY <1>5 DEF FetchFails, LockInv, Calm, clock, cache, memory, account, Held
<1> QED  BY <1>2, <1>3, <1>4, <1>5

LEMMA BotCalm ==
  LockInv /\ (Analyze \/ AnalyzeFails \/ NoExits \/ Enter \/ NoEntry \/ Crash) => Calm
<1> SUFFICES ASSUME LockInv, Analyze \/ AnalyzeFails \/ NoExits \/ Enter \/ NoEntry \/ Crash
             PROVE  Calm
  OBVIOUS
<1>1. CASE Analyze
  <2>1. analyzed'.upto \in Int /\ analyzed'.signal \in Sides \union {NoSide}
    BY <1>1 DEF Analyze, LockInv, memory
  <2> QED  BY <1>1, <2>1 DEF Analyze, LockInv, Calm, clock, cache, account, Held
<1>2. CASE AnalyzeFails
  BY <1>2 DEF AnalyzeFails, LockInv, Calm, clock, cache, memory, account, Held
<1>3. CASE NoExits
  BY <1>3 DEF NoExits, LockInv, Calm, clock, cache, memory, account, Held
<1>4. CASE Enter
  <2>1. position' \in Sides
    BY <1>4 DEF Enter, LockInv
  <2> QED  BY <1>4, <2>1 DEF Enter, LockInv, Calm, clock, cache, memory, Held
<1>5. CASE NoEntry
  BY <1>5 DEF NoEntry, LockInv, Calm, clock, cache, memory, account, Held
<1>6. CASE Crash
  BY <1>6 DEF Crash, Restarted, LockInv, Calm, Blank, None, Empty, clock, account, Held
<1> QED  BY <1>1, <1>2, <1>3, <1>4, <1>5, <1>6

LEMMA LocksKept == LockInv /\ [Next]_vars => LockInv'
<1> SUFFICES ASSUME LockInv, [Next]_vars PROVE LockInv'  OBVIOUS
<1>1. CASE CloseTrade  BY <1>1, CloseTradeStep
<1>2. CASE AutoLock  BY <1>2, AutoLockStep
<1>3. CASE Protect \/ ProtectDies  BY <1>3, ProtectStep
<1>4. CASE UNCHANGED vars
  <2>1. Calm
    BY <1>4 DEF vars, clock, cache, memory, account, LockInv, Calm, Held
  <2> QED  BY <2>1, CalmStep
<1>5. CASE Tick \/ FeedMessage \/ FeedStops \/ Sell  BY <1>5, ExchangeCalm, CalmStep
<1>6. CASE Refresh \/ FetchRest \/ FetchFeed \/ FetchFails  BY <1>6, CacheCalm, CalmStep
<1>7. CASE Analyze \/ AnalyzeFails \/ NoExits \/ Enter \/ NoEntry \/ Crash
  BY <1>7, BotCalm, CalmStep
<1> QED  BY <1>1, <1>2, <1>3, <1>4, <1>5, <1>6, <1>7 DEF Next

-----------------------------------------------------------------------------
(* Entries                                                                  *)

\* Only Enter enters, and where no lock outlasts the candle of the signal.
LEMMA EntryIsUnlocked ==
  ASSUME LockInv, [Next]_vars, Entering
  PROVE  /\ position' \in Sides
         /\ lock_end[position'] <= analyzed.upto + 1
         /\ lock_end[Both] <= analyzed.upto + 1
<1>1. Enter
  <2>1. ~CloseTrade  BY DEF CloseTrade, Entering
  <2>2. ~Tick /\ ~FeedMessage /\ ~FeedStops /\ ~Sell
    BY DEF Tick, FeedMessage, FeedStops, Sell, account, Entering
  <2>3. ~Refresh /\ ~FetchRest /\ ~FetchFeed /\ ~FetchFails
    BY DEF Refresh, BuildCoroutine, FetchRest, FetchFeed, FetchFails, account, Entering
  <2>4. ~Analyze /\ ~AnalyzeFails /\ ~NoExits /\ ~NoEntry /\ ~Crash
    BY DEF Analyze, AnalyzeFails, NoExits, NoEntry, Crash, account, Entering
  <2>5. ~AutoLock /\ ~Protect /\ ~ProtectDies
    BY DEF AutoLock, Protect, ProtectDies, Entering
  <2>6. ~UNCHANGED vars
    BY DEF vars, account, Entering
  <2> QED  BY <2>1, <2>2, <2>3, <2>4, <2>5, <2>6 DEF Next
<1>2. position' = analyzed.signal /\ ~Locked(analyzed.signal) /\ position' \in Sides
  BY <1>1 DEF Enter, LockInv
<1>3. lock_end[position'] \in Int /\ lock_end[Both] \in Int /\ analyzed.upto \in Int
  BY <1>2 DEF LockInv
<1> DEFINE last == Max({lock_end[position'], lock_end[Both]})
<1>4. last \in {lock_end[position'], lock_end[Both]}
      /\ last >= lock_end[position'] /\ last >= lock_end[Both]
  BY <1>3, MaxOfTwo
<1>5. ~(last > analyzed.upto + 1)
  BY <1>2 DEF Locked
<1> HIDE DEF last
<1> QED  BY <1>2, <1>3, <1>4, <1>5

LEMMA NoReentryStep ==
  LockInv /\ [Next]_vars
    => (Entering /\ last_exit[position'].locked
          => analyzed.upto >= last_exit[position'].handled)
<1> SUFFICES ASSUME LockInv, [Next]_vars, Entering, last_exit[position'].locked
             PROVE  analyzed.upto >= last_exit[position'].handled
  OBVIOUS
<1>1. position' \in Sides /\ lock_end[position'] <= analyzed.upto + 1
  BY EntryIsUnlocked
<1>2. lock_end[position'] >= last_exit[position'].handled + 1
  BY <1>1 DEF LockInv, Locks
<1>3. lock_end[position'] \in Int /\ analyzed.upto \in Int /\ last_exit[position'].handled \in Int
  BY <1>1 DEF LockInv, ExitRecords
<1> QED  BY <1>1, <1>2, <1>3

LEMMA CooldownStep ==
  LockInv /\ [Next]_vars
    => (Entering => \A s \in Sides : last_exit[s].cooled
          => analyzed.upto >= last_exit[s].sold + Cooldown)
<1> SUFFICES ASSUME LockInv, [Next]_vars, Entering, NEW s \in Sides, last_exit[s].cooled
             PROVE  analyzed.upto >= last_exit[s].sold + Cooldown
  OBVIOUS
<1>1. lock_end[Both] <= analyzed.upto + 1
  BY EntryIsUnlocked
<1>2. lock_end[Both] >= last_exit[s].sold + Cooldown + 1
  BY DEF LockInv, Locks
<1>3. lock_end[Both] \in Int /\ analyzed.upto \in Int
      /\ last_exit[s].sold \in Int /\ Cooldown \in Int
  BY TimesAssumption DEF LockInv, ExitRecords
<1> QED  BY <1>1, <1>2, <1>3

-----------------------------------------------------------------------------
(* The candles that are cached                                              *)

\* The feed starts and ends with candles it has delivered.
Feeding == feed # NoFeed => feed.lo \notin untraded /\ feed.hi \notin untraded

\* The cache has no hole and only closed candles, and reaches as far as the
\* time of its last refresh says.
Solid ==
    /\ \A t, u \in Held : \A v \in t..u : v \in Held
    /\ \A t \in Held : t < now
    /\ Held # {} => \E t \in Held : last_refresh <= t

\* While a reply is on its way the cache waits for it: empty, or late by no
\* more than one call brings.
Downloading ==
    pc = "fetch" =>
        /\ job.kind \in {"feed", "one_call", "history"}
        /\ job.at \in Start..now /\ now <= job.at + Patience
        /\ job.kind = "history" => Held = {}
        /\ job.kind = "one_call" => Held = {} \/ job.at - (Limit - Slack) < last_refresh
        /\ job.kind = "feed" =>
             /\ enable_ws
             /\ feed = NoFeed => ~watching
             /\ feed # NoFeed /\ feed.hi >= job.at
                  => \E t \in Traded(feed.lo, feed.hi) : t # feed.hi

\* What a candle has without a feed.
Genuine(t) == klines[t] = IF t \in untraded THEN "filled" ELSE "final"

\* Candle t was traded, and so was a later one: the one dropped after it.
Followed(t) == t \notin untraded /\ \E e \in (t + 1)..now : e \notin untraded

FromReplies ==
    /\ \A t \in Held : Genuine(t)
    /\ \A t \in Held : Newest(t) => Followed(t)
    /\ analyzed.content = "final"

CacheInv ==
    /\ TypeOK
    /\ Feeding
    /\ Solid
    /\ Downloading
    /\ ~enable_ws => FromReplies
    /\ pc # "refresh" => trades < MaxTrades
    /\ analyzed.upto < now

-----------------------------------------------------------------------------
(* Candles and their order                                                  *)

\* A set of candles between two others is finite.
LEMMA FewLater ==
  ASSUME NEW hi \in Int, NEW S, \A x \in S : x \in Int /\ x <= hi,
         NEW t \in Int, t <= hi, NEW L, L = {u \in S : u > t}
  PROVE  IsFiniteSet(L) /\ Cardinality(L) \in Nat /\ Cardinality(L) <= hi - t
<1>1. L \subseteq (t + 1)..hi  OBVIOUS
<1>2. t + 1 \in Int /\ t + 1 <= hi + 1  OBVIOUS
<1>3. /\ IsFiniteSet(L) /\ Cardinality(L) \in Nat
      /\ Cardinality(L) <= hi - (t + 1) + 1
  BY <1>1, <1>2, FewBetween
<1> QED  BY <1>3

\* The largest n are closed upwards.
LEMMA LargestAreLast ==
  ASSUME NEW n \in Nat, NEW hi \in Int, NEW S, \A x \in S : x \in Int /\ x <= hi,
         NEW t \in Largest(n, S), NEW u \in S, u > t
  PROVE  u \in Largest(n, S)
<1>1. PICK L : L = {v \in S : v > t}  OBVIOUS
<1>2. PICK M : M = {v \in S : v > u}  OBVIOUS
<1>3. t \in S /\ t \in Int /\ u \in Int /\ t <= hi /\ u <= hi  BY DEF Largest
<1>4. Cardinality(L) < n  BY <1>1 DEF Largest
<1>5. IsFiniteSet(L) /\ Cardinality(L) \in Nat  BY <1>1, <1>3, FewLater
<1>6. M \subseteq L
  <2> SUFFICES ASSUME NEW v \in M PROVE v \in L  OBVIOUS
  <2>1. v \in S /\ v > u  BY <1>2
  <2>2. v \in Int /\ v > t  BY <1>3, <2>1
  <2> QED  BY <1>1, <2>1, <2>2
<1>7. Cardinality(M) <= Cardinality(L)  BY <1>5, <1>6, FS_Subset
<1>8. Cardinality(M) \in Nat  BY <1>2, <1>3, FewLater
<1>9. Cardinality(M) < n  BY <1>4, <1>5, <1>7, <1>8
<1> QED  BY <1>2, <1>9 DEF Largest

\* One that is not among the largest n has n others above it.
LEMMA OthersAreEarlier ==
  ASSUME NEW n \in Nat, NEW hi \in Int, NEW S, \A x \in S : x \in Int /\ x <= hi,
         NEW t \in S, t \notin Largest(n, S)
  PROVE  t + n <= hi
<1>1. PICK L : L = {v \in S : v > t}  OBVIOUS
<1>2. Cardinality(L) \in Nat /\ Cardinality(L) <= hi - t  BY <1>1, FewLater
<1>3. ~ (Cardinality(L) < n)  BY <1>1 DEF Largest
<1> QED  BY <1>2, <1>3

\* The largest of all is among them.
LEMMA MaxIsLast ==
  ASSUME NEW n \in Nat, n >= 1, NEW hi \in Int, NEW S, \A x \in S : x \in Int /\ x <= hi,
         S # {}
  PROVE  Max(S) \in Largest(n, S)
<1>1. PICK m : m = Max(S)  OBVIOUS
<1>2. m \in S /\ \A x \in S : x <= m  BY <1>1, MaxExists
<1>3. {u \in S : u > m} = {}  BY <1>2
<1>4. Cardinality({u \in S : u > m}) < n  BY <1>3, FS_EmptySet
<1> QED  BY <1>1, <1>2, <1>4 DEF Largest

\* Of two or more candles the last two are among the largest two.
LEMMA LastTwo ==
  ASSUME NEW n \in Nat, n >= 2, NEW hi \in Int, NEW S, \A x \in S : x \in Int /\ x <= hi,
         NEW m \in S, \A x \in S : x <= m, NEW t \in S, t # m
  PROVE  \E s \in Largest(n, S) : s # m
<1>1. PICK D : D = S \ {m}  OBVIOUS
<1>2. (\A x \in D : x \in Int /\ x <= hi) /\ D # {}  BY <1>1
<1>3. PICK s : s = Max(D)  OBVIOUS
<1>4. s \in D /\ \A x \in D : x <= s  BY <1>2, <1>3, MaxExists
<1>5. {u \in S : u > s} \subseteq {m}  BY <1>1, <1>4
<1>6. IsFiniteSet({m}) /\ Cardinality({m}) = 1  BY FS_Singleton
<1>7. PICK L : L = {u \in S : u > s}  OBVIOUS
<1>8. Cardinality(L) <= 1  BY <1>5, <1>6, <1>7, FS_Subset
<1>9. s \in S /\ s \in Int /\ s <= hi  BY <1>1, <1>4
<1>10. Cardinality(L) \in Nat  BY <1>7, <1>9, FewLater
<1>11. Cardinality(L) < n  BY <1>8, <1>10
<1>12. s \in Largest(n, S)  BY <1>7, <1>9, <1>11 DEF Largest
<1> QED  BY <1>1, <1>4, <1>12

\* The last row that is kept is one of those that are kept, if any is.
LEMMA LastIsKept ==
  ASSUME NEW hi \in Int, NEW R, \A x \in R : x \in 0..hi, NEW drop \in BOOLEAN,
         NEW N, N = Kept(R, drop), N # {}
  PROVE  LastKept(R, drop) \in N
<1>1. (\A x \in R : x \in Int /\ x <= hi) /\ N \subseteq R /\ R # {}  BY DEF Kept
<1>2. Max(R) \in R  BY <1>1, MaxExists
<1>3. CASE ~drop
  BY <1>2, <1>3 DEF Kept, LastKept
<1>4. CASE drop
  <2>1. N = R \ {Max(R)}  BY <1>1, <1>4 DEF Kept
  <2>2. \A x \in N : x \in Int /\ x <= hi  BY <1>1
  <2>3. Max(N) \in N  BY <2>2, MaxExists
  <2>4. IsFiniteSet(R) /\ Cardinality(R) \in Nat
    <3>1. hi >= 0 /\ R \subseteq 0..hi  BY <1>1
    <3>2. 0 \in Int /\ 0 <= hi + 1  BY <3>1
    <3>3. /\ IsFiniteSet(R) /\ Cardinality(R) \in Nat
          /\ Cardinality(R) <= hi - 0 + 1
      BY <3>1, <3>2, FewBetween
    <3> QED  BY <3>3
  <2>5. Cardinality(R) # 0  BY <1>1, <2>4, FS_EmptySet
  <2>6. Cardinality(R) # 1
    <3>1. ~ \E x : R = {x}  BY <1>2, <2>1
    <3> QED  BY <2>4, <3>1, FS_Singleton
  <2>7. Cardinality(R) > 1  BY <2>4, <2>5, <2>6
  <2> QED  BY <1>4, <2>1, <2>3, <2>7 DEF LastKept
<1> QED  BY <1>3, <1>4

\* In any case it is a row that was received.
LEMMA LastIsReceived ==
  ASSUME NEW hi \in Int, NEW R, \A x \in R : x \in 0..hi, NEW drop \in BOOLEAN, R # {}
  PROVE  LastKept(R, drop) \in R
<1>1. \A x \in R : x \in Int /\ x <= hi  OBVIOUS
<1>2. Max(R) \in R  BY <1>1, MaxExists
<1>3. PICK N : N = Kept(R, drop)  OBVIOUS
<1>4. N \subseteq R  BY <1>3 DEF Kept
<1>5. CASE N # {}  BY <1>3, <1>4, <1>5, LastIsKept
<1>6. CASE N = {}
  <2>1. CASE ~ (drop /\ Cardinality(R) > 1)  BY <1>2, <2>1 DEF LastKept
  <2>2. CASE drop /\ Cardinality(R) > 1
    <3>1. R = {Max(R)}  BY <1>2, <1>3, <1>6, <2>2 DEF Kept
    <3>2. Cardinality(R) = 1  BY <3>1, FS_Singleton
    <3> QED  BY <2>2, <3>2
  <2> QED  BY <2>1, <2>2
<1> QED  BY <1>5, <1>6

-----------------------------------------------------------------------------
(* What a reply leaves in the cache                                         *)

\* The candles from the first to the last of those received or held.
Span(A) == IF A = {} THEN {} ELSE Min(A)..Max(A)

LEMMA CachedRows ==
  ASSUME NEW ticks, NEW R, R = DOMAIN ticks, NEW drop, NEW N, N = Kept(R, drop),
         NEW A, A = N \union Held, ProcessOhlcv(ticks, drop)
  PROVE  /\ Held' = IF Held = {} THEN Span(A) ELSE Largest(Limit + Startup, Span(A))
         /\ \A t \in Held' : klines'[t] = IF t \in N THEN ticks[t]
                                          ELSE IF t \in Held THEN klines[t] ELSE "filled"
<1> DEFINE new == [t \in N |-> ticks[t]]
<1>1. PICK all : all = Concat(new, klines)  OBVIOUS
<1>2. /\ DOMAIN all = A
      /\ \A t \in A : all[t] = IF t \in N THEN ticks[t] ELSE klines[t]
  BY <1>1 DEF Concat, Held
<1>3. PICK df : df = FillMissing(all)  OBVIOUS
<1>4. klines' = TailOf(df)  BY <1>1, <1>3 DEF ProcessOhlcv
<1>5. /\ DOMAIN df = Span(A)
      /\ \A t \in DOMAIN df : df[t] = IF t \in A THEN all[t] ELSE "filled"
  <2>1. CASE A = {}
    <3>1. df = all  BY <1>2, <1>3, <2>1 DEF FillMissing
    <3> QED  BY <1>2, <2>1, <3>1 DEF Span
  <2>2. CASE A # {}
    <3>1. df = [t \in Span(A) |-> IF t \in A THEN all[t] ELSE "filled"]
      BY <1>2, <1>3, <2>2 DEF FillMissing, Span
    <3> QED  BY <3>1
  <2> QED  BY <2>1, <2>2
<1>6. /\ Held' = IF Held = {} THEN DOMAIN df ELSE Largest(Limit + Startup, DOMAIN df)
      /\ \A t \in Held' : klines'[t] = df[t]
  <2>1. CASE Held = {}
    <3>1. klines' = df  BY <1>4, <2>1 DEF TailOf
    <3> QED  BY <2>1, <3>1 DEF Held
  <2>2. CASE Held # {}
    <3>1. PICK S : S = Largest(Limit + Startup, DOMAIN df)  OBVIOUS
    <3>2. klines' = [t \in S |-> df[t]]  BY <1>4, <2>2, <3>1 DEF TailOf
    <3>3. Held' = S  BY <3>2 DEF Held
    <3> QED  BY <2>2, <3>1, <3>2, <3>3
  <2> QED  BY <2>1, <2>2
<1>7. \A t \in Held' : t \in DOMAIN df
  BY <1>6 DEF Largest
<1>8. \A t \in Held' : klines'[t] = IF t \in N THEN ticks[t]
                                    ELSE IF t \in Held THEN klines[t] ELSE "filled"
  BY <1>2, <1>5, <1>6, <1>7
<1> QED  BY <1>5, <1>6, <1>8

\* Of a span the cache keeps the end.
LEMMA CachedEnd ==
  ASSUME TimesAssumption, NEW hi \in Int, NEW A, \A x \in A : x \in 0..hi, NEW H,
         H = Span(A) \/ H = Largest(Limit + Startup, Span(A))
  PROVE  /\ H \subseteq Span(A) /\ H \subseteq 0..hi
         /\ A # {} => Max(A) \in H /\ (\A x \in A : x <= Max(A)) /\ Max(A) \in A
         /\ \A t \in H : \A u \in Span(A) : u > t => u \in H
         /\ H # {} => A # {}
<1>1. Limit + Startup \in Nat /\ Limit + Startup >= 1  BY DEF TimesAssumption
<1>2. CASE A = {}
  <2>1. Span(A) = {}  BY <1>2 DEF Span
  <2>2. H = {}  BY <2>1 DEF Largest
  <2> QED  BY <1>2, <2>1, <2>2
<1>3. CASE A # {}
  <2>1. PICK p, q : p = Max(A) /\ q = Min(A)  OBVIOUS
  <2>2. \A x \in A : x \in Int /\ x <= hi /\ 0 <= x  OBVIOUS
  <2>3. p \in A /\ \A x \in A : x <= p  BY <1>3, <2>1, <2>2, MaxExists
  <2>4. q \in A /\ \A x \in A : q <= x
    <3>1. 0 \in Int  OBVIOUS
    <3> QED  BY <1>3, <2>1, <2>2, <3>1, MinExists
  <2>5. PICK S : S = q..p  OBVIOUS
  <2>6. Span(A) = S  BY <1>3, <2>1, <2>5 DEF Span
  <2>7. p \in 0..hi /\ q \in 0..hi /\ q <= p  BY <2>3, <2>4
  <2>8. (\A x \in S : x \in Int /\ x <= p) /\ S \subseteq 0..hi /\ p \in S
    BY <2>5, <2>7
  <2>9. Max(S) = p  BY <2>8, MaxIs
  <2>10. p \in H
    <3>1. p \in Int /\ S # {}  BY <2>7, <2>8
    <3>2. p \in Largest(Limit + Startup, S)  BY <1>1, <2>8, <2>9, <3>1, MaxIsLast
    <3> QED  BY <2>6, <2>8, <3>2
  <2>11. H \subseteq S  BY <2>6 DEF Largest
  <2>12. ASSUME NEW t \in H, NEW u \in S, u > t PROVE u \in H
    <3>1. CASE H = S  BY <3>1
    <3>2. CASE H = Largest(Limit + Startup, S)
      <4>1. p \in Int  BY <2>7
      <4> QED  BY <1>1, <2>8, <2>12, <3>2, <4>1, LargestAreLast
    <3> QED  BY <2>6, <3>1, <3>2
  <2>13. Max(A) \in H /\ (\A x \in A : x <= Max(A)) /\ Max(A) \in A
    BY <2>1, <2>3, <2>10
  <2> QED  BY <1>3, <2>6, <2>8, <2>11, <2>12, <2>13
<1> QED  BY <1>2, <1>3

\* Whatever was received before the candle in progress, the cache has no hole
\* and reaches as far as the time of its last refresh says.
LEMMA FetchedIsSolid ==
  ASSUME CacheInv, now' = now, NEW ticks, NEW R, R = DOMAIN ticks, \A x \in R : x \in 0..now,
         NEW drop \in BOOLEAN, NEW N, N = Kept(R, drop), \A x \in N : x < now,
         ProcessOhlcv(ticks, drop),
         N = {} /\ R # {} => \A h \in Held : LastKept(R, drop) <= h
  PROVE  Solid' /\ Held' \subseteq 0..now' /\ last_refresh' \in -1..now'
<1> USE TimesAssumption
<1>1. now \in Int /\ Held \subseteq 0..now /\ last_refresh \in -1..now
  BY DEF CacheInv, TypeOK
<1>2. /\ \A t \in Held : t < now
      /\ Held # {} => \E t \in Held : last_refresh <= t
  BY DEF CacheInv, Solid
<1>3. PICK A : A = N \union Held  OBVIOUS
<1>4. N \subseteq R  BY DEF Kept
<1>5. \A x \in A : x \in 0..now /\ x < now  BY <1>1, <1>2, <1>3, <1>4
<1>6. PICK H : H = Held'  OBVIOUS
<1>7. H = Span(A) \/ H = Largest(Limit + Startup, Span(A))
  BY <1>3, <1>6, CachedRows
<1>8. /\ H \subseteq Span(A) /\ H \subseteq 0..now
      /\ A # {} => Max(A) \in H /\ (\A x \in A : x <= Max(A)) /\ Max(A) \in A
      /\ \A t \in H : \A u \in Span(A) : u > t => u \in H
      /\ H # {} => A # {}
  BY <1>1, <1>5, <1>7, CachedEnd
<1>9. PICK p : p = Max(A)  OBVIOUS
<1>10. ASSUME NEW t \in H PROVE t < now
  <2>1. A # {}  BY <1>8
  <2>2. p \in A /\ Span(A) = Min(A)..p  BY <1>8, <1>9, <2>1 DEF Span
  <2>3. p \in Int /\ p < now  BY <1>5, <2>2
  <2>4. t \in Min(A)..p  BY <1>8, <2>2
  <2>5. t \in Int /\ t <= p  BY <1>8, <2>4
  <2> QED  BY <1>1, <2>3, <2>5
<1>11. ASSUME NEW t \in H, NEW u \in H, NEW v \in t..u PROVE v \in H
  <2>1. A # {}  BY <1>8
  <2>2. PICK q : q = Min(A)  OBVIOUS
  <2>3. Span(A) = q..p  BY <1>9, <2>1, <2>2 DEF Span
  <2>4. t \in q..p /\ u \in q..p  BY <1>8, <2>3
  <2>5. q \in Int /\ p \in Int
    <3>1. p \in A  BY <1>8, <1>9, <2>1
    <3>2. \A x \in A : x \in Int /\ 0 <= x  BY <1>5
    <3>3. 0 \in Int  OBVIOUS
    <3>4. q \in A  BY <2>1, <2>2, <3>2, <3>3, MinExists
    <3> QED  BY <3>1, <3>2, <3>4
  <2>6. v \in q..p  BY <1>11, <2>4, <2>5
  <2>7. v = t \/ v > t  BY <1>11, <2>4, <2>5
  <2> QED  BY <1>8, <1>11, <2>3, <2>6, <2>7
<1>12. last_refresh' = IF R = {} THEN last_refresh ELSE LastKept(R, drop)
  BY DEF ProcessOhlcv
<1>13. PICK r : r = last_refresh'  OBVIOUS
<1>14. r \in -1..now
  <2>1. CASE R = {}  BY <1>1, <1>12, <1>13, <2>1
  <2>2. CASE R # {}
    <3>1. r \in R  BY <1>1, <1>12, <1>13, <2>2, LastIsReceived
    <3>2. r \in 0..now  BY <3>1
    <3> QED  BY <1>1, <3>2
  <2> QED  BY <2>1, <2>2
<1>15. ASSUME H # {} PROVE \E t \in H : r <= t
  <2>1. A # {}  BY <1>8, <1>15
  <2>2. p \in H /\ p \in Int /\ \A x \in A : x <= p  BY <1>5, <1>8, <1>9, <2>1
  <2>3. CASE R = {}
    <3>1. A = Held  BY <1>3, <1>4, <2>3
    <3>2. PICK h \in Held : last_refresh <= h  BY <1>2, <2>1, <3>1
    <3>3. h <= p /\ h \in Int  BY <1>1, <2>2, <3>1
    <3>4. r = last_refresh  BY <1>12, <1>13, <2>3
    <3> QED  BY <1>14, <2>2, <3>2, <3>3, <3>4
  <2>4. CASE R # {} /\ N # {}
    <3>1. r \in N  BY <1>1, <1>12, <1>13, <2>4, LastIsKept
    <3>2. r <= p  BY <1>3, <2>2, <3>1
    <3> QED  BY <2>2, <3>2
  <2>5. CASE R # {} /\ N = {}
    <3>1. PICK h \in Held : TRUE  BY <1>3, <2>1, <2>5
    <3>2. r <= h  BY <1>12, <1>13, <2>5, <3>1
    <3>3. h <= p /\ h \in Int  BY <1>1, <1>3, <2>2
    <3> QED  BY <1>14, <2>2, <3>2, <3>3
  <2> QED  BY <2>3, <2>4, <2>5
<1>16. Solid'
  <2>1. \A t, u \in Held' : \A v \in t..u : v \in Held'  BY <1>6, <1>11
  <2>2. \A t \in Held' : t < now'  BY <1>6, <1>10
  <2>3. Held' # {} => \E t \in Held' : last_refresh' <= t  BY <1>6, <1>13, <1>15
  <2> QED  BY <2>1, <2>2, <2>3 DEF Solid
<1> QED  BY <1>6, <1>8, <1>13, <1>14, <1>16

-----------------------------------------------------------------------------
(* A reply of the exchange                                                  *)

Reply(top) == IF job.kind = "history" THEN FromStart(top) ELSE Latest(top)

RestRow(t) == IF t = now THEN "partial" ELSE "final"

\* The exchange replies with the last of its candles, up to a number of them
\* or from a time on.
LEMMA ReplyRows ==
  ASSUME CacheInv, pc = "fetch", NEW top \in {now - 1, now}, NEW T, T = Traded(0, top),
         NEW R, R = Reply(top)
  PROVE  /\ top \in Int /\ top >= 0 /\ top <= now /\ top >= now - 1 /\ now \in Int
         /\ 0 \in T /\ \A x \in T : x \in 0..now /\ x <= top
         /\ R \subseteq T
         /\ \A t \in R : \A u \in T : u > t => u \in R
<1>1. /\ now \in Nat /\ now >= 1 /\ untraded \subseteq 1..Horizon /\ job.at \in Int
      /\ Limit \in Nat /\ Calls \in Nat
  BY TimesAssumption DEF CacheInv, TypeOK, Downloading
<1>2. top \in Int /\ top >= 0 /\ top <= now /\ top >= now - 1 /\ now \in Int  BY <1>1
<1>3. T = {x \in 0..top : x \notin untraded}  BY DEF Traded
<1>4. 0 \notin untraded  BY <1>1
<1>5. 0 \in T  BY <1>2, <1>3, <1>4
<1>6. \A x \in T : x \in 0..now /\ x <= top  BY <1>2, <1>3
<1>7. R \subseteq T /\ \A t \in R : \A u \in T : u > t => u \in R
  <2>1. CASE job.kind = "history"
    <3>1. PICK k \in Int : k = job.at + 1 - Limit * Calls  BY <1>1
    <3>2. PICK lo : lo = Max({0, k})  OBVIOUS
    <3>3. lo \in Int /\ lo >= 0
      <4>1. 0 \in Int  OBVIOUS
      <4>2. lo \in {0, k} /\ lo >= 0  BY <3>2, <4>1, MaxOfTwo
      <4> QED  BY <4>1, <4>2
    <3>4. R = {x \in lo..top : x \notin untraded}
      BY <2>1, <3>1, <3>2 DEF Reply, FromStart, Traded
    <3>5. R \subseteq T  BY <1>2, <1>3, <3>3, <3>4
    <3>6. \A t \in R : \A u \in T : u > t => u \in R  BY <1>2, <1>3, <3>3, <3>4
    <3> QED  BY <3>5, <3>6
  <2>2. CASE job.kind # "history"
    <3>1. R = Largest(Limit, T)  BY <2>2 DEF Reply, Latest
    <3>2. \A x \in T : x \in Int /\ x <= top  BY <1>6
    <3>3. ASSUME NEW t \in R, NEW u \in T, u > t PROVE u \in R
      BY <1>1, <1>2, <3>1, <3>2, <3>3, LargestAreLast
    <3> QED  BY <3>1, <3>3 DEF Largest
  <2> QED  BY <2>1, <2>2
<1> QED  BY <1>2, <1>5, <1>6, <1>7

\* Its last candle is the last the exchange lists.
LEMMA ReplyTop ==
  ASSUME NEW top \in Int, NEW T, \A x \in T : x \in Int /\ x <= top, NEW R, R \subseteq T,
         R # {}, \A t \in R : \A u \in T : u > t => u \in R,
         NEW m, m = Max(R)
  PROVE  m \in R /\ \A x \in T : x <= m
<1>1. \A x \in R : x \in Int /\ x <= top  OBVIOUS
<1>2. m \in R /\ \A x \in R : x <= m  BY <1>1, MaxExists
<1>3. ASSUME NEW x \in T PROVE x <= m
  <2>1. x \in Int /\ m \in Int  BY <1>1, <1>2
  <2>2. x > m => x \in R  BY <1>2
  <2> QED  BY <1>2, <2>1, <2>2
<1> QED  BY <1>2, <1>3

\* One call brings something, and all but what is Limit candles old.
LEMMA OneCall ==
  ASSUME CacheInv, job.kind # "history", NEW top \in Int, NEW T, T = Traded(0, top),
         \A x \in T : x \in Int /\ x <= top, 0 \in T, NEW R, R = Reply(top)
  PROVE  /\ R # {}
         /\ \A t \in T : t \notin R => t + Limit <= top
<1>1. R = Largest(Limit, T)  BY DEF Reply, Latest
<1>2. Limit \in Nat /\ Limit >= 2 /\ Limit >= 1  BY TimesAssumption
<1>3. R # {}
  <2>1. T # {}  OBVIOUS
  <2> QED  BY <1>1, <1>2, <2>1, MaxIsLast
<1>4. ASSUME NEW t \in T, t \notin R PROVE t + Limit <= top
  BY <1>1, <1>2, <1>4, OthersAreEarlier
<1> QED  BY <1>3, <1>4

\* If it brings a single one, that is the first of all.
LEMMA SingleRow ==
  ASSUME job.kind # "history", NEW top \in Int, NEW T, T = Traded(0, top),
         \A x \in T : x \in Int /\ x <= top, 0 \in T, NEW m \in T, \A x \in T : x <= m,
         NEW R, R = Reply(top), R = {m}
  PROVE  m = 0
<1>1. R = Largest(Limit, T)  BY DEF Reply, Latest
<1>2. Limit \in Nat /\ Limit >= 2  BY TimesAssumption
<1> SUFFICES ASSUME m # 0 PROVE FALSE  OBVIOUS
<1>3. 0 \in T /\ 0 # m  OBVIOUS
<1>4. \E s \in Largest(Limit, T) : s # m  BY <1>2, <1>3, LastTwo
<1> QED  BY <1>1, <1>4

\* What the cache holds after a reply without having received or held it was
\* not traded: a reply reaches back into what was held.
LEMMA NoGap ==
  ASSUME CacheInv, FromReplies, pc = "fetch", job.kind \in {"one_call", "history"},
         NEW top \in {now - 1, now}, NEW R, R = Reply(top), NEW N, N = Kept(R, TRUE),
         NEW A, A = N \union Held, NEW t \in Span(A), t \notin A
  PROVE  t \in untraded
<1> SUFFICES ASSUME t \notin untraded PROVE FALSE
  OBVIOUS
<1> USE TimesAssumption
<1>1. /\ Held \subseteq 0..now /\ \A x \in Held : x < now
      /\ \A x, u \in Held : \A v \in x..u : v \in Held
      /\ last_refresh \in Int
  BY DEF CacheInv, TypeOK, Solid
<1>2. PICK T : T = Traded(0, top)  OBVIOUS
<1>3. /\ top \in Int /\ top >= 0 /\ top <= now /\ top >= now - 1 /\ now \in Int
      /\ 0 \in T /\ \A x \in T : x \in 0..now /\ x <= top
      /\ R \subseteq T
      /\ \A x \in R : \A u \in T : u > x => u \in R
  BY <1>2, ReplyRows
<1>4. PICK m : m = Max(R)  OBVIOUS
<1>5. N \subseteq R /\ (R # {} => N = R \ {m})  BY <1>4 DEF Kept
<1>6. R # {} => m \in R /\ \A x \in T : x <= m
  <2>1. \A x \in T : x \in Int /\ x <= top  BY <1>3
  <2> QED  BY <1>3, <1>4, <2>1, ReplyTop
<1>7. \A x \in N : x \in T /\ x < m /\ m \in R /\ x < now
  <2> SUFFICES ASSUME NEW x \in N PROVE x \in T /\ x < m /\ m \in R /\ x < now
    OBVIOUS
  <2>1. R # {} /\ x \in R /\ x # m  BY <1>5
  <2>2. m \in T /\ x \in T /\ m \in R /\ x <= m  BY <1>3, <1>6, <2>1
  <2> QED  BY <1>3, <2>1, <2>2
<1>8. A # {}  BY DEF Span
<1>9. PICK p, q : p = Max(A) /\ q = Min(A)  OBVIOUS
<1>10. \A x \in A : x \in Int /\ x <= now /\ 0 <= x /\ x < now
  <2> SUFFICES ASSUME NEW x \in A PROVE x \in Int /\ x <= now /\ 0 <= x /\ x < now
    OBVIOUS
  <2>1. x \in 0..now /\ x < now  BY <1>1, <1>3, <1>7
  <2> QED  BY <1>3, <2>1
<1>11. p \in A /\ \A x \in A : x <= p  BY <1>3, <1>8, <1>9, <1>10, MaxExists
<1>12. q \in A /\ \A x \in A : q <= x
  <2>1. 0 \in Int  OBVIOUS
  <2> QED  BY <1>8, <1>9, <1>10, <2>1, MinExists
<1>13. t \in q..p  BY <1>8, <1>9 DEF Span
<1>14. t \in Int /\ q < t /\ t < p /\ 0 <= t /\ t < now - 1
  <2>1. p \in Int /\ q \in Int /\ p < now /\ 0 <= q  BY <1>10, <1>11, <1>12
  <2>2. t \in Int /\ q <= t /\ t <= p  BY <1>13, <2>1
  <2>3. t # q /\ t # p  BY <1>11, <1>12
  <2> QED  BY <1>3, <2>1, <2>2, <2>3
<1>15. t \in T  BY <1>2, <1>3, <1>14 DEF Traded
<1>16. t \notin R
  <2> SUFFICES ASSUME t \in R PROVE FALSE  OBVIOUS
  <2>1. t = m  BY <1>5
  <2>2. p \in Held
    <3>1. p \in Int /\ p < now /\ 0 <= p  BY <1>10, <1>11
    <3>2. ~ (p < m)  BY <1>14, <2>1, <3>1
    <3>3. p \notin N  BY <1>7, <3>2
    <3> QED  BY <1>11, <3>3
  <2>3. p \in T
    <3>1. Newest(p)  BY <1>11 DEF Newest
    <3>2. p \notin untraded  BY <2>2, <3>1 DEF FromReplies, Followed
    <3>3. p \in Int /\ p < now /\ 0 <= p  BY <1>10, <1>11
    <3>4. p \in 0..top  BY <1>3, <3>3
    <3> QED  BY <1>2, <3>2, <3>4 DEF Traded
  <2>4. p <= m /\ p \in Int  BY <1>3, <1>6, <1>10, <1>11, <2>3
  <2> QED  BY <1>14, <2>1, <2>4
<1>17. q \in Held
  <2> SUFFICES ASSUME q \in N PROVE FALSE  BY <1>12
  <2>1. q \in R  BY <1>5
  <2> QED  BY <1>3, <1>14, <1>15, <1>16, <2>1
<1>18. job.kind = "one_call" /\ job.at - (Limit - Slack) < last_refresh
  BY <1>17 DEF CacheInv, Downloading
<1>19. t + Limit <= top
  <2>1. \A x \in T : x \in Int /\ x <= top  BY <1>3
  <2>2. job.kind # "history"  BY <1>18
  <2> QED  BY <1>2, <1>3, <1>15, <1>16, <2>1, <2>2, OneCall
<1>20. PICK h \in Held : last_refresh <= h  BY <1>17 DEF CacheInv, Solid
<1>21. t <= h
  <2>1. job.at \in Int /\ now <= job.at + Patience  BY DEF CacheInv, TypeOK, Downloading
  <2>2. h \in Int  BY <1>1, <1>3
  <2>3. Limit \in Int /\ Slack \in Int /\ Patience \in Int /\ Patience <= Slack + 1
    OBVIOUS
  <2> QED  BY <1>1, <1>3, <1>14, <1>18, <1>19, <1>20, <2>1, <2>2, <2>3
<1>22. t \in Held
  <2>1. h \in Int /\ q \in Int  BY <1>1, <1>10, <1>12, <1>20
  <2>2. t \in q..h  BY <1>14, <1>21, <2>1
  <2> QED  BY <1>1, <1>17, <1>20, <2>2
<1> QED  BY <1>22

\* A reply and the cache leave the last candle traded and followed.
LEMMA LastIsFollowed ==
  ASSUME CacheInv, FromReplies, pc = "fetch", job.kind \in {"one_call", "history"},
         NEW top \in {now - 1, now}, NEW R, R = Reply(top), NEW N, N = Kept(R, TRUE),
         NEW A, A = N \union Held, NEW p \in A, \A x \in A : x <= p
  PROVE  Followed(p)
<1>1. CASE p \in Held
  <2>1. Newest(p)  BY DEF Newest
  <2> QED  BY <1>1, <2>1 DEF FromReplies
<1>2. CASE p \in N
  <2>1. PICK T : T = Traded(0, top)  OBVIOUS
  <2>2. /\ top \in Int /\ top <= now /\ now \in Int
        /\ \A x \in T : x \in 0..now /\ x <= top
        /\ R \subseteq T
        /\ \A x \in R : \A u \in T : u > x => u \in R
    BY <2>1, ReplyRows
  <2>3. PICK m : m = Max(R)  OBVIOUS
  <2>4. R # {} /\ p \in R /\ p # m  BY <1>2, <2>3 DEF Kept
  <2>5. m \in R /\ \A x \in T : x <= m
    <3>1. \A x \in T : x \in Int /\ x <= top  BY <2>2
    <3> QED  BY <2>2, <2>3, <2>4, <3>1, ReplyTop
  <2>6. m \in T /\ p \in T /\ p <= m  BY <2>2, <2>4, <2>5
  <2>7. m \notin untraded /\ p \notin untraded  BY <2>1, <2>6 DEF Traded
  <2>8. m \in (p + 1)..now  BY <2>2, <2>4, <2>6
  <2> QED  BY <2>7, <2>8 DEF Followed
<1> QED  BY <1>1, <1>2

\* Without a feed, a reply leaves the cache as it was promised.
LEMMA RestRows ==
  ASSUME CacheInv, FetchRest
  PROVE  /\ Solid' /\ Held' \subseteq 0..now' /\ last_refresh' \in -1..now'
         /\ \A t \in Held' : klines'[t] \in Content
         /\ FromReplies => FromReplies'
<1>1. /\ pc = "fetch" /\ job.kind \in {"one_call", "history"}
      /\ now' = now /\ untraded' = untraded /\ analyzed' = analyzed
  BY DEF FetchRest, clock, memory
<1>2. PICK top \in {now - 1, now} :
        ProcessOhlcv([t \in Reply(top) |-> RestRow(t)], TRUE)
  BY DEF FetchRest, Reply, RestRow
<1>3. PICK R : R = Reply(top)  OBVIOUS
<1>4. PICK ticks : ticks = [t \in R |-> RestRow(t)]  OBVIOUS
<1>5. DOMAIN ticks = R /\ \A t \in R : ticks[t] = RestRow(t)  BY <1>4
<1>6. ProcessOhlcv(ticks, TRUE)  BY <1>2, <1>3, <1>4
<1>7. PICK N : N = Kept(R, TRUE)  OBVIOUS
<1>8. PICK A : A = N \union Held  OBVIOUS
<1>9. PICK T : T = Traded(0, top)  OBVIOUS
<1>10. /\ top \in Int /\ top >= 0 /\ top <= now /\ top >= now - 1 /\ now \in Int
       /\ 0 \in T /\ \A x \in T : x \in 0..now /\ x <= top
       /\ R \subseteq T
       /\ \A x \in R : \A u \in T : u > x => u \in R
  BY <1>1, <1>3, <1>9, ReplyRows
<1>11. PICK m : m = Max(R)  OBVIOUS
<1>12. N \subseteq R /\ (R # {} => N = R \ {m})  BY <1>7, <1>11 DEF Kept
<1>13. R # {} => m \in R /\ \A x \in T : x <= m
  <2>1. \A x \in T : x \in Int /\ x <= top  BY <1>10
  <2> QED  BY <1>10, <1>11, <2>1, ReplyTop
<1>14. \A x \in N : x < now
  <2> SUFFICES ASSUME NEW x \in N PROVE x < now  OBVIOUS
  <2>1. R # {} /\ x \in R /\ x # m  BY <1>12
  <2>2. m \in T /\ x \in T /\ x <= m  BY <1>10, <1>13, <2>1
  <2> QED  BY <1>10, <2>1, <2>2
<1>15. Held \subseteq 0..now  BY DEF CacheInv, TypeOK
<1>16. ASSUME N = {}, R # {}, NEW h \in Held PROVE LastKept(R, TRUE) <= h
  <2>1. job.kind # "history"  BY <1>1, <1>16 DEF CacheInv, Downloading
  <2>2. m \in R /\ (\A x \in T : x <= m) /\ R = {m}  BY <1>12, <1>13, <1>16
  <2>3. \A x \in T : x \in Int /\ x <= top  BY <1>10
  <2>4. m = 0
    <3>1. m \in T  BY <1>10, <2>2
    <3> QED  BY <1>3, <1>9, <1>10, <2>1, <2>2, <2>3, <3>1, SingleRow
  <2>5. \A x \in R : x \in 0..now  BY <1>10
  <2>6. LastKept(R, TRUE) \in R  BY <1>10, <1>16, <2>5, LastIsReceived
  <2>7. LastKept(R, TRUE) = 0  BY <2>2, <2>4, <2>6
  <2>8. h \in 0..now  BY <1>15, <1>16
  <2>9. 0 <= h  BY <1>10, <2>8
  <2> QED  BY <2>7, <2>9
<1>17. \A x \in R : x \in 0..now  BY <1>10
<1>18. Solid' /\ Held' \subseteq 0..now' /\ last_refresh' \in -1..now'
  BY <1>1, <1>5, <1>6, <1>7, <1>14, <1>16, <1>17, FetchedIsSolid
<1>19. PICK H : H = Held'  OBVIOUS
<1>20. /\ H = Span(A) \/ H = Largest(Limit + Startup, Span(A))
       /\ \A t \in H : klines'[t] = IF t \in N THEN ticks[t]
                                    ELSE IF t \in Held THEN klines[t] ELSE "filled"
  <2>1. R = DOMAIN ticks  BY <1>5
  <2>2. Held' = IF Held = {} THEN Span(A) ELSE Largest(Limit + Startup, Span(A))
    BY <1>6, <1>7, <1>8, <2>1, CachedRows
  <2>3. \A t \in Held' : klines'[t] = IF t \in N THEN ticks[t]
                                     ELSE IF t \in Held THEN klines[t] ELSE "filled"
    BY <1>6, <1>7, <1>8, <2>1, CachedRows
  <2> QED  BY <1>19, <2>2, <2>3
<1>21. \A t \in N : ticks[t] = "final"
  <2> SUFFICES ASSUME NEW t \in N PROVE ticks[t] = "final"  OBVIOUS
  <2>1. t # now /\ t \in R  BY <1>10, <1>12, <1>14
  <2> QED  BY <1>5, <2>1 DEF RestRow
<1>22. \A t \in H : klines'[t] \in Content
  BY <1>20, <1>21 DEF Content, CacheInv, TypeOK
<1>23. ASSUME FromReplies PROVE FromReplies'
  <2>1. \A x \in A : x \in 0..now
    BY <1>8, <1>10, <1>12, <1>15
  <2>2. /\ H \subseteq Span(A)
        /\ A # {} => Max(A) \in H /\ (\A x \in A : x <= Max(A)) /\ Max(A) \in A
        /\ H # {} => A # {}
    BY <1>10, <1>20, <2>1, TimesAssumption, CachedEnd
  <2>3. ASSUME NEW t \in H PROVE klines'[t] = IF t \in untraded THEN "filled" ELSE "final"
    <3>1. CASE t \in N
      <4>1. t \in T  BY <1>10, <1>12, <3>1
      <4>2. t \notin untraded  BY <1>9, <4>1 DEF Traded
      <4> QED  BY <1>20, <1>21, <2>3, <3>1, <4>2
    <3>2. CASE t \notin N /\ t \in Held
      <4>1. Genuine(t)  BY <1>23, <3>2 DEF FromReplies
      <4> QED  BY <1>20, <2>3, <3>2, <4>1 DEF Genuine
    <3>3. CASE t \notin N /\ t \notin Held
      <4>1. t \in Span(A) /\ t \notin A  BY <1>8, <2>2, <2>3, <3>3
      <4>2. t \in untraded  BY <1>1, <1>3, <1>7, <1>8, <1>23, <4>1, NoGap
      <4> QED  BY <1>20, <2>3, <3>3, <4>2
    <3> QED  BY <3>1, <3>2, <3>3
  <2>4. ASSUME NEW t \in H, \A u \in H : u <= t PROVE Followed(t)
    <3>1. PICK p : p = Max(A)  OBVIOUS
    <3>2. p \in H /\ p \in A /\ \A x \in A : x <= p  BY <2>2, <2>4, <3>1
    <3>3. PICK q : q = Min(A)  OBVIOUS
    <3>4. t \in q..p
      <4>1. A # {}  BY <3>2
      <4>2. Span(A) = q..p  BY <3>1, <3>3, <4>1 DEF Span
      <4> QED  BY <2>2, <2>4, <4>2
    <3>5. p \in Int /\ p <= t  BY <2>1, <2>4, <3>2
    <3>6. q \in Int
      <4>1. \A x \in A : x \in Int /\ 0 <= x  BY <2>1
      <4>2. 0 \in Int /\ A # {}  BY <3>2
      <4>3. q \in A  BY <3>3, <4>1, <4>2, MinExists
      <4> QED  BY <2>1, <4>3
    <3>7. t = p  BY <3>4, <3>5, <3>6
    <3>8. Followed(p)  BY <1>1, <1>3, <1>7, <1>8, <1>23, <3>2, LastIsFollowed
    <3> QED  BY <3>7, <3>8
  <2>5. \A t \in Held' : Genuine(t)'  BY <1>1, <1>19, <2>3 DEF Genuine
  <2>6. \A t \in Held' : Newest(t)' => Followed(t)'
    <3> SUFFICES ASSUME NEW t \in Held', Newest(t)' PROVE Followed(t)'  OBVIOUS
    <3>1. t \in H /\ \A u \in H : u <= t  BY <1>19 DEF Newest
    <3>2. Followed(t)  BY <2>4, <3>1
    <3> QED  BY <1>1, <3>2 DEF Followed
  <2>7. analyzed'.content = "final"  BY <1>1, <1>23 DEF FromReplies
  <2> QED  BY <2>5, <2>6, <2>7 DEF FromReplies
<1> QED  BY <1>18, <1>19, <1>22, <1>23

\* So does the feed.
LEMMA FeedRows ==
  ASSUME CacheInv, FetchFeed
  PROVE  /\ Solid' /\ Held' \subseteq 0..now' /\ last_refresh' \in -1..now'
         /\ \A t \in Held' : klines'[t] \in Content
<1>1. pc = "fetch" /\ job.kind = "feed" /\ feed # NoFeed /\ now' = now
  BY DEF FetchFeed, clock
<1>2. PICK delivered \in {"final", "partial"} :
        ProcessOhlcv([t \in Traded(feed.lo, feed.hi)
                        |-> IF t = feed.hi THEN delivered ELSE "final"], feed.hi >= job.at)
  BY DEF FetchFeed
<1>3. PICK lo, hi, at : lo = feed.lo /\ hi = feed.hi /\ at = job.at  OBVIOUS
<1>4. /\ now \in Int /\ lo \in 0..now /\ hi \in lo..now /\ at \in Start..now
      /\ Held \subseteq 0..now
  BY <1>1, <1>3, TimesAssumption DEF CacheInv, TypeOK, Downloading
<1>5. PICK R : R = Traded(lo, hi)  OBVIOUS
<1>6. PICK ticks : ticks = [t \in R |-> IF t = hi THEN delivered ELSE "final"]  OBVIOUS
<1>7. PICK drop : drop = (hi >= at)  OBVIOUS
<1>8. drop \in BOOLEAN  BY <1>7
<1>9. R = DOMAIN ticks /\ \A t \in R : ticks[t] \in Content  BY <1>6 DEF Content
<1>10. ProcessOhlcv(ticks, drop)  BY <1>2, <1>3, <1>5, <1>6, <1>7
<1>11. PICK N : N = Kept(R, drop)  OBVIOUS
<1>12. lo \in Int /\ hi \in Int /\ at \in Int /\ 0 <= lo /\ lo <= hi /\ hi <= now /\ at <= now
  BY <1>4, TimesAssumption
<1>13. R = {x \in lo..hi : x \notin untraded} /\ hi \notin untraded
  BY <1>1, <1>3, <1>5 DEF Traded, CacheInv, Feeding
<1>14. hi \in R /\ \A x \in R : x \in 0..now /\ x \in Int /\ x <= hi
  BY <1>4, <1>12, <1>13
<1>15. Max(R) = hi  BY <1>14, MaxIs
<1>16. N = IF drop THEN R \ {hi} ELSE R
  BY <1>11, <1>14, <1>15 DEF Kept
<1>17. \A x \in N : x < now
  <2> SUFFICES ASSUME NEW x \in N PROVE x < now  OBVIOUS
  <2>1. x \in Int /\ x <= hi /\ x \in R  BY <1>14, <1>16
  <2>2. drop => x # hi  BY <1>16
  <2>3. ~drop => hi < at
    <3>1. drop <=> hi >= at  BY <1>7, Zenon
    <3> QED  BY <1>12, <3>1
  <2> QED  BY <1>4, <1>12, <2>1, <2>2, <2>3
<1>18. N # {}
  <2>1. CASE drop
    <3>1. hi >= at  BY <1>7, <2>1
    <3>2. \E t \in Traded(lo, hi) : t # hi
      BY <1>1, <1>3, <3>1 DEF CacheInv, Downloading
    <3> QED  BY <1>5, <1>16, <2>1, <3>2
  <2>2. CASE ~drop
    BY <1>14, <1>16, <2>2
  <2> QED  BY <2>1, <2>2
<1>19. \A x \in R : x \in 0..now  BY <1>14
<1>20. Solid' /\ Held' \subseteq 0..now' /\ last_refresh' \in -1..now'
  BY <1>1, <1>8, <1>9, <1>10, <1>11, <1>17, <1>18, <1>19, FetchedIsSolid
<1>21. \A t \in Held' : klines'[t] \in Content
  <2>1. R = DOMAIN ticks  BY <1>9
  <2>2. PICK A : A = N \union Held  OBVIOUS
  <2>3. \A t \in Held' : klines'[t] = IF t \in N THEN ticks[t]
                                     ELSE IF t \in Held THEN klines[t] ELSE "filled"
    BY <1>10, <1>11, <2>1, <2>2, CachedRows
  <2>4. \A t \in N : ticks[t] \in Content  BY <1>9, <1>16
  <2>5. \A t \in Held : klines[t] \in Content  BY DEF CacheInv, TypeOK
  <2>6. "filled" \in Content  BY DEF Content
  <2> QED  BY <2>3, <2>4, <2>5, <2>6
<1> QED  BY <1>20, <1>21

-----------------------------------------------------------------------------
(* The parts of the invariant, and the steps that touch them                *)

LEMMA ClockStep ==
  ASSUME CacheInv, [Next]_vars
  PROVE  /\ untraded' = untraded /\ enable_ws' = enable_ws
         /\ now \in Int /\ now' \in Start..Horizon /\ now' \in Int /\ now <= now'
         /\ untraded \subseteq 1..Horizon /\ enable_ws \in BOOLEAN
<1>1. now \in Start..Horizon /\ Start \in Int /\ Horizon \in Int /\ Start >= 1 /\ now \in Int
      /\ untraded \subseteq 1..Horizon /\ enable_ws \in BOOLEAN
  BY TimesAssumption DEF CacheInv, TypeOK
<1>2. CASE Tick  BY <1>1, <1>2 DEF Tick
<1>3. CASE UNCHANGED clock  BY <1>1, <1>3 DEF clock
<1>4. CASE UNCHANGED vars  BY <1>3, <1>4 DEF vars
<1>5. CASE FeedMessage \/ FeedStops \/ Sell
  BY <1>3, <1>5 DEF FeedMessage, FeedStops, Sell
<1>6. CASE Refresh \/ FetchRest \/ FetchFeed \/ FetchFails
  BY <1>3, <1>6 DEF Refresh, BuildCoroutine, FetchRest, FetchFeed, FetchFails
<1>7. CASE Analyze \/ AnalyzeFails \/ CloseTrade \/ NoExits \/ AutoLock
  BY <1>3, <1>7 DEF Analyze, AnalyzeFails, CloseTrade, NoExits, AutoLock
<1>8. CASE Protect \/ ProtectDies \/ Enter \/ NoEntry \/ Crash
  BY <1>3, <1>8 DEF Protect, ProtectDies, Enter, NoEntry, Crash
<1> QED  BY <1>2, <1>4, <1>5, <1>6, <1>7, <1>8 DEF Next

\* The cache is extended by a reply, emptied or left alone.
LEMMA CacheStep ==
  ASSUME CacheInv, [Next]_vars
  PROVE  \/ klines' = klines /\ last_refresh' = last_refresh
         \/ klines' = Empty /\ last_refresh' \in {last_refresh, None}
         \/ FetchRest
         \/ FetchFeed
<1>1. CASE Tick \/ FeedMessage \/ FeedStops \/ Sell \/ FetchFails
  BY <1>1 DEF Tick, FeedMessage, FeedStops, Sell, FetchFails, cache
<1>2. CASE Refresh
  BY <1>2 DEF Refresh, BuildCoroutine, cache
<1>3. CASE Analyze \/ AnalyzeFails \/ CloseTrade \/ NoExits \/ AutoLock
  BY <1>3 DEF Analyze, AnalyzeFails, CloseTrade, NoExits, AutoLock, cache
<1>4. CASE Protect \/ ProtectDies \/ Enter \/ NoEntry \/ Crash
  BY <1>4 DEF Protect, ProtectDies, Enter, NoEntry, Crash, Restarted, cache
<1>5. CASE UNCHANGED vars  BY <1>5 DEF vars, cache
<1> QED  BY <1>1, <1>2, <1>3, <1>4, <1>5 DEF Next

LEMMA CacheKept ==
  ASSUME CacheInv, [Next]_vars
  PROVE  /\ Solid' /\ Held' \subseteq 0..now' /\ last_refresh' \in -1..now'
         /\ \A t \in Held' : klines'[t] \in Content
<1>1. now \in Int /\ now' \in Int /\ now <= now' /\ 0 <= now
  <2>1. 0 <= now  BY TimesAssumption DEF CacheInv, TypeOK
  <2> QED  BY <2>1, ClockStep
<1>2. /\ Held \subseteq 0..now /\ last_refresh \in -1..now
      /\ \A t \in Held : klines[t] \in Content
  BY DEF CacheInv, TypeOK
<1>3. CASE klines' = klines /\ last_refresh' = last_refresh
  <2>1. Held' = Held  BY <1>3 DEF Held
  <2>2. \A t \in Held : t \in 0..now' /\ t < now'
    <3> SUFFICES ASSUME NEW t \in Held PROVE t \in 0..now' /\ t < now'  OBVIOUS
    <3>1. t \in 0..now /\ t < now  BY <1>2 DEF CacheInv, Solid
    <3> QED  BY <1>1, <3>1
  <2>3. Solid'
    BY <1>3, <2>1, <2>2 DEF CacheInv, Solid
  <2>4. last_refresh \in -1..now'  BY <1>1, <1>2
  <2> QED  BY <1>2, <1>3, <2>1, <2>2, <2>3, <2>4
<1>4. CASE klines' = Empty /\ last_refresh' \in {last_refresh, None}
  <2>1. Held' = {}  BY <1>4 DEF Held, Empty
  <2>2. last_refresh' \in -1..now'  BY <1>1, <1>2, <1>4 DEF None
  <2> QED  BY <2>1, <2>2 DEF Solid
<1>5. CASE FetchRest  BY <1>5, RestRows
<1>6. CASE FetchFeed  BY <1>6, FeedRows
<1> QED  BY <1>3, <1>4, <1>5, <1>6, CacheStep

\* The feed brings the candle in progress, or stops.
LEMMA FeedStep ==
  ASSUME CacheInv, [Next]_vars
  PROVE  \/ feed' = feed /\ watching' \in {watching, enable_ws}
         \/ feed' = NoFeed /\ watching' = FALSE
         \/ FeedMessage
<1>1. CASE Tick \/ FeedStops \/ Sell \/ FetchRest \/ FetchFeed \/ FetchFails
  BY <1>1 DEF Tick, FeedStops, Sell, FetchRest, FetchFeed, FetchFails, ws
<1>2. CASE Refresh
  BY <1>2 DEF Refresh, BuildCoroutine, ws
<1>3. CASE Analyze \/ AnalyzeFails \/ CloseTrade \/ NoExits \/ AutoLock
  BY <1>3 DEF Analyze, AnalyzeFails, CloseTrade, NoExits, AutoLock, ws
<1>4. CASE Protect \/ ProtectDies \/ Enter \/ NoEntry \/ Crash
  BY <1>4 DEF Protect, ProtectDies, Enter, NoEntry, Crash, Restarted, ws
<1>5. CASE UNCHANGED vars  BY <1>5 DEF vars, ws
<1> QED  BY <1>1, <1>2, <1>3, <1>4, <1>5 DEF Next

FeedTyped ==
    /\ feed = NoFeed \/ (feed.lo \in 0..now /\ feed.hi \in feed.lo..now)
    /\ watching \in BOOLEAN /\ (watching => enable_ws)

LEMMA FeedKept ==
  ASSUME CacheInv, [Next]_vars
  PROVE  FeedTyped' /\ Feeding'
<1>1. /\ now \in Int /\ now' \in Int /\ now <= now'
      /\ untraded' = untraded /\ enable_ws' = enable_ws /\ enable_ws \in BOOLEAN
  BY ClockStep
<1>2. FeedTyped /\ Feeding  BY DEF CacheInv, TypeOK, FeedTyped
<1>3. now >= 1  BY TimesAssumption DEF CacheInv, TypeOK
<1>4. CASE feed' = feed /\ watching' \in {watching, enable_ws}
  <2>1. watching' \in BOOLEAN /\ (watching' => enable_ws')
    BY <1>1, <1>2, <1>4 DEF FeedTyped
  <2>2. feed # NoFeed => feed.lo \in 0..now' /\ feed.hi \in feed.lo..now'
    BY <1>1, <1>2 DEF FeedTyped
  <2>3. FeedTyped'  BY <1>4, <2>1, <2>2 DEF FeedTyped
  <2>4. Feeding'  BY <1>1, <1>2, <1>4 DEF Feeding
  <2> QED  BY <2>3, <2>4
<1>5. CASE feed' = NoFeed /\ watching' = FALSE
  BY <1>5 DEF FeedTyped, Feeding
<1>6. CASE FeedMessage
  <2>1. now' = now /\ now \notin untraded /\ watching' = watching
    BY <1>6 DEF FeedMessage, clock
  <2>2. PICK lo \in {now - 1, now} \ untraded :
          feed' = [lo |-> IF feed = NoFeed THEN lo ELSE feed.lo, hi |-> now]
    BY <1>6 DEF FeedMessage
  <2>3. PICK first : first = IF feed = NoFeed THEN lo ELSE feed.lo  OBVIOUS
  <2>4. first \in 0..now /\ first \notin untraded
    BY <1>1, <1>2, <1>3, <2>2, <2>3 DEF FeedTyped, Feeding
  <2>5. feed'.lo = first /\ feed'.hi = now  BY <2>2, <2>3
  <2>6. now \in first..now  BY <1>1, <2>4
  <2>7. FeedTyped'  BY <1>1, <1>2, <2>1, <2>4, <2>5, <2>6 DEF FeedTyped
  <2>8. Feeding'  BY <1>1, <2>1, <2>4, <2>5 DEF Feeding
  <2> QED  BY <2>7, <2>8
<1> QED  BY <1>4, <1>5, <1>6, FeedStep

\* A download is started by BuildCoroutine; then only time and the feed go on.
LEMMA JobStep ==
  ASSUME CacheInv, [Next]_vars
  PROVE  \/ pc' # "fetch"
         \/ BuildCoroutine
         \/ /\ pc = "fetch" /\ job' = job
            /\ klines' = klines /\ last_refresh' = last_refresh
            /\ \/ Tick
               \/ now' = now /\ feed' = feed /\ watching' = watching
               \/ now' = now /\ FeedMessage
               \/ now' = now /\ feed' = NoFeed /\ watching' = FALSE
<1>1. CASE Tick  BY <1>1 DEF Tick, cache
<1>2. CASE FeedMessage  BY <1>2 DEF FeedMessage, clock, cache
<1>3. CASE FeedStops  BY <1>3 DEF FeedStops, clock, cache
<1>4. CASE Sell  BY <1>4 DEF Sell
<1>5. CASE Refresh  BY <1>5 DEF Refresh
<1>6. CASE FetchRest \/ FetchFeed \/ FetchFails \/ Analyze \/ AnalyzeFails \/ CloseTrade
  BY <1>6 DEF FetchRest, FetchFeed, FetchFails, Analyze, AnalyzeFails, CloseTrade
<1>7. CASE NoExits \/ AutoLock \/ Protect \/ ProtectDies \/ Enter \/ NoEntry \/ Crash
  BY <1>7 DEF NoExits, AutoLock, Protect, ProtectDies, Enter, NoEntry, Crash, Restarted
<1>8. CASE UNCHANGED vars  BY <1>8 DEF vars, clock, cache, ws
<1> QED  BY <1>1, <1>2, <1>3, <1>4, <1>5, <1>6, <1>7, <1>8 DEF Next

LEMMA DownloadKept ==
  ASSUME CacheInv, [Next]_vars
  PROVE  Downloading'
<1> USE TimesAssumption
<1> SUFFICES ASSUME pc' = "fetch" PROVE Downloading'  BY DEF Downloading
<1>1. /\ now \in Int /\ now' \in Start..Horizon /\ now' \in Int /\ now <= now'
      /\ untraded' = untraded /\ enable_ws' = enable_ws
  BY ClockStep
<1>2. now \in Start..Horizon  BY DEF CacheInv, TypeOK
<1>3. CASE BuildCoroutine
  <2>1. /\ now' = now /\ last_refresh' = last_refresh /\ feed' = feed
    BY <1>3 DEF BuildCoroutine, clock
  <2>2. job'.at = now /\ job'.at \in Start..now' /\ now' <= job'.at + Patience
    <3>1. job'.at = now  BY <1>3 DEF BuildCoroutine
    <3> QED  BY <1>1, <1>2, <2>1, <3>1
  <2>3. \/ job'.kind = "feed" /\ FeedUsable
        \/ job'.kind = "one_call" /\ CacheUsable /\ klines' = klines
        \/ job'.kind \in {"one_call", "history"} /\ klines' = Empty
    BY <1>3 DEF BuildCoroutine
  <2>4. CASE job'.kind = "feed" /\ FeedUsable
    <3>1. enable_ws' /\ feed' # NoFeed  BY <1>1, <2>1, <2>4 DEF FeedUsable
    <3>2. ASSUME feed'.hi >= job'.at
          PROVE  \E t \in Traded(feed.lo, feed.hi) : t # feed.hi
      <4>1. PICK R : R = Traded(feed.lo, feed.hi)  OBVIOUS
      <4>2. feed.hi \in Int  BY <1>1, <2>1, <3>1 DEF CacheInv, TypeOK
      <4>3. feed.hi # now - 1  BY <1>1, <2>1, <2>2, <3>2, <4>2
      <4>4. Cardinality(R) > 1  BY <2>4, <4>1, <4>3 DEF FeedUsable
      <4> SUFFICES ASSUME \A t \in R : t = feed.hi PROVE FALSE  BY <4>1
      <4>5. R \subseteq {feed.hi}  OBVIOUS
      <4>6. IsFiniteSet({feed.hi}) /\ Cardinality({feed.hi}) = 1  BY FS_Singleton
      <4>7. IsFiniteSet(R) /\ Cardinality(R) <= 1  BY <4>5, <4>6, FS_Subset
      <4>8. Cardinality(R) \in Nat  BY <4>7, FS_CardinalityType
      <4> QED  BY <4>4, <4>7, <4>8
    <3>3. Traded(feed.lo, feed.hi)' = Traded(feed.lo, feed.hi)
      BY <1>1, <2>1 DEF Traded
    <3>4. feed' # NoFeed /\ feed'.hi >= job'.at
            => \E t \in Traded(feed.lo, feed.hi)' : t # feed'.hi
      BY <2>1, <3>2, <3>3
    <3> QED  BY <2>2, <2>4, <3>1, <3>4 DEF Downloading
  <2>5. CASE job'.kind = "one_call" /\ CacheUsable /\ klines' = klines
    <3>1. job'.at - (Limit - Slack) < last_refresh'  BY <2>1, <2>2, <2>5 DEF CacheUsable
    <3> QED  BY <2>2, <2>5, <3>1 DEF Downloading
  <2>6. CASE job'.kind \in {"one_call", "history"} /\ klines' = Empty
    <3>1. Held' = {}  BY <2>6 DEF Held, Empty
    <3> QED  BY <2>2, <2>6, <3>1 DEF Downloading
  <2> QED  BY <2>3, <2>4, <2>5, <2>6
<1>4. CASE /\ pc = "fetch" /\ job' = job
           /\ klines' = klines /\ last_refresh' = last_refresh
           /\ \/ Tick
              \/ now' = now /\ feed' = feed /\ watching' = watching
              \/ now' = now /\ FeedMessage
              \/ now' = now /\ feed' = NoFeed /\ watching' = FALSE
  <2>1. Held' = Held  BY <1>4 DEF Held
  <2>2. /\ job.kind \in {"feed", "one_call", "history"}
        /\ job.at \in Start..now /\ now <= job.at + Patience
        /\ job.kind = "history" => Held = {}
        /\ job.kind = "one_call" => Held = {} \/ job.at - (Limit - Slack) < last_refresh
        /\ job.kind = "feed" => enable_ws
        /\ job.kind = "feed" /\ feed = NoFeed => ~watching
        /\ job.kind = "feed" /\ feed # NoFeed /\ feed.hi >= job.at
             => \E t \in Traded(feed.lo, feed.hi) : t # feed.hi
    BY <1>4 DEF CacheInv, Downloading
  <2>3. job.at \in Start..now' /\ now' <= job.at + Patience
    <3>1. job.at \in Int /\ Start <= job.at /\ job.at <= now'  BY <1>1, <1>2, <2>2
    <3>2. CASE Tick
      <4>1. now' = now + 1 /\ now < job.at + Patience  BY <1>4, <3>2 DEF Tick
      <4> QED  BY <1>1, <3>1, <4>1
    <3>3. CASE now' = now  BY <1>1, <2>2, <3>1, <3>3
    <3> QED  BY <1>4, <3>2, <3>3
  <2>4. ASSUME job.kind = "feed"
        PROVE  /\ feed' = NoFeed => ~watching'
               /\ feed' # NoFeed /\ feed'.hi >= job.at
                    => \E t \in Traded(feed.lo, feed.hi)' : t # feed'.hi
    <3>1. CASE feed' = feed /\ watching' = watching
      <4>1. Traded(feed.lo, feed.hi)' = Traded(feed.lo, feed.hi)
        BY <1>1, <3>1 DEF Traded
      <4> QED  BY <2>2, <2>4, <3>1, <4>1
    <3>2. CASE now' = now /\ FeedMessage
      <4>1. watching /\ watching' = watching /\ feed' # feed
        BY <3>2 DEF FeedMessage
      <4>2. feed # NoFeed  BY <2>2, <2>4, <4>1
      <4>3. feed' = [lo |-> feed.lo, hi |-> now]  BY <3>2, <4>2 DEF FeedMessage
      <4>4. /\ feed.lo \in 0..now /\ feed.hi \in feed.lo..now
            /\ feed.hi \notin untraded
        BY <4>2 DEF CacheInv, TypeOK, Feeding
      <4>5. feed.hi \in Traded(feed.lo, now)  BY <1>1, <4>4 DEF Traded
      <4>6. CASE feed.hi # now
        <5>1. Traded(feed.lo, feed.hi)' = Traded(feed.lo, now)
          BY <1>1, <4>3 DEF Traded
        <5>2. feed'.hi = now  BY <4>3
        <5>3. feed' # NoFeed
          <6>1. NoFeed.hi = -1  BY DEF NoFeed, None
          <6>2. now >= 1  BY <1>2
          <6> QED  BY <1>1, <5>2, <6>1, <6>2
        <5> QED  BY <4>5, <4>6, <5>1, <5>2, <5>3
      <4>7. CASE feed.hi = now
        \* Nothing new is delivered: the candle in progress was there, and
        \* so was another one.
        <5>1. feed'.lo = feed.lo /\ feed'.hi = feed.hi  BY <4>3, <4>7
        <5>2. Traded(feed.lo, feed.hi)' = Traded(feed.lo, feed.hi)
          BY <1>1, <5>1 DEF Traded
        <5>3. feed' # NoFeed
          <6>1. NoFeed.hi = -1  BY DEF NoFeed, None
          <6>2. now >= 1  BY <1>2
          <6> QED  BY <1>1, <4>7, <5>1, <6>1, <6>2
        <5> QED  BY <2>2, <2>4, <4>2, <5>1, <5>2, <5>3
      <4> QED  BY <4>6, <4>7
    <3>3. CASE feed' = NoFeed /\ watching' = FALSE  BY <3>3
    <3>4. CASE Tick
      <4>1. feed' = feed /\ watching' = watching  BY <3>4 DEF Tick, ws
      <4> QED  BY <3>1, <4>1
    <3> QED  BY <1>4, <3>1, <3>2, <3>3, <3>4
  <2> QED  BY <1>1, <1>4, <2>1, <2>2, <2>3, <2>4 DEF Downloading
<1> QED  BY <1>3, <1>4, JobStep

\* A candle is analyzed, or the dataframes stay, or are lost with the process.
LEMMA MemoryStep ==
  ASSUME CacheInv, [Next]_vars
  PROVE  \/ seen' = seen /\ analyzed' = analyzed
         \/ seen' = None /\ analyzed' = Blank /\ klines' = Empty
         \/ /\ now' = now /\ klines' = klines
            /\ \E t \in Held, signal \in Sides \union {NoSide} :
                 /\ Newest(t) /\ seen' = t
                 /\ analyzed' = [upto |-> t, signal |-> signal, content |-> klines[t]]
<1>1. CASE Tick \/ FeedMessage \/ FeedStops \/ Sell \/ FetchRest \/ FetchFeed \/ FetchFails
  BY <1>1 DEF Tick, FeedMessage, FeedStops, Sell, FetchRest, FetchFeed, FetchFails, memory
<1>2. CASE Refresh
  BY <1>2 DEF Refresh, BuildCoroutine, memory
<1>3. CASE Analyze
  <2>1. now' = now /\ klines' = klines  BY <1>3 DEF Analyze, clock, cache
  <2>2. CASE UNCHANGED memory  BY <2>2 DEF memory
  <2>3. CASE ~UNCHANGED memory
    <3>1. \E t \in Held, signal \in Sides \union {NoSide} :
            /\ Newest(t) /\ seen # t
            /\ seen' = t
            /\ analyzed' = [upto |-> t, signal |-> signal, content |-> klines[t]]
      BY <1>3, <2>3 DEF Analyze
    <3> QED  BY <2>1, <3>1
  <2> QED  BY <2>2, <2>3
<1>4. CASE AnalyzeFails \/ CloseTrade \/ NoExits \/ AutoLock
  BY <1>4 DEF AnalyzeFails, CloseTrade, NoExits, AutoLock, memory
<1>5. CASE Protect \/ Enter \/ NoEntry
  BY <1>5 DEF Protect, Enter, NoEntry, memory
<1>6. CASE ProtectDies \/ Crash
  BY <1>6 DEF ProtectDies, Crash, Restarted
<1>7. CASE UNCHANGED vars  BY <1>7 DEF vars, memory
<1> QED  BY <1>1, <1>2, <1>3, <1>4, <1>5, <1>6, <1>7 DEF Next

MemoryTyped ==
    /\ seen \in -1..now
    /\ analyzed \in [upto : -1..now, signal : Sides \union {NoSide}, content : Content]

LEMMA MemoryKept ==
  ASSUME CacheInv, [Next]_vars
  PROVE  MemoryTyped' /\ analyzed'.upto < now'
<1>1. now \in Int /\ now' \in Int /\ now <= now' /\ 1 <= now
  <2>1. 1 <= now  BY TimesAssumption DEF CacheInv, TypeOK
  <2> QED  BY <2>1, ClockStep
<1>2. /\ seen \in -1..now /\ analyzed.upto < now
      /\ analyzed \in [upto : -1..now, signal : Sides \union {NoSide}, content : Content]
      /\ Held \subseteq 0..now /\ \A t \in Held : klines[t] \in Content /\ t < now
  BY DEF CacheInv, TypeOK, Solid
<1>3. CASE seen' = seen /\ analyzed' = analyzed
  <2>1. seen \in -1..now' /\ analyzed.upto \in -1..now' /\ analyzed.upto < now'
    BY <1>1, <1>2
  <2>2. analyzed \in [upto : -1..now', signal : Sides \union {NoSide}, content : Content]
    BY <1>2, <2>1
  <2> QED  BY <1>3, <2>1, <2>2 DEF MemoryTyped
<1>4. CASE seen' = None /\ analyzed' = Blank
  BY <1>1, <1>4 DEF MemoryTyped, None, Blank, Content
<1>5. CASE /\ now' = now
           /\ \E t \in Held, signal \in Sides \union {NoSide} :
                /\ Newest(t) /\ seen' = t
                /\ analyzed' = [upto |-> t, signal |-> signal, content |-> klines[t]]
  <2>1. PICK t \in Held, signal \in Sides \union {NoSide} :
          /\ Newest(t) /\ seen' = t
          /\ analyzed' = [upto |-> t, signal |-> signal, content |-> klines[t]]
    BY <1>5
  <2>2. t \in -1..now /\ t < now /\ klines[t] \in Content  BY <1>1, <1>2
  <2> QED  BY <1>5, <2>1, <2>2 DEF MemoryTyped
<1> QED  BY <1>3, <1>4, <1>5, MemoryStep

\* Without a feed, what is analyzed is what the exchange has closed.
LEMMA RepliesKept ==
  ASSUME CacheInv, [Next]_vars, ~enable_ws'
  PROVE  FromReplies'
<1>1. /\ now \in Int /\ now' \in Int /\ now <= now'
      /\ untraded' = untraded /\ enable_ws' = enable_ws
  BY ClockStep
<1>2. FromReplies /\ ~enable_ws  BY <1>1 DEF CacheInv
<1>3. CASE FetchRest  BY <1>2, <1>3, RestRows
<1>4. CASE FetchFeed
  BY <1>2, <1>4 DEF FetchFeed, CacheInv, Downloading
<1>5. CASE klines' = klines \/ klines' = Empty
  <2>1. \A t \in Held' : Genuine(t)'
    BY <1>1, <1>2, <1>5 DEF FromReplies, Genuine, Held, Empty
  <2>2. \A t \in Held' : Newest(t)' => Followed(t)'
    <3> SUFFICES ASSUME NEW t \in Held', Newest(t)' PROVE Followed(t)'  OBVIOUS
    <3>1. klines' = klines  BY <1>5 DEF Held, Empty
    <3>2. t \in Held /\ Newest(t)  BY <3>1 DEF Held, Newest
    <3>3. Followed(t)  BY <1>2, <3>2 DEF FromReplies
    <3>4. t \in Int  BY <3>2 DEF CacheInv, TypeOK
    <3>5. PICK e \in (t + 1)..now : e \notin untraded  BY <3>3 DEF Followed
    <3>6. e \in (t + 1)..now'  BY <1>1, <3>4, <3>5
    <3> QED  BY <1>1, <3>3, <3>5, <3>6 DEF Followed
  <2>3. analyzed'.content = "final"
    <3>1. CASE analyzed' = analyzed  BY <1>2, <3>1 DEF FromReplies
    <3>2. CASE analyzed' = Blank  BY <3>2 DEF Blank
    <3>3. CASE \E t \in Held, signal \in Sides \union {NoSide} :
                 /\ Newest(t) /\ seen' = t
                 /\ analyzed' = [upto |-> t, signal |-> signal, content |-> klines[t]]
      <4>1. PICK t \in Held : Newest(t) /\ analyzed'.content = klines[t]  BY <3>3
      <4>2. t \notin untraded /\ Genuine(t)  BY <1>2, <4>1 DEF FromReplies, Followed
      <4> QED  BY <4>1, <4>2 DEF Genuine
    <3> QED  BY <3>1, <3>2, <3>3, MemoryStep
  <2> QED  BY <2>1, <2>2, <2>3 DEF FromReplies
<1> QED  BY <1>3, <1>4, <1>5, CacheStep

LockEnds == 0..(Horizon + Cooldown + 1)

LEMMA LockingTyped ==
  ASSUME TimesAssumption, lock_end \in [Sides \union {Both} -> LockEnds],
         NEW side \in Sides \union {Both}, NEW until \in Int, until <= Horizon + Cooldown,
         lock_end' = Locking(side, until)
  PROVE  lock_end' \in [Sides \union {Both} -> LockEnds]
<1>1. Horizon \in Int /\ Cooldown \in Int  BY DEF TimesAssumption
<1>2. PICK a \in Int : a = lock_end[side] /\ 0 <= a /\ a <= Horizon + Cooldown + 1
  <2>1. lock_end[side] \in LockEnds  OBVIOUS
  <2> QED  BY <1>1, <2>1 DEF LockEnds
<1>3. PICK b \in Int : b = until + 1  OBVIOUS
<1>4. PICK m : m = Max({a, b})  OBVIOUS
<1>5. m \in {a, b} /\ m >= a  BY <1>4, MaxOfTwo
<1>6. m \in LockEnds
  <2>1. b <= Horizon + Cooldown + 1  BY <1>1, <1>3
  <2>2. m \in Int /\ 0 <= m /\ m <= Horizon + Cooldown + 1  BY <1>2, <1>3, <1>5, <2>1
  <2> QED  BY <1>1, <2>2 DEF LockEnds
<1>7. lock_end' = [lock_end EXCEPT ![side] = m]
  BY <1>2, <1>3, <1>4 DEF Locking
<1> QED  BY <1>6, <1>7

Exits(n) == [Sides -> [handled : -1..n, sold : -1..n, locked : BOOLEAN, cooled : BOOLEAN]]

AccountTyped ==
    /\ lock_end \in [Sides \union {Both} -> LockEnds]
    /\ position \in Sides \union {NoSide} /\ sold \in -1..now
    /\ last_exit \in Exits(now)
    /\ trades \in 0..MaxTrades
    /\ pc # "refresh" => trades < MaxTrades

\* Time does not take a record's type away.
LEMMA ExitsLast ==
  ASSUME NEW n \in Int, NEW k \in Int, n <= k, NEW e \in Exits(n)
  PROVE  e \in Exits(k)
<1>1. \A x \in -1..n : x \in -1..k  OBVIOUS
<1>2. ASSUME NEW s \in Sides
      PROVE  e[s] \in [handled : -1..k, sold : -1..k, locked : BOOLEAN, cooled : BOOLEAN]
  <2>1. e[s] \in [handled : -1..n, sold : -1..n, locked : BOOLEAN, cooled : BOOLEAN]
    BY DEF Exits
  <2> QED  BY <1>1, <2>1
<1> QED  BY <1>2 DEF Exits

LEMMA ExitNoted ==
  ASSUME NEW n, NEW e \in Exits(n), NEW s \in Sides, NEW x \in -1..n, NEW y \in -1..n,
         NEW a \in BOOLEAN, NEW b \in BOOLEAN
  PROVE  [e EXCEPT ![s] = [handled |-> x, sold |-> y, locked |-> a, cooled |-> b]] \in Exits(n)
BY DEF Exits

LEMMA AccountKept ==
  ASSUME LockInv, CacheInv, [Next]_vars
  PROVE  AccountTyped'
<1> USE TimesAssumption
<1>1. /\ now \in Int /\ now' \in Int /\ now <= now' /\ 1 <= now /\ now <= Horizon
      /\ Horizon \in Int /\ Cooldown \in Int /\ Cooldown >= 0 /\ MaxTrades \in Nat
  <2>1. 1 <= now /\ now <= Horizon  BY DEF CacheInv, TypeOK
  <2> QED  BY <2>1, ClockStep
<1>2. AccountTyped
  BY DEF CacheInv, TypeOK, AccountTyped, LockEnds, Exits
<1>3. CASE /\ lock_end' = lock_end /\ position' = position /\ last_exit' = last_exit
           /\ sold' \in {sold, now} /\ trades' = trades
           /\ pc' # "refresh" => trades < MaxTrades
  <2>1. sold' \in -1..now'  BY <1>1, <1>2, <1>3 DEF AccountTyped
  <2>2. last_exit \in Exits(now')  BY <1>1, <1>2, ExitsLast DEF AccountTyped
  <2> QED  BY <1>2, <1>3, <2>1, <2>2 DEF AccountTyped
<1>4. CASE Tick \/ FeedMessage \/ FeedStops \/ Sell
  BY <1>2, <1>3, <1>4 DEF Tick, FeedMessage, FeedStops, Sell, account, AccountTyped
<1>5. CASE Refresh
  BY <1>3, <1>5 DEF Refresh, BuildCoroutine, account
<1>6. CASE FetchRest \/ FetchFeed \/ FetchFails \/ Analyze \/ AnalyzeFails \/ NoExits
  BY <1>2, <1>3, <1>6
     DEF FetchRest, FetchFeed, FetchFails, Analyze, AnalyzeFails, NoExits, account, AccountTyped
<1>7. CASE NoEntry \/ Crash
  BY <1>3, <1>7 DEF NoEntry, Crash, Restarted, account
<1>8. CASE CloseTrade
  <2>1. /\ now' = now /\ lock_end' = lock_end /\ trades' = trades /\ trades < MaxTrades
        /\ position' = NoSide /\ sold' = None /\ sold # None
    BY <1>2, <1>8 DEF CloseTrade, clock, AccountTyped
  <2>2. position \in Sides /\ now \in -1..now /\ sold \in -1..now
    BY <1>1, <1>2, <2>1 DEF LockInv, AccountTyped
  <2>3. last_exit' \in Exits(now)
    <3>1. last_exit' = [last_exit EXCEPT ![position] =
            [handled |-> now, sold |-> sold, locked |-> FALSE, cooled |-> FALSE]]
      BY <1>8 DEF CloseTrade
    <3>2. FALSE \in BOOLEAN /\ last_exit \in Exits(now)  BY <1>2 DEF AccountTyped
    <3> QED  BY <2>2, <3>1, <3>2, ExitNoted
  <2>4. None \in -1..now  BY <1>1 DEF None
  <2> QED  BY <1>2, <2>1, <2>3, <2>4 DEF AccountTyped
<1>9. ASSUME AutoLock \/ Protect \/ ProtectDies
      PROVE  /\ now' = now /\ position' = position /\ sold' = sold /\ trades' = trades
             /\ trades < MaxTrades
             /\ job.kind \in Sides /\ job.at \in Int /\ job.at <= now
             /\ last_exit[job.kind] \in
                  [handled : -1..now, sold : -1..now, locked : BOOLEAN, cooled : BOOLEAN]
  <2>1. pc \in {"lock", "protect"}  BY <1>9 DEF AutoLock, Protect, ProtectDies
  <2>2. job.kind \in Sides /\ job.at \in Int /\ job.at = last_exit[job.kind].sold
    BY <2>1 DEF LockInv, ExitInHand
  <2>3. last_exit[job.kind] \in
          [handled : -1..now, sold : -1..now, locked : BOOLEAN, cooled : BOOLEAN]
    BY <1>2, <2>2 DEF AccountTyped, Exits
  <2>4. job.at <= now  BY <1>1, <2>2, <2>3
  <2>5. trades < MaxTrades  BY <1>2, <2>1 DEF AccountTyped
  <2> QED  BY <1>9, <2>2, <2>3, <2>4, <2>5 DEF AutoLock, Protect, ProtectDies, clock
<1>10. CASE AutoLock
  <2>1. lock_end' = Locking(job.kind, now) /\ now \in Int /\ now <= Horizon + Cooldown
    BY <1>1, <1>10 DEF AutoLock
  <2>2. lock_end \in [Sides \union {Both} -> LockEnds] /\ job.kind \in Sides \union {Both}
    BY <1>2, <1>9, <1>10 DEF AccountTyped
  <2>3. lock_end' \in [Sides \union {Both} -> LockEnds]  BY <2>1, <2>2, LockingTyped
  <2>4. last_exit' \in Exits(now)
    <3>1. PICK r : r = last_exit[job.kind]  OBVIOUS
    <3>2. r \in [handled : -1..now, sold : -1..now, locked : BOOLEAN, cooled : BOOLEAN]
      BY <1>9, <1>10, <3>1
    <3>3. /\ [r EXCEPT !.handled = now, !.locked = TRUE]
               = [handled |-> now, sold |-> r.sold, locked |-> TRUE, cooled |-> r.cooled]
          /\ r.sold \in -1..now /\ r.cooled \in BOOLEAN
      <4>1. PICK b : b = [r EXCEPT !.handled = now, !.locked = TRUE]  OBVIOUS
      <4>2. PICK S : S = -1..now  OBVIOUS
      <4>3. r \in [handled : S, sold : S, locked : BOOLEAN, cooled : BOOLEAN] /\ now \in S
        BY <1>1, <3>2, <4>2
      <4>4. /\ b \in [handled : S, sold : S, locked : BOOLEAN, cooled : BOOLEAN]
            /\ b.handled = now /\ b.sold = r.sold /\ b.locked = TRUE /\ b.cooled = r.cooled
        BY <4>1, <4>3
      <4>5. b = [handled |-> now, sold |-> r.sold, locked |-> TRUE, cooled |-> r.cooled]
        BY <4>4
      <4>6. r.sold \in S /\ r.cooled \in BOOLEAN  BY <4>3
      <4> QED  BY <4>1, <4>2, <4>5, <4>6
    <3>4. last_exit' = [last_exit EXCEPT ![job.kind] = [r EXCEPT !.handled = now, !.locked = TRUE]]
      BY <1>10, <3>1 DEF AutoLock
    <3>5. last_exit' = [last_exit EXCEPT ![job.kind] =
            [handled |-> now, sold |-> r.sold, locked |-> TRUE, cooled |-> r.cooled]]
      BY <3>3, <3>4
    <3>6. now \in -1..now /\ last_exit \in Exits(now) /\ job.kind \in Sides
      BY <1>1, <1>2, <1>9, <1>10 DEF AccountTyped
    <3> QED  BY <3>3, <3>5, <3>6, ExitNoted
  <2> QED  BY <1>2, <1>9, <1>10, <2>3, <2>4 DEF AccountTyped
<1>11. ASSUME NEW found \in BOOLEAN, AutoLock \/ Protect \/ ProtectDies
       PROVE  Noted(found) \in Exits(now)
  <2>1. PICK r : r = last_exit[job.kind]  OBVIOUS
  <2>2. r \in [handled : -1..now, sold : -1..now, locked : BOOLEAN, cooled : BOOLEAN]
    BY <1>9, <1>11, <2>1
  <2>3. /\ [r EXCEPT !.cooled = found]
             = [handled |-> r.handled, sold |-> r.sold, locked |-> r.locked, cooled |-> found]
        /\ r.handled \in -1..now /\ r.sold \in -1..now /\ r.locked \in BOOLEAN
    BY <2>2
  <2>4. Noted(found) = [last_exit EXCEPT ![job.kind] =
          [handled |-> r.handled, sold |-> r.sold, locked |-> r.locked, cooled |-> found]]
    BY <2>1, <2>3 DEF Noted
  <2>5. last_exit \in Exits(now) /\ job.kind \in Sides  BY <1>2, <1>9, <1>11 DEF AccountTyped
  <2>6. [last_exit EXCEPT ![job.kind] =
          [handled |-> r.handled, sold |-> r.sold, locked |-> r.locked, cooled |-> found]]
            \in Exits(now)
    <3>1. r.handled \in -1..now /\ r.sold \in -1..now /\ r.locked \in BOOLEAN  BY <2>3
    <3>2. found \in BOOLEAN  BY <1>11
    <3> QED  BY <2>5, <3>1, <3>2, ExitNoted
  <2> QED  BY <2>4, <2>6, Zenon
<1>12. CASE Protect
  <2>1. PICK due : due = (now - job.at < Lookback)  OBVIOUS
  <2>2. due \in BOOLEAN  BY <2>1
  <2>3. lock_end' = lock_end /\ last_exit' = Noted(due)  BY <1>12, <2>1 DEF Protect
  <2>4. last_exit' \in Exits(now)  BY <1>11, <1>12, <2>2, <2>3
  <2> QED  BY <1>2, <1>9, <1>12, <2>3, <2>4 DEF AccountTyped
<1>13. CASE ProtectDies
  <2>1. lock_end' = Locking(Both, job.at + Cooldown) /\ last_exit' = Noted(TRUE)
    BY <1>13 DEF ProtectDies, CooldownEnd
  <2>2. job.at + Cooldown \in Int /\ job.at + Cooldown <= Horizon + Cooldown
    BY <1>1, <1>9, <1>13
  <2>3. lock_end \in [Sides \union {Both} -> LockEnds] /\ Both \in Sides \union {Both}
    BY <1>2 DEF AccountTyped
  <2>4. lock_end' \in [Sides \union {Both} -> LockEnds]  BY <2>1, <2>2, <2>3, LockingTyped
  <2>5. last_exit' \in Exits(now)  BY <1>11, <1>13, <2>1
  <2> QED  BY <1>2, <1>9, <1>13, <2>4, <2>5 DEF AccountTyped
<1>14. CASE Enter
  <2>1. /\ now' = now /\ lock_end' = lock_end /\ last_exit' = last_exit /\ sold' = sold
        /\ position' \in Sides \union {NoSide} /\ pc' = "refresh" /\ trades' = trades + 1
        /\ pc = "enter"
    BY <1>14 DEF Enter, clock, LockInv
  <2>2. trades' \in 0..MaxTrades  BY <1>1, <1>2, <2>1 DEF AccountTyped
  <2> QED  BY <1>2, <2>1, <2>2 DEF AccountTyped
<1>15. CASE UNCHANGED vars
  BY <1>2, <1>3, <1>15 DEF vars, account, AccountTyped
<1> QED  BY <1>4, <1>5, <1>6, <1>7, <1>8, <1>10, <1>12, <1>13, <1>14, <1>15 DEF Next

LEMMA ControlKept ==
  ASSUME CacheInv, [Next]_vars
  PROVE  /\ active' \in BOOLEAN
         /\ pc' \in {"refresh", "fetch", "analyze", "exits", "lock", "protect", "enter"}
<1>1. /\ active \in BOOLEAN
      /\ pc \in {"refresh", "fetch", "analyze", "exits", "lock", "protect", "enter"}
  BY DEF CacheInv, TypeOK
<1>2. CASE Tick \/ FeedMessage \/ FeedStops \/ Sell
  BY <1>1, <1>2 DEF Tick, FeedMessage, FeedStops, Sell
<1>3. CASE Refresh
  <2>1. active' \in BOOLEAN  BY <1>3 DEF Refresh
  <2>2. pc' \in {"fetch", "analyze", "exits"}  BY <1>3 DEF Refresh, BuildCoroutine
  <2> QED  BY <2>1, <2>2
<1>4. CASE FetchRest \/ FetchFeed \/ FetchFails \/ Analyze \/ AnalyzeFails \/ NoExits
  BY <1>1, <1>4 DEF FetchRest, FetchFeed, FetchFails, Analyze, AnalyzeFails, NoExits
<1>5. CASE CloseTrade \/ AutoLock \/ Protect \/ ProtectDies \/ Enter \/ NoEntry \/ Crash
  BY <1>1, <1>5
     DEF CloseTrade, AutoLock, Protect, ProtectDies, Enter, NoEntry, Crash, Restarted
<1>6. CASE UNCHANGED vars  BY <1>1, <1>6 DEF vars
<1> QED  BY <1>2, <1>3, <1>4, <1>5, <1>6 DEF Next

LEMMA CacheInvInit == Init => CacheInv
<1> SUFFICES ASSUME Init PROVE CacheInv  OBVIOUS
<1> USE TimesAssumption
<1>1. Held = {} /\ pc = "refresh" /\ trades = 0 /\ feed = NoFeed /\ now = Start
  BY DEF Init, Held, Empty
<1>2. now \in Int /\ 1 <= now /\ now \in Start..Horizon  BY <1>1
<1>3. FeedTyped  BY <1>1 DEF Init, FeedTyped
<1>4. MemoryTyped /\ analyzed.upto < now
  BY <1>2 DEF Init, MemoryTyped, Blank, None, Content
<1>5. lock_end \in [Sides \union {Both} -> LockEnds]
  <2>1. 0 \in LockEnds  BY DEF LockEnds
  <2> QED  BY <2>1 DEF Init
<1>6. last_exit \in Exits(now)
  <2>1. -1 \in -1..now  BY <1>2
  <2> QED  BY <2>1 DEF Init, Exits, NoExit, None
<1>7. /\ position \in Sides \union {NoSide} /\ sold \in -1..now /\ trades \in 0..MaxTrades
      /\ last_refresh \in -1..now /\ active \in BOOLEAN
  <2>1. /\ sold = -1 /\ last_refresh = -1 /\ trades = 0 /\ active = FALSE
        /\ position \in Sides \union {NoSide}
    BY DEF Init, None
  <2>2. -1 \in -1..now /\ 0 \in 0..MaxTrades  BY <1>2
  <2> QED  BY <2>1, <2>2
<1>8. untraded \subseteq 1..Horizon /\ enable_ws \in BOOLEAN  BY DEF Init
<1>9. TypeOK
  BY <1>1, <1>2, <1>3, <1>4, <1>5, <1>6, <1>7, <1>8
     DEF TypeOK, FeedTyped, MemoryTyped, LockEnds, Exits
<1>10. Feeding /\ Solid /\ Downloading  BY <1>1 DEF Feeding, Solid, Downloading
<1>11. FromReplies  BY <1>1 DEF FromReplies, Init, Blank
<1> QED  BY <1>1, <1>4, <1>9, <1>10, <1>11 DEF CacheInv

LEMMA CacheInvStep == LockInv /\ CacheInv /\ [Next]_vars => CacheInv'
<1> SUFFICES ASSUME LockInv, CacheInv, [Next]_vars PROVE CacheInv'  OBVIOUS
<1>1. now' \in Start..Horizon /\ untraded' \subseteq 1..Horizon /\ enable_ws' \in BOOLEAN
  BY ClockStep
<1>2. /\ Solid' /\ Held' \subseteq 0..now' /\ last_refresh' \in -1..now'
      /\ \A t \in Held' : klines'[t] \in Content
  BY CacheKept
<1>3. FeedTyped' /\ Feeding'  BY FeedKept
<1>4. Downloading'  BY DownloadKept
<1>5. MemoryTyped' /\ analyzed'.upto < now'  BY MemoryKept
<1>6. ~enable_ws' => FromReplies'  BY RepliesKept
<1>7. AccountTyped'  BY AccountKept
<1>8. /\ active' \in BOOLEAN
      /\ pc' \in {"refresh", "fetch", "analyze", "exits", "lock", "protect", "enter"}
  BY ControlKept
<1>9. TypeOK'
  BY <1>1, <1>2, <1>3, <1>5, <1>7, <1>8
     DEF TypeOK, FeedTyped, MemoryTyped, AccountTyped, LockEnds, Exits
<1>10. pc' # "refresh" => trades' < MaxTrades  BY <1>7 DEF AccountTyped
<1> QED  BY <1>2, <1>3, <1>4, <1>5, <1>6, <1>9, <1>10 DEF CacheInv

\* A cache without holes that is as new as its last refresh is current.
LEMMA CacheInvHolds == CacheInv => NoFabricated
<1> SUFFICES ASSUME CacheInv PROVE NoFabricated  OBVIOUS
<1>1. now \in Int /\ Held \subseteq 0..now /\ last_refresh \in Int
  BY TimesAssumption DEF CacheInv, TypeOK
<1>2. ASSUME ~TimeToRefresh, NEW v \in Min(Held)..(now - 1) PROVE v \in Held
  <2>1. Held # {} /\ ~ (last_refresh + 1 < now)  BY <1>2 DEF TimeToRefresh
  <2>2. PICK t \in Held : last_refresh <= t  BY <2>1 DEF CacheInv, Solid
  <2>3. t \in Int /\ t < now  BY <1>1 DEF CacheInv, Solid
  <2>4. t = now - 1  BY <1>1, <2>1, <2>2, <2>3
  <2>5. Min(Held) \in Held
    <3>1. \A x \in Held : x \in Int /\ 0 <= x  BY <1>1
    <3>2. 0 \in Int  OBVIOUS
    <3> QED  BY <2>1, <3>1, <3>2, MinExists
  <2> QED  BY <1>2, <2>4, <2>5 DEF CacheInv, Solid
<1>3. CacheIsCurrent  BY <1>2 DEF CacheIsCurrent
<1>4. ASSUME ~enable_ws, NEW t \in Held, klines[t] = "filled" PROVE t \in untraded
  BY <1>4 DEF CacheInv, FromReplies, Genuine
<1> QED  BY <1>3, <1>4 DEF NoFabricated, CacheInv

LEMMA ClosedStep ==
  CacheInv /\ [Next]_vars
    => (Entering => IF enable_ws THEN analyzed.upto < now ELSE analyzed.content = "final")
BY DEF CacheInv, FromReplies

-----------------------------------------------------------------------------
\* Every exit that is remembered as locked or cooled down has a lock that lasts
\* as long, in every reachable state: restarts, failed downloads and late
\* exits included (handle_protections, stop_per_pair).
THEOREM LocksLast == Spec => []LockInv
BY InitLocks, LocksKept, PTL DEF Spec

\* No entry on a side uses a candle that had closed before the last exit of
\* that side was locked ("Lock pair for one candle to prevent immediate
\* re-entries").
THEOREM NoReentry == Spec => NoReentryOnOldSignal
BY LocksLast, NoReentryStep, PTL DEF NoReentryOnOldSignal, Spec

\* No entry uses a candle that closed before the cooldown of an exit was over
\* (CooldownPeriod).
THEOREM Cooldowns == Spec => CooldownHolds
BY LocksLast, CooldownStep, PTL DEF CooldownHolds, Spec

\* What is cached, downloaded and analyzed stays as CacheInv says.
LEMMA CacheStays == Spec => []CacheInv
BY CacheInvInit, CacheInvStep, LocksLast, PTL DEF Spec

\* Every variable keeps its type, a cache that is taken for current holds every
\* candle that has closed, and without a feed no candle that was traded is
\* replaced by a made-up one, whatever was skipped, failed, late or lost in a
\* restart (_now_is_time_to_refresh, _build_coroutine, _process_ohlcv_df).
THEOREM NoneFabricated == Spec => []NoFabricated
BY CacheStays, CacheInvHolds, PTL

\* Entries use closed candles only, and without a feed their final values
\* (create_trade).
THEOREM SignalsClosed == Spec => ClosedSignals
BY CacheStays, ClosedStep, PTL DEF ClosedSignals, Spec

-----------------------------------------------------------------------------
(* How much is staked *)

ConfigOK == config \in [capital : Capitals, stake : Stakes, amend : BOOLEAN]

BalanceSeen == disturbed \/ wallet <= free

OrderOK(p) ==
    /\ order[p].kind = "none" => ~order[p].live
    /\ order[p].kind = "exit" /\ order[p].live => order[p].left <= coins[p]

\* What a trade holds and its entry may still buy.
UsedBy(c, o, p) == c[p] + (IF o[p].kind # "exit" /\ o[p].live THEN o[p].left ELSE 0)

Covered(p) ==
    IF trade[p].open THEN order[p].kind # "adjust" => UsedBy(coins, order, p) <= trade[p].stake
    ELSE coins[p] = 0 /\ order[p].kind = "none"

PlanOK ==
    phase # "idle" =>
        /\ plan.pair \in Pairs /\ order[plan.pair].kind = "none"
        /\ plan.adjust <=> trade[plan.pair].open
        /\ entries < MaxEntries

StakesOf == [p \in Pairs |-> trade[p].stake]
Tied == SumOver(StakesOf, Open)

\* What get_total_stake_amount allows the open trades and a stake s together.
Room(s) ==
    IF config.capital # NotSet THEN Tied + s <= config.capital + profit
    ELSE (Tied + s) * RatioDen <= (Tied + wallet) * RatioNum

WithinMeans ==
    phase = "create" => plan.stake > 0 /\ plan.stake <= wallet /\ Room(plan.stake)

Rows == \A p \in Pairs : OrderOK(p) /\ Covered(p)

SInv == StakesTyped /\ ConfigOK /\ BalanceSeen /\ Rows /\ PlanOK /\ WithinMeans

-----------------------------------------------------------------------------
(* Sums and quotients                                                       *)

LEMMA TiedIsSum ==
  ASSUME StakesTyped
  PROVE  TiedUp = Tied /\ Tied \in Nat
  <1> DEFINE Eq(g) == g = [T \in SUBSET Open |->
               IF T = {} THEN 0
               ELSE LET x == CHOOSE x \in T : TRUE IN trade[x].stake + g[T \ {x}]]
  <1>1. IsFiniteSet(Open) /\ \A p \in Open : StakesOf[p] \in Nat
    BY PairsAssumption, FS_Subset DEF Open, StakesTyped, StakesOf
  <1>2. Summable(StakesOf, Open) /\ Tied \in Nat  BY <1>1, SumNat DEF Tied
  <1>3. \A g : Eq(g) <=> Adds(g, StakesOf, Open)
    <2>1. \A T \in SUBSET Open : T # {} => Pick(T) \in Pairs  BY DEF Pick, Open
    <2>2. \A T \in SUBSET Open : T # {} => StakesOf[Pick(T)] = trade[CHOOSE x \in T : TRUE].stake
      BY <2>1 DEF Pick, StakesOf
    <2> QED  BY <2>2 DEF Adds, Pick
  <1>4. \E g : Eq(g)
    <2> HIDE DEF Eq
    <2> QED  BY <1>2, <1>3, SumExists
  <1>5. Adds(CHOOSE g : Eq(g), StakesOf, Open)  BY <1>3, <1>4
  <1>6. TiedUp = (CHOOSE g : Eq(g))[Open]
    BY DEF TiedUp, MapThenSumSet, MapThenFoldSet
  <1> HIDE DEF Eq
  <1> QED  BY <1>2, <1>5, <1>6, SumIs DEF Tied

UsesOf(c, o) == [p \in Pairs |-> UsedBy(c, o, p)]

Orders == [Pairs -> [kind : {"none", "entry", "adjust", "exit"}, left : Nat,
                     live : BOOLEAN, gain : Int]]

LEMMA UsesTyped ==
  ASSUME NEW c \in [Pairs -> Nat], NEW o \in Orders
  PROVE  Summable(UsesOf(c, o), Pairs) /\ SumOver(UsesOf(c, o), Pairs) \in Nat
  <1>1. \A p \in Pairs : UsesOf(c, o)[p] \in Nat  BY DEF UsesOf, UsedBy, Orders
  <1> QED  BY <1>1, PairsAssumption, SumNat

LEMMA CommittedIsSum ==
  ASSUME NEW c \in [Pairs -> Nat], NEW o \in Orders
  PROVE  MapThenSumSet(LAMBDA p : c[p] + (IF o[p].kind # "exit" /\ o[p].live
                                          THEN o[p].left ELSE 0), Pairs)
           = SumOver(UsesOf(c, o), Pairs)
  <1> DEFINE f == UsesOf(c, o)
  <1> DEFINE Eq(g) == g = [T \in SUBSET Pairs |->
               IF T = {} THEN 0
               ELSE LET x == CHOOSE x \in T : TRUE
                    IN (c[x] + (IF o[x].kind # "exit" /\ o[x].live THEN o[x].left ELSE 0))
                         + g[T \ {x}]]
  <1>1. Summable(f, Pairs)  BY UsesTyped
  <1>2. \A g : Eq(g) <=> Adds(g, f, Pairs)
    <2>1. \A T \in SUBSET Pairs : T # {} => Pick(T) \in Pairs  BY DEF Pick
    <2>2. \A T \in SUBSET Pairs : T # {} =>
            f[Pick(T)] = c[CHOOSE x \in T : TRUE] + (IF o[CHOOSE x \in T : TRUE].kind # "exit"
                /\ o[CHOOSE x \in T : TRUE].live THEN o[CHOOSE x \in T : TRUE].left ELSE 0)
      BY <2>1 DEF Pick, UsesOf, UsedBy
    <2> HIDE DEF f
    <2> QED  BY <2>2 DEF Adds, Pick
  <1>3. \E g : Eq(g)
    <2> HIDE DEF Eq, f
    <2> QED  BY <1>1, <1>2, SumExists
  <1>4. Adds(CHOOSE g : Eq(g), f, Pairs)  BY <1>2, <1>3
  <1>5. MapThenSumSet(LAMBDA p : c[p] + (IF o[p].kind # "exit" /\ o[p].live
                                         THEN o[p].left ELSE 0), Pairs)
          = (CHOOSE g : Eq(g))[Pairs]
    BY DEF MapThenSumSet, MapThenFoldSet
  <1> HIDE DEF Eq, f
  <1> QED  BY <1>1, <1>4, <1>5, SumIs DEF f

LEMMA MinOfTwo ==
  ASSUME NEW a \in Int, NEW b \in Int
  PROVE  Min({a, b}) = IF a <= b THEN a ELSE b
  <1> DEFINE m == IF a <= b THEN a ELSE b
  <1>1. m \in {a, b} /\ \A x \in {a, b} : m <= x /\ x \in Int  OBVIOUS
  <1> HIDE DEF m
  <1>2. Min({a, b}) = m  BY <1>1, MinIs
  <1> QED  BY <1>2 DEF m

LEMMA LargerOfTwo ==
  ASSUME NEW a \in Int, NEW b \in Int
  PROVE  Max({a, b}) = IF a <= b THEN b ELSE a
  <1> DEFINE m == IF a <= b THEN b ELSE a
  <1>1. m \in {a, b} /\ \A x \in {a, b} : x <= m /\ x \in Int  OBVIOUS
  <1> HIDE DEF m
  <1>2. Max({a, b}) = m  BY <1>1, MaxIs
  <1> QED  BY <1>2 DEF m

LEMMA Quotient ==
  ASSUME NEW a \in Int, NEW b \in Nat \ {0}
  PROVE  a \div b \in Int /\ (a \div b) * b <= a
  OBVIOUS

-----------------------------------------------------------------------------
(* What a stake is computed from                                            *)

LEMMA MeansTyped ==
  ASSUME StakesTyped, ConfigOK
  PROVE  /\ TotalStake \in Int /\ AvailableStake \in Int
         /\ AvailableStake <= wallet /\ AvailableStake <= TotalStake - Tied
         /\ config.capital \in Nat /\ config.stake \in Nat /\ config.amend \in BOOLEAN
<1>1. TiedUp = Tied /\ Tied \in Nat  BY TiedIsSum
<1>2. config.capital \in Nat /\ config.stake \in Nat /\ config.amend \in BOOLEAN
  BY AmountsAssumption DEF ConfigOK
<1>3. wallet \in Nat /\ profit \in Int  BY DEF StakesTyped
<1>4. ((Tied + wallet) * RatioNum) \div RatioDen \in Int
  <2>1. (Tied + wallet) * RatioNum \in Int /\ RatioDen \in Nat \ {0}
    BY <1>1, <1>3, RatiosAssumption
  <2> QED  BY <2>1, Quotient
<1>5. TotalStake \in Int  BY <1>1, <1>2, <1>3, <1>4 DEF TotalStake
<1>6. TotalStake - TiedUp \in Int  BY <1>1, <1>5
<1>7. AvailableStake = IF TotalStake - TiedUp <= wallet THEN TotalStake - TiedUp ELSE wallet
  BY <1>3, <1>6, MinOfTwo DEF AvailableStake
<1> QED  BY <1>1, <1>2, <1>3, <1>5, <1>6, <1>7

LEMMA RoomFor ==
  ASSUME StakesTyped, ConfigOK, NEW s \in Nat, s <= AvailableStake
  PROVE  s <= wallet /\ Room(s)
<1>1. /\ TotalStake \in Int /\ AvailableStake \in Int /\ config.capital \in Nat
      /\ AvailableStake <= wallet /\ AvailableStake <= TotalStake - Tied
  BY MeansTyped
<1>2. TiedUp = Tied /\ Tied \in Nat  BY TiedIsSum
<1>3. wallet \in Nat /\ profit \in Int  BY DEF StakesTyped
<1>4. s <= wallet /\ Tied + s <= TotalStake  BY <1>1, <1>2, <1>3
<1>5. CASE config.capital # NotSet
  <2>1. TotalStake = config.capital + profit  BY <1>5 DEF TotalStake
  <2> QED  BY <1>4, <1>5, <2>1 DEF Room
<1>6. CASE config.capital = NotSet
  <2> DEFINE a == (Tied + wallet) * RatioNum
  <2>1. a \in Int /\ RatioDen \in Nat \ {0}  BY <1>2, <1>3, RatiosAssumption
  <2>2. TotalStake = a \div RatioDen  BY <1>2, <1>6 DEF TotalStake
  <2> HIDE DEF a
  <2>3. TotalStake * RatioDen <= a  BY <2>1, <2>2, Quotient
  <2>4. \A x, y \in Int, d \in Nat : x <= y => x * d <= y * d  OBVIOUS
  <2>5. (Tied + s) * RatioDen <= TotalStake * RatioDen  BY <1>1, <1>2, <1>4, <2>1, <2>4
  <2>6. (Tied + s) * RatioDen \in Int /\ TotalStake * RatioDen \in Int  BY <1>1, <1>2, <2>1
  <2>7. (Tied + s) * RatioDen <= a  BY <2>1, <2>3, <2>5, <2>6
  <2> QED  BY <1>4, <1>6, <2>7 DEF Room, a
<1> QED  BY <1>5, <1>6

\* validate_stake_amount gives up or keeps within what is available.
LEMMA ValidatedFits ==
  ASSUME StakesTyped, ConfigOK, NEW asked \in Nat, NEW held \in Nat,
         NEW s, s = Validated(asked, held), s # 0
  PROVE  s \in Nat /\ s > 0 /\ s <= AvailableStake
<1> DEFINE allowed == Min({MaxStake - held, AvailableStake})
<1>1. AvailableStake \in Int  BY MeansTyped
<1>2. MaxStake - held \in Int /\ MinStake \in Nat \ {0}  BY AmountsAssumption
<1>3. allowed \in Int /\ allowed <= AvailableStake  BY <1>1, <1>2, MinOfTwo
<1>4. Max({asked, MinStake}) \in Nat /\ Max({asked, MinStake}) >= MinStake
  BY <1>2, LargerOfTwo
<1>5. MinStake <= allowed /\ s = Min({Max({asked, MinStake}), allowed})
  <2> HIDE DEF allowed
  <2>1. s = IF asked = 0 \/ MinStake > allowed \/ (asked < MinStake /\ 13 * asked < 10 * MinStake)
            THEN 0 ELSE Min({Max({asked, MinStake}), allowed})
    BY DEF Validated, allowed
  <2> QED  BY <1>2, <1>3, <2>1
<1> DEFINE top == Max({asked, MinStake})
<1> HIDE DEF allowed, top
<1>6. Min({top, allowed}) = IF top <= allowed THEN top ELSE allowed
  <2>1. top \in Int  BY <1>4 DEF top
  <2> QED  BY <1>3, <2>1, MinOfTwo, Zenon
<1>7. s = Min({top, allowed})  BY <1>5 DEF top
<1> QED  BY <1>1, <1>2, <1>3, <1>4, <1>5, <1>6, <1>7 DEF top

\* get_trade_stake_amount never asks for a negative amount.
LEMMA TradeStakeTyped ==
  ASSUME StakesTyped, ConfigOK
  PROVE  TradeStake \in Nat
<1> DEFINE available == AvailableStake
<1> DEFINE wanted == IF config.stake # Unlimited THEN config.stake
                     ELSE IF MaxOpen = 0 THEN 0
                     ELSE Min({(available + TiedUp) \div MaxOpen, available})
<1> DEFINE amended == IF ~config.amend THEN wanted
                      ELSE IF available * LastDen > wanted * LastNum THEN Min({wanted, available})
                      ELSE 0
<1>1. available \in Int /\ config.stake \in Nat  BY MeansTyped
<1>2. wanted \in Int
  <2>1. CASE MaxOpen # 0
    <3>1. available + TiedUp \in Int /\ MaxOpen \in Nat \ {0}
      BY <1>1, <2>1, TiedIsSum, BoundsAssumption
    <3> HIDE DEF available
    <3>2. (available + TiedUp) \div MaxOpen \in Int  BY <3>1, Quotient
    <3>3. Min({(available + TiedUp) \div MaxOpen, available}) \in Int
      BY <1>1, <3>2, MinOfTwo
    <3> QED  BY <1>1, <2>1, <3>3
  <2>2. CASE MaxOpen = 0  BY <1>1, <2>2
  <2> QED  BY <2>1, <2>2
<1> HIDE DEF available, wanted
<1>3. amended \in Int
  <2>1. Min({wanted, available}) \in Int  BY <1>1, <1>2, MinOfTwo
  <2> QED  BY <1>2, <2>1
<1> HIDE DEF amended
<1>4. Max({amended, 0}) \in Nat  BY <1>3, LargerOfTwo
<1>5. TradeStake = IF available < amended THEN 0 ELSE Max({amended, 0})
  BY DEF TradeStake, available, wanted, amended
<1> QED  BY <1>4, <1>5

-----------------------------------------------------------------------------
(* The steps                                                                *)

\* Nothing an entry was computed from changes before it is made.
LEMMA MeansStay ==
  ASSUME WithinMeans, UNCHANGED <<config, books, plan, phase>>
  PROVE  WithinMeans'
<1>1. StakesOf' = StakesOf /\ Open' = Open  BY DEF StakesOf, Open, books
<1>2. Tied' = Tied  BY <1>1 DEF Tied
<1> QED  BY <1>2 DEF WithinMeans, Room, books

LEMMA EntryFillsStep ==
  ASSUME SInv, NEW p \in Pairs, EntryFills(p)
  PROVE  SInv'
<1>1. UNCHANGED <<config, free, books, plan, phase, disturbed, limits>>  BY DEF EntryFills
<1>2. order[p].live /\ order[p].kind # "exit"  BY DEF EntryFills
<1>3. PICK n \in 1..order[p].left :
        /\ coins' = [coins EXCEPT ![p] = @ + n]
        /\ order' = [order EXCEPT ![p].left = @ - n, ![p].live = n < order[p].left]
  BY DEF EntryFills
<1>4. coins[p] \in Nat /\ order[p].left \in Nat  BY DEF SInv, StakesTyped
<1>5. /\ coins' \in [Pairs -> Nat] /\ coins'[p] = coins[p] + n
      /\ \A q \in Pairs \ {p} : coins'[q] = coins[q]
  BY <1>3, <1>4 DEF SInv, StakesTyped
<1>6. /\ order'[p].kind = order[p].kind /\ order'[p].left = order[p].left - n
      /\ order'[p].live = (n < order[p].left)
      /\ \A q \in Pairs \ {p} : order'[q] = order[q]
  BY <1>3 DEF SInv, StakesTyped
<1>7. order' \in Orders
  <2> DEFINE r == [order[p] EXCEPT !.left = order[p].left - n, !.live = n < order[p].left]
  <2>1. order[p].left - n \in Nat /\ (n < order[p].left) \in BOOLEAN  BY <1>4
  <2>2. order \in Orders  BY DEF SInv, StakesTyped, Orders
  <2>3. order' = [order EXCEPT ![p] = r]  BY <1>3, <2>2 DEF Orders
  <2>4. r \in [kind : {"none", "entry", "adjust", "exit"}, left : Nat, live : BOOLEAN, gain : Int]
    BY <2>1, <2>2 DEF Orders
  <2> HIDE DEF r
  <2> QED  BY <2>2, <2>3, <2>4 DEF Orders
<1>8. StakesTyped'  BY <1>1, <1>5, <1>7 DEF SInv, StakesTyped, books, limits, Orders
<1>9. Rows'
  <2> SUFFICES ASSUME NEW q \in Pairs PROVE OrderOK(q)' /\ Covered(q)'
    BY DEF Rows
  <2>1. OrderOK(q) /\ Covered(q) /\ OrderOK(p) /\ Covered(p)  BY DEF SInv, Rows
  <2>2. trade' = trade  BY <1>1 DEF books
  <2>3. CASE q # p
    <3>1. coins'[q] = coins[q] /\ order'[q] = order[q]  BY <1>5, <1>6, <2>3
    <3> QED  BY <2>1, <2>2, <3>1 DEF OrderOK, Covered, UsedBy
  <2>4. CASE q = p
    <3>1. OrderOK(p)'  BY <1>2, <1>6, <2>1 DEF OrderOK
    <3>2. trade[p].open /\ trade[p].stake \in Nat
      BY <1>2, <2>1 DEF OrderOK, Covered, SInv, StakesTyped
    <3>3. UsedBy(coins, order, p)' <= UsedBy(coins, order, p)
      BY <1>2, <1>4, <1>5, <1>6 DEF UsedBy
    <3>4. UsedBy(coins, order, p)' \in Int /\ UsedBy(coins, order, p) \in Int
      BY <1>2, <1>4, <1>5, <1>6 DEF UsedBy
    <3>5. Covered(p)'
      BY <1>6, <2>1, <2>2, <3>2, <3>3, <3>4 DEF Covered
    <3> QED  BY <2>4, <3>1, <3>5
  <2> QED  BY <2>3, <2>4
<1>10. PlanOK'
  <2>1. \A q \in Pairs : order'[q].kind = order[q].kind  BY <1>6
  <2> QED  BY <1>1, <2>1 DEF SInv, PlanOK, books, limits
<1>11. BalanceSeen' /\ ConfigOK'  BY <1>1 DEF SInv, BalanceSeen, ConfigOK, books
<1>12. WithinMeans'  BY <1>1, MeansStay DEF SInv
<1> QED  BY <1>8, <1>9, <1>10, <1>11, <1>12 DEF SInv

LEMMA ExitFillsStep ==
  ASSUME SInv, NEW p \in Pairs, ExitFills(p)
  PROVE  SInv'
<1>1. UNCHANGED <<config, books, plan, phase, disturbed, limits>>  BY DEF ExitFills
<1>2. order[p].live /\ order[p].kind = "exit"  BY DEF ExitFills
<1>3. PICK n \in 1..order[p].left, gain \in {-1, 0, Gain} :
        /\ free' = free + n + gain
        /\ coins' = [coins EXCEPT ![p] = @ - n]
        /\ order' = [order EXCEPT ![p].left = @ - n, ![p].live = n < order[p].left,
                                  ![p].gain = @ + gain]
  BY DEF ExitFills
<1>4. /\ coins[p] \in Nat /\ order[p].left \in Nat /\ order[p].left <= coins[p]
      /\ order[p].gain \in Int /\ free \in Nat
  BY <1>2 DEF SInv, StakesTyped, Rows, OrderOK
<1>5. n + gain >= 0 /\ n \in Nat /\ gain \in Int  BY <1>4, AmountsAssumption
<1>6. /\ coins' \in [Pairs -> Nat] /\ coins'[p] = coins[p] - n
      /\ \A q \in Pairs \ {p} : coins'[q] = coins[q]
  <2>1. coins[p] - n \in Nat  BY <1>4
  <2> QED  BY <1>3, <2>1 DEF SInv, StakesTyped
<1>7. /\ order'[p].kind = order[p].kind /\ order'[p].left = order[p].left - n
      /\ \A q \in Pairs \ {p} : order'[q] = order[q]
  BY <1>3 DEF SInv, StakesTyped
<1>8. order' \in Orders
  <2> DEFINE r == [order[p] EXCEPT !.left = order[p].left - n, !.live = n < order[p].left,
                                   !.gain = order[p].gain + gain]
  <2>1. /\ order[p].left - n \in Nat /\ (n < order[p].left) \in BOOLEAN
        /\ order[p].gain + gain \in Int
    BY <1>4, <1>5
  <2>2. order \in Orders  BY DEF SInv, StakesTyped, Orders
  <2>3. order' = [order EXCEPT ![p] = r]  BY <1>3, <2>2 DEF Orders
  <2>4. r \in [kind : {"none", "entry", "adjust", "exit"}, left : Nat, live : BOOLEAN, gain : Int]
    BY <2>1, <2>2 DEF Orders
  <2> HIDE DEF r
  <2> QED  BY <2>2, <2>3, <2>4 DEF Orders
<1>9. free' \in Nat /\ free' >= free  BY <1>3, <1>4, <1>5
<1>10. StakesTyped'  BY <1>1, <1>6, <1>8, <1>9 DEF SInv, StakesTyped, books, limits, Orders
<1>11. Rows'
  <2> SUFFICES ASSUME NEW q \in Pairs PROVE OrderOK(q)' /\ Covered(q)'
    BY DEF Rows
  <2>1. OrderOK(q) /\ Covered(q) /\ OrderOK(p) /\ Covered(p)  BY DEF SInv, Rows
  <2>2. trade' = trade  BY <1>1 DEF books
  <2>3. CASE q # p
    <3>1. coins'[q] = coins[q] /\ order'[q] = order[q]  BY <1>6, <1>7, <2>3
    <3> QED  BY <2>1, <2>2, <3>1 DEF OrderOK, Covered, UsedBy
  <2>4. CASE q = p
    <3>1. OrderOK(p)'  BY <1>2, <1>4, <1>6, <1>7, <2>1 DEF OrderOK
    <3>2. trade[p].open /\ trade[p].stake \in Nat /\ coins[p] <= trade[p].stake
      BY <1>2, <1>4, <2>1 DEF Covered, UsedBy, SInv, StakesTyped
    <3>3. UsedBy(coins, order, p)' <= trade[p].stake
      BY <1>2, <1>4, <1>6, <1>7, <3>2 DEF UsedBy
    <3>4. Covered(p)'  BY <2>2, <3>2, <3>3 DEF Covered
    <3> QED  BY <2>4, <3>1, <3>4
  <2> QED  BY <2>3, <2>4
<1>12. PlanOK'
  <2>1. \A q \in Pairs : order'[q].kind = order[q].kind  BY <1>7
  <2> QED  BY <1>1, <2>1 DEF SInv, PlanOK, books, limits
<1>13. BalanceSeen'
  <2>1. wallet \in Nat  BY DEF SInv, StakesTyped
  <2> QED  BY <1>1, <1>4, <1>9, <2>1 DEF SInv, BalanceSeen, books
<1>14. ConfigOK' /\ WithinMeans'  BY <1>1, MeansStay DEF SInv, ConfigOK
<1> QED  BY <1>10, <1>11, <1>12, <1>13, <1>14 DEF SInv

LEMMA OrderEndsStep ==
  ASSUME SInv, NEW p \in Pairs, OrderEnds(p)
  PROVE  SInv'
<1>1. UNCHANGED <<config, coins, books, plan, phase, disturbed, limits>>  BY DEF OrderEnds
<1>2. /\ order[p].live /\ order' = [order EXCEPT ![p].live = FALSE]
      /\ free' = IF order[p].kind = "exit" THEN free ELSE free + order[p].left
  BY DEF OrderEnds
<1>3. /\ order'[p].kind = order[p].kind /\ order'[p].left = order[p].left /\ ~order'[p].live
      /\ \A q \in Pairs \ {p} : order'[q] = order[q]
  BY <1>2 DEF SInv, StakesTyped
<1>4. order' \in Orders  BY ZenonT(60), <1>2 DEF SInv, StakesTyped, Orders
<1>5. free' \in Nat /\ free' >= free
  <2>1. free \in Nat /\ order[p].left \in Nat  BY DEF SInv, StakesTyped
  <2> QED  BY <1>2, <2>1
<1>6. StakesTyped'  BY <1>1, <1>4, <1>5 DEF SInv, StakesTyped, books, limits, Orders
<1>7. Rows'
  <2> SUFFICES ASSUME NEW q \in Pairs PROVE OrderOK(q)' /\ Covered(q)'
    BY DEF Rows
  <2>1. OrderOK(q) /\ Covered(q) /\ coins[q] \in Nat /\ order[q].left \in Nat
    BY DEF SInv, Rows, StakesTyped
  <2>2. trade' = trade /\ coins' = coins  BY <1>1 DEF books
  <2>3. CASE q # p
    <3>1. order'[q] = order[q]  BY <1>3, <2>3
    <3> QED  BY <2>1, <2>2, <3>1 DEF OrderOK, Covered, UsedBy
  <2>4. CASE q = p
    <3>1. OrderOK(p)'  BY <1>3 DEF OrderOK
    <3>2. trade[p].stake \in Nat  BY DEF SInv, StakesTyped
    <3>3. Covered(p)'  BY <1>3, <2>1, <2>2, <2>4, <3>2 DEF Covered, UsedBy
    <3> QED  BY <2>4, <3>1, <3>3
  <2> QED  BY <2>3, <2>4
<1>8. PlanOK'
  <2>1. \A q \in Pairs : order'[q].kind = order[q].kind  BY <1>3
  <2> QED  BY <1>1, <2>1 DEF SInv, PlanOK, books, limits
<1>9. BalanceSeen'
  <2>1. wallet \in Nat /\ free \in Nat  BY DEF SInv, StakesTyped
  <2> QED  BY <1>1, <1>5, <2>1 DEF SInv, BalanceSeen, books
<1>10. ConfigOK' /\ WithinMeans'  BY <1>1, MeansStay DEF SInv, ConfigOK
<1> QED  BY <1>6, <1>7, <1>8, <1>9, <1>10 DEF SInv

LEMMA TransferStep ==
  ASSUME SInv, Deposit \/ Withdraw
  PROVE  SInv'
<1>1. /\ UNCHANGED <<config, coins, order, books, plan, phase, entries>>
      /\ transfers < MaxTransfers /\ transfers' = transfers + 1
  BY DEF Deposit, Withdraw
<1>2. free' \in Nat /\ disturbed' \in BOOLEAN /\ transfers' \in 0..MaxTransfers
  <2>1. free \in Nat /\ disturbed \in BOOLEAN /\ transfers \in 0..MaxTransfers
    BY DEF SInv, StakesTyped
  <2>2. transfers' \in 0..MaxTransfers  BY <1>1, <2>1, BoundsAssumption
  <2>3. CASE Deposit  BY <2>1, <2>2, <2>3 DEF Deposit
  <2>4. CASE Withdraw  BY <2>1, <2>2, <2>4 DEF Withdraw
  <2> QED  BY <2>3, <2>4
<1>3. StakesTyped'  BY <1>1, <1>2 DEF SInv, StakesTyped, books
<1>4. BalanceSeen'
  <2>1. wallet \in Nat /\ free \in Nat /\ wallet' = wallet  BY <1>1 DEF SInv, StakesTyped, books
  <2>2. CASE Deposit  BY <2>1, <2>2 DEF SInv, BalanceSeen, Deposit
  <2>3. CASE Withdraw  BY <2>3 DEF BalanceSeen, Withdraw
  <2> QED  BY <2>2, <2>3
<1>5. Rows'
  BY <1>1 DEF SInv, Rows, OrderOK, Covered, UsedBy, books
<1>6. PlanOK' /\ ConfigOK'  BY <1>1 DEF SInv, PlanOK, ConfigOK, books
<1>7. WithinMeans'  BY <1>1, MeansStay DEF SInv
<1> QED  BY <1>3, <1>4, <1>5, <1>6, <1>7 DEF SInv

\* The bot reads the balance.
LEMMA Synced ==
  ASSUME SInv, free' = free, Sync
  PROVE  BalanceSeen' /\ wallet' \in Nat /\ disturbed' \in BOOLEAN
<1>1. wallet' = free /\ free \in Nat /\ disturbed' = FALSE  BY DEF SInv, StakesTyped, Sync
<1>2. wallet' <= free'  BY <1>1
<1> QED  BY <1>1, <1>2 DEF BalanceSeen

LEMMA BookStep ==
  ASSUME SInv, NEW p \in Pairs, Book(p)
  PROVE  SInv'
<1>1. /\ phase = "idle" /\ order[p].kind # "none" /\ ~order[p].live
      /\ order' = [order EXCEPT ![p] = NoOrder] /\ free' = free /\ Sync
      /\ UNCHANGED <<config, coins, plan, phase, limits>>
  BY DEF Book
<1>2. trade' = [trade EXCEPT ![p] = IF coins[p] = 0 THEN NoTrade ELSE Recalculated(p)]
  BY DEF Book
<1>3. trade[p].open /\ coins[p] \in Nat /\ order[p].gain \in Int
  BY <1>1 DEF SInv, Rows, Covered, StakesTyped
<1> DEFINE Booked == [stake : Nat, realized : Int, open : BOOLEAN]
<1>4. Recalculated(p) \in Booked /\ Recalculated(p).open /\ Recalculated(p).stake = coins[p]
  <2>1. trade[p] \in Booked  BY DEF SInv, StakesTyped
  <2>2. trade[p].realized + order[p].gain \in Int  BY <1>3, <2>1
  <2>3. Recalculated(p) = [trade[p] EXCEPT !.stake = coins[p],
                                           !.realized = trade[p].realized + order[p].gain]
    BY <2>1 DEF Recalculated
  <2> QED  BY <1>3, <2>1, <2>2, <2>3
<1>5. trade' \in [Pairs -> Booked]
  <2>1. NoTrade \in Booked  BY DEF NoTrade
  <2>2. (IF coins[p] = 0 THEN NoTrade ELSE Recalculated(p)) \in Booked  BY <1>4, <2>1
  <2>3. trade \in [Pairs -> Booked]  BY DEF SInv, StakesTyped
  <2> HIDE DEF Booked
  <2> QED  BY <1>2, <2>2, <2>3
<1>6. order' \in Orders
  <2>1. NoOrder \in [kind : {"none", "entry", "adjust", "exit"}, left : Nat,
                     live : BOOLEAN, gain : Int]
    BY DEF NoOrder
  <2> QED  BY <1>1, <2>1 DEF SInv, StakesTyped, Orders
<1>7. profit' \in Int
  <2>1. profit \in Int  BY DEF SInv, StakesTyped
  <2>2. profit + Recalculated(p).realized \in Int  BY <1>4, <2>1
  <2> QED  BY <2>1, <2>2 DEF Book
<1>8. StakesTyped'
  <2>1. UNCHANGED <<coins, plan, phase, entries, transfers, free>>  BY <1>1 DEF limits
  <2>2. wallet' \in Nat /\ disturbed' \in BOOLEAN  BY <1>1, Synced
  <2> QED  BY <1>5, <1>6, <1>7, <2>1, <2>2 DEF SInv, StakesTyped, Orders
<1>9. Rows'
  <2> SUFFICES ASSUME NEW q \in Pairs PROVE OrderOK(q)' /\ Covered(q)'
    BY DEF Rows
  <2>1. OrderOK(q) /\ Covered(q) /\ coins[q] \in Nat /\ coins'[q] = coins[q]
    BY <1>1 DEF SInv, Rows, StakesTyped
  <2>2. CASE q # p
    <3>1. order'[q] = order[q] /\ trade'[q] = trade[q]
      BY <1>1, <1>2, <2>2 DEF SInv, StakesTyped
    <3> QED  BY <2>1, <3>1 DEF OrderOK, Covered, UsedBy
  <2>3. CASE q = p
    <3>1. order'[p] = NoOrder
      BY <1>1 DEF SInv, StakesTyped
    <3>2. trade'[p] = IF coins[p] = 0 THEN NoTrade ELSE Recalculated(p)
      BY <1>2 DEF SInv, StakesTyped
    <3>3. OrderOK(p)'  BY <3>1 DEF OrderOK, NoOrder
    <3>4. CASE coins[p] = 0
      BY <2>1, <2>3, <3>1, <3>2, <3>3, <3>4 DEF Covered, NoTrade, NoOrder
    <3>5. CASE coins[p] # 0
      <4>1. trade'[p].open /\ trade'[p].stake = coins[p]  BY <1>4, <3>2, <3>5
      <4>2. UsedBy(coins, order, p)' = coins[p]
        BY <2>1, <2>3, <3>1 DEF UsedBy, NoOrder
      <4> QED  BY <1>3, <2>3, <3>3, <4>1, <4>2 DEF Covered
    <3> QED  BY <3>4, <3>5
  <2> QED  BY <2>2, <2>3
<1>10. PlanOK' /\ WithinMeans'  BY <1>1 DEF PlanOK, WithinMeans
<1>11. ConfigOK' /\ BalanceSeen'  BY <1>1, Synced DEF SInv, ConfigOK
<1> QED  BY <1>8, <1>9, <1>10, <1>11 DEF SInv

LEMMA ExitStep ==
  ASSUME SInv, NEW p \in Pairs, Exit(p)
  PROVE  SInv'
<1>1. /\ phase = "idle" /\ p \in Open /\ order[p].kind = "none"
      /\ free' = free /\ Sync /\ UNCHANGED <<config, coins, trade, profit, plan, phase, limits>>
  BY DEF Exit
<1>2. PICK n \in 1..coins[p] :
        order' = [order EXCEPT ![p] = [kind |-> "exit", left |-> n, live |-> TRUE, gain |-> 0]]
  BY DEF Exit
<1>3. coins[p] \in Nat /\ n \in Nat /\ n <= coins[p]  BY DEF SInv, StakesTyped
<1>4. order' \in Orders
  <2>1. [kind |-> "exit", left |-> n, live |-> TRUE, gain |-> 0]
          \in [kind : {"none", "entry", "adjust", "exit"}, left : Nat, live : BOOLEAN, gain : Int]
    BY <1>3
  <2> QED  BY <1>2, <2>1 DEF SInv, StakesTyped, Orders
<1>5. StakesTyped'
  <2>1. wallet' \in Nat /\ disturbed' \in BOOLEAN  BY <1>1, Synced
  <2> QED  BY <1>1, <1>4, <2>1 DEF SInv, StakesTyped, Orders, limits
<1>6. Rows'
  <2> SUFFICES ASSUME NEW q \in Pairs PROVE OrderOK(q)' /\ Covered(q)'
    BY DEF Rows
  <2>1. OrderOK(q) /\ Covered(q) /\ coins'[q] = coins[q] /\ trade'[q] = trade[q]
    BY <1>1 DEF SInv, Rows
  <2>2. CASE q # p
    <3>1. order'[q] = order[q]  BY <1>2, <2>2 DEF SInv, StakesTyped
    <3> QED  BY <2>1, <3>1 DEF OrderOK, Covered, UsedBy
  <2>3. CASE q = p
    <3>1. order'[p] = [kind |-> "exit", left |-> n, live |-> TRUE, gain |-> 0]
      BY <1>2 DEF SInv, StakesTyped
    <3>2. OrderOK(p)'  BY <1>3, <2>1, <2>3, <3>1 DEF OrderOK
    <3>3. trade[p].open /\ ~order[p].live  BY <1>1, <2>1, <2>3 DEF Open, OrderOK
    <3>4. coins[p] <= trade[p].stake
      BY <1>1, <1>3, <2>1, <2>3, <3>3 DEF Covered, UsedBy
    <3>5. UsedBy(coins, order, p)' = coins[p]  BY <1>3, <2>1, <2>3, <3>1 DEF UsedBy
    <3> QED  BY <2>1, <2>3, <3>2, <3>3, <3>4, <3>5 DEF Covered
  <2> QED  BY <2>2, <2>3
<1>7. PlanOK' /\ WithinMeans'  BY <1>1 DEF PlanOK, WithinMeans
<1>8. ConfigOK' /\ BalanceSeen'  BY <1>1, Synced DEF SInv, ConfigOK
<1> QED  BY <1>5, <1>6, <1>7, <1>8 DEF SInv

\* An entry is begun, for a new trade or one that is open.
LEMMA StartStep ==
  ASSUME SInv, NEW p \in Pairs, EnterStart(p) \/ AdjustStart(p)
  PROVE  SInv'
<1>1. /\ phase' = "stake" /\ free' = free
      /\ UNCHANGED <<config, coins, order, trade, profit, limits>>
      /\ plan' \in [pair : {p}, stake : {0}, adjust : BOOLEAN]
      /\ plan'.adjust <=> trade[p].open
      /\ entries < MaxEntries
      /\ Sync \/ UNCHANGED <<wallet, disturbed>>
  <2>1. CASE EnterStart(p)  BY <2>1 DEF EnterStart, Open
  <2>2. CASE AdjustStart(p)  BY <2>2 DEF AdjustStart, Open
  <2> QED  BY <2>1, <2>2
<1>2. order[p].kind = "none"
  BY DEF EnterStart, AdjustStart, SInv, Rows, Covered, Open
<1>3. BalanceSeen' /\ wallet' \in Nat /\ disturbed' \in BOOLEAN
  <2>1. CASE Sync  BY <1>1, <2>1, Synced
  <2>2. CASE UNCHANGED <<wallet, disturbed>>
    BY <1>1, <2>2 DEF SInv, StakesTyped, BalanceSeen
  <2> QED  BY <1>1, <2>1, <2>2
<1>4. StakesTyped'
  <2>1. plan' \in [pair : Pairs \union {NoPair}, stake : Nat, adjust : BOOLEAN]  BY <1>1
  <2> QED  BY <1>1, <1>3, <2>1 DEF SInv, StakesTyped, limits
<1>5. Rows'  BY <1>1 DEF SInv, Rows, OrderOK, Covered, UsedBy
<1>6. PlanOK'
  <2>1. plan'.pair = p  BY <1>1
  <2> QED  BY <1>1, <1>2, <2>1 DEF PlanOK, limits
<1>7. WithinMeans' /\ ConfigOK'  BY <1>1 DEF SInv, WithinMeans, ConfigOK
<1> QED  BY <1>3, <1>4, <1>5, <1>6, <1>7 DEF SInv

\* Where the entry is computed.
LEMMA ProposeStep ==
  ASSUME SInv, Propose
  PROVE  SInv'
<1>1. /\ phase = "stake" /\ phase' = "create"
      /\ UNCHANGED <<config, exchange, books, disturbed, limits>>
  BY DEF Propose
<1>2. plan.pair \in Pairs  BY <1>1 DEF SInv, PlanOK
<1> DEFINE held == IF plan.adjust THEN trade[plan.pair].stake ELSE 0
<1>3. PICK asked \in IF plan.adjust THEN Extras ELSE Customs \union {TradeStake} :
        LET stake == Validated(asked, held)
        IN  stake # 0 /\ plan' = [plan EXCEPT !.stake = stake]
  BY DEF Propose
<1>4. PICK s : s = Validated(asked, held)  OBVIOUS
<1>5. s # 0 /\ plan' = [plan EXCEPT !.stake = s]  BY <1>3, <1>4
<1>6. asked \in Nat
  <2>1. TradeStake \in Nat  BY TradeStakeTyped DEF SInv
  <2> QED  BY <2>1, AmountsAssumption
<1>7. held \in Nat  BY <1>2 DEF SInv, StakesTyped
<1> HIDE DEF held
<1>8. s \in Nat /\ s > 0 /\ s <= AvailableStake
  BY <1>4, <1>5, <1>6, <1>7, ValidatedFits DEF SInv
<1>9. s <= wallet /\ Room(s)  BY <1>8, RoomFor DEF SInv
<1>10. /\ plan' \in [pair : Pairs \union {NoPair}, stake : Nat, adjust : BOOLEAN]
       /\ plan'.pair = plan.pair /\ plan'.stake = s /\ plan'.adjust = plan.adjust
  BY <1>5, <1>8 DEF SInv, StakesTyped
<1>11. StakesTyped'
  BY <1>1, <1>10 DEF SInv, StakesTyped, exchange, books, limits
<1>12. WithinMeans'
  <2>1. StakesOf' = StakesOf /\ Open' = Open  BY <1>1 DEF StakesOf, Open, books
  <2>2. Tied' = Tied  BY <2>1 DEF Tied
  <2>3. Room(plan.stake)'  BY <1>1, <1>9, <1>10, <2>2 DEF Room, books
  <2> QED  BY <1>1, <1>8, <1>9, <1>10, <2>3 DEF WithinMeans, books
<1>13. Rows'
  BY <1>1 DEF SInv, Rows, OrderOK, Covered, UsedBy, exchange, books
<1>14. PlanOK'  BY <1>1, <1>10 DEF SInv, PlanOK, exchange, books, limits
<1>15. BalanceSeen' /\ ConfigOK'
  BY <1>1 DEF SInv, BalanceSeen, ConfigOK, exchange, books
<1> QED  BY <1>11, <1>12, <1>13, <1>14, <1>15 DEF SInv

\* What is used once the planned order is placed.
LEMMA CreateUses ==
  ASSUME SInv, Create
  PROVE  /\ plan.pair \in Pairs /\ order' \in Orders
         /\ order'[plan.pair].live /\ order'[plan.pair].left = plan.stake
         /\ order'[plan.pair].kind = IF plan.adjust THEN "adjust" ELSE "entry"
         /\ \A q \in Pairs \ {plan.pair} : order'[q] = order[q]
<1> DEFINE p == plan.pair
<1> DEFINE new == [kind |-> IF plan.adjust THEN "adjust" ELSE "entry", left |-> plan.stake,
                   live |-> TRUE, gain |-> 0]
<1>1. p \in Pairs /\ order \in Orders  BY DEF Create, SInv, PlanOK, StakesTyped, Orders
<1>2. order' = [order EXCEPT ![p] = new]  BY DEF Create, Placed
<1>3. /\ new \in [kind : {"none", "entry", "adjust", "exit"}, left : Nat,
                  live : BOOLEAN, gain : Int]
      /\ new.live /\ new.left = plan.stake
      /\ new.kind = IF plan.adjust THEN "adjust" ELSE "entry"
  BY DEF SInv, StakesTyped
<1> HIDE DEF new
<1> QED  BY <1>1, <1>2, <1>3 DEF Orders

LEMMA CreateStep ==
  ASSUME SInv, Create
  PROVE  SInv'
<1>0. PICK p : p = plan.pair  OBVIOUS
<1>1. /\ phase = "create" /\ plan.stake <= free /\ free' = free - plan.stake /\ Sync
      /\ plan' = NoPlan /\ phase' = "idle" /\ entries' = entries + 1
      /\ UNCHANGED <<config, coins, profit, transfers>>
      /\ trade' = IF plan.adjust THEN trade
                  ELSE [trade EXCEPT ![p] = [stake |-> plan.stake, realized |-> 0, open |-> TRUE]]
  BY <1>0 DEF Create
<1>2. /\ p \in Pairs /\ order' \in Orders
      /\ order'[p].live /\ order'[p].left = plan.stake
      /\ order'[p].kind = IF plan.adjust THEN "adjust" ELSE "entry"
      /\ \A q \in Pairs \ {p} : order'[q] = order[q]
  BY <1>0, CreateUses
<1>3. plan.stake \in Nat /\ free \in Nat /\ free - plan.stake \in Nat
  <2>1. plan.stake \in Nat /\ free \in Nat  BY DEF SInv, StakesTyped
  <2> QED  BY <1>1, <2>1
<1>4. /\ trade' \in [Pairs -> [stake : Nat, realized : Int, open : BOOLEAN]]
      /\ \A q \in Pairs \ {p} : trade'[q] = trade[q]
      /\ ~plan.adjust => trade'[p].open /\ trade'[p].stake = plan.stake
      /\ plan.adjust => trade'[p] = trade[p] /\ trade[p].open
  <2>1. [stake |-> plan.stake, realized |-> 0, open |-> TRUE]
          \in [stake : Nat, realized : Int, open : BOOLEAN]
    BY <1>3
  <2>2. CASE plan.adjust  BY <1>0, <1>1, <2>2 DEF SInv, StakesTyped, PlanOK
  <2>3. CASE ~plan.adjust  BY <1>1, <1>2, <2>1, <2>3 DEF SInv, StakesTyped
  <2> QED  BY <2>2, <2>3
<1>5. entries' \in 0..MaxEntries
  <2>1. entries \in 0..MaxEntries /\ entries < MaxEntries  BY <1>1 DEF SInv, StakesTyped, PlanOK
  <2> QED  BY <1>1, <2>1, BoundsAssumption
<1>6. wallet' \in Nat /\ wallet' = free' /\ disturbed' = FALSE  BY <1>1, <1>3 DEF Sync
<1>7. StakesTyped'
  <2>1. plan' \in [pair : Pairs \union {NoPair}, stake : Nat, adjust : BOOLEAN]
    BY <1>1 DEF NoPlan
  <2>2. free' \in Nat  BY <1>1, <1>3
  <2> QED  BY <1>1, <1>2, <1>4, <1>5, <1>6, <2>1, <2>2 DEF SInv, StakesTyped, Orders
<1>8. BalanceSeen'  BY <1>3, <1>6, <1>1 DEF BalanceSeen
<1>9. Rows'
  <2> SUFFICES ASSUME NEW q \in Pairs PROVE OrderOK(q)' /\ Covered(q)'
    BY DEF Rows
  <2>1. OrderOK(q) /\ Covered(q) /\ coins'[q] = coins[q] /\ coins[q] \in Nat
    BY <1>1 DEF SInv, Rows, StakesTyped
  <2>2. CASE q # p
    <3>1. order'[q] = order[q] /\ trade'[q] = trade[q]  BY <1>2, <1>4, <2>2
    <3> QED  BY <2>1, <3>1 DEF OrderOK, Covered, UsedBy
  <2>3. CASE q = p
    <3>1. OrderOK(p)'  BY <1>2 DEF OrderOK
    <3>2. CASE plan.adjust  BY <1>2, <1>4, <2>3, <3>1, <3>2 DEF Covered
    <3>3. CASE ~plan.adjust
      <4>1. coins[p] = 0  BY <1>0, <1>1, <2>1, <2>3, <3>3 DEF SInv, PlanOK, Covered
      <4>2. UsedBy(coins, order, p)' = plan.stake
        BY <1>2, <1>3, <2>1, <2>3, <3>3, <4>1 DEF UsedBy
      <4> QED  BY <1>3, <1>4, <2>3, <3>1, <3>3, <4>2 DEF Covered
    <3> QED  BY <3>2, <3>3
  <2> QED  BY <2>2, <2>3
<1>10. PlanOK' /\ WithinMeans' /\ ConfigOK'
  BY <1>1 DEF PlanOK, WithinMeans, ConfigOK, SInv
<1> QED  BY <1>7, <1>8, <1>9, <1>10 DEF SInv

\* The entry is given up, its reply is lost, or the bot starts again.
LEMMA GiveUpStep ==
  ASSUME SInv, Refused \/ ReplyLost \/ Restart
  PROVE  SInv'
<1>1. /\ plan' = NoPlan /\ phase' = "idle"
      /\ UNCHANGED <<config, coins, order, trade, profit, transfers>>
  BY DEF Refused, ReplyLost, Restart, exchange, books, limits
<1>2. /\ free' \in Nat /\ wallet' \in Nat /\ disturbed' \in BOOLEAN
      /\ entries' \in 0..MaxEntries /\ BalanceSeen'
  <2>1. /\ free \in Nat /\ wallet \in Nat /\ disturbed \in BOOLEAN /\ plan.stake \in Nat
        /\ entries \in 0..MaxEntries
    BY DEF SInv, StakesTyped
  <2>2. CASE Refused
    BY <2>1, <2>2 DEF SInv, BalanceSeen, Refused, exchange, books, limits
  <2>3. CASE ReplyLost
    <3>1. /\ phase = "create" /\ plan.stake <= free /\ free' = free - plan.stake
          /\ disturbed' = TRUE /\ wallet' = wallet /\ entries' = entries + 1
      BY <2>3 DEF ReplyLost, books
    <3>2. entries < MaxEntries  BY <3>1 DEF SInv, PlanOK
    <3> QED  BY <2>1, <3>1, <3>2, BoundsAssumption DEF BalanceSeen
  <2>4. CASE Restart
    <3>1. free' = free /\ Sync /\ entries' = entries  BY <2>4 DEF Restart, limits
    <3> QED  BY <2>1, <3>1, Synced
  <2> QED  BY <2>2, <2>3, <2>4
<1>3. StakesTyped'
  <2>1. plan' \in [pair : Pairs \union {NoPair}, stake : Nat, adjust : BOOLEAN]
    BY <1>1 DEF NoPlan
  <2> QED  BY <1>1, <1>2, <2>1 DEF SInv, StakesTyped
<1>4. Rows'  BY <1>1 DEF SInv, Rows, OrderOK, Covered, UsedBy
<1>5. PlanOK' /\ WithinMeans' /\ ConfigOK'
  BY <1>1 DEF PlanOK, WithinMeans, ConfigOK, SInv
<1> QED  BY <1>2, <1>3, <1>4, <1>5 DEF SInv

LEMMA StutterStep ==
  ASSUME SInv, UNCHANGED stakeVars
  PROVE  SInv'
<1>1. UNCHANGED <<config, books, plan, phase>>  BY DEF stakeVars
<1>2. WithinMeans'  BY <1>1, MeansStay DEF SInv
<1>3. StakesTyped' /\ ConfigOK' /\ BalanceSeen' /\ PlanOK'
  BY DEF SInv, StakesTyped, ConfigOK, BalanceSeen, PlanOK, stakeVars, exchange, books, limits
<1>4. Rows'
  BY DEF SInv, Rows, OrderOK, Covered, UsedBy, stakeVars, exchange, books
<1> QED  BY <1>2, <1>3, <1>4 DEF SInv

LEMMA StakesStart == StakeInit => SInv
<1> SUFFICES ASSUME StakeInit PROVE SInv  OBVIOUS
<1>1. StakesTyped
  <2>1. NoOrder \in [kind : {"none", "entry", "adjust", "exit"}, left : Nat,
                     live : BOOLEAN, gain : Int]
    BY DEF NoOrder
  <2>2. NoTrade \in [stake : Nat, realized : Int, open : BOOLEAN]  BY DEF NoTrade
  <2>3. NoPlan \in [pair : Pairs \union {NoPair}, stake : Nat, adjust : BOOLEAN]  BY DEF NoPlan
  <2>4. free \in Nat /\ wallet \in Nat /\ profit \in Int
    BY AmountsAssumption DEF StakeInit
  <2>5. entries \in 0..MaxEntries /\ transfers \in 0..MaxTransfers
    BY BoundsAssumption DEF StakeInit
  <2>6. /\ coins \in [Pairs -> Nat]
        /\ order \in [Pairs -> [kind : {"none", "entry", "adjust", "exit"}, left : Nat,
                                live : BOOLEAN, gain : Int]]
    BY <2>1 DEF StakeInit
  <2>7. trade \in [Pairs -> [stake : Nat, realized : Int, open : BOOLEAN]]
    BY <2>2 DEF StakeInit
  <2> QED  BY <2>3, <2>4, <2>5, <2>6, <2>7 DEF StakeInit, StakesTyped
<1>2. ConfigOK /\ BalanceSeen
  BY AmountsAssumption DEF StakeInit, ConfigOK, BalanceSeen
<1>3. Rows
  BY DEF StakeInit, Rows, OrderOK, Covered, NoOrder, NoTrade
<1>4. PlanOK /\ WithinMeans  BY DEF StakeInit, PlanOK, WithinMeans
<1> QED  BY <1>1, <1>2, <1>3, <1>4 DEF SInv

LEMMA StakesStep == SInv /\ [StakeNext]_stakeVars => SInv'
<1> SUFFICES ASSUME SInv, [StakeNext]_stakeVars PROVE SInv'  OBVIOUS
<1>1. ASSUME NEW p \in Pairs, EntryFills(p) PROVE SInv'  BY <1>1, EntryFillsStep
<1>2. ASSUME NEW p \in Pairs, ExitFills(p) PROVE SInv'  BY <1>2, ExitFillsStep
<1>3. ASSUME NEW p \in Pairs, OrderEnds(p) PROVE SInv'  BY <1>3, OrderEndsStep
<1>4. ASSUME NEW p \in Pairs, Book(p) PROVE SInv'  BY <1>4, BookStep
<1>5. ASSUME NEW p \in Pairs, Exit(p) PROVE SInv'  BY <1>5, ExitStep
<1>6. ASSUME NEW p \in Pairs, EnterStart(p) \/ AdjustStart(p) PROVE SInv'  BY <1>6, StartStep
<1>7. CASE Deposit \/ Withdraw  BY <1>7, TransferStep
<1>8. CASE Propose  BY <1>8, ProposeStep
<1>9. CASE Create  BY <1>9, CreateStep
<1>10. CASE Refused \/ ReplyLost \/ Restart  BY <1>10, GiveUpStep
<1>11. CASE UNCHANGED stakeVars  BY <1>11, StutterStep
<1> QED  BY <1>1, <1>2, <1>3, <1>4, <1>5, <1>6, <1>7, <1>8, <1>9, <1>10, <1>11 DEF StakeNext

\* What the bot is about to spend is there, for any number of pairs, all
\* amounts and ratios, however old the balance it computed with, unless money
\* left behind its back; and the types of the module.
THEOREM EntriesAffordable == StakeSpec => []Affordable
<1>1. SInv => Affordable
  <2> SUFFICES ASSUME SInv PROVE Affordable  OBVIOUS
  <2>1. StakesTyped /\ plan.stake \in Nat /\ wallet \in Nat /\ free \in Nat
    BY DEF SInv, StakesTyped
  <2> QED  BY <2>1 DEF SInv, Affordable, WithinMeans, BalanceSeen
<1> QED  BY StakesStart, StakesStep, <1>1, PTL DEF StakeSpec

-----------------------------------------------------------------------------
(* The allowance                                                            *)

LEMMA UsedWithinTied ==
  ASSUME SInv, \A p \in Pairs : order[p].kind # "adjust"
  PROVE  SumOver(UsesOf(coins, order), Pairs) <= Tied
<1> DEFINE f == UsesOf(coins, order)
<1>1. coins \in [Pairs -> Nat] /\ order \in Orders  BY DEF SInv, StakesTyped, Orders
<1>2. Summable(f, Pairs)  BY <1>1, UsesTyped
<1>3. Summable(StakesOf, Open)
  <2>1. IsFiniteSet(Open) /\ \A p \in Open : StakesOf[p] \in Int
    BY PairsAssumption, FS_Subset DEF Open, SInv, StakesTyped, StakesOf
  <2> QED  BY <2>1 DEF Summable
<1>4. \A p \in Pairs \cap Open : f[p] <= StakesOf[p]
  BY DEF SInv, Rows, Covered, Open, UsesOf, StakesOf
<1>5. \A p \in Pairs \ Open : f[p] <= 0
  BY DEF SInv, Rows, Covered, OrderOK, Open, UsesOf, UsedBy
<1>6. Open \ Pairs = {}  BY DEF Open
<1> HIDE DEF f
<1>7. SumOver(f, Pairs) <= SumOver(StakesOf, Open)
  BY <1>2, <1>3, <1>4, <1>5, <1>6, SumBelow
<1> QED  BY <1>7 DEF Tied, f

\* Numbers of Create: c is used, t tied up, s placed, w read, f free.
LEMMA RatioKept ==
  ASSUME NEW c \in Nat, NEW t \in Nat, NEW s \in Nat, NEW w \in Nat, NEW f \in Nat,
         NEW n \in Nat, NEW d \in Nat, n <= d, c <= t, w <= f,
         (t + s) * d <= (t + w) * n
  PROVE  (c + s) * d <= (c + f) * n
<1> DEFINE gap == t - c
<1>1. gap \in Nat /\ t = c + gap  OBVIOUS
<1> HIDE DEF gap
<1>2. gap * n <= gap * d /\ w * n <= f * n
  <2>1. \A x, y, z \in Nat : x <= y => z * x <= z * y /\ x * z <= y * z  OBVIOUS
  <2> QED  BY <1>1, <2>1
<1>3. (t + s) * d = (c + s) * d + gap * d  BY <1>1
<1>4. (t + w) * n = c * n + gap * n + w * n /\ (c + f) * n = c * n + f * n  BY <1>1
<1>5. /\ gap * n \in Nat /\ gap * d \in Nat /\ w * n \in Nat /\ f * n \in Nat
      /\ c * n \in Nat /\ (c + s) * d \in Nat
  BY <1>1
<1> QED  BY <1>2, <1>3, <1>4, <1>5

LEMMA CreateAllowed ==
  ASSUME SInv, Create, ~disturbed, \A p \in Pairs : order[p].kind # "adjust"
  PROVE  Allowed'
<1>0. PICK p : p = plan.pair  OBVIOUS
<1> DEFINE f == UsesOf(coins, order)  g == UsesOf(coins, order')
<1>1. /\ p \in Pairs /\ order' \in Orders
      /\ order'[p].live /\ order'[p].left = plan.stake /\ order'[p].kind # "exit"
      /\ \A q \in Pairs \ {p} : order'[q] = order[q]
  BY <1>0, CreateUses
<1>2. coins \in [Pairs -> Nat] /\ order \in Orders  BY DEF SInv, StakesTyped, Orders
<1>3. /\ phase = "create" /\ free' = free - plan.stake
      /\ UNCHANGED <<config, coins, profit>>
  BY DEF Create
<1>4. order[p].kind = "none" /\ ~order[p].live
  BY <1>0, <1>1, <1>3 DEF SInv, PlanOK, Rows, OrderOK
<1>5. plan.stake \in Nat /\ free \in Nat /\ wallet \in Nat /\ profit \in Int
  BY DEF SInv, StakesTyped
<1>6. f[p] = coins[p] /\ g[p] = coins[p] + plan.stake /\ g[p] \in Int /\ f[p] \in Int
  BY <1>1, <1>2, <1>4, <1>5 DEF UsesOf, UsedBy
<1>7. \A q \in Pairs \ {p} : g[q] = f[q]  BY <1>1 DEF UsesOf, UsedBy
<1>8. Summable(f, Pairs) /\ SumOver(f, Pairs) \in Nat  BY <1>2, UsesTyped
<1>9. Committed' = SumOver(g, Pairs)
  <2>1. coins' \in [Pairs -> Nat]  BY <1>2, <1>3
  <2>2. Committed' = SumOver(UsesOf(coins', order'), Pairs)
    BY <1>1, <2>1, CommittedIsSum DEF Committed, MapThenSumSet, MapThenFoldSet
  <2> QED  BY <1>3, <2>2 DEF UsesOf
<1>10. SumOver(f, Pairs) <= Tied  BY UsedWithinTied
<1>11. Tied \in Nat  BY TiedIsSum DEF SInv
<1> HIDE DEF f, g
<1>12. SumOver(g, Pairs) = SumOver(f, Pairs) + (g[p] - f[p])
  BY <1>1, <1>6, <1>7, <1>8, SumChange
<1>13. g[p] - f[p] = plan.stake  BY <1>2, <1>1, <1>5, <1>6
<1>14. Committed' = SumOver(f, Pairs) + plan.stake  BY <1>9, <1>12, <1>13
<1>15. Room(plan.stake) /\ wallet <= free  BY <1>3 DEF SInv, WithinMeans, BalanceSeen
<1>16. CASE config.capital # NotSet
  <2>1. Tied + plan.stake <= config.capital + profit  BY <1>15, <1>16 DEF Room
  <2>2. config.capital \in Nat  BY MeansTyped DEF SInv
  <2>3. SumOver(f, Pairs) + plan.stake <= config.capital + profit
    BY <1>5, <1>8, <1>10, <1>11, <2>1, <2>2
  <2> QED  BY <1>3, <1>14, <1>16, <2>3 DEF Allowed
<1>17. CASE config.capital = NotSet
  <2>1. (Tied + plan.stake) * RatioDen <= (Tied + wallet) * RatioNum
    BY <1>15, <1>17 DEF Room
  <2>2. RatioNum \in Nat /\ RatioDen \in Nat /\ RatioNum <= RatioDen
    BY RatiosAssumption
  <2>3. (SumOver(f, Pairs) + plan.stake) * RatioDen <= (SumOver(f, Pairs) + free) * RatioNum
    BY <1>5, <1>8, <1>10, <1>11, <1>15, <2>1, <2>2, RatioKept
  <2>4. Committed' + free' = SumOver(f, Pairs) + free  BY <1>3, <1>5, <1>8, <1>14
  <2> QED  BY <1>3, <1>14, <1>17, <2>3, <2>4 DEF Allowed
<1> QED  BY <1>16, <1>17

\* No entry takes the bot beyond available_capital or tradable_balance_ratio,
\* whatever was filled and not booked, for any number of pairs, all amounts and
\* ratios, unless money left unseen or an adjustment is pending.
THEOREM AllowanceKept == StakeSpec => WithinAllowance
<1> DEFINE A == phase = "create" /\ order' # order /\ ~disturbed /\ entries' # entries
               /\ (\A p \in Pairs : order[p].kind # "adjust") => Allowed'
<1>1. SInv /\ [StakeNext]_stakeVars => [A]_stakeVars
  <2> SUFFICES ASSUME SInv, StakeNext, phase = "create", order' # order, ~disturbed,
                      entries' # entries, \A p \in Pairs : order[p].kind # "adjust"
               PROVE  Allowed'
    OBVIOUS
  <2>1. ASSUME NEW p \in Pairs,
               \/ EntryFills(p) \/ ExitFills(p) \/ OrderEnds(p)
               \/ Book(p) \/ Exit(p) \/ EnterStart(p) \/ AdjustStart(p)
        PROVE  entries' = entries
    BY <2>1 DEF EntryFills, ExitFills, OrderEnds, Book, Exit, EnterStart, AdjustStart, limits
  <2>2. Deposit \/ Withdraw \/ Propose \/ Refused \/ Restart => entries' = entries
    BY DEF Deposit, Withdraw, Propose, Refused, Restart, limits
  <2>3. ReplyLost => order' = order  BY DEF ReplyLost
  <2>4. CASE Create  BY <2>4, CreateAllowed
  <2> QED  BY <2>1, <2>2, <2>3, <2>4 DEF StakeNext
<1> QED  BY StakesStart, StakesStep, <1>1, PTL DEF StakeSpec, WithinAllowance
=============================================================================
