---------------------------- MODULE LiveSignals ----------------------------
(***************************************************************************)
(* How one pair's candles become entries in the running bot: the candle    *)
(* cache of exchange.py with its websocket feed, the analysis of the       *)
(* strategy, the analyzed dataframe of the data provider, and the pair     *)
(* locks and the cooldown that keep an old signal from being used again.   *)
(* Candles are numbered by their open time; the candle `now' is still in   *)
(* progress, and time goes on between any two steps of an iteration.       *)
(***************************************************************************)
EXTENDS Integers, FiniteSets, FiniteSetsExt, TLC

CONSTANTS
  Sides,            \* the directions of trades
  Start,            \* the candle in which the bot starts
  Horizon,          \* bound: the last candle
  Limit,            \* ohlcv_candle_limit: candles of one reply
  Calls,            \* required_candle_call_count
  Slack,            \* candles by which a reply must reach into the cache
  Patience,         \* candles that may close while a reply is on its way
  Startup,          \* startup_candle_count
  MaxAge,           \* candles after which a signal candle is outdated
  Cooldown,         \* stop_duration of CooldownPeriod, in candles
  Lookback,         \* its lookback_period, in candles
  MaxUntraded,      \* bound: candles in which nobody trades
  MaxTrades         \* bound: entries, after which no iteration starts

None == -1
NoSide == "none"
Both == "*"

ASSUME SidesAssumption == Both \notin Sides /\ NoSide \notin Sides
ASSUME TimesAssumption ==
  /\ Start \in Nat \ {0} /\ Horizon \in Nat /\ Start <= Horizon
  /\ Limit \in Nat \ {0, 1} /\ Calls \in Nat \ {0} /\ Slack \in 0..Limit
  /\ Patience \in 0..(Slack + 1)
  /\ Startup \in Nat /\ MaxAge \in Nat /\ Cooldown \in Nat /\ Lookback \in Nat
  /\ MaxUntraded \in Nat /\ MaxTrades \in Nat

VARIABLES
  now,              \* the candle in progress
  untraded,         \* candles the exchange never lists (no trades)
  enable_ws,        \* whether the exchange has a websocket feed
  klines,           \* _klines: candle -> what is cached of it
  last_refresh,     \* _pairs_last_refresh_time
  feed,             \* the candles of the feed: the first and the last one
  watching,         \* the pair is in _klines_watching
  seen,             \* __last_candle_seen_per_pair
  analyzed,         \* the analyzed dataframe: its last candle and signal
  lock_end,         \* the end of the longest lock of each side and of both
  position,         \* the side of the open trade
  sold,             \* the candle in which its exit filled
  last_exit,        \* history: what became of the last exit of each side
  trades,           \* history: the number of trades
  active,           \* the pair is in active_pair_whitelist
  job,              \* the download that was started
  pc                \* the step of process()

clock   == <<now, untraded, enable_ws>>
cache   == <<klines, last_refresh>>
ws      == <<feed, watching>>
memory  == <<seen, analyzed>>
account == <<lock_end, position, sold, last_exit, trades>>
vars    == <<clock, cache, ws, memory, account, active, job, pc>>

\* What is cached of a candle: its final values, those it had in progress,
\* or the zero-volume candle that takes the place of one nobody traded in.
Content == {"final", "partial", "filled"}

Empty  == [t \in {} |-> "final"]
Held   == DOMAIN klines
NoFeed == [lo |-> None, hi |-> None]
NoJob  == [kind |-> "none", at |-> None]
Blank  == [upto |-> None, signal |-> NoSide, content |-> "final"]
NoExit == [handled |-> None, sold |-> None, locked |-> FALSE, cooled |-> FALSE]

Largest(n, S) == {t \in S : Cardinality({u \in S : u > t}) < n}

-----------------------------------------------------------------------------
(* The exchange: its candles, its feed, the fills of exits *)

Traded(lo, hi) == (lo..hi) \ untraded

Tick ==
  /\ now < Horizon
  /\ pc = "fetch" => now < job.at + Patience
  /\ now' = now + 1
  /\ UNCHANGED <<untraded, enable_ws, cache, ws, memory, account, active, job, pc>>

\* The feed brings candles in order and skips none; the first message may
\* hold the candle before the current one as well. (The feed and the fills
\* take their steps where the bot is about to look at them: elsewhere they
\* commute with it.)
FeedMessage ==
  /\ pc \in {"refresh", "fetch"} /\ watching /\ now \notin untraded
  /\ \E lo \in {now - 1, now} \ untraded :
       feed' = [lo |-> IF feed = NoFeed THEN lo ELSE feed.lo, hi |-> now]
  /\ feed' # feed
  /\ UNCHANGED <<clock, cache, watching, memory, account, active, job, pc>>

\* A lost connection, or cleanup_expired of a pair no longer asked for.
FeedStops ==
  /\ pc \in {"refresh", "fetch"} /\ watching
  /\ watching' = FALSE /\ feed' = NoFeed
  /\ UNCHANGED <<clock, cache, memory, account, active, job, pc>>

Sell ==
  /\ pc = "exits" /\ position # NoSide /\ sold = None
  /\ sold' = now
  /\ UNCHANGED <<clock, cache, ws, memory, lock_end, position, last_exit, trades,
                 active, job, pc>>

-----------------------------------------------------------------------------
(* The candle cache *)

TimeToRefresh == Held = {} \/ last_refresh + 1 < now

\* Mutant: one call is taken to be enough at any time.
CacheUsableAlways == last_refresh <= now

\* One call can bring the cache up to date without a hole.
CacheUsable == now - (Limit - Slack) < last_refresh

\* The feed's last candle is current or the one before, and in the second
\* case the last message is no older than half a candle.
FeedUsable ==
  /\ enable_ws /\ Held # {} /\ feed # NoFeed
  /\ IF Cardinality(Traded(feed.lo, feed.hi)) > 1 THEN feed.hi >= now - 1
                                                   ELSE feed.hi = now - 1

Latest(top) == Largest(Limit, Traded(0, top))
FromStart(top) == Traded(Max({0, job.at + 1 - Limit * Calls}), top)

FillMissing(df) ==
  IF DOMAIN df = {} THEN df
  ELSE [t \in Min(DOMAIN df)..Max(DOMAIN df) |-> IF t \in DOMAIN df THEN df[t] ELSE "filled"]

TailOf(df) ==
  IF Held = {} THEN df
  ELSE LET S == Largest(Limit + Startup, DOMAIN df) IN [t \in S |-> df[t]]

\* Mutant: a reply is taken to be complete.
KeptWhole(ticks, drop) == ticks

\* Of the rows received, the last may be dropped as incomplete; `upto' says
\* what the last row that is kept holds.
Kept(ticks, drop) == IF drop /\ ticks # {} THEN ticks \ {Max(ticks)} ELSE ticks

LastKept(ticks, drop) ==
  IF drop /\ Cardinality(ticks) > 1 THEN Max(ticks \ {Max(ticks)}) ELSE Max(ticks)

Concat(new, old) ==
  [t \in DOMAIN new \union DOMAIN old |-> IF t \in DOMAIN new THEN new[t] ELSE old[t]]

ProcessOhlcv(ticks, drop) ==
  LET received == DOMAIN ticks
      new == [t \in Kept(received, drop) |-> ticks[t]]
  IN  /\ last_refresh' = IF received = {} THEN last_refresh ELSE LastKept(received, drop)
      /\ klines' = TailOf(FillMissing(Concat(new, klines)))

BuildCoroutine ==
  /\ watching' = enable_ws
  /\ \/ /\ FeedUsable
        /\ job' = [kind |-> "feed", at |-> now]
        /\ UNCHANGED klines
     \/ /\ ~FeedUsable \/ feed.hi = now - 1
        /\ Held # {} /\ CacheUsable
        /\ job' = [kind |-> "one_call", at |-> now]
        /\ UNCHANGED klines
     \/ /\ ~FeedUsable \/ feed.hi = now - 1
        /\ Held = {} \/ ~CacheUsable
        /\ job' = [kind |-> IF Calls > 1 THEN "history" ELSE "one_call", at |-> now]
        /\ klines' = Empty
  /\ pc' = "fetch"
  /\ UNCHANGED <<clock, last_refresh, feed, memory, account>>

\* A new iteration, none after MaxTrades entries: the pair is active when it
\* is on the whitelist or has an open trade; only then its candles are
\* refreshed and analyzed.
Refresh ==
  /\ pc = "refresh" /\ trades < MaxTrades
  /\ \E listed \in BOOLEAN : active' = (listed \/ position # NoSide)
  /\ \/ /\ active' /\ TimeToRefresh
        /\ BuildCoroutine
     \/ /\ active' => ~TimeToRefresh
        /\ pc' = IF active' THEN "analyze" ELSE "exits"
        /\ UNCHANGED <<clock, cache, ws, memory, account, job>>

\* The exchange may not list the candle in progress yet.
FetchRest ==
  /\ pc = "fetch" /\ job.kind \in {"one_call", "history"}
  /\ \E top \in {now - 1, now} :
       ProcessOhlcv([t \in IF job.kind = "history" THEN FromStart(top) ELSE Latest(top)
                       |-> IF t = now THEN "partial" ELSE "final"], TRUE)
  /\ job' = NoJob /\ pc' = "analyze"
  /\ UNCHANGED <<clock, ws, memory, account, active>>

\* The feed's rows are dropped by their date; a last row that is kept holds
\* what had been delivered of it.
FetchFeed ==
  /\ pc = "fetch" /\ job.kind = "feed" /\ feed # NoFeed
  /\ \E delivered \in {"final", "partial"} :
       ProcessOhlcv([t \in Traded(feed.lo, feed.hi)
                       |-> IF t = feed.hi THEN delivered ELSE "final"], feed.hi >= job.at)
  /\ job' = NoJob /\ pc' = "analyze"
  /\ UNCHANGED <<clock, ws, memory, account, active>>

FetchFails ==
  /\ pc = "fetch"
  /\ job' = NoJob /\ pc' = "analyze"
  /\ UNCHANGED <<clock, cache, ws, memory, account, active>>

-----------------------------------------------------------------------------
(* The strategy *)

Newest(t) == \A u \in Held : u <= t

\* A candle that was seen before is not analyzed again; the dataframe stored
\* for it stays, signals included.
Analyze ==
  /\ pc = "analyze"
  /\ \/ /\ \A t \in Held : Newest(t) => seen = t
        /\ UNCHANGED memory
     \/ \E t \in Held, signal \in Sides \union {NoSide} :
          /\ Newest(t) /\ seen # t
          /\ seen' = t
          /\ analyzed' = [upto |-> t, signal |-> signal, content |-> klines[t]]
  /\ pc' = "exits"
  /\ UNCHANGED <<clock, cache, ws, account, active, job>>

AnalyzeFails ==
  /\ pc = "analyze"
  /\ pc' = "exits"
  /\ UNCHANGED <<clock, cache, ws, memory, account, active, job>>

-----------------------------------------------------------------------------
(* Exits and locks *)

\* A lock ends with the candle after its date.
Locking(side, until) == [lock_end EXCEPT ![side] = Max({@, until + 1})]

\* The closed trade is committed before its pair is locked.
CloseTrade ==
  /\ pc = "exits" /\ sold # None
  /\ last_exit' = [last_exit EXCEPT ![position] =
       [handled |-> now, sold |-> sold, locked |-> FALSE, cooled |-> FALSE]]
  /\ job' = [kind |-> position, at |-> sold]
  /\ position' = NoSide /\ sold' = None
  /\ pc' = "lock"
  /\ UNCHANGED <<clock, cache, ws, memory, lock_end, trades, active>>

NoExits ==
  /\ pc = "exits"
  /\ pc' = "enter"
  /\ UNCHANGED <<clock, cache, ws, memory, account, active, job>>

AutoLock ==
  /\ pc = "lock"
  /\ lock_end' = Locking(job.kind, now)
  /\ last_exit' = [last_exit EXCEPT ![job.kind] = [@ EXCEPT !.handled = now, !.locked = TRUE]]
  /\ pc' = "protect"
  /\ UNCHANGED <<clock, cache, ws, memory, position, sold, trades, active, job>>

\* Mutant: the cooldown ends one candle early.
CooldownEndEarly == job.at + Cooldown - 1

\* The cooldown locks both sides, counted from the fill, when the trade is
\* found within the lookback and no such lock lasts as long.
CooldownEnd == job.at + Cooldown

LockedLonger == lock_end[Both] > CooldownEnd

Noted(found) == [last_exit EXCEPT ![job.kind] = [@ EXCEPT !.cooled = found]]

\* No cooldown is due, or a lock that is there lasts as long.
Protect ==
  /\ pc = "protect"
  /\ now - job.at < Lookback => LockedLonger
  /\ last_exit' = Noted(now - job.at < Lookback)
  /\ job' = NoJob /\ pc' = "enter"
  /\ UNCHANGED <<clock, cache, ws, memory, lock_end, position, sold, trades, active>>

\* A restart finds the trades and the locks in the database.
Restarted ==
  /\ klines' = Empty /\ last_refresh' = None
  /\ feed' = NoFeed /\ watching' = FALSE
  /\ seen' = None /\ analyzed' = Blank
  /\ active' = FALSE /\ job' = NoJob /\ pc' = "refresh"

\* A new lock is committed, and the message about it reads attributes that a
\* PairLock does not have: nothing catches the error and the process ends.
ProtectDies ==
  /\ pc = "protect"
  /\ now - job.at <= Lookback /\ ~LockedLonger
  /\ lock_end' = Locking(Both, CooldownEnd)
  /\ last_exit' = Noted(TRUE)
  /\ Restarted
  /\ UNCHANGED <<clock, position, sold, trades>>

-----------------------------------------------------------------------------
(* Entries *)

\* Mutant: the locks are those of the current time.
LockedNow(side) == Max({lock_end[side], lock_end[Both]}) > now

\* is_pair_locked with candle_date: at the candle after the signal's.
Locked(side) == Max({lock_end[side], lock_end[Both]}) > analyzed.upto + 1

Outdated == now - analyzed.upto > MaxAge

Enter ==
  /\ pc = "enter"
  /\ active /\ position = NoSide
  /\ analyzed.signal # NoSide /\ ~Outdated
  /\ ~Locked(analyzed.signal)
  /\ position' = analyzed.signal
  /\ trades' = trades + 1
  /\ pc' = "refresh"
  /\ UNCHANGED <<clock, cache, ws, memory, lock_end, sold, last_exit, active, job>>

NoEntry ==
  /\ pc = "enter"
  /\ pc' = "refresh"
  /\ UNCHANGED <<clock, cache, ws, memory, account, active, job>>

Crash == Restarted /\ UNCHANGED <<clock, account>>

-----------------------------------------------------------------------------
Init ==
  /\ now = Start
  /\ untraded \in {S \in SUBSET (1..Horizon) : Cardinality(S) <= MaxUntraded}
  /\ enable_ws \in BOOLEAN
  /\ klines = Empty /\ last_refresh = None
  /\ feed = NoFeed /\ watching = FALSE
  /\ seen = None /\ analyzed = Blank
  /\ lock_end = [s \in Sides \union {Both} |-> 0]
  /\ position \in Sides \union {NoSide} /\ sold = None
  /\ last_exit = [s \in Sides |-> NoExit] /\ trades = 0
  /\ active = FALSE /\ job = NoJob /\ pc = "refresh"

Next ==
  \/ Tick \/ FeedMessage \/ FeedStops \/ Sell
  \/ Refresh \/ FetchRest \/ FetchFeed \/ FetchFails
  \/ Analyze \/ AnalyzeFails
  \/ CloseTrade \/ NoExits \/ AutoLock \/ Protect \/ ProtectDies
  \/ Enter \/ NoEntry \/ Crash

Symmetry == Permutations(Sides)

Spec == Init /\ [][Next]_vars

-----------------------------------------------------------------------------
(* Properties *)

\* Every variable has its type (the attributes of the live classes named
\* above).
TypeOK ==
  /\ now \in Start..Horizon /\ untraded \subseteq 1..Horizon /\ enable_ws \in BOOLEAN
  /\ Held \subseteq 0..now /\ \A t \in Held : klines[t] \in Content
  /\ last_refresh \in -1..now
  /\ feed = NoFeed \/ (feed.lo \in 0..now /\ feed.hi \in feed.lo..now)
  /\ watching \in BOOLEAN /\ (watching => enable_ws)
  /\ seen \in -1..now
  /\ analyzed \in [upto : -1..now, signal : Sides \union {NoSide}, content : Content]
  /\ lock_end \in [Sides \union {Both} -> 0..(Horizon + Cooldown + 1)]
  /\ position \in Sides \union {NoSide} /\ sold \in -1..now
  /\ last_exit \in [Sides -> [handled : -1..now, sold : -1..now,
                              locked : BOOLEAN, cooled : BOOLEAN]]
  /\ trades \in 0..MaxTrades /\ active \in BOOLEAN
  /\ pc \in {"refresh", "fetch", "analyze", "exits", "lock", "protect", "enter"}

\* When process() takes the cache for current (_now_is_time_to_refresh), it
\* does hold every candle that has closed.
CacheIsCurrent == TimeToRefresh \/ (Min(Held)..(now - 1)) \subseteq Held

\* Without a feed a zero-volume candle stands in the cache only for a candle
\* nobody traded in: whatever was skipped, failed or late, the one call of a
\* refresh never leaves a hole that is then filled up (_build_coroutine).
NoFabricated ==
  /\ TypeOK /\ CacheIsCurrent
  /\ ~enable_ws => \A t \in Held : klines[t] = "filled" => t \in untraded

Entering == position = NoSide /\ position' # NoSide

\* Entries are made on finished, traded candles; a feed may have delivered
\* the last candle in part (create_trade).
ClosedSignals ==
  [][Entering => IF enable_ws THEN analyzed.upto < now
                              ELSE analyzed.content = "final"]_vars

\* Once an exit has locked its side, no entry on that side uses a candle that
\* had closed before, whatever was analyzed when and after any restart
\* ("Lock pair for one candle to prevent immediate re-entries").
NoReentryOnOldSignal ==
  [][Entering /\ last_exit[position'].locked
       => analyzed.upto >= last_exit[position'].handled]_vars

\* After an exit that was handled within the lookback, neither side enters on
\* a candle that closed before the cooldown was over (CooldownPeriod).
CooldownHolds ==
  [][Entering => \A s \in Sides : last_exit[s].cooled
       => analyzed.upto >= last_exit[s].sold + Cooldown]_vars
=============================================================================
