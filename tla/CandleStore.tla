---------------------------- MODULE CandleStore ----------------------------
(***************************************************************************)
(* The candle file of one pair and timeframe under download-data:          *)
(* _download_pair_history of data/history/history_utils.py with the        *)
(* parallel quick download, the paged fetch of exchange.py, the archives   *)
(* that binance.py reads first, the cleaning of data/converter and the     *)
(* file written and read by the data handlers.                             *)
(* Candles are numbered by their open time; the candle `now' is still in   *)
(* progress, and time goes on between any two steps of a download, however *)
(* many candles close meanwhile: the pages of one download may tell of     *)
(* quite different times.                                                  *)
(***************************************************************************)
EXTENDS Integers, FiniteSets, FiniteSetsExt

CONSTANTS
  Horizon,          \* bound: the last candle of the exchange
  Limit,            \* ohlcv_candle_limit: candles of one reply
  DayLen,           \* candles of a day, the unit of the archives
  Archives,         \* exchanges: TRUE for Binance, which has archives
  NewDays,          \* new_pairs_days, in candles
  Dates,            \* the start and stop dates a user asks for
  Quiet,            \* bound: candles in which it may be that nobody trades
  Crashing          \* whether the download may be killed

None == -1

ASSUME BoundsAssumption ==
  /\ Horizon \in Nat /\ Limit \in Nat \ {0} /\ NewDays \in Nat
  /\ DayLen \in Nat \ {0} /\ Archives \subseteq BOOLEAN
  /\ Quiet \subseteq 0..Horizon /\ Crashing \in BOOLEAN
ASSUME DatesAssumption == Dates \subseteq 0..Horizon

VARIABLES
  archives,         \* whether the exchange has archives
  now,              \* the candle in progress
  untraded,         \* candles the exchange never lists (no trades)
  rows,             \* the file: candle -> what is stored of it
  pc,               \* the step of the download
  job,              \* its arguments
  data,             \* the local dataframe
  fast,             \* pair_candles: the result of the quick download
  from,             \* since_ms: where the fetch starts
  arch,             \* candles read from the archives
  todo,             \* start candles of the pages still to be fetched
  got,              \* page start -> the reply
  firstReply,       \* history: the candle in progress when the first page arrived
  lastReply,        \* history: and when the latest did
  overtaken         \* history: unfinished candles in the file that were overtaken

market == <<archives, now, untraded>>
fetch == <<from, arch, todo, got>>
history == <<firstReply, lastReply, overtaken>>
vars == <<market, rows, pc, job, data, fast, fetch, history>>

\* What is stored of a candle: its final values, those it had in progress,
\* or the zero-volume candle that takes the place of one nobody traded in.
Content == {"final", "partial", "filled"}

Nothing == [t \in {} |-> "final"]
Held(df) == DOMAIN df
Jobs == [erase : BOOLEAN, prepend : BOOLEAN, parallel : BOOLEAN,
         start : Dates \union {None}, stop : Dates \union {None}]
NoJob == [erase |-> FALSE, prepend |-> FALSE, parallel |-> FALSE,
          start |-> None, stop |-> None]

-----------------------------------------------------------------------------
(* Dataframes *)

Keep(df, S) == [t \in DOMAIN df \intersect S |-> df[t]]

\* The last row is dropped, assuming it is incomplete.
DropLast(df) == IF Held(df) = {} THEN df ELSE Keep(df, Held(df) \ {Max(Held(df))})

\* Grouping by date: of two rows of one date the later has the close and
\* the larger volume.
Concat(old, new) ==
  [t \in DOMAIN old \union DOMAIN new |-> IF t \in DOMAIN new THEN new[t] ELSE old[t]]

FillMissing(df) ==
  IF Held(df) = {} THEN df
  ELSE [t \in Min(Held(df))..Max(Held(df)) |-> IF t \in Held(df) THEN df[t] ELSE "filled"]

-----------------------------------------------------------------------------
(* The exchange *)

\* The candle in progress is listed once somebody traded in it.
Listed(traded) == {t \in 0..now : t \notin untraded /\ (t = now => traded)}

Reply(S) == [t \in S |-> IF t = now THEN "partial" ELSE "final"]

\* fetch_ohlcv: the first candles from `since' on, or the latest ones.
PageFrom(since, traded) ==
  LET S == {t \in Listed(traded) : t >= since}
  IN Reply({t \in S : Cardinality({u \in S : u < t}) < Limit})
LatestPage(traded) ==
  LET S == Listed(traded)
  IN Reply({t \in S : Cardinality({u \in S : u > t}) < Limit})

\* The pages of one historic download, which are fetched at once.
PageStarts(since, until) ==
  LET end == IF until = None THEN now + 1 ELSE until
  IN {s \in since..(end - 1) : (s - since) % Limit = 0}

\* All pages sorted by date and grouped.
Collected ==
  LET all == UNION {Held(got[s]) : s \in DOMAIN got}
  IN [t \in all |-> got[Max({s \in DOMAIN got : t \in Held(got[s])})][t]]

-----------------------------------------------------------------------------
(* The download *)

Init ==
  /\ archives \in Archives /\ now = 0
  /\ untraded \in SUBSET Quiet
  /\ rows = Nothing /\ pc = "idle" /\ job = NoJob
  /\ data = Nothing /\ fast = Nothing /\ from = 0 /\ arch = Nothing
  /\ todo = {} /\ got = Nothing
  /\ firstReply = None /\ lastReply = None /\ overtaken = {}

Tick ==
  /\ now < Horizon /\ now' = now + 1
  /\ UNCHANGED <<archives, untraded, rows, pc, job, data, fast, fetch, history>>

\* One reply is enough for all that is asked for.
QuickEnough(j) ==
  /\ j.parallel /\ ~j.erase /\ ~j.prepend
  /\ j.start = None \/ j.start > now - Limit

Begin ==
  /\ pc = "idle"
  /\ \E j \in Jobs :
       /\ job' = j
       /\ pc' = IF QuickEnough(j) THEN "quick" ELSE "load"
  /\ UNCHANGED <<market, rows, data, fast, fetch, history>>

\* A reply that failed is left out of the candles of the quick download.
QuickDownload ==
  /\ pc = "quick" /\ pc' = "load"
  /\ \/ \E traded \in BOOLEAN :
          fast' = FillMissing(DropLast(
            IF job.start = None THEN LatestPage(traded) ELSE PageFrom(job.start, traded)))
     \/ fast' = Nothing
  /\ UNCHANGED <<market, rows, job, data, fetch, history>>

Stored == IF job.erase THEN Nothing ELSE rows

\* Mutant: the start date of the command wins over the stored data.
SinceStart(df) ==
  IF job.start # None THEN job.start
  ELSE IF Held(df) # {} /\ ~job.prepend THEN Max(Held(df))
  ELSE Max({0, now - NewDays})

\* A download goes on from the last candle but one, or ends at the first.
Since(df) ==
  IF Held(df) # {} /\ ~job.prepend THEN Max(Held(df))
  ELSE IF job.start # None THEN job.start
  ELSE Max({0, now - NewDays})
Until(df) == IF Held(df) # {} /\ job.prepend THEN Min(Held(df)) ELSE job.stop

\* The candles of the quick download reach back to the stored ones.
FastCovers(df) ==
  /\ Held(fast) # {} /\ Held(df) # {} /\ ~job.prepend /\ ~job.erase
  /\ Min(Held(fast)) <= Since(df)

\* Mutant: going on behind what is stored instead of fetching the newest again.
LoadAppending ==
  /\ pc = "load"
  /\ rows' = Stored /\ data' = Stored
  /\ IF FastCovers(Stored)
     THEN pc' = "store" /\ UNCHANGED <<from, fast>>
     ELSE /\ pc' = (IF archives THEN "archive" ELSE "rest")
          /\ fast' = Nothing /\ from' = Since(Stored) + 1
  /\ UNCHANGED <<market, job, arch, todo, got, history>>

Load ==
  /\ pc = "load"
  /\ rows' = Stored
  /\ data' = DropLast(Stored)
  /\ IF FastCovers(DropLast(Stored))
     THEN pc' = "store" /\ UNCHANGED <<from, fast>>
     ELSE /\ pc' = (IF archives THEN "archive" ELSE "rest")
          /\ fast' = Nothing /\ from' = Since(DropLast(Stored))
  /\ UNCHANGED <<market, job, arch, todo, got, history>>

\* For a pair without data Binance starts at its first candle.
FirstCandle(traded) ==
  LET first == Held(PageFrom(0, traded))
  IN IF Held(data) = {} /\ first # {} THEN Max({from, Min(first)}) ELSE from

\* The candles of some days from the start on, the last two days have no
\* archive yet; a day that is missing or fails ends the archive.
Days(start, until) ==
  LET end == IF until = None THEN now - 2 * DayLen ELSE Min({until, now - 2 * DayLen})
      days == {(t \div DayLen) + 1 : t \in {t \in start..end : (t - start) % DayLen = 0}}
  IN {Reply({t \in Listed(FALSE) : start <= t /\ t < end /\ t < n * DayLen}) :
        n \in IF start >= end THEN {0} ELSE days \union {0}}

\* The exchange is asked for what comes after the archive.
ReadArchive ==
  /\ pc = "archive"
  /\ \E traded \in BOOLEAN :
       LET start == FirstCandle(traded) IN
       \E days \in Days(start, Until(data)) :
         /\ arch' = days
         /\ from' = IF Held(days) = {} THEN start ELSE Max(Held(days)) + 1
  /\ pc' = "rest"
  /\ UNCHANGED <<market, rows, job, data, fast, todo, got, history>>

StartFetch ==
  /\ pc = "rest" /\ pc' = "fetch"
  /\ todo' = PageStarts(from, Until(data))
  /\ UNCHANGED <<market, rows, job, data, fast, from, arch, got, history>>

\* The pages arrive in any order.
FetchPage(s, traded) ==
  /\ pc = "fetch" /\ s \in todo
  /\ todo' = todo \ {s}
  /\ got' = [p \in DOMAIN got \union {s} |-> IF p = s THEN PageFrom(s, traded) ELSE got[p]]
  /\ firstReply' = (IF firstReply = None THEN now ELSE firstReply) /\ lastReply' = now
  /\ UNCHANGED <<market, rows, pc, job, data, fast, from, arch, overtaken>>

Idle == /\ pc' = "idle" /\ job' = NoJob /\ data' = Nothing /\ from' = 0 /\ arch' = Nothing
        /\ fast' = Nothing /\ todo' = {} /\ got' = Nothing
        /\ firstReply' = None /\ lastReply' = None

\* One page, or the look for the first candle, fails for good: the download
\* reports failure and stores nothing.
FetchFails ==
  /\ (pc = "fetch" /\ todo # {}) \/ (pc = "archive" /\ Held(data) = {})
  /\ Idle /\ UNCHANGED <<market, rows, overtaken>>

NewRows == IF Held(fast) # {} THEN fast ELSE Concat(arch, DropLast(Collected))

\* ohlcv_store opens the file for writing.
Store ==
  /\ pc = "store" \/ (pc = "fetch" /\ todo = {})
  /\ data' = IF Held(data) = {} THEN NewRows ELSE Concat(data, NewRows)
  /\ pc' = "write" /\ fast' = Nothing /\ arch' = Nothing /\ got' = Nothing
  /\ UNCHANGED <<market, rows, job, from, todo, history>>

\* The candles that had not closed when one page arrived, and were no more
\* the newest closed one when another did.
Overtaken == {t \in 0..Horizon : firstReply # None /\ firstReply <= t /\ t + 2 <= lastReply}

Unfinished(df) == {t \in Held(df) : df[t] = "partial"}

Written ==
  /\ pc = "write" /\ rows' = data
  /\ overtaken' = (overtaken \union Overtaken) \intersect Unfinished(data)
  /\ Idle /\ UNCHANGED market

\* A file that is not written to its end cannot be read: it counts as empty.
Crash ==
  /\ Crashing /\ pc # "idle"
  /\ rows' = IF pc = "write" THEN Nothing ELSE rows
  /\ Idle /\ UNCHANGED <<market, overtaken>>

Next ==
  \/ Tick \/ Begin \/ QuickDownload \/ Load \/ ReadArchive \/ StartFetch
  \/ \E s \in 0..Horizon, traded \in BOOLEAN : FetchPage(s, traded)
  \/ FetchFails \/ Store \/ Written \/ Crash

Spec == Init /\ [][Next]_vars

-----------------------------------------------------------------------------
(* Properties *)

\* Every variable holds a value of its type.
TypeOK ==
  /\ archives \in BOOLEAN /\ now \in 0..Horizon /\ untraded \subseteq 0..Horizon
  /\ pc \in {"idle", "quick", "load", "archive", "rest", "fetch", "store", "write"}
  /\ job \in Jobs
  /\ \A df \in {rows, data, fast, arch} :
       DOMAIN df \subseteq 0..Horizon /\ \A t \in DOMAIN df : df[t] \in Content
  /\ from \in 0..(Horizon + 1)
  /\ {firstReply, lastReply} \subseteq 0..Horizon \union {None} /\ overtaken \subseteq 0..Horizon
  /\ todo \subseteq 0..Horizon /\ DOMAIN got \subseteq 0..Horizon

\* A candle stored while it was in progress is the newest of the file, where
\* the next download drops and fetches it again: clean_ohlcv_dataframe drops
\* one row, "assuming it's incomplete".  Only where the pages of one download
\* arrive so far apart that the candle is overtaken is it left in the midst of
\* the file, with the values it had in progress, and never fetched again.
OnlyNewestUnfinished ==
  TypeOK /\ \A t \in Unfinished(rows) : t = Max(Held(rows)) \/ t \in overtaken

\* The settled candles: all but the newest, which is always fetched again.
Settled == Held(DropLast(rows)) \ untraded

\* The file keeps what an archive of candles promises; the candles that closed
\* between the first and the last page of a download are the only ones it may lose.
Archive == INSTANCE CandleArchive WITH clock <- now, settled <- Settled, asked <- firstReply
KeepsArchive == Archive!Spec
=============================================================================
