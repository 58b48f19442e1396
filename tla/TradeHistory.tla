---------------------------- MODULE TradeHistory ----------------------------
(***************************************************************************)
(* The public trades of one pair as freqtrade collects them: for the file  *)
(* that download-data --dl-trades keeps (history_utils.py) or, in a bot    *)
(* that uses public trades, for the list in memory and its "-cached" file  *)
(* (exchange.py).  Both go through _async_get_trade_history, which pages   *)
(* by trade id and, on Binance, first reads the daily archives of          *)
(* binance_public_data.py.  The market trades on between any two calls.    *)
(* Trades are numbered by their id, tape[k] is the time of trade k.        *)
(***************************************************************************)
EXTENDS Integers, Sequences, FiniteSets, SequencesExt, Subsequences

CONSTANTS
  LastMoment,       \* bound: the last moment of the market
  MaxTrades,        \* bound: trades of the market
  ArchiveDay,       \* moments of a day, the unit of the archives
  ReplySize,        \* trades of one reply of the exchange
  Back,             \* how far a download goes back behind the last trade
  NewPairSpan,      \* new_pairs_days, in moments
  Window,           \* moments the candles of a bot need trades for
  Delay,            \* bound: moments and trades that pass during a download
  AskedDates,       \* the start and stop dates a user asks for
  Venues,           \* ways to fetch, see VenueAssumption
  Modes             \* what runs: "download" or "live"

NoId == 0

ASSUME MarketAssumption ==
  /\ LastMoment \in Nat \ {0} /\ MaxTrades \in Nat /\ ArchiveDay \in Nat \ {0}
  /\ Back \in Nat /\ NewPairSpan \in Nat /\ Window \in Nat /\ Delay \in Nat
  /\ AskedDates \subseteq 1..LastMoment
ASSUME ModesAssumption == Modes \subseteq {"download", "live"}
\* Binance with its archives, Binance with only_from_ccxt, and Kraken.
ASSUME VenueAssumption == Venues \subseteq {"binance", "ccxt", "kraken"}
\* A page that begins with the trade it was asked from must hold another.
ASSUME LimitAssumption == ReplySize \in Nat \ {0, 1}

VARIABLES
  venue, mode,      \* what is configured
  clock,            \* the time
  tape,             \* the market's trades: id -> time
  file,             \* the stored trades, in the order of the file
  inTrades, mem,    \* whether the pair is in _trades, and what it holds
  step,             \* the step of the download
  request,          \* its arguments
  base,             \* the trades it goes on from
  fetched,          \* trades fetched so far
  dates,            \* days of the archive still to be read
  cursor            \* from_id

exchange == <<venue, mode, clock, tape>>
memory == <<inTrades, mem>>
fetching == <<fetched, dates, cursor>>
tradeVars == <<exchange, file, memory, step, request, base, fetching>>

Ids == 1..Len(tape)
NoRequest == [asked |-> 0, since |-> 0, until |-> 0, known |-> 0, begun |-> 0]
Busy == {"listing", "archive", "days", "startup", "pages", "write", "writing"}

-----------------------------------------------------------------------------
(* Trades and replies *)

\* trades_df_remove_duplicates: of equal rows the first is kept.
RemoveDuplicates(s) ==
  Subsequence(s, {i \in DOMAIN s : \A j \in 1..i - 1 : s[j] # s[i]})

\* One reply: the market's trades from the k-th on.
Page(k) ==
  LET left == Len(tape) - k + 1
  IN  [i \in 1..(IF left < ReplySize THEN left ELSE ReplySize) |-> k + i - 1]
FirstSince(t) == Cardinality({k \in Ids : tape[k] < t}) + 1
LatestTrades == Page(IF Len(tape) < ReplySize THEN 1 ELSE Len(tape) - ReplySize + 1)

\* The next reply after the last: Binance repeats the trade it is asked
\* from, Kraken goes on behind it, and without an id sends the latest.
Overlap == venue # "kraken"
NextPage == IF Overlap THEN Page(cursor)
            ELSE IF cursor = NoId THEN LatestTrades ELSE Page(cursor + 1)
Trimmed(t) == IF Overlap /\ t # <<>> THEN Front(t) ELSE t

DayOf(t) == t \div ArchiveDay
DayTrades(day) == Subsequence([k \in Ids |-> k], {k \in Ids : DayOf(tape[k]) = day})

-----------------------------------------------------------------------------
(* The market and the start of a download *)

TradesInit ==
  /\ venue \in Venues /\ mode \in Modes /\ clock = 1 /\ tape = <<>>
  /\ file = <<>> /\ inTrades = FALSE /\ mem = <<>> /\ step = "idle" /\ request = NoRequest
  /\ base = <<>> /\ fetched = <<>> /\ dates = {} /\ cursor = NoId

\* The market moves where a download looks at it: a move at another step
\* commutes to the next of these.
Looking == {"idle", "archive", "startup", "pages"}

ClockTick == /\ clock < LastMoment /\ clock' = clock + 1
        /\ step \in Looking /\ (step # "idle" => clock - request.begun < Delay)
        /\ UNCHANGED <<venue, mode, tape, file, memory, step, request, base, fetching>>

NewTrade == /\ Len(tape) < MaxTrades /\ tape' = Append(tape, clock)
          /\ step \in Looking /\ (step # "idle" => Len(tape) - request.known < Delay)
          /\ UNCHANGED <<venue, mode, clock, file, memory, step, request, base, fetching>>

AtLeastFirst(t) == IF t < 1 THEN 1 ELSE t

\* _async_get_trade_history: archives first on Binance, for which a pair
\* without an id is looked up; an id Kraken does not accept starts by time.
StartOf(from) ==
  CASE venue = "binance" -> IF from = NoId THEN {"listing"} ELSE {"archive"}
    [] venue = "ccxt" -> IF from = NoId THEN {"startup"} ELSE {"pages"}
    [] venue = "kraken" -> IF from = NoId THEN {"startup"} ELSE {"startup", "pages"}

Start(asked, since, until, stored) ==
  LET from == IF stored = <<>> THEN NoId ELSE Last(stored) IN
  /\ request' = [asked |-> asked, since |-> since, until |-> until,
             known |-> Len(tape), begun |-> clock]
  /\ base' = stored /\ cursor' = from /\ step' \in StartOf(from)

\* Mutant: going on right behind the last trade instead of 5 seconds before.
SinceBehind(start, stored) ==
  IF stored # <<>> /\ start < tape[Last(stored)] THEN tape[Last(stored)] + 1
  ELSE IF start = NoId THEN AtLeastFirst(clock - NewPairSpan) ELSE start

StartingFrom(start, stored) ==
  IF stored # <<>> /\ start < tape[Last(stored)] THEN AtLeastFirst(tape[Last(stored)] - Back)
  ELSE IF start = NoId THEN AtLeastFirst(clock - NewPairSpan) ELSE start

\* A start before the stored trades is refused.
Download ==
  /\ step = "idle" /\ mode = "download"
  /\ \E start, stop \in AskedDates \union {NoId}, erase \in BOOLEAN :
       LET stored == IF erase THEN <<>> ELSE file IN
       /\ stored # <<>> /\ start # NoId => start >= tape[Head(stored)]
       /\ file' = stored
       /\ Start(IF start # NoId THEN start
                ELSE IF stored # <<>> THEN tape[Head(stored)] ELSE StartingFrom(start, stored),
                StartingFrom(start, stored), IF stop = NoId THEN clock ELSE stop, stored)
  /\ UNCHANGED <<exchange, memory, fetched, dates>>

\* The cached file is used when it reaches across the first trade needed.
CacheFor(first) ==
  IF file # <<>> /\ tape[Last(file)] > first /\ tape[Head(file)] <= first
  THEN RemoveDuplicates(file) ELSE <<>>

\* A bot refreshes once a candle has closed since the newest trade it has;
\* when it has aged out all of them the look at that trade raises.
Refresh ==
  /\ step = "idle" /\ mode = "live"
  /\ inTrades => mem # <<>> /\ tape[Last(mem)] < clock
  /\ LET first == AtLeastFirst(clock - Window)
         stored == IF inTrades THEN mem ELSE CacheFor(first)
     IN Start(first + 1, IF ~inTrades /\ stored # <<>> THEN tape[Last(stored)] ELSE first,
              clock, stored)
  /\ UNCHANGED <<exchange, file, memory, fetched, dates>>

-----------------------------------------------------------------------------
(* The archives of Binance *)

\* Without an id the pair's first trade bounds the archives to be read.
Listing ==
  /\ step = "listing" /\ tape # <<>>
  /\ step' = "archive"
  /\ request' = [request EXCEPT !.since = IF @ < tape[1] THEN tape[1] ELSE @]
  /\ UNCHANGED <<exchange, file, memory, base, fetching>>

\* Days are counted from the start; the last two have no archive yet.
OpenArchive ==
  /\ step = "archive" /\ step' = "days"
  /\ LET newest == clock - 2 * ArchiveDay
         end == IF request.until < newest THEN request.until ELSE newest
         first == DayOf(request.since)
     IN  dates' = IF request.since >= end THEN {}
                  ELSE first..(first + (end - request.since) \div ArchiveDay)
  /\ UNCHANGED <<exchange, file, memory, request, base, fetched, cursor>>

Earliest(S) == CHOOSE t \in S : \A u \in S : t <= u

\* The days are requested at once and awaited in their order.
ReadDay ==
  /\ step = "days" /\ dates # {}
  /\ fetched' = fetched \o DayTrades(Earliest(dates))
  /\ dates' = dates \ {Earliest(dates)}
  /\ UNCHANGED <<exchange, file, memory, step, request, base, cursor>>

\* A day that is missing or fails ends the archive; later days are dropped.
MissingDay ==
  /\ step = "days" /\ dates # {} /\ dates' = {}
  /\ UNCHANGED <<exchange, file, memory, step, request, base, fetched, cursor>>

\* The exchange is asked for what comes after the archive.
ArchiveRead ==
  /\ step = "days" /\ dates = {}
  /\ LET endTime == IF fetched = <<>> THEN request.since ELSE tape[Last(fetched)]
         endId == IF fetched = <<>> THEN cursor ELSE Last(fetched)
     IN /\ cursor' = endId
        /\ step' = IF endTime >= request.until THEN "write"
                 ELSE IF endId = NoId THEN "startup" ELSE "pages"
  /\ UNCHANGED <<exchange, file, memory, request, base, fetched, dates>>

-----------------------------------------------------------------------------
(* Paging *)

\* The first page by time; Binance starts from the first trade of all when
\* it has none since then.
Startup ==
  /\ step = "startup" /\ step' = "pages"
  /\ LET t == Page(FirstSince(request.since)) IN
     /\ fetched' = fetched \o Trimmed(t)
     /\ cursor' = IF t # <<>> THEN Last(t) ELSE IF Overlap THEN 1 ELSE NoId
  /\ UNCHANGED <<exchange, file, memory, request, base, dates>>

\* Mutant: the end is noticed by an empty page only.
PageOn ==
  /\ step = "pages"
  /\ LET t == NextPage IN
     IF t = <<>> THEN step' = "write" /\ UNCHANGED <<fetched, cursor>>
     ELSE LET done == tape[Last(t)] > request.until IN
          /\ fetched' = fetched \o Trimmed(t) \o (IF done /\ Overlap THEN <<Last(t)>> ELSE <<>>)
          /\ cursor' = Last(t)
          /\ step' = IF done THEN "write" ELSE "pages"
  /\ UNCHANGED <<exchange, file, memory, request, base, dates>>

\* Mutant: the last trade of the last page, the key of a next one, is lost.
PageDropLast ==
  /\ step = "pages"
  /\ LET t == NextPage IN
     IF t = <<>> THEN step' = "write" /\ UNCHANGED <<fetched, cursor>>
     ELSE /\ fetched' = fetched \o Trimmed(t)
          /\ cursor' = Last(t)
          /\ step' = IF cursor = Last(t) \/ tape[Last(t)] > request.until THEN "write" ELSE "pages"
  /\ UNCHANGED <<exchange, file, memory, request, base, dates>>

\* The last trade of a page is the key of the next page and comes with it,
\* or is added when there is none.
FetchTrades ==
  /\ step = "pages"
  /\ LET t == NextPage IN
     IF t = <<>> THEN step' = "write" /\ UNCHANGED <<fetched, cursor>>
     ELSE LET done == cursor = Last(t) \/ tape[Last(t)] > request.until IN
          /\ fetched' = fetched \o Trimmed(t) \o (IF done /\ Overlap THEN <<Last(t)>> ELSE <<>>)
          /\ cursor' = Last(t)
          /\ step' = IF done THEN "write" ELSE "pages"
  /\ UNCHANGED <<exchange, file, memory, request, base, dates>>

\* Ctrl-C while a page is awaited: what was fetched so far is stored.
Interrupt ==
  /\ step = "pages" /\ mode = "download" /\ step' = "write"
  /\ request' = [request EXCEPT !.until = 0]
  /\ UNCHANGED <<exchange, file, memory, base, fetching>>

-----------------------------------------------------------------------------
(* The end of a download *)

Ended ==
  /\ step' = "idle" /\ request' = NoRequest
  /\ base' = <<>> /\ fetched' = <<>> /\ dates' = {} /\ cursor' = NoId

\* A request fails for good, or the first trade of a pair without trades is
\* looked up: nothing is stored.
Fail ==
  /\ step \in {"listing", "startup", "pages"}
  /\ Ended /\ UNCHANGED <<exchange, file, memory>>
NotListed ==
  /\ step = "listing" /\ tape = <<>>
  /\ Ended /\ UNCHANGED <<exchange, file, memory>>

NotBefore(t, s) == Subsequence(s, {i \in DOMAIN s : tape[s[i]] >= t})

\* Mutant: rows that were stored already are stored again.
JoinedRaw ==
  IF inTrades THEN NotBefore(request.asked, base \o fetched) ELSE base \o fetched

\* What is kept: joined to what the download went on from; a bot also ages
\* out trades, but not in its first refresh.
JoinedTrades ==
  IF mode = "download" THEN RemoveDuplicates(base \o fetched)
  ELSE IF ~inTrades THEN base \o fetched
  ELSE NotBefore(request.asked, RemoveDuplicates(base \o fetched))

\* Without new trades a bot keeps what it has; the file is opened for
\* writing otherwise.
OpenFile ==
  /\ step = "write"
  /\ IF mode = "live" /\ fetched = <<>> THEN Ended /\ UNCHANGED memory
     ELSE /\ step' = "writing" /\ base' = JoinedTrades
          /\ inTrades' = (mode = "live")
          /\ mem' = IF mode = "live" THEN JoinedTrades ELSE mem
          /\ UNCHANGED <<request, fetching>>
  /\ UNCHANGED <<exchange, file>>

FileWritten ==
  /\ step = "writing" /\ file' = base
  /\ Ended /\ UNCHANGED <<exchange, memory>>

\* Killed: a file that is not written to its end counts as empty.
Killed ==
  /\ step # "idle" \/ inTrades
  /\ file' = IF step = "writing" THEN <<>> ELSE file
  /\ inTrades' = FALSE /\ mem' = <<>> /\ Ended /\ UNCHANGED exchange

Steps ==
  \/ Listing \/ NotListed \/ OpenArchive \/ ReadDay \/ MissingDay \/ ArchiveRead
  \/ Startup \/ FetchTrades \/ OpenFile \/ FileWritten

TradesNext == ClockTick \/ NewTrade \/ Download \/ Refresh \/ Steps \/ Interrupt \/ Fail \/ Killed

TradesSpec == TradesInit /\ [][TradesNext]_tradeVars
\* A download takes its next step in the end; it need not fail, nor is the
\* market obliged to trade.
FairSpec == TradesSpec /\ WF_tradeVars(Steps)

-----------------------------------------------------------------------------
(* Properties *)

\* Every variable holds a value of its type, only trades that happened are
\* held, and the file of a download holds each once.
TradesTyped ==
  /\ venue \in Venues /\ mode \in Modes /\ clock \in 1..LastMoment
  /\ tape \in Seq(1..clock) /\ \A j, k \in Ids : j <= k => tape[j] <= tape[k]
  /\ inTrades \in BOOLEAN
  /\ step \in Busy \union {"idle"} /\ cursor \in Ids \union {NoId, 1} /\ dates \subseteq Nat
  /\ request \in [asked : 0..(LastMoment + 1), since : 0..LastMoment, until : 0..LastMoment,
                  known : 0..Len(tape), begun : 0..clock]
  /\ \A s \in {file, mem, base, fetched} : s \in Seq(Ids)
  /\ mode = "download" => IsInjective(file)

Contiguous(S) == \A i, j \in S : i..j \subseteq S

\* The user asked for a start after the last stored trade; or the seconds a
\* download goes back reach before the first one, and it stops before that.
Late == base # <<>> /\ request.asked > tape[Last(base)]
CutBehind ==
  base # <<>> /\ request.since <= tape[Head(base)] /\ request.until < tape[Head(base)]

\* Trades that follow each other on the exchange do so in what is stored:
\* archives, pages and what is there already join without a hole, whichever
\* of them is cut short.
NoGaps ==
  [][step = "write" /\ step' = "writing" /\ Contiguous(ToSet(base)) /\ ~Late /\ ~CutBehind
       => Contiguous(ToSet(base'))]_tradeVars

\* A download that was neither cut short nor failed has all the trades of the
\* time it was asked for that the market had when it began, from the first
\* stored one on.
Complete ==
  [][step = "write" /\ step' = "writing" /\ Contiguous(ToSet(base))
       => \A k \in 1..request.known :
            /\ request.asked <= tape[k] /\ tape[k] < request.until
            /\ base # <<>> => k >= Head(base)
            => k \in ToSet(base')]_tradeVars

\* Paging comes to an end: at the newest trade or behind the stop date.
DownloadEnds == (step # "idle") ~> (step = "idle")
=============================================================================
