--------------------------- MODULE PairSelection ---------------------------
(***************************************************************************)
(* From pairlists to entries: the whitelist that pairlistmanager.py makes  *)
(* of a generator and a chain of filters in every iteration, with all that *)
(* is cached on the way, the trades of the iteration, and the protections  *)
(* that answer to their results.  A whitelist is a sequence of pairs.      *)
(***************************************************************************)
EXTENDS Protections, Subsequences, SequencesExt

CONSTANTS
  Blacklist,        \* pair_blacklist
  MaxOpen,          \* max_open_trades
  Number,           \* number_assets
  RefreshPeriod,    \* refresh_period of the handlers, in candles
  TickersTtl,       \* how long tickers are kept, in candles
  Day,              \* candles of a day
  MinDays, MaxDays, \* min_days_listed, max_days_listed
  MaxParts,         \* bound: filters, without shuffle, and a volume generator
  MaxHandlers       \* bound: protections

ASSUME SelectionAssumption ==
  /\ Blacklist \subseteq Pairs /\ MaxOpen \in Nat \ {0} /\ Number \in Nat \ {0}
  /\ RefreshPeriod \in Nat /\ TickersTtl \in Nat /\ Day \in Nat \ {0}
  /\ MinDays \in Nat \ {0} /\ MaxDays \in Nat /\ MinDays < MaxDays
  /\ MaxParts \in Nat /\ MaxHandlers \in Nat

Never == -1

VARIABLES
  generator,        \* the first pairlist handler, fixed
  filters,          \* those behind it, fixed
  born,             \* the day each pair was listed, fixed
  tickers,          \* _get_cached_tickers: their time, the pairs of wide spread
  volume,           \* _pair_cache of VolumePairList
  remote,           \* _pair_cache and _last_pairlist of RemotePairList
  checked,          \* _symbolsChecked of AgeFilter
  failed,           \* _symbolsCheckFailed: per pair the day of the entry
  shuffled,         \* __pairlist_cache of ShuffleFilter: its candle, its lists
  whitelist,        \* active_pair_whitelist
  trades,           \* per pair: no open trade, an unfilled one, a position
  pc,               \* the step of process()
  asked,            \* history: when the whitelist was last refreshed
  traded,           \* history: the pairs that had a trade then
  lingering,        \* history: those that had one earlier in that candle
  active            \* history: when each market was last known to be active

config  == <<generator, filters, born>>
caches  == <<tickers, volume, remote, checked, failed, shuffled>>
history == <<asked, traded, lingering, active>>
vars    == <<now, protections, config, caches, whitelist, trades, pc, history>>

Filters == {"age", "shuffle", "spread", "allow", "append", "block", "full"}
RemoteModes == {"allow", "append", "block"}

Lists == UNION {SetToSeqs(S) : S \in SUBSET Pairs}
Without(list, S) == Subsequence(list, {i \in DOMAIN list : list[i] \notin S})
Only(list, S) == Subsequence(list, {i \in DOMAIN list : list[i] \in S})
Top(list) == SubSeq(list, 1, Min({Len(list), Number}))

Open == {p \in Pairs : trades[p] # "none"}
Today == now \div Day

\* How old what is known of a market may be.
CachesMarkets == generator = "volume" \/ "append" \in filters
Staleness == IF CachesMarkets THEN RefreshPeriod ELSE 0

\* The next iteration makes a whitelist of its own.
NextIteration ==
  /\ pc' = "refresh"
  /\ whitelist' = <<>> /\ asked' = 0 /\ traded' = {}
  /\ active' = IF CachesMarkets THEN active ELSE [p \in Pairs |-> Never]

\* A cache that is ttl candles old: the moments within the candles decide.
MayHit(at, ttl) == at # Never /\ now - at <= ttl
MayMiss(at, ttl) == at = Never \/ now - at >= ttl

NoLists == [candle |-> Never, lists |-> [l \in {} |-> <<>>]]

-----------------------------------------------------------------------------
(* Generators; markets are the active ones of exchange.markets *)

StaticPairList(list, markets) ==
  /\ generator = "static"
  /\ list = Only(SetToSeq(Pairs), markets)
  /\ UNCHANGED volume

\* Pairs with a ticker and enough volume, the blacklisted ones left out; an
\* empty list is asked for again.
VolumePairList(list, markets) ==
  /\ generator = "volume"
  /\ \/ /\ volume.list # <<>> /\ MayHit(volume.at, RefreshPeriod)
        /\ list = volume.list
        /\ UNCHANGED volume
     \/ /\ volume.list = <<>> \/ MayMiss(volume.at, RefreshPeriod)
        /\ list \in {Top(ranked) : ranked \in {l \in Lists : ToSet(l) \subseteq markets \ Blacklist}}
        /\ volume' = [at |-> now, list |-> list]

-----------------------------------------------------------------------------
(* Filters, in the order in which the chain has them here *)

TickersNeeded == generator = "volume" \/ "spread" \in filters

GetCachedTickers ==
  \/ ~TickersNeeded /\ UNCHANGED tickers
  \/ TickersNeeded /\ MayHit(tickers.at, TickersTtl) /\ UNCHANGED tickers
  \/ /\ TickersNeeded /\ MayMiss(tickers.at, TickersTtl)
     /\ \E wide \in IF "spread" \in filters THEN SUBSET Pairs ELSE {{}} : tickers' = [at |-> now, wide |-> wide]

RightAge(pair) == Today - born[pair] \in MinDays..MaxDays

\* Only pairs that were not looked at are; of some the candles may not come.
\* One that passed is never looked at again, one that failed not on that day.
AgeFilter(list, kept) ==
  LET needed == {p \in ToSet(list) : p \notin checked /\ failed[p] # Today}
  IN  IF "age" \notin filters \/ needed = {}
      THEN /\ kept = IF "age" \in filters THEN Only(list, checked) ELSE list
           /\ UNCHANGED <<checked, failed>>
      ELSE \E got \in SUBSET needed :
             /\ checked' = checked \union {p \in got : RightAge(p)}
             /\ failed' = [p \in Pairs |-> IF p \in got /\ ~RightAge(p) THEN Today ELSE failed[p]]
             /\ kept = Only(list, checked')

\* Mutant: the lists of earlier candles are used as well.
CachedListsForever == shuffled.lists

CachedLists == IF shuffled.candle = now THEN shuffled.lists ELSE NoLists.lists

\* The list cached for this one, unless it is empty; else a new order.
ShuffleFilter(list, kept) ==
  IF "shuffle" \notin filters THEN kept = list
  ELSE IF list \in DOMAIN CachedLists /\ CachedLists[list] # <<>>
  THEN kept = CachedLists[list]
  ELSE kept \in SetToSeqs(ToSet(list))

SpreadFilter(list) == IF "spread" \in filters THEN Without(list, tickers'.wide) ELSE list

\* gen_pairlist: the list in the cache, a new one, or, when it does not come,
\* the last one again.
RemoteList(list, markets) ==
  \/ /\ remote.at # Never /\ MayHit(remote.at, RefreshPeriod)
     /\ list = remote.list
     /\ UNCHANGED remote
  \/ /\ MayMiss(remote.at, RefreshPeriod)
     /\ \/ list \in {Top(Only(pairs, markets)) : pairs \in Lists}
        \/ remote.at # Never /\ list = Top(Only(remote.list, markets))
     /\ remote' = [at |-> now, list |-> list]

RemotePairList(list, kept, markets) ==
  IF filters \intersect RemoteModes = {} THEN kept = list /\ UNCHANGED remote
  ELSE \E pairs \in Lists :
         /\ RemoteList(pairs, markets)
         /\ kept = Top(IF "allow" \in filters THEN Only(list, ToSet(pairs))
                       ELSE IF "block" \in filters THEN Without(list, ToSet(pairs))
                       ELSE list \o Without(pairs, ToSet(list)))

SlotsFull == "full" \in filters /\ Cardinality(Open) >= MaxOpen
FullTradesFilter(list) == IF SlotsFull THEN <<>> ELSE list

\* Mutant: the blacklist is left to the generators.
NotVerified(list) == list

VerifyBlacklist(list) == Without(list, Blacklist)

\* _refresh_active_whitelist: the pairs of open trades at the end.
Extended(list) == list \o SetToSeq(Open \ ToSet(list))

\* ShuffleFilter hands out the very list it caches, and what follows works on
\* that list in place until a filter makes a new one.
Cached(key, list) ==
  IF "shuffle" \in filters
  THEN [candle |-> now,
        lists |-> [l \in DOMAIN CachedLists \union {key} |-> IF l = key THEN list ELSE CachedLists[l]]]
  ELSE shuffled

Refresh ==
  /\ pc = "refresh"
  /\ GetCachedTickers
  /\ \E markets \in SUBSET Pairs, first \in Lists :
       /\ StaticPairList(first, markets) \/ VolumePairList(first, markets)
       /\ active' = [p \in Pairs |-> IF p \in markets THEN now ELSE active[p]]
       /\ \E aged, mixed \in Lists :
            /\ AgeFilter(first, aged)
            /\ ShuffleFilter(aged, mixed)
            /\ LET narrow == SpreadFilter(mixed)
               IN \E merged \in Lists :
                    /\ RemotePairList(narrow, merged, markets)
                    /\ whitelist' = Extended(VerifyBlacklist(FullTradesFilter(merged)))
                    /\ shuffled' = Cached(aged, IF SlotsFull \/ filters \intersect RemoteModes # {}
                                                THEN narrow ELSE whitelist')
  /\ asked' = now /\ traded' = Open
  /\ lingering' = IF "shuffle" \notin filters THEN {}
                  ELSE IF shuffled.candle = now THEN lingering \union Open ELSE Open
  /\ pc' = "manage"
  /\ UNCHANGED <<now, protections, config, trades>>

\* A remote list that has never come: OperationalException stops the bot.
RemoteMissing ==
  /\ pc = "refresh" /\ filters \intersect RemoteModes # {} /\ remote.at = Never
  /\ pc' = "stopped"
  /\ UNCHANGED <<now, protections, config, caches, whitelist, trades, history>>

-----------------------------------------------------------------------------
(* Time and the exchange *)

Tick ==
  /\ now < Horizon /\ pc # "stopped"
  /\ now' = now + 1
  /\ UNCHANGED <<protections, config, caches, whitelist, trades, pc, history>>

EntryFills(pair) ==
  /\ pc \in {"manage", "exits"} /\ trades[pair] = "entering"
  /\ trades' = [trades EXCEPT ![pair] = "held"]
  /\ UNCHANGED <<now, protections, config, caches, whitelist, pc, history>>

-----------------------------------------------------------------------------
(* The rest of process() *)

\* manage_open_orders: an entry that did not fill is cancelled and its trade
\* deleted; nothing is locked.
CancelEntry(pair) ==
  /\ pc = "manage" /\ trades[pair] = "entering"
  /\ trades' = [trades EXCEPT ![pair] = "none"]
  /\ UNCHANGED <<now, protections, config, caches, whitelist, pc, history>>

ManageDone ==
  /\ pc = "manage"
  /\ pc' = "exits"
  /\ UNCHANGED <<now, protections, config, caches, whitelist, trades, history>>

CloseTrade(pair) ==
  /\ pc = "exits" /\ trades[pair] = "held"
  /\ \E outcome \in IF handlers = {} THEN {"loss"} ELSE Outcomes : Close(pair, outcome)
  /\ trades' = [trades EXCEPT ![pair] = "none"]
  /\ pc' = "lock"
  /\ UNCHANGED <<config, caches, whitelist, history>>

AutoLock ==
  /\ pc = "lock"
  /\ AutoLockPair
  /\ pc' = "protect"
  /\ UNCHANGED <<config, caches, whitelist, trades, history>>

\* The trades and the locks are in the database.
Restarted ==
  /\ tickers' = [at |-> Never, wide |-> {}]
  /\ volume' = [at |-> Never, list |-> <<>>] /\ remote' = [at |-> Never, list |-> <<>>]
  /\ checked' = {} /\ failed' = [p \in Pairs |-> Never] /\ shuffled' = NoLists
  /\ NextIteration
  /\ UNCHANGED <<config, trades, lingering>>

HandleProtections ==
  /\ pc = "protect"
  /\ \E edge \in Edges :
       \/ StopsNothing(Found(edge))
          /\ pc' = "exits" /\ UNCHANGED <<config, caches, whitelist, trades, history>>
       \/ StopsPair(Found(edge)) /\ Restarted
       \/ StopsAll(Found(edge)) /\ Restarted

\* enter_positions looks for a lock of all pairs once.
ExitsDone ==
  /\ pc = "exits"
  /\ \/ /\ Cardinality(Open) < MaxOpen /\ ~IsGlobalLock(now)
        /\ pc' = "enter" /\ UNCHANGED <<whitelist, history>>
     \/ /\ Cardinality(Open) >= MaxOpen \/ IsGlobalLock(now)
        /\ NextIteration /\ UNCHANGED lingering
  /\ UNCHANGED <<now, protections, config, caches, trades>>

\* create_trade with the newest candle there can be.
Enter(pair) ==
  /\ pc = "enter" /\ pair \in ToSet(whitelist) /\ trades[pair] = "none"
  /\ Cardinality(Open) < MaxOpen
  /\ ~EntryLocked(pair, now)
  /\ trades' = [trades EXCEPT ![pair] = "entering"]
  /\ UNCHANGED <<now, protections, config, caches, whitelist, pc, history>>

EntriesDone ==
  /\ pc = "enter"
  /\ NextIteration
  /\ UNCHANGED <<now, protections, config, caches, trades, lingering>>

Crash ==
  /\ pc # "stopped"
  /\ Restarted /\ leaving' = All
  /\ UNCHANGED <<now, handlers, closed, auto_end, lock_end>>

-----------------------------------------------------------------------------
Init ==
  /\ now = 0
  /\ ProtectionsInit
  /\ handlers \in SUBSET Handlers /\ filters \in SUBSET Filters
  /\ generator \in {"static", "volume"}
  /\ Cardinality(handlers) <= MaxHandlers
  /\ Cardinality(filters \ {"shuffle"}) + (IF generator = "volume" THEN 1 ELSE 0) <= MaxParts
  /\ Cardinality(filters \intersect RemoteModes) <= 1
  /\ handlers = {} \/ (filters = {} /\ generator = "static")
  /\ born \in IF "age" \in filters THEN [Pairs -> {-MaxDays, 0}] ELSE [Pairs -> {0}]
  /\ tickers = [at |-> Never, wide |-> {}]
  /\ volume = [at |-> Never, list |-> <<>>] /\ remote = [at |-> Never, list |-> <<>>]
  /\ checked = {} /\ failed = [p \in Pairs |-> Never] /\ shuffled = NoLists
  /\ whitelist = <<>> /\ trades = [p \in Pairs |-> "none"] /\ pc = "refresh"
  /\ asked = 0 /\ traded = {} /\ lingering = {}
  /\ active = [p \in Pairs |-> Never]

Next ==
  \/ Tick \/ Refresh \/ RemoteMissing \/ ManageDone \/ AutoLock \/ HandleProtections
  \/ ExitsDone \/ EntriesDone \/ Crash
  \/ \E pair \in Pairs : EntryFills(pair) \/ CancelEntry(pair) \/ CloseTrade(pair) \/ Enter(pair)

Spec == Init /\ [][Next]_vars

-----------------------------------------------------------------------------
(* Properties *)

TypeOK ==
  /\ ProtectionsTyped
  /\ tickers.at \in Never..now /\ tickers.wide \subseteq Pairs
  /\ volume.at \in Never..now /\ volume.list \in Lists
  /\ remote.at \in Never..now /\ remote.list \in Lists
  /\ checked \subseteq Pairs /\ failed \in [Pairs -> Never..Today]
  /\ shuffled.candle \in Never..now /\ DOMAIN shuffled.lists \subseteq Lists
  /\ \A l \in DOMAIN shuffled.lists : shuffled.lists[l] \in Lists
  /\ whitelist \in Lists
  /\ trades \in [Pairs -> {"none", "entering", "held"}] /\ Cardinality(Open) <= MaxOpen
  /\ pc \in {"refresh", "manage", "exits", "lock", "protect", "enter", "stopped"}

\* The list that ShuffleFilter caches keeps the pair of a trade until the candle
\* is over.
Lingers(pair) == pair \in lingering

\* A pair that is not blacklisted, whose market was active within the refresh
\* period, whose spread was narrow when tickers were read last and that is old
\* enough, unless a remote list adds it; and none when the slots were full.
Chosen(pair) ==
  /\ pair \notin Blacklist
  /\ "full" \in filters => Cardinality(traded) < MaxOpen
  /\ Lingers(pair) \/ asked - active[pair] <= Staleness
  /\ "append" \in filters \/
       /\ "spread" \in filters => pair \notin tickers.wide
       /\ "age" \in filters /\ ~Lingers(pair) => (asked \div Day) - born[pair] >= MinDays

\* Throughout an iteration the whitelist, from which entries are taken, holds
\* chosen pairs and those that had a trade when it was made, each once, and all
\* pairs with a trade, whose candles are needed for exits (refresh_pairlist,
\* _refresh_active_whitelist), whatever caches and lists worked on in place hold.
WhitelistChosen ==
  /\ TypeOK
  /\ pc \notin {"refresh", "stopped"} =>
       /\ \A pair \in ToSet(whitelist) : pair \in traded \/ Chosen(pair)
       /\ Open \subseteq ToSet(whitelist)

Enters(pair) == trades[pair] = "none" /\ trades'[pair] = "entering"

\* The trades that were surely found when the i-th close was handled.
Behind(i) == {j \in 1..i : closed[i].handled - closed[j].at < Lookback}
Over(S, duration) == \A j \in S : now > closed[j].at + duration

LosesInARow(S, most) ==
  \E a, b \in S : MapThenSumSet(Profit, {j \in S : a <= j /\ j <= b}) < -most

\* Once the handlers have looked at a close no entry is made while what they
\* found lasts: stops of the pair and of all pairs, a drawdown, the cooldown of
\* the pair; through restarts too (ProtectionManager).  A lock of the pair ends
\* the process before the locks of all pairs are looked at.
ProtectionsHold ==
  [][\A pair \in Pairs : Enters(pair) => \A i \in DOMAIN closed :
       /\ closed[i].stage # "none" /\ closed[i].pair = pair =>
            /\ "StoplossGuard" \in handlers /\ Cardinality(Stops(OfPair(Behind(i), pair))) >= TradeLimit
                 => Over(Stops(OfPair(Behind(i), pair)), StopDuration)
            /\ "CooldownPeriod" \in handlers /\ i \in Behind(i) => Over({i}, Cooldown)
       /\ closed[i].stage = "all" =>
            /\ "StoplossGuard" \in handlers /\ Cardinality(Stops(Behind(i))) >= TradeLimit
                 => Over(Stops(Behind(i)), StopDuration)
            /\ "MaxDrawdown" \in handlers /\ LosesInARow(Behind(i), MaxAllowed)
                 => Over(Behind(i), StopDuration)]_vars
=============================================================================
