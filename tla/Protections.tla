---------------------------- MODULE Protections ----------------------------
(***************************************************************************)
(* The protections of plugins/protections and their manager: after a trade *)
(* has closed each handler looks at the trades that closed lately and may  *)
(* lock the pair, or all pairs, until some time; entries look at the locks *)
(* in the database.  Time is counted in candles; a step may happen at any  *)
(* moment within the candle `now'.  Long trades only.                      *)
(***************************************************************************)
EXTENDS Integers, Sequences, FiniteSets, FiniteSetsExt

CONSTANTS
  Pairs,
  Horizon,          \* bound: the last candle
  MaxCloses,        \* bound: trades that close
  StopDuration,     \* stop_duration of the handlers, in candles
  Cooldown,         \* the one of CooldownPeriod
  Lookback,         \* lookback_period
  TradeLimit,       \* trade_limit of StoplossGuard
  MaxAllowed        \* max_allowed_drawdown, in losses of one trade

All == "*"

ASSUME PairsAssumption == All \notin Pairs /\ IsFiniteSet(Pairs)
ASSUME LimitsAssumption ==
  /\ Horizon \in Nat /\ MaxCloses \in Nat /\ StopDuration \in Nat /\ Cooldown \in Nat
  /\ Lookback \in Nat /\ TradeLimit \in Nat \ {0} /\ MaxAllowed \in Nat

VARIABLES
  now,              \* the candle in progress
  handlers,         \* the protections that are configured, fixed
  closed,           \* the closed trades, in the order of their dates
  leaving,          \* the pair of the trade that is being closed
  auto_end,         \* per pair: the end of its longest auto lock (side long)
  lock_end          \* per pair and for all: the end of its longest lock (side *)

protections == <<handlers, closed, leaving, auto_end, lock_end>>

Handlers == {"StoplossGuard", "LowProfitPairs", "MaxDrawdown", "CooldownPeriod"}

\* Closed by a stop at a loss, otherwise at a loss, or with a profit.
Outcomes == {"stop", "loss", "profit"}

\* How far handle_protections came for it: the locks of the pair, those of all
\* (history).
Stages == {"none", "pair", "all"}

Profit(i) == IF closed[i].outcome = "profit" THEN 1 ELSE -1

-----------------------------------------------------------------------------
(* What the handlers see and what they ask for: the ends of locks *)

\* close_date > look_back_until; of a trade that closed Lookback candles ago
\* the moments within the candles decide.
Found(edge) == {i \in DOMAIN closed : now - closed[i].at < Lookback} \union edge
Edges == SUBSET {i \in DOMAIN closed : now - closed[i].at = Lookback}

OfPair(S, pair) == {i \in S : closed[i].pair = pair}
Stops(S) == {i \in S : closed[i].outcome = "stop"}

CalculateLockEnd(S, duration) == Max({closed[i].at : i \in S}) + duration

\* Mutant: the limit must be exceeded.
StoplossGuardLate(S) ==
  IF "StoplossGuard" \in handlers /\ Cardinality(Stops(S)) > TradeLimit
  THEN {CalculateLockEnd(Stops(S), StopDuration)} ELSE {}

StoplossGuard(S) ==
  IF "StoplossGuard" \in handlers /\ Cardinality(Stops(S)) >= TradeLimit
  THEN {CalculateLockEnd(Stops(S), StopDuration)} ELSE {}

LowProfit(S) ==
  IF "LowProfitPairs" \in handlers /\ S # {} /\ MapThenSumSet(Profit, S) < 0
  THEN {CalculateLockEnd(S, StopDuration)} ELSE {}

CooldownPeriod(S) ==
  IF "CooldownPeriod" \in handlers /\ S # {} THEN {CalculateLockEnd(S, Cooldown)} ELSE {}

\* calculate_max_drawdown: how far the sum of the profits lies below the
\* highest one before, which is at least 0.
Cumulative(S, i) == MapThenSumSet(Profit, {j \in S : j <= i})
HighValue(S, i) == Max({0} \union {Cumulative(S, j) : j \in {k \in S : k <= i}})
DrawdownAbs(S) == Max({0} \union {HighValue(S, i) - Cumulative(S, i) : i \in S})

MaxDrawdown(S) ==
  IF "MaxDrawdown" \in handlers /\ S # {} /\ DrawdownAbs(S) > MaxAllowed
  THEN {CalculateLockEnd(S, StopDuration)} ELSE {}

StopPerPair(S) == StoplossGuard(S) \union LowProfit(S) \union CooldownPeriod(S)
GlobalStop(S) == StoplossGuard(S) \union MaxDrawdown(S)

-----------------------------------------------------------------------------
(* Locks *)

\* A lock ends with the candle after its date.
LockPair(x, untils) == [lock_end EXCEPT ![x] = Max({@} \union {u + 1 : u \in untils})]

IsGlobalLock(at) == lock_end[All] > at

\* Locks of both sides only: the auto lock does not count.
IsPairLocked(pair, at) == lock_end[pair] > at \/ IsGlobalLock(at)

\* For an entry on the long side.
EntryLocked(pair, at) == auto_end[pair] > at \/ IsPairLocked(pair, at)

\* The manager locks unless a lock that is there lasts as long.
NewPairLocks(pair, S) == {u \in StopPerPair(OfPair(S, pair)) : ~IsPairLocked(pair, u)}
NewGlobalLocks(S) == {u \in GlobalStop(S) : ~IsGlobalLock(u)}

-----------------------------------------------------------------------------
(* The steps of a close, for the composition *)

\* Without handlers nobody looks at closed trades, and none are recorded.
Close(pair, outcome) ==
  /\ Len(closed) < MaxCloses
  /\ leaving' = pair
  /\ closed' = IF handlers = {} THEN closed
               ELSE Append(closed, [pair |-> pair, at |-> now, outcome |-> outcome,
                                    handled |-> now, stage |-> "none"])
  /\ UNCHANGED <<now, handlers, auto_end, lock_end>>

AutoLockPair ==
  /\ auto_end' = [auto_end EXCEPT ![leaving] = Max({@, now + 1})]
  /\ UNCHANGED <<now, handlers, closed, lock_end, leaving>>

Reached(stage) ==
  /\ closed' = [i \in DOMAIN closed |-> IF i < Len(closed) THEN closed[i]
                                        ELSE [closed[i] EXCEPT !.handled = now, !.stage = stage]]
  /\ leaving' = All

\* A lock of the pair is made: the message about it reads attributes that a
\* PairLock does not have, and the error ends the process; the global stops are
\* not asked for.
StopsPair(S) ==
  /\ NewPairLocks(leaving, S) # {}
  /\ lock_end' = LockPair(leaving, NewPairLocks(leaving, S))
  /\ Reached("pair")
  /\ UNCHANGED <<now, handlers, auto_end>>

\* The same with a lock of all pairs.
StopsAll(S) ==
  /\ NewPairLocks(leaving, S) = {} /\ NewGlobalLocks(S) # {}
  /\ lock_end' = LockPair(All, NewGlobalLocks(S))
  /\ Reached("all")
  /\ UNCHANGED <<now, handlers, auto_end>>

StopsNothing(S) ==
  /\ NewPairLocks(leaving, S) = {} /\ NewGlobalLocks(S) = {}
  /\ Reached("all")
  /\ UNCHANGED <<now, handlers, auto_end, lock_end>>

ProtectionsInit ==
  /\ closed = <<>> /\ leaving = All
  /\ auto_end = [p \in Pairs |-> 0]
  /\ lock_end = [x \in Pairs \union {All} |-> 0]

ProtectionsTyped ==
  /\ now \in 0..Horizon /\ handlers \subseteq Handlers
  /\ Len(closed) <= MaxCloses /\ leaving \in Pairs \union {All}
  /\ \A i \in DOMAIN closed :
       /\ closed[i].pair \in Pairs /\ closed[i].at \in 0..now
       /\ closed[i].outcome \in Outcomes /\ closed[i].stage \in Stages
       /\ closed[i].handled \in closed[i].at..now
  /\ auto_end \in [Pairs -> Nat]
  /\ lock_end \in [Pairs \union {All} -> Nat]
=============================================================================
