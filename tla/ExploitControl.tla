-------------------------- MODULE ExploitControl --------------------------
(***************************************************************************)
(* What decides whether an exploit may trade (freqtrade/exploits): the     *)
(* RegimeController with its RegimeDetector, the ModuleActivation-         *)
(* Coordinator over the AllocationHierarchy, the StrategyHealthTracker,    *)
(* the ExposureGovernor and the CapitalRouter.  They are plain objects and *)
(* meet in the loop of their user: each cycle detects the regime, asks the *)
(* coordinator and the health tracker which exploits to evaluate, checks   *)
(* the actions of all of them against each other and what is open, and     *)
(* opens what is left; each closed position is recorded and its profit     *)
(* routed.  Rates, sizes and multipliers are percentages, money is counted *)
(* in whole units.                                                         *)
(***************************************************************************)
EXTENDS Integers, Sequences, FiniteSets, FiniteSetsExt, Bags, TLC

CONSTANTS
  Pairs,
  Exploits,         \* exploits that are run
  Atrs,             \* volatility: "low", "mid", "high", "extreme"
  Depths,           \* order book: "thin", "normal", "crowded"
  Fundings,         \* funding rate: "neutral", "biased", "spike"
  Capital,          \* initial_capital
  BaseShare, FlowShare, ConvexityShare,  \* allocation of the pools, in quarters
  Cap,              \* convexity_buffer_cap
  Gains, Losses,    \* what a position may win or lose
  Sizes, Sides,     \* sizes and sides (long or not) exploits propose
  YellowAt, RedAt,  \* drawdown thresholds of the controller
  RegretAt,         \* max_drawdown_threshold of the detector
  EmergencyAt,      \* emergency_drawdown_threshold
  LossYellow, LossRed,      \* consecutive losses of the controller
  MinTrades,        \* min_trades_for_analysis
  MaxLosses, Critical,      \* consecutive losses that throttle, disable
  MaxMisses, CriticalMisses,
  Lookback,         \* results kept per exploit
  MaxPerSymbol, MaxDirection, MaxSameRegime, MaxStack,  \* of the governor
  MaxOpen,          \* bound: open positions
  MaxProposals,     \* bound: actions of one cycle
  MaxTrades         \* bound: closed positions

Names == {"convexity_seeding", "liquidity_tail_hunter", "flow_pressure",
          "funding_capture", "funding_skew_arb", "funding_decay"}
Pnls == Gains \cup {-l : l \in Losses}
Pools == {"base", "flow", "convexity"}

ASSUME NamesAssumption ==
  /\ Exploits \subseteq Names
  /\ Atrs \subseteq {"low", "mid", "high", "extreme"}
  /\ Depths \subseteq {"thin", "normal", "crowded"}
  /\ Fundings \subseteq {"neutral", "biased", "spike"}
ASSUME MoneyAssumption ==
  /\ Capital \in Nat \ {0} /\ Cap \in Nat /\ Sizes \subseteq Nat /\ Sides \subseteq BOOLEAN
  /\ {BaseShare, FlowShare, ConvexityShare} \subseteq Nat
  /\ BaseShare + FlowShare + ConvexityShare = 4
  /\ Gains \subseteq Nat /\ Losses \subseteq Nat
  /\ \A p \in Gains \cup Losses : p % 4 = 0
\* The detector calls for regret no earlier than the controller for RED.
ASSUME ThresholdAssumption ==
  /\ YellowAt \in 1..100 /\ RedAt \in 1..100 /\ EmergencyAt \in 1..100
  /\ RegretAt \in RedAt..100
  /\ {LossYellow, LossRed, MinTrades, MaxLosses, Critical} \subseteq Nat \ {0}
  /\ {MaxMisses, CriticalMisses, Lookback} \subseteq Nat \ {0}
  /\ {MaxPerSymbol, MaxDirection, MaxSameRegime, MaxStack} \subseteq Nat \ {0}
  /\ {MaxOpen, MaxProposals, MaxTrades} \subseteq Nat

VARIABLES
  pools,            \* CapitalRouter.pools: pool -> balance
  history,          \* routing_history: decisions, their PnL and overflow
  peak,             \* RegimeController.peak_capital
  results,          \* RegimeController.recent_trade_results
  seen,             \* RegimeDetector.peak_capital
  metrics,          \* exploit -> what the tracker counts
  status,           \* exploit -> HealthStatus
  open              \* open positions, with what the governor recorded of them

vars == <<pools, history, peak, results, seen, metrics, status, open>>

Total == pools["base"] + pools["flow"] + pools["convexity"]
Larger(a, b) == IF a > b THEN a ELSE b
Smaller(a, b) == IF a < b THEN a ELSE b

\* exploit_type, as the controller and the governor know the exploits.
Kind(x) == CASE x = "convexity_seeding" -> "convexity"
             [] x = "liquidity_tail_hunter" -> "tail"
             [] x = "flow_pressure" -> "flow"
             [] x = "funding_skew_arb" -> "funding_skew"
             [] OTHER -> x
Tails == {"convexity", "tail"}

Markets == [enough : BOOLEAN, atr : Atrs, depth : Depths, funding : Fundings]

-----------------------------------------------------------------------------
(* The regime *)

Vol(m) == IF ~m.enough \/ m.atr = "low" THEN "compressed"
          ELSE IF m.atr = "extreme" THEN "chaotic" ELSE "expanding"

\* The losses since the last profit, in the last ten results.
TrailingLosses(s) ==
  Max({n \in 0..Len(s) : n <= 10 /\ \A i \in (Len(s) - n + 1)..Len(s) : ~s[i]})

\* The drawdown counts as none while no peak has been seen.
Fell(top, percent) == top > 0 /\ 100 * (top - Total) >= percent * top
FellBelow(top, percent) == top > 0 /\ 100 * (top - Total) > percent * top

\* _detect_risk_state, which looks at the peak it has just raised.
RiskState ==
  LET top == Larger(peak, Total) IN
  IF Fell(top, RedAt) \/ TrailingLosses(results) >= LossRed THEN "red"
  ELSE IF Fell(top, YellowAt) \/ TrailingLosses(results) >= LossYellow THEN "yellow"
  ELSE "green"

\* detect_regime, in the order of its priorities; nothing is recorded in the
\* detector inside the controller, so that it never sees a streak.
Regret == FellBelow(Larger(seen, Total), RegretAt)
MarketRegime(m) ==
  IF ~m.enough THEN "unknown"
  ELSE IF Regret THEN "high_regret"
  ELSE IF m.atr \in {"high", "extreme"} THEN "vol_expansion"
  ELSE IF m.funding = "spike" THEN "funding_spike"
  ELSE "neutral_low_vol"
Confidence(m) ==
  CASE MarketRegime(m) = "unknown" -> 0
    [] MarketRegime(m) = "high_regret" -> 90
    [] MarketRegime(m) = "vol_expansion" -> 85
    [] MarketRegime(m) = "funding_spike" -> 80
    [] MarketRegime(m) = "neutral_low_vol" -> IF m.atr = "low" THEN 70 ELSE 50

\* is_exploit_allowed
Allowed(m, kind) ==
  \/ /\ RiskState = "yellow"
     /\ kind \in {"decay", "funding_capture", "funding_decay"}
  \/ /\ RiskState = "green"
     /\ kind = "convexity" => Vol(m) \in {"compressed", "expanding"}
     /\ kind = "tail" => Vol(m) = "expanding"
     /\ kind = "flow" => m.depth # "thin"

\* get_risk_weight_multiplier of what is allowed
Weight(m, kind) ==
  IF RiskState = "yellow" THEN 50
  ELSE CASE kind = "convexity" -> IF Vol(m) = "compressed" THEN 120 ELSE 150
         [] kind = "tail" -> IF m.depth = "thin" THEN 91 ELSE 130
         [] kind \in {"funding_capture", "funding_decay"} ->
              IF m.funding \in {"biased", "spike"} THEN 130 ELSE 100
         [] OTHER -> 100

-----------------------------------------------------------------------------
(* Allocation and activation *)

Baseline == {"funding_skew_arb", "funding_capture"}
Ruled == Names \ {"liquidity_tail_hunter"}

\* calculate_allocations: who gets at least one per cent.
Allocated(regime, x) ==
  regime # "high_regret" /\ (x = "funding_decay" => regime = "funding_spike")

\* _create_activation_rules
Required(x) ==
  CASE x = "funding_decay" -> {"funding_spike"}
    [] x = "convexity_seeding" -> {"vol_expansion", "neutral_low_vol"}
    [] OTHER -> {"neutral_low_vol", "flow_aligned", "funding_spike", "vol_expansion"}
MinConfidence(x) ==
  CASE x \in Baseline -> 50
    [] x = "flow_pressure" -> 60
    [] x = "funding_decay" -> 70
    [] x = "convexity_seeding" -> 80

\* determine_active_modules: the sequence matters to the decay only, which
\* comes after the baseline.
ShouldActivate(m, x) ==
  /\ Allocated(MarketRegime(m), x)
  /\ MarketRegime(m) \in Required(x) /\ Confidence(m) >= MinConfidence(x)
ActiveModules(m) ==
  IF FellBelow(Larger(peak, Total), EmergencyAt) \/ MarketRegime(m) = "high_regret" THEN {}
  ELSE {x \in Ruled : /\ ShouldActivate(m, x)
                      /\ x = "funding_decay" => \A y \in Baseline : ShouldActivate(m, y)}

-----------------------------------------------------------------------------
(* The health of an exploit *)

NoTrades == [trades |-> 0, wins |-> 0, streak |-> 0, misses |-> 0,
             pnls |-> <<>>, baseWins |-> 1, baseOf |-> 2, baseSum |-> 0, baseLen |-> 1,
             decayed |-> FALSE]
Statuses == [healthy : BOOLEAN, throttled : BOOLEAN, disabled : BOOLEAN, multiplier : Int]
Healthy == [healthy |-> TRUE, throttled |-> FALSE, disabled |-> FALSE, multiplier |-> 100]

LastOf(s, n) == SubSeq(s, Larger(1, Len(s) - n + 1), Len(s))
Of(s) == MapThenSumSet(LAMBDA i : s[i], DOMAIN s)
Squares(s) == MapThenSumSet(LAMBDA i : s[i] * s[i], DOMAIN s)
Bump(n, yes) == IF yes THEN n + 1 ELSE 0

\* record_trade's counts and _update_metrics: the baseline is what the first
\* MinTrades results were, and the decay of the win rate is only computed anew
\* against a positive baseline.
Recorded(mt, pnl, tail) ==
  LET counted == [mt EXCEPT !.trades = @ + 1,
                            !.wins = IF pnl > 0 THEN @ + 1 ELSE @,
                            !.streak = Bump(@, pnl <= 0),
                            !.misses = IF tail THEN Bump(@, pnl <= 0) ELSE @,
                            !.pnls = LastOf(Append(@, pnl), Lookback)]
      based == IF counted.trades # MinTrades THEN counted
               ELSE [counted EXCEPT !.baseWins = counted.wins, !.baseOf = MinTrades,
                                    !.baseSum = Of(counted.pnls), !.baseLen = Len(counted.pnls)]
  IN IF based.baseWins = 0 THEN based
     ELSE [based EXCEPT !.decayed = 100 * (based.baseWins * based.trades - based.wins * based.baseOf)
                                      > 15 * based.baseWins * based.trades]

\* Two standard deviations below the baseline.
Underperforms(mt) ==
  LET n == Len(mt.pnls)  drop == mt.baseSum * n - Of(mt.pnls) * mt.baseLen IN
  /\ n >= Lookback /\ mt.baseSum > 0 /\ drop > 0
  /\ LET spread == n * Squares(mt.pnls) - Of(mt.pnls) * Of(mt.pnls) IN
     spread > 0 /\ drop * drop > 4 * mt.baseLen * mt.baseLen * spread

Weak(mt) == \/ 100 * mt.wins < 35 * mt.trades
            \/ mt.decayed
            \/ Of(mt.pnls) < 0
Unhealthy(st, most) ==
  [healthy |-> FALSE, throttled |-> TRUE, disabled |-> st.disabled,
   multiplier |-> Smaller(st.multiplier, most)]
Clean(st) == [Healthy EXCEPT !.disabled = st.disabled]
Disabled == [healthy |-> FALSE, throttled |-> TRUE, disabled |-> TRUE, multiplier |-> 0]

\* The streak assigns the multiplier, whatever it was; the later checks lower it.
AfterStreak(st, mt) ==
  IF mt.streak >= Critical THEN Disabled
  ELSE IF mt.streak >= MaxLosses THEN [Unhealthy(st, 50) EXCEPT !.multiplier = 50]
  ELSE st
\* Mutant: the weak results assign the multiplier like the streak does.
AfterWeakAssigned(st, mt) ==
  IF Weak(mt) THEN [Unhealthy(st, 50) EXCEPT !.multiplier = 50] ELSE st
AfterWeak(st, mt) == IF Weak(mt) THEN Unhealthy(st, 50) ELSE st
AfterTails(st, mt) ==
  IF mt.misses >= CriticalMisses THEN Disabled
  ELSE IF mt.misses >= MaxMisses THEN Unhealthy(st, 50) ELSE st
AfterSigma(st, mt) == IF Underperforms(mt) THEN Unhealthy(st, 50) ELSE st
Warned(mt) == \/ mt.streak >= MaxLosses \/ mt.streak >= Critical \/ Weak(mt)
              \/ mt.misses >= MaxMisses \/ mt.misses >= CriticalMisses \/ Underperforms(mt)

\* _check_health.  A check without warnings gives the full size back, but never
\* enables what was disabled.
Check(st, mt) ==
  IF mt.trades >= MinTrades
  THEN IF Warned(mt) THEN AfterSigma(AfterTails(AfterWeak(AfterStreak(st, mt), mt), mt), mt)
       ELSE Clean(st)
  ELSE st

-----------------------------------------------------------------------------
(* The exposure governor *)

Positions == BagToSet(open)
\* The number, and the stakes, of the open positions of a set of them.
Count(P) == MapThenSumSet(LAMBDA p : open[p], P)
Stakes(P) == MapThenSumSet(LAMBDA p : open[p] * p.stake, P)

\* Mutant: the other proposals of the cycle are not counted.
SameSymbolOpen(a, others) == Count({p \in Positions : p.pair = a.pair})
\* What check_action counts for action a beside the other proposals.
SameSymbol(a, others) ==
  Count({p \in Positions : p.pair = a.pair}) + Cardinality({b \in others : b.pair = a.pair})
SameRegime(regime, others) ==
  Count({p \in Positions : p.regime = regime}) + Cardinality(others)
Stacked(a, others) ==
  Count({p \in Positions : Kind(p.exploit) \in Tails})
    + Cardinality({b \in others \cup {a} : Kind(b.exploit) \in Tails})
\* The action's own size is not among the exposures.
Exposed(others, long) ==
  Stakes({p \in Positions : p.long = long})
    + MapThenSumSet(LAMBDA b : (Total * b.size) \div 100, {b \in others : b.long = long})
NetExposure(others) ==
  LET net == Exposed(others, TRUE) - Exposed(others, FALSE) IN IF net < 0 THEN -net ELSE net

\* The largest of the four scores has reached t per cent.
Reaches(a, others, regime, t) ==
  \/ 100 * SameSymbol(a, others) >= t * MaxPerSymbol
  \/ Total > 0 /\ 10000 * NetExposure(others) >= t * MaxDirection * Total
  \/ 100 * SameRegime(regime, others) >= t * MaxSameRegime
  \/ 100 * Stacked(a, others) >= t * MaxStack

\* _apply_governance
Blocked(a, others, regime) == Reaches(a, others, regime, 85)
Reduced(a, others, regime, size) ==
  LET cut == IF Reaches(a, others, regime, 70) THEN size \div 2 ELSE size
  IN IF SameRegime(regime, others) > MaxSameRegime \div 2 THEN (70 * cut) \div 100 ELSE cut

-----------------------------------------------------------------------------
PairSymmetry == Permutations(Pairs)

Init ==
  /\ pools = [p \in Pools |-> IF p = "base" THEN Capital ELSE 0]
  /\ history = [decisions |-> 0, pnl |-> 0, overflow |-> 0]
  /\ peak = 0 /\ seen = 0 /\ results = <<>>
  /\ metrics = [x \in Exploits |-> NoTrades]
  /\ status = [x \in Exploits |-> Healthy]
  /\ open = EmptyBag

\* Whose modules are evaluated: the coordinator only knows the exploits it has
\* a rule for.
Evaluated(m) ==
  {x \in Exploits : /\ ~status[x].disabled
                    /\ x \in Ruled => x \in ActiveModules(m)
                    /\ Allowed(m, Kind(x))}

Actions == [exploit : Exploits, pair : Pairs, long : Sides, size : Sizes]

\* The position an action becomes: its size times the weight of the regime,
\* the throttle and the governor's multiplier.
Opened(m, a, others) ==
  LET weighed == (a.size * Weight(m, Kind(a.exploit)) * status[a.exploit].multiplier) \div 10000
  IN [exploit |-> a.exploit, pair |-> a.pair, long |-> a.long, regime |-> Vol(m),
      stake |-> (Total * Reduced(a, others, Vol(m), weighed)) \div 100]

\* A cycle of the trading loop: the detectors raise their peaks, the evaluated
\* modules propose, and what the governor does not block is opened.
Cycle(m, proposed) ==
  LET passed == {a \in proposed : ~Blocked(a, proposed \ {a}, Vol(m))}
      made == {<<a, Opened(m, a, proposed \ {a})>> : a \in passed}
      new == [p \in {q[2] : q \in made} |-> Cardinality({q \in made : q[2] = p})]
  IN /\ peak' = Larger(peak, Total)
     /\ seen' = IF m.enough THEN Larger(seen, Total) ELSE seen
     /\ open' = open (+) new
     /\ BagCardinality(open') <= MaxOpen
     /\ UNCHANGED <<pools, history, results, metrics, status>>

\* _allocate_with_cap, for the one pool that has a cap.
Routed(pool, target) ==
  IF pool # "convexity" THEN target
  ELSE IF Cap <= pools[pool] THEN 0
  ELSE Smaller(target, Cap - pools[pool])
Share(pool) == CASE pool = "base" -> BaseShare
                 [] pool = "flow" -> FlowShare
                 [] pool = "convexity" -> ConvexityShare

\* Mutant: what a full pool refuses is not part of the overflow.
RouteForgetting(pnl) ==
  LET target(pool) == (pnl \div 4) * Share(pool)
      rest == target("convexity") - Routed("convexity", target("convexity"))
  IN /\ pools' = [pool \in Pools |-> pools[pool] + Routed(pool, target(pool))]
     /\ history' = [decisions |-> history.decisions + 1, pnl |-> history.pnl + pnl,
                    overflow |-> history.overflow + IF Cap <= pools["convexity"] THEN 0 ELSE rest]
\* route_pnl
Route(pnl) ==
  LET target(pool) == (pnl \div 4) * Share(pool) IN
  /\ pools' = [pool \in Pools |-> pools[pool] + Routed(pool, target(pool))]
  /\ history' = [decisions |-> history.decisions + 1, pnl |-> history.pnl + pnl,
                 overflow |-> history.overflow + target("convexity")
                                - Routed("convexity", target("convexity"))]

\* A position closes: the tracker, the controller and the governor record it
\* and its profit is routed.
Close(p, pnl) ==
  LET x == p.exploit  mt == Recorded(metrics[x], pnl, Kind(x) \in Tails) IN
  /\ history.decisions < MaxTrades
  /\ open' = open (-) SetToBag({p})
  /\ metrics' = [metrics EXCEPT ![x] = mt]
  /\ status' = [status EXCEPT ![x] = Check(@, mt)]
  /\ results' = LastOf(Append(results, pnl > 0), 20)
  /\ Route(pnl)
  /\ UNCHANGED <<peak, seen>>

\* Mutant: the peak is forgotten with the results.
ResetRiskAndPeak ==
  results' = <<>> /\ peak' = 0 /\ UNCHANGED <<pools, history, seen, metrics, status, open>>
\* reset_risk_tracking: the peak stays.
ResetRisk == results' = <<>> /\ UNCHANGED <<pools, history, peak, seen, metrics, status, open>>

ResetExploit(x) ==
  /\ metrics' = [metrics EXCEPT ![x] = NoTrades]
  /\ status' = [status EXCEPT ![x] = Healthy]
  /\ UNCHANGED <<pools, history, peak, results, seen, open>>

Next ==
  \/ \E m \in Markets :
       \E proposed \in SUBSET {a \in Actions : a.exploit \in Evaluated(m)} :
         /\ IsFiniteSet(proposed) /\ Cardinality(proposed) <= MaxProposals
         /\ Cycle(m, proposed)
  \/ \E p \in Positions, pnl \in Pnls : Close(p, pnl)
  \/ ResetRisk
  \/ \E x \in Exploits : ResetExploit(x)

Spec == Init /\ [][Next]_vars

-----------------------------------------------------------------------------
TypeOK ==
  /\ pools \in [Pools -> Int] /\ peak \in Nat /\ seen \in Nat
  /\ history.decisions \in 0..MaxTrades /\ results \in Seq(BOOLEAN)
  /\ IsABag(open) /\ \A p \in Positions : p.exploit \in Exploits /\ p.stake \in Int
  /\ \A x \in Exploits : metrics[x].wins \in 0..metrics[x].trades
                        /\ status[x].multiplier \in {0, 50, 100}

\* Of every profit and loss that was routed, each unit is in a pool or in the
\* overflow that the decisions list, however often the capped pool was full,
\* and that pool never exceeds its cap.
Balanced ==
  /\ Total + history.overflow = Capital + history.pnl
  /\ pools["convexity"] <= Cap
Accounts == TypeOK /\ Balanced

\* However the exploits' proposals of the cycles meet each other and what is
\* open, the positions of a pair, those opened in one regime and the convexity
\* and tail positions stay within the governor's limits, though each proposal
\* is checked before any other of its cycle is opened.
StacksLimited ==
  /\ \A pair \in Pairs : Count({p \in Positions : p.pair = pair}) <= MaxPerSymbol
  /\ \A p \in Positions : Count({q \in Positions : q.regime = p.regime}) <= MaxSameRegime
  /\ Count({p \in Positions : Kind(p.exploit) \in Tails}) <= MaxStack

\* The detector and the controller measure the drawdown each from a peak of
\* its own, which rise at different times: whenever the detector would call
\* for regret, and so stop the modules the coordinator knows, the controller
\* is RED, and so stops those it does not know too, also after a reset.
RegretIsRed == \A m \in Markets : MarketRegime(m) = "high_regret" => RiskState = "red"

\* A streak of losses or missed tails that is critical leaves the exploit
\* disabled and without size, whatever the checks after the one that found it
\* say of the same results.
CriticalIsZero ==
  \A x \in Exploits :
    LET mt == metrics[x] IN
    mt.trades >= MinTrades /\ (mt.streak >= Critical \/ mt.misses >= CriticalMisses)
      => status[x].disabled /\ status[x].multiplier = 0
=============================================================================
