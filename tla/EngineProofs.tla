---------------------------- MODULE EngineProofs ----------------------------
(***************************************************************************)
(* Proofs about the two halves of the engine: ExploitControl, which says   *)
(* what may be opened, and CapitalLedger, which says what is paid for it.  *)
(*                                                                         *)
(* ExploitControl.  Whenever the detector calls for regret the controller  *)
(* is RED, because the detector's peak never passes the controller's; what *)
(* a critical streak disabled has no size; the positions of all cycles     *)
(* together stay within the governor's limits; the records keep their      *)
(* types and the router's accounts balance.  What the bag of positions has *)
(* of a kind is Held: a sum, which adds up over the bag of what a cycle    *)
(* opens.                                                                  *)
(*                                                                         *)
(* CapitalLedger.  Money is conserved for every number of threads and      *)
(* requests and all amounts.  It holds step by step, but only while the    *)
(* amounts that threads carry from one step to the next are integers and   *)
(* the engine states they call exist; the amounts need the types of the    *)
(* action lists and that a thread in the middle of an action still has it  *)
(* at the head of its list (Busy).  That the deployed capital is the sum   *)
(* of the open positions holds while only the scenario runner uses the     *)
(* engine (~mixed): DInv says that then there is one engine state, that    *)
(* only threads in scenario steps hold money, and that deployed is what    *)
(* the list and the threads hold.  NInv says that nothing is negative,     *)
(* which is so while no position is closed with a loss (Lossless).         *)
(***************************************************************************)
EXTENDS ExploitControl, CapitalLedger, SumLemmas, SequenceTheorems

\* The peaks and the pools, as far as the proofs need them.
Numbers ==
  /\ pools \in [Pools -> Int] /\ peak \in Nat /\ seen \in Nat
  /\ DOMAIN history = {"decisions", "pnl", "overflow"}
  /\ history.decisions \in Int /\ history.pnl \in Int /\ history.overflow \in Int
PeaksOrdered == seen <= peak
IInv == Numbers /\ PeaksOrdered /\ Balanced

LEMMA NamedPools == "base" \in Pools /\ "flow" \in Pools /\ "convexity" \in Pools
BY DEF Pools

LEMMA TotalIsInt == ASSUME Numbers PROVE Total \in Int
BY NamedPools DEF Numbers, Total

-----------------------------------------------------------------------------
\* A fall by more than the detector's threshold, from a lower peak, is one by
\* at least the controller's.
LEMMA DeeperFall ==
  ASSUME NEW low \in Nat, NEW high \in Nat, NEW t \in Int, low <= high, low > 0,
         NEW regret \in 0..100, NEW red \in 0..100, red <= regret,
         100 * (low - t) > regret * low
  PROVE  high > 0 /\ 100 * (high - t) >= red * high
<1>1. (100 - red) * low >= (100 - regret) * low
  <2>1. regret * low - red * low = (regret - red) * low
    OBVIOUS
  <2>2. (regret - red) * low >= 0
    <3>1. regret - red \in Nat
      OBVIOUS
    <3> QED BY <3>1
  <2> QED BY <2>1, <2>2
<1>2. (100 - red) * high >= (100 - red) * low
  <2>1. (100 - red) * high - (100 - red) * low = (100 - red) * (high - low)
    OBVIOUS
  <2>2. (100 - red) * (high - low) >= 0
    <3>1. 100 - red \in Nat /\ high - low \in Nat
      OBVIOUS
    <3> QED BY <3>1
  <2> QED BY <2>1, <2>2
<1>3. 100 * low - regret * low > 100 * t
  OBVIOUS
<1>4. 100 * high - red * high >= 100 * low - regret * low
  BY <1>1, <1>2
<1> QED BY <1>3, <1>4

\* Regret and RED are judged on the same capital.
LEMMA RegretImpliesRed == ASSUME Numbers, PeaksOrdered, Regret PROVE RiskState = "red"
<1> DEFINE low == Larger(seen, Total)  high == Larger(peak, Total)
<1>1. Total \in Int
  BY TotalIsInt
<1>2. low \in Int /\ high \in Int /\ low <= high
  BY <1>1 DEF Numbers, PeaksOrdered, Larger
<1>3. low > 0 /\ 100 * (low - Total) > RegretAt * low
  BY DEF Regret, FellBelow
<1>4. low \in Nat /\ high \in Nat
  BY <1>2, <1>3
<1>5. RegretAt \in 0..100 /\ RedAt \in 0..100 /\ RedAt <= RegretAt
  BY ThresholdAssumption
<1>6. high > 0 /\ 100 * (high - Total) >= RedAt * high
  <2> HIDE DEF low, high
  <2> QED BY <1>1, <1>2, <1>3, <1>4, <1>5, DeeperFall
<1>7. Fell(high, RedAt)
  BY <1>6 DEF Fell
<1> QED BY <1>7 DEF RiskState

-----------------------------------------------------------------------------
LEMMA Start == Init => IInv
<1> SUFFICES ASSUME Init PROVE IInv
  OBVIOUS
<1>1. pools \in [Pools -> Int]
  BY MoneyAssumption DEF Init
<1>2. pools["base"] = Capital /\ pools["flow"] = 0 /\ pools["convexity"] = 0
  BY NamedPools DEF Init
<1>3. Numbers
  BY <1>1 DEF Init, Numbers
<1>4. PeaksOrdered
  BY DEF Init, PeaksOrdered
<1>5. Balanced
  BY <1>2, MoneyAssumption DEF Init, Balanced, Total
<1> QED BY <1>3, <1>4, <1>5 DEF IInv

\* The peaks rise to the same capital, the controller's in every cycle.
LEMMA PeakStep ==
  ASSUME IInv, NEW m \in Markets, NEW proposed, Cycle(m, proposed) PROVE IInv'
<1>1. Total \in Int
  BY TotalIsInt DEF IInv
<1>2. peak' = Larger(peak, Total) /\ seen' \in {seen, Larger(seen, Total)}
      /\ UNCHANGED <<pools, history>>
  BY DEF Cycle
<1>3. Numbers'
  BY <1>1, <1>2 DEF IInv, Numbers, Larger
<1>4. PeaksOrdered'
  BY <1>1, <1>2 DEF IInv, Numbers, PeaksOrdered, Larger
<1>5. Balanced'
  BY <1>2 DEF IInv, Balanced, Total
<1> QED BY <1>3, <1>4, <1>5 DEF IInv

LEMMA RouteStep ==
  ASSUME IInv, NEW pnl \in Pnls, Route(pnl), UNCHANGED <<peak, seen>> PROVE IInv'
<1> DEFINE part == pnl \div 4
           kept == Routed("convexity", part * Share("convexity"))
<1>1. pnl \in Int /\ part \in Int /\ 4 * part = pnl
  <2>1. pnl \in Int /\ pnl % 4 = 0
    BY MoneyAssumption DEF Pnls
  <2> QED BY <2>1
<1>2. /\ BaseShare \in Int /\ FlowShare \in Int /\ ConvexityShare \in Int /\ Cap \in Int
      /\ BaseShare + FlowShare + ConvexityShare = 4
  BY MoneyAssumption
<1>3. /\ Share("base") = BaseShare /\ Share("flow") = FlowShare
      /\ Share("convexity") = ConvexityShare
  BY DEF Share
<1>4. part * BaseShare \in Int /\ part * FlowShare \in Int /\ part * ConvexityShare \in Int
  BY <1>1, <1>2
<1>5. /\ Routed("base", part * BaseShare) = part * BaseShare
      /\ Routed("flow", part * FlowShare) = part * FlowShare
  BY DEF Routed
<1>6. kept \in Int /\ pools["convexity"] + kept <= Cap
  <2>1. pools["convexity"] \in Int /\ pools["convexity"] <= Cap
    BY NamedPools DEF IInv, Numbers, Balanced
  <2> QED BY <2>1, <1>2, <1>3, <1>4 DEF Routed, Smaller
<1>7. /\ pools' = [pool \in Pools |-> pools[pool] + Routed(pool, part * Share(pool))]
      /\ history' = [decisions |-> history.decisions + 1, pnl |-> history.pnl + pnl,
                     overflow |-> history.overflow + part * Share("convexity") - kept]
  BY DEF Route
<1> HIDE DEF part, kept
<1>8. /\ pools'["base"] = pools["base"] + part * BaseShare
      /\ pools'["flow"] = pools["flow"] + part * FlowShare
      /\ pools'["convexity"] = pools["convexity"] + kept
  BY <1>3, <1>5, <1>7, NamedPools DEF kept
<1>9. /\ pools["base"] \in Int /\ pools["flow"] \in Int /\ pools["convexity"] \in Int
      /\ history.decisions \in Int /\ history.pnl \in Int /\ history.overflow \in Int
  BY NamedPools DEF IInv, Numbers
<1>10. Numbers'
  <2>1. pools' \in [Pools -> Int]
    <3> SUFFICES ASSUME NEW pool \in Pools PROVE pools'[pool] \in Int
      BY <1>7
    <3> QED BY <1>4, <1>6, <1>8, <1>9 DEF Pools
  <2>2. /\ DOMAIN history' = {"decisions", "pnl", "overflow"}
        /\ history'.decisions = history.decisions + 1
        /\ history'.pnl = history.pnl + pnl
        /\ history'.overflow = history.overflow + part * ConvexityShare - kept
    BY <1>3, <1>7
  <2> QED BY <2>1, <2>2, <1>1, <1>4, <1>6, <1>9 DEF IInv, Numbers
<1>11. Balanced'
  <2>1. /\ history'.pnl = history.pnl + pnl
        /\ history'.overflow = history.overflow + part * ConvexityShare - kept
    BY <1>3, <1>7
  <2>2. part * BaseShare + part * FlowShare + part * ConvexityShare = 4 * part
    BY <1>1, <1>2
  <2>3. pools["base"] + pools["flow"] + pools["convexity"] + history.overflow
          = Capital + history.pnl
    BY DEF IInv, Balanced, Total
  <2>4. Capital \in Int
    BY MoneyAssumption
  <2>5. pools'["base"] + pools'["flow"] + pools'["convexity"] + history'.overflow
          = Capital + history'.pnl
    <3> DEFINE b == part * BaseShare  f == part * FlowShare  c == part * ConvexityShare
    <3>1. b \in Int /\ f \in Int /\ c \in Int /\ b + f + c = pnl
      BY <1>1, <1>4, <2>2
    <3>2. /\ pools'["base"] = pools["base"] + b /\ pools'["flow"] = pools["flow"] + f
          /\ history'.overflow = history.overflow + c - kept
      BY <1>8, <2>1
    <3> HIDE DEF b, f, c
    <3>3. pools'["base"] + pools'["flow"] + pools'["convexity"] + history'.overflow
            = pools["base"] + pools["flow"] + pools["convexity"] + history.overflow + pnl
      BY <3>1, <3>2, <1>1, <1>6, <1>8, <1>9
    <3> QED BY <3>3, <2>1, <2>3, <2>4, <1>1, <1>9
  <2> QED BY <2>5, <1>6, <1>8 DEF Balanced, Total
<1> QED BY <1>10, <1>11 DEF IInv, PeaksOrdered

LEMMA QuietStep == ASSUME IInv, UNCHANGED <<pools, history, peak, seen>> PROVE IInv'
BY DEF IInv, Numbers, PeaksOrdered, Balanced, Total

LEMMA Step == ASSUME IInv, [Next]_vars PROVE IInv'
<1>1. ASSUME NEW m \in Markets, NEW proposed, Cycle(m, proposed) PROVE IInv'
  BY <1>1, PeakStep
<1>2. ASSUME NEW p, NEW pnl \in Pnls, Close(p, pnl) PROVE IInv'
  BY <1>2, RouteStep DEF Close
<1>3. CASE ResetRisk
  BY <1>3, QuietStep DEF ResetRisk
<1>4. ASSUME NEW x \in Exploits, ResetExploit(x) PROVE IInv'
  BY <1>4, QuietStep DEF ResetExploit
<1>5. CASE UNCHANGED vars
  BY <1>5, QuietStep DEF vars
<1> QED BY <1>1, <1>2, <1>3, <1>4, <1>5 DEF Next

LEMMA Inductive == Spec => []IInv
BY Start, Step, PTL DEF Spec

-----------------------------------------------------------------------------
\* For every capital, thresholds and shares: when the detector calls for
\* regret the controller is RED, after any cycles, closings and resets.
THEOREM RegretStopsAll == Spec => []RegretIsRed
<1>1. IInv => RegretIsRed
  <2> SUFFICES ASSUME IInv, NEW m \in Markets, MarketRegime(m) = "high_regret"
               PROVE  RiskState = "red"
    BY DEF RegretIsRed
  <2>1. Regret
    BY DEF MarketRegime
  <2> QED BY <2>1, RegretImpliesRed DEF IInv
<1> QED BY <1>1, Inductive, PTL

-----------------------------------------------------------------------------
(* The health of the exploits *)

HInv == /\ status \in [Exploits -> Statuses]
        /\ metrics = [y \in Exploits |-> metrics[y]]
        /\ CriticalIsZero

LEMMA UnhealthyType == ASSUME NEW st \in Statuses PROVE Unhealthy(st, 50) \in Statuses
<1>1. st.disabled \in BOOLEAN /\ st.multiplier \in Int
  BY DEF Statuses
<1>2. Smaller(st.multiplier, 50) \in Int
  BY <1>1 DEF Smaller
<1> QED BY <1>1, <1>2 DEF Unhealthy, Statuses

LEMMA DisabledType == Disabled \in Statuses
BY DEF Statuses, Disabled

\* A later warning leaves what is disabled without size.
LEMMA StaysZero ==
  ASSUME NEW st \in Statuses, st.disabled, st.multiplier = 0
  PROVE  Unhealthy(st, 50).disabled /\ Unhealthy(st, 50).multiplier = 0
BY DEF Statuses, Unhealthy, Smaller

LEMMA StreakType == ASSUME NEW st \in Statuses, NEW mt PROVE AfterStreak(st, mt) \in Statuses
<1>1. Unhealthy(st, 50) \in Statuses
  BY UnhealthyType
<1>2. [Unhealthy(st, 50) EXCEPT !.multiplier = 50] \in Statuses
  BY <1>1 DEF Statuses
<1> QED BY <1>2, DisabledType DEF AfterStreak

LEMMA CheckType == ASSUME NEW st \in Statuses, NEW mt PROVE Check(st, mt) \in Statuses
<1> DEFINE a == AfterStreak(st, mt)  b == AfterWeak(a, mt)  c == AfterTails(b, mt)
<1>1. a \in Statuses
  BY StreakType
<1>2. b \in Statuses
  BY <1>1, UnhealthyType DEF AfterWeak
<1>3. c \in Statuses
  BY <1>2, UnhealthyType, DisabledType DEF AfterTails
<1>4. AfterSigma(c, mt) \in Statuses
  BY <1>3, UnhealthyType DEF AfterSigma
<1>5. Clean(st) \in Statuses
  <2>1. st.disabled \in BOOLEAN
    BY DEF Statuses
  <2>2. Healthy \in Statuses
    BY DEF Statuses, Healthy
  <2> QED BY <2>1, <2>2 DEF Clean, Statuses
<1>6. Check(st, mt) \in {st, Clean(st), AfterSigma(c, mt)}
  <2>1. CASE mt.trades >= MinTrades /\ Warned(mt)
    BY <2>1 DEF Check
  <2>2. CASE mt.trades >= MinTrades /\ ~Warned(mt)
    BY <2>2 DEF Check
  <2>3. CASE ~(mt.trades >= MinTrades)
    BY <2>3 DEF Check
  <2> QED BY <2>1, <2>2, <2>3
<1> HIDE DEF c
<1> QED BY <1>4, <1>5, <1>6

LEMMA CriticalCheck ==
  ASSUME NEW st \in Statuses, NEW mt, mt.trades >= MinTrades,
         mt.streak >= Critical \/ mt.misses >= CriticalMisses
  PROVE  Check(st, mt).disabled /\ Check(st, mt).multiplier = 0
<1> DEFINE a == AfterStreak(st, mt)  b == AfterWeak(a, mt)  c == AfterTails(b, mt)
<1>1. Check(st, mt) = AfterSigma(c, mt)
  BY DEF Check, Warned
<1>2. Disabled.disabled /\ Disabled.multiplier = 0
  BY DEF Disabled
<1>3. a \in Statuses /\ b \in Statuses /\ c \in Statuses
  BY StreakType, UnhealthyType, DisabledType DEF AfterWeak, AfterTails
<1>4. c.disabled /\ c.multiplier = 0
  <2>1. CASE mt.misses >= CriticalMisses
    BY <2>1, <1>2 DEF AfterTails
  <2>2. CASE mt.streak >= Critical
    <3>1. a = Disabled
      BY <2>2 DEF AfterStreak
    <3>2. b.disabled /\ b.multiplier = 0
      BY <3>1, <1>2, <1>3, StaysZero DEF AfterWeak
    <3>3. c \in {Disabled, Unhealthy(b, 50), b}
      BY DEF AfterTails
    <3> HIDE DEF b, c
    <3> QED BY <3>2, <3>3, <1>2, <1>3, StaysZero
  <2> QED BY <2>1, <2>2
<1> HIDE DEF c
<1> QED BY <1>1, <1>3, <1>4, StaysZero DEF AfterSigma

LEMMA HealthStart == Init => HInv
<1> SUFFICES ASSUME Init PROVE HInv
  OBVIOUS
<1>1. status \in [Exploits -> Statuses]
  BY DEF Init, Healthy, Statuses
<1>2. metrics = [y \in Exploits |-> metrics[y]]
  BY DEF Init
<1>3. CriticalIsZero
  BY SMTT(30), ThresholdAssumption DEF Init, NoTrades, CriticalIsZero
<1> QED BY <1>1, <1>2, <1>3 DEF HInv

\* One exploit's counts and status change together.
LEMMA HealthStep ==
  ASSUME HInv, NEW x, NEW mt, NEW st \in Statuses,
         metrics' = [metrics EXCEPT ![x] = mt], status' = [status EXCEPT ![x] = st],
         mt.trades >= MinTrades /\ (mt.streak >= Critical \/ mt.misses >= CriticalMisses)
           => st.disabled /\ st.multiplier = 0
  PROVE  HInv'
<1>1. status' \in [Exploits -> Statuses] /\ metrics' = [y \in Exploits |-> metrics'[y]]
  BY DEF HInv
<1>2. ASSUME NEW y \in Exploits,
             metrics'[y].trades >= MinTrades,
             metrics'[y].streak >= Critical \/ metrics'[y].misses >= CriticalMisses
      PROVE  status'[y].disabled /\ status'[y].multiplier = 0
  <2>1. CASE y = x
    <3>1. metrics'[y] = mt /\ status'[y] = st
      BY <2>1 DEF HInv
    <3> QED BY <3>1, <1>2
  <2>2. CASE y # x
    <3>1. metrics'[y] = metrics[y] /\ status'[y] = status[y]
      BY <2>2 DEF HInv
    <3> QED BY <3>1, <1>2 DEF HInv, CriticalIsZero
  <2> QED BY <2>1, <2>2
<1>3. CriticalIsZero'
  BY <1>2 DEF CriticalIsZero
<1> QED BY <1>1, <1>3 DEF HInv

\* For every threshold: an exploit with a critical streak of losses or missed
\* tails is disabled and has no size, whatever the later checks find.
THEOREM CriticalStops == Spec => []CriticalIsZero
<1>1. HInv /\ [Next]_vars => HInv'
  <2> SUFFICES ASSUME HInv, [Next]_vars PROVE HInv'
    OBVIOUS
  <2>1. ASSUME UNCHANGED <<metrics, status>> PROVE HInv'
    BY <2>1 DEF HInv, CriticalIsZero
  <2>2. ASSUME NEW m \in Markets, NEW proposed, Cycle(m, proposed) PROVE HInv'
    BY <2>1, <2>2 DEF Cycle
  <2>3. ASSUME NEW p, NEW pnl \in Pnls, Close(p, pnl) PROVE HInv'
    <3> DEFINE x == p.exploit
               mt == Recorded(metrics[x], pnl, Kind(x) \in Tails)
               st == Check(status[x], mt)
    <3>1. metrics' = [metrics EXCEPT ![x] = mt] /\ status' = [status EXCEPT ![x] = st]
      BY <2>3 DEF Close
    <3>2. CASE x \notin Exploits
      <4>1. UNCHANGED <<metrics, status>>
        BY <3>1, <3>2 DEF HInv
      <4> QED BY <4>1, <2>1
    <3>3. CASE x \in Exploits
      <4> HIDE DEF mt
      <4>1. status[x] \in Statuses
        BY <3>3 DEF HInv
      <4>2. st \in Statuses
        BY <4>1, CheckType
      <4>3. mt.trades >= MinTrades /\ (mt.streak >= Critical \/ mt.misses >= CriticalMisses)
              => st.disabled /\ st.multiplier = 0
        BY <4>1, CriticalCheck
      <4> HIDE DEF st, x
      <4> QED BY <3>1, <4>2, <4>3, HealthStep
    <3> QED BY <3>2, <3>3
  <2>4. CASE ResetRisk
    BY <2>1, <2>4 DEF ResetRisk
  <2>5. ASSUME NEW x \in Exploits, ResetExploit(x) PROVE HInv'
    <3>1. metrics' = [metrics EXCEPT ![x] = NoTrades] /\ status' = [status EXCEPT ![x] = Healthy]
      BY <2>5 DEF ResetExploit
    <3>2. Healthy \in Statuses
      BY DEF Healthy, Statuses
    <3>3. ~(NoTrades.streak >= Critical) /\ ~(NoTrades.misses >= CriticalMisses)
      BY ThresholdAssumption DEF NoTrades
    <3> QED BY <3>1, <3>2, <3>3, HealthStep
  <2>6. CASE UNCHANGED vars
    BY <2>1, <2>6 DEF vars
  <2> QED BY <2>2, <2>3, <2>4, <2>5, <2>6 DEF Next
<1>2. HInv => CriticalIsZero
  BY DEF HInv
<1> QED BY <1>1, <1>2, HealthStart, PTL DEF Spec

-----------------------------------------------------------------------------
(* The open positions.                                                     *)

\* What a bag of positions has of a kind M.
Held(b, M) == SumOver(b, DOMAIN b \cap M)
FiniteBag(b) == IsABag(b) /\ IsFiniteSet(DOMAIN b)

LEMMA HeldType ==
  ASSUME NEW b, FiniteBag(b), NEW M, NEW R, R = DOMAIN b \cap M
  PROVE  /\ Summable(b, R) /\ Held(b, M) = SumOver(b, R) /\ Held(b, M) \in Nat
         /\ \A x \in R : b[x] \in Nat /\ b[x] > 0
<1>1. \A x \in DOMAIN b : b[x] \in Nat /\ b[x] > 0
  BY DEF FiniteBag, IsABag
<1>2. IsFiniteSet(R)
  BY FS_Intersection DEF FiniteBag
<1>3. \A x \in R : b[x] \in Nat
  BY <1>1
<1>4. Summable(b, R) /\ SumOver(b, R) \in Nat
  BY <1>2, <1>3, SumNat
<1>5. Held(b, M) = SumOver(b, R)
  BY DEF Held
<1> QED BY <1>1, <1>4, <1>5

\* Adding a bag.
LEMMA BagAdds ==
  ASSUME NEW b, FiniteBag(b), NEW n, FiniteBag(n), NEW c, c = b (+) n
  PROVE  FiniteBag(c) /\ DOMAIN c = DOMAIN b \cup DOMAIN n
<1>1. PICK D, N, W : D = DOMAIN b /\ N = DOMAIN n /\ W = DOMAIN b \cup DOMAIN n
  OBVIOUS
<1>2. /\ \A x \in D : b[x] \in Nat /\ b[x] > 0
      /\ \A x \in N : n[x] \in Nat /\ n[x] > 0
  BY <1>1 DEF FiniteBag, IsABag
<1>3. c = [x \in W |-> (IF x \in D THEN b[x] ELSE 0) + (IF x \in N THEN n[x] ELSE 0)]
  BY <1>1 DEF (+)
<1>4. \A x \in W : c[x] \in Nat /\ c[x] > 0
  BY <1>1, <1>2, <1>3
<1>5. DOMAIN c = W /\ IsABag(c)
  BY <1>3, <1>4 DEF IsABag
<1>6. IsFiniteSet(W)
  BY <1>1, FS_Union DEF FiniteBag
<1> QED BY <1>1, <1>5, <1>6 DEF FiniteBag

LEMMA HeldAdds ==
  ASSUME NEW b, FiniteBag(b), NEW n, FiniteBag(n), NEW M
  PROVE  Held(b (+) n, M) = Held(b, M) + Held(n, M)
<1>1. PICK D, N, W, c : /\ D = DOMAIN b /\ N = DOMAIN n /\ W = DOMAIN b \cup DOMAIN n
                        /\ c = b (+) n
  OBVIOUS
<1>2. /\ \A x \in D : b[x] \in Nat /\ b[x] > 0
      /\ \A x \in N : n[x] \in Nat /\ n[x] > 0
  BY <1>1 DEF FiniteBag, IsABag
<1>3. c = [x \in W |-> (IF x \in D THEN b[x] ELSE 0) + (IF x \in N THEN n[x] ELSE 0)]
  BY <1>1 DEF (+)
<1>4. FiniteBag(c) /\ DOMAIN c = W
  BY <1>1, BagAdds
<1>5. PICK R, P, Q : R = W \cap M /\ P = D \cap M /\ Q = N \cap M
  OBVIOUS
<1>6. PICK f, g : /\ f = [x \in R |-> IF x \in D THEN b[x] ELSE 0]
                  /\ g = [x \in R |-> IF x \in N THEN n[x] ELSE 0]
  OBVIOUS
<1>7. /\ Summable(b, P) /\ Held(b, M) = SumOver(b, P)
      /\ Summable(n, Q) /\ Held(n, M) = SumOver(n, Q)
  BY <1>1, <1>5, HeldType
<1>8. Summable(c, R) /\ Held(c, M) = SumOver(c, R)
  BY <1>4, <1>5, HeldType
<1>9. IsFiniteSet(R)
  BY <1>8 DEF Summable
<1>10. \A x \in R : f[x] \in Int /\ g[x] \in Int /\ c[x] = f[x] + g[x]
  BY <1>1, <1>2, <1>3, <1>5, <1>6
<1>11. Summable(f, R) /\ Summable(g, R)
  BY <1>9, <1>10 DEF Summable
<1>12. SumOver(f, R) = SumOver(b, P)
  <2>1. P \subseteq R /\ (\A x \in P : f[x] = b[x]) /\ \A x \in R \ P : f[x] = 0
    BY <1>1, <1>5, <1>6
  <2> QED BY <1>7, <1>11, <2>1, SumPadded
<1>13. SumOver(g, R) = SumOver(n, Q)
  <2>1. Q \subseteq R /\ (\A x \in Q : g[x] = n[x]) /\ \A x \in R \ Q : g[x] = 0
    BY <1>1, <1>5, <1>6
  <2> QED BY <1>7, <1>11, <2>1, SumPadded
<1>14. SumOver(c, R) = SumOver(f, R) + SumOver(g, R)
  BY <1>8, <1>10, <1>11, SumPlus
<1> QED BY <1>1, <1>7, <1>8, <1>12, <1>13, <1>14

\* A bag that one position is taken from.
LEMMA BagTakes ==
  ASSUME NEW b, FiniteBag(b), NEW p, NEW c, c = b (-) SetToBag({p})
  PROVE  /\ FiniteBag(c) /\ DOMAIN c \subseteq DOMAIN b
         /\ \A M : Held(c, M) <= Held(b, M)
<1>1. PICK D, C : D = DOMAIN b /\ C = DOMAIN c
  OBVIOUS
<1>2. \A x \in D : b[x] \in Nat /\ b[x] > 0
  BY <1>1 DEF FiniteBag, IsABag
<1>3. PICK h : h = [x \in D |-> IF x = p THEN b[x] - 1 ELSE b[x]]
  OBVIOUS
<1>4. c = [x \in {y \in D : h[y] > 0} |-> h[x]]
  <2>1. \A x : x \in DOMAIN SetToBag({p}) <=> x = p
    BY DEF SetToBag
  <2>2. SetToBag({p})[p] = 1
    BY DEF SetToBag
  <2> QED BY <1>1, <1>3, <2>1, <2>2 DEF (-)
<1>5. C \subseteq D /\ \A x \in C : c[x] \in Nat /\ c[x] > 0 /\ c[x] <= b[x]
  <2>1. C = {y \in D : h[y] > 0} /\ \A x \in C : c[x] = h[x]
    BY <1>1, <1>4
  <2>2. \A x \in D : h[x] = IF x = p THEN b[x] - 1 ELSE b[x]
    BY <1>3
  <2>3. \A x \in D : h[x] \in Int /\ h[x] <= b[x]
    BY <1>2, <2>2
  <2> QED BY <2>1, <2>3
<1>6. IsABag(c)
  BY <1>1, <1>4, <1>5 DEF IsABag
<1>7. IsFiniteSet(C)
  BY <1>1, <1>5, FS_Subset DEF FiniteBag
<1>8. ASSUME NEW M PROVE Held(c, M) <= Held(b, M)
  <2>1. PICK P, Q : P = C \cap M /\ Q = D \cap M
    OBVIOUS
  <2>2. Summable(b, Q) /\ Held(b, M) = SumOver(b, Q)
    BY <1>1, <2>1, HeldType
  <2>3. Summable(c, P) /\ Held(c, M) = SumOver(c, P)
    BY <1>1, <1>6, <1>7, <2>1, HeldType DEF FiniteBag
  <2>4. /\ \A x \in P \cap Q : c[x] <= b[x]
        /\ \A x \in P \ Q : c[x] <= 0
        /\ \A x \in Q \ P : b[x] >= 0
    BY <1>2, <1>5, <2>1
  <2> QED BY <2>2, <2>3, <2>4, SumBelow
<1> QED BY <1>1, <1>5, <1>6, <1>7, <1>8 DEF FiniteBag

\* The bag of what the elements of S become.
Made(S, F) == {<<a, F[a]>> : a \in S}
New(made) == [p \in {q[2] : q \in made} |-> Cardinality({q \in made : q[2] = p})]

LEMMA MadeFinite ==
  ASSUME NEW S, IsFiniteSet(S), NEW F
  PROVE  IsFiniteSet(Made(S, F)) /\ Cardinality(Made(S, F)) <= Cardinality(S)
<1> DEFINE f == [a \in S |-> <<a, F[a]>>]
<1>1. Made(S, F) = {f[a] : a \in S}
  BY DEF Made
<1> HIDE DEF f
<1> QED BY <1>1, ImageFinite

LEMMA NewBag ==
  ASSUME NEW S, IsFiniteSet(S), NEW F, NEW n, n = New(Made(S, F)),
         NEW M, NEW from, from = {a \in S : F[a] \in M}
  PROVE  /\ FiniteBag(n) /\ DOMAIN n = {F[a] : a \in S}
         /\ Held(n, M) <= Cardinality(from)
<1>1. PICK made, k, N : made = Made(S, F) /\ k = [q \in made |-> q[2]] /\ N = {F[a] : a \in S}
  OBVIOUS
<1>2. IsFiniteSet(made)
  BY <1>1, MadeFinite
<1>3. \A q \in made : \E a \in S : q = <<a, F[a]>> /\ k[q] = F[a]
  BY <1>1 DEF Made
<1>4. \A a \in S : <<a, F[a]>> \in made /\ k[<<a, F[a]>>] = F[a]
  BY <1>1 DEF Made
<1>5. N = {q[2] : q \in made}
  <2>1. ASSUME NEW x \in N PROVE x \in {q[2] : q \in made}
    <3>1. PICK a \in S : x = F[a]
      BY <1>1
    <3>2. <<a, F[a]>> \in made /\ <<a, F[a]>>[2] = x
      BY <1>4, <3>1
    <3> QED BY <3>2
  <2>2. ASSUME NEW q \in made PROVE q[2] \in N
    BY <1>1, <1>3
  <2> QED BY <2>1, <2>2
<1>6. n = [p \in N |-> Cardinality({q \in made : k[q] = p})]
  <2>1. \A p : {q \in made : k[q] = p} = {q \in made : q[2] = p}
    BY <1>1
  <2>2. n = [p \in N |-> Cardinality({q \in made : q[2] = p})]
    BY <1>1, <1>5 DEF New
  <2> QED BY <2>1, <2>2
<1>7. IsFiniteSet(N)
  BY <1>1, ImageFinite
<1>8. \A x \in N : n[x] \in Nat /\ n[x] > 0
  <2> SUFFICES ASSUME NEW x \in N PROVE n[x] \in Nat /\ n[x] > 0
    OBVIOUS
  <2>1. PICK fibre : fibre = {q \in made : k[q] = x}
    OBVIOUS
  <2>2. fibre # {}
    <3>1. PICK a \in S : x = F[a]
      BY <1>1
    <3> QED BY <1>4, <2>1, <3>1
  <2>3. IsFiniteSet(fibre)
    BY <1>2, <2>1, FS_Subset
  <2>4. n[x] = Cardinality(fibre)
    BY <1>6, <2>1
  <2> QED BY <2>2, <2>3, <2>4, FS_EmptySet, FS_CardinalityType
<1>9. FiniteBag(n) /\ DOMAIN n = N
  BY <1>6, <1>7, <1>8 DEF FiniteBag, IsABag
<1>10. Held(n, M) <= Cardinality(from)
  <2>1. PICK Q, image : Q = N \cap M /\ image = {q \in made : k[q] \in Q}
    OBVIOUS
  <2>2. IsFiniteSet(Q)
    BY <1>7, <2>1, FS_Intersection
  <2>3. \A x \in Q : n[x] = Cardinality({q \in made : k[q] = x})
    BY <1>6, <2>1
  <2>4. SumOver(n, Q) = Cardinality(image)
    BY <1>2, <2>1, <2>2, <2>3, SumFibres
  <2>5. image = Made(from, F)
    <3>1. ASSUME NEW q \in image PROVE q \in Made(from, F)
      BY <1>3, <2>1 DEF Made
    <3>2. ASSUME NEW a \in from PROVE <<a, F[a]>> \in image
      BY <1>1, <1>4, <2>1
    <3> QED BY <3>1, <3>2 DEF Made
  <2>6. IsFiniteSet(from)
    BY <2>1, FS_Subset
  <2>7. Cardinality(Made(from, F)) <= Cardinality(from)
    BY <2>6, MadeFinite
  <2>8. Held(n, M) = SumOver(n, Q)
    BY <1>9, <2>1 DEF Held
  <2> QED BY <2>1, <2>4, <2>5, <2>7, <2>8
<1> QED BY <1>1, <1>9, <1>10

-----------------------------------------------------------------------------
(* The limits of the governor.                                             *)

LEMMA CountIsHeld ==
  ASSUME NEW b, FiniteBag(b), NEW M, NEW P, P = DOMAIN b \cap M
  PROVE  MapThenSumSet(LAMBDA p : b[p], P) = Held(b, M)
<1>1. Summable(b, P) /\ Held(b, M) = SumOver(b, P)
  BY HeldType
<1>2. MapThenSumSet(LAMBDA p : b[p], P) = SumOver(b, P)
  BY <1>1, FoldIsSum
<1> QED BY <1>1, <1>2

LEMMA OpenIsHeld ==
  ASSUME FiniteBag(open), NEW M, NEW P, P = Positions \cap M
  PROVE  Count(P) = Held(open, M)
<1>1. P = DOMAIN open \cap M
  BY DEF Positions, BagToSet
<1>2. MapThenSumSet(LAMBDA p : open[p], P) = Held(open, M)
  BY <1>1, CountIsHeld
<1> QED BY <1>2 DEF Count

OfPair(b, x) == {p \in DOMAIN b : p.pair = x}
OfRegime(b, r) == {p \in DOMAIN b : p.regime = r}
OfTails(b) == {p \in DOMAIN b : Kind(p.exploit) \in Tails}
Limits(b) ==
  /\ \A x \in Pairs : Held(b, OfPair(b, x)) <= MaxPerSymbol
  /\ \A p \in DOMAIN b : Held(b, OfRegime(b, p.regime)) <= MaxSameRegime
  /\ Held(b, OfTails(b)) <= MaxStack

\* A cycle adds at most one position for each proposal that passes.
LEMMA AddsAtMost ==
  ASSUME NEW b, FiniteBag(b), NEW S, IsFiniteSet(S), NEW F,
         NEW c, c = b (+) New(Made(S, F)), NEW M, NEW A, A = {a \in S : F[a] \in M}
  PROVE  Held(c, M) <= Held(b, M) + Cardinality(A)
<1>1. PICK n : n = New(Made(S, F))
  OBVIOUS
<1>2. FiniteBag(n) /\ Held(n, M) <= Cardinality(A)
  BY <1>1, NewBag
<1>3. Held(c, M) = Held(b, M) + Held(n, M)
  BY <1>1, <1>2, HeldAdds
<1>4. Held(b, M) \in Nat /\ Held(n, M) \in Nat
  BY <1>2, HeldType
<1>5. IsFiniteSet(A) /\ Cardinality(A) \in Nat
  BY FS_Subset, FS_CardinalityType
<1> QED BY <1>2, <1>3, <1>4, <1>5

\* The governor lets pass what leaves room for all of the same kind, K, that
\* are proposed with it, so that those that pass, A, find room together.
LEMMA RoomForAll ==
  ASSUME NEW h \in Nat, NEW max \in Nat \ {0}, h <= max,
         NEW K, IsFiniteSet(K), NEW A \in SUBSET K,
         \A a \in A : ~(100 * (h + Cardinality(K \ {a})) >= 85 * max)
  PROVE  h + Cardinality(A) <= max
<1>1. /\ IsFiniteSet(A) /\ Cardinality(A) \in Nat /\ Cardinality(A) <= Cardinality(K)
      /\ Cardinality(K) \in Nat
  BY FS_Subset, FS_CardinalityType
<1>2. CASE A = {}
  BY <1>2, FS_EmptySet
<1>3. CASE A # {}
  <2>1. PICK a \in A : ~(100 * (h + Cardinality(K \ {a})) >= 85 * max)
    BY <1>3
  <2>2. Cardinality(K \ {a}) = Cardinality(K) - 1
    BY <2>1, FS_RemoveElement
  <2>3. 100 * (h + (Cardinality(K) - 1)) < 85 * max
    BY <1>1, <2>1, <2>2
  <2>4. h + Cardinality(K) <= max
    BY <1>1, <2>3
  <2> QED BY <1>1, <2>4
<1> QED BY <1>2, <1>3

\* A cycle keeps every limit.
LEMMA CycleLimits ==
  ASSUME FiniteBag(open), Limits(open), NEW m \in Markets,
         NEW proposed \in SUBSET Actions, IsFiniteSet(proposed), Cycle(m, proposed),
         NEW c, c = open'
  PROVE  FiniteBag(c) /\ Limits(c)
<1>1. PICK passed, F : /\ passed = {a \in proposed : ~Blocked(a, proposed \ {a}, Vol(m))}
                       /\ F = [a \in passed |-> Opened(m, a, proposed \ {a})]
  OBVIOUS
<1>2. c = open (+) New(Made(passed, F))
  <2>1. Made(passed, F) = {<<a, Opened(m, a, proposed \ {a})>> : a \in passed}
    BY <1>1 DEF Made
  <2> QED BY <1>1, <2>1 DEF Cycle, New
<1>3. IsFiniteSet(passed) /\ passed \in SUBSET proposed
  BY <1>1, FS_Subset
<1>4. /\ FiniteBag(c)
      /\ DOMAIN c = DOMAIN open \cup {F[a] : a \in passed}
  <2>1. PICK n : n = New(Made(passed, F))
    OBVIOUS
  <2>2. FiniteBag(n) /\ DOMAIN n = {F[a] : a \in passed}
    BY ZenonT(60), <1>3, <2>1, NewBag
  <2> QED BY <1>2, <2>1, <2>2, BagAdds
<1>5. \A a \in passed : /\ F[a].pair = a.pair /\ F[a].regime = Vol(m)
                        /\ F[a].exploit = a.exploit /\ F[a] \in DOMAIN c
  <2> SUFFICES ASSUME NEW a \in passed
               PROVE  /\ F[a].pair = a.pair /\ F[a].regime = Vol(m)
                      /\ F[a].exploit = a.exploit /\ F[a] \in DOMAIN c
    OBVIOUS
  <2>1. F[a] = Opened(m, a, proposed \ {a})
    BY <1>1
  <2>2. F[a] \in DOMAIN c
    BY <1>4
  <2> QED BY <2>1, <2>2 DEF Opened
<1>6. ASSUME NEW a \in passed
      PROVE  /\ ~(100 * SameSymbol(a, proposed \ {a}) >= 85 * MaxPerSymbol)
             /\ ~(100 * SameRegime(Vol(m), proposed \ {a}) >= 85 * MaxSameRegime)
             /\ ~(100 * Stacked(a, proposed \ {a}) >= 85 * MaxStack)
  BY <1>1 DEF Blocked, Reaches
<1>7. /\ MaxPerSymbol \in Nat \ {0} /\ MaxSameRegime \in Nat \ {0} /\ MaxStack \in Nat \ {0}
  BY ThresholdAssumption
<1>8. ASSUME NEW x \in Pairs PROVE Held(c, OfPair(c, x)) <= MaxPerSymbol
  <2>1. PICK M, K : M = OfPair(open, x) \cup OfPair(c, x) /\ K = {a \in proposed : a.pair = x}
    OBVIOUS
  <2>2. DOMAIN open \cap M = DOMAIN open \cap OfPair(open, x)
    BY <2>1 DEF OfPair
  <2>3. DOMAIN c \cap M = DOMAIN c \cap OfPair(c, x)
    BY <2>1 DEF OfPair
  <2>4. Held(open, M) <= MaxPerSymbol
    BY <2>2 DEF Held, Limits
  <2>5. ASSUME NEW a \in passed, F[a] \in M
        PROVE  a \in K /\ ~(100 * (Held(open, M) + Cardinality(K \ {a})) >= 85 * MaxPerSymbol)
    <3>1. a.pair = x
      BY <1>5, <2>1, <2>5 DEF OfPair
    <3>2. {p \in Positions : p.pair = a.pair} = Positions \cap M
      BY <2>1, <3>1 DEF OfPair, Positions, BagToSet
    <3>3. Count({p \in Positions : p.pair = a.pair}) = Held(open, M)
      BY <3>2, OpenIsHeld
    <3>4. {b \in proposed \ {a} : b.pair = a.pair} = K \ {a}
      BY <2>1, <3>1
    <3> QED BY <1>3, <1>6, <2>1, <3>1, <3>3, <3>4 DEF SameSymbol
  <2>6. PICK A : A = {a \in passed : F[a] \in M}
    OBVIOUS
  <2>7. Held(c, M) <= Held(open, M) + Cardinality(A)
    BY <1>2, <1>3, <2>6, AddsAtMost
  <2>8. IsFiniteSet(K) /\ A \in SUBSET K
    BY <1>3, <2>1, <2>5, <2>6, FS_Subset
  <2>9. Held(open, M) \in Nat /\ Held(c, M) \in Nat /\ Cardinality(A) \in Nat
    BY <1>4, <2>8, HeldType, FS_Subset, FS_CardinalityType
  <2>10. Held(open, M) + Cardinality(A) <= MaxPerSymbol
    <3>1. \A a \in A : ~(100 * (Held(open, M) + Cardinality(K \ {a})) >= 85 * MaxPerSymbol)
      BY <2>5, <2>6
    <3>2. PICK h : h = Held(open, M)
      OBVIOUS
    <3> QED BY <1>7, <2>4, <2>8, <2>9, <3>1, <3>2, RoomForAll
  <2>11. Held(c, M) <= MaxPerSymbol
    BY <1>7, <2>7, <2>9, <2>10
  <2> QED BY <2>3, <2>11 DEF Held
<1>9. ASSUME NEW p \in DOMAIN c PROVE Held(c, OfRegime(c, p.regime)) <= MaxSameRegime
  <2>1. PICK r, M : r = p.regime /\ M = OfRegime(open, r) \cup OfRegime(c, r)
    OBVIOUS
  <2>2. DOMAIN open \cap M = DOMAIN open \cap OfRegime(open, r)
    BY <2>1 DEF OfRegime
  <2>3. DOMAIN c \cap M = DOMAIN c \cap OfRegime(c, r)
    BY <2>1 DEF OfRegime
  <2>4. Held(open, M) <= MaxSameRegime
    <3>1. CASE \E q \in DOMAIN open : q.regime = r
      BY <2>2, <3>1 DEF Held, Limits
    <3>2. CASE ~ \E q \in DOMAIN open : q.regime = r
      <4>1. DOMAIN open \cap M = {}
        BY <2>2, <3>2 DEF OfRegime
      <4> QED BY <1>7, <4>1, SumEmpty DEF Held
    <3> QED BY <3>1, <3>2
  <2>5. ASSUME NEW a \in passed, F[a] \in M
        PROVE  /\ a \in proposed
               /\ ~(100 * (Held(open, M) + Cardinality(proposed \ {a})) >= 85 * MaxSameRegime)
    <3>1. r = Vol(m)
      BY <1>5, <2>1, <2>5 DEF OfRegime
    <3>2. {q \in Positions : q.regime = Vol(m)} = Positions \cap M
      BY <2>1, <3>1 DEF OfRegime, Positions, BagToSet
    <3>3. Count({q \in Positions : q.regime = Vol(m)}) = Held(open, M)
      BY <3>2, OpenIsHeld
    <3> QED BY <1>3, <1>6, <3>3 DEF SameRegime
  <2>6. PICK A : A = {a \in passed : F[a] \in M}
    OBVIOUS
  <2>7. Held(c, M) <= Held(open, M) + Cardinality(A)
    BY <1>2, <1>3, <2>6, AddsAtMost
  <2>8. IsFiniteSet(proposed) /\ A \in SUBSET proposed
    BY <1>3, <2>1, <2>5, <2>6, FS_Subset
  <2>9. Held(open, M) \in Nat /\ Held(c, M) \in Nat /\ Cardinality(A) \in Nat
    BY <1>4, <2>8, HeldType, FS_Subset, FS_CardinalityType
  <2>10. Held(open, M) + Cardinality(A) <= MaxSameRegime
    <3>1. \A a \in A : ~(100 * (Held(open, M) + Cardinality(proposed \ {a})) >= 85 * MaxSameRegime)
      BY <2>5, <2>6
    <3>2. PICK h : h = Held(open, M)
      OBVIOUS
    <3> QED BY <1>7, <2>4, <2>8, <2>9, <3>1, <3>2, RoomForAll
  <2>11. Held(c, M) <= MaxSameRegime
    BY <1>7, <2>7, <2>9, <2>10
  <2> QED BY <2>1, <2>3, <2>11 DEF Held
<1>10. Held(c, OfTails(c)) <= MaxStack
  <2>1. PICK M, K : /\ M = OfTails(open) \cup OfTails(c)
                    /\ K = {a \in proposed : Kind(a.exploit) \in Tails}
    OBVIOUS
  <2>2. DOMAIN open \cap M = DOMAIN open \cap OfTails(open)
    BY <2>1 DEF OfTails
  <2>3. DOMAIN c \cap M = DOMAIN c \cap OfTails(c)
    BY <2>1 DEF OfTails
  <2>4. Held(open, M) <= MaxStack
    BY <2>2 DEF Held, Limits
  <2>5. ASSUME NEW a \in passed, F[a] \in M
        PROVE  a \in K /\ ~(100 * (Held(open, M) + Cardinality(K \ {a})) >= 85 * MaxStack)
    <3>1. Kind(a.exploit) \in Tails /\ a \in K
      BY <1>3, <1>5, <2>1, <2>5 DEF OfTails
    <3>2. {p \in Positions : Kind(p.exploit) \in Tails} = Positions \cap M
      BY <2>1 DEF OfTails, Positions, BagToSet
    <3>3. Count({p \in Positions : Kind(p.exploit) \in Tails}) = Held(open, M)
      BY <3>2, OpenIsHeld
    <3>4. {b \in (proposed \ {a}) \cup {a} : Kind(b.exploit) \in Tails} = K
      BY <1>3, <2>1
    <3>5. ~(100 * (Held(open, M) + Cardinality(K)) >= 85 * MaxStack)
      BY <1>6, <3>3, <3>4 DEF Stacked
    <3>6. /\ IsFiniteSet(K) /\ Cardinality(K) \in Nat /\ Cardinality(K \ {a}) = Cardinality(K) - 1
      BY SMTT(30), <2>1, <3>1, FS_Subset, FS_CardinalityType, FS_RemoveElement
    <3>7. Held(open, M) \in Nat
      BY HeldType
    <3> QED BY <1>7, <3>1, <3>5, <3>6, <3>7
  <2>6. PICK A : A = {a \in passed : F[a] \in M}
    OBVIOUS
  <2>7. Held(c, M) <= Held(open, M) + Cardinality(A)
    BY <1>2, <1>3, <2>6, AddsAtMost
  <2>8. IsFiniteSet(K) /\ A \in SUBSET K
    BY <1>3, <2>1, <2>5, <2>6, FS_Subset
  <2>9. Held(open, M) \in Nat /\ Held(c, M) \in Nat /\ Cardinality(A) \in Nat
    BY <1>4, <2>8, HeldType, FS_Subset, FS_CardinalityType
  <2>10. Held(open, M) + Cardinality(A) <= MaxStack
    <3>1. \A a \in A : ~(100 * (Held(open, M) + Cardinality(K \ {a})) >= 85 * MaxStack)
      BY <2>5, <2>6
    <3>2. PICK h : h = Held(open, M)
      OBVIOUS
    <3> QED BY <1>7, <2>4, <2>8, <2>9, <3>1, <3>2, RoomForAll
  <2>11. Held(c, M) <= MaxStack
    BY <1>7, <2>7, <2>9, <2>10
  <2> QED BY <2>3, <2>11 DEF Held
<1> QED BY <1>4, <1>8, <1>9, <1>10 DEF Limits

\* A position that closes makes room.
LEMMA CloseLimits ==
  ASSUME FiniteBag(open), Limits(open), NEW p, NEW c, c = open (-) SetToBag({p})
  PROVE  FiniteBag(c) /\ Limits(c)
<1>1. /\ FiniteBag(c) /\ DOMAIN c \subseteq DOMAIN open
      /\ \A M : Held(c, M) <= Held(open, M)
  BY BagTakes
<1>2. \A M : Held(c, M) \in Nat /\ Held(open, M) \in Nat
  BY <1>1, HeldType
<1>3. /\ MaxPerSymbol \in Nat \ {0} /\ MaxSameRegime \in Nat \ {0} /\ MaxStack \in Nat \ {0}
  BY ThresholdAssumption
<1>4. \A M, N : DOMAIN c \cap N = DOMAIN c \cap M => Held(c, N) = Held(c, M)
  BY DEF Held
<1>5. ASSUME NEW N, NEW M, DOMAIN c \cap N = DOMAIN c \cap M, NEW max \in Nat,
             Held(open, M) <= max
      PROVE  Held(c, N) <= max
  BY <1>1, <1>2, <1>4, <1>5
<1>6. ASSUME NEW x \in Pairs PROVE Held(c, OfPair(c, x)) <= MaxPerSymbol
  <2>1. DOMAIN c \cap OfPair(c, x) = DOMAIN c \cap OfPair(open, x)
    BY <1>1 DEF OfPair
  <2>2. Held(open, OfPair(open, x)) <= MaxPerSymbol
    BY DEF Limits
  <2> QED BY <1>3, <1>5, <2>1, <2>2
<1>7. ASSUME NEW q \in DOMAIN c PROVE Held(c, OfRegime(c, q.regime)) <= MaxSameRegime
  <2>1. DOMAIN c \cap OfRegime(c, q.regime) = DOMAIN c \cap OfRegime(open, q.regime)
    BY <1>1 DEF OfRegime
  <2>2. Held(open, OfRegime(open, q.regime)) <= MaxSameRegime
    BY <1>1 DEF Limits
  <2> QED BY <1>3, <1>5, <2>1, <2>2
<1>8. Held(c, OfTails(c)) <= MaxStack
  <2>1. DOMAIN c \cap OfTails(c) = DOMAIN c \cap OfTails(open)
    BY <1>1 DEF OfTails
  <2>2. Held(open, OfTails(open)) <= MaxStack
    BY DEF Limits
  <2> QED BY <1>3, <1>5, <2>1, <2>2
<1> QED BY <1>1, <1>6, <1>7, <1>8 DEF Limits

LEMMA StartLimits == ASSUME Init PROVE FiniteBag(open) /\ Limits(open)
<1>1. DOMAIN open = {}
  BY DEF Init, EmptyBag, SetToBag
<1>2. open = [e \in {} |-> 1]
  BY DEF Init, EmptyBag, SetToBag
<1>3. FiniteBag(open)
  BY <1>1, <1>2, FS_EmptySet DEF FiniteBag, IsABag
<1>4. \A M : Held(open, M) = 0
  <2>1. \A M : DOMAIN open \cap M = {}
    BY <1>1
  <2> QED BY <2>1, SumEmpty DEF Held
<1> QED BY <1>1, <1>3, <1>4, ThresholdAssumption DEF Limits

\* However the proposals of the cycles meet each other and what is open, the
\* positions of a pair, those opened in one regime and the convexity and tail
\* positions stay within the governor's limits, for all limits and proposals.
THEOREM StacksStayLimited == Spec => []StacksLimited
<1> DEFINE P == FiniteBag(open) /\ Limits(open)
<1>1. Init => P
  BY StartLimits
<1>2. P /\ [Next]_vars => P'
  <2> SUFFICES ASSUME P, [Next]_vars PROVE P'
    OBVIOUS
  <2>1. CASE open' = open
    BY <2>1 DEF FiniteBag, Limits, Held, OfPair, OfRegime, OfTails
  <2>2. PICK c : c = open'
    OBVIOUS
  <2>3. FiniteBag(c) /\ Limits(c) => P'
    BY <2>2 DEF FiniteBag, Limits, Held, OfPair, OfRegime, OfTails
  <2>4. ASSUME NEW m \in Markets,
               NEW proposed \in SUBSET {a \in Actions : a.exploit \in Evaluated(m)},
               IsFiniteSet(proposed), Cycle(m, proposed)
        PROVE  P'
    <3>1. proposed \in SUBSET Actions
      OBVIOUS
    <3> QED BY <2>2, <2>3, <2>4, <3>1, CycleLimits
  <2>5. ASSUME NEW p \in Positions, NEW pnl \in Pnls, Close(p, pnl) PROVE P'
    <3>1. c = open (-) SetToBag({p})
      BY <2>2, <2>5 DEF Close
    <3> QED BY <2>3, <3>1, CloseLimits
  <2>6. CASE ResetRisk
    BY <2>1, <2>6 DEF ResetRisk
  <2>7. ASSUME NEW x \in Exploits, ResetExploit(x) PROVE P'
    BY <2>1, <2>7 DEF ResetExploit
  <2>8. CASE UNCHANGED vars
    BY <2>1, <2>8 DEF vars
  <2> HIDE DEF P
  <2> QED BY <2>4, <2>5, <2>6, <2>7, <2>8 DEF Next
<1>3. P => StacksLimited
  <2> SUFFICES ASSUME P PROVE StacksLimited
    OBVIOUS
  <2>1. ASSUME NEW x \in Pairs PROVE Count({p \in Positions : p.pair = x}) <= MaxPerSymbol
    <3>1. {p \in Positions : p.pair = x} = Positions \cap OfPair(open, x)
      BY DEF OfPair, Positions, BagToSet
    <3> QED BY <3>1, OpenIsHeld DEF Limits
  <2>2. ASSUME NEW p \in Positions
        PROVE  Count({q \in Positions : q.regime = p.regime}) <= MaxSameRegime
    <3>1. {q \in Positions : q.regime = p.regime} = Positions \cap OfRegime(open, p.regime)
      BY DEF OfRegime, Positions, BagToSet
    <3>2. p \in DOMAIN open
      BY DEF Positions, BagToSet
    <3> QED BY <3>1, <3>2, OpenIsHeld DEF Limits
  <2>3. Count({p \in Positions : Kind(p.exploit) \in Tails}) <= MaxStack
    <3>1. {p \in Positions : Kind(p.exploit) \in Tails} = Positions \cap OfTails(open)
      BY DEF OfTails, Positions, BagToSet
    <3> QED BY <3>1, OpenIsHeld DEF Limits
  <2> QED BY <2>1, <2>2, <2>3 DEF StacksLimited
<1> QED BY <1>1, <1>2, <1>3, PTL DEF Spec

-----------------------------------------------------------------------------
(* The types of the records.                                               *)

Fields == DOMAIN NoTrades
Tallied(mt) == /\ mt = [f \in Fields |-> mt[f]]
               /\ mt.trades \in Nat /\ mt.wins \in Nat /\ mt.wins <= mt.trades
Sized == [healthy : BOOLEAN, throttled : BOOLEAN, disabled : BOOLEAN, multiplier : {0, 50, 100}]

PositionsOK == \A p \in Positions : p.exploit \in Exploits /\ p.stake \in Int
CountsOK == history.decisions \in 0..MaxTrades /\ results \in Seq(BOOLEAN)
HealthOK == /\ metrics = [x \in Exploits |-> metrics[x]]
            /\ \A x \in Exploits : Tallied(metrics[x])
            /\ status \in [Exploits -> Sized]
TInv == PositionsOK /\ CountsOK /\ HealthOK

LEMMA FieldsAre ==
  Fields = {"trades", "wins", "streak", "misses", "pnls", "baseWins", "baseOf",
            "baseSum", "baseLen", "decayed"}
BY DEF Fields, NoTrades

LEMMA NoneTallied == Tallied(NoTrades)
BY DEF Tallied, Fields, NoTrades

\* The counts of a result.
LEMMA RecordedTallied ==
  ASSUME NEW mt, Tallied(mt), NEW pnl, NEW tail PROVE Tallied(Recorded(mt, pnl, tail))
<1> DEFINE counted == [mt EXCEPT !.trades = @ + 1,
                                 !.wins = IF pnl > 0 THEN @ + 1 ELSE @,
                                 !.streak = Bump(@, pnl <= 0),
                                 !.misses = IF tail THEN Bump(@, pnl <= 0) ELSE @,
                                 !.pnls = LastOf(Append(@, pnl), Lookback)]
           based == IF counted.trades # MinTrades THEN counted
                    ELSE [counted EXCEPT !.baseWins = counted.wins, !.baseOf = MinTrades,
                                         !.baseSum = Of(counted.pnls),
                                         !.baseLen = Len(counted.pnls)]
           worse == 100 * (based.baseWins * based.trades - based.wins * based.baseOf)
                      > 15 * based.baseWins * based.trades
<1>1. /\ "trades" \in Fields /\ "wins" \in Fields
      /\ mt = [f \in Fields |-> mt[f]] /\ mt.trades \in Nat /\ mt.wins \in Nat
      /\ mt.wins <= mt.trades
  BY FieldsAre DEF Tallied
<1>2. Tallied(counted)
  <2>1. counted = [f \in Fields |-> counted[f]]
    BY <1>1
  <2>2. /\ counted.trades = mt.trades + 1
        /\ counted.wins = IF pnl > 0 THEN mt.wins + 1 ELSE mt.wins
    BY <1>1
  <2> HIDE DEF counted
  <2> QED BY <1>1, <2>1, <2>2 DEF Tallied
<1> HIDE DEF counted
<1>3. Tallied(based)
  <2>1. CASE counted.trades # MinTrades
    BY <1>2, <2>1
  <2>2. CASE counted.trades = MinTrades
    <3>1. based = [counted EXCEPT !.baseWins = counted.wins, !.baseOf = MinTrades,
                                  !.baseSum = Of(counted.pnls), !.baseLen = Len(counted.pnls)]
      BY <2>2
    <3>2. based = [f \in Fields |-> based[f]]
      BY <1>2, <3>1 DEF Tallied
    <3>3. based.trades = counted.trades /\ based.wins = counted.wins
      BY <1>1, <1>2, <3>1 DEF Tallied
    <3> HIDE DEF based
    <3> QED BY <1>2, <3>2, <3>3 DEF Tallied
  <2> QED BY <2>1, <2>2
<1> HIDE DEF based
<1>4. Recorded(mt, pnl, tail) = IF based.baseWins = 0 THEN based
                                ELSE [based EXCEPT !.decayed = worse]
  BY DEF Recorded, counted, based
<1> HIDE DEF worse
<1>5. Tallied([based EXCEPT !.decayed = worse])
  <2>1. PICK next : next = [based EXCEPT !.decayed = worse]
    OBVIOUS
  <2>2. next = [f \in Fields |-> next[f]] /\ next.trades = based.trades /\ next.wins = based.wins
    BY <1>1, <1>3, <2>1 DEF Tallied
  <2> QED BY <1>3, <2>1, <2>2 DEF Tallied
<1> QED BY <1>3, <1>4, <1>5

\* The health of an exploit has one of three sizes.
LEMMA UnhealthySized == ASSUME NEW st \in Sized PROVE Unhealthy(st, 50) \in Sized
<1>1. st.disabled \in BOOLEAN /\ st.multiplier \in {0, 50, 100}
  BY DEF Sized
<1>2. Smaller(st.multiplier, 50) \in {0, 50, 100}
  BY <1>1 DEF Smaller
<1> QED BY <1>1, <1>2 DEF Unhealthy, Sized

LEMMA CheckSized == ASSUME NEW st \in Sized, NEW mt PROVE Check(st, mt) \in Sized
<1> DEFINE a == AfterStreak(st, mt)  b == AfterWeak(a, mt)  c == AfterTails(b, mt)
<1>1. Disabled \in Sized /\ Healthy \in Sized
  BY DEF Disabled, Healthy, Sized
<1>2. a \in Sized
  <2>1. Unhealthy(st, 50) \in Sized
    BY UnhealthySized
  <2>2. [Unhealthy(st, 50) EXCEPT !.multiplier = 50] \in Sized
    BY <2>1 DEF Sized
  <2> QED BY <1>1, <2>2 DEF AfterStreak
<1>3. b \in Sized
  BY <1>2, UnhealthySized DEF AfterWeak
<1>4. c \in Sized
  BY <1>1, <1>3, UnhealthySized DEF AfterTails
<1>5. AfterSigma(c, mt) \in Sized
  BY <1>4, UnhealthySized DEF AfterSigma
<1>6. Clean(st) \in Sized
  <2>1. st.disabled \in BOOLEAN
    BY DEF Sized
  <2> QED BY <1>1, <2>1 DEF Clean, Sized
<1>7. Check(st, mt) \in {st, Clean(st), AfterSigma(c, mt)}
  <2>1. CASE mt.trades >= MinTrades /\ Warned(mt)
    BY <2>1 DEF Check
  <2>2. CASE mt.trades >= MinTrades /\ ~Warned(mt)
    BY <2>2 DEF Check
  <2>3. CASE ~(mt.trades >= MinTrades)
    BY <2>3 DEF Check
  <2> QED BY <2>1, <2>2, <2>3
<1> HIDE DEF c
<1> QED BY <1>5, <1>6, <1>7

LEMMA LastType ==
  ASSUME NEW S, NEW s \in Seq(S), NEW n \in Nat PROVE LastOf(s, n) \in Seq(S)
<1>1. Len(s) \in Nat /\ \A i \in 1..Len(s) : s[i] \in S
  OBVIOUS
<1>2. PICK from : from = Larger(1, Len(s) - n + 1)
  OBVIOUS
<1>3. from \in Int /\ from >= 1
  BY <1>1, <1>2 DEF Larger
<1>4. \A i \in from..Len(s) : s[i] \in S
  BY <1>1, <1>3
<1>5. SubSeq(s, from, Len(s)) \in Seq(S)
  BY <1>1, <1>3, <1>4, SubSeqProperties
<1> QED BY <1>2, <1>5 DEF LastOf

\* What an action of a cycle becomes is a position of its exploit.
LEMMA OpenedType ==
  ASSUME Numbers, HealthOK, NEW m \in Markets, NEW a \in Actions, NEW others
  PROVE  Opened(m, a, others).exploit \in Exploits /\ Opened(m, a, others).stake \in Int
<1> DEFINE weighed == (a.size * Weight(m, Kind(a.exploit)) * status[a.exploit].multiplier)
                        \div 10000
<1>1. a.exploit \in Exploits /\ a.size \in Int
  <2>1. a.exploit \in Exploits /\ a.size \in Sizes
    BY DEF Actions
  <2>2. Sizes \subseteq Nat
    BY MoneyAssumption, Zenon
  <2>3. a.size \in Nat
    BY <2>1, <2>2, Zenon
  <2>4. PICK n \in Nat : n = a.size
    BY <2>3, Zenon
  <2> QED BY <2>1, <2>4
<1>2. Weight(m, Kind(a.exploit)) \in Int
  BY DEF Weight
<1>3. status[a.exploit].multiplier \in Int
  <2>1. status[a.exploit] \in Sized
    BY <1>1 DEF HealthOK
  <2> QED BY <2>1 DEF Sized
<1>4. weighed \in Int
  BY <1>1, <1>2, <1>3
<1> HIDE DEF weighed
<1>5. Reduced(a, others, Vol(m), weighed) \in Int
  BY <1>4 DEF Reduced
<1>6. Total \in Int
  BY TotalIsInt
<1>7. /\ Opened(m, a, others).exploit = a.exploit
      /\ Opened(m, a, others).stake = (Total * Reduced(a, others, Vol(m), weighed)) \div 100
  BY DEF Opened, weighed
<1> QED BY <1>1, <1>5, <1>6, <1>7

LEMMA CycleTypes ==
  ASSUME Numbers, TInv, FiniteBag(open), NEW m \in Markets,
         NEW proposed \in SUBSET Actions, IsFiniteSet(proposed), Cycle(m, proposed)
  PROVE  TInv'
<1>1. PICK passed, F : /\ passed = {a \in proposed : ~Blocked(a, proposed \ {a}, Vol(m))}
                       /\ F = [a \in passed |-> Opened(m, a, proposed \ {a})]
  OBVIOUS
<1>2. PICK n : n = New(Made(passed, F))
  OBVIOUS
<1>3. open' = open (+) n
  <2>1. Made(passed, F) = {<<a, Opened(m, a, proposed \ {a})>> : a \in passed}
    BY <1>1 DEF Made
  <2> QED BY <1>1, <1>2, <2>1 DEF Cycle, New
<1>4. DOMAIN open' = DOMAIN open \cup {F[a] : a \in passed}
  <2>1. IsFiniteSet(passed)
    BY <1>1, FS_Subset
  <2>2. FiniteBag(n) /\ DOMAIN n = {F[a] : a \in passed}
    BY ZenonT(60), <1>2, <2>1, NewBag
  <2>3. PICK c : c = open'
    OBVIOUS
  <2>4. DOMAIN c = DOMAIN open \cup DOMAIN n
    BY <1>3, <2>2, <2>3, BagAdds
  <2> QED BY <2>2, <2>3, <2>4
<1>5. \A a \in passed : F[a].exploit \in Exploits /\ F[a].stake \in Int
  <2> SUFFICES ASSUME NEW a \in passed PROVE F[a].exploit \in Exploits /\ F[a].stake \in Int
    OBVIOUS
  <2>1. a \in Actions /\ F[a] = Opened(m, a, proposed \ {a})
    BY <1>1
  <2> QED BY <2>1, OpenedType DEF TInv
<1>6. PositionsOK'
  BY <1>4, <1>5 DEF TInv, PositionsOK, Positions, BagToSet
<1>7. UNCHANGED <<history, results, metrics, status>>
  BY DEF Cycle
<1> QED BY <1>6, <1>7 DEF TInv, CountsOK, HealthOK, Tallied

LEMMA CloseTypes ==
  ASSUME Numbers, TInv, FiniteBag(open), NEW p \in Positions, NEW pnl \in Pnls, Close(p, pnl)
  PROVE  TInv'
<1>1. PICK x, mt : x = p.exploit /\ mt = Recorded(metrics[x], pnl, Kind(x) \in Tails)
  OBVIOUS
<1>2. /\ open' = open (-) SetToBag({p})
      /\ metrics' = [metrics EXCEPT ![x] = mt]
      /\ status' = [status EXCEPT ![x] = Check(@, mt)]
      /\ results' = LastOf(Append(results, pnl > 0), 20)
      /\ history.decisions < MaxTrades /\ history'.decisions = history.decisions + 1
  BY <1>1 DEF Close, Route
<1>3. PositionsOK'
  <2>1. PICK c : c = open'
    OBVIOUS
  <2>2. DOMAIN c \subseteq DOMAIN open
    BY <1>2, <2>1, BagTakes
  <2> QED BY <2>1, <2>2 DEF TInv, PositionsOK, Positions, BagToSet
<1>4. CountsOK'
  <2>1. (pnl > 0) \in BOOLEAN
    OBVIOUS
  <2>2. Append(results, pnl > 0) \in Seq(BOOLEAN)
    BY <2>1, AppendProperties DEF TInv, CountsOK
  <2>3. results' \in Seq(BOOLEAN)
    BY <1>2, <2>2, LastType
  <2>4. history'.decisions \in 0..MaxTrades
    <3>1. MaxTrades \in Nat
      BY ThresholdAssumption
    <3>2. history.decisions \in 0..MaxTrades
      BY DEF TInv, CountsOK
    <3>3. history.decisions + 1 \in 0..MaxTrades
      BY <1>2, <3>1, <3>2
    <3> QED BY <1>2, <3>3
  <2> QED BY <2>3, <2>4 DEF CountsOK
<1>5. x \in Exploits
  BY <1>1 DEF TInv, PositionsOK
<1>6. Tallied(mt) /\ Check(status[x], mt) \in Sized
  <2>1. Tallied(metrics[x]) /\ status[x] \in Sized
    BY <1>5 DEF TInv, HealthOK
  <2> QED BY <1>1, <2>1, RecordedTallied, CheckSized
<1>7. HealthOK'
  <2>1. /\ metrics' = [y \in Exploits |-> metrics'[y]]
        /\ \A y \in Exploits : metrics'[y] = IF y = x THEN mt ELSE metrics[y]
    BY <1>2, <1>5 DEF TInv, HealthOK
  <2>2. ASSUME NEW y \in Exploits PROVE Tallied(metrics'[y])
    <3>1. CASE y = x
      BY <1>6, <2>1, <3>1
    <3>2. CASE y # x
      BY <2>1, <3>2 DEF TInv, HealthOK
    <3> QED BY <3>1, <3>2
  <2>3. status' \in [Exploits -> Sized]
    BY <1>2, <1>5, <1>6 DEF TInv, HealthOK
  <2> QED BY <2>1, <2>2, <2>3 DEF HealthOK
<1> QED BY <1>3, <1>4, <1>7 DEF TInv

\* The records keep their types, and the accounts balance: of every profit and
\* loss each unit is in a pool or the overflow, and the capped pool keeps its
\* cap, for every capital, share, threshold and number of positions.
THEOREM AccountsHold == Spec => []Accounts
<1> DEFINE P == FiniteBag(open) /\ Limits(open) /\ IInv /\ TInv
<1>1. Init => P
  <2> SUFFICES ASSUME Init PROVE P
    OBVIOUS
  <2>1. Positions = {} /\ results = <<>> /\ history.decisions = 0
    BY DEF Init, EmptyBag, SetToBag, Positions, BagToSet
  <2>2. PositionsOK /\ CountsOK
    BY <2>1, ThresholdAssumption DEF PositionsOK, CountsOK
  <2>3. HealthOK
    <3>1. Healthy \in Sized
      BY DEF Healthy, Sized
    <3> QED BY <3>1, NoneTallied DEF Init, HealthOK
  <2> QED BY <2>2, <2>3, Start, StartLimits DEF TInv
<1>2. P /\ [Next]_vars => P'
  <2> SUFFICES ASSUME P, [Next]_vars PROVE P'
    OBVIOUS
  <2>1. IInv'
    BY Step
  <2>2. Numbers
    BY DEF IInv
  <2>3. PICK c : c = open'
    OBVIOUS
  <2>4. FiniteBag(c) /\ Limits(c) => (FiniteBag(open) /\ Limits(open))'
    BY <2>3 DEF FiniteBag, Limits, Held, OfPair, OfRegime, OfTails
  <2>5. ASSUME NEW m \in Markets,
               NEW proposed \in SUBSET {a \in Actions : a.exploit \in Evaluated(m)},
               IsFiniteSet(proposed), Cycle(m, proposed)
        PROVE  P'
    <3>1. proposed \in SUBSET Actions
      OBVIOUS
    <3>2. FiniteBag(c) /\ Limits(c)
      BY <2>3, <2>5, <3>1, CycleLimits
    <3>3. TInv'
      BY <2>2, <2>5, <3>1, CycleTypes
    <3> QED BY <2>1, <2>4, <3>2, <3>3
  <2>6. ASSUME NEW p \in Positions, NEW pnl \in Pnls, Close(p, pnl) PROVE P'
    <3>1. c = open (-) SetToBag({p})
      BY <2>3, <2>6 DEF Close
    <3>2. FiniteBag(c) /\ Limits(c)
      BY <3>1, CloseLimits
    <3>3. TInv'
      BY <2>2, <2>6, CloseTypes
    <3> QED BY <2>1, <2>4, <3>2, <3>3
  <2>7. ASSUME open' = open, TInv' PROVE P'
    <3>1. FiniteBag(c) /\ Limits(c)
      BY <2>3, <2>7
    <3> QED BY <2>1, <2>4, <2>7, <3>1
  <2>8. CASE ResetRisk
    <3>1. UNCHANGED <<history, metrics, status, open>> /\ results' = <<>>
      BY <2>8 DEF ResetRisk
    <3>2. TInv'
      BY <3>1 DEF TInv, PositionsOK, Positions, BagToSet, CountsOK, HealthOK, Tallied
    <3> QED BY <2>7, <3>1, <3>2
  <2>9. ASSUME NEW x \in Exploits, ResetExploit(x) PROVE P'
    <3>1. /\ UNCHANGED <<history, results, open>>
          /\ metrics' = [metrics EXCEPT ![x] = NoTrades]
          /\ status' = [status EXCEPT ![x] = Healthy]
      BY <2>9 DEF ResetExploit
    <3>2. HealthOK'
      <4>1. Healthy \in Sized
        BY DEF Healthy, Sized
      <4>2. /\ metrics' = [y \in Exploits |-> metrics'[y]]
            /\ \A y \in Exploits : metrics'[y] = IF y = x THEN NoTrades ELSE metrics[y]
        BY <3>1 DEF TInv, HealthOK
      <4>3. ASSUME NEW y \in Exploits PROVE Tallied(metrics'[y])
        <5>1. CASE y = x
          BY <4>2, <5>1, NoneTallied
        <5>2. CASE y # x
          BY <4>2, <5>2 DEF TInv, HealthOK
        <5> QED BY <5>1, <5>2
      <4>4. status' \in [Exploits -> Sized]
        BY <3>1, <4>1 DEF TInv, HealthOK
      <4> QED BY <4>2, <4>3, <4>4 DEF HealthOK
    <3>3. TInv'
      BY <3>1, <3>2 DEF TInv, PositionsOK, Positions, BagToSet, CountsOK
    <3> QED BY <2>7, <3>1, <3>3
  <2>10. CASE UNCHANGED vars
    <3>1. UNCHANGED <<history, results, metrics, status, open>>
      BY <2>10 DEF vars
    <3>2. TInv'
      BY <3>1 DEF TInv, PositionsOK, Positions, BagToSet, CountsOK, HealthOK, Tallied
    <3> QED BY <2>7, <3>1, <3>2
  <2> HIDE DEF P
  <2> QED BY <2>5, <2>6, <2>8, <2>9, <2>10 DEF Next
<1>3. P => Accounts
  <2> SUFFICES ASSUME P PROVE Accounts
    OBVIOUS
  <2>1. /\ pools \in [Pools -> Int] /\ peak \in Nat /\ seen \in Nat /\ Balanced
    BY DEF IInv, Numbers
  <2>2. ASSUME NEW x \in Exploits
        PROVE  metrics[x].wins \in 0..metrics[x].trades /\ status[x].multiplier \in {0, 50, 100}
    <3>1. Tallied(metrics[x]) /\ status[x] \in Sized
      BY DEF TInv, HealthOK
    <3>2. metrics[x].wins \in 0..metrics[x].trades
      BY <3>1 DEF Tallied
    <3> QED BY <3>1, <3>2 DEF Sized
  <2>3. TypeOK
    BY <2>1, <2>2 DEF TypeOK, TInv, CountsOK, PositionsOK, FiniteBag
  <2> QED BY <2>1, <2>3 DEF Accounts
<1> QED BY <1>1, <1>2, <1>3, PTL DEF Spec

-----------------------------------------------------------------------------
(* The capital of the engine *)

BusySteps == {"allocate", "track", "callback", "close", "release", "profit"}

EnginesOK ==
    /\ engines \in Seq(CapitalState) /\ engines # <<>>
    /\ Conservation
    /\ ref \in [Workers -> DOMAIN engines]
ListsOK == demo \in Seq(Int) /\ scen \in Nat /\ auto \in Seq(Int)
ServerOK == initial \in Nat /\ autoOn \in BOOLEAN /\ mixed \in BOOLEAN /\ served \in Nat
StepOK == step \in [Workers -> Steps]
ThreadOK ==
    /\ kind \in [Workers -> {"flow", "tick", "reset", "config"}]
    /\ snap \in [Workers -> Int]
    /\ todo \in [Workers -> Seq(Action)] /\ acts \in [Workers -> Seq(Action)]
    /\ stake \in [Workers -> Int]
Busy == \A w \in Workers : step[w] \in BusySteps => acts[w] # <<>>
LedgerInv == EnginesOK /\ ListsOK /\ ServerOK /\ StepOK /\ ThreadOK /\ Busy

-----------------------------------------------------------------------------

\* What the lists are used for.
LEMMA Lists ==
  ASSUME NEW S
  PROVE  /\ <<>> \in Seq(S)
         /\ \A s \in Seq(S), x \in S : Append(s, x) \in Seq(S) /\ Append(s, x) # <<>>
         /\ \A s \in Seq(S) : s # <<>> => Head(s) \in S /\ Tail(s) \in Seq(S)
  <1>1. <<>> \in Seq(S)  BY EmptySeq
  <1>2. ASSUME NEW s \in Seq(S), NEW x \in S
        PROVE  Append(s, x) \in Seq(S) /\ Append(s, x) # <<>>
    BY AppendProperties
  <1>3. ASSUME NEW s \in Seq(S), s # <<>>
        PROVE  Head(s) \in S /\ Tail(s) \in Seq(S)
    BY <1>3, HeadTailProperties
  <1> QED  BY <1>1, <1>2, <1>3

\* Moving money, and realising a profit, keeps a capital state balanced.
LEMMA MovesBalance ==
  ASSUME NEW c \in CapitalState, StateBalanced(c), NEW n \in Int
  PROVE  /\ StateAllocated(c, n) \in CapitalState /\ StateBalanced(StateAllocated(c, n))
         /\ Released(c, n) \in CapitalState /\ StateBalanced(Released(c, n))
         /\ Profited(c, n) \in CapitalState /\ StateBalanced(Profited(c, n))
         /\ InitialState(n) \in CapitalState /\ StateBalanced(InitialState(n))
  <1> USE DEF CapitalState, StateBalanced, Account
  <1>1. StateAllocated(c, n) \in CapitalState /\ StateBalanced(StateAllocated(c, n))
    BY DEF StateAllocated
  <1>2. Released(c, n) \in CapitalState /\ StateBalanced(Released(c, n))  BY DEF Released
  <1>3. Profited(c, n) \in CapitalState /\ StateBalanced(Profited(c, n))  BY DEF Profited
  <1>4. InitialState(n) \in CapitalState /\ StateBalanced(InitialState(n))  BY DEF InitialState
  <1> QED  BY <1>1, <1>2, <1>3, <1>4

\* The capital an action asks for is an integer.
LEMMA RequiredTyped ==
  ASSUME ThreadOK, NEW w \in Workers, NEW a \in Action
  PROVE  RequiredCapital(w, a) \in Int
  <1>1. snap[w] * a.size \in Int  BY DEF ThreadOK, Action
  <1>2. Den \in Nat \ {0}  BY LedgerAssumption
  <1> QED  BY <1>1, <1>2 DEF RequiredCapital

\* What the scenarios and the signals ask for are actions.
LEMMA ActionsTyped ==
  ASSUME NEW w
  PROVE  Scenarios \subseteq Seq(Action) /\ Signals(w) \subseteq Seq(Action)
  <1>1. /\ CloseAction \in Action
        /\ \A n \in FlowSizes : OpenAction(n) \in Action
        /\ \A n \in TickSizes : OpenAction(n) \in Action
    BY LedgerAssumption DEF CloseAction, OpenAction, Action
  <1>2. /\ <<>> \in Seq(Action)
        /\ \A a \in Action : <<a>> \in Seq(Action)
        /\ \A a, b \in Action : <<a, b>> \in Seq(Action)
    OBVIOUS
  <1>3. {<<>>} \subseteq Seq(Action) /\ {<<CloseAction>>} \subseteq Seq(Action)  BY <1>1, <1>2
  <1>4. Signals(w) \subseteq Seq(Action)
    <2>1. {<<OpenAction(n)>> :
             n \in {m \in TickSizes : RequiredCapital(w, OpenAction(m)) >= MinStake}}
            \subseteq Seq(Action)
      BY <1>1, <1>2
    <2> QED  BY <1>3, <2>1, Zenon DEF Signals
  <1>5. Scenarios \subseteq Seq(Action)
    <2>1. {<<OpenAction(n)>> : n \in FlowSizes} \subseteq Seq(Action)  BY <1>1, <1>2
    <2>2. {<<OpenAction(p[1]), OpenAction(p[2])>> : p \in FlowSizes \X FlowSizes}
            \subseteq Seq(Action)
      BY <1>1, <1>2
    <2> QED  BY <1>3, <2>1, <2>2, Zenon DEF Scenarios
  <1> QED  BY <1>4, <1>5

-----------------------------------------------------------------------------
(* The parts of the invariant that a step leaves alone.                    *)

LEMMA SameEngines == ASSUME EnginesOK, UNCHANGED <<engines, ref>> PROVE EnginesOK'
  BY DEF EnginesOK, Conservation
LEMMA SameLists == ASSUME ListsOK, UNCHANGED lists PROVE ListsOK'
  BY DEF ListsOK, lists
LEMMA SameServer == ASSUME ServerOK, UNCHANGED server PROVE ServerOK'
  BY DEF ServerOK, server
LEMMA SameThread ==
  ASSUME ThreadOK, UNCHANGED <<kind, snap, todo, acts, stake>>
  PROVE  ThreadOK'
  BY DEF ThreadOK

\* A capital state is replaced by a balanced one.
LEMMA EngineStep ==
  ASSUME EnginesOK, NEW e \in DOMAIN engines, NEW c \in CapitalState, StateBalanced(c),
         engines' = [engines EXCEPT ![e] = c], UNCHANGED ref
  PROVE  EnginesOK'
  <1>1. engines \in [1 .. Len(engines) -> CapitalState] /\ Len(engines) \in Nat
    BY LenProperties DEF EnginesOK
  <1>2. /\ engines' \in Seq(CapitalState) /\ Len(engines') = Len(engines)
        /\ DOMAIN engines' = DOMAIN engines
    BY <1>1, ExceptSeq DEF EnginesOK
  <1>3. engines' # <<>>  BY <1>2, EmptySeq DEF EnginesOK
  <1>4. Conservation'  BY <1>1, <1>2 DEF EnginesOK, Conservation, StateBalanced
  <1> QED  BY <1>2, <1>3, <1>4 DEF EnginesOK

\* A thread moves between steps: to a step in the middle of an action only if
\* it has an action, and keeps it.
LEMMA Moved ==
  ASSUME StepOK, Busy, NEW w \in Workers, NEW from, NEW to \in Steps, At(w, from, to),
         \A v \in Workers \ {w} : acts'[v] = acts[v],
         to \in BusySteps => acts'[w] # <<>>
  PROVE  StepOK' /\ Busy'
  BY DEF StepOK, Busy, At

\* A call is made on the current engine state.
LEMMA CurrentExists == EnginesOK => Current \in DOMAIN engines
  BY LenProperties, EmptySeq DEF EnginesOK, Current

LEMMA InitInv == LedgerInit => LedgerInv
  <1> SUFFICES ASSUME LedgerInit PROVE LedgerInv  OBVIOUS
  <1>1. InitialState(InitialCapital) \in CapitalState /\ StateBalanced(InitialState(InitialCapital))
    BY LedgerAssumption DEF InitialState, Account, CapitalState, StateBalanced
  <1>2. EnginesOK  BY <1>1 DEF LedgerInit, EnginesOK, Conservation
  <1>3. ListsOK  BY Lists DEF LedgerInit, ListsOK
  <1>4. ServerOK  BY LedgerAssumption DEF LedgerInit, ServerOK
  <1>5. StepOK /\ Busy  BY DEF LedgerInit, StepOK, Busy, Steps, BusySteps
  <1>6. ThreadOK  BY Lists DEF LedgerInit, ThreadOK
  <1> QED  BY <1>2, <1>3, <1>4, <1>5, <1>6 DEF LedgerInv

-----------------------------------------------------------------------------

\* A request comes in, decides and checks: no capital moves.
LEMMA DecideStep ==
  ASSUME LedgerInv, NEW w \in Workers,
         Begin(w) \/ Snapshot(w) \/ Evaluate(w) \/ RiskCheck(w) \/ RiskChecked(w)
  PROVE  LedgerInv'
  <1> USE DEF LedgerInv
  <1>1. CASE Begin(w)
    <2>1. EnginesOK' /\ ListsOK'  BY <1>1, SameEngines, SameLists DEF Begin
    <2>2. ServerOK'  BY <1>1 DEF Begin, ServerOK
    <2>3. ThreadOK'  BY <1>1 DEF Begin, ThreadOK
    <2>4. StepOK' /\ Busy'  BY <1>1, Moved DEF Begin, Steps, BusySteps
    <2> QED  BY <2>1, <2>2, <2>3, <2>4
  <1>2. CASE Snapshot(w)
    <2>1. EnginesOK' /\ ListsOK' /\ ServerOK'
      BY <1>2, SameEngines, SameLists, SameServer DEF Snapshot
    <2>2. engines[Current].avail \in Int
      <3>1. engines[Current] \in CapitalState
        BY CurrentExists, ElementOfSeq, LenProperties DEF EnginesOK
      <3> QED  BY <3>1 DEF CapitalState
    <2>3. ThreadOK'  BY <1>2, <2>2 DEF Snapshot, ThreadOK
    <2>4. StepOK' /\ Busy'  BY <1>2, Moved DEF Snapshot, Steps, BusySteps
    <2> QED  BY <2>1, <2>3, <2>4
  <1>3. CASE Evaluate(w)
    <2>1. EnginesOK' /\ ListsOK' /\ ServerOK'
      BY <1>3, SameEngines, SameLists, SameServer DEF Evaluate
    <2>2. PICK as \in Scenarios \union Signals(w) : todo' = [todo EXCEPT ![w] = as]
      BY <1>3 DEF Evaluate
    <2> as \in Seq(Action)  BY ActionsTyped
    <2>3. ThreadOK'  BY <1>3, <2>2 DEF Evaluate, ThreadOK
    <2>4. StepOK' /\ Busy'  BY <1>3, Moved DEF Evaluate, Steps, BusySteps
    <2> QED  BY <2>1, <2>3, <2>4
  <1>4. CASE RiskCheck(w)
    <2>1. EnginesOK' /\ ListsOK' /\ ServerOK'
      BY <1>4, SameEngines, SameLists, SameServer DEF RiskCheck
    <2>2. Head(todo[w]) \in Action /\ Tail(todo[w]) \in Seq(Action)
      BY <1>4, Lists DEF RiskCheck, ThreadOK
    <2>3. Append(acts[w], Head(todo[w])) \in Seq(Action) \ {<<>>}
      BY <2>2, Lists DEF ThreadOK
    <2>4. acts' = acts \/ acts' = [acts EXCEPT ![w] = Append(acts[w], Head(todo[w]))]
      BY <1>4 DEF RiskCheck
    <2>5. ThreadOK'
      <3>1. acts' \in [Workers -> Seq(Action)]  BY <2>3, <2>4 DEF ThreadOK
      <3>2. todo' \in [Workers -> Seq(Action)]  BY <1>4, <2>2 DEF RiskCheck, ThreadOK
      <3> QED  BY <1>4, <3>1, <3>2 DEF RiskCheck, ThreadOK
    <2>6. StepOK' /\ Busy'
      BY <1>4, <2>3, <2>4 DEF RiskCheck, ThreadOK, StepOK, Busy
    <2> QED  BY <2>1, <2>5, <2>6
  <1>5. CASE RiskChecked(w)
    <2>1. EnginesOK' /\ ListsOK' /\ ServerOK' /\ ThreadOK'
      BY <1>5, SameEngines, SameLists, SameServer, SameThread DEF RiskChecked, thread
    <2>2. StepOK' /\ Busy'  BY <1>5, Moved DEF RiskChecked, Steps, BusySteps, thread
    <2> QED  BY <2>1, <2>2
  <1> QED  BY <1>1, <1>2, <1>3, <1>4, <1>5

\* A thread calls allocate or release: the engine state it calls exists.
LEMMA CallStep ==
  ASSUME LedgerInv, NEW w \in Workers, CallAllocate(w) \/ CallRelease(w)
  PROVE  LedgerInv'
  <1> USE DEF LedgerInv
  <1>1. PICK from, to \in Steps : CallOn(w, from, to) /\ acts[w] # <<>>
    <2>1. CASE CallAllocate(w)  BY <2>1 DEF CallAllocate, Doing, Steps
    <2>2. CASE CallRelease(w)
      BY <2>2 DEF CallRelease, Busy, BusySteps, CallOn, At, Steps
    <2> QED  BY <2>1, <2>2
  <1>2. EnginesOK'  BY <1>1, CurrentExists DEF CallOn, EnginesOK, Conservation
  <1>3. ListsOK' /\ ServerOK' /\ ThreadOK'
    BY <1>1, SameLists, SameServer, SameThread DEF CallOn
  <1>4. StepOK' /\ Busy'  BY <1>1, Moved DEF CallOn, Steps
  <1> QED  BY <1>2, <1>3, <1>4

\* The next action becomes the first one, or there is none.
LEMMA NextTyped ==
  ASSUME ThreadOK, NEW w \in Workers, acts[w] # <<>>, NextAction(w)
  PROVE  /\ acts' \in [Workers -> Seq(Action)]
         /\ \A v \in Workers \ {w} : acts'[v] = acts[v]
  BY Lists DEF ThreadOK, NextAction

\* allocate moves what it was asked for from available to deployed capital.
LEMMA OpenStep ==
  ASSUME LedgerInv, NEW w \in Workers,
         OpenPosition(w) \/ OpenRejected(w) \/ TrackPosition(w)
  PROVE  LedgerInv'
  <1> USE DEF LedgerInv
  <1>1. CASE OpenPosition(w)
    <2>1. acts[w] # <<>> /\ Head(acts[w]) \in Action
      BY <1>1, Lists DEF OpenPosition, At, Busy, BusySteps, ThreadOK
    <2>2. PICK amount \in Int :
            /\ engines' = [engines EXCEPT ![ref[w]] = StateAllocated(engines[ref[w]], amount)]
            /\ stake' = [stake EXCEPT ![w] = amount]
      BY <1>1, <2>1, RequiredTyped DEF OpenPosition
    <2>3. /\ ref[w] \in DOMAIN engines
          /\ engines[ref[w]] \in CapitalState /\ StateBalanced(engines[ref[w]])
      BY ElementOfSeq, LenProperties DEF EnginesOK, Conservation
    <2>4. EnginesOK'
      BY <1>1, <2>2, <2>3, MovesBalance, EngineStep DEF OpenPosition
    <2>5. ListsOK' /\ ServerOK'  BY <1>1, SameLists, SameServer DEF OpenPosition
    <2>6. ThreadOK'  BY <1>1, <2>2 DEF OpenPosition, ThreadOK
    <2>7. StepOK' /\ Busy'  BY <1>1, <2>1, Moved DEF OpenPosition, Steps
    <2> QED  BY <2>4, <2>5, <2>6, <2>7
  <1>2. CASE OpenRejected(w)
    <2>1. acts[w] # <<>>  BY <1>2 DEF OpenRejected, At, Busy, BusySteps
    <2>2. EnginesOK' /\ ListsOK' /\ ServerOK'
      BY <1>2, SameEngines, SameLists, SameServer DEF OpenRejected
    <2>3. ThreadOK'  BY <1>2, <2>1, NextTyped DEF OpenRejected, ThreadOK
    <2>4. StepOK' /\ Busy'
      BY <1>2, <2>1, NextTyped, Moved DEF OpenRejected, Steps, BusySteps
    <2> QED  BY <2>2, <2>3, <2>4
  <1>3. CASE TrackPosition(w)
    <2>1. EnginesOK' /\ ServerOK' /\ ThreadOK'
      BY <1>3, SameEngines, SameServer, SameThread DEF TrackPosition, thread
    <2>2. \/ demo' = Append(demo, stake[w]) /\ auto' = auto
          \/ auto' = Append(auto, stake[w]) /\ demo' = demo
      BY <1>3 DEF TrackPosition
    <2>3. stake[w] \in Int  BY DEF ThreadOK
    <2>4. ListsOK'  BY <1>3, <2>2, <2>3, Lists DEF TrackPosition, ListsOK
    <2>5. acts[w] # <<>> /\ acts' = acts
      BY <1>3 DEF TrackPosition, At, Busy, BusySteps, thread
    <2>6. StepOK' /\ Busy'  BY <1>3, <2>5, Moved DEF TrackPosition, Steps
    <2> QED  BY <2>1, <2>4, <2>6
  <1> QED  BY <1>1, <1>2, <1>3

\* release moves the stake back; the profit is added to capital and to pnl.
LEMMA CloseStep ==
  ASSUME LedgerInv, NEW w \in Workers,
         TakePosition(w) \/ NothingToClose(w) \/ ReleasePosition(w) \/ TakeProfit(w)
  PROVE  LedgerInv'
  <1> USE DEF LedgerInv
  <1>1. CASE TakePosition(w)
    <2>1. EnginesOK' /\ ServerOK'  BY <1>1, SameEngines, SameServer DEF TakePosition
    <2>2. PICK positions \in {demo, auto} :
            positions # <<>> /\ stake' = [stake EXCEPT ![w] = Head(positions)]
      BY <1>1 DEF TakePosition
    <2>3. Head(positions) \in Int  BY <2>2, Lists DEF ListsOK
    <2>4. ThreadOK'  BY <1>1, <2>2, <2>3 DEF TakePosition, ThreadOK
    <2>5. demo' = demo \/ (demo # <<>> /\ demo' = Tail(demo))
      <3>1. CASE kind[w] = "flow"  BY <1>1, <3>1 DEF TakePosition
      <3>2. CASE kind[w] # "flow"  BY <1>1, <3>2 DEF TakePosition
      <3> QED  BY <3>1, <3>2
    <2>6. ListsOK'  BY <1>1, <2>5, Lists DEF TakePosition, ListsOK
    <2>7. StepOK' /\ Busy'  BY <1>1, Moved DEF TakePosition, Doing, Steps
    <2> QED  BY <2>1, <2>4, <2>6, <2>7
  <1>2. CASE NothingToClose(w)
    <2>1. acts[w] # <<>>  BY <1>2 DEF NothingToClose, Doing
    <2>2. EnginesOK' /\ ListsOK' /\ ServerOK'
      BY <1>2, SameEngines, SameLists, SameServer DEF NothingToClose
    <2>3. ThreadOK'  BY <1>2, <2>1, NextTyped DEF NothingToClose, ThreadOK
    <2>4. StepOK' /\ Busy'
      BY <1>2, <2>1, NextTyped DEF NothingToClose, StepOK, Busy, BusySteps
    <2> QED  BY <2>2, <2>3, <2>4
  <1>3. CASE ReleasePosition(w)
    <2>1. stake[w] \in Int  BY DEF ThreadOK
    <2>2. /\ ref[w] \in DOMAIN engines
          /\ engines[ref[w]] \in CapitalState /\ StateBalanced(engines[ref[w]])
      BY ElementOfSeq, LenProperties DEF EnginesOK, Conservation
    <2>3. engines' = [engines EXCEPT ![ref[w]] = Released(engines[ref[w]], stake[w])]
      BY <1>3 DEF ReleasePosition
    <2>4. EnginesOK'
      BY <1>3, <2>1, <2>2, <2>3, MovesBalance, EngineStep DEF ReleasePosition, thread
    <2>5. ListsOK' /\ ServerOK' /\ ThreadOK'
      BY <1>3, SameLists, SameServer, SameThread DEF ReleasePosition, thread
    <2>6. acts[w] # <<>> /\ acts' = acts
      BY <1>3 DEF ReleasePosition, At, Busy, BusySteps, thread
    <2>7. StepOK' /\ Busy'  BY <1>3, <2>6, Moved DEF ReleasePosition, Steps
    <2> QED  BY <2>4, <2>5, <2>7
  <1>4. CASE TakeProfit(w)
    <2>1. PICK net \in Int :
            engines' = [engines EXCEPT ![Current] = Profited(engines[Current], net)]
      <3>1. PICK net \in -MaxLoss..MaxGain :
              engines' = [engines EXCEPT ![Current] = Profited(@, net)]
        BY <1>4 DEF TakeProfit
      <3>2. net \in Int  BY LedgerAssumption
      <3>3. engines' = [engines EXCEPT ![Current] = Profited(engines[Current], net)]  BY <3>1
      <3> QED  BY <3>2, <3>3
    <2>2. /\ Current \in DOMAIN engines
          /\ engines[Current] \in CapitalState /\ StateBalanced(engines[Current])
      BY CurrentExists, ElementOfSeq, LenProperties DEF EnginesOK, Conservation
    <2>3. EnginesOK'
      BY <1>4, <2>1, <2>2, MovesBalance, EngineStep DEF TakeProfit, thread
    <2>4. ListsOK' /\ ServerOK' /\ ThreadOK'
      BY <1>4, SameLists, SameServer, SameThread DEF TakeProfit, thread
    <2>5. acts[w] # <<>> /\ acts' = acts
      BY <1>4 DEF TakeProfit, At, Busy, BusySteps, thread
    <2>6. StepOK' /\ Busy'  BY <1>4, <2>5, Moved DEF TakeProfit, Steps
    <2> QED  BY <2>3, <2>4, <2>6
  <1> QED  BY <1>1, <1>2, <1>3, <1>4

\* The exploit is told, or the request ends.
LEMMA EndStep ==
  ASSUME LedgerInv, NEW w \in Workers, Callback(w) \/ Finish(w)
  PROVE  LedgerInv'
  <1> USE DEF LedgerInv
  <1>1. CASE Callback(w)
    <2>1. acts[w] # <<>> /\ Head(acts[w]).size \in Int
      <3>1. acts[w] # <<>>  BY <1>1 DEF Callback, At, Busy, BusySteps
      <3>2. Head(acts[w]) \in Action  BY <3>1, Lists DEF ThreadOK
      <3> QED  BY <3>1, <3>2 DEF Action
    <2>2. EnginesOK' /\ ServerOK'  BY <1>1, SameEngines, SameServer DEF Callback
    <2>3. scen' \in Nat  BY <1>1 DEF Callback, ListsOK
    <2>4. \/ auto' = auto \/ auto' = Append(auto, Head(acts[w]).size)
          \/ auto # <<>> /\ auto' = Tail(auto)
      BY <1>1 DEF Callback
    <2>5. ListsOK'  BY <1>1, <2>1, <2>3, <2>4, Lists DEF Callback, ListsOK
    <2>6. ThreadOK'  BY <1>1, <2>1, NextTyped DEF Callback, ThreadOK
    <2>7. StepOK' /\ Busy'  BY <1>1, <2>1, NextTyped, Moved DEF Callback, Steps, BusySteps
    <2> QED  BY <2>2, <2>5, <2>6, <2>7
  <1>2. CASE Finish(w)
    <2>1. EnginesOK' /\ ListsOK' /\ ServerOK' /\ ThreadOK'
      BY <1>2, SameEngines, SameLists, SameServer, SameThread DEF Finish, thread
    <2>2. StepOK' /\ Busy'  BY <1>2, Moved DEF Finish, Steps, BusySteps, thread
    <2> QED  BY <2>1, <2>2
  <1> QED  BY <1>1, <1>2

\* The other requests: an engine state is replaced by a new account, lists are
\* emptied, flags are set.
LEMMA ReplaceStep ==
  ASSUME LedgerInv, NEW w \in Workers, ReplaceEngine(w)
  PROVE  LedgerInv'
  <1> USE DEF LedgerInv
  <1> DEFINE new == InitialState(snap[w])
  <1>1. new \in CapitalState /\ StateBalanced(new)
    BY DEF ThreadOK, InitialState, Account, CapitalState, StateBalanced
  <1>2. /\ engines' \in Seq(CapitalState) /\ engines' # <<>>
        /\ Len(engines') = Len(engines) + 1
        /\ \A e \in 1 .. Len(engines) : engines'[e] = engines[e]
        /\ engines'[Len(engines) + 1] = new
    BY <1>1, AppendProperties DEF ReplaceEngine, EnginesOK
  <1>3. DOMAIN engines = 1 .. Len(engines) /\ Len(engines) \in Nat
    BY LenProperties DEF EnginesOK
  <1>4. DOMAIN engines' = 1 .. Len(engines) + 1  BY <1>2, <1>3, LenProperties
  <1>5. Conservation'  BY <1>1, <1>2, <1>3, <1>4 DEF EnginesOK, Conservation, StateBalanced
  <1>6. EnginesOK'  BY <1>2, <1>3, <1>4, <1>5 DEF EnginesOK, ReplaceEngine, thread
  <1>7. ServerOK' /\ ThreadOK'
    BY SameServer, SameThread DEF ReplaceEngine, thread
  <1>8. ListsOK'  BY Lists DEF ReplaceEngine, ListsOK
  <1>9. StepOK' /\ Busy'  BY Moved DEF ReplaceEngine, Steps, BusySteps, thread
  <1> QED  BY <1>6, <1>7, <1>8, <1>9

LEMMA ServeStep ==
  ASSUME LedgerInv, NEW w \in Workers,
         Reset(w) \/ ConfigCapital(w) \/ StartAutomated(w) \/ StopAutomated(w)
  PROVE  LedgerInv'
  <1> USE DEF LedgerInv
  <1>1. PICK k \in {"tick", "reset", "config"}, to \in {"replace", "start", "idle"} :
           Serve(w, k, to)
    BY DEF Reset, ConfigCapital, StartAutomated, StopAutomated
  <1>2. k \in {"flow", "tick", "reset", "config"}  BY <1>1, LedgerAssumption DEF Serve
  <1>3. EnginesOK' /\ ListsOK'  BY <1>1, SameEngines, SameLists DEF Serve, lists
  <1>4. ServerOK'
    <2>1. served' \in Nat /\ mixed' \in BOOLEAN  BY <1>1 DEF Serve, ServerOK
    <2>2. initial' \in Nat
      BY LedgerAssumption DEF Reset, ConfigCapital, StartAutomated, StopAutomated, ServerOK
    <2>3. autoOn' \in BOOLEAN
      BY Zenon DEF Reset, ConfigCapital, StartAutomated, StopAutomated, ServerOK
    <2> QED  BY <2>1, <2>2, <2>3 DEF ServerOK
  <1>5. ThreadOK'
    <2>1. snap' \in [Workers -> Int]
      BY LedgerAssumption
         DEF Reset, ConfigCapital, StartAutomated, StopAutomated, ServerOK, ThreadOK
    <2> QED  BY <1>1, <1>2, <2>1 DEF Serve, ThreadOK
  <1>6. StepOK' /\ Busy'  BY <1>1, Moved DEF Serve, Steps, BusySteps
  <1> QED  BY <1>3, <1>4, <1>5, <1>6

LEMMA ClearStep ==
  ASSUME LedgerInv, NEW w \in Workers,
         ResetScenario(w) \/ ResetAutomated(w) \/ ResetMode(w) \/ StartCleared(w)
  PROVE  LedgerInv'
  <1> USE DEF LedgerInv
  <1>1. PICK from \in Steps, to \in {"clear_auto", "clear_mode", "idle"} : At(w, from, to)
    BY DEF Steps, ResetScenario, ResetAutomated, ResetMode, StartCleared
  <1>2. UNCHANGED <<engines, thread>>
    BY DEF ResetScenario, ResetAutomated, ResetMode, StartCleared
  <1>3. EnginesOK' /\ ThreadOK'  BY <1>2, SameEngines, SameThread DEF thread
  <1>4. ListsOK'
    <2>1. <<>> \in Seq(Int)  BY Lists
    <2>2. demo' = demo /\ (scen' = 0 \/ scen' = scen) /\ (auto' = <<>> \/ auto' = auto)
      <3>1. CASE ResetScenario(w)  BY <3>1 DEF ResetScenario
      <3>2. CASE ResetAutomated(w)  BY <3>2 DEF ResetAutomated
      <3>3. CASE ResetMode(w)  BY <3>3 DEF ResetMode, lists
      <3>4. CASE StartCleared(w)  BY <3>4 DEF StartCleared
      <3> QED  BY <3>1, <3>2, <3>3, <3>4
    <2>3. demo' \in Seq(Int) /\ scen' \in Nat  BY <2>2 DEF ListsOK
    <2>4. auto' \in Seq(Int)  BY <2>1, <2>2, Zenon DEF ListsOK
    <2> QED  BY <2>3, <2>4 DEF ListsOK
  <1>5. ServerOK'
    <2>1. initial' = initial /\ mixed' = mixed /\ served' = served
      BY DEF ResetScenario, ResetAutomated, ResetMode, StartCleared, server
    <2>2. autoOn' \in BOOLEAN
      BY Zenon DEF ResetScenario, ResetAutomated, ResetMode, StartCleared, server, ServerOK
    <2> QED  BY <2>1, <2>2 DEF ServerOK
  <1>6. StepOK' /\ Busy'  BY <1>1, <1>2, Moved DEF Steps, BusySteps, thread
  <1> QED  BY <1>3, <1>4, <1>5, <1>6

LEMMA StepInv == LedgerInv /\ [LedgerNext]_ledgerVars => LedgerInv'
  <1> SUFFICES ASSUME LedgerInv, [LedgerNext]_ledgerVars PROVE LedgerInv'  OBVIOUS
  <1>1. ASSUME NEW w \in Workers, ExecuteStep(w) PROVE LedgerInv'
    BY <1>1, DecideStep, CallStep, OpenStep, CloseStep, EndStep DEF ExecuteStep
  <1>2. ASSUME NEW w \in Workers, ServerStep(w) PROVE LedgerInv'
    BY <1>2, ReplaceStep, ServeStep, ClearStep DEF ServerStep
  <1>3. CASE UNCHANGED ledgerVars
    <2>1. EnginesOK' /\ ListsOK' /\ ServerOK' /\ ThreadOK'
      BY <1>3, SameEngines, SameLists, SameServer, SameThread DEF ledgerVars, thread, LedgerInv
    <2>2. StepOK' /\ Busy'  BY <1>3 DEF ledgerVars, thread, LedgerInv, StepOK, Busy
    <2> QED  BY <2>1, <2>2 DEF LedgerInv
  <1> QED  BY <1>1, <1>2, <1>3 DEF LedgerNext

-----------------------------------------------------------------------------

\* Amounts stay integers, lists stay lists of positions and actions, and no
\* thread calls an engine state that does not exist, with every number of threads.
THEOREM LedgerTyped == LedgerSpec => []LedgerTypeOK
  <1>1. LedgerInv => LedgerTypeOK
    <2> SUFFICES ASSUME LedgerInv PROVE LedgerTypeOK  OBVIOUS
    <2>1. ref \in [Workers -> Nat]  BY LenProperties DEF LedgerInv, EnginesOK
    <2> QED  BY <2>1 DEF LedgerInv, EnginesOK, ListsOK, ServerOK, StepOK, ThreadOK, LedgerTypeOK
  <1> QED  BY InitInv, StepInv, <1>1, PTL DEF LedgerSpec

\* No money appears or vanishes: however many threads open and close positions,
\* reset and configure at the same time, available and deployed capital of every
\* engine state add up to what it was created with and the profit realised in it.
THEOREM CapitalConserved == LedgerSpec => []Conservation
  <1>1. LedgerInv => Conservation  BY DEF LedgerInv, EnginesOK
  <1> QED  BY InitInv, StepInv, <1>1, PTL DEF LedgerSpec

-----------------------------------------------------------------------------
(* Deployed capital is what the positions hold, while only scenario steps   *)
(* run.  The stake of a position is in the hand of a thread from allocate   *)
(* to demo_positions.append, and from the pop to release.                   *)

Hands == [w \in Workers |-> InHand(w)]
InHandSteps == {"track", "close", "release"}
FlowSteps == {"idle", "snapshot", "evaluate", "risk", "execute", "allocate", "track",
              "callback", "close", "release", "profit"}
OnlyFlows ==
    /\ Len(engines) = 1
    /\ \A w \in Workers : kind[w] = "flow" /\ step[w] \in FlowSteps
Deployed == engines[1].depl = SumOfList(demo) + SumOver(Hands, Workers)
DInv == ~mixed => OnlyFlows /\ Deployed
OthersWait(w) == \A v \in Workers \ {w} : step'[v] = step[v] /\ stake'[v] = stake[v]

LEMMA HandsTyped ==
  ASSUME ThreadOK, IsFiniteSet(Workers)
  PROVE  Summable(Hands, Workers) /\ SumOver(Hands, Workers) \in Int
  <1>1. Summable(Hands, Workers)  BY DEF Summable, Hands, InHand, ThreadOK
  <1> QED  BY <1>1, SumType

\* The one engine state.
LEMMA OneEngine ==
  ASSUME EnginesOK, OnlyFlows
  PROVE  /\ Current = 1 /\ 1 \in DOMAIN engines
         /\ engines[1] \in CapitalState /\ engines[1].depl \in Int
         /\ \A w \in Workers : ref[w] = 1
  <1>1. engines \in Seq(CapitalState) /\ Len(engines) = 1  BY DEF EnginesOK, OnlyFlows
  <1>2. DOMAIN engines = 1 .. 1  BY <1>1, LenProperties
  <1>3. engines[1] \in CapitalState  BY <1>1, ElementOfSeq
  <1>4. engines[1].depl \in Int  BY <1>3 DEF CapitalState
  <1>5. \A w \in Workers : ref[w] = 1  BY <1>2 DEF EnginesOK
  <1> QED  BY <1>1, <1>2, <1>3, <1>4, <1>5 DEF Current

\* Money moves by the same amount in the account, in the list and in the hand
\* of the thread.
LEMMA FlowStep ==
  ASSUME LedgerInv, LedgerInv', OnlyFlows, Deployed, IsFiniteSet(Workers), NEW w \in Workers,
         UNCHANGED kind, step'[w] \in FlowSteps, Len(engines') = 1, OthersWait(w),
         NEW before \in Int, before = InHand(w), NEW after \in Int, after = InHand(w)',
         NEW inAccount \in Int, engines'[1].depl = engines[1].depl + inAccount,
         SumOfList(demo') = SumOfList(demo) + inAccount - (after - before)
  PROVE  OnlyFlows' /\ Deployed'
  <1> USE DEF LedgerInv
  <1>1. OnlyFlows'
    <2> SUFFICES ASSUME NEW v \in Workers PROVE kind'[v] = "flow" /\ step'[v] \in FlowSteps
      BY DEF OnlyFlows
    <2>1. CASE v = w  BY <2>1 DEF OnlyFlows
    <2>2. CASE v # w  BY <2>2 DEF OnlyFlows, OthersWait
    <2> QED  BY <2>1, <2>2
  <1>2. PICK h : h = Hands'  OBVIOUS
  <1>3. PICK g : g = Hands  OBVIOUS
  <1>4. g[w] = before /\ h[w] = after  BY <1>2, <1>3 DEF Hands
  <1>5. \A v \in Workers \ {w} : h[v] = g[v]
    BY <1>2, <1>3 DEF Hands, InHand, OthersWait
  <1>6. Summable(g, Workers) /\ SumOver(g, Workers) \in Int  BY <1>3, HandsTyped
  <1>7. SumOver(h, Workers) = SumOver(g, Workers) - before + after
    <2>1. h[w] \in Int /\ g[w] \in Int  BY <1>4
    <2>2. SumOver(h, Workers) = SumOver(g, Workers) + (h[w] - g[w])
      BY <1>5, <1>6, <2>1, SumChange
    <2> QED  BY <1>4, <1>6, <2>2
  <1>8. SumOfList(demo) \in Int
    <2>1. demo \in Seq(Int)  BY DEF ListsOK
    <2> QED  BY <2>1, ListSummable, SumType DEF SumOfList
  <1>9. engines'[1].depl = SumOfList(demo) + SumOver(g, Workers) + inAccount
    BY <1>3 DEF Deployed
  <1>10. engines'[1].depl = SumOfList(demo') + SumOver(h, Workers)
    BY <1>6, <1>7, <1>8, <1>9
  <1>11. Deployed'  BY <1>2, <1>10 DEF Deployed
  <1> QED  BY <1>1, <1>11

\* A thread goes from one step to another and moves no money.
LEMMA IdleFlow ==
  ASSUME LedgerInv, LedgerInv', OnlyFlows, Deployed, IsFiniteSet(Workers), NEW w \in Workers,
         UNCHANGED <<engines, demo, kind, stake>>, OthersWait(w), step'[w] \in FlowSteps,
         step[w] \in InHandSteps <=> step'[w] \in InHandSteps
  PROVE  OnlyFlows' /\ Deployed'
  <1>1. Len(engines') = 1  BY DEF OnlyFlows
  <1>2. engines'[1].depl = engines[1].depl + 0  BY OneEngine DEF LedgerInv
  <1>3. PICK before \in Int : before = InHand(w)
    <2>1. stake[w] \in Int  BY DEF LedgerInv, ThreadOK
    <2>2. InHand(w) \in Int  BY <2>1 DEF InHand
    <2> QED  BY <2>2
  <1>4. before = InHand(w)' /\ UNCHANGED kind  BY <1>3 DEF InHand, InHandSteps
  <1>5. SumOfList(demo') = SumOfList(demo) + 0 - (before - before)
    <2>1. demo \in Seq(Int)  BY DEF LedgerInv, ListsOK
    <2>2. SumOfList(demo) \in Int  BY <2>1, ListSummable, SumType DEF SumOfList
    <2> QED  BY <2>2
  <1>6. PICK n \in Int : n = 0  OBVIOUS
  <1> QED  BY <1>1, <1>2, <1>3, <1>4, <1>5, <1>6, FlowStep

\* The steps of a request that leave its hand alone.
LEMMA QuietFlow ==
  ASSUME LedgerInv, LedgerInv', OnlyFlows, Deployed, IsFiniteSet(Workers), ~mixed',
         NEW w \in Workers,
         \/ Begin(w) \/ Snapshot(w) \/ Evaluate(w) \/ RiskCheck(w) \/ RiskChecked(w)
         \/ Finish(w) \/ CallAllocate(w) \/ OpenRejected(w) \/ Callback(w)
         \/ NothingToClose(w) \/ CallRelease(w)
  PROVE  OnlyFlows' /\ Deployed'
  <1> SUFFICES /\ UNCHANGED <<engines, demo, kind, stake>>
               /\ OthersWait(w) /\ step'[w] \in FlowSteps
               /\ step[w] \in InHandSteps <=> step'[w] \in InHandSteps
    BY IdleFlow
  <1>1. kind \in [Workers -> {"flow", "tick", "reset", "config"}] /\ kind[w] = "flow"
    BY DEF OnlyFlows, LedgerInv, ThreadOK
  <1>2. step \in [Workers -> Steps] /\ step[w] \in FlowSteps  BY DEF LedgerInv, StepOK, OnlyFlows
  <1> USE DEF InHandSteps, FlowSteps, OthersWait
  <1>3. CASE Begin(w)
    <2>1. PICK k \in {"flow", "tick"} : /\ kind' = [kind EXCEPT ![w] = k]
                                        /\ mixed' = (mixed \/ k = "tick")
      BY <1>3 DEF Begin
    <2>2. k = "flow"  BY <2>1
    <2>3. kind' = kind  BY <1>1, <2>1, <2>2
    <2> QED  BY <1>2, <1>3, <2>3 DEF Begin, At, lists
  <1>4. CASE Snapshot(w)  BY <1>2, <1>4 DEF Snapshot, At, lists
  <1>5. CASE Evaluate(w)  BY <1>2, <1>5 DEF Evaluate, At, lists
  <1>6. CASE RiskCheck(w)  BY <1>2, <1>6 DEF RiskCheck, lists
  <1>7. CASE RiskChecked(w)  BY <1>2, <1>7 DEF RiskChecked, At, lists, thread
  <1>8. CASE Finish(w)  BY <1>2, <1>8 DEF Finish, At, lists, thread
  <1>9. CASE CallAllocate(w)  BY <1>2, <1>9 DEF CallAllocate, CallOn, At, lists
  <1>10. CASE OpenRejected(w)  BY <1>2, <1>10 DEF OpenRejected, At, lists
  <1>11. CASE Callback(w)  BY <1>2, <1>11 DEF Callback, At
  <1>12. CASE NothingToClose(w)  BY <1>2, <1>12 DEF NothingToClose, lists
  <1>13. CASE CallRelease(w)  BY <1>2, <1>13 DEF CallRelease, CallOn, At, lists
  <1> QED
    BY <1>3, <1>4, <1>5, <1>6, <1>7, <1>8, <1>9, <1>10, <1>11, <1>12, <1>13

\* The steps that move the capital of a position.
LEMMA MoneyFlow ==
  ASSUME LedgerInv, LedgerInv', OnlyFlows, Deployed, IsFiniteSet(Workers), NEW w \in Workers,
         \/ OpenPosition(w) \/ TrackPosition(w) \/ TakePosition(w) \/ ReleasePosition(w)
         \/ TakeProfit(w)
  PROVE  OnlyFlows' /\ Deployed'
  <1>1. /\ kind[w] = "flow" /\ Len(engines) = 1
        /\ EnginesOK /\ ThreadOK /\ ListsOK /\ StepOK
    BY DEF OnlyFlows, LedgerInv
  <1>2. step \in [Workers -> Steps] /\ stake \in [Workers -> Int]
    BY <1>1 DEF StepOK, ThreadOK
  <1>3. PICK d \in Int, r \in CapitalState : d = engines[1].depl /\ r = engines[1]
    BY <1>1, OneEngine
  <1>4. PICK amount \in Int : amount = stake[w]  BY <1>2
  <1>5. PICK total \in Int : total = SumOfList(demo)
    <2>1. demo \in Seq(Int)  BY <1>1 DEF ListsOK
    <2> QED  BY <2>1, ListSummable, SumType DEF SumOfList
  <1>6. engines \in [1 .. 1 -> CapitalState]
    BY <1>1, LenProperties DEF EnginesOK
  <1>7. CASE OpenPosition(w)
    <2>1. acts[w] # <<>> /\ Head(acts[w]) \in Action
      BY <1>7, Lists DEF OpenPosition, At, LedgerInv, Busy, BusySteps, ThreadOK
    <2>2. PICK n \in Int :
            /\ engines' = [engines EXCEPT ![ref[w]] = StateAllocated(engines[ref[w]], n)]
            /\ stake' = [stake EXCEPT ![w] = n]
      BY <1>1, <1>7, <2>1, RequiredTyped DEF OpenPosition
    <2>3. ref[w] = 1  BY <1>1, OneEngine
    <2>4. Len(engines') = 1 /\ engines'[1].depl = engines[1].depl + n
      <3>1. engines' = [engines EXCEPT ![1] = StateAllocated(r, n)]  BY <1>3, <2>2, <2>3
      <3>2. Len(engines') = 1  BY <1>1, <2>3, <2>2, OneEngine, ExceptSeq DEF EnginesOK, LedgerInv
      <3> QED  BY <1>3, <1>6, <3>1, <3>2 DEF StateAllocated, Account
    <2>5. InHand(w) = 0 /\ InHand(w)' = n /\ step'[w] \in FlowSteps /\ OthersWait(w)
      BY <1>2, <1>7, <2>2 DEF OpenPosition, At, InHand, FlowSteps, OthersWait
    <2>6. UNCHANGED <<kind, demo>>  BY <1>7 DEF OpenPosition, lists
    <2>7. SumOfList(demo') = SumOfList(demo) + n - (n - 0)  BY <1>5, <2>6
    <2> QED  BY <2>2, <2>4, <2>5, <2>6, <2>7, FlowStep
  <1>8. CASE TrackPosition(w)
    <2>1. demo' = Append(demo, amount)  BY <1>1, <1>4, <1>8 DEF TrackPosition
    <2>2. SumOfList(demo') = SumOfList(demo) + 0 - (0 - amount)
      <3>1. demo \in Seq(Int)  BY <1>1 DEF ListsOK
      <3>2. SumOfList(demo') = SumOfList(demo) + amount  BY <2>1, <3>1, SumOfAppend
      <3> QED  BY <1>5, <3>2
    <2>3. UNCHANGED <<kind, engines, stake>>  BY <1>8 DEF TrackPosition, thread
    <2>4. /\ InHand(w) = amount /\ InHand(w)' = 0
          /\ step'[w] \in FlowSteps /\ OthersWait(w)
      BY <1>2, <1>4, <1>8, <2>3 DEF TrackPosition, At, InHand, FlowSteps, OthersWait
    <2>5. Len(engines') = 1 /\ engines'[1].depl = engines[1].depl + 0
      BY <1>1, <1>3, <2>3
    <2> QED  BY <2>2, <2>3, <2>4, <2>5, FlowStep
  <1>9. CASE TakePosition(w)
    <2>1. /\ demo # <<>> /\ demo' = Tail(demo)
          /\ stake' = [stake EXCEPT ![w] = Head(demo)]
      BY <1>1, <1>9 DEF TakePosition
    <2>2. demo \in Seq(Int)  BY <1>1 DEF ListsOK
    <2>3. PICK n \in Int : n = Head(demo)  BY <2>1, <2>2, Lists
    <2>4. SumOfList(demo) = n + SumOfList(demo')  BY <2>1, <2>2, <2>3, SumOfTail
    <2>5. SumOfList(demo') \in Int
      <3>1. demo' \in Seq(Int)  BY <2>1, <2>2, Lists
      <3> QED  BY <3>1, ListSummable, SumType DEF SumOfList
    <2>6. SumOfList(demo') = SumOfList(demo) + 0 - (n - 0)  BY <1>5, <2>3, <2>4, <2>5
    <2>7. UNCHANGED <<kind, engines>>  BY <1>9 DEF TakePosition
    <2>8. /\ InHand(w) = 0 /\ InHand(w)' = n
          /\ step'[w] \in FlowSteps /\ OthersWait(w)
      BY <1>2, <1>9, <2>1, <2>3 DEF TakePosition, At, InHand, FlowSteps, OthersWait
    <2>9. Len(engines') = 1 /\ engines'[1].depl = engines[1].depl + 0
      BY <1>1, <1>3, <2>7
    <2> QED  BY <2>3, <2>6, <2>7, <2>8, <2>9, FlowStep
  <1>10. CASE ReleasePosition(w)
    <2>1. engines' = [engines EXCEPT ![ref[w]] = Released(engines[ref[w]], amount)]
      BY <1>4, <1>10 DEF ReleasePosition
    <2>2. ref[w] = 1  BY <1>1, OneEngine
    <2>3. Len(engines') = 1 /\ engines'[1].depl = engines[1].depl + (0 - amount)
      <3>1. engines' = [engines EXCEPT ![1] = Released(r, amount)]  BY <1>3, <2>1, <2>2
      <3>2. Len(engines') = 1  BY <1>1, <2>1, <2>2, OneEngine, ExceptSeq DEF EnginesOK, LedgerInv
      <3> QED  BY <1>3, <1>6, <3>1, <3>2 DEF Released, Account, CapitalState
    <2>4. UNCHANGED <<kind, demo, stake>>  BY <1>10 DEF ReleasePosition, lists, thread
    <2>5. /\ InHand(w) = amount /\ InHand(w)' = 0
          /\ step'[w] \in FlowSteps /\ OthersWait(w)
      BY <1>2, <1>4, <1>10, <2>4 DEF ReleasePosition, At, InHand, FlowSteps, OthersWait
    <2>6. SumOfList(demo') = SumOfList(demo) + (0 - amount) - (0 - amount)  BY <1>5, <2>4
    <2>7. 0 - amount \in Int  OBVIOUS
    <2> QED  BY <2>3, <2>4, <2>5, <2>6, <2>7, FlowStep
  <1>11. CASE TakeProfit(w)
    <2>1. PICK net : engines' = [engines EXCEPT ![Current] = Profited(engines[Current], net)]
      BY <1>11 DEF TakeProfit
    <2>2. Current = 1  BY <1>1, OneEngine
    <2>3. Len(engines') = 1 /\ engines'[1].depl = engines[1].depl + 0
      <3>1. engines' = [engines EXCEPT ![1] = Profited(r, net)]  BY <1>3, <2>1, <2>2
      <3>2. Len(engines') = 1  BY <1>6, <1>1, <3>1, OneEngine, ExceptSeq DEF EnginesOK, LedgerInv
      <3> QED  BY <1>3, <1>6, <3>1, <3>2 DEF Profited, Account
    <2>4. UNCHANGED <<kind, demo, stake>>  BY <1>11 DEF TakeProfit, lists, thread
    <2>5. /\ InHand(w) = 0 /\ InHand(w)' = 0
          /\ step'[w] \in FlowSteps /\ OthersWait(w)
      BY <1>2, <1>11, <2>4 DEF TakeProfit, At, InHand, FlowSteps, OthersWait
    <2>6. SumOfList(demo') = SumOfList(demo) + 0 - (0 - 0)  BY <1>5, <2>4
    <2> QED  BY <2>3, <2>4, <2>5, <2>6, FlowStep
  <1> QED  BY <1>7, <1>8, <1>9, <1>10, <1>11

\* The other requests end the time in which only scenario steps run.
LEMMA ServerFlow ==
  ASSUME LedgerInv, OnlyFlows, NEW w \in Workers, ServerStep(w)
  PROVE  mixed'
  <1>1. step[w] \in FlowSteps /\ kind[w] = "flow"  BY DEF OnlyFlows
  <1>2. ~(ReplaceEngine(w) \/ ResetScenario(w) \/ ResetAutomated(w) \/ ResetMode(w)
          \/ StartCleared(w))
    BY <1>1 DEF FlowSteps, At, ReplaceEngine, ResetScenario, ResetAutomated, ResetMode,
                StartCleared
  <1> QED  BY <1>2 DEF ServerStep, Reset, ConfigCapital, StartAutomated, StopAutomated, Serve

LEMMA InitDeployed ==
  ASSUME LedgerInit, IsFiniteSet(Workers)
  PROVE  DInv
  <1>1. OnlyFlows  BY DEF LedgerInit, OnlyFlows, FlowSteps
  <1>2. engines[1].depl = 0  BY DEF LedgerInit, InitialState, Account
  <1>3. SumOfList(demo) = 0
    <2>1. DOMAIN demo = {}  BY DEF LedgerInit
    <2> QED  BY <2>1, SumEmpty DEF SumOfList
  <1>4. Hands = [w \in Workers |-> 0]  BY DEF LedgerInit, Hands, InHand
  <1>5. SumOver(Hands, Workers) = 0
    <2>1. PICK g : g = Hands  OBVIOUS
    <2>2. \A w \in Workers : g[w] = 0  BY <1>4, <2>1
    <2>3. Summable(g, Workers) /\ SumOver(g, Workers) \in Nat  BY <2>2, SumNat
    <2>4. SumOver(g, Workers) <= 0  BY <2>2, <2>3, SumNotPositive
    <2> QED  BY <2>1, <2>3, <2>4
  <1> QED  BY <1>1, <1>2, <1>3, <1>5 DEF DInv, Deployed

LEMMA StepDeployed ==
  ASSUME LedgerInv, LedgerInv', DInv, IsFiniteSet(Workers), [LedgerNext]_ledgerVars
  PROVE  DInv'
  <1> SUFFICES ASSUME ~mixed' PROVE OnlyFlows' /\ Deployed'  BY DEF DInv
  <1>1. ~mixed
    <2>1. mixed \in BOOLEAN  BY DEF LedgerInv, ServerOK
    <2>2. ASSUME NEW w \in Workers, ExecuteStep(w), mixed PROVE mixed'
      BY <2>2 DEF ExecuteStep, Begin, Snapshot, Evaluate, RiskCheck, RiskChecked, Finish,
        CallAllocate, CallOn, OpenPosition, OpenRejected, TrackPosition, Callback,
        TakePosition, NothingToClose, CallRelease, ReleasePosition, TakeProfit, server
    <2>3. ASSUME NEW w \in Workers, ServerStep(w), mixed PROVE mixed'
      BY <2>3 DEF ServerStep, Reset, ConfigCapital, ReplaceEngine, ResetScenario,
        ResetAutomated, ResetMode, StartAutomated, StartCleared, StopAutomated, Serve, server
    <2>4. UNCHANGED ledgerVars /\ mixed => mixed'  BY DEF ledgerVars, server
    <2> QED  BY <2>2, <2>3, <2>4 DEF LedgerNext
  <1>2. OnlyFlows /\ Deployed  BY <1>1 DEF DInv
  <1>3. ASSUME NEW w \in Workers, ExecuteStep(w) PROVE OnlyFlows' /\ Deployed'
    BY <1>2, <1>3, QuietFlow, MoneyFlow DEF ExecuteStep
  <1>4. ASSUME NEW w \in Workers, ServerStep(w) PROVE FALSE
    BY <1>2, <1>4, ServerFlow
  <1>5. CASE UNCHANGED ledgerVars
    <2>1. UNCHANGED <<engines, demo, kind, step, stake>>
      BY <1>5 DEF ledgerVars, lists, thread
    <2>2. OnlyFlows'  BY <1>2, <2>1 DEF OnlyFlows
    <2>3. Hands' = Hands  BY <2>1 DEF Hands, InHand
    <2>4. Deployed'  BY <1>2, <2>1, <2>3 DEF Deployed
    <2> QED  BY <2>2, <2>4
  <1> QED  BY <1>3, <1>4, <1>5 DEF LedgerNext

\* What the invariant sums is what the lemmas sum.
LEMMA ListIsSum ==
  ASSUME NEW s \in Seq(Int)
  PROVE  MapThenSumSet(LAMBDA i : s[i], DOMAIN s) = SumOfList(s)
  <1> DEFINE S == DOMAIN s
  <1> DEFINE Eq(g) == g = [T \in SUBSET S |->
               IF T = {} THEN 0
               ELSE LET x == CHOOSE x \in T : TRUE IN s[x] + g[T \ {x}]]
  <1>1. \A g : Eq(g) <=> Adds(g, s, S)  BY DEF Adds, Pick
  <1>2. Summable(s, S)  BY ListSummable
  <1>3. \E g : Eq(g)
    <2> HIDE DEF Eq
    <2> QED  BY <1>1, <1>2, SumExists
  <1>4. Adds(CHOOSE g : Eq(g), s, S)  BY <1>1, <1>3
  <1>5. MapThenSumSet(LAMBDA i : s[i], S) = (CHOOSE g : Eq(g))[S]
    BY DEF MapThenSumSet, MapThenFoldSet
  <1> HIDE DEF Eq
  <1> QED  BY <1>2, <1>4, <1>5, SumIs DEF SumOfList

LEMMA HandsAreSum ==
  ASSUME ThreadOK, IsFiniteSet(Workers)
  PROVE  MapThenSumSet(InHand, Workers) = SumOver(Hands, Workers)
  <1> DEFINE Eq(g) == g = [T \in SUBSET Workers |->
               IF T = {} THEN 0
               ELSE LET x == CHOOSE x \in T : TRUE IN InHand(x) + g[T \ {x}]]
  <1>1. \A g : Eq(g) <=> Adds(g, Hands, Workers)
    <2>1. \A T \in SUBSET Workers : T # {} => Pick(T) \in Workers  BY DEF Pick
    <2>2. \A T \in SUBSET Workers : T # {} => Hands[Pick(T)] = InHand(CHOOSE x \in T : TRUE)
      BY <2>1 DEF Pick, Hands
    <2> QED  BY <2>2 DEF Adds, Pick
  <1>2. Summable(Hands, Workers)  BY HandsTyped
  <1>3. \E g : Eq(g)
    <2> HIDE DEF Eq
    <2> QED  BY <1>1, <1>2, SumExists
  <1>4. Adds(CHOOSE g : Eq(g), Hands, Workers)  BY <1>1, <1>3
  <1>5. MapThenSumSet(InHand, Workers) = (CHOOSE g : Eq(g))[Workers]
    BY DEF MapThenSumSet, MapThenFoldSet
  <1> HIDE DEF Eq
  <1> QED  BY <1>2, <1>4, <1>5, SumIs

\* Deployed capital is what demo_positions hold and what the threads have in
\* hand, in every interleaving of any number of scenario steps.
THEOREM PositionsDeployed == ASSUME IsFiniteSet(Workers) PROVE LedgerSpec => []DeployedIsPositions
  <1>1. LedgerInit => LedgerInv /\ DInv  BY InitInv, InitDeployed
  <1>2. LedgerInv /\ DInv /\ [LedgerNext]_ledgerVars => (LedgerInv /\ DInv)'
    BY StepInv, StepDeployed
  <1>3. LedgerInv /\ DInv => DeployedIsPositions
    <2> SUFFICES ASSUME LedgerInv, DInv, ~mixed
                 PROVE  engines[Current].depl
                          = MapThenSumSet(LAMBDA i : demo[i], DOMAIN demo)
                              + MapThenSumSet(InHand, Workers)
      BY DEF DeployedIsPositions
    <2>1. OnlyFlows /\ Deployed  BY DEF DInv
    <2>2. Current = 1  BY <2>1, OneEngine DEF LedgerInv
    <2>3. MapThenSumSet(LAMBDA i : demo[i], DOMAIN demo) = SumOfList(demo)
      BY ListIsSum DEF LedgerInv, ListsOK
    <2>4. MapThenSumSet(InHand, Workers) = SumOver(Hands, Workers)
      BY HandsAreSum DEF LedgerInv
    <2> QED  BY <2>1, <2>2, <2>3, <2>4 DEF Deployed
  <1> QED  BY <1>1, <1>2, <1>3, PTL DEF LedgerSpec

-----------------------------------------------------------------------------
(* No overdraft, where ticks close without a loss: then no amount is ever   *)
(* negative.  A loss can be larger than what is available, and a thread     *)
(* that finds a negative capital opens a position of a negative size.       *)

Lossless == "tick" \in Kinds => MaxLoss = 0

Solvent == \A e \in DOMAIN engines : engines[e].avail >= 0
Carried ==
    \A w \in Workers :
        snap[w] >= 0 /\ stake[w] >= 0 /\ (kind[w] = "tick" => "tick" \in Kinds)
Tracked == demo \in Seq(Nat) /\ auto \in Seq(Nat)
ServingSteps == {"snapshot", "evaluate", "risk", "execute", "allocate", "track", "callback",
                 "close", "release", "profit"}
Serving == \A w \in Workers : step[w] \in ServingSteps => kind[w] \in {"flow", "tick"}
NInv == Solvent /\ Carried /\ Tracked /\ Serving

LEMMA RequiredNatural ==
  ASSUME ThreadOK, Carried, NEW w \in Workers, NEW a \in Action
  PROVE  RequiredCapital(w, a) \in Nat
  <1>1. snap[w] \in Nat /\ a.size \in Nat  BY DEF ThreadOK, Carried, Action
  <1>2. snap[w] * a.size \in Nat  BY <1>1
  <1>3. Den \in Nat \ {0}  BY LedgerAssumption
  <1>4. \A x \in Nat, d \in Nat \ {0} : x \div d \in Nat  OBVIOUS
  <1> QED  BY <1>2, <1>3, <1>4 DEF RequiredCapital

LEMMA EngineSolvent ==
  ASSUME EnginesOK, Solvent, NEW e \in DOMAIN engines, NEW c \in CapitalState, c.avail >= 0,
         engines' = [engines EXCEPT ![e] = c]
  PROVE  Solvent'
  <1>1. engines \in [1 .. Len(engines) -> CapitalState]  BY LenProperties DEF EnginesOK
  <1>2. DOMAIN engines' = DOMAIN engines /\ engines'[e] = c
        /\ \A d \in DOMAIN engines \ {e} : engines'[d] = engines[d]
    BY <1>1
  <1> QED  BY <1>2 DEF Solvent

\* allocate looks at what is available, and positions close with a profit.
LEMMA SolventStep ==
  ASSUME Lossless, LedgerInv, NInv, LedgerNext
  PROVE  Solvent'
  <1> USE DEF LedgerInv, NInv
  <1>1. \A e \in DOMAIN engines : engines[e] \in CapitalState
    BY ElementOfSeq, LenProperties DEF EnginesOK
  <1>2. PICK w \in Workers : ExecuteStep(w) \/ ServerStep(w)  BY DEF LedgerNext
  <1>3. ref[w] \in DOMAIN engines /\ Current \in DOMAIN engines
    BY CurrentExists DEF EnginesOK
  <1>4. CASE OpenPosition(w)
    <2>1. acts[w] # <<>> /\ Head(acts[w]) \in Action
      BY <1>4, Lists DEF OpenPosition, At, Busy, BusySteps, ThreadOK
    <2>2. PICK n \in Nat : n = RequiredCapital(w, Head(acts[w]))
      BY <2>1, RequiredNatural
    <2>3. PICK r \in CapitalState : r = engines[ref[w]]  BY <1>1, <1>3
    <2>4. engines' = [engines EXCEPT ![ref[w]] = StateAllocated(r, n)] /\ n <= r.avail
      BY <1>4, <2>2, <2>3 DEF OpenPosition
    <2>5. StateAllocated(r, n) \in CapitalState /\ StateAllocated(r, n).avail >= 0
      BY <2>4 DEF StateAllocated, Account, CapitalState
    <2> QED  BY <1>3, <2>4, <2>5, EngineSolvent
  <1>5. CASE ReleasePosition(w)
    <2>1. PICK n \in Nat : n = stake[w]  BY DEF ThreadOK, Carried
    <2>2. PICK r \in CapitalState : r = engines[ref[w]]  BY <1>1, <1>3
    <2>3. engines' = [engines EXCEPT ![ref[w]] = Released(r, n)] /\ r.avail >= 0
      BY <1>3, <1>5, <2>1, <2>2 DEF ReleasePosition, Solvent
    <2>4. Released(r, n) \in CapitalState /\ Released(r, n).avail >= 0
      BY <2>3 DEF Released, Account, CapitalState
    <2> QED  BY <1>3, <2>3, <2>4, EngineSolvent
  <1>6. CASE TakeProfit(w)
    <2>1. PICK net \in -MaxLoss .. MaxGain :
            /\ kind[w] = "flow" => net >= 0
            /\ engines' = [engines EXCEPT ![Current] = Profited(engines[Current], net)]
      BY <1>6 DEF TakeProfit
    <2>2. step[w] = "profit"  BY <1>6 DEF TakeProfit, At
    <2>3. kind[w] \in {"flow", "tick"}  BY <2>2 DEF Serving, ServingSteps
    <2>4. net \in Nat  BY <2>1, <2>3, LedgerAssumption DEF Carried, Lossless
    <2>5. PICK r \in CapitalState : r = engines[Current]  BY <1>1, <1>3
    <2>6. engines' = [engines EXCEPT ![Current] = Profited(r, net)] /\ r.avail >= 0
      BY <1>3, <2>1, <2>5 DEF Solvent
    <2>7. Profited(r, net) \in CapitalState /\ Profited(r, net).avail >= 0
      BY <2>4, <2>6 DEF Profited, Account, CapitalState
    <2> QED  BY <1>3, <2>6, <2>7, EngineSolvent
  <1>7. CASE ReplaceEngine(w)
    <2>1. PICK n \in Nat : n = snap[w]  BY DEF ThreadOK, Carried
    <2>2. PICK new : new = InitialState(n)  OBVIOUS
    <2>3. new \in CapitalState /\ new.avail >= 0
      BY <2>2 DEF InitialState, Account, CapitalState
    <2>4. engines' = Append(engines, new)  BY <1>7, <2>1, <2>2 DEF ReplaceEngine
    <2>5. /\ engines' \in Seq(CapitalState) /\ Len(engines') = Len(engines) + 1
          /\ \A e \in 1 .. Len(engines) : engines'[e] = engines[e]
          /\ engines'[Len(engines) + 1] = new
      BY <2>3, <2>4, AppendProperties DEF EnginesOK
    <2>6. DOMAIN engines = 1 .. Len(engines) /\ Len(engines) \in Nat
      BY LenProperties DEF EnginesOK
    <2>7. DOMAIN engines' = 1 .. Len(engines) + 1  BY <2>5, <2>6, LenProperties
    <2> QED  BY <2>3, <2>5, <2>6, <2>7 DEF Solvent
  <1>8. CASE /\ ~OpenPosition(w) /\ ~ReleasePosition(w) /\ ~TakeProfit(w)
             /\ ~ReplaceEngine(w)
    <2>1. engines' = engines
      BY <1>2, <1>8 DEF ExecuteStep, Begin, Snapshot, Evaluate, RiskCheck, RiskChecked, Finish,
        CallAllocate, CallOn, OpenRejected, TrackPosition, Callback, TakePosition,
        NothingToClose, CallRelease, ServerStep, Reset, ConfigCapital, ResetScenario,
        ResetAutomated, ResetMode, StartAutomated, StartCleared, StopAutomated, Serve
    <2> QED  BY <2>1 DEF Solvent
  <1> QED  BY <1>4, <1>5, <1>6, <1>7, <1>8

\* What threads carry is read from a solvent engine, a list, or the configuration.
LEMMA CarriedStep ==
  ASSUME LedgerInv, NInv, LedgerNext
  PROVE  Carried'
  <1> USE DEF LedgerInv, NInv
  <1>1. PICK w \in Workers : ExecuteStep(w) \/ ServerStep(w)  BY DEF LedgerNext
  <1> DEFINE Read(v) == snap'[v] >= 0 /\ stake'[v] >= 0 /\ (kind'[v] = "tick" => "tick" \in Kinds)
  <1>2. Carried /\ ThreadOK  OBVIOUS
  <1>3. CASE Begin(w)
    <2>1. PICK k \in Kinds \cap {"flow", "tick"} : kind' = [kind EXCEPT ![w] = k]
      BY <1>3 DEF Begin
    <2> QED  BY <1>2, <1>3, <2>1 DEF Begin, Carried, ThreadOK
  <1>4. CASE Snapshot(w)
    <2>1. engines[Current].avail >= 0  BY CurrentExists DEF Solvent
    <2> QED  BY <1>2, <1>4, <2>1 DEF Snapshot, Carried, ThreadOK
  <1>5. CASE OpenPosition(w)
    <2>1. acts[w] # <<>> /\ Head(acts[w]) \in Action
      BY <1>5, Lists DEF OpenPosition, At, Busy, BusySteps, ThreadOK
    <2>2. PICK n \in Nat : n = RequiredCapital(w, Head(acts[w]))
      BY <2>1, RequiredNatural
    <2>3. stake' = [stake EXCEPT ![w] = n]  BY <1>5, <2>2 DEF OpenPosition
    <2> QED  BY <1>2, <1>5, <2>3 DEF OpenPosition, Carried, ThreadOK
  <1>6. CASE TakePosition(w)
    <2>1. PICK positions \in Seq(Nat) :
            positions # <<>> /\ stake' = [stake EXCEPT ![w] = Head(positions)]
      BY <1>6 DEF TakePosition, Tracked
    <2>2. Head(positions) \in Nat  BY <2>1, Lists
    <2> QED  BY <1>2, <1>6, <2>1, <2>2 DEF TakePosition, Carried, ThreadOK
  <1>7. CASE Reset(w) \/ ConfigCapital(w) \/ StartAutomated(w) \/ StopAutomated(w)
    <2>1. PICK k \in Kinds : kind' = [kind EXCEPT ![w] = k] /\ stake' = stake
      BY <1>7 DEF Reset, ConfigCapital, StartAutomated, StopAutomated, Serve
    <2>2. snap' = snap \/ \E n \in Nat : snap' = [snap EXCEPT ![w] = n]
      BY <1>7, LedgerAssumption
         DEF Reset, ConfigCapital, StartAutomated, StopAutomated, ServerOK
    <2> QED  BY <1>2, <2>1, <2>2 DEF Carried, ThreadOK
  <1>8. CASE /\ ~Begin(w) /\ ~Snapshot(w) /\ ~OpenPosition(w) /\ ~TakePosition(w)
             /\ ~(Reset(w) \/ ConfigCapital(w) \/ StartAutomated(w) \/ StopAutomated(w))
    <2>1. UNCHANGED <<kind, snap, stake>>
      BY <1>1, <1>8 DEF ExecuteStep, Evaluate, RiskCheck, RiskChecked, Finish,
        CallAllocate, CallOn, OpenRejected, TrackPosition, Callback,
        NothingToClose, CallRelease, ReleasePosition, TakeProfit, ServerStep, ReplaceEngine,
        ResetScenario, ResetAutomated, ResetMode, StartCleared, thread
    <2> QED  BY <1>2, <2>1 DEF Carried
  <1> QED  BY <1>3, <1>4, <1>5, <1>6, <1>7, <1>8

\* Lists get the stakes of threads and the sizes of actions.
LEMMA TrackedStep ==
  ASSUME LedgerInv, NInv, LedgerNext
  PROVE  Tracked'
  <1> USE DEF LedgerInv, NInv
  <1>1. PICK w \in Workers : ExecuteStep(w) \/ ServerStep(w)  BY DEF LedgerNext
  <1>2. /\ <<>> \in Seq(Nat)
        /\ \A s \in Seq(Nat), x \in Nat : Append(s, x) \in Seq(Nat)
        /\ \A s \in Seq(Nat) : s # <<>> => Tail(s) \in Seq(Nat)
    BY Lists
  <1>3. demo \in Seq(Nat) /\ auto \in Seq(Nat)  BY DEF Tracked
  <1>4. CASE TrackPosition(w)
    <2>1. stake[w] \in Nat  BY DEF ThreadOK, Carried
    <2>2. demo' \in {demo, Append(demo, stake[w])} /\ auto' \in {auto, Append(auto, stake[w])}
      BY <1>4 DEF TrackPosition
    <2> QED  BY <1>2, <1>3, <2>1, <2>2, Zenon DEF Tracked
  <1>5. CASE Callback(w)
    <2>1. acts[w] # <<>> /\ Head(acts[w]) \in Action
      BY <1>5, Lists DEF Callback, At, Busy, BusySteps, ThreadOK
    <2>2. PICK n \in Nat : n = Head(acts[w]).size  BY <2>1 DEF Action
    <2>3. demo' = demo
      BY <1>5 DEF Callback
    <2>4. auto' \in {auto, Append(auto, n)} \/ (auto # <<>> /\ auto' = Tail(auto))
      BY <1>5, <2>2 DEF Callback
    <2> QED  BY <1>2, <1>3, <2>3, <2>4, Zenon DEF Tracked
  <1>6. CASE TakePosition(w)
    <2>1. auto' = auto  BY <1>6 DEF TakePosition
    <2>2. CASE kind[w] = "flow"
      <3>1. demo # <<>> /\ demo' = Tail(demo)  BY <1>6, <2>2 DEF TakePosition
      <3> QED  BY <1>2, <1>3, <2>1, <3>1, Zenon DEF Tracked
    <2>3. CASE kind[w] # "flow"
      <3>1. demo' = demo  BY <1>6, <2>3 DEF TakePosition
      <3> QED  BY <1>3, <2>1, <3>1 DEF Tracked
    <2> QED  BY <2>2, <2>3
  <1>7. CASE ServerStep(w)
    <2>1. demo' \in {demo, <<>>} /\ auto' \in {auto, <<>>}
      BY <1>7 DEF ServerStep, Reset, ConfigCapital, ReplaceEngine, ResetScenario,
        ResetAutomated, ResetMode, StartAutomated, StartCleared, StopAutomated, Serve, lists
    <2> QED  BY <1>2, <1>3, <2>1, Zenon DEF Tracked
  <1>8. CASE /\ ExecuteStep(w) /\ ~TrackPosition(w) /\ ~Callback(w) /\ ~TakePosition(w)
    <2>1. UNCHANGED <<demo, auto>>
      BY <1>8 DEF ExecuteStep, Begin, Snapshot, Evaluate, RiskCheck, RiskChecked, Finish,
        CallAllocate, CallOn, OpenPosition, OpenRejected, NothingToClose, CallRelease,
        ReleasePosition, TakeProfit, lists
    <2> QED  BY <1>3, <2>1 DEF Tracked
  <1> QED  BY <1>1, <1>4, <1>5, <1>6, <1>7, <1>8

LEMMA ServingStep ==
  ASSUME LedgerInv, NInv, LedgerNext
  PROVE  Serving'
  <1> USE DEF LedgerInv, NInv
  <1>1. PICK w \in Workers : ExecuteStep(w) \/ ServerStep(w)  BY DEF LedgerNext
  <1>2. step \in [Workers -> Steps] /\ kind \in [Workers -> {"flow", "tick", "reset", "config"}]
    BY DEF StepOK, ThreadOK
  <1>3. CASE Begin(w)
    <2>1. PICK k \in {"flow", "tick"} : kind' = [kind EXCEPT ![w] = k]
      BY <1>3 DEF Begin
    <2> QED  BY <1>2, <1>3, <2>1 DEF Begin, At, Serving
  <1>4. CASE ExecuteStep(w) /\ ~Begin(w)
    <2>1. kind' = kind
      BY <1>4 DEF ExecuteStep, Snapshot, Evaluate, RiskCheck, RiskChecked, Finish,
        CallAllocate, CallOn, OpenPosition, OpenRejected, TrackPosition, Callback,
        TakePosition, NothingToClose, CallRelease, ReleasePosition, TakeProfit, thread
    <2>2. step[w] \in ServingSteps /\ \A v \in Workers \ {w} : step'[v] = step[v]
      BY <1>2, <1>4 DEF ExecuteStep, Snapshot, Evaluate, RiskCheck, RiskChecked, Finish,
        CallAllocate, CallOn, OpenPosition, OpenRejected, TrackPosition, Callback, At,
        TakePosition, NothingToClose, CallRelease, ReleasePosition, TakeProfit, ServingSteps
    <2> QED  BY <2>1, <2>2 DEF Serving
  <1>5. CASE ServerStep(w)
    <2>1. /\ step'[w] \notin ServingSteps
          /\ \A v \in Workers \ {w} : step'[v] = step[v] /\ kind'[v] = kind[v]
      BY <1>2, <1>5 DEF ServerStep, Reset, ConfigCapital, ReplaceEngine, ResetScenario, At,
        ResetAutomated, ResetMode, StartAutomated, StartCleared, StopAutomated, Serve,
        ServingSteps, thread
    <2> QED  BY <2>1 DEF Serving
  <1> QED  BY <1>1, <1>3, <1>4, <1>5

\* The server adds engines; threads and requests change them in place.
LEMMA EnginesRemain ==
  ASSUME EnginesOK, [LedgerNext]_ledgerVars
  PROVE  DOMAIN engines \subseteq DOMAIN engines'
  <1>1. CASE UNCHANGED ledgerVars  BY <1>1 DEF ledgerVars
  <1>2. CASE LedgerNext
    <2>1. PICK w \in Workers : ExecuteStep(w) \/ ServerStep(w)  BY <1>2 DEF LedgerNext
    <2>2. CASE OpenPosition(w) \/ ReleasePosition(w) \/ TakeProfit(w)
      <3>1. \E e, c : engines' = [engines EXCEPT ![e] = c]
        BY <2>2 DEF OpenPosition, ReleasePosition, TakeProfit
      <3> QED  BY <3>1
    <2>3. CASE ReplaceEngine(w)
      <3>1. PICK new : engines' = Append(engines, new)  BY <2>3 DEF ReplaceEngine
      <3>2. DOMAIN engines' = 1 .. Len(engines) + 1 /\ DOMAIN engines = 1 .. Len(engines)
        BY <3>1, LenProperties DEF EnginesOK
      <3> QED  BY <3>2, LenProperties DEF EnginesOK
    <2>4. CASE /\ ~OpenPosition(w) /\ ~ReleasePosition(w) /\ ~TakeProfit(w)
               /\ ~ReplaceEngine(w)
      <3>1. engines' = engines
        BY <2>1, <2>4 DEF ExecuteStep, Begin, Snapshot, Evaluate, RiskCheck, RiskChecked, Finish,
          CallAllocate, CallOn, OpenRejected, TrackPosition, Callback, TakePosition,
          NothingToClose, CallRelease, ServerStep, Reset, ConfigCapital, ResetScenario,
          ResetAutomated, ResetMode, StartAutomated, StartCleared, StopAutomated, Serve
      <3> QED  BY <3>1
    <2> QED  BY <2>2, <2>3, <2>4
  <1> QED  BY <1>1, <1>2

\* allocate never takes more than is available, in any engine state and any
\* interleaving of any number of threads, where closing a position of the
\* automated exploit makes no loss; the check of the risk step may be as old as
\* it likes.
THEOREM NeverOverdrawn == ASSUME Lossless PROVE LedgerSpec => NoOverdraw
  <1>1. LedgerInit => NInv
    <2>1. <<>> \in Seq(Nat)  BY Lists
    <2> QED
      BY <2>1, LedgerAssumption
      DEF LedgerInit, NInv, Solvent, Carried, Tracked, Serving, ServingSteps, InitialState, Account
  <1>2. LedgerInv /\ NInv /\ [LedgerNext]_ledgerVars => NInv'
    <2> SUFFICES ASSUME LedgerInv, NInv, [LedgerNext]_ledgerVars PROVE NInv'  OBVIOUS
    <2>1. CASE LedgerNext
      BY <2>1, SolventStep, CarriedStep, TrackedStep, ServingStep DEF NInv
    <2>2. CASE UNCHANGED ledgerVars
      BY <2>2 DEF NInv, Solvent, Carried, Tracked, Serving, ledgerVars, lists, thread
    <2> QED  BY <2>1, <2>2
  <1>3. LedgerInv /\ NInv /\ NInv' /\ [LedgerNext]_ledgerVars
          => [\A e \in DOMAIN engines :
                engines'[e].depl > engines[e].depl => engines'[e].avail >= 0]_engines
    <2> SUFFICES ASSUME LedgerInv, NInv', [LedgerNext]_ledgerVars
                 PROVE  DOMAIN engines \subseteq DOMAIN engines'
      BY DEF NInv, Solvent
    <2> QED  BY EnginesRemain DEF LedgerInv
  <1> QED  BY InitInv, StepInv, <1>1, <1>2, <1>3, PTL DEF LedgerSpec, NoOverdraw
=============================================================================
