-------------------------- MODULE SelectionProofs --------------------------
(* Proofs about PairSelection, and through it about Protections, for every set
   of pairs, every capacity of the whitelist, every age and refresh period, and
   every setting of the protections.

   WhitelistStaysChosen: the whitelist of an iteration has only pairs the
   pairlist handlers chose, or pairs with a trade, and every pair with a trade.
   The handlers work on cached lists, so SelectInv says of each cache what its
   list was checked against, and when: Aged of the pairs the age filter has
   passed, Dated of the lists of active markets, Mixed of the shuffled lists
   that share their entries with the list they were made from.

   ProtectionsKept: no entry is made while what a handler found at a close lasts.
   ProtectInv says that each recorded close has left its locks (Stopped), that
   closes are recorded in the order they happen (ClosesOK), and that the trade
   being closed is the last one recorded (Pending); a later close changes
   neither what an earlier one was judged by nor ends a lock before its time.

   Subsequence stands for the list comprehensions of the filters; SumLemmas
   says which entries it keeps. *)
EXTENDS PairSelection, SumLemmas, SequenceTheorems

-----------------------------------------------------------------------------
(* The invariants *)

ConfigOK ==
  /\ generator \in {"static", "volume"} /\ filters \subseteq Filters
  /\ born \in [Pairs -> Int]
HistoryOK ==
  /\ asked \in 0..now /\ traded \subseteq Pairs /\ lingering \subseteq Pairs
  /\ active \in [Pairs -> Never..now]
\* A pair that passed the age filter is old enough.
Aged == \A p \in checked : Today - born[p] >= MinDays
\* The markets of a cached list were active when it was made.
Dated ==
  /\ generator = "volume" => \A p \in ToSet(volume.list) : active[p] >= volume.at
  /\ "append" \in filters => \A p \in ToSet(remote.list) : active[p] >= remote.at
\* A list cached in this candle is made of the one it is cached for.
Mixed ==
  /\ "shuffle" \notin filters => shuffled = NoLists
  /\ shuffled.candle = now =>
       \A l \in DOMAIN shuffled.lists : ToSet(shuffled.lists[l]) \subseteq ToSet(l) \union lingering
SelectInv == WhitelistChosen /\ ConfigOK /\ HistoryOK /\ Aged /\ Dated /\ Mixed

Closes ==
  [pair : Pairs, at : 0..now, outcome : Outcomes, handled : 0..now, stage : Stages]
ClosesOK ==
  /\ now \in 0..Horizon /\ handlers \subseteq Handlers
  /\ closed \in Seq(Closes) /\ Len(closed) <= MaxCloses
  /\ auto_end \in [Pairs -> Nat] /\ lock_end \in [Pairs \union {All} -> Nat]
  /\ leaving \in Pairs \union {All}
  /\ \A i, j \in DOMAIN closed : i <= j => closed[i].at <= closed[j].at
  /\ \A i \in DOMAIN closed : closed[i].at <= closed[i].handled
\* The trade that is being closed is the last one recorded.
Pending ==
  /\ handlers = {} => closed = <<>>
  /\ pc \in {"lock", "protect"} =>
       /\ leaving \in Pairs
       /\ handlers # {} => /\ closed # <<>> /\ closed[Len(closed)].pair = leaving
                           /\ closed[Len(closed)].stage = "none"
\* What the handlers found at a close is locked.
PairStops(i) == Stops(OfPair(Behind(i), closed[i].pair))
AllStops(i) == Stops(Behind(i))
Profits == [i \in DOMAIN closed |-> IF closed[i].outcome = "profit" THEN 1 ELSE -1]
LostIn(f, S) == \E a, b \in S : SumOver(f, {j \in S : a <= j /\ j <= b}) < -MaxAllowed
PairStopped(i) ==
  /\ "StoplossGuard" \in handlers /\ Cardinality(PairStops(i)) >= TradeLimit
     => \A j \in PairStops(i) : IsPairLocked(closed[i].pair, closed[j].at + StopDuration)
  /\ "CooldownPeriod" \in handlers /\ i \in Behind(i)
     => IsPairLocked(closed[i].pair, closed[i].at + Cooldown)
AllStopped(i) ==
  /\ "StoplossGuard" \in handlers /\ Cardinality(AllStops(i)) >= TradeLimit
     => \A j \in AllStops(i) : IsGlobalLock(closed[j].at + StopDuration)
  /\ "MaxDrawdown" \in handlers /\ LostIn(Profits, Behind(i))
     => \A j \in Behind(i) : IsGlobalLock(closed[j].at + StopDuration)
Stopped ==
  \A i \in DOMAIN closed : /\ closed[i].stage # "none" => PairStopped(i)
                           /\ closed[i].stage = "all" => AllStopped(i)
ProtectInv == ClosesOK /\ Pending /\ Stopped

-----------------------------------------------------------------------------
(* Lists *)

LEMMA MaxOfFinite ==
  ASSUME NEW S, IsFiniteSet(S), S # {}, \A x \in S : x \in Int
  PROVE  Max(S) \in S /\ \A x \in S : x <= Max(S)
  <1> DEFINE Top1(T, m) == m \in T /\ \A x \in T : x <= m
             Good == {T \in SUBSET S : T = {} \/ \E m : Top1(T, m)}
  <1>1. {} \in Good  OBVIOUS
  <1>2. ASSUME NEW T \in SUBSET S, T # {}, \A x \in T : T \ {x} \in Good
        PROVE  T \in Good
    <2>1. PICK x \in T : TRUE  BY <1>2
    <2>2. T \ {x} = {} \/ \E m : Top1(T \ {x}, m)  BY <1>2
    <2>3. \A y \in T : y \in Int  OBVIOUS
    <2>4. CASE T \ {x} = {}
      <3>1. Top1(T, x)  BY <2>1, <2>3, <2>4
      <3> QED  BY <3>1
    <2>5. CASE \E m : Top1(T \ {x}, m)
      <3>1. PICK m : Top1(T \ {x}, m)  BY <2>5
      <3>2. CASE m <= x
        <4>1. \A y \in T : y <= x  BY <2>1, <2>3, <3>1, <3>2
        <4> QED  BY <2>1, <4>1
      <3>3. CASE ~ m <= x
        <4>1. \A y \in T : y <= m  BY <2>1, <2>3, <3>1, <3>3
        <4> QED  BY <3>1, <4>1
      <3> QED  BY <3>2, <3>3
    <2> QED  BY <2>2, <2>4, <2>5
  <1>3. S \in Good
    <2> HIDE DEF Good
    <2> QED  BY <1>1, <1>2, SetSteps
  <1>4. PICK m : Top1(S, m)  BY <1>3
  <1> HIDE DEF Top1
  <1>5. Max(S) = m  BY <1>4, MaxIs DEF Top1
  <1> QED  BY <1>4, <1>5 DEF Top1

LEMMA PairsFinite == ASSUME NEW S \in SUBSET Pairs PROVE IsFiniteSet(S) /\ Cardinality(S) \in Nat
  BY PairsAssumption, FS_Subset, FS_CardinalityType

\* A list holds each pair once.
LEMMA ListsAre ==
  ASSUME NEW l
  PROVE  l \in Lists <=> l \in Seq(Pairs) /\ IsInjective(l)
  <1>1. ASSUME l \in Lists PROVE l \in Seq(Pairs) /\ IsInjective(l)
    <2>1. PICK S \in SUBSET Pairs : l \in SetToSeqs(S)  BY <1>1 DEF Lists
    <2>2. PICK n \in Nat : n = Cardinality(S)  BY PairsFinite
    <2>3. l \in [1..n -> S] /\ \A i, j \in 1..n : i # j => l[i] # l[j]
      BY <2>1, <2>2 DEF SetToSeqs
    <2>4. l \in Seq(Pairs)  BY <2>3
    <2>5. IsInjective(l)  BY <2>3 DEF IsInjective
    <2> QED  BY <2>4, <2>5
  <1>2. ASSUME l \in Seq(Pairs), IsInjective(l) PROVE l \in Lists
    <2>1. DOMAIN l = 1..Len(l) /\ Len(l) \in Nat /\ l \in [1..Len(l) -> Pairs]  BY <1>2
    <2> DEFINE S == {l[i] : i \in 1..Len(l)}
    <2>2. S \in SUBSET Pairs  BY <2>1
    <2>3. l \in Bijection(1..Len(l), S)
      BY <1>2, <2>1 DEF IsInjective, Bijection, Injection, Surjection
    <2>4. Cardinality(1..Len(l)) = Len(l) /\ IsFiniteSet(1..Len(l))  BY <2>1, FS_Interval
    <2>5. Cardinality(S) = Len(l)  BY <2>3, <2>4, FS_Bijection DEF ExistsBijection
    <2>6. l \in [1..Len(l) -> S] /\ \A i, j \in 1..Len(l) : i # j => l[i] # l[j]
      BY <1>2, <2>1 DEF IsInjective
    <2>7. l \in SetToSeqs(S)  BY <2>5, <2>6 DEF SetToSeqs
    <2> HIDE DEF S
    <2> QED  BY <2>2, <2>7 DEF Lists
  <1> QED  BY <1>1, <1>2

LEMMA OnlyIs ==
  ASSUME NEW l \in Lists, NEW S
  PROVE  /\ Only(l, S) \in Lists /\ ToSet(Only(l, S)) = ToSet(l) \intersect S
         /\ Without(l, S) \in Lists /\ ToSet(Without(l, S)) = ToSet(l) \ S
  <1>1. l \in Seq(Pairs) /\ IsInjective(l) /\ DOMAIN l = 1..Len(l)  BY ListsAre
  <1>2. ASSUME NEW I \in SUBSET (1..Len(l))
        PROVE  /\ Subsequence(l, I) \in Lists
               /\ ToSet(Subsequence(l, I)) = {l[i] : i \in I}
    <2>1. \A i, j \in I : l[i] = l[j] => i = j  BY <1>1 DEF IsInjective
    <2>2. Subsequence(l, I) \in Seq(Pairs) /\ ToSet(Subsequence(l, I)) = {l[i] : i \in I}
      BY <1>1, SubsequenceSet
    <2>3. IsInjective(Subsequence(l, I))  BY <1>1, <2>1, SubsequenceDistinct
    <2> QED  BY <2>2, <2>3, ListsAre
  <1> DEFINE In == {i \in DOMAIN l : l[i] \in S}
             Out == {i \in DOMAIN l : l[i] \notin S}
  <1>3. In \in SUBSET (1..Len(l)) /\ Out \in SUBSET (1..Len(l))  BY <1>1
  <1>4. {l[i] : i \in In} = ToSet(l) \intersect S  BY DEF ToSet
  <1>5. {l[i] : i \in Out} = ToSet(l) \ S  BY DEF ToSet
  <1> QED  BY <1>2, <1>3, <1>4, <1>5 DEF Only, Without

LEMMA TopIs ==
  ASSUME NEW l \in Lists
  PROVE  Top(l) \in Lists /\ ToSet(Top(l)) \subseteq ToSet(l)
  <1>1. l \in Seq(Pairs) /\ IsInjective(l) /\ DOMAIN l = 1..Len(l) /\ Len(l) \in Nat
    BY ListsAre
  <1>2. PICK n \in Nat : n = Min({Len(l), Number}) /\ n <= Len(l)
    <2>1. Number \in Nat  BY SelectionAssumption
    <2> DEFINE T == {Len(l), Number}
    <2>2. \E n \in T : \A x \in T : n <= x  BY <1>1, <2>1
    <2>3. PICK n \in T : \A x \in T : n <= x  BY <2>2
    <2>4. \A x \in T : x \in Int  BY <1>1, <2>1
    <2>5. n \in Nat /\ n <= Len(l)  BY <1>1, <2>1, <2>3
    <2> HIDE DEF T
    <2>6. Min(T) = n  BY <2>3, <2>4, MinIs
    <2> QED  BY <2>5, <2>6 DEF T
  <1>3. PICK t : t = SubSeq(l, 1, n)  OBVIOUS
  <1>4. t \in Seq(Pairs) /\ Len(t) = n /\ \A i \in 1..n : t[i] = l[i]
    <2>1. \A i \in 1..n : i \in 1..Len(l) /\ l[i] \in Pairs  BY <1>1, <1>2
    <2>2. t = [i \in 1..n |-> l[i]]  BY <1>1, <1>2, <1>3, <2>1
    <2>3. t \in Seq(Pairs)  BY <2>1, <2>2
    <2>4. Len(t) = n  BY <1>2, <2>2
    <2> QED  BY <2>2, <2>3, <2>4
  <1>8. DOMAIN t = 1..n  BY <1>4
  <1>9. \A i \in 1..n : i \in 1..Len(l)  BY <1>1, <1>2
  <1>5. IsInjective(t)  BY <1>1, <1>4, <1>8, <1>9 DEF IsInjective
  <1>6. ToSet(t) \subseteq ToSet(l)  BY <1>1, <1>4, <1>8, <1>9 DEF ToSet
  <1>7. Top(l) = t  BY <1>2, <1>3 DEF Top
  <1> QED  BY <1>4, <1>5, <1>6, <1>7, ListsAre

LEMMA SetToSeqIs ==
  ASSUME NEW S \in SUBSET Pairs
  PROVE  SetToSeq(S) \in Lists /\ ToSet(SetToSeq(S)) = S
  <1>1. PICK n \in Nat : n = Cardinality(S) /\ ExistsBijection(1..n, S)
    BY PairsFinite, FS_CardinalityType
  <1>2. PICK f : f \in Bijection(1..n, S)  BY <1>1 DEF ExistsBijection
  <1>3. f \in [1..n -> S] /\ IsInjective(f)
    BY <1>2 DEF Bijection, Injection, IsInjective
  <1>4. PICK g : g = SetToSeq(S)  OBVIOUS
  <1>5. g \in [1..n -> S] /\ IsInjective(g)  BY <1>1, <1>3, <1>4 DEF SetToSeq
  <1>6. g \in SetToSeqs(S)  BY <1>1, <1>5 DEF SetToSeqs, IsInjective
  <1>7. g \in Lists  BY <1>6 DEF Lists
  <1>8. g \in Injection(1..n, S)  BY <1>5 DEF Injection, IsInjective
  <1>9. Cardinality(1..n) = n /\ IsFiniteSet(S)  BY PairsFinite, FS_Interval
  <1>10. g \in Surjection(1..n, S)  BY <1>1, <1>8, <1>9, FS_Injection
  <1>11. ToSet(g) = S  BY <1>5, <1>10 DEF Surjection, ToSet
  <1> QED  BY <1>4, <1>7, <1>11

\* The lists of disjoint members behind each other.
LEMMA JoinedLists ==
  ASSUME NEW l \in Lists, NEW k \in Lists, ToSet(l) \intersect ToSet(k) = {}
  PROVE  l \o k \in Lists /\ ToSet(l \o k) = ToSet(l) \union ToSet(k)
  <1>1. /\ l \in Seq(Pairs) /\ IsInjective(l) /\ DOMAIN l = 1..Len(l) /\ Len(l) \in Nat
        /\ k \in Seq(Pairs) /\ IsInjective(k) /\ DOMAIN k = 1..Len(k) /\ Len(k) \in Nat
    BY ListsAre
  <1>2. PICK j : j = l \o k  OBVIOUS
  <1>3. /\ j \in Seq(Pairs) /\ DOMAIN j = 1..(Len(l) + Len(k))
        /\ \A i \in 1..(Len(l) + Len(k)) : j[i] = IF i <= Len(l) THEN l[i] ELSE k[i - Len(l)]
    BY <1>1, <1>2
  <1>4. /\ \A i \in DOMAIN l : i \in DOMAIN j /\ j[i] = l[i]
        /\ \A i \in DOMAIN k : i + Len(l) \in DOMAIN j /\ j[i + Len(l)] = k[i]
        /\ \A i \in DOMAIN j : i \in DOMAIN l \/ (i > Len(l) /\ i - Len(l) \in DOMAIN k
                                                  /\ j[i] = k[i - Len(l)])
    BY <1>1, <1>3
  <1>5. ToSet(j) = ToSet(l) \union ToSet(k)
    <2>1. ToSet(j) \subseteq ToSet(l) \union ToSet(k)  BY <1>4 DEF ToSet
    <2>2. ToSet(l) \subseteq ToSet(j)  BY <1>4 DEF ToSet
    <2>3. ToSet(k) \subseteq ToSet(j)  BY <1>4 DEF ToSet
    <2> QED  BY <2>1, <2>2, <2>3
  <1>6. IsInjective(j)
    <2> SUFFICES ASSUME NEW a \in DOMAIN j, NEW b \in DOMAIN j, j[a] = j[b] PROVE a = b
      BY DEF IsInjective
    <2>1. \A i \in DOMAIN l : l[i] \in ToSet(l)  BY DEF ToSet
    <2>2. \A i \in DOMAIN k : k[i] \in ToSet(k)  BY DEF ToSet
    <2>3. CASE a \in DOMAIN l /\ b \in DOMAIN l
      BY <1>1, <1>4, <2>3 DEF IsInjective
    <2>4. CASE a \notin DOMAIN l /\ b \notin DOMAIN l
      <3>1. a - Len(l) = b - Len(l)  BY <1>1, <1>4, <2>4 DEF IsInjective
      <3> QED  BY <1>1, <1>3, <3>1
    <2>5. CASE a \in DOMAIN l /\ b \notin DOMAIN l  BY <1>4, <2>1, <2>2, <2>5
    <2>6. CASE a \notin DOMAIN l /\ b \in DOMAIN l  BY <1>4, <2>1, <2>2, <2>6
    <2> QED  BY <2>3, <2>4, <2>5, <2>6
  <1> QED  BY <1>2, <1>3, <1>5, <1>6, ListsAre

LEMMA ExtendedIs ==
  ASSUME NEW l \in Lists, Open \subseteq Pairs
  PROVE  Extended(l) \in Lists /\ ToSet(Extended(l)) = ToSet(l) \union Open
  <1>1. Open \ ToSet(l) \in SUBSET Pairs  OBVIOUS
  <1>2. PICK k \in Lists : k = SetToSeq(Open \ ToSet(l)) /\ ToSet(k) = Open \ ToSet(l)
    BY <1>1, SetToSeqIs
  <1>3. l \o k \in Lists /\ ToSet(l \o k) = ToSet(l) \union ToSet(k)
    BY <1>2, JoinedLists
  <1> QED  BY <1>2, <1>3 DEF Extended

-----------------------------------------------------------------------------
(* The records of closes and locks *)

LEMMA RecordsStart == Init => ClosesOK /\ Pending
  <1> SUFFICES ASSUME Init PROVE ClosesOK /\ Pending  OBVIOUS
  <1>1. closed = <<>> /\ leaving = All /\ now = 0 /\ handlers \subseteq Handlers /\ pc = "refresh"
    BY DEF Init, ProtectionsInit
  <1>2. auto_end \in [Pairs -> Nat] /\ lock_end \in [Pairs \union {All} -> Nat]
    BY DEF Init, ProtectionsInit
  <1>3. closed \in Seq(Closes) /\ Len(closed) = 0 /\ DOMAIN closed = {}  BY <1>1
  <1>4. Horizon \in Nat /\ MaxCloses \in Nat  BY LimitsAssumption
  <1> QED  BY <1>1, <1>2, <1>3, <1>4 DEF ClosesOK, Pending

LEMMA CloseIs ==
  ASSUME ClosesOK, NEW i \in DOMAIN closed
  PROVE  /\ closed[i].pair \in Pairs /\ closed[i].at \in Nat /\ closed[i].at <= now
         /\ closed[i].handled \in Nat /\ closed[i].handled <= now
         /\ closed[i].outcome \in Outcomes /\ closed[i].stage \in Stages
  <1>1. closed \in Seq(Closes) /\ now \in Nat  BY DEF ClosesOK
  <1>2. closed[i] \in Closes  BY <1>1
  <1> QED  BY <1>1, <1>2 DEF Closes

\* A lock is asked for that ends some time after each of the closes.
LEMMA LockEndIs ==
  ASSUME NEW S \in SUBSET DOMAIN closed, S # {}, ClosesOK, NEW d \in Nat
  PROVE  /\ CalculateLockEnd(S, d) \in Nat
         /\ \A i \in S : closed[i].at + d <= CalculateLockEnd(S, d)
  <1> DEFINE at == [i \in S |-> closed[i].at]
             T == {closed[i].at : i \in S}
  <1>1. DOMAIN closed = 1..Len(closed) /\ Len(closed) \in Nat  BY DEF ClosesOK
  <1>2. \A i \in S : closed[i].at \in Nat  BY CloseIs
  <1>3. IsFiniteSet(1..Len(closed))  BY <1>1, FS_Interval
  <1>4. IsFiniteSet(S)  BY <1>1, <1>3, FS_Subset
  <1>5. T = {at[i] : i \in S}  OBVIOUS
  <1>6. IsFiniteSet(T)
    <2> HIDE DEF T, at
    <2> QED  BY <1>4, <1>5, ImageFinite
  <1>7. T # {} /\ (\A x \in T : x \in Int /\ x \in Nat)  BY <1>2
  <1>8. \A i \in S : closed[i].at \in T  OBVIOUS
  <1>9. CalculateLockEnd(S, d) = Max(T) + d  BY DEF CalculateLockEnd
  <1> HIDE DEF T
  <1>10. Max(T) \in T /\ \A x \in T : x <= Max(T)  BY <1>6, <1>7, MaxOfFinite
  <1> QED  BY <1>2, <1>7, <1>8, <1>9, <1>10

\* What the handlers ask for are finitely many moments.
LEMMA StopsAre ==
  ASSUME ClosesOK, NEW S \in SUBSET DOMAIN closed
  PROVE  /\ IsFiniteSet(StopPerPair(S)) /\ StopPerPair(S) \subseteq Nat
         /\ IsFiniteSet(GlobalStop(S)) /\ GlobalStop(S) \subseteq Nat
  <1>1. Stops(S) \subseteq DOMAIN closed  BY DEF Stops
  <1>2. StopDuration \in Nat /\ Cooldown \in Nat /\ TradeLimit \in Nat \ {0}
    BY LimitsAssumption
  <1>3. \A T \in SUBSET DOMAIN closed, d \in Nat : T # {} => CalculateLockEnd(T, d) \in Nat
    BY LockEndIs
  <1>4. Cardinality({}) = 0  BY FS_EmptySet
  <1>5. Cardinality(Stops(S)) >= TradeLimit => Stops(S) # {}  BY <1>2, <1>4
  <1>6. \A x : IsFiniteSet({x})  BY FS_Singleton
  <1>7. IsFiniteSet({})  BY FS_EmptySet
  <1>8. IsFiniteSet(StoplossGuard(S)) /\ StoplossGuard(S) \subseteq Nat
    BY <1>1, <1>2, <1>3, <1>5, <1>6, <1>7 DEF StoplossGuard
  <1>9. IsFiniteSet(LowProfit(S)) /\ LowProfit(S) \subseteq Nat
    BY <1>2, <1>3, <1>6, <1>7 DEF LowProfit
  <1>10. IsFiniteSet(CooldownPeriod(S)) /\ CooldownPeriod(S) \subseteq Nat
    BY <1>2, <1>3, <1>6, <1>7 DEF CooldownPeriod
  <1>11. IsFiniteSet(MaxDrawdown(S)) /\ MaxDrawdown(S) \subseteq Nat
    BY <1>2, <1>3, <1>6, <1>7 DEF MaxDrawdown
  <1>12. IsFiniteSet(StoplossGuard(S) \union LowProfit(S))  BY <1>8, <1>9, FS_Union
  <1>13. IsFiniteSet(StopPerPair(S))  BY <1>10, <1>12, FS_Union DEF StopPerPair
  <1>14. IsFiniteSet(GlobalStop(S))  BY <1>8, <1>11, FS_Union DEF GlobalStop
  <1> QED  BY <1>8, <1>9, <1>10, <1>11, <1>13, <1>14 DEF StopPerPair, GlobalStop

\* A lock only makes the end of one entry later, past every moment asked for.
LEMMA LockPairIs ==
  ASSUME ClosesOK, NEW x \in Pairs \union {All}, NEW U \in SUBSET Nat, IsFiniteSet(U)
  PROVE  /\ LockPair(x, U) \in [Pairs \union {All} -> Nat]
         /\ \A y \in Pairs \union {All} : LockPair(x, U)[y] >= lock_end[y]
         /\ \A u \in U : LockPair(x, U)[x] > u
  <1> DEFINE next == [u \in U |-> u + 1]
             T == {lock_end[x]} \union {u + 1 : u \in U}
  <1>1. lock_end \in [Pairs \union {All} -> Nat]  BY DEF ClosesOK
  <1>2. {u + 1 : u \in U} = {next[u] : u \in U}  OBVIOUS
  <1>3. IsFiniteSet({u + 1 : u \in U})
    <2>1. PICK V : V = {u + 1 : u \in U}  OBVIOUS
    <2>2. V = {next[u] : u \in U}  BY <1>2, <2>1
    <2> HIDE DEF next
    <2>3. IsFiniteSet(V)  BY <2>2, ImageFinite
    <2> QED  BY <2>1, <2>3
  <1>4. IsFiniteSet(T)  BY <1>3, FS_Singleton, FS_Union
  <1>5. /\ T # {} /\ T \subseteq Nat /\ lock_end[x] \in T
        /\ \A u \in U : u + 1 \in T
        /\ \A y \in T : y \in Int
    BY <1>1
  <1>6. LockPair(x, U) = [lock_end EXCEPT ![x] = Max(T)]  BY DEF LockPair
  <1> HIDE DEF T
  <1>7. Max(T) \in T /\ \A y \in T : y <= Max(T)  BY <1>4, <1>5, MaxOfFinite
  <1>8. PICK m \in Nat : m = Max(T) /\ \A y \in T : y <= m  BY <1>5, <1>7
  <1>9. m >= lock_end[x]  BY <1>1, <1>5, <1>8
  <1>10. \A u \in U : m > u
    <2> SUFFICES ASSUME NEW u \in U PROVE m > u  OBVIOUS
    <2>1. u + 1 <= m /\ u \in Nat  BY <1>5, <1>8
    <2> QED  BY <2>1
  <1> QED  BY <1>1, <1>6, <1>8, <1>9, <1>10

\* The last close becomes handled, the others stay as they are.
LEMMA ReachedIs ==
  ASSUME ClosesOK, NEW stage \in Stages, Reached(stage), now' = now
  PROVE  /\ closed' \in Seq(Closes) /\ Len(closed') = Len(closed)
         /\ DOMAIN closed' = DOMAIN closed
         /\ \A i \in DOMAIN closed :
              /\ closed'[i].pair = closed[i].pair /\ closed'[i].at = closed[i].at
              /\ closed'[i].outcome = closed[i].outcome
              /\ i # Len(closed) =>
                   closed'[i].handled = closed[i].handled /\ closed'[i].stage = closed[i].stage
              /\ i = Len(closed) => closed'[i].handled = now /\ closed'[i].stage = stage
  <1>1. closed \in Seq(Closes) /\ now \in Nat  BY DEF ClosesOK
  <1>2. DOMAIN closed = 1..Len(closed) /\ Len(closed) \in Nat  BY <1>1
  <1> DEFINE last == [closed[Len(closed)] EXCEPT !.handled = now, !.stage = stage]
  <1>3. closed' = [i \in DOMAIN closed |->
                     IF i < Len(closed) THEN closed[i]
                     ELSE [closed[i] EXCEPT !.handled = now, !.stage = stage]]
    BY DEF Reached
  <1>4. /\ \A i \in DOMAIN closed : i # Len(closed) => closed'[i] = closed[i]
        /\ Len(closed) \in DOMAIN closed => closed'[Len(closed)] = last
    <2>1. ASSUME NEW i \in DOMAIN closed, i # Len(closed) PROVE closed'[i] = closed[i]
      <3>1. i < Len(closed)  BY <1>2, <2>1
      <3> QED  BY <1>3, <3>1
    <2>2. ASSUME Len(closed) \in DOMAIN closed PROVE closed'[Len(closed)] = last
      <3>1. ~ (Len(closed) < Len(closed))  BY <1>2
      <3> QED  BY <1>3, <2>2, <3>1
    <2> QED  BY <2>1, <2>2
  <1>5. \A i \in DOMAIN closed : closed[i] \in Closes  BY <1>1
  <1>6. ASSUME Len(closed) \in DOMAIN closed
        PROVE  /\ last \in Closes /\ last.handled = now /\ last.stage = stage
               /\ last.pair = closed[Len(closed)].pair /\ last.at = closed[Len(closed)].at
               /\ last.outcome = closed[Len(closed)].outcome
    <2>1. PICK c \in Closes : c = closed[Len(closed)]  BY <1>5, <1>6
    <2>2. PICK d : d = [c EXCEPT !.handled = now, !.stage = stage]  OBVIOUS
    <2>3. d = last  BY <2>1, <2>2
    <2>4. now \in 0..now  BY <1>1
    <2> HIDE DEF last
    <2>5. d \in Closes  BY <2>2, <2>4 DEF Closes
    <2>6. d.handled = now /\ d.stage = stage /\ d.pair = c.pair /\ d.at = c.at
          /\ d.outcome = c.outcome
      BY <2>2 DEF Closes
    <2> QED  BY <2>1, <2>3, <2>5, <2>6, Zenon
  <1> HIDE DEF last
  <1>7. \A i \in DOMAIN closed : closed'[i] \in Closes  BY <1>4, <1>5, <1>6
  <1>8. DOMAIN closed' = DOMAIN closed /\ closed' = [i \in 1..Len(closed) |-> closed'[i]]
    BY <1>2, <1>3
  <1>9. closed' \in Seq(Closes) /\ Len(closed') = Len(closed)  BY <1>2, <1>7, <1>8
  <1> QED  BY <1>4, <1>6, <1>8, <1>9

\* The dates of closes do not fall.
LEMMA ReachedOrder ==
  ASSUME ClosesOK, NEW stage \in Stages, Reached(stage), now' = now, handlers' = handlers,
         auto_end' = auto_end, lock_end' \in [Pairs \union {All} -> Nat]
  PROVE  ClosesOK'
  <1>1. /\ closed' \in Seq(Closes) /\ Len(closed') = Len(closed)
        /\ DOMAIN closed' = DOMAIN closed
        /\ \A i \in DOMAIN closed :
             /\ closed'[i].at = closed[i].at
             /\ closed'[i].handled = closed[i].handled \/ closed'[i].handled = now
    BY ReachedIs
  <1>2. \A i, j \in DOMAIN closed : i <= j => closed'[i].at <= closed'[j].at
    BY <1>1 DEF ClosesOK
  <1>3. \A i \in DOMAIN closed : closed'[i].at <= closed'[i].handled
    BY <1>1, CloseIs DEF ClosesOK
  <1>4. Closes' = Closes  BY DEF Closes
  <1>5. leaving' = All  BY DEF Reached
  <1> QED  BY <1>1, <1>2, <1>3, <1>4, <1>5 DEF ClosesOK

LEMMA FoundIs ==
  ASSUME ClosesOK, NEW edge \in Edges, NEW x
  PROVE  Found(edge) \subseteq DOMAIN closed /\ OfPair(Found(edge), x) \subseteq DOMAIN closed
  BY DEF Edges, Found, OfPair

LEMMA CloseStep ==
  ASSUME ClosesOK, Pending, NEW pair \in Pairs, NEW outcome \in Outcomes, Close(pair, outcome),
         pc' = "lock"
  PROVE  ClosesOK' /\ Pending'
  <1>1. closed \in Seq(Closes) /\ now \in Nat /\ MaxCloses \in Nat  BY LimitsAssumption DEF ClosesOK
  <1>2. DOMAIN closed = 1..Len(closed) /\ Len(closed) \in Nat  BY <1>1
  <1>3. now' = now /\ handlers' = handlers /\ auto_end' = auto_end /\ lock_end' = lock_end
        /\ leaving' = pair /\ Len(closed) < MaxCloses
    BY DEF Close
  <1>4. Closes' = Closes  BY <1>3 DEF Closes
  <1>5. CASE handlers = {}
    <2>1. closed' = closed  BY <1>5 DEF Close
    <2> QED  BY <1>3, <1>4, <1>5, <2>1 DEF ClosesOK, Pending
  <1>6. CASE handlers # {}
    <2> DEFINE r == [pair |-> pair, at |-> now, outcome |-> outcome, handled |-> now,
                     stage |-> "none"]
    <2>1. closed' = Append(closed, r)  BY <1>6 DEF Close
    <2>2. r \in Closes /\ r.at = now /\ r.handled = now /\ r.pair = pair /\ r.stage = "none"
      BY <1>1 DEF Closes, Stages
    <2> HIDE DEF r
    <2>3. /\ closed' \in Seq(Closes) /\ Len(closed') = Len(closed) + 1
          /\ DOMAIN closed' = 1..(Len(closed) + 1) /\ closed'[Len(closed) + 1] = r
          /\ \A i \in 1..Len(closed) : closed'[i] = closed[i]
      BY <1>1, <1>2, <2>1, <2>2
    <2>4. \A i, j \in DOMAIN closed' : i <= j => closed'[i].at <= closed'[j].at
      <3> SUFFICES ASSUME NEW i \in DOMAIN closed', NEW j \in DOMAIN closed', i <= j
                   PROVE  closed'[i].at <= closed'[j].at
        OBVIOUS
      <3>1. CASE j \in 1..Len(closed)
        <4>1. i \in 1..Len(closed)  BY <1>2, <2>3, <3>1
        <4> QED  BY <1>2, <2>3, <3>1, <4>1 DEF ClosesOK
      <3>2. CASE j = Len(closed) + 1
        <4>1. closed'[j].at = now  BY <2>2, <2>3, <3>2
        <4>2. CASE i \in 1..Len(closed)  BY <1>2, <2>3, <4>1, <4>2, CloseIs
        <4>3. CASE i = Len(closed) + 1  BY <1>1, <2>2, <2>3, <4>1, <4>3
        <4> QED  BY <1>2, <2>3, <4>2, <4>3
      <3> QED  BY <1>2, <2>3, <3>1, <3>2
    <2>5. \A i \in DOMAIN closed' : closed'[i].at <= closed'[i].handled
      <3> SUFFICES ASSUME NEW i \in DOMAIN closed' PROVE closed'[i].at <= closed'[i].handled
        OBVIOUS
      <3>1. CASE i \in 1..Len(closed)  BY <1>2, <2>3, <3>1 DEF ClosesOK
      <3>2. CASE i = Len(closed) + 1  BY <1>1, <2>2, <2>3, <3>2
      <3> QED  BY <1>2, <2>3, <3>1, <3>2
    <2>6. ClosesOK'
      <3>1. Len(closed') <= MaxCloses  BY <1>1, <1>2, <1>3, <2>3
      <3> QED  BY <1>3, <1>4, <2>3, <2>4, <2>5, <3>1 DEF ClosesOK
    <2>7. Pending'
      <3>1. closed' # <<>>  BY <1>2, <2>3
      <3> QED  BY <1>3, <1>6, <2>2, <2>3, <3>1 DEF Pending
    <2> QED  BY <2>6, <2>7
  <1> QED  BY <1>5, <1>6

\* What is found is locked: of the pair, of all pairs, or nothing.
LEMMA HandlersStep ==
  ASSUME ClosesOK, Pending, HandleProtections
  PROVE  /\ ClosesOK'
         /\ \E stage \in {"pair", "all"} : Reached(stage)
         /\ now' = now /\ handlers' = handlers /\ auto_end' = auto_end
         /\ \A x \in Pairs \union {All} : lock_end'[x] >= lock_end[x]
  <1>1. PICK edge \in Edges :
          \/ StopsNothing(Found(edge)) \/ StopsPair(Found(edge)) \/ StopsAll(Found(edge))
    BY DEF HandleProtections
  <1>2. pc = "protect" /\ leaving \in Pairs  BY DEF HandleProtections, Pending
  <1>3. Found(edge) \subseteq DOMAIN closed /\ OfPair(Found(edge), leaving) \subseteq DOMAIN closed
    BY FoundIs
  <1>4. lock_end \in [Pairs \union {All} -> Nat]  BY DEF ClosesOK
  <1>5. \A U \in SUBSET Nat, x \in Pairs \union {All} :
          IsFiniteSet(U) => /\ LockPair(x, U) \in [Pairs \union {All} -> Nat]
                            /\ \A y \in Pairs \union {All} : LockPair(x, U)[y] >= lock_end[y]
    BY LockPairIs
  <1>6. "pair" \in Stages /\ "all" \in Stages  BY DEF Stages
  <1>7. CASE StopsNothing(Found(edge))
    <2>1. Reached("all") /\ now' = now /\ handlers' = handlers /\ auto_end' = auto_end
          /\ lock_end' = lock_end
      BY <1>7 DEF StopsNothing
    <2>2. ClosesOK'  BY <1>4, <1>6, <2>1, ReachedOrder
    <2>3. \A x \in Pairs \union {All} : lock_end[x] >= lock_end[x]  BY <1>4
    <2> QED  BY <2>1, <2>2, <2>3
  <1>8. CASE StopsPair(Found(edge))
    <2> DEFINE U == NewPairLocks(leaving, Found(edge))
    <2>1. Reached("pair") /\ now' = now /\ handlers' = handlers /\ auto_end' = auto_end
          /\ lock_end' = LockPair(leaving, U)
      BY <1>8 DEF StopsPair
    <2>2. U \subseteq StopPerPair(OfPair(Found(edge), leaving))  BY DEF NewPairLocks
    <2>3. U \subseteq Nat /\ IsFiniteSet(U)  BY <1>3, <2>2, StopsAre, FS_Subset
    <2> HIDE DEF U
    <2>4. ClosesOK'  BY <1>2, <1>5, <1>6, <2>1, <2>3, ReachedOrder
    <2> QED  BY <1>2, <1>5, <2>1, <2>3, <2>4
  <1>9. CASE StopsAll(Found(edge))
    <2> DEFINE U == NewGlobalLocks(Found(edge))
    <2>1. Reached("all") /\ now' = now /\ handlers' = handlers /\ auto_end' = auto_end
          /\ lock_end' = LockPair(All, U)
      BY <1>9 DEF StopsAll
    <2>2. U \subseteq GlobalStop(Found(edge))  BY DEF NewGlobalLocks
    <2>3. U \subseteq Nat /\ IsFiniteSet(U)  BY <1>3, <2>2, StopsAre, FS_Subset
    <2> HIDE DEF U
    <2>4. ClosesOK'  BY <1>5, <1>6, <2>1, <2>3, ReachedOrder
    <2> QED  BY <1>5, <2>1, <2>3, <2>4
  <1> QED  BY <1>1, <1>7, <1>8, <1>9

\* The steps that leave closes and locks alone.
Keeps == handlers' = handlers /\ closed' = closed /\ auto_end' = auto_end /\ lock_end' = lock_end

LEMMA KeepsStep ==
  ASSUME ClosesOK, Keeps, now' = now \/ (now' = now + 1 /\ now < Horizon),
         leaving' \in Pairs \union {All}
  PROVE  ClosesOK'
  <1>1. now' \in 0..Horizon /\ now <= now'  BY LimitsAssumption DEF ClosesOK
  <1>2. closed \in Seq(Closes) /\ DOMAIN closed = 1..Len(closed) /\ Len(closed) \in Nat
    BY DEF ClosesOK
  <1>3. Closes \subseteq Closes'
    <2>1. 0..now \subseteq 0..now'  BY <1>1 DEF ClosesOK
    <2> QED  BY <2>1 DEF Closes
  <1>4. closed \in Seq(Closes')
    <2>1. \A i \in 1..Len(closed) : closed[i] \in Closes'  BY <1>2, <1>3
    <2>2. PICK C : C = Closes'  OBVIOUS
    <2>3. closed \in Seq(C)  BY <1>2, <2>1, <2>2
    <2> QED  BY <2>2, <2>3
  <1> QED  BY <1>1, <1>4 DEF ClosesOK, Keeps

LEMMA RecordsStep ==
  ASSUME ClosesOK, Pending, [Next]_vars
  PROVE  ClosesOK' /\ Pending'
  <1>1. leaving \in Pairs \union {All} /\ now \in Nat /\ auto_end \in [Pairs -> Nat]
    BY DEF ClosesOK
  <1>2. CASE Tick
    <2>1. Keeps /\ now' = now + 1 /\ now < Horizon /\ leaving' = leaving /\ pc' = pc
      BY <1>2 DEF Tick, Keeps, protections
    <2> QED  BY <1>1, <2>1, KeepsStep DEF Pending, Keeps
  <1>3. CASE \/ Refresh \/ RemoteMissing \/ ManageDone \/ ExitsDone \/ EntriesDone \/ UNCHANGED vars
             \/ \E pair \in Pairs : EntryFills(pair) \/ CancelEntry(pair) \/ Enter(pair)
    <2>1. Keeps /\ now' = now /\ leaving' = leaving
      BY <1>3 DEF Refresh, RemoteMissing, ManageDone, ExitsDone, EntriesDone, vars, EntryFills,
         CancelEntry, Enter, Keeps, protections
    <2>2. pc' \in {"lock", "protect"} => pc \in {"lock", "protect"}
      BY <1>3 DEF Refresh, RemoteMissing, ManageDone, ExitsDone, EntriesDone, vars, EntryFills,
         CancelEntry, Enter, NextIteration
    <2> QED  BY <1>1, <2>1, <2>2, KeepsStep DEF Pending, Keeps
  <1>4. CASE Crash
    <2>1. Keeps /\ now' = now /\ leaving' = All /\ pc' = "refresh"
      BY <1>4 DEF Crash, Restarted, NextIteration, Keeps
    <2> QED  BY <1>1, <2>1, KeepsStep DEF Pending, Keeps
  <1>5. CASE AutoLock
    <2>1. handlers' = handlers /\ closed' = closed /\ lock_end' = lock_end /\ now' = now
          /\ leaving' = leaving /\ pc = "lock" /\ pc' = "protect"
          /\ auto_end' = [auto_end EXCEPT ![leaving] = Max({@, now + 1})]
      BY <1>5 DEF AutoLock, AutoLockPair
    <2>2. leaving \in Pairs  BY <2>1 DEF Pending
    <2>3. Max({auto_end[leaving], now + 1}) \in Nat
      <3> DEFINE T == {auto_end[leaving], now + 1}
      <3>1. \A x \in T : x \in Nat /\ x \in Int  BY <1>1, <2>2
      <3>2. \E m \in T : \A x \in T : x <= m  BY <1>1, <2>2
      <3>3. PICK m \in T : \A x \in T : x <= m  BY <3>2
      <3> HIDE DEF T
      <3>4. Max(T) = m  BY <3>1, <3>3, MaxIs
      <3> QED  BY <3>1, <3>3, <3>4 DEF T
    <2>4. auto_end' \in [Pairs -> Nat]  BY <1>1, <2>1, <2>2, <2>3
    <2>5. Closes' = Closes  BY <2>1 DEF Closes
    <2>6. ClosesOK'  BY <2>1, <2>4, <2>5 DEF ClosesOK
    <2> QED  BY <2>1, <2>6 DEF Pending
  <1>6. CASE HandleProtections
    <2>1. ClosesOK' /\ handlers' = handlers /\ now' = now  BY <1>6, HandlersStep
    <2>2. pc' \notin {"lock", "protect"}
      BY <1>6 DEF HandleProtections, Restarted, NextIteration
    <2>3. PICK stage \in Stages : Reached(stage)  BY <1>6, HandlersStep DEF Stages
    <2>4. Len(closed') = Len(closed)  BY <2>1, <2>3, ReachedIs
    <2>5. handlers' = {} => closed' = <<>>
      <3>1. closed' \in Seq(Closes)  BY <2>1, <2>3, ReachedIs
      <3>2. handlers' = {} => Len(closed') = 0  BY <2>1, <2>4 DEF Pending
      <3> QED  BY <3>1, <3>2
    <2> QED  BY <2>1, <2>2, <2>5 DEF Pending
  <1>7. CASE \E pair \in Pairs : CloseTrade(pair)
    <2>1. PICK pair \in Pairs, outcome \in Outcomes : Close(pair, outcome) /\ pc' = "lock"
      BY <1>7 DEF CloseTrade, Outcomes
    <2> QED  BY <2>1, CloseStep
  <1> QED  BY <1>2, <1>3, <1>4, <1>5, <1>6, <1>7 DEF Next

-----------------------------------------------------------------------------
(* The whitelist *)

LEMMA RecordsTyped == ClosesOK => ProtectionsTyped
  <1> SUFFICES ASSUME ClosesOK PROVE ProtectionsTyped  OBVIOUS
  <1>1. \A i \in DOMAIN closed :
          /\ closed[i].pair \in Pairs /\ closed[i].at \in Nat /\ closed[i].at <= now
          /\ closed[i].handled \in Nat /\ closed[i].handled <= now
          /\ closed[i].outcome \in Outcomes /\ closed[i].stage \in Stages
    BY CloseIs
  <1>2. \A i \in DOMAIN closed : closed[i].at <= closed[i].handled  BY DEF ClosesOK
  <1>3. now \in Nat  BY DEF ClosesOK
  <1>4. \A i \in DOMAIN closed :
          closed[i].at \in 0..now /\ closed[i].handled \in closed[i].at..now
    BY <1>1, <1>2, <1>3
  <1> QED  BY <1>1, <1>4 DEF ProtectionsTyped, ClosesOK

\* Days do not go back.
LEMMA DaysGrow ==
  ASSUME NEW a \in Nat, NEW b \in Nat, a <= b
  PROVE  a \div Day \in Nat /\ a \div Day <= b \div Day
  <1>1. PICK d \in Nat : d = Day /\ d >= 1  BY SelectionAssumption
  <1>2. a \div d \in Int /\ b \div d \in Int  BY <1>1
  <1>3. PICK q \in Int, r \in Int : q = a \div d /\ r = b \div d  BY <1>2
  <1>4. d * q <= a /\ a < d * q + d /\ d * r <= b /\ b < d * r + d  BY <1>1, <1>3
  <1>5. q <= r
    <2> SUFFICES ASSUME q >= r + 1 PROVE FALSE  BY <1>3
    <2>1. d * (q - r) >= d  BY <1>1
    <2>2. d * (q - r) = d * q - d * r  BY <1>1
    <2>3. d * q \in Int /\ d * r \in Int  BY <1>1
    <2> QED  BY <1>1, <1>4, <2>1, <2>2, <2>3
  <1>6. q \in Nat
    <2> SUFFICES ASSUME q <= -1 PROVE FALSE  OBVIOUS
    <2>1. d * (q + 1) <= 0  BY <1>1
    <2>2. d * (q + 1) = d * q + d  BY <1>1
    <2> QED  BY <1>1, <1>4, <2>1, <2>2
  <1> QED  BY <1>1, <1>3, <1>5, <1>6

LEMMA SelectStart == Init => SelectInv
  <1> SUFFICES ASSUME Init PROVE SelectInv  OBVIOUS
  <1>1. ProtectionsTyped  BY RecordsStart, RecordsTyped
  <1>2. now = 0 /\ Today = 0
    <2>1. 0 \div Day = 0  BY SelectionAssumption
    <2> QED  BY <2>1 DEF Init, Today
  <1>3. <<>> \in Lists
    <2>1. <<>> \in Seq(Pairs) /\ IsInjective(<<>>)  BY DEF IsInjective
    <2> QED  BY <2>1, ListsAre
  <1>4. ToSet(<<>>) = {}  BY DEF ToSet
  <1>5. Open = {} /\ Cardinality({}) = 0  BY FS_EmptySet DEF Init, Open
  <1>6. MaxOpen \in Nat  BY SelectionAssumption
  <1>7. DOMAIN shuffled.lists = {} /\ shuffled.candle = Never /\ shuffled = NoLists
    BY DEF Init, NoLists
  <1>8. TypeOK
    BY <1>1, <1>2, <1>3, <1>5, <1>6, <1>7 DEF Init, TypeOK, Never
  <1>9. WhitelistChosen  BY <1>8 DEF Init, WhitelistChosen
  <1>10. ConfigOK
    <2>1. MaxDays \in Nat  BY SelectionAssumption
    <2>2. born \in [Pairs -> {-MaxDays, 0}] \/ born \in [Pairs -> {0}]  BY DEF Init
    <2>3. born \in [Pairs -> Int]  BY <2>1, <2>2
    <2> QED  BY <2>3 DEF Init, ConfigOK
  <1>11. HistoryOK  BY <1>2 DEF Init, HistoryOK, Never
  <1>12. Aged /\ Dated  BY <1>4 DEF Init, Aged, Dated
  <1>13. Mixed  BY <1>7 DEF Mixed
  <1> QED  BY <1>9, <1>10, <1>11, <1>12, <1>13 DEF SelectInv

\* Trades change, the whitelist and what it was made of does not.
LEMMA WorkStep ==
  ASSUME SelectInv, ClosesOK',
         UNCHANGED <<now, config, caches, whitelist, history>>,
         trades' \in [Pairs -> {"none", "entering", "held"}], Cardinality(Open') <= MaxOpen,
         pc' \in {"refresh", "manage", "exits", "lock", "protect", "enter", "stopped"},
         pc' \notin {"refresh", "stopped"} =>
           pc \notin {"refresh", "stopped"} /\ Open' \subseteq ToSet(whitelist)
  PROVE  SelectInv'
  <1> USE DEF config, caches, history
  <1>1. ProtectionsTyped'
    <2>1. ClosesOK' => ProtectionsTyped'  BY RecordsTyped, PTL
    <2> QED  BY <2>1
  <1>2. Today' = Today  BY DEF Today
  <1>3. TypeOK'
    BY <1>1, <1>2 DEF SelectInv, WhitelistChosen, TypeOK
  <1>4. \A p : Chosen(p)' <=> Chosen(p)
    BY DEF Chosen, Lingers, Staleness, CachesMarkets
  <1>5. WhitelistChosen'  BY <1>3, <1>4 DEF SelectInv, WhitelistChosen
  <1>6. ConfigOK' /\ HistoryOK'  BY DEF SelectInv, ConfigOK, HistoryOK
  <1>7. Aged' /\ Dated'  BY <1>2 DEF SelectInv, Aged, Dated
  <1>8. Mixed'  BY DEF SelectInv, Mixed
  <1> QED  BY <1>5, <1>6, <1>7, <1>8 DEF SelectInv

\* Nothing is known of a market any more, unless a cache keeps it.
LEMMA IterationStep ==
  ASSUME SelectInv, ClosesOK', NextIteration, UNCHANGED <<now, config, trades, lingering>>,
         UNCHANGED caches \/ Restarted
  PROVE  SelectInv'
  <1> USE DEF config, caches
  <1>1. ProtectionsTyped'
    <2>1. ClosesOK' => ProtectionsTyped'  BY RecordsTyped, PTL
    <2> QED  BY <2>1
  <1>2. Today' = Today  BY DEF Today
  <1>3. <<>> \in Lists /\ ToSet(<<>>) = {}
    <2>1. <<>> \in Seq(Pairs) /\ IsInjective(<<>>)  BY DEF IsInjective
    <2>2. ToSet(<<>>) = {}  BY DEF ToSet
    <2> QED  BY <2>1, <2>2, ListsAre
  <1>4. now \in Nat /\ Today \in Nat
    <2>1. now \in Nat  BY DEF SelectInv, WhitelistChosen, TypeOK, ProtectionsTyped
    <2> QED  BY <2>1, DaysGrow DEF Today
  <1>5. Open' = Open  BY DEF Open
  <1>6. pc' = "refresh" /\ whitelist' = <<>> /\ asked' = 0 /\ traded' = {}  BY DEF NextIteration
  <1>7. CASE UNCHANGED caches
    <2>1. TypeOK'
      BY <1>1, <1>2, <1>3, <1>5, <1>6, <1>7 DEF SelectInv, WhitelistChosen, TypeOK
    <2>2. WhitelistChosen'  BY <1>6, <2>1 DEF WhitelistChosen
    <2>3. ConfigOK'  BY DEF SelectInv, ConfigOK
    <2>4. HistoryOK'
      <3>1. active' \in [Pairs -> Never..now]
        BY <1>4 DEF NextIteration, SelectInv, HistoryOK, Never
      <3> QED  BY <1>4, <1>6, <3>1 DEF SelectInv, HistoryOK
    <2>5. Aged'  BY <1>2, <1>7 DEF SelectInv, Aged
    <2>6. Dated'
      <3>1. CASE CachesMarkets
        <4>1. active' = active  BY <3>1 DEF NextIteration
        <4> QED  BY <1>7, <4>1 DEF SelectInv, Dated
      <3>2. CASE ~CachesMarkets
        <4>1. generator' # "volume" /\ "append" \notin filters'  BY <3>2 DEF CachesMarkets
        <4> QED  BY <4>1 DEF Dated
      <3> QED  BY <3>1, <3>2
    <2>7. Mixed'  BY <1>7 DEF SelectInv, Mixed
    <2> QED  BY <2>2, <2>3, <2>4, <2>5, <2>6, <2>7 DEF SelectInv
  <1>8. CASE Restarted
    <2>1. /\ tickers' = [at |-> Never, wide |-> {}]
          /\ volume' = [at |-> Never, list |-> <<>>] /\ remote' = [at |-> Never, list |-> <<>>]
          /\ checked' = {} /\ failed' = [p \in Pairs |-> Never] /\ shuffled' = NoLists
      BY <1>8 DEF Restarted
    <2>2. DOMAIN shuffled'.lists = {} /\ shuffled'.candle = Never  BY <2>1 DEF NoLists
    <2>3. Never \in Never..now /\ Never \in Never..Today  BY <1>4 DEF Never
    <2>4. TypeOK'
      BY <1>1, <1>2, <1>3, <1>5, <1>6, <2>1, <2>2, <2>3
      DEF SelectInv, WhitelistChosen, TypeOK
    <2>5. WhitelistChosen'  BY <1>6, <2>4 DEF WhitelistChosen
    <2>6. ConfigOK'  BY DEF SelectInv, ConfigOK
    <2>7. HistoryOK'
      <3>1. active' \in [Pairs -> Never..now]
        BY <1>4 DEF NextIteration, SelectInv, HistoryOK, Never
      <3> QED  BY <1>4, <1>6, <3>1 DEF SelectInv, HistoryOK
    <2>8. Aged' /\ Dated'  BY <1>3, <2>1 DEF Aged, Dated
    <2>9. Mixed'  BY <2>1, <2>2 DEF Mixed
    <2> QED  BY <2>5, <2>6, <2>7, <2>8, <2>9 DEF SelectInv
  <1> QED  BY <1>7, <1>8

LEMMA TickStep ==
  ASSUME SelectInv, ClosesOK, ClosesOK', Tick
  PROVE  SelectInv'
  <1> USE DEF config, caches, history
  <1>1. /\ now' = now + 1
        /\ UNCHANGED <<protections, config, caches, whitelist, trades, pc, history>>
    BY DEF Tick
  <1>2. ProtectionsTyped'
    <2>1. ClosesOK' => ProtectionsTyped'  BY RecordsTyped, PTL
    <2> QED  BY <2>1
  <1>3. now \in Nat /\ now' \in Nat /\ now <= now'  BY <1>1 DEF ClosesOK
  <1>4. Today \in Nat /\ Today <= Today' /\ Today' \in Nat
    <2>1. PICK m \in Nat : m = now'  BY <1>3
    <2>2. now \div Day \in Nat /\ now \div Day <= m \div Day  BY <1>3, <2>1, DaysGrow
    <2>3. m \div Day \in Nat  BY DaysGrow
    <2> QED  BY <2>1, <2>2, <2>3 DEF Today
  <1>5. Never..now \subseteq Never..now' /\ Never..Today \subseteq Never..Today'
    BY <1>3, <1>4 DEF Never
  <1>6. Open' = Open  BY <1>1 DEF Open
  <1>7. TypeOK'
    BY <1>1, <1>2, <1>5, <1>6 DEF SelectInv, WhitelistChosen, TypeOK
  <1>8. \A p : Chosen(p)' <=> Chosen(p)
    BY <1>1 DEF Chosen, Lingers, Staleness, CachesMarkets
  <1>9. WhitelistChosen'  BY <1>1, <1>6, <1>7, <1>8 DEF SelectInv, WhitelistChosen
  <1>10. ConfigOK' /\ Dated'  BY <1>1 DEF SelectInv, ConfigOK, Dated
  <1>11. HistoryOK'
    <2>1. asked \in 0..now'  BY <1>3 DEF SelectInv, HistoryOK
    <2> QED  BY <1>1, <1>5, <2>1 DEF SelectInv, HistoryOK
  <1>12. Aged'
    <2>1. MinDays \in Nat  BY SelectionAssumption
    <2>2. \A p \in checked : born[p] \in Int
      BY DEF SelectInv, WhitelistChosen, TypeOK, ConfigOK
    <2>3. \A p \in checked : Today - born[p] >= MinDays  BY DEF SelectInv, Aged
    <2>4. \A p \in checked : Today' - born[p] >= MinDays  BY <1>4, <2>1, <2>2, <2>3
    <2> QED  BY <1>1, <2>4 DEF Aged
  <1>13. Mixed'
    <2>1. shuffled.candle \in Never..now  BY DEF SelectInv, WhitelistChosen, TypeOK
    <2>2. shuffled'.candle # now'  BY <1>1, <1>3, <2>1
    <2> QED  BY <1>1, <2>2 DEF SelectInv, Mixed
  <1> QED  BY <1>9, <1>10, <1>11, <1>12, <1>13 DEF SelectInv

\* The other steps of an iteration: trades fill, end, close, and one is opened.
LEMMA TradesStep ==
  ASSUME SelectInv, ClosesOK', NEW pair \in Pairs,
         EntryFills(pair) \/ CancelEntry(pair) \/ CloseTrade(pair) \/ Enter(pair)
  PROVE  SelectInv'
  <1>1. trades \in [Pairs -> {"none", "entering", "held"}] /\ Cardinality(Open) <= MaxOpen
    BY DEF SelectInv, WhitelistChosen, TypeOK
  <1>2. MaxOpen \in Nat  BY SelectionAssumption
  <1>3. Open \subseteq Pairs /\ Open' \subseteq Pairs  BY DEF Open
  <1>4. IsFiniteSet(Open) /\ Cardinality(Open) \in Nat  BY <1>3, PairsFinite
  <1>5. pc \notin {"refresh", "stopped"} /\ Open \subseteq ToSet(whitelist)
    BY DEF EntryFills, CancelEntry, CloseTrade, Enter, SelectInv, WhitelistChosen
  <1>6. UNCHANGED <<now, config, caches, whitelist, history>>
    BY DEF EntryFills, CancelEntry, CloseTrade, Enter, Close
  <1>7. pc' = pc \/ pc' = "lock"
    BY DEF EntryFills, CancelEntry, CloseTrade, Enter
  <1>8. pc' \in {"refresh", "manage", "exits", "lock", "protect", "enter", "stopped"}
    BY <1>7 DEF SelectInv, WhitelistChosen, TypeOK
  <1>9. PICK state \in {"none", "entering", "held"} : trades' = [trades EXCEPT ![pair] = state]
    BY DEF EntryFills, CancelEntry, CloseTrade, Enter
  <1>10. trades' \in [Pairs -> {"none", "entering", "held"}]  BY <1>1, <1>9
  <1>11. CASE EntryFills(pair) \/ CancelEntry(pair) \/ CloseTrade(pair)
    <2>1. trades[pair] # "none"  BY <1>11 DEF EntryFills, CancelEntry, CloseTrade
    <2>2. Open' \subseteq Open  BY <1>1, <1>9, <1>10, <2>1 DEF Open
    <2>3. PICK T : T = Open'  OBVIOUS
    <2>4. Cardinality(T) <= Cardinality(Open) /\ Cardinality(T) \in Nat
      BY <1>3, <1>4, <2>2, <2>3, FS_Subset, PairsFinite
    <2>5. Cardinality(Open') <= MaxOpen  BY <1>1, <1>2, <1>4, <2>3, <2>4
    <2> QED  BY <1>5, <1>6, <1>8, <1>10, <2>2, <2>5, WorkStep
  <1>12. CASE Enter(pair)
    <2>1. trades[pair] = "none" /\ pair \in ToSet(whitelist) /\ Cardinality(Open) < MaxOpen
      BY <1>12 DEF Enter
    <2>2. Open' \subseteq Open \union {pair}  BY <1>1, <1>9, <1>10 DEF Open
    <2>3. PICK T : T = Open'  OBVIOUS
    <2>4. /\ IsFiniteSet(Open \union {pair})
          /\ Cardinality(Open \union {pair}) \in Nat
          /\ Cardinality(Open \union {pair}) <= Cardinality(Open) + 1
      BY <1>4, FS_AddElement, FS_CardinalityType
    <2>5. Cardinality(T) <= Cardinality(Open \union {pair}) /\ Cardinality(T) \in Nat
      BY <1>3, <2>2, <2>3, <2>4, FS_Subset, PairsFinite
    <2>6. Cardinality(Open') <= MaxOpen  BY <1>2, <1>4, <2>1, <2>3, <2>4, <2>5
    <2>7. Open' \subseteq ToSet(whitelist)  BY <1>5, <2>1, <2>2
    <2> QED  BY <1>5, <1>6, <1>8, <1>10, <2>6, <2>7, WorkStep
  <1> QED  BY <1>11, <1>12

LEMMA ControlStep ==
  ASSUME SelectInv, ClosesOK',
         \/ RemoteMissing \/ ManageDone \/ AutoLock \/ HandleProtections \/ ExitsDone
         \/ EntriesDone \/ Crash \/ UNCHANGED vars
  PROVE  SelectInv'
  <1>1. /\ trades \in [Pairs -> {"none", "entering", "held"}] /\ Cardinality(Open) <= MaxOpen
        /\ pc \in {"refresh", "manage", "exits", "lock", "protect", "enter", "stopped"}
        /\ pc \notin {"refresh", "stopped"} => Open \subseteq ToSet(whitelist)
    BY DEF SelectInv, WhitelistChosen, TypeOK
  <1>2. now' = now /\ UNCHANGED <<config, trades>>
    BY DEF RemoteMissing, ManageDone, AutoLock, HandleProtections, ExitsDone, EntriesDone, Crash,
       vars, AutoLockPair, StopsNothing, StopsPair, StopsAll, Restarted
  <1>3. Open' = Open  BY <1>2 DEF Open
  <1>4. \/ /\ UNCHANGED <<now, config, caches, whitelist, history>>
           /\ \/ pc' = pc \/ pc' = "stopped"
              \/ /\ pc' \in {"exits", "protect", "enter"}
                 /\ pc \in {"manage", "lock", "protect", "exits"}
        \/ NextIteration /\ UNCHANGED lingering /\ (UNCHANGED caches \/ Restarted)
    <2>1. CASE RemoteMissing \/ UNCHANGED vars
      BY <2>1 DEF RemoteMissing, vars
    <2>2. CASE ManageDone \/ AutoLock
      BY <1>2, <2>2 DEF ManageDone, AutoLock
    <2>3. CASE HandleProtections
      BY <1>2, <2>3 DEF HandleProtections, Restarted
    <2>4. CASE ExitsDone \/ EntriesDone
      BY <1>2, <2>4 DEF ExitsDone, EntriesDone
    <2>5. CASE Crash
      BY <2>5 DEF Crash, Restarted
    <2> QED  BY <2>1, <2>2, <2>3, <2>4, <2>5
  <1>5. CASE NextIteration /\ UNCHANGED lingering /\ (UNCHANGED caches \/ Restarted)
    BY <1>2, <1>5, IterationStep
  <1>6. CASE /\ UNCHANGED <<now, config, caches, whitelist, history>>
             /\ \/ pc' = pc \/ pc' = "stopped"
                \/ /\ pc' \in {"exits", "protect", "enter"}
                   /\ pc \in {"manage", "lock", "protect", "exits"}
    <2>1. pc' \notin {"refresh", "stopped"} =>
            pc \notin {"refresh", "stopped"} /\ Open' \subseteq ToSet(whitelist)
      BY <1>1, <1>3, <1>6
    <2>2. pc' \in {"refresh", "manage", "exits", "lock", "protect", "enter", "stopped"}
      BY <1>1, <1>6
    <2> QED  BY <1>1, <1>2, <1>3, <1>6, <2>1, <2>2, WorkStep
  <1> QED  BY <1>4, <1>5, <1>6

\* The markets of this refresh are active now.
Known(markets) == active' = [p \in Pairs |-> IF p \in markets THEN now ELSE active[p]]

LEMMA KnownIs ==
  ASSUME SelectInv, NEW markets \in SUBSET Pairs, Known(markets)
  PROVE  /\ active' \in [Pairs -> Never..now] /\ now \in Nat
         /\ \A p \in Pairs : active'[p] >= active[p]
         /\ \A p \in markets : active'[p] = now
         /\ \A p \in Pairs : active'[p] \in Int /\ active[p] \in Int
  <1>1. active \in [Pairs -> Never..now]  BY DEF SelectInv, HistoryOK
  <1>2. now \in Nat  BY DEF SelectInv, WhitelistChosen, TypeOK, ProtectionsTyped
  <1>3. Never..now \subseteq Int /\ now \in Never..now  BY <1>2 DEF Never
  <1>4. active' \in [Pairs -> Never..now]  BY <1>1, <1>3 DEF Known
  <1>5. \A p \in Pairs : active'[p] = IF p \in markets THEN now ELSE active[p]
    BY DEF Known
  <1>6. \A p \in Pairs : active[p] \in Never..now  BY <1>1
  <1>7. \A p \in Pairs : active'[p] >= active[p]  BY <1>2, <1>5, <1>6 DEF Never
  <1> QED  BY <1>1, <1>2, <1>3, <1>4, <1>5, <1>6, <1>7

LEMMA StalenessIs ==
  /\ Staleness \in Nat /\ RefreshPeriod \in Nat
  /\ generator = "volume" \/ "append" \in filters => Staleness = RefreshPeriod
  BY SelectionAssumption DEF Staleness, CachesMarkets

\* The generator's pairs were active when they were asked for.
LEMMA Generated ==
  ASSUME SelectInv, NEW markets \in SUBSET Pairs, Known(markets), NEW first \in Lists,
         StaticPairList(first, markets) \/ VolumePairList(first, markets)
  PROVE  /\ volume'.at \in Never..now /\ volume'.list \in Lists
         /\ generator = "volume" => \A p \in ToSet(volume'.list) : active'[p] >= volume'.at
         /\ \A p \in ToSet(first) : p \in Pairs /\ now - active'[p] <= Staleness
  <1>1. /\ now \in Nat
        /\ \A p \in Pairs : active'[p] >= active[p]
        /\ \A p \in markets : active'[p] = now
        /\ \A p \in Pairs : active'[p] \in Int /\ active[p] \in Int
    BY KnownIs
  <1>2. volume.at \in Never..now /\ volume.list \in Lists
    BY DEF SelectInv, WhitelistChosen, TypeOK
  <1>3. \A l \in Lists : ToSet(l) \subseteq Pairs
    <2> SUFFICES ASSUME NEW l \in Lists PROVE ToSet(l) \subseteq Pairs  OBVIOUS
    <2>1. l \in Seq(Pairs)  BY ListsAre
    <2> QED  BY <2>1 DEF ToSet
  <1>4. CASE StaticPairList(first, markets)
    <2>1. volume' = volume /\ generator = "static" /\ first = Only(SetToSeq(Pairs), markets)
      BY <1>4 DEF StaticPairList
    <2>2. PICK all \in Lists : all = SetToSeq(Pairs)  BY SetToSeqIs
    <2>3. ToSet(first) \subseteq markets  BY <2>1, <2>2, OnlyIs
    <2>4. \A p \in markets : now - active'[p] <= Staleness  BY <1>1, StalenessIs
    <2> QED  BY <1>2, <2>1, <2>3, <2>4
  <1>5. CASE VolumePairList(first, markets)
    <2>1. generator = "volume" /\ Staleness = RefreshPeriod  BY <1>5, StalenessIs DEF VolumePairList
    <2>2. \A p \in ToSet(volume.list) : active[p] >= volume.at  BY <2>1 DEF SelectInv, Dated
    <2>3. CASE MayHit(volume.at, RefreshPeriod) /\ first = volume.list /\ volume' = volume
      <3>1. volume.at \in Nat /\ now - volume.at <= RefreshPeriod
        BY <1>1, <1>2, <2>3 DEF MayHit, Never
      <3>2. \A p \in ToSet(first) : p \in Pairs /\ active[p] >= volume.at  BY <1>2, <1>3, <2>2, <2>3
      <3>3. \A p \in ToSet(first) : active'[p] >= volume.at  BY <1>1, <3>1, <3>2
      <3>4. \A p \in ToSet(first) : now - active'[p] <= Staleness
        BY <1>1, <2>1, <3>1, <3>2, <3>3, StalenessIs
      <3> QED  BY <1>2, <2>3, <3>2, <3>3, <3>4
    <2>4. CASE /\ first \in {Top(ranked) : ranked \in
                                {l \in Lists : ToSet(l) \subseteq markets \ Blacklist}}
               /\ volume' = [at |-> now, list |-> first]
      <3>1. PICK ranked \in Lists : first = Top(ranked) /\ ToSet(ranked) \subseteq markets
        BY <2>4
      <3>2. ToSet(first) \subseteq markets  BY <3>1, TopIs
      <3>3. volume'.at = now /\ volume'.list = first  BY <2>4
      <3>4. \A p \in ToSet(first) : active'[p] = now  BY <1>1, <3>2
      <3>5. now \in Never..now /\ now - now <= Staleness /\ now >= now
        BY <1>1, StalenessIs DEF Never
      <3> QED  BY <3>2, <3>3, <3>4, <3>5
    <2> QED  BY <1>5, <2>3, <2>4 DEF VolumePairList
  <1> QED  BY <1>4, <1>5

\* The age filter lets pairs pass that were found old enough.
LEMMA AgeIs ==
  ASSUME SelectInv, NEW first \in Lists, NEW aged, AgeFilter(first, aged)
  PROVE  /\ aged \in Lists /\ ToSet(aged) \subseteq ToSet(first)
         /\ checked' \subseteq Pairs /\ failed' \in [Pairs -> Never..Today]
         /\ \A p \in checked' : Today - born[p] >= MinDays
         /\ "age" \in filters => ToSet(aged) \subseteq checked'
  <1> DEFINE needed == {p \in ToSet(first) : p \notin checked /\ failed[p] # Today}
  <1>1. checked \subseteq Pairs /\ failed \in [Pairs -> Never..Today]
    BY DEF SelectInv, WhitelistChosen, TypeOK
  <1>2. \A p \in checked : Today - born[p] >= MinDays  BY DEF SelectInv, Aged
  <1>3. /\ \A S : /\ Only(first, S) \in Lists
                  /\ ToSet(Only(first, S)) = ToSet(first) \intersect S
    BY OnlyIs
  <1>4. CASE "age" \notin filters \/ needed = {}
    <2>1. /\ aged = IF "age" \in filters THEN Only(first, checked) ELSE first
          /\ checked' = checked /\ failed' = failed
      BY <1>4 DEF AgeFilter
    <2> QED  BY <1>1, <1>2, <1>3, <2>1
  <1>5. CASE ~ ("age" \notin filters \/ needed = {})
    <2>1. PICK got \in SUBSET needed :
            /\ checked' = checked \union {p \in got : RightAge(p)}
            /\ failed' = [p \in Pairs |-> IF p \in got /\ ~RightAge(p) THEN Today ELSE failed[p]]
            /\ aged = Only(first, checked')
      BY <1>5 DEF AgeFilter
    <2>2. ToSet(first) \subseteq Pairs
      <3>1. first \in Seq(Pairs)  BY ListsAre
      <3> QED  BY <3>1 DEF ToSet
    <2>3. got \subseteq Pairs  BY <2>2
    <2>4. now \in Nat  BY DEF SelectInv, WhitelistChosen, TypeOK, ProtectionsTyped
    <2>5. Today \in Nat  BY <2>4, DaysGrow DEF Today
    <2>6. Today \in Never..Today  BY <2>5 DEF Never
    <2>7. \A p \in got : RightAge(p) => Today - born[p] >= MinDays
      <3>1. MinDays \in Int /\ MaxDays \in Int  BY SelectionAssumption
      <3>2. \A p \in Pairs : Today - born[p] \in Int  BY <2>5 DEF SelectInv, ConfigOK
      <3> QED  BY <2>3, <3>1, <3>2 DEF RightAge
    <2>8. PICK c : c = checked'  OBVIOUS
    <2>9. ToSet(aged) = ToSet(first) \intersect c /\ aged \in Lists  BY <1>3, <2>1, <2>8
    <2>10. failed' \in [Pairs -> Never..Today]  BY <1>1, <2>1, <2>6
    <2>11. c = checked \union {p \in got : RightAge(p)}  BY <2>1, <2>8
    <2>12. c \subseteq Pairs /\ \A p \in c : Today - born[p] >= MinDays
      BY <1>1, <1>2, <2>3, <2>7, <2>11
    <2> QED  BY <2>8, <2>9, <2>10, <2>12
  <1> QED  BY <1>4, <1>5

\* What is cached for a list is made of that list and pairs that linger.
LEMMA MixedIs ==
  ASSUME SelectInv, NEW aged \in Lists, NEW mixed \in Lists, ShuffleFilter(aged, mixed)
  PROVE  /\ "shuffle" \notin filters => ToSet(mixed) = ToSet(aged)
         /\ \/ ToSet(mixed) \subseteq ToSet(aged)
            \/ shuffled.candle = now /\ ToSet(mixed) \subseteq ToSet(aged) \union lingering
  <1>1. CASE "shuffle" \notin filters  BY <1>1 DEF ShuffleFilter
  <1>2. CASE "shuffle" \in filters /\ aged \in DOMAIN CachedLists /\ mixed = CachedLists[aged]
    <2>1. shuffled.candle = now  BY <1>2 DEF CachedLists, NoLists
    <2>2. CachedLists = shuffled.lists  BY <2>1 DEF CachedLists
    <2>3. \A l \in DOMAIN shuffled.lists :
            ToSet(shuffled.lists[l]) \subseteq ToSet(l) \union lingering
      BY <2>1 DEF SelectInv, Mixed
    <2>4. aged \in DOMAIN shuffled.lists /\ mixed = shuffled.lists[aged]  BY <1>2, <2>2
    <2>5. ToSet(mixed) \subseteq ToSet(aged) \union lingering  BY <2>3, <2>4
    <2> QED  BY <1>2, <2>1, <2>5
  <1>3. CASE "shuffle" \in filters /\ mixed \in SetToSeqs(ToSet(aged))
    <2>1. PICK n : mixed \in [1..n -> ToSet(aged)]  BY <1>3 DEF SetToSeqs
    <2>2. ToSet(mixed) \subseteq ToSet(aged)  BY <2>1 DEF ToSet
    <2> QED  BY <1>3, <2>2
  <1> QED  BY <1>1, <1>2, <1>3 DEF ShuffleFilter

LEMMA SpreadIs ==
  ASSUME NEW mixed \in Lists
  PROVE  /\ SpreadFilter(mixed) \in Lists /\ ToSet(SpreadFilter(mixed)) \subseteq ToSet(mixed)
         /\ "spread" \in filters => ToSet(SpreadFilter(mixed)) \intersect tickers'.wide = {}
  <1>1. PICK wide : wide = tickers'.wide  OBVIOUS
  <1>2. Without(mixed, wide) \in Lists /\ ToSet(Without(mixed, wide)) = ToSet(mixed) \ wide
    BY OnlyIs
  <1>3. SpreadFilter(mixed) = IF "spread" \in filters THEN Without(mixed, wide) ELSE mixed
    BY <1>1 DEF SpreadFilter
  <1> QED  BY <1>1, <1>2, <1>3

LEMMA TickersAre ==
  ASSUME SelectInv, GetCachedTickers
  PROVE  tickers'.at \in Never..now /\ tickers'.wide \subseteq Pairs
  <1>1. tickers.at \in Never..now /\ tickers.wide \subseteq Pairs /\ now \in Nat
    BY DEF SelectInv, WhitelistChosen, TypeOK, ProtectionsTyped
  <1>2. CASE tickers' = tickers  BY <1>1, <1>2
  <1>3. CASE \E wide \in SUBSET Pairs : tickers' = [at |-> now, wide |-> wide]
    <2>1. now \in Never..now  BY <1>1 DEF Never
    <2> QED  BY <1>3, <2>1
  <1>4. {} \in SUBSET Pairs  OBVIOUS
  <1> QED  BY <1>2, <1>3, <1>4 DEF GetCachedTickers

\* Only a list that appends adds pairs, of markets that were active lately.
LEMMA RemoteIs ==
  ASSUME SelectInv, NEW markets \in SUBSET Pairs, Known(markets), NEW narrow \in Lists,
         NEW merged \in Lists, RemotePairList(narrow, merged, markets)
  PROVE  /\ remote'.at \in Never..now /\ remote'.list \in Lists
         /\ "append" \in filters => \A p \in ToSet(remote'.list) : active'[p] >= remote'.at
         /\ \A p \in ToSet(merged) : p \in ToSet(narrow)
              \/ ("append" \in filters /\ now - active'[p] <= Staleness)
         /\ filters \intersect RemoteModes = {} => merged = narrow
  <1>1. /\ now \in Nat
        /\ \A p \in Pairs : active'[p] >= active[p]
        /\ \A p \in markets : active'[p] = now
        /\ \A p \in Pairs : active'[p] \in Int /\ active[p] \in Int
    BY KnownIs
  <1>2. remote.at \in Never..now /\ remote.list \in Lists
    BY DEF SelectInv, WhitelistChosen, TypeOK
  <1>3. \A l \in Lists : ToSet(l) \subseteq Pairs
    <2> SUFFICES ASSUME NEW l \in Lists PROVE ToSet(l) \subseteq Pairs  OBVIOUS
    <2>1. l \in Seq(Pairs)  BY ListsAre
    <2> QED  BY <2>1 DEF ToSet
  <1>4. "append" \in filters => \A p \in ToSet(remote.list) : active[p] >= remote.at
    BY DEF SelectInv, Dated
  <1>5. "append" \in filters => Staleness = RefreshPeriod  BY StalenessIs
  <1>6. CASE filters \intersect RemoteModes = {}
    <2>1. merged = narrow /\ remote' = remote  BY <1>6 DEF RemotePairList
    <2>2. "append" \notin filters  BY <1>6 DEF RemoteModes
    <2> QED  BY <1>2, <2>1, <2>2
  <1>7. CASE filters \intersect RemoteModes # {}
    <2>1. PICK pairs \in Lists :
            /\ RemoteList(pairs, markets)
            /\ merged = Top(IF "allow" \in filters THEN Only(narrow, ToSet(pairs))
                            ELSE IF "block" \in filters THEN Without(narrow, ToSet(pairs))
                            ELSE narrow \o Without(pairs, ToSet(narrow)))
      BY <1>7 DEF RemotePairList
    <2>2. /\ remote'.at \in Never..now /\ remote'.list \in Lists
          /\ "append" \in filters =>
               /\ \A p \in ToSet(remote'.list) : active'[p] >= remote'.at
               /\ \A p \in ToSet(pairs) : now - active'[p] <= Staleness
      <3>1. CASE MayHit(remote.at, RefreshPeriod) /\ remote.at # Never
                 /\ pairs = remote.list /\ remote' = remote
        <4>1. remote.at \in Nat /\ now - remote.at <= RefreshPeriod
          BY <1>1, <1>2, <3>1 DEF MayHit, Never
        <4>2. "append" \in filters => \A p \in ToSet(pairs) : p \in Pairs /\ active'[p] >= remote.at
          BY <1>1, <1>2, <1>3, <1>4, <3>1, <4>1
        <4>3. "append" \in filters => \A p \in ToSet(pairs) : now - active'[p] <= Staleness
          BY <1>1, <1>5, <4>1, <4>2, StalenessIs
        <4> QED  BY <1>2, <3>1, <4>2, <4>3
      <3>2. CASE /\ \/ pairs \in {Top(Only(l, markets)) : l \in Lists}
                    \/ pairs = Top(Only(remote.list, markets))
                 /\ remote' = [at |-> now, list |-> pairs]
        <4>1. PICK l \in Lists : pairs = Top(Only(l, markets))  BY <1>2, <3>2
        <4>2. Only(l, markets) \in Lists /\ ToSet(Only(l, markets)) \subseteq markets  BY OnlyIs
        <4>3. ToSet(pairs) \subseteq markets  BY <4>1, <4>2, TopIs
        <4>4. \A p \in ToSet(pairs) : active'[p] = now  BY <1>1, <4>3
        <4>5. now \in Never..now /\ now - now <= Staleness /\ now >= now
          BY <1>1, StalenessIs DEF Never
        <4>6. remote'.at = now /\ remote'.list = pairs  BY <3>2
        <4> QED  BY <4>4, <4>5, <4>6
      <3> QED  BY <2>1, <3>1, <3>2 DEF RemoteList
    <2>3. \A p \in ToSet(merged) :
            p \in ToSet(narrow) \/ ("append" \in filters /\ p \in ToSet(pairs))
      <3>1. \A S : /\ Only(narrow, S) \in Lists /\ ToSet(Only(narrow, S)) \subseteq ToSet(narrow)
                   /\ Without(narrow, S) \in Lists
                   /\ ToSet(Without(narrow, S)) \subseteq ToSet(narrow)
        BY OnlyIs
      <3>2. CASE "allow" \in filters
        <4>1. merged = Top(Only(narrow, ToSet(pairs)))  BY <2>1, <3>2
        <4> QED  BY <3>1, <4>1, TopIs
      <3>3. CASE "allow" \notin filters /\ "block" \in filters
        <4>1. merged = Top(Without(narrow, ToSet(pairs)))  BY <2>1, <3>3
        <4> QED  BY <3>1, <4>1, TopIs
      <3>4. CASE "allow" \notin filters /\ "block" \notin filters
        <4>1. merged = Top(narrow \o Without(pairs, ToSet(narrow)))  BY <2>1, <3>4
        <4>2. "append" \in filters  BY <1>7, <3>4 DEF RemoteModes
        <4>3. PICK new \in Lists : new = Without(pairs, ToSet(narrow))
                                   /\ ToSet(new) = ToSet(pairs) \ ToSet(narrow)
          BY OnlyIs
        <4>4. ToSet(narrow) \intersect ToSet(new) = {}  BY <4>3
        <4>5. narrow \o new \in Lists /\ ToSet(narrow \o new) = ToSet(narrow) \union ToSet(new)
          BY <4>4, JoinedLists
        <4>6. ToSet(merged) \subseteq ToSet(narrow) \union ToSet(new)  BY <4>1, <4>3, <4>5, TopIs
        <4> QED  BY <4>2, <4>3, <4>6
      <3> QED  BY <3>2, <3>3, <3>4
    <2>4. \A p \in ToSet(merged) : p \in ToSet(narrow)
            \/ ("append" \in filters /\ now - active'[p] <= Staleness)
      BY <2>2, <2>3
    <2>5. "append" \in filters => \A p \in ToSet(remote'.list) : active'[p] >= remote'.at
      BY <2>2
    <2>6. remote'.at \in Never..now /\ remote'.list \in Lists  BY <2>2
    <2> QED  BY <1>7, <2>4, <2>5, <2>6
  <1> QED  BY <1>6, <1>7

LEMMA RefreshStep ==
  ASSUME SelectInv, ClosesOK', Refresh
  PROVE  SelectInv'
  <1> DEFINE Caches(aged, narrow) ==
               shuffled' = Cached(aged, IF SlotsFull \/ filters \intersect RemoteModes # {}
                                        THEN narrow ELSE whitelist')
             Made(merged) == whitelist' = Extended(VerifyBlacklist(FullTradesFilter(merged)))
  <1>1. PICK markets \in SUBSET Pairs, first \in Lists, aged \in Lists, mixed \in Lists,
             merged \in Lists :
          /\ StaticPairList(first, markets) \/ VolumePairList(first, markets)
          /\ active' = [p \in Pairs |-> IF p \in markets THEN now ELSE active[p]]
          /\ AgeFilter(first, aged) /\ ShuffleFilter(aged, mixed)
          /\ RemotePairList(SpreadFilter(mixed), merged, markets)
          /\ Made(merged)
          /\ Caches(aged, SpreadFilter(mixed))
    BY DEF Refresh
  <1>2. /\ GetCachedTickers /\ asked' = now /\ traded' = Open
        /\ lingering' = IF "shuffle" \notin filters THEN {}
                        ELSE IF shuffled.candle = now THEN lingering \union Open ELSE Open
        /\ pc' = "manage" /\ UNCHANGED <<now, protections, config, trades>>
    BY DEF Refresh
  <1> HIDE DEF Caches, Made
  <1>3. now' = now /\ generator' = generator /\ filters' = filters /\ born' = born
        /\ trades' = trades
    BY <1>2 DEF config
  <1>4. Known(markets)  BY <1>1 DEF Known
  <1>5. /\ trades \in [Pairs -> {"none", "entering", "held"}] /\ Cardinality(Open) <= MaxOpen
        /\ shuffled.candle \in Never..now /\ DOMAIN shuffled.lists \subseteq Lists
        /\ \A l \in DOMAIN shuffled.lists : shuffled.lists[l] \in Lists
        /\ now \in Nat /\ lingering \subseteq Pairs
        /\ generator \in {"static", "volume"} /\ filters \subseteq Filters
        /\ born \in [Pairs -> Int]
    BY DEF SelectInv, WhitelistChosen, TypeOK, ProtectionsTyped, HistoryOK, ConfigOK
  <1>6. Open \subseteq Pairs /\ Open' = Open /\ Today' = Today /\ Staleness' = Staleness
        /\ (ClosesOK' => ProtectionsTyped')
    <2>1. Open \subseteq Pairs  BY DEF Open
    <2>2. Open' = Open  BY <1>3 DEF Open
    <2>3. Today' = Today  BY <1>3 DEF Today
    <2>4. Staleness' = Staleness  BY <1>3 DEF Staleness, CachesMarkets
    <2>5. ClosesOK' => ProtectionsTyped'  BY RecordsTyped, PTL
    <2> QED  BY <2>1, <2>2, <2>3, <2>4, <2>5
  <1>7. PICK narrow \in Lists :
          /\ narrow = SpreadFilter(mixed) /\ ToSet(narrow) \subseteq ToSet(mixed)
          /\ "spread" \in filters => ToSet(narrow) \intersect tickers'.wide = {}
    BY SpreadIs
  <1>8. /\ volume'.at \in Never..now /\ volume'.list \in Lists
        /\ generator = "volume" => \A p \in ToSet(volume'.list) : active'[p] >= volume'.at
        /\ \A p \in ToSet(first) : p \in Pairs /\ now - active'[p] <= Staleness
    BY <1>1, <1>4, Generated
  <1>9. /\ ToSet(aged) \subseteq ToSet(first)
        /\ checked' \subseteq Pairs /\ failed' \in [Pairs -> Never..Today]
        /\ \A p \in checked' : Today - born[p] >= MinDays
        /\ "age" \in filters => ToSet(aged) \subseteq checked'
    BY <1>1, AgeIs
  <1>10. /\ "shuffle" \notin filters => ToSet(mixed) = ToSet(aged)
         /\ ToSet(mixed) \subseteq ToSet(aged) \union lingering'
    <2>1. /\ "shuffle" \notin filters => ToSet(mixed) = ToSet(aged)
          /\ \/ ToSet(mixed) \subseteq ToSet(aged)
             \/ shuffled.candle = now /\ ToSet(mixed) \subseteq ToSet(aged) \union lingering
      BY <1>1, MixedIs
    <2> QED  BY <1>2, <2>1
  <1>11. tickers'.at \in Never..now /\ tickers'.wide \subseteq Pairs  BY <1>2, TickersAre
  <1>12. /\ remote'.at \in Never..now /\ remote'.list \in Lists
         /\ "append" \in filters => \A p \in ToSet(remote'.list) : active'[p] >= remote'.at
         /\ \A p \in ToSet(merged) : p \in ToSet(narrow)
              \/ ("append" \in filters /\ now - active'[p] <= Staleness)
         /\ filters \intersect RemoteModes = {} => merged = narrow
    BY <1>1, <1>4, <1>7, RemoteIs
  <1>13. active' \in [Pairs -> Never..now]  BY <1>4, KnownIs
  <1>14. PICK kept \in Lists :
           /\ kept = VerifyBlacklist(FullTradesFilter(merged))
           /\ ToSet(kept) \subseteq ToSet(merged) \ Blacklist
           /\ SlotsFull => ToSet(kept) = {}
    <2>1. PICK l \in Lists : l = FullTradesFilter(merged) /\ ToSet(l) \subseteq ToSet(merged)
                             /\ (SlotsFull => ToSet(l) = {})
      <3>1. <<>> \in Seq(Pairs) /\ IsInjective(<<>>)  BY DEF IsInjective
      <3>2. ToSet(<<>>) = {}  BY DEF ToSet
      <3>3. <<>> \in Lists  BY <3>1, ListsAre
      <3> QED  BY <3>2, <3>3 DEF FullTradesFilter
    <2>2. Without(l, Blacklist) \in Lists /\ ToSet(Without(l, Blacklist)) = ToSet(l) \ Blacklist
      BY OnlyIs
    <2> QED  BY <2>1, <2>2 DEF VerifyBlacklist
  <1>15. whitelist' \in Lists /\ ToSet(whitelist') = ToSet(kept) \union Open
    <2>1. PICK w : w = whitelist'  OBVIOUS
    <2>2. w = Extended(kept)  BY <1>1, <1>14, <2>1 DEF Made
    <2>3. w \in Lists /\ ToSet(w) = ToSet(kept) \union Open  BY <1>6, <2>2, ExtendedIs
    <2> QED  BY <2>1, <2>3
  <1>16. lingering' \subseteq Pairs  BY <1>2, <1>5, <1>6
  <1>17. /\ shuffled'.candle \in Never..now /\ DOMAIN shuffled'.lists \subseteq Lists
         /\ \A l \in DOMAIN shuffled'.lists : shuffled'.lists[l] \in Lists
         /\ Mixed'
    <2>1. CASE "shuffle" \notin filters
      <3>1. shuffled' = shuffled  BY <1>1, <2>1 DEF Caches, Cached
      <3>2. shuffled = NoLists  BY <2>1 DEF SelectInv, Mixed
      <3>3. shuffled.candle # now  BY <1>5, <3>2 DEF NoLists, Never
      <3>4. Mixed'  BY <1>3, <3>1, <3>2, <3>3 DEF Mixed
      <3> QED  BY <1>5, <3>1, <3>4
    <2>2. CASE "shuffle" \in filters
      <3>1. PICK list : list = (IF SlotsFull \/ filters \intersect RemoteModes # {}
                                THEN narrow ELSE whitelist')
        OBVIOUS
      <3>2. list \in Lists /\ ToSet(list) \subseteq ToSet(aged) \union lingering'
        <4>1. CASE list = narrow  BY <1>7, <1>10, <4>1
        <4>2. CASE list = whitelist' /\ filters \intersect RemoteModes = {}
          <5>1. ToSet(list) \subseteq ToSet(narrow) \union Open
            BY <1>12, <1>14, <1>15, <4>2
          <5>2. Open \subseteq lingering'  BY <1>2, <2>2
          <5> QED  BY <1>7, <1>10, <1>15, <4>2, <5>1, <5>2
        <4> QED  BY <3>1, <4>1, <4>2
      <3>3. PICK C : C = CachedLists  OBVIOUS
      <3>4. \A l \in DOMAIN C : /\ l \in Lists /\ C[l] \in Lists
                                /\ ToSet(C[l]) \subseteq ToSet(l) \union lingering'
        <4>1. CASE shuffled.candle = now
          <5>1. C = shuffled.lists  BY <3>3, <4>1 DEF CachedLists
          <5>2. \A l \in DOMAIN C : ToSet(C[l]) \subseteq ToSet(l) \union lingering
            BY <4>1, <5>1 DEF SelectInv, Mixed
          <5>3. lingering \subseteq lingering'  BY <1>2, <2>2, <4>1
          <5> QED  BY <1>5, <5>1, <5>2, <5>3
        <4>2. CASE shuffled.candle # now
          <5>1. DOMAIN C = {}  BY <3>3, <4>2 DEF CachedLists, NoLists
          <5> QED  BY <5>1
        <4> QED  BY <4>1, <4>2
      <3>5. PICK next : next = [l \in DOMAIN C \union {aged} |-> IF l = aged THEN list ELSE C[l]]
        OBVIOUS
      <3>6. shuffled' = [candle |-> now, lists |-> next]
        BY <1>1, <1>7, <2>2, <3>1, <3>3, <3>5 DEF Caches, Cached
      <3>7. shuffled'.candle = now /\ shuffled'.lists = next  BY <3>6
      <3>8. DOMAIN next \subseteq Lists  BY <1>1, <3>4, <3>5
      <3>9. \A l \in DOMAIN next : next[l] \in Lists
                                   /\ ToSet(next[l]) \subseteq ToSet(l) \union lingering'
        BY <3>2, <3>4, <3>5
      <3>10. now \in Never..now  BY <1>5 DEF Never
      <3>11. Mixed'  BY <1>3, <2>2, <3>7, <3>9 DEF Mixed
      <3> QED  BY <3>7, <3>8, <3>9, <3>10, <3>11
    <2> QED  BY <2>1, <2>2
  <1>18. TypeOK'
    BY <1>2, <1>3, <1>5, <1>6, <1>8, <1>9, <1>11, <1>12, <1>15, <1>17 DEF TypeOK
  <1>19. ASSUME NEW p \in ToSet(kept) PROVE Chosen(p)'
    <2>1. p \in ToSet(merged) /\ p \notin Blacklist /\ ~SlotsFull  BY <1>14
    <2>2. "full" \in filters => Cardinality(Open) < MaxOpen
      <3>1. Cardinality(Open) \in Nat /\ MaxOpen \in Nat  BY <1>6, PairsFinite, SelectionAssumption
      <3> QED  BY <2>1, <3>1 DEF SlotsFull
    <2>3. CASE p \in ToSet(narrow)
      <3>1. p \in ToSet(aged) \/ p \in lingering'  BY <1>7, <1>10, <2>3
      <3>2. "spread" \in filters => p \notin tickers'.wide  BY <1>7, <2>3
      <3>3. p \notin lingering' => now - active'[p] <= Staleness  BY <1>8, <1>9, <3>1
      <3>4. "age" \in filters /\ p \notin lingering' => (now \div Day) - born[p] >= MinDays
        BY <1>9, <3>1 DEF Today
      <3> QED  BY <1>2, <1>3, <1>6, <2>1, <2>2, <3>2, <3>3, <3>4 DEF Chosen, Lingers
    <2>4. CASE "append" \in filters /\ now - active'[p] <= Staleness
      BY <1>2, <1>3, <1>6, <2>1, <2>2, <2>4 DEF Chosen, Lingers
    <2> QED  BY <1>12, <2>1, <2>3, <2>4
  <1>20. WhitelistChosen'
    <2>1. \A p \in ToSet(whitelist') : p \in traded' \/ Chosen(p)'  BY <1>2, <1>15, <1>19
    <2>2. Open' \subseteq ToSet(whitelist')  BY <1>6, <1>15
    <2> QED  BY <1>18, <2>1, <2>2 DEF WhitelistChosen
  <1>21. ConfigOK'  BY <1>3, <1>5 DEF ConfigOK
  <1>22. HistoryOK'  BY <1>2, <1>3, <1>5, <1>6, <1>13, <1>16 DEF HistoryOK
  <1>23. Aged'  BY <1>3, <1>6, <1>9 DEF Aged
  <1>24. Dated'  BY <1>3, <1>8, <1>12 DEF Dated
  <1> QED  BY <1>17, <1>20, <1>21, <1>22, <1>23, <1>24 DEF SelectInv

LEMMA SelectStep ==
  ASSUME SelectInv, ClosesOK, Pending, [Next]_vars
  PROVE  SelectInv'
  <1>1. ClosesOK'  BY RecordsStep
  <1>2. CASE Tick  BY <1>1, <1>2, TickStep
  <1>3. CASE Refresh  BY <1>1, <1>3, RefreshStep
  <1>4. CASE \E pair \in Pairs :
               EntryFills(pair) \/ CancelEntry(pair) \/ CloseTrade(pair) \/ Enter(pair)
    BY <1>1, <1>4, TradesStep
  <1>5. CASE \/ RemoteMissing \/ ManageDone \/ AutoLock \/ HandleProtections \/ ExitsDone
             \/ EntriesDone \/ Crash \/ UNCHANGED vars
    BY <1>1, <1>5, ControlStep
  <1> QED  BY <1>2, <1>3, <1>4, <1>5 DEF Next

\* In every iteration entries are taken from pairs that are not blacklisted, of
\* markets that were active, whose spread was narrow and that are old enough, and
\* none is missing that has a trade: whatever the caches of the pairlist handlers
\* hold and however often the bot is started again (refresh_pairlist).
THEOREM WhitelistStaysChosen == Spec => []WhitelistChosen
  <1>1. Init => SelectInv /\ ClosesOK /\ Pending  BY SelectStart, RecordsStart
  <1>2. SelectInv /\ ClosesOK /\ Pending /\ [Next]_vars => (SelectInv /\ ClosesOK /\ Pending)'
    BY SelectStep, RecordsStep
  <1>3. SelectInv => WhitelistChosen  BY DEF SelectInv
  <1> QED  BY <1>1, <1>2, <1>3, PTL DEF Spec

-----------------------------------------------------------------------------
(* The protections *)

LEMMA ProfitsTyped ==
  ASSUME ClosesOK, NEW S \in SUBSET DOMAIN closed
  PROVE  IsFiniteSet(S) /\ Cardinality(S) \in Nat /\ Summable(Profits, S)
  <1>1. DOMAIN closed = 1..Len(closed) /\ Len(closed) \in Nat  BY DEF ClosesOK
  <1>2. IsFiniteSet(1..Len(closed))  BY <1>1, FS_Interval
  <1>3. IsFiniteSet(S)  BY <1>1, <1>2, FS_Subset
  <1>4. \A i \in S : Profits[i] \in Int  BY DEF Profits
  <1> QED  BY <1>3, <1>4, FS_CardinalityType DEF Summable

LEMMA ProfitsAreSum ==
  ASSUME ClosesOK, NEW S \in SUBSET DOMAIN closed
  PROVE  MapThenSumSet(Profit, S) = SumOver(Profits, S)
  <1> DEFINE Eq(g) == g = [T \in SUBSET S |->
               IF T = {} THEN 0
               ELSE LET x == CHOOSE x \in T : TRUE IN Profit(x) + g[T \ {x}]]
  <1>1. \A g : Eq(g) <=> Adds(g, Profits, S)
    <2>1. \A T \in SUBSET S : T # {} => Pick(T) \in DOMAIN closed  BY DEF Pick
    <2>2. \A T \in SUBSET S : T # {} => Profits[Pick(T)] = Profit(CHOOSE x \in T : TRUE)
      BY <2>1 DEF Pick, Profits, Profit
    <2> QED  BY <2>2 DEF Adds, Pick
  <1>2. Summable(Profits, S)  BY ProfitsTyped
  <1>3. \E g : Eq(g)
    <2> HIDE DEF Eq
    <2> QED  BY <1>1, <1>2, SumExists
  <1>4. Adds(CHOOSE g : Eq(g), Profits, S)  BY <1>1, <1>3
  <1>5. MapThenSumSet(Profit, S) = (CHOOSE g : Eq(g))[S]
    BY DEF MapThenSumSet, MapThenFoldSet
  <1> HIDE DEF Eq
  <1> QED  BY <1>2, <1>4, <1>5, SumIs

LEMMA LosesIs ==
  ASSUME ClosesOK, NEW S \in SUBSET DOMAIN closed
  PROVE  LosesInARow(S, MaxAllowed) => LostIn(Profits, S)
  <1> SUFFICES ASSUME LosesInARow(S, MaxAllowed) PROVE LostIn(Profits, S)  OBVIOUS
  <1>1. PICK a \in S, b \in S : MapThenSumSet(Profit, {j \in S : a <= j /\ j <= b}) < -MaxAllowed
    BY DEF LosesInARow
  <1>2. PICK T \in SUBSET DOMAIN closed : T = {j \in S : a <= j /\ j <= b}  OBVIOUS
  <1>3. MapThenSumSet(Profit, T) = SumOver(Profits, T)  BY ProfitsAreSum
  <1>4. MapThenSumSet(Profit, {j \in S : a <= j /\ j <= b}) = MapThenSumSet(Profit, T)
    BY <1>2
  <1>5. SumOver(Profits, {j \in S : a <= j /\ j <= b}) < -MaxAllowed
    BY <1>1, <1>2, <1>3, <1>4
  <1> QED  BY <1>5 DEF LostIn

LEMMA SameLosses ==
  ASSUME NEW f, NEW g, NEW S, Summable(f, S), \A x \in S : f[x] = g[x], LostIn(g, S)
  PROVE  LostIn(f, S)
  <1>1. PICK a \in S, b \in S : SumOver(g, {j \in S : a <= j /\ j <= b}) < -MaxAllowed
    BY DEF LostIn
  <1>2. PICK T \in SUBSET S : T = {j \in S : a <= j /\ j <= b}  OBVIOUS
  <1>3. Summable(f, T)  BY SumSubset
  <1>4. SumOver(f, T) = SumOver(g, T)  BY <1>2, <1>3, SumCongruence
  <1> QED  BY <1>1, <1>2, <1>4 DEF LostIn

\* The sum at the end of losses in a row lies below the one before them, so
\* they are part of a drawdown, whatever older trades were found with them.
LEMMA DrawdownSeen ==
  ASSUME ClosesOK, NEW F \in SUBSET DOMAIN closed, NEW S \in SUBSET F,
         \A e \in F \ S, i \in S : e < i, LostIn(Profits, S)
  PROVE  F # {} /\ DrawdownAbs(F) > MaxAllowed
  <1>1. \A i \in DOMAIN closed : i \in Nat  BY DEF ClosesOK
  <1>2. PICK a \in S, b \in S : SumOver(Profits, {j \in S : a <= j /\ j <= b}) < -MaxAllowed
    BY DEF LostIn
  <1>3. a \in Nat /\ b \in Nat /\ MaxAllowed \in Nat /\ b \in F  BY <1>1, LimitsAssumption
  <1>4. PICK row \in SUBSET F : row = {j \in S : a <= j /\ j <= b}  OBVIOUS
  <1>5. PICK before \in SUBSET F : before = {j \in F : j < a /\ j <= b}  OBVIOUS
  <1>6. \A T \in SUBSET F : /\ IsFiniteSet(T) /\ Summable(Profits, T)
                            /\ SumOver(Profits, T) \in Int
                            /\ MapThenSumSet(Profit, T) = SumOver(Profits, T)
    BY ProfitsTyped, ProfitsAreSum, SumType
  <1>7. \A i \in F : Cumulative(F, i) = SumOver(Profits, {j \in F : j <= i})
    BY <1>6 DEF Cumulative
  <1>8. PICK r \in Int : r = SumOver(Profits, row) /\ r < -MaxAllowed  BY <1>2, <1>4, <1>6
  <1>9. PICK p \in Int : p = SumOver(Profits, before)  BY <1>6
  <1>10. Cumulative(F, b) = p + r
    <2>1. {j \in F : j <= b} = before \union row
      <3>1. \A j \in F : j <= b => j \in before \/ j \in row
        <4> SUFFICES ASSUME NEW j \in F, j <= b, ~ (j < a) PROVE j \in row
          BY <1>5
        <4>1. j \in Nat  BY <1>1
        <4>2. j \in S  BY <1>3, <4>1
        <4> QED  BY <1>3, <1>4, <4>1, <4>2
      <3> QED  BY <1>4, <1>5, <3>1
    <2>2. before \intersect row = {}
      <3>1. \A j \in F : j \in Nat  BY <1>1
      <3> QED  BY <1>3, <1>4, <1>5, <3>1
    <2>3. SumOver(Profits, before \union row) = p + r
      BY <1>6, <1>8, <1>9, <2>2, SumUnion
    <2> QED  BY <1>3, <1>7, <2>1, <2>3
  <1>11. PICK H : H = {0} \union {Cumulative(F, j) : j \in {k \in F : k <= b}}  OBVIOUS
  <1>12. IsFiniteSet(H) /\ (\A x \in H : x \in Int) /\ H # {}
    <2> DEFINE up == {k \in F : k <= b}
               c == [j \in up |-> Cumulative(F, j)]
    <2>1. IsFiniteSet(up)  BY <1>6
    <2>2. PICK V : V = {Cumulative(F, j) : j \in up}  OBVIOUS
    <2>3. V = {c[j] : j \in up}  BY <2>2
    <2>4. \A x \in V : x \in Int
      <3>1. \A i \in F : {j \in F : j <= i} \in SUBSET F  OBVIOUS
      <3>2. \A i \in F : Cumulative(F, i) \in Int  BY <1>6, <1>7, <3>1
      <3> QED  BY <2>2, <3>2
    <2>5. H = {0} \union V  BY <1>11, <2>2
    <2> HIDE DEF c, up
    <2>6. IsFiniteSet(V)  BY <2>1, <2>3, ImageFinite
    <2>7. IsFiniteSet(H)  BY <2>5, <2>6, FS_Singleton, FS_Union
    <2> QED  BY <2>4, <2>5, <2>7
  <1>13. PICK high \in Int : high = Max(H) /\ \A x \in H : x <= high
    BY <1>12, MaxOfFinite
  <1>14. high = HighValue(F, b)  BY <1>11, <1>13 DEF HighValue
  <1>15. high >= p
    <2>1. CASE before = {}
      <3>1. p = 0  BY <1>9, <2>1, SumEmpty
      <3>2. 0 \in H  BY <1>11
      <3> QED  BY <1>13, <3>1, <3>2
    <2>2. CASE before # {}
      <3>1. IsFiniteSet(before) /\ \A x \in before : x \in Int  BY <1>1, <1>6
      <3>2. PICK c \in before : \A x \in before : x <= c  BY <2>2, <3>1, MaxOfFinite
      <3>3. c \in F /\ c < a /\ c <= b /\ c \in Nat  BY <1>1, <1>5, <3>2
      <3>4. {j \in F : j <= c} = before
        <4>1. \A j \in F : j <= c => j \in before
          <5> SUFFICES ASSUME NEW j \in F, j <= c PROVE j < a /\ j <= b
            BY <1>5
          <5>1. j \in Nat  BY <1>1
          <5> QED  BY <1>3, <3>3, <5>1
        <4> QED  BY <1>5, <3>2, <4>1
      <3>5. Cumulative(F, c) = p  BY <1>7, <1>9, <3>3, <3>4
      <3>6. p \in H  BY <1>11, <3>3, <3>5
      <3> QED  BY <1>13, <3>6
    <2> QED  BY <2>1, <2>2
  <1>16. PICK D : D = {0} \union {HighValue(F, i) - Cumulative(F, i) : i \in F}  OBVIOUS
  <1>17. IsFiniteSet(D) /\ (\A x \in D : x \in Int) /\ D # {}
    <2> DEFINE c == [i \in F |-> HighValue(F, i) - Cumulative(F, i)]
    <2>1. PICK V : V = {HighValue(F, i) - Cumulative(F, i) : i \in F}  OBVIOUS
    <2>2. V = {c[i] : i \in F}  BY <2>1
    <2>3. D = {0} \union V  BY <1>16, <2>1
    <2> HIDE DEF c
    <2>4. IsFiniteSet(V)  BY <1>6, <2>2, ImageFinite
    <2>5. IsFiniteSet(D)  BY <2>3, <2>4, FS_Singleton, FS_Union
    <2>6. \A i \in F : HighValue(F, i) - Cumulative(F, i) \in Int
      <3> SUFFICES ASSUME NEW i \in F PROVE HighValue(F, i) - Cumulative(F, i) \in Int
        OBVIOUS
      <3>1. \A k \in F : {j \in F : j <= k} \in SUBSET F  OBVIOUS
      <3>2. \A k \in F : Cumulative(F, k) \in Int  BY <1>6, <1>7, <3>1
      <3> DEFINE up == {k \in F : k <= i}
                 d == [j \in up |-> Cumulative(F, j)]
      <3>3. IsFiniteSet(up)  BY <1>6
      <3>4. PICK W : W = {Cumulative(F, j) : j \in up}  OBVIOUS
      <3>5. W = {d[j] : j \in up}  BY <3>4
      <3>6. \A x \in W : x \in Int  BY <3>2, <3>4
      <3>7. HighValue(F, i) = Max({0} \union W)  BY <3>4 DEF HighValue
      <3> HIDE DEF d, up
      <3>8. IsFiniteSet(W)  BY <3>3, <3>5, ImageFinite
      <3>9. IsFiniteSet({0} \union W)  BY <3>8, FS_Singleton, FS_Union
      <3>10. Max({0} \union W) \in {0} \union W  BY <3>6, <3>9, MaxOfFinite
      <3>11. Max({0} \union W) \in Int  BY <3>6, <3>10
      <3> QED  BY <3>2, <3>7, <3>11
    <2> QED  BY <2>1, <2>3, <2>5, <2>6
  <1>18. \A x \in D : x <= Max(D) /\ Max(D) \in Int  BY <1>17, MaxOfFinite
  <1>19. high - (p + r) \in D  BY <1>3, <1>10, <1>14, <1>16
  <1>20. DrawdownAbs(F) = Max(D)  BY <1>16 DEF DrawdownAbs
  <1>21. high - (p + r) > MaxAllowed  BY <1>3, <1>8, <1>9, <1>13, <1>15
  <1> QED  BY <1>3, <1>17, <1>18, <1>19, <1>20, <1>21

LEMMA BehindIs ==
  ASSUME ClosesOK, NEW i \in DOMAIN closed
  PROVE  /\ Behind(i) \subseteq 1..i /\ 1..i \subseteq DOMAIN closed
         /\ PairStops(i) \subseteq 1..i /\ AllStops(i) \subseteq 1..i
         /\ i \in Nat
  <1>1. DOMAIN closed = 1..Len(closed) /\ Len(closed) \in Nat  BY DEF ClosesOK
  <1>2. i \in Nat /\ 1..i \subseteq DOMAIN closed  BY <1>1
  <1>3. Behind(i) \subseteq 1..i  BY DEF Behind
  <1>4. PairStops(i) \subseteq Behind(i) /\ AllStops(i) \subseteq Behind(i)
    BY DEF PairStops, AllStops, Stops, OfPair
  <1> QED  BY <1>2, <1>3, <1>4

\* What was locked after a close stays locked.
LEMMA StaysStopped ==
  ASSUME ClosesOK, ClosesOK', handlers' = handlers, NEW i \in DOMAIN closed, i \in DOMAIN closed',
         \A j \in 1..i : /\ closed'[j].pair = closed[j].pair /\ closed'[j].at = closed[j].at
                         /\ closed'[j].outcome = closed[j].outcome,
         closed'[i].handled = closed[i].handled,
         \A x \in Pairs \union {All} : lock_end'[x] >= lock_end[x]
  PROVE  (PairStopped(i) => PairStopped(i)') /\ (AllStopped(i) => AllStopped(i)')
  <1>1. /\ Behind(i) \subseteq 1..i /\ 1..i \subseteq DOMAIN closed
        /\ PairStops(i) \subseteq 1..i /\ AllStops(i) \subseteq 1..i /\ i \in Nat
    BY BehindIs
  <1>2. i \in 1..i \/ i = 0  BY <1>1
  <1>3. DOMAIN closed = 1..Len(closed) /\ Len(closed) \in Nat
        /\ DOMAIN closed' = 1..Len(closed') /\ Len(closed') \in Nat
    BY DEF ClosesOK
  <1>4. i \in 1..i /\ 1..i \subseteq DOMAIN closed'  BY <1>1, <1>3
  <1>5. closed'[i].pair = closed[i].pair /\ closed'[i].at = closed[i].at  BY <1>4
  <1>6. Behind(i)' = Behind(i)  BY <1>4 DEF Behind
  <1>7. AllStops(i)' = AllStops(i)
    <2>1. AllStops(i)' = {j \in Behind(i) : closed'[j].outcome = "stop"}
      BY <1>6 DEF AllStops, Stops
    <2> QED  BY <1>1, <2>1 DEF AllStops, Stops
  <1>8. PairStops(i)' = PairStops(i)
    <2>1. PairStops(i)' = {j \in {j \in Behind(i) : closed'[j].pair = closed'[i].pair} :
                             closed'[j].outcome = "stop"}
      BY <1>6 DEF PairStops, Stops, OfPair
    <2>2. PairStops(i) = {j \in {j \in Behind(i) : closed[j].pair = closed[i].pair} :
                            closed[j].outcome = "stop"}
      BY DEF PairStops, Stops, OfPair
    <2> QED  BY <1>1, <1>5, <2>1, <2>2
  <1>9. PICK S \in SUBSET (1..i) : S = Behind(i)  BY <1>1
  <1>10. LostIn(Profits', S) => LostIn(Profits, S)
    <2>1. S \subseteq DOMAIN closed /\ S \subseteq DOMAIN closed'  BY <1>1, <1>4
    <2>2. Summable(Profits, S)  BY <2>1, ProfitsTyped
    <2>3. \A j \in S : Profits[j] = Profits'[j]  BY <2>1 DEF Profits
    <2>4. PICK g : g = Profits'  OBVIOUS
    <2> HIDE DEF Profits
    <2> QED  BY <2>2, <2>3, <2>4, SameLosses
  <1>11. closed[i].pair \in Pairs /\ All \in Pairs \union {All}  BY CloseIs
  <1>12. /\ \A x \in Pairs \union {All} : lock_end'[x] \in Nat /\ lock_end[x] \in Nat
         /\ \A j \in 1..i : closed[j].at \in Nat
         /\ StopDuration \in Nat /\ Cooldown \in Nat
    BY <1>1, CloseIs, LimitsAssumption DEF ClosesOK
  <1>13. \A u \in Nat : /\ IsGlobalLock(u) => IsGlobalLock(u)'
                        /\ IsPairLocked(closed[i].pair, u) => IsPairLocked(closed[i].pair, u)'
    <2> SUFFICES ASSUME NEW u \in Nat
                 PROVE  /\ IsGlobalLock(u) => IsGlobalLock(u)'
                        /\ IsPairLocked(closed[i].pair, u) => IsPairLocked(closed[i].pair, u)'
      OBVIOUS
    <2>1. IsGlobalLock(u) => IsGlobalLock(u)'  BY <1>11, <1>12 DEF IsGlobalLock
    <2>2. lock_end[closed[i].pair] > u => lock_end'[closed'[i].pair] > u  BY <1>5, <1>11, <1>12
    <2> QED  BY <2>1, <2>2 DEF IsPairLocked
  <1>14. \A j \in 1..i : closed[j].at + StopDuration \in Nat /\ closed[j].at + Cooldown \in Nat
    BY <1>12
  <1>15. ASSUME PairStopped(i) PROVE PairStopped(i)'
    <2>1. /\ "StoplossGuard" \in handlers /\ Cardinality(PairStops(i)) >= TradeLimit
             => \A j \in PairStops(i) : IsPairLocked(closed[i].pair, closed[j].at + StopDuration)'
          /\ "CooldownPeriod" \in handlers /\ i \in Behind(i)
             => IsPairLocked(closed[i].pair, closed[i].at + Cooldown)'
      <3>1. PICK T \in SUBSET (1..i) : T = PairStops(i)  BY <1>1
      <3>2. PICK p \in Pairs : p = closed[i].pair /\ p = closed'[i].pair  BY <1>5, <1>11
      <3>3. \A u \in Nat : IsPairLocked(p, u) => IsPairLocked(p, u)'
        BY <1>13, <3>2 DEF IsPairLocked, IsGlobalLock
      <3>4. \A j \in 1..i : closed'[j].at = closed[j].at  OBVIOUS
      <3>5. "StoplossGuard" \in handlers /\ Cardinality(T) >= TradeLimit
             => \A j \in T : IsPairLocked(p, closed[j].at + StopDuration)
        BY <1>15, <3>1, <3>2 DEF PairStopped
      <3>6. "CooldownPeriod" \in handlers /\ i \in Behind(i)
             => IsPairLocked(p, closed[i].at + Cooldown)
        BY <1>15, <3>2 DEF PairStopped
      <3> QED  BY <1>4, <1>12, <1>14, <3>1, <3>2, <3>3, <3>4, <3>5, <3>6
                  DEF IsPairLocked, IsGlobalLock
    <2> QED  BY <1>4, <1>5, <1>6, <1>8, <2>1 DEF PairStopped, IsPairLocked, IsGlobalLock
  <1>16. ASSUME AllStopped(i) PROVE AllStopped(i)'
    <2>1. PICK T \in SUBSET (1..i) : T = AllStops(i)  BY <1>1
    <2>2. "StoplossGuard" \in handlers /\ Cardinality(T) >= TradeLimit
             => \A j \in T : lock_end'[All] > closed'[j].at + StopDuration
      <3>1. "StoplossGuard" \in handlers /\ Cardinality(T) >= TradeLimit
             => \A j \in T : IsGlobalLock(closed[j].at + StopDuration)
        BY <1>16, <2>1 DEF AllStopped
      <3>2. \A j \in T : /\ closed'[j].at = closed[j].at
                         /\ closed[j].at + StopDuration \in Nat
        BY <1>14
      <3> QED  BY <1>13, <3>1, <3>2 DEF IsGlobalLock
    <2>3. "MaxDrawdown" \in handlers /\ LostIn(Profits', S)
             => \A j \in S : lock_end'[All] > closed'[j].at + StopDuration
      <3>1. "MaxDrawdown" \in handlers /\ LostIn(Profits, S)
             => \A j \in S : IsGlobalLock(closed[j].at + StopDuration)
        BY <1>9, <1>16 DEF AllStopped
      <3>2. \A j \in S : /\ closed'[j].at = closed[j].at
                         /\ closed[j].at + StopDuration \in Nat
        BY <1>14
      <3> QED  BY <1>10, <1>13, <3>1, <3>2 DEF IsGlobalLock
    <2>4. AllStops(i)' = T /\ Behind(i)' = S  BY <1>6, <1>7, <1>9, <2>1
    <2>5. LostIn(Profits, Behind(i))' => LostIn(Profits', S)
      <3> HIDE DEF Profits, Behind
      <3> QED  BY <2>4 DEF LostIn
    <2> HIDE DEF Profits, LostIn
    <2> QED  BY <2>2, <2>3, <2>4, <2>5 DEF AllStopped, IsGlobalLock
  <1> QED  BY <1>15, <1>16

\* All that the handlers asked for is locked, for all pairs if they came so far.
LEMMA LocksMade ==
  ASSUME ClosesOK, Pending, HandleProtections
  PROVE  \E edge \in Edges :
           /\ \A u \in StopPerPair(OfPair(Found(edge), leaving)) :
                lock_end'[leaving] > u \/ lock_end'[All] > u
           /\ Reached("pair") \/
                (Reached("all") /\ \A u \in GlobalStop(Found(edge)) : lock_end'[All] > u)
  <1>1. PICK edge \in Edges :
          \/ StopsNothing(Found(edge)) \/ StopsPair(Found(edge)) \/ StopsAll(Found(edge))
    BY DEF HandleProtections
  <1>2. leaving \in Pairs /\ All \in Pairs \union {All}  BY DEF HandleProtections, Pending
  <1>3. PICK F \in SUBSET DOMAIN closed : F = Found(edge)  BY FoundIs
  <1>4. PICK own \in SUBSET DOMAIN closed : own = OfPair(F, leaving)  BY <1>3 DEF OfPair
  <1>5. /\ IsFiniteSet(StopPerPair(own)) /\ StopPerPair(own) \subseteq Nat
        /\ IsFiniteSet(GlobalStop(F)) /\ GlobalStop(F) \subseteq Nat
    BY StopsAre
  <1>6. \A x \in Pairs \union {All} : lock_end'[x] >= lock_end[x]  BY HandlersStep
  <1>7. \A x \in Pairs \union {All} : lock_end'[x] \in Nat /\ lock_end[x] \in Nat
    <2>1. ClosesOK'  BY HandlersStep
    <2> QED  BY <2>1 DEF ClosesOK
  <1>8. PICK U : U = NewPairLocks(leaving, F)  OBVIOUS
  <1>9. PICK G : G = NewGlobalLocks(F)  OBVIOUS
  <1>10. /\ U = {u \in StopPerPair(own) : ~ (lock_end[leaving] > u \/ lock_end[All] > u)}
         /\ G = {u \in GlobalStop(F) : ~ (lock_end[All] > u)}
    BY <1>4, <1>8, <1>9 DEF NewPairLocks, NewGlobalLocks, IsPairLocked, IsGlobalLock
  <1>11. U \in SUBSET Nat /\ IsFiniteSet(U) /\ G \in SUBSET Nat /\ IsFiniteSet(G)
    BY <1>5, <1>10, FS_Subset
  <1>12. \A u \in StopPerPair(own) \ U : lock_end'[leaving] > u \/ lock_end'[All] > u
    <2> SUFFICES ASSUME NEW u \in StopPerPair(own), u \notin U
                 PROVE  lock_end'[leaving] > u \/ lock_end'[All] > u
      OBVIOUS
    <2>1. u \in Nat /\ (lock_end[leaving] > u \/ lock_end[All] > u)  BY <1>5, <1>10
    <2> QED  BY <1>2, <1>6, <1>7, <2>1
  <1>13. \A u \in GlobalStop(F) \ G : lock_end'[All] > u
    <2> SUFFICES ASSUME NEW u \in GlobalStop(F), u \notin G PROVE lock_end'[All] > u
      OBVIOUS
    <2>1. u \in Nat /\ lock_end[All] > u  BY <1>5, <1>10
    <2> QED  BY <1>2, <1>6, <1>7, <2>1
  <1>14. CASE StopsNothing(F)
    <2>1. U = {} /\ G = {} /\ Reached("all")  BY <1>8, <1>9, <1>14 DEF StopsNothing
    <2> QED  BY <1>3, <1>4, <1>12, <1>13, <2>1
  <1>15. CASE StopsPair(F)
    <2>1. lock_end' = LockPair(leaving, U) /\ Reached("pair")  BY <1>8, <1>15 DEF StopsPair
    <2>2. \A u \in U : lock_end'[leaving] > u  BY <1>2, <1>11, <2>1, LockPairIs
    <2>3. \A u \in StopPerPair(own) : lock_end'[leaving] > u \/ lock_end'[All] > u
      BY <1>12, <2>2
    <2> QED  BY <1>3, <1>4, <2>1, <2>3
  <1>16. CASE StopsAll(F)
    <2>1. U = {} /\ lock_end' = LockPair(All, G) /\ Reached("all")
      BY <1>8, <1>9, <1>16 DEF StopsAll
    <2>2. \A u \in G : lock_end'[All] > u  BY <1>2, <1>11, <2>1, LockPairIs
    <2>3. \A u \in GlobalStop(F) : lock_end'[All] > u  BY <1>13, <2>2
    <2> QED  BY <1>3, <1>4, <1>12, <2>1, <2>3
  <1> QED  BY <1>1, <1>3, <1>14, <1>15, <1>16

LEMMA LastStopped ==
  ASSUME ClosesOK, Pending, HandleProtections, NEW n \in DOMAIN closed, n = Len(closed)
  PROVE  PairStopped(n)' /\ (closed'[n].stage = "all" => AllStopped(n)')
  <1>1. DOMAIN closed = 1..n /\ n \in Nat /\ now \in Nat  BY DEF ClosesOK
  <1>2. PICK edge \in Edges :
          /\ \A u \in StopPerPair(OfPair(Found(edge), leaving)) :
               lock_end'[leaving] > u \/ lock_end'[All] > u
          /\ Reached("pair") \/
               (Reached("all") /\ \A u \in GlobalStop(Found(edge)) : lock_end'[All] > u)
    BY LocksMade
  <1>3. now' = now /\ handlers' = handlers /\ "pair" \in Stages /\ "all" \in Stages
    BY HandlersStep DEF Stages
  <1>4. closed[n].pair = leaving /\ leaving \in Pairs
    BY <1>1 DEF HandleProtections, Pending
  <1>5. /\ DOMAIN closed' = DOMAIN closed
        /\ \A i \in DOMAIN closed :
             /\ closed'[i].pair = closed[i].pair /\ closed'[i].at = closed[i].at
             /\ closed'[i].outcome = closed[i].outcome
        /\ closed'[n].handled = now
        /\ Reached("pair") => closed'[n].stage = "pair"
    BY <1>2, <1>3, ReachedIs
  <1>6. PICK F \in SUBSET DOMAIN closed : F = Found(edge)  BY FoundIs
  <1>7. PICK B \in SUBSET DOMAIN closed :
          B = {j \in DOMAIN closed : now - closed[j].at < Lookback}
    OBVIOUS
  <1>8. B \subseteq F /\ Lookback \in Nat /\ \A e \in F \ B : now - closed[e].at = Lookback
    BY <1>6, <1>7, LimitsAssumption DEF Found, Edges
  <1>9. Behind(n)' = B  BY <1>1, <1>5, <1>7 DEF Behind
  <1>10. \A e \in F \ B, i \in B : e < i
    <2> SUFFICES ASSUME NEW e \in F \ B, NEW i \in B, i <= e PROVE FALSE
      BY <1>1
    <2>1. closed[i].at <= closed[e].at  BY DEF ClosesOK
    <2>2. now - closed[e].at = Lookback /\ now - closed[i].at < Lookback  BY <1>7, <1>8
    <2>3. closed[i].at \in Nat /\ closed[e].at \in Nat  BY CloseIs
    <2> QED  BY <1>1, <1>8, <2>1, <2>2, <2>3
  <1>11. StopDuration \in Nat /\ Cooldown \in Nat /\ TradeLimit \in Nat \ {0}
         /\ \A i \in DOMAIN closed : closed[i].at \in Nat
    BY CloseIs, LimitsAssumption
  <1>12. \A x \in Pairs \union {All} : lock_end'[x] \in Nat
    <2>1. ClosesOK'  BY HandlersStep
    <2> QED  BY <2>1 DEF ClosesOK
  <1>13. All \in Pairs \union {All} /\ Cardinality({}) = 0  BY FS_EmptySet
  <1>14. \A S, T \in SUBSET DOMAIN closed : S \subseteq T => Cardinality(S) <= Cardinality(T)
                        /\ Cardinality(S) \in Nat /\ Cardinality(T) \in Nat
    BY ProfitsTyped, FS_Subset
  <1>15. PairStopped(n)'
    <2>1. PICK own \in SUBSET DOMAIN closed : own = OfPair(F, leaving)  BY <1>6 DEF OfPair
    <2>2. PICK S \in SUBSET own : S = Stops(own)  BY DEF Stops
    <2>3. PICK T \in SUBSET S : T = PairStops(n)'
      <3>1. PairStops(n)' = {j \in {j \in B : closed'[j].pair = closed'[n].pair} :
                               closed'[j].outcome = "stop"}
        BY <1>9 DEF PairStops, Stops, OfPair
      <3>2. PairStops(n)' = {j \in {j \in B : closed[j].pair = leaving} :
                               closed[j].outcome = "stop"}
        BY <1>4, <1>5, <3>1
      <3>3. S = {j \in {j \in F : closed[j].pair = leaving} : closed[j].outcome = "stop"}
        BY <2>1, <2>2 DEF Stops, OfPair
      <3> QED  BY <1>8, <3>2, <3>3
    <2>4. \A u \in StopPerPair(own) : lock_end'[leaving] > u \/ lock_end'[All] > u
      BY <1>2, <1>6, <2>1
    <2>5. ASSUME "StoplossGuard" \in handlers, Cardinality(T) >= TradeLimit, NEW j \in T
          PROVE  lock_end'[leaving] > closed[j].at + StopDuration
                 \/ lock_end'[All] > closed[j].at + StopDuration
      <3>1. Cardinality(S) >= TradeLimit  BY <1>11, <1>14, <2>5
      <3>2. PICK u \in Nat : u = CalculateLockEnd(S, StopDuration)
                             /\ \A i \in S : closed[i].at + StopDuration <= u
        BY <1>11, <2>5, LockEndIs
      <3>3. u \in StopPerPair(own)
        BY <2>2, <2>5, <3>1, <3>2 DEF StopPerPair, StoplossGuard
      <3>4. closed[j].at + StopDuration <= u /\ closed[j].at + StopDuration \in Nat
        BY <1>11, <3>2
      <3> QED  BY <1>4, <1>12, <1>13, <2>4, <3>2, <3>3, <3>4
    <2>6. ASSUME "CooldownPeriod" \in handlers, n \in B
          PROVE  lock_end'[leaving] > closed[n].at + Cooldown
                 \/ lock_end'[All] > closed[n].at + Cooldown
      <3>1. n \in own  BY <1>4, <1>8, <2>1, <2>6 DEF OfPair
      <3>2. PICK u \in Nat : u = CalculateLockEnd(own, Cooldown)
                             /\ \A i \in own : closed[i].at + Cooldown <= u
        BY <1>11, <3>1, LockEndIs
      <3>3. u \in StopPerPair(own)
        BY <2>6, <3>1, <3>2 DEF StopPerPair, CooldownPeriod
      <3>4. closed[n].at + Cooldown <= u /\ closed[n].at + Cooldown \in Nat
        BY <1>11, <3>1, <3>2
      <3> QED  BY <1>4, <1>12, <1>13, <2>4, <3>2, <3>3, <3>4
    <2>7. closed'[n].pair = leaving /\ closed'[n].at = closed[n].at
          /\ \A j \in T : closed'[j].at = closed[j].at
      BY <1>4, <1>5
    <2> QED  BY <1>3, <1>9, <2>3, <2>5, <2>6, <2>7 DEF PairStopped, IsPairLocked, IsGlobalLock
  <1>16. ASSUME closed'[n].stage = "all" PROVE AllStopped(n)'
    <2>1. \A u \in GlobalStop(F) : lock_end'[All] > u  BY <1>2, <1>5, <1>6, <1>16
    <2>2. PICK S \in SUBSET F : S = Stops(F)  BY DEF Stops
    <2>3. PICK T \in SUBSET S : T = AllStops(n)'
      <3>1. AllStops(n)' = {j \in B : closed'[j].outcome = "stop"}
        BY <1>9 DEF AllStops, Stops
      <3>2. AllStops(n)' = {j \in B : closed[j].outcome = "stop"}  BY <1>5, <3>1
      <3> QED  BY <1>8, <2>2, <3>2 DEF Stops
    <2>4. ASSUME "StoplossGuard" \in handlers, Cardinality(T) >= TradeLimit, NEW j \in T
          PROVE  lock_end'[All] > closed[j].at + StopDuration
      <3>1. Cardinality(S) >= TradeLimit  BY <1>11, <1>14, <2>4
      <3>2. PICK u \in Nat : u = CalculateLockEnd(S, StopDuration)
                             /\ \A i \in S : closed[i].at + StopDuration <= u
        BY <1>11, <2>4, LockEndIs
      <3>3. u \in GlobalStop(F)
        BY <2>2, <2>4, <3>1, <3>2 DEF GlobalStop, StoplossGuard
      <3>4. closed[j].at + StopDuration <= u /\ closed[j].at + StopDuration \in Nat
        BY <1>11, <3>2
      <3> QED  BY <1>12, <1>13, <2>1, <3>2, <3>3, <3>4
    <2>5. Profits' = Profits  BY <1>5 DEF Profits
    <2>6. ASSUME "MaxDrawdown" \in handlers, LostIn(Profits, B), NEW j \in B
          PROVE  lock_end'[All] > closed[j].at + StopDuration
      <3>1. F # {} /\ DrawdownAbs(F) > MaxAllowed  BY <1>8, <1>10, <2>6, DrawdownSeen
      <3>2. PICK u \in Nat : u = CalculateLockEnd(F, StopDuration)
                             /\ \A i \in F : closed[i].at + StopDuration <= u
        BY <1>11, <3>1, LockEndIs
      <3>3. u \in GlobalStop(F)
        BY <2>6, <3>1, <3>2 DEF GlobalStop, MaxDrawdown
      <3>4. closed[j].at + StopDuration <= u /\ closed[j].at + StopDuration \in Nat
        BY <1>8, <1>11, <3>2
      <3> QED  BY <1>12, <1>13, <2>1, <3>2, <3>3, <3>4
    <2>7. /\ \A j \in T : closed'[j].at = closed[j].at
          /\ \A j \in B : closed'[j].at = closed[j].at
      BY <1>5
    <2>8. LostIn(Profits, Behind(n))' => LostIn(Profits, B)
      <3> HIDE DEF Profits, Behind
      <3> HIDE DEF LostIn
      <3>1. LostIn(Profits, Behind(n))' => LostIn(Profits', B)  BY <1>9
      <3> QED  BY <2>5, <3>1
    <2> HIDE DEF Profits, LostIn
    <2> QED  BY <1>3, <1>9, <2>3, <2>4, <2>6, <2>7, <2>8 DEF AllStopped, IsGlobalLock
  <1> QED  BY <1>15, <1>16

LEMMA StoppedStep ==
  ASSUME ClosesOK, Pending, Stopped, [Next]_vars
  PROVE  Stopped'
  <1>1. ClosesOK'  BY RecordsStep
  <1>2. closed \in Seq(Closes) /\ DOMAIN closed = 1..Len(closed) /\ Len(closed) \in Nat
    BY DEF ClosesOK
  <1>3. \A x \in Pairs \union {All} : lock_end[x] \in Nat  BY DEF ClosesOK
  <1>4. \A i \in DOMAIN closed : 1..i \subseteq DOMAIN closed  BY BehindIs
  <1>5. CASE HandleProtections
    <2>1. /\ \E stage \in Stages : Reached(stage)
          /\ now' = now /\ handlers' = handlers
          /\ \A x \in Pairs \union {All} : lock_end'[x] >= lock_end[x]
      BY <1>5, HandlersStep DEF Stages
    <2>2. /\ DOMAIN closed' = DOMAIN closed
          /\ \A i \in DOMAIN closed :
               /\ closed'[i].pair = closed[i].pair /\ closed'[i].at = closed[i].at
               /\ closed'[i].outcome = closed[i].outcome
               /\ i # Len(closed) =>
                    closed'[i].handled = closed[i].handled /\ closed'[i].stage = closed[i].stage
      BY <2>1, ReachedIs
    <2>3. ASSUME NEW i \in DOMAIN closed
          PROVE  /\ closed'[i].stage # "none" => PairStopped(i)'
                 /\ closed'[i].stage = "all" => AllStopped(i)'
      <3>1. CASE i = Len(closed)  BY <1>5, <3>1, LastStopped
      <3>2. CASE i # Len(closed)
        <4>1. \A j \in 1..i : /\ closed'[j].pair = closed[j].pair
                              /\ closed'[j].at = closed[j].at
                              /\ closed'[j].outcome = closed[j].outcome
          BY <1>4, <2>2
        <4>2. (PairStopped(i) => PairStopped(i)') /\ (AllStopped(i) => AllStopped(i)')
          BY <1>1, <2>1, <2>2, <3>2, <4>1, StaysStopped
        <4>3. /\ closed[i].stage # "none" => PairStopped(i)
              /\ closed[i].stage = "all" => AllStopped(i)
          BY DEF Stopped
        <4> QED  BY <2>2, <3>2, <4>2, <4>3
      <3> QED  BY <3>1, <3>2
    <2> QED  BY <2>2, <2>3 DEF Stopped
  <1>6. CASE ~HandleProtections
    <2>1. handlers' = handlers /\ lock_end' = lock_end
          /\ (\/ closed' = closed
              \/ \E r : closed' = Append(closed, r) /\ r.stage = "none")
      <3>1. CASE \E pair \in Pairs : CloseTrade(pair)
        <4>1. PICK pair \in Pairs, outcome \in Outcomes : Close(pair, outcome)
          BY <3>1 DEF CloseTrade, Outcomes
        <4> DEFINE r == [pair |-> pair, at |-> now, outcome |-> outcome, handled |-> now,
                         stage |-> "none"]
        <4>2. handlers' = handlers /\ lock_end' = lock_end
              /\ (closed' = closed \/ closed' = Append(closed, r))
          BY <4>1 DEF Close
        <4>3. r.stage = "none"  OBVIOUS
        <4> HIDE DEF r
        <4> QED  BY <4>2, <4>3
      <3>2. CASE ~ \E pair \in Pairs : CloseTrade(pair)
        <4>1. handlers' = handlers /\ lock_end' = lock_end /\ closed' = closed
          BY <1>6, <3>2 DEF Next, Tick, Refresh, RemoteMissing, ManageDone, AutoLock, AutoLockPair,
             ExitsDone, EntriesDone, Crash, EntryFills, CancelEntry, Enter, vars, protections
        <4> QED  BY <4>1
      <3> QED  BY <3>1, <3>2
    <2>2. DOMAIN closed \subseteq DOMAIN closed'
          /\ (\A i \in DOMAIN closed : closed'[i] = closed[i])
          /\ (\A i \in DOMAIN closed' : i \notin DOMAIN closed => closed'[i].stage = "none")
      <3>1. CASE closed' = closed  BY <3>1
      <3>2. CASE \E r : closed' = Append(closed, r) /\ r.stage = "none"
        <4>1. PICK r : closed' = Append(closed, r) /\ r.stage = "none"  BY <3>2
        <4>2. DOMAIN closed' = 1..(Len(closed) + 1) /\ closed'[Len(closed) + 1] = r
              /\ \A i \in 1..Len(closed) : closed'[i] = closed[i]
          BY <1>2, <4>1
        <4> QED  BY <1>2, <4>1, <4>2
      <3> QED  BY <2>1, <3>1, <3>2
    <2>3. \A x \in Pairs \union {All} : lock_end'[x] >= lock_end[x]  BY <1>3, <2>1
    <2>4. ASSUME NEW i \in DOMAIN closed
          PROVE  /\ closed'[i].stage # "none" => PairStopped(i)'
                 /\ closed'[i].stage = "all" => AllStopped(i)'
      <3>1. \A j \in 1..i : closed'[j] = closed[j]  BY <1>4, <2>2
      <3>2. closed'[i] = closed[i] /\ i \in DOMAIN closed'  BY <2>2
      <3>3. (PairStopped(i) => PairStopped(i)') /\ (AllStopped(i) => AllStopped(i)')
        BY <1>1, <2>1, <2>3, <3>1, <3>2, StaysStopped
      <3>4. /\ closed[i].stage # "none" => PairStopped(i)
            /\ closed[i].stage = "all" => AllStopped(i)
        BY DEF Stopped
      <3> QED  BY <3>2, <3>3, <3>4
    <2> QED  BY <2>2, <2>4 DEF Stopped
  <1> QED  BY <1>5, <1>6

\* An entry is made by the last step of process() only.
LEMMA EntersIs ==
  ASSUME trades \in [Pairs -> {"none", "entering", "held"}], [Next]_vars, NEW pair \in Pairs,
         Enters(pair)
  PROVE  Enter(pair)
  <1>1. trades[pair] = "none" /\ trades'[pair] = "entering"  BY DEF Enters
  <1>2. trades' # trades  BY <1>1
  <1>3. PICK p \in Pairs : EntryFills(p) \/ CancelEntry(p) \/ CloseTrade(p) \/ Enter(p)
    BY <1>2 DEF Next, Tick, Refresh, RemoteMissing, ManageDone, AutoLock, HandleProtections,
       ExitsDone, EntriesDone, Crash, Restarted, vars
  <1>4. CASE EntryFills(p) \/ CancelEntry(p) \/ CloseTrade(p)
    <2>1. PICK state \in {"none", "held"} : trades' = [trades EXCEPT ![p] = state]
      BY <1>4 DEF EntryFills, CancelEntry, CloseTrade
    <2> QED  BY <1>1, <2>1
  <1>5. CASE Enter(p)
    <2>1. trades' = [trades EXCEPT ![p] = "entering"]  BY <1>5 DEF Enter
    <2>2. p = pair  BY <1>1, <2>1
    <2> QED  BY <1>5, <2>2
  <1> QED  BY <1>3, <1>4, <1>5

LEMMA EntriesHeld ==
  ASSUME ProtectInv, SelectInv, [Next]_vars, NEW pair \in Pairs, Enters(pair),
         NEW i \in DOMAIN closed
  PROVE  /\ closed[i].stage # "none" /\ closed[i].pair = pair =>
              /\ "StoplossGuard" \in handlers
                 /\ Cardinality(Stops(OfPair(Behind(i), pair))) >= TradeLimit
                   => Over(Stops(OfPair(Behind(i), pair)), StopDuration)
              /\ "CooldownPeriod" \in handlers /\ i \in Behind(i) => Over({i}, Cooldown)
         /\ closed[i].stage = "all" =>
              /\ "StoplossGuard" \in handlers /\ Cardinality(Stops(Behind(i))) >= TradeLimit
                   => Over(Stops(Behind(i)), StopDuration)
              /\ "MaxDrawdown" \in handlers /\ LosesInARow(Behind(i), MaxAllowed)
                   => Over(Behind(i), StopDuration)
  <1>1. ClosesOK /\ Stopped  BY DEF ProtectInv
  <1>2. Enter(pair)
    <2>1. trades \in [Pairs -> {"none", "entering", "held"}]
      BY DEF SelectInv, WhitelistChosen, TypeOK
    <2> QED  BY <2>1, EntersIs
  <1>3. ~ (lock_end[pair] > now) /\ ~ (lock_end[All] > now)
    BY <1>2 DEF Enter, EntryLocked, IsPairLocked, IsGlobalLock
  <1>4. lock_end[pair] \in Nat /\ lock_end[All] \in Nat /\ now \in Nat
        /\ StopDuration \in Nat /\ Cooldown \in Nat
    BY <1>1, LimitsAssumption DEF ClosesOK
  <1>5. /\ Behind(i) \subseteq 1..i /\ 1..i \subseteq DOMAIN closed
        /\ PairStops(i) \subseteq 1..i /\ AllStops(i) \subseteq 1..i
    BY <1>1, BehindIs
  <1>6. \A j \in 1..i, d \in Nat : closed[j].at + d \in Nat  BY <1>1, <1>5, CloseIs
  <1>7. \A u \in Nat : IsPairLocked(pair, u) \/ IsGlobalLock(u) => now > u
    BY <1>3, <1>4 DEF IsPairLocked, IsGlobalLock
  <1>8. ASSUME closed[i].stage # "none", closed[i].pair = pair
        PROVE  /\ "StoplossGuard" \in handlers
                  /\ Cardinality(Stops(OfPair(Behind(i), pair))) >= TradeLimit
                   => Over(Stops(OfPair(Behind(i), pair)), StopDuration)
               /\ "CooldownPeriod" \in handlers /\ i \in Behind(i) => Over({i}, Cooldown)
    <2>1. PairStopped(i)  BY <1>1, <1>8 DEF Stopped
    <2>2. PairStops(i) = Stops(OfPair(Behind(i), pair))  BY <1>8 DEF PairStops
    <2>3. /\ "StoplossGuard" \in handlers /\ Cardinality(PairStops(i)) >= TradeLimit
               => \A j \in PairStops(i) : now > closed[j].at + StopDuration
          /\ "CooldownPeriod" \in handlers /\ i \in Behind(i) => now > closed[i].at + Cooldown
      BY <1>4, <1>5, <1>6, <1>7, <1>8, <2>1 DEF PairStopped
    <2> QED  BY <2>2, <2>3 DEF Over
  <1>9. ASSUME closed[i].stage = "all"
        PROVE  /\ "StoplossGuard" \in handlers /\ Cardinality(Stops(Behind(i))) >= TradeLimit
                   => Over(Stops(Behind(i)), StopDuration)
               /\ "MaxDrawdown" \in handlers /\ LosesInARow(Behind(i), MaxAllowed)
                   => Over(Behind(i), StopDuration)
    <2>1. AllStopped(i)  BY <1>1, <1>9 DEF Stopped
    <2>2. AllStops(i) = Stops(Behind(i))  BY DEF AllStops
    <2>3. LosesInARow(Behind(i), MaxAllowed) => LostIn(Profits, Behind(i))
      <3>1. PICK S \in SUBSET DOMAIN closed : S = Behind(i)  BY <1>5
      <3> QED  BY <1>1, <3>1, LosesIs
    <2>4. /\ "StoplossGuard" \in handlers /\ Cardinality(AllStops(i)) >= TradeLimit
               => \A j \in AllStops(i) : now > closed[j].at + StopDuration
          /\ "MaxDrawdown" \in handlers /\ LostIn(Profits, Behind(i))
               => \A j \in Behind(i) : now > closed[j].at + StopDuration
      BY <1>4, <1>5, <1>6, <1>7, <2>1 DEF AllStopped
    <2> QED  BY <2>2, <2>3, <2>4 DEF Over
  <1> QED  BY <1>8, <1>9

\* No entry is made while what the handlers found at a close lasts, neither for
\* the pair nor, after a drawdown or too many stops, for any pair: locks are only
\* ever made longer, and every handler's lock covers each trade it counted
\* (ProtectionManager, PairLocks, is_pair_locked).
THEOREM ProtectionsKept == Spec => ProtectionsHold
  <1> DEFINE Inv == ProtectInv /\ SelectInv
  <1>1. Init => Inv
    <2>1. Init => SelectInv /\ ClosesOK /\ Pending  BY SelectStart, RecordsStart
    <2>2. Init => Stopped  BY DEF Init, ProtectionsInit, Stopped
    <2> QED  BY <2>1, <2>2 DEF ProtectInv
  <1>2. Inv /\ [Next]_vars => Inv'
    BY SelectStep, RecordsStep, StoppedStep DEF ProtectInv
  <1>3. Inv /\ [Next]_vars =>
          \A pair \in Pairs : Enters(pair) => \A i \in DOMAIN closed :
            /\ closed[i].stage # "none" /\ closed[i].pair = pair =>
                 /\ "StoplossGuard" \in handlers
                    /\ Cardinality(Stops(OfPair(Behind(i), pair))) >= TradeLimit
                      => Over(Stops(OfPair(Behind(i), pair)), StopDuration)
                 /\ "CooldownPeriod" \in handlers /\ i \in Behind(i) => Over({i}, Cooldown)
            /\ closed[i].stage = "all" =>
                 /\ "StoplossGuard" \in handlers /\ Cardinality(Stops(Behind(i))) >= TradeLimit
                      => Over(Stops(Behind(i)), StopDuration)
                 /\ "MaxDrawdown" \in handlers /\ LosesInARow(Behind(i), MaxAllowed)
                      => Over(Behind(i), StopDuration)
    BY EntriesHeld
  <1> HIDE DEF Inv
  <1> QED  BY <1>1, <1>2, <1>3, PTL DEF Spec, ProtectionsHold
=============================================================================
