----------------------------- MODULE SumLemmas -----------------------------
(***************************************************************************)
(* Sums over finite sets, for the modules whose amounts are such sums, and *)
(* parts of sequences, for those that filter lists.                        *)
(* The models sum with MapThenSumSet of FiniteSetsExt, a fold that is      *)
(* defined by recursion on the subsets of its argument.  The induction     *)
(* theorems of the library take a predicate as a parameter, which the      *)
(* provers cannot instantiate; here induction is over a set of values, the *)
(* good ones, by looking at a minimal one that is not good (WFMin).        *)
(*                                                                         *)
(* SumOver(f, S) is the fold with a function f in place of an operator, so *)
(* that its lemmas can speak of every f.  A module that sums an operator   *)
(* shows that its sum is SumOver of a function, as BoughtIsSum does.       *)
(*                                                                         *)
(* The same induction gives a bounded set of integers its largest and its  *)
(* smallest one (Max and Min of FiniteSetsExt).                            *)
(*                                                                         *)
(* The last section is about Subsequence, which stands for the list        *)
(* comprehensions of the code: the same induction, on positions, shows     *)
(* that the recursive function exists, which entries it keeps, and that it *)
(* keeps their order.                                                      *)
(***************************************************************************)
EXTENDS Integers, Sequences, FiniteSets, FiniteSetsExt, SequencesExt, Subsequences,
        FiniteSetTheorems, SequenceTheorems, TLAPS

\* The element the fold takes first.
Pick(S) == CHOOSE x \in S : TRUE

\* g[T] is the sum of f over T, for the subsets T of S.
Adds(g, f, S) ==
    g = [T \in SUBSET S |-> IF T = {} THEN 0 ELSE f[Pick(T)] + g[T \ {Pick(T)}]]

SumOver(f, S) == (CHOOSE g : Adds(g, f, S))[S]

-----------------------------------------------------------------------------
(* Induction.                                                              *)

\* A set of naturals with 0 that is closed under successor has all of them.
LEMMA NatSteps ==
  ASSUME NEW Good, 0 \in Good, \A n \in Nat : n \in Good => n + 1 \in Good
  PROVE  Nat \subseteq Good
  <1> DEFINE Bad == Nat \ Good
  <1> SUFFICES ASSUME Bad # {} PROVE FALSE
    OBVIOUS
  <1>1. PICK n \in Bad : \A m \in Bad : ~ (<<m, n>> \in OpToRel(<, Nat))
    <2> HIDE DEF Bad
    <2>1. Bad \subseteq Nat  BY DEF Bad
    <2> QED  BY <2>1, NatLessThanWellFounded, WFMin
  <1>2. n \in Nat /\ n \notin Good  OBVIOUS
  <1>3. n # 0  BY <1>2
  <1>4. n - 1 \in Bad
    <2>1. n - 1 \in Nat /\ (n - 1) + 1 = n  BY <1>2, <1>3
    <2> QED  BY <1>2, <2>1
  <1>5. <<n - 1, n>> \in OpToRel(<, Nat)  BY <1>2, <1>3 DEF OpToRel
  <1> QED  BY <1>1, <1>4, <1>5

\* A set of sets with {} that has a set when it has all sets with one element
\* less has every subset of a finite set S.
LEMMA SetSteps ==
  ASSUME NEW S, IsFiniteSet(S), NEW Good, {} \in Good,
         \A T \in SUBSET S : T # {} /\ (\A x \in T : T \ {x} \in Good) => T \in Good
  PROVE  \A T \in SUBSET S : T \in Good
  <1> DEFINE Bad == (SUBSET S) \ Good
  <1> SUFFICES ASSUME Bad # {} PROVE FALSE
    OBVIOUS
  <1>1. PICK T \in Bad : \A U \in Bad : ~ (<<U, T>> \in StrictSubsetOrdering(S))
    <2> HIDE DEF Bad
    <2>1. Bad \subseteq FiniteSubsetsOf(S)  BY FS_FiniteSubsetsOfFinite DEF Bad
    <2> QED  BY <2>1, FS_StrictSubsetOrderingWellFounded, WFMin
  <1>2. ASSUME NEW x \in T PROVE T \ {x} \in Good
    <2>1. <<T \ {x}, T>> \in StrictSubsetOrdering(S)
      BY DEF StrictSubsetOrdering
    <2> QED  BY <1>1, <2>1
  <1>3. T # {}  BY <1>1
  <1> HIDE DEF Bad
  <1>4. T \in SUBSET S /\ T \notin Good  BY <1>1 DEF Bad
  <1> QED  BY <1>2, <1>3, <1>4

-----------------------------------------------------------------------------
(* The sum is well defined.                                                *)

\* Whatever adds f adds the same as what adds another function that agrees with
\* f on T, whatever set the other one is over.
LEMMA AddsAgree ==
  ASSUME NEW f, NEW S, IsFiniteSet(S), NEW g, Adds(g, f, S),
         NEW h, NEW R, NEW k, Adds(k, h, R),
         NEW T \in SUBSET S, T \subseteq R, \A x \in T : f[x] = h[x]
  PROVE  g[T] = k[T]
  <1> DEFINE Good == {U \in SUBSET T : g[U] = k[U]}
  <1>1. IsFiniteSet(T)  BY FS_Subset
  <1>2. {} \in Good  BY DEF Adds
  <1>3. ASSUME NEW U \in SUBSET T, U # {}, \A x \in U : U \ {x} \in Good
        PROVE  U \in Good
    <2>1. Pick(U) \in U  BY <1>3 DEF Pick
    <2>2. g[U] = f[Pick(U)] + g[U \ {Pick(U)}]  BY <1>3, Zenon DEF Adds
    <2>3. k[U] = h[Pick(U)] + k[U \ {Pick(U)}]  BY <1>3, Zenon DEF Adds
    <2> QED  BY <1>3, <2>1, <2>2, <2>3
  <1> HIDE DEF Good
  <1>4. T \in Good  BY ZenonT(60), <1>1, <1>2, <1>3, SetSteps
  <1> QED  BY <1>4 DEF Good

\* The sums of all subsets with at most n elements.
AddsUpTo(g, f, S, n) ==
    \A T \in SUBSET S : Cardinality(T) <= n =>
        /\ g[T] \in Int
        /\ g[T] = IF T = {} THEN 0 ELSE f[Pick(T)] + g[T \ {Pick(T)}]

LEMMA AddsExists ==
  ASSUME NEW f, NEW S, IsFiniteSet(S), \A x \in S : f[x] \in Int
  PROVE  \E g \in [SUBSET S -> Int] : Adds(g, f, S)
  <1> DEFINE Good == {n \in Nat : \E g : AddsUpTo(g, f, S, n)}
  <1>1. \A T \in SUBSET S : IsFiniteSet(T) /\ Cardinality(T) \in Nat
    BY FS_Subset, FS_CardinalityType
  <1>2. 0 \in Good
    <2>1. \A T \in SUBSET S : Cardinality(T) <= 0 => T = {}
      BY <1>1, FS_EmptySet
    <2>2. AddsUpTo([T \in SUBSET S |-> 0], f, S, 0)  BY <2>1 DEF AddsUpTo
    <2> QED  BY <2>2
  <1>3. ASSUME NEW n \in Nat, n \in Good PROVE n + 1 \in Good
    <2>1. PICK g : AddsUpTo(g, f, S, n)  BY <1>3
    <2> DEFINE Next(k) == [T \in SUBSET S |-> IF T = {} THEN 0 ELSE f[Pick(T)] + k[T \ {Pick(T)}]]
    <2>2. ASSUME NEW T \in SUBSET S, Cardinality(T) <= n PROVE Next(g)[T] = g[T]
      BY <2>1, <2>2 DEF AddsUpTo
    <2>3. ASSUME NEW T \in SUBSET S, Cardinality(T) <= n + 1, T # {}
          PROVE  /\ T \ {Pick(T)} \in SUBSET S /\ Cardinality(T \ {Pick(T)}) <= n
                 /\ f[Pick(T)] \in Int
      <3>1. Pick(T) \in T  BY <2>3 DEF Pick
      <3> QED  BY <1>1, <2>3, <3>1, FS_RemoveElement
    <2>4. ASSUME NEW T \in SUBSET S, Cardinality(T) <= n + 1
          PROVE  /\ Next(g)[T] \in Int
                 /\ Next(g)[T] = IF T = {} THEN 0 ELSE f[Pick(T)] + Next(g)[T \ {Pick(T)}]
      <3>1. CASE T = {}  BY <3>1
      <3>2. CASE T # {}
        <4> DEFINE U == T \ {Pick(T)}
        <4>1. U \in SUBSET S /\ Cardinality(U) <= n /\ f[Pick(T)] \in Int
          BY <2>3, <2>4, <3>2
        <4>2. Next(g)[T] = f[Pick(T)] + g[U]  BY <3>2
        <4>3. g[U] \in Int  BY <2>1, <4>1 DEF AddsUpTo
        <4>4. Next(g)[U] = g[U]  BY <2>2, <4>1
        <4> HIDE DEF Next
        <4> QED  BY <3>2, <4>1, <4>2, <4>3, <4>4
      <3> QED  BY <3>1, <3>2
    <2>5. AddsUpTo(Next(g), f, S, n + 1)
      <3> HIDE DEF Next
      <3> QED  BY <2>4 DEF AddsUpTo
    <2> HIDE DEF Next
    <2> QED  BY <2>5
  <1>4. Nat \subseteq Good
    <2> HIDE DEF Good
    <2> QED  BY <1>2, <1>3, NatSteps
  <1>5. PICK g : AddsUpTo(g, f, S, Cardinality(S))
    BY <1>1, <1>4
  <1>6. \A T \in SUBSET S : Cardinality(T) <= Cardinality(S)  BY FS_Subset
  <1> DEFINE k == [T \in SUBSET S |-> g[T]]
  <1>7. k \in [SUBSET S -> Int]  BY <1>5, <1>6 DEF AddsUpTo
  <1>8. ASSUME NEW T \in SUBSET S
        PROVE  k[T] = IF T = {} THEN 0 ELSE f[Pick(T)] + k[T \ {Pick(T)}]
    <2>1. T \ {Pick(T)} \in SUBSET S  OBVIOUS
    <2> QED  BY <1>5, <1>6, <2>1 DEF AddsUpTo
  <1>9. Adds(k, f, S)
    <2> HIDE DEF k
    <2> QED  BY <1>7, <1>8 DEF Adds
  <1> HIDE DEF k
  <1> QED  BY <1>7, <1>9

Summable(f, S) == IsFiniteSet(S) /\ \A x \in S : f[x] \in Int

\* Any function that adds f gives the sum.
LEMMA SumIs ==
  ASSUME NEW f, NEW S, Summable(f, S), NEW g, Adds(g, f, S)
  PROVE  g[S] = SumOver(f, S)
  <1>1. Adds(CHOOSE k : Adds(k, f, S), f, S)  OBVIOUS
  <1> HIDE DEF Adds
  <1>2. IsFiniteSet(S)  BY DEF Summable
  <1> QED  BY <1>1, <1>2, AddsAgree DEF SumOver

LEMMA SumExists ==
  ASSUME NEW f, NEW S, Summable(f, S)
  PROVE  \E g : Adds(g, f, S)
  <1> HIDE DEF Adds
  <1> QED  BY AddsExists DEF Summable

LEMMA SumType ==
  ASSUME NEW f, NEW S, Summable(f, S)
  PROVE  SumOver(f, S) \in Int
  <1>1. PICK g \in [SUBSET S -> Int] : Adds(g, f, S)  BY AddsExists DEF Summable
  <1>2. g[S] = SumOver(f, S)  BY <1>1, SumIs
  <1> QED  BY <1>1, <1>2

LEMMA SumEmpty ==
  ASSUME NEW f
  PROVE  SumOver(f, {}) = 0
  <1>1. Summable(f, {})  BY FS_EmptySet DEF Summable
  <1>2. PICK g \in [SUBSET {} -> Int] : Adds(g, f, {})  BY <1>1, AddsExists DEF Summable
  <1>3. g[{}] = 0  BY <1>2 DEF Adds
  <1> QED  BY <1>1, <1>2, <1>3, SumIs

\* Only the values on the set matter.
LEMMA SumCongruence ==
  ASSUME NEW f, NEW h, NEW S, Summable(f, S), \A x \in S : f[x] = h[x]
  PROVE  SumOver(f, S) = SumOver(h, S)
  <1>1. Summable(h, S)  BY DEF Summable
  <1>2. PICK g \in [SUBSET S -> Int] : Adds(g, f, S)  BY AddsExists DEF Summable
  <1>3. PICK k \in [SUBSET S -> Int] : Adds(k, h, S)  BY <1>1, AddsExists DEF Summable
  <1>4. g[S] = k[S]  BY <1>2, <1>3, AddsAgree DEF Summable
  <1> QED  BY <1>1, <1>2, <1>3, <1>4, SumIs

LEMMA SumSubset ==
  ASSUME NEW f, NEW S, Summable(f, S), NEW T \in SUBSET S
  PROVE  Summable(f, T)
  BY FS_Subset DEF Summable

\* The recursion of the fold.
LEMMA SumFirst ==
  ASSUME NEW f, NEW S, Summable(f, S), S # {}
  PROVE  SumOver(f, S) = f[Pick(S)] + SumOver(f, S \ {Pick(S)})
  <1> DEFINE T == S \ {Pick(S)}
  <1>1. Summable(f, T)  BY SumSubset
  <1>2. PICK g \in [SUBSET S -> Int] : Adds(g, f, S)  BY AddsExists DEF Summable
  <1>3. PICK k \in [SUBSET T -> Int] : Adds(k, f, T)  BY <1>1, AddsExists DEF Summable
  <1>4. g[T] = k[T]
    <2>1. T \in SUBSET S /\ IsFiniteSet(S)  BY DEF Summable
    <2> HIDE DEF T
    <2> QED  BY <1>2, <1>3, <2>1, AddsAgree
  <1>5. g[S] = f[Pick(S)] + g[T]  BY <1>2, Zenon DEF Adds
  <1>6. g[S] = SumOver(f, S)  BY <1>2, SumIs
  <1>7. k[T] = SumOver(f, T)
    <2> HIDE DEF T
    <2> QED  BY <1>1, <1>3, SumIs
  <1> QED  BY <1>4, <1>5, <1>6, <1>7

\* Any element may be taken first.
LEMMA SumRemove ==
  ASSUME NEW f, NEW S, Summable(f, S), NEW x \in S
  PROVE  SumOver(f, S) = f[x] + SumOver(f, S \ {x})
  <1> DEFINE Good == {T \in SUBSET S : \A y \in T : SumOver(f, T) = f[y] + SumOver(f, T \ {y})}
  <1>1. {} \in Good  OBVIOUS
  <1>2. ASSUME NEW T \in SUBSET S, T # {}, \A y \in T : T \ {y} \in Good
        PROVE  T \in Good
    <2> SUFFICES ASSUME NEW y \in T PROVE SumOver(f, T) = f[y] + SumOver(f, T \ {y})
      OBVIOUS
    <2> DEFINE p == Pick(T)
    <2>1. p \in T  BY <1>2 DEF Pick
    <2>2. SumOver(f, T) = f[p] + SumOver(f, T \ {p})  BY <1>2, SumSubset, SumFirst
    <2> HIDE DEF p
    <2>3. CASE y = p  BY <2>2, <2>3
    <2>4. CASE y # p
      <3>1. T \ {p} \in Good /\ T \ {y} \in Good  BY <1>2, <2>1
      <3>2. (T \ {p}) \ {y} = (T \ {y}) \ {p}  OBVIOUS
      <3>3. SumOver(f, T \ {p}) = f[y] + SumOver(f, (T \ {y}) \ {p})
        BY <2>4, <3>1, <3>2
      <3>4. SumOver(f, T \ {y}) = f[p] + SumOver(f, (T \ {y}) \ {p})
        BY <2>1, <2>4, <3>1
      <3>5. SumOver(f, (T \ {y}) \ {p}) \in Int
        <4>1. (T \ {y}) \ {p} \in SUBSET S  OBVIOUS
        <4> QED  BY <4>1, SumSubset, SumType
      <3>6. f[p] \in Int /\ f[y] \in Int  BY <2>1 DEF Summable
      <3> DEFINE both == SumOver(f, (T \ {y}) \ {p})
      <3>7. SumOver(f, T) = f[p] + (f[y] + both)  BY <2>2, <3>3
      <3>8. SumOver(f, T \ {y}) = f[p] + both /\ both \in Int  BY <3>4, <3>5
      <3> HIDE DEF Good, both
      <3> QED  BY <3>6, <3>7, <3>8
    <2> QED  BY <2>3, <2>4
  <1>3. S \in Good
    <2> HIDE DEF Good
    <2>1. IsFiniteSet(S)  BY DEF Summable
    <2> QED  BY <1>1, <1>2, <2>1, SetSteps
  <1> QED  BY <1>3

LEMMA SumAdd ==
  ASSUME NEW f, NEW S, Summable(f, S), NEW x, x \notin S, f[x] \in Int
  PROVE  /\ Summable(f, S \union {x})
         /\ SumOver(f, S \union {x}) = f[x] + SumOver(f, S)
  <1>1. Summable(f, S \union {x})  BY FS_AddElement DEF Summable
  <1>2. (S \union {x}) \ {x} = S  OBVIOUS
  <1> QED  BY <1>1, <1>2, SumRemove

\* A sum of larger values is larger.
LEMMA SumMonotone ==
  ASSUME NEW f, NEW h, NEW S, Summable(f, S), Summable(h, S), \A x \in S : f[x] <= h[x]
  PROVE  SumOver(f, S) <= SumOver(h, S)
  <1> DEFINE Good == {T \in SUBSET S : SumOver(f, T) <= SumOver(h, T)}
  <1>1. {} \in Good  BY SumEmpty
  <1>2. ASSUME NEW T \in SUBSET S, T # {}, \A x \in T : T \ {x} \in Good
        PROVE  T \in Good
    <2>1. PICK x \in T : TRUE  BY <1>2
    <2>2. /\ SumOver(f, T) = f[x] + SumOver(f, T \ {x})
          /\ SumOver(h, T) = h[x] + SumOver(h, T \ {x})
      BY SumSubset, SumRemove
    <2>3. SumOver(f, T \ {x}) <= SumOver(h, T \ {x})  BY <1>2, <2>1
    <2>4. SumOver(f, T \ {x}) \in Int /\ SumOver(h, T \ {x}) \in Int
      <3>1. T \ {x} \in SUBSET S  OBVIOUS
      <3> QED  BY <3>1, SumSubset, SumType
    <2>5. f[x] \in Int /\ h[x] \in Int /\ f[x] <= h[x]  BY DEF Summable
    <2> QED  BY <2>2, <2>3, <2>4, <2>5
  <1>3. S \in Good
    <2> HIDE DEF Good
    <2>1. IsFiniteSet(S)  BY DEF Summable
    <2> QED  BY ZenonT(60), <1>1, <1>2, <2>1, SetSteps
  <1> QED  BY <1>3

\* Values that are not negative: the sum is neither, and a larger set has a
\* larger sum.
LEMMA SumNat ==
  ASSUME NEW f, NEW S, IsFiniteSet(S), \A x \in S : f[x] \in Nat
  PROVE  /\ Summable(f, S) /\ SumOver(f, S) \in Nat
         /\ \A x \in S : f[x] <= SumOver(f, S)
  <1> DEFINE Good == {T \in SUBSET S : SumOver(f, T) \in Nat}
  <1>1. Summable(f, S)  BY DEF Summable
  <1>2. {} \in Good  BY SumEmpty
  <1>3. ASSUME NEW T \in SUBSET S, T # {}, \A x \in T : T \ {x} \in Good
        PROVE  T \in Good
    <2>1. PICK x \in T : TRUE  BY <1>3
    <2>2. SumOver(f, T) = f[x] + SumOver(f, T \ {x})  BY <1>1, SumSubset, SumRemove
    <2> QED  BY <1>3, <2>1, <2>2
  <1>4. \A T \in SUBSET S : T \in Good
    <2> HIDE DEF Good
    <2> QED  BY <1>2, <1>3, SetSteps
  <1>5. ASSUME NEW x \in S PROVE f[x] <= SumOver(f, S)
    <2>1. SumOver(f, S) = f[x] + SumOver(f, S \ {x})  BY <1>1, SumRemove
    <2>2. SumOver(f, S \ {x}) \in Nat  BY <1>4
    <2> QED  BY <2>1, <2>2
  <1> QED  BY <1>1, <1>4, <1>5

\* The sum over two sets that share no element.
LEMMA SumUnion ==
  ASSUME NEW f, NEW S, NEW T, Summable(f, S), Summable(f, T), S \intersect T = {}
  PROVE  /\ Summable(f, S \union T)
         /\ SumOver(f, S \union T) = SumOver(f, S) + SumOver(f, T)
  <1> DEFINE Good == {U \in SUBSET T : SumOver(f, S \union U) = SumOver(f, S) + SumOver(f, U)}
  <1>1. Summable(f, S \union T)  BY FS_Union DEF Summable
  <1>2. {} \in Good
    <2>1. S \union {} = S /\ SumOver(f, S) \in Int  BY SumType
    <2> QED  BY <2>1, SumEmpty
  <1>3. ASSUME NEW U \in SUBSET T, U # {}, \A x \in U : U \ {x} \in Good
        PROVE  U \in Good
    <2>1. PICK x \in U : TRUE  BY <1>3
    <2>2. S \union U \in SUBSET (S \union T) /\ (S \union U) \ {x} = S \union (U \ {x})
      OBVIOUS
    <2>3. SumOver(f, S \union U) = f[x] + SumOver(f, S \union (U \ {x}))
      BY <1>1, <2>2, SumSubset, SumRemove
    <2>4. SumOver(f, U) = f[x] + SumOver(f, U \ {x})  BY SumSubset, SumRemove
    <2>5. SumOver(f, S \union (U \ {x})) = SumOver(f, S) + SumOver(f, U \ {x})
      BY <1>3, <2>1
    <2>6. SumOver(f, S) \in Int /\ SumOver(f, U \ {x}) \in Int /\ f[x] \in Int
      <3>1. U \ {x} \in SUBSET T  OBVIOUS
      <3> QED  BY <3>1, SumSubset, SumType DEF Summable
    <2> QED  BY <2>3, <2>4, <2>5, <2>6
  <1>4. T \in Good
    <2> HIDE DEF Good
    <2>1. IsFiniteSet(T)  BY DEF Summable
    <2> QED  BY <1>2, <1>3, <2>1, SetSteps
  <1> QED  BY <1>1, <1>4

\* A sum of nothing positive.
LEMMA SumNotPositive ==
  ASSUME NEW f, NEW S, Summable(f, S), \A x \in S : f[x] <= 0
  PROVE  SumOver(f, S) <= 0
  <1> DEFINE h == [x \in S |-> 0]
  <1> DEFINE Good == {T \in SUBSET S : SumOver(h, T) = 0}
  <1>1. Summable(h, S)  BY DEF Summable
  <1>2. {} \in Good  BY SumEmpty
  <1>3. ASSUME NEW T \in SUBSET S, T # {}, \A x \in T : T \ {x} \in Good
        PROVE  T \in Good
    <2>1. PICK x \in T : TRUE  BY <1>3
    <2>2. h[x] = 0 /\ SumOver(h, T \ {x}) = 0  BY <1>3, <2>1
    <2>3. SumOver(h, T) = h[x] + SumOver(h, T \ {x})
      <3> HIDE DEF h
      <3> QED  BY <1>1, SumSubset, SumRemove
    <2> QED  BY <2>2, <2>3
  <1>4. S \in Good
    <2> HIDE DEF Good
    <2>1. IsFiniteSet(S)  BY DEF Summable
    <2> QED  BY ZenonT(60), <1>2, <1>3, <2>1, SetSteps
  <1>5. \A x \in S : f[x] <= h[x]  OBVIOUS
  <1>6. SumOver(h, S) = 0  BY <1>4
  <1> HIDE DEF h
  <1> QED  BY <1>1, <1>5, <1>6, SumMonotone

\* A sum over fewer and smaller values, the values it has alone not positive
\* and those the other has alone not negative, is at most the other.
LEMMA SumBelow ==
  ASSUME NEW f, NEW S, Summable(f, S), NEW h, NEW T, Summable(h, T),
         \A x \in S \intersect T : f[x] <= h[x],
         \A x \in S \ T : f[x] <= 0, \A x \in T \ S : h[x] >= 0
  PROVE  SumOver(f, S) <= SumOver(h, T)
  <1> DEFINE B == S \intersect T
  <1>1. SumOver(f, S) = SumOver(f, B) + SumOver(f, S \ T)
    <2>1. B \union (S \ T) = S /\ B \intersect (S \ T) = {}  OBVIOUS
    <2>2. Summable(f, B) /\ Summable(f, S \ T)  BY SumSubset
    <2> HIDE DEF B
    <2> QED  BY <2>1, <2>2, SumUnion
  <1>2. SumOver(h, T) = SumOver(h, B) + SumOver(h, T \ S)
    <2>1. B \union (T \ S) = T /\ B \intersect (T \ S) = {}  OBVIOUS
    <2>2. Summable(h, B) /\ Summable(h, T \ S)  BY SumSubset
    <2> HIDE DEF B
    <2> QED  BY <2>1, <2>2, SumUnion
  <1>3. SumOver(f, B) <= SumOver(h, B)
    <2>1. Summable(f, B) /\ Summable(h, B)  BY SumSubset
    <2> QED  BY <2>1, SumMonotone
  <1>4. SumOver(f, S \ T) <= 0  BY SumSubset, SumNotPositive
  <1>5. SumOver(h, T \ S) \in Nat
    <2>1. Summable(h, T \ S)  BY SumSubset
    <2>2. \A x \in T \ S : h[x] \in Nat  BY DEF Summable
    <2> QED  BY <2>1, <2>2, SumNat DEF Summable
  <1>6. SumOver(f, B) \in Int /\ SumOver(f, S \ T) \in Int /\ SumOver(h, B) \in Int
    BY SumSubset, SumType
  <1> QED  BY <1>1, <1>2, <1>3, <1>4, <1>5, <1>6

\* One value changes.
LEMMA SumChange ==
  ASSUME NEW f, NEW h, NEW S, Summable(f, S), NEW x \in S, h[x] \in Int,
         \A y \in S \ {x} : h[y] = f[y]
  PROVE  SumOver(h, S) = SumOver(f, S) + (h[x] - f[x])
  <1>1. Summable(h, S)  BY DEF Summable
  <1>2. Summable(f, S \ {x}) /\ Summable(h, S \ {x})  BY <1>1, SumSubset
  <1>3. SumOver(f, S \ {x}) = SumOver(h, S \ {x})  BY <1>2, SumCongruence
  <1>4. SumOver(f, S) = f[x] + SumOver(f, S \ {x})  BY SumRemove
  <1>5. SumOver(h, S) = h[x] + SumOver(h, S \ {x})  BY <1>1, SumRemove
  <1>6. SumOver(f, S \ {x}) \in Int /\ f[x] \in Int  BY <1>2, SumType DEF Summable
  <1> QED  BY <1>1, <1>3, <1>4, <1>5, <1>6

\* A function that is 0 outside a set.
LEMMA SumPadded ==
  ASSUME NEW f, NEW S, NEW h, NEW T, Summable(f, S), Summable(h, T), S \subseteq T,
         \A x \in S : h[x] = f[x], \A x \in T \ S : h[x] = 0
  PROVE  SumOver(h, T) = SumOver(f, S)
  <1>1. SumOver(f, S) <= SumOver(h, T)
    <2>1. \A x \in S \intersect T : f[x] <= h[x]  BY DEF Summable
    <2>2. \A x \in S \ T : f[x] <= 0  OBVIOUS
    <2>3. \A x \in T \ S : h[x] >= 0  OBVIOUS
    <2> QED  BY <2>1, <2>2, <2>3, SumBelow
  <1>2. SumOver(h, T) <= SumOver(f, S)
    <2>1. \A x \in T \intersect S : h[x] <= f[x]  BY DEF Summable
    <2>2. \A x \in T \ S : h[x] <= 0  OBVIOUS
    <2>3. \A x \in S \ T : f[x] >= 0  OBVIOUS
    <2> QED  BY <2>1, <2>2, <2>3, SumBelow
  <1>3. SumOver(f, S) \in Int /\ SumOver(h, T) \in Int  BY SumType
  <1> QED  BY <1>1, <1>2, <1>3

\* A function that becomes 0 on a set.
LEMMA SumCleared ==
  ASSUME NEW f, NEW T, Summable(f, T), NEW S \in SUBSET T, NEW h,
         \A x \in T : h[x] = IF x \in S THEN 0 ELSE f[x]
  PROVE  /\ Summable(f, S) /\ Summable(h, T)
         /\ SumOver(f, T) = SumOver(h, T) + SumOver(f, S)
  <1>1. Summable(f, S) /\ Summable(f, T \ S)  BY SumSubset
  <1>2. Summable(h, T)  BY DEF Summable
  <1>3. SumOver(h, T) = SumOver(f, T \ S)
    <2>1. \A x \in T \ S : h[x] = f[x]  OBVIOUS
    <2>2. \A x \in T \ (T \ S) : h[x] = 0  OBVIOUS
    <2>3. PICK R : R = T \ S  OBVIOUS
    <2>4. R \subseteq T /\ (\A x \in R : h[x] = f[x]) /\ (\A x \in T \ R : h[x] = 0)
      BY <2>1, <2>2, <2>3
    <2>5. Summable(f, R)  BY <1>1, <2>3
    <2> QED  BY <1>2, <2>3, <2>4, <2>5, SumPadded
  <1>4. SumOver(f, T) = SumOver(f, S) + SumOver(f, T \ S)
    <2>1. PICK R : R = T \ S  OBVIOUS
    <2>2. S \intersect R = {} /\ S \union R = T  BY <2>1
    <2>3. SumOver(f, S \union R) = SumOver(f, S) + SumOver(f, R)
      BY <1>1, <2>1, <2>2, SumUnion
    <2> QED  BY <2>1, <2>2, <2>3
  <1>5. SumOver(f, S) \in Int /\ SumOver(f, T \ S) \in Int  BY <1>1, SumType
  <1> QED  BY <1>1, <1>2, <1>3, <1>4, <1>5

\* The same values under other names.
LEMMA SumReindex ==
  ASSUME NEW f, NEW g, NEW m, NEW S, Summable(g, S),
         \A x, y \in S : m[x] = m[y] => x = y,
         \A x \in S : f[m[x]] = g[x],
         NEW R, R = {m[x] : x \in S}
  PROVE  Summable(f, R) /\ SumOver(f, R) = SumOver(g, S)
  <1> DEFINE to == [T \in SUBSET S |-> {m[x] : x \in T}]
  <1> DEFINE Good == {T \in SUBSET S :
                        Summable(f, to[T]) /\ SumOver(f, to[T]) = SumOver(g, T)}
  <1>1. {} \in Good
    <2>1. to[{}] = {}  OBVIOUS
    <2>2. Summable(f, {})  BY FS_EmptySet DEF Summable
    <2> HIDE DEF to
    <2> QED  BY <2>1, <2>2, SumEmpty
  <1>2. ASSUME NEW T \in SUBSET S, T # {}, \A x \in T : T \ {x} \in Good
        PROVE  T \in Good
    <2>1. PICK x \in T : TRUE  BY <1>2
    <2>2. SumOver(g, T) = g[x] + SumOver(g, T \ {x})  BY SumSubset, SumRemove
    <2>3. PICK U : U = to[T \ {x}]  OBVIOUS
    <2>4. Summable(f, U) /\ SumOver(f, U) = SumOver(g, T \ {x})  BY <1>2, <2>1, <2>3
    <2>5. to[T] = U \union {m[x]} /\ m[x] \notin U  BY <2>3
    <2>6. f[m[x]] = g[x] /\ g[x] \in Int  BY DEF Summable
    <2>7. Summable(f, U \union {m[x]}) /\ SumOver(f, U \union {m[x]}) = f[m[x]] + SumOver(f, U)
      <3> HIDE DEF to, Good
      <3> QED  BY <2>4, <2>5, <2>6, SumAdd
    <2> HIDE DEF to
    <2> QED  BY <2>2, <2>4, <2>5, <2>6, <2>7
  <1>3. S \in Good
    <2> HIDE DEF Good, to
    <2>1. IsFiniteSet(S)  BY DEF Summable
    <2>2. \A T \in SUBSET S : T # {} /\ (\A x \in T : T \ {x} \in Good) => T \in Good
      BY <1>2
    <2>3. \A T \in SUBSET S : T \in Good  BY <1>1, <2>1, <2>2, SetSteps, Zenon
    <2> QED  BY <2>3
  <1>4. to[S] = R  OBVIOUS
  <1> HIDE DEF to
  <1> QED  BY <1>3, <1>4

\* The sum of a list.
SumOfList(s) == SumOver(s, DOMAIN s)

LEMMA ListSummable ==
  ASSUME NEW s \in Seq(Int)
  PROVE  Summable(s, DOMAIN s) /\ DOMAIN s = 1 .. Len(s) /\ Len(s) \in Nat
  <1>1. DOMAIN s = 1 .. Len(s) /\ Len(s) \in Nat /\ \A i \in DOMAIN s : s[i] \in Int
    OBVIOUS
  <1>2. IsFiniteSet(1 .. Len(s))  BY <1>1, FS_Interval
  <1> QED  BY <1>1, <1>2 DEF Summable

LEMMA SumOfAppend ==
  ASSUME NEW s \in Seq(Int), NEW n \in Int
  PROVE  SumOfList(Append(s, n)) = SumOfList(s) + n
  <1> DEFINE a == Append(s, n)  k == Len(s) + 1
  <1>1. a \in Seq(Int) /\ DOMAIN a = 1 .. k /\ a[k] = n /\ \A i \in DOMAIN s : a[i] = s[i]
    OBVIOUS
  <1>2. Summable(s, DOMAIN s) /\ DOMAIN s = 1 .. Len(s) /\ Len(s) \in Nat  BY ListSummable
  <1>3. k \notin DOMAIN s /\ (DOMAIN s) \union {k} = DOMAIN a  BY <1>1, <1>2
  <1>4. SumOver(a, DOMAIN s) = SumOver(s, DOMAIN s) /\ Summable(a, DOMAIN s)
    <2> HIDE DEF a
    <2>1. Summable(a, DOMAIN s)  BY <1>1, <1>2 DEF Summable
    <2> QED  BY ZenonT(60), <1>1, <1>2, <2>1, SumCongruence
  <1>5. SumOver(a, DOMAIN a) = a[k] + SumOver(a, DOMAIN s)
    <2> HIDE DEF a, k
    <2> QED  BY <1>1, <1>3, <1>4, SumAdd
  <1>6. SumOver(s, DOMAIN s) \in Int  BY <1>2, SumType
  <1> QED  BY <1>1, <1>4, <1>5, <1>6 DEF SumOfList

LEMMA SumOfTail ==
  ASSUME NEW s \in Seq(Int), s # <<>>
  PROVE  SumOfList(s) = Head(s) + SumOfList(Tail(s))
  <1> DEFINE t == Tail(s)  m == [i \in DOMAIN t |-> i + 1]
  <1>1. /\ t \in Seq(Int) /\ Len(s) \in Nat /\ Len(s) > 0 /\ DOMAIN s = 1 .. Len(s)
        /\ DOMAIN t = 1 .. (Len(s) - 1) /\ \A i \in DOMAIN t : t[i] = s[i + 1]
        /\ Head(s) = s[1]
    OBVIOUS
  <1>2. Summable(s, DOMAIN s) /\ Summable(t, DOMAIN t)  BY <1>1, ListSummable
  <1>3. SumOver(s, DOMAIN s) = s[1] + SumOver(s, DOMAIN s \ {1})
    <2>1. 1 \in DOMAIN s  BY <1>1
    <2> QED  BY <1>2, <2>1, SumRemove
  <1>4. DOMAIN s \ {1} = {m[i] : i \in DOMAIN t}
    <2>1. \A j \in DOMAIN s \ {1} : j - 1 \in DOMAIN t /\ m[j - 1] = j  BY <1>1
    <2>2. \A i \in DOMAIN t : m[i] \in DOMAIN s \ {1}  BY <1>1
    <2> HIDE DEF t, m
    <2> QED  BY <2>1, <2>2
  <1>5. /\ \A x, y \in DOMAIN t : m[x] = m[y] => x = y
        /\ \A x \in DOMAIN t : s[m[x]] = t[x]
    BY <1>1
  <1>6. SumOver(s, {m[i] : i \in DOMAIN t}) = SumOver(t, DOMAIN t)
    <2>1. PICK u, k, D, R : u = t /\ k = m /\ D = DOMAIN t /\ R = {m[i] : i \in DOMAIN t}
      OBVIOUS
    <2> HIDE DEF t, m
    <2>2. Summable(u, D)  BY <1>2, <2>1
    <2>3. \A x, y \in D : k[x] = k[y] => x = y  BY <1>5, <2>1
    <2>4. \A x \in D : s[k[x]] = u[x]  BY <1>5, <2>1
    <2>5. R = {k[i] : i \in D}  BY <2>1
    <2>6. SumOver(s, R) = SumOver(u, D)  BY <2>2, <2>3, <2>4, <2>5, SumReindex
    <2> QED  BY <2>1, <2>6
  <1> QED  BY <1>1, <1>3, <1>4, <1>6 DEF SumOfList

\* A sum of sums.
LEMMA SumPlus ==
  ASSUME NEW f, NEW g, NEW h, NEW S, Summable(f, S), Summable(g, S), Summable(h, S),
         \A x \in S : h[x] = f[x] + g[x]
  PROVE  SumOver(h, S) = SumOver(f, S) + SumOver(g, S)
  <1> DEFINE Good == {T \in SUBSET S : SumOver(h, T) = SumOver(f, T) + SumOver(g, T)}
  <1>1. IsFiniteSet(S)  BY DEF Summable
  <1>2. {} \in Good  BY SumEmpty
  <1>3. ASSUME NEW T \in SUBSET S, T # {}, \A x \in T : T \ {x} \in Good PROVE T \in Good
    <2>1. PICK t \in T : TRUE  BY <1>3
    <2>2. PICK V : V = T \ {t}  OBVIOUS
    <2>3. SumOver(h, V) = SumOver(f, V) + SumOver(g, V)
      <3>1. T \ {t} \in Good  BY <1>3, <2>1
      <3> QED  BY <2>2, <3>1
    <2>4. /\ Summable(f, T) /\ Summable(g, T) /\ Summable(h, T)
          /\ Summable(f, V) /\ Summable(g, V) /\ Summable(h, V)
      BY <2>2, SumSubset
    <2>5. /\ SumOver(f, T) = f[t] + SumOver(f, V)
          /\ SumOver(g, T) = g[t] + SumOver(g, V)
          /\ SumOver(h, T) = h[t] + SumOver(h, V)
      BY <2>1, <2>2, <2>4, SumRemove
    <2>6. h[t] = f[t] + g[t] /\ f[t] \in Int /\ g[t] \in Int  BY <2>1 DEF Summable
    <2>7. SumOver(f, V) \in Int /\ SumOver(g, V) \in Int  BY <2>4, SumType
    <2> QED  BY <2>3, <2>5, <2>6, <2>7
  <1> HIDE DEF Good
  <1>4. S \in Good  BY ZenonT(60), <1>1, <1>2, <1>3, SetSteps
  <1> QED  BY <1>4 DEF Good

-----------------------------------------------------------------------------
(* Counting.                                                               *)

\* What the models write for the sum of a function.
LEMMA FoldIsSum ==
  ASSUME NEW f, NEW S, Summable(f, S)
  PROVE  MapThenSumSet(LAMBDA x : f[x], S) = SumOver(f, S)
  <1> DEFINE Eq(g) == g = [T \in SUBSET S |->
               IF T = {} THEN 0
               ELSE LET x == CHOOSE x \in T : TRUE IN f[x] + g[T \ {x}]]
  <1>1. \A g : Eq(g) <=> Adds(g, f, S)  BY DEF Adds, Pick
  <1>2. \E g : Eq(g)
    <2> HIDE DEF Eq
    <2> QED  BY <1>1, SumExists
  <1>3. Adds(CHOOSE g : Eq(g), f, S)  BY <1>1, <1>2
  <1>4. MapThenSumSet(LAMBDA x : f[x], S) = (CHOOSE g : Eq(g))[S]
    BY DEF MapThenSumSet, MapThenFoldSet
  <1> HIDE DEF Eq
  <1> QED  BY <1>3, <1>4, SumIs

\* The image of a finite set, under a map that is a function.
LEMMA ImageFinite ==
  ASSUME NEW S, IsFiniteSet(S), NEW k, NEW T, T = {k[x] : x \in S}
  PROVE  IsFiniteSet(T) /\ Cardinality(T) <= Cardinality(S)
  <1> DEFINE f == [x \in S |-> k[x]]
  <1>1. f \in Surjection(S, T)  BY DEF Surjection
  <1> HIDE DEF f
  <1> QED  BY <1>1, FS_Surjection

\* The elements that a map takes to a value, added over values.
LEMMA SumFibres ==
  ASSUME NEW M, IsFiniteSet(M), NEW k, NEW T, IsFiniteSet(T), NEW g,
         \A t \in T : g[t] = Cardinality({x \in M : k[x] = t})
  PROVE  Summable(g, T) /\ SumOver(g, T) = Cardinality({x \in M : k[x] \in T})
  <1> DEFINE Over(U) == {x \in M : k[x] \in U}
  <1>1. \A U : IsFiniteSet(Over(U)) /\ Cardinality(Over(U)) \in Nat
    <2> SUFFICES ASSUME NEW U PROVE IsFiniteSet(Over(U)) /\ Cardinality(Over(U)) \in Nat
      OBVIOUS
    <2>1. IsFiniteSet(Over(U))
      <3>1. Over(U) \in SUBSET M  OBVIOUS
      <3> HIDE DEF Over
      <3> QED  BY <3>1, FS_Subset
    <2> HIDE DEF Over
    <2> QED  BY <2>1, FS_CardinalityType
  <1>2. \A t \in T : g[t] = Cardinality(Over({t}))
    <2>1. \A t : Over({t}) = {x \in M : k[x] = t}  OBVIOUS
    <2> HIDE DEF Over
    <2> QED  BY <2>1
  <1>3. Summable(g, T)
    <2> HIDE DEF Over
    <2>1. \A t \in T : Cardinality(Over({t})) \in Int  BY <1>1
    <2> QED  BY <1>2, <2>1 DEF Summable
  <1> DEFINE Good == {U \in SUBSET T : SumOver(g, U) = Cardinality(Over(U))}
  <1>4. {} \in Good
    <2>1. Over({}) = {}  OBVIOUS
    <2> HIDE DEF Over
    <2> QED  BY <2>1, SumEmpty, FS_EmptySet
  <1>5. ASSUME NEW U \in SUBSET T, U # {}, \A x \in U : U \ {x} \in Good PROVE U \in Good
    <2>1. PICK t \in U : TRUE  BY <1>5
    <2> DEFINE V == U \ {t}
    <2>2. SumOver(g, V) = Cardinality(Over(V))
      <3>1. V \in Good  BY <1>5, <2>1
      <3> QED  BY <3>1
    <2>3. SumOver(g, U) = g[t] + SumOver(g, V)
      <3>1. Summable(g, U)  BY <1>3, SumSubset
      <3> QED  BY <3>1, SumRemove
    <2>4. Over(U) = Over({t}) \cup Over(V) /\ Over({t}) \cap Over(V) = {}
      OBVIOUS
    <2>5. Cardinality(Over(U)) = Cardinality(Over({t})) + Cardinality(Over(V))
      <3> HIDE DEF Over, V
      <3>1. Cardinality(Over({t}) \cap Over(V)) = 0  BY <2>4, FS_EmptySet
      <3>2. Cardinality(Over({t}) \cup Over(V))
              = Cardinality(Over({t})) + Cardinality(Over(V)) - Cardinality(Over({t}) \cap Over(V))
        BY <1>1, FS_Union
      <3>3. Cardinality(Over({t})) \in Nat /\ Cardinality(Over(V)) \in Nat  BY <1>1
      <3> QED  BY <2>4, <3>1, <3>2, <3>3
    <2> HIDE DEF Over, V
    <2> QED  BY <1>2, <2>1, <2>2, <2>3, <2>5
  <1> HIDE DEF Good, Over
  <1>6. T \in Good  BY ZenonT(60), <1>4, <1>5, SetSteps
  <1> QED  BY <1>3, <1>6 DEF Good, Over

-----------------------------------------------------------------------------
(* Largest and smallest.                                                   *)

LEMMA MaxIs ==
  ASSUME NEW S, \A x \in S : x \in Int, NEW m \in S, \A x \in S : x <= m
  PROVE  Max(S) = m
  <1>1. m \in Int  OBVIOUS
  <1>2. \A x \in S : m >= x  BY <1>1
  <1>3. Max(S) \in S /\ \A y \in S : Max(S) >= y  BY <1>2 DEF Max
  <1> DEFINE top == Max(S)
  <1>4. top \in Int /\ top >= m /\ top <= m  BY <1>3
  <1> HIDE DEF top
  <1> QED  BY <1>1, <1>4 DEF top

LEMMA MinIs ==
  ASSUME NEW S, \A x \in S : x \in Int, NEW m \in S, \A x \in S : m <= x
  PROVE  Min(S) = m
  <1>1. m \in Int  OBVIOUS
  <1>2. \A x \in S : m <= x  BY <1>1
  <1>3. Min(S) \in S /\ \A y \in S : Min(S) <= y  BY <1>2 DEF Min
  <1> DEFINE bottom == Min(S)
  <1>4. bottom \in Int /\ bottom >= m /\ bottom <= m  BY <1>3
  <1> HIDE DEF bottom
  <1> QED  BY <1>1, <1>4 DEF bottom

\* A set of naturals that is not empty has a smallest one.
LEMMA LeastNatural ==
  ASSUME NEW D, \A x \in D : x \in Nat, D # {}
  PROVE  \E d \in D : \A e \in D : d <= e
  <1>1. D \subseteq Nat  OBVIOUS
  <1>2. PICK d \in D : \A e \in D : ~ (<<e, d>> \in OpToRel(<, Nat))
    BY <1>1, NatLessThanWellFounded, WFMin
  <1>3. ASSUME NEW e \in D, ~ (d <= e) PROVE FALSE
    <2>1. e \in Nat /\ d \in Nat /\ e < d  BY <1>3
    <2>2. <<e, d>> \in OpToRel(<, Nat)  BY <2>1 DEF OpToRel
    <2> QED  BY <1>2, <2>2
  <1> QED  BY <1>3

\* A set of integers below a bound has a largest one, above a bound a smallest.
LEMMA MaxExists ==
  ASSUME NEW hi \in Int, NEW S, \A x \in S : x \in Int /\ x <= hi, S # {}
  PROVE  Max(S) \in S /\ \A x \in S : x <= Max(S)
  <1>1. PICK D : D = {hi - x : x \in S}  OBVIOUS
  <1>2. \A d \in D : d \in Nat  BY <1>1
  <1>3. D # {}  BY <1>1
  <1>4. PICK d \in D : \A e \in D : d <= e  BY <1>2, <1>3, LeastNatural
  <1>5. PICK m \in S : d = hi - m  BY <1>1, <1>4
  <1>6. \A x \in S : x <= m
    <2> SUFFICES ASSUME NEW x \in S PROVE x <= m  OBVIOUS
    <2>1. hi - x \in D  BY <1>1
    <2>2. hi - m <= hi - x  BY <1>4, <1>5, <2>1
    <2> QED  BY <2>2
  <1>7. Max(S) = m  BY <1>6, MaxIs
  <1> QED  BY <1>6, <1>7

LEMMA MinExists ==
  ASSUME NEW lo \in Int, NEW S, \A x \in S : x \in Int /\ lo <= x, S # {}
  PROVE  Min(S) \in S /\ \A x \in S : Min(S) <= x
  <1>1. PICK D : D = {x - lo : x \in S}  OBVIOUS
  <1>2. \A d \in D : d \in Nat  BY <1>1
  <1>3. D # {}  BY <1>1
  <1>4. PICK d \in D : \A e \in D : d <= e  BY <1>2, <1>3, LeastNatural
  <1>5. PICK m \in S : d = m - lo  BY <1>1, <1>4
  <1>6. \A x \in S : m <= x
    <2> SUFFICES ASSUME NEW x \in S PROVE m <= x  OBVIOUS
    <2>1. x - lo \in D  BY <1>1
    <2>2. m - lo <= x - lo  BY <1>4, <1>5, <2>1
    <2> QED  BY <2>2
  <1>7. Min(S) = m  BY <1>6, MinIs
  <1> QED  BY <1>6, <1>7

\* At most as many numbers lie between two bounds as their distance allows.
LEMMA FewBetween ==
  ASSUME NEW lo \in Int, NEW hi \in Int, lo <= hi + 1, NEW S, S \subseteq lo..hi
  PROVE  IsFiniteSet(S) /\ Cardinality(S) \in Nat /\ Cardinality(S) <= hi - lo + 1
  <1>1. IsFiniteSet(lo..hi) /\ Cardinality(lo..hi) = hi - lo + 1
    BY FS_Interval
  <1>2. IsFiniteSet(S) /\ Cardinality(S) <= Cardinality(lo..hi)
    BY <1>1, FS_Subset
  <1> QED  BY <1>1, <1>2, FS_CardinalityType


-----------------------------------------------------------------------------
(* Subsequences *)

Takes(g, s, I, n) ==
  \A k \in 0..n : g[k] = IF k = 0 THEN <<>>
                         ELSE IF k \in I THEN Append(g[k - 1], s[k]) ELSE g[k - 1]

\* m lists the positions of t's entries in s.
Picks(m, t, s, I) ==
  /\ m \in [1..Len(t) -> I]
  /\ \A j, k \in 1..Len(t) : j < k => m[j] < m[k]
  /\ \A i \in I : \E k \in 1..Len(t) : m[k] = i
  /\ \A k \in 1..Len(t) : t[k] = s[m[k]]

LEMMA TakesExists ==
  ASSUME NEW s, Len(s) \in Nat, NEW I
  PROVE  \E g : g = [n \in 0..Len(s) |->
                       IF n = 0 THEN <<>>
                       ELSE IF n \in I THEN Append(g[n - 1], s[n]) ELSE g[n - 1]]
  <1> DEFINE Is(g, n) == g = [k \in 0..n |-> IF k = 0 THEN <<>>
                       ELSE IF k \in I THEN Append(g[k - 1], s[k]) ELSE g[k - 1]]
             Good == {n \in Nat : \E g : Is(g, n)}
  <1>1. 0 \in Good
    <2>1. Is([k \in 0..0 |-> <<>>], 0)  OBVIOUS
    <2> QED  BY <2>1
  <1>2. ASSUME NEW n \in Nat, n \in Good PROVE n + 1 \in Good
    <2>1. PICK g : Is(g, n)  BY <1>2
    <2> DEFINE last == IF n + 1 \in I THEN Append(g[n], s[n + 1]) ELSE g[n]
               h == [k \in 0..n + 1 |-> IF k = n + 1 THEN last ELSE g[k]]
    <2>2. \A k \in 0..n : g[k] = IF k = 0 THEN <<>>
                       ELSE IF k \in I THEN Append(g[k - 1], s[k]) ELSE g[k - 1]
      BY <2>1
    <2>3. \A k \in 0..n : h[k] = g[k]  OBVIOUS
    <2>4. h[n + 1] = last  OBVIOUS
    <2> HIDE DEF h
    <2>5. \A k \in 0..n + 1 : h[k] = IF k = 0 THEN <<>>
                       ELSE IF k \in I THEN Append(h[k - 1], s[k]) ELSE h[k - 1]
      <3> SUFFICES ASSUME NEW k \in 0..n + 1
                   PROVE h[k] = IF k = 0 THEN <<>>
                       ELSE IF k \in I THEN Append(h[k - 1], s[k]) ELSE h[k - 1]
        OBVIOUS
      <3>1. CASE k = n + 1
        <4>1. k # 0 /\ k - 1 = n /\ n \in 0..n  BY <3>1
        <4> QED  BY <3>1, <4>1, <2>3, <2>4
      <3>2. CASE k = 0  BY <3>2, <2>2, <2>3
      <3>3. CASE k \in 1..n
        <4>1. k \in 0..n /\ k - 1 \in 0..n /\ k # 0  BY <3>3
        <4> QED  BY <4>1, <2>2, <2>3
      <3> QED  BY <3>1, <3>2, <3>3
    <2>6. h = [k \in 0..n + 1 |-> h[k]]  BY DEF h
    <2>7. Is(h, n + 1)  BY <2>5, <2>6
    <2> HIDE DEF Is
    <2> QED  BY <2>7
  <1>3. Nat \subseteq Good  BY <1>1, <1>2, NatSteps
  <1> QED  BY <1>3

LEMMA SubsequenceTakes ==
  ASSUME NEW s, Len(s) \in Nat, NEW I
  PROVE  \E g : Takes(g, s, I, Len(s)) /\ Subsequence(s, I) = g[Len(s)]
  <1> DEFINE Is(g) == g = [n \in 0..Len(s) |->
                       IF n = 0 THEN <<>>
                       ELSE IF n \in I THEN Append(g[n - 1], s[n]) ELSE g[n - 1]]
             c == CHOOSE g : Is(g)
  <1>1. \E g : Is(g)  BY TakesExists
  <1>2. Is(c)  BY <1>1
  <1>3. Subsequence(s, I) = c[Len(s)]  BY DEF Subsequence
  <1> HIDE DEF c
  <1>4. Takes(c, s, I, Len(s))  BY <1>2 DEF Takes
  <1> QED  BY <1>3, <1>4

LEMMA SubsequenceIs ==
  ASSUME NEW S, NEW s \in Seq(S), NEW I \in SUBSET (1..Len(s))
  PROVE  /\ Subsequence(s, I) \in Seq(S)
         /\ \E m : Picks(m, Subsequence(s, I), s, I)
  <1>1. Len(s) \in Nat /\ DOMAIN s = 1..Len(s)  OBVIOUS
  <1>2. PICK g : Takes(g, s, I, Len(s)) /\ Subsequence(s, I) = g[Len(s)]
    BY <1>1, SubsequenceTakes
  <1> DEFINE Up(n) == I \intersect 1..n
             Fits(n) == n <= Len(s) => g[n] \in Seq(S) /\ \E m : Picks(m, g[n], s, Up(n))
             Good == {n \in Nat : Fits(n)}
  <1>3. 0 \in Good
    <2>1. g[0] = <<>>  BY <1>1, <1>2 DEF Takes
    <2>2. Picks(<<>>, <<>>, s, Up(0))
      <3>1. Up(0) = {} /\ Len(<<>>) = 0 /\ <<>> \in [1..0 -> {}]  OBVIOUS
      <3> QED  BY <3>1 DEF Picks
    <2>3. Fits(0)  BY <2>1, <2>2
    <2> HIDE DEF Fits
    <2> QED  BY <2>3
  <1>4. ASSUME NEW n \in Nat, n \in Good PROVE n + 1 \in Good
    <2> SUFFICES ASSUME n + 1 <= Len(s)
                 PROVE  g[n + 1] \in Seq(S) /\ \E m : Picks(m, g[n + 1], s, Up(n + 1))
      <3>1. Fits(n + 1) => n + 1 \in Good
        <4> HIDE DEF Fits
        <4> QED  OBVIOUS
      <3> QED  BY <3>1
    <2>0. Fits(n)
      <3> HIDE DEF Fits
      <3> QED  BY <1>4
    <2>1. n + 1 \in 0..Len(s) /\ n + 1 # 0 /\ n + 1 - 1 = n  BY <1>1
    <2>2. g[n + 1] = IF n + 1 \in I THEN Append(g[n], s[n + 1]) ELSE g[n]
      BY <1>2, <2>1 DEF Takes
    <2>6. n <= Len(s)  BY <1>1
    <2>3. PICK m : g[n] \in Seq(S) /\ Picks(m, g[n], s, Up(n))  BY <2>0, <2>6, Zenon
    <2>4. CASE n + 1 \notin I
      <3>1. Up(n + 1) = Up(n)  BY <2>4
      <3> QED  BY <2>2, <2>3, <2>4, <3>1
    <2>5. CASE n + 1 \in I
      <3>1. PICK t \in Seq(S) : t = g[n]  BY <2>3
      <3>2. PICK u : u = Append(t, s[n + 1])  OBVIOUS
      <3>3. s[n + 1] \in S  BY <1>1, <2>1
      <3>4. /\ u \in Seq(S) /\ Len(t) \in Nat /\ Len(u) = Len(t) + 1 /\ u[Len(t) + 1] = s[n + 1]
            /\ \A k \in 1..Len(t) : u[k] = t[k]
        BY <3>2, <3>3
      <3> DEFINE p == [k \in 1..Len(u) |-> IF k = Len(u) THEN n + 1 ELSE m[k]]
      <3>5. m \in [1..Len(t) -> Up(n)]
            /\ (\A j, k \in 1..Len(t) : j < k => m[j] < m[k])
            /\ (\A i \in Up(n) : \E k \in 1..Len(t) : m[k] = i)
            /\ (\A k \in 1..Len(t) : t[k] = s[m[k]])
        BY <2>3, <3>1 DEF Picks
      <3>6. /\ \A k \in 1..Len(t) : p[k] = m[k]
            /\ p[Len(u)] = n + 1
        BY <3>4
      <3>7. \A k \in 1..Len(u) : k \in 1..Len(t) \/ k = Len(u)  BY <3>4
      <3>8. p \in [1..Len(u) -> Up(n + 1)]
        <4>1. \A k \in 1..Len(t) : m[k] \in Up(n + 1)  BY <3>5
        <4>2. n + 1 \in Up(n + 1)  BY <2>5
        <4> QED  BY <4>1, <4>2, <3>7
      <3> HIDE DEF p
      <3>9. \A j, k \in 1..Len(u) : j < k => p[j] < p[k]
        <4> SUFFICES ASSUME NEW j \in 1..Len(u), NEW k \in 1..Len(u), j < k PROVE p[j] < p[k]
          OBVIOUS
        <4>1. j \in 1..Len(t)  BY <3>4
        <4>2. m[j] \in 1..n  BY <4>1, <3>5
        <4> QED  BY <3>5, <3>6, <3>7, <4>1, <4>2
      <3>10. \A i \in Up(n + 1) : \E k \in 1..Len(u) : p[k] = i
        <4> SUFFICES ASSUME NEW i \in Up(n + 1) PROVE \E k \in 1..Len(u) : p[k] = i
          OBVIOUS
        <4>1. CASE i = n + 1
          <5>1. Len(u) \in 1..Len(u)  BY <3>4
          <5> QED  BY <3>6, <4>1, <5>1
        <4>2. CASE i \in Up(n)
          <5>1. PICK k \in 1..Len(t) : m[k] = i  BY <3>5, <4>2
          <5>2. k \in 1..Len(u)  BY <3>4
          <5> QED  BY <3>6, <5>1, <5>2
        <4> QED  BY <4>1, <4>2
      <3>11. \A k \in 1..Len(u) : u[k] = s[p[k]]
        <4> SUFFICES ASSUME NEW k \in 1..Len(u) PROVE u[k] = s[p[k]]
          OBVIOUS
        <4>1. CASE k = Len(u)  BY <3>4, <3>6, <4>1
        <4>2. CASE k \in 1..Len(t)  BY <3>4, <3>5, <3>6, <4>2
        <4> QED  BY <3>7, <4>1, <4>2
      <3>12. Picks(p, u, s, Up(n + 1))  BY <3>8, <3>9, <3>10, <3>11 DEF Picks
      <3>13. g[n + 1] = u  BY <2>2, <2>5, <3>1, <3>2
      <3> QED  BY <3>4, <3>12, <3>13
    <2> QED  BY <2>4, <2>5
  <1> HIDE DEF Fits
  <1>5. Nat \subseteq Good  BY <1>3, <1>4, NatSteps
  <1>6. Fits(Len(s))  BY <1>1, <1>5
  <1>7. Up(Len(s)) = I /\ Len(s) <= Len(s)
    <2>1. I \subseteq 1..Len(s)  OBVIOUS
    <2>2. Len(s) <= Len(s)  BY <1>1
    <2> QED  BY <2>1, <2>2, Zenon
  <1>8. g[Len(s)] \in Seq(S) /\ \E m : Picks(m, g[Len(s)], s, Up(Len(s)))
    BY <1>6, <1>7, Zenon DEF Fits
  <1> HIDE DEF Up
  <1> QED  BY <1>2, <1>7, <1>8, Zenon
\* Its members.
LEMMA SubsequenceSet ==
  ASSUME NEW S, NEW s \in Seq(S), NEW I \in SUBSET (1..Len(s))
  PROVE  /\ Subsequence(s, I) \in Seq(S)
         /\ ToSet(Subsequence(s, I)) = {s[i] : i \in I}
  <1>1. PICK t \in Seq(S) : t = Subsequence(s, I)  BY SubsequenceIs
  <1>2. PICK m : Picks(m, t, s, I)  BY <1>1, SubsequenceIs
  <1>3. DOMAIN t = 1..Len(t)  OBVIOUS
  <1>4. \A k \in DOMAIN t : m[k] \in I /\ t[k] = s[m[k]]  BY <1>2, <1>3 DEF Picks
  <1>5. \A i \in I : \E k \in DOMAIN t : m[k] = i  BY <1>2, <1>3 DEF Picks
  <1>6. ToSet(t) = {s[i] : i \in I}
    <2>1. ASSUME NEW x \in ToSet(t) PROVE x \in {s[i] : i \in I}
      BY <1>4, <2>1 DEF ToSet
    <2>2. ASSUME NEW i \in I PROVE s[i] \in ToSet(t)
      BY <1>4, <1>5 DEF ToSet
    <2> QED  BY <2>1, <2>2
  <1> QED  BY <1>1, <1>6

\* It holds no entry twice when s does not.
LEMMA SubsequenceDistinct ==
  ASSUME NEW S, NEW s \in Seq(S), NEW I \in SUBSET (1..Len(s)),
         \A i, j \in I : s[i] = s[j] => i = j
  PROVE  IsInjective(Subsequence(s, I))
  <1>1. PICK t \in Seq(S) : t = Subsequence(s, I)  BY SubsequenceIs
  <1>2. PICK m : Picks(m, t, s, I)  BY <1>1, SubsequenceIs
  <1>3. DOMAIN t = 1..Len(t) /\ Len(t) \in Nat /\ DOMAIN s = 1..Len(s) /\ Len(s) \in Nat
    OBVIOUS
  <1>4. ASSUME NEW j \in 1..Len(t), NEW k \in 1..Len(t), t[j] = t[k] PROVE j = k
    <2>1. m[j] \in I /\ m[k] \in I /\ s[m[j]] = s[m[k]]  BY <1>2, <1>4 DEF Picks
    <2>2. m[j] = m[k]  BY <2>1
    <2>3. m[j] \in 1..Len(s)  BY <2>1
    <2>4. (j < k => m[j] < m[k]) /\ (k < j => m[k] < m[j])  BY <1>2 DEF Picks
    <2> QED  BY <1>3, <2>2, <2>3, <2>4
  <1> QED  BY <1>1, <1>3, <1>4 DEF IsInjective

\* The first entries are the beginning of s.
LEMMA SubsequenceFront ==
  ASSUME NEW S, NEW s \in Seq(S), NEW m \in 0..Len(s)
  PROVE  Subsequence(s, 1..m) = SubSeq(s, 1, m)
  <1>1. PICK n \in Nat : n = Len(s)  OBVIOUS
  <1>2. PICK g : Takes(g, s, 1..m, n) /\ Subsequence(s, 1..m) = g[n]
    BY <1>1, SubsequenceTakes
  <1> DEFINE End(k) == IF k <= m THEN k ELSE m
             Good == {k \in Nat : k <= n => g[k] = SubSeq(s, 1, End(k))}
  <1>3. 0 \in Good
    <2>1. g[0] = <<>>  BY <1>2 DEF Takes
    <2>2. SubSeq(s, 1, 0) = <<>> /\ End(0) = 0  OBVIOUS
    <2> QED  BY <2>1, <2>2
  <1>4. ASSUME NEW k \in Nat, k \in Good PROVE k + 1 \in Good
    <2> SUFFICES ASSUME k + 1 <= n PROVE g[k + 1] = SubSeq(s, 1, End(k + 1))
      OBVIOUS
    <2>1. k + 1 \in 0..n /\ k + 1 # 0 /\ (k + 1) - 1 = k /\ k <= n  OBVIOUS
    <2>2. g[k + 1] = IF k + 1 \in 1..m THEN Append(g[k], s[k + 1]) ELSE g[k]
      BY <1>2, <2>1 DEF Takes
    <2>3. g[k] = SubSeq(s, 1, End(k))  BY <1>4, <2>1
    <2>4. CASE k + 1 \in 1..m
      <3>1. End(k) = k /\ End(k + 1) = k + 1  BY <2>4
      <3>2. Append(SubSeq(s, 1, k), s[k + 1]) = SubSeq(s, 1, k + 1)
        BY <1>1, <2>1
      <3> QED  BY <2>2, <2>3, <2>4, <3>1, <3>2
    <2>5. CASE k + 1 \notin 1..m
      <3>1. End(k) = m /\ End(k + 1) = m  BY <2>5
      <3> QED  BY <2>2, <2>3, <2>5, <3>1
    <2> QED  BY <2>4, <2>5
  <1>5. n \in Good  BY <1>3, <1>4, NatSteps
  <1>6. End(n) = m  BY <1>1
  <1> QED  BY <1>2, <1>5, <1>6
=============================================================================
