--------------------------- MODULE DownloadProofs ---------------------------
(***************************************************************************)
(* What holds of the two kinds of history that are downloaded, whatever    *)
(* the sizes, dates, exchanges, crashes and the number of downloads.       *)
(*                                                                         *)
(* Candles (CandleStore): the file implements the archive of               *)
(* CandleArchive, and a candle that was stored unfinished is the newest of *)
(* the file or was overtaken while the pages arrived, however long that    *)
(* takes.  A page lists all of its stretch that had closed when it         *)
(* arrived (PageOK), so that a candle that two pages disagree about had    *)
(* not closed when the one arrived and had when the other did; the row     *)
(* that is dropped is the newest such, and only a candle two older than a  *)
(* later page was overtaken.  Fits(T, W, N, D) says when the candles N of  *)
(* a download may join the candles D that are stored; Joined shows which   *)
(* gaps the file then has, and Store that what is fetched always fits, for *)
(* W the candles that were not overtaken.                                  *)
(*                                                                         *)
(* Trades (TradeHistory): what is stored has no hole that the market did   *)
(* not have, and a download that ends has all it was asked for.  TInv says *)
(* at each step how what was fetched lies to what is stored: it is one     *)
(* stretch, it reaches what is stored or comes from before it (Nears), and *)
(* all that is Sought is in it or lies behind the cursor.  The archives    *)
(* bring whole days (ReadTo), which is why they reach a trade at the very  *)
(* moment where they meet the stored ones.                                 *)
(***************************************************************************)
EXTENDS CandleStore, TradeHistory, SumLemmas, SequenceTheorems

\* A candle that was not traded stands behind another one.
Backed(T, S) == \A v \in S : v \notin T => v - 1 \in S

\* The candles of T that are missing between two of S.
Gaps(T, S) == {t \in T \ S : \E a, b \in S : a < t /\ t < b}

\* No candle of W is missing between two of N.
Stretch(W, N) == \A a, c \in N : \A u \in W : a <= u /\ u <= c => u \in N

\* Nor between a and one of N.
ClosedFrom(W, N, a) == \A c \in N : a <= c /\ \A u \in W : a <= u /\ u <= c => u \in N

\* N goes on from D, or ends at D, where one candle may be left out; of the
\* traded candles T only those of W are counted.
Fits(T, W, N, D) ==
    /\ Stretch(W, N) /\ Backed(T, N)
    /\ N # {} /\ D # {} =>
         /\ ~ \E u, v \in W \ N : u < v /\ (\E n \in N : n < u) /\ (\A d \in D : v < d)
         /\ ~ \E u \in W : (\A d \in D : d < u) /\ (\A n \in N : u < n)

Candles(h, S) == \A x \in S : x \in Int /\ 0 <= x /\ x <= h

-----------------------------------------------------------------------------
(* Sets of candles                                                          *)

LEMMA MaxOf ==
  ASSUME NEW h \in Int, NEW S, Candles(h, S), S # {}, NEW p, p = Max(S)
  PROVE  p \in S /\ p \in Int /\ 0 <= p /\ p <= h /\ \A x \in S : x <= p
<1>1. \A x \in S : x \in Int /\ x <= h  BY DEF Candles
<1>2. p \in S /\ \A x \in S : x <= p  BY <1>1, MaxExists
<1> QED  BY <1>2 DEF Candles

LEMMA MinOf ==
  ASSUME NEW h \in Int, NEW S, Candles(h, S), S # {}, NEW q, q = Min(S)
  PROVE  q \in S /\ q \in Int /\ 0 <= q /\ q <= h /\ \A x \in S : q <= x
<1>1. (\A x \in S : x \in Int /\ 0 <= x) /\ 0 \in Int  BY DEF Candles
<1>2. q \in S /\ \A x \in S : q <= x  BY <1>1, MinExists
<1> QED  BY <1>2 DEF Candles

\* The first candle of a set was traded.
LEMMA FirstIsTraded ==
  ASSUME NEW T, NEW h \in Int, NEW S, Candles(h, S), Backed(T, S),
         NEW q \in S, \A x \in S : q <= x
  PROVE  q \in T
<1> SUFFICES ASSUME q \notin T PROVE FALSE  OBVIOUS
<1>1. q - 1 \in S  BY DEF Backed
<1>2. q \in Int /\ q <= q - 1  BY <1>1 DEF Candles
<1> QED  BY <1>2

\* Dropping the newest row leaves what is known of the others.
LEMMA DroppedIsBacked ==
  ASSUME NEW T, NEW h \in Int, NEW S, Candles(h, S), Backed(T, S),
         NEW p \in S, \A x \in S : x <= p
  PROVE  Backed(T, S \ {p})
<1> SUFFICES ASSUME NEW v \in S \ {p}, v \notin T PROVE v - 1 \in S \ {p}
  BY DEF Backed
<1>1. v - 1 \in S  BY DEF Backed
<1>2. v \in Int /\ p \in Int /\ v <= p  BY DEF Candles
<1>3. v - 1 # p  BY <1>2
<1> QED  BY <1>1, <1>3

LEMMA JoinedIsBacked ==
  ASSUME NEW T, NEW W, NEW D, NEW N, Backed(T, D), Fits(T, W, N, D)
  PROVE  Backed(T, D \union N)
BY DEF Backed, Fits

-----------------------------------------------------------------------------
(* A download that fits is a step of the archive                            *)

\* Behind the last settled candle nothing that was traded is held.
LEMMA NothingBehind ==
  ASSUME NEW T, NEW h \in Int, NEW S, Candles(h, S), Backed(T, S),
         NEW u \in T, u \in Int, \A x \in S \intersect T : x < u
  PROVE  \A d \in S : d < u
<1> SUFFICES ASSUME NEW d \in S, ~ (d < u) PROVE FALSE  OBVIOUS
<1>1. PICK B : B = {x \in S : u < x}  OBVIOUS
<1>2. u \notin S  OBVIOUS
<1>3. d \in Int /\ u < d  BY <1>2 DEF Candles
<1>4. B # {}  BY <1>1, <1>3
<1>5. Candles(h, B)  BY <1>1 DEF Candles
<1>6. PICK w : w = Min(B)  OBVIOUS
<1>7. w \in B /\ w \in Int /\ \A x \in B : w <= x  BY <1>4, <1>5, <1>6, MinOf
<1>8. w \in S /\ u < w  BY <1>1, <1>7
<1>9. w \notin T
  <2>1. ~ (w < u)  BY <1>7, <1>8
  <2> QED  BY <1>8, <2>1
<1>10. w - 1 \in S  BY <1>8, <1>9 DEF Backed
<1>11. w - 1 # u /\ w - 1 \in Int  BY <1>2, <1>7, <1>10
<1>12. u < w - 1  BY <1>7, <1>8, <1>11
<1>13. w - 1 \in B  BY <1>1, <1>10, <1>12
<1> QED  BY <1>7, <1>13

\* The gaps that a download leaves: those that were there, those of candles
\* that are not counted, and one candle in front of what was held.
LEMMA Joined ==
  ASSUME NEW h \in Int, NEW T, \A x \in T : x \in Int, NEW W, W \subseteq T,
         NEW D, NEW N, Candles(h, D), Candles(h, N), Backed(T, D), Fits(T, W, N, D),
         NEW p \in D \union N, \A x \in D \union N : x <= p
  PROVE  \E B : /\ \A u, v \in B : ~ (u < v)
                /\ \A u \in B : u \in T /\ D \intersect T # {} /\ \A s \in D \intersect T : u < s
                /\ Gaps(T, ((D \union N) \ {p}) \intersect T)
                     \subseteq Gaps(T, D \intersect T) \union (T \ W) \union B
<1> PICK S, S2 : S = D \intersect T /\ S2 = ((D \union N) \ {p}) \intersect T
  OBVIOUS
<1> SUFFICES \E B : /\ \A u, v \in B : ~ (u < v)
                    /\ \A u \in B : u \in T /\ S # {} /\ \A s \in S : u < s
                    /\ Gaps(T, S2) \subseteq Gaps(T, S) \union (T \ W) \union B
  OBVIOUS
<1> DEFINE B == {u \in W \ N : (\E n \in N : n < u) /\ D # {} /\ (\A d \in D : u < d)}
<1>1. \A x \in D \union N : x \in Int /\ x <= p  BY DEF Candles
<1>2. p \in Int  BY <1>1
<1>3. ASSUME NEW u \in B, NEW v \in B, u < v PROVE FALSE
  <2>1. u \in W \ N /\ v \in W \ N /\ (\E n \in N : n < u) /\ (\A d \in D : v < d) /\ D # {}
    OBVIOUS
  <2>2. N # {}  BY <2>1
  <2> QED  BY <1>3, <2>1, <2>2 DEF Fits
<1>4. ASSUME NEW u \in B PROVE u \in T /\ S # {} /\ \A s \in S : u < s
  <2>1. D # {} /\ \A d \in D : u < d  OBVIOUS
  <2>2. PICK q : q = Min(D)  OBVIOUS
  <2>3. q \in D /\ \A x \in D : q <= x  BY <2>1, <2>2, MinOf
  <2>4. q \in T  BY <2>3, FirstIsTraded
  <2> QED  BY <2>1, <2>3, <2>4
<1>5. ASSUME NEW u \in Gaps(T, S2) PROVE u \in Gaps(T, S) \union (T \ W) \union B
  <2>1. PICK a \in S2, b \in S2 : u \in T \ S2 /\ a < u /\ u < b  BY DEF Gaps
  <2>2. /\ a \in D \union N /\ b \in D \union N /\ a \in T /\ b \in T
        /\ u \in Int /\ a \in Int /\ b \in Int
    BY <1>1, <2>1
  <2>3. u # p  BY <1>1, <1>2, <2>1, <2>2
  <2>4. u \notin D /\ u \notin N  BY <2>1, <2>3
  <2> SUFFICES ASSUME u \in W, u \notin Gaps(T, S) PROVE u \in B
    BY <2>1
  <2>5. ~ \E c, d \in S : c < u /\ u < d  BY <2>1, <2>4 DEF Gaps
  <2>6. ~ \E c, d \in N : c < u /\ u < d
    <3> SUFFICES ASSUME NEW c \in N, NEW d \in N, c < u, u < d PROVE FALSE  OBVIOUS
    <3>1. c \in Int /\ d \in Int  BY <1>1
    <3>2. c <= u /\ u <= d  BY <2>2, <3>1
    <3> QED  BY <2>4, <3>2 DEF Fits, Stretch
  <2>7. CASE a \in D /\ b \in N
    <3>1. \A x \in D \intersect T : x < u
      <4> SUFFICES ASSUME NEW x \in S, ~ (x < u) PROVE FALSE  OBVIOUS
      <4>1. x \in Int /\ x # u  BY <1>1, <2>4
      <4>2. u < x  BY <2>2, <4>1
      <4> QED  BY <2>1, <2>2, <2>5, <2>7, <4>2
    <3>2. \A d \in D : d < u  BY <2>1, <2>2, <3>1, NothingBehind
    <3>3. \A n \in N : u < n
      <4> SUFFICES ASSUME NEW n \in N, ~ (u < n) PROVE FALSE  OBVIOUS
      <4>1. n \in Int /\ n # u  BY <1>1, <2>4
      <4>2. n < u  BY <2>2, <4>1
      <4> QED  BY <2>1, <2>6, <2>7, <4>2
    <3> QED  BY <2>7, <3>2, <3>3 DEF Fits
  <2>8. CASE a \in N /\ b \in D
    <3>1. \A d \in D : u < d
      <4>1. PICK q : q = Min(D)  OBVIOUS
      <4>2. q \in D /\ q \in Int /\ \A x \in D : q <= x  BY <2>8, <4>1, MinOf
      <4>3. q \in T  BY <4>2, FirstIsTraded
      <4>4. ~ (q < u)  BY <2>1, <2>2, <2>5, <2>8, <4>2, <4>3
      <4>5. q # u  BY <2>4, <4>2
      <4>6. u < q  BY <2>2, <4>2, <4>4, <4>5
      <4> SUFFICES ASSUME NEW d \in D PROVE u < d  OBVIOUS
      <4>7. d \in Int /\ q <= d  BY <1>1, <4>2
      <4> QED  BY <2>2, <4>2, <4>6, <4>7
    <3> QED  BY <2>1, <2>4, <2>8, <3>1
  <2>9. CASE a \in D /\ b \in D
    <3>1. a \in S /\ b \in S  BY <2>2, <2>9
    <3> QED  BY <2>1, <2>5, <3>1
  <2>10. CASE a \in N /\ b \in N  BY <2>1, <2>6, <2>10
  <2> QED  BY <2>2, <2>7, <2>8, <2>9, <2>10
<1>6. WITNESS B
<1> HIDE DEF B
<1> QED  BY <1>3, <1>4, <1>5

\* What was held is kept but for its newest settled candle.
LEMMA KeptRows ==
  ASSUME NEW T, NEW h \in Int, NEW D, Candles(h, D), NEW R, D \subseteq R, Candles(h, R),
         NEW p \in R, \A x \in R : x <= p, NEW S, S = D \intersect T
  PROVE  S \ {Max(S \union {0})} \subseteq (R \ {p}) \intersect T
<1>1. CASE p \in D /\ p \in T
  <2>1. PICK B : B = S \union {0}  OBVIOUS
  <2>2. p \in B /\ p \in Int /\ 0 <= p  BY <1>1, <2>1 DEF Candles
  <2>3. \A x \in B : x \in Int /\ x <= p  BY <2>1, <2>2 DEF Candles
  <2>4. Max(B) = p  BY <2>2, <2>3, MaxIs
  <2> QED  BY <2>1, <2>4
<1>2. CASE ~ (p \in D /\ p \in T)  BY <1>2
<1> QED  BY <1>1, <1>2

-----------------------------------------------------------------------------
(* The invariant                                                            *)

Traded == (0..Horizon) \ untraded

\* The traded candles that were not overtaken while the pages arrived.
Wanted == Traded \ Overtaken

NewestOnly(df, O) ==
    \A t \in Held(df) : df[t] = "partial" => t \in O \/ \A x \in Held(df) : x <= t

\* When pages arrived.
AskedInv ==
    /\ pc \notin {"fetch", "write"} => firstReply = None
    /\ IF firstReply = None THEN lastReply = None ELSE firstReply <= lastReply /\ lastReply <= now

\* The file: the untraded candles in it stand behind others.
FileInv ==
    /\ Candles(now, Held(rows)) /\ Backed(Traded, Held(rows)) /\ NewestOnly(rows, overtaken)

\* The quick download was chosen because one reply reaches past the file.
QuickInv == pc = "quick" /\ job.start # None => \A w \in Held(rows) : w < job.start + Limit

\* What it brought is a stretch without gaps, which reaches the file's end.
FastInv ==
    /\ pc \notin {"load", "store"} => Held(fast) = {}
    /\ pc = "store" => Held(fast) # {}
    /\ Held(fast) # {} =>
         \E lo, hi \in 0..Horizon :
           /\ Held(fast) = lo..hi /\ lo \in Traded /\ lo <= hi /\ hi < now
           /\ \A t \in Held(fast) : fast[t] # "partial"
           /\ \A u, v \in Traded :
                lo <= u /\ u < v /\ (\E w \in Held(rows) : v < w) => u \in Held(fast)
           /\ pc = "store" =>
                Held(data) # {} /\ ~job.prepend /\ lo <= Max(Held(data))

LoadInv == pc \in {"archive", "rest", "fetch", "store"} => data = DropLast(rows)

\* The archives are read without a gap, from a on.
ArchInv ==
    /\ pc \notin {"rest", "fetch"} => Held(arch) = {}
    /\ pc \in {"archive", "rest", "fetch"} =>
         /\ \A t \in Held(arch) : t \in Traded /\ arch[t] = "final" /\ t < now
         /\ \E a \in 0..(Horizon + 1) :
              /\ ClosedFrom(Traded, Held(arch), a)
              /\ Held(arch) = {} => from = a
              /\ Held(arch) # {} => from = Max(Held(arch)) + 1
              /\ Held(data) # {} /\ ~job.prepend => a = Max(Held(data))
         /\ Until(data) # None => \A t \in Held(arch) : t < Until(data)

\* The pages are laid out up to an end.
Starts(end) == {s \in from..(end - 1) : (s - from) % Limit = 0}

\* A page that arrived when p was in progress lists every candle of its
\* stretch that was closed then, and p at most as its last row.
PageOK(df, s, p) ==
    /\ Held(df) \subseteq Traded /\ Candles(p, Held(df)) /\ ClosedFrom(Traded, Held(df), s)
    /\ \A u \in Traded : s <= u /\ u < s + Limit /\ u < p => u \in Held(df)
    /\ \A t \in Held(df) : df[t] \in {"final", "partial"} /\ (df[t] = "partial" => t = p)

\* Such a page arrived during this download, when nothing newer was stored.
Arrived(df, s) ==
    \E p \in Int : /\ firstReply # None /\ firstReply <= p /\ p <= lastReply
                   /\ Candles(p, Held(rows)) /\ PageOK(df, s, p)

PageInv ==
    /\ pc # "fetch" => DOMAIN got = {} /\ todo = {}
    /\ pc = "fetch" =>
         /\ \E end \in Int : /\ DOMAIN got \union todo = Starts(end)
                             /\ Until(data) # None => end = Until(data)
         /\ \A s \in DOMAIN got : Arrived(got[s], s)

\* What is written fits what was stored.
WriteInv ==
    pc = "write" =>
      /\ Candles(now, Held(data)) /\ NewestOnly(data, overtaken \union Overtaken)
      /\ \E N \in SUBSET (0..Horizon) :
           /\ Candles(now, N) /\ Held(data) = Held(DropLast(rows)) \union N
           /\ Fits(Traded, Wanted, N, Held(DropLast(rows)))

CInv == /\ TypeOK /\ AskedInv /\ FileInv /\ QuickInv /\ FastInv /\ LoadInv /\ ArchInv
        /\ PageInv /\ WriteInv

-----------------------------------------------------------------------------
(* Replies and dataframes                                                   *)

LEMMA CountBelow ==
  ASSUME NEW s \in Int, NEW S, \A x \in S : x \in Int /\ s <= x, NEW u \in Int, s <= u,
         NEW B, B = {x \in S : x < u}
  PROVE  IsFiniteSet(B) /\ Cardinality(B) \in Nat /\ Cardinality(B) <= u - s
<1>1. PICK hi \in Int : hi = u - 1  OBVIOUS
<1>2. B \subseteq s..hi  BY <1>1
<1>3. s <= hi + 1 /\ hi - s + 1 = u - s  BY <1>1
<1> QED  BY <1>2, <1>3, FewBetween

\* The numbers of candles before one and before a later one.
LEMMA CountGrows ==
  ASSUME NEW A, NEW B, IsFiniteSet(B), A \subseteq B
  PROVE  Cardinality(A) \in Nat /\ Cardinality(B) \in Nat /\ Cardinality(A) <= Cardinality(B)
BY FS_Subset, FS_CardinalityType

LEMMA ClockFacts ==
  ASSUME TypeOK
  PROVE  /\ Horizon \in Int /\ now \in Int /\ 0 <= now /\ now <= Horizon
         /\ \A t \in Traded : t \in Int /\ 0 <= t /\ t <= Horizon /\ t \notin untraded
         /\ Limit \in Int /\ 1 <= Limit
<1>1. Horizon \in Int /\ Limit \in Int /\ 1 <= Limit  BY BoundsAssumption
<1>2. now \in 0..Horizon  BY DEF TypeOK
<1> QED  BY <1>1, <1>2 DEF Traded

\* Pages arrive one after the other, and no later than now.
LEMMA ReplyFacts ==
  ASSUME TypeOK, AskedInv, firstReply # None
  PROVE  /\ firstReply \in Int /\ lastReply \in Int /\ 0 <= firstReply
         /\ firstReply <= lastReply /\ lastReply <= now
<1>1. Horizon \in Int  BY ClockFacts
<1>2. firstReply \in 0..Horizon /\ lastReply \in 0..Horizon \union {None}  BY DEF TypeOK
<1> QED  BY <1>1, <1>2 DEF AskedInv, None

LEMMA ListedFacts ==
  ASSUME TypeOK, NEW traded \in BOOLEAN, NEW S, S = Listed(traded)
  PROVE  /\ \A t \in S : t \in Traded /\ t \in Int /\ 0 <= t /\ t <= now
         /\ \A t \in Traded : t < now => t \in S
         /\ \A c \in S : \A u \in Traded : u <= c => u \in S
<1>1. /\ Horizon \in Int /\ now \in Int /\ 0 <= now /\ now <= Horizon
      /\ \A t \in Traded : t \in Int /\ 0 <= t /\ t <= Horizon /\ t \notin untraded
  BY ClockFacts
<1>2. \A t \in S : t \in 0..now /\ t \notin untraded /\ (t = now => traded)  BY DEF Listed
<1>3. \A t \in 0..now : t \notin untraded /\ (t = now => traded) => t \in S  BY DEF Listed
<1>4. \A t \in S : t \in Traded /\ t \in Int /\ 0 <= t /\ t <= now
  BY <1>1, <1>2 DEF Traded
<1>5. \A t \in Traded : t < now => t \in S  BY <1>1, <1>3
<1>6. ASSUME NEW c \in S, NEW u \in Traded, u <= c PROVE u \in S
  <2>1. u \in 0..now /\ u \notin untraded /\ c \in Int /\ c <= now  BY <1>1, <1>4, <1>6
  <2>2. u = now => c = now  BY <1>1, <1>6, <2>1
  <2> QED  BY <1>2, <1>3, <2>1, <2>2
<1> QED  BY <1>4, <1>5, <1>6

LEMMA Pages ==
  ASSUME TypeOK, NEW traded \in BOOLEAN, NEW s \in Int, 0 <= s,
         NEW df, df = PageFrom(s, traded)
  PROVE  PageOK(df, s, now)
<1>1. /\ Horizon \in Int /\ now \in Int /\ 0 <= now /\ now <= Horizon
      /\ Limit \in Int
      /\ \A t \in Traded : t \in Int /\ 0 <= t /\ t <= Horizon
  BY ClockFacts
<1>2. PICK Open : Open = Listed(traded)  OBVIOUS
<1>3. /\ \A t \in Open : t \in Traded /\ t \in Int /\ 0 <= t /\ t <= now
      /\ \A t \in Traded : t < now => t \in Open
      /\ \A c \in Open : \A u \in Traded : u <= c => u \in Open
  BY <1>2, ListedFacts
<1>4. PICK S : S = {t \in Open : t >= s}  OBVIOUS
<1>5. PICK P : P = {t \in S : Cardinality({u \in S : u < t}) < Limit}  OBVIOUS
<1>6. df = [t \in P |-> IF t = now THEN "partial" ELSE "final"]
  BY <1>2, <1>4, <1>5 DEF PageFrom, Reply
<1>7. Held(df) = P  BY <1>6 DEF Held
<1>8. \A x \in S : x \in Int /\ s <= x /\ x \in Open  BY <1>3, <1>4
<1>9. ASSUME NEW u \in S, NEW k \in Int, u - s < k, k <= Limit PROVE u \in P
  <2>1. PICK B : B = {x \in S : x < u}  OBVIOUS
  <2>2. Cardinality(B) \in Nat /\ Cardinality(B) <= u - s  BY <1>8, <2>1, CountBelow
  <2>3. Cardinality(B) < Limit  BY <1>1, <1>8, <1>9, <2>2
  <2> QED  BY <1>5, <2>1, <2>3
<1>10. ASSUME NEW c \in P, NEW u \in S, u <= c PROVE u \in P
  <2>1. c \in S /\ c \in Int /\ u \in Int /\ s <= c  BY <1>5, <1>8
  <2>2. PICK A, B : A = {x \in S : x < u} /\ B = {x \in S : x < c}  OBVIOUS
  <2>3. IsFiniteSet(B)  BY <1>8, <2>1, <2>2, CountBelow
  <2>4. A \subseteq B
    <3> SUFFICES ASSUME NEW x \in A PROVE x \in B  OBVIOUS
    <3>1. x \in S /\ x \in Int /\ x < u  BY <1>8, <2>2
    <3>2. x < c  BY <1>10, <2>1, <3>1
    <3> QED  BY <2>2, <3>1, <3>2
  <2>5. Cardinality(A) \in Nat /\ Cardinality(B) \in Nat /\ Cardinality(A) <= Cardinality(B)
    BY <2>3, <2>4, CountGrows
  <2>6. Cardinality(B) < Limit  BY <1>5, <2>2
  <2>7. Cardinality(A) < Limit  BY <1>1, <2>5, <2>6
  <2> QED  BY <1>5, <2>2, <2>7
<1>11. Held(df) \subseteq Traded /\ Candles(now, Held(df))
  BY <1>3, <1>5, <1>7, <1>8 DEF Candles
<1>12. ClosedFrom(Traded, Held(df), s)
  <2> SUFFICES ASSUME NEW c \in P PROVE s <= c /\ \A u \in Traded : s <= u /\ u <= c => u \in P
    BY <1>7 DEF ClosedFrom
  <2>1. c \in S /\ c \in Open /\ s <= c  BY <1>5, <1>8
  <2>2. ASSUME NEW u \in Traded, s <= u, u <= c PROVE u \in P
    <3>1. u \in Open /\ u >= s  BY <1>1, <1>3, <2>1, <2>2
    <3>2. u \in S  BY <1>4, <3>1
    <3> QED  BY <1>10, <2>2, <3>2
  <2> QED  BY <2>1, <2>2
<1>13. ASSUME NEW u \in Traded, s <= u, u < s + Limit, u < now PROVE u \in Held(df)
  <2>1. u < now /\ u \in Int /\ u >= s  BY <1>1, <1>13
  <2>2. u \in S  BY <1>3, <1>4, <2>1
  <2>3. u - s < Limit  BY <1>1, <1>13, <2>1
  <2> QED  BY <1>1, <1>7, <1>9, <2>2, <2>3
<1>14. ASSUME NEW t \in Held(df)
       PROVE  /\ df[t] \in {"final", "partial"}
              /\ df[t] = "partial" => t = now
  <2>1. df[t] = IF t = now THEN "partial" ELSE "final"  BY <1>6, <1>7
  <2> QED  BY <2>1
<1> QED  BY <1>11, <1>12, <1>13, <1>14 DEF PageOK

\* The latest candles reach up to the newest.
LEMMA Latest ==
  ASSUME TypeOK, NEW traded \in BOOLEAN, NEW P, P = Held(LatestPage(traded)),
         NEW c \in P, NEW u \in Traded, c <= u, u < now
  PROVE  u \in P
<1>1. /\ Horizon \in Int /\ now \in Int /\ 0 <= now /\ now <= Horizon /\ Limit \in Int
      /\ \A t \in Traded : t \in Int /\ 0 <= t /\ t <= Horizon
  BY ClockFacts
<1>2. PICK S : S = Listed(traded)  OBVIOUS
<1>3. /\ \A t \in S : t \in Traded /\ t \in Int /\ 0 <= t /\ t <= now
      /\ \A t \in Traded : t < now => t \in S
  BY <1>2, ListedFacts
<1>4. P = {t \in S : Cardinality({x \in S : x > t}) < Limit}
  BY <1>2 DEF LatestPage, Reply, Held
<1>5. c \in S /\ u \in S /\ c \in Int /\ u \in Int  BY <1>1, <1>3, <1>4
<1>6. PICK A, B : A = {x \in S : x > u} /\ B = {x \in S : x > c}  OBVIOUS
<1>7. B \subseteq 0..now  BY <1>3, <1>6
<1>8. now \in Int /\ 0 \in Int /\ 0 <= now + 1  BY <1>1
<1>9. IsFiniteSet(B)  BY <1>7, <1>8, FewBetween
<1>10. A \subseteq B
  <2> SUFFICES ASSUME NEW x \in A PROVE x \in B  OBVIOUS
  <2>1. x \in S /\ x \in Int /\ u < x  BY <1>3, <1>6
  <2>2. c < x  BY <1>5, <2>1
  <2> QED  BY <1>6, <2>1, <2>2
<1>11. Cardinality(A) \in Nat /\ Cardinality(B) \in Nat /\ Cardinality(A) <= Cardinality(B)
  BY <1>9, <1>10, CountGrows
<1>12. Cardinality(B) < Limit  BY <1>4, <1>6
<1>13. Cardinality(A) < Limit  BY <1>1, <1>11, <1>12
<1> QED  BY <1>4, <1>5, <1>6, <1>13

LEMMA DropLastIs ==
  ASSUME NEW h \in Int, NEW df, Candles(h, Held(df)), NEW d, d = DropLast(df)
  PROVE  /\ Held(df) = {} => d = df
         /\ Held(df) # {} =>
              /\ Max(Held(df)) \in Held(df) /\ \A x \in Held(df) : x <= Max(Held(df))
              /\ Held(d) = Held(df) \ {Max(Held(df))}
         /\ Held(d) \subseteq Held(df)
         /\ \A t \in Held(d) : d[t] = df[t]
         /\ \A t \in Held(d) : \E x \in Held(df) : t < x
<1>1. CASE Held(df) = {}
  <2>1. d = df  BY <1>1 DEF DropLast
  <2> QED  BY <1>1, <2>1
<1>2. CASE Held(df) # {}
  <2>1. PICK p : p = Max(Held(df))  OBVIOUS
  <2>2. p \in Held(df) /\ p \in Int /\ \A x \in Held(df) : x <= p  BY <1>2, <2>1, MaxOf
  <2>3. d = [t \in Held(df) \intersect (Held(df) \ {p}) |-> df[t]]
    BY <1>2, <2>1 DEF DropLast, Keep, Held
  <2>4. Held(d) = Held(df) \ {p}  BY <2>3 DEF Held
  <2>5. \A t \in Held(d) : d[t] = df[t]  BY <2>3, <2>4
  <2>6. \A t \in Held(d) : t < p  BY <2>2, <2>4 DEF Candles
  <2> QED  BY <1>2, <2>1, <2>2, <2>4, <2>5, <2>6
<1> QED  BY <1>1, <1>2

LEMMA ConcatIs ==
  ASSUME NEW old, NEW new, NEW df, df = Concat(old, new)
  PROVE  /\ Held(df) = Held(old) \union Held(new)
         /\ \A t \in Held(new) : df[t] = new[t]
         /\ \A t \in Held(df) : t \notin Held(new) => df[t] = old[t]
BY DEF Concat, Held

-----------------------------------------------------------------------------
(* Every step keeps the invariant                                           *)

\* A dataframe of the types the model has.
Frame(df) == DOMAIN df \subseteq 0..Horizon /\ \A t \in DOMAIN df : df[t] \in Content

LEMMA TypeParts ==
  TypeOK <=> /\ archives \in BOOLEAN /\ now \in 0..Horizon /\ untraded \subseteq 0..Horizon
             /\ pc \in {"idle", "quick", "load", "archive", "rest", "fetch", "store", "write"}
             /\ job \in Jobs
             /\ Frame(rows) /\ Frame(data) /\ Frame(fast) /\ Frame(arch)
             /\ from \in 0..(Horizon + 1)
             /\ {firstReply, lastReply} \subseteq 0..Horizon \union {None}
             /\ overtaken \subseteq 0..Horizon
             /\ todo \subseteq 0..Horizon /\ DOMAIN got \subseteq 0..Horizon
BY DEF TypeOK, Frame

LEMMA NothingIs == Held(Nothing) = {} /\ Frame(Nothing)
BY DEF Nothing, Held, Frame

LEMMA SameTraded ==
  ASSUME UNCHANGED market
  PROVE  Traded' = Traded /\ now' = now
BY DEF market, Traded

\* The end of a download, with what it leaves in the file.
LEMMA IdleStep ==
  ASSUME CInv, Idle, UNCHANGED market, Frame(rows)', Candles(now, Held(rows')),
         Backed(Traded, Held(rows')), NewestOnly(rows', overtaken'), overtaken' \subseteq 0..Horizon
  PROVE  CInv'
<1>1. Traded' = Traded /\ now' = now /\ untraded' = untraded /\ archives' = archives
  BY SameTraded DEF market
<1>2. /\ pc' = "idle" /\ job' = NoJob /\ data' = Nothing /\ from' = 0 /\ arch' = Nothing
      /\ fast' = Nothing /\ todo' = {} /\ got' = Nothing
      /\ firstReply' = None /\ lastReply' = None
  BY DEF Idle
<1>3. Held(Nothing) = {} /\ Frame(Nothing) /\ DOMAIN Nothing = {}  BY NothingIs DEF Held
<1>4. TypeOK  BY DEF CInv
<1>5. Horizon \in Nat  BY BoundsAssumption
<1>6. NoJob \in Jobs  BY DEF NoJob, Jobs
<1>7. TypeOK'
  <2>1. Frame(data)' /\ Frame(fast)' /\ Frame(arch)'  BY <1>2, <1>3 DEF Frame
  <2>2. now' \in 0..Horizon /\ untraded' \subseteq 0..Horizon /\ archives' \in BOOLEAN
    BY <1>1, <1>4 DEF TypeOK
  <2>3. from' \in 0..(Horizon + 1)  BY <1>2, <1>5
  <2>4. todo' \subseteq 0..Horizon /\ DOMAIN got' \subseteq 0..Horizon  BY <1>2, <1>3
  <2>5. pc' \in {"idle", "quick", "load", "archive", "rest", "fetch", "store", "write"}
    BY <1>2
  <2>6. {firstReply', lastReply'} \subseteq 0..Horizon \union {None}  BY <1>2
  <2> QED  BY <1>2, <1>6, <2>1, <2>2, <2>3, <2>4, <2>5, <2>6 DEF TypeOK, Frame
<1>8. AskedInv'  BY <1>2 DEF AskedInv
<1>9. FileInv'  BY <1>1 DEF FileInv, NewestOnly
<1>10. QuickInv'  BY <1>2 DEF QuickInv
<1>11. FastInv'  BY <1>2, <1>3 DEF FastInv
<1>12. LoadInv'  BY <1>2 DEF LoadInv
<1>13. ArchInv'  BY <1>2, <1>3 DEF ArchInv
<1>14. PageInv'  BY <1>2, <1>3 DEF PageInv
<1>15. WriteInv'  BY <1>2 DEF WriteInv
<1> QED  BY <1>7, <1>8, <1>9, <1>10, <1>11, <1>12, <1>13, <1>14, <1>15 DEF CInv

LEMMA FetchFailsStep == CInv /\ FetchFails => CInv'
<1> SUFFICES ASSUME CInv, FetchFails PROVE CInv'  OBVIOUS
<1>1. Idle /\ UNCHANGED market /\ rows' = rows /\ overtaken' = overtaken  BY DEF FetchFails
<1>2. TypeOK /\ FileInv  BY DEF CInv
<1>3. Frame(rows)' /\ overtaken' \subseteq 0..Horizon  BY <1>1, <1>2, TypeParts DEF Frame
<1> QED  BY <1>1, <1>2, <1>3, IdleStep DEF FileInv, NewestOnly

LEMMA CrashStep == CInv /\ Crash => CInv'
<1> SUFFICES ASSUME CInv, Crash PROVE CInv'  OBVIOUS
<1>1. /\ Idle /\ UNCHANGED market /\ overtaken' = overtaken
      /\ rows' = (IF pc = "write" THEN Nothing ELSE rows)
  BY DEF Crash
<1>2. TypeOK /\ FileInv  BY DEF CInv
<1>3. overtaken' \subseteq 0..Horizon  BY <1>1, <1>2, TypeParts
<1>4. CASE pc # "write"
  <2>1. rows' = rows  BY <1>1, <1>4
  <2>2. Frame(rows)'  BY <1>2, <2>1, TypeParts DEF Frame
  <2> QED  BY <1>1, <1>2, <1>3, <2>1, <2>2, IdleStep DEF FileInv, NewestOnly
<1>5. CASE pc = "write"
  <2>1. rows' = Nothing  BY <1>1, <1>5
  <2>2. Held(rows') = {} /\ Frame(rows)'  BY <2>1, NothingIs DEF Frame
  <2>3. Candles(now, Held(rows')) /\ Backed(Traded, Held(rows')) /\ NewestOnly(rows', overtaken')
    BY <2>2 DEF Candles, Backed, NewestOnly
  <2> QED  BY <1>1, <1>3, <2>2, <2>3, IdleStep
<1> QED  BY <1>4, <1>5

LEMMA WrittenFits ==
  ASSUME CInv, Written
  PROVE  /\ Candles(now, Held(data)) /\ NewestOnly(data, overtaken \union Overtaken)
         /\ Backed(Traded, Held(data)) /\ Backed(Traded, Held(DropLast(rows)))
         /\ Candles(now, Held(DropLast(rows)))
         /\ \E N : /\ Candles(now, N) /\ Held(data) = Held(DropLast(rows)) \union N
                   /\ Fits(Traded, Wanted, N, Held(DropLast(rows)))
<1>1. pc = "write"  BY DEF Written
<1>2. TypeOK /\ FileInv /\ WriteInv  BY DEF CInv
<1>3. now \in Int  BY <1>2, ClockFacts
<1>4. Candles(now, Held(rows)) /\ Backed(Traded, Held(rows))  BY <1>2 DEF FileInv
<1>5. PICK S, D, T : S = Held(rows) /\ D = Held(DropLast(rows)) /\ T = Traded  OBVIOUS
<1>6. Candles(now, D) /\ Backed(T, D)
  <2>1. CASE S = {}
    <3>1. D = S  BY <1>3, <1>4, <1>5, <2>1, DropLastIs
    <3> QED  BY <1>4, <1>5, <3>1
  <2>2. CASE S # {}
    <3>1. PICK p : p = Max(S)  OBVIOUS
    <3>2. p \in S /\ (\A x \in S : x <= p) /\ D = S \ {p}
      BY <1>3, <1>4, <1>5, <2>2, <3>1, DropLastIs
    <3>3. Candles(now, S) /\ Backed(T, S)  BY <1>4, <1>5
    <3>4. Candles(now, D)  BY <3>2, <3>3 DEF Candles
    <3>5. Backed(T, S \ {p})  BY <1>3, <3>2, <3>3, DroppedIsBacked
    <3> QED  BY <3>2, <3>4, <3>5
  <2> QED  BY <2>1, <2>2
<1>7. Candles(now, Held(data)) /\ NewestOnly(data, overtaken \union Overtaken)
  BY <1>1, <1>2 DEF WriteInv
<1>8. PICK N : Candles(now, N) /\ Held(data) = D \union N /\ Fits(T, Wanted, N, D)
  BY <1>1, <1>2, <1>5 DEF WriteInv
<1>9. Backed(T, D \union N)  BY <1>6, <1>8, JoinedIsBacked
<1> QED  BY <1>5, <1>6, <1>7, <1>8, <1>9

LEMMA WrittenStep == CInv /\ Written => CInv'
<1> SUFFICES ASSUME CInv, Written PROVE CInv'  OBVIOUS
<1>1. /\ Idle /\ UNCHANGED market /\ rows' = data
      /\ overtaken' = (overtaken \union Overtaken) \intersect Unfinished(data)
  BY DEF Written
<1>2. TypeOK  BY DEF CInv
<1>3. Frame(rows)'  BY <1>1, <1>2, TypeParts DEF Frame
<1>4. /\ Candles(now, Held(data)) /\ NewestOnly(data, overtaken \union Overtaken)
      /\ Backed(Traded, Held(data))
  BY WrittenFits
<1>5. NewestOnly(data, overtaken')  BY <1>1, <1>4 DEF NewestOnly, Unfinished
<1>6. overtaken' \subseteq 0..Horizon
  <2>1. overtaken \subseteq 0..Horizon  BY <1>2, TypeParts
  <2> QED  BY <1>1, <2>1 DEF Overtaken
<1> QED  BY <1>1, <1>3, <1>4, <1>5, <1>6, IdleStep

\* Time passes: what has arrived stays as it was.
LEMMA TickStep == CInv /\ Tick => CInv'
<1> SUFFICES ASSUME CInv, Tick PROVE CInv'  OBVIOUS
<1>1. /\ now < Horizon /\ now' = now + 1
      /\ UNCHANGED <<archives, untraded, rows, pc, job, data, fast>>
      /\ UNCHANGED <<from, arch, todo, got>> /\ UNCHANGED <<firstReply, lastReply, overtaken>>
  BY DEF Tick, fetch, history
<1>2. Traded' = Traded /\ Overtaken' = Overtaken  BY <1>1 DEF Traded, Overtaken
<1>3. TypeOK  BY DEF CInv
<1>4. /\ Horizon \in Int /\ now \in Int /\ 0 <= now /\ now <= Horizon
      /\ \A t \in Traded : t \in Int
  BY <1>3, ClockFacts
<1>5. now' \in Int /\ now <= now' /\ now' \in 0..Horizon  BY <1>1, <1>4
<1>6. ASSUME NEW S, Candles(now, S) PROVE Candles(now', S)
  BY <1>4, <1>5, <1>6 DEF Candles
<1>7. TypeOK'  BY <1>1, <1>3, <1>5 DEF TypeOK
<1>8. AskedInv'
  <2>1. AskedInv  BY DEF CInv
  <2>2. firstReply # None => lastReply \in Int  BY <1>3, <2>1, ReplyFacts
  <2>3. firstReply # None => lastReply <= now'  BY <1>4, <1>5, <2>1, <2>2 DEF AskedInv
  <2> QED  BY <1>1, <2>1, <2>3 DEF AskedInv
<1>9. FileInv'
  <2>1. FileInv  BY DEF CInv
  <2>2. Candles(now', Held(rows))  BY <1>6, <2>1 DEF FileInv
  <2> QED  BY <1>1, <1>2, <2>1, <2>2 DEF FileInv, NewestOnly
<1>10. QuickInv'  BY <1>1 DEF CInv, QuickInv
<1>11. FastInv'
  <2>1. \A hi \in Int : hi < now => hi < now'  BY <1>4, <1>5
  <2>2. \A lo, hi \in 0..Horizon : lo \in Int /\ hi \in Int  BY <1>4
  <2> QED  BY <1>1, <1>2, <2>1, <2>2 DEF CInv, FastInv
<1>12. LoadInv'  BY <1>1 DEF CInv, LoadInv
<1>13. Until(data)' = Until(data)  BY <1>1 DEF Until
<1>14. ArchInv'
  <2>1. \A t \in Traded : t < now => t < now'  BY <1>4, <1>5
  <2> QED  BY <1>1, <1>2, <1>13, <2>1 DEF CInv, ArchInv
<1>15. PageInv'
  <2>1. \A end : Starts(end)' = Starts(end)  BY <1>1 DEF Starts
  <2>2. \A s : Arrived(got[s], s)' <=> Arrived(got[s], s)
    BY <1>1, <1>2 DEF Arrived, PageOK, Candles
  <2> QED  BY <1>1, <1>13, <2>1, <2>2 DEF CInv, PageInv
<1>16. WriteInv'
  <2> SUFFICES ASSUME pc' = "write"
               PROVE  /\ Candles(now', Held(data)) /\ NewestOnly(data, overtaken \union Overtaken)
                      /\ \E N \in SUBSET (0..Horizon) :
                           /\ Candles(now', N) /\ Held(data) = Held(DropLast(rows)) \union N
                           /\ Fits(Traded, Wanted, N, Held(DropLast(rows)))
    BY <1>1, <1>2 DEF WriteInv, NewestOnly, Wanted
  <2>1. WriteInv /\ pc = "write"  BY <1>1 DEF CInv
  <2> QED  BY <1>6, <2>1 DEF WriteInv
<1> QED  BY <1>7, <1>8, <1>9, <1>10, <1>11, <1>12, <1>14, <1>15, <1>16 DEF CInv

\* Nothing of the download but its step and its arguments changes.
LEMMA BeginStep == CInv /\ Begin => CInv'
<1> SUFFICES ASSUME CInv, Begin PROVE CInv'  OBVIOUS
<1>1. PICK j \in Jobs : job' = j /\ pc' = IF QuickEnough(j) THEN "quick" ELSE "load"
  BY DEF Begin
<1>2. /\ pc = "idle" /\ UNCHANGED market /\ UNCHANGED <<rows, data, fast>>
      /\ UNCHANGED <<from, arch, todo, got>> /\ UNCHANGED <<firstReply, lastReply, overtaken>>
  BY DEF Begin, fetch, history
<1>3. Traded' = Traded /\ now' = now /\ untraded' = untraded /\ archives' = archives
  BY <1>2, SameTraded DEF market
<1>4. pc' \in {"quick", "load"}  BY <1>1
<1>5. TypeOK'  BY <1>1, <1>2, <1>3, <1>4 DEF CInv, TypeOK
<1>6. AskedInv'  BY <1>2, <1>3, <1>4 DEF CInv, AskedInv
<1>7. FileInv'  BY <1>2, <1>3, <1>4 DEF CInv, FileInv, NewestOnly
<1>8. QuickInv'
  <2> SUFFICES ASSUME pc' = "quick", j.start # None, NEW w \in Held(rows)
               PROVE  w < j.start + Limit
    BY <1>1, <1>2 DEF QuickInv
  <2>1. j.start > now - Limit  BY <1>1 DEF QuickEnough
  <2>2. now \in Int /\ Limit \in Int /\ j.start \in Int
    <3>1. j.start \in Dates  BY DEF Jobs
    <3>2. j.start \in 0..Horizon  BY <3>1, DatesAssumption
    <3>3. TypeOK  BY DEF CInv
    <3>4. Horizon \in Int /\ now \in Int /\ Limit \in Int  BY <3>3, ClockFacts
    <3> QED  BY <3>2, <3>3, <3>4
  <2>3. w \in Int /\ w <= now  BY DEF CInv, FileInv, Candles
  <2> QED  BY <2>1, <2>2, <2>3
<1>9. FastInv'
  <2>1. Held(fast) = {}  BY <1>2 DEF CInv, FastInv
  <2> QED  BY <1>2, <1>4, <2>1 DEF FastInv
<1>10. LoadInv'  BY <1>4 DEF LoadInv
<1>11. ArchInv'  BY <1>2, <1>4 DEF CInv, ArchInv
<1>12. PageInv'  BY <1>2, <1>4 DEF CInv, PageInv
<1>13. WriteInv'  BY <1>4 DEF WriteInv
<1> QED  BY <1>5, <1>6, <1>7, <1>8, <1>9, <1>10, <1>11, <1>12, <1>13 DEF CInv

LEMMA FillIs ==
  ASSUME NEW h \in Int, NEW df, Candles(h, Held(df)), Held(df) # {}, NEW f, f = FillMissing(df)
  PROVE  \E lo, hi \in Held(df) :
           /\ Held(f) = lo..hi /\ \A x \in Held(df) : lo <= x /\ x <= hi
           /\ \A t \in Held(f) : f[t] = "filled" \/ (t \in Held(df) /\ f[t] = df[t])
<1>1. PICK lo, hi : lo = Min(Held(df)) /\ hi = Max(Held(df))  OBVIOUS
<1>2. lo \in Held(df) /\ \A x \in Held(df) : lo <= x  BY <1>1, MinOf
<1>3. hi \in Held(df) /\ \A x \in Held(df) : x <= hi  BY <1>1, MaxOf
<1>4. f = [t \in lo..hi |-> IF t \in Held(df) THEN df[t] ELSE "filled"]
  BY <1>1 DEF FillMissing
<1>5. Held(f) = lo..hi  BY <1>4 DEF Held
<1>6. \A t \in Held(f) : f[t] = "filled" \/ (t \in Held(df) /\ f[t] = df[t])
  BY <1>4, <1>5
<1> QED  BY <1>2, <1>3, <1>5, <1>6

\* A reply in which, from its first candle on, every candle before a stored one is.
Reaches(df, W) ==
    /\ Candles(now, Held(df)) /\ Held(df) \subseteq Traded
    /\ \A t \in Held(df) :
         df[t] \in {"final", "partial"} /\ (df[t] = "partial" => \A x \in Held(df) : x <= t)
    /\ \A c \in Held(df) : \A u \in Traded : c <= u /\ (\E w \in W : u < w) => u \in Held(df)

\* A stretch that goes on, without a gap, to the last but one stored candle.
Quick(f, W) ==
    /\ Frame(f)
    /\ Held(f) # {} =>
         \E lo, hi \in 0..Horizon :
           /\ Held(f) = lo..hi /\ lo \in Traded /\ lo <= hi /\ hi < now
           /\ \A t \in Held(f) : f[t] # "partial"
           /\ \A u, v \in Traded : lo <= u /\ u < v /\ (\E w \in W : v < w) => u \in Held(f)

LEMMA QuickRows ==
  ASSUME TypeOK, NEW W, \A w \in W : w \in Int, NEW df, Reaches(df, W),
         NEW f, f = FillMissing(DropLast(df))
  PROVE  Quick(f, W)
<1>1. PICK P, T : P = Held(df) /\ T = Traded  OBVIOUS
<1>2. /\ Candles(now, P) /\ P \subseteq T
      /\ \A t \in P : df[t] \in {"final", "partial"} /\ (df[t] = "partial" => \A x \in P : x <= t)
      /\ \A c \in P : \A u \in T : c <= u /\ (\E w \in W : u < w) => u \in P
  BY <1>1 DEF Reaches
<1>3. /\ Frame(f)
      /\ Held(f) # {} =>
           \E lo, hi \in 0..Horizon :
             /\ Held(f) = lo..hi /\ lo \in T /\ lo <= hi /\ hi < now
             /\ \A t \in Held(f) : f[t] # "partial"
             /\ \A u, v \in T : lo <= u /\ u < v /\ (\E w \in W : v < w) => u \in Held(f)
  <2> USE <1>1, <1>2
  <2>1. now \in Int /\ now <= Horizon /\ Horizon \in Int /\ \A t \in T : t \in Int  BY ClockFacts
  <2>2. PICK d : d = DropLast(df)  OBVIOUS
  <2>3. CASE P = {}
    <3>1. d = df  BY <2>2, <2>3 DEF DropLast
    <3>2. f = df  BY <2>2, <2>3, <3>1 DEF FillMissing
    <3> QED  BY <2>3, <3>2 DEF Frame, Held
  <2>4. CASE P # {}
    <3>1. PICK p : p = Max(P)  OBVIOUS
    <3>2. p \in P /\ (\A x \in P : x <= p) /\ Held(d) = P \ {p} /\ \A t \in Held(d) : d[t] = df[t]
      BY <2>1, <2>2, <2>4, <3>1, DropLastIs
    <3>3. CASE Held(d) = {}
      <4>1. f = d  BY <2>2, <3>3 DEF FillMissing
      <4> QED  BY <3>3, <4>1 DEF Frame, Held
    <3>4. CASE Held(d) # {}
      <4>1. Candles(now, Held(d))  BY <3>2 DEF Candles
      <4>2. PICK lo, hi \in Held(d) :
              /\ Held(f) = lo..hi /\ \A x \in Held(d) : lo <= x /\ x <= hi
              /\ \A t \in Held(f) : f[t] = "filled" \/ (t \in Held(d) /\ f[t] = d[t])
        BY <2>1, <2>2, <3>4, <4>1, FillIs
      <4>3. \A x \in P : x \in Int /\ 0 <= x /\ x <= now  BY DEF Candles
      <4>4. lo \in P /\ hi \in P /\ hi # p /\ lo <= hi  BY <3>2, <4>2
      <4>5. hi < now  BY <2>1, <3>2, <4>3, <4>4
      <4>6. lo \in 0..Horizon /\ hi \in 0..Horizon  BY <2>1, <4>3, <4>4
      <4>7. \A t \in Held(d) : df[t] # "partial"
        <5> SUFFICES ASSUME NEW t \in Held(d), df[t] = "partial" PROVE FALSE  OBVIOUS
        <5>1. t \in P /\ t # p /\ p <= t /\ t <= p  BY <3>2
        <5> QED  BY <3>2, <4>3, <5>1
      <4>8. \A t \in Held(f) : f[t] # "partial"  BY <3>2, <4>2, <4>7
      <4>9. ASSUME NEW u \in T, NEW v \in T, lo <= u, u < v, NEW w \in W, v < w
            PROVE  u \in Held(f)
        <5>1. u \in Int /\ v \in Int /\ lo \in Int /\ hi \in Int  BY <2>1, <4>3, <4>4
        <5>2. lo <= v /\ u < w  BY <4>9, <5>1
        <5>3. u \in P /\ v \in P  BY <4>4, <4>9, <5>2
        <5>4. u # p  BY <3>2, <4>9, <5>1, <5>3
        <5>5. u <= hi  BY <3>2, <4>2, <5>3, <5>4
        <5> QED  BY <4>2, <4>9, <5>1, <5>5
      <4>10. Frame(f)
        <5>1. Held(f) \subseteq 0..Horizon  BY <2>1, <4>2, <4>6
        <5>2. \A t \in Held(f) : f[t] \in Content
          <6>1. \A t \in Held(d) : df[t] \in {"final", "partial"}  BY <3>2
          <6> QED  BY <3>2, <4>2, <6>1 DEF Content
        <5> QED  BY <5>1, <5>2 DEF Frame, Held
      <4> QED  BY <4>2, <4>4, <4>5, <4>6, <4>8, <4>9, <4>10
    <3> QED  BY <3>3, <3>4
  <2> QED  BY <2>3, <2>4
<1> QED  BY <1>1, <1>3 DEF Quick

\* What a download keeps while it has not begun to fetch.
LEMMA QuickDownloadStep == CInv /\ QuickDownload => CInv'
<1> SUFFICES ASSUME CInv, QuickDownload PROVE CInv'  OBVIOUS
<1>1. /\ pc = "quick" /\ pc' = "load" /\ UNCHANGED market
      /\ UNCHANGED <<rows, job, data, from, arch, todo, got>>
      /\ UNCHANGED <<firstReply, lastReply, overtaken>>
  BY DEF QuickDownload, fetch, history
<1>2. Traded' = Traded /\ now' = now /\ untraded' = untraded /\ archives' = archives
  BY <1>1, SameTraded DEF market
<1>3. TypeOK /\ AskedInv /\ FileInv /\ QuickInv  BY DEF CInv
<1>4. /\ Horizon \in Int /\ now \in Int /\ 0 <= now /\ now <= Horizon /\ Limit \in Int
      /\ \A t \in Traded : t \in Int
  BY <1>3, ClockFacts
<1>5. \A w \in Held(rows) : w \in Int /\ w <= now
  <2>1. Candles(now, Held(rows))  BY <1>3 DEF FileInv
  <2> QED  BY <2>1 DEF Candles
<1>6. Quick(fast', Held(rows))
  <2>1. PICK W, T, f : W = Held(rows) /\ T = Traded /\ f = fast'  OBVIOUS
  <2>2. CASE f = Nothing
    <3>1. Held(Nothing) = {} /\ Frame(Nothing)  BY NothingIs
    <3> QED  BY <2>1, <2>2, <3>1 DEF Quick
  <2>3. ASSUME NEW df, Reaches(df, W), f = FillMissing(DropLast(df)) PROVE Quick(f, W)
    BY <1>3, <1>5, <2>1, <2>3, QuickRows
  <2>4. CASE \E traded \in BOOLEAN : f = FillMissing(DropLast(
              IF job.start = None THEN LatestPage(traded) ELSE PageFrom(job.start, traded)))
    <3>1. PICK traded \in BOOLEAN : f = FillMissing(DropLast(
              IF job.start = None THEN LatestPage(traded) ELSE PageFrom(job.start, traded)))
      BY <2>4
    <3>2. CASE job.start = None
      <4>1. PICK df : df = LatestPage(traded)  OBVIOUS
      <4>2. PICK P : P = Held(df)  OBVIOUS
      <4>3. PICK S : S = Listed(traded)  OBVIOUS
      <4>4. P \subseteq S /\ \A t \in P : df[t] = IF t = now THEN "partial" ELSE "final"
        BY <4>1, <4>2, <4>3 DEF LatestPage, Reply, Held
      <4>5. \A t \in S : t \in T /\ t \in Int /\ 0 <= t /\ t <= now
        BY <1>3, <2>1, <4>3, ListedFacts
      <4>6. Candles(now, P) /\ P \subseteq T  BY <4>4, <4>5 DEF Candles
      <4>7. \A t \in P : /\ df[t] \in {"final", "partial"}
                         /\ df[t] = "partial" => \A x \in P : x <= t
        BY <4>4, <4>5
      <4>8. ASSUME NEW c \in P, NEW u \in T, c <= u, NEW w \in W, u < w PROVE u \in P
        <5>1. u < now  BY <1>4, <1>5, <2>1, <4>8
        <5> QED  BY <1>3, <2>1, <4>1, <4>2, <4>8, <5>1, Latest
      <4>9. Reaches(df, W)  BY <2>1, <4>2, <4>6, <4>7, <4>8 DEF Reaches
      <4>10. f = FillMissing(DropLast(df))  BY <3>1, <3>2, <4>1
      <4> QED  BY <2>1, <2>3, <4>9, <4>10
    <3>3. CASE job.start # None
      <4>1. PICK s : s = job.start  OBVIOUS
      <4>2. s \in Int /\ 0 <= s
        <5>1. job \in Jobs  BY <1>3 DEF TypeOK
        <5>2. s \in Dates  BY <3>3, <4>1, <5>1 DEF Jobs
        <5>3. s \in 0..Horizon  BY <5>2, DatesAssumption
        <5> QED  BY <1>4, <5>3
      <4>3. PICK df : df = PageFrom(s, traded)  OBVIOUS
      <4>4. PICK P : P = Held(df)  OBVIOUS
      <4>5. PageOK(df, s, now)  BY <1>3, <4>2, <4>3, Pages
      <4>6. Candles(now, P) /\ P \subseteq T  BY <2>1, <4>4, <4>5 DEF PageOK
      <4>7. \A t \in P : /\ df[t] \in {"final", "partial"}
                         /\ df[t] = "partial" => \A x \in P : x <= t
        BY <4>4, <4>5, <4>6 DEF PageOK, Candles
      <4>8. ASSUME NEW c \in P, NEW u \in T, c <= u, NEW w \in W, u < w PROVE u \in P
        <5>1. w \in Int /\ w <= now /\ w < s + Limit /\ u \in Int
          BY <1>1, <1>3, <1>4, <1>5, <2>1, <3>3, <4>1 DEF QuickInv
        <5>2. s <= c /\ c \in Int
          <6>1. ClosedFrom(T, P, s)  BY <2>1, <4>4, <4>5 DEF PageOK
          <6> QED  BY <4>6, <6>1 DEF ClosedFrom, Candles
        <5>3. s <= u /\ u < s + Limit /\ u < now
          BY <1>4, <4>2, <4>8, <5>1, <5>2
        <5> QED  BY <2>1, <4>4, <4>5, <5>3 DEF PageOK
      <4>9. Reaches(df, W)  BY <2>1, <4>4, <4>6, <4>7, <4>8 DEF Reaches
      <4>10. f = FillMissing(DropLast(df))  BY <3>1, <3>3, <4>1, <4>3
      <4> QED  BY <2>1, <2>3, <4>9, <4>10
    <3> QED  BY <3>2, <3>3
  <2> QED  BY <2>1, <2>2, <2>4 DEF QuickDownload
<1>7. TypeOK'
  <2>1. Frame(fast')  BY <1>6 DEF Quick
  <2> QED  BY <1>1, <1>2, <1>3, <2>1 DEF TypeOK, Frame
<1>8. AskedInv'  BY <1>1, <1>2, <1>3 DEF AskedInv
<1>9. FileInv'  BY <1>1, <1>2, <1>3 DEF FileInv, NewestOnly
<1>10. QuickInv'  BY <1>1 DEF QuickInv
<1>11. FastInv'
  <2>1. Held(fast') = Held(fast)'  BY DEF Held
  <2> QED  BY <1>1, <1>2, <1>6, <2>1 DEF FastInv, Quick
<1>12. LoadInv'  BY <1>1 DEF LoadInv
<1>13. ArchInv'  BY <1>1, <1>2 DEF CInv, ArchInv
<1>14. PageInv'  BY <1>1, <1>2 DEF CInv, PageInv
<1>15. WriteInv'  BY <1>1 DEF WriteInv
<1> QED  BY <1>7, <1>8, <1>9, <1>10, <1>11, <1>12, <1>13, <1>14, <1>15 DEF CInv

\* The newest stored candle is dropped, and the download goes on from the
\* one before it or ends at the first one.
LEMMA SinceIs ==
  ASSUME TypeOK, NEW df, Candles(now, Held(df)), NEW s, s = Since(df)
  PROVE  /\ s \in 0..(Horizon + 1)
         /\ Held(df) # {} /\ ~job.prepend => s = Max(Held(df))
<1>1. now \in Int /\ 0 <= now /\ now <= Horizon /\ Horizon \in Int  BY ClockFacts
<1>2. CASE Held(df) # {} /\ ~job.prepend
  <2>1. s = Max(Held(df))  BY <1>2 DEF Since
  <2>2. s \in Int /\ 0 <= s /\ s <= now  BY <1>1, <1>2, <2>1, MaxOf
  <2> QED  BY <1>1, <2>1, <2>2
<1>3. CASE ~(Held(df) # {} /\ ~job.prepend) /\ job.start # None
  <2>1. s = job.start  BY <1>3 DEF Since
  <2>2. job \in Jobs  BY DEF TypeOK
  <2>3. s \in Dates  BY <1>3, <2>1, <2>2 DEF Jobs
  <2>4. s \in 0..Horizon  BY <2>3, DatesAssumption
  <2> QED  BY <1>1, <1>3, <2>4
<1>4. CASE ~(Held(df) # {} /\ ~job.prepend) /\ job.start = None
  <2>1. PICK S : S = {0, now - NewDays}  OBVIOUS
  <2>2. NewDays \in Nat  BY BoundsAssumption
  <2>3. (\A x \in S : x \in Int /\ x <= now) /\ S # {}  BY <1>1, <2>1, <2>2
  <2>4. Max(S) \in S /\ \A x \in S : x <= Max(S)  BY <1>1, <2>3, MaxExists
  <2>5. s = Max(S)  BY <1>4, <2>1 DEF Since
  <2>6. s \in Int /\ 0 <= s /\ s <= now  BY <2>1, <2>3, <2>4, <2>5
  <2> QED  BY <1>1, <1>4, <2>6
<1> QED  BY <1>2, <1>3, <1>4

LEMMA UntilIs ==
  ASSUME TypeOK, NEW df, Candles(now, Held(df)), NEW e, e = Until(df)
  PROVE  /\ e = None \/ (e \in 0..Horizon)
         /\ Held(df) # {} /\ job.prepend => e \in Held(df) /\ \A x \in Held(df) : e <= x
<1>1. now \in Int /\ now <= Horizon /\ Horizon \in Int  BY ClockFacts
<1>2. CASE Held(df) # {} /\ job.prepend
  <2>1. e = Min(Held(df))  BY <1>2 DEF Until
  <2>2. e \in Held(df) /\ e \in Int /\ 0 <= e /\ e <= now /\ \A x \in Held(df) : e <= x
    BY <1>1, <1>2, <2>1, MinOf
  <2> QED  BY <1>1, <2>2
<1>3. CASE ~(Held(df) # {} /\ job.prepend)
  <2>1. e = job.stop  BY <1>3 DEF Until
  <2>2. job \in Jobs  BY DEF TypeOK
  <2>3. e \in Dates \/ e = None  BY <2>1, <2>2 DEF Jobs
  <2>4. e \in 0..Horizon \/ e = None  BY <2>3, DatesAssumption
  <2> QED  BY <1>3, <2>4
<1> QED  BY <1>2, <1>3

LEMMA StoredIs ==
  ASSUME CInv, pc = "load", NEW S, S = Stored
  PROVE  /\ Frame(S) /\ Candles(now, Held(S)) /\ NewestOnly(S, overtaken)
         /\ Backed(Traded, Held(S))
<1>1. TypeOK /\ FileInv  BY DEF CInv
<1>2. CASE job.erase
  <2>1. Held(S) = {} /\ Frame(S)  BY <1>2, NothingIs DEF Stored
  <2> QED  BY <2>1 DEF Candles, NewestOnly, Backed
<1>3. CASE ~job.erase
  <2>1. S = rows  BY <1>3 DEF Stored
  <2> QED  BY <1>1, <2>1, TypeParts DEF FileInv
<1> QED  BY <1>2, <1>3

LEMMA DroppedFrame ==
  ASSUME NEW h \in Int, NEW df, Frame(df), Candles(h, Held(df)), NEW d, d = DropLast(df)
  PROVE  Frame(d) /\ Candles(h, Held(d))
<1>1. Held(d) \subseteq Held(df) /\ \A t \in Held(d) : d[t] = df[t]  BY DropLastIs
<1> QED  BY <1>1 DEF Frame, Held, Candles

LEMMA LoadStep == CInv /\ Load => CInv'
<1> SUFFICES ASSUME CInv, Load PROVE CInv'  OBVIOUS
<1>1. PICK S, d : S = Stored /\ d = DropLast(S)  OBVIOUS
<1>2. /\ pc = "load" /\ UNCHANGED market /\ rows' = S /\ data' = d
      /\ UNCHANGED <<job, arch, todo, got>> /\ UNCHANGED <<firstReply, lastReply, overtaken>>
  BY <1>1 DEF Load, history
<1>3. \/ FastCovers(d) /\ pc' = "store" /\ UNCHANGED <<from, fast>>
      \/ ~FastCovers(d) /\ pc' \in {"archive", "rest"} /\ fast' = Nothing /\ from' = Since(d)
  BY <1>1 DEF Load
<1>4. pc' \in {"store", "archive", "rest"}  BY <1>3
<1>5. Traded' = Traded /\ now' = now /\ untraded' = untraded /\ archives' = archives
  BY <1>2, SameTraded DEF market
<1>6. TypeOK /\ AskedInv /\ FastInv /\ ArchInv /\ PageInv  BY DEF CInv
<1>7. Horizon \in Int /\ now \in Int /\ 0 <= now /\ now <= Horizon 
  BY <1>6, ClockFacts
<1>8. /\ Frame(S) /\ Candles(now, Held(S)) /\ NewestOnly(S, overtaken)
      /\ Backed(Traded, Held(S))
  BY <1>1, <1>2, StoredIs
<1>9. Frame(d) /\ Candles(now, Held(d))  BY <1>1, <1>7, <1>8, DroppedFrame
<1>10. PICK s : s = Since(d)  OBVIOUS
<1>11. s \in 0..(Horizon + 1) /\ (Held(d) # {} /\ ~job.prepend => s = Max(Held(d)))
  BY <1>6, <1>9, <1>10, SinceIs
<1>12. Held(Nothing) = {} /\ Frame(Nothing)  BY NothingIs
<1>13. Held(arch) = {} /\ DOMAIN got = {} /\ todo = {}
  BY <1>2, <1>6 DEF ArchInv, PageInv
<1>14. TypeOK'
  <2>1. Frame(rows)' /\ Frame(data)'  BY <1>2, <1>8, <1>9 DEF Frame
  <2>2. Frame(fast)'
    <3>1. fast' = fast \/ fast' = Nothing  BY <1>3
    <3>2. Frame(fast)  BY <1>6, TypeParts
    <3> QED  BY <1>12, <3>1, <3>2 DEF Frame
  <2>3. from' \in 0..(Horizon + 1)  BY <1>3, <1>6, <1>10, <1>11 DEF TypeOK
  <2> QED  BY <1>2, <1>4, <1>5, <1>6, <2>1, <2>2, <2>3 DEF TypeOK, Frame
<1>15. AskedInv'  BY <1>2, <1>4, <1>5, <1>6, <1>7 DEF AskedInv
<1>16. FileInv'
  <2>1. Held(rows)' = Held(S)  BY <1>2 DEF Held
  <2> QED  BY <1>2, <1>5, <1>8, <2>1 DEF FileInv, NewestOnly
<1>17. QuickInv'  BY <1>4 DEF QuickInv
<1>18. FastInv'
  <2>1. CASE ~FastCovers(d)
    <3>1. Held(fast') = {} /\ pc' # "store"  BY <1>3, <1>12, <2>1
    <3> QED  BY <3>1 DEF FastInv
  <2>2. CASE FastCovers(d)
    <3>1. pc' = "store" /\ fast' = fast  BY <1>3, <2>2
    <3>2. /\ Held(fast) # {} /\ Held(d) # {} /\ ~job.prepend /\ ~job.erase
          /\ Min(Held(fast)) <= s
      BY <1>10, <2>2 DEF FastCovers
    <3>3. S = rows  BY <1>1, <3>2 DEF Stored
    <3>4. PICK lo, hi \in 0..Horizon :
            /\ Held(fast) = lo..hi /\ lo \in Traded /\ lo <= hi /\ hi < now
            /\ \A t \in Held(fast) : fast[t] # "partial"
            /\ \A u, v \in Traded :
                 lo <= u /\ u < v /\ (\E w \in Held(rows) : v < w) => u \in Held(fast)
      BY <1>6, <3>2 DEF FastInv
    <3>5. Min(Held(fast)) = lo
      <4>1. (\A x \in Held(fast) : x \in Int /\ lo <= x) /\ lo \in Held(fast)  BY <1>7, <3>4
      <4> QED  BY <4>1, MinIs
    <3>6. lo <= Max(Held(d))  BY <1>11, <3>2, <3>5
    <3>7. /\ Held(fast') = lo..hi /\ lo \in Traded' /\ lo <= hi /\ hi < now'
          /\ \A t \in Held(fast') : fast'[t] # "partial"
          /\ \A u, v \in Traded' :
               lo <= u /\ u < v /\ (\E w \in Held(rows') : v < w) => u \in Held(fast')
          /\ Held(data') # {} /\ ~job'.prepend /\ lo <= Max(Held(data'))
      BY <1>2, <1>5, <3>1, <3>2, <3>3, <3>4, <3>6
    <3> QED  BY <3>1, <3>2, <3>7 DEF FastInv
  <2> QED  BY <2>1, <2>2
<1>19. LoadInv'  BY <1>1, <1>2 DEF LoadInv, DropLast, Keep, Held
<1>20. ArchInv'
  <2>1. Held(arch') = {}  BY <1>2, <1>13
  <2>2. pc' \in {"archive", "rest", "fetch"} => from' = s  BY <1>3, <1>10
  <2>3. ClosedFrom(Traded', Held(arch'), s)  BY <2>1 DEF ClosedFrom
  <2>4. Held(data') # {} /\ ~job'.prepend => s = Max(Held(data'))  BY <1>2, <1>11
  <2> QED  BY <1>11, <2>1, <2>2, <2>3, <2>4 DEF ArchInv
<1>21. PageInv'  BY <1>2, <1>4, <1>13 DEF PageInv
<1>22. WriteInv'  BY <1>4 DEF WriteInv
<1> QED  BY <1>14, <1>15, <1>16, <1>17, <1>18, <1>19, <1>20, <1>21, <1>22 DEF CInv

\* The archives are read up to a day, or not at all.
LEMMA DaysAre ==
  ASSUME TypeOK, NEW a \in Int, NEW until, until = None \/ until \in Int,
         NEW days \in Days(a, until)
  PROVE  /\ \A t \in Held(days) : t \in Traded /\ t < now /\ days[t] = "final"
         /\ ClosedFrom(Traded, Held(days), a)
         /\ until # None => \A t \in Held(days) : t < until
<1>1. /\ Horizon \in Int /\ now \in Int /\ 0 <= now /\ now <= Horizon
      /\ \A t \in Traded : t \in Int
  BY ClockFacts
<1>2. PICK end : end = IF until = None THEN now - 2 * DayLen ELSE Min({until, now - 2 * DayLen})
  OBVIOUS
<1>3. PICK b : days = Reply({t \in Listed(FALSE) : a <= t /\ t < end /\ t < b})
               /\ b \in {n * DayLen : n \in Int}
  <2> DEFINE ds == {(t \div DayLen) + 1 : t \in {t \in a..end : (t - a) % DayLen = 0}}
  <2>1. PICK n : /\ n \in IF a >= end THEN {0} ELSE ds \union {0}
                 /\ days = Reply({t \in Listed(FALSE) : a <= t /\ t < end /\ t < n * DayLen})
    BY <1>2 DEF Days
  <2>2. DayLen \in Nat \ {0}  BY BoundsAssumption
  <2>3. \A t \in Int : t \div DayLen \in Int  BY <2>2
  <2>4. n \in Int
    <3>1. CASE n = 0  BY <3>1
    <3>2. CASE n # 0
      <4>1. PICK t \in a..end : n = (t \div DayLen) + 1  BY <2>1, <3>2
      <4>2. t \in Int  BY <4>1
      <4> QED  BY <2>3, <4>1, <4>2
    <3> QED  BY <3>1, <3>2
  <2> QED  BY <2>1, <2>4
<1>4. DayLen \in Int  BY BoundsAssumption
<1>5. b \in Int  BY <1>3, <1>4
<1>6. end \in Int /\ (until # None => end <= until)
  <2>1. PICK m \in Int : m = now - 2 * DayLen  BY <1>1, <1>4
  <2>2. CASE until = None  BY <1>2, <2>1, <2>2
  <2>3. CASE until # None
    <3>1. PICK S : S = {until, m}  OBVIOUS
    <3>2. until \in Int  BY <2>3
    <3>3. PICK k \in Int : k <= until /\ k <= m
      <4>1. CASE until <= m  BY <3>2, <4>1
      <4>2. CASE ~(until <= m)  BY <2>1, <3>2, <4>2
      <4> QED  BY <4>1, <4>2
    <3>4. (\A x \in S : x \in Int /\ k <= x) /\ S # {}  BY <2>1, <3>1, <3>2, <3>3
    <3>5. Min(S) \in S /\ \A x \in S : Min(S) <= x  BY <3>3, <3>4, MinExists
    <3>6. end = Min(S)  BY <1>2, <2>1, <2>3, <3>1
    <3> QED  BY <3>1, <3>4, <3>5, <3>6
  <2> QED  BY <2>2, <2>3
<1>7. PICK S : S = Listed(FALSE)  OBVIOUS
<1>8. /\ \A t \in S : t \in Traded /\ t \in Int /\ 0 <= t /\ t <= now
      /\ \A c \in S : \A u \in Traded : u <= c => u \in S
  BY <1>7, ListedFacts
<1>9. \A t \in S : t # now  BY <1>7 DEF Listed
<1>10. PICK D : D = {t \in S : a <= t /\ t < end /\ t < b}  OBVIOUS
<1>11. days = [t \in D |-> IF t = now THEN "partial" ELSE "final"]
  BY <1>3, <1>7, <1>10 DEF Reply
<1>12. Held(days) = D  BY <1>11 DEF Held
<1>13. \A t \in D : t \in Traded /\ t < now /\ days[t] = "final"
  BY <1>1, <1>8, <1>9, <1>10, <1>11
<1>14. ClosedFrom(Traded, D, a)
  <2> SUFFICES ASSUME NEW c \in D PROVE a <= c /\ \A u \in Traded : a <= u /\ u <= c => u \in D
    BY DEF ClosedFrom
  <2>1. ASSUME NEW u \in Traded, a <= u, u <= c PROVE u \in D
    <3>1. u \in S /\ u \in Int /\ c \in Int /\ c < end /\ c < b  BY <1>1, <1>8, <1>10, <2>1
    <3>2. u < end /\ u < b  BY <1>5, <1>6, <2>1, <3>1
    <3> QED  BY <1>10, <2>1, <3>1, <3>2
  <2> QED  BY <1>10, <2>1
<1>15. ASSUME until # None, NEW t \in D PROVE t < until
  <2>1. t \in Int /\ t < end /\ end <= until /\ until \in Int  BY <1>6, <1>8, <1>10, <1>15
  <2> QED  BY <1>6, <2>1
<1> QED  BY <1>12, <1>13, <1>14, <1>15

LEMMA ReadArchiveStep == CInv /\ ReadArchive => CInv'
<1> SUFFICES ASSUME CInv, ReadArchive PROVE CInv'  OBVIOUS
<1>1. /\ pc = "archive" /\ pc' = "rest" /\ UNCHANGED market
      /\ UNCHANGED <<rows, job, data, fast, todo, got>>
      /\ UNCHANGED <<firstReply, lastReply, overtaken>>
  BY DEF ReadArchive, history
<1>2. PICK traded \in BOOLEAN, a \in {FirstCandle(b) : b \in BOOLEAN} :
        /\ a = FirstCandle(traded)
        /\ \E days \in Days(a, Until(data)) :
             arch' = days /\ from' = IF Held(days) = {} THEN a ELSE Max(Held(days)) + 1
  BY DEF ReadArchive
<1>3. PICK days \in Days(a, Until(data)) :
        arch' = days /\ from' = IF Held(days) = {} THEN a ELSE Max(Held(days)) + 1
  BY <1>2
<1>4. Traded' = Traded /\ now' = now /\ untraded' = untraded /\ archives' = archives
  BY <1>1, SameTraded DEF market
<1>5. TypeOK /\ AskedInv /\ FileInv /\ ArchInv /\ FastInv  BY DEF CInv
<1>6. Horizon \in Int /\ now \in Int /\ 0 <= now /\ now <= Horizon 
  BY <1>5, ClockFacts
<1>7. Candles(now, Held(data))
  <2>1. Candles(now, Held(rows)) /\ data = DropLast(rows) /\ Frame(rows)
    BY <1>1, <1>5, TypeParts DEF CInv, FileInv, LoadInv
  <2> QED  BY <1>6, <2>1, DroppedFrame
<1>8. PICK e : e = Until(data)  OBVIOUS
<1>9. e = None \/ e \in Int  BY <1>5, <1>6, <1>7, <1>8, UntilIs
<1>10. a \in 0..(Horizon + 1) /\ (Held(data) # {} => a = from)
  <2>1. from \in 0..(Horizon + 1)  BY <1>5 DEF TypeOK
  <2>2. PICK df : df = PageFrom(0, traded)  OBVIOUS
  <2>3. a = IF Held(data) = {} /\ Held(df) # {} THEN Max({from, Min(Held(df))}) ELSE from
    BY <1>2, <2>2 DEF FirstCandle
  <2>4. CASE Held(data) = {} /\ Held(df) # {}
    <3>1. PageOK(df, 0, now)  BY <1>5, <2>2, Pages
    <3>2. Candles(now, Held(df))  BY <3>1 DEF PageOK
    <3>3. PICK m : m = Min(Held(df))  OBVIOUS
    <3>4. m \in Int /\ 0 <= m /\ m <= now  BY <1>6, <2>4, <3>2, <3>3, MinOf
    <3>5. PICK S : S = {from, m}  OBVIOUS
    <3>6. PICK h \in Int : h = Horizon + 1  BY <1>6
    <3>7. \A x \in S : x \in Int /\ 0 <= x /\ x <= h  BY <1>6, <2>1, <3>4, <3>5, <3>6
    <3>8. Max(S) \in S  BY <3>5, <3>7, MaxExists
    <3>9. a = Max(S)  BY <2>3, <2>4, <3>3, <3>5
    <3> QED  BY <2>4, <3>6, <3>7, <3>8, <3>9
  <2>5. CASE ~(Held(data) = {} /\ Held(df) # {})  BY <2>1, <2>3, <2>5
  <2> QED  BY <2>4, <2>5
<1>11. /\ \A t \in Held(days) : t \in Traded /\ t < now /\ days[t] = "final"
       /\ ClosedFrom(Traded, Held(days), a)
       /\ e # None => \A t \in Held(days) : t < e
  <2>1. a \in Int  BY <1>6, <1>10
  <2> QED  BY <1>3, <1>5, <1>8, <1>9, <2>1, DaysAre
<1>12. Candles(now, Held(days))
  <2>1. \A t \in Traded : t \in Int /\ 0 <= t  BY <1>5, ClockFacts
  <2> QED  BY <1>6, <1>11, <2>1 DEF Candles
<1>13. from' \in 0..(Horizon + 1)
  <2>1. CASE Held(days) = {}  BY <1>3, <1>10, <2>1
  <2>2. CASE Held(days) # {}
    <3>1. PICK m : m = Max(Held(days))  OBVIOUS
    <3>2. m \in Int /\ 0 <= m /\ m <= now  BY <1>6, <1>12, <2>2, <3>1, MaxOf
    <3>3. from' = m + 1  BY <1>3, <2>2, <3>1
    <3> QED  BY <1>6, <3>2, <3>3
  <2> QED  BY <2>1, <2>2
<1>14. Frame(arch')
  <2>1. Held(days) \subseteq 0..Horizon  BY <1>6, <1>12 DEF Candles
  <2>2. \A t \in Held(days) : days[t] \in Content  BY <1>11 DEF Content
  <2> QED  BY <1>3, <2>1, <2>2 DEF Frame, Held
<1>15. TypeOK'  BY <1>1, <1>4, <1>5, <1>13, <1>14 DEF TypeOK, Frame
<1>16. AskedInv'  BY <1>1, <1>4, <1>5, <1>6 DEF AskedInv
<1>17. FileInv'  BY <1>1, <1>4, <1>5 DEF FileInv, NewestOnly
<1>18. QuickInv'  BY <1>1 DEF QuickInv
<1>19. FastInv'
  <2>1. Held(fast') = {}  BY <1>1, <1>5 DEF FastInv
  <2> QED  BY <1>1, <2>1 DEF FastInv
<1>20. LoadInv'
  <2>1. data = DropLast(rows)  BY <1>1 DEF CInv, LoadInv
  <2> QED  BY <1>1, <2>1 DEF LoadInv, DropLast, Keep, Held
<1>21. ArchInv'
  <2>1. Until(data)' = e  BY <1>1, <1>8 DEF Until
  <2>2. now' = now  BY <1>4
  <2>3. Held(data) # {} /\ ~job.prepend => a = Max(Held(data))
    <3>1. Held(arch) = {}  BY <1>1, <1>5 DEF ArchInv
    <3>2. PICK x : from = x /\ (Held(data) # {} /\ ~job.prepend => x = Max(Held(data)))
      BY <1>1, <1>5, <3>1 DEF ArchInv
    <3> QED  BY <1>10, <3>2
  <2>4. \A t \in Held(arch') : t \in Traded' /\ arch'[t] = "final" /\ t < now'
    BY <1>3, <1>4, <1>11, <2>2
  <2>5. /\ ClosedFrom(Traded', Held(arch'), a)
        /\ Held(arch') = {} => from' = a
        /\ Held(arch') # {} => from' = Max(Held(arch')) + 1
        /\ Held(data') # {} /\ ~job'.prepend => a = Max(Held(data'))
    BY <1>1, <1>3, <1>4, <1>11, <2>3
  <2>6. Until(data)' # None => \A t \in Held(arch') : t < Until(data)'
    BY <1>3, <1>11, <2>1
  <2> QED  BY <1>1, <1>10, <2>4, <2>5, <2>6 DEF ArchInv
<1>22. PageInv'
  <2>1. DOMAIN got = {} /\ todo = {}  BY <1>1 DEF CInv, PageInv
  <2> QED  BY <1>1, <2>1 DEF PageInv
<1>23. WriteInv'  BY <1>1 DEF WriteInv
<1> QED  BY <1>15, <1>16, <1>17, <1>18, <1>19, <1>20, <1>21, <1>22, <1>23 DEF CInv

\* The pages that are laid out start before the end.
LEMMA StartsAre ==
  ASSUME TypeOK, NEW u, u = None \/ u \in 0..Horizon, NEW P, P = PageStarts(from, u)
  PROVE  \A s \in P : s \in 0..Horizon
<1>1. Horizon \in Int /\ now \in Int /\ 0 <= now /\ now <= Horizon  BY ClockFacts
<1>2. from \in 0..(Horizon + 1)  BY DEF TypeOK
<1>3. PICK end : end = IF u = None THEN now + 1 ELSE u  OBVIOUS
<1>4. end \in Int /\ end <= Horizon + 1
  <2>1. CASE u = None  BY <1>1, <1>3, <2>1
  <2>2. CASE u # None  BY <1>1, <1>3, <2>2
  <2> QED  BY <2>1, <2>2
<1>5. P = {s \in from..(end - 1) : (s - from) % Limit = 0}  BY <1>3 DEF PageStarts
<1>6. ASSUME NEW s \in P PROVE s \in 0..Horizon
  <2>1. s \in from..(end - 1)  BY <1>5
  <2> QED  BY <1>1, <1>2, <1>4, <2>1
<1> QED  BY <1>6

LEMMA StartFetchStep == CInv /\ StartFetch => CInv'
<1> SUFFICES ASSUME CInv, StartFetch PROVE CInv'  OBVIOUS
<1>1. /\ pc = "rest" /\ pc' = "fetch" /\ UNCHANGED market
      /\ UNCHANGED <<rows, job, data, fast, from, arch, got>>
      /\ UNCHANGED <<firstReply, lastReply, overtaken>>
      /\ todo' = PageStarts(from, Until(data))
  BY DEF StartFetch, history
<1>2. Traded' = Traded /\ now' = now /\ untraded' = untraded /\ archives' = archives
  BY <1>1, SameTraded DEF market
<1>3. TypeOK /\ AskedInv /\ FileInv /\ ArchInv /\ FastInv  BY DEF CInv
<1>4. Horizon \in Int /\ now \in Int /\ 0 <= now /\ now <= Horizon 
  BY <1>3, ClockFacts
<1>5. Candles(now, Held(data)) /\ data = DropLast(rows)
  <2>1. Candles(now, Held(rows)) /\ data = DropLast(rows) /\ Frame(rows)
    BY <1>1, <1>3, TypeParts DEF CInv, FileInv, LoadInv
  <2> QED  BY <1>4, <2>1, DroppedFrame
<1>6. PICK e : e = Until(data)  OBVIOUS
<1>7. e = None \/ e \in 0..Horizon  BY <1>3, <1>4, <1>5, <1>6, UntilIs
<1>8. Until(data)' = e  BY <1>1, <1>6 DEF Until
<1>9. TypeOK'
  <2>1. todo' \subseteq 0..Horizon  BY <1>1, <1>3, <1>6, <1>7, StartsAre
  <2> QED  BY <1>1, <1>2, <1>3, <2>1 DEF TypeOK
<1>10. AskedInv'  BY <1>1, <1>2, <1>3, <1>4 DEF AskedInv
<1>11. FileInv'  BY <1>1, <1>2, <1>3 DEF FileInv, NewestOnly
<1>12. QuickInv'  BY <1>1 DEF QuickInv
<1>13. FastInv'
  <2>1. Held(fast') = {}  BY <1>1, <1>3 DEF FastInv
  <2> QED  BY <1>1, <2>1 DEF FastInv
<1>14. LoadInv'  BY <1>1, <1>5 DEF LoadInv, DropLast, Keep, Held
<1>15. ArchInv'
  <2>1. Until(data)' = Until(data)  BY <1>6, <1>8
  <2> QED  BY <1>1, <1>2, <1>3, <2>1 DEF ArchInv
<1>16. PageInv'
  <2>1. DOMAIN got = {}  BY <1>1 DEF CInv, PageInv
  <2>2. PICK end : end = IF e = None THEN now + 1 ELSE e  OBVIOUS
  <2>3. end \in Int /\ (e # None => end = e)  BY <1>4, <1>7, <2>2
  <2>4. Starts(end)' = todo'  BY <1>1, <1>6, <2>2 DEF Starts, PageStarts
  <2>5. DOMAIN got' \union todo' = Starts(end)'  BY <1>1, <2>1, <2>4
  <2>6. \A s \in DOMAIN got' : Arrived(got[s], s)'  BY <1>1, <2>1
  <2> QED  BY <1>1, <1>8, <2>3, <2>5, <2>6 DEF PageInv
<1>17. WriteInv'  BY <1>1 DEF WriteInv
<1> QED  BY <1>9, <1>10, <1>11, <1>12, <1>13, <1>14, <1>15, <1>16, <1>17 DEF CInv

LEMMA FetchPageStep ==
  ASSUME CInv, NEW s \in 0..Horizon, NEW traded \in BOOLEAN, FetchPage(s, traded)
  PROVE  CInv'
<1>1. /\ pc = "fetch" /\ s \in todo /\ todo' = todo \ {s}
      /\ got' = [p \in DOMAIN got \union {s} |-> IF p = s THEN PageFrom(s, traded) ELSE got[p]]
      /\ firstReply' = (IF firstReply = None THEN now ELSE firstReply) /\ lastReply' = now
      /\ UNCHANGED market
      /\ UNCHANGED <<rows, pc, job, data, fast, from, arch, overtaken>>
  BY DEF FetchPage
<1>2. Traded' = Traded /\ now' = now /\ untraded' = untraded /\ archives' = archives
  BY <1>1, SameTraded DEF market
<1>3. TypeOK /\ AskedInv /\ FileInv /\ ArchInv /\ FastInv /\ PageInv  BY DEF CInv
<1>4. DOMAIN got' = DOMAIN got \union {s}  BY <1>1
<1>5. Horizon \in Int /\ now \in Int /\ 0 <= now /\ now <= Horizon  BY <1>3, ClockFacts
<1>6. /\ firstReply # None => firstReply \in Int /\ lastReply \in Int /\ 0 <= firstReply
                            /\ firstReply <= lastReply /\ lastReply <= now
  BY <1>3, ReplyFacts
<1>7. /\ firstReply' \in Int /\ 0 <= firstReply' /\ firstReply' <= now /\ firstReply' # None
  BY <1>1, <1>5, <1>6 DEF None
<1>8. TypeOK'
  <2>1. firstReply' \in 0..Horizon /\ lastReply' \in 0..Horizon  BY <1>1, <1>5, <1>7
  <2> QED  BY <1>1, <1>2, <1>3, <1>4, <2>1 DEF TypeOK
<1>9. AskedInv'  BY <1>1, <1>2, <1>5, <1>7 DEF AskedInv
<1>10. FileInv'  BY <1>1, <1>2, <1>3 DEF FileInv, NewestOnly
<1>11. QuickInv'  BY <1>1 DEF QuickInv
<1>12. FastInv'
  <2>1. Held(fast') = {}  BY <1>1, <1>3 DEF FastInv
  <2> QED  BY <1>1, <2>1 DEF FastInv
<1>13. Until(data)' = Until(data)  BY <1>1 DEF Until
<1>14. LoadInv'
  <2>1. data = DropLast(rows)  BY <1>1 DEF CInv, LoadInv
  <2> QED  BY <1>1, <2>1 DEF LoadInv, DropLast, Keep, Held
<1>15. ArchInv'  BY <1>1, <1>2, <1>3, <1>13 DEF ArchInv
<1>16. PageInv'
  <2>1. PICK end \in Int : /\ DOMAIN got \union todo = Starts(end)
                           /\ Until(data) # None => end = Until(data)
    BY <1>1, <1>3 DEF PageInv
  <2>2. Starts(end)' = Starts(end)  BY <1>1 DEF Starts
  <2>3. DOMAIN got' \union todo' = Starts(end)'  BY <1>1, <1>4, <2>1, <2>2
  <2>4. ASSUME NEW p \in DOMAIN got' PROVE Arrived(got[p], p)'
    <3>1. CASE p = s
      <4>1. PICK df : df = PageFrom(s, traded)  OBVIOUS
      <4>2. got'[p] = df  BY <1>1, <1>4, <3>1, <4>1
      <4>3. PageOK(df, s, now)  BY <1>3, <1>5, <4>1, Pages
      <4>4. Candles(now, Held(rows))  BY <1>3 DEF FileInv
      <4>5. PageOK(got[p], p, now)'  BY <1>1, <1>2, <3>1, <4>2, <4>3 DEF PageOK
      <4>6. Candles(now, Held(rows))'  BY <1>1, <1>2, <4>4 DEF Candles
      <4>7. now' \in Int /\ firstReply' # None /\ firstReply' <= now' /\ now' <= lastReply'
        BY <1>1, <1>2, <1>5, <1>7
      <4> QED  BY <4>5, <4>6, <4>7 DEF Arrived
    <3>2. CASE p # s
      <4>1. p \in DOMAIN got /\ got'[p] = got[p]  BY <1>1, <1>4, <3>2
      <4>2. PICK k \in Int : /\ firstReply # None /\ firstReply <= k /\ k <= lastReply
                             /\ Candles(k, Held(rows)) /\ PageOK(got[p], p, k)
        BY <1>1, <1>3, <4>1 DEF PageInv, Arrived
      <4>3. PageOK(got[p], p, k)'  BY <1>1, <1>2, <4>1, <4>2 DEF PageOK
      <4>4. Candles(k, Held(rows))'  BY <1>1, <4>2 DEF Candles
      <4>5. firstReply' = firstReply /\ k <= lastReply'  BY <1>1, <1>5, <1>6, <4>2
      <4> QED  BY <4>2, <4>3, <4>4, <4>5 DEF Arrived
    <3> QED  BY <3>1, <3>2
  <2> QED  BY <1>1, <1>13, <2>1, <2>3, <2>4 DEF PageInv
<1>17. WriteInv'  BY <1>1 DEF WriteInv
<1> QED  BY <1>8, <1>9, <1>10, <1>11, <1>12, <1>14, <1>15, <1>16, <1>17 DEF CInv

-----------------------------------------------------------------------------
(* What is fetched fits what is stored                                      *)

\* Every candle from the start on lies in the stretch of a page.
LEMMA PageOf ==
  ASSUME NEW L \in Nat \ {0}, NEW f \in Int, NEW u \in Int, f <= u
  PROVE  \E s \in Int : f <= s /\ s <= u /\ u < s + L /\ (s - f) % L = 0
<1>1. PICK x \in Nat : x = u - f  OBVIOUS
<1>2. PICK r : r = x % L  OBVIOUS
<1>3. r \in 0..(L - 1)  BY <1>2
<1>4. r <= x  BY <1>2
<1>5. (x - r) % L = 0  BY <1>2
<1>6. PICK s \in Int : s = u - r  BY <1>3
<1>7. s - f = x - r  BY <1>1, <1>3, <1>6
<1>8. f <= s /\ s <= u /\ u < s + L  BY <1>1, <1>3, <1>4, <1>6
<1> QED  BY <1>5, <1>7, <1>8

LEMMA CollectedIs ==
  ASSUME TypeOK, NEW df, df = Collected
  PROVE  /\ \A s \in DOMAIN got : Held(got[s]) \subseteq Held(df)
         /\ \A t \in Held(df) : \E s \in DOMAIN got : t \in Held(got[s]) /\ df[t] = got[s][t]
<1>1. PICK all : all = UNION {Held(got[s]) : s \in DOMAIN got}  OBVIOUS
<1>2. df = [t \in all |-> got[Max({s \in DOMAIN got : t \in Held(got[s])})][t]]
  BY <1>1 DEF Collected
<1>3. Held(df) = all  BY <1>2 DEF Held
<1>4. \A s \in DOMAIN got : Held(got[s]) \subseteq all  BY <1>1
<1>5. ASSUME NEW t \in all
      PROVE  \E s \in DOMAIN got : t \in Held(got[s]) /\ df[t] = got[s][t]
  <2>1. PICK S : S = {s \in DOMAIN got : t \in Held(got[s])}  OBVIOUS
  <2>2. S # {}  BY <1>1, <1>5, <2>1
  <2>3. Horizon \in Int  BY ClockFacts
  <2>4. \A s \in S : s \in Int /\ s <= Horizon
    <3>1. DOMAIN got \subseteq 0..Horizon  BY DEF TypeOK
    <3> QED  BY <2>1, <2>3, <3>1
  <2>5. PICK m : m = Max(S)  OBVIOUS
  <2>6. m \in S  BY <2>2, <2>3, <2>4, <2>5, MaxExists
  <2>7. df[t] = got[m][t]  BY <1>2, <2>1, <2>5
  <2> QED  BY <2>1, <2>6, <2>7
<1> QED  BY <1>3, <1>4, <1>5

\* A candle that is missing in the pages before one that is there had not
\* closed when the first page arrived.
LEMMA AllPages ==
  ASSUME CInv, pc = "fetch", todo = {}, NEW df, df = Collected, NEW C, C = Held(df)
  PROVE  /\ C \subseteq Traded /\ Candles(now, C)
         /\ \A c \in C : from <= c /\ firstReply # None /\ c <= lastReply
         /\ \A t \in C :
              /\ df[t] \in {"final", "partial"}
              /\ df[t] = "partial" => firstReply <= t /\ \A x \in Held(rows) : x <= t
         /\ \A u \in Traded :
              /\ from <= u /\ Until(data) # None /\ u < Until(data)
              /\ \E x \in Held(rows) : u < x
              => u \in C
         /\ \A c \in C : Until(data) # None =>
              \A u \in Traded : Until(data) <= u /\ u <= c => u \in C
         /\ \A c \in C : \A u \in Traded \ C : from <= u /\ u <= c => firstReply <= u
<1>1. TypeOK /\ AskedInv /\ FileInv /\ PageInv  BY DEF CInv
<1>2. /\ Horizon \in Int /\ now \in Int /\ 0 <= now /\ now <= Horizon
      /\ \A t \in Traded : t \in Int /\ 0 <= t
  BY <1>1, ClockFacts
<1>3. Limit \in Nat \ {0}  BY BoundsAssumption
<1>4. PICK e : e = Until(data)  OBVIOUS
<1>5. PICK f : f = from  OBVIOUS
<1>6. f \in Int /\ 0 <= f
  <2>1. from \in 0..(Horizon + 1)  BY <1>1 DEF TypeOK
  <2> QED  BY <1>2, <1>5, <2>1
<1>7. PICK end \in Int : DOMAIN got = Starts(end) /\ (e # None => end = e)
  BY <1>1, <1>4 DEF PageInv
<1>8. DOMAIN got = {s \in f..(end - 1) : (s - f) % Limit = 0}  BY <1>5, <1>7 DEF Starts
<1>9. \A s \in DOMAIN got : s \in Int /\ f <= s /\ s < end  BY <1>6, <1>8
<1>10. ASSUME NEW s \in DOMAIN got
       PROVE  \E k \in Int : /\ firstReply # None /\ firstReply <= k /\ k <= lastReply
                             /\ Candles(k, Held(rows)) /\ PageOK(got[s], s, k)
  BY <1>1 DEF PageInv, Arrived
<1>11. /\ \A s \in DOMAIN got : Held(got[s]) \subseteq C
       /\ \A t \in C : \E s \in DOMAIN got : t \in Held(got[s]) /\ df[t] = got[s][t]
  BY <1>1, CollectedIs
<1>12. firstReply # None => firstReply \in Int /\ lastReply \in Int /\ lastReply <= now
  BY <1>1, ReplyFacts
<1>13. ASSUME NEW c \in C
       PROVE  \E s \in DOMAIN got :
                /\ s \in Int /\ f <= s /\ s < end /\ s <= c
                /\ c \in Traded /\ c \in Int /\ 0 <= c /\ c <= now
                /\ firstReply # None /\ c <= lastReply
                /\ df[c] \in {"final", "partial"}
                /\ df[c] = "partial" => firstReply <= c /\ \A x \in Held(rows) : x <= c
                /\ \A u \in Traded : s <= u /\ u <= c => u \in C
  <2>1. PICK s \in DOMAIN got : c \in Held(got[s]) /\ df[c] = got[s][c]  BY <1>11
  <2>2. PICK k \in Int : /\ firstReply # None /\ firstReply <= k /\ k <= lastReply
                         /\ Candles(k, Held(rows)) /\ PageOK(got[s], s, k)
    BY <1>10
  <2>3. c \in Traded /\ c \in Int /\ 0 <= c /\ c <= k  BY <2>1, <2>2 DEF PageOK, Candles
  <2>4. c <= lastReply /\ c <= now  BY <1>2, <1>12, <2>2, <2>3
  <2>5. df[c] \in {"final", "partial"} /\ (df[c] = "partial" => c = k)
    BY <2>1, <2>2 DEF PageOK
  <2>6. df[c] = "partial" => firstReply <= c /\ \A x \in Held(rows) : x <= c
    BY <2>2, <2>5 DEF Candles
  <2>7. s <= c /\ \A u \in Traded : s <= u /\ u <= c => u \in Held(got[s])
    BY <2>1, <2>2 DEF PageOK, ClosedFrom
  <2>8. df[c] \in {"final", "partial"}  BY <2>5
  <2>9. \A u \in Traded : s <= u /\ u <= c => u \in C  BY <1>11, <2>7
  <2>10. s \in Int /\ f <= s /\ s < end  BY <1>9
  <2> QED  BY <2>2, <2>3, <2>4, <2>6, <2>7, <2>8, <2>9, <2>10
<1>14. ASSUME NEW u \in Traded, f <= u, u < end
       PROVE  \E k \in Int : /\ firstReply # None /\ firstReply <= k /\ Candles(k, Held(rows))
                             /\ u < k => u \in C
  <2>1. u \in Int  BY <1>2
  <2>2. PICK s \in Int : f <= s /\ s <= u /\ u < s + Limit /\ (s - f) % Limit = 0
    BY <1>3, <1>6, <1>14, <2>1, PageOf
  <2>3. s \in DOMAIN got
    <3>1. s \in f..(end - 1)  BY <1>6, <1>7, <1>14, <2>1, <2>2
    <3> QED  BY <1>8, <2>2, <3>1
  <2>4. PICK k \in Int : /\ firstReply # None /\ firstReply <= k
                         /\ Candles(k, Held(rows)) /\ PageOK(got[s], s, k)
    BY <1>10, <2>3
  <2>5. u < k => u \in Held(got[s])  BY <2>2, <2>4 DEF PageOK
  <2> QED  BY <1>11, <2>3, <2>4, <2>5
<1>15. /\ C \subseteq Traded /\ Candles(now, C)
       /\ \A c \in C : from <= c /\ firstReply # None /\ c <= lastReply
  <2>1. ASSUME NEW c \in C
        PROVE  /\ c \in Traded /\ c \in Int /\ 0 <= c /\ c <= now /\ from <= c
               /\ firstReply # None /\ c <= lastReply
    <3>1. PICK s \in Int : /\ f <= s /\ s <= c /\ c \in Traded /\ c \in Int /\ 0 <= c /\ c <= now
                           /\ firstReply # None /\ c <= lastReply
      BY <1>13
    <3> QED  BY <1>5, <1>6, <3>1
  <2> QED  BY <2>1 DEF Candles
<1>16. \A t \in C : /\ df[t] \in {"final", "partial"}
                    /\ df[t] = "partial" => firstReply <= t /\ \A x \in Held(rows) : x <= t
  BY <1>13
<1>17. ASSUME NEW u \in Traded, from <= u, e # None, u < e, NEW x \in Held(rows), u < x
       PROVE  u \in C
  <2>1. PICK k \in Int : Candles(k, Held(rows)) /\ (u < k => u \in C)
    BY <1>5, <1>7, <1>14, <1>17
  <2>2. x \in Int /\ x <= k /\ u \in Int  BY <1>2, <2>1 DEF Candles
  <2> QED  BY <1>17, <2>1, <2>2
<1>18. ASSUME NEW c \in C, e # None, NEW u \in Traded, e <= u, u <= c PROVE u \in C
  <2>1. PICK s \in Int : s < end /\ s <= c /\ \A w \in Traded : s <= w /\ w <= c => w \in C
    BY <1>13
  <2>2. s <= u  BY <1>2, <1>7, <1>18, <2>1
  <2> QED  BY <1>18, <2>1, <2>2
<1>19. ASSUME NEW c \in C, NEW u \in Traded \ C, from <= u, u <= c PROVE firstReply <= u
  <2>1. PICK s \in Int : s < end /\ s <= c /\ \A w \in Traded : s <= w /\ w <= c => w \in C
    BY <1>13
  <2>2. u \in Int /\ ~ (s <= u)  BY <1>2, <1>19, <2>1
  <2>3. u < end  BY <2>1, <2>2
  <2>4. PICK k \in Int : firstReply # None /\ firstReply <= k /\ (u < k => u \in C)
    BY <1>5, <1>14, <1>19, <2>3
  <2> QED  BY <1>12, <2>2, <2>4
<1> QED  BY <1>4, <1>15, <1>16, <1>17, <1>18, <1>19

LEMMA FetchFits ==
  ASSUME CInv, pc = "fetch", todo = {}, NEW D, D = Held(data),
         NEW new, new = Concat(arch, DropLast(Collected)), NEW N, N = Held(new)
  PROVE  /\ Candles(now, N) /\ Fits(Traded, Wanted, N, D)
         /\ \A t \in N : /\ new[t] \in {"final", "partial"}
                         /\ new[t] = "partial" => t \in Overtaken \/ \A x \in N \union D : x <= t
<1>1. TypeOK /\ AskedInv /\ FileInv /\ ArchInv  BY DEF CInv
<1>2. /\ Horizon \in Int /\ now \in Int /\ 0 <= now /\ now <= Horizon
      /\ \A t \in Traded : t \in Int /\ 0 <= t /\ t <= Horizon
  BY <1>1, ClockFacts
<1>3. PICK W : W = Wanted  OBVIOUS
<1>4. PICK T, e : T = Traded /\ e = Until(data)  OBVIOUS
<1>5. /\ Candles(now, D)
      /\ \A d \in D : d \in Int /\ d \in Held(rows)
  <2>1. Candles(now, Held(rows)) /\ data = DropLast(rows)
    BY <1>1 DEF CInv, FileInv, LoadInv
  <2>2. D \subseteq Held(rows)  BY <1>2, <2>1, DropLastIs
  <2> QED  BY <2>1, <2>2 DEF Candles
<1>6. /\ e = None \/ e \in 0..Horizon
      /\ D # {} /\ job.prepend => e \in D /\ \A x \in D : e <= x
  BY <1>1, <1>4, <1>5, UntilIs
<1>7. PICK df, C : df = Collected /\ C = Held(df)  OBVIOUS
<1>8. /\ C \subseteq T /\ Candles(now, C)
      /\ \A c \in C : from <= c /\ firstReply # None /\ c <= lastReply
      /\ \A t \in C :
           /\ df[t] \in {"final", "partial"}
           /\ df[t] = "partial" => firstReply <= t /\ \A x \in Held(rows) : x <= t
      /\ \A u \in T : from <= u /\ e # None /\ u < e /\ (\E x \in Held(rows) : u < x) => u \in C
      /\ \A c \in C : e # None => \A u \in T : e <= u /\ u <= c => u \in C
      /\ \A c \in C : \A u \in T \ C : from <= u /\ u <= c => firstReply <= u
  BY <1>4, <1>7, AllPages
<1>9. PICK d2, K : d2 = DropLast(df) /\ K = Held(d2)  OBVIOUS
<1>10. /\ K \subseteq C /\ \A t \in K : d2[t] = df[t] /\ \E m \in C : t < m
       /\ \A c, m \in C : c < m => c \in K
  <2>1. K \subseteq C /\ \A t \in K : d2[t] = df[t] /\ \E m \in C : t < m
    BY <1>2, <1>7, <1>8, <1>9, DropLastIs
  <2>2. ASSUME NEW c \in C, NEW m \in C, c < m PROVE c \in K
    <3>1. C # {}  OBVIOUS
    <3>2. (\A x \in C : x <= Max(C)) /\ K = C \ {Max(C)}
      BY <1>2, <1>7, <1>8, <1>9, <3>1, DropLastIs
    <3>3. m <= Max(C) /\ m \in Int /\ c \in Int  BY <1>8, <3>2 DEF Candles
    <3>4. c # Max(C)  BY <2>2, <3>3
    <3> QED  BY <3>2, <3>4
  <2> QED  BY <2>1, <2>2
<1>11. PICK A : A = Held(arch)  OBVIOUS
<1>12. N = A \union K /\ \A t \in N : (t \in K /\ new[t] = d2[t]) \/ (t \in A /\ new[t] = arch[t])
  <2>1. new = Concat(arch, d2)  BY <1>7, <1>9
  <2>2. /\ Held(new) = Held(arch) \union Held(d2)
        /\ \A t \in Held(d2) : new[t] = d2[t]
        /\ \A t \in Held(new) : t \notin Held(d2) => new[t] = arch[t]
    BY <2>1, ConcatIs
  <2> QED  BY <1>9, <1>11, <2>2
<1>13. PICK a \in 0..(Horizon + 1) :
         /\ ClosedFrom(T, A, a)
         /\ A = {} => from = a
         /\ A # {} => from = Max(A) + 1
         /\ D # {} /\ ~job.prepend => a = Max(D)
  BY <1>1, <1>4, <1>11 DEF ArchInv
<1>14. /\ \A t \in A : t \in T /\ arch[t] = "final" /\ t < now
       /\ e # None => \A t \in A : t < e
  BY <1>1, <1>4, <1>11 DEF ArchInv
<1>15. Candles(now, A)
  <2>1. \A t \in A : t \in Int /\ 0 <= t  BY <1>2, <1>4, <1>14
  <2>2. \A t \in A : t <= now  BY <1>2, <1>14, <2>1
  <2> QED  BY <2>1, <2>2 DEF Candles
<1>16. from \in Int /\ a \in Int /\ a <= from /\ (\A t \in A : t < from)
       /\ \A u \in T : u < from /\ a <= u => u \in A
  <2>1. a \in Int  BY <1>2
  <2>2. CASE A = {}  BY <1>2, <1>4, <1>13, <2>1, <2>2
  <2>3. CASE A # {}
    <3>1. PICK m : m = Max(A)  OBVIOUS
    <3>2. m \in A /\ m \in Int /\ \A t \in A : t <= m  BY <1>2, <1>15, <2>3, <3>1, MaxOf
    <3>3. from = m + 1  BY <1>13, <2>3, <3>1
    <3>4. a <= m /\ \A u \in T : a <= u /\ u <= m => u \in A  BY <1>13, <3>2 DEF ClosedFrom
    <3>5. \A t \in A : t < from  BY <1>15, <3>2, <3>3 DEF Candles
    <3>6. ASSUME NEW u \in T, u < from, a <= u PROVE u \in A
      <4>1. u \in Int  BY <1>2, <1>4
      <4>2. u <= m  BY <3>2, <3>3, <3>6, <4>1
      <4> QED  BY <3>4, <3>6, <4>2
    <3> QED  BY <2>1, <3>2, <3>3, <3>4, <3>5, <3>6
  <2> QED  BY <2>2, <2>3
<1>17. N \subseteq T /\ Candles(now, N)
  BY <1>8, <1>10, <1>12, <1>14, <1>15 DEF Candles
<1>18. \A x \in T : x \in Int /\ 0 <= x  BY <1>2, <1>4
<1>19. \A u \in W : u \in T /\ u \in Int /\ u \notin Overtaken
  BY <1>3, <1>4, <1>18 DEF Wanted
<1>20. ASSUME NEW u \in T, NEW c \in C, NEW m \in C, firstReply <= u, u < c, c < m
       PROVE  u \in Overtaken
  <2>1. u \in Int /\ 0 <= u /\ u <= Horizon /\ c \in Int /\ m \in Int
    BY <1>2, <1>4, <1>8 DEF Candles
  <2>2. firstReply # None /\ m <= lastReply  BY <1>8
  <2>3. lastReply \in Int  BY <1>1, <2>2, ReplyFacts
  <2>4. u + 2 <= lastReply  BY <1>20, <2>1, <2>2, <2>3
  <2>5. u \in 0..Horizon  BY <1>2, <2>1
  <2> QED  BY <1>20, <2>2, <2>4, <2>5 DEF Overtaken
<1>21. ClosedFrom(W, N, a)
  <2> SUFFICES ASSUME NEW c \in N PROVE a <= c /\ \A u \in W : a <= u /\ u <= c => u \in N
    BY DEF ClosedFrom
  <2>1. CASE c \in A  BY <1>12, <1>13, <1>19, <2>1 DEF ClosedFrom
  <2>2. CASE c \in K
    <3>1. c \in C /\ from <= c /\ c \in Int  BY <1>8, <1>10, <2>2 DEF Candles
    <3>2. a <= c  BY <1>16, <3>1
    <3>3. ASSUME NEW u \in W, a <= u, u <= c PROVE u \in N
      <4>1. u \in Int /\ u \in T  BY <1>19
      <4>2. CASE u < from  BY <1>12, <1>16, <3>3, <4>1, <4>2
      <4>3. CASE ~(u < from)
        <5>1. from <= u  BY <1>16, <4>1, <4>3
        <5>2. PICK m \in C : c < m /\ m \in Int  BY <1>8, <1>10, <2>2 DEF Candles
        <5>3. u \in C
          <6> SUFFICES ASSUME u \notin C PROVE FALSE  OBVIOUS
          <6>1. firstReply <= u  BY <1>8, <3>1, <3>3, <4>1, <5>1
          <6>2. u < c  BY <3>1, <3>3, <4>1
          <6>3. u \in Overtaken  BY <1>20, <3>1, <4>1, <5>2, <6>1, <6>2
          <6> QED  BY <1>19, <6>3
        <5>4. u < m  BY <3>1, <3>3, <4>1, <5>2
        <5> QED  BY <1>10, <1>12, <5>2, <5>3, <5>4
      <4> QED  BY <4>2, <4>3
    <3> QED  BY <3>2, <3>3
  <2> QED  BY <1>12, <2>1, <2>2
<1>22. Stretch(W, N)
  <2> SUFFICES ASSUME NEW b \in N, NEW c \in N, NEW u \in W, b <= u, u <= c PROVE u \in N
    BY DEF Stretch
  <2>1. a <= b /\ b \in Int /\ u \in Int  BY <1>17, <1>18, <1>21, <1>19 DEF ClosedFrom
  <2>2. a <= u  BY <1>16, <2>1
  <2> QED  BY <1>21, <2>2 DEF ClosedFrom
<1>23. Backed(T, N)  BY <1>17 DEF Backed
<1>24. ASSUME D # {}, NEW u \in W, NEW v \in W, u \notin N, v \notin N, u < v,
              NEW n \in N, n < u, \A d \in D : v < d
       PROVE  FALSE
  <2>1. n \in Int /\ u \in Int /\ v \in Int /\ a <= n
    BY <1>17, <1>18, <1>21, <1>19 DEF ClosedFrom
  <2>2. CASE ~job.prepend
    <3>1. PICK m : m = Max(D)  OBVIOUS
    <3>2. m \in D /\ m \in Int  BY <1>2, <1>5, <1>24, <3>1, MaxOf
    <3>3. a = m /\ v < m  BY <1>13, <1>24, <2>2, <3>1, <3>2
    <3> QED  BY <1>24, <2>1, <3>2, <3>3
  <2>3. CASE job.prepend
    <3>1. e \in D /\ e # None /\ e \in Int
      <4>1. e \in D  BY <1>6, <1>24, <2>3
      <4>2. e \in Int /\ 0 <= e  BY <1>5, <4>1 DEF Candles
      <4> QED  BY <4>1, <4>2 DEF None
    <3>2. v < e /\ u < e  BY <1>24, <2>1, <3>1
    <3>3. e \in Held(rows)  BY <1>5, <3>1
    <3>4. u \in T /\ v \in T  BY <1>19
    <3>5. from <= u /\ from <= v
      <4>1. a <= u  BY <1>16, <1>24, <2>1
      <4>2. ~(u < from)  BY <1>12, <1>16, <1>24, <1>19, <4>1
      <4> QED  BY <1>16, <1>24, <2>1, <4>2
    <3>6. u \in C /\ v \in C  BY <1>8, <3>1, <3>2, <3>3, <3>4, <3>5
    <3>7. u \in K  BY <1>10, <1>24, <3>6
    <3> QED  BY <1>12, <1>24, <3>7
  <2> QED  BY <2>2, <2>3
<1>25. ASSUME D # {}, N # {}, NEW u \in W, \A d \in D : d < u, \A n \in N : u < n
       PROVE  FALSE
  <2>1. PICK n : n \in N /\ n \in Int /\ u < n  BY <1>17, <1>25 DEF Candles
  <2>2. u \in Int /\ u \in T /\ a <= n  BY <1>21, <1>19, <2>1 DEF ClosedFrom
  <2>3. u \notin N
    <3> SUFFICES ASSUME u \in N PROVE FALSE  OBVIOUS
    <3>1. u < u  BY <1>25
    <3> QED  BY <2>2, <3>1
  <2>4. CASE ~job.prepend
    <3>1. PICK m : m = Max(D)  OBVIOUS
    <3>2. m \in D /\ m \in Int  BY <1>2, <1>5, <1>25, <3>1, MaxOf
    <3>3. a = m /\ m < u  BY <1>13, <1>25, <2>4, <3>1, <3>2
    <3>4. a <= u /\ u <= n  BY <2>1, <2>2, <3>2, <3>3
    <3> QED  BY <1>21, <2>1, <2>3, <3>4 DEF ClosedFrom
  <2>5. CASE job.prepend
    <3>1. e \in D /\ e # None /\ e \in Int
      <4>1. e \in D  BY <1>6, <1>25, <2>5
      <4>2. e \in Int /\ 0 <= e  BY <1>5, <4>1 DEF Candles
      <4> QED  BY <4>1, <4>2 DEF None
    <3>2. e < u  BY <1>25, <3>1
    <3>3. n \notin A
      <4> SUFFICES ASSUME n \in A PROVE FALSE  OBVIOUS
      <4>1. n < e  BY <1>14, <3>1
      <4> QED  BY <2>1, <2>2, <3>1, <3>2, <4>1
    <3>4. n \in K /\ n \in C  BY <1>10, <1>12, <2>1, <3>3
    <3>5. e <= u /\ u <= n  BY <2>1, <2>2, <3>1, <3>2
    <3>6. u \in C  BY <1>8, <2>2, <3>1, <3>4, <3>5
    <3>7. u \in K  BY <1>10, <2>1, <3>4, <3>6
    <3> QED  BY <1>12, <2>3, <3>7
  <2> QED  BY <2>4, <2>5
<1>26. Fits(T, W, N, D)
  <2>1. N # {} /\ D # {} =>
          ~ \E u, v \in W \ N : u < v /\ (\E n \in N : n < u) /\ (\A d \in D : v < d)
    BY <1>24
  <2>2. N # {} /\ D # {} => ~ \E u \in W : (\A d \in D : d < u) /\ (\A n \in N : u < n)
    BY <1>25
  <2> QED  BY <1>22, <1>23, <2>1, <2>2 DEF Fits
<1>27. ASSUME NEW t \in N
       PROVE  /\ new[t] \in {"final", "partial"}
              /\ new[t] = "partial" => t \in Overtaken \/ \A x \in N \union D : x <= t
  <2>1. new[t] \in {"final", "partial"}  BY <1>8, <1>10, <1>12, <1>14
  <2>2. ASSUME new[t] = "partial", t \notin Overtaken, NEW x \in N \union D PROVE x <= t
    <3>1. t \in K /\ d2[t] = "partial"  BY <1>12, <1>14, <2>2
    <3>2. t \in C /\ t \in T /\ t \in Int /\ df[t] = "partial"
      BY <1>8, <1>10, <3>1 DEF Candles
    <3>3. firstReply <= t /\ from <= t /\ \A w \in Held(rows) : w <= t  BY <1>8, <3>2
    <3>4. CASE x \in D  BY <1>5, <3>3, <3>4
    <3>5. CASE x \in A
      <4>1. x < from /\ x \in Int  BY <1>15, <1>16, <3>5 DEF Candles
      <4> QED  BY <1>16, <3>2, <3>3, <4>1
    <3>6. CASE x \in K
      <4>1. PICK m \in C : x < m  BY <1>10, <3>6
      <4>2. x \in C /\ x \in Int  BY <1>8, <1>10, <3>6 DEF Candles
      <4> SUFFICES ASSUME ~ (x <= t) PROVE FALSE  OBVIOUS
      <4>3. t < x  BY <3>2, <4>2
      <4>4. t \in Overtaken  BY <1>20, <3>2, <3>3, <4>1, <4>2, <4>3
      <4> QED  BY <2>2, <4>4
    <3> QED  BY <1>12, <3>4, <3>5, <3>6
  <2> QED  BY <2>1, <2>2
<1> QED  BY <1>3, <1>4, <1>17, <1>26, <1>27

LEMMA FastFits ==
  ASSUME CInv, pc = "store", NEW D, D = Held(data), NEW N, N = Held(fast)
  PROVE  /\ Candles(now, N) /\ Fits(Traded, Wanted, N, D) /\ N # {} /\ D # {}
         /\ \A t \in N : fast[t] \in Content /\ fast[t] # "partial"
<1>1. TypeOK /\ FileInv /\ FastInv  BY DEF CInv
<1>2. Horizon \in Int /\ now \in Int /\ 0 <= now /\ \A t \in Traded : t \in Int
  BY <1>1, ClockFacts
<1>3. PICK T, W : T = Traded /\ W = Wanted  OBVIOUS
<1>4. W \subseteq T  BY <1>3 DEF Wanted
<1>5. N # {}  BY <1>1 DEF FastInv
<1>6. PICK lo, hi \in 0..Horizon :
        /\ N = lo..hi /\ lo \in T /\ lo <= hi /\ hi < now
        /\ \A t \in N : fast[t] # "partial"
        /\ \A u, v \in T : lo <= u /\ u < v /\ (\E w \in Held(rows) : v < w) => u \in N
        /\ D # {} /\ lo <= Max(D)
  BY <1>1, <1>3, <1>5 DEF FastInv
<1>7. D \subseteq Held(rows) /\ Candles(now, D)
  <2>1. Candles(now, Held(rows)) /\ data = DropLast(rows)
    BY <1>1 DEF CInv, FileInv, LoadInv
  <2>2. D \subseteq Held(rows)  BY <1>2, <2>1, DropLastIs
  <2> QED  BY <2>1, <2>2 DEF Candles
<1>8. lo \in Int /\ hi \in Int /\ 0 <= lo  BY <1>2
<1>9. Candles(now, N)  BY <1>2, <1>6, <1>8 DEF Candles
<1>10. Stretch(T, N)
  <2> SUFFICES ASSUME NEW a \in N, NEW c \in N, NEW u \in T, a <= u, u <= c PROVE u \in N
    BY DEF Stretch
  <2>1. u \in Int /\ lo <= a /\ c <= hi /\ a \in Int /\ c \in Int  BY <1>2, <1>3, <1>6, <1>8
  <2>2. lo <= u /\ u <= hi  BY <1>8, <2>1
  <2> QED  BY <1>6, <1>8, <2>1, <2>2
<1>11. Backed(T, N)
  <2> SUFFICES ASSUME NEW v \in N, v \notin T PROVE v - 1 \in N  BY DEF Backed
  <2>1. v \in Int /\ lo <= v /\ v <= hi /\ v # lo  BY <1>6, <1>8
  <2> QED  BY <1>6, <1>8, <2>1
<1>12. PICK m : m = Max(D)  OBVIOUS
<1>13. m \in D /\ m \in Int /\ lo <= m  BY <1>2, <1>6, <1>7, <1>12, MaxOf
<1>14. ASSUME NEW u \in T, NEW v \in T, u \notin N, u < v, NEW n \in N, n < u, \A d \in D : v < d
       PROVE  FALSE
  <2>1. lo <= u
    <3>1. n \in Int /\ lo <= n /\ u \in Int  BY <1>2, <1>3, <1>6, <1>8
    <3> QED  BY <1>8, <1>14, <3>1
  <2>2. m \in Held(rows) /\ v < m  BY <1>7, <1>13, <1>14
  <2> QED  BY <1>6, <1>14, <2>1, <2>2
<1>15. ASSUME NEW u \in T, \A d \in D : d < u, \A n \in N : u < n PROVE FALSE
  <2>1. lo \in N  BY <1>6, <1>8
  <2>2. m < u /\ u < lo /\ u \in Int  BY <1>2, <1>3, <1>13, <1>15, <2>1
  <2> QED  BY <1>8, <1>13, <2>2
<1>16. Fits(T, W, N, D)
  <2>1. ~ \E u, v \in W \ N : u < v /\ (\E n \in N : n < u) /\ (\A d \in D : v < d)
    BY <1>14, <1>4
  <2>2. ~ \E u \in W : (\A d \in D : d < u) /\ (\A n \in N : u < n)
    BY <1>15, <1>4
  <2>3. Stretch(W, N)  BY <1>10, <1>4 DEF Stretch
  <2> QED  BY <1>11, <2>1, <2>2, <2>3 DEF Fits
<1>17. \A t \in N : fast[t] \in Content  BY <1>1, TypeParts DEF Frame, Held
<1> QED  BY <1>3, <1>5, <1>6, <1>9, <1>16, <1>17

LEMMA NewFits ==
  ASSUME CInv, Store, NEW D, D = Held(data), NEW N, N = Held(NewRows)
  PROVE  /\ Candles(now, N) /\ Fits(Traded, Wanted, N, D)
         /\ \A t \in N : /\ NewRows[t] \in Content
                         /\ NewRows[t] = "partial" =>
                              t \in Overtaken \/ \A x \in N \union D : x <= t
<1>1. pc = "store" \/ (pc = "fetch" /\ todo = {})  BY DEF Store
<1>2. CASE pc = "store"
  <2>1. PICK F : F = Held(fast)  OBVIOUS
  <2>2. /\ Candles(now, F) /\ Fits(Traded, Wanted, F, D) /\ F # {}
        /\ \A t \in F : fast[t] \in Content /\ fast[t] # "partial"
    BY <1>2, <2>1, FastFits
  <2>3. NewRows = fast  BY <2>1, <2>2 DEF NewRows
  <2> QED  BY <2>1, <2>2, <2>3
<1>3. CASE pc = "fetch" /\ todo = {}
  <2>1. Held(fast) = {}  BY <1>3 DEF CInv, FastInv
  <2>2. PICK new, F : new = Concat(arch, DropLast(Collected)) /\ F = Held(new)  OBVIOUS
  <2>3. NewRows = new  BY <2>1, <2>2 DEF NewRows
  <2>4. /\ Candles(now, F) /\ Fits(Traded, Wanted, F, D)
        /\ \A t \in F : /\ new[t] \in {"final", "partial"}
                        /\ new[t] = "partial" => t \in Overtaken \/ \A x \in F \union D : x <= t
    BY <1>3, <2>2, FetchFits
  <2> QED  BY <2>2, <2>3, <2>4 DEF Content
<1> QED  BY <1>1, <1>2, <1>3

LEMMA StoreStep == CInv /\ Store => CInv'
<1> SUFFICES ASSUME CInv, Store PROVE CInv'  OBVIOUS
<1>1. /\ pc \in {"store", "fetch"} /\ pc' = "write" /\ fast' = Nothing /\ arch' = Nothing
      /\ got' = Nothing /\ UNCHANGED market /\ UNCHANGED <<rows, job, from, todo, history>>
      /\ pc = "fetch" => todo = {}
      /\ data' = IF Held(data) = {} THEN NewRows ELSE Concat(data, NewRows)
  BY DEF Store
<1>2. Traded' = Traded /\ now' = now /\ untraded' = untraded /\ archives' = archives
  BY <1>1, SameTraded DEF market
<1>3. TypeOK /\ AskedInv /\ FileInv  BY DEF CInv
<1>4. Horizon \in Int /\ now \in Int /\ 0 <= now /\ now <= Horizon
  BY <1>3, ClockFacts
<1>5. PICK D, new, N : D = Held(data) /\ new = NewRows /\ N = Held(new)  OBVIOUS
<1>6. /\ Candles(now, N) /\ Fits(Traded, Wanted, N, D)
      /\ \A t \in N : new[t] \in Content
      /\ \A t \in N : new[t] = "partial" => t \in Overtaken \/ \A x \in N \union D : x <= t
  BY <1>5, NewFits
<1>7. data = DropLast(rows) /\ Candles(now, Held(rows)) /\ Frame(rows)
      /\ NewestOnly(rows, overtaken)
  BY <1>1, <1>3, TypeParts DEF CInv, FileInv, LoadInv
<1>8. Candles(now, Held(rows))  BY <1>7
<1>9. Candles(now, D) /\ Frame(data)  BY <1>4, <1>5, <1>7, <1>8, DroppedFrame
<1>10. \A t \in D : data[t] = "partial" => t \in overtaken
  <2> SUFFICES ASSUME NEW t \in D, data[t] = "partial", t \notin overtaken PROVE FALSE  OBVIOUS
  <2>1. rows[t] = data[t] /\ t \in Held(rows) /\ \E x \in Held(rows) : t < x
    BY <1>4, <1>5, <1>7, <1>8, DropLastIs
  <2>2. PICK x \in Held(rows) : t < x  BY <2>1
  <2>3. x <= t  BY <1>7, <2>1 DEF NewestOnly
  <2>4. x \in Int /\ t \in Int  BY <1>8, <2>1 DEF Candles
  <2> QED  BY <2>2, <2>3, <2>4
<1>11. /\ Held(data') = D \union N
       /\ \A t \in N : data'[t] = new[t]
       /\ \A t \in D \union N : t \notin N => data'[t] = data[t]
  <2>1. CASE D = {}
    <3>1. data' = new  BY <1>1, <1>5, <2>1
    <3> QED  BY <1>5, <2>1, <3>1
  <2>2. CASE D # {}
    <3>1. PICK df : df = Concat(data, new)  OBVIOUS
    <3>2. data' = df  BY <1>1, <1>5, <2>2, <3>1
    <3>3. /\ Held(df) = D \union N
          /\ \A t \in N : df[t] = new[t]
          /\ \A t \in Held(df) : t \notin N => df[t] = data[t]
      BY <1>5, <3>1, ConcatIs
    <3> QED  BY <3>2, <3>3
  <2> QED  BY <2>1, <2>2
<1>12. Candles(now, Held(data'))  BY <1>6, <1>9, <1>11 DEF Candles
<1>13. PICK O : O = overtaken \union Overtaken  OBVIOUS
<1>14. NewestOnly(data', O)
  <2> SUFFICES ASSUME NEW t \in D \union N, data'[t] = "partial"
               PROVE  t \in O \/ \A x \in D \union N : x <= t
    BY <1>11 DEF NewestOnly
  <2>1. CASE t \in N  BY <1>6, <1>11, <1>13, <2>1
  <2>2. CASE t \notin N  BY <1>10, <1>11, <1>13, <2>2
  <2> QED  BY <2>1, <2>2
<1>15. Overtaken' = Overtaken /\ Wanted' = Wanted /\ overtaken' = overtaken
  BY <1>1, <1>2 DEF history, Overtaken, Wanted
<1>16. Held(Nothing) = {} /\ Frame(Nothing) /\ DOMAIN Nothing = {}  BY NothingIs DEF Held
<1>17. Frame(data')
  <2>1. Held(data') \subseteq 0..Horizon  BY <1>4, <1>12 DEF Candles
  <2>2. \A t \in Held(data') : data'[t] \in Content
    <3>1. \A t \in D : data[t] \in Content  BY <1>5, <1>9 DEF Frame, Held
    <3> QED  BY <1>6, <1>11, <3>1
  <2> QED  BY <2>1, <2>2 DEF Frame, Held
<1>18. TypeOK'  BY <1>1, <1>2, <1>3, <1>16, <1>17 DEF TypeOK, Frame, history
<1>19. AskedInv'  BY <1>1, <1>2, <1>3 DEF AskedInv, history
<1>20. FileInv'
  <2>1. Candles(now', Held(rows'))  BY <1>1, <1>2, <1>8
  <2> QED  BY <1>1, <1>2, <1>3, <1>15, <2>1 DEF FileInv, NewestOnly
<1>21. QuickInv'  BY <1>1 DEF QuickInv
<1>22. FastInv'  BY <1>1, <1>16 DEF FastInv
<1>23. LoadInv'  BY <1>1 DEF LoadInv
<1>24. ArchInv'  BY <1>1, <1>16 DEF ArchInv
<1>25. PageInv'
  <2>1. todo = {}  BY <1>1 DEF CInv, PageInv
  <2> QED  BY <1>1, <1>16, <2>1 DEF PageInv
<1>26. WriteInv'
  <2>1. N \in SUBSET (0..Horizon)  BY <1>4, <1>6 DEF Candles
  <2>2. DropLast(rows)' = data  BY <1>1, <1>7 DEF DropLast, Keep, Held
  <2>3. /\ Candles(now, N)' /\ Held(data)' = Held(DropLast(rows))' \union N
        /\ Fits(Traded', Wanted', N, Held(DropLast(rows))')
    BY <1>2, <1>5, <1>6, <1>11, <1>15, <2>2 DEF Held, Candles
  <2>4. Candles(now', Held(data')) /\ NewestOnly(data, overtaken \union Overtaken)'
    BY <1>2, <1>12, <1>13, <1>14, <1>15 DEF NewestOnly, Held
  <2> QED  BY <2>1, <2>3, <2>4 DEF WriteInv
<1> QED  BY <1>18, <1>19, <1>20, <1>21, <1>22, <1>23, <1>24, <1>25, <1>26 DEF CInv

-----------------------------------------------------------------------------
(* The theorems                                                             *)

LEMMA InitCInv == Init => CInv
<1> SUFFICES ASSUME Init PROVE CInv  OBVIOUS
<1>1. /\ archives \in Archives /\ now = 0 /\ untraded \subseteq Quiet
      /\ rows = Nothing /\ pc = "idle" /\ job = NoJob
      /\ data = Nothing /\ fast = Nothing /\ from = 0 /\ arch = Nothing
      /\ todo = {} /\ got = Nothing
      /\ firstReply = None /\ lastReply = None /\ overtaken = {}
  BY DEF Init
<1>2. Held(Nothing) = {} /\ Frame(Nothing) /\ DOMAIN Nothing = {}  BY NothingIs DEF Held
<1>3. Horizon \in Nat /\ Archives \subseteq BOOLEAN /\ Quiet \subseteq 0..Horizon
  BY BoundsAssumption
<1>4. TypeOK
  <2>1. /\ archives \in BOOLEAN /\ now \in 0..Horizon
        /\ from \in 0..(Horizon + 1) /\ untraded \subseteq 0..Horizon
    BY <1>1, <1>3
  <2>2. job \in Jobs  BY <1>1 DEF NoJob, Jobs
  <2>3. \A df \in {rows, data, fast, arch} : df = Nothing  BY <1>1
  <2>4. DOMAIN got \subseteq 0..Horizon /\ todo \subseteq 0..Horizon  BY <1>1, <1>2
  <2> QED  BY <1>1, <1>2, <2>1, <2>2, <2>3, <2>4 DEF TypeOK, Frame
<1>5. AskedInv  BY <1>1 DEF AskedInv
<1>6. FileInv  BY <1>1, <1>2 DEF FileInv, Candles, Backed, NewestOnly
<1>7. QuickInv /\ LoadInv /\ WriteInv  BY <1>1 DEF QuickInv, LoadInv, WriteInv
<1>8. FastInv /\ ArchInv /\ PageInv  BY <1>1, <1>2 DEF FastInv, ArchInv, PageInv
<1> QED  BY <1>4, <1>5, <1>6, <1>7, <1>8 DEF CInv

LEMMA StutterStep == CInv /\ UNCHANGED vars => CInv'
<1> SUFFICES ASSUME CInv, UNCHANGED vars PROVE CInv'  OBVIOUS
<1>1. /\ UNCHANGED market /\ UNCHANGED <<rows, pc, job, data, fast, from, arch, todo, got>>
      /\ UNCHANGED <<firstReply, lastReply, overtaken>>
  BY DEF vars, fetch, history
<1>2. Traded' = Traded /\ now' = now /\ untraded' = untraded /\ archives' = archives
  BY <1>1, SameTraded DEF market
<1>3. Until(data)' = Until(data) /\ DropLast(rows)' = DropLast(rows)
  BY <1>1 DEF Until, DropLast, Keep, Held
<1>4. Overtaken' = Overtaken /\ Wanted' = Wanted  BY <1>1, <1>2 DEF Overtaken, Wanted
<1>5. TypeOK' /\ AskedInv'  BY <1>1, <1>2 DEF CInv, TypeOK, AskedInv
<1>6. FileInv'  BY <1>1, <1>2 DEF CInv, FileInv, NewestOnly
<1>7. QuickInv' /\ LoadInv'  BY <1>1, <1>3 DEF CInv, QuickInv, LoadInv
<1>8. FastInv'  BY <1>1, <1>2 DEF CInv, FastInv
<1>9. ArchInv'  BY <1>1, <1>2, <1>3 DEF CInv, ArchInv
<1>10. PageInv'
  <2>1. \A end : Starts(end)' = Starts(end)  BY <1>1 DEF Starts
  <2>2. \A s : Arrived(got[s], s)' <=> Arrived(got[s], s)  BY <1>1, <1>2 DEF Arrived, PageOK
  <2> QED  BY <1>1, <1>3, <2>1, <2>2 DEF CInv, PageInv
<1>11. WriteInv'
  <2>1. \A N : Candles(now, N)' <=> Candles(now, N)  BY <1>2 DEF Candles
  <2>2. NewestOnly(data, overtaken \union Overtaken)'
          <=> NewestOnly(data, overtaken \union Overtaken)
    BY <1>1, <1>4 DEF NewestOnly
  <2> QED  BY <1>1, <1>2, <1>3, <1>4, <2>1, <2>2 DEF CInv, WriteInv
<1> QED  BY <1>5, <1>6, <1>7, <1>8, <1>9, <1>10, <1>11 DEF CInv

LEMMA NextCInv == CInv /\ [Next]_vars => CInv'
<1> SUFFICES ASSUME CInv, [Next]_vars PROVE CInv'  OBVIOUS
<1>1. CASE Tick  BY <1>1, TickStep
<1>2. CASE Begin  BY <1>2, BeginStep
<1>3. CASE QuickDownload  BY <1>3, QuickDownloadStep
<1>4. CASE Load  BY <1>4, LoadStep
<1>5. CASE ReadArchive  BY <1>5, ReadArchiveStep
<1>6. CASE StartFetch  BY <1>6, StartFetchStep
<1>7. CASE \E s \in 0..Horizon, traded \in BOOLEAN : FetchPage(s, traded)
  BY <1>7, FetchPageStep
<1>8. CASE FetchFails  BY <1>8, FetchFailsStep
<1>9. CASE Store  BY <1>9, StoreStep
<1>10. CASE Written  BY <1>10, WrittenStep
<1>11. CASE Crash  BY <1>11, CrashStep
<1>12. CASE UNCHANGED vars  BY <1>12, StutterStep
<1> QED
  BY <1>1, <1>2, <1>3, <1>4, <1>5, <1>6, <1>7, <1>8, <1>9, <1>10, <1>11, <1>12 DEF Next

\* A candle that a download stored while it was in progress is the newest one
\* of the file, which the next download fetches again, or it was overtaken while
\* the pages of that download arrived: however long they took.
THEOREM UnfinishedIsNewest == Spec => []OnlyNewestUnfinished
<1>1. CInv => OnlyNewestUnfinished
  <2> SUFFICES ASSUME CInv, NEW t \in Unfinished(rows), t \notin overtaken
               PROVE  t = Max(Held(rows))
    BY DEF OnlyNewestUnfinished, CInv
  <2>1. t \in Held(rows) /\ rows[t] = "partial"  BY DEF Unfinished
  <2>2. \A x \in Held(rows) : x <= t  BY <2>1 DEF CInv, FileInv, NewestOnly
  <2>3. \A x \in Held(rows) : x \in Int  BY DEF CInv, FileInv, Candles
  <2> QED  BY <2>1, <2>2, <2>3, MaxIs
<1> QED  BY InitCInv, NextCInv, <1>1, PTL DEF Spec

\* A file that is written is what the archive may become.
LEMMA WrittenIsDownload ==
  ASSUME CInv, Written
  PROVE  Archive!Download
<1>1. rows' = data /\ firstReply' = None /\ untraded' = untraded /\ now' = now /\ pc = "write"
  BY DEF Written, Idle, market
<1>2. PICK D, T, W : D = Held(DropLast(rows)) /\ T = Traded /\ W = Wanted  OBVIOUS
<1>3. TypeOK /\ AskedInv  BY DEF CInv
<1>4. /\ Horizon \in Int /\ now \in Int /\ 0 <= now /\ now <= Horizon
      /\ \A t \in T : t \in Int /\ 0 <= t /\ t <= Horizon /\ t \notin untraded
  BY <1>2, <1>3, ClockFacts
<1>5. Candles(now, Held(data)) /\ Backed(T, D) /\ Candles(now, D)
  BY <1>1, <1>2, WrittenFits
<1>6. PICK N : Candles(now, N) /\ Held(data) = D \union N /\ Fits(T, W, N, D)
  BY <1>1, <1>2, WrittenFits
<1>7. PICK S, S2 : S = Settled /\ S2 = Settled'  OBVIOUS
<1>8. S = D \intersect T
  <2>1. \A x \in D : x \in 0..Horizon  BY <1>4, <1>5 DEF Candles
  <2> QED  BY <1>2, <1>7, <2>1 DEF Settled, Traded
<1>9. PICK R : R = D \union N  OBVIOUS
<1>10. PICK d, p : d = DropLast(data) /\ p = Max(R)  OBVIOUS
<1>11. S2 = Held(d) \ untraded  BY <1>1, <1>7, <1>10 DEF Settled, DropLast, Keep, Held
<1>12. R = Held(data) /\ \A x \in R : x \in Int /\ 0 <= x /\ x <= now
  BY <1>5, <1>6, <1>9 DEF Candles
<1>13. Held(d) = R \ {p} /\ (R # {} => p \in R /\ \A x \in R : x <= p)
  <2>1. CASE R = {}  BY <1>10, <1>12, <2>1 DEF DropLast
  <2>2. CASE R # {}  BY <1>4, <1>5, <1>10, <1>12, <2>2, DropLastIs
  <2> QED  BY <2>1, <2>2
<1>14. S2 = (R \ {p}) \intersect T
  <2>1. \A x \in R : x \in 0..Horizon  BY <1>4, <1>12
  <2> QED  BY <1>2, <1>11, <1>13, <2>1 DEF Traded
<1>15. S2 \in SUBSET ((0..(now - 1)) \ untraded)
  <2> SUFFICES ASSUME NEW x \in S2 PROVE x \in (0..(now - 1)) \ untraded  OBVIOUS
  <2>1. x \in R /\ x # p /\ p \in R /\ x <= p  BY <1>13, <1>14
  <2>2. x \in Int /\ p \in Int /\ 0 <= x /\ p <= now  BY <1>12, <2>1
  <2>3. x \in 0..(now - 1)  BY <1>4, <2>1, <2>2
  <2> QED  BY <1>4, <1>14, <2>3
<1>16. S \ {Max(S \union {0})} \subseteq S2
  <2>1. CASE R = {}  BY <1>8, <1>9, <2>1
  <2>2. CASE R # {}
    <3>1. D \subseteq R /\ Candles(now, R)  BY <1>9, <1>12 DEF Candles
    <3> QED  BY <1>4, <1>5, <1>8, <1>13, <1>14, <2>2, <3>1, KeptRows
  <2> QED  BY <2>1, <2>2
<1>17. PICK B : /\ \A u, v \in B : ~ (u < v)
                /\ \A u \in B : u \in T /\ S # {} /\ \A s \in S : u < s
                /\ Gaps(T, S2) \subseteq Gaps(T, S) \union (T \ W) \union B
  <2>1. CASE R = {}
    <3>1. Gaps(T, S2) = {}  BY <1>14, <2>1 DEF Gaps
    <3> QED  BY <3>1
  <2>2. CASE R # {}
    <3>1. W \subseteq T  BY <1>2 DEF Wanted
    <3>2. \A x \in T : x \in Int  BY <1>4
    <3>3. S2 = ((D \union N) \ {p}) \intersect T /\ p \in D \union N /\ \A x \in D \union N : x <= p
      BY <1>9, <1>13, <1>14, <2>2
    <3>4. now \in Int /\ Candles(now, D) /\ Candles(now, N) /\ Backed(T, D) /\ Fits(T, W, N, D)
      BY <1>4, <1>5, <1>6
    <3>5. \E B : /\ \A u, v \in B : ~ (u < v)
                 /\ \A u \in B : /\ u \in T /\ D \intersect T # {}
                                /\ \A s \in D \intersect T : u < s
                 /\ Gaps(T, ((D \union N) \ {p}) \intersect T)
                      \subseteq Gaps(T, D \intersect T) \union (T \ W) \union B
      BY <3>1, <3>2, <3>3, <3>4, Joined
    <3> QED  BY <1>8, <3>3, <3>5
  <2> QED  BY <2>1, <2>2
<1>18. PICK skipped \in {{}} \union {{t} : t \in Archive!InFront} : B \subseteq skipped
  <2>1. CASE B = {}  BY <2>1
  <2>2. CASE B # {}
    <3>1. PICK b : b \in B  BY <2>2
    <3>2. b \in T /\ S # {} /\ \A s \in S : b < s  BY <1>17, <3>1
    <3>3. b \in 0..Horizon  BY <1>4, <3>2
    <3>4. b \in Archive!InFront  BY <1>7, <3>2, <3>3 DEF Archive!InFront
    <3>5. B \subseteq {b}
      <4> SUFFICES ASSUME NEW c \in B PROVE c = b  OBVIOUS
      <4>1. b \in Int /\ c \in Int  BY <1>4, <1>17, <3>1
      <4>2. ~ (b < c) /\ ~ (c < b)  BY <1>17, <3>1
      <4> QED  BY <4>1, <4>2
    <3> QED  BY <3>4, <3>5
  <2> QED  BY <2>1, <2>2
<1>19. T \ W \subseteq Archive!Lost
  <2> SUFFICES ASSUME NEW t \in T \ W PROVE t \in Archive!Lost  OBVIOUS
  <2>1. t \in Overtaken  BY <1>2 DEF Wanted
  <2>2. firstReply # None /\ firstReply <= t /\ t + 2 <= lastReply  BY <2>1 DEF Overtaken
  <2>3. firstReply \in Int /\ lastReply \in Int /\ lastReply <= now /\ t \in Int
    BY <1>3, <1>4, <2>2, ReplyFacts
  <2>4. t \in firstReply..(now - 2)  BY <1>4, <2>2, <2>3
  <2>5. firstReply # Archive!None  BY <2>2 DEF None, Archive!None
  <2> QED  BY <2>4, <2>5 DEF Archive!Lost
<1>20. ASSUME NEW A PROVE Archive!Holes(A) = Gaps(T, A)
  BY <1>2 DEF Archive!Holes, Gaps, Traded
<1>22. /\ Settled' \in SUBSET ((0..(now - 1)) \ untraded)
       /\ Settled \ {Archive!Max(Settled \union {0})} \subseteq Settled'
  <2>1. Archive!Max(S \union {0}) = Max(S \union {0})  BY DEF Archive!Max, Max
  <2> QED  BY <1>7, <1>15, <1>16, <2>1
<1>23. Archive!Holes(Settled') \subseteq Archive!Holes(Settled) \union Archive!Lost \union skipped
  <2>1. Archive!Holes(S2) \subseteq Archive!Holes(S) \union Archive!Lost \union skipped
    BY <1>17, <1>18, <1>19, <1>20
  <2> QED  BY <1>7, <2>1
<1>24. firstReply' = Archive!None  BY <1>1 DEF None, Archive!None
<1> QED  BY <1>1, <1>18, <1>22, <1>23, <1>24 DEF Archive!Download

\* What the next step makes of the settled candles.
LEMMA SettledStep ==
  ASSUME CInv, [Next]_vars
  PROVE  [Archive!Next]_(Archive!vars)
<1>1. None = Archive!None  BY DEF None, Archive!None
<1>2. ASSUME rows' = rows, untraded' = untraded PROVE Settled' = Settled
  BY <1>2 DEF Settled, DropLast, Keep, Held
<1>3. ASSUME rows' = Nothing, UNCHANGED market, firstReply' = None PROVE Archive!Wipe
  <2>1. Held(Nothing) = {}  BY NothingIs
  <2>2. Settled' = {}  BY <1>3, <2>1 DEF Settled, DropLast
  <2> QED  BY <1>1, <1>3, <2>2 DEF Archive!Wipe, market
<1>4. ASSUME UNCHANGED market, rows' = rows, firstReply' = None PROVE Archive!GiveUp
  BY <1>1, <1>2, <1>4 DEF Archive!GiveUp, market
<1>5. ASSUME UNCHANGED market, rows' = rows, firstReply' = firstReply
      PROVE  UNCHANGED Archive!vars
  BY <1>2, <1>5 DEF Archive!vars, market
<1>6. CASE Tick
  <2>1. /\ now < Horizon /\ now' = now + 1 /\ untraded' = untraded /\ rows' = rows
        /\ firstReply' = firstReply
    BY <1>6 DEF Tick, history
  <2> QED  BY <1>2, <2>1 DEF Archive!Next, Archive!Tick
<1>7. CASE Load
  <2>1. rows' = Stored /\ UNCHANGED market /\ firstReply' = firstReply /\ pc = "load"
    BY <1>7 DEF Load, history
  <2>2. rows' = rows \/ rows' = Nothing  BY <2>1 DEF Stored
  <2>3. firstReply = None  BY <2>1 DEF CInv, AskedInv
  <2> QED  BY <1>3, <1>5, <2>1, <2>2, <2>3 DEF Archive!Next
<1>8. CASE Crash
  <2>1. (rows' = rows \/ rows' = Nothing) /\ UNCHANGED market /\ firstReply' = None
    BY <1>8 DEF Crash, Idle
  <2> QED  BY <1>3, <1>4, <2>1 DEF Archive!Next
<1>9. CASE FetchFails
  <2>1. rows' = rows /\ UNCHANGED market /\ firstReply' = None
    BY <1>9 DEF FetchFails, Idle
  <2> QED  BY <1>4, <2>1 DEF Archive!Next
<1>10. CASE Written  BY <1>10, WrittenIsDownload DEF Archive!Next
<1>11. CASE \E s \in 0..Horizon, traded \in BOOLEAN : FetchPage(s, traded)
  <2>1. /\ UNCHANGED market /\ rows' = rows
        /\ firstReply' = IF firstReply = None THEN now ELSE firstReply
    BY <1>11 DEF FetchPage
  <2>2. CASE firstReply = None
    <3>1. firstReply' = now  BY <2>1, <2>2
    <3>2. Settled' = Settled  BY <1>2, <2>1 DEF market
    <3> QED  BY <1>1, <2>1, <2>2, <3>1, <3>2 DEF Archive!Next, Archive!Ask, market
  <2>3. CASE firstReply # None  BY <1>5, <2>1, <2>3
  <2> QED  BY <2>2, <2>3
<1>12. CASE UNCHANGED vars
  BY <1>5, <1>12 DEF vars, history
<1>13. CASE Begin \/ QuickDownload \/ ReadArchive \/ StartFetch \/ Store
  <2>1. UNCHANGED market /\ rows' = rows /\ firstReply' = firstReply
    BY <1>13 DEF Begin, QuickDownload, ReadArchive, StartFetch, Store, history
  <2> QED  BY <1>5, <2>1
<1> QED  BY <1>6, <1>7, <1>8, <1>9, <1>10, <1>11, <1>12, <1>13 DEF Next

\* The file of a pair implements the archive that backtests rely on: every
\* step of a download, also of one that fails or is killed, keeps what is
\* settled, joins a stretch to it without a gap but of the candles that closed
\* while the download was answered, or gives it up at once.
THEOREM FileIsArchive == Spec => KeepsArchive
<1>1. Init => Archive!Init
  <2> SUFFICES ASSUME Init PROVE Archive!Init  OBVIOUS
  <2>1. now = 0 /\ untraded \subseteq Quiet /\ rows = Nothing /\ firstReply = None  BY DEF Init
  <2>2. Settled = {}  BY <2>1, NothingIs DEF Settled, DropLast
  <2>3. untraded \subseteq 0..Horizon  BY <2>1, BoundsAssumption
  <2> QED  BY <2>1, <2>2, <2>3 DEF Archive!Init, None, Archive!None
<1> QED  BY InitCInv, NextCInv, SettledStep, <1>1, PTL DEF Spec, KeepsArchive, Archive!Spec

-----------------------------------------------------------------------------
(* Lists of trades *)

LEMMA SeqEnds ==
  ASSUME NEW S, NEW s \in Seq(S)
  PROVE  /\ ToSet(s) \subseteq S /\ (s = <<>> <=> ToSet(s) = {})
         /\ s # <<>> => Head(s) \in ToSet(s) /\ Last(s) \in ToSet(s)
  <1>1. DOMAIN s = 1..Len(s) /\ Len(s) \in Nat /\ \A i \in 1..Len(s) : s[i] \in S  OBVIOUS
  <1>2. ToSet(s) \subseteq S  BY <1>1 DEF ToSet
  <1>3. CASE s = <<>>
    <2>1. Len(s) = 0  BY <1>3
    <2>2. DOMAIN s = {}  BY <1>1, <2>1
    <2>3. ToSet(s) = {}  BY <2>2 DEF ToSet
    <2> QED  BY <1>2, <1>3, <2>3
  <1>4. CASE s # <<>>
    <2>1. Len(s) >= 1  BY <1>1, <1>4
    <2>2. Head(s) = s[1] /\ Last(s) = s[Len(s)]  BY <1>4 DEF Last
    <2>3. 1 \in DOMAIN s /\ Len(s) \in DOMAIN s  BY <1>1, <2>1
    <2>4. Head(s) \in ToSet(s) /\ Last(s) \in ToSet(s)  BY <2>2, <2>3 DEF ToSet
    <2> QED  BY <1>2, <1>4, <2>4
  <1> QED  BY <1>3, <1>4

LEMMA ConcatSet ==
  ASSUME NEW S, NEW s \in Seq(S), NEW t \in Seq(S)
  PROVE  /\ s \o t \in Seq(S) /\ ToSet(s \o t) = ToSet(s) \union ToSet(t)
         /\ t = <<>> => s \o t = s
         /\ t # <<>> => s \o t # <<>> /\ Last(s \o t) = Last(t)
  <1>1. PICK m \in Nat : m = Len(s)  OBVIOUS
  <1>2. PICK n \in Nat : n = Len(t)  OBVIOUS
  <1>3. PICK u : u = s \o t  OBVIOUS
  <1>4. /\ u \in Seq(S) /\ Len(u) = m + n
        /\ \A i \in 1..m + n : u[i] = IF i <= m THEN s[i] ELSE t[i - m]
    BY <1>1, <1>2, <1>3, ConcatProperties
  <1>5. DOMAIN s = 1..m /\ DOMAIN t = 1..n /\ DOMAIN u = 1..m + n  BY <1>1, <1>2, <1>4
  <1>6. ToSet(u) = ToSet(s) \union ToSet(t)
    <2>1. ASSUME NEW x \in ToSet(u) PROVE x \in ToSet(s) \union ToSet(t)
      <3>1. PICK i \in 1..m + n : x = u[i]  BY <1>5 DEF ToSet
      <3>2. CASE i <= m
        <4>1. i \in 1..m /\ x = s[i]  BY <1>4, <3>1, <3>2
        <4> QED  BY <4>1, <1>5 DEF ToSet
      <3>3. CASE i > m
        <4>1. i - m \in 1..n /\ x = t[i - m]  BY <1>4, <3>1, <3>3
        <4> QED  BY <4>1, <1>5 DEF ToSet
      <3> QED  BY <3>2, <3>3
    <2>2. ASSUME NEW x \in ToSet(s) PROVE x \in ToSet(u)
      <3>1. PICK i \in 1..m : x = s[i]  BY <1>5 DEF ToSet
      <3>2. i \in 1..m + n /\ u[i] = x  BY <1>4, <3>1
      <3> QED  BY <3>2, <1>5 DEF ToSet
    <2>3. ASSUME NEW x \in ToSet(t) PROVE x \in ToSet(u)
      <3>1. PICK i \in 1..n : x = t[i]  BY <1>5 DEF ToSet
      <3>2. i + m \in 1..m + n /\ ~(i + m <= m) /\ (i + m) - m = i  OBVIOUS
      <3>3. u[i + m] = x  BY <1>4, <3>1, <3>2
      <3> QED  BY <3>2, <3>3, <1>5 DEF ToSet
    <2> QED  BY <2>1, <2>2, <2>3
  <1>7. t = <<>> => u = s  BY <1>3
  <1>8. ASSUME t # <<>> PROVE u # <<>> /\ Last(u) = Last(t)
    <2>1. n >= 1  BY <1>2, <1>8
    <2>2. m + n \in 1..m + n /\ ~(m + n <= m) /\ (m + n) - m = n  BY <2>1
    <2>3. u[m + n] = t[n]  BY <1>4, <2>2
    <2>4. u # <<>>  BY <1>4, <2>1
    <2> QED  BY <2>3, <2>4, <1>2, <1>4 DEF Last
  <1> QED  BY <1>3, <1>4, <1>6, <1>7, <1>8

\* Every row is there once, and none is lost.
LEMMA DuplicatesRemoved ==
  ASSUME NEW S, NEW s \in Seq(S)
  PROVE  LET t == RemoveDuplicates(s)
         IN  t \in Seq(S) /\ ToSet(t) = ToSet(s) /\ IsInjective(t)
  <1>1. PICK n \in Nat : n = Len(s)  OBVIOUS
  <1>2. DOMAIN s = 1..n  BY <1>1
  <1>3. PICK I : I = {i \in DOMAIN s : \A j \in 1..i - 1 : s[j] # s[i]}  OBVIOUS
  <1>4. I \in SUBSET (1..Len(s))  BY <1>1, <1>2, <1>3
  <1>5. PICK t : t = Subsequence(s, I)  OBVIOUS
  <1>6. t = RemoveDuplicates(s)  BY <1>3, <1>5 DEF RemoveDuplicates
  <1>7. t \in Seq(S) /\ ToSet(t) = {s[i] : i \in I}  BY <1>4, <1>5, SubsequenceSet
  <1>8. \A i, j \in I : s[i] = s[j] => i = j
    <2> SUFFICES ASSUME NEW i \in I, NEW j \in I, s[i] = s[j], i # j PROVE FALSE
      OBVIOUS
    <2>1. i \in 1..n /\ j \in 1..n  BY <1>2, <1>3
    <2>2. CASE i < j
      <3>1. i \in 1..j - 1  BY <2>1, <2>2
      <3> QED  BY <3>1, <1>3
    <2>3. CASE j < i
      <3>1. j \in 1..i - 1  BY <2>1, <2>3
      <3> QED  BY <3>1, <1>3
    <2> QED  BY <2>1, <2>2, <2>3
  <1>9. IsInjective(t)  BY <1>4, <1>5, <1>8, SubsequenceDistinct
  <1>10. ToSet(s) \subseteq ToSet(t)
    <2> SUFFICES ASSUME NEW x \in ToSet(s) PROVE x \in ToSet(t)
      OBVIOUS
    <2> DEFINE At == {i \in 1..n : s[i] = x}
    <2>1. At # {} /\ At \subseteq Nat  BY <1>2 DEF ToSet
    <2>2. PICK i \in At : \A j \in At : i <= j
      <3> HIDE DEF At
      <3> QED  BY <2>1, LeastNatural
    <2>3. \A j \in 1..i - 1 : s[j] # s[i]  BY <2>2
    <2>4. i \in I  BY <1>2, <1>3, <2>2, <2>3
    <2> QED  BY <1>7, <2>2, <2>4
  <1>11. ToSet(t) \subseteq ToSet(s)  BY <1>2, <1>3, <1>7 DEF ToSet
  <1> QED  BY <1>6, <1>7, <1>9, <1>10, <1>11

LEMMA SeqWider ==
  ASSUME NEW S, NEW T, S \subseteq T, NEW s \in Seq(S)
  PROVE  s \in Seq(T)
  OBVIOUS

\* A row of consecutive trades.
LEMMA RowIs ==
  ASSUME NEW k \in Nat \ {0}, NEW n \in Nat,
         NEW t \in [1..n -> Int], \A i \in 1..n : t[i] = k + i - 1
  PROVE  /\ t = <<>> <=> n = 0
         /\ t \in Seq(k..k + n - 1) /\ ToSet(t) = k..k + n - 1
         /\ n > 0 => /\ Last(t) = k + n - 1
                     /\ Front(t) \in Seq(k..k + n - 1) /\ ToSet(Front(t)) = k..k + n - 2
  <1>1. \A i \in 1..n : t[i] = k + i - 1  OBVIOUS
  <1>2. t \in Seq(k..k + n - 1) /\ Len(t) = n /\ DOMAIN t = 1..n
    <2>1. \A i \in 1..n : k + i - 1 \in k..k + n - 1  OBVIOUS
    <2>2. t \in [1..n -> k..k + n - 1]  BY <1>1, <2>1
    <2> QED  BY <2>2
  <1>3. t = <<>> <=> n = 0  BY <1>2
  <1>4. ToSet(t) = k..k + n - 1
    <2>1. ToSet(t) = {t[i] : i \in 1..n}  BY <1>2 DEF ToSet
    <2>2. \A i \in 1..n : t[i] = k + i - 1  BY <1>1
    <2>3. ASSUME NEW x \in k..k + n - 1 PROVE x \in ToSet(t)
      <3>1. x - k + 1 \in 1..n /\ k + (x - k + 1) - 1 = x  OBVIOUS
      <3>2. t[x - k + 1] = x  BY <2>2, <3>1
      <3> QED  BY <2>1, <3>1, <3>2
    <2>4. ASSUME NEW x \in ToSet(t) PROVE x \in k..k + n - 1
      BY <2>1, <2>2
    <2> QED  BY <2>3, <2>4
  <1>5. ASSUME n > 0
        PROVE  /\ Last(t) = k + n - 1
               /\ Front(t) \in Seq(k..k + n - 1) /\ ToSet(Front(t)) = k..k + n - 2
    <2>1. Last(t) = k + n - 1  BY <1>1, <1>2, <1>5 DEF Last
    <2>2. PICK u : u = Front(t)  OBVIOUS
    <2>3. u = SubSeq(t, 1, n - 1)  BY <1>2, <2>2 DEF Front
    <2>4. /\ u \in Seq(k..k + n - 1) /\ Len(u) = n - 1
          /\ \A i \in 1..n - 1 : u[i] = t[i]
      BY <1>2, <1>5, <2>3
    <2>5. DOMAIN u = 1..n - 1  BY <2>4
    <2>6. ToSet(u) = {u[i] : i \in 1..n - 1}  BY <2>5 DEF ToSet
    <2>7. \A i \in 1..n - 1 : u[i] = k + i - 1
      <3>1. \A i \in 1..n : t[i] = k + i - 1  BY <1>1
      <3>2. \A i \in 1..n - 1 : i \in 1..n  OBVIOUS
      <3> QED  BY <2>4, <3>1, <3>2
    <2>8. ASSUME NEW x \in k..k + n - 2 PROVE x \in ToSet(u)
      <3>1. x - k + 1 \in 1..n - 1 /\ k + (x - k + 1) - 1 = x  OBVIOUS
      <3>2. u[x - k + 1] = x  BY <2>7, <3>1
      <3> QED  BY <2>6, <3>1, <3>2
    <2>9. ASSUME NEW x \in ToSet(u) PROVE x \in k..k + n - 2
      BY <2>6, <2>7
    <2> QED  BY <2>1, <2>2, <2>4, <2>8, <2>9
  <1> QED  BY <1>1, <1>2, <1>3, <1>4, <1>5

\* A reply is the row of trades from k on, and a reply of one is the newest.
LEMMA PageIs ==
  ASSUME Len(tape) \in Nat, NEW k \in Nat \ {0}
  PROVE  LET t == Page(k)
         IN  /\ k > Len(tape) => t = <<>>
             /\ k <= Len(tape) =>
                  /\ t # <<>> /\ t \in Seq(Ids) /\ Front(t) \in Seq(Ids)
                  /\ Last(t) \in k..Len(tape)
                  /\ ToSet(t) = k..Last(t) /\ ToSet(Front(t)) = k..Last(t) - 1
                  /\ Last(t) = k => k = Len(tape)
  <1>1. PICK end \in Nat : end = Len(tape)  OBVIOUS
  <1>2. PICK m : m = IF end - k + 1 < ReplySize THEN end - k + 1 ELSE ReplySize  OBVIOUS
  <1>3. PICK t : t = Page(k)  OBVIOUS
  <1>4. t = [i \in 1..m |-> k + i - 1]  BY <1>1, <1>2, <1>3 DEF Page
  <1>5. ReplySize \in Nat /\ ReplySize >= 2  BY LimitAssumption
  <1>6. m \in Int  BY <1>2, <1>5
  <1>7. ASSUME k > end PROVE t = <<>>
    <2>1. m <= 0  BY <1>2, <1>5, <1>7
    <2>2. 1..m = 1..0  BY <1>6, <2>1
    <2>3. t \in [1..0 -> Int] /\ \A i \in 1..0 : t[i] = k + i - 1  BY <1>4, <2>2
    <2> QED  BY <2>3, RowIs
  <1>8. ASSUME k <= end
        PROVE  /\ t # <<>> /\ t \in Seq(Ids) /\ Front(t) \in Seq(Ids)
               /\ Last(t) \in k..end
               /\ ToSet(t) = k..Last(t) /\ ToSet(Front(t)) = k..Last(t) - 1
               /\ Last(t) = k => k = end
    <2>1. m \in Nat /\ m >= 1 /\ k + m - 1 <= end /\ (m = 1 => k = end)
      BY <1>2, <1>5, <1>8
    <2>2. /\ t # <<>> /\ t \in Seq(k..k + m - 1) /\ ToSet(t) = k..k + m - 1
          /\ Last(t) = k + m - 1
          /\ Front(t) \in Seq(k..k + m - 1) /\ ToSet(Front(t)) = k..k + m - 2
      <3>1. /\ t = <<>> <=> m = 0
            /\ t \in Seq(k..k + m - 1) /\ ToSet(t) = k..k + m - 1
            /\ m > 0 => /\ Last(t) = k + m - 1
                        /\ Front(t) \in Seq(k..k + m - 1) /\ ToSet(Front(t)) = k..k + m - 2
        <4>1. m \in Nat  BY <2>1
        <4>2. t \in [1..m -> Int] /\ \A i \in 1..m : t[i] = k + i - 1  BY <1>4, <4>1
        <4> QED  BY <4>1, <4>2, RowIs
      <3>2. m > 0 /\ m # 0  BY <2>1
      <3> QED  BY <3>1, <3>2
    <2>3. k..k + m - 1 \subseteq Ids  BY <1>1, <2>1 DEF Ids
    <2>4. t \in Seq(Ids) /\ Front(t) \in Seq(Ids)  BY <2>2, <2>3, SeqWider
    <2>5. Last(t) \in k..end /\ (Last(t) = k => k = end)  BY <2>1, <2>2
    <2>6. ToSet(t) = k..Last(t) /\ ToSet(Front(t)) = k..Last(t) - 1  BY <2>1, <2>2
    <2> QED  BY <2>2, <2>4, <2>5, <2>6
  <1> QED  BY <1>1, <1>3, <1>7, <1>8

\* The trades before a moment are the first ones.
LEMMA FirstSinceIs ==
  ASSUME TradesTyped, NEW t \in Nat
  PROVE  /\ FirstSince(t) \in 1..Len(tape) + 1
         /\ \A k \in Ids : k < FirstSince(t) <=> tape[k] < t
  <1>1. PICK n \in Nat : n = Len(tape)  BY DEF TradesTyped
  <1>2. Ids = 1..n  BY <1>1 DEF Ids
  <1>3. \A k \in 1..n : tape[k] \in Nat
    <2>1. tape \in Seq(1..clock) /\ clock \in Nat  BY DEF TradesTyped
    <2> QED  BY <1>1, <2>1
  <1>4. \A j, k \in 1..n : j <= k => tape[j] <= tape[k]  BY <1>2 DEF TradesTyped
  <1> DEFINE D == {k \in 1..n + 1 : k <= n => ~(tape[k] < t)}
  <1>5. n + 1 \in D  BY <1>1
  <1>6. PICK f \in D : \A e \in D : f <= e
    <2>1. D # {} /\ \A x \in D : x \in Nat  BY <1>5
    <2> HIDE DEF D
    <2> QED  BY <2>1, LeastNatural
  <1>7. f \in 1..n + 1  OBVIOUS
  <1>8. \A k \in 1..n : k < f <=> tape[k] < t
    <2> SUFFICES ASSUME NEW k \in 1..n PROVE k < f <=> tape[k] < t  OBVIOUS
    <2>1. CASE k < f
      <3>1. k \notin D  BY <1>6, <1>7, <2>1
      <3> QED  BY <3>1, <2>1
    <2>2. CASE f <= k
      <3>1. f \in 1..n /\ ~(tape[f] < t)  BY <1>7, <2>2, <1>6
      <3>2. tape[f] <= tape[k]  BY <1>4, <2>2, <3>1
      <3>3. tape[f] \in Nat /\ tape[k] \in Nat  BY <1>3, <3>1
      <3> QED  BY <3>1, <3>2, <3>3, <2>2, <1>7
    <2> QED  BY <2>1, <2>2, <1>7
  <1> HIDE DEF D
  <1>9. {k \in Ids : tape[k] < t} = 1..f - 1
    <2>1. ASSUME NEW k \in Ids, tape[k] < t PROVE k \in 1..f - 1  BY <1>2, <1>7, <1>8, <2>1
    <2>2. ASSUME NEW k \in 1..f - 1 PROVE k \in Ids /\ tape[k] < t
      <3>1. k \in 1..n /\ k < f  BY <1>7
      <3> QED  BY <3>1, <1>2, <1>8
    <2> QED  BY <2>1, <2>2
  <1>10. Cardinality(1..f - 1) = f - 1
    <2>1. 1 \in Int /\ f - 1 \in Int  BY <1>7
    <2>2. Cardinality(1..f - 1) = IF 1 > f - 1 THEN 0 ELSE (f - 1) - 1 + 1
      BY <2>1, FS_Interval
    <2> QED  BY <2>2, <1>7
  <1>11. FirstSince(t) = f
    <2>1. Cardinality({k \in Ids : tape[k] < t}) = f - 1  BY <1>9, <1>10
    <2>2. FirstSince(t) = (f - 1) + 1  BY <2>1 DEF FirstSince
    <2> QED  BY <2>2, <1>7
  <1> QED  BY <1>1, <1>2, <1>7, <1>8, <1>11

LEMMA LatestTradesIs ==
  ASSUME Len(tape) \in Nat
  PROVE  LET t == LatestTrades
         IN  /\ Ids = {} => t = <<>>
             /\ Ids # {} => /\ t # <<>> /\ t \in Seq(Ids) /\ Last(t) \in Ids
                            /\ \E k \in Ids : k <= Last(t) /\ ToSet(t) = k..Last(t)
  <1>1. PICK end \in Nat : end = Len(tape)  OBVIOUS
  <1>2. ReplySize \in Nat /\ ReplySize >= 2  BY LimitAssumption
  <1>3. PICK k : k = IF end < ReplySize THEN 1 ELSE end - ReplySize + 1  OBVIOUS
  <1>4. k \in Nat \ {0} /\ (end = 0 => k > end) /\ (end > 0 => k <= end)
    BY <1>2, <1>3
  <1>5. PICK t : t = Page(k)  OBVIOUS
  <1>6. t = LatestTrades  BY <1>1, <1>3, <1>5 DEF LatestTrades
  <1>7. Ids = 1..end  BY <1>1 DEF Ids
  <1>8. /\ k > end => t = <<>>
        /\ k <= end =>
             /\ t # <<>> /\ t \in Seq(Ids) /\ Last(t) \in k..end /\ ToSet(t) = k..Last(t)
    BY <1>1, <1>4, <1>5, PageIs
  <1>9. Ids = {} <=> end = 0  BY <1>7
  <1>10. ASSUME end > 0
         PROVE  Last(t) \in Ids /\ \E i \in Ids : i <= Last(t) /\ ToSet(t) = i..Last(t)
    <2>1. PICK n : n = Last(t)  OBVIOUS
    <2>2. n \in k..end /\ ToSet(t) = k..n  BY <1>4, <1>8, <1>10, <2>1
    <2>3. n \in Ids /\ k \in Ids /\ k <= n  BY <1>4, <1>7, <1>10, <2>2
    <2> QED  BY <2>1, <2>2, <2>3
  <1> QED  BY <1>1, <1>4, <1>6, <1>8, <1>9, <1>10

\* Sets without a hole that touch have none together.
LEMMA TouchingIsContiguous ==
  ASSUME NEW A \in SUBSET Int, NEW B \in SUBSET Int, Contiguous(A), Contiguous(B),
         A # {} /\ B # {} => \E a \in A, b \in B : a \in b - 1..b + 1
  PROVE  Contiguous(A \union B)
  <1>1. ASSUME NEW X \in SUBSET Int, NEW Y \in SUBSET Int, Contiguous(X), Contiguous(Y),
               NEW a \in X, NEW b \in Y, a \in b - 1..b + 1, NEW i \in X, NEW j \in Y,
               NEW x \in i..j
        PROVE  x \in X \union Y
    <2>1. \A y \in i..a : y \in X  BY <1>1 DEF Contiguous
    <2>2. \A y \in b..j : y \in Y  BY <1>1 DEF Contiguous
    <2>3. a \in Int /\ b \in Int /\ i \in Int /\ j \in Int  OBVIOUS
    <2>4. CASE x <= a  BY <2>1, <2>3, <2>4, <1>1
    <2>5. CASE x > a
      <3>1. x >= b  BY <1>1, <2>3, <2>5
      <3> QED  BY <2>2, <2>3, <3>1, <1>1
    <2> QED  BY <2>3, <2>4, <2>5, <1>1
  <1>2. CASE A = {} \/ B = {}
    <2>1. A \union B = A \/ A \union B = B  BY <1>2
    <2> QED  BY <2>1
  <1>3. CASE A # {} /\ B # {}
    <2>1. PICK a \in A, b \in B : a \in b - 1..b + 1  BY <1>3
    <2>2. b \in a - 1..a + 1  BY <2>1
    <2> SUFFICES ASSUME NEW i \in A \union B, NEW j \in A \union B, NEW x \in i..j
                 PROVE  x \in A \union B
      BY DEF Contiguous
    <2>3. CASE i \in A /\ j \in A  BY <2>3 DEF Contiguous
    <2>4. CASE i \in B /\ j \in B  BY <2>4 DEF Contiguous
    <2>5. CASE i \in A /\ j \in B  BY <2>1, <2>5, <1>1
    <2>6. CASE i \in B /\ j \in A  BY <2>2, <2>6, <1>1
    <2> QED  BY <2>3, <2>4, <2>5, <2>6
  <1> QED  BY <1>2, <1>3

LEMMA DayIs ==
  /\ \A t \in Nat : DayOf(t) \in Nat
  /\ \A t, u \in Nat : t <= u => DayOf(t) <= DayOf(u)
  <1>1. PICK d \in Nat \ {0} : d = ArchiveDay  BY MarketAssumption
  <1>2. ASSUME NEW t \in Nat PROVE t \div d \in Nat
    BY <1>1
  <1>3. ASSUME NEW t \in Nat, NEW u \in Nat, t <= u PROVE t \div d <= u \div d
    BY <1>1, <1>3
  <1> QED  BY <1>1, <1>2, <1>3 DEF DayOf

\* The trades of a day, in their order.
LEMMA DayTradesIs ==
  ASSUME Len(tape) \in Nat, NEW d
  PROVE  LET t == DayTrades(d)
         IN  /\ t \in Seq(Ids) /\ ToSet(t) = {k \in Ids : DayOf(tape[k]) = d}
             /\ \A k \in ToSet(t) : k <= Last(t)
  <1>1. PICK n \in Nat : n = Len(tape)  OBVIOUS
  <1>2. Ids = 1..n  BY <1>1 DEF Ids
  <1>3. PICK s : s = [k \in Ids |-> k]  OBVIOUS
  <1>4. s \in Seq(Ids) /\ Len(s) = n /\ \A i \in 1..n : s[i] = i
    <2>1. s \in [1..n -> Ids]  BY <1>2, <1>3
    <2> QED  BY <1>1, <1>2, <1>3, <2>1
  <1>5. PICK I : I = {k \in Ids : DayOf(tape[k]) = d}  OBVIOUS
  <1>6. I \in SUBSET (1..Len(s))  BY <1>2, <1>4, <1>5
  <1>7. PICK t : t = Subsequence(s, I)  OBVIOUS
  <1>8. t = DayTrades(d)  BY <1>3, <1>5, <1>7 DEF DayTrades
  <1>9. t \in Seq(Ids) /\ ToSet(t) = {s[i] : i \in I}
    <2>1. s \in Seq(Ids)  BY <1>4
    <2>2. /\ Subsequence(s, I) \in Seq(Ids)
          /\ ToSet(Subsequence(s, I)) = {s[i] : i \in I}
      BY <2>1, <1>6, SubsequenceSet
    <2> QED  BY <1>7, <2>2
  <1>10. ToSet(t) = I
    <2>1. \A i \in I : s[i] = i  BY <1>2, <1>4, <1>5
    <2> QED  BY <1>9, <2>1
  <1>11. \E m : Picks(m, t, s, I)  BY <1>4, <1>6, <1>7, SubsequenceIs
  <1>12. PICK m : Picks(m, t, s, I)  BY <1>11
  <1>13. PICK c \in Nat : c = Len(t)  BY <1>9
  <1>14. \A j \in 1..c : t[j] = m[j] /\ m[j] \in I
    <2>1. ASSUME NEW j \in 1..c PROVE t[j] = m[j] /\ m[j] \in I
      <3>1. m[j] \in I /\ t[j] = s[m[j]]  BY <1>12, <1>13 DEF Picks
      <3>2. m[j] \in 1..n  BY <3>1, <1>2, <1>5
      <3> QED  BY <3>1, <3>2, <1>4
    <2> QED  BY <2>1
  <1>15. \A j, k \in 1..c : j < k => m[j] < m[k]  BY <1>12, <1>13 DEF Picks
  <1>16. ASSUME NEW k \in ToSet(t) PROVE k <= Last(t)
    <2>1. DOMAIN t = 1..c  BY <1>9, <1>13
    <2>2. PICK j \in 1..c : k = t[j]  BY <2>1 DEF ToSet
    <2>3. Last(t) = t[c]  BY <1>13 DEF Last
    <2>4. c \in 1..c /\ (j < c \/ j = c)  BY <2>2
    <2>5. m[j] \in 1..n /\ m[c] \in 1..n  BY <1>14, <2>4, <1>5, <1>2
    <2>6. m[j] <= m[c]  BY <1>15, <2>4, <2>5
    <2> QED  BY <1>14, <2>2, <2>3, <2>4, <2>6
  <1> QED  BY <1>5, <1>8, <1>9, <1>10, <1>16

-----------------------------------------------------------------------------
(* What holds at each step of a download *)

Got == ToSet(fetched)
FirstId == IF base = <<>> THEN NoId ELSE Last(base)

\* What a download looks for: trades of its time behind what it goes on from.
Sought(k) ==
  /\ k \in 1..request.known /\ tape[k] >= request.since
  /\ base # <<>> => k > Last(base)

\* The start is the one asked for, or lies before the last stored trade.
Begun ==
  \/ request.since <= request.asked
  \/ Ids # {} /\ request.since = tape[1]
  \/ base # <<>> /\ request.since <= tape[Last(base)]

\* The first n days of the archive were read.
ReadTo(n) ==
  \A k \in Ids : k \in Got <=> /\ DayOf(request.since) <= DayOf(tape[k])
                               /\ DayOf(tape[k]) < DayOf(request.since) + n

Touches == \E k \in Got, j \in ToSet(base) : k \in j - 1..j + 1

\* What was fetched reaches what is stored, or comes from before it.
Nears ==
  base # <<>> /\ ~Late /\ fetched # <<>> /\ Contiguous(ToSet(base)) =>
    \/ Touches
    \/ request.since <= tape[Head(base)] /\ \E k \in Got : k < Head(base)

IdleOK == fetched = <<>> /\ dates = {}
ListingOK == base = <<>>
ArchiveOK == venue = "binance" /\ cursor = FirstId /\ fetched = <<>>
DaysOK ==
  /\ venue = "binance" /\ cursor = FirstId
  /\ \A k \in Got : k <= Last(fetched)
  /\ \E n \in Nat :
       /\ ReadTo(n)
       /\ \/ dates = {}
          \/ \E m \in Int : dates = (DayOf(request.since) + n)..m
StartupOK == fetched = <<>> /\ (Overlap => base = <<>>)
PagesOK ==
  /\ Contiguous(Got) /\ Nears
  /\ \A k \in Got : k <= cursor
  /\ fetched # <<>> => cursor \in Got \/ (Overlap /\ cursor - 1 \in Got)
  /\ fetched = <<>> => base = <<>> \/ Late \/ cursor = Last(base)
  /\ Overlap => cursor # NoId
  /\ \A k \in Ids : Sought(k) =>
       k \in Got \/ (cursor # NoId /\ k > cursor) \/ (Overlap /\ k = cursor)
WriteOK ==
  /\ Contiguous(Got)
  /\ \A k \in Ids : Sought(k) /\ tape[k] < request.until => k \in Got
  /\ base # <<>> /\ ~Late /\ ~CutBehind /\ fetched # <<>> /\ Contiguous(ToSet(base)) => Touches
WritingOK == mode = "download" => IsInjective(base)

TInv ==
  /\ TradesTyped
  /\ step \notin {"idle", "writing"} => Begun
  /\ step = "idle" => IdleOK
  /\ step = "listing" => ListingOK
  /\ step \in {"listing", "archive"} => ArchiveOK
  /\ step = "days" => DaysOK
  /\ step = "startup" => StartupOK
  /\ step = "pages" => PagesOK
  /\ step = "write" => WriteOK
  /\ step = "writing" => WritingOK

Requests(n, t) ==
  [asked : 0..(LastMoment + 1), since : 0..LastMoment, until : 0..LastMoment,
   known : 0..n, begun : 0..t]

LEMMA TapeFacts ==
  ASSUME TradesTyped
  PROVE  /\ clock \in Nat /\ clock >= 1 /\ clock <= LastMoment /\ LastMoment \in Nat
         /\ Len(tape) \in Nat /\ Ids = 1..Len(tape)
         /\ \A k \in Ids : tape[k] \in Nat /\ tape[k] >= 1 /\ tape[k] <= clock
         /\ \A j, k \in Ids : j <= k => tape[j] <= tape[k]
  <1>1. LastMoment \in Nat  BY MarketAssumption
  <1>2. clock \in 1..LastMoment /\ tape \in Seq(1..clock)  BY DEF TradesTyped
  <1>3. Ids = 1..Len(tape)  BY DEF Ids
  <1>4. \A k \in 1..Len(tape) : tape[k] \in 1..clock  BY <1>2
  <1>5. \A j, k \in Ids : j <= k => tape[j] <= tape[k]  BY DEF TradesTyped
  <1> QED  BY <1>1, <1>2, <1>3, <1>4, <1>5

LEMMA ListFacts ==
  ASSUME TradesTyped
  PROVE  /\ base \in Seq(Ids) /\ fetched \in Seq(Ids) /\ file \in Seq(Ids) /\ mem \in Seq(Ids)
         /\ ToSet(base) \subseteq Ids /\ Got \subseteq Ids
         /\ (base = <<>> <=> ToSet(base) = {}) /\ (fetched = <<>> <=> Got = {})
         /\ base # <<>> => Head(base) \in ToSet(base) /\ Last(base) \in ToSet(base)
         /\ fetched # <<>> => Last(fetched) \in Got
  <1>1. base \in Seq(Ids) /\ fetched \in Seq(Ids) /\ file \in Seq(Ids) /\ mem \in Seq(Ids)
    BY DEF TradesTyped
  <1> QED  BY <1>1, SeqEnds DEF Got

LEMMA RequestFacts ==
  ASSUME TradesTyped
  PROVE  /\ request \in Requests(Len(tape), clock)
         /\ request.asked \in Nat /\ request.since \in Nat /\ request.until \in Nat
         /\ request.since <= LastMoment /\ request.until <= LastMoment
         /\ request.known \in 0..Len(tape)
  <1>1. request \in Requests(Len(tape), clock)  BY DEF TradesTyped, Requests
  <1>2. LastMoment \in Nat  BY MarketAssumption
  <1> QED  BY <1>1, <1>2 DEF Requests

\* The types after a step that leaves the market alone.
LEMMA TypedStep ==
  ASSUME TradesTyped, UNCHANGED exchange,
         file' \in Seq(Ids), mem' \in Seq(Ids), base' \in Seq(Ids), fetched' \in Seq(Ids),
         inTrades' \in BOOLEAN, step' \in Busy \union {"idle"},
         cursor' \in Ids \union {NoId, 1}, dates' \subseteq Nat,
         request' \in Requests(Len(tape), clock),
         mode = "download" => IsInjective(file')
  PROVE  TradesTyped'
  <1>1. venue' = venue /\ mode' = mode /\ clock' = clock /\ tape' = tape
    BY DEF exchange
  <1>2. Ids' = Ids  BY <1>1 DEF Ids
  <1>3. /\ venue' \in Venues /\ mode' \in Modes /\ clock' \in 1..LastMoment
        /\ tape' \in Seq(1..clock') /\ \A j, k \in Ids' : j <= k => tape'[j] <= tape'[k]
    BY <1>1, <1>2 DEF TradesTyped
  <1>4. /\ inTrades' \in BOOLEAN
        /\ step' \in Busy \union {"idle"} /\ cursor' \in Ids' \union {NoId, 1}
        /\ dates' \subseteq Nat
    BY <1>2
  <1>5. request' \in [asked : 0..(LastMoment + 1), since : 0..LastMoment, until : 0..LastMoment,
                      known : 0..Len(tape'), begun : 0..clock']
    BY <1>1 DEF Requests
  <1>6. \A s \in {file', mem', base', fetched'} : s \in Seq(Ids')  BY <1>2
  <1>7. mode' = "download" => IsInjective(file')  BY <1>1
  <1> QED  BY <1>3, <1>4, <1>5, <1>6, <1>7 DEF TradesTyped

\* A step to an end of the download.
LEMMA EndedStep ==
  ASSUME TInv, UNCHANGED exchange, Ended,
         file' \in Seq(Ids), mem' \in Seq(Ids), inTrades' \in BOOLEAN,
         mode = "download" => IsInjective(file')
  PROVE  TInv'
  <1>1. TradesTyped  BY DEF TInv
  <1>2. /\ step' = "idle" /\ request' = NoRequest
        /\ base' = <<>> /\ fetched' = <<>> /\ dates' = {} /\ cursor' = NoId
    BY DEF Ended
  <1>3. base' \in Seq(Ids) /\ fetched' \in Seq(Ids)  BY <1>2
  <1>4. clock \in Nat /\ Len(tape) \in Nat /\ LastMoment \in Nat  BY <1>1, TapeFacts
  <1>5. request' \in Requests(Len(tape), clock)  BY <1>2, <1>4 DEF NoRequest, Requests
  <1>6. TradesTyped'
    <2>1. step' \in Busy \union {"idle"} /\ cursor' \in Ids \union {NoId, 1} /\ dates' \subseteq Nat
      BY <1>2
    <2> QED  BY <1>1, <1>3, <1>5, <2>1, TypedStep
  <1>7. IdleOK'  BY <1>2 DEF IdleOK
  <1> QED  BY <1>2, <1>6, <1>7 DEF TInv

LEMMA TradesEndSteps ==
  TInv /\ (Fail \/ NotListed \/ FileWritten \/ Killed) => TInv'
  <1> SUFFICES ASSUME TInv, Fail \/ NotListed \/ FileWritten \/ Killed PROVE TInv'
    OBVIOUS
  <1>1. TradesTyped  BY DEF TInv
  <1>2. file \in Seq(Ids) /\ mem \in Seq(Ids) /\ base \in Seq(Ids)  BY <1>1, ListFacts
  <1>3. inTrades \in BOOLEAN /\ (mode = "download" => IsInjective(file))
    BY <1>1 DEF TradesTyped
  <1>4. CASE Fail \/ NotListed
    <2>1. Ended /\ UNCHANGED <<exchange, file, memory>>  BY <1>4 DEF Fail, NotListed
    <2>2. UNCHANGED exchange /\ file' = file /\ mem' = mem /\ inTrades' = inTrades
      BY <2>1 DEF memory
    <2> QED  BY <1>2, <1>3, <2>1, <2>2, EndedStep
  <1>5. CASE FileWritten
    <2>1. /\ step = "writing" /\ file' = base /\ Ended
          /\ UNCHANGED exchange /\ mem' = mem /\ inTrades' = inTrades
      BY <1>5 DEF FileWritten, memory
    <2>2. mode = "download" => IsInjective(file')  BY <2>1 DEF TInv, WritingOK
    <2> QED  BY <1>2, <1>3, <2>1, <2>2, EndedStep
  <1>6. CASE Killed
    <2>1. /\ file' = (IF step = "writing" THEN <<>> ELSE file)
          /\ inTrades' = FALSE /\ mem' = <<>> /\ Ended /\ UNCHANGED exchange
      BY <1>6 DEF Killed
    <2>2. IsInjective(<<>>)  BY DEF IsInjective
    <2>3. file' \in Seq(Ids) /\ mem' \in Seq(Ids) /\ (mode = "download" => IsInjective(file'))
      BY <1>2, <1>3, <2>1, <2>2
    <2> QED  BY <2>1, <2>3, EndedStep
  <1> QED  BY <1>4, <1>5, <1>6

LEMMA ClockTickStep == TInv /\ ClockTick => TInv'
  <1> SUFFICES ASSUME TInv, ClockTick PROVE TInv'
    OBVIOUS
  <1>1. TradesTyped  BY DEF TInv
  <1>2. /\ clock < LastMoment /\ clock' = clock + 1
        /\ UNCHANGED <<venue, mode, tape, file, memory, step, request, base, fetching>>
    BY DEF ClockTick
  <1>3. /\ venue' = venue /\ mode' = mode /\ tape' = tape /\ file' = file /\ step' = step
        /\ inTrades' = inTrades /\ mem' = mem /\ request' = request /\ base' = base
        /\ fetched' = fetched /\ dates' = dates /\ cursor' = cursor
    BY <1>2 DEF memory, fetching
  <1>4. clock \in Nat /\ clock >= 1 /\ LastMoment \in Nat  BY <1>1, TapeFacts
  <1>5. TradesTyped'
    <2>1. clock' \in 1..LastMoment  BY <1>2, <1>4
    <2>2. 1..clock \subseteq 1..clock' /\ 0..clock \subseteq 0..clock'  BY <1>2, <1>4
    <2>3. tape \in Seq(1..clock)  BY <1>1 DEF TradesTyped
    <2>4. tape' \in Seq(1..clock')  BY <1>3, <2>2, <2>3, SeqWider
    <2>5. Ids' = Ids  BY <1>3 DEF Ids
    <2>6. \A j, k \in Ids' : j <= k => tape'[j] <= tape'[k]  BY <1>1, <1>3, <2>5 DEF TradesTyped
    <2>7. request' \in [asked : 0..(LastMoment + 1), since : 0..LastMoment, until : 0..LastMoment,
                        known : 0..Len(tape'), begun : 0..clock']
      <3>1. request \in [asked : 0..(LastMoment + 1), since : 0..LastMoment,
                         until : 0..LastMoment, known : 0..Len(tape), begun : 0..clock]
        BY <1>1 DEF TradesTyped
      <3> QED  BY <1>3, <2>2, <3>1
    <2>8. \A s \in {file', mem', base', fetched'} : s \in Seq(Ids')
      BY <1>1, <1>3, <2>5 DEF TradesTyped
    <2>9. /\ venue' \in Venues /\ mode' \in Modes /\ inTrades' \in BOOLEAN
          /\ step' \in Busy \union {"idle"} /\ cursor' \in Ids' \union {NoId, 1}
          /\ dates' \subseteq Nat /\ (mode' = "download" => IsInjective(file'))
      BY <1>1, <1>3, <2>5 DEF TradesTyped
    <2> QED  BY <2>1, <2>4, <2>6, <2>7, <2>8, <2>9 DEF TradesTyped
  <1>6. step' \notin {"days", "write", "writing"}
    BY <1>3 DEF ClockTick, Looking
  <1>7. Begun => Begun'  BY <1>3 DEF Begun, Ids
  <1>8. (IdleOK => IdleOK') /\ (ListingOK => ListingOK') /\ (ArchiveOK => ArchiveOK')
    BY <1>3 DEF IdleOK, ListingOK, ArchiveOK, FirstId
  <1>9. StartupOK => StartupOK'  BY <1>3 DEF StartupOK, Overlap
  <1>10. PagesOK => PagesOK'
    <2>1. Got' = Got /\ Ids' = Ids  BY <1>3 DEF Got, Ids
    <2>2. (Late' <=> Late) /\ (Touches' <=> Touches)  BY <1>3, <2>1 DEF Late, Touches
    <2>3. Nears => Nears'  BY <1>3, <2>1, <2>2 DEF Nears
    <2>4. ASSUME NEW k PROVE Sought(k)' <=> Sought(k)  BY <1>3 DEF Sought
    <2>5. Overlap' <=> Overlap  BY <1>3 DEF Overlap
    <2> QED  BY <1>3, <2>1, <2>2, <2>3, <2>4, <2>5 DEF PagesOK
  <1> QED  BY <1>3, <1>5, <1>6, <1>7, <1>8, <1>9, <1>10 DEF TInv

LEMMA NewTradeStep == TInv /\ NewTrade => TInv'
  <1> SUFFICES ASSUME TInv, NewTrade PROVE TInv'
    OBVIOUS
  <1>1. TradesTyped  BY DEF TInv
  <1>2. /\ tape' = Append(tape, clock)
        /\ UNCHANGED <<venue, mode, clock, file, memory, step, request, base, fetching>>
    BY DEF NewTrade
  <1>3. /\ venue' = venue /\ mode' = mode /\ clock' = clock /\ file' = file /\ step' = step
        /\ inTrades' = inTrades /\ mem' = mem /\ request' = request /\ base' = base
        /\ fetched' = fetched /\ dates' = dates /\ cursor' = cursor
    BY <1>2 DEF memory, fetching
  <1>4. PICK n \in Nat : n = Len(tape)  BY <1>1, TapeFacts
  <1>5. Ids = 1..n /\ clock \in Nat /\ clock >= 1  BY <1>1, <1>4, TapeFacts
  <1>6. tape \in Seq(1..clock)  BY <1>1 DEF TradesTyped
  <1>7. /\ tape' \in Seq(1..clock) /\ Len(tape') = n + 1 /\ tape'[n + 1] = clock
        /\ \A k \in 1..n : tape'[k] = tape[k]
    BY <1>2, <1>4, <1>5, <1>6
  <1>8. Ids' = 1..n + 1 /\ Ids \subseteq Ids'  BY <1>5, <1>7 DEF Ids
  <1>9. \A k \in Ids : tape'[k] = tape[k]  BY <1>5, <1>7
  <1>10. TradesTyped'
    <2>1. \A j, k \in Ids' : j <= k => tape'[j] <= tape'[k]
      <3> SUFFICES ASSUME NEW j \in 1..n + 1, NEW k \in 1..n + 1, j <= k
                   PROVE  tape'[j] <= tape'[k]
        BY <1>8
      <3>1. CASE k \in 1..n
        <4>1. j \in 1..n  BY <3>1
        <4>2. tape[j] <= tape[k]  BY <1>1, <1>5, <3>1, <4>1, TapeFacts
        <4> QED  BY <1>7, <3>1, <4>1, <4>2
      <3>2. CASE k = n + 1
        <4>1. PICK t : t = tape'  OBVIOUS
        <4>2. t \in Seq(1..clock) /\ j \in 1..Len(t)  BY <1>7, <4>1
        <4>3. t[j] \in 1..clock  BY <4>2, ElementOfSeq
        <4> QED  BY <1>5, <1>7, <3>2, <4>1, <4>3
      <3> QED  BY <3>1, <3>2
    <2>2. request' \in [asked : 0..(LastMoment + 1), since : 0..LastMoment, until : 0..LastMoment,
                        known : 0..Len(tape'), begun : 0..clock']
      <3>1. request \in [asked : 0..(LastMoment + 1), since : 0..LastMoment,
                         until : 0..LastMoment, known : 0..Len(tape), begun : 0..clock]
        BY <1>1 DEF TradesTyped
      <3>2. 0..Len(tape) \subseteq 0..Len(tape')  BY <1>4, <1>7
      <3> QED  BY <1>3, <3>1, <3>2
    <2>3. \A s \in {file', mem', base', fetched'} : s \in Seq(Ids')
      <3>1. \A s \in {file, mem, base, fetched} : s \in Seq(Ids)  BY <1>1 DEF TradesTyped
      <3>2. \A s \in {file, mem, base, fetched} : s \in Seq(Ids')  BY <1>8, <3>1, SeqWider
      <3> QED  BY <1>3, <3>2
    <2>4. /\ venue' \in Venues /\ mode' \in Modes /\ inTrades' \in BOOLEAN
          /\ clock' \in 1..LastMoment /\ tape' \in Seq(1..clock')
          /\ step' \in Busy \union {"idle"} /\ cursor' \in Ids' \union {NoId, 1}
          /\ dates' \subseteq Nat /\ (mode' = "download" => IsInjective(file'))
      BY <1>1, <1>3, <1>7, <1>8 DEF TradesTyped
    <2> QED  BY <2>1, <2>2, <2>3, <2>4 DEF TradesTyped
  <1>11. step' \notin {"days", "write", "writing"}
    BY <1>3 DEF NewTrade, Looking
  <1>12. base # <<>> => Head(base) \in Ids /\ Last(base) \in Ids  BY <1>1, ListFacts
  <1>13. Begun => Begun'
    <2>1. Ids # {} => 1 \in Ids /\ Ids' # {}  BY <1>5, <1>8
    <2>2. Ids # {} => tape'[1] = tape[1]  BY <1>9, <2>1
    <2>3. base # <<>> => tape'[Last(base)] = tape[Last(base)]  BY <1>9, <1>12
    <2> QED  BY <1>3, <2>1, <2>2, <2>3 DEF Begun
  <1>14. (IdleOK => IdleOK') /\ (ListingOK => ListingOK') /\ (ArchiveOK => ArchiveOK')
    BY <1>3 DEF IdleOK, ListingOK, ArchiveOK, FirstId
  <1>15. StartupOK => StartupOK'  BY <1>3 DEF StartupOK, Overlap
  <1>16. ASSUME PagesOK PROVE PagesOK'
    <2>1. Got' = Got  BY <1>3 DEF Got
    <2>2. (Late' <=> Late) /\ (Touches' <=> Touches)
      BY <1>3, <1>9, <1>12, <2>1 DEF Late, Touches
    <2>3. base # <<>> => tape'[Head(base)] = tape[Head(base)]  BY <1>9, <1>12
    <2>4. Nears'  BY <1>3, <1>16, <2>1, <2>2, <2>3 DEF Nears, PagesOK
    <2>5. ASSUME NEW k \in Ids' PROVE Sought(k)' => k \in Ids /\ Sought(k)
      <3>1. 1..request.known \subseteq Ids
        <4>1. request.known \in 0..n  BY <1>1, <1>4, RequestFacts
        <4> QED  BY <1>5, <4>1
      <3> QED  BY <1>3, <1>9, <3>1 DEF Sought
    <2>6. Overlap' <=> Overlap  BY <1>3 DEF Overlap
    <2>7. \A k \in Ids' : Sought(k)' =>
            k \in Got' \/ (cursor' # NoId /\ k > cursor') \/ (Overlap' /\ k = cursor')
      BY <1>3, <1>16, <2>1, <2>5, <2>6 DEF PagesOK
    <2> QED  BY <1>3, <1>16, <2>1, <2>2, <2>4, <2>6, <2>7 DEF PagesOK
  <1> QED  BY <1>3, <1>10, <1>11, <1>13, <1>14, <1>15, <1>16 DEF TInv

\* The start of a download of either kind.
LEMMA StartStep ==
  ASSUME TInv, step = "idle", NEW asked \in 0..LastMoment + 1, NEW since \in 0..LastMoment,
         NEW until \in 0..LastMoment, NEW stored \in Seq(Ids),
         Start(asked, since, until, stored),
         \/ since <= asked
         \/ stored # <<>> /\ since <= tape[Last(stored)],
         UNCHANGED <<exchange, memory, fetched, dates>>,
         file' \in Seq(Ids), mode = "download" => IsInjective(file')
  PROVE  TInv'
  <1>1. TradesTyped /\ IdleOK  BY DEF TInv
  <1>2. PICK lastId : lastId = IF stored = <<>> THEN NoId ELSE Last(stored)  OBVIOUS
  <1>3. /\ request' = [asked |-> asked, since |-> since, until |-> until,
                       known |-> Len(tape), begun |-> clock]
        /\ base' = stored /\ cursor' = lastId /\ step' \in StartOf(lastId)
    BY <1>2 DEF Start
  <1>4. /\ venue' = venue /\ mode' = mode /\ clock' = clock /\ tape' = tape
        /\ inTrades' = inTrades /\ mem' = mem /\ fetched' = <<>> /\ dates' = {}
    BY <1>1 DEF exchange, memory, IdleOK
  <1>5. PICK n \in Nat : n = Len(tape)  BY <1>1, TapeFacts
  <1>6. Ids = 1..n /\ clock \in Nat /\ LastMoment \in Nat /\ Ids' = Ids
    BY <1>1, <1>4, <1>5, TapeFacts DEF Ids
  <1>7. stored # <<>> => Last(stored) \in ToSet(stored) /\ ToSet(stored) \subseteq Ids
    BY SeqEnds
  <1>8. (stored = <<>> <=> lastId = NoId) /\ lastId \in Ids \union {NoId}
    BY <1>2, <1>6, <1>7 DEF NoId
  <1>9. venue \in {"binance", "ccxt", "kraken"}
    BY <1>1, VenueAssumption DEF TradesTyped
  <1>10. /\ step' \in {"listing", "archive", "startup", "pages"}
         /\ step' = "listing" => venue = "binance" /\ stored = <<>>
         /\ step' = "archive" => venue = "binance"
         /\ step' = "startup" /\ venue # "kraken" => stored = <<>>
         /\ step' = "pages" => stored # <<>>
    <2>1. CASE venue = "binance"
      <3>1. StartOf(lastId) = IF lastId = NoId THEN {"listing"} ELSE {"archive"}
        BY <2>1 DEF StartOf
      <3> QED  BY <1>3, <1>8, <2>1, <3>1
    <2>2. CASE venue = "ccxt"
      <3>1. StartOf(lastId) = IF lastId = NoId THEN {"startup"} ELSE {"pages"}  BY <2>2 DEF StartOf
      <3> QED  BY <1>3, <1>8, <2>2, <3>1
    <2>3. CASE venue = "kraken"
      <3>1. StartOf(lastId) = IF lastId = NoId THEN {"startup"} ELSE {"startup", "pages"}
        BY <2>3 DEF StartOf
      <3> QED  BY <1>3, <1>8, <2>3, <3>1
    <2> QED  BY <1>9, <2>1, <2>2, <2>3
  <1>11. TradesTyped'
    <2>1. request' \in Requests(Len(tape), clock)
      <3>1. Len(tape) \in 0..Len(tape) /\ clock \in 0..clock  BY <1>5, <1>6
      <3> QED  BY <1>3, <3>1 DEF Requests
    <2>2. base' \in Seq(Ids) /\ fetched' \in Seq(Ids) /\ mem' \in Seq(Ids)
      BY <1>1, <1>3, <1>4, ListFacts
    <2>3. inTrades' \in BOOLEAN  BY <1>1, <1>4 DEF TradesTyped
    <2>4. step' \in Busy \union {"idle"}  BY <1>10 DEF Busy
    <2>5. cursor' \in Ids \union {NoId, 1} /\ dates' \subseteq Nat  BY <1>3, <1>4, <1>8
    <2> QED  BY <1>1, <2>1, <2>2, <2>3, <2>4, <2>5, TypedStep
  <1>12. request'.since = since /\ request'.asked = asked /\ request'.known = n
    BY <1>3, <1>5
  <1>13. Begun'  BY <1>3, <1>4, <1>12 DEF Begun
  <1>14. step' = "listing" => ListingOK'  BY <1>3, <1>10 DEF ListingOK
  <1>15. cursor' = FirstId'  BY <1>2, <1>3 DEF FirstId
  <1>16. step' \in {"listing", "archive"} => ArchiveOK'
    BY <1>4, <1>10, <1>15 DEF ArchiveOK
  <1>17. step' = "startup" => StartupOK'  BY <1>3, <1>4, <1>10 DEF StartupOK, Overlap
  <1>18. ASSUME step' = "pages" PROVE PagesOK'
    <2>1. Got' = {}
      <3>1. <<>> \in Seq(Ids)  OBVIOUS
      <3>2. ToSet(<<>>) = {}  BY <3>1, SeqEnds
      <3> QED  BY <1>4, <3>2 DEF Got
    <2>2. Contiguous(Got')  BY <2>1 DEF Contiguous
    <2>3. Nears'  BY <1>4 DEF Nears
    <2>4. base' = <<>> \/ cursor' = Last(base')  BY <1>2, <1>3
    <2>5. Overlap' => cursor' # NoId
      BY <1>3, <1>4, <1>8, <1>10, <1>18 DEF Overlap
    <2>6. ASSUME NEW k \in Ids', Sought(k)'
          PROVE  cursor' # NoId /\ k > cursor'
      <3>1. base' # <<>> /\ cursor' = Last(base')  BY <1>2, <1>3, <1>10, <1>18
      <3>2. k > Last(base')  BY <2>6, <3>1 DEF Sought
      <3> QED  BY <1>3, <1>8, <1>10, <1>18, <3>1, <3>2
    <2> QED  BY <1>4, <2>1, <2>2, <2>3, <2>4, <2>5, <2>6 DEF PagesOK
  <1> QED  BY <1>10, <1>11, <1>13, <1>14, <1>16, <1>17, <1>18 DEF TInv

LEMMA AtLeastFirstIs ==
  ASSUME NEW t \in Int, NEW u \in Nat, t <= u, u >= 1
  PROVE  AtLeastFirst(t) \in 1..u
  BY DEF AtLeastFirst

LEMMA StartingFromIs ==
  ASSUME TradesTyped, NEW start \in AskedDates \union {NoId}, NEW stored \in Seq(Ids)
  PROVE  LET since == StartingFrom(start, stored)
         IN  /\ since \in 0..LastMoment
             /\ start # NoId => \/ since <= start
                                \/ stored # <<>> /\ since <= tape[Last(stored)]
             /\ stored # <<>> /\ start = NoId => since <= tape[Last(stored)]
  <1>1. PICK since : since = StartingFrom(start, stored)  OBVIOUS
  <1>2. PICK last : last = tape[Last(stored)]  OBVIOUS
  <1>3. clock \in Nat /\ clock >= 1 /\ clock <= LastMoment /\ LastMoment \in Nat
    BY TapeFacts
  <1>4. stored # <<>> => last \in Nat /\ last >= 1 /\ last <= clock
    <2>1. stored # <<>> => Last(stored) \in Ids  BY SeqEnds
    <2> QED  BY <1>2, <2>1, TapeFacts
  <1>5. Back \in Nat /\ NewPairSpan \in Nat /\ AskedDates \subseteq 1..LastMoment
    BY MarketAssumption
  <1>6. start \in 0..LastMoment  BY <1>3, <1>5 DEF NoId
  <1>7. since = IF stored # <<>> /\ start < last THEN AtLeastFirst(last - Back)
                ELSE IF start = NoId THEN AtLeastFirst(clock - NewPairSpan) ELSE start
    BY <1>1, <1>2 DEF StartingFrom
  <1>8. CASE stored # <<>> /\ start < last
    <2>1. last - Back \in Int /\ last - Back <= last  BY <1>4, <1>5, <1>8
    <2>2. AtLeastFirst(last - Back) \in 1..last  BY <1>4, <1>8, <2>1, AtLeastFirstIs
    <2>3. since \in 1..last  BY <1>7, <1>8, <2>2
    <2> QED  BY <1>1, <1>2, <1>3, <1>4, <1>8, <2>3
  <1>9. CASE ~(stored # <<>> /\ start < last) /\ start = NoId
    <2>1. stored = <<>>  BY <1>4, <1>9 DEF NoId
    <2>2. clock - NewPairSpan \in Int /\ clock - NewPairSpan <= clock  BY <1>3, <1>5
    <2>3. AtLeastFirst(clock - NewPairSpan) \in 1..clock  BY <1>3, <2>2, AtLeastFirstIs
    <2>4. since \in 1..clock  BY <1>7, <1>9, <2>3
    <2> QED  BY <1>1, <1>3, <1>9, <2>1, <2>4
  <1>10. CASE ~(stored # <<>> /\ start < last) /\ start # NoId
    <2>1. since = start  BY <1>7, <1>10
    <2> QED  BY <1>1, <1>6, <1>10, <2>1
  <1> QED  BY <1>8, <1>9, <1>10

LEMMA DownloadStep == TInv /\ Download => TInv'
  <1> SUFFICES ASSUME TInv, Download PROVE TInv'
    OBVIOUS
  <1>1. TradesTyped  BY DEF TInv
  <1>2. step = "idle" /\ UNCHANGED <<exchange, memory, fetched, dates>>  BY DEF Download
  <1>3. PICK start \in AskedDates \union {NoId}, stop \in AskedDates \union {NoId},
             erase \in BOOLEAN :
          LET stored == IF erase THEN <<>> ELSE file IN
            /\ file' = stored
            /\ Start(IF start # NoId THEN start
                     ELSE IF stored # <<>> THEN tape[Head(stored)] ELSE StartingFrom(start, stored),
                     StartingFrom(start, stored), IF stop = NoId THEN clock ELSE stop, stored)
    BY DEF Download
  <1>4. PICK stored : stored = IF erase THEN <<>> ELSE file  OBVIOUS
  <1>5. PICK since : since = StartingFrom(start, stored)  OBVIOUS
  <1>6. PICK asked : asked = IF start # NoId THEN start
                             ELSE IF stored # <<>> THEN tape[Head(stored)] ELSE since
    OBVIOUS
  <1>7. PICK until : until = IF stop = NoId THEN clock ELSE stop  OBVIOUS
  <1>8. file' = stored /\ Start(asked, since, until, stored)  BY <1>3, <1>4, <1>5, <1>6, <1>7
  <1>9. stored \in Seq(Ids) /\ (mode = "download" => IsInjective(stored))
    <2>1. file \in Seq(Ids)  BY <1>1, ListFacts
    <2>2. mode = "download" => IsInjective(file)  BY <1>1 DEF TradesTyped
    <2>3. IsInjective(<<>>)  BY DEF IsInjective
    <2> QED  BY <1>4, <2>1, <2>2, <2>3
  <1>10. /\ since \in 0..LastMoment
         /\ start # NoId => since <= start \/ (stored # <<>> /\ since <= tape[Last(stored)])
         /\ stored # <<>> /\ start = NoId => since <= tape[Last(stored)]
    BY <1>1, <1>5, <1>9, StartingFromIs
  <1>11. clock \in Nat /\ clock >= 1 /\ clock <= LastMoment /\ LastMoment \in Nat
         /\ AskedDates \subseteq 1..LastMoment
    BY <1>1, TapeFacts, MarketAssumption
  <1>12. until \in 0..LastMoment  BY <1>7, <1>11
  <1>13. asked \in 0..LastMoment + 1
    <2>1. CASE start # NoId  BY <1>6, <1>11, <2>1
    <2>2. CASE start = NoId /\ stored # <<>>
      <3>1. Head(stored) \in Ids  BY <1>9, <2>2, SeqEnds
      <3>2. asked = tape[Head(stored)] /\ asked \in Nat /\ asked <= clock
        BY <1>1, <1>6, <2>2, <3>1, TapeFacts
      <3> QED  BY <1>11, <3>2
    <2>3. CASE start = NoId /\ stored = <<>>  BY <1>6, <1>10, <1>11, <2>3
    <2> QED  BY <2>1, <2>2, <2>3
  <1>14. since <= asked \/ (stored # <<>> /\ since <= tape[Last(stored)])
    <2>1. CASE start # NoId  BY <1>6, <1>10, <2>1
    <2>2. CASE start = NoId /\ stored # <<>>  BY <1>10, <2>2
    <2>3. CASE start = NoId /\ stored = <<>>
      <3>1. asked = since  BY <1>6, <2>3
      <3> QED  BY <1>10, <1>11, <3>1
    <2> QED  BY <2>1, <2>2, <2>3
  <1>15. file' \in Seq(Ids) /\ (mode = "download" => IsInjective(file'))  BY <1>8, <1>9
  <1> QED  BY <1>2, <1>8, <1>9, <1>10, <1>12, <1>13, <1>14, <1>15, StartStep

LEMMA RefreshStep == TInv /\ Refresh => TInv'
  <1> SUFFICES ASSUME TInv, Refresh PROVE TInv'
    OBVIOUS
  <1>1. TradesTyped  BY DEF TInv
  <1>2. PICK first : first = AtLeastFirst(clock - Window)  OBVIOUS
  <1>3. PICK stored : stored = IF inTrades THEN mem ELSE CacheFor(first)  OBVIOUS
  <1>4. PICK since : since = IF ~inTrades /\ stored # <<>> THEN tape[Last(stored)] ELSE first
    OBVIOUS
  <1>5. /\ step = "idle" /\ UNCHANGED <<exchange, file, memory, fetched, dates>>
        /\ Start(first + 1, since, clock, stored)
    BY <1>2, <1>3, <1>4 DEF Refresh
  <1>6. clock \in Nat /\ clock >= 1 /\ clock <= LastMoment /\ LastMoment \in Nat
    BY <1>1, TapeFacts
  <1>7. first \in 1..clock
    <2>1. Window \in Nat  BY MarketAssumption
    <2>2. clock - Window \in Int /\ clock - Window <= clock  BY <1>6, <2>1
    <2> QED  BY <1>2, <1>6, <2>2, AtLeastFirstIs
  <1>8. file \in Seq(Ids) /\ mem \in Seq(Ids)  BY <1>1, ListFacts
  <1>9. stored \in Seq(Ids)
    <2>1. RemoveDuplicates(file) \in Seq(Ids)  BY <1>8, DuplicatesRemoved
    <2>2. <<>> \in Seq(Ids)  OBVIOUS
    <2>3. CacheFor(first) \in Seq(Ids)  BY <2>1, <2>2 DEF CacheFor
    <2> QED  BY <1>3, <1>8, <2>3
  <1>10. stored # <<>> => tape[Last(stored)] \in Nat /\ tape[Last(stored)] <= clock
    <2>1. stored # <<>> => Last(stored) \in Ids  BY <1>9, SeqEnds
    <2> QED  BY <1>1, <2>1, TapeFacts
  <1>11. /\ first + 1 \in 0..LastMoment + 1 /\ since \in 0..LastMoment /\ clock \in 0..LastMoment
         /\ since <= first + 1 \/ (stored # <<>> /\ since <= tape[Last(stored)])
    <2>1. CASE ~inTrades /\ stored # <<>>  BY <1>4, <1>6, <1>7, <1>10, <2>1
    <2>2. CASE ~(~inTrades /\ stored # <<>>)
      <3>1. since = first  BY <1>4, <2>2
      <3> QED  BY <1>6, <1>7, <3>1
    <2> QED  BY <2>1, <2>2
  <1>12. file' \in Seq(Ids) /\ (mode = "download" => IsInjective(file'))
    BY <1>1, <1>5, <1>8 DEF TradesTyped
  <1>13. UNCHANGED <<exchange, memory, fetched, dates>>  BY <1>5
  <1> QED  BY <1>5, <1>9, <1>11, <1>12, <1>13, StartStep

\* A step within a download: what it leaves alone is as it was.
LEMMA InnerStep ==
  ASSUME TInv, UNCHANGED <<exchange, file, memory, base, request>>, step \notin {"idle", "writing"},
         step' \in Busy, fetched' \in Seq(Ids), cursor' \in Ids \union {NoId, 1},
         dates' \subseteq Nat
  PROVE  /\ TradesTyped' /\ Begun'
         /\ Ids' = Ids /\ tape' = tape /\ venue' = venue /\ mode' = mode
         /\ base' = base /\ request' = request
         /\ (Late' <=> Late) /\ (CutBehind' <=> CutBehind) /\ (Overlap' <=> Overlap)
         /\ \A k : Sought(k)' <=> Sought(k)
  <1>1. TradesTyped /\ Begun  BY DEF TInv
  <1>2. /\ venue' = venue /\ mode' = mode /\ clock' = clock /\ tape' = tape /\ file' = file
        /\ inTrades' = inTrades /\ mem' = mem /\ base' = base /\ request' = request
    BY DEF exchange, memory
  <1>3. Ids' = Ids  BY <1>2 DEF Ids
  <1>4. Begun'  BY <1>1, <1>2, <1>3 DEF Begun
  <1>5. TradesTyped'
    <2>1. file' \in Seq(Ids) /\ mem' \in Seq(Ids) /\ base' \in Seq(Ids)
      BY <1>1, <1>2, ListFacts
    <2>2. request' \in Requests(Len(tape), clock)  BY <1>1, <1>2, RequestFacts
    <2>3. inTrades' \in BOOLEAN /\ (mode = "download" => IsInjective(file'))
      BY <1>1, <1>2 DEF TradesTyped
    <2> QED  BY <1>1, <2>1, <2>2, <2>3, TypedStep
  <1>6. (Late' <=> Late) /\ (CutBehind' <=> CutBehind) /\ (Overlap' <=> Overlap)
    BY <1>2 DEF Late, CutBehind, Overlap
  <1>7. \A k : Sought(k)' <=> Sought(k)  BY <1>2 DEF Sought
  <1> QED  BY <1>2, <1>3, <1>4, <1>5, <1>6, <1>7

LEMMA ListingStep == TInv /\ Listing => TInv'
  <1> SUFFICES ASSUME TInv, Listing PROVE TInv'
    OBVIOUS
  <1>1. TradesTyped /\ Begun /\ ListingOK /\ ArchiveOK  BY DEF TInv, Listing
  <1>2. PICK since : since = IF request.since < tape[1] THEN tape[1] ELSE request.since
    OBVIOUS
  <1>3. /\ tape # <<>> /\ step' = "archive" /\ request' = [request EXCEPT !.since = since]
        /\ UNCHANGED <<exchange, file, memory, base, fetching>>
    BY <1>2 DEF Listing
  <1>4. /\ venue' = venue /\ mode' = mode /\ clock' = clock /\ tape' = tape /\ file' = file
        /\ inTrades' = inTrades /\ mem' = mem /\ base' = base
        /\ fetched' = fetched /\ dates' = dates /\ cursor' = cursor
    BY <1>3 DEF exchange, memory, fetching
  <1>5. 1 \in Ids
    <2>1. PICK n \in Nat : n = Len(tape)  BY <1>1, TapeFacts
    <2>2. n # 0 /\ Ids = 1..n
      <3>1. tape \in Seq(1..clock)  BY <1>1 DEF TradesTyped
      <3> QED  BY <1>3, <2>1, <3>1 DEF Ids
    <2> QED  BY <2>1, <2>2
  <1>6. /\ tape[1] \in Nat /\ tape[1] <= clock /\ clock <= LastMoment
        /\ clock \in Nat /\ LastMoment \in Nat
    BY <1>1, <1>5, TapeFacts
  <1>7. request \in Requests(Len(tape), clock) /\ request.since \in Nat
        /\ request.since <= LastMoment
    BY <1>1, RequestFacts
  <1>8. since \in 0..LastMoment /\ (since = request.since \/ since = tape[1])
    BY <1>2, <1>6, <1>7
  <1>9. request' \in Requests(Len(tape), clock)  BY <1>3, <1>7, <1>8 DEF Requests
  <1>10. request'.since = since /\ request'.asked = request.asked
    BY <1>3, <1>7 DEF Requests
  <1>11. Begun'
    <2>1. Ids' = Ids  BY <1>4 DEF Ids
    <2>2. CASE since = request.since  BY <1>1, <1>4, <1>10, <2>1, <2>2 DEF Begun
    <2>3. CASE since = tape[1]  BY <1>4, <1>5, <1>10, <2>1, <2>3 DEF Begun
    <2> QED  BY <1>8, <2>2, <2>3
  <1>12. TradesTyped'
    <2>1. /\ file' \in Seq(Ids) /\ mem' \in Seq(Ids) /\ base' \in Seq(Ids) /\ fetched' \in Seq(Ids)
      BY <1>1, <1>4, ListFacts
    <2>2. /\ inTrades' \in BOOLEAN /\ (mode = "download" => IsInjective(file'))
          /\ cursor' \in Ids \union {NoId, 1} /\ dates' \subseteq Nat
      BY <1>1, <1>4 DEF TradesTyped
    <2>3. step' \in Busy \union {"idle"}  BY <1>3 DEF Busy
    <2>4. UNCHANGED exchange  BY <1>3
    <2> QED  BY <1>1, <1>9, <2>1, <2>2, <2>3, <2>4, TypedStep
  <1>13. ArchiveOK'  BY <1>1, <1>4 DEF ArchiveOK, FirstId
  <1> QED  BY <1>3, <1>11, <1>12, <1>13 DEF TInv

LEMMA OpenArchiveStep == TInv /\ OpenArchive => TInv'
  <1> SUFFICES ASSUME TInv, OpenArchive PROVE TInv'
    OBVIOUS
  <1>1. TradesTyped /\ ArchiveOK  BY DEF TInv, OpenArchive
  <1>2. PICK end : end = IF request.until < clock - 2 * ArchiveDay THEN request.until
                         ELSE clock - 2 * ArchiveDay
    OBVIOUS
  <1>3. PICK first : first = DayOf(request.since)  OBVIOUS
  <1>4. PICK last : last = first + (end - request.since) \div ArchiveDay  OBVIOUS
  <1>5. /\ step = "archive" /\ step' = "days"
        /\ dates' = IF request.since >= end THEN {} ELSE first..last
        /\ UNCHANGED <<exchange, file, memory, request, base, fetched, cursor>>
    BY <1>2, <1>3, <1>4 DEF OpenArchive
  <1>6. request.since \in Nat /\ request.until \in Nat /\ clock \in Nat
    BY <1>1, RequestFacts, TapeFacts
  <1>7. PICK d \in Nat \ {0} : d = ArchiveDay  BY MarketAssumption
  <1>8. first \in Nat /\ end \in Int /\ last \in Int
    <2>1. first \in Nat  BY <1>3, <1>6, DayIs
    <2>2. end \in Int  BY <1>2, <1>6, <1>7
    <2>3. PICK a \in Int : a = end - request.since  BY <1>6, <2>2
    <2>4. a \div d \in Int  BY <1>7
    <2> QED  BY <1>4, <1>7, <2>1, <2>2, <2>3, <2>4
  <1>9. dates' \subseteq Nat  BY <1>5, <1>8
  <1>10. fetched' = fetched /\ cursor' = cursor  BY <1>5
  <1>11. fetched' \in Seq(Ids) /\ cursor' \in Ids \union {NoId, 1}
    BY <1>1, <1>10, ListFacts DEF TradesTyped
  <1>12. /\ TradesTyped' /\ Begun' /\ Ids' = Ids /\ tape' = tape /\ venue' = venue
         /\ base' = base /\ request' = request
    <2>1. step \notin {"idle", "writing"} /\ step' \in Busy  BY <1>5 DEF Busy
    <2>2. UNCHANGED <<exchange, file, memory, base, request>>  BY <1>5
    <2> QED  BY <1>9, <1>11, <2>1, <2>2, InnerStep
  <1>13. Got' = {}
    <2>1. <<>> \in Seq(Ids)  OBVIOUS
    <2>2. ToSet(<<>>) = {}  BY <2>1, SeqEnds
    <2> QED  BY <1>1, <1>10, <2>2 DEF Got, ArchiveOK
  <1>14. ReadTo(0)'
    <2>1. PICK time : time = tape  OBVIOUS
    <2>2. \A k \in Ids : time[k] \in Nat  BY <1>1, <2>1, TapeFacts
    <2>3. \A k \in Ids : DayOf(time[k]) \in Nat  BY <2>2, DayIs
    <2>4. \A k \in Ids : ~(first <= DayOf(time[k]) /\ DayOf(time[k]) < first + 0)
      BY <1>8, <2>3
    <2>5. DayOf(request'.since) = first  BY <1>3, <1>12
    <2> QED  BY <1>12, <1>13, <2>1, <2>4, <2>5 DEF ReadTo
  <1>15. dates' = {} \/ \E m \in Int : dates' = (DayOf(request'.since) + 0)..m
    <2>1. DayOf(request'.since) + 0 = first  BY <1>3, <1>8, <1>12
    <2> QED  BY <1>5, <1>8, <2>1
  <1>16. DaysOK'
    <2>1. venue' = "binance" /\ cursor' = FirstId'  BY <1>1, <1>10, <1>12 DEF ArchiveOK, FirstId
    <2>2. 0 \in Nat  OBVIOUS
    <2> QED  BY <1>13, <1>14, <1>15, <2>1, <2>2 DEF DaysOK
  <1> QED  BY <1>5, <1>12, <1>16 DEF TInv

LEMMA EarliestIs ==
  ASSUME NEW a \in Int, NEW b \in Int, a..b # {}
  PROVE  Earliest(a..b) = a /\ (a..b) \ {a} = a + 1..b
  <1>1. a \in a..b /\ \A u \in a..b : a <= u  OBVIOUS
  <1>2. /\ Earliest(a..b) \in a..b
        /\ \A u \in a..b : Earliest(a..b) <= u
    BY <1>1 DEF Earliest
  <1>3. PICK e \in a..b : e = Earliest(a..b)  BY <1>2
  <1>4. e <= a /\ a <= e  BY <1>1, <1>2, <1>3
  <1> QED  BY <1>3, <1>4

LEMMA ReadDayStep == TInv /\ ReadDay => TInv'
  <1> SUFFICES ASSUME TInv, ReadDay PROVE TInv'
    OBVIOUS
  <1>1. TradesTyped /\ DaysOK  BY DEF TInv, ReadDay
  <1>2. PICK day : day = Earliest(dates)  OBVIOUS
  <1>3. PICK more : more = DayTrades(day)  OBVIOUS
  <1>4. /\ step = "days" /\ dates # {} /\ step' = step
        /\ fetched' = fetched \o more /\ dates' = dates \ {day} /\ cursor' = cursor
        /\ UNCHANGED <<exchange, file, memory, base, request>>
    BY <1>2, <1>3 DEF ReadDay
  <1>5. PICK first \in Nat : first = DayOf(request.since)
    BY <1>1, RequestFacts, DayIs
  <1>6. PICK n \in Nat : /\ ReadTo(n)
                         /\ dates = {} \/ \E m \in Int : dates = (first + n)..m
    BY <1>1, <1>5 DEF DaysOK
  <1>7. PICK m \in Int : dates = (first + n)..m  BY <1>4, <1>6
  <1>8. day = first + n /\ dates' = (first + n + 1)..m
    <2>1. first + n \in Int  OBVIOUS
    <2> QED  BY <1>2, <1>4, <1>7, <2>1, EarliestIs
  <1>9. Len(tape) \in Nat /\ fetched \in Seq(Ids) /\ Got \subseteq Ids
    BY <1>1, TapeFacts, ListFacts
  <1>10. /\ more \in Seq(Ids) /\ ToSet(more) = {k \in Ids : DayOf(tape[k]) = day}
         /\ \A k \in ToSet(more) : k <= Last(more)
    BY <1>3, <1>9, DayTradesIs
  <1>11. /\ fetched' \in Seq(Ids) /\ Got' = Got \union ToSet(more)
         /\ more = <<>> => fetched' = fetched
         /\ more # <<>> => fetched' # <<>> /\ Last(fetched') = Last(more)
    BY <1>4, <1>9, <1>10, ConcatSet DEF Got
  <1>12. /\ TradesTyped' /\ Begun' /\ Ids' = Ids /\ tape' = tape /\ venue' = venue
         /\ base' = base /\ request' = request
    <2>1. dates' \subseteq Nat /\ cursor' \in Ids \union {NoId, 1}
      BY <1>1, <1>4 DEF TradesTyped
    <2>2. step \notin {"idle", "writing"} /\ step' \in Busy  BY <1>4 DEF Busy
    <2> QED  BY <1>4, <1>11, <2>1, <2>2, InnerStep
  <1>13. PICK time : time = tape  OBVIOUS
  <1>14. \A k \in Ids : time[k] \in Nat /\ DayOf(time[k]) \in Nat
    <2>1. \A k \in Ids : time[k] \in Nat  BY <1>1, <1>13, TapeFacts
    <2> QED  BY <2>1, DayIs
  <1>15. \A k \in Ids : k \in Got <=> first <= DayOf(time[k]) /\ DayOf(time[k]) < first + n
    BY <1>5, <1>6, <1>13 DEF ReadTo
  <1>16. ReadTo(n + 1)'
    <2>1. \A k \in Ids : k \in Got' <=> /\ first <= DayOf(time[k])
                                        /\ DayOf(time[k]) < first + (n + 1)
      <3> SUFFICES ASSUME NEW k \in Ids
                   PROVE  k \in Got' <=> /\ first <= DayOf(time[k])
                                         /\ DayOf(time[k]) < first + (n + 1)
        OBVIOUS
      <3>1. PICK d \in Nat : d = DayOf(time[k])  BY <1>14
      <3>2. k \in Got' <=> k \in Got \/ d = first + n  BY <1>8, <1>10, <1>11, <1>13, <3>1
      <3>3. k \in Got <=> first <= d /\ d < first + n  BY <1>15, <3>1
      <3>4. (first <= d /\ d < first + n) \/ d = first + n <=> first <= d /\ d < first + (n + 1)
        OBVIOUS
      <3> QED  BY <3>1, <3>2, <3>3, <3>4
    <2> QED  BY <1>5, <1>12, <1>13, <2>1 DEF ReadTo
  <1>17. \A k \in Got' : k <= Last(fetched')
    <2>1. CASE more = <<>>
      <3>1. fetched' = fetched /\ Got' = Got  BY <1>11, <2>1 DEF Got
      <3> QED  BY <1>1, <3>1 DEF DaysOK
    <2>2. CASE more # <<>>
      <3>1. Last(more) \in ToSet(more)  BY <1>10, <2>2, SeqEnds
      <3>2. PICK l \in Ids : l = Last(more) /\ DayOf(time[l]) = first + n
        BY <1>8, <1>10, <1>13, <3>1
      <3>3. ASSUME NEW k \in Got PROVE k <= l
        <4>1. k \in Ids /\ DayOf(time[k]) < first + n  BY <1>9, <1>15, <3>3
        <4>2. Ids \subseteq Nat  BY <1>9 DEF Ids
        <4>3. l <= k => time[l] <= time[k]  BY <1>1, <1>13, <3>2, <4>1, TapeFacts
        <4>4. time[l] <= time[k] => DayOf(time[l]) <= DayOf(time[k])
          BY <1>14, <3>2, <4>1, DayIs
        <4>5. DayOf(time[l]) \in Nat /\ DayOf(time[k]) \in Nat  BY <1>14, <3>2, <4>1
        <4>6. ~(l <= k)  BY <3>2, <4>1, <4>3, <4>4, <4>5
        <4> QED  BY <3>2, <4>1, <4>2, <4>6
      <3>4. Last(fetched') = l  BY <1>11, <2>2, <3>2
      <3> QED  BY <1>10, <1>11, <3>2, <3>3, <3>4
    <2> QED  BY <2>1, <2>2
  <1>18. DaysOK'
    <2>1. venue' = "binance" /\ cursor' = FirstId'  BY <1>1, <1>4, <1>12 DEF DaysOK, FirstId
    <2>2. DayOf(request'.since) + (n + 1) = first + n + 1  BY <1>5, <1>12
    <2>3. \E i \in Int : dates' = (DayOf(request'.since) + (n + 1))..i  BY <1>8, <2>2
    <2>4. n + 1 \in Nat  OBVIOUS
    <2> QED  BY <1>16, <1>17, <2>1, <2>3, <2>4 DEF DaysOK
  <1> QED  BY <1>4, <1>12, <1>18 DEF TInv

LEMMA MissingDayStep == TInv /\ MissingDay => TInv'
  <1> SUFFICES ASSUME TInv, MissingDay PROVE TInv'
    OBVIOUS
  <1>1. TradesTyped /\ DaysOK  BY DEF TInv, MissingDay
  <1>2. /\ step = "days" /\ step' = step /\ dates' = {}
        /\ fetched' = fetched /\ cursor' = cursor
        /\ UNCHANGED <<exchange, file, memory, base, request>>
    BY DEF MissingDay
  <1>3. /\ TradesTyped' /\ Begun' /\ Ids' = Ids /\ tape' = tape /\ venue' = venue
        /\ base' = base /\ request' = request
    <2>1. dates' \subseteq Nat /\ cursor' \in Ids \union {NoId, 1} /\ fetched' \in Seq(Ids)
      BY <1>1, <1>2, ListFacts DEF TradesTyped
    <2>2. step \notin {"idle", "writing"} /\ step' \in Busy  BY <1>2 DEF Busy
    <2> QED  BY <1>2, <2>1, <2>2, InnerStep
  <1>4. DaysOK'
    <2>1. PICK n \in Nat : ReadTo(n)  BY <1>1 DEF DaysOK
    <2>2. Got' = Got /\ FirstId' = FirstId  BY <1>2, <1>3 DEF Got, FirstId
    <2>3. ReadTo(n)'  BY <1>3, <2>1, <2>2 DEF ReadTo
    <2> QED  BY <1>1, <1>2, <1>3, <2>2, <2>3 DEF DaysOK
  <1> QED  BY <1>2, <1>3, <1>4 DEF TInv

\* Unless the user asks for later trades, a download starts at or before the
\* last one that is stored.
LEMMA StartsBefore ==
  ASSUME TradesTyped, Begun, base # <<>>, ~Late
  PROVE  request.since <= tape[Last(base)]
  <1>1. PICK last \in Nat : last = tape[Last(base)] /\ Last(base) \in Ids
    BY ListFacts, TapeFacts
  <1>2. request.asked \in Nat /\ request.since \in Nat  BY RequestFacts
  <1>3. request.asked <= last  BY <1>1, <1>2 DEF Late
  <1>4. Ids # {} /\ request.since = tape[1] => request.since <= last
    <2>1. PICK n \in Nat : n = Len(tape) /\ Ids = 1..n  BY TapeFacts
    <2>2. 1 \in Ids /\ 1 <= Last(base)  BY <1>1, <2>1
    <2>3. tape[1] <= tape[Last(base)]  BY <1>1, <2>2, TapeFacts
    <2> QED  BY <1>1, <2>3
  <1> QED  BY <1>1, <1>2, <1>3, <1>4 DEF Begun

\* What the archives brought: whole days from the start on.
LEMMA ArchiveIs ==
  ASSUME TradesTyped, Begun, DaysOK, fetched # <<>>
  PROVE  /\ Contiguous(Got)
         /\ \A k \in Ids : request.since <= tape[k] /\ tape[k] <= tape[Last(fetched)] => k \in Got
         /\ \A k \in Got : k <= Last(fetched)
         /\ base # <<>> /\ ~Late /\ Contiguous(ToSet(base)) =>
              \/ Touches
              \/ request.since <= tape[Head(base)] /\ Last(fetched) < Head(base)
  <1>1. PICK time : time = tape  OBVIOUS
  <1>2. PICK since \in Nat : since = request.since  BY RequestFacts
  <1>3. PICK first \in Nat : first = DayOf(since)  BY DayIs
  <1>4. PICK n \in Nat : ReadTo(n)  BY DEF DaysOK
  <1>5. /\ \A k \in Ids : k \in Nat /\ time[k] \in Nat /\ DayOf(time[k]) \in Nat
        /\ \A j, k \in Ids : j <= k => time[j] <= time[k]
    <2>1. \A k \in Ids : time[k] \in Nat  BY <1>1, TapeFacts
    <2>2. Ids \subseteq Nat  BY TapeFacts
    <2>3. \A j, k \in Ids : j <= k => time[j] <= time[k]  BY <1>1, TapeFacts
    <2> QED  BY <2>1, <2>2, <2>3, DayIs
  <1>6. \A k \in Ids : k \in Got <=> first <= DayOf(time[k]) /\ DayOf(time[k]) < first + n
    BY <1>1, <1>2, <1>3, <1>4 DEF ReadTo
  <1>7. PICK l \in Got : l = Last(fetched)  BY ListFacts
  <1>8. Got \subseteq Ids /\ l \in Ids  BY <1>7, ListFacts
  <1>9. \A k \in Got : k <= l  BY <1>7 DEF DaysOK
  <1>10. ASSUME NEW k \in Ids, first <= DayOf(time[k]), time[k] <= time[l]
         PROVE  k \in Got
    <2>1. time[k] \in Nat /\ time[l] \in Nat  BY <1>5, <1>8
    <2>2. DayOf(time[k]) <= DayOf(time[l])  BY <1>10, <2>1, DayIs
    <2>3. DayOf(time[l]) < first + n  BY <1>6, <1>7, <1>8
    <2>4. DayOf(time[k]) \in Nat /\ DayOf(time[l]) \in Nat  BY <1>5, <1>8
    <2> QED  BY <1>6, <1>10, <2>2, <2>3, <2>4
  <1>11. ASSUME NEW k \in Ids, since <= time[k], time[k] <= time[l]
         PROVE  k \in Got
    <2>1. time[k] \in Nat  BY <1>5
    <2>2. first <= DayOf(time[k])  BY <1>3, <1>11, <2>1, DayIs
    <2> QED  BY <1>10, <1>11, <2>2
  <1>12. Contiguous(Got)
    <2> SUFFICES ASSUME NEW i \in Got, NEW j \in Got, NEW x \in i..j PROVE x \in Got
      BY DEF Contiguous
    <2>1. i \in Ids /\ j \in Ids /\ j <= l  BY <1>8, <1>9
    <2>2. i \in Nat /\ j \in Nat /\ l \in Nat  BY <1>5, <1>8, <2>1
    <2>3. x \in Ids
      <3>1. PICK c \in Nat : Ids = 1..c  BY TapeFacts
      <3> QED  BY <2>1, <3>1
    <2>4. i <= x /\ x <= l  BY <2>1, <2>2
    <2>5. time[i] <= time[x] /\ time[x] <= time[l]  BY <1>5, <1>8, <2>1, <2>3, <2>4
    <2>6. DayOf(time[i]) <= DayOf(time[x])  BY <1>5, <2>1, <2>3, <2>5, DayIs
    <2>7. first <= DayOf(time[i])  BY <1>6, <2>1
    <2>8. DayOf(time[i]) \in Nat /\ DayOf(time[x]) \in Nat  BY <1>5, <2>1, <2>3
    <2>9. first <= DayOf(time[x])  BY <2>6, <2>7, <2>8
    <2> QED  BY <1>10, <2>3, <2>5, <2>9
  <1>13. ASSUME base # <<>>, ~Late, Contiguous(ToSet(base))
         PROVE  Touches \/ (since <= time[Head(base)] /\ l < Head(base))
    <2>1. PICK h \in ToSet(base) : h = Head(base)  BY <1>13, ListFacts
    <2>2. PICK b \in ToSet(base) : b = Last(base)  BY <1>13, ListFacts
    <2>3. h \in Ids /\ b \in Ids  BY ListFacts
    <2>4. h \in Nat /\ b \in Nat /\ l \in Nat  BY <1>5, <1>8, <2>3
    <2>5. since <= time[b]  BY <1>1, <1>2, <1>13, <2>2, StartsBefore
    <2>6. \A x \in Got \intersect ToSet(base) : Touches
      <3>1. ASSUME NEW x \in Got \intersect ToSet(base) PROVE x \in x - 1..x + 1
        <4>1. x \in Nat  BY <1>5, <1>8
        <4> QED  BY <4>1
      <3> QED  BY <3>1 DEF Touches
    <2>7. CASE l < h
      <3>1. since <= time[h] => Touches \/ (since <= time[Head(base)] /\ l < Head(base))
        BY <2>1, <2>7
      <3>2. CASE ~(since <= time[h])
        <4>1. time[h] <= since  BY <1>5, <2>3, <3>2
        <4>2. time[l] <= time[h]  BY <1>5, <1>8, <2>3, <2>4, <2>7
        <4>3. DayOf(time[h]) <= first  BY <1>3, <1>5, <2>3, <4>1, DayIs
        <4>4. DayOf(time[l]) <= DayOf(time[h])  BY <1>5, <1>8, <2>3, <4>2, DayIs
        <4>5. first <= DayOf(time[l]) /\ DayOf(time[l]) < first + n  BY <1>6, <1>7, <1>8
        <4>6. DayOf(time[l]) \in Nat /\ DayOf(time[h]) \in Nat  BY <1>5, <1>8, <2>3
        <4>7. first <= DayOf(time[h]) /\ DayOf(time[h]) < first + n  BY <4>3, <4>4, <4>5, <4>6
        <4>8. h \in Got  BY <1>6, <2>3, <4>7
        <4> QED  BY <1>9, <2>4, <2>7, <4>8
      <3> QED  BY <3>1, <3>2
    <2>8. CASE h <= l /\ l <= b
      <3>1. l \in h..b  BY <2>4, <2>8
      <3>2. l \in ToSet(base)  BY <1>13, <3>1 DEF Contiguous
      <3> QED  BY <1>7, <2>6, <3>2
    <2>9. CASE b < l
      <3>1. time[b] <= time[l]  BY <1>5, <1>8, <2>3, <2>4, <2>9
      <3>2. b \in Got  BY <1>11, <2>3, <2>5, <3>1
      <3> QED  BY <2>6, <3>2
    <2> QED  BY <2>4, <2>7, <2>8, <2>9
  <1> QED  BY <1>1, <1>2, <1>7, <1>9, <1>11, <1>12, <1>13

LEMMA ArchiveReadStep == TInv /\ ArchiveRead => TInv'
  <1> SUFFICES ASSUME TInv, ArchiveRead PROVE TInv'
    OBVIOUS
  <1>1. TradesTyped /\ Begun /\ DaysOK  BY DEF TInv, ArchiveRead
  <1>2. PICK endTime : endTime = IF fetched = <<>> THEN request.since ELSE tape[Last(fetched)]
    OBVIOUS
  <1>3. PICK endId : endId = IF fetched = <<>> THEN cursor ELSE Last(fetched)  OBVIOUS
  <1>4. /\ step = "days" /\ cursor' = endId
        /\ step' = (IF endTime >= request.until THEN "write"
                    ELSE IF endId = NoId THEN "startup" ELSE "pages")
        /\ fetched' = fetched /\ dates' = dates
        /\ UNCHANGED <<exchange, file, memory, base, request>>
    BY <1>2, <1>3 DEF ArchiveRead
  <1>5. step' \in {"write", "startup", "pages"}  BY <1>4
  <1>6. Got \subseteq Ids /\ (fetched # <<>> => Last(fetched) \in Got) /\ fetched \in Seq(Ids)
        /\ (fetched = <<>> <=> Got = {})
    BY <1>1, ListFacts
  <1>7. cursor = FirstId /\ venue = "binance"  BY <1>1 DEF DaysOK
  <1>8. endId \in Ids \union {NoId, 1}
    BY <1>1, <1>3, <1>6 DEF TradesTyped
  <1>9. /\ TradesTyped' /\ Begun' /\ Ids' = Ids /\ tape' = tape /\ venue' = venue
        /\ base' = base /\ request' = request
        /\ (Late' <=> Late) /\ (CutBehind' <=> CutBehind) /\ (Overlap' <=> Overlap)
        /\ \A k : Sought(k)' <=> Sought(k)
    <2>1. dates' \subseteq Nat /\ fetched' \in Seq(Ids) /\ cursor' \in Ids \union {NoId, 1}
      BY <1>1, <1>4, <1>6, <1>8 DEF TradesTyped
    <2>2. step \notin {"idle", "writing"} /\ step' \in Busy  BY <1>4, <1>5 DEF Busy
    <2> QED  BY <1>4, <2>1, <2>2, InnerStep
  <1>10. Got' = Got /\ (Touches' <=> Touches)  BY <1>4, <1>9 DEF Got, Touches
  <1>11. Overlap  BY <1>7 DEF Overlap
  <1>12. PICK time : time = tape  OBVIOUS
  <1>13. \A k \in Ids : k \in Nat /\ time[k] \in Nat
    BY <1>1, <1>12, TapeFacts
  <1>14. \A j, k \in Ids : j <= k => time[j] <= time[k]  BY <1>1, <1>12, TapeFacts
  <1>15. request.since \in Nat /\ request.until \in Nat  BY <1>1, RequestFacts
  <1>16. Contiguous(Got)
    <2>1. CASE fetched = <<>>  BY <1>6, <2>1 DEF Contiguous
    <2> QED  BY <1>1, <2>1, ArchiveIs
  <1>17. fetched # <<>> =>
           /\ \A k \in Ids : request.since <= time[k] /\ time[k] <= time[Last(fetched)] => k \in Got
           /\ \A k \in Got : k <= Last(fetched)
           /\ base # <<>> /\ ~Late /\ Contiguous(ToSet(base)) =>
                \/ Touches
                \/ request.since <= time[Head(base)] /\ Last(fetched) < Head(base)
    BY <1>1, <1>12, ArchiveIs
  <1>18. base # <<>> => Head(base) \in Ids /\ Last(base) \in Ids  BY <1>1, ListFacts
  <1>19. ASSUME step' = "write" PROVE WriteOK'
    <2>1. endTime >= request.until  BY <1>4, <1>19
    <2>2. ASSUME NEW k \in Ids, Sought(k), time[k] < request.until PROVE k \in Got
      <3>1. time[k] >= request.since  BY <1>12, <2>2 DEF Sought
      <3>2. CASE fetched = <<>>
        <4>1. request.since >= request.until  BY <1>2, <2>1, <3>2
        <4> QED  BY <1>13, <1>15, <2>2, <3>1, <4>1
      <3>3. CASE fetched # <<>>
        <4>1. time[Last(fetched)] >= request.until  BY <1>2, <1>12, <2>1, <3>3
        <4>2. Last(fetched) \in Ids  BY <1>6, <3>3
        <4>3. time[k] <= time[Last(fetched)]  BY <1>13, <1>15, <2>2, <4>1, <4>2
        <4> QED  BY <1>13, <1>15, <1>17, <3>1, <3>3, <4>3
      <3> QED  BY <3>2, <3>3
    <2>3. ASSUME base # <<>>, ~Late, ~CutBehind, fetched # <<>>, Contiguous(ToSet(base))
          PROVE  Touches
      <3> SUFFICES ASSUME ~Touches PROVE FALSE
        OBVIOUS
      <3>1. request.since <= time[Head(base)] /\ Last(fetched) < Head(base)  BY <1>17, <2>3
      <3>2. time[Head(base)] <= request.until
        <4>1. ~(request.until < time[Head(base)])  BY <1>12, <2>3, <3>1 DEF CutBehind
        <4> QED  BY <1>13, <1>15, <1>18, <2>3, <4>1
      <3>3. time[Last(fetched)] >= request.until /\ Last(fetched) \in Ids
        BY <1>2, <1>6, <1>12, <2>1, <2>3
      <3>4. time[Head(base)] <= time[Last(fetched)]
        BY <1>13, <1>15, <1>18, <2>3, <3>2, <3>3
      <3>5. Head(base) \in Got  BY <1>17, <1>18, <2>3, <3>1, <3>4
      <3>6. Head(base) <= Last(fetched)  BY <1>17, <2>3, <3>5
      <3> QED  BY <1>13, <1>18, <2>3, <3>1, <3>3, <3>6
    <2> QED  BY <1>4, <1>9, <1>10, <1>12, <1>16, <2>2, <2>3 DEF WriteOK
  <1>20. ASSUME step' = "startup" PROVE StartupOK'
    <2>1. endId = NoId  BY <1>4, <1>20
    <2>2. fetched = <<>>
      <3>1. fetched # <<>> => endId \in Ids  BY <1>3, <1>6
      <3>2. NoId \notin Ids  BY DEF NoId, Ids
      <3> QED  BY <2>1, <3>1, <3>2
    <2>3. base = <<>>
      <3>1. base # <<>> => FirstId \in Ids  BY <1>18 DEF FirstId
      <3>2. NoId \notin Ids  BY DEF NoId, Ids
      <3> QED  BY <1>3, <1>7, <2>1, <2>2, <3>1, <3>2
    <2> QED  BY <1>4, <1>9, <2>2, <2>3 DEF StartupOK
  <1>21. ASSUME step' = "pages" PROVE PagesOK'
    <2>1. endId # NoId  BY <1>4, <1>21
    <2>2. Nears'
      <3>1. Nears
        <4> SUFFICES ASSUME base # <<>>, ~Late, fetched # <<>>, Contiguous(ToSet(base)), ~Touches
                     PROVE  /\ request.since <= tape[Head(base)]
                            /\ \E k \in Got : k < Head(base)
          BY DEF Nears
        <4> QED  BY <1>6, <1>12, <1>17
      <3> QED  BY <1>4, <1>9, <1>10, <3>1 DEF Nears
    <2>3. \A k \in Got : k <= endId  BY <1>3, <1>6, <1>17
    <2>4. fetched # <<>> => endId \in Got  BY <1>3, <1>6
    <2>5. fetched = <<>> => base = <<>> \/ endId = Last(base)  BY <1>3, <1>7 DEF FirstId
    <2>6. ASSUME NEW k \in Ids, Sought(k), k \notin Got PROVE k > endId
      <3>1. time[k] >= request.since /\ (base # <<>> => k > Last(base))
        BY <1>12, <2>6 DEF Sought
      <3>2. CASE fetched = <<>>
        <4>1. base # <<>> /\ endId = Last(base)  BY <1>3, <1>7, <2>1, <3>2 DEF FirstId
        <4> QED  BY <3>1, <4>1
      <3>3. CASE fetched # <<>>
        <4>1. endId = Last(fetched) /\ endId \in Ids  BY <1>3, <1>6, <3>3
        <4>2. ~(time[k] <= time[endId])  BY <1>13, <1>15, <1>17, <2>6, <3>1, <3>3, <4>1
        <4>3. ~(k <= endId)  BY <1>14, <4>1, <4>2
        <4> QED  BY <1>13, <4>1, <4>3
      <3> QED  BY <3>2, <3>3
    <2>7. \A k \in Got' : k <= cursor'  BY <1>4, <1>10, <2>3
    <2>8. fetched' # <<>> => cursor' \in Got'  BY <1>4, <1>10, <2>4
    <2>9. fetched' = <<>> => base' = <<>> \/ cursor' = Last(base')  BY <1>4, <1>9, <2>5
    <2>10. cursor' # NoId  BY <1>4, <2>1
    <2>11. \A k \in Ids' : Sought(k)' => k \in Got' \/ (cursor' # NoId /\ k > cursor')
      BY <1>4, <1>9, <1>10, <2>1, <2>6
    <2> QED  BY <1>10, <1>16, <2>2, <2>7, <2>8, <2>9, <2>10, <2>11 DEF PagesOK
  <1> QED  BY <1>5, <1>9, <1>19, <1>20, <1>21 DEF TInv

LEMMA StartupStep == TInv /\ Startup => TInv'
  <1> SUFFICES ASSUME TInv, Startup PROVE TInv'
    OBVIOUS
  <1>1. TradesTyped /\ Begun /\ StartupOK  BY DEF TInv, Startup
  <1>2. PICK head : head = FirstSince(request.since)  OBVIOUS
  <1>3. PICK t : t = Page(head)  OBVIOUS
  <1>4. /\ step = "startup" /\ step' = "pages" /\ dates' = dates
        /\ fetched' = fetched \o Trimmed(t)
        /\ cursor' = (IF t # <<>> THEN Last(t) ELSE IF Overlap THEN 1 ELSE NoId)
        /\ UNCHANGED <<exchange, file, memory, base, request>>
    BY <1>2, <1>3 DEF Startup
  <1>5. PICK time : time = tape  OBVIOUS
  <1>6. PICK n \in Nat : n = Len(tape)  BY <1>1, TapeFacts
  <1>7. /\ Ids = 1..n
        /\ \A k \in Ids : time[k] \in Nat
        /\ \A j, k \in Ids : j <= k => time[j] <= time[k]
    BY <1>1, <1>5, <1>6, TapeFacts
  <1>8. PICK since \in Nat : since = request.since  BY <1>1, RequestFacts
  <1>9. head \in 1..n + 1 /\ \A k \in Ids : k < head <=> time[k] < since
    BY <1>1, <1>2, <1>5, <1>6, <1>8, FirstSinceIs
  <1>10. /\ head > n => t = <<>>
         /\ head <= n =>
              /\ t # <<>> /\ t \in Seq(Ids) /\ Front(t) \in Seq(Ids)
              /\ Last(t) \in head..n
              /\ ToSet(t) = head..Last(t) /\ ToSet(Front(t)) = head..Last(t) - 1
    <2>1. head \in Nat \ {0} /\ Len(tape) \in Nat  BY <1>6, <1>9
    <2> QED  BY <1>3, <1>6, <2>1, PageIs
  <1>11. PICK l : l = Last(t)  OBVIOUS
  <1>12. PICK more : more = Trimmed(t)  OBVIOUS
  <1>13. /\ head > n => more = <<>>
         /\ head <= n => /\ more \in Seq(Ids)
                         /\ ToSet(more) = head..(IF Overlap THEN l - 1 ELSE l)
    BY <1>10, <1>11, <1>12 DEF Trimmed
  <1>14. more \in Seq(Ids)
    <2>1. <<>> \in Seq(Ids)  OBVIOUS
    <2>2. CASE head > n
      <3>1. more = <<>>  BY <1>13, <2>2
      <3> QED  BY <2>1, <3>1
    <2>3. CASE head <= n  BY <1>13, <2>3
    <2> QED  BY <1>6, <1>9, <2>2, <2>3
  <1>15. fetched' = more
    <2>1. fetched = <<>>  BY <1>1 DEF StartupOK
    <2> QED  BY <1>4, <1>12, <1>14, <2>1
  <1>16. head <= n => l \in head..n  BY <1>10, <1>11
  <1>17. cursor' \in Ids \union {NoId, 1}
    BY <1>4, <1>6, <1>7, <1>9, <1>10, <1>11, <1>16
  <1>18. /\ TradesTyped' /\ Begun' /\ Ids' = Ids /\ tape' = tape /\ venue' = venue
         /\ base' = base /\ request' = request
         /\ (Late' <=> Late) /\ (Overlap' <=> Overlap)
         /\ \A k : Sought(k)' <=> Sought(k)
    <2>1. dates' \subseteq Nat  BY <1>1, <1>4 DEF TradesTyped
    <2>2. step \notin {"idle", "writing"} /\ step' \in Busy  BY <1>4 DEF Busy
    <2> QED  BY <1>4, <1>14, <1>15, <1>17, <2>1, <2>2, InnerStep
  <1>19. Got' = ToSet(more) /\ (more = <<>> <=> ToSet(more) = {})
    BY <1>14, <1>15, SeqEnds DEF Got
  <1>20. \A k \in Ids : Sought(k) => k >= head
    BY <1>5, <1>7, <1>8, <1>9 DEF Sought
  <1>21. base # <<>> => ~Overlap  BY <1>1 DEF StartupOK
  <1>22. base # <<>> => Head(base) \in ToSet(base) /\ Last(base) \in ToSet(base)
                        /\ Head(base) \in Ids /\ Last(base) \in Ids
    BY <1>1, ListFacts
  <1>23. base # <<>> /\ ~Late => head <= Last(base)
    <2> SUFFICES ASSUME base # <<>>, ~Late PROVE head <= Last(base)
      OBVIOUS
    <2>1. since <= time[Last(base)]  BY <1>1, <1>5, <1>8, StartsBefore
    <2> QED  BY <1>7, <1>9, <1>22, <2>1
  <1>24. CASE head > n
    <2>1. t = <<>> /\ more = <<>> /\ Got' = {}  BY <1>10, <1>13, <1>19, <1>24
    <2>2. Contiguous(Got') /\ Nears'  BY <1>15, <2>1 DEF Contiguous, Nears
    <2>3. base = <<>> \/ Late  BY <1>7, <1>22, <1>23, <1>24, <1>6, <1>9
    <2>4. Overlap => cursor' # NoId  BY <1>4, <2>1 DEF NoId
    <2>5. \A k \in Ids : ~Sought(k)  BY <1>6, <1>7, <1>9, <1>20, <1>24
    <2>6. PagesOK'  BY <1>15, <1>18, <2>1, <2>2, <2>3, <2>4, <2>5 DEF PagesOK
    <2> QED  BY <1>4, <1>18, <2>6 DEF TInv
  <1>25. CASE head <= n
    <2>1. l \in head..n /\ cursor' = l /\ ToSet(more) = head..(IF Overlap THEN l - 1 ELSE l)
      BY <1>4, <1>10, <1>11, <1>13, <1>16, <1>25
    <2>2. l \in Ids /\ l \in Nat /\ l # NoId /\ l >= head /\ head \in Nat
      BY <1>7, <1>9, <2>1 DEF NoId
    <2>3. Contiguous(Got')
      <3>1. \A a, b \in Int : Contiguous(a..b)  BY DEF Contiguous
      <3> QED  BY <1>19, <2>1, <2>2, <3>1
    <2>4. Nears'
      <3> SUFFICES ASSUME base # <<>>, ~Late, Contiguous(ToSet(base))
                   PROVE  \/ Touches'
                          \/ since <= time[Head(base)] /\ \E k \in Got' : k < Head(base)
        BY <1>5, <1>8, <1>18 DEF Nears
      <3>1. Got' = head..l /\ l \in Got'  BY <1>19, <1>21, <2>1, <2>2
      <3>2. Touches' <=> \E k \in Got', j \in ToSet(base) : k \in j - 1..j + 1
        BY <1>18 DEF Touches
      <3>3. \A x \in Ids : x \in Got' /\ x \in ToSet(base) => Touches'
        <4>1. ASSUME NEW x \in Ids PROVE x \in x - 1..x + 1  BY <1>7
        <4> QED  BY <3>2, <4>1
      <3>4. PICK h \in Ids, b \in Ids : h = Head(base) /\ b = Last(base)  BY <1>22
      <3>5. head <= b  BY <1>23, <3>4
      <3>6. CASE b <= l
        <4>1. b \in Got'  BY <1>7, <2>2, <3>1, <3>4, <3>5, <3>6
        <4> QED  BY <1>22, <3>3, <3>4, <4>1
      <3>7. CASE h <= l /\ l < b
        <4>1. l \in h..b  BY <1>7, <2>2, <3>4, <3>7
        <4>2. l \in ToSet(base)  BY <1>22, <3>4, <4>1 DEF Contiguous
        <4> QED  BY <2>2, <3>1, <3>3, <4>2
      <3>8. CASE l < h
        <4>1. ~(h < head)  BY <1>7, <2>2, <3>4, <3>8
        <4>2. since <= time[h]  BY <1>7, <1>9, <3>4, <4>1
        <4> QED  BY <3>1, <3>4, <3>8, <4>2
      <3> QED  BY <1>7, <2>2, <3>4, <3>6, <3>7, <3>8
    <2>5. \A k \in Got' : k <= l  BY <1>19, <2>1, <2>2
    <2>6. fetched' # <<>> => l \in Got' \/ (Overlap /\ l - 1 \in Got')
      <3>1. CASE ~Overlap  BY <1>19, <2>1, <2>2, <3>1
      <3>2. CASE Overlap
        <4>1. fetched' # <<>> => head..l - 1 # {}  BY <1>15, <1>19, <2>1, <3>2
        <4>2. head..l - 1 # {} => l - 1 \in head..l - 1  BY <2>2
        <4> QED  BY <1>19, <2>1, <3>2, <4>1, <4>2
      <3> QED  BY <3>1, <3>2
    <2>7. fetched' = <<>> => base = <<>>
      <3>1. ~Overlap => l \in Got'  BY <1>19, <2>1, <2>2
      <3> QED  BY <1>15, <1>19, <1>21, <3>1
    <2>8. ASSUME NEW k \in Ids, Sought(k)
          PROVE  k \in Got' \/ (l # NoId /\ k > l) \/ (Overlap /\ k = l)
      <3>1. k >= head /\ k \in Nat  BY <1>7, <1>20, <2>8
      <3>2. CASE k > l  BY <2>2, <3>2
      <3>3. CASE k < l
        <4>1. k \in head..l - 1 /\ k \in head..l  BY <2>2, <3>1, <3>3
        <4> QED  BY <1>19, <2>1, <4>1
      <3>4. CASE k = l
        <4>1. k \in head..l  BY <2>2, <3>1, <3>4
        <4> QED  BY <1>19, <2>1, <3>4, <4>1
      <3> QED  BY <2>2, <3>1, <3>2, <3>3, <3>4
    <2>9. PagesOK'
      BY <1>18, <2>1, <2>2, <2>3, <2>4, <2>5, <2>6, <2>7, <2>8 DEF PagesOK
    <2> QED  BY <1>4, <1>18, <2>9 DEF TInv
  <1> QED  BY <1>6, <1>9, <1>24, <1>25

\* The next reply goes on from the cursor; there is none at the newest trade.
LEMMA NextPageIs ==
  ASSUME TradesTyped, Overlap => cursor # NoId
  PROVE  LET t == NextPage
         IN  /\ t = <<>> => \A k \in Ids : k <= cursor /\ cursor # NoId /\ ~Overlap
             /\ t # <<>> =>
                  /\ Last(t) \in Ids /\ Trimmed(t) \in Seq(Ids)
                  /\ Overlap /\ Last(t) = cursor => cursor = Len(tape)
                  /\ \E low \in Ids :
                       /\ low <= Last(t)
                       /\ ToSet(Trimmed(t)) = low..(IF Overlap THEN Last(t) - 1 ELSE Last(t))
                       /\ cursor # NoId => low = IF Overlap THEN cursor ELSE cursor + 1
  <1>1. PICK n \in Nat : n = Len(tape)  BY TapeFacts
  <1>2. Ids = 1..n  BY <1>1 DEF Ids
  <1>3. PICK t : t = NextPage  OBVIOUS
  <1>4. cursor \in Ids \union {NoId, 1} /\ cursor \in Nat
    <2>1. cursor \in Ids \union {NoId, 1}  BY DEF TradesTyped
    <2> QED  BY <1>2, <2>1 DEF NoId
  <1>5. CASE Overlap
    <2>1. t = Page(cursor) /\ cursor \in Nat \ {0}  BY <1>3, <1>4, <1>5 DEF NextPage, NoId
    <2>2. /\ cursor > n => t = <<>>
          /\ cursor <= n =>
               /\ t # <<>> /\ Front(t) \in Seq(Ids) /\ Last(t) \in cursor..n
               /\ ToSet(Front(t)) = cursor..Last(t) - 1
               /\ Last(t) = cursor => cursor = n
      BY <1>1, <2>1, PageIs
    <2>3. CASE cursor > n
      <3>1. Ids = {}  BY <1>2, <1>4, <2>3 DEF NoId
      <3> QED  BY <1>3, <2>2, <2>3, <3>1
    <2>4. CASE cursor <= n
      <3>1. t # <<>> /\ Trimmed(t) = Front(t)  BY <1>5, <2>2, <2>4 DEF Trimmed
      <3>2. cursor \in Ids  BY <1>2, <2>1, <2>4
      <3>3. PICK l : l = Last(t)  OBVIOUS
      <3>4. l \in cursor..n /\ ToSet(Trimmed(t)) = cursor..l - 1 /\ Trimmed(t) \in Seq(Ids)
            /\ (l = cursor => cursor = n)
        BY <2>2, <2>4, <3>1, <3>3
      <3>5. l \in Ids /\ cursor <= l  BY <1>2, <2>1, <3>4
      <3> QED  BY <1>1, <1>3, <1>5, <3>1, <3>2, <3>3, <3>4, <3>5
    <2> QED  BY <1>1, <1>4, <2>3, <2>4
  <1>6. CASE ~Overlap /\ cursor = NoId
    <2>1. t = LatestTrades  BY <1>3, <1>6 DEF NextPage
    <2>2. /\ Ids = {} => t = <<>>
          /\ Ids # {} => /\ t # <<>> /\ t \in Seq(Ids) /\ Last(t) \in Ids
                         /\ \E k \in Ids : k <= Last(t) /\ ToSet(t) = k..Last(t)
      BY <1>1, <2>1, LatestTradesIs
    <2>3. Trimmed(t) = t  BY <1>6 DEF Trimmed
    <2>4. CASE Ids = {}  BY <1>3, <2>2, <2>4
    <2>5. CASE Ids # {}  BY <1>3, <1>6, <2>2, <2>3, <2>5
    <2> QED  BY <2>4, <2>5
  <1>7. CASE ~Overlap /\ cursor # NoId
    <2>1. t = Page(cursor + 1) /\ cursor + 1 \in Nat \ {0}
      BY <1>3, <1>4, <1>7 DEF NextPage
    <2>2. /\ cursor + 1 > n => t = <<>>
          /\ cursor + 1 <= n =>
               /\ t # <<>> /\ t \in Seq(Ids) /\ Last(t) \in cursor + 1..n
               /\ ToSet(t) = cursor + 1..Last(t)
      BY <1>1, <2>1, PageIs
    <2>3. Trimmed(t) = t  BY <1>7 DEF Trimmed
    <2>4. CASE cursor + 1 > n
      <3>1. \A k \in Ids : k <= cursor  BY <1>2, <1>4, <2>4
      <3> QED  BY <1>3, <1>7, <2>2, <2>4, <3>1
    <2>5. CASE cursor + 1 <= n
      <3>1. PICK low : low = cursor + 1  OBVIOUS
      <3>2. PICK l : l = Last(t)  OBVIOUS
      <3>3. l \in low..n /\ ToSet(t) = low..l /\ t # <<>> /\ t \in Seq(Ids)
        BY <2>2, <2>5, <3>1, <3>2
      <3>4. low \in Ids /\ l \in Ids /\ low <= l  BY <1>2, <1>4, <2>5, <3>1, <3>3
      <3> QED  BY <1>3, <1>7, <2>3, <3>1, <3>2, <3>3, <3>4
    <2> QED  BY <1>1, <1>4, <2>4, <2>5
  <1> QED  BY <1>5, <1>6, <1>7

\* The last page: nothing is left that the download looks for.
LEMMA NoPageLeft ==
  ASSUME TradesTyped, PagesOK, \A k \in Ids : k <= cursor /\ cursor # NoId /\ ~Overlap
  PROVE  WriteOK
  <1>1. Ids \subseteq Nat /\ cursor \in Nat
    <2>1. Ids \subseteq Nat  BY TapeFacts
    <2>2. cursor \in Ids \union {NoId, 1}  BY DEF TradesTyped
    <2> QED  BY <2>1, <2>2 DEF NoId
  <1>2. \A k \in Ids : Sought(k) => k \in Got
    BY <1>1 DEF PagesOK
  <1>3. ASSUME base # <<>>, ~Late, fetched # <<>>, Contiguous(ToSet(base)) PROVE Touches
    <2>1. PICK h \in ToSet(base) : h = Head(base) /\ h \in Ids  BY <1>3, ListFacts
    <2>2. Touches \/ \E k \in Got : k < h  BY <1>3, <2>1 DEF PagesOK, Nears
    <2>3. ASSUME NEW k \in Got, k < h PROVE Touches
      <3>1. cursor \in Got /\ k \in Ids  BY <1>3, <2>1, ListFacts DEF PagesOK
      <3>2. h \in k..cursor  BY <1>1, <2>1, <2>3, <3>1
      <3>3. h \in Got  BY <3>1, <2>3, <3>2 DEF PagesOK, Contiguous
      <3>4. h \in h - 1..h + 1  BY <1>1, <2>1
      <3> QED  BY <2>1, <3>3, <3>4 DEF Touches
    <2> QED  BY <2>2, <2>3
  <1> QED  BY <1>2, <1>3 DEF WriteOK, PagesOK

LEMMA FetchTradesStep == TInv /\ FetchTrades => TInv'
  <1> SUFFICES ASSUME TInv, FetchTrades PROVE TInv'
    OBVIOUS
  <1>1. TradesTyped /\ Begun /\ PagesOK  BY DEF TInv, FetchTrades
  <1>2. PICK t : t = NextPage  OBVIOUS
  <1>3. step = "pages" /\ UNCHANGED <<exchange, file, memory, request, base, dates>>
    BY DEF FetchTrades
  <1>4. PICK n \in Nat : n = Len(tape)  BY <1>1, TapeFacts
  <1>5. PICK time : time = tape  OBVIOUS
  <1>6. /\ Ids = 1..n
        /\ \A k \in Ids : time[k] \in Nat
        /\ \A j, k \in Ids : j <= k => time[j] <= time[k]
    BY <1>1, <1>4, <1>5, TapeFacts
  <1>7. fetched \in Seq(Ids) /\ Got \subseteq Ids /\ (fetched = <<>> <=> Got = {})
    BY <1>1, ListFacts
  <1>8. cursor \in Ids \union {NoId, 1} /\ cursor \in Nat
    <2>1. cursor \in Ids \union {NoId, 1}  BY <1>1 DEF TradesTyped
    <2> QED  BY <1>6, <2>1 DEF NoId
  <1>9. /\ t = <<>> => \A k \in Ids : k <= cursor /\ cursor # NoId /\ ~Overlap
        /\ t # <<>> =>
             /\ Last(t) \in Ids /\ Trimmed(t) \in Seq(Ids)
             /\ Overlap /\ Last(t) = cursor => cursor = n
             /\ \E low \in Ids :
                  /\ low <= Last(t)
                  /\ ToSet(Trimmed(t)) = low..(IF Overlap THEN Last(t) - 1 ELSE Last(t))
                  /\ cursor # NoId => low = IF Overlap THEN cursor ELSE cursor + 1
    BY <1>1, <1>2, <1>4, NextPageIs DEF PagesOK
  <1>10. dates' \subseteq Nat  BY <1>1, <1>3 DEF TradesTyped
  <1>11. CASE t = <<>>
    <2>1. step' = "write" /\ fetched' = fetched /\ cursor' = cursor
      BY <1>2, <1>11 DEF FetchTrades
    <2>2. WriteOK  BY <1>1, <1>9, <1>11, NoPageLeft
    <2>3. /\ TradesTyped' /\ Begun' /\ Ids' = Ids /\ tape' = tape /\ base' = base
          /\ request' = request /\ (Late' <=> Late) /\ (CutBehind' <=> CutBehind)
          /\ \A k : Sought(k)' <=> Sought(k)
      <3>1. fetched' \in Seq(Ids) /\ cursor' \in Ids \union {NoId, 1}  BY <1>7, <1>8, <2>1
      <3>2. step \notin {"idle", "writing"} /\ step' \in Busy  BY <1>3, <2>1 DEF Busy
      <3> QED  BY <1>3, <1>10, <3>1, <3>2, InnerStep
    <2>4. Got' = Got /\ (Touches' <=> Touches)  BY <2>1, <2>3 DEF Got, Touches
    <2>5. WriteOK'  BY <2>1, <2>2, <2>3, <2>4 DEF WriteOK
    <2> QED  BY <2>1, <2>3, <2>5 DEF TInv
  <1>12. CASE t # <<>>
    <2>1. PICK l \in Ids : l = Last(t)  BY <1>9, <1>12
    <2>2. PICK done : done = (cursor = l \/ time[l] > request.until)  OBVIOUS
    <2>3. PICK more : more = Trimmed(t)  OBVIOUS
    <2>4. PICK extra : extra = IF done /\ Overlap THEN <<l>> ELSE <<>>  OBVIOUS
    <2>5. /\ fetched' = fetched \o more \o extra /\ cursor' = l
          /\ step' = IF done THEN "write" ELSE "pages"
      BY <1>2, <1>5, <1>12, <2>1, <2>2, <2>3, <2>4 DEF FetchTrades
    <2>6. more \in Seq(Ids) /\ (Overlap /\ l = cursor => cursor = n)
      BY <1>9, <1>12, <2>1, <2>3
    <2>7. PICK low \in Ids : /\ low <= l
                             /\ ToSet(more) = low..(IF Overlap THEN l - 1 ELSE l)
                             /\ cursor # NoId => low = IF Overlap THEN cursor ELSE cursor + 1
      BY <1>9, <1>12, <2>1, <2>3
    <2>8. PICK high : high = IF Overlap /\ ~done THEN l - 1 ELSE l  OBVIOUS
    <2>9. l \in Nat /\ low \in Nat /\ high \in Int /\ low >= 1  BY <1>6, <2>1, <2>7, <2>8
    <2>10. /\ fetched' \in Seq(Ids) /\ Got' = Got \union (low..high)
      <3>1. extra \in Seq(Ids) /\ ToSet(extra) = IF done /\ Overlap THEN {l} ELSE {}
        <4>1. CASE done /\ Overlap
          <5>1. extra = <<l>>  BY <2>4, <4>1
          <5>2. extra \in Seq(Ids) /\ Len(extra) = 1 /\ extra[1] = l  BY <5>1
          <5>3. DOMAIN extra = {1}  BY <5>1
          <5>4. ToSet(extra) = {l}  BY <5>2, <5>3 DEF ToSet
          <5> QED  BY <4>1, <5>2, <5>4
        <4>2. CASE ~(done /\ Overlap)
          <5>1. extra = <<>>  BY <2>4, <4>2
          <5>2. extra \in Seq(Ids)  BY <5>1
          <5>3. ToSet(extra) = {}  BY <5>1, <5>2, SeqEnds
          <5> QED  BY <4>2, <5>2, <5>3
        <4> QED  BY <4>1, <4>2
      <3>2. PICK u : u = fetched \o more  OBVIOUS
      <3>3. u \in Seq(Ids) /\ ToSet(u) = Got \union ToSet(more)
        BY <1>7, <2>6, <3>2, ConcatSet DEF Got
      <3>4. fetched' \in Seq(Ids) /\ Got' = ToSet(u) \union ToSet(extra)
        <4>1. fetched' = u \o extra  BY <2>5, <3>2
        <4>2. u \o extra \in Seq(Ids) /\ ToSet(u \o extra) = ToSet(u) \union ToSet(extra)
          BY <3>1, <3>3, ConcatSet
        <4> QED  BY <4>1, <4>2 DEF Got
      <3>5. ToSet(more) \union ToSet(extra) = low..high
        <4>1. CASE Overlap /\ done
          <5>1. low..l = (low..l - 1) \union {l}  BY <2>7, <2>9
          <5> QED  BY <2>7, <2>8, <3>1, <4>1, <5>1
        <4>2. CASE Overlap /\ ~done  BY <2>7, <2>8, <3>1, <4>2
        <4>3. CASE ~Overlap  BY <2>7, <2>8, <3>1, <4>3
        <4> QED  BY <4>1, <4>2, <4>3
      <3> QED  BY <3>3, <3>4, <3>5
    <2>11. /\ TradesTyped' /\ Begun' /\ Ids' = Ids /\ tape' = tape /\ base' = base
           /\ request' = request /\ (Late' <=> Late) /\ (CutBehind' <=> CutBehind)
           /\ (Overlap' <=> Overlap) /\ \A k : Sought(k)' <=> Sought(k)
      <3>1. cursor' \in Ids \union {NoId, 1}  BY <2>1, <2>5
      <3>2. step \notin {"idle", "writing"} /\ step' \in Busy  BY <1>3, <2>5 DEF Busy
      <3> QED  BY <1>3, <1>10, <2>10, <3>1, <3>2, InnerStep
    <2>12. low <= high /\ high <= l /\ (done \/ ~Overlap => high = l)
           /\ (Overlap /\ ~done => high = l - 1 /\ cursor # l)
      <3>1. CASE Overlap /\ ~done
        <4>1. cursor # NoId /\ low = cursor /\ cursor # l  BY <1>1, <2>2, <2>7, <3>1 DEF PagesOK
        <4> QED  BY <2>7, <2>8, <2>9, <3>1, <4>1
      <3>2. CASE ~(Overlap /\ ~done)  BY <2>7, <2>8, <2>9, <3>2
      <3> QED  BY <3>1, <3>2
    <2>13. fetched # <<>> => cursor # NoId
      <3>1. NoId \notin Ids  BY <1>6 DEF NoId
      <3> QED  BY <1>1, <1>7, <3>1 DEF PagesOK
    <2>14. Contiguous(Got')
      <3>1. Contiguous(Got) /\ Contiguous(low..high)
        <4>1. \A a, b \in Int : Contiguous(a..b)  BY DEF Contiguous
        <4> QED  BY <1>1, <2>9, <4>1 DEF PagesOK
      <3>2. Got # {} => \E a \in Got, b \in low..high : a \in b - 1..b + 1
        <4> SUFFICES ASSUME Got # {} PROVE \E a \in Got, b \in low..high : a \in b - 1..b + 1
          OBVIOUS
        <4>1. low \in low..high  BY <2>9, <2>12
        <4>2. cursor # NoId /\ low = IF Overlap THEN cursor ELSE cursor + 1
          BY <1>7, <2>7, <2>13
        <4>3. cursor \in Got \/ (Overlap /\ cursor - 1 \in Got)  BY <1>1, <1>7 DEF PagesOK
        <4>4. CASE cursor \in Got
          <5>1. cursor \in low - 1..low + 1  BY <1>8, <4>2
          <5> QED  BY <4>1, <4>4, <5>1
        <4>5. CASE Overlap /\ cursor - 1 \in Got
          <5>1. cursor - 1 \in low - 1..low + 1  BY <1>8, <4>2, <4>5
          <5> QED  BY <4>1, <4>5, <5>1
        <4> QED  BY <4>3, <4>4, <4>5
      <3>3. Got \in SUBSET Int /\ low..high \in SUBSET Int  BY <1>6, <1>7, <2>9
      <3> QED  BY <2>10, <3>1, <3>2, <3>3, TouchingIsContiguous
    <2>15. \A k \in Got' : k <= l
      <3>1. \A k \in Got : k <= cursor /\ k \in Nat  BY <1>1, <1>6, <1>7 DEF PagesOK
      <3>2. Got # {} => cursor <= l
        <4>1. Got # {} => cursor # NoId  BY <1>7, <2>13
        <4> QED  BY <1>8, <2>7, <2>9, <4>1
      <3>3. \A k \in low..high : k <= l  BY <2>9, <2>12
      <3> QED  BY <1>8, <2>9, <2>10, <3>1, <3>2, <3>3
    <2>16. base # <<>> => /\ Head(base) \in ToSet(base) /\ Last(base) \in ToSet(base)
                          /\ Head(base) \in Ids /\ Last(base) \in Ids
      BY <1>1, ListFacts
    <2>17. Touches' <=> \E k \in Got', j \in ToSet(base) : k \in j - 1..j + 1
      BY <2>11 DEF Touches
    <2>18. base # <<>> /\ ~Late /\ Contiguous(ToSet(base)) =>
             \/ Touches'
             \/ request.since <= time[Head(base)] /\ \E k \in Got : k < Head(base)
      <3> SUFFICES ASSUME base # <<>>, ~Late, Contiguous(ToSet(base))
                   PROVE  \/ Touches'
                          \/ request.since <= time[Head(base)] /\ \E k \in Got : k < Head(base)
        OBVIOUS
      <3>1. CASE fetched = <<>>
        <4>1. PICK b \in ToSet(base) : b = Last(base) /\ b \in Ids  BY <2>16
        <4>2. cursor = b  BY <1>1, <3>1, <4>1 DEF PagesOK
        <4>3. b # NoId  BY <1>6, <4>1 DEF NoId
        <4>4. low \in b - 1..b + 1
          <5>1. low = IF Overlap THEN b ELSE b + 1  BY <2>7, <4>2, <4>3
          <5> QED  BY <1>6, <4>1, <5>1
        <4>5. low \in Got'
          <5>1. low \in low..high  BY <2>9, <2>12
          <5> QED  BY <2>10, <5>1
        <4> QED  BY <2>17, <4>1, <4>4, <4>5
      <3>2. CASE fetched # <<>>
        <4>1. Touches \/ (request.since <= time[Head(base)] /\ \E k \in Got : k < Head(base))
          BY <1>1, <1>5, <3>2 DEF PagesOK, Nears
        <4>2. Touches => Touches'  BY <2>10, <2>17 DEF Touches
        <4> QED  BY <4>1, <4>2
      <3> QED  BY <3>1, <3>2
    <2>19. ASSUME NEW k \in Ids, Sought(k), k <= l
           PROVE  k \in Got' \/ (Overlap /\ ~done /\ k = l)
      <3>1. k \in Got \/ (cursor # NoId /\ k > cursor) \/ (Overlap /\ k = cursor)
        BY <1>1, <2>19 DEF PagesOK
      <3>2. k \in Nat  BY <1>6
      <3>3. CASE k \in Got  BY <2>10, <3>3
      <3>4. CASE cursor # NoId /\ k > cursor
        <4>1. low <= k  BY <1>8, <2>7, <3>2, <3>4
        <4>2. CASE k <= high
          <5>1. k \in low..high  BY <2>9, <3>2, <4>1, <4>2
          <5> QED  BY <2>10, <5>1
        <4>3. CASE k > high  BY <2>8, <2>9, <2>19, <3>2, <4>3
        <4> QED  BY <2>9, <3>2, <4>2, <4>3
      <3>5. CASE Overlap /\ k = cursor
        <4>1. low = k  BY <1>1, <2>7, <3>5 DEF PagesOK
        <4>2. k \in low..high  BY <2>9, <2>12, <4>1
        <4> QED  BY <2>10, <4>2
      <3> QED  BY <3>1, <3>3, <3>4, <3>5
    <2>20. CASE ~done
      <3>1. step' = "pages"  BY <2>5, <2>20
      <3>2. Nears'
        <4>1. Got \subseteq Got'  BY <2>10
        <4> QED  BY <1>5, <2>11, <2>18, <4>1 DEF Nears
      <3>3. fetched' # <<>> => cursor' \in Got' \/ (Overlap' /\ cursor' - 1 \in Got')
        <4>1. high \in Got'
          <5>1. high \in low..high  BY <2>9, <2>12
          <5> QED  BY <2>10, <5>1
        <4>2. high = l \/ (Overlap /\ high = l - 1)  BY <2>12, <2>20
        <4> QED  BY <2>5, <2>11, <4>1, <4>2
      <3>4. fetched' # <<>>
        <4>1. low \in low..high  BY <2>9, <2>12
        <4>2. Got' # {}  BY <2>10, <4>1
        <4> QED  BY <4>2, <2>10, SeqEnds DEF Got
      <3>5. cursor' # NoId  BY <2>5, <2>9, <1>6, <2>1 DEF NoId
      <3>6. \A k \in Got' : k <= cursor'  BY <2>5, <2>15
      <3>7. ASSUME NEW k \in Ids', Sought(k)'
            PROVE  k \in Got' \/ (cursor' # NoId /\ k > cursor') \/ (Overlap' /\ k = cursor')
        <4>1. k \in Ids /\ Sought(k) /\ k \in Nat  BY <1>6, <2>11, <3>7
        <4>2. CASE k <= l  BY <2>5, <2>11, <2>19, <4>1, <4>2
        <4>3. CASE k > l  BY <2>5, <3>5, <4>3
        <4> QED  BY <2>9, <4>1, <4>2, <4>3
      <3>8. PagesOK'  BY <2>14, <3>2, <3>3, <3>4, <3>5, <3>6, <3>7 DEF PagesOK
      <3> QED  BY <2>11, <3>1, <3>8 DEF TInv
    <2>21. CASE done
      <3>1. step' = "write"  BY <2>5, <2>21
      <3>2. l \in Got' /\ high = l
        <4>1. high = l /\ l \in low..high  BY <2>7, <2>9, <2>12, <2>21
        <4> QED  BY <2>10, <4>1
      <3>3. request.until \in Nat  BY <1>1, RequestFacts
      <3>4. \A k \in Ids : k > l => time[k] > request.until
        <4> SUFFICES ASSUME NEW k \in Ids, k > l PROVE time[k] > request.until
          OBVIOUS
        <4>1. k \in Nat /\ k <= n  BY <1>6
        <4>2. cursor # l
          <5>1. SUFFICES ASSUME cursor = l PROVE FALSE
            OBVIOUS
          <5>2. CASE Overlap  BY <2>6, <4>1, <5>1, <5>2
          <5>3. CASE ~Overlap
            <6>1. cursor # NoId  BY <1>6, <2>1, <5>1 DEF NoId
            <6>2. low = l + 1  BY <2>7, <5>1, <5>3, <6>1
            <6> QED  BY <2>7, <2>9, <6>2
          <5> QED  BY <5>2, <5>3
        <4>3. time[l] > request.until  BY <2>2, <2>21, <4>2
        <4>4. time[l] <= time[k]  BY <1>6, <2>9, <4>1
        <4> QED  BY <1>6, <3>3, <4>3, <4>4
      <3>5. ASSUME NEW k \in Ids, Sought(k), time[k] < request.until PROVE k \in Got'
        <4>1. k \in Nat /\ time[k] \in Nat  BY <1>6
        <4>2. ~(k > l)  BY <3>3, <3>4, <3>5, <4>1
        <4>3. k <= l  BY <2>9, <4>1, <4>2
        <4> QED  BY <2>19, <2>21, <3>5, <4>3
      <3>6. ASSUME base # <<>>, ~Late, ~CutBehind, Contiguous(ToSet(base)) PROVE Touches'
        <4>1. PICK h \in ToSet(base) : h = Head(base) /\ h \in Ids  BY <2>16, <3>6
        <4>2. SUFFICES ASSUME NEW k \in Got, request.since <= time[h], k < h PROVE Touches'
          BY <2>18, <3>6, <4>1
        <4>3. h <= l
          <5>1. SUFFICES ASSUME ~(h <= l) PROVE FALSE
            OBVIOUS
          <5>2. h > l  BY <1>6, <2>9, <4>1, <5>1
          <5>3. time[h] > request.until  BY <3>4, <4>1, <5>2
          <5>4. ~(request.until < time[h])  BY <1>5, <3>6, <4>1, <4>2 DEF CutBehind
          <5> QED  BY <1>6, <3>3, <4>1, <5>3, <5>4
        <4>4. k \in Got' /\ k \in Nat /\ h \in Nat  BY <1>6, <1>7, <2>10, <4>1, <4>2
        <4>5. h \in k..l  BY <2>9, <4>2, <4>3, <4>4
        <4>6. h \in Got'  BY <2>14, <3>2, <4>4, <4>5 DEF Contiguous
        <4>7. h \in h - 1..h + 1  BY <4>4
        <4> QED  BY <2>17, <4>1, <4>6, <4>7
      <3>7. WriteOK'  BY <1>5, <2>11, <2>14, <3>5, <3>6 DEF WriteOK
      <3> QED  BY <2>11, <3>1, <3>7 DEF TInv
    <2>22. done \/ ~done  BY <2>2
    <2> QED  BY <2>20, <2>21, <2>22
  <1> QED  BY <1>11, <1>12

LEMMA InterruptStep == TInv /\ Interrupt => TInv'
  <1> SUFFICES ASSUME TInv, Interrupt PROVE TInv'
    OBVIOUS
  <1>1. TradesTyped /\ Begun /\ PagesOK  BY DEF TInv, Interrupt
  <1>2. /\ step' = "write" /\ request' = [request EXCEPT !.until = 0]
        /\ UNCHANGED <<exchange, file, memory, base, fetching>>
    BY DEF Interrupt
  <1>3. /\ venue' = venue /\ mode' = mode /\ clock' = clock /\ tape' = tape /\ file' = file
        /\ inTrades' = inTrades /\ mem' = mem /\ base' = base
        /\ fetched' = fetched /\ dates' = dates /\ cursor' = cursor
    BY <1>2 DEF exchange, memory, fetching
  <1>4. request \in Requests(Len(tape), clock) /\ LastMoment \in Nat
    BY <1>1, RequestFacts, TapeFacts
  <1>5. /\ request' \in Requests(Len(tape), clock)
        /\ request'.since = request.since /\ request'.asked = request.asked
        /\ request'.until = 0
    BY <1>2, <1>4 DEF Requests
  <1>6. TradesTyped'
    <2>1. file' \in Seq(Ids) /\ mem' \in Seq(Ids) /\ base' \in Seq(Ids) /\ fetched' \in Seq(Ids)
      BY <1>1, <1>3, ListFacts
    <2>2. /\ inTrades' \in BOOLEAN /\ (mode = "download" => IsInjective(file'))
          /\ cursor' \in Ids \union {NoId, 1} /\ dates' \subseteq Nat
      BY <1>1, <1>3 DEF TradesTyped
    <2>3. step' \in Busy \union {"idle"} /\ UNCHANGED exchange  BY <1>2 DEF Busy
    <2> QED  BY <1>1, <1>5, <2>1, <2>2, <2>3, TypedStep
  <1>7. Ids' = Ids /\ Got' = Got  BY <1>3 DEF Ids, Got
  <1>8. Begun'  BY <1>1, <1>3, <1>5, <1>7 DEF Begun
  <1>9. WriteOK'
    <2>1. PICK time : time = tape  OBVIOUS
    <2>2. \A k \in Ids : time[k] \in Nat /\ time[k] >= 1  BY <1>1, <2>1, TapeFacts
    <2>3. \A k \in Ids : ~(time[k] < 0)  BY <2>2
    <2>4. ASSUME base # <<>>, ~Late, ~CutBehind', fetched # <<>>, Contiguous(ToSet(base))
          PROVE  Touches
      <3>1. Head(base) \in Ids  BY <1>1, <2>4, ListFacts
      <3>2. 0 < time[Head(base)]  BY <2>2, <3>1
      <3>3. ~(request.since <= time[Head(base)])
        BY <1>3, <1>5, <2>1, <2>4, <3>2 DEF CutBehind
      <3> QED  BY <1>1, <2>1, <2>4, <3>3 DEF PagesOK, Nears
    <2>5. (Late' <=> Late) /\ (Touches' <=> Touches)
      BY <1>3, <1>5, <1>7 DEF Late, Touches
    <2>6. Contiguous(Got')  BY <1>1, <1>7 DEF PagesOK
    <2>7. \A k \in Ids' : ~(tape'[k] < request'.until)  BY <1>3, <1>5, <1>7, <2>1, <2>3
    <2> QED  BY <1>3, <2>4, <2>5, <2>6, <2>7 DEF WriteOK
  <1> QED  BY <1>2, <1>6, <1>8, <1>9 DEF TInv

\* What a download keeps of what it has.
LEMMA JoinedIs ==
  ASSUME TradesTyped
  PROVE  /\ JoinedTrades \in Seq(Ids) /\ (mode = "download" => IsInjective(JoinedTrades))
         /\ \/ ToSet(JoinedTrades) = ToSet(base) \union Got
            \/ ToSet(JoinedTrades) = {k \in ToSet(base) \union Got : tape[k] >= request.asked}
  <1>1. base \in Seq(Ids) /\ fetched \in Seq(Ids)  BY ListFacts
  <1>2. PICK u : u = base \o fetched  OBVIOUS
  <1>3. u \in Seq(Ids) /\ ToSet(u) = ToSet(base) \union Got  BY <1>1, <1>2, ConcatSet DEF Got
  <1>4. PICK v : v = RemoveDuplicates(u)  OBVIOUS
  <1>5. v \in Seq(Ids) /\ ToSet(v) = ToSet(u) /\ IsInjective(v)  BY <1>3, <1>4, DuplicatesRemoved
  <1>6. PICK w : w = NotBefore(request.asked, v)  OBVIOUS
  <1>7. w \in Seq(Ids) /\ ToSet(w) = {k \in ToSet(v) : tape[k] >= request.asked}
    <2>1. PICK I : I = {i \in DOMAIN v : tape[v[i]] >= request.asked}  OBVIOUS
    <2>2. DOMAIN v = 1..Len(v)  BY <1>5
    <2>3. I \in SUBSET (1..Len(v))  BY <2>1, <2>2
    <2>4. w = Subsequence(v, I)  BY <1>6, <2>1 DEF NotBefore
    <2>5. w \in Seq(Ids) /\ ToSet(w) = {v[i] : i \in I}  BY <1>5, <2>3, <2>4, SubsequenceSet
    <2>6. {v[i] : i \in I} = {k \in ToSet(v) : tape[k] >= request.asked}
      BY <2>1 DEF ToSet
    <2> QED  BY <2>5, <2>6
  <1>8. JoinedTrades = IF mode = "download" THEN v ELSE IF ~inTrades THEN u ELSE w
    BY <1>2, <1>4, <1>6 DEF JoinedTrades
  <1> QED  BY <1>3, <1>5, <1>7, <1>8

LEMMA OpenFileStep == TInv /\ OpenFile => TInv'
  <1> SUFFICES ASSUME TInv, OpenFile PROVE TInv'
    OBVIOUS
  <1>1. TradesTyped  BY DEF TInv
  <1>2. UNCHANGED exchange /\ file' = file  BY DEF OpenFile
  <1>3. file \in Seq(Ids) /\ mem \in Seq(Ids) /\ fetched \in Seq(Ids)  BY <1>1, ListFacts
  <1>4. (mode = "download" => IsInjective(file)) /\ inTrades \in BOOLEAN
    BY <1>1 DEF TradesTyped
  <1>5. CASE mode = "live" /\ fetched = <<>>
    <2>1. Ended /\ mem' = mem /\ inTrades' = inTrades  BY <1>5 DEF OpenFile, memory
    <2> QED  BY <1>2, <1>3, <1>4, <2>1, EndedStep
  <1>6. CASE ~(mode = "live" /\ fetched = <<>>)
    <2>1. PICK kept : kept = JoinedTrades  OBVIOUS
    <2>2. /\ step' = "writing" /\ base' = kept /\ inTrades' = (mode = "live")
          /\ mem' = (IF mode = "live" THEN kept ELSE mem)
          /\ request' = request /\ fetched' = fetched /\ dates' = dates /\ cursor' = cursor
      BY <1>6, <2>1 DEF OpenFile, fetching
    <2>3. kept \in Seq(Ids) /\ (mode = "download" => IsInjective(kept))
      BY <1>1, <2>1, JoinedIs
    <2>4. TradesTyped'
      <3>1. mem' \in Seq(Ids) /\ inTrades' \in BOOLEAN  BY <1>3, <2>2, <2>3
      <3>2. step' \in Busy \union {"idle"}  BY <2>2 DEF Busy
      <3>3. cursor' \in Ids \union {NoId, 1} /\ dates' \subseteq Nat
        BY <1>1, <2>2 DEF TradesTyped
      <3>4. request' \in Requests(Len(tape), clock)  BY <1>1, <2>2, RequestFacts
      <3>5. base' \in Seq(Ids) /\ fetched' \in Seq(Ids) /\ file' \in Seq(Ids)
        BY <1>2, <1>3, <2>2, <2>3
      <3>6. mode = "download" => IsInjective(file')  BY <1>2, <1>4
      <3> QED  BY <1>1, <1>2, <3>1, <3>2, <3>3, <3>4, <3>5, <3>6, TypedStep
    <2>5. WritingOK'  BY <1>2, <2>2, <2>3 DEF WritingOK, exchange
    <2> QED  BY <2>2, <2>4, <2>5 DEF TInv
  <1> QED  BY <1>5, <1>6

LEMMA TradesInitTInv == TradesInit => TInv
  <1> SUFFICES ASSUME TradesInit PROVE TInv
    OBVIOUS
  <1>1. /\ venue \in Venues /\ mode \in Modes /\ clock = 1 /\ tape = <<>>
        /\ file = <<>> /\ inTrades = FALSE /\ mem = <<>> /\ step = "idle" /\ request = NoRequest
        /\ base = <<>> /\ fetched = <<>> /\ dates = {} /\ cursor = NoId
    BY DEF TradesInit
  <1>2. LastMoment \in Nat \ {0}  BY MarketAssumption
  <1>3. Len(tape) = 0 /\ Ids = {}  BY <1>1 DEF Ids
  <1>4. clock \in 1..LastMoment /\ tape \in Seq(1..clock)  BY <1>1, <1>2
  <1>5. request \in [asked : 0..(LastMoment + 1), since : 0..LastMoment, until : 0..LastMoment,
                     known : 0..Len(tape), begun : 0..clock]
    BY <1>1, <1>2, <1>3 DEF NoRequest
  <1>6. \A s \in {file, mem, base, fetched} : s \in Seq(Ids)
    <2>1. <<>> \in Seq(Ids)  OBVIOUS
    <2> QED  BY <1>1, <2>1
  <1>7. IsInjective(file)  BY <1>1 DEF IsInjective
  <1>8. TradesTyped  BY <1>1, <1>3, <1>4, <1>5, <1>6, <1>7 DEF TradesTyped
  <1>9. IdleOK  BY <1>1 DEF IdleOK
  <1> QED  BY <1>1, <1>8, <1>9 DEF TInv

LEMMA TradesStutter == TInv /\ UNCHANGED tradeVars => TInv'
  <1> SUFFICES ASSUME TInv, UNCHANGED tradeVars PROVE TInv'
    OBVIOUS
  <1>1. /\ venue' = venue /\ mode' = mode /\ clock' = clock /\ tape' = tape /\ file' = file
        /\ inTrades' = inTrades /\ mem' = mem /\ step' = step /\ request' = request
        /\ base' = base /\ fetched' = fetched /\ dates' = dates /\ cursor' = cursor
    BY DEF tradeVars, exchange, memory, fetching
  <1>2. TradesTyped'
    <2>1. TradesTyped  BY DEF TInv
    <2> QED  BY <1>1, <2>1 DEF TradesTyped, Ids
  <1>3. Ids' = Ids /\ Got' = Got /\ FirstId' = FirstId  BY <1>1 DEF Ids, Got, FirstId
  <1>4. (Late' <=> Late) /\ (CutBehind' <=> CutBehind) /\ (Touches' <=> Touches)
        /\ (Overlap' <=> Overlap)
    BY <1>1, <1>3 DEF Late, CutBehind, Touches, Overlap
  <1>5. \A k : Sought(k)' <=> Sought(k)  BY <1>1 DEF Sought
  <1>6. \A n : ReadTo(n)' <=> ReadTo(n)  BY <1>1, <1>3 DEF ReadTo
  <1>7. (Begun => Begun') /\ (IdleOK => IdleOK') /\ (ListingOK => ListingOK')
        /\ (ArchiveOK => ArchiveOK') /\ (StartupOK => StartupOK') /\ (WritingOK => WritingOK')
    BY <1>1, <1>3, <1>4 DEF Begun, IdleOK, ListingOK, ArchiveOK, StartupOK, WritingOK
  <1>8. DaysOK => DaysOK'  BY <1>1, <1>3, <1>6 DEF DaysOK
  <1>9. PagesOK => PagesOK'
    <2>1. Nears => Nears'  BY <1>1, <1>3, <1>4 DEF Nears
    <2> QED  BY <1>1, <1>3, <1>4, <1>5, <2>1 DEF PagesOK
  <1>10. WriteOK => WriteOK'  BY <1>1, <1>3, <1>4, <1>5 DEF WriteOK
  <1> QED  BY <1>1, <1>2, <1>7, <1>8, <1>9, <1>10 DEF TInv

LEMMA TradesNextTInv == TInv /\ [TradesNext]_tradeVars => TInv'
  <1> SUFFICES ASSUME TInv, [TradesNext]_tradeVars PROVE TInv'
    OBVIOUS
  <1>1. CASE ClockTick \/ NewTrade  BY <1>1, ClockTickStep, NewTradeStep
  <1>2. CASE Download \/ Refresh  BY <1>2, DownloadStep, RefreshStep
  <1>3. CASE Listing \/ OpenArchive  BY <1>3, ListingStep, OpenArchiveStep
  <1>4. CASE ReadDay \/ MissingDay \/ ArchiveRead
    BY <1>4, ReadDayStep, MissingDayStep, ArchiveReadStep
  <1>5. CASE Startup \/ FetchTrades \/ Interrupt
    BY <1>5, StartupStep, FetchTradesStep, InterruptStep
  <1>6. CASE OpenFile  BY <1>6, OpenFileStep
  <1>7. CASE Fail \/ NotListed \/ FileWritten \/ Killed  BY <1>7, TradesEndSteps
  <1>8. CASE UNCHANGED tradeVars  BY <1>8, TradesStutter
  <1> QED
    BY <1>1, <1>2, <1>3, <1>4, <1>5, <1>6, <1>7, <1>8 DEF TradesNext, Steps

\* Whatever the market does and whenever a download is cut short, every
\* variable holds a value of its type: only trades that happened are held, and
\* the file that download-data keeps holds each of them once.
THEOREM TradesAreTyped == TradesSpec => []TradesTyped
  <1>1. TInv => TradesTyped  BY DEF TInv
  <1> QED  BY TradesInitTInv, TradesNextTInv, <1>1, PTL DEF TradesSpec

\* The only step from "write" to "writing".
LEMMA WriteIsOpenFile ==
  ASSUME TradesNext, step = "write", step' = "writing"
  PROVE  OpenFile
  <1>1. CASE ClockTick \/ NewTrade  BY <1>1 DEF ClockTick, NewTrade
  <1>2. CASE Download \/ Refresh  BY <1>2 DEF Download, Refresh
  <1>3. CASE Listing \/ OpenArchive \/ ReadDay \/ MissingDay \/ ArchiveRead
    BY <1>3 DEF Listing, OpenArchive, ReadDay, MissingDay, ArchiveRead
  <1>4. CASE Startup \/ FetchTrades \/ Interrupt  BY <1>4 DEF Startup, FetchTrades, Interrupt
  <1>5. CASE Fail \/ NotListed \/ FileWritten \/ Killed
    BY <1>5 DEF Fail, NotListed, FileWritten, Killed, Ended
  <1> QED  BY <1>1, <1>2, <1>3, <1>4, <1>5 DEF TradesNext, Steps

\* What is written: both parts, without the trades a bot ages out.
LEMMA WrittenIs ==
  ASSUME TInv, TradesNext, step = "write", step' = "writing"
  PROVE  /\ TradesTyped /\ Begun /\ WriteOK
         /\ \/ ToSet(base') = ToSet(base) \union Got
            \/ ToSet(base') = {k \in ToSet(base) \union Got : tape[k] >= request.asked}
  <1>1. TradesTyped /\ Begun /\ WriteOK  BY DEF TInv
  <1>2. OpenFile  BY WriteIsOpenFile
  <1>3. base' = JoinedTrades  BY <1>2 DEF OpenFile, Ended
  <1> QED  BY <1>1, <1>3, JoinedIs

LEMMA NoGapsStep ==
  ASSUME TInv, TradesNext, step = "write", step' = "writing", Contiguous(ToSet(base)),
         ~Late, ~CutBehind
  PROVE  Contiguous(ToSet(base'))
  <1>1. /\ TradesTyped /\ WriteOK
        /\ \/ ToSet(base') = ToSet(base) \union Got
           \/ ToSet(base') = {k \in ToSet(base) \union Got : tape[k] >= request.asked}
    BY WrittenIs
  <1>2. PICK U : U = ToSet(base) \union Got  OBVIOUS
  <1>3. /\ ToSet(base) \subseteq Ids /\ Got \subseteq Ids /\ Ids \subseteq Nat
        /\ (base = <<>> <=> ToSet(base) = {}) /\ (fetched = <<>> <=> Got = {})
    <2>1. Ids \subseteq Nat  BY <1>1, TapeFacts
    <2> QED  BY <1>1, <2>1, ListFacts
  <1>4. Contiguous(U)
    <2>1. Got # {} /\ ToSet(base) # {} => \E a \in Got, b \in ToSet(base) : a \in b - 1..b + 1
      BY <1>1, <1>3 DEF WriteOK, Touches
    <2>2. Contiguous(Got)  BY <1>1 DEF WriteOK
    <2>3. Got \in SUBSET Int /\ ToSet(base) \in SUBSET Int
      <3>1. Ids \subseteq Int  BY <1>3
      <3> QED  BY <1>3, <3>1
    <2>4. Contiguous(Got \union ToSet(base))  BY <2>1, <2>2, <2>3, TouchingIsContiguous
    <2>5. U = Got \union ToSet(base)  BY <1>2
    <2> QED  BY <2>4, <2>5
  <1>5. CASE ToSet(base') = U  BY <1>4, <1>5
  <1>6. CASE ToSet(base') = {k \in U : tape[k] >= request.asked}
    <2> SUFFICES ASSUME NEW i \in ToSet(base'), NEW j \in ToSet(base'), NEW x \in i..j
                 PROVE  x \in ToSet(base')
      BY DEF Contiguous
    <2>1. i \in U /\ j \in U /\ tape[i] >= request.asked  BY <1>6
    <2>2. x \in U  BY <1>4, <2>1 DEF Contiguous
    <2>3. i \in Ids /\ x \in Ids /\ i <= x  BY <1>2, <1>3, <2>1, <2>2
    <2>4. tape[i] <= tape[x] /\ tape[i] \in Nat /\ tape[x] \in Nat  BY <1>1, <2>3, TapeFacts
    <2>5. request.asked \in Nat  BY <1>1, RequestFacts
    <2> QED  BY <1>6, <2>1, <2>2, <2>4, <2>5
  <1> QED  BY <1>1, <1>2, <1>5, <1>6

\* Trades that follow each other on the exchange do so in what a download
\* stores: archives, pages and what was there before join without a hole,
\* whichever of them is cut short.
THEOREM StoredWithoutGaps == TradesSpec => NoGaps
  <1>1. TInv /\ [TradesNext]_tradeVars =>
          [step = "write" /\ step' = "writing" /\ Contiguous(ToSet(base)) /\ ~Late /\ ~CutBehind
             => Contiguous(ToSet(base'))]_tradeVars
    BY NoGapsStep
  <1> QED  BY TradesInitTInv, TradesNextTInv, <1>1, PTL DEF TradesSpec, NoGaps

LEMMA CompleteStep ==
  ASSUME TInv, TradesNext, step = "write", step' = "writing", Contiguous(ToSet(base)),
         NEW k \in 1..request.known, request.asked <= tape[k], tape[k] < request.until,
         base # <<>> => k >= Head(base)
  PROVE  k \in ToSet(base')
  <1>1. /\ TradesTyped /\ Begun /\ WriteOK
        /\ \/ ToSet(base') = ToSet(base) \union Got
           \/ ToSet(base') = {i \in ToSet(base) \union Got : tape[i] >= request.asked}
    BY WrittenIs
  <1>2. PICK n \in Nat : Ids = 1..n /\ n = Len(tape)  BY <1>1, TapeFacts
  <1>3. k \in Ids /\ k \in Nat
    <2>1. request.known \in 0..n  BY <1>1, <1>2, RequestFacts
    <2> QED  BY <1>2, <2>1
  <1>4. tape[k] \in Nat /\ request.asked \in Nat /\ request.since \in Nat
    BY <1>1, <1>3, TapeFacts, RequestFacts
  <1>5. SUFFICES ASSUME k \notin ToSet(base) PROVE k \in Got
    BY <1>1, <1>4
  <1>6. base # <<>> => /\ Head(base) \in ToSet(base) /\ Last(base) \in ToSet(base)
                       /\ Head(base) \in Ids /\ Last(base) \in Ids
    BY <1>1, ListFacts
  <1>7. base # <<>> => k > Last(base)
    <2> SUFFICES ASSUME base # <<>>, ~(k > Last(base)) PROVE FALSE
      OBVIOUS
    <2>1. PICK h \in ToSet(base), l \in ToSet(base) :
             h = Head(base) /\ l = Last(base) /\ h \in Nat /\ l \in Nat
      BY <1>2, <1>6
    <2>2. k \in h..l  BY <1>3, <2>1
    <2>3. k \in ToSet(base)  BY <2>1, <2>2 DEF Contiguous
    <2> QED  BY <1>5, <2>3
  <1>8. tape[k] >= request.since
    <2>1. CASE request.since <= request.asked  BY <1>4, <2>1
    <2>2. CASE Ids # {} /\ request.since = tape[1]
      <3>1. 1 \in Ids /\ 1 <= k  BY <1>2, <1>3
      <3>2. tape[1] <= tape[k]  BY <1>1, <1>3, <3>1, TapeFacts
      <3> QED  BY <1>4, <2>2, <3>2
    <2>3. CASE base # <<>> /\ request.since <= tape[Last(base)]
      <3>1. PICK l \in Ids : l = Last(base) /\ l <= k
        BY <1>2, <1>3, <1>6, <1>7, <2>3
      <3>2. tape[l] <= tape[k] /\ tape[l] \in Nat  BY <1>1, <1>3, <3>1, TapeFacts
      <3> QED  BY <1>4, <2>3, <3>1, <3>2
    <2> QED  BY <1>1, <2>1, <2>2, <2>3 DEF Begun
  <1>9. Sought(k)  BY <1>7, <1>8 DEF Sought
  <1> QED  BY <1>1, <1>3, <1>9 DEF WriteOK

\* A download that was neither cut short nor failed has all the trades of the
\* time it was asked for that the market had when it began, from the first
\* stored one on.
THEOREM DownloadsAreComplete == TradesSpec => Complete
  <1>1. TInv /\ [TradesNext]_tradeVars =>
          [step = "write" /\ step' = "writing" /\ Contiguous(ToSet(base))
             => \A k \in 1..request.known :
                  /\ request.asked <= tape[k] /\ tape[k] < request.until
                  /\ base # <<>> => k >= Head(base)
                  => k \in ToSet(base')]_tradeVars
    BY CompleteStep
  <1> QED  BY TradesInitTInv, TradesNextTInv, <1>1, PTL DEF TradesSpec, Complete
=============================================================================
