--------------------------- MODULE CandleArchive ---------------------------
(***************************************************************************)
(* What the stored candles of one pair promise to the backtests that read  *)
(* them, apart from how download-data fetches and writes them.  An archive *)
(* holds settled candles, which no later download gives up; a download     *)
(* makes no hole between them but of the candles that closed while it was  *)
(* being answered, and of one candle in front of those held before; the    *)
(* newest candle may be given up to be fetched again; everything is given  *)
(* up only at once, by --erase or by a crash during a write.               *)
(* CandleStore implements this, and shows it with this module's Spec as a  *)
(* property.                                                               *)
(***************************************************************************)
EXTENDS Integers, FiniteSetsExt

CONSTANT Horizon            \* the last candle of the exchange

VARIABLES
  clock,                    \* the candle in progress
  untraded,                 \* candles in which nobody trades: never listed
  settled,                  \* the settled candles that are held
  asked                     \* the candle in progress at the first answer

vars == <<clock, untraded, settled, asked>>

None == -1

Init == /\ clock = 0 /\ untraded \in SUBSET (0..Horizon)
        /\ settled = {} /\ asked = None

Tick == /\ clock < Horizon /\ clock' = clock + 1
        /\ UNCHANGED <<untraded, settled, asked>>

\* The first answer of a download.
Ask == /\ asked = None /\ asked' = clock
       /\ UNCHANGED <<clock, untraded, settled>>

\* The traded candles missing between two of S.
Holes(S) == {t \in (0..Horizon) \ (S \union untraded) : \E a, b \in S : a < t /\ t < b}

\* The candles that had not closed at the first answer.
Lost == IF asked = None THEN {} ELSE asked..(clock - 2)

InFront == {t \in 0..Horizon : settled # {} /\ \A s \in settled : t < s}

Download ==
  /\ settled' \in SUBSET ((0..(clock - 1)) \ untraded)
  /\ settled \ {Max(settled \union {0})} \subseteq settled'
  /\ \E skipped \in {{}} \union {{t} : t \in InFront} :
       Holes(settled') \subseteq Holes(settled) \union Lost \union skipped
  /\ asked' = None /\ UNCHANGED <<clock, untraded>>

\* A download that fails changes nothing.
GiveUp == asked' = None /\ UNCHANGED <<clock, untraded, settled>>

Wipe == settled' = {} /\ asked' = None /\ UNCHANGED <<clock, untraded>>

Next == Tick \/ Ask \/ Download \/ GiveUp \/ Wipe

Spec == Init /\ [][Next]_vars
=============================================================================
