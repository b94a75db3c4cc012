------------------------------- MODULE Candles -------------------------------
(***************************************************************************)
(* Candles of one symbol and interval: Kite's answers, the gap detection   *)
(* and patching of data/historical.py, and the rows of data/store.py.      *)
(*                                                                         *)
(* Time is counted in bars; the candles of a symbol are a function of some *)
(* of them.  The candle of the bar still running is in Kite's answers too, *)
(* and not final.                                                          *)
(***************************************************************************)
EXTENDS Integers, FiniteSets, FiniteSetsExt

CONSTANTS Times,
          BarMinutes,       \* from one bar to the next
          IntervalMinutes,  \* INTERVAL_MINUTES of the interval
          Lost,             \* the bars an answer of Kite may lack
          Quote             \* [symbol -> [bar -> [close, volume]]] (external)

ASSUME TimesAssumption == Times \subseteq Nat /\ IsFiniteSet(Times) /\ Lost \subseteq Times

NoBars == [t \in {} |-> 0]

Within(bars, from, to) == [t \in {u \in DOMAIN bars : from <= u /\ u <= to} |-> bars[t]]

\* Kite's historical data at a moment, and what it may answer of them.
Traded(s, now) ==
  [t \in {u \in Times : u <= now} |->
     [close |-> Quote[s][t].close, volume |-> Quote[s][t].volume, final |-> t < now]]

Answers(s, from, to, now) ==
  LET rows == Within(Traded(s, now), from, to)
  IN  {[t \in DOMAIN rows \ gone |-> rows[t]] : gone \in SUBSET Lost}

\* detect_gaps: neighbours more than one and a half intervals apart.
Gaps(bars) ==
  {g \in (DOMAIN bars) \X (DOMAIN bars) :
     /\ g[1] < g[2]
     /\ \A v \in DOMAIN bars : v <= g[1] \/ g[2] <= v
     /\ 2 * (g[2] - g[1]) * BarMinutes > 3 * IntervalMinutes}

FirstGap(gaps) == CHOOSE g \in gaps : \A h \in gaps : g[1] <= h[1]

\* drop_duplicates keeps the row that was there.
Patched(bars, patch) ==
  [t \in DOMAIN bars \cup DOMAIN patch |-> IF t \in DOMAIN bars THEN bars[t] ELSE patch[t]]

\* Mutant: ON CONFLICT DO NOTHING.
UpsertedNew(stored, bars) == Patched(stored, bars)

\* upsert_bars: ON CONFLICT DO UPDATE.
Upserted(stored, bars) ==
  [t \in DOMAIN stored \cup DOMAIN bars |-> IF t \in DOMAIN bars THEN bars[t] ELSE stored[t]]

\* get_bars
GetBars(stored, from, to) == Within(stored, from, to)

\* bars.tail(n); bars_back of 0 keeps every bar.
Newest(bars, n) ==
  [t \in {u \in DOMAIN bars :
            n = 0 \/ Cardinality({v \in DOMAIN bars : v > u}) < n} |-> bars[t]]

\* latest_timestamp
Latest(bars) == Max(DOMAIN bars)
=============================================================================
