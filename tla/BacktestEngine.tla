--------------------------- MODULE BacktestEngine ---------------------------
(***************************************************************************)
(* The bar-walk backtester, backtest/engine.py, with the transaction costs *)
(* of backtest/costs.py.  One step is one pass of the loop of run.         *)
(*                                                                         *)
(* Costs are whole percentages, so prices of fills are in hundredths of a  *)
(* price and profits in hundredths of those: nothing is rounded, where the *)
(* code computes in floats.  Signals are what core/signal.py accepts: the  *)
(* entry price between stop and target is there, but the engine never      *)
(* looks at it.                                                            *)
(***************************************************************************)
EXTENDS Integers, Sequences

CONSTANTS NumBars,
          Rows,           \* bars the frame may hold
          Levels,         \* stops and targets the strategy may name
          Quantities,     \* quantities a signal may name
          DefaultQty,     \* the engine's own quantity
          CommissionPct, SlippagePct,
          None

VARIABLES rows,      \* the bars walked so far
          said,      \* the strategy's first signal at each of them, or None
          position,  \* the open position, or None
          pending,   \* the signal waiting for the next open, or None
          closed,    \* closed_trades
          realized,  \* realized_pnl
          equity     \* equity_curve

vars == <<rows, said, position, pending, closed, realized, equity>>

Sides == {"LONG", "SHORT"}
Row == {r \in [open : Nat, high : Nat, low : Nat] : r.low <= r.open /\ r.open <= r.high}
\* validate_direction: some entry price lies between the two levels.
Signals ==
  {s \in [side : Sides, stop : Levels, target : Levels, qty : Quantities \cup {None}] :
     IF s.side = "LONG" THEN s.stop < s.target ELSE s.target < s.stop}

ASSUME BarsAssumption == NumBars \in Nat
ASSUME RowsAssumption == Rows \subseteq Row
ASSUME LevelsAssumption == Levels \subseteq Nat
ASSUME QtyAssumption == Quantities \subseteq Nat \ {0} /\ DefaultQty \in Nat \ {0}
ASSUME CostAssumption == CommissionPct \in 0 .. 10 /\ SlippagePct \in 0 .. 10

\* What a position and a pending entry are.
Positions ==
  [side : Sides, entry : Nat, stop : Levels, target : Levels,
   qty : Nat \ {0}, entryBar : 1 .. NumBars]
Pendings == [signal : Signals, bar : 1 .. NumBars - 1]

ASSUME NoneAssumption ==
  None \notin Quantities /\ None \notin Signals /\ None \notin Positions /\ None \notin Pendings

Bar == Len(rows)

-----------------------------------------------------------------------------
(* Costs                                                                   *)

EntryFill(side, price) ==
  IF side = "LONG" THEN price * (100 + SlippagePct) ELSE price * (100 - SlippagePct)

ExitFill(side, price) ==
  IF side = "LONG" THEN price * (100 - SlippagePct) ELSE price * (100 + SlippagePct)

Commission(entry, exit, qty) == CommissionPct * (entry + exit) * qty

-----------------------------------------------------------------------------
(* Positions                                                               *)

\* Mutant: the position counts from the bar of its signal.
OpenedAtSignal(signal, open, bar) ==
  [side |-> signal.side, entry |-> EntryFill(signal.side, open),
   stop |-> signal.stop, target |-> signal.target,
   qty |-> IF signal.qty = None THEN DefaultQty ELSE signal.qty,
   entryBar |-> bar - 1]

\* _fill_pending, its new position
Opened(signal, open, bar) ==
  [side |-> signal.side, entry |-> EntryFill(signal.side, open),
   stop |-> signal.stop, target |-> signal.target,
   qty |-> IF signal.qty = None THEN DefaultQty ELSE signal.qty,
   entryBar |-> bar]

\* _close_position
Closed(p, price, bar, reason) ==
  LET exit == ExitFill(p.side, price)
      gross == IF p.side = "LONG" THEN (exit - p.entry) * p.qty ELSE (p.entry - exit) * p.qty
      fees == Commission(p.entry, exit, p.qty)
  IN  [side |-> p.side, entry |-> p.entry, exit |-> exit, qty |-> p.qty,
       entryBar |-> p.entryBar, exitBar |-> bar, reason |-> reason,
       pnl |-> 100 * gross - fees, fees |-> fees]

StopHit(p, row) == IF p.side = "LONG" THEN row.low <= p.stop ELSE row.high >= p.stop
TargetHit(p, row) == IF p.side = "LONG" THEN row.high >= p.target ELSE row.low <= p.target

\* Mutant: the target is looked at first.
ExitsTargetFirst(p, row, bar) ==
  IF p = None THEN <<>>
  ELSE IF TargetHit(p, row) THEN <<Closed(p, p.target, bar, "target")>>
  ELSE IF StopHit(p, row) THEN <<Closed(p, p.stop, bar, "stop_loss")>>
  ELSE <<>>

\* _check_exit: the trade that leaves position p within a bar, if any.
Exits(p, row, bar) ==
  IF p = None THEN <<>>
  ELSE IF StopHit(p, row) THEN <<Closed(p, p.stop, bar, "stop_loss")>>
  ELSE IF TargetHit(p, row) THEN <<Closed(p, p.target, bar, "target")>>
  ELSE <<>>

\* A pending signal is filled on a later bar than its own.
Due(bar) == pending # None /\ pending.bar < bar

\* _fill_pending: the trade a due signal reverses out of, and what is held then.
Reverses(row, bar) ==
  IF Due(bar) /\ position # None
    THEN <<Closed(position, row.open, bar, "signal_reverse")>> ELSE <<>>

Held(row, bar) == IF Due(bar) THEN Opened(pending.signal, row.open, bar) ELSE position

\* Mutant: the reversing trade is left out of the realized profit.
BookedExitsOnly(reverses, exits) == IF exits = <<>> THEN 0 ELSE exits[1].pnl

Booked(reverses, exits) ==
  (IF reverses = <<>> THEN 0 ELSE reverses[1].pnl) + (IF exits = <<>> THEN 0 ELSE exits[1].pnl)

\* A signal of the last bar is dropped.
Pends(signal, bar) == signal # None /\ bar < NumBars

-----------------------------------------------------------------------------
Init ==
  /\ rows = <<>> /\ said = <<>>
  /\ position = None /\ pending = None
  /\ closed = <<>> /\ realized = 0 /\ equity = <<>>

\* One bar: fill at the open, leave within the bar, ask the strategy.  A
\* strategy that raises says nothing.
Walk(row, signal) ==
  LET bar == Bar + 1
      reverses == Reverses(row, bar)
      exits == Exits(Held(row, bar), row, bar)
  IN  /\ closed' = closed \o reverses \o exits
      /\ position' = IF exits = <<>> THEN Held(row, bar) ELSE None
      /\ realized' = realized + Booked(reverses, exits)
      /\ equity' = Append(equity, realized')
      /\ pending' = IF Pends(signal, bar) THEN [signal |-> signal, bar |-> bar]
                    ELSE IF Due(bar) THEN None ELSE pending
      /\ rows' = Append(rows, row)
      /\ said' = Append(said, signal)

Next ==
  /\ Bar < NumBars
  /\ \E row \in Rows, signal \in Signals \cup {None} : Walk(row, signal)

Spec == Init /\ [][Next]_vars

-----------------------------------------------------------------------------
(* Properties                                                              *)

Trades ==
  [side : Sides, entry : Nat, exit : Nat, qty : Nat \ {0},
   entryBar : 1 .. NumBars, exitBar : 1 .. NumBars,
   reason : {"stop_loss", "target", "signal_reverse"}, pnl : Int, fees : Nat]

\* Types; what is pending was said by the bar just walked, and not the last one.
TypeOK ==
  /\ rows \in Seq(Rows) /\ Len(rows) <= NumBars
  /\ said \in Seq(Signals \cup {None}) /\ Len(said) = Len(rows)
  /\ position \in Positions \cup {None}
  /\ pending \in {p \in Pendings : p.bar = Bar} \cup {None}
  /\ closed \in Seq(Trades)
  /\ realized \in Int
  /\ equity \in Seq(Int) /\ Len(equity) = Len(rows)

\* A trade or position entered at a bar may follow the trades s: entered after
\* the last of them is left or, if that one was reversed, at the same open.
Follows(s, entryBar) ==
  s # <<>> => IF s[Len(s)].reason = "signal_reverse" THEN s[Len(s)].exitBar = entryBar
              ELSE s[Len(s)].exitBar < entryBar

InSequence(s) ==
  /\ \A i \in 1 .. Len(s) : s[i].entryBar <= s[i].exitBar /\ s[i].exitBar <= Bar
  /\ \A i \in 1 .. Len(s) - 1 :
       IF s[i].reason = "signal_reverse" THEN s[i].exitBar = s[i + 1].entryBar
       ELSE s[i].exitBar < s[i + 1].entryBar

\* One position at a time, and no hindsight: every trade is entered no later
\* than it is left, and each follows the one before it; so does the open
\* position, and a reversed trade always has something that follows it.
TradesInSequence ==
  /\ InSequence(closed)
  /\ IF position # None
       THEN position.entryBar <= Bar /\ Follows(closed, position.entryBar)
       ELSE closed # <<>> => closed[Len(closed)].reason # "signal_reverse"
=============================================================================
