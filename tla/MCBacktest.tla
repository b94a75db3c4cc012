----------------------------- MODULE MCBacktest -----------------------------
(* Backtest for TLC: one stop and one target per side, and bars that stay  *)
(* between them, reach one, reach both, and open beyond either.            *)
EXTENDS Backtest
MCMonths == [i \in 1 .. NumBars |-> 1 + (i - 1) \div 2]
MCLevels == {2, 4}
MCRow(o, h, l) == [open |-> o, high |-> h, low |-> l]
MCRows == {MCRow(3, 3, 3), MCRow(3, 4, 3), MCRow(3, 4, 2), MCRow(1, 1, 1), MCRow(5, 5, 5)}
=============================================================================
