---------------------------- MODULE MCSweepRunner ----------------------------
(* SweepRunner for TLC: two sweeps of different sizes, and the cap of      *)
(* dashboard sweeps.                                                       *)
EXTENDS SweepRunner

CONSTANTS sweepA, sweepB

MCSweeps == {sweepA, sweepB}
MCNumSymbols == [c \in MCSweeps |-> IF c = sweepA THEN 2 ELSE 1]
MCCellsPerSymbol == [c \in MCSweeps |-> 1]
MCMaxSweepCells == 500
=============================================================================
