SPECIFICATION Spec
CONSTANTS
  sweepA = sweepA
  sweepB = sweepB
  Sweeps <- MCSweeps
  NumSymbols <- MCNumSymbols
  CellsPerSymbol <- MCCellsPerSymbol
  Requests = {client1}
  MaxSweepCells <- MCMaxSweepCells
  Nobody = Nobody
  MaxCrashes = 1
INVARIANTS
  CountsTellResults
  StatusTellsResults
PROPERTIES
  SettledStays
  SweepEnds
