----------------------------- MODULE SweepProofs -----------------------------
(***************************************************************************)
(* Proofs about SweepRunner: a sweep's row tells its results, and settles  *)
(* for good, for any number of sweeps, clients, symbols and cells.         *)
(***************************************************************************)
EXTENDS SweepRunner, FiniteSetTheorems, TLAPS

-----------------------------------------------------------------------------
(* The invariant                                                           *)

Counts(s, counts) ==
  row[s].completed = counts.completed /\ row[s].failed = counts.failed

Untouched(s) ==
  /\ results[s] = {} /\ worker[s] = "idle"
  /\ tally[s].completed = 0 /\ tally[s].failed = 0

\* What is so at each stage of the task of sweep s.
None(s) == pc[s] = "none" => row[s] = NoRow /\ Untouched(s) /\ next[s] = 1
Queued(s) ==
  pc[s] \in {"inserted", "created", "starting"} =>
    /\ row[s].status = "queued" /\ Counts(s, tally[s])
    /\ Untouched(s) /\ next[s] = 1
Loading(s) ==
  pc[s] = "loading" =>
    /\ row[s].status = "running" /\ Counts(s, tally[s])
    /\ Untouched(s)

\* The cells before next are accounted for, those after it have not been run.
InCells(s) ==
  pc[s] = "cells" =>
    /\ row[s].status = "running" /\ Counts(s, tally[s])
    /\ next[s] \in 1 .. Total(config[s]) + 1
    /\ results[s] \subseteq Cells(config[s])
    /\ tally[s].completed + tally[s].failed = next[s] - 1
    /\ \A c \in results[s] : c <= next[s]
    /\ next[s] \in results[s] <=> worker[s] = "inserted"
    /\ Cardinality(results[s] \ {next[s]}) = tally[s].completed
    /\ worker[s] # "idle" => next[s] \in Cells(config[s]) /\ SymbolOf(config[s], next[s]) \in frames[s]

\* A thread that the task no longer waits for may add one result yet.
Over(s) ==
  pc[s] = "over" =>
    /\ row[s].status # "absent"
    /\ results[s] \subseteq Cells(config[s])
    /\ Cardinality(results[s]) \in row[s].completed .. row[s].completed + 1
    /\ worker[s] = "running" =>
         /\ next[s] \in Cells(config[s]) \ results[s]
         /\ Cardinality(results[s]) = row[s].completed
    /\ row[s].status \in {"done", "failed"} =>
         /\ worker[s] = "idle"
         /\ Cardinality(results[s]) = row[s].completed
         /\ row[s].completed + row[s].failed = Total(config[s])
         /\ (row[s].status = "done") <=> (row[s].completed > 0)

Stage(s) == None(s) /\ Queued(s) /\ Loading(s) /\ InCells(s) /\ Over(s)

Addressed == \A r \in Requests : request[r].at # "idle" => request[r].sweep \in Sweeps

IInv == TypeOK /\ Addressed /\ \A s \in Sweeps : Stage(s)

LEMMA TotalPositive ==
  ASSUME NEW c \in Sweeps
  PROVE  Total(c) \in 1 .. MaxSweepCells /\ Cells(c) \subseteq 1 .. MaxSweepCells
<1>1. NumSymbols[c] \in Nat \ {0} /\ CellsPerSymbol[c] \in Nat \ {0}
  BY CountsAssumption
<1>2. Total(c) \in Nat \ {0}
  BY <1>1 DEF Total
<1>3. Total(c) <= MaxSweepCells
  BY CapAssumption
<1> QED
  BY <1>2, <1>3, CountsAssumption DEF Cells

\* The configuration a task has read is that of some sweep.
LEMMA ConfigSize ==
  ASSUME TypeOK, NEW s \in Sweeps
  PROVE  /\ config[s] \in Sweeps
         /\ Total(config[s]) \in 1 .. MaxSweepCells /\ MaxSweepCells \in Nat
         /\ Cells(config[s]) = 1 .. Total(config[s])
<1>1. config[s] \in Sweeps
  BY DEF TypeOK
<1> QED
  BY <1>1, TotalPositive, CountsAssumption DEF Cells

LEMMA InitIInv == Init => IInv
<1> SUFFICES ASSUME Init PROVE IInv
  OBVIOUS
<1>1. TypeOK
  BY CountsAssumption
  DEF Init, TypeOK, NoRow, Row, Counter, Idle, Asked, Stages, Selected, Taken
<1>2. Addressed
  BY DEF Init, Addressed, Idle
<1>3. ASSUME NEW s \in Sweeps PROVE Stage(s)
  BY DEF Init, Stage, None, Queued, Loading, InCells, Over, Untouched
<1> QED
  BY <1>1, <1>2, <1>3 DEF IInv

\* A sweep's results are finitely many.
LEMMA ResultsFinite ==
  ASSUME NEW S \in SUBSET (1 .. MaxSweepCells)
  PROVE  IsFiniteSet(S) /\ Cardinality(S) \in Nat
<1>1. IsFiniteSet(1 .. MaxSweepCells)
  BY FS_Interval, CountsAssumption
<1> QED
  BY <1>1, FS_Subset, FS_CardinalityType

\* A step of one sweep: the others are where they were.
LEMMA OneSweep ==
  ASSUME IInv, NEW s \in Sweeps, TypeOK', Addressed', Stage(s)',
         \A t \in Sweeps : t # s =>
           /\ row'[t] = row[t] /\ results'[t] = results[t] /\ pc'[t] = pc[t]
           /\ next'[t] = next[t] /\ frames'[t] = frames[t] /\ tally'[t] = tally[t]
           /\ worker'[t] = worker[t] /\ config'[t] = config[t]
  PROVE  IInv'
<1>1. ASSUME NEW t \in Sweeps, t # s PROVE Stage(t)'
  <2>1. /\ Stage(t)
        /\ row'[t] = row[t] /\ results'[t] = results[t] /\ pc'[t] = pc[t]
        /\ next'[t] = next[t] /\ frames'[t] = frames[t] /\ tally'[t] = tally[t]
        /\ worker'[t] = worker[t] /\ config'[t] = config[t]
    BY <1>1 DEF IInv
  <2> QED
    BY <2>1 DEF Stage, None, Queued, Loading, InCells, Over, Untouched, Counts
<1> QED
  BY <1>1 DEF IInv

\* The sweep's row as Write leaves it.
LEMMA Written ==
  ASSUME TypeOK, NEW s \in Sweeps, NEW status \in {"queued", "running"} \cup Terminal,
         NEW counts, counts.completed \in Counter, counts.failed \in Counter,
         Write(s, status, counts)
  PROVE  /\ row' \in [Sweeps -> Row] /\ conn' = Taken
         /\ row'[s].status = status
         /\ row'[s].completed = counts.completed /\ row'[s].failed = counts.failed
         /\ \A t \in Sweeps : t # s => row'[t] = row[t]
<1>1. [status |-> status, completed |-> counts.completed, failed |-> counts.failed] \in Row
  BY DEF Row
<1> QED
  BY <1>1 DEF TypeOK, Write

-----------------------------------------------------------------------------
(* The task                                                                *)

LEMMA CreateStep ==
  ASSUME IInv, NEW s \in Sweeps, Create(s)
  PROVE  IInv'
<1>1. /\ row[s] = NoRow /\ Write(s, "queued", tally[s])
      /\ pc' = [pc EXCEPT ![s] = "inserted"]
      /\ UNCHANGED <<results, config, next, frames, tally, worker, request, crashes>>
  BY DEF Create
<1>2. TypeOK /\ Stage(s)
  BY DEF IInv
<1>3. pc[s] = "none"
  BY <1>1, <1>2 DEF TypeOK, Stages, NoRow, Stage, Queued, Loading, InCells, Over
<1>4. Untouched(s) /\ next[s] = 1
  BY <1>2, <1>3 DEF Stage, None
<1>5. /\ row' \in [Sweeps -> Row] /\ conn' = Taken /\ row'[s].status = "queued"
      /\ row'[s].completed = tally[s].completed /\ row'[s].failed = tally[s].failed
      /\ \A t \in Sweeps : t # s => row'[t] = row[t]
  BY <1>1, <1>2, Written DEF TypeOK
<1>6. /\ pc' \in [Sweeps -> Stages]
      /\ pc'[s] = "inserted" /\ \A t \in Sweeps : t # s => pc'[t] = pc[t]
  BY <1>1, <1>2 DEF TypeOK, Stages
<1>7. TypeOK'
  BY <1>1, <1>2, <1>5, <1>6 DEF TypeOK
<1>8. Addressed'
  BY <1>1 DEF IInv, Addressed
<1>9. Stage(s)'
  BY <1>1, <1>4, <1>5, <1>6
  DEF Stage, None, Queued, Loading, InCells, Over, Untouched, Counts
<1> QED
  BY <1>1, <1>5, <1>6, <1>7, <1>8, <1>9, OneSweep

LEMMA LaunchStep ==
  ASSUME IInv, NEW s \in Sweeps, Launch(s)
  PROVE  IInv'
<1>1. /\ pc[s] = "inserted" /\ pc' = [pc EXCEPT ![s] = "created"]
      /\ UNCHANGED <<row, results, conn, config, next, frames, tally, worker, request, crashes>>
  BY DEF Launch
<1>2. TypeOK /\ Stage(s)
  BY DEF IInv
<1>3. /\ pc' \in [Sweeps -> Stages]
      /\ pc'[s] = "created" /\ \A t \in Sweeps : t # s => pc'[t] = pc[t]
  BY <1>1, <1>2 DEF TypeOK, Stages
<1>4. TypeOK'
  BY <1>1, <1>2, <1>3 DEF TypeOK
<1>5. Addressed'
  BY <1>1 DEF IInv, Addressed
<1>6. Stage(s)'
  BY <1>1, <1>2, <1>3 DEF Stage, None, Queued, Loading, InCells, Over, Untouched, Counts
<1> QED
  BY <1>1, <1>3, <1>4, <1>5, <1>6, OneSweep

LEMMA StartExecuteStep ==
  ASSUME IInv, NEW s \in Sweeps, StartExecute(s)
  PROVE  IInv'
<1>1. /\ pc[s] = "created" /\ pc' = [pc EXCEPT ![s] = "starting"]
      /\ conn' = [columns |-> "config", sweep |-> s]
      /\ UNCHANGED <<row, results, config, next, frames, tally, worker, request, crashes>>
  BY DEF StartExecute
<1>2. TypeOK /\ Stage(s)
  BY DEF IInv
<1>3. /\ pc' \in [Sweeps -> Stages]
      /\ pc'[s] = "starting" /\ \A t \in Sweeps : t # s => pc'[t] = pc[t]
  BY <1>1, <1>2 DEF TypeOK, Stages
<1>4. TypeOK'
  BY <1>1, <1>2, <1>3 DEF TypeOK, Selected
<1>5. Addressed'
  BY <1>1 DEF IInv, Addressed
<1>6. Stage(s)'
  BY <1>1, <1>2, <1>3 DEF Stage, None, Queued, Loading, InCells, Over, Untouched, Counts
<1> QED
  BY <1>1, <1>3, <1>4, <1>5, <1>6, OneSweep

\* Whichever row was fetched, nothing has been counted.
LEMMA StartFetchStep ==
  ASSUME IInv, NEW s \in Sweeps, StartFetch(s)
  PROVE  IInv'
<1>1. /\ pc[s] = "starting"
      /\ UNCHANGED <<results, next, frames, tally, worker, request, crashes>>
  BY DEF StartFetch
<1>2. TypeOK /\ Stage(s)
  BY DEF IInv
<1>3. /\ row[s].status = "queued" /\ Counts(s, tally[s]) /\ Untouched(s) /\ next[s] = 1
  BY <1>1, <1>2 DEF Stage, Queued
<1>4. Addressed'
  BY <1>1 DEF IInv, Addressed
<1>5. CASE /\ conn.columns = "config" /\ config' = [config EXCEPT ![s] = conn.sweep]
           /\ pc' = [pc EXCEPT ![s] = "loading"] /\ Write(s, "running", row[s])
  <2>1. row[s].completed \in Counter /\ row[s].failed \in Counter
    BY <1>2 DEF TypeOK, Row
  <2>2. /\ row' \in [Sweeps -> Row] /\ conn' = Taken /\ row'[s].status = "running"
        /\ row'[s].completed = row[s].completed /\ row'[s].failed = row[s].failed
        /\ \A t \in Sweeps : t # s => row'[t] = row[t]
    BY <1>2, <1>5, <2>1, Written
  <2>3. /\ pc' \in [Sweeps -> Stages]
        /\ config' \in [Sweeps -> Sweeps]
        /\ pc'[s] = "loading"
        /\ \A t \in Sweeps : t # s => pc'[t] = pc[t] /\ config'[t] = config[t]
    BY <1>2, <1>5 DEF TypeOK, Stages, Selected, Taken
  <2>4. TypeOK'
    BY <1>1, <1>2, <2>2, <2>3 DEF TypeOK
  <2>5. Stage(s)'
    BY <1>1, <1>3, <2>2, <2>3, CountsAssumption
    DEF Stage, None, Queued, Loading, InCells, Over, Untouched, Counts
  <2> QED
    BY <1>1, <1>4, <2>2, <2>3, <2>4, <2>5, OneSweep
<1>6. CASE pc' = [pc EXCEPT ![s] = "over"] /\ conn' = Taken /\ UNCHANGED <<row, config>>
  <2>1. /\ pc' \in [Sweeps -> Stages]
        /\ pc'[s] = "over" /\ \A t \in Sweeps : t # s => pc'[t] = pc[t]
    BY <1>2, <1>6 DEF TypeOK, Stages
  <2>2. TypeOK'
    BY <1>1, <1>2, <1>6, <2>1 DEF TypeOK
  <2>3. Stage(s)'
    BY <1>1, <1>3, <1>6, <2>1, FS_EmptySet
    DEF Stage, None, Queued, Loading, InCells, Over, Untouched, Counts
  <2> QED
    BY <1>1, <1>4, <1>6, <2>1, <2>2, <2>3, OneSweep
<1> QED
  BY <1>5, <1>6 DEF StartFetch

LEMMA LoadBarsStep ==
  ASSUME IInv, NEW s \in Sweeps, LoadBars(s)
  PROVE  IInv'
<1>1. /\ pc[s] = "loading" /\ next[s] <= NumSymbols[config[s]]
      /\ next' = [next EXCEPT ![s] = next[s] + 1]
      /\ UNCHANGED <<row, results, conn, pc, config, tally, worker, request, crashes>>
      /\ \E loaded \in BOOLEAN :
           frames' = [frames EXCEPT ![s] = IF loaded THEN @ \cup {next[s]} ELSE @]
  BY DEF LoadBars, AfterLoad
<1>2. TypeOK /\ Stage(s)
  BY DEF IInv
<1>3. next[s] \in Nat \ {0}
  BY <1>2 DEF TypeOK
<1>4. /\ frames' \in [Sweeps -> SUBSET Nat]
      /\ \A t \in Sweeps : t # s => frames'[t] = frames[t]
  BY <1>1, <1>2, <1>3 DEF TypeOK
<1>5. /\ next' \in [Sweeps -> Nat \ {0}]
      /\ \A t \in Sweeps : t # s => next'[t] = next[t]
  BY <1>1, <1>2, <1>3 DEF TypeOK
<1>6. TypeOK'
  BY <1>1, <1>2, <1>4, <1>5 DEF TypeOK
<1>7. Addressed'
  BY <1>1 DEF IInv, Addressed
<1>8. Stage(s)'
  BY <1>1, <1>2, <1>5 DEF Stage, None, Queued, Loading, InCells, Over, Untouched, Counts
<1> QED
  BY <1>1, <1>4, <1>5, <1>6, <1>7, <1>8, OneSweep

LEMMA LoadRaisesStep ==
  ASSUME IInv, NEW s \in Sweeps, LoadRaises(s)
  PROVE  IInv'
<1>1. /\ pc[s] = "loading" /\ pc' = [pc EXCEPT ![s] = "over"]
      /\ UNCHANGED <<row, results, conn, config, next, frames, tally, worker, request, crashes>>
  BY DEF LoadRaises
<1>2. TypeOK /\ Stage(s)
  BY DEF IInv
<1>3. /\ pc' \in [Sweeps -> Stages]
      /\ pc'[s] = "over" /\ \A t \in Sweeps : t # s => pc'[t] = pc[t]
  BY <1>1, <1>2 DEF TypeOK, Stages
<1>4. TypeOK'
  BY <1>1, <1>2, <1>3 DEF TypeOK
<1>5. Addressed'
  BY <1>1 DEF IInv, Addressed
<1>6. Stage(s)'
  <2>1. row[s].status = "running" /\ Counts(s, tally[s]) /\ Untouched(s)
    BY <1>1, <1>2 DEF Stage, Loading
  <2> QED
    BY <1>1, <1>3, <2>1, FS_EmptySet
    DEF Stage, None, Queued, Loading, InCells, Over, Untouched, Counts
<1> QED
  BY <1>1, <1>3, <1>4, <1>5, <1>6, OneSweep

LEMMA BarsLoadedStep ==
  ASSUME IInv, NEW s \in Sweeps, BarsLoaded(s)
  PROVE  IInv'
<1>1. /\ pc[s] = "loading" /\ pc' = [pc EXCEPT ![s] = "cells"]
      /\ next' = [next EXCEPT ![s] = 1]
      /\ UNCHANGED <<row, results, conn, config, frames, tally, worker, request, crashes>>
  BY DEF BarsLoaded
<1>2. TypeOK /\ Stage(s)
  BY DEF IInv
<1>3. /\ pc' \in [Sweeps -> Stages]
      /\ next' \in [Sweeps -> Nat \ {0}]
      /\ pc'[s] = "cells" /\ next'[s] = 1
      /\ \A t \in Sweeps : t # s => pc'[t] = pc[t] /\ next'[t] = next[t]
  BY <1>1, <1>2 DEF TypeOK, Stages
<1>4. TypeOK'
  BY <1>1, <1>2, <1>3 DEF TypeOK
<1>5. Addressed'
  BY <1>1 DEF IInv, Addressed
<1>6. Stage(s)'
  <2>1. row[s].status = "running" /\ Counts(s, tally[s]) /\ Untouched(s)
    BY <1>1, <1>2 DEF Stage, Loading
  <2>2. results'[s] \ {next'[s]} = {} /\ Cardinality({}) = 0
    BY <1>1, <2>1, FS_EmptySet DEF Untouched
  <2> QED
    BY <1>1, <1>2, <1>3, <2>1, <2>2, ConfigSize
    DEF Stage, None, Queued, Loading, InCells, Over, Untouched, Counts
<1> QED
  BY <1>1, <1>3, <1>4, <1>5, <1>6, OneSweep

-----------------------------------------------------------------------------
(* The cells                                                               *)

\* A cell is counted once, as what it left in backtest_runs.
LEMMA CountKeeps ==
  ASSUME IInv, NEW s \in Sweeps, NEW counts, pc[s] = "cells", next[s] \in Cells(config[s]),
         counts \in [completed : Nat, failed : Nat],
         counts.completed + counts.failed = next[s],
         Cardinality(results[s]) = counts.completed,
         Count(s, counts),
         worker' = [worker EXCEPT ![s] = "idle"],
         UNCHANGED <<results, pc, config, frames, request, crashes>>
  PROVE  IInv'
<1>1. TypeOK /\ Stage(s)
  BY DEF IInv
<1>2. /\ row[s].status = "running" /\ next[s] \in 1 .. Total(config[s])
      /\ \A c \in results[s] : c <= next[s]
  BY <1>1, ConfigSize DEF Stage, InCells
<1>3. counts.completed \in Counter /\ counts.failed \in Counter
  BY <1>1, <1>2, ConfigSize DEF Counter
<1>4. /\ tally' = [tally EXCEPT ![s] = counts] /\ Write(s, "running", counts)
      /\ next' = [next EXCEPT ![s] = next[s] + 1]
  BY <1>2 DEF Count
<1>5. /\ row' \in [Sweeps -> Row] /\ conn' = Taken /\ row'[s].status = "running"
      /\ row'[s].completed = counts.completed /\ row'[s].failed = counts.failed
      /\ \A t \in Sweeps : t # s => row'[t] = row[t]
  <2>1. "running" \in {"queued", "running"} \cup Terminal
    OBVIOUS
  <2> QED
    BY <1>1, <1>3, <1>4, <2>1, Written
<1>6. /\ tally' \in [Sweeps -> [completed : Counter, failed : Counter]]
      /\ tally'[s] = counts /\ \A t \in Sweeps : t # s => tally'[t] = tally[t]
  BY <1>1, <1>3, <1>4 DEF TypeOK
<1>7. /\ next' \in [Sweeps -> Nat \ {0}]
      /\ next'[s] = next[s] + 1 /\ \A t \in Sweeps : t # s => next'[t] = next[t]
  BY <1>1, <1>2, <1>4 DEF TypeOK
<1>8. /\ worker' \in [Sweeps -> {"idle", "running", "inserted", "raised"}]
      /\ worker'[s] = "idle" /\ \A t \in Sweeps : t # s => worker'[t] = worker[t]
  BY <1>1 DEF TypeOK
<1>9. TypeOK'
  BY <1>1, <1>5, <1>6, <1>7, <1>8 DEF TypeOK
<1>10. Addressed'
  BY DEF IInv, Addressed
<1>11. Stage(s)'
  <2>1. \A c \in results[s] : c \in Int /\ c <= next[s]
    BY <1>1, <1>2 DEF TypeOK
  <2>2. next'[s] \notin results'[s] /\ \A c \in results'[s] : c <= next'[s]
    BY <1>2, <1>7, <2>1
  <2>3. results'[s] \ {next'[s]} = results[s]
    BY <2>2
  <2>4. Cardinality(results'[s] \ {next'[s]}) = tally'[s].completed
    BY <1>6, <2>3
  <2>5. /\ tally'[s].completed + tally'[s].failed = next'[s] - 1
        /\ next'[s] \in 1 .. Total(config[s]) + 1
        /\ results'[s] \subseteq Cells(config[s])
    BY <1>1, <1>2, <1>6, <1>7, ConfigSize DEF Stage, InCells
  <2>6. config'[s] = config[s] /\ Total(config[s])' = Total(config[s])
        /\ Cells(config[s])' = Cells(config[s])
    BY DEF Total, Cells
  <2>7. InCells(s)'
    BY <1>5, <1>6, <1>8, <2>2, <2>4, <2>5, <2>6 DEF InCells, Counts
  <2> QED
    BY <2>7 DEF Stage, None, Queued, Loading, Over
<1> QED
  BY <1>5, <1>6, <1>7, <1>8, <1>9, <1>10, <1>11, OneSweep

\* The tally once one more cell is accounted for.
LEMMA CountedOnce ==
  ASSUME NEW counts \in [completed : Counter, failed : Counter]
  PROVE  /\ Failed(counts) \in [completed : Nat, failed : Nat]
         /\ Failed(counts).completed = counts.completed
         /\ Failed(counts).failed = counts.failed + 1
         /\ Completed(counts) \in [completed : Nat, failed : Nat]
         /\ Completed(counts).completed = counts.completed + 1
         /\ Completed(counts).failed = counts.failed
BY CountsAssumption DEF Failed, Completed, Counter

LEMMA CellUnavailableStep ==
  ASSUME IInv, NEW s \in Sweeps, CellUnavailable(s)
  PROVE  IInv'
<1>1. /\ pc[s] = "cells" /\ next[s] \in Cells(config[s])
      /\ SymbolOf(config[s], next[s]) \notin frames[s]
      /\ Count(s, Failed(tally[s]))
      /\ UNCHANGED <<results, pc, config, frames, worker, request, crashes>>
  BY DEF CellUnavailable
<1>2. /\ TypeOK /\ Stage(s)
      /\ tally[s] \in [completed : Counter, failed : Counter]
  BY DEF IInv, TypeOK
<1>3. worker[s] = "idle"
  BY <1>1, <1>2 DEF Stage, InCells
<1>4. /\ tally[s].completed + tally[s].failed = next[s] - 1
      /\ next[s] \notin results[s]
      /\ Cardinality(results[s] \ {next[s]}) = tally[s].completed
  BY <1>1, <1>2, <1>3 DEF Stage, InCells
<1>5. Cardinality(results[s]) = tally[s].completed
  <2>1. results[s] \ {next[s]} = results[s]
    BY <1>4
  <2> QED
    BY <1>4, <2>1
<1>6. Failed(tally[s]).completed + Failed(tally[s]).failed = next[s]
  <2>1. /\ tally[s].completed \in Int /\ tally[s].failed \in Int /\ next[s] \in Int
    BY <1>1, <1>2, ConfigSize DEF Counter
  <2> QED
    BY <1>2, <1>4, <2>1, CountedOnce
<1>7. worker' = [worker EXCEPT ![s] = "idle"]
  BY <1>1, <1>2, <1>3 DEF TypeOK
<1> QED
  BY <1>1, <1>2, <1>5, <1>6, <1>7, CountedOnce, CountKeeps

LEMMA CellReturnsStep ==
  ASSUME IInv, NEW s \in Sweeps, CellReturns(s)
  PROVE  IInv'
<1>1. /\ pc[s] = "cells" /\ worker[s] \in {"inserted", "raised"}
      /\ Count(s, Outcome(s)) /\ worker' = [worker EXCEPT ![s] = "idle"]
      /\ UNCHANGED <<results, pc, config, frames, request, crashes>>
  BY DEF CellReturns
<1>2. /\ TypeOK /\ Stage(s)
      /\ tally[s] \in [completed : Counter, failed : Counter]
  BY DEF IInv, TypeOK
<1>3. /\ tally[s].completed + tally[s].failed = next[s] - 1
      /\ next[s] \in results[s] <=> worker[s] = "inserted"
      /\ Cardinality(results[s] \ {next[s]}) = tally[s].completed
      /\ next[s] \in Cells(config[s])
  BY <1>1, <1>2 DEF Stage, InCells
<1>4. /\ results[s] \in SUBSET (1 .. MaxSweepCells)
      /\ tally[s].completed \in Int /\ tally[s].failed \in Int /\ next[s] \in Int
  BY <1>2, ConfigSize DEF TypeOK, Counter
<1>5. CASE worker[s] = "inserted"
  <2>1. Outcome(s) = Completed(tally[s])
    BY <1>5 DEF Outcome
  <2>2. Cardinality(results[s]) = tally[s].completed + 1
    <3>1. Cardinality(results[s] \ {next[s]}) = Cardinality(results[s]) - 1
      BY <1>3, <1>4, <1>5, ResultsFinite, FS_RemoveElement
    <3> QED
      BY <1>2, <1>3, <1>4, <3>1, ResultsFinite
  <2>3. Outcome(s).completed + Outcome(s).failed = next[s]
    BY <1>2, <1>3, <1>4, <2>1, CountedOnce
  <2> QED
    BY <1>1, <1>2, <1>3, <2>1, <2>2, <2>3, CountedOnce, CountKeeps
<1>6. CASE worker[s] = "raised"
  <2>1. Outcome(s) = Failed(tally[s])
    BY <1>6 DEF Outcome
  <2>2. Cardinality(results[s]) = tally[s].completed
    <3>1. results[s] \ {next[s]} = results[s]
      BY <1>3, <1>6
    <3> QED
      BY <1>3, <3>1
  <2>3. Outcome(s).completed + Outcome(s).failed = next[s]
    BY <1>2, <1>3, <1>4, <2>1, CountedOnce
  <2> QED
    BY <1>1, <1>2, <1>3, <2>1, <2>2, <2>3, CountedOnce, CountKeeps
<1> QED
  BY <1>1, <1>5, <1>6

LEMMA CellStartsStep ==
  ASSUME IInv, NEW s \in Sweeps, CellStarts(s)
  PROVE  IInv'
<1>1. /\ pc[s] = "cells" /\ next[s] \in Cells(config[s]) /\ worker[s] = "idle"
      /\ SymbolOf(config[s], next[s]) \in frames[s]
      /\ worker' = [worker EXCEPT ![s] = "running"]
      /\ UNCHANGED <<row, results, conn, pc, config, next, frames, tally, request, crashes>>
  BY DEF CellStarts, taskVars
<1>2. TypeOK /\ Stage(s)
  BY DEF IInv
<1>3. /\ worker' \in [Sweeps -> {"idle", "running", "inserted", "raised"}]
      /\ worker'[s] = "running" /\ \A t \in Sweeps : t # s => worker'[t] = worker[t]
  BY <1>1, <1>2 DEF TypeOK
<1>4. TypeOK'
  BY <1>1, <1>2, <1>3 DEF TypeOK
<1>5. Addressed'
  BY <1>1 DEF IInv, Addressed
<1>6. Stage(s)'
  <2>1. SymbolOf(config[s], next[s])' = SymbolOf(config[s], next[s])
    BY <1>1 DEF SymbolOf
  <2>2. InCells(s)'
    BY <1>1, <1>2, <1>3, <2>1 DEF Stage, InCells, Counts
  <2> QED
    BY <1>1, <2>2 DEF Stage, None, Queued, Loading, Over
<1> QED
  BY <1>1, <1>3, <1>4, <1>5, <1>6, OneSweep

\* The thread's result is that of the cell the task counts next, if it does.
LEMMA CellRunsStep ==
  ASSUME IInv, NEW s \in Sweeps, CellRuns(s)
  PROVE  IInv'
<1>1. /\ worker[s] = "running"
      /\ UNCHANGED <<row, conn, pc, config, next, frames, tally, request, crashes>>
      /\ \/ /\ worker' = [worker EXCEPT ![s] = "inserted"]
            /\ results' = [results EXCEPT ![s] = @ \cup {next[s]}]
         \/ /\ worker' = [worker EXCEPT ![s] = "raised"]
            /\ UNCHANGED results
  BY DEF CellRuns, taskVars
<1>2. TypeOK /\ Stage(s)
  BY DEF IInv
<1>3. pc[s] \in {"cells", "over"}
  BY <1>1, <1>2 DEF TypeOK, Stages, Stage, None, Queued, Loading, Untouched
<1>4. next[s] \in Cells(config[s]) /\ next[s] \notin results[s]
  BY <1>1, <1>2, <1>3 DEF Stage, InCells, Over
<1>5. /\ \/ worker'[s] = "inserted" /\ results'[s] = results[s] \cup {next[s]}
         \/ worker'[s] = "raised" /\ results'[s] = results[s]
      /\ worker' \in [Sweeps -> {"idle", "running", "inserted", "raised"}]
      /\ results' \in [Sweeps -> SUBSET (1 .. MaxSweepCells)]
      /\ \A t \in Sweeps : t # s => worker'[t] = worker[t] /\ results'[t] = results[t]
  <2>1. /\ worker \in [Sweeps -> {"idle", "running", "inserted", "raised"}]
        /\ results \in [Sweeps -> SUBSET (1 .. MaxSweepCells)]
        /\ results[s] \cup {next[s]} \in SUBSET (1 .. MaxSweepCells)
    BY <1>2, <1>4, ConfigSize DEF TypeOK
  <2>2. CASE /\ worker' = [worker EXCEPT ![s] = "inserted"]
             /\ results' = [results EXCEPT ![s] = @ \cup {next[s]}]
    BY <2>1, <2>2
  <2>3. CASE worker' = [worker EXCEPT ![s] = "raised"] /\ UNCHANGED results
    BY <2>1, <2>3
  <2> QED
    BY <1>1, <2>2, <2>3
<1>6. TypeOK'
  BY <1>1, <1>2, <1>5 DEF TypeOK
<1>7. Addressed'
  BY <1>1 DEF IInv, Addressed
<1>8. /\ Cardinality(results[s]) \in Nat
      /\ worker'[s] = "inserted" => Cardinality(results'[s]) = Cardinality(results[s]) + 1
  <2>1. results[s] \in SUBSET (1 .. MaxSweepCells)
    BY <1>2 DEF TypeOK
  <2> QED
    BY <1>4, <1>5, <2>1, ResultsFinite, FS_AddElement
<1>9. SymbolOf(config[s], next[s])' = SymbolOf(config[s], next[s])
  BY <1>1 DEF SymbolOf
<1>10. config'[s] = config[s] /\ Total(config[s])' = Total(config[s])
       /\ Cells(config[s])' = Cells(config[s])
  BY <1>1 DEF Total, Cells
<1>11. CASE pc[s] = "cells"
  <2>1. results'[s] \ {next'[s]} = results[s] \ {next[s]}
    BY <1>1, <1>5
  <2>2. \A c \in results'[s] : c <= next'[s]
    BY <1>1, <1>2, <1>4, <1>5, <1>11, ConfigSize DEF Stage, InCells
  <2>3. InCells(s)'
    BY <1>1, <1>2, <1>4, <1>5, <1>9, <1>10, <1>11, <2>1, <2>2 DEF Stage, InCells, Counts
  <2> QED
    BY <1>1, <1>5, <1>6, <1>7, <1>11, <2>3, OneSweep
    DEF Stage, None, Queued, Loading, Over
<1>12. CASE pc[s] = "over"
  <2>1. /\ row[s].status \notin {"absent", "done", "failed"}
        /\ Cardinality(results[s]) = row[s].completed
    BY <1>1, <1>2, <1>12 DEF Stage, Over
  <2>2. Over(s)'
    BY <1>1, <1>2, <1>4, <1>5, <1>8, <1>10, <1>12, <2>1 DEF Stage, Over
  <2> QED
    BY <1>1, <1>5, <1>6, <1>7, <1>12, <2>2, OneSweep
    DEF Stage, None, Queued, Loading, InCells
<1> QED
  BY <1>3, <1>11, <1>12

\* All cells are counted, and their threads are done.
LEMMA FinishStep ==
  ASSUME IInv, NEW s \in Sweeps, Finish(s)
  PROVE  IInv'
<1> DEFINE final == FinalStatus(tally[s], Total(config[s]))
<1>1. /\ pc[s] = "cells" /\ next[s] > Total(config[s])
      /\ Write(s, final, tally[s]) /\ pc' = [pc EXCEPT ![s] = "over"]
      /\ UNCHANGED <<results, config, next, frames, tally, worker, request, crashes>>
  BY DEF Finish
<1>2. /\ TypeOK /\ Stage(s)
      /\ tally[s] \in [completed : Counter, failed : Counter]
  BY DEF IInv, TypeOK
<1>3. /\ next[s] = Total(config[s]) + 1 /\ worker[s] = "idle"
      /\ tally[s].completed + tally[s].failed = Total(config[s])
      /\ next[s] \notin results[s]
      /\ Cardinality(results[s] \ {next[s]}) = tally[s].completed
  BY <1>1, <1>2, ConfigSize DEF Stage, InCells
<1>4. Cardinality(results[s]) = tally[s].completed
  <2>1. results[s] \ {next[s]} = results[s]
    BY <1>3
  <2> QED
    BY <1>3, <2>1
<1>5. final \in {"done", "failed"} /\ (final = "done" <=> tally[s].completed > 0)
  BY <1>2, <1>3, ConfigSize DEF FinalStatus, Counter
<1>6. /\ row' \in [Sweeps -> Row] /\ conn' = Taken /\ row'[s].status = final
      /\ row'[s].completed = tally[s].completed /\ row'[s].failed = tally[s].failed
      /\ \A t \in Sweeps : t # s => row'[t] = row[t]
  <2>1. final \in {"queued", "running"} \cup Terminal
    BY <1>5 DEF Terminal
  <2> QED
    BY <1>1, <1>2, <2>1, Written
<1>7. /\ pc' \in [Sweeps -> Stages]
      /\ pc'[s] = "over" /\ \A t \in Sweeps : t # s => pc'[t] = pc[t]
  BY <1>1, <1>2 DEF TypeOK, Stages
<1>8. TypeOK'
  BY <1>1, <1>2, <1>6, <1>7 DEF TypeOK
<1>9. Addressed'
  BY <1>1 DEF IInv, Addressed
<1>10. Stage(s)'
  <2>1. config'[s] = config[s] /\ Total(config[s])' = Total(config[s])
        /\ Cells(config[s])' = Cells(config[s]) /\ results'[s] \subseteq Cells(config[s])
    BY <1>1, <1>2 DEF Total, Cells, Stage, InCells
  <2>2. Over(s)'
    BY <1>1, <1>2, <1>3, <1>4, <1>5, <1>6, <2>1 DEF Over, Counter
  <2> QED
    BY <1>7, <2>2 DEF Stage, None, Queued, Loading, InCells
<1> QED
  BY <1>1, <1>6, <1>7, <1>8, <1>9, <1>10, OneSweep

-----------------------------------------------------------------------------
(* The endpoints                                                           *)

\* A request that reads touches the connection and itself.
LEMMA RequestKeeps ==
  ASSUME IInv, NEW r \in Requests, NEW asked \in Asked,
         asked.at # "idle" => asked.sweep \in Sweeps,
         request' = [request EXCEPT ![r] = asked], conn' \in Selected \cup {Taken},
         UNCHANGED <<row, results, taskVars, worker, crashes>>
  PROVE  IInv'
<1>1. UNCHANGED <<row, results, pc, config, next, frames, tally, worker, crashes>>
  BY DEF taskVars
<1>2. TypeOK' /\ Addressed'
  BY <1>1 DEF TypeOK, IInv, Addressed
<1>3. ASSUME NEW s \in Sweeps PROVE Stage(s)'
  BY <1>1 DEF IInv, Stage, None, Queued, Loading, InCells, Over, Untouched, Counts, SymbolOf
<1> QED
  BY <1>2, <1>3 DEF IInv

LEMMA RequestStep ==
  ASSUME IInv, NEW r \in Requests,
         \/ \E s \in Sweeps, kind \in {"status", "cancel", "heatmap"} : RequestExecute(r, s, kind)
         \/ RequestFetch(r) \/ HeatmapExecute(r) \/ HeatmapFetch(r) \/ HeatmapRows(r)
  PROVE  IInv'
<1>1. request[r] \in Asked /\ (request[r].at # "idle" => request[r].sweep \in Sweeps)
  BY DEF IInv, TypeOK, Addressed
<1>2. Idle \in Asked /\ Idle.at = "idle"
  BY DEF Idle, Asked
<1>3. ASSUME NEW s \in Sweeps, NEW kind \in {"status", "cancel", "heatmap"},
             RequestExecute(r, s, kind)
      PROVE  IInv'
  <2>1. [kind |-> kind, sweep |-> s, at |-> "executed"] \in Asked
    BY DEF Asked
  <2>2. [columns |-> "status", sweep |-> s] \in Selected
    BY DEF Selected
  <2> QED
    BY <1>3, <2>1, <2>2, RequestKeeps DEF RequestExecute
<1>4. ASSUME NEW at \in {"answered", "selected", "loaded"}, request[r].at # "idle"
      PROVE  /\ [request[r] EXCEPT !.at = at] \in Asked
             /\ [request[r] EXCEPT !.at = at].sweep \in Sweeps
  BY <1>1, <1>4 DEF Asked
<1>5. CASE RequestFetch(r)
  <2>1. request[r].at # "idle" /\ conn' = Taken
        /\ \/ request' = [request EXCEPT ![r] = [request[r] EXCEPT !.at = "answered"]]
           \/ request' = [request EXCEPT ![r] = Idle]
        /\ UNCHANGED <<row, results, taskVars, worker, crashes>>
    BY <1>5 DEF RequestFetch
  <2> QED
    BY <1>2, <1>4, <2>1, RequestKeeps
<1>6. CASE HeatmapExecute(r)
  <2>1. /\ request[r].at # "idle" /\ conn' = [columns |-> "config", sweep |-> request[r].sweep]
        /\ request' = [request EXCEPT ![r] = [request[r] EXCEPT !.at = "selected"]]
        /\ UNCHANGED <<row, results, taskVars, worker, crashes>>
    BY <1>6 DEF HeatmapExecute
  <2>2. conn' \in Selected
    BY <1>1, <2>1 DEF Selected
  <2> QED
    BY <1>4, <2>1, <2>2, RequestKeeps
<1>7. CASE HeatmapFetch(r)
  <2>1. request[r].at # "idle" /\ conn' = Taken
        /\ \/ request' = [request EXCEPT ![r] = [request[r] EXCEPT !.at = "loaded"]]
           \/ request' = [request EXCEPT ![r] = Idle]
        /\ UNCHANGED <<row, results, taskVars, worker, crashes>>
    BY <1>7 DEF HeatmapFetch
  <2> QED
    BY <1>2, <1>4, <2>1, RequestKeeps
<1>8. CASE HeatmapRows(r)
  BY <1>2, <1>8, RequestKeeps DEF HeatmapRows
<1> QED
  BY <1>3, <1>5, <1>6, <1>7, <1>8

\* A cancelled sweep keeps its counts; a thread of its last cell may run on.
LEMMA CancelKeeps ==
  ASSUME IInv, NEW s \in Sweeps, CancelTask(s), TypeOK', Addressed',
         UNCHANGED <<results, config, next, frames, tally, worker, crashes>>
  PROVE  IInv'
<1>1. /\ TypeOK /\ Stage(s)
      /\ tally[s] \in [completed : Counter, failed : Counter]
  BY DEF IInv, TypeOK
<1>2. CASE Suspended(s) /\ Write(s, "cancelled", tally[s]) /\ pc' = [pc EXCEPT ![s] = "over"]
  <2>1. /\ row'[s].status = "cancelled"
        /\ row'[s].completed = tally[s].completed /\ row'[s].failed = tally[s].failed
        /\ \A t \in Sweeps : t # s => row'[t] = row[t]
    BY <1>1, <1>2, Written DEF Terminal
  <2>2. pc'[s] = "over" /\ \A t \in Sweeps : t # s => pc'[t] = pc[t]
    BY <1>1, <1>2 DEF TypeOK
  <2>3. results[s] \in SUBSET (1 .. MaxSweepCells)
    BY <1>1 DEF TypeOK
  <2>4. CASE pc[s] = "loading"
    <3>1. results[s] = {} /\ tally[s].completed = 0 /\ worker[s] = "idle"
      BY <1>1, <2>4 DEF Stage, Loading, Untouched
    <3>2. Over(s)'
      BY <2>1, <3>1, FS_EmptySet DEF Over
    <3> QED
      BY <2>1, <2>2, <3>2, OneSweep DEF Stage, None, Queued, Loading, InCells
  <2>5. CASE pc[s] = "cells" /\ worker[s] # "idle"
    <3>1. /\ next[s] \in results[s] <=> worker[s] = "inserted"
          /\ Cardinality(results[s] \ {next[s]}) = tally[s].completed
          /\ next[s] \in Cells(config[s])
      BY <1>1, <2>5 DEF Stage, InCells
    <3>2. IF worker[s] = "inserted"
            THEN Cardinality(results[s]) = tally[s].completed + 1
            ELSE Cardinality(results[s]) = tally[s].completed
      <4>1. CASE worker[s] = "inserted"
        <5>1. Cardinality(results[s] \ {next[s]}) = Cardinality(results[s]) - 1
          BY <2>3, <3>1, <4>1, ResultsFinite, FS_RemoveElement
        <5> QED
          BY <1>1, <2>3, <3>1, <4>1, <5>1, ResultsFinite
      <4>2. CASE worker[s] # "inserted"
        <5>1. results[s] \ {next[s]} = results[s]
          BY <3>1, <4>2
        <5> QED
          BY <3>1, <4>2, <5>1
      <4> QED
        BY <4>1, <4>2
    <3>3. config'[s] = config[s] /\ Cells(config[s])' = Cells(config[s])
          /\ results[s] \subseteq Cells(config[s])
      BY <1>1, <2>5 DEF Cells, Total, Stage, InCells
    <3>4. Over(s)'
      BY <1>1, <2>1, <3>1, <3>2, <3>3, CountsAssumption DEF Over, Counter
    <3> QED
      BY <2>1, <2>2, <3>4, OneSweep DEF Stage, None, Queued, Loading, InCells
  <2> QED
    BY <1>2, <2>4, <2>5 DEF Suspended
<1>3. CASE pc[s] = "created" /\ pc' = [pc EXCEPT ![s] = "over"] /\ UNCHANGED <<row, conn>>
  <2>1. row[s].status = "queued" /\ Counts(s, tally[s]) /\ Untouched(s)
    BY <1>1, <1>3 DEF Stage, Queued
  <2>2. pc'[s] = "over" /\ \A t \in Sweeps : t # s => pc'[t] = pc[t]
    BY <1>1, <1>3 DEF TypeOK
  <2>3. Over(s)'
    BY <1>3, <2>1, FS_EmptySet DEF Over, Counts, Untouched
  <2> QED
    BY <1>3, <2>2, <2>3, OneSweep DEF Stage, None, Queued, Loading, InCells
<1>4. CASE UNCHANGED <<row, conn, pc>>
  BY <1>1, <1>4, OneSweep
  DEF Stage, None, Queued, Loading, InCells, Over, Untouched, Counts, SymbolOf
<1> QED
  BY <1>2, <1>3, <1>4 DEF CancelTask, AfterCancel

LEMMA RespondStep ==
  ASSUME IInv, NEW r \in Requests, Respond(r)
  PROVE  IInv'
<1> DEFINE s == request[r].sweep
<1>1. /\ request[r].at = "answered"
      /\ \/ request' = [request EXCEPT ![r] = Idle]
         \/ request' = [request EXCEPT ![r] = [request[r] EXCEPT !.at = "mapping"]]
      /\ \/ CancelTask(s)
         \/ UNCHANGED <<row, conn, pc>>
      /\ UNCHANGED <<results, config, next, frames, tally, worker, crashes>>
  BY DEF Respond
<1>2. TypeOK /\ s \in Sweeps
  BY <1>1 DEF IInv, Addressed
<1>3. /\ request' \in [Requests -> Asked]
      /\ Addressed'
  <2>1. request[r] \in Asked
    BY <1>2 DEF TypeOK
  <2>2. CASE request' = [request EXCEPT ![r] = Idle]
    BY <1>2, <2>2 DEF TypeOK, IInv, Addressed, Idle, Asked
  <2>3. CASE request' = [request EXCEPT ![r] = [request[r] EXCEPT !.at = "mapping"]]
    <3>1. /\ [request[r] EXCEPT !.at = "mapping"] \in Asked
          /\ [request[r] EXCEPT !.at = "mapping"].sweep = s
      BY <2>1 DEF Asked
    <3> QED
      BY <1>2, <2>3, <3>1 DEF TypeOK, IInv, Addressed
  <2> QED
    BY <1>1, <2>2, <2>3
<1>4. CASE UNCHANGED <<row, conn, pc>>
  <2>1. TypeOK'
    BY <1>1, <1>2, <1>3, <1>4 DEF TypeOK
  <2>2. ASSUME NEW t \in Sweeps PROVE Stage(t)'
    BY <1>1, <1>4
    DEF IInv, Stage, None, Queued, Loading, InCells, Over, Untouched, Counts, SymbolOf
  <2> QED
    BY <1>3, <2>1, <2>2 DEF IInv
<1>5. CASE CancelTask(s)
  <2>1. /\ row' \in [Sweeps -> Row] /\ conn' \in Selected \cup {Taken}
        /\ pc' \in [Sweeps -> Stages]
    <3>1. CASE Write(s, "cancelled", tally[s]) /\ pc' = [pc EXCEPT ![s] = "over"]
      BY <1>2, <3>1, Written DEF TypeOK, Terminal, Stages
    <3>2. CASE UNCHANGED <<row, conn>> /\ (pc' = pc \/ pc' = [pc EXCEPT ![s] = "over"])
      BY <1>2, <3>2 DEF TypeOK, Stages
    <3> QED
      BY <1>5, <3>1, <3>2 DEF CancelTask, AfterCancel
  <2>2. TypeOK'
    BY <1>1, <1>2, <1>3, <2>1 DEF TypeOK
  <2> QED
    BY <1>1, <1>2, <1>3, <1>5, <2>2, CancelKeeps
<1> QED
  BY <1>1, <1>4, <1>5

\* No task survives, and no thread; the cell a thread had inserted stays.
LEMMA CrashStep ==
  ASSUME IInv, Crash
  PROVE  IInv'
<1>1. /\ crashes < MaxCrashes /\ crashes' = crashes + 1
      /\ pc' = [s \in Sweeps |-> IF pc[s] = "none" THEN "none" ELSE "over"]
      /\ worker' = [s \in Sweeps |-> "idle"]
      /\ request' = [r \in Requests |-> Idle]
      /\ conn' = Taken
      /\ UNCHANGED <<row, results, config, next, frames, tally>>
  BY DEF Crash
<1>2. TypeOK
  BY DEF IInv
<1>3. TypeOK'
  BY <1>1, <1>2, CountsAssumption DEF TypeOK, Idle, Asked, Stages
<1>4. Addressed'
  BY <1>1 DEF Addressed, Idle
<1>5. ASSUME NEW s \in Sweeps PROVE Stage(s)'
  <2>1. /\ Stage(s) /\ worker'[s] = "idle" /\ results[s] \in SUBSET (1 .. MaxSweepCells)
        /\ tally[s] \in [completed : Counter, failed : Counter]
        /\ pc[s] \in Stages
    BY <1>1, <1>2 DEF IInv, TypeOK
  <2>2. CASE pc[s] = "none"
    BY <1>1, <2>1, <2>2 DEF Stage, None, Queued, Loading, InCells, Over, Untouched
  <2>3. CASE pc[s] # "none"
    <3>1. pc'[s] = "over"
      BY <1>1, <2>3
    <3>2. CASE pc[s] \in {"inserted", "created", "starting", "loading"}
      <4>1. /\ row[s].status \in {"queued", "running"} /\ Counts(s, tally[s]) /\ Untouched(s)
        BY <2>1, <3>2 DEF Stage, Queued, Loading
      <4>2. Over(s)'
        BY <1>1, <2>1, <4>1, FS_EmptySet DEF Over, Counts, Untouched
      <4> QED
        BY <3>1, <4>2 DEF Stage, None, Queued, Loading, InCells
    <3>3. CASE pc[s] = "cells"
      <4>1. /\ row[s].status = "running" /\ Counts(s, tally[s])
            /\ Cardinality(results[s] \ {next[s]}) = tally[s].completed
        BY <2>1, <3>3 DEF Stage, InCells
      <4>2. Cardinality(results[s]) \in tally[s].completed .. tally[s].completed + 1
        <5>1. Cardinality(results[s] \ {next[s]}) =
                IF next[s] \in results[s] THEN Cardinality(results[s]) - 1
                ELSE Cardinality(results[s])
          BY <2>1, ResultsFinite, FS_RemoveElement
        <5> QED
          BY <2>1, <4>1, <5>1, ResultsFinite, CountsAssumption DEF Counter
      <4>3. Cells(config[s])' = Cells(config[s]) /\ results[s] \subseteq Cells(config[s])
        BY <1>1, <2>1, <3>3 DEF Cells, Total, Stage, InCells
      <4>4. Over(s)'
        BY <1>1, <2>1, <4>1, <4>2, <4>3 DEF Over, Counts
      <4> QED
        BY <3>1, <4>4 DEF Stage, None, Queued, Loading, InCells
    <3>4. CASE pc[s] = "over"
      BY <1>1, <2>1, <3>1, <3>4 DEF Stage, None, Queued, Loading, InCells, Over
    <3> QED
      BY <2>1, <2>3, <3>2, <3>3, <3>4 DEF Stages
  <2> QED
    BY <2>2, <2>3
<1> QED
  BY <1>3, <1>4, <1>5 DEF IInv

-----------------------------------------------------------------------------
(* Theorems                                                                *)

LEMMA NextIInv == IInv /\ [Next]_vars => IInv'
<1> SUFFICES ASSUME IInv, [Next]_vars PROVE IInv'
  OBVIOUS
<1>1. CASE \E s \in Sweeps : Create(s) \/ Launch(s) \/ CellRuns(s)
  BY <1>1, CreateStep, LaunchStep, CellRunsStep
<1>2. CASE \E s \in Sweeps : TaskStep(s)
  BY <1>2, StartExecuteStep, StartFetchStep, LoadBarsStep, LoadRaisesStep, BarsLoadedStep,
     CellUnavailableStep, CellStartsStep, CellReturnsStep, FinishStep DEF TaskStep
<1>3. CASE \/ \E r \in Requests, s \in Sweeps, kind \in {"status", "cancel", "heatmap"} :
                RequestExecute(r, s, kind)
           \/ \E r \in Requests :
                RequestFetch(r) \/ HeatmapExecute(r) \/ HeatmapFetch(r) \/ HeatmapRows(r)
  BY <1>3, RequestStep
<1>4. CASE \E r \in Requests : Respond(r)
  BY <1>4, RespondStep
<1>5. CASE Crash
  BY <1>5, CrashStep
<1>6. CASE UNCHANGED vars
  <2>1. UNCHANGED <<row, results, conn, pc, config, next, frames, tally, worker, request, crashes>>
    BY <1>6 DEF vars, taskVars
  <2>2. TypeOK' /\ Addressed'
    BY <2>1 DEF IInv, TypeOK, Addressed
  <2>3. ASSUME NEW s \in Sweeps PROVE Stage(s)'
    BY <2>1
    DEF IInv, Stage, None, Queued, Loading, InCells, Over, Untouched, Counts, SymbolOf
  <2> QED
    BY <2>2, <2>3 DEF IInv
<1> QED
  BY <1>1, <1>2, <1>3, <1>4, <1>5, <1>6 DEF Next

LEMMA InductiveInvariant == Spec => []IInv
  BY InitIInv, NextIInv, PTL DEF Spec

\* The sweep rows, the results and what the tasks, threads and requests have
\* under way keep their types.
THEOREM TypeCorrect == Spec => []TypeOK
<1>1. IInv => TypeOK
  BY DEF IInv
<1> QED
  BY <1>1, InductiveInvariant, PTL

\* _update_progress and _insert_result write over two connections: the counts of
\* a sweep's row are those of its results, but for a cell cut off in between.
THEOREM CountsTellTheResults == Spec => []CountsTellResults
<1>1. IInv => CountsTellResults
  <2> SUFFICES ASSUME IInv, NEW s \in Sweeps
               PROVE  /\ Cardinality(results[s]) \in row[s].completed .. row[s].completed + 1
                      /\ results[s] \subseteq Cells(config[s])
                      /\ row[s].status \in {"done", "failed"} =>
                           /\ row[s].completed = Cardinality(results[s])
                           /\ row[s].completed + row[s].failed = Total(config[s])
    BY DEF CountsTellResults
  <2>1. /\ Stage(s) /\ results[s] \in SUBSET (1 .. MaxSweepCells)
        /\ tally[s] \in [completed : Counter, failed : Counter]
        /\ pc[s] \in Stages
    BY DEF IInv, TypeOK
  <2>2. CASE pc[s] \in {"none", "inserted", "created", "starting", "loading"}
    <3>1. /\ results[s] = {} /\ row[s].completed = 0
          /\ row[s].status \in {"absent", "queued", "running"}
      BY <2>1, <2>2 DEF Stage, None, Queued, Loading, Untouched, Counts, NoRow
    <3> QED
      BY <3>1, FS_EmptySet
  <2>3. CASE pc[s] = "cells"
    <3>1. /\ row[s].status = "running" /\ row[s].completed = tally[s].completed
          /\ results[s] \subseteq Cells(config[s])
          /\ Cardinality(results[s] \ {next[s]}) = tally[s].completed
      BY <2>1, <2>3 DEF Stage, InCells, Counts
    <3>2. Cardinality(results[s] \ {next[s]}) =
            IF next[s] \in results[s] THEN Cardinality(results[s]) - 1
            ELSE Cardinality(results[s])
      BY <2>1, ResultsFinite, FS_RemoveElement
    <3> QED
      BY <2>1, <3>1, <3>2, ResultsFinite, CountsAssumption DEF Counter
  <2>4. CASE pc[s] = "over"
    BY <2>1, <2>4 DEF Stage, Over
  <2> QED
    BY <2>1, <2>2, <2>3, <2>4 DEF Stages
<1> QED
  BY <1>1, InductiveInvariant, PTL

\* _final_status: a done sweep has something to rank, a failed one nothing.
THEOREM StatusTellsTheResults == Spec => []StatusTellsResults
<1>1. IInv => StatusTellsResults
  <2> SUFFICES ASSUME IInv, NEW s \in Sweeps
               PROVE  /\ row[s].status = "done" => results[s] # {}
                      /\ row[s].status = "failed" => results[s] = {}
    BY DEF StatusTellsResults
  <2>1. CASE row[s].status \in {"done", "failed"}
    <3>1. /\ Stage(s) /\ results[s] \in SUBSET (1 .. MaxSweepCells) /\ row[s] \in Row
          /\ pc[s] \in Stages
      BY DEF IInv, TypeOK
    <3>2. pc[s] = "over"
      BY <2>1, <3>1 DEF Stage, Stages, None, Queued, Loading, InCells, NoRow
    <3>3. /\ Cardinality(results[s]) = row[s].completed
          /\ (row[s].status = "done") <=> (row[s].completed > 0)
      BY <2>1, <3>1, <3>2 DEF Stage, Over
    <3>4. Cardinality(results[s]) = 0 <=> results[s] = {}
      BY <3>1, ResultsFinite, FS_EmptySet
    <3> QED
      BY <2>1, <3>1, <3>3, <3>4, CountsAssumption DEF Row, Counter
  <2> QED
    BY <2>1
<1> QED
  BY <1>1, InductiveInvariant, PTL

\* A sweep the page has stopped polling: neither its threads nor a late cancel
\* change its row.
THEOREM SettledRowsStay == Spec => SettledStays
<1> DEFINE Kept == \A s \in Sweeps : row[s].status \in Terminal => row'[s] = row[s]
<1>1. IInv /\ [Next]_vars => [Kept]_vars
  <2> SUFFICES ASSUME IInv, [Next]_vars, NEW s \in Sweeps, row[s].status \in Terminal,
                      row'[s] # row[s]
               PROVE  FALSE
    OBVIOUS
  <2>1. TypeOK /\ Stage(s) /\ pc[s] = "over"
    <3>1. /\ TypeOK /\ Stage(s)
          /\ pc[s] \in Stages
      BY DEF IInv, TypeOK
    <3>2. row[s].status \notin {"absent", "queued", "running"}
      BY DEF Terminal
    <3> QED
      BY <3>1, <3>2 DEF Stage, Stages, None, Queued, Loading, InCells, NoRow
  <2>2. ~UNCHANGED row
    BY DEF TypeOK
  <2>3. PICK t \in Sweeps : Create(t) \/ StartFetch(t) \/ CellUnavailable(t) \/ CellReturns(t)
                            \/ Finish(t) \/ (Suspended(t) /\ Write(t, "cancelled", tally[t]))
    <3>1. CASE \E r \in Requests : Respond(r)
      <4>1. PICK r \in Requests : Respond(r)
        BY <3>1
      <4>2. request[r].sweep \in Sweeps /\ CancelTask(request[r].sweep)
        BY <2>2, <4>1 DEF Respond, IInv, Addressed
      <4> QED
        BY <2>2, <4>2 DEF CancelTask
    <3>2. CASE ~\E r \in Requests : Respond(r)
      BY <2>2, <3>2 DEF Next, TaskStep, StartExecute, LoadBars, LoadRaises, BarsLoaded,
                        CellStarts, CellRuns, Launch, RequestExecute, RequestFetch, HeatmapExecute,
                        HeatmapFetch, HeatmapRows, Crash, vars
    <3> QED
      BY <3>1, <3>2
  <2>4. pc[t] # "over" /\ \A u \in Sweeps : u # t => row'[u] = row[u]
    <3>1. /\ row' = [row EXCEPT ![t] = row'[t]]
      BY <2>1, <2>3 DEF Create, StartFetch, CellUnavailable, CellReturns, Finish, Count, Write,
                        TypeOK
    <3>2. Stage(t) /\ pc[t] \in Stages
      BY DEF IInv, TypeOK
    <3>3. pc[t] # "over"
      BY <2>3, <3>2 DEF Create, StartFetch, CellUnavailable, CellReturns, Finish, Suspended,
                        NoRow, Stage, Over
    <3> QED
      BY <2>1, <3>1, <3>3 DEF TypeOK
  <2> QED
    BY <2>1, <2>4
<1>2. Spec => [][Kept]_vars
  BY <1>1, InductiveInvariant, PTL DEF Spec
<1> QED
  BY <1>2 DEF SettledStays
=============================================================================
