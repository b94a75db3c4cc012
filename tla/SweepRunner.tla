----------------------------- MODULE SweepRunner -----------------------------
(***************************************************************************)
(* Parameter sweeps of the dashboard: dashboard/services/sweep_runner.py,  *)
(* the sweep endpoints of dashboard/routes/api.py and the task registry of *)
(* dashboard/state.py.                                                     *)
(*                                                                         *)
(* A sweep is a row in DuckDB and an asyncio task on the event loop.  The  *)
(* task loads the bars of each symbol and runs each cell on a worker       *)
(* thread, which inserts a backtest_runs row over a connection of its own; *)
(* the sweep row is kept over one connection the whole dashboard shares,   *)
(* and the endpoints read it on worker threads.  A statement's result      *)
(* lives in its connection until it is fetched or the next statement       *)
(* replaces it: who fetches gets the row of whichever SELECT ran last.     *)
(*                                                                         *)
(* The cells of sweep c's configuration are numbered in the order of       *)
(* expand: NumSymbols[c] groups of CellsPerSymbol[c].  Backtest results    *)
(* are left out.                                                           *)
(***************************************************************************)
EXTENDS Integers, FiniteSets

CONSTANTS Sweeps,          \* the ids create may generate
          Requests,        \* HTTP clients that poll, cancel or show a heatmap
          NumSymbols, CellsPerSymbol,  \* of each sweep's configuration
          MaxSweepCells,
          Nobody,          \* no sweep
          MaxCrashes       \* bound: deaths of the dashboard

VARIABLES row,      \* backtest_sweeps
          results,  \* backtest_runs: the cells of each sweep with a row
          conn,     \* the row the next fetch on the shared connection gets
          pc,       \* the stage of the sweep's task
          config,   \* the sweep whose configuration the task has read
          next,     \* the symbol or cell the task is at
          frames,   \* frame_cache
          tally,    \* _SweepExecutionState
          worker,   \* the thread of cell next: idle, running, inserted, raised
          request,  \* what each client has under way
          crashes

taskVars == <<pc, config, next, frames, tally>>
vars == <<row, results, conn, taskVars, worker, request, crashes>>

Total(c) == NumSymbols[c] * CellsPerSymbol[c]
Cells(c) == 1 .. Total(c)

ASSUME CountsAssumption ==
  /\ NumSymbols \in [Sweeps -> Nat \ {0}] /\ CellsPerSymbol \in [Sweeps -> Nat \ {0}]
  /\ MaxSweepCells \in Nat /\ MaxCrashes \in Nat
\* expand rejects anything larger before a row exists.
ASSUME CapAssumption == \A c \in Sweeps : Total(c) <= MaxSweepCells
ASSUME NamesAssumption == Nobody \notin Sweeps

Terminal == {"done", "failed", "cancelled"}
NoRow == [status |-> "absent", completed |-> 0, failed |-> 0]
Counter == 0 .. MaxSweepCells
Row == [status : {"absent", "queued", "running"} \cup Terminal,
        completed : Counter, failed : Counter]

\* A row of status, or of _load_config; Taken: nothing either of them can use,
\* because it has been fetched or is the result of another statement.
Selected == [columns : {"status", "config"}, sweep : Sweeps]
Taken == [columns |-> "none", sweep |-> Nobody]
Stages == {"none", "inserted", "created", "starting", "loading", "cells", "over"}
Asked == [kind : {"none", "status", "cancel", "heatmap"}, sweep : Sweeps \cup {Nobody},
          at : {"idle", "executed", "answered", "mapping", "selected", "loaded"}]
Idle == [kind |-> "none", sweep |-> Nobody, at |-> "idle"]

Init ==
  /\ row = [s \in Sweeps |-> NoRow]
  /\ results = [s \in Sweeps |-> {}]
  /\ conn = Taken
  /\ pc = [s \in Sweeps |-> "none"]
  /\ config = [s \in Sweeps |-> s]
  /\ next = [s \in Sweeps |-> 1]
  /\ frames = [s \in Sweeps |-> {}]
  /\ tally = [s \in Sweeps |-> [completed |-> 0, failed |-> 0]]
  /\ worker = [s \in Sweeps |-> "idle"]
  /\ request = [r \in Requests |-> Idle]
  /\ crashes = 0

-----------------------------------------------------------------------------
(* Helpers                                                                 *)

\* The event loop runs one task at a time: StartExecute and StartFetch are one
\* stretch of it, which only other threads can interrupt.
LoopFree == \A s \in Sweeps : pc[s] # "starting"

SymbolOf(c, cell) == (cell - 1) \div CellsPerSymbol[c] + 1

\* An UPDATE of the sweep row over the shared connection.
Write(s, status, counts) ==
  /\ row' = [row EXCEPT ![s] = [status |-> status, completed |-> counts.completed,
                                failed |-> counts.failed]]
  /\ conn' = Taken

\* Mutant: any failed cell makes the sweep a failed one.
FinalStatusAny(counts, total) == IF counts.failed = 0 THEN "done" ELSE "failed"

FinalStatus(counts, total) ==
  IF counts.failed < total /\ ~(counts.completed = 0 /\ counts.failed > 0)
    THEN "done" ELSE "failed"

\* The task is suspended in asyncio.to_thread, where a cancellation is raised.
Suspended(s) ==
  \/ pc[s] = "loading" /\ next[s] <= NumSymbols[config[s]]
  \/ pc[s] = "cells" /\ worker[s] # "idle"

-----------------------------------------------------------------------------
(* The task                                                                *)

\* POST /backtest/sweep/new: create inserts the row on a worker thread ...
Create(s) ==
  /\ row[s] = NoRow
  /\ Write(s, "queued", tally[s])
  /\ pc' = [pc EXCEPT ![s] = "inserted"]
  /\ UNCHANGED <<results, config, next, frames, tally, worker, request, crashes>>

\* ... and the handler makes the task.
Launch(s) ==
  /\ LoopFree
  /\ pc[s] = "inserted"
  /\ pc' = [pc EXCEPT ![s] = "created"]
  /\ UNCHANGED <<row, results, conn, config, next, frames, tally, worker, request, crashes>>

\* run: _load_config executes its SELECT ...
StartExecute(s) ==
  /\ LoopFree
  /\ pc[s] = "created"
  /\ pc' = [pc EXCEPT ![s] = "starting"]
  /\ conn' = [columns |-> "config", sweep |-> s]
  /\ UNCHANGED <<row, results, config, next, frames, tally, worker, request, crashes>>

\* ... and fetches: a row of the same columns is a configuration, whichever
\* sweep the thread that selected it asked for; with any other the task is over.
StartFetch(s) ==
  /\ pc[s] = "starting"
  /\ \/ /\ conn.columns = "config"
        /\ config' = [config EXCEPT ![s] = conn.sweep]
        /\ pc' = [pc EXCEPT ![s] = "loading"]
        /\ Write(s, "running", row[s])
     \/ /\ conn.columns # "config"
        /\ pc' = [pc EXCEPT ![s] = "over"]
        /\ conn' = Taken
        /\ UNCHANGED <<row, config>>
  /\ UNCHANGED <<results, next, frames, tally, worker, request, crashes>>

\* Mutant: a symbol that cannot be loaded starts the loads over.
AfterLoadRetry(s, loaded) == IF loaded THEN next[s] + 1 ELSE 1

\* The symbol the task turns to after a load: a failed one is not retried.
AfterLoad(s, loaded) == next[s] + 1

\* One symbol's bars: loaded, or a recorded error.
LoadBars(s) ==
  /\ LoopFree
  /\ pc[s] = "loading" /\ next[s] <= NumSymbols[config[s]]
  /\ \E loaded \in BOOLEAN :
       /\ frames' = [frames EXCEPT ![s] = IF loaded THEN @ \cup {next[s]} ELSE @]
       /\ next' = [next EXCEPT ![s] = AfterLoad(s, loaded)]
  /\ UNCHANGED <<row, results, conn, pc, config, tally, worker, request, crashes>>

\* Any exception but ValueError and KiteException leaves run: no row is written.
LoadRaises(s) ==
  /\ LoopFree
  /\ pc[s] = "loading" /\ next[s] <= NumSymbols[config[s]]
  /\ pc' = [pc EXCEPT ![s] = "over"]
  /\ UNCHANGED <<row, results, conn, config, next, frames, tally, worker, request, crashes>>

BarsLoaded(s) ==
  /\ LoopFree
  /\ pc[s] = "loading" /\ next[s] > NumSymbols[config[s]]
  /\ pc' = [pc EXCEPT ![s] = "cells"]
  /\ next' = [next EXCEPT ![s] = 1]
  /\ UNCHANGED <<row, results, conn, config, frames, tally, worker, request, crashes>>

\* A cell is accounted for, and the row's progress with it.
Count(s, counts) ==
  /\ tally' = [tally EXCEPT ![s] = counts]
  /\ Write(s, row[s].status, counts)
  /\ next' = [next EXCEPT ![s] = @ + 1]

Failed(counts) == [counts EXCEPT !.failed = @ + 1]
Completed(counts) == [counts EXCEPT !.completed = @ + 1]

CellUnavailable(s) ==
  /\ LoopFree
  /\ pc[s] = "cells" /\ next[s] \in Cells(config[s])
  /\ SymbolOf(config[s], next[s]) \notin frames[s]
  /\ Count(s, Failed(tally[s]))
  /\ UNCHANGED <<results, pc, config, frames, worker, request, crashes>>

CellStarts(s) ==
  /\ LoopFree
  /\ pc[s] = "cells" /\ next[s] \in Cells(config[s]) /\ worker[s] = "idle"
  /\ SymbolOf(config[s], next[s]) \in frames[s]
  /\ worker' = [worker EXCEPT ![s] = "running"]
  /\ UNCHANGED <<row, results, conn, taskVars, request, crashes>>

\* _run_cell_in_worker on its thread, whether or not its task still waits.
CellRuns(s) ==
  /\ worker[s] = "running"
  /\ \/ /\ worker' = [worker EXCEPT ![s] = "inserted"]
        /\ results' = [results EXCEPT ![s] = @ \cup {next[s]}]
     \/ /\ worker' = [worker EXCEPT ![s] = "raised"]
        /\ UNCHANGED results
  /\ UNCHANGED <<row, conn, taskVars, request, crashes>>

\* Mutant: what the worker raised is not looked at.
OutcomeBlind(s) == Completed(tally[s])

Outcome(s) == IF worker[s] = "inserted" THEN Completed(tally[s]) ELSE Failed(tally[s])

CellReturns(s) ==
  /\ LoopFree
  /\ pc[s] = "cells" /\ worker[s] \in {"inserted", "raised"}
  /\ Count(s, Outcome(s))
  /\ worker' = [worker EXCEPT ![s] = "idle"]
  /\ UNCHANGED <<results, pc, config, frames, request, crashes>>

Finish(s) ==
  /\ LoopFree
  /\ pc[s] = "cells" /\ next[s] > Total(config[s])
  /\ Write(s, FinalStatus(tally[s], Total(config[s])), tally[s])
  /\ pc' = [pc EXCEPT ![s] = "over"]
  /\ UNCHANGED <<results, config, next, frames, tally, worker, request, crashes>>

-----------------------------------------------------------------------------
(* The endpoints                                                           *)

\* The endpoints begin with SweepRunner.status on a worker thread: it executes ...
RequestExecute(r, s, kind) ==
  /\ request[r].at = "idle" /\ row[s] # NoRow
  /\ request' = [request EXCEPT ![r] = [kind |-> kind, sweep |-> s, at |-> "executed"]]
  /\ conn' = [columns |-> "status", sweep |-> s]
  /\ UNCHANGED <<row, results, taskVars, worker, crashes>>

\* ... and fetches whatever the shared connection holds by then.  Any status row
\* will do; with another the response is an error.
RequestFetch(r) ==
  /\ request[r].at = "executed"
  /\ request' = [request EXCEPT ![r] = IF conn.columns = "status" /\ @.kind # "status"
                                         THEN [@ EXCEPT !.at = "answered"] ELSE Idle]
  /\ conn' = Taken
  /\ UNCHANGED <<row, results, taskVars, worker, crashes>>

\* heatmap on its thread: _load_config executes ...
HeatmapExecute(r) ==
  /\ request[r].at = "mapping"
  /\ request' = [request EXCEPT ![r].at = "selected"]
  /\ conn' = [columns |-> "config", sweep |-> request[r].sweep]
  /\ UNCHANGED <<row, results, taskVars, worker, crashes>>

\* ... and fetches: with any configuration it queries backtest_runs.
HeatmapFetch(r) ==
  /\ request[r].at = "selected"
  /\ request' = [request EXCEPT ![r] = IF conn.columns = "config" THEN [@ EXCEPT !.at = "loaded"]
                                                               ELSE Idle]
  /\ conn' = Taken
  /\ UNCHANGED <<row, results, taskVars, worker, crashes>>

HeatmapRows(r) ==
  /\ request[r].at = "loaded"
  /\ request' = [request EXCEPT ![r] = Idle]
  /\ conn' = Taken
  /\ UNCHANGED <<row, results, taskVars, worker, crashes>>

\* Mutant: the task swallows the cancellation and goes on.
AfterCancelOn(s) == pc[s]

\* Where a cancelled task ends.
AfterCancel(s) == "over"

\* The cancel endpoint cancels a live task.  One that never ran has no chance
\* to write its row; a worker thread runs on.
CancelTask(s) ==
  \/ /\ Suspended(s)
     /\ Write(s, "cancelled", tally[s])
     /\ pc' = [pc EXCEPT ![s] = AfterCancel(s)]
  \/ /\ pc[s] = "created"
     /\ pc' = [pc EXCEPT ![s] = "over"]
     /\ UNCHANGED <<row, conn>>
  \/ /\ pc[s] \in {"inserted", "over"}
     /\ UNCHANGED <<row, conn, pc>>

\* The handler goes on: it cancels the task, or starts the heatmap's thread.
Respond(r) ==
  /\ LoopFree
  /\ request[r].at = "answered"
  /\ \/ /\ request[r].kind = "cancel"
        /\ CancelTask(request[r].sweep)
        /\ request' = [request EXCEPT ![r] = Idle]
     \/ /\ request[r].kind = "heatmap"
        /\ request' = [request EXCEPT ![r].at = "mapping"]
        /\ UNCHANGED <<row, conn, pc>>
  /\ UNCHANGED <<results, config, next, frames, tally, worker, crashes>>

-----------------------------------------------------------------------------
\* The dashboard dies and starts again: the rows survive, no task does.
Crash ==
  /\ crashes < MaxCrashes
  /\ crashes' = crashes + 1
  /\ pc' = [s \in Sweeps |-> IF pc[s] = "none" THEN "none" ELSE "over"]
  /\ worker' = [s \in Sweeps |-> "idle"]
  /\ request' = [r \in Requests |-> Idle]
  /\ conn' = Taken
  /\ UNCHANGED <<row, results, config, next, frames, tally>>

TaskStep(s) ==
  \/ StartExecute(s) \/ StartFetch(s)
  \/ LoadBars(s) \/ LoadRaises(s) \/ BarsLoaded(s)
  \/ CellUnavailable(s) \/ CellStarts(s) \/ CellReturns(s) \/ Finish(s)

Next ==
  \/ \E s \in Sweeps : Create(s) \/ Launch(s) \/ TaskStep(s) \/ CellRuns(s)
  \/ \E r \in Requests, s \in Sweeps, kind \in {"status", "cancel", "heatmap"} :
       RequestExecute(r, s, kind)
  \/ \E r \in Requests :
       \/ RequestFetch(r) \/ Respond(r)
       \/ HeatmapExecute(r) \/ HeatmapFetch(r) \/ HeatmapRows(r)
  \/ Crash

\* The event loop resumes every task that can go on, threads end, and so does
\* every request for bars: it has a timeout.
Fairness == \A s \in Sweeps : WF_vars(TaskStep(s)) /\ WF_vars(CellRuns(s))

Spec == Init /\ [][Next]_vars /\ Fairness

-----------------------------------------------------------------------------
(* Properties                                                              *)

\* Types.
TypeOK ==
  /\ row \in [Sweeps -> Row]
  /\ results \in [Sweeps -> SUBSET (1 .. MaxSweepCells)]
  /\ conn \in Selected \cup {Taken}
  /\ pc \in [Sweeps -> Stages]
  /\ config \in [Sweeps -> Sweeps]
  /\ next \in [Sweeps -> Nat \ {0}]
  /\ frames \in [Sweeps -> SUBSET Nat]
  /\ tally \in [Sweeps -> [completed : Counter, failed : Counter]]
  /\ worker \in [Sweeps -> {"idle", "running", "inserted", "raised"}]
  /\ request \in [Requests -> Asked]
  /\ crashes \in 0 .. MaxCrashes

\* The counts of a sweep's row are those of its results in backtest_runs: never
\* off by more than the one cell whose thread a cancellation or a crash overtook,
\* and, once the sweep is done or failed, exact and complete - for the cells of
\* the configuration its task ran.  That is its own, and its total the row's,
\* unless a heatmap of another sweep crossed its start: then it is the other's.
CountsTellResults ==
  \A s \in Sweeps :
    /\ Cardinality(results[s]) \in row[s].completed .. row[s].completed + 1
    /\ results[s] \subseteq Cells(config[s])
    /\ row[s].status \in {"done", "failed"} =>
         /\ row[s].completed = Cardinality(results[s])
         /\ row[s].completed + row[s].failed = Total(config[s])

\* A done sweep has something to rank, a failed one nothing.
StatusTellsResults ==
  \A s \in Sweeps :
    /\ row[s].status = "done" => results[s] # {}
    /\ row[s].status = "failed" => results[s] = {}

\* Once the page has stopped polling a sweep its row never changes again,
\* whatever its threads and later requests do.
SettledStays ==
  [][\A s \in Sweeps : row[s].status \in Terminal => row'[s] = row[s]]_vars

\* Every sweep's task comes to its end, whatever its loads, cells and clients do.
SweepEnds == \A s \in Sweeps : pc[s] = "created" ~> pc[s] = "over"
=============================================================================
