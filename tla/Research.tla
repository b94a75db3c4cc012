------------------------------ MODULE Research ------------------------------
(***************************************************************************)
(* The dashboard's research requests at work at once: single, group and    *)
(* combined backtests (dashboard/services/backtest_runner.py), screens     *)
(* (screener/runner.py, dashboard/services/screener_service.py) and the    *)
(* review of a run or a sweep (dashboard/services/run_tuner.py).           *)
(*                                                                         *)
(* Combined backtests, screens and reviews hold write_lock; single and     *)
(* group backtests run on worker threads without it.  All of them share    *)
(* the candles and the dashboard's tables; time goes on while they work,   *)
(* and the dashboard may die between two statements.                       *)
(*                                                                         *)
(* A strategy with its parameters is a name; what the engine makes of it   *)
(* is in BacktestEngine.  The lock's order of service is in                *)
(* DashboardSettings.                                                      *)
(***************************************************************************)
EXTENDS Screener, Composite, Advice, SequencesExt

CONSTANTS Clients, Nobody,
          Symbols,
          Universe,     \* the screener's symbols, in order
          Tokens,       \* those with an instrument_token
          Names,        \* strategies a request may name, with parameters
          Buildable,    \* those whose constructor takes its parameters
          Combined,     \* the strategy of a combined run's row
          Synthetic,    \* generated bars
          Formulas, DefaultFormula,   \* sequences of filters
          Sweeps,       \* [id -> [status, board]]: finished and other sweeps
          Requests,
          Stored,       \* the candles in the store at first
          MaxRequests, MaxCrashes     \* bounds

VARIABLES now,      \* the bar that is running
          candles,  \* the candles table
          runs,     \* backtest_runs; a row's id is its place
          groups,   \* backtest_groups
          screens, picks,   \* screener_runs, screener_picks
          tunings,  \* run_tunings
          holder,   \* write_lock
          client,   \* each client's handler
          requests,
          cut,      \* the screens a crash left without some of their picks
          crashes

vars == <<now, candles, runs, groups, screens, picks, tunings, holder, client, requests,
          cut, crashes>>

Registered == DOMAIN Schemas

Backtests == {"run", "group", "combined"}
MaxMembers == 8
Request ==
  {r \in [kind : Backtests, source : {"synthetic", "kite"}, symbol : Symbols,
          from : Times, to : Times, members : Seq(Names)] :
     Len(r.members) \in CASE r.kind = "run" -> 1 .. 1
                          [] r.kind = "group" -> 1 .. MaxMembers
                          [] r.kind = "combined" -> 2 .. MaxMembers}
    \cup [kind : {"screen"}, fetch : BOOLEAN, back : Nat]
    \cup [kind : {"tune"}, scope : {"run", "sweep"}]

ASSUME RequestsAssumption == Requests \subseteq Request
ASSUME ScreensAssumption == Universe \in Seq(Symbols) /\ Tokens \subseteq Symbols
ASSUME StoredAssumption == DOMAIN Stored = Symbols
ASSUME BoundsAssumption == MaxRequests \in Nat /\ MaxCrashes \in Nat

NoRequest == [kind |-> "none"]
Idle == [at |-> "idle", request |-> NoRequest, id |-> 0, left |-> <<>>, gaps |-> {},
         answered |-> NoBars, bars |-> NoBars, crossed |-> FALSE, filters |-> <<>>,
         candles |-> NoBars]

Init ==
  /\ now = Min(Times)
  /\ candles = Stored
  /\ runs = <<>> /\ groups = {} /\ screens = {} /\ picks = {} /\ tunings = {}
  /\ holder = Nobody
  /\ client = [c \in Clients |-> Idle]
  /\ requests = 0 /\ cut = {} /\ crashes = 0

-----------------------------------------------------------------------------
(* Requests and the lock                                                   *)

At(c, kinds, at) == client[c].at = at /\ client[c].request.kind \in kinds

Locked == {"combined", "screen", "tune"}

\* The checks of the endpoints, before anything is run: a group lists no
\* strategy twice, and neither it nor a combination an unknown one.
Rejected(r) ==
  \/ /\ r.kind = "group"
     /\ \E i, j \in DOMAIN r.members : i # j /\ r.members[i] = r.members[j]
  \/ /\ r.kind \in {"group", "combined"}
     /\ \E i \in DOMAIN r.members : r.members[i] \notin Registered

FirstStep(kind) ==
  CASE kind \in Backtests -> "load"
    [] kind = "screen" -> "formula"
    [] kind = "tune" -> "ask"

Arrive(c) ==
  /\ client[c].at = "idle" /\ requests < MaxRequests
  /\ \E r \in Requests :
       client' = IF Rejected(r) THEN client
                 ELSE [client EXCEPT ![c] =
                         [Idle EXCEPT !.request = r, !.id = requests + 1,
                            !.at = IF r.kind \in Locked THEN "waiting" ELSE FirstStep(r.kind),
                            !.left = IF r.kind \in Backtests THEN r.members ELSE Universe]]
  /\ requests' = requests + 1
  /\ UNCHANGED <<now, candles, runs, groups, screens, picks, tunings, holder, cut, crashes>>

\* async with write_lock
Take(c) ==
  /\ client[c].at = "waiting" /\ holder = Nobody
  /\ holder' = c
  /\ client' = [client EXCEPT ![c].at = FirstStep(client[c].request.kind)]
  /\ UNCHANGED <<now, candles, runs, groups, screens, picks, tunings, requests, cut, crashes>>

\* The handler answers, with a result or an error.
Done(c) ==
  /\ client' = [client EXCEPT ![c] = Idle]
  /\ holder' = IF holder = c THEN Nobody ELSE holder

Continue(c, new) == client' = [client EXCEPT ![c] = new] /\ UNCHANGED holder

-----------------------------------------------------------------------------
(* Bars                                                                    *)

Screening(c) == client[c].request.kind = "screen"
SymbolOf(c) == IF Screening(c) THEN Head(client[c].left) ELSE client[c].request.symbol
FromOf(c) == IF Screening(c) THEN Min(Times) ELSE client[c].request.from
ToOf(c) == IF Screening(c) THEN now ELSE client[c].request.to
Skipped(c) == [client[c] EXCEPT !.at = "scan", !.left = Tail(@), !.bars = NoBars, !.answered = NoBars]

\* make_synthetic_bars: nothing is stored.
Generate(c) ==
  /\ At(c, Backtests, "load") /\ client[c].request.source = "synthetic"
  /\ Continue(c, [client[c] EXCEPT !.at = "members", !.bars = Synthetic])
  /\ UNCHANGED <<now, candles, runs, groups, screens, picks, tunings, requests, cut, crashes>>

FromKite(c) == ~Screening(c) => client[c].request.source = "kite"

\* Credentials, the token or the dates are refused, or Kite raises: a backtest
\* has failed, a screen goes on to the next symbol if it was a KiteException.
FetchFails(c) ==
  /\ client[c].at \in {"load", "patch"} /\ FromKite(c)
  /\ \/ Done(c)
     \/ Screening(c) /\ Continue(c, Skipped(c))
  /\ UNCHANGED <<now, candles, runs, groups, screens, picks, tunings, requests, cut, crashes>>

\* fetch_and_store: the first answer, and the gaps in it (fill_gaps is for
\* backtests only) ...
Fetch(c) ==
  /\ client[c].at = "load" /\ FromKite(c)
  /\ \E rows \in Answers(SymbolOf(c), FromOf(c), ToOf(c), now) :
       LET gaps == IF Screening(c) THEN {} ELSE Gaps(rows)
       IN  Continue(c, [client[c] EXCEPT !.at = IF gaps = {} THEN "store" ELSE "patch",
                                         !.bars = rows, !.answered = rows, !.gaps = gaps])
  /\ UNCHANGED <<now, candles, runs, groups, screens, picks, tunings, requests, cut, crashes>>

\* ... each gap asked for again ...
Patch(c) ==
  /\ client[c].at = "patch"
  /\ LET gap == FirstGap(client[c].gaps)
         gaps == client[c].gaps \ {gap}
     IN  \E rows \in Answers(SymbolOf(c), gap[1], gap[2], now) :
           LET bars == Patched(client[c].bars, rows)
           IN  Continue(c, [client[c] EXCEPT !.at = IF gaps = {} THEN "store" ELSE "patch",
                                             !.bars = bars, !.answered = bars, !.gaps = gaps])
  /\ UNCHANGED <<now, candles, runs, groups, screens, picks, tunings, requests, cut, crashes>>

\* ... and the rows stored; whoever is about to read them again will see these.
Store(c) ==
  /\ client[c].at = "store"
  /\ candles' = [candles EXCEPT ![SymbolOf(c)] = Upserted(@, client[c].bars)]
  /\ client' = [d \in Clients |->
                  IF d = c THEN [client[c] EXCEPT !.at = "read"]
                  ELSE IF client[d].at = "read" /\ SymbolOf(d) = SymbolOf(c)
                    THEN [client[d] EXCEPT !.crossed = TRUE]
                  ELSE client[d]]
  /\ UNCHANGED <<now, runs, groups, screens, picks, tunings, holder, requests, cut, crashes>>

\* A backtest runs on the candles now stored for its range, if any.
ReadBars(c) ==
  /\ At(c, Backtests, "read")
  /\ LET bars == GetBars(candles[SymbolOf(c)], FromOf(c), ToOf(c))
     IN  IF bars = NoBars THEN Done(c)
         ELSE Continue(c, [client[c] EXCEPT !.at = "members", !.bars = bars])
  /\ UNCHANGED <<now, candles, runs, groups, screens, picks, tunings, requests, cut, crashes>>

-----------------------------------------------------------------------------
(* Backtests                                                               *)

\* The row a run inserts; of a composite's run it tells one bar and its signal.
RunRow(c, strategy, group) ==
  [strategy |-> strategy, group |-> group, symbol |-> client[c].request.symbol,
   bars |-> client[c].bars, answered |-> client[c].answered, crossed |-> client[c].crossed,
   ballot |-> <<>>, direction |-> "any", price |-> "average", signal |-> Abstains]

\* Mutant: the bars are loaded for every member anew.
NextMemberReload(kind) == IF kind = "group" THEN "read" ELSE "members"

NextMember(kind) == "members"

\* _run_member: the strategy is made and run, and its row inserted; run_group
\* gives up at the first member that cannot be made.
RunMember(c) ==
  /\ At(c, {"run", "group"}, "members")
  /\ LET h == client[c]
         group == IF h.request.kind = "group" THEN h.id ELSE 0
     IN  IF Head(h.left) \notin Buildable THEN Done(c) /\ UNCHANGED runs
         ELSE /\ runs' = Append(runs, RunRow(c, Head(h.left), group))
              /\ IF group = 0 THEN Done(c)
                 ELSE Continue(c, [h EXCEPT !.left = Tail(@),
                         !.at = IF Len(h.left) = 1 THEN "header" ELSE NextMember(h.request.kind)])
  /\ UNCHANGED <<now, candles, groups, screens, picks, tunings, requests, cut, crashes>>

\* run_group: the group's row comes after its members.
Header(c) ==
  /\ At(c, {"group"}, "header")
  /\ groups' = groups \cup {[id |-> client[c].id, members |-> Len(client[c].request.members),
                             bars |-> client[c].bars]}
  /\ Done(c)
  /\ UNCHANGED <<now, candles, runs, screens, picks, tunings, requests, cut, crashes>>

\* run_combined: every child is made before the engine runs, and one row inserted.
\* Policy and votes are any.
Combine(c) ==
  /\ At(c, {"combined"}, "members")
  /\ \/ /\ \E i \in DOMAIN client[c].left : client[c].left[i] \notin Buildable
        /\ UNCHANGED runs
     \/ /\ \A i \in DOMAIN client[c].left : client[c].left[i] \in Buildable
        /\ \E b \in Ballots, d \in Directions, p \in Prices :
             /\ Len(b) = Len(client[c].left)
             /\ runs' = Append(runs, [RunRow(c, Combined, 0) EXCEPT
                                        !.ballot = b, !.direction = d, !.price = p,
                                        !.signal = OnBar(b, d, p)])
  /\ Done(c)
  /\ UNCHANGED <<now, candles, groups, screens, picks, tunings, requests, cut, crashes>>

\* get_group, list_runs: the rows of a group.
MembersOf(id) == {i \in DOMAIN runs : runs[i].group = id}

-----------------------------------------------------------------------------
(* Screens                                                                 *)

\* ScreenerService.run and LLMScreener.generate: the provider's credentials or
\* Kite's are missing, or there is a formula, the default one at worst.
Formula(c) ==
  /\ At(c, {"screen"}, "formula")
  /\ \/ Done(c)
     \/ \E f \in Formulas \cup {DefaultFormula} :
          Continue(c, [client[c] EXCEPT !.at = "scan", !.filters = f])
  /\ UNCHANGED <<now, candles, runs, groups, screens, picks, tunings, requests, cut, crashes>>

\* What a symbol's stored candles add to the screen's.
Loaded(c, s) ==
  LET bars == Newest(candles[s], client[c].request.back)
  IN  [client[c] EXCEPT !.at = "scan", !.left = Tail(@),
         !.bars = NoBars, !.answered = NoBars, !.crossed = FALSE,
         !.candles = IF bars = NoBars THEN @
                     ELSE [d \in DOMAIN @ \cup {s} |-> IF d = s THEN bars ELSE @[d]]]

\* _load_candles: only a symbol without any candle is fetched.
Scan(c) ==
  /\ At(c, {"screen"}, "scan") /\ client[c].left # <<>>
  /\ LET s == Head(client[c].left)
     IN  Continue(c, IF candles[s] = NoBars /\ client[c].request.fetch /\ s \in Tokens
                       THEN [client[c] EXCEPT !.at = "load"] ELSE Loaded(c, s))
  /\ UNCHANGED <<now, candles, runs, groups, screens, picks, tunings, requests, cut, crashes>>

\* _try_fetch reads what it has stored.
ReadFetched(c) ==
  /\ At(c, {"screen"}, "read")
  /\ Continue(c, Loaded(c, SymbolOf(c)))
  /\ UNCHANGED <<now, candles, runs, groups, screens, picks, tunings, requests, cut, crashes>>

\* record_run inserts the screen's row ...
Record(c) ==
  /\ At(c, {"screen"}, "scan") /\ client[c].left = <<>>
  /\ LET h == client[c]
         passed == SetToSeq(Evaluate(h.filters, h.candles))
     IN  /\ screens' = screens \cup
              {[id |-> h.id, filters |-> h.filters, candles |-> h.candles,
                eligible |-> Cardinality(DOMAIN h.candles),
                passed |-> Len(passed)]}
         /\ IF passed = <<>> THEN Done(c)
            ELSE Continue(c, [h EXCEPT !.at = "picks", !.left = passed])
  /\ UNCHANGED <<now, candles, runs, groups, picks, tunings, requests, cut, crashes>>

\* ... and its picks, one by one.
Pick(c) ==
  /\ At(c, {"screen"}, "picks")
  /\ LET h == client[c]
     IN  /\ picks' = picks \cup {[screen |-> h.id, symbol |-> Head(h.left)]}
         /\ IF Len(h.left) = 1 THEN Done(c) ELSE Continue(c, [h EXCEPT !.left = Tail(@)])
  /\ UNCHANGED <<now, candles, runs, groups, screens, tunings, requests, cut, crashes>>

\* list_picks
PicksOf(id) == {p.symbol : p \in {q \in picks : q.screen = id}}

-----------------------------------------------------------------------------
(* Reviews                                                                 *)

Reviewable(scope) ==
  IF scope = "run" THEN {i \in DOMAIN runs : runs[i].strategy \in Registered}
  ELSE {s \in DOMAIN Sweeps : Sweeps[s].status = "done" /\ Sweeps[s].board # <<>>}

\* tune_run and tune_sweep: the run or sweep is missing, of a strategy without a
\* schema or not finished, or the key is; or the model is asked.
Ask(c) ==
  /\ At(c, {"tune"}, "ask")
  /\ \/ Done(c)
     \/ /\ Reviewable(client[c].request.scope) # {}
        /\ Continue(c, [client[c] EXCEPT !.at = "answer"])
  /\ UNCHANGED <<now, candles, runs, groups, screens, picks, tunings, requests, cut, crashes>>

\* _persist_record
Answer(c) ==
  /\ At(c, {"tune"}, "answer")
  /\ \E a \in Advised :
       tunings' = tunings \cup {[id |-> client[c].id, scope |-> client[c].request.scope,
                                 status |-> a.status, recs |-> a.recs]}
  /\ Done(c)
  /\ UNCHANGED <<now, candles, runs, groups, screens, picks, requests, cut, crashes>>

-----------------------------------------------------------------------------
Tick ==
  /\ now < Max(Times)
  /\ now' = now + 1
  /\ UNCHANGED <<candles, runs, groups, screens, picks, tunings, holder, client, requests,
                 cut, crashes>>

\* The dashboard dies; what was executed is in the database.
Crash ==
  /\ crashes < MaxCrashes
  /\ crashes' = crashes + 1
  /\ client' = [c \in Clients |-> Idle]
  /\ holder' = Nobody
  /\ cut' = cut \cup {client[c].id : c \in {d \in Clients : client[d].at = "picks"}}
  /\ UNCHANGED <<now, candles, runs, groups, screens, picks, tunings, requests>>

Next ==
  \/ \E c \in Clients :
       \/ Arrive(c) \/ Take(c)
       \/ Generate(c) \/ Fetch(c) \/ FetchFails(c) \/ Patch(c) \/ Store(c) \/ ReadBars(c)
       \/ RunMember(c) \/ Header(c) \/ Combine(c)
       \/ Formula(c) \/ Scan(c) \/ ReadFetched(c) \/ Record(c) \/ Pick(c)
       \/ Ask(c) \/ Answer(c)
  \/ Tick \/ Crash

Spec == Init /\ [][Next]_vars

-----------------------------------------------------------------------------
(* Properties                                                              *)

\* run_group promises bars "loaded once" and rows that join up: a group the
\* compare page finds has every member it counts, and all of them were run on
\* the group's own bars, whatever was stored meanwhile.
GroupsComparable ==
  \A g \in groups :
    /\ Cardinality(MembersOf(g.id)) = g.members
    /\ \A i \in MembersOf(g.id) : runs[i].bars = g.bars

\* A backtest on Kite's candles runs on every bar Kite answered it with, and where
\* that bar was final on a final one - unless another request stored its own
\* answer just before the bars were read.  Of bars that were stored before and are
\* not in the answer it says nothing: they are run on as they were.
RunsUseFetchedBars ==
  \A i \in DOMAIN runs :
    \A t \in DOMAIN runs[i].answered :
      /\ t \in DOMAIN runs[i].bars
      /\ runs[i].answered[t].final => runs[i].bars[t].final \/ runs[i].crossed

Recording(id) == \E c \in Clients : client[c].at = "picks" /\ client[c].id = id

\* A screen's picks are symbols with enough candles that pass all its filters,
\* and as many as its row says - once they are written, and unless a crash fell
\* between the row and its picks.
PicksMeetFormula ==
  \A s \in screens :
    /\ \A y \in PicksOf(s.id) :
         /\ Cardinality(DOMAIN s.candles[y]) >= MinBars
         /\ \A i \in DOMAIN s.filters : Matches(s.filters[i], s.candles[y])
    /\ Cardinality(PicksOf(s.id)) <= s.passed /\ s.passed <= s.eligible
    /\ Cardinality(PicksOf(s.id)) = s.passed \/ Recording(s.id) \/ s.id \in cut

\* What a review stores is inside the form's bounds: known strategies with some of
\* their parameters, each between its min and max and whole where it must be,
\* whatever numbers the model answered with; and nothing comes of a failed call.
\* That a constructor then takes them is more: some compare two parameters, as
\* ema_crossover does fast and slow, and no bound says that.
AdviceInBounds ==
  \A t \in tunings :
    /\ t.status # "ok" => t.recs = <<>>
    /\ DOMAIN t.recs \subseteq 1 .. MaxItems
    /\ \A i \in DOMAIN t.recs :
         LET r == t.recs[i]
         IN  /\ r.strategy \in Registered
             /\ DOMAIN r.params # {} /\ DOMAIN r.params \subseteq DOMAIN Schemas[r.strategy]
             /\ \A p \in DOMAIN r.params :
                  LET spec == Schemas[r.strategy][p]
                  IN  /\ r.params[p] \in spec.min .. spec.max
                      /\ spec.int => r.params[p] % 2 = 0

\* A row's signal is one the engine accepts, no child votes the other way, its
\* levels lie between those of its voters, and a lone voter is followed exactly.
Follows(r) ==
  LET voters == {k \in DOMAIN r.ballot : r.ballot[k] # Abstains}
      Between(x, level) ==
        \E j, k \in voters : r.ballot[j][level] <= x /\ x <= r.ballot[k][level]
  IN  /\ r.signal # Abstains =>
           /\ IF r.signal.side = "BUY"
                THEN r.signal.stop < r.signal.entry /\ r.signal.entry < r.signal.target
                ELSE r.signal.target < r.signal.entry /\ r.signal.entry < r.signal.stop
           /\ voters # {} /\ \A k \in voters : r.ballot[k].side = r.signal.side
           /\ Between(r.signal.stop, "stop") /\ Between(r.signal.target, "target")
           /\ r.direction = "unanimous" => voters = DOMAIN r.ballot
      /\ \A k \in voters :
           voters = {k} /\ r.direction # "unanimous" =>
             \A f \in {"side", "entry", "stop", "target"} : r.signal[f] = r.ballot[k][f]

\* A composite trades with its children, never against one.
CompositeFollowsChildren == \A i \in DOMAIN runs : Follows(runs[i])
=============================================================================
