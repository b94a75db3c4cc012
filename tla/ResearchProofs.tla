--------------------------- MODULE ResearchProofs ---------------------------
(***************************************************************************)
(* Proofs about Research: backtests run on the bars Kite answered them     *)
(* with, the members of a group on the same bars, a screen's picks are its *)
(* formula's, composites follow their children and advice stays in its     *)
(* bounds - for all clients, requests, symbols, formulas, votes and        *)
(* answers, and any number of crashes.                                     *)
(***************************************************************************)
EXTENDS Research, SequenceTheorems, FiniteSetTheorems, WellFoundedInduction, TLAPS

-----------------------------------------------------------------------------
(* The invariants                                                          *)

Fields == {"at", "request", "id", "left", "gaps", "answered", "bars", "crossed", "filters",
           "candles"}
Stages == {"idle", "waiting", "load", "patch", "store", "read", "members", "header",
           "formula", "scan", "picks", "ask", "answer"}

\* What a handler is at work on; it is a backtest, a screen or a review.
Sound(h) ==
  /\ DOMAIN h = Fields
  /\ h.at \in Stages
  /\ h.at = "idle" => h = Idle
  /\ h.at # "idle" => h.request \in Requests /\ h.id \in 1 .. requests
  /\ h.at = "waiting" => h.request.kind \in Locked
  /\ h.left \in Seq(Names \cup Symbols)
  /\ h.at \in {"patch", "members"} => h.request.kind \in Backtests
  /\ h.at = "header" => h.request.kind = "group"
  /\ h.at = "picks" => h.request.kind = "screen"
  /\ h.at \in {"load", "store", "read"} => h.request.kind \in Backtests \cup {"screen"}
  /\ h.request.kind = "screen" /\ h.at \notin {"waiting", "formula", "scan"} => h.left # <<>>
  /\ h.request.kind = "group" /\ h.at = "members" => h.left # <<>>
  /\ DOMAIN h.candles \subseteq Names \cup Symbols /\ IsFiniteSet(DOMAIN h.candles)

\* Handlers have their ids to themselves.
Base ==
  /\ requests \in Nat
  /\ DOMAIN candles = Symbols
  /\ \E S : runs \in Seq(S)
  /\ DOMAIN client = Clients
  /\ \A c \in Clients : Sound(client[c])
  /\ \A c, d \in Clients : client[c].id = client[d].id => c = d \/ client[c].id = 0

\* A backtest keeps what Kite answered, then what was stored of it, then bars
\* that include it.
InRange(h, bars) == \A t \in DOMAIN bars : h.request.from <= t /\ t <= h.request.to

Keeps(h) ==
  /\ h.at \in {"load", "waiting"} => h.answered = NoBars
  /\ h.at \in {"patch", "store", "read"} => InRange(h, h.answered)
  /\ h.at \in {"patch", "store"} => h.bars = h.answered
  /\ h.at = "patch" =>
       /\ h.gaps # {} /\ DOMAIN h.bars \subseteq Times
       /\ \A g \in h.gaps : g[1] \in DOMAIN h.bars /\ g[2] \in DOMAIN h.bars
  /\ h.at = "read" =>
       \A t \in DOMAIN h.answered :
         /\ t \in DOMAIN candles[h.request.symbol]
         /\ h.crossed \/ candles[h.request.symbol][t] = h.answered[t]
  /\ h.at = "members" =>
       \A t \in DOMAIN h.answered :
         /\ t \in DOMAIN h.bars
         /\ h.answered[t].final => h.bars[t].final \/ h.crossed
Fetched ==
  /\ RunsUseFetchedBars
  /\ \A c \in Clients : client[c].request.kind \in Backtests => Keeps(client[c])

\* The rows a group's handler has written so far, all on its own bars.
Joined(h) ==
  /\ h.at \in {"load", "patch", "store", "read"} =>
       MembersOf(h.id) = {} /\ h.left = h.request.members
  /\ h.at = "members" =>
       Cardinality(MembersOf(h.id)) + Len(h.left) = Len(h.request.members)
  /\ h.at = "header" => Cardinality(MembersOf(h.id)) = Len(h.request.members)
  /\ h.at \in {"members", "header"} => \A i \in MembersOf(h.id) : runs[i].bars = h.bars
Grouped ==
  /\ GroupsComparable
  /\ \A i \in DOMAIN runs : runs[i].group \in 0 .. requests
  /\ \A g \in groups : g.id \in 1 .. requests /\ \A c \in Clients : client[c].id # g.id
  /\ \A c \in Clients : client[c].request.kind = "group" => Joined(client[c])

\* A screen has the picks of its formula, or those its handler still has to
\* write, or a crash took them.
Passing(s) == Evaluate(s.filters, s.candles)

Picked ==
  /\ \A q \in picks : q.screen \in 1 .. requests
  /\ \A s \in screens :
       /\ s.id \in 1 .. requests
       /\ IsFiniteSet(DOMAIN s.candles)
       /\ s.eligible = Cardinality(DOMAIN s.candles)
       /\ s.passed = Cardinality(Passing(s))
       /\ PicksOf(s.id) \subseteq Passing(s)
       /\ PicksOf(s.id) = Passing(s) \/ Recording(s.id) \/ s.id \in cut
  /\ \A c \in Clients :
       /\ client[c].at = "picks" =>
            \A s \in screens : s.id = client[c].id =>
                PicksOf(s.id) \cup ToSet(client[c].left) = Passing(s)
       /\ client[c].at # "picks" =>
            /\ \A s \in screens : s.id # client[c].id
            /\ \A q \in picks : q.screen # client[c].id

-----------------------------------------------------------------------------
(* Requests and handlers                                                   *)

LEMMA RequestFields ==
  ASSUME NEW r \in Requests
  PROVE  /\ r.kind \in Backtests \cup {"screen", "tune"}
         /\ r.kind \in Backtests =>
              /\ r.symbol \in Symbols /\ r.from \in Times /\ r.to \in Times
              /\ r.members \in Seq(Names) /\ Len(r.members) \in 1 .. MaxMembers
<1>1. r \in Request
  BY RequestsAssumption
<1>2. CASE r \in [kind : {"screen"}, fetch : BOOLEAN, back : Nat]
  BY <1>2 DEF Backtests
<1>3. CASE r \in [kind : {"tune"}, scope : {"run", "sweep"}]
  BY <1>3 DEF Backtests
<1>4. CASE /\ r \in [kind : Backtests, source : {"synthetic", "kite"}, symbol : Symbols,
                     from : Times, to : Times, members : Seq(Names)]
           /\ Len(r.members) \in CASE r.kind = "run" -> 1 .. 1
                                   [] r.kind = "group" -> 1 .. MaxMembers
                                   [] r.kind = "combined" -> 2 .. MaxMembers
  <2>1. r.kind \in {"run", "group", "combined"} /\ Len(r.members) \in Nat
    BY <1>4 DEF Backtests
  <2>2. Len(r.members) \in 1 .. MaxMembers
    BY <1>4, <2>1 DEF MaxMembers
  <2> QED
    BY <1>4, <2>2
<1> QED
  BY <1>1, <1>2, <1>3, <1>4 DEF Request

LEMMA IdleIsSound == Sound(Idle)
<1>1. DOMAIN Idle = Fields
  BY DEF Idle, Fields
<1>2. /\ Idle.at = "idle" /\ Idle.left = <<>> /\ Idle.candles = NoBars
      /\ Idle.request = NoRequest
  BY DEF Idle
<1>3. DOMAIN NoBars = {}
  BY DEF NoBars
<1>4. IsFiniteSet(DOMAIN Idle.candles)
  BY <1>2, <1>3, FS_EmptySet
<1> QED
  BY <1>1, <1>2, <1>3, <1>4 DEF Sound, Stages, NoRequest

\* A step of one handler, and nothing else to do with handlers.
LEMMA BaseKept ==
  ASSUME Base, NEW c \in Clients, NEW new, client' = [client EXCEPT ![c] = new],
         Sound(new), new = Idle \/ new.id = client[c].id,
         requests' = requests, DOMAIN candles' = Symbols, \E S : runs' \in Seq(S)
  PROVE  Base'
<1>1. /\ DOMAIN client' = Clients /\ client'[c] = new
      /\ \A d \in Clients : d # c => client'[d] = client[d]
  BY DEF Base
<1>2. \A d \in Clients : Sound(client[d])'
  <2> TAKE d \in Clients
  <2>1. Sound(client[d]) /\ Sound(client'[d])
    BY <1>1 DEF Base
  <2> QED
    BY <2>1 DEF Sound
<1>3. Idle.id = 0
  BY DEF Idle
<1>4. \A d, e \in Clients : client'[d].id = client'[e].id => d = e \/ client'[d].id = 0
  BY <1>1, <1>3 DEF Base
<1> QED
  BY <1>1, <1>2, <1>4 DEF Base

LEMMA BaseDone ==
  ASSUME Base, NEW c \in Clients, Done(c),
         requests' = requests, candles' = candles, \E S : runs' \in Seq(S)
  PROVE  Base'
BY BaseKept, IdleIsSound DEF Done, Base

LEMMA BaseStep ==
  ASSUME Base, NEW c \in Clients, NEW new, client' = [client EXCEPT ![c] = new],
         Sound(new), new.id = client[c].id, UNCHANGED <<requests, candles, runs>>
  PROVE  Base'
<1>1. DOMAIN candles' = Symbols /\ \E S : runs' \in Seq(S)
  BY DEF Base
<1> QED
  BY <1>1, BaseKept

LEMMA BaseArrive == ASSUME Base, NEW c \in Clients, Arrive(c) PROVE Base'
<1>1. PICK r \in Requests :
        client' = IF Rejected(r) THEN client
                  ELSE [client EXCEPT ![c] =
                          [Idle EXCEPT !.request = r, !.id = requests + 1,
                             !.at = IF r.kind \in Locked THEN "waiting" ELSE FirstStep(r.kind),
                             !.left = IF r.kind \in Backtests THEN r.members ELSE Universe]]
  BY DEF Arrive
<1>2. /\ client[c].at = "idle" /\ requests' = requests + 1 /\ requests' \in Nat
      /\ candles' = candles /\ runs' = runs
  BY DEF Arrive, Base
<1>3. ASSUME NEW h, Sound(h) PROVE Sound(h)'
  BY <1>2, <1>3 DEF Sound, Base
<1>4. PICK new : new = [Idle EXCEPT !.request = r, !.id = requests + 1,
                          !.at = IF r.kind \in Locked THEN "waiting" ELSE FirstStep(r.kind),
                          !.left = IF r.kind \in Backtests THEN r.members ELSE Universe]
  OBVIOUS
<1>5. /\ DOMAIN new = Fields /\ new.request = r /\ new.id = requests + 1
      /\ new.at = IF r.kind \in Locked THEN "waiting" ELSE FirstStep(r.kind)
      /\ new.left = IF r.kind \in Backtests THEN r.members ELSE Universe
      /\ new.candles = NoBars
  BY <1>4 DEF Idle, Fields
<1>6. /\ r.kind \in {"run", "group", "combined", "screen", "tune"}
      /\ r.kind \in Backtests => r.members \in Seq(Names) /\ r.members # <<>>
  BY RequestFields, EmptySeq DEF Backtests
<1>7. /\ r.kind \in {"run", "group"} => new.at = "load"
      /\ r.kind \in {"combined", "screen", "tune"} => new.at = "waiting"
  BY <1>5 DEF Locked, FirstStep, Backtests
<1>8. new.left \in Seq(Names \cup Symbols)
  <2>1. Universe \in Seq(Symbols)
    BY ScreensAssumption
  <2> QED
    BY <1>5, <1>6, <2>1 DEF Backtests
<1>9. DOMAIN new.candles = {} /\ IsFiniteSet(DOMAIN new.candles)
  BY <1>5, FS_EmptySet DEF NoBars
<1>10. Sound(new)'
  BY <1>2, <1>5, <1>6, <1>7, <1>8, <1>9 DEF Sound, Stages, Backtests, Locked, Base
<1>11. CASE Rejected(r)
  BY <1>1, <1>2, <1>3, <1>11 DEF Base
<1>12. CASE ~Rejected(r)
  <2>1. client' = [client EXCEPT ![c] = new]
    BY <1>1, <1>4, <1>12
  <2>2. /\ DOMAIN client' = Clients /\ client'[c] = new
        /\ \A d \in Clients : d # c => client'[d] = client[d]
    BY <2>1 DEF Base
  <2>3. \A d \in Clients : client[d].id < requests + 1 /\ client[d].id \in Nat
    <3>1. Idle.id = 0
      BY DEF Idle
    <3> QED
      BY <3>1 DEF Base, Sound
  <2>4. \A d, e \in Clients : client'[d].id = client'[e].id => d = e \/ client'[d].id = 0
    BY <2>2, <2>3, <1>5 DEF Base
  <2>6. \A d \in Clients : Sound(client[d])'
    <3> TAKE d \in Clients
    <3>1. CASE d = c
      BY <3>1, <2>2, <1>10 DEF Sound
    <3>2. CASE d # c
      <4>1. Sound(client[d]) /\ client'[d] = client[d]
        BY <3>2, <2>2 DEF Base
      <4> QED
        BY <4>1, <1>2 DEF Sound, Base
    <3> QED
      BY <3>1, <3>2
  <2> QED
    BY <1>2, <2>2, <2>4, <2>6 DEF Base
<1> QED
  BY <1>11, <1>12

-----------------------------------------------------------------------------
(* Steps of one handler that leave the tables alone                        *)

LEMMA FetchedStep ==
  ASSUME Base, Fetched, NEW c \in Clients, NEW n, client' = [client EXCEPT ![c] = n],
         n.request.kind \in Backtests => Keeps(n), UNCHANGED <<runs, candles>>
  PROVE  Fetched'
<1>1. /\ client'[c] = n /\ \A d \in Clients : d # c => client'[d] = client[d]
      /\ runs' = runs /\ candles' = candles
  BY DEF Base
<1>2. RunsUseFetchedBars'
  BY <1>1 DEF Fetched, RunsUseFetchedBars
<1>3. ASSUME NEW d \in Clients, (client[d].request.kind \in Backtests)' PROVE Keeps(client[d])'
  <2>1. CASE d = c
    BY <2>1, <1>1, <1>3 DEF Keeps, InRange
  <2>2. CASE d # c
    <3>1. client'[d] = client[d] /\ Keeps(client[d])
      BY <2>2, <1>1, <1>3 DEF Fetched, Backtests
    <3> QED
      BY <3>1, <1>1 DEF Keeps, InRange
  <2> QED
    BY <2>1, <2>2
<1> QED
  BY <1>2, <1>3 DEF Fetched

LEMMA GroupedStep ==
  ASSUME Base, Grouped, NEW c \in Clients, NEW n, client' = [client EXCEPT ![c] = n],
         n.id = 0 \/ n.id = client[c].id,
         n.request.kind = "group" => Joined(n), UNCHANGED <<runs, groups, requests>>
  PROVE  Grouped'
<1>1. /\ client'[c] = n /\ \A d \in Clients : d # c => client'[d] = client[d]
      /\ runs' = runs /\ groups' = groups /\ requests' = requests
  BY DEF Base
<1>2. \A id : MembersOf(id)' = MembersOf(id)
  BY <1>1 DEF MembersOf
<1>3. GroupsComparable'
  BY <1>1, <1>2 DEF Grouped, GroupsComparable
<1>4. /\ \A i \in DOMAIN runs' : runs'[i].group \in 0 .. requests'
      /\ \A g \in groups' :
           g.id \in 1 .. requests' /\ \A d \in Clients : client'[d].id # g.id
  BY <1>1 DEF Grouped
<1>5. ASSUME NEW d \in Clients, (client[d].request.kind = "group")' PROVE Joined(client[d])'
  <2>1. CASE d = c
    BY <2>1, <1>1, <1>2, <1>5 DEF Joined
  <2>2. CASE d # c
    <3>1. client'[d] = client[d] /\ Joined(client[d])
      BY <2>2, <1>1, <1>5 DEF Grouped
    <3> QED
      BY <3>1, <1>1, <1>2 DEF Joined
  <2> QED
    BY <2>1, <2>2
<1> QED
  BY <1>3, <1>4, <1>5 DEF Grouped

LEMMA PickedStep ==
  ASSUME Base, Picked, NEW c \in Clients, NEW n, client' = [client EXCEPT ![c] = n],
         client[c].at # "picks", n.at # "picks", n.id = 0 \/ n.id = client[c].id,
         UNCHANGED <<screens, picks, cut, requests>>
  PROVE  Picked'
<1>1. /\ client'[c] = n /\ \A d \in Clients : d # c => client'[d] = client[d]
      /\ screens' = screens /\ picks' = picks /\ cut' = cut /\ requests' = requests
  BY DEF Base
<1>2. \A id : PicksOf(id)' = PicksOf(id) /\ (Recording(id) => Recording(id)')
  BY <1>1 DEF PicksOf, Recording
<1>3. /\ \A q \in picks' : q.screen \in 1 .. requests'
      /\ \A s \in screens' : s.id \in 1 .. requests'
  BY <1>1 DEF Picked
<1>4. ASSUME NEW s \in screens
      PROVE  /\ IsFiniteSet(DOMAIN s.candles)
             /\ s.eligible = Cardinality(DOMAIN s.candles)
             /\ s.passed = Cardinality(Passing(s))
             /\ PicksOf(s.id)' \subseteq Passing(s)
             /\ PicksOf(s.id)' = Passing(s) \/ Recording(s.id)' \/ s.id \in cut'
  BY <1>1, <1>2 DEF Picked
<1>5. ASSUME NEW d \in Clients
      PROVE  /\ client'[d].at = "picks" =>
                  \A s \in screens : s.id = client'[d].id =>
                     PicksOf(s.id)' \cup ToSet(client'[d].left) = Passing(s)
             /\ client'[d].at # "picks" =>
                  /\ \A s \in screens : s.id # client'[d].id
                  /\ \A q \in picks : q.screen # client'[d].id
  <2>1. CASE d = c
    <3>1. requests \in Nat
      BY DEF Base
    <3>2. \A s \in screens : s.id # 0 /\ s.id # client[c].id
      BY <3>1 DEF Picked
    <3>3. \A q \in picks : q.screen # 0 /\ q.screen # client[c].id
      BY <3>1 DEF Picked
    <3> QED
      BY <2>1, <1>1, <3>2, <3>3
  <2>2. CASE d # c
    <3>1. client'[d] = client[d]
      BY <2>2, <1>1
    <3> QED
      BY <3>1, <1>2 DEF Picked
  <2> QED
    BY <2>1, <2>2
<1> QED
  BY <1>1, <1>3, <1>4, <1>5 DEF Picked, Passing

IInv == Base /\ Fetched /\ Grouped /\ Picked

\* A handler goes on, and no table changes.
LEMMA QuietStep ==
  ASSUME IInv, NEW c \in Clients, NEW n, client' = [client EXCEPT ![c] = n],
         Sound(n), n.id = client[c].id,
         n.request.kind \in Backtests => Keeps(n), n.request.kind = "group" => Joined(n),
         client[c].at # "picks", n.at # "picks",
         UNCHANGED <<candles, runs, groups, screens, picks, requests, cut>>
  PROVE  IInv'
<1>1. Base' /\ Fetched' /\ Grouped'
  BY BaseStep, FetchedStep, GroupedStep DEF IInv
<1>2. Picked'
  BY PickedStep DEF IInv
<1> QED
  BY <1>1, <1>2 DEF IInv

LEMMA QuietDone ==
  ASSUME IInv, NEW c \in Clients, Done(c), client[c].at # "picks",
         UNCHANGED <<candles, runs, groups, screens, picks, requests, cut>>
  PROVE  IInv'
<1>1. client' = [client EXCEPT ![c] = Idle] /\ UNCHANGED <<runs, candles, groups>>
  BY DEF Done
<1>2. Idle.id = 0 /\ Idle.request.kind \notin Backtests \cup {"group"} /\ Idle.at # "picks"
  BY DEF Idle, NoRequest, Backtests
<1>3. Base'
  <2>1. \E S : runs' \in Seq(S)
    BY DEF IInv, Base
  <2> QED
    BY <2>1, BaseDone DEF IInv
<1>4. Fetched' /\ Grouped'
  BY <1>1, <1>2, FetchedStep, GroupedStep DEF IInv
<1>5. Picked'
  BY <1>1, <1>2, PickedStep DEF IInv
<1> QED
  BY <1>3, <1>4, <1>5 DEF IInv

-----------------------------------------------------------------------------
(* Answers and gaps                                                        *)

LEMMA AnswersAreInRange ==
  ASSUME NEW s, NEW from, NEW to, NEW n, NEW rows \in Answers(s, from, to, n)
  PROVE  DOMAIN rows \subseteq Times /\ \A t \in DOMAIN rows : from <= t /\ t <= to
<1>1. PICK all : all = Within(Traded(s, n), from, to)
  OBVIOUS
<1>2. DOMAIN all \subseteq Times /\ \A t \in DOMAIN all : from <= t /\ t <= to
  BY <1>1 DEF Within, Traded
<1>3. PICK gone \in SUBSET Lost : rows = [t \in DOMAIN all \ gone |-> all[t]]
  BY <1>1 DEF Answers
<1> QED
  BY <1>2, <1>3

LEMMA GapsAreOfBars ==
  ASSUME NEW bars, NEW g \in Gaps(bars)
  PROVE  g[1] \in DOMAIN bars /\ g[2] \in DOMAIN bars
BY DEF Gaps

LEMMA LeastIsThere ==
  ASSUME NEW S, S \subseteq Nat, S # {}
  PROVE  \E m \in S : \A k \in S : m <= k
<1>1. PICK R : R = OpToRel(<, Nat)
  OBVIOUS
<1>2. R = {ss \in Nat \X Nat : ss[1] < ss[2]}
  BY <1>1 DEF OpToRel
<1>3. IsWellFoundedOn(R, Nat)
  BY <1>1, NatLessThanWellFounded
<1>4. PICK m \in S : \A k \in S : <<k, m>> \notin R
  BY <1>3, WFMin
<1>5. \A k \in S : ~(k < m) /\ k \in Nat /\ m \in Nat
  BY <1>2, <1>4
<1> QED
  BY <1>5

LEMMA FirstGapIsAGap ==
  ASSUME NEW gaps, gaps # {}, \A g \in gaps : g[1] \in Nat
  PROVE  FirstGap(gaps) \in gaps
<1>1. PICK S : S = {g[1] : g \in gaps}
  OBVIOUS
<1>2. S # {} /\ S \subseteq Nat
  BY <1>1
<1>3. PICK m \in S : \A k \in S : m <= k
  BY <1>2, LeastIsThere
<1>4. \E g \in gaps : \A h \in gaps : g[1] <= h[1]
  BY <1>1, <1>3
<1> QED
  BY <1>4 DEF FirstGap

\* A backtest's symbol and dates.
LEMMA BacktestFields ==
  ASSUME Base, NEW c \in Clients, client[c].request.kind \in Backtests
  PROVE  /\ ~Screening(c) /\ SymbolOf(c) = client[c].request.symbol
         /\ FromOf(c) = client[c].request.from /\ ToOf(c) = client[c].request.to
         /\ client[c].request \in Requests
         /\ SymbolOf(c) \in Symbols /\ FromOf(c) \in Nat /\ ToOf(c) \in Nat
<1>1. /\ ~Screening(c) /\ SymbolOf(c) = client[c].request.symbol
      /\ FromOf(c) = client[c].request.from /\ ToOf(c) = client[c].request.to
  BY DEF Screening, SymbolOf, FromOf, ToOf, Backtests
<1>2. client[c].request \in Requests
  <2>1. CASE client[c].at = "idle"
    <3>1. client[c] = Idle
      BY <2>1 DEF Base, Sound
    <3> QED
      BY <3>1 DEF Idle, NoRequest, Backtests
  <2>2. CASE client[c].at # "idle"
    BY <2>2 DEF Base, Sound
  <2> QED
    BY <2>1, <2>2
<1> QED
  BY <1>1, <1>2, RequestFields, TimesAssumption

-----------------------------------------------------------------------------
(* Quiet steps                                                             *)

LEMMA TakeKeeps == ASSUME IInv, NEW c \in Clients, Take(c) PROVE IInv'
<1>1. PICK h, n : h = client[c] /\ n = [h EXCEPT !.at = FirstStep(h.request.kind)]
  OBVIOUS
<1>2. client' = [client EXCEPT ![c] = n] /\ h.at = "waiting" /\ Sound(h)
  BY <1>1 DEF Take, IInv, Base
<1>3. h.request.kind \in {"run", "group", "combined", "screen", "tune"}
  BY <1>2, RequestFields DEF Sound, Backtests
<1>4. n.at \in {"load", "formula", "ask"} /\ (n.at = "load" => h.request.kind \in Backtests)
      /\ (h.request.kind = "screen" => n.at = "formula")
  <2>1. n.at = FirstStep(h.request.kind)
    BY <1>1, <1>2 DEF Sound, Fields
  <2> QED
    BY <2>1, <1>3 DEF FirstStep, Backtests
<1>5. /\ DOMAIN n = Fields /\ n.request = h.request /\ n.id = h.id /\ n.left = h.left
      /\ n.candles = h.candles /\ n.answered = h.answered
  BY <1>1, <1>2 DEF Sound, Fields
<1>6. Sound(n)
  BY <1>2, <1>3, <1>4, <1>5 DEF Sound, Stages
<1>7. h.request.kind \in Backtests => n.answered = NoBars
  BY <1>1, <1>2, <1>5 DEF IInv, Fetched, Keeps
<1>8. n.request.kind \in Backtests => Keeps(n)
  BY <1>4, <1>5, <1>7 DEF Keeps
<1>9. h.request.kind # "group"
  BY <1>1, <1>2 DEF Sound, Locked
<1>10. UNCHANGED <<candles, runs, groups, screens, picks, requests, cut>>
  BY DEF Take
<1>11. h.at # "picks" /\ n.at # "picks" /\ n.id = client[c].id
  BY <1>1, <1>2, <1>4, <1>5
<1>12. n.request.kind # "group"
  BY <1>5, <1>9
<1> QED
  BY <1>1, <1>2, <1>6, <1>8, <1>10, <1>11, <1>12, QuietStep

\* The bars are there: a backtest goes on to its members.
LEMMA ToMembers ==
  ASSUME IInv, NEW c \in Clients, client[c].at \in {"load", "read"},
         client[c].request.kind \in Backtests,
         NEW n, NEW bars, n = [client[c] EXCEPT !.at = "members", !.bars = bars],
         \A t \in DOMAIN client[c].answered :
           /\ t \in DOMAIN bars
           /\ client[c].answered[t].final => bars[t].final \/ client[c].crossed
  PROVE  /\ Sound(n) /\ Keeps(n) /\ n.id = client[c].id /\ n.at # "picks"
         /\ n.request.kind = "group" => Joined(n)
<1>1. PICK h : h = client[c]
  OBVIOUS
<1>2. Sound(h)
  BY <1>1 DEF IInv, Base
<1>3. /\ DOMAIN n = Fields /\ n.at = "members" /\ n.bars = bars /\ n.request = h.request
      /\ n.id = h.id /\ n.left = h.left /\ n.answered = h.answered
      /\ n.crossed = h.crossed /\ n.candles = h.candles
  BY <1>1, <1>2 DEF Sound, Fields
<1>4. CASE h.request.kind = "group"
  <2>1. MembersOf(h.id) = {} /\ h.left = h.request.members
    BY <1>1, <1>4 DEF IInv, Grouped, Joined
  <2>2. h.request \in Requests
    BY <1>1, <1>2 DEF Sound
  <2>3. h.request.members \in Seq(Names) /\ Len(h.request.members) \in 1 .. MaxMembers
    BY <1>1, <2>2, RequestFields
  <2>4. h.left # <<>> /\ Len(h.left) \in Nat
    BY <2>1, <2>3
  <2>5. Joined(n)
    <3>1. Cardinality(MembersOf(n.id)) = 0
      BY <2>1, <1>3, FS_EmptySet
    <3> QED
      BY <1>3, <2>1, <2>4, <3>1 DEF Joined
  <2>6. Sound(n)
    BY <1>1, <1>2, <1>3, <2>4 DEF Sound, Stages, Backtests
  <2>7. Keeps(n)
    BY <1>1, <1>3 DEF Keeps
  <2> QED
    BY <1>1, <1>3, <2>5, <2>6, <2>7
<1>5. CASE h.request.kind # "group"
  <2>1. Sound(n)
    BY <1>1, <1>2, <1>3, <1>5 DEF Sound, Stages, Backtests
  <2>2. Keeps(n)
    BY <1>1, <1>3 DEF Keeps
  <2> QED
    BY <1>1, <1>3, <1>5, <2>1, <2>2
<1> QED
  BY <1>4, <1>5

LEMMA GenerateKeeps == ASSUME IInv, NEW c \in Clients, Generate(c) PROVE IInv'
<1>1. PICK n : n = [client[c] EXCEPT !.at = "members", !.bars = Synthetic]
  OBVIOUS
<1>2. /\ client' = [client EXCEPT ![c] = n]
      /\ client[c].at = "load" /\ client[c].request.kind \in Backtests
      /\ UNCHANGED <<candles, runs, groups, screens, picks, requests, cut>>
  BY <1>1 DEF Generate, Continue, At
<1>3. client[c].answered = NoBars
  BY <1>2 DEF IInv, Fetched, Keeps
<1>4. DOMAIN client[c].answered = {}
  BY <1>3 DEF NoBars
<1>5. /\ Sound(n) /\ Keeps(n) /\ n.id = client[c].id /\ n.at # "picks"
      /\ n.request.kind = "group" => Joined(n)
  BY <1>1, <1>2, <1>4, ToMembers
<1> QED
  BY <1>2, <1>5, QuietStep

LEMMA ReadBarsKeeps == ASSUME IInv, NEW c \in Clients, ReadBars(c) PROVE IInv'
<1>1. /\ client[c].at = "read" /\ client[c].request.kind \in Backtests
      /\ UNCHANGED <<candles, runs, groups, screens, picks, requests, cut>>
  BY DEF ReadBars, At
<1>2. PICK bars : bars = GetBars(candles[SymbolOf(c)], FromOf(c), ToOf(c))
  OBVIOUS
<1>3. CASE bars = NoBars
  BY <1>1, <1>2, <1>3, QuietDone DEF ReadBars
<1>4. CASE bars # NoBars
  <2>1. PICK n : n = [client[c] EXCEPT !.at = "members", !.bars = bars]
    OBVIOUS
  <2>2. client' = [client EXCEPT ![c] = n]
    BY <1>2, <1>4, <2>1 DEF ReadBars, Continue
  <2>3. PICK h : h = client[c]
    OBVIOUS
  <2>4. bars = Within(candles[h.request.symbol], h.request.from, h.request.to)
    BY <1>1, <1>2, <2>3, BacktestFields DEF GetBars, IInv
  <2>5. Keeps(h)
    BY <1>1, <2>3 DEF IInv, Fetched
  <2>6. ASSUME NEW t \in DOMAIN h.answered
        PROVE  t \in DOMAIN bars /\ (h.answered[t].final => bars[t].final \/ h.crossed)
    BY <1>1, <2>3, <2>4, <2>5 DEF Keeps, InRange, Within
  <2>7. /\ Sound(n) /\ Keeps(n) /\ n.id = client[c].id /\ n.at # "picks"
        /\ n.request.kind = "group" => Joined(n)
    BY <1>1, <2>1, <2>3, <2>6, ToMembers
  <2> QED
    BY <1>1, <2>2, <2>7, QuietStep
<1> QED
  BY <1>3, <1>4

\* A screen goes on to its next symbol.
LEMMA Passed ==
  ASSUME IInv, NEW c \in Clients, client[c].request.kind = "screen", client[c].at # "picks",
         client[c].left # <<>>, NEW n, n.at = "scan", DOMAIN n = Fields,
         n.request = client[c].request, n.id = client[c].id, n.left = Tail(client[c].left),
         DOMAIN n.candles \subseteq Names \cup Symbols, IsFiniteSet(DOMAIN n.candles),
         client' = [client EXCEPT ![c] = n],
         UNCHANGED <<candles, runs, groups, screens, picks, requests, cut>>
  PROVE  IInv'
<1>1. Sound(client[c])
  BY DEF IInv, Base
<1>2. client[c].at # "idle"
  <2>1. Idle.request.kind # "screen"
    BY DEF Idle, NoRequest
  <2> QED
    BY <1>1, <2>1 DEF Sound
<1>3. n.left \in Seq(Names \cup Symbols)
  BY <1>1 DEF Sound
<1>4. Sound(n)
  BY <1>1, <1>2, <1>3 DEF Sound, Stages
<1>5. n.request.kind \notin Backtests \cup {"group"}
  BY DEF Backtests
<1> QED
  BY <1>4, <1>5, QuietStep

LEMMA FetchFailsKeeps == ASSUME IInv, NEW c \in Clients, FetchFails(c) PROVE IInv'
<1>1. /\ client[c].at \in {"load", "patch"}
      /\ UNCHANGED <<candles, runs, groups, screens, picks, requests, cut>>
  BY DEF FetchFails
<1>2. CASE Done(c)
  BY <1>1, <1>2, QuietDone
<1>3. CASE Screening(c) /\ Continue(c, Skipped(c))
  <2>1. PICK h, n : h = client[c] /\ n = [h EXCEPT !.at = "scan", !.left = Tail(@),
                                            !.bars = NoBars, !.answered = NoBars]
    OBVIOUS
  <2>2. client' = [client EXCEPT ![c] = n]
    BY <1>3, <2>1 DEF Continue, Skipped
  <2>3. Sound(h) /\ h.request.kind = "screen"
    BY <1>3, <2>1 DEF IInv, Base, Screening
  <2>4. /\ n.at = "scan" /\ DOMAIN n = Fields /\ n.request = h.request /\ n.id = h.id
        /\ n.left = Tail(h.left) /\ n.candles = h.candles
    BY <2>1, <2>3 DEF Sound, Fields
  <2>5. h.left # <<>> /\ h.at # "picks"
    BY <1>1, <2>1, <2>3 DEF Sound
  <2>6. DOMAIN h.candles \subseteq Names \cup Symbols /\ IsFiniteSet(DOMAIN h.candles)
    BY <2>3 DEF Sound
  <2> QED
    BY <1>1, <2>1, <2>2, <2>3, <2>4, <2>5, <2>6, Passed
<1> QED
  BY <1>2, <1>3 DEF FetchFails

\* What Fetch and Patch make of a handler.
LEMMA Gathered ==
  ASSUME IInv, NEW c \in Clients, client[c].at \in {"load", "patch"},
         NEW bars, NEW gaps, NEW n,
         n = [client[c] EXCEPT !.at = IF gaps = {} THEN "store" ELSE "patch",
                               !.bars = bars, !.answered = bars, !.gaps = gaps],
         client' = [client EXCEPT ![c] = n],
         client[c].request.kind \in Backtests =>
           /\ DOMAIN bars \subseteq Times
           /\ \A t \in DOMAIN bars : FromOf(c) <= t /\ t <= ToOf(c)
           /\ \A g \in gaps : g[1] \in DOMAIN bars /\ g[2] \in DOMAIN bars,
         client[c].request.kind \notin Backtests => gaps = {},
         UNCHANGED <<candles, runs, groups, screens, picks, requests, cut>>
  PROVE  IInv'
<1>1. PICK h : h = client[c]
  OBVIOUS
<1>2. Sound(h)
  BY <1>1 DEF IInv, Base
<1>3. /\ DOMAIN n = Fields /\ n.at = IF gaps = {} THEN "store" ELSE "patch"
      /\ n.request = h.request /\ n.id = h.id /\ n.left = h.left /\ n.candles = h.candles
      /\ n.bars = bars /\ n.answered = bars /\ n.gaps = gaps
  BY <1>1, <1>2 DEF Sound, Fields
<1>4. Sound(n)
  BY <1>1, <1>2, <1>3 DEF Sound, Stages
<1>5. ASSUME n.request.kind \in Backtests PROVE Keeps(n)
  <2>1. FromOf(c) = n.request.from /\ ToOf(c) = n.request.to
    BY <1>1, <1>3, <1>5, BacktestFields DEF IInv
  <2> QED
    BY <1>1, <1>3, <1>5, <2>1 DEF Keeps, InRange
<1>6. ASSUME n.request.kind = "group" PROVE Joined(n)
  <2>1. MembersOf(h.id) = {} /\ h.left = h.request.members
    BY <1>1, <1>3, <1>6 DEF IInv, Grouped, Joined
  <2> QED
    BY <1>3, <2>1 DEF Joined
<1>7. client[c].at # "picks" /\ n.at # "picks" /\ n.id = client[c].id
  BY <1>1, <1>3
<1> QED
  BY <1>4, <1>5, <1>6, <1>7, QuietStep

LEMMA FetchKeeps == ASSUME IInv, NEW c \in Clients, Fetch(c) PROVE IInv'
<1>1. PICK rows \in Answers(SymbolOf(c), FromOf(c), ToOf(c), now) :
        LET gaps == IF Screening(c) THEN {} ELSE Gaps(rows)
        IN  Continue(c, [client[c] EXCEPT !.at = IF gaps = {} THEN "store" ELSE "patch",
                                          !.bars = rows, !.answered = rows, !.gaps = gaps])
  BY DEF Fetch
<1>2. PICK gaps : gaps = IF Screening(c) THEN {} ELSE Gaps(rows)
  OBVIOUS
<1>3. PICK n : n = [client[c] EXCEPT !.at = IF gaps = {} THEN "store" ELSE "patch",
                                     !.bars = rows, !.answered = rows, !.gaps = gaps]
  OBVIOUS
<1>4. client' = [client EXCEPT ![c] = n]
  BY <1>1, <1>2, <1>3 DEF Continue
<1>5. /\ client[c].at = "load"
      /\ UNCHANGED <<candles, runs, groups, screens, picks, requests, cut>>
  BY DEF Fetch
<1>6. client[c].request.kind \notin Backtests => gaps = {}
  BY <1>2, <1>5 DEF Screening, IInv, Base, Sound
<1>7. /\ DOMAIN rows \subseteq Times
      /\ \A t \in DOMAIN rows : FromOf(c) <= t /\ t <= ToOf(c)
      /\ \A g \in gaps : g[1] \in DOMAIN rows /\ g[2] \in DOMAIN rows
  BY <1>2, AnswersAreInRange, GapsAreOfBars
<1> QED
  BY <1>3, <1>4, <1>5, <1>6, <1>7, Gathered

LEMMA PatchKeeps == ASSUME IInv, NEW c \in Clients, Patch(c) PROVE IInv'
<1>1. PICK h, gap, gaps : h = client[c] /\ gap = FirstGap(h.gaps) /\ gaps = h.gaps \ {gap}
  OBVIOUS
<1>2. PICK rows \in Answers(SymbolOf(c), gap[1], gap[2], now) :
        LET bars == Patched(h.bars, rows)
        IN  Continue(c, [client[c] EXCEPT !.at = IF gaps = {} THEN "store" ELSE "patch",
                                          !.bars = bars, !.answered = bars, !.gaps = gaps])
  BY <1>1 DEF Patch
<1>3. PICK bars : bars = Patched(h.bars, rows)
  OBVIOUS
<1>4. PICK n : n = [client[c] EXCEPT !.at = IF gaps = {} THEN "store" ELSE "patch",
                                     !.bars = bars, !.answered = bars, !.gaps = gaps]
  OBVIOUS
<1>5. client' = [client EXCEPT ![c] = n]
  BY <1>2, <1>3, <1>4 DEF Continue
<1>6. /\ client[c].at = "patch"
      /\ UNCHANGED <<candles, runs, groups, screens, picks, requests, cut>>
  BY DEF Patch
<1>7. client[c].request.kind \in Backtests
  BY <1>6 DEF IInv, Base, Sound
<1>8. Keeps(h) /\ h.at = "patch"
  BY <1>1, <1>6, <1>7 DEF IInv, Fetched
<1>9. /\ h.gaps # {} /\ DOMAIN h.bars \subseteq Times
      /\ \A g \in h.gaps : g[1] \in DOMAIN h.bars /\ g[2] \in DOMAIN h.bars
      /\ InRange(h, h.bars)
  BY <1>8 DEF Keeps
<1>10. FromOf(c) = h.request.from /\ ToOf(c) = h.request.to
       /\ FromOf(c) \in Nat /\ ToOf(c) \in Nat
  BY <1>1, <1>7, BacktestFields DEF IInv
<1>11. gap \in h.gaps
  BY <1>1, <1>9, FirstGapIsAGap, TimesAssumption
<1>12. DOMAIN rows \subseteq Times /\ \A t \in DOMAIN rows : gap[1] <= t /\ t <= gap[2]
  BY AnswersAreInRange
<1>13. DOMAIN bars = DOMAIN h.bars \cup DOMAIN rows
  BY <1>3 DEF Patched
<1>14. \A t \in DOMAIN bars : FromOf(c) <= t /\ t <= ToOf(c)
  <2>1. /\ FromOf(c) <= gap[1] /\ gap[2] <= ToOf(c) /\ gap[1] \in Nat /\ gap[2] \in Nat
    BY <1>9, <1>10, <1>11, TimesAssumption DEF InRange
  <2>2. \A t \in DOMAIN rows : t \in Nat
    BY <1>12, TimesAssumption
  <2>3. \A t \in DOMAIN rows : FromOf(c) <= t /\ t <= ToOf(c)
    BY <1>10, <1>12, <2>1, <2>2
  <2>4. \A t \in DOMAIN h.bars : FromOf(c) <= t /\ t <= ToOf(c)
    BY <1>9, <1>10 DEF InRange
  <2> QED
    BY <1>13, <2>3, <2>4
<1>15. \A g \in gaps : g[1] \in DOMAIN bars /\ g[2] \in DOMAIN bars
  BY <1>1, <1>9, <1>13
<1> QED
  BY <1>4, <1>5, <1>6, <1>7, <1>9, <1>12, <1>13, <1>14, <1>15, Gathered

LEMMA FormulaKeeps == ASSUME IInv, NEW c \in Clients, Formula(c) PROVE IInv'
<1>1. /\ client[c].at = "formula" /\ client[c].request.kind = "screen"
      /\ UNCHANGED <<candles, runs, groups, screens, picks, requests, cut>>
  BY DEF Formula, At
<1>2. CASE Done(c)
  BY <1>1, <1>2, QuietDone
<1>3. ASSUME NEW f \in Formulas \cup {DefaultFormula},
             Continue(c, [client[c] EXCEPT !.at = "scan", !.filters = f])
      PROVE  IInv'
  <2>1. PICK h, n : h = client[c] /\ n = [h EXCEPT !.at = "scan", !.filters = f]
    OBVIOUS
  <2>2. client' = [client EXCEPT ![c] = n] /\ Sound(h)
    BY <1>3, <2>1 DEF Continue, IInv, Base
  <2>3. /\ DOMAIN n = Fields /\ n.at = "scan" /\ n.request = h.request /\ n.id = h.id
        /\ n.left = h.left /\ n.candles = h.candles
    BY <2>1, <2>2 DEF Sound, Fields
  <2>4. Sound(n)
    BY <1>1, <2>1, <2>2, <2>3 DEF Sound, Stages
  <2>5. n.request.kind \notin Backtests \cup {"group"}
    BY <1>1, <2>1, <2>3 DEF Backtests
  <2>6. client[c].at # "picks" /\ n.at # "picks" /\ n.id = client[c].id
    BY <1>1, <2>1, <2>3
  <2> QED
    BY <1>1, <2>2, <2>4, <2>5, <2>6, QuietStep
<1> QED
  BY <1>2, <1>3 DEF Formula

\* A symbol's candles are loaded, and the screen goes on to the next.
LEMMA LoadedKeeps ==
  ASSUME IInv, NEW c \in Clients, client[c].request.kind = "screen", client[c].at # "picks",
         client[c].left # <<>>, client' = [client EXCEPT ![c] = Loaded(c, Head(client[c].left))],
         UNCHANGED <<candles, runs, groups, screens, picks, requests, cut>>
  PROVE  IInv'
<1>1. PICK h, s, bars, n :
        /\ h = client[c] /\ s = Head(h.left) /\ bars = Newest(candles[s], h.request.back)
        /\ n = [h EXCEPT !.at = "scan", !.left = Tail(@),
                         !.bars = NoBars, !.answered = NoBars, !.crossed = FALSE,
                         !.candles = IF bars = NoBars THEN @
                                     ELSE [d \in DOMAIN @ \cup {s} |->
                                             IF d = s THEN bars ELSE @[d]]]
  OBVIOUS
<1>2. client' = [client EXCEPT ![c] = n]
  BY <1>1 DEF Loaded
<1>3. Sound(h)
  BY <1>1 DEF IInv, Base
<1>4. /\ DOMAIN n = Fields /\ n.at = "scan" /\ n.left = Tail(h.left)
      /\ n.request = h.request /\ n.id = h.id
      /\ n.candles = IF bars = NoBars THEN h.candles
                     ELSE [d \in DOMAIN h.candles \cup {s} |->
                             IF d = s THEN bars ELSE h.candles[d]]
  BY <1>1, <1>3 DEF Sound, Fields
<1>5. s \in Names \cup Symbols
  BY <1>1, <1>3 DEF Sound
<1>6. DOMAIN n.candles \subseteq DOMAIN h.candles \cup {s}
  BY <1>4
<1>7. IsFiniteSet(DOMAIN h.candles \cup {s})
  BY <1>3, FS_AddElement DEF Sound
<1>8. DOMAIN n.candles \subseteq Names \cup Symbols /\ IsFiniteSet(DOMAIN n.candles)
  BY <1>3, <1>5, <1>6, <1>7, FS_Subset DEF Sound
<1>9. /\ n.at = "scan" /\ DOMAIN n = Fields /\ n.left = Tail(client[c].left)
      /\ n.request = client[c].request /\ n.id = client[c].id
  BY <1>1, <1>4
<1> QED
  BY <1>2, <1>8, <1>9, Passed

LEMMA ReadFetchedKeeps == ASSUME IInv, NEW c \in Clients, ReadFetched(c) PROVE IInv'
<1>1. /\ client[c].at = "read" /\ client[c].request.kind = "screen"
      /\ UNCHANGED <<candles, runs, groups, screens, picks, requests, cut>>
      /\ Continue(c, Loaded(c, SymbolOf(c)))
  BY DEF ReadFetched, At
<1>2. client[c].left # <<>>
  BY <1>1 DEF IInv, Base, Sound
<1>3. client' = [client EXCEPT ![c] = Loaded(c, Head(client[c].left))]
  BY <1>1 DEF Continue, SymbolOf, Screening
<1> QED
  BY <1>1, <1>2, <1>3, LoadedKeeps

LEMMA ScanKeeps == ASSUME IInv, NEW c \in Clients, Scan(c) PROVE IInv'
<1>1. /\ client[c].at = "scan" /\ client[c].request.kind = "screen" /\ client[c].left # <<>>
      /\ UNCHANGED <<candles, runs, groups, screens, picks, requests, cut>>
  BY DEF Scan, At
<1>2. CASE Continue(c, Loaded(c, Head(client[c].left)))
  BY <1>1, <1>2, LoadedKeeps DEF Continue
<1>3. CASE Continue(c, [client[c] EXCEPT !.at = "load"])
  <2>1. PICK h, n : h = client[c] /\ n = [h EXCEPT !.at = "load"]
    OBVIOUS
  <2>2. client' = [client EXCEPT ![c] = n] /\ Sound(h)
    BY <1>3, <2>1 DEF Continue, IInv, Base
  <2>3. /\ DOMAIN n = Fields /\ n.at = "load" /\ n.request = h.request /\ n.id = h.id
        /\ n.left = h.left /\ n.candles = h.candles
    BY <2>1, <2>2 DEF Sound, Fields
  <2>4. Sound(n)
    BY <1>1, <2>1, <2>2, <2>3 DEF Sound, Stages
  <2>5. n.request.kind \notin Backtests \cup {"group"}
    BY <1>1, <2>1, <2>3 DEF Backtests
  <2>6. client[c].at # "picks" /\ n.at # "picks" /\ n.id = client[c].id
    BY <1>1, <2>1, <2>3
  <2> QED
    BY <1>1, <2>2, <2>4, <2>5, <2>6, QuietStep
<1> QED
  BY <1>2, <1>3 DEF Scan

LEMMA AskKeeps == ASSUME IInv, NEW c \in Clients, Ask(c) PROVE IInv'
<1>1. /\ client[c].at = "ask" /\ client[c].request.kind = "tune"
      /\ UNCHANGED <<candles, runs, groups, screens, picks, requests, cut>>
  BY DEF Ask, At
<1>2. CASE Done(c)
  BY <1>1, <1>2, QuietDone
<1>3. CASE Continue(c, [client[c] EXCEPT !.at = "answer"])
  <2>1. PICK h, n : h = client[c] /\ n = [h EXCEPT !.at = "answer"]
    OBVIOUS
  <2>2. client' = [client EXCEPT ![c] = n] /\ Sound(h)
    BY <1>3, <2>1 DEF Continue, IInv, Base
  <2>3. /\ DOMAIN n = Fields /\ n.at = "answer" /\ n.request = h.request /\ n.id = h.id
        /\ n.left = h.left /\ n.candles = h.candles
    BY <2>1, <2>2 DEF Sound, Fields
  <2>4. Sound(n)
    BY <1>1, <2>1, <2>2, <2>3 DEF Sound, Stages
  <2>5. n.request.kind \notin Backtests \cup {"group"}
    BY <1>1, <2>1, <2>3 DEF Backtests
  <2>6. client[c].at # "picks" /\ n.at # "picks" /\ n.id = client[c].id
    BY <1>1, <2>1, <2>3
  <2> QED
    BY <1>1, <2>2, <2>4, <2>5, <2>6, QuietStep
<1> QED
  BY <1>2, <1>3 DEF Ask

LEMMA AnswerKeeps == ASSUME IInv, NEW c \in Clients, Answer(c) PROVE IInv'
BY QuietDone DEF Answer, At

-----------------------------------------------------------------------------
(* Arriving                                                                *)

\* An id that is new has no rows, no group, no screen and no picks.
LEMMA ArriveKeeps == ASSUME IInv, NEW c \in Clients, Arrive(c) PROVE IInv'
<1>1. PICK r, new :
        /\ r \in Requests
        /\ new = [Idle EXCEPT !.request = r, !.id = requests + 1,
                     !.at = IF r.kind \in Locked THEN "waiting" ELSE FirstStep(r.kind),
                     !.left = IF r.kind \in Backtests THEN r.members ELSE Universe]
        /\ client' = IF Rejected(r) THEN client ELSE [client EXCEPT ![c] = new]
  BY DEF Arrive
<1>2. /\ client[c].at = "idle" /\ requests' = requests + 1 /\ requests \in Nat
      /\ UNCHANGED <<candles, runs, groups, screens, picks, cut>>
  BY DEF Arrive, IInv, Base
<1>3. /\ new.request = r /\ new.id = requests + 1
      /\ new.at = IF r.kind \in Locked THEN "waiting" ELSE FirstStep(r.kind)
      /\ new.left = IF r.kind \in Backtests THEN r.members ELSE Universe
      /\ new.answered = NoBars
  BY <1>1 DEF Idle
<1>4. r.kind \in {"run", "group", "combined", "screen", "tune"}
  BY <1>1, RequestFields DEF Backtests
<1>5. /\ new.at \in {"load", "waiting"}
      /\ r.kind = "group" => new.at = "load" /\ new.left = r.members
  BY <1>3, <1>4 DEF Locked, FirstStep, Backtests
<1>6. \A d \in Clients :
        \/ client'[d] = client[d]
        \/ d = c /\ client'[d] = new
  BY <1>1 DEF IInv, Base
<1>7. Base'
  BY BaseArrive DEF IInv
<1>8. Fetched'
  <2>1. RunsUseFetchedBars'
    BY <1>2 DEF IInv, Fetched, RunsUseFetchedBars
  <2>2. ASSUME NEW d \in Clients, (client[d].request.kind \in Backtests)'
        PROVE  Keeps(client[d])'
    <3>1. CASE client'[d] = client[d]
      <4>1. Keeps(client[d])
        BY <3>1, <2>2 DEF IInv, Fetched, Backtests
      <4> QED
        BY <4>1, <3>1, <1>2 DEF Keeps, InRange
    <3>2. CASE client'[d] = new
      BY <3>2, <1>3, <1>5 DEF Keeps
    <3> QED
      BY <3>1, <3>2, <1>6
  <2> QED
    BY <2>1, <2>2 DEF Fetched
<1>9. Grouped'
  <2>1. \A id : MembersOf(id)' = MembersOf(id)
    BY <1>2 DEF MembersOf
  <2>2. GroupsComparable'
    BY <1>2, <2>1 DEF IInv, Grouped, GroupsComparable
  <2>3. \A i \in DOMAIN runs : runs[i].group \in 0 .. requests + 1
    BY <1>2 DEF IInv, Grouped
  <2>4. \A g \in groups : g.id \in 1 .. requests + 1 /\ g.id # requests + 1
    BY <1>2 DEF IInv, Grouped
  <2>5. \A g \in groups, d \in Clients : client'[d].id # g.id
    BY <1>3, <1>6, <2>4 DEF IInv, Grouped
  <2>6. MembersOf(requests + 1) = {}
    BY <1>2 DEF IInv, Grouped, MembersOf
  <2>7. ASSUME NEW d \in Clients, (client[d].request.kind = "group")'
        PROVE  Joined(client[d])'
    <3>1. CASE client'[d] = client[d]
      <4>1. Joined(client[d])
        BY <3>1, <2>7 DEF IInv, Grouped
      <4> QED
        BY <4>1, <3>1, <2>1, <1>2 DEF Joined
    <3>2. CASE client'[d] = new
      BY <3>2, <1>3, <1>5, <2>1, <2>6, <2>7 DEF Joined
    <3> QED
      BY <3>1, <3>2, <1>6
  <2> QED
    BY <1>2, <2>2, <2>3, <2>4, <2>5, <2>7 DEF Grouped
<1>10. Picked'
  <2>1. /\ \A q \in picks : q.screen \in 1 .. requests + 1 /\ q.screen # requests + 1
        /\ \A s \in screens : s.id \in 1 .. requests + 1 /\ s.id # requests + 1
    BY <1>2 DEF IInv, Picked
  <2>2. \A id : PicksOf(id)' = PicksOf(id)
    BY <1>2 DEF PicksOf
  <2>3. \A id : Recording(id) => Recording(id)'
    BY <1>2, <1>6 DEF Recording
  <2>4. ASSUME NEW s \in screens
        PROVE  /\ IsFiniteSet(DOMAIN s.candles)
               /\ s.eligible = Cardinality(DOMAIN s.candles)
               /\ s.passed = Cardinality(Passing(s))
               /\ PicksOf(s.id)' \subseteq Passing(s)
               /\ PicksOf(s.id)' = Passing(s) \/ Recording(s.id)' \/ s.id \in cut
    BY <2>2, <2>3 DEF IInv, Picked
  <2>5. ASSUME NEW d \in Clients
        PROVE  /\ client'[d].at = "picks" =>
                    \A s \in screens : s.id = client'[d].id =>
                       PicksOf(s.id)' \cup ToSet(client'[d].left) = Passing(s)
               /\ client'[d].at # "picks" =>
                    /\ \A s \in screens : s.id # client'[d].id
                    /\ \A q \in picks : q.screen # client'[d].id
    <3>1. CASE client'[d] = client[d]
      BY <3>1, <2>2 DEF IInv, Picked
    <3>2. CASE client'[d] = new
      BY <3>2, <1>3, <1>5, <2>1
    <3> QED
      BY <3>1, <3>2, <1>6
  <2> QED
    BY <1>2, <2>1, <2>4, <2>5 DEF Picked, Passing
<1> QED
  BY <1>7, <1>8, <1>9, <1>10 DEF IInv

-----------------------------------------------------------------------------
(* Storing                                                                 *)

\* Only the one who stores goes on; who is about to read the symbol is told.
LEMMA StoreMoves ==
  ASSUME Base, NEW c \in Clients, Store(c), NEW d \in Clients
  PROVE  LET h == client[d]
             n == client'[d]
         IN  /\ DOMAIN n = Fields /\ n.request = h.request /\ n.id = h.id /\ n.left = h.left
             /\ n.gaps = h.gaps /\ n.answered = h.answered /\ n.bars = h.bars
             /\ n.candles = h.candles
             /\ n.at = IF d = c THEN "read" ELSE h.at
             /\ n.crossed = h.crossed \/ n.crossed = TRUE
             /\ d # c /\ h.at = "read" /\ SymbolOf(d) = SymbolOf(c) => n.crossed = TRUE
             /\ d # c /\ h.at # "read" => n = h
<1>1. DOMAIN client[d] = Fields
  BY DEF Base, Sound
<1>2. client'[d] =
        IF d = c THEN [client[c] EXCEPT !.at = "read"]
        ELSE IF client[d].at = "read" /\ SymbolOf(d) = SymbolOf(c)
          THEN [client[d] EXCEPT !.crossed = TRUE]
        ELSE client[d]
  BY DEF Store
<1>3. CASE d = c
  BY <1>1, <1>2, <1>3 DEF Fields
<1>4. CASE d # c /\ client[d].at = "read" /\ SymbolOf(d) = SymbolOf(c)
  BY <1>1, <1>2, <1>4 DEF Fields
<1>5. CASE d # c /\ ~(client[d].at = "read" /\ SymbolOf(d) = SymbolOf(c))
  BY <1>1, <1>2, <1>5 DEF Fields
<1> QED
  BY <1>3, <1>4, <1>5

LEMMA BaseStore == ASSUME Base, NEW c \in Clients, Store(c) PROVE Base'
<1>1. /\ requests' = requests /\ runs' = runs /\ DOMAIN client' = Clients
      /\ client[c].at = "store"
      /\ DOMAIN candles' = DOMAIN candles
  BY DEF Store
<1>2. \A d \in Clients : client'[d].id = client[d].id
  BY StoreMoves
<1>3. ASSUME NEW d \in Clients PROVE Sound(client[d])'
  <2> PICK h, n : h = client[d] /\ n = client'[d]
    OBVIOUS
  <2>1. /\ h = client[d] /\ n = client'[d]
        /\ DOMAIN n = Fields /\ n.request = h.request /\ n.id = h.id /\ n.left = h.left
        /\ n.candles = h.candles
        /\ n.at = IF d = c THEN "read" ELSE h.at
        /\ d # c /\ h.at # "read" => n = h
    BY StoreMoves
  <2>2. Sound(h)
    BY <2>1 DEF Base
  <2>3. Sound(n)
    BY <1>1, <2>1, <2>2 DEF Sound, Stages
  <2> QED
    BY <1>1, <2>1, <2>3 DEF Sound
<1> QED
  BY <1>1, <1>2, <1>3 DEF Base

LEMMA FetchedStore == ASSUME IInv, NEW c \in Clients, Store(c) PROVE Fetched'
<1>1. /\ client[c].at = "store" /\ runs' = runs
      /\ candles' = [candles EXCEPT ![SymbolOf(c)] = Upserted(@, client[c].bars)]
  BY DEF Store
<1>2. RunsUseFetchedBars'
  BY <1>1 DEF IInv, Fetched, RunsUseFetchedBars
<1>3. ASSUME NEW d \in Clients, (client[d].request.kind \in Backtests)'
      PROVE  Keeps(client[d])'
  <2> PICK h, n : h = client[d] /\ n = client'[d]
    OBVIOUS
  <2>1. /\ h = client[d] /\ n = client'[d]
        /\ DOMAIN n = Fields /\ n.request = h.request /\ n.id = h.id /\ n.left = h.left
        /\ n.gaps = h.gaps /\ n.answered = h.answered /\ n.bars = h.bars
        /\ n.at = IF d = c THEN "read" ELSE h.at
        /\ n.crossed = h.crossed \/ n.crossed = TRUE
        /\ d # c /\ h.at = "read" /\ SymbolOf(d) = SymbolOf(c) => n.crossed = TRUE
        /\ d # c /\ h.at # "read" => n = h
    BY StoreMoves DEF IInv
  <2>2. n.request.kind \in Backtests /\ h.request.kind \in Backtests
    BY <1>3, <2>1 DEF Backtests
  <2>3. Keeps(h) /\ SymbolOf(d) = h.request.symbol /\ h.request.symbol \in DOMAIN candles
    BY <2>1, <2>2, BacktestFields DEF IInv, Base, Fetched
  <2>4. PICK s, old, new : s = h.request.symbol /\ old = candles[s] /\ new = candles'[s]
    OBVIOUS
  <2>5. CASE d = c
    <3>1. new = Upserted(old, h.bars)
      BY <1>1, <2>1, <2>3, <2>4, <2>5
    <3>2. \A t \in DOMAIN h.bars : t \in DOMAIN new /\ new[t] = h.bars[t]
      BY <3>1 DEF Upserted
    <3>3. h.bars = h.answered /\ InRange(h, h.answered)
      BY <1>1, <2>1, <2>3, <2>5 DEF Keeps
    <3>4. Keeps(n)'
      BY <2>1, <2>4, <2>5, <3>2, <3>3 DEF Keeps, InRange
    <3> QED
      BY <2>1, <3>4 DEF Keeps, InRange
  <2>6. CASE d # c /\ h.at = "read"
    <3>1. DOMAIN old \subseteq DOMAIN new
      <4>1. CASE SymbolOf(c) = s
        BY <1>1, <2>3, <2>4, <4>1 DEF Upserted
      <4>2. CASE SymbolOf(c) # s
        BY <1>1, <2>3, <2>4, <4>2
      <4> QED
        BY <4>1, <4>2
    <3>2. n.crossed = TRUE \/ (n.crossed = h.crossed /\ new = old)
      <4>1. CASE SymbolOf(c) = s
        BY <2>1, <2>3, <2>4, <2>6, <4>1
      <4>2. CASE SymbolOf(c) # s
        BY <1>1, <2>1, <2>3, <2>4, <4>2
      <4> QED
        BY <4>1, <4>2
    <3>3. /\ InRange(h, h.answered)
          /\ \A t \in DOMAIN h.answered :
               t \in DOMAIN old /\ (h.crossed \/ old[t] = h.answered[t])
      BY <2>3, <2>4, <2>6 DEF Keeps
    <3>4. \A t \in DOMAIN n.answered :
            t \in DOMAIN new /\ (n.crossed \/ new[t] = n.answered[t])
      BY <2>1, <3>1, <3>2, <3>3
    <3>5. InRange(n, n.answered) /\ n.at = "read" /\ n.request.symbol = s
      BY <2>1, <2>4, <2>6, <3>3 DEF InRange
    <3> QED
      BY <2>1, <2>4, <3>4, <3>5 DEF Keeps, InRange
  <2>7. CASE d # c /\ h.at # "read"
    <3>1. client'[d] = client[d] /\ Keeps(client[d]) /\ client[d].at # "read"
      BY <2>1, <2>3, <2>7
    <3> QED
      BY <3>1 DEF Keeps, InRange
  <2> QED
    BY <2>5, <2>6, <2>7
<1> QED
  BY <1>2, <1>3 DEF Fetched

LEMMA StoreKeeps == ASSUME IInv, NEW c \in Clients, Store(c) PROVE IInv'
<1>1. /\ client[c].at = "store"
      /\ UNCHANGED <<runs, groups, screens, picks, requests, cut>>
  BY DEF Store
<1>2. \A d \in Clients :
        /\ client'[d].request = client[d].request /\ client'[d].id = client[d].id
        /\ client'[d].left = client[d].left /\ client'[d].bars = client[d].bars
        /\ client'[d].at = client[d].at \/ (client[d].at = "store" /\ client'[d].at = "read")
  BY <1>1, StoreMoves DEF IInv
<1>3. Grouped'
  <2>1. \A id : MembersOf(id)' = MembersOf(id)
    BY <1>1 DEF MembersOf
  <2>2. GroupsComparable'
    BY <1>1, <2>1 DEF IInv, Grouped, GroupsComparable
  <2>3. ASSUME NEW d \in Clients, (client[d].request.kind = "group")'
        PROVE  Joined(client[d])'
    <3>1. Joined(client[d])
      BY <1>2, <2>3 DEF IInv, Grouped
    <3> QED
      BY <1>1, <1>2, <2>1, <3>1 DEF Joined
  <2>4. /\ \A i \in DOMAIN runs' : runs'[i].group \in 0 .. requests'
        /\ \A g \in groups' :
             g.id \in 1 .. requests' /\ \A d \in Clients : client'[d].id # g.id
    BY <1>1, <1>2 DEF IInv, Grouped
  <2> QED
    BY <2>2, <2>3, <2>4 DEF Grouped
<1>4. Picked'
  <2>1. \A d \in Clients : client'[d].at = "picks" <=> client[d].at = "picks"
    BY <1>2
  <2>2. \A id : PicksOf(id)' = PicksOf(id) /\ (Recording(id) => Recording(id)')
    BY <1>1, <1>2, <2>1 DEF PicksOf, Recording
  <2>3. /\ \A q \in picks' : q.screen \in 1 .. requests'
        /\ \A s \in screens' :
             /\ s.id \in 1 .. requests'
             /\ IsFiniteSet(DOMAIN s.candles)
             /\ s.eligible = Cardinality(DOMAIN s.candles)
             /\ s.passed = Cardinality(Passing(s))
             /\ PicksOf(s.id)' \subseteq Passing(s)
             /\ PicksOf(s.id)' = Passing(s) \/ Recording(s.id)' \/ s.id \in cut'
    BY <1>1, <2>2 DEF IInv, Picked
  <2>4. ASSUME NEW d \in Clients
        PROVE  /\ client'[d].at = "picks" =>
                    \A s \in screens' : s.id = client'[d].id =>
                       PicksOf(s.id)' \cup ToSet(client'[d].left) = Passing(s)
               /\ client'[d].at # "picks" =>
                    /\ \A s \in screens' : s.id # client'[d].id
                    /\ \A q \in picks' : q.screen # client'[d].id
    BY <1>1, <1>2, <2>1, <2>2 DEF IInv, Picked
  <2> QED
    BY <2>3, <2>4 DEF Picked, Passing
<1> QED
  BY <1>3, <1>4, BaseStore, FetchedStore DEF IInv

-----------------------------------------------------------------------------
(* Rows                                                                    *)

LEMMA RowAppended ==
  ASSUME Base, NEW row, runs' = Append(runs, row)
  PROVE  /\ \E S : runs' \in Seq(S)
         /\ \E i : /\ i \notin DOMAIN runs /\ DOMAIN runs' = DOMAIN runs \cup {i}
                   /\ runs'[i] = row /\ \A j \in DOMAIN runs : runs'[j] = runs[j]
<1>1. PICK S : runs \in Seq(S)
  BY DEF Base
<1>2. runs \in Seq(S \cup {row})
  BY <1>1
<1>3. runs' \in Seq(S \cup {row})
  BY <1>2
<1>4. /\ Len(runs) \in Nat /\ DOMAIN runs = 1 .. Len(runs)
      /\ DOMAIN runs' = 1 .. (Len(runs) + 1) /\ runs'[Len(runs) + 1] = row
      /\ \A j \in 1 .. Len(runs) : runs'[j] = runs[j]
  BY <1>2
<1>5. 1 .. (Len(runs) + 1) = (1 .. Len(runs)) \cup {Len(runs) + 1}
  BY <1>4
<1> QED
  BY <1>3, <1>4, <1>5

LEMMA MembersAreFinite == ASSUME Base, NEW id PROVE IsFiniteSet(MembersOf(id))
<1>1. Len(runs) \in Nat /\ DOMAIN runs = 1 .. Len(runs)
  BY DEF Base
<1>2. IsFiniteSet(1 .. Len(runs))
  BY <1>1, FS_Interval
<1> QED
  BY <1>1, <1>2, FS_Subset DEF MembersOf

\* A row is on bars that include what was answered.
Fair(row) ==
  \A t \in DOMAIN row.answered :
    /\ t \in DOMAIN row.bars
    /\ row.answered[t].final => row.bars[t].final \/ row.crossed

LEMMA FetchedRow ==
  ASSUME IInv, NEW c \in Clients, NEW row, Fair(row), runs' = Append(runs, row),
         NEW n, client' = [client EXCEPT ![c] = n],
         n.request.kind \in Backtests => Keeps(n), candles' = candles
  PROVE  Fetched'
<1>1. PICK i : /\ i \notin DOMAIN runs /\ DOMAIN runs' = DOMAIN runs \cup {i}
               /\ runs'[i] = row /\ \A j \in DOMAIN runs : runs'[j] = runs[j]
  BY RowAppended DEF IInv
<1>2. \A j \in DOMAIN runs : Fair(runs[j])
  BY DEF IInv, Fetched, RunsUseFetchedBars, Fair
<1>3. \A j \in DOMAIN runs' : Fair(runs'[j])
  BY <1>1, <1>2
<1>4. RunsUseFetchedBars'
  BY <1>3 DEF RunsUseFetchedBars, Fair
<1>5. /\ client'[c] = n /\ \A d \in Clients : d # c => client'[d] = client[d]
  BY DEF IInv, Base
<1>6. ASSUME NEW d \in Clients, (client[d].request.kind \in Backtests)' PROVE Keeps(client[d])'
  <2>1. CASE d = c
    BY <2>1, <1>5, <1>6 DEF Keeps, InRange
  <2>2. CASE d # c
    <3>1. client'[d] = client[d] /\ Keeps(client[d])
      BY <2>2, <1>5, <1>6 DEF IInv, Fetched, Backtests
    <3> QED
      BY <3>1 DEF Keeps, InRange
  <2> QED
    BY <2>1, <2>2
<1> QED
  BY <1>4, <1>6 DEF Fetched

\* A row of no group, by a handler that is done.
LEMMA RowAlone ==
  ASSUME IInv, NEW c \in Clients, client[c].at # "picks", Done(c), NEW row, Fair(row),
         row.group = 0, runs' = Append(runs, row),
         UNCHANGED <<candles, groups, screens, picks, requests, cut>>
  PROVE  IInv'
<1>1. PICK i : /\ i \notin DOMAIN runs /\ DOMAIN runs' = DOMAIN runs \cup {i}
               /\ runs'[i] = row /\ \A j \in DOMAIN runs : runs'[j] = runs[j]
  BY RowAppended DEF IInv
<1>2. client' = [client EXCEPT ![c] = Idle]
  BY DEF Done
<1>3. Idle.id = 0 /\ Idle.request.kind \notin Backtests \cup {"group"} /\ Idle.at # "picks"
  BY DEF Idle, NoRequest, Backtests
<1>4. Base'
  BY RowAppended, BaseDone DEF IInv
<1>5. Fetched'
  BY <1>2, <1>3, FetchedRow
<1>6. Picked'
  BY <1>2, <1>3, PickedStep DEF IInv
<1>7. Grouped'
  <2>1. ASSUME NEW id, id # 0 PROVE MembersOf(id)' = MembersOf(id)
    BY <1>1, <2>1 DEF MembersOf
  <2>2. /\ \A d \in Clients : client'[d] = IF d = c THEN Idle ELSE client[d]
        /\ groups' = groups /\ requests' = requests /\ requests \in Nat
    BY <1>2 DEF IInv, Base
  <2>3. \A j \in DOMAIN runs' : runs'[j].group \in 0 .. requests'
    BY <1>1, <2>2 DEF IInv, Grouped
  <2>4. \A g \in groups :
          g.id \in 1 .. requests /\ \A d \in Clients : client'[d].id # g.id
    BY <1>3, <2>2 DEF IInv, Grouped
  <2>5. ASSUME NEW g \in groups
        PROVE  /\ Cardinality(MembersOf(g.id)') = g.members
               /\ \A j \in MembersOf(g.id)' : runs'[j].bars = g.bars
    <3>1. MembersOf(g.id)' = MembersOf(g.id)
      BY <2>1, <2>2, <2>4
    <3>2. /\ Cardinality(MembersOf(g.id)) = g.members
          /\ \A j \in MembersOf(g.id) : runs[j].bars = g.bars
      BY DEF IInv, Grouped, GroupsComparable
    <3>3. \A j \in MembersOf(g.id) : runs'[j] = runs[j]
      BY <1>1 DEF MembersOf
    <3> QED
      BY <3>1, <3>2, <3>3
  <2>6. ASSUME NEW d \in Clients, (client[d].request.kind = "group")'
        PROVE  Joined(client[d])'
    <3>1. d # c /\ client'[d] = client[d] /\ client[d].request.kind = "group"
      BY <2>2, <2>6, <1>3
    <3>2. Joined(client[d])
      BY <3>1 DEF IInv, Grouped
    <3>3. client[d].id \in 1 .. requests
      <4>1. client[d].at # "idle"
        BY <3>1 DEF IInv, Base, Sound, Idle, NoRequest
      <4> QED
        BY <4>1 DEF IInv, Base, Sound
    <3>4. MembersOf(client[d].id)' = MembersOf(client[d].id)
      BY <2>1, <2>2, <3>1, <3>3
    <3>5. \A j \in MembersOf(client[d].id) : runs'[j] = runs[j]
      BY <1>1 DEF MembersOf
    <3> QED
      BY <3>1, <3>2, <3>4, <3>5 DEF Joined
  <2>7. GroupsComparable'
    BY <2>2, <2>5 DEF GroupsComparable
  <2> QED
    BY <2>2, <2>3, <2>4, <2>6, <2>7 DEF Grouped
<1> QED
  BY <1>4, <1>5, <1>6, <1>7 DEF IInv

LEMMA RowIsFair ==
  ASSUME IInv, NEW c \in Clients, client[c].at = "members",
         client[c].request.kind \in Backtests, NEW strategy, NEW group
  PROVE  Fair(RunRow(c, strategy, group))
BY DEF IInv, Fetched, Keeps, Fair, RunRow

LEMMA CombineKeeps == ASSUME IInv, NEW c \in Clients, Combine(c) PROVE IInv'
<1>1. /\ client[c].at = "members" /\ client[c].request.kind \in Backtests /\ Done(c)
      /\ client[c].at # "picks"
      /\ UNCHANGED <<candles, groups, screens, picks, requests, cut>>
  BY DEF Combine, At, Backtests
<1>2. CASE UNCHANGED runs
  BY <1>1, <1>2, QuietDone
<1>3. ASSUME NEW b \in Ballots, NEW d \in Directions, NEW p \in Prices,
             runs' = Append(runs, [RunRow(c, Combined, 0) EXCEPT
                                     !.ballot = b, !.direction = d, !.price = p,
                                     !.signal = OnBar(b, d, p)])
      PROVE  IInv'
  <2>1. PICK row : row = [RunRow(c, Combined, 0) EXCEPT
                            !.ballot = b, !.direction = d, !.price = p,
                            !.signal = OnBar(b, d, p)]
    OBVIOUS
  <2>2. /\ row.group = 0 /\ row.bars = client[c].bars /\ row.answered = client[c].answered
        /\ row.crossed = client[c].crossed
    BY <2>1 DEF RunRow
  <2>3. Fair(row)
    BY <1>1, <2>2 DEF IInv, Fetched, Keeps, Fair
  <2> QED
    BY <1>1, <1>3, <2>1, <2>2, <2>3, RowAlone
<1> QED
  BY <1>2, <1>3 DEF Combine

\* A member of a group: one row more, and one member less to run.
LEMMA MemberJoins ==
  ASSUME IInv, NEW c \in Clients, client[c].at = "members",
         client[c].request.kind = "group", NEW row, Fair(row), row.group = client[c].id,
         row.bars = client[c].bars, runs' = Append(runs, row),
         NEW n, n = [client[c] EXCEPT !.left = Tail(@),
                       !.at = IF Len(client[c].left) = 1 THEN "header" ELSE "members"],
         client' = [client EXCEPT ![c] = n],
         UNCHANGED <<candles, groups, screens, picks, requests, cut>>
  PROVE  IInv'
<1>1. PICK i : /\ i \notin DOMAIN runs /\ DOMAIN runs' = DOMAIN runs \cup {i}
               /\ runs'[i] = row /\ \A j \in DOMAIN runs : runs'[j] = runs[j]
  BY RowAppended DEF IInv
<1>2. PICK h : h = client[c]
  OBVIOUS
<1>3. Sound(h) /\ Keeps(h) /\ Joined(h)
  BY <1>2 DEF IInv, Base, Fetched, Grouped, Backtests
<1>4. /\ h.left # <<>> /\ h.left \in Seq(Names \cup Symbols) /\ h.id \in 1 .. requests
      /\ requests \in Nat
  BY <1>2, <1>3 DEF Sound, IInv, Base
<1>5. /\ DOMAIN n = Fields /\ n.left = Tail(h.left) /\ n.request = h.request /\ n.id = h.id
      /\ n.at = IF Len(h.left) = 1 THEN "header" ELSE "members"
      /\ n.answered = h.answered /\ n.bars = h.bars /\ n.crossed = h.crossed
      /\ n.candles = h.candles
  BY <1>2, <1>3 DEF Sound, Fields
<1>6. /\ Tail(h.left) \in Seq(Names \cup Symbols) /\ Len(h.left) \in Nat
      /\ Len(Tail(h.left)) = Len(h.left) - 1
      /\ Len(h.left) # 1 => Tail(h.left) # <<>>
  <2>1. /\ Tail(h.left) \in Seq(Names \cup Symbols) /\ Len(h.left) \in Nat
        /\ Len(Tail(h.left)) = Len(h.left) - 1
    BY <1>4
  <2>2. Tail(h.left) = <<>> => Len(Tail(h.left)) = 0
    BY EmptySeq
  <2> QED
    BY <2>1, <2>2
<1>7. Sound(n)
  BY <1>2, <1>3, <1>5, <1>6 DEF Sound, Stages, Backtests
<1>8. Keeps(n)
  BY <1>2, <1>3, <1>5 DEF Keeps
<1>9. Base'
  <2>1. \E S : runs' \in Seq(S)
    BY RowAppended DEF IInv
  <2>2. requests' = requests /\ DOMAIN candles' = Symbols /\ n.id = client[c].id
    BY <1>2, <1>5 DEF IInv, Base
  <2> QED
    BY <1>7, <2>1, <2>2, BaseKept DEF IInv
<1>10. Fetched'
  BY <1>8, FetchedRow
<1>11. Picked'
  <2>1. client[c].at # "picks" /\ n.at # "picks" /\ n.id = client[c].id
    BY <1>2, <1>5
  <2> QED
    BY <2>1, PickedStep DEF IInv
<1>12. Grouped'
  <2>1. /\ client'[c] = n /\ \A d \in Clients : d # c => client'[d] = client[d]
        /\ groups' = groups /\ requests' = requests
    BY DEF IInv, Base
  <2>2. ASSUME NEW id, id # h.id PROVE MembersOf(id)' = MembersOf(id)
    BY <1>1, <1>2, <2>2 DEF MembersOf
  <2>3. MembersOf(h.id)' = MembersOf(h.id) \cup {i} /\ i \notin MembersOf(h.id)
    BY <1>1, <1>2 DEF MembersOf
  <2>4. ASSUME NEW id, NEW j \in MembersOf(id) PROVE runs'[j] = runs[j]
    BY <1>1 DEF MembersOf
  <2>5. \A j \in DOMAIN runs' : runs'[j].group \in 0 .. requests'
    BY <1>1, <1>2, <1>4, <2>1 DEF IInv, Grouped
  <2>6. \A g \in groups :
          g.id \in 1 .. requests /\ \A d \in Clients : client'[d].id # g.id
    BY <1>2, <1>5, <2>1 DEF IInv, Grouped
  <2>7. ASSUME NEW g \in groups
        PROVE  /\ Cardinality(MembersOf(g.id)') = g.members
               /\ \A j \in MembersOf(g.id)' : runs'[j].bars = g.bars
    <3>1. g.id # h.id
      BY <1>2 DEF IInv, Grouped
    <3>2. MembersOf(g.id)' = MembersOf(g.id)
      BY <2>2, <3>1
    <3>3. /\ Cardinality(MembersOf(g.id)) = g.members
          /\ \A j \in MembersOf(g.id) : runs[j].bars = g.bars
      BY DEF IInv, Grouped, GroupsComparable
    <3> QED
      BY <2>4, <3>2, <3>3
  <2>8. GroupsComparable'
    BY <2>1, <2>7 DEF GroupsComparable
  <2>9. Joined(n)'
    <3>1. Cardinality(MembersOf(h.id)) + Len(h.left) = Len(h.request.members)
      BY <1>2, <1>3 DEF Joined
    <3>2. Cardinality(MembersOf(h.id)') = Cardinality(MembersOf(h.id)) + 1
          /\ Cardinality(MembersOf(h.id)) \in Nat
      <4>1. IsFiniteSet(MembersOf(h.id))
        BY MembersAreFinite DEF IInv
      <4> QED
        BY <2>3, <4>1, FS_AddElement, FS_CardinalityType
    <3>3. Cardinality(MembersOf(h.id)') + Len(n.left) = Len(n.request.members)
      <4>1. Len(n.left) = Len(h.left) - 1 /\ n.request.members = h.request.members
        BY <1>5, <1>6
      <4>2. PICK a \in Nat, b \in Nat :
              a = Cardinality(MembersOf(h.id)) /\ b = Len(h.left)
        BY <1>6, <3>2
      <4>3. a + b = Len(n.request.members)
        BY <3>1, <4>1, <4>2
      <4>4. Cardinality(MembersOf(h.id)') = a + 1 /\ Len(n.left) = b - 1
        BY <3>2, <4>1, <4>2
      <4> QED
        BY <4>3, <4>4
    <3>4. n.at = "header" => Cardinality(MembersOf(h.id)') = Len(n.request.members)
      BY <1>5, <1>6, <3>1, <3>2
    <3>5. \A j \in MembersOf(h.id)' : runs'[j].bars = n.bars
      <4>1. \A j \in MembersOf(h.id) : runs[j].bars = h.bars
        BY <1>2, <1>3 DEF Joined
      <4>2. \A j \in MembersOf(h.id) : runs'[j] = runs[j]
        BY <2>4
      <4>3. runs'[i].bars = h.bars /\ n.bars = h.bars
        BY <1>1, <1>2, <1>5
      <4> QED
        BY <2>3, <4>1, <4>2, <4>3
    <3>6. n.at \in {"members", "header"} /\ n.id = h.id
      BY <1>5
    <3> QED
      BY <3>3, <3>4, <3>5, <3>6 DEF Joined
  <2>10. ASSUME NEW d \in Clients, (client[d].request.kind = "group")'
         PROVE  Joined(client[d])'
    <3>1. CASE d = c
      BY <2>1, <2>9, <3>1 DEF Joined
    <3>2. CASE d # c
      <4>1. client'[d] = client[d] /\ Joined(client[d])
        BY <2>1, <2>10, <3>2 DEF IInv, Grouped
      <4>2. client[d].id # h.id
        BY <1>2, <1>4, <3>2 DEF IInv, Base
      <4>3. MembersOf(client[d].id)' = MembersOf(client[d].id)
        BY <2>2, <4>1, <4>2
      <4>4. \A j \in MembersOf(client[d].id) : runs'[j] = runs[j]
        BY <2>4
      <4> QED
        BY <4>1, <4>3, <4>4 DEF Joined
    <3> QED
      BY <3>1, <3>2
  <2> QED
    BY <2>1, <2>5, <2>6, <2>8, <2>10 DEF Grouped
<1> QED
  BY <1>9, <1>10, <1>11, <1>12 DEF IInv

LEMMA RunMemberKeeps == ASSUME IInv, NEW c \in Clients, RunMember(c) PROVE IInv'
<1>1. /\ client[c].at = "members" /\ client[c].request.kind \in {"run", "group"}
      /\ client[c].request.kind \in Backtests /\ client[c].at # "picks"
      /\ UNCHANGED <<candles, groups, screens, picks, requests, cut>>
  BY DEF RunMember, At, Backtests
<1>2. PICK h, group : h = client[c] /\ group = IF h.request.kind = "group" THEN h.id ELSE 0
  OBVIOUS
<1>3. CASE Done(c) /\ UNCHANGED runs
  BY <1>1, <1>3, QuietDone
<1>4. CASE runs' = Append(runs, RunRow(c, Head(h.left), group))
           /\ (IF group = 0 THEN Done(c)
               ELSE Continue(c, [h EXCEPT !.left = Tail(@),
                      !.at = IF Len(h.left) = 1 THEN "header" ELSE NextMember(h.request.kind)]))
  <2>1. PICK row : row = RunRow(c, Head(h.left), group)
    OBVIOUS
  <2>2. Fair(row)
    BY <1>1, <2>1, RowIsFair
  <2>3. row.group = group /\ row.bars = client[c].bars
    BY <2>1 DEF RunRow
  <2>4. CASE group = 0
    BY <1>1, <1>4, <2>1, <2>2, <2>3, <2>4, RowAlone
  <2>5. CASE group # 0
    <3>1. group = client[c].id /\ client[c].request.kind = "group"
      BY <1>2, <2>5
    <3>2. PICK n : n = [client[c] EXCEPT !.left = Tail(@),
                          !.at = IF Len(client[c].left) = 1 THEN "header" ELSE "members"]
      OBVIOUS
    <3>3. client' = [client EXCEPT ![c] = n] /\ runs' = Append(runs, row)
      BY <1>2, <1>4, <2>1, <2>5, <3>2 DEF Continue, NextMember
    <3> QED
      BY <1>1, <2>2, <2>3, <3>1, <3>2, <3>3, MemberJoins
  <2> QED
    BY <2>4, <2>5
<1> QED
  BY <1>2, <1>3, <1>4 DEF RunMember

LEMMA HeaderKeeps == ASSUME IInv, NEW c \in Clients, Header(c) PROVE IInv'
<1>1. PICK h, g : h = client[c] /\ g = [id |-> h.id, members |-> Len(h.request.members),
                                       bars |-> h.bars]
  OBVIOUS
<1>2. /\ h.at = "header" /\ h.request.kind = "group" /\ groups' = groups \cup {g}
      /\ client' = [client EXCEPT ![c] = Idle] /\ Done(c)
      /\ UNCHANGED <<candles, runs, screens, picks, requests, cut>>
  BY <1>1 DEF Header, At, Done
<1>3. Sound(h) /\ Joined(h) /\ requests \in Nat
  BY <1>1, <1>2 DEF IInv, Base, Grouped
<1>4. Idle.id = 0 /\ Idle.request.kind \notin Backtests \cup {"group"} /\ Idle.at # "picks"
  BY DEF Idle, NoRequest, Backtests
<1>5. Base'
  <2>1. \E S : runs' \in Seq(S)
    BY <1>2 DEF IInv, Base
  <2> QED
    BY <1>2, <2>1, BaseDone DEF IInv
<1>6. Fetched'
  BY <1>2, <1>4, FetchedStep DEF IInv
<1>7. Picked'
  BY <1>1, <1>2, <1>4, PickedStep DEF IInv
<1>8. Grouped'
  <2>1. \A d \in Clients : client'[d] = IF d = c THEN Idle ELSE client[d]
    BY <1>2 DEF IInv, Base
  <2>2. \A id : MembersOf(id)' = MembersOf(id)
    BY <1>2 DEF MembersOf
  <2>3. /\ Cardinality(MembersOf(g.id)) = g.members
        /\ \A i \in MembersOf(g.id) : runs[i].bars = g.bars
        /\ g.id = h.id /\ g.id \in 1 .. requests
    BY <1>1, <1>2, <1>3 DEF Joined, Sound
  <2>4. GroupsComparable'
    BY <1>2, <2>2, <2>3 DEF IInv, Grouped, GroupsComparable
  <2>5. \A f \in groups' : f.id \in 1 .. requests'
    BY <1>2, <2>3 DEF IInv, Grouped
  <2>6. ASSUME NEW f \in groups', NEW d \in Clients PROVE client'[d].id # f.id
    <3>1. CASE d = c
      BY <1>2, <1>3, <1>4, <2>1, <2>5, <3>1
    <3>2. CASE d # c /\ f = g
      BY <1>1, <1>3, <2>1, <2>3, <3>2 DEF IInv, Base
    <3>3. CASE d # c /\ f \in groups
      BY <2>1, <3>3 DEF IInv, Grouped
    <3> QED
      BY <1>2, <3>1, <3>2, <3>3
  <2>7. ASSUME NEW d \in Clients, (client[d].request.kind = "group")'
        PROVE  Joined(client[d])'
    <3>1. client'[d] = client[d]
      BY <1>4, <2>1, <2>7
    <3>2. Joined(client[d])
      BY <2>7, <3>1 DEF IInv, Grouped
    <3> QED
      BY <1>2, <2>2, <3>1, <3>2 DEF Joined
  <2>8. \A i \in DOMAIN runs' : runs'[i].group \in 0 .. requests'
    BY <1>2 DEF IInv, Grouped
  <2> QED
    BY <2>4, <2>5, <2>6, <2>7, <2>8 DEF Grouped
<1> QED
  BY <1>5, <1>6, <1>7, <1>8 DEF IInv

-----------------------------------------------------------------------------
(* Picks                                                                   *)

\* SetToSeq lists a finite set, each member once.
LEMMA ListOfSet ==
  ASSUME NEW S, IsFiniteSet(S)
  PROVE  /\ SetToSeq(S) \in Seq(S) /\ ToSet(SetToSeq(S)) = S
         /\ Len(SetToSeq(S)) = Cardinality(S)
<1>1. PICK k : k = Cardinality(S)
  OBVIOUS
<1>2. k \in Nat /\ ExistsBijection(1 .. k, S)
  BY <1>1, FS_CardinalityType
<1>3. \E f \in [1 .. k -> S] : IsInjective(f)
  BY <1>2 DEF ExistsBijection, Bijection, Injection, IsInjective
<1>4. PICK f : f = SetToSeq(S)
  OBVIOUS
<1>5. f \in [1 .. k -> S] /\ IsInjective(f)
  BY <1>1, <1>3, <1>4 DEF SetToSeq
<1>6. f \in Injection(1 .. k, S)
  BY <1>5 DEF Injection, IsInjective
<1>7. Cardinality(1 .. k) = k
  BY <1>2, FS_Interval
<1>8. f \in Surjection(1 .. k, S)
  BY <1>1, <1>6, <1>7, FS_Injection
<1>9. \A s \in S : \E i \in 1 .. k : f[i] = s
  BY <1>8 DEF Surjection
<1>10. f \in Seq(S) /\ Len(f) = k
  BY <1>2, <1>5
<1>11. ToSet(f) = S
  BY <1>5, <1>9 DEF ToSet
<1> QED
  BY <1>1, <1>4, <1>10, <1>11

LEMMA HeadAndTail ==
  ASSUME NEW T, NEW q \in Seq(T), q # <<>>
  PROVE  /\ Head(q) \in T /\ Tail(q) \in Seq(T) /\ ToSet(q) = {Head(q)} \cup ToSet(Tail(q))
         /\ Len(q) = 1 => ToSet(q) = {Head(q)}
         /\ Len(q) # 1 => Tail(q) # <<>>
<1>1. Len(q) \in Nat \ {0} /\ Head(q) = q[1] /\ Head(q) \in T /\ DOMAIN q = 1 .. Len(q)
  BY EmptySeq
<1>2. /\ Tail(q) \in Seq(T) /\ Len(Tail(q)) = Len(q) - 1
      /\ \A i \in 1 .. Len(q) - 1 : Tail(q)[i] = q[i + 1]
  BY <1>1
<1>3. DOMAIN Tail(q) = 1 .. Len(q) - 1
  BY <1>1, <1>2
<1>4. ToSet(q) = {Head(q)} \cup ToSet(Tail(q))
  <2>1. ASSUME NEW i \in DOMAIN q PROVE q[i] = Head(q) \/ \E j \in DOMAIN Tail(q) : q[i] = Tail(q)[j]
    <3>1. i = 1 \/ i - 1 \in 1 .. Len(q) - 1
      BY <1>1, <2>1
    <3> QED
      BY <1>1, <1>2, <1>3, <3>1
  <2>2. ASSUME NEW j \in DOMAIN Tail(q) PROVE \E i \in DOMAIN q : q[i] = Tail(q)[j]
    <3>1. j + 1 \in DOMAIN q
      BY <1>1, <1>3, <2>2
    <3> QED
      BY <1>2, <1>3, <3>1
  <2>3. 1 \in DOMAIN q
    BY <1>1
  <2>4. PICK t : t = Tail(q)
    OBVIOUS
  <2>5. ASSUME NEW x \in ToSet(q) PROVE x \in {Head(q)} \cup ToSet(t)
    BY <2>1, <2>4, <2>5 DEF ToSet
  <2>6. ASSUME NEW x \in {Head(q)} \cup ToSet(t) PROVE x \in ToSet(q)
    BY <1>1, <2>2, <2>3, <2>4, <2>6 DEF ToSet
  <2> QED
    BY <2>4, <2>5, <2>6
<1>5. Len(q) = 1 => ToSet(q) = {Head(q)}
  BY <1>1 DEF ToSet
<1>6. Tail(q) = <<>> => Len(Tail(q)) = 0
  BY EmptySeq
<1> QED
  BY <1>1, <1>2, <1>4, <1>5, <1>6

LEMMA RecordKeeps == ASSUME IInv, NEW c \in Clients, Record(c) PROVE IInv'
<1>1. PICK h, S, passed, s :
        /\ h = client[c] /\ S = Evaluate(h.filters, h.candles) /\ passed = SetToSeq(S)
        /\ s = [id |-> h.id, filters |-> h.filters, candles |-> h.candles,
                eligible |-> Cardinality(DOMAIN h.candles), passed |-> Len(passed)]
  OBVIOUS
<1>2. /\ h.at = "scan" /\ h.request.kind = "screen"
      /\ UNCHANGED <<candles, runs, groups, picks, requests, cut>>
      /\ screens' = screens \cup {s}
      /\ IF passed = <<>> THEN Done(c)
         ELSE Continue(c, [h EXCEPT !.at = "picks", !.left = passed])
  BY <1>1 DEF Record, At
<1>3. Sound(h) /\ h.id \in 1 .. requests /\ requests \in Nat
  BY <1>1, <1>2 DEF IInv, Base, Sound
<1>4. S \subseteq DOMAIN h.candles /\ IsFiniteSet(S) /\ S \subseteq Names \cup Symbols
  <2>1. S \subseteq DOMAIN h.candles
    BY <1>1 DEF Evaluate
  <2> QED
    BY <1>3, <2>1, FS_Subset DEF Sound
<1>5. /\ passed \in Seq(S) /\ ToSet(passed) = S /\ Len(passed) = Cardinality(S)
      /\ passed \in Seq(Names \cup Symbols)
  <2>1. passed \in Seq(S) /\ ToSet(passed) = S /\ Len(passed) = Cardinality(S)
    BY <1>1, <1>4, ListOfSet
  <2> QED
    BY <1>4, <2>1
<1>6. \E n : /\ client' = [client EXCEPT ![c] = n] /\ Sound(n)
             /\ \/ n = Idle /\ passed = <<>>
                \/ n.id = h.id /\ n.at = "picks" /\ n.left = passed
                   /\ n.request.kind = "screen"
  <2>1. CASE passed = <<>>
    BY <1>2, <2>1, IdleIsSound DEF Done
  <2>2. CASE passed # <<>>
    <3>1. PICK n : n = [h EXCEPT !.at = "picks", !.left = passed]
      OBVIOUS
    <3>2. /\ DOMAIN n = Fields /\ n.at = "picks" /\ n.left = passed /\ n.request = h.request
          /\ n.id = h.id /\ n.candles = h.candles
      BY <1>3, <3>1 DEF Sound, Fields
    <3>3. Sound(n)
      BY <1>2, <1>3, <1>5, <2>2, <3>2 DEF Sound, Stages, Backtests
    <3> QED
      BY <1>2, <2>2, <3>1, <3>2, <3>3 DEF Continue
  <2> QED
    BY <2>1, <2>2
<1>7. PICK n : /\ client' = [client EXCEPT ![c] = n] /\ Sound(n)
               /\ \/ n = Idle /\ passed = <<>>
                  \/ n.id = h.id /\ n.at = "picks" /\ n.left = passed
                     /\ n.request.kind = "screen"
  BY <1>6
<1>8. n.request.kind \notin Backtests \cup {"group"}
  BY <1>7 DEF Idle, NoRequest, Backtests
<1>9. Idle.id = 0 /\ Idle.at = "idle"
  BY DEF Idle
<1>10. Base'
  <2>1. (\E T : runs' \in Seq(T)) /\ DOMAIN candles' = Symbols
    BY <1>2 DEF IInv, Base
  <2>2. n = Idle \/ n.id = client[c].id
    BY <1>1, <1>7
  <2>3. requests' = requests
    BY <1>2
  <2> QED
    BY <1>7, <2>1, <2>2, <2>3, BaseKept DEF IInv
<1>11. Fetched'
  BY <1>2, <1>7, <1>8, FetchedStep DEF IInv
<1>12. Grouped'
  <2>1. n.id = 0 \/ n.id = client[c].id
    BY <1>1, <1>7, <1>9
  <2> QED
    BY <1>2, <1>7, <1>8, <2>1, GroupedStep DEF IInv
<1>13. Picked'
  <2>1. /\ client'[c] = n /\ \A d \in Clients : d # c => client'[d] = client[d]
        /\ \A d \in Clients : d # c => client[d].id # h.id
    BY <1>1, <1>3, <1>7 DEF IInv, Base
  <2>2. \A id : PicksOf(id)' = PicksOf(id)
    BY <1>2 DEF PicksOf
  <2>3. \A id : Recording(id) => Recording(id)'
    BY <1>1, <1>2, <2>1 DEF Recording
  <2>4. PicksOf(h.id) = {}
    BY <1>1, <1>2 DEF IInv, Picked, PicksOf
  <2>5. /\ s.id = h.id /\ s.candles = h.candles /\ Passing(s) = S
        /\ s.eligible = Cardinality(DOMAIN s.candles) /\ s.passed = Cardinality(Passing(s))
        /\ IsFiniteSet(DOMAIN s.candles)
    BY <1>1, <1>3, <1>5 DEF Passing, Sound
  <2>6. passed = <<>> => S = {}
    BY <1>5 DEF ToSet
  <2>7. \/ n = Idle /\ S = {}
        \/ n.id = h.id /\ n.at = "picks" /\ ToSet(n.left) = S /\ Recording(h.id)'
    BY <1>5, <1>7, <2>1, <2>6 DEF Recording
  <2>8. ASSUME NEW r \in screens'
        PROVE  /\ r.id \in 1 .. requests'
               /\ IsFiniteSet(DOMAIN r.candles)
               /\ r.eligible = Cardinality(DOMAIN r.candles)
               /\ r.passed = Cardinality(Passing(r))
               /\ PicksOf(r.id)' \subseteq Passing(r)
               /\ PicksOf(r.id)' = Passing(r) \/ Recording(r.id)' \/ r.id \in cut'
    <3>1. CASE r \in screens
      BY <1>2, <2>2, <2>3, <3>1 DEF IInv, Picked
    <3>2. CASE r = s
      BY <1>2, <1>3, <2>2, <2>4, <2>5, <2>7, <3>2
    <3> QED
      BY <1>2, <3>1, <3>2
  <2>9. ASSUME NEW d \in Clients
        PROVE  /\ client'[d].at = "picks" =>
                    \A r \in screens' : r.id = client'[d].id =>
                       PicksOf(r.id)' \cup ToSet(client'[d].left) = Passing(r)
               /\ client'[d].at # "picks" =>
                    /\ \A r \in screens' : r.id # client'[d].id
                    /\ \A q \in picks' : q.screen # client'[d].id
    <3>1. CASE d # c
      BY <1>2, <2>1, <2>2, <2>5, <3>1 DEF IInv, Picked
    <3>2. CASE d = c /\ n = Idle
      BY <1>2, <1>9, <2>1, <2>8, <3>2 DEF IInv, Picked
    <3>3. CASE d = c /\ n.at = "picks" /\ n.id = h.id /\ ToSet(n.left) = S
      <4>1. \A r \in screens : r.id # h.id
        BY <1>1, <1>2 DEF IInv, Picked
      <4> QED
        BY <1>2, <2>1, <2>2, <2>4, <2>5, <3>3, <4>1
    <3> QED
      BY <2>7, <3>1, <3>2, <3>3
  <2>10. \A q \in picks' : q.screen \in 1 .. requests'
    BY <1>2 DEF IInv, Picked
  <2> QED
    BY <2>8, <2>9, <2>10 DEF Picked, Passing
<1> QED
  BY <1>10, <1>11, <1>12, <1>13 DEF IInv

LEMMA PickKeeps == ASSUME IInv, NEW c \in Clients, Pick(c) PROVE IInv'
<1>1. PICK h, y, q : /\ h = client[c] /\ y = Head(h.left)
                     /\ q = [screen |-> h.id, symbol |-> y]
  OBVIOUS
<1>2. /\ h.at = "picks" /\ h.request.kind = "screen"
      /\ UNCHANGED <<candles, runs, groups, screens, requests, cut>>
      /\ picks' = picks \cup {q}
      /\ IF Len(h.left) = 1 THEN Done(c) ELSE Continue(c, [h EXCEPT !.left = Tail(@)])
  BY <1>1 DEF Pick, At
<1>3. Sound(h) /\ h.id \in 1 .. requests /\ requests \in Nat
  BY <1>1, <1>2 DEF IInv, Base, Sound
<1>4. h.left \in Seq(Names \cup Symbols) /\ h.left # <<>>
  BY <1>2, <1>3 DEF Sound
<1>5. /\ Tail(h.left) \in Seq(Names \cup Symbols)
      /\ ToSet(h.left) = {y} \cup ToSet(Tail(h.left))
      /\ Len(h.left) = 1 => ToSet(h.left) = {y}
      /\ Len(h.left) # 1 => Tail(h.left) # <<>>
  BY <1>1, <1>4, HeadAndTail
<1>6. \E n : /\ client' = [client EXCEPT ![c] = n] /\ Sound(n)
             /\ \/ n = Idle /\ Len(h.left) = 1
                \/ n.id = h.id /\ n.at = "picks" /\ n.left = Tail(h.left)
                   /\ n.request.kind = "screen"
  <2>1. CASE Len(h.left) = 1
    BY <1>2, <2>1, IdleIsSound DEF Done
  <2>2. CASE Len(h.left) # 1
    <3>1. PICK n : n = [h EXCEPT !.left = Tail(h.left)]
      OBVIOUS
    <3>2. /\ DOMAIN n = Fields /\ n.at = "picks" /\ n.left = Tail(h.left)
          /\ n.request = h.request /\ n.id = h.id /\ n.candles = h.candles
      BY <1>2, <1>3, <3>1 DEF Sound, Fields
    <3>3. Sound(n)
      BY <1>2, <1>3, <1>5, <2>2, <3>2 DEF Sound, Stages, Backtests
    <3> QED
      BY <1>2, <2>2, <3>1, <3>2, <3>3 DEF Continue
  <2> QED
    BY <2>1, <2>2
<1>7. PICK n : /\ client' = [client EXCEPT ![c] = n] /\ Sound(n)
               /\ \/ n = Idle /\ Len(h.left) = 1
                  \/ n.id = h.id /\ n.at = "picks" /\ n.left = Tail(h.left)
                     /\ n.request.kind = "screen"
  BY <1>6
<1>8. n.request.kind \notin Backtests \cup {"group"}
  BY <1>7 DEF Idle, NoRequest, Backtests
<1>9. Idle.id = 0 /\ Idle.at = "idle"
  BY DEF Idle
<1>10. Base'
  <2>1. (\E T : runs' \in Seq(T)) /\ DOMAIN candles' = Symbols
    BY <1>2 DEF IInv, Base
  <2>2. (n = Idle \/ n.id = client[c].id) /\ requests' = requests
    BY <1>1, <1>2, <1>7
  <2> QED
    BY <1>7, <2>1, <2>2, BaseKept DEF IInv
<1>11. Fetched'
  BY <1>2, <1>7, <1>8, FetchedStep DEF IInv
<1>12. Grouped'
  <2>1. n.id = 0 \/ n.id = client[c].id
    BY <1>1, <1>7, <1>9
  <2> QED
    BY <1>2, <1>7, <1>8, <2>1, GroupedStep DEF IInv
<1>13. Picked'
  <2>1. /\ client'[c] = n /\ \A d \in Clients : d # c => client'[d] = client[d]
        /\ \A d \in Clients : d # c => client[d].id # h.id
    BY <1>1, <1>3, <1>7 DEF IInv, Base
  <2>2. ASSUME NEW id, id # h.id PROVE PicksOf(id)' = PicksOf(id)
    BY <1>1, <1>2, <2>2 DEF PicksOf
  <2>3. PicksOf(h.id)' = PicksOf(h.id) \cup {y}
    BY <1>1, <1>2 DEF PicksOf
  <2>4. ASSUME NEW id, id # h.id, Recording(id) PROVE Recording(id)'
    BY <1>1, <2>1, <2>4 DEF Recording
  <2>5. \A r \in screens : r.id = h.id => PicksOf(r.id) \cup ToSet(h.left) = Passing(r)
    BY <1>1, <1>2 DEF IInv, Picked
  <2>6. ASSUME NEW r \in screens, r.id = h.id
        PROVE  /\ PicksOf(r.id)' \subseteq Passing(r)
               /\ n = Idle => PicksOf(r.id)' = Passing(r)
               /\ n.at = "picks" => PicksOf(r.id)' \cup ToSet(n.left) = Passing(r)
    <3>1. PicksOf(h.id) \cup ToSet(h.left) = Passing(r)
      BY <2>5, <2>6
    <3>2. PicksOf(r.id)' = PicksOf(h.id) \cup {y}
      BY <2>3, <2>6
    <3>3. n = Idle => ToSet(h.left) = {y}
      BY <1>2, <1>5, <1>7, <1>9
    <3>4. n.at = "picks" => n.left = Tail(h.left)
      BY <1>7, <1>9
    <3> QED
      BY <1>5, <3>1, <3>2, <3>3, <3>4
  <2>7. n = Idle \/ (n.at = "picks" /\ n.id = h.id /\ Recording(h.id)')
    BY <1>7, <2>1 DEF Recording
  <2>8. ASSUME NEW r \in screens
        PROVE  /\ r.id \in 1 .. requests'
               /\ IsFiniteSet(DOMAIN r.candles)
               /\ r.eligible = Cardinality(DOMAIN r.candles)
               /\ r.passed = Cardinality(Passing(r))
               /\ PicksOf(r.id)' \subseteq Passing(r)
               /\ PicksOf(r.id)' = Passing(r) \/ Recording(r.id)' \/ r.id \in cut'
    <3>1. /\ r.id \in 1 .. requests' /\ IsFiniteSet(DOMAIN r.candles)
          /\ r.eligible = Cardinality(DOMAIN r.candles)
          /\ r.passed = Cardinality(Passing(r))
          /\ PicksOf(r.id) \subseteq Passing(r)
          /\ PicksOf(r.id) = Passing(r) \/ Recording(r.id) \/ r.id \in cut'
      BY <1>2 DEF IInv, Picked
    <3>2. CASE r.id = h.id
      BY <2>6, <2>7, <3>1, <3>2
    <3>3. CASE r.id # h.id
      <4>1. PicksOf(r.id)' = PicksOf(r.id) /\ (Recording(r.id) => Recording(r.id)')
        BY <2>2, <2>4, <3>3
      <4> QED
        BY <3>1, <4>1
    <3> QED
      BY <3>2, <3>3
  <2>9. ASSUME NEW d \in Clients
        PROVE  /\ client'[d].at = "picks" =>
                    \A r \in screens' : r.id = client'[d].id =>
                       PicksOf(r.id)' \cup ToSet(client'[d].left) = Passing(r)
               /\ client'[d].at # "picks" =>
                    /\ \A r \in screens' : r.id # client'[d].id
                    /\ \A p \in picks' : p.screen # client'[d].id
    <3>1. CASE d # c
      <4>1. client'[d] = client[d] /\ client[d].id # h.id
        BY <2>1, <3>1
      <4>2. \A r \in screens : r.id = client[d].id => PicksOf(r.id)' = PicksOf(r.id)
        BY <2>2, <4>1
      <4>3. \A p \in picks' : p \in picks \/ p.screen # client[d].id
        BY <1>1, <1>2, <4>1
      <4> QED
        BY <1>2, <4>1, <4>2, <4>3 DEF IInv, Picked
    <3>2. CASE d = c /\ n = Idle
      <4>1. client'[d].at # "picks" /\ client'[d].id = 0
        BY <1>9, <2>1, <3>2
      <4>2. \A p \in picks' : p.screen \in 1 .. requests
        BY <1>1, <1>2, <1>3 DEF IInv, Picked
      <4> QED
        BY <1>2, <2>8, <4>1, <4>2
    <3>3. CASE d = c /\ n.at = "picks" /\ n.id = h.id
      BY <1>2, <2>1, <2>6, <3>3
    <3> QED
      BY <2>7, <3>1, <3>2, <3>3
  <2>10. \A p \in picks' : p.screen \in 1 .. requests'
    BY <1>1, <1>2, <1>3 DEF IInv, Picked
  <2> QED
    BY <1>2, <2>8, <2>9, <2>10 DEF Picked, Passing
<1> QED
  BY <1>10, <1>11, <1>12, <1>13 DEF IInv

-----------------------------------------------------------------------------
(* Time, crashes, and every step                                           *)

LEMMA StutterKeeps ==
  ASSUME IInv,
         UNCHANGED <<candles, runs, groups, screens, picks, client, requests, cut>>
  PROVE  IInv'
<1>1. Base'
  BY DEF IInv, Base, Sound
<1>2. Fetched'
  BY DEF IInv, Fetched, RunsUseFetchedBars, Keeps, InRange
<1>3. Grouped'
  BY DEF IInv, Grouped, GroupsComparable, Joined, MembersOf
<1>4. Picked'
  BY DEF IInv, Picked, Passing, PicksOf, Recording
<1> QED
  BY <1>1, <1>2, <1>3, <1>4 DEF IInv

LEMMA CrashKeeps == ASSUME IInv, Crash PROVE IInv'
<1>1. /\ UNCHANGED <<candles, runs, groups, screens, picks, requests>>
      /\ DOMAIN client' = Clients /\ \A c \in Clients : client'[c] = Idle
      /\ cut' = cut \cup {client[c].id : c \in {d \in Clients : client[d].at = "picks"}}
  BY DEF Crash
<1>2. Idle.id = 0 /\ Idle.request.kind \notin Backtests \cup {"group"} /\ Idle.at # "picks"
  BY DEF Idle, NoRequest, Backtests
<1>3. requests \in Nat
  BY DEF IInv, Base
<1>4. Base'
  <2>1. Sound(Idle)
    BY IdleIsSound
  <2>2. \A c \in Clients : Sound(client[c])'
    BY <1>1, <2>1 DEF Sound
  <2> QED
    BY <1>1, <1>2, <2>2 DEF IInv, Base
<1>5. Fetched'
  BY <1>1, <1>2 DEF IInv, Fetched, RunsUseFetchedBars
<1>6. Grouped'
  <2>1. \A id : MembersOf(id)' = MembersOf(id)
    BY <1>1 DEF MembersOf
  <2>2. GroupsComparable'
    BY <1>1, <2>1 DEF IInv, Grouped, GroupsComparable
  <2> QED
    BY <1>1, <1>2, <1>3, <2>2 DEF IInv, Grouped
<1>7. Picked'
  <2>1. \A id : PicksOf(id)' = PicksOf(id)
    BY <1>1 DEF PicksOf
  <2>2. \A id : Recording(id) => id \in cut'
    BY <1>1 DEF Recording
  <2>3. ASSUME NEW s \in screens
        PROVE  /\ s.id \in 1 .. requests
               /\ IsFiniteSet(DOMAIN s.candles)
               /\ s.eligible = Cardinality(DOMAIN s.candles)
               /\ s.passed = Cardinality(Passing(s))
               /\ PicksOf(s.id)' \subseteq Passing(s)
               /\ PicksOf(s.id)' = Passing(s) \/ s.id \in cut'
    BY <1>1, <2>1, <2>2 DEF IInv, Picked
  <2>4. \A q \in picks : q.screen \in 1 .. requests
    BY DEF IInv, Picked
  <2> QED
    BY <1>1, <1>2, <1>3, <2>3, <2>4 DEF Picked, Passing
<1> QED
  BY <1>4, <1>5, <1>6, <1>7 DEF IInv

LEMMA InitHolds == Init => IInv
<1> SUFFICES ASSUME Init PROVE IInv
  OBVIOUS
<1>1. /\ candles = Stored /\ runs = <<>> /\ groups = {} /\ screens = {} /\ picks = {}
      /\ DOMAIN client = Clients /\ \A c \in Clients : client[c] = Idle
      /\ requests = 0
  BY DEF Init
<1>2. Idle.id = 0 /\ Idle.request.kind \notin Backtests \cup {"group"} /\ Idle.at # "picks"
  BY DEF Idle, NoRequest, Backtests
<1>3. DOMAIN runs = {} /\ \E S : runs \in Seq(S)
  BY <1>1
<1>4. Base
  BY <1>1, <1>2, <1>3, IdleIsSound, StoredAssumption DEF Base
<1>5. Fetched /\ Grouped
  BY <1>1, <1>2, <1>3 DEF Fetched, RunsUseFetchedBars, Grouped, GroupsComparable
<1>6. Picked
  BY <1>1, <1>2 DEF Picked
<1> QED
  BY <1>4, <1>5, <1>6 DEF IInv

LEMMA NextHolds == IInv /\ [Next]_vars => IInv'
<1> SUFFICES ASSUME IInv, [Next]_vars PROVE IInv'
  OBVIOUS
<1>1. CASE UNCHANGED vars
  BY <1>1, StutterKeeps DEF vars
<1>2. CASE Tick
  BY <1>2, StutterKeeps DEF Tick
<1>3. CASE Crash
  BY <1>3, CrashKeeps
<1>4. ASSUME NEW c \in Clients,
             \/ Arrive(c) \/ Take(c)
             \/ Generate(c) \/ Fetch(c) \/ FetchFails(c) \/ Patch(c) \/ Store(c) \/ ReadBars(c)
             \/ RunMember(c) \/ Header(c) \/ Combine(c)
             \/ Formula(c) \/ Scan(c) \/ ReadFetched(c) \/ Record(c) \/ Pick(c)
             \/ Ask(c) \/ Answer(c)
      PROVE  IInv'
  <2>1. CASE Arrive(c) \/ Take(c) \/ Generate(c) \/ Fetch(c) \/ FetchFails(c) \/ Patch(c)
    BY <2>1, ArriveKeeps, TakeKeeps, GenerateKeeps, FetchKeeps, FetchFailsKeeps, PatchKeeps
  <2>2. CASE Store(c) \/ ReadBars(c) \/ RunMember(c) \/ Header(c) \/ Combine(c)
    BY <2>2, StoreKeeps, ReadBarsKeeps, RunMemberKeeps, HeaderKeeps, CombineKeeps
  <2>3. CASE Formula(c) \/ Scan(c) \/ ReadFetched(c) \/ Record(c) \/ Pick(c)
    BY <2>3, FormulaKeeps, ScanKeeps, ReadFetchedKeeps, RecordKeeps, PickKeeps
  <2>4. CASE Ask(c) \/ Answer(c)
    BY <2>4, AskKeeps, AnswerKeeps
  <2> QED
    BY <1>4, <2>1, <2>2, <2>3, <2>4
<1> QED
  BY <1>1, <1>2, <1>3, <1>4 DEF Next

-----------------------------------------------------------------------------
(* Theorems                                                                *)

\* The members of a group that the compare page finds are all there and ran on
\* the same bars, whatever other requests stored while run_group was at work,
\* and however often the dashboard died.
THEOREM GroupsAreComparable == Spec => []GroupsComparable
<1>1. IInv => GroupsComparable
  BY DEF IInv, Grouped
<1> QED
  BY <1>1, InitHolds, NextHolds, PTL DEF Spec

\* A backtest runs on all the bars Kite answered it with and on none older than
\* those (_run_in_thread: fetch_and_store, then get_bars), unless another
\* request stored its own answer in between.
THEOREM RunsAreOnFetchedBars == Spec => []RunsUseFetchedBars
<1>1. IInv => RunsUseFetchedBars
  BY DEF IInv, Fetched
<1> QED
  BY <1>1, InitHolds, NextHolds, PTL DEF Spec

\* A screen's picks pass its formula, and they are as many as record_run's row
\* says, but while they are written or if a crash cut them off.
THEOREM PicksAreOfTheFormula == Spec => []PicksMeetFormula
<1>1. IInv => PicksMeetFormula
  <2> SUFFICES ASSUME IInv, NEW s \in screens
               PROVE  /\ \A y \in PicksOf(s.id) :
                           /\ Cardinality(DOMAIN s.candles[y]) >= MinBars
                           /\ \A i \in DOMAIN s.filters : Matches(s.filters[i], s.candles[y])
                      /\ Cardinality(PicksOf(s.id)) <= s.passed /\ s.passed <= s.eligible
                      /\ \/ Cardinality(PicksOf(s.id)) = s.passed
                         \/ Recording(s.id) \/ s.id \in cut
    BY DEF PicksMeetFormula
  <2>1. /\ IsFiniteSet(DOMAIN s.candles)
        /\ s.eligible = Cardinality(DOMAIN s.candles)
        /\ s.passed = Cardinality(Passing(s))
        /\ PicksOf(s.id) \subseteq Passing(s)
        /\ PicksOf(s.id) = Passing(s) \/ Recording(s.id) \/ s.id \in cut
    BY DEF IInv, Picked
  <2>2. \A y \in Passing(s) :
          /\ y \in DOMAIN s.candles /\ Cardinality(DOMAIN s.candles[y]) >= MinBars
          /\ \A i \in DOMAIN s.filters : Matches(s.filters[i], s.candles[y])
    BY DEF Passing, Evaluate, Evaluable
  <2>3. IsFiniteSet(Passing(s)) /\ Cardinality(Passing(s)) <= Cardinality(DOMAIN s.candles)
    BY <2>1, <2>2, FS_Subset
  <2>4. Cardinality(PicksOf(s.id)) <= Cardinality(Passing(s))
    BY <2>1, <2>3, FS_Subset
  <2> QED
    BY <2>1, <2>2, <2>3, <2>4
<1> QED
  BY <1>1, InitHolds, NextHolds, PTL DEF Spec

-----------------------------------------------------------------------------
(* Composites                                                             *)

\* A smaller set, one element less.
LEMMA OneLess ==
  ASSUME NEW T, IsFiniteSet(T), NEW x \in T
  PROVE  /\ IsFiniteSet(T \ {x}) /\ Cardinality(T) \in Nat /\ Cardinality(T \ {x}) \in Nat
         /\ Cardinality(T) = Cardinality(T \ {x}) + 1
<1>1. IsFiniteSet(T \ {x}) /\ T = (T \ {x}) \cup {x} /\ x \notin T \ {x}
  BY FS_RemoveElement
<1>2. Cardinality(T \ {x}) \in Nat
  BY <1>1, FS_CardinalityType
<1>3. Cardinality((T \ {x}) \cup {x}) = Cardinality(T \ {x}) + 1
  BY <1>1, FS_AddElement
<1>4. Cardinality(T) = Cardinality((T \ {x}) \cup {x})
  BY <1>1
<1>5. Cardinality(T) = Cardinality(T \ {x}) + 1
  BY <1>3, <1>4
<1> QED
  BY <1>1, <1>2, <1>5

LEMMA GreatestIsThere ==
  ASSUME NEW S, S \subseteq Nat, S # {}, IsFiniteSet(S)
  PROVE  \E m \in S : \A k \in S : k <= m
<1>1. PICK bad : bad = {n \in Nat : \E T \in SUBSET S :
                          /\ Cardinality(T) = n /\ T # {}
                          /\ \A m \in T : \E k \in T : ~(k <= m)}
  OBVIOUS
<1>2. CASE bad = {}
  <2>1. Cardinality(S) \in Nat
    BY FS_CardinalityType
  <2> QED
    BY <1>1, <1>2, <2>1
<1>3. CASE bad # {}
  <2>1. PICK n \in bad : \A m \in bad : n <= m
    BY <1>1, <1>3, LeastIsThere
  <2>2. PICK T \in SUBSET S : /\ Cardinality(T) = n /\ T # {}
                              /\ \A m \in T : \E k \in T : ~(k <= m)
    BY <1>1, <2>1
  <2>3. PICK x \in T : TRUE
    BY <2>2
  <2>4. IsFiniteSet(T)
    BY <2>2, FS_Subset
  <2>5. /\ Cardinality(T \ {x}) \in Nat /\ n \in Nat
        /\ n = Cardinality(T \ {x}) + 1
    BY <2>2, <2>3, <2>4, OneLess
  <2>6. CASE T \ {x} = {}
    <3>1. T = {x}
      BY <2>3, <2>6
    <3> QED
      BY <2>2, <3>1
  <2>7. CASE T \ {x} # {}
    <3>1. Cardinality(T \ {x}) \notin bad
      BY <2>1, <2>5
    <3>2. PICK m \in T \ {x} : \A k \in T \ {x} : k <= m
      BY <1>1, <2>2, <2>5, <2>7, <3>1
    <3>3. x \in Nat /\ m \in Nat /\ \A k \in T : k \in Nat
      BY <2>2, <2>3, <3>2
    <3>4. CASE x <= m
      BY <2>2, <3>2, <3>4
    <3>5. CASE ~(x <= m)
      <4>1. \A k \in T : k <= x
        BY <3>2, <3>3, <3>5
      <4> QED
        BY <2>2, <4>1
    <3> QED
      BY <3>4, <3>5
  <2> QED
    BY <2>6, <2>7
<1> QED
  BY <1>2, <1>3

\* The function that a sum over a finite set is read from.
First(s) == CHOOSE x \in s : TRUE

Sums(g, W, ballot, level) ==
  g = [s \in SUBSET W |->
         IF s = {} THEN 0 ELSE ballot[First(s)][level] + g[s \ {First(s)}]]

LEMMA SumIsThere ==
  ASSUME NEW W, IsFiniteSet(W), NEW ballot, NEW level
  PROVE  \E g : Sums(g, W, ballot, level)
<1> DEFINE Small(n) == {s \in SUBSET W : Cardinality(s) <= n}
           Partly(g, n) == g = [s \in Small(n) |->
                                IF s = {} THEN 0 ELSE ballot[First(s)][level] + g[s \ {First(s)}]]
<1>1. ASSUME NEW s \in SUBSET W
      PROVE  /\ Cardinality(s) \in Nat
             /\ s = {} \/ (/\ s \ {First(s)} \in SUBSET W
                           /\ Cardinality(s) = Cardinality(s \ {First(s)}) + 1
                           /\ Cardinality(s \ {First(s)}) \in Nat)
  <2>1. IsFiniteSet(s)
    BY FS_Subset
  <2>2. Cardinality(s) \in Nat
    BY <2>1, FS_CardinalityType
  <2>3. CASE s # {}
    <3>1. First(s) \in s
      BY <2>3 DEF First
    <3> QED
      BY <2>1, <3>1, OneLess
  <2> QED
    BY <2>2, <2>3
<1>2. PICK bad : bad = {n \in Nat : \A g : ~Partly(g, n)}
  OBVIOUS
<1>3. bad = {}
  <2> SUFFICES ASSUME bad # {} PROVE FALSE
    OBVIOUS
  <2>1. PICK n \in bad : \A m \in bad : n <= m
    BY <1>2, LeastIsThere
  <2>2. n \in Nat /\ \A g : ~Partly(g, n)
    BY <1>2, <2>1
  <2>3. CASE n = 0
    <3>1. PICK g : g = [s \in Small(0) |-> 0]
      OBVIOUS
    <3>2. ASSUME NEW s \in Small(0) PROVE s = {}
      <4>1. s \in SUBSET W /\ Cardinality(s) <= 0
        OBVIOUS
      <4>2. \/ s = {}
            \/ Cardinality(s) = Cardinality(s \ {First(s)}) + 1 /\ Cardinality(s \ {First(s)}) \in Nat
        BY <1>1, <4>1
      <4> QED
        BY <4>1, <4>2
    <3>3. Partly(g, 0)
      BY <3>1, <3>2
    <3> QED
      BY <2>2, <2>3, <3>3
  <2>4. CASE n # 0
    <3>1. n - 1 \in Nat /\ n - 1 \notin bad
      BY <2>1, <2>2, <2>4
    <3>2. PICK h : Partly(h, n - 1)
      BY <1>2, <3>1
    <3>3. PICK g : g = [s \in Small(n) |->
                          IF s = {} THEN 0 ELSE ballot[First(s)][level] + h[s \ {First(s)}]]
      OBVIOUS
    <3>4. ASSUME NEW s \in Small(n), s # {}
          PROVE  h[s \ {First(s)}] = g[s \ {First(s)}]
      <4>1. PICK t : t = s \ {First(s)}
        OBVIOUS
      <4>2. t \in Small(n - 1) /\ t \in Small(n)
        BY <1>1, <2>2, <3>4, <4>1
      <4>3. h[t] = IF t = {} THEN 0 ELSE ballot[First(t)][level] + h[t \ {First(t)}]
        BY <3>2, <4>2
      <4>4. g[t] = IF t = {} THEN 0 ELSE ballot[First(t)][level] + h[t \ {First(t)}]
        BY <3>3, <4>2
      <4> QED
        BY <4>1, <4>3, <4>4
    <3>5. Partly(g, n)
      BY <3>3, <3>4
    <3> QED
      BY <2>2, <3>5
  <2> QED
    BY <2>3, <2>4
<1>4. Cardinality(W) \in Nat
  BY FS_CardinalityType
<1>5. \E g : Partly(g, Cardinality(W))
  <2> HIDE DEF Partly
  <2> QED
    BY <1>2, <1>3, <1>4
<1>8. PICK g : Partly(g, Cardinality(W))
  BY <1>5
<1>6. Small(Cardinality(W)) = SUBSET W
  BY FS_Subset
<1>7. g = [s \in SUBSET W |->
             IF s = {} THEN 0 ELSE ballot[First(s)][level] + g[s \ {First(s)}]]
  BY <1>8, <1>6
<1> QED
  BY <1>7 DEF Sums

\* What lies between two prices on average.
LEMMA AverageIsBetween ==
  ASSUME NEW W, IsFiniteSet(W), W # {}, NEW ballot, NEW level,
         NEW lo \in Nat, NEW hi \in Nat,
         \A i \in W : ballot[i][level] \in Nat /\ lo <= ballot[i][level] /\ ballot[i][level] <= hi
  PROVE  /\ Average(ballot, W, level) \in Nat
         /\ lo <= Average(ballot, W, level) /\ Average(ballot, W, level) <= hi
<1>1. PICK g : g = CHOOSE f : Sums(f, W, ballot, level)
  OBVIOUS
<1>2. Sums(g, W, ballot, level)
  BY <1>1, SumIsThere
<1>3. Average(ballot, W, level) = g[W] \div Cardinality(W)
  BY <1>1 DEF Average, MapThenSumSet, MapThenFoldSet, Sums, First
<1>4. \A s : s # {} => First(s) \in s
  BY DEF First
<1>5. PICK bad : bad = {n \in Nat : \E s \in SUBSET W :
                          /\ Cardinality(s) = n
                          /\ ~(g[s] \in Nat /\ n * lo <= g[s] /\ g[s] <= n * hi)}
  OBVIOUS
<1>6. bad = {}
  <2> SUFFICES ASSUME bad # {} PROVE FALSE
    OBVIOUS
  <2>1. PICK n \in bad : \A m \in bad : n <= m
    BY <1>5, LeastIsThere
  <2>2. PICK s \in SUBSET W : /\ Cardinality(s) = n
                              /\ ~(g[s] \in Nat /\ n * lo <= g[s] /\ g[s] <= n * hi)
    BY <1>5, <2>1
  <2>3. IsFiniteSet(s)
    BY FS_Subset
  <2>4. CASE s = {}
    <3>1. n = 0 /\ g[s] = 0
      BY <1>2, <2>2, <2>4, FS_EmptySet DEF Sums
    <3> QED
      BY <2>2, <3>1
  <2>5. CASE s # {}
    <3>1. PICK x, t : x = First(s) /\ t = s \ {x}
      OBVIOUS
    <3>2. x \in s /\ x \in W /\ t \in SUBSET W
      BY <1>4, <2>5, <3>1
    <3>3. Cardinality(t) \in Nat /\ n = Cardinality(t) + 1
      BY <2>2, <2>3, <3>1, <3>2, OneLess
    <3>4. PICK m \in Nat : m = Cardinality(t)
      BY <3>3
    <3>5. m \notin bad
      BY <2>1, <3>3, <3>4
    <3>6. g[t] \in Nat /\ m * lo <= g[t] /\ g[t] <= m * hi
      BY <1>5, <3>2, <3>4, <3>5
    <3>7. g[s] = ballot[x][level] + g[t]
      BY <1>2, <2>5, <3>1 DEF Sums
    <3>8. ballot[x][level] \in Nat /\ lo <= ballot[x][level] /\ ballot[x][level] <= hi
      BY <3>2
    <3>9. n * lo = m * lo + lo /\ n * hi = m * hi + hi
      <4>1. n = m + 1
        BY <3>3, <3>4
      <4>2. (m + 1) * lo = m * lo + lo /\ (m + 1) * hi = m * hi + hi
        BY SMT
      <4> QED
        BY <4>1, <4>2
    <3>10. m * lo \in Nat /\ m * hi \in Nat
      BY <3>4
    <3> QED
      BY <2>2, <3>6, <3>7, <3>8, <3>9, <3>10
  <2> QED
    BY <2>4, <2>5
<1>7. PICK n : n = Cardinality(W)
  OBVIOUS
<1>8. n \in Nat /\ n # 0
  BY <1>7, FS_CardinalityType, FS_EmptySet
<1>9. PICK sum : sum = g[W]
  OBVIOUS
<1>10. sum \in Nat /\ n * lo <= sum /\ sum <= n * hi
  BY <1>5, <1>6, <1>7, <1>8, <1>9
<1>11. PICK q : q = sum \div n
  OBVIOUS
<1>12. q \in Nat /\ n * q <= sum /\ sum < n * q + n
  BY <1>8, <1>10, <1>11
<1>13. lo <= q
  BY <1>8, <1>10, <1>12
<1>14. q <= hi
  BY <1>8, <1>10, <1>12
<1> QED
  BY <1>3, <1>7, <1>9, <1>11, <1>12, <1>13, <1>14

LEMMA ImageIsFinite ==
  ASSUME NEW W, IsFiniteSet(W), NEW f, DOMAIN f = W, f = [i \in W |-> f[i]]
  PROVE  IsFiniteSet({f[i] : i \in W})
<1>1. f \in Surjection(W, {f[i] : i \in W})
  BY DEF Surjection
<1> QED
  BY <1>1, FS_Surjection

LEMMA AggregateIsBetween ==
  ASSUME NEW W, IsFiniteSet(W), W # {}, NEW ballot, NEW level, NEW below \in BOOLEAN,
         NEW price \in Prices, \A i \in W : ballot[i][level] \in Nat,
         NEW x, x = Aggregate(ballot, W, level, below, price)
  PROVE  x \in Nat /\ \E j, k \in W : ballot[j][level] <= x /\ x <= ballot[k][level]
<1>1. PICK levels : levels = {ballot[i][level] : i \in W}
  OBVIOUS
<1>2. levels # {} /\ levels \subseteq Nat
  BY <1>1
<1>3. IsFiniteSet(levels)
  <2>1. PICK f : f = [i \in W |-> ballot[i][level]]
    OBVIOUS
  <2>2. levels = {f[i] : i \in W}
    BY <1>1, <2>1
  <2> QED
    BY <2>1, <2>2, ImageIsFinite
<1>4. PICK lo \in levels : \A y \in levels : lo <= y
  BY <1>2, LeastIsThere
<1>5. PICK hi \in levels : \A y \in levels : y <= hi
  BY <1>2, <1>3, GreatestIsThere
<1>6. PICK j, k \in W : ballot[j][level] = lo /\ ballot[k][level] = hi
  BY <1>1, <1>4, <1>5
<1>7. lo \in Nat /\ hi \in Nat
  BY <1>2, <1>4, <1>5
<1>8. CASE price = "average"
  <2>1. x = Average(ballot, W, level)
    BY <1>8 DEF Aggregate
  <2>2. \A i \in W : ballot[i][level] \in levels
    BY <1>1
  <2>3. x \in Nat /\ lo <= x /\ x <= hi
    BY <1>4, <1>5, <1>7, <2>1, <2>2, AverageIsBetween
  <2> QED
    BY <1>6, <2>3
<1>9. Min(levels) \in levels /\ Max(levels) \in levels
  <2>1. \E m \in levels : \A y \in levels : m <= y
    BY <1>4
  <2>2. \E m \in levels : \A y \in levels : m >= y
    BY <1>2, <1>5
  <2> QED
    BY <2>1, <2>2 DEF Min, Max
<1>10. CASE price \in {"tightest", "widest"}
  <2>1. x = Min(levels) \/ x = Max(levels)
    BY <1>1, <1>10 DEF Aggregate
  <2>2. x \in levels
    BY <1>9, <2>1
  <2>3. PICK i \in W : ballot[i][level] = x
    BY <1>1, <2>2
  <2> QED
    BY <1>2, <2>2, <2>3
<1> QED
  BY <1>8, <1>10 DEF Prices

\* Of the winners there is one with the highest confidence.
LEMMA AnchorIsAWinner ==
  ASSUME NEW W, IsFiniteSet(W), W # {}, W \subseteq Nat, NEW ballot,
         \A i \in W : ballot[i].confidence \in Nat
  PROVE  Anchor(ballot, W) \in W
<1>1. PICK levels : levels = {ballot[i].confidence : i \in W}
  OBVIOUS
<1>2. levels # {} /\ levels \subseteq Nat
  BY <1>1
<1>3. IsFiniteSet(levels)
  <2>1. PICK f : f = [i \in W |-> ballot[i].confidence]
    OBVIOUS
  <2>2. levels = {f[i] : i \in W}
    BY <1>1, <2>1
  <2> QED
    BY <2>1, <2>2, ImageIsFinite
<1>4. PICK hi \in levels : \A y \in levels : y <= hi
  BY <1>2, <1>3, GreatestIsThere
<1>5. PICK best : best = {i \in W : \A j \in W : ballot[j].confidence <= ballot[i].confidence}
  OBVIOUS
<1>6. best # {} /\ best \subseteq W /\ best \subseteq Nat
  BY <1>1, <1>4, <1>5
<1>7. \E m \in best : \A y \in best : m <= y
  BY <1>6, LeastIsThere
<1>8. Min(best) \in best
  BY <1>7 DEF Min
<1> QED
  BY <1>5, <1>6, <1>8 DEF Anchor

LEMMA VotersAreFinite ==
  ASSUME NEW b \in Ballots, NEW side
  PROVE  /\ DOMAIN b = 1 .. Len(b) /\ Len(b) \in Nat /\ Len(b) >= 2
         /\ IsFiniteSet(VotersFor(b, side)) /\ Cardinality(VotersFor(b, side)) \in Nat
         /\ Cardinality(VotersFor(b, side)) = 0 <=> VotersFor(b, side) = {}
         /\ Cardinality(VotersFor(b, side)) = Len(b) => VotersFor(b, side) = DOMAIN b
<1>1. DOMAIN b = 1 .. Len(b) /\ Len(b) \in Nat /\ Len(b) >= 2
  BY BallotsAssumption
<1>2. IsFiniteSet(DOMAIN b) /\ Cardinality(DOMAIN b) = Len(b)
  BY <1>1, FS_Interval
<1>3. VotersFor(b, side) \in SUBSET DOMAIN b
  BY DEF VotersFor
<1>4. IsFiniteSet(VotersFor(b, side))
  BY <1>2, <1>3, FS_Subset
<1>5. Cardinality(VotersFor(b, side)) \in Nat
  BY <1>4, FS_CardinalityType
<1>6. Cardinality(VotersFor(b, side)) = 0 <=> VotersFor(b, side) = {}
  BY <1>4, FS_EmptySet
<1>7. Cardinality(VotersFor(b, side)) = Len(b) => VotersFor(b, side) = DOMAIN b
  BY <1>2, <1>3, FS_Subset
<1> QED
  BY <1>1, <1>4, <1>5, <1>6, <1>7

LEMMA OnBarFollows ==
  ASSUME NEW r, r.ballot \in Ballots, r.direction \in Directions, NEW price \in Prices,
         r.signal = OnBar(r.ballot, r.direction, price)
  PROVE  Follows(r)
<1>1. PICK b, d : b = r.ballot /\ d = r.direction
  OBVIOUS
<1>2. PICK voters : voters = {k \in DOMAIN b : b[k] # Abstains}
  OBVIOUS
<1>3. \A k \in voters :
        /\ k \in Nat /\ b[k] \in Vote
        /\ DirectionConsistent(b[k].side, b[k].entry, b[k].stop, b[k].target)
  <2>1. b \in Ballots /\ b \in Seq(Vote \cup {Abstains})
    BY <1>1, BallotsAssumption
  <2>2. ASSUME NEW k \in voters PROVE k \in Nat /\ b[k] \in Vote
    BY <1>2, <2>1
  <2> QED
    BY <1>2, <2>1, <2>2, BallotsAssumption
<1>4. \A side \in {"BUY", "SELL"} : VotersFor(b, side) = {k \in voters : b[k].side = side}
  BY <1>2 DEF VotersFor
<1>5. \A k \in voters : b[k].side \in {"BUY", "SELL"}
  BY <1>3 DEF Vote
<1>6. ASSUME NEW side \in {"BUY", "SELL"}, Wins(b, side, d)
      PROVE  /\ VotersFor(b, side) = voters /\ voters # {}
             /\ \A k \in voters : b[k].side = side
             /\ d = "unanimous" => voters = DOMAIN b
  <2>1. PICK other \in {"BUY", "SELL"} : other = IF side = "BUY" THEN "SELL" ELSE "BUY"
    OBVIOUS
  <2>2. /\ Cardinality(VotersFor(b, other)) = 0
        /\ d = "unanimous" => Cardinality(VotersFor(b, side)) = Len(b)
        /\ d = "majority" => Cardinality(VotersFor(b, side)) > Cardinality(VotersFor(b, other))
        /\ d = "any" => Cardinality(VotersFor(b, side)) >= 1
    BY <1>6, <2>1 DEF Wins
  <2>3. VotersFor(b, other) = {}
    BY <1>1, <2>2, VotersAreFinite
  <2>4. Cardinality(VotersFor(b, side)) # 0
    BY <1>1, <2>2, VotersAreFinite DEF Directions
  <2>5. VotersFor(b, side) # {}
    BY <1>1, <2>4, VotersAreFinite
  <2>6. \A k \in voters : b[k].side = side
    BY <1>4, <1>5, <2>1, <2>3
  <2>7. VotersFor(b, side) = voters
    BY <1>4, <2>6
  <2>8. d = "unanimous" => voters = DOMAIN b
    BY <1>1, <2>2, <2>7, VotersAreFinite
  <2> QED
    BY <2>5, <2>6, <2>7, <2>8
<1>7. ASSUME NEW k \in voters, voters = {k}, d # "unanimous"
      PROVE  Wins(b, b[k].side, d)
  <2>1. PICK side, other \in {"BUY", "SELL"} :
          side = b[k].side /\ other = IF side = "BUY" THEN "SELL" ELSE "BUY"
    BY <1>5, <1>7
  <2>2. VotersFor(b, side) = {k} /\ VotersFor(b, other) = {}
    BY <1>4, <1>7, <2>1
  <2>3. Cardinality(VotersFor(b, side)) = 1 /\ Cardinality(VotersFor(b, other)) = 0
    BY <2>2, FS_Singleton, FS_EmptySet
  <2>4. d = "majority" \/ d = "any"
    BY <1>1, <1>7 DEF Directions
  <2>5. Cardinality(VotersFor(b, IF side = "BUY" THEN "SELL" ELSE "BUY")) = 0
    BY <2>1, <2>3
  <2>6. CASE d = "majority"
    BY <2>1, <2>3, <2>5, <2>6 DEF Wins
  <2>7. CASE d = "any"
    BY <2>1, <2>3, <2>5, <2>7 DEF Wins
  <2> QED
    BY <2>1, <2>4, <2>6, <2>7
<1>8. PICK sides : sides = {s \in {"BUY", "SELL"} : Wins(b, s, d)}
  OBVIOUS
<1>9. CASE sides = {}
  <2>1. r.signal = Abstains
    BY <1>1, <1>8, <1>9 DEF OnBar
  <2>2. \A k \in voters : ~(voters = {k} /\ d # "unanimous")
    BY <1>5, <1>7, <1>8, <1>9
  <2> QED
    BY <1>1, <1>2, <2>1, <2>2 DEF Follows
<1>10. CASE sides # {}
  <2>1. PICK side \in sides : side = CHOOSE s \in sides : TRUE
    BY <1>10
  <2>2. side \in {"BUY", "SELL"} /\ Wins(b, side, d)
    BY <1>8, <2>1
  <2>3. /\ VotersFor(b, side) = voters /\ voters # {}
        /\ \A k \in voters : b[k].side = side
        /\ d = "unanimous" => voters = DOMAIN b
    BY <1>6, <2>2
  <2>4. IsFiniteSet(voters)
    BY <1>1, <2>3, VotersAreFinite
  <2>5. PICK anchor : anchor = b[Anchor(b, voters)]
    OBVIOUS
  <2>6. Anchor(b, voters) \in voters
    BY <1>3, <2>3, <2>4, AnchorIsAWinner DEF Vote
  <2>7. PICK stop, target :
          /\ stop = Aggregate(b, voters, "stop", side = "BUY", price)
          /\ target = Aggregate(b, voters, "target", side = "SELL", price)
    OBVIOUS
  <2>8. \A k \in voters : b[k]["stop"] \in Nat /\ b[k]["target"] \in Nat
    BY <1>3 DEF Vote
  <2>9. /\ stop \in Nat
        /\ \E j, k \in voters : b[j]["stop"] <= stop /\ stop <= b[k]["stop"]
    BY <2>3, <2>4, <2>7, <2>8, AggregateIsBetween
  <2>10. /\ target \in Nat
         /\ \E j, k \in voters : b[j]["target"] <= target /\ target <= b[k]["target"]
    BY <2>3, <2>4, <2>7, <2>8, AggregateIsBetween
  <2>11. r.signal = IF DirectionConsistent(side, anchor.entry, stop, target)
                      THEN [side |-> side, entry |-> anchor.entry, stop |-> stop,
                            target |-> target]
                      ELSE Abstains
    BY <1>1, <1>8, <1>10, <2>1, <2>3, <2>5, <2>7 DEF OnBar
  <2>12. ASSUME NEW k \in voters, voters = {k}
         PROVE  /\ DirectionConsistent(side, anchor.entry, stop, target)
                /\ anchor.entry = b[k].entry /\ stop = b[k].stop /\ target = b[k].target
                /\ side = b[k].side
    <3>1. anchor = b[k] /\ side = b[k].side
      BY <2>3, <2>5, <2>6, <2>12
    <3>2. stop = b[k]["stop"] /\ target = b[k]["target"]
      BY <2>8, <2>9, <2>10, <2>12
    <3> QED
      BY <1>3, <3>1, <3>2
  <2>13. ASSUME NEW k \in voters, voters = {k}, NEW f \in {"side", "entry", "stop", "target"}
         PROVE  r.signal[f] = b[k][f]
    BY <2>11, <2>12, <2>13
  <2>14. ASSUME r.signal # Abstains
         PROVE  /\ r.signal.side = side /\ r.signal.stop = stop /\ r.signal.target = target
                /\ IF r.signal.side = "BUY"
                     THEN r.signal.stop < r.signal.entry /\ r.signal.entry < r.signal.target
                     ELSE r.signal.target < r.signal.entry /\ r.signal.entry < r.signal.stop
    BY <2>11, <2>14 DEF DirectionConsistent
  <2> QED
    BY <1>1, <1>2, <2>3, <2>9, <2>10, <2>13, <2>14 DEF Follows
<1> QED
  BY <1>9, <1>10

\* A row that is none of a composite has no votes and no signal.
LEMMA RowFollows ==
  ASSUME NEW c \in Clients, NEW name, NEW group
  PROVE  Follows(RunRow(c, name, group))
<1>1. PICK r : r = RunRow(c, name, group)
  OBVIOUS
<1>2. r.ballot = <<>> /\ r.signal = Abstains
  BY <1>1 DEF RunRow
<1>3. {k \in DOMAIN r.ballot : r.ballot[k] # Abstains} = {}
  BY <1>2
<1> QED
  BY <1>1, <1>2, <1>3 DEF Follows

LEMMA FollowingAppended ==
  ASSUME Base, CompositeFollowsChildren, NEW row, Follows(row), runs' = Append(runs, row)
  PROVE  CompositeFollowsChildren'
<1>1. PICK i : /\ i \notin DOMAIN runs /\ DOMAIN runs' = DOMAIN runs \cup {i}
               /\ runs'[i] = row /\ \A j \in DOMAIN runs : runs'[j] = runs[j]
  BY RowAppended
<1>2. \A j \in DOMAIN runs : Follows(runs[j])
  BY DEF CompositeFollowsChildren
<1>3. \A j \in DOMAIN runs' : Follows(runs'[j])
  BY <1>1, <1>2
<1> QED
  BY <1>3 DEF CompositeFollowsChildren

LEMMA NextFollows ==
  ASSUME Base, CompositeFollowsChildren, [Next]_vars
  PROVE  CompositeFollowsChildren'
<1>1. ASSUME NEW c \in Clients, RunMember(c), ~UNCHANGED runs PROVE CompositeFollowsChildren'
  <2>1. \E name, group : runs' = Append(runs, RunRow(c, name, group))
    BY <1>1 DEF RunMember
  <2> QED
    BY <2>1, RowFollows, FollowingAppended
<1>2. ASSUME NEW c \in Clients, Combine(c), ~UNCHANGED runs PROVE CompositeFollowsChildren'
  <2>1. PICK b \in Ballots, d \in Directions, p \in Prices :
          runs' = Append(runs, [RunRow(c, Combined, 0) EXCEPT
                                  !.ballot = b, !.direction = d, !.price = p,
                                  !.signal = OnBar(b, d, p)])
    BY <1>2 DEF Combine
  <2>2. PICK row : row = [RunRow(c, Combined, 0) EXCEPT
                            !.ballot = b, !.direction = d, !.price = p,
                            !.signal = OnBar(b, d, p)]
    OBVIOUS
  <2>3. row.ballot = b /\ row.direction = d /\ row.signal = OnBar(b, d, p)
    BY <2>2 DEF RunRow
  <2>4. Follows(row)
    BY <2>3, OnBarFollows
  <2> QED
    BY <2>1, <2>2, <2>4, FollowingAppended
<1>3. CASE UNCHANGED runs
  BY <1>3 DEF CompositeFollowsChildren
<1>4. (\E c \in Clients : RunMember(c) \/ Combine(c)) \/ UNCHANGED runs
  BY DEF Next, vars, Arrive, Take, Generate, Fetch, FetchFails, Patch, Store, ReadBars,
         Header, Formula, Scan, ReadFetched, Record, Pick, Ask, Answer, Tick, Crash
<1> QED
  BY <1>1, <1>2, <1>3, <1>4

\* Combined runs: the signal of a composite is one the engine accepts, between
\* its voters' levels and against none of them; a lone voter is followed.
THEOREM CompositesFollowTheirChildren == Spec => []CompositeFollowsChildren
<1>1. Init => CompositeFollowsChildren
  BY DEF Init, CompositeFollowsChildren
<1>2. IInv => Base
  BY DEF IInv
<1>3. Base /\ CompositeFollowsChildren /\ [Next]_vars => CompositeFollowsChildren'
  BY NextFollows
<1> QED
  BY <1>1, <1>2, <1>3, InitHolds, NextHolds, PTL DEF Spec

-----------------------------------------------------------------------------
(* Advice                                                                 *)

\* A bound that is even holds what is rounded inside it.
LEMMA ClampedIsInBounds ==
  ASSUME NEW spec \in ParamSpec, spec.min <= spec.max,
         spec.int => spec.min % 2 = 0 /\ spec.max % 2 = 0,
         NEW given \in Int \cup {NaN}, NEW x,
         x = IF spec.int THEN Rounded(Bounded(spec, given)) ELSE Bounded(spec, given)
  PROVE  /\ x \in spec.min .. spec.max
         /\ spec.int => x % 2 = 0
<1>1. spec.min \in Int /\ spec.max \in Int /\ spec.int \in BOOLEAN
  BY DEF ParamSpec
<1>2. PICK b : b = Bounded(spec, given)
  OBVIOUS
<1>3. b \in Int /\ spec.min <= b /\ b <= spec.max
  BY <1>1, <1>2, ProposalsAssumption DEF Bounded
<1>4. CASE spec.int
  <2>1. x = IF b % 2 = 0 THEN b ELSE IF (b + 1) % 4 = 0 THEN b + 1 ELSE b - 1
    BY <1>2, <1>4 DEF Rounded
  <2>2. x \in Int /\ x % 2 = 0
    BY <1>3, <2>1
  <2>3. b % 2 # 0 => spec.min < b /\ b < spec.max
    BY <1>1, <1>3, <1>4
  <2> QED
    BY <1>1, <1>3, <2>1, <2>2, <2>3
<1>5. CASE ~spec.int
  BY <1>1, <1>2, <1>3, <1>5
<1> QED
  BY <1>1, <1>4, <1>5

LEMMA SanitisedIsInBounds ==
  ASSUME NEW recs \in Proposals, NEW clean, clean = Sanitise(recs)
  PROVE  /\ DOMAIN clean \subseteq 1 .. MaxItems
         /\ \A i \in DOMAIN clean :
              /\ clean[i].strategy \in Registered
              /\ DOMAIN clean[i].params # {}
              /\ DOMAIN clean[i].params \subseteq DOMAIN Schemas[clean[i].strategy]
              /\ \A p \in DOMAIN clean[i].params :
                   LET spec == Schemas[clean[i].strategy][p]
                   IN  /\ clean[i].params[p] \in spec.min .. spec.max
                       /\ spec.int => clean[i].params[p] % 2 = 0
<1>1. PICK known : known = {i \in DOMAIN recs : i <= MaxItems
                                               /\ recs[i].strategy \in DOMAIN Schemas}
  OBVIOUS
<1>2. PICK tidy : tidy = [i \in known |-> Clamped(recs[i].params, Schemas[recs[i].strategy])]
  OBVIOUS
<1>3. clean = [i \in {j \in known : DOMAIN tidy[j] # {}} |-> [recs[i] EXCEPT !.params = tidy[i]]]
  BY <1>1, <1>2 DEF Sanitise
<1>4. DOMAIN clean \subseteq 1 .. MaxItems
  BY <1>1, <1>3, ProposalsAssumption
<1>5. ASSUME NEW i \in DOMAIN clean
      PROVE  /\ clean[i].strategy \in Registered
             /\ DOMAIN clean[i].params # {}
             /\ DOMAIN clean[i].params \subseteq DOMAIN Schemas[clean[i].strategy]
             /\ \A p \in DOMAIN clean[i].params :
                  LET spec == Schemas[clean[i].strategy][p]
                  IN  /\ clean[i].params[p] \in spec.min .. spec.max
                      /\ spec.int => clean[i].params[p] % 2 = 0
  <2>1. /\ i \in known /\ i \in DOMAIN recs /\ DOMAIN tidy[i] # {}
        /\ clean[i] = [recs[i] EXCEPT !.params = tidy[i]]
    BY <1>1, <1>3
  <2>2. {"strategy", "params"} \subseteq DOMAIN recs[i]
    BY <2>1, ProposalsAssumption
  <2>3. clean[i].strategy = recs[i].strategy /\ clean[i].params = tidy[i]
    BY <2>1, <2>2
  <2>4. recs[i].strategy \in DOMAIN Schemas
    BY <1>1, <2>1
  <2>5. PICK schema : schema = Schemas[recs[i].strategy]
    OBVIOUS
  <2>6. tidy[i] = [p \in DOMAIN recs[i].params \cap DOMAIN schema |->
                     LET x == Bounded(schema[p], recs[i].params[p])
                     IN  IF schema[p].int THEN Rounded(x) ELSE x]
    BY <1>2, <2>1, <2>5 DEF Clamped
  <2>7. ASSUME NEW p \in DOMAIN tidy[i]
        PROVE  /\ tidy[i][p] \in schema[p].min .. schema[p].max
               /\ schema[p].int => tidy[i][p] % 2 = 0
    <3>1. /\ p \in DOMAIN schema /\ recs[i].params[p] \in Int \cup {NaN}
          /\ tidy[i][p] = IF schema[p].int THEN Rounded(Bounded(schema[p], recs[i].params[p]))
                          ELSE Bounded(schema[p], recs[i].params[p])
      BY <2>1, <2>6, ProposalsAssumption
    <3>2. /\ schema[p] \in ParamSpec /\ schema[p].min <= schema[p].max
          /\ schema[p].int => schema[p].min % 2 = 0 /\ schema[p].max % 2 = 0
      BY <3>1, <2>4, <2>5, SchemasAssumption
    <3> QED
      BY <3>1, <3>2, ClampedIsInBounds
  <2>8. DOMAIN tidy[i] \subseteq DOMAIN schema
    BY <2>6
  <2> QED
    BY <2>1, <2>3, <2>4, <2>5, <2>7, <2>8 DEF Registered
<1> QED
  BY <1>4, <1>5

LEMMA AdvisedIsInBounds ==
  ASSUME NEW a \in Advised
  PROVE  /\ a.status # "ok" => a.recs = <<>>
         /\ DOMAIN a.recs \subseteq 1 .. MaxItems
         /\ \A i \in DOMAIN a.recs :
              LET r == a.recs[i]
              IN  /\ r.strategy \in Registered
                  /\ DOMAIN r.params # {} /\ DOMAIN r.params \subseteq DOMAIN Schemas[r.strategy]
                  /\ \A p \in DOMAIN r.params :
                       LET spec == Schemas[r.strategy][p]
                       IN  /\ r.params[p] \in spec.min .. spec.max
                           /\ spec.int => r.params[p] % 2 = 0
<1>1. CASE \E p \in Proposals : a = [status |-> "ok", recs |-> Sanitise(p)]
  <2>1. PICK p \in Proposals : a = [status |-> "ok", recs |-> Sanitise(p)]
    BY <1>1
  <2> QED
    BY <2>1, SanitisedIsInBounds
<1>2. CASE a.recs = <<>>
  <2>1. DOMAIN a.recs = {}
    BY <1>2
  <2> QED
    BY <1>2, <2>1
<1> QED
  BY <1>1, <1>2 DEF Advised

\* Reviews: what is stored of a model's answer are known strategies with some of
\* their parameters, all of them in their bounds, whatever it answered with.
THEOREM AdviceIsInBounds == Spec => []AdviceInBounds
<1>1. Init => AdviceInBounds
  BY DEF Init, AdviceInBounds
<1>2. AdviceInBounds /\ [Next]_vars => AdviceInBounds'
  <2> SUFFICES ASSUME AdviceInBounds, [Next]_vars PROVE AdviceInBounds'
    OBVIOUS
  <2>1. ASSUME NEW c \in Clients, Answer(c) PROVE AdviceInBounds'
    <3>1. PICK a \in Advised :
            tunings' = tunings \cup {[id |-> client[c].id, scope |-> client[c].request.scope,
                                      status |-> a.status, recs |-> a.recs]}
      BY <2>1 DEF Answer
    <3>2. ASSUME NEW t \in tunings'
          PROVE  t \in tunings \/ (t.status = a.status /\ t.recs = a.recs)
      BY <3>1
    <3> QED
      BY <3>2, AdvisedIsInBounds DEF AdviceInBounds
  <2>2. CASE UNCHANGED tunings
    BY <2>2 DEF AdviceInBounds
  <2>3. (\E c \in Clients : Answer(c)) \/ UNCHANGED tunings
    BY DEF Next, vars, Arrive, Take, Generate, Fetch, FetchFails, Patch, Store, ReadBars,
           RunMember, Header, Combine, Formula, Scan, ReadFetched, Record, Pick, Ask, Tick, Crash
  <2> QED
    BY <2>1, <2>2, <2>3
<1> QED
  BY <1>1, <1>2, PTL DEF Spec
=============================================================================
