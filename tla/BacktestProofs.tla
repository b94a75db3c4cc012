--------------------------- MODULE BacktestProofs ---------------------------
(***************************************************************************)
(* Proofs about BacktestEngine, for frames of any length, any bars, levels *)
(* and quantities and any costs in the permitted range: types and that the *)
(* trades follow one another, which together are inductive; and that the   *)
(* trades are those the signals amount to.  For the last, the open         *)
(* position, the pending signal and the list of trades are matched, one by *)
(* one, with the orders whose life the whole walk tells.  Then, that the   *)
(* equity curve and the summary's totals are sums of those trades.  Last,  *)
(* that the scans of the metrics compute what they are named for: each is  *)
(* read step by step off its fold and compared, place by place, with the   *)
(* definition that looks at the whole curve or list at once.               *)
(***************************************************************************)
EXTENDS Backtest, SequenceTheorems, FiniteSetTheorems, WellFoundedInduction, TLAPS

USE BarsAssumption

LEMMA FillTypes ==
  ASSUME NEW side \in Sides, NEW price \in Nat
  PROVE  EntryFill(side, price) \in Nat /\ ExitFill(side, price) \in Nat
<1>1. 100 + SlippagePct \in Nat /\ 100 - SlippagePct \in Nat
  BY CostAssumption
<1>2. \A a, b \in Nat : a * b \in Nat
  OBVIOUS
<1> QED BY <1>1, <1>2 DEF EntryFill, ExitFill

LEMMA OpenedType ==
  ASSUME NEW signal \in Signals, NEW open \in Nat, NEW bar \in 1 .. NumBars
  PROVE  Opened(signal, open, bar) \in Positions /\ Opened(signal, open, bar).entryBar = bar
<1>1. signal.side \in Sides /\ signal.stop \in Levels /\ signal.target \in Levels
      /\ signal.qty \in Quantities \cup {None}
  BY DEF Signals
<1>2. EntryFill(signal.side, open) \in Nat
  BY <1>1, FillTypes
<1>3. (IF signal.qty = None THEN DefaultQty ELSE signal.qty) \in Nat \ {0}
  BY <1>1, QtyAssumption
<1> QED BY <1>1, <1>2, <1>3 DEF Opened, Positions

LEMMA ClosedType ==
  ASSUME NEW p \in Positions, NEW price \in Nat, NEW bar \in 1 .. NumBars,
         NEW reason \in {"stop_loss", "target", "signal_reverse"}
  PROVE  LET t == Closed(p, price, bar, reason)
         IN  t \in Trades /\ t.entryBar = p.entryBar /\ t.exitBar = bar /\ t.reason = reason
<1>1. p.side \in Sides /\ p.entry \in Nat /\ p.qty \in Nat \ {0} /\ p.entryBar \in 1 .. NumBars
  BY DEF Positions
<1> DEFINE exit == ExitFill(p.side, price)
           fees == Commission(p.entry, exit, p.qty)
           gross == IF p.side = "LONG" THEN (exit - p.entry) * p.qty ELSE (p.entry - exit) * p.qty
<1>2. exit \in Nat
  BY <1>1, FillTypes
<1>3. fees \in Nat
  <2>1. \A a, b \in Nat : a * b \in Nat
    OBVIOUS
  <2>2. CommissionPct \in Nat /\ p.entry + exit \in Nat /\ p.qty \in Nat
    BY <1>1, <1>2, CostAssumption
  <2>3. CommissionPct * (p.entry + exit) \in Nat
    BY <2>1, <2>2
  <2> QED BY <2>1, <2>2, <2>3 DEF Commission
<1>4. gross \in Int
  <2>1. exit - p.entry \in Int /\ p.entry - exit \in Int /\ p.qty \in Int
    BY <1>1, <1>2
  <2>2. \A a, b \in Int : a * b \in Int
    OBVIOUS
  <2> QED BY <2>1, <2>2
<1>5. 100 * gross - fees \in Int
  BY <1>3, <1>4
<1>6. Closed(p, price, bar, reason)
        = [side |-> p.side, entry |-> p.entry, exit |-> exit, qty |-> p.qty,
           entryBar |-> p.entryBar, exitBar |-> bar, reason |-> reason,
           pnl |-> 100 * gross - fees, fees |-> fees]
  BY DEF Closed
<1> HIDE DEF exit, fees, gross
<1> QED BY <1>1, <1>2, <1>3, <1>5, <1>6 DEF Trades

-----------------------------------------------------------------------------
(* What a bar does to the position                                         *)

LEMMA RowTypes ==
  ASSUME NEW row \in Rows
  PROVE  row.open \in Nat /\ row.high \in Nat /\ row.low \in Nat
BY RowsAssumption DEF Row

LEMMA ReversesFacts ==
  ASSUME NEW row \in Rows, NEW bar \in 1 .. NumBars, position \in Positions \cup {None}
  PROVE  \/ Reverses(row, bar) = <<>> /\ ~(Due(bar) /\ position # None)
         \/ /\ Due(bar) /\ position # None
            /\ \E t \in Trades : /\ Reverses(row, bar) = <<t>>
                                 /\ t.entryBar = position.entryBar /\ t.exitBar = bar
                                 /\ t.reason = "signal_reverse"
<1>1. CASE Due(bar) /\ position # None
  <2> DEFINE t == Closed(position, row.open, bar, "signal_reverse")
  <2>1. t \in Trades /\ t.entryBar = position.entryBar /\ t.exitBar = bar
        /\ t.reason = "signal_reverse"
    BY <1>1, RowTypes, ClosedType
  <2>2. Reverses(row, bar) = <<t>>
    BY <1>1 DEF Reverses
  <2> QED BY <1>1, <2>1, <2>2
<1>2. CASE ~(Due(bar) /\ position # None)
  BY <1>2 DEF Reverses
<1> QED BY <1>1, <1>2

LEMMA HeldFacts ==
  ASSUME NEW row \in Rows, NEW bar \in 1 .. NumBars, position \in Positions \cup {None},
         pending \in Pendings \cup {None}
  PROVE  /\ Held(row, bar) \in Positions \cup {None}
         /\ Due(bar) => Held(row, bar) # None /\ Held(row, bar).entryBar = bar
         /\ ~Due(bar) => Held(row, bar) = position
<1>1. CASE Due(bar)
  <2>1. pending.signal \in Signals
    BY <1>1 DEF Due, Pendings
  <2>2. Held(row, bar) = Opened(pending.signal, row.open, bar)
    BY <1>1 DEF Held
  <2>3. Held(row, bar) \in Positions /\ Held(row, bar).entryBar = bar
    BY <2>1, <2>2, RowTypes, OpenedType
  <2> QED BY <1>1, <2>3, NoneAssumption
<1>2. CASE ~Due(bar)
  BY <1>2 DEF Held
<1> QED BY <1>1, <1>2

LEMMA ExitsFacts ==
  ASSUME NEW p \in Positions \cup {None}, NEW row \in Rows, NEW bar \in 1 .. NumBars
  PROVE  \/ Exits(p, row, bar) = <<>>
         \/ /\ p # None
            /\ \E t \in Trades : /\ Exits(p, row, bar) = <<t>>
                                 /\ t.entryBar = p.entryBar /\ t.exitBar = bar
                                 /\ t.reason # "signal_reverse"
<1>1. CASE p = None
  BY <1>1 DEF Exits
<1>2. CASE p # None
  <2>1. p \in Positions /\ p.stop \in Nat /\ p.target \in Nat
    BY <1>2, LevelsAssumption DEF Positions
  <2>2. CASE StopHit(p, row)
    <3> DEFINE t == Closed(p, p.stop, bar, "stop_loss")
    <3>1. t \in Trades /\ t.entryBar = p.entryBar /\ t.exitBar = bar /\ t.reason = "stop_loss"
      BY <2>1, ClosedType
    <3>2. Exits(p, row, bar) = <<t>>
      BY <1>2, <2>2 DEF Exits
    <3> QED BY <1>2, <3>1, <3>2
  <2>3. CASE ~StopHit(p, row) /\ TargetHit(p, row)
    <3> DEFINE t == Closed(p, p.target, bar, "target")
    <3>1. t \in Trades /\ t.entryBar = p.entryBar /\ t.exitBar = bar /\ t.reason = "target"
      BY <2>1, ClosedType
    <3>2. Exits(p, row, bar) = <<t>>
      BY <1>2, <2>3 DEF Exits
    <3> QED BY <1>2, <3>1, <3>2
  <2>4. CASE ~StopHit(p, row) /\ ~TargetHit(p, row)
    BY <1>2, <2>4 DEF Exits
  <2> QED BY <2>2, <2>3, <2>4
<1> QED BY <1>1, <1>2

-----------------------------------------------------------------------------
(* What a bar does to the list of trades                                   *)

\* InSequence as of a given bar.
InSequenceBy(s, bar) ==
  /\ \A i \in 1 .. Len(s) : s[i].entryBar <= s[i].exitBar /\ s[i].exitBar <= bar
  /\ \A i \in 1 .. Len(s) - 1 :
       IF s[i].reason = "signal_reverse" THEN s[i].exitBar = s[i + 1].entryBar
       ELSE s[i].exitBar < s[i + 1].entryBar

\* A trade that follows a list extends it.
LEMMA Extend ==
  ASSUME NEW s \in Seq(Trades), NEW t \in Trades, NEW bar \in Nat,
         InSequenceBy(s, bar), Follows(s, t.entryBar),
         t.entryBar <= t.exitBar, t.exitBar <= bar
  PROVE  /\ s \o <<t>> \in Seq(Trades)
         /\ InSequenceBy(s \o <<t>>, bar)
         /\ s \o <<t>> # <<>> /\ (s \o <<t>>)[Len(s \o <<t>>)] = t
<1> DEFINE u == s \o <<t>>
<1>1. u \in Seq(Trades) /\ Len(u) = Len(s) + 1
  OBVIOUS
<1>2. \A i \in 1 .. Len(s) : u[i] = s[i]
  OBVIOUS
<1>3. u[Len(s) + 1] = t
  OBVIOUS
<1>4. Len(s) \in Nat
  OBVIOUS
<1> HIDE DEF u
<1>5. ASSUME NEW i \in 1 .. Len(u)
      PROVE  u[i].entryBar <= u[i].exitBar /\ u[i].exitBar <= bar
  <2>1. CASE i \in 1 .. Len(s)
    BY <2>1, <1>2 DEF InSequenceBy
  <2>2. CASE i = Len(s) + 1
    BY <2>2, <1>3
  <2> QED BY <2>1, <2>2, <1>1, <1>4
<1>6. ASSUME NEW i \in 1 .. Len(u) - 1
      PROVE  IF u[i].reason = "signal_reverse" THEN u[i].exitBar = u[i + 1].entryBar
             ELSE u[i].exitBar < u[i + 1].entryBar
  <2>1. CASE i \in 1 .. Len(s) - 1
    <3>1. u[i] = s[i] /\ u[i + 1] = s[i + 1]
      BY <2>1, <1>2, <1>4
    <3> QED BY <2>1, <3>1 DEF InSequenceBy
  <2>2. CASE i = Len(s)
    <3>1. u[i] = s[Len(s)] /\ u[i + 1] = t /\ s # <<>>
      BY <2>2, <1>2, <1>3, <1>4
    <3> QED BY <3>1 DEF Follows
  <2> QED BY <2>1, <2>2, <1>1, <1>4
<1>7. u # <<>>
  BY <1>1, <1>4
<1> QED BY <1>1, <1>3, <1>5, <1>6, <1>7 DEF u, InSequenceBy

-----------------------------------------------------------------------------
(* The inductive invariant                                                 *)

IInv == TypeOK /\ TradesInSequence

LEMMA InitIInv == Init => IInv
<1> SUFFICES ASSUME Init PROVE IInv
  OBVIOUS
<1>1. TypeOK
  BY DEF Init, TypeOK, Bar
<1>2. TradesInSequence
  BY DEF Init, TradesInSequence, InSequence
<1> QED BY <1>1, <1>2 DEF IInv

\* The trades and the position after a bar.
LEMMA WalkSequence ==
  ASSUME IInv, Bar < NumBars, NEW row \in Rows, NEW signal \in Signals \cup {None},
         Walk(row, signal)
  PROVE  /\ closed' \in Seq(Trades)
         /\ position' \in Positions \cup {None}
         /\ TradesInSequence'
         /\ realized' \in Int
<1> DEFINE bar == Bar + 1
           R == Reverses(row, bar)
           H == Held(row, bar)
           X == Exits(H, row, bar)
<1>1. Bar \in Nat /\ bar \in 1 .. NumBars /\ bar \in Nat /\ Bar < bar
  BY DEF IInv, TypeOK, Bar
<1>2. /\ closed \in Seq(Trades) /\ position \in Positions \cup {None} /\ realized \in Int
      /\ pending \in Pendings \cup {None}
  BY DEF IInv, TypeOK
<1>3. Bar' = bar
  BY DEF Walk, Bar, IInv, TypeOK
<1>4. closed' = closed \o R \o X /\ position' = IF X = <<>> THEN H ELSE None
  BY DEF Walk
<1>5. \/ R = <<>> /\ ~(Due(bar) /\ position # None)
      \/ /\ Due(bar) /\ position # None
         /\ \E t \in Trades : /\ R = <<t>>
                              /\ t.entryBar = position.entryBar /\ t.exitBar = bar
                              /\ t.reason = "signal_reverse"
  BY <1>1, <1>2, ReversesFacts
<1>6. /\ H \in Positions \cup {None}
      /\ Due(bar) => H # None /\ H.entryBar = bar
      /\ ~Due(bar) => H = position
  BY <1>1, <1>2, HeldFacts
<1>7. \/ X = <<>>
      \/ /\ H # None
         /\ \E t \in Trades : /\ X = <<t>>
                              /\ t.entryBar = H.entryBar /\ t.exitBar = bar
                              /\ t.reason # "signal_reverse"
  BY <1>1, <1>6, ExitsFacts
<1>8. InSequenceBy(closed, bar)
  <2>1. InSequence(closed)
    BY DEF IInv, TradesInSequence
  <2>2. \A i \in 1 .. Len(closed) : closed[i] \in Trades
    BY <1>2
  <2>3. \A i \in 1 .. Len(closed) : closed[i].exitBar \in Nat
    BY <2>2 DEF Trades
  <2> QED BY <1>1, <2>1, <2>3 DEF InSequence, InSequenceBy
<1> DEFINE c == closed \o R
<1> HIDE DEF R, H, X, bar
\* The trades once the pending signal is filled.
<1>9. /\ c \in Seq(Trades) /\ InSequenceBy(c, bar)
      /\ IF H # None THEN H.entryBar <= bar /\ Follows(c, H.entryBar)
         ELSE c # <<>> => c[Len(c)].reason # "signal_reverse"
  <2>1. CASE R = <<>>
    <3>1. c = closed
      BY <2>1, <1>2
    <3>2. ~(Due(bar) /\ position # None)
      BY <1>5, <2>1, <1>2
    <3>3. CASE Due(bar)
      <4>1. closed # <<>> => /\ closed[Len(closed)].reason # "signal_reverse"
                             /\ closed[Len(closed)].exitBar <= Bar
        <5>1. closed # <<>> => Len(closed) \in 1 .. Len(closed)
          BY <1>2
        <5> QED BY <5>1, <3>2, <3>3 DEF IInv, TradesInSequence, InSequence
      <4>2. closed # <<>> => closed[Len(closed)].exitBar \in Nat
        <5>1. closed # <<>> => closed[Len(closed)] \in Trades
          BY <1>2
        <5> QED BY <5>1 DEF Trades
      <4> QED BY <1>1, <1>2, <1>6, <1>8, <3>1, <3>3, <4>1, <4>2 DEF Follows
    <3>4. CASE ~Due(bar)
      <4>1. H = position
        BY <1>6, <3>4
      <4>2. position # None => position.entryBar \in Nat
        BY <1>2 DEF Positions
      <4> QED BY <1>1, <1>2, <1>8, <3>1, <4>1, <4>2 DEF IInv, TradesInSequence
    <3> QED BY <3>3, <3>4
  <2>2. CASE R # <<>>
    <3>1. /\ Due(bar) /\ position # None
          /\ \E t \in Trades : /\ R = <<t>>
                               /\ t.entryBar = position.entryBar /\ t.exitBar = bar
                               /\ t.reason = "signal_reverse"
      BY <1>5, <2>2
    <3>2. PICK t \in Trades : /\ R = <<t>>
                              /\ t.entryBar = position.entryBar /\ t.exitBar = bar
                              /\ t.reason = "signal_reverse"
      BY <3>1
    <3>3. position.entryBar <= Bar /\ Follows(closed, position.entryBar)
      BY <3>1 DEF IInv, TradesInSequence
    <3>4. position.entryBar \in Nat
      BY <1>2, <3>1 DEF Positions
    <3>5. t.entryBar <= t.exitBar /\ t.exitBar <= bar
      BY <1>1, <3>2, <3>3, <3>4
    <3>6. /\ c \in Seq(Trades) /\ InSequenceBy(c, bar)
          /\ c # <<>> /\ c[Len(c)] = t
      BY <1>1, <1>2, <1>8, <3>2, <3>3, <3>5, Extend
    <3>7. H # None /\ H.entryBar = bar
      BY <1>6, <3>1
    <3>8. H.entryBar <= bar /\ Follows(c, H.entryBar)
      BY <1>1, <3>2, <3>6, <3>7 DEF Follows
    <3> QED BY <3>6, <3>7, <3>8
  <2> QED BY <2>1, <2>2
<1> HIDE DEF c
\* And once the stop and the target have been looked at.
<1>10. /\ closed' \in Seq(Trades) /\ position' \in Positions \cup {None}
       /\ InSequenceBy(closed', bar)
       /\ IF position' # None
            THEN position'.entryBar <= bar /\ Follows(closed', position'.entryBar)
            ELSE closed' # <<>> => closed'[Len(closed')].reason # "signal_reverse"
  <2>0. closed' = c \o X
    BY <1>4 DEF c
  <2>1. CASE X = <<>>
    <3>1. closed' = c
      BY <2>0, <2>1, <1>9
    <3>2. position' = H
      BY <1>4, <2>1
    <3> QED BY <3>1, <3>2, <1>6, <1>9
  <2>2. CASE X # <<>>
    <3>1. H # None
      BY <1>7, <2>2
    <3>2. PICK t \in Trades : /\ X = <<t>>
                              /\ t.entryBar = H.entryBar /\ t.exitBar = bar
                              /\ t.reason # "signal_reverse"
      BY <1>7, <2>2
    <3>3. t.entryBar <= t.exitBar /\ t.exitBar <= bar /\ Follows(c, t.entryBar)
      BY <1>1, <1>9, <3>1, <3>2
    <3>4. /\ closed' \in Seq(Trades) /\ InSequenceBy(closed', bar)
          /\ closed' # <<>> /\ closed'[Len(closed')] = t
      BY <1>1, <1>9, <2>0, <3>2, <3>3, Extend
    <3>5. position' = None
      BY <1>4, <2>2
    <3> QED BY <3>2, <3>4, <3>5
  <2> QED BY <2>1, <2>2
<1>11. TradesInSequence'
  <2>1. InSequence(closed)'
    BY <1>3, <1>10 DEF InSequence, InSequenceBy
  <2> QED BY <2>1, <1>3, <1>10 DEF TradesInSequence, Follows
<1>12. realized' \in Int
  <2>1. realized' = realized + Booked(R, X)
    BY DEF Walk, R, H, X, bar
  <2>2. R = <<>> \/ (\E t \in Trades : R = <<t>>)
    BY <1>5
  <2>3. X = <<>> \/ (\E t \in Trades : X = <<t>>)
    BY <1>7
  <2>4. \A t \in Trades : t.pnl \in Int
    BY DEF Trades
  <2>5. (IF R = <<>> THEN 0 ELSE R[1].pnl) \in Int
    BY <2>2, <2>4
  <2>6. (IF X = <<>> THEN 0 ELSE X[1].pnl) \in Int
    BY <2>3, <2>4
  <2> QED BY <1>2, <2>1, <2>5, <2>6 DEF Booked
<1> QED BY <1>10, <1>11, <1>12

LEMMA WalkIInv ==
  ASSUME IInv, Bar < NumBars, NEW row \in Rows, NEW signal \in Signals \cup {None},
         Walk(row, signal)
  PROVE  IInv'
<1>1. /\ closed' \in Seq(Trades) /\ position' \in Positions \cup {None}
      /\ TradesInSequence' /\ realized' \in Int
  BY WalkSequence
<1>2. rows' = Append(rows, row) /\ said' = Append(said, signal) /\ equity' = Append(equity, realized')
  BY DEF Walk
<1>3. rows \in Seq(Rows) /\ said \in Seq(Signals \cup {None}) /\ equity \in Seq(Int)
      /\ Len(said) = Len(rows) /\ Len(equity) = Len(rows) /\ Len(rows) < NumBars
  BY DEF IInv, TypeOK, Bar
<1>4. rows' \in Seq(Rows) /\ Len(rows') = Len(rows) + 1 /\ Len(rows') <= NumBars
  BY <1>2, <1>3
<1>5. said' \in Seq(Signals \cup {None}) /\ Len(said') = Len(rows')
  BY <1>2, <1>3, <1>4
<1>6. equity' \in Seq(Int) /\ Len(equity') = Len(rows')
  BY <1>1, <1>2, <1>3, <1>4
<1>7. pending' \in {p \in Pendings : p.bar = Bar'} \cup {None}
  <2>1. Bar' = Bar + 1 /\ Bar \in Nat
    BY <1>3, <1>4 DEF Bar
  <2>2. CASE Pends(signal, Bar + 1)
    <3>1. pending' = [signal |-> signal, bar |-> Bar + 1]
      BY <2>2 DEF Walk
    <3>2. signal \in Signals /\ Bar + 1 \in 1 .. NumBars - 1
      BY <2>1, <2>2 DEF Pends
    <3> QED BY <2>1, <3>1, <3>2 DEF Pendings
  <2>3. CASE ~Pends(signal, Bar + 1)
    <3>1. pending # None => pending.bar = Bar
      BY DEF IInv, TypeOK
    <3>2. pending # None => Due(Bar + 1)
      BY <2>1, <3>1 DEF Due
    <3>3. pending' = IF Due(Bar + 1) THEN None ELSE pending
      BY <2>3 DEF Walk
    <3> QED BY <3>2, <3>3
  <2> QED BY <2>2, <2>3
<1> QED BY <1>1, <1>4, <1>5, <1>6, <1>7 DEF IInv, TypeOK

\* The types and the order of the trades hold together, always.
THEOREM InductiveInvariant == Spec => []IInv
<1>1. IInv /\ [Next]_vars => IInv'
  <2> SUFFICES ASSUME IInv, [Next]_vars PROVE IInv'
    OBVIOUS
  <2>1. CASE Next
    BY <2>1, WalkIInv DEF Next
  <2>2. CASE UNCHANGED vars
    BY <2>2 DEF vars, IInv, TypeOK, TradesInSequence, InSequence, Follows, Bar
  <2> QED BY <2>1, <2>2
<1> QED BY <1>1, InitIInv, PTL DEF Spec

\* Every variable of the engine keeps its type, and a pending signal is never
\* older than one bar nor one of the last bar.
THEOREM TypeCorrect == Spec => []TypeOK
<1>1. IInv => TypeOK
  BY DEF IInv
<1> QED BY <1>1, InductiveInvariant, PTL

\* One position at a time: trades are entered no later than they are left, and
\* each follows the one before.
THEOREM TradesFollowOneAnother == Spec => []TradesInSequence
<1>1. IInv => TradesInSequence
  BY DEF IInv
<1> QED BY <1>1, InductiveInvariant, PTL

-----------------------------------------------------------------------------
(* Orders                                                                  *)

LEMMA LeastIsThere ==
  ASSUME NEW S, S \subseteq Nat, S # {}
  PROVE  Min(S) \in S /\ \A k \in S : Min(S) <= k
<1>1. PICK R : R = OpToRel(<, Nat)
  OBVIOUS
<1>2. R = {ss \in Nat \X Nat : ss[1] < ss[2]}
  BY <1>1 DEF OpToRel
<1>3. IsWellFoundedOn(R, Nat)
  BY <1>1, NatLessThanWellFounded
<1>4. PICK m \in S : \A k \in S : <<k, m>> \notin R
  BY <1>3, WFMin
<1>5. \A k \in S : ~(k < m) /\ k \in Nat /\ m \in Nat
  BY <1>2, <1>4
<1>6. \E x \in S : \A y \in S : x <= y
  BY <1>5
<1> QED
  BY <1>6 DEF Min

\* The position an order opens.
Pos(k) == Opened(said[k], rows[k + 1].open, k + 1)
Hit(p, row) == StopHit(p, row) \/ TargetHit(p, row)

\* An order's trades are those of its position.
LEMMA OrderFacts ==
  ASSUME TypeOK, NEW k \in Orders
  PROVE  /\ k \in 1 .. Bar - 1 /\ Bar \in Nat /\ k + 1 \in 1 .. NumBars
         /\ said[k] \in Signals /\ rows[k + 1] \in Rows
         /\ Pos(k) \in Positions
<1>1. /\ k \in 1 .. Bar - 1 /\ said[k] # None /\ Bar \in Nat /\ Bar <= NumBars
  BY DEF Orders, Bar, TypeOK
<1>2. /\ k \in 1 .. Len(said) /\ k + 1 \in 1 .. Len(rows)
      /\ said \in Seq(Signals \cup {None}) /\ rows \in Seq(Rows)
  BY <1>1 DEF TypeOK, Bar
<1>3. said[k] \in Signals /\ rows[k + 1] \in Rows
  BY <1>1, <1>2
<1>4. k + 1 \in 1 .. NumBars
  BY <1>1
<1> QED
  BY <1>1, <1>3, <1>4, RowTypes, OpenedType DEF Pos

LEMMA EntryIsFill ==
  ASSUME TypeOK, NEW k \in Orders
  PROVE  EntryPrice(k) = EntryFill(said[k].side, rows[k + 1].open)
<1>1. PICK side, open : side = said[k].side /\ open = rows[k + 1].open
  OBVIOUS
<1>2. said[k] \in Signals /\ rows[k + 1] \in Rows
  BY OrderFacts
<1>3. side \in {"LONG", "SHORT"} /\ open \in Nat /\ SlippagePct \in Int
  BY <1>1, <1>2, RowTypes, CostAssumption DEF Signals, Sides
<1>4. Sign(k) = IF side = "LONG" THEN 1 ELSE -1
  BY <1>1 DEF Sign
<1> QED
  BY <1>1, <1>3, <1>4 DEF EntryPrice, EntryFill

LEMMA LeftIsClosed ==
  ASSUME TypeOK, NEW k \in Orders, NEW bar, NEW level \in Nat, NEW reason
  PROVE  LeftAt(k, bar, level, reason) = Closed(Pos(k), level, bar, reason)
<1>1. PICK g, open, q :
        /\ g = said[k] /\ open = rows[k + 1].open
        /\ q = IF g.qty = None THEN DefaultQty ELSE g.qty
  OBVIOUS
<1>2. /\ g.side \in {"LONG", "SHORT"} /\ open \in Nat /\ q \in Nat
      /\ SlippagePct \in Int /\ CommissionPct \in Int
  <2>1. g \in Signals /\ rows[k + 1] \in Rows
    BY <1>1, OrderFacts
  <2>2. g.side \in {"LONG", "SHORT"} /\ g.qty \in Quantities \cup {None}
    BY <2>1 DEF Signals, Sides
  <2>3. q \in Nat
    BY <1>1, <2>2, QtyAssumption
  <2> QED
    BY <1>1, <2>1, <2>2, <2>3, RowTypes, CostAssumption
<1>3. PICK entry, exit : entry = EntryFill(g.side, open) /\ exit = ExitFill(g.side, level)
  OBVIOUS
<1>4. entry \in Nat /\ exit \in Nat
  BY <1>2, <1>3, FillTypes DEF Sides
<1>5. /\ Sign(k) = IF g.side = "LONG" THEN 1 ELSE -1
      /\ Qty(k) = q
  BY <1>1 DEF Sign, Qty
<1>6. EntryPrice(k) = entry /\ level * (100 - Sign(k) * SlippagePct) = exit
  <2>1. CASE g.side = "LONG"
    BY <1>1, <1>2, <1>3, <1>5, <2>1 DEF EntryPrice, EntryFill, ExitFill
  <2>2. CASE g.side = "SHORT"
    BY <1>1, <1>2, <1>3, <1>5, <2>2 DEF EntryPrice, EntryFill, ExitFill
  <2> QED
    BY <1>2, <2>1, <2>2
<1>7. PICK p : p = Pos(k)
  OBVIOUS
<1>8. /\ p.side = g.side /\ p.entry = entry /\ p.qty = q /\ p.entryBar = k + 1
  BY <1>1, <1>3, <1>7 DEF Pos, Opened
<1>9. PICK fees : fees = CommissionPct * (entry + exit) * q
  OBVIOUS
<1>10. 100 * Sign(k) * (exit - entry) * q
         = 100 * (IF g.side = "LONG" THEN (exit - entry) * q ELSE (entry - exit) * q)
  <2>1. \A a, b \in Int : 100 * 1 * a * b = 100 * (a * b)
    OBVIOUS
  <2>2. \A a, b \in Int : 100 * (-1) * a * b = 100 * ((0 - a) * b)
    OBVIOUS
  <2>3. exit - entry \in Int /\ q \in Int /\ 0 - (exit - entry) = entry - exit
    BY <1>2, <1>4
  <2> QED
    BY <1>2, <1>5, <2>1, <2>2, <2>3
<1>11. Closed(p, level, bar, reason) =
         [side |-> g.side, entry |-> entry, exit |-> exit, qty |-> q,
          entryBar |-> k + 1, exitBar |-> bar, reason |-> reason,
          pnl |-> 100 * (IF g.side = "LONG" THEN (exit - entry) * q ELSE (entry - exit) * q)
                    - fees,
          fees |-> fees]
  BY <1>3, <1>8, <1>9 DEF Closed, Commission
<1>12. LeftAt(k, bar, level, reason) =
         [side |-> g.side, entry |-> entry, exit |-> exit, qty |-> q,
          entryBar |-> k + 1, exitBar |-> bar, reason |-> reason,
          pnl |-> 100 * Sign(k) * (exit - entry) * q - fees, fees |-> fees]
  BY <1>1, <1>5, <1>6, <1>9 DEF LeftAt
<1> QED
  BY <1>7, <1>10, <1>11, <1>12

\* What an order's life is made of, without the least elements it is defined by.
Shape ==
  \A k \in Orders :
    /\ Pos(k) # None
    /\ Later(k) = {} => LastBar(k) = Bar
    /\ Later(k) # {} => LastBar(k) \in Later(k) /\ \A n \in Later(k) : LastBar(k) <= n
    /\ Touches(k) = {j \in k + 1 .. LastBar(k) : Hit(Pos(k), rows[j])}
    /\ \A j \in Touches(k) :
         (\A i \in Touches(k) : j <= i) => <<TradeOf(k)>> = Exits(Pos(k), rows[j], j)
    /\ Touches(k) = {} /\ Later(k) # {} =>
         TradeOf(k) = Closed(Pos(k), rows[LastBar(k) + 1].open, LastBar(k) + 1, "signal_reverse")

LEMMA ShapeHolds == TypeOK => Shape
<1> SUFFICES ASSUME TypeOK, NEW k \in Orders
    PROVE /\ Pos(k) # None
          /\ Later(k) = {} => LastBar(k) = Bar
          /\ Later(k) # {} => LastBar(k) \in Later(k) /\ \A n \in Later(k) : LastBar(k) <= n
          /\ Touches(k) = {j \in k + 1 .. LastBar(k) : Hit(Pos(k), rows[j])}
          /\ \A j \in Touches(k) :
               (\A i \in Touches(k) : j <= i) => <<TradeOf(k)>> = Exits(Pos(k), rows[j], j)
          /\ Touches(k) = {} /\ Later(k) # {} =>
               TradeOf(k) = Closed(Pos(k), rows[LastBar(k) + 1].open, LastBar(k) + 1,
                                   "signal_reverse")
  BY DEF Shape
<1>1. /\ k \in 1 .. Bar - 1 /\ Bar \in Nat /\ Pos(k) \in Positions
      /\ said[k] \in Signals
  BY OrderFacts
<1>2. /\ Pos(k).side = said[k].side /\ Pos(k).stop = said[k].stop
      /\ Pos(k).target = said[k].target /\ said[k].side \in {"LONG", "SHORT"}
      /\ said[k].stop \in Nat /\ said[k].target \in Nat /\ Pos(k) # None
  <2>1. said[k].side \in {"LONG", "SHORT"} /\ said[k].stop \in Nat /\ said[k].target \in Nat
    BY <1>1, LevelsAssumption DEF Signals, Sides
  <2> QED
    BY <1>1, <2>1, NoneAssumption DEF Pos, Opened
<1>3. Later(k) = {} => LastBar(k) = Bar
  BY DEF LastBar
<1>4. Later(k) # {} => LastBar(k) \in Later(k) /\ \A n \in Later(k) : LastBar(k) <= n
  <2>1. Later(k) \subseteq Nat
    BY <1>1 DEF Later, Orders
  <2> QED
    BY <2>1, LeastIsThere DEF LastBar
<1>5. LastBar(k) \in Nat /\ (Later(k) # {} => LastBar(k) \in k + 1 .. Bar - 1)
  BY <1>1, <1>3, <1>4 DEF Later, Orders
<1>6. Touches(k) = {j \in k + 1 .. LastBar(k) : Hit(Pos(k), rows[j])}
  <2>1. ASSUME NEW j
        PROVE  Hit(Pos(k), rows[j]) <=>
                 \/ rows[j].low <= said[k].stop /\ said[k].side = "LONG"
                 \/ rows[j].high >= said[k].target /\ said[k].side = "LONG"
                 \/ rows[j].high >= said[k].stop /\ said[k].side = "SHORT"
                 \/ rows[j].low <= said[k].target /\ said[k].side = "SHORT"
    BY <1>2 DEF Hit, StopHit, TargetHit
  <2> QED
    BY <2>1 DEF Touches
<1>7. ASSUME NEW j \in Touches(k), \A i \in Touches(k) : j <= i
      PROVE  <<TradeOf(k)>> = Exits(Pos(k), rows[j], j)
  <2>1. Touches(k) \subseteq Nat /\ Hit(Pos(k), rows[j])
    BY <1>1, <1>5, <1>6
  <2>2. Min(Touches(k)) \in Touches(k) /\ \A i \in Touches(k) : Min(Touches(k)) <= i
    BY <2>1, <1>7, LeastIsThere
  <2>3. Min(Touches(k)) = j
    BY <2>1, <2>2, <1>7
  <2>4. StopTouched(k, j) <=> StopHit(Pos(k), rows[j])
    BY <1>2 DEF StopTouched, StopHit
  <2>5. TradeOf(k) = IF StopHit(Pos(k), rows[j]) THEN LeftAt(k, j, said[k].stop, "stop_loss")
                     ELSE LeftAt(k, j, said[k].target, "target")
    BY <2>3, <2>4 DEF TradeOf
  <2>6. TradeOf(k) = IF StopHit(Pos(k), rows[j]) THEN Closed(Pos(k), Pos(k).stop, j, "stop_loss")
                     ELSE Closed(Pos(k), Pos(k).target, j, "target")
    BY <1>2, <2>5, LeftIsClosed
  <2> QED
    BY <1>2, <2>1, <2>6 DEF Exits, Hit
<1>8. ASSUME Touches(k) = {}, Later(k) # {}
      PROVE  TradeOf(k) = Closed(Pos(k), rows[LastBar(k) + 1].open, LastBar(k) + 1,
                                 "signal_reverse")
  <2>1. LastBar(k) + 1 \in 1 .. Len(rows) /\ rows \in Seq(Rows)
    BY <1>1, <1>5, <1>8 DEF Bar, TypeOK
  <2>2. rows[LastBar(k) + 1].open \in Nat
    BY <2>1, RowTypes
  <2>3. TradeOf(k) = LeftAt(k, LastBar(k) + 1, rows[LastBar(k) + 1].open, "signal_reverse")
    BY <1>8 DEF TradeOf
  <2> QED
    BY <2>2, <2>3, LeftIsClosed
<1> QED
  BY <1>2, <1>3, <1>4, <1>6, <1>7, <1>8

\* The orders that are not left are the open position, and what is pending is
\* the order the next bar fills.
Waiting ==
  pending = IF Bar \in 1 .. NumBars - 1 /\ said[Bar] # None
              THEN [signal |-> said[Bar], bar |-> Bar] ELSE None
AllBooked == Len(closed) = Cardinality(Left) /\ ToSet(closed) = {TradeOf(k) : k \in Left}
OpenOrder ==
  /\ position = None => Orders = Left
  /\ position # None => \E k \in Orders : Orders \ Left = {k} /\ position = Pos(k)

Matched == Waiting /\ AllBooked /\ OpenOrder

\* What a bar adds: itself, and the order it fills, which is that of the bar
\* before it.
LEMMA WalkOrders ==
  ASSUME TypeOK, Waiting, Bar < NumBars, NEW row \in Rows, NEW signal \in Signals \cup {None},
         Walk(row, signal)
  PROVE  /\ Bar \in Nat /\ Bar' = Bar + 1
         /\ rows'[Bar + 1] = row /\ \A j \in 1 .. Bar : rows'[j] = rows[j]
         /\ said'[Bar + 1] = signal /\ \A j \in 1 .. Bar : said'[j] = said[j]
         /\ Due(Bar + 1) => Bar >= 1 /\ pending.signal = said[Bar]
         /\ Orders \subseteq 1 .. Bar - 1
         /\ Orders' = Orders \cup (IF Due(Bar + 1) THEN {Bar} ELSE {})
<1>1. /\ rows \in Seq(Rows) /\ said \in Seq(Signals \cup {None}) /\ Len(said) = Len(rows)
      /\ rows' = Append(rows, row) /\ said' = Append(said, signal) /\ Bar = Len(rows)
  BY DEF TypeOK, Walk, Bar
<1>2. /\ Bar \in Nat /\ Len(rows') = Bar + 1
      /\ rows'[Bar + 1] = row /\ \A j \in 1 .. Bar : rows'[j] = rows[j]
  BY <1>1
<1>3. said'[Bar + 1] = signal /\ \A j \in 1 .. Bar : said'[j] = said[j]
  BY <1>1
<1>4. Bar' = Bar + 1
  BY <1>2 DEF Bar
<1>5. Bar \in 1 .. NumBars - 1 <=> Bar >= 1
  BY <1>2
<1>6. /\ Due(Bar + 1) <=> Bar >= 1 /\ said[Bar] # None
      /\ Due(Bar + 1) => pending.signal = said[Bar]
  <2>1. CASE Bar >= 1 /\ said[Bar] # None
    <3>1. pending = [signal |-> said[Bar], bar |-> Bar]
      BY <1>5, <2>1 DEF Waiting
    <3>2. pending # None /\ pending.bar = Bar /\ pending.signal = said[Bar]
      <4>1. said[Bar] \in Signals /\ Bar \in 1 .. NumBars - 1
        BY <1>1, <1>2, <1>5, <2>1
      <4>2. pending \in Pendings
        BY <3>1, <4>1 DEF Pendings
      <4> QED
        BY <3>1, <4>2, NoneAssumption
    <3> QED
      BY <1>2, <2>1, <3>2 DEF Due
  <2>2. CASE ~(Bar >= 1 /\ said[Bar] # None)
    BY <1>5, <2>2 DEF Waiting, Due
  <2> QED
    BY <2>1, <2>2
<1>7. Orders = {k \in 1 .. Bar - 1 : said[k] # None}
  BY DEF Orders
<1>8. Orders' = {k \in 1 .. Bar : said[k] # None}
  <2>1. Orders' = {k \in 1 .. Bar' - 1 : said'[k] # None}
    BY DEF Orders
  <2>2. Bar' - 1 = Bar
    BY <1>2, <1>4
  <2> QED
    BY <1>3, <2>1, <2>2
<1>9. Orders' = Orders \cup (IF Due(Bar + 1) THEN {Bar} ELSE {})
  BY <1>2, <1>6, <1>7, <1>8
<1> QED
  BY <1>2, <1>3, <1>4, <1>6, <1>7, <1>9

\* An order that was there keeps its life so far, which goes on to the new bar
\* unless a later order ends it.
LEMMA WalkLives ==
  ASSUME IInv, Waiting, Bar < NumBars, NEW row \in Rows, NEW signal \in Signals \cup {None},
         Walk(row, signal), NEW k \in Orders
  PROVE  \E pos, later, last, touches :
           /\ pos = Pos(k)' /\ later = Later(k)' /\ last = LastBar(k)' /\ touches = Touches(k)'
           /\ pos = Pos(k)
           /\ later = Later(k) \cup (IF Due(Bar + 1) THEN {Bar} ELSE {})
           /\ Later(k) # {} => last = LastBar(k) /\ last \in 1 .. Bar - 1
           /\ Later(k) = {} /\ Due(Bar + 1) => last = Bar
           /\ Touches(k) \subseteq 1 .. Bar /\ touches \subseteq 1 .. Bar + 1
           /\ \A j \in 1 .. Bar : j \in touches <=> j \in Touches(k)
           /\ Bar + 1 \in touches <=> Later(k) = {} /\ ~Due(Bar + 1) /\ Hit(pos, row)
<1>1. /\ Bar \in Nat /\ Bar' = Bar + 1
      /\ rows'[Bar + 1] = row /\ \A j \in 1 .. Bar : rows'[j] = rows[j]
      /\ \A j \in 1 .. Bar : said'[j] = said[j]
      /\ Due(Bar + 1) => Bar >= 1
      /\ Orders \subseteq 1 .. Bar - 1
      /\ Orders' = Orders \cup (IF Due(Bar + 1) THEN {Bar} ELSE {})
  BY WalkOrders DEF IInv
<1>2. PICK pos, later, last, touches :
        pos = Pos(k)' /\ later = Later(k)' /\ last = LastBar(k)' /\ touches = Touches(k)'
  OBVIOUS
<1>3. k \in Orders' /\ k \in 1 .. Bar - 1 /\ k + 1 \in 1 .. Bar /\ k \in 1 .. Bar
  BY <1>1
<1>4. pos = Pos(k)
  BY <1>1, <1>2, <1>3 DEF Pos
<1>5. later = Later(k) \cup (IF Due(Bar + 1) THEN {Bar} ELSE {})
  <2>1. later = {n \in Orders' : n > k} /\ Later(k) = {n \in Orders : n > k}
    BY <1>2 DEF Later
  <2> QED
    BY <1>1, <1>3, <2>1
<1>6. /\ Later(k) = {} => LastBar(k) = Bar
      /\ Later(k) # {} => LastBar(k) \in Later(k) /\ \A n \in Later(k) : LastBar(k) <= n
      /\ Touches(k) = {j \in k + 1 .. LastBar(k) : Hit(Pos(k), rows[j])}
  BY ShapeHolds DEF IInv, Shape
<1>7. /\ later = {} => last = Bar + 1
      /\ later # {} => last \in later /\ \A n \in later : last <= n
      /\ touches = {j \in k + 1 .. last : Hit(pos, rows'[j])}
  <2>1. TypeOK'
    BY WalkIInv DEF IInv
  <2>2. TypeOK' => Shape'
    BY ShapeHolds, PTL
  <2> QED
    BY <1>1, <1>2, <1>3, <2>1, <2>2 DEF Shape
<1>8. Later(k) \subseteq 1 .. Bar - 1
  BY <1>1 DEF Later
<1>9. Later(k) # {} => last = LastBar(k) /\ last \in 1 .. Bar - 1
  <2> SUFFICES ASSUME Later(k) # {} PROVE last = LastBar(k) /\ last \in 1 .. Bar - 1
    OBVIOUS
  <2>1. LastBar(k) \in later /\ last \in later /\ LastBar(k) \in 1 .. Bar - 1
    BY <1>5, <1>6, <1>7, <1>8
  <2>2. last <= LastBar(k)
    BY <1>7, <2>1
  <2>3. last \in Later(k)
    BY <1>1, <1>5, <2>1, <2>2
  <2> QED
    BY <1>1, <1>6, <1>8, <2>1, <2>2, <2>3
<1>10. Later(k) = {} => last = IF Due(Bar + 1) THEN Bar ELSE Bar + 1
  BY <1>5, <1>7
<1>11. \A j \in 1 .. Bar : j \in touches <=> j \in Touches(k)
  <2> SUFFICES ASSUME NEW j \in 1 .. Bar PROVE j \in touches <=> j \in Touches(k)
    OBVIOUS
  <2>1. j \in k + 1 .. last <=> j \in k + 1 .. LastBar(k)
    BY <1>1, <1>3, <1>6, <1>9, <1>10
  <2> QED
    BY <1>1, <1>4, <1>6, <1>7, <2>1
<1>12. Touches(k) \subseteq 1 .. Bar /\ touches \subseteq 1 .. Bar + 1
  <2>1. LastBar(k) \in 1 .. Bar /\ last \in 1 .. Bar + 1
    BY <1>1, <1>3, <1>6, <1>8, <1>9, <1>10
  <2> QED
    BY <1>1, <1>3, <1>6, <1>7, <2>1
<1>13. Bar + 1 \in touches <=> Later(k) = {} /\ ~Due(Bar + 1) /\ Hit(pos, row)
  <2>1. Bar + 1 \in k + 1 .. last <=> Later(k) = {} /\ ~Due(Bar + 1)
    BY <1>1, <1>3, <1>9, <1>10
  <2> QED
    BY <1>1, <1>7, <2>1
<1> QED
  BY <1>2, <1>4, <1>5, <1>9, <1>10, <1>11, <1>12, <1>13

\* What a bar makes of an order's first touch.
LEMMA FirstTouchThen ==
  ASSUME IInv, Bar < NumBars, NEW row \in Rows, NEW signal \in Signals \cup {None},
         Walk(row, signal), NEW k \in Orders', NEW j, NEW touches, NEW trade,
         touches = Touches(k)', trade = TradeOf(k)', j \in touches, \A i \in touches : j <= i
  PROVE  <<trade>> = Exits(Pos(k)', rows'[j], j)
<1>1. TypeOK'
  BY WalkIInv DEF IInv
<1>2. TypeOK' => Shape'
  BY ShapeHolds, PTL
<1> QED
  BY <1>1, <1>2 DEF Shape

\* What is left stays left, with the same trade.
LEMMA WalkLeft ==
  ASSUME IInv, Waiting, Bar < NumBars, NEW row \in Rows, NEW signal \in Signals \cup {None},
         Walk(row, signal), NEW k \in Left
  PROVE  \E trade : trade = TradeOf(k)' /\ trade = TradeOf(k) /\ k \in Left'
<1>1. /\ Bar \in Nat /\ \A j \in 1 .. Bar : rows'[j] = rows[j]
      /\ Orders' = Orders \cup (IF Due(Bar + 1) THEN {Bar} ELSE {})
  BY WalkOrders DEF IInv
<1>2. k \in Orders /\ k \in Orders' /\ (Touches(k) # {} \/ Later(k) # {})
  BY <1>1 DEF Left
<1>3. PICK pos, later, last, touches :
        /\ pos = Pos(k)' /\ later = Later(k)' /\ last = LastBar(k)' /\ touches = Touches(k)'
        /\ pos = Pos(k)
        /\ later = Later(k) \cup (IF Due(Bar + 1) THEN {Bar} ELSE {})
        /\ Later(k) # {} => last = LastBar(k) /\ last \in 1 .. Bar - 1
        /\ Touches(k) \subseteq 1 .. Bar /\ touches \subseteq 1 .. Bar + 1
        /\ \A j \in 1 .. Bar : j \in touches <=> j \in Touches(k)
        /\ Bar + 1 \in touches <=> Later(k) = {} /\ ~Due(Bar + 1) /\ Hit(pos, row)
  BY <1>2, WalkLives
<1>4. PICK trade : trade = TradeOf(k)'
  OBVIOUS
<1>5. touches # {} \/ later # {}
  BY <1>2, <1>3
<1>6. k \in Left'
  BY <1>2, <1>3, <1>5 DEF Left
<1>7. CASE Touches(k) # {}
  <2>1. PICK j \in Touches(k) : \A i \in Touches(k) : j <= i
    <3>1. Touches(k) \subseteq Nat
      BY <1>3
    <3> QED
      BY <1>7, <3>1, LeastIsThere
  <2>2. <<TradeOf(k)>> = Exits(Pos(k), rows[j], j)
    BY <1>2, <2>1, ShapeHolds DEF IInv, Shape
  <2>3. j \in 1 .. Bar /\ j \in touches /\ \A i \in touches : j <= i
    BY <1>1, <1>3, <2>1
  <2>4. <<trade>> = Exits(pos, rows'[j], j)
    BY <1>2, <1>3, <1>4, <2>3, FirstTouchThen
  <2>5. <<trade>> = <<TradeOf(k)>>
    BY <1>1, <1>3, <2>2, <2>3, <2>4
  <2> QED
    BY <1>4, <1>6, <2>5
<1>8. CASE Touches(k) = {}
  <2>1. Later(k) # {} /\ last = LastBar(k) /\ last \in 1 .. Bar - 1 /\ later # {}
    BY <1>2, <1>3, <1>8
  <2>2. TradeOf(k) = Closed(Pos(k), rows[last + 1].open, last + 1, "signal_reverse")
    BY <1>2, <1>8, <2>1, ShapeHolds DEF IInv, Shape
  <2>3. touches = {}
    BY <1>1, <1>3, <1>8, <2>1
  <2>4. trade = Closed(pos, rows'[last + 1].open, last + 1, "signal_reverse")
    <3>1. TypeOK'
      BY WalkIInv DEF IInv
    <3>2. TypeOK' => Shape'
      BY ShapeHolds, PTL
    <3> QED
      BY <1>2, <1>3, <1>4, <2>1, <2>3, <3>1, <3>2 DEF Shape
  <2>5. rows'[last + 1] = rows[last + 1]
    BY <1>1, <2>1
  <2> QED
    BY <1>3, <1>4, <1>6, <2>2, <2>4, <2>5
<1> QED
  BY <1>7, <1>8

\* The open order is left at the open that fills the next one.
LEMMA WalkReversed ==
  ASSUME IInv, Waiting, Bar < NumBars, NEW row \in Rows, NEW signal \in Signals \cup {None},
         Walk(row, signal), NEW k \in Orders \ Left, Due(Bar + 1)
  PROVE  \E trade : /\ trade = TradeOf(k)' /\ k \in Left'
                    /\ trade = Closed(Pos(k), row.open, Bar + 1, "signal_reverse")
<1>1. /\ Bar \in Nat /\ rows'[Bar + 1] = row
      /\ Orders' = Orders \cup (IF Due(Bar + 1) THEN {Bar} ELSE {})
  BY WalkOrders DEF IInv
<1>2. k \in Orders /\ k \in Orders' /\ Touches(k) = {} /\ Later(k) = {}
  BY <1>1 DEF Left
<1>3. PICK pos, later, last, touches :
        /\ pos = Pos(k)' /\ later = Later(k)' /\ last = LastBar(k)' /\ touches = Touches(k)'
        /\ pos = Pos(k)
        /\ later = Later(k) \cup (IF Due(Bar + 1) THEN {Bar} ELSE {})
        /\ Later(k) = {} /\ Due(Bar + 1) => last = Bar
        /\ touches \subseteq 1 .. Bar + 1
        /\ \A j \in 1 .. Bar : j \in touches <=> j \in Touches(k)
        /\ Bar + 1 \in touches <=> Later(k) = {} /\ ~Due(Bar + 1) /\ Hit(pos, row)
  BY <1>2, WalkLives
<1>4. PICK trade : trade = TradeOf(k)'
  OBVIOUS
<1>5. touches = {} /\ later # {} /\ last = Bar
  BY <1>1, <1>2, <1>3
<1>6. k \in Left'
  BY <1>2, <1>3, <1>5 DEF Left
<1>7. trade = Closed(pos, rows'[last + 1].open, last + 1, "signal_reverse")
  <2>1. TypeOK'
    BY WalkIInv DEF IInv
  <2>2. TypeOK' => Shape'
    BY ShapeHolds, PTL
  <2> QED
    BY <1>2, <1>3, <1>4, <1>5, <2>1, <2>2 DEF Shape
<1> QED
  BY <1>1, <1>3, <1>4, <1>5, <1>6, <1>7

\* The order held through a bar, the one it fills or else the open one, is left
\* within it if the bar reaches one of its levels.
LEMMA WalkHeld ==
  ASSUME IInv, Waiting, Bar < NumBars, NEW row \in Rows, NEW signal \in Signals \cup {None},
         Walk(row, signal), NEW k,
         (k \in Orders \ Left /\ ~Due(Bar + 1)) \/ (k = Bar /\ Due(Bar + 1))
  PROVE  \E pos, trade :
           /\ pos = Pos(k)' /\ trade = TradeOf(k)' /\ k \in Orders' /\ pos # None
           /\ k \in Left' <=> Hit(pos, row)
           /\ Hit(pos, row) => <<trade>> = Exits(pos, row, Bar + 1)
<1>1. /\ Bar \in Nat /\ Bar' = Bar + 1 /\ rows'[Bar + 1] = row
      /\ Orders \subseteq 1 .. Bar - 1
      /\ Orders' = Orders \cup (IF Due(Bar + 1) THEN {Bar} ELSE {})
  BY WalkOrders DEF IInv
<1>2. PICK pos, later, touches, trade :
        pos = Pos(k)' /\ later = Later(k)' /\ touches = Touches(k)' /\ trade = TradeOf(k)'
  OBVIOUS
<1>3. k \in Orders'
  BY <1>1
<1>4. TypeOK' /\ Shape'
  <2>1. TypeOK'
    BY WalkIInv DEF IInv
  <2>2. TypeOK' => Shape'
    BY ShapeHolds, PTL
  <2> QED
    BY <2>1, <2>2
<1>5. pos # None
  BY <1>2, <1>3, <1>4 DEF Shape
<1>6. later = {} /\ touches = IF Hit(pos, row) THEN {Bar + 1} ELSE {}
  <2>1. CASE k \in Orders \ Left /\ ~Due(Bar + 1)
    <3>1. k \in Orders /\ Touches(k) = {} /\ Later(k) = {}
      BY <2>1 DEF Left
    <3>2. \E p, l, last, t :
            /\ p = Pos(k)' /\ l = Later(k)' /\ last = LastBar(k)' /\ t = Touches(k)'
            /\ p = Pos(k)
            /\ l = Later(k) \cup (IF Due(Bar + 1) THEN {Bar} ELSE {})
            /\ t \subseteq 1 .. Bar + 1
            /\ \A j \in 1 .. Bar : j \in t <=> j \in Touches(k)
            /\ Bar + 1 \in t <=> Later(k) = {} /\ ~Due(Bar + 1) /\ Hit(p, row)
      BY <3>1, WalkLives
    <3>3. /\ later = Later(k) \cup (IF Due(Bar + 1) THEN {Bar} ELSE {})
          /\ touches \subseteq 1 .. Bar + 1
          /\ \A j \in 1 .. Bar : j \in touches <=> j \in Touches(k)
          /\ Bar + 1 \in touches <=> Later(k) = {} /\ ~Due(Bar + 1) /\ Hit(pos, row)
      BY <1>2, <3>2
    <3>4. touches \subseteq {Bar + 1} /\ later = {}
      BY <1>1, <2>1, <3>1, <3>3
    <3> QED
      BY <2>1, <3>1, <3>3, <3>4
  <2>2. CASE k = Bar /\ Due(Bar + 1)
    <3>1. later = {n \in Orders' : n > k}
      BY <1>2 DEF Later
    <3>2. later = {}
      <4>1. \A n \in Orders' : ~(n > k)
        BY <1>1, <2>2
      <4> QED
        BY <3>1, <4>1
    <3>3. touches = {j \in k + 1 .. Bar + 1 : Hit(pos, rows'[j])}
      BY <1>1, <1>2, <1>3, <1>4, <3>2 DEF Shape
    <3> QED
      BY <1>1, <2>2, <3>2, <3>3
  <2> QED
    BY <2>1, <2>2
<1>7. k \in Left' <=> Hit(pos, row)
  BY <1>2, <1>3, <1>6 DEF Left
<1>8. Hit(pos, row) => <<trade>> = Exits(pos, row, Bar + 1)
  <2> SUFFICES ASSUME Hit(pos, row) PROVE <<trade>> = Exits(pos, row, Bar + 1)
    OBVIOUS
  <2>1. Bar + 1 \in touches /\ \A i \in touches : Bar + 1 <= i
    BY <1>1, <1>6
  <2>2. <<trade>> = Exits(Pos(k)', rows'[Bar + 1], Bar + 1)
    BY <1>2, <1>3, <2>1, FirstTouchThen
  <2> QED
    BY <1>1, <1>2, <2>2
<1> QED
  BY <1>2, <1>3, <1>5, <1>7, <1>8

\* A list of the trades of a set of orders, extended by the trade of one more.
TradesIn(f, S) == {f[k] : k \in S}

LEMMA OneMore ==
  ASSUME NEW s \in Seq(Trades), NEW S, IsFiniteSet(S), NEW f,
         Len(s) = Cardinality(S), ToSet(s) = TradesIn(f, S),
         NEW n, n \notin S, f[n] \in Trades
  PROVE  /\ s \o <<f[n]>> \in Seq(Trades) /\ IsFiniteSet(S \cup {n})
         /\ Len(s \o <<f[n]>>) = Cardinality(S \cup {n})
         /\ ToSet(s \o <<f[n]>>) = TradesIn(f, S \cup {n})
<1>1. PICK u : u = s \o <<f[n]>>
  OBVIOUS
<1>2. /\ u \in Seq(Trades) /\ Len(u) = Len(s) + 1 /\ Len(s) \in Nat
      /\ u[Len(s) + 1] = f[n] /\ \A i \in 1 .. Len(s) : u[i] = s[i]
  BY <1>1
<1>3. IsFiniteSet(S \cup {n}) /\ Cardinality(S \cup {n}) = Cardinality(S) + 1
  BY FS_AddElement
<1>4. ToSet(s) = {s[i] : i \in 1 .. Len(s)} /\ ToSet(u) = {u[i] : i \in 1 .. Len(u)}
  BY <1>2 DEF ToSet
<1>5. ToSet(u) = ToSet(s) \cup {f[n]}
  <2>1. 1 .. Len(u) = 1 .. Len(s) \cup {Len(s) + 1}
    BY <1>2
  <2>2. ToSet(u) = {u[i] : i \in 1 .. Len(s)} \cup {u[Len(s) + 1]}
    BY <1>4, <2>1
  <2>3. {u[i] : i \in 1 .. Len(s)} = {s[i] : i \in 1 .. Len(s)}
    BY <1>2
  <2> QED
    BY <1>2, <1>4, <2>2, <2>3
<1>6. TradesIn(f, S \cup {n}) = TradesIn(f, S) \cup {f[n]}
  BY DEF TradesIn
<1> QED
  BY <1>1, <1>2, <1>3, <1>5, <1>6

LEMMA OrdersAreFinite ==
  ASSUME TypeOK
  PROVE  IsFiniteSet(Orders) /\ Left \subseteq Orders /\ IsFiniteSet(Left)
<1>1. Bar - 1 \in Int /\ Orders \subseteq 1 .. Bar - 1
  BY DEF Orders, Bar, TypeOK
<1>2. IsFiniteSet(1 .. Bar - 1)
  BY <1>1, FS_Interval
<1> QED
  BY <1>1, <1>2, FS_Subset DEF Left

FInv == IInv /\ Matched

LEMMA WalkMatched ==
  ASSUME FInv, Bar < NumBars, NEW row \in Rows, NEW signal \in Signals \cup {None},
         Walk(row, signal)
  PROVE  Matched'
<1>1. /\ IInv /\ TypeOK /\ Waiting /\ AllBooked /\ OpenOrder
      /\ position \in Positions \cup {None} /\ pending \in Pendings \cup {None}
      /\ closed \in Seq(Trades)
  BY DEF FInv, IInv, Matched, TypeOK
<1>2. PICK bar : bar = Bar + 1
  OBVIOUS
<1>3. /\ Bar \in Nat /\ Bar' = bar /\ bar \in 1 .. NumBars
      /\ rows'[bar] = row /\ \A j \in 1 .. Bar : rows'[j] = rows[j]
      /\ said'[bar] = signal /\ \A j \in 1 .. Bar : said'[j] = said[j]
      /\ Due(bar) => Bar >= 1 /\ pending.signal = said[Bar]
      /\ Orders \subseteq 1 .. Bar - 1
      /\ Orders' = Orders \cup (IF Due(bar) THEN {Bar} ELSE {})
  BY <1>1, <1>2, WalkOrders
<1>4. PICK f, g, orders, left :
        /\ f = [k \in orders |-> TradeOf(k)'] /\ g = [k \in orders |-> Pos(k)']
        /\ orders = Orders' /\ left = Left'
  OBVIOUS
<1>5. PICK R, H, X : R = Reverses(row, bar) /\ H = Held(row, bar) /\ X = Exits(H, row, bar)
  OBVIOUS
<1>6. closed' = closed \o R \o X /\ position' = IF X = <<>> THEN H ELSE None
  BY <1>2, <1>5 DEF Walk
<1>7. Left \subseteq Orders /\ IsFiniteSet(Left) /\ left \subseteq orders
  BY <1>1, <1>4, OrdersAreFinite DEF Left
\* What was left is left with the same trade.
<1>8. /\ Left \subseteq left
      /\ Len(closed) = Cardinality(Left) /\ ToSet(closed) = TradesIn(f, Left)
  <2>1. \A k \in Left : k \in left /\ f[k] = TradeOf(k)
    <3> SUFFICES ASSUME NEW k \in Left PROVE k \in left /\ f[k] = TradeOf(k)
      OBVIOUS
    <3>1. \E trade : trade = TradeOf(k)' /\ trade = TradeOf(k) /\ k \in Left'
      BY <1>1, WalkLeft
    <3> QED
      BY <1>3, <1>4, <1>7, <3>1
  <2> QED
    BY <1>1, <2>1 DEF AllBooked, TradesIn
<1>9. /\ H \in Positions \cup {None}
      /\ Due(bar) => H # None
      /\ ~Due(bar) => H = position
  BY <1>1, <1>3, <1>5, HeldFacts
\* Once the pending signal is filled.
<1>10. \E S : /\ IsFiniteSet(S) /\ S \subseteq left /\ closed \o R \in Seq(Trades)
              /\ Len(closed \o R) = Cardinality(S) /\ ToSet(closed \o R) = TradesIn(f, S)
              /\ H = None => S = orders
              /\ H # None =>
                   \E k : /\ k \notin S /\ orders = S \cup {k} /\ H = g[k]
                          /\ (k \in Orders \ Left /\ ~Due(bar)) \/ (k = Bar /\ Due(bar))
  <2>1. CASE ~Due(bar)
    <3>1. R = <<>> /\ closed \o R = closed /\ H = position /\ orders = Orders
      BY <1>1, <1>3, <1>4, <1>5, <1>9, <2>1 DEF Reverses
    <3>2. position = None => Left = orders
      BY <1>1, <3>1 DEF OpenOrder
    <3>3. ASSUME position # None
          PROVE  \E k : /\ k \notin Left /\ orders = Left \cup {k} /\ H = g[k]
                        /\ k \in Orders \ Left
      <4>1. PICK k \in Orders : Orders \ Left = {k} /\ position = Pos(k)
        BY <1>1, <3>3 DEF OpenOrder
      <4>2. k + 1 \in 1 .. Bar /\ k \in 1 .. Bar
        BY <1>3
      <4>3. Pos(k)' = Pos(k)
        BY <1>3, <4>2 DEF Pos
      <4> QED
        BY <1>4, <1>7, <3>1, <4>1, <4>3
    <3> QED
      BY <1>1, <1>7, <1>8, <2>1, <3>1, <3>2, <3>3
  <2>2. CASE Due(bar)
    <3>1. Bar \notin Orders /\ Bar \notin Left /\ H # None /\ orders = Orders \cup {Bar}
      BY <1>3, <1>4, <1>7, <1>9, <2>2
    <3>2. H = g[Bar]
      <4>1. H = Opened(said[Bar], row.open, bar)
        BY <1>3, <1>5, <2>2 DEF Held
      <4>2. PICK k : k = Bar
        OBVIOUS
      <4>3. Pos(k)' = Opened(said'[k], rows'[k + 1].open, k + 1)
        BY DEF Pos
      <4>4. said'[k] = said[k] /\ rows'[k + 1] = row /\ k + 1 = bar
        BY <1>2, <1>3, <2>2, <4>2
      <4>5. g[k] = Pos(k)'
        BY <1>4, <3>1, <4>2
      <4> QED
        BY <4>1, <4>2, <4>3, <4>4, <4>5
    <3>3. CASE position = None
      <4>1. R = <<>> /\ closed \o R = closed /\ Left = Orders
        BY <1>1, <1>5, <3>3 DEF Reverses, OpenOrder
      <4> QED
        BY <1>1, <1>7, <1>8, <2>2, <3>1, <3>2, <4>1
    <3>4. CASE position # None
      <4>1. PICK n \in Orders : Orders \ Left = {n} /\ position = Pos(n)
        BY <1>1, <3>4 DEF OpenOrder
      <4>2. \E trade : /\ trade = TradeOf(n)' /\ n \in Left'
                       /\ trade = Closed(Pos(n), row.open, bar, "signal_reverse")
        BY <1>1, <1>2, <2>2, <4>1, WalkReversed
      <4>3. n \in left /\ f[n] = Closed(position, row.open, bar, "signal_reverse")
        BY <1>4, <1>7, <4>1, <4>2
      <4>4. R = <<f[n]>>
        BY <1>5, <2>2, <3>4, <4>3 DEF Reverses
      <4>5. f[n] \in Trades
        BY <1>1, <1>3, <3>4, <4>3, RowTypes, ClosedType
      <4>6. n \notin Left /\ Left \cup {n} = Orders
        BY <1>7, <4>1
      <4>7. /\ closed \o <<f[n]>> \in Seq(Trades) /\ IsFiniteSet(Left \cup {n})
            /\ Len(closed \o <<f[n]>>) = Cardinality(Left \cup {n})
            /\ ToSet(closed \o <<f[n]>>) = TradesIn(f, Left \cup {n})
        BY <1>1, <1>7, <1>8, <4>5, <4>6, OneMore
      <4>8. Left \cup {n} \subseteq left
        BY <1>8, <4>3
      <4> QED
        BY <2>2, <3>1, <3>2, <4>4, <4>6, <4>7, <4>8
    <3> QED
      BY <3>3, <3>4
  <2> QED
    BY <2>1, <2>2
\* And once the stop and the target have been looked at.
<1>11. /\ Len(closed') = Cardinality(left) /\ ToSet(closed') = TradesIn(f, left)
       /\ position' = None => orders = left
       /\ position' # None => \E k \in orders : orders \ left = {k} /\ position' = g[k]
  <2>1. PICK S :
          /\ IsFiniteSet(S) /\ S \subseteq left /\ closed \o R \in Seq(Trades)
          /\ Len(closed \o R) = Cardinality(S) /\ ToSet(closed \o R) = TradesIn(f, S)
          /\ H = None => S = orders
          /\ H # None =>
               \E k : /\ k \notin S /\ orders = S \cup {k} /\ H = g[k]
                      /\ (k \in Orders \ Left /\ ~Due(bar)) \/ (k = Bar /\ Due(bar))
    BY <1>10
  <2>2. CASE H = None
    <3>1. X = <<>> /\ closed' = closed \o R /\ position' = None
      BY <1>5, <1>6, <2>1, <2>2 DEF Exits
    <3>2. left = S /\ left = orders
      BY <1>7, <2>1, <2>2
    <3> QED
      BY <2>1, <3>1, <3>2
  <2>3. CASE H # None
    <3>1. PICK k : /\ k \notin S /\ orders = S \cup {k} /\ H = g[k]
                   /\ (k \in Orders \ Left /\ ~Due(bar)) \/ (k = Bar /\ Due(bar))
      BY <2>1, <2>3
    <3>2. \E pos, trade :
            /\ pos = Pos(k)' /\ trade = TradeOf(k)' /\ k \in Orders' /\ pos # None
            /\ k \in Left' <=> Hit(pos, row)
            /\ Hit(pos, row) => <<trade>> = Exits(pos, row, Bar + 1)
      BY <1>1, <1>2, <3>1, WalkHeld
    <3>3. /\ k \in orders /\ (k \in left <=> Hit(H, row))
          /\ Hit(H, row) => <<f[k]>> = X
      BY <1>2, <1>4, <1>5, <3>1, <3>2
    <3>4. CASE ~Hit(H, row)
      <4>1. X = <<>> /\ closed' = closed \o R /\ position' = H
        BY <1>5, <1>6, <2>1, <3>4 DEF Exits, Hit
      <4>2. left = S
        BY <1>7, <2>1, <3>1, <3>3, <3>4
      <4> QED
        BY <2>1, <2>3, <3>1, <3>3, <4>1, <4>2
    <3>5. CASE Hit(H, row)
      <4>1. X = <<f[k]>> /\ X # <<>>
        <5>1. \A x : <<x>> # <<>>
          OBVIOUS
        <5> QED
          BY <3>3, <3>5, <5>1
      <4>2. closed' = (closed \o R) \o <<f[k]>> /\ position' = None
        BY <1>6, <4>1
      <4>3. f[k] \in Trades
        <5>1. X = <<>> \/ \E t \in Trades : X = <<t>>
          BY <1>3, <1>5, <1>9, ExitsFacts
        <5> QED
          BY <4>1, <5>1
      <4>4. /\ Len(closed') = Cardinality(S \cup {k})
            /\ ToSet(closed') = TradesIn(f, S \cup {k})
        <5>1. PICK c : c = closed \o R
          OBVIOUS
        <5>2. /\ c \in Seq(Trades) /\ Len(c) = Cardinality(S) /\ ToSet(c) = TradesIn(f, S)
          BY <2>1, <5>1
        <5>3. /\ Len(c \o <<f[k]>>) = Cardinality(S \cup {k})
              /\ ToSet(c \o <<f[k]>>) = TradesIn(f, S \cup {k})
          <6>1. IsFiniteSet(S) /\ k \notin S
            BY <2>1, <3>1
          <6> QED
            BY <4>3, <5>2, <6>1, OneMore
        <5> QED
          BY <4>2, <5>1, <5>3
      <4>5. left = S \cup {k} /\ left = orders
        BY <1>7, <2>1, <3>1, <3>3, <3>5
      <4> QED
        BY <4>2, <4>4, <4>5
    <3> QED
      BY <3>4, <3>5
  <2> QED
    BY <2>2, <2>3
<1>12. AllBooked' /\ OpenOrder'
  <2>1. TradesIn(f, left) = {TradeOf(k)' : k \in left}
    BY <1>4, <1>7 DEF TradesIn
  <2>2. AllBooked'
    BY <1>4, <1>11, <2>1 DEF AllBooked
  <2>3. OpenOrder'
    BY <1>4, <1>11 DEF OpenOrder
  <2> QED
    BY <2>2, <2>3
<1>13. Waiting'
  <2>1. pending' = IF Pends(signal, bar) THEN [signal |-> signal, bar |-> bar]
                   ELSE IF Due(bar) THEN None ELSE pending
    BY <1>2 DEF Walk
  <2>2. Pends(signal, bar) <=> bar \in 1 .. NumBars - 1 /\ signal # None
    BY <1>2, <1>3 DEF Pends
  <2>3. pending # None => Due(bar)
    BY <1>1, <1>2, <1>3 DEF TypeOK, Due
  <2> QED
    BY <1>3, <2>1, <2>2, <2>3 DEF Waiting
<1> QED
  BY <1>12, <1>13 DEF Matched

LEMMA InitMatched == Init => Matched
<1> SUFFICES ASSUME Init PROVE Matched
  OBVIOUS
<1>1. Bar = 0 /\ closed = <<>> /\ position = None /\ pending = None
  BY DEF Init, Bar
<1>2. Orders = {} /\ Left = {}
  BY <1>1 DEF Orders, Left
<1>3. Len(closed) = 0 /\ ToSet(closed) = {} /\ Cardinality(Left) = 0
  BY <1>1, <1>2, FS_EmptySet DEF ToSet
<1> QED
  BY <1>1, <1>2, <1>3 DEF Matched, Waiting, AllBooked, OpenOrder

\* The engine's state is always that of the orders of the walk.
THEOREM TradesMatchOrders == Spec => []FInv
<1>1. FInv /\ [Next]_vars => FInv'
  <2> SUFFICES ASSUME FInv, [Next]_vars PROVE FInv'
    OBVIOUS
  <2>1. CASE Next
    BY <2>1, WalkIInv, WalkMatched DEF Next, FInv
  <2>2. CASE UNCHANGED vars
    <3>1. IInv'
      BY <2>2 DEF FInv, vars, IInv, TypeOK, TradesInSequence, InSequence, Follows, Bar
    <3>2. Waiting'
      BY <2>2 DEF FInv, vars, Matched, Waiting, Bar
    <3>3. /\ Orders' = Orders /\ Left' = Left
          /\ \A k : TradeOf(k)' = TradeOf(k) /\ Pos(k)' = Pos(k)
      BY <2>2 DEF vars, Orders, Left, Touches, Later, LastBar, TradeOf, LeftAt, StopTouched,
                  EntryPrice, Qty, Sign, Pos, Bar
    <3>4. AllBooked' /\ OpenOrder'
      BY <2>2, <3>3 DEF FInv, vars, Matched, AllBooked, OpenOrder
    <3> QED
      BY <3>1, <3>2, <3>4 DEF FInv, Matched
  <2> QED
    BY <2>1, <2>2
<1>2. Init => FInv
  BY InitIInv, InitMatched DEF FInv
<1> QED
  BY <1>1, <1>2, PTL DEF Spec

\* Bar by bar the engine makes exactly the trades its signals amount to: each is
\* filled at the next open, and left at its first touch of a level or at the open
\* that fills the next one.
THEOREM TradesAreOfTheSignals == Spec => []TradesAreFirstTouch
<1>1. FInv => TradesAreFirstTouch
  <2> SUFFICES ASSUME FInv PROVE TradesAreFirstTouch
    OBVIOUS
  <2>1. TypeOK /\ AllBooked /\ OpenOrder
    BY DEF FInv, IInv, Matched
  <2>2. Orders = Left => position = None
    BY <2>1 DEF OpenOrder
  <2>3. ASSUME Orders # Left
        PROVE  \E k \in Orders : /\ Orders \ Left = {k} /\ position # None
                                 /\ position.entryBar = k + 1
                                 /\ position.entry = EntryPrice(k)
    <3>1. position # None
      BY <2>1, <2>3 DEF OpenOrder
    <3>2. PICK k \in Orders : Orders \ Left = {k} /\ position = Pos(k)
      BY <2>1, <3>1 DEF OpenOrder
    <3>3. Pos(k).entryBar = k + 1 /\ Pos(k).entry = EntryPrice(k)
      BY <2>1, EntryIsFill DEF Pos, Opened
    <3> QED
      BY <3>1, <3>2, <3>3
  <2>4. ASSUME NEW k, Orders \ Left = {k} PROVE (CHOOSE n \in Orders \ Left : TRUE) = k
    BY <2>4
  <2> QED
    BY <2>1, <2>2, <2>3, <2>4 DEF TradesAreFirstTouch, AllBooked
<1> QED
  BY <1>1, TradesMatchOrders, PTL

-----------------------------------------------------------------------------
(* Sums over trades                                                        *)

\* The function that a sum over a finite set of places is read from.
First(s) == CHOOSE n \in s : TRUE

Sums(g, W, trades) ==
  g = [s \in SUBSET W |->
         IF s = {} THEN 0 ELSE trades[First(s)].pnl + g[s \ {First(s)}]]

LEMMA OneLess ==
  ASSUME NEW T, IsFiniteSet(T), NEW x \in T
  PROVE  /\ IsFiniteSet(T \ {x}) /\ Cardinality(T) \in Nat /\ Cardinality(T \ {x}) \in Nat
         /\ Cardinality(T) = Cardinality(T \ {x}) + 1
<1>1. IsFiniteSet(T \ {x}) /\ T = (T \ {x}) \cup {x} /\ x \notin T \ {x}
  BY FS_RemoveElement
<1>2. Cardinality(T \ {x}) \in Nat
  BY <1>1, FS_CardinalityType
<1>3. Cardinality((T \ {x}) \cup {x}) = Cardinality(T \ {x}) + 1
  BY <1>1, FS_AddElement
<1>4. Cardinality(T) = Cardinality((T \ {x}) \cup {x})
  BY <1>1
<1>5. Cardinality(T) = Cardinality(T \ {x}) + 1
  BY <1>3, <1>4
<1> QED
  BY <1>1, <1>2, <1>5

LEMMA FirstOf ==
  ASSUME NEW W, IsFiniteSet(W), NEW s \in SUBSET W, s # {}
  PROVE  /\ First(s) \in s /\ s \ {First(s)} \in SUBSET W
         /\ Cardinality(s) = Cardinality(s \ {First(s)}) + 1
         /\ Cardinality(s) \in Nat /\ Cardinality(s \ {First(s)}) \in Nat
<1>1. First(s) \in s
  BY DEF First
<1>2. IsFiniteSet(s)
  BY FS_Subset
<1> QED
  BY <1>1, <1>2, OneLess

LEMMA SumIsThere ==
  ASSUME NEW W, IsFiniteSet(W), NEW trades
  PROVE  \E g : Sums(g, W, trades)
<1> DEFINE Small(n) == {s \in SUBSET W : Cardinality(s) <= n}
           Partly(g, n) == g = [s \in Small(n) |->
                                  IF s = {} THEN 0
                                  ELSE trades[First(s)].pnl + g[s \ {First(s)}]]
<1>1. PICK bad : bad = {n \in Nat : \A g : ~Partly(g, n)}
  OBVIOUS
<1>2. bad = {}
  <2> SUFFICES ASSUME bad # {} PROVE FALSE
    OBVIOUS
  <2>1. PICK n \in bad : \A m \in bad : n <= m
    BY <1>1, LeastIsThere
  <2>2. n \in Nat /\ \A g : ~Partly(g, n)
    BY <1>1, <2>1
  <2>3. CASE n = 0
    <3>1. PICK g : g = [s \in Small(0) |-> 0]
      OBVIOUS
    <3>2. ASSUME NEW s \in Small(0) PROVE s = {}
      <4>1. s \in SUBSET W /\ Cardinality(s) <= 0
        OBVIOUS
      <4>2. s # {} => /\ Cardinality(s) = Cardinality(s \ {First(s)}) + 1
                      /\ Cardinality(s \ {First(s)}) \in Nat
        BY <4>1, FirstOf
      <4> QED
        BY <4>1, <4>2
    <3>3. Partly(g, 0)
      BY <3>1, <3>2
    <3> QED
      BY <2>2, <2>3, <3>3
  <2>4. CASE n # 0
    <3>1. n - 1 \in Nat /\ n - 1 \notin bad
      BY <2>1, <2>2, <2>4
    <3>2. PICK h : Partly(h, n - 1)
      BY <1>1, <3>1
    <3>3. PICK g : g = [s \in Small(n) |->
                          IF s = {} THEN 0 ELSE trades[First(s)].pnl + h[s \ {First(s)}]]
      OBVIOUS
    <3>4. ASSUME NEW s \in Small(n), s # {}
          PROVE  h[s \ {First(s)}] = g[s \ {First(s)}]
      <4>1. PICK t : t = s \ {First(s)}
        OBVIOUS
      <4>2. t \in Small(n - 1) /\ t \in Small(n)
        BY <2>2, <3>4, <4>1, FirstOf
      <4>3. h[t] = IF t = {} THEN 0 ELSE trades[First(t)].pnl + h[t \ {First(t)}]
        BY <3>2, <4>2
      <4>4. g[t] = IF t = {} THEN 0 ELSE trades[First(t)].pnl + h[t \ {First(t)}]
        BY <3>3, <4>2
      <4> QED
        BY <4>1, <4>3, <4>4
    <3>5. Partly(g, n)
      BY <3>3, <3>4
    <3> QED
      BY <2>2, <3>5
  <2> QED
    BY <2>3, <2>4
<1>3. Cardinality(W) \in Nat
  BY FS_CardinalityType
<1>4. \E g : Partly(g, Cardinality(W))
  <2> HIDE DEF Partly
  <2> QED
    BY <1>1, <1>2, <1>3
<1>5. PICK g : Partly(g, Cardinality(W))
  BY <1>4
<1>6. Small(Cardinality(W)) = SUBSET W
  BY FS_Subset
<1>7. g = [s \in SUBSET W |->
             IF s = {} THEN 0 ELSE trades[First(s)].pnl + g[s \ {First(s)}]]
  BY <1>5, <1>6
<1> QED
  BY <1>7 DEF Sums

LEMMA SumIsRead ==
  ASSUME NEW W, IsFiniteSet(W), NEW trades
  PROVE  \E g : Sums(g, W, trades) /\ SumPnl(trades, W) = g[W]
<1>1. PICK g : g = CHOOSE f : Sums(f, W, trades)
  OBVIOUS
<1>2. Sums(g, W, trades)
  BY <1>1, SumIsThere
<1>3. SumPnl(trades, W) = g[W]
  BY <1>1 DEF SumPnl, MapThenSumSet, MapThenFoldSet, Sums, First
<1> QED
  BY <1>2, <1>3

\* Two lists that agree on some places have the same sums over them.
LEMMA SumsAgree ==
  ASSUME NEW W, IsFiniteSet(W), NEW V, IsFiniteSet(V), NEW a, NEW b, NEW g, NEW h,
         Sums(g, W, a), Sums(h, V, b), V \subseteq W, \A n \in V : a[n].pnl = b[n].pnl
  PROVE  \A s \in SUBSET V : g[s] = h[s]
<1>1. PICK bad : bad = {n \in Nat : \E s \in SUBSET V : Cardinality(s) = n /\ g[s] # h[s]}
  OBVIOUS
<1>2. bad = {}
  <2> SUFFICES ASSUME bad # {} PROVE FALSE
    OBVIOUS
  <2>1. PICK n \in bad : \A m \in bad : n <= m
    BY <1>1, LeastIsThere
  <2>2. PICK s \in SUBSET V : Cardinality(s) = n /\ g[s] # h[s]
    BY <1>1, <2>1
  <2>3. PICK x, t : x = First(s) /\ t = s \ {x}
    OBVIOUS
  <2>4. CASE s = {}
    BY <2>2, <2>4 DEF Sums
  <2>5. CASE s # {}
    <3>1. x \in V /\ t \in SUBSET V /\ n = Cardinality(t) + 1 /\ Cardinality(t) \in Nat
      BY <2>2, <2>3, <2>5, FirstOf
    <3>2. Cardinality(t) \notin bad
      BY <2>1, <3>1
    <3>3. g[t] = h[t]
      BY <1>1, <3>1, <3>2
    <3>4. g[s] = a[x].pnl + g[t] /\ h[s] = b[x].pnl + h[t]
      BY <2>3, <2>5 DEF Sums
    <3> QED
      BY <2>2, <3>1, <3>3, <3>4
  <2> QED
    BY <2>4, <2>5
<1>3. ASSUME NEW s \in SUBSET V PROVE Cardinality(s) \in Nat
  BY FS_Subset, FS_CardinalityType
<1> QED
  BY <1>1, <1>2, <1>3

\* Any place may be taken out of a sum first.
LEMMA SumsTake ==
  ASSUME NEW W, IsFiniteSet(W), NEW trades, NEW g, Sums(g, W, trades),
         \A n \in W : trades[n].pnl \in Int
  PROVE  \A s \in SUBSET W :
           g[s] \in Int /\ \A x \in s : g[s] = g[s \ {x}] + trades[x].pnl
<1> DEFINE Good(s) == g[s] \in Int /\ \A x \in s : g[s] = g[s \ {x}] + trades[x].pnl
<1> HIDE DEF Good
<1>1. PICK bad : bad = {n \in Nat : \E s \in SUBSET W : Cardinality(s) = n /\ ~Good(s)}
  OBVIOUS
<1>2. bad = {}
  <2> SUFFICES ASSUME bad # {} PROVE FALSE
    OBVIOUS
  <2>1. PICK n \in bad : \A m \in bad : n <= m
    BY <1>1, LeastIsThere
  <2>2. PICK s \in SUBSET W : Cardinality(s) = n /\ ~Good(s)
    BY <1>1, <2>1
  <2>3. n \in Nat
    BY <1>1, <2>1
  <2>4. ASSUME NEW t \in SUBSET W, Cardinality(t) \in Nat, Cardinality(t) < n PROVE Good(t)
    <3>1. Cardinality(t) \notin bad
      BY <2>1, <2>3, <2>4
    <3> QED
      BY <1>1, <2>4, <3>1
  <2>5. CASE s = {}
    BY <2>2, <2>5 DEF Sums, Good
  <2>6. CASE s # {}
    <3>1. PICK y, t : y = First(s) /\ t = s \ {y}
      OBVIOUS
    <3>2. /\ y \in s /\ y \in W /\ t \in SUBSET W
          /\ n = Cardinality(t) + 1 /\ Cardinality(t) \in Nat
      BY <2>2, <2>6, <3>1, FirstOf
    <3>3. Good(t)
      BY <2>4, <3>2
    <3>4. g[s] = trades[y].pnl + g[t] /\ g[s] \in Int
      <4>1. g[s] = trades[y].pnl + g[t]
        BY <2>6, <3>1 DEF Sums
      <4>2. g[t] \in Int /\ trades[y].pnl \in Int
        BY <3>2, <3>3 DEF Good
      <4> QED
        BY <4>1, <4>2
    <3>5. ASSUME NEW x \in s PROVE g[s] = g[s \ {x}] + trades[x].pnl
      <4>1. CASE x = y
        BY <3>1, <3>2, <3>3, <3>4, <4>1 DEF Good
      <4>2. CASE x # y
        <5>1. PICK u, v : u = s \ {x} /\ v = t \ {x}
          OBVIOUS
        <5>2. /\ x \in t /\ y \in u /\ v = u \ {y} /\ u \in SUBSET W /\ v \in SUBSET W
          BY <3>1, <3>2, <4>2, <5>1
        <5>3. IsFiniteSet(s)
          BY FS_Subset
        <5>4. Cardinality(u) \in Nat /\ Cardinality(u) < n
          BY <2>2, <5>1, <5>3, OneLess
        <5>5. g[u] = g[v] + trades[y].pnl
          BY <2>4, <5>2, <5>4 DEF Good
        <5>6. g[t] = g[v] + trades[x].pnl
          BY <3>3, <5>1, <5>2 DEF Good
        <5>7. g[u] \in Int /\ trades[x].pnl \in Int /\ trades[y].pnl \in Int
          BY <2>4, <3>2, <5>2, <5>4 DEF Good
        <5>8. g[v] \in Int
          <6>1. Cardinality(v) \in Nat /\ Cardinality(v) < n
            BY <2>3, <5>2, <5>4, OneLess, FS_Subset
          <6> QED
            BY <2>4, <5>2, <6>1 DEF Good
        <5> QED
          BY <3>4, <5>1, <5>5, <5>6, <5>7, <5>8
      <4> QED
        BY <4>1, <4>2
    <3> QED
      BY <2>2, <3>4, <3>5 DEF Good
  <2> QED
    BY <2>5, <2>6
<1>3. ASSUME NEW s \in SUBSET W PROVE Cardinality(s) \in Nat
  BY FS_Subset, FS_CardinalityType
<1>4. \A s \in SUBSET W : Good(s)
  BY <1>1, <1>2, <1>3
<1> QED
  BY <1>4 DEF Good

LEMMA SumAdds ==
  ASSUME NEW S, IsFiniteSet(S), NEW a, NEW b, NEW x, x \notin S, NEW W, W = S \cup {x},
         \A n \in S : a[n].pnl = b[n].pnl /\ b[n].pnl \in Int, b[x].pnl \in Int
  PROVE  /\ SumPnl(a, S) \in Int /\ SumPnl(b, S) = SumPnl(a, S)
         /\ SumPnl(b, W) = SumPnl(a, S) + b[x].pnl
<1>1. W = S \cup {x}
  OBVIOUS
<1>2. IsFiniteSet(W)
  BY <1>1, FS_AddElement
<1>3. PICK g : Sums(g, W, b) /\ SumPnl(b, W) = g[W]
  BY <1>2, SumIsRead
<1>4. PICK h : Sums(h, S, a) /\ SumPnl(a, S) = h[S]
  BY SumIsRead
<1>5. PICK k : Sums(k, S, b) /\ SumPnl(b, S) = k[S]
  BY SumIsRead
<1>6. g[S] = h[S] /\ g[S] = k[S]
  <2>1. S \subseteq W /\ \A n \in S : b[n].pnl = a[n].pnl
    BY <1>1
  <2>2. \A s \in SUBSET S : g[s] = h[s]
    BY <1>2, <1>3, <1>4, <2>1, SumsAgree
  <2>3. \A s \in SUBSET S : g[s] = k[s]
    BY <1>2, <1>3, <1>5, <2>1, SumsAgree
  <2> QED
    BY <2>2, <2>3
<1>7. \A s \in SUBSET W : g[s] \in Int /\ \A y \in s : g[s] = g[s \ {y}] + b[y].pnl
  <2>1. \A n \in W : b[n].pnl \in Int
    BY <1>1
  <2> QED
    BY <1>2, <1>3, <2>1, SumsTake
<1>8. g[W] = g[W \ {x}] + b[x].pnl /\ g[S] \in Int /\ W \ {x} = S
  BY <1>1, <1>7
<1> QED
  BY <1>1, <1>3, <1>4, <1>5, <1>6, <1>8

-----------------------------------------------------------------------------
(* The equity curve                                                        *)

\* The trades left by a bar.
By(s, i) == {n \in DOMAIN s : s[n].exitBar <= i}
Net(s) == GrossProfit(s) - GrossLoss(s)

\* A list with one more trade, and a list with those of a bar, none or one.
Adds(s, t, u) == s \in Seq(Trades) /\ t \in Trades /\ u = s \o <<t>>
Extends(s, Y, u, bar) ==
  /\ s \in Seq(Trades) /\ u = s \o Y
  /\ Y = <<>> \/ \E t \in Trades : Y = <<t>> /\ t.exitBar = bar

LEMMA TradeAppended ==
  ASSUME NEW s, NEW t, NEW u, Adds(s, t, u)
  PROVE  /\ TotalPnl(s) \in Int /\ TotalPnl(u) = TotalPnl(s) + t.pnl
         /\ Net(s) \in Int /\ Net(u) = Net(s) + t.pnl
         /\ \A i \in Int : i < t.exitBar => SumPnl(u, By(u, i)) = SumPnl(s, By(s, i))
<1>1. PICK m \in Nat : m = Len(s)
  BY DEF Adds
<1>2. /\ DOMAIN s = 1 .. m /\ DOMAIN u = 1 .. (m + 1) /\ u[m + 1] = t
      /\ t \in Trades /\ \A n \in 1 .. m : u[n] = s[n] /\ s[n] \in Trades
  BY <1>1 DEF Adds
<1>3. DOMAIN u = DOMAIN s \cup {m + 1} /\ m + 1 \notin DOMAIN s
  BY <1>2
<1>4. t.pnl \in Int /\ t.exitBar \in Int /\ \A n \in DOMAIN s : s[n].pnl \in Int
  BY <1>2 DEF Trades
<1>5. IsFiniteSet(DOMAIN s)
  BY <1>2, FS_Interval
<1>6. ASSUME NEW S \in SUBSET DOMAIN s
      PROVE  /\ SumPnl(s, S) \in Int /\ SumPnl(u, S) = SumPnl(s, S)
             /\ SumPnl(u, S \cup {m + 1}) = SumPnl(s, S) + t.pnl
  <2>1. IsFiniteSet(S) /\ m + 1 \notin S
    BY <1>3, <1>5, FS_Subset
  <2>2. \A n \in S : s[n].pnl = u[n].pnl /\ u[n].pnl \in Int
    BY <1>2, <1>4
  <2>3. PICK x : x = m + 1
    OBVIOUS
  <2>4. x \notin S /\ u[x].pnl \in Int /\ u[x].pnl = t.pnl
    BY <1>2, <1>4, <2>1, <2>3
  <2>5. PICK W : W = S \cup {x}
    OBVIOUS
  <2>6. /\ SumPnl(s, S) \in Int /\ SumPnl(u, S) = SumPnl(s, S)
        /\ SumPnl(u, W) = SumPnl(s, S) + u[x].pnl
    BY <2>1, <2>2, <2>4, <2>5, SumAdds
  <2> QED
    BY <2>3, <2>4, <2>5, <2>6
<1>7. TotalPnl(s) \in Int /\ TotalPnl(u) = TotalPnl(s) + t.pnl
  BY <1>3, <1>6 DEF TotalPnl
<1>8. Net(s) \in Int /\ Net(u) = Net(s) + t.pnl
  <2>1. PICK won, lost : /\ won = {n \in DOMAIN s : s[n].pnl > 0}
                         /\ lost = {n \in DOMAIN s : s[n].pnl < 0}
    OBVIOUS
  <2>2. /\ SumPnl(s, won) \in Int /\ SumPnl(s, lost) \in Int
        /\ SumPnl(u, won) = SumPnl(s, won) /\ SumPnl(u, lost) = SumPnl(s, lost)
        /\ SumPnl(u, won \cup {m + 1}) = SumPnl(s, won) + t.pnl
        /\ SumPnl(u, lost \cup {m + 1}) = SumPnl(s, lost) + t.pnl
    BY <1>6, <2>1
  <2>3. /\ {n \in DOMAIN u : u[n].pnl > 0} = IF t.pnl > 0 THEN won \cup {m + 1} ELSE won
        /\ {n \in DOMAIN u : u[n].pnl < 0} = IF t.pnl < 0 THEN lost \cup {m + 1} ELSE lost
    BY <1>2, <1>3, <2>1
  <2>4. Net(s) = SumPnl(s, won) + SumPnl(s, lost)
    BY <2>1, <2>2 DEF Net, GrossProfit, GrossLoss
  <2>5. Net(u) = (IF t.pnl > 0 THEN SumPnl(s, won) + t.pnl ELSE SumPnl(s, won))
                   + (IF t.pnl < 0 THEN SumPnl(s, lost) + t.pnl ELSE SumPnl(s, lost))
    <3>1. GrossProfit(u) = IF t.pnl > 0 THEN SumPnl(s, won) + t.pnl ELSE SumPnl(s, won)
      BY <2>2, <2>3 DEF GrossProfit
    <3>2. GrossLoss(u) = -(IF t.pnl < 0 THEN SumPnl(s, lost) + t.pnl ELSE SumPnl(s, lost))
      BY <2>2, <2>3 DEF GrossLoss
    <3> QED
      BY <1>4, <2>2, <3>1, <3>2 DEF Net
  <2> QED
    BY <1>4, <2>2, <2>4, <2>5
<1>9. ASSUME NEW i \in Int, i < t.exitBar PROVE SumPnl(u, By(u, i)) = SumPnl(s, By(s, i))
  <2>1. By(u, i) = By(s, i) /\ By(s, i) \in SUBSET DOMAIN s
    BY <1>2, <1>3, <1>4, <1>9 DEF By
  <2> QED
    BY <1>6, <2>1
<1> QED
  BY <1>7, <1>8, <1>9

Grows(a, b, pnl, bar) ==
  /\ b \in Seq(Trades) /\ pnl \in Int
  /\ TotalPnl(b) = TotalPnl(a) + pnl /\ Net(b) = Net(a) + pnl
  /\ TotalPnl(a) \in Int /\ Net(a) \in Int
  /\ \A i \in Int : i < bar => SumPnl(b, By(b, i)) = SumPnl(a, By(a, i))

LEMMA SumsAreNumbers ==
  ASSUME NEW a \in Seq(Trades) PROVE TotalPnl(a) \in Int /\ Net(a) \in Int
<1>1. IsFiniteSet(DOMAIN a)
  BY FS_Interval
<1>2. ASSUME NEW n \in DOMAIN a PROVE a[n].pnl \in Int
  <2>1. a[n] \in Trades
    OBVIOUS
  <2> QED
    BY <2>1 DEF Trades
<1>3. ASSUME NEW S \in SUBSET DOMAIN a PROVE SumPnl(a, S) \in Int
  <2>1. IsFiniteSet(S)
    BY <1>1, FS_Subset
  <2>2. PICK g : Sums(g, S, a) /\ SumPnl(a, S) = g[S]
    BY <2>1, SumIsRead
  <2> QED
    BY <1>2, <2>1, <2>2, SumsTake
<1>4. PICK won, lost \in SUBSET DOMAIN a :
        /\ won = {n \in DOMAIN a : a[n].pnl > 0}
        /\ lost = {n \in DOMAIN a : a[n].pnl < 0}
  OBVIOUS
<1>5. GrossProfit(a) = SumPnl(a, won) /\ GrossLoss(a) = -SumPnl(a, lost)
  BY <1>4 DEF GrossProfit, GrossLoss
<1> QED
  BY <1>3, <1>5 DEF TotalPnl, Net

LEMMA BarAppended ==
  ASSUME NEW a, NEW Y, NEW b, NEW bar \in Int, Extends(a, Y, b, bar)
  PROVE  Grows(a, b, IF Y = <<>> THEN 0 ELSE Y[1].pnl, bar)
<1>1. CASE Y = <<>>
  <2>1. b = a /\ a \in Seq(Trades)
    BY <1>1 DEF Extends
  <2>2. TotalPnl(a) \in Int /\ Net(a) \in Int
    BY <2>1, SumsAreNumbers
  <2> QED
    BY <1>1, <2>1, <2>2 DEF Grows
<1>2. CASE Y # <<>>
  <2>1. PICK t \in Trades : Y = <<t>> /\ t.exitBar = bar
    BY <1>2 DEF Extends
  <2>2. Adds(a, t, b) /\ b \in Seq(Trades) /\ Y[1] = t
    BY <2>1 DEF Extends, Adds
  <2>3. t.pnl \in Int
    BY DEF Trades
  <2>4. /\ TotalPnl(a) \in Int /\ TotalPnl(b) = TotalPnl(a) + t.pnl
        /\ Net(a) \in Int /\ Net(b) = Net(a) + t.pnl
        /\ \A i \in Int : i < t.exitBar => SumPnl(b, By(b, i)) = SumPnl(a, By(a, i))
    BY <2>2, TradeAppended
  <2> QED
    BY <1>2, <2>1, <2>2, <2>3, <2>4 DEF Grows
<1> QED
  BY <1>1, <1>2

\* A bar's trades, none or one of each, after the ones before it.
LEMMA TradesAppended ==
  ASSUME NEW s, NEW bar \in Int, NEW R, NEW X, NEW a, NEW u,
         Extends(s, R, a, bar), Extends(a, X, u, bar)
  PROVE  /\ TotalPnl(s) \in Int /\ TotalPnl(u) = TotalPnl(s) + Booked(R, X)
         /\ Net(s) \in Int /\ Net(u) = Net(s) + Booked(R, X)
         /\ \A i \in Int : i < bar => SumPnl(u, By(u, i)) = SumPnl(s, By(s, i))
<1>1. PICK r, x : /\ r = IF R = <<>> THEN 0 ELSE R[1].pnl
                  /\ x = IF X = <<>> THEN 0 ELSE X[1].pnl
  OBVIOUS
<1>2. Grows(s, a, r, bar) /\ Grows(a, u, x, bar)
  BY <1>1, BarAppended
<1>3. Booked(R, X) = r + x
  BY <1>1 DEF Booked
<1>4. \A i \in Int : i < bar => SumPnl(u, By(u, i)) = SumPnl(s, By(s, i))
  BY <1>2 DEF Grows
<1> QED
  BY <1>2, <1>3, <1>4 DEF Grows

LEMMA WalkSums ==
  ASSUME IInv, EquityTellsTrades, Bar < NumBars,
         NEW row \in Rows, NEW signal \in Signals \cup {None}, Walk(row, signal)
  PROVE  EquityTellsTrades'
<1>1. PICK bar : bar = Bar + 1
  OBVIOUS
<1>2. PICK R, H, X : R = Reverses(row, bar) /\ H = Held(row, bar) /\ X = Exits(H, row, bar)
  OBVIOUS
<1>3. /\ Bar \in Nat /\ bar \in 1 .. NumBars /\ bar \in Int /\ Bar' = bar
  <2>1. Bar \in Nat
    BY DEF IInv, TypeOK, Bar
  <2>4. bar \in 1 .. NumBars /\ bar \in Int
    BY <1>1, <2>1, BarsAssumption
  <2>2. rows \in Seq(Rows) /\ rows' = Append(rows, row)
    BY DEF IInv, TypeOK, Walk
  <2>3. Bar' = Bar + 1
    BY <2>2 DEF Bar
  <2> QED
    BY <1>1, <2>1, <2>3, <2>4
<1>4. /\ closed \in Seq(Trades) /\ position \in Positions \cup {None}
      /\ pending \in Pendings \cup {None} /\ realized \in Int
      /\ equity \in Seq(Int) /\ Len(equity) = Bar
  BY DEF IInv, TypeOK, Bar
<1>5. /\ closed' = closed \o R \o X /\ realized' = realized + Booked(R, X)
      /\ equity' = Append(equity, realized')
  BY <1>1, <1>2 DEF Walk
<1>15. PICK a, u : a = closed \o R /\ u = a \o X
  OBVIOUS
<1>6. R = <<>> \/ \E t \in Trades : R = <<t>> /\ t.exitBar = bar
  BY <1>2, <1>3, <1>4, ReversesFacts
<1>7. X = <<>> \/ \E t \in Trades : X = <<t>> /\ t.exitBar = bar
  BY <1>2, <1>3, <1>4, HeldFacts, ExitsFacts
<1>8. /\ TotalPnl(closed') = TotalPnl(closed) + Booked(R, X)
      /\ Net(closed') = Net(closed) + Booked(R, X)
      /\ \A i \in Int : i < bar => SumPnl(closed', By(closed', i)) = SumPnl(closed, By(closed, i))
  <2>1. Extends(closed, R, a, bar)
    BY <1>4, <1>6, <1>15 DEF Extends
  <2>2. a \in Seq(Trades)
    BY <1>3, <2>1, BarAppended DEF Grows
  <2>3. Extends(a, X, u, bar)
    BY <1>7, <1>15, <2>2 DEF Extends
  <2>4. u = closed'
    BY <1>5, <1>15
  <2> QED
    BY <1>3, <2>1, <2>3, <2>4, TradesAppended
<1>9. /\ realized = TotalPnl(closed) /\ realized = Net(closed)
      /\ \A i \in 1 .. Bar : equity[i] = SumPnl(closed, By(closed, i))
  BY DEF EquityTellsTrades, Net, By
<1>10. realized' = TotalPnl(closed') /\ realized' = Net(closed')
  BY <1>5, <1>8, <1>9
<1>11. closed' \in Seq(Trades) /\ TradesInSequence'
  BY WalkSequence
<1>12. By(closed', bar) = DOMAIN closed'
  <2>1. \A n \in DOMAIN closed' : closed'[n].exitBar <= bar
    BY <1>3, <1>11 DEF TradesInSequence, InSequence
  <2> QED
    BY <2>1 DEF By
<1>13. equity'[bar] = realized' /\ \A i \in 1 .. Bar : equity'[i] = equity[i]
  BY <1>1, <1>3, <1>4, <1>5
<1>14. ASSUME NEW i \in 1 .. bar PROVE equity'[i] = SumPnl(closed', By(closed', i))
  <2>1. CASE i = bar
    BY <1>10, <1>12, <1>13, <2>1 DEF TotalPnl
  <2>2. CASE i # bar
    <3>1. i \in 1 .. Bar /\ i \in Int /\ i < bar
      BY <1>1, <1>3, <2>2
    <3> QED
      BY <1>8, <1>9, <1>13, <3>1
  <2> QED
    BY <2>1, <2>2
<1> QED
  BY <1>3, <1>10, <1>14 DEF EquityTellsTrades, Net, By

LEMMA NoTradesNoSum == SumPnl(<<>>, {}) = 0
<1>1. IsFiniteSet({})
  BY FS_EmptySet
<1>2. PICK g : Sums(g, {}, <<>>) /\ SumPnl(<<>>, {}) = g[{}]
  BY <1>1, SumIsRead
<1> QED
  BY <1>2 DEF Sums

\* The curve, kept as the walk goes, is at each bar the sum of the trades left by
\* then, and its end the summary's total and the gross profit less the gross loss.
THEOREM BooksAgree == Spec => []EquityTellsTrades
<1>1. Init => EquityTellsTrades
  <2> SUFFICES ASSUME Init PROVE EquityTellsTrades
    OBVIOUS
  <2>1. closed = <<>> /\ realized = 0 /\ Bar = 0
    BY DEF Init, Bar
  <2>2. DOMAIN closed = {}
    BY <2>1
  <2>3. TotalPnl(closed) = 0
    BY <2>1, <2>2, NoTradesNoSum DEF TotalPnl
  <2>4. /\ {n \in DOMAIN closed : closed[n].pnl > 0} = {}
        /\ {n \in DOMAIN closed : closed[n].pnl < 0} = {}
    BY <2>2
  <2>5. GrossProfit(closed) = 0 /\ GrossLoss(closed) = 0
    BY <2>1, <2>4, NoTradesNoSum DEF GrossProfit, GrossLoss
  <2> QED
    BY <2>1, <2>3, <2>5 DEF EquityTellsTrades
<1>2. IInv /\ EquityTellsTrades /\ [Next]_vars => EquityTellsTrades'
  <2> SUFFICES ASSUME IInv, EquityTellsTrades, [Next]_vars PROVE EquityTellsTrades'
    OBVIOUS
  <2>1. CASE Next
    BY <2>1, WalkSums DEF Next
  <2>2. CASE UNCHANGED vars
    BY <2>2 DEF vars, EquityTellsTrades, Bar
  <2> QED
    BY <2>1, <2>2
<1> QED
  BY <1>1, <1>2, InductiveInvariant, PTL DEF Spec

-----------------------------------------------------------------------------
(* Places of a list                                                        *)

\* Induction along the places of a list.
LEMMA UpTo ==
  ASSUME NEW n \in Nat, NEW P, 0 \in P, \A k \in 1 .. n : k - 1 \in P => k \in P
  PROVE  \A k \in 0 .. n : k \in P
<1>1. PICK bad : bad = {k \in Nat : k <= n /\ k \notin P}
  OBVIOUS
<1>2. bad = {}
  <2> SUFFICES ASSUME bad # {} PROVE FALSE
    OBVIOUS
  <2>1. PICK k \in bad : \A m \in bad : k <= m
    BY <1>1, LeastIsThere
  <2>2. k \in 1 .. n /\ k - 1 \in Nat /\ k - 1 \notin bad /\ k - 1 <= n
    BY <1>1, <2>1
  <2> QED
    BY <1>1, <2>1, <2>2
<1>3. ASSUME NEW k \in 0 .. n PROVE k \in P
  <2>1. k \in Nat /\ k <= n /\ k \notin bad
    BY <1>2
  <2> QED
    BY <1>1, <2>1
<1> QED
  BY <1>3

\* The largest of a set of numbers: the member none exceeds, and, of places, there.
LEMMA MaxIs ==
  ASSUME NEW S \in SUBSET Int, NEW m \in S, \A x \in S : x <= m
  PROVE  Max(S) = m
<1>1. m \in S /\ \A x \in S : m >= x
  OBVIOUS
<1>2. Max(S) \in S /\ \A x \in S : Max(S) >= x
  BY <1>1 DEF Max
<1>3. PICK x : x = Max(S)
  OBVIOUS
<1>4. x \in Int /\ m \in Int /\ x >= m /\ m >= x
  BY <1>1, <1>2, <1>3
<1> QED
  BY <1>3, <1>4

LEMMA MaxIn ==
  ASSUME NEW n \in Nat, NEW S \in SUBSET (1 .. n), S # {}
  PROVE  Max(S) \in S /\ \A x \in S : x <= Max(S)
<1>1. PICK D : D = {k \in Nat : n - k \in S}
  OBVIOUS
<1>2. PICK s \in S : TRUE
  OBVIOUS
<1>3. n - s \in D
  BY <1>1, <1>2
<1>4. PICK d \in D : \A k \in D : d <= k
  BY <1>1, <1>3, LeastIsThere
<1>5. PICK m : m = n - d
  OBVIOUS
<1>6. m \in S
  BY <1>1, <1>4, <1>5
<1>7. ASSUME NEW x \in S PROVE x <= m
  <2>1. n - x \in D
    BY <1>1
  <2>2. d \in Nat /\ d <= n - x
    BY <1>1, <1>4, <2>1
  <2> QED
    BY <1>5, <2>2
<1>8. Max(S) = m
  BY <1>6, <1>7, MaxIs
<1> QED
  BY <1>6, <1>7, <1>8

-----------------------------------------------------------------------------
(* Folds over lists                                                        *)

\* The function that a fold over a list of n is read from, G its step at a place.
FoldOf(it, n, base, G) ==
  it = [s \in SUBSET (1 .. n) |->
          IF s = {} THEN base ELSE G[<<Max(s), it[s \ {Max(s)}]>>]]

\* A fold takes the last place away and leaves the ones before it.
LEMMA WithoutMax ==
  ASSUME NEW m \in Nat, NEW s \in SUBSET (1 .. m), s # {}
  PROVE  /\ Max(s) \in 1 .. m /\ s \ {Max(s)} \in SUBSET (1 .. m)
         /\ s \ {Max(s)} \in SUBSET (1 .. (m - 1))
<1>1. Max(s) \in s /\ \A x \in s : x <= Max(s)
  BY MaxIn
<1>2. PICK x : x = Max(s)
  OBVIOUS
<1>3. ASSUME NEW y \in s \ {x} PROVE y \in 1 .. (m - 1)
  <2>1. y <= x /\ y # x /\ x \in 1 .. m /\ y \in 1 .. m
    BY <1>1, <1>2
  <2> QED
    BY <2>1
<1> QED
  BY <1>1, <1>2, <1>3

\* Such a function exists for any typed step, by induction on the length.
LEMMA FoldIsThere ==
  ASSUME NEW n \in Nat, NEW A, NEW base \in A, NEW G \in [(1 .. n) \X A -> A]
  PROVE  \E it \in [SUBSET (1 .. n) -> A] : FoldOf(it, n, base, G)
<1>1. PICK P : P = {m \in Nat : \E it \in [SUBSET (1 .. m) -> A] : FoldOf(it, m, base, G)}
  OBVIOUS
<1>2. 0 \in P
  <2>1. PICK it : it = [s \in SUBSET (1 .. 0) |-> base]
    OBVIOUS
  <2>2. \A s \in SUBSET (1 .. 0) : s = {}
    OBVIOUS
  <2>3. FoldOf(it, 0, base, G)
    BY <2>1, <2>2 DEF FoldOf
  <2> QED
    BY <1>1, <2>1, <2>3
<1>3. ASSUME NEW m \in 1 .. n, m - 1 \in P PROVE m \in P
  <2>1. PICK h \in [SUBSET (1 .. (m - 1)) -> A] : FoldOf(h, m - 1, base, G)
    BY <1>1, <1>3
  <2>2. PICK it : it = [s \in SUBSET (1 .. m) |->
                          IF s = {} THEN base ELSE G[<<Max(s), h[s \ {Max(s)}]>>]]
    OBVIOUS
  <2>3. ASSUME NEW s \in SUBSET (1 .. m), s # {}
        PROVE  /\ it[s \ {Max(s)}] = h[s \ {Max(s)}] /\ h[s \ {Max(s)}] \in A
               /\ Max(s) \in 1 .. n
    <3>1. PICK t : t = s \ {Max(s)}
      OBVIOUS
    <3>2. Max(s) \in 1 .. m /\ t \in SUBSET (1 .. m) /\ t \in SUBSET (1 .. (m - 1))
      BY <2>3, <3>1, WithoutMax
    <3>3. h[t] = IF t = {} THEN base ELSE G[<<Max(t), h[t \ {Max(t)}]>>]
      BY <2>1, <3>2 DEF FoldOf
    <3>4. it[t] = IF t = {} THEN base ELSE G[<<Max(t), h[t \ {Max(t)}]>>]
      BY <2>2, <3>2
    <3> QED
      BY <3>1, <3>2, <3>3, <3>4
  <2>4. FoldOf(it, m, base, G)
    BY <2>2, <2>3 DEF FoldOf
  <2>5. it \in [SUBSET (1 .. m) -> A]
    BY <2>2, <2>3
  <2> QED
    BY <1>1, <2>4, <2>5
<1>4. \A k \in 0 .. n : k \in P
  BY <1>2, <1>3, UpTo
<1>5. n \in P
  BY <1>4
<1> QED
  BY <1>1, <1>5

\* The places of a list are taken one by one.
LEMMA LastOf ==
  ASSUME NEW n \in Nat, NEW k \in 1 .. n
  PROVE  /\ 1 .. k \in SUBSET (1 .. n) /\ 1 .. k # {} /\ Max(1 .. k) = k
         /\ (1 .. k) \ {k} = 1 .. (k - 1)
<1>1. k \in 1 .. k /\ 1 .. k \in SUBSET Int /\ \A x \in 1 .. k : x <= k
  OBVIOUS
<1>2. Max(1 .. k) = k
  BY <1>1, MaxIs
<1> QED
  BY <1>1, <1>2

\* The accumulator keeps its type.
LEMMA StaysIn ==
  ASSUME NEW n \in Nat, NEW A, NEW acc, acc = [k \in 0 .. n |-> acc[k]], acc[0] \in A,
         \A k \in 1 .. n : acc[k - 1] \in A => acc[k] \in A
  PROVE  acc \in [0 .. n -> A]
<1>1. PICK P : P = {k \in Nat : acc[k] \in A}
  OBVIOUS
<1>2. \A k \in 0 .. n : k \in P
  <2>1. 0 \in P /\ \A k \in 1 .. n : k - 1 \in P => k \in P
    BY <1>1
  <2> QED
    BY <2>1, UpTo
<1> QED
  BY <1>1, <1>2

-----------------------------------------------------------------------------
(* The metrics' scans, step by step                                        *)
(*                                                                         *)
(* Each fold of BacktestMetrics is a sequence of accumulators, one per     *)
(* place: the first is the base, each next one the step of the one before. *)
(* A lemma per metric reads that off its fold; FoldLeft takes its step as  *)
(* an operator, so no lemma can say it of all of them at once.             *)

Fractions == [part : Int, base : Int]

\* max_drawdown
Peaks == [peak : Int, fall : Int, share : Fractions]
Deepens(acc, v) ==
  /\ acc[0] = [peak |-> v[1], fall |-> 0, share |-> ShareOfPeak(0, v[1])]
  /\ \A k \in 1 .. Len(v) : acc[k] = Deepest(acc[k - 1], v[k])

LEMMA DeepestScan ==
  ASSUME NEW v \in Seq(Int), v # <<>>
  PROVE  \E acc \in [0 .. Len(v) -> Peaks] :
           Deepens(acc, v) /\ MaxDrawdown(v) = acc[Len(v)]
<1>1. PICK n \in Nat : /\ n = Len(v) /\ DOMAIN v = 1 .. n /\ 1 <= n
                     /\ \A k \in 1 .. n : v[k] \in Int
  OBVIOUS
<1>2. PICK base : base = [peak |-> v[1], fall |-> 0, share |-> ShareOfPeak(0, v[1])]
  OBVIOUS
<1>3. base \in Peaks
  BY <1>1, <1>2 DEF Peaks, Fractions, Deepest, Higher, ShareOfPeak, Share
<1>4. ASSUME NEW a \in Peaks, NEW x \in Int PROVE Deepest(a, x) \in Peaks
  <2>1. PICK h \in Int : h = Higher(a.peak, x)
    BY DEF Higher, Peaks
  <2>2. ShareOfPeak(h - x, h) \in Fractions /\ h - x \in Int
    BY DEF ShareOfPeak, Share, Fractions
  <2>3. Deepest(a, x) = IF h - x > a.fall
                          THEN [peak |-> h, fall |-> h - x, share |-> ShareOfPeak(h - x, h)]
                          ELSE [a EXCEPT !.peak = h]
    BY <2>1 DEF Deepest
  <2>4. CASE h - x > a.fall
    BY <2>2, <2>3, <2>4 DEF Peaks
  <2>5. CASE ~(h - x > a.fall)
    BY <2>3, <2>5 DEF Peaks
  <2> QED
    BY <2>4, <2>5
<1>5. PICK G : G = [p \in (1 .. n) \X Peaks |-> Deepest(p[2], v[p[1]])]
  OBVIOUS
<1>6. /\ G \in [(1 .. n) \X Peaks -> Peaks]
      /\ \A k \in 1 .. n, a \in Peaks : G[<<k, a>>] = Deepest(a, v[k])
  BY <1>1, <1>4, <1>5
<1>7. PICK h \in [SUBSET (1 .. n) -> Peaks] : FoldOf(h, n, base, G)
  BY <1>3, <1>6, FoldIsThere
<1>8. h = [s \in SUBSET (1 .. n) |->
             IF s = {} THEN base ELSE Deepest(h[s \ {Max(s)}], v[Max(s)])]
  BY <1>6, <1>7, WithoutMax DEF FoldOf
<1>9. PICK it : it = CHOOSE g : g = [s \in SUBSET (1 .. n) |->
             IF s = {} THEN base ELSE Deepest(g[s \ {Max(s)}], v[Max(s)])]
  OBVIOUS
<1>10. it = [s \in SUBSET (1 .. n) |->
             IF s = {} THEN base ELSE Deepest(it[s \ {Max(s)}], v[Max(s)])]
  BY <1>8, <1>9
<1>11. MaxDrawdown(v) = it[1 .. n]
  BY <1>1, <1>2, <1>9 DEF MaxDrawdown, FoldLeft, MapThenFoldSet
<1>12. PICK acc : acc = [k \in 0 .. n |-> it[1 .. k]]
  OBVIOUS
<1>13. acc[0] = base /\ acc = [k \in 0 .. n |-> acc[k]]
  BY <1>10, <1>12
<1>14. ASSUME NEW k \in 1 .. n PROVE acc[k] = Deepest(acc[k - 1], v[k])
  <2>1. acc[k] = it[1 .. k] /\ acc[k - 1] = it[1 .. (k - 1)]
    BY <1>12
  <2>2. it[1 .. k] = Deepest(it[(1 .. k) \ {k}], v[k])
    BY <1>10, LastOf
  <2> QED
    BY <2>1, <2>2, LastOf
<1>15. \A k \in 1 .. n : acc[k - 1] \in Peaks => acc[k] \in Peaks
  BY <1>1, <1>4, <1>14
<1>16. acc \in [0 .. n -> Peaks]
  BY <1>3, <1>13, <1>15, StaysIn
<1>17. Deepens(acc, v)
  BY <1>1, <1>2, <1>13, <1>14 DEF Deepens
<1>18. n \in 0 .. n /\ acc[n] = it[1 .. n]
  BY <1>12
<1> QED
  BY <1>1, <1>11, <1>16, <1>17, <1>18

\* drawdown_series
Curves == [peak : Int, out : Seq(Fractions)]
Draws(acc, v) ==
  /\ acc[0] = [peak |-> v[1], out |-> <<>>]
  /\ \A k \in 1 .. Len(v) : acc[k] = Falls(acc[k - 1], v[k])

LEMMA CurveScan ==
  ASSUME NEW v \in Seq(Int), v # <<>>
  PROVE  \E acc \in [0 .. Len(v) -> Curves] :
           Draws(acc, v) /\ DrawdownSeries(v) = acc[Len(v)].out
<1>1. PICK n \in Nat : /\ n = Len(v) /\ DOMAIN v = 1 .. n /\ 1 <= n
                     /\ \A k \in 1 .. n : v[k] \in Int
  OBVIOUS
<1>2. PICK base : base = [peak |-> v[1], out |-> <<>>]
  OBVIOUS
<1>3. base \in Curves
  BY <1>1, <1>2 DEF Curves, Fractions, Falls, Higher, ShareOfPeak, Share
<1>4. ASSUME NEW a \in Curves, NEW x \in Int PROVE Falls(a, x) \in Curves
  BY DEF Curves, Fractions, Falls, Higher, ShareOfPeak, Share
<1>5. PICK G : G = [p \in (1 .. n) \X Curves |-> Falls(p[2], v[p[1]])]
  OBVIOUS
<1>6. /\ G \in [(1 .. n) \X Curves -> Curves]
      /\ \A k \in 1 .. n, a \in Curves : G[<<k, a>>] = Falls(a, v[k])
  BY <1>1, <1>4, <1>5
<1>7. PICK h \in [SUBSET (1 .. n) -> Curves] : FoldOf(h, n, base, G)
  BY <1>3, <1>6, FoldIsThere
<1>8. h = [s \in SUBSET (1 .. n) |->
             IF s = {} THEN base ELSE Falls(h[s \ {Max(s)}], v[Max(s)])]
  BY <1>6, <1>7, WithoutMax DEF FoldOf
<1>9. PICK it : it = CHOOSE g : g = [s \in SUBSET (1 .. n) |->
             IF s = {} THEN base ELSE Falls(g[s \ {Max(s)}], v[Max(s)])]
  OBVIOUS
<1>10. it = [s \in SUBSET (1 .. n) |->
             IF s = {} THEN base ELSE Falls(it[s \ {Max(s)}], v[Max(s)])]
  BY <1>8, <1>9
<1>11. DrawdownSeries(v) = it[1 .. n].out
  BY <1>1, <1>2, <1>9 DEF DrawdownSeries, FoldLeft, MapThenFoldSet
<1>12. PICK acc : acc = [k \in 0 .. n |-> it[1 .. k]]
  OBVIOUS
<1>13. acc[0] = base /\ acc = [k \in 0 .. n |-> acc[k]]
  BY <1>10, <1>12
<1>14. ASSUME NEW k \in 1 .. n PROVE acc[k] = Falls(acc[k - 1], v[k])
  <2>1. acc[k] = it[1 .. k] /\ acc[k - 1] = it[1 .. (k - 1)]
    BY <1>12
  <2>2. it[1 .. k] = Falls(it[(1 .. k) \ {k}], v[k])
    BY <1>10, LastOf
  <2> QED
    BY <2>1, <2>2, LastOf
<1>15. \A k \in 1 .. n : acc[k - 1] \in Curves => acc[k] \in Curves
  BY <1>1, <1>4, <1>14
<1>16. acc \in [0 .. n -> Curves]
  BY <1>3, <1>13, <1>15, StaysIn
<1>17. Draws(acc, v)
  BY <1>1, <1>2, <1>13, <1>14 DEF Draws
<1>18. n \in 0 .. n /\ acc[n] = it[1 .. n]
  BY <1>12
<1> QED
  BY <1>1, <1>11, <1>16, <1>17, <1>18

\* longest_drawdown_bars
Belows == [peak : Int, longest : Nat, current : Nat]

LEMMA BelowStep ==
  ASSUME NEW a \in Belows, NEW x \in Int
  PROVE  /\ BelowPeak(a, x) \in Belows /\ BelowPeak(a, x).peak = Higher(a.peak, x)
         /\ x < a.peak =>
              /\ BelowPeak(a, x).current = a.current + 1
              /\ BelowPeak(a, x).longest =
                   IF a.current + 1 > a.longest THEN a.current + 1 ELSE a.longest
         /\ ~(x < a.peak) =>
              BelowPeak(a, x).current = 0 /\ BelowPeak(a, x).longest = a.longest
<1>1. PICK s : s = Streak(a, x < a.peak)
  OBVIOUS
<1>2. BelowPeak(a, x) = [s EXCEPT !.peak = Higher(s.peak, x)]
  BY <1>1 DEF BelowPeak
<1>3. CASE x < a.peak
  <2>1. PICK m : m = IF a.current + 1 > a.longest THEN a.current + 1 ELSE a.longest
    OBVIOUS
  <2>2. s = [a EXCEPT !.current = a.current + 1, !.longest = m]
    BY <1>1, <1>3, <2>1 DEF Streak
  <2>3. m \in Nat /\ a.current + 1 \in Nat
    BY <2>1 DEF Belows
  <2>4. /\ s \in Belows /\ s.peak = a.peak /\ s.current = a.current + 1 /\ s.longest = m
    BY <2>2, <2>3 DEF Belows
  <2> QED
    BY <1>2, <1>3, <2>4, <2>1 DEF Belows, Higher
<1>4. CASE ~(x < a.peak)
  <2>1. s = [a EXCEPT !.current = 0]
    BY <1>1, <1>4 DEF Streak
  <2>2. s \in Belows /\ s.peak = a.peak /\ s.current = 0 /\ s.longest = a.longest
    BY <2>1 DEF Belows
  <2> QED
    BY <1>2, <1>4, <2>2 DEF Belows, Higher
<1> QED
  BY <1>3, <1>4

CountsBelow(acc, v) ==
  /\ acc[0] = [peak |-> v[1], longest |-> 0, current |-> 0]
  /\ \A k \in 1 .. Len(v) : acc[k] = BelowPeak(acc[k - 1], v[k])

LEMMA BelowScan ==
  ASSUME NEW v \in Seq(Int), v # <<>>
  PROVE  \E acc \in [0 .. Len(v) -> Belows] :
           CountsBelow(acc, v) /\ LongestDrawdown(v) = acc[Len(v)].longest
<1>1. PICK n \in Nat : /\ n = Len(v) /\ DOMAIN v = 1 .. n /\ 1 <= n
                     /\ \A k \in 1 .. n : v[k] \in Int
  OBVIOUS
<1>2. PICK base : base = [peak |-> v[1], longest |-> 0, current |-> 0]
  OBVIOUS
<1>3. base \in Belows
  BY <1>1, <1>2 DEF Belows
<1>4. ASSUME NEW a \in Belows, NEW x \in Int PROVE BelowPeak(a, x) \in Belows
  BY BelowStep
<1>5. PICK G : G = [p \in (1 .. n) \X Belows |-> BelowPeak(p[2], v[p[1]])]
  OBVIOUS
<1>6. /\ G \in [(1 .. n) \X Belows -> Belows]
      /\ \A k \in 1 .. n, a \in Belows : G[<<k, a>>] = BelowPeak(a, v[k])
  BY <1>1, <1>4, <1>5
<1>7. PICK h \in [SUBSET (1 .. n) -> Belows] : FoldOf(h, n, base, G)
  BY <1>3, <1>6, FoldIsThere
<1>8. h = [s \in SUBSET (1 .. n) |->
             IF s = {} THEN base ELSE BelowPeak(h[s \ {Max(s)}], v[Max(s)])]
  BY <1>6, <1>7, WithoutMax DEF FoldOf
<1>9. PICK it : it = CHOOSE g : g = [s \in SUBSET (1 .. n) |->
             IF s = {} THEN base ELSE BelowPeak(g[s \ {Max(s)}], v[Max(s)])]
  OBVIOUS
<1>10. it = [s \in SUBSET (1 .. n) |->
             IF s = {} THEN base ELSE BelowPeak(it[s \ {Max(s)}], v[Max(s)])]
  BY <1>8, <1>9
<1>11. LongestDrawdown(v) = it[1 .. n].longest
  BY <1>1, <1>2, <1>9 DEF LongestDrawdown, FoldLeft, MapThenFoldSet
<1>12. PICK acc : acc = [k \in 0 .. n |-> it[1 .. k]]
  OBVIOUS
<1>13. acc[0] = base /\ acc = [k \in 0 .. n |-> acc[k]]
  BY <1>10, <1>12
<1>14. ASSUME NEW k \in 1 .. n PROVE acc[k] = BelowPeak(acc[k - 1], v[k])
  <2>1. acc[k] = it[1 .. k] /\ acc[k - 1] = it[1 .. (k - 1)]
    BY <1>12
  <2>2. it[1 .. k] = BelowPeak(it[(1 .. k) \ {k}], v[k])
    BY <1>10, LastOf
  <2> QED
    BY <2>1, <2>2, LastOf
<1>15. \A k \in 1 .. n : acc[k - 1] \in Belows => acc[k] \in Belows
  BY <1>1, <1>4, <1>14
<1>16. acc \in [0 .. n -> Belows]
  BY <1>3, <1>13, <1>15, StaysIn
<1>17. CountsBelow(acc, v)
  BY <1>1, <1>2, <1>13, <1>14 DEF CountsBelow
<1>18. n \in 0 .. n /\ acc[n] = it[1 .. n]
  BY <1>12
<1> QED
  BY <1>1, <1>11, <1>16, <1>17, <1>18

\* max_consecutive
Streaks == [current : Nat, longest : Nat]

LEMMA StreakStep ==
  ASSUME NEW a \in Streaks, NEW c
  PROVE  /\ Streak(a, c) \in Streaks
         /\ c => /\ Streak(a, c).current = a.current + 1
                 /\ Streak(a, c).longest =
                      IF a.current + 1 > a.longest THEN a.current + 1 ELSE a.longest
         /\ ~c => Streak(a, c).current = 0 /\ Streak(a, c).longest = a.longest
<1>1. CASE c
  <2>1. PICK m : m = IF a.current + 1 > a.longest THEN a.current + 1 ELSE a.longest
    OBVIOUS
  <2>2. Streak(a, c) = [a EXCEPT !.current = a.current + 1, !.longest = m]
    BY <1>1, <2>1 DEF Streak
  <2>3. m \in Nat /\ a.current + 1 \in Nat
    BY <2>1 DEF Streaks
  <2> QED
    BY <1>1, <2>1, <2>2, <2>3 DEF Streaks
<1>2. CASE ~c
  <2>1. Streak(a, c) = [a EXCEPT !.current = 0]
    BY <1>2 DEF Streak
  <2> QED
    BY <1>2, <2>1 DEF Streaks
<1> QED
  BY <1>1, <1>2

CountsTrades(acc, v, winning) ==
  /\ acc[0] = [current |-> 0, longest |-> 0]
  /\ \A k \in 1 .. Len(v) : acc[k] = Streak(acc[k - 1], Matches(v[k], winning))

LEMMA TradesScan ==
  ASSUME NEW v \in Seq(Trades), NEW winning \in BOOLEAN
  PROVE  \E acc \in [0 .. Len(v) -> Streaks] :
           CountsTrades(acc, v, winning) /\ MaxConsecutive(v, winning) = acc[Len(v)].longest
<1>1. PICK n \in Nat : /\ n = Len(v) /\ DOMAIN v = 1 .. n
                     /\ \A k \in 1 .. n : v[k] \in Trades
  OBVIOUS
<1>2. PICK base : base = [current |-> 0, longest |-> 0]
  OBVIOUS
<1>3. base \in Streaks
  BY <1>1, <1>2 DEF Streaks
<1>4. ASSUME NEW a \in Streaks, NEW x \in Trades PROVE Streak(a, Matches(x, winning)) \in Streaks
  BY StreakStep
<1>5. PICK G : G = [p \in (1 .. n) \X Streaks |-> Streak(p[2], Matches(v[p[1]], winning))]
  OBVIOUS
<1>6. /\ G \in [(1 .. n) \X Streaks -> Streaks]
      /\ \A k \in 1 .. n, a \in Streaks : G[<<k, a>>] = Streak(a, Matches(v[k], winning))
  BY <1>1, <1>4, <1>5
<1>7. PICK h \in [SUBSET (1 .. n) -> Streaks] : FoldOf(h, n, base, G)
  BY <1>3, <1>6, FoldIsThere
<1>8. h = [s \in SUBSET (1 .. n) |->
             IF s = {} THEN base ELSE Streak(h[s \ {Max(s)}], Matches(v[Max(s)], winning))]
  BY <1>6, <1>7, WithoutMax DEF FoldOf
<1>9. PICK it : it = CHOOSE g : g = [s \in SUBSET (1 .. n) |->
             IF s = {} THEN base ELSE Streak(g[s \ {Max(s)}], Matches(v[Max(s)], winning))]
  OBVIOUS
<1>10. it = [s \in SUBSET (1 .. n) |->
             IF s = {} THEN base ELSE Streak(it[s \ {Max(s)}], Matches(v[Max(s)], winning))]
  BY <1>8, <1>9
<1>11. MaxConsecutive(v, winning) = it[1 .. n].longest
  BY <1>1, <1>2, <1>9 DEF MaxConsecutive, FoldLeft, MapThenFoldSet
<1>12. PICK acc : acc = [k \in 0 .. n |-> it[1 .. k]]
  OBVIOUS
<1>13. acc[0] = base /\ acc = [k \in 0 .. n |-> acc[k]]
  BY <1>10, <1>12
<1>14. ASSUME NEW k \in 1 .. n PROVE acc[k] = Streak(acc[k - 1], Matches(v[k], winning))
  <2>1. acc[k] = it[1 .. k] /\ acc[k - 1] = it[1 .. (k - 1)]
    BY <1>12
  <2>2. it[1 .. k] = Streak(it[(1 .. k) \ {k}], Matches(v[k], winning))
    BY <1>10, LastOf
  <2> QED
    BY <2>1, <2>2, LastOf
<1>15. \A k \in 1 .. n : acc[k - 1] \in Streaks => acc[k] \in Streaks
  BY <1>1, <1>4, <1>14
<1>16. acc \in [0 .. n -> Streaks]
  BY <1>3, <1>13, <1>15, StaysIn
<1>17. CountsTrades(acc, v, winning)
  BY <1>1, <1>2, <1>13, <1>14 DEF CountsTrades
<1>18. n \in 0 .. n /\ acc[n] = it[1 .. n]
  BY <1>12
<1> QED
  BY <1>1, <1>11, <1>16, <1>17, <1>18

\* exposure_pct
CountsBars(acc, v) ==
  /\ acc[0] = 0
  /\ \A k \in 1 .. Len(v) : acc[k] = acc[k - 1] + HeldFor(v[k])

LEMMA BarsScan ==
  ASSUME NEW v \in Seq(Trades)
  PROVE  \E acc \in [0 .. Len(v) -> Int] :
           CountsBars(acc, v) /\ HeldBars(v) = acc[Len(v)]
<1>1. PICK n \in Nat : /\ n = Len(v) /\ DOMAIN v = 1 .. n
                     /\ \A k \in 1 .. n : v[k] \in Trades
  OBVIOUS
<1>2. PICK base : base = 0
  OBVIOUS
<1>3. base \in Int
  BY <1>1, <1>2 DEF HeldFor, Trades
<1>4. ASSUME NEW a \in Int, NEW x \in Trades PROVE a + HeldFor(x) \in Int
  BY DEF HeldFor, Trades
<1>5. PICK G : G = [p \in (1 .. n) \X Int |-> p[2] + HeldFor(v[p[1]])]
  OBVIOUS
<1>6. /\ G \in [(1 .. n) \X Int -> Int]
      /\ \A k \in 1 .. n, a \in Int : G[<<k, a>>] = a + HeldFor(v[k])
  BY <1>1, <1>4, <1>5
<1>7. PICK h \in [SUBSET (1 .. n) -> Int] : FoldOf(h, n, base, G)
  BY <1>3, <1>6, FoldIsThere
<1>8. h = [s \in SUBSET (1 .. n) |->
             IF s = {} THEN base ELSE h[s \ {Max(s)}] + HeldFor(v[Max(s)])]
  BY <1>6, <1>7, WithoutMax DEF FoldOf
<1>9. PICK it : it = CHOOSE g : g = [s \in SUBSET (1 .. n) |->
             IF s = {} THEN base ELSE g[s \ {Max(s)}] + HeldFor(v[Max(s)])]
  OBVIOUS
<1>10. it = [s \in SUBSET (1 .. n) |->
             IF s = {} THEN base ELSE it[s \ {Max(s)}] + HeldFor(v[Max(s)])]
  BY <1>8, <1>9
<1>11. HeldBars(v) = it[1 .. n]
  BY <1>1, <1>2, <1>9 DEF HeldBars, FoldLeft, MapThenFoldSet
<1>12. PICK acc : acc = [k \in 0 .. n |-> it[1 .. k]]
  OBVIOUS
<1>13. acc[0] = base /\ acc = [k \in 0 .. n |-> acc[k]]
  BY <1>10, <1>12
<1>14. ASSUME NEW k \in 1 .. n PROVE acc[k] = acc[k - 1] + HeldFor(v[k])
  <2>1. acc[k] = it[1 .. k] /\ acc[k - 1] = it[1 .. (k - 1)]
    BY <1>12
  <2>2. it[1 .. k] = it[(1 .. k) \ {k}] + HeldFor(v[k])
    BY <1>10, LastOf
  <2> QED
    BY <2>1, <2>2, LastOf
<1>15. \A k \in 1 .. n : acc[k - 1] \in Int => acc[k] \in Int
  BY <1>1, <1>4, <1>14
<1>16. acc \in [0 .. n -> Int]
  BY <1>3, <1>13, <1>15, StaysIn
<1>17. CountsBars(acc, v)
  BY <1>1, <1>2, <1>13, <1>14 DEF CountsBars
<1>18. n \in 0 .. n /\ acc[n] = it[1 .. n]
  BY <1>12
<1> QED
  BY <1>1, <1>11, <1>16, <1>17, <1>18

-----------------------------------------------------------------------------
(* Falls from the running peak                                             *)

\* p is the highest of the first k values.
IsPeak(v, k, p) == p \in Int /\ (\E i \in 1 .. k : v[i] = p) /\ \A i \in 1 .. k : v[i] <= p

\* The peak the scans keep is the highest value so far.
LEMMA RunningPeak ==
  ASSUME NEW v \in Seq(Int), NEW n \in Nat, n = Len(v), NEW peak, peak[0] = v[1],
         \A k \in 1 .. n : peak[k] = Higher(peak[k - 1], v[k])
  PROVE  \A k \in 1 .. n : IsPeak(v, k, peak[k])
<1>1. \A k \in 1 .. n : v[k] \in Int
  OBVIOUS
<1>2. PICK P : P = {k \in Nat : k = 0 \/ IsPeak(v, k, peak[k])}
  OBVIOUS
<1>3. ASSUME NEW k \in 1 .. n, k - 1 \in P PROVE k \in P
  <2>1. v[k] \in Int /\ peak[k] = Higher(peak[k - 1], v[k])
    BY <1>1
  <2>2. CASE k = 1
    <3>1. peak[k] = v[k]
      BY <2>1, <2>2 DEF Higher
    <3> QED
      BY <1>2, <2>1, <2>2, <3>1 DEF IsPeak
  <2>3. CASE k # 1
    <3>1. IsPeak(v, k - 1, peak[k - 1])
      BY <1>2, <1>3, <2>3
    <3>2. peak[k - 1] \in Int /\ peak[k] \in Int /\ peak[k - 1] <= peak[k] /\ v[k] <= peak[k]
      BY <2>1, <3>1 DEF IsPeak, Higher
    <3>3. \E i \in 1 .. k : v[i] = peak[k]
      <4>1. peak[k] = v[k] \/ peak[k] = peak[k - 1]
        BY <2>1 DEF Higher
      <4> QED
        BY <3>1, <4>1 DEF IsPeak
    <3>4. ASSUME NEW i \in 1 .. k PROVE v[i] <= peak[k]
      <4>1. v[i] \in Int
        BY <1>1
      <4>2. i \in 1 .. (k - 1) => v[i] <= peak[k - 1]
        BY <3>1 DEF IsPeak
      <4> QED
        BY <3>2, <4>1, <4>2
    <3> QED
      BY <1>2, <3>2, <3>3, <3>4 DEF IsPeak
  <2> QED
    BY <2>2, <2>3
<1>4. 0 \in P
  BY <1>2
<1>5. \A k \in 0 .. n : k \in P
  BY <1>3, <1>4, UpTo
<1> QED
  BY <1>2, <1>5

\* max_drawdown keeps the deepest fall so far.
IsWorst(v, k, peak, w) ==
  /\ w.fall \in Int /\ \A j \in 1 .. k : peak[j] - v[j] <= w.fall
  /\ \E j \in 1 .. k : w.fall = peak[j] - v[j] /\ w.share = ShareOfPeak(peak[j] - v[j], peak[j])

LEMMA DeepestFall ==
  ASSUME NEW v \in Seq(Int), v # <<>>, NEW n \in Nat, n = Len(v)
  PROVE  \E peak : /\ \A k \in 1 .. n : IsPeak(v, k, peak[k])
                   /\ IsWorst(v, n, peak, MaxDrawdown(v))
<1>1. PICK acc \in [0 .. n -> Peaks] : Deepens(acc, v) /\ MaxDrawdown(v) = acc[n]
  BY DeepestScan
<1>2. PICK peak : peak = [k \in 0 .. n |-> acc[k].peak]
  OBVIOUS
<1>3. \A k \in 1 .. n : v[k] \in Int
  OBVIOUS
<1>4. \A k \in 0 .. n : peak[k] = acc[k].peak /\ acc[k] \in Peaks
  BY <1>2
<1>5. ASSUME NEW k \in 1 .. n
      PROVE  /\ peak[k] = Higher(peak[k - 1], v[k]) /\ peak[k] \in Int
             /\ peak[k] - v[k] > acc[k - 1].fall =>
                  /\ acc[k].fall = peak[k] - v[k]
                  /\ acc[k].share = ShareOfPeak(peak[k] - v[k], peak[k])
             /\ ~(peak[k] - v[k] > acc[k - 1].fall) =>
                  acc[k].fall = acc[k - 1].fall /\ acc[k].share = acc[k - 1].share
  <2>1. PICK a : a = acc[k - 1]
    OBVIOUS
  <2>2. a \in Peaks /\ acc[k] = Deepest(a, v[k]) /\ peak[k] = acc[k].peak /\ peak[k - 1] = a.peak
    BY <1>1, <1>4, <2>1 DEF Deepens
  <2>3. PICK h : h = Higher(a.peak, v[k])
    OBVIOUS
  <2>4. acc[k] = IF h - v[k] > a.fall
                   THEN [peak |-> h, fall |-> h - v[k], share |-> ShareOfPeak(h - v[k], h)]
                   ELSE [a EXCEPT !.peak = h]
    BY <2>2, <2>3 DEF Deepest
  <2>5. acc[k].peak = h
    BY <2>2, <2>4 DEF Peaks
  <2>6. h \in Int
    BY <1>4, <2>2, <2>5 DEF Peaks
  <2> QED
    BY <2>1, <2>2, <2>3, <2>4, <2>5, <2>6 DEF Peaks
<1>6. n >= 1 /\ peak[0] = v[1] /\ acc[0].fall = 0 /\ acc[0].share = ShareOfPeak(0, v[1])
  BY <1>1, <1>4 DEF Deepens
<1>7. \A k \in 1 .. n : IsPeak(v, k, peak[k])
  BY <1>5, <1>6, RunningPeak
<1>8. PICK P : P = {k \in Nat : k = 0 \/ IsWorst(v, k, peak, acc[k])}
  OBVIOUS
<1>9. ASSUME NEW k \in 1 .. n, k - 1 \in P PROVE k \in P
  <2>1. /\ v[k] \in Int /\ peak[k] \in Int /\ acc[k - 1].fall \in Int /\ acc[k].fall \in Int
        /\ k \in Nat
    BY <1>3, <1>4, <1>5 DEF Peaks
  <2>2. CASE k = 1
    <3>1. peak[k] = v[k]
      BY <1>5, <1>6, <2>1, <2>2 DEF Higher
    <3>2. acc[k].fall = 0 /\ acc[k].share = ShareOfPeak(0, v[k]) /\ peak[k] - v[k] = 0
      BY <1>5, <1>6, <2>1, <2>2, <3>1
    <3> QED
      BY <1>8, <2>2, <3>1, <3>2 DEF IsWorst
  <2>3. CASE k # 1
    <3>1. IsWorst(v, k - 1, peak, acc[k - 1])
      BY <1>8, <1>9, <2>3
    <3>2. /\ acc[k].fall \in Int /\ acc[k - 1].fall <= acc[k].fall
          /\ peak[k] - v[k] <= acc[k].fall
      <4>1. PICK d \in Int : d = peak[k] - v[k]
        BY <2>1
      <4>2. /\ d > acc[k - 1].fall => acc[k].fall = d
            /\ ~(d > acc[k - 1].fall) => acc[k].fall = acc[k - 1].fall
        BY <1>5, <4>1
      <4> QED
        BY <2>1, <4>1, <4>2
    <3>3. ASSUME NEW j \in 1 .. k PROVE peak[j] - v[j] <= acc[k].fall
      <4>1. v[j] \in Int /\ peak[j] \in Int
        BY <1>3, <1>5
      <4>2. j \in 1 .. (k - 1) => peak[j] - v[j] <= acc[k - 1].fall
        BY <3>1 DEF IsWorst
      <4> QED
        BY <2>1, <3>2, <4>1, <4>2
    <3>4. \E j \in 1 .. k : /\ acc[k].fall = peak[j] - v[j]
                            /\ acc[k].share = ShareOfPeak(peak[j] - v[j], peak[j])
      <4>1. CASE peak[k] - v[k] > acc[k - 1].fall
        BY <1>5, <4>1
      <4>2. CASE ~(peak[k] - v[k] > acc[k - 1].fall)
        <5>1. PICK j \in 1 .. (k - 1) :
                 /\ acc[k - 1].fall = peak[j] - v[j]
                 /\ acc[k - 1].share = ShareOfPeak(peak[j] - v[j], peak[j])
          BY <3>1 DEF IsWorst
        <5>2. acc[k].fall = acc[k - 1].fall /\ acc[k].share = acc[k - 1].share
          BY <1>5, <4>2
        <5>3. j \in 1 .. k
          OBVIOUS
        <5> QED
          BY <5>1, <5>2, <5>3
      <4> QED
        BY <4>1, <4>2
    <3>5. IsWorst(v, k, peak, acc[k])
      BY <3>2, <3>3, <3>4 DEF IsWorst
    <3> QED
      BY <1>8, <2>1, <3>5
  <2> QED
    BY <2>2, <2>3
<1>10. 0 \in P
  BY <1>8
<1>11. \A k \in 0 .. n : k \in P
  BY <1>9, <1>10, UpTo
<1>12. IsWorst(v, n, peak, acc[n])
  BY <1>6, <1>8, <1>11
<1> QED
  BY <1>1, <1>7, <1>12

\* The underwater curve, bar by bar.
LEMMA UnderwaterCurve ==
  ASSUME NEW v \in Seq(Int), v # <<>>, NEW n \in Nat, n = Len(v)
  PROVE  \E peak : /\ \A k \in 1 .. n : IsPeak(v, k, peak[k])
                   /\ Len(DrawdownSeries(v)) = n /\ DOMAIN DrawdownSeries(v) = 1 .. n
                   /\ \A k \in 1 .. n :
                        DrawdownSeries(v)[k] = ShareOfPeak(peak[k] - v[k], peak[k])
<1>1. PICK acc \in [0 .. n -> Curves] : Draws(acc, v) /\ DrawdownSeries(v) = acc[n].out
  BY CurveScan
<1>2. PICK peak : peak = [k \in 0 .. n |-> acc[k].peak]
  OBVIOUS
<1>3. \A k \in 1 .. n : v[k] \in Int
  OBVIOUS
<1>4. \A k \in 0 .. n : peak[k] = acc[k].peak /\ acc[k].out \in Seq(Fractions)
  BY <1>2 DEF Curves
<1>5. ASSUME NEW k \in 1 .. n
      PROVE  /\ peak[k] = Higher(peak[k - 1], v[k])
             /\ acc[k].out = Append(acc[k - 1].out, ShareOfPeak(peak[k] - v[k], peak[k]))
  <2>1. acc[k] = Falls(acc[k - 1], v[k]) /\ peak[k] = acc[k].peak /\ peak[k - 1] = acc[k - 1].peak
    BY <1>1, <1>4 DEF Draws
  <2> QED
    BY <2>1 DEF Falls
<1>6. n >= 1 /\ peak[0] = v[1] /\ acc[0].out = <<>>
  BY <1>1, <1>4 DEF Draws
<1>7. \A k \in 1 .. n : IsPeak(v, k, peak[k])
  BY <1>5, <1>6, RunningPeak
<1>8. PICK P : P = {k \in Nat : /\ Len(acc[k].out) = k
                                /\ \A j \in 1 .. k :
                                     acc[k].out[j] = ShareOfPeak(peak[j] - v[j], peak[j])}
  OBVIOUS
<1>9. ASSUME NEW k \in 1 .. n, k - 1 \in P PROVE k \in P
  <2>1. PICK s \in Seq(Fractions) : s = acc[k - 1].out
    BY <1>4
  <2>2. Len(s) = k - 1 /\ \A j \in 1 .. (k - 1) : s[j] = ShareOfPeak(peak[j] - v[j], peak[j])
    BY <1>8, <1>9, <2>1
  <2>3. PICK x : x = ShareOfPeak(peak[k] - v[k], peak[k])
    OBVIOUS
  <2>4. acc[k].out = Append(s, x)
    BY <1>5, <2>1, <2>3
  <2>5. Len(Append(s, x)) = k /\ Append(s, x)[k] = x
    BY <2>2
  <2>6. ASSUME NEW j \in 1 .. k PROVE Append(s, x)[j] = ShareOfPeak(peak[j] - v[j], peak[j])
    BY <2>2, <2>3, <2>5
  <2>7. /\ k \in Nat /\ Len(acc[k].out) = k
        /\ \A j \in 1 .. k : acc[k].out[j] = ShareOfPeak(peak[j] - v[j], peak[j])
    BY <2>4, <2>5, <2>6
  <2> QED
    BY <1>8, <2>7
<1>10. 0 \in P
  BY <1>6, <1>8
<1>11. \A k \in 0 .. n : k \in P
  BY <1>9, <1>10, UpTo
<1>12. acc[n].out \in Seq(Fractions) /\ n \in P
  BY <1>4, <1>11
<1>13. DOMAIN acc[n].out = 1 .. n
  BY <1>8, <1>12
<1> QED
  BY <1>1, <1>7, <1>8, <1>12, <1>13

-----------------------------------------------------------------------------
(* The longest stretch                                                     *)

\* A stretch of places in U within the first k.
RunIn(U, a, b, k) == a \in 1 .. k /\ b \in 1 .. k /\ a <= b /\ \A j \in a .. b : j \in U

\* Two counters along the places: of the stretch at hand, and of the longest.
Counting(cur, best, n, U) ==
  /\ cur \in [0 .. n -> Nat] /\ best \in [0 .. n -> Nat] /\ cur[0] = 0 /\ best[0] = 0
  /\ \A k \in 1 .. n :
       /\ k \in U => /\ cur[k] = cur[k - 1] + 1
                     /\ best[k] = IF cur[k - 1] + 1 > best[k - 1] THEN cur[k - 1] + 1
                                  ELSE best[k - 1]
       /\ k \notin U => cur[k] = 0 /\ best[k] = best[k - 1]

\* What the counters hold: the stretch that ends at k, and the longest so far.
Ending(c, k, U) ==
  /\ c \in Nat /\ c <= k /\ \A j \in 1 .. k : j > k - c => j \in U
  /\ c < k => k - c \notin U
Longest(m, k, U) ==
  /\ m \in Nat /\ \A a, b \in 1 .. k : RunIn(U, a, b, k) => b - a + 1 <= m
  /\ m = 0 \/ \E a, b \in 1 .. k : RunIn(U, a, b, k) /\ b - a + 1 = m

\* A place in U makes the stretch at hand longer; another ends it.
LEMMA CountOne ==
  ASSUME NEW U, NEW k \in Nat \ {0}, NEW c, Ending(c, k - 1, U),
         NEW m, Longest(m, k - 1, U), k \in U
  PROVE  /\ Ending(c + 1, k, U)
         /\ Longest(IF c + 1 > m THEN c + 1 ELSE m, k, U)
<1>1. Ending(c + 1, k, U)
  <2>1. c \in Nat /\ c <= k - 1
    BY DEF Ending
  <2>2. ASSUME NEW j \in 1 .. k, j > k - (c + 1) PROVE j \in U
    <3>1. j = k \/ (j \in 1 .. (k - 1) /\ j > (k - 1) - c)
      BY <2>1, <2>2
    <3> QED
      BY <3>1 DEF Ending
  <2>3. c + 1 < k => k - (c + 1) \notin U
    <3>1. k - (c + 1) = (k - 1) - c /\ (c + 1 < k => c < k - 1)
      BY <2>1
    <3> QED
      BY <3>1 DEF Ending
  <2> QED
    BY <2>1, <2>2, <2>3 DEF Ending
<1>2. PICK x : x = IF c + 1 > m THEN c + 1 ELSE m
  OBVIOUS
<1>3. x \in Nat /\ c + 1 <= x /\ m <= x /\ (x = c + 1 \/ x = m) /\ c \in Nat /\ m \in Nat
  BY <1>2 DEF Ending, Longest
<1>4. ASSUME NEW a \in 1 .. k, NEW b \in 1 .. k, RunIn(U, a, b, k) PROVE b - a + 1 <= x
  <2>1. CASE b = k
    <3>1. a > (k - 1) - c
      <4>1. SUFFICES ASSUME a <= (k - 1) - c PROVE FALSE
        BY <1>3
      <4>2. c < k - 1 /\ (k - 1) - c \in a .. b
        BY <1>3, <2>1, <4>1
      <4>3. (k - 1) - c \in U
        BY <1>4, <4>2 DEF RunIn
      <4> QED
        BY <4>2, <4>3 DEF Ending
    <3> QED
      BY <1>3, <2>1, <3>1
  <2>2. CASE b # k
    <3>1. a \in 1 .. (k - 1) /\ b \in 1 .. (k - 1) /\ RunIn(U, a, b, k - 1)
      BY <1>4, <2>2 DEF RunIn
    <3>2. b - a + 1 <= m
      BY <3>1 DEF Longest
    <3> QED
      BY <1>3, <3>2
  <2> QED
    BY <2>1, <2>2
<1>5. x = 0 \/ \E a, b \in 1 .. k : RunIn(U, a, b, k) /\ b - a + 1 = x
  <2>1. CASE x = c + 1
    <3>1. k - c \in 1 .. k /\ k \in 1 .. k /\ k - c <= k /\ k - (k - c) + 1 = x
      BY <1>3, <2>1 DEF Ending
    <3>2. ASSUME NEW j \in (k - c) .. k PROVE j \in U
      <4>1. j \in 1 .. k /\ j > k - (c + 1)
        BY <1>3, <3>1
      <4> QED
        BY <1>1, <4>1 DEF Ending
    <3>3. RunIn(U, k - c, k, k)
      BY <3>1, <3>2 DEF RunIn
    <3> QED
      BY <3>1, <3>3
  <2>2. CASE x = m
    <3>1. SUFFICES ASSUME m # 0 PROVE \E a, b \in 1 .. k : RunIn(U, a, b, k) /\ b - a + 1 = x
      BY <2>2
    <3>2. PICK a, b \in 1 .. (k - 1) : RunIn(U, a, b, k - 1) /\ b - a + 1 = m
      BY <3>1 DEF Longest
    <3>3. a \in 1 .. k /\ b \in 1 .. k /\ RunIn(U, a, b, k)
      BY <3>2 DEF RunIn
    <3> QED
      BY <2>2, <3>2, <3>3
  <2> QED
    BY <1>3, <2>1, <2>2
<1>6. Longest(x, k, U)
  BY <1>3, <1>4, <1>5 DEF Longest
<1> QED
  BY <1>1, <1>2, <1>6

LEMMA CountEnds ==
  ASSUME NEW U, NEW k \in Nat \ {0}, NEW m, Longest(m, k - 1, U), k \notin U
  PROVE  Ending(0, k, U) /\ Longest(m, k, U)
<1>1. Ending(0, k, U)
  BY DEF Ending
<1>2. ASSUME NEW a \in 1 .. k, NEW b \in 1 .. k
      PROVE  RunIn(U, a, b, k) <=>
               a \in 1 .. (k - 1) /\ b \in 1 .. (k - 1) /\ RunIn(U, a, b, k - 1)
  <2>1. RunIn(U, a, b, k) => b # k
    BY DEF RunIn
  <2> QED
    BY <2>1 DEF RunIn
<1>3. \A i \in 1 .. (k - 1) : i \in 1 .. k
  OBVIOUS
<1>4. Longest(m, k, U)
  BY <1>2, <1>3 DEF Longest
<1> QED
  BY <1>1, <1>4

\* The two counters find the longest stretch of any set of places.
LEMMA CountingFinds ==
  ASSUME NEW n \in Nat, NEW U, NEW cur, NEW best, Counting(cur, best, n, U)
  PROVE  Longest(best[n], n, U)
<1>1. PICK P : P = {k \in Nat : Ending(cur[k], k, U) /\ Longest(best[k], k, U)}
  OBVIOUS
<1>2. 0 \in P
  BY <1>1 DEF Counting, Ending, Longest, RunIn
<1>3. ASSUME NEW k \in 1 .. n, k - 1 \in P PROVE k \in P
  <2>1. PICK c, m : c = cur[k - 1] /\ m = best[k - 1]
    OBVIOUS
  <2>2. Ending(c, k - 1, U) /\ Longest(m, k - 1, U) /\ k \in Nat \ {0}
    BY <1>1, <1>3, <2>1
  <2>3. CASE k \in U
    <3>1. cur[k] = c + 1 /\ best[k] = IF c + 1 > m THEN c + 1 ELSE m
      BY <2>1, <2>3 DEF Counting
    <3> QED
      BY <1>1, <2>2, <2>3, <3>1, CountOne
  <2>4. CASE k \notin U
    <3>1. cur[k] = 0 /\ best[k] = m
      BY <2>1, <2>4 DEF Counting
    <3> QED
      BY <1>1, <2>2, <2>4, <3>1, CountEnds
  <2> QED
    BY <2>3, <2>4
<1>4. \A k \in 0 .. n : k \in P
  BY <1>2, <1>3, UpTo
<1>5. n \in P
  BY <1>4
<1> QED
  BY <1>1, <1>5

\* ... whose length is what the property calls the length of the stretches.
LEMMA LongestIsLength ==
  ASSUME NEW n \in Nat, NEW U, NEW m, Longest(m, n, U), NEW S,
         S = {p \in (1 .. n) \X (1 .. n) : p[1] <= p[2] /\ \A k \in p[1] .. p[2] : k \in U}
  PROVE  m = LengthOf(S)
<1>1. PICK D : D = {0} \cup {p[2] - p[1] + 1 : p \in S}
  OBVIOUS
<1>2. \A p \in S : p[1] \in 1 .. n /\ p[2] \in 1 .. n /\ RunIn(U, p[1], p[2], n)
  BY DEF RunIn
<1>3. D \in SUBSET Int
  BY <1>1, <1>2
<1>4. m \in D
  <2>1. CASE m = 0
    BY <1>1, <2>1
  <2>2. CASE m # 0
    <3>1. PICK a, b \in 1 .. n : RunIn(U, a, b, n) /\ b - a + 1 = m
      BY <2>2 DEF Longest
    <3>2. <<a, b>> \in S
      BY <3>1 DEF RunIn
    <3>3. PICK p \in S : p = <<a, b>>
      BY <3>2
    <3> QED
      BY <1>1, <3>1, <3>3
  <2> QED
    BY <2>1, <2>2
<1>5. ASSUME NEW x \in D PROVE x <= m
  BY <1>1, <1>2 DEF Longest
<1> QED
  BY <1>1, <1>3, <1>4, <1>5, MaxIs DEF LengthOf

\* longest_drawdown_bars counts the bars below an earlier value.
LEMMA LongestBelow ==
  ASSUME NEW v \in Seq(Int), v # <<>>, NEW n \in Nat, n = Len(v),
         NEW U, U = {k \in 1 .. n : \E j \in 1 .. k : v[j] > v[k]}
  PROVE  Longest(LongestDrawdown(v), n, U)
<1>1. PICK acc \in [0 .. n -> Belows] : CountsBelow(acc, v) /\ LongestDrawdown(v) = acc[n].longest
  BY BelowScan
<1>2. PICK peak, cur, best : /\ peak = [k \in 0 .. n |-> acc[k].peak]
                             /\ cur = [k \in 0 .. n |-> acc[k].current]
                             /\ best = [k \in 0 .. n |-> acc[k].longest]
  OBVIOUS
<1>3. \A k \in 1 .. n : v[k] \in Int
  OBVIOUS
<1>4. n >= 1 /\ peak[0] = v[1] /\ cur[0] = 0 /\ best[0] = 0
  BY <1>1, <1>2 DEF CountsBelow
<1>5. ASSUME NEW k \in 1 .. n
      PROVE  /\ peak[k] = Higher(peak[k - 1], v[k])
             /\ v[k] < peak[k - 1] =>
                  /\ cur[k] = cur[k - 1] + 1
                  /\ best[k] = IF cur[k - 1] + 1 > best[k - 1] THEN cur[k - 1] + 1
                               ELSE best[k - 1]
             /\ ~(v[k] < peak[k - 1]) => cur[k] = 0 /\ best[k] = best[k - 1]
  <2>1. PICK a : a = acc[k - 1]
    OBVIOUS
  <2>2. PICK x \in Int : x = v[k]
    BY <1>3
  <2>3. PICK b : b = BelowPeak(a, x)
    OBVIOUS
  <2>4. a \in Belows /\ acc[k] = b
    BY <1>1, <2>1, <2>2, <2>3 DEF CountsBelow
  <2>5. /\ peak[k] = b.peak /\ cur[k] = b.current /\ best[k] = b.longest
        /\ peak[k - 1] = a.peak /\ cur[k - 1] = a.current /\ best[k - 1] = a.longest
    BY <1>2, <2>1, <2>4
  <2>6. /\ b.peak = Higher(a.peak, x)
        /\ x < a.peak => /\ b.current = a.current + 1
                         /\ b.longest = IF a.current + 1 > a.longest THEN a.current + 1
                                        ELSE a.longest
        /\ ~(x < a.peak) => b.current = 0 /\ b.longest = a.longest
    <3>1. a.peak \in Int /\ a.current \in Nat /\ a.longest \in Nat
      BY <2>4 DEF Belows
    <3>2. /\ BelowPeak(a, x).peak = Higher(a.peak, x)
          /\ x < a.peak =>
              /\ BelowPeak(a, x).current = a.current + 1
              /\ BelowPeak(a, x).longest =
                   IF a.current + 1 > a.longest THEN a.current + 1 ELSE a.longest
          /\ ~(x < a.peak) =>
              BelowPeak(a, x).current = 0 /\ BelowPeak(a, x).longest = a.longest
      BY <2>2, <2>4, BelowStep, Zenon
    <3> QED
      BY <2>3, <3>1, <3>2
  <2> QED
    BY <2>2, <2>5, <2>6
<1>6. \A k \in 1 .. n : IsPeak(v, k, peak[k])
  BY <1>4, <1>5, RunningPeak
<1>7. ASSUME NEW k \in 1 .. n PROVE k \in U <=> v[k] < peak[k - 1]
  <2>1. k \in U <=> \E j \in 1 .. k : v[j] > v[k]
    OBVIOUS
  <2>2. CASE k = 1
    <3>1. peak[k - 1] = v[k] /\ v[k] \in Int
      BY <1>3, <1>4, <2>2
    <3> QED
      BY <2>1, <2>2, <3>1
  <2>3. CASE k # 1
    <3>1. IsPeak(v, k - 1, peak[k - 1])
      BY <1>6, <2>3
    <3>2. v[k] < peak[k - 1] => k \in U
      BY <1>3, <2>1, <3>1 DEF IsPeak
    <3>3. ASSUME NEW j \in 1 .. k, v[j] > v[k] PROVE v[k] < peak[k - 1]
      <4>1. v[j] \in Int /\ v[k] \in Int /\ peak[k - 1] \in Int
        BY <1>3, <3>1 DEF IsPeak
      <4>2. j \in 1 .. (k - 1)
        BY <3>3, <4>1
      <4>3. v[j] <= peak[k - 1]
        BY <3>1, <4>2 DEF IsPeak
      <4> QED
        BY <3>3, <4>1, <4>3
    <3> QED
      BY <2>1, <3>2, <3>3
  <2> QED
    BY <2>2, <2>3
<1>8. cur \in [0 .. n -> Nat] /\ best \in [0 .. n -> Nat]
  BY <1>1, <1>2 DEF Belows
<1>9. Counting(cur, best, n, U)
  BY <1>4, <1>5, <1>7, <1>8 DEF Counting
<1>10. Longest(best[n], n, U) /\ best[n] = LongestDrawdown(v)
  BY <1>1, <1>2, <1>9, CountingFinds
<1> QED
  BY <1>10

\* max_consecutive counts the trades that win, or lose.
LEMMA LongestTrades ==
  ASSUME NEW s \in Seq(Trades), NEW n \in Nat, n = Len(s), NEW winning \in BOOLEAN,
         NEW U, U = {k \in 1 .. n : Matches(s[k], winning)}
  PROVE  Longest(MaxConsecutive(s, winning), n, U)
<1>1. PICK acc \in [0 .. n -> Streaks] :
        CountsTrades(acc, s, winning) /\ MaxConsecutive(s, winning) = acc[n].longest
  BY TradesScan
<1>2. PICK cur, best : /\ cur = [k \in 0 .. n |-> acc[k].current]
                       /\ best = [k \in 0 .. n |-> acc[k].longest]
  OBVIOUS
<1>3. cur[0] = 0 /\ best[0] = 0
  BY <1>1, <1>2 DEF CountsTrades
<1>4. ASSUME NEW k \in 1 .. n
      PROVE  /\ k \in U =>
                  /\ cur[k] = cur[k - 1] + 1
                  /\ best[k] = IF cur[k - 1] + 1 > best[k - 1] THEN cur[k - 1] + 1
                               ELSE best[k - 1]
             /\ k \notin U => cur[k] = 0 /\ best[k] = best[k - 1]
  <2>1. PICK a, c : a = acc[k - 1] /\ c = Matches(s[k], winning)
    OBVIOUS
  <2>2. /\ a \in Streaks /\ acc[k] = Streak(a, c) /\ (k \in U <=> c)
        /\ cur[k] = acc[k].current /\ best[k] = acc[k].longest
        /\ cur[k - 1] = a.current /\ best[k - 1] = a.longest
    <3>1. a \in Streaks /\ acc[k] = Streak(a, c)
      BY <1>1, <2>1 DEF CountsTrades
    <3>2. /\ cur[k] = acc[k].current /\ best[k] = acc[k].longest
          /\ cur[k - 1] = a.current /\ best[k - 1] = a.longest
      BY <1>2, <2>1
    <3>3. k \in U <=> c
      BY <2>1 DEF Matches
    <3> QED
      BY <3>1, <3>2, <3>3
  <2> QED
    BY <2>2, StreakStep
<1>5. cur \in [0 .. n -> Nat] /\ best \in [0 .. n -> Nat]
  BY <1>1, <1>2 DEF Streaks
<1>6. Counting(cur, best, n, U)
  BY <1>3, <1>4, <1>5 DEF Counting
<1>7. Longest(best[n], n, U) /\ best[n] = MaxConsecutive(s, winning)
  BY <1>1, <1>2, <1>6, CountingFinds
<1> QED
  BY <1>7

-----------------------------------------------------------------------------
(* The bars held                                                           *)

\* The bars the first k trades are held for, and those two of them share.
BarsOf(s, k) == UNION {HeldBy(s[n]) : n \in 1 .. k}
SharedIn(s, k) == {n \in 1 .. k - 1 : s[n].exitBar = s[n + 1].entryBar}
HeldSoFar(s, k, sum) ==
  /\ IsFiniteSet(BarsOf(s, k)) /\ IsFiniteSet(SharedIn(s, k))
  /\ sum = Cardinality(BarsOf(s, k)) + Cardinality(SharedIn(s, k))
  /\ k > 0 => /\ s[k].exitBar \in BarsOf(s, k)
              /\ \A x \in BarsOf(s, k) : x \in Int /\ x <= s[k].exitBar

\* A trade adds its bars, but for the one it may share with the trade before it.
LEMMA OneMoreHeld ==
  ASSUME NEW S, IsFiniteSet(S), NEW a \in Int, NEW b \in Int, a <= b,
         NEW e \in S, e \in Int, e <= a, \A x \in S : x \in Int /\ x <= e
  PROVE  /\ IsFiniteSet(S \cup (a .. b)) /\ Cardinality(S) \in Nat
         /\ Cardinality(S \cup (a .. b)) =
              IF e = a THEN Cardinality(S) + (b - a) ELSE Cardinality(S) + (b - a) + 1
<1>1. IsFiniteSet(a .. b) /\ Cardinality(a .. b) = b - a + 1
  BY FS_Interval
<1>2. PICK T : T = S \cup (a .. b)
  OBVIOUS
<1>3. /\ IsFiniteSet(T)
      /\ Cardinality(T) = Cardinality(S) + Cardinality(a .. b) - Cardinality(S \cap (a .. b))
  BY <1>1, <1>2, FS_Union
<1>4. S \cap (a .. b) = IF e = a THEN {a} ELSE {}
  OBVIOUS
<1>5. Cardinality({a}) = 1 /\ Cardinality({}) = 0 /\ Cardinality(S) \in Nat
  BY FS_Singleton, FS_EmptySet, FS_CardinalityType
<1>6. Cardinality(S \cap (a .. b)) = IF e = a THEN 1 ELSE 0
  BY <1>4, <1>5
<1> QED
  BY <1>1, <1>2, <1>3, <1>5, <1>6

LEMMA BarNumbers ==
  ASSUME NEW t \in Trades PROVE t.entryBar \in Int /\ t.exitBar \in Int
<1>1. t.entryBar \in 1 .. NumBars /\ t.exitBar \in 1 .. NumBars
  BY DEF Trades
<1> QED
  BY <1>1, BarsAssumption

\* Each bar is counted once, and a shared one twice.
LEMMA BarsHeld ==
  ASSUME NEW s \in Seq(Trades), NEW bar, InSequenceBy(s, bar), NEW n \in Nat, n = Len(s)
  PROVE  HeldBars(s) = Cardinality(BarsOf(s, n)) + Cardinality(SharedIn(s, n))
<1>1. PICK acc \in [0 .. n -> Int] : CountsBars(acc, s) /\ HeldBars(s) = acc[n]
  BY BarsScan
<1>2. \A k \in 1 .. n : s[k] \in Trades
  OBVIOUS
<1>3. ASSUME NEW k \in 1 .. n
      PROVE  /\ s[k].entryBar \in Int /\ s[k].exitBar \in Int /\ s[k].entryBar <= s[k].exitBar
             /\ HeldFor(s[k]) = s[k].exitBar - s[k].entryBar + 1
             /\ k < n => s[k].exitBar <= s[k + 1].entryBar
  <2>1. s[k].entryBar \in Int /\ s[k].exitBar \in Int
    <3>1. s[k] \in Trades
      BY <1>2
    <3> QED
      BY <3>1, BarNumbers
  <2>2. s[k].entryBar <= s[k].exitBar
    BY DEF InSequenceBy
  <2>3. ASSUME k < n PROVE s[k].exitBar <= s[k + 1].entryBar
    <3>1. k \in 1 .. n - 1 /\ k + 1 \in 1 .. n
      BY <2>3
    <3>2. s[k + 1].entryBar \in Int
      BY <1>2, <3>1, BarNumbers
    <3>3. s[k].exitBar = s[k + 1].entryBar \/ s[k].exitBar < s[k + 1].entryBar
      BY <3>1 DEF InSequenceBy
    <3> QED
      BY <2>1, <3>2, <3>3
  <2> QED
    BY <2>1, <2>2, <2>3 DEF HeldFor
<1>4. PICK P : P = {k \in Nat : HeldSoFar(s, k, acc[k])}
  OBVIOUS
<1>5. 0 \in P
  <2>1. BarsOf(s, 0) = {} /\ SharedIn(s, 0) = {} /\ acc[0] = 0
    BY <1>1 DEF BarsOf, SharedIn, CountsBars
  <2>2. IsFiniteSet({}) /\ Cardinality({}) = 0
    BY FS_EmptySet
  <2>3. acc[0] = Cardinality(BarsOf(s, 0)) + Cardinality(SharedIn(s, 0))
    BY <2>1, <2>2
  <2>4. HeldSoFar(s, 0, acc[0])
    BY <2>1, <2>2, <2>3 DEF HeldSoFar
  <2> QED
    BY <1>4, <2>4
<1>6. ASSUME NEW k \in 1 .. n, k - 1 \in P PROVE k \in P
  <2>1. HeldSoFar(s, k - 1, acc[k - 1])
    BY <1>4, <1>6
  <2>2. PICK a \in Int, b \in Int : a = s[k].entryBar /\ b = s[k].exitBar
    BY <1>3
  <2>3. a <= b /\ acc[k] = acc[k - 1] + (b - a + 1) /\ acc[k - 1] \in Int
    <3>1. acc[k] = acc[k - 1] + HeldFor(s[k]) /\ acc[k - 1] \in Int
      BY <1>1 DEF CountsBars
    <3> QED
      BY <1>3, <2>2, <3>1
  <2>4. PICK B, H : B = BarsOf(s, k - 1) /\ H = SharedIn(s, k - 1)
    OBVIOUS
  <2>5. BarsOf(s, k) = B \cup (a .. b)
    <3>1. 1 .. k = (1 .. (k - 1)) \cup {k}
      OBVIOUS
    <3>2. HeldBy(s[k]) = a .. b
      BY <2>2 DEF HeldBy
    <3> QED
      BY <2>4, <3>1, <3>2 DEF BarsOf
  <2>6. \A x \in a .. b : x \in Int /\ x <= b
    OBVIOUS
  <2>7. CASE k = 1
    <3>1. B = {} /\ SharedIn(s, k) = {}
      BY <2>4, <2>7 DEF BarsOf, SharedIn
    <3>2. BarsOf(s, k) = a .. b /\ IsFiniteSet(a .. b) /\ Cardinality(a .. b) = b - a + 1
      BY <2>3, <2>5, <3>1, FS_Interval
    <3>3. acc[k - 1] = 0
      BY <1>1, <2>7 DEF CountsBars
    <3>4. Cardinality({}) = 0 /\ IsFiniteSet({})
      BY FS_EmptySet
    <3>5. b \in a .. b
      BY <2>3
    <3>6. HeldSoFar(s, k, acc[k])
      BY <2>2, <2>3, <2>6, <3>1, <3>2, <3>3, <3>4, <3>5 DEF HeldSoFar
    <3> QED
      BY <1>4, <3>6
  <2>8. CASE k # 1
    <3>1. k - 1 \in 1 .. n /\ k - 1 < n /\ k - 1 > 0
      BY <2>8
    <3>2. PICK e \in Int : e = s[k - 1].exitBar
      BY <1>3, <3>1
    <3>3. e <= a
      BY <1>3, <2>2, <3>1, <3>2
    <3>4. IsFiniteSet(B) /\ IsFiniteSet(H) /\ e \in B /\ \A x \in B : x \in Int /\ x <= e
      BY <2>1, <2>4, <3>1, <3>2 DEF HeldSoFar
    <3>5. /\ IsFiniteSet(B \cup (a .. b)) /\ Cardinality(B) \in Nat
          /\ Cardinality(B \cup (a .. b)) =
               IF e = a THEN Cardinality(B) + (b - a) ELSE Cardinality(B) + (b - a) + 1
      BY <2>3, <3>3, <3>4, OneMoreHeld
    <3>6. SharedIn(s, k) = (IF e = a THEN H \cup {k - 1} ELSE H) /\ k - 1 \notin H
      <4>1. 1 .. k - 1 = (1 .. (k - 1) - 1) \cup {k - 1} /\ k - 1 \notin 1 .. (k - 1) - 1
        BY <3>1
      <4>2. s[k - 1].exitBar = s[(k - 1) + 1].entryBar <=> e = a
        BY <2>2, <3>2
      <4> QED
        BY <2>4, <4>1, <4>2 DEF SharedIn
    <3>7. /\ IsFiniteSet(SharedIn(s, k)) /\ Cardinality(H) \in Nat
          /\ Cardinality(SharedIn(s, k)) = IF e = a THEN Cardinality(H) + 1 ELSE Cardinality(H)
      <4>1. /\ IsFiniteSet(H \cup {k - 1})
            /\ Cardinality(H \cup {k - 1}) = Cardinality(H) + 1
        BY <3>4, <3>6, FS_AddElement
      <4>2. Cardinality(H) \in Nat
        BY <3>4, FS_CardinalityType
      <4> QED
        BY <3>4, <3>6, <4>1, <4>2
    <3>8. acc[k - 1] = Cardinality(B) + Cardinality(H)
      BY <2>1, <2>4 DEF HeldSoFar
    <3>9. acc[k] = Cardinality(BarsOf(s, k)) + Cardinality(SharedIn(s, k))
      BY <2>3, <2>5, <3>5, <3>7, <3>8
    <3>10. \A x \in B \cup (a .. b) : x \in Int /\ x <= b
      BY <2>3, <3>3, <3>4
    <3>11. b \in a .. b
      BY <2>3
    <3>12. HeldSoFar(s, k, acc[k])
      BY <2>2, <2>5, <3>5, <3>7, <3>9, <3>10, <3>11 DEF HeldSoFar
    <3> QED
      BY <1>4, <3>12
  <2> QED
    BY <2>7, <2>8
<1>7. \A k \in 0 .. n : k \in P
  BY <1>5, <1>6, UpTo
<1>8. HeldSoFar(s, n, acc[n])
  <2>1. n \in P
    BY <1>7
  <2> QED
    BY <1>4, <2>1
<1> QED
  BY <1>1, <1>8 DEF HeldSoFar

-----------------------------------------------------------------------------
(* Monthly gains                                                           *)

\* The bar a month ends on, and the months before another.
LastOfMonth(month, n, m) == Max({i \in 1 .. n : month[i] = m})
Before(M, k) == {x \in M : x < k}

LEMMA MonthEnds ==
  ASSUME NEW n \in Nat, NEW month, NEW m, NEW j \in 1 .. n, month[j] = m
  PROVE  LastOfMonth(month, n, m) \in 1 .. n
<1>1. PICK S : S = {i \in 1 .. n : month[i] = m}
  OBVIOUS
<1>2. S \in SUBSET (1 .. n) /\ S # {}
  BY <1>1
<1>3. Max(S) \in S
  BY <1>2, MaxIn
<1> QED
  BY <1>1, <1>3 DEF LastOfMonth

LEMMA TakenOut ==
  ASSUME NEW M, IsFiniteSet(M), NEW gains, NEW g, Sums(g, M, gains),
         \A m \in M : gains[m].pnl \in Int, NEW T \in SUBSET M, NEW m \in T
  PROVE  g[T] = g[T \ {m}] + gains[m].pnl
  BY SumsTake

\* The months' gains telescope, in whatever order they are added.
LEMMA GainsAddUp ==
  ASSUME NEW e \in Seq(Int), NEW n \in Nat \ {0}, n = Len(e), NEW month,
         \A i \in 1 .. n : month[i] \in Nat,
         \A i, j \in 1 .. n : i <= j => month[i] <= month[j],
         NEW capital \in Int, capital # 0, \A i \in 1 .. n : capital + e[i] # 0
  PROVE  FoldFunction(LAMBDA r, sum : r.part + sum, 0, MonthlyReturns(e, month, capital)) = e[n]
<1>1. DOMAIN e = 1 .. n /\ \A i \in 1 .. n : e[i] \in Int
  OBVIOUS
<1>2. PICK M : M = {month[i] : i \in 1 .. n}
  OBVIOUS
<1>3. PICK top : top = month[n]
  OBVIOUS
<1>4. M \in SUBSET Nat /\ top \in Nat /\ top \in M /\ \A m \in M : m <= top
  BY <1>2, <1>3
<1>5. PICK hi \in Nat : hi = top + 1
  BY <1>4
<1>6. Before(M, 0) = {}
  <2>1. \A x \in M : ~(x < 0)
    BY <1>4
  <2> QED
    BY <2>1 DEF Before
<1>7. IsFiniteSet(M)
  <2>1. M \in SUBSET (0 .. top)
    BY <1>4
  <2>2. IsFiniteSet(0 .. top)
    BY <1>4, FS_Interval
  <2> QED
    BY <2>1, <2>2, FS_Subset
<1>8. PICK end : end = [m \in M |-> capital + e[LastOfMonth(month, n, m)]]
  OBVIOUS
<1>9. \A m \in M : end[m] \in Int /\ end[m] # 0
  BY <1>1, <1>2, <1>8, MonthEnds
<1>10. PICK base : base = [m \in M |-> IF Before(M, m) = {} THEN capital
                                      ELSE capital + e[LastOfMonth(month, n, Max(Before(M, m)))]]
  OBVIOUS
<1>11. PICK ret : ret = MonthlyReturns(e, month, capital)
  OBVIOUS
<1>12. ret = [m \in M |-> IF base[m] # 0 THEN Share(end[m] - base[m], base[m]) ELSE Share(0, 1)]
  BY <1>1, <1>2, <1>8, <1>10, <1>11 DEF MonthlyReturns, LastOfMonth, Before
<1>13. PICK gains : gains = [m \in M |-> [pnl |-> ret[m].part]]
  OBVIOUS
<1>14. \A k \in Nat : Before(M, k) \in SUBSET M
  BY DEF Before
<1>15. PICK P : P = {k \in Nat : Before(M, k) # {} => Max(Before(M, k)) \in Before(M, k)}
  OBVIOUS
<1>16. ASSUME NEW k \in 1 .. hi
       PROVE  IF k - 1 \in M
                THEN /\ Before(M, k) = Before(M, k - 1) \cup {k - 1}
                     /\ k - 1 \notin Before(M, k - 1)
                     /\ Max(Before(M, k)) = k - 1
                ELSE Before(M, k) = Before(M, k - 1)
  <2>1. Before(M, k) = IF k - 1 \in M THEN Before(M, k - 1) \cup {k - 1} ELSE Before(M, k - 1)
    <3>1. \A x \in M : x < k <=> x < k - 1 \/ x = k - 1
      BY <1>4
    <3>2. Before(M, k) = {x \in M : x < k - 1 \/ x = k - 1}
      BY <3>1 DEF Before
    <3> QED
      BY <3>2 DEF Before
  <2>2. k - 1 \notin Before(M, k - 1)
    BY DEF Before
  <2>3. ASSUME k - 1 \in M PROVE Max(Before(M, k)) = k - 1
    <3>1. PICK S : S = Before(M, k)
      OBVIOUS
    <3>2. S \in SUBSET Int
      <4>1. S \in SUBSET M
        BY <1>14, <3>1
      <4> QED
        BY <1>4, <4>1
    <3>3. k - 1 \in S /\ \A x \in S : x <= k - 1
      BY <1>4, <2>3, <3>1 DEF Before
    <3> QED
      BY <3>1, <3>3, <3>2, MaxIs
  <2> QED
    BY <2>1, <2>2, <2>3
<1>17. \A k \in 0 .. hi : k \in P
  <2>1. 0 \in P
    BY <1>15, <1>6
  <2>2. \A k \in 1 .. hi : k - 1 \in P => k \in P
    BY <1>15, <1>16
  <2> QED
    BY <2>1, <2>2, UpTo
<1>18. ASSUME NEW m \in M PROVE base[m] \in Int /\ base[m] # 0
  <2>1. CASE Before(M, m) = {}
    BY <1>10, <2>1
  <2>2. CASE Before(M, m) # {}
    <3>1. m \in 0 .. hi
      BY <1>4, <1>5
    <3>2. Max(Before(M, m)) \in M
      BY <1>14, <1>15, <1>17, <2>2, <3>1
    <3>3. base[m] = end[Max(Before(M, m))]
      BY <1>8, <1>10, <2>2, <3>2
    <3> QED
      BY <1>9, <3>2, <3>3
  <2> QED
    BY <2>1, <2>2
<1>19. \A m \in M : gains[m].pnl = end[m] - base[m] /\ gains[m].pnl \in Int
  BY <1>9, <1>12, <1>13, <1>18 DEF Share
<1>20. PICK g : g = CHOOSE f : f = [s \in SUBSET M |->
                      IF s = {} THEN 0 ELSE ret[First(s)].part + f[s \ {First(s)}]]
  OBVIOUS
<1>21. FoldFunction(LAMBDA r, sum : r.part + sum, 0, ret) = g[M]
  <2>1. DOMAIN ret = M
    BY <1>12
  <2> QED
    BY <1>20, <2>1 DEF FoldFunction, FoldFunctionOnSet, MapThenFoldSet, First
<1>22. Sums(g, M, gains)
  <2>1. PICK h : Sums(h, M, gains)
    BY <1>7, SumIsThere
  <2>2. ASSUME NEW s \in SUBSET M, s # {} PROVE gains[First(s)].pnl = ret[First(s)].part
    <3>1. First(s) \in M
      BY <2>2 DEF First
    <3> QED
      BY <1>13, <3>1
  <2>3. h = [s \in SUBSET M |-> IF s = {} THEN 0 ELSE ret[First(s)].part + h[s \ {First(s)}]]
    BY <2>1, <2>2 DEF Sums
  <2>4. g = [s \in SUBSET M |-> IF s = {} THEN 0 ELSE ret[First(s)].part + g[s \ {First(s)}]]
    BY <1>20, <2>3
  <2> QED
    BY <2>2, <2>4 DEF Sums
<1>23. ASSUME NEW T \in SUBSET M, NEW m \in T PROVE g[T] = g[T \ {m}] + gains[m].pnl
  BY <1>7, <1>19, <1>22, TakenOut
<1>24. g[{}] = 0
  BY <1>22 DEF Sums
<1>25. PICK Q : Q = {k \in Nat : g[Before(M, k)] =
                       IF Before(M, k) = {} THEN 0 ELSE end[Max(Before(M, k))] - capital}
  OBVIOUS
<1>26. 0 \in Q
  <2>1. g[Before(M, 0)] = IF Before(M, 0) = {} THEN 0 ELSE end[Max(Before(M, 0))] - capital
    BY <1>24, <1>6
  <2> QED
    BY <1>25, <2>1
<1>27. ASSUME NEW k \in 1 .. hi, k - 1 \in Q PROVE k \in Q
  <2>1. PICK m : m = k - 1
    OBVIOUS
  <2>2. PICK S, T : S = Before(M, m) /\ T = Before(M, k)
    OBVIOUS
  <2>3. g[S] = IF S = {} THEN 0 ELSE end[Max(S)] - capital
    BY <1>25, <1>27, <2>1, <2>2
  <2>4. CASE m \notin M
    BY <1>16, <1>25, <2>1, <2>2, <2>3, <2>4
  <2>5. CASE m \in M
    <3>1. T = S \cup {m} /\ m \notin S /\ Max(T) = m /\ T # {} /\ T \ {m} = S /\ m \in T
      BY <1>16, <2>1, <2>2, <2>5
    <3>2. T \in SUBSET M
      BY <1>14, <2>2
    <3>3. g[T] = g[S] + (end[m] - base[m])
      BY <1>19, <1>23, <2>5, <3>1, <3>2
    <3>4. base[m] = IF S = {} THEN capital ELSE end[Max(S)]
      <4>1. CASE S = {}
        BY <1>10, <2>2, <2>5, <4>1
      <4>2. CASE S # {}
        <5>1. m \in 0 .. hi
          BY <1>5, <2>1
        <5>2. Max(S) \in M
          BY <1>14, <1>15, <1>17, <2>2, <4>2, <5>1
        <5> QED
          BY <1>8, <1>10, <2>2, <2>5, <4>2, <5>2
      <4> QED
        BY <4>1, <4>2
    <3>5. end[m] \in Int /\ base[m] \in Int /\ g[S] = base[m] - capital
      BY <1>9, <1>18, <2>3, <2>5, <3>4
    <3>6. g[T] = end[m] - capital
      BY <3>3, <3>5
    <3>7. k \in Nat /\ g[T] = IF T = {} THEN 0 ELSE end[Max(T)] - capital
      BY <3>1, <3>6
    <3> QED
      BY <1>25, <2>2, <3>7
  <2> QED
    BY <2>4, <2>5
<1>28. \A k \in 0 .. hi : k \in Q
  BY <1>26, <1>27, UpTo
<1>29. Before(M, hi) = M /\ hi \in Q
  <2>1. \A x \in M : x < hi
    BY <1>4, <1>5
  <2>2. hi \in 0 .. hi
    OBVIOUS
  <2> QED
    BY <1>28, <2>1, <2>2 DEF Before
<1>30. Max(M) = top
  BY <1>4, MaxIs
<1>31. end[top] = capital + e[n]
  <2>1. LastOfMonth(month, n, top) = n
    <3>1. PICK S : S = {i \in 1 .. n : month[i] = top}
      OBVIOUS
    <3>2. S \in SUBSET Int
      BY <3>1
    <3>3. n \in S /\ \A x \in S : x <= n
      BY <1>3, <3>1
    <3> QED
      BY <3>1, <3>3, <3>2, MaxIs DEF LastOfMonth
  <2> QED
    BY <1>4, <1>8, <2>1
<1>32. g[M] = e[n]
  BY <1>1, <1>4, <1>25, <1>29, <1>30, <1>31
<1> QED
  BY <1>11, <1>21, <1>32

-----------------------------------------------------------------------------
(* The metrics                                                             *)

\* What the metrics read: the values of the portfolio, bar by bar.
LEMMA ValuesAre ==
  ASSUME IInv, NEW n \in Nat \ {0}, n = Bar
  PROVE  /\ equity \in Seq(Int) /\ Len(equity) = n /\ DOMAIN equity = 1 .. n
         /\ PortfolioValues(equity, Capital) \in Seq(Int)
         /\ Len(PortfolioValues(equity, Capital)) = n /\ PortfolioValues(equity, Capital) # <<>>
         /\ \A i \in 1 .. n : /\ equity[i] \in Int
                              /\ PortfolioValues(equity, Capital)[i] = Capital + equity[i]
<1>1. equity \in Seq(Int) /\ Len(equity) = n
  BY DEF IInv, TypeOK, Bar
<1>2. equity # <<>> /\ DOMAIN equity = 1 .. n /\ \A i \in 1 .. n : equity[i] \in Int
  BY <1>1
<1>3. PICK v : v = [i \in 1 .. n |-> Capital + equity[i]]
  OBVIOUS
<1>4. PortfolioValues(equity, Capital) = v
  BY <1>2, <1>3 DEF PortfolioValues
<1>5. \A i \in 1 .. n : Capital + equity[i] \in Int
  BY <1>2, CapitalAssumption
<1>6. v \in Seq(Int) /\ Len(v) = n
  BY <1>3, <1>5
<1>7. v # <<>>
  BY <1>6
<1> QED
  BY <1>1, <1>2, <1>3, <1>4, <1>6, <1>7

LEMMA DrawdownsHold ==
  ASSUME IInv, NEW n \in Nat \ {0}, n = Bar,
         NEW values, values = PortfolioValues(equity, Capital)
  PROVE  /\ MaxDrawdown(values).fall =
              Max(UNION {{equity[i] - equity[j] : i \in 1 .. j} : j \in 1 .. n})
         /\ MaxDrawdown(values).share \in ToSet(DrawdownSeries(values))
         /\ \A i \in 1 .. n : DrawdownSeries(values)[i].part > 0 <=>
                                Underwater(i) /\ \E j \in 1 .. i : values[j] > 0
<1>1. /\ values \in Seq(Int) /\ values # <<>> /\ Len(values) = n
      /\ \A i \in 1 .. n : equity[i] \in Int /\ values[i] = Capital + equity[i] /\ values[i] \in Int
  BY ValuesAre, CapitalAssumption
<1>2. PICK peak : /\ \A k \in 1 .. n : IsPeak(values, k, peak[k])
                  /\ IsWorst(values, n, peak, MaxDrawdown(values))
  BY <1>1, DeepestFall
<1>3. PICK high : /\ \A k \in 1 .. n : IsPeak(values, k, high[k])
                  /\ DOMAIN DrawdownSeries(values) = 1 .. n
                  /\ \A k \in 1 .. n :
                       DrawdownSeries(values)[k] = ShareOfPeak(high[k] - values[k], high[k])
  BY <1>1, UnderwaterCurve
<1>4. ASSUME NEW k \in 1 .. n
      PROVE  /\ peak[k] \in Int /\ \E i \in 1 .. k : values[i] = peak[k]
             /\ \A i \in 1 .. k : values[i] <= peak[k]
             /\ high[k] = peak[k]
  <2>1. IsPeak(values, k, peak[k]) /\ IsPeak(values, k, high[k])
    BY <1>2, <1>3
  <2>2. PICK i, j \in 1 .. k : values[i] = peak[k] /\ values[j] = high[k]
    BY <2>1 DEF IsPeak
  <2>3. peak[k] <= high[k] /\ high[k] <= peak[k]
    BY <2>1, <2>2 DEF IsPeak
  <2>4. peak[k] \in Int /\ high[k] \in Int
    BY <2>1 DEF IsPeak
  <2>5. high[k] = peak[k]
    BY <2>3, <2>4
  <2> QED
    BY <2>1, <2>5 DEF IsPeak
<1>5. PICK w : w = MaxDrawdown(values)
  OBVIOUS
<1>6. PICK falls : falls = UNION {{equity[i] - equity[j] : i \in 1 .. j} : j \in 1 .. n}
  OBVIOUS
<1>7. \A x : x \in falls <=> \E j \in 1 .. n : \E i \in 1 .. j : x = equity[i] - equity[j]
  BY <1>6
<1>8. \A j \in 1 .. n : \A i \in 1 .. j :
        /\ equity[i] \in Int /\ equity[j] \in Int /\ values[i] \in Int /\ values[j] \in Int
        /\ equity[i] - equity[j] = values[i] - values[j]
  BY <1>1, CapitalAssumption
<1>9. falls \in SUBSET Int
  BY <1>7, <1>8
<1>10. w.fall \in falls
  <2>1. PICK j \in 1 .. n : w.fall = peak[j] - values[j]
    BY <1>2, <1>5 DEF IsWorst
  <2>2. PICK i \in 1 .. j : values[i] = peak[j]
    BY <1>4
  <2> QED
    BY <1>7, <1>8, <2>1, <2>2
<1>11. ASSUME NEW x \in falls PROVE x <= w.fall
  <2>1. PICK j \in 1 .. n : \E i \in 1 .. j : x = equity[i] - equity[j]
    BY <1>7
  <2>2. PICK i \in 1 .. j : x = equity[i] - equity[j]
    BY <2>1
  <2>3. values[i] <= peak[j] /\ peak[j] \in Int /\ values[i] \in Int /\ values[j] \in Int
    BY <1>1, <1>4
  <2>4. peak[j] - values[j] <= w.fall /\ w.fall \in Int
    BY <1>2, <1>5 DEF IsWorst
  <2>5. x = values[i] - values[j]
    BY <1>8, <2>2
  <2> QED
    BY <2>3, <2>4, <2>5
<1>12. w.fall = Max(falls)
  BY <1>9, <1>10, <1>11, MaxIs
<1>13. w.share \in ToSet(DrawdownSeries(values))
  <2>1. PICK j \in 1 .. n : w.share = ShareOfPeak(peak[j] - values[j], peak[j])
    BY <1>2, <1>5 DEF IsWorst
  <2>2. DrawdownSeries(values)[j] = w.share
    BY <1>3, <1>4, <2>1
  <2> QED
    BY <1>3, <2>2 DEF ToSet
<1>14. ASSUME NEW i \in 1 .. n
       PROVE  DrawdownSeries(values)[i].part > 0 <=>
                Underwater(i) /\ \E j \in 1 .. i : values[j] > 0
  <2>1. DrawdownSeries(values)[i] = ShareOfPeak(peak[i] - values[i], peak[i])
    BY <1>3, <1>4
  <2>2. peak[i] \in Int /\ values[i] \in Int /\ equity[i] \in Int
    BY <1>1, <1>4
  <2>3. DrawdownSeries(values)[i].part > 0 <=> peak[i] > 0 /\ peak[i] - values[i] > 0
    BY <2>1, <2>2 DEF ShareOfPeak, Share
  <2>4. peak[i] > 0 <=> \E j \in 1 .. i : values[j] > 0
    <3>1. PICK p \in 1 .. i : values[p] = peak[i]
      BY <1>4
    <3>2. \A j \in 1 .. i : values[j] \in Int /\ values[j] <= peak[i]
      BY <1>1, <1>4
    <3> QED
      BY <2>2, <3>1, <3>2
  <2>5. peak[i] - values[i] > 0 <=> Underwater(i)
    <3>1. PICK p \in 1 .. i : values[p] = peak[i]
      BY <1>4
    <3>2. \A j \in 1 .. i : /\ values[j] \in Int /\ equity[j] \in Int /\ values[j] <= peak[i]
                            /\ equity[j] - equity[i] = values[j] - values[i]
      BY <1>1, <1>4, <1>8
    <3>3. \A j \in 1 .. i : equity[j] > equity[i] <=> values[j] > values[i]
      BY <2>2, <3>2
    <3>4. Underwater(i) <=> \E j \in 1 .. i : values[j] > values[i]
      BY <3>3 DEF Underwater
    <3> QED
      BY <2>2, <3>1, <3>2, <3>4
  <2> QED
    BY <2>3, <2>4, <2>5
<1> QED
  BY <1>5, <1>6, <1>12, <1>13, <1>14

LEMMA StretchesHold ==
  ASSUME IInv, NEW n \in Nat \ {0}, n = Bar,
         NEW values, values = PortfolioValues(equity, Capital)
  PROVE  LongestDrawdown(values) = LengthOf(Stretches)
<1>1. /\ values \in Seq(Int) /\ values # <<>> /\ Len(values) = n
      /\ \A i \in 1 .. n : equity[i] \in Int /\ values[i] = Capital + equity[i] /\ values[i] \in Int
  BY ValuesAre, CapitalAssumption
<1>2. PICK U : U = {k \in 1 .. n : \E j \in 1 .. k : values[j] > values[k]}
  OBVIOUS
<1>3. Longest(LongestDrawdown(values), n, U)
  BY <1>1, <1>2, LongestBelow
<1>4. ASSUME NEW k \in 1 .. n PROVE k \in U <=> Underwater(k)
  <2>1. \A j \in 1 .. k : values[j] > values[k] <=> equity[j] > equity[k]
    BY <1>1, CapitalAssumption
  <2> QED
    BY <1>2, <2>1 DEF Underwater
<1>5. PICK S : S = {p \in (1 .. n) \X (1 .. n) : p[1] <= p[2] /\ \A k \in p[1] .. p[2] : k \in U}
  OBVIOUS
<1>6. Stretches = S
  <2>1. ASSUME NEW p \in (1 .. n) \X (1 .. n), NEW k \in p[1] .. p[2] PROVE k \in 1 .. n
    OBVIOUS
  <2>2. ASSUME NEW p \in (1 .. n) \X (1 .. n)
        PROVE  (\A k \in p[1] .. p[2] : Underwater(k)) <=> (\A k \in p[1] .. p[2] : k \in U)
    BY <1>4, <2>1
  <2> QED
    BY <1>5, <2>2 DEF Stretches
<1>7. LongestDrawdown(values) = LengthOf(S)
  BY <1>3, <1>5, LongestIsLength
<1> QED
  BY <1>6, <1>7

LEMMA RunsHold ==
  ASSUME IInv
  PROVE  /\ MaxConsecutive(closed, TRUE) = LengthOf(Runs(LAMBDA t : t.pnl > 0))
         /\ MaxConsecutive(closed, FALSE) = LengthOf(Runs(LAMBDA t : t.pnl < 0))
<1>1. closed \in Seq(Trades)
  BY DEF IInv, TypeOK
<1>2. PICK n \in Nat : n = Len(closed)
  BY <1>1
<1>3. ASSUME NEW winning \in BOOLEAN, NEW S,
             S = {p \in (1 .. n) \X (1 .. n) :
                    p[1] <= p[2] /\ \A k \in p[1] .. p[2] : Matches(closed[k], winning)}
      PROVE  MaxConsecutive(closed, winning) = LengthOf(S)
  <2>1. PICK U : U = {k \in 1 .. n : Matches(closed[k], winning)}
    OBVIOUS
  <2>2. Longest(MaxConsecutive(closed, winning), n, U)
    BY <1>1, <1>2, <2>1, LongestTrades
  <2>3. PICK T : T = {p \in (1 .. n) \X (1 .. n) :
                        p[1] <= p[2] /\ \A k \in p[1] .. p[2] : k \in U}
    OBVIOUS
  <2>4. ASSUME NEW p \in (1 .. n) \X (1 .. n)
        PROVE  (\A k \in p[1] .. p[2] : Matches(closed[k], winning)) <=>
                 (\A k \in p[1] .. p[2] : k \in U)
    BY <2>1
  <2>5. T = S
    BY <1>3, <2>3, <2>4
  <2> QED
    BY <2>2, <2>3, <2>5, LongestIsLength
<1>4. PICK S : S = {p \in (1 .. n) \X (1 .. n) :
                      p[1] <= p[2] /\ \A k \in p[1] .. p[2] : Matches(closed[k], TRUE)}
  OBVIOUS
<1>5. PICK T : T = {p \in (1 .. n) \X (1 .. n) :
                      p[1] <= p[2] /\ \A k \in p[1] .. p[2] : Matches(closed[k], FALSE)}
  OBVIOUS
<1>6. Runs(LAMBDA t : t.pnl > 0) = S
  BY <1>2, <1>4 DEF Runs, Matches
<1>7. Runs(LAMBDA t : t.pnl < 0) = T
  BY <1>2, <1>5 DEF Runs, Matches
<1>8. MaxConsecutive(closed, TRUE) = LengthOf(S) /\ MaxConsecutive(closed, FALSE) = LengthOf(T)
  BY <1>3, <1>4, <1>5
<1> QED
  BY <1>6, <1>7, <1>8

LEMMA HeldHolds ==
  ASSUME IInv
  PROVE  HeldBars(closed) =
           Cardinality(UNION {HeldBy(closed[n]) : n \in DOMAIN closed}) + Cardinality(SharedBars)
<1>1. closed \in Seq(Trades) /\ InSequenceBy(closed, Bar)
  BY DEF IInv, TypeOK, TradesInSequence, InSequence, InSequenceBy
<1>2. PICK n \in Nat : n = Len(closed)
  BY <1>1
<1>3. HeldBars(closed) = Cardinality(BarsOf(closed, n)) + Cardinality(SharedIn(closed, n))
  BY <1>1, <1>2, BarsHeld
<1>4. DOMAIN closed = 1 .. n
  BY <1>1, <1>2
<1> QED
  BY <1>2, <1>3, <1>4 DEF BarsOf, SharedIn, SharedBars

LEMMA GainsHold ==
  ASSUME IInv, NEW n \in Nat \ {0}, n = Bar,
         NEW values, values = PortfolioValues(equity, Capital),
         Capital # 0, \A i \in 1 .. n : values[i] # 0
  PROVE  FoldFunction(LAMBDA r, sum : r.part + sum, 0, MonthlyReturns(equity, Months, Capital))
           = equity[n]
<1>1. /\ equity \in Seq(Int) /\ Len(equity) = n
      /\ \A i \in 1 .. n : values[i] = Capital + equity[i]
  BY ValuesAre
<1>2. n <= NumBars /\ NumBars \in Nat
  BY BarsAssumption DEF IInv, TypeOK, Bar
<1>3. /\ \A i \in 1 .. n : Months[i] \in Nat
      /\ \A i, j \in 1 .. n : i <= j => Months[i] <= Months[j]
  BY <1>2, MonthsAssumption
<1>4. Capital \in Int /\ \A i \in 1 .. n : Capital + equity[i] # 0
  BY <1>1, CapitalAssumption
<1> QED
  BY <1>1, <1>3, <1>4, GainsAddUp

\* The metrics are what their names say, for every walk, capital and calendar: the
\* scans of metrics.py agree with definitions that look at the whole curve, or at the
\* whole list of trades, at once.
THEOREM MetricsAreWhatTheySay == Spec => []MetricsMeanTheirNames
<1>1. IInv => MetricsMeanTheirNames
  <2> SUFFICES ASSUME IInv, Bar > 0 PROVE MetricsMeanTheirNames
    BY DEF MetricsMeanTheirNames
  <2>1. PICK n \in Nat \ {0} : n = Bar
    BY DEF IInv, TypeOK, Bar
  <2>2. PICK values : values = PortfolioValues(equity, Capital)
    OBVIOUS
  <2>3. /\ MaxDrawdown(values).fall =
             Max(UNION {{equity[i] - equity[j] : i \in 1 .. j} : j \in 1 .. n})
        /\ MaxDrawdown(values).share \in ToSet(DrawdownSeries(values))
        /\ \A i \in 1 .. n : DrawdownSeries(values)[i].part > 0 <=>
                               Underwater(i) /\ \E j \in 1 .. i : values[j] > 0
    BY <2>1, <2>2, DrawdownsHold
  <2>4. LongestDrawdown(values) = LengthOf(Stretches)
    BY <2>1, <2>2, StretchesHold
  <2>5. /\ MaxConsecutive(closed, TRUE) = LengthOf(Runs(LAMBDA t : t.pnl > 0))
        /\ MaxConsecutive(closed, FALSE) = LengthOf(Runs(LAMBDA t : t.pnl < 0))
    BY RunsHold
  <2>6. HeldBars(closed) =
          Cardinality(UNION {HeldBy(closed[k]) : k \in DOMAIN closed}) + Cardinality(SharedBars)
    BY HeldHolds
  <2>7. (Capital # 0 /\ \A i \in 1 .. n : values[i] # 0) =>
          FoldFunction(LAMBDA r, sum : r.part + sum, 0, MonthlyReturns(equity, Months, Capital))
            = equity[n]
    BY <2>1, <2>2, GainsHold
  <2> QED
    BY <2>1, <2>2, <2>3, <2>4, <2>5, <2>6, <2>7 DEF MetricsMeanTheirNames
<1> QED
  BY <1>1, InductiveInvariant, PTL
=============================================================================
