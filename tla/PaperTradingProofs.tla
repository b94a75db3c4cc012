------------------------- MODULE PaperTradingProofs -------------------------
(***************************************************************************)
(* Proofs about PaperTrading: types, and the bound on what a day's trading *)
(* can lose, for all prices, settings, slippage, calendars and verdicts.   *)
(***************************************************************************)
EXTENDS PaperTrading, TLAPS

\* Multiplication by a natural number keeps the order.
LEMMA TimesMonotone ==
  ASSUME NEW a \in Int, NEW b \in Int, NEW q \in Nat, a <= b
  PROVE  a * q <= b * q
<1>1. PICK d \in Nat : b = a + d
  BY SMT
<1>2. b * q = a * q + d * q
  BY <1>1, SMT
<1>3. d * q >= 0
  BY <1>1, SMT
<1> QED
  BY <1>2, <1>3, <1>1, SMT

\* The profit at any price is an integer.
LEMMA PnlIsInt ==
  ASSUME NEW p \in Positions, NEW price \in Nat
  PROVE  Pnl(p, price) \in Int
  BY SlippageAssumption, SMT DEF Pnl, Positions

\* The stop lies on the losing side of the target.
Bracketed(p) == IF p.side = "LONG" THEN p.stop <= p.target ELSE p.target <= p.stop

\* A bracketed position makes at its target at least what it makes at its stop.
LEMMA TargetLosesLess ==
  ASSUME NEW p \in Positions, Bracketed(p)
  PROVE  Pnl(p, p.target) >= Pnl(p, p.stop)
<1> DEFINE gap == IF p.side = "LONG" THEN p.target - p.stop ELSE p.stop - p.target
<1>1. /\ p.stop \in Nat /\ p.target \in Nat /\ p.qty \in Nat /\ p.fill \in Nat
      /\ p.side \in {"LONG", "SHORT"}
  BY PricesAssumption DEF Positions, Sides
<1>2. Basis \in Nat
  BY SlippageAssumption
<1>3. CASE p.side = "LONG"
  <2>1. p.stop * Basis <= p.target * Basis
    BY <1>1, <1>2, <1>3, TimesMonotone DEF Bracketed
  <2>2. p.stop * Basis - p.fill <= p.target * Basis - p.fill
    BY <2>1, <1>1, <1>2, SMT
  <2>3. (p.stop * Basis - p.fill) * p.qty <= (p.target * Basis - p.fill) * p.qty
    BY <2>2, <1>1, <1>2, TimesMonotone, SMT
  <2> QED
    BY <2>3, <1>3, <1>1, <1>2, SMT DEF Pnl
<1>4. CASE p.side = "SHORT"
  <2>1. p.target * Basis <= p.stop * Basis
    BY <1>1, <1>2, <1>4, TimesMonotone DEF Bracketed
  <2>2. p.fill - p.stop * Basis <= p.fill - p.target * Basis
    BY <2>1, <1>1, <1>2, SMT
  <2>3. (p.fill - p.stop * Basis) * p.qty <= (p.fill - p.target * Basis) * p.qty
    BY <2>2, <1>1, <1>2, TimesMonotone, SMT
  <2> QED
    BY <2>3, <1>4, <1>1, <1>2, SMT DEF Pnl
<1> QED
  BY <1>1, <1>3, <1>4

\* A fill is a positive price, from which the signal's entry can be recovered,
\* and at the stop it loses something or nothing.
LEMMA FillFacts ==
  ASSUME NEW sig \in Signals, Directed(sig)
  PROVE  /\ FillPrice(sig) \in Nat \ {0}
         /\ sig.side = "LONG" => /\ FillPrice(sig) \div (Basis + SlippageBps) = sig.entry
                                 /\ FillPrice(sig) >= sig.stop * Basis
         /\ sig.side = "SHORT" => /\ FillPrice(sig) \div (Basis - SlippageBps) = sig.entry
                                  /\ FillPrice(sig) <= sig.stop * Basis
<1>1. /\ sig.entry \in Nat \ {0} /\ sig.stop \in Nat \ {0}
      /\ sig.side \in {"LONG", "SHORT"}
  BY PricesAssumption DEF Signals, Sides
<1>2. /\ Basis \in Nat \ {0} /\ SlippageBps \in Nat
      /\ Basis + SlippageBps \in Nat \ {0} /\ Basis - SlippageBps \in Nat \ {0}
  BY SlippageAssumption
<1>3. \A a, b \in Nat \ {0} : a * b \in Nat \ {0} /\ (a * b) \div b = a
  BY SMT
<1>4. \A a \in Nat \ {0} : a * (Basis + SlippageBps) >= a * Basis
                           /\ a * (Basis - SlippageBps) <= a * Basis
  BY <1>2, TimesMonotone, SMT
<1>5. CASE sig.side = "LONG"
  <2>1. sig.entry * Basis >= sig.stop * Basis
    BY <1>1, <1>2, <1>5, TimesMonotone DEF Directed
  <2> QED
    BY <2>1, <1>1, <1>2, <1>3, <1>4, <1>5 DEF FillPrice
<1>6. CASE sig.side = "SHORT"
  <2>1. sig.entry * Basis <= sig.stop * Basis
    BY <1>1, <1>2, <1>6, TimesMonotone DEF Directed
  <2>2. FillPrice(sig) = sig.entry * (Basis - SlippageBps)
    BY <1>6 DEF FillPrice
  <2>3. FillPrice(sig) <= sig.entry * Basis
    BY <2>2, <1>1, <1>4
  <2>4. sig.entry * (Basis - SlippageBps) \in Nat \ {0}
    BY <1>1, <1>2, <1>3
  <2>5. (sig.entry * (Basis - SlippageBps)) \div (Basis - SlippageBps) = sig.entry
    BY <1>1, <1>2, <1>3
  <2>6. FillPrice(sig) \in Nat \ {0} /\ FillPrice(sig) \div (Basis - SlippageBps) = sig.entry
    BY <2>2, <2>4, <2>5, Zenon
  <2> QED
    BY <2>1, <2>3, <2>6, <1>1, <1>2, <1>6, SMT
<1> QED
  BY <1>1, <1>5, <1>6

\* Flooring gives whole lots and never more than it was given.
LEMMA FloorFacts ==
  ASSUME NEW q \in Nat, settings.lot \in Nat \ {0}
  PROVE  /\ FloorToLot(q) \in Nat
         /\ FloorToLot(q) <= q
         /\ FloorToLot(q) % settings.lot = 0
<1> DEFINE n == q \div settings.lot
<1>1. n \in Nat /\ n * settings.lot <= q /\ n * settings.lot \in Nat
  BY SMT
<1>2. (n * settings.lot) % settings.lot = 0
  BY <1>1, SMT
<1> QED
  BY <1>1, <1>2 DEF FloorToLot

-----------------------------------------------------------------------------
(* Sizing: the multiplier, the lot and the override only ever shrink.      *)

\* Before the analyst: the rules size a directed signal in whole units.
LEMMA BaseQtyIsNat ==
  ASSUME NEW sig \in Signals, Directed(sig), settings \in SettingsType
  PROVE  BaseQty(sig) \in Nat
<1>1. sig.entry \in Nat \ {0} /\ sig.stop \in Nat \ {0} /\ sig.side \in {"LONG", "SHORT"}
  BY PricesAssumption DEF Signals, Sides
<1>2. Distance(sig.entry, sig.stop) \in Nat \ {0}
  BY <1>1 DEF Distance, Directed
<1>3. settings.fixedNotional \in Nat /\ settings.riskBudget \in Nat
  BY DEF SettingsType
<1>4. \A a \in Nat, b \in Nat \ {0} : a \div b \in Nat
  BY SMT
<1> QED
  BY <1>1, <1>2, <1>3, <1>4 DEF BaseQty

\* RiskManager.size never exceeds the base quantity and gives whole lots.
LEMMA SizeFacts ==
  ASSUME NEW sig \in Signals, Directed(sig), settings \in SettingsType,
         NEW m \in 0 .. Steps
  PROVE  Size(sig, m) \in Nat /\ Size(sig, m) <= BaseQty(sig)
         /\ Size(sig, m) % settings.lot = 0
<1> DEFINE b == BaseQty(sig)
<1> DEFINE s == (b * m) \div Steps
<1>1. b \in Nat
  BY BaseQtyIsNat
<1>2. Steps \in Nat \ {0}
  BY BoundsAssumption
<1>3. b * m \in Nat /\ b * m <= b * Steps
  <2>1. m * b <= Steps * b
    BY <1>1, <1>2, TimesMonotone, SMT
  <2> QED
    BY <2>1, <1>1, <1>2, SMT
<1>4. s \in Nat /\ s <= b
  <2>. HIDE DEF b
  <2> QED
    BY <1>1, <1>2, <1>3, SMT
<1>5. settings.lot \in Nat \ {0}
  BY DEF SettingsType
<1>6. FloorToLot(s) \in Nat /\ FloorToLot(s) <= s /\ FloorToLot(s) % settings.lot = 0
  <2>. HIDE DEF s
  <2> QED
    BY <1>4, <1>5, FloorFacts
<1>7. Size(sig, m) = FloorToLot(s)
  BY DEF Size
<1> HIDE DEF b, s
<1>8. FloorToLot(s) <= b
  BY <1>1, <1>4, <1>6, SMT
<1> QED
  BY <1>6, <1>7, <1>8 DEF b

\* _apply_qty_cap never exceeds the quantity or the override.
LEMMA CapFacts ==
  ASSUME NEW q \in Nat, q % settings.lot = 0, settings \in SettingsType, CapQty(q) > 0
  PROVE  /\ CapQty(q) \in Nat \ {0} /\ CapQty(q) <= q
         /\ CapQty(q) % settings.lot = 0
         /\ settings.override # NoOverride => CapQty(q) <= settings.override
<1>1. settings.lot \in Nat \ {0} /\ settings.override \in Int \cup {NoOverride}
  BY DEF SettingsType
<1>2. CASE settings.override = NoOverride
  BY <1>2, <1>1, SMT DEF CapQty
<1>3. CASE settings.override # NoOverride /\ settings.override <= 0
  <2>1. CapQty(q) = 0
    BY <1>3 DEF CapQty
  <2> QED
    BY <2>1, SMT
<1>4. CASE settings.override # NoOverride /\ ~(settings.override <= 0)
  <2> DEFINE r == IF q <= settings.override THEN q ELSE settings.override
  <2>1. settings.override \in Int
    BY <1>1, <1>4
  <2>2. r \in Nat /\ r <= q /\ r <= settings.override
    BY <2>1, <1>4, SMT
  <2>3. CapQty(q) = FloorToLot(r)
    BY <1>4 DEF CapQty
  <2> HIDE DEF r
  <2>4. FloorToLot(r) \in Nat /\ FloorToLot(r) <= r /\ FloorToLot(r) % settings.lot = 0
    BY <2>2, <1>1, FloorFacts
  <2> QED
    BY <2>1, <2>2, <2>3, <2>4, SMT
<1> QED
  BY <1>2, <1>3, <1>4

-----------------------------------------------------------------------------
(* The inductive invariant                                                 *)

Planned(p) == -Pnl(p, p.stop)

EntrySignal(p) ==
  [side |-> p.side, entry |-> EntryOf(p), stop |-> p.stop, target |-> p.target]

\* What the loop knows while it holds nothing, or while a signal waits.
FlatFacts ==
  /\ position = NoPosition => dailyUnrealized = 0
  /\ pc = "analyst" =>
       /\ Directed(signal)
       /\ ~InNoTradeWindow(bar.minute)
       /\ position = NoPosition => dailyRealized > -(settings.dailyCap * Basis)
  /\ pc # "bar" => (settings.scheduler => bar.minute \in MarketHours[1] .. MarketHours[2])
  /\ killed /\ pc = "analyst" => afterKill = 0

\* What is true of a position from its fill on.
HeldFacts ==
  position # NoPosition =>
    /\ dailyRealized > -(settings.dailyCap * Basis)
    /\ plannedRisk = Planned(position)
    /\ Bracketed(position)
    /\ ~InNoTradeWindow(position.minute)
    /\ settings.scheduler => position.minute \in MarketHours[1] .. MarketHours[2]

IInv ==
  /\ TypeOK /\ FlatFacts /\ HeldFacts
  /\ plannedRisk >= 0
  /\ LossBounded /\ ExitsHonoured /\ SizedWithinRules /\ OneFillAfterKill

\* The loop starts inside the invariant.
LEMMA InitEstablishes == Init => IInv
<1> SUFFICES ASSUME Init PROVE IInv
  OBVIOUS
<1>1. settings \in SettingsType /\ settings.dailyCap \in Nat /\ Basis \in Nat
  BY SettingsAssumption, SlippageAssumption DEF Init, SettingsType
<1>2. settings.dailyCap * Basis >= 0
  BY <1>1, SMT
<1>3. TypeOK
  <2>1. 0 \in Minutes /\ bars \in 0 .. MaxBars /\ kills \in 0 .. MaxKills
    BY CalendarAssumption, BoundsAssumption, SMT DEF Minutes, Init
  <2>2. bar \in [day : {0} \cup Days, minute : Minutes, close : {0} \cup Prices]
    BY <2>1 DEF Init
  <2>3. openPositions = OpenCount(position) /\ seen \in Nat \X Nat
    BY DEF OpenCount, Init
  <2>4. /\ account \in Int /\ dailyRealized \in Int /\ dailyUnrealized \in Int
        /\ plannedRisk \in Int /\ today \in Int /\ afterKill \in Nat
    BY SMT DEF Init
  <2>5. /\ settings \in Settings /\ pc \in {"bar", "signal", "analyst"}
        /\ signal \in Signals \cup {NoSignal} /\ position \in Positions \cup {NoPosition}
        /\ killed \in BOOLEAN
    BY DEF Init
  <2>6. (pc = "analyst") <=> (signal # NoSignal)
    BY DEF Init
  <2> QED
    BY <2>1, <2>2, <2>3, <2>4, <2>5, <2>6 DEF TypeOK
<1> QED
  BY <1>1, <1>2, <1>3, SMT DEF Init, IInv, FlatFacts, HeldFacts, LossBounded, ExitsHonoured,
     SizedWithinRules, OneFillAfterKill

-----------------------------------------------------------------------------
(* Steps                                                                   *)

\* What only speaks of settings, the position and the realized profit is kept
\* by every step that leaves those alone.
LEMMA QuietSteps ==
  ASSUME IInv, UNCHANGED <<settings, position, dailyRealized, plannedRisk, seen>>
  PROVE  /\ HeldFacts' /\ plannedRisk' >= 0
         /\ LossBounded' /\ ExitsHonoured' /\ SizedWithinRules'
<1>1. HeldFacts'
  BY DEF IInv, HeldFacts, Planned, Pnl, Bracketed, InNoTradeWindow
<1>2. plannedRisk' >= 0 /\ LossBounded' /\ ExitsHonoured'
  BY DEF IInv, LossBounded, ExitsHonoured
<1>3. SizedWithinRules'
  BY DEF IInv, SizedWithinRules, BaseQty, TradeRisk
<1> QED
  BY <1>1, <1>2, <1>3

\* A bar, skipped or taken, moves the clock to a time of the calendar.
LEMMA BarTaken ==
  ASSUME TypeOK, NEW day \in Days, NEW minute \in Minutes, NEW close \in Prices,
         TakeBar(day, minute, close)
  PROVE  /\ bar' \in [day : {0} \cup Days, minute : Minutes, close : {0} \cup Prices]
         /\ bar'.minute = minute /\ bar'.day = day /\ bar'.close = close
         /\ bars' \in 0 .. MaxBars
<1>1. bars' \in 0 .. MaxBars
  BY BoundsAssumption, SMT DEF TypeOK, TakeBar
<1> QED
  BY <1>1 DEF TakeBar

\* What a processed bar makes of the position.
LEMMA BarExitFacts ==
  ASSUME IInv, NEW close \in Prices, NEW low \in Prices, NEW high \in Prices,
         low <= close, close <= high, BarExits(close, low, high),
         UNCHANGED settings, UNCHANGED plannedRisk
  PROVE  /\ dailyRealized' \in Int /\ dailyUnrealized' \in Int /\ account' \in Int
         /\ position' \in {position, NoPosition}
         /\ openPositions' = OpenCount(position)'
         /\ position' = NoPosition => dailyUnrealized' = 0
         /\ position' # NoPosition => dailyRealized' = dailyRealized
         /\ LossBounded' /\ ExitsHonoured'
         /\ seen' \in Nat \X Nat
<1> DEFINE exits == ExitPrices(position, low, high)
<1> DEFINE pnl == IF exits = {} THEN 0 ELSE Pnl(position, CHOOSE x \in exits : TRUE)
<1>0. /\ position \in Positions \cup {NoPosition} /\ dailyRealized \in Int /\ account \in Int
      /\ openPositions = OpenCount(position) /\ seen \in Nat \X Nat
      /\ plannedRisk \in Int /\ plannedRisk >= 0 /\ settings \in SettingsType
      /\ NoPosition \notin Positions
      /\ close \in Nat /\ low \in Nat /\ high \in Nat
  BY SettingsAssumption, PricesAssumption, NullAssumption DEF IInv, TypeOK
<1>1. /\ position' = IF exits = {} THEN position ELSE NoPosition
      /\ account' = account + pnl
      /\ dailyRealized' = dailyRealized + pnl
      /\ openPositions' = IF exits = {} THEN openPositions ELSE 0
      /\ dailyUnrealized' = MarkToMarket(position', close)
      /\ seen' = IF position = NoPosition THEN seen
                 ELSE <<IF low < seen[1] THEN low ELSE seen[1],
                        IF high > seen[2] THEN high ELSE seen[2]>>
  BY DEF BarExits, MarkAfterExits
<1>2. pnl \in Int /\ (exits # {} => position \in Positions /\ pnl >= Pnl(position, position.stop))
  <2>1. CASE exits = {}
    BY <2>1
  <2>2. CASE exits # {}
    <3>1. position \in Positions
      BY <2>2, <1>0 DEF ExitPrices
    <3>2. exits = {position.stop} \/ exits = {position.target}
      BY <2>2 DEF ExitPrices
    <3>3. pnl = Pnl(position, position.stop) \/ pnl = Pnl(position, position.target)
      BY <2>2, <3>2
    <3>4. position.stop \in Nat /\ position.target \in Nat
      BY <3>1, PricesAssumption DEF Positions
    <3>5. Pnl(position, position.stop) \in Int /\ Pnl(position, position.target) \in Int
      BY <3>1, <3>4, PnlIsInt
    <3>6. Pnl(position, position.target) >= Pnl(position, position.stop)
      BY <3>1, <1>0, TargetLosesLess DEF IInv, HeldFacts
    <3> HIDE DEF pnl
    <3> QED
      BY <3>1, <3>3, <3>5, <3>6, <2>2, SMT
  <2> QED
    BY <2>1, <2>2
<1> HIDE DEF pnl
<1>3. dailyRealized' \in Int /\ account' \in Int
  BY <1>0, <1>1, <1>2
<1>4. dailyUnrealized' \in Int /\ (position' = NoPosition => dailyUnrealized' = 0)
  BY <1>0, <1>1, PnlIsInt DEF MarkToMarket
<1>5. openPositions' = OpenCount(position)'
  BY <1>0, <1>1 DEF OpenCount
<1>6. position' # NoPosition => dailyRealized' = dailyRealized
  BY <1>0, <1>1 DEF pnl
<1>7. LossBounded'
  <2> DEFINE cap == settings.dailyCap * Basis
  <2>1. cap \in Int
    BY <1>0, SlippageAssumption, SMT DEF SettingsType
  <2>2. CASE exits = {}
    <3>1. dailyRealized' = dailyRealized
      BY <1>0, <1>1, <2>2 DEF pnl
    <3> QED
      BY <3>1 DEF IInv, LossBounded
  <2>3. CASE exits # {}
    <3>1. position \in Positions /\ pnl >= Pnl(position, position.stop)
      BY <1>2, <2>3
    <3>2. dailyRealized > -cap /\ plannedRisk = -Pnl(position, position.stop)
      BY <3>1, <1>0 DEF IInv, HeldFacts, Planned
    <3>3. Pnl(position, position.stop) \in Int
      BY <3>1, PnlIsInt, PricesAssumption DEF Positions
    <3> HIDE DEF cap
    <3>4. dailyRealized' >= -cap - plannedRisk
      BY <1>0, <1>1, <1>2, <2>1, <3>1, <3>2, <3>3, SMT
    <3> QED
      BY <3>4 DEF LossBounded, cap
  <2> QED
    BY <2>2, <2>3
<1>8. ExitsHonoured'
  <2> SUFFICES ASSUME position' # NoPosition PROVE ExitsHonoured'
    BY DEF ExitsHonoured
  <2>1. exits = {} /\ position' = position /\ position \in Positions
    BY <1>1, <1>0
  <2>2. ~StopHit(position, low, high) /\ ~TargetHit(position, low, high)
    BY <2>1, <1>0 DEF ExitPrices
  <2>3. seen' = <<IF low < seen[1] THEN low ELSE seen[1], IF high > seen[2] THEN high ELSE seen[2]>>
    BY <1>1, <2>1, <1>0
  <2>4. ExitsHonoured /\ position.stop \in Nat /\ position.target \in Nat
    BY <2>1, PricesAssumption DEF IInv, Positions
  <2>5. seen[1] \in Nat /\ seen[2] \in Nat
    BY <1>0
  <2> QED
    BY <2>1, <2>2, <2>3, <2>4, <2>5, <1>0, SMT DEF ExitsHonoured, StopHit, TargetHit
<1>9. seen' \in Nat \X Nat
  BY <1>0, <1>1
<1> QED
  BY <1>3, <1>4, <1>5, <1>6, <1>7, <1>8, <1>9, <1>1

\* A skipped bar changes the clock only.
LEMMA SkipBarKeeps == IInv /\ SkipBar => IInv'
<1> SUFFICES ASSUME IInv, SkipBar PROVE IInv'
  OBVIOUS
<1>1. PICK day \in Days, minute \in Minutes, close \in Prices :
        /\ TakeBar(day, minute, close)
        /\ today' = TodayBefore(day)
        /\ UNCHANGED <<settings, pc, signal, position, account, riskState, killed,
                       kills, seen, plannedRisk, afterKill>>
  BY DEF SkipBar
<1>2. /\ bar' \in [day : {0} \cup Days, minute : Minutes, close : {0} \cup Prices]
      /\ bars' \in 0 .. MaxBars
  BY <1>1, BarTaken DEF IInv
<1>3. today' \in Int
  BY <1>1 DEF TodayBefore, IInv, TypeOK
<1>4. pc = "bar" /\ pc' = "bar"
  BY <1>1 DEF TakeBar
<1>5. TypeOK'
  BY <1>1, <1>2, <1>3, Zenon DEF IInv, TypeOK, riskState, OpenCount
<1>6. FlatFacts'
  BY <1>1, <1>4 DEF IInv, FlatFacts, riskState
<1>7. /\ HeldFacts' /\ plannedRisk' >= 0
      /\ LossBounded' /\ ExitsHonoured' /\ SizedWithinRules'
  BY <1>1, QuietSteps DEF riskState
<1>8. OneFillAfterKill'
  BY <1>1 DEF IInv, OneFillAfterKill
<1> QED
  BY <1>5, <1>6, <1>7, <1>8 DEF IInv

\* A processed bar keeps the invariant: see BarExitFacts.
LEMMA ProcessBarKeeps == IInv /\ ProcessBar => IInv'
<1> SUFFICES ASSUME IInv, ProcessBar PROVE IInv'
  OBVIOUS
<1>1. PICK day \in Days, minute \in Minutes, close \in Prices, low \in Prices, high \in Prices :
        /\ low <= close /\ close <= high
        /\ TakeBar(day, minute, close)
        /\ ShouldProcess(day, minute)
        /\ BarExits(close, low, high)
        /\ pc' = "signal"
        /\ UNCHANGED <<settings, signal, killed, kills, plannedRisk, afterKill>>
  BY DEF ProcessBar
<1>2. /\ bar' \in [day : {0} \cup Days, minute : Minutes, close : {0} \cup Prices]
      /\ bar'.minute = minute /\ bars' \in 0 .. MaxBars
  BY <1>1, BarTaken DEF IInv
<1>3. /\ dailyRealized' \in Int /\ dailyUnrealized' \in Int /\ account' \in Int
      /\ position' \in {position, NoPosition}
      /\ openPositions' = OpenCount(position)'
      /\ position' = NoPosition => dailyUnrealized' = 0
      /\ position' # NoPosition => dailyRealized' = dailyRealized
      /\ LossBounded' /\ ExitsHonoured'
      /\ seen' \in Nat \X Nat
  BY <1>1, BarExitFacts
<1>4. today' \in Int
  <2> DEFINE exits == ExitPrices(position, low, high)
  <2> DEFINE pnl == IF exits = {} THEN 0 ELSE Pnl(position, CHOOSE x \in exits : TRUE)
  <2>1. today' = TodayBefore(bar'.day) + pnl
    BY <1>1 DEF BarExits
  <2>2. TodayBefore(bar'.day) \in Int
    BY DEF TodayBefore, IInv, TypeOK
  <2>3. pnl \in Int
    <3>1. CASE exits = {}
      BY <3>1
    <3>2. CASE exits # {}
      <4>1. position \in Positions
        BY <3>2 DEF ExitPrices, IInv, TypeOK
      <4>2. (CHOOSE x \in exits : TRUE) \in {position.stop, position.target}
        BY <3>2 DEF ExitPrices
      <4>3. (CHOOSE x \in exits : TRUE) \in Nat
        BY <4>1, <4>2, PricesAssumption DEF Positions
      <4> QED
        BY <4>1, <4>3, <3>2, PnlIsInt
    <3> QED
      BY <3>1, <3>2
  <2> HIDE DEF pnl
  <2> QED
    BY <2>1, <2>2, <2>3
<1>5. pc = "bar" /\ signal = NoSignal
  BY <1>1 DEF TakeBar, IInv, TypeOK
<1>6. TypeOK'
  BY <1>1, <1>2, <1>3, <1>4, <1>5, Zenon DEF IInv, TypeOK
<1>7. FlatFacts'
  <2>1. settings.scheduler => minute \in MarketHours[1] .. MarketHours[2]
    BY <1>1, CalendarAssumption DEF ShouldProcess, Minutes
  <2> QED
    BY <2>1, <1>1, <1>2, <1>3 DEF FlatFacts
<1>8. HeldFacts'
  BY <1>1, <1>3 DEF IInv, HeldFacts, Planned, Pnl, Bracketed, InNoTradeWindow
<1>9. SizedWithinRules'
  BY <1>1, <1>3 DEF IInv, SizedWithinRules, BaseQty, TradeRisk
<1>10. OneFillAfterKill' /\ plannedRisk' >= 0
  BY <1>1 DEF IInv, OneFillAfterKill
<1> QED
  BY <1>3, <1>6, <1>7, <1>8, <1>9, <1>10 DEF IInv

\* The end of a signal without a fill.
LEMMA RejectionKeeps ==
  ASSUME IInv, pc \in {"signal", "analyst"}, EndSignal(position),
         UNCHANGED <<position, seen, plannedRisk, afterKill>>
  PROVE  IInv'
<1>1. /\ pc' = "bar" /\ signal' = NoSignal /\ openPositions' = OpenCount(position)
      /\ UNCHANGED <<settings, bar, bars, account, dailyRealized, dailyUnrealized,
                     killed, kills, today, position, seen, plannedRisk, afterKill>>
  BY DEF EndSignal, RefreshedCount
<1>2. TypeOK'
  BY <1>1, Zenon DEF IInv, TypeOK, OpenCount
<1>3. FlatFacts'
  BY <1>1 DEF IInv, FlatFacts
<1>4. /\ HeldFacts' /\ plannedRisk' >= 0
      /\ LossBounded' /\ ExitsHonoured' /\ SizedWithinRules'
  BY <1>1, QuietSteps
<1>5. OneFillAfterKill'
  BY <1>1 DEF IInv, OneFillAfterKill
<1> QED
  BY <1>2, <1>3, <1>4, <1>5 DEF IInv

\* An approved signal is one the facts of FlatFacts were checked for.
LEMMA PreCheckApprovesKeeps == IInv /\ PreCheckApproves => IInv'
<1> SUFFICES ASSUME IInv, PreCheckApproves PROVE IInv'
  OBVIOUS
<1>1. PICK sig \in BarSignals : PreCheck /\ signal' = sig
  BY DEF PreCheckApproves
<1>2. /\ pc = "signal" /\ pc' = "analyst"
      /\ UNCHANGED <<settings, bar, bars, position, account, dailyRealized, dailyUnrealized,
                     openPositions, killed, kills, seen, plannedRisk, today, afterKill>>
  BY DEF PreCheckApproves, riskState, history
<1>3. sig \in Signals /\ Directed(sig) /\ sig # NoSignal
  BY NullAssumption DEF BarSignals
<1>4. TypeOK'
  BY <1>1, <1>2, <1>3, Zenon DEF IInv, TypeOK, OpenCount
<1>5. FlatFacts'
  <2>1. /\ ~killed /\ ~InNoTradeWindow(bar.minute)
        /\ dailyRealized + dailyUnrealized > -(settings.dailyCap * Basis)
    BY <1>1 DEF PreCheck, KillSwitchActive
  <2>2. position = NoPosition => dailyUnrealized = 0
    BY DEF IInv, FlatFacts
  <2>3. position = NoPosition => dailyRealized > -(settings.dailyCap * Basis)
    <3> DEFINE cap == settings.dailyCap * Basis
    <3>1. dailyRealized + dailyUnrealized > -cap
      BY <2>1
    <3>2. dailyRealized \in Int
      BY DEF IInv, TypeOK
    <3> HIDE DEF cap
    <3>3. position = NoPosition => dailyRealized > -cap
      BY <3>1, <3>2, <2>2
    <3> QED
      BY <3>3 DEF cap
  <2>4. Directed(signal)' /\ ~InNoTradeWindow(bar.minute)'
    BY <2>1, <1>1, <1>2, <1>3 DEF Directed, InNoTradeWindow
  <2> QED
    BY <2>1, <2>2, <2>3, <2>4, <1>2 DEF FlatFacts, IInv
<1>6. /\ HeldFacts' /\ plannedRisk' >= 0
      /\ LossBounded' /\ ExitsHonoured' /\ SizedWithinRules'
  BY <1>2, QuietSteps
<1>7. OneFillAfterKill'
  BY <1>2 DEF IInv, OneFillAfterKill
<1> QED
  BY <1>4, <1>5, <1>6, <1>7 DEF IInv

\* A fill: the position it opens, and what was known when the signal passed
\* pre_check, still true because only the kill file moved while the analyst
\* was awaited.
LEMMA FillKeeps == IInv /\ Fill => IInv'
<1> SUFFICES ASSUME IInv, Fill PROVE IInv'
  OBVIOUS
<1>1. PICK m \in 0 .. Steps :
        ~Rejects(m) /\ PlaceBracketOrder(CapQty(Size(signal, m)))
  BY DEF Fill
<1> DEFINE size == Size(signal, m)
<1> DEFINE qty == CapQty(size)
<1>2. /\ pc = "analyst" /\ pc' = "bar" /\ signal' = NoSignal
      /\ openPositions' = OpenCount(position')
      /\ UNCHANGED <<settings, bar, bars, account, dailyRealized, dailyUnrealized,
                     killed, kills, today>>
      /\ seen' = <<signal.entry, signal.entry>>
      /\ plannedRisk' = -Pnl(position', signal.stop)
      /\ afterKill' = IF killed THEN afterKill + 1 ELSE afterKill
  BY DEF Fill, EndSignal, RefreshedCount
<1>3. /\ signal \in Signals /\ Directed(signal) /\ ~InNoTradeWindow(bar.minute)
      /\ settings \in SettingsType /\ bar.minute \in Minutes
      /\ settings.scheduler => bar.minute \in MarketHours[1] .. MarketHours[2]
      /\ killed => afterKill = 0
  BY <1>2, SettingsAssumption DEF IInv, TypeOK, FlatFacts
<1>4. position = NoPosition /\ PostCheck(signal, size) /\ ~(qty <= 0)
  BY <1>1 DEF Rejects
<1>5. size \in Nat /\ size <= BaseQty(signal) /\ size % settings.lot = 0
  BY <1>3, SizeFacts
<1>6. /\ qty \in Nat \ {0} /\ qty <= size /\ qty % settings.lot = 0
      /\ settings.override # NoOverride => qty <= settings.override
  <2>1. CapQty(size) \in Int
    <3>1. settings.lot \in Nat \ {0} /\ settings.override \in Int \cup {NoOverride}
      BY <1>3 DEF SettingsType
    <3>2. CASE settings.override = NoOverride
      BY <3>2, <1>5 DEF CapQty
    <3>3. CASE settings.override # NoOverride /\ settings.override <= 0
      BY <3>3 DEF CapQty
    <3>4. CASE settings.override # NoOverride /\ ~(settings.override <= 0)
      <4> DEFINE r == IF size <= settings.override THEN size ELSE settings.override
      <4>1. CapQty(size) = FloorToLot(r)
        BY <3>4 DEF CapQty
      <4>2. r \in Nat
        BY <3>1, <3>4, <1>5
      <4> HIDE DEF r
      <4> QED
        BY <4>1, <4>2, <3>1, FloorFacts
    <3> QED
      BY <3>2, <3>3, <3>4
  <2>2. CapQty(size) > 0
    BY <2>1, <1>4
  <2> QED
    BY <2>2, <1>3, <1>5, CapFacts
<1>7. position' = [side |-> signal.side, fill |-> FillPrice(signal), stop |-> signal.stop,
                   target |-> signal.target, qty |-> qty, minute |-> bar.minute]
  BY <1>1 DEF PlaceBracketOrder
<1> HIDE DEF size, qty
<1>8. FillPrice(signal) \in Nat \ {0}
  BY <1>3, FillFacts
<1>9. /\ position' \in Positions /\ position' # NoPosition
      /\ position'.side = signal.side /\ position'.fill = FillPrice(signal)
      /\ position'.stop = signal.stop /\ position'.target = signal.target
      /\ position'.qty = qty /\ position'.minute = bar.minute
  <2>1. /\ signal.side \in Sides /\ signal.stop \in Prices /\ signal.target \in Prices
    BY <1>3 DEF Signals
  <2>2. position' \in Positions
    BY <2>1, <1>3, <1>6, <1>7, <1>8 DEF Positions
  <2> QED
    BY <2>2, <1>7, NullAssumption
<1>10. /\ signal.entry \in Nat \ {0} /\ signal.stop \in Nat \ {0} /\ signal.target \in Nat \ {0}
       /\ signal.side \in {"LONG", "SHORT"}
  BY <1>3, PricesAssumption DEF Signals, Sides
<1>11. EntryOf(position') = signal.entry
  BY <1>3, <1>9, <1>10, FillFacts DEF EntryOf
<1>12. plannedRisk' \in Int /\ plannedRisk' >= 0 /\ plannedRisk' = Planned(position)'
  <2>1. Pnl(position', signal.stop) \in Int
    BY <1>9, <1>10, PnlIsInt
  <2>2. Pnl(position', signal.stop) <= 0
    <3>1. Basis \in Nat
      BY SlippageAssumption
    <3>2. signal.stop * Basis \in Int /\ FillPrice(signal) \in Int /\ qty \in Nat
      BY <3>1, <1>10, <1>8, <1>6, SMT
    <3>3. CASE signal.side = "LONG"
      <4>1. signal.stop * Basis - FillPrice(signal) <= 0
        BY <3>2, <3>3, <1>3, FillFacts
      <4>2. (signal.stop * Basis - FillPrice(signal)) * qty <= 0 * qty
        BY <4>1, <3>2, TimesMonotone
      <4>3. Pnl(position', signal.stop) = (signal.stop * Basis - FillPrice(signal)) * qty
        BY <3>3, <1>9 DEF Pnl
      <4> QED
        BY <4>2, <4>3, <3>2, SMT
    <3>4. CASE signal.side = "SHORT"
      <4>1. FillPrice(signal) - signal.stop * Basis <= 0
        BY <3>2, <3>4, <1>3, FillFacts
      <4>2. (FillPrice(signal) - signal.stop * Basis) * qty <= 0 * qty
        BY <4>1, <3>2, TimesMonotone
      <4>3. Pnl(position', signal.stop) = (FillPrice(signal) - signal.stop * Basis) * qty
        BY <3>4, <1>9 DEF Pnl
      <4> QED
        BY <4>2, <4>3, <3>2, SMT
    <3> QED
      BY <3>3, <3>4, <1>10
  <2>3. plannedRisk' = Planned(position)'
    BY <1>2, <1>9 DEF Planned, Pnl
  <2> QED
    BY <2>1, <2>2, <2>3, <1>2
<1>13. dailyRealized > -(settings.dailyCap * Basis)
  BY <1>2, <1>4 DEF IInv, FlatFacts
<1>14. TypeOK'
  <2>1. seen' \in Nat \X Nat
    BY <1>2, <1>10
  <2>2. afterKill' \in Nat
    BY <1>2 DEF IInv, TypeOK
  <2> QED
    BY <1>2, <1>9, <1>12, <2>1, <2>2, Zenon DEF IInv, TypeOK
<1>15. FlatFacts'
  BY <1>2, <1>9 DEF FlatFacts
<1>16. HeldFacts'
  <2>1. Bracketed(position')
    BY <1>3, <1>9, <1>10 DEF Bracketed, Directed
  <2> QED
    BY <2>1, <1>2, <1>3, <1>9, <1>12, <1>13
    DEF HeldFacts, InNoTradeWindow, Bracketed, Planned, Pnl
<1>17. LossBounded'
  <2> DEFINE cap == settings.dailyCap * Basis
  <2>1. cap \in Int
    BY <1>3, SlippageAssumption, SMT DEF SettingsType
  <2>2. dailyRealized \in Int /\ dailyRealized > -cap
    BY <1>13 DEF IInv, TypeOK
  <2> HIDE DEF cap
  <2>3. dailyRealized >= -cap - plannedRisk'
    BY <2>1, <2>2, <1>12
  <2> QED
    BY <2>3, <1>2 DEF LossBounded, cap
<1>18. ExitsHonoured'
  BY <1>2, <1>3, <1>9, <1>10 DEF ExitsHonoured, Directed
<1>19. SizedWithinRules'
  <2> DEFINE sig == [side |-> position'.side, entry |-> EntryOf(position'),
                     stop |-> position'.stop, target |-> position'.target]
  <2>1. sig = signal
    BY <1>3, <1>9, <1>11 DEF Signals
  <2>2. BaseQty(signal) \in Nat
    BY <1>3, BaseQtyIsNat
  <2>3. qty <= BaseQty(signal)
    BY <2>2, <1>5, <1>6
  <2>4. TradeRisk(signal, qty) * 100 <= settings.riskBudget * 101
    <3> DEFINE d == Distance(signal.entry, signal.stop)
    <3>1. d \in Nat
      BY <1>10 DEF Distance
    <3>2. (d * size) * 100 <= settings.riskBudget * 101
      BY <1>4 DEF PostCheck, TradeRisk
    <3> HIDE DEF d
    <3>3. d * qty <= d * size
      <4>1. qty * d <= size * d
        BY <3>1, <1>5, <1>6, TimesMonotone
      <4>2. qty * d = d * qty /\ size * d = d * size
        BY <3>1, <1>5, <1>6, SMT
      <4> QED
        BY <4>1, <4>2
    <3>4. d * qty \in Int /\ d * size \in Int /\ settings.riskBudget \in Nat
      BY <3>1, <1>3, <1>5, <1>6, SMT DEF SettingsType
    <3>5. (d * qty) * 100 <= settings.riskBudget * 101
      BY <3>2, <3>3, <3>4, SMT
    <3> QED
      BY <3>5 DEF TradeRisk, d
  <2>5. settings.option => signal.entry * qty * settings.lot <= settings.premiumCap
    <3> DEFINE e == signal.entry
               l == settings.lot
    <3>1. e \in Nat /\ l \in Nat /\ settings.premiumCap \in Nat
      BY <1>3, PricesAssumption DEF SettingsType, Signals
    <3>2. settings.option => e * size * l <= settings.premiumCap
      BY <1>4 DEF PostCheck
    <3> HIDE DEF e, l
    <3>3. e * qty <= e * size /\ e * qty \in Nat /\ e * size \in Nat
      <4>1. qty * e <= size * e
        BY <3>1, <1>5, <1>6, TimesMonotone
      <4>2. qty * e = e * qty /\ size * e = e * size
        BY <3>1, <1>5, <1>6, SMT
      <4>3. e * qty \in Nat /\ e * size \in Nat
        BY <3>1, <1>5, <1>6, SMT
      <4> QED
        BY <4>1, <4>2, <4>3
    <3>4. (e * qty) * l <= (e * size) * l
      BY <3>1, <3>3, TimesMonotone
    <3>5. (e * qty) * l \in Int /\ (e * size) * l \in Int
      BY <3>1, <3>3, SMT
    <3>6. settings.option => e * qty * l <= settings.premiumCap
      BY <3>1, <3>2, <3>4, <3>5, SMT
    <3> QED
      BY <3>6 DEF e, l
  <2>6. position'.qty % settings.lot = 0
        /\ (settings.override # NoOverride => position'.qty <= settings.override)
        /\ position'.qty <= BaseQty(sig)
        /\ TradeRisk(sig, position'.qty) * 100 <= settings.riskBudget * 101
        /\ (settings.option =>
              sig.entry * position'.qty * settings.lot <= settings.premiumCap)
    BY <2>1, <2>3, <2>4, <2>5, <1>6, <1>9
  <2> QED
    BY <2>6, <1>2 DEF SizedWithinRules, EntryOf, BaseQty, TradeRisk
<1>20. OneFillAfterKill'
  BY <1>2, <1>3 DEF OneFillAfterKill
<1> QED
  BY <1>12, <1>14, <1>15, <1>16, <1>17, <1>18, <1>19, <1>20 DEF IInv

-----------------------------------------------------------------------------
(* The specification                                                       *)

\* Every step keeps the invariant.
LEMMA NextKeeps == IInv /\ [Next]_vars => IInv'
<1> SUFFICES ASSUME IInv, [Next]_vars PROVE IInv'
  OBVIOUS
<1>1. CASE SkipBar
  BY <1>1, SkipBarKeeps
<1>2. CASE ProcessBar
  BY <1>2, ProcessBarKeeps
<1>3. CASE OnBarEmpty
  <2>1. TypeOK'
    BY <1>3, Zenon DEF IInv, TypeOK, OnBarEmpty, OpenCount, riskState, history
  <2>2. FlatFacts'
    BY <1>3 DEF IInv, FlatFacts, OnBarEmpty, riskState
  <2>3. OneFillAfterKill'
    BY <1>3 DEF IInv, OneFillAfterKill, OnBarEmpty, history
  <2>4. /\ HeldFacts' /\ plannedRisk' >= 0
        /\ LossBounded' /\ ExitsHonoured' /\ SizedWithinRules'
    BY <1>3, QuietSteps DEF OnBarEmpty, riskState, history
  <2> QED
    BY <2>1, <2>2, <2>3, <2>4 DEF IInv
<1>4. CASE PreCheckRejects
  BY <1>4, RejectionKeeps DEF PreCheckRejects
<1>5. CASE PreCheckApproves
  BY <1>5, PreCheckApprovesKeeps
<1>6. CASE AnalystVetoes
  BY <1>6, RejectionKeeps DEF AnalystVetoes
<1>7. CASE SizeRejects
  BY <1>7, RejectionKeeps DEF SizeRejects
<1>8. CASE Fill
  BY <1>8, FillKeeps
<1>9. CASE Kill
  <2>1. kills' \in 0 .. MaxKills
    BY <1>9, BoundsAssumption DEF IInv, TypeOK, Kill
  <2>2. TypeOK'
    BY <1>9, <2>1, Zenon DEF IInv, TypeOK, Kill, OpenCount, riskState
  <2>3. FlatFacts' /\ OneFillAfterKill'
    BY <1>9 DEF IInv, FlatFacts, OneFillAfterKill, Kill, riskState, InNoTradeWindow
  <2>4. /\ HeldFacts' /\ plannedRisk' >= 0
        /\ LossBounded' /\ ExitsHonoured' /\ SizedWithinRules'
    BY <1>9, QuietSteps DEF Kill, riskState
  <2> QED
    BY <2>2, <2>3, <2>4 DEF IInv
<1>10. CASE Revive
  <2>1. TypeOK'
    BY <1>10, Zenon DEF IInv, TypeOK, Revive, OpenCount, riskState, history
  <2>2. FlatFacts' /\ OneFillAfterKill'
    BY <1>10 DEF IInv, FlatFacts, OneFillAfterKill, Revive, riskState, history, InNoTradeWindow
  <2>3. /\ HeldFacts' /\ plannedRisk' >= 0
        /\ LossBounded' /\ ExitsHonoured' /\ SizedWithinRules'
    BY <1>10, QuietSteps DEF Revive, riskState, history
  <2> QED
    BY <2>1, <2>2, <2>3 DEF IInv
<1>11. CASE UNCHANGED vars
  <2>1. TypeOK'
    BY <1>11, Zenon DEF IInv, TypeOK, vars, OpenCount, riskState, history
  <2>2. FlatFacts' /\ OneFillAfterKill'
    BY <1>11 DEF IInv, FlatFacts, OneFillAfterKill, vars, riskState, history, InNoTradeWindow
  <2>3. /\ HeldFacts' /\ plannedRisk' >= 0
        /\ LossBounded' /\ ExitsHonoured' /\ SizedWithinRules'
    BY <1>11, QuietSteps DEF vars, riskState, history
  <2> QED
    BY <2>1, <2>2, <2>3 DEF IInv
<1> QED
  BY <1>1, <1>2, <1>3, <1>4, <1>5, <1>6, <1>7, <1>8, <1>9, <1>10, <1>11 DEF Next

\* The invariant all the results below follow from.
THEOREM InductiveInvariant == Spec => []IInv
<1>1. Init => IInv
  BY InitEstablishes
<1>2. IInv /\ [Next]_vars => IInv'
  BY NextKeeps
<1> QED
  BY <1>1, <1>2, PTL DEF Spec

\* Types, and the loop's count of open positions is never stale.
THEOREM TypeCorrect == Spec => []TypeOK
<1>1. IInv => TypeOK
  BY DEF IInv
<1> QED
  BY <1>1, InductiveInvariant, PTL

\* The daily cap is overshot by the planned risk of one trade at most.
THEOREM LossIsBounded == Spec => []LossBounded
<1>1. IInv => LossBounded
  BY DEF IInv
<1> QED
  BY <1>1, InductiveInvariant, PTL

\* No processed bar reached the stop or the target of an open position.
THEOREM ExitsAreHonoured == Spec => []ExitsHonoured
<1>1. IInv => ExitsHonoured
  BY DEF IInv
<1> QED
  BY <1>1, InductiveInvariant, PTL

\* The analyst, the lot and the override only shrink what the rules allow.
THEOREM SizesStayWithinRules == Spec => []SizedWithinRules
<1>1. IInv => SizedWithinRules
  BY DEF IInv
<1> QED
  BY <1>1, InductiveInvariant, PTL

\* One fill at most follows the kill file.
THEOREM KillStopsEntries == Spec => []OneFillAfterKill
<1>1. IInv => OneFillAfterKill
  BY DEF IInv
<1> QED
  BY <1>1, InductiveInvariant, PTL

\* The remainder of what is less than one turn of the clock away.
LEMMA RemainderFacts ==
  ASSUME NEW d \in Nat \ {0}, NEW a \in Int
  PROVE  /\ 0 <= a /\ a < d => a % d = a
         /\ d <= a /\ a < 2 * d => a % d = a - d
         /\ -d < a /\ a < 0 => a % d = a + d
<1>1. CASE 0 <= a /\ a < d
  BY <1>1, SMT
<1>2. CASE d <= a /\ a < 2 * d
  BY <1>2, SMT
<1>3. CASE -d < a /\ a < 0
  BY <1>3, SMT
<1> QED
  BY <1>1, <1>2, <1>3, SMT

\* A minute of a window, walked round the clock, is one the code refuses.
LEMMA WindowMinutesAreRefused ==
  ASSUME NEW w \in Minutes \X Minutes, NEW m \in WindowMinutes(w)
  PROVE  \/ w[1] <= w[2] /\ w[1] <= m /\ m <= w[2]
         \/ w[1] > w[2] /\ (m >= w[1] \/ m <= w[2])
<1>1. PICK k \in 0 .. (w[2] - w[1]) % DayLength : m = (w[1] + k) % DayLength
  BY DEF WindowMinutes
<1>2. /\ DayLength \in Nat \ {0} /\ w[1] \in Nat /\ w[2] \in Nat
      /\ w[1] < DayLength /\ w[2] < DayLength
  BY CalendarAssumption DEF Minutes
<1>3. \A a \in Int : /\ 0 <= a /\ a < DayLength => a % DayLength = a
                     /\ DayLength <= a /\ a < 2 * DayLength => a % DayLength = a - DayLength
                     /\ -DayLength < a /\ a < 0 => a % DayLength = a + DayLength
  BY <1>2, RemainderFacts
<1>4. CASE w[1] <= w[2]
  <2>1. (w[2] - w[1]) % DayLength = w[2] - w[1]
    BY <1>2, <1>3, <1>4
  <2>2. k \in Int /\ 0 <= w[1] + k /\ w[1] + k <= w[2] /\ w[1] + k >= w[1]
    BY <1>1, <1>2, <2>1
  <2>3. m = w[1] + k
    BY <1>1, <1>2, <1>3, <2>2
  <2> QED
    BY <1>2, <1>4, <2>2, <2>3
<1>5. CASE w[1] > w[2]
  <2>1. (w[2] - w[1]) % DayLength = w[2] - w[1] + DayLength
    BY <1>2, <1>3, <1>5
  <2>2. k \in Int /\ 0 <= k /\ w[1] + k <= w[2] + DayLength
    BY <1>1, <1>2, <2>1
  <2>3. CASE w[1] + k < DayLength
    <3>1. m = w[1] + k
      BY <1>1, <1>2, <1>3, <2>2, <2>3
    <3> QED
      BY <3>1, <1>2, <1>5, <2>2
  <2>4. CASE w[1] + k >= DayLength
    <3>1. m = w[1] + k - DayLength
      BY <1>1, <1>2, <1>3, <2>2, <2>4
    <3> QED
      BY <3>1, <1>2, <1>5, <2>2
  <2> QED
    BY <2>2, <2>3, <2>4, <1>2
<1> QED
  BY <1>2, <1>4, <1>5

\* No entry in a no-trade window, wrapped round midnight or not, and none
\* outside market hours under the scheduler.
THEOREM EntriesAreInHours == Spec => []EntriesInHours
<1>1. IInv => EntriesInHours
  <2> SUFFICES ASSUME IInv, position # NoPosition
               PROVE  /\ \A w \in settings.windows : position.minute \notin WindowMinutes(w)
                      /\ settings.scheduler => position.minute \in MarketHours[1] .. MarketHours[2]
    BY DEF EntriesInHours
  <2>1. /\ ~InNoTradeWindow(position.minute)
        /\ settings.scheduler => position.minute \in MarketHours[1] .. MarketHours[2]
    BY DEF IInv, HeldFacts
  <2>2. settings.windows \subseteq Minutes \X Minutes
    BY SettingsAssumption DEF IInv, TypeOK, SettingsType
  <2>3. ASSUME NEW w \in settings.windows, position.minute \in WindowMinutes(w)
        PROVE  FALSE
    BY <2>1, <2>2, <2>3, WindowMinutesAreRefused DEF InNoTradeWindow
  <2> QED
    BY <2>1, <2>3
<1> QED
  BY <1>1, InductiveInvariant, PTL
=============================================================================
