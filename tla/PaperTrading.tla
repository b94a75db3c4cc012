---------------------------- MODULE PaperTrading ----------------------------
(***************************************************************************)
(* The orchestrator loop on the paper broker: orchestrator/loop.py drives  *)
(* risk/manager.py, analyst/analyst.py and execution/paper.py bar by bar.  *)
(*                                                                         *)
(* One bar is the sequence  scheduler gate, bracket exits, mark to market, *)
(* signal, pre_check, analyst, size, post_check, quantity cap, fill.  The  *)
(* analyst is awaited, so the loop is a state machine with a control       *)
(* location, and the kill file, which other processes create and delete,   *)
(* may change at any location.                                             *)
(*                                                                         *)
(* Every shipped strategy trades the one symbol it was built with and      *)
(* takes the close of the bar as entry, so there is at most one position   *)
(* and signal.entry is the close.  Prices are integers; money is counted   *)
(* in 1/Basis of a price unit, which makes slippage exact.                 *)
(***************************************************************************)
EXTENDS Integers

CONSTANTS Prices,      \* the prices bars and brackets may have
          Days,        \* trading days of the feed, 1 .. n
          TradingDays, \* the days that are neither weekends nor holidays
          DayLength,   \* minutes of a day: 0 .. DayLength - 1
          MarketHours, \* <<open, close>> of the scheduler, inclusive
          Basis,       \* 10000: slippage is in basis points
          SlippageBps,
          Steps,       \* the analyst's multiplier is m/Steps
          Settings,    \* the configurations considered, see SettingsType
          NoPosition, NoSignal, NoOverride,
          MaxBars,     \* bound: bars of the feed
          MaxKills     \* bound: how often the kill file appears

VARIABLES settings,        \* AppSettings, instrument and override_qty of the run
          pc,              \* "bar", "signal" or "analyst"
          bar,             \* the bar being handled: day, minute, close
          bars,            \* bars taken from the feed
          signal,          \* the signal in _process_signal
          position,        \* PaperBroker._positions
          account,         \* PaperAccount.realized_pnl
          dailyRealized, dailyUnrealized, openPositions,   \* RiskState
          killed,          \* the kill file exists
          kills,           \* times it was created
          seen,            \* history: lowest and highest processed price since entry
          plannedRisk,     \* history: loss at the stop of the last position
          today,           \* history: profit of the trades closed on bar.day
          afterKill        \* history: fills since the kill file was created

riskState == <<dailyRealized, dailyUnrealized, openPositions>>
history == <<seen, plannedRisk, today, afterKill>>
vars == <<settings, pc, bar, bars, signal, position, account, riskState,
          killed, kills, history>>

Minutes == 0 .. DayLength - 1
Sides == {"LONG", "SHORT"}

SettingsType ==
  [riskBudget    : Nat,      \* account_equity * max_loss_per_trade_pct
   dailyCap      : Nat,      \* account_equity * daily_loss_cap_pct
   maxOpen       : Nat \ {0},
   sizing        : {"atr_based", "fixed_pct"},
   fixedNotional : Nat,      \* account_equity * fixed_position_pct
   lot           : Nat \ {0},
   option        : BOOLEAN,
   premiumCap    : Nat,      \* account_equity * max_premium_per_trade_pct
   override      : Int \cup {NoOverride},
   windows       : SUBSET (Minutes \X Minutes),
   scheduler     : BOOLEAN]

Signals ==
  [side : Sides, entry : Prices, stop : Prices, target : Prices]

Positions ==
  [side : Sides, fill : Nat \ {0}, stop : Prices, target : Prices,
   qty : Nat \ {0}, minute : Minutes]

ASSUME PricesAssumption == Prices \subseteq Nat \ {0}
ASSUME SlippageAssumption ==
  /\ Basis \in Nat \ {0}
  /\ SlippageBps \in Nat
  /\ SlippageBps < Basis
ASSUME SettingsAssumption == Settings \subseteq SettingsType
ASSUME CalendarAssumption ==
  /\ Days \subseteq Nat \ {0} /\ TradingDays \subseteq Days
  /\ DayLength \in Nat \ {0} /\ MarketHours \in Minutes \X Minutes
ASSUME BoundsAssumption ==
  /\ Steps \in Nat \ {0} /\ MaxBars \in Nat /\ MaxKills \in Nat
ASSUME NullAssumption ==
  NoPosition \notin Positions /\ NoSignal \notin Signals /\ NoOverride \notin Int

-----------------------------------------------------------------------------
(* risk/manager.py                                                         *)

\* Mutant: no window is taken around midnight.
InNoTradeWindowUnwrapped(m) ==
  \E w \in settings.windows : w[1] <= m /\ m <= w[2]

\* is_in_no_trade_window: a window whose start is after its end wraps around
\* midnight.
InNoTradeWindow(m) ==
  \E w \in settings.windows :
    \/ w[1] <= w[2] /\ w[1] <= m /\ m <= w[2]
    \/ w[1] > w[2] /\ (m >= w[1] \/ m <= w[2])

\* MarketScheduler.should_process_bar for equities, the only instrument type
\* the loop ever asks about.
ShouldProcess(day, minute) ==
  settings.scheduler =>
    /\ day \in TradingDays
    /\ MarketHours[1] <= minute /\ minute <= MarketHours[2]
    /\ ~InNoTradeWindow(minute)

Distance(a, b) == IF a > b THEN a - b ELSE b - a

\* Mutant: the kill file is not looked at.
KillSwitchIgnored == FALSE

KillSwitchActive == killed

PreCheck ==
  /\ ~KillSwitchActive
  /\ openPositions < settings.maxOpen
  /\ dailyRealized + dailyUnrealized > -(settings.dailyCap * Basis)
  /\ ~InNoTradeWindow(bar.minute)

BaseQty(sig) ==
  IF settings.sizing = "fixed_pct"
  THEN settings.fixedNotional \div sig.entry
  ELSE settings.riskBudget \div Distance(sig.entry, sig.stop)

FloorToLot(qty) == (qty \div settings.lot) * settings.lot

\* size: the analyst's multiplier is applied before flooring to the lot.
Size(sig, multiplier) == FloorToLot((BaseQty(sig) * multiplier) \div Steps)

TradeRisk(sig, qty) == Distance(sig.entry, sig.stop) * qty

PostCheck(sig, qty) ==
  /\ qty > 0
  /\ TradeRisk(sig, qty) * 100 <= settings.riskBudget * 101
  /\ settings.option => sig.entry * qty * settings.lot <= settings.premiumCap

\* Mutant: the capped quantity is not floored to the lot again.
CapQtyUnfloored(qty) ==
  CASE settings.override = NoOverride -> qty
    [] settings.override # NoOverride /\ settings.override <= 0 -> 0
    [] OTHER -> IF qty <= settings.override THEN qty ELSE settings.override

\* OrchestratorLoop._apply_qty_cap
CapQty(qty) ==
  CASE settings.override = NoOverride -> qty
    [] settings.override # NoOverride /\ settings.override <= 0 -> 0
    [] OTHER -> FloorToLot(IF qty <= settings.override THEN qty ELSE settings.override)

-----------------------------------------------------------------------------
(* execution/paper.py                                                      *)

FillPrice(sig) ==
  IF sig.side = "LONG" THEN sig.entry * (Basis + SlippageBps)
                       ELSE sig.entry * (Basis - SlippageBps)

Pnl(p, price) ==
  IF p.side = "LONG" THEN (price * Basis - p.fill) * p.qty
                     ELSE (p.fill - price * Basis) * p.qty

\* Mutant: the stop must be crossed, touching it is not enough.
StopHitStrict(p, low, high) == IF p.side = "LONG" THEN low < p.stop ELSE high > p.stop

StopHit(p, low, high) == IF p.side = "LONG" THEN low <= p.stop ELSE high >= p.stop
TargetHit(p, low, high) == IF p.side = "LONG" THEN high >= p.target ELSE low <= p.target

\* check_bar_exits: the prices at which a bar closes the position, the stop
\* before the target.
ExitPrices(p, low, high) ==
  IF p = NoPosition THEN {}
  ELSE IF StopHit(p, low, high) THEN {p.stop}
  ELSE IF TargetHit(p, low, high) THEN {p.target}
  ELSE {}

MarkToMarket(p, close) == IF p = NoPosition THEN 0 ELSE Pnl(p, close)

OpenCount(p) == IF p = NoPosition THEN 0 ELSE 1

-----------------------------------------------------------------------------
Init ==
  /\ settings \in Settings
  /\ pc = "bar"
  /\ bar = [day |-> 0, minute |-> 0, close |-> 0]
  /\ bars = 0
  /\ signal = NoSignal
  /\ position = NoPosition
  /\ account = 0
  /\ dailyRealized = 0 /\ dailyUnrealized = 0 /\ openPositions = 0
  /\ killed = FALSE /\ kills = 0
  /\ seen = <<0, 0>> /\ plannedRisk = 0 /\ today = 0 /\ afterKill = 0

\* The feed's next bar: later than the one before it.
TakeBar(day, minute, close) ==
  /\ pc = "bar"
  /\ bars < MaxBars
  /\ day > bar.day \/ (day = bar.day /\ minute > bar.minute)
  /\ bar' = [day |-> day, minute |-> minute, close |-> close]
  /\ bars' = bars + 1

TodayBefore(day) == IF day = bar.day THEN today ELSE 0

\* A bar the scheduler turns away is not looked at: no exit, no mark, no signal.
SkipBar ==
  \E day \in Days, minute \in Minutes, close \in Prices :
    /\ TakeBar(day, minute, close)
    /\ ~ShouldProcess(day, minute)
    /\ today' = TodayBefore(day)
    /\ UNCHANGED <<settings, pc, signal, position, account, riskState, killed,
                   kills, seen, plannedRisk, afterKill>>

\* Mutant: the mark is taken before the exits.
MarkBeforeExits(close) == MarkToMarket(position, close)

MarkAfterExits(close) == MarkToMarket(position', close)

\* Exits at the bracket, then the mark of what is still open.
BarExits(close, low, high) ==
  LET exits == ExitPrices(position, low, high)
      pnl == IF exits = {} THEN 0 ELSE Pnl(position, CHOOSE x \in exits : TRUE)
  IN  /\ position' = IF exits = {} THEN position ELSE NoPosition
      /\ account' = account + pnl
      /\ dailyRealized' = dailyRealized + pnl
      /\ openPositions' = IF exits = {} THEN openPositions ELSE 0
      /\ dailyUnrealized' = MarkAfterExits(close)
      /\ today' = TodayBefore(bar'.day) + pnl
      /\ seen' = IF position = NoPosition THEN seen
                 ELSE <<IF low < seen[1] THEN low ELSE seen[1],
                        IF high > seen[2] THEN high ELSE seen[2]>>

ProcessBar ==
  \E day \in Days, minute \in Minutes, close \in Prices, low \in Prices, high \in Prices :
    /\ low <= close /\ close <= high
    /\ TakeBar(day, minute, close)
    /\ ShouldProcess(day, minute)
    /\ BarExits(close, low, high)
    /\ pc' = "signal"
    /\ UNCHANGED <<settings, signal, killed, kills, plannedRisk, afterKill>>

OnBarEmpty ==
  /\ pc = "signal"
  /\ pc' = "bar"
  /\ UNCHANGED <<settings, bar, bars, signal, position, account, riskState,
                 killed, kills, history>>

\* Signal.validate_direction
Directed(sig) ==
  IF sig.side = "LONG" THEN sig.stop < sig.entry /\ sig.entry < sig.target
                       ELSE sig.target < sig.entry /\ sig.entry < sig.stop

BarSignals == {sig \in Signals : sig.entry = bar.close /\ Directed(sig)}

RefreshedCount(p) == OpenCount(p)

\* The end of _process_signal and of the bar's iteration.
EndSignal(p) ==
  /\ pc' = "bar"
  /\ signal' = NoSignal
  /\ openPositions' = RefreshedCount(p)
  /\ UNCHANGED <<settings, bar, bars, account, dailyRealized, dailyUnrealized,
                 killed, kills, today>>

PreCheckRejects ==
  /\ pc = "signal"
  /\ BarSignals # {} /\ ~PreCheck
  /\ EndSignal(position)
  /\ UNCHANGED <<position, seen, plannedRisk, afterKill>>

\* From here the loop awaits the analyst.
PreCheckApproves ==
  /\ pc = "signal"
  /\ PreCheck
  /\ signal' \in BarSignals
  /\ pc' = "analyst"
  /\ UNCHANGED <<settings, bar, bars, position, account, riskState, killed, kills,
                 history>>

AnalystVetoes ==
  /\ pc = "analyst"
  /\ EndSignal(position)
  /\ UNCHANGED <<position, seen, plannedRisk, afterKill>>

\* size, post_check, the cap, and the broker, which holds one position a symbol.
Rejects(multiplier) ==
  LET qty == Size(signal, multiplier)
  IN  ~PostCheck(signal, qty) \/ CapQty(qty) <= 0 \/ position # NoPosition

SizeRejects ==
  /\ pc = "analyst"
  /\ \E multiplier \in 0 .. Steps : Rejects(multiplier)
  /\ EndSignal(position)
  /\ UNCHANGED <<position, seen, plannedRisk, afterKill>>

PlaceBracketOrder(qty) ==
  position' = [side |-> signal.side, fill |-> FillPrice(signal), stop |-> signal.stop,
               target |-> signal.target, qty |-> qty, minute |-> bar.minute]

Fill ==
  /\ pc = "analyst"
  /\ \E multiplier \in 0 .. Steps :
       /\ ~Rejects(multiplier)
       /\ PlaceBracketOrder(CapQty(Size(signal, multiplier)))
  /\ EndSignal(position')
  /\ seen' = <<signal.entry, signal.entry>>
  /\ plannedRisk' = -Pnl(position', signal.stop)
  /\ afterKill' = IF killed THEN afterKill + 1 ELSE afterKill

\* The KILL file, written and removed by the dashboard or by hand.
Kill ==
  /\ ~killed /\ kills < MaxKills
  /\ killed' = TRUE
  /\ kills' = kills + 1
  /\ afterKill' = 0
  /\ UNCHANGED <<settings, pc, bar, bars, signal, position, account, riskState,
                 seen, plannedRisk, today>>

Revive ==
  /\ killed
  /\ killed' = FALSE
  /\ UNCHANGED <<settings, pc, bar, bars, signal, position, account, riskState,
                 kills, history>>

Next ==
  \/ SkipBar \/ ProcessBar
  \/ OnBarEmpty \/ PreCheckRejects \/ PreCheckApproves
  \/ AnalystVetoes \/ SizeRejects \/ Fill
  \/ Kill \/ Revive

Spec == Init /\ [][Next]_vars

-----------------------------------------------------------------------------
(* Properties                                                              *)

\* Types: at most one position, money is an integer, and a signal is being
\* processed exactly while the analyst is awaited.
TypeOK ==
  /\ settings \in Settings
  /\ pc \in {"bar", "signal", "analyst"}
  /\ bar \in [day : {0} \cup Days, minute : Minutes, close : {0} \cup Prices]
  /\ bars \in 0 .. MaxBars
  /\ signal \in Signals \cup {NoSignal}
  /\ (pc = "analyst") <=> (signal # NoSignal)
  /\ position \in Positions \cup {NoPosition}
  /\ account \in Int /\ dailyRealized \in Int /\ dailyUnrealized \in Int
  /\ openPositions = OpenCount(position)
  /\ killed \in BOOLEAN /\ kills \in 0 .. MaxKills
  /\ seen \in (Nat \X Nat) /\ plannedRisk \in Int /\ today \in Int /\ afterKill \in Nat

\* The daily loss cap overshoots by one trade at most: what was lost beyond
\* the cap is no more than the loss, slippage included, the last position was
\* planned to make at its stop (RiskManager.pre_check against the mark that
\* the loop keeps, PaperBroker.check_bar_exits at the stop).
LossBounded == dailyRealized >= -(settings.dailyCap * Basis) - plannedRisk

\* A position that is still open has survived every bar processed since its
\* entry: none of them reached its stop or its target.
ExitsHonoured ==
  position # NoPosition =>
    IF position.side = "LONG"
    THEN seen[1] > position.stop /\ seen[2] < position.target
    ELSE seen[2] < position.stop /\ seen[1] > position.target

\* The minutes a window covers, walking the clock from its start to its end.
WindowMinutes(w) ==
  {(w[1] + k) % DayLength : k \in 0 .. (w[2] - w[1]) % DayLength}

\* No position is ever entered in a no-trade window, with or without a
\* scheduler, and none outside market hours when there is one.
EntriesInHours ==
  position # NoPosition =>
    /\ \A w \in settings.windows : position.minute \notin WindowMinutes(w)
    /\ settings.scheduler => position.minute \in MarketHours[1] .. MarketHours[2]

EntryOf(p) ==
  p.fill \div (IF p.side = "LONG" THEN Basis + SlippageBps ELSE Basis - SlippageBps)

\* Whatever the analyst, the lot and the override do to it, a filled quantity
\* is whole lots, within the override, no more than the rules alone would have
\* bought, and keeps the loss at the stop within the budget of a trade and the
\* premium of an option within its cap.
SizedWithinRules ==
  position # NoPosition =>
    LET sig == [side |-> position.side, entry |-> EntryOf(position),
                stop |-> position.stop, target |-> position.target]
    IN  /\ position.qty % settings.lot = 0
        /\ settings.override # NoOverride => position.qty <= settings.override
        /\ position.qty <= BaseQty(sig)
        /\ TradeRisk(sig, position.qty) * 100 <= settings.riskBudget * 101
        /\ settings.option => sig.entry * position.qty * settings.lot <= settings.premiumCap

\* After the kill file appears at most the one signal that had already passed
\* pre_check and was waiting for the analyst is still filled.
OneFillAfterKill == killed => afterKill <= 1

\* risk/manager.py says of RiskState.daily_pnl_mtm that it is the profit "for
\* the current trading day": its realized part is what today's trades made.
DailyIsToday == dailyRealized = today
=============================================================================
