----------------------------- MODULE MCResearch -----------------------------
(***************************************************************************)
(* Research for TLC: three bars, the middle one sometimes missing from an  *)
(* answer; one symbol that can be fetched and one that cannot; requests,   *)
(* formulas, votes and advice that reach every branch.                     *)
(***************************************************************************)
EXTENDS Research

CONSTANTS tcs, infy, ema, macd, bad, ghost

MCQuote ==
  [s \in {tcs, infy} |->
     [t \in Times |-> [close |-> 10 + 2 * t, volume |-> IF t = 3 THEN 9 ELSE 3]]]
MCStored == [s \in Symbols |-> IF s = infy THEN Within(Traded(infy, 3), 1, 2) ELSE NoBars]
MCUniverse == <<tcs, infy>>
MCSynthetic == Traded(infy, 3)

Backtest(kind, source, members) ==
  [kind |-> kind, source |-> source, symbol |-> tcs, from |-> 1, to |-> 3, members |-> members]

Sent ==
  {Backtest("run", "kite", <<ema>>), Backtest("run", "synthetic", <<ghost>>),
   Backtest("group", "kite", <<ema, macd>>), Backtest("group", "kite", <<ema, bad>>),
   Backtest("combined", "kite", <<ema, ema>>), Backtest("combined", "synthetic", <<ema, bad>>),
   [kind |-> "screen", fetch |-> TRUE, back |-> 2]}
    \cup [kind : {"tune"}, scope : {"run", "sweep"}]

Close(op, other) ==
  [type |-> "indicator", indicator |-> [name |-> "close"], op |-> op, compare |-> TRUE,
   other |-> other]
MCDefault == <<Close(">", [name |-> "sma", period |-> 2])>>
MCFormulas ==
  {<<[type |-> "price_change", window |-> 1, op |-> ">=", value |-> 10],
     [type |-> "volume", average |-> FALSE, op |-> ">", value |-> 2]>>,
   <<[type |-> "volume", average |-> TRUE, window |-> 2, times |-> 1, op |-> ">"]>>,
   <<[type |-> "volume", average |-> FALSE, op |-> ">", value |-> 2]>>,
   <<Close("==", [name |-> "unlisted"])>>}

Voting(side, entry, stop, target, confidence) ==
  [side |-> side, entry |-> entry, stop |-> stop, target |-> target, confidence |-> confidence]
Buy == Voting("BUY", 20, 10, 30, 1)
BuyHigh == Voting("BUY", 40, 30, 44, 2)
Sell == Voting("SELL", 20, 30, 10, 1)
MCBallots == {<<Buy, BuyHigh>>, <<Buy, Buy>>, <<Buy, Sell>>, <<Sell, Abstains>>,
              <<Sell, Sell>>, <<Abstains, Abstains>>}

Spec3(min, max, int) == [min |-> min, max |-> max, int |-> int]
MCSchemas ==
  [id \in {ema, macd, bad} |->
     [p \in {"fast", "mult"} |->
        IF p = "mult" THEN Spec3(1, 5, FALSE) ELSE Spec3(2, 8, TRUE)]]
Rec(strategy, params) == [strategy |-> strategy, params |-> params]
MCProposals ==
  {<<>>,
   <<Rec(ghost, [fast |-> 4]), Rec(ema, [fast |-> 5, mult |-> NaN])>>,
   <<Rec(ema, [speed |-> 4]), Rec(ema, [fast |-> 11]), Rec(bad, [mult |-> 0])>>}
Symmetry == Permutations(Clients)
MCSweeps == [s \in 1 .. 2 |-> [status |-> IF s = 1 THEN "done" ELSE "running", board |-> <<ema>>]]
=============================================================================
