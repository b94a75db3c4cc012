--------------------------- MODULE MCPaperTrading ---------------------------
(* PaperTrading for TLC: prices 1 to 4, four minutes a day, two days.      *)
EXTENDS PaperTrading

MCPrices == 1 .. 4
MCDays == 1 .. 2
MCHours == <<1, 3>>

Base == [riskBudget |-> 4, dailyCap |-> 3, maxOpen |-> 1, sizing |-> "atr_based",
         fixedNotional |-> 0, lot |-> 1, option |-> FALSE, premiumCap |-> 0,
         override |-> NoOverride, windows |-> {}, scheduler |-> TRUE]

\* The live command in dry-run mode: scheduler, a window, a quantity ceiling.
DryRun == [Base EXCEPT !.windows = {<<2, 2>>}, !.override = 3, !.lot = 2]

\* The paper command without a scheduler, with a window around midnight.
Unscheduled == [Base EXCEPT !.scheduler = FALSE, !.windows = {<<3, 0>>}, !.maxOpen = 3]

\* Fixed-notional sizing of an option with a premium cap.
Options == [Base EXCEPT !.sizing = "fixed_pct", !.fixedNotional = 9, !.option = TRUE,
                        !.premiumCap = 8, !.maxOpen = 2]

MCSettings == {DryRun, Unscheduled, Options}
MCOneSetting == {Base}
=============================================================================
