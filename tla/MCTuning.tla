------------------------------ MODULE MCTuning ------------------------------
(***************************************************************************)
(* Tuning for TLC: two strategies that share one parameter of three, and   *)
(* plans of one or two recommendations, sound ones and others.             *)
(***************************************************************************)
EXTENDS Tuning, TLC

CONSTANTS ema, macd, ghost, tcs, infy, fast, slow, signal

MCAccepts == ema :> {fast, slow} @@ macd :> {fast, signal}

Proposal(s, current, action, target, params) ==
  [symbol |-> s, current |-> current, action |-> action, target |-> target,
   params |-> params]

MCPlans ==
  {<<>>,
   <<Proposal(tcs, ema, "modify_params", None, (slow :> 2) @@ (signal :> 2))>>,
   <<Proposal(tcs, ema, "modify_params", macd, signal :> 2)>>,
   <<Proposal(tcs, ghost, "keep", None, NoParams)>>,
   <<Proposal(tcs, ema, "switch_strategy", ghost, NoParams)>>,
   <<Proposal(tcs, ema, "switch_strategy", macd, (fast :> 1) @@ (slow :> 1)),
     Proposal(tcs, ema, "keep", None, NoParams)>>,
   <<Proposal(tcs, macd, "disable", None, NoParams),
     Proposal(infy, ema, "modify_params", None, fast :> 2)>>,
   <<Proposal(tcs, macd, "keep", None, NoParams)>>}
=============================================================================
