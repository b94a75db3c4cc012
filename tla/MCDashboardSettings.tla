------------------------ MODULE MCDashboardSettings ------------------------
(***************************************************************************)
(* DashboardSettings for TLC: two paths, models and symbols, and the       *)
(* requests that tell them apart.                                          *)
(***************************************************************************)
EXTENDS DashboardSettings

CONSTANTS p, q, m, n, k, tcs, infy

Sent ==
  {[kind |-> "save", config |-> [kill |-> q, model |-> m]],
   [kind |-> "save", config |-> Invalid],
   [kind |-> "models", model |-> n],
   [kind |-> "keys", key |-> Unset], [kind |-> "kill", engage |-> TRUE],
   [kind |-> "add", symbol |-> infy], [kind |-> "remove", symbol |-> tcs]}
    \cup [kind : {"seed", "toggle", "exchange", "refresh", "ask"}]
=============================================================================
