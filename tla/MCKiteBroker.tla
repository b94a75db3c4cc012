---------------------------- MODULE MCKiteBroker ----------------------------
(***************************************************************************)
(* Small instances of KiteBroker for TLC: two signals a and b, on two      *)
(* symbols, long or short, or one signal alone.                            *)
(***************************************************************************)
EXTENDS KiteBroker, TLC

CONSTANTS a, b, sbin, infy

\* Two signals with a symbol each, or one signal.
TwoSymbols == (a :> sbin) @@ (b :> infy)
OneSignal  == a :> sbin

Long      == [id \in Ids |-> 1]
LongShort == [id \in Ids |-> IF id = a THEN 1 ELSE -1]

One == [id \in Ids |-> 1]
Two == [id \in Ids |-> 2]
=============================================================================
