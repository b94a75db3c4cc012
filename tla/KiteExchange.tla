---------------------------- MODULE KiteExchange ----------------------------
(***************************************************************************)
(* The Zerodha account behind the Kite Connect API, as execution/kite.py   *)
(* uses it: the order book of the day, the GTT triggers and the net        *)
(* positions.  It is not part of the repository; what it accepts and what  *)
(* it reports is taken from how KiteBroker calls it and reads its answers. *)
(*                                                                         *)
(* Abstractions: a price is left out (no property depends on one); an      *)
(* order is never modified; the account trades nothing the program did not *)
(* submit, except that a GTT may disappear (fault "gtt_vanish").           *)
(***************************************************************************)
EXTENDS Integers

CONSTANTS
  Ids,        \* client order ids: one per (strategy, bar timestamp, symbol)
  Symbols,    \* trading symbols
  SymbolOf,   \* the symbol a client order id is about
  DirOf,      \* 1 for a BUY signal, -1 for a SELL signal
  QtyOf,      \* the sized quantity of the signal
  OrderIds,   \* broker order ids (bound on the orders of a behaviour)
  GttIds,     \* GTT trigger ids (bound on the GTTs of a behaviour)
  NoId,       \* "no client order id"
  Faults,     \* the failures this environment may show, see FaultKinds
  MaxFaults   \* bound on how many of them a behaviour has

\* crash: the process dies.  lost_reply: the exchange applies a request whose
\* reply never arrives.  api_error: a request fails and changes nothing.
\* gtt_vanish: a GTT is removed behind the program's back.  new_day: the
\* trading day ends.  mark: an operator overrides a record on the dashboard.
FaultKinds == {"crash", "lost_reply", "api_error", "gtt_vanish", "new_day", "mark"}

ASSUME ConstantTypes ==
  /\ SymbolOf \in [Ids -> Symbols]
  /\ DirOf \in [Ids -> {-1, 1}]
  /\ QtyOf \in [Ids -> Nat \ {0}]
  /\ OrderIds \subseteq Nat \ {0}
  /\ GttIds \subseteq Nat \ {0}
  /\ NoId \notin Ids
  /\ NoId \notin Symbols
  /\ Faults \subseteq FaultKinds
  /\ MaxFaults \in Nat

VARIABLES
  orders,   \* every order ever accepted, by broker order id
  gtts,     \* every GTT ever accepted, by trigger id
  pos,      \* net position per symbol
  budget    \* faults the behaviour may still show

exchangeVars == <<orders, gtts, pos>>

OrderStatus == {"NONE", "OPEN", "COMPLETE", "REJECTED", "CANCELLED"}
Terminal    == {"COMPLETE", "REJECTED", "CANCELLED"}

Order == [status : OrderStatus, kind : {"none", "entry", "exit", "squareoff"},
          tag : Ids \union {NoId}, sym : Symbols \union {NoId},
          dir : {-1, 0, 1}, qty : Nat, filled : Nat, listed : BOOLEAN]

Gtt == [status : {"NONE", "active", "triggered", "deleted"},
        tag : Ids \union {NoId}]

\* A broker id that has not been handed out yet.
NoOrder == [status |-> "NONE", kind |-> "none", tag |-> NoId, sym |-> NoId,
            dir |-> 0, qty |-> 0, filled |-> 0, listed |-> FALSE]
NoGtt   == [status |-> "NONE", tag |-> NoId]

FreshOrder(o) ==
  /\ orders[o].status = "NONE"
  /\ \A p \in OrderIds : p < o => orders[p].status # "NONE"

FreshGtt(g) ==
  /\ gtts[g].status = "NONE"
  /\ \A h \in GttIds : h < g => gtts[h].status # "NONE"

ExchangeInit ==
  /\ orders = [o \in OrderIds |-> NoOrder]
  /\ gtts = [g \in GttIds |-> NoGtt]
  /\ pos = [s \in Symbols |-> 0]
  /\ budget = MaxFaults

\* Use up one fault of kind f.
Spend(f) ==
  /\ f \in Faults
  /\ budget > 0
  /\ budget' = budget - 1

-----------------------------------------------------------------------------
(* Accepting what the program submits.                                      *)

AcceptOrder(o, kind, tag, sym, dir, qty) ==
  /\ FreshOrder(o)
  /\ orders' = [orders EXCEPT ![o] =
                  [status |-> "OPEN", kind |-> kind, tag |-> tag, sym |-> sym,
                   dir |-> dir, qty |-> qty, filled |-> 0, listed |-> TRUE]]

AcceptEntry(o, id) ==
  AcceptOrder(o, "entry", id, SymbolOf[id], DirOf[id], QtyOf[id])

AcceptGtt(g, id) ==
  /\ FreshGtt(g)
  /\ gtts' = [gtts EXCEPT ![g] = [status |-> "active", tag |-> id]]

-----------------------------------------------------------------------------
(* What the market and the exchange do on their own.                        *)

\* Some of the remaining quantity of an open order is traded.
Fill(o) ==
  /\ orders[o].status = "OPEN"
  /\ \E k \in 1..(orders[o].qty - orders[o].filled) :
       /\ orders' = [orders EXCEPT
                       ![o].filled = @ + k,
                       ![o].status = IF orders[o].filled + k = orders[o].qty
                                       THEN "COMPLETE" ELSE "OPEN"]
       /\ pos' = [pos EXCEPT ![orders[o].sym] = @ + k * orders[o].dir]
  /\ UNCHANGED <<gtts, budget>>

\* An order that has not traded is rejected by the exchange.
RejectOrder(o) ==
  /\ orders[o].status = "OPEN"
  /\ orders[o].filled = 0
  /\ orders' = [orders EXCEPT ![o].status = "REJECTED"]
  /\ UNCHANGED <<gtts, pos, budget>>

\* An order is cancelled, possibly after it traded in part.
CancelOrder(o) ==
  /\ orders[o].status = "OPEN"
  /\ orders' = [orders EXCEPT ![o].status = "CANCELLED"]
  /\ UNCHANGED <<gtts, pos, budget>>

\* One leg of an active OCO GTT triggers: the other leg is gone and the exit
\* order enters the book.
Trigger(g) ==
  /\ gtts[g].status = "active"
  /\ gtts' = [gtts EXCEPT ![g].status = "triggered"]
  /\ LET id == gtts[g].tag
     IN  \E o \in OrderIds :
           AcceptOrder(o, "exit", id, SymbolOf[id], 0 - DirOf[id], QtyOf[id])
  /\ UNCHANGED <<pos, budget>>

\* A GTT is removed behind the program's back (expired, deleted by hand).
VanishGtt(g) ==
  /\ gtts[g].status = "active"
  /\ Spend("gtt_vanish")
  /\ gtts' = [gtts EXCEPT ![g].status = "deleted"]
  /\ UNCHANGED <<orders, pos>>

\* The trading day ends: DAY orders lapse and the next day's order book no
\* longer lists them.
NewDay ==
  /\ Spend("new_day")
  /\ orders' = [o \in OrderIds |->
                  [orders[o] EXCEPT
                     !.status = IF @ = "OPEN" THEN "CANCELLED" ELSE @,
                     !.listed = FALSE]]
  /\ UNCHANGED <<gtts, pos>>

ExchangeStep ==
  \/ \E o \in OrderIds : Fill(o) \/ RejectOrder(o) \/ CancelOrder(o)
  \/ \E g \in GttIds : Trigger(g) \/ VanishGtt(g)
  \/ NewDay

ExchangeTypeOK ==
  /\ orders \in [OrderIds -> Order]
  /\ gtts \in [GttIds -> Gtt]
  /\ pos \in [Symbols -> Int]
  /\ budget \in Nat
=============================================================================
