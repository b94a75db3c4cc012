----------------------------- MODULE KiteBroker -----------------------------
(***************************************************************************)
(* The live broker of execution/kite.py: a LIMIT entry order, and once it  *)
(* filled one OCO GTT that carries stop and target, walked through         *)
(*     PENDING_ENTRY -> ENTERED -> EXITED   (or FAILED, CANCELLED)         *)
(* by polling, with every record kept in the DuckDB table of               *)
(* execution/order_state.py.                                               *)
(*                                                                         *)
(* One process at a time holds the state file: the live loop, which on     *)
(* every bar calls poll_and_advance and then at most once                  *)
(* place_bracket_order; the flatten command, which calls flatten_all; or   *)
(* the dashboard, which can mark a record.  Every call to the Kite API and *)
(* every write of a record is one action, so that the exchange moves, a    *)
(* reply is lost or the process dies between any two of them.  A placement *)
(* refused by the kill switch, by the risk checks, by qty < 1 or by a      *)
(* record that already exists changes nothing: it is NoSignal.             *)
(* Abstractions: prices, and with them fill_price, exit_price and pnl; the *)
(* order list_open() walks the records in (any order); a position whose    *)
(* average_price is 0 (get_positions would skip it) does not occur.        *)
(***************************************************************************)
EXTENDS KiteExchange, FiniteSets

CONSTANTS
  Retries,      \* retries of with_retry (3 in the code)
  PollBudget    \* _FLATTEN_POLL_BUDGET (10 in the code)

ASSUME RetryTypes ==
  /\ Retries \in Nat
  /\ PollBudget \in Nat \ {0}

VARIABLES
  store,     \* OrderStateStore: the persisted record of each client order id
  pc,        \* where the running process is, "down" when there is none
  cur,       \* the record in hand
  tries,     \* attempts used by the call in progress
  newId,     \* id returned by the exchange and not persisted yet
  signalled, \* ids this live run has tried to place (a bar is visited once)
  todo,      \* records of list_open() still to be walked
  snapO,     \* answer of client.orders(), by record
  snapG,     \* answer of client.get_gtts(), by record
  sq,        \* positions flatten_all read and has not squared off yet
  outcome    \* how the last flatten_all ended

memVars == <<cur, tries, newId, signalled, todo, snapO, snapG, sq>>
vars == <<exchangeVars, budget, store, pc, memVars, outcome>>

OrderState == {"NONE", "PENDING_ENTRY", "ENTERED", "EXITED", "FAILED", "CANCELLED"}
OPEN_STATES == {"PENDING_ENTRY", "ENTERED"}

\* The columns of order_records that the state machine reads and writes; 0 is
\* SQL NULL.
Record == [state : OrderState, entry : Nat, gtt : Nat]
NoRecord == [state |-> "NONE", entry |-> 0, gtt |-> 0]

ListOpen == {id \in Ids : store[id].state \in OPEN_STATES}

Absent == [id \in Ids |-> "absent"]
NoPositions == [s \in Symbols |-> 0]

\* The process goes to program point p and its local variables go out of scope.
Goto(p) ==
  /\ pc' = p
  /\ cur' = NoId
  /\ tries' = 0
  /\ newId' = 0
  /\ signalled' = IF p = "down" THEN {} ELSE signalled
  /\ todo' = {}
  /\ snapO' = Absent
  /\ snapG' = Absent
  /\ sq' = NoPositions

\* Write the record of id (OrderStateStore.upsert).
Persist(id, record) == store' = [store EXCEPT ![id] = record]

Init ==
  /\ ExchangeInit
  /\ store = [id \in Ids |-> NoRecord]
  /\ pc = "down"
  /\ cur = NoId
  /\ tries = 0
  /\ newId = 0
  /\ signalled = {}
  /\ todo = {}
  /\ snapO = Absent
  /\ snapG = Absent
  /\ sq = NoPositions
  /\ outcome = "none"

-----------------------------------------------------------------------------
(* The processes: live, flatten, and their deaths.                          *)

PositionSymbols == {s \in Symbols : pos[s] # 0}

\* The reconciler's report: symbols of open records without a position, and
\* positions without an open record unless there is no open record at all.
DetectDrift ==
  LET recordSymbols == {SymbolOf[id] : id \in ListOpen}
  IN  (recordSymbols \ PositionSymbols) \union
      (IF recordSymbols = {} THEN {} ELSE PositionSymbols \ recordSymbols)

\* The live command opens the store, prints DetectDrift and enters the loop.
StartLive ==
  /\ pc = "down"
  /\ pc' = "idle"
  /\ outcome' = "none"
  /\ UNCHANGED <<exchangeVars, budget, store, memVars>>

\* The loop ran out of bars and the live command returns.
StopLive ==
  /\ pc = "idle"
  /\ Goto("down")
  /\ UNCHANGED <<exchangeVars, budget, store, outcome>>

StartFlatten ==
  /\ pc = "down"
  /\ pc' = "f_list"
  /\ outcome' = "none"
  /\ UNCHANGED <<exchangeVars, budget, store, memVars>>

\* OrdersService.mark: an operator forces an open record to a terminal state;
\* the broker is not told.
Mark(id, state) ==
  /\ pc = "down"
  /\ state \in {"FAILED", "CANCELLED"}
  /\ id \in ListOpen
  /\ Spend("mark")
  /\ Persist(id, [store[id] EXCEPT !.state = state])
  /\ UNCHANGED <<exchangeVars, pc, memVars, outcome>>

Crash ==
  /\ pc # "down"
  /\ Spend("crash")
  /\ Goto("down")
  /\ UNCHANGED <<exchangeVars, store, outcome>>

-----------------------------------------------------------------------------
(* place_bracket_order                                                      *)

\* Mutant of LookupExisting: an exited record is not found.
LookupOnlyOpen(id) == store[id].state \in OPEN_STATES

\* Mutant of LookupExisting: a pending record is not found.
LookupWithoutPending(id) == store[id].state \in {"ENTERED", "EXITED"}

\* _lookup_existing finds the record when it is open or EXITED; a FAILED or
\* CANCELLED one is placed again.
LookupExisting(id) == store[id].state \in OPEN_STATES \union {"EXITED"}

\* The bar brings no signal that reaches the broker, or one it refuses.
NoSignal ==
  /\ pc = "signal"
  /\ Goto("idle")
  /\ UNCHANGED <<exchangeVars, budget, store, outcome>>

PlaceStart(id) ==
  /\ pc = "signal"
  /\ id \notin signalled
  /\ ~LookupExisting(id)
  /\ pc' = "place"
  /\ cur' = id
  /\ signalled' = signalled \union {id}
  /\ UNCHANGED <<exchangeVars, budget, store, tries, newId, todo, snapO, snapG,
                 sq, outcome>>

\* client.place_order returned an order id.
PlaceOk ==
  /\ pc = "place"
  /\ \E o \in OrderIds :
       /\ AcceptEntry(o, cur)
       /\ newId' = o
  /\ pc' = "place_persist"
  /\ tries' = 0
  /\ UNCHANGED <<gtts, pos, budget, store, cur, signalled, todo, snapO, snapG,
                 sq, outcome>>

\* An exception; when applied, the order was accepted and only the reply was
\* lost.  with_retry submits a retryable one again while retries are left;
\* any other one, or the last, is a REJECTED result and leaves no record.
PlaceFails(applied) ==
  /\ pc = "place"
  /\ Spend(IF applied THEN "lost_reply" ELSE "api_error")
  /\ IF applied THEN \E o \in OrderIds : AcceptEntry(o, cur)
                ELSE UNCHANGED orders
  /\ \/ /\ tries < Retries
        /\ tries' = tries + 1
        /\ UNCHANGED <<pc, cur, newId, signalled, todo, snapO, snapG, sq>>
     \/ Goto("idle")
  /\ UNCHANGED <<gtts, pos, store, outcome>>

\* InputException or OrderException: REJECTED result, no record.
PlaceRejected ==
  /\ pc = "place"
  /\ Goto("idle")
  /\ UNCHANGED <<exchangeVars, budget, store, outcome>>

PlacePersist ==
  /\ pc = "place_persist"
  /\ Persist(cur, [state |-> "PENDING_ENTRY", entry |-> newId, gtt |-> 0])
  /\ Goto("idle")
  /\ UNCHANGED <<exchangeVars, budget, outcome>>

-----------------------------------------------------------------------------
(* poll_and_advance                                                         *)

\* A new bar: without open records there is nothing to ask the broker.
PollStart ==
  /\ pc = "idle"
  /\ todo' = ListOpen
  /\ pc' = IF ListOpen = {} THEN "signal" ELSE "p_orders"
  /\ UNCHANGED <<exchangeVars, budget, store, cur, tries, newId, signalled,
                 snapO, snapG, sq, outcome>>

\* Mutant of BookStatus: only working orders are looked at.
BookStatusOpenOnly(id) ==
  IF id \in todo /\ store[id].entry \in OrderIds
     /\ orders[store[id].entry].status = "OPEN"
    THEN "OPEN" ELSE "absent"

\* Status of a record's entry order in today's book.
BookStatus(id) ==
  IF id \in todo /\ store[id].entry \in OrderIds /\ orders[store[id].entry].listed
    THEN orders[store[id].entry].status ELSE "absent"

PollOrders ==
  /\ pc = "p_orders"
  /\ snapO' = [id \in Ids |-> BookStatus(id)]
  /\ pc' = "p_gtts"
  /\ UNCHANGED <<exchangeVars, budget, store, cur, tries, newId, signalled,
                 todo, snapG, sq, outcome>>

\* orders() fails after the retries: the poll is given up.
PollOrdersFails ==
  /\ pc = "p_orders"
  /\ Spend("api_error")
  /\ Goto("signal")
  /\ UNCHANGED <<exchangeVars, store, outcome>>

\* Mutant of GttStatus: only active GTTs are looked at.
GttStatusActiveOnly(id) ==
  IF id \in todo /\ store[id].gtt \in GttIds /\ gtts[store[id].gtt].status = "active"
    THEN "active" ELSE "absent"

\* Status of a record's GTT; get_gtts() no longer lists a deleted one.
GttStatus(id) ==
  IF id \in todo /\ store[id].gtt \in GttIds
     /\ gtts[store[id].gtt].status \in {"active", "triggered"}
    THEN gtts[store[id].gtt].status ELSE "absent"

\* get_gtts() returns, or fails after the retries and counts as empty.
PollGtts ==
  /\ pc = "p_gtts"
  /\ \/ /\ snapG' = [id \in Ids |-> GttStatus(id)]
        /\ UNCHANGED budget
     \/ /\ Spend("api_error")
        /\ snapG' = Absent
  /\ pc' = "p_walk"
  /\ UNCHANGED <<exchangeVars, store, cur, tries, newId, signalled, todo, snapO,
                 sq, outcome>>

\* Mutant of AdvanceFilled: any listed entry gets its GTT.
AdvanceListed(id) ==
  /\ pc = "p_walk"
  /\ id \in todo
  /\ store[id].state = "PENDING_ENTRY"
  /\ snapO[id] # "absent"
  /\ pc' = "p_gtt"
  /\ cur' = id
  /\ todo' = todo \ {id}
  /\ UNCHANGED <<exchangeVars, budget, store, tries, newId, signalled, snapO,
                 snapG, sq, outcome>>

\* _advance_pending on a filled entry: go and place the OCO GTT.
AdvanceFilled(id) ==
  /\ pc = "p_walk"
  /\ id \in todo
  /\ store[id].state = "PENDING_ENTRY"
  /\ snapO[id] = "COMPLETE"
  /\ pc' = "p_gtt"
  /\ cur' = id
  /\ todo' = todo \ {id}
  /\ UNCHANGED <<exchangeVars, budget, store, tries, newId, signalled, snapO,
                 snapG, sq, outcome>>

\* _advance_pending on an entry the broker closed without filling it.
AdvanceRejected(id) ==
  /\ pc = "p_walk"
  /\ id \in todo
  /\ store[id].state = "PENDING_ENTRY"
  /\ snapO[id] \in {"REJECTED", "CANCELLED"}
  /\ Persist(id, [store[id] EXCEPT !.state = "FAILED"])
  /\ todo' = todo \ {id}
  /\ UNCHANGED <<exchangeVars, budget, pc, cur, tries, newId, signalled, snapO,
                 snapG, sq, outcome>>

\* Mutant of AdvanceTriggered: a GTT that is not listed counts as triggered.
AdvanceNotActive(id) ==
  /\ pc = "p_walk"
  /\ id \in todo
  /\ store[id].state = "ENTERED"
  /\ snapG[id] # "active"
  /\ Persist(id, [store[id] EXCEPT !.state = "EXITED"])
  /\ todo' = todo \ {id}
  /\ UNCHANGED <<exchangeVars, budget, pc, cur, tries, newId, signalled, snapO,
                 snapG, sq, outcome>>

\* _advance_entered on a triggered GTT: the exit is booked.
AdvanceTriggered(id) ==
  /\ pc = "p_walk"
  /\ id \in todo
  /\ store[id].state = "ENTERED"
  /\ snapG[id] = "triggered"
  /\ Persist(id, [store[id] EXCEPT !.state = "EXITED"])
  /\ todo' = todo \ {id}
  /\ UNCHANGED <<exchangeVars, budget, pc, cur, tries, newId, signalled, snapO,
                 snapG, sq, outcome>>

\* Entry still working or not listed, GTT not triggered or missing.
AdvanceNothing(id) ==
  /\ pc = "p_walk"
  /\ id \in todo
  /\ \/ store[id].state = "PENDING_ENTRY" /\ snapO[id] \notin Terminal
     \/ store[id].state = "ENTERED" /\ snapG[id] # "triggered"
  /\ todo' = todo \ {id}
  /\ UNCHANGED <<exchangeVars, budget, store, pc, cur, tries, newId, signalled,
                 snapO, snapG, sq, outcome>>

PollDone ==
  /\ pc = "p_walk"
  /\ todo = {}
  /\ Goto("signal")
  /\ UNCHANGED <<exchangeVars, budget, store, outcome>>

-----------------------------------------------------------------------------
(* _place_oco_gtt                                                           *)

\* Back to the walk over the remaining records.
BackToWalk ==
  /\ pc' = "p_walk"
  /\ cur' = NoId
  /\ tries' = 0
  /\ newId' = 0
  /\ UNCHANGED <<signalled, todo, snapO, snapG, sq>>

MarkFailed(id) == Persist(id, [store[id] EXCEPT !.state = "FAILED"])

GttOk ==
  /\ pc = "p_gtt"
  /\ \E g \in GttIds :
       /\ AcceptGtt(g, cur)
       /\ newId' = g
  /\ pc' = "p_gtt_persist"
  /\ tries' = 0
  /\ UNCHANGED <<orders, pos, budget, store, cur, signalled, todo, snapO, snapG,
                 sq, outcome>>

\* As for PlaceFails, and the record FAILED when the retries are over.  A reply
\* without a trigger id is the case applied /\ ~retried.
GttFails(applied) ==
  /\ pc = "p_gtt"
  /\ Spend(IF applied THEN "lost_reply" ELSE "api_error")
  /\ IF applied THEN \E g \in GttIds : AcceptGtt(g, cur)
                ELSE UNCHANGED gtts
  /\ \/ /\ tries < Retries
        /\ tries' = tries + 1
        /\ UNCHANGED <<store, pc, cur, newId, signalled, todo, snapO, snapG,
                       sq>>
     \/ /\ MarkFailed(cur)
        /\ BackToWalk
  /\ UNCHANGED <<orders, pos, outcome>>

\* InputException or OrderException.
GttRejected ==
  /\ pc = "p_gtt"
  /\ MarkFailed(cur)
  /\ BackToWalk
  /\ UNCHANGED <<exchangeVars, budget, outcome>>

\* Mutant of GttPersist: any open record is written, not the one in hand.
GttPersistOther ==
  /\ pc = "p_gtt_persist"
  /\ \E id \in ListOpen : Persist(id, [store[id] EXCEPT !.state = "ENTERED", !.gtt = newId])
  /\ BackToWalk
  /\ UNCHANGED <<exchangeVars, budget, outcome>>

GttPersist ==
  /\ pc = "p_gtt_persist"
  /\ Persist(cur, [store[cur] EXCEPT !.state = "ENTERED", !.gtt = newId])
  /\ BackToWalk
  /\ UNCHANGED <<exchangeVars, budget, outcome>>

-----------------------------------------------------------------------------
(* flatten_all                                                              *)

\* The ENTERED records, the only ones whose GTT flatten_all cancels.
FlattenList ==
  /\ pc = "f_list"
  /\ todo' = {id \in ListOpen : store[id].state = "ENTERED" /\ store[id].gtt # 0}
  /\ pc' = "f_del"
  /\ UNCHANGED <<exchangeVars, budget, store, cur, tries, newId, signalled,
                 snapO, snapG, sq, outcome>>

\* Mutant of FlattenDelete: the GTT stays.
FlattenKeep(id) ==
  /\ pc = "f_del"
  /\ id \in todo
  /\ cur' = id
  /\ todo' = todo \ {id}
  /\ pc' = "f_mark"
  /\ UNCHANGED <<exchangeVars, budget, store, tries, newId, signalled, snapO,
                 snapG, sq, outcome>>

\* _safe_delete_gtt: the GTT is deleted, or the call fails (there is nothing
\* left to delete, or the API is down) and the failure is only logged.
FlattenDelete(id) ==
  /\ pc = "f_del"
  /\ id \in todo
  /\ LET g == store[id].gtt
     IN  \/ /\ gtts[g].status = "active"
            /\ gtts' = [gtts EXCEPT ![g].status = "deleted"]
            /\ UNCHANGED budget
         \/ /\ gtts[g].status # "active"
            /\ UNCHANGED <<gtts, budget>>
         \/ /\ Spend("api_error")
            /\ UNCHANGED gtts
  /\ cur' = id
  /\ todo' = todo \ {id}
  /\ pc' = "f_mark"
  /\ UNCHANGED <<orders, pos, store, tries, newId, signalled, snapO, snapG, sq,
                 outcome>>

\* Mutant of FlattenMark: the record is not written.
FlattenMarkNothing ==
  /\ pc = "f_mark"
  /\ cur' = NoId
  /\ pc' = "f_del"
  /\ UNCHANGED <<exchangeVars, budget, store, tries, newId, signalled, todo,
                 snapO, snapG, sq, outcome>>

FlattenMark ==
  /\ pc = "f_mark"
  /\ Persist(cur, [store[cur] EXCEPT !.state = "CANCELLED"])
  /\ cur' = NoId
  /\ pc' = "f_del"
  /\ UNCHANGED <<exchangeVars, budget, tries, newId, signalled, todo, snapO,
                 snapG, sq, outcome>>

\* Mutant of FlattenPositions: the square-off does not wait for the GTTs.
FlattenPositionsFirst ==
  /\ pc = "f_del"
  /\ sq' = pos
  /\ pc' = "f_sq"
  /\ todo' = {}
  /\ UNCHANGED <<exchangeVars, budget, store, cur, tries, newId, signalled,
                 snapO, snapG, outcome>>

\* positions() is read; when it fails here the exception leaves flatten_all.
FlattenPositions ==
  /\ pc = "f_del"
  /\ todo = {}
  /\ sq' = pos
  /\ pc' = "f_sq"
  /\ UNCHANGED <<exchangeVars, budget, store, cur, tries, newId, signalled,
                 todo, snapO, snapG, outcome>>

FlattenRaises ==
  /\ pc \in {"f_del", "f_final"}
  /\ todo = {}
  /\ Spend("api_error")
  /\ outcome' = "error"
  /\ Goto("down")
  /\ UNCHANGED <<exchangeVars, store>>

Opposite(q) == IF q > 0 THEN -1 ELSE 1
Magnitude(q) == IF q > 0 THEN q ELSE 0 - q

\* _place_market_square_off: one MARKET order per position read.  A lost reply
\* submits it again; a failure is logged and swallowed.
SquareOff(s) ==
  /\ pc = "f_sq"
  /\ sq[s] # 0
  /\ \E o \in OrderIds :
       AcceptOrder(o, "squareoff", NoId, s, Opposite(sq[s]), Magnitude(sq[s]))
  /\ \/ /\ sq' = [sq EXCEPT ![s] = 0]
        /\ tries' = 0
        /\ UNCHANGED budget
     \/ /\ Spend("lost_reply")
        /\ tries < Retries
        /\ tries' = tries + 1
        /\ UNCHANGED sq
  /\ UNCHANGED <<gtts, pos, store, pc, cur, newId, signalled, todo, snapO,
                 snapG, outcome>>

SquareOffFails(s) ==
  /\ pc = "f_sq"
  /\ sq[s] # 0
  /\ sq' = [sq EXCEPT ![s] = 0]
  /\ tries' = 0
  /\ UNCHANGED <<exchangeVars, budget, store, pc, cur, newId, signalled, todo,
                 snapO, snapG, outcome>>

SquareOffDone ==
  /\ pc = "f_sq"
  /\ sq = NoPositions
  /\ pc' = "f_poll"
  /\ UNCHANGED <<exchangeVars, budget, store, memVars, outcome>>

\* One confirmation poll.  No residual ends the command; a failing positions()
\* counts as no residual.
FlattenConfirmed ==
  /\ pc = "f_poll"
  /\ \/ PositionSymbols = {} /\ UNCHANGED budget
     \/ Spend("api_error")
  /\ outcome' = "complete"
  /\ Goto("down")
  /\ UNCHANGED <<exchangeVars, store>>

FlattenResidual ==
  /\ pc = "f_poll"
  /\ PositionSymbols # {}
  /\ IF tries + 1 < PollBudget
       THEN /\ tries' = tries + 1
            /\ UNCHANGED pc
       ELSE /\ tries' = 0
            /\ pc' = "f_final"
  /\ UNCHANGED <<exchangeVars, budget, store, cur, newId, signalled, todo,
                 snapO, snapG, sq, outcome>>

\* The last look after the budget: FlattenIncomplete when something is open.
FlattenFinal ==
  /\ pc = "f_final"
  /\ outcome' = IF PositionSymbols = {} THEN "complete" ELSE "incomplete"
  /\ Goto("down")
  /\ UNCHANGED <<exchangeVars, budget, store>>

-----------------------------------------------------------------------------

ExchangeMoves ==
  ExchangeStep /\ UNCHANGED <<store, pc, memVars, outcome>>

PollStep ==
  \/ PollStart \/ PollOrders \/ PollOrdersFails \/ PollGtts \/ PollDone
  \/ \E id \in Ids : \/ AdvanceFilled(id) \/ AdvanceRejected(id)
                     \/ AdvanceTriggered(id) \/ AdvanceNothing(id)
  \/ GttOk \/ GttRejected \/ GttPersist
  \/ \E applied \in BOOLEAN : GttFails(applied)

PlaceStep ==
  \/ \E id \in Ids : PlaceStart(id)
  \/ NoSignal \/ PlaceOk \/ PlaceRejected \/ PlacePersist
  \/ \E applied \in BOOLEAN : PlaceFails(applied)

FlattenStep ==
  \/ FlattenList \/ FlattenMark \/ FlattenPositions \/ FlattenRaises
  \/ SquareOffDone \/ FlattenConfirmed \/ FlattenResidual \/ FlattenFinal
  \/ \E id \in Ids : FlattenDelete(id)
  \/ \E s \in Symbols : SquareOff(s) \/ SquareOffFails(s)

ProcessStep ==
  \/ StartLive \/ StopLive \/ StartFlatten \/ Crash
  \/ \E id \in Ids, state \in OrderState : Mark(id, state)

Next ==
  \/ ProcessStep \/ PlaceStep \/ PollStep \/ FlattenStep
  \/ ExchangeMoves

Spec == Init /\ [][Next]_vars

\* A started process runs: Python is synchronous, and nothing it waits for is
\* unbounded.  A live run that ends is started again (restart: unless-stopped
\* in deploy/docker-compose.yml), and its frame has bars inside the session.
Fairness ==
  /\ SF_vars(StartLive)
  /\ SF_vars(PollStart)
  /\ WF_vars(PlaceStep)
  /\ WF_vars(PollStep /\ pc # "idle")
  /\ WF_vars(FlattenStep)

FairSpec == Spec /\ Fairness

-----------------------------------------------------------------------------
(* Properties *)

ProgramPoints == {"down", "idle", "signal", "place", "place_persist", "p_orders",
                  "p_gtts", "p_walk", "p_gtt", "p_gtt_persist", "f_list", "f_del",
                  "f_mark", "f_sq", "f_poll", "f_final"}

\* Every variable has its type; a record in hand exists wherever the code
\* dereferences it, and ids read from the store are ids of the exchange.
TypeOK ==
  /\ ExchangeTypeOK
  /\ store \in [Ids -> Record]
  /\ \A id \in Ids : /\ store[id].entry \in OrderIds \union {0}
                     /\ store[id].gtt \in GttIds \union {0}
  /\ pc \in ProgramPoints
  /\ cur \in Ids \union {NoId}
  /\ pc \in {"place", "place_persist", "p_gtt", "p_gtt_persist", "f_mark"} => cur \in Ids
  /\ tries \in Nat
  /\ newId \in Nat
  /\ signalled \subseteq Ids
  /\ todo \subseteq Ids
  /\ snapO \in [Ids -> OrderStatus \union {"absent"}]
  /\ snapG \in [Ids -> {"absent", "active", "triggered"}]
  /\ sq \in [Symbols -> Int]
  /\ outcome \in {"none", "complete", "incomplete", "error"}

\* What a record points at is its own: the entry order and the GTT it names
\* were submitted for this very client order id, whatever was retried, lost
\* or replayed, so no two records ever act on the same order or GTT.
TrackedOwn ==
  \A id \in Ids :
    /\ store[id].entry # 0 => /\ orders[store[id].entry].kind = "entry"
                              /\ orders[store[id].entry].tag = id
    /\ store[id].gtt # 0 => gtts[store[id].gtt].tag = id

\* "The OCO GTT [...] goes out only once poll_and_advance observes that the
\* entry filled" (place_bracket_order): whatever happened, a GTT on the
\* exchange belongs to a client order id one of whose entries filled completely.
GttOnlyAfterFill ==
  \A g \in GttIds : gtts[g].status # "NONE" =>
    \E o \in OrderIds : /\ orders[o].kind = "entry"
                        /\ orders[o].tag = gtts[g].tag
                        /\ orders[o].status = "COMPLETE"

\* The broker's side of a record's state: an ENTERED record has a filled entry
\* and a GTT, an EXITED one has a filled entry and a GTT that triggered, and a
\* PENDING_ENTRY one has no GTT yet.
StateBacked ==
  \A id \in Ids :
    /\ store[id].state \in {"ENTERED", "EXITED"} =>
         /\ store[id].entry # 0
         /\ orders[store[id].entry].status = "COMPLETE"
         /\ store[id].gtt # 0
    /\ store[id].state = "EXITED" => gtts[store[id].gtt].status = "triggered"
    /\ store[id].state = "PENDING_ENTRY" => store[id].entry # 0 /\ store[id].gtt = 0

\* Without a crash, a lost reply or a manual mark, an entry order working in
\* the market is the one some PENDING_ENTRY record polls, or the one
\* place_bracket_order is about to persist: none is forgotten.
NoOrphanEntry ==
  \A o \in OrderIds : orders[o].kind = "entry" /\ orders[o].status = "OPEN" =>
    LET id == orders[o].tag
    IN  \/ store[id].state = "PENDING_ENTRY" /\ store[id].entry = o
        \/ pc = "place_persist" /\ newId = o /\ cur = id

\* Without those and without failing API calls, an active GTT is the one some
\* ENTERED record polls, or the one _place_oco_gtt is about to persist.
NoOrphanGtt ==
  \A g \in GttIds : gtts[g].status = "active" =>
    LET id == gtts[g].tag
    IN  \/ store[id].state = "ENTERED" /\ store[id].gtt = g
        \/ pc = "p_gtt_persist" /\ newId = g /\ cur = id

\* Unless the process dies or a GTT vanishes, an ENTERED position is protected:
\* its GTT is waiting or has triggered, or flatten_all just removed it and
\* writes CANCELLED next.
EnteredProtected ==
  \A id \in Ids : store[id].state = "ENTERED" =>
    \/ gtts[store[id].gtt].status \in {"active", "triggered"}
    \/ pc = "f_mark" /\ cur = id

\* "Cancel any tracked GTTs first so a fresh-triggered exit cannot race the
\* square-off" (flatten_all): without those faults either, from the moment the
\* positions are read for the square-off there is no GTT left to trigger, and no
\* record that says ENTERED.
FlattenDisarms ==
  pc \in {"f_sq", "f_poll", "f_final"} =>
    /\ \A id \in Ids : store[id].state # "ENTERED"
    /\ \A g \in GttIds : gtts[g].status # "active"

\* A record only takes the steps of the documented state machine, plus the one
\* that places a FAILED or CANCELLED id again; EXITED is final and an entered
\* position never goes back to PENDING_ENTRY.
LifecycleEdges ==
  {<<"NONE", "PENDING_ENTRY">>, <<"FAILED", "PENDING_ENTRY">>,
   <<"CANCELLED", "PENDING_ENTRY">>, <<"PENDING_ENTRY", "ENTERED">>,
   <<"PENDING_ENTRY", "FAILED">>, <<"ENTERED", "EXITED">>, <<"ENTERED", "CANCELLED">>}

\* The edges OrdersService.mark adds.
MarkEdges == {<<"PENDING_ENTRY", "CANCELLED">>, <<"ENTERED", "FAILED">>}

LifecycleStep ==
  \A id \in Ids : store'[id].state # store[id].state =>
    <<store[id].state, store'[id].state>> \in
      LifecycleEdges \union (IF pc = "down" THEN MarkEdges ELSE {})

\* Records move along LifecycleEdges only.
LifecycleSteps == [][LifecycleStep]_vars

\* What the market has seen of each client order id.
EntriesSent == {id \in Ids : \E o \in OrderIds : orders[o].kind = "entry" /\ orders[o].tag = id}
EntriesFilled ==
  {id \in Ids : \E o \in OrderIds : /\ orders[o].kind = "entry" /\ orders[o].tag = id
                                    /\ orders[o].status = "COMPLETE"}
ExitsSent == {id \in Ids : \E o \in OrderIds : orders[o].kind = "exit" /\ orders[o].tag = id}

\* The broker implements OrderLifecycle: whatever crashes, is lost, retried,
\* placed again or marked by hand, no record is ahead of the market, and no exit
\* is sent before the entry it closes filled completely.
Lifecycle == INSTANCE OrderLifecycle
  WITH state <- [id \in Ids |-> store[id].state],
       sent <- EntriesSent, filled <- EntriesFilled, exiting <- ExitsSent
ImplementsOrderLifecycle == Lifecycle!Spec

\* Once the broker closed an entry order on the day it was placed, the record
\* stops being PENDING_ENTRY: fills get their GTT (or fail visibly), rejections
\* are noticed.
EntryResolved ==
  \A id \in Ids :
    (store[id].state = "PENDING_ENTRY" /\ orders[store[id].entry].status \in Terminal)
      ~> store[id].state # "PENDING_ENTRY"

\* Once a tracked GTT has triggered, the record is eventually closed.
ExitBooked ==
  \A id \in Ids :
    (store[id].state = "ENTERED" /\ gtts[store[id].gtt].status = "triggered")
      ~> store[id].state \in {"EXITED", "CANCELLED"}

-----------------------------------------------------------------------------
(* Statements of the repository that the code does not meet; each is refuted *)
(* by a run of its own.                                                      *)

\* order_state.py: the broker can "survive process restarts and behave
\* idempotently across them" - one client order id never has two live entries.
OneEntryPerId ==
  \A id \in Ids :
    Cardinality({o \in OrderIds : /\ orders[o].kind = "entry"
                                  /\ orders[o].tag = id
                                  /\ orders[o].status \in {"OPEN", "COMPLETE"}}) <= 1
=============================================================================
