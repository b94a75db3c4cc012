-------------------------- MODULE KiteBrokerProofs --------------------------
(***************************************************************************)
(* TLAPS proofs about KiteBroker, for every set of signals, every bound on *)
(* ids, retries and polls, and every mixture of faults.                    *)
(***************************************************************************)
EXTENDS KiteBroker, TLAPS

-----------------------------------------------------------------------------
(* The inductive invariant *)

\* The exchange only knows what was submitted: an id that was handed out names
\* a symbol and, unless it is a square-off, the client order id it is for.
ExchangeWellFormed ==
  /\ \A o \in OrderIds :
       /\ (orders[o].status = "NONE") <=> (orders[o].kind = "none")
       /\ orders[o].status # "NONE" => orders[o].sym \in Symbols
       /\ orders[o].kind = "entry" => orders[o].tag \in Ids
  /\ \A g \in GttIds : (gtts[g].status = "NONE") <=> (gtts[g].tag = NoId)

\* The records that are still to be walked have not moved since they were
\* listed, and what the snapshots say of a final status is still true.
WalkFresh ==
  /\ pc \in {"p_orders", "p_gtts", "p_walk", "p_gtt", "p_gtt_persist"} =>
       todo \subseteq ListOpen
  /\ pc \in {"f_del", "f_mark"} =>
       \A id \in todo : store[id].state = "ENTERED" /\ store[id].gtt # 0
  /\ pc \notin {"p_orders", "p_gtts", "p_walk", "p_gtt", "p_gtt_persist", "f_del", "f_mark"}
       => todo = {}
  /\ \A id \in todo :
       /\ snapO[id] \in Terminal =>
            store[id].entry # 0 /\ orders[store[id].entry].status = snapO[id]
       /\ snapG[id] = "triggered" =>
            store[id].gtt # 0 /\ gtts[store[id].gtt].status = "triggered"
  /\ pc \notin {"p_gtts", "p_walk", "p_gtt", "p_gtt_persist"} =>
       snapO = Absent /\ snapG = Absent
  /\ cur \notin todo
  /\ pc \notin {"place", "place_persist", "p_gtt", "p_gtt_persist", "f_mark"} => cur = NoId

\* What the process knows about the record in hand between two calls.
InHand ==
  /\ pc \in {"place", "place_persist"} => ~LookupExisting(cur)
  /\ pc = "place_persist" => /\ newId \in OrderIds
                             /\ orders[newId].kind = "entry"
                             /\ orders[newId].tag = cur
  /\ pc \in {"p_gtt", "p_gtt_persist"} =>
       /\ store[cur].state = "PENDING_ENTRY"
       /\ orders[store[cur].entry].status = "COMPLETE"
  /\ pc = "p_gtt_persist" => newId \in GttIds /\ gtts[newId].tag = cur
  /\ pc = "f_mark" => store[cur].state = "ENTERED" /\ store[cur].gtt # 0

IInv ==
  /\ TypeOK
  /\ ExchangeWellFormed
  /\ WalkFresh
  /\ InHand
  /\ TrackedOwn
  /\ GttOnlyAfterFill
  /\ StateBacked

-----------------------------------------------------------------------------
(* Every step preserves the invariant: one step per action. *)

\* Writing a record of the right type keeps the store typed.
LEMMA PersistTyped ==
  ASSUME store \in [Ids -> Record], NEW id \in Ids, NEW record \in Record,
         \A i \in Ids : /\ store[i].entry \in OrderIds \union {0}
                        /\ store[i].gtt \in GttIds \union {0},
         record.entry \in OrderIds \union {0}, record.gtt \in GttIds \union {0},
         Persist(id, record)
  PROVE  /\ store' \in [Ids -> Record]
         /\ \A i \in Ids : /\ store'[i].entry \in OrderIds \union {0}
                           /\ store'[i].gtt \in GttIds \union {0}
         /\ store'[id] = record
         /\ \A i \in Ids : i # id => store'[i] = store[i]
  BY DEF Persist

\* Starting, stopping, marking and dying.
LEMMA ProcessStepsPreserve ==
  ASSUME IInv, ProcessStep
  PROVE  IInv'
<1> USE ConstantTypes, RetryTypes
    DEF IInv, TypeOK, ExchangeTypeOK, ExchangeWellFormed, WalkFresh, InHand,
        TrackedOwn, GttOnlyAfterFill, StateBacked, exchangeVars, memVars, Goto,
        Spend, Persist, Absent, NoPositions, ListOpen, OPEN_STATES, OrderState,
        Record, LookupExisting, ProgramPoints, Order, Gtt, OrderStatus, Terminal
<1>1. CASE StartLive
  BY <1>1 DEF StartLive
<1>2. CASE StopLive
  BY <1>2 DEF StopLive
<1>3. CASE StartFlatten
  BY <1>3 DEF StartFlatten
<1>4. CASE Crash
  BY <1>4 DEF Crash
<1>5. ASSUME NEW id \in Ids, NEW state \in OrderState, Mark(id, state)
      PROVE  IInv'
  BY <1>5 DEF Mark
<1> HIDE DEF IInv
<1> QED
  BY <1>1, <1>2, <1>3, <1>4, <1>5 DEF ProcessStep

\* place_bracket_order.
LEMMA PlaceStepPreserves ==
  ASSUME IInv, PlaceStep
  PROVE  IInv'
<1> USE ConstantTypes, RetryTypes
    DEF IInv, TypeOK, ExchangeTypeOK, ExchangeWellFormed, WalkFresh, InHand,
        TrackedOwn, GttOnlyAfterFill, StateBacked, exchangeVars, memVars, Goto,
        Spend, Persist, Absent, NoPositions, ListOpen, OPEN_STATES, OrderState,
        Record, LookupExisting, ProgramPoints, Order, Gtt, OrderStatus, Terminal,
        AcceptEntry, AcceptOrder, FreshOrder
<1>1. CASE NoSignal
  BY <1>1 DEF NoSignal
<1>2. ASSUME NEW id \in Ids, PlaceStart(id) PROVE IInv'
  BY <1>2 DEF PlaceStart
<1>3. CASE PlaceOk
  BY <1>3, SMTT(30) DEF PlaceOk
<1>4. CASE PlaceRejected
  BY <1>4 DEF PlaceRejected
<1>5. CASE PlacePersist
  BY <1>5 DEF PlacePersist
<1>6. CASE PlaceFails(TRUE)
  <2>1. PICK o \in OrderIds : AcceptEntry(o, cur)
    BY <1>6 DEF PlaceFails
  <2>2. CASE tries < Retries /\ tries' = tries + 1
             /\ UNCHANGED <<pc, cur, newId, signalled, todo, snapO, snapG, sq>>
    BY <1>6, <2>1, <2>2, SMTT(30) DEF PlaceFails
  <2>3. CASE Goto("idle")
    BY <1>6, <2>1, <2>3 DEF PlaceFails
  <2> QED
    BY <1>6, <2>2, <2>3 DEF PlaceFails
<1>7. CASE PlaceFails(FALSE)
  BY <1>7 DEF PlaceFails
<1> HIDE DEF IInv
<1> QED
  <2>1. \A applied \in BOOLEAN : PlaceFails(applied) => IInv'
    BY <1>6, <1>7, Zenon
  <2> QED
    BY <1>1, <1>2, <1>3, <1>4, <1>5, <2>1 DEF PlaceStep

\* poll_and_advance, with _advance_pending, _advance_entered, _place_oco_gtt.
LEMMA PollStepPreserves ==
  ASSUME IInv, PollStep
  PROVE  IInv'
<1> USE ConstantTypes, RetryTypes
    DEF IInv, TypeOK, ExchangeTypeOK, ExchangeWellFormed, WalkFresh, InHand,
        TrackedOwn, GttOnlyAfterFill, StateBacked, exchangeVars, memVars, Goto,
        Spend, Persist, Absent, NoPositions, ListOpen, OPEN_STATES, OrderState,
        Record, LookupExisting, ProgramPoints, Order, Gtt, OrderStatus, Terminal,
        AcceptGtt, FreshGtt, BookStatus, GttStatus, BackToWalk, MarkFailed
<1>1. CASE PollStart
  <2>1. WalkFresh'
    BY <1>1 DEF PollStart
  <2> QED
    BY <1>1, <2>1 DEF PollStart
<1>2. CASE PollOrders
  BY <1>2 DEF PollOrders
<1>3. CASE PollOrdersFails
  BY <1>3 DEF PollOrdersFails
<1>4. CASE PollGtts
  BY <1>4 DEF PollGtts
<1>5. CASE PollDone
  BY <1>5 DEF PollDone
<1>6. ASSUME NEW id \in Ids, AdvanceFilled(id) PROVE IInv'
  BY <1>6 DEF AdvanceFilled
<1>7. ASSUME NEW id \in Ids, AdvanceRejected(id) PROVE IInv'
  BY <1>7 DEF AdvanceRejected
<1>8. ASSUME NEW id \in Ids, AdvanceTriggered(id) PROVE IInv'
  BY <1>8, SMTT(30) DEF AdvanceTriggered
<1>9. ASSUME NEW id \in Ids, AdvanceNothing(id) PROVE IInv'
  BY <1>9 DEF AdvanceNothing
<1>10. CASE GttOk
  BY <1>10 DEF GttOk
<1>11. CASE GttRejected
  BY <1>11, SMTT(30) DEF GttRejected
<1>12. CASE GttPersist
  <2>0. [store[cur] EXCEPT !.state = "ENTERED", !.gtt = newId] \in Record
    BY <1>12, newId \in GttIds, store[cur] \in Record DEF GttPersist
  <2>1. TypeOK'
    BY <1>12, <2>0, PersistTyped, SMTT(30) DEF GttPersist
  <2>2. ExchangeWellFormed' /\ WalkFresh' /\ InHand'
    BY <1>12 DEF GttPersist
  <2>3. TrackedOwn' /\ GttOnlyAfterFill' /\ StateBacked'
    BY <1>12 DEF GttPersist
  <2> QED
    BY <2>1, <2>2, <2>3 DEF IInv
<1>13. CASE GttFails(TRUE)
  <2>1. PICK g \in GttIds : AcceptGtt(g, cur)
    BY <1>13 DEF GttFails
  <2>2. CASE tries < Retries /\ tries' = tries + 1
             /\ UNCHANGED <<store, pc, cur, newId, signalled, todo, snapO, snapG, sq>>
    BY <1>13, <2>1, <2>2 DEF GttFails
  <2>3. CASE MarkFailed(cur) /\ BackToWalk
    <3>1. TypeOK' /\ ExchangeWellFormed'
      BY <1>13, <2>1, <2>3, SMTT(30) DEF GttFails
    <3>2. WalkFresh' /\ InHand'
      BY <1>13, <2>1, <2>3, SMTT(30) DEF GttFails
    <3>3. TrackedOwn' /\ GttOnlyAfterFill' /\ StateBacked'
      BY <1>13, <2>1, <2>3, SMTT(30) DEF GttFails
    <3> QED
      BY <3>1, <3>2, <3>3 DEF IInv
  <2> QED
    BY <1>13, <2>2, <2>3 DEF GttFails
<1>14. CASE GttFails(FALSE)
  <2>1. CASE UNCHANGED store
    BY <1>14, <2>1, SMTT(30) DEF GttFails
  <2>2. CASE MarkFailed(cur) /\ BackToWalk
    BY <1>14, <2>2, SMTT(30) DEF GttFails
  <2> QED
    BY <1>14, <2>1, <2>2 DEF GttFails
<1> HIDE DEF IInv
<1> QED
  <2>1. \A applied \in BOOLEAN : GttFails(applied) => IInv'
    BY <1>13, <1>14, Zenon
  <2> QED
    BY <1>1, <1>2, <1>3, <1>4, <1>5, <1>6, <1>7, <1>8, <1>9, <1>10, <1>11,
       <1>12, <2>1 DEF PollStep

\* flatten_all.
LEMMA FlattenStepPreserves ==
  ASSUME IInv, FlattenStep
  PROVE  IInv'
<1> USE ConstantTypes, RetryTypes
    DEF IInv, TypeOK, ExchangeTypeOK, ExchangeWellFormed, WalkFresh, InHand,
        TrackedOwn, GttOnlyAfterFill, StateBacked, exchangeVars, memVars, Goto,
        Spend, Persist, Absent, NoPositions, ListOpen, OPEN_STATES, OrderState,
        Record, LookupExisting, ProgramPoints, Order, Gtt, OrderStatus, Terminal,
        AcceptOrder, FreshOrder, Opposite, Magnitude
<1>1. CASE FlattenList
  <2>1. WalkFresh'
    BY <1>1 DEF FlattenList
  <2> QED
    BY <1>1, <2>1 DEF FlattenList
<1>2. ASSUME NEW id \in Ids, FlattenDelete(id) PROVE IInv'
  <2> DEFINE g == store[id].gtt
  <2>1. g \in GttIds
    BY <1>2 DEF FlattenDelete
  <2>2. CASE gtts' = [gtts EXCEPT ![g].status = "deleted"] /\ gtts[g].status = "active"
             /\ UNCHANGED budget
    BY <1>2, <2>1, <2>2, SMTT(30) DEF FlattenDelete
  <2>3. CASE UNCHANGED gtts
    BY <1>2, <2>1, <2>3 DEF FlattenDelete
  <2> QED
    BY <1>2, <2>2, <2>3 DEF FlattenDelete
<1>3. CASE FlattenMark
  BY <1>3 DEF FlattenMark
<1>4. CASE FlattenPositions
  BY <1>4 DEF FlattenPositions
<1>5. CASE FlattenRaises
  BY <1>5 DEF FlattenRaises
<1>6. ASSUME NEW s \in Symbols, SquareOff(s) PROVE IInv'
  BY <1>6, SMTT(30) DEF SquareOff
<1>7. ASSUME NEW s \in Symbols, SquareOffFails(s) PROVE IInv'
  BY <1>7 DEF SquareOffFails
<1>8. CASE SquareOffDone
  BY <1>8 DEF SquareOffDone
<1>9. CASE FlattenConfirmed
  BY <1>9 DEF FlattenConfirmed
<1>10. CASE FlattenResidual
  BY <1>10 DEF FlattenResidual
<1>11. CASE FlattenFinal
  BY <1>11 DEF FlattenFinal
<1> HIDE DEF IInv
<1> QED
  BY <1>1, <1>2, <1>3, <1>4, <1>5, <1>6, <1>7, <1>8, <1>9, <1>10, <1>11
     DEF FlattenStep

\* What trading, rejecting, cancelling and the end of the day have in common:
\* an order keeps what it was submitted with, and only a working one changes
\* its status.
WorkingOrdersMove ==
  /\ orders' \in [OrderIds -> Order]
  /\ \A p \in OrderIds :
       /\ orders'[p].kind = orders[p].kind
       /\ orders'[p].tag = orders[p].tag
       /\ orders'[p].sym = orders[p].sym
       /\ orders[p].status # "OPEN" => orders'[p].status = orders[p].status
       /\ orders[p].status = "OPEN" => orders'[p].status # "NONE"

LEMMA FillMoves ==
  ASSUME TypeOK, ExchangeWellFormed, NEW o \in OrderIds, Fill(o)
  PROVE  WorkingOrdersMove /\ pos' \in [Symbols -> Int]
<1>1. PICK k \in 1..(orders[o].qty - orders[o].filled) :
        /\ orders' = [orders EXCEPT
                        ![o].filled = @ + k,
                        ![o].status = IF orders[o].filled + k = orders[o].qty
                                        THEN "COMPLETE" ELSE "OPEN"]
        /\ pos' = [pos EXCEPT ![orders[o].sym] = @ + k * orders[o].dir]
  BY DEF Fill
<1>2. k \in Nat /\ orders[o] \in Order /\ orders[o].sym \in Symbols
  BY DEF TypeOK, ExchangeTypeOK, ExchangeWellFormed, Fill, Order
<1>3. k * orders[o].dir \in Int /\ orders[o].filled + k \in Nat
  BY <1>2 DEF Order
<1>4. pos' \in [Symbols -> Int]
  BY <1>1, <1>2, <1>3 DEF TypeOK, ExchangeTypeOK
<1>5. WorkingOrdersMove
  BY <1>1, <1>2, <1>3 DEF WorkingOrdersMove, TypeOK, ExchangeTypeOK, Fill, Order, OrderStatus
<1> QED
  BY <1>4, <1>5

LEMMA RejectMoves ==
  ASSUME TypeOK, NEW o \in OrderIds, RejectOrder(o)
  PROVE  WorkingOrdersMove
  BY DEF RejectOrder, WorkingOrdersMove, TypeOK, ExchangeTypeOK, Order, OrderStatus

LEMMA CancelMoves ==
  ASSUME TypeOK, NEW o \in OrderIds, CancelOrder(o)
  PROVE  WorkingOrdersMove
<1>0. orders[o] \in Order
  BY DEF TypeOK, ExchangeTypeOK
<1>1. [orders[o] EXCEPT !.status = "CANCELLED"] \in Order
  BY <1>0 DEF Order, OrderStatus
<1>2. orders' = [orders EXCEPT ![o] = [orders[o] EXCEPT !.status = "CANCELLED"]]
  BY DEF CancelOrder
<1> QED
  BY <1>0, <1>1, <1>2 DEF CancelOrder, WorkingOrdersMove, TypeOK, ExchangeTypeOK, Order

LEMMA NewDayMoves ==
  ASSUME TypeOK, NewDay
  PROVE  WorkingOrdersMove
<1> DEFINE lapsed(p) == IF orders[p].status = "OPEN" THEN "CANCELLED" ELSE orders[p].status
           next(p) == [orders[p] EXCEPT !.status = lapsed(p), !.listed = FALSE]
<1>1. orders' = [p \in OrderIds |-> next(p)]
  BY DEF NewDay
<1>2. ASSUME NEW p \in OrderIds
      PROVE  /\ next(p) \in Order
             /\ next(p).status = lapsed(p)
             /\ next(p).kind = orders[p].kind
             /\ next(p).tag = orders[p].tag
             /\ next(p).sym = orders[p].sym
  <2>1. orders[p] \in Order /\ lapsed(p) \in OrderStatus
    BY DEF TypeOK, ExchangeTypeOK, Order, OrderStatus
  <2> QED
    BY <2>1 DEF Order
<1> HIDE DEF next
<1> QED
  BY <1>1, <1>2 DEF WorkingOrdersMove

LEMMA WorkingOrdersPreserve ==
  ASSUME IInv, WorkingOrdersMove, pos' \in [Symbols -> Int], budget' \in Nat,
         UNCHANGED <<gtts, store, pc, memVars, outcome>>
  PROVE  IInv'
<1> USE DEF WorkingOrdersMove, memVars
<1>1. TypeOK' /\ ExchangeWellFormed'
  BY DEF IInv, TypeOK, ExchangeTypeOK, ExchangeWellFormed, Order
<1>2. \A p \in OrderIds : orders[p].status \in Terminal => orders'[p].status = orders[p].status
  BY DEF Terminal
<1>3. WalkFresh'
  BY <1>2 DEF IInv, WalkFresh, TypeOK, ListOpen, Absent
<1>4. InHand'
  BY <1>2 DEF IInv, InHand, TypeOK, StateBacked, Terminal, LookupExisting
<1>5. TrackedOwn' /\ GttOnlyAfterFill' /\ StateBacked'
  BY <1>2 DEF IInv, TypeOK, TrackedOwn, GttOnlyAfterFill, StateBacked, Terminal
<1> QED
  BY <1>1, <1>3, <1>4, <1>5 DEF IInv

\* The exchange, while the process is anywhere.
LEMMA ExchangeMovesPreserve ==
  ASSUME IInv, ExchangeMoves
  PROVE  IInv'
<1> DEFINE same == UNCHANGED <<store, pc, memVars, outcome>>
<1> USE DEF exchangeVars
<1>1. ASSUME NEW o \in OrderIds, Fill(o), same PROVE IInv'
  BY <1>1, FillMoves, WorkingOrdersPreserve DEF IInv, TypeOK, ExchangeTypeOK, Fill
<1>2. ASSUME NEW o \in OrderIds, RejectOrder(o), same PROVE IInv'
  BY <1>2, RejectMoves, WorkingOrdersPreserve DEF IInv, TypeOK, ExchangeTypeOK, RejectOrder
<1>3. ASSUME NEW o \in OrderIds, CancelOrder(o), same PROVE IInv'
  BY <1>3, CancelMoves, WorkingOrdersPreserve DEF IInv, TypeOK, ExchangeTypeOK, CancelOrder
<1>4. CASE NewDay /\ same
  <2>1. pos \in [Symbols -> Int] /\ budget \in Nat
    BY DEF IInv, TypeOK, ExchangeTypeOK
  <2>2. UNCHANGED <<gtts, pos>> /\ budget > 0 /\ budget' = budget - 1
    BY <1>4 DEF NewDay, Spend
  <2>3. budget' \in Nat
    BY <2>1, <2>2
  <2> QED
    BY <1>4, <2>1, <2>2, <2>3, NewDayMoves, WorkingOrdersPreserve DEF IInv
<1>5. ASSUME NEW g \in GttIds, Trigger(g), same PROVE IInv'
  <2>1. PICK o \in OrderIds :
          AcceptOrder(o, "exit", gtts[g].tag, SymbolOf[gtts[g].tag],
                      0 - DirOf[gtts[g].tag], QtyOf[gtts[g].tag])
    BY <1>5 DEF Trigger
  <2>2. gtts[g].tag \in Ids /\ orders[o].kind = "none"
    BY <1>5, <2>1 DEF Trigger, AcceptOrder, FreshOrder, IInv, ExchangeWellFormed,
                      TypeOK, ExchangeTypeOK, Gtt
  <2> DEFINE exit == [status |-> "OPEN", kind |-> "exit", tag |-> gtts[g].tag,
                      sym |-> SymbolOf[gtts[g].tag], dir |-> 0 - DirOf[gtts[g].tag],
                      qty |-> QtyOf[gtts[g].tag], filled |-> 0, listed |-> TRUE]
  <2>3. exit \in Order
    BY <2>2, ConstantTypes DEF Order, OrderStatus
  <2>4. orders' = [orders EXCEPT ![o] = exit]
    BY <2>1 DEF AcceptOrder
  <2>5. /\ exit.status = "OPEN" /\ exit.kind = "exit"
        /\ exit.sym \in Symbols
    BY <2>2, ConstantTypes
  <2>6. /\ gtts' \in [GttIds -> Gtt]
        /\ gtts'[g].status = "triggered" /\ gtts'[g].tag = gtts[g].tag
        /\ \A h \in GttIds : h # g => gtts'[h] = gtts[h]
        /\ gtts[g].status = "active"
    BY <1>5 DEF Trigger, IInv, TypeOK, ExchangeTypeOK, Gtt
  <2> HIDE DEF exit
  <2> USE <1>5, <2>2, <2>3, <2>4, <2>5, <2>6 DEF IInv, memVars
  <2>7. TypeOK'
    BY DEF TypeOK, ExchangeTypeOK, Trigger
  <2>8. ExchangeWellFormed'
    BY DEF TypeOK, ExchangeTypeOK, ExchangeWellFormed, FreshOrder
  <2>9. WalkFresh' /\ InHand'
    BY SMTT(30) DEF TypeOK, ExchangeTypeOK, ExchangeWellFormed, WalkFresh, InHand,
       ListOpen, LookupExisting, Absent, Terminal, StateBacked, TrackedOwn
  <2>10. TrackedOwn' /\ GttOnlyAfterFill' /\ StateBacked'
    BY SMTT(30) DEF TypeOK, ExchangeTypeOK, ExchangeWellFormed, TrackedOwn,
       GttOnlyAfterFill, StateBacked
  <2> QED
    BY <2>7, <2>8, <2>9, <2>10
<1>6. ASSUME NEW g \in GttIds, VanishGtt(g), same PROVE IInv'
  BY <1>6, SMTT(30)
     DEF IInv, TypeOK, ExchangeTypeOK, ExchangeWellFormed, WalkFresh, InHand,
         TrackedOwn, GttOnlyAfterFill, StateBacked, memVars, Absent, ListOpen,
         Record, LookupExisting, Gtt, VanishGtt, Spend
<1> QED
  BY <1>1, <1>2, <1>3, <1>4, <1>5, <1>6 DEF ExchangeMoves, ExchangeStep

-----------------------------------------------------------------------------

LEMMA InitIInv == Init => IInv
  BY ConstantTypes, RetryTypes
     DEF Init, ExchangeInit, IInv, TypeOK, ExchangeTypeOK, ExchangeWellFormed,
         WalkFresh, InHand, TrackedOwn, GttOnlyAfterFill, StateBacked, NoRecord,
         NoOrder, NoGtt, Absent, NoPositions, OrderState, Record, ProgramPoints,
         Order, Gtt, OrderStatus, Terminal, LookupExisting, ListOpen, OPEN_STATES

LEMMA NextIInv == IInv /\ [Next]_vars => IInv'
<1>1. ASSUME IInv, Next PROVE IInv'
  BY <1>1, ProcessStepsPreserve, PlaceStepPreserves, PollStepPreserves,
     FlattenStepPreserves, ExchangeMovesPreserve DEF Next
<1>2. ASSUME IInv, UNCHANGED vars PROVE IInv'
  BY <1>2 DEF vars, exchangeVars, memVars, IInv, TypeOK, ExchangeTypeOK,
     ExchangeWellFormed, WalkFresh, InHand, TrackedOwn, GttOnlyAfterFill,
     StateBacked, LookupExisting, ListOpen
<1> QED
  BY <1>1, <1>2

\* The inductive invariant holds in every reachable state.
THEOREM InductiveInvariant == Spec => []IInv
  BY InitIInv, NextIInv, PTL DEF Spec

\* Every variable keeps its type: in particular the record in hand and the ids
\* a record names exist wherever kite.py dereferences them.
THEOREM TypeCorrect == Spec => []TypeOK
<1>1. IInv => TypeOK
  BY DEF IInv
<1> QED
  BY <1>1, InductiveInvariant, PTL

\* A record only names orders and GTTs submitted for its own client order id.
THEOREM RecordsTrackTheirOwn == Spec => []TrackedOwn
<1>1. IInv => TrackedOwn
  BY DEF IInv
<1> QED
  BY <1>1, InductiveInvariant, PTL

\* A GTT goes out only for a client order id whose entry filled, with any number
\* of crashes, lost replies, failing calls and operator overrides.
THEOREM GttsFollowFills == Spec => []GttOnlyAfterFill
<1>1. IInv => GttOnlyAfterFill
  BY DEF IInv
<1> QED
  BY <1>1, InductiveInvariant, PTL

\* The state of a record is backed by the exchange: ENTERED by a filled entry
\* and a GTT, EXITED by a GTT that triggered.
THEOREM StatesAreBacked == Spec => []StateBacked
<1>1. IInv => StateBacked
  BY DEF IInv
<1> QED
  BY <1>1, InductiveInvariant, PTL

-----------------------------------------------------------------------------
(* The state machine of a record *)

LEMMA NextLifecycle == IInv /\ [Next]_vars => LifecycleStep
<1> SUFFICES ASSUME IInv, [Next]_vars PROVE LifecycleStep
  OBVIOUS
<1>1. CASE UNCHANGED store
  BY <1>1 DEF LifecycleStep
<1>2. CASE PlacePersist
  <2>1. cur \in Ids /\ store[cur].state \in {"NONE", "FAILED", "CANCELLED"}
    BY <1>2 DEF PlacePersist, IInv, InHand, TypeOK, LookupExisting, OPEN_STATES,
       Record, OrderState
  <2> QED
    BY <1>2, <2>1 DEF PlacePersist, Persist, IInv, TypeOK, LifecycleStep, LifecycleEdges
<1>3. CASE GttPersist \/ ((GttRejected \/ GttFails(TRUE) \/ GttFails(FALSE)) /\ MarkFailed(cur))
  <2>1. cur \in Ids /\ store[cur].state = "PENDING_ENTRY" /\ store[cur] \in Record
    BY <1>3 DEF GttPersist, GttRejected, GttFails, IInv, InHand, TypeOK
  <2> QED
    <3>1. CASE MarkFailed(cur)
      BY <2>1, <3>1 DEF MarkFailed, Persist, Record, IInv, TypeOK, LifecycleStep,
         LifecycleEdges
    <3>2. CASE GttPersist
      BY <2>1, <3>2 DEF GttPersist, Persist, Record, IInv, TypeOK, LifecycleStep,
         LifecycleEdges
    <3> QED
      BY <1>3, <3>1, <3>2
<1>4. CASE FlattenMark
  <2>1. cur \in Ids /\ store[cur].state = "ENTERED" /\ store[cur] \in Record
    BY <1>4 DEF FlattenMark, IInv, InHand, TypeOK
  <2> QED
    BY <1>4, <2>1 DEF FlattenMark, Persist, Record, IInv, TypeOK, LifecycleStep,
       LifecycleEdges
<1>5. ASSUME NEW id \in Ids, AdvanceRejected(id) \/ AdvanceTriggered(id)
      PROVE  LifecycleStep
  <2>1. CASE AdvanceRejected(id)
    BY <2>1 DEF AdvanceRejected, Persist, Record, IInv, TypeOK, LifecycleStep,
       LifecycleEdges
  <2>2. CASE AdvanceTriggered(id)
    BY <2>2 DEF AdvanceTriggered, Persist, Record, IInv, TypeOK, LifecycleStep,
       LifecycleEdges
  <2> QED
    BY <1>5, <2>1, <2>2
<1>6. ASSUME NEW id \in Ids, NEW state \in OrderState, Mark(id, state)
      PROVE  LifecycleStep
  BY <1>6 DEF Mark, Persist, Record, IInv, TypeOK, ListOpen, OPEN_STATES,
     LifecycleStep, LifecycleEdges, MarkEdges
<1>7. CASE ProcessStep
  BY <1>1, <1>6, <1>7 DEF ProcessStep, StartLive, StopLive, StartFlatten, Crash
<1>8. CASE PlaceStep
  BY <1>1, <1>2, <1>8 DEF PlaceStep, NoSignal, PlaceStart, PlaceOk, PlaceRejected, PlaceFails
<1>9. CASE PollStep
  <2>1. ASSUME NEW applied \in BOOLEAN, GttFails(applied) PROVE LifecycleStep
    <3>1. UNCHANGED store \/ MarkFailed(cur)
      BY <2>1 DEF GttFails
    <3>2. GttFails(TRUE) \/ GttFails(FALSE)
      BY <2>1
    <3> QED
      BY <1>1, <1>3, <3>1, <3>2
  <2>2. GttRejected => MarkFailed(cur)
    BY DEF GttRejected
  <2> QED
    BY <1>1, <1>3, <1>5, <1>9, <2>1, <2>2
       DEF PollStep, PollStart, PollOrders, PollOrdersFails, PollGtts, PollDone,
           AdvanceFilled, AdvanceNothing, GttOk
<1>10. CASE FlattenStep
  BY <1>1, <1>4, <1>10
     DEF FlattenStep, FlattenList, FlattenDelete, FlattenPositions, FlattenRaises,
         SquareOff, SquareOffFails, SquareOffDone, FlattenConfirmed,
         FlattenResidual, FlattenFinal
<1>11. CASE ExchangeMoves \/ UNCHANGED vars
  BY <1>1, <1>11 DEF ExchangeMoves, vars
<1> QED
  BY <1>7, <1>8, <1>9, <1>10, <1>11 DEF Next

\* Records only take the documented steps (and a FAILED or CANCELLED id may be
\* placed again): EXITED is final, nothing skips PENDING_ENTRY, and only the
\* dashboard's mark, with no process running, adds an edge.
THEOREM RecordsFollowLifecycle == Spec => LifecycleSteps
  BY InductiveInvariant, NextLifecycle, PTL DEF Spec, LifecycleSteps

-----------------------------------------------------------------------------
(* Orphans: what a step may do to the book, the GTTs and the records        *)

\* Mark, the four writes of poll_and_advance, and the other two writes are all
\* there is to change a record.
LEMMA StoreMoves ==
  ASSUME [Next]_vars
  PROVE  \/ UNCHANGED store
         \/ \E id \in Ids, state \in OrderState : Mark(id, state)
         \/ PlacePersist \/ GttPersist \/ FlattenMark
         \/ pc = "p_gtt" /\ MarkFailed(cur)
         \/ \E id \in Ids : AdvanceRejected(id) \/ AdvanceTriggered(id)
<1>1. CASE ProcessStep
  BY <1>1 DEF ProcessStep, StartLive, StopLive, StartFlatten, Crash
<1>2. CASE PlaceStep
  BY <1>2 DEF PlaceStep, NoSignal, PlaceStart, PlaceOk, PlaceRejected, PlaceFails
<1>3. CASE PollStep
  BY <1>3 DEF PollStep, PollStart, PollOrders, PollOrdersFails, PollGtts, PollDone,
     AdvanceFilled, AdvanceNothing, GttOk, GttFails, GttRejected
<1>4. CASE FlattenStep
  BY <1>4 DEF FlattenStep, FlattenList, FlattenDelete, FlattenPositions, FlattenRaises,
     SquareOff, SquareOffFails, SquareOffDone, FlattenConfirmed, FlattenResidual, FlattenFinal
<1>5. CASE ExchangeMoves \/ UNCHANGED vars
  BY <1>5 DEF ExchangeMoves, vars
<1> QED
  BY <1>1, <1>2, <1>3, <1>4, <1>5 DEF Next

\* Between a reply of the exchange and the write that follows it, the process
\* does nothing else; only a crash keeps it from the write.
LEMMA ReplyKept ==
  ASSUME [Next]_vars, "crash" \notin Faults,
         pc \in {"place_persist", "p_gtt_persist", "f_mark"}
  PROVE  UNCHANGED <<pc, cur, newId>> \/ PlacePersist \/ GttPersist \/ FlattenMark
<1>1. CASE ProcessStep
  BY <1>1 DEF ProcessStep, StartLive, StopLive, StartFlatten, Crash, Mark, Spend
<1>2. CASE PlaceStep
  BY <1>2 DEF PlaceStep, NoSignal, PlaceStart, PlaceOk, PlaceRejected, PlaceFails
<1>3. CASE PollStep
  BY <1>3 DEF PollStep, PollStart, PollOrders, PollOrdersFails, PollGtts, PollDone,
     AdvanceFilled, AdvanceRejected, AdvanceTriggered, AdvanceNothing, GttOk, GttFails,
     GttRejected
<1>4. CASE FlattenStep
  BY <1>4 DEF FlattenStep, FlattenList, FlattenDelete, FlattenPositions, FlattenRaises,
     SquareOff, SquareOffFails, SquareOffDone, FlattenConfirmed, FlattenResidual, FlattenFinal
<1>5. CASE ExchangeMoves \/ UNCHANGED vars
  BY <1>5 DEF ExchangeMoves, vars, memVars
<1> QED
  BY <1>1, <1>2, <1>3, <1>4, <1>5 DEF Next

\* The GTTs only change by what the exchange does, by a placement and by flatten_all.
LEMMA GttsMove ==
  ASSUME [Next]_vars
  PROVE  \/ UNCHANGED gtts
         \/ \E g \in GttIds : (Trigger(g) \/ VanishGtt(g)) /\ UNCHANGED <<store, pc, memVars>>
         \/ GttOk \/ GttFails(TRUE)
         \/ \E id \in Ids : FlattenDelete(id)
<1>1. CASE ProcessStep
  BY <1>1 DEF ProcessStep, StartLive, StopLive, StartFlatten, Crash, Mark, exchangeVars
<1>2. CASE PlaceStep
  BY <1>2 DEF PlaceStep, NoSignal, PlaceStart, PlaceOk, PlaceRejected, PlaceFails,
     PlacePersist, exchangeVars
<1>3. CASE PollStep
  <2>1. GttFails(FALSE) => UNCHANGED gtts
    BY DEF GttFails
  <2> QED
    BY <1>3, <2>1 DEF PollStep, PollStart, PollOrders, PollOrdersFails, PollGtts, PollDone,
       AdvanceFilled, AdvanceRejected, AdvanceTriggered, AdvanceNothing, GttRejected,
       GttPersist, exchangeVars
<1>4. CASE FlattenStep
  BY <1>4 DEF FlattenStep, FlattenList, FlattenMark, FlattenPositions, FlattenRaises,
     SquareOff, SquareOffFails, SquareOffDone, FlattenConfirmed, FlattenResidual,
     FlattenFinal, exchangeVars
<1>5. CASE ExchangeMoves
  BY <1>5 DEF ExchangeMoves, ExchangeStep, Fill, RejectOrder, CancelOrder, NewDay
<1>6. CASE UNCHANGED vars
  BY <1>6 DEF vars, exchangeVars
<1> QED
  BY <1>1, <1>2, <1>3, <1>4, <1>5, <1>6 DEF Next

\* An entry at work in the market after a step was so before it, or was placed.
OpenEntriesOld ==
  \A o \in OrderIds : orders'[o].kind = "entry" /\ orders'[o].status = "OPEN" =>
    orders[o].kind = "entry" /\ orders[o].status = "OPEN" /\ orders'[o].tag = orders[o].tag

LEMMA AcceptedIsNoEntry ==
  ASSUME TypeOK, NEW o \in OrderIds, NEW kind \in {"exit", "squareoff"}, NEW tag, NEW sym,
         NEW dir, NEW qty, AcceptOrder(o, kind, tag, sym, dir, qty)
  PROVE  OpenEntriesOld
BY DEF TypeOK, ExchangeTypeOK, AcceptOrder, OpenEntriesOld

LEMMA OrdersMove ==
  ASSUME IInv, [Next]_vars
  PROVE  OpenEntriesOld \/ PlaceOk \/ PlaceFails(TRUE)
<1>1. UNCHANGED orders => OpenEntriesOld
  BY DEF OpenEntriesOld
<1>2. CASE ProcessStep
  BY <1>1, <1>2 DEF ProcessStep, StartLive, StopLive, StartFlatten, Crash, Mark, exchangeVars
<1>3. CASE PlaceStep
  <2>1. PlaceFails(FALSE) => UNCHANGED orders
    BY DEF PlaceFails
  <2> QED
    BY <1>1, <1>3, <2>1 DEF PlaceStep, NoSignal, PlaceStart, PlaceRejected, PlacePersist,
       exchangeVars
<1>4. CASE PollStep
  BY <1>1, <1>4 DEF PollStep, PollStart, PollOrders, PollOrdersFails, PollGtts, PollDone,
     AdvanceFilled, AdvanceRejected, AdvanceTriggered, AdvanceNothing, GttOk, GttFails,
     GttRejected, GttPersist, exchangeVars
<1>5. CASE FlattenStep
  <2>1. ASSUME NEW s \in Symbols, SquareOff(s) PROVE OpenEntriesOld
    BY <2>1, AcceptedIsNoEntry DEF SquareOff, IInv
  <2> QED
    BY <1>1, <1>5, <2>1 DEF FlattenStep, FlattenList, FlattenDelete, FlattenMark,
       FlattenPositions, FlattenRaises, SquareOffFails, SquareOffDone, FlattenConfirmed,
       FlattenResidual, FlattenFinal, exchangeVars
<1>6. CASE ExchangeMoves
  <2>1. WorkingOrdersMove => OpenEntriesOld
    BY DEF WorkingOrdersMove, OpenEntriesOld
  <2>2. ASSUME NEW g \in GttIds, Trigger(g) PROVE OpenEntriesOld
    BY <2>2, AcceptedIsNoEntry DEF Trigger, IInv
  <2> QED
    BY <1>1, <1>6, <2>1, <2>2, FillMoves, RejectMoves, CancelMoves, NewDayMoves
       DEF ExchangeMoves, ExchangeStep, VanishGtt, IInv
<1>7. CASE UNCHANGED vars
  BY <1>1, <1>7 DEF vars, exchangeVars
<1> QED
  BY <1>2, <1>3, <1>4, <1>5, <1>6, <1>7 DEF Next

-----------------------------------------------------------------------------
(* Orphans: entries                                                         *)

LEMMA NextNoOrphanEntry ==
  ASSUME Faults \cap {"crash", "lost_reply", "mark"} = {},
         IInv, NoOrphanEntry, [Next]_vars
  PROVE  NoOrphanEntry'
<1>1. TypeOK /\ WalkFresh /\ InHand /\ StateBacked /\ ExchangeWellFormed
  BY DEF IInv
\* A record that polls an entry at work is not written.
<1>2. ASSUME NEW id \in Ids, store[id].state = "PENDING_ENTRY",
             orders[store[id].entry].status = "OPEN"
      PROVE  store'[id] = store[id]
  <2>1. CASE PlacePersist
    BY <1>1, <1>2, <2>1 DEF PlacePersist, Persist, InHand, LookupExisting, OPEN_STATES, TypeOK
  <2>2. CASE GttPersist \/ (pc = "p_gtt" /\ MarkFailed(cur))
    BY <1>1, <1>2, <2>2 DEF GttPersist, MarkFailed, Persist, InHand, TypeOK
  <2>3. CASE FlattenMark
    BY <1>1, <1>2, <2>3 DEF FlattenMark, Persist, InHand, TypeOK
  <2>4. ASSUME NEW i \in Ids, AdvanceRejected(i) \/ AdvanceTriggered(i)
        PROVE  store'[id] = store[id]
    BY <1>1, <1>2, <2>4
       DEF AdvanceRejected, AdvanceTriggered, Persist, WalkFresh, Terminal, TypeOK
  <2>5. ASSUME NEW i \in Ids, NEW state \in OrderState, Mark(i, state)
        PROVE  FALSE
    BY <2>5 DEF Mark, Spend
  <2> QED
    BY <2>1, <2>2, <2>3, <2>4, <2>5, StoreMoves
<1>3. CASE PlaceOk
  BY <1>1, <1>3 DEF PlaceOk, AcceptEntry, AcceptOrder, NoOrphanEntry, TypeOK, ExchangeTypeOK
<1>4. CASE OpenEntriesOld
  <2>1. SUFFICES ASSUME NEW o \in OrderIds, orders'[o].kind = "entry", orders'[o].status = "OPEN"
                 PROVE  LET id == orders'[o].tag
                        IN  \/ store'[id].state = "PENDING_ENTRY" /\ store'[id].entry = o
                            \/ pc' = "place_persist" /\ newId' = o /\ cur' = id
    BY DEF NoOrphanEntry
  <2>2. PICK id \in Ids : id = orders[o].tag /\ id = orders'[o].tag
    BY <1>1, <1>4, <2>1 DEF OpenEntriesOld, ExchangeWellFormed
  <2>3. orders[o].kind = "entry" /\ orders[o].status = "OPEN"
    BY <1>4, <2>1 DEF OpenEntriesOld
  <2>4. CASE store[id].state = "PENDING_ENTRY" /\ store[id].entry = o
    BY <1>2, <2>2, <2>3, <2>4
  <2>5. CASE pc = "place_persist" /\ newId = o /\ cur = id
    <3>1. CASE PlacePersist
      BY <1>1, <2>2, <2>5, <3>1 DEF PlacePersist, Persist, TypeOK
    <3>2. CASE UNCHANGED <<pc, cur, newId>>
      BY <2>2, <2>5, <3>2
    <3> QED
      BY <2>5, <3>1, <3>2, ReplyKept DEF GttPersist, FlattenMark
  <2> QED
    BY <2>2, <2>3, <2>4, <2>5 DEF NoOrphanEntry
<1>5. ~PlaceFails(TRUE)
  BY DEF PlaceFails, Spend
<1> QED
  BY <1>3, <1>4, <1>5, OrdersMove

\* Without a crash, a lost reply or a manual mark no entry order is forgotten,
\* whatever fails, vanishes or lapses besides.
THEOREM EntriesAreTracked ==
  ASSUME Faults \cap {"crash", "lost_reply", "mark"} = {}
  PROVE  Spec => []NoOrphanEntry
<1>1. Init => NoOrphanEntry
  BY DEF Init, ExchangeInit, NoOrder, NoOrphanEntry
<1>2. IInv /\ NoOrphanEntry /\ [Next]_vars => NoOrphanEntry'
  BY NextNoOrphanEntry
<1> QED
  BY <1>1, <1>2, InductiveInvariant, PTL DEF Spec

-----------------------------------------------------------------------------
(* Orphans: GTTs                                                            *)

\* The GTT flatten_all deleted is no longer active when its record is written.
Deleted == pc = "f_mark" => gtts[store[cur].gtt].status # "active"

\* A GTT that is active after a step was so before it, or was placed.
LEMMA ActiveOld ==
  ASSUME IInv, [Next]_vars, ~GttOk, ~GttFails(TRUE), NEW g \in GttIds,
         gtts'[g].status = "active"
  PROVE  gtts[g].status = "active" /\ gtts'[g].tag = gtts[g].tag
<1>1. TypeOK
  BY DEF IInv
<1>2. ASSUME NEW h \in GttIds, Trigger(h) \/ VanishGtt(h)
      PROVE  gtts[g].status = "active" /\ gtts'[g].tag = gtts[g].tag
  BY <1>1, <1>2 DEF Trigger, VanishGtt, TypeOK, ExchangeTypeOK, Gtt
<1>3. ASSUME NEW id \in Ids, FlattenDelete(id)
      PROVE  gtts[g].status = "active" /\ gtts'[g].tag = gtts[g].tag
  BY <1>1, <1>3 DEF FlattenDelete, TypeOK, ExchangeTypeOK, Gtt
<1> QED
  BY <1>2, <1>3, GttsMove

LEMMA NextDeleted ==
  ASSUME Faults \cap {"crash", "api_error"} = {}, IInv, Deleted, [Next]_vars
  PROVE  Deleted'
<1>1. TypeOK /\ WalkFresh /\ InHand
  BY DEF IInv
<1>2. ASSUME NEW id \in Ids, FlattenDelete(id) PROVE Deleted'
  BY <1>1, <1>2 DEF FlattenDelete, Deleted, TypeOK, ExchangeTypeOK, Gtt, Spend, WalkFresh
<1>3. CASE pc = "f_mark" /\ pc' = "f_mark"
  <2>1. ~PlacePersist /\ ~GttPersist /\ ~FlattenMark
    BY <1>3 DEF PlacePersist, GttPersist, FlattenMark, Goto, BackToWalk
  <2>2. UNCHANGED cur
    BY <1>3, <2>1, ReplyKept
  <2>3. UNCHANGED store
    BY <1>3, <2>1, StoreMoves DEF Mark, AdvanceRejected, AdvanceTriggered
  <2>4. ~GttOk /\ ~GttFails(TRUE)
    BY <1>3 DEF GttOk, GttFails
  <2>5. store[cur].gtt \in GttIds
    BY <1>1, <1>3 DEF InHand, TypeOK
  <2> QED
    BY <1>3, <2>2, <2>3, <2>4, <2>5, ActiveOld DEF Deleted
<1>4. CASE pc # "f_mark" /\ pc' = "f_mark"
  <2>1. \E id \in Ids : FlattenDelete(id)
    <3>1. CASE ProcessStep
      BY <1>4, <3>1 DEF ProcessStep, StartLive, StopLive, StartFlatten, Crash, Mark, Goto
    <3>2. CASE PlaceStep
      BY <1>4, <3>2 DEF PlaceStep, NoSignal, PlaceStart, PlaceOk, PlaceRejected, PlacePersist,
         PlaceFails, Goto
    <3>3. CASE PollStep
      BY <1>4, <3>3 DEF PollStep, PollStart, PollOrders, PollOrdersFails, PollGtts, PollDone,
         AdvanceFilled, AdvanceRejected, AdvanceTriggered, AdvanceNothing, GttOk, GttFails,
         GttRejected, GttPersist, Goto, BackToWalk
    <3>4. CASE FlattenStep
      BY <1>4, <3>4 DEF FlattenStep, FlattenList, FlattenMark, FlattenPositions,
         FlattenRaises, SquareOff, SquareOffFails, SquareOffDone, FlattenConfirmed,
         FlattenResidual, FlattenFinal, Goto
    <3>5. CASE ExchangeMoves \/ UNCHANGED vars
      BY <1>4, <3>5 DEF ExchangeMoves, vars
    <3> QED
      BY <3>1, <3>2, <3>3, <3>4, <3>5 DEF Next
  <2> QED
    BY <1>2, <2>1
<1> QED
  BY <1>3, <1>4 DEF Deleted

LEMMA NextNoOrphanGtt ==
  ASSUME Faults \cap {"crash", "lost_reply", "mark", "api_error"} = {},
         IInv, Deleted, NoOrphanGtt, [Next]_vars
  PROVE  NoOrphanGtt'
<1>1. TypeOK /\ WalkFresh /\ InHand /\ StateBacked /\ ExchangeWellFormed
  BY DEF IInv
\* A record that polls an active GTT is not written.
<1>2. ASSUME NEW id \in Ids, store[id].state = "ENTERED",
             gtts[store[id].gtt].status = "active"
      PROVE  store'[id] = store[id]
  <2>1. CASE PlacePersist
    BY <1>1, <1>2, <2>1 DEF PlacePersist, Persist, InHand, LookupExisting, OPEN_STATES, TypeOK
  <2>2. CASE GttPersist \/ (pc = "p_gtt" /\ MarkFailed(cur))
    BY <1>1, <1>2, <2>2 DEF GttPersist, MarkFailed, Persist, InHand, TypeOK
  <2>3. CASE FlattenMark
    BY <1>1, <1>2, <2>3 DEF FlattenMark, Persist, Deleted, TypeOK
  <2>4. ASSUME NEW i \in Ids, AdvanceRejected(i) \/ AdvanceTriggered(i)
        PROVE  store'[id] = store[id]
    BY <1>1, <1>2, <2>4
       DEF AdvanceRejected, AdvanceTriggered, Persist, WalkFresh, TypeOK
  <2>5. ASSUME NEW i \in Ids, NEW state \in OrderState, Mark(i, state)
        PROVE  FALSE
    BY <2>5 DEF Mark, Spend
  <2> QED
    BY <2>1, <2>2, <2>3, <2>4, <2>5, StoreMoves
<1>3. CASE GttOk
  BY <1>1, <1>3 DEF GttOk, AcceptGtt, NoOrphanGtt, TypeOK, ExchangeTypeOK
<1>4. ~GttFails(TRUE)
  BY DEF GttFails, Spend
<1>5. CASE ~GttOk
  <2>1. SUFFICES ASSUME NEW g \in GttIds, gtts'[g].status = "active"
                 PROVE  LET id == gtts'[g].tag
                        IN  \/ store'[id].state = "ENTERED" /\ store'[id].gtt = g
                            \/ pc' = "p_gtt_persist" /\ newId' = g /\ cur' = id
    BY DEF NoOrphanGtt
  <2>2. gtts[g].status = "active" /\ gtts'[g].tag = gtts[g].tag
    BY <1>4, <1>5, <2>1, ActiveOld
  <2>3. PICK id \in Ids : id = gtts[g].tag
    BY <1>1, <2>2 DEF ExchangeWellFormed, TypeOK, ExchangeTypeOK, Gtt
  <2>4. CASE store[id].state = "ENTERED" /\ store[id].gtt = g
    BY <1>2, <2>2, <2>3, <2>4
  <2>5. CASE pc = "p_gtt_persist" /\ newId = g /\ cur = id
    <3>1. CASE GttPersist
      <4>1. store[cur] \in Record /\ store' = [store EXCEPT ![cur] =
                                  [store[cur] EXCEPT !.state = "ENTERED", !.gtt = newId]]
        BY <1>1, <2>5, <3>1 DEF GttPersist, Persist, TypeOK
      <4> QED
        BY <1>1, <2>2, <2>3, <2>5, <4>1 DEF TypeOK, Record
    <3>2. CASE UNCHANGED <<pc, cur, newId>>
      BY <2>2, <2>3, <2>5, <3>2
    <3> QED
      BY <2>5, <3>1, <3>2, ReplyKept DEF PlacePersist, FlattenMark
  <2> QED
    BY <2>2, <2>3, <2>4, <2>5 DEF NoOrphanGtt
<1> QED
  BY <1>3, <1>5

\* Without those and without failing calls no active GTT is forgotten, even when
\* others vanish and the day ends.
THEOREM GttsAreTracked ==
  ASSUME Faults \cap {"crash", "lost_reply", "mark", "api_error"} = {}
  PROVE  Spec => []NoOrphanGtt
<1>1. Init => Deleted /\ NoOrphanGtt
  BY DEF Init, ExchangeInit, NoGtt, NoOrphanGtt, Deleted
<1>2. IInv /\ Deleted /\ NoOrphanGtt /\ [Next]_vars => Deleted' /\ NoOrphanGtt'
  BY NextDeleted, NextNoOrphanGtt
<1> QED
  BY <1>1, <1>2, InductiveInvariant, PTL DEF Spec

-----------------------------------------------------------------------------
(* Protection                                                               *)

\* The GTT the exchange has just accepted is there when its record is written.
Placed == pc = "p_gtt_persist" => gtts[newId].status \in {"active", "triggered"}

\* A GTT only stops waiting or having triggered when it vanishes or is deleted.
LEMMA ProtectionKept ==
  ASSUME "gtt_vanish" \notin Faults, IInv, [Next]_vars, NEW g \in GttIds,
         gtts[g].status \in {"active", "triggered"},
         \A id \in Ids : ~FlattenDelete(id)
  PROVE  gtts'[g].status \in {"active", "triggered"}
<1>1. TypeOK
  BY DEF IInv
<1>2. ASSUME NEW h \in GttIds, Trigger(h) PROVE gtts'[g].status \in {"active", "triggered"}
  BY <1>1, <1>2 DEF Trigger, TypeOK, ExchangeTypeOK, Gtt
<1>3. \A h \in GttIds : ~VanishGtt(h)
  BY DEF VanishGtt, Spend
<1>4. CASE GttOk \/ GttFails(TRUE)
  <2>1. PICK h \in GttIds : AcceptGtt(h, cur)
    BY <1>4 DEF GttOk, GttFails
  <2> QED
    BY <1>1, <2>1 DEF AcceptGtt, FreshGtt, TypeOK, ExchangeTypeOK
<1> QED
  BY <1>2, <1>3, <1>4, GttsMove

LEMMA NextPlaced ==
  ASSUME Faults \cap {"crash", "gtt_vanish"} = {}, IInv, Placed, [Next]_vars
  PROVE  Placed'
<1>1. TypeOK /\ InHand
  BY DEF IInv
<1>2. CASE GttOk
  BY <1>1, <1>2 DEF GttOk, AcceptGtt, Placed, TypeOK, ExchangeTypeOK
<1>3. CASE pc = "p_gtt_persist" /\ pc' = "p_gtt_persist"
  <2>1. UNCHANGED newId
    BY <1>3, ReplyKept DEF PlacePersist, GttPersist, FlattenMark, BackToWalk
  <2>2. \A id \in Ids : ~FlattenDelete(id)
    BY <1>3 DEF FlattenDelete
  <2>3. newId \in GttIds
    BY <1>1, <1>3 DEF InHand
  <2> QED
    BY <1>3, <2>1, <2>2, <2>3, ProtectionKept DEF Placed
<1>4. CASE pc # "p_gtt_persist" /\ pc' = "p_gtt_persist"
  <2>1. GttOk
    <3>1. CASE ProcessStep
      BY <1>4, <3>1 DEF ProcessStep, StartLive, StopLive, StartFlatten, Crash, Mark, Goto
    <3>2. CASE PlaceStep
      BY <1>4, <3>2 DEF PlaceStep, NoSignal, PlaceStart, PlaceOk, PlaceRejected, PlacePersist,
         PlaceFails, Goto
    <3>3. CASE PollStep
      BY <1>4, <3>3 DEF PollStep, PollStart, PollOrders, PollOrdersFails, PollGtts, PollDone,
         AdvanceFilled, AdvanceRejected, AdvanceTriggered, AdvanceNothing, GttFails,
         GttRejected, GttPersist, Goto, BackToWalk
    <3>4. CASE FlattenStep
      BY <1>4, <3>4 DEF FlattenStep, FlattenList, FlattenDelete, FlattenMark, FlattenPositions,
         FlattenRaises, SquareOff, SquareOffFails, SquareOffDone, FlattenConfirmed,
         FlattenResidual, FlattenFinal, Goto
    <3>5. CASE ExchangeMoves \/ UNCHANGED vars
      BY <1>4, <3>5 DEF ExchangeMoves, vars
    <3> QED
      BY <3>1, <3>2, <3>3, <3>4, <3>5 DEF Next
  <2> QED
    BY <1>2, <2>1
<1> QED
  BY <1>3, <1>4 DEF Placed

LEMMA NextProtected ==
  ASSUME Faults \cap {"crash", "gtt_vanish"} = {}, IInv, Placed, EnteredProtected, [Next]_vars
  PROVE  EnteredProtected'
<1>1. TypeOK /\ WalkFresh /\ InHand /\ StateBacked /\ TrackedOwn
  BY DEF IInv
<1>2. SUFFICES ASSUME NEW id \in Ids, store'[id].state = "ENTERED"
               PROVE  \/ gtts'[store'[id].gtt].status \in {"active", "triggered"}
                      \/ pc' = "f_mark" /\ cur' = id
  BY DEF EnteredProtected
<1>3. CASE GttPersist /\ cur = id
  <2>1. store[cur] \in Record /\ UNCHANGED gtts
        /\ store' = [store EXCEPT ![cur] = [store[cur] EXCEPT !.state = "ENTERED", !.gtt = newId]]
    BY <1>1, <1>3 DEF GttPersist, Persist, TypeOK, exchangeVars
  <2>2. store'[id].gtt = newId
    BY <1>1, <1>3, <2>1 DEF TypeOK, Record
  <2> QED
    BY <1>3, <2>1, <2>2 DEF Placed, GttPersist
<1>4. CASE ~(GttPersist /\ cur = id)
  <2>1. store'[id] = store[id]
    <3>1. CASE PlacePersist \/ (pc = "p_gtt" /\ MarkFailed(cur)) \/ FlattenMark
      BY <1>1, <1>2, <3>1 DEF PlacePersist, MarkFailed, FlattenMark, Persist, TypeOK, Record
    <3>2. CASE GttPersist
      BY <1>1, <1>4, <3>2 DEF GttPersist, Persist, TypeOK
    <3>3. ASSUME NEW i \in Ids, AdvanceRejected(i) \/ AdvanceTriggered(i)
          PROVE  store'[id] = store[id]
      BY <1>1, <1>2, <3>3 DEF AdvanceRejected, AdvanceTriggered, Persist, TypeOK, Record
    <3>4. ASSUME NEW i \in Ids, NEW state \in OrderState, Mark(i, state)
          PROVE  store'[id] = store[id]
      BY <1>1, <1>2, <3>4 DEF Mark, Persist, TypeOK, Record
    <3> QED
      BY <3>1, <3>2, <3>3, <3>4, StoreMoves
  <2>2. store[id].state = "ENTERED" /\ store[id].gtt \in GttIds
    BY <1>1, <1>2, <2>1 DEF StateBacked, TypeOK
  <2>3. CASE pc = "f_mark" /\ cur = id
    <3>1. ~FlattenMark
      BY <1>1, <1>2, <2>3 DEF FlattenMark, Persist, TypeOK, Record
    <3> QED
      BY <2>3, <3>1, ReplyKept DEF PlacePersist, GttPersist
  <2>4. ASSUME NEW i \in Ids, FlattenDelete(i), i # id,
               gtts[store[id].gtt].status \in {"active", "triggered"}
        PROVE  gtts'[store[id].gtt] = gtts[store[id].gtt]
    <3>1. store[i].gtt \in GttIds /\ store[i].gtt # store[id].gtt
      BY <1>1, <2>2, <2>4 DEF FlattenDelete, WalkFresh, TrackedOwn, TypeOK
    <3> QED
      BY <1>1, <2>2, <2>4, <3>1 DEF FlattenDelete, TypeOK, ExchangeTypeOK
  <2>5. FlattenDelete(id) => pc' = "f_mark" /\ cur' = id
    BY DEF FlattenDelete
  <2>6. CASE gtts[store[id].gtt].status \in {"active", "triggered"}
    BY <2>1, <2>2, <2>4, <2>5, <2>6, ProtectionKept
  <2> QED
    BY <2>2, <2>3, <2>6 DEF EnteredProtected
<1> QED
  BY <1>3, <1>4

\* Unless the process dies or a GTT vanishes, an ENTERED position has a GTT that
\* waits or has triggered, whatever calls fail or replies are lost.
THEOREM EntriesAreProtected ==
  ASSUME Faults \cap {"crash", "gtt_vanish"} = {}
  PROVE  Spec => []EnteredProtected
<1>1. Init => Placed /\ EnteredProtected
  BY DEF Init, NoRecord, Placed, EnteredProtected
<1>2. IInv /\ Placed /\ EnteredProtected /\ [Next]_vars => Placed' /\ EnteredProtected'
  BY NextPlaced, NextProtected
<1> QED
  BY <1>1, <1>2, InductiveInvariant, PTL DEF Spec

-----------------------------------------------------------------------------
(* The flatten                                                              *)

\* The ENTERED records are those flatten_all has yet to walk and the one in hand.
Disarming ==
  /\ pc \in {"f_del", "f_mark"} =>
       \A id \in Ids : store[id].state = "ENTERED" => id \in todo \/ (pc = "f_mark" /\ id = cur)
  /\ pc \in {"f_sq", "f_poll", "f_final"} => \A id \in Ids : store[id].state # "ENTERED"

LEMMA NextDisarming ==
  ASSUME IInv, Disarming, [Next]_vars
  PROVE  Disarming'
<1>1. TypeOK /\ StateBacked
  BY DEF IInv
<1>2. CASE ProcessStep
  BY <1>2 DEF ProcessStep, StartLive, StopLive, StartFlatten, Crash, Mark, Goto, Disarming
<1>3. CASE PlaceStep
  BY <1>3 DEF PlaceStep, NoSignal, PlaceStart, PlaceOk, PlaceRejected, PlacePersist,
     PlaceFails, Goto, Disarming
<1>4. CASE PollStep
  BY <1>4 DEF PollStep, PollStart, PollOrders, PollOrdersFails, PollGtts, PollDone,
     AdvanceFilled, AdvanceRejected, AdvanceTriggered, AdvanceNothing, GttOk, GttFails,
     GttRejected, GttPersist, Goto, BackToWalk, Disarming
<1>5. CASE FlattenStep
  <2>1. CASE FlattenList
    BY <1>1, <2>1 DEF FlattenList, Disarming, StateBacked, ListOpen, OPEN_STATES
  <2>2. CASE FlattenMark
    BY <1>1, <2>2 DEF FlattenMark, Persist, Disarming, TypeOK, Record
  <2>3. CASE FlattenPositions
    BY <2>3 DEF FlattenPositions, Disarming
  <2>4. ASSUME NEW id \in Ids, FlattenDelete(id) PROVE Disarming'
    BY <2>4 DEF FlattenDelete, Disarming
  <2>5. ASSUME NEW s \in Symbols, SquareOff(s) \/ SquareOffFails(s) PROVE Disarming'
    BY <2>5 DEF SquareOff, SquareOffFails, Disarming
  <2>6. CASE SquareOffDone \/ FlattenResidual
    BY <2>6 DEF SquareOffDone, FlattenResidual, Disarming
  <2>7. CASE FlattenRaises \/ FlattenConfirmed \/ FlattenFinal
    BY <2>7 DEF FlattenRaises, FlattenConfirmed, FlattenFinal, Goto, Disarming
  <2> QED
    BY <1>5, <2>1, <2>2, <2>3, <2>4, <2>5, <2>6, <2>7 DEF FlattenStep
<1>6. CASE ExchangeMoves \/ UNCHANGED vars
  BY <1>6 DEF ExchangeMoves, vars, memVars, Disarming
<1> QED
  BY <1>2, <1>3, <1>4, <1>5, <1>6 DEF Next

\* Whatever vanishes or lapses meanwhile, no GTT of the program can trigger once a
\* flatten reads the positions it squares off: it has deleted them all.
THEOREM FlattenIsDisarmed ==
  ASSUME Faults \cap {"crash", "lost_reply", "mark", "api_error"} = {}
  PROVE  Spec => []FlattenDisarms
<1>1. Init => Disarming
  BY DEF Init, Disarming
<1>2. IInv /\ Disarming /\ [Next]_vars => Disarming'
  BY NextDisarming
<1>3. IInv /\ Disarming /\ NoOrphanGtt => FlattenDisarms
  BY DEF IInv, ExchangeWellFormed, TypeOK, ExchangeTypeOK, Gtt, Disarming, NoOrphanGtt,
     FlattenDisarms
<1> QED
  BY <1>1, <1>2, <1>3, InductiveInvariant, GttsAreTracked, PTL DEF Spec

-----------------------------------------------------------------------------
(* The broker implements OrderLifecycle                                    *)

\* A GTT triggers by sending its exit order.
ExitsBehindTriggers ==
  \A g \in GttIds : gtts[g].status = "triggered" => gtts[g].tag \in ExitsSent

RecordStates == [id \in Ids |-> store[id].state]
MarketStays == UNCHANGED <<EntriesSent, EntriesFilled, ExitsSent>>

\* What a new order shows the market.
LEMMA OrderEntersMarket ==
  ASSUME IInv, NEW o \in OrderIds, NEW kind, NEW tag, NEW sym, NEW dir, NEW qty,
         AcceptOrder(o, kind, tag, sym, dir, qty)
  PROVE  /\ EntriesSent' = IF kind = "entry" THEN EntriesSent \union ({tag} \cap Ids) ELSE EntriesSent
         /\ EntriesFilled' = EntriesFilled
         /\ ExitsSent' = IF kind = "exit" THEN ExitsSent \union ({tag} \cap Ids) ELSE ExitsSent
<1>1. /\ orders'[o].kind = kind /\ orders'[o].tag = tag /\ orders'[o].status = "OPEN"
      /\ \A p \in OrderIds : p # o => orders'[p] = orders[p]
      /\ orders[o].kind = "none"
  BY DEF AcceptOrder, FreshOrder, IInv, TypeOK, ExchangeTypeOK, ExchangeWellFormed
<1>2. EntriesSent' = IF kind = "entry" THEN EntriesSent \union ({tag} \cap Ids) ELSE EntriesSent
  BY <1>1 DEF EntriesSent
<1>3. EntriesFilled' = EntriesFilled
  BY <1>1 DEF EntriesFilled
<1>4. ExitsSent' = IF kind = "exit" THEN ExitsSent \union ({tag} \cap Ids) ELSE ExitsSent
  BY <1>1 DEF ExitsSent
<1> QED
  BY <1>2, <1>3, <1>4

\* What the life of the orders in the market shows: entries may fill.
LEMMA OrdersMoveInMarket ==
  ASSUME WorkingOrdersMove
  PROVE  EntriesSent' = EntriesSent /\ ExitsSent' = ExitsSent
  BY DEF WorkingOrdersMove, EntriesSent, ExitsSent

\* A step that leaves the orders and the states of the records alone is a stutter.
LEMMA Unseen ==
  ASSUME UNCHANGED RecordStates, MarketStays
  PROVE  UNCHANGED Lifecycle!vars
  BY DEF RecordStates, MarketStays, Lifecycle!vars, Lifecycle!market

LEMMA OrdersUnchanged ==
  ASSUME UNCHANGED orders
  PROVE  MarketStays
  BY DEF MarketStays, EntriesSent, EntriesFilled, ExitsSent

\* A step that writes the state of one record.
LEMMA WritesState ==
  ASSUME IInv, NEW id \in Ids, NEW record \in Record, Persist(id, record), UNCHANGED orders
  PROVE  Lifecycle!Becomes(id, record.state)
<1>1. RecordStates' = [RecordStates EXCEPT ![id] = record.state]
  BY DEF RecordStates, Persist, IInv, TypeOK
<1> QED
  BY <1>1, OrdersUnchanged DEF RecordStates, MarketStays, Lifecycle!Becomes, Lifecycle!market

\* Orders are sent, or move in the market, by steps that write no record.
LEMMA MarketMoves ==
  ASSUME [Next]_vars
  PROVE  \/ UNCHANGED orders
         \/ /\ UNCHANGED store
            /\ \/ pc = "place" /\ \E o \in OrderIds : AcceptEntry(o, cur)
               \/ \E s \in Symbols, o \in OrderIds :
                    AcceptOrder(o, "squareoff", NoId, s, Opposite(sq[s]), Magnitude(sq[s]))
               \/ \E g \in GttIds : Trigger(g)
               \/ \E o \in OrderIds : Fill(o) \/ RejectOrder(o) \/ CancelOrder(o)
               \/ NewDay
<1>1. CASE ProcessStep
  BY <1>1 DEF ProcessStep, StartLive, StopLive, StartFlatten, Crash, Mark, exchangeVars
<1>2. CASE PlaceStep
  <2>1. PlaceFails(FALSE) => UNCHANGED orders
    BY DEF PlaceFails
  <2>2. PlaceFails(TRUE) => pc = "place" /\ UNCHANGED store /\ \E o \in OrderIds : AcceptEntry(o, cur)
    BY DEF PlaceFails
  <2>3. PlaceOk => pc = "place" /\ UNCHANGED store /\ \E o \in OrderIds : AcceptEntry(o, cur)
    BY DEF PlaceOk
  <2> QED
    BY <1>2, <2>1, <2>2, <2>3 DEF PlaceStep, NoSignal, PlaceStart, PlaceRejected, PlacePersist,
       exchangeVars
<1>3. CASE PollStep
  BY <1>3 DEF PollStep, PollStart, PollOrders, PollOrdersFails, PollGtts, PollDone,
     AdvanceFilled, AdvanceRejected, AdvanceTriggered, AdvanceNothing, GttOk, GttFails,
     GttRejected, GttPersist, exchangeVars
<1>4. CASE FlattenStep
  <2>1. ASSUME NEW s \in Symbols, SquareOff(s)
        PROVE  /\ UNCHANGED store
               /\ \E o \in OrderIds :
                    AcceptOrder(o, "squareoff", NoId, s, Opposite(sq[s]), Magnitude(sq[s]))
    BY <2>1 DEF SquareOff
  <2> QED
    BY <1>4, <2>1 DEF FlattenStep, FlattenList, FlattenDelete, FlattenMark,
       FlattenPositions, FlattenRaises, SquareOffFails, SquareOffDone, FlattenConfirmed,
       FlattenResidual, FlattenFinal, exchangeVars
<1>5. CASE ExchangeMoves
  BY <1>5 DEF ExchangeMoves, ExchangeStep, VanishGtt
<1>6. CASE UNCHANGED vars
  BY <1>6 DEF vars, exchangeVars
<1> QED
  BY <1>1, <1>2, <1>3, <1>4, <1>5, <1>6 DEF Next

\* What the market sees of an order that goes out, trades or leaves the book.
LEMMA MarketRefines ==
  ASSUME IInv, [Next]_vars, orders' # orders
  PROVE  [Lifecycle!Next]_Lifecycle!vars
<1>1. TypeOK /\ ExchangeWellFormed /\ GttOnlyAfterFill
  BY DEF IInv
<1>2. UNCHANGED RecordStates
  BY MarketMoves DEF RecordStates
<1>3. CASE pc = "place" /\ \E o \in OrderIds : AcceptEntry(o, cur)
  <2>1. cur \in Ids
    BY <1>1, <1>3 DEF TypeOK
  <2>2. EntriesSent' = EntriesSent \union {cur} /\ UNCHANGED <<EntriesFilled, ExitsSent>>
    BY <1>3, <2>1, OrderEntersMarket DEF AcceptEntry
  <2>3. CASE cur \in EntriesSent
    BY <1>2, <2>2, <2>3, Unseen DEF MarketStays
  <2>4. CASE cur \notin EntriesSent
    <3>1. Lifecycle!Send(cur)
      BY <1>2, <2>2, <2>4 DEF Lifecycle!Send, RecordStates
    <3> QED
      BY <2>1, <3>1 DEF Lifecycle!Next
  <2> QED
    BY <2>3, <2>4
<1>4. CASE \E s \in Symbols, o \in OrderIds :
             AcceptOrder(o, "squareoff", NoId, s, Opposite(sq[s]), Magnitude(sq[s]))
  BY <1>2, <1>4, OrderEntersMarket, Unseen DEF MarketStays
<1>5. ASSUME NEW g \in GttIds, Trigger(g)
      PROVE  [Lifecycle!Next]_Lifecycle!vars
  <2>1. PICK id \in Ids : id = gtts[g].tag
    BY <1>1, <1>5 DEF Trigger, ExchangeWellFormed, TypeOK, ExchangeTypeOK, Gtt
  <2>2. ExitsSent' = ExitsSent \union {id} /\ UNCHANGED <<EntriesSent, EntriesFilled>>
    BY <1>5, <2>1, OrderEntersMarket DEF Trigger
  <2>3. id \in EntriesFilled
    BY <1>1, <1>5, <2>1 DEF Trigger, GttOnlyAfterFill, EntriesFilled
  <2>4. CASE id \in ExitsSent
    BY <1>2, <2>2, <2>4, Unseen DEF MarketStays
  <2>5. CASE id \notin ExitsSent
    <3>1. Lifecycle!Exit(id)
      BY <1>2, <2>2, <2>3, <2>5 DEF Lifecycle!Exit, RecordStates
    <3> QED
      BY <3>1 DEF Lifecycle!Next
  <2> QED
    BY <2>4, <2>5
<1>6. ASSUME NEW o \in OrderIds, Fill(o)
      PROVE  [Lifecycle!Next]_Lifecycle!vars
  <2>1. WorkingOrdersMove
    BY <1>1, <1>6, FillMoves
  <2>2. UNCHANGED <<EntriesSent, ExitsSent>>
    BY <2>1, OrdersMoveInMarket
  <2>3. \A p \in OrderIds : p # o => orders'[p] = orders[p]
    BY <1>1, <1>6 DEF Fill, TypeOK, ExchangeTypeOK
  <2>4. orders[o].status = "OPEN"
    BY <1>6 DEF Fill
  <2>5. CASE orders[o].kind = "entry" /\ orders'[o].status = "COMPLETE"
    <3>1. PICK id \in Ids : id = orders[o].tag
      BY <1>1, <2>5 DEF ExchangeWellFormed
    <3>2. EntriesFilled' = EntriesFilled \union {id} /\ id \in EntriesSent
      BY <2>1, <2>3, <2>4, <2>5, <3>1 DEF EntriesFilled, EntriesSent, WorkingOrdersMove
    <3>3. CASE id \in EntriesFilled
      BY <1>2, <2>2, <3>2, <3>3, Unseen DEF MarketStays
    <3>4. CASE id \notin EntriesFilled
      <4>1. Lifecycle!Fill(id)
        BY <1>2, <2>2, <3>2, <3>4 DEF Lifecycle!Fill, RecordStates
      <4> QED
        BY <4>1 DEF Lifecycle!Next
    <3> QED
      BY <3>3, <3>4
  <2>6. CASE ~(orders[o].kind = "entry" /\ orders'[o].status = "COMPLETE")
    <3>1. EntriesFilled' = EntriesFilled
      BY <2>1, <2>3, <2>4, <2>6 DEF EntriesFilled, WorkingOrdersMove
    <3> QED
      BY <1>2, <2>2, <3>1, Unseen DEF MarketStays
  <2> QED
    BY <2>5, <2>6
<1>7. CASE NewDay \/ \E o \in OrderIds : RejectOrder(o) \/ CancelOrder(o)
  <2>1. WorkingOrdersMove
    BY <1>1, <1>7, RejectMoves, CancelMoves, NewDayMoves
  <2>2. \A p \in OrderIds : orders[p].status = "OPEN" => orders'[p].status # "COMPLETE"
    <3>1. CASE NewDay
      <4> DEFINE lapsed(p) == IF orders[p].status = "OPEN" THEN "CANCELLED" ELSE orders[p].status
                 next(p) == [orders[p] EXCEPT !.status = lapsed(p), !.listed = FALSE]
      <4>1. orders' = [p \in OrderIds |-> next(p)]
        BY <3>1 DEF NewDay
      <4>2. ASSUME NEW p \in OrderIds, orders[p].status = "OPEN"
            PROVE  next(p).status = "CANCELLED"
        BY <1>1, <4>2 DEF TypeOK, ExchangeTypeOK, Order
      <4> HIDE DEF next
      <4> QED
        BY <4>1, <4>2
    <3>2. ASSUME NEW o \in OrderIds, RejectOrder(o) \/ CancelOrder(o)
          PROVE  \A p \in OrderIds : orders[p].status = "OPEN" => orders'[p].status # "COMPLETE"
      BY <1>1, <3>2 DEF RejectOrder, CancelOrder, TypeOK, ExchangeTypeOK, Order
    <3> QED
      BY <1>7, <3>1, <3>2
  <2>3. EntriesFilled' = EntriesFilled
    BY <2>1, <2>2 DEF EntriesFilled, WorkingOrdersMove
  <2> QED
    BY <1>2, <2>1, <2>3, OrdersMoveInMarket, Unseen DEF MarketStays
<1> QED
  BY <1>3, <1>4, <1>5, <1>6, <1>7, MarketMoves

\* What the broker writes is behind what the market has seen.
LEMMA RecordsRefine ==
  ASSUME IInv, ExitsBehindTriggers, [Next]_vars, UNCHANGED orders
  PROVE  [Lifecycle!Next]_Lifecycle!vars
<1>1. TypeOK /\ InHand /\ WalkFresh /\ TrackedOwn /\ StateBacked
  BY DEF IInv
<1>2. CASE UNCHANGED store
  BY <1>2, OrdersUnchanged, Unseen DEF RecordStates
<1>3. CASE PlacePersist
  <2> DEFINE record == [state |-> "PENDING_ENTRY", entry |-> newId, gtt |-> 0]
  <2>1. PICK id \in Ids : id = cur
    BY <1>1, <1>3 DEF PlacePersist, TypeOK
  <2>2. record \in Record /\ record.state = "PENDING_ENTRY" /\ Persist(id, record)
    BY <1>1, <1>3, <2>1 DEF PlacePersist, Persist, TypeOK, Record, OrderState
  <2>3. id \in EntriesSent /\ store[id].state \in {"NONE", "FAILED", "CANCELLED"}
    BY <1>1, <1>3, <2>1 DEF PlacePersist, InHand, LookupExisting, OPEN_STATES, TypeOK, Record,
       OrderState, EntriesSent
  <2> HIDE DEF record
  <2>4. Lifecycle!Becomes(id, "PENDING_ENTRY")
    BY <2>2, WritesState
  <2>5. Lifecycle!Track(id)
    BY <2>3, <2>4 DEF Lifecycle!Track
  <2> QED
    BY <2>5 DEF Lifecycle!Next
<1>4. CASE GttPersist
  <2>1. PICK id \in Ids : id = cur
    BY <1>1, <1>4 DEF GttPersist, TypeOK
  <2> DEFINE record == [store[id] EXCEPT !.state = "ENTERED", !.gtt = newId]
  <2>2. store[id] \in Record /\ newId \in Nat /\ Persist(id, record)
    BY <1>1, <1>4, <2>1 DEF GttPersist, Persist, TypeOK
  <2>3. record \in Record /\ record.state = "ENTERED"
    BY <2>2 DEF Record, OrderState
  <2>4. store[id].state = "PENDING_ENTRY" /\ store[id].entry # 0
        /\ orders[store[id].entry].status = "COMPLETE"
    BY <1>1, <1>4, <2>1 DEF GttPersist, InHand, StateBacked
  <2>5. id \in EntriesFilled
    BY <1>1, <2>4 DEF TrackedOwn, TypeOK, EntriesFilled
  <2> HIDE DEF record
  <2>6. Lifecycle!Becomes(id, "ENTERED")
    BY <2>2, <2>3, WritesState
  <2>7. Lifecycle!Protect(id)
    BY <2>4, <2>5, <2>6 DEF Lifecycle!Protect
  <2> QED
    BY <2>7 DEF Lifecycle!Next
\* The records that are given up.
<1>5. ASSUME NEW id \in Ids, NEW s \in {"FAILED", "CANCELLED"}, store[id].state \in OPEN_STATES,
             Persist(id, [store[id] EXCEPT !.state = s])
      PROVE  [Lifecycle!Next]_Lifecycle!vars
  <2> DEFINE record == [store[id] EXCEPT !.state = s]
  <2>1. store[id] \in Record
    BY <1>1 DEF TypeOK
  <2>2. record \in Record /\ record.state = s
    BY <2>1 DEF Record, OrderState
  <2> HIDE DEF record
  <2>3. Lifecycle!Becomes(id, s)
    BY <1>5, <2>2, WritesState DEF record
  <2>4. Lifecycle!GiveUp(id)
    BY <1>5, <2>3 DEF Lifecycle!GiveUp, OPEN_STATES
  <2> QED
    BY <2>4 DEF Lifecycle!Next
<1>6. CASE FlattenMark
  BY <1>1, <1>5, <1>6 DEF FlattenMark, InHand, TypeOK, OPEN_STATES
<1>7. CASE pc = "p_gtt" /\ MarkFailed(cur)
  BY <1>1, <1>5, <1>7 DEF MarkFailed, InHand, TypeOK, OPEN_STATES
<1>8. ASSUME NEW id \in Ids, AdvanceRejected(id)
      PROVE  [Lifecycle!Next]_Lifecycle!vars
  BY <1>5, <1>8 DEF AdvanceRejected, OPEN_STATES
<1>9. ASSUME NEW id \in Ids, NEW state \in OrderState, Mark(id, state)
      PROVE  [Lifecycle!Next]_Lifecycle!vars
  BY <1>5, <1>9 DEF Mark, ListOpen
<1>10. ASSUME NEW id \in Ids, AdvanceTriggered(id)
       PROVE  [Lifecycle!Next]_Lifecycle!vars
  <2> DEFINE record == [store[id] EXCEPT !.state = "EXITED"]
  <2>1. store[id] \in Record /\ store[id].state = "ENTERED" /\ id \in todo
        /\ snapG[id] = "triggered" /\ Persist(id, record)
    BY <1>1, <1>10 DEF AdvanceTriggered, TypeOK
  <2>2. record \in Record /\ record.state = "EXITED"
    BY <2>1 DEF Record, OrderState
  <2>3. store[id].gtt \in GttIds /\ gtts[store[id].gtt].status = "triggered"
        /\ gtts[store[id].gtt].tag = id
    BY <1>1, <2>1 DEF WalkFresh, TypeOK, TrackedOwn
  <2>4. id \in ExitsSent
    BY <2>3 DEF ExitsBehindTriggers
  <2> HIDE DEF record
  <2>5. Lifecycle!Becomes(id, "EXITED")
    BY <2>1, <2>2, WritesState
  <2>6. Lifecycle!Book(id)
    BY <2>1, <2>4, <2>5 DEF Lifecycle!Book
  <2> QED
    BY <2>6 DEF Lifecycle!Next
<1> QED
  BY <1>2, <1>3, <1>4, <1>6, <1>7, <1>8, <1>9, <1>10, StoreMoves

\* Exits are never taken back, and a GTT that triggers has just sent its own.
LEMMA NextExitsBehindTriggers ==
  ASSUME IInv, ExitsBehindTriggers, [Next]_vars
  PROVE  ExitsBehindTriggers'
<1>1. TypeOK /\ ExchangeWellFormed
  BY DEF IInv
<1>2. ExitsSent \subseteq ExitsSent'
  <2>1. WorkingOrdersMove => ExitsSent \subseteq ExitsSent'
    BY OrdersMoveInMarket
  <2>2. ASSUME NEW o \in OrderIds, NEW kind, NEW tag, NEW sym, NEW dir, NEW qty,
               AcceptOrder(o, kind, tag, sym, dir, qty)
        PROVE  ExitsSent \subseteq ExitsSent'
    BY <2>2, OrderEntersMarket
  <2> QED
    BY <1>1, <2>1, <2>2, MarketMoves, FillMoves, RejectMoves, CancelMoves, NewDayMoves,
       OrdersUnchanged DEF AcceptEntry, Trigger, MarketStays
<1>3. SUFFICES ASSUME NEW g \in GttIds, gtts'[g].status = "triggered"
               PROVE  gtts'[g].tag \in ExitsSent'
  BY DEF ExitsBehindTriggers
<1>4. ASSUME gtts[g].status = "triggered", gtts'[g].tag = gtts[g].tag
      PROVE  gtts'[g].tag \in ExitsSent'
  BY <1>2, <1>4 DEF ExitsBehindTriggers
<1>5. ASSUME NEW h \in GttIds, Trigger(h)
      PROVE  gtts'[g].tag \in ExitsSent'
  <2>1. CASE g = h
    <3>1. gtts[g].tag \in Ids /\ gtts'[g].tag = gtts[g].tag
      BY <1>1, <1>5, <2>1 DEF Trigger, ExchangeWellFormed, TypeOK, ExchangeTypeOK, Gtt
    <3>2. ExitsSent' = ExitsSent \union {gtts[g].tag}
      BY <1>5, <2>1, <3>1, OrderEntersMarket DEF Trigger
    <3> QED
      BY <3>1, <3>2
  <2>2. CASE g # h
    BY <1>1, <1>3, <1>4, <1>5, <2>2 DEF Trigger, TypeOK, ExchangeTypeOK
  <2> QED
    BY <2>1, <2>2
<1>6. ASSUME NEW h \in GttIds, VanishGtt(h)
      PROVE  gtts'[g].tag \in ExitsSent'
  BY <1>1, <1>3, <1>4, <1>6 DEF VanishGtt, TypeOK, ExchangeTypeOK, Gtt
<1>7. CASE GttOk \/ GttFails(TRUE)
  <2>1. PICK h \in GttIds : AcceptGtt(h, cur)
    BY <1>7 DEF GttOk, GttFails
  <2> QED
    BY <1>1, <1>3, <1>4, <2>1 DEF AcceptGtt, TypeOK, ExchangeTypeOK
<1>8. ASSUME NEW id \in Ids, FlattenDelete(id)
      PROVE  gtts'[g].tag \in ExitsSent'
  BY <1>1, <1>3, <1>4, <1>8 DEF FlattenDelete, TypeOK, ExchangeTypeOK, Gtt
<1>9. CASE UNCHANGED gtts
  BY <1>3, <1>4, <1>9
<1> QED
  BY <1>5, <1>6, <1>7, <1>8, <1>9, GttsMove

\* Nothing is tracked, sent or triggered at first.
LEMMA InitRefines == Init => Lifecycle!Init /\ ExitsBehindTriggers
  BY DEF Init, ExchangeInit, NoOrder, NoGtt, NoRecord, Lifecycle!Init, EntriesSent,
     EntriesFilled, ExitsSent, ExitsBehindTriggers

\* Whatever crashes, is lost, retried, placed again or marked by hand, every step
\* of the broker, its operator and the exchange is one of OrderLifecycle or a
\* stutter: no record is ahead of the market, no exit ahead of its entry.
THEOREM BrokerImplementsLifecycle == Spec => ImplementsOrderLifecycle
<1>1. IInv /\ ExitsBehindTriggers /\ [Next]_vars
        => ExitsBehindTriggers' /\ [Lifecycle!Next]_Lifecycle!vars
  BY MarketRefines, RecordsRefine, NextExitsBehindTriggers
<1> QED
  BY <1>1, InitRefines, InductiveInvariant, PTL DEF Spec, ImplementsOrderLifecycle, Lifecycle!Spec
=============================================================================
