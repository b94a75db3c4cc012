--------------------------- MODULE OrderLifecycle ---------------------------
(***************************************************************************)
(* What the live broker promises of a signal (execution/order_state.py,    *)
(* execution/broker.py): its record is walked through                      *)
(*     PENDING_ENTRY -> ENTERED -> EXITED   (or FAILED, CANCELLED)         *)
(* never ahead of the market, where an entry is sent, fills, and only then *)
(* may an exit be sent.                                                    *)
(***************************************************************************)
CONSTANT Ids          \* client order ids
VARIABLES state,      \* the state of each one's record, "NONE" before there is one
          sent,       \* the ids whose entry reached the market,
          filled,     \* whose entry filled completely,
          exiting     \* and whose exit reached the market

market == <<sent, filled, exiting>>
vars == <<state, market>>

Init ==
  /\ state = [id \in Ids |-> "NONE"]
  /\ sent = {} /\ filled = {} /\ exiting = {}

-----------------------------------------------------------------------------
(* The market                                                              *)

Send(id) ==
  /\ id \notin sent
  /\ sent' = sent \union {id}
  /\ UNCHANGED <<state, filled, exiting>>

Fill(id) ==
  /\ id \in sent \ filled
  /\ filled' = filled \union {id}
  /\ UNCHANGED <<state, sent, exiting>>

Exit(id) ==
  /\ id \in filled \ exiting
  /\ exiting' = exiting \union {id}
  /\ UNCHANGED <<state, sent, filled>>

-----------------------------------------------------------------------------
(* The record                                                              *)

Becomes(id, s) == state' = [state EXCEPT ![id] = s] /\ UNCHANGED market

\* A signal is taken up, or taken up again.
Track(id) ==
  /\ state[id] \in {"NONE", "FAILED", "CANCELLED"}
  /\ id \in sent
  /\ Becomes(id, "PENDING_ENTRY")

Protect(id) ==
  /\ state[id] = "PENDING_ENTRY"
  /\ id \in filled
  /\ Becomes(id, "ENTERED")

Book(id) ==
  /\ state[id] = "ENTERED"
  /\ id \in exiting
  /\ Becomes(id, "EXITED")

\* The entry or its protection was refused, the position was flattened, or an
\* operator gave the record up.
GiveUp(id) ==
  /\ state[id] \in {"PENDING_ENTRY", "ENTERED"}
  /\ \E s \in {"FAILED", "CANCELLED"} : Becomes(id, s)

Next ==
  \E id \in Ids :
    \/ Send(id) \/ Fill(id) \/ Exit(id)
    \/ Track(id) \/ Protect(id) \/ Book(id) \/ GiveUp(id)

Spec == Init /\ [][Next]_vars
=============================================================================
