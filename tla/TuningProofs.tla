---------------------------- MODULE TuningProofs ----------------------------
(***************************************************************************)
(* Proofs about Tuning: what is in force comes of an applied               *)
(* recommendation, with parameters its strategy takes, for all plans,      *)
(* symbols, strategies and clients and any number of reviews and crashes.  *)
(***************************************************************************)
EXTENDS Tuning, SequenceTheorems, TLAPS

-----------------------------------------------------------------------------
(* Parameters                                                              *)

\* Filtering leaves parameters the strategy takes.
LEMMA FilteredType ==
  ASSUME NEW strategy \in Strategies, NEW params \in ParamSets
  PROVE  /\ Filtered(strategy, params) \in ParamSets
         /\ DOMAIN Filtered(strategy, params) \subseteq Accepts[strategy]
<1>1. PICK D \in SUBSET Params : params \in [D -> Values]
  BY DEF ParamSets
<1>2. D \cap Accepts[strategy] \in SUBSET Params
  OBVIOUS
<1>3. Filtered(strategy, params) \in [D \cap Accepts[strategy] -> Values]
  BY <1>1 DEF Filtered
<1> QED
  BY <1>2, <1>3 DEF ParamSets, Filtered

\* Parameters updated by parameters are parameters.
LEMMA UpdatedType ==
  ASSUME NEW params \in ParamSets, NEW by \in ParamSets
  PROVE  Updated(params, by) \in ParamSets
<1>1. PICK D \in SUBSET Params : params \in [D -> Values]
  BY DEF ParamSets
<1>2. PICK E \in SUBSET Params : by \in [E -> Values]
  BY DEF ParamSets
<1>3. Updated(params, by) \in [D \cup E -> Values]
  BY <1>1, <1>2 DEF Updated
<1>4. D \cup E \in SUBSET Params
  OBVIOUS
<1> QED
  BY <1>3, <1>4 DEF ParamSets

LEMMA NoParamsType == NoParams \in ParamSets
<1>1. {} \in SUBSET Params /\ NoParams \in [{} -> Values]
  BY DEF NoParams
<1> QED
  BY <1>1 DEF ParamSets

\* What a recommendation makes of any configuration suits its strategy.
LEMMA NewParamsType ==
  ASSUME NEW r, r.params \in ParamSets, Effective(r) \in Strategies,
         NEW existing \in Config \cup {None}
  PROVE  /\ NewParams(r, existing) \in ParamSets
         /\ DOMAIN NewParams(r, existing) \subseteq Accepts[Effective(r)]
<1>1. BaseParams(existing) \in ParamSets
  BY NoParamsType DEF BaseParams, Config
<1>2. Updated(BaseParams(existing), r.params) \in ParamSets
  BY <1>1, UpdatedType
<1> QED
  BY <1>1, <1>2, FilteredType DEF NewParams

\* A sound recommendation is still one when it has been sanitised.
LEMMA SanitisedType ==
  ASSUME NEW r \in Recommendation, Sound(r)
  PROVE  Sanitised(r) \in Recommendation
<1>1. r.params \in ParamSets
  BY DEF Recommendation
<1>2. CASE ChangesParams(r)
  <2>1. Filtered(Effective(r), r.params) \in ParamSets
    BY <1>1, <1>2, FilteredType DEF Sound
  <2> QED
    BY <1>2, <2>1 DEF Sanitised, Recommendation
<1>3. CASE ~ChangesParams(r)
  BY <1>3, NoParamsType DEF Sanitised, Recommendation
<1> QED
  BY <1>2, <1>3

\* Whatever the model answers, a run and recommendations come of it.
LEMMA OutcomeType ==
  ASSUME NEW o \in Outcomes
  PROVE  /\ o.plan \in Seq(Recommendation)
         /\ o.status \in {"ok", "fallback_transport", "fallback_unexpected", "fallback_parse_error"}
<1>1. CASE o \in {Fallback("fallback_transport"), Fallback("fallback_unexpected"),
                  Fallback("fallback_parse_error")}
  <2>1. /\ o.plan = <<>>
        /\ o.status \in {"fallback_transport", "fallback_unexpected", "fallback_parse_error"}
    BY <1>1 DEF Fallback
  <2>2. <<>> \in Seq(Recommendation)
    OBVIOUS
  <2> QED
    BY <2>1, <2>2
<1>2. CASE \E p \in {q \in Plans : \A i \in DOMAIN q : Sound(q[i])} :
             o = [status |-> "ok", plan |-> [i \in DOMAIN p |-> Sanitised(p[i])]]
  <2>1. PICK p \in Plans : /\ \A i \in DOMAIN p : Sound(p[i])
                           /\ o = [status |-> "ok", plan |-> [i \in DOMAIN p |-> Sanitised(p[i])]]
    BY <1>2
  <2>2. p \in Seq(Recommendation)
    BY PlansAssumption
  <2>3. \A i \in DOMAIN p : Sanitised(p[i]) \in Recommendation
    BY <2>1, <2>2, SanitisedType
  <2>4. DOMAIN p = 1 .. Len(p) /\ Len(p) \in Nat
    BY <2>2
  <2>5. o.plan \in [1 .. Len(p) -> Recommendation]
    BY <2>1, <2>3, <2>4
  <2>6. o.plan \in Seq(Recommendation)
    BY <2>4, <2>5
  <2> QED
    BY <2>1, <2>6
<1> QED
  BY <1>1, <1>2 DEF Outcomes

-----------------------------------------------------------------------------
(* The invariant                                                           *)

\* Only the holder of write_lock is at work.
Exclusive == \A c \in Clients : client[c].at # "idle" => holder = c

Resolves == {"apply", "merge", "applied", "reject", "rejected"}

\* What a handler has read is still true when it writes - of its own row.
Holding ==
  \A c \in Clients :
    /\ client[c].at = "storing" => client[c].plan # <<>>
    /\ client[c].at \in Resolves => client[c].id \in DOMAIN recs
    /\ client[c].at = "merge" => client[c].row \in DOMAIN recs
    /\ client[c].at = "rejected" /\ client[c].row = client[c].id =>
         recs[client[c].id].status = "pending"

\* The connection answers with rows there are.
Answering == conn.of = "recommendation" => conn.id \in DOMAIN recs

Sourced == \A s \in Symbols : active[s] # None => active[s].source \in DOMAIN recs

IInv ==
  /\ TypeOK /\ Exclusive /\ Holding /\ Answering /\ Sourced
  /\ OnlyAppliedInForce /\ ParamsAccepted

LEMMA InitIInv == Init => IInv
<1> SUFFICES ASSUME Init PROVE IInv
  OBVIOUS
<1>1. /\ runs \in Seq(Run) /\ recs \in Seq(Row) /\ <<>> \in Seq(Recommendation)
  BY DEF Init
<1>2. TypeOK
  BY <1>1, BoundsAssumption DEF Init, TypeOK, Handler, Idle, Statement, NoFit
<1>3. Exclusive /\ Holding /\ Answering
  BY DEF Init, Exclusive, Holding, Answering, Idle, Resolves, NoFit
<1>4. Sourced /\ OnlyAppliedInForce /\ ParamsAccepted
  BY DEF Init, Sourced, OnlyAppliedInForce, ParamsAccepted
<1> QED
  BY <1>2, <1>3, <1>4 DEF IInv

\* While one handler is at work the others are idle; while the lock is free, all.
LEMMA Alone ==
  ASSUME IInv, NEW c \in Clients, client[c].at # "idle"
  PROVE  holder = c /\ \A d \in Clients : d # c => client[d].at = "idle"
BY DEF IInv, Exclusive

LEMMA Free ==
  ASSUME IInv, holder = Nobody
  PROVE  \A d \in Clients : client[d].at = "idle"
BY NobodyAssumption DEF IInv, Exclusive

\* A step that changes neither table, and moves one handler that is not between
\* the two writes, keeps what the tables say.
LEMMA TablesKept ==
  ASSUME IInv, UNCHANGED <<active, recs, cut, mistaken>>,
         NEW c \in Clients, client[c].at # "applied",
         \A d \in Clients : d # c => client'[d] = client[d]
  PROVE  Sourced' /\ OnlyAppliedInForce' /\ ParamsAccepted'
<1>1. \A id : Resolving(id) => Resolving(id)'
  BY DEF Resolving
<1> QED
  BY <1>1 DEF IInv, Sourced, OnlyAppliedInForce, ParamsAccepted

\* Going idle: the handler gives the lock back.
LEMMA ReleaseKeeps ==
  ASSUME IInv, NEW c \in Clients, client[c].at # "idle", Release(c)
  PROVE  /\ holder' = Nobody
         /\ client' \in [Clients -> Handler]
         /\ \A d \in Clients : client'[d].at = "idle"
         /\ \A d \in Clients : d # c => client'[d] = client[d]
<1>1. Idle \in Handler
  BY DEF Idle, Handler
<1>2. client \in [Clients -> Handler]
  BY DEF IInv, TypeOK
<1> QED
  BY <1>1, <1>2, Alone DEF Release, Idle

-----------------------------------------------------------------------------
(* Reviews                                                                 *)

LEMMA AskStep ==
  ASSUME IInv, NEW c \in Clients, Ask(c)
  PROVE  IInv'
<1>1. /\ holder = Nobody /\ holder' = c /\ client[c].at = "idle"
      /\ client' = [client EXCEPT ![c].at = "asking"]
      /\ UNCHANGED <<active, runs, recs, conn, cut, mistaken, unseen, pages, crashes>>
  BY DEF Ask, Take, histories
<1>2. client \in [Clients -> Handler]
  BY DEF IInv, TypeOK
<1>3. \A d \in Clients : client'[d].at = "idle" \/ (d = c /\ client'[d].at = "asking")
  BY <1>1, <1>2, Free DEF Handler
<1>4. TypeOK'
  <2>1. client' \in [Clients -> Handler]
    BY <1>1, <1>2 DEF Handler
  <2> QED
    BY <1>1, <2>1 DEF IInv, TypeOK
<1>5. Exclusive' /\ Holding' /\ Answering'
  BY <1>1, <1>3 DEF IInv, Exclusive, Holding, Answering, Resolves
<1>6. Sourced' /\ OnlyAppliedInForce' /\ ParamsAccepted'
  BY <1>1, <1>2, TablesKept
<1> QED
  BY <1>4, <1>5, <1>6 DEF IInv

LEMMA AnswerStep ==
  ASSUME IInv, NEW c \in Clients, Answer(c)
  PROVE  IInv'
<1>1. PICK o \in Outcomes :
        /\ client[c].at = "asking"
        /\ runs' = Append(runs, [status |-> o.status, count |-> Len(o.plan)])
        /\ IF o.plan = <<>> THEN Release(c)
           ELSE /\ client' = [client EXCEPT ![c].at = "storing", ![c].id = Len(runs) + 1,
                                            ![c].plan = o.plan]
                /\ UNCHANGED holder
        /\ UNCHANGED <<active, recs, conn, cut, mistaken, unseen, pages, crashes>>
  BY DEF Answer, histories
<1>2. client \in [Clients -> Handler] /\ runs \in Seq(Run)
  BY DEF IInv, TypeOK
<1>3. o.plan \in Seq(Recommendation) /\ Len(o.plan) \in Nat
  BY OutcomeType
<1>4. runs' \in Seq(Run)
  <2>1. [status |-> o.status, count |-> Len(o.plan)] \in Run
    BY <1>3, OutcomeType DEF Run
  <2> QED
    BY <1>1, <1>2, <2>1
<1>5. Len(runs) + 1 \in Nat
  BY <1>2
<1>6. client' \in [Clients -> Handler] /\ \A d \in Clients : d # c => client'[d] = client[d]
  <2>1. CASE o.plan = <<>>
    BY <1>1, <2>1, ReleaseKeeps
  <2>2. CASE o.plan # <<>>
    <3>1. [client[c] EXCEPT !.at = "storing", !.id = Len(runs) + 1, !.plan = o.plan] \in Handler
      BY <1>2, <1>3, <1>5 DEF Handler
    <3> QED
      BY <1>1, <1>2, <2>2, <3>1
  <2> QED
    BY <2>1, <2>2
<1>7. TypeOK'
  <2>1. holder' \in Clients \cup {Nobody}
    BY <1>1 DEF Release, IInv, TypeOK
  <2> QED
    BY <1>1, <1>4, <1>6, <2>1 DEF IInv, TypeOK
<1>8. Exclusive' /\ Holding'
  <2>1. CASE o.plan = <<>>
    BY <1>1, <2>1, ReleaseKeeps DEF Exclusive, Holding, Resolves
  <2>2. CASE o.plan # <<>>
    <3>1. client'[c].at = "storing" /\ client'[c].plan # <<>> /\ holder' = c
      BY <1>1, <1>2, <2>2, Alone DEF Handler
    <3>2. \A d \in Clients : d # c => client'[d].at = "idle"
      BY <1>1, <1>6, Alone
    <3> QED
      BY <3>1, <3>2 DEF Exclusive, Holding, Resolves
  <2> QED
    BY <2>1, <2>2
<1>9. Sourced' /\ OnlyAppliedInForce' /\ ParamsAccepted'
  BY <1>1, <1>6, TablesKept
<1>10. Answering'
  BY <1>1 DEF IInv, Answering
<1> QED
  BY <1>7, <1>8, <1>9, <1>10 DEF IInv

\* A new row leaves the other rows as they were.
LEMMA StoreStep ==
  ASSUME IInv, NEW c \in Clients, Store(c)
  PROVE  IInv'
<1> DEFINE h == client[c]
           r == Head(h.plan)
           new == [run |-> h.id, symbol |-> r.symbol, current |-> r.current,
                   action |-> r.action, target |-> r.target, params |-> r.params,
                   status |-> "pending"]
<1>1. /\ h.at = "storing"
      /\ recs' = Append(recs, new)
      /\ IF Len(h.plan) = 1 THEN Release(c)
         ELSE client' = [client EXCEPT ![c].plan = Tail(@)] /\ UNCHANGED holder
      /\ UNCHANGED <<active, runs, conn, cut, mistaken, unseen, pages, crashes>>
  BY DEF Store, histories
<1>2. client \in [Clients -> Handler] /\ h \in Handler /\ recs \in Seq(Row)
  BY DEF IInv, TypeOK
<1>3. h.plan \in Seq(Recommendation) /\ h.plan # <<>> /\ h.id \in Nat
  BY <1>1, <1>2 DEF IInv, Holding, Handler
<1>4. r \in Recommendation /\ Tail(h.plan) \in Seq(Recommendation)
  BY <1>3
<1>5. new \in Row
  BY <1>3, <1>4 DEF Row, Recommendation
<1>6. recs' \in Seq(Row)
  BY <1>1, <1>2, <1>5
<1>7. \A id \in DOMAIN recs : id \in DOMAIN recs' /\ recs'[id] = recs[id]
  BY <1>1, <1>2, <1>5
<1>8. client' \in [Clients -> Handler] /\ \A d \in Clients : d # c => client'[d] = client[d]
  <2>1. CASE Len(h.plan) = 1
    BY <1>1, <2>1, ReleaseKeeps
  <2>2. CASE Len(h.plan) # 1
    <3>1. [h EXCEPT !.plan = Tail(h.plan)] \in Handler
      BY <1>2, <1>4 DEF Handler
    <3> QED
      BY <1>1, <1>2, <2>2, <3>1
  <2> QED
    BY <2>1, <2>2
<1>9. TypeOK'
  <2>1. holder' \in Clients \cup {Nobody}
    BY <1>1 DEF Release, IInv, TypeOK
  <2> QED
    BY <1>1, <1>6, <1>8, <2>1 DEF IInv, TypeOK
<1>10. Exclusive' /\ Holding'
  <2>1. CASE Len(h.plan) = 1
    BY <1>1, <2>1, ReleaseKeeps DEF Exclusive, Holding, Resolves
  <2>2. CASE Len(h.plan) # 1
    <3>1. Tail(h.plan) # <<>>
      <4>1. Len(h.plan) \in Nat /\ Len(h.plan) # 0
        BY <1>3, EmptySeq
      <4>2. Len(Tail(h.plan)) = Len(h.plan) - 1
        BY <1>3, HeadTailProperties
      <4>3. Len(Tail(h.plan)) # 0
        BY <4>1, <4>2, <2>2
      <4> QED
        BY <4>3, <1>4, EmptySeq
    <3>2. client'[c].at = "storing" /\ client'[c].plan # <<>> /\ holder' = c
      BY <1>1, <1>2, <2>2, <3>1, Alone DEF Handler
    <3>3. \A d \in Clients : d # c => client'[d].at = "idle"
      BY <1>1, <1>8, Alone
    <3> QED
      BY <3>2, <3>3 DEF Exclusive, Holding, Resolves
  <2> QED
    BY <2>1, <2>2
<1>11. Sourced' /\ ParamsAccepted' /\ Answering'
  BY <1>1, <1>7 DEF IInv, Sourced, ParamsAccepted, Answering
<1>12. OnlyAppliedInForce'
  <2>1. \A id : Resolving(id) => Resolving(id)'
    BY <1>1, <1>8 DEF Resolving
  <2> QED
    BY <1>1, <1>7, <2>1 DEF IInv, Sourced, OnlyAppliedInForce
<1> QED
  BY <1>9, <1>10, <1>11, <1>12 DEF IInv

-----------------------------------------------------------------------------
(* Recommendations                                                         *)

LEMMA ResolveStep ==
  ASSUME IInv, NEW c \in Clients, NEW what \in {"apply", "reject"}, Resolve(c, what)
  PROVE  IInv'
<1>1. PICK id \in DOMAIN recs :
        /\ holder = Nobody /\ holder' = c /\ client[c].at = "idle"
        /\ client' = [client EXCEPT ![c].at = what, ![c].id = id]
        /\ conn' = Rec(id)
        /\ UNCHANGED <<active, runs, recs, cut, mistaken, unseen, pages, crashes>>
  BY DEF Resolve, Take, histories
<1>2. client \in [Clients -> Handler] /\ recs \in Seq(Row) /\ id \in Nat
  BY DEF IInv, TypeOK
<1>3. client' \in [Clients -> Handler]
  <2>1. [client[c] EXCEPT !.at = what, !.id = id] \in Handler
    BY <1>2 DEF Handler
  <2> QED
    BY <1>1, <1>2, <2>1
<1>4. /\ client'[c].at = what /\ client'[c].id = id
      /\ \A d \in Clients : d # c => client'[d] = client[d] /\ client'[d].at = "idle"
  BY <1>1, <1>2, Free DEF Handler
<1>5. conn' \in Statement /\ conn'.id \in DOMAIN recs
  BY <1>1, <1>2 DEF Statement, Rec
<1>6. TypeOK'
  BY <1>1, <1>3, <1>5 DEF IInv, TypeOK
<1>7. Exclusive' /\ Holding' /\ Answering'
  BY <1>1, <1>4, <1>5 DEF Exclusive, Holding, Answering, Resolves
<1>8. Sourced' /\ OnlyAppliedInForce' /\ ParamsAccepted'
  BY <1>1, <1>4, TablesKept
<1> QED
  BY <1>6, <1>7, <1>8 DEF IInv

\* A page changes only what the next fetch returns.
LEMMA PageStep ==
  ASSUME IInv, Page
  PROVE  IInv'
<1>1. /\ conn' \in {Rec(id) : id \in DOMAIN recs} \cup {NoFit}
      /\ pages' = pages + 1
      /\ UNCHANGED <<active, runs, recs, holder, client, cut, mistaken, unseen, crashes>>
  BY DEF Page, histories
<1>2. DOMAIN recs \subseteq Nat
  BY DEF IInv, TypeOK
<1>3. conn' \in Statement /\ Answering'
  BY <1>1, <1>2 DEF Statement, Answering, Rec, NoFit
<1>4. TypeOK'
  BY <1>1, <1>3 DEF IInv, TypeOK
<1>5. Exclusive' /\ Holding' /\ Sourced' /\ ParamsAccepted'
  BY <1>1 DEF IInv, Exclusive, Holding, Sourced, ParamsAccepted
<1>6. OnlyAppliedInForce'
  BY <1>1 DEF IInv, OnlyAppliedInForce, Resolving
<1> QED
  BY <1>3, <1>4, <1>5, <1>6 DEF IInv

\* What both checks have done when the row that was fetched is pending.
LEMMA ReadKeeps ==
  ASSUME IInv, NEW c \in Clients, client[c].at \in {"apply", "reject"},
         NEW at \in {"merge", "rejected"}, PendingRow,
         client' = [client EXCEPT ![c].at = at, ![c].row = conn.id],
         conn' \in {OwnConfig, NoFit},
         UNCHANGED <<active, runs, recs, holder, histories, pages, crashes>>
  PROVE  IInv'
<1>1. /\ client \in [Clients -> Handler] /\ client[c].id \in DOMAIN recs
      /\ conn.id \in DOMAIN recs /\ conn.id \in Nat
      /\ recs[conn.id].status = "pending"
      /\ holder = c
  BY Alone DEF IInv, TypeOK, Holding, Answering, Resolves, PendingRow, Statement
<1>2. /\ client' \in [Clients -> Handler]
      /\ client'[c].at = at /\ client'[c].id = client[c].id /\ client'[c].row = conn.id
      /\ \A d \in Clients : d # c => client'[d] = client[d] /\ client'[d].at = "idle"
  <2>1. [client[c] EXCEPT !.at = at, !.row = conn.id] \in Handler
    BY <1>1 DEF Handler
  <2> QED
    BY <1>1, <2>1, Alone DEF Handler
<1>3. conn' \in Statement /\ Answering'
  BY DEF Statement, Answering, OwnConfig, NoFit
<1>4. TypeOK' /\ Exclusive'
  BY <1>1, <1>2, <1>3 DEF IInv, TypeOK, Exclusive, histories
<1>5. Holding'
  BY <1>1, <1>2 DEF Holding, Resolves
<1>6. Sourced' /\ OnlyAppliedInForce' /\ ParamsAccepted'
  BY <1>2, TablesKept DEF histories
<1> QED
  BY <1>3, <1>4, <1>5, <1>6 DEF IInv

\* Going away without a change.
LEMMA LeaveKeeps ==
  ASSUME IInv, NEW c \in Clients, client[c].at \in {"apply", "reject", "merge"},
         Release(c), conn' = NoFit,
         UNCHANGED <<active, runs, recs, histories, pages, crashes>>
  PROVE  IInv'
<1>1. conn' \in Statement /\ Answering'
  BY DEF Statement, Answering, NoFit
<1>2. /\ TypeOK' /\ Exclusive' /\ Holding'
      /\ \A d \in Clients : d # c => client'[d] = client[d]
  BY <1>1, ReleaseKeeps DEF IInv, TypeOK, Exclusive, Holding, Resolves, histories
<1>3. Sourced' /\ OnlyAppliedInForce' /\ ParamsAccepted'
  BY <1>2, TablesKept DEF histories
<1> QED
  BY <1>1, <1>2, <1>3 DEF IInv

\* Both checks lead to the next step only if the row is pending.
LEMMA CheckStep ==
  ASSUME IInv, NEW c \in Clients, CheckApply(c) \/ CheckReject(c)
  PROVE  IInv'
<1>1. CASE CheckApply(c)
  <2>1. CASE PendingRow
    BY <1>1, <2>1, ReadKeeps DEF CheckApply
  <2>2. CASE ~PendingRow
    BY <1>1, <2>2, LeaveKeeps DEF CheckApply
  <2> QED
    BY <2>1, <2>2
<1>2. CASE CheckReject(c)
  <2>1. CASE PendingRow
    BY <1>2, <2>1, ReadKeeps DEF CheckReject
  <2>2. CASE ~PendingRow
    BY <1>2, <2>2, LeaveKeeps DEF CheckReject
  <2> QED
    BY <2>1, <2>2
<1> QED
  BY <1>1, <1>2

\* The configuration suits its strategy; its source is being resolved, or was
\* mistaken for the one that is.
LEMMA UpsertStep ==
  ASSUME IInv, NEW c \in Clients, Upsert(c)
  PROVE  IInv'
<1> DEFINE id == client[c].row
           r == recs[id]
           existing == IF conn = OwnConfig THEN active[r.symbol] ELSE None
           new == Configured(id, r, existing)
<1>1. /\ client[c].at = "merge" /\ conn' = NoFit
      /\ UNCHANGED <<runs, recs, cut, pages, crashes>>
  BY DEF Upsert
<1>2. CASE Release(c) /\ UNCHANGED <<active, mistaken, unseen>>
  BY <1>1, <1>2, LeaveKeeps DEF histories
<1>3. CASE /\ Applicable(r, existing)
           /\ active' = [active EXCEPT ![r.symbol] = new]
           /\ mistaken' = IF id = client[c].id THEN mistaken ELSE mistaken \cup {id}
           /\ unseen' = IF conn = OwnConfig THEN unseen ELSE unseen \cup {id}
           /\ Goto(c, "applied")
  <2>1. /\ id \in DOMAIN recs /\ client[c].id \in DOMAIN recs
        /\ active \in [Symbols -> Config \cup {None}] /\ recs \in Seq(Row)
        /\ client \in [Clients -> Handler] /\ holder = c
    BY <1>1, Alone DEF IInv, TypeOK, Holding, Resolves
  <2>2. r \in Row /\ id \in Nat
    BY <2>1
  <2>3. /\ r.symbol \in Symbols /\ r.params \in ParamSets /\ r.action \in Actions
        /\ Effective(r) \in Strategies
    BY <1>3, <2>2 DEF Row, Applicable
  <2>4. existing \in Config \cup {None}
    BY <2>1, <2>3
  <2>5. /\ NewParams(r, existing) \in ParamSets
        /\ DOMAIN NewParams(r, existing) \subseteq Accepts[Effective(r)]
    BY <2>3, <2>4, NewParamsType
  <2>6. EnabledBy(r, existing) \in BOOLEAN
    BY <2>3, <2>4 DEF EnabledBy, Actions, Config
  <2>7. /\ new \in Config /\ new.source = id /\ new.strategy = Effective(r)
        /\ new.params = NewParams(r, existing)
    BY <2>2, <2>3, <2>5, <2>6 DEF Configured, Config
  <2> HIDE DEF existing, new
  <2>8. /\ active' \in [Symbols -> Config \cup {None}]
        /\ active'[r.symbol] = new
        /\ \A s \in Symbols : s # r.symbol => active'[s] = active[s]
    BY <1>3, <2>1, <2>3, <2>7
  <2>9. /\ holder' = c /\ client' \in [Clients -> Handler]
        /\ client'[c].at = "applied" /\ client'[c].id = client[c].id
        /\ client'[c].row = id
        /\ \A d \in Clients : d # c => client'[d] = client[d] /\ client'[d].at = "idle"
    <3>1. [client[c] EXCEPT !.at = "applied"] \in Handler
      BY <2>1 DEF Handler
    <3> QED
      BY <1>1, <1>3, <2>1, <3>1, Alone DEF Goto, Handler
  <2>10. conn' \in Statement /\ Answering'
    BY <1>1 DEF Statement, Answering, NoFit
  <2>11. mistaken' \subseteq Nat /\ unseen' \subseteq Nat
    BY <1>3, <2>2 DEF IInv, TypeOK
  <2>12. TypeOK' /\ Exclusive' /\ Holding'
    BY <1>1, <2>1, <2>8, <2>9, <2>10, <2>11
    DEF IInv, TypeOK, Exclusive, Holding, Resolves
  <2>13. Sourced' /\ ParamsAccepted'
    BY <1>1, <2>1, <2>5, <2>7, <2>8 DEF IInv, Sourced, ParamsAccepted
  <2>14. ASSUME NEW s \in Symbols, active'[s] # None
         PROVE  /\ recs'[active'[s].source].symbol = s
                /\ \/ recs'[active'[s].source].status = "applied"
                   \/ \E d \in Clients :
                        client'[d].at = "applied" /\ client'[d].id = active'[s].source
                   \/ active'[s].source \in cut' \cup mistaken'
    <3>1. CASE s = r.symbol
      <4>1. active'[s].source = id /\ recs'[id].symbol = s
        BY <1>1, <2>7, <2>8, <3>1
      <4>2. id = client'[c].id \/ id \in mistaken'
        BY <1>3, <2>9
      <4> QED
        BY <4>1, <4>2, <2>9
    <3>2. CASE s # r.symbol
      <4>1. ~Resolving(active[s].source)
        BY <1>1, Alone DEF Resolving
      <4>2. mistaken \subseteq mistaken'
        BY <1>3
      <4> QED
        BY <1>1, <2>8, <2>14, <3>2, <4>1, <4>2 DEF IInv, OnlyAppliedInForce
    <3> QED
      BY <3>1, <3>2
  <2>15. OnlyAppliedInForce'
    BY <2>14 DEF OnlyAppliedInForce, Resolving
  <2> QED
    BY <2>10, <2>12, <2>13, <2>15 DEF IInv
<1> QED
  BY <1>2, <1>3 DEF Upsert

\* A row becomes applied, or it becomes rejected while it is pending or mistaken
\* for a pending one; no configuration came of a pending row.
LEMMA SetStatusStep ==
  ASSUME IInv, NEW c \in Clients, SetStatus(c)
  PROVE  IInv'
<1> DEFINE id == client[c].id
<1>1. /\ client[c].at \in {"applied", "rejected"}
      /\ recs' = [recs EXCEPT ![id].status = client[c].at]
      /\ mistaken' = IF id = client[c].row THEN mistaken ELSE mistaken \cup {id}
      /\ Release(c)
      /\ UNCHANGED <<active, runs, conn, cut, unseen, pages, crashes>>
  BY DEF SetStatus
<1>2. /\ id \in DOMAIN recs /\ id \in Nat
      /\ client[c].at = "rejected" /\ client[c].row = id => recs[id].status = "pending"
      /\ recs \in Seq(Row) /\ recs[id] \in Row
  BY <1>1 DEF IInv, TypeOK, Holding, Resolves
<1>3. /\ recs' \in Seq(Row) /\ DOMAIN recs' = DOMAIN recs
      /\ recs'[id].status = client[c].at /\ recs'[id].symbol = recs[id].symbol
      /\ \A x \in DOMAIN recs : x # id => recs'[x] = recs[x]
  <2>1. [recs[id] EXCEPT !.status = client[c].at] \in Row
    BY <1>1, <1>2 DEF Row
  <2> QED
    BY <1>1, <1>2, <2>1 DEF Row
<1>4. /\ holder' = Nobody /\ client' \in [Clients -> Handler]
      /\ \A d \in Clients : client'[d].at = "idle"
  BY <1>1, ReleaseKeeps
<1>5. mistaken' \subseteq Nat /\ mistaken \subseteq mistaken'
  BY <1>1, <1>2 DEF IInv, TypeOK
<1>6. TypeOK' /\ Exclusive' /\ Holding'
  BY <1>1, <1>3, <1>4, <1>5 DEF IInv, TypeOK, Exclusive, Holding, Resolves
<1>7. Sourced' /\ ParamsAccepted' /\ Answering'
  BY <1>1, <1>3 DEF IInv, Sourced, ParamsAccepted, Answering
<1>8. OnlyAppliedInForce'
  <2>1. \A x : Resolving(x) => x = id /\ client[c].at = "applied"
    BY <1>1, Alone DEF Resolving
  <2>2. ASSUME NEW s \in Symbols, active[s] # None
        PROVE  /\ recs'[active[s].source].symbol = s
               /\ \/ recs'[active[s].source].status = "applied"
                  \/ active[s].source \in cut \cup mistaken'
    <3>1. CASE active[s].source = id
      <4>1. recs[id].symbol = s
        BY <2>2, <3>1 DEF IInv, OnlyAppliedInForce
      <4>2. CASE client[c].at = "applied"
        BY <1>3, <3>1, <4>1, <4>2
      <4>3. CASE client[c].at = "rejected" /\ client[c].row # id
        BY <1>1, <1>3, <3>1, <4>1, <4>3
      <4>4. CASE client[c].at = "rejected" /\ client[c].row = id
        <5>1. recs[id].status # "applied" /\ ~Resolving(id)
          BY <1>2, <2>1, <4>4
        <5>2. id \in cut \cup mistaken
          BY <2>2, <3>1, <5>1 DEF IInv, OnlyAppliedInForce
        <5> QED
          BY <1>3, <1>5, <3>1, <4>1, <5>2
      <4> QED
        BY <1>1, <4>2, <4>3, <4>4
    <3>2. CASE active[s].source # id
      BY <1>3, <1>5, <2>1, <2>2, <3>2 DEF IInv, Sourced, OnlyAppliedInForce
    <3> QED
      BY <3>1, <3>2
  <2> QED
    BY <1>1, <2>2 DEF OnlyAppliedInForce
<1> QED
  BY <1>6, <1>7, <1>8 DEF IInv

\* Whoever was between the two writes is remembered.
LEMMA CrashStep ==
  ASSUME IInv, Crash
  PROVE  IInv'
<1>1. /\ holder' = Nobody /\ client' = [c \in Clients |-> Idle]
      /\ crashes' = crashes + 1
      /\ cut' = cut \cup {client[c].id : c \in {d \in Clients : client[d].at = "applied"}}
      /\ conn' = NoFit
      /\ UNCHANGED <<active, runs, recs, mistaken, unseen, pages>>
  BY DEF Crash
<1>2. client \in [Clients -> Handler] /\ cut \subseteq Nat /\ crashes \in Nat
  BY DEF IInv, TypeOK
<1>3. cut' \subseteq Nat
  BY <1>1, <1>2 DEF Handler
<1>4. client' \in [Clients -> Handler] /\ \A c \in Clients : client'[c].at = "idle"
  BY <1>1 DEF Handler, Idle
<1>5. /\ TypeOK' /\ Exclusive' /\ Holding' /\ Answering'
  BY <1>1, <1>2, <1>3, <1>4
  DEF IInv, TypeOK, Exclusive, Holding, Answering, Resolves, Statement, NoFit
<1>6. Sourced' /\ ParamsAccepted'
  BY <1>1 DEF IInv, Sourced, ParamsAccepted
<1>7. OnlyAppliedInForce'
  <2>1. \A x : Resolving(x) => x \in cut'
    BY <1>1 DEF Resolving
  <2>2. cut \subseteq cut'
    BY <1>1
  <2> QED
    BY <1>1, <2>1, <2>2 DEF IInv, OnlyAppliedInForce
<1> QED
  BY <1>5, <1>6, <1>7 DEF IInv

-----------------------------------------------------------------------------
(* Theorems                                                                *)

LEMMA NextIInv == IInv /\ [Next]_vars => IInv'
<1> SUFFICES ASSUME IInv, [Next]_vars PROVE IInv'
  OBVIOUS
<1>1. CASE \E c \in Clients : Ask(c) \/ Answer(c) \/ Store(c)
  BY <1>1, AskStep, AnswerStep, StoreStep
<1>2. CASE \E c \in Clients : Resolve(c, "apply") \/ Resolve(c, "reject")
  BY <1>2, ResolveStep
<1>3. CASE \E c \in Clients : CheckApply(c) \/ CheckReject(c)
  BY <1>3, CheckStep
<1>4. CASE \E c \in Clients : Upsert(c) \/ SetStatus(c)
  BY <1>4, UpsertStep, SetStatusStep
<1>5. CASE Page \/ Crash
  BY <1>5, PageStep, CrashStep
<1>6. CASE UNCHANGED vars
  <2>1. UNCHANGED <<active, runs, recs, holder, client, conn, cut, mistaken, unseen, pages,
                    crashes>>
    BY <1>6 DEF vars, histories
  <2>2. TypeOK' /\ Exclusive' /\ Holding' /\ Answering'
    BY <2>1 DEF IInv, TypeOK, Exclusive, Holding, Answering
  <2>3. Sourced' /\ OnlyAppliedInForce' /\ ParamsAccepted'
    BY <2>1 DEF IInv, Sourced, OnlyAppliedInForce, ParamsAccepted, Resolving
  <2> QED
    BY <2>2, <2>3 DEF IInv
<1> QED
  BY <1>1, <1>2, <1>3, <1>4, <1>5, <1>6 DEF Next

LEMMA InductiveInvariant == Spec => []IInv
  BY InitIInv, NextIInv, PTL DEF Spec

\* The rows of the tuner's three tables and its handlers keep their types.
THEOREM TypeCorrect == Spec => []TypeOK
<1>1. IInv => TypeOK
  BY DEF IInv
<1> QED
  BY <1>1, InductiveInvariant, PTL

\* apply_recommendation and reject_recommendation under write_lock: a
\* configuration in force comes of an applied recommendation, but for a crash
\* and for a page that crossed a handler's read.
THEOREM OnlyAppliedIsInForce == Spec => []OnlyAppliedInForce
<1>1. IInv => OnlyAppliedInForce
  BY DEF IInv
<1> QED
  BY <1>1, InductiveInvariant, PTL

\* filter_strategy_params: no constructor is given an argument it does not take.
THEOREM ParamsAreAccepted == Spec => []ParamsAccepted
<1>1. IInv => ParamsAccepted
  BY DEF IInv
<1> QED
  BY <1>1, InductiveInvariant, PTL

\* apply_recommendation: a disabled symbol is enabled by a change only, if its
\* configuration was seen.
THEOREM DisabledStaysSo == Spec => DisabledStays
<1> DEFINE Kept == \A s \in Symbols :
             active[s] # None /\ ~active[s].enabled /\ active'[s].enabled
               => LET id == active'[s].source IN ChangesParams(recs[id]) \/ id \in unseen'
<1>1. IInv /\ [Next]_vars => [Kept]_vars
  <2> SUFFICES ASSUME IInv, [Next]_vars PROVE Kept
    OBVIOUS
  <2>1. CASE UNCHANGED active
    BY <2>1
  <2>2. ASSUME NEW c \in Clients, Upsert(c), ~UNCHANGED active PROVE Kept
    <3> DEFINE id == client[c].row
               r == recs[id]
               existing == IF conn = OwnConfig THEN active[r.symbol] ELSE None
    <3>1. /\ active' = [active EXCEPT ![r.symbol] = Configured(id, r, existing)]
          /\ unseen' = IF conn = OwnConfig THEN unseen ELSE unseen \cup {id}
          /\ active \in [Symbols -> Config \cup {None}]
          /\ id \in DOMAIN recs /\ recs \in Seq(Row)
      BY <2>2 DEF Upsert, IInv, TypeOK, Holding, Resolves
    <3>2. r.action \in Actions /\ r.symbol \in Symbols
      <4>1. r \in Row
        BY <3>1
      <4> QED
        BY <4>1 DEF Row
    <3>3. ASSUME NEW s \in Symbols, active[s] # None, ~active[s].enabled, active'[s].enabled
          PROVE  ChangesParams(recs[active'[s].source]) \/ active'[s].source \in unseen'
      <4>1. s = r.symbol
        BY <3>1, <3>2, <3>3
      <4>2. /\ active'[s].source = id
            /\ EnabledBy(r, existing)
        BY <3>1, <3>3, <4>1 DEF Configured
      <4>3. CASE conn = OwnConfig
        <5>1. existing = active[s]
          BY <4>1, <4>3
        <5>2. r.action \in {"modify_params", "switch_strategy"}
          BY <3>2, <3>3, <4>2, <5>1 DEF EnabledBy, Actions
        <5> QED
          BY <4>2, <5>2 DEF ChangesParams
      <4>4. CASE conn # OwnConfig
        BY <3>1, <4>2, <4>4
      <4> QED
        BY <4>3, <4>4
    <3> QED
      BY <3>3
  <2>3. CASE Next
    <3>1. UNCHANGED active \/ \E c \in Clients : Upsert(c)
      BY <2>3 DEF Next, Ask, Answer, Store, Resolve, CheckApply, CheckReject, SetStatus,
                  Page, Crash
    <3> QED
      BY <3>1, <2>1, <2>2
  <2>4. CASE UNCHANGED vars
    BY <2>1, <2>4 DEF vars
  <2> QED
    BY <2>3, <2>4
<1>2. Spec => [][Kept]_vars
  BY <1>1, InductiveInvariant, PTL DEF Spec
<1> QED
  BY <1>2 DEF DisabledStays
=============================================================================
