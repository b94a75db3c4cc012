------------------------------- MODULE Tuning -------------------------------
(***************************************************************************)
(* The strategy tuner: src/tuner, dashboard/services/tuner_service.py and  *)
(* the endpoints of dashboard/routes/tuner.py.                             *)
(*                                                                         *)
(* A review asks a language model for recommendations and stores a run and *)
(* its recommendations, row by row.  An operator applies or rejects each   *)
(* recommendation later, whatever has become of the symbol since; applying *)
(* writes the symbol's active configuration, then the recommendation's     *)
(* status.  These handlers hold write_lock from their first read to their  *)
(* last write; the dashboard may die between any two statements.           *)
(*                                                                         *)
(* The pages take no lock, and every thread uses the one connection, whose *)
(* execute and fetch are two calls: a page may come between the two and    *)
(* leave its own rows to be fetched by the handler.                        *)
(*                                                                         *)
(* The answer of the model is any of Plans, or no plan at all; prompts,    *)
(* rationales and confidences are left out.                                *)
(***************************************************************************)
EXTENDS Integers, Sequences

CONSTANTS Clients, Nobody,
          Symbols,
          Ids,           \* strategies a plan may name
          Strategies,    \* the registered ones
          Params, Values,
          Accepts,       \* [Strategies -> SUBSET Params]: the arguments of __init__
          Plans,         \* what the model may propose: sequences of recommendations
          None,
          MaxReviews, MaxPages, MaxCrashes   \* bounds

VARIABLES active,   \* strategy_symbol_config
          runs,     \* tuning_runs
          recs,     \* tuning_recommendations; a row's id is its place
          holder,   \* write_lock
          client,   \* each client's handler
          conn,     \* whose row the fetch a handler is about to make returns
          cut,      \* the ids a crash left between active and their status
          mistaken, \* the ids resolved in place of another or on its row
          unseen,   \* the ids merged without sight of the configuration in force
          pages, crashes

histories == <<cut, mistaken, unseen>>
vars == <<active, runs, recs, holder, client, conn, histories, pages, crashes>>

Actions == {"keep", "modify_params", "switch_strategy", "disable"}
ParamSets == UNION {[D -> Values] : D \in SUBSET Params}
NoParams == [p \in {} |-> 0]
Idle == [at |-> "idle", id |-> 0, row |-> 0, plan |-> <<>>]

\* The statement whose rows are fetched next: a recommendation, the configuration
\* of the symbol asked for, or a statement whose rows do not fit.
Rec(id) == [of |-> "recommendation", id |-> id]
OwnConfig == [of |-> "configuration", id |-> 0]
NoFit == [of |-> "other", id |-> 0]

Recommendation ==
  [symbol : Symbols, current : Ids, action : Actions, target : Ids \cup {None},
   params : ParamSets]

ASSUME NobodyAssumption == Nobody \notin Clients
ASSUME StrategiesAssumption == Strategies \subseteq Ids
ASSUME PlansAssumption == Plans \subseteq Seq(Recommendation)
ASSUME AcceptsAssumption == Accepts \in [Strategies -> SUBSET Params]
ASSUME BoundsAssumption == MaxReviews \in Nat /\ MaxPages \in Nat /\ MaxCrashes \in Nat

Init ==
  /\ active = [s \in Symbols |-> None]
  /\ runs = <<>> /\ recs = <<>>
  /\ holder = Nobody
  /\ client = [c \in Clients |-> Idle]
  /\ conn = NoFit
  /\ cut = {} /\ mistaken = {} /\ unseen = {}
  /\ pages = 0 /\ crashes = 0

-----------------------------------------------------------------------------
(* Plans                                                                   *)

\* filter_strategy_params: what the strategy's constructor accepts.
Filtered(strategy, params) ==
  [p \in DOMAIN params \cap Accepts[strategy] |-> params[p]]

\* dict.update
Updated(params, by) ==
  [p \in DOMAIN params \cup DOMAIN by |-> IF p \in DOMAIN by THEN by[p] ELSE params[p]]

\* _validate_action_shape
WellFormed(r) ==
  CASE r.action = "switch_strategy" -> r.target \in Strategies
    [] r.action = "modify_params" ->
         /\ r.params # NoParams
         /\ (IF r.target # None THEN r.target ELSE r.current) \in Strategies
    [] OTHER -> TRUE

\* effective_strategy_id: only a switch looks at the recommended strategy.
Effective(r) ==
  IF r.action = "switch_strategy" /\ r.target # None THEN r.target ELSE r.current

ChangesParams(r) == r.action \in {"modify_params", "switch_strategy"}

\* sanitise_plan, which makes each recommendation anew: parameters the strategy
\* does not take are dropped.
Sanitised(r) ==
  [r EXCEPT !.params = IF ChangesParams(r) THEN Filtered(Effective(r), r.params) ELSE NoParams]

\* get_strategy raises of an unregistered strategy, and so does a modification
\* that has nothing left to modify: one bad recommendation costs the whole plan.
Sound(r) ==
  /\ WellFormed(r)
  /\ ChangesParams(r) => Effective(r) \in Strategies /\ WellFormed(Sanitised(r))

\* LLMTuner.generate: the plan that comes of the model's answer, and the status.
Fallback(status) == [status |-> status, plan |-> <<>>]
Outcomes ==
  {Fallback("fallback_transport"), Fallback("fallback_unexpected"),
   Fallback("fallback_parse_error")}
    \cup {[status |-> "ok", plan |-> [i \in DOMAIN p |-> Sanitised(p[i])]] :
             p \in {q \in Plans : \A i \in DOMAIN q : Sound(q[i])}}

-----------------------------------------------------------------------------
(* What applying a recommendation makes of a symbol's configuration        *)

BaseParams(existing) == IF existing = None THEN NoParams ELSE existing.params

\* Mutant: whatever is applied switches the symbol on.
EnabledAlways(r, existing) == r.action # "disable"

EnabledBy(r, existing) ==
  CASE r.action = "keep" -> existing = None \/ existing.enabled
    [] r.action = "disable" -> FALSE
    [] OTHER -> TRUE

\* Mutant: the merged parameters are not filtered again.
NewParamsMerged(r, existing) ==
  IF ChangesParams(r) THEN Updated(BaseParams(existing), r.params) ELSE BaseParams(existing)

\* merged_params: the parameters in force now, whichever strategy they were for.
NewParams(r, existing) ==
  Filtered(Effective(r), IF ChangesParams(r) THEN Updated(BaseParams(existing), r.params)
                         ELSE BaseParams(existing))

\* apply_recommendation raises of an unregistered strategy, and of a modification
\* without parameters.
Applicable(r, existing) ==
  /\ Effective(r) \in Strategies
  /\ r.action = "modify_params" => NewParams(r, existing) # NoParams

Configured(id, r, existing) ==
  [strategy |-> Effective(r), params |-> NewParams(r, existing),
   enabled |-> EnabledBy(r, existing), source |-> id]

-----------------------------------------------------------------------------
(* Handlers                                                                *)

\* Mutant: the handlers do not wait for each other.
TakeAny(c) == client[c].at = "idle" /\ holder' = c

\* async with write_lock
Take(c) == client[c].at = "idle" /\ holder = Nobody /\ holder' = c

Release(c) ==
  /\ holder' = Nobody
  /\ client' = [client EXCEPT ![c] = Idle]

Goto(c, at) ==
  /\ client' = [client EXCEPT ![c].at = at]
  /\ UNCHANGED holder

\* POST /api/tuner/run: the performance is collected, the model asked.
Ask(c) ==
  /\ Len(runs) < MaxReviews
  /\ Take(c)
  /\ client' = [client EXCEPT ![c].at = "asking"]
  /\ UNCHANGED <<active, runs, recs, conn, histories, pages, crashes>>

\* The answer, an error or the timeout; record_run inserts the run ...
Answer(c) ==
  /\ client[c].at = "asking"
  /\ \E o \in Outcomes :
       /\ runs' = Append(runs, [status |-> o.status, count |-> Len(o.plan)])
       /\ IF o.plan = <<>> THEN Release(c)
          ELSE /\ client' = [client EXCEPT ![c].at = "storing", ![c].id = Len(runs) + 1,
                                           ![c].plan = o.plan]
               /\ UNCHANGED holder
  /\ UNCHANGED <<active, recs, conn, histories, pages, crashes>>

\* ... and _insert_recommendation its recommendations, one by one.
Store(c) ==
  /\ client[c].at = "storing"
  /\ LET r == Head(client[c].plan)
     IN  recs' = Append(recs, [run |-> client[c].id, symbol |-> r.symbol,
                               current |-> r.current, action |-> r.action,
                               target |-> r.target, params |-> r.params,
                               status |-> "pending"])
  /\ IF Len(client[c].plan) = 1 THEN Release(c)
     ELSE client' = [client EXCEPT ![c].plan = Tail(@)] /\ UNCHANGED holder
  /\ UNCHANGED <<active, runs, conn, histories, pages, crashes>>

\* POST /api/tuner/recommendations/{id}/apply or /reject: get_recommendation
\* executes its query ...
Resolve(c, what) ==
  /\ Take(c)
  /\ \E id \in DOMAIN recs :
       /\ client' = [client EXCEPT ![c].at = what, ![c].id = id]
       /\ conn' = Rec(id)
  /\ UNCHANGED <<active, runs, recs, histories, pages, crashes>>

\* A page executes a query of its own, from another thread: GET /tuner/{run_id}
\* lists recommendations, in the columns of get_recommendation; the rows of the
\* others have other columns, and one fetched to the end has no row left.
Page ==
  /\ pages < MaxPages
  /\ \E c \in Clients : client[c].at \in {"apply", "reject", "merge"}
  /\ conn' \in {Rec(id) : id \in DOMAIN recs} \cup {NoFit}
  /\ pages' = pages + 1
  /\ UNCHANGED <<active, runs, recs, holder, client, histories, crashes>>

\* ... and fetches a row, which must be pending.
PendingRow == conn.of = "recommendation" /\ recs[conn.id].status = "pending"

\* apply_recommendation: the row that was fetched is the one to apply, and
\* ActiveConfigStore.get executes its query ...
CheckApply(c) ==
  /\ client[c].at = "apply"
  /\ IF PendingRow
       THEN /\ client' = [client EXCEPT ![c].at = "merge", ![c].row = conn.id]
            /\ conn' = OwnConfig
            /\ UNCHANGED holder
       ELSE Release(c) /\ conn' = NoFit
  /\ UNCHANGED <<active, runs, recs, histories, pages, crashes>>

\* ... and fetches: with another's rows there it finds none, or raises.
\* The merge must succeed; ActiveConfigStore.upsert.
Upsert(c) ==
  /\ client[c].at = "merge"
  /\ LET id == client[c].row
         r == recs[id]
         own == conn = OwnConfig
         existing == IF own THEN active[r.symbol] ELSE None
     IN  \/ /\ Applicable(r, existing)
            /\ active' = [active EXCEPT ![r.symbol] = Configured(id, r, existing)]
            /\ mistaken' = IF id = client[c].id THEN mistaken ELSE mistaken \cup {id}
            /\ unseen' = IF own THEN unseen ELSE unseen \cup {id}
            /\ Goto(c, "applied")
         \/ /\ ~Applicable(r, existing) \/ ~own
            /\ Release(c)
            /\ UNCHANGED <<active, mistaken, unseen>>
  /\ conn' = NoFit
  /\ UNCHANGED <<runs, recs, cut, pages, crashes>>

\* reject_recommendation: the row that was fetched is the one looked at.
CheckReject(c) ==
  /\ client[c].at = "reject"
  /\ IF PendingRow
       THEN client' = [client EXCEPT ![c].at = "rejected", ![c].row = conn.id] /\ UNCHANGED holder
       ELSE Release(c)
  /\ conn' = NoFit
  /\ UNCHANGED <<active, runs, recs, histories, pages, crashes>>

\* set_recommendation_status, of the one that was asked for.
SetStatus(c) ==
  /\ client[c].at \in {"applied", "rejected"}
  /\ LET id == client[c].id
     IN  /\ recs' = [recs EXCEPT ![id].status = client[c].at]
         /\ mistaken' = IF id = client[c].row THEN mistaken ELSE mistaken \cup {id}
  /\ Release(c)
  /\ UNCHANGED <<active, runs, conn, cut, unseen, pages, crashes>>

\* The dashboard dies; what was executed is in the database.
Crash ==
  /\ crashes < MaxCrashes
  /\ crashes' = crashes + 1
  /\ holder' = Nobody
  /\ client' = [c \in Clients |-> Idle]
  /\ cut' = cut \cup {client[c].id : c \in {d \in Clients : client[d].at = "applied"}}
  /\ conn' = NoFit
  /\ UNCHANGED <<active, runs, recs, mistaken, unseen, pages>>

Next ==
  \/ \E c \in Clients :
       \/ Ask(c) \/ Answer(c) \/ Store(c)
       \/ Resolve(c, "apply") \/ CheckApply(c) \/ Upsert(c)
       \/ Resolve(c, "reject") \/ CheckReject(c) \/ SetStatus(c)
  \/ Page \/ Crash

Spec == Init /\ [][Next]_vars

-----------------------------------------------------------------------------
(* Properties                                                              *)

\* The rows of the three tables, and the locals of the handlers.
Config ==
  [strategy : Strategies, params : ParamSets, enabled : BOOLEAN, source : Nat]
Run == [status : {"ok", "fallback_transport", "fallback_unexpected", "fallback_parse_error"},
        count : Nat]
Row == [run : Nat, symbol : Symbols, current : Ids, action : Actions,
        target : Ids \cup {None}, params : ParamSets,
        status : {"pending", "applied", "rejected"}]
Handler ==
  [at : {"idle", "asking", "storing", "apply", "merge", "applied", "reject", "rejected"},
   id : Nat, row : Nat, plan : Seq(Recommendation)]
Statement == [of : {"recommendation", "configuration", "other"}, id : Nat]

TypeOK ==
  /\ active \in [Symbols -> Config \cup {None}]
  /\ runs \in Seq(Run) /\ recs \in Seq(Row)
  /\ holder \in Clients \cup {Nobody}
  /\ client \in [Clients -> Handler]
  /\ conn \in Statement
  /\ cut \subseteq Nat /\ mistaken \subseteq Nat /\ unseen \subseteq Nat
  /\ pages \in Nat /\ crashes \in Nat

Resolving(id) == \E c \in Clients : client[c].at = "applied" /\ client[c].id = id

\* apply_recommendation: a configuration in force comes of a recommendation for
\* its symbol that counts as applied, never of one that is still open or was
\* rejected - unless a crash fell between the two writes, or a page between a
\* handler's execute and its fetch made it take one recommendation for another.
OnlyAppliedInForce ==
  \A s \in Symbols :
    active[s] # None =>
      LET id == active[s].source
      IN  /\ recs[id].symbol = s
          /\ \/ recs[id].status = "applied" \/ Resolving(id)
             \/ id \in cut \cup mistaken

\* A constructor is never given an argument it does not take, whatever the order
\* in which recommendations for several strategies are applied.
ParamsAccepted ==
  \A s \in Symbols :
    active[s] # None => DOMAIN active[s].params \subseteq Accepts[active[s].strategy]

\* A symbol that was disabled is enabled again only by a recommendation that
\* changes its parameters or its strategy: "keep" keeps it disabled, unless a
\* page came between the execute and the fetch of the configuration in force.
DisabledStays ==
  [][\A s \in Symbols :
       active[s] # None /\ ~active[s].enabled /\ active'[s].enabled
         => LET id == active'[s].source IN ChangesParams(recs[id]) \/ id \in unseen']_vars
=============================================================================
