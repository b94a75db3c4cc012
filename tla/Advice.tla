------------------------------- MODULE Advice -------------------------------
(***************************************************************************)
(* What dashboard/services/run_tuner.py makes of a language model's answer *)
(* about one run or one sweep: recommendations of parameters for           *)
(* strategies.                                                             *)
(*                                                                         *)
(* Numbers are in halves, so that rounding to an integer can be seen; NaN  *)
(* is what JSON and pydantic let through.                                  *)
(***************************************************************************)
EXTENDS Integers, Sequences

CONSTANTS Schemas,      \* STRATEGY_SCHEMAS: [id -> [param -> [min, max, int]]]
          Proposals,    \* lists of recommendations an answer may hold
          NaN,
          MaxItems      \* MAX_RECOMMENDATIONS

\* A strategy's declared parameter; an integer's bounds are integers.
ParamSpec == [min : Int, max : Int, int : BOOLEAN]
ASSUME SchemasAssumption ==
  \A id \in DOMAIN Schemas : \A p \in DOMAIN Schemas[id] :
    LET spec == Schemas[id][p]
    IN  /\ spec \in ParamSpec /\ spec.min <= spec.max
        /\ spec.int => spec.min % 2 = 0 /\ spec.max % 2 = 0

ASSUME ProposalsAssumption ==
  /\ MaxItems \in Nat
  /\ NaN \notin Int
  /\ \A recs \in Proposals :
       /\ DOMAIN recs = 1 .. Len(recs) /\ Len(recs) \in Nat
       /\ \A i \in DOMAIN recs :
            /\ {"strategy", "params"} \subseteq DOMAIN recs[i]
            /\ \A p \in DOMAIN recs[i].params : recs[i].params[p] \in Int \cup {NaN}

\* round() of a number of halves: to the nearest integer, a tie to the even one.
Rounded(x) == IF x % 2 = 0 THEN x ELSE IF (x + 1) % 4 = 0 THEN x + 1 ELSE x - 1

\* Mutant: the bounds are the other way round for NaN: min(x, max).
BoundedNaN(spec, x) ==
  IF x = NaN THEN NaN ELSE IF x < spec.min THEN spec.min ELSE IF x > spec.max THEN spec.max ELSE x

\* max(min, min(max, x)): a NaN is not below max, so that max it is.
Bounded(spec, x) ==
  LET high == IF x # NaN /\ x < spec.max THEN x ELSE spec.max
  IN  IF high > spec.min THEN high ELSE spec.min

\* _filter_and_clamp_params
Clamped(params, schema) ==
  [p \in DOMAIN params \cap DOMAIN schema |->
     LET x == Bounded(schema[p], params[p]) IN IF schema[p].int THEN Rounded(x) ELSE x]

\* _sanitise_recommendations: the list is cut before anything is dropped.  What
\* is kept keeps its place, so that what is dropped leaves a gap.
Sanitise(recs) ==
  LET known == {i \in DOMAIN recs : i <= MaxItems /\ recs[i].strategy \in DOMAIN Schemas}
      clean == [i \in known |-> Clamped(recs[i].params, Schemas[recs[i].strategy])]
  IN  [i \in {j \in known : DOMAIN clean[j] # {}} |-> [recs[i] EXCEPT !.params = clean[i]]]

\* _call_and_persist: the plan of the answer, or an empty one and the reason.
Advised ==
  {[status |-> "ok", recs |-> Sanitise(p)] : p \in Proposals}
    \cup [status : {"fallback_transport", "fallback_unexpected", "fallback_parse_error"},
          recs : {<<>>}]
=============================================================================
