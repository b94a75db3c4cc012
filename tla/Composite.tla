------------------------------ MODULE Composite ------------------------------
(***************************************************************************)
(* The composite strategy of dashboard/services/composite.py: the first    *)
(* signals of the children at a bar, fused into one.                       *)
(*                                                                         *)
(* A vote is a signal core/signal.py accepts, or Abstains.  Prices come in *)
(* a unit fine enough for the means of as many prices as there are         *)
(* children.  Reasons, snapshots and the mean confidence are left out.     *)
(***************************************************************************)
EXTENDS Integers, Sequences, FiniteSets, FiniteSetsExt

CONSTANTS Ballots,   \* sequences of one vote for each child
          Abstains

Directions == {"unanimous", "majority", "any"}
Prices == {"tightest", "widest", "average"}

\* Mutant: an aggregated signal is not checked again.
DirectionConsistentNot(side, entry, stop, target) == TRUE

\* _direction_consistent, and validate_direction of core/signal.py.
DirectionConsistent(side, entry, stop, target) ==
  /\ entry > 0 /\ stop > 0 /\ target > 0
  /\ IF side = "BUY" THEN stop < entry /\ entry < target
     ELSE target < entry /\ entry < stop

Vote == [side : {"BUY", "SELL"}, entry : Nat, stop : Nat, target : Nat, confidence : Nat]

ASSUME BallotsAssumption ==
  \A b \in Ballots :
    /\ b \in Seq(Vote \cup {Abstains}) /\ Len(b) >= 2
    /\ \A i \in DOMAIN b : b[i] # Abstains =>
         DirectionConsistent(b[i].side, b[i].entry, b[i].stop, b[i].target)

VotersFor(ballot, side) == {i \in DOMAIN ballot : ballot[i] # Abstains /\ ballot[i].side = side}

\* resolve_direction, as sets: the sides that win.
Wins(ballot, side, direction) ==
  LET for == Cardinality(VotersFor(ballot, side))
      against == Cardinality(VotersFor(ballot, IF side = "BUY" THEN "SELL" ELSE "BUY"))
  IN  /\ against = 0
      /\ direction = "unanimous" => for = Len(ballot)
      /\ direction = "majority" => for > against
      /\ direction = "any" => for >= 1

\* The first of the winners with the highest confidence.
Anchor(ballot, winners) ==
  Min({i \in winners : \A j \in winners : ballot[j].confidence <= ballot[i].confidence})

Average(ballot, winners, level) ==
  MapThenSumSet(LAMBDA i : ballot[i][level], winners) \div Cardinality(winners)

\* aggregate_stop and aggregate_target: a long's stop and a short's target are
\* below the entry, where the tightest is the highest.
Aggregate(ballot, winners, level, below, price) ==
  LET levels == {ballot[i][level] : i \in winners}
  IN  CASE price = "average" -> Average(ballot, winners, level)
        [] price = "tightest" -> IF below THEN Max(levels) ELSE Min(levels)
        [] price = "widest" -> IF below THEN Min(levels) ELSE Max(levels)

\* CompositeStrategy.on_bar: at most one signal.
OnBar(ballot, direction, price) ==
  LET sides == {s \in {"BUY", "SELL"} : Wins(ballot, s, direction)}
  IN  IF sides = {} THEN Abstains
      ELSE LET side == CHOOSE s \in sides : TRUE
               winners == VotersFor(ballot, side)
               anchor == ballot[Anchor(ballot, winners)]
               stop == Aggregate(ballot, winners, "stop", side = "BUY", price)
               target == Aggregate(ballot, winners, "target", side = "SELL", price)
           IN  IF DirectionConsistent(side, anchor.entry, stop, target)
                 THEN [side |-> side, entry |-> anchor.entry, stop |-> stop, target |-> target]
                 ELSE Abstains
=============================================================================
