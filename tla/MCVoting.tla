------------------------------- MODULE MCVoting -------------------------------
(* An instance of Voting for TLC: seats each of which is held with a       *)
(* delegate in place or else vacant and closed on the decision date.       *)
EXTENDS Voting, TLC

CONSTANTS ann, bob, s1, s2, b1, b2

StandsUsed ==
  { [held |-> TRUE, member |-> ann, delegate |-> bob],
    [held |-> FALSE, member |-> NoOne, delegate |-> NoOne] }

(* A majority of the counting seats, and one at least.                     *)
RequiredUsed == [n \in 0..Cardinality(Seats) |-> IF n < 2 THEN 1 ELSE n \div 2 + 1]

(* The ballots a secretary types: entered, moved, given another weight.    *)
FormsUsed ==
  [of: {"this"}, position: Castable, seat: Seats, as: {"Member"}, weight: {2}]
    \cup [of: {"other"}, position: Castable]

Symmetry == Permutations(Seats) \cup Permutations(Rows) \cup Permutations({For, Against})
=============================================================================
