--------------------------- MODULE ApprovalRecord ---------------------------
(***************************************************************************)
(* What the Approval Decision rows of a subject promise whoever reads them *)
(* as evidence (approvals.py), be it a forum's formation, a governing      *)
(* document or an accepted risk: a step is answered after it was asked for *)
(* and by one person, the answer stands, and a step is closed without one  *)
(* only by the objection that ended its chain.                             *)
(***************************************************************************)
CONSTANTS
  Rows,     \* the steps that may be asked for
  Users,    \* those who may answer
  Nobody

VARIABLE answer   \* what each row says

NotAsked == [outcome |-> "not asked", by |-> Nobody]
Waiting  == [outcome |-> "waiting", by |-> Nobody]
Lapsed   == [outcome |-> "Abstained", by |-> Nobody]

Given == [outcome: {"Approved", "Rejected", "Abstained", "Bypassed"}, by: Users]

Init == answer = [r \in Rows |-> NotAsked]

Ask(R) ==
  /\ \A r \in R : answer[r] = NotAsked
  /\ answer' = [r \in Rows |-> IF r \in R THEN Waiting ELSE answer[r]]

Give(r, a) ==
  /\ answer[r] = Waiting
  /\ answer' = [answer EXCEPT ![r] = a]

Object(r, u, R) ==
  /\ \A q \in R \cup {r} : answer[q] = Waiting
  /\ answer' = [q \in Rows |-> IF q = r THEN [outcome |-> "Rejected", by |-> u]
                               ELSE IF q \in R THEN Lapsed ELSE answer[q]]

Next ==
  \/ \E R \in SUBSET Rows : Ask(R)
  \/ \E r \in Rows, a \in Given : Give(r, a)
  \/ \E r \in Rows, u \in Users, R \in SUBSET Rows : Object(r, u, R)

Spec == Init /\ [][Next]_answer
=============================================================================
