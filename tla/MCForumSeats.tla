---------------------------- MODULE MCForumSeats ----------------------------
(* Instances of ForumSeats for TLC.                                        *)
EXTENDS ForumSeats, TLC

CONSTANTS ann, bob, sponsor, authority, p1, p2

RolesUsed  == {"chair", "owner"}
ChairsUsed == {"chair"}
FieldUsed  == [r \in RolesUsed |-> IF r = "chair" THEN "committee_chair" ELSE "forum_owner"]
CapUsed    == [r \in RolesUsed |-> IF r = "owner" THEN 2 ELSE 0]
FieldsUsed == {"committee_chair", "forum_owner"}

(* Every range of days but 0 to 1, which closing a seat on day 1 leaves;   *)
(* the second role is held by people only.                                 *)
SeatFormsUsed ==
  { r \in SeatRow : /\ r.role = "chair" \/ r.member # Vacant
                    /\ <<r.start, r.end>> # <<0, 1>> }

(* A plan is added, is stripped to one approver, or taken elsewhere.       *)
FormsUsed ==
  [of: {"this"}, effective: {Never}, asked: {{}, {sponsor}, {authority}}]
    \cup [of: {"other"}, effective: {Never}, asked: {{}}]

Symmetry == Permutations(Members) \cup Permutations(Approvers)
=============================================================================
