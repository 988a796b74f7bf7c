----------------------------- MODULE MCFormation -----------------------------
(* An instance of Formation for TLC: two steps in sequence, the second in  *)
(* the queue of a role one of the heads holds, and a third beside them     *)
(* that only the route for a material change asks for.                     *)
EXTENDS Formation, TLC

CONSTANTS ann, hal, hob, sponsor, review, extra, dispute

RowsUsed       == {sponsor, review, extra, dispute}
PlaceUsed      == [r \in RowsUsed |-> CASE r = sponsor -> 1 [] r = review -> 2
                                        [] r = extra -> 1 [] OTHER -> 99]
SequentialUsed == {sponsor, review}
CycleUsed      == [r \in RowsUsed |-> 0]
DelegableUsed  == {<<ann, hob>>}
AssigneeUsed   == [r \in RowsUsed \ {dispute} |-> IF r = review THEN hal ELSE ann]
QueueUsed      == [r \in RowsUsed \ {dispute} |-> IF r = review THEN {hal, ann} ELSE {}]

RoutesUsed     == {1, 2, 3}
RouteStepsUsed == [r \in RoutesUsed |-> CASE r = 1 -> {sponsor, extra}
                                          [] r = 2 -> {sponsor, review}
                                          [] r = 3 -> {review}]
Says(t, m)     == [request_type |-> t, forum_type |-> RouteAny, change_materiality |-> m]
NarrowsUsed    == [r \in RoutesUsed |-> CASE r = 1 -> Says(RouteAny, "Material")
                                          [] r = 2 -> Says(RouteAny, RouteAny)
                                          [] r = 3 -> Says("Modify", RouteAny)]
FactsUsed      == {[request_type |-> "Create", forum_type |-> "board", change_materiality |-> "blank"],
                   [request_type |-> "Modify", forum_type |-> "board", change_materiality |-> "Material"],
                   [request_type |-> "Modify", forum_type |-> "board", change_materiality |-> "blank"]}
=============================================================================
