-------------------------- MODULE MCPolicyLifecycle --------------------------
(* Instances of PolicyLifecycle for TLC: one step that goes to a queue,    *)
(* and a route for minor changes that does without it.                     *)
EXTENDS PolicyLifecycle, TLC

CONSTANTS ann, pat, board, e1

StepsUsed      == {board}
VersionsUsed   == 1..MaxVersion
RowsUsed       == StepsUsed \X VersionsUsed
PlaceUsed      == [r \in RowsUsed |-> 1]
CycleUsed      == [r \in RowsUsed |-> r[2]]
DelegableUsed  == {<<ann, pat>>}
AssigneeUsed   == [s \in StepsUsed |-> ann]
QueueUsed      == [s \in StepsUsed |-> {pat}]
RoutesUsed     == {1, 2}
RouteStepsUsed == [r \in RoutesUsed |-> IF r = 1 THEN {board} ELSE {}]
PriorityUsed   == [r \in RoutesUsed |-> 1]
NarrowsUsed    == [r \in RoutesUsed |-> IF r = 1 THEN Kinds ELSE Kinds \cap {"minor"}]
NamedByUsed    == [r \in RoutesUsed |-> r - 1]
=============================================================================
