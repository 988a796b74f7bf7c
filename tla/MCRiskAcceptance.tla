--------------------------- MODULE MCRiskAcceptance ---------------------------
(* An instance of RiskAcceptance for TLC: a matrix by which every matter   *)
(* has the lower of two severities unless a person says otherwise; no      *)
(* clock, as those have an instance of their own (MCEscalationMatter); a   *)
(* chain of two peers when the severity is the higher one.                 *)
EXTENDS RiskAcceptance, TLC

CONSTANTS ann, pat, zoe, head, peer, plain

FitsUsed      == <<Facts \X Severity>>
ResultingUsed == <<0>>
ImposesUsed   == <<NoDefinition>>
QueueUsed     == <<{}>>
TargetUsed    == [d \in {} |-> 0]
ChainUsed     == [v \in Severity |-> IF v = Top THEN {head, peer} ELSE {head}]
NamedUsed     == head :> pat @@ peer :> zoe
RowsUsed      == Steps \X (1..MaxCycle)
PlaceUsed     == [r \in RowsUsed |-> 1]
CycleUsed     == [r \in RowsUsed |-> 0]
DelegableUsed == {<<pat, zoe>>}
=============================================================================
