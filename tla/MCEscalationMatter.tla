-------------------------- MODULE MCEscalationMatter --------------------------
(* An instance of EscalationMatter for TLC: a systemic matter that is High *)
(* goes to a queue and is timed against a definition of its own; any other *)
(* is Medium.                                                              *)
EXTENDS EscalationMatter, TLC

CONSTANTS ann, pat, plain, systemic, normal, urgent

FitsUsed      == <<{systemic} \X {2}, Facts \X Severity>>
ResultingUsed == <<2, 1>>
ImposesUsed   == <<urgent, normal>>
QueueUsed     == <<{ann, pat}, {}>>
TargetUsed    == normal :> 1 @@ urgent :> 0
=============================================================================
