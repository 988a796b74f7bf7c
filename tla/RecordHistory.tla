---------------------------- MODULE RecordHistory ----------------------------
(***************************************************************************)
(* What a record's version chain promises (versioning.py: "The chain       *)
(* therefore always reads forward, and 'what did this record say on a      *)
(* given date' has exactly one answer"): every change of what the record   *)
(* says appends one version that says it, and nothing else touches the     *)
(* history.  A record older than revision tracking has no history; its     *)
(* first save writes what it said before as well.                          *)
(***************************************************************************)
EXTENDS Naturals, Sequences

CONSTANT Says       \* what a record can say

VARIABLES
  record,           \* what the record says now
  said              \* what its versions say, oldest first

Init ==
  /\ record \in Says
  /\ said \in {<<>>, <<record>>}

Change(s) ==
  /\ s # record
  /\ record' = s
  /\ said' = IF said = <<>> THEN <<record, s>> ELSE Append(said, s)

BeginTracking ==
  /\ said = <<>>
  /\ said' = <<record>>
  /\ UNCHANGED record

Next == BeginTracking \/ \E s \in Says : Change(s)

Spec == Init /\ [][Next]_<<record, said>>
=============================================================================
