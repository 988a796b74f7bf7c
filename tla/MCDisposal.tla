----------------------------- MODULE MCDisposal -----------------------------
(* Instances of Disposal for TLC, with mutated forms of its definitions.   *)
EXTENDS Disposal, TLC

CONSTANTS r1, r2, h1, h2, ann, bob, e1, e2, e3

PeriodOne  == [r \in Records |-> 1]
PeriodZero == [r \in Records |-> 0]
CoversAll  == [h \in Holds |-> Records]

(* What a person types: an approval of their own disposal, of any record;  *)
(* a row taken back to the start; a retention, with its approver.          *)
FormRow(r, s, d, u, m) == [of |-> r, status |-> s, decision |-> d, until |-> u, approved_by |-> m]

TypedApproval  == {FormRow(r, "Approved", "Dispose", Never, m) : r \in Records, m \in Managers}
TypedRestart   == {FormRow(r, "Scheduled", "None", Never, NoOne) : r \in Records}
TypedRetention == {FormRow(r, "Retained", "Retain", 1, m) : r \in Records, m \in Managers}

ApprovalOrRestart == TypedApproval \cup TypedRestart

Symmetry == Permutations(Managers) \cup Permutations(Events) \cup Permutations(Holds)
=============================================================================
