------------------------ MODULE MCDisposalConcurrent ------------------------
(* Instances of DisposalConcurrent for TLC.                                *)
EXTENDS DisposalConcurrent, TLC

CONSTANTS r1, r2, h1, ann, bob, e1, e2, e3, t1, t2

PeriodZero == [r \in Records |-> 0]
CoversAll  == [h \in Holds |-> Records]

(* What a person types: an approval of their own disposal.                *)
TypedApproval ==
  {[of |-> r, status |-> "Approved", decision |-> "Dispose", until |-> Never, approved_by |-> m] :
     r \in Records, m \in Managers}

Symmetry == Permutations(Managers) \cup Permutations(Events) \cup Permutations(Requests)
=============================================================================
