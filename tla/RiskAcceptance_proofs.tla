------------------------ MODULE RiskAcceptance_proofs ------------------------
(***************************************************************************)
(* Theorems about RiskAcceptance and about the EscalationMatter it         *)
(* extends, for any matrix of rules, clocks, approval routes, people,      *)
(* delegations and number of requests: the matter is timed once and raised *)
(* by its breaches, an acceptance in effect carries every approval its     *)
(* latest request asked for, an objection ends the chain it is made in,    *)
(* the steps of a request are decided in order, their rows implement       *)
(* ApprovalRecord, and the composition is a matter behaving as it does     *)
(* alone.                                                                  *)
(*                                                                         *)
(* None is inductive alone.  An acceptance may be approved, withdrawn,     *)
(* edited and asked for again: what is carried through is that an approval *)
(* on the latest request is by somebody independent whatever the status,   *)
(* and that no request was ever made over another's open step.  Of the     *)
(* matter it is that no clock runs beside one that breached, and that the  *)
(* breach counted last is one of those there were; the sweep that records  *)
(* several breaches in a row is a recursive function, about which nothing  *)
(* can be said until one is shown to exist (Recursion).                    *)
(***************************************************************************)
EXTENDS RiskAcceptance, FiniteSetTheorems, NaturalsInduction, WellFoundedInduction, TLAPS

(* The rows are typed and belong to requests that were made.               *)
RowsOK ==
  /\ decision \in [Rows -> Decision]
  /\ acceptance \in Acceptance
  /\ \A r \in Rows : Raised(r) => r[2] <= acceptance.cycle /\ decision[r].assigned \in Users
  /\ acceptance.status = Unproposed => \A r \in Rows : ~Raised(r)

Involved == {Raiser, acceptance.author, acceptance.asker}

IndependentApprovals ==
  \A r \in Current :
    decision[r].outcome = "Approved" => r \in independent /\ decision[r].by \notin Involved

IInv == RowsOK /\ IndependentApprovals /\ ApprovedByAll /\ ObjectionEndsTheChain

-----------------------------------------------------------------------------
(* Rows are pairs of a step and the number of a request.                   *)
LEMMA RowPairs ==
  /\ MaxCycle \in Nat
  /\ \A r \in Rows : r[1] \in Steps /\ r[2] \in 1..MaxCycle
BY ChainAssumption DEF Cycles

LEMMA Untouched ==
  ASSUME IInv, UNCHANGED <<acceptance, decision, independent>>
  PROVE  IInv'
BY DEF IInv, RowsOK, Raised, IndependentApprovals, Current, Involved, ApprovedByAll,
       ObjectionEndsTheChain, Outstanding, IsOpen

LEMMA ProposeStep ==
  ASSUME IInv, NEW u \in Users, Propose(u)
  PROVE  IInv'
<1>1. /\ decision' = decision /\ acceptance.status = Unproposed
      /\ acceptance' = [acceptance EXCEPT !.status = "Draft", !.author = u]
  BY DEF Propose
<1>2. \A r \in Rows : ~Raised(r)
  BY <1>1 DEF IInv, RowsOK
<1>3. acceptance' \in Acceptance /\ acceptance'.cycle = acceptance.cycle /\ acceptance'.status = "Draft"
  BY <1>1 DEF IInv, RowsOK, Acceptance, AcceptanceStatus
<1>4. RowsOK'
  BY <1>1, <1>2, <1>3 DEF IInv, RowsOK, Raised, Unproposed
<1>5. Current' = {} /\ Outstanding' = {}
  BY <1>1, <1>2 DEF Current, Outstanding, Raised, IsOpen, OpenOutcome, NotRaised
<1> QED
  BY <1>3, <1>4, <1>5 DEF IInv, IndependentApprovals, ApprovedByAll, ObjectionEndsTheChain

LEMMA RequestStep ==
  ASSUME IInv, NEW u \in Users, RequestApproval(u)
  PROVE  IInv'
<1> DEFINE c == acceptance.cycle
<1>1. /\ acceptance' = [acceptance EXCEPT !.status = "Pending Approval", !.asker = u, !.cycle = @ + 1]
      /\ Waiting = {} /\ c < MaxCycle /\ c \in 0..MaxCycle /\ acceptance \in Acceptance
  BY DEF RequestApproval, IInv, RowsOK, Acceptance
<1>2. acceptance'.cycle = c + 1 /\ acceptance'.status = "Pending Approval"
  BY <1>1 DEF Acceptance
<1>3. c + 1 \in 0..MaxCycle /\ c \in Nat
  BY <1>1, RowPairs
<1>4. acceptance' \in Acceptance
  BY <1>1, <1>3 DEF Acceptance, AcceptanceStatus
<1>5. PICK who \in Assignments(u) :
        decision' = [r \in Rows |-> IF r[2] = acceptance'.cycle /\ r[1] \in DOMAIN who
                                    THEN RaisedFor(who[r[1]]) ELSE decision[r]]
  BY DEF RequestApproval
<1>6. \A s \in DOMAIN who : who[s] \in Users
  BY DEF Assignments
<1>7. \A r \in Rows : \/ decision'[r] = decision[r] /\ (r[2] = c + 1 => ~Raised(r))
                      \/ /\ r[2] = c + 1
                         /\ \E a \in Users : decision'[r] = RaisedFor(a)
  <2> SUFFICES ASSUME NEW r \in Rows
               PROVE  \/ decision'[r] = decision[r] /\ (r[2] = c + 1 => ~Raised(r))
                      \/ /\ r[2] = c + 1
                         /\ \E a \in Users : decision'[r] = RaisedFor(a)
    OBVIOUS
  <2>1. Raised(r) => r[2] <= c
    BY DEF IInv, RowsOK
  <2>2. r[2] = c + 1 => ~Raised(r)
    BY <1>3, <2>1
  <2>3. CASE r[2] = c + 1 /\ r[1] \in DOMAIN who
    BY <1>2, <1>5, <1>6, <2>3
  <2>4. CASE ~(r[2] = c + 1 /\ r[1] \in DOMAIN who)
    BY <1>2, <1>5, <2>2, <2>4
  <2> QED
    BY <2>3, <2>4
<1>8. \A a \in Users : RaisedFor(a) \in Decision
  BY DEF RaisedFor, Decision, Outcome
<1>9. decision' \in [Rows -> Decision]
  <2>1. \A r \in Rows : decision'[r] \in Decision
    BY <1>7, <1>8 DEF IInv, RowsOK
  <2> QED
    BY <1>5, <2>1
<1> HIDE DEF c
<1>10. \A r \in Rows : Raised(r)' => r[2] <= c + 1 /\ decision'[r].assigned \in Users
  <2> SUFFICES ASSUME NEW r \in Rows, Raised(r)'
               PROVE  r[2] <= c + 1 /\ decision'[r].assigned \in Users
    OBVIOUS
  <2>1. CASE decision'[r] = decision[r]
    <3>1. Raised(r)
      BY <2>1 DEF Raised
    <3>2. r[2] <= c /\ decision[r].assigned \in Users
      BY <3>1 DEF IInv, RowsOK, c
    <3>3. r[2] \in Nat
      BY RowPairs
    <3> QED
      BY <1>3, <2>1, <3>2, <3>3
  <2>2. CASE r[2] = c + 1 /\ \E a \in Users : decision'[r] = RaisedFor(a)
    BY <1>3, <2>2 DEF RaisedFor
  <2> QED
    BY <1>7, <2>1, <2>2
<1>11. RowsOK'
  BY <1>2, <1>4, <1>9, <1>10 DEF RowsOK, Unproposed, c
<1>12. \A r \in Rows : r[2] = c + 1 => decision'[r].outcome \in {NotRaised, "Pending"}
  <2> SUFFICES ASSUME NEW r \in Rows, r[2] = c + 1
               PROVE  decision'[r].outcome \in {NotRaised, "Pending"}
    OBVIOUS
  <2>1. CASE decision'[r] = decision[r] /\ ~Raised(r)
    BY <2>1 DEF Raised
  <2>2. CASE \E a \in Users : decision'[r] = RaisedFor(a)
    BY <2>2 DEF RaisedFor
  <2> QED
    BY <1>7, <2>1, <2>2
<1>13. Outstanding = {}
  <2>1. \A r \in Outstanding : r \in Current
    BY DEF IInv, ObjectionEndsTheChain, Current, Outstanding, IsOpen, OpenOutcome, Raised, NotRaised
  <2> QED
    BY <1>1, <2>1 DEF Waiting
<1>14. \A r \in Outstanding' : r[2] = c + 1
  BY <1>7, <1>13 DEF Outstanding, IsOpen
<1>15. IndependentApprovals'
  BY <1>2, <1>12 DEF IndependentApprovals, Current, NotRaised, c
<1>16. ApprovedByAll'
  BY <1>2 DEF ApprovedByAll
<1>17. ObjectionEndsTheChain'
  BY <1>2, <1>12, <1>14 DEF ObjectionEndsTheChain, NotRaised, c
<1> QED
  BY <1>11, <1>15, <1>16, <1>17 DEF IInv

LEMMA DecideStep ==
  ASSUME IInv, NEW u \in Users, NEW d \in Rows, NEW o \in {"Approved", "Rejected"}, Decide(u, d, o)
  PROVE  IInv'
<1> DEFINE x == [outcome |-> o, assigned |-> decision[d].assigned, by |-> u]
           rows == [decision EXCEPT ![d] = x]
<1>1. /\ d \in Waiting /\ u \notin Conflicted(acceptance.asker)
      /\ decision' = Settled(rows)
      /\ acceptance' = [acceptance EXCEPT !.status = StatusAfter(rows),
                                          !.signed = ~Objects(rows) /\ Complete(rows)]
  BY DEF Decide, Recorded
<1>2. d \in Current /\ IsOpen(d) /\ Raised(d)
  BY <1>1 DEF Waiting, Outstanding, Current
<1>3. decision[d].assigned \in Users
  BY <1>2 DEF IInv, RowsOK
<1>4. x \in Decision /\ x.outcome = o /\ x.by = u
  BY <1>3 DEF Decision, Outcome
<1>5. /\ rows \in [Rows -> Decision] /\ rows[d] = x
      /\ \A r \in Rows : r # d => rows[r] = decision[r]
  BY <1>4 DEF IInv, RowsOK
<1>6. acceptance.status \in AcceptanceStatus
  BY <1>2 DEF IInv, RowsOK, Acceptance, Current
<1>7. StatusAfter(rows) \in AcceptanceStatus
  BY <1>6 DEF StatusAfter, AcceptanceStatus
<1>8. /\ acceptance' \in Acceptance /\ acceptance'.status = StatusAfter(rows)
      /\ acceptance'.cycle = acceptance.cycle /\ acceptance'.author = acceptance.author
      /\ acceptance'.asker = acceptance.asker /\ acceptance'.motion = acceptance.motion
  <2>1. (~Objects(rows) /\ Complete(rows)) \in BOOLEAN
    BY DEF Objects, Complete
  <2> QED
    BY <1>1, <1>7, <2>1 DEF IInv, RowsOK, Acceptance
<1> HIDE DEF x, rows
<1>9. /\ decision' \in [Rows -> Decision]
      /\ \A r \in Rows : /\ decision'[r].assigned = rows[r].assigned /\ decision'[r].by = rows[r].by
                         /\ \/ decision'[r] = rows[r]
                            \/ Objects(rows) /\ decision'[r].outcome = "Abstained" /\ r \in Waiting
  <2>1. CASE Objects(rows)
    <3>1. decision' = [r \in Rows |-> IF Unreached(r) /\ rows[r].outcome \in OpenOutcome
                                      THEN [rows[r] EXCEPT !.outcome = "Abstained"] ELSE rows[r]]
      BY <1>1, <2>1 DEF Settled
    <3>2. \A r \in Rows : [rows[r] EXCEPT !.outcome = "Abstained"] \in Decision
      BY <1>5 DEF Decision, Outcome
    <3> QED
      BY <1>5, <2>1, <3>1, <3>2 DEF Unreached, Decision
  <2>2. CASE ~Objects(rows)
    BY <1>1, <1>5, <2>2 DEF Settled
  <2> QED
    BY <2>1, <2>2
<1>10. \A r \in Rows : Raised(r)' <=> Raised(r)
  <2> SUFFICES ASSUME NEW r \in Rows PROVE Raised(r)' <=> Raised(r)
    OBVIOUS
  <2>1. CASE r \in Waiting /\ decision'[r].outcome = "Abstained"
    BY <2>1 DEF Waiting, Current, Raised, NotRaised
  <2>2. CASE decision'[r] = rows[r]
    BY <1>2, <1>4, <1>5, <2>2 DEF Raised, NotRaised
  <2> QED
    BY <1>9, <2>1, <2>2
<1>11. Current' = Current
  BY <1>8, <1>10 DEF Current
<1>12. RowsOK'
  <2>1. \A r \in Rows : Raised(r)' => r[2] <= acceptance'.cycle /\ decision'[r].assigned \in Users
    <3>1. \A r \in Rows : rows[r].assigned = decision[r].assigned
      BY <1>5 DEF x
    <3> QED
      BY <1>8, <1>9, <1>10, <3>1 DEF IInv, RowsOK
  <2>2. acceptance'.status # Unproposed
    BY <1>7, <1>8 DEF AcceptanceStatus, Unproposed
  <2> QED
    BY <1>8, <1>9, <2>1, <2>2 DEF RowsOK
<1>13. \A r \in Current : decision'[r].outcome = "Approved" =>
                            r \in independent' /\ decision'[r].by \notin Involved'
  <2> SUFFICES ASSUME NEW r \in Current, decision'[r].outcome = "Approved"
               PROVE  r \in independent' /\ decision'[r].by \notin Involved
    BY <1>8 DEF Involved
  <2>0. independent' = independent \cup {d}
    BY <1>1 DEF Decide, Conflicted
  <2>1. r \in Rows /\ decision'[r] = rows[r]
    BY <1>9 DEF Current
  <2>2. CASE r = d
    BY <1>1, <1>4, <1>5, <2>0, <2>1, <2>2 DEF Conflicted, Answering, Involved
  <2>3. CASE r # d
    BY <1>5, <2>0, <2>1, <2>3 DEF IInv, IndependentApprovals
  <2> QED
    BY <2>2, <2>3
<1>14. IndependentApprovals'
  BY <1>11, <1>13 DEF IndependentApprovals
<1>15. ApprovedByAll'
  <2> SUFFICES ASSUME acceptance'.status = "Approved", ~acceptance'.motion
               PROVE  /\ Current # {}
                      /\ \A r \in Current : /\ decision'[r].outcome = "Approved"
                                            /\ r \in independent'
                                            /\ decision'[r].by \notin Involved'
    BY <1>11 DEF ApprovedByAll, Involved
  <2>1. ~Objects(rows)
    BY <1>8 DEF StatusAfter
  <2>2. acceptance.status # "Approved"
    BY <1>2, <1>8 DEF IInv, ApprovedByAll, IsOpen, OpenOutcome
  <2>3. Complete(rows)
    BY <1>8, <2>1, <2>2 DEF StatusAfter
  <2>4. decision' = rows
    BY <1>1, <2>1 DEF Settled
  <2> QED
    BY <1>13, <2>3, <2>4 DEF Complete
<1>16. Outstanding \subseteq Waiting
  BY DEF IInv, ObjectionEndsTheChain, Waiting, Current, Outstanding, IsOpen, OpenOutcome, Raised, NotRaised
<1>17. \A r \in Outstanding' : r \in Outstanding /\ ~Objects(rows)
  <2> SUFFICES ASSUME NEW r \in Rows, IsOpen(r)' PROVE IsOpen(r) /\ ~Objects(rows)
    BY DEF Outstanding
  <2>1. decision'[r] = rows[r]
    BY <1>9 DEF IsOpen, OpenOutcome
  <2>2. r # d
    BY <1>4, <1>5, <2>1 DEF IsOpen, OpenOutcome
  <2>3. IsOpen(r)
    BY <1>5, <2>1, <2>2 DEF IsOpen
  <2>4. r \in Waiting
    BY <1>16, <2>3 DEF Outstanding
  <2>5. ASSUME Objects(rows) PROVE FALSE
    <3>1. decision' = [q \in Rows |-> IF Unreached(q) /\ rows[q].outcome \in OpenOutcome
                                      THEN [rows[q] EXCEPT !.outcome = "Abstained"] ELSE rows[q]]
      BY <1>1, <2>5 DEF Settled
    <3>2. rows[r].outcome \in OpenOutcome
      BY <2>1 DEF IsOpen
    <3>3. decision'[r] = [rows[r] EXCEPT !.outcome = "Abstained"]
      BY <2>4, <3>1, <3>2 DEF Unreached
    <3>4. rows[r] \in Decision
      BY <1>5
    <3> QED
      BY <3>3, <3>4 DEF IsOpen, OpenOutcome, Decision
  <2> QED
    BY <2>3, <2>5
<1>18. ObjectionEndsTheChain'
  <2> SUFFICES ASSUME NEW r \in Outstanding'
               PROVE  /\ r[2] = acceptance'.cycle
                      /\ \A q \in Rows : q[2] = r[2] => decision'[q].outcome # "Rejected"
    BY DEF ObjectionEndsTheChain
  <2>1. r \in Outstanding /\ ~Objects(rows)
    BY <1>17
  <2>2. r[2] = acceptance.cycle
    BY <2>1 DEF IInv, ObjectionEndsTheChain
  <2>3. decision' = rows
    BY <1>1, <2>1 DEF Settled
  <2>4. ASSUME NEW q \in Rows, q[2] = r[2], decision'[q].outcome = "Rejected" PROVE FALSE
    <3>1. Raised(q)
      BY <1>10, <2>4 DEF Raised, NotRaised
    <3>2. q \in Current
      BY <2>2, <2>4, <3>1 DEF Current
    <3> QED
      BY <2>1, <2>3, <2>4, <3>2 DEF Objects, ReviewOutcome
  <2> QED
    BY <1>8, <2>2, <2>4
<1> QED
  BY <1>12, <1>14, <1>15, <1>18 DEF IInv

LEMMA DeskStep ==
  ASSUME IInv, NEW s \in AcceptanceStatus, NEW m \in BOOLEAN, DeskAcceptance(s, m)
  PROVE  IInv'
<1>1. /\ decision' = decision /\ acceptance.status # Unproposed /\ independent' = independent
      /\ s = "Approved" => IsApproved(m)
      /\ acceptance' = [acceptance EXCEPT !.status = s, !.motion = m]
  BY DEF DeskAcceptance
<1>2. /\ acceptance' \in Acceptance /\ acceptance'.status = s /\ acceptance'.motion = m
      /\ acceptance'.cycle = acceptance.cycle /\ acceptance'.author = acceptance.author
      /\ acceptance'.asker = acceptance.asker
  BY <1>1 DEF IInv, RowsOK, Acceptance
<1>3. s # Unproposed
  BY DEF AcceptanceStatus, Unproposed
<1>4. Current' = Current /\ Outstanding' = Outstanding /\ Involved' = Involved
  BY <1>1, <1>2 DEF Current, Outstanding, Involved, Raised, IsOpen
<1>5. RowsOK'
  BY <1>1, <1>2, <1>3 DEF IInv, RowsOK, Raised
<1>6. IndependentApprovals'
  BY <1>1, <1>4 DEF IInv, IndependentApprovals
<1>7. ApprovedByAll'
  <2> SUFFICES ASSUME s = "Approved", ~m
               PROVE  /\ Current # {}
                      /\ \A r \in Current : /\ decision[r].outcome = "Approved"
                                            /\ r \in independent
                                            /\ decision[r].by \notin Involved
    BY <1>1, <1>2, <1>4 DEF ApprovedByAll, Involved
  <2>1. Complete(decision)
    BY <1>1 DEF IsApproved
  <2> QED
    BY <2>1 DEF Complete, IInv, IndependentApprovals
<1>8. ObjectionEndsTheChain'
  BY <1>1, <1>2, <1>4 DEF IInv, ObjectionEndsTheChain
<1> QED
  BY <1>5, <1>6, <1>7, <1>8 DEF IInv

-----------------------------------------------------------------------------
LEMMA Inductive == IInv /\ [Next]_vars => IInv'
<1> SUFFICES ASSUME IInv, [Next]_vars PROVE IInv'
  OBVIOUS
<1>1. \/ UNCHANGED <<acceptance, decision, independent>>
      \/ \E u \in Users : Propose(u) \/ RequestApproval(u)
      \/ \E u \in Users, r \in Rows, o \in {"Approved", "Rejected"} : Decide(u, r, o)
      \/ \E s \in AcceptanceStatus, m \in BOOLEAN : DeskAcceptance(s, m)
  BY DEF Next, vars, avars, NameAnswerable, DelegationChanges
<1> QED
  BY <1>1, Untouched, ProposeStep, RequestStep, DecideStep, DeskStep

LEMMA InitInv == Init => IInv
<1> SUFFICES ASSUME Init PROVE IInv
  OBVIOUS
<1>1. /\ decision = [r \in Rows |-> Blank]
      /\ acceptance = [status |-> Unproposed, author |-> Nobody, asker |-> Nobody,
                       cycle |-> 0, signed |-> FALSE, motion |-> FALSE]
  BY DEF Init, InitSteps
<1>2. Blank \in Decision
  BY DEF Blank, Decision, Outcome
<1>3. 0 \in 0..MaxCycle
  BY RowPairs
<1>4. acceptance \in Acceptance /\ acceptance.status = Unproposed
  BY <1>1, <1>3 DEF Acceptance
<1>5. \A r \in Rows : ~Raised(r) /\ ~IsOpen(r)
  BY <1>1 DEF Raised, IsOpen, OpenOutcome, Blank, NotRaised
<1>6. RowsOK
  BY <1>1, <1>2, <1>4, <1>5 DEF RowsOK
<1>7. Current = {} /\ Outstanding = {}
  BY <1>5 DEF Current, Outstanding
<1> QED
  BY <1>4, <1>6, <1>7
  DEF IInv, IndependentApprovals, ApprovedByAll, ObjectionEndsTheChain, Unproposed

LEMMA Invariant == Spec => []IInv
BY InitInv, Inductive, PTL DEF Spec

(* An acceptance in effect carries every approval its latest request asked *)
(* for, each given by somebody who did not raise the matter, propose the   *)
(* acceptance or ask for its approval, and who did not own or answer for   *)
(* the matter when they gave it, however the forms are edited.             *)
THEOREM EveryApproval == Spec => []ApprovedByAll
<1>1. IInv => ApprovedByAll
  BY DEF IInv
<1> QED
  BY <1>1, Invariant, PTL

(* After an objection nobody is waited on, and a new request finds nothing *)
(* of an earlier one open.                                                 *)
THEOREM ChainEnds == Spec => []ObjectionEndsTheChain
<1>1. IInv => ObjectionEndsTheChain
  BY DEF IInv
<1> QED
  BY <1>1, Invariant, PTL

-----------------------------------------------------------------------------
(* Recursion over the naturals: there is a function with a given start and *)
(* a given step, so that one defined by such an equation satisfies it.     *)
LEMMA LeastNatural ==
  ASSUME NEW T \in SUBSET Nat, T # {}
  PROVE  \E x \in T : \A y \in T : x <= y
<1>1. PICK x \in T : \A y \in T : ~(<<y, x>> \in OpToRel(<, Nat))
  BY NatLessThanWellFounded, WFMin
<1>2. \A y \in T : ~(y < x)
  BY <1>1 DEF OpToRel
<1> QED
  BY <1>2

LEMMA SetInduction ==
  ASSUME NEW T, 0 \in T, \A k \in Nat : k \in T => k + 1 \in T
  PROVE  \A n \in Nat : n \in T
<1> SUFFICES ASSUME {n \in Nat : n \notin T} # {} PROVE FALSE
  OBVIOUS
<1> DEFINE U == {n \in Nat : n \notin T}
<1>1. PICK x \in U : \A y \in U : x <= y
  <2>1. U \in SUBSET Nat /\ U # {}
    OBVIOUS
  <2> HIDE DEF U
  <2> QED
    BY <2>1, LeastNatural
<1>2. x \in Nat /\ x # 0 /\ x \notin T
  BY <1>1
<1>3. x - 1 \in Nat /\ x - 1 \notin U
  BY <1>1, <1>2
<1> QED
  BY <1>2, <1>3

IsStep(H, S) == H \in [S \X Nat -> S]

Iterates(f, a, H, S) ==
  /\ f \in [Nat -> S]
  /\ f[0] = a
  /\ \A k \in Nat : f[k + 1] = H[<<f[k], k + 1>>]

LEMMA Recursion ==
  ASSUME NEW S, NEW a \in S, NEW H, IsStep(H, S)
  PROVE  \E f : Iterates(f, a, H, S)
<1> USE DEF IsStep
<1> DEFINE Start(g, n) == /\ g \in [Nat -> S] /\ g[0] = a
                          /\ \A k \in Nat : k < n => g[k + 1] = H[<<g[k], k + 1>>]
           T == {n \in Nat : \E g : Start(g, n)}
<1>1. \A n \in Nat : n \in T
  <2>1. 0 \in T
    <3>1. Start([k \in Nat |-> a], 0)
      OBVIOUS
    <3> QED
      BY <3>1
  <2>2. ASSUME NEW n \in Nat, n \in T PROVE n + 1 \in T
    <3>1. PICK g : Start(g, n)
      BY <2>2
    <3> DEFINE h == [k \in Nat |-> IF k = n + 1 THEN H[<<g[n], n + 1>>] ELSE g[k]]
    <3>2. h \in [Nat -> S] /\ h[0] = a
      BY <3>1
    <3>3. ASSUME NEW k \in Nat, k < n + 1 PROVE h[k + 1] = H[<<h[k], k + 1>>]
      <4>1. k # n + 1 /\ h[k] = g[k]
        BY <3>3
      <4>2. CASE k = n
        BY <4>1, <4>2
      <4>3. CASE k # n
        <5>1. k < n /\ k + 1 # n + 1
          BY <3>3, <4>3
        <5> QED
          BY <3>1, <4>1, <5>1
      <4> QED
        BY <4>2, <4>3
    <3>4. Start(h, n + 1)
      BY <3>2, <3>3
    <3> HIDE DEF Start, h
    <3> QED
      BY <3>4
  <2> HIDE DEF T
  <2> QED
    BY <2>1, <2>2, SetInduction
<1>2. ASSUME NEW m \in Nat, NEW n \in Nat, NEW g, NEW h, m <= n, Start(g, m), Start(h, n)
      PROVE  g[m] = h[m]
  <2> DEFINE U == {k \in Nat : k <= m => g[k] = h[k]}
  <2>1. 0 \in U
    BY <1>2
  <2>2. ASSUME NEW k \in Nat, k \in U PROVE k + 1 \in U
    <3> SUFFICES ASSUME k + 1 <= m PROVE g[k + 1] = h[k + 1]
      OBVIOUS
    <3>1. k < m /\ k < n /\ g[k] = h[k]
      BY <1>2, <2>2
    <3> QED
      BY <1>2, <3>1
  <2>3. \A k \in Nat : k \in U
    <3> HIDE DEF U
    <3> QED
      BY <2>1, <2>2, SetInduction
  <2> QED
    BY <2>3
<1> DEFINE g == [n \in Nat |-> CHOOSE h : Start(h, n)]
           f == [n \in Nat |-> g[n][n]]
<1>3. \A n \in Nat : Start(g[n], n)
  <2> SUFFICES ASSUME NEW n \in Nat PROVE Start(g[n], n)
    OBVIOUS
  <2>1. \E h : Start(h, n)
    BY <1>1
  <2> HIDE DEF Start
  <2> QED
    BY <2>1
<1> HIDE DEF g
<1>4. f \in [Nat -> S] /\ f[0] = a
  BY <1>3
<1>5. ASSUME NEW k \in Nat PROVE f[k + 1] = H[<<f[k], k + 1>>]
  <2>1. g[k + 1][k + 1] = H[<<g[k + 1][k], k + 1>>]
    BY <1>3
  <2>2. Start(g[k], k) /\ Start(g[k + 1], k + 1)
    BY <1>3
  <2>3. g[k][k] = g[k + 1][k]
    <3> HIDE DEF Start
    <3> QED
      BY <1>2, <2>2
  <2> QED
    BY <2>1, <2>3
<1>6. Iterates(f, a, H, S)
  BY <1>4, <1>5 DEF Iterates
<1> QED
  BY <1>6


-----------------------------------------------------------------------------
(* The matter alone.  Carried through every save and every sweep: no clock *)
(* that breached has another running beside it, and a breach counted has   *)
(* an order among the breaches, so that it is counted once.                *)

ClocksOK(m, clocks, open) ==
  /\ \A c, e \in clocks : ~c.stopped /\ ~e.stopped /\ c.definition = e.definition => c = e
  /\ \A c \in clocks : ~c.stopped => c.definition \notin open
  /\ m.definition = NoDefinition => open = {}

MInv ==
  /\ MTypeOK
  /\ IsFiniteSet(late)
  /\ ClocksOK(matter, late, running)
  /\ matter.status \in AtRest => running = {}
  /\ matter.raised <= matter.last /\ matter.last <= Cardinality(late)

LEMMA RoutedKeeps ==
  ASSUME NEW m \in Matter
  PROVE  /\ Routed(m) \in Matter
         /\ Routed(m).status = m.status /\ Routed(m).auto = m.auto
         /\ Routed(m).raised = m.raised /\ Routed(m).last = m.last
         /\ Routed(m).definition = NoDefinition => m.definition = NoDefinition
         /\ m.auto => m.severity <= Routed(m).severity
<1>1. m.severity \in Nat /\ m.severity \in Severity /\ m.auto \in BOOLEAN
  BY RuleAssumption DEF Matter, Severity
<1>2. CASE Matching(m) = {}
  BY <1>1, <1>2 DEF Routed
<1>3. CASE Matching(m) # {}
  <2> DEFINE r == MatchedRule(m)
             v == RoutedSeverity(m, r)
             d == IF Imposes[r] = NoDefinition THEN m.definition ELSE Imposes[r]
  <2>1. Matching(m) \in SUBSET Nat /\ Matching(m) \subseteq Rules
    BY RuleAssumption DEF Matching
  <2>2. r \in Rules
    <3>1. \E x \in Matching(m) : \A q \in Matching(m) : x <= q
      BY <1>3, <2>1, LeastNatural
    <3> QED
      BY <2>1, <3>1 DEF MatchedRule
  <2>3. Resulting[r] \in Severity /\ Resulting[r] \in Nat
    <3> HIDE DEF r
    <3>1. Resulting[r] \in Severity
      BY <2>2, RuleAssumption
    <3> QED
      BY <3>1, RuleAssumption DEF Severity
  <2>4. v \in Severity /\ (m.auto => m.severity <= v)
    BY <1>1, <2>3 DEF RoutedSeverity
  <2>5. /\ d \in Definitions \cup {NoDefinition}
        /\ d = NoDefinition => m.definition = NoDefinition
    BY <2>2, RuleAssumption DEF Matter
  <2>6. Routed(m) = [m EXCEPT !.rule = r, !.severity = v, !.definition = d]
    BY <1>3 DEF Routed
  <2> HIDE DEF r, v, d
  <2> QED
    BY <1>1, <2>2, <2>4, <2>5, <2>6 DEF Matter
<1> QED
  BY <1>2, <1>3

LEMMA RunningKeeps ==
  ASSUME NEW m \in Matter, NEW old, NEW clocks, NEW open \in SUBSET Definitions,
         ClocksOK(old, clocks, open), m.definition = NoDefinition => old.definition = NoDefinition
  PROVE  /\ Running(m, clocks, open) \in SUBSET Definitions
         /\ ClocksOK(m, clocks, Running(m, clocks, open))
         /\ m.status \in AtRest => Running(m, clocks, open) = {}
<1>1. m.definition \in Definitions \cup {NoDefinition}
  BY DEF Matter
<1>2. CASE m.definition = NoDefinition
  BY <1>2 DEF Running, ClocksOK
<1>3. CASE m.definition # NoDefinition /\ OpenMatter(m)
  BY <1>1, <1>3 DEF Running, ClocksOK, OpenMatter, Timed, Breached
<1>4. CASE m.definition # NoDefinition /\ ~OpenMatter(m)
  BY <1>4 DEF Running, ClocksOK, OpenMatter
<1> QED
  BY <1>2, <1>3, <1>4

(* The clocks that stop when the matter comes to rest.                     *)
LEMMA StoppedClocks ==
  ASSUME MInv, NEW m
  PROVE  /\ \A c \in StoppedLate(m) : c \in Clock /\ c.stopped
         /\ IsFiniteSet(late \cup StoppedLate(m))
         /\ Cardinality(late) <= Cardinality(late \cup StoppedLate(m))
<1>1. IsFiniteSet(late) /\ Cardinality(late) \in Nat /\ running \subseteq Definitions
  BY FS_CardinalityType DEF MInv, MTypeOK
<1> DEFINE D == {e \in running : Overdue(e)}
           Stop(d) == [definition |-> d, on |-> Cardinality(late) + 1, stopped |-> TRUE]
           X == {Stop(d) : d \in D}
<1>2. IsFiniteSet(X)
  <2>1. IsFiniteSet(D)
    BY <1>1, ClockAssumption, FS_Subset
  <2>2. [d \in D |-> Stop(d)] \in Surjection(D, X)
    BY DEF Surjection
  <2> QED
    BY <2>1, <2>2, FS_Surjection
<1>3. StoppedLate(m) \in SUBSET X
  BY DEF StoppedLate
<1>4. \A c \in X : c \in Clock /\ c.stopped
  <2>1. ASSUME NEW d \in D PROVE Stop(d) \in Clock /\ Stop(d).stopped
    <3>1. d \in Definitions /\ Cardinality(late) + 1 \in Nat
      BY <1>1
    <3> QED
      BY <3>1 DEF Clock
  <2> HIDE DEF D, Stop
  <2> QED
    BY <2>1
<1>5. IsFiniteSet(StoppedLate(m))
  BY <1>2, <1>3, FS_Subset
<1>6. IsFiniteSet(late \cup StoppedLate(m))
  BY <1>1, <1>5, FS_Union
<1>7. Cardinality(late) <= Cardinality(late \cup StoppedLate(m))
  <2>1. late \in SUBSET (late \cup StoppedLate(m))
    OBVIOUS
  <2> QED
    BY <1>6, <2>1, FS_Subset
<1> QED
  BY <1>3, <1>4, <1>6, <1>7

LEMMA SaveStep ==
  ASSUME MInv, NEW m \in Matter, m.definition = matter.definition, m.raised = matter.raised,
         m.last = matter.last, Save(m)
  PROVE  MInv'
<1> DEFINE n == Routed(m)
<1>1. /\ matter' = n /\ running' = Running(n, late, running)
      /\ late' = late \cup StoppedLate(n)
      /\ UNCHANGED <<today, closure>>
  BY DEF Save
<1>2. /\ n \in Matter /\ n.raised = matter.raised /\ n.last = matter.last
      /\ n.definition = NoDefinition => matter.definition = NoDefinition
  BY RoutedKeeps
<1> HIDE DEF n
<1>3. /\ running' \in SUBSET Definitions
      /\ ClocksOK(n, late, running')
      /\ n.status \in AtRest => running' = {}
  BY <1>1, <1>2, RunningKeeps DEF MInv, MTypeOK
<1>4. /\ late' \subseteq Clock
      /\ IsFiniteSet(late') /\ Cardinality(late) <= Cardinality(late')
      /\ \A c \in late' : c \in late \/ c.stopped
  BY <1>1, StoppedClocks DEF MInv, MTypeOK
<1>5. MTypeOK'
  BY <1>1, <1>2, <1>3, <1>4 DEF MInv, MTypeOK
<1>6. ClocksOK(matter', late', running')
  BY <1>1, <1>3, <1>4 DEF ClocksOK
<1>7. n.last <= Cardinality(late')
  <2>1. Cardinality(late) \in Nat /\ Cardinality(late') \in Nat /\ n.last \in Nat
    BY <1>2, <1>4, FS_CardinalityType DEF MInv, Matter
  <2> QED
    BY <1>2, <1>4, <2>1 DEF MInv
<1> QED
  BY <1>1, <1>2, <1>3, <1>4, <1>5, <1>6, <1>7 DEF MInv

(* The clocks the sweep marks.                                             *)
LEMMA MarkedClocks ==
  ASSUME MInv, NEW order \in Orders
  PROVE  /\ Marked(order) \subseteq Clock /\ IsFiniteSet(Marked(order))
         /\ Cardinality(Marked(order)) \in Nat
         /\ Cardinality(late) \in Nat /\ Cardinality(late) <= Cardinality(Marked(order))
         /\ running \ DOMAIN order \in SUBSET Definitions
         /\ ClocksOK(matter, Marked(order), running \ DOMAIN order)
<1>1. IsFiniteSet(late) /\ Cardinality(late) \in Nat /\ running \subseteq Definitions
  BY FS_CardinalityType DEF MInv, MTypeOK
<1> DEFINE due == {d \in running : Overdue(d)}
           Mark(d) == [definition |-> d, on |-> Cardinality(late) + order[d], stopped |-> FALSE]
           X == {Mark(d) : d \in due}
<1>2. due \subseteq running /\ IsFiniteSet(due) /\ Cardinality(due) \in Nat
  BY <1>1, ClockAssumption, FS_Subset, FS_CardinalityType
<1>3. order \in [due -> 1..Cardinality(due)]
  BY DEF Orders
<1>4. Marked(order) = late \cup X
  BY <1>3 DEF Marked
<1>5. IsFiniteSet(X)
  <2>1. [d \in due |-> Mark(d)] \in Surjection(due, X)
    BY DEF Surjection
  <2> QED
    BY <1>2, <2>1, FS_Surjection
<1>6. /\ \A c \in X : c \in Clock /\ c.definition \in due
      /\ \A c, e \in X : c.definition = e.definition => c = e
  <2>1. ASSUME NEW d \in due
        PROVE  Mark(d) \in Clock /\ Mark(d).definition = d
    <3>1. d \in Definitions /\ Cardinality(late) + order[d] \in Nat
      BY <1>1, <1>2, <1>3
    <3> QED
      BY <3>1 DEF Clock
  <2> HIDE DEF due, Mark
  <2> QED
    BY <2>1
<1>7. /\ IsFiniteSet(Marked(order)) /\ Cardinality(Marked(order)) \in Nat
      /\ Cardinality(late) <= Cardinality(Marked(order))
  <2> HIDE DEF X
  <2>1. IsFiniteSet(Marked(order))
    BY <1>1, <1>4, <1>5, FS_Union
  <2>2. late \in SUBSET Marked(order)
    BY <1>4
  <2> QED
    BY <2>1, <2>2, FS_Subset, FS_CardinalityType
<1> HIDE DEF due, X
<1>8. ClocksOK(matter, Marked(order), running \ DOMAIN order)
  <2>1. \A c, e \in late \cup X : ~c.stopped /\ ~e.stopped /\ c.definition = e.definition => c = e
    BY <1>2, <1>6 DEF MInv, ClocksOK
  <2>2. \A c \in late \cup X : ~c.stopped => c.definition \notin running \ DOMAIN order
    BY <1>3, <1>6 DEF MInv, ClocksOK
  <2> QED
    BY <1>4, <2>1, <2>2 DEF MInv, ClocksOK
<1> QED
  BY <1>1, <1>4, <1>6, <1>7, <1>8 DEF MInv, MTypeOK

(* A moment: the breach recorded on the matter, which its save routes.     *)
NextMoment(clocks, before, k) ==
  IF Raises(before.matter, clocks, k)
  THEN LET m == Routed(RaisedOne(before.matter, k))
       IN  [matter |-> m, running |-> Running(m, clocks, before.running)]
  ELSE before

MomentOK(clocks, k, s) ==
  /\ s.matter \in Matter /\ s.running \in SUBSET Definitions
  /\ ClocksOK(s.matter, clocks, s.running)
  /\ s.matter.status \in AtRest => s.running = {}
  /\ s.matter.raised <= s.matter.last
  /\ s.matter.last <= Cardinality(late) \/ s.matter.last <= k
  /\ matter.raised <= s.matter.raised /\ matter.severity <= s.matter.severity
  /\ matter.raised < s.matter.raised =>
       matter.severity < s.matter.severity \/ s.matter.severity = Top

LEMMA RaisedOneKeeps ==
  ASSUME NEW m \in Matter, NEW k \in Nat
  PROVE  /\ RaisedOne(m, k) \in Matter
         /\ RaisedOne(m, k).definition = m.definition /\ RaisedOne(m, k).auto
         /\ RaisedOne(m, k).raised = m.raised + 1 /\ RaisedOne(m, k).last = k
         /\ m.severity < RaisedOne(m, k).severity \/ (RaisedOne(m, k).severity = Top /\ m.severity = Top)
<1>1. /\ m.severity \in Severity /\ m.severity \in Nat /\ Top \in Nat
      /\ m.raised \in Nat /\ m.severity <= Top
  BY RuleAssumption DEF Matter, Severity
<1> DEFINE v == IF m.severity = Top THEN Top ELSE m.severity + 1
           n == m.raised + 1
<1>2. v \in Severity /\ n \in Nat /\ (m.severity < v \/ (v = Top /\ m.severity = Top))
  BY <1>1 DEF Severity
<1>3. RaisedOne(m, k) = [m EXCEPT !.raised = n, !.last = k, !.auto = TRUE, !.severity = v]
  BY DEF RaisedOne
<1> HIDE DEF v
<1> QED
  BY <1>2, <1>3 DEF Matter

LEMMA MomentTyped ==
  ASSUME NEW clocks, NEW s \in [matter: Matter, running: SUBSET Definitions], NEW k \in Nat
  PROVE  NextMoment(clocks, s, k) \in [matter: Matter, running: SUBSET Definitions]
<1> DEFINE m == Routed(RaisedOne(s.matter, k))
<1>1. m \in Matter
  BY RaisedOneKeeps, RoutedKeeps
<1>2. Running(m, clocks, s.running) \in SUBSET Definitions
  BY <1>1 DEF Running, Matter
<1> HIDE DEF m
<1>3. [matter |-> m, running |-> Running(m, clocks, s.running)] \in [matter: Matter, running: SUBSET Definitions]
  BY <1>1, <1>2
<1> QED
  BY <1>3 DEF NextMoment, m

LEMMA MomentStep ==
  ASSUME MInv, NEW clocks, NEW s, NEW k \in Nat, MomentOK(clocks, k, s)
  PROVE  MomentOK(clocks, k + 1, NextMoment(clocks, s, k + 1))
<1>1. /\ Cardinality(late) \in Nat /\ matter \in Matter /\ k + 1 \in Nat
      /\ \A x \in Matter : /\ x.raised \in Nat /\ x.last \in Nat
                           /\ x.severity \in Nat /\ Top \in Nat /\ x.severity <= Top
  BY FS_CardinalityType, RuleAssumption DEF MInv, MTypeOK, Matter, Severity
<1>2. s.matter \in Matter
  BY DEF MomentOK
<1>3. CASE ~Raises(s.matter, clocks, k + 1)
  <2>1. NextMoment(clocks, s, k + 1) = s
    BY <1>3 DEF NextMoment
  <2>2. s.matter.last <= k => s.matter.last <= k + 1
    BY <1>1, <1>2
  <2> QED
    BY <2>1, <2>2 DEF MomentOK
<1>4. CASE Raises(s.matter, clocks, k + 1)
  <2> DEFINE u == RaisedOne(s.matter, k + 1)
             m == Routed(u)
             open == Running(m, clocks, s.running)
  <2>1. /\ s.matter.last < k + 1
        /\ NextMoment(clocks, s, k + 1).matter = m
        /\ NextMoment(clocks, s, k + 1).running = open
    BY <1>4 DEF NextMoment, Raises
  <2>2. /\ u \in Matter /\ u.definition = s.matter.definition /\ u.auto
        /\ u.raised = s.matter.raised + 1 /\ u.last = k + 1
        /\ s.matter.severity < u.severity \/ (u.severity = Top /\ s.matter.severity = Top)
    BY <1>1, <1>2, RaisedOneKeeps
  <2> HIDE DEF u
  <2>3. /\ m \in Matter /\ m.raised = u.raised /\ m.last = u.last
        /\ m.definition = NoDefinition => u.definition = NoDefinition
        /\ u.severity <= m.severity
    BY <2>2, RoutedKeeps
  <2> HIDE DEF m
  <2>4. /\ open \in SUBSET Definitions /\ ClocksOK(m, clocks, open)
        /\ m.status \in AtRest => open = {}
    BY <2>2, <2>3, RunningKeeps DEF MomentOK
  <2> HIDE DEF open
  <2>5. m.raised <= m.last /\ m.last <= k + 1 /\ matter.raised <= m.raised
    <3>1. s.matter.raised <= s.matter.last /\ matter.raised <= s.matter.raised
      BY DEF MomentOK
    <3> QED
      BY <1>1, <1>2, <2>1, <2>2, <2>3, <3>1
  <2>6. matter.severity < m.severity \/ m.severity = Top
    BY <1>1, <1>2, <2>2, <2>3 DEF MomentOK
  <2>7. matter.severity <= m.severity
    BY <1>1, <2>3, <2>6
  <2> QED
    BY <2>1, <2>3, <2>4, <2>5, <2>6, <2>7 DEF MomentOK
<1> QED
  BY <1>3, <1>4

LEMMA Moments ==
  ASSUME MInv, NEW clocks, Cardinality(clocks) \in Nat,
         NEW open \in SUBSET Definitions, ClocksOK(matter, clocks, open),
         matter.status \in AtRest => open = {}
  PROVE  MomentOK(clocks, Cardinality(clocks), AfterMoments(clocks, open))
<1> DEFINE start == [matter |-> matter, running |-> open]
           step[k \in Nat] ==
             IF k = 0 THEN start
             ELSE LET before == step[k - 1]
                  IN  IF Raises(before.matter, clocks, k)
                      THEN LET m == Routed(RaisedOne(before.matter, k))
                           IN  [matter |-> m, running |-> Running(m, clocks, before.running)]
                      ELSE before
           S == [matter: Matter, running: SUBSET Definitions]
           H == [p \in S \X Nat |-> NextMoment(clocks, p[1], p[2])]
<1>1. AfterMoments(clocks, open) = step[Cardinality(clocks)]
  BY DEF AfterMoments
<1>2. PICK f : Iterates(f, start, H, S)
  <2>1. start \in S
    BY DEF MInv, MTypeOK
  <2>2. IsStep(H, S)
    BY MomentTyped DEF IsStep
  <2> HIDE DEF start, S, H, step
  <2> QED
    BY <2>1, <2>2, Recursion
<1>3. f = [k \in Nat |->
            IF k = 0 THEN start
            ELSE LET before == f[k - 1]
                 IN  IF Raises(before.matter, clocks, k)
                     THEN LET m == Routed(RaisedOne(before.matter, k))
                          IN  [matter |-> m, running |-> Running(m, clocks, before.running)]
                     ELSE before]
  <2> SUFFICES ASSUME NEW k \in Nat
               PROVE  f[k] = IF k = 0 THEN start ELSE NextMoment(clocks, f[k - 1], k)
    BY <1>2 DEF Iterates, NextMoment
  <2>1. CASE k = 0
    BY <1>2, <2>1 DEF Iterates
  <2>2. CASE k # 0
    <3>1. k - 1 \in Nat /\ (k - 1) + 1 = k
      BY <2>2
    <3>2. f[k] = H[<<f[k - 1], k>>] /\ f[k - 1] \in S
      BY <1>2, <3>1 DEF Iterates
    <3> QED
      BY <2>2, <3>2
  <2> QED
    BY <2>1, <2>2
<1>4. step = [k \in Nat |->
            IF k = 0 THEN start
            ELSE LET before == step[k - 1]
                 IN  IF Raises(before.matter, clocks, k)
                     THEN LET m == Routed(RaisedOne(before.matter, k))
                          IN  [matter |-> m, running |-> Running(m, clocks, before.running)]
                     ELSE before]
  BY <1>3
<1> HIDE DEF step
<1>5. step[0] = start
  BY <1>4
<1>6. ASSUME NEW k \in Nat PROVE step[k + 1] = NextMoment(clocks, step[k], k + 1)
  <2>1. k + 1 \in Nat /\ k + 1 # 0 /\ (k + 1) - 1 = k
    OBVIOUS
  <2>2. step[k + 1] = LET before == step[(k + 1) - 1]
                      IN  IF Raises(before.matter, clocks, k + 1)
                          THEN LET m == Routed(RaisedOne(before.matter, k + 1))
                               IN  [matter |-> m, running |-> Running(m, clocks, before.running)]
                          ELSE before
    BY <1>4, <2>1
  <2> QED
    BY <2>1, <2>2 DEF NextMoment
<1> DEFINE T == {k \in Nat : MomentOK(clocks, k, step[k])}
<1>7. 0 \in T
  <2>1. matter.raised \in Nat /\ matter.severity \in Nat
    BY RuleAssumption DEF MInv, MTypeOK, Matter, Severity
  <2>2. MomentOK(clocks, 0, start)
    BY <2>1 DEF MInv, MTypeOK, MomentOK
  <2> QED
    BY <1>5, <2>2
<1>8. ASSUME NEW k \in Nat, k \in T PROVE k + 1 \in T
  BY <1>6, <1>8, MomentStep
<1>9. Cardinality(clocks) \in T
  <2> HIDE DEF T
  <2> QED
    BY <1>7, <1>8, SetInduction
<1> QED
  BY <1>1, <1>9

LEMMA SweepBreachesStep ==
  ASSUME MInv, SweepBreaches
  PROVE  /\ MInv'
         /\ matter.severity <= matter'.severity
         /\ matter.raised < matter'.raised => matter.severity < matter'.severity \/ matter'.severity = Top
<1>1. PICK order \in Orders :
             /\ late' = Marked(order)
             /\ matter' = AfterMoments(Marked(order), running \ DOMAIN order).matter
             /\ running' = AfterMoments(Marked(order), running \ DOMAIN order).running
  BY DEF SweepBreaches
<1> DEFINE clocks == Marked(order)
           open   == running \ DOMAIN order
           s      == AfterMoments(clocks, open)
<1>2. /\ clocks \subseteq Clock /\ IsFiniteSet(clocks) /\ Cardinality(clocks) \in Nat
      /\ Cardinality(late) \in Nat /\ Cardinality(late) <= Cardinality(clocks)
      /\ open \in SUBSET Definitions /\ ClocksOK(matter, clocks, open)
  BY MarkedClocks
<1>3. matter.status \in AtRest => open = {}
  BY DEF MInv
<1> HIDE DEF clocks, open
<1>4. MomentOK(clocks, Cardinality(clocks), s)
  BY <1>2, <1>3, Moments
<1>5. matter' = s.matter /\ running' = s.running /\ late' = clocks /\ UNCHANGED <<today, closure>>
  BY <1>1 DEF SweepBreaches, clocks, open
<1> HIDE DEF s
<1>6. MTypeOK'
  BY <1>2, <1>4, <1>5 DEF MInv, MTypeOK, MomentOK
<1>7. matter'.last <= Cardinality(late')
  <2>1. s.matter.last \in Nat
    BY <1>4 DEF MomentOK, Matter
  <2> QED
    BY <1>2, <1>4, <1>5, <2>1 DEF MomentOK
<1> QED
  BY <1>2, <1>4, <1>5, <1>6, <1>7 DEF MInv, MomentOK

(* The rows a handler hands to the save.                                   *)
LEMMA SavedBy ==
  ASSUME MInv, MNext, ~Sweep, ~SweepBreaches
  PROVE  \/ UNCHANGED <<matter, running, late>> /\ MTypeOK'
         \/ \E m \in Matter : /\ Save(m)
                              /\ m.definition = matter.definition
                              /\ m.raised = matter.raised /\ m.last = matter.last
                              /\ m.auto = matter.auto
                              /\ m.severity = matter.severity \/ ByHand
<1>1. matter \in Matter
  BY DEF MInv, MTypeOK
<1>2. ASSUME NEW u \in People, NEW s \in Status, MoveStatus(u, s) \/ CloseMatter(u, s)
      PROVE  [matter EXCEPT !.status = s] \in Matter /\ Save([matter EXCEPT !.status = s])
  BY <1>1, <1>2 DEF MoveStatus, CloseMatter, Matter
<1>3. ASSUME NEW s \in Status, DeskStatus(s)
      PROVE  [matter EXCEPT !.status = s] \in Matter /\ Save([matter EXCEPT !.status = s])
  BY <1>1, <1>3 DEF DeskStatus, Matter
<1>4. ASSUME NEW s \in Status
      PROVE  LET m == [matter EXCEPT !.status = s]
             IN  /\ m.definition = matter.definition /\ m.raised = matter.raised
                 /\ m.last = matter.last /\ m.auto = matter.auto /\ m.severity = matter.severity
  BY <1>1 DEF Matter
<1>5. CASE \E u \in People, s \in Status : MoveStatus(u, s) \/ CloseMatter(u, s)
  BY <1>2, <1>4, <1>5
<1>6. CASE \E s \in Status : DeskStatus(s)
  BY <1>3, <1>4, <1>6
<1>7. CASE \E u \in People, c \in Closures : RecordClosure(u, c)
  BY <1>7, ClosureAssumption DEF RecordClosure, MInv, MTypeOK
<1>8. ASSUME NEW o \in People \cup {NoOwner}, Save([matter EXCEPT !.owner = o])
      PROVE  \E m \in Matter : /\ Save(m)
                               /\ m.definition = matter.definition
                               /\ m.raised = matter.raised /\ m.last = matter.last
                               /\ m.auto = matter.auto
                               /\ m.severity = matter.severity
  <2> DEFINE m == [matter EXCEPT !.owner = o]
  <2>1. /\ m \in Matter /\ m.definition = matter.definition /\ m.raised = matter.raised
        /\ m.last = matter.last /\ m.auto = matter.auto /\ m.severity = matter.severity
    BY <1>1 DEF Matter
  <2> QED
    BY <1>8, <2>1
<1>9. CASE \/ \E u \in People : TakeOwnership(u)
           \/ \E o \in People \cup {NoOwner} : DeskOwner(o)
  BY <1>8, <1>9 DEF TakeOwnership, DeskOwner
<1>10. CASE ByHand
  <2>1. PICK f \in Facts, v \in Severity, h \in BOOLEAN : DeskSeverity(f, v, h)
    BY <1>10 DEF ByHand
  <2> DEFINE m == [matter EXCEPT !.fact = f, !.severity = v, !.manual = h]
  <2>2. /\ m \in Matter /\ m.definition = matter.definition /\ m.raised = matter.raised
        /\ m.last = matter.last /\ m.auto = matter.auto
    BY <1>1 DEF Matter
  <2> QED
    BY <1>10, <2>1, <2>2 DEF DeskSeverity
<1>11. CASE NextDay
  BY <1>11, ClockAssumption DEF NextDay, MInv, MTypeOK
<1> QED
  BY <1>5, <1>6, <1>7, <1>9, <1>10, <1>11 DEF MNext

LEMMA SweepStep ==
  ASSUME MInv, Sweep
  PROVE  MInv' /\ UNCHANGED matter
<1>1. PICK order \in Orders : late' = Marked(order) /\ running' = running \ DOMAIN order
  BY DEF Sweep
<1>2. UNCHANGED <<today, matter, closure>>
  BY DEF Sweep
<1>3. /\ late' \subseteq Clock /\ IsFiniteSet(late') /\ Cardinality(late') \in Nat
      /\ Cardinality(late) \in Nat /\ Cardinality(late) <= Cardinality(late')
      /\ running' \in SUBSET Definitions
      /\ ClocksOK(matter, late', running')
  BY <1>1, MarkedClocks
<1>4. MTypeOK'
  BY <1>2, <1>3 DEF MInv, MTypeOK
<1>5. matter.status \in AtRest => running' = {}
  BY <1>1 DEF MInv
<1>6. matter.last <= Cardinality(late')
  <2>1. matter.last \in Nat
    BY DEF MInv, MTypeOK, Matter
  <2> QED
    BY <1>3, <2>1 DEF MInv
<1> QED
  BY <1>2, <1>3, <1>4, <1>5, <1>6 DEF MInv

LEMMA MatterStep ==
  ASSUME MInv, [MNext]_mvars
  PROVE  /\ MInv'
         /\ matter.raised < matter'.raised => matter.severity < matter'.severity \/ matter'.severity = Top
         /\ matter.auto /\ matter'.severity < matter.severity => ByHand
<1>1. \A x \in Matter : x.raised \in Nat /\ x.severity \in Nat
  BY RuleAssumption DEF Matter, Severity
<1>2. MInv => matter \in Matter
  BY DEF MInv, MTypeOK
<1>3. CASE UNCHANGED <<matter, running, late>> /\ MTypeOK'
  BY <1>1, <1>2, <1>3 DEF MInv
<1>4. ASSUME NEW m \in Matter, Save(m), m.definition = matter.definition, m.raised = matter.raised,
             m.last = matter.last, m.auto = matter.auto, m.severity = matter.severity \/ ByHand
      PROVE  /\ MInv'
             /\ matter'.raised = matter.raised
             /\ matter.auto /\ matter'.severity < matter.severity => ByHand
  <2>1. MInv'
    BY <1>4, SaveStep
  <2>2. matter' = Routed(m)
    BY <1>4 DEF Save
  <2> QED
    BY <1>1, <1>4, <2>1, <2>2, RoutedKeeps
<1>5. CASE Sweep
  BY <1>1, <1>2, <1>5, SweepStep
<1>6. CASE SweepBreaches
  <2>1. matter' \in Matter
    BY <1>6, SweepBreachesStep DEF MInv, MTypeOK
  <2> QED
    BY <1>1, <1>2, <1>6, <2>1, SweepBreachesStep
<1>7. CASE UNCHANGED mvars
  BY <1>3, <1>7 DEF mvars, MInv, MTypeOK
<1>8. CASE MNext /\ ~Sweep /\ ~SweepBreaches
  <2>1. CASE UNCHANGED <<matter, running, late>> /\ MTypeOK'
    BY <1>3, <2>1
  <2>2. CASE ~(UNCHANGED <<matter, running, late>> /\ MTypeOK')
    <3>1. PICK m \in Matter : /\ Save(m)
                              /\ m.definition = matter.definition
                              /\ m.raised = matter.raised /\ m.last = matter.last
                              /\ m.auto = matter.auto
                              /\ m.severity = matter.severity \/ ByHand
      BY <1>8, <2>2, SavedBy
    <3>2. /\ MInv'
          /\ matter'.raised = matter.raised
          /\ matter.auto /\ matter'.severity < matter.severity => ByHand
      BY <1>4, <3>1
    <3> QED
      BY <1>1, <1>2, <3>2
  <2> QED
    BY <2>1, <2>2
<1> QED
  BY <1>5, <1>6, <1>7, <1>8

LEMMA MatterInit == MInit => MInv
<1> SUFFICES ASSUME MInit PROVE MInv
  OBVIOUS
<1>1. PICK f \in Facts : matter = Routed(New(f))
  BY DEF MInit
<1>2. 1 \in Severity
  BY RuleAssumption DEF Severity
<1>3. New(f) \in Matter
  BY <1>2 DEF New, Matter, Status, Working
<1>4. matter \in Matter /\ matter.status = "Open" /\ matter.raised = 0 /\ matter.last = 0
  BY <1>1, <1>3, RoutedKeeps DEF New
<1>5. IsFiniteSet(late) /\ Cardinality(late) = 0 /\ late = {}
  BY FS_EmptySet DEF MInit
<1>6. running \subseteq Definitions /\ (matter.definition = NoDefinition => running = {})
  BY <1>4 DEF MInit, Matter
<1>7. ClocksOK(matter, late, running)
  BY <1>5, <1>6 DEF ClocksOK
<1>8. MTypeOK
  BY <1>4, <1>5, <1>6, ClockAssumption DEF MInit, MTypeOK
<1> QED
  BY <1>4, <1>5, <1>7, <1>8 DEF MInv, AtRest

LEMMA MatterInvariant == MSpec => []MInv
<1>1. MInv /\ [MNext]_mvars => MInv'
  BY MatterStep
<1> QED
  BY <1>1, MatterInit, PTL DEF MSpec

(* sync_clock, close_clock, sweep: whatever the rules of the matrix, the   *)
(* definitions and the severities, a matter has one clock by a definition  *)
(* and none at rest, and it never counts more breaches than there were.    *)
THEOREM OneClock == MSpec => []TimedOnce
<1>1. MInv => TimedOnce
  <2> SUFFICES ASSUME MInv PROVE TimedOnce
    OBVIOUS
  <2>1. ASSUME NEW d \in Definitions
        PROVE  Cardinality({c \in late : c.definition = d /\ ~c.stopped})
                 + (IF d \in running THEN 1 ELSE 0) <= 1
    <3> DEFINE B == {c \in late : c.definition = d /\ ~c.stopped}
    <3>1. \A c, e \in B : c = e
      BY DEF MInv, ClocksOK
    <3>2. d \in running => B = {}
      BY DEF MInv, ClocksOK
    <3> HIDE DEF B
    <3>3. Cardinality(B) = 0 \/ (Cardinality(B) = 1 /\ B # {})
      <4>1. CASE B = {}
        BY <4>1, FS_EmptySet
      <4>2. CASE B # {}
        <5>1. PICK c : B = {c}
          BY <3>1, <4>2
        <5> QED
          BY <4>2, <5>1, FS_Singleton
      <4> QED
        BY <4>1, <4>2
    <3>4. B = {} => Cardinality(B) = 0
      BY FS_EmptySet
    <3>5. Cardinality(B) + (IF d \in running THEN 1 ELSE 0) <= 1
      BY <3>2, <3>3, <3>4
    <3> QED
      BY <3>5 DEF B
  <2>2. matter.raised <= Cardinality(late)
    <3>1. matter.raised \in Nat /\ matter.last \in Nat /\ Cardinality(late) \in Nat
      BY FS_CardinalityType DEF MInv, MTypeOK, Matter
    <3> QED
      BY <3>1 DEF MInv
  <2> QED
    BY <2>1, <2>2 DEF TimedOnce, MInv
<1> QED
  BY <1>1, MatterInvariant, PTL

(* record_breach raises the severity each time, unless it is at the top    *)
(* already, and no pass of the matrix takes back what it raised.           *)
THEOREM RaisedByBreach == MSpec => BreachRaises
<1> DEFINE A == /\ matter'.raised > matter.raised =>
                     matter'.severity > matter.severity \/ matter'.severity = Top
                /\ matter.auto /\ matter'.severity < matter.severity => ByHand
<1>1. MInv /\ [MNext]_mvars => [A]_mvars
  <2> SUFFICES ASSUME MInv, [MNext]_mvars PROVE A
    OBVIOUS
  <2>1. MInv /\ MInv'
    BY MatterStep
  <2>2. /\ matter.raised \in Nat /\ matter'.raised \in Nat
        /\ matter.severity \in Nat /\ matter'.severity \in Nat
    BY <2>1, RuleAssumption DEF MInv, MTypeOK, Matter, Severity
  <2> QED
    BY <2>2, MatterStep
<1> QED
  BY <1>1, MatterInvariant, PTL DEF MSpec, BreachRaises

-----------------------------------------------------------------------------
(* The composition.                                                        *)

(* The acceptance and its approvals leave the matter to itself: whatever   *)
(* is proposed, asked, decided or delegated, the matter behaves as it does *)
(* alone, and OneClock and RaisedByBreach hold of it.                      *)
THEOREM MatterImplemented == Spec => MSpec
<1>1. Init => MInit
  BY DEF Init
<1>2. [Next]_vars => [MNext]_mvars
  BY DEF Next, vars, Propose, RequestApproval, Decide, DeskAcceptance, NameAnswerable, MNext,
         DelegationChanges
<1> QED
  BY <1>1, <1>2, PTL DEF Spec, MSpec

(* The rows of matter, acceptance and approvals keep their shape, and no   *)
(* approval row is raised for nobody or for a request not made yet.        *)
THEOREM TypeCorrect == Spec => []TypeOK
<1> DEFINE J == live \subseteq Delegable /\ answerable \subseteq Executives /\ independent \subseteq Rows
<1>1. Init => J
  BY DEF Init, InitSteps
<1>2. J /\ [Next]_vars => J'
  BY DEF Next, vars, avars, Propose, RequestApproval, Decide, DeskAcceptance, NameAnswerable,
         DelegationChanges, DelegationTurns
<1>3. Spec => []MInv
  BY MatterImplemented, MatterInvariant, PTL
<1>4. IInv /\ MInv /\ J => TypeOK
  BY DEF IInv, RowsOK, MInv, StepsTypeOK, TypeOK
<1> QED
  BY <1>1, <1>2, <1>3, <1>4, Invariant, PTL DEF Spec

-----------------------------------------------------------------------------
(* The rows as evidence.  A step asks for some, or writes one.             *)
Evidence == [r \in Rows |-> OnRecord(decision[r])]

LEMMA OnRecordIs ==
  ASSUME NEW row
  PROVE  /\ row.outcome = NotRaised => OnRecord(row) = [outcome |-> "not asked", by |-> Nobody]
         /\ row.outcome \in OpenOutcome => OnRecord(row) = [outcome |-> "waiting", by |-> Nobody]
         /\ row.outcome \notin OpenOutcome \cup {NotRaised} =>
              OnRecord(row) = [outcome |-> row.outcome, by |-> row.by]
BY DEF OnRecord, OpenOutcome, NotRaised

LEMMA RowsAsked ==
  ASSUME NEW R \in SUBSET Rows,
         \A r \in Rows : IF r \in R THEN ~Raised(r) /\ decision'[r].outcome = "Pending"
                         ELSE decision'[r] = decision[r]
  PROVE  Record!Next
<1>1. \A r \in R : OnRecord(decision[r]) = Record!NotAsked
  BY OnRecordIs DEF Raised, Record!NotAsked
<1>2. \A r \in R : OnRecord(decision'[r]) = Record!Waiting
  BY OnRecordIs DEF OpenOutcome, Record!Waiting
<1>3. Record!Ask(R)
  BY <1>1, <1>2 DEF Record!Ask
<1> QED
  BY <1>3 DEF Record!Next

LEMMA RowAnswered ==
  ASSUME NEW q \in Rows, IsOpen(q),
         \/ decision'[q].outcome \in OpenOutcome
         \/ /\ decision'[q].outcome \in {"Approved", "Rejected", "Abstained", "Bypassed"}
            /\ decision'[q].by \in Users,
         \A r \in Rows : r # q => decision'[r] = decision[r]
  PROVE  [Record!Next]_Evidence
<1>1. OnRecord(decision[q]) = Record!Waiting
  BY OnRecordIs DEF IsOpen, Record!Waiting
<1>2. CASE decision'[q].outcome \in OpenOutcome
  <2>1. OnRecord(decision'[q]) = OnRecord(decision[q])
    BY <1>2, OnRecordIs DEF IsOpen
  <2> QED
    BY <2>1 DEF Evidence
<1>3. CASE decision'[q].outcome \in {"Approved", "Rejected", "Abstained", "Bypassed"}
           /\ decision'[q].by \in Users
  <2> DEFINE a == [outcome |-> decision'[q].outcome, by |-> decision'[q].by]
  <2>1. a \in Record!Given
    BY <1>3 DEF Record!Given
  <2>2. OnRecord(decision'[q]) = a
    BY <1>3, OnRecordIs DEF OpenOutcome, NotRaised
  <2> HIDE DEF a
  <2>3. Record!Give(q, a)
    BY <1>1, <2>2 DEF Record!Give
  <2> QED
    BY <2>1, <2>3 DEF Record!Next
<1> QED
  BY <1>2, <1>3

(* A chain of an acceptance holds no other outcomes than these, and nobody *)
(* has answered an open step; what a rejection leaves open it closes.      *)
Plain ==
  \A r \in Rows :
    /\ decision[r].outcome \in {NotRaised, "Pending", "Approved", "Rejected", "Abstained"}
    /\ decision[r].outcome = "Pending" => decision[r].by = Nobody

LEMMA AskingPlain ==
  ASSUME IInv, Plain, NEW u \in Users, RequestApproval(u)
  PROVE  Plain' /\ [Record!Next]_Evidence
<1>1. PICK who \in Assignments(u) :
        decision' = [r \in Rows |-> IF r[2] = acceptance'.cycle /\ r[1] \in DOMAIN who
                                    THEN RaisedFor(who[r[1]]) ELSE decision[r]]
  BY DEF RequestApproval
<1>2. acceptance'.cycle = acceptance.cycle + 1 /\ acceptance.cycle \in 0..MaxCycle
  BY DEF RequestApproval, IInv, RowsOK, Acceptance
<1> DEFINE R == {r \in Rows : r[2] = acceptance'.cycle /\ r[1] \in DOMAIN who}
<1>3. \A r \in R : ~Raised(r)
  <2> SUFFICES ASSUME NEW r \in R, Raised(r) PROVE FALSE
    OBVIOUS
  <2>1. r[2] <= acceptance.cycle
    BY DEF IInv, RowsOK
  <2> QED
    BY <1>2, <2>1, RowPairs
<1>4. \A r \in Rows : IF r \in R THEN decision'[r].outcome = "Pending" /\ decision'[r].by = Nobody
                      ELSE decision'[r] = decision[r]
  BY <1>1 DEF RaisedFor
<1> HIDE DEF R
<1>5. R \in SUBSET Rows
  BY DEF R
<1>6. Record!Next
  BY <1>3, <1>4, <1>5, RowsAsked
<1>7. Plain'
  BY <1>4 DEF Plain
<1> QED
  BY <1>6, <1>7

LEMMA DecidingPlain ==
  ASSUME IInv, Plain, NEW u \in Users, NEW d \in Rows, NEW o \in {"Approved", "Rejected"},
         Decide(u, d, o)
  PROVE  Plain' /\ [Record!Next]_Evidence
<1> DEFINE x == [outcome |-> o, assigned |-> decision[d].assigned, by |-> u]
           rows == [decision EXCEPT ![d] = x]
<1>1. d \in Waiting /\ decision' = Settled(rows)
  BY DEF Decide, Recorded
<1>2. d \in Current /\ IsOpen(d)
  BY <1>1 DEF Waiting, Outstanding
<1>3. /\ rows[d] = x /\ x.outcome = o /\ x.by = u
      /\ \A r \in Rows : r # d => rows[r] = decision[r]
      /\ rows = [r \in Rows |-> rows[r]]
  BY DEF IInv, RowsOK
<1> HIDE DEF x, rows
<1>4. ASSUME NEW r \in Current PROVE decision[r].outcome # "Rejected"
  BY <1>1, <1>4 DEF Waiting, IInv, ObjectionEndsTheChain, Current
<1>5. \A r \in Current : r \in Rows
  BY DEF Current
<1>6. Objects(rows) <=> o = "Rejected"
  <2>1. o = "Rejected" => Objects(rows)
    BY <1>2, <1>3 DEF Objects, ReviewOutcome
  <2>2. ASSUME Objects(rows), o # "Rejected" PROVE FALSE
    <3>1. PICK r \in Current : rows[r].outcome \in ReviewOutcome
      BY <2>2 DEF Objects
    <3>2. r # d
      BY <1>3, <2>2, <3>1 DEF ReviewOutcome
    <3> QED
      BY <1>3, <1>4, <1>5, <3>1, <3>2 DEF Plain, ReviewOutcome, NotRaised
  <2> QED
    BY <2>1, <2>2
<1>7. CASE o = "Approved"
  <2>1. decision' = rows
    BY <1>1, <1>6, <1>7 DEF Settled
  <2>2. Plain'
    BY <1>3, <1>7, <2>1 DEF Plain
  <2>3. /\ decision'[d].outcome \in {"Approved", "Rejected", "Abstained", "Bypassed"}
        /\ decision'[d].by \in Users
        /\ \A r \in Rows : r # d => decision'[r] = decision[r]
    BY <1>3, <1>7, <2>1
  <2>4. [Record!Next]_Evidence
    BY <1>2, <2>3, RowAnswered
  <2> QED
    BY <2>2, <2>4
<1>8. CASE o = "Rejected"
  <2> DEFINE R == {r \in Waiting : r # d}
  <2>1. decision' = [r \in Rows |-> IF r \in Waiting /\ rows[r].outcome \in OpenOutcome
                                    THEN [rows[r] EXCEPT !.outcome = "Abstained"] ELSE rows[r]]
    BY <1>1, <1>6, <1>8 DEF Settled, Unreached
  <2>2. R \subseteq Rows /\ \A r \in R : decision[r].outcome = "Pending" /\ decision[r].by = Nobody
    BY DEF Waiting, Outstanding, IsOpen, OpenOutcome, Plain, NotRaised
  <2>3. ASSUME NEW r \in R
        PROVE  decision'[r].outcome = "Abstained" /\ decision'[r].by = Nobody
    <3>1. decision[r] = [outcome |-> "Pending", assigned |-> decision[r].assigned, by |-> Nobody]
      BY <2>2 DEF IInv, RowsOK, Decision
    <3>2. rows[r] = decision[r] /\ decision[r].outcome \in OpenOutcome
      BY <1>3, <2>2 DEF OpenOutcome
    <3>3. decision'[r] = [decision[r] EXCEPT !.outcome = "Abstained"]
      BY <2>1, <2>2, <3>2
    <3>4. decision'[r] = [outcome |-> "Abstained", assigned |-> decision[r].assigned, by |-> Nobody]
      BY <3>1, <3>3
    <3> QED
      BY <3>4
  <2>4. decision'[d] = rows[d]
    BY <1>3, <1>8, <2>1 DEF OpenOutcome
  <2>5. \A r \in Rows : r # d /\ r \notin R => decision'[r] = decision[r]
    BY <1>3, <2>1
  <2> HIDE DEF R
  <2>6. Plain'
    BY <1>3, <2>3, <2>4, <2>5 DEF Plain, NotRaised
  <2>7. OnRecord(decision'[d]) = [outcome |-> "Rejected", by |-> u]
    BY <1>3, <1>8, <2>4, OnRecordIs DEF OpenOutcome, NotRaised
  <2>8. \A r \in R : OnRecord(decision[r]) = Record!Waiting /\ OnRecord(decision'[r]) = Record!Lapsed
    BY <2>2, <2>3, OnRecordIs DEF OpenOutcome, NotRaised, Record!Waiting, Record!Lapsed
  <2>9. OnRecord(decision[d]) = Record!Waiting
    BY <1>2, OnRecordIs DEF IsOpen, Record!Waiting
  <2>10. Record!Object(d, u, R)
    <3>1. \A r \in Rows : OnRecord(decision'[r]) =
             IF r = d THEN [outcome |-> "Rejected", by |-> u]
             ELSE IF r \in R THEN Record!Lapsed ELSE OnRecord(decision[r])
      BY <2>5, <2>7, <2>8
    <3> QED
      BY <2>2, <2>8, <2>9, <3>1 DEF Record!Object
  <2> QED
    BY <2>2, <2>6, <2>10 DEF Record!Next
<1> QED
  BY <1>7, <1>8

(* The approvals of an acceptance are the evidence it is carried on: asked *)
(* for, answered once by one person and for good, and a step nobody        *)
(* answered is closed by nothing but a rejection of its own request.       *)
THEOREM EvidenceKept == Spec => AnswersStand
<1>1. Init => Plain /\ Record!Init
  <2>1. OnRecord(Blank) = Record!NotAsked
    BY OnRecordIs DEF Blank, Record!NotAsked
  <2> QED
    BY <2>1 DEF Init, InitSteps, Plain, Blank, Record!Init
<1>2. ASSUME IInv, Plain, [Next]_vars PROVE Plain' /\ [Record!Next]_Evidence
  <2>1. CASE UNCHANGED decision
    BY <1>2, <2>1 DEF Plain, Evidence
  <2>2. \/ UNCHANGED decision
        \/ \E u \in Users : RequestApproval(u)
        \/ \E u \in Users, r \in Rows, o \in {"Approved", "Rejected"} : Decide(u, r, o)
    BY <1>2 DEF Next, vars, avars, Propose, DeskAcceptance, NameAnswerable, DelegationChanges
  <2> QED
    BY <1>2, <2>1, <2>2, AskingPlain, DecidingPlain
<1>3. Plain /\ IInv /\ [Next]_vars => Plain' /\ [Record!Next]_Evidence
  BY <1>2
<1> QED
  BY <1>1, <1>3, Invariant, PTL DEF Spec, AnswersStand, Record!Spec, Evidence

-----------------------------------------------------------------------------
(* Within one request the order of the route is kept: a sequential step    *)
(* somebody decided leaves no earlier step of its request open, however    *)
(* often the approval is asked for again.  What waiting_on looks at is all *)
(* the requests of the acceptance, as its rows carry no version.           *)
RequestInOrder ==
  \A r \in Sequential, q \in Outstanding :
    decision[r].outcome \in {"Approved", "Rejected"} /\ q[2] = r[2] => Place[q] >= Place[r]

LEMMA AskingInOrder ==
  ASSUME IInv, RequestInOrder, NEW u \in Users, RequestApproval(u)
  PROVE  RequestInOrder'
<1>1. /\ acceptance'.cycle = acceptance.cycle + 1 /\ acceptance.cycle \in 0..MaxCycle
      /\ Waiting = {}
  BY DEF RequestApproval, IInv, RowsOK, Acceptance
<1>2. PICK who \in Assignments(u) :
        decision' = [r \in Rows |-> IF r[2] = acceptance'.cycle /\ r[1] \in DOMAIN who
                                    THEN RaisedFor(who[r[1]]) ELSE decision[r]]
  BY DEF RequestApproval
<1>3. Outstanding = {}
  BY <1>1 DEF Waiting, IInv, ObjectionEndsTheChain, Current, Outstanding, IsOpen, OpenOutcome,
              Raised, NotRaised
<1>4. ASSUME NEW q \in Rows, IsOpen(q)' PROVE q[2] = acceptance.cycle + 1
  <2>1. ~IsOpen(q)
    BY <1>3 DEF Outstanding
  <2> QED
    BY <1>1, <1>2, <1>4, <2>1 DEF IsOpen
<1>5. ASSUME NEW r \in Rows, r[2] = acceptance.cycle + 1
      PROVE  decision'[r].outcome \notin {"Approved", "Rejected"}
  <2>1. ~Raised(r)
    BY <1>1, <1>5 DEF IInv, RowsOK
  <2> QED
    BY <1>2, <2>1 DEF Raised, RaisedFor, NotRaised
<1> QED
  BY <1>4, <1>5, RowAssumption DEF RequestInOrder, Outstanding

LEMMA DecidingInOrder ==
  ASSUME IInv, RequestInOrder, NEW u \in Users, NEW d \in Rows,
         NEW o \in {"Approved", "Rejected"}, Decide(u, d, o)
  PROVE  RequestInOrder'
<1> DEFINE rows == Recorded(d, o, decision[d].assigned, u)
<1>1. decision' = Settled(rows) /\ IsTurn(d) /\ d \in Waiting
  BY DEF Decide
<1>2. /\ rows[d].outcome = o
      /\ \A r \in Rows : rows[r] = IF r = d THEN rows[d] ELSE decision[r]
      /\ rows = [r \in Rows |-> rows[r]]
  BY DEF Recorded, IInv, RowsOK
<1> HIDE DEF rows
<1>3. \A r \in Rows : decision'[r] \in {rows[r], [rows[r] EXCEPT !.outcome = "Abstained"]}
  BY <1>1, <1>2 DEF Settled
<1>4. \A r \in Rows : DOMAIN rows[r] = {"outcome", "assigned", "by"}
  <2>1. rows[d] = [outcome |-> o, assigned |-> decision[d].assigned, by |-> u]
    BY DEF rows, Recorded, IInv, RowsOK
  <2> QED
    BY <1>2, <2>1 DEF IInv, RowsOK, Decision
<1>5. \A r \in Rows : decision'[r].outcome \in {rows[r].outcome, "Abstained"}
  BY <1>3, <1>4
<1>6. Outstanding' \subseteq Outstanding
  BY <1>2, <1>5 DEF Outstanding, IsOpen, OpenOutcome
<1>7. ASSUME NEW r \in Sequential, NEW q \in Outstanding',
             decision'[r].outcome \in {"Approved", "Rejected"}, q[2] = r[2]
      PROVE  Place[q] >= Place[r]
  <2>1. r \in Rows /\ q \in Outstanding /\ q \in Rows /\ d \in Rows
    BY <1>6, RowAssumption DEF Outstanding
  <2>2. CASE r = d
    <3>1. Cycle[q] = Cycle[d]
      BY <2>1, ChainAssumption
    <3>2. ~(Place[q] < Place[d])
      BY <1>1, <1>7, <2>1, <2>2, <3>1 DEF IsTurn, WaitingOn
    <3> QED
      BY <2>1, <2>2, <3>2, RowAssumption
  <2>3. CASE r # d
    BY <1>2, <1>5, <1>7, <2>1, <2>3 DEF RequestInOrder
  <2> QED
    BY <2>2, <2>3
<1> QED
  BY <1>7 DEF RequestInOrder

(* Nobody decides a step before its turn, for any route: RequestInOrder.   *)
THEOREM OrderKept == Spec => []RequestInOrder
<1>1. Init => RequestInOrder
  <2> SUFFICES ASSUME Init PROVE RequestInOrder
    OBVIOUS
  <2>1. \A q \in Rows : decision[q] = Blank
    BY DEF Init, InitSteps
  <2>2. Blank.outcome \notin OpenOutcome
    BY DEF Blank, OpenOutcome, NotRaised
  <2>3. \A q \in Rows : ~IsOpen(q)
    BY <2>1, <2>2 DEF IsOpen
  <2> QED
    BY <2>3 DEF RequestInOrder, Outstanding
<1>2. ASSUME IInv, RequestInOrder, [Next]_vars PROVE RequestInOrder'
  <2>1. CASE UNCHANGED decision
    BY <1>2, <2>1 DEF RequestInOrder, Outstanding, IsOpen
  <2>2. \/ UNCHANGED decision
        \/ \E u \in Users : RequestApproval(u)
        \/ \E u \in Users, r \in Rows, o \in {"Approved", "Rejected"} : Decide(u, r, o)
    BY <1>2 DEF Next, vars, avars, Propose, DeskAcceptance, NameAnswerable, DelegationChanges
  <2> QED
    BY <1>2, <2>1, <2>2, AskingInOrder, DecidingInOrder
<1>3. IInv /\ RequestInOrder /\ [Next]_vars => RequestInOrder'
  BY <1>2
<1> QED
  BY <1>1, <1>3, Invariant, PTL DEF Spec
=============================================================================
