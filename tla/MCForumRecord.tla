---------------------------- MODULE MCForumRecord ----------------------------
(* One forum, two values of each kind of field.                            *)
EXTENDS ForumRecord, TLC

CONSTANTS m1, m2, n1, n2, alice, bob

MCMandates == {m1, m2}
MCNotes == {n1, n2}
MCPeople == {alice, bob}

Symmetry == Permutations(MCMandates) \cup Permutations(MCNotes) \cup Permutations(MCPeople)
=============================================================================
