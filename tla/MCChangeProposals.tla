------------------------- MODULE MCChangeProposals -------------------------
(* Small instances of ChangeProposals.                                     *)
EXTENDS ChangeProposals, TLC

CONSTANTS p1, p2, r1, r2, r3, t1, t2, c1, c2

\* one request per proposal
OneDecisionEach == [r \in Requests |-> IF r = r1 THEN p1 ELSE p2]
\* two operators race on p1 while a third decides p2
ThreeDecisions == [r \in Requests |-> IF r = r3 THEN p2 ELSE p1]

\* a device leaves the SoT and comes back
Decommissions == Configs \cup {Gone}

AllEdits == Configs \cup {NoIntent, Gone}

RaceSymmetry ==
    Permutations(Configs) \cup Permutations(Ticks) \cup Permutations({r1, r2})
=============================================================================
