------------------------------ MODULE MCDrafts ------------------------------
EXTENDS DraftProcessing, TLC

CONSTANTS r1, r2, r3, e1, p1, p2

\* Two requests in one process and one in another.
TwoHosts == [r \in Requests |-> IF r = r3 THEN p2 ELSE p1]
=============================================================================
