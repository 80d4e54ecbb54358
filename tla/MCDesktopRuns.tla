---------------------------- MODULE MCDesktopRuns ----------------------------
EXTENDS DesktopRuns

CONSTANTS r1, r2, r3, c1, send, again

\* A send, a repetition of it with its key, and a send with another key.
RepeatedKey == [r \in Requests |-> IF r = r3 THEN again ELSE send]
=============================================================================
