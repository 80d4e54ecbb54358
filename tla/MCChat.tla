------------------------------- MODULE MCChat -------------------------------
EXTENDS MessageAggregator

\* Message a1 and the immediate ones i1, i2 are of session "a", the others
\* of session "b".
TwoSessions == [q \in Queries |-> IF q \in {"b1", "b2"} THEN "b" ELSE "a"]
=============================================================================
