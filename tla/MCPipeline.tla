----------------------------- MODULE MCPipeline -----------------------------
EXTENDS PipelineController

\* Queries a1, a2 and the immediate ones i1, i2 are of session "a", b1 of
\* session "b".
TwoSessions == [q \in Queries |-> IF q = "b1" THEN "b" ELSE "a"]
=============================================================================
