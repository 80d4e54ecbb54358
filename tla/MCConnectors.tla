---------------------------- MODULE MCConnectors ----------------------------
EXTENDS LocalConnectors

CONSTANTS c1, c2, c3, c4, c5, c6, p1, p2, p3

\* One call of each operation.
OneOfEachOperation ==
  [c \in Calls |-> CASE c = c1 -> "start_monitor" [] c = c2 -> "stop_worker"
                     [] c = c3 -> "restart_monitor" [] c = c4 -> "start_worker"
                     [] c = c5 -> "restart_worker" [] OTHER -> "stop_monitor"]
=============================================================================
