--------------------------- MODULE MCSqlExecutor ----------------------------
(* Instances of SqlExecutor for TLC: a statement that writes and two reads    *)
(* (one with a LIMIT below, one above the row cap), plans under, at and over  *)
(* each budget and with a missing figure, and 0, 2 or 4 matching rows.        *)
EXTENDS SqlExecutorContract

MCRelaxed == [preflight |-> TRUE, strict |-> FALSE]
MCNoPreflight == [preflight |-> FALSE, strict |-> FALSE]
MCPolicies == {MCRelaxed, [preflight |-> TRUE, strict |-> TRUE], MCNoPreflight}
MCOnlyRelaxed == {MCRelaxed}

MCWorkload == {[writes |-> TRUE, limit |-> 2], [writes |-> FALSE, limit |-> 1],
               [writes |-> FALSE, limit |-> 3]}
MCEstimates == {[cost |-> 10, rows |-> 10], [cost |-> 11, rows |-> 1],
                [cost |-> 1, rows |-> 11], [cost |-> Unknown, rows |-> 1]}
MCRowCaps == {2}
MCMatches == {0, 2, 4}
=============================================================================
