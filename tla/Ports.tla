------------------------------- MODULE Ports --------------------------------
(***************************************************************************)
(* What the use case and the adapters agree on (domain/ports.py,           *)
(* domain/entities.py, domain/exceptions.py): the statement handed to the  *)
(* SqlExecutor port, the results its contract allows, and the error codes. *)
(***************************************************************************)
EXTENDS Naturals

CONSTANT Matches      \* how many rows a statement matches before any LIMIT
ASSUME MatchesAssumption == Matches \subseteq Nat

Least(m, n) == IF m < n THEN m ELSE n

(* A statement past the guard; writes: whether PostgreSQL would have to write *)
(* in order to run it, which the guard cannot see for certain.                *)
Statement == [writes : BOOLEAN, limit : Nat]

QueryCodes == {"query_timeout", "query_execution_failed", "query_cost_exceeded"}

(* The part of QueryResult the contract is about. *)
QueryOutcome(code, rows, truncated, matched) ==
    [code |-> code, rows |-> rows, truncated |-> truncated, matched |-> matched]
QueryFailed(code) == QueryOutcome(code, 0, FALSE, 0)

(* The rows of a statement that matches n, cut at maxRows. *)
QueryAnswered(n, sql, maxRows) ==
    QueryOutcome("ok", Least(Least(n, sql.limit), maxRows),
                 Least(n, sql.limit) > maxRows, n)

(* SqlExecutor.execute: a statement that would write never succeeds. *)
ExecuteOutcomes(call) ==
    {QueryFailed(code) : code \in QueryCodes}
    \cup {QueryAnswered(n, call.sql, call.maxRows) :
              n \in {m \in Matches : ~call.sql.writes}}
=============================================================================
