------------------------ MODULE SqlExecutorContract -------------------------
(***************************************************************************)
(* PostgresSqlExecutor implements the contract the use case relies on: its *)
(* transaction, preflight, outages and error paths are invisible steps     *)
(* between borrowing a connection and giving it back.                      *)
(***************************************************************************)
EXTENDS SqlExecutor, ErrorMapping

PhaseOf(pc) ==
    CASE pc = "idle" -> "idle"
      [] pc = "connect" -> "queued"
      [] pc \in HeldPcs -> "holding"
      [] pc = "done" -> "done"

OutcomeOf(r) ==
    QueryOutcome(exOut[r].code, exOut[r].rows, exOut[r].truncated,
                 IF exOut[r].code = "ok" THEN frame[r].hits ELSE 0)

Contract == INSTANCE DbCall WITH
    Callers <- Requests, Slots <- Conns,
    Answers <- ExecuteOutcomes,
    Refusal <- QueryFailed("query_execution_failed"),
    phase <- [r \in Requests |-> PhaseOf(exPc[r])],
    arg <- [r \in Requests |-> [sql |-> frame[r].sql, maxRows |-> frame[r].maxRows]],
    result <- [r \in Requests |-> OutcomeOf(r)]

ContractInit ==
    /\ \A r \in Requests : exPc[r] = "idle" /\ OutcomeOf(r) = QueryFailed("none")
    /\ \A c \in Conns : holder[c] = Nobody

(* Every step of the executor is a step of the contract or changes nothing    *)
(* the use case can see: a call answers once, only with what the port allows  *)
(* for its own statement and row cap, a statement that would write is never   *)
(* answered with rows, and no slot is taken or freed at any other time.       *)
ContractStep ==
    \E r \in Requests :
        \/ \E sql \in Workload, maxRows \in RowCaps :
               Contract!Call(r, [sql |-> sql, maxRows |-> maxRows])
        \/ Contract!Serve(r)
ImplementsContract ==
    ContractInit /\ [][ContractStep]_<<Contract!callVars, holder>>

(* Claimed by api/routers/ask.py for 503, "LLM or database unavailable": a    *)
(* call that never got a connection is reported as unavailable.               *)
OutageReportedAs503 ==
    \A r \in Requests : exPc[r] = "done" /\ exOut[r].code # "ok"
                            /\ frame[r].raised = "none"
                        => Status(exOut[r].code) = 503
=============================================================================
