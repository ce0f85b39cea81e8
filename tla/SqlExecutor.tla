---------------------------- MODULE SqlExecutor -----------------------------
(***************************************************************************)
(* PostgresSqlExecutor.execute (infrastructure/db/sql_executor.py): every  *)
(* request runs one guard-approved statement inside a READ ONLY transaction*)
(* with a statement timeout, after an optional EXPLAIN preflight.  One     *)
(* action is the code between two awaits of one request; requests share    *)
(* the pool and the Prometheus counters.  A definition X_Y marked "slip" is *)
(* no part of the model: it is X with a mistake the properties must notice. *)
(***************************************************************************)
EXTENDS ConnectionPool, Ports, Integers

CONSTANTS
    Policies,                     \* the preflight settings a process may have
    MaxTotalCost, MaxPlanRows,    \* db_explain_max_total_cost, db_explain_max_plan_rows
    Unknown,                      \* a figure EXPLAIN did not report (None)
    Estimates,                    \* the plans the server may answer
    Workload,                     \* the statements the guard let through
    RowCaps                       \* the max_rows the callers pass

Estimate  == [cost : Nat \cup {Unknown}, rows : Nat \cup {Unknown}]

(* db_explain_preflight_enabled and db_explain_strict *)
Policy == [preflight : BOOLEAN, strict : BOOLEAN]

ASSUME PolicyAssumption == Policies \subseteq Policy
ASSUME BudgetAssumption ==
    MaxTotalCost \in Nat /\ MaxPlanRows \in Nat /\ Unknown \notin Nat
ASSUME InputAssumption ==
    /\ Estimates \subseteq Estimate
    /\ Workload \subseteq Statement
    /\ RowCaps \subseteq Nat

VARIABLES
    policy,           \* the settings of this process, fixed at start-up
    exPc,             \* exPc[r]: the await at which r's call is suspended
    frame,            \* frame[r]: the locals of that call
    exOut,            \* exOut[r]: what the call returned or raised
    preflightTotal,   \* sql_preflight_explain_total, by outcome
    execTotal,        \* observations of sql_exec_latency_seconds, by outcome
    costExceeded      \* sql_cost_exceeded_total

exVars == <<exPc, frame, exOut, preflightTotal, execTotal, costExceeded>>
executorVars == <<poolVars, policy, exVars>>

PreflightEnabled == policy.preflight
Strict == policy.strict
meters == <<preflightTotal, execTotal, costExceeded>>

(* Where a call holds a connection. *)
HeldPcs == {"begin", "readonly", "timeout", "explain", "query", "commit",
            "unwind"}
ExPc == {"idle", "connect", "done"} \cup HeldPcs

(* The suffix _strict or _relaxed of a label is Strict, fixed per process.   *)
PreflightLabels == {"disabled", "timeout", "error", "empty_plan",
                    "parse_error", "cost_exceeded", "ok"}
ExecLabels == {"success", "timeout", "error"}

Raised == {"none", "QueryCanceled", "PsycopgError", "QueryTimeoutError",
           "QueryExecutionError", "QueryCostExceededError"}

NoEstimate == [cost |-> Unknown, rows |-> Unknown]

Frame == [sql : Statement, maxRows : Nat, est : Estimate, warned : BOOLEAN,
          hits : Nat, raw : Nat, raised : Raised]

EmptyFrame ==
    [sql |-> [writes |-> FALSE, limit |-> 0], maxRows |-> 0,
     est |-> NoEstimate, warned |-> FALSE, hits |-> 0, raw |-> 0,
     raised |-> "none"]

QueryResult == [code : {"none", "ok", "query_timeout", "query_execution_failed",
                        "query_cost_exceeded"},
                rows : Nat, truncated : BOOLEAN, warned : BOOLEAN,
                est : Estimate]

Failure(code) == [code |-> code, rows |-> 0, truncated |-> FALSE,
                  warned |-> FALSE, est |-> NoEstimate]
-----------------------------------------------------------------------------
Goto(r, pc)     == exPc' = [exPc EXCEPT ![r] = pc]
Raise(r, error) == /\ Goto(r, "unwind")
                   /\ frame' = [frame EXCEPT ![r].raised = error]
Count(counter, label) == [counter EXCEPT ![label] = @ + 1]
At(r, c, pc) == exPc[r] = pc /\ Holds(r, c)

ExecutorInit ==
    /\ PoolInit
    /\ policy \in Policies
    /\ exPc = [r \in Requests |-> "idle"]
    /\ frame = [r \in Requests |-> EmptyFrame]
    /\ exOut = [r \in Requests |-> Failure("none")]
    /\ preflightTotal = [l \in PreflightLabels |-> 0]
    /\ execTotal = [l \in ExecLabels |-> 0]
    /\ costExceeded = 0

Execute(r, sql, maxRows) ==
    /\ exPc[r] = "idle"
    /\ Goto(r, "connect")
    /\ frame' = [frame EXCEPT ![r] = [EmptyFrame EXCEPT !.sql = sql,
                                                        !.maxRows = maxRows]]
    /\ Enqueue(r)
    /\ UNCHANGED <<exOut, meters>>

ConnectionGranted(r, c) ==
    /\ exPc[r] = "connect"
    /\ Grant(r, c)
    /\ Goto(r, "begin")
    /\ UNCHANGED <<frame, exOut, meters>>

(* PoolTimeout and PoolClosed are psycopg.Errors: the second except clause. *)
ConnectionRefused(r) ==
    /\ exPc[r] = "connect"
    /\ GiveUp(r)
    /\ Goto(r, "done")
    /\ exOut' = [exOut EXCEPT ![r] = Failure("query_execution_failed")]
    /\ execTotal' = Count(execTotal, "error")
    /\ UNCHANGED <<frame, preflightTotal, costExceeded>>

Begun(s) == [s EXCEPT !.tx = "open"]
ReadOnlySet_BeforeBegin(s) == s                            \* slip: no effect
ReadOnlySet(s) == [s EXCEPT !.readOnly = TRUE]
TimeoutSet_Dropped(s) == s                                 \* slip: no timeout
TimeoutSet_NotLocal(s) == [s EXCEPT !.cap = "session"]     \* slip: no LOCAL
TimeoutSet(s) == [s EXCEPT !.cap = "local"]

(* One of the three statements before the preflight. *)
Prepare(r, c, pc, s, next) ==
    /\ At(r, c, pc)
    /\ Live(c)
    /\ Exchange(c, s)
    /\ Goto(r, next)
    /\ UNCHANGED <<frame, exOut, meters>>

Begin(r, c) == Prepare(r, c, "begin", Begun(session[c]), "readonly")
SetReadOnly(r, c) == Prepare(r, c, "readonly", ReadOnlySet(session[c]), "timeout")
SetStatementTimeout(r, c) ==
    Prepare(r, c, "timeout", TimeoutSet(session[c]), "explain")

(* BEGIN, the two SETs or COMMIT find the link dead: psycopg.Error. *)
LinkLost(r, c) ==
    /\ exPc[r] \in {"begin", "readonly", "timeout", "commit"}
    /\ Holds(r, c)
    /\ ~Live(c)
    /\ Raise(r, "PsycopgError")
    /\ UNCHANGED <<poolVars, exOut, meters>>
-----------------------------------------------------------------------------
(* _preflight_explain *)

OverBudget_Inclusive(e) ==                                 \* slip: >= for >
    \/ e.cost # Unknown /\ e.cost >= MaxTotalCost
    \/ e.rows # Unknown /\ e.rows >= MaxPlanRows
OverBudget(e) ==
    \/ e.cost # Unknown /\ e.cost > MaxTotalCost
    \/ e.rows # Unknown /\ e.rows > MaxPlanRows

ExplainSkipped(r, c) ==
    /\ At(r, c, "explain")
    /\ ~PreflightEnabled
    /\ preflightTotal' = Count(preflightTotal, "disabled")
    /\ Goto(r, "query")
    /\ UNCHANGED <<poolVars, frame, exOut, execTotal, costExceeded>>

Explaining(r, c) == At(r, c, "explain") /\ PreflightEnabled

(* statement_timeout fires: also in relaxed mode the call is over. *)
ExplainCanceled(r, c) ==
    /\ Explaining(r, c)
    /\ Usable(c)
    /\ session[c].cap # "none"
    /\ Exchange(c, Aborted(session[c]))
    /\ preflightTotal' = Count(preflightTotal, "timeout")
    /\ Raise(r, "QueryTimeoutError")
    /\ UNCHANGED <<exOut, execTotal, costExceeded>>

(* The preflight found fault: strict raises, relaxed warns and goes on. *)
Objection(r, problem, error, est) ==
    /\ preflightTotal' = Count(preflightTotal, problem)
    /\ IF Strict
       THEN Raise(r, error)
       ELSE /\ Goto(r, "query")
            /\ frame' = [frame EXCEPT ![r].warned = TRUE, ![r].est = est]
    /\ UNCHANGED <<exOut, execTotal>>

(* Any other psycopg.Error: an unknown column, a refused table, a dead link. *)
ExplainErrs(r, c) ==
    /\ Explaining(r, c)
    /\ Exchange(c, Aborted(session[c]))
    /\ Objection(r, "error", "QueryExecutionError", NoEstimate)
    /\ UNCHANGED costExceeded

ExplainNoPlan(r, c) ==
    /\ Explaining(r, c)
    /\ Usable(c)
    /\ \E problem \in {"empty_plan", "parse_error"} :
           Objection(r, problem, "QueryExecutionError", NoEstimate)
    /\ UNCHANGED <<poolVars, costExceeded>>

ExplainOverBudget(r, c, est) ==
    /\ Explaining(r, c)
    /\ Usable(c)
    /\ OverBudget(est)
    /\ Objection(r, "cost_exceeded", "QueryCostExceededError", est)
    /\ costExceeded' = IF Strict THEN costExceeded + 1 ELSE costExceeded
    /\ UNCHANGED poolVars

ExplainWithinBudget(r, c, est) ==
    /\ Explaining(r, c)
    /\ Usable(c)
    /\ ~OverBudget(est)
    /\ preflightTotal' = Count(preflightTotal, "ok")
    /\ frame' = [frame EXCEPT ![r].est = est]
    /\ Goto(r, "query")
    /\ UNCHANGED <<poolVars, exOut, execTotal, costExceeded>>
-----------------------------------------------------------------------------
(* The statement itself *)

FetchSize_Exact(maxRows) == maxRows                        \* slip: no extra row
FetchSize(maxRows) == maxRows + 1     \* one more, to notice a cut result
Written(s, sql) == [s EXCEPT !.wrote = @ \/ sql.writes]

QueryRuns(r, c, hits) ==
    /\ At(r, c, "query")
    /\ Usable(c)
    /\ ~(frame[r].sql.writes /\ session[c].readOnly)
    /\ Exchange(c, Written(session[c], frame[r].sql))
    /\ frame' = [frame EXCEPT
                   ![r].hits = hits,
                   ![r].raw = Least(Least(hits, frame[r].sql.limit),
                                    FetchSize(frame[r].maxRows))]
    /\ Goto(r, "commit")
    /\ UNCHANGED <<exOut, meters>>

QueryCanceled(r, c) ==
    /\ At(r, c, "query")
    /\ Usable(c)
    /\ session[c].cap # "none"
    /\ Exchange(c, Aborted(session[c]))
    /\ Raise(r, "QueryCanceled")
    /\ UNCHANGED <<exOut, meters>>

(* A refused write, a hallucinated column, an aborted transaction, a dead link. *)
QueryErrs(r, c) ==
    /\ At(r, c, "query")
    /\ Exchange(c, Aborted(session[c]))
    /\ Raise(r, "PsycopgError")
    /\ UNCHANGED <<exOut, meters>>

Cut(raw, maxRows) == Least(raw, maxRows)          \* raw_rows[:max_rows]
IsTruncated(raw, maxRows) == raw > maxRows

Success(f) == [code |-> "ok", rows |-> Cut(f.raw, f.maxRows),
               truncated |-> IsTruncated(f.raw, f.maxRows),
               warned |-> f.warned, est |-> f.est]

(* COMMIT, the connection goes back, the result is built and returned. *)
Commit(r, c) ==
    /\ At(r, c, "commit")
    /\ Live(c)
    /\ Release(c)
    /\ committedWrite' = (committedWrite \/ session[c].wrote)
    /\ exOut' = [exOut EXCEPT ![r] = Success(frame[r])]
    /\ execTotal' = Count(execTotal, "success")
    /\ Goto(r, "done")
    /\ UNCHANGED <<frame, preflightTotal, costExceeded>>

(* What leaves execute, and under which label of the latency histogram: the *)
(* errors raised by the preflight pass both except clauses uncounted.       *)
CodeOf(error) ==
    CASE error \in {"QueryCanceled", "QueryTimeoutError"} -> "query_timeout"
      [] error = "QueryCostExceededError" -> "query_cost_exceeded"
      [] OTHER -> "query_execution_failed"

Observed_Everything(error) ==                              \* slip: except Exception
    CASE error = "QueryCanceled" -> Count(execTotal, "timeout")
      [] OTHER -> Count(execTotal, "error")
Observed(error) ==
    CASE error = "QueryCanceled" -> Count(execTotal, "timeout")
      [] error = "PsycopgError" -> Count(execTotal, "error")
      [] OTHER -> execTotal

Unwind_NoPutconn(r, c) ==                                  \* slip: no async with
    /\ At(r, c, "unwind")
    /\ Exchange(c, EndTx(session[c]))
    /\ exOut' = [exOut EXCEPT ![r] = Failure(CodeOf(frame[r].raised))]
    /\ execTotal' = Observed(frame[r].raised)
    /\ Goto(r, "done")
    /\ UNCHANGED <<frame, preflightTotal, costExceeded>>

(* ROLLBACK, whose own failure is ignored, and putconn on the way out. *)
Unwind(r, c) ==
    /\ At(r, c, "unwind")
    /\ Release(c)
    /\ exOut' = [exOut EXCEPT ![r] = Failure(CodeOf(frame[r].raised))]
    /\ execTotal' = Observed(frame[r].raised)
    /\ Goto(r, "done")
    /\ UNCHANGED <<committedWrite, frame, preflightTotal, costExceeded>>
-----------------------------------------------------------------------------
(* The steps of r's call in which slot c takes part. *)
ConnectionStep(r, c) ==
    \/ ConnectionGranted(r, c)
    \/ Begin(r, c)
    \/ SetReadOnly(r, c)
    \/ SetStatementTimeout(r, c)
    \/ LinkLost(r, c)
    \/ ExplainSkipped(r, c)
    \/ ExplainCanceled(r, c)
    \/ ExplainErrs(r, c)
    \/ ExplainNoPlan(r, c)
    \/ \E est \in Estimates : ExplainOverBudget(r, c, est)
    \/ \E est \in Estimates : ExplainWithinBudget(r, c, est)
    \/ \E hits \in Matches : QueryRuns(r, c, hits)
    \/ QueryCanceled(r, c)
    \/ QueryErrs(r, c)
    \/ Commit(r, c)
    \/ Unwind(r, c)

ExecutorStep(r) == ConnectionRefused(r) \/ \E c \in Conns : ConnectionStep(r, c)

CallExecute(r) ==
    \E sql \in Workload, maxRows \in RowCaps : Execute(r, sql, maxRows)

ExecutorNext ==
    /\ \/ Environment /\ UNCHANGED exVars
       \/ \E r \in Requests : CallExecute(r) \/ ExecutorStep(r)
    /\ UNCHANGED policy

ExecutorSpec == ExecutorInit /\ [][ExecutorNext]_executorVars

(* Steps that come without the server's good will: getconn answers within   *)
(* 30 seconds either way, the short statements return, the server's timer   *)
(* cancels a statement that runs too long, an unusable session errs at once.*)
(* That a statement is ever planned or run to its end is NOT assumed.       *)
Prompt(r) ==
    \/ ConnectionRefused(r)
    \/ \E c \in Conns :
        \/ ConnectionGranted(r, c)
        \/ Begin(r, c)
        \/ SetReadOnly(r, c)
        \/ SetStatementTimeout(r, c)
        \/ LinkLost(r, c)
        \/ ExplainSkipped(r, c)
        \/ ExplainCanceled(r, c)
        \/ ~Usable(c) /\ (ExplainErrs(r, c) \/ QueryErrs(r, c))
        \/ QueryCanceled(r, c)
        \/ Commit(r, c)
        \/ Unwind(r, c)

FairExecutorSpec ==
    ExecutorSpec /\ \A r \in Requests : WF_executorVars(Prompt(r) /\ UNCHANGED policy)
-----------------------------------------------------------------------------
(* Properties *)

(* Every variable has its type: no row count or counter is negative, every *)
(* frame and result is well formed.                                        *)
ExecutorTypeOK ==
    /\ PoolTypeOK
    /\ policy \in Policy
    /\ exPc \in [Requests -> ExPc]
    /\ frame \in [Requests -> Frame]
    /\ exOut \in [Requests -> QueryResult]
    /\ preflightTotal \in [PreflightLabels -> Nat]
    /\ execTotal \in [ExecLabels -> Nat]
    /\ costExceeded \in Nat

(* The async with blocks of execute: a call owns exactly one connection from *)
(* the moment the pool grants it until it ends, on every error path, and is  *)
(* queued in the pool exactly while it waits; none leaks when calls race.    *)
HolderDiscipline ==
    /\ \A r \in Requests : r \in waiting <=> exPc[r] = "connect"
    /\ \A r \in Requests : exPc[r] \in HeldPcs <=> \E c \in Conns : Holds(r, c)
    /\ \A r \in Requests, c, d \in Conns : Holds(r, c) /\ Holds(r, d) => c = d

(* The next borrower inherits nothing: whatever the last call did and however *)
(* it ended, a slot in the pool has no transaction, no READ ONLY mode and no  *)
(* statement_timeout left on its session.                                     *)
IdleConnectionsClean ==
    \A c \in Conns : holder[c] = Nobody => session[c] = Idle(session[c].link)

(* Untrusted SQL reaches the server only inside the READ ONLY transaction and *)
(* under the timeout; a reconnection in between never strips them.            *)
StatementsConfined ==
    \A r \in Requests, c \in Conns :
        Holds(r, c) /\ exPc[r] \in {"explain", "query"} /\ Live(c) =>
            session[c].readOnly /\ session[c].cap # "none"

(* What keeps the facts above true from one step to the next: a borrowed slot *)
(* has a connection, READ ONLY is on before the timeout is set, no setting    *)
(* outlives its transaction and no transaction has written.  The conjunction  *)
(* is inductive, which SqlExecutor_proofs shows.                              *)
BorrowedOpen == \A c \in Conns : holder[c] # Nobody => session[c].link # "closed"
ReadOnlyFirst ==
    \A r \in Requests, c \in Conns :
        At(r, c, "timeout") /\ Live(c) => session[c].readOnly
SessionsHarmless ==
    \A c \in Conns : ~session[c].wrote /\ session[c].cap # "session"
ExecutorInv ==
    /\ ExecutorTypeOK /\ HolderDiscipline /\ IdleConnectionsClean
    /\ BorrowedOpen /\ ReadOnlyFirst /\ SessionsHarmless /\ StatementsConfined
    /\ ~committedWrite

(* Layer 2 of the safety model on its own: even when a write slipped past the *)
(* guard (a statement of Workload that writes), no write is ever committed.   *)
NoWriteCommits == ~committedWrite

(* The rows the caller sees are the first max_rows of those the statement     *)
(* returns, and truncated is set exactly when some were cut off.              *)
DeliveredRows ==
    \A r \in Requests : exOut[r].code = "ok" =>
        LET f == frame[r]
            returned == IF f.hits <= f.sql.limit THEN f.hits ELSE f.sql.limit
        IN  /\ exOut[r].rows <= f.maxRows
            /\ exOut[r].truncated <=> returned > f.maxRows
            /\ ~exOut[r].truncated => exOut[r].rows = returned
            /\ exOut[r].truncated => exOut[r].rows = f.maxRows

Affordable(e) == /\ e.cost = Unknown \/ e.cost <= MaxTotalCost
                 /\ e.rows = Unknown \/ e.rows <= MaxPlanRows

(* No query runs that the strict preflight should have stopped, and a relaxed *)
(* answer carries a warning exactly when its plan was unknown or too dear.    *)
PreflightHonoured ==
    \A r \in Requests :
        LET f == frame[r]
            fault == PreflightEnabled /\ (f.est = NoEstimate \/ ~Affordable(f.est))
        IN  /\ exPc[r] \in {"query", "commit"} /\ Strict => ~fault
            /\ exOut[r].code = "ok" => (exOut[r].warned <=> fault)

(* Each finished call is counted once and under one metric: its latency, or   *)
(* the preflight outcome that rejected it.                                    *)
RejectedByPreflight ==
    preflightTotal["timeout"] +
    (IF Strict THEN preflightTotal["error"] + preflightTotal["empty_plan"]
                    + preflightTotal["parse_error"] + preflightTotal["cost_exceeded"]
     ELSE 0)
Counted(r) ==
    \/ exPc[r] = "done"
    \/ exPc[r] = "unwind" /\ frame[r].raised \notin {"QueryCanceled", "PsycopgError"}
ExecAccounting ==
    Cardinality({r \in Requests : Counted(r)}) =
        execTotal["success"] + execTotal["timeout"] + execTotal["error"]
        + RejectedByPreflight

(* Every call ends, although the server need never finish a statement, may    *)
(* stop at any point and every connection may be taken: the 30 seconds of the *)
(* pool and the statement_timeout of the transaction are what it relies on.   *)
CallsComplete ==
    \A r \in Requests : exPc[r] = "connect" ~> exPc[r] = "done"

(* Claimed by test_explain_relaxed_error_adds_warning_and_continues and by    *)
(* the warning "Could not run EXPLAIN preflight; proceeding.": after a failed *)
(* EXPLAIN the relaxed mode goes on to a query that can still succeed.        *)
ProceedsAfterExplainError ==
    \A r \in Requests, c \in Conns :
        At(r, c, "query") /\ Live(c) => session[c].tx = "open"
=============================================================================
