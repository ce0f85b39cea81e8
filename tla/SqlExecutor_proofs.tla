------------------------- MODULE SqlExecutor_proofs -------------------------
(***************************************************************************)
(* What holds of PostgresSqlExecutor for any number of requests and slots, *)
(* any preflight policy, any plans, statements and row caps: what it does  *)
(* to connections and data, and, from there, what a call answers and that  *)
(* it is a call of DbCall.                                                 *)
(***************************************************************************)
EXTENDS SqlExecutorContract, ConnectionPool_proofs, FiniteSetTheorems, TLAPS
-----------------------------------------------------------------------------
(* Sessions *)

(* Every operation on a session, also the ones of the executor, yields a    *)
(* session.                                                                 *)
LEMMA SessionOpsTyped ==
    ASSUME NEW s \in Session, NEW sql \in Statement
    PROVE  /\ EndTx(s) \in Session
           /\ Aborted(s) \in Session
           /\ Returned(s) \in Session
           /\ Begun(s) \in Session
           /\ ReadOnlySet(s) \in Session
           /\ TimeoutSet(s) \in Session
           /\ Written(s, sql) \in Session
<1>1. /\ Begun(s) \in Session
      /\ ReadOnlySet(s) \in Session
      /\ TimeoutSet(s) \in Session
  BY DEF Begun, ReadOnlySet, TimeoutSet, Session
<1>2. Written(s, sql) \in Session
  BY DEF Written, Session, Statement
<1>3. QED
  BY <1>1, <1>2, ReturnedTyped

(* There is a statement: the one of an empty frame.                         *)
LEMMA EmptyStatement == [writes |-> FALSE, limit |-> 0] \in Statement
  BY DEF Statement

-----------------------------------------------------------------------------
(* Type correctness *)

(* Values a call handles are well formed.                                   *)
LEMMA EmptyFrameTyped == EmptyFrame \in Frame
<1>1. NoEstimate \in Estimate
  BY DEF NoEstimate, Estimate
<1>2. QED
  BY <1>1, EmptyStatement DEF EmptyFrame, Frame, Raised

LEMMA FailureTyped ==
    ASSUME NEW code \in {"none"} \cup QueryCodes
    PROVE  Failure(code) \in QueryResult
  BY DEF Failure, QueryResult, QueryCodes, NoEstimate, Estimate

LEMMA SuccessTyped ==
    ASSUME NEW f \in Frame
    PROVE  Success(f) \in QueryResult
<1>1. Cut(f.raw, f.maxRows) \in Nat /\ IsTruncated(f.raw, f.maxRows) \in BOOLEAN
  BY DEF Cut, IsTruncated, Least, Frame
<1>2. QED
  BY <1>1 DEF Success, QueryResult, Frame

LEMMA CountTyped ==
    ASSUME NEW Labels, NEW counter \in [Labels -> Nat], NEW label \in Labels
    PROVE  Count(counter, label) \in [Labels -> Nat]
  BY DEF Count

LEMMA ObservedTyped ==
    ASSUME execTotal \in [ExecLabels -> Nat], NEW error
    PROVE  Observed(error) \in [ExecLabels -> Nat]
<1>1. "timeout" \in ExecLabels /\ "error" \in ExecLabels
  BY DEF ExecLabels
<1>2. /\ Count(execTotal, "timeout") \in [ExecLabels -> Nat]
      /\ Count(execTotal, "error") \in [ExecLabels -> Nat]
  BY <1>1, CountTyped
<1>3. QED
  BY <1>2 DEF Observed

LEMMA CodeOfTyped ==
    ASSUME NEW error
    PROVE  CodeOf(error) \in QueryCodes
  BY DEF CodeOf, QueryCodes

(* The two groups of variables besides the pool and the policy.             *)
CallTypeOK ==
    /\ exPc \in [Requests -> ExPc]
    /\ frame \in [Requests -> Frame]
    /\ exOut \in [Requests -> QueryResult]

MeterTypeOK ==
    /\ preflightTotal \in [PreflightLabels -> Nat]
    /\ execTotal \in [ExecLabels -> Nat]
    /\ costExceeded \in Nat

LEMMA GotoTyped ==
    ASSUME exPc \in [Requests -> ExPc], NEW r \in Requests, NEW pc \in ExPc, Goto(r, pc)
    PROVE  exPc' \in [Requests -> ExPc]
  BY DEF Goto

LEMMA RaiseTyped ==
    ASSUME CallTypeOK, NEW r \in Requests, NEW error \in Raised, Raise(r, error)
    PROVE  exPc' \in [Requests -> ExPc] /\ frame' \in [Requests -> Frame]
<1>1. "unwind" \in ExPc
  BY DEF ExPc, HeldPcs
<1>2. exPc' \in [Requests -> ExPc]
  BY <1>1, GotoTyped DEF Raise, CallTypeOK
<1>3. [frame[r] EXCEPT !.raised = error] \in Frame
  BY DEF CallTypeOK, Frame
<1>4. frame' \in [Requests -> Frame]
  BY <1>3 DEF Raise, CallTypeOK
<1>5. QED
  BY <1>2, <1>4

(* An objection of the preflight, strict or relaxed.                        *)
LEMMA ObjectionTyped ==
    ASSUME CallTypeOK, MeterTypeOK, NEW r \in Requests, NEW problem \in PreflightLabels,
           NEW error \in Raised, NEW est \in Estimate, Objection(r, problem, error, est)
    PROVE  /\ CallTypeOK'
           /\ preflightTotal' \in [PreflightLabels -> Nat]
           /\ execTotal' \in [ExecLabels -> Nat]
<1>1. preflightTotal' \in [PreflightLabels -> Nat]
  BY CountTyped DEF Objection, MeterTypeOK
<1>2. exOut' = exOut /\ execTotal' = execTotal
  BY DEF Objection
<1>3. CASE Strict
  BY <1>1, <1>2, <1>3, RaiseTyped DEF Objection, CallTypeOK, MeterTypeOK
<1>4. CASE ~Strict
  <2>1. exPc' \in [Requests -> ExPc]
    BY <1>4, GotoTyped DEF Objection, CallTypeOK, ExPc, HeldPcs
  <2>2. [[frame[r] EXCEPT !.warned = TRUE] EXCEPT !.est = est] \in Frame
    BY DEF CallTypeOK, Frame
  <2>3. frame' \in [Requests -> Frame]
    BY <1>4, <2>2 DEF Objection, CallTypeOK
  <2>4. QED
    BY <1>1, <1>2, <2>1, <2>3 DEF CallTypeOK, MeterTypeOK
<1>5. QED
  BY <1>3, <1>4
(* Type correctness, one step per action                                    *)

(* The initial states of a process have their types.                        *)
LEMMA InitTyped == ExecutorInit => ExecutorTypeOK
<1> SUFFICES ASSUME ExecutorInit PROVE ExecutorTypeOK
  OBVIOUS
<1>1. PoolTypeOK
  BY IdleTyped DEF ExecutorInit, PoolInit, PoolTypeOK
<1>2. exPc \in [Requests -> ExPc]
  BY DEF ExecutorInit, ExPc
<1>3. frame \in [Requests -> Frame]
  BY EmptyFrameTyped DEF ExecutorInit
<1>4. exOut \in [Requests -> QueryResult]
  BY FailureTyped DEF ExecutorInit
<1>5. policy \in Policy
  BY PolicyAssumption DEF ExecutorInit
<1>6. /\ preflightTotal \in [PreflightLabels -> Nat]
      /\ execTotal \in [ExecLabels -> Nat]
      /\ costExceeded \in Nat
  BY DEF ExecutorInit
<1>7. QED
  BY <1>1, <1>2, <1>3, <1>4, <1>5, <1>6 DEF ExecutorTypeOK

(* The steps that wait for the pool, and the environment, keep all types.   *)
LEMMA PoolStepsTyped ==
    ASSUME PoolTypeOK, CallTypeOK, MeterTypeOK, NEW r \in Requests,
           \/ CallExecute(r)
           \/ \E c \in Conns : ConnectionGranted(r, c)
           \/ ConnectionRefused(r)
    PROVE  PoolTypeOK' /\ CallTypeOK' /\ MeterTypeOK'
<1>1. ASSUME NEW sql \in Workload, NEW maxRows \in RowCaps, Execute(r, sql, maxRows)
      PROVE  PoolTypeOK' /\ CallTypeOK' /\ MeterTypeOK'
  <2>1. sql \in Statement /\ maxRows \in Nat
    BY InputAssumption
  <2>2. [[EmptyFrame EXCEPT !.sql = sql] EXCEPT !.maxRows = maxRows] \in Frame
    BY <2>1, EmptyFrameTyped DEF Frame
  <2>3. frame' \in [Requests -> Frame]
    BY <1>1, <2>2 DEF Execute, CallTypeOK
  <2>4. exPc' \in [Requests -> ExPc]
    BY <1>1, GotoTyped DEF Execute, CallTypeOK, ExPc
  <2>5. PoolTypeOK'
    BY <1>1 DEF Execute, Enqueue, PoolTypeOK
  <2>6. QED
    BY <1>1, <2>3, <2>4, <2>5 DEF Execute, CallTypeOK, MeterTypeOK, meters
<1>2. ASSUME NEW c \in Conns, ConnectionGranted(r, c)
      PROVE  PoolTypeOK' /\ CallTypeOK' /\ MeterTypeOK'
  <2>1. exPc' \in [Requests -> ExPc]
    BY <1>2, GotoTyped DEF ConnectionGranted, CallTypeOK, ExPc, HeldPcs
  <2>2. PoolTypeOK'
    BY <1>2 DEF ConnectionGranted, Grant, PoolTypeOK
  <2>3. QED
    BY <1>2, <2>1, <2>2 DEF ConnectionGranted, CallTypeOK, MeterTypeOK, meters
<1>3. CASE ConnectionRefused(r)
  <2>1. exPc' \in [Requests -> ExPc]
    BY <1>3, GotoTyped DEF ConnectionRefused, CallTypeOK, ExPc
  <2>2. PoolTypeOK'
    BY <1>3 DEF ConnectionRefused, GiveUp, PoolTypeOK
  <2>3. exOut' \in [Requests -> QueryResult]
    BY <1>3, FailureTyped DEF ConnectionRefused, CallTypeOK, QueryCodes
  <2>4. execTotal' \in [ExecLabels -> Nat]
    BY <1>3, CountTyped DEF ConnectionRefused, MeterTypeOK, ExecLabels
  <2>5. QED
    BY <1>3, <2>1, <2>2, <2>3, <2>4 DEF ConnectionRefused, CallTypeOK, MeterTypeOK
<1>4. QED
  BY <1>1, <1>2, <1>3 DEF CallExecute

(* BEGIN, the two SETs and a dead link found by them keep all types.        *)
LEMMA PrepareTyped ==
    ASSUME PoolTypeOK, CallTypeOK, MeterTypeOK, NEW r \in Requests, NEW c \in Conns,
           \/ Begin(r, c)
           \/ SetReadOnly(r, c)
           \/ SetStatementTimeout(r, c)
           \/ LinkLost(r, c)
    PROVE  PoolTypeOK' /\ CallTypeOK' /\ MeterTypeOK'
<1>1. session[c] \in Session
  BY DEF PoolTypeOK
<1>2. ASSUME NEW pc, NEW s \in Session, NEW next \in ExPc, Prepare(r, c, pc, s, next)
      PROVE  PoolTypeOK' /\ CallTypeOK' /\ MeterTypeOK'
  <2>1. PoolTypeOK'
    BY <1>2, ExchangeTyped DEF Prepare
  <2>2. exPc' \in [Requests -> ExPc]
    BY <1>2, GotoTyped DEF Prepare, CallTypeOK
  <2>3. QED
    BY <1>2, <2>1, <2>2 DEF Prepare, CallTypeOK, MeterTypeOK, meters
<1>3. /\ Begun(session[c]) \in Session
      /\ ReadOnlySet(session[c]) \in Session
      /\ TimeoutSet(session[c]) \in Session
  BY <1>1, SessionOpsTyped, EmptyStatement
<1>4. {"readonly", "timeout", "explain"} \subseteq ExPc
  BY DEF ExPc, HeldPcs
<1>5. CASE Begin(r, c)
  BY <1>2, <1>3, <1>4, <1>5 DEF Begin
<1>6. CASE SetReadOnly(r, c)
  BY <1>2, <1>3, <1>4, <1>6 DEF SetReadOnly
<1>7. CASE SetStatementTimeout(r, c)
  BY <1>2, <1>3, <1>4, <1>7 DEF SetStatementTimeout
<1>8. CASE LinkLost(r, c)
  BY <1>8, RaiseTyped DEF LinkLost, poolVars, meters, PoolTypeOK, CallTypeOK,
                          MeterTypeOK, Raised
<1>9. QED
  BY <1>5, <1>6, <1>7, <1>8

(* The outcomes of the EXPLAIN preflight keep all types.                    *)
LEMMA PreflightTyped ==
    ASSUME PoolTypeOK, CallTypeOK, MeterTypeOK, NEW r \in Requests, NEW c \in Conns,
           \/ ExplainSkipped(r, c)
           \/ ExplainCanceled(r, c)
           \/ ExplainErrs(r, c)
           \/ ExplainNoPlan(r, c)
           \/ \E est \in Estimates : ExplainOverBudget(r, c, est)
           \/ \E est \in Estimates : ExplainWithinBudget(r, c, est)
    PROVE  PoolTypeOK' /\ CallTypeOK' /\ MeterTypeOK'
<1>1. Estimates \subseteq Estimate /\ NoEstimate \in Estimate
  BY InputAssumption DEF NoEstimate, Estimate
<1>2. Aborted(session[c]) \in Session
  BY SessionOpsTyped, EmptyStatement DEF PoolTypeOK
<1>3. /\ "query" \in ExPc
      /\ {"QueryTimeoutError", "QueryExecutionError", "QueryCostExceededError"}
             \subseteq Raised
      /\ {"disabled", "timeout", "error", "empty_plan", "parse_error",
          "cost_exceeded", "ok"} \subseteq PreflightLabels
  BY DEF ExPc, HeldPcs, Raised, PreflightLabels
<1>4. CASE ExplainSkipped(r, c)
  <2>1. exPc' \in [Requests -> ExPc]
    BY <1>3, <1>4, GotoTyped DEF ExplainSkipped, CallTypeOK
  <2>2. preflightTotal' \in [PreflightLabels -> Nat]
    BY <1>3, <1>4, CountTyped DEF ExplainSkipped, MeterTypeOK
  <2>3. QED
    BY <1>4, <2>1, <2>2 DEF ExplainSkipped, poolVars, PoolTypeOK, CallTypeOK, MeterTypeOK
<1>5. CASE ExplainCanceled(r, c)
  <2>1. PoolTypeOK'
    BY <1>2, <1>5, ExchangeTyped DEF ExplainCanceled
  <2>2. exPc' \in [Requests -> ExPc] /\ frame' \in [Requests -> Frame]
    BY <1>3, <1>5, RaiseTyped DEF ExplainCanceled
  <2>3. preflightTotal' \in [PreflightLabels -> Nat]
    BY <1>3, <1>5, CountTyped DEF ExplainCanceled, MeterTypeOK
  <2>4. QED
    BY <1>5, <2>1, <2>2, <2>3 DEF ExplainCanceled, CallTypeOK, MeterTypeOK
<1>6. CASE ExplainErrs(r, c)
  <2>1. PoolTypeOK'
    BY <1>2, <1>6, ExchangeTyped DEF ExplainErrs
  <2>2. QED
    BY <1>1, <1>3, <1>6, <2>1, ObjectionTyped DEF ExplainErrs, MeterTypeOK
<1>7. CASE ExplainNoPlan(r, c)
  <2>1. PICK problem \in {"empty_plan", "parse_error"} :
            Objection(r, problem, "QueryExecutionError", NoEstimate)
    BY <1>7 DEF ExplainNoPlan
  <2>2. QED
    BY <1>1, <1>3, <1>7, <2>1, ObjectionTyped
    DEF ExplainNoPlan, MeterTypeOK, poolVars, PoolTypeOK
<1>8. ASSUME NEW est \in Estimates, ExplainOverBudget(r, c, est)
      PROVE  PoolTypeOK' /\ CallTypeOK' /\ MeterTypeOK'
  <2>1. /\ CallTypeOK'
        /\ preflightTotal' \in [PreflightLabels -> Nat]
        /\ execTotal' \in [ExecLabels -> Nat]
    BY <1>1, <1>3, <1>8, ObjectionTyped DEF ExplainOverBudget
  <2>2. costExceeded' \in Nat
    BY <1>8 DEF ExplainOverBudget, MeterTypeOK
  <2>3. QED
    BY <1>8, <2>1, <2>2 DEF ExplainOverBudget, MeterTypeOK, poolVars, PoolTypeOK
<1>9. ASSUME NEW est \in Estimates, ExplainWithinBudget(r, c, est)
      PROVE  PoolTypeOK' /\ CallTypeOK' /\ MeterTypeOK'
  <2>1. exPc' \in [Requests -> ExPc]
    BY <1>3, <1>9, GotoTyped DEF ExplainWithinBudget, CallTypeOK
  <2>2. preflightTotal' \in [PreflightLabels -> Nat]
    BY <1>3, <1>9, CountTyped DEF ExplainWithinBudget, MeterTypeOK
  <2>3. [frame[r] EXCEPT !.est = est] \in Frame
    BY <1>1 DEF CallTypeOK, Frame
  <2>4. frame' \in [Requests -> Frame]
    BY <1>9, <2>3 DEF ExplainWithinBudget, CallTypeOK
  <2>5. QED
    BY <1>9, <2>1, <2>2, <2>4
    DEF ExplainWithinBudget, poolVars, PoolTypeOK, CallTypeOK, MeterTypeOK
<1>10. QED
  BY <1>4, <1>5, <1>6, <1>7, <1>8, <1>9

(* Running the statement, committing and unwinding keep all types.          *)
LEMMA QueryTyped ==
    ASSUME PoolTypeOK, CallTypeOK, MeterTypeOK, NEW r \in Requests, NEW c \in Conns,
           \/ \E hits \in Matches : QueryRuns(r, c, hits)
           \/ QueryCanceled(r, c)
           \/ QueryErrs(r, c)
           \/ Commit(r, c)
           \/ Unwind(r, c)
    PROVE  PoolTypeOK' /\ CallTypeOK' /\ MeterTypeOK'
<1>1. frame[r] \in Frame /\ session[c] \in Session
  BY DEF CallTypeOK, PoolTypeOK
<1>2. frame[r].sql \in Statement
  BY <1>1 DEF Frame
<1>3. Aborted(session[c]) \in Session /\ Written(session[c], frame[r].sql) \in Session
  BY <1>1, <1>2, SessionOpsTyped
<1>4. {"QueryCanceled", "PsycopgError"} \subseteq Raised
  BY DEF Raised
<1>5. ASSUME NEW hits \in Matches, QueryRuns(r, c, hits)
      PROVE  PoolTypeOK' /\ CallTypeOK' /\ MeterTypeOK'
  <2>1. PoolTypeOK'
    BY <1>3, <1>5, ExchangeTyped DEF QueryRuns
  <2>2. exPc' \in [Requests -> ExPc]
    BY <1>5, GotoTyped DEF QueryRuns, CallTypeOK, ExPc, HeldPcs
  <2> DEFINE raw == Least(Least(hits, frame[r].sql.limit), FetchSize(frame[r].maxRows))
  <2>3. hits \in Nat /\ raw \in Nat
    <3>1. hits \in Nat
      BY MatchesAssumption
    <3>2. frame[r].sql.limit \in Nat /\ FetchSize(frame[r].maxRows) \in Nat
      BY <1>1, <1>2 DEF Statement, Frame, FetchSize
    <3>3. QED
      BY <3>1, <3>2 DEF Least
  <2>4. [[frame[r] EXCEPT !.hits = hits] EXCEPT !.raw = raw] \in Frame
    <3> HIDE DEF raw
    <3> QED
      BY <1>1, <2>3 DEF Frame
  <2>5. frame' = [frame EXCEPT ![r] = [[frame[r] EXCEPT !.hits = hits] EXCEPT !.raw = raw]]
    BY <1>5 DEF QueryRuns, CallTypeOK
  <2>6. frame' \in [Requests -> Frame]
    BY <2>4, <2>5 DEF CallTypeOK
  <2>7. QED
    BY <1>5, <2>1, <2>2, <2>6 DEF QueryRuns, CallTypeOK, MeterTypeOK, meters
<1>6. CASE QueryCanceled(r, c)
  <2>1. PoolTypeOK'
    BY <1>3, <1>6, ExchangeTyped DEF QueryCanceled
  <2>2. QED
    BY <1>4, <1>6, <2>1, RaiseTyped DEF QueryCanceled, CallTypeOK, MeterTypeOK, meters
<1>7. CASE QueryErrs(r, c)
  <2>1. PoolTypeOK'
    BY <1>3, <1>7, ExchangeTyped DEF QueryErrs
  <2>2. QED
    BY <1>4, <1>7, <2>1, RaiseTyped DEF QueryErrs, CallTypeOK, MeterTypeOK, meters
<1>8. "done" \in ExPc /\ "success" \in ExecLabels
  BY DEF ExPc, ExecLabels
<1>9. CASE Commit(r, c)
  <2>1. PoolTypeOK'
    <3>1. committedWrite' \in BOOLEAN
      BY <1>9 DEF Commit
    <3>2. QED
      BY <1>9, <3>1, ReleaseTyped DEF Commit
  <2>2. exPc' \in [Requests -> ExPc]
    BY <1>8, <1>9, GotoTyped DEF Commit, CallTypeOK
  <2>3. exOut' \in [Requests -> QueryResult]
    BY <1>1, <1>9, SuccessTyped DEF Commit, CallTypeOK
  <2>4. execTotal' \in [ExecLabels -> Nat]
    BY <1>8, <1>9, CountTyped DEF Commit, MeterTypeOK
  <2>5. QED
    BY <1>9, <2>1, <2>2, <2>3, <2>4 DEF Commit, CallTypeOK, MeterTypeOK
<1>10. CASE Unwind(r, c)
  <2>1. PoolTypeOK'
    <3>1. committedWrite' \in BOOLEAN
      BY <1>10 DEF Unwind, PoolTypeOK
    <3>2. QED
      BY <1>10, <3>1, ReleaseTyped DEF Unwind
  <2>2. exPc' \in [Requests -> ExPc]
    BY <1>8, <1>10, GotoTyped DEF Unwind, CallTypeOK
  <2>3. exOut' \in [Requests -> QueryResult]
    BY <1>10, CodeOfTyped, FailureTyped DEF Unwind, CallTypeOK
  <2>4. execTotal' \in [ExecLabels -> Nat]
    BY <1>10, ObservedTyped DEF Unwind, MeterTypeOK
  <2>5. QED
    BY <1>10, <2>1, <2>2, <2>3, <2>4 DEF Unwind, CallTypeOK, MeterTypeOK
<1>11. QED
  BY <1>5, <1>6, <1>7, <1>9, <1>10

(* Every step keeps all types.                                              *)
LEMMA StepTyped == ExecutorTypeOK /\ [ExecutorNext]_executorVars => ExecutorTypeOK'
<1> SUFFICES ASSUME ExecutorTypeOK, [ExecutorNext]_executorVars
             PROVE  ExecutorTypeOK'
  OBVIOUS
<1>1. PoolTypeOK /\ CallTypeOK /\ MeterTypeOK /\ policy \in Policy
  BY DEF ExecutorTypeOK, CallTypeOK, MeterTypeOK
<1>2. SUFFICES PoolTypeOK' /\ CallTypeOK' /\ MeterTypeOK' /\ policy' \in Policy
  BY DEF ExecutorTypeOK, CallTypeOK, MeterTypeOK
<1>3. policy' \in Policy
  BY <1>1 DEF ExecutorNext, executorVars
<1>4. CASE Environment /\ UNCHANGED exVars
  BY <1>1, <1>3, <1>4, EnvironmentTyped DEF exVars, CallTypeOK, MeterTypeOK
<1>5. ASSUME NEW r \in Requests, CallExecute(r) \/ ConnectionRefused(r)
      PROVE  PoolTypeOK' /\ CallTypeOK' /\ MeterTypeOK'
  BY <1>1, <1>5, PoolStepsTyped
<1>6. ASSUME NEW r \in Requests, NEW c \in Conns, ConnectionStep(r, c)
      PROVE  PoolTypeOK' /\ CallTypeOK' /\ MeterTypeOK'
  <2>1. CASE ConnectionGranted(r, c)
    BY <1>1, <2>1, PoolStepsTyped
  <2>2. CASE Begin(r, c) \/ SetReadOnly(r, c) \/ SetStatementTimeout(r, c)
             \/ LinkLost(r, c)
    BY <1>1, <2>2, PrepareTyped
  <2>3. CASE \/ ExplainSkipped(r, c) \/ ExplainCanceled(r, c)
             \/ ExplainErrs(r, c) \/ ExplainNoPlan(r, c)
             \/ \E est \in Estimates : ExplainOverBudget(r, c, est)
             \/ \E est \in Estimates : ExplainWithinBudget(r, c, est)
    BY <1>1, <2>3, PreflightTyped
  <2>4. CASE \/ \E hits \in Matches : QueryRuns(r, c, hits)
             \/ QueryCanceled(r, c) \/ QueryErrs(r, c)
             \/ Commit(r, c) \/ Unwind(r, c)
    BY <1>1, <2>4, QueryTyped
  <2>5. QED
    BY <1>6, <2>1, <2>2, <2>3, <2>4 DEF ConnectionStep
<1>7. CASE UNCHANGED executorVars
  BY <1>1, <1>7 DEF executorVars, exVars, poolVars, PoolTypeOK, CallTypeOK, MeterTypeOK
<1>8. QED
  BY <1>3, <1>4, <1>5, <1>6, <1>7 DEF ExecutorNext, ExecutorStep

(* Type correctness of the executor for every value of the constants: no    *)
(* counter or row count leaves Nat, no session, frame or result is ill      *)
(* formed, whatever the calls and the server do.                            *)
THEOREM TypeCorrect == ExecutorSpec => []ExecutorTypeOK
<1>1. ExecutorInit => ExecutorTypeOK
  BY InitTyped
<1>2. ExecutorTypeOK /\ [ExecutorNext]_executorVars => ExecutorTypeOK'
  BY StepTyped
<1>3. QED
  BY <1>1, <1>2, PTL DEF ExecutorSpec
-----------------------------------------------------------------------------
(* The inductive invariant: one lemma for each way a step can move a call    *)

(* What the sessions and the history of commits have to satisfy.            *)
SessionInv ==
    /\ IdleConnectionsClean /\ BorrowedOpen /\ ReadOnlyFirst
    /\ SessionsHarmless /\ StatementsConfined /\ ~committedWrite

(* Typed functions the lemmas below depend on.                              *)
Typed ==
    /\ exPc \in [Requests -> ExPc]
    /\ holder \in [Conns -> Requests \cup {Nobody}]
    /\ session \in [Conns -> Session]

(* A call that owns a connection goes on to another await inside its blocks:*)
(* ownership and queue stay as they are.                                    *)
LEMMA HeldMoves ==
    ASSUME HolderDiscipline, Typed, NEW r \in Requests, exPc[r] \in HeldPcs,
           NEW pc \in HeldPcs, Goto(r, pc), UNCHANGED <<holder, waiting>>
    PROVE  HolderDiscipline'
  BY DEF HolderDiscipline, Typed, Goto, Holds, HeldPcs

(* One exchange of a call with its own session, after which it awaits at pc,*)
(* keeps every session harmless when the session is fit for pc.             *)
LEMMA ExchangeKeeps ==
    ASSUME HolderDiscipline, Typed, SessionInv, NEW r \in Requests, NEW c \in Conns,
           Holds(r, c), NEW s \in Session, Exchange(c, s), NEW pc \in HeldPcs, Goto(r, pc),
           s.link # "closed", ~s.wrote, s.cap # "session",
           pc = "timeout" /\ s.link = "up" => s.readOnly,
           pc \in {"explain", "query"} /\ s.link = "up" => s.readOnly /\ s.cap # "none"
    PROVE  SessionInv'
<1>1. holder' = holder /\ committedWrite' = committedWrite
  BY DEF Exchange
<1>2. session'[c] = s /\ \A d \in Conns : d # c => session'[d] = session[d]
  BY DEF Exchange, Typed
<1>3. exPc'[r] = pc /\ \A q \in Requests : q # r => exPc'[q] = exPc[q]
  BY DEF Goto, Typed
<1>4. \A q \in Requests, d \in Conns : Holds(q, d) => (q = r <=> d = c)
  BY DEF HolderDiscipline, Holds
<1>5. IdleConnectionsClean'
  BY <1>1, <1>2, NobodyAssumption DEF SessionInv, IdleConnectionsClean, Holds
<1>6. BorrowedOpen' /\ SessionsHarmless'
  BY <1>1, <1>2 DEF SessionInv, BorrowedOpen, SessionsHarmless
<1>7. ReadOnlyFirst'
  BY <1>1, <1>2, <1>3, <1>4 DEF SessionInv, ReadOnlyFirst, At, Holds, Live
<1>8. StatementsConfined'
  BY <1>1, <1>2, <1>3, <1>4 DEF SessionInv, StatementsConfined, Holds, Live
<1>9. QED
  BY <1>1, <1>5, <1>6, <1>7, <1>8 DEF SessionInv

(* The end of a call, by COMMIT or by unwinding: its connection goes back.  *)
LEMMA ReleaseKeeps ==
    ASSUME HolderDiscipline, Typed, SessionInv, NEW r \in Requests, NEW c \in Conns,
           At(r, c, exPc[r]), exPc[r] \in HeldPcs, Release(c), Goto(r, "done"),
           ~committedWrite'
    PROVE  HolderDiscipline' /\ SessionInv'
<1>1. /\ holder'[c] = Nobody /\ waiting' = waiting
      /\ \A d \in Conns : d # c => holder'[d] = holder[d]
      /\ holder[c] = r
  BY DEF Release, Typed, At, Holds
<1>2. /\ session'[c] = Returned(session[c])
      /\ \A d \in Conns : d # c => session'[d] = session[d]
  BY DEF Release, Typed
<1>3. exPc'[r] = "done" /\ \A q \in Requests : q # r => exPc'[q] = exPc[q]
  BY DEF Goto, Typed
<1>4. \A q \in Requests, d \in Conns : Holds(q, d) => (q = r <=> d = c)
  BY <1>1 DEF HolderDiscipline, Holds
<1>5. /\ session'[c] = Idle(session'[c].link)
      /\ ~session'[c].wrote /\ session'[c].cap # "session"
  BY <1>2, ReturnedClean DEF SessionInv, SessionsHarmless, Typed
<1>6. \A q \in Requests, d \in Conns : Holds(q, d)' <=> Holds(q, d) /\ d # c
  BY <1>1, NobodyAssumption DEF Holds
<1>7. HolderDiscipline'
  <2>1. \A q \in Requests : q \in waiting' <=> exPc'[q] = "connect"
    BY <1>1, <1>3 DEF HolderDiscipline, HeldPcs
  <2>2. \A q \in Requests : exPc'[q] \in HeldPcs <=> \E d \in Conns : Holds(q, d)'
    BY <1>3, <1>4, <1>6 DEF HolderDiscipline, HeldPcs
  <2>3. \A q \in Requests, d, e \in Conns : Holds(q, d)' /\ Holds(q, e)' => d = e
    BY <1>6 DEF HolderDiscipline
  <2>4. QED
    BY <2>1, <2>2, <2>3 DEF HolderDiscipline
<1>8. IdleConnectionsClean' /\ BorrowedOpen' /\ SessionsHarmless'
  BY <1>1, <1>2, <1>5 DEF SessionInv, IdleConnectionsClean, BorrowedOpen, SessionsHarmless
<1>9. ReadOnlyFirst'
  BY <1>2, <1>3, <1>4, <1>6 DEF SessionInv, ReadOnlyFirst, At, Live
<1>10. StatementsConfined'
  BY <1>2, <1>3, <1>4, <1>6 DEF SessionInv, StatementsConfined, Live
<1>11. QED
  BY <1>7, <1>8, <1>9, <1>10 DEF SessionInv
-----------------------------------------------------------------------------
(* The inductive invariant: every action moves its call in one of those ways *)

(* The session a call may have when it awaits at pc.                        *)
FitFor(s, pc) ==
    /\ s.link # "closed" /\ ~s.wrote /\ s.cap # "session"
    /\ pc = "timeout" /\ s.link = "up" => s.readOnly
    /\ pc \in {"explain", "query"} /\ s.link = "up" => s.readOnly /\ s.cap # "none"

(* One await of r over slot c to the next inside the blocks of execute.     *)
Moves(r, c) ==
    \E pc \in HeldPcs, s \in Session :
        /\ At(r, c, exPc[r]) /\ exPc[r] \in HeldPcs
        /\ Goto(r, pc) /\ Exchange(c, s) /\ FitFor(s, pc)

(* Every such move preserves the invariant.                                 *)
LEMMA MovesKeep ==
    ASSUME HolderDiscipline, Typed, SessionInv,
           NEW r \in Requests, NEW c \in Conns, Moves(r, c)
    PROVE  HolderDiscipline' /\ SessionInv'
<1>1. PICK pc \in HeldPcs, s \in Session :
          /\ At(r, c, exPc[r]) /\ exPc[r] \in HeldPcs
          /\ Goto(r, pc) /\ Exchange(c, s) /\ FitFor(s, pc)
  BY DEF Moves
<1>2. HolderDiscipline'
  BY <1>1, HeldMoves DEF Exchange
<1>3. Holds(r, c)
  BY <1>1 DEF At
<1>4. SessionInv'
  BY <1>1, <1>3, ExchangeKeeps DEF FitFor
<1>5. QED
  BY <1>2, <1>4

(* Leaving a fit session alone is an exchange that changes nothing.         *)
LEMMA StandingStill ==
    ASSUME Typed, NEW c \in Conns, UNCHANGED poolVars
    PROVE  Exchange(c, session[c])
  BY DEF Typed, poolVars, Exchange

(* The session of a call that owns a connection fits its await.             *)
LEMMA HeldFits ==
    ASSUME Typed, SessionInv, NEW r \in Requests, NEW c \in Conns, Holds(r, c)
    PROVE  session[c] \in Session /\ FitFor(session[c], exPc[r])
  BY NobodyAssumption
  DEF Typed, SessionInv, BorrowedOpen, ReadOnlyFirst, SessionsHarmless,
      StatementsConfined, FitFor, Holds, At, Live

(* An error aborts the transaction and sends the call to its unwinding.     *)
LEMMA AbortMoves ==
    ASSUME Typed, SessionInv, NEW r \in Requests, NEW c \in Conns, Holds(r, c),
           exPc[r] \in HeldPcs, Goto(r, "unwind"), Exchange(c, Aborted(session[c]))
    PROVE  Moves(r, c)
<1>1. session[c] \in Session /\ FitFor(session[c], exPc[r])
  BY HeldFits
<1>2. Aborted(session[c]) \in Session
  BY <1>1, SessionOpsTyped, EmptyStatement
<1>3. FitFor(Aborted(session[c]), "unwind")
  BY <1>1 DEF FitFor, Aborted, Session
<1>4. "unwind" \in HeldPcs
  BY DEF HeldPcs
<1>5. QED
  BY <1>2, <1>3, <1>4 DEF Moves, At

(* BEGIN, SET TRANSACTION READ ONLY, SET LOCAL statement_timeout, in order. *)
LEMMA PrepareMoves ==
    ASSUME Typed, SessionInv, NEW r \in Requests, NEW c \in Conns,
           \/ Begin(r, c) \/ SetReadOnly(r, c) \/ SetStatementTimeout(r, c)
           \/ LinkLost(r, c)
    PROVE  Moves(r, c)
<1>1. Holds(r, c) /\ exPc[r] \in HeldPcs
  BY DEF Begin, SetReadOnly, SetStatementTimeout, LinkLost, Prepare, At, HeldPcs
<1>2. session[c] \in Session /\ FitFor(session[c], exPc[r])
  BY <1>1, HeldFits
<1>3. /\ Begun(session[c]) \in Session
      /\ ReadOnlySet(session[c]) \in Session
      /\ TimeoutSet(session[c]) \in Session
  BY <1>2, SessionOpsTyped, EmptyStatement
<1>4. {"readonly", "timeout", "explain", "unwind"} \subseteq HeldPcs
  BY DEF HeldPcs
<1>5. CASE Begin(r, c)
  <2>1. FitFor(Begun(session[c]), "readonly")
    BY <1>2 DEF FitFor, Begun, Session
  <2>2. QED
    BY <1>1, <1>3, <1>4, <1>5, <2>1 DEF Begin, Prepare, Moves, At
<1>6. CASE SetReadOnly(r, c)
  <2>1. FitFor(ReadOnlySet(session[c]), "timeout")
    BY <1>2 DEF FitFor, ReadOnlySet, Session
  <2>2. QED
    BY <1>1, <1>3, <1>4, <1>6, <2>1 DEF SetReadOnly, Prepare, Moves, At
<1>7. CASE SetStatementTimeout(r, c)
  <2>1. exPc[r] = "timeout" /\ session[c].link = "up"
    BY <1>7 DEF SetStatementTimeout, Prepare, At, Live
  <2>2. FitFor(TimeoutSet(session[c]), "explain")
    BY <1>2, <2>1 DEF FitFor, TimeoutSet, Session
  <2>3. QED
    BY <1>1, <1>3, <1>4, <1>7, <2>2 DEF SetStatementTimeout, Prepare, Moves, At
<1>8. CASE LinkLost(r, c)
  <2>1. FitFor(session[c], "unwind")
    BY <1>2 DEF FitFor
  <2>2. Exchange(c, session[c]) /\ Goto(r, "unwind")
    BY <1>8, StandingStill DEF LinkLost, Raise
  <2>3. QED
    BY <1>1, <1>2, <1>4, <2>1, <2>2 DEF Moves, At
<1>9. QED
  BY <1>5, <1>6, <1>7, <1>8

(* The preflight leads to the statement or to the unwinding, and leaves     *)
(* READ ONLY and the timeout as they are.                                   *)
LEMMA PreflightMoves ==
    ASSUME Typed, SessionInv, NEW r \in Requests, NEW c \in Conns,
           \/ ExplainSkipped(r, c) \/ ExplainCanceled(r, c)
           \/ ExplainErrs(r, c) \/ ExplainNoPlan(r, c)
           \/ \E est \in Estimates : ExplainOverBudget(r, c, est)
           \/ \E est \in Estimates : ExplainWithinBudget(r, c, est)
    PROVE  Moves(r, c)
<1>1. Holds(r, c) /\ exPc[r] = "explain"
  BY DEF ExplainSkipped, ExplainCanceled, ExplainErrs, ExplainNoPlan,
         ExplainOverBudget, ExplainWithinBudget, Explaining, At
<1>2. session[c] \in Session /\ FitFor(session[c], "explain")
  BY <1>1, HeldFits
<1>3. {"explain", "query", "unwind"} \subseteq HeldPcs
  BY DEF HeldPcs
<1>4. FitFor(session[c], "query") /\ FitFor(session[c], "unwind")
  BY <1>2 DEF FitFor
<1>5. ASSUME NEW problem, NEW error, NEW est, Objection(r, problem, error, est)
      PROVE  Goto(r, "query") \/ Goto(r, "unwind")
  BY <1>5 DEF Objection, Raise
<1>6. ASSUME Goto(r, "query") \/ Goto(r, "unwind"), UNCHANGED poolVars
      PROVE  Moves(r, c)
  BY <1>1, <1>2, <1>3, <1>4, <1>6, StandingStill DEF Moves, At
<1>7. ASSUME Goto(r, "query") \/ Goto(r, "unwind"), Exchange(c, Aborted(session[c]))
      PROVE  Moves(r, c)
  <2>1. Aborted(session[c]) \in Session
    BY <1>2, SessionOpsTyped, EmptyStatement
  <2>2. FitFor(Aborted(session[c]), "query") /\ FitFor(Aborted(session[c]), "unwind")
    BY <1>2, <1>4 DEF FitFor, Aborted, Session
  <2>3. QED
    BY <1>1, <1>3, <1>7, <2>1, <2>2 DEF Moves, At
<1>8. CASE ExplainSkipped(r, c)
  BY <1>6, <1>8 DEF ExplainSkipped
<1>9. CASE ExplainCanceled(r, c)
  BY <1>7, <1>9 DEF ExplainCanceled, Raise
<1>10. CASE ExplainErrs(r, c)
  BY <1>5, <1>7, <1>10 DEF ExplainErrs
<1>11. CASE ExplainNoPlan(r, c)
  BY <1>5, <1>6, <1>11 DEF ExplainNoPlan, poolVars
<1>12. CASE \E est \in Estimates : ExplainOverBudget(r, c, est)
  BY <1>5, <1>6, <1>12 DEF ExplainOverBudget
<1>13. CASE \E est \in Estimates : ExplainWithinBudget(r, c, est)
  BY <1>6, <1>13 DEF ExplainWithinBudget
<1>14. QED
  BY <1>8, <1>9, <1>10, <1>11, <1>12, <1>13

(* The statement runs read only, so that it writes nothing, or it fails.    *)
LEMMA QueryMoves ==
    ASSUME Typed, SessionInv, NEW r \in Requests, NEW c \in Conns, frame[r] \in Frame,
           \/ \E hits \in Matches : QueryRuns(r, c, hits)
           \/ QueryCanceled(r, c) \/ QueryErrs(r, c)
    PROVE  Moves(r, c)
<1>1. Holds(r, c) /\ exPc[r] = "query" /\ exPc[r] \in HeldPcs
  BY DEF QueryRuns, QueryCanceled, QueryErrs, At, HeldPcs
<1>2. session[c] \in Session /\ FitFor(session[c], "query")
  BY <1>1, HeldFits
<1>3. ASSUME NEW hits \in Matches, QueryRuns(r, c, hits)
      PROVE  Moves(r, c)
  <2>1. frame[r].sql \in Statement
    BY DEF Frame
  <2>2. session[c].link = "up" /\ ~frame[r].sql.writes
    BY <1>2, <1>3, <2>1 DEF QueryRuns, Usable, Live, FitFor, Session, Statement
  <2>3. Written(session[c], frame[r].sql) \in Session
    BY <1>2, <2>1, SessionOpsTyped
  <2>4. FitFor(Written(session[c], frame[r].sql), "commit")
    BY <1>2, <2>1, <2>2 DEF FitFor, Written, Session, Statement
  <2>5. "commit" \in HeldPcs
    BY DEF HeldPcs
  <2>6. QED
    BY <1>1, <1>3, <2>3, <2>4, <2>5 DEF QueryRuns, Moves, At
<1>4. CASE QueryCanceled(r, c) \/ QueryErrs(r, c)
  BY <1>1, <1>4, AbortMoves DEF QueryCanceled, QueryErrs, Raise
<1>5. QED
  BY <1>3, <1>4

(* The environment owns nothing: it breaks or opens links, which takes no   *)
(* setting of a live session away from its borrower.                        *)
LEMMA EnvironmentKeeps ==
    ASSUME HolderDiscipline, Typed, SessionInv, Environment, UNCHANGED exVars
    PROVE  HolderDiscipline' /\ SessionInv'
<1>1. /\ holder' = holder /\ waiting' = waiting /\ exPc' = exPc
      /\ committedWrite' = committedWrite
  BY DEF Environment, ServerStops, ServerStarts, Connect, exVars
<1>2. HolderDiscipline'
  BY <1>1 DEF HolderDiscipline, Holds
<1>3. \A d \in Conns : \/ session'[d] = session[d]
                       \/ /\ session[d].link = "up"
                          /\ session'[d] = Idle("broken")
                       \/ /\ session[d].link = "closed"
                          /\ session'[d] = Idle("up")
  BY DEF Environment, ServerStops, ServerStarts, Connect, Typed
<1>4. SessionsHarmless' /\ IdleConnectionsClean' /\ BorrowedOpen'
  BY <1>1, <1>3, IdleFields
  DEF SessionInv, SessionsHarmless, IdleConnectionsClean, BorrowedOpen
<1>5. \A q \in Requests, d \in Conns : Holds(q, d) /\ session'[d].link = "up" =>
          session'[d] = session[d]
  BY <1>3, NobodyAssumption DEF SessionInv, BorrowedOpen, Holds, Idle
<1>6. ReadOnlyFirst' /\ StatementsConfined'
  BY <1>1, <1>5 DEF SessionInv, ReadOnlyFirst, StatementsConfined, At, Holds, Live
<1>7. QED
  BY <1>1, <1>2, <1>4, <1>6 DEF SessionInv

(* A call queues, is refused, or takes an idle connection, whose session is *)
(* clean and which nobody else holds.                                       *)
LEMMA PoolStepsKeep ==
    ASSUME HolderDiscipline, Typed, SessionInv, NEW r \in Requests,
           \/ CallExecute(r)
           \/ \E c \in Conns : ConnectionGranted(r, c)
           \/ ConnectionRefused(r)
    PROVE  HolderDiscipline' /\ SessionInv'
<1>1. ASSUME NEW pc \in {"connect", "done"}, exPc[r] \in {"idle", "connect"},
             Goto(r, pc), UNCHANGED <<holder, session, committedWrite>>,
             waiting' = IF pc = "connect" THEN waiting \cup {r} ELSE waiting \ {r}
      PROVE  HolderDiscipline' /\ SessionInv'
  <2>1. exPc'[r] = pc /\ \A q \in Requests : q # r => exPc'[q] = exPc[q]
    BY <1>1 DEF Goto, Typed
  <2>2. HolderDiscipline'
    BY <1>1, <2>1 DEF HolderDiscipline, Holds, HeldPcs
  <2>3. IdleConnectionsClean' /\ BorrowedOpen' /\ SessionsHarmless' /\ ~committedWrite'
    BY <1>1 DEF SessionInv, IdleConnectionsClean, BorrowedOpen, SessionsHarmless
  <2>4. ReadOnlyFirst' /\ StatementsConfined'
    BY <1>1, <2>1 DEF SessionInv, ReadOnlyFirst, StatementsConfined, At, Holds, Live
  <2>5. QED
    BY <2>2, <2>3, <2>4 DEF SessionInv
<1>2. CASE CallExecute(r)
  <2>1. PICK sql \in Workload, maxRows \in RowCaps : Execute(r, sql, maxRows)
    BY <1>2 DEF CallExecute
  <2>2. QED
    BY <1>1, <2>1 DEF Execute, Enqueue
<1>3. CASE ConnectionRefused(r)
  BY <1>1, <1>3 DEF ConnectionRefused, GiveUp
<1>4. ASSUME NEW c \in Conns, ConnectionGranted(r, c)
      PROVE  HolderDiscipline' /\ SessionInv'
  <2>1. /\ holder[c] = Nobody /\ holder'[c] = r
        /\ \A d \in Conns : d # c => holder'[d] = holder[d]
        /\ UNCHANGED <<session, committedWrite>> /\ waiting' = waiting \ {r}
    BY <1>4 DEF ConnectionGranted, Grant, Available, Typed
  <2>2. /\ exPc[r] = "connect" /\ exPc'[r] = "begin"
        /\ \A q \in Requests : q # r => exPc'[q] = exPc[q]
    BY <1>4 DEF ConnectionGranted, Goto, Typed
  <2>3. \A d \in Conns : ~Holds(r, d)
    BY <2>2 DEF HolderDiscipline, HeldPcs
  <2>4. \A q \in Requests, d \in Conns :
            Holds(q, d)' <=> Holds(q, d) \/ (q = r /\ d = c)
    BY <2>1, <2>3, NobodyAssumption DEF Holds
  <2>5. HolderDiscipline'
    <3>1. \A q \in Requests : q \in waiting' <=> exPc'[q] = "connect"
      BY <2>1, <2>2 DEF HolderDiscipline
    <3>2. \A q \in Requests : exPc'[q] \in HeldPcs <=> \E d \in Conns : Holds(q, d)'
      BY <2>2, <2>3, <2>4 DEF HolderDiscipline, HeldPcs
    <3>3. \A q \in Requests, d, e \in Conns : Holds(q, d)' /\ Holds(q, e)' => d = e
      BY <2>3, <2>4 DEF HolderDiscipline
    <3>4. QED
      BY <3>1, <3>2, <3>3 DEF HolderDiscipline
  <2>6. session[c].link # "closed"
    BY <1>4 DEF ConnectionGranted, Grant, Available
  <2>7. IdleConnectionsClean' /\ BorrowedOpen' /\ SessionsHarmless' /\ ~committedWrite'
    BY <2>1, <2>6, NobodyAssumption
    DEF SessionInv, IdleConnectionsClean, BorrowedOpen, SessionsHarmless
  <2>8. ReadOnlyFirst' /\ StatementsConfined'
    BY <2>1, <2>2, <2>3, <2>4
    DEF SessionInv, ReadOnlyFirst, StatementsConfined, At, Live
  <2>9. QED
    BY <2>5, <2>7, <2>8 DEF SessionInv
<1>5. QED
  BY <1>2, <1>3, <1>4

(* COMMIT and the unwinding give the one connection back.                   *)
LEMMA EndsKeep ==
    ASSUME HolderDiscipline, Typed, SessionInv, NEW r \in Requests, NEW c \in Conns,
           Commit(r, c) \/ Unwind(r, c)
    PROVE  HolderDiscipline' /\ SessionInv'
<1>1. /\ At(r, c, exPc[r]) /\ exPc[r] \in HeldPcs
      /\ Release(c) /\ Goto(r, "done")
  BY DEF Commit, Unwind, At, HeldPcs
<1>2. ~committedWrite'
  BY DEF Commit, Unwind, SessionInv, SessionsHarmless
<1>3. QED
  BY <1>1, <1>2, ReleaseKeeps

(* The invariant holds at the start: nothing is borrowed, no link is open.  *)
LEMMA InvInit == ExecutorInit => ExecutorInv
<1> SUFFICES ASSUME ExecutorInit PROVE ExecutorInv
  OBVIOUS
<1>1. ExecutorTypeOK
  BY InitTyped
<1>2. /\ \A r \in Requests : exPc[r] = "idle"
      /\ \A c \in Conns : holder[c] = Nobody /\ session[c] = Idle("closed")
      /\ waiting = {} /\ committedWrite = FALSE
  BY DEF ExecutorInit, PoolInit
<1>3. HolderDiscipline
  BY <1>2, NobodyAssumption DEF HolderDiscipline, HeldPcs, Holds
<1>4. IdleConnectionsClean /\ SessionsHarmless
  BY <1>2, IdleFields DEF IdleConnectionsClean, SessionsHarmless
<1>5. BorrowedOpen /\ ReadOnlyFirst /\ StatementsConfined
  BY <1>2 DEF BorrowedOpen, ReadOnlyFirst, StatementsConfined, At
<1>6. QED
  BY <1>1, <1>2, <1>3, <1>4, <1>5 DEF ExecutorInv

(* Every step of the executor and of its environment preserves it.          *)
LEMMA InvStep == ExecutorInv /\ [ExecutorNext]_executorVars => ExecutorInv'
<1> SUFFICES ASSUME ExecutorInv, [ExecutorNext]_executorVars
             PROVE  ExecutorInv'
  OBVIOUS
<1>1. ExecutorTypeOK'
  BY StepTyped DEF ExecutorInv
<1>2. HolderDiscipline /\ SessionInv /\ Typed /\ frame \in [Requests -> Frame]
  BY DEF ExecutorInv, SessionInv, Typed, ExecutorTypeOK, PoolTypeOK
<1>3. SUFFICES HolderDiscipline' /\ SessionInv'
  BY <1>1 DEF ExecutorInv, SessionInv
<1>4. CASE Environment /\ UNCHANGED exVars
  BY <1>2, <1>4, EnvironmentKeeps
<1>5. ASSUME NEW r \in Requests, CallExecute(r) \/ ConnectionRefused(r)
      PROVE  HolderDiscipline' /\ SessionInv'
  BY <1>2, <1>5, PoolStepsKeep
<1>6. ASSUME NEW r \in Requests, NEW c \in Conns, ConnectionStep(r, c)
      PROVE  HolderDiscipline' /\ SessionInv'
  <2>1. CASE ConnectionGranted(r, c)
    BY <1>2, <2>1, PoolStepsKeep
  <2>2. CASE Begin(r, c) \/ SetReadOnly(r, c) \/ SetStatementTimeout(r, c)
             \/ LinkLost(r, c)
    BY <1>2, <2>2, PrepareMoves, MovesKeep
  <2>3. CASE \/ ExplainSkipped(r, c) \/ ExplainCanceled(r, c)
             \/ ExplainErrs(r, c) \/ ExplainNoPlan(r, c)
             \/ \E est \in Estimates : ExplainOverBudget(r, c, est)
             \/ \E est \in Estimates : ExplainWithinBudget(r, c, est)
    BY <1>2, <2>3, PreflightMoves, MovesKeep
  <2>4. CASE \/ \E hits \in Matches : QueryRuns(r, c, hits)
             \/ QueryCanceled(r, c) \/ QueryErrs(r, c)
    BY <1>2, <2>4, QueryMoves, MovesKeep
  <2>5. CASE Commit(r, c) \/ Unwind(r, c)
    BY <1>2, <2>5, EndsKeep
  <2>6. QED
    BY <1>6, <2>1, <2>2, <2>3, <2>4, <2>5 DEF ConnectionStep
<1>7. CASE UNCHANGED executorVars
  BY <1>2, <1>7
  DEF executorVars, exVars, poolVars, HolderDiscipline, SessionInv, IdleConnectionsClean,
      BorrowedOpen, ReadOnlyFirst, SessionsHarmless, StatementsConfined, At, Holds, Live
<1>8. QED
  BY <1>4, <1>5, <1>6, <1>7 DEF ExecutorNext, ExecutorStep
-----------------------------------------------------------------------------
(* The safety of execute                                                     *)

(* The invariant holds in every reachable state, whatever the calls, the    *)
(* plans, the statements and the outages.                                   *)
THEOREM Invariant == ExecutorSpec => []ExecutorInv
<1>1. ExecutorInit => ExecutorInv
  BY InvInit
<1>2. ExecutorInv /\ [ExecutorNext]_executorVars => ExecutorInv'
  BY InvStep
<1>3. QED
  BY <1>1, <1>2, PTL DEF ExecutorSpec

(* The async with blocks lose no connection and share none, on any path of  *)
(* any number of concurrent calls.                                          *)
THEOREM NoLeak == ExecutorSpec => []HolderDiscipline
<1>1. ExecutorInv => HolderDiscipline
  BY DEF ExecutorInv
<1>2. QED
  BY <1>1, Invariant, PTL

(* A connection in the pool carries nothing of its last borrower.           *)
THEOREM CleanReturn == ExecutorSpec => []IdleConnectionsClean
<1>1. ExecutorInv => IdleConnectionsClean
  BY DEF ExecutorInv
<1>2. QED
  BY <1>1, Invariant, PTL

(* Untrusted SQL, also its EXPLAIN, runs only READ ONLY and under a timeout. *)
THEOREM Confinement == ExecutorSpec => []StatementsConfined
<1>1. ExecutorInv => StatementsConfined
  BY DEF ExecutorInv
<1>2. QED
  BY <1>1, Invariant, PTL

(* The READ ONLY transaction alone keeps every write out of the database,   *)
(* also of statements the guard should have refused.                        *)
THEOREM NoWrites == ExecutorSpec => []NoWriteCommits
<1>1. ExecutorInv => NoWriteCommits
  BY DEF ExecutorInv, NoWriteCommits
<1>2. QED
  BY <1>1, Invariant, PTL
-----------------------------------------------------------------------------
(* The life of a call, in what it has learned: nothing is answered before   *)
(* it is done, no figures are known before the preflight, the query runs    *)
(* only when the preflight lets it, and an answer with rows is that of a    *)
(* statement that ran and does not write.                                   *)
Fault(f)  == PreflightEnabled /\ (f.est = NoEstimate \/ ~Affordable(f.est))
Judged(f) == (f.warned <=> Fault(f)) /\ (Strict => ~Fault(f))
Ran(f) ==
    /\ f.hits \in Matches /\ ~f.sql.writes
    /\ f.raw = Least(Least(f.hits, f.sql.limit), FetchSize(f.maxRows))

(* EXPLAIN (FORMAT JSON) reports a cost, a row count or both.               *)
PlansHaveFigures == NoEstimate \notin Estimates

Unjudged == {"connect", "begin", "readonly", "timeout", "explain"}

CallFacts(r) ==
    /\ exPc[r] # "done" => exOut[r] = Failure("none")
    /\ exPc[r] = "idle" => frame[r] = EmptyFrame
    /\ exPc[r] \in Unjudged => frame[r].est = NoEstimate /\ ~frame[r].warned
    /\ exPc[r] \in {"query", "commit"} /\ PlansHaveFigures => Judged(frame[r])
    /\ exPc[r] = "commit" => Ran(frame[r])
    /\ exPc[r] = "done" =>
           \/ /\ exOut[r] = Success(frame[r]) /\ Ran(frame[r])
              /\ PlansHaveFigures => Judged(frame[r])
           \/ \E code \in QueryCodes : exOut[r] = Failure(code)

AnswersInv == ExecutorInv /\ \A r \in Requests : CallFacts(r)
-----------------------------------------------------------------------------
(* A step of r leaves the other calls alone.                                *)
OthersSame(r) ==
    \A q \in Requests : q # r =>
        exPc'[q] = exPc[q] /\ frame'[q] = frame[q] /\ exOut'[q] = exOut[q]

CallTyped == /\ exPc \in [Requests -> ExPc]
             /\ frame \in [Requests -> Frame]
             /\ exOut \in [Requests -> QueryResult]

LEMMA OneCall ==
    ASSUME AnswersInv, NEW r \in Requests, UNCHANGED policy, OthersSame(r), CallFacts(r)'
    PROVE  \A q \in Requests : CallFacts(q)'
<1>1. ASSUME NEW q \in Requests, q # r
      PROVE  CallFacts(q)'
  <2>1. CallFacts(q)
    BY DEF AnswersInv
  <2>2. exPc'[q] = exPc[q] /\ frame'[q] = frame[q] /\ exOut'[q] = exOut[q]
    BY <1>1 DEF OthersSame
  <2>3. PlansHaveFigures /\ Judged(frame[q]) => Judged(frame[q])'
    BY <2>2 DEF Judged, Fault, PreflightEnabled, Strict
  <2>4. QED
    BY <2>1, <2>2, <2>3 DEF CallFacts
<1>2. QED
  BY <1>1

(* An error, before or after the preflight: the call unwinds.               *)
LEMMA RaiseFacts ==
    ASSUME CallTyped, NEW r \in Requests, NEW error, CallFacts(r), exPc[r] # "done",
           Raise(r, error), UNCHANGED <<exOut, policy>>
    PROVE  CallFacts(r)' /\ OthersSame(r)
<1>1. /\ exPc'[r] = "unwind" /\ exOut'[r] = exOut[r]
      /\ \A q \in Requests : q # r => exPc'[q] = exPc[q] /\ frame'[q] = frame[q]
  BY DEF Raise, Goto, CallTyped
<1>2. QED
  BY <1>1 DEF CallFacts, Unjudged, OthersSame

(* The call waits for another answer of the same kind.                      *)
LEMMA UnjudgedFacts ==
    ASSUME CallTyped, NEW r \in Requests, CallFacts(r), exPc[r] \in Unjudged,
           NEW pc \in Unjudged, Goto(r, pc), UNCHANGED <<frame, exOut, policy>>
    PROVE  CallFacts(r)' /\ OthersSame(r)
<1>1. exPc'[r] = pc /\ \A q \in Requests : q # r => exPc'[q] = exPc[q]
  BY DEF Goto, CallTyped
<1>2. QED
  BY <1>1 DEF CallFacts, Unjudged, OthersSame

LEMMA ExecuteFacts ==
    ASSUME CallTyped, NEW r \in Requests, CallFacts(r), CallExecute(r), UNCHANGED policy
    PROVE  CallFacts(r)' /\ OthersSame(r)
<1>1. PICK sql \in Workload, maxRows \in RowCaps : Execute(r, sql, maxRows)
  BY DEF CallExecute
<1>2. /\ exPc[r] = "idle" /\ exPc'[r] = "connect" /\ exOut' = exOut
      /\ frame'[r] = [EmptyFrame EXCEPT !.sql = sql, !.maxRows = maxRows]
      /\ \A q \in Requests : q # r => exPc'[q] = exPc[q] /\ frame'[q] = frame[q]
  BY <1>1 DEF Execute, Goto, CallTyped
<1>3. frame'[r].est = NoEstimate /\ ~frame'[r].warned
  BY <1>2 DEF EmptyFrame
<1>4. QED
  BY <1>2, <1>3 DEF CallFacts, Unjudged, OthersSame

LEMMA WaitFacts ==
    ASSUME CallTyped, NEW r \in Requests, CallFacts(r), UNCHANGED policy,
           ConnectionRefused(r) \/ \E c \in Conns : ConnectionGranted(r, c)
    PROVE  CallFacts(r)' /\ OthersSame(r)
<1>1. CASE ConnectionRefused(r)
  <2>1. /\ exPc'[r] = "done" /\ exOut'[r] = Failure("query_execution_failed") /\ frame' = frame
        /\ \A q \in Requests : q # r => exPc'[q] = exPc[q] /\ exOut'[q] = exOut[q]
    BY <1>1 DEF ConnectionRefused, Goto, CallTyped
  <2>2. QED
    BY <2>1 DEF CallFacts, Unjudged, OthersSame, QueryCodes
<1>2. ASSUME NEW c \in Conns, ConnectionGranted(r, c)
      PROVE  CallFacts(r)' /\ OthersSame(r)
  BY <1>2, UnjudgedFacts DEF ConnectionGranted, Unjudged
<1>3. QED
  BY <1>1, <1>2

LEMMA PrepareFacts ==
    ASSUME CallTyped, NEW r \in Requests, NEW c \in Conns, CallFacts(r), UNCHANGED policy,
           Begin(r, c) \/ SetReadOnly(r, c) \/ SetStatementTimeout(r, c) \/ LinkLost(r, c)
    PROVE  CallFacts(r)' /\ OthersSame(r)
<1>1. CASE LinkLost(r, c)
  BY <1>1, RaiseFacts DEF LinkLost
<1>2. CASE Begin(r, c) \/ SetReadOnly(r, c) \/ SetStatementTimeout(r, c)
  <2>1. exPc[r] \in Unjudged /\ UNCHANGED <<frame, exOut>>
    BY <1>2 DEF Begin, SetReadOnly, SetStatementTimeout, Prepare, At, Unjudged
  <2>2. Goto(r, "readonly") \/ Goto(r, "timeout") \/ Goto(r, "explain")
    BY <1>2 DEF Begin, SetReadOnly, SetStatementTimeout, Prepare
  <2>3. QED
    BY <2>1, <2>2, UnjudgedFacts DEF Unjudged
<1>3. QED
  BY <1>1, <1>2
-----------------------------------------------------------------------------
(* The preflight.                                                           *)

(* It goes on to the query with a verdict.                                  *)
LEMMA JudgedFacts ==
    ASSUME CallTyped, NEW r \in Requests, CallFacts(r), exPc[r] = "explain",
           Goto(r, "query"), NEW f, frame' = [frame EXCEPT ![r] = f],
           PlansHaveFigures => Judged(f), UNCHANGED <<exOut, policy>>
    PROVE  CallFacts(r)' /\ OthersSame(r)
<1>1. /\ exPc'[r] = "query" /\ frame'[r] = f /\ exOut'[r] = exOut[r]
      /\ \A q \in Requests : q # r => exPc'[q] = exPc[q] /\ frame'[q] = frame[q]
  BY DEF Goto, CallTyped
<1>2. PlansHaveFigures => Judged(frame[r])'
  BY <1>1 DEF Judged, Fault, PreflightEnabled, Strict
<1>3. QED
  BY <1>1, <1>2 DEF CallFacts, Unjudged, OthersSame

(* An objection stops a strict call; a relaxed one takes it as a warning.   *)
LEMMA ObjectionFacts ==
    ASSUME CallTyped, NEW r \in Requests, CallFacts(r), exPc[r] = "explain",
           PreflightEnabled, NEW est, est = NoEstimate \/ ~Affordable(est),
           NEW problem, NEW error, Objection(r, problem, error, est), UNCHANGED policy
    PROVE  CallFacts(r)' /\ OthersSame(r)
<1>1. UNCHANGED exOut
  BY DEF Objection
<1>2. CASE Strict
  BY <1>1, <1>2, RaiseFacts DEF Objection
<1>3. CASE ~Strict
  <2> DEFINE g == [frame[r] EXCEPT !.warned = TRUE]
             f == [g EXCEPT !.est = est]
  <2>1. frame' = [frame EXCEPT ![r] = f] /\ Goto(r, "query")
    BY <1>3 DEF Objection, CallTyped
  <2>2. frame[r] \in Frame
    BY DEF CallTyped
  <2>3. f.warned = TRUE /\ f.est = est
    BY <2>2 DEF Frame
  <2> HIDE DEF f
  <2>4. Judged(f)
    BY <1>3, <2>3 DEF Judged, Fault
  <2>5. QED
    BY <1>1, <2>1, <2>4, JudgedFacts
<1>4. QED
  BY <1>2, <1>3

(* A figure over its budget makes a plan unaffordable, and nothing else.    *)
LEMMA BudgetIsAffordability ==
    ASSUME NEW est \in Estimate
    PROVE  OverBudget(est) <=> ~Affordable(est)
  BY BudgetAssumption DEF OverBudget, Affordable, Estimate

LEMMA PreflightFacts ==
    ASSUME CallTyped, NEW r \in Requests, NEW c \in Conns, CallFacts(r), UNCHANGED policy,
           \/ ExplainSkipped(r, c) \/ ExplainCanceled(r, c)
           \/ ExplainErrs(r, c) \/ ExplainNoPlan(r, c)
           \/ \E est \in Estimates : ExplainOverBudget(r, c, est)
           \/ \E est \in Estimates : ExplainWithinBudget(r, c, est)
    PROVE  CallFacts(r)' /\ OthersSame(r)
<1>1. exPc[r] = "explain" /\ frame[r] \in Frame /\ frame[r].est = NoEstimate /\ ~frame[r].warned
  BY DEF ExplainSkipped, ExplainCanceled, ExplainErrs, ExplainNoPlan, ExplainOverBudget,
         ExplainWithinBudget, Explaining, At, CallTyped, CallFacts, Unjudged
<1>2. CASE ExplainSkipped(r, c)
  <2>1. frame' = [frame EXCEPT ![r] = frame[r]]
    BY <1>2 DEF ExplainSkipped, CallTyped
  <2>2. Judged(frame[r])
    BY <1>1, <1>2 DEF ExplainSkipped, Judged, Fault
  <2>3. QED
    BY <1>1, <1>2, <2>1, <2>2, JudgedFacts DEF ExplainSkipped
<1>3. CASE ExplainCanceled(r, c)
  BY <1>1, <1>3, RaiseFacts DEF ExplainCanceled
<1>4. CASE ExplainErrs(r, c)
  BY <1>1, <1>4, ObjectionFacts DEF ExplainErrs, Explaining
<1>5. CASE ExplainNoPlan(r, c)
  BY <1>1, <1>5, ObjectionFacts DEF ExplainNoPlan, Explaining
<1>6. ASSUME NEW est \in Estimates, ExplainOverBudget(r, c, est)
      PROVE  CallFacts(r)' /\ OthersSame(r)
  <2>1. ~Affordable(est)
    BY <1>6, BudgetIsAffordability, InputAssumption DEF ExplainOverBudget
  <2>2. QED
    BY <1>1, <1>6, <2>1, ObjectionFacts DEF ExplainOverBudget, Explaining
<1>7. ASSUME NEW est \in Estimates, ExplainWithinBudget(r, c, est)
      PROVE  CallFacts(r)' /\ OthersSame(r)
  <2> DEFINE f == [frame[r] EXCEPT !.est = est]
  <2>1. frame' = [frame EXCEPT ![r] = f]
    BY <1>7 DEF ExplainWithinBudget, CallTyped
  <2>2. ~f.warned /\ f.est = est
    BY <1>1 DEF Frame
  <2>3. Affordable(est)
    BY <1>7, BudgetIsAffordability, InputAssumption DEF ExplainWithinBudget
  <2> HIDE DEF f
  <2>4. PlansHaveFigures => Judged(f)
    BY <2>2, <2>3 DEF Judged, Fault, PlansHaveFigures
  <2>5. QED
    BY <1>1, <1>7, <2>1, <2>4, JudgedFacts DEF ExplainWithinBudget
<1>8. QED
  BY <1>2, <1>3, <1>4, <1>5, <1>6, <1>7
-----------------------------------------------------------------------------
(* The statement and the end of the call.                                   *)

(* Only a statement that does not write gets past the READ ONLY mode.       *)
LEMMA QueryRunsFacts ==
    ASSUME ExecutorInv, NEW r \in Requests, NEW c \in Conns, NEW hits \in Matches,
           CallFacts(r), QueryRuns(r, c, hits), UNCHANGED policy
    PROVE  CallFacts(r)' /\ OthersSame(r)
<1> DEFINE g == [frame[r] EXCEPT !.hits = hits]
           raw == Least(Least(hits, frame[r].sql.limit), FetchSize(frame[r].maxRows))
           f == [g EXCEPT !.raw = raw]
<1>1. frame[r] \in Frame /\ frame[r].sql \in Statement /\ CallTyped
  BY DEF ExecutorInv, ExecutorTypeOK, CallTyped, Frame
<1>2. ~frame[r].sql.writes
  BY DEF QueryRuns, At, Usable, ExecutorInv, StatementsConfined
<1>3. frame' = [frame EXCEPT ![r] = f]
  BY <1>1 DEF QueryRuns, CallTyped
<1>4. /\ exPc[r] = "query" /\ exPc'[r] = "commit" /\ UNCHANGED exOut
      /\ \A q \in Requests : q # r => exPc'[q] = exPc[q]
  BY <1>1 DEF QueryRuns, At, Goto, CallTyped
<1>5. /\ f.hits = hits /\ f.raw = raw /\ f.sql = frame[r].sql /\ f.maxRows = frame[r].maxRows
      /\ f.est = frame[r].est /\ f.warned = frame[r].warned
  <2> HIDE DEF raw
  <2>1. QED
    BY <1>1 DEF Frame
<1>6. Ran(f)
  <2> HIDE DEF f
  <2>1. QED
    BY <1>2, <1>5 DEF Ran
<1> HIDE DEF f
<1>7. PlansHaveFigures => Judged(f)
  BY <1>4, <1>5 DEF CallFacts, Judged, Fault
<1>8. /\ frame'[r] = f /\ \A q \in Requests : q # r => frame'[q] = frame[q]
  BY <1>1, <1>3 DEF CallTyped
<1>9. Ran(frame[r])' /\ (PlansHaveFigures => Judged(frame[r])')
  BY <1>6, <1>7, <1>8 DEF Ran, Judged, Fault, PreflightEnabled, Strict
<1>10. QED
  BY <1>4, <1>8, <1>9 DEF CallFacts, Unjudged, OthersSame

LEMMA EndFacts ==
    ASSUME CallTyped, NEW r \in Requests, NEW c \in Conns, CallFacts(r), UNCHANGED policy,
           \/ QueryCanceled(r, c) \/ QueryErrs(r, c)
           \/ Commit(r, c) \/ Unwind(r, c)
    PROVE  CallFacts(r)' /\ OthersSame(r)
<1>1. CASE QueryCanceled(r, c) \/ QueryErrs(r, c)
  BY <1>1, RaiseFacts DEF QueryCanceled, QueryErrs, At
<1>2. CASE Commit(r, c)
  <2>1. /\ exPc[r] = "commit" /\ exPc'[r] = "done" /\ frame' = frame
        /\ exOut'[r] = Success(frame[r])
        /\ \A q \in Requests : q # r => exPc'[q] = exPc[q] /\ exOut'[q] = exOut[q]
    BY <1>2 DEF Commit, At, Goto, CallTyped
  <2>2. Ran(frame[r])' /\ (PlansHaveFigures => Judged(frame[r])')
    BY <2>1 DEF CallFacts, Ran, Judged, Fault, PreflightEnabled, Strict
  <2>3. exOut'[r] = Success(frame[r])'
    BY <2>1 DEF Success
  <2>4. QED
    BY <2>1, <2>2, <2>3 DEF CallFacts, Unjudged, OthersSame
<1>3. CASE Unwind(r, c)
  <2>1. /\ exPc[r] = "unwind" /\ exPc'[r] = "done" /\ frame' = frame
        /\ exOut'[r] = Failure(CodeOf(frame[r].raised))
        /\ \A q \in Requests : q # r => exPc'[q] = exPc[q] /\ exOut'[q] = exOut[q]
    BY <1>3 DEF Unwind, At, Goto, CallTyped
  <2>2. PICK code \in QueryCodes : exOut'[r] = Failure(code)
    BY <2>1, CodeOfTyped
  <2>3. QED
    BY <2>1, <2>2 DEF CallFacts, Unjudged, OthersSame
<1>4. QED
  BY <1>1, <1>2, <1>3

(* All steps.                                                               *)
LEMMA AnswersStart == ExecutorInit => AnswersInv
<1> SUFFICES ASSUME ExecutorInit PROVE AnswersInv
  OBVIOUS
<1>1. \A r \in Requests : exPc[r] = "idle" /\ frame[r] = EmptyFrame /\ exOut[r] = Failure("none")
  BY DEF ExecutorInit
<1>2. QED
  BY <1>1, InvInit DEF AnswersInv, CallFacts, Unjudged

LEMMA StepIsOfOne ==
    ASSUME AnswersInv, NEW r \in Requests, CallExecute(r) \/ ExecutorStep(r), UNCHANGED policy
    PROVE  CallFacts(r)' /\ OthersSame(r)
<1>1. ExecutorInv /\ CallTyped /\ CallFacts(r)
  BY DEF AnswersInv, ExecutorInv, ExecutorTypeOK, CallTyped
<1>2. CASE CallExecute(r)
  BY <1>1, <1>2, ExecuteFacts
<1>3. CASE ConnectionRefused(r)
  BY <1>1, <1>3, WaitFacts
<1>4. ASSUME NEW c \in Conns, ConnectionStep(r, c)
      PROVE  CallFacts(r)' /\ OthersSame(r)
  <2>1. CASE ConnectionGranted(r, c)
    BY <1>1, <2>1, WaitFacts
  <2>2. CASE Begin(r, c) \/ SetReadOnly(r, c) \/ SetStatementTimeout(r, c)
             \/ LinkLost(r, c)
    BY <1>1, <2>2, PrepareFacts
  <2>3. CASE \/ ExplainSkipped(r, c) \/ ExplainCanceled(r, c)
             \/ ExplainErrs(r, c) \/ ExplainNoPlan(r, c)
             \/ \E est \in Estimates : ExplainOverBudget(r, c, est)
             \/ \E est \in Estimates : ExplainWithinBudget(r, c, est)
    BY <1>1, <2>3, PreflightFacts
  <2>4. CASE \E hits \in Matches : QueryRuns(r, c, hits)
    BY <1>1, <2>4, QueryRunsFacts
  <2>5. CASE QueryCanceled(r, c) \/ QueryErrs(r, c) \/ Commit(r, c) \/ Unwind(r, c)
    BY <1>1, <2>5, EndFacts
  <2>6. QED
    BY <1>4, <2>1, <2>2, <2>3, <2>4, <2>5 DEF ConnectionStep
<1>5. QED
  BY <1>2, <1>3, <1>4 DEF ExecutorStep

LEMMA AnswersStep == AnswersInv /\ [ExecutorNext]_executorVars => AnswersInv'
<1> SUFFICES ASSUME AnswersInv, [ExecutorNext]_executorVars
             PROVE  AnswersInv'
  OBVIOUS
<1>1. ExecutorInv /\ ExecutorInv' /\ UNCHANGED policy
  BY InvStep DEF AnswersInv, ExecutorNext, executorVars
<1>2. CASE UNCHANGED exVars
  <2>1. ASSUME NEW q \in Requests
        PROVE  CallFacts(q)'
    <3>1. CallFacts(q) /\ exPc'[q] = exPc[q] /\ frame'[q] = frame[q] /\ exOut'[q] = exOut[q]
      BY <1>2 DEF AnswersInv, exVars
    <3>2. PlansHaveFigures /\ Judged(frame[q]) => Judged(frame[q])'
      BY <1>1, <3>1 DEF Judged, Fault, PreflightEnabled, Strict
    <3>3. QED
      BY <3>1, <3>2 DEF CallFacts
  <2>2. QED
    BY <1>1, <2>1 DEF AnswersInv
<1>3. ASSUME NEW r \in Requests, CallExecute(r) \/ ExecutorStep(r)
      PROVE  AnswersInv'
  BY <1>1, <1>3, StepIsOfOne, OneCall DEF AnswersInv
<1>4. QED
  BY <1>2, <1>3 DEF ExecutorNext, executorVars

LEMMA AnswersAlways == ExecutorSpec => []AnswersInv
  BY AnswersStart, AnswersStep, PTL DEF ExecutorSpec

(* The rows of an answer are the first max_rows of what the statement       *)
(* returns, truncated exactly when there were more.                         *)
THEOREM RowsDelivered == ExecutorSpec => []DeliveredRows
<1>1. ASSUME AnswersInv, NEW r \in Requests, exOut[r].code = "ok"
      PROVE  LET f == frame[r]
                 returned == IF f.hits <= f.sql.limit THEN f.hits ELSE f.sql.limit
             IN  /\ exOut[r].rows <= f.maxRows
                 /\ exOut[r].truncated <=> returned > f.maxRows
                 /\ ~exOut[r].truncated => exOut[r].rows = returned
                 /\ exOut[r].truncated => exOut[r].rows = f.maxRows
  <2>1. exOut[r] = Success(frame[r]) /\ Ran(frame[r])
    <3>1. CallFacts(r)
      BY <1>1 DEF AnswersInv
    <3>2. \A code : Failure(code).code = code
      BY DEF Failure
    <3>3. QED
      BY <1>1, <3>1, <3>2 DEF CallFacts, QueryCodes
  <2> DEFINE hits == frame[r].hits
             limit == frame[r].sql.limit
             cap == frame[r].maxRows
  <2>2. hits \in Nat /\ limit \in Nat /\ cap \in Nat
    BY <1>1 DEF AnswersInv, ExecutorInv, ExecutorTypeOK, Frame, Statement
  <2>3. /\ exOut[r].rows = Least(Least(Least(hits, limit), cap + 1), cap)
        /\ exOut[r].truncated <=> Least(Least(hits, limit), cap + 1) > cap
    <3>1. /\ exOut[r].rows = Cut(frame[r].raw, cap)
          /\ exOut[r].truncated = IsTruncated(frame[r].raw, cap)
      BY <2>1 DEF Success
    <3>2. IsTruncated(frame[r].raw, cap) <=> frame[r].raw > cap
      BY DEF IsTruncated
    <3>3. frame[r].raw = Least(Least(hits, limit), cap + 1)
      BY <2>1 DEF Ran, FetchSize
    <3> HIDE DEF hits, limit, cap
    <3>4. QED
      BY <3>1, <3>2, <3>3 DEF Cut
  <2> HIDE DEF hits, limit, cap
  <2> DEFINE returned == IF hits <= limit THEN hits ELSE limit
  <2>4. Least(hits, limit) = returned /\ returned \in Nat
    BY <2>2 DEF Least
  <2> HIDE DEF returned
  <2>5. /\ Least(Least(returned, cap + 1), cap) = IF returned > cap THEN cap ELSE returned
        /\ Least(returned, cap + 1) > cap <=> returned > cap
    BY <2>2, <2>4 DEF Least
  <2>6. /\ exOut[r].rows <= cap
        /\ exOut[r].truncated <=> returned > cap
        /\ ~exOut[r].truncated => exOut[r].rows = returned
        /\ exOut[r].truncated => exOut[r].rows = cap
    BY <2>2, <2>3, <2>4, <2>5
  <2>7. QED
    BY <2>6 DEF hits, limit, cap, returned
<1>2. AnswersInv => DeliveredRows
  BY <1>1 DEF DeliveredRows
<1>3. QED
  BY <1>2, AnswersAlways, PTL

(* A strict process runs no query whose plan is unknown or over a budget; a *)
(* relaxed one answers it with a warning, and no other.  A plan with neither*)
(* figure would pass as affordable, which is why plans must have one.       *)
THEOREM BudgetHonoured ==
    ASSUME PlansHaveFigures
    PROVE  ExecutorSpec => []PreflightHonoured
<1>1. ASSUME AnswersInv, NEW r \in Requests
      PROVE  LET f == frame[r]
                 fault == PreflightEnabled /\ (f.est = NoEstimate \/ ~Affordable(f.est))
             IN  /\ exPc[r] \in {"query", "commit"} /\ Strict => ~fault
                 /\ exOut[r].code = "ok" => (exOut[r].warned <=> fault)
  <2>1. CallFacts(r)
    BY <1>1 DEF AnswersInv
  <2>2. \A code : Failure(code).code = code
    BY DEF Failure
  <2>3. exPc[r] \in {"query", "commit"} => Judged(frame[r])
    BY <2>1 DEF CallFacts
  <2>4. exOut[r].code = "ok" => exOut[r] = Success(frame[r]) /\ Judged(frame[r])
    BY <2>1, <2>2 DEF CallFacts, QueryCodes
  <2>5. QED
    BY <2>3, <2>4 DEF Judged, Fault, Success
<1>2. AnswersInv => PreflightHonoured
  BY <1>1 DEF PreflightHonoured
<1>3. QED
  BY <1>2, AnswersAlways, PTL
-----------------------------------------------------------------------------
(* The contract of a call that borrows a connection (DbCall).               *)

CallOf(f) == [sql |-> f.sql, maxRows |-> f.maxRows]
OutcomeIs(out, f) ==
    QueryOutcome(out.code, out.rows, out.truncated, IF out.code = "ok" THEN f.hits ELSE 0)

(* What the use case sees of an error and of an answer; the answer is one   *)
(* that the port allows for the statement and the cap of the call.          *)
LEMMA FailedOutcome ==
    ASSUME NEW f, NEW code \in {"none"} \cup QueryCodes
    PROVE  OutcomeIs(Failure(code), f) = QueryFailed(code)
  BY DEF OutcomeIs, Failure, QueryFailed, QueryOutcome, QueryCodes

LEMMA AnsweredOutcome ==
    ASSUME NEW f \in Frame, Ran(f)
    PROVE  OutcomeIs(Success(f), f) \in ExecuteOutcomes(CallOf(f))
<1>1. f.hits \in Nat /\ f.sql.limit \in Nat /\ f.maxRows \in Nat
  BY DEF Frame, Statement
<1> DEFINE returned == Least(f.hits, f.sql.limit)
<1>2. returned \in Nat
  BY <1>1 DEF Least
<1>3. f.raw = Least(returned, f.maxRows + 1)
  BY DEF Ran, FetchSize
<1> HIDE DEF returned
<1>4. /\ Least(f.raw, f.maxRows) = Least(returned, f.maxRows)
      /\ (f.raw > f.maxRows) = (returned > f.maxRows)
  BY <1>1, <1>2, <1>3 DEF Least
<1>5. OutcomeIs(Success(f), f)
        = [code |-> "ok", rows |-> Least(f.raw, f.maxRows),
           truncated |-> f.raw > f.maxRows, matched |-> f.hits]
  BY DEF OutcomeIs, Success, Cut, IsTruncated, QueryOutcome
<1>6. QueryAnswered(f.hits, f.sql, f.maxRows)
        = [code |-> "ok", rows |-> Least(returned, f.maxRows),
           truncated |-> returned > f.maxRows, matched |-> f.hits]
  BY DEF QueryAnswered, QueryOutcome, returned
<1>7. OutcomeIs(Success(f), f) = QueryAnswered(f.hits, f.sql, f.maxRows)
  BY <1>4, <1>5, <1>6
<1>8. CallOf(f).sql = f.sql /\ CallOf(f).maxRows = f.maxRows
  BY DEF CallOf
<1>9. QED
  BY <1>7, <1>8 DEF ExecuteOutcomes, Ran

LEMMA PhaseOfPc ==
    /\ PhaseOf("idle") = "idle" /\ PhaseOf("connect") = "queued"
    /\ PhaseOf("done") = "done"
    /\ \A pc \in HeldPcs : PhaseOf(pc) = "holding"
  BY DEF PhaseOf, HeldPcs

(* The contract's variables follow the step of one call.                    *)
LEMMA PhasesFollow ==
    ASSUME exPc \in [Requests -> ExPc], NEW r \in Requests, NEW to \in ExPc, Goto(r, to)
    PROVE  Contract!Step(r, PhaseOf(exPc[r]), PhaseOf(to))
  BY DEF Contract!Step, Goto

Calls == [r \in Requests |-> CallOf(frame[r])]
Results == [r \in Requests |-> OutcomeIs(exOut[r], frame[r])]

LEMMA CallsFollow ==
    ASSUME CallTyped, NEW r \in Requests, OthersSame(r), NEW call, CallOf(frame'[r]) = call
    PROVE  Calls' = [Calls EXCEPT ![r] = call]
  BY DEF Calls, OthersSame

LEMMA ResultsFollow ==
    ASSUME CallTyped, NEW r \in Requests, OthersSame(r), NEW outcome,
           OutcomeIs(exOut'[r], frame'[r]) = outcome
    PROVE  Results' = [Results EXCEPT ![r] = outcome]
  BY DEF Results, OthersSame

LEMMA SameCalls ==
    ASSUME NEW r \in Requests
    PROVE  Calls = [Calls EXCEPT ![r] = CallOf(frame[r])]
           /\ Results = [Results EXCEPT ![r] = OutcomeIs(exOut[r], frame[r])]
  BY DEF Calls, Results

(* A call that is not done has answered nothing; one that ends in an error  *)
(* has answered just that.                                                  *)
LEMMA NothingAnswered ==
    ASSUME NEW r \in Requests
    PROVE  /\ CallFacts(r) /\ exPc[r] # "done"
                => OutcomeIs(exOut[r], frame[r]) = QueryFailed("none")
           /\ CallFacts(r)' /\ exPc'[r] # "done"
                => OutcomeIs(exOut'[r], frame'[r]) = QueryFailed("none")
  BY FailedOutcome DEF CallFacts

LEMMA AnswerAllowed ==
    ASSUME CallTyped', NEW r \in Requests, CallFacts(r)', exPc'[r] = "done"
    PROVE  OutcomeIs(exOut'[r], frame'[r]) \in ExecuteOutcomes(CallOf(frame'[r]))
<1>1. CASE exOut'[r] = Success(frame'[r]) /\ Ran(frame'[r])
  BY <1>1, AnsweredOutcome DEF CallTyped
<1>2. CASE \E code \in QueryCodes : exOut'[r] = Failure(code)
  BY <1>2, FailedOutcome DEF ExecuteOutcomes
<1>3. QED
  BY <1>1, <1>2 DEF CallFacts, Ran, Success
-----------------------------------------------------------------------------
(* The steps of the contract.                                               *)

LEMMA ExecuteCalls ==
    ASSUME CallTyped, NEW r \in Requests, CallFacts(r), CallFacts(r)', OthersSame(r),
           CallExecute(r)
    PROVE  ContractStep
<1>1. PICK sql \in Workload, maxRows \in RowCaps : Execute(r, sql, maxRows)
  BY DEF CallExecute
<1> DEFINE call == [sql |-> sql, maxRows |-> maxRows]
<1>2. /\ exPc[r] = "idle" /\ exPc'[r] = "connect" /\ Goto(r, "connect")
      /\ frame'[r] = [EmptyFrame EXCEPT !.sql = sql, !.maxRows = maxRows]
      /\ UNCHANGED holder
  BY <1>1 DEF Execute, Goto, CallTyped, Enqueue
<1>3. CallOf(frame'[r]) = call
  BY <1>2 DEF CallOf, EmptyFrame
<1>4. OutcomeIs(exOut'[r], frame'[r]) = OutcomeIs(exOut[r], frame[r])
  BY <1>2, NothingAnswered
<1>5. Calls' = [Calls EXCEPT ![r] = call]
  BY <1>3, CallsFollow
<1>6. Results' = Results
  BY <1>4, ResultsFollow, SameCalls
<1>7. Contract!Step(r, "idle", "queued")
  BY <1>2, PhasesFollow, PhaseOfPc DEF CallTyped, ExPc
<1>8. Contract!Call(r, call)
  BY <1>2, <1>5, <1>6, <1>7
     DEF Contract!Call, Calls, CallOf, Results, OutcomeOf, OutcomeIs
<1>9. QED
  BY <1>8 DEF ContractStep

LEMMA GrantAcquires ==
    ASSUME CallTyped, NEW r \in Requests, NEW c \in Conns, CallFacts(r), CallFacts(r)',
           OthersSame(r), ConnectionGranted(r, c)
    PROVE  Contract!Acquire(r, c)
<1>1. /\ exPc[r] = "connect" /\ exPc'[r] = "begin" /\ Goto(r, "begin") /\ UNCHANGED frame
      /\ holder[c] = Nobody /\ holder' = [holder EXCEPT ![c] = r]
  BY DEF ConnectionGranted, Goto, CallTyped, Grant, Available
<1>2. OutcomeIs(exOut'[r], frame'[r]) = OutcomeIs(exOut[r], frame[r])
  BY <1>1, NothingAnswered
<1>3. Calls' = Calls /\ Results' = Results
  BY <1>1, <1>2, ResultsFollow, SameCalls DEF Calls
<1>4. Contract!Step(r, "queued", "holding")
  BY <1>1, PhasesFollow, PhaseOfPc DEF CallTyped, ExPc, HeldPcs
<1>5. QED
  BY <1>1, <1>3, <1>4 DEF Contract!Acquire, Calls, CallOf, Results, OutcomeOf, OutcomeIs

LEMMA RefusalRefuses ==
    ASSUME CallTyped, NEW r \in Requests, OthersSame(r), ConnectionRefused(r)
    PROVE  Contract!Refuse(r)
<1>1. /\ exPc[r] = "connect" /\ Goto(r, "done") /\ UNCHANGED <<frame, holder>>
      /\ exOut'[r] = Failure("query_execution_failed")
  BY DEF ConnectionRefused, CallTyped, GiveUp
<1>2. OutcomeIs(exOut'[r], frame'[r]) = QueryFailed("query_execution_failed")
  BY <1>1, FailedOutcome DEF QueryCodes
<1>3. Calls' = Calls /\ Results' = [Results EXCEPT ![r] = QueryFailed("query_execution_failed")]
  BY <1>1, <1>2, ResultsFollow DEF Calls
<1>4. Contract!Step(r, "queued", "done")
  BY <1>1, PhasesFollow, PhaseOfPc DEF CallTyped, ExPc
<1>5. QED
  BY <1>1, <1>3, <1>4 DEF Contract!Refuse, Calls, CallOf, Results, OutcomeOf, OutcomeIs

LEMMA EndReturns ==
    ASSUME CallTyped, CallTyped', NEW r \in Requests, NEW c \in Conns, CallFacts(r)',
           OthersSame(r), Commit(r, c) \/ Unwind(r, c)
    PROVE  Contract!Return(r, c)
<1>1. /\ exPc[r] \in HeldPcs /\ Goto(r, "done") /\ UNCHANGED frame /\ exPc'[r] = "done"
      /\ holder[c] = r /\ holder' = [holder EXCEPT ![c] = Nobody]
  BY DEF Commit, Unwind, At, Goto, CallTyped, Release, Holds, HeldPcs
<1> DEFINE outcome == OutcomeIs(exOut'[r], frame'[r])
<1>2. outcome \in ExecuteOutcomes(CallOf(frame[r]))
  BY <1>1, AnswerAllowed
<1>3. Results' = [Results EXCEPT ![r] = outcome]
  BY ResultsFollow
<1>4. Contract!Step(r, "holding", "done")
  BY <1>1, PhasesFollow, PhaseOfPc DEF CallTyped, ExPc
<1>5. Calls' = Calls /\ Calls[r] = CallOf(frame[r])
  BY <1>1 DEF Calls
<1> HIDE DEF outcome
<1>6. \E answer \in ExecuteOutcomes(Calls[r]) : Results' = [Results EXCEPT ![r] = answer]
  BY <1>2, <1>3, <1>5
<1>7. QED
  BY <1>1, <1>4, <1>5, <1>6 DEF Contract!Return, Calls, CallOf, Results, OutcomeOf, OutcomeIs

(* Everything in between is the executor's own affair.                      *)
ContractStutters == UNCHANGED <<Contract!callVars, holder>>

LEMMA InsideStutters ==
    ASSUME CallTyped, NEW r \in Requests, NEW c \in Conns, CallFacts(r), CallFacts(r)',
           OthersSame(r), Moves(r, c), CallOf(frame'[r]) = CallOf(frame[r])
    PROVE  ContractStutters
<1>1. PICK pc \in HeldPcs : exPc[r] \in HeldPcs /\ Goto(r, pc) /\ UNCHANGED holder
  BY DEF Moves, Exchange
<1>2. exPc'[r] = pc /\ pc # "done" /\ exPc[r] # "done"
  BY <1>1 DEF Goto, CallTyped, HeldPcs
<1>3. OutcomeIs(exOut'[r], frame'[r]) = OutcomeIs(exOut[r], frame[r])
  BY <1>2, NothingAnswered
<1>4. Calls' = Calls /\ Results' = Results
  BY <1>3, CallsFollow, ResultsFollow, SameCalls
<1>5. [q \in Requests |-> PhaseOf(exPc'[q])] = [q \in Requests |-> PhaseOf(exPc[q])]
  BY <1>1, <1>2, PhaseOfPc DEF OthersSame
<1>6. QED
  BY <1>1, <1>4, <1>5
     DEF ContractStutters, Contract!callVars, Calls, CallOf, Results, OutcomeOf, OutcomeIs

(* No step inside the blocks touches the call itself.                       *)
LEMMA CallKept ==
    ASSUME CallTyped, NEW r \in Requests, NEW c \in Conns,
           ConnectionStep(r, c)
    PROVE  CallOf(frame'[r]) = CallOf(frame[r])
<1>1. frame[r] \in Frame
  BY DEF CallTyped
<1>2. ASSUME NEW error, Raise(r, error)
      PROVE  CallOf(frame'[r]) = CallOf(frame[r])
  BY <1>1, <1>2 DEF Raise, CallTyped, CallOf, Frame
<1>3. ASSUME NEW problem, NEW error, NEW est, Objection(r, problem, error, est)
      PROVE  CallOf(frame'[r]) = CallOf(frame[r])
  <2>1. CASE Strict
    BY <1>2, <1>3, <2>1 DEF Objection
  <2>2. CASE ~Strict
    BY <1>1, <1>3, <2>2 DEF Objection, CallTyped, CallOf, Frame
  <2>3. QED
    BY <2>1, <2>2
<1>4. CASE UNCHANGED frame
  BY <1>4
<1>5. ASSUME NEW est, ExplainWithinBudget(r, c, est)
      PROVE  CallOf(frame'[r]) = CallOf(frame[r])
  BY <1>1, <1>5 DEF ExplainWithinBudget, CallTyped, CallOf, Frame
<1>6. ASSUME NEW hits, QueryRuns(r, c, hits)
      PROVE  CallOf(frame'[r]) = CallOf(frame[r])
  <2> DEFINE raw == Least(Least(hits, frame[r].sql.limit), FetchSize(frame[r].maxRows))
  <2>1. frame'[r] = [[frame[r] EXCEPT !.hits = hits] EXCEPT !.raw = raw]
    BY <1>6 DEF QueryRuns, CallTyped
  <2> HIDE DEF raw
  <2>2. QED
    BY <1>1, <2>1 DEF CallOf, Frame
<1>7. QED
  BY <1>2, <1>3, <1>4, <1>5, <1>6
     DEF ConnectionStep, ConnectionGranted, Begin, SetReadOnly, SetStatementTimeout, Prepare,
         LinkLost, ExplainSkipped, ExplainCanceled, ExplainErrs, ExplainNoPlan,
         ExplainOverBudget, QueryCanceled, QueryErrs, Commit, Unwind

(* Abstract from transactions, the preflight, outages and error paths, a    *)
(* call of execute queues, owns one slot, gives it back and answers, once,  *)
(* with what the port allows for its own statement and cap.                 *)
THEOREM ExecuteIsDbCall == ExecutorSpec => ImplementsContract
<1>1. ExecutorInit => ContractInit
  <2>1. ASSUME ExecutorInit
        PROVE  ContractInit
    <3>1. \A r \in Requests : exPc[r] = "idle" /\ exOut[r] = Failure("none")
      BY <2>1 DEF ExecutorInit
    <3>2. \A c \in Conns : holder[c] = Nobody
      BY <2>1 DEF ExecutorInit, PoolInit
    <3>3. \A r \in Requests : OutcomeOf(r) = QueryFailed("none")
      BY <3>1, FailedOutcome DEF OutcomeOf, OutcomeIs
    <3>4. QED
      BY <3>1, <3>2, <3>3 DEF ContractInit
  <2>2. QED
    BY <2>1
<1>2. ASSUME AnswersInv, AnswersInv', [ExecutorNext]_executorVars
      PROVE  ContractStep \/ ContractStutters
  <2>1. CallTyped /\ CallTyped'
    BY <1>2 DEF AnswersInv, ExecutorInv, ExecutorTypeOK, CallTyped
  <2>2. ExecutorInv /\ Typed /\ SessionInv /\ UNCHANGED policy
    BY <1>2 DEF AnswersInv, ExecutorInv, SessionInv, ExecutorTypeOK, PoolTypeOK, Typed,
                ExecutorNext, executorVars
  <2>3. CASE UNCHANGED <<holder, exPc, frame, exOut>>
    BY <2>3 DEF ContractStutters, Contract!callVars, OutcomeOf
  <2>4. ASSUME NEW r \in Requests, CallExecute(r) \/ ExecutorStep(r)
        PROVE  ContractStep \/ ContractStutters
    <3>1. CallFacts(r) /\ CallFacts(r)'
      BY <1>2 DEF AnswersInv
    <3>2. CASE CallExecute(r)
      BY <2>1, <2>2, <3>1, <3>2, ExecuteFacts, ExecuteCalls
    <3>3. CASE ConnectionRefused(r)
      <4>1. Contract!Refuse(r)
        BY <2>1, <2>2, <3>1, <3>3, WaitFacts, RefusalRefuses
      <4>2. QED
        BY <4>1 DEF ContractStep, Contract!Serve
    <3>4. ASSUME NEW c \in Conns, ConnectionStep(r, c)
          PROVE  ContractStep \/ ContractStutters
      <4>1. CASE ConnectionGranted(r, c)
        <5>1. Contract!Acquire(r, c)
          BY <2>1, <2>2, <3>1, <4>1, WaitFacts, GrantAcquires
        <5>2. QED
          BY <5>1 DEF ContractStep, Contract!Serve
      <4>2. CASE Commit(r, c) \/ Unwind(r, c)
        <5>1. Contract!Return(r, c)
          BY <2>1, <2>2, <3>1, <4>2, EndFacts, EndReturns
        <5>2. QED
          BY <5>1 DEF ContractStep, Contract!Serve
      <4>3. CallOf(frame'[r]) = CallOf(frame[r])
        BY <2>1, <3>4, CallKept
      <4>4. CASE Begin(r, c) \/ SetReadOnly(r, c) \/ SetStatementTimeout(r, c)
                 \/ LinkLost(r, c)
        BY <2>1, <2>2, <3>1, <4>3, <4>4, PrepareFacts, PrepareMoves, InsideStutters
      <4>5. CASE \/ ExplainSkipped(r, c) \/ ExplainCanceled(r, c)
                 \/ ExplainErrs(r, c) \/ ExplainNoPlan(r, c)
                 \/ \E est \in Estimates : ExplainOverBudget(r, c, est)
                 \/ \E est \in Estimates : ExplainWithinBudget(r, c, est)
        BY <2>1, <2>2, <3>1, <4>3, <4>5, PreflightFacts, PreflightMoves, InsideStutters
      <4>6. ASSUME NEW hits \in Matches, QueryRuns(r, c, hits)
            PROVE  ContractStutters
        <5>1. OthersSame(r)
          BY <2>1, <2>2, <3>1, <4>6, QueryRunsFacts
        <5>2. Moves(r, c)
          BY <2>1, <2>2, <4>6, QueryMoves DEF CallTyped
        <5>3. QED
          BY <2>1, <3>1, <4>3, <5>1, <5>2, InsideStutters
      <4>7. CASE QueryCanceled(r, c) \/ QueryErrs(r, c)
        <5>1. OthersSame(r)
          BY <2>1, <2>2, <3>1, <4>7, EndFacts
        <5>2. Moves(r, c)
          BY <2>1, <2>2, <4>7, QueryMoves DEF CallTyped
        <5>3. QED
          BY <2>1, <3>1, <4>3, <5>1, <5>2, InsideStutters
      <4>8. QED
        BY <3>4, <4>1, <4>2, <4>4, <4>5, <4>6, <4>7 DEF ConnectionStep
    <3>5. QED
      BY <2>4, <3>2, <3>3, <3>4 DEF ExecutorStep
  <2>5. QED
    BY <1>2, <2>3, <2>4 DEF ExecutorNext, executorVars, exVars, poolVars,
       Environment, ServerStops, ServerStarts, Connect
<1>3. QED
  BY <1>1, <1>2, AnswersAlways, PTL
     DEF ExecutorSpec, ImplementsContract, ContractStutters
-----------------------------------------------------------------------------
(* The metrics.                                                             *)

CountedCalls == {r \in Requests : Counted(r)}
Tally == execTotal["success"] + execTotal["timeout"] + execTotal["error"]
         + RejectedByPreflight
Metered == CallTyped /\ preflightTotal \in [PreflightLabels -> Nat]
                     /\ execTotal \in [ExecLabels -> Nat]

(* What a step of r does to the sum: nothing, or one more with the call.    *)
Accounts(r) ==
    \/ (Counted(r)' <=> Counted(r)) /\ Tally' = Tally
    \/ ~Counted(r) /\ Counted(r)' /\ Tally' = Tally + 1

LEMMA AccountsKeep ==
    ASSUME IsFiniteSet(Requests), ExecAccounting, Metered, NEW r \in Requests,
           OthersSame(r), Accounts(r)
    PROVE  ExecAccounting'
<1>1. \A q \in Requests : q # r => (Counted(q)' <=> Counted(q))
  BY DEF OthersSame, Counted
<1>2. IsFiniteSet(CountedCalls) /\ Cardinality(CountedCalls) \in Nat
  BY FS_Subset, FS_CardinalityType DEF CountedCalls
<1>3. Cardinality(CountedCalls) = Tally
  BY DEF ExecAccounting, CountedCalls, Tally
<1>4. CASE (Counted(r)' <=> Counted(r)) /\ Tally' = Tally
  <2>1. CountedCalls' = CountedCalls
    BY <1>1, <1>4 DEF CountedCalls
  <2>2. Cardinality(CountedCalls)' = Tally'
    BY <1>3, <1>4, <2>1
  <2>3. QED
    BY <2>2 DEF ExecAccounting, CountedCalls, Tally
<1>5. CASE ~Counted(r) /\ Counted(r)' /\ Tally' = Tally + 1
  <2>1. CountedCalls' = CountedCalls \cup {r} /\ r \notin CountedCalls
    BY <1>1, <1>5 DEF CountedCalls
  <2>2. Cardinality(CountedCalls \cup {r}) = Cardinality(CountedCalls) + 1
    BY <1>2, <2>1, FS_AddElement
  <2>3. Cardinality(CountedCalls)' = Tally'
    BY <1>3, <1>5, <2>1, <2>2
  <2>4. QED
    BY <2>3 DEF ExecAccounting, CountedCalls, Tally
<1>6. QED
  BY <1>4, <1>5 DEF Accounts

(* The sum moves only with the labels that count a call.                    *)
LEMMA TallySame ==
    ASSUME Metered, UNCHANGED <<execTotal, policy>>,
           \/ UNCHANGED preflightTotal
           \/ preflightTotal' = Count(preflightTotal, "disabled")
           \/ preflightTotal' = Count(preflightTotal, "ok")
           \/ ~Strict /\ \E problem \in PreflightLabels \ {"timeout"} :
                  preflightTotal' = Count(preflightTotal, problem)
    PROVE  Tally' = Tally
<1>1. /\ preflightTotal'["timeout"] = preflightTotal["timeout"]
      /\ Strict => \A label \in {"error", "empty_plan", "parse_error", "cost_exceeded"} :
                      preflightTotal'[label] = preflightTotal[label]
  BY DEF Metered, Count, PreflightLabels
<1>2. Strict' <=> Strict
  BY DEF Strict
<1>3. QED
  BY <1>1, <1>2 DEF Tally, RejectedByPreflight

LEMMA TallyRejects ==
    ASSUME Metered, UNCHANGED <<execTotal, policy>>,
           \/ preflightTotal' = Count(preflightTotal, "timeout")
           \/ Strict /\ \E problem \in {"error", "empty_plan", "parse_error", "cost_exceeded"} :
                  preflightTotal' = Count(preflightTotal, problem)
    PROVE  Tally' = Tally + 1
<1>1. \A label \in PreflightLabels : preflightTotal[label] \in Nat
  BY DEF Metered
<1>2. \A label \in ExecLabels : execTotal[label] \in Nat
  BY DEF Metered
<1>3. Strict' <=> Strict
  BY DEF Strict
<1>4. CASE preflightTotal' = Count(preflightTotal, "timeout")
  <2>1. /\ preflightTotal'["timeout"] = preflightTotal["timeout"] + 1
        /\ \A label \in {"error", "empty_plan", "parse_error", "cost_exceeded"} :
              preflightTotal'[label] = preflightTotal[label]
    BY <1>4 DEF Metered, Count, PreflightLabels
  <2>2. QED
    BY <1>1, <1>2, <1>3, <2>1 DEF Tally, RejectedByPreflight, PreflightLabels, ExecLabels
<1>5. ASSUME Strict, NEW problem \in {"error", "empty_plan", "parse_error", "cost_exceeded"},
             preflightTotal' = Count(preflightTotal, problem)
      PROVE  Tally' = Tally + 1
  <2>1. \A label \in PreflightLabels :
            preflightTotal'[label] = IF label = problem THEN preflightTotal[label] + 1
                                     ELSE preflightTotal[label]
    BY <1>5 DEF Metered, Count, PreflightLabels
  <2>2. QED
    BY <1>1, <1>2, <1>3, <1>5, <2>1 DEF Tally, RejectedByPreflight, PreflightLabels, ExecLabels
<1>6. QED
  BY <1>4, <1>5

LEMMA TallyObserves ==
    ASSUME Metered, UNCHANGED <<preflightTotal, policy>>, NEW label \in ExecLabels,
           execTotal' = Count(execTotal, label)
    PROVE  Tally' = Tally + 1
<1>1. \A l \in ExecLabels : execTotal'[l] = IF l = label THEN execTotal[l] + 1 ELSE execTotal[l]
  BY DEF Metered, Count, ExecLabels
<1>2. \A l \in ExecLabels : execTotal[l] \in Nat
  BY DEF Metered
<1>3. RejectedByPreflight' = RejectedByPreflight /\ RejectedByPreflight \in Nat
  BY DEF RejectedByPreflight, Strict, Metered, PreflightLabels
<1>4. QED
  BY <1>1, <1>2, <1>3 DEF Tally, ExecLabels

LEMMA RaiseCounts ==
    ASSUME Metered, NEW r \in Requests, NEW error, Raise(r, error)
    PROVE  Counted(r)' <=> error \notin {"QueryCanceled", "PsycopgError"}
<1>1. exPc'[r] = "unwind" /\ frame[r] \in Frame
  BY DEF Raise, Goto, Metered, CallTyped
<1>2. frame'[r].raised = error
  BY <1>1 DEF Raise, Metered, CallTyped, Frame
<1>3. QED
  BY <1>1, <1>2 DEF Counted

LEMMA GotoCounts ==
    ASSUME Metered, NEW r \in Requests, NEW pc, Goto(r, pc)
    PROVE  /\ pc = "done" => Counted(r)'
           /\ pc \notin {"done", "unwind"} => ~Counted(r)'
           /\ exPc[r] \notin {"done", "unwind"} => ~Counted(r)
<1>1. exPc'[r] = pc
  BY DEF Goto, Metered, CallTyped
<1>2. QED
  BY <1>1 DEF Counted

(* An objection counts the call when it rejects it, and only then.          *)
LEMMA ObjectionAccounts ==
    ASSUME Metered, NEW r \in Requests, exPc[r] = "explain", UNCHANGED policy,
           NEW problem \in {"error", "empty_plan", "parse_error", "cost_exceeded"},
           NEW error \in {"QueryExecutionError", "QueryCostExceededError"}, NEW est,
           Objection(r, problem, error, est)
    PROVE  Accounts(r)
<1>1. ~Counted(r) /\ problem \in PreflightLabels \ {"timeout"}
  BY DEF Counted, PreflightLabels
<1>2. preflightTotal' = Count(preflightTotal, problem) /\ UNCHANGED execTotal
  BY DEF Objection
<1>3. CASE Strict
  <2>1. Counted(r)'
    BY <1>3, RaiseCounts DEF Objection
  <2>2. Tally' = Tally + 1
    BY <1>2, <1>3, TallyRejects
  <2>3. QED
    BY <1>1, <2>1, <2>2 DEF Accounts
<1>4. CASE ~Strict
  <2>1. ~Counted(r)'
    BY <1>4, GotoCounts DEF Objection
  <2>2. Tally' = Tally
    BY <1>1, <1>2, <1>4, TallySame
  <2>3. QED
    BY <1>1, <2>1, <2>2 DEF Accounts
<1>5. QED
  BY <1>3, <1>4

(* Each finished call is counted once and under one metric, by the step     *)
(* that decides how it ends.                                                *)
LEMMA StepAccounts ==
    ASSUME Metered, UNCHANGED policy, NEW r \in Requests, CallExecute(r) \/ ExecutorStep(r)
    PROVE  Accounts(r)
<1>1. ASSUME NEW pc, Goto(r, pc), pc \notin {"done", "unwind"},
             exPc[r] \notin {"done", "unwind"}, Tally' = Tally
      PROVE  Accounts(r)
  BY <1>1, GotoCounts DEF Accounts
<1>2. ASSUME Raise(r, "PsycopgError") \/ Raise(r, "QueryCanceled"),
             exPc[r] \notin {"done", "unwind"}, UNCHANGED <<preflightTotal, execTotal>>
      PROVE  Accounts(r)
  <2>1. ~Counted(r) /\ ~Counted(r)'
    BY <1>2, RaiseCounts DEF Counted
  <2>2. QED
    BY <1>2, <2>1, TallySame DEF Accounts
<1>3. CASE CallExecute(r)
  <2>1. exPc[r] = "idle" /\ Goto(r, "connect") /\ UNCHANGED <<preflightTotal, execTotal>>
    BY <1>3 DEF CallExecute, Execute, meters
  <2>2. QED
    BY <1>1, <2>1, TallySame
<1>4. CASE ConnectionRefused(r)
  <2>1. /\ exPc[r] = "connect" /\ Goto(r, "done") /\ UNCHANGED preflightTotal
        /\ execTotal' = Count(execTotal, "error")
    BY <1>4 DEF ConnectionRefused
  <2>2. Tally' = Tally + 1
    BY <2>1, TallyObserves DEF ExecLabels
  <2>3. QED
    BY <2>1, <2>2, GotoCounts DEF Accounts
<1>5. ASSUME NEW c \in Conns, ConnectionStep(r, c)
      PROVE  Accounts(r)
  <2>1. CASE \/ ConnectionGranted(r, c) \/ Begin(r, c) \/ SetReadOnly(r, c)
             \/ SetStatementTimeout(r, c) \/ \E hits \in Matches : QueryRuns(r, c, hits)
    <3>1. PICK pc \in {"begin", "readonly", "timeout", "explain", "commit"} : Goto(r, pc)
      BY <2>1 DEF ConnectionGranted, Begin, SetReadOnly, SetStatementTimeout, Prepare, QueryRuns
    <3>2. exPc[r] \notin {"done", "unwind"} /\ UNCHANGED <<preflightTotal, execTotal>>
      BY <2>1 DEF ConnectionGranted, Begin, SetReadOnly, SetStatementTimeout, Prepare, QueryRuns,
                  At, meters
    <3>3. QED
      BY <1>1, <3>1, <3>2, TallySame
  <2>2. CASE LinkLost(r, c) \/ QueryCanceled(r, c) \/ QueryErrs(r, c)
    BY <1>2, <2>2 DEF LinkLost, QueryCanceled, QueryErrs, At, meters
  <2>3. CASE \/ ExplainSkipped(r, c)
             \/ \E est \in Estimates : ExplainWithinBudget(r, c, est)
    <3>1. /\ exPc[r] = "explain" /\ Goto(r, "query") /\ UNCHANGED execTotal
          /\ \/ preflightTotal' = Count(preflightTotal, "disabled")
             \/ preflightTotal' = Count(preflightTotal, "ok")
      BY <2>3 DEF ExplainSkipped, ExplainWithinBudget, Explaining, At
    <3>2. Tally' = Tally
      BY <3>1, TallySame
    <3>3. QED
      BY <1>1, <3>1, <3>2
  <2>4. CASE ExplainCanceled(r, c)
    <3>1. /\ exPc[r] = "explain" /\ Raise(r, "QueryTimeoutError") /\ UNCHANGED execTotal
          /\ preflightTotal' = Count(preflightTotal, "timeout")
      BY <2>4 DEF ExplainCanceled, Explaining, At
    <3>2. Tally' = Tally + 1
      BY <3>1, TallyRejects
    <3>3. ~Counted(r) /\ Counted(r)'
      BY <3>1, RaiseCounts DEF Counted
    <3>4. QED
      BY <3>2, <3>3 DEF Accounts
  <2>5. CASE \/ ExplainErrs(r, c) \/ ExplainNoPlan(r, c)
             \/ \E est \in Estimates : ExplainOverBudget(r, c, est)
    <3>1. /\ exPc[r] = "explain"
          /\ \E problem \in {"error", "empty_plan", "parse_error", "cost_exceeded"},
                error \in {"QueryExecutionError", "QueryCostExceededError"} :
                \E est \in Estimates \cup {NoEstimate} : Objection(r, problem, error, est)
      BY <2>5 DEF ExplainErrs, ExplainNoPlan, ExplainOverBudget, Explaining, At
    <3>2. QED
      BY <3>1, ObjectionAccounts
  <2>6. CASE Commit(r, c)
    <3>1. /\ exPc[r] = "commit" /\ Goto(r, "done") /\ UNCHANGED preflightTotal
          /\ execTotal' = Count(execTotal, "success")
      BY <2>6 DEF Commit, At
    <3>2. Tally' = Tally + 1
      BY <3>1, TallyObserves DEF ExecLabels
    <3>3. QED
      BY <3>1, <3>2, GotoCounts DEF Accounts
  <2>7. CASE Unwind(r, c)
    <3>1. /\ exPc[r] = "unwind" /\ Goto(r, "done") /\ UNCHANGED preflightTotal
          /\ execTotal' = Observed(frame[r].raised)
      BY <2>7 DEF Unwind, At
    <3>2. Counted(r)'
      BY <3>1, GotoCounts
    <3>3. CASE frame[r].raised \in {"QueryCanceled", "PsycopgError"}
      <4>1. \E label \in ExecLabels : execTotal' = Count(execTotal, label)
        BY <3>1, <3>3 DEF Observed, ExecLabels
      <4>2. Tally' = Tally + 1 /\ ~Counted(r)
        BY <3>1, <3>3, <4>1, TallyObserves DEF Counted
      <4>3. QED
        BY <3>2, <4>2 DEF Accounts
    <3>4. CASE frame[r].raised \notin {"QueryCanceled", "PsycopgError"}
      <4>1. UNCHANGED execTotal /\ Counted(r)
        BY <3>1, <3>4 DEF Observed, Counted
      <4>2. QED
        BY <3>1, <3>2, <4>1, TallySame DEF Accounts
    <3>5. QED
      BY <3>3, <3>4
  <2>8. QED
    BY <1>5, <2>1, <2>2, <2>3, <2>4, <2>5, <2>6, <2>7 DEF ConnectionStep
<1>6. QED
  BY <1>3, <1>4, <1>5 DEF ExecutorStep

(* However many calls race over the counters, each finished call is counted *)
(* once: by its latency, or by the preflight outcome that rejected it.      *)
THEOREM CountedOnce ==
    ASSUME IsFiniteSet(Requests)
    PROVE  ExecutorSpec => []ExecAccounting
<1>1. ExecutorInit => ExecAccounting
  <2>1. ASSUME ExecutorInit
        PROVE  ExecAccounting
    <3>1. CountedCalls = {}
      BY <2>1 DEF ExecutorInit, CountedCalls, Counted
    <3>2. Tally = 0
      BY <2>1 DEF ExecutorInit, Tally, RejectedByPreflight, PreflightLabels, ExecLabels
    <3>3. Cardinality(CountedCalls) = Tally
      BY <3>1, <3>2, FS_EmptySet
    <3>4. QED
      BY <3>3 DEF ExecAccounting, CountedCalls, Tally
  <2>2. QED
    BY <2>1
<1>2. ASSUME ExecAccounting, AnswersInv, AnswersInv', [ExecutorNext]_executorVars
      PROVE  ExecAccounting'
  <2>1. Metered /\ UNCHANGED policy
    BY <1>2 DEF AnswersInv, ExecutorInv, ExecutorTypeOK, Metered, CallTyped, ExecutorNext,
                executorVars
  <2>2. CASE UNCHANGED exVars
    <3>1. CountedCalls' = CountedCalls
      BY <2>2 DEF exVars, CountedCalls, Counted
    <3>2. Tally' = Tally
      BY <2>1, <2>2, TallySame DEF exVars
    <3>3. QED
      BY <1>2, <3>1, <3>2 DEF ExecAccounting, CountedCalls, Tally
  <2>3. ASSUME NEW r \in Requests, CallExecute(r) \/ ExecutorStep(r)
        PROVE  ExecAccounting'
    <3>1. Accounts(r)
      BY <2>1, <2>3, StepAccounts
    <3>2. OthersSame(r)
      BY <1>2, <2>1, <2>3, StepIsOfOne
    <3>3. QED
      BY <1>2, <2>1, <3>1, <3>2, AccountsKeep
  <2>4. QED
    BY <1>2, <2>2, <2>3 DEF ExecutorNext, executorVars
<1>3. QED
  BY <1>1, <1>2, AnswersAlways, PTL DEF ExecutorSpec
=============================================================================
