---------------------------- MODULE AskQuestion -----------------------------
(***************************************************************************)
(* AskQuestionUseCase.execute (application/use_cases/ask_question.py), one *)
(* task per request, over the ports it depends on: schema and query calls  *)
(* that share the pool (two instances of DbCall), the LLM, and the guard.  *)
(* X_Y marked "slip" is X with a mistake the properties must notice.       *)
(***************************************************************************)
EXTENDS SqlGuard, Ports, ErrorMapping

CONSTANTS
    Requests, Conns, Nobody,
    DefaultMaxRows, MaxRowsLimit,      \* default_max_rows, max_rows_limit
    MaxAttempts,                       \* sql_generation_max_attempts, as configured
    NoCap,                             \* the client sent no max_rows
    RequestedCaps,                     \* what clients send as max_rows
    Generated                          \* what the LLM may write

ASSUME AskAssumption ==
    /\ Nobody \notin Requests
    /\ DefaultMaxRows \in Nat /\ MaxRowsLimit \in Nat /\ MaxAttempts \in Int
    /\ NoCap \notin Nat
    /\ RequestedCaps \subseteq (Nat \ {0}) \cup {NoCap}
    /\ Generated \subseteq [text : Text, writes : BOOLEAN]

VARIABLES
    askPc,            \* askPc[r]: which port r awaits
    local,            \* local[r]: the locals of execute
    response,         \* response[r]: what the client got
    holder,           \* holder[c]: the request that owns connection c
    schemaPhase, schemaArg, schemaResult,
    queryPhase, queryArg, queryResult

schemaCall == <<schemaPhase, schemaArg, schemaResult>>
queryCall == <<queryPhase, queryArg, queryResult>>
askVars == <<askPc, local, response, holder, schemaCall, queryCall>>

SchemaAnswers(a) == {"ok", "schema_unavailable"}
Schema == INSTANCE DbCall WITH
    Callers <- Requests, Slots <- Conns, Answers <- SchemaAnswers,
    Refusal <- "schema_unavailable",
    phase <- schemaPhase, arg <- schemaArg, result <- schemaResult
Exec == INSTANCE DbCall WITH
    Callers <- Requests, Slots <- Conns, Answers <- ExecuteOutcomes,
    Refusal <- QueryFailed("query_execution_failed"),
    phase <- queryPhase, arg <- queryArg, result <- queryResult

LlmErrors == {"llm_unavailable", "llm_bad_response", "unexpected"}

NoText == [lines |-> <<>>, parses |-> FALSE,
           query |-> [stmts |-> 0, root |-> "other", forbidden |-> FALSE, joins |-> 0,
                      subqueries |-> 0, star |-> FALSE, limit |-> NoLimit]]
NoCall == [sql |-> [writes |-> FALSE, limit |-> 0], maxRows |-> 0]

Local == [asked      : Nat \cup {NoCap},     \* max_rows of the request
          cap        : Nat,                  \* effective_max_rows
          attempt    : Nat,
          prompt     : Verdicts \cup {"question"},  \* what the LLM is told last
          rejections : Seq(Verdicts),        \* history: verdicts of the guard
          text       : Text]                 \* the last text of the LLM

Response == [status : {0, 200, 400, 422, 500, 502, 503, 504},
             code : {"none", "ok", "unexpected"} \cup DOMAIN ClassOf,
             sql : Statement, result : [rows : Nat, truncated : BOOLEAN]]

Rendered(code, sql, rows, truncated) ==
    [status |-> IF code = "ok" THEN 200 ELSE Status(code), code |-> code, sql |-> sql,
     result |-> [rows |-> rows, truncated |-> truncated]]
Failed(code) == Rendered(code, NoCall.sql, 0, FALSE)
-----------------------------------------------------------------------------
AskInit ==
    /\ askPc = [r \in Requests |-> "new"]
    /\ local = [r \in Requests |->
                   [asked |-> NoCap, cap |-> 0, attempt |-> 0, prompt |-> "question",
                    rejections |-> <<>>, text |-> NoText]]
    /\ response = [r \in Requests |-> [Failed("unexpected") EXCEPT !.status = 0,
                                                                   !.code = "none"]]
    /\ holder = [c \in Conns |-> Nobody]
    /\ schemaPhase = [r \in Requests |-> "idle"]
    /\ schemaArg = [r \in Requests |-> "none"]
    /\ schemaResult = [r \in Requests |-> "none"]
    /\ queryPhase = [r \in Requests |-> "idle"]
    /\ queryArg = [r \in Requests |-> NoCall]
    /\ queryResult = [r \in Requests |-> QueryFailed("none")]

Await(r, from, to) == askPc[r] = from /\ askPc' = [askPc EXCEPT ![r] = to]
Respond(r, from, answer) ==
    /\ Await(r, from, "answered")
    /\ response' = [response EXCEPT ![r] = answer]

EffectiveCap(asked) ==
    Least(IF asked = NoCap THEN DefaultMaxRows ELSE asked, MaxRowsLimit)

AttemptLimit == IF MaxAttempts < 1 THEN 1 ELSE MaxAttempts

(* POST /ask: the cap is fixed and get_schema is called. *)
Ask(r, asked) ==
    /\ Await(r, "new", "schema")
    /\ local' = [local EXCEPT ![r].asked = asked, ![r].cap = EffectiveCap(asked)]
    /\ Schema!Call(r, "catalog") \/ Schema!AnswerFromMemory(r, "catalog", "ok")
    /\ UNCHANGED <<response, queryCall>>

SchemaLoaded(r) ==
    /\ schemaPhase[r] = "done" /\ schemaResult[r] = "ok"
    /\ Await(r, "schema", "llm")
    /\ local' = [local EXCEPT ![r].attempt = 1]
    /\ UNCHANGED <<response, holder, schemaCall, queryCall>>

SchemaFailed_Retry(r) ==                                   \* slip: waits for the database
    /\ schemaPhase[r] = "done" /\ schemaResult[r] # "ok"
    /\ Await(r, "schema", "schema")
    /\ schemaPhase' = [schemaPhase EXCEPT ![r] = "queued"]
    /\ UNCHANGED <<local, response, holder, schemaArg, schemaResult, queryCall>>
SchemaFailed(r) ==
    /\ schemaPhase[r] = "done" /\ schemaResult[r] # "ok"
    /\ Respond(r, "schema", Failed(schemaResult[r]))
    /\ UNCHANGED <<local, holder, schemaCall, queryCall>>

(* generate_sql raised: no retry at this level. *)
GenerationFailed(r, code) ==
    /\ Respond(r, "llm", Failed(code))
    /\ UNCHANGED <<local, holder, schemaCall, queryCall>>

(* The guard accepts the text: the statement goes to the executor. *)
ToExecute_ServerLimit(text, writes, cap) ==                \* slip: not the request's cap
    [sql |-> [writes |-> writes, limit |-> Validate(text, MaxRowsLimit).sql.query.limit],
     maxRows |-> cap]
ToExecute(text, writes, cap) ==
    [sql |-> [writes |-> writes, limit |-> Validate(text, cap).sql.query.limit],
     maxRows |-> cap]

GeneratedSafe(r, g) ==
    /\ Await(r, "llm", "query")
    /\ Verdict(g.text) = "ok"
    /\ local' = [local EXCEPT ![r].text = g.text]
    /\ Exec!Call(r, ToExecute(g.text, g.writes, local[r].cap))
    /\ UNCHANGED <<response, schemaCall>>

(* The guard rejects it: the next attempt, told why, or the last error. *)
RetryPrompt_First(r, verdict) ==                           \* slip: keeps the first reason
    IF local[r].prompt = "question" THEN verdict ELSE local[r].prompt
RetryPrompt(r, verdict) == verdict
Exhausted_Early(attempt) == attempt >= AttemptLimit - 1    \* slip: off by one
Exhausted(attempt) == attempt >= AttemptLimit

GeneratedUnsafe(r, g) ==
    LET verdict == Verdict(g.text)
        rejections == Append(local[r].rejections, verdict)
    IN  /\ askPc[r] = "llm" /\ verdict # "ok"
        /\ \/ /\ Exhausted(local[r].attempt)
              /\ Respond(r, "llm", Failed("unsafe_sql"))
              /\ local' = [local EXCEPT ![r].rejections = rejections, ![r].text = g.text]
           \/ /\ ~Exhausted(local[r].attempt)
              /\ Await(r, "llm", "llm")
              /\ local' = [local EXCEPT ![r].attempt = @ + 1,
                                        ![r].prompt = RetryPrompt(r, verdict),
                                        ![r].rejections = rejections,
                                        ![r].text = g.text]
              /\ UNCHANGED response
        /\ UNCHANGED <<holder, schemaCall, queryCall>>

(* The outcome reports the statement that ran, or the executor's error. *)
ReportedSql_Raw(r) ==                                      \* slip: reports generated.sql
    [queryArg[r].sql EXCEPT !.limit = local[r].text.query.limit]
ReportedSql(r) == queryArg[r].sql

Executed(r) ==
    LET q == queryResult[r]
    IN  /\ queryPhase[r] = "done"
        /\ Respond(r, "query", IF q.code = "ok"
                               THEN Rendered("ok", ReportedSql(r), q.rows, q.truncated)
                               ELSE Failed(q.code))
        /\ UNCHANGED <<local, holder, schemaCall, queryCall>>

Serve(r) == \/ Schema!Serve(r) /\ UNCHANGED <<askPc, local, response, queryCall>>
            \/ Exec!Serve(r) /\ UNCHANGED <<askPc, local, response, schemaCall>>

LlmAnswers(r) == \/ \E code \in LlmErrors : GenerationFailed(r, code)
                 \/ \E g \in Generated : GeneratedSafe(r, g) \/ GeneratedUnsafe(r, g)
Resumes(r) == SchemaLoaded(r) \/ SchemaFailed(r) \/ Executed(r)

AskNext ==
    \/ \E r \in Requests : \/ \E asked \in RequestedCaps : Ask(r, asked)
                           \/ Serve(r) \/ LlmAnswers(r) \/ Resumes(r)

AskSpec == AskInit /\ [][AskNext]_askVars

(* The ports answer: the executor because of its timeouts (CallsComplete), the*)
(* LLM client because of its own, the schema provider by assumption; the event*)
(* loop resumes a task whose awaitable is done.                               *)
FairAskSpec ==
    AskSpec /\ \A r \in Requests : /\ WF_askVars(Serve(r))
                                   /\ WF_askVars(LlmAnswers(r))
                                   /\ WF_askVars(Resumes(r))
-----------------------------------------------------------------------------
(* Properties *)

(* Every variable has its type. *)
AskTypeOK ==
    /\ askPc \in [Requests -> {"new", "schema", "llm", "query", "answered"}]
    /\ \A r \in Requests : local[r] \in Local /\ response[r] \in Response
    /\ holder \in [Conns -> Requests \cup {Nobody}]

Ceiling(asked) == IF asked = NoCap THEN MaxRowsLimit ELSE Least(asked, MaxRowsLimit)

(* Only vetted SQL reaches the database: the executor is called with the last *)
(* text of the LLM, which the guard accepted, under a LIMIT and a row cap     *)
(* within what the client asked for and the server allows, and the client     *)
(* never gets more rows than that.                                            *)
OnlyVettedSqlExecuted ==
    \A r \in Requests :
        /\ queryPhase[r] # "idle" =>
               /\ Verdict(local[r].text) = "ok"
               /\ queryArg[r].sql.limit <= queryArg[r].maxRows
               /\ queryArg[r].maxRows <= Ceiling(local[r].asked)
        /\ response[r].result.rows <= Ceiling(local[r].asked)

(* A client is told "unsafe SQL" only after the guard rejected every attempt  *)
(* it was granted; no text is generated beyond them, and an accepted text or  *)
(* a failed LLM ends the generation at once.                                  *)
UnsafeOnlyAfterAllAttempts ==
    \A r \in Requests :
        LET l == local[r]
        IN  /\ Len(l.rejections) <= AttemptLimit
            /\ response[r].code = "unsafe_sql" <=> Len(l.rejections) = AttemptLimit
            /\ askPc[r] = "llm" => l.attempt = Len(l.rejections) + 1

(* Each new attempt tells the model why the last text, not an earlier one, was*)
(* rejected; the first attempt is the question alone.                         *)
RetryNamesLastRejection ==
    \A r \in Requests : askPc[r] = "llm" =>
        local[r].prompt = IF local[r].rejections = <<>> THEN "question"
                          ELSE Last(local[r].rejections)

(* Types and the attempt loop of the use case together. *)
AttemptDiscipline ==
    AskTypeOK /\ UnsafeOnlyAfterAllAttempts /\ RetryNamesLastRejection

(* A request owns a connection only inside a database call: never during the  *)
(* seconds of an LLM call, and none is left once it is answered.              *)
NoConnectionWhileGenerating ==
    \A r \in Requests, c \in Conns :
        holder[c] = r => <<askPc[r], schemaPhase[r], queryPhase[r]>> \in
                             {<<"schema", "holding", "idle">>, <<"query", "done", "holding">>}

(* An answer with rows reports the statement that was executed, a statement   *)
(* that would have written is never answered with rows, and a failed LLM call *)
(* reaches no database.                                                       *)
AnswerMatchesExecution ==
    \A r \in Requests :
        /\ response[r].code = "ok" =>
               /\ queryPhase[r] = "done" /\ queryResult[r].code = "ok"
               /\ response[r].sql = queryArg[r].sql
               /\ ~queryArg[r].sql.writes
        /\ response[r].code \in LlmErrors \cup {"schema_unavailable"} =>
               queryPhase[r] = "idle"

(* What was vetted, what was executed and what is reported are one statement. *)
VettedExecutedReported == OnlyVettedSqlExecuted /\ AnswerMatchesExecution

(* The statuses the comments of _STATUS_MAP and the route's documentation     *)
(* promise for each error; 500 only for what is no domain error.              *)
StatusAsDocumented ==
    \A r \in Requests : askPc[r] = "answered" =>
        response[r].status =
            CASE response[r].code = "ok" -> 200
              [] response[r].code = "llm_bad_response" -> 502
              [] response[r].code \in {"llm_unavailable", "schema_unavailable"} -> 503
              [] response[r].code = "query_timeout" -> 504
              [] response[r].code = "unexpected" -> 500
              [] OTHER -> 422

(* Every request is answered. *)
EveryRequestAnswered ==
    \A r \in Requests : askPc[r] = "schema" ~> askPc[r] = "answered"

(* Seen from the resources it shares, a request takes the steps of AskCall    *)
(* only: it queues for the pool at most twice, before and after the whole     *)
(* generation, has given its slot back before it goes on or is answered, and  *)
(* the status it answers is one AskCall allows where it is answered.          *)
AskStage == [r \in Requests |-> IF askPc[r] = "llm" THEN "generating" ELSE askPc[r]]
AskClaim ==
    [r \in Requests |->
        LET phases == {schemaPhase[r], queryPhase[r]}
        IN  IF "holding" \in phases THEN "holding"
            ELSE IF "queued" \in phases THEN "queued" ELSE "none"]
Abstract == INSTANCE AskCall WITH
    Callers <- Requests, Slots <- Conns, stage <- AskStage, claim <- AskClaim

AskCallStep ==
    \E r \in Requests : Abstract!Takes(r) \/ Abstract!Answer(r, response'[r].status)
ImplementsAskCall ==
    Abstract!AskCallInit /\ [][AskCallStep]_<<AskStage, AskClaim, holder>>

(* The rows the statement of the LLM itself would have returned. *)
WantedRows(r) ==
    LET l == local[r].text.query.limit
    IN  IF l \in Nat THEN Least(queryResult[r].matched, l) ELSE queryResult[r].matched

(* Three places cut an answer: the LIMIT of the LLM, the one the guard makes  *)
(* of it, and the executor.  Together they cost the client no row within its  *)
(* cap and give it none the LLM did not ask for, unless the LIMIT was no      *)
(* literal, which the guard replaces even when it was the smaller one.        *)
RowsAsAsked ==
    \A r \in Requests :
        response[r].code = "ok" /\ local[r].text.query.limit # OddLimit =>
            response[r].result.rows = Least(WantedRows(r), EffectiveCap(local[r].asked))

(* Claimed by domain/entities.py of QueryResult.truncated, "True when the     *)
(* result was capped by the configured max-rows limit": the statement of the  *)
(* LLM would have returned more rows than the client got.                     *)
TruncationReported ==
    \A r \in Requests : response[r].code = "ok" =>
        (response[r].result.truncated <=> WantedRows(r) > response[r].result.rows)
=============================================================================
