----------------------------- MODULE LlmClient ------------------------------
(***************************************************************************)
(* OpenAICompatibleClient.generate_sql (infrastructure/llm/openai_client): *)
(* the prompt, at most two POSTs of it to the completion endpoint per      *)
(* call, and the metrics of the process that the concurrent calls share.   *)
(* The endpoint is outside the repository.  Payload options, headers, error *)
(* details and logging are left out.                                       *)
(* X_Y marked "slip" is X with a mistake the properties must notice.       *)
(***************************************************************************)
EXTENDS Catalog

CONSTANTS
    Requests,
    Databases,        \* the databases the service may run on (see Catalog)
    Replies           \* what the endpoint may answer to a POST

(* post   how the POST ends: an exception of httpx, an error status (>= 400), *)
(*        "unexpected" for one that is no TransportError, or "answered"       *)
(* holds  what response.json and _extract_content make of the body; json raises*)
(*        no JSONDecodeError for one that is "undecodable", as when no UTF-8   *)
(* json   what the text starts with: JSON with or without a "sql" key, or not *)
(* fence  the inside of the first code fence of the text                      *)
(* usage  the count of each kind of tokens: absent (no int), counted, or      *)
(*        rejected: one that Counter.inc raises for, as it does for a negative *)
TokenKinds == {"prompt", "completion", "total"}
Reply == [post  : {"timeout", "transport", "unexpected", "http_error", "answered"},
          holds : {"undecodable", "not_json", "no_text", "text"},
          json  : {"none", "other", "blank_sql", "sql"},
          fence : {"none", "blank", "sql"},
          usage : [TokenKinds -> {"absent", "counted", "rejected"}]]

ASSUME RepliesAssumption == Replies \subseteq Reply
ASSUME DatabasesAssumption == \A db \in Databases : IsDatabase(db)

VARIABLES
    database,         \* the database of this run
    llPc,             \* llPc[r]: is r's call awaiting a POST
    messages,         \* messages[r]: the schema text of the payload
    replies,          \* history: the replies to the POSTs of r's call
    llOut,            \* what the call returned or raised
    sqlFrom,          \* sqlFrom[r]: where GeneratedSql.sql was found
    llmTotal,         \* llm_requests_total, by outcome
    llmLatency,       \* observations of llm_latency_seconds
    tokensTotal       \* increments of llm_tokens_total, by kind

callVars == <<llPc, messages, replies, llOut, sqlFrom>>
meterVars == <<llmTotal, llmLatency, tokensTotal>>
llmVars == <<database, callVars, meterVars>>

LlmLabels == {"timeout", "transport_error", "http_error", "json_decode_error",
              "bad_response", "success"}
LlmCodes == {"none", "ok", "llm_unavailable", "llm_bad_response", "unexpected"}
Sources == {"json", "fence", "raw", "nothing"}
-----------------------------------------------------------------------------
LlmInit ==
    /\ database \in Databases
    /\ llPc = [r \in Requests |-> "idle"]
    /\ messages = [r \in Requests |-> <<>>]
    /\ replies = [r \in Requests |-> <<>>]
    /\ llOut = [r \in Requests |-> "none"]
    /\ sqlFrom = [r \in Requests |-> "nothing"]
    /\ llmTotal = [l \in LlmLabels |-> 0]
    /\ llmLatency = 0
    /\ tokensTotal = [k \in TokenKinds |-> 0]

GenerateSql(r) ==
    /\ llPc[r] = "idle"
    /\ llPc' = [llPc EXCEPT ![r] = "posting"]
    /\ messages' = [messages EXCEPT ![r] = Prompt(database)]
    /\ UNCHANGED <<database, replies, llOut, sqlFrom, meterVars>>

(* _parse_sql: JSON with "sql", else a fence with something in it, else all of*)
(* the text; a blank "sql" is the one text without a statement.               *)
ParseSql_FenceFirst(reply) ==                              \* slip: swapped order
    CASE reply.fence = "sql" -> "fence"
      [] reply.fence # "sql" /\ reply.json = "sql" -> "json"
      [] reply.fence # "sql" /\ reply.json = "blank_sql" -> "nothing"
      [] OTHER -> "raw"
ParseSql(reply) ==
    CASE reply.json = "sql" -> "json"
      [] reply.json = "blank_sql" -> "nothing"
      [] reply.json \notin {"sql", "blank_sql"} /\ reply.fence = "sql" -> "fence"
      [] OTHER -> "raw"

(* _record_usage runs once the text was found and takes the kinds in this     *)
(* order; the first count that is rejected ends it with a ValueError, which   *)
(* leaves the counts before it in llm_tokens_total.                           *)
Earlier(kind) ==
    CASE kind = "prompt" -> {}
      [] kind = "completion" -> {"prompt"}
      [] kind = "total" -> {"prompt", "completion"}

HasText(reply) == reply.post = "answered" /\ reply.holds = "text"
RejectsUsage(reply) == \E k \in TokenKinds : reply.usage[k] = "rejected"

RecordedTokens_Skips(reply) ==                             \* slip: goes on after it
    {k \in TokenKinds : HasText(reply) /\ reply.usage[k] = "counted"}
RecordedTokens(reply) ==
    {k \in TokenKinds : /\ HasText(reply) /\ reply.usage[k] = "counted"
                        /\ \A e \in Earlier(k) : reply.usage[e] # "rejected"}

(* The branch of generate_sql a reply takes: response.json, _extract_content, *)
(* _record_usage and _parse_sql, in this order.                               *)
Kind(reply) ==
    IF reply.post # "answered" THEN reply.post
    ELSE CASE reply.holds = "undecodable" -> "unexpected"
           [] reply.holds = "not_json" -> "not_json"
           [] reply.holds = "no_text" -> "bad_content"
           [] reply.holds = "text" ->
                  IF RejectsUsage(reply) THEN "unexpected"
                  ELSE IF ParseSql(reply) = "nothing" THEN "empty_sql" ELSE "sql"

(* Which counters a reply increments.  "success" comes before _parse_sql, so  *)
(* an empty statement goes under success and under bad_response.              *)
Labels_OnceEach(kind) ==                                   \* slip: retries uncounted
    CASE kind = "timeout" -> {"timeout"}
      [] kind = "transport" -> {"transport_error"}
      [] kind = "http_error" -> {"http_error"}
      [] kind = "not_json" -> {"json_decode_error"}
      [] kind = "sql" -> {"success"}
      [] OTHER -> {}
Labels(kind) ==
    CASE kind = "timeout" -> {"timeout"}
      [] kind = "transport" -> {"transport_error"}
      [] kind = "unexpected" -> {}
      [] kind = "http_error" -> {"http_error"}
      [] kind = "not_json" -> {"json_decode_error"}
      [] kind = "bad_content" -> {"bad_response"}
      [] kind = "empty_sql" -> {"success", "bad_response"}
      [] kind = "sql" -> {"success"}

(* LLMResponseError inside the loop: the one error that is tried again. *)
Retriable_AnyJson(kind) ==                                 \* slip: retries bad JSON
    kind \in {"not_json", "bad_content", "empty_sql"}
Retriable(kind) == kind \in {"bad_content", "empty_sql"}

ResultOf(kind) ==
    CASE kind = "sql" -> "ok"
      [] kind = "unexpected" -> "unexpected"
      [] kind \in {"timeout", "transport", "http_error"} -> "llm_unavailable"
      [] OTHER -> "llm_bad_response"

TriesAgain_Twice(r, kind) == Retriable(kind) /\ Len(replies[r]) < 2   \* slip: range(3)
TriesAgain(r, kind) == Retriable(kind) /\ Len(replies[r]) = 0

(* One POST comes back; the loop ends or goes round at once.                  *)
PostReturns(r, reply) ==
    LET kind == Kind(reply)
    IN  /\ llPc[r] = "posting"
        /\ replies' = [replies EXCEPT ![r] = Append(@, reply)]
        /\ llmLatency' = llmLatency + 1
        /\ llmTotal' = [l \in LlmLabels |->
                            llmTotal[l] + (IF l \in Labels(kind) THEN 1 ELSE 0)]
        /\ tokensTotal' = [k \in TokenKinds |->
                               tokensTotal[k] + (IF k \in RecordedTokens(reply) THEN 1 ELSE 0)]
        /\ \/ /\ TriesAgain(r, kind)
              /\ UNCHANGED <<llPc, llOut, sqlFrom>>
           \/ /\ ~TriesAgain(r, kind)
              /\ llPc' = [llPc EXCEPT ![r] = "done"]
              /\ llOut' = [llOut EXCEPT ![r] = ResultOf(kind)]
              /\ sqlFrom' = [sqlFrom EXCEPT
                                ![r] = IF kind = "sql" THEN ParseSql(reply) ELSE "nothing"]
        /\ UNCHANGED <<database, messages>>

LlmNext ==
    \E r \in Requests : \/ GenerateSql(r)
                        \/ \E reply \in Replies : PostReturns(r, reply)

LlmSpec == LlmInit /\ [][LlmNext]_llmVars
-----------------------------------------------------------------------------
(* Properties *)

(* Every variable has its type. *)
LlmTypeOK ==
    /\ database \in Databases
    /\ llPc \in [Requests -> {"idle", "posting", "done"}]
    /\ \A r \in Requests : replies[r] \in UNION {[1..n -> Replies] : n \in 0..2}
    /\ llOut \in [Requests -> LlmCodes]
    /\ sqlFrom \in [Requests -> Sources]
    /\ llmTotal \in [LlmLabels -> Nat]
    /\ llmLatency \in Nat
    /\ tokensTotal \in [TokenKinds -> Nat]

(* A reply that was complete JSON without a usable statement.                 *)
Unusable(reply) ==
    /\ reply.post = "answered"
    /\ \/ reply.holds = "no_text"
       \/ reply.holds = "text" /\ reply.json = "blank_sql" /\ ~RejectsUsage(reply)

(* The endpoint gets a second POST exactly when the first reply was complete  *)
(* JSON without a usable statement, never after a timeout, a dead connection, *)
(* an HTTP error or a body that is no JSON, and there is no third.            *)
OneRetryAfterBadReply ==
    \A r \in Requests :
        /\ Len(replies[r]) <= 2
        /\ Len(replies[r]) = 2 => Unusable(replies[r][1])
        /\ llPc[r] = "done" /\ Len(replies[r]) = 1 => ~Unusable(replies[r][1])

(* Types and the retry rule of the client together. *)
LlmInv == LlmTypeOK /\ OneRetryAfterBadReply

(* What the caller gets is decided by the last reply alone: a statement, from *)
(* the most structured part of the text that holds one; a domain error; or,   *)
(* past all except clauses, the bare error of httpx, of the decoder or of     *)
(* Counter.inc, which costs the caller a good statement.  Exactly these three *)
(* break "Every step raises a domain exception on failure" (ask_question.py). *)
AnswerIsLastReply ==
    \A r \in Requests : llPc[r] = "done" =>
        LET last == Last(replies[r])
        IN  /\ llOut[r] = "ok" <=> sqlFrom[r] # "nothing"
            /\ llOut[r] = "ok" <=>
                   HasText(last) /\ last.json # "blank_sql" /\ ~RejectsUsage(last)
            /\ llOut[r] = "llm_bad_response" <=>
                   Unusable(last) \/ (last.post = "answered" /\ last.holds = "not_json")
            /\ llOut[r] = "unexpected" <=>
                   \/ last.post = "unexpected"
                   \/ last.post = "answered" /\ last.holds = "undecodable"
                   \/ HasText(last) /\ RejectsUsage(last)
            /\ last.json = "sql" => sqlFrom[r] \in {"json", "nothing"}
            /\ sqlFrom[r] = "raw" => last.json # "sql" /\ last.fence # "sql"

(* The POSTs that came back, as call and number, and the reply to each.       *)
Posts == UNION {{r} \X DOMAIN replies[r] : r \in Requests}
ReplyTo(post) == replies[post[1]][post[2]]
Succeeds(reply) == Kind(reply) \in {"sql", "empty_sql"}

(* Whatever calls overlap, every POST is timed once, a reply without usable   *)
(* SQL is counted as a bad response once, and one whose text was found and    *)
(* metered as a success once.                                                 *)
PostsCounted ==
    /\ llmLatency = Cardinality(Posts)
    /\ llmTotal["bad_response"] = Cardinality({p \in Posts : Unusable(ReplyTo(p))})
    /\ llmTotal["success"] = Cardinality({p \in Posts : Succeeds(ReplyTo(p))})

(* The three increments of _record_usage can stop half way.  Every count of a *)
(* success is recorded; one that is recorded without a success belongs to a   *)
(* call that failed with an unexpected error, at most one per call; and total,*)
(* which comes last, is recorded with a success only.                         *)
TokensAgreeWithAnswers ==
    /\ \A k \in TokenKinds :
           /\ tokensTotal[k] >= Cardinality({p \in Posts :
                  Succeeds(ReplyTo(p)) /\ ReplyTo(p).usage[k] = "counted"})
           /\ tokensTotal[k] <= llmTotal["success"]
                  + Cardinality({r \in Requests : llOut[r] = "unexpected"})
    /\ tokensTotal["total"] <= llmTotal["success"]

(* What the shared metrics record of replies that fail at any step.           *)
AttemptsMeasured == PostsCounted /\ TokensAgreeWithAnswers

(* The prompt loses nothing of the database: every table once, in order, and  *)
(* under it every column at least once, in order, whoever owns the tables and *)
(* however keys are named; a column appears twice only in databases whose keys*)
(* are not plain.                                                             *)
PromptCoversDatabase ==
    \A r \in Requests : llPc[r] # "idle" =>
        /\ Len(messages[r]) = Len(database.tables)
        /\ \A t \in DOMAIN messages[r] :
               LET listed == [c \in DOMAIN messages[r][t].lines |->
                                  messages[r][t].lines[c].column]
                   columns == [c \in DOMAIN database.tables[t].columns |->
                                   database.tables[t].columns[c].name]
               IN  /\ messages[r][t].table = database.tables[t].name
                   /\ \E original \in [DOMAIN listed -> DOMAIN columns] :
                          /\ \A c \in DOMAIN listed : listed[c] = columns[original[c]]
                          /\ \A c, d \in DOMAIN listed :
                                 c <= d => original[c] <= original[d]
                          /\ {original[c] : c \in DOMAIN listed} = DOMAIN columns
                   /\ PlainKeys(database) => Len(listed) = Len(columns)

(* For a role that owns the tables, and keys as the note in the introspection *)
(* query assumes them, the text is the description of the database: each      *)
(* column once, with its key, its reference and its nullability.              *)
PromptDescribesKeys ==
    \A r \in Requests :
        llPc[r] # "idle" /\ PlainKeys(database)
            /\ database.owned = {database.tables[t].name : t \in DOMAIN database.tables}
        => messages[r] = Described(database)

(* Both: what the model is told of the database is complete and, where the    *)
(* catalog views show the keys, right.                                        *)
PromptFaithful == PromptCoversDatabase /\ PromptDescribesKeys

(* Claimed by the docstring of render_for_prompt, "mark PK and FK             *)
(* relationships": no key of the database is missing in the text, which is all*)
(* the LLM knows.                                                             *)
KeysMarked ==
    \A r \in Requests : llPc[r] # "idle" =>
        \A k \in database.keys : \A column \in k.columns :
            \E t \in DOMAIN messages[r] : \E c \in DOMAIN messages[r][t].lines :
                LET line == messages[r][t].lines[c]
                IN  /\ messages[r][t].table = k.table /\ line.column = column
                    /\ IF k.primary THEN line.pk ELSE line.ref \in k.refs
=============================================================================
