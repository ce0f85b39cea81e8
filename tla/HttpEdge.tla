------------------------------ MODULE HttpEdge ------------------------------
(***************************************************************************)
(* What wraps every handler (api/middleware.py, api/errors.py, create_app):*)
(* from the outside in, Starlette's ServerErrorMiddleware with the handler *)
(* for Exception, RequestIdMiddleware, MetricsMiddleware, the handler for  *)
(* AssistantError.  Each request is a task with its own contextvars.       *)
(* X_Y marked "slip" is X with a mistake the properties must notice.       *)
(***************************************************************************)
EXTENDS Naturals, Sequences

CONSTANTS Requests,
          SentIds,        \* what clients send as X-Request-ID
          NoId,           \* request_id_var's default "-"; a header not sent
          NotUtf8         \* an X-Request-ID that does not decode

VARIABLES
    edge,             \* edge[r]: how far r's exchange is
    requestId,        \* requestId[r]: request_id_var in the context of r's task
    metricsEnabled    \* metrics_enabled of this process

(* app: below the middlewares; sending, failing: http.response.start is out,  *)
(* from inside or from the catch-all handler.                                 *)
EdgePc == {"idle", "app", "sending", "failing", "closed"}

Id == (SentIds \ {NotUtf8}) \cup Requests \cup {NoId}

HttpExchange ==
    [pc      : EdgePc,
     id      : Id,              \* local request_id of RequestIdMiddleware
     status  : Nat,             \* of http.response.start, 0 before
     header  : Id,              \* X-Request-ID of the response
     logged  : SUBSET Id,       \* history: request_id of the log lines about r
     counted : Seq(Nat)]        \* r's increments of http_requests_total

NotStarted == [pc |-> "idle", id |-> NoId, status |-> 0, header |-> NoId,
               logged |-> {}, counted |-> <<>>]
-----------------------------------------------------------------------------
EdgeInit ==
    /\ edge = [r \in Requests |-> NotStarted]
    /\ requestId = [r \in Requests |-> NoId]
    /\ metricsEnabled \in BOOLEAN

SetRequestId_Global(r, id) == [x \in Requests |-> id]      \* slip: no ContextVar
SetRequestId(r, id) == [requestId EXCEPT ![r] = id]

(* uuid4().hex, named after the request it is made for.                       *)
Fresh(r) == r

(* The request passes both middlewares.                                       *)
EnterEdge(r, sent) ==
    LET id == IF sent = NoId THEN Fresh(r) ELSE sent
    IN  /\ sent # NotUtf8
        /\ edge' = [edge EXCEPT ![r] = [NotStarted EXCEPT !.pc = "app", !.id = id]]
        /\ requestId' = SetRequestId(r, id)

CatchAll(e, lineId) ==
    [e EXCEPT !.pc = "failing", !.status = 500, !.logged = @ \cup {lineId}]

(* incoming.decode() raises outside of MetricsMiddleware and of the try.      *)
RejectHeader(r) ==
    /\ edge' = [edge EXCEPT ![r] = CatchAll(NotStarted, requestId[r])]
    /\ UNCHANGED requestId

(* A response from inside: rendered by the handler, by FastAPI for a request  *)
(* it does not route or validate, or by the handler for AssistantError, which *)
(* writes a log line first.                                                   *)
Respond(r, status, lines) ==
    /\ edge[r].pc = "app"
    /\ edge' = [edge EXCEPT ![r].pc = "sending", ![r].status = status,
                            ![r].header = edge[r].id,
                            ![r].logged = @ \cup (IF lines THEN {requestId[r]} ELSE {})]
    /\ UNCHANGED requestId

Counted_AnswersOnly(status) ==                             \* slip: no finally
    IF metricsEnabled /\ status # 500 THEN <<status>> ELSE <<>>
Counted(status) == IF metricsEnabled THEN <<status>> ELSE <<>>

(* An exception no handler inside takes: both finally clauses run, then the   *)
(* catch-all logs it and starts its own response.                             *)
Fail(r) ==
    /\ edge[r].pc = "app"
    /\ requestId' = SetRequestId(r, NoId)
    /\ edge' = [edge EXCEPT ![r] = [CatchAll(edge[r], requestId'[r])
                                        EXCEPT !.counted = @ \o Counted(500)]]

(* The body is out; the middlewares return.                                   *)
Finish(r) ==
    \/ /\ edge[r].pc = "sending"
       /\ edge' = [edge EXCEPT ![r].pc = "closed",
                               ![r].counted = @ \o Counted(edge[r].status)]
       /\ requestId' = SetRequestId(r, NoId)
    \/ /\ edge[r].pc = "failing"
       /\ edge' = [edge EXCEPT ![r].pc = "closed"]
       /\ UNCHANGED requestId
-----------------------------------------------------------------------------
(* Properties *)

(* Every variable has its type. *)
EdgeTypeOK ==
    /\ edge \in [Requests -> HttpExchange]
    /\ requestId \in [Requests -> Id]
    /\ metricsEnabled \in BOOLEAN

(* However requests overlap, the lines a handler logs and the X-Request-ID of *)
(* its response carry the id of that request and of no other.                 *)
OwnRequestId ==
    \A r \in Requests :
        /\ edge[r].pc \in {"app", "sending"} =>
               requestId[r] = edge[r].id /\ edge[r].logged \subseteq {edge[r].id}
        /\ edge[r].pc = "sending" => edge[r].header = edge[r].id
        /\ edge[r].pc \in {"idle", "failing", "closed"} => requestId[r] = NoId

(* Every request that got past its header is counted once, under the status   *)
(* the client gets: also when it failed and the response was made outside of  *)
(* the middleware that counts.                                                *)
CountedAsAnswered ==
    \A r \in Requests : metricsEnabled /\ edge[r].pc = "closed" /\ edge[r].id # NoId =>
                            edge[r].counted = <<edge[r].status>>

(* Claimed by api/middleware.py, "Each request gets an X-Request-ID", stored  *)
(* "so log records and error handlers can include it, which makes 'the service*)
(* answered 500, why?' traceable across log lines".                           *)
EveryAnswerTraceable ==
    \A r \in Requests : edge[r].pc \in {"sending", "failing", "closed"} /\ edge[r].id # NoId =>
        edge[r].header = edge[r].id /\ edge[r].logged \subseteq {edge[r].id}
=============================================================================
