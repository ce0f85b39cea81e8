--------------------------- MODULE Service_proofs ---------------------------
(***************************************************************************)
(* The process as a whole, for any requests, probes and pool size: request *)
(* ids and metrics of the middlewares, who owns the slots of the pool, and *)
(* the order of the lifespan.                                              *)
(***************************************************************************)
EXTENDS Service, ConnectionPool_proofs, TLAPS
-----------------------------------------------------------------------------
(* The middlewares *)

(* What is known of one exchange, besides its type: its context variable is *)
(* its own id until its task leaves RequestIdMiddleware, and it is counted  *)
(* when it leaves MetricsMiddleware.                                        *)
ExchangeInv(r) ==
    LET e == edge[r]
    IN  /\ e.pc \in {"app", "sending"} =>
               requestId[r] = e.id /\ e.logged \subseteq {e.id} /\ e.counted = <<>>
        /\ e.pc = "app" => e.status = 0
        /\ e.pc = "sending" => e.header = e.id
        /\ e.pc \in {"idle", "failing", "closed"} => requestId[r] = NoId
        /\ e.pc \in {"failing", "closed"} /\ e.id # NoId => e.counted = Counted(e.status)

EdgeInv == EdgeTypeOK /\ \A r \in Requests : ExchangeInv(r)

LEMMA CountedOnce ==
    ASSUME NEW status \in Nat
    PROVE  Counted(status) \in Seq(Nat) /\ <<>> \o Counted(status) = Counted(status)
  BY DEF Counted

LEMMA CatchAllTyped ==
    ASSUME NEW x \in HttpExchange, NEW lineId \in Id
    PROVE  LET e == CatchAll(x, lineId)
           IN  /\ e \in HttpExchange
               /\ e.pc = "failing" /\ e.status = 500
               /\ e.id = x.id /\ e.counted = x.counted
<1> DEFINE a == [x EXCEPT !.pc = "failing"]
           b == [a EXCEPT !.status = 500]
           c == [b EXCEPT !.logged = @ \cup {lineId}]
<1>1. a \in HttpExchange /\ a.pc = "failing" /\ a.id = x.id /\ a.counted = x.counted
  BY DEF HttpExchange, EdgePc
<1>2. CatchAll(x, lineId) = c
  BY DEF CatchAll
<1> HIDE DEF a
<1>3. /\ b \in HttpExchange /\ b.pc = a.pc /\ b.status = 500
      /\ b.id = a.id /\ b.counted = a.counted
  BY SMTT(30), <1>1 DEF HttpExchange
<1> HIDE DEF b
<1>4. /\ c \in HttpExchange /\ c.pc = b.pc /\ c.status = b.status
      /\ c.id = b.id /\ c.counted = b.counted
  BY SMTT(30), <1>3 DEF HttpExchange
<1> HIDE DEF c
<1>5. QED
  BY <1>1, <1>2, <1>3, <1>4

(* A step of one exchange: what holds of it afterwards is enough.           *)
LEMMA OneExchange ==
    ASSUME EdgeInv, NEW r \in Requests, NEW e \in HttpExchange, NEW id \in Id,
           edge' = [edge EXCEPT ![r] = e], requestId' = [requestId EXCEPT ![r] = id],
           UNCHANGED metricsEnabled,
           e.pc \in {"app", "sending"} =>
               id = e.id /\ e.logged \subseteq {e.id} /\ e.counted = <<>>,
           e.pc = "app" => e.status = 0,
           e.pc = "sending" => e.header = e.id,
           e.pc \in {"idle", "failing", "closed"} => id = NoId,
           e.pc \in {"failing", "closed"} /\ e.id # NoId => e.counted = Counted(e.status)
    PROVE  EdgeInv'
<1>1. EdgeTypeOK'
  BY DEF EdgeInv, EdgeTypeOK
<1>2. edge'[r] = e /\ requestId'[r] = id
  BY DEF EdgeInv, EdgeTypeOK
<1>3. \A q \in Requests : q # r => edge'[q] = edge[q] /\ requestId'[q] = requestId[q]
  BY DEF EdgeInv, EdgeTypeOK
<1>4. ExchangeInv(r)'
  BY <1>2 DEF ExchangeInv, Counted
<1>5. \A q \in Requests : q # r => ExchangeInv(q)'
  BY <1>3 DEF EdgeInv, ExchangeInv, Counted
<1>6. QED
  BY <1>1, <1>4, <1>5 DEF EdgeInv

LEMMA HttpExchangeTyped ==
    ASSUME EdgeInv, NEW r \in Requests
    PROVE  /\ edge[r] \in HttpExchange /\ requestId[r] \in Id
           /\ NotStarted \in HttpExchange /\ NoId \in Id
           /\ edge[r].pc \in EdgePc /\ edge[r].id \in Id /\ edge[r].status \in Nat
           /\ edge[r].header \in Id /\ edge[r].logged \subseteq Id
           /\ edge[r].counted \in Seq(Nat)
<1>1. NoId \in Id
  BY DEF Id
<1>2. <<>> \in Seq(Nat)
  OBVIOUS
<1>3. NotStarted \in HttpExchange
  BY <1>1, <1>2 DEF NotStarted, HttpExchange, EdgePc
<1>4. edge[r] \in HttpExchange /\ requestId[r] \in Id
  BY DEF EdgeInv, EdgeTypeOK
<1>5. QED
  BY <1>1, <1>3, <1>4 DEF HttpExchange

(* The request passes both middlewares.                                     *)
LEMMA EnterEdgeKeeps ==
    ASSUME EdgeInv, NEW r \in Requests, NEW sent \in SentIds, EnterEdge(r, sent),
           UNCHANGED metricsEnabled
    PROVE  EdgeInv'
<1> DEFINE id == IF sent = NoId THEN Fresh(r) ELSE sent
           e == [NotStarted EXCEPT !.pc = "app", !.id = id]
<1>1. id \in Id
  BY DEF EnterEdge, Id, Fresh
<1>2. e \in HttpExchange
  BY <1>1, HttpExchangeTyped DEF HttpExchange, EdgePc
<1>3. e.pc = "app" /\ e.id = id /\ e.status = 0 /\ e.logged = {} /\ e.counted = <<>>
  BY DEF NotStarted
<1>4. edge' = [edge EXCEPT ![r] = e] /\ requestId' = [requestId EXCEPT ![r] = id]
  BY DEF EnterEdge, SetRequestId
<1> HIDE DEF id, e
<1>5. QED
  BY <1>1, <1>2, <1>3, <1>4, OneExchange

(* The header did not decode: the request never gets an id.                 *)
LEMMA RejectHeaderKeeps ==
    ASSUME EdgeInv, NEW r \in Requests, edge[r].pc \in {"idle", "closed"},
           RejectHeader(r), UNCHANGED metricsEnabled
    PROVE  EdgeInv'
<1> DEFINE e == CatchAll(NotStarted, requestId[r])
<1>1. NotStarted \in HttpExchange /\ requestId[r] \in Id /\ NotStarted.id = NoId
  BY HttpExchangeTyped DEF NotStarted
<1>2. e \in HttpExchange /\ e.pc = "failing" /\ e.id = NoId
  BY <1>1, CatchAllTyped
<1>3. /\ edge' = [edge EXCEPT ![r] = e]
      /\ requestId' = [requestId EXCEPT ![r] = requestId[r]]
  BY DEF RejectHeader, EdgeInv, EdgeTypeOK
<1>4. requestId[r] = NoId /\ requestId[r] \in Id
  BY HttpExchangeTyped DEF EdgeInv, ExchangeInv
<1> HIDE DEF e
<1>5. QED
  BY <1>2, <1>3, <1>4, OneExchange

(* A response from inside the middlewares.                                  *)
LEMMA RespondKeeps ==
    ASSUME EdgeInv, NEW r \in Requests, NEW status \in Nat, NEW lines \in BOOLEAN,
           Respond(r, status, lines), UNCHANGED metricsEnabled
    PROVE  EdgeInv'
<1> DEFINE more == IF lines THEN {requestId[r]} ELSE {}
           e == [edge[r] EXCEPT !.pc = "sending", !.status = status,
                                !.header = edge[r].id, !.logged = @ \cup more]
<1>1. /\ edge[r] \in HttpExchange /\ more \subseteq {edge[r].id}
      /\ edge[r].logged \subseteq {edge[r].id} /\ edge[r].counted = <<>>
      /\ requestId[r] = edge[r].id /\ edge[r].id \in Id
  BY HttpExchangeTyped DEF Respond, EdgeInv, ExchangeInv
<1> HIDE DEF more
<1>2. e \in HttpExchange
  BY <1>1 DEF HttpExchange, EdgePc
<1>3. /\ e.pc = "sending" /\ e.header = e.id /\ e.id = edge[r].id
      /\ e.logged \subseteq {e.id} /\ e.counted = <<>>
  BY <1>1 DEF HttpExchange
<1>4. edge' = [edge EXCEPT ![r] = e]
  BY DEF Respond, EdgeInv, EdgeTypeOK, more
<1>5. requestId' = [requestId EXCEPT ![r] = requestId[r]]
  BY DEF Respond, EdgeInv, EdgeTypeOK
<1> HIDE DEF e
<1>6. QED
  BY <1>1, <1>2, <1>3, <1>4, <1>5, OneExchange

(* An exception that no handler inside takes.                               *)
LEMMA FailKeeps ==
    ASSUME EdgeInv, NEW r \in Requests, Fail(r), UNCHANGED metricsEnabled
    PROVE  EdgeInv'
<1> DEFINE caught == CatchAll(edge[r], NoId)
           e == [caught EXCEPT !.counted = Counted(500)]
<1>1. /\ edge[r] \in HttpExchange /\ edge[r].counted = <<>>
      /\ requestId' = [requestId EXCEPT ![r] = NoId]
      /\ requestId'[r] = NoId /\ NoId \in Id
  BY HttpExchangeTyped DEF Fail, SetRequestId, EdgeInv, EdgeTypeOK, ExchangeInv
<1>2. <<>> \o Counted(500) = Counted(500) /\ Counted(500) \in Seq(Nat)
  BY CountedOnce
<1>3. /\ caught \in HttpExchange /\ caught.pc = "failing" /\ caught.status = 500
      /\ caught.counted = <<>>
  BY <1>1, CatchAllTyped
<1>4. edge' = [edge EXCEPT ![r] = [caught EXCEPT !.counted = @ \o Counted(500)]]
  BY <1>1 DEF Fail
<1> HIDE DEF caught
<1>5. edge' = [edge EXCEPT ![r] = e]
  BY <1>2, <1>3, <1>4
<1>6. e \in HttpExchange /\ e.pc = "failing" /\ e.counted = Counted(e.status)
  BY SMTT(30), <1>2, <1>3 DEF HttpExchange
<1> HIDE DEF e
<1>7. QED
  BY <1>1, <1>5, <1>6, OneExchange

(* The body is out.                                                         *)
LEMMA FinishKeeps ==
    ASSUME EdgeInv, NEW r \in Requests, Finish(r), UNCHANGED metricsEnabled
    PROVE  EdgeInv'
<1>1. edge[r] \in HttpExchange /\ requestId[r] \in Id /\ NoId \in Id
  BY HttpExchangeTyped
<1>2. CASE edge[r].pc = "sending"
  <2> DEFINE e == [edge[r] EXCEPT !.pc = "closed", !.counted = Counted(edge[r].status)]
  <2>1. /\ edge[r].counted = <<>> /\ edge[r].status \in Nat
        /\ <<>> \o Counted(edge[r].status) = Counted(edge[r].status)
        /\ Counted(edge[r].status) \in Seq(Nat)
    BY <1>2, CountedOnce, HttpExchangeTyped DEF EdgeInv, ExchangeInv
  <2>2. edge' = [edge EXCEPT ![r] = e] /\ requestId' = [requestId EXCEPT ![r] = NoId]
    BY <1>2, <2>1 DEF Finish, SetRequestId, EdgeInv, EdgeTypeOK
  <2>3. e \in HttpExchange /\ e.pc = "closed" /\ e.counted = Counted(e.status)
    BY <1>1, <2>1 DEF HttpExchange, EdgePc
  <2> HIDE DEF e
  <2>4. QED
    BY <1>1, <2>2, <2>3, OneExchange
<1>3. CASE edge[r].pc = "failing"
  <2> DEFINE e == [edge[r] EXCEPT !.pc = "closed"]
  <2>1. /\ edge' = [edge EXCEPT ![r] = e]
        /\ requestId' = [requestId EXCEPT ![r] = requestId[r]]
    BY <1>3 DEF Finish, EdgeInv, EdgeTypeOK
  <2>2. /\ requestId[r] = NoId
        /\ edge[r].id # NoId => edge[r].counted = Counted(edge[r].status)
    BY <1>3 DEF EdgeInv, ExchangeInv
  <2>3. /\ e \in HttpExchange /\ e.pc = "closed" /\ e.id = edge[r].id
        /\ e.counted = edge[r].counted /\ e.status = edge[r].status
    BY <1>1 DEF HttpExchange, EdgePc
  <2> HIDE DEF e
  <2>4. QED
    BY <1>1, <2>1, <2>2, <2>3, OneExchange
<1>4. QED
  BY <1>2, <1>3 DEF Finish
-----------------------------------------------------------------------------
(* The middlewares inside the process *)

LEMMA EdgeStays ==
    ASSUME EdgeInv, UNCHANGED <<edgeVars, metricsEnabled>>
    PROVE  EdgeInv'
  BY DEF edgeVars, EdgeInv, EdgeTypeOK, ExchangeInv, Counted

LEMMA StatusesTyped ==
    ASSUME NEW s
    PROVE  Call!Statuses(s) \subseteq Nat
  BY DEF Call!Statuses

LEMMA ArrivesKeeps ==
    ASSUME EdgeInv, NEW r \in Requests, NEW sent \in SentIds,
           edge[r].pc \in {"idle", "closed"}, Arrives(r, sent), UNCHANGED metricsEnabled
    PROVE  EdgeInv'
<1>1. CASE sent = NotUtf8
  BY <1>1, RejectHeaderKeeps DEF Arrives
<1>2. CASE sent # NotUtf8
  BY <1>2, EnterEdgeKeeps DEF Arrives
<1>3. QED
  BY <1>1, <1>2

LEMMA ProbeStepEdge ==
    ASSUME EdgeInv, NEW p \in Probes, ProbeStep(p), UNCHANGED metricsEnabled
    PROVE  EdgeInv'
<1>1. p \in Requests /\ 200 \in Nat /\ 503 \in Nat /\ FALSE \in BOOLEAN
  BY ServiceAssumption
<1>2. CASE ProbeRefused(p)
  <2>1. Respond(p, 503, FALSE)
    BY <1>2, Zenon DEF ProbeRefused
  <2>2. QED
    BY <1>1, <2>1, RespondKeeps, Zenon
<1>3. ASSUME NEW c \in Conns, ProbeGranted(p, c)
      PROVE  EdgeInv'
  BY <1>3, EdgeStays DEF ProbeGranted
<1>4. ASSUME NEW c \in Conns, ProbeReady(p, c) \/ ProbeFails(p, c)
      PROVE  EdgeInv'
  <2>1. Respond(p, 200, FALSE) \/ Respond(p, 503, FALSE)
    BY <1>4, Zenon DEF ProbeReady, ProbeFails
  <2>2. QED
    BY <1>1, <2>1, RespondKeeps, Zenon
<1>5. QED
  BY <1>2, <1>3, <1>4 DEF ProbeStep

LEMMA AskStepEdge ==
    ASSUME EdgeInv, NEW r \in Requests, AskStep(r), UNCHANGED metricsEnabled
    PROVE  EdgeInv'
<1>1. CASE AskCalls(r) \/ AskGenerates(r) \/ AskRefused(r) \/ \E c \in Conns : AskServed(r, c)
  BY <1>1, EdgeStays DEF AskCalls, AskGenerates, AskRefused, AskServed
<1>2. CASE AskAnswered(r)
  <2>1. PICK status \in Call!Statuses(stage[r]) :
            /\ Call!Answer(r, status)
            /\ IF status = 500 THEN Fail(r) ELSE Respond(r, status, status # 200)
    BY <1>2, Zenon DEF AskAnswered
  <2>2. status \in Nat /\ (status # 200) \in BOOLEAN
    BY StatusesTyped
  <2>3. Fail(r) \/ Respond(r, status, status # 200)
    BY <2>1, Zenon
  <2>4. QED
    BY <2>2, <2>3, FailKeeps, RespondKeeps, Zenon
<1>3. CASE AnsweredAtOnce(r)
  <2>1. PICK status \in {200, 404, 422} : Respond(r, status, FALSE)
    BY <1>3, Zenon DEF AnsweredAtOnce
  <2>2. status \in Nat /\ FALSE \in BOOLEAN
    BY <2>1
  <2>3. QED
    BY <2>1, <2>2, RespondKeeps, Zenon
<1>4. QED
  BY <1>1, <1>2, <1>3 DEF AskStep

LEMMA EdgeStep ==
    ASSUME EdgeInv, ServiceNext
    PROVE  EdgeInv'
<1>1. UNCHANGED metricsEnabled
  BY DEF ServiceNext
<1>2. CASE StartUp \/ Terminate \/ CloseHttpClient \/ ClosePool \/ PoolEnvironment
  BY <1>1, <1>2, EdgeStays
     DEF StartUp, Terminate, CloseHttpClient, ClosePool, PoolEnvironment, taskVars
<1>3. ASSUME NEW p \in Probes, ProbeArrives(p)
      PROVE  EdgeInv'
  BY <1>1, <1>3, ArrivesKeeps, ServiceAssumption DEF ProbeArrives
<1>4. ASSUME NEW r \in Asks, NEW sent \in SentIds, AskArrives(r, sent)
      PROVE  EdgeInv'
  BY <1>1, <1>4, ArrivesKeeps DEF AskArrives, Asks
<1>5. ASSUME NEW r \in Requests, TaskStep(r)
      PROVE  EdgeInv'
  BY <1>1, <1>5, FinishKeeps, AskStepEdge, ProbeStepEdge DEF TaskStep, Done
<1>6. QED
  BY <1>2, <1>3, <1>4, <1>5 DEF ServiceNext

LEMMA EdgeAtFirst == ServiceInit => EdgeInv
<1> SUFFICES ASSUME ServiceInit PROVE EdgeInv
  OBVIOUS
<1>1. <<>> \in Seq(Nat) /\ NoId \in Id
  BY DEF Id
<1>2. EdgeTypeOK
  BY <1>1 DEF ServiceInit, EdgeInit, EdgeTypeOK, NotStarted, HttpExchange, EdgePc
<1>3. \A r \in Requests : ExchangeInv(r)
  BY DEF ServiceInit, EdgeInit, ExchangeInv, NotStarted
<1>4. QED
  BY <1>2, <1>3 DEF EdgeInv

LEMMA EdgeInvariant == ServiceSpec => []EdgeInv
<1>1. EdgeInv /\ [ServiceNext]_serviceVars => EdgeInv'
  <2> SUFFICES ASSUME EdgeInv, [ServiceNext]_serviceVars PROVE EdgeInv'
    OBVIOUS
  <2>1. CASE UNCHANGED serviceVars
    BY <2>1, EdgeStays DEF serviceVars, taskVars
  <2>2. CASE ServiceNext
    BY <2>2, EdgeStep
  <2>3. QED
    BY <2>1, <2>2
<1>2. QED
  BY <1>1, EdgeAtFirst, PTL DEF ServiceSpec
-----------------------------------------------------------------------------
(* However requests overlap, log lines and response headers carry the id of *)
(* their own request: the ContextVar of each task is set and reset in pairs.*)
THEOREM OwnIds == ServiceSpec => []OwnRequestId
<1>1. EdgeInv => OwnRequestId
  BY DEF EdgeInv, ExchangeInv, OwnRequestId
<1>2. QED
  BY <1>1, EdgeInvariant, PTL

(* Every request with an id is counted once, under the status it was told.  *)
THEOREM CountedOnceAsAnswered == ServiceSpec => []CountedAsAnswered
<1>1. EdgeInv => CountedAsAnswered
  BY DEF EdgeInv, ExchangeInv, CountedAsAnswered, Counted
<1>2. QED
  BY <1>1, EdgeInvariant, PTL
-----------------------------------------------------------------------------
(* The invariant: a call under way is inside its handler, which has what it *)
(* claims of the pool, and nothing but a handler claims anything.           *)
TaskInv(r) ==
    /\ stage[r] \in {"schema", "generating", "query"} => InApp(r)
    /\ claim[r] # "none" =>
           InApp(r) /\ poolOpen /\ (r \in Probes \/ stage[r] \in {"schema", "query"})
    /\ r \in Probes => stage[r] = "new"
    /\ OwnsAs(r, claim[r])

LifeInv ==
    /\ phase \in {"serving", "draining"} => httpOpen
    /\ phase \notin {"serving", "draining"} => Drained

ProcessInv ==
    /\ EdgeInv /\ ServiceTypeOK /\ LinksServed /\ LifeInv
    /\ \A r \in Requests : TaskInv(r)

(* A step of the task of r: what holds of its own variables is enough.      *)
LEMMA OneTask ==
    ASSUME ProcessInv, NEW r \in Requests, EdgeInv', PoolTypeOK', LinksServed',
           UNCHANGED lifeVars, phase \in {"serving", "draining"},
           NEW s \in Call!Stages, stage' = [stage EXCEPT ![r] = s],
           NEW c \in {"none", "queued", "holding"}, claim' = [claim EXCEPT ![r] = c],
           \A q \in Requests : q # r => Untouched(q) /\ edge'[q] = edge[q],
           OwnsAs(r, c)',
           s \in {"schema", "generating", "query"} => InApp(r)',
           c # "none" => InApp(r)' /\ poolOpen /\ (r \in Probes \/ s \in {"schema", "query"}),
           r \in Probes => s = "new"
    PROVE  ProcessInv'
<1>1. stage'[r] = s /\ claim'[r] = c
  BY DEF ProcessInv, ServiceTypeOK
<1>2. \A q \in Requests : q # r => stage'[q] = stage[q] /\ claim'[q] = claim[q]
  BY DEF ProcessInv, ServiceTypeOK
<1>3. ServiceTypeOK'
  BY DEF ProcessInv, ServiceTypeOK, EdgeInv, lifeVars
<1>4. LifeInv'
  BY DEF ProcessInv, LifeInv, lifeVars
<1>5. TaskInv(r)'
  BY <1>1 DEF TaskInv, lifeVars
<1>6. ASSUME NEW q \in Requests, q # r
      PROVE  TaskInv(q)'
  <2>1. stage'[q] = stage[q] /\ claim'[q] = claim[q] /\ edge'[q] = edge[q]
    BY <1>2, <1>6
  <2>2. TaskInv(q) /\ Untouched(q)
    BY <1>6 DEF ProcessInv
  <2>3. QED
    BY <2>1, <2>2 DEF TaskInv, Untouched, OwnsAs, InApp, lifeVars
<1>7. QED
  BY <1>3, <1>4, <1>5, <1>6 DEF ProcessInv
-----------------------------------------------------------------------------
(* The steps of a task *)

(* What the pool does meanwhile.                                            *)
PoolStill(r) ==
    /\ PoolTypeOK' /\ LinksServed'
    /\ \A q \in Requests : q # r => Untouched(q)

LEMMA UnchangedPool ==
    ASSUME ProcessInv, UNCHANGED poolVars, NEW r \in Requests
    PROVE  PoolStill(r) /\ Untouched(r)
<1>1. PoolTypeOK' /\ LinksServed'
  BY DEF poolVars, ProcessInv, ServiceTypeOK, PoolTypeOK, LinksServed, Live
<1>2. \A q \in Requests : Untouched(q)
  BY DEF poolVars, Untouched, Holds
<1>3. QED
  BY <1>1, <1>2 DEF PoolStill

LEMMA EnqueuePool ==
    ASSUME ProcessInv, NEW r \in Requests, Enqueue(r), claim[r] = "none"
    PROVE  PoolStill(r) /\ OwnsAs(r, "queued")'
<1>1. PoolTypeOK /\ OwnsAs(r, "none")
  BY DEF ProcessInv, ServiceTypeOK, TaskInv
<1>2. LinksServed'
  BY <1>1, LinksServedKept DEF ProcessInv
<1>3. QED
  BY <1>1, <1>2, EnqueueMoves DEF PoolStill

LEMMA GrantPool ==
    ASSUME ProcessInv, NEW r \in Requests, NEW c \in Conns, Grant(r, c)
    PROVE  claim[r] = "queued" /\ PoolStill(r) /\ OwnsAs(r, "holding")'
<1>1. PoolTypeOK /\ claim[r] = "queued" /\ OwnsAs(r, "queued")
  BY DEF ProcessInv, ServiceTypeOK, TaskInv, Grant, OwnsAs
<1>2. LinksServed'
  BY <1>1, LinksServedKept DEF ProcessInv
<1>3. QED
  BY <1>1, <1>2, GrantMoves DEF PoolStill

LEMMA GiveUpPool ==
    ASSUME ProcessInv, NEW r \in Requests, GiveUp(r)
    PROVE  claim[r] = "queued" /\ PoolStill(r) /\ OwnsAs(r, "none")'
<1>1. PoolTypeOK /\ claim[r] = "queued" /\ OwnsAs(r, "queued")
  BY DEF ProcessInv, ServiceTypeOK, TaskInv, GiveUp, OwnsAs
<1>2. LinksServed'
  BY <1>1, LinksServedKept DEF ProcessInv
<1>3. QED
  BY <1>1, <1>2, GiveUpMoves DEF PoolStill

LEMMA ReleasePool ==
    ASSUME ProcessInv, NEW r \in Requests, NEW c \in Conns, Holds(r, c), Release(c),
           UNCHANGED committedWrite
    PROVE  claim[r] = "holding" /\ PoolStill(r) /\ OwnsAs(r, "none")'
<1>1. PoolTypeOK /\ claim[r] = "holding" /\ OwnsAs(r, "holding")
  BY DEF ProcessInv, ServiceTypeOK, TaskInv, OwnsAs
<1>2. LinksServed'
  BY <1>1, LinksServedKept DEF ProcessInv
<1>3. committedWrite' \in BOOLEAN
  BY <1>1 DEF PoolTypeOK
<1>4. QED
  BY <1>1, <1>2, <1>3, ReleaseMoves DEF PoolStill

(* What the exchange does: an answer starts, or nothing.                    *)
Answering(r) ==
    /\ InApp(r) /\ edge'[r].pc \in {"sending", "failing"}
    /\ \A q \in Requests : q # r => edge'[q] = edge[q]

LEMMA RespondMoves ==
    ASSUME EdgeTypeOK, NEW r \in Requests, NEW status, NEW lines, Respond(r, status, lines)
    PROVE  Answering(r)
  BY DEF EdgeTypeOK, HttpExchange, Respond, Answering, InApp

LEMMA FailMoves ==
    ASSUME EdgeInv, NEW r \in Requests, Fail(r)
    PROVE  Answering(r)
<1>1. /\ edge[r] \in HttpExchange /\ NoId \in Id /\ edge[r].pc = "app"
      /\ requestId'[r] = NoId
  BY HttpExchangeTyped DEF Fail, SetRequestId, EdgeInv, EdgeTypeOK
<1>2. CatchAll(edge[r], NoId) \in HttpExchange /\ CatchAll(edge[r], NoId).pc = "failing"
  BY <1>1, CatchAllTyped
<1>3. QED
  BY <1>1, <1>2 DEF Fail, Answering, InApp, EdgeInv, EdgeTypeOK, HttpExchange

(* While a task has something to do, the process serves or drains.          *)
LEMMA BusyServes ==
    ASSUME ProcessInv, NEW r \in Requests, edge[r].pc \notin {"idle", "closed"}
    PROVE  phase \in {"serving", "draining"} /\ httpOpen
  BY DEF ProcessInv, LifeInv, Drained

(* The variables of a task, when a step leaves them alone.                  *)
LEMMA SameTask ==
    ASSUME ProcessInv, NEW r \in Requests
    PROVE  /\ stage[r] \in Call!Stages /\ claim[r] \in {"none", "queued", "holding"}
           /\ UNCHANGED stage => stage' = [stage EXCEPT ![r] = stage[r]]
           /\ UNCHANGED claim => claim' = [claim EXCEPT ![r] = claim[r]]
  BY DEF ProcessInv, ServiceTypeOK

LEMMA ArrivesMoves ==
    ASSUME ProcessInv, NEW r \in Requests, NEW sent \in SentIds, Arrives(r, sent)
    PROVE  /\ phase = "serving"
           /\ sent # NotUtf8 => InApp(r)'
           /\ \A q \in Requests : q # r => edge'[q] = edge[q]
<1>1. phase = "serving" /\ (sent # NotUtf8 => EnterEdge(r, sent))
      /\ (sent = NotUtf8 => RejectHeader(r))
  BY DEF Arrives
<1>2. EdgeTypeOK /\ NotStarted.pc = "idle"
  BY DEF ProcessInv, EdgeInv, NotStarted
<1>3. [NotStarted EXCEPT !.pc = "app"].pc = "app"
  BY DEF NotStarted
<1>4. CASE sent # NotUtf8
  BY <1>1, <1>2, <1>4 DEF EnterEdge, EdgeTypeOK, InApp, NotStarted
<1>5. CASE sent = NotUtf8
  BY <1>1, <1>2, <1>5 DEF RejectHeader, EdgeTypeOK
<1>6. QED
  BY <1>1, <1>4, <1>5

(* A request comes in.                                                      *)
LEMMA ProbeArrivesKeeps ==
    ASSUME ProcessInv, EdgeInv', NEW p \in Probes, ProbeArrives(p)
    PROVE  ProcessInv'
<1>1. p \in Requests /\ NoId \in SentIds /\ NoId # NotUtf8
  BY ServiceAssumption
<1>2. /\ claim[p] = "none" /\ stage[p] = "new" /\ OwnsAs(p, "none")
  BY <1>1 DEF ProbeArrives, ProcessInv, TaskInv, InApp
<1>3. /\ InApp(p)' /\ phase = "serving" /\ \A q \in Requests : q # p => edge'[q] = edge[q]
  BY <1>1, ArrivesMoves DEF ProbeArrives
<1>4. stage' = [stage EXCEPT ![p] = "new"] /\ "new" \in Call!Stages /\ UNCHANGED lifeVars
  BY <1>1, <1>2, SameTask DEF ProbeArrives
<1>5. CASE poolOpen
  <2>1. Enqueue(p) /\ claim' = [claim EXCEPT ![p] = "queued"]
    BY <1>5 DEF ProbeArrives, Claims
  <2>2. PoolStill(p) /\ OwnsAs(p, "queued")'
    BY <1>1, <1>2, <2>1, EnqueuePool
  <2>3. QED
    BY <1>1, <1>3, <1>4, <1>5, <2>1, <2>2, OneTask DEF PoolStill
<1>6. CASE ~poolOpen
  <2>1. UNCHANGED poolVars /\ claim' = [claim EXCEPT ![p] = "none"]
    BY <1>1, <1>2, <1>6, SameTask DEF ProbeArrives
  <2>2. PoolStill(p) /\ OwnsAs(p, "none")'
    BY <1>1, <1>2, <2>1, UnchangedPool, UntouchedOwns
  <2>3. QED
    BY <1>1, <1>3, <1>4, <2>1, <2>2, OneTask DEF PoolStill
<1>7. QED
  BY <1>5, <1>6

LEMMA AskArrivesKeeps ==
    ASSUME ProcessInv, EdgeInv', NEW r \in Asks, NEW sent \in SentIds, AskArrives(r, sent)
    PROVE  ProcessInv'
<1>1. r \in Requests
  BY DEF Asks
<1>2. /\ claim[r] = "none" /\ stage[r] \notin {"schema", "generating", "query"}
      /\ OwnsAs(r, "none")
  BY <1>1 DEF AskArrives, ProcessInv, TaskInv, InApp
<1>3. phase = "serving" /\ \A q \in Requests : q # r => edge'[q] = edge[q]
  BY <1>1, ArrivesMoves DEF AskArrives
<1>4. /\ stage[r] \in Call!Stages /\ stage' = [stage EXCEPT ![r] = stage[r]]
      /\ claim' = [claim EXCEPT ![r] = "none"] /\ UNCHANGED <<poolVars, lifeVars>>
  BY <1>1, <1>2, SameTask DEF AskArrives
<1>5. PoolStill(r) /\ OwnsAs(r, "none")'
  BY <1>1, <1>2, <1>4, UnchangedPool, UntouchedOwns
<1>6. r \notin Probes
  BY DEF Asks
<1>7. QED
  BY <1>1, <1>2, <1>3, <1>4, <1>5, <1>6, OneTask DEF PoolStill

(* The handler is through: it claims nothing when its answer starts.        *)
LEMMA AnsweringKeeps ==
    ASSUME ProcessInv, EdgeInv', NEW r \in Requests, Answering(r), UNCHANGED lifeVars,
           NEW s \in Call!Stages, s \notin {"schema", "generating", "query"},
           stage' = [stage EXCEPT ![r] = s], r \in Probes => s = "new",
           claim' = [claim EXCEPT ![r] = "none"], PoolStill(r), OwnsAs(r, "none")'
    PROVE  ProcessInv'
<1>1. phase \in {"serving", "draining"}
  BY BusyServes DEF Answering, InApp
<1>2. QED
  BY <1>1, OneTask DEF Answering, PoolStill

LEMMA DoneKeeps ==
    ASSUME ProcessInv, EdgeInv', NEW r \in Requests, Done(r)
    PROVE  ProcessInv'
<1>1. /\ edge[r].pc \in {"sending", "failing"}
      /\ \A q \in Requests : q # r => edge'[q] = edge[q]
  BY DEF Done, Finish, ProcessInv, EdgeInv, EdgeTypeOK
<1>2. /\ claim[r] = "none" /\ stage[r] \notin {"schema", "generating", "query"}
      /\ OwnsAs(r, "none") /\ (r \in Probes => stage[r] = "new")
  BY <1>1 DEF ProcessInv, TaskInv, InApp
<1>3. phase \in {"serving", "draining"}
  BY <1>1, BusyServes
<1>4. /\ stage[r] \in Call!Stages /\ stage' = [stage EXCEPT ![r] = stage[r]]
      /\ claim' = [claim EXCEPT ![r] = "none"] /\ UNCHANGED <<poolVars, lifeVars>>
  BY <1>2, SameTask DEF Done
<1>5. PoolStill(r) /\ OwnsAs(r, "none")'
  BY <1>2, <1>4, UnchangedPool, UntouchedOwns
<1>6. QED
  BY <1>1, <1>2, <1>3, <1>4, <1>5, OneTask DEF PoolStill

LEMMA ProbeStepKeeps ==
    ASSUME ProcessInv, EdgeInv', NEW p \in Probes, ProbeStep(p)
    PROVE  ProcessInv'
<1>1. /\ p \in Requests /\ stage[p] = "new" /\ "new" \in Call!Stages
      /\ EdgeTypeOK /\ TaskInv(p)
  BY ServiceAssumption DEF ProcessInv, EdgeInv, TaskInv, Call!Stages
<1>2. UNCHANGED <<stage, lifeVars>> /\ stage' = [stage EXCEPT ![p] = "new"]
  BY <1>1, SameTask DEF ProbeStep, ProbeRefused, ProbeGranted, ProbeReady, ProbeFails
<1>3. ASSUME NEW c \in Conns, ProbeGranted(p, c)
      PROVE  ProcessInv'
  <2>1. Grant(p, c) /\ claim' = [claim EXCEPT ![p] = "holding"] /\ UNCHANGED edge
    BY <1>3 DEF ProbeGranted, Claims, edgeVars
  <2>2. claim[p] = "queued" /\ PoolStill(p) /\ OwnsAs(p, "holding")'
    BY <1>1, <2>1, GrantPool
  <2>3. InApp(p) /\ InApp(p)' /\ poolOpen
    BY <1>1, <2>1, <2>2 DEF TaskInv, InApp
  <2>4. phase \in {"serving", "draining"}
    BY <1>1, <2>3, BusyServes DEF InApp
  <2>5. QED
    BY <1>1, <1>2, <2>1, <2>2, <2>3, <2>4, OneTask DEF PoolStill
<1>4. ASSUME NEW c \in Conns, ProbeReady(p, c) \/ ProbeFails(p, c)
      PROVE  ProcessInv'
  <2>1. Respond(p, 200, FALSE) \/ Respond(p, 503, FALSE)
    BY <1>4, Zenon DEF ProbeReady, ProbeFails
  <2>2. Answering(p)
    BY <1>1, <2>1, RespondMoves, ZenonT(40)
  <2>3. /\ Holds(p, c) /\ Release(c) /\ UNCHANGED committedWrite
        /\ claim' = [claim EXCEPT ![p] = "none"]
    BY <1>4 DEF ProbeReady, ProbeFails, Claims
  <2>4. PoolStill(p) /\ OwnsAs(p, "none")'
    BY <1>1, <2>3, ReleasePool
  <2>5. QED
    BY <1>1, <1>2, <2>2, <2>3, <2>4, AnsweringKeeps
<1>5. CASE ProbeRefused(p)
  <2>1. Respond(p, 503, FALSE)
    BY <1>5, Zenon DEF ProbeRefused
  <2>2. Answering(p)
    BY <1>1, <2>1, RespondMoves, Zenon
  <2>3. CASE GiveUp(p) /\ Claims(p, "none")
    <3>1. PoolStill(p) /\ OwnsAs(p, "none")'
      BY <1>1, <2>3, GiveUpPool
    <3>2. QED
      BY <1>1, <1>2, <2>2, <2>3, <3>1, AnsweringKeeps DEF Claims
  <2>4. CASE ~poolOpen /\ UNCHANGED <<poolVars, claim>>
    <3>1. claim[p] = "none" /\ OwnsAs(p, "none")
      BY <1>1, <2>4 DEF TaskInv
    <3>2. PoolStill(p) /\ OwnsAs(p, "none")'
      BY <1>1, <2>4, <3>1, UnchangedPool, UntouchedOwns
    <3>3. claim' = [claim EXCEPT ![p] = "none"]
      BY <1>1, <2>4, <3>1, SameTask
    <3>4. QED
      BY <1>1, <1>2, <2>2, <3>2, <3>3, AnsweringKeeps
  <2>5. QED
    BY <1>5, <2>3, <2>4, Zenon DEF ProbeRefused
<1>6. QED
  BY <1>3, <1>4, <1>5 DEF ProbeStep
-----------------------------------------------------------------------------
(* The steps of POST /ask *)

(* A call begins, and queues unless the schema is in memory.                *)
LEMMA AskCallsKeeps ==
    ASSUME ProcessInv, EdgeInv', NEW r \in Asks, AskCalls(r)
    PROVE  ProcessInv'
<1>1. r \in Requests /\ r \notin Probes
  BY DEF Asks
<1>2. PICK s \in {"schema", "query"}, c \in {"queued", "none"} :
          /\ claim[r] = "none"
          /\ stage' = [stage EXCEPT ![r] = s] /\ claim' = [claim EXCEPT ![r] = c]
  BY DEF AskCalls, Call!LoadSchema, Call!RunQuery, Call!Enter
<1>3. InApp(r) /\ InApp(r)' /\ UNCHANGED <<edge, lifeVars>>
  BY DEF AskCalls, InApp, edgeVars
<1>4. phase \in {"serving", "draining"} /\ s \in Call!Stages /\ OwnsAs(r, "none")
  BY <1>1, <1>2, <1>3, BusyServes DEF InApp, Call!Stages, ProcessInv, TaskInv
<1>5. claim'[r] = c
  BY <1>1, <1>2 DEF ProcessInv, ServiceTypeOK
<1>6. PoolStill(r) /\ OwnsAs(r, c)' /\ (c # "none" => poolOpen)
  <2>1. CASE c = "queued"
    <3>1. Enqueue(r) /\ poolOpen
      BY <1>5, <2>1 DEF AskCalls
    <3>2. QED
      BY <1>1, <1>2, <2>1, <3>1, EnqueuePool
  <2>2. CASE c = "none"
    <3>1. UNCHANGED poolVars
      BY <1>5, <2>2 DEF AskCalls
    <3>2. QED
      BY <1>1, <1>4, <2>2, <3>1, UnchangedPool, UntouchedOwns
  <2>3. QED
    BY <2>1, <2>2
<1>7. QED
  BY <1>1, <1>2, <1>3, <1>4, <1>6, OneTask DEF PoolStill

(* A call gets its slot, or gives it back.                                  *)
LEMMA AskServedKeeps ==
    ASSUME ProcessInv, EdgeInv', NEW r \in Asks, NEW c \in Conns, AskServed(r, c)
    PROVE  ProcessInv'
<1>1. r \in Requests /\ r \notin Probes /\ TaskInv(r)
  BY DEF Asks, ProcessInv
<1>2. /\ claim[r] \in {"queued", "holding"} /\ stage' = [stage EXCEPT ![r] = stage[r]]
      /\ stage[r] \in Call!Stages /\ UNCHANGED <<edge, lifeVars>>
  BY <1>1, SameTask DEF AskServed, Call!Borrow, Call!GiveBack, Call!Claim, edgeVars
<1>3. InApp(r) /\ InApp(r)' /\ poolOpen /\ stage[r] \in {"schema", "query"}
  BY <1>1, <1>2 DEF TaskInv, InApp
<1>4. phase \in {"serving", "draining"}
  BY <1>1, <1>3, BusyServes DEF InApp
<1>5. CASE Call!Borrow(r, c) /\ Grant(r, c)
  <2>1. claim' = [claim EXCEPT ![r] = "holding"]
    BY <1>5 DEF Call!Borrow, Call!Claim
  <2>2. PoolStill(r) /\ OwnsAs(r, "holding")'
    BY <1>1, <1>5, GrantPool
  <2>3. QED
    BY <1>1, <1>2, <1>3, <1>4, <2>1, <2>2, OneTask DEF PoolStill
<1>6. CASE Call!GiveBack(r, c) /\ Release(c) /\ UNCHANGED committedWrite
  <2>1. claim' = [claim EXCEPT ![r] = "none"] /\ Holds(r, c)
    BY <1>6 DEF Call!GiveBack, Call!Claim, Holds
  <2>2. PoolStill(r) /\ OwnsAs(r, "none")'
    BY <1>1, <1>6, <2>1, ReleasePool
  <2>3. QED
    BY <1>1, <1>2, <1>3, <1>4, <2>1, <2>2, OneTask DEF PoolStill
<1>7. QED
  BY <1>5, <1>6 DEF AskServed

LEMMA AskRefusedKeeps ==
    ASSUME ProcessInv, EdgeInv', NEW r \in Asks, AskRefused(r)
    PROVE  ProcessInv'
<1>1. r \in Requests /\ r \notin Probes /\ TaskInv(r)
  BY DEF Asks, ProcessInv
<1>2. /\ claim[r] = "queued" /\ claim' = [claim EXCEPT ![r] = "none"]
      /\ stage' = [stage EXCEPT ![r] = stage[r]] /\ stage[r] \in Call!Stages
      /\ GiveUp(r) /\ UNCHANGED <<edge, lifeVars>>
  BY <1>1, SameTask DEF AskRefused, Call!Refused, Call!Claim, edgeVars
<1>3. InApp(r) /\ InApp(r)'
  BY <1>1, <1>2 DEF TaskInv, InApp
<1>4. phase \in {"serving", "draining"}
  BY <1>1, <1>3, BusyServes DEF InApp
<1>5. PoolStill(r) /\ OwnsAs(r, "none")'
  BY <1>1, <1>2, GiveUpPool
<1>6. QED
  BY <1>1, <1>2, <1>3, <1>4, <1>5, OneTask DEF PoolStill

LEMMA AskGeneratesKeeps ==
    ASSUME ProcessInv, EdgeInv', NEW r \in Asks, AskGenerates(r)
    PROVE  ProcessInv'
<1>1. r \in Requests /\ r \notin Probes /\ TaskInv(r)
  BY DEF Asks, ProcessInv
<1>2. /\ claim[r] = "none" /\ claim' = [claim EXCEPT ![r] = "none"]
      /\ stage[r] = "schema" /\ stage' = [stage EXCEPT ![r] = "generating"]
      /\ "generating" \in Call!Stages /\ UNCHANGED <<poolVars, edge, lifeVars>>
  BY DEF AskGenerates, Call!Generate, Call!Enter, Call!Stages, edgeVars
<1>3. InApp(r) /\ InApp(r)' /\ OwnsAs(r, "none")
  BY <1>1, <1>2 DEF TaskInv, InApp
<1>4. phase \in {"serving", "draining"}
  BY <1>1, <1>3, BusyServes DEF InApp
<1>5. PoolStill(r) /\ OwnsAs(r, "none")'
  BY <1>1, <1>2, <1>3, UnchangedPool, UntouchedOwns
<1>6. QED
  BY <1>1, <1>2, <1>3, <1>4, <1>5, OneTask DEF PoolStill

(* An answer: by the use case, or at once.                                  *)
LEMMA AskAnswersKeeps ==
    ASSUME ProcessInv, EdgeInv', NEW r \in Asks, AskAnswered(r) \/ AnsweredAtOnce(r)
    PROVE  ProcessInv'
<1>1. r \in Requests /\ r \notin Probes /\ TaskInv(r) /\ EdgeInv /\ EdgeTypeOK
  BY DEF Asks, ProcessInv, EdgeInv
<1>2. CASE AskAnswered(r)
  <2>1. PICK status \in Call!Statuses(stage[r]) :
            /\ Call!Answer(r, status)
            /\ IF status = 500 THEN Fail(r) ELSE Respond(r, status, status # 200)
    BY <1>2, Zenon DEF AskAnswered
  <2>2. Fail(r) \/ Respond(r, status, status # 200)
    BY <2>1, Zenon
  <2>3. Answering(r)
    BY <1>1, <2>2, FailMoves, RespondMoves, Zenon
  <2>4. /\ claim[r] = "none" /\ UNCHANGED claim
        /\ stage' = [stage EXCEPT ![r] = "answered"] /\ "answered" \in Call!Stages
    BY <2>1 DEF Call!Answer, Call!Stages
  <2>5. claim' = [claim EXCEPT ![r] = "none"]
    BY <1>1, <2>4, SameTask
  <2>6. UNCHANGED <<poolVars, lifeVars>> /\ OwnsAs(r, "none")
    BY <1>1, <1>2, <2>4 DEF AskAnswered, TaskInv
  <2>7. PoolStill(r) /\ OwnsAs(r, "none")'
    BY <1>1, <2>6, UnchangedPool, UntouchedOwns
  <2>8. QED
    BY <1>1, <2>3, <2>4, <2>5, <2>6, <2>7, AnsweringKeeps
<1>3. CASE AnsweredAtOnce(r)
  <2>1. PICK status \in {200, 404, 422} : Respond(r, status, FALSE)
    BY <1>3, Zenon DEF AnsweredAtOnce
  <2>2. Answering(r)
    BY <1>1, <2>1, RespondMoves, Zenon
  <2>3. stage[r] = "new" /\ UNCHANGED <<poolVars, stage, claim, lifeVars>>
    BY <1>3 DEF AnsweredAtOnce
  <2>4. claim[r] = "none" /\ OwnsAs(r, "none")
    BY <1>1, <2>3 DEF TaskInv
  <2>5. /\ stage' = [stage EXCEPT ![r] = "new"] /\ claim' = [claim EXCEPT ![r] = "none"]
        /\ "new" \in Call!Stages
    BY <1>1, <2>3, <2>4, SameTask DEF Call!Stages
  <2>6. PoolStill(r) /\ OwnsAs(r, "none")'
    BY <1>1, <2>3, <2>4, UnchangedPool, UntouchedOwns
  <2>7. QED
    BY <1>1, <2>2, <2>3, <2>5, <2>6, AnsweringKeeps
<1>4. QED
  BY <1>2, <1>3
-----------------------------------------------------------------------------
(* The lifespan and the environment *)

(* Nothing is claimed when no handler runs.                                 *)
LEMMA DrainedClaims ==
    ASSUME ProcessInv, Drained, NEW r \in Requests
    PROVE  claim[r] = "none"
  BY DEF ProcessInv, TaskInv, InApp, Drained

LEMMA LifespanKeeps ==
    ASSUME ProcessInv, EdgeInv', StartUp \/ Terminate \/ CloseHttpClient \/ ClosePool
    PROVE  ProcessInv'
<1>1. /\ UNCHANGED <<edge, requestId, stage, claim, holder, waiting, dbUp, committedWrite>>
      /\ phase' \in Phases /\ httpOpen' \in BOOLEAN /\ poolOpen' \in BOOLEAN
  BY DEF ProcessInv, ServiceTypeOK, StartUp, Terminate, CloseHttpClient, ClosePool,
         Enters, Phases, taskVars, edgeVars, poolVars
<1>2. /\ UNCHANGED session \/ session' = [c \in Conns |-> Idle("closed")]
  BY DEF StartUp, Terminate, CloseHttpClient, ClosePool, poolVars
<1>3. PoolTypeOK' /\ LinksServed'
  <2>1. Idle("closed") \in Session /\ Idle("closed").link = "closed"
    BY IdleTyped, IdleFields
  <2>2. QED
    BY <1>1, <1>2, <2>1
       DEF ProcessInv, ServiceTypeOK, PoolTypeOK, LinksServed, Live
<1>4. ServiceTypeOK'
  BY <1>1, <1>3 DEF ProcessInv, ServiceTypeOK, EdgeInv
<1>5. LifeInv'
  BY <1>1 DEF ProcessInv, LifeInv, Drained, StartUp, Terminate, CloseHttpClient, ClosePool,
              Enters
<1>6. UNCHANGED poolOpen \/ Drained
  BY DEF ProcessInv, LifeInv, StartUp, Terminate, CloseHttpClient, ClosePool, Enters
<1>7. ASSUME NEW r \in Requests
      PROVE  TaskInv(r)'
  <2>1. TaskInv(r) /\ (claim[r] # "none" => UNCHANGED poolOpen)
    BY <1>6, DrainedClaims DEF ProcessInv
  <2>2. QED
    BY <1>1, <2>1 DEF TaskInv, InApp, OwnsAs, Holds
<1>8. QED
  BY <1>3, <1>4, <1>5, <1>7 DEF ProcessInv

LEMMA PoolEnvironmentKeeps ==
    ASSUME ProcessInv, EdgeInv', PoolEnvironment
    PROVE  ProcessInv'
<1>1. Environment /\ UNCHANGED <<edge, requestId, stage, claim, phase, httpOpen, poolOpen>>
  BY DEF PoolEnvironment, Environment, taskVars, edgeVars, lifeVars
<1>2. PoolTypeOK' /\ LinksServed' /\ \A q \in Requests : Untouched(q)
  BY <1>1, EnvironmentMoves, LinksServedKept DEF ProcessInv, ServiceTypeOK
<1>3. ServiceTypeOK' /\ LifeInv'
  BY <1>1, <1>2 DEF ProcessInv, ServiceTypeOK, EdgeInv, LifeInv, Drained
<1>4. ASSUME NEW r \in Requests
      PROVE  TaskInv(r)'
  <2>1. TaskInv(r) /\ Untouched(r)
    BY <1>2 DEF ProcessInv
  <2>2. QED
    BY <1>1, <2>1 DEF TaskInv, Untouched, OwnsAs, InApp
<1>5. QED
  BY <1>2, <1>3, <1>4 DEF ProcessInv

LEMMA ProcessAtFirst == ServiceInit => ProcessInv
<1> SUFFICES ASSUME ServiceInit PROVE ProcessInv
  OBVIOUS
<1>1. EdgeInv /\ PoolTypeOK
  BY EdgeAtFirst, PoolInitTyped DEF ServiceInit
<1>2. ServiceTypeOK
  BY <1>1 DEF ServiceInit, ServiceTypeOK, EdgeInv, Call!AskCallInit, Call!Stages, Phases
<1>3. LinksServed
  BY IdleFields DEF ServiceInit, PoolInit, LinksServed, Live
<1>4. Drained
  BY DEF ServiceInit, EdgeInit, Drained, NotStarted
<1>5. LifeInv
  BY <1>4 DEF ServiceInit, LifeInv
<1>6. \A r \in Requests : TaskInv(r)
  BY NobodyOwns DEF ServiceInit, Call!AskCallInit, TaskInv
<1>7. QED
  BY <1>1, <1>2, <1>3, <1>5, <1>6 DEF ProcessInv

LEMMA ProcessStep ==
    ASSUME ProcessInv, [ServiceNext]_serviceVars
    PROVE  ProcessInv'
<1>1. CASE UNCHANGED serviceVars
  <2>1. /\ UNCHANGED <<edge, requestId, metricsEnabled, stage, claim>>
        /\ UNCHANGED <<holder, waiting, session, dbUp, committedWrite>>
        /\ UNCHANGED <<phase, httpOpen, poolOpen>>
    BY <1>1 DEF serviceVars, poolVars, taskVars, edgeVars, lifeVars
  <2>2. EdgeInv'
    BY <2>1, EdgeStays DEF ProcessInv, edgeVars
  <2>3. ServiceTypeOK' /\ LinksServed' /\ LifeInv'
    BY <2>1, <2>2 DEF ProcessInv, ServiceTypeOK, PoolTypeOK, EdgeInv, LinksServed, Live,
                      LifeInv, Drained
  <2>4. \A r \in Requests : TaskInv(r)'
    BY <2>1 DEF ProcessInv, TaskInv, InApp, OwnsAs, Holds
  <2>5. QED
    BY <2>2, <2>3, <2>4 DEF ProcessInv
<1>2. CASE ServiceNext
  <2>1. EdgeInv'
    BY <1>2, EdgeStep DEF ProcessInv
  <2>2. CASE StartUp \/ Terminate \/ CloseHttpClient \/ ClosePool
    BY <2>1, <2>2, LifespanKeeps
  <2>3. CASE PoolEnvironment
    BY <2>1, <2>3, PoolEnvironmentKeeps
  <2>4. CASE \E p \in Probes : ProbeArrives(p)
    BY <2>1, <2>4, ProbeArrivesKeeps
  <2>5. CASE \E r \in Asks, sent \in SentIds : AskArrives(r, sent)
    BY <2>1, <2>5, AskArrivesKeeps
  <2>6. ASSUME NEW r \in Requests, TaskStep(r)
        PROVE  ProcessInv'
    <3>1. CASE Done(r)
      BY <2>1, <3>1, DoneKeeps
    <3>2. CASE r \in Probes /\ ProbeStep(r)
      BY <2>1, <3>2, ProbeStepKeeps
    <3>3. CASE r \in Asks /\ AskStep(r)
      BY <2>1, <3>3, AskCallsKeeps, AskGeneratesKeeps, AskRefusedKeeps, AskAnswersKeeps,
         AskServedKeeps DEF AskStep
    <3>4. QED
      BY <2>6, <3>1, <3>2, <3>3 DEF TaskStep
  <2>7. QED
    BY <1>2, <2>2, <2>3, <2>4, <2>5, <2>6 DEF ServiceNext
<1>3. QED
  BY <1>1, <1>2

LEMMA ProcessInvariant == ServiceSpec => []ProcessInv
<1>1. ProcessInv /\ [ServiceNext]_serviceVars => ProcessInv'
  BY ProcessStep
<1>2. QED
  BY <1>1, ProcessAtFirst, PTL DEF ServiceSpec
-----------------------------------------------------------------------------
(* Probes and asks share the pool without taking each other's slots: each   *)
(* request holds at most one, only in its handler and never during a        *)
(* generation, and what a handler was granted it returns before it answers. *)
THEOREM SlotsOwned == ServiceSpec => []ServiceInv
<1>1. ProcessInv => ServiceInv
  BY DEF ProcessInv, TaskInv, OwnsAs, ServiceInv, SlotsBelongToHandlers
<1>2. QED
  BY <1>1, ProcessInvariant, PTL

(* The lifespan keeps the HTTP client open, and does not close the pool,    *)
(* while any request is not answered.                                       *)
THEOREM ResourcesLast == ServiceSpec => []ResourcesOutliveRequests
<1>1. ProcessInv => ResourcesOutliveRequests
  BY DEF ProcessInv, LifeInv, ResourcesOutliveRequests
<1>2. QED
  BY <1>1, ProcessInvariant, PTL
-----------------------------------------------------------------------------
(* A task changes no exchange but its own.                                  *)
LEMMA OthersExchange ==
    ASSUME ProcessInv, NEW r \in Requests, TaskStep(r), NEW q \in Requests, q # r
    PROVE  edge'[q] = edge[q]
<1>1. EdgeInv /\ EdgeTypeOK
  BY DEF ProcessInv, EdgeInv
<1>2. CASE Done(r)
  BY <1>1, <1>2 DEF Done, Finish, EdgeTypeOK
<1>3. CASE r \in Probes /\ ProbeStep(r)
  <2>1. UNCHANGED edge \/ Respond(r, 200, FALSE) \/ Respond(r, 503, FALSE)
    BY <1>3, Zenon DEF ProbeStep, ProbeGranted, ProbeReady, ProbeFails, ProbeRefused, edgeVars
  <2>2. UNCHANGED edge \/ Answering(r)
    BY <1>1, <2>1, RespondMoves, Zenon
  <2>3. QED
    BY <2>2 DEF Answering
<1>4. CASE r \in Asks /\ AskStep(r)
  <2>1. CASE AskCalls(r) \/ AskGenerates(r) \/ AskRefused(r) \/ \E c \in Conns : AskServed(r, c)
    BY <2>1 DEF AskCalls, AskGenerates, AskRefused, AskServed, edgeVars
  <2>2. CASE AskAnswered(r)
    <3>1. PICK status \in Call!Statuses(stage[r]) :
              /\ Call!Answer(r, status)
              /\ IF status = 500 THEN Fail(r) ELSE Respond(r, status, status # 200)
      BY <2>2, Zenon DEF AskAnswered
    <3>2. Fail(r) \/ Respond(r, status, status # 200)
      BY <3>1, Zenon
    <3>3. Answering(r)
      BY <1>1, <3>2, FailMoves, RespondMoves, Zenon
    <3>4. QED
      BY <3>3 DEF Answering
  <2>3. CASE AnsweredAtOnce(r)
    <3>1. Answering(r)
      BY <1>1, <2>3, RespondMoves, Zenon DEF AnsweredAtOnce
    <3>2. QED
      BY <3>1 DEF Answering
  <2>4. QED
    BY <1>4, <2>1, <2>2, <2>3 DEF AskStep
<1>5. QED
  BY <1>2, <1>3, <1>4 DEF TaskStep

(* When a probe is told "ready", SELECT 1 has just been answered over a link*)
(* that is up, so the server is: an outage leaves no such link in the pool. *)
THEOREM ReadyIsServed == ServiceSpec => ReadyMeansServed
<1>1. ProcessInv /\ [ServiceNext]_serviceVars =>
          [\A p \in Probes : InApp(p) /\ edge'[p].status = 200 => dbUp]_serviceVars
  <2> SUFFICES ASSUME ProcessInv, ServiceNext, NEW p \in Probes, InApp(p), edge'[p].status = 200
               PROVE  dbUp
    OBVIOUS
  <2>1. p \in Requests /\ edge[p].status = 0 /\ edge[p].pc = "app"
    BY ServiceAssumption DEF ProcessInv, EdgeInv, ExchangeInv, InApp
  <2>2. edge'[p] # edge[p]
    BY <2>1
  <2>3. ~(StartUp \/ Terminate \/ CloseHttpClient \/ ClosePool \/ PoolEnvironment)
    BY <2>2 DEF StartUp, Terminate, CloseHttpClient, ClosePool, PoolEnvironment, taskVars, edgeVars
  <2>4. ~\E q \in Probes : ProbeArrives(q)
    <3> SUFFICES ASSUME NEW q \in Probes, ProbeArrives(q) PROVE FALSE
      OBVIOUS
    <3>1. q \in Requests /\ q # p /\ NoId \in SentIds /\ Arrives(q, NoId)
      BY <2>1, ServiceAssumption DEF ProbeArrives
    <3>2. QED
      BY <2>1, <2>2, <3>1, ArrivesMoves
  <2>5. ~\E r \in Asks, sent \in SentIds : AskArrives(r, sent)
    <3> SUFFICES ASSUME NEW r \in Asks, NEW sent \in SentIds, AskArrives(r, sent) PROVE FALSE
      OBVIOUS
    <3>1. r \in Requests /\ r # p /\ Arrives(r, sent)
      BY DEF AskArrives, Asks
    <3>2. QED
      BY <2>1, <2>2, <3>1, ArrivesMoves
  <2>6. TaskStep(p)
    BY <2>1, <2>2, <2>3, <2>4, <2>5, OthersExchange DEF ServiceNext
  <2>7. ProbeStep(p)
    BY <2>1, <2>6 DEF TaskStep, Asks, Done, Finish
  <2>8. ~Respond(p, 503, FALSE)
    BY <2>1 DEF Respond, ProcessInv, EdgeInv, EdgeTypeOK, HttpExchange
  <2>9. PICK c \in Conns : ProbeReady(p, c)
    <3>1. ~ProbeRefused(p) /\ \A c \in Conns : ~ProbeFails(p, c)
      BY <2>8, Zenon DEF ProbeRefused, ProbeFails
    <3>2. \A c \in Conns : ~ProbeGranted(p, c)
      BY <2>2 DEF ProbeGranted, edgeVars
    <3>3. QED
      BY <2>7, <3>1, <3>2 DEF ProbeStep
  <2>10. QED
    BY <2>9 DEF ProbeReady, Usable, ProcessInv, LinksServed
<1>2. QED
  BY <1>1, ProcessInvariant, PTL DEF ServiceSpec, ReadyMeansServed
=============================================================================
