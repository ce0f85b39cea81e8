------------------------------- MODULE Service ------------------------------
(***************************************************************************)
(* The process as a whole: its lifespan (main.py), the probes              *)
(* (api/routers/health.py) and POST /ask below the middlewares, all of them*)
(* over one pool and one HTTP client.  An ask is what AskCall says of it.  *)
(* X_Y marked "slip" is X with a mistake the properties must notice.       *)
(***************************************************************************)
EXTENDS ConnectionPool, Sequences

CONSTANTS
    Probes,           \* the requests that are readiness probes, sent for ever
    SentIds, NoId, NotUtf8

ASSUME ServiceAssumption ==
    /\ Probes \subseteq Requests
    /\ NoId \in SentIds /\ NoId # NotUtf8 /\ {NoId, NotUtf8} \cap Requests = {}

VARIABLES
    edge, requestId, metricsEnabled,   \* of HttpEdge
    stage, claim,                      \* of AskCall; claim also for probes
    phase,            \* starting, serving, draining, closing, stopped
    httpOpen,         \* http_client is open
    poolOpen          \* db_pool is open: its workers run, getconn works

INSTANCE HttpEdge
Call == INSTANCE AskCall WITH Callers <- Requests, Slots <- Conns

lifeVars == <<phase, httpOpen, poolOpen>>
edgeVars == <<edge, requestId>>
taskVars == <<edgeVars, stage, claim>>
serviceVars == <<poolVars, taskVars, lifeVars, metricsEnabled>>

Asks == Requests \ Probes
Phases == {"starting", "serving", "draining", "closing", "stopped"}
-----------------------------------------------------------------------------
(* lifespan *)

ServiceInit ==
    /\ PoolInit
    /\ EdgeInit
    /\ Call!AskCallInit
    /\ phase = "starting"
    /\ httpOpen = FALSE
    /\ poolOpen = FALSE

Enters(from, to) == phase = from /\ phase' = to

(* open does not wait for connections, and if it fails that is a warning only.*)
StartUp_WaitsForDb ==                                      \* slip: open(wait=True)
    /\ Enters("starting", "serving")
    /\ dbUp
    /\ httpOpen' = TRUE
    /\ poolOpen' = TRUE
    /\ UNCHANGED <<poolVars, taskVars>>
StartUp ==
    /\ Enters("starting", "serving")
    /\ httpOpen' = TRUE
    /\ poolOpen' \in BOOLEAN
    /\ UNCHANGED <<poolVars, taskVars>>

(* uvicorn stops accepting, and sends lifespan.shutdown after the last answer.*)
Terminate ==
    /\ Enters("serving", "draining")
    /\ UNCHANGED <<poolVars, taskVars, httpOpen, poolOpen>>

Drained == \A r \in Requests : edge[r].pc \in {"idle", "closed"}

CloseHttpClient_AtSignal ==                                \* slip: not in lifespan
    /\ Enters("draining", "closing")
    /\ httpOpen' = FALSE
    /\ UNCHANGED <<poolVars, taskVars, poolOpen>>
CloseHttpClient ==
    /\ Drained
    /\ Enters("draining", "closing")
    /\ httpOpen' = FALSE
    /\ UNCHANGED <<poolVars, taskVars, poolOpen>>

ClosePool_Forgotten ==                                     \* slip: no db_pool.close()
    /\ Enters("closing", "stopped")
    /\ UNCHANGED <<poolVars, taskVars, httpOpen, poolOpen>>
ClosePool ==
    /\ Enters("closing", "stopped")
    /\ poolOpen' = FALSE
    /\ session' = [c \in Conns |-> Idle("closed")]
    /\ UNCHANGED <<holder, waiting, dbUp, committedWrite, taskVars, httpOpen>>

PoolEnvironment ==
    /\ ServerStops \/ ServerStarts \/ \E c \in Conns : poolOpen /\ Connect(c)
    /\ UNCHANGED <<taskVars, lifeVars>>
-----------------------------------------------------------------------------
(* What each request begins with. *)
Arrives(r, sent) ==
    /\ phase = "serving"
    /\ IF sent = NotUtf8 THEN RejectHeader(r) ELSE EnterEdge(r, sent)

InApp(r) == edge[r].pc = "app"
Claims(r, c) == claim' = [claim EXCEPT ![r] = c]

(* Routes without an await (/health, /metrics), and what FastAPI answers by   *)
(* itself: no such route, a body that does not validate.                      *)
AnsweredAtOnce(r) ==
    /\ stage[r] = "new" /\ r \in Asks
    /\ \E status \in {200, 404, 422} : Respond(r, status, FALSE)
    /\ UNCHANGED <<poolVars, stage, claim, lifeVars>>

Done(r) == Finish(r) /\ UNCHANGED <<poolVars, stage, claim, lifeVars>>
-----------------------------------------------------------------------------
(* ready *)

ProbeArrives(p) ==                                        \* sends no id
    /\ edge[p].pc \in {"idle", "closed"}
    /\ Arrives(p, NoId)
    /\ IF poolOpen THEN Enqueue(p) /\ Claims(p, "queued")
                   ELSE UNCHANGED <<poolVars, claim>>
    /\ UNCHANGED <<stage, lifeVars>>

ProbeGranted(p, c) ==
    /\ Grant(p, c)
    /\ Claims(p, "holding")
    /\ UNCHANGED <<edgeVars, stage, lifeVars>>

ProbeReady_NoSelect(p, c) ==                               \* slip: getconn is enough
    /\ InApp(p) /\ Holds(p, c)
    /\ Release(c) /\ Claims(p, "none")
    /\ Respond(p, 200, FALSE)
    /\ UNCHANGED <<committedWrite, stage, lifeVars>>
ProbeReady(p, c) ==
    /\ InApp(p) /\ Holds(p, c)
    /\ Usable(c)                                           \* SELECT 1 was answered
    /\ Release(c) /\ Claims(p, "none")
    /\ Respond(p, 200, FALSE)
    /\ UNCHANGED <<committedWrite, stage, lifeVars>>

ProbeFails_NoPutconn(p, c) ==                              \* slip: no async with
    /\ InApp(p) /\ Holds(p, c)
    /\ ~Usable(c)
    /\ Claims(p, "none")
    /\ Respond(p, 503, FALSE)
    /\ UNCHANGED <<poolVars, stage, lifeVars>>
ProbeFails(p, c) ==
    /\ InApp(p) /\ Holds(p, c)
    /\ ~Usable(c)
    /\ Release(c) /\ Claims(p, "none")
    /\ Respond(p, 503, FALSE)
    /\ UNCHANGED <<committedWrite, stage, lifeVars>>

ProbeRefused_AsksAgain(p) ==                               \* slip: until it works
    /\ p \in waiting /\ \A c \in Conns : ~Available(c)
    /\ UNCHANGED <<poolVars, taskVars, lifeVars>>
(* PoolTimeout while queued, or PoolClosed at once.                           *)
ProbeRefused(p) ==
    /\ \/ GiveUp(p) /\ Claims(p, "none")
       \/ ~poolOpen /\ UNCHANGED <<poolVars, claim>>
    /\ Respond(p, 503, FALSE)
    /\ UNCHANGED <<stage, lifeVars>>

ProbeStep(p) == \/ ProbeRefused(p)
                \/ \E c \in Conns : ProbeGranted(p, c) \/ ProbeReady(p, c) \/ ProbeFails(p, c)
-----------------------------------------------------------------------------
(* POST /ask *)

AskArrives(r, sent) ==
    /\ edge[r].pc = "idle"
    /\ Arrives(r, sent)
    /\ UNCHANGED <<poolVars, stage, claim, lifeVars>>

(* The AskCall steps, each with what it does to the pool; a schema is only in *)
(* memory, and a closed pool raises PoolClosed, without a slot.               *)
AskCalls(r) ==
    /\ InApp(r)
    /\ Call!LoadSchema(r) \/ Call!RunQuery(r)
    /\ IF claim'[r] = "queued" THEN poolOpen /\ Enqueue(r) ELSE UNCHANGED poolVars
    /\ UNCHANGED <<edgeVars, lifeVars>>

AskGenerates(r) ==
    /\ poolOpen
    /\ Call!Generate(r)
    /\ UNCHANGED <<poolVars, edgeVars, lifeVars>>

AskServed(r, c) ==
    /\ \/ Call!Borrow(r, c) /\ Grant(r, c)
       \/ Call!GiveBack(r, c) /\ Release(c) /\ UNCHANGED committedWrite
    /\ UNCHANGED <<edgeVars, lifeVars>>

AskRefused(r) ==
    /\ Call!Refused(r) /\ GiveUp(r)
    /\ UNCHANGED <<edgeVars, lifeVars>>

AskAnswered(r) ==
    /\ \E status \in Call!Statuses(stage[r]) :
           /\ Call!Answer(r, status)
           /\ IF status = 500 THEN Fail(r) ELSE Respond(r, status, status # 200)
    /\ UNCHANGED <<poolVars, lifeVars>>

AskStep(r) == \/ AskCalls(r) \/ AskGenerates(r) \/ AskRefused(r) \/ AskAnswered(r)
              \/ AnsweredAtOnce(r)
              \/ \E c \in Conns : AskServed(r, c)
-----------------------------------------------------------------------------
TaskStep(r) == Done(r) \/ (r \in Asks /\ AskStep(r)) \/ (r \in Probes /\ ProbeStep(r))

ServiceNext ==
    /\ \/ StartUp \/ Terminate \/ CloseHttpClient \/ ClosePool
       \/ PoolEnvironment
       \/ \E p \in Probes : ProbeArrives(p)
       \/ \E r \in Asks, sent \in SentIds : AskArrives(r, sent)
       \/ \E r \in Requests : TaskStep(r)
    /\ UNCHANGED metricsEnabled

ServiceSpec == ServiceInit /\ [][ServiceNext]_serviceVars

(* The event loop runs every task; getconn answers within 30 seconds; a server*)
(* that is up answers SELECT 1 and a link to it can be opened; ask's calls end*)
(* (CallsComplete, SchemaCallsComplete); the orchestrator keeps probing.      *)
Reconnects(c) == poolOpen /\ Connect(c) /\ UNCHANGED <<taskVars, lifeVars>>

FairServiceSpec ==
    /\ ServiceSpec
    /\ WF_serviceVars(StartUp /\ UNCHANGED metricsEnabled)
    /\ WF_serviceVars((CloseHttpClient \/ ClosePool) /\ UNCHANGED metricsEnabled)
    /\ \A r \in Requests : WF_serviceVars(TaskStep(r) /\ UNCHANGED metricsEnabled)
    /\ \A p \in Probes : WF_serviceVars(ProbeArrives(p) /\ UNCHANGED metricsEnabled)
    /\ \A c \in Conns : WF_serviceVars(Reconnects(c) /\ UNCHANGED metricsEnabled)
-----------------------------------------------------------------------------
(* Properties *)

(* Every variable has its type. *)
ServiceTypeOK ==
    /\ PoolTypeOK /\ EdgeTypeOK
    /\ stage \in [Requests -> Call!Stages]
    /\ claim \in [Requests -> {"none", "queued", "holding"}]
    /\ phase \in Phases /\ httpOpen \in BOOLEAN /\ poolOpen \in BOOLEAN

(* Whoever shares the pool, probe or ask, holds at most one slot, only while  *)
(* its handler runs and not during a generation; a slot is never lost to an   *)
(* answered request.                                                          *)
SlotsBelongToHandlers ==
    /\ \A r \in Requests : r \in waiting <=> claim[r] = "queued"
    /\ \A r \in Requests : claim[r] = "holding" <=> \E c \in Conns : Holds(r, c)
    /\ \A r \in Requests, c, d \in Conns : Holds(r, c) /\ Holds(r, d) => c = d
    /\ \A r \in Requests : claim[r] # "none" => InApp(r) /\ stage[r] # "generating"

(* Types and ownership of the whole process together. *)
ServiceInv == ServiceTypeOK /\ SlotsBelongToHandlers

(* A probe says "ready" only at a moment when the server answers, never       *)
(* because the pool still has a connection from before an outage.             *)
ReadyMeansServed ==
    [][\A p \in Probes : InApp(p) /\ edge'[p].status = 200 => dbUp]_serviceVars

(* No handler runs without its resources: the HTTP client and the pool are    *)
(* there before the first request and until the last one is answered.         *)
ResourcesOutliveRequests ==
    ~Drained => httpOpen /\ phase \in {"serving", "draining"}

(* Every request is answered, and the probe "must always answer", with the    *)
(* server down, the pool exhausted or never opened, or a shutdown under way.  *)
EveryRequestCloses ==
    \A r \in Requests : edge[r].pc \in {"app", "failing"} ~> edge[r].pc = "closed"

(* Start-up does not wait for the database, and a shutdown ends, however busy *)
(* the process is, with nothing left open.                                    *)
LifespanProgresses ==
    /\ <>(phase # "starting")
    /\ phase = "draining" ~>
           /\ phase = "stopped" /\ ~httpOpen /\ ~poolOpen /\ waiting = {}
           /\ \A c \in Conns : holder[c] = Nobody /\ session[c].link = "closed"

(* Once an outage is over the service gets ready by itself: the dead links it *)
(* left in the pool are used up.                                              *)
HealsByItself ==
    \A p \in Probes :
        <>[](dbUp /\ poolOpen /\ phase = "serving") => []<>(edge[p].status = 200)
=============================================================================
