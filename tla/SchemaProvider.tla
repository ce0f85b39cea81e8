--------------------------- MODULE SchemaProvider ---------------------------
(***************************************************************************)
(* PostgresSchemaProvider (infrastructure/db/schema_provider.py): requests *)
(* read the catalog through the shared pool and share one cached schema.   *)
(* There is no lock between the test of the cache and the store.  A schema *)
(* is abstracted to the version of the database it was read at.            *)
(* X_Y marked "slip" is X with a mistake the properties must notice.       *)
(***************************************************************************)
EXTENDS ConnectionPool

CONSTANTS
    CacheModes,       \* the values of cache_schema a process may have
    MaxVersion,       \* bound: how many DDL changes the database goes through
    NoSchema          \* self._cached is None

ASSUME SchemaAssumption ==
    CacheModes \subseteq BOOLEAN /\ MaxVersion \in Nat /\ NoSchema \notin Nat

VARIABLES
    cacheSchema,      \* cache_schema of this process, fixed at start-up
    cached,           \* self._cached, one for the process
    spPc,             \* spPc[r]: the await at which r's get_schema is suspended
    rows,             \* rows[r]: the version of the catalog rows r has fetched
    askedAt,          \* history: the version at the moment r called get_schema
    spOut,            \* spOut[r]: what get_schema returned or raised
    dbVersion         \* the version of the schema in the database

spVars == <<cached, spPc, rows, askedAt, spOut, dbVersion>>
schemaVars == <<poolVars, cacheSchema, spVars>>

Version == 0..MaxVersion
SpPc == {"idle", "connect", "reading", "store", "done"}
InFlight == {"connect", "reading", "store"}
SchemaResult == [code : {"none", "schema_unavailable"}, version : {NoSchema}]
                \cup [code : {"ok"}, version : Version]

Found(v)    == [code |-> "ok", version |-> v]
Unavailable == [code |-> "schema_unavailable", version |-> NoSchema]
-----------------------------------------------------------------------------
SchemaInit ==
    /\ PoolInit
    /\ cacheSchema \in CacheModes
    /\ cached = NoSchema
    /\ spPc = [r \in Requests |-> "idle"]
    /\ rows = [r \in Requests |-> NoSchema]
    /\ askedAt = [r \in Requests |-> 0]
    /\ spOut = [r \in Requests |-> [code |-> "none", version |-> NoSchema]]
    /\ dbVersion = 0

SpGoto(r, pc) == spPc' = [spPc EXCEPT ![r] = pc]
SpAt(r, c, pc) == spPc[r] = pc /\ Holds(r, c)
Finish(r, result) ==
    /\ SpGoto(r, "done")
    /\ spOut' = [spOut EXCEPT ![r] = result]

CacheHit_IgnoresSetting == cached # NoSchema               \* slip: always cache
CacheHit_Never == FALSE                                    \* slip: never looks
CacheHit == cacheSchema /\ cached # NoSchema

GetSchema(r) ==
    /\ spPc[r] = "idle"
    /\ askedAt' = [askedAt EXCEPT ![r] = dbVersion]
    /\ \/ /\ CacheHit
          /\ Finish(r, Found(cached))
          /\ UNCHANGED poolVars
       \/ /\ ~CacheHit
          /\ SpGoto(r, "connect")
          /\ Enqueue(r)
          /\ UNCHANGED spOut
    /\ UNCHANGED <<cached, rows, dbVersion>>

SchemaGranted(r, c) ==
    /\ spPc[r] = "connect"
    /\ Grant(r, c)
    /\ SpGoto(r, "reading")
    /\ UNCHANGED <<cached, rows, askedAt, spOut, dbVersion>>

SchemaRefused_AsksAgain(r) ==                              \* slip: until it works
    /\ spPc[r] = "connect"
    /\ r \in waiting /\ \A c \in Conns : ~Available(c)
    /\ UNCHANGED <<poolVars, spVars>>
SchemaRefused(r) ==
    /\ spPc[r] = "connect"
    /\ GiveUp(r)
    /\ Finish(r, Unavailable)
    /\ UNCHANGED <<cached, rows, askedAt, dbVersion>>

(* The server runs the catalog query: autocommit, no transaction, no timeout. *)
IntrospectReads(r, c) ==
    /\ SpAt(r, c, "reading")
    /\ Usable(c)
    /\ rows' = [rows EXCEPT ![r] = dbVersion]
    /\ SpGoto(r, "store")
    /\ UNCHANGED <<poolVars, cached, askedAt, spOut, dbVersion>>

(* A psycopg.Error: a refused catalog, or a link found dead before the answer *)
(* is complete.  The connection goes back and the error is wrapped.           *)
IntrospectFails_NoPutconn(r, c) ==                         \* slip: no async with
    /\ SpAt(r, c, "reading") \/ (SpAt(r, c, "store") /\ ~Live(c))
    /\ Finish(r, Unavailable)
    /\ UNCHANGED <<poolVars, cached, rows, askedAt, dbVersion>>
IntrospectFails(r, c) ==
    /\ SpAt(r, c, "reading") \/ (SpAt(r, c, "store") /\ ~Live(c))
    /\ Release(c)
    /\ Finish(r, Unavailable)
    /\ UNCHANGED <<committedWrite, cached, rows, askedAt, dbVersion>>

(* putconn, the rows become a DatabaseSchema, which is cached and returned;   *)
(* cache_schema is not consulted here.                                        *)
Stored(r) == rows[r]

StoreSchema(r, c) ==
    /\ SpAt(r, c, "store")
    /\ Release(c)
    /\ cached' = Stored(r)
    /\ Finish(r, Found(Stored(r)))
    /\ UNCHANGED <<committedWrite, rows, askedAt, dbVersion>>

(* DDL by somebody else; the service never changes the schema. *)
Migrate ==
    /\ dbVersion < MaxVersion
    /\ dbVersion' = dbVersion + 1
    /\ UNCHANGED <<poolVars, cached, spPc, rows, askedAt, spOut>>
-----------------------------------------------------------------------------
SchemaStep(r) ==
    \/ SchemaRefused(r)
    \/ \E c \in Conns : \/ SchemaGranted(r, c)
                        \/ IntrospectReads(r, c)
                        \/ IntrospectFails(r, c)
                        \/ StoreSchema(r, c)

SchemaNext ==
    /\ \/ Environment /\ UNCHANGED spVars
       \/ Migrate
       \/ \E r \in Requests : GetSchema(r) \/ SchemaStep(r)
    /\ UNCHANGED cacheSchema

SchemaSpec == SchemaInit /\ [][SchemaNext]_schemaVars

(* Unlike the executor, nothing cuts a catalog query short: that the server   *)
(* answers it, or the link dies, is an assumption here.                       *)
FairSchemaSpec ==
    SchemaSpec /\ \A r \in Requests : WF_schemaVars(SchemaStep(r) /\ UNCHANGED cacheSchema)
-----------------------------------------------------------------------------
(* Properties *)

(* Every variable has its type. *)
SchemaTypeOK ==
    /\ PoolTypeOK
    /\ cacheSchema \in BOOLEAN
    /\ cached \in Version \cup {NoSchema}
    /\ spPc \in [Requests -> SpPc]
    /\ rows \in [Requests -> Version \cup {NoSchema}]
    /\ askedAt \in [Requests -> Version]
    /\ spOut \in [Requests -> SchemaResult]
    /\ dbVersion \in Version

(* _introspect owns one connection while it reads and gives it back on every  *)
(* path, clean; a cache hit takes none.                                       *)
SchemaHolderDiscipline ==
    /\ \A r \in Requests : r \in waiting <=> spPc[r] = "connect"
    /\ \A r \in Requests :
           spPc[r] \in {"reading", "store"} <=> \E c \in Conns : Holds(r, c)
    /\ \A r \in Requests, c, d \in Conns : Holds(r, c) /\ Holds(r, d) => c = d
    /\ \A c \in Conns : session[c] = Idle(session[c].link)

(* Types and ownership of the schema provider together. *)
SchemaInv == SchemaTypeOK /\ SchemaHolderDiscipline

(* With cache_schema off, a schema is never older than the call that got it,  *)
(* whatever other requests store in the meantime.                             *)
FreshWhenUncached ==
    \A r \in Requests : ~cacheSchema /\ spOut[r].code = "ok"
                            => spOut[r].version >= askedAt[r]

(* Concurrent cold calls may store one after the other, an older schema over  *)
(* a newer one too; but once none of them is in flight the cached schema is   *)
(* final for the life of the process, through outages and schema changes.     *)
Settled(v) == /\ cacheSchema /\ cached = v
              /\ \A r \in Requests : spPc[r] \notin InFlight
CacheSettles == \A v \in Version : [](Settled(v) => [](cached = v))

(* Every call of get_schema ends. *)
SchemaCallsComplete ==
    \A r \in Requests : spPc[r] = "connect" ~> spPc[r] = "done"

(* The provider implements the contract of a call that borrows a connection:  *)
(* a call answers once, a slot is taken only by a queued call and given back  *)
(* with its answer, and only a cache hit answers without the database.        *)
SchemaCodes(a) == {"ok", "schema_unavailable"}
PhaseOf(pc) == CASE pc = "connect" -> "queued"
                 [] pc \in {"reading", "store"} -> "holding"
                 [] OTHER -> pc
Contract == INSTANCE DbCall WITH
    Callers <- Requests, Slots <- Conns,
    Answers <- SchemaCodes, Refusal <- "schema_unavailable",
    phase <- [r \in Requests |-> PhaseOf(spPc[r])],
    arg <- [r \in Requests |-> "catalog"],
    result <- [r \in Requests |-> spOut[r].code]
ImplementsContract ==
    [][\E r \in Requests : \/ Contract!Call(r, "catalog")
                           \/ cacheSchema /\ Contract!AnswerFromMemory(r, "catalog", "ok")
                           \/ Contract!Serve(r)]_<<Contract!callVars, holder>>
=============================================================================
