----------------------- MODULE SchemaProvider_proofs ------------------------
(***************************************************************************)
(* What holds of PostgresSchemaProvider for any number of concurrent calls *)
(* and slots, with the cache on or off, through any schema changes.        *)
(***************************************************************************)
EXTENDS SchemaProvider, ConnectionPool_proofs, TLAPS
-----------------------------------------------------------------------------
(* Results and versions.                                                    *)
LEMMA ResultsTyped ==
    /\ \A v \in Version : Found(v) \in SchemaResult /\ Found(v).code = "ok"
                          /\ Found(v).version = v
    /\ Unavailable \in SchemaResult /\ Unavailable.code = "schema_unavailable"
    /\ \A v \in Version : v \in Nat /\ v # NoSchema
    /\ 0 \in Version
  BY SchemaAssumption DEF Found, Unavailable, SchemaResult, Version

(* The slot of a call, as DbCall names it.                                  *)
LEMMA PhaseOfPc ==
    /\ PhaseOf("idle") = "idle" /\ PhaseOf("connect") = "queued"
    /\ PhaseOf("reading") = "holding" /\ PhaseOf("store") = "holding"
    /\ PhaseOf("done") = "done"
  BY DEF PhaseOf
-----------------------------------------------------------------------------
(* The invariant: a call owns what its await says, what it has read is not  *)
(* older than the call, and no session keeps anything.                      *)
CallInv(r) ==
    /\ OwnsAs(r, PhaseOf(spPc[r]))
    /\ askedAt[r] <= dbVersion
    /\ spPc[r] = "store" => rows[r] \in Version /\ rows[r] >= askedAt[r]
    /\ spPc[r] \in {"idle", "connect", "reading", "store"} => spOut[r].code # "ok"
    /\ spOut[r].code = "ok" => cacheSchema \/ spOut[r].version >= askedAt[r]

SessionsIdle == \A c \in Conns : session[c] = Idle(session[c].link)

ProviderInv ==
    /\ SchemaTypeOK /\ SessionsIdle
    /\ \A r \in Requests : CallInv(r)

(* Whatever the pool and its environment do, an idle session stays one.     *)
LEMMA SessionsIdleKept ==
    ASSUME PoolTypeOK, SessionsIdle
    PROVE  /\ Environment => SessionsIdle'
           /\ UNCHANGED session => SessionsIdle'
           /\ \A c \in Conns : Release(c) => SessionsIdle'
<1>1. ASSUME Environment
      PROVE  SessionsIdle'
  <2>1. \A c \in Conns :
            session'[c] = session[c] \/ \E link \in {"up", "broken"} : session'[c] = Idle(link)
    <3>1. CASE ServerStops
      BY <3>1 DEF ServerStops
    <3>2. CASE ServerStarts
      BY <3>2 DEF ServerStarts
    <3>3. CASE \E c \in Conns : Connect(c)
      BY <3>3 DEF Connect, PoolTypeOK
    <3>4. QED
      BY <1>1, <3>1, <3>2, <3>3 DEF Environment
  <2>2. QED
    BY <2>1, IdleFields DEF SessionsIdle
<1>2. ASSUME NEW c \in Conns, Release(c)
      PROVE  SessionsIdle'
  <2>1. session[c] \in Session /\ ~session[c].wrote /\ session[c].cap = "none"
    BY IdleFields DEF PoolTypeOK, SessionsIdle
  <2>2. Returned(session[c]) = Idle(Returned(session[c]).link)
    BY <2>1, ReturnedClean
  <2>3. /\ session'[c] = Returned(session[c])
        /\ \A d \in Conns : d # c => session'[d] = session[d]
    BY <1>2 DEF Release, PoolTypeOK
  <2>4. QED
    BY <2>2, <2>3 DEF SessionsIdle
<1>3. QED
  BY <1>1, <1>2 DEF SessionsIdle

(* A step of r: what holds of r afterwards is enough.                       *)
OthersUntouched(r) ==
    \A q \in Requests : q # r =>
        /\ Untouched(q)
        /\ spPc'[q] = spPc[q] /\ rows'[q] = rows[q]
        /\ askedAt'[q] = askedAt[q] /\ spOut'[q] = spOut[q]

LEMMA OneCall ==
    ASSUME ProviderInv, NEW r \in Requests, SchemaTypeOK', SessionsIdle',
           OthersUntouched(r), UNCHANGED <<cacheSchema, dbVersion>>,
           CallInv(r)'
    PROVE  ProviderInv'
<1>1. ASSUME NEW q \in Requests, q # r
      PROVE  CallInv(q)'
  <2>1. CallInv(q)
    BY DEF ProviderInv
  <2>2. /\ Untouched(q)
        /\ spPc'[q] = spPc[q] /\ rows'[q] = rows[q]
        /\ askedAt'[q] = askedAt[q] /\ spOut'[q] = spOut[q]
    BY <1>1 DEF OthersUntouched
  <2>3. OwnsAs(q, PhaseOf(spPc[q]))'
    BY <2>1, <2>2 DEF CallInv, OwnsAs, Untouched
  <2>4. QED
    BY <2>1, <2>2, <2>3 DEF CallInv
<1>2. QED
  BY <1>1 DEF ProviderInv

-----------------------------------------------------------------------------
(* The steps of a call *)

(* The answer of a call is its own, with the cache on or off.               *)
LEMMA GetSchemaKeeps ==
    ASSUME ProviderInv, NEW r \in Requests, GetSchema(r), UNCHANGED cacheSchema
    PROVE  ProviderInv'
<1>1. spPc[r] = "idle" /\ CallInv(r) /\ SchemaTypeOK /\ PoolTypeOK /\ SessionsIdle
  BY DEF GetSchema, ProviderInv, SchemaTypeOK
<1>2. OwnsAs(r, "none")
  BY <1>1, PhaseOfPc DEF CallInv, OwnsAs
<1>3. CASE CacheHit
  <2>1. /\ spPc' = [spPc EXCEPT ![r] = "done"] /\ spOut' = [spOut EXCEPT ![r] = Found(cached)]
        /\ askedAt' = [askedAt EXCEPT ![r] = dbVersion]
        /\ UNCHANGED <<poolVars, cached, rows, dbVersion>>
    BY <1>3 DEF GetSchema, Finish, SpGoto
  <2>2. cacheSchema /\ Found(cached) \in SchemaResult
    BY <1>1, <1>3, ResultsTyped DEF CacheHit, SchemaTypeOK
  <2>3. PoolTypeOK' /\ SessionsIdle' /\ \A q \in Requests : Untouched(q)
    BY <1>1, <2>1, SessionsIdleKept DEF poolVars, PoolTypeOK, Untouched, Holds
  <2>4. SchemaTypeOK' /\ OthersUntouched(r)
    BY <1>1, <2>1, <2>2, <2>3 DEF SchemaTypeOK, OthersUntouched, SpPc
  <2>5. spPc'[r] = "done" /\ askedAt'[r] = dbVersion /\ dbVersion \in Nat
    BY <1>1, <2>1, ResultsTyped DEF SchemaTypeOK
  <2>6. OwnsAs(r, PhaseOf("done"))'
    BY <1>2, <2>3, PhaseOfPc DEF OwnsAs, Untouched
  <2>7. CallInv(r)'
    BY <2>1, <2>2, <2>5, <2>6 DEF CallInv
  <2>8. QED
    BY <2>1, <2>3, <2>4, <2>7, OneCall
<1>4. CASE ~CacheHit
  <2>1. /\ spPc' = [spPc EXCEPT ![r] = "connect"] /\ Enqueue(r)
        /\ askedAt' = [askedAt EXCEPT ![r] = dbVersion]
        /\ UNCHANGED <<spOut, cached, rows, dbVersion>>
    BY <1>4 DEF GetSchema, SpGoto
  <2>2. PoolTypeOK' /\ OwnsAs(r, "queued")' /\ \A q \in Requests : q # r => Untouched(q)
    BY <1>1, <1>2, <2>1, EnqueueMoves
  <2>3. SessionsIdle'
    BY <1>1, <2>1, SessionsIdleKept DEF Enqueue
  <2>4. SchemaTypeOK' /\ OthersUntouched(r)
    BY <1>1, <2>1, <2>2 DEF SchemaTypeOK, OthersUntouched, SpPc
  <2>5. spPc'[r] = "connect" /\ askedAt'[r] = dbVersion /\ dbVersion \in Nat
    BY <1>1, <2>1, ResultsTyped DEF SchemaTypeOK
  <2>6. spOut'[r].code # "ok"
    BY <1>1, <2>1 DEF CallInv
  <2>7. CallInv(r)'
    BY <2>1, <2>2, <2>5, <2>6, PhaseOfPc DEF CallInv
  <2>8. QED
    BY <2>1, <2>3, <2>4, <2>7, OneCall
<1>5. QED
  BY <1>3, <1>4

LEMMA SchemaGrantedKeeps ==
    ASSUME ProviderInv, NEW r \in Requests, NEW c \in Conns, SchemaGranted(r, c),
           UNCHANGED cacheSchema
    PROVE  ProviderInv'
<1>1. spPc[r] = "connect" /\ CallInv(r) /\ SchemaTypeOK /\ PoolTypeOK /\ SessionsIdle
  BY DEF SchemaGranted, ProviderInv, SchemaTypeOK
<1>2. /\ spPc' = [spPc EXCEPT ![r] = "reading"] /\ Grant(r, c)
      /\ UNCHANGED <<rows, askedAt, spOut, dbVersion, cached>>
  BY DEF SchemaGranted, SpGoto
<1>3. OwnsAs(r, "queued")
  BY <1>1, PhaseOfPc DEF CallInv
<1>4. PoolTypeOK' /\ OwnsAs(r, "holding")' /\ \A q \in Requests : q # r => Untouched(q)
  BY <1>1, <1>2, <1>3, GrantMoves
<1>5. SessionsIdle'
  BY <1>1, <1>2, SessionsIdleKept DEF Grant
<1>6. SchemaTypeOK' /\ OthersUntouched(r) /\ spPc'[r] = "reading"
  BY <1>1, <1>2, <1>4 DEF SchemaTypeOK, OthersUntouched, SpPc
<1>7. CallInv(r)'
  BY <1>1, <1>2, <1>4, <1>6, PhaseOfPc DEF CallInv
<1>8. QED
  BY <1>2, <1>5, <1>6, <1>7, OneCall

LEMMA SchemaRefusedKeeps ==
    ASSUME ProviderInv, NEW r \in Requests, SchemaRefused(r), UNCHANGED cacheSchema
    PROVE  ProviderInv'
<1>1. spPc[r] = "connect" /\ CallInv(r) /\ SchemaTypeOK /\ PoolTypeOK /\ SessionsIdle
  BY DEF SchemaRefused, ProviderInv, SchemaTypeOK
<1>2. /\ spPc' = [spPc EXCEPT ![r] = "done"] /\ GiveUp(r)
      /\ spOut' = [spOut EXCEPT ![r] = Unavailable]
      /\ UNCHANGED <<rows, askedAt, dbVersion, cached>>
  BY DEF SchemaRefused, Finish, SpGoto
<1>3. OwnsAs(r, "queued")
  BY <1>1, PhaseOfPc DEF CallInv
<1>4. PoolTypeOK' /\ OwnsAs(r, "none")' /\ \A q \in Requests : q # r => Untouched(q)
  BY <1>1, <1>2, <1>3, GiveUpMoves
<1>5. SessionsIdle' /\ OwnsAs(r, PhaseOf("done"))'
  BY <1>1, <1>2, <1>4, PhaseOfPc, SessionsIdleKept DEF GiveUp, OwnsAs
<1>6. /\ SchemaTypeOK' /\ OthersUntouched(r) /\ spPc'[r] = "done"
      /\ spOut'[r].code # "ok"
  BY <1>1, <1>2, <1>4, ResultsTyped DEF SchemaTypeOK, OthersUntouched, SpPc
<1>7. CallInv(r)'
  BY <1>1, <1>2, <1>5, <1>6 DEF CallInv
<1>8. QED
  BY <1>2, <1>5, <1>6, <1>7, OneCall

(* The catalog rows are as new as the moment they are read.                 *)
LEMMA IntrospectReadsKeeps ==
    ASSUME ProviderInv, NEW r \in Requests, NEW c \in Conns, IntrospectReads(r, c),
           UNCHANGED cacheSchema
    PROVE  ProviderInv'
<1>1. spPc[r] = "reading" /\ CallInv(r) /\ SchemaTypeOK /\ PoolTypeOK /\ SessionsIdle
  BY DEF IntrospectReads, SpAt, ProviderInv, SchemaTypeOK
<1>2. /\ spPc' = [spPc EXCEPT ![r] = "store"] /\ rows' = [rows EXCEPT ![r] = dbVersion]
      /\ UNCHANGED <<poolVars, askedAt, spOut, dbVersion, cached>>
  BY DEF IntrospectReads, SpGoto
<1>3. PoolTypeOK' /\ SessionsIdle' /\ \A q \in Requests : Untouched(q)
  BY <1>1, <1>2, SessionsIdleKept DEF poolVars, PoolTypeOK, Untouched, Holds
<1>4. OwnsAs(r, PhaseOf("store"))'
  BY <1>1, <1>3, PhaseOfPc DEF CallInv, OwnsAs, Untouched
<1>5. /\ SchemaTypeOK' /\ OthersUntouched(r) /\ spPc'[r] = "store"
      /\ rows'[r] = dbVersion /\ dbVersion \in Version
  BY <1>1, <1>2, <1>3 DEF SchemaTypeOK, OthersUntouched, SpPc
<1>6. askedAt[r] \in Nat /\ dbVersion \in Nat
  BY <1>1, ResultsTyped DEF SchemaTypeOK
<1>7. CallInv(r)'
  BY <1>1, <1>2, <1>4, <1>5, <1>6 DEF CallInv
<1>8. QED
  BY <1>2, <1>3, <1>5, <1>7, OneCall

(* Both ways out give the slot back.                                        *)
LEMMA IntrospectionEnds ==
    ASSUME ProviderInv, NEW r \in Requests, NEW c \in Conns, UNCHANGED cacheSchema,
           spPc[r] \in {"reading", "store"}, Holds(r, c), Release(c),
           UNCHANGED <<committedWrite, rows, askedAt, dbVersion>>,
           NEW out \in SchemaResult, Finish(r, out), cached' \in Version \cup {NoSchema},
           out.code = "ok" => out.version >= askedAt[r]
    PROVE  ProviderInv'
<1>1. CallInv(r) /\ SchemaTypeOK /\ PoolTypeOK /\ SessionsIdle
  BY DEF ProviderInv, SchemaTypeOK
<1>2. /\ spPc' = [spPc EXCEPT ![r] = "done"] /\ spOut' = [spOut EXCEPT ![r] = out]
  BY DEF Finish, SpGoto
<1>3. OwnsAs(r, "holding") /\ committedWrite' \in BOOLEAN
  BY <1>1, PhaseOfPc DEF PoolTypeOK, CallInv
<1>4. PoolTypeOK' /\ OwnsAs(r, "none")' /\ \A q \in Requests : q # r => Untouched(q)
  BY <1>1, <1>3, ReleaseMoves
<1>5. SessionsIdle' /\ OwnsAs(r, PhaseOf("done"))'
  BY <1>1, <1>4, PhaseOfPc, SessionsIdleKept DEF OwnsAs
<1>6. /\ SchemaTypeOK' /\ OthersUntouched(r) /\ spPc'[r] = "done" /\ spOut'[r] = out
  BY <1>1, <1>2, <1>4 DEF SchemaTypeOK, OthersUntouched, SpPc
<1>7. CallInv(r)'
  BY <1>1, <1>5, <1>6 DEF CallInv
<1>8. QED
  BY <1>5, <1>6, <1>7, OneCall

LEMMA IntrospectFailsKeeps ==
    ASSUME ProviderInv, NEW r \in Requests, NEW c \in Conns, IntrospectFails(r, c),
           UNCHANGED cacheSchema
    PROVE  ProviderInv'
<1>1. cached' \in Version \cup {NoSchema}
  BY DEF IntrospectFails, ProviderInv, SchemaTypeOK
<1>2. QED
  BY <1>1, IntrospectionEnds, ResultsTyped DEF IntrospectFails, SpAt

LEMMA StoreSchemaKeeps ==
    ASSUME ProviderInv, NEW r \in Requests, NEW c \in Conns, StoreSchema(r, c),
           UNCHANGED cacheSchema
    PROVE  ProviderInv'
<1>1. rows[r] \in Version /\ rows[r] >= askedAt[r] /\ cached' = rows[r] /\ spPc[r] = "store"
  BY DEF StoreSchema, SpAt, Stored, ProviderInv, CallInv
<1>2. Found(rows[r]) \in SchemaResult /\ Found(rows[r]).version = rows[r]
  BY <1>1, ResultsTyped
<1>3. QED
  BY <1>1, <1>2, IntrospectionEnds DEF StoreSchema, SpAt, Stored

(* Other steps: the rest of the system moves, or the schema changes, which  *)
(* only makes it newer.                                                     *)
LEMMA OutsideKeeps ==
    ASSUME ProviderInv, UNCHANGED cacheSchema,
           \/ Environment /\ UNCHANGED spVars
           \/ Migrate
           \/ UNCHANGED schemaVars
    PROVE  ProviderInv'
<1>1. SchemaTypeOK /\ PoolTypeOK /\ SessionsIdle
  BY DEF ProviderInv, SchemaTypeOK
<1>2. /\ Environment \/ UNCHANGED poolVars
      /\ UNCHANGED <<cached, spPc, rows, askedAt, spOut>>
      /\ dbVersion' = dbVersion \/ (dbVersion < MaxVersion /\ dbVersion' = dbVersion + 1)
  BY DEF Migrate, spVars, schemaVars
<1>3. PoolTypeOK' /\ SessionsIdle' /\ \A q \in Requests : Untouched(q)
  <2>1. CASE Environment
    BY <1>1, <2>1, EnvironmentMoves, SessionsIdleKept
  <2>2. CASE UNCHANGED poolVars
    BY <1>1, <2>2, SessionsIdleKept DEF poolVars, PoolTypeOK, Untouched, Holds
  <2>3. QED
    BY <1>2, <2>1, <2>2
<1>4. dbVersion' \in Version /\ dbVersion <= dbVersion' /\ dbVersion \in Nat /\ dbVersion' \in Nat
  BY <1>1, <1>2, SchemaAssumption DEF SchemaTypeOK, Version
<1>5. SchemaTypeOK'
  BY <1>1, <1>2, <1>3, <1>4 DEF SchemaTypeOK
<1>6. ASSUME NEW q \in Requests
      PROVE  CallInv(q)'
  <2>1. CallInv(q) /\ Untouched(q)
    BY <1>3 DEF ProviderInv
  <2>2. OwnsAs(q, PhaseOf(spPc[q]))'
    BY <1>2, <2>1 DEF CallInv, OwnsAs, Untouched
  <2>3. askedAt[q] \in Nat
    BY <1>1, ResultsTyped DEF SchemaTypeOK
  <2>4. QED
    BY <1>2, <1>4, <2>1, <2>2, <2>3 DEF CallInv
<1>7. QED
  BY <1>3, <1>5, <1>6 DEF ProviderInv

LEMMA ProviderStep == ProviderInv /\ [SchemaNext]_schemaVars => ProviderInv'
<1>1. ASSUME ProviderInv, SchemaNext
      PROVE  ProviderInv'
  BY <1>1, OutsideKeeps, GetSchemaKeeps, SchemaGrantedKeeps, SchemaRefusedKeeps,
     IntrospectReadsKeeps, IntrospectFailsKeeps, StoreSchemaKeeps
     DEF SchemaNext, SchemaStep
<1>2. ASSUME ProviderInv, UNCHANGED schemaVars
      PROVE  ProviderInv'
  BY <1>2, OutsideKeeps DEF schemaVars
<1>3. QED
  BY <1>1, <1>2

LEMMA ProviderStart == SchemaInit => ProviderInv
<1> SUFFICES ASSUME SchemaInit
             PROVE  ProviderInv
  OBVIOUS
<1>1. PoolTypeOK /\ \A r \in Requests : OwnsAs(r, "none")
  BY PoolInitTyped, NobodyOwns DEF SchemaInit
<1>2. SchemaTypeOK
  BY <1>1, ResultsTyped, SchemaAssumption DEF SchemaInit, SchemaTypeOK, SchemaResult, SpPc
<1>3. SessionsIdle
  BY IdleFields DEF SchemaInit, PoolInit, SessionsIdle
<1>4. ASSUME NEW r \in Requests
      PROVE  CallInv(r)
  <2>1. spPc[r] = "idle" /\ askedAt[r] = 0 /\ dbVersion = 0 /\ spOut[r].code = "none"
    BY DEF SchemaInit
  <2>2. OwnsAs(r, PhaseOf("idle"))
    BY <1>1, PhaseOfPc DEF OwnsAs
  <2>3. QED
    BY <2>1, <2>2 DEF CallInv
<1>5. QED
  BY <1>2, <1>3, <1>4 DEF ProviderInv

LEMMA ProviderAlways == SchemaSpec => []ProviderInv
  BY ProviderStart, ProviderStep, PTL DEF SchemaSpec
-----------------------------------------------------------------------------
(* Theorems *)

(* Every variable has its type, a call owns a connection exactly while it   *)
(* reads the catalog, and every session is clean.                           *)
THEOREM OwnsWhileReading == SchemaSpec => []SchemaInv
<1>1. ASSUME ProviderInv
      PROVE  SchemaInv
  <2>1. SchemaTypeOK /\ SessionsIdle
    BY <1>1 DEF ProviderInv
  <2>2. ASSUME NEW r \in Requests
        PROVE  /\ r \in waiting <=> spPc[r] = "connect"
               /\ spPc[r] \in {"reading", "store"} <=> \E c \in Conns : Holds(r, c)
               /\ \A c, d \in Conns : Holds(r, c) /\ Holds(r, d) => c = d
    <3>1. OwnsAs(r, PhaseOf(spPc[r])) /\ spPc[r] \in SpPc
      BY <1>1 DEF ProviderInv, CallInv, SchemaTypeOK
    <3>2. /\ PhaseOf(spPc[r]) = "queued" <=> spPc[r] = "connect"
          /\ PhaseOf(spPc[r]) = "holding" <=> spPc[r] \in {"reading", "store"}
      BY <3>1, PhaseOfPc DEF SpPc
    <3>3. QED
      BY <3>1, <3>2 DEF OwnsAs
  <2>3. QED
    BY <2>1, <2>2 DEF SchemaInv, SchemaHolderDiscipline, SessionsIdle
<1>2. QED
  BY <1>1, ProviderAlways, PTL

(* With cache_schema off, get_schema never returns a schema older than the  *)
(* call.                                                                    *)
THEOREM NeverStaleUncached == SchemaSpec => []FreshWhenUncached
<1>1. ProviderInv => FreshWhenUncached
  BY DEF ProviderInv, CallInv, FreshWhenUncached
<1>2. QED
  BY <1>1, ProviderAlways, PTL

(* Once the schema is cached and no call is in flight, it is never replaced:*)
(* a later call is a hit, so nothing starts that could store another one.   *)
LEMMA SettledStays ==
    ASSUME NEW v \in Version, Settled(v), [SchemaNext]_schemaVars
    PROVE  Settled(v)'
<1>1. v # NoSchema
  BY ResultsTyped
<1>2. CASE UNCHANGED schemaVars
  BY <1>2 DEF schemaVars, spVars, Settled
<1>3. CASE SchemaNext
  <2>1. CASE Migrate \/ UNCHANGED spVars
    BY <1>3, <2>1 DEF SchemaNext, Migrate, spVars, Settled
  <2>2. ASSUME NEW r \in Requests, GetSchema(r), UNCHANGED cacheSchema
        PROVE  Settled(v)'
    <3>1. CacheHit
      BY <1>1 DEF Settled, CacheHit
    <3>2. spPc' = [spPc EXCEPT ![r] = "done"] /\ UNCHANGED cached
      BY <2>2, <3>1 DEF GetSchema, Finish, SpGoto
    <3>3. QED
      BY <2>2, <3>2 DEF Settled, InFlight
  <2>3. ASSUME NEW r \in Requests, SchemaStep(r)
        PROVE  FALSE
    BY <2>3 DEF SchemaStep, SchemaRefused, SchemaGranted, IntrospectReads, IntrospectFails,
                StoreSchema, SpAt, Settled, InFlight
  <2>4. QED
    BY <1>3, <2>1, <2>2, <2>3 DEF SchemaNext
<1>4. QED
  BY <1>2, <1>3

(* Once no call is in flight that read another version, what is cached never *)
(* changes again: the race of cold calls can end with an old schema, but not *)
(* with one that comes and goes.                                             *)
THEOREM SettlesForGood == SchemaSpec => CacheSettles
<1>1. ASSUME NEW v \in Version
      PROVE  SchemaSpec => [](Settled(v) => [](cached = v))
  <2>1. Settled(v) /\ [SchemaNext]_schemaVars => Settled(v)'
    BY SettledStays
  <2>2. Settled(v) => cached = v
    BY DEF Settled
  <2>3. QED
    BY <2>1, <2>2, PTL DEF SchemaSpec
<1>2. QED
  BY <1>1 DEF CacheSettles
-----------------------------------------------------------------------------
(* The contract of a call that borrows a connection (DbCall).               *)

(* The contract's variables follow the step of one call.                    *)
LEMMA PhasesFollow ==
    ASSUME SchemaTypeOK, NEW r \in Requests, NEW from \in SpPc, NEW to \in SpPc,
           spPc[r] = from, spPc' = [spPc EXCEPT ![r] = to]
    PROVE  Contract!Step(r, PhaseOf(from), PhaseOf(to))
  BY DEF Contract!Step, SchemaTypeOK

LEMMA AnswersFollow ==
    ASSUME SchemaTypeOK, NEW r \in Requests, NEW out, NEW code, out.code = code,
           spOut' = [spOut EXCEPT ![r] = out]
    PROVE  [q \in Requests |-> spOut'[q].code]
             = [[q \in Requests |-> spOut[q].code] EXCEPT ![r] = code]
  BY DEF SchemaTypeOK

LEMMA ArgumentStays ==
    ASSUME NEW r \in Requests
    PROVE  [q \in Requests |-> "catalog"]
             = [[q \in Requests |-> "catalog"] EXCEPT ![r] = "catalog"]
  OBVIOUS

(* Every step is one step of the contract, or none.                         *)
ContractStep ==
    \E r \in Requests : \/ Contract!Call(r, "catalog")
                        \/ cacheSchema /\ Contract!AnswerFromMemory(r, "catalog", "ok")
                        \/ Contract!Serve(r)
ContractStutters == UNCHANGED <<Contract!callVars, holder>>

LEMMA GetSchemaCalls ==
    ASSUME SchemaTypeOK, NEW r \in Requests, GetSchema(r)
    PROVE  ContractStep
<1>1. CASE CacheHit
  <2>1. /\ spPc[r] = "idle" /\ spPc' = [spPc EXCEPT ![r] = "done"]
        /\ spOut' = [spOut EXCEPT ![r] = Found(cached)] /\ UNCHANGED holder
        /\ cacheSchema /\ Found(cached).code = "ok"
    BY <1>1 DEF GetSchema, Finish, SpGoto, poolVars, CacheHit, Found
  <2>2. Contract!Step(r, "idle", "done")
    BY <2>1, PhasesFollow, PhaseOfPc DEF SpPc
  <2>3. [q \in Requests |-> spOut'[q].code]
          = [[q \in Requests |-> spOut[q].code] EXCEPT ![r] = "ok"]
    BY <2>1, AnswersFollow
  <2>4. Contract!AnswerFromMemory(r, "catalog", "ok")
    BY <2>1, <2>2, <2>3, ArgumentStays DEF Contract!AnswerFromMemory
  <2>5. QED
    BY <2>1, <2>4 DEF ContractStep
<1>2. CASE ~CacheHit
  <2>1. /\ spPc[r] = "idle" /\ spPc' = [spPc EXCEPT ![r] = "connect"]
        /\ UNCHANGED <<spOut, holder>>
    BY <1>2 DEF GetSchema, SpGoto, Enqueue
  <2>2. Contract!Step(r, "idle", "queued")
    BY <2>1, PhasesFollow, PhaseOfPc DEF SpPc
  <2>3. Contract!Call(r, "catalog")
    BY <2>1, <2>2, ArgumentStays DEF Contract!Call
  <2>4. QED
    BY <2>3 DEF ContractStep
<1>3. QED
  BY <1>1, <1>2

LEMMA ServingServes ==
    ASSUME SchemaTypeOK, NEW r \in Requests, SchemaStep(r)
    PROVE  ContractStep \/ ContractStutters
<1>1. ASSUME SchemaRefused(r)
      PROVE  ContractStep
  <2>1. /\ spPc[r] = "connect" /\ spPc' = [spPc EXCEPT ![r] = "done"]
        /\ spOut' = [spOut EXCEPT ![r] = Unavailable] /\ UNCHANGED holder
        /\ Unavailable.code = "schema_unavailable"
    BY <1>1 DEF SchemaRefused, GiveUp, Finish, SpGoto, Unavailable
  <2>2. Contract!Step(r, "queued", "done")
    BY <2>1, PhasesFollow, PhaseOfPc DEF SpPc
  <2>3. [q \in Requests |-> spOut'[q].code]
          = [[q \in Requests |-> spOut[q].code] EXCEPT ![r] = "schema_unavailable"]
    BY <2>1, AnswersFollow
  <2>4. Contract!Refuse(r)
    BY <2>1, <2>2, <2>3 DEF Contract!Refuse
  <2>5. QED
    BY <2>4 DEF ContractStep, Contract!Serve
<1>2. ASSUME NEW c \in Conns, SchemaGranted(r, c)
      PROVE  ContractStep
  <2>1. /\ spPc[r] = "connect" /\ spPc' = [spPc EXCEPT ![r] = "reading"]
        /\ holder[c] = Nobody /\ holder' = [holder EXCEPT ![c] = r] /\ UNCHANGED spOut
    BY <1>2 DEF SchemaGranted, Grant, Available, SpGoto
  <2>2. Contract!Step(r, "queued", "holding")
    BY <2>1, PhasesFollow, PhaseOfPc DEF SpPc
  <2>3. Contract!Acquire(r, c)
    BY <2>1, <2>2 DEF Contract!Acquire
  <2>4. QED
    BY <2>3 DEF ContractStep, Contract!Serve
<1>3. ASSUME NEW c \in Conns, NEW out, out.code \in SchemaCodes("catalog"),
             spPc[r] \in {"reading", "store"}, Holds(r, c), Release(c), Finish(r, out)
      PROVE  ContractStep
  <2>1. /\ spPc' = [spPc EXCEPT ![r] = "done"] /\ spOut' = [spOut EXCEPT ![r] = out]
        /\ holder[c] = r /\ holder' = [holder EXCEPT ![c] = Nobody]
    BY <1>3 DEF Finish, SpGoto, Holds, Release
  <2>2. Contract!Step(r, "holding", "done")
    BY <1>3, <2>1, PhasesFollow, PhaseOfPc DEF SpPc
  <2>3. Contract!Return(r, c)
    BY <1>3, <2>1, <2>2, AnswersFollow DEF Contract!Return
  <2>4. QED
    BY <2>3 DEF ContractStep, Contract!Serve
<1>4. ASSUME NEW c \in Conns, IntrospectFails(r, c)
      PROVE  ContractStep
  BY <1>3, <1>4 DEF IntrospectFails, SpAt, Unavailable, SchemaCodes
<1>5. ASSUME NEW c \in Conns, StoreSchema(r, c)
      PROVE  ContractStep
  BY <1>3, <1>5 DEF StoreSchema, SpAt, Found, SchemaCodes
<1>6. ASSUME NEW c \in Conns, IntrospectReads(r, c)
      PROVE  ContractStutters
  <2>1. /\ spPc[r] = "reading" /\ spPc' = [spPc EXCEPT ![r] = "store"]
        /\ UNCHANGED <<holder, spOut>>
    BY <1>6 DEF IntrospectReads, SpAt, SpGoto, poolVars
  <2>2. Contract!Step(r, "holding", "holding")
    BY <2>1, PhasesFollow, PhaseOfPc DEF SpPc
  <2>3. [q \in Requests |-> PhaseOf(spPc'[q])] = [q \in Requests |-> PhaseOf(spPc[q])]
    BY <2>2 DEF Contract!Step
  <2>4. QED
    BY <2>1, <2>3 DEF ContractStutters, Contract!callVars
<1>7. QED
  BY <1>1, <1>2, <1>4, <1>5, <1>6 DEF SchemaStep

(* Abstract from the cache, the catalog and outages, get_schema is a call   *)
(* that queues, owns one slot, gives it back and answers, once; without a   *)
(* slot it answers only from the cache.                                     *)
THEOREM GetSchemaIsDbCall == SchemaSpec => ImplementsContract
<1>1. ASSUME SchemaTypeOK, [SchemaNext]_schemaVars
      PROVE  ContractStep \/ ContractStutters
  <2>1. CASE UNCHANGED <<spPc, spOut, holder>>
    BY <2>1 DEF ContractStutters, Contract!callVars
  <2>2. ASSUME NEW r \in Requests, GetSchema(r) \/ SchemaStep(r)
        PROVE  ContractStep \/ ContractStutters
    BY <1>1, <2>2, GetSchemaCalls, ServingServes
  <2>3. QED
    BY <1>1, <2>1, <2>2 DEF SchemaNext, Migrate, schemaVars, spVars, poolVars,
       Environment, ServerStops, ServerStarts, Connect
<1>2. ProviderInv => SchemaTypeOK
  BY DEF ProviderInv
<1>3. QED
  BY <1>1, <1>2, ProviderAlways, PTL
     DEF SchemaSpec, ImplementsContract, ContractStep, ContractStutters
=============================================================================
