--------------------------- MODULE ConnectionPool ---------------------------
(***************************************************************************)
(* The PostgreSQL server and the psycopg_pool.AsyncConnectionPool that the *)
(* adapters share.  Neither is part of the repository: they are modelled   *)
(* from the way src/infrastructure/db uses them.  infrastructure/db/pool.py*)
(* builds the pool with autocommit connections and at most                 *)
(* db_pool_max_size slots (Conns); getconn queues a client for 30 seconds  *)
(* when no connection is idle; it hands out an idle connection without     *)
(* testing it; a connection that is found broken is discarded when it is   *)
(* returned.  Every module with database work EXTENDS this one.            *)
(***************************************************************************)
EXTENDS Naturals, FiniteSets

CONSTANTS Requests,   \* the HTTP requests in flight, each one asyncio task
          Conns,      \* the slots of the pool: 1..db_pool_max_size
          Nobody      \* holder of a slot that is not borrowed

ASSUME NobodyAssumption == Nobody \notin Requests

VARIABLES
    holder,           \* holder[c]: the request that borrowed slot c
    waiting,          \* requests queued in getconn
    session,          \* session[c]: the server session behind slot c
    dbUp,             \* the server accepts connections
    committedWrite    \* history: some transaction that wrote was committed

poolVars == <<holder, waiting, session, dbUp, committedWrite>>
-----------------------------------------------------------------------------
(* Server sessions *)

Session ==
    [link     : {"closed", "up", "broken"},
     tx       : {"none", "open", "failed"},     \* failed: aborted by an error
     readOnly : BOOLEAN,                        \* SET TRANSACTION READ ONLY
     cap      : {"none", "local", "session"},   \* scope of statement_timeout
     wrote    : BOOLEAN]                        \* the transaction wrote a row

Idle(link) ==
    [link |-> link, tx |-> "none", readOnly |-> FALSE, cap |-> "none",
     wrote |-> FALSE]

(* COMMIT and ROLLBACK undo SET TRANSACTION and SET LOCAL, but not SET. *)
EndTx(s) ==
    [s EXCEPT !.tx = "none", !.readOnly = FALSE, !.wrote = FALSE,
              !.cap = IF @ = "local" THEN "none" ELSE @]

(* An error inside a transaction aborts it; a dead link has no transaction. *)
Aborted(s) == IF s.tx = "open" THEN [s EXCEPT !.tx = "failed"] ELSE s

Holds(r, c) == holder[c] = r
Live(c)     == session[c].link = "up"
Usable(c)   == Live(c) /\ session[c].tx # "failed"

(* One exchange with the server over slot c, which leaves its session at s. *)
Exchange(c, s) ==
    /\ session' = [session EXCEPT ![c] = s]
    /\ UNCHANGED <<holder, waiting, dbUp, committedWrite>>
-----------------------------------------------------------------------------
PoolInit ==
    /\ holder = [c \in Conns |-> Nobody]
    /\ waiting = {}
    /\ session = [c \in Conns |-> Idle("closed")]
    /\ dbUp \in BOOLEAN
    /\ committedWrite = FALSE

(* A background worker of the pool opens a slot. *)
Connect(c) ==
    /\ dbUp
    /\ session[c].link = "closed"
    /\ session' = [session EXCEPT ![c] = Idle("up")]
    /\ UNCHANGED <<holder, waiting, dbUp, committedWrite>>

(* The server stops: open transactions are gone and every link is dead, the *)
(* idle ones included, which the pool does not notice before their next use.*)
ServerStops ==
    /\ dbUp
    /\ dbUp' = FALSE
    /\ session' = [c \in Conns |-> IF session[c].link = "up"
                                   THEN Idle("broken") ELSE session[c]]
    /\ UNCHANGED <<holder, waiting, committedWrite>>

ServerStarts ==
    /\ ~dbUp
    /\ dbUp' = TRUE
    /\ UNCHANGED <<holder, waiting, session, committedWrite>>

Environment == ServerStops \/ ServerStarts \/ \E c \in Conns : Connect(c)

Available(c) == holder[c] = Nobody /\ session[c].link # "closed"

(* What getconn and putconn do, as parts of the callers' actions. *)
Enqueue(r) ==
    /\ waiting' = waiting \cup {r}
    /\ UNCHANGED <<holder, session, dbUp, committedWrite>>

Grant(r, c) ==
    /\ r \in waiting
    /\ Available(c)
    /\ waiting' = waiting \ {r}
    /\ holder' = [holder EXCEPT ![c] = r]
    /\ UNCHANGED <<session, dbUp, committedWrite>>

(* PoolTimeout: 30 seconds went by without an idle connection. *)
GiveUp(r) ==
    /\ r \in waiting
    /\ \A c \in Conns : ~Available(c)
    /\ waiting' = waiting \ {r}
    /\ UNCHANGED <<holder, session, dbUp, committedWrite>>

(* putconn ends a transaction left open and discards a dead connection. *)
Returned(s) == IF s.link = "up" THEN EndTx(s) ELSE Idle("closed")

Release(c) ==
    /\ holder' = [holder EXCEPT ![c] = Nobody]
    /\ session' = [session EXCEPT ![c] = Returned(@)]
    /\ UNCHANGED <<waiting, dbUp>>
-----------------------------------------------------------------------------
PoolTypeOK ==
    /\ holder \in [Conns -> Requests \cup {Nobody}]
    /\ waiting \subseteq Requests
    /\ session \in [Conns -> Session]
    /\ dbUp \in BOOLEAN
    /\ committedWrite \in BOOLEAN
=============================================================================
