----------------------- MODULE ConnectionPool_proofs ------------------------
(***************************************************************************)
(* Facts about the pool and the server sessions that the proofs about its  *)
(* users (SqlExecutor, SchemaProvider, Service) share.                     *)
(***************************************************************************)
EXTENDS ConnectionPool, TLAPS
-----------------------------------------------------------------------------
(* Sessions *)

(* A fresh session of any link state is well formed.                        *)
LEMMA IdleTyped ==
    ASSUME NEW link \in {"closed", "up", "broken"}
    PROVE  Idle(link) \in Session
  BY DEF Idle, Session

(* Its fields, for every link state.                                        *)
LEMMA IdleFields ==
    ASSUME NEW link
    PROVE  /\ Idle(link).link = link /\ Idle(link).tx = "none"
           /\ ~Idle(link).wrote /\ Idle(link).cap = "none"
  BY DEF Idle

(* What ends a transaction or a loan, and what an error does, yields a      *)
(* session; a slot comes back open only if its link was.                    *)
LEMMA ReturnedTyped ==
    ASSUME NEW s \in Session
    PROVE  /\ EndTx(s) \in Session /\ EndTx(s).link = s.link
           /\ Aborted(s) \in Session
           /\ Returned(s) \in Session
           /\ Returned(s).link = "up" => s.link = "up"
<1>1. EndTx(s) \in Session /\ EndTx(s).link = s.link
  BY DEF EndTx, Session
<1>2. Aborted(s) \in Session
  BY DEF Aborted, Session
<1>3. Returned(s) \in Session /\ (Returned(s).link = "up" => s.link = "up")
  BY <1>1, IdleTyped, IdleFields DEF Returned
<1>4. QED
  BY <1>1, <1>2, <1>3

(* A session the pool may keep: nothing is left of the last borrower.       *)
LEMMA ReturnedClean ==
    ASSUME NEW s \in Session, ~s.wrote, s.cap # "session"
    PROVE  /\ Returned(s) = Idle(Returned(s).link)
           /\ ~Returned(s).wrote /\ Returned(s).cap # "session"
<1>1. CASE s.link = "up"
  <2>1. /\ EndTx(s).link = "up" /\ EndTx(s).tx = "none" /\ ~EndTx(s).readOnly
        /\ EndTx(s).cap = "none" /\ ~EndTx(s).wrote
    BY <1>1 DEF EndTx, Session
  <2>2. EndTx(s) \in Session /\ Idle("up") \in Session
    BY ReturnedTyped, IdleTyped
  <2>3. EndTx(s) = Idle("up")
    BY <2>1, <2>2 DEF Idle, Session
  <2>4. QED
    BY <1>1, <2>3 DEF Returned, Idle
<1>2. CASE s.link # "up"
  BY <1>2 DEF Returned, Idle
<1>3. QED
  BY <1>1, <1>2
-----------------------------------------------------------------------------
(* Types *)

(* One exchange over a slot keeps the pool well formed.                     *)
LEMMA ExchangeTyped ==
    ASSUME PoolTypeOK, NEW c \in Conns, NEW s \in Session, Exchange(c, s)
    PROVE  PoolTypeOK'
  BY DEF PoolTypeOK, Exchange

(* Giving a slot back keeps the pool well formed.                           *)
LEMMA ReleaseTyped ==
    ASSUME PoolTypeOK, NEW c \in Conns, Release(c), committedWrite' \in BOOLEAN
    PROVE  PoolTypeOK'
<1>1. Returned(session[c]) \in Session
  BY ReturnedTyped DEF PoolTypeOK
<1>2. QED
  BY <1>1 DEF PoolTypeOK, Release

(* The environment keeps the pool well formed.                              *)
LEMMA EnvironmentTyped ==
    ASSUME PoolTypeOK, Environment
    PROVE  PoolTypeOK'
<1>1. Idle("up") \in Session /\ Idle("broken") \in Session
  BY IdleTyped
<1>2. CASE ServerStops
  BY <1>1, <1>2 DEF PoolTypeOK, ServerStops
<1>3. CASE ServerStarts
  BY <1>3 DEF PoolTypeOK, ServerStarts
<1>4. ASSUME NEW c \in Conns, Connect(c)
      PROVE  PoolTypeOK'
  BY <1>1, <1>4 DEF PoolTypeOK, Connect
<1>5. QED
  BY <1>2, <1>3, <1>4 DEF Environment

LEMMA PoolInitTyped == PoolInit => PoolTypeOK
<1>1. Idle("closed") \in Session
  BY IdleTyped
<1>2. QED
  BY <1>1 DEF PoolInit, PoolTypeOK
-----------------------------------------------------------------------------
(* Ownership: r is queued, holds a slot, one at most, or neither.           *)
OwnsAs(r, claimed) ==
    /\ r \in waiting <=> claimed = "queued"
    /\ claimed = "holding" <=> \E c \in Conns : Holds(r, c)
    /\ \A c, d \in Conns : Holds(r, c) /\ Holds(r, d) => c = d

(* What a step of somebody else leaves as it is.                            *)
Untouched(q) ==
    /\ q \in waiting' <=> q \in waiting
    /\ \A c \in Conns : Holds(q, c)' <=> Holds(q, c)

LEMMA UntouchedOwns ==
    ASSUME NEW q \in Requests, NEW claimed, Untouched(q), OwnsAs(q, claimed)
    PROVE  OwnsAs(q, claimed)'
  BY DEF Untouched, OwnsAs

LEMMA EnqueueMoves ==
    ASSUME PoolTypeOK, NEW r \in Requests, Enqueue(r), OwnsAs(r, "none")
    PROVE  /\ PoolTypeOK' /\ OwnsAs(r, "queued")'
           /\ \A q \in Requests : q # r => Untouched(q)
<1>1. PoolTypeOK'
  BY DEF PoolTypeOK, Enqueue
<1>2. QED
  BY <1>1 DEF Enqueue, OwnsAs, Untouched, Holds

LEMMA GrantMoves ==
    ASSUME PoolTypeOK, NEW r \in Requests, NEW c \in Conns, Grant(r, c),
           OwnsAs(r, "queued")
    PROVE  /\ PoolTypeOK' /\ OwnsAs(r, "holding")'
           /\ \A q \in Requests : q # r => Untouched(q)
<1>1. PoolTypeOK'
  BY DEF PoolTypeOK, Grant
<1>2. /\ holder'[c] = r /\ holder[c] = Nobody
      /\ \A d \in Conns : d # c => holder'[d] = holder[d]
  BY DEF PoolTypeOK, Grant, Available
<1>3. OwnsAs(r, "holding")'
  BY <1>2 DEF Grant, OwnsAs, Holds
<1>4. \A q \in Requests : q # r => Untouched(q)
  BY <1>2, NobodyAssumption DEF Grant, Untouched, Holds
<1>5. QED
  BY <1>1, <1>3, <1>4

LEMMA GiveUpMoves ==
    ASSUME PoolTypeOK, NEW r \in Requests, GiveUp(r), OwnsAs(r, "queued")
    PROVE  /\ PoolTypeOK' /\ OwnsAs(r, "none")'
           /\ \A q \in Requests : q # r => Untouched(q)
<1>1. PoolTypeOK'
  BY DEF PoolTypeOK, GiveUp
<1>2. QED
  BY <1>1 DEF GiveUp, OwnsAs, Untouched, Holds

LEMMA ReleaseMoves ==
    ASSUME PoolTypeOK, NEW r \in Requests, NEW c \in Conns, Holds(r, c), Release(c),
           committedWrite' \in BOOLEAN, OwnsAs(r, "holding")
    PROVE  /\ PoolTypeOK' /\ OwnsAs(r, "none")'
           /\ \A q \in Requests : q # r => Untouched(q)
<1>1. PoolTypeOK'
  BY ReleaseTyped
<1>2. /\ holder'[c] = Nobody /\ holder[c] = r
      /\ \A d \in Conns : d # c => holder'[d] = holder[d]
  BY DEF PoolTypeOK, Release, Holds
<1>3. OwnsAs(r, "none")'
  BY <1>2, NobodyAssumption DEF Release, OwnsAs, Holds
<1>4. \A q \in Requests : q # r => Untouched(q)
  BY <1>2, NobodyAssumption DEF Release, Untouched, Holds
<1>5. QED
  BY <1>1, <1>3, <1>4

LEMMA EnvironmentMoves ==
    ASSUME PoolTypeOK, Environment
    PROVE  PoolTypeOK' /\ \A q \in Requests : Untouched(q)
<1>1. UNCHANGED <<holder, waiting>>
  BY DEF Environment, ServerStops, ServerStarts, Connect
<1>2. QED
  BY <1>1, EnvironmentTyped DEF Untouched, Holds

LEMMA NobodyOwns == PoolInit => \A r \in Requests : OwnsAs(r, "none")
  BY NobodyAssumption DEF PoolInit, OwnsAs, Holds
-----------------------------------------------------------------------------
(* No link is up while the server is down, whatever the pool believes.      *)
LinksServed == \A c \in Conns : Live(c) => dbUp

LEMMA LinksServedKept ==
    ASSUME PoolTypeOK, LinksServed
    PROVE  /\ Environment => LinksServed'
           /\ \A r \in Requests : Enqueue(r) \/ GiveUp(r) => LinksServed'
           /\ \A r \in Requests, c \in Conns : Grant(r, c) \/ Release(c) => LinksServed'
           /\ UNCHANGED <<session, dbUp>> => LinksServed'
<1>1. UNCHANGED <<session, dbUp>> => LinksServed'
  BY DEF LinksServed, Live
<1>2. ASSUME NEW c \in Conns, Release(c)
      PROVE  LinksServed'
  <2>1. /\ session'[c] = Returned(session[c])
        /\ \A d \in Conns : d # c => session'[d] = session[d]
        /\ dbUp' = dbUp
    BY <1>2 DEF PoolTypeOK, Release
  <2>2. session[c] \in Session
    BY DEF PoolTypeOK
  <2>3. QED
    BY <2>1, <2>2, ReturnedTyped DEF LinksServed, Live
<1>3. ASSUME Environment
      PROVE  LinksServed'
  <2>1. CASE ServerStops
    BY <2>1, IdleFields DEF ServerStops, LinksServed, Live
  <2>2. CASE ServerStarts
    BY <2>2 DEF ServerStarts, LinksServed, Live
  <2>3. CASE \E c \in Conns : Connect(c)
    BY <2>3 DEF Connect, LinksServed, Live
  <2>4. QED
    BY <1>3, <2>1, <2>2, <2>3 DEF Environment
<1>4. QED
  BY <1>1, <1>2, <1>3 DEF Enqueue, GiveUp, Grant
=============================================================================
