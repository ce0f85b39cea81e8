------------------------------ MODULE AskCall -------------------------------
(***************************************************************************)
(* What POST /ask does with the resources it shares, abstract from SQL,    *)
(* prompts and attempts: at most two calls of the database, before and     *)
(* after the generation, each with one slot that is given back before the  *)
(* request goes on, and one answer.  AskQuestion implements it, Service    *)
(* composes it with the pool, the middlewares and the lifespan.            *)
(***************************************************************************)
CONSTANTS Callers, Slots, Nobody

VARIABLES
    stage,            \* stage[r]: new, schema, generating, query or answered
    claim,            \* claim[r]: none, queued or holding a slot
    holder            \* holder[c]: the caller that owns slot c

askCallVars == <<stage, claim>>

Stages == {"new", "schema", "generating", "query", "answered"}

(* What the client may be told at each stage; 500 stands for an exception     *)
(* that is no AssistantError.                                                 *)
Statuses(s) == CASE s = "schema" -> {503}
                 [] s = "generating" -> {422, 500, 502, 503}
                 [] s = "query" -> {200, 422, 504}
                 [] OTHER -> {}

AskCallInit ==
    /\ stage = [r \in Callers |-> "new"]
    /\ claim = [r \in Callers |-> "none"]

Enter(r, from, to, c) ==
    /\ stage[r] = from /\ claim[r] = "none"
    /\ stage' = [stage EXCEPT ![r] = to]
    /\ claim' = [claim EXCEPT ![r] = c]
    /\ UNCHANGED holder

(* The schema may be in memory.                                               *)
LoadSchema(r) == \E c \in {"queued", "none"} : Enter(r, "new", "schema", c)
Generate(r) == Enter(r, "schema", "generating", "none")
RunQuery(r) == Enter(r, "generating", "query", "queued")

Claim(r, from, to) ==
    /\ claim[r] = from
    /\ claim' = [claim EXCEPT ![r] = to]
    /\ UNCHANGED stage

Borrow(r, c) ==
    /\ Claim(r, "queued", "holding")
    /\ holder[c] = Nobody
    /\ holder' = [holder EXCEPT ![c] = r]

Refused(r) == Claim(r, "queued", "none") /\ UNCHANGED holder

GiveBack(r, c) ==
    /\ Claim(r, "holding", "none")
    /\ holder[c] = r
    /\ holder' = [holder EXCEPT ![c] = Nobody]

Answer(r, status) ==
    /\ claim[r] = "none"
    /\ status \in Statuses(stage[r])
    /\ stage' = [stage EXCEPT ![r] = "answered"]
    /\ UNCHANGED <<claim, holder>>

Takes(r) == \/ LoadSchema(r) \/ Generate(r) \/ RunQuery(r) \/ Refused(r)
            \/ \E c \in Slots : Borrow(r, c) \/ GiveBack(r, c)
=============================================================================
