------------------------------- MODULE DbCall -------------------------------
(***************************************************************************)
(* The contract of a port call that borrows a connection: abstract from    *)
(* transactions, sessions, outages and retries, a call queues, owns one    *)
(* slot, gives it back and answers, or answers without ever owning one.    *)
(* SqlExecutor and SchemaProvider implement it; AskQuestion composes it.   *)
(***************************************************************************)
CONSTANTS
    Callers, Slots, Nobody,
    Answers(_),       \* Answers(a): what a call with argument a may answer
    Refusal           \* the answer when no connection can be had

VARIABLES
    phase,            \* phase[r]: idle, queued, holding or done
    arg,              \* arg[r]: the argument of r's call
    result,           \* result[r]: its answer
    holder            \* holder[c]: the caller that owns slot c

callVars == <<phase, arg, result>>

Step(r, from, to) ==
    /\ phase[r] = from
    /\ phase' = [phase EXCEPT ![r] = to]

Call(r, a) ==
    /\ Step(r, "idle", "queued")
    /\ arg' = [arg EXCEPT ![r] = a]
    /\ UNCHANGED <<result, holder>>

(* Only for an adapter that keeps a copy of the answer. *)
AnswerFromMemory(r, a, answer) ==
    /\ Step(r, "idle", "done")
    /\ arg' = [arg EXCEPT ![r] = a]
    /\ result' = [result EXCEPT ![r] = answer]
    /\ UNCHANGED holder

Acquire(r, c) ==
    /\ Step(r, "queued", "holding")
    /\ holder[c] = Nobody
    /\ holder' = [holder EXCEPT ![c] = r]
    /\ UNCHANGED <<arg, result>>

Refuse(r) ==
    /\ Step(r, "queued", "done")
    /\ result' = [result EXCEPT ![r] = Refusal]
    /\ UNCHANGED <<arg, holder>>

Return_NoPutconn(r, c) ==                                  \* slip: slot kept
    /\ Step(r, "holding", "done")
    /\ holder[c] = r
    /\ \E answer \in Answers(arg[r]) : result' = [result EXCEPT ![r] = answer]
    /\ UNCHANGED <<arg, holder>>
Return(r, c) ==
    /\ Step(r, "holding", "done")
    /\ holder[c] = r
    /\ holder' = [holder EXCEPT ![c] = Nobody]
    /\ \E answer \in Answers(arg[r]) : result' = [result EXCEPT ![r] = answer]
    /\ UNCHANGED arg

Serve(r) == Refuse(r) \/ \E c \in Slots : Acquire(r, c) \/ Return(r, c)
=============================================================================
