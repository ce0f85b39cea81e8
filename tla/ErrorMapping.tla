---------------------------- MODULE ErrorMapping ----------------------------
(***************************************************************************)
(* How a domain exception becomes an HTTP status (api/errors.py): the      *)
(* status of the mapped class that comes first in the exception's MRO.     *)
(***************************************************************************)
EXTENDS Naturals, FiniteSetsExt

(* Method resolution orders of domain/exceptions.py, up to AssistantError. *)
Mro == [LLMUnavailableError    |-> <<"LLMUnavailableError", "LLMError", "AssistantError">>,
        LLMResponseError       |-> <<"LLMResponseError", "LLMError", "AssistantError">>,
        UnsafeSqlError         |-> <<"UnsafeSqlError", "AssistantError">>,
        QueryExecutionError    |-> <<"QueryExecutionError", "DatabaseError", "AssistantError">>,
        QueryTimeoutError      |-> <<"QueryTimeoutError", "DatabaseError", "AssistantError">>,
        QueryCostExceededError |-> <<"QueryCostExceededError", "DatabaseError", "AssistantError">>,
        SchemaUnavailableError |-> <<"SchemaUnavailableError", "DatabaseError", "AssistantError">>]

(* The class attribute "code" of each exception that is raised. *)
ClassOf == [llm_unavailable        |-> "LLMUnavailableError",
            llm_bad_response       |-> "LLMResponseError",
            unsafe_sql             |-> "UnsafeSqlError",
            query_execution_failed |-> "QueryExecutionError",
            query_timeout          |-> "QueryTimeoutError",
            query_cost_exceeded    |-> "QueryCostExceededError",
            schema_unavailable     |-> "SchemaUnavailableError"]

(* _STATUS_MAP *)
StatusMap == [UnsafeSqlError |-> 422, QueryCostExceededError |-> 422,
              LLMResponseError |-> 502, LLMError |-> 503,
              QueryTimeoutError |-> 504, SchemaUnavailableError |-> 503,
              DatabaseError |-> 422]

Matching(class) == {i \in DOMAIN Mro[class] : Mro[class][i] \in DOMAIN StatusMap}

ClassStatus_LastMatch(class) ==                            \* slip: most general class
    IF Matching(class) = {} THEN 400 ELSE StatusMap[Mro[class][Max(Matching(class))]]
(* _status_for *)
ClassStatus(class) ==
    IF Matching(class) = {} THEN 400 ELSE StatusMap[Mro[class][Min(Matching(class))]]

(* Anything that is no AssistantError goes to the catch-all handler. *)
Status(code) ==
    IF code \in DOMAIN ClassOf THEN ClassStatus(ClassOf[code]) ELSE 500
=============================================================================
