--------------------------- MODULE MCAskQuestion ----------------------------
(* An LLM that writes a statement without a LIMIT, one with a LIMIT within    *)
(* every cap, one that the guard accepts although it would write, with a      *)
(* LIMIT above the default cap, a forbidden one and prose that is no SQL;     *)
(* requests without a cap and above the server's limit.                       *)
EXTENDS AskQuestion

MCSelect == [stmts |-> 1, root |-> "select", forbidden |-> FALSE, joins |-> 0,
             subqueries |-> 0, star |-> FALSE, limit |-> NoLimit]
MCText(query) == [lines |-> <<"code">>, parses |-> TRUE, query |-> query]

MCGenerated ==
    {[text |-> MCText([MCSelect EXCEPT !.limit = l]), writes |-> FALSE] :
        l \in {NoLimit, 1}}
    \cup
    {[text |-> MCText([MCSelect EXCEPT !.limit = 3]), writes |-> TRUE],
     [text |-> MCText([MCSelect EXCEPT !.forbidden = TRUE]), writes |-> TRUE],
     [text |-> [MCText(MCSelect) EXCEPT !.parses = FALSE], writes |-> FALSE]}
=============================================================================
