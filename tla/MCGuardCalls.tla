---------------------------- MODULE MCGuardCalls ----------------------------
(* All texts of up to four lines that hold the simplest query, and a one-line *)
(* text for every query around each bound of the policy.                      *)
EXTENDS GuardCalls

MCLimits == {NoLimit, OddLimit, 0, 1, 2, 3}
Plain == [stmts |-> 1, root |-> "select", forbidden |-> FALSE, joins |-> 0,
          subqueries |-> 0, star |-> FALSE, limit |-> NoLimit]
MCQueries == [stmts : 0..2, root : {"select", "other"}, forbidden : BOOLEAN,
              joins : 0..2, subqueries : 0..1, star : BOOLEAN, limit : MCLimits]

MCBelowZero == -1         \* a max_subqueries that max(0, ...) lifts to 0

MCTexts ==
    [lines : UNION {[1..n -> Line] : n \in 0..4}, parses : {TRUE}, query : {Plain}]
    \cup [lines : {<<"code">>, <<"fence", "code", "fence">>}, parses : BOOLEAN,
          query : MCQueries]
=============================================================================
