------------------------------ MODULE SqlGuard ------------------------------
(***************************************************************************)
(* SqlGlotGuard.validate (infrastructure/sql/guard.py): the policy that    *)
(* decides which of the texts the model wrote may reach the database, and  *)
(* under which LIMIT.  A text is its lines and what sqlglot, which is not  *)
(* part of the repository, parses the code lines to.                       *)
(* X_Y marked "slip" is X with a mistake the properties must notice.       *)
(***************************************************************************)
EXTENDS Integers, SequencesExt

CONSTANTS
    QualityStrict,                       \* quality_strict
    QualityMaxJoins,                     \* max_joins, as configured
    QualityMaxSubqueries,                \* max_subqueries, as configured
    DisallowStarWithJoin,                \* disallow_select_star_with_join
    NoLimit,                             \* the query has no LIMIT
    OddLimit                             \* a LIMIT or FETCH that is no literal

ASSUME GuardAssumption ==
    /\ QualityStrict \in BOOLEAN /\ DisallowStarWithJoin \in BOOLEAN
    /\ QualityMaxJoins \in Int /\ QualityMaxSubqueries \in Int
    /\ NoLimit \notin Nat /\ OddLimit \notin Nat

Line == {"fence", "code", "blank"}       \* fence: starts with ```

Query == [stmts : Nat,                   \* statements sqlglot found
          root : {"select", "other"},    \* type of the first
          forbidden : BOOLEAN,           \* one of _FORBIDDEN_NODES in its tree
          joins : Nat, subqueries : Nat, star : BOOLEAN,
          limit : Nat \cup {NoLimit, OddLimit}]
Text == [lines : Seq(Line), parses : BOOLEAN, query : Query]
-----------------------------------------------------------------------------
(* str.strip(), at the grain of lines. *)
Stripped(lines) ==
    LET kept == {i \in DOMAIN lines : lines[i] # "blank"}
    IN  IF kept = {} THEN <<>> ELSE SubSeq(lines, Min(kept), Max(kept))

Unfenced_NoTail(lines) ==                                  \* slip: closing fence kept
    LET text == Stripped(lines)
    IN  Stripped(IF text # <<>> /\ Head(text) = "fence" THEN Tail(text) ELSE text)
Unfenced_Always(lines) ==                                  \* slip: first line dropped
    LET text == Stripped(lines)
    IN  IF text = <<>> THEN text ELSE Stripped(Tail(text))
(* _strip_markdown, then the .strip() of validate. *)
Unfenced(lines) ==
    LET text == Stripped(lines)
        rest == Tail(text)
    IN  Stripped(CASE text = <<>> \/ Head(text) # "fence" -> text
                   [] Head(text) = "fence" /\ rest # <<>> /\ Last(rest) = "fence"
                        -> Front(rest)
                   [] OTHER -> rest)

AtLeastZero(n) == IF n < 0 THEN 0 ELSE n

QualityFaults_NoSubqueries(q) ==                           \* slip: bound not checked
    {fault \in {"joins", "star"} :
        \/ fault = "joins" /\ q.joins > AtLeastZero(QualityMaxJoins)
        \/ fault = "star" /\ DisallowStarWithJoin /\ q.joins > 0 /\ q.star}
QualityFaults(q) ==
    {fault \in {"joins", "subqueries", "star"} :
        \/ fault = "joins" /\ q.joins > AtLeastZero(QualityMaxJoins)
        \/ fault = "subqueries" /\ q.subqueries > AtLeastZero(QualityMaxSubqueries)
        \/ fault = "star" /\ DisallowStarWithJoin /\ q.joins > 0 /\ q.star}

(* The first objection of validate, or "ok".  A fence left in the text is no  *)
(* token of SQL, so that the parse fails.                                     *)
Verdict(text) ==
    LET body == Unfenced(text.lines)
        q == text.query
    IN  IF body = <<>> THEN "empty"
        ELSE IF ~text.parses \/ Contains(body, "fence") THEN "unparsable"
        ELSE IF q.stmts # 1 THEN "not_single"
        ELSE IF q.root # "select" THEN "not_select"
        ELSE IF q.forbidden THEN "forbidden"
        ELSE IF QualityStrict /\ QualityFaults(q) # {} THEN "quality"
        ELSE "ok"

CappedLimit_IfAbsent(limit, maxRows) ==                    \* slip: trusts any LIMIT
    IF limit \in Nat THEN limit ELSE maxRows
CappedLimit_Always(limit, maxRows) == maxRows              \* slip: raises small LIMITs
(* _apply_limit *)
CappedLimit(limit, maxRows) ==
    IF limit \in Nat /\ limit <= maxRows THEN limit ELSE maxRows

(* statement.sql(): one statement, without fences. *)
SafeText(text, maxRows) ==
    [text EXCEPT !.lines = <<"code">>,
                 !.query.limit = CappedLimit(@, maxRows)]

Answer(verdict, text) == [verdict |-> verdict, sql |-> text]

Validate(text, maxRows) ==
    IF Verdict(text) = "ok" THEN Answer("ok", SafeText(text, maxRows))
                            ELSE Answer(Verdict(text), text)

Verdicts == {"ok", "empty", "unparsable", "not_single", "not_select",
             "forbidden", "quality"}
=============================================================================
