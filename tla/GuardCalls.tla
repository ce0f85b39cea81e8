----------------------------- MODULE GuardCalls -----------------------------
(***************************************************************************)
(* One call of SqlGlotGuard.validate, for every text and row cap of a set, *)
(* and what the callers rely on.                                           *)
(***************************************************************************)
EXTENDS SqlGuard

CONSTANTS Texts, Caps      \* the texts and max_rows validate is called with

ASSUME InputsAssumption == Texts \subseteq Text /\ Caps \subseteq Nat

VARIABLES given, cap, answer

guardVars == <<given, cap, answer>>

GuardInit == given \in Texts /\ cap \in Caps /\ answer = Answer("pending", given)

Decide ==
    /\ answer.verdict = "pending"
    /\ answer' = Validate(given, cap)
    /\ UNCHANGED <<given, cap>>

GuardSpec == GuardInit /\ [][Decide]_guardVars
-----------------------------------------------------------------------------
(* Properties *)

Accepted == answer.verdict = "ok"

(* Whatever the text, what validate returns is one SELECT without a forbidden *)
(* node, inside the quality policy when that is strict, and it can return no  *)
(* more than max_rows rows.                                                   *)
AcceptedIsConfined ==
    Accepted => LET q == answer.sql.query
                IN  /\ q.stmts = 1 /\ q.root = "select" /\ ~q.forbidden
                    /\ q.limit \in 0..cap
                    /\ QualityStrict => /\ q.joins <= AtLeastZero(QualityMaxJoins)
                                        /\ q.subqueries <= AtLeastZero(QualityMaxSubqueries)
                                        /\ DisallowStarWithJoin /\ q.star => q.joins = 0

(* What was accepted would be accepted again and not change any more.         *)
RevalidationStable == Accepted => Validate(answer.sql, cap) = answer

(* Wrapping a text into a Markdown fence, closed or not, changes nothing.     *)
FencesTransparent ==
    ~Contains(given.lines, "fence") =>
        \A tail \in {<<>>, <<"fence">>} :
            LET fenced == [given EXCEPT !.lines = <<"fence">> \o @ \o tail]
            IN  /\ Verdict(fenced) = Verdict(given)
                /\ Verdict(given) = "ok" =>
                       Validate(fenced, cap) = Validate(given, cap)
=============================================================================
