------------------------- MODULE AskQuestion_proofs -------------------------
(***************************************************************************)
(* The guard: what SqlGlotGuard.validate promises for every text, every    *)
(* row cap and every quality policy, and how it strips the fences a model  *)
(* writes.  The use case that trusts it: what holds of                     *)
(* AskQuestionUseCase.execute for any number of requests and connections,  *)
(* any attempts, caps and quality policy, and any texts of the LLM.        *)
(***************************************************************************)
EXTENDS AskQuestion, GuardCalls, SequenceTheorems, WellFoundedInduction, TLAPS
-----------------------------------------------------------------------------
(* _apply_limit returns a literal LIMIT within the cap.                     *)
LEMMA CappedLimitBounds ==
    ASSUME NEW limit \in Nat \cup {NoLimit, OddLimit}, NEW maxRows \in Nat
    PROVE  CappedLimit(limit, maxRows) \in 0..maxRows
  BY DEF CappedLimit

(* An accepted text is one SELECT without a forbidden node, and without a   *)
(* quality fault when the policy is strict.                                 *)
LEMMA VerdictOk ==
    ASSUME NEW text \in Text, Verdict(text) = "ok"
    PROVE  /\ text.query.stmts = 1 /\ text.query.root = "select"
           /\ ~text.query.forbidden
           /\ QualityStrict => QualityFaults(text.query) = {}
<1>1. text.query \in Query
  BY DEF Text
<1>2. QED
  BY <1>1, GuardAssumption DEF Verdict, Query

(* No quality fault means the bounds of the policy are kept.                *)
LEMMA QualityBounds ==
    ASSUME NEW q \in Query, QualityFaults(q) = {}
    PROVE  /\ q.joins <= AtLeastZero(QualityMaxJoins)
           /\ q.subqueries <= AtLeastZero(QualityMaxSubqueries)
           /\ DisallowStarWithJoin /\ q.star => q.joins = 0
<1>1. /\ q.joins \in Nat /\ q.subqueries \in Nat
      /\ AtLeastZero(QualityMaxJoins) \in Nat /\ AtLeastZero(QualityMaxSubqueries) \in Nat
  BY GuardAssumption DEF Query, AtLeastZero
<1>2. ~(q.joins > AtLeastZero(QualityMaxJoins))
  BY DEF QualityFaults
<1>3. ~(q.subqueries > AtLeastZero(QualityMaxSubqueries))
  BY DEF QualityFaults
<1>4. ~(DisallowStarWithJoin /\ q.joins > 0 /\ q.star)
  BY DEF QualityFaults
<1>5. QED
  BY <1>1, <1>2, <1>3, <1>4

(* What validate returns for an accepted text: the same query, but for its  *)
(* LIMIT.                                                                   *)
LEMMA SafeQuery ==
    ASSUME NEW text \in Text, NEW maxRows \in Nat
    PROVE  LET q == SafeText(text, maxRows).query
           IN  /\ q.stmts = text.query.stmts /\ q.root = text.query.root
               /\ q.forbidden = text.query.forbidden /\ q.joins = text.query.joins
               /\ q.subqueries = text.query.subqueries
               /\ q.star = text.query.star
               /\ q.limit = CappedLimit(text.query.limit, maxRows)
  BY DEF SafeText, Text, Query
-----------------------------------------------------------------------------
(* A call is pending or has answered what validate returns for its input.   *)
GuardInv ==
    /\ given \in Text /\ cap \in Nat
    /\ \/ answer = Answer("pending", given)
       \/ answer = Validate(given, cap)

(* The initial states and every step establish it.                          *)
LEMMA GuardInvariant == GuardSpec => []GuardInv
<1>1. GuardInit => GuardInv
  BY InputsAssumption DEF GuardInit, GuardInv
<1>2. GuardInv /\ [Decide]_guardVars => GuardInv'
  <2> SUFFICES ASSUME GuardInv, [Decide]_guardVars PROVE GuardInv'
    OBVIOUS
  <2>1. CASE Decide
    BY <2>1 DEF Decide, GuardInv
  <2>2. CASE UNCHANGED guardVars
    BY <2>2 DEF guardVars, GuardInv
  <2>3. QED
    BY <2>1, <2>2
<1>3. QED
  BY <1>1, <1>2, PTL DEF GuardSpec

(* In a state of the invariant, an accepted answer is the safe text of an   *)
(* input the guard found nothing against.                                   *)
LEMMA AcceptedAnswer ==
    ASSUME GuardInv, Accepted
    PROVE  Verdict(given) = "ok" /\ answer.sql = SafeText(given, cap)
<1>1. answer = Validate(given, cap)
  BY DEF GuardInv, Accepted, Answer
<1>2. QED
  BY <1>1 DEF Accepted, Validate, Answer

(* Whatever the model wrote, what the guard lets through is one SELECT that *)
(* holds no forbidden node, keeps to the joins, subqueries and star of the  *)
(* policy when that is strict, and is capped.                               *)
THEOREM Confined == GuardSpec => []AcceptedIsConfined
<1>1. GuardInv => AcceptedIsConfined
  <2> SUFFICES ASSUME GuardInv, Accepted PROVE AcceptedIsConfined
    BY DEF AcceptedIsConfined
  <2>1. given \in Text /\ cap \in Nat /\ given.query \in Query
    BY DEF GuardInv, Text
  <2>2. Verdict(given) = "ok" /\ answer.sql = SafeText(given, cap)
    BY AcceptedAnswer
  <2>3. /\ given.query.stmts = 1 /\ given.query.root = "select"
        /\ ~given.query.forbidden
        /\ QualityStrict =>
              /\ given.query.joins <= AtLeastZero(QualityMaxJoins)
              /\ given.query.subqueries <= AtLeastZero(QualityMaxSubqueries)
              /\ DisallowStarWithJoin /\ given.query.star => given.query.joins = 0
    BY <2>1, <2>2, VerdictOk, QualityBounds
  <2>4. answer.sql.query.limit \in 0..cap
    <3>1. given.query.limit \in Nat \cup {NoLimit, OddLimit}
      BY <2>1 DEF Query
    <3>2. answer.sql.query.limit = CappedLimit(given.query.limit, cap)
      BY <2>1, <2>2, SafeQuery
    <3>3. CappedLimit(given.query.limit, cap) \in 0..cap
      BY <2>1, <3>1, CappedLimitBounds
    <3>4. QED
      BY <3>2, <3>3
  <2>5. QED
    BY <2>1, <2>2, <2>3, <2>4, SafeQuery DEF AcceptedIsConfined
<1>2. QED
  BY <1>1, GuardInvariant, PTL
-----------------------------------------------------------------------------
(* The lines that are kept.  A set of line numbers that is not empty has a  *)
(* least and a greatest member: no induction principle is needed, since <   *)
(* on the natural numbers is well-founded.                                  *)
LEMMA LeastOf ==
    ASSUME NEW S, S \subseteq Nat, S # {}
    PROVE  Min(S) \in S /\ \A n \in S : Min(S) <= n
<1>1. PICK m \in S : \A n \in S : ~(<<n, m>> \in OpToRel(<, Nat))
  BY NatLessThanWellFounded, WFMin
<1>2. ASSUME NEW n \in S
      PROVE  m <= n
  <2>1. ~(<<n, m>> \in {pair \in Nat \X Nat : pair[1] < pair[2]})
    BY <1>1 DEF OpToRel
  <2>2. n \in Nat /\ m \in Nat /\ ~(n < m)
    BY <2>1
  <2>3. QED
    BY <2>2
<1>3. QED
  BY <1>2 DEF Min

LEMMA GreatestOf ==
    ASSUME NEW k \in Nat, NEW S, S \subseteq 1..k, S # {}
    PROVE  Max(S) \in S /\ \A n \in S : Max(S) >= n
<1> DEFINE T == {k - n : n \in S}
<1>1. T \subseteq Nat /\ T # {}
  OBVIOUS
<1>2. Min(T) \in T /\ \A t \in T : Min(T) <= t
  BY <1>1, LeastOf
<1>3. PICK m \in S : Min(T) = k - m
  BY <1>2
<1>4. \A n \in S : m >= n
  <2> SUFFICES ASSUME NEW n \in S PROVE m >= n
    OBVIOUS
  <2>1. k - m <= k - n
    BY <1>2, <1>3
  <2>2. m \in Nat /\ n \in Nat
    OBVIOUS
  <2>3. QED
    BY <2>1, <2>2
<1>5. QED
  BY <1>4 DEF Max

(* A least and a greatest member are the least and the greatest.            *)
LEMMA MinIs ==
    ASSUME NEW S, S \subseteq Nat, NEW m \in S, \A n \in S : m <= n
    PROVE  Min(S) = m
<1>1. Min(S) \in S /\ Min(S) <= m
  BY LeastOf
<1>2. m <= Min(S) /\ m \in Nat /\ Min(S) \in Nat
  BY <1>1
<1>3. QED
  BY <1>1, <1>2

LEMMA MaxIs ==
    ASSUME NEW k \in Nat, NEW S, S \subseteq 1..k, NEW m \in S, \A n \in S : n <= m
    PROVE  Max(S) = m
<1>1. Max(S) \in S /\ Max(S) >= m
  BY GreatestOf
<1>2. Max(S) \in 1..k /\ m \in 1..k
  BY <1>1
<1>3. Max(S) <= m /\ m \in Nat /\ Max(S) \in Nat
  BY <1>1, <1>2
<1>4. QED
  BY <1>1, <1>3

Kept(lines) == {i \in DOMAIN lines : lines[i] # "blank"}

LEMMA StrippedIs ==
    ASSUME NEW lines \in Seq(Line)
    PROVE  /\ Kept(lines) \subseteq 1..Len(lines)
           /\ Kept(lines) = {} => Stripped(lines) = <<>>
           /\ Kept(lines) # {} =>
                  Stripped(lines) = SubSeq(lines, Min(Kept(lines)), Max(Kept(lines)))
<1>1. DOMAIN lines = 1..Len(lines)
  BY LenProperties
<1>2. Stripped(lines) = IF Kept(lines) = {} THEN <<>>
                        ELSE SubSeq(lines, Min(Kept(lines)), Max(Kept(lines)))
  BY DEF Kept, Stripped
<1>3. QED
  BY <1>1, <1>2 DEF Kept

(* A text whose ends are not blank is stripped already.                     *)
LEMMA StrippedAlready ==
    ASSUME NEW lines \in Seq(Line), lines # <<>>,
           lines[1] # "blank", lines[Len(lines)] # "blank"
    PROVE  Stripped(lines) = lines
<1>1. Len(lines) \in Nat /\ Len(lines) >= 1 /\ DOMAIN lines = 1..Len(lines)
  BY EmptySeq, LenProperties
<1>2. /\ Kept(lines) \subseteq 1..Len(lines) /\ 1 \in Kept(lines)
      /\ Len(lines) \in Kept(lines)
  BY <1>1 DEF Kept
<1>3. Min(Kept(lines)) = 1
  BY <1>1, <1>2, MinIs
<1>4. Max(Kept(lines)) = Len(lines)
  BY <1>1, <1>2, MaxIs
<1>5. SubSeq(lines, 1, Len(lines)) = lines
  BY SubSeqFull
<1>6. QED
  BY <1>2, <1>3, <1>4, <1>5, StrippedIs

(* What is stripped has no blank end and no line the text has not.          *)
LEMMA StrippedEnds ==
    ASSUME NEW lines \in Seq(Line), Kept(lines) # {}
    PROVE  /\ Stripped(lines) \in Seq(Line) /\ Stripped(lines) # <<>>
           /\ Stripped(lines)[1] # "blank"
           /\ Stripped(lines)[Len(Stripped(lines))] # "blank"
           /\ \A i \in 1..Len(Stripped(lines)) : \E j \in 1..Len(lines) :
                  Stripped(lines)[i] = lines[j]
<1> DEFINE K == Kept(lines)
           m == Min(K)
           n == Max(K)
           s == Stripped(lines)
<1>1. K \subseteq 1..Len(lines) /\ Len(lines) \in Nat /\ K \subseteq Nat
  BY StrippedIs, LenProperties
<1>2. /\ m \in K /\ n \in K /\ m <= n
      /\ m \in 1..Len(lines) /\ n \in 1..Len(lines)
  BY <1>1, LeastOf, GreatestOf
<1>3. lines[m] # "blank" /\ lines[n] # "blank"
  BY <1>2 DEF Kept
<1>4. s = SubSeq(lines, m, n)
  BY StrippedIs
<1> HIDE DEF K, m, n, s
<1>5. /\ s \in Seq(Line) /\ Len(s) = n - m + 1
      /\ \A i \in 1..(n - m + 1) : s[i] = lines[m + i - 1]
  BY <1>1, <1>2, <1>4, SubSeqProperties
<1>6. n - m + 1 \in Nat /\ n - m + 1 >= 1 /\ m + 1 - 1 = m /\ m + (n - m + 1) - 1 = n
  BY <1>1, <1>2
<1>7. s # <<>> /\ s[1] = lines[m] /\ s[Len(s)] = lines[n]
  BY <1>5, <1>6, EmptySeq
<1>8. \A i \in 1..Len(s) : m + i - 1 \in 1..Len(lines) /\ s[i] = lines[m + i - 1]
  BY SMTT(30), <1>1, <1>2, <1>5
<1>9. QED
  BY <1>3, <1>5, <1>7, <1>8 DEF s

LEMMA StrippedTwice ==
    ASSUME NEW lines \in Seq(Line)
    PROVE  Stripped(Stripped(lines)) = Stripped(lines)
<1>1. CASE Kept(lines) = {}
  <2>1. Stripped(lines) = <<>>
    BY <1>1, StrippedIs
  <2>2. <<>> \in Seq(Line) /\ Kept(<<>>) \subseteq 1..Len(<<>>) /\ Len(<<>>) = 0
    BY EmptySeq, StrippedIs
  <2>3. Stripped(<<>>) = <<>>
    <3>1. Kept(<<>>) = {}
      BY <2>2
    <3>2. QED
      BY <2>2, <3>1, StrippedIs
  <2>4. QED
    BY <2>1, <2>3
<1>2. CASE Kept(lines) # {}
  BY <1>2, StrippedEnds, StrippedAlready
<1>3. QED
  BY <1>1, <1>2

(* A text whose first line is no fence is only stripped.                    *)
LEMMA UnfencedPlain ==
    ASSUME NEW lines \in Seq(Line), ~Contains(Stripped(lines), "fence")
    PROVE  Unfenced(lines) = Stripped(lines)
<1>1. CASE Kept(lines) = {}
  <2>1. Stripped(lines) = <<>>
    BY <1>1, StrippedIs
  <2>2. Unfenced(lines) = Stripped(Stripped(lines))
    BY <2>1 DEF Unfenced
  <2>3. QED
    BY <2>2, StrippedTwice
<1>2. CASE Kept(lines) # {}
  <2>1. Stripped(lines) \in Seq(Line) /\ Stripped(lines) # <<>>
    BY <1>2, StrippedEnds
  <2>2. Len(Stripped(lines)) \in Nat /\ Len(Stripped(lines)) >= 1
    BY <2>1, EmptySeq, LenProperties
  <2>3. Stripped(lines)[1] # "fence"
    BY <2>2 DEF Contains
  <2>4. Head(Stripped(lines)) = Stripped(lines)[1]
    BY <2>1
  <2>5. Unfenced(lines) = Stripped(Stripped(lines))
    BY <2>3, <2>4 DEF Unfenced
  <2>6. QED
    BY <2>5, StrippedTwice
<1>3. QED
  BY <1>1, <1>2
-----------------------------------------------------------------------------
(* What validate returns is a fixed point of validate.                      *)
CodeOnly == <<"code">>

LEMMA CodeOnlyUnfenced ==
    /\ CodeOnly \in Seq(Line) /\ ~Contains(CodeOnly, "fence") /\ CodeOnly # <<>>
    /\ Unfenced(CodeOnly) = CodeOnly
<1>1. /\ CodeOnly \in Seq(Line) /\ CodeOnly # <<>> /\ Len(CodeOnly) = 1
      /\ CodeOnly[1] = "code"
  BY DEF CodeOnly, Line
<1>2. Stripped(CodeOnly) = CodeOnly
  BY <1>1, StrippedAlready
<1>3. ~Contains(CodeOnly, "fence")
  BY <1>1 DEF Contains
<1>4. QED
  BY <1>1, <1>2, <1>3, UnfencedPlain

LEMMA CappedTwice ==
    ASSUME NEW limit \in Nat \cup {NoLimit, OddLimit}, NEW maxRows \in Nat
    PROVE  /\ CappedLimit(limit, maxRows) \in Nat
           /\ CappedLimit(CappedLimit(limit, maxRows), maxRows) = CappedLimit(limit, maxRows)
  BY DEF CappedLimit

(* The safe text, field by field.                                           *)
LEMMA SafeTextIs ==
    ASSUME NEW text \in Text, NEW maxRows \in Nat
    PROVE  SafeText(text, maxRows) =
               [lines |-> CodeOnly, parses |-> text.parses,
                query |-> [stmts |-> text.query.stmts, root |-> text.query.root,
                           forbidden |-> text.query.forbidden, joins |-> text.query.joins,
                           subqueries |-> text.query.subqueries, star |-> text.query.star,
                           limit |-> CappedLimit(text.query.limit, maxRows)]]
<1> DEFINE capped == CappedLimit(text.query.limit, maxRows)
           query == [text.query EXCEPT !.limit = capped]
<1>1. text.query \in Query
  BY DEF Text
<1>2. SafeText(text, maxRows) = [[text EXCEPT !.lines = CodeOnly] EXCEPT !.query = query]
  BY DEF SafeText, CodeOnly, Text
<1> HIDE DEF capped
<1>3. query = [stmts |-> text.query.stmts, root |-> text.query.root,
               forbidden |-> text.query.forbidden, joins |-> text.query.joins,
               subqueries |-> text.query.subqueries, star |-> text.query.star,
               limit |-> capped]
  BY <1>1 DEF Query
<1> HIDE DEF query
<1>4. SafeText(text, maxRows) = [lines |-> CodeOnly, parses |-> text.parses, query |-> query]
  BY <1>2 DEF Text
<1>5. QED
  BY <1>3, <1>4 DEF capped

LEMMA SafeTwice ==
    ASSUME NEW text \in Text, NEW maxRows \in Nat, Verdict(text) = "ok"
    PROVE  Validate(SafeText(text, maxRows), maxRows) = Answer("ok", SafeText(text, maxRows))
<1> DEFINE safe == SafeText(text, maxRows)
<1>1. text.query \in Query /\ text.parses \in BOOLEAN
  BY DEF Text
<1>2. text.query.limit \in Nat \cup {NoLimit, OddLimit}
  BY <1>1 DEF Query
<1>3. /\ CappedLimit(text.query.limit, maxRows) \in Nat
      /\ CappedLimit(CappedLimit(text.query.limit, maxRows), maxRows)
            = CappedLimit(text.query.limit, maxRows)
  BY <1>2, CappedTwice
<1>4. /\ safe.lines = CodeOnly /\ safe.parses = text.parses
      /\ safe.query.stmts = text.query.stmts /\ safe.query.root = text.query.root
      /\ safe.query.forbidden = text.query.forbidden
      /\ safe.query.joins = text.query.joins
      /\ safe.query.subqueries = text.query.subqueries
      /\ safe.query.star = text.query.star
      /\ safe.query.limit = CappedLimit(text.query.limit, maxRows)
  BY SafeTextIs
<1>5. safe \in Text
  <2> DEFINE query == [stmts |-> text.query.stmts, root |-> text.query.root,
                       forbidden |-> text.query.forbidden, joins |-> text.query.joins,
                       subqueries |-> text.query.subqueries, star |-> text.query.star,
                       limit |-> CappedLimit(text.query.limit, maxRows)]
  <2>1. query \in Query
    BY <1>1, <1>3 DEF Query
  <2>2. safe = [lines |-> CodeOnly, parses |-> text.parses, query |-> query]
    BY SafeTextIs
  <2> HIDE DEF query, safe
  <2>3. QED
    BY <1>1, <2>1, <2>2, CodeOnlyUnfenced DEF Text
<1>6. text.parses /\ text.query.stmts = 1 /\ text.query.root = "select"
      /\ ~text.query.forbidden /\ (QualityStrict => QualityFaults(text.query) = {})
  BY VerdictOk DEF Verdict
<1>7. QualityFaults(safe.query) = QualityFaults(text.query)
  BY <1>4 DEF QualityFaults
<1>8. SafeText(safe, maxRows) = safe
  BY <1>3, <1>4, <1>5, SafeTextIs
<1> HIDE DEF safe
<1>9. Verdict(safe) = "ok"
  BY <1>4, <1>6, <1>7, CodeOnlyUnfenced DEF Verdict
<1>10. Validate(safe, maxRows) = Answer("ok", safe)
  BY <1>8, <1>9 DEF Validate
<1>11. QED
  BY <1>10 DEF safe

(* Passing an accepted statement through the guard again changes nothing:   *)
(* not the verdict, not the text, not the LIMIT it was given.               *)
THEOREM RevalidationKeeps == GuardSpec => []RevalidationStable
<1>1. GuardInv => RevalidationStable
  <2> SUFFICES ASSUME GuardInv, Accepted PROVE Validate(answer.sql, cap) = answer
    BY DEF RevalidationStable
  <2>1. given \in Text /\ cap \in Nat
    BY DEF GuardInv
  <2>2. Verdict(given) = "ok" /\ answer.sql = SafeText(given, cap)
    BY AcceptedAnswer
  <2>3. answer = Answer("ok", SafeText(given, cap))
    BY <2>2 DEF GuardInv, Accepted, Answer, Validate
  <2>4. QED
    BY <2>1, <2>2, <2>3, SafeTwice
<1>2. QED
  BY <1>1, GuardInvariant, PTL
-----------------------------------------------------------------------------
(* A Markdown fence around a text is stripped with it.                      *)
LEMMA NoFenceStripped ==
    ASSUME NEW lines \in Seq(Line), ~Contains(lines, "fence")
    PROVE  ~Contains(Stripped(lines), "fence")
<1>1. CASE Kept(lines) = {}
  <2>1. Len(Stripped(lines)) = 0
    BY <1>1, StrippedIs, EmptySeq
  <2>2. QED
    BY <2>1 DEF Contains
<1>2. CASE Kept(lines) # {}
  <2>1. \A i \in 1..Len(Stripped(lines)) : \E j \in 1..Len(lines) :
            Stripped(lines)[i] = lines[j]
    BY <1>2, StrippedEnds
  <2>2. QED
    BY <2>1 DEF Contains
<1>3. QED
  BY <1>1, <1>2

(* The blank lines after the last line that is kept do not matter.          *)
LEMMA StrippedPrefix ==
    ASSUME NEW lines \in Seq(Line), Kept(lines) # {}
    PROVE  LET last == Max(Kept(lines))
           IN  /\ last \in 1..Len(lines)
               /\ SubSeq(lines, 1, last) \in Seq(Line) /\ Len(SubSeq(lines, 1, last)) = last
               /\ \A i \in 1..last : SubSeq(lines, 1, last)[i] = lines[i]
               /\ Stripped(SubSeq(lines, 1, last)) = Stripped(lines)
<1> DEFINE K == Kept(lines)
           m == Min(K)
           n == Max(K)
           p == SubSeq(lines, 1, n)
<1>1. /\ K \subseteq 1..Len(lines) /\ Len(lines) \in Nat /\ K \subseteq Nat
      /\ DOMAIN lines = 1..Len(lines)
  BY StrippedIs, LenProperties
<1>2. /\ m \in K /\ n \in K /\ m \in 1..Len(lines) /\ n \in 1..Len(lines)
      /\ \A i \in K : m <= i /\ n >= i
  BY <1>1, LeastOf, GreatestOf
<1>3. /\ p \in Seq(Line) /\ Len(p) = n /\ DOMAIN p = 1..n
      /\ \A i \in 1..n : p[i] = lines[i]
  <2> HIDE DEF n
  <2>1. \A i \in 1..n : lines[i] \in Line
    BY <1>1, <1>2, ElementOfSeq
  <2>2. /\ p \in Seq(Line) /\ Len(p) = n - 1 + 1
        /\ \A i \in 1..(n - 1 + 1) : p[i] = lines[1 + i - 1]
    BY <1>2, <2>1, SubSeqProperties
  <2>3. n - 1 + 1 = n /\ \A i \in 1..n : 1 + i - 1 = i
    BY <1>2
  <2>4. Len(p) = n /\ \A i \in 1..n : p[i] = lines[i]
    BY <2>2, <2>3
  <2>5. QED
    BY <2>2, <2>4, LenProperties
<1>4. Kept(p) = K
  <2> HIDE DEF n, p, m
  <2>1. K \subseteq 1..n
    BY <1>1, <1>2
  <2>2. n <= Len(lines) /\ n \in Nat
    BY <1>2
  <2>3. \A i : i \in Kept(p) <=> i \in K
    BY <1>1, <1>3, <2>1, <2>2 DEF Kept
  <2>4. QED
    BY <2>3
<1>5. Stripped(p) = SubSeq(p, m, n) /\ Stripped(lines) = SubSeq(lines, m, n)
  BY <1>2, <1>3, <1>4, StrippedIs
<1>6. SubSeq(p, m, n) = SubSeq(lines, m, n)
  <2> HIDE DEF m, n
  <2>1. /\ 1 \in 1..Len(lines) /\ m \in 1..(n - 1 + 1) /\ n \in 1..(n - 1 + 1)
        /\ 1 + m - 1 = m /\ 1 + n - 1 = n
    BY <1>1, <1>2
  <2>2. SubSeq(SubSeq(lines, 1, n), m, n) = SubSeq(lines, 1 + m - 1, 1 + n - 1)
    BY <1>2, <2>1, SubSeqOfSubSeq
  <2>3. QED
    BY <2>1, <2>2
<1>7. QED
  BY <1>2, <1>3, <1>5, <1>6

(* The lines of a text after an opening fence, and with a closing one.      *)
LEMMA FencedLines ==
    ASSUME NEW lines \in Seq(Line)
    PROVE  LET opened == <<"fence">> \o lines
               closed == opened \o <<"fence">>
           IN  /\ opened \in Seq(Line) /\ Len(opened) = Len(lines) + 1
               /\ opened[1] = "fence"
               /\ \A i \in 1..Len(lines) : opened[i + 1] = lines[i]
               /\ closed \in Seq(Line) /\ Len(closed) = Len(lines) + 2
               /\ closed[1] = "fence" /\ closed[Len(lines) + 2] = "fence"
               /\ \A i \in 1..Len(lines) : closed[i + 1] = lines[i]
<1> DEFINE fence == <<"fence">>
           opened == fence \o lines
           closed == opened \o fence
<1>1. fence \in Seq(Line) /\ Len(fence) = 1 /\ fence[1] = "fence" /\ Len(lines) \in Nat
  BY LenProperties DEF Line
<1> HIDE DEF fence
<1>2. /\ opened \in Seq(Line) /\ Len(opened) = Len(fence) + Len(lines)
      /\ \A i \in 1..Len(fence) + Len(lines) :
             opened[i] = IF i <= Len(fence) THEN fence[i] ELSE lines[i - Len(fence)]
  BY <1>1, ConcatProperties
<1>3. \A i \in 1..Len(lines) :
          i + 1 \in 1..Len(fence) + Len(lines) /\ ~(i + 1 <= Len(fence))
          /\ i + 1 - Len(fence) = i
  BY <1>1
<1>4. /\ opened[1] = "fence" /\ Len(opened) = Len(lines) + 1
      /\ \A i \in 1..Len(lines) : opened[i + 1] = lines[i]
  BY <1>1, <1>2, <1>3
<1> HIDE DEF opened
<1>5. /\ closed \in Seq(Line) /\ Len(closed) = Len(opened) + Len(fence)
      /\ \A i \in 1..Len(opened) + Len(fence) :
             closed[i] = IF i <= Len(opened) THEN opened[i] ELSE fence[i - Len(opened)]
  <2>1. opened \in Seq(Line) /\ fence \in Seq(Line)
    BY <1>1, <1>2
  <2>2. QED
    BY <2>1, ConcatProperties
<1>6. /\ closed[1] = "fence" /\ Len(closed) = Len(lines) + 2
      /\ \A i \in 1..Len(lines) : closed[i + 1] = opened[i + 1]
  BY <1>1, <1>4, <1>5
<1>7. closed[Len(lines) + 2] = "fence"
  <2>1. /\ Len(lines) + 2 \in 1..Len(opened) + Len(fence) /\ ~(Len(lines) + 2 <= Len(opened))
        /\ Len(lines) + 2 - Len(opened) = 1
    BY <1>1, <1>4
  <2>2. QED
    BY <1>1, <1>5, <2>1
<1>8. QED
  BY <1>2, <1>4, <1>5, <1>6, <1>7 DEF opened, fence

(* _strip_markdown takes the fences off: what is left is the stripped text. *)
LEMMA ClosedUnfenced ==
    ASSUME NEW lines \in Seq(Line)
    PROVE  Unfenced((<<"fence">> \o lines) \o <<"fence">>) = Stripped(lines)
<1> DEFINE text == (<<"fence">> \o lines) \o <<"fence">>
           rest == Tail(text)
<1>1. /\ text \in Seq(Line) /\ Len(text) = Len(lines) + 2 /\ Len(lines) \in Nat
      /\ text[1] = "fence" /\ text[Len(lines) + 2] = "fence"
      /\ \A i \in 1..Len(lines) : text[i + 1] = lines[i]
  BY FencedLines, LenProperties
<1> HIDE DEF text
<1>2. text # <<>>
  BY <1>1, EmptySeq
<1>3. Stripped(text) = text
  BY <1>1, <1>2, StrippedAlready
<1>4. Head(text) = "fence"
  BY <1>1
<1>5. /\ rest \in Seq(Line) /\ Len(rest) = Len(lines) + 1
      /\ \A i \in 1..(Len(lines) + 1) : rest[i] = text[i + 1]
  <2>1. /\ rest \in Seq(Line) /\ Len(rest) = Len(text) - 1
        /\ \A i \in 1..Len(rest) : rest[i] = text[i + 1]
    BY <1>1, <1>2, HeadTailProperties
  <2>2. Len(rest) = Len(lines) + 1
    BY <1>1, <2>1
  <2>3. QED
    BY <2>1, <2>2
<1> HIDE DEF rest
<1>6. rest # <<>> /\ Last(rest) = "fence"
  <2>1. rest # <<>>
    BY <1>1, <1>5, EmptySeq
  <2>2. rest[Len(lines) + 1] = text[Len(lines) + 2]
    <3>1. Len(lines) + 1 \in 1..(Len(lines) + 1) /\ Len(lines) + 1 + 1 = Len(lines) + 2
      BY <1>1
    <3>2. QED
      BY <1>5, <3>1
  <2>3. QED
    BY <1>1, <1>5, <2>1, <2>2 DEF Last
<1>7. Front(rest) = lines
  <2> DEFINE front == SubSeq(rest, 1, Len(lines))
  <2>1. Front(rest) = front
    <3>1. Len(rest) - 1 = Len(lines)
      BY <1>1, <1>5
    <3>2. QED
      BY <3>1 DEF Front
  <2>2. \A i \in 1..Len(lines) : rest[i] = lines[i]
    BY <1>1, <1>5
  <2>3. \A i \in 1..Len(lines) : rest[i] \in Line
    BY <2>2, ElementOfSeq
  <2>4. /\ front \in Seq(Line)
        /\ Len(front) = IF 1 <= Len(lines) THEN Len(lines) - 1 + 1 ELSE 0
        /\ \A i \in 1..Len(lines) - 1 + 1 : front[i] = rest[1 + i - 1]
    BY <1>1, <2>3, SubSeqProperties
  <2> HIDE DEF front
  <2>5. Len(front) = Len(lines) /\ \A i \in 1..Len(lines) : front[i] = rest[i]
    BY <1>1, <2>4
  <2>6. front = lines
    BY <2>2, <2>4, <2>5, SeqEqual
  <2>7. QED
    BY <2>1, <2>6
<1>8. Unfenced(text) = Stripped(Front(rest))
  BY <1>2, <1>3, <1>4, <1>6 DEF Unfenced, rest
<1>9. QED
  BY <1>7, <1>8 DEF text

LEMMA OpenUnfenced ==
    ASSUME NEW lines \in Seq(Line), ~Contains(lines, "fence")
    PROVE  Unfenced(<<"fence">> \o lines) = Stripped(lines)
<1> DEFINE text == <<"fence">> \o lines
           trimmed == Stripped(text)
           rest == Tail(trimmed)
<1>1. /\ text \in Seq(Line) /\ Len(text) = Len(lines) + 1 /\ Len(lines) \in Nat
      /\ text[1] = "fence" /\ \A i \in 1..Len(lines) : text[i + 1] = lines[i]
      /\ DOMAIN text = 1..Len(text) /\ DOMAIN lines = 1..Len(lines)
  BY FencedLines, LenProperties
<1> HIDE DEF text
<1>2. /\ 1 \in Kept(text) /\ Kept(text) \subseteq 1..(Len(lines) + 1)
      /\ \A i \in 1..Len(lines) : i + 1 \in Kept(text) <=> i \in Kept(lines)
      /\ Kept(lines) \subseteq 1..Len(lines)
  <2>1. \A i \in 1..Len(lines) : i + 1 \in 1..(Len(lines) + 1)
    BY <1>1
  <2>2. QED
    BY <1>1, <2>1 DEF Kept
<1>3. Min(Kept(text)) = 1
  BY <1>1, <1>2, MinIs
<1>4. ASSUME NEW n \in 0..Len(lines), n + 1 \in Kept(text),
             \A i \in Kept(lines) : i <= n
      PROVE  /\ trimmed \in Seq(Line) /\ trimmed # <<>> /\ Head(trimmed) = "fence"
             /\ rest \in Seq(Line) /\ Len(rest) = n
             /\ \A i \in 1..n : rest[i] = lines[i]
  <2>1. \A i \in Kept(text) : i <= n + 1
    <3> SUFFICES ASSUME NEW i \in Kept(text), i # 1 PROVE i <= n + 1
      BY <1>1
    <3>1. i - 1 \in 1..Len(lines) /\ i - 1 + 1 = i
      BY <1>1, <1>2
    <3>2. i - 1 \in Kept(lines)
      BY <1>2, <3>1
    <3>3. i - 1 <= n
      BY <1>4, <3>2
    <3>4. QED
      BY <1>1, <3>1, <3>3
  <2>2. Max(Kept(text)) = n + 1
    <3>1. Len(lines) + 1 \in Nat
      BY <1>1
    <3>2. QED
      BY <1>2, <1>4, <2>1, <3>1, MaxIs
  <2>3. trimmed = SubSeq(text, 1, n + 1)
    BY <1>1, <1>2, <1>3, <2>2, StrippedIs
  <2>4. \A i \in 1..(n + 1) : text[i] \in Line
    BY <1>1, ElementOfSeq
  <2>5. /\ trimmed \in Seq(Line)
        /\ Len(trimmed) = IF 1 <= n + 1 THEN (n + 1) - 1 + 1 ELSE 0
        /\ \A i \in 1..(n + 1) - 1 + 1 : trimmed[i] = text[1 + i - 1]
    BY <2>3, <2>4, SubSeqProperties
  <2> HIDE DEF trimmed
  <2>6. Len(trimmed) = n + 1 /\ \A i \in 1..(n + 1) : trimmed[i] = text[i]
    BY <2>5
  <2>7. trimmed # <<>> /\ Head(trimmed) = "fence"
    BY <1>1, <2>5, <2>6, EmptySeq
  <2>8. /\ rest \in Seq(Line) /\ Len(rest) = Len(trimmed) - 1
        /\ \A i \in 1..Len(rest) : rest[i] = trimmed[i + 1]
    BY <2>5, <2>7, HeadTailProperties
  <2> HIDE DEF rest
  <2>9. Len(rest) = n
    BY <2>6, <2>8
  <2>10. \A i \in 1..n : rest[i] = lines[i]
    BY <1>1, <2>6, <2>8, <2>9
  <2>11. QED
    BY <2>5, <2>7, <2>8, <2>9, <2>10
<1>5. CASE Kept(lines) = {}
  <2>1. /\ trimmed # <<>> /\ Head(trimmed) = "fence"
        /\ rest \in Seq(Line) /\ Len(rest) = 0
    <3>1. 0 \in 0..Len(lines) /\ 0 + 1 = 1
      BY <1>1
    <3>2. 0 + 1 \in Kept(text) /\ \A i \in Kept(lines) : i <= 0
      BY <1>2, <1>5, <3>1
    <3> HIDE DEF trimmed, rest
    <3>3. QED
      BY <1>4, <3>1, <3>2
  <2>2. rest = <<>>
    BY <2>1, EmptySeq
  <2>3. Unfenced(text) = Stripped(<<>>)
    BY <2>1, <2>2 DEF Unfenced
  <2>4. Stripped(lines) = <<>>
    BY <1>5, StrippedIs
  <2>5. QED
    BY <2>3, <2>4, StrippedTwice DEF text
<1>6. CASE Kept(lines) # {}
  <2> DEFINE n == Max(Kept(lines))
             prefix == SubSeq(lines, 1, n)
  <2>1. n \in Kept(lines) /\ n \in 1..Len(lines) /\ \A i \in Kept(lines) : i <= n
    BY <1>1, <1>2, <1>6, GreatestOf
  <2>2. /\ prefix \in Seq(Line) /\ Len(prefix) = n
        /\ \A i \in 1..n : prefix[i] = lines[i]
        /\ Stripped(prefix) = Stripped(lines)
    BY <1>6, StrippedPrefix
  <2> HIDE DEF n, prefix
  <2>3. n \in 0..Len(lines) /\ n + 1 \in Kept(text)
    BY <1>2, <2>1
  <2>4. /\ trimmed # <<>> /\ Head(trimmed) = "fence"
        /\ rest \in Seq(Line) /\ Len(rest) = n
        /\ \A i \in 1..n : rest[i] = lines[i]
    BY <1>4, <2>1, <2>3
  <2>5. rest = prefix
    BY <2>2, <2>4, SeqEqual
  <2>6. rest[n] # "fence" /\ Last(rest) = rest[n]
    BY <2>1, <2>4 DEF Contains, Last
  <2>7. Unfenced(text) = Stripped(rest)
    BY <2>4, <2>6 DEF Unfenced
  <2>8. QED
    BY <2>2, <2>5, <2>7 DEF text
<1>7. QED
  BY <1>5, <1>6

(* Whatever text without a fence the model writes, putting it into a fence, *)
(* closed or left open, changes neither the verdict nor the safe statement. *)
THEOREM FencesChangeNothing == GuardSpec => []FencesTransparent
<1>1. ASSUME NEW text \in Text, NEW maxRows \in Nat, ~Contains(text.lines, "fence"),
             NEW tail \in {<<>>, <<"fence">>}
      PROVE  LET fenced == [text EXCEPT !.lines = <<"fence">> \o @ \o tail]
             IN  /\ Verdict(fenced) = Verdict(text)
                 /\ Verdict(text) = "ok" =>
                        Validate(fenced, maxRows) = Validate(text, maxRows)
  <2> DEFINE lines == (<<"fence">> \o text.lines) \o tail
             fenced == [text EXCEPT !.lines = lines]
  <2>1. text.lines \in Seq(Line)
    BY DEF Text
  <2>2. Unfenced(lines) = Stripped(text.lines) /\ lines \in Seq(Line)
    <3>1. CASE tail = <<"fence">>
      BY <2>1, <3>1, ClosedUnfenced, FencedLines
    <3>2. CASE tail = <<>>
      <4>1. <<"fence">> \o text.lines \in Seq(Line)
        BY <2>1, FencedLines
      <4>2. lines = <<"fence">> \o text.lines
        BY <3>2, <4>1, ConcatEmptySeq
      <4>3. QED
        BY <1>1, <2>1, <4>1, <4>2, OpenUnfenced
    <3>3. QED
      BY <3>1, <3>2
  <2>3. Unfenced(text.lines) = Stripped(text.lines)
    BY <1>1, <2>1, NoFenceStripped, UnfencedPlain
  <2> HIDE DEF lines
  <2>4. /\ fenced.lines = lines /\ fenced.parses = text.parses
        /\ fenced.query = text.query /\ fenced \in Text
    BY <2>2 DEF Text
  <2> HIDE DEF fenced
  <2>5. Verdict(fenced) = Verdict(text)
    BY <2>2, <2>3, <2>4 DEF Verdict
  <2>6. SafeText(fenced, maxRows) = SafeText(text, maxRows)
    BY <2>4, SafeTextIs
  <2>7. Verdict(text) = "ok" => Validate(fenced, maxRows) = Validate(text, maxRows)
    BY <2>5, <2>6 DEF Validate
  <2>8. QED
    BY <2>5, <2>7 DEF fenced, lines
<1>2. GuardInv => FencesTransparent
  BY <1>1 DEF GuardInv, FencesTransparent
<1>3. QED
  BY <1>2, GuardInvariant, PTL
-----------------------------------------------------------------------------
(* The invariant: where a request is decides what its two calls of the      *)
(* database are doing, what the attempt loop has recorded, and what the     *)
(* client may have been told.                                               *)
CallPhases == {"idle", "queued", "holding", "done"}
ExecCall == [sql : Statement, maxRows : Nat]

VarsTypeOK ==
    /\ askPc \in [Requests -> {"new", "schema", "llm", "query", "answered"}]
    /\ local \in [Requests -> Local]
    /\ response \in [Requests -> Response]
    /\ holder \in [Conns -> Requests \cup {Nobody}]
    /\ schemaPhase \in [Requests -> CallPhases]
    /\ schemaResult \in [Requests -> {"none", "ok", "schema_unavailable"}]
    /\ queryPhase \in [Requests -> CallPhases]
    /\ queryArg \in [Requests -> ExecCall]
    /\ DOMAIN queryResult = Requests /\ DOMAIN schemaArg = Requests

(* The phases of the two calls, by the await of the request.                *)
Phases(r) ==
    LET s == schemaPhase[r] q == queryPhase[r]
    IN  CASE askPc[r] = "new"      -> s = "idle" /\ q = "idle"
          [] askPc[r] = "schema"   -> s # "idle" /\ q = "idle"
          [] askPc[r] = "llm"      -> s = "done" /\ q = "idle"
          [] askPc[r] = "query"    -> s = "done" /\ q # "idle"
          [] askPc[r] = "answered" -> s = "done" /\ q \in {"idle", "done"}

(* A connection is owned by a call that is holding one, and by no other.    *)
Owning(r) ==
    /\ \A c \in Conns :
           holder[c] = r => schemaPhase[r] = "holding" \/ queryPhase[r] = "holding"
    /\ \A c, d \in Conns : holder[c] = r /\ holder[d] = r => c = d

(* The rejections so far, and what the next prompt says of them.            *)
Attempts(r) ==
    LET l == local[r]
    IN  /\ askPc[r] \in {"new", "schema"} => l.rejections = <<>> /\ l.prompt = "question"
        /\ askPc[r] = "llm" =>
               /\ l.attempt = Len(l.rejections) + 1
               /\ l.prompt = IF l.rejections = <<>> THEN "question" ELSE Last(l.rejections)
        /\ askPc[r] \in {"llm", "query"} => Len(l.rejections) < AttemptLimit
        /\ askPc[r] = "answered" =>
               /\ Len(l.rejections) <= AttemptLimit
               /\ response[r].code = "unsafe_sql" <=> Len(l.rejections) = AttemptLimit

(* What the database was given and what came of it.                         *)
Execution(r) ==
    /\ askPc[r] # "new" => local[r].cap = EffectiveCap(local[r].asked)
    /\ askPc[r] = "new" => local[r].asked = NoCap
    /\ queryPhase[r] # "idle" =>
           /\ Verdict(local[r].text) = "ok"
           /\ queryArg[r].maxRows = local[r].cap
           /\ queryArg[r].sql.limit <= local[r].cap
           /\ queryArg[r].sql.limit = CappedLimit(local[r].text.query.limit, local[r].cap)
    /\ queryPhase[r] = "done" => queryResult[r] \in ExecuteOutcomes(queryArg[r])
    /\ schemaPhase[r] = "done" => schemaResult[r] # "none"

(* The response, and the part of it each error leaves out.                  *)
Documented(code) ==
    CASE code = "ok" -> 200
      [] code = "llm_bad_response" -> 502
      [] code \in {"llm_unavailable", "schema_unavailable"} -> 503
      [] code = "query_timeout" -> 504
      [] code = "unexpected" -> 500
      [] OTHER -> 422

Answered(r) ==
    /\ askPc[r] # "answered" => response[r].code = "none" /\ response[r].result.rows = 0
    /\ askPc[r] = "answered" => response[r].status = Documented(response[r].code)
    /\ response[r].code # "ok" => response[r].result.rows = 0
    /\ response[r].code = "ok" =>
           /\ queryPhase[r] = "done" /\ queryResult[r].code = "ok"
           /\ response[r].sql = queryArg[r].sql
           /\ response[r].result.rows = queryResult[r].rows
    /\ response[r].code \in LlmErrors \cup {"schema_unavailable"} => queryPhase[r] = "idle"

RequestInv(r) == Phases(r) /\ Owning(r) /\ Attempts(r) /\ Execution(r) /\ Answered(r)
AskInv == VarsTypeOK /\ \A r \in Requests : RequestInv(r)
-----------------------------------------------------------------------------
(* Values.                                                                  *)

LEMMA LeastOfSet ==
    ASSUME NEW S, S \subseteq Nat, NEW m \in S, \A n \in S : m <= n
    PROVE  Min(S) = m
<1>1. \E x \in S : \A y \in S : x <= y
  OBVIOUS
<1>2. Min(S) \in S /\ \A y \in S : Min(S) <= y
  BY <1>1 DEF Min
<1>3. Min(S) <= m /\ m <= Min(S) /\ m \in Nat /\ Min(S) \in Nat
  BY <1>2
<1>4. QED
  BY <1>3

(* The first class of the MRO that has a status decides.                    *)
LEMMA FirstMatch ==
    ASSUME NEW class, NEW i \in Matching(class), Matching(class) \subseteq Nat,
           \A j \in Matching(class) : i <= j
    PROVE  ClassStatus(class) = StatusMap[Mro[class][i]]
<1>1. Min(Matching(class)) = i
  BY LeastOfSet
<1>2. QED
  BY <1>1 DEF ClassStatus

(* Every error the use case raises has the status its comment promises.     *)
LEMMA StatusOf ==
    /\ Status("llm_unavailable") = 503 /\ Status("llm_bad_response") = 502
    /\ Status("unsafe_sql") = 422 /\ Status("query_execution_failed") = 422
    /\ Status("query_timeout") = 504 /\ Status("query_cost_exceeded") = 422
    /\ Status("schema_unavailable") = 503 /\ Status("unexpected") = 500
<1>1. ASSUME NEW first, NEW second, NEW class, Mro[class] = <<first, second, "AssistantError">>
      PROVE  /\ first \in DOMAIN StatusMap => ClassStatus(class) = StatusMap[first]
             /\ first \notin DOMAIN StatusMap /\ second \in DOMAIN StatusMap
                   => ClassStatus(class) = StatusMap[second]
  <2>1. /\ DOMAIN Mro[class] = 1..3 /\ Mro[class][1] = first /\ Mro[class][2] = second
    BY <1>1
  <2>2. /\ Matching(class) \subseteq 1..3
        /\ 1 \in Matching(class) <=> first \in DOMAIN StatusMap
        /\ 2 \in Matching(class) <=> second \in DOMAIN StatusMap
    BY <2>1 DEF Matching
  <2>3. CASE first \in DOMAIN StatusMap
    <3>1. 1 \in Matching(class) /\ \A j \in Matching(class) : 1 <= j
      BY <2>2, <2>3
    <3>2. ClassStatus(class) = StatusMap[Mro[class][1]]
      BY <2>2, <3>1, FirstMatch
    <3>3. QED
      BY <2>1, <2>3, <3>2
  <2>4. CASE first \notin DOMAIN StatusMap /\ second \in DOMAIN StatusMap
    <3>1. 2 \in Matching(class) /\ \A j \in Matching(class) : 2 <= j
      BY <2>2, <2>4
    <3>2. ClassStatus(class) = StatusMap[Mro[class][2]]
      BY <2>2, <3>1, FirstMatch
    <3>3. QED
      BY <2>1, <2>4, <3>2
  <2>5. QED
    BY <2>3, <2>4
<1>2. /\ DOMAIN StatusMap = {"UnsafeSqlError", "QueryCostExceededError", "LLMResponseError",
                            "LLMError", "QueryTimeoutError", "SchemaUnavailableError",
                            "DatabaseError"}
      /\ StatusMap["UnsafeSqlError"] = 422 /\ StatusMap["QueryCostExceededError"] = 422
      /\ StatusMap["LLMResponseError"] = 502 /\ StatusMap["LLMError"] = 503
      /\ StatusMap["QueryTimeoutError"] = 504 /\ StatusMap["SchemaUnavailableError"] = 503
      /\ StatusMap["DatabaseError"] = 422
  BY DEF StatusMap
<1>3. /\ Mro["LLMUnavailableError"] = <<"LLMUnavailableError", "LLMError", "AssistantError">>
      /\ Mro["LLMResponseError"] = <<"LLMResponseError", "LLMError", "AssistantError">>
      /\ Mro["QueryExecutionError"] = <<"QueryExecutionError", "DatabaseError", "AssistantError">>
      /\ Mro["QueryTimeoutError"] = <<"QueryTimeoutError", "DatabaseError", "AssistantError">>
      /\ Mro["QueryCostExceededError"]
            = <<"QueryCostExceededError", "DatabaseError", "AssistantError">>
      /\ Mro["SchemaUnavailableError"]
            = <<"SchemaUnavailableError", "DatabaseError", "AssistantError">>
      /\ Mro["UnsafeSqlError"] = <<"UnsafeSqlError", "AssistantError">>
  BY DEF Mro
<1>4. /\ ClassStatus("LLMUnavailableError") = 503 /\ ClassStatus("LLMResponseError") = 502
      /\ ClassStatus("QueryExecutionError") = 422 /\ ClassStatus("QueryTimeoutError") = 504
      /\ ClassStatus("QueryCostExceededError") = 422
      /\ ClassStatus("SchemaUnavailableError") = 503
  BY <1>1, <1>2, <1>3
<1>5. ClassStatus("UnsafeSqlError") = 422
  <2>1. /\ DOMAIN Mro["UnsafeSqlError"] = 1..2 /\ Mro["UnsafeSqlError"][1] = "UnsafeSqlError"
    BY <1>3
  <2>2. Matching("UnsafeSqlError") \subseteq 1..2 /\ 1 \in Matching("UnsafeSqlError")
    BY <1>2, <2>1 DEF Matching
  <2>3. ClassStatus("UnsafeSqlError") = StatusMap[Mro["UnsafeSqlError"][1]]
    BY <2>2, FirstMatch
  <2>4. QED
    BY <1>2, <2>1, <2>3
<1>6. /\ DOMAIN ClassOf = {"llm_unavailable", "llm_bad_response", "unsafe_sql",
                          "query_execution_failed", "query_timeout", "query_cost_exceeded",
                          "schema_unavailable"}
      /\ ClassOf["llm_unavailable"] = "LLMUnavailableError"
      /\ ClassOf["llm_bad_response"] = "LLMResponseError"
      /\ ClassOf["unsafe_sql"] = "UnsafeSqlError"
      /\ ClassOf["query_execution_failed"] = "QueryExecutionError"
      /\ ClassOf["query_timeout"] = "QueryTimeoutError"
      /\ ClassOf["query_cost_exceeded"] = "QueryCostExceededError"
      /\ ClassOf["schema_unavailable"] = "SchemaUnavailableError"
  BY DEF ClassOf
<1>7. QED
  BY <1>4, <1>5, <1>6 DEF Status

ErrorCodes == LlmErrors \cup QueryCodes \cup {"unsafe_sql", "schema_unavailable"}

LEMMA FailedResponse ==
    ASSUME NEW code \in ErrorCodes
    PROVE  /\ Failed(code) \in Response
           /\ Failed(code).status = Documented(code) /\ Failed(code).code = code
           /\ Failed(code).result.rows = 0
           /\ code # "ok"
<1>1. Status(code) = Documented(code) /\ Status(code) \in {422, 500, 502, 503, 504}
  BY StatusOf DEF Documented, ErrorCodes, LlmErrors, QueryCodes
<1>2. code # "ok" /\ code \in {"unexpected"} \cup DOMAIN ClassOf
  BY DEF ErrorCodes, LlmErrors, QueryCodes, ClassOf
<1>3. Failed(code) = [status |-> Status(code), code |-> code, sql |-> NoCall.sql,
                      result |-> [rows |-> 0, truncated |-> FALSE]]
  BY <1>2 DEF Failed, Rendered
<1>4. NoCall.sql \in Statement
  BY DEF NoCall, Statement
<1>5. QED
  BY <1>1, <1>2, <1>3, <1>4 DEF Response

(* The guard: a verdict is one of the seven, and what was accepted is       *)
(* executed under a LIMIT within the cap.                                   *)
LEMMA VerdictTyped == \A text : Verdict(text) \in Verdicts
  BY DEF Verdict, Verdicts

LEMMA CappedTyped ==
    ASSUME NEW text \in Text, Verdict(text) = "ok", NEW maxRows \in Nat, NEW writes \in BOOLEAN
    PROVE  /\ ToExecute(text, writes, maxRows) \in ExecCall
           /\ ToExecute(text, writes, maxRows).maxRows = maxRows
           /\ ToExecute(text, writes, maxRows).sql.limit <= maxRows
           /\ ToExecute(text, writes, maxRows).sql.limit
                 = CappedLimit(text.query.limit, maxRows)
<1>1. SafeText(text, maxRows).query.limit = CappedLimit(text.query.limit, maxRows)
  BY DEF SafeText, Text, Query
<1>2. CappedLimit(text.query.limit, maxRows) \in Nat /\ CappedLimit(text.query.limit, maxRows) <= maxRows
  BY DEF CappedLimit
<1>3. Validate(text, maxRows).sql.query.limit = CappedLimit(text.query.limit, maxRows)
  BY <1>1 DEF Validate, Answer
<1>4. QED
  BY <1>2, <1>3 DEF ToExecute, ExecCall, Statement

(* No request gets more rows than it asked for, nor than the server allows. *)
LEMMA CapsBound ==
    ASSUME NEW asked \in Nat \cup {NoCap}
    PROVE  /\ EffectiveCap(asked) \in Nat /\ Ceiling(asked) \in Nat
           /\ EffectiveCap(asked) <= Ceiling(asked)
  BY AskAssumption DEF EffectiveCap, Ceiling, Least

LEMMA NoTextTyped == NoText \in Text
  BY DEF NoText, Text, Query

LEMMA AttemptsPositive == AttemptLimit \in Nat \ {0}
  BY AskAssumption DEF AttemptLimit

(* What the executor may answer.                                            *)
LEMMA OutcomesTyped ==
    ASSUME NEW call \in ExecCall, NEW out \in ExecuteOutcomes(call)
    PROVE  /\ out.code \in QueryCodes \cup {"ok"}
           /\ out.code = "ok" => /\ out.rows \in Nat /\ out.rows <= call.maxRows
                                 /\ out.truncated \in BOOLEAN /\ ~call.sql.writes
<1>1. CASE \E code \in QueryCodes : out = QueryFailed(code)
  BY <1>1 DEF QueryFailed, QueryOutcome, QueryCodes
<1>2. ASSUME NEW n \in {m \in Matches : ~call.sql.writes},
             out = QueryAnswered(n, call.sql, call.maxRows)
      PROVE  out.code = "ok" /\ out.rows \in Nat /\ out.rows <= call.maxRows
             /\ out.truncated \in BOOLEAN /\ ~call.sql.writes
  <2> DEFINE returned == Least(n, call.sql.limit)
  <2>1. returned \in Nat /\ call.maxRows \in Nat
    BY MatchesAssumption DEF Least, ExecCall, Statement
  <2>2. out = [code |-> "ok", rows |-> Least(returned, call.maxRows),
               truncated |-> returned > call.maxRows, matched |-> n]
    BY <1>2 DEF QueryAnswered, QueryOutcome
  <2> HIDE DEF returned
  <2>3. QED
    BY <2>1, <2>2 DEF Least
<1>3. QED
  BY <1>1, <1>2 DEF ExecuteOutcomes
-----------------------------------------------------------------------------
(* A step of r leaves every other request alone.                            *)
OthersSame(r) ==
    \A q \in Requests : q # r =>
        /\ askPc'[q] = askPc[q] /\ local'[q] = local[q] /\ response'[q] = response[q]
        /\ schemaPhase'[q] = schemaPhase[q] /\ schemaResult'[q] = schemaResult[q]
        /\ queryPhase'[q] = queryPhase[q] /\ queryArg'[q] = queryArg[q]
        /\ queryResult'[q] = queryResult[q]
        /\ \A c \in Conns : holder'[c] = q <=> holder[c] = q

LEMMA OneRequest ==
    ASSUME AskInv, NEW r \in Requests, VarsTypeOK', OthersSame(r), RequestInv(r)'
    PROVE  AskInv'
<1>1. ASSUME NEW q \in Requests, q # r
      PROVE  RequestInv(q)'
  <2>1. RequestInv(q)
    BY DEF AskInv
  <2>2. /\ askPc'[q] = askPc[q] /\ local'[q] = local[q] /\ response'[q] = response[q]
        /\ schemaPhase'[q] = schemaPhase[q] /\ schemaResult'[q] = schemaResult[q]
        /\ queryPhase'[q] = queryPhase[q] /\ queryArg'[q] = queryArg[q]
        /\ queryResult'[q] = queryResult[q]
        /\ \A c \in Conns : holder'[c] = q <=> holder[c] = q
    BY <1>1 DEF OthersSame
  <2>3. Phases(q)'
    BY <2>1, <2>2 DEF RequestInv, Phases
  <2>4. Owning(q)'
    BY <2>1, <2>2 DEF RequestInv, Owning
  <2>5. Attempts(q)'
    BY <2>1, <2>2 DEF RequestInv, Attempts
  <2>6. Execution(q)'
    BY <2>1, <2>2 DEF RequestInv, Execution
  <2>7. Answered(q)'
    BY <2>1, <2>2 DEF RequestInv, Answered
  <2>8. QED
    BY <2>3, <2>4, <2>5, <2>6, <2>7 DEF RequestInv
<1>2. QED
  BY <1>1 DEF AskInv

(* Nothing of the database moves.                                           *)
DatabaseStill == UNCHANGED <<holder, schemaCall, queryCall>>

LEMMA StillOwning ==
    ASSUME NEW r \in Requests, Owning(r), Execution(r), DatabaseStill
    PROVE  /\ Owning(r)'
           /\ queryPhase'[r] = "done" => queryResult'[r] \in ExecuteOutcomes(queryArg'[r])
           /\ schemaPhase'[r] = "done" => schemaResult'[r] # "none"
  BY DEF DatabaseStill, schemaCall, queryCall, Owning, Execution

(* A request is answered: with an error, or with rows.                      *)
LEMMA RespondKeeps ==
    ASSUME AskInv, NEW r \in Requests, NEW from \in {"schema", "llm", "query"},
           NEW reply \in Response, Respond(r, from, reply), DatabaseStill,
           schemaPhase[r] = "done", queryPhase[r] \in {"idle", "done"},
           local' \in [Requests -> Local],
           \A q \in Requests : q # r => local'[q] = local[q],
           local'[r].cap = local[r].cap, local'[r].asked = local[r].asked,
           queryPhase[r] = "idle" \/ local'[r].text = local[r].text,
           Len(local'[r].rejections) <= AttemptLimit,
           reply.code = "unsafe_sql" <=> Len(local'[r].rejections) = AttemptLimit,
           reply.status = Documented(reply.code),
           reply.code # "ok" => reply.result.rows = 0,
           reply.code = "ok" =>
               /\ queryPhase[r] = "done" /\ queryResult[r].code = "ok"
               /\ reply.sql = queryArg[r].sql /\ reply.result.rows = queryResult[r].rows,
           reply.code \in LlmErrors \cup {"schema_unavailable"} => queryPhase[r] = "idle"
    PROVE  AskInv'
<1>1. VarsTypeOK /\ RequestInv(r)
  BY DEF AskInv
<1>2. /\ askPc[r] = from /\ askPc' = [askPc EXCEPT ![r] = "answered"]
      /\ response' = [response EXCEPT ![r] = reply]
  BY DEF Respond, Await
<1>3. VarsTypeOK'
  BY <1>1, <1>2 DEF VarsTypeOK, DatabaseStill, schemaCall, queryCall
<1>4. OthersSame(r)
  BY <1>1, <1>2 DEF VarsTypeOK, DatabaseStill, schemaCall, queryCall, OthersSame
<1>5. askPc'[r] = "answered" /\ response'[r] = reply
  BY <1>1, <1>2 DEF VarsTypeOK
<1>6. /\ schemaPhase' = schemaPhase /\ queryPhase' = queryPhase /\ queryResult' = queryResult
      /\ queryArg' = queryArg /\ schemaResult' = schemaResult
  BY DEF DatabaseStill, schemaCall, queryCall
<1>7. Phases(r)'
  BY <1>5, <1>6 DEF Phases
<1>8. Owning(r)'
  BY <1>1, StillOwning DEF RequestInv
<1>9. Attempts(r)'
  BY <1>5 DEF Attempts
<1>10. Execution(r)'
  BY <1>1, <1>2, <1>5, <1>6 DEF RequestInv, Execution
<1>11. Answered(r)'
  BY <1>5, <1>6 DEF Answered
<1>12. QED
  BY <1>3, <1>4, <1>7, <1>8, <1>9, <1>10, <1>11, OneRequest DEF RequestInv
-----------------------------------------------------------------------------
(* The steps of execute, one lemma each.                                    *)

LEMMA AskKeeps ==
    ASSUME AskInv, NEW r \in Requests, NEW asked \in RequestedCaps, Ask(r, asked)
    PROVE  AskInv'
<1>1. VarsTypeOK /\ RequestInv(r)
  BY DEF AskInv
<1>2. askPc[r] = "new" /\ askPc' = [askPc EXCEPT ![r] = "schema"]
  BY DEF Ask, Await
<1>3. asked \in Nat \cup {NoCap}
  BY AskAssumption
<1>4. EffectiveCap(asked) \in Nat
  BY <1>3, CapsBound
<1>5. /\ local'[r].asked = asked /\ local'[r].cap = EffectiveCap(asked)
      /\ local'[r].rejections = local[r].rejections /\ local'[r].prompt = local[r].prompt
      /\ local' \in [Requests -> Local]
      /\ \A q \in Requests : q # r => local'[q] = local[q]
  <2>1. local' = [local EXCEPT ![r] = [[local[r] EXCEPT !.asked = asked]
                                                 EXCEPT !.cap = EffectiveCap(asked)]]
    BY <1>1 DEF Ask, VarsTypeOK, Local
  <2>2. local[r] \in Local
    BY <1>1 DEF VarsTypeOK
  <2> DEFINE l == [[local[r] EXCEPT !.asked = asked] EXCEPT !.cap = EffectiveCap(asked)]
  <2>3. /\ l \in Local /\ l.asked = asked /\ l.cap = EffectiveCap(asked)
        /\ l.rejections = local[r].rejections /\ l.prompt = local[r].prompt
    BY <1>3, <1>4, <2>2 DEF Local
  <2> HIDE DEF l
  <2>4. local' = [local EXCEPT ![r] = l]
    BY <2>1 DEF l
  <2>5. QED
    BY <1>1, <2>3, <2>4 DEF VarsTypeOK
<1>6. /\ schemaPhase[r] = "idle"
      /\ \/ /\ schemaPhase' = [schemaPhase EXCEPT ![r] = "queued"]
            /\ UNCHANGED schemaResult
         \/ /\ schemaPhase' = [schemaPhase EXCEPT ![r] = "done"]
            /\ schemaResult' = [schemaResult EXCEPT ![r] = "ok"]
      /\ schemaArg' = [schemaArg EXCEPT ![r] = "catalog"]
      /\ UNCHANGED holder
  BY DEF Ask, Schema!Call, Schema!AnswerFromMemory, Schema!Step
<1>7. UNCHANGED <<response, queryPhase, queryArg, queryResult>>
  BY DEF Ask, queryCall
<1>8. VarsTypeOK'
  BY <1>1, <1>2, <1>5, <1>6, <1>7 DEF VarsTypeOK, CallPhases
<1>9. OthersSame(r)
  BY <1>1, <1>2, <1>5, <1>6, <1>7 DEF VarsTypeOK, OthersSame
<1>10. askPc'[r] = "schema" /\ schemaPhase'[r] \in {"queued", "done"}
       /\ (schemaPhase'[r] = "done" => schemaResult'[r] # "none")
  BY <1>1, <1>2, <1>6 DEF VarsTypeOK
<1>11. queryPhase[r] = "idle"
  BY <1>1, <1>2 DEF RequestInv, Phases
<1>12. Phases(r)'
  BY <1>7, <1>10, <1>11 DEF Phases
<1>13. Owning(r)'
  BY <1>1, <1>6, <1>11 DEF RequestInv, Owning
<1>14. Attempts(r)'
  BY <1>1, <1>2, <1>5, <1>10 DEF RequestInv, Attempts
<1>15. Execution(r)'
  BY <1>5, <1>7, <1>10, <1>11 DEF Execution
<1>16. Answered(r)'
  BY <1>1, <1>2, <1>7, <1>10, <1>11 DEF RequestInv, Answered, LlmErrors
<1>17. QED
  BY <1>8, <1>9, <1>12, <1>13, <1>14, <1>15, <1>16, OneRequest DEF RequestInv

LEMMA SchemaLoadedKeeps ==
    ASSUME AskInv, NEW r \in Requests, SchemaLoaded(r)
    PROVE  AskInv'
<1>1. VarsTypeOK /\ RequestInv(r)
  BY DEF AskInv
<1>2. /\ askPc[r] = "schema" /\ askPc' = [askPc EXCEPT ![r] = "llm"]
      /\ schemaPhase[r] = "done" /\ DatabaseStill /\ UNCHANGED response
      /\ local' = [local EXCEPT ![r] = [local[r] EXCEPT !.attempt = 1]]
  BY <1>1 DEF SchemaLoaded, Await, DatabaseStill, VarsTypeOK
<1>3. /\ local'[r] = [local[r] EXCEPT !.attempt = 1] /\ local[r] \in Local
      /\ askPc'[r] = "llm"
  BY <1>1, <1>2 DEF VarsTypeOK
<1>4. /\ local'[r].attempt = 1 /\ local'[r].rejections = <<>> /\ local'[r].prompt = "question"
      /\ local'[r].cap = local[r].cap /\ local'[r].asked = local[r].asked
      /\ local'[r] \in Local
  BY <1>1, <1>2, <1>3 DEF Local, RequestInv, Attempts
<1>5. /\ schemaPhase' = schemaPhase /\ queryPhase' = queryPhase /\ queryPhase[r] = "idle"
      /\ schemaResult' = schemaResult
  BY <1>1, <1>2 DEF DatabaseStill, schemaCall, queryCall, RequestInv, Phases
<1>6. VarsTypeOK'
  BY <1>1, <1>2, <1>4 DEF VarsTypeOK, DatabaseStill, schemaCall, queryCall
<1>7. OthersSame(r)
  BY <1>1, <1>2 DEF VarsTypeOK, DatabaseStill, schemaCall, queryCall, OthersSame
<1>8. Phases(r)'
  BY <1>2, <1>3, <1>5 DEF Phases
<1>9. Owning(r)'
  BY <1>1, <1>2, StillOwning DEF RequestInv
<1>10. Attempts(r)'
  <2>1. Len(local'[r].rejections) = 0
    BY <1>4
  <2>2. QED
    BY <1>3, <1>4, <2>1, AttemptsPositive DEF Attempts
<1>11. Execution(r)'
  BY <1>1, <1>2, <1>3, <1>4, <1>5 DEF RequestInv, Execution
<1>12. Answered(r)'
  BY <1>1, <1>2, <1>3, <1>5 DEF RequestInv, Answered
<1>13. QED
  BY <1>6, <1>7, <1>8, <1>9, <1>10, <1>11, <1>12, OneRequest DEF RequestInv

LEMMA SchemaFailedKeeps ==
    ASSUME AskInv, NEW r \in Requests, SchemaFailed(r)
    PROVE  AskInv'
<1>1. VarsTypeOK /\ RequestInv(r)
  BY DEF AskInv
<1>2. /\ schemaPhase[r] = "done" /\ schemaResult[r] # "ok" /\ DatabaseStill /\ UNCHANGED local
      /\ Respond(r, "schema", Failed(schemaResult[r])) /\ askPc[r] = "schema"
  BY DEF SchemaFailed, DatabaseStill, Respond, Await
<1>3. schemaResult[r] = "schema_unavailable" /\ queryPhase[r] = "idle"
  BY <1>1, <1>2 DEF VarsTypeOK, RequestInv, Execution, Phases
<1> DEFINE reply == Failed("schema_unavailable")
<1>4. /\ reply \in Response /\ reply.status = Documented(reply.code)
      /\ reply.code = "schema_unavailable" /\ reply.result.rows = 0
  BY FailedResponse DEF ErrorCodes
<1>5. local[r].rejections = <<>>
  BY <1>1, <1>2 DEF RequestInv, Attempts
<1>6. Len(local[r].rejections) = 0
  BY <1>5
<1>7. Respond(r, "schema", reply)
  BY <1>2, <1>3
<1> HIDE DEF reply
<1>8. local' \in [Requests -> Local]
  BY <1>1, <1>2 DEF VarsTypeOK
<1>9. QED
  BY <1>2, <1>3, <1>4, <1>6, <1>7, <1>8, AttemptsPositive, RespondKeeps

LEMMA GenerationFailedKeeps ==
    ASSUME AskInv, NEW r \in Requests, NEW code \in LlmErrors, GenerationFailed(r, code)
    PROVE  AskInv'
<1>1. VarsTypeOK /\ RequestInv(r)
  BY DEF AskInv
<1>2. /\ DatabaseStill /\ UNCHANGED local
      /\ Respond(r, "llm", Failed(code)) /\ askPc[r] = "llm"
  BY DEF GenerationFailed, DatabaseStill, Respond, Await
<1>3. schemaPhase[r] = "done" /\ queryPhase[r] = "idle"
  BY <1>1, <1>2 DEF RequestInv, Phases
<1> DEFINE reply == Failed(code)
<1>4. /\ reply \in Response /\ reply.status = Documented(reply.code)
      /\ reply.code = code /\ reply.result.rows = 0
  BY FailedResponse DEF ErrorCodes
<1>5. code # "unsafe_sql" /\ code # "ok"
  BY DEF LlmErrors
<1>6. local[r] \in Local /\ local' \in [Requests -> Local]
  BY <1>1, <1>2 DEF VarsTypeOK
<1>7. /\ Len(local[r].rejections) < AttemptLimit /\ Len(local[r].rejections) \in Nat
  BY <1>1, <1>2, <1>6 DEF RequestInv, Attempts, Local
<1>8. Respond(r, "llm", reply)
  BY <1>2
<1> HIDE DEF reply
<1>9. QED
  BY <1>2, <1>3, <1>4, <1>5, <1>6, <1>7, <1>8, AttemptsPositive, RespondKeeps

LEMMA GeneratedSafeKeeps ==
    ASSUME AskInv, NEW r \in Requests, NEW g \in Generated, GeneratedSafe(r, g)
    PROVE  AskInv'
<1>1. VarsTypeOK /\ RequestInv(r)
  BY DEF AskInv
<1> DEFINE call == ToExecute(g.text, g.writes, local[r].cap)
<1>2. /\ askPc[r] = "llm" /\ askPc' = [askPc EXCEPT ![r] = "query"]
      /\ Verdict(g.text) = "ok"
      /\ local' = [local EXCEPT ![r] = [local[r] EXCEPT !.text = g.text]]
      /\ UNCHANGED <<response, holder, schemaPhase, schemaArg, schemaResult, queryResult>>
      /\ queryPhase[r] = "idle" /\ queryPhase' = [queryPhase EXCEPT ![r] = "queued"]
      /\ queryArg' = [queryArg EXCEPT ![r] = call]
  BY <1>1 DEF GeneratedSafe, Await, VarsTypeOK, Exec!Call, Exec!Step, schemaCall
<1>3. g.text \in Text /\ g.writes \in BOOLEAN /\ local[r] \in Local
  BY <1>1, AskAssumption DEF VarsTypeOK
<1>4. local[r].cap \in Nat
  BY <1>3 DEF Local
<1>5. /\ call \in ExecCall /\ call.maxRows = local[r].cap /\ call.sql.limit <= local[r].cap
      /\ call.sql.limit = CappedLimit(g.text.query.limit, local[r].cap)
  BY <1>2, <1>3, <1>4, CappedTyped
<1> HIDE DEF call
<1>6. /\ local'[r] = [local[r] EXCEPT !.text = g.text] /\ askPc'[r] = "query"
      /\ queryArg'[r] = call /\ queryPhase'[r] = "queued" /\ schemaPhase[r] = "done"
  BY <1>1, <1>2 DEF VarsTypeOK, RequestInv, Phases
<1>7. /\ local'[r].text = g.text /\ local'[r].cap = local[r].cap
      /\ local'[r].asked = local[r].asked /\ local'[r].rejections = local[r].rejections
      /\ local'[r] \in Local
  BY <1>3, <1>6 DEF Local
<1>8. VarsTypeOK'
  BY <1>1, <1>2, <1>5, <1>7 DEF VarsTypeOK, CallPhases
<1>9. OthersSame(r)
  BY <1>1, <1>2 DEF VarsTypeOK, OthersSame
<1>10. Phases(r)'
  BY <1>2, <1>6 DEF Phases
<1>11. Owning(r)'
  BY <1>1, <1>2, <1>6 DEF RequestInv, Owning
<1>12. Attempts(r)'
  BY <1>1, <1>2, <1>6, <1>7 DEF RequestInv, Attempts
<1>13. Execution(r)'
  BY <1>1, <1>2, <1>5, <1>6, <1>7 DEF RequestInv, Execution
<1>14. Answered(r)'
  BY <1>1, <1>2, <1>6 DEF RequestInv, Answered, LlmErrors
<1>15. QED
  BY <1>8, <1>9, <1>10, <1>11, <1>12, <1>13, <1>14, OneRequest DEF RequestInv

(* Of the history, one more verdict is the last.                            *)
LEMMA OneMoreRejection ==
    ASSUME NEW s \in Seq(Verdicts), NEW v \in Verdicts
    PROVE  /\ Append(s, v) \in Seq(Verdicts) /\ Append(s, v) # <<>>
           /\ Len(Append(s, v)) = Len(s) + 1 /\ Last(Append(s, v)) = v
  BY DEF Last

LEMMA GeneratedUnsafeKeeps ==
    ASSUME AskInv, NEW r \in Requests, NEW g \in Generated, GeneratedUnsafe(r, g)
    PROVE  AskInv'
<1>1. VarsTypeOK /\ RequestInv(r)
  BY DEF AskInv
<1> DEFINE verdict == Verdict(g.text)
           history == Append(local[r].rejections, verdict)
<1>2. askPc[r] = "llm" /\ DatabaseStill
  BY DEF GeneratedUnsafe, DatabaseStill
<1>3. /\ schemaPhase[r] = "done" /\ queryPhase[r] = "idle"
      /\ local[r].attempt = Len(local[r].rejections) + 1
      /\ Len(local[r].rejections) < AttemptLimit
  BY <1>1, <1>2 DEF RequestInv, Phases, Attempts
<1>4. /\ local[r] \in Local /\ g.text \in Text /\ verdict \in Verdicts
      /\ local[r].rejections \in Seq(Verdicts) /\ Len(local[r].rejections) \in Nat
      /\ local[r].attempt \in Nat
  BY <1>1, VerdictTyped, AskAssumption DEF VarsTypeOK, Local
<1>5. /\ history \in Seq(Verdicts) /\ history # <<>>
      /\ Len(history) = Len(local[r].rejections) + 1 /\ Last(history) = verdict
  BY <1>4, OneMoreRejection
<1>6. ASSUME Exhausted(local[r].attempt), Respond(r, "llm", Failed("unsafe_sql")),
             local' = [local EXCEPT ![r].rejections = history, ![r].text = g.text]
      PROVE  AskInv'
  <2> DEFINE l == [[local[r] EXCEPT !.rejections = history] EXCEPT !.text = g.text]
             reply == Failed("unsafe_sql")
  <2>1. local' = [local EXCEPT ![r] = l]
    BY <1>1, <1>6 DEF VarsTypeOK
  <2> HIDE DEF history
  <2>2. /\ l \in Local /\ l.rejections = history /\ l.cap = local[r].cap
        /\ l.asked = local[r].asked
    BY <1>4, <1>5 DEF Local
  <2>3. /\ reply \in Response /\ reply.status = Documented(reply.code)
        /\ reply.code = "unsafe_sql" /\ reply.result.rows = 0
    BY FailedResponse DEF ErrorCodes
  <2>4. Respond(r, "llm", reply)
    BY <1>6
  <2> HIDE DEF l, reply
  <2>5. /\ local' \in [Requests -> Local] /\ local'[r] = l
        /\ \A q \in Requests : q # r => local'[q] = local[q]
    BY <1>1, <2>1, <2>2 DEF VarsTypeOK
  <2>6. Len(history) = AttemptLimit
    BY <1>3, <1>4, <1>5, <1>6, AttemptsPositive DEF Exhausted
  <2>7. "unsafe_sql" \notin LlmErrors \cup {"schema_unavailable"} /\ "unsafe_sql" # "ok"
    BY DEF LlmErrors
  <2>8. QED
    BY <1>2, <1>3, <2>2, <2>3, <2>4, <2>5, <2>6, <2>7, AttemptsPositive, RespondKeeps
<1>7. ASSUME ~Exhausted(local[r].attempt), Await(r, "llm", "llm"),
             local' = [local EXCEPT ![r].attempt = @ + 1, ![r].prompt = RetryPrompt(r, verdict),
                                    ![r].rejections = history, ![r].text = g.text],
             UNCHANGED response
      PROVE  AskInv'
  <2> DEFINE l == [[[[local[r] EXCEPT !.attempt = @ + 1] EXCEPT !.prompt = verdict]
                              EXCEPT !.rejections = history] EXCEPT !.text = g.text]
  <2>1. local' = [local EXCEPT ![r] = l]
    BY <1>1, <1>7 DEF VarsTypeOK, RetryPrompt
  <2> DEFINE next == local[r].attempt + 1
             numbered == [local[r] EXCEPT !.attempt = next]
             prompted == [numbered EXCEPT !.prompt = verdict]
  <2>2. next \in Nat /\ numbered = [local[r] EXCEPT !.attempt = @ + 1]
    BY <1>4
  <2> HIDE DEF history, verdict, next
  <2>3. /\ numbered \in Local /\ numbered.attempt = next
        /\ numbered.cap = local[r].cap /\ numbered.asked = local[r].asked
    BY <1>4, <2>2 DEF Local
  <2> HIDE DEF numbered
  <2>4. /\ prompted \in Local /\ prompted.attempt = next /\ prompted.prompt = verdict
        /\ prompted.cap = local[r].cap /\ prompted.asked = local[r].asked
    BY <1>4, <2>3 DEF Local
  <2> HIDE DEF prompted
  <2>5. /\ l \in Local /\ l.rejections = history /\ l.prompt = verdict
        /\ l.attempt = local[r].attempt + 1
        /\ l.cap = local[r].cap /\ l.asked = local[r].asked
    <3>1. l = [[prompted EXCEPT !.rejections = history] EXCEPT !.text = g.text]
      BY <2>2 DEF prompted, numbered
    <3>2. next = local[r].attempt + 1
      BY DEF next
    <3> HIDE DEF l
    <3>3. QED
      BY <1>4, <1>5, <2>4, <3>1, <3>2 DEF Local
  <2> HIDE DEF l
  <2>6. /\ local' \in [Requests -> Local] /\ local'[r] = l
        /\ \A q \in Requests : q # r => local'[q] = local[q]
    BY <1>1, <2>1, <2>5 DEF VarsTypeOK
  <2>7. askPc' = askPc
    BY <1>1, <1>7 DEF Await, VarsTypeOK
  <2>8. Len(history) < AttemptLimit
    BY <1>3, <1>4, <1>5, <1>7, AttemptsPositive DEF Exhausted
  <2>9. /\ schemaPhase' = schemaPhase /\ queryPhase' = queryPhase
        /\ schemaResult' = schemaResult
    BY <1>2 DEF DatabaseStill, schemaCall, queryCall
  <2>10. VarsTypeOK'
    BY <1>1, <1>2, <1>7, <2>6, <2>7
       DEF VarsTypeOK, DatabaseStill, schemaCall, queryCall
  <2>11. OthersSame(r)
    BY <1>2, <1>7, <2>6, <2>7 DEF OthersSame, DatabaseStill, schemaCall, queryCall
  <2>12. Phases(r)'
    BY <1>1, <2>7, <2>9 DEF RequestInv, Phases
  <2>13. Owning(r)'
    BY <1>1, <1>2, StillOwning DEF RequestInv
  <2>14. Attempts(r)'
    BY <1>2, <1>3, <1>5, <2>5, <2>6, <2>7, <2>8 DEF Attempts
  <2>15. Execution(r)'
    BY <1>1, <1>2, <1>3, <2>5, <2>6, <2>7, <2>9 DEF RequestInv, Execution
  <2>16. Answered(r)'
    BY <1>1, <1>2, <1>3, <1>7, <2>7, <2>9 DEF RequestInv, Answered
  <2>17. QED
    BY <2>10, <2>11, <2>12, <2>13, <2>14, <2>15, <2>16, OneRequest DEF RequestInv
<1>8. QED
  BY <1>6, <1>7 DEF GeneratedUnsafe

LEMMA ExecutedKeeps ==
    ASSUME AskInv, NEW r \in Requests, Executed(r)
    PROVE  AskInv'
<1>1. VarsTypeOK /\ RequestInv(r)
  BY DEF AskInv
<1> DEFINE out == queryResult[r]
           reply == IF out.code = "ok"
                     THEN Rendered("ok", ReportedSql(r), out.rows, out.truncated)
                     ELSE Failed(out.code)
<1>2. /\ DatabaseStill /\ UNCHANGED local
      /\ Respond(r, "query", reply) /\ askPc[r] = "query" /\ queryPhase[r] = "done"
  BY DEF Executed, DatabaseStill, Respond, Await
<1>3. schemaPhase[r] = "done" /\ out \in ExecuteOutcomes(queryArg[r])
  BY <1>1, <1>2 DEF RequestInv, Phases, Execution
<1>4. local[r] \in Local /\ local' \in [Requests -> Local] /\ queryArg[r] \in ExecCall
  BY <1>1, <1>2 DEF VarsTypeOK
<1>5. /\ Len(local[r].rejections) < AttemptLimit /\ Len(local[r].rejections) \in Nat
  BY <1>1, <1>2, <1>4 DEF RequestInv, Attempts, Local
<1> HIDE DEF out
<1>6. /\ out.code \in QueryCodes \cup {"ok"}
      /\ out.code = "ok" => out.rows \in Nat /\ out.truncated \in BOOLEAN
  BY <1>3, <1>4, OutcomesTyped
<1>7. CASE out.code = "ok"
  <2>1. reply = [status |-> 200, code |-> "ok", sql |-> queryArg[r].sql,
                  result |-> [rows |-> out.rows, truncated |-> out.truncated]]
    BY <1>7 DEF Rendered, ReportedSql
  <2> HIDE DEF reply
  <2>2. queryArg[r].sql \in Statement
    BY <1>4 DEF ExecCall
  <2>3. /\ reply \in Response /\ reply.status = Documented(reply.code)
        /\ reply.code = "ok" /\ reply.sql = queryArg[r].sql
        /\ reply.result.rows = out.rows
    BY <1>6, <1>7, <2>1, <2>2 DEF Response, Documented
  <2>4. "ok" \notin LlmErrors \cup {"schema_unavailable", "unsafe_sql"}
    BY DEF LlmErrors
  <2>5. QED
    BY <1>2, <1>3, <1>4, <1>5, <1>7, <2>3, <2>4, AttemptsPositive, RespondKeeps DEF out
<1>8. CASE out.code \in QueryCodes
  <2>1. reply = Failed(out.code) /\ out.code # "unsafe_sql" /\ out.code # "ok"
        /\ out.code \notin LlmErrors \cup {"schema_unavailable"}
    BY <1>8 DEF QueryCodes, LlmErrors
  <2>2. out.code \in ErrorCodes
    BY <1>8 DEF ErrorCodes
  <2> HIDE DEF reply
  <2>3. /\ reply \in Response /\ reply.status = Documented(reply.code)
        /\ reply.code = out.code /\ reply.result.rows = 0
    BY <2>1, <2>2, FailedResponse
  <2>4. QED
    BY <1>2, <1>3, <1>4, <1>5, <2>1, <2>3, AttemptsPositive, RespondKeeps
<1>9. QED
  BY <1>6, <1>7, <1>8

(* The steps of the two database calls: where a connection goes. *)
LEMMA SchemaServedKeeps ==
    ASSUME AskInv, NEW r \in Requests, Schema!Serve(r),
           UNCHANGED <<askPc, local, response, queryCall>>
    PROVE  AskInv'
<1>1. VarsTypeOK /\ RequestInv(r)
  BY DEF AskInv
<1>2. UNCHANGED <<askPc, local, response, queryPhase, queryArg, queryResult>>
  BY DEF queryCall
<1>3. ASSUME schemaPhase'[r] \in {"holding", "done"}, schemaPhase[r] \in {"queued", "holding"},
             schemaPhase' = [schemaPhase EXCEPT ![r] = schemaPhase'[r]],
             schemaResult' \in [Requests -> {"none", "ok", "schema_unavailable"}],
             \A q \in Requests : q # r => schemaResult'[q] = schemaResult[q],
             schemaPhase'[r] = "done" => schemaResult'[r] # "none",
             UNCHANGED schemaArg, holder' \in [Conns -> Requests \cup {Nobody}],
             \A q \in Requests : q # r => \A c \in Conns : holder'[c] = q <=> holder[c] = q,
             Owning(r)'
      PROVE  AskInv'
  <2>1. VarsTypeOK'
    BY <1>1, <1>2, <1>3 DEF VarsTypeOK, CallPhases
  <2>2. OthersSame(r)
    BY <1>1, <1>2, <1>3 DEF VarsTypeOK, OthersSame
  <2>3. askPc[r] = "schema" /\ queryPhase[r] = "idle"
    BY ZenonT(40), <1>1, <1>3 DEF RequestInv, Phases, VarsTypeOK
  <2>4. Phases(r)'
    BY <1>2, <1>3, <2>3 DEF Phases
  <2>5. Attempts(r)'
    BY <1>1, <1>2 DEF RequestInv, Attempts
  <2>6. Execution(r)'
    BY <1>1, <1>2, <1>3, <2>3 DEF RequestInv, Execution
  <2>7. Answered(r)'
    BY <1>1, <1>2 DEF RequestInv, Answered
  <2>8. QED
    BY <1>3, <2>1, <2>2, <2>4, <2>5, <2>6, <2>7, OneRequest DEF RequestInv
<1>4. CASE Schema!Refuse(r)
  <2>1. /\ schemaPhase[r] = "queued" /\ schemaPhase' = [schemaPhase EXCEPT ![r] = "done"]
        /\ schemaResult' = [schemaResult EXCEPT ![r] = "schema_unavailable"]
        /\ UNCHANGED <<schemaArg, holder>>
    BY <1>4 DEF Schema!Refuse, Schema!Step
  <2>2. queryPhase[r] = "idle"
    BY <1>1, <2>1 DEF RequestInv, Phases, VarsTypeOK
  <2>3. Owning(r)'
    BY <1>1, <1>2, <2>1, <2>2 DEF RequestInv, Owning
  <2>4. QED
    BY <1>1, <1>3, <2>1, <2>3 DEF VarsTypeOK
<1>5. ASSUME NEW c \in Conns, Schema!Acquire(r, c)
      PROVE  AskInv'
  <2>1. /\ schemaPhase[r] = "queued" /\ schemaPhase' = [schemaPhase EXCEPT ![r] = "holding"]
        /\ holder[c] = Nobody /\ holder' = [holder EXCEPT ![c] = r]
        /\ UNCHANGED <<schemaArg, schemaResult>>
    BY <1>5 DEF Schema!Acquire, Schema!Step
  <2>2. queryPhase[r] = "idle" /\ \A d \in Conns : holder[d] # r
    BY <1>1, <2>1 DEF RequestInv, Phases, Owning, VarsTypeOK
  <2>3. schemaPhase'[r] = "holding"
    BY <1>1, <2>1 DEF VarsTypeOK
  <2>4. \A d \in Conns : holder'[d] = IF d = c THEN r ELSE holder[d]
    BY <1>1, <2>1 DEF VarsTypeOK
  <2>5. Owning(r)'
    BY <2>2, <2>3, <2>4 DEF Owning
  <2>6. \A q \in Requests : q # r => \A d \in Conns : holder'[d] = q <=> holder[d] = q
    BY <2>1, <2>4, AskAssumption
  <2>7. QED
    BY <1>1, <1>3, <2>1, <2>3, <2>5, <2>6 DEF VarsTypeOK
<1>6. ASSUME NEW c \in Conns, Schema!Return(r, c)
      PROVE  AskInv'
  <2>1. /\ schemaPhase[r] = "holding" /\ schemaPhase' = [schemaPhase EXCEPT ![r] = "done"]
        /\ holder[c] = r /\ holder' = [holder EXCEPT ![c] = Nobody]
        /\ \E reply \in {"ok", "schema_unavailable"} :
               schemaResult' = [schemaResult EXCEPT ![r] = reply]
        /\ UNCHANGED schemaArg
    BY <1>6 DEF Schema!Return, Schema!Step, SchemaAnswers
  <2>2. schemaPhase'[r] = "done" /\ schemaResult'[r] # "none"
    BY <1>1, <2>1 DEF VarsTypeOK
  <2>3. \A d \in Conns : holder'[d] = IF d = c THEN Nobody ELSE holder[d]
    BY <1>1, <2>1 DEF VarsTypeOK
  <2>4. \A d \in Conns : holder'[d] # r
    BY <1>1, <2>1, <2>3, AskAssumption DEF RequestInv, Owning
  <2>5. Owning(r)'
    BY <2>4 DEF Owning
  <2>6. \A q \in Requests : q # r => \A d \in Conns : holder'[d] = q <=> holder[d] = q
    BY <2>1, <2>3, AskAssumption
  <2>7. QED
    BY <1>1, <1>3, <2>1, <2>2, <2>5, <2>6 DEF VarsTypeOK
<1>7. QED
  BY <1>4, <1>5, <1>6 DEF Schema!Serve

LEMMA RefusalIsOutcome ==
    \A call : QueryFailed("query_execution_failed") \in ExecuteOutcomes(call)
  BY DEF ExecuteOutcomes, QueryCodes

LEMMA QueryServedKeeps ==
    ASSUME AskInv, NEW r \in Requests, Exec!Serve(r),
           UNCHANGED <<askPc, local, response, schemaCall>>
    PROVE  AskInv'
<1>1. VarsTypeOK /\ RequestInv(r)
  BY DEF AskInv
<1>2. UNCHANGED <<askPc, local, response, schemaPhase, schemaArg, schemaResult>>
  BY DEF schemaCall
<1>3. ASSUME queryPhase'[r] \in {"holding", "done"}, queryPhase[r] \in {"queued", "holding"},
             queryPhase' = [queryPhase EXCEPT ![r] = queryPhase'[r]],
             DOMAIN queryResult' = Requests,
             \A q \in Requests : q # r => queryResult'[q] = queryResult[q],
             queryPhase'[r] = "done" => queryResult'[r] \in ExecuteOutcomes(queryArg[r]),
             UNCHANGED queryArg, holder' \in [Conns -> Requests \cup {Nobody}],
             \A q \in Requests : q # r => \A c \in Conns : holder'[c] = q <=> holder[c] = q,
             Owning(r)'
      PROVE  AskInv'
  <2>1. VarsTypeOK'
    BY <1>1, <1>2, <1>3 DEF VarsTypeOK, CallPhases
  <2>2. OthersSame(r)
    BY <1>1, <1>2, <1>3 DEF VarsTypeOK, OthersSame
  <2>3. askPc[r] = "query" /\ schemaPhase[r] = "done"
    BY <1>1, <1>3 DEF RequestInv, Phases, VarsTypeOK
  <2>4. Phases(r)'
    BY <1>2, <1>3, <2>3 DEF Phases
  <2>5. Attempts(r)'
    BY <1>1, <1>2 DEF RequestInv, Attempts
  <2>6. Execution(r)'
    BY <1>1, <1>2, <1>3, <2>3 DEF RequestInv, Execution
  <2>7. Answered(r)'
    BY <1>1, <1>2, <2>3 DEF RequestInv, Answered, LlmErrors
  <2>8. QED
    BY <1>3, <2>1, <2>2, <2>4, <2>5, <2>6, <2>7, OneRequest DEF RequestInv
<1>4. CASE Exec!Refuse(r)
  <2>1. /\ queryPhase[r] = "queued" /\ queryPhase' = [queryPhase EXCEPT ![r] = "done"]
        /\ queryResult' = [queryResult EXCEPT ![r] = QueryFailed("query_execution_failed")]
        /\ UNCHANGED <<queryArg, holder>>
    BY <1>4 DEF Exec!Refuse, Exec!Step
  <2>2. schemaPhase[r] = "done"
    BY <1>1, <2>1 DEF RequestInv, Phases, VarsTypeOK
  <2>3. Owning(r)'
    BY <1>1, <1>2, <2>1, <2>2 DEF RequestInv, Owning
  <2>4. queryResult'[r] \in ExecuteOutcomes(queryArg[r])
    BY <1>1, <2>1, RefusalIsOutcome DEF VarsTypeOK
  <2>5. QED
    BY <1>1, <1>3, <2>1, <2>3, <2>4 DEF VarsTypeOK
<1>5. ASSUME NEW c \in Conns, Exec!Acquire(r, c)
      PROVE  AskInv'
  <2>1. /\ queryPhase[r] = "queued" /\ queryPhase' = [queryPhase EXCEPT ![r] = "holding"]
        /\ holder[c] = Nobody /\ holder' = [holder EXCEPT ![c] = r]
        /\ UNCHANGED <<queryArg, queryResult>>
    BY <1>5 DEF Exec!Acquire, Exec!Step
  <2>2. schemaPhase[r] = "done" /\ \A d \in Conns : holder[d] # r
    BY <1>1, <2>1 DEF RequestInv, Phases, Owning, VarsTypeOK
  <2>3. queryPhase'[r] = "holding"
    BY <1>1, <2>1 DEF VarsTypeOK
  <2>4. \A d \in Conns : holder'[d] = IF d = c THEN r ELSE holder[d]
    BY <1>1, <2>1 DEF VarsTypeOK
  <2>5. Owning(r)'
    BY <2>2, <2>3, <2>4 DEF Owning
  <2>6. \A q \in Requests : q # r => \A d \in Conns : holder'[d] = q <=> holder[d] = q
    BY <2>1, <2>4, AskAssumption
  <2>7. QED
    BY <1>1, <1>3, <2>1, <2>3, <2>5, <2>6 DEF VarsTypeOK
<1>6. ASSUME NEW c \in Conns, Exec!Return(r, c)
      PROVE  AskInv'
  <2>1. /\ queryPhase[r] = "holding" /\ queryPhase' = [queryPhase EXCEPT ![r] = "done"]
        /\ holder[c] = r /\ holder' = [holder EXCEPT ![c] = Nobody]
        /\ \E reply \in ExecuteOutcomes(queryArg[r]) :
               queryResult' = [queryResult EXCEPT ![r] = reply]
        /\ UNCHANGED queryArg
    BY <1>6 DEF Exec!Return, Exec!Step
  <2>2. queryPhase'[r] = "done" /\ queryResult'[r] \in ExecuteOutcomes(queryArg[r])
    BY <1>1, <2>1 DEF VarsTypeOK
  <2>3. \A d \in Conns : holder'[d] = IF d = c THEN Nobody ELSE holder[d]
    BY <1>1, <2>1 DEF VarsTypeOK
  <2>4. \A d \in Conns : holder'[d] # r
    BY <1>1, <2>1, <2>3, AskAssumption DEF RequestInv, Owning
  <2>5. Owning(r)'
    BY <2>4 DEF Owning
  <2>6. \A q \in Requests : q # r => \A d \in Conns : holder'[d] = q <=> holder[d] = q
    BY <2>1, <2>3, AskAssumption
  <2>7. QED
    BY <1>1, <1>3, <2>1, <2>2, <2>5, <2>6 DEF VarsTypeOK
<1>7. QED
  BY <1>4, <1>5, <1>6 DEF Exec!Serve
-----------------------------------------------------------------------------
(* The invariant holds from the start, and every step keeps it.             *)
LEMMA AskStart == AskInit => AskInv
<1> SUFFICES ASSUME AskInit PROVE AskInv
  OBVIOUS
<1> DEFINE start == [asked |-> NoCap, cap |-> 0, attempt |-> 0, prompt |-> "question",
                     rejections |-> <<>>, text |-> NoText]
           failed == Failed("unexpected")
           silent == [[failed EXCEPT !.status = 0] EXCEPT !.code = "none"]
<1>1. start \in Local
  BY NoTextTyped DEF Local
<1>2. failed \in Response /\ failed.result.rows = 0
  BY FailedResponse DEF ErrorCodes, LlmErrors
<1> HIDE DEF failed
<1>3. /\ silent \in Response /\ silent.code = "none" /\ silent.result.rows = 0
      /\ NoCall \in ExecCall
  <2> DEFINE unsent == [failed EXCEPT !.status = 0]
  <2>1. unsent \in Response /\ unsent.result.rows = 0
    BY <1>2 DEF Response
  <2>2. silent = [unsent EXCEPT !.code = "none"]
    OBVIOUS
  <2> HIDE DEF unsent, silent
  <2>3. silent \in Response /\ silent.code = "none" /\ silent.result.rows = 0
    BY <2>1, <2>2 DEF Response
  <2>4. NoCall \in ExecCall
    BY DEF NoCall, Statement, ExecCall
  <2>5. QED
    BY <2>3, <2>4
<1>4. VarsTypeOK
  <2>1. local = [r \in Requests |-> start] /\ response = [r \in Requests |-> silent]
    BY DEF AskInit, failed
  <2> HIDE DEF start, silent
  <2>2. QED
    BY <1>1, <1>3, <2>1 DEF AskInit, VarsTypeOK, CallPhases
<1>5. ASSUME NEW r \in Requests
      PROVE  RequestInv(r)
  <2>1. /\ askPc[r] = "new" /\ local[r] = start /\ response[r] = silent
        /\ schemaPhase[r] = "idle" /\ queryPhase[r] = "idle"
        /\ \A c \in Conns : holder[c] # r
    BY AskAssumption DEF AskInit, failed
  <2> HIDE DEF silent
  <2>2. Phases(r) /\ Owning(r)
    BY <2>1 DEF Phases, Owning
  <2>3. Attempts(r) /\ Execution(r)
    BY <2>1 DEF Attempts, Execution
  <2>4. Answered(r)
    BY <1>3, <2>1 DEF Answered, LlmErrors
  <2>5. QED
    BY <2>2, <2>3, <2>4 DEF RequestInv
<1>6. QED
  BY <1>4, <1>5 DEF AskInv

LEMMA AskStutters ==
    ASSUME AskInv, UNCHANGED askVars
    PROVE  AskInv'
<1>1. UNCHANGED <<askPc, local, response, holder, schemaPhase, schemaArg, schemaResult,
                  queryPhase, queryArg, queryResult>>
  BY DEF askVars, schemaCall, queryCall
<1>2. VarsTypeOK'
  BY <1>1 DEF AskInv, VarsTypeOK
<1>3. ASSUME NEW r \in Requests
      PROVE  RequestInv(r)'
  <2>1. RequestInv(r)
    BY DEF AskInv
  <2>2. Phases(r)' /\ Owning(r)'
    BY <1>1, <2>1 DEF RequestInv, Phases, Owning
  <2>3. Attempts(r)' /\ Execution(r)'
    BY <1>1, <2>1 DEF RequestInv, Attempts, Execution
  <2>4. Answered(r)'
    BY <1>1, <2>1 DEF RequestInv, Answered
  <2>5. QED
    BY <2>2, <2>3, <2>4 DEF RequestInv
<1>4. QED
  BY <1>2, <1>3 DEF AskInv

LEMMA AskStep == AskInv /\ [AskNext]_askVars => AskInv'
<1> SUFFICES ASSUME AskInv, [AskNext]_askVars PROVE AskInv'
  OBVIOUS
<1>1. ASSUME NEW r \in Requests, NEW asked \in RequestedCaps, Ask(r, asked)
      PROVE  AskInv'
  BY <1>1, AskKeeps
<1>2. ASSUME NEW r \in Requests, Serve(r)
      PROVE  AskInv'
  BY <1>2, SchemaServedKeeps, QueryServedKeeps DEF Serve
<1>3. ASSUME NEW r \in Requests, LlmAnswers(r)
      PROVE  AskInv'
  BY <1>3, GenerationFailedKeeps, GeneratedSafeKeeps, GeneratedUnsafeKeeps DEF LlmAnswers
<1>4. ASSUME NEW r \in Requests, Resumes(r)
      PROVE  AskInv'
  BY <1>4, SchemaLoadedKeeps, SchemaFailedKeeps, ExecutedKeeps DEF Resumes
<1>5. QED
  BY <1>1, <1>2, <1>3, <1>4, AskStutters DEF AskNext

(* The invariant of the use case, with what the theorems below read off it. *)
LEMMA AskAlways == AskSpec => []AskInv
  BY AskStart, AskStep, PTL DEF AskSpec
-----------------------------------------------------------------------------
(* Types, and the attempt loop: "unsafe SQL" is answered after exactly the    *)
(* granted number of rejections (sql_generation_max_attempts, at least one),  *)
(* and every retry is told the last reason, whatever the LLM writes.          *)
THEOREM AttemptsDisciplined == AskSpec => []AttemptDiscipline
<1>1. ASSUME AskInv
      PROVE  AttemptDiscipline
  <2>1. AskTypeOK
    BY <1>1 DEF AskInv, VarsTypeOK, AskTypeOK
  <2>2. ASSUME NEW r \in Requests
        PROVE  /\ Len(local[r].rejections) <= AttemptLimit
               /\ response[r].code = "unsafe_sql" <=> Len(local[r].rejections) = AttemptLimit
               /\ askPc[r] = "llm" => local[r].attempt = Len(local[r].rejections) + 1
               /\ askPc[r] = "llm" =>
                      local[r].prompt = IF local[r].rejections = <<>> THEN "question"
                                        ELSE Last(local[r].rejections)
    <3>1. VarsTypeOK /\ Attempts(r) /\ Answered(r)
      BY <1>1 DEF AskInv, RequestInv
    <3>2. local[r].rejections \in Seq(Verdicts)
      BY <3>1 DEF VarsTypeOK, Local
    <3>3. Len(local[r].rejections) \in Nat
      BY <3>2
    <3>4. local[r].rejections = <<>> => Len(local[r].rejections) = 0
      OBVIOUS
    <3>5. askPc[r] \in {"new", "schema", "llm", "query", "answered"}
      BY <3>1 DEF VarsTypeOK
    <3>6. CASE askPc[r] = "answered"
      BY <3>1, <3>6 DEF Attempts
    <3>7. CASE askPc[r] # "answered"
      <4>1. Len(local[r].rejections) < AttemptLimit
        BY <3>1, <3>4, <3>5, <3>7, AttemptsPositive DEF Attempts
      <4>2. response[r].code = "none"
        BY <3>1, <3>7 DEF Answered
      <4>3. QED
        BY <3>1, <3>3, <4>1, <4>2, AttemptsPositive DEF Attempts
    <3>8. QED
      BY <3>6, <3>7
  <2>3. UnsafeOnlyAfterAllAttempts
    BY <2>2 DEF UnsafeOnlyAfterAllAttempts
  <2>4. RetryNamesLastRejection
    BY <2>2 DEF RetryNamesLastRejection
  <2>5. QED
    BY <2>1, <2>3, <2>4 DEF AttemptDiscipline
<1>2. QED
  BY <1>1, AskAlways, PTL

(* What the guard accepted, what the executor runs and what the client reads  *)
(* are one statement, under the cap of the request and of the server; an      *)
(* answer with rows comes from a statement that does not write.               *)
THEOREM OneStatement == AskSpec => []VettedExecutedReported
<1>1. ASSUME AskInv, NEW r \in Requests
      PROVE  /\ queryPhase[r] # "idle" =>
                    /\ Verdict(local[r].text) = "ok"
                    /\ queryArg[r].sql.limit <= queryArg[r].maxRows
                    /\ queryArg[r].maxRows <= Ceiling(local[r].asked)
             /\ response[r].result.rows <= Ceiling(local[r].asked)
             /\ response[r].code = "ok" =>
                    /\ queryPhase[r] = "done" /\ queryResult[r].code = "ok"
                    /\ response[r].sql = queryArg[r].sql
                    /\ ~queryArg[r].sql.writes
             /\ response[r].code \in LlmErrors \cup {"schema_unavailable"} =>
                    queryPhase[r] = "idle"
  <2>1. VarsTypeOK /\ Phases(r) /\ Execution(r) /\ Answered(r)
    BY <1>1 DEF AskInv, RequestInv
  <2>2. /\ local[r] \in Local /\ queryArg[r] \in ExecCall
        /\ askPc[r] \in {"new", "schema", "llm", "query", "answered"}
    BY <2>1 DEF VarsTypeOK
  <2>3. local[r].asked \in Nat \cup {NoCap}
    BY <2>2 DEF Local
  <2>4. /\ EffectiveCap(local[r].asked) \in Nat /\ Ceiling(local[r].asked) \in Nat
        /\ EffectiveCap(local[r].asked) <= Ceiling(local[r].asked)
    BY <2>3, CapsBound
  <2>5. queryPhase[r] # "idle" =>
            /\ Verdict(local[r].text) = "ok"
            /\ queryArg[r].maxRows = EffectiveCap(local[r].asked)
            /\ queryArg[r].sql.limit <= queryArg[r].maxRows
    BY <2>1, <2>2 DEF Phases, Execution
  <2>6. response[r].code = "ok" =>
            /\ queryPhase[r] = "done" /\ queryResult[r].code = "ok"
            /\ response[r].sql = queryArg[r].sql
            /\ response[r].result.rows = queryResult[r].rows
            /\ queryResult[r] \in ExecuteOutcomes(queryArg[r])
    BY <2>1 DEF Answered, Execution
  <2>7. response[r].code = "ok" =>
            /\ ~queryArg[r].sql.writes
            /\ queryResult[r].rows \in Nat /\ queryResult[r].rows <= queryArg[r].maxRows
    BY <2>2, <2>6, OutcomesTyped
  <2>8. response[r].code # "ok" => response[r].result.rows = 0
    BY <2>1 DEF Answered
  <2>9. response[r].result.rows <= Ceiling(local[r].asked)
    BY <2>4, <2>5, <2>6, <2>7, <2>8
  <2>10. response[r].code \in LlmErrors \cup {"schema_unavailable"} => queryPhase[r] = "idle"
    BY <2>1 DEF Answered
  <2>11. QED
    BY <2>4, <2>5, <2>6, <2>7, <2>9, <2>10
<1>2. AskInv => VettedExecutedReported
  BY <1>1 DEF VettedExecutedReported, OnlyVettedSqlExecuted, AnswerMatchesExecution
<1>3. QED
  BY <1>2, AskAlways, PTL

(* Cutting at the LIMIT the guard made of a literal one, and again at the cap,*)
(* is cutting at the LIMIT the LLM wrote and at the cap.                      *)
LEMMA CutTwice ==
    ASSUME NEW n \in Nat, NEW limit \in Nat \cup {NoLimit}, NEW maxRows \in Nat
    PROVE  Least(Least(n, CappedLimit(limit, maxRows)), maxRows)
               = Least(IF limit \in Nat THEN Least(n, limit) ELSE n, maxRows)
<1>1. CASE limit \in Nat /\ limit <= maxRows
  <2>1. CappedLimit(limit, maxRows) = limit
    BY <1>1 DEF CappedLimit
  <2>2. QED
    BY <1>1, <2>1
<1>2. CASE limit \in Nat /\ ~(limit <= maxRows)
  <2>1. CappedLimit(limit, maxRows) = maxRows
    BY <1>2 DEF CappedLimit
  <2>2. Least(Least(n, maxRows), maxRows) = Least(Least(n, limit), maxRows)
    BY <1>2 DEF Least
  <2>3. QED
    BY <1>2, <2>1, <2>2
<1>3. CASE limit \notin Nat
  <2>1. CappedLimit(limit, maxRows) = maxRows
    BY <1>3 DEF CappedLimit
  <2>2. Least(Least(n, maxRows), maxRows) = Least(n, maxRows)
    BY DEF Least
  <2>3. QED
    BY <1>3, <2>1, <2>2
<1>4. QED
  BY <1>1, <1>2, <1>3

(* The rows of a successful call, before and after the two cuts.              *)
LEMMA OutcomeRows ==
    ASSUME NEW call \in ExecCall, NEW out \in ExecuteOutcomes(call), out.code = "ok"
    PROVE  /\ out.matched \in Nat
           /\ out.rows = Least(Least(out.matched, call.sql.limit), call.maxRows)
<1>1. \A code \in QueryCodes : out # QueryFailed(code)
  BY DEF QueryFailed, QueryOutcome, QueryCodes
<1>2. PICK n \in {m \in Matches : ~call.sql.writes} :
          out = QueryAnswered(n, call.sql, call.maxRows)
  BY <1>1 DEF ExecuteOutcomes
<1>3. n \in Nat
  BY <1>2, MatchesAssumption
<1>4. out.matched = n /\ out.rows = Least(Least(n, call.sql.limit), call.maxRows)
  BY <1>2 DEF QueryAnswered, QueryOutcome
<1>5. QED
  BY <1>3, <1>4

(* An answer holds the rows the statement of the LLM would have returned, cut *)
(* at the cap of the request, though three places cut it and two awaits lie   *)
(* between what the LLM wrote and what the client gets.                       *)
THEOREM RowsDeliveredAsAsked == AskSpec => []RowsAsAsked
<1>1. ASSUME AskInv, NEW r \in Requests, response[r].code = "ok",
             local[r].text.query.limit # OddLimit
      PROVE  response[r].result.rows = Least(WantedRows(r), EffectiveCap(local[r].asked))
  <2> DEFINE limit == local[r].text.query.limit
             maxRows == EffectiveCap(local[r].asked)
             out == queryResult[r]
             call == queryArg[r]
  <2>1. VarsTypeOK /\ Phases(r) /\ Execution(r) /\ Answered(r)
    BY <1>1 DEF AskInv, RequestInv
  <2>2. local[r] \in Local /\ call \in ExecCall
    BY <2>1 DEF VarsTypeOK
  <2>3. local[r].text \in Text /\ local[r].asked \in Nat \cup {NoCap}
    BY <2>2 DEF Local
  <2>4. limit \in Nat \cup {NoLimit} /\ maxRows \in Nat
    <3>1. local[r].text.query \in Query
      BY <2>3 DEF Text
    <3>2. QED
      BY <1>1, <2>3, <3>1, CapsBound DEF Query
  <2>5. /\ queryPhase[r] = "done" /\ out.code = "ok"
        /\ response[r].result.rows = out.rows
    BY <1>1, <2>1 DEF Answered
  <2>6. askPc[r] # "new"
    BY <2>1, <2>5 DEF Phases
  <2>7. /\ out \in ExecuteOutcomes(call)
        /\ call.maxRows = maxRows /\ call.sql.limit = CappedLimit(limit, maxRows)
    BY <2>1, <2>5, <2>6 DEF Execution
  <2> HIDE DEF out, call, limit, maxRows
  <2>8. out.matched \in Nat /\ out.rows = Least(Least(out.matched, call.sql.limit), call.maxRows)
    BY <2>2, <2>5, <2>7, OutcomeRows
  <2>9. PICK n \in Nat : n = out.matched
    BY <2>8
  <2>10. out.rows = Least(IF limit \in Nat THEN Least(n, limit) ELSE n, maxRows)
    BY <2>4, <2>7, <2>8, <2>9, CutTwice
  <2>11. WantedRows(r) = IF limit \in Nat THEN Least(n, limit) ELSE n
    BY <2>9 DEF WantedRows, limit, out
  <2>12. QED
    BY <2>5, <2>10, <2>11 DEF maxRows
<1>2. AskInv => RowsAsAsked
  BY <1>1 DEF RowsAsAsked
<1>3. QED
  BY <1>2, AskAlways, PTL

(* However long the LLM takes and however often it is asked, no request owns  *)
(* a connection meanwhile, and none is left once the client is answered.      *)
THEOREM NoneHeldWhileGenerating == AskSpec => []NoConnectionWhileGenerating
<1>1. ASSUME AskInv, NEW r \in Requests, NEW c \in Conns, holder[c] = r
      PROVE  <<askPc[r], schemaPhase[r], queryPhase[r]>> \in
                 {<<"schema", "holding", "idle">>, <<"query", "done", "holding">>}
  <2>1. /\ Phases(r) /\ askPc[r] \in {"new", "schema", "llm", "query", "answered"}
        /\ schemaPhase[r] = "holding" \/ queryPhase[r] = "holding"
    BY <1>1 DEF AskInv, VarsTypeOK, RequestInv, Owning
  <2>2. \/ askPc[r] = "schema" /\ schemaPhase[r] = "holding" /\ queryPhase[r] = "idle"
        \/ askPc[r] = "query" /\ schemaPhase[r] = "done" /\ queryPhase[r] = "holding"
    BY <2>1 DEF Phases
  <2>3. QED
    BY <2>2
<1>2. AskInv => NoConnectionWhileGenerating
  BY <1>1 DEF NoConnectionWhileGenerating
<1>3. QED
  BY <1>2, AskAlways, PTL

(* The status of every answer is the one the comments of _STATUS_MAP and the  *)
(* documentation of the route promise for its error, through the walk of the  *)
(* exception's MRO that the handler takes.                                    *)
THEOREM StatusesDocumented == AskSpec => []StatusAsDocumented
<1>1. AskInv => StatusAsDocumented
  BY DEF AskInv, RequestInv, Answered, StatusAsDocumented, Documented
<1>2. QED
  BY <1>1, AskAlways, PTL
-----------------------------------------------------------------------------
(* The refinement: what AskCall sees of a request, as functions of its pc and *)
(* of the phases of its two calls.                                            *)
StageOf(pc) == IF pc = "llm" THEN "generating" ELSE pc
ClaimOf(schema, query) ==
    IF "holding" \in {schema, query} THEN "holding"
    ELSE IF "queued" \in {schema, query} THEN "queued" ELSE "none"

AskCallStutters == UNCHANGED <<AskStage, AskClaim, holder>>

LEMMA StagesOf ==
    /\ StageOf("new") = "new" /\ StageOf("schema") = "schema"
    /\ StageOf("llm") = "generating" /\ StageOf("query") = "query"
    /\ StageOf("answered") = "answered"
  BY DEF StageOf

LEMMA ClaimsOf ==
    /\ ClaimOf("idle", "idle") = "none" /\ ClaimOf("queued", "idle") = "queued"
    /\ ClaimOf("holding", "idle") = "holding" /\ ClaimOf("done", "idle") = "none"
    /\ ClaimOf("done", "queued") = "queued" /\ ClaimOf("done", "holding") = "holding"
    /\ ClaimOf("done", "done") = "none"
  BY DEF ClaimOf

(* A step that moves r alone moves its stage and its claim alone.             *)
LEMMA SeenOf ==
    ASSUME NEW r \in Requests,
           \A q \in Requests : q # r => /\ askPc'[q] = askPc[q]
                                        /\ schemaPhase'[q] = schemaPhase[q]
                                        /\ queryPhase'[q] = queryPhase[q]
    PROVE  /\ AskStage[r] = StageOf(askPc[r])
           /\ AskClaim[r] = ClaimOf(schemaPhase[r], queryPhase[r])
           /\ AskStage' = [AskStage EXCEPT ![r] = StageOf(askPc'[r])]
           /\ AskClaim' = [AskClaim EXCEPT ![r] = ClaimOf(schemaPhase'[r], queryPhase'[r])]
<1> DEFINE pc == askPc'[r]
           schema == schemaPhase'[r]
           query == queryPhase'[r]
<1>1. \A q \in Requests : /\ askPc'[q] = IF q = r THEN pc ELSE askPc[q]
                          /\ schemaPhase'[q] = IF q = r THEN schema ELSE schemaPhase[q]
                          /\ queryPhase'[q] = IF q = r THEN query ELSE queryPhase[q]
  OBVIOUS
<1>2. /\ AskStage = [q \in Requests |-> StageOf(askPc[q])]
      /\ AskStage' = [q \in Requests |-> StageOf(askPc'[q])]
  BY DEF AskStage, StageOf
<1>3. /\ AskClaim = [q \in Requests |-> ClaimOf(schemaPhase[q], queryPhase[q])]
      /\ AskClaim' = [q \in Requests |-> ClaimOf(schemaPhase'[q], queryPhase'[q])]
  BY DEF AskClaim, ClaimOf
<1> HIDE DEF pc, schema, query
<1>4. AskStage[r] = StageOf(askPc[r]) /\ AskClaim[r] = ClaimOf(schemaPhase[r], queryPhase[r])
  BY <1>2, <1>3
<1>5. AskStage' = [AskStage EXCEPT ![r] = StageOf(pc)]
  <2>1. \A q \in Requests : StageOf(askPc'[q]) = IF q = r THEN StageOf(pc) ELSE AskStage[q]
    BY <1>1, <1>2
  <2>2. QED
    BY <1>2, <2>1
<1>6. AskClaim' = [AskClaim EXCEPT ![r] = ClaimOf(schema, query)]
  <2>1. \A q \in Requests : ClaimOf(schemaPhase'[q], queryPhase'[q])
                               = IF q = r THEN ClaimOf(schema, query) ELSE AskClaim[q]
    BY <1>1, <1>3
  <2>2. QED
    BY <1>3, <2>1
<1>7. QED
  BY <1>4, <1>5, <1>6 DEF pc, schema, query

LEMMA AskLoads ==
    ASSUME AskInv, NEW r \in Requests, NEW asked \in RequestedCaps, Ask(r, asked)
    PROVE  Abstract!Takes(r)
<1>1. VarsTypeOK /\ Phases(r)
  BY DEF AskInv, RequestInv
<1>2. /\ askPc[r] = "new" /\ askPc' = [askPc EXCEPT ![r] = "schema"]
      /\ \E phase \in {"queued", "done"} : schemaPhase' = [schemaPhase EXCEPT ![r] = phase]
      /\ UNCHANGED <<queryPhase, holder>>
  BY DEF Ask, Await, queryCall, Schema!Call, Schema!AnswerFromMemory, Schema!Step
<1>3. schemaPhase[r] = "idle" /\ queryPhase[r] = "idle"
  BY <1>1, <1>2 DEF Phases
<1>4. /\ askPc'[r] = "schema" /\ schemaPhase'[r] \in {"queued", "done"}
      /\ queryPhase'[r] = "idle"
  BY <1>1, <1>2, <1>3 DEF VarsTypeOK
<1>5. ClaimOf(schemaPhase'[r], queryPhase'[r]) \in {"queued", "none"}
  BY <1>4, ClaimsOf
<1>6. /\ AskStage[r] = StageOf(askPc[r])
      /\ AskClaim[r] = ClaimOf(schemaPhase[r], queryPhase[r])
      /\ AskStage' = [AskStage EXCEPT ![r] = StageOf(askPc'[r])]
      /\ AskClaim' = [AskClaim EXCEPT ![r] = ClaimOf(schemaPhase'[r], queryPhase'[r])]
  BY <1>1, <1>2, SeenOf DEF VarsTypeOK
<1>7. Abstract!LoadSchema(r)
  BY <1>2, <1>3, <1>4, <1>5, <1>6, StagesOf, ClaimsOf DEF Abstract!LoadSchema, Abstract!Enter
<1>8. QED
  BY <1>7 DEF Abstract!Takes

LEMMA SchemaLoadedGenerates ==
    ASSUME AskInv, NEW r \in Requests, SchemaLoaded(r)
    PROVE  Abstract!Takes(r)
<1>1. VarsTypeOK /\ Phases(r)
  BY DEF AskInv, RequestInv
<1>2. /\ askPc[r] = "schema" /\ askPc' = [askPc EXCEPT ![r] = "llm"]
      /\ schemaPhase[r] = "done" /\ UNCHANGED <<schemaPhase, queryPhase, holder>>
  BY DEF SchemaLoaded, Await, queryCall, schemaCall
<1>3. queryPhase[r] = "idle" /\ askPc'[r] = "llm"
  BY <1>1, <1>2 DEF Phases, VarsTypeOK
<1>4. /\ AskStage[r] = StageOf(askPc[r])
      /\ AskClaim[r] = ClaimOf(schemaPhase[r], queryPhase[r])
      /\ AskStage' = [AskStage EXCEPT ![r] = StageOf(askPc'[r])]
      /\ AskClaim' = [AskClaim EXCEPT ![r] = ClaimOf(schemaPhase'[r], queryPhase'[r])]
  BY <1>1, <1>2, SeenOf DEF VarsTypeOK
<1>5. Abstract!Generate(r)
  BY <1>2, <1>3, <1>4, StagesOf, ClaimsOf DEF Abstract!Generate, Abstract!Enter
<1>6. QED
  BY <1>5 DEF Abstract!Takes

LEMMA GeneratedSafeRuns ==
    ASSUME AskInv, NEW r \in Requests, NEW g \in Generated, GeneratedSafe(r, g)
    PROVE  Abstract!Takes(r)
<1>1. VarsTypeOK /\ Phases(r)
  BY DEF AskInv, RequestInv
<1>2. /\ askPc[r] = "llm" /\ askPc' = [askPc EXCEPT ![r] = "query"]
      /\ queryPhase' = [queryPhase EXCEPT ![r] = "queued"]
      /\ UNCHANGED <<schemaPhase, holder>>
  BY DEF GeneratedSafe, Await, schemaCall, Exec!Call, Exec!Step
<1>3. /\ schemaPhase[r] = "done" /\ queryPhase[r] = "idle"
      /\ askPc'[r] = "query" /\ queryPhase'[r] = "queued"
  BY <1>1, <1>2 DEF Phases, VarsTypeOK
<1>4. /\ AskStage[r] = StageOf(askPc[r])
      /\ AskClaim[r] = ClaimOf(schemaPhase[r], queryPhase[r])
      /\ AskStage' = [AskStage EXCEPT ![r] = StageOf(askPc'[r])]
      /\ AskClaim' = [AskClaim EXCEPT ![r] = ClaimOf(schemaPhase'[r], queryPhase'[r])]
  BY <1>1, <1>2, SeenOf DEF VarsTypeOK
<1>5. Abstract!RunQuery(r)
  BY ZenonT(40), <1>2, <1>3, <1>4, StagesOf, ClaimsOf DEF Abstract!RunQuery, Abstract!Enter
<1>6. QED
  BY <1>5 DEF Abstract!Takes

(* An answer is given where AskCall allows its status.                        *)
LEMMA RespondAnswers ==
    ASSUME AskInv, NEW r \in Requests, NEW from \in {"schema", "llm", "query"}, NEW reply,
           Respond(r, from, reply), DatabaseStill,
           schemaPhase[r] = "done", queryPhase[r] \in {"idle", "done"},
           reply.status \in Abstract!Statuses(StageOf(from))
    PROVE  Abstract!Answer(r, response'[r].status)
<1>1. VarsTypeOK
  BY DEF AskInv
<1>2. /\ askPc[r] = from /\ askPc' = [askPc EXCEPT ![r] = "answered"]
      /\ response'[r] = reply /\ UNCHANGED <<schemaPhase, queryPhase, holder>>
  BY <1>1 DEF VarsTypeOK, Respond, Await, DatabaseStill, schemaCall, queryCall
<1>3. askPc'[r] = "answered"
  BY <1>1, <1>2 DEF VarsTypeOK
<1>4. /\ AskStage[r] = StageOf(askPc[r])
      /\ AskClaim[r] = ClaimOf(schemaPhase[r], queryPhase[r])
      /\ AskStage' = [AskStage EXCEPT ![r] = StageOf(askPc'[r])]
  BY <1>1, <1>2, SeenOf DEF VarsTypeOK
<1>5. UNCHANGED AskClaim
  BY <1>2 DEF AskClaim
<1>6. QED
  BY <1>2, <1>3, <1>4, <1>5, StagesOf, ClaimsOf DEF Abstract!Answer

LEMMA StatusesAllowed ==
    /\ Abstract!Statuses(StageOf("schema")) = {503}
    /\ Abstract!Statuses(StageOf("llm")) = {422, 500, 502, 503}
    /\ Abstract!Statuses(StageOf("query")) = {200, 422, 504}
  BY DEF Abstract!Statuses, StageOf

LEMMA SchemaFailedAnswers ==
    ASSUME AskInv, NEW r \in Requests, SchemaFailed(r)
    PROVE  Abstract!Answer(r, response'[r].status)
<1>1. VarsTypeOK /\ Phases(r) /\ Execution(r)
  BY DEF AskInv, RequestInv
<1>2. /\ schemaPhase[r] = "done" /\ schemaResult[r] # "ok" /\ DatabaseStill
      /\ Respond(r, "schema", Failed(schemaResult[r])) /\ askPc[r] = "schema"
  BY DEF SchemaFailed, DatabaseStill, Respond, Await
<1>3. schemaResult[r] = "schema_unavailable" /\ queryPhase[r] = "idle"
  BY <1>1, <1>2 DEF VarsTypeOK, Execution, Phases
<1>4. Failed("schema_unavailable").status = 503
  BY FailedResponse DEF ErrorCodes, Documented
<1>5. QED
  BY <1>2, <1>3, <1>4, StatusesAllowed, RespondAnswers

LEMMA GenerationFailedAnswers ==
    ASSUME AskInv, NEW r \in Requests, NEW code \in LlmErrors, GenerationFailed(r, code)
    PROVE  Abstract!Answer(r, response'[r].status)
<1>1. Phases(r)
  BY DEF AskInv, RequestInv
<1>2. DatabaseStill /\ Respond(r, "llm", Failed(code)) /\ askPc[r] = "llm"
  BY DEF GenerationFailed, DatabaseStill, Respond, Await
<1>3. schemaPhase[r] = "done" /\ queryPhase[r] = "idle"
  BY <1>1, <1>2 DEF Phases
<1>4. Failed(code).status = Documented(code)
  BY FailedResponse DEF ErrorCodes
<1>5. Documented(code) \in {500, 502, 503}
  BY DEF Documented, LlmErrors
<1>6. QED
  BY <1>2, <1>3, <1>4, <1>5, StatusesAllowed, RespondAnswers

(* A rejected text is answered, or stays inside the generation.               *)
LEMMA GeneratedUnsafeAnswers ==
    ASSUME AskInv, NEW r \in Requests, NEW g \in Generated, GeneratedUnsafe(r, g)
    PROVE  Abstract!Answer(r, response'[r].status) \/ AskCallStutters
<1>1. VarsTypeOK /\ Phases(r)
  BY DEF AskInv, RequestInv
<1>2. DatabaseStill /\ askPc[r] = "llm"
  BY DEF GeneratedUnsafe, DatabaseStill
<1>3. schemaPhase[r] = "done" /\ queryPhase[r] = "idle"
  BY <1>1, <1>2 DEF Phases
<1>4. CASE Respond(r, "llm", Failed("unsafe_sql"))
  <2>1. Failed("unsafe_sql").status = 422
    BY FailedResponse DEF ErrorCodes, Documented, LlmErrors
  <2>2. QED
    BY <1>2, <1>3, <1>4, <2>1, StatusesAllowed, RespondAnswers
<1>5. CASE Await(r, "llm", "llm")
  <2>1. UNCHANGED askPc
    BY <1>1, <1>2, <1>5 DEF Await, VarsTypeOK
  <2>2. QED
    BY <1>2, <2>1
       DEF AskCallStutters, AskStage, AskClaim, DatabaseStill, schemaCall, queryCall
<1>6. QED
  BY <1>4, <1>5 DEF GeneratedUnsafe

LEMMA ExecutedAnswers ==
    ASSUME AskInv, NEW r \in Requests, Executed(r)
    PROVE  Abstract!Answer(r, response'[r].status)
<1>1. VarsTypeOK /\ Phases(r) /\ Execution(r)
  BY DEF AskInv, RequestInv
<1> DEFINE out == queryResult[r]
           reply == IF out.code = "ok"
                     THEN Rendered("ok", ReportedSql(r), out.rows, out.truncated)
                     ELSE Failed(out.code)
<1>2. DatabaseStill /\ Respond(r, "query", reply) /\ askPc[r] = "query" /\ queryPhase[r] = "done"
  BY DEF Executed, DatabaseStill, Respond, Await
<1>3. schemaPhase[r] = "done" /\ out \in ExecuteOutcomes(queryArg[r]) /\ queryArg[r] \in ExecCall
  BY <1>1, <1>2 DEF Phases, Execution, VarsTypeOK
<1> HIDE DEF out
<1>4. out.code \in QueryCodes \cup {"ok"}
  BY <1>3, OutcomesTyped
<1>5. reply.status \in {200, 422, 504}
  <2>1. CASE out.code = "ok"
    BY <2>1 DEF Rendered
  <2>2. CASE out.code \in QueryCodes
    <3>1. out.code \in ErrorCodes /\ out.code # "ok"
      BY <2>2 DEF ErrorCodes, QueryCodes
    <3>2. Failed(out.code).status = Documented(out.code)
      BY <3>1, FailedResponse
    <3>3. Documented(out.code) \in {422, 504}
      BY <2>2 DEF Documented, QueryCodes
    <3>4. QED
      BY <3>1, <3>2, <3>3
  <2>3. QED
    BY <1>4, <2>1, <2>2
<1> HIDE DEF reply
<1>6. QED
  BY <1>2, <1>3, <1>5, StatusesAllowed, RespondAnswers

LEMMA SchemaServedTakes ==
    ASSUME AskInv, NEW r \in Requests, Schema!Serve(r),
           UNCHANGED <<askPc, local, response, queryCall>>
    PROVE  Abstract!Takes(r)
<1>1. VarsTypeOK /\ Phases(r)
  BY DEF AskInv, RequestInv
<1>2. UNCHANGED <<askPc, queryPhase>> /\ UNCHANGED AskStage
  BY DEF queryCall, AskStage
<1>3. ASSUME NEW c \in Conns, Schema!Acquire(r, c) \/ Schema!Return(r, c)
      PROVE  Abstract!Takes(r)
  <2>1. \E to \in {"holding", "done"} : schemaPhase' = [schemaPhase EXCEPT ![r] = to]
    BY <1>3 DEF Schema!Acquire, Schema!Return, Schema!Step
  <2>2. /\ AskClaim[r] = ClaimOf(schemaPhase[r], queryPhase[r])
        /\ AskClaim' = [AskClaim EXCEPT ![r] = ClaimOf(schemaPhase'[r], queryPhase'[r])]
    BY <1>1, <1>2, <2>1, SeenOf DEF VarsTypeOK
  <2>3. CASE Schema!Acquire(r, c)
    <3>1. /\ schemaPhase[r] = "queued" /\ schemaPhase'[r] = "holding"
          /\ holder[c] = Nobody /\ holder' = [holder EXCEPT ![c] = r]
      BY <1>1, <2>3 DEF Schema!Acquire, Schema!Step, VarsTypeOK
    <3>2. queryPhase[r] = "idle" /\ queryPhase'[r] = "idle"
      BY <1>1, <1>2, <3>1 DEF Phases, VarsTypeOK
    <3>3. Abstract!Borrow(r, c)
      BY <1>2, <2>2, <3>1, <3>2, ClaimsOf DEF Abstract!Borrow, Abstract!Claim
    <3>4. QED
      BY <3>3 DEF Abstract!Takes
  <2>4. CASE Schema!Return(r, c)
    <3>1. /\ schemaPhase[r] = "holding" /\ schemaPhase'[r] = "done"
          /\ holder[c] = r /\ holder' = [holder EXCEPT ![c] = Nobody]
      BY <1>1, <2>4 DEF Schema!Return, Schema!Step, VarsTypeOK
    <3>2. queryPhase[r] = "idle" /\ queryPhase'[r] = "idle"
      BY <1>1, <1>2, <3>1 DEF Phases, VarsTypeOK
    <3>3. Abstract!GiveBack(r, c)
      BY <1>2, <2>2, <3>1, <3>2, ClaimsOf DEF Abstract!GiveBack, Abstract!Claim
    <3>4. QED
      BY <3>3 DEF Abstract!Takes
  <2>5. QED
    BY <1>3, <2>3, <2>4
<1>4. CASE Schema!Refuse(r)
  <2>1. /\ schemaPhase[r] = "queued" /\ schemaPhase' = [schemaPhase EXCEPT ![r] = "done"]
        /\ UNCHANGED holder
    BY <1>4 DEF Schema!Refuse, Schema!Step
  <2>2. /\ schemaPhase'[r] = "done" /\ queryPhase[r] = "idle" /\ queryPhase'[r] = "idle"
    BY <1>1, <1>2, <2>1 DEF Phases, VarsTypeOK
  <2>3. /\ AskClaim[r] = ClaimOf(schemaPhase[r], queryPhase[r])
        /\ AskClaim' = [AskClaim EXCEPT ![r] = ClaimOf(schemaPhase'[r], queryPhase'[r])]
    BY <1>1, <1>2, <2>1, SeenOf DEF VarsTypeOK
  <2>4. Abstract!Refused(r)
    BY <1>2, <2>1, <2>2, <2>3, ClaimsOf DEF Abstract!Refused, Abstract!Claim
  <2>5. QED
    BY <2>4 DEF Abstract!Takes
<1>5. QED
  BY <1>3, <1>4 DEF Schema!Serve

LEMMA QueryServedTakes ==
    ASSUME AskInv, NEW r \in Requests, Exec!Serve(r),
           UNCHANGED <<askPc, local, response, schemaCall>>
    PROVE  Abstract!Takes(r)
<1>1. VarsTypeOK /\ Phases(r)
  BY DEF AskInv, RequestInv
<1>2. UNCHANGED <<askPc, schemaPhase>> /\ UNCHANGED AskStage
  BY DEF schemaCall, AskStage
<1>3. ASSUME NEW c \in Conns, Exec!Acquire(r, c) \/ Exec!Return(r, c)
      PROVE  Abstract!Takes(r)
  <2>1. \E to \in {"holding", "done"} : queryPhase' = [queryPhase EXCEPT ![r] = to]
    BY <1>3 DEF Exec!Acquire, Exec!Return, Exec!Step
  <2>2. /\ AskClaim[r] = ClaimOf(schemaPhase[r], queryPhase[r])
        /\ AskClaim' = [AskClaim EXCEPT ![r] = ClaimOf(schemaPhase'[r], queryPhase'[r])]
    BY <1>1, <1>2, <2>1, SeenOf DEF VarsTypeOK
  <2>3. CASE Exec!Acquire(r, c)
    <3>1. /\ queryPhase[r] = "queued" /\ queryPhase'[r] = "holding"
          /\ holder[c] = Nobody /\ holder' = [holder EXCEPT ![c] = r]
      BY <1>1, <2>3 DEF Exec!Acquire, Exec!Step, VarsTypeOK
    <3>2. schemaPhase[r] = "done" /\ schemaPhase'[r] = "done"
      BY <1>1, <1>2, <3>1 DEF Phases, VarsTypeOK
    <3>3. Abstract!Borrow(r, c)
      BY <1>2, <2>2, <3>1, <3>2, ClaimsOf DEF Abstract!Borrow, Abstract!Claim
    <3>4. QED
      BY <3>3 DEF Abstract!Takes
  <2>4. CASE Exec!Return(r, c)
    <3>1. /\ queryPhase[r] = "holding" /\ queryPhase'[r] = "done"
          /\ holder[c] = r /\ holder' = [holder EXCEPT ![c] = Nobody]
      BY <1>1, <2>4 DEF Exec!Return, Exec!Step, VarsTypeOK
    <3>2. schemaPhase[r] = "done" /\ schemaPhase'[r] = "done"
      BY <1>1, <1>2, <3>1 DEF Phases, VarsTypeOK
    <3>3. Abstract!GiveBack(r, c)
      BY <1>2, <2>2, <3>1, <3>2, ClaimsOf DEF Abstract!GiveBack, Abstract!Claim
    <3>4. QED
      BY <3>3 DEF Abstract!Takes
  <2>5. QED
    BY <1>3, <2>3, <2>4
<1>4. CASE Exec!Refuse(r)
  <2>1. /\ queryPhase[r] = "queued" /\ queryPhase' = [queryPhase EXCEPT ![r] = "done"]
        /\ UNCHANGED holder
    BY <1>4 DEF Exec!Refuse, Exec!Step
  <2>2. /\ queryPhase'[r] = "done" /\ schemaPhase[r] = "done" /\ schemaPhase'[r] = "done"
    BY <1>1, <1>2, <2>1 DEF Phases, VarsTypeOK
  <2>3. /\ AskClaim[r] = ClaimOf(schemaPhase[r], queryPhase[r])
        /\ AskClaim' = [AskClaim EXCEPT ![r] = ClaimOf(schemaPhase'[r], queryPhase'[r])]
    BY <1>1, <1>2, <2>1, SeenOf DEF VarsTypeOK
  <2>4. Abstract!Refused(r)
    BY <1>2, <2>1, <2>2, <2>3, ClaimsOf DEF Abstract!Refused, Abstract!Claim
  <2>5. QED
    BY <2>4 DEF Abstract!Takes
<1>5. QED
  BY <1>3, <1>4 DEF Exec!Serve

LEMMA AskCallStart == AskInit => Abstract!AskCallInit
<1>1. ASSUME AskInit
      PROVE  Abstract!AskCallInit
  <2>1. /\ AskStage = [r \in Requests |-> StageOf(askPc[r])]
        /\ AskClaim = [r \in Requests |-> ClaimOf(schemaPhase[r], queryPhase[r])]
    BY DEF AskStage, AskClaim, StageOf, ClaimOf
  <2>2. \A r \in Requests : StageOf(askPc[r]) = "new"
                            /\ ClaimOf(schemaPhase[r], queryPhase[r]) = "none"
    BY <1>1, StagesOf, ClaimsOf DEF AskInit
  <2>3. QED
    BY <2>1, <2>2 DEF Abstract!AskCallInit
<1>2. QED
  BY <1>1

LEMMA AskCallSteps ==
    AskInv /\ [AskNext]_askVars => AskCallStep \/ AskCallStutters
<1> SUFFICES ASSUME AskInv, [AskNext]_askVars PROVE AskCallStep \/ AskCallStutters
  OBVIOUS
<1>1. ASSUME NEW r \in Requests, NEW asked \in RequestedCaps, Ask(r, asked)
      PROVE  AskCallStep
  BY <1>1, AskLoads DEF AskCallStep
<1>2. ASSUME NEW r \in Requests, Serve(r)
      PROVE  AskCallStep
  BY <1>2, SchemaServedTakes, QueryServedTakes DEF Serve, AskCallStep
<1>3. ASSUME NEW r \in Requests, LlmAnswers(r)
      PROVE  AskCallStep \/ AskCallStutters
  BY <1>3, GenerationFailedAnswers, GeneratedSafeRuns, GeneratedUnsafeAnswers
     DEF LlmAnswers, AskCallStep
<1>4. ASSUME NEW r \in Requests, Resumes(r)
      PROVE  AskCallStep
  BY <1>4, SchemaLoadedGenerates, SchemaFailedAnswers, ExecutedAnswers
     DEF Resumes, AskCallStep
<1>5. CASE UNCHANGED askVars
  BY <1>5 DEF askVars, schemaCall, queryCall, AskCallStutters, AskStage, AskClaim
<1>6. QED
  BY <1>1, <1>2, <1>3, <1>4, <1>5 DEF AskNext

(* AskQuestionUseCase.execute, with its attempts, texts and verdicts, does to *)
(* the connections and to its client only what AskCall says: what Service     *)
(* composes with the middlewares and the lifespan stands for the real use     *)
(* case, for every number of requests and connections.                        *)
THEOREM ExecuteIsAskCall == AskSpec => ImplementsAskCall
<1>1. AskInv /\ [AskNext]_askVars
          => [AskCallStep]_<<AskStage, AskClaim, holder>>
  BY AskCallSteps DEF AskCallStutters
<1>2. QED
  BY <1>1, AskCallStart, AskAlways, PTL DEF AskSpec, ImplementsAskCall
=============================================================================
