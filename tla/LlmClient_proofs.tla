-------------------------- MODULE LlmClient_proofs --------------------------
(***************************************************************************)
(* What generate_sql does with any replies, for any number of concurrent   *)
(* calls: the retry rule, the answer as a function of the last reply, the  *)
(* shared counters.  And what _introspect and render_for_prompt tell the   *)
(* model of any database: which rows the joins of the query give for a     *)
(* column, how they are grouped, and that nothing of the database is lost. *)
(***************************************************************************)
EXTENDS LlmClient, SequenceLemmas
-----------------------------------------------------------------------------
(* Replies *)

Kinds == {"timeout", "transport", "unexpected", "http_error", "not_json",
          "bad_content", "empty_sql", "sql"}

(* A reply takes one branch; the two that are tried again are the replies   *)
(* without a usable statement.                                              *)
LEMMA KindOfReply ==
    ASSUME NEW reply \in Reply
    PROVE  /\ Kind(reply) \in Kinds
           /\ Retriable(Kind(reply)) <=> Unusable(reply)
           /\ ParseSql(reply) \in Sources
           /\ Kind(reply) = "sql" => ParseSql(reply) # "nothing"
  BY DEF Reply, Kind, Kinds, ParseSql, Retriable, Unusable, Sources

(* What the caller gets after a last reply.                                 *)
SourceOf(reply) == IF Kind(reply) = "sql" THEN ParseSql(reply) ELSE "nothing"

LEMMA ResultsTyped ==
    ASSUME NEW reply \in Reply
    PROVE  ResultOf(Kind(reply)) \in LlmCodes /\ SourceOf(reply) \in Sources
  BY KindOfReply DEF ResultOf, Kinds, LlmCodes, SourceOf, Sources

(* The answer the properties ask for is the one the branch gives.           *)
LEMMA AnswerOfReply ==
    ASSUME NEW reply \in Reply
    PROVE  LET out == ResultOf(Kind(reply))
               from == SourceOf(reply)
           IN  /\ out = "ok" <=> from # "nothing"
               /\ out = "ok" <=>
                      HasText(reply) /\ reply.json # "blank_sql" /\ ~RejectsUsage(reply)
               /\ out = "llm_bad_response" <=>
                      Unusable(reply) \/ (reply.post = "answered" /\ reply.holds = "not_json")
               /\ out = "unexpected" <=>
                      \/ reply.post = "unexpected"
                      \/ reply.post = "answered" /\ reply.holds = "undecodable"
                      \/ HasText(reply) /\ RejectsUsage(reply)
               /\ reply.json = "sql" => from \in {"json", "nothing"}
               /\ from = "raw" => reply.json # "sql" /\ reply.fence # "sql"
<1>1. RejectsUsage(reply) \in BOOLEAN
  BY DEF RejectsUsage
<1>2. QED
  BY <1>1 DEF Reply, Kind, ParseSql, ResultOf, SourceOf, Unusable, HasText
-----------------------------------------------------------------------------
(* The invariant: between its POSTs a call has at most one reply behind it, *)
(* a bad one; when it is over, it has what its last reply gives.            *)
Progress(r) ==
    LET n == Len(replies[r])
    IN  /\ llPc[r] # "done" => llOut[r] = "none"
        /\ llPc[r] = "idle" => n = 0
        /\ llPc[r] = "posting" => n \in 0..1 /\ (n = 1 => Unusable(replies[r][1]))
        /\ llPc[r] = "done" =>
               /\ \/ n = 1 /\ ~Unusable(replies[r][1])
                  \/ n = 2 /\ Unusable(replies[r][1])
               /\ llOut[r] = ResultOf(Kind(replies[r][n]))
               /\ sqlFrom[r] = SourceOf(replies[r][n])

ClientInv ==
    /\ LlmTypeOK
    /\ replies \in [Requests -> Seq(Replies)]
    /\ \A r \in Requests : Progress(r)

(* The metrics stay natural numbers, whichever labels a reply has.          *)
LEMMA MetersTyped ==
    ASSUME LlmTypeOK, NEW labels, NEW recorded
    PROVE  /\ [l \in LlmLabels |-> llmTotal[l] + (IF l \in labels THEN 1 ELSE 0)]
                  \in [LlmLabels -> Nat]
           /\ llmLatency + 1 \in Nat
           /\ [k \in TokenKinds |-> tokensTotal[k] + (IF k \in recorded THEN 1 ELSE 0)]
                  \in [TokenKinds -> Nat]
  BY DEF LlmTypeOK

(* A history of at most two replies is what the type says it is.            *)
LEMMA ShortHistory ==
    ASSUME NEW s \in Seq(Replies), Len(s) \in 0..2
    PROVE  s \in UNION {[1..n -> Replies] : n \in 0..2}
<1>1. s \in [1..Len(s) -> Replies]
  OBVIOUS
<1>2. QED
  BY <1>1

LEMMA ClientInit == LlmInit => ClientInv
<1> SUFFICES ASSUME LlmInit PROVE ClientInv
  OBVIOUS
<1>1. replies \in [Requests -> Seq(Replies)] /\ \A r \in Requests : Len(replies[r]) = 0
  BY DEF LlmInit
<1>2. \A r \in Requests : replies[r] \in UNION {[1..n -> Replies] : n \in 0..2}
  BY <1>1, ShortHistory
<1>3. LlmTypeOK
  BY <1>2 DEF LlmInit, LlmTypeOK, LlmCodes, Sources
<1>4. \A r \in Requests : Progress(r)
  BY <1>1 DEF LlmInit, Progress
<1>5. QED
  BY <1>1, <1>3, <1>4 DEF ClientInv

(* The call posts its first prompt.                                         *)
LEMMA GenerateSqlKeeps ==
    ASSUME ClientInv, NEW r \in Requests, GenerateSql(r)
    PROVE  ClientInv'
<1>1. LlmTypeOK'
  BY DEF ClientInv, LlmTypeOK, GenerateSql, meterVars
<1>2. \A q \in Requests : Progress(q)'
  BY DEF ClientInv, LlmTypeOK, Progress, GenerateSql
<1>3. QED
  BY <1>1, <1>2 DEF ClientInv, GenerateSql

(* A reply ends the call or, if it is the first and a bad one, does not.    *)
LEMMA PostReturnsKeeps ==
    ASSUME ClientInv, NEW r \in Requests, NEW reply \in Replies, PostReturns(r, reply)
    PROVE  ClientInv'
<1> DEFINE n == Len(replies[r])
           next == Append(replies[r], reply)
<1>1. reply \in Reply /\ (Retriable(Kind(reply)) <=> Unusable(reply))
  BY RepliesAssumption, KindOfReply
<1>2. /\ replies[r] \in Seq(Replies)
      /\ n \in 0..1 /\ (n = 1 => Unusable(replies[r][1]))
  BY DEF ClientInv, Progress, PostReturns
<1>3. /\ next \in Seq(Replies) /\ Len(next) = n + 1 /\ next[n + 1] = reply
      /\ n = 1 => next[1] = replies[r][1]
  BY <1>2
<1>4. replies' = [replies EXCEPT ![r] = next]
  BY DEF PostReturns
<1>5. replies' \in [Requests -> Seq(Replies)]
  BY <1>3, <1>4 DEF ClientInv
<1>6. replies'[r] = next /\ \A q \in Requests : q # r => replies'[q] = replies[q]
  BY <1>4 DEF ClientInv
<1>7. \A q \in Requests : replies'[q] \in UNION {[1..k -> Replies] : k \in 0..2}
  <2>1. next \in Seq(Replies) /\ Len(next) \in 0..2
    <3> HIDE DEF n, next
    <3> QED
      BY <1>2, <1>3
  <2>2. next \in UNION {[1..k -> Replies] : k \in 0..2}
    BY <2>1, ShortHistory
  <2>3. QED
    BY <1>6, <2>2 DEF ClientInv, LlmTypeOK
<1>8. n = Len(replies[r])
  OBVIOUS
<1> HIDE DEF n, next
<1>9. /\ llmTotal' \in [LlmLabels -> Nat] /\ llmLatency' \in Nat /\ tokensTotal' \in [TokenKinds -> Nat]
      /\ database' \in Databases
  BY MetersTyped DEF PostReturns, ClientInv, LlmTypeOK
<1>10. CASE TriesAgain(r, Kind(reply))
  <2>1. UNCHANGED <<llPc, llOut, sqlFrom>>
    BY <1>10 DEF PostReturns
  <2>2. LlmTypeOK'
    BY <1>7, <1>9, <2>1 DEF ClientInv, LlmTypeOK
  <2>3. n = 0 /\ Unusable(reply)
    BY <1>1, <1>8, <1>10 DEF TriesAgain
  <2>4. Progress(r)'
    <3>1. llPc'[r] = "posting" /\ llOut'[r] = "none"
      BY <2>1 DEF PostReturns, ClientInv, Progress
    <3>2. Len(replies'[r]) = 1 /\ replies'[r][1] = reply
      BY <1>3, <1>6, <2>3
    <3>3. QED
      BY <2>3, <3>1, <3>2 DEF Progress
  <2>5. \A q \in Requests : q # r => Progress(q)'
    BY <1>6, <2>1 DEF ClientInv, Progress
  <2>6. QED
    BY <1>5, <2>2, <2>4, <2>5 DEF ClientInv
<1>11. CASE ~TriesAgain(r, Kind(reply))
  <2>1. /\ llPc' = [llPc EXCEPT ![r] = "done"]
        /\ llOut' = [llOut EXCEPT ![r] = ResultOf(Kind(reply))]
        /\ sqlFrom' = [sqlFrom EXCEPT ![r] = SourceOf(reply)]
    BY <1>11 DEF PostReturns, SourceOf
  <2>2. LlmTypeOK'
    BY <1>1, <1>7, <1>9, <2>1, ResultsTyped DEF ClientInv, LlmTypeOK
  <2>3. n = 1 \/ ~Unusable(reply)
    BY <1>1, <1>2, <1>8, <1>11 DEF TriesAgain
  <2>4. Progress(r)'
    <3>1. /\ llPc'[r] = "done" /\ llOut'[r] = ResultOf(Kind(reply))
          /\ sqlFrom'[r] = SourceOf(reply)
      BY <2>1 DEF ClientInv, LlmTypeOK
    <3>2. /\ Len(replies'[r]) = n + 1 /\ replies'[r][n + 1] = reply
          /\ n = 1 => Unusable(replies'[r][1])
      BY <1>2, <1>3, <1>6
    <3>3. CASE n = 0
      <4>1. Len(replies'[r]) = 1 /\ replies'[r][1] = reply /\ ~Unusable(reply)
        BY <2>3, <3>2, <3>3
      <4>2. QED
        BY <3>1, <4>1 DEF Progress
    <3>4. CASE n = 1
      <4>1. Len(replies'[r]) = 2 /\ replies'[r][2] = reply /\ Unusable(replies'[r][1])
        BY <3>2, <3>4
      <4>2. QED
        BY <3>1, <4>1 DEF Progress
    <3>5. QED
      BY <1>2, <3>3, <3>4
  <2>5. \A q \in Requests : q # r => Progress(q)'
    BY <1>6, <2>1 DEF ClientInv, LlmTypeOK, Progress
  <2>6. QED
    BY <1>5, <2>2, <2>4, <2>5 DEF ClientInv
<1>12. QED
  BY <1>10, <1>11

LEMMA ClientInvariant == LlmSpec => []ClientInv
<1>1. LlmInit => ClientInv
  BY ClientInit
<1>2. ClientInv /\ [LlmNext]_llmVars => ClientInv'
  <2> SUFFICES ASSUME ClientInv, [LlmNext]_llmVars PROVE ClientInv'
    OBVIOUS
  <2>1. CASE LlmNext
    BY <2>1, GenerateSqlKeeps, PostReturnsKeeps DEF LlmNext
  <2>2. CASE UNCHANGED llmVars
    BY <2>2 DEF llmVars, callVars, meterVars, ClientInv, LlmTypeOK, Progress
  <2>3. QED
    BY <2>1, <2>2
<1>3. QED
  BY <1>1, <1>2, PTL DEF LlmSpec
-----------------------------------------------------------------------------
(* generate_sql sends a second POST exactly after a first reply without a   *)
(* usable statement, and never a third: whatever the endpoint answers, a    *)
(* call costs at most two requests.                                         *)
THEOREM RetriesOnce == LlmSpec => []LlmInv
<1>1. ClientInv => LlmInv
  <2>1. ASSUME ClientInv, NEW r \in Requests
        PROVE  /\ Len(replies[r]) <= 2
               /\ Len(replies[r]) = 2 => Unusable(replies[r][1])
               /\ llPc[r] = "done" /\ Len(replies[r]) = 1 => ~Unusable(replies[r][1])
    <3>1. /\ llPc[r] \in {"idle", "posting", "done"}
          /\ replies[r] \in Seq(Replies) /\ Len(replies[r]) \in Nat
          /\ Progress(r)
      BY <2>1 DEF ClientInv, LlmTypeOK
    <3> DEFINE n == Len(replies[r])
    <3>2. n \in Nat
      BY <3>1
    <3>3. /\ llPc[r] = "idle" => n = 0
          /\ llPc[r] = "posting" => n \in 0..1
          /\ llPc[r] = "done" => \/ n = 1 /\ ~Unusable(replies[r][1])
                                 \/ n = 2 /\ Unusable(replies[r][1])
      BY <3>1 DEF Progress
    <3> HIDE DEF n
    <3>4. /\ n <= 2
          /\ n = 2 => Unusable(replies[r][1])
          /\ llPc[r] = "done" /\ n = 1 => ~Unusable(replies[r][1])
      BY <3>1, <3>2, <3>3 DEF Unusable
    <3>5. QED
      BY <3>4 DEF n
  <2>2. QED
    BY <2>1 DEF ClientInv, LlmInv, OneRetryAfterBadReply
<1>2. QED
  BY <1>1, ClientInvariant, PTL

(* What generate_sql returns or raises follows from the last reply alone.   *)
THEOREM LastReplyDecides == LlmSpec => []AnswerIsLastReply
<1>1. ClientInv => AnswerIsLastReply
  <2> SUFFICES ASSUME ClientInv, NEW r \in Requests, llPc[r] = "done"
               PROVE  LET last == Last(replies[r])
                      IN  /\ last \in Reply
                          /\ llOut[r] = ResultOf(Kind(last)) /\ sqlFrom[r] = SourceOf(last)
    BY AnswerOfReply DEF AnswerIsLastReply
  <2>1. replies[r] \in Seq(Replies) /\ Len(replies[r]) \in 1..2
    BY DEF ClientInv, Progress
  <2>2. Last(replies[r]) = replies[r][Len(replies[r])]
    BY DEF Last
  <2>3. Last(replies[r]) \in Reply
    <3>1. replies[r][Len(replies[r])] \in Replies
      BY <2>1
    <3>2. QED
      BY <2>2, <3>1, RepliesAssumption
  <2>4. QED
    BY <2>2, <2>3 DEF ClientInv, Progress
<1>2. QED
  BY <1>1, ClientInvariant, PTL
-----------------------------------------------------------------------------
(* Counters *)

(* A POST that comes back is a new one, and the replies before it stay.     *)
LEMMA NewPost ==
    ASSUME ClientInv, NEW r \in Requests, NEW reply \in Replies, PostReturns(r, reply)
    PROVE  \E x : /\ x \notin Posts /\ Posts' = Posts \cup {x} /\ ReplyTo(x)' = reply
                  /\ \A p \in Posts : ReplyTo(p)' = ReplyTo(p)
<1>1. PICK n : n = Len(replies[r])
  OBVIOUS
<1> DEFINE x == <<r, n + 1>>
<1>2. \A q \in Requests : replies[q] \in Seq(Replies)
  BY DEF ClientInv
<1>3. /\ replies'[r] = Append(replies[r], reply)
      /\ \A q \in Requests : q # r => replies'[q] = replies[q]
  BY DEF PostReturns, ClientInv
<1>4. n \in Nat /\ DOMAIN replies[r] = 1..n /\ DOMAIN replies'[r] = (1..n) \cup {n + 1}
  BY <1>1, <1>2, <1>3
<1>5. replies'[r][n + 1] = reply /\ \A i \in 1..n : replies'[r][i] = replies[r][i]
  BY <1>1, <1>2, <1>3
<1>6. x \notin Posts
  BY <1>4 DEF Posts
<1>7. Posts' = Posts \cup {x}
  BY <1>3, <1>4 DEF Posts
<1>8. ReplyTo(x)' = reply
  <2>1. x[1] = r /\ x[2] = n + 1
    OBVIOUS
  <2>2. QED
    BY <1>5, <2>1 DEF ReplyTo
<1>9. \A p \in Posts : ReplyTo(p)' = ReplyTo(p)
  BY <1>3, <1>4, <1>5 DEF Posts, ReplyTo
<1> HIDE DEF x
<1>20. QED
  BY <1>6, <1>7, <1>8, <1>9

(* The POSTs are finitely many.                                             *)
LEMMA PostsFinite ==
    ASSUME ClientInv, IsFiniteSet(Requests)
    PROVE  IsFiniteSet(Posts)
<1>1. IsFiniteSet(1..2)
  BY FS_Interval, 1 \in Int, 2 \in Int
<1>2. IsFiniteSet(Requests \X (1..2))
  BY <1>1, FS_Product
<1>3. \A q \in Requests : replies[q] \in Seq(Replies) /\ Len(replies[q]) \in 0..2
  BY DEF ClientInv, LlmTypeOK
<1>4. Posts \subseteq Requests \X (1..2)
  BY <1>3 DEF Posts
<1>5. QED
  BY <1>2, <1>4, FS_Subset

(* One more reply is one more of those it is counted among.                 *)
LEMMA OneMore ==
    ASSUME NEW S, IsFiniteSet(S), NEW T, NEW x, x \notin S, NEW new \in BOOLEAN,
           T = S \cup (IF new THEN {x} ELSE {})
    PROVE  Cardinality(T) = Cardinality(S) + (IF new THEN 1 ELSE 0)
<1>1. Cardinality(S) \in Nat
  BY FS_CardinalityType
<1>2. CASE new
  BY <1>1, <1>2, FS_AddElement
<1>3. CASE ~new
  BY <1>1, <1>3
<1>4. QED
  BY <1>2, <1>3

LEMMA LabelsOfReply ==
    ASSUME NEW reply \in Reply
    PROVE  /\ "bad_response" \in Labels(Kind(reply)) <=> Unusable(reply)
           /\ "success" \in Labels(Kind(reply)) <=> Succeeds(reply)
<1>1. Kind(reply) \in Kinds /\ (Unusable(reply) <=> Kind(reply) \in {"bad_content", "empty_sql"})
  BY KindOfReply DEF Retriable
<1>2. QED
  BY <1>1 DEF Labels, Kinds, Succeeds

(* Which tokens are recorded: all that a success counts; of a reply that    *)
(* does not succeed only where Counter.inc raised, and then not the total.  *)
LEMMA RecordedWhere ==
    ASSUME NEW reply \in Reply, NEW k \in TokenKinds
    PROVE  /\ Succeeds(reply) /\ reply.usage[k] = "counted" => k \in RecordedTokens(reply)
           /\ k \in RecordedTokens(reply) => Succeeds(reply) \/ Kind(reply) = "unexpected"
           /\ "total" \in RecordedTokens(reply) => Succeeds(reply)
<1>1. HasText(reply) => Kind(reply) = IF RejectsUsage(reply) THEN "unexpected"
                                      ELSE IF ParseSql(reply) = "nothing" THEN "empty_sql" ELSE "sql"
  BY DEF Kind, HasText
<1>2. Succeeds(reply) => HasText(reply) /\ ~RejectsUsage(reply)
  BY DEF Succeeds, Kind, HasText, Reply
<1>3. Earlier(k) \subseteq TokenKinds
  BY DEF Earlier, TokenKinds
<1>4. Succeeds(reply) /\ reply.usage[k] = "counted" => k \in RecordedTokens(reply)
  BY <1>2, <1>3 DEF RecordedTokens, RejectsUsage
<1>5. k \in RecordedTokens(reply) => Succeeds(reply) \/ Kind(reply) = "unexpected"
  BY <1>1 DEF RecordedTokens, Succeeds
<1>6. "total" \in RecordedTokens(reply) => ~RejectsUsage(reply)
  BY DEF RecordedTokens, Earlier, RejectsUsage, TokenKinds
<1>7. "total" \in RecordedTokens(reply) => Succeeds(reply)
  BY <1>1, <1>6 DEF RecordedTokens, Succeeds
<1>8. QED
  BY <1>4, <1>5, <1>7

(* A call fails with an unexpected error in the step that ends it, or not.  *)
Failed == {r \in Requests : llOut[r] = "unexpected"}

LEMMA FailedGrows ==
    ASSUME ClientInv, NEW r \in Requests, NEW reply \in Replies, PostReturns(r, reply)
    PROVE  /\ r \notin Failed
           /\ Failed' = Failed \cup (IF Kind(reply) = "unexpected" THEN {r} ELSE {})
<1>1. llPc[r] = "posting" /\ llOut[r] = "none"
  BY DEF PostReturns, ClientInv, Progress
<1>2. llOut \in [Requests -> LlmCodes]
  BY DEF ClientInv, LlmTypeOK
<1>3. Kind(reply) \in Kinds
  BY KindOfReply, RepliesAssumption
<1>4. ResultOf(Kind(reply)) = "unexpected" <=> Kind(reply) = "unexpected"
  BY <1>3 DEF ResultOf, Kinds
<1>5. CASE TriesAgain(r, Kind(reply))
  <2>1. llOut' = llOut /\ Kind(reply) # "unexpected"
    BY <1>5 DEF PostReturns, TriesAgain, Retriable
  <2>2. QED
    BY <1>1, <2>1 DEF Failed
<1>6. CASE ~TriesAgain(r, Kind(reply))
  <2>1. llOut' = [llOut EXCEPT ![r] = ResultOf(Kind(reply))]
    BY <1>6 DEF PostReturns
  <2>2. QED
    BY <1>1, <1>2, <1>4, <2>1 DEF Failed
<1>7. QED
  BY <1>5, <1>6

(* The POSTs that were a success with a count of this kind.                 *)
Metered(k) == {p \in Posts : Succeeds(ReplyTo(p)) /\ ReplyTo(p).usage[k] = "counted"}

LEMMA TokensStayWithAnswers ==
    ASSUME ClientInv, IsFiniteSet(Requests), AttemptsMeasured,
           NEW r \in Requests, NEW reply \in Replies, PostReturns(r, reply)
    PROVE  TokensAgreeWithAnswers'
<1>1. PICK x : /\ x \notin Posts /\ Posts' = Posts \cup {x} /\ ReplyTo(x)' = reply
               /\ \A p \in Posts : ReplyTo(p)' = ReplyTo(p)
  BY NewPost
<1>2. reply \in Reply
  BY RepliesAssumption
<1> DEFINE good == Succeeds(reply)
           odd == Kind(reply) = "unexpected"
<1>3. good \in BOOLEAN /\ odd \in BOOLEAN
  BY DEF Succeeds
<1>4. IsFiniteSet(Failed) /\ Cardinality(Failed) \in Nat
  BY FS_Subset, FS_CardinalityType DEF Failed
<1>5. r \notin Failed /\ Failed' = Failed \cup (IF odd THEN {r} ELSE {})
  BY FailedGrows
<1>6. llmTotal["success"] \in Nat /\ \A k \in TokenKinds : tokensTotal[k] \in Nat
  BY DEF ClientInv, LlmTypeOK, LlmLabels
<1>7. llmTotal'["success"] = llmTotal["success"] + (IF good THEN 1 ELSE 0)
  BY <1>2, LabelsOfReply DEF PostReturns, LlmLabels
<1> HIDE DEF good, odd
<1>8. Cardinality(Failed') = Cardinality(Failed) + (IF odd THEN 1 ELSE 0)
  BY <1>3, <1>4, <1>5, OneMore
<1>9. ASSUME NEW k \in TokenKinds
      PROVE  /\ tokensTotal'[k] >= Cardinality(Metered(k)')
             /\ tokensTotal'[k] <= llmTotal'["success"] + Cardinality(Failed')
             /\ k = "total" => tokensTotal'[k] <= llmTotal'["success"]
  <2> DEFINE counted == good /\ reply.usage[k] = "counted"
             recorded == k \in RecordedTokens(reply)
  <2>1. Metered(k)' = Metered(k) \cup (IF counted THEN {x} ELSE {}) /\ x \notin Metered(k)
    BY <1>1 DEF Metered, good
  <2>2. IsFiniteSet(Metered(k)) /\ Cardinality(Metered(k)) \in Nat
    BY PostsFinite, FS_Subset, FS_CardinalityType DEF Metered
  <2>3. counted \in BOOLEAN
    BY <1>3
  <2>4. tokensTotal'[k] = tokensTotal[k] + (IF recorded THEN 1 ELSE 0)
    BY DEF PostReturns
  <2>5. (counted => recorded) /\ (recorded => good \/ odd) /\ (k = "total" /\ recorded => good)
    BY <1>2, RecordedWhere DEF good, odd
  <2>6. /\ tokensTotal[k] >= Cardinality(Metered(k))
        /\ tokensTotal[k] <= llmTotal["success"] + Cardinality(Failed)
        /\ k = "total" => tokensTotal[k] <= llmTotal["success"]
    BY DEF AttemptsMeasured, TokensAgreeWithAnswers, Metered, Failed
  <2> HIDE DEF counted, recorded
  <2>7. Cardinality(Metered(k)') = Cardinality(Metered(k)) + (IF counted THEN 1 ELSE 0)
    BY <2>1, <2>2, <2>3, OneMore
  <2>8. tokensTotal[k] \in Nat
    BY <1>6
  <2>9. QED
    BY <1>4, <1>6, <1>7, <1>8, <2>2, <2>4, <2>5, <2>6, <2>7, <2>8
<1>10. QED
  BY <1>9 DEF TokensAgreeWithAnswers, Metered, Failed, TokenKinds

LEMMA PostReturnsCounts ==
    ASSUME ClientInv, IsFiniteSet(Requests), PostsCounted,
           NEW r \in Requests, NEW reply \in Replies, PostReturns(r, reply)
    PROVE  PostsCounted'
<1> DEFINE bad == Unusable(reply)
           good == Succeeds(reply)
           Bad == {p \in Posts : Unusable(ReplyTo(p))}
           Good == {p \in Posts : Succeeds(ReplyTo(p))}
<1>1. PICK x : /\ x \notin Posts /\ Posts' = Posts \cup {x} /\ ReplyTo(x)' = reply
               /\ \A p \in Posts : ReplyTo(p)' = ReplyTo(p)
  BY NewPost
<1>2. IsFiniteSet(Posts) /\ IsFiniteSet(Bad) /\ IsFiniteSet(Good)
  BY PostsFinite, FS_Subset
<1>3. x \notin Bad /\ x \notin Good /\ bad \in BOOLEAN /\ good \in BOOLEAN
  BY <1>1 DEF Unusable, Succeeds
<1>4. Bad' = Bad \cup (IF bad THEN {x} ELSE {})
  BY <1>1
<1>5. Good' = Good \cup (IF good THEN {x} ELSE {})
  BY <1>1
<1>6. Cardinality(Posts') = Cardinality(Posts) + 1
  BY <1>1, <1>2, FS_AddElement
<1>7. /\ llmLatency = Cardinality(Posts)
      /\ llmTotal["bad_response"] = Cardinality(Bad)
      /\ llmTotal["success"] = Cardinality(Good)
  BY DEF PostsCounted
<1>8. /\ llmLatency' = llmLatency + 1
      /\ llmTotal'["bad_response"] = llmTotal["bad_response"] + (IF bad THEN 1 ELSE 0)
      /\ llmTotal'["success"] = llmTotal["success"] + (IF good THEN 1 ELSE 0)
  BY LabelsOfReply, RepliesAssumption DEF PostReturns, LlmLabels
<1> HIDE DEF bad, good, Bad, Good
<1>9. Cardinality(Bad') = Cardinality(Bad) + (IF bad THEN 1 ELSE 0)
  BY <1>2, <1>3, <1>4, OneMore
<1>10. Cardinality(Good') = Cardinality(Good) + (IF good THEN 1 ELSE 0)
  BY <1>2, <1>3, <1>5, OneMore
<1>11. QED
  BY <1>6, <1>7, <1>8, <1>9, <1>10 DEF PostsCounted, Bad, Good

(* However many calls share the counters, each POST is timed and counted    *)
(* once under what its reply was, the first of two as well as the last, and *)
(* tokens recorded without a success are those of a call that failed with   *)
(* an unexpected error half way through _record_usage.                      *)
THEOREM AttemptsCounted ==
    ASSUME IsFiniteSet(Requests)
    PROVE  LlmSpec => []AttemptsMeasured
<1>1. LlmInit => AttemptsMeasured
  <2> SUFFICES ASSUME LlmInit PROVE AttemptsMeasured
    OBVIOUS
  <2>1. Posts = {}
    BY DEF LlmInit, Posts
  <2>2. Cardinality({}) = 0
    BY FS_EmptySet
  <2>3. {p \in Posts : Unusable(ReplyTo(p))} = {} /\ {p \in Posts : Succeeds(ReplyTo(p))} = {}
    BY <2>1
  <2>4. \A k \in TokenKinds :
            {p \in Posts : Succeeds(ReplyTo(p)) /\ ReplyTo(p).usage[k] = "counted"} = {}
    BY <2>1
  <2>5. {r \in Requests : llOut[r] = "unexpected"} = {}
    BY DEF LlmInit
  <2>6. PostsCounted
    BY <2>1, <2>2, <2>3 DEF LlmInit, PostsCounted, LlmLabels
  <2>7. TokensAgreeWithAnswers
    <3>1. (\A k \in TokenKinds : tokensTotal[k] = 0) /\ llmTotal["success"] = 0
      BY DEF LlmInit, LlmLabels
    <3>2. Cardinality({r \in Requests : llOut[r] = "unexpected"}) = 0
      BY <2>2, <2>5
    <3>3. \A k \in TokenKinds :
              Cardinality({p \in Posts : Succeeds(ReplyTo(p))
                                          /\ ReplyTo(p).usage[k] = "counted"}) = 0
      BY <2>2, <2>4
    <3>4. "total" \in TokenKinds
      BY DEF TokenKinds
    <3>5. QED
      BY <3>1, <3>2, <3>3, <3>4 DEF TokensAgreeWithAnswers
  <2>8. QED
    BY <2>6, <2>7 DEF AttemptsMeasured
<1>2. ClientInv /\ AttemptsMeasured /\ [LlmNext]_llmVars => AttemptsMeasured'
  <2> SUFFICES ASSUME ClientInv, AttemptsMeasured, [LlmNext]_llmVars
               PROVE  AttemptsMeasured'
    OBVIOUS
  <2>1. ASSUME NEW r \in Requests, GenerateSql(r)
        PROVE  AttemptsMeasured'
    BY <2>1 DEF GenerateSql, meterVars, AttemptsMeasured, PostsCounted,
                TokensAgreeWithAnswers, Posts, ReplyTo
  <2>2. ASSUME NEW r \in Requests, NEW reply \in Replies, PostReturns(r, reply)
        PROVE  AttemptsMeasured'
    BY <2>2, PostReturnsCounts, TokensStayWithAnswers DEF AttemptsMeasured
  <2>3. CASE UNCHANGED llmVars
    BY <2>3 DEF llmVars, callVars, meterVars, AttemptsMeasured, PostsCounted,
                TokensAgreeWithAnswers, Posts, ReplyTo
  <2>4. QED
    BY <2>1, <2>2, <2>3 DEF LlmNext
<1>3. QED
  BY <1>1, <1>2, ClientInvariant, PTL DEF LlmSpec
-----------------------------------------------------------------------------
(* The rows of one column                                                   *)
ColumnType == [name : STRING, nullable : BOOLEAN]

PkMatches(db, table, column) == {p \in PkRows(db) : Joined(p[2], table, column.name)}
FkMatches(db, table, column) == {f \in FkRows(db) : Joined(f[2], table, column.name)}
PairsOf(db, table, column) ==
    OrNull(PkMatches(db, table, column), <<>>) \X OrNull(FkMatches(db, table, column), <<>>)
Cell(table, column, pair) ==
    [table |-> table, column |-> column.name, nullable |-> column.nullable,
     pk |-> pair[1] # <<>>, ref |-> IF pair[2] = <<>> THEN NoRef ELSE pair[2][3].ref,
     from |-> pair]
Cells(db, table, column) ==
    {Cell(table, column, pair) : pair \in PairsOf(db, table, column)}

LEMMA FiniteImage ==
    ASSUME NEW S, IsFiniteSet(S), NEW f, DOMAIN f = S, NEW T, T \subseteq {f[x] : x \in S}
    PROVE  IsFiniteSet(T)
<1>1. PICK U : U = {f[x] : x \in S}
  OBVIOUS
<1>2. PICK g : g = [x \in S |-> f[x]]
  OBVIOUS
<1>3. g \in Surjection(S, U)
  BY <1>1, <1>2 DEF Surjection
<1>4. IsFiniteSet(U)
  BY <1>3, FS_Surjection
<1>5. QED
  BY <1>1, <1>4, FS_Subset

(* The catalog views and the subqueries have finitely many rows.            *)
LEMMA ViewsFinite ==
    ASSUME NEW db, IsDatabase(db)
    PROVE  IsFiniteSet(PkRows(db)) /\ IsFiniteSet(FkRows(db))
<1>1. IsFiniteSet(db.keys) /\ \A k \in db.keys : IsFiniteSet(k.columns) /\ IsFiniteSet(k.refs)
  BY DEF IsDatabase
<1>2. PICK constraints : constraints = TableConstraints(db)
  OBVIOUS
<1>3. IsFiniteSet(constraints)
  <2>1. constraints \in SUBSET db.keys
    BY <1>2 DEF TableConstraints
  <2>2. QED
    BY <1>1, <2>1, FS_Subset
<1>4. PICK usage : usage = KeyColumnUsage(db)
  OBVIOUS
<1>5. IsFiniteSet(usage)
  <2>1. PICK f : f = [k \in db.keys |->
                         {[name |-> k.name, table |-> k.table, column |-> c] : c \in k.columns}]
    OBVIOUS
  <2>2. ASSUME NEW k \in db.keys PROVE IsFiniteSet(f[k])
    <3>1. PICK g : g = [c \in k.columns |-> [name |-> k.name, table |-> k.table, column |-> c]]
      OBVIOUS
    <3>2. DOMAIN g = k.columns /\ f[k] \subseteq {g[c] : c \in k.columns}
      BY <2>1, <3>1
    <3>3. QED
      BY <1>1, <3>2, FiniteImage
  <2>3. PICK U : U = {f[k] : k \in db.keys}
    OBVIOUS
  <2>4. DOMAIN f = db.keys
    BY <2>1
  <2>5. IsFiniteSet(U)
    BY <1>1, <2>3, <2>4, FiniteImage
  <2>6. IsFiniteSet(UNION U)
    BY <2>2, <2>3, <2>5, FS_UNION
  <2>7. usage = UNION U
    BY <1>4, <2>1, <2>3 DEF KeyColumnUsage
  <2>8. QED
    BY <2>6, <2>7
<1>6. PICK targets : targets = ConstraintColumnUsage(db)
  OBVIOUS
<1>7. IsFiniteSet(targets)
  <2>1. PICK f : f = [k \in db.keys |->
                         {[name |-> k.name, ref |-> ref] :
                              ref \in {to \in k.refs : to.table \in db.owned}}]
    OBVIOUS
  <2>2. ASSUME NEW k \in db.keys PROVE IsFiniteSet(f[k])
    <3>1. PICK g : g = [ref \in k.refs |-> [name |-> k.name, ref |-> ref]]
      OBVIOUS
    <3>2. DOMAIN g = k.refs /\ f[k] \subseteq {g[ref] : ref \in k.refs}
      BY <2>1, <3>1
    <3>3. QED
      BY <1>1, <3>2, FiniteImage
  <2>3. PICK U : U = {f[k] : k \in db.keys}
    OBVIOUS
  <2>4. DOMAIN f = db.keys
    BY <2>1
  <2>5. IsFiniteSet(U)
    BY <1>1, <2>3, <2>4, FiniteImage
  <2>6. IsFiniteSet(UNION U)
    BY <2>2, <2>3, <2>5, FS_UNION
  <2>7. targets = UNION U
    BY <1>6, <2>1, <2>3 DEF ConstraintColumnUsage
  <2>8. QED
    BY <2>6, <2>7
<1>8. IsFiniteSet(constraints \X usage)
  BY <1>3, <1>5, FS_Product
<1>9. IsFiniteSet(PkRows(db))
  <2>1. PkRows(db) \in SUBSET (constraints \X usage)
    BY <1>2, <1>4 DEF PkRows
  <2>2. QED
    BY <1>8, <2>1, FS_Subset
<1>10. IsFiniteSet(FkRows(db))
  <2>1. PICK triples : triples = (constraints \X usage) \X targets
    OBVIOUS
  <2>2. IsFiniteSet(triples)
    BY <1>7, <1>8, <2>1, FS_Product
  <2>3. PICK f : f = [x \in triples |-> <<x[1][1], x[1][2], x[2]>>]
    OBVIOUS
  <2>4. FkRows(db) \subseteq {f[x] : x \in triples}
    <3>1. ASSUME NEW row \in FkRows(db) PROVE \E x \in triples : f[x] = row
      <4>1. PICK k \in constraints, u \in usage, to \in targets : row = <<k, u, to>>
        BY <1>2, <1>4, <1>6 DEF FkRows
      <4>2. PICK x : x = <<<<k, u>>, to>>
        OBVIOUS
      <4>3. x \in triples /\ f[x] = row
        BY <2>1, <2>3, <4>1, <4>2
      <4>4. QED
        BY <4>3
    <3>2. QED
      BY <3>1
  <2>5. DOMAIN f = triples
    BY <2>3
  <2>6. QED
    BY <2>2, <2>4, <2>5, FiniteImage
<1>11. QED
  BY <1>9, <1>10

LEMMA OrNullIs ==
    ASSUME NEW S, IsFiniteSet(S), NEW null
    PROVE  /\ IsFiniteSet(OrNull(S, null)) /\ OrNull(S, null) # {}
           /\ (\A x, y \in S : x = y) => \A x, y \in OrNull(S, null) : x = y
  BY FS_Singleton DEF OrNull

LEMMA CellsAre ==
    ASSUME NEW db, IsDatabase(db), NEW table, NEW column
    PROVE  /\ IsFiniteSet(Cells(db, table, column)) /\ Cells(db, table, column) # {}
           /\ ColumnRows(db, table, column) = SetToSeq(Cells(db, table, column))
           /\ \A cell \in Cells(db, table, column) :
                  cell.table = table /\ cell.column = column.name
<1>1. PICK pairs : pairs = PairsOf(db, table, column)
  OBVIOUS
<1>2. PICK pks : pks = PkMatches(db, table, column)
  OBVIOUS
<1>3. PICK fks : fks = FkMatches(db, table, column)
  OBVIOUS
<1>4. IsFiniteSet(pks) /\ IsFiniteSet(fks)
  <2>1. pks \in SUBSET PkRows(db) /\ fks \in SUBSET FkRows(db)
    BY <1>2, <1>3 DEF PkMatches, FkMatches
  <2>2. QED
    BY <2>1, ViewsFinite, FS_Subset
<1>5. PICK a : a = OrNull(pks, <<>>)
  OBVIOUS
<1>6. PICK b : b = OrNull(fks, <<>>)
  OBVIOUS
<1>7. IsFiniteSet(a) /\ IsFiniteSet(b) /\ a # {} /\ b # {}
  BY <1>4, <1>5, <1>6, OrNullIs
<1>8. pairs = a \X b
  BY <1>1, <1>2, <1>3, <1>5, <1>6 DEF PairsOf
<1>9. IsFiniteSet(pairs) /\ pairs # {}
  <2>1. IsFiniteSet(a \X b)
    BY <1>7, FS_Product
  <2>2. PICK x \in a, y \in b : TRUE
    BY <1>7
  <2>3. <<x, y>> \in a \X b
    OBVIOUS
  <2>4. QED
    BY <1>8, <2>1, <2>3
<1>10. PICK f : f = [pair \in pairs |-> Cell(table, column, pair)]
  OBVIOUS
<1>11. Cells(db, table, column) = {f[pair] : pair \in pairs} /\ DOMAIN f = pairs
  BY <1>1, <1>10 DEF Cells
<1>12. IsFiniteSet(Cells(db, table, column)) /\ Cells(db, table, column) # {}
  BY <1>9, <1>11, FiniteImage
<1>13. ColumnRows(db, table, column) = SetToSeq(Cells(db, table, column))
  BY DEF ColumnRows, Cells, Cell, PairsOf, PkMatches, FkMatches
<1>14. \A cell \in Cells(db, table, column) : cell.table = table /\ cell.column = column.name
  BY DEF Cells, Cell
<1>15. QED
  BY <1>12, <1>13, <1>14

(* Where keys are plain, a match is one key of the column, told by its name.*)
UsageOf(key, table, column) == [name |-> key.name, table |-> table, column |-> column.name]
TargetOf(key, ref) == [name |-> key.name, ref |-> ref]
PrimaryKeysOf(db, table, column) == KeysOf(db, table, column, TRUE)
ForeignKeysOf(db, table, column) == KeysOf(db, table, column, FALSE)
PkMatch(key, table, column) == <<key, UsageOf(key, table, column)>>
FkMatch(key, ref, table, column) == <<key, UsageOf(key, table, column), TargetOf(key, ref)>>

LEMMA PkMatchIs ==
    ASSUME NEW db, PlainKeys(db), NEW table, NEW column
    PROVE  \A p \in PkMatches(db, table, column) :
           \E k \in PrimaryKeysOf(db, table, column.name) : p = PkMatch(k, table, column)
<1> TAKE p \in PkMatches(db, table, column)
<1>1. PICK k \in TableConstraints(db), u \in KeyColumnUsage(db) :
          p = <<k, u>> /\ k.primary /\ u.name = k.name /\ Joined(u, table, column.name)
  BY DEF PkMatches, PkRows
<1>2. PICK j \in db.keys :
          \E c \in j.columns : u = [name |-> j.name, table |-> j.table, column |-> c]
  BY DEF KeyColumnUsage
<1>3. k \in db.keys
  BY DEF TableConstraints
<1>4. j = k
  BY <1>1, <1>2, <1>3 DEF PlainKeys
<1>5. u = UsageOf(k, table, column) /\ k.table = table /\ column.name \in k.columns
  BY <1>1, <1>2, <1>4 DEF Joined, UsageOf
<1>6. QED
  BY <1>1, <1>3, <1>5 DEF PrimaryKeysOf, ForeignKeysOf, KeysOf, PkMatch

LEMMA FkMatchIs ==
    ASSUME NEW db, PlainKeys(db), NEW table, NEW column
    PROVE  \A f \in FkMatches(db, table, column) :
           \E k \in ForeignKeysOf(db, table, column.name) : \E ref \in k.refs :
               f = FkMatch(k, ref, table, column)
<1> TAKE f \in FkMatches(db, table, column)
<1>1. PICK k \in TableConstraints(db), u \in KeyColumnUsage(db),
           to \in ConstraintColumnUsage(db) :
          /\ f = <<k, u, to>> /\ ~k.primary /\ u.name = k.name /\ to.name = k.name
          /\ Joined(u, table, column.name)
  BY DEF FkMatches, FkRows
<1>2. PICK j \in db.keys :
          \E c \in j.columns : u = [name |-> j.name, table |-> j.table, column |-> c]
  BY DEF KeyColumnUsage
<1>3. PICK i \in db.keys : \E ref \in i.refs : to = [name |-> i.name, ref |-> ref]
  BY DEF ConstraintColumnUsage
<1>4. k \in db.keys
  BY DEF TableConstraints
<1>5. j = k /\ i = k
  BY <1>1, <1>2, <1>3, <1>4 DEF PlainKeys
<1>6. u = UsageOf(k, table, column) /\ k.table = table /\ column.name \in k.columns
  BY <1>1, <1>2, <1>5 DEF Joined, UsageOf
<1>7. PICK ref \in k.refs : to = TargetOf(k, ref)
  BY <1>3, <1>5 DEF TargetOf
<1>8. k \in ForeignKeysOf(db, table, column.name)
  BY <1>1, <1>4, <1>6 DEF PrimaryKeysOf, ForeignKeysOf, KeysOf
<1>9. QED
  BY <1>1, <1>6, <1>7, <1>8 DEF FkMatch

LEMMA PlainKeyOf ==
    ASSUME NEW db, IsDatabase(db), PlainKeys(db), NEW table, NEW column
    PROVE  /\ \A j, k \in PrimaryKeysOf(db, table, column) : j = k
           /\ \A j, k \in ForeignKeysOf(db, table, column) : j = k
           /\ \A k \in ForeignKeysOf(db, table, column) : \E ref : k.refs = {ref}
<1>1. \A j, k \in PrimaryKeysOf(db, table, column) : j = k
  BY DEF PrimaryKeysOf, ForeignKeysOf, KeysOf, IsDatabase
<1>2. ASSUME NEW k \in ForeignKeysOf(db, table, column)
      PROVE  k.columns = {column} /\ \E ref : k.refs = {ref}
  <2>1. k \in db.keys /\ ~k.primary /\ column \in k.columns
    BY DEF PrimaryKeysOf, ForeignKeysOf, KeysOf
  <2>2. Cardinality(k.columns) = 1 /\ IsFiniteSet(k.columns) /\ IsFiniteSet(k.refs)
    BY <2>1 DEF PlainKeys, IsDatabase
  <2>3. Cardinality(k.refs) = 1
    BY <2>1, <2>2 DEF IsDatabase
  <2>4. PICK c : k.columns = {c}
    BY <2>2, FS_Singleton, Zenon
  <2>5. \E ref : k.refs = {ref}
    BY <2>2, <2>3, FS_Singleton, Zenon
  <2>6. QED
    BY <2>1, <2>4, <2>5
<1>3. ASSUME NEW j \in ForeignKeysOf(db, table, column),
             NEW k \in ForeignKeysOf(db, table, column)
      PROVE  j = k
  <2>1. j.columns = {column} /\ k.columns = {column}
    BY <1>2
  <2>2. /\ j \in db.keys /\ k \in db.keys /\ ~j.primary /\ ~k.primary
        /\ j.table = table /\ k.table = table
    BY DEF PrimaryKeysOf, ForeignKeysOf, KeysOf
  <2>3. QED
    BY <2>1, <2>2 DEF PlainKeys
<1>4. QED
  BY <1>1, <1>2, <1>3

LEMMA PlainCells ==
    ASSUME NEW db, IsDatabase(db), PlainKeys(db), NEW table, NEW column
    PROVE  \E cell : Cells(db, table, column) = {cell}
<1>1. PICK pks : pks = PkMatches(db, table, column)
  OBVIOUS
<1>2. PICK fks : fks = FkMatches(db, table, column)
  OBVIOUS
<1>3. \A p, q \in pks : p = q
  <2>1. ASSUME NEW p \in pks, NEW q \in pks PROVE p = q
    <3>0. p \in PkMatches(db, table, column) /\ q \in PkMatches(db, table, column)
      BY <1>1
    <3>1. PICK j \in PrimaryKeysOf(db, table, column.name) : p = PkMatch(j, table, column)
      BY <3>0, PkMatchIs
    <3>2. PICK k \in PrimaryKeysOf(db, table, column.name) : q = PkMatch(k, table, column)
      BY <3>0, PkMatchIs
    <3>3. j = k
      BY PlainKeyOf
    <3>4. QED
      BY <3>1, <3>2, <3>3
  <2>2. QED
    BY <2>1
<1>4. \A f, g \in fks : f = g
  <2>1. ASSUME NEW f \in fks, NEW g \in fks PROVE f = g
    <3>0. f \in FkMatches(db, table, column) /\ g \in FkMatches(db, table, column)
      BY <1>2
    <3>1. PICK j \in ForeignKeysOf(db, table, column.name) :
              \E a \in j.refs : f = FkMatch(j, a, table, column)
      BY <3>0, FkMatchIs
    <3>2. PICK k \in ForeignKeysOf(db, table, column.name) :
              \E b \in k.refs : g = FkMatch(k, b, table, column)
      BY <3>0, FkMatchIs
    <3>3. j = k
      BY PlainKeyOf
    <3>4. PICK ref : k.refs = {ref}
      BY PlainKeyOf
    <3>5. QED
      BY <3>1, <3>2, <3>3, <3>4
  <2>2. QED
    BY <2>1
<1>5. IsFiniteSet(pks) /\ IsFiniteSet(fks)
  <2>1. pks \in SUBSET PkRows(db) /\ fks \in SUBSET FkRows(db)
    BY <1>1, <1>2 DEF PkMatches, FkMatches
  <2>2. QED
    BY <2>1, ViewsFinite, FS_Subset
<1>6. \A x, y \in OrNull(pks, <<>>) : x = y
  BY <1>3 DEF OrNull
<1>7. \A x, y \in OrNull(fks, <<>>) : x = y
  BY <1>4 DEF OrNull
<1>8. \A x, y \in PairsOf(db, table, column) : x = y
  <2>1. PICK a : a = OrNull(pks, <<>>)
    OBVIOUS
  <2>2. PICK b : b = OrNull(fks, <<>>)
    OBVIOUS
  <2>3. PairsOf(db, table, column) = a \X b
    BY <1>1, <1>2, <2>1, <2>2 DEF PairsOf
  <2>4. \A x, y \in a \X b : x = y
    BY <1>6, <1>7, <2>1, <2>2
  <2>5. QED
    BY <2>3, <2>4
<1>9. \A x, y \in Cells(db, table, column) : x = y
  BY <1>8 DEF Cells
<1>10. PICK cell : cell \in Cells(db, table, column)
  BY CellsAre
<1>11. QED
  BY <1>9, <1>10

(* Where the role owns the tables, too, the cell says what the keys are.    *)
LEMMA DescribedCell ==
    ASSUME NEW db, IsDatabase(db), PlainKeys(db), NEW table, NEW column,
           db.owned = {db.tables[t].name : t \in DOMAIN db.tables}, table \in db.owned,
           NEW cell \in Cells(db, table, column)
    PROVE  Line(cell.column, cell.pk, cell.nullable, cell.ref) =
               DescribedColumn(db, table, column)
<1>1. PICK pks : pks = PkMatches(db, table, column)
  OBVIOUS
<1>2. PICK fks : fks = FkMatches(db, table, column)
  OBVIOUS
<1>3. PICK first \in OrNull(pks, <<>>), second \in OrNull(fks, <<>>) :
          cell = Cell(table, column, <<first, second>>)
  BY <1>1, <1>2 DEF Cells, PairsOf
<1>4. /\ cell.column = column.name /\ cell.nullable = column.nullable
      /\ cell.pk = (first # <<>>)
      /\ cell.ref = IF second = <<>> THEN NoRef ELSE second[3].ref
  BY <1>3 DEF Cell
<1>5. (first # <<>>) = (PrimaryKeysOf(db, table, column.name) # {})
  <2>1. ASSUME NEW k \in PrimaryKeysOf(db, table, column.name)
        PROVE  PkMatch(k, table, column) \in pks
    <3>1. k \in db.keys /\ k.primary /\ k.table = table /\ column.name \in k.columns
      BY DEF PrimaryKeysOf, ForeignKeysOf, KeysOf
    <3>2. k \in TableConstraints(db)
      BY <3>1 DEF TableConstraints
    <3>3. UsageOf(k, table, column) \in KeyColumnUsage(db)
      BY <3>1 DEF KeyColumnUsage, UsageOf
    <3>4. /\ Joined(UsageOf(k, table, column), table, column.name)
          /\ UsageOf(k, table, column).name = k.name
      BY DEF Joined, UsageOf
    <3>5. QED
      BY <1>1, <3>1, <3>2, <3>3, <3>4 DEF PkMatches, PkRows, PkMatch
  <2>2. CASE pks = {}
    <3>1. first = <<>>
      BY <1>3, <2>2 DEF OrNull
    <3>2. QED
      BY <2>1, <2>2, <3>1
  <2>3. CASE pks # {}
    <3>1. first \in PkMatches(db, table, column)
      BY <1>1, <1>3, <2>3 DEF OrNull
    <3>2. PICK k \in PrimaryKeysOf(db, table, column.name) :
              first = PkMatch(k, table, column)
      BY <3>1, PkMatchIs
    <3>3. first # <<>>
      BY <3>2 DEF PkMatch
    <3>4. QED
      BY <3>2, <3>3
  <2>4. QED
    BY <2>2, <2>3
<1>6. PICK keys : keys = ForeignKeysOf(db, table, column.name)
  OBVIOUS
<1>7. cell.ref = IF keys = {} THEN NoRef ELSE CHOOSE ref \in UNION {k.refs : k \in keys} : TRUE
  <2>1. ASSUME NEW k \in keys, NEW ref \in k.refs
        PROVE  FkMatch(k, ref, table, column) \in fks
    <3>1. k \in db.keys /\ ~k.primary /\ k.table = table /\ column.name \in k.columns
      BY <1>6 DEF PrimaryKeysOf, ForeignKeysOf, KeysOf
    <3>2. k \in TableConstraints(db)
      BY <3>1 DEF TableConstraints
    <3>3. UsageOf(k, table, column) \in KeyColumnUsage(db)
      BY <3>1 DEF KeyColumnUsage, UsageOf
    <3>4. ref.table \in db.owned
      BY ZenonT(40), <2>1, <3>1 DEF IsDatabase
    <3>5. TargetOf(k, ref) \in ConstraintColumnUsage(db)
      BY <2>1, <3>1, <3>4 DEF ConstraintColumnUsage, TargetOf
    <3>6. /\ Joined(UsageOf(k, table, column), table, column.name)
          /\ UsageOf(k, table, column).name = k.name /\ TargetOf(k, ref).name = k.name
      BY DEF Joined, UsageOf, TargetOf
    <3>7. QED
      BY <1>2, <3>1, <3>2, <3>3, <3>5, <3>6 DEF FkMatches, FkRows, FkMatch
  <2>2. CASE fks = {}
    <3>1. second = <<>>
      BY <1>3, <2>2 DEF OrNull
    <3>2. keys = {}
      <4>1. ASSUME NEW k \in keys PROVE FALSE
        <5>1. PICK ref : k.refs = {ref}
          BY <1>6, PlainKeyOf
        <5>2. QED
          BY <2>1, <2>2, <5>1
      <4>2. QED
        BY <4>1
    <3>3. QED
      BY <1>4, <3>1, <3>2
  <2>3. CASE fks # {}
    <3>1. second \in FkMatches(db, table, column)
      BY <1>2, <1>3, <2>3 DEF OrNull
    <3>2. PICK k \in keys : \E ref \in k.refs :
              second = FkMatch(k, ref, table, column)
      BY <1>6, <3>1, FkMatchIs
    <3>3. PICK ref : k.refs = {ref}
      BY <1>6, PlainKeyOf
    <3>4. second = FkMatch(k, ref, table, column)
      BY <3>2, <3>3
    <3>5. second # <<>> /\ second[3] = TargetOf(k, ref) /\ TargetOf(k, ref).ref = ref
      BY <3>4 DEF TargetOf, FkMatch
    <3>6. keys = {k}
      <4>1. \A i, j \in keys : i = j
        BY <1>6, PlainKeyOf
      <4>2. QED
        BY <4>1
    <3>7. UNION {j.refs : j \in keys} = {ref}
      BY <3>3, <3>6
    <3>8. (CHOOSE r \in {ref} : TRUE) = ref
      OBVIOUS
    <3>9. QED
      BY <1>4, <3>5, <3>6, <3>7, <3>8
  <2>4. QED
    BY <2>2, <2>3
<1>8. QED
  BY <1>4, <1>5, <1>6, <1>7 DEF DescribedColumn, PrimaryKeysOf, ForeignKeysOf
-----------------------------------------------------------------------------
(* The rows of the query                                                    *)
TableNo(db, t) == db.tables[t].name
ColumnsOf(db, t) == db.tables[t].columns
CellsOf(db, t, c) == Cells(db, TableNo(db, t), ColumnsOf(db, t)[c])
AllCells(db) == UNION {CellsOf(db, x[1], x[2]) : x \in Nat \X Nat}

LEMMA TablesTyped ==
    ASSUME NEW db, IsDatabase(db)
    PROVE  /\ Len(db.tables) \in Nat /\ DOMAIN db.tables = 1..Len(db.tables)
           /\ \A t \in 1..Len(db.tables) :
                  /\ ColumnsOf(db, t) \in Seq(ColumnType) /\ ColumnsOf(db, t) # <<>>
                  /\ Len(ColumnsOf(db, t)) \in Nat
                  /\ DOMAIN ColumnsOf(db, t) = 1..Len(ColumnsOf(db, t))
<1>1. PICK C : C = Seq(ColumnType) \ {<<>>}
  OBVIOUS
<1>2. PICK T : T = [name : STRING, columns : C]
  OBVIOUS
<1>3. db.tables \in Seq(T)
  BY <1>1, <1>2 DEF IsDatabase, ColumnType
<1>4. \A t \in 1..Len(db.tables) : db.tables[t] \in T
  BY <1>3
<1>5. \A t \in 1..Len(db.tables) : ColumnsOf(db, t) \in C
  BY <1>2, <1>4 DEF ColumnsOf
<1>6. \A s \in C : s \in Seq(ColumnType) /\ s # <<>> /\ Len(s) \in Nat /\ DOMAIN s = 1..Len(s)
  BY <1>1
<1>7. QED
  BY <1>3, <1>5, <1>6

LEMMA ColumnRowsAre ==
    ASSUME NEW db, IsDatabase(db), NEW t \in Nat, NEW c \in Nat
    PROVE  LET block == ColumnRows(db, TableNo(db, t), ColumnsOf(db, t)[c])
           IN  /\ block \in Seq(AllCells(db)) /\ Len(block) \in Nat \ {0}
               /\ \A p \in 1..Len(block) : block[p] \in CellsOf(db, t, c)
               /\ PlainKeys(db) => Len(block) = 1
<1>1. PICK S : S = CellsOf(db, t, c)
  OBVIOUS
<1>2. PICK block : block = ColumnRows(db, TableNo(db, t), ColumnsOf(db, t)[c])
  OBVIOUS
<1>3. IsFiniteSet(S) /\ S # {} /\ block = SetToSeq(S)
  BY <1>1, <1>2, CellsAre DEF CellsOf
<1>4. /\ block \in Seq(S) /\ Len(block) = Cardinality(S) /\ Cardinality(S) \in Nat
      /\ \A x \in S : \E i \in 1..Len(block) : block[i] = x
  BY <1>3, ListedSet
<1>5. S \subseteq AllCells(db)
  <2>1. <<t, c>> \in Nat \X Nat /\ <<t, c>>[1] = t /\ <<t, c>>[2] = c
    OBVIOUS
  <2>2. QED
    BY <1>1, <2>1 DEF AllCells
<1>6. block \in Seq(AllCells(db)) /\ \A p \in 1..Len(block) : block[p] \in S
  BY <1>4, <1>5
<1>7. Len(block) # 0
  BY <1>3, <1>4
<1>8. ASSUME PlainKeys(db) PROVE Len(block) = 1
  <2>1. \E cell : S = {cell}
    BY <1>1, <1>8, PlainCells DEF CellsOf
  <2>2. Cardinality(S) = 1
    BY <1>3, <2>1, FS_Singleton, Zenon
  <2>3. QED
    BY <1>4, <2>2
<1>9. QED
  BY <1>1, <1>2, <1>4, <1>6, <1>7, <1>8

(* rows is a list of the columns of table t: row i is one of column cc[i].  *)
Lists(rows, db, t, cc) ==
    /\ \A i \in 1..Len(rows) : /\ cc[i] \in 1..Len(ColumnsOf(db, t))
                               /\ rows[i] \in CellsOf(db, t, cc[i])
    /\ \A i, j \in 1..Len(rows) : i < j => cc[i] <= cc[j] /\ (PlainKeys(db) => cc[i] < cc[j])
    /\ \A c \in 1..Len(ColumnsOf(db, t)) : \E i \in 1..Len(rows) : cc[i] = c

TableRows(db, t) ==
    FlattenSeq([c \in DOMAIN ColumnsOf(db, t) |->
        ColumnRows(db, TableNo(db, t), ColumnsOf(db, t)[c])])

LEMMA TableRowsAre ==
    ASSUME NEW db, IsDatabase(db), NEW t \in 1..Len(db.tables)
    PROVE  /\ TableRows(db, t) \in Seq(AllCells(db))
           /\ \E cc \in [1..Len(TableRows(db, t)) -> Nat] : Lists(TableRows(db, t), db, t, cc)
<1>1. PICK m \in Nat : m = Len(ColumnsOf(db, t)) /\ DOMAIN ColumnsOf(db, t) = 1..m
  BY TablesTyped
<1>2. PICK blocks : blocks = [c \in 1..m |->
                                 ColumnRows(db, TableNo(db, t), ColumnsOf(db, t)[c])]
  OBVIOUS
<1>3. PICK A : A = AllCells(db)
  OBVIOUS
<1>4. t \in Nat
  BY TablesTyped
<1>5. \A c \in 1..m : /\ blocks[c] \in Seq(A) /\ Len(blocks[c]) \in Nat \ {0}
                      /\ \A p \in 1..Len(blocks[c]) : blocks[c][p] \in CellsOf(db, t, c)
                      /\ PlainKeys(db) => Len(blocks[c]) = 1
  <2>1. ASSUME NEW c \in 1..m
        PROVE  /\ blocks[c] \in Seq(A) /\ Len(blocks[c]) \in Nat \ {0}
               /\ \A p \in 1..Len(blocks[c]) : blocks[c][p] \in CellsOf(db, t, c)
               /\ PlainKeys(db) => Len(blocks[c]) = 1
    <3>1. blocks[c] = ColumnRows(db, TableNo(db, t), ColumnsOf(db, t)[c]) /\ c \in Nat
      BY <1>2
    <3>2. PICK block : block = ColumnRows(db, TableNo(db, t), ColumnsOf(db, t)[c])
      OBVIOUS
    <3>3. /\ block \in Seq(AllCells(db)) /\ Len(block) \in Nat \ {0}
          /\ \A p \in 1..Len(block) : block[p] \in CellsOf(db, t, c)
          /\ PlainKeys(db) => Len(block) = 1
      BY <1>4, <3>1, <3>2, ColumnRowsAre
    <3>4. QED
      BY <1>3, <3>1, <3>2, <3>3
  <2>2. QED
    BY <2>1
<1>6. blocks \in Seq(Seq(A)) /\ Len(blocks) = m
  <2>1. blocks \in [1..m -> Seq(A)]
    BY <1>2, <1>5
  <2>2. QED
    BY <2>1
<1>7. PICK flat : flat = FlattenSeq(blocks)
  OBVIOUS
<1>8. flat \in Seq(A)
  BY <1>6, <1>7, EmptySeq, FlattenAppend
<1>9. PICK of \in [1..Len(flat) -> Nat], at \in [1..Len(flat) -> Nat] :
          Places(flat, blocks, of, at)
  <2>1. \E of, at \in [1..Len(FlattenSeq(blocks)) -> Nat] :
            Places(FlattenSeq(blocks), blocks, of, at)
    BY <1>6, FlattenPlaces
  <2>2. QED
    BY <1>7, <2>1
<1>10. \A i \in 1..Len(flat) : /\ of[i] \in 1..m /\ at[i] \in 1..Len(blocks[of[i]])
                               /\ flat[i] = blocks[of[i]][at[i]]
  BY <1>6, <1>9 DEF Places
<1>11. \A i \in 1..Len(flat) : flat[i] \in CellsOf(db, t, of[i])
  BY <1>5, <1>10
<1>12. ASSUME NEW i \in 1..Len(flat), NEW j \in 1..Len(flat), i < j
       PROVE  of[i] <= of[j] /\ (PlainKeys(db) => of[i] < of[j])
  <2>1. of[i] < of[j] \/ (of[i] = of[j] /\ at[i] < at[j])
    BY <1>9, <1>12 DEF Places
  <2>2. of[i] \in Nat /\ of[j] \in Nat /\ at[i] \in Nat /\ at[j] \in Nat
    BY <1>9
  <2>3. ASSUME PlainKeys(db) PROVE at[i] = 1 /\ at[j] = 1
    <3>1. of[i] \in 1..m /\ at[i] \in 1..Len(blocks[of[i]])
      BY <1>10
    <3>2. of[j] \in 1..m /\ at[j] \in 1..Len(blocks[of[j]])
      BY <1>10
    <3>3. Len(blocks[of[i]]) = 1 /\ Len(blocks[of[j]]) = 1
      BY <1>5, <2>3, <3>1, <3>2
    <3>4. QED
      BY <3>1, <3>2, <3>3
  <2>4. QED
    BY <2>1, <2>2, <2>3
<1>13. ASSUME NEW c \in 1..m PROVE \E i \in 1..Len(flat) : of[i] = c
  <2>1. 1 \in 1..Len(blocks[c])
    BY <1>5
  <2>2. QED
    BY <1>6, <1>9, <2>1 DEF Places
<1>14. Lists(flat, db, t, of)
  BY <1>1, <1>10, <1>11, <1>12, <1>13 DEF Lists
<1>15. flat = TableRows(db, t)
  BY <1>1, <1>2, <1>7 DEF TableRows
<1>16. QED
  BY <1>3, <1>8, <1>9, <1>14, <1>15

(* Row i of the query is one of column cc[i] of table tt[i].                *)
ListsAll(rows, db, tt, cc) ==
    /\ \A i \in 1..Len(rows) : /\ tt[i] \in 1..Len(db.tables)
                               /\ cc[i] \in 1..Len(ColumnsOf(db, tt[i]))
                               /\ rows[i] \in CellsOf(db, tt[i], cc[i])
    /\ \A i, j \in 1..Len(rows) :
           i < j => /\ tt[i] <= tt[j]
                    /\ tt[i] = tt[j] => cc[i] <= cc[j] /\ (PlainKeys(db) => cc[i] < cc[j])
    /\ \A t \in 1..Len(db.tables) : \A c \in 1..Len(ColumnsOf(db, t)) :
           \E i \in 1..Len(rows) : tt[i] = t /\ cc[i] = c

LEMMA IntrospectionRowsAre ==
    ASSUME NEW db, IsDatabase(db)
    PROVE  /\ IntrospectionRows(db) \in Seq(AllCells(db))
           /\ \E tt, cc \in [1..Len(IntrospectionRows(db)) -> Nat] :
                  ListsAll(IntrospectionRows(db), db, tt, cc)
<1>1. PICK n \in Nat : n = Len(db.tables) /\ DOMAIN db.tables = 1..n
  BY TablesTyped
<1>2. PICK parts : parts = [t \in 1..n |-> TableRows(db, t)]
  OBVIOUS
<1>3. PICK A : A = AllCells(db)
  OBVIOUS
<1>4. \A t \in 1..n : /\ parts[t] \in Seq(A)
                      /\ \E cc \in [1..Len(parts[t]) -> Nat] : Lists(parts[t], db, t, cc)
  BY <1>1, <1>2, <1>3, TableRowsAre
<1>5. PICK co : co = [t \in 1..n |->
                         CHOOSE cc \in [1..Len(parts[t]) -> Nat] : Lists(parts[t], db, t, cc)]
  OBVIOUS
<1>6. \A t \in 1..n : co[t] \in [1..Len(parts[t]) -> Nat] /\ Lists(parts[t], db, t, co[t])
  BY <1>4, <1>5
<1>7. parts \in Seq(Seq(A)) /\ Len(parts) = n
  <2>1. parts \in [1..n -> Seq(A)]
    BY <1>2, <1>4
  <2>2. QED
    BY <2>1
<1>8. PICK flat : flat = FlattenSeq(parts)
  OBVIOUS
<1>9. flat \in Seq(A)
  BY <1>7, <1>8, EmptySeq, FlattenAppend
<1>10. PICK of \in [1..Len(flat) -> Nat], at \in [1..Len(flat) -> Nat] :
          Places(flat, parts, of, at)
  <2>1. \E of, at \in [1..Len(FlattenSeq(parts)) -> Nat] :
            Places(FlattenSeq(parts), parts, of, at)
    BY <1>7, FlattenPlaces
  <2>2. QED
    BY <1>8, <2>1
<1>11. PICK k \in Nat : k = Len(flat)
  BY <1>9
<1>12. \A i \in 1..k : /\ of[i] \in 1..n /\ at[i] \in 1..Len(parts[of[i]])
                       /\ flat[i] = parts[of[i]][at[i]]
  BY <1>7, <1>10, <1>11 DEF Places
<1>13. PICK cc : cc = [i \in 1..k |-> co[of[i]][at[i]]]
  OBVIOUS
<1>14. ASSUME NEW i \in 1..k
       PROVE  /\ cc[i] \in Nat /\ of[i] \in 1..n /\ cc[i] \in 1..Len(ColumnsOf(db, of[i]))
              /\ flat[i] \in CellsOf(db, of[i], cc[i])
  <2>1. PICK t \in 1..n : t = of[i]
    BY <1>12
  <2>2. PICK p \in 1..Len(parts[t]) : p = at[i]
    BY <1>12, <2>1
  <2>3. cc[i] = co[t][p] /\ flat[i] = parts[t][p]
    BY <1>12, <1>13, <2>1, <2>2
  <2>4. co[t] \in [1..Len(parts[t]) -> Nat]
    BY <1>6
  <2>5. co[t][p] \in 1..Len(ColumnsOf(db, t)) /\ parts[t][p] \in CellsOf(db, t, co[t][p])
    BY <1>6 DEF Lists
  <2>6. QED
    BY <2>1, <2>3, <2>4, <2>5
<1>15. ASSUME NEW i \in 1..k, NEW j \in 1..k, i < j
       PROVE  /\ of[i] <= of[j]
              /\ of[i] = of[j] => cc[i] <= cc[j] /\ (PlainKeys(db) => cc[i] < cc[j])
  <2>1. of[i] < of[j] \/ (of[i] = of[j] /\ at[i] < at[j])
    BY <1>10, <1>11, <1>15 DEF Places
  <2>2. of[i] \in Nat /\ of[j] \in Nat
    BY <1>12
  <2>3. ASSUME of[i] = of[j] PROVE cc[i] <= cc[j] /\ (PlainKeys(db) => cc[i] < cc[j])
    <3>1. PICK t \in 1..n : t = of[i] /\ t = of[j]
      BY <1>12, <2>3
    <3>2. PICK p \in 1..Len(parts[t]) : p = at[i]
      BY <1>12, <3>1
    <3>3. PICK q \in 1..Len(parts[t]) : q = at[j]
      BY <1>12, <3>1
    <3>4. p < q
      BY <2>1, <2>2, <2>3, <3>2, <3>3
    <3>5. cc[i] = co[t][p] /\ cc[j] = co[t][q]
      BY <1>13, <3>1, <3>2, <3>3
    <3>6. co[t][p] <= co[t][q] /\ (PlainKeys(db) => co[t][p] < co[t][q])
      BY <1>6, <3>4 DEF Lists
    <3>7. QED
      BY <3>5, <3>6
  <2>4. QED
    BY <2>1, <2>2, <2>3
<1>16. ASSUME NEW t \in 1..n, NEW c \in 1..Len(ColumnsOf(db, t))
       PROVE  \E i \in 1..k : of[i] = t /\ cc[i] = c
  <2>1. PICK p \in 1..Len(parts[t]) : co[t][p] = c
    BY <1>6 DEF Lists
  <2>2. PICK i \in 1..k : of[i] = t /\ at[i] = p
    BY <1>7, <1>10, <1>11, <2>1 DEF Places
  <2>3. cc[i] = c
    BY <1>13, <2>1, <2>2
  <2>4. QED
    BY <2>2, <2>3
<1>17. cc \in [1..Len(flat) -> Nat]
  BY <1>11, <1>13, <1>14
<1>18. ListsAll(flat, db, of, cc)
  BY <1>1, <1>11, <1>14, <1>15, <1>16 DEF ListsAll
<1>19. flat = IntrospectionRows(db)
  BY <1>1, <1>2, <1>8 DEF IntrospectionRows, TableRows, TableNo, ColumnsOf
<1>20. QED
  BY <1>3, <1>9, <1>10, <1>17, <1>18, <1>19

(* picked are the rows at some positions, in their order: f[n] is the n-th.  *)
Picks(picked, rows, positions, f) ==
    /\ f \in [1..Len(picked) -> 1..Len(rows)] /\ Increasing(f, Len(picked))
    /\ \A n \in 1..Len(picked) : f[n] \in positions /\ picked[n] = rows[f[n]]
    /\ \A i \in 1..Len(rows) : i \in positions => \E n \in 1..Len(picked) : f[n] = i

LEMMA PickedAre ==
    ASSUME NEW A, NEW rows \in Seq(A), NEW positions
    PROVE  /\ Picked(rows, positions) \in Seq(A)
           /\ \E f : Picks(Picked(rows, positions), rows, positions, f)
<1>1. PICK l \in Nat : l = Len(rows) /\ DOMAIN rows = 1..l
  OBVIOUS
<1>2. PICK seqs : seqs = [i \in 1..l |-> IF i \in positions THEN <<rows[i]>> ELSE <<>>]
  OBVIOUS
<1>3. seqs \in Seq(Seq(A)) /\ Len(seqs) = l
  <2>1. \A i \in 1..l : <<rows[i]>> \in Seq(A) /\ <<>> \in Seq(A)
    BY <1>1
  <2>2. seqs \in [1..l -> Seq(A)]
    BY <1>2, <2>1
  <2>3. QED
    BY <2>2
<1>4. PICK flat : flat = FlattenSeq(seqs)
  OBVIOUS
<1>5. flat \in Seq(A)
  BY <1>3, <1>4, EmptySeq, FlattenAppend
<1>6. PICK k \in Nat : k = Len(flat)
  BY <1>5
<1>7. PICK of \in [1..Len(flat) -> Nat], at \in [1..Len(flat) -> Nat] :
          Places(flat, seqs, of, at)
  <2>1. \E of, at \in [1..Len(FlattenSeq(seqs)) -> Nat] :
            Places(FlattenSeq(seqs), seqs, of, at)
    BY <1>3, FlattenPlaces
  <2>2. QED
    BY <1>4, <2>1
<1>8. ASSUME NEW n \in 1..k
      PROVE  of[n] \in 1..l /\ of[n] \in positions /\ at[n] = 1 /\ flat[n] = rows[of[n]]
  <2>1. PICK i \in 1..l : i = of[n]
    BY <1>3, <1>6, <1>7 DEF Places
  <2>2. at[n] \in 1..Len(seqs[i]) /\ flat[n] = seqs[i][at[n]]
    BY <1>6, <1>7, <2>1 DEF Places
  <2>3. i \in positions
    BY <1>2, <2>2
  <2>4. seqs[i] = <<rows[i]>>
    BY <1>2, <2>3
  <2>5. at[n] = 1 /\ flat[n] = rows[i]
    BY <2>2, <2>4
  <2>6. QED
    BY <2>1, <2>3, <2>5
<1>9. of \in [1..k -> 1..l]
  BY <1>6, <1>7, <1>8
<1>10. Increasing(of, k)
  <2>1. ASSUME NEW i \in 1..k, NEW j \in 1..k, i < j PROVE of[i] < of[j]
    <3>1. of[i] < of[j] \/ (of[i] = of[j] /\ at[i] < at[j])
      BY <1>6, <1>7, <2>1 DEF Places
    <3>2. at[i] = 1 /\ at[j] = 1
      BY <1>8
    <3>3. QED
      BY <3>1, <3>2
  <2>2. QED
    BY <2>1 DEF Increasing
<1>11. ASSUME NEW i \in 1..l, i \in positions PROVE \E n \in 1..k : of[n] = i
  <2>1. seqs[i] = <<rows[i]>>
    BY <1>2, <1>11
  <2>2. 1 \in 1..Len(seqs[i])
    BY <2>1
  <2>3. QED
    BY <1>3, <1>6, <1>7, <2>2 DEF Places
<1>12. flat = Picked(rows, positions)
  BY <1>1, <1>2, <1>4 DEF Picked
<1>13. Picks(flat, rows, positions, of)
  BY <1>1, <1>6, <1>8, <1>9, <1>10, <1>11 DEF Picks
<1>14. QED
  BY <1>5, <1>12, <1>13
-----------------------------------------------------------------------------
(* The tables                                                               *)
LEMMA TablesDiffer ==
    ASSUME NEW db, IsDatabase(db)
    PROVE  \A t, u \in 1..Len(db.tables) : TableNo(db, t) = TableNo(db, u) => t = u
  BY TablesTyped DEF IsDatabase, TableNo

(* A row names the table it is of.                                          *)
LEMMA RowNames ==
    ASSUME NEW db, IsDatabase(db), NEW rows, NEW tt, NEW cc, ListsAll(rows, db, tt, cc),
           NEW i \in 1..Len(rows)
    PROVE  /\ rows[i].table = TableNo(db, tt[i])
           /\ \A t \in 1..Len(db.tables) : rows[i].table = TableNo(db, t) <=> tt[i] = t
<1>1. tt[i] \in 1..Len(db.tables) /\ rows[i] \in CellsOf(db, tt[i], cc[i])
  BY DEF ListsAll
<1>2. rows[i] \in Cells(db, TableNo(db, tt[i]), ColumnsOf(db, tt[i])[cc[i]])
  BY <1>1 DEF CellsOf
<1>3. rows[i].table = TableNo(db, tt[i])
  BY <1>2, CellsAre
<1>4. QED
  BY <1>1, <1>3, TablesDiffer

(* The rows that begin a table, one for each, in order.                     *)
Heads(rows) ==
    Picked(rows, {i \in DOMAIN rows : \A j \in 1..(i - 1) : rows[j].table # rows[i].table})

LEMMA HeadsAre ==
    ASSUME NEW db, IsDatabase(db), NEW A, NEW rows \in Seq(A),
           NEW tt \in [1..Len(rows) -> Nat], NEW cc, ListsAll(rows, db, tt, cc)
    PROVE  /\ Heads(rows) \in Seq(A) /\ Len(Heads(rows)) = Len(db.tables)
           /\ \A t \in 1..Len(db.tables) : Heads(rows)[t].table = TableNo(db, t)
<1>1. PICK l \in Nat : l = Len(rows) /\ DOMAIN rows = 1..l
  OBVIOUS
<1>2. PICK T \in Nat : T = Len(db.tables)
  BY TablesTyped
<1>3. PICK positions :
          positions = {i \in DOMAIN rows : \A j \in 1..(i - 1) : rows[j].table # rows[i].table}
  OBVIOUS
<1>4. PICK heads : heads = Picked(rows, positions)
  OBVIOUS
<1>5. heads \in Seq(A)
  BY <1>4, PickedAre
<1>6. PICK n \in Nat : n = Len(heads)
  BY <1>5
<1>7. PICK f \in [1..n -> 1..l] :
          /\ Increasing(f, n)
          /\ \A k \in 1..n : f[k] \in positions /\ heads[k] = rows[f[k]]
          /\ \A i \in 1..l : i \in positions => \E k \in 1..n : f[k] = i
  <2>1. PICK f : Picks(heads, rows, positions, f)
    BY <1>4, PickedAre
  <2>2. QED
    BY <1>1, <1>6, <2>1 DEF Picks
<1>8. \A i \in 1..l : tt[i] \in 1..T /\ rows[i].table = TableNo(db, tt[i])
  <2>1. \A i \in 1..l : tt[i] \in 1..T
    BY <1>1, <1>2 DEF ListsAll
  <2>2. \A i \in 1..l : rows[i].table = TableNo(db, tt[i])
    BY <1>1, RowNames
  <2>3. QED
    BY <2>1, <2>2
<1>9. \A i \in 1..l : i \in positions <=> \A j \in 1..(i - 1) : tt[j] # tt[i]
  <2>1. ASSUME NEW i \in 1..l, NEW j \in 1..(i - 1)
        PROVE  rows[j].table = rows[i].table <=> tt[j] = tt[i]
    <3>1. j \in 1..l
      OBVIOUS
    <3>2. QED
      BY <1>2, <1>8, <3>1, TablesDiffer
  <2>2. QED
    BY <1>1, <1>3, <2>1
<1>10. PICK g : g = [k \in 1..n |-> tt[f[k]]]
  OBVIOUS
<1>11. g \in [1..n -> 1..T]
  BY <1>7, <1>8, <1>10
<1>12. Increasing(g, n)
  <2>1. ASSUME NEW a \in 1..n, NEW b \in 1..n, a < b PROVE g[a] < g[b]
    <3>1. PICK i \in 1..l : i = f[a]
      BY <1>7
    <3>2. PICK j \in 1..l : j = f[b] /\ j \in positions
      BY <1>7
    <3>3. i < j
      BY <1>7, <2>1, <3>1, <3>2 DEF Increasing
    <3>4. tt[i] <= tt[j]
      BY <1>1, <3>3 DEF ListsAll
    <3>5. tt[i] # tt[j]
      BY <1>9, <3>2, <3>3
    <3>6. g[a] = tt[i] /\ g[b] = tt[j] /\ tt[i] \in Nat /\ tt[j] \in Nat
      BY <1>1, <1>10, <3>1, <3>2
    <3>7. QED
      BY <3>4, <3>5, <3>6
  <2>2. QED
    BY <2>1 DEF Increasing
<1>13. ASSUME NEW t \in 1..T PROVE \E k \in 1..n : g[k] = t
  <2>1. ColumnsOf(db, t) \in Seq(ColumnType) /\ ColumnsOf(db, t) # <<>>
        /\ Len(ColumnsOf(db, t)) \in Nat
    BY <1>2, TablesTyped
  <2>2. 1 \in 1..Len(ColumnsOf(db, t))
    BY <2>1
  <2>3. PICK S : S = {i \in 1..l : tt[i] = t}
    OBVIOUS
  <2>4. S \subseteq Nat /\ S # {}
    <3>1. PICK i \in 1..Len(rows) : tt[i] = t
      BY <1>2, <2>2 DEF ListsAll
    <3>2. i \in S
      BY <1>1, <2>3, <3>1
    <3>3. \A j \in S : j \in Nat
      BY <2>3
    <3>4. QED
      BY <3>2, <3>3
  <2>5. PICK i \in S : \A j \in S : i <= j
    BY <2>4, Least
  <2>6. i \in 1..l /\ tt[i] = t /\ i \in positions
    BY <1>9, <2>3, <2>5
  <2>7. QED
    BY <1>7, <1>10, <2>6
<1>14. n = T /\ \A k \in 1..n : g[k] = k
  BY ZenonT(40), <1>11, <1>12, <1>13, OntoIncreasing
<1>15. ASSUME NEW t \in 1..T PROVE heads[t].table = TableNo(db, t)
  <2>1. PICK i \in 1..l : i = f[t] /\ heads[t] = rows[i]
    BY <1>7, <1>14
  <2>2. tt[i] = t
    BY <1>10, <1>14, <2>1
  <2>3. QED
    BY <1>8, <2>1, <2>2
<1>16. heads = Heads(rows)
  BY <1>3, <1>4 DEF Heads
<1>17. QED
  BY <1>2, <1>5, <1>6, <1>14, <1>15, <1>16

(* The rows of a table list its columns.                                    *)
RowsOfTable(rows, name) == Picked(rows, {i \in DOMAIN rows : rows[i].table = name})

LEMMA TableColumns ==
    ASSUME NEW db, IsDatabase(db), NEW A, NEW rows \in Seq(A),
           NEW tt \in [1..Len(rows) -> Nat], NEW cc \in [1..Len(rows) -> Nat],
           ListsAll(rows, db, tt, cc), NEW t \in 1..Len(db.tables)
    PROVE  /\ RowsOfTable(rows, TableNo(db, t)) \in Seq(A)
           /\ \E original \in [1..Len(RowsOfTable(rows, TableNo(db, t))) -> Nat] :
                  Lists(RowsOfTable(rows, TableNo(db, t)), db, t, original)
<1>1. PICK l \in Nat : l = Len(rows) /\ DOMAIN rows = 1..l
  OBVIOUS
<1>2. PICK positions : positions = {i \in DOMAIN rows : rows[i].table = TableNo(db, t)}
  OBVIOUS
<1>3. PICK picked : picked = Picked(rows, positions)
  OBVIOUS
<1>4. picked \in Seq(A)
  BY <1>3, PickedAre
<1>5. PICK n \in Nat : n = Len(picked)
  BY <1>4
<1>6. PICK f \in [1..n -> 1..l] :
          /\ Increasing(f, n)
          /\ \A k \in 1..n : f[k] \in positions /\ picked[k] = rows[f[k]]
          /\ \A i \in 1..l : i \in positions => \E k \in 1..n : f[k] = i
  <2>1. PICK f : Picks(picked, rows, positions, f)
    BY <1>3, PickedAre
  <2>2. 1..Len(picked) = 1..n /\ 1..Len(rows) = 1..l
    BY <1>1, <1>5
  <2>3. f \in [1..n -> 1..l] /\ Increasing(f, n)
    BY <1>5, <2>1, <2>2 DEF Picks
  <2>4. /\ \A k \in 1..n : f[k] \in positions /\ picked[k] = rows[f[k]]
        /\ \A i \in 1..l : i \in positions => \E k \in 1..n : f[k] = i
    BY <2>1, <2>2 DEF Picks
  <2>5. QED
    BY <2>3, <2>4
<1>7. \A i \in 1..l : i \in positions <=> tt[i] = t
  BY <1>1, <1>2, RowNames
<1>8. PICK original : original = [k \in 1..n |-> cc[f[k]]]
  OBVIOUS
<1>9. original \in [1..n -> Nat]
  BY <1>1, <1>6, <1>8
<1>10. ASSUME NEW k \in 1..n
       PROVE  /\ original[k] \in 1..Len(ColumnsOf(db, t))
              /\ picked[k] \in CellsOf(db, t, original[k])
  <2>1. PICK i \in 1..l : i = f[k] /\ picked[k] = rows[i] /\ tt[i] = t
    BY <1>6, <1>7
  <2>2. cc[i] \in 1..Len(ColumnsOf(db, t)) /\ rows[i] \in CellsOf(db, t, cc[i])
    BY <1>1, <2>1 DEF ListsAll
  <2>3. original[k] = cc[i]
    BY <1>8, <2>1
  <2>4. QED
    BY <2>1, <2>2, <2>3
<1>11. ASSUME NEW a \in 1..n, NEW b \in 1..n, a < b
       PROVE  /\ original[a] <= original[b]
              /\ PlainKeys(db) => original[a] < original[b]
  <2>1. PICK i \in 1..l : i = f[a] /\ tt[i] = t
    BY <1>6, <1>7
  <2>2. PICK j \in 1..l : j = f[b] /\ tt[j] = t
    BY <1>6, <1>7
  <2>3. i < j
    BY <1>6, <1>11, <2>1, <2>2 DEF Increasing
  <2>4. cc[i] <= cc[j] /\ (PlainKeys(db) => cc[i] < cc[j])
    BY <1>1, <2>1, <2>2, <2>3 DEF ListsAll
  <2>5. original[a] = cc[i] /\ original[b] = cc[j]
    BY <1>8, <2>1, <2>2
  <2>6. QED
    BY <2>4, <2>5
<1>12. ASSUME NEW c \in 1..Len(ColumnsOf(db, t)) PROVE \E k \in 1..n : original[k] = c
  <2>1. PICK i \in 1..l : tt[i] = t /\ cc[i] = c
    BY <1>1 DEF ListsAll
  <2>2. PICK k \in 1..n : f[k] = i
    BY <1>6, <1>7, <2>1
  <2>3. QED
    BY <1>8, <2>1, <2>2
<1>13. Lists(picked, db, t, original)
  BY <1>5, <1>10, <1>11, <1>12 DEF Lists
<1>14. picked = RowsOfTable(rows, TableNo(db, t))
  BY <1>2, <1>3 DEF RowsOfTable
<1>15. QED
  BY <1>4, <1>5, <1>9, <1>13, <1>14

(* Where keys are plain, a list of the columns of a table is one of each.   *)
LEMMA PlainLists ==
    ASSUME NEW db, IsDatabase(db), PlainKeys(db), NEW t \in 1..Len(db.tables),
           NEW A, NEW rows \in Seq(A), NEW cc \in [1..Len(rows) -> Nat], Lists(rows, db, t, cc)
    PROVE  Len(rows) = Len(ColumnsOf(db, t)) /\ \A i \in 1..Len(rows) : cc[i] = i
<1>1. PICK n \in Nat : n = Len(rows)
  OBVIOUS
<1>2. PICK m \in Nat : m = Len(ColumnsOf(db, t))
  BY TablesTyped
<1>3. cc \in [1..n -> 1..m] /\ Increasing(cc, n) /\ \A c \in 1..m : \E i \in 1..n : cc[i] = c
  BY <1>1, <1>2 DEF Lists, Increasing
<1>4. n = m /\ \A i \in 1..n : cc[i] = i
  BY <1>3, OntoIncreasing
<1>5. QED
  BY <1>1, <1>2, <1>4

(* What _introspect returns for a database.                                 *)
SchemaOf(db) == Grouped(IntrospectionRows(db))

LEMMA SchemaIs ==
    ASSUME NEW db, IsDatabase(db)
    PROVE  /\ DOMAIN SchemaOf(db) = 1..Len(db.tables)
           /\ \A t \in 1..Len(db.tables) :
                  /\ SchemaOf(db)[t].name = TableNo(db, t)
                  /\ SchemaOf(db)[t].columns \in Seq(AllCells(db))
                  /\ \E original \in [1..Len(SchemaOf(db)[t].columns) -> Nat] :
                         Lists(SchemaOf(db)[t].columns, db, t, original)
<1>1. PICK A : A = AllCells(db)
  OBVIOUS
<1>2. PICK rows \in Seq(A) : rows = IntrospectionRows(db)
  BY <1>1, IntrospectionRowsAre
<1>3. PICK tt \in [1..Len(rows) -> Nat], cc \in [1..Len(rows) -> Nat] :
          ListsAll(rows, db, tt, cc)
  BY <1>2, IntrospectionRowsAre
<1>4. PICK n \in Nat : n = Len(db.tables)
  BY TablesTyped
<1>5. PICK heads \in Seq(A) : heads = Heads(rows)
  BY <1>3, HeadsAre
<1>6. DOMAIN heads = 1..n /\ \A t \in 1..n : heads[t].table = TableNo(db, t)
  BY <1>3, <1>4, <1>5, HeadsAre
<1>7. SchemaOf(db) = [t \in DOMAIN heads |->
                         [name |-> heads[t].table, columns |-> RowsOfTable(rows, heads[t].table)]]
  BY <1>2, <1>5 DEF SchemaOf, Grouped, GroupedBy, Heads, RowsOfTable
<1>8. ASSUME NEW t \in 1..n
      PROVE  /\ SchemaOf(db)[t].name = TableNo(db, t)
             /\ SchemaOf(db)[t].columns = RowsOfTable(rows, TableNo(db, t))
  BY <1>6, <1>7
<1>9. ASSUME NEW t \in 1..n
      PROVE  /\ SchemaOf(db)[t].columns \in Seq(A)
             /\ \E original \in [1..Len(SchemaOf(db)[t].columns) -> Nat] :
                    Lists(SchemaOf(db)[t].columns, db, t, original)
  <2>1. PICK name : name = TableNo(db, t)
    OBVIOUS
  <2>2. PICK columns : columns = RowsOfTable(rows, name)
    OBVIOUS
  <2>3. /\ columns \in Seq(A)
        /\ \E original \in [1..Len(columns) -> Nat] : Lists(columns, db, t, original)
    BY <1>3, <1>4, <2>1, <2>2, TableColumns
  <2>4. SchemaOf(db)[t].columns = columns
    BY <1>8, <2>1, <2>2
  <2>5. QED
    BY <2>3, <2>4
<1>10. QED
  BY <1>1, <1>4, <1>6, <1>7, <1>8, <1>9
-----------------------------------------------------------------------------
(* The prompt                                                               *)
LEMMA LengthOf ==
    ASSUME NEW n \in Nat, NEW f, DOMAIN f = 1..n, \E e : f = [i \in 1..n |-> e[i]]
    PROVE  Len(f) = n
<1>1. PICK e : f = [i \in 1..n |-> e[i]]
  OBVIOUS
<1>2. PICK S : S = {e[i] : i \in 1..n}
  OBVIOUS
<1>3. f \in [1..n -> S]
  BY <1>1, <1>2
<1>4. f \in Seq(S)
  BY <1>3
<1>5. QED
  BY <1>4

(* What the prompt says of a table and its columns.                         *)
LineOf(cell) == Line(cell.column, cell.pk, cell.nullable, cell.ref)

LEMMA PromptIs ==
    ASSUME NEW db, IsDatabase(db)
    PROVE  /\ DOMAIN Prompt(db) = 1..Len(db.tables) /\ Len(Prompt(db)) = Len(db.tables)
           /\ \A t \in 1..Len(db.tables) :
                  /\ Prompt(db)[t].table = TableNo(db, t)
                  /\ Prompt(db)[t].lines =
                         [c \in 1..Len(SchemaOf(db)[t].columns) |->
                             LineOf(SchemaOf(db)[t].columns[c])]
           /\ Prompt(db) = [t \in 1..Len(db.tables) |->
                               [table |-> Prompt(db)[t].table, lines |-> Prompt(db)[t].lines]]
<1>1. PICK n \in Nat : n = Len(db.tables)
  BY TablesTyped
<1>2. PICK schema : schema = SchemaOf(db)
  OBVIOUS
<1>3. DOMAIN schema = 1..n /\ \A t \in 1..n : schema[t].name = TableNo(db, t)
  BY <1>1, <1>2, SchemaIs
<1>4. PICK prompt : prompt = Prompt(db)
  OBVIOUS
<1>5. PICK entry : entry = [t \in 1..n |->
          [table |-> schema[t].name,
           lines |-> [c \in DOMAIN schema[t].columns |-> LineOf(schema[t].columns[c])]]]
  OBVIOUS
<1>6. prompt = entry
  BY <1>2, <1>3, <1>4, <1>5 DEF Prompt, RenderForPrompt, SchemaOf, LineOf
<1>7. entry = [t \in 1..n |-> entry[t]] /\ DOMAIN entry = 1..n
  BY <1>5
<1>8. Len(entry) = n
  BY <1>7, LengthOf
<1>9. ASSUME NEW t \in 1..n
      PROVE  /\ entry[t].table = TableNo(db, t)
             /\ entry[t].lines =
                    [c \in 1..Len(schema[t].columns) |-> LineOf(schema[t].columns[c])]
  <2>1. PICK columns : columns = schema[t].columns
    OBVIOUS
  <2>2. columns \in Seq(AllCells(db))
    BY <1>1, <1>2, <2>1, SchemaIs
  <2>3. DOMAIN columns = 1..Len(columns)
    BY <2>2
  <2>4. entry[t].lines = [c \in DOMAIN columns |-> LineOf(columns[c])]
    BY <1>5, <2>1
  <2>5. entry[t].table = TableNo(db, t)
    BY <1>3, <1>5
  <2>6. QED
    BY <2>1, <2>3, <2>4, <2>5
<1>10. entry = [t \in 1..n |-> [table |-> entry[t].table, lines |-> entry[t].lines]]
  <2>1. \A t \in 1..n : entry[t] = [table |-> entry[t].table, lines |-> entry[t].lines]
    BY <1>5
  <2>2. QED
    BY <1>7, <2>1
<1>11. QED
  BY ZenonT(40), <1>1, <1>2, <1>4, <1>6, <1>7, <1>8, <1>9, <1>10

(* What PromptCoversDatabase asks of the lines of a table.                  *)
Covered(listed, columns) ==
    \E original \in [DOMAIN listed -> DOMAIN columns] :
        /\ \A c \in DOMAIN listed : listed[c] = columns[original[c]]
        /\ \A c, d \in DOMAIN listed : c <= d => original[c] <= original[d]
        /\ {original[c] : c \in DOMAIN listed} = DOMAIN columns

LinesCover(lines, db, t) ==
    LET listed == [c \in DOMAIN lines |-> lines[c].column]
        columns == [c \in DOMAIN db.tables[t].columns |-> db.tables[t].columns[c].name]
    IN  Covered(listed, columns) /\ (PlainKeys(db) => Len(listed) = Len(columns))

LEMMA LinesAre ==
    ASSUME NEW db, IsDatabase(db), NEW t \in 1..Len(db.tables)
    PROVE  LinesCover(Prompt(db)[t].lines, db, t)
<1>1. PICK cells \in Seq(AllCells(db)) : cells = SchemaOf(db)[t].columns
  BY SchemaIs
<1>2. PICK n \in Nat : n = Len(cells)
  OBVIOUS
<1>3. PICK original \in [1..Len(cells) -> Nat] : Lists(cells, db, t, original)
  BY <1>1, SchemaIs
<1>4. PICK lines : lines = Prompt(db)[t].lines
  OBVIOUS
<1>5. lines = [c \in 1..n |-> LineOf(cells[c])]
  <2>1. lines = [c \in 1..Len(SchemaOf(db)[t].columns) |-> LineOf(SchemaOf(db)[t].columns[c])]
    BY <1>4, PromptIs
  <2>2. QED
    BY <1>1, <1>2, <2>1
<1>6. PICK m \in Nat : m = Len(ColumnsOf(db, t)) /\ DOMAIN ColumnsOf(db, t) = 1..m
  BY TablesTyped
<1>7. PICK columns : columns = [c \in 1..m |-> ColumnsOf(db, t)[c].name]
  OBVIOUS
<1>8. PICK listed : listed = [c \in 1..n |-> lines[c].column]
  OBVIOUS
<1>9. Len(columns) = m
  <2>1. DOMAIN columns = 1..m /\ columns = [c \in 1..m |-> columns[c]]
    BY <1>7
  <2>2. QED
    BY <2>1, LengthOf
<1>10. Len(listed) = n
  <2>1. DOMAIN listed = 1..n /\ listed = [c \in 1..n |-> listed[c]]
    BY <1>8
  <2>2. QED
    BY <2>1, LengthOf
<1>11. original \in [1..n -> 1..m]
  BY <1>2, <1>3, <1>6 DEF Lists
<1>12. ASSUME NEW c \in 1..n PROVE listed[c] = columns[original[c]]
  <2>1. cells[c] \in CellsOf(db, t, original[c])
    BY <1>2, <1>3 DEF Lists
  <2>2. cells[c] \in Cells(db, TableNo(db, t), ColumnsOf(db, t)[original[c]])
    BY <2>1 DEF CellsOf
  <2>3. cells[c].column = ColumnsOf(db, t)[original[c]].name
    BY <2>2, CellsAre
  <2>4. listed[c] = cells[c].column
    BY <1>5, <1>8 DEF LineOf, Line
  <2>5. QED
    BY <1>7, <1>11, <2>3, <2>4
<1>13. \A c, d \in 1..n : c <= d => original[c] <= original[d]
  <2>1. ASSUME NEW c \in 1..n, NEW d \in 1..n, c <= d PROVE original[c] <= original[d]
    <3>1. CASE c = d
      BY <1>11, <3>1
    <3>2. CASE c < d
      BY <1>2, <1>3, <3>2 DEF Lists
    <3>3. QED
      BY <2>1, <3>1, <3>2
  <2>2. QED
    BY <2>1
<1>14. {original[c] : c \in 1..n} = 1..m
  <2>1. \A k \in 1..m : \E c \in 1..n : original[c] = k
    BY <1>2, <1>3, <1>6 DEF Lists
  <2>2. QED
    BY <1>11, <2>1
<1>15. PlainKeys(db) => n = m
  BY <1>2, <1>3, <1>6, PlainLists
<1>16. /\ listed = [c \in DOMAIN lines |-> lines[c].column]
       /\ columns = [c \in DOMAIN db.tables[t].columns |-> db.tables[t].columns[c].name]
  BY <1>5, <1>6, <1>7, <1>8 DEF ColumnsOf
<1>17. DOMAIN listed = 1..n /\ DOMAIN columns = 1..m
  BY <1>7, <1>8
<1>18. Covered(listed, columns)
  <2>1. original \in [DOMAIN listed -> DOMAIN columns]
    BY <1>11, <1>17
  <2>2. /\ \A c \in DOMAIN listed : listed[c] = columns[original[c]]
        /\ \A c, d \in DOMAIN listed : c <= d => original[c] <= original[d]
        /\ {original[c] : c \in DOMAIN listed} = DOMAIN columns
    BY <1>12, <1>13, <1>14, <1>17
  <2>3. QED
    BY <2>1, <2>2 DEF Covered
<1>19. LinesCover(lines, db, t)
  BY <1>9, <1>10, <1>15, <1>16, <1>18 DEF LinesCover
<1>20. QED
  BY <1>4, <1>19

(* Where keys are plain and the tables the role's own, nothing is missing.  *)
LEMMA PromptDescribes ==
    ASSUME NEW db, IsDatabase(db), PlainKeys(db),
           db.owned = {db.tables[t].name : t \in DOMAIN db.tables}
    PROVE  Prompt(db) = Described(db)
<1>1. PICK n \in Nat : n = Len(db.tables) /\ DOMAIN db.tables = 1..n
  BY TablesTyped
<1>2. PICK prompt : prompt = Prompt(db)
  OBVIOUS
<1>3. prompt = [t \in 1..n |-> [table |-> prompt[t].table, lines |-> prompt[t].lines]]
  BY <1>1, <1>2, PromptIs
<1>4. ASSUME NEW t \in 1..n
      PROVE  /\ prompt[t].table = db.tables[t].name
             /\ prompt[t].lines = [c \in DOMAIN db.tables[t].columns |->
                    DescribedColumn(db, db.tables[t].name, db.tables[t].columns[c])]
  <2>1. prompt[t].table = TableNo(db, t)
    BY <1>1, <1>2, PromptIs
  <2>2. PICK cells \in Seq(AllCells(db)) : cells = SchemaOf(db)[t].columns
    BY <1>1, SchemaIs
  <2>3. PICK original \in [1..Len(cells) -> Nat] : Lists(cells, db, t, original)
    BY <1>1, <2>2, SchemaIs
  <2>4. PICK m \in Nat : m = Len(ColumnsOf(db, t)) /\ DOMAIN ColumnsOf(db, t) = 1..m
    BY <1>1, TablesTyped
  <2>5. Len(cells) = m /\ \A c \in 1..m : original[c] = c
    BY <1>1, <2>3, <2>4, PlainLists
  <2>6. prompt[t].lines = [c \in 1..m |-> LineOf(cells[c])]
    BY SMTT(30), <1>1, <1>2, <2>2, <2>5, PromptIs
  <2>7. ASSUME NEW c \in 1..m
        PROVE  LineOf(cells[c]) = DescribedColumn(db, TableNo(db, t), ColumnsOf(db, t)[c])
    <3>1. cells[c] \in CellsOf(db, t, c)
      BY <2>3, <2>5 DEF Lists
    <3>2. PICK table : table = TableNo(db, t)
      OBVIOUS
    <3>3. PICK column : column = ColumnsOf(db, t)[c]
      OBVIOUS
    <3>4. cells[c] \in Cells(db, table, column)
      BY <3>1, <3>2, <3>3 DEF CellsOf
    <3>5. table \in db.owned
      BY <1>1, <3>2 DEF TableNo
    <3>6. LineOf(cells[c]) = DescribedColumn(db, table, column)
      BY <3>4, <3>5, DescribedCell DEF LineOf
    <3>7. QED
      BY <3>2, <3>3, <3>6
  <2>8. QED
    BY <2>1, <2>4, <2>6, <2>7 DEF TableNo, ColumnsOf
<1>5. prompt = Described(db)
  BY ZenonT(40), <1>1, <1>3, <1>4 DEF Described
<1>6. QED
  BY <1>2, <1>5

(* The schema text of a call's payload is the prompt for the database.      *)
MessagesInv ==
    /\ database \in Databases
    /\ messages \in [Requests -> {<<>>, Prompt(database)}]
    /\ \A r \in Requests : llPc[r] # "idle" => messages[r] = Prompt(database)

LEMMA MessagesFaithful == MessagesInv => PromptFaithful
<1> SUFFICES ASSUME MessagesInv PROVE PromptFaithful
  OBVIOUS
<1>1. PICK db : db = database
  OBVIOUS
<1>2. IsDatabase(db)
  BY <1>1, DatabasesAssumption DEF MessagesInv
<1>3. PICK text : text = Prompt(db)
  OBVIOUS
<1>4. PromptCoversDatabase
  <2>1. DOMAIN db.tables = 1..Len(db.tables)
    BY <1>2, TablesTyped
  <2>2. Len(text) = Len(db.tables) /\ DOMAIN text = DOMAIN db.tables
    BY <1>2, <1>3, <2>1, PromptIs
  <2>3. \A t \in DOMAIN text : text[t].table = db.tables[t].name
    BY <1>2, <1>3, <2>1, <2>2, PromptIs DEF TableNo
  <2>4. \A t \in DOMAIN text : LinesCover(text[t].lines, db, t)
    BY <1>2, <1>3, <2>1, <2>2, LinesAre
  <2>5. \A r \in Requests : llPc[r] # "idle" => messages[r] = text
    BY <1>1, <1>3 DEF MessagesInv
  <2>6. ASSUME NEW r \in Requests, llPc[r] # "idle"
        PROVE  /\ Len(messages[r]) = Len(database.tables)
               /\ \A t \in DOMAIN messages[r] :
                      /\ messages[r][t].table = database.tables[t].name
                      /\ LinesCover(messages[r][t].lines, database, t)
    BY <1>1, <2>2, <2>3, <2>4, <2>5, <2>6
  <2>7. QED
    BY <2>6, Zenon DEF PromptCoversDatabase, LinesCover, Covered
<1>5. PromptDescribesKeys
  BY <1>1, <1>2, PromptDescribes DEF PromptDescribesKeys, MessagesInv
<1>6. QED
  BY <1>4, <1>5 DEF PromptFaithful

(* Every call gives the LLM the whole database: each table once and in      *)
(* order, its columns in order and none lost, whatever the role may see and *)
(* however the keys are named; and where the note of the introspection      *)
(* query holds and the tables are the role's own, every column once with    *)
(* the keys it belongs to.                                                  *)
THEOREM PromptIsFaithful == LlmSpec => []PromptFaithful
<1>1. LlmInit => MessagesInv
  <2> SUFFICES ASSUME LlmInit PROVE MessagesInv
    OBVIOUS
  <2>1. PICK text : text = Prompt(database)
    OBVIOUS
  <2>2. messages \in [Requests -> {<<>>, text}]
    BY DEF LlmInit
  <2>3. QED
    BY <2>1, <2>2 DEF LlmInit, MessagesInv
<1>2. ClientInv /\ MessagesInv /\ [LlmNext]_llmVars => MessagesInv'
  <2> SUFFICES ASSUME ClientInv, MessagesInv, [LlmNext]_llmVars PROVE MessagesInv'
    OBVIOUS
  <2>1. database' = database
    BY DEF LlmNext, GenerateSql, PostReturns, llmVars
  <2>2. PICK text : text = Prompt(database)
    OBVIOUS
  <2>3. Prompt(database') = text
    BY <2>1, <2>2
  <2>4. llPc \in [Requests -> {"idle", "posting", "done"}]
    BY DEF ClientInv, LlmTypeOK
  <2>5. ASSUME NEW r \in Requests, GenerateSql(r) PROVE MessagesInv'
    BY <2>1, <2>2, <2>3, <2>4, <2>5 DEF GenerateSql, MessagesInv
  <2>6. ASSUME NEW r \in Requests, NEW reply \in Replies, PostReturns(r, reply)
        PROVE  MessagesInv'
    <3>1. messages' = messages /\ llPc[r] = "posting"
      BY <2>6 DEF PostReturns
    <3>2. llPc' = llPc \/ llPc' = [llPc EXCEPT ![r] = "done"]
      BY <2>6 DEF PostReturns
    <3>3. \A q \in Requests : llPc'[q] # "idle" => llPc[q] # "idle"
      BY <2>4, <3>1, <3>2
    <3>4. QED
      BY <2>1, <2>2, <2>3, <3>1, <3>3 DEF MessagesInv
  <2>7. CASE UNCHANGED llmVars
    BY <2>1, <2>2, <2>3, <2>7 DEF llmVars, callVars, MessagesInv
  <2>8. QED
    BY <2>5, <2>6, <2>7 DEF LlmNext
<1>3. QED
  BY <1>1, <1>2, ClientInvariant, MessagesFaithful, PTL DEF LlmSpec
=============================================================================
