--------------------------- MODULE SequenceLemmas ---------------------------
(***************************************************************************)
(* What FlattenSeq and SetToSeq of SequencesExt return, for every argument *)
(* and not only for the small ones TLC evaluates.  Both are defined by a   *)
(* recursion or a choice; the facts are derived by induction in the form   *)
(* of sets of natural numbers.                                             *)
(***************************************************************************)
EXTENDS Integers, SequencesExt, SequenceTheorems, FiniteSetTheorems, WellFoundedInduction,
        TLAPS
-----------------------------------------------------------------------------
(* Induction                                                                *)
LEMMA Least ==
    ASSUME NEW S, S \subseteq Nat, S # {}
    PROVE  \E k \in S : \A i \in S : k <= i
<1>1. IsWellFoundedOn(OpToRel(<, Nat), Nat)
  BY NatLessThanWellFounded
<1>2. PICK m : m \in S
  OBVIOUS
<1>3. PICK k \in S : \A i \in S : ~(<<i, k>> \in OpToRel(<, Nat))
  BY <1>1, <1>2, WFMin
<1>4. \A i \in S : ~(i < k)
  BY <1>3 DEF OpToRel
<1>5. QED
  BY <1>4

LEMMA SetInduction ==
    ASSUME NEW S, 0 \in S, \A n \in Nat : n \in S => n + 1 \in S
    PROVE  \A n \in Nat : n \in S
<1> SUFFICES ASSUME NEW m \in Nat, m \notin S PROVE FALSE
  OBVIOUS
<1> DEFINE Missing == {n \in Nat : n \notin S}
<1>1. PICK k \in Missing : \A i \in Missing : k <= i
  <2>1. m \in Missing /\ Missing \subseteq Nat
    OBVIOUS
  <2>2. QED
    BY <2>1, Least
<1>2. k # 0 /\ k - 1 \in Nat /\ k - 1 \notin Missing
  BY <1>1
<1>3. QED
  BY <1>1, <1>2

(* The function FlattenSeq recurses with.                                   *)
Flattens(f, seqs, n) ==
    f = [i \in 1..n |-> IF i = 1 THEN seqs[i] ELSE f[i - 1] \o seqs[i]]

(* It exists and is unique.                                                 *)
LEMMA FlattensExists ==
    ASSUME NEW A, NEW seqs \in Seq(Seq(A)), NEW n \in 1..Len(seqs)
    PROVE  \E f \in [1..n -> Seq(A)] : Flattens(f, seqs, n)
<1> DEFINE Good == {m \in Nat : m \in 1..Len(seqs) =>
                        \E f \in [1..m -> Seq(A)] : Flattens(f, seqs, m)}
<1>1. 0 \in Good
  OBVIOUS
<1>2. ASSUME NEW m \in Nat, m \in Good, m + 1 \in 1..Len(seqs)
      PROVE  \E f \in [1..(m + 1) -> Seq(A)] : Flattens(f, seqs, m + 1)
  <2>1. CASE m = 0
    <3> DEFINE f == [i \in 1..(m + 1) |-> seqs[1]]
    <3>1. f \in [1..(m + 1) -> Seq(A)]
      BY <1>2
    <3>2. f = [i \in 1..(m + 1) |-> IF i = 1 THEN seqs[i] ELSE f[i - 1] \o seqs[i]]
      BY <2>1
    <3>3. QED
      BY <3>1, <3>2 DEF Flattens
  <2>2. CASE m # 0
    <3>1. PICK g \in [1..m -> Seq(A)] : Flattens(g, seqs, m)
      BY <1>2, <2>2
    <3> DEFINE h(i) == IF i = m + 1 THEN g[m] \o seqs[m + 1] ELSE g[i]
               f == [i \in 1..(m + 1) |-> h(i)]
    <3>2. \A i \in 1..m : g[i] = IF i = 1 THEN seqs[i] ELSE g[i - 1] \o seqs[i]
      BY <3>1 DEF Flattens
    <3>3. g[m] \in Seq(A) /\ seqs[m + 1] \in Seq(A)
      BY <1>2, <2>2
    <3>4. g[m] \o seqs[m + 1] \in Seq(A)
      BY <3>3
    <3>5. \A i \in 1..(m + 1) : h(i) \in Seq(A)
      BY <3>4
    <3>6. f \in [1..(m + 1) -> Seq(A)]
      BY <3>5
    <3>7. \A i \in 1..(m + 1) : h(i) = IF i = 1 THEN seqs[i] ELSE f[i - 1] \o seqs[i]
      <4>1. ASSUME NEW i \in 1..(m + 1)
            PROVE  h(i) = IF i = 1 THEN seqs[i] ELSE f[i - 1] \o seqs[i]
        <5>1. CASE i = m + 1
          <6>1. i # 1 /\ i - 1 = m /\ f[m] = g[m]
            BY <2>2, <5>1
          <6>2. QED
            BY <5>1, <6>1
        <5>2. CASE i \in 1..m /\ i # 1
          <6>1. f[i - 1] = g[i - 1] /\ i # m + 1
            BY <5>2
          <6>2. g[i] = g[i - 1] \o seqs[i]
            BY <3>2, <5>2
          <6> HIDE DEF f
          <6>3. QED
            BY <5>2, <6>1, <6>2
        <5>3. CASE i = 1
          <6>1. 1 \in 1..m /\ 1 # m + 1
            BY <2>2
          <6>2. g[1] = seqs[1]
            BY <3>2, <6>1
          <6> HIDE DEF f
          <6>3. QED
            BY <5>3, <6>1, <6>2
        <5>4. QED
          BY <5>1, <5>2, <5>3
      <4>2. QED
        BY <4>1
    <3>8. Flattens(f, seqs, m + 1)
      BY <3>7 DEF Flattens
    <3>9. QED
      BY <3>6, <3>8
  <2>3. QED
    BY <2>1, <2>2
<1>3. \A m \in Nat : m \in Good => m + 1 \in Good
  BY <1>2
<1> HIDE DEF Good
<1>4. n \in Good
  <2>1. \A m \in Nat : m \in Good
    BY <1>1, <1>3, SetInduction
  <2>2. QED
    BY <2>1
<1>5. QED
  BY <1>4 DEF Good

LEMMA FlattensUnique ==
    ASSUME NEW seqs, NEW n \in Nat, NEW f, NEW g, NEW m \in Nat, n <= m,
           Flattens(f, seqs, n), Flattens(g, seqs, m)
    PROVE  \A i \in 1..n : f[i] = g[i]
<1> DEFINE Same == {i \in Nat : i \in 1..n => f[i] = g[i]}
<1>1. /\ \A i \in 1..n : f[i] = IF i = 1 THEN seqs[i] ELSE f[i - 1] \o seqs[i]
      /\ \A i \in 1..n : g[i] = IF i = 1 THEN seqs[i] ELSE g[i - 1] \o seqs[i]
  <2>1. \A i \in 1..n : f[i] = IF i = 1 THEN seqs[i] ELSE f[i - 1] \o seqs[i]
    BY Zenon DEF Flattens
  <2>2. \A i \in 1..m : g[i] = IF i = 1 THEN seqs[i] ELSE g[i - 1] \o seqs[i]
    BY Zenon DEF Flattens
  <2>3. QED
    BY <2>1, <2>2
<1>2. 0 \in Same
  OBVIOUS
<1>3. \A i \in Nat : i \in Same => i + 1 \in Same
  BY <1>1
<1> HIDE DEF Same
<1>4. \A i \in Nat : i \in Same
  BY <1>2, <1>3, SetInduction
<1>5. QED
  BY <1>4 DEF Same

LEMMA FlattenEmpty == FlattenSeq(<<>>) = <<>>
  BY DEF FlattenSeq

LEMMA FlattenIs ==
    ASSUME NEW A, NEW seqs \in Seq(Seq(A)), seqs # <<>>, NEW f,
           Flattens(f, seqs, Len(seqs))
    PROVE  FlattenSeq(seqs) = f[Len(seqs)]
<1> DEFINE n == Len(seqs)
<1>1. n \in Nat /\ n # 0
  OBVIOUS
<1>2. FlattenSeq(seqs) =
          (CHOOSE g : g = [i \in 1..n |-> IF i = 1 THEN seqs[i] ELSE g[i - 1] \o seqs[i]])[n]
  BY <1>1 DEF FlattenSeq
<1>3. FlattenSeq(seqs) = (CHOOSE g : Flattens(g, seqs, n))[n]
  BY <1>2 DEF Flattens
<1>4. Flattens(CHOOSE g : Flattens(g, seqs, n), seqs, n)
  OBVIOUS
<1> HIDE DEF n
<1>5. n \in 1..n /\ n <= n
  BY <1>1
<1>6. Flattens(f, seqs, n)
  BY DEF n
<1>7. PICK g : g = CHOOSE h : Flattens(h, seqs, n)
  OBVIOUS
<1>8. Flattens(g, seqs, n)
  BY <1>4, <1>7
<1>9. \A i \in 1..n : f[i] = g[i]
  BY <1>1, <1>5, <1>6, <1>8, FlattensUnique
<1>10. FlattenSeq(seqs) = f[n]
  BY <1>3, <1>5, <1>7, <1>9
<1>11. QED
  BY <1>10 DEF n

(* One more sequence.                                                       *)
LEMMA FlattenAppend ==
    ASSUME NEW A, NEW seqs \in Seq(Seq(A)), NEW s \in Seq(A)
    PROVE  FlattenSeq(seqs) \in Seq(A) /\ FlattenSeq(Append(seqs, s)) = FlattenSeq(seqs) \o s
<1>1. PICK n \in Nat : n = Len(seqs)
  OBVIOUS
<1>2. PICK more : more = Append(seqs, s)
  OBVIOUS
<1>3. /\ more \in Seq(Seq(A)) /\ Len(more) = n + 1 /\ more[n + 1] = s
      /\ \A i \in 1..n : more[i] = seqs[i]
  BY <1>1, <1>2
<1>4. PICK f \in [1..(n + 1) -> Seq(A)] : Flattens(f, more, n + 1)
  <2>1. n + 1 \in 1..Len(more)
    BY <1>3
  <2>2. QED
    BY <1>3, <2>1, FlattensExists
<1>5. FlattenSeq(more) = f[n + 1]
  BY <1>1, <1>3, <1>4, FlattenIs
<1>6. \A i \in 1..(n + 1) : f[i] = IF i = 1 THEN more[i] ELSE f[i - 1] \o more[i]
  BY <1>4 DEF Flattens
<1>7. CASE n = 0
  <2>1. FlattenSeq(seqs) = <<>>
    <3>1. seqs = <<>>
      BY <1>1, <1>7, EmptySeq
    <3>2. QED
      BY <3>1, FlattenEmpty
  <2>2. FlattenSeq(more) = s
    BY <1>3, <1>5, <1>6, <1>7
  <2>3. <<>> \o s = s /\ <<>> \in Seq(A)
    OBVIOUS
  <2>4. QED
    BY <1>2, <2>1, <2>2, <2>3
<1>8. CASE n # 0
  <2>1. PICK g \in [1..n -> Seq(A)] : Flattens(g, seqs, n)
    BY SMTT(30), <1>1, <1>8, FlattensExists
  <2>2. FlattenSeq(seqs) = g[n]
    BY <1>1, <1>8, <2>1, FlattenIs
  <2>3. Flattens(g, more, n)
    BY <1>3, <2>1 DEF Flattens
  <2>4. g[n] = f[n]
    <3>1. \A i \in 1..n : g[i] = f[i]
      <4>1. PICK m \in Nat : m = n + 1
        OBVIOUS
      <4>2. Flattens(f, more, m) /\ n <= m
        BY <1>4, <4>1
      <4>3. QED
        BY SMTT(30), <2>3, <4>2, FlattensUnique
    <3>2. QED
      BY <1>8, <3>1
  <2>5. f[n + 1] = f[n] \o s
    <3>1. n + 1 \in 1..(n + 1) /\ n + 1 # 1 /\ (n + 1) - 1 = n
      BY <1>8
    <3>2. f[n + 1] = f[(n + 1) - 1] \o more[n + 1]
      BY <1>6, <3>1
    <3>3. QED
      BY <1>3, <3>1, <3>2
  <2>6. g[n] \in Seq(A)
    BY <1>8, <2>1
  <2>7. QED
    BY <1>2, <1>5, <2>2, <2>4, <2>5, <2>6
<1>9. QED
  BY <1>7, <1>8
-----------------------------------------------------------------------------
(* A sequence that is not empty is its front and its last element.          *)
LEMMA FrontAndLast ==
    ASSUME NEW S, NEW s \in Seq(S), s # <<>>
    PROVE  \E front \in Seq(S), last \in S : s = Append(front, last)
<1>1. PICK n \in Nat : Len(s) = n + 1
  <2>1. Len(s) \in Nat /\ Len(s) # 0
    BY EmptySeq
  <2>2. Len(s) = (Len(s) - 1) + 1 /\ Len(s) - 1 \in Nat
    BY <2>1
  <2>3. QED
    BY <2>2
<1> DEFINE f == [i \in 1..n |-> s[i]]
<1>2. f \in Seq(S) /\ Len(f) = n
  BY <1>1
<1>3. s[n + 1] \in S
  BY <1>1
<1>4. /\ Append(f, s[n + 1]) \in Seq(S) /\ Len(Append(f, s[n + 1])) = n + 1
      /\ \A i \in 1..(n + 1) : Append(f, s[n + 1])[i] = s[i]
  BY <1>2, <1>3
<1> HIDE DEF f
<1>5. s = Append(f, s[n + 1])
  BY <1>1, <1>2, <1>3, <1>4, SeqEqual
<1>6. QED
  BY <1>2, <1>3, <1>5

LEMMA Associative ==
    ASSUME NEW A
    PROVE  \A x, y, z \in Seq(A) : (x \o y) \o z = x \o (y \o z)
<1>1. ASSUME NEW x \in Seq(A), NEW y \in Seq(A), NEW z \in Seq(A)
      PROVE  (x \o y) \o z = x \o (y \o z)
  BY ConcatAssociative
<1>2. QED
  BY <1>1

LEMMA FlattenConcat ==
    ASSUME NEW A, NEW a \in Seq(Seq(A)), NEW b \in Seq(Seq(A))
    PROVE  FlattenSeq(a \o b) = FlattenSeq(a) \o FlattenSeq(b)
<1>0. \A x, y, z \in Seq(A) : (x \o y) \o z = x \o (y \o z)
  BY SMTT(30), Associative
<1> DEFINE Good == {n \in Nat : \A c \in Seq(Seq(A)) :
                        Len(c) = n => FlattenSeq(a \o c) = FlattenSeq(a) \o FlattenSeq(c)}
<1>1. 0 \in Good
  <2>1. ASSUME NEW c \in Seq(Seq(A)), Len(c) = 0
        PROVE  FlattenSeq(a \o c) = FlattenSeq(a) \o FlattenSeq(c)
    <3>1. c = <<>>
      BY <2>1, EmptySeq
    <3>2. a \o c = a /\ FlattenSeq(c) = <<>>
      BY <3>1, FlattenEmpty
    <3>3. FlattenSeq(a) \in Seq(A)
      BY FlattenAppend, EmptySeq
    <3>4. FlattenSeq(a) \o <<>> = FlattenSeq(a)
      BY <3>3
    <3>5. QED
      BY <3>2, <3>4
  <2>2. QED
    BY <2>1
<1>2. ASSUME NEW n \in Nat, n \in Good PROVE n + 1 \in Good
  <2>1. ASSUME NEW c \in Seq(Seq(A)), Len(c) = n + 1
        PROVE  FlattenSeq(a \o c) = FlattenSeq(a) \o FlattenSeq(c)
    <3>1. PICK front \in Seq(Seq(A)), last \in Seq(A) :
              Len(front) = n /\ c = Append(front, last)
      <4>1. c # <<>>
        BY <2>1
      <4>2. PICK front \in Seq(Seq(A)), last \in Seq(A) : c = Append(front, last)
        BY <4>1, FrontAndLast
      <4>3. Len(front) = n
        BY <2>1, <4>2
      <4>4. QED
        BY <4>2, <4>3
    <3>2. FlattenSeq(a \o front) = FlattenSeq(a) \o FlattenSeq(front)
      BY <1>2, <3>1
    <3>3. a \o c = Append(a \o front, last) /\ a \o front \in Seq(Seq(A))
      BY SMTT(30), <3>1
    <3>4. FlattenSeq(a \o c) = FlattenSeq(a \o front) \o last
      BY <3>3, FlattenAppend
    <3>5. /\ FlattenSeq(c) = FlattenSeq(front) \o last
          /\ FlattenSeq(front) \in Seq(A) /\ FlattenSeq(a) \in Seq(A)
      BY <3>1, FlattenAppend
    <3>6. (FlattenSeq(a) \o FlattenSeq(front)) \o last
              = FlattenSeq(a) \o (FlattenSeq(front) \o last)
      BY <1>0, <3>5
    <3>7. QED
      BY <3>2, <3>4, <3>5, <3>6
  <2>2. QED
    BY <2>1
<1> HIDE DEF Good
<1>3. \A n \in Nat : n \in Good
  BY <1>1, <1>2, SetInduction
<1>4. PICK n \in Nat : n = Len(b)
  OBVIOUS
<1>5. n \in Good
  BY <1>3
<1>6. QED
  BY <1>4, <1>5 DEF Good

(* Where the elements of a flattened sequence come from: element i is the   *)
(* at[i]-th of sequence of[i], in order, and none is left out.              *)
Places(flat, seqs, of, at) ==
    /\ \A i \in 1..Len(flat) : /\ of[i] \in 1..Len(seqs) /\ at[i] \in 1..Len(seqs[of[i]])
                               /\ flat[i] = seqs[of[i]][at[i]]
    /\ \A i, j \in 1..Len(flat) :
           i < j => of[i] < of[j] \/ (of[i] = of[j] /\ at[i] < at[j])
    /\ \A k \in 1..Len(seqs) : \A p \in 1..Len(seqs[k]) :
           \E i \in 1..Len(flat) : of[i] = k /\ at[i] = p

(* One more sequence, whose elements come last.                             *)
LEMMA PlacesAppended ==
    ASSUME NEW A, NEW front \in Seq(Seq(A)), NEW last \in Seq(A), NEW flat \in Seq(A),
           NEW of \in [1..Len(flat) -> Nat], NEW at \in [1..Len(flat) -> Nat],
           Places(flat, front, of, at),
           NEW more \in Seq(A), more = flat \o last,
           NEW c \in Seq(Seq(A)), c = Append(front, last)
    PROVE  \E of2, at2 \in [1..Len(more) -> Nat] : Places(more, c, of2, at2)
<1>1. PICK m \in Nat : m = Len(flat)
  OBVIOUS
<1>2. PICK l \in Nat : l = Len(last)
  OBVIOUS
<1>3. PICK n \in Nat : n = Len(front)
  OBVIOUS
<1>4. /\ Len(more) = m + l
      /\ \A i \in 1..m : more[i] = flat[i]
      /\ \A i \in (m + 1)..(m + l) : more[i] = last[i - m] /\ i - m \in 1..l
  BY <1>1, <1>2
<1>5. /\ Len(c) = n + 1 /\ c[n + 1] = last
      /\ \A i \in 1..n : c[i] = front[i]
  BY <1>3
<1>6. PICK of2 : of2 = [i \in 1..(m + l) |-> IF i <= m THEN of[i] ELSE n + 1]
  OBVIOUS
<1>7. PICK at2 : at2 = [i \in 1..(m + l) |-> IF i <= m THEN at[i] ELSE i - m]
  OBVIOUS
<1>8. of2 \in [1..(m + l) -> Nat] /\ at2 \in [1..(m + l) -> Nat]
  BY <1>1, <1>6, <1>7
<1>9. \A i \in 1..m : of2[i] = of[i] /\ at2[i] = at[i] /\ i \in 1..(m + l)
  BY <1>6, <1>7
<1>10. \A i \in (m + 1)..(m + l) : of2[i] = n + 1 /\ at2[i] = i - m
  BY <1>6, <1>7
<1>11. /\ \A i \in 1..m : of[i] \in 1..n /\ at[i] \in 1..Len(front[of[i]])
                                         /\ flat[i] = front[of[i]][at[i]]
       /\ \A i, j \in 1..m : i < j => of[i] < of[j] \/ (of[i] = of[j] /\ at[i] < at[j])
  BY <1>1, <1>3 DEF Places
<1>12. ASSUME NEW i \in 1..(m + l)
       PROVE  /\ of2[i] \in 1..(n + 1) /\ at2[i] \in 1..Len(c[of2[i]])
              /\ more[i] = c[of2[i]][at2[i]]
  <2>1. CASE i \in 1..m
    <3>1. PICK k \in 1..n : k = of[i] /\ of2[i] = k
      BY <1>9, <1>11, <2>1
    <3>2. PICK q : q = at[i] /\ at2[i] = q
      BY <1>9, <2>1
    <3>3. c[k] = front[k] /\ q \in 1..Len(front[k]) /\ more[i] = front[k][q]
      BY <1>4, <1>5, <1>11, <2>1, <3>1, <3>2
    <3>4. QED
      BY SMTT(30), <3>1, <3>2, <3>3
  <2>2. CASE i \in (m + 1)..(m + l)
    <3>1. of2[i] = n + 1 /\ at2[i] = i - m
      BY <1>10, <2>2
    <3>2. i - m \in 1..l /\ more[i] = last[i - m]
      BY <1>4, <2>2
    <3>3. PICK q \in 1..l : q = i - m
      BY <3>2
    <3>4. of2[i] = n + 1 /\ at2[i] = q /\ more[i] = last[q] /\ c[n + 1] = last
      BY <1>5, <3>1, <3>2, <3>3
    <3>5. QED
      BY SMTT(30), <1>2, <3>4
  <2>3. i \in 1..m \/ i \in (m + 1)..(m + l)
    OBVIOUS
  <2>4. QED
    BY <2>1, <2>2, <2>3
<1>13. ASSUME NEW i \in 1..(m + l), NEW j \in 1..(m + l), i < j
       PROVE  of2[i] < of2[j] \/ (of2[i] = of2[j] /\ at2[i] < at2[j])
  <2>1. CASE j \in 1..m
    <3>1. i \in 1..m
      BY <1>13, <2>1
    <3>2. of[i] < of[j] \/ (of[i] = of[j] /\ at[i] < at[j])
      BY <1>11, <1>13, <2>1, <3>1
    <3>3. of2[i] = of[i] /\ at2[i] = at[i] /\ of2[j] = of[j] /\ at2[j] = at[j]
      BY <1>9, <2>1, <3>1
    <3>4. QED
      BY <3>2, <3>3
  <2>2. CASE i \in 1..m /\ j \in (m + 1)..(m + l)
    <3>1. of2[i] \in 1..n /\ of2[j] = n + 1
      BY <1>9, <1>10, <1>11, <2>2
    <3>2. QED
      BY <3>1
  <2>3. CASE i \in (m + 1)..(m + l) /\ j \in (m + 1)..(m + l)
    <3>1. of2[i] = n + 1 /\ of2[j] = n + 1 /\ at2[i] = i - m /\ at2[j] = j - m
      BY <1>10, <2>3
    <3>2. QED
      BY <1>13, <3>1
  <2>4. QED
    BY <1>13, <2>1, <2>2, <2>3
<1>14. ASSUME NEW k \in 1..(n + 1), NEW p \in 1..Len(c[k])
       PROVE  \E i \in 1..(m + l) : of2[i] = k /\ at2[i] = p
  <2>1. CASE k \in 1..n
    <3>1. p \in 1..Len(front[k])
      BY <1>5, <1>14, <2>1
    <3>2. PICK i \in 1..m : of[i] = k /\ at[i] = p
      BY <1>1, <1>3, <2>1, <3>1 DEF Places
    <3>3. of2[i] = k /\ at2[i] = p /\ i \in 1..(m + l)
      BY <1>9, <3>2
    <3>4. QED
      BY <3>3
  <2>2. CASE k = n + 1
    <3>1. p \in 1..l
      BY <1>2, <1>5, <1>14, <2>2
    <3>2. m + p \in (m + 1)..(m + l) /\ (m + p) - m = p /\ m + p \in 1..(m + l)
      BY <3>1
    <3>3. of2[m + p] = k /\ at2[m + p] = p
      BY <1>10, <2>2, <3>2
    <3>4. QED
      BY <3>2, <3>3
  <2>3. QED
    BY <2>1, <2>2
<1>15. Places(more, c, of2, at2)
  <2>1. \A i \in 1..Len(more) : /\ of2[i] \in 1..Len(c) /\ at2[i] \in 1..Len(c[of2[i]])
                                /\ more[i] = c[of2[i]][at2[i]]
    BY <1>4, <1>5, <1>12
  <2>2. \A i, j \in 1..Len(more) :
            i < j => of2[i] < of2[j] \/ (of2[i] = of2[j] /\ at2[i] < at2[j])
    BY <1>4, <1>13
  <2>3. \A k \in 1..Len(c) : \A p \in 1..Len(c[k]) :
            \E i \in 1..Len(more) : of2[i] = k /\ at2[i] = p
    BY <1>4, <1>5, <1>14
  <2>4. QED
    BY <2>1, <2>2, <2>3 DEF Places
<1>16. QED
  BY <1>4, <1>8, <1>15

LEMMA FlattenPlaces ==
    ASSUME NEW A, NEW seqs \in Seq(Seq(A))
    PROVE  \E of, at \in [1..Len(FlattenSeq(seqs)) -> Nat] :
               Places(FlattenSeq(seqs), seqs, of, at)
<1> DEFINE Known(c) == \E of, at \in [1..Len(FlattenSeq(c)) -> Nat] :
                           Places(FlattenSeq(c), c, of, at)
           Good == {n \in Nat : \A c \in Seq(Seq(A)) : Len(c) = n => Known(c)}
<1>1. 0 \in Good
  <2>1. ASSUME NEW c \in Seq(Seq(A)), Len(c) = 0 PROVE Known(c)
    <3>1. c = <<>>
      BY <2>1, EmptySeq
    <3>2. FlattenSeq(c) = <<>>
      BY <3>1, FlattenEmpty
    <3>3. PICK of : of = [i \in 1..Len(FlattenSeq(c)) |-> 0]
      OBVIOUS
    <3>4. Places(FlattenSeq(c), c, of, of) /\ of \in [1..Len(FlattenSeq(c)) -> Nat]
      BY <2>1, <3>2, <3>3 DEF Places
    <3>5. QED
      BY <3>4
  <2>2. QED
    BY <2>1
<1>2. ASSUME NEW n \in Nat, n \in Good PROVE n + 1 \in Good
  <2>1. ASSUME NEW c \in Seq(Seq(A)), Len(c) = n + 1 PROVE Known(c)
    <3>1. PICK front \in Seq(Seq(A)), last \in Seq(A) :
              Len(front) = n /\ c = Append(front, last)
      <4>1. c # <<>>
        BY <2>1
      <4>2. PICK front \in Seq(Seq(A)), last \in Seq(A) : c = Append(front, last)
        BY <4>1, FrontAndLast
      <4>3. Len(front) = n
        BY <2>1, <4>2
      <4>4. QED
        BY <4>2, <4>3
    <3>2. Known(front)
      BY <1>2, <3>1
    <3>3. PICK flat \in Seq(A) : flat = FlattenSeq(front)
      BY <3>1, FlattenAppend
    <3>4. PICK of, at \in [1..Len(flat) -> Nat] : Places(flat, front, of, at)
      BY <3>2, <3>3
    <3>5. PICK more \in Seq(A) : more = flat \o last
      <4>1. flat \o last \in Seq(A)
        OBVIOUS
      <4>2. QED
        BY <4>1
    <3>6. FlattenSeq(c) = more
      BY <3>1, <3>3, <3>5, FlattenAppend
    <3>7. \E of2, at2 \in [1..Len(more) -> Nat] : Places(more, c, of2, at2)
      BY <3>1, <3>4, <3>5, PlacesAppended
    <3>8. QED
      BY <3>6, <3>7
  <2> HIDE DEF Known
  <2>2. QED
    BY <2>1
<1> HIDE DEF Good
<1>3. \A n \in Nat : n \in Good
  BY <1>1, <1>2, SetInduction
<1>4. PICK n \in Nat : n = Len(seqs)
  OBVIOUS
<1>5. n \in Good
  BY <1>3
<1>6. QED
  BY <1>4, <1>5 DEF Good

(* A set listed in some order.                                              *)
LEMMA ListedSet ==
    ASSUME NEW S, IsFiniteSet(S)
    PROVE  /\ SetToSeq(S) \in Seq(S) /\ Len(SetToSeq(S)) = Cardinality(S)
           /\ Cardinality(S) \in Nat
           /\ \A x \in S : \E i \in 1..Len(SetToSeq(S)) : SetToSeq(S)[i] = x
           /\ \A i, j \in 1..Len(SetToSeq(S)) : SetToSeq(S)[i] = SetToSeq(S)[j] => i = j
<1>1. PICK n \in Nat : n = Cardinality(S)
  <2>1. Cardinality(S) \in Nat
    BY FS_CardinalityType
  <2>2. QED
    BY <2>1
<1>2. \E f : f \in [1..n -> S] /\ IsInjective(f)
  <2>1. ExistsBijection(1..n, S)
    BY <1>1, FS_CardinalityType
  <2>2. PICK f : f \in Bijection(1..n, S)
    BY <2>1 DEF ExistsBijection
  <2>3. f \in [1..n -> S] /\ IsInjective(f)
    BY <2>2 DEF Bijection, Injection, IsInjective
  <2>4. QED
    BY <2>3
<1>3. PICK s : s = SetToSeq(S)
  OBVIOUS
<1>4. s \in [1..n -> S] /\ IsInjective(s)
  <2>1. s = CHOOSE f \in [1..n -> S] : IsInjective(f)
    BY <1>1, <1>3 DEF SetToSeq
  <2>2. QED
    BY <1>2, <2>1
<1>5. \A i, j \in 1..n : s[i] = s[j] => i = j
  BY <1>4 DEF IsInjective
<1>6. s \in Injection(1..n, S)
  BY <1>4, <1>5 DEF Injection, IsInjective
<1>7. s \in Surjection(1..n, S)
  <2>1. IsFiniteSet(1..n) /\ Cardinality(1..n) = n
    BY FS_Interval
  <2>2. QED
    BY <1>1, <1>6, <2>1, FS_Injection
<1>8. s \in Seq(S) /\ Len(s) = n
  BY <1>4
<1>9. \A x \in S : \E i \in 1..n : s[i] = x
  BY <1>7 DEF Surjection
<1>10. QED
  BY <1>1, <1>3, <1>5, <1>8, <1>9
-----------------------------------------------------------------------------
(* A function that increases from 1..n onto 1..m changes nothing.           *)
Increasing(f, n) == \A i, j \in 1..n : i < j => f[i] < f[j]

LEMMA OntoIncreasing ==
    ASSUME NEW n \in Nat, NEW m \in Nat, NEW f \in [1..n -> 1..m], Increasing(f, n),
           \A k \in 1..m : \E i \in 1..n : f[i] = k
    PROVE  n = m /\ \A i \in 1..n : f[i] = i
<1> DEFINE Good == {i \in Nat : \A j \in 1..n : j <= i => f[j] = j}
<1>1. 0 \in Good
  OBVIOUS
<1>2. ASSUME NEW i \in Nat, i \in Good PROVE i + 1 \in Good
  <2>1. ASSUME i + 1 \in 1..n PROVE f[i + 1] = i + 1
    <3>1. \A j \in 1..n : j <= i => f[j] = j
      BY <1>2
    <3>2. f[i + 1] >= i + 1
      <4>1. CASE i = 0
        BY <2>1, <4>1
      <4>2. CASE i # 0
        <5>1. i \in 1..n /\ i < i + 1 /\ f[i] = i
          BY <2>1, <3>1, <4>2
        <5>2. f[i] < f[i + 1]
          BY <2>1, <5>1 DEF Increasing
        <5>3. QED
          BY <2>1, <5>1, <5>2
      <4>3. QED
        BY <4>1, <4>2
    <3>3. i + 1 \in 1..m
      BY <2>1, <3>2
    <3>4. PICK j \in 1..n : f[j] = i + 1
      BY <3>3
    <3>5. ~(j <= i)
      BY <3>1, <3>4
    <3>6. ~(j > i + 1)
      <4>1. j > i + 1 => f[i + 1] < f[j]
        BY <2>1, <3>4 DEF Increasing
      <4>2. QED
        BY <2>1, <3>2, <3>4, <4>1
    <3>7. QED
      BY <3>4, <3>5, <3>6
  <2>2. \A j \in 1..n : j <= i => f[j] = j
    BY <1>2
  <2>3. \A j \in 1..n : j <= i + 1 => f[j] = j
    <3>1. \A j \in 1..n : j <= i + 1 => j <= i \/ j = i + 1
      OBVIOUS
    <3>2. QED
      BY <2>1, <2>2, <3>1
  <2>4. QED
    BY <2>3
<1> HIDE DEF Good
<1>3. \A i \in Nat : i \in Good
  BY <1>1, <1>2, SetInduction
<1>4. \A i \in 1..n : f[i] = i
  BY <1>3 DEF Good
<1>5. n <= m
  BY <1>4
<1>6. ~(m > n)
  BY <1>4
<1>7. QED
  BY <1>4, <1>5, <1>6

(* Flattening nothing but empty sequences.                                  *)
LEMMA FlattenNone ==
    ASSUME NEW A, NEW seqs \in Seq(Seq(A)), \A k \in 1..Len(seqs) : seqs[k] = <<>>
    PROVE  FlattenSeq(seqs) = <<>>
<1>1. PICK flat \in Seq(A) : flat = FlattenSeq(seqs)
  BY FlattenAppend, EmptySeq
<1>2. PICK of, at \in [1..Len(flat) -> Nat] : Places(flat, seqs, of, at)
  BY <1>1, FlattenPlaces
<1>3. \A i \in 1..Len(flat) : of[i] \in 1..Len(seqs) /\ at[i] \in 1..Len(seqs[of[i]])
  BY <1>2 DEF Places
<1>4. \A i \in 1..Len(flat) : FALSE
  BY <1>3
<1>5. Len(flat) = 0
  BY <1>4
<1>6. QED
  BY <1>1, <1>5, EmptySeq

LEMMA FlattenOne ==
    ASSUME NEW A, NEW s \in Seq(A)
    PROVE  FlattenSeq(<<s>>) = s
<1>1. <<s>> = Append(<<>>, s) /\ <<>> \in Seq(Seq(A))
  OBVIOUS
<1>2. FlattenSeq(<<s>>) = FlattenSeq(<<>>) \o s
  BY <1>1, FlattenAppend
<1>3. QED
  BY SMTT(30), <1>2, FlattenEmpty

(* Flattening sequences of one element each.                                *)
LEMMA FlattenSingles ==
    ASSUME NEW A, NEW s \in Seq(A), NEW seqs \in Seq(Seq(A)), Len(seqs) = Len(s),
           \A k \in 1..Len(seqs) : seqs[k] = <<s[k]>>
    PROVE  FlattenSeq(seqs) = s
<1>1. PICK flat \in Seq(A) : flat = FlattenSeq(seqs)
  BY FlattenAppend, EmptySeq
<1>2. PICK of, at \in [1..Len(flat) -> Nat] : Places(flat, seqs, of, at)
  BY <1>1, FlattenPlaces
<1>3. PICK n \in Nat : n = Len(flat)
  OBVIOUS
<1>4. PICK m \in Nat : m = Len(s)
  OBVIOUS
<1>5. \A k \in 1..m : Len(seqs[k]) = 1 /\ seqs[k][1] = s[k]
  <2>1. ASSUME NEW k \in 1..m PROVE Len(seqs[k]) = 1 /\ seqs[k][1] = s[k]
    <3>1. seqs[k] = <<s[k]>> /\ s[k] \in A
      BY <1>4
    <3>2. \A x : Len(<<x>>) = 1 /\ <<x>>[1] = x
      OBVIOUS
    <3>3. QED
      BY <3>1, <3>2
  <2>2. QED
    BY <2>1
<1>6. \A i \in 1..n : of[i] \in 1..m /\ at[i] = 1 /\ flat[i] = s[of[i]]
  BY <1>2, <1>3, <1>4, <1>5 DEF Places
<1>7. Increasing(of, n)
  <2>1. \A i, j \in 1..n : i < j => of[i] < of[j] \/ (of[i] = of[j] /\ at[i] < at[j])
    BY <1>2, <1>3 DEF Places
  <2>2. QED
    BY <1>6, <2>1 DEF Increasing
<1>8. \A k \in 1..m : \E i \in 1..n : of[i] = k
  <2>1. \A k \in 1..m : \A p \in 1..Len(seqs[k]) : \E i \in 1..n : of[i] = k /\ at[i] = p
    BY <1>2, <1>3, <1>4 DEF Places
  <2>2. ASSUME NEW k \in 1..m PROVE \E i \in 1..n : of[i] = k
    <3>1. 1 \in 1..Len(seqs[k])
      BY <1>5
    <3>2. QED
      BY <2>1, <3>1
  <2>3. QED
    BY <2>2
<1>9. of \in [1..n -> 1..m]
  BY <1>3, <1>6
<1>10. n = m /\ \A i \in 1..n : of[i] = i
  BY ZenonT(40), <1>7, <1>8, <1>9, OntoIncreasing
<1>11. \A i \in 1..n : flat[i] = s[i]
  BY <1>6, <1>10
<1>12. QED
  BY <1>1, <1>3, <1>4, <1>10, <1>11, SeqEqual
=============================================================================
