---------------------------- MODULE Seed_proofs -----------------------------
(***************************************************************************)
(* The script of generate_seed.py loads, inserts every row once and pays   *)
(* each order its total, whatever the sizes of the tables, the draws of    *)
(* the generator and the rows per INSERT.                                  *)
(***************************************************************************)
EXTENDS Seed, SequenceLemmas
-----------------------------------------------------------------------------
(* Statements.  The amount of a payment is a total whose value does not     *)
(* matter here.                                                             *)
TableNames == {"regions", "countries", "categories", "suppliers", "products", "customers",
               "orders", "order_items", "payments", "reviews"}
RowStatuses == Statuses \cup {"none", "captured", "failed"}
KeyRef == [table : TableNames, id : Nat]
ItemRow == [id : Nat, refs : SUBSET KeyRef, status : RowStatuses, amount : Nat]
Amount == Nat \cup {OrderTotal(rows) : rows \in Seq(ItemRow)}
Row == [id : Nat, refs : SUBSET KeyRef, status : RowStatuses, amount : Amount]
Statement == [op : {"insert", "setval"}, table : TableNames, rows : Seq(Row)]

(* LoadedIds and ReferencesResolve, of any script.                          *)
IdsIn(script, table, n) ==
    UNION {Ids(script[m].rows) : m \in {k \in 1..n : script[k].table = table}}
Has(script, table, id) == id \in IdsIn(script, table, Len(script))
Resolves(script) ==
    \A n \in DOMAIN script : \A i \in DOMAIN script[n].rows :
        \A ref \in script[n].rows[i].refs : ref.id \in IdsIn(script, ref.table, n)

LEMMA InIds ==
    ASSUME NEW script \in Seq(Statement), NEW table, NEW n \in Nat, NEW id
    PROVE  id \in IdsIn(script, table, n) <=>
               \E m \in 1..n : /\ script[m].table = table
                               /\ \E i \in DOMAIN script[m].rows : script[m].rows[i].id = id
  BY DEF IdsIn, Ids

LEMMA FunctionIsSeq ==
    ASSUME NEW S, NEW n \in Nat, NEW f \in [1..n -> S]
    PROVE  f \in Seq(S) /\ Len(f) = n
  OBVIOUS

(* Where the statements of a concatenation come from.                       *)
LEMMA Concatenated ==
    ASSUME NEW S, NEW s \in Seq(S), NEW t \in Seq(S)
    PROVE  /\ s \o t \in Seq(S) /\ Len(s \o t) = Len(s) + Len(t)
           /\ \A n \in 1..Len(s) : (s \o t)[n] = s[n]
           /\ \A k \in 1..Len(t) : (s \o t)[Len(s) + k] = t[k]
           /\ \A n \in 1..Len(s \o t) :
                  n \in 1..Len(s) \/ (n - Len(s) \in 1..Len(t) /\ n = Len(s) + (n - Len(s)))
  OBVIOUS

(* What was loaded stays loaded, and what is appended is loaded, too.       *)
LEMMA HasConcatenated ==
    ASSUME NEW s \in Seq(Statement), NEW t \in Seq(Statement), NEW table, NEW id
    PROVE  /\ \A n \in 1..Len(s) :
                  id \in IdsIn(s, table, n) => id \in IdsIn(s \o t, table, n)
           /\ \A k \in 1..Len(t) :
                  \/ id \in IdsIn(t, table, k)
                  \/ Has(s, table, id)
                  => id \in IdsIn(s \o t, table, Len(s) + k)
           /\ Has(s, table, id) \/ Has(t, table, id) => Has(s \o t, table, id)
<1> DEFINE u == s \o t
<1>1. /\ u \in Seq(Statement) /\ Len(u) = Len(s) + Len(t)
      /\ Len(s) \in Nat /\ Len(t) \in Nat
      /\ \A n \in 1..Len(s) : u[n] = s[n]
      /\ \A k \in 1..Len(t) : u[Len(s) + k] = t[k]
  BY Concatenated
<1> HIDE DEF u
<1>2. ASSUME NEW n \in 0..Len(s), NEW m \in Nat, m >= n, id \in IdsIn(s, table, n)
      PROVE  id \in IdsIn(u, table, m)
  <2>1. PICK k \in 1..n : /\ s[k].table = table
                          /\ \E i \in DOMAIN s[k].rows : s[k].rows[i].id = id
    BY <1>1, <1>2, InIds
  <2>2. u[k] = s[k] /\ k \in 1..m
    BY <1>1, <1>2, <2>1
  <2>3. \E j \in 1..m : /\ u[j].table = table
                        /\ \E i \in DOMAIN u[j].rows : u[j].rows[i].id = id
    BY <2>1, <2>2
  <2>4. QED
    BY <1>1, <2>3, InIds
<1>3. ASSUME NEW k \in 0..Len(t), id \in IdsIn(t, table, k)
      PROVE  id \in IdsIn(u, table, Len(s) + k)
  <2>1. PICK j \in 1..k : /\ t[j].table = table
                          /\ \E i \in DOMAIN t[j].rows : t[j].rows[i].id = id
    BY <1>1, <1>3, InIds
  <2>2. u[Len(s) + j] = t[j] /\ Len(s) + j \in 1..(Len(s) + k) /\ Len(s) + k \in Nat
    BY <1>1, <1>3, <2>1
  <2>3. \E m \in 1..(Len(s) + k) : /\ u[m].table = table
                                   /\ \E i \in DOMAIN u[m].rows : u[m].rows[i].id = id
    BY <2>1, <2>2
  <2>4. QED
    BY <1>1, <2>2, <2>3, InIds
<1>4. QED
  BY <1>1, <1>2, <1>3 DEF Has, u

(* A script stays loadable if each appended statement finds its references  *)
(* in the script so far, or in itself and the appended ones before it.      *)
LEMMA StillResolves ==
    ASSUME NEW s \in Seq(Statement), NEW t \in Seq(Statement), Resolves(s),
           \A k \in DOMAIN t : \A i \in DOMAIN t[k].rows : \A ref \in t[k].rows[i].refs :
               Has(s, ref.table, ref.id) \/ ref.id \in IdsIn(t, ref.table, k)
    PROVE  Resolves(s \o t)
<1> DEFINE u == s \o t
<1>1. /\ u \in Seq(Statement) /\ Len(u) = Len(s) + Len(t)
      /\ \A n \in 1..Len(s) : u[n] = s[n]
      /\ \A k \in 1..Len(t) : u[Len(s) + k] = t[k]
      /\ \A n \in 1..Len(u) :
             n \in 1..Len(s) \/ (n - Len(s) \in 1..Len(t) /\ n = Len(s) + (n - Len(s)))
  BY Concatenated
<1>2. ASSUME NEW n \in 1..Len(s), NEW i \in DOMAIN u[n].rows, NEW ref \in u[n].rows[i].refs
      PROVE  ref.id \in IdsIn(u, ref.table, n)
  <2>1. ref.id \in IdsIn(s, ref.table, n)
    <3> HIDE DEF u
    <3> QED
      BY <1>1, <1>2 DEF Resolves
  <2>2. QED
    BY <2>1, HasConcatenated
<1>3. ASSUME NEW k \in 1..Len(t), NEW i \in DOMAIN t[k].rows, NEW ref \in t[k].rows[i].refs
      PROVE  ref.id \in IdsIn(u, ref.table, Len(s) + k)
  <2>1. Has(s, ref.table, ref.id) \/ ref.id \in IdsIn(t, ref.table, k)
    BY <1>3
  <2>2. QED
    BY <2>1, HasConcatenated
<1> HIDE DEF u
<1>4. ASSUME NEW n \in DOMAIN u, NEW i \in DOMAIN u[n].rows, NEW ref \in u[n].rows[i].refs
      PROVE  ref.id \in IdsIn(u, ref.table, n)
  <2>1. n \in 1..Len(u)
    BY <1>1, <1>4
  <2>2. CASE n \in 1..Len(s)
    BY <1>2, <1>4, <2>2
  <2>3. CASE n \notin 1..Len(s)
    <3>1. PICK k \in 1..Len(t) : n = Len(s) + k
      BY <1>1, <2>1, <2>3
    <3>2. u[n] = t[k]
      BY <1>1, <3>1
    <3>3. QED
      BY <1>3, <1>4, <3>1, <3>2
  <2>4. QED
    BY <2>2, <2>3
<1>5. QED
  BY <1>4 DEF u, Resolves
-----------------------------------------------------------------------------
(* The two kinds of INSERT                                                  *)

LEMMA RowTyped ==
    ASSUME NEW id \in Nat, NEW refs \in SUBSET KeyRef, NEW status \in RowStatuses,
           NEW amount \in Amount
    PROVE  SeedRow(id, refs, status, amount) \in Row
  BY DEF SeedRow, Row

LEMMA InsertTyped ==
    ASSUME NEW table \in TableNames, NEW rows, rows \in Seq(Row)
    PROVE  /\ Insert(table, rows) \in Statement
           /\ Insert(table, rows).table = table /\ Insert(table, rows).rows = rows
  BY DEF Insert, Statement

LEMMA PlainInsert ==
    ASSUME NEW table \in TableNames, NEW n \in Nat, NEW refs \in [1..n -> SUBSET KeyRef]
    PROVE  LET t == InsertPlain(table, refs)
           IN  /\ t \in Seq(Statement) /\ Len(t) = 1
               /\ t[1].table = table /\ DOMAIN t[1].rows = 1..n
               /\ \A i \in 1..n : t[1].rows[i].id = i /\ t[1].rows[i].refs = refs[i]
<1> DEFINE rows == [i \in DOMAIN refs |-> PlainRow(i, refs[i])]
<1>1. 0 \in Amount /\ DOMAIN refs = 1..n
  BY DEF Amount
<1>2. \A i \in 1..n : rows[i] \in Row /\ rows[i].id = i /\ rows[i].refs = refs[i]
  <2>1. ASSUME NEW i \in 1..n
        PROVE  PlainRow(i, refs[i]) \in Row
    <3>1. i \in Nat /\ refs[i] \in SUBSET KeyRef /\ "none" \in RowStatuses
      BY <2>1 DEF RowStatuses
    <3>2. SeedRow(i, refs[i], "none", 0) \in Row
      BY <1>1, <3>1, RowTyped
    <3>3. QED
      BY <3>2 DEF PlainRow
  <2>2. QED
    BY <1>1, <2>1 DEF PlainRow, SeedRow
<1>3. rows \in Seq(Row) /\ DOMAIN rows = 1..n
  <2>1. rows \in [1..n -> Row]
    BY <1>1, <1>2
  <2>2. QED
    BY <2>1
<1> HIDE DEF rows
<1>4. Insert(table, rows) \in Statement
  BY <1>3, InsertTyped
<1>5. <<Insert(table, rows)>> \in Seq(Statement)
  BY <1>4
<1>6. InsertPlain(table, refs) = <<Insert(table, rows)>>
  BY DEF InsertPlain, rows
<1>7. QED
  BY <1>2, <1>3, <1>5, <1>6 DEF Insert

(* After a plain INSERT, the keys 1..n are there.                           *)
LEMMA PlainLoads ==
    ASSUME NEW table \in TableNames, NEW n \in Nat, NEW refs \in [1..n -> SUBSET KeyRef],
           NEW i \in 1..n
    PROVE  i \in IdsIn(InsertPlain(table, refs), table, 1)
<1> DEFINE t == InsertPlain(table, refs)
<1>1. /\ t \in Seq(Statement) /\ Len(t) = 1
      /\ t[1].table = table /\ DOMAIN t[1].rows = 1..n
      /\ t[1].rows[i].id = i
  BY PlainInsert
<1> HIDE DEF t
<1>2. i \in IdsIn(t, table, 1)
  BY <1>1, InIds
<1>3. QED
  BY <1>2 DEF t

(* Row j is the i-th of chunk k.                                            *)
LEMMA ChunkOfRow ==
    ASSUME NEW n \in Nat, NEW j \in 1..n
    PROVE  \E k \in 1..((n + Chunk - 1) \div Chunk) :
               LET last == IF k * Chunk < n THEN k * Chunk ELSE n
               IN  j \in ((k - 1) * Chunk + 1)..last
<1>1. Chunk \in Nat \ {0}
  BY SeedAssumption
<1> DEFINE q == (j - 1) \div Chunk
           c == (n + Chunk - 1) \div Chunk
<1>2. /\ q \in Nat /\ Chunk * q <= j - 1 /\ j - 1 < Chunk * q + Chunk
      /\ c \in Nat /\ Chunk * c <= n + Chunk - 1 /\ n + Chunk - 1 < Chunk * c + Chunk
  <2>1. \A a \in Nat : /\ a \div Chunk \in Nat
                       /\ Chunk * (a \div Chunk) <= a
                       /\ a < Chunk * (a \div Chunk) + Chunk
    BY <1>1
  <2>2. j - 1 \in Nat /\ n + Chunk - 1 \in Nat
    BY <1>1
  <2>3. QED
    BY <2>1, <2>2
<1> HIDE DEF q, c
<1>3. Chunk * q < Chunk * c
  BY <1>1, <1>2
<1>4. q + 1 \in 1..c
  BY <1>1, <1>2, <1>3
<1>5. (q + 1) * Chunk = Chunk * q + Chunk /\ (q + 1 - 1) * Chunk = Chunk * q
  BY <1>1, <1>2
<1>6. QED
  BY <1>1, <1>2, <1>4, <1>5 DEF c

(* Chunk k holds rows (k - 1) * Chunk + 1, (k - 1) * Chunk + 2, ..., at     *)
(* least one and at most Chunk of them.                                     *)
LEMMA ChunkRows ==
    ASSUME NEW rows \in Seq(Row), NEW k \in 1..Chunks(rows)
    PROVE  LET n == Len(rows)
               o == (k - 1) * Chunk
               part == SubSeq(rows, o + 1, IF k * Chunk < n THEN k * Chunk ELSE n)
           IN  /\ part \in Seq(Row) /\ Len(part) \in 1..Chunk
               /\ \A i \in 1..Len(part) : o + i \in 1..n /\ part[i] = rows[o + i]
               /\ \A j \in (o + 1)..(IF k * Chunk < n THEN k * Chunk ELSE n) :
                      j - o \in 1..Len(part)
<1> DEFINE n == Len(rows)
           c == Chunks(rows)
           o == (k - 1) * Chunk
           z == IF k * Chunk < n THEN k * Chunk ELSE n
           part == SubSeq(rows, o + 1, z)
<1>1. Chunk \in Nat \ {0} /\ n \in Nat
  BY SeedAssumption
<1>2. c \in Nat /\ Chunk * c <= n + Chunk - 1
  <2>1. n + Chunk - 1 \in Nat
    BY <1>1
  <2>2. \A a \in Nat : a \div Chunk \in Nat /\ Chunk * (a \div Chunk) <= a
    BY <1>1
  <2>3. c = (n + Chunk - 1) \div Chunk
    BY DEF Chunks
  <2> HIDE DEF c, n
  <2>4. QED
    BY <2>1, <2>2, <2>3
<1> HIDE DEF n, c
<1>3. k \in 1..c
  BY DEF c
<1>4. /\ o \in Nat /\ k * Chunk = o + Chunk /\ o + 1 <= n
  <2>1. o \in Nat /\ k * Chunk = o + Chunk
    BY <1>1, <1>2, <1>3
  <2>2. k * Chunk <= c * Chunk
    BY <1>1, <1>2, <1>3
  <2>3. c * Chunk = Chunk * c
    BY <1>1, <1>2
  <2> HIDE DEF o
  <2>4. QED
    BY <1>1, <1>2, <2>1, <2>2, <2>3
<1> HIDE DEF o
<1>5. z \in Nat /\ z <= n /\ o + 1 <= z /\ z - o <= Chunk
  BY <1>1, <1>4
<1> HIDE DEF z
<1>6. /\ part \in Seq(Row) /\ Len(part) = z - o
      /\ \A i \in 1..Len(part) : part[i] = rows[o + i]
  <2>1. z <= Len(rows) /\ o \in Nat /\ z \in Nat /\ o + 1 <= z
    BY <1>4, <1>5 DEF n
  <2>2. /\ SubSeq(rows, o + 1, z) \in Seq(Row)
        /\ Len(SubSeq(rows, o + 1, z)) = IF o + 1 <= z THEN z - o ELSE 0
        /\ \A i \in 1..Len(SubSeq(rows, o + 1, z)) : SubSeq(rows, o + 1, z)[i] = rows[o + i]
    BY <2>1
  <2>3. QED
    BY <2>1, <2>2
<1> HIDE DEF part
<1>7. Len(part) \in 1..Chunk
  BY <1>1, <1>4, <1>5, <1>6
<1>8. \A i \in 1..Len(part) : o + i \in 1..n
  BY <1>1, <1>4, <1>5, <1>6
<1>9. \A j \in (o + 1)..z : j - o \in 1..Len(part)
  BY <1>4, <1>5, <1>6
<1>10. QED
  BY <1>6, <1>7, <1>8, <1>9 DEF part, n, o, z

(* The chunks hold the rows they were made of, all of them.                 *)
InChunk(j, k, script) == j - (k - 1) * Chunk \in 1..Len(script[k].rows)

LEMMA BulkInsert ==
    ASSUME NEW table \in TableNames, NEW rows \in Seq(Row)
    PROVE  LET t == EmitBulk(table, rows)
           IN  /\ t \in Seq(Statement) /\ Len(t) = Chunks(rows)
               /\ \A k \in 1..Len(t) :
                      /\ t[k].table = table
                      /\ Len(t[k].rows) \in 1..Chunk /\ t[k].rows \in Seq(Row)
                      /\ \A i \in 1..Len(t[k].rows) :
                             /\ (k - 1) * Chunk + i \in 1..Len(rows)
                             /\ t[k].rows[i] = rows[(k - 1) * Chunk + i]
               /\ \A j \in 1..Len(rows) : \E k \in 1..Len(t) : InChunk(j, k, t)
<1> DEFINE n == Len(rows)
           last(k) == IF k * Chunk < n THEN k * Chunk ELSE n
           part(k) == SubSeq(rows, (k - 1) * Chunk + 1, last(k))
           c == Chunks(rows)
           t == EmitBulk(table, rows)
<1>1. c = (n + Chunk - 1) \div Chunk /\ c \in Nat
  <2>1. Chunk \in Nat \ {0} /\ n \in Nat
    BY SeedAssumption
  <2>2. n + Chunk - 1 \in Nat
    BY <2>1
  <2>3. QED
    BY <2>1, <2>2 DEF Chunks
<1>2. ASSUME NEW k \in 1..c
      PROVE  /\ part(k) \in Seq(Row) /\ Len(part(k)) \in 1..Chunk
             /\ \A i \in 1..Len(part(k)) : /\ (k - 1) * Chunk + i \in 1..n
                                           /\ part(k)[i] = rows[(k - 1) * Chunk + i]
             /\ \A j \in ((k - 1) * Chunk + 1)..last(k) :
                    j - (k - 1) * Chunk \in 1..Len(part(k))
  BY ChunkRows
<1>3. t = [k \in 1..c |-> Insert(table, part(k))]
  BY DEF EmitBulk
<1> HIDE DEF n, last, part, c, t
<1>4. \A k \in 1..c : Insert(table, part(k)) \in Statement
  BY <1>2, InsertTyped
<1>5. t \in Seq(Statement) /\ Len(t) = c
  <2>1. t \in [1..c -> Statement]
    BY <1>3, <1>4
  <2>2. QED
    BY <1>1, <2>1
<1>6. \A k \in 1..c : t[k].table = table /\ t[k].rows = part(k)
  BY <1>3 DEF Insert
<1>7. ASSUME NEW j \in 1..n
      PROVE  \E k \in 1..c : j - (k - 1) * Chunk \in 1..Len(part(k))
  <2>1. PICK k \in 1..c : j \in ((k - 1) * Chunk + 1)..last(k)
    <3>1. n \in Nat
      BY DEF n
    <3>2. QED
      BY <1>1, <3>1, ChunkOfRow DEF last
  <2>2. QED
    BY <1>2, <2>1
<1>8. \A k \in 1..Len(t) :
          /\ t[k].table = table
          /\ Len(t[k].rows) \in 1..Chunk /\ t[k].rows \in Seq(Row)
          /\ \A i \in 1..Len(t[k].rows) :
                 /\ (k - 1) * Chunk + i \in 1..n
                 /\ t[k].rows[i] = rows[(k - 1) * Chunk + i]
  <2>1. ASSUME NEW k \in 1..c
        PROVE  /\ t[k].table = table
               /\ Len(t[k].rows) \in 1..Chunk /\ t[k].rows \in Seq(Row)
               /\ \A i \in 1..Len(t[k].rows) :
                      /\ (k - 1) * Chunk + i \in 1..n
                      /\ t[k].rows[i] = rows[(k - 1) * Chunk + i]
    <3>1. t[k].rows = part(k) /\ t[k].table = table
      BY <1>6
    <3>2. QED
      BY <1>2, <3>1
  <2>2. QED
    BY <1>5, <2>1
<1>9. \A j \in 1..n : \E k \in 1..Len(t) : InChunk(j, k, t)
  BY <1>5, <1>6, <1>7 DEF InChunk
<1>10. QED
  BY <1>5, <1>8, <1>9 DEF n, c, t

LEMMA BulkLoads ==
    ASSUME NEW table \in TableNames, NEW rows \in Seq(Row), NEW j \in 1..Len(rows)
    PROVE  rows[j].id \in IdsIn(EmitBulk(table, rows), table, Len(EmitBulk(table, rows)))
<1>1. PICK t \in Seq(Statement) : t = EmitBulk(table, rows)
  <2>1. EmitBulk(table, rows) \in Seq(Statement)
    BY BulkInsert
  <2>2. QED
    BY <2>1
<1>2. PICK k \in 1..Len(t) : j - (k - 1) * Chunk \in 1..Len(t[k].rows)
  <2>1. PICK k \in 1..Len(t) : InChunk(j, k, t)
    BY <1>1, BulkInsert
  <2>2. QED
    BY <2>1 DEF InChunk
<1>3. PICK o : o = (k - 1) * Chunk
  OBVIOUS
<1>4. t[k].rows[j - o] = rows[o + (j - o)] /\ j - o \in 1..Len(t[k].rows)
  BY ZenonT(40), <1>1, <1>2, <1>3, BulkInsert
<1>5. o \in Nat
  <2>1. Chunk \in Nat
    BY SeedAssumption
  <2>2. QED
    BY <1>3, <2>1
<1>6. o + (j - o) = j
  BY <1>5
<1>7. t[k].table = table /\ t[k].rows \in Seq(Row)
  BY <1>1, BulkInsert
<1>8. \E i \in DOMAIN t[k].rows : t[k].rows[i].id = rows[j].id
  BY <1>4, <1>6, <1>7
<1>9. QED
  BY <1>1, <1>7, <1>8, InIds
-----------------------------------------------------------------------------
(* A script s and statements after it                                       *)

HasAll(script, table, n) == \A i \in 1..n : Has(script, table, i)
HoldsMore(script, s) == \A table, id : Has(s, table, id) => Has(script, table, id)
Loadable(script) == script \in Seq(Statement) /\ Resolves(script)

LEMMA ThreeAppended ==
    \A s, a, b, c \in Seq(Statement) : ((s \o a) \o b) \o c = s \o (a \o b \o c)
<1> SUFFICES ASSUME NEW s \in Seq(Statement), NEW a \in Seq(Statement),
                    NEW b \in Seq(Statement), NEW c \in Seq(Statement)
             PROVE  ((s \o a) \o b) \o c = s \o (a \o b \o c)
  OBVIOUS
<1>1. (s \o a) \o b = s \o (a \o b)
  BY SMTT(30), ConcatAssociative
<1>2. PICK ab \in Seq(Statement) : ab = a \o b
  <2>1. a \o b \in Seq(Statement)
    BY Concatenated
  <2>2. QED
    BY <2>1
<1>3. (s \o ab) \o c = s \o (ab \o c)
  BY SMTT(30), <1>2, ConcatAssociative
<1>4. QED
  BY <1>1, <1>2, <1>3

(* A plain INSERT may reference what the script has and its own rows.       *)
LEMMA AfterPlain ==
    ASSUME NEW s, Loadable(s), NEW table \in TableNames,
           NEW n \in Nat, NEW refs \in [1..n -> SUBSET KeyRef],
           \A i \in 1..n : \A ref \in refs[i] :
               Has(s, ref.table, ref.id) \/ (ref.table = table /\ ref.id \in 1..n)
    PROVE  LET u == s \o InsertPlain(table, refs)
           IN  Loadable(u) /\ HoldsMore(u, s) /\ HasAll(u, table, n)
<1> DEFINE t == InsertPlain(table, refs)
<1>1. /\ t \in Seq(Statement) /\ Len(t) = 1 /\ DOMAIN t = 1..1
      /\ t[1].table = table /\ DOMAIN t[1].rows = 1..n
      /\ \A i \in 1..n : t[1].rows[i].id = i /\ t[1].rows[i].refs = refs[i]
  BY PlainInsert
<1>2. \A i \in 1..n : i \in IdsIn(t, table, 1)
  BY PlainLoads
<1> HIDE DEF t
<1>3. s \in Seq(Statement) /\ Resolves(s)
  BY DEF Loadable
<1>4. ASSUME NEW k \in DOMAIN t, NEW i \in DOMAIN t[k].rows, NEW ref \in t[k].rows[i].refs
      PROVE  Has(s, ref.table, ref.id) \/ ref.id \in IdsIn(t, ref.table, k)
  <2>1. k = 1
    BY <1>1
  <2>2. i \in 1..n /\ ref \in refs[i]
    BY <1>1, <1>4, <2>1
  <2>3. QED
    BY <1>2, <2>1, <2>2
<1>5. Resolves(s \o t)
  BY <1>1, <1>3, <1>4, StillResolves
<1>6. s \o t \in Seq(Statement)
  BY <1>1, <1>3
<1>7. HoldsMore(s \o t, s)
  BY <1>1, <1>3, HasConcatenated DEF HoldsMore
<1>8. HasAll(s \o t, table, n)
  <2>1. \A i \in 1..n : Has(t, table, i)
    BY <1>1, <1>2 DEF Has
  <2>2. QED
    BY <1>1, <1>3, <2>1, HasConcatenated DEF HasAll
<1>9. QED
  BY <1>5, <1>6, <1>7, <1>8 DEF Loadable, t

(* Rows in chunks may reference what the script has.                        *)
LEMMA AfterBulk ==
    ASSUME NEW s, Loadable(s), NEW table \in TableNames, NEW rows \in Seq(Row),
           \A j \in 1..Len(rows) : \A ref \in rows[j].refs : Has(s, ref.table, ref.id)
    PROVE  LET u == s \o EmitBulk(table, rows)
           IN  /\ Loadable(u) /\ HoldsMore(u, s)
               /\ EmitBulk(table, rows) \in Seq(Statement)
               /\ \A j \in 1..Len(rows) : Has(u, table, rows[j].id)
<1> DEFINE t == EmitBulk(table, rows)
<1>1. /\ t \in Seq(Statement)
      /\ \A k \in 1..Len(t) : \A i \in DOMAIN t[k].rows : \E j \in 1..Len(rows) :
             t[k].rows[i] = rows[j]
      /\ \A j \in 1..Len(rows) : rows[j].id \in IdsIn(t, table, Len(t))
  <2>1. t \in Seq(Statement) /\ \A j \in 1..Len(rows) : rows[j].id \in IdsIn(t, table, Len(t))
    BY BulkInsert, BulkLoads
  <2>2. ASSUME NEW k \in 1..Len(t), NEW i \in DOMAIN t[k].rows
        PROVE  \E j \in 1..Len(rows) : t[k].rows[i] = rows[j]
    <3>1. t[k].rows \in Seq(Row)
      BY BulkInsert
    <3>2. i \in 1..Len(t[k].rows)
      BY <2>2, <3>1
    <3>3. QED
      BY <3>2, BulkInsert
  <2>3. QED
    BY <2>1, <2>2
<1> HIDE DEF t
<1>2. s \in Seq(Statement) /\ Resolves(s)
  BY DEF Loadable
<1>3. ASSUME NEW k \in DOMAIN t, NEW i \in DOMAIN t[k].rows, NEW ref \in t[k].rows[i].refs
      PROVE  Has(s, ref.table, ref.id) \/ ref.id \in IdsIn(t, ref.table, k)
  <2>1. k \in 1..Len(t)
    BY <1>1
  <2>2. PICK j \in 1..Len(rows) : t[k].rows[i] = rows[j]
    BY <1>1, <1>3, <2>1
  <2>3. QED
    BY <1>3, <2>2
<1>4. Resolves(s \o t)
  BY <1>1, <1>2, <1>3, StillResolves
<1>5. s \o t \in Seq(Statement)
  BY <1>1, <1>2
<1>6. HoldsMore(s \o t, s)
  BY <1>1, <1>2, HasConcatenated DEF HoldsMore
<1>7. \A j \in 1..Len(rows) : Has(s \o t, table, rows[j].id)
  <2>1. \A j \in 1..Len(rows) : Has(t, table, rows[j].id)
    BY <1>1 DEF Has
  <2>2. QED
    BY <1>1, <1>2, <2>1, HasConcatenated
<1>8. QED
  BY <1>1, <1>4, <1>5, <1>6, <1>7 DEF Loadable, t
-----------------------------------------------------------------------------
(* The invariant: what is written so far loads, it has the tables main is   *)
(* past, and the rows kept for later reference nothing else but each other. *)
RefersTo(refs, table, n) == \A ref \in refs : ref.table = table /\ ref.id \in 1..n

Kept ==
    /\ orderRows \in Seq(Row) /\ itemRows \in Seq(Row) /\ paymentRows \in Seq(Row)
    /\ \A i \in 1..Len(orderRows) :
           orderRows[i].id = i /\ RefersTo(orderRows[i].refs, "customers", NCustomers)
    /\ \A i \in 1..Len(itemRows) : \A ref \in itemRows[i].refs :
           \/ ref.table = "orders" /\ ref.id \in 1..Len(orderRows)
           \/ ref.table = "products" /\ ref.id \in 1..NProducts
    /\ \A i \in 1..Len(paymentRows) : RefersTo(paymentRows[i].refs, "orders", Len(orderRows))

PastTables ==
    /\ seedPc \in {"suppliers", "products", "customers", "orders", "reviews"} =>
           /\ HasAll(lines, "countries", Len(CountryRegion))
           /\ HasAll(lines, "categories", Len(CategoryParent))
    /\ seedPc \in {"products", "customers", "orders", "reviews"} =>
           HasAll(lines, "suppliers", NSuppliers)
    /\ seedPc \in {"customers", "orders", "reviews"} => HasAll(lines, "products", NProducts)
    /\ seedPc \in {"orders", "reviews"} => HasAll(lines, "customers", NCustomers)

ScriptInv == Loadable(lines) /\ Kept /\ PastTables

LEMMA SizesTyped ==
    /\ NRegions \in Nat /\ NSuppliers \in Nat /\ NProducts \in Nat /\ NCustomers \in Nat
    /\ NOrders \in Nat
    /\ Len(CountryRegion) \in Nat /\ DOMAIN CountryRegion = 1..Len(CountryRegion)
    /\ Len(CategoryParent) \in Nat /\ DOMAIN CategoryParent = 1..Len(CategoryParent)
    /\ \A i \in 1..Len(CountryRegion) : CountryRegion[i] \in 1..NRegions
    /\ \A i \in 1..Len(CategoryParent) : CategoryParent[i] \in 0..Len(CategoryParent)
<1>1. /\ NRegions \in Nat /\ NSuppliers \in Nat /\ NProducts \in Nat /\ NCustomers \in Nat
      /\ NOrders \in Nat
  BY SeedAssumption
<1>2. PICK S : S = 1..NRegions
  OBVIOUS
<1>3. CountryRegion \in Seq(S)
  BY <1>2, SeedAssumption
<1>4. /\ Len(CountryRegion) \in Nat /\ DOMAIN CountryRegion = 1..Len(CountryRegion)
      /\ \A i \in 1..Len(CountryRegion) : CountryRegion[i] \in S
  BY <1>3
<1>5. PICK n : n = Len(CategoryParent)
  OBVIOUS
<1>6. CategoryParent \in Seq(0..n)
  BY <1>5, SeedAssumption
<1>7. /\ n \in Nat /\ DOMAIN CategoryParent = 1..n
      /\ \A i \in 1..n : CategoryParent[i] \in 0..n
  BY <1>5, <1>6
<1>8. QED
  BY <1>1, <1>2, <1>4, <1>5, <1>7

LEMMA RefTyped ==
    ASSUME NEW table \in TableNames, NEW id \in Nat
    PROVE  Ref(table, id) \in KeyRef /\ Ref(table, id).table = table /\ Ref(table, id).id = id
  BY DEF Ref, KeyRef

LEMMA ScriptStart == SeedInit => ScriptInv
<1> SUFFICES ASSUME SeedInit PROVE ScriptInv
  OBVIOUS
<1>1. /\ lines = <<>> /\ seedPc = "reference"
      /\ orderRows = <<>> /\ itemRows = <<>> /\ paymentRows = <<>>
  BY DEF SeedInit
<1>2. Loadable(lines)
  BY <1>1 DEF Loadable, Resolves
<1>3. Kept
  BY <1>1 DEF Kept
<1>4. PastTables
  BY <1>1 DEF PastTables
<1>5. QED
  BY <1>2, <1>3, <1>4 DEF ScriptInv

(* A part of main that writes statements: what is left to show of it.       *)
LEMMA PartWritten ==
    ASSUME ScriptInv, NEW from, NEW to, NEW t, Appends(from, to, t),
           UNCHANGED <<orderRows, itemRows, paymentRows>>,
           Loadable(lines \o t), HoldsMore(lines \o t, lines),
           to = "suppliers" =>
               /\ HasAll(lines \o t, "countries", Len(CountryRegion))
               /\ HasAll(lines \o t, "categories", Len(CategoryParent)),
           to = "products" => HasAll(lines \o t, "suppliers", NSuppliers),
           to = "customers" => HasAll(lines \o t, "products", NProducts),
           to = "orders" => HasAll(lines \o t, "customers", NCustomers),
           <<from, to>> \in {<<"reference", "suppliers">>, <<"suppliers", "products">>,
                             <<"products", "customers">>, <<"customers", "orders">>,
                             <<"orders", "reviews">>, <<"reviews", "sequences">>,
                             <<"sequences", "written">>}
    PROVE  ScriptInv'
<1> DEFINE u == lines \o t
<1>1. seedPc = from /\ seedPc' = to /\ lines' = u
  BY DEF Appends
<1>2. \A table, n : HasAll(lines, table, n) => HasAll(u, table, n)
  BY DEF HasAll, HoldsMore
<1> HIDE DEF u
<1>3. Loadable(lines') /\ PastTables
  BY <1>1 DEF u, ScriptInv
<1>4. Kept'
  BY DEF ScriptInv, Kept
<1>5. \A table, n : HasAll(lines', table, n) <=> HasAll(u, table, n)
  BY <1>1
<1>6. PastTables'
  BY <1>1, <1>2, <1>3 DEF PastTables, u
<1>7. QED
  BY <1>3, <1>4, <1>6 DEF ScriptInv
-----------------------------------------------------------------------------
(* The parts of main                                                        *)

LEMMA EmitReferenceKeeps == ScriptInv /\ EmitReference => ScriptInv'
<1> SUFFICES ASSUME ScriptInv, EmitReference PROVE ScriptInv'
  OBVIOUS
<1> DEFINE n == Len(CountryRegion)
           m == Len(CategoryParent)
           regionRefs == [i \in 1..NRegions |-> {}]
           countryRefs == [i \in 1..n |-> {Ref("regions", CountryRegion[i])}]
           parentRefs == [i \in 1..m |-> {Ref("categories", p) : p \in {CategoryParent[i]} \ {0}}]
           r == InsertPlain("regions", regionRefs)
           c == InsertPlain("countries", countryRefs)
           g == InsertPlain("categories", parentRefs)
<1>1. Appends("reference", "suppliers", r \o c \o g)
  BY SizesTyped DEF EmitReference, Countries
<1>2. /\ "regions" \in TableNames /\ "countries" \in TableNames /\ "categories" \in TableNames
      /\ NRegions \in Nat /\ n \in Nat /\ m \in Nat
  BY SizesTyped DEF TableNames
<1>3. regionRefs \in [1..NRegions -> SUBSET KeyRef]
  OBVIOUS
<1>4. \A i \in 1..n : /\ CountryRegion[i] \in 1..NRegions
                      /\ countryRefs[i] = {Ref("regions", CountryRegion[i])}
  BY SizesTyped
<1>5. countryRefs \in [1..n -> SUBSET KeyRef]
  BY <1>2, <1>4, RefTyped
<1>6. \A i \in 1..m : \A ref \in parentRefs[i] :
          \E p \in 1..m : ref = Ref("categories", p)
  BY SizesTyped
<1>7. parentRefs \in [1..m -> SUBSET KeyRef]
  <2>1. \A i \in 1..m : parentRefs[i] \in SUBSET KeyRef
    BY <1>2, <1>6, RefTyped
  <2>2. QED
    BY <2>1
<1>8. Loadable(lines) /\ lines \in Seq(Statement)
  BY DEF ScriptInv, Loadable
<1>9. r \in Seq(Statement) /\ c \in Seq(Statement) /\ g \in Seq(Statement)
  BY ZenonT(40), <1>2, <1>3, <1>5, <1>7, PlainInsert
<1> DEFINE u == lines \o r
           v == u \o c
           w == v \o g
<1>10. Loadable(u) /\ HoldsMore(u, lines) /\ HasAll(u, "regions", NRegions)
  <2>1. \A i \in 1..NRegions : regionRefs[i] = {}
    OBVIOUS
  <2> HIDE DEF regionRefs
  <2>2. QED
    BY <1>2, <1>3, <1>8, <2>1, AfterPlain
<1>11. Loadable(v) /\ HoldsMore(v, u) /\ HasAll(v, "countries", n)
  <2>1. ASSUME NEW i \in 1..n, NEW ref \in countryRefs[i]
        PROVE  Has(u, ref.table, ref.id)
    <3>1. ref.table = "regions" /\ ref.id \in 1..NRegions
      BY <1>2, <1>4, <2>1, RefTyped
    <3>2. QED
      BY <1>10, <3>1 DEF HasAll
  <2> HIDE DEF countryRefs, u
  <2>2. QED
    BY <1>2, <1>5, <1>10, <2>1, AfterPlain
<1>12. Loadable(w) /\ HoldsMore(w, v) /\ HasAll(w, "categories", m)
  <2>1. ASSUME NEW i \in 1..m, NEW ref \in parentRefs[i]
        PROVE  ref.table = "categories" /\ ref.id \in 1..m
    BY <1>2, <1>6, <2>1, RefTyped
  <2> HIDE DEF parentRefs, v, m
  <2>2. QED
    BY <1>2, <1>7, <1>11, <2>1, AfterPlain
<1> HIDE DEF r, c, g
<1>13. w = lines \o (r \o c \o g)
  <2>1. lines \in Seq(Statement)
    BY <1>8
  <2>2. \A a, b, d \in Seq(Statement) :
            ((lines \o a) \o b) \o d = lines \o (a \o b \o d)
    BY <2>1, ThreeAppended
  <2>3. ((lines \o r) \o c) \o g = lines \o (r \o c \o g)
    BY <1>9, <2>2
  <2>4. QED
    BY <2>3
<1> HIDE DEF u, v, w
<1>14. HoldsMore(w, lines) /\ HasAll(w, "countries", n)
  BY <1>10, <1>11, <1>12 DEF HoldsMore, HasAll
<1>15. UNCHANGED <<orderRows, itemRows, paymentRows>>
  BY DEF EmitReference
<1>16. QED
  BY <1>1, <1>12, <1>13, <1>14, <1>15, PartWritten

(* The parts that write one table without chunks.                           *)
LEMMA PlainPart ==
    ASSUME ScriptInv, NEW from, NEW to, NEW table \in TableNames, NEW n \in Nat,
           NEW refs \in [1..n -> SUBSET KeyRef],
           Appends(from, to, InsertPlain(table, refs)),
           UNCHANGED <<orderRows, itemRows, paymentRows>>,
           \A i \in 1..n : \A ref \in refs[i] : Has(lines, ref.table, ref.id),
           <<from, to, table, n>> \in {<<"suppliers", "products", "suppliers", NSuppliers>>,
                                       <<"products", "customers", "products", NProducts>>,
                                       <<"customers", "orders", "customers", NCustomers>>}
    PROVE  ScriptInv'
<1> DEFINE t == InsertPlain(table, refs)
           u == lines \o t
<1>1. Loadable(lines)
  BY DEF ScriptInv
<1>2. Loadable(u) /\ HoldsMore(u, lines) /\ HasAll(u, table, n)
  BY <1>1, AfterPlain
<1>3. Appends(from, to, t)
  OBVIOUS
<1> HIDE DEF t
<1>4. QED
  BY <1>2, <1>3, PartWritten

LEMMA EmitSuppliersKeeps == ScriptInv /\ EmitSuppliers => ScriptInv'
<1> SUFFICES ASSUME ScriptInv, EmitSuppliers PROVE ScriptInv'
  OBVIOUS
<1>1. PICK country \in [1..NSuppliers -> Countries] :
          Appends("suppliers", "products",
              InsertPlain("suppliers", [i \in 1..NSuppliers |-> {Ref("countries", country[i])}]))
  BY DEF EmitSuppliers
<1> DEFINE refs == [i \in 1..NSuppliers |-> {Ref("countries", country[i])}]
<1>2. "suppliers" \in TableNames /\ "countries" \in TableNames /\ NSuppliers \in Nat
  BY SizesTyped DEF TableNames
<1>3. \A i \in 1..NSuppliers : country[i] \in 1..Len(CountryRegion) /\ country[i] \in Nat
  BY SizesTyped DEF Countries
<1>4. refs \in [1..NSuppliers -> SUBSET KeyRef]
  BY <1>2, <1>3, RefTyped
<1>5. HasAll(lines, "countries", Len(CountryRegion))
  BY <1>1 DEF Appends, ScriptInv, PastTables
<1>6. \A i \in 1..NSuppliers : \A ref \in refs[i] : Has(lines, ref.table, ref.id)
  BY <1>2, <1>3, <1>5, RefTyped DEF HasAll
<1>7. Appends("suppliers", "products", InsertPlain("suppliers", refs))
      /\ UNCHANGED <<orderRows, itemRows, paymentRows>>
  BY <1>1 DEF EmitSuppliers
<1> HIDE DEF refs
<1>8. QED
  BY <1>2, <1>4, <1>6, <1>7, PlainPart

LEMMA EmitProductsKeeps == ScriptInv /\ EmitProducts => ScriptInv'
<1> SUFFICES ASSUME ScriptInv, EmitProducts PROVE ScriptInv'
  OBVIOUS
<1>1. PICK category \in [1..NProducts -> DOMAIN CategoryParent],
           supplier \in [1..NProducts -> SupplierOf] :
          Appends("products", "customers",
              InsertPlain("products",
                  [i \in 1..NProducts |->
                      {Ref("categories", category[i]), Ref("suppliers", supplier[i])}]))
  BY DEF EmitProducts
<1> DEFINE refs == [i \in 1..NProducts |->
                       {Ref("categories", category[i]), Ref("suppliers", supplier[i])}]
<1>2. /\ "suppliers" \in TableNames /\ "categories" \in TableNames /\ "products" \in TableNames
      /\ NProducts \in Nat
  BY SizesTyped DEF TableNames
<1>3. \A i \in 1..NProducts : /\ category[i] \in 1..Len(CategoryParent) /\ category[i] \in Nat
                              /\ supplier[i] \in 1..NSuppliers /\ supplier[i] \in Nat
  BY SizesTyped DEF SupplierOf
<1>4. refs \in [1..NProducts -> SUBSET KeyRef]
  BY <1>2, <1>3, RefTyped
<1>5. /\ HasAll(lines, "categories", Len(CategoryParent))
      /\ HasAll(lines, "suppliers", NSuppliers)
  BY <1>1 DEF Appends, ScriptInv, PastTables
<1>6. \A i \in 1..NProducts : \A ref \in refs[i] : Has(lines, ref.table, ref.id)
  BY <1>2, <1>3, <1>5, RefTyped DEF HasAll
<1>7. Appends("products", "customers", InsertPlain("products", refs))
      /\ UNCHANGED <<orderRows, itemRows, paymentRows>>
  BY <1>1 DEF EmitProducts
<1> HIDE DEF refs
<1>8. QED
  BY <1>2, <1>4, <1>6, <1>7, PlainPart

LEMMA EmitCustomersKeeps == ScriptInv /\ EmitCustomers => ScriptInv'
<1> SUFFICES ASSUME ScriptInv, EmitCustomers PROVE ScriptInv'
  OBVIOUS
<1>1. PICK country \in [1..NCustomers -> Countries] :
          Appends("customers", "orders",
              InsertPlain("customers", [i \in 1..NCustomers |-> {Ref("countries", country[i])}]))
  BY DEF EmitCustomers
<1> DEFINE refs == [i \in 1..NCustomers |-> {Ref("countries", country[i])}]
<1>2. "customers" \in TableNames /\ "countries" \in TableNames /\ NCustomers \in Nat
  BY SizesTyped DEF TableNames
<1>3. \A i \in 1..NCustomers : country[i] \in 1..Len(CountryRegion) /\ country[i] \in Nat
  BY SizesTyped DEF Countries
<1>4. refs \in [1..NCustomers -> SUBSET KeyRef]
  BY <1>2, <1>3, RefTyped
<1>5. HasAll(lines, "countries", Len(CountryRegion))
  BY <1>1 DEF Appends, ScriptInv, PastTables
<1>6. \A i \in 1..NCustomers : \A ref \in refs[i] : Has(lines, ref.table, ref.id)
  BY <1>2, <1>3, <1>5, RefTyped DEF HasAll
<1>7. Appends("customers", "orders", InsertPlain("customers", refs))
      /\ UNCHANGED <<orderRows, itemRows, paymentRows>>
  BY <1>1 DEF EmitCustomers
<1> HIDE DEF refs
<1>8. QED
  BY <1>2, <1>4, <1>6, <1>7, PlainPart

(* What an item comes to, and that order_total adds up nothing else.        *)
LEMMA NetTyped ==
    ASSUME NEW item \in Item
    PROVE  Net(item) \in Nat
<1>1. /\ item.product \in 1..NProducts /\ item.quantity \in Nat
      /\ item.discount \in 0..100
  BY SeedAssumption DEF Item
<1>2. ProdPrices[item.product] \in Nat
  BY <1>1, SeedAssumption
<1>3. 100 - item.discount \in Nat
  BY <1>1
<1>4. PICK price \in Nat, left \in Nat, quantity \in Nat :
          /\ price = ProdPrices[item.product] /\ left = 100 - item.discount
          /\ quantity = item.quantity
  <2>1. PICK price \in Nat : price = ProdPrices[item.product]
    BY <1>2
  <2>2. PICK left \in Nat : left = 100 - item.discount
    BY <1>3
  <2>3. PICK quantity \in Nat : quantity = item.quantity
    BY <1>1
  <2>4. QED
    BY <2>1, <2>2, <2>3
<1>5. Net(item) = quantity * price * left
  BY <1>4 DEF Net
<1>6. PICK value \in Nat : value = quantity * price
  OBVIOUS
<1>7. value * left \in Nat
  BY <1>6
<1>8. QED
  BY <1>5, <1>6, <1>7

LEMMA ChargedRows ==
    ASSUME NEW id, NEW n, NEW items \in [1..n -> Item]
    PROVE  [k \in 1..n |-> [ItemsOf(id, items)[k] EXCEPT !.amount = Charged(items[k])]]
               = ItemsOf(id, items)
<1>1. ASSUME NEW k \in 1..n
      PROVE  [ItemsOf(id, items)[k] EXCEPT !.amount = Charged(items[k])] = ItemsOf(id, items)[k]
  <2>1. PICK net : net = Net(items[k])
    OBVIOUS
  <2>2. Charged(items[k]) = net
    BY <2>1 DEF Charged, Net
  <2>3. ItemsOf(id, items)[k] =
            SeedRow(Len(itemRows) + k,
                    {Ref("orders", id), Ref("products", items[k].product)}, "none", net)
    BY <2>1 DEF ItemsOf
  <2>4. PICK key, refs : ItemsOf(id, items)[k] = SeedRow(key, refs, "none", net)
    BY <2>3
  <2>5. [SeedRow(key, refs, "none", net) EXCEPT !.amount = net] = SeedRow(key, refs, "none", net)
    BY DEF SeedRow
  <2>6. QED
    BY <2>2, <2>4, <2>5
<1>2. ItemsOf(id, items) = [k \in 1..n |-> ItemsOf(id, items)[k]]
  BY DEF ItemsOf
<1>3. QED
  BY <1>1, <1>2

(* An order of the loop: the rows it adds refer to it, to a customer and to *)
(* products.                                                                *)
LEMMA ItemsTyped ==
    ASSUME NEW id \in Nat \ {0}, NEW n \in Nat, Quantities \subseteq Nat, Len(itemRows) \in Nat,
           NEW items \in [1..n -> Item]
    PROVE  /\ ItemsOf(id, items) \in Seq(ItemRow)
           /\ \A k \in 1..Len(ItemsOf(id, items)) : \A ref \in ItemsOf(id, items)[k].refs :
                  \/ ref.table = "orders" /\ ref.id = id
                  \/ ref.table = "products" /\ ref.id \in 1..NProducts
<1> DEFINE rows == ItemsOf(id, items)
<1>1. DOMAIN items = 1..n /\ "orders" \in TableNames /\ "products" \in TableNames
  BY DEF TableNames
<1>2. ASSUME NEW k \in 1..n
      PROVE  /\ rows[k] \in ItemRow
             /\ rows[k].refs = {Ref("orders", id), Ref("products", items[k].product)}
             /\ items[k].product \in 1..NProducts
  <2>1. items[k] \in Item /\ items[k].product \in 1..NProducts
    BY DEF Item
  <2>2. NProducts \in Nat /\ items[k].product \in Nat
    BY <2>1, SizesTyped
  <2>4. Net(items[k]) \in Nat
    BY <2>1, NetTyped
  <2>5. {Ref("orders", id), Ref("products", items[k].product)} \in SUBSET KeyRef
    BY <1>1, <2>2, RefTyped
  <2>6. Len(itemRows) + k \in Nat /\ "none" \in RowStatuses
    BY DEF RowStatuses
  <2>7. rows[k] = SeedRow(Len(itemRows) + k,
                          {Ref("orders", id), Ref("products", items[k].product)}, "none",
                          Net(items[k]))
    BY <1>1 DEF ItemsOf
  <2> HIDE DEF rows
  <2>8. QED
    BY <2>1, <2>4, <2>5, <2>6, <2>7 DEF SeedRow, ItemRow
<1>3. DOMAIN rows = 1..n /\ rows = [k \in 1..n |-> rows[k]]
  BY <1>1 DEF ItemsOf
<1> HIDE DEF rows
<1>4. rows \in Seq(ItemRow) /\ Len(rows) = n
  <2>1. rows \in [1..n -> ItemRow]
    BY <1>2, <1>3
  <2>2. QED
    BY <2>1
<1>5. \A k \in 1..n : \A ref \in rows[k].refs :
          \/ ref.table = "orders" /\ ref.id = id
          \/ ref.table = "products" /\ ref.id \in 1..NProducts
  <2>1. \A k \in 1..n : items[k].product \in Nat
    BY <1>2, SizesTyped
  <2>2. ASSUME NEW k \in 1..n, NEW ref \in rows[k].refs
        PROVE  \/ ref.table = "orders" /\ ref.id = id
               \/ ref.table = "products" /\ ref.id \in 1..NProducts
    <3>1. ref = Ref("orders", id) \/ ref = Ref("products", items[k].product)
      BY <1>2, <2>2
    <3>2. QED
      BY <1>1, <1>2, <2>1, <3>1, RefTyped
  <2>3. QED
    BY <2>2
<1>6. QED
  BY <1>4, <1>5 DEF rows

LEMMA ItemRowIsRow == ItemRow \subseteq Row
  BY DEF ItemRow, Row, Amount

(* What an order adds.                                                      *)
AddedOrder(customer, status, rows, payment) ==
    LET id == Len(orderRows) + 1
    IN  /\ orderRows' = Append(orderRows, SeedRow(id, {Ref("customers", customer)}, status, 0))
        /\ itemRows' = itemRows \o rows
        /\ paymentRows' = IF payment = "none" THEN paymentRows
                          ELSE Append(paymentRows,
                                      SeedRow(Len(paymentRows) + 1, {Ref("orders", id)},
                                              payment, OrderTotal(rows)))

LEMMA OrderPicked ==
    ASSUME AddOrder
    PROVE  \E customer \in 1..NCustomers, status \in Statuses, n \in 1..MaxItems :
           \E items \in [1..n -> Item], payment \in PaymentStatuses(status) :
               AddedOrder(customer, status, ItemsOf(Len(orderRows) + 1, items), payment)
<1> DEFINE Priced(n, items) == [k \in 1..n |-> [ItemsOf(Len(orderRows) + 1, items)[k]
                                                 EXCEPT !.amount = Charged(items[k])]]
           Drawn(customer, status, n, items, payment) ==
               /\ orderRows' = Append(orderRows,
                                      SeedRow(Len(orderRows) + 1, {Ref("customers", customer)},
                                              status, 0))
               /\ itemRows' = itemRows \o ItemsOf(Len(orderRows) + 1, items)
               /\ paymentRows' = IF payment = "none" THEN paymentRows
                                 ELSE Append(paymentRows,
                                             SeedRow(Len(paymentRows) + 1,
                                                     {Ref("orders", Len(orderRows) + 1)},
                                                     payment, OrderTotal(Priced(n, items))))
<1>1. \E customer \in 1..NCustomers, status \in Statuses, n \in 1..MaxItems :
      \E items \in [1..n -> Item], payment \in PaymentStatuses(status) :
          Drawn(customer, status, n, items, payment)
  BY DEF AddOrder
<1> HIDE DEF Drawn
<1>2. PICK customer \in 1..NCustomers, status \in Statuses, n \in 1..MaxItems :
          \E items \in [1..n -> Item], payment \in PaymentStatuses(status) :
              Drawn(customer, status, n, items, payment)
  BY <1>1
<1>3. PICK items \in [1..n -> Item], payment \in PaymentStatuses(status) :
          Drawn(customer, status, n, items, payment)
  BY <1>2
<1>4. Priced(n, items) = ItemsOf(Len(orderRows) + 1, items)
  BY ChargedRows
<1> HIDE DEF Priced
<1>5. AddedOrder(customer, status, ItemsOf(Len(orderRows) + 1, items), payment)
  BY <1>3, <1>4 DEF Drawn, AddedOrder
<1>6. QED
  BY <1>5

LEMMA AddOrderKeeps == ScriptInv /\ AddOrder => ScriptInv'
<1> SUFFICES ASSUME ScriptInv, AddOrder PROVE ScriptInv'
  OBVIOUS
<1>0. PICK customer \in 1..NCustomers, status \in Statuses, n \in 1..MaxItems :
          \E items \in [1..n -> Item], payment \in PaymentStatuses(status) :
              AddedOrder(customer, status, ItemsOf(Len(orderRows) + 1, items), payment)
  BY OrderPicked
<1>1. PICK items \in [1..n -> Item], payment \in PaymentStatuses(status) :
              AddedOrder(customer, status, ItemsOf(Len(orderRows) + 1, items), payment)
  BY <1>0
<1>2. UNCHANGED <<seedPc, lines>>
  BY DEF AddOrder
<1>3. PICK len : len = Len(orderRows)
  OBVIOUS
<1> DEFINE id == len + 1
           rows == ItemsOf(id, items)
           order == SeedRow(id, {Ref("customers", customer)}, status, 0)
           paid == SeedRow(Len(paymentRows) + 1, {Ref("orders", id)}, payment, OrderTotal(rows))
<1>4. /\ orderRows \in Seq(Row) /\ itemRows \in Seq(Row) /\ paymentRows \in Seq(Row)
      /\ len \in Nat /\ Len(itemRows) \in Nat /\ Len(paymentRows) \in Nat
  BY <1>3 DEF ScriptInv, Kept
<1>5. /\ "customers" \in TableNames /\ "orders" \in TableNames
      /\ customer \in Nat /\ id \in Nat \ {0} /\ n \in Nat /\ Quantities \subseteq Nat
  <2>1. MaxItems \in Nat /\ Quantities \subseteq Nat
    BY SeedAssumption
  <2>2. QED
    BY <1>4, <2>1, SizesTyped DEF TableNames
<1>6. /\ rows \in Seq(ItemRow) /\ rows \in Seq(Row) /\ Len(rows) \in Nat
      /\ \A k \in 1..Len(rows) : \A ref \in rows[k].refs :
             \/ ref.table = "orders" /\ ref.id = id
             \/ ref.table = "products" /\ ref.id \in 1..NProducts
  <2>1. /\ rows \in Seq(ItemRow)
        /\ \A k \in 1..Len(rows) : \A ref \in rows[k].refs :
               \/ ref.table = "orders" /\ ref.id = id
               \/ ref.table = "products" /\ ref.id \in 1..NProducts
    BY <1>4, <1>5, ItemsTyped
  <2> HIDE DEF rows
  <2>2. rows \in Seq(Row) /\ Len(rows) \in Nat
    BY <2>1, ItemRowIsRow
  <2>3. QED
    BY <2>1, <2>2
<1>7. order \in Row /\ order.id = id /\ RefersTo(order.refs, "customers", NCustomers)
  <2>1. {Ref("customers", customer)} \in SUBSET KeyRef
    BY <1>5, RefTyped
  <2>2. 0 \in Amount /\ status \in RowStatuses
    BY DEF Amount, RowStatuses
  <2>3. order \in Row
    BY <1>5, <2>1, <2>2, RowTyped
  <2>4. \A ref \in {Ref("customers", customer)} :
            ref.table = "customers" /\ ref.id \in 1..NCustomers
    BY <1>5, RefTyped
  <2>5. QED
    BY <2>3, <2>4 DEF SeedRow, RefersTo
<1>8. payment # "none" => paid \in Row /\ RefersTo(paid.refs, "orders", id)
  <2>1. {Ref("orders", id)} \in SUBSET KeyRef
    BY <1>5, RefTyped
  <2>2. OrderTotal(rows) \in Amount /\ payment \in RowStatuses
    BY <1>6 DEF Amount, RowStatuses, PaymentStatuses, Statuses
  <2>3. paid \in Row
    BY <1>4, <2>1, <2>2, RowTyped
  <2>4. \A ref \in {Ref("orders", id)} : ref.table = "orders" /\ ref.id \in 1..id
    BY <1>5, RefTyped
  <2>5. QED
    BY <2>3, <2>4 DEF SeedRow, RefersTo
<1>9. /\ orderRows' = Append(orderRows, order)
      /\ itemRows' = itemRows \o rows
      /\ paymentRows' = paymentRows \/ (payment # "none" /\ paymentRows' = Append(paymentRows, paid))
  BY <1>1, <1>3 DEF AddedOrder
<1> HIDE DEF rows, order, paid
<1>10. /\ orderRows' \in Seq(Row) /\ Len(orderRows') = len + 1
       /\ orderRows'[len + 1] = order
       /\ \A i \in 1..len : orderRows'[i] = orderRows[i]
  BY <1>3, <1>4, <1>7, <1>9
<1>11. \A i \in 1..(len + 1) :
           orderRows'[i].id = i /\ RefersTo(orderRows'[i].refs, "customers", NCustomers)
  <2>1. \A i \in 1..len :
           orderRows[i].id = i /\ RefersTo(orderRows[i].refs, "customers", NCustomers)
    BY <1>3 DEF ScriptInv, Kept
  <2>2. ASSUME NEW i \in 1..(len + 1)
        PROVE  orderRows'[i].id = i /\ RefersTo(orderRows'[i].refs, "customers", NCustomers)
    <3>1. i \in 1..len \/ i = len + 1
      BY <1>4, <2>2
    <3>2. CASE i \in 1..len
      BY <1>10, <2>1, <3>2
    <3>3. CASE i = len + 1
      BY <1>7, <1>10, <3>3
    <3>4. QED
      BY <3>1, <3>2, <3>3
  <2>3. QED
    BY <2>2
<1>12. /\ itemRows' \in Seq(Row)
       /\ \A i \in 1..Len(itemRows') : \A ref \in itemRows'[i].refs :
              \/ ref.table = "orders" /\ ref.id \in 1..(len + 1)
              \/ ref.table = "products" /\ ref.id \in 1..NProducts
  <2>1. /\ itemRows \o rows \in Seq(Row) /\ Len(itemRows \o rows) = Len(itemRows) + Len(rows)
        /\ \A i \in 1..Len(itemRows) : (itemRows \o rows)[i] = itemRows[i]
        /\ \A k \in 1..Len(rows) : (itemRows \o rows)[Len(itemRows) + k] = rows[k]
        /\ \A i \in 1..Len(itemRows \o rows) :
               i \in 1..Len(itemRows) \/ (i - Len(itemRows) \in 1..Len(rows)
                                          /\ i = Len(itemRows) + (i - Len(itemRows)))
    BY <1>4, <1>6, Concatenated
  <2>2. ASSUME NEW i \in 1..Len(itemRows \o rows), NEW ref \in (itemRows \o rows)[i].refs
        PROVE  \/ ref.table = "orders" /\ ref.id \in 1..(len + 1)
               \/ ref.table = "products" /\ ref.id \in 1..NProducts
    <3>1. CASE i \in 1..Len(itemRows)
      <4>1. ref \in itemRows[i].refs
        BY <2>1, <2>2, <3>1
      <4>2. \/ ref.table = "orders" /\ ref.id \in 1..len
            \/ ref.table = "products" /\ ref.id \in 1..NProducts
        BY <1>3, <3>1, <4>1 DEF ScriptInv, Kept
      <4>3. QED
        BY <1>4, <4>2
    <3>2. CASE i \notin 1..Len(itemRows)
      <4>1. PICK k \in 1..Len(rows) : i = Len(itemRows) + k
        BY <2>1, <3>2
      <4>2. ref \in rows[k].refs
        BY <2>1, <2>2, <4>1
      <4>3. QED
        BY SMTT(30), <1>5, <1>6, <4>1, <4>2
    <3>3. QED
      BY <3>1, <3>2
  <2>3. QED
    BY <1>9, <2>1, <2>2
<1>13. /\ paymentRows' \in Seq(Row)
       /\ \A i \in 1..Len(paymentRows') : RefersTo(paymentRows'[i].refs, "orders", len + 1)
  <2>1. \A i \in 1..Len(paymentRows) : RefersTo(paymentRows[i].refs, "orders", len + 1)
    <3>1. \A i \in 1..Len(paymentRows) : RefersTo(paymentRows[i].refs, "orders", len)
      BY <1>3 DEF ScriptInv, Kept
    <3>2. QED
      BY <1>4, <3>1 DEF RefersTo
  <2>2. CASE paymentRows' = paymentRows
    BY <1>4, <2>1, <2>2
  <2>3. CASE payment # "none" /\ paymentRows' = Append(paymentRows, paid)
    <3>1. paid \in Row /\ RefersTo(paid.refs, "orders", len + 1)
      BY <1>8, <2>3
    <3>2. /\ paymentRows' \in Seq(Row) /\ Len(paymentRows') = Len(paymentRows) + 1
          /\ paymentRows'[Len(paymentRows) + 1] = paid
          /\ \A i \in 1..Len(paymentRows) : paymentRows'[i] = paymentRows[i]
      BY <1>4, <2>3, <3>1
    <3>3. ASSUME NEW i \in 1..Len(paymentRows')
          PROVE  RefersTo(paymentRows'[i].refs, "orders", len + 1)
      <4>1. i \in 1..Len(paymentRows) \/ i = Len(paymentRows) + 1
        BY <1>4, <3>2
      <4>2. QED
        BY <2>1, <3>1, <3>2, <4>1
    <3>4. QED
      BY <3>2, <3>3
  <2>4. QED
    BY <1>9, <2>2, <2>3
<1>14. Kept'
  BY <1>10, <1>11, <1>12, <1>13 DEF Kept
<1>15. Loadable(lines)' /\ PastTables'
  BY <1>2 DEF ScriptInv, Loadable, PastTables, HasAll, Resolves, IdsIn, Has
<1>16. QED
  BY <1>14, <1>15 DEF ScriptInv

(* Orders go before their items and payments.                               *)
LEMMA EmitSalesKeeps == ScriptInv /\ EmitSales => ScriptInv'
<1> SUFFICES ASSUME ScriptInv, EmitSales PROVE ScriptInv'
  OBVIOUS
<1> DEFINE a == EmitBulk("orders", orderRows)
           b == EmitBulk("order_items", itemRows)
           d == EmitBulk("payments", paymentRows)
           u == lines \o a
           v == u \o b
           w == v \o d
<1>1. Appends("orders", "reviews", a \o b \o d) /\ UNCHANGED <<orderRows, itemRows, paymentRows>>
  BY DEF EmitSales
<1>2. /\ "orders" \in TableNames /\ "order_items" \in TableNames /\ "payments" \in TableNames
      /\ "customers" \in TableNames
      /\ orderRows \in Seq(Row) /\ itemRows \in Seq(Row) /\ paymentRows \in Seq(Row)
  BY DEF TableNames, ScriptInv, Kept
<1>3. /\ HasAll(lines, "customers", NCustomers) /\ HasAll(lines, "products", NProducts)
      /\ Loadable(lines) /\ lines \in Seq(Statement)
  BY <1>1 DEF Appends, ScriptInv, PastTables, Loadable
<1>4. /\ Loadable(u) /\ HoldsMore(u, lines) /\ a \in Seq(Statement)
      /\ \A j \in 1..Len(orderRows) : Has(u, "orders", j)
  <2>1. \A j \in 1..Len(orderRows) : orderRows[j].id = j
    BY DEF ScriptInv, Kept
  <2>2. \A j \in 1..Len(orderRows) : \A ref \in orderRows[j].refs : Has(lines, ref.table, ref.id)
    BY <1>3 DEF ScriptInv, Kept, RefersTo, HasAll
  <2>3. /\ Loadable(u) /\ HoldsMore(u, lines) /\ a \in Seq(Statement)
        /\ \A j \in 1..Len(orderRows) : Has(u, "orders", orderRows[j].id)
    BY <1>2, <1>3, <2>2, AfterBulk
  <2> HIDE DEF u, a
  <2>4. QED
    BY <2>1, <2>3
<1>5. Loadable(v) /\ HoldsMore(v, u) /\ b \in Seq(Statement)
  <2>1. \A j \in 1..Len(itemRows) : \A ref \in itemRows[j].refs : Has(u, ref.table, ref.id)
    <3> HIDE DEF u, a
    <3>1. HasAll(u, "products", NProducts)
      BY <1>3, <1>4 DEF HasAll, HoldsMore
    <3>2. QED
      BY <1>4, <3>1 DEF ScriptInv, Kept, HasAll
  <2> HIDE DEF u, a
  <2>2. QED
    BY <1>2, <1>4, <2>1, AfterBulk
<1>6. Loadable(w) /\ HoldsMore(w, v) /\ d \in Seq(Statement)
  <2> HIDE DEF u, a, v, b
  <2>1. \A j \in 1..Len(paymentRows) : \A ref \in paymentRows[j].refs :
            Has(v, ref.table, ref.id)
    BY <1>4, <1>5 DEF ScriptInv, Kept, RefersTo, HoldsMore
  <2>2. QED
    BY <1>2, <1>5, <2>1, AfterBulk
<1> HIDE DEF a, b, d
<1>7. w = lines \o (a \o b \o d)
  <2>1. \A x, y, z \in Seq(Statement) :
            ((lines \o x) \o y) \o z = lines \o (x \o y \o z)
    BY <1>3, ThreeAppended
  <2>2. ((lines \o a) \o b) \o d = lines \o (a \o b \o d)
    BY <1>4, <1>5, <1>6, <2>1
  <2>3. QED
    BY <2>2
<1> HIDE DEF u, v, w
<1>8. HoldsMore(w, lines)
  BY <1>4, <1>5, <1>6 DEF HoldsMore
<1>9. QED
  BY <1>1, <1>6, <1>7, <1>8, PartWritten

LEMMA EmitReviewsKeeps == ScriptInv /\ EmitReviews => ScriptInv'
<1> SUFFICES ASSUME ScriptInv, EmitReviews PROVE ScriptInv'
  OBVIOUS
<1>1. PICK n : n = NOrders \div 3
  OBVIOUS
<1>2. PICK about \in [1..n -> (1..NProducts) \X (1..NCustomers)] :
          Appends("reviews", "sequences",
              EmitBulk("reviews", [i \in DOMAIN about |->
                  PlainRow(i, {Ref("products", about[i][1]), Ref("customers", about[i][2])})]))
  BY <1>1 DEF EmitReviews
<1> DEFINE rows == [i \in DOMAIN about |->
                PlainRow(i, {Ref("products", about[i][1]), Ref("customers", about[i][2])})]
           t == EmitBulk("reviews", rows)
           u == lines \o t
<1>3. /\ n \in Nat
      /\ "reviews" \in TableNames /\ "products" \in TableNames /\ "customers" \in TableNames
  BY <1>1, SizesTyped DEF TableNames
<1>4. ASSUME NEW i \in 1..n
      PROVE  /\ rows[i] \in Row
             /\ \A ref \in rows[i].refs : \/ ref.table = "products" /\ ref.id \in 1..NProducts
                                          \/ ref.table = "customers" /\ ref.id \in 1..NCustomers
  <2> DEFINE refs == {Ref("products", about[i][1]), Ref("customers", about[i][2])}
  <2>1. about[i][1] \in 1..NProducts /\ about[i][2] \in 1..NCustomers
    OBVIOUS
  <2>2. about[i][1] \in Nat /\ about[i][2] \in Nat
    BY <2>1, SizesTyped
  <2>3. refs \in SUBSET KeyRef
    BY <1>3, <2>2, RefTyped
  <2>4. \A ref \in refs : \/ ref.table = "products" /\ ref.id \in 1..NProducts
                          \/ ref.table = "customers" /\ ref.id \in 1..NCustomers
    BY <1>3, <2>1, <2>2, RefTyped
  <2>5. rows[i] = SeedRow(i, refs, "none", 0)
    BY DEF PlainRow
  <2> HIDE DEF refs, rows
  <2>6. SeedRow(i, refs, "none", 0) \in Row
    <3>1. i \in Nat /\ "none" \in RowStatuses /\ 0 \in Amount
      BY DEF RowStatuses, Amount
    <3>2. QED
      BY <2>3, <3>1, RowTyped
  <2>7. QED
    BY <2>4, <2>5, <2>6 DEF SeedRow
<1>5. DOMAIN rows = 1..n /\ rows = [i \in 1..n |-> rows[i]]
  OBVIOUS
<1>6. Appends("reviews", "sequences", t) /\ UNCHANGED <<orderRows, itemRows, paymentRows>>
  BY <1>2 DEF EmitReviews
<1> HIDE DEF rows
<1>7. rows \in Seq(Row) /\ Len(rows) = n
  <2>1. rows \in [1..n -> Row]
    BY <1>4, <1>5
  <2>2. QED
    BY <1>3, <2>1
<1>8. /\ HasAll(lines, "customers", NCustomers) /\ HasAll(lines, "products", NProducts)
      /\ Loadable(lines)
  BY <1>2 DEF Appends, ScriptInv, PastTables
<1>9. \A j \in 1..Len(rows) : \A ref \in rows[j].refs : Has(lines, ref.table, ref.id)
  BY <1>4, <1>7, <1>8 DEF HasAll
<1>10. Loadable(u) /\ HoldsMore(u, lines)
  BY <1>3, <1>7, <1>8, <1>9, AfterBulk
<1> HIDE DEF t
<1>11. QED
  BY <1>6, <1>10, PartWritten

(* Statements without rows reference nothing.                               *)
LEMMA ResetSequencesKeeps == ScriptInv /\ ResetSequences => ScriptInv'
<1> SUFFICES ASSUME ScriptInv, ResetSequences PROVE ScriptInv'
  OBVIOUS
<1> DEFINE t == [k \in DOMAIN ResetTables |-> SetVal(ResetTables[k])]
           u == lines \o t
<1>1. /\ Appends("sequences", "written", t) /\ UNCHANGED <<orderRows, itemRows, paymentRows>>
      /\ lines \in Seq(Statement) /\ Resolves(lines)
  BY DEF ResetSequences, ScriptInv, Loadable
<1>2. DOMAIN ResetTables = 1..10 /\ \A k \in 1..10 : ResetTables[k] \in TableNames
  BY DEF ResetTables, Tables, TableNames
<1>3. \A k \in 1..10 : t[k] = SetVal(ResetTables[k]) /\ t[k] \in Statement /\ t[k].rows = <<>>
  BY <1>2 DEF SetVal, Statement
<1>4. t \in Seq(Statement)
  <2>1. DOMAIN t = 1..10 /\ t = [k \in 1..10 |-> t[k]]
    BY <1>2
  <2> HIDE DEF t
  <2>2. t \in [1..10 -> Statement] /\ 10 \in Nat
    BY <1>3, <2>1
  <2>3. QED
    BY <2>2, FunctionIsSeq
<1>5. \A k \in DOMAIN t : t[k].rows = <<>>
  BY <1>2, <1>3
<1> HIDE DEF t
<1>6. Resolves(u)
  BY <1>1, <1>4, <1>5, StillResolves
<1>7. u \in Seq(Statement)
  BY <1>1, <1>4
<1>8. HoldsMore(u, lines)
  BY <1>1, <1>4, HasConcatenated DEF HoldsMore
<1>9. Loadable(u)
  BY <1>6, <1>7 DEF Loadable
<1>10. QED
  BY <1>1, <1>8, <1>9, PartWritten

LEMMA ScriptInvariant == SeedSpec => []ScriptInv
<1>1. ScriptInv /\ [SeedNext]_seedVars => ScriptInv'
  <2> SUFFICES ASSUME ScriptInv, [SeedNext]_seedVars PROVE ScriptInv'
    OBVIOUS
  <2>1. CASE SeedNext
    BY <2>1, EmitReferenceKeeps, EmitSuppliersKeeps, EmitProductsKeeps, EmitCustomersKeeps,
       AddOrderKeeps, EmitSalesKeeps, EmitReviewsKeeps, ResetSequencesKeeps DEF SeedNext
  <2>2. CASE UNCHANGED seedVars
    BY <2>2 DEF seedVars, ScriptInv, Loadable, Resolves, IdsIn, Kept, PastTables, HasAll, Has
  <2>3. QED
    BY <2>1, <2>2
<1>2. QED
  BY <1>1, ScriptStart, PTL DEF SeedSpec
-----------------------------------------------------------------------------
(* The script loads: each statement references only rows that it or an      *)
(* earlier statement inserts, whatever the sizes, the draws and the chunks  *)
(* of _emit_bulk.                                                           *)
THEOREM ScriptLoads == SeedSpec => []ReferencesResolve
<1>1. ScriptInv => ReferencesResolve
  <2> SUFFICES ASSUME Resolves(lines) PROVE ReferencesResolve
    BY DEF ScriptInv, Loadable
  <2>1. \A table, n : IdsIn(lines, table, n) = LoadedIds(table, n)
    BY DEF IdsIn, LoadedIds
  <2>2. QED
    BY <2>1 DEF Resolves, ReferencesResolve
<1>2. QED
  BY <1>1, ScriptInvariant, PTL
-----------------------------------------------------------------------------
(* What a script puts into a table.                                         *)
PartOf(script, table) ==
    [i \in 1..Len(script) |-> IF script[i].table = table THEN script[i].rows ELSE <<>>]
RowsIn(script, table) == FlattenSeq(PartOf(script, table))

LEMMA PartTyped ==
    ASSUME NEW script \in Seq(Statement), NEW table
    PROVE  /\ PartOf(script, table) \in Seq(Seq(Row))
           /\ Len(PartOf(script, table)) = Len(script)
           /\ RowsIn(script, table) \in Seq(Row)
<1>1. \A i \in 1..Len(script) : script[i].rows \in Seq(Row)
  <2>1. \A i \in 1..Len(script) : script[i] \in Statement
    OBVIOUS
  <2>2. QED
    BY <2>1 DEF Statement
<1>2. PICK n \in Nat : n = Len(script)
  OBVIOUS
<1>3. <<>> \in Seq(Row)
  OBVIOUS
<1>4. PartOf(script, table) \in [1..n -> Seq(Row)]
  BY <1>1, <1>2, <1>3 DEF PartOf
<1>5. PartOf(script, table) \in Seq(Seq(Row)) /\ Len(PartOf(script, table)) = n
  BY <1>4, FunctionIsSeq
<1>6. RowsIn(script, table) \in Seq(Row)
  BY <1>5, EmptySeq, FlattenAppend DEF RowsIn
<1>7. QED
  BY <1>2, <1>5, <1>6

(* First what s inserts, then what t inserts.                               *)
LEMMA RowsConcatenated ==
    ASSUME NEW s \in Seq(Statement), NEW t \in Seq(Statement), NEW table
    PROVE  RowsIn(s \o t, table) = RowsIn(s, table) \o RowsIn(t, table)
<1>1. PICK a \in Seq(Seq(Row)) : a = PartOf(s, table)
  BY PartTyped
<1>2. PICK b \in Seq(Seq(Row)) : b = PartOf(t, table)
  BY PartTyped
<1>3. PICK u \in Seq(Statement) : u = s \o t
  <2>1. s \o t \in Seq(Statement)
    BY Concatenated
  <2>2. QED
    BY <2>1
<1>4. PICK c \in Seq(Seq(Row)) : c = PartOf(u, table)
  BY PartTyped
<1>5. /\ Len(a) = Len(s) /\ Len(b) = Len(t) /\ Len(c) = Len(u)
      /\ Len(u) = Len(s) + Len(t) /\ Len(s) \in Nat /\ Len(t) \in Nat
  <2>1. Len(a) = Len(s) /\ Len(b) = Len(t) /\ Len(c) = Len(u)
    BY <1>1, <1>2, <1>4, PartTyped
  <2>2. Len(u) = Len(s) + Len(t) /\ Len(s) \in Nat /\ Len(t) \in Nat
    BY <1>3
  <2>3. QED
    BY <2>1, <2>2
<1>6. \A i \in 1..Len(u) : c[i] = IF u[i].table = table THEN u[i].rows ELSE <<>>
  BY <1>4 DEF PartOf
<1>7. /\ \A i \in 1..Len(s) : a[i] = IF s[i].table = table THEN s[i].rows ELSE <<>>
      /\ \A i \in 1..Len(t) : b[i] = IF t[i].table = table THEN t[i].rows ELSE <<>>
  BY <1>1, <1>2 DEF PartOf
<1>8. /\ \A i \in 1..Len(s) : u[i] = s[i] /\ i \in 1..Len(u)
      /\ \A k \in 1..Len(t) : u[Len(s) + k] = t[k] /\ Len(s) + k \in 1..Len(u)
  <2>1. \A i \in 1..Len(s) : u[i] = s[i]
    BY <1>3, Concatenated
  <2>2. \A k \in 1..Len(t) : u[Len(s) + k] = t[k]
    BY <1>3, Concatenated
  <2>3. /\ \A i \in 1..Len(s) : i \in 1..Len(u)
        /\ \A k \in 1..Len(t) : Len(s) + k \in 1..Len(u)
    BY <1>5
  <2>4. QED
    BY <2>1, <2>2, <2>3
<1>9. c = a \o b
  <2>1. /\ a \o b \in Seq(Seq(Row)) /\ Len(a \o b) = Len(c)
        /\ \A i \in 1..Len(a) : (a \o b)[i] = a[i]
        /\ \A k \in 1..Len(b) : (a \o b)[Len(a) + k] = b[k]
    <3>1. /\ a \o b \in Seq(Seq(Row)) /\ Len(a \o b) = Len(a) + Len(b)
          /\ \A i \in 1..Len(a) : (a \o b)[i] = a[i]
          /\ \A k \in 1..Len(b) : (a \o b)[Len(a) + k] = b[k]
      BY Concatenated
    <3>2. QED
      BY <1>5, <3>1
  <2>2. \A i \in 1..Len(s) : c[i] = a[i]
    BY <1>6, <1>7, <1>8
  <2>3. \A k \in 1..Len(t) : c[Len(s) + k] = b[k]
    BY ZenonT(40), <1>6, <1>7, <1>8
  <2>4. ASSUME NEW i \in 1..Len(c) PROVE c[i] = (a \o b)[i]
    <3>1. CASE i \in 1..Len(s)
      BY <1>5, <2>1, <2>2, <3>1
    <3>2. CASE i \notin 1..Len(s)
      <4>1. PICK k \in 1..Len(t) : i = Len(s) + k
        <5>1. i - Len(s) \in 1..Len(t) /\ i = Len(s) + (i - Len(s))
          BY <1>5, <3>2
        <5>2. QED
          BY <5>1
      <4>2. QED
        BY <1>5, <2>1, <2>3, <4>1
    <3>3. QED
      BY <3>1, <3>2
  <2>5. QED
    BY <2>1, <2>4, SeqEqual
<1>10. QED
  BY <1>1, <1>2, <1>3, <1>4, <1>9, FlattenConcat DEF RowsIn

(* A script without rows for a table.                                       *)
LEMMA RowsNone ==
    ASSUME NEW s \in Seq(Statement), NEW table,
           \A i \in 1..Len(s) : s[i].table = table => s[i].rows = <<>>
    PROVE  RowsIn(s, table) = <<>>
<1>1. PICK a \in Seq(Seq(Row)) : a = PartOf(s, table) /\ Len(a) = Len(s)
  BY PartTyped
<1>2. \A i \in 1..Len(a) : a[i] = <<>>
  BY <1>1 DEF PartOf
<1>3. QED
  BY <1>1, <1>2, FlattenNone DEF RowsIn

(* InsertPlain: one statement, one table, the keys 1..n.                    *)
LEMMA RowsOfPlain ==
    ASSUME NEW table \in TableNames, NEW n \in Nat, NEW refs \in [1..n -> SUBSET KeyRef]
    PROVE  LET t == InsertPlain(table, refs)
           IN  /\ t \in Seq(Statement)
               /\ \A other : other # table => RowsIn(t, other) = <<>>
               /\ Len(RowsIn(t, table)) = n
               /\ \A i \in 1..n : RowsIn(t, table)[i].id = i
               /\ n # 0 => \A k \in 1..Len(t) : t[k].rows # <<>>
<1>1. PICK t \in Seq(Statement) : t = InsertPlain(table, refs)
  <2>1. InsertPlain(table, refs) \in Seq(Statement)
    BY PlainInsert
  <2>2. QED
    BY <2>1
<1>2. /\ Len(t) = 1 /\ t[1].table = table /\ DOMAIN t[1].rows = 1..n
      /\ \A i \in 1..n : t[1].rows[i].id = i
  BY <1>1, PlainInsert
<1>3. \A other : other # table => RowsIn(t, other) = <<>>
  BY <1>2, RowsNone
<1>4. PICK rows \in Seq(Row) : rows = t[1].rows
  <2>1. t[1] \in Statement
    <3>1. 1 \in 1..Len(t)
      BY <1>2
    <3>2. QED
      BY <3>1, ElementOfSeq
  <2>2. QED
    BY <2>1 DEF Statement
<1>5. Len(rows) = n
  BY <1>2, <1>4
<1>6. PartOf(t, table) = <<rows>>
  BY <1>2, <1>4 DEF PartOf
<1>7. RowsIn(t, table) = rows
  BY <1>6, FlattenOne DEF RowsIn
<1>8. n # 0 => \A k \in 1..Len(t) : t[k].rows # <<>>
  BY <1>2, <1>4, <1>5
<1>9. QED
  BY <1>1, <1>2, <1>3, <1>4, <1>5, <1>7, <1>8

(* _emit_bulk: one table, its rows as they were.                            *)
LEMMA RowsOfBulk ==
    ASSUME NEW table \in TableNames, NEW rows \in Seq(Row)
    PROVE  LET t == EmitBulk(table, rows)
           IN  /\ t \in Seq(Statement)
               /\ \A other : other # table => RowsIn(t, other) = <<>>
               /\ RowsIn(t, table) = rows
               /\ \A k \in 1..Len(t) : t[k].rows # <<>>
<1>1. PICK t \in Seq(Statement) : t = EmitBulk(table, rows)
  <2>1. EmitBulk(table, rows) \in Seq(Statement)
    BY BulkInsert
  <2>2. QED
    BY <2>1
<1>2. PICK m \in Nat : m = Len(t)
  OBVIOUS
<1>3. PICK n \in Nat : n = Len(rows)
  OBVIOUS
<1>4. Chunk \in Nat \ {0}
  BY SeedAssumption
<1>5. \A k \in 1..m : /\ t[k].table = table
                      /\ Len(t[k].rows) \in 1..Chunk /\ t[k].rows \in Seq(Row)
                      /\ \A i \in 1..Len(t[k].rows) :
                             /\ (k - 1) * Chunk + i \in 1..n
                             /\ t[k].rows[i] = rows[(k - 1) * Chunk + i]
  <2>1. \A k \in 1..Len(EmitBulk(table, rows)) :
            /\ EmitBulk(table, rows)[k].table = table
            /\ Len(EmitBulk(table, rows)[k].rows) \in 1..Chunk
            /\ EmitBulk(table, rows)[k].rows \in Seq(Row)
            /\ \A i \in 1..Len(EmitBulk(table, rows)[k].rows) :
                   /\ (k - 1) * Chunk + i \in 1..Len(rows)
                   /\ EmitBulk(table, rows)[k].rows[i] = rows[(k - 1) * Chunk + i]
    BY BulkInsert
  <2>2. QED
    BY <1>1, <1>2, <1>3, <2>1
<1>6. \A j \in 1..n : \E k \in 1..m : j - (k - 1) * Chunk \in 1..Len(t[k].rows)
  <2>1. \A j \in 1..Len(rows) : \E k \in 1..Len(t) : InChunk(j, k, t)
    BY <1>1, BulkInsert
  <2>2. QED
    BY <1>2, <1>3, <2>1 DEF InChunk
<1>7. \A other : other # table => RowsIn(t, other) = <<>>
  BY <1>2, <1>5, RowsNone
<1>8. PICK parts \in Seq(Seq(Row)) : parts = PartOf(t, table) /\ Len(parts) = m
  BY <1>2, PartTyped
<1>9. \A k \in 1..m : parts[k] = t[k].rows
  BY <1>2, <1>5, <1>8 DEF PartOf
<1>10. PICK flat \in Seq(Row) : flat = RowsIn(t, table)
  BY PartTyped
<1>11. PICK of, at \in [1..Len(flat) -> Nat] : Places(flat, parts, of, at)
  BY <1>8, <1>10, FlattenPlaces DEF RowsIn
<1>12. PICK l \in Nat : l = Len(flat)
  OBVIOUS
<1>13. /\ \A i \in 1..l : /\ of[i] \in 1..m /\ at[i] \in 1..Len(parts[of[i]])
                          /\ flat[i] = parts[of[i]][at[i]]
       /\ \A i, j \in 1..l : i < j => of[i] < of[j] \/ (of[i] = of[j] /\ at[i] < at[j])
  BY <1>8, <1>11, <1>12 DEF Places
<1>14. PICK f : f = [i \in 1..l |-> (of[i] - 1) * Chunk + at[i]]
  OBVIOUS
<1>15. ASSUME NEW i \in 1..l
       PROVE  f[i] \in 1..n /\ flat[i] = rows[f[i]] /\ at[i] \in 1..Chunk /\ of[i] \in 1..m
  <2>1. PICK k \in 1..m : k = of[i]
    BY <1>13
  <2>2. PICK q : q = at[i]
    OBVIOUS
  <2>3. q \in 1..Len(t[k].rows) /\ flat[i] = t[k].rows[q]
    BY <1>9, <1>13, <2>1, <2>2
  <2>4. /\ (k - 1) * Chunk + q \in 1..n /\ flat[i] = rows[(k - 1) * Chunk + q]
        /\ q \in 1..Chunk
    BY <1>4, <1>5, <2>3
  <2>5. f[i] = (k - 1) * Chunk + q
    BY <1>14, <2>1, <2>2
  <2>6. QED
    BY <2>1, <2>2, <2>4, <2>5
<1>16. Increasing(f, l)
  <2>1. ASSUME NEW i \in 1..l, NEW j \in 1..l, i < j
        PROVE  f[i] < f[j]
    <3>1. PICK k \in 1..m : k = of[i]
      BY <1>15
    <3>2. PICK h \in 1..m : h = of[j]
      BY <1>15
    <3>3. PICK p \in 1..Chunk : p = at[i]
      BY <1>15
    <3>4. PICK q \in 1..Chunk : q = at[j]
      BY <1>15
    <3>5. f[i] = (k - 1) * Chunk + p /\ f[j] = (h - 1) * Chunk + q
      BY <1>14, <3>1, <3>2, <3>3, <3>4
    <3>6. k < h \/ (k = h /\ p < q)
      BY <1>13, <2>1, <3>1, <3>2, <3>3, <3>4
    <3>7. CASE k < h
      <4>1. k * Chunk <= (h - 1) * Chunk /\ k * Chunk = (k - 1) * Chunk + Chunk
        BY <1>4, <3>7
      <4>2. PICK x \in Nat : x = (k - 1) * Chunk
        BY <1>4
      <4>3. PICK y \in Nat : y = (h - 1) * Chunk
        BY <1>4
      <4>4. x + Chunk <= y
        BY <4>1, <4>2, <4>3
      <4>5. x + p < y + q
        BY <1>4, <4>4
      <4>6. QED
        BY <3>5, <4>2, <4>3, <4>5
    <3>8. CASE k = h /\ p < q
      <4>1. PICK x \in Nat : x = (k - 1) * Chunk
        BY <1>4
      <4>2. f[i] = x + p /\ f[j] = x + q
        BY <3>5, <3>8, <4>1
      <4>3. QED
        BY <3>8, <4>2
    <3>9. QED
      BY <3>6, <3>7, <3>8
  <2>2. QED
    BY <2>1 DEF Increasing
<1>17. ASSUME NEW j \in 1..n PROVE \E i \in 1..l : f[i] = j
  <2>1. PICK k \in 1..m : j - (k - 1) * Chunk \in 1..Len(t[k].rows)
    BY <1>6
  <2>2. PICK x \in Nat : x = (k - 1) * Chunk
    BY <1>4
  <2>3. PICK p : p = j - x
    OBVIOUS
  <2>4. p \in 1..Len(parts[k])
    BY <1>9, <2>1, <2>2, <2>3
  <2>5. PICK i \in 1..l : of[i] = k /\ at[i] = p
    BY <1>8, <1>11, <1>12, <2>4 DEF Places
  <2>6. f[i] = x + p
    BY <1>14, <2>2, <2>5
  <2>7. x + p = j
    BY <2>2, <2>3
  <2>8. QED
    BY <2>6, <2>7
<1>18. f \in [1..l -> 1..n]
  BY <1>14, <1>15
<1>19. l = n /\ \A i \in 1..l : f[i] = i
  BY <1>16, <1>17, <1>18, OntoIncreasing
<1>20. \A i \in 1..n : flat[i] = rows[i]
  BY <1>15, <1>19
<1>21. flat = rows
  BY <1>3, <1>12, <1>19, <1>20, SeqEqual
<1>22. \A k \in 1..Len(t) : t[k].rows # <<>>
  BY <1>2, <1>5
<1>23. QED
  BY <1>1, <1>7, <1>10, <1>21, <1>22
-----------------------------------------------------------------------------
(* The invariant: a table that main has not come to is empty, one that it   *)
(* is past holds its rows under the keys 1, 2, ..., and those of the sales  *)
(* tables are the ones that were kept.                                      *)
Numbered(rows) == \A i \in 1..Len(rows) : rows[i].id = i

SalesTables == {"orders", "order_items", "payments"}
Awaited(pc) ==
    CASE pc = "reference" -> TableNames
      [] pc = "suppliers" -> {"suppliers", "products", "customers", "reviews"} \cup SalesTables
      [] pc = "products" -> {"products", "customers", "reviews"} \cup SalesTables
      [] pc = "customers" -> {"customers", "reviews"} \cup SalesTables
      [] pc = "orders" -> {"reviews"} \cup SalesTables
      [] pc = "reviews" -> {"reviews"}
      [] OTHER -> {}

NoEmptyInsert(script) ==
    \A n \in 1..Len(script) : script[n].op = "insert" => script[n].rows # <<>>

SalesIn(script) ==
    /\ RowsIn(script, "orders") = orderRows
    /\ RowsIn(script, "order_items") = itemRows
    /\ RowsIn(script, "payments") = paymentRows

SequencesPast == \A table \in TableNames : NextValue(table) > Len(RowsIn(lines, table))

OnceInv ==
    /\ Numbered(orderRows) /\ Numbered(itemRows) /\ Numbered(paymentRows)
    /\ NoEmptyInsert(lines)
    /\ \A table \in TableNames : Numbered(RowsIn(lines, table))
    /\ \A table \in Awaited(seedPc) : RowsIn(lines, table) = <<>>
    /\ seedPc \in {"reviews", "sequences", "written"} => SalesIn(lines)
    /\ seedPc = "written" => SequencesPast

(* What a part of main may append: rows under the keys 1, 2, ... of tables  *)
(* that it is the first to fill.                                            *)
FillsTables(t, from, to) ==
    /\ t \in Seq(Statement) /\ NoEmptyInsert(t)
    /\ \A table \in TableNames :
           \/ RowsIn(t, table) = <<>>
           \/ table \in Awaited(from) \ Awaited(to) /\ Numbered(RowsIn(t, table))

LEMMA AwaitedShrinks ==
    /\ Awaited("suppliers") \subseteq Awaited("reference")
    /\ Awaited("products") \subseteq Awaited("suppliers")
    /\ Awaited("customers") \subseteq Awaited("products")
    /\ Awaited("orders") \subseteq Awaited("customers")
    /\ Awaited("reviews") \subseteq Awaited("orders")
    /\ Awaited("sequences") = {} /\ Awaited("written") = {}
    /\ \A pc : Awaited(pc) \subseteq TableNames
  BY DEF Awaited, TableNames, SalesTables

LEMMA NoEmptyConcatenated ==
    ASSUME NEW s \in Seq(Statement), NEW t \in Seq(Statement),
           NoEmptyInsert(s), NoEmptyInsert(t)
    PROVE  NoEmptyInsert(s \o t)
<1>1. PICK u : u = s \o t
  OBVIOUS
<1>2. /\ \A n \in 1..Len(s) : u[n] = s[n]
      /\ \A k \in 1..Len(t) : u[Len(s) + k] = t[k]
      /\ \A n \in 1..Len(u) :
             n \in 1..Len(s) \/ (n - Len(s) \in 1..Len(t) /\ n = Len(s) + (n - Len(s)))
  BY <1>1, Concatenated
<1>3. ASSUME NEW n \in 1..Len(u), u[n].op = "insert"
      PROVE  u[n].rows # <<>>
  <2>1. CASE n \in 1..Len(s)
    BY <1>2, <1>3, <2>1 DEF NoEmptyInsert
  <2>2. CASE n \notin 1..Len(s)
    <3>1. PICK k \in 1..Len(t) : n = Len(s) + k
      BY <1>2, <2>2
    <3>2. u[n] = t[k]
      BY <1>2, <3>1
    <3>3. QED
      BY <1>3, <3>2 DEF NoEmptyInsert
  <2>3. QED
    BY <2>1, <2>2
<1>4. QED
  BY <1>1, <1>3 DEF NoEmptyInsert

LEMMA PartFills ==
    ASSUME ScriptInv, OnceInv, NEW from, NEW to, NEW t, Appends(from, to, t),
           FillsTables(t, from, to), UNCHANGED <<orderRows, itemRows, paymentRows>>,
           <<from, to>> \in {<<"reference", "suppliers">>, <<"suppliers", "products">>,
                             <<"products", "customers">>, <<"customers", "orders">>,
                             <<"orders", "reviews">>, <<"reviews", "sequences">>,
                             <<"sequences", "written">>},
           from = "orders" => SalesIn(t),
           to = "written" => SequencesPast'
    PROVE  OnceInv'
<1>1. /\ seedPc = from /\ seedPc' = to /\ lines' = lines \o t
      /\ lines \in Seq(Statement) /\ t \in Seq(Statement)
  BY DEF Appends, ScriptInv, Loadable, FillsTables
<1>2. Awaited(to) \subseteq Awaited(from) /\ Awaited(from) \subseteq TableNames
  BY AwaitedShrinks
<1>3. PICK u : u = lines \o t
  OBVIOUS
<1>4. \A table : /\ RowsIn(u, table) = RowsIn(lines, table) \o RowsIn(t, table)
                 /\ RowsIn(lines, table) \in Seq(Row) /\ RowsIn(t, table) \in Seq(Row)
  BY <1>1, <1>3, RowsConcatenated, PartTyped
<1>5. \A table : /\ RowsIn(lines, table) = <<>> => RowsIn(u, table) = RowsIn(t, table)
                 /\ RowsIn(t, table) = <<>> => RowsIn(u, table) = RowsIn(lines, table)
  <2>1. \A rows \in Seq(Row) : rows \o <<>> = rows /\ <<>> \o rows = rows
    OBVIOUS
  <2>2. QED
    BY <1>4, <2>1
<1>6. ASSUME NEW table \in TableNames
      PROVE  Numbered(RowsIn(u, table)) /\ (table \in Awaited(to) => RowsIn(u, table) = <<>>)
  <2>1. CASE RowsIn(t, table) = <<>>
    <3>1. RowsIn(u, table) = RowsIn(lines, table)
      BY <1>5, <2>1
    <3>2. /\ Numbered(RowsIn(lines, table))
          /\ table \in Awaited(from) => RowsIn(lines, table) = <<>>
      BY <1>1 DEF OnceInv
    <3>3. QED
      BY <1>2, <3>1, <3>2
  <2>2. CASE table \in Awaited(from) \ Awaited(to) /\ Numbered(RowsIn(t, table))
    <3>1. RowsIn(lines, table) = <<>>
      BY <1>1, <2>2 DEF OnceInv
    <3>2. RowsIn(u, table) = RowsIn(t, table)
      BY <1>5, <3>1
    <3>3. QED
      BY <2>2, <3>2
  <2>3. QED
    BY <2>1, <2>2 DEF FillsTables
<1>7. NoEmptyInsert(u)
  <2>1. NoEmptyInsert(lines) /\ NoEmptyInsert(t)
    BY DEF OnceInv, FillsTables
  <2>2. QED
    BY <1>1, <1>3, <2>1, NoEmptyConcatenated
<1>8. to \in {"reviews", "sequences", "written"} => SalesIn(u)
  <2>1. CASE from = "orders"
    <3>1. \A table \in SalesTables : RowsIn(lines, table) = <<>>
      BY <1>1, <2>1 DEF OnceInv, Awaited
    <3>2. \A table \in SalesTables : RowsIn(u, table) = RowsIn(t, table)
      BY <1>5, <3>1
    <3>3. QED
      BY <2>1, <3>2 DEF SalesIn, SalesTables
  <2>2. CASE from \in {"reviews", "sequences"}
    <3>1. SalesIn(lines)
      BY <1>1, <2>2 DEF OnceInv
    <3>2. ASSUME NEW table \in SalesTables PROVE RowsIn(u, table) = RowsIn(lines, table)
      <4>1. table \in TableNames /\ table \notin Awaited(from)
        BY <2>2 DEF SalesTables, TableNames, Awaited
      <4>2. RowsIn(t, table) = <<>>
        BY <4>1 DEF FillsTables
      <4>3. QED
        BY <1>5, <4>2
    <3>3. QED
      BY <3>1, <3>2 DEF SalesIn, SalesTables
  <2>3. QED
    BY <2>1, <2>2
<1>9. Numbered(orderRows') /\ Numbered(itemRows') /\ Numbered(paymentRows')
  BY DEF OnceInv
<1>10. lines' = u /\ \A table : RowsIn(lines', table) = RowsIn(u, table)
  BY <1>1, <1>3
<1>11. NoEmptyInsert(lines')
  BY <1>7, <1>10
<1>12. \A table \in TableNames : Numbered(RowsIn(lines', table))
  BY <1>6, <1>10
<1>13. \A table \in Awaited(to) : RowsIn(lines', table) = <<>>
  BY <1>2, <1>6, <1>10
<1>14. to \in {"reviews", "sequences", "written"} => SalesIn(lines)'
  BY <1>8, <1>10 DEF SalesIn
<1>15. QED
  BY <1>1, <1>9, <1>11, <1>12, <1>13, <1>14 DEF OnceInv

(* One plain INSERT, rows in chunks, and two parts that fill other tables.  *)
LEMMA PlainFills ==
    ASSUME NEW from, NEW to, NEW table \in TableNames, table \in Awaited(from) \ Awaited(to),
           NEW n \in Nat \ {0}, NEW refs \in [1..n -> SUBSET KeyRef]
    PROVE  /\ FillsTables(InsertPlain(table, refs), from, to)
           /\ \A other : other # table => RowsIn(InsertPlain(table, refs), other) = <<>>
<1>1. PICK t : t = InsertPlain(table, refs)
  OBVIOUS
<1>2. /\ t \in Seq(Statement)
      /\ \A other : other # table => RowsIn(t, other) = <<>>
      /\ Len(RowsIn(t, table)) = n
      /\ \A i \in 1..n : RowsIn(t, table)[i].id = i
      /\ \A k \in 1..Len(t) : t[k].rows # <<>>
  BY <1>1, RowsOfPlain
<1>3. QED
  BY <1>1, <1>2 DEF FillsTables, NoEmptyInsert, Numbered

LEMMA BulkFills ==
    ASSUME NEW from, NEW to, NEW table \in TableNames, table \in Awaited(from) \ Awaited(to),
           NEW rows \in Seq(Row), Numbered(rows)
    PROVE  /\ FillsTables(EmitBulk(table, rows), from, to)
           /\ RowsIn(EmitBulk(table, rows), table) = rows
           /\ \A other : other # table => RowsIn(EmitBulk(table, rows), other) = <<>>
<1>1. PICK t : t = EmitBulk(table, rows)
  OBVIOUS
<1>2. /\ t \in Seq(Statement)
      /\ \A other : other # table => RowsIn(t, other) = <<>>
      /\ RowsIn(t, table) = rows
      /\ \A k \in 1..Len(t) : t[k].rows # <<>>
  BY <1>1, RowsOfBulk
<1>3. QED
  BY <1>1, <1>2 DEF FillsTables, NoEmptyInsert

LEMMA BothFill ==
    ASSUME NEW from, NEW to, NEW s, FillsTables(s, from, to), NEW t, FillsTables(t, from, to),
           \A table \in TableNames : RowsIn(s, table) = <<>> \/ RowsIn(t, table) = <<>>
    PROVE  /\ FillsTables(s \o t, from, to)
           /\ \A table : /\ RowsIn(s, table) = <<>> => RowsIn(s \o t, table) = RowsIn(t, table)
                         /\ RowsIn(t, table) = <<>> => RowsIn(s \o t, table) = RowsIn(s, table)
<1>1. s \in Seq(Statement) /\ t \in Seq(Statement) /\ NoEmptyInsert(s) /\ NoEmptyInsert(t)
  BY DEF FillsTables
<1>2. PICK u : u = s \o t
  OBVIOUS
<1>3. u \in Seq(Statement) /\ NoEmptyInsert(u)
  BY <1>1, <1>2, Concatenated, NoEmptyConcatenated
<1>4. \A table : /\ RowsIn(u, table) = RowsIn(s, table) \o RowsIn(t, table)
                 /\ RowsIn(s, table) \in Seq(Row) /\ RowsIn(t, table) \in Seq(Row)
  BY <1>1, <1>2, RowsConcatenated, PartTyped
<1>5. \A table : /\ RowsIn(s, table) = <<>> => RowsIn(u, table) = RowsIn(t, table)
                 /\ RowsIn(t, table) = <<>> => RowsIn(u, table) = RowsIn(s, table)
  <2>1. \A rows \in Seq(Row) : rows \o <<>> = rows /\ <<>> \o rows = rows
    OBVIOUS
  <2>2. QED
    BY <1>4, <2>1
<1>6. ASSUME NEW table \in TableNames
      PROVE  \/ RowsIn(u, table) = <<>>
             \/ table \in Awaited(from) \ Awaited(to) /\ Numbered(RowsIn(u, table))
  <2>1. RowsIn(u, table) = RowsIn(s, table) \/ RowsIn(u, table) = RowsIn(t, table)
    BY <1>5
  <2>2. CASE RowsIn(u, table) = RowsIn(s, table)
    BY <2>2 DEF FillsTables
  <2>3. CASE RowsIn(u, table) = RowsIn(t, table)
    BY <2>3 DEF FillsTables
  <2>4. QED
    BY <2>1, <2>2, <2>3
<1>7. FillsTables(u, from, to)
  BY <1>3, <1>6 DEF FillsTables
<1>8. QED
  BY <1>2, <1>5, <1>7

LEMMA SizesPositive ==
    /\ NRegions \in Nat \ {0} /\ NSuppliers \in Nat \ {0} /\ NProducts \in Nat \ {0}
    /\ NCustomers \in Nat \ {0}
    /\ Len(CountryRegion) \in Nat \ {0} /\ Len(CategoryParent) \in Nat \ {0}
<1>1. /\ NRegions \in Nat \ {0} /\ NSuppliers \in Nat \ {0} /\ NProducts \in Nat \ {0}
      /\ NCustomers \in Nat \ {0}
  BY SeedAssumption
<1>2. PICK S : S = 1..NRegions
  OBVIOUS
<1>3. CountryRegion \in Seq(S) /\ CountryRegion # <<>>
  BY <1>2, SeedAssumption
<1>4. Len(CountryRegion) \in Nat \ {0}
  BY <1>3, EmptySeq
<1>5. PICK n : n = Len(CategoryParent)
  OBVIOUS
<1>6. CategoryParent \in Seq(0..n) /\ CategoryParent # <<>>
  BY <1>5, SeedAssumption
<1>7. Len(CategoryParent) \in Nat \ {0}
  BY <1>6, EmptySeq
<1>8. QED
  BY <1>1, <1>4, <1>7

LEMMA EmitReferenceOnce == ScriptInv /\ OnceInv /\ EmitReference => OnceInv'
<1> SUFFICES ASSUME ScriptInv, OnceInv, EmitReference PROVE OnceInv'
  OBVIOUS
<1> DEFINE n == Len(CountryRegion)
           m == Len(CategoryParent)
           regionRefs == [i \in 1..NRegions |-> {}]
           countryRefs == [i \in 1..n |-> {Ref("regions", CountryRegion[i])}]
           parentRefs == [i \in 1..m |-> {Ref("categories", p) : p \in {CategoryParent[i]} \ {0}}]
           r == InsertPlain("regions", regionRefs)
           c == InsertPlain("countries", countryRefs)
           g == InsertPlain("categories", parentRefs)
<1>1. Appends("reference", "suppliers", r \o c \o g)
  BY SizesTyped DEF EmitReference, Countries
<1>2. /\ "regions" \in TableNames /\ "countries" \in TableNames /\ "categories" \in TableNames
      /\ {"regions", "countries", "categories"} \subseteq Awaited("reference") \ Awaited("suppliers")
      /\ NRegions \in Nat \ {0} /\ n \in Nat \ {0} /\ m \in Nat \ {0}
  BY SizesPositive DEF TableNames, Awaited, SalesTables
<1>3. regionRefs \in [1..NRegions -> SUBSET KeyRef]
  OBVIOUS
<1>4. \A i \in 1..n : Ref("regions", CountryRegion[i]) \in KeyRef
  BY <1>2, SizesTyped, RefTyped
<1>5. countryRefs \in [1..n -> SUBSET KeyRef]
  BY <1>4
<1>6. \A i \in 1..m : \A ref \in parentRefs[i] : \E p \in 1..m : ref = Ref("categories", p)
  BY SizesTyped
<1>7. parentRefs \in [1..m -> SUBSET KeyRef]
  <2>1. \A i \in 1..m : parentRefs[i] \in SUBSET KeyRef
    BY <1>2, <1>6, RefTyped
  <2>2. QED
    BY <2>1
<1> HIDE DEF n, m, regionRefs, countryRefs, parentRefs
<1>8. /\ FillsTables(r, "reference", "suppliers")
      /\ \A other : other # "regions" => RowsIn(r, other) = <<>>
  BY <1>2, <1>3, PlainFills
<1>9. /\ FillsTables(c, "reference", "suppliers")
      /\ \A other : other # "countries" => RowsIn(c, other) = <<>>
  BY <1>2, <1>5, PlainFills
<1>10. /\ FillsTables(g, "reference", "suppliers")
       /\ \A other : other # "categories" => RowsIn(g, other) = <<>>
  BY <1>2, <1>7, PlainFills
<1> HIDE DEF r, c, g
<1>11. PICK rc : rc = r \o c
  OBVIOUS
<1>12. /\ FillsTables(rc, "reference", "suppliers")
       /\ \A table : RowsIn(r, table) = <<>> => RowsIn(rc, table) = RowsIn(c, table)
  BY <1>8, <1>9, <1>11, BothFill
<1>13. \A table \in TableNames : RowsIn(rc, table) = <<>> \/ RowsIn(g, table) = <<>>
  BY <1>8, <1>9, <1>10, <1>12
<1>14. FillsTables(rc \o g, "reference", "suppliers")
  BY <1>10, <1>12, <1>13, BothFill
<1>15. UNCHANGED <<orderRows, itemRows, paymentRows>>
  BY DEF EmitReference
<1>16. QED
  BY <1>1, <1>11, <1>14, <1>15, PartFills

LEMMA EmitSuppliersOnce == ScriptInv /\ OnceInv /\ EmitSuppliers => OnceInv'
<1> SUFFICES ASSUME ScriptInv, OnceInv, EmitSuppliers PROVE OnceInv'
  OBVIOUS
<1>1. PICK country \in [1..NSuppliers -> Countries] :
          Appends("suppliers", "products",
              InsertPlain("suppliers", [i \in 1..NSuppliers |-> {Ref("countries", country[i])}]))
  BY DEF EmitSuppliers
<1>2. PICK refs : refs = [i \in 1..NSuppliers |-> {Ref("countries", country[i])}]
  OBVIOUS
<1>3. /\ "suppliers" \in TableNames /\ "countries" \in TableNames /\ NSuppliers \in Nat \ {0}
      /\ "suppliers" \in Awaited("suppliers") \ Awaited("products")
  BY SizesPositive DEF TableNames, Awaited, SalesTables
<1>4. \A i \in 1..NSuppliers : Ref("countries", country[i]) \in KeyRef
  BY <1>3, SizesTyped, RefTyped DEF Countries
<1>5. refs \in [1..NSuppliers -> SUBSET KeyRef]
  BY <1>2, <1>4
<1>6. FillsTables(InsertPlain("suppliers", refs), "suppliers", "products")
  BY <1>3, <1>5, PlainFills
<1>7. Appends("suppliers", "products", InsertPlain("suppliers", refs))
      /\ UNCHANGED <<orderRows, itemRows, paymentRows>>
  BY <1>1, <1>2 DEF EmitSuppliers
<1>8. QED
  BY <1>6, <1>7, PartFills

LEMMA EmitProductsOnce == ScriptInv /\ OnceInv /\ EmitProducts => OnceInv'
<1> SUFFICES ASSUME ScriptInv, OnceInv, EmitProducts PROVE OnceInv'
  OBVIOUS
<1>1. PICK category \in [1..NProducts -> DOMAIN CategoryParent],
           supplier \in [1..NProducts -> SupplierOf] :
          Appends("products", "customers",
              InsertPlain("products",
                  [i \in 1..NProducts |->
                      {Ref("categories", category[i]), Ref("suppliers", supplier[i])}]))
  BY DEF EmitProducts
<1>2. PICK refs : refs = [i \in 1..NProducts |->
                             {Ref("categories", category[i]), Ref("suppliers", supplier[i])}]
  OBVIOUS
<1>3. /\ "products" \in TableNames /\ "categories" \in TableNames /\ "suppliers" \in TableNames
      /\ NProducts \in Nat \ {0}
      /\ "products" \in Awaited("products") \ Awaited("customers")
  BY SizesPositive DEF TableNames, Awaited, SalesTables
<1>4. \A i \in 1..NProducts : category[i] \in Nat /\ supplier[i] \in Nat
  BY SizesTyped DEF SupplierOf
<1>5. \A i \in 1..NProducts : /\ Ref("categories", category[i]) \in KeyRef
                              /\ Ref("suppliers", supplier[i]) \in KeyRef
  BY <1>3, <1>4, RefTyped
<1>6. refs \in [1..NProducts -> SUBSET KeyRef]
  BY <1>2, <1>5
<1>7. FillsTables(InsertPlain("products", refs), "products", "customers")
  BY <1>3, <1>6, PlainFills
<1>8. Appends("products", "customers", InsertPlain("products", refs))
      /\ UNCHANGED <<orderRows, itemRows, paymentRows>>
  BY <1>1, <1>2 DEF EmitProducts
<1>9. QED
  BY <1>7, <1>8, PartFills

LEMMA EmitCustomersOnce == ScriptInv /\ OnceInv /\ EmitCustomers => OnceInv'
<1> SUFFICES ASSUME ScriptInv, OnceInv, EmitCustomers PROVE OnceInv'
  OBVIOUS
<1>1. PICK country \in [1..NCustomers -> Countries] :
          Appends("customers", "orders",
              InsertPlain("customers", [i \in 1..NCustomers |-> {Ref("countries", country[i])}]))
  BY DEF EmitCustomers
<1>2. PICK refs : refs = [i \in 1..NCustomers |-> {Ref("countries", country[i])}]
  OBVIOUS
<1>3. /\ "customers" \in TableNames /\ "countries" \in TableNames /\ NCustomers \in Nat \ {0}
      /\ "customers" \in Awaited("customers") \ Awaited("orders")
  BY SizesPositive DEF TableNames, Awaited, SalesTables
<1>4. \A i \in 1..NCustomers : Ref("countries", country[i]) \in KeyRef
  BY <1>3, SizesTyped, RefTyped DEF Countries
<1>5. refs \in [1..NCustomers -> SUBSET KeyRef]
  BY <1>2, <1>4
<1>6. FillsTables(InsertPlain("customers", refs), "customers", "orders")
  BY <1>3, <1>5, PlainFills
<1>7. Appends("customers", "orders", InsertPlain("customers", refs))
      /\ UNCHANGED <<orderRows, itemRows, paymentRows>>
  BY <1>1, <1>2 DEF EmitCustomers
<1>8. QED
  BY <1>6, <1>7, PartFills

LEMMA EmitSalesOnce == ScriptInv /\ OnceInv /\ EmitSales => OnceInv'
<1> SUFFICES ASSUME ScriptInv, OnceInv, EmitSales PROVE OnceInv'
  OBVIOUS
<1>1. PICK a : a = EmitBulk("orders", orderRows)
  OBVIOUS
<1>2. PICK b : b = EmitBulk("order_items", itemRows)
  OBVIOUS
<1>3. PICK d : d = EmitBulk("payments", paymentRows)
  OBVIOUS
<1>4. /\ "orders" \in TableNames /\ "order_items" \in TableNames /\ "payments" \in TableNames
      /\ {"orders", "order_items", "payments"} \subseteq Awaited("orders") \ Awaited("reviews")
      /\ orderRows \in Seq(Row) /\ itemRows \in Seq(Row) /\ paymentRows \in Seq(Row)
      /\ Numbered(orderRows) /\ Numbered(itemRows) /\ Numbered(paymentRows)
  BY DEF TableNames, Awaited, SalesTables, ScriptInv, Kept, OnceInv
<1>5. /\ FillsTables(a, "orders", "reviews") /\ RowsIn(a, "orders") = orderRows
      /\ \A other : other # "orders" => RowsIn(a, other) = <<>>
  BY <1>1, <1>4, BulkFills
<1>6. /\ FillsTables(b, "orders", "reviews") /\ RowsIn(b, "order_items") = itemRows
      /\ \A other : other # "order_items" => RowsIn(b, other) = <<>>
  BY <1>2, <1>4, BulkFills
<1>7. /\ FillsTables(d, "orders", "reviews") /\ RowsIn(d, "payments") = paymentRows
      /\ \A other : other # "payments" => RowsIn(d, other) = <<>>
  BY <1>3, <1>4, BulkFills
<1>8. PICK ab : ab = a \o b
  OBVIOUS
<1>9. /\ FillsTables(ab, "orders", "reviews")
      /\ \A table : /\ RowsIn(a, table) = <<>> => RowsIn(ab, table) = RowsIn(b, table)
                    /\ RowsIn(b, table) = <<>> => RowsIn(ab, table) = RowsIn(a, table)
  BY <1>5, <1>6, <1>8, BothFill
<1>10. PICK t : t = ab \o d
  OBVIOUS
<1>11. \A table \in TableNames : RowsIn(ab, table) = <<>> \/ RowsIn(d, table) = <<>>
  BY <1>5, <1>6, <1>7, <1>9
<1>12. /\ FillsTables(t, "orders", "reviews")
       /\ \A table : /\ RowsIn(ab, table) = <<>> => RowsIn(t, table) = RowsIn(d, table)
                     /\ RowsIn(d, table) = <<>> => RowsIn(t, table) = RowsIn(ab, table)
  BY <1>7, <1>9, <1>10, <1>11, BothFill
<1>13. SalesIn(t)
  BY <1>5, <1>6, <1>7, <1>9, <1>12 DEF SalesIn
<1>14. Appends("orders", "reviews", t) /\ UNCHANGED <<orderRows, itemRows, paymentRows>>
  BY <1>1, <1>2, <1>3, <1>8, <1>10 DEF EmitSales
<1>15. QED
  BY <1>12, <1>13, <1>14, PartFills

LEMMA EmitReviewsOnce == ScriptInv /\ OnceInv /\ EmitReviews => OnceInv'
<1> SUFFICES ASSUME ScriptInv, OnceInv, EmitReviews PROVE OnceInv'
  OBVIOUS
<1>1. PICK n : n = NOrders \div 3
  OBVIOUS
<1>2. PICK about \in [1..n -> (1..NProducts) \X (1..NCustomers)] :
          Appends("reviews", "sequences",
              EmitBulk("reviews", [i \in DOMAIN about |->
                  PlainRow(i, {Ref("products", about[i][1]), Ref("customers", about[i][2])})]))
  BY <1>1 DEF EmitReviews
<1>3. PICK rows : rows = [i \in DOMAIN about |->
          PlainRow(i, {Ref("products", about[i][1]), Ref("customers", about[i][2])})]
  OBVIOUS
<1>4. /\ n \in Nat
      /\ "reviews" \in TableNames /\ "products" \in TableNames /\ "customers" \in TableNames
      /\ "reviews" \in Awaited("reviews") \ Awaited("sequences")
  BY <1>1, SizesTyped DEF TableNames, Awaited
<1>5. \A i \in 1..n :
          rows[i] = SeedRow(i, {Ref("products", about[i][1]), Ref("customers", about[i][2])},
                            "none", 0)
  BY <1>3 DEF PlainRow
<1>6. ASSUME NEW i \in 1..n
      PROVE  rows[i] \in Row
  <2>1. PICK refs : refs = {Ref("products", about[i][1]), Ref("customers", about[i][2])}
    OBVIOUS
  <2>2. about[i][1] \in 1..NProducts /\ about[i][2] \in 1..NCustomers
    OBVIOUS
  <2>3. about[i][1] \in Nat /\ about[i][2] \in Nat
    BY <2>2, SizesTyped
  <2>4. refs \in SUBSET KeyRef
    BY <1>4, <2>1, <2>3, RefTyped
  <2>5. i \in Nat /\ "none" \in RowStatuses /\ 0 \in Amount
    BY DEF RowStatuses, Amount
  <2>6. SeedRow(i, refs, "none", 0) \in Row
    BY <2>4, <2>5, RowTyped
  <2>7. QED
    BY <1>5, <2>1, <2>6
<1>7. DOMAIN rows = 1..n /\ rows = [i \in 1..n |-> rows[i]]
  BY <1>3
<1>8. rows \in Seq(Row) /\ Len(rows) = n
  <2>1. rows \in [1..n -> Row]
    BY <1>6, <1>7
  <2>2. QED
    BY <1>4, <2>1, FunctionIsSeq
<1>9. Numbered(rows)
  BY <1>5, <1>8 DEF Numbered, SeedRow
<1>10. FillsTables(EmitBulk("reviews", rows), "reviews", "sequences")
  BY <1>4, <1>8, <1>9, BulkFills
<1>11. /\ Appends("reviews", "sequences", EmitBulk("reviews", rows))
       /\ UNCHANGED <<orderRows, itemRows, paymentRows>>
  BY <1>2, <1>3 DEF EmitReviews
<1>12. QED
  BY <1>10, <1>11, PartFills

ItemsFor(id, rows) ==
    /\ rows \in Seq(ItemRow)
    /\ \A k \in 1..Len(rows) :
           /\ rows[k].id = Len(itemRows) + k /\ Ref("orders", id) \in rows[k].refs
           /\ \A ref \in rows[k].refs : ref = Ref("orders", id) \/ ref.table = "products"

LEMMA OrderAdded ==
    ASSUME ScriptInv, AddOrder
    PROVE  /\ UNCHANGED <<seedPc, lines>> /\ seedPc = "orders"
           /\ \E customer \in 1..NCustomers, status \in Statuses, rows \in Seq(ItemRow) :
              \E payment \in PaymentStatuses(status) :
                  ItemsFor(Len(orderRows) + 1, rows) /\ AddedOrder(customer, status, rows, payment)
<1>1. PICK customer \in 1..NCustomers, status \in Statuses, n \in 1..MaxItems :
          \E items \in [1..n -> Item], payment \in PaymentStatuses(status) :
              AddedOrder(customer, status, ItemsOf(Len(orderRows) + 1, items), payment)
  BY OrderPicked
<1>2. PICK items \in [1..n -> Item], payment \in PaymentStatuses(status) :
              AddedOrder(customer, status, ItemsOf(Len(orderRows) + 1, items), payment)
  BY <1>1
<1>3. PICK id : id = Len(orderRows) + 1
  OBVIOUS
<1>4. PICK rows : rows = ItemsOf(id, items)
  OBVIOUS
<1>5. id \in Nat \ {0} /\ Len(itemRows) \in Nat
  BY <1>3 DEF ScriptInv, Kept
<1>6. n \in Nat /\ Quantities \subseteq Nat /\ "products" \in TableNames
  BY SeedAssumption DEF TableNames
<1>7. rows \in Seq(ItemRow)
  BY <1>4, <1>5, <1>6, ItemsTyped
<1>8. /\ DOMAIN rows = 1..n
      /\ \A k \in 1..n :
             rows[k] = SeedRow(Len(itemRows) + k,
                               {Ref("orders", id), Ref("products", items[k].product)}, "none",
                               Net(items[k]))
  BY <1>4 DEF ItemsOf
<1>9. Len(rows) = n
  BY <1>6, <1>7, <1>8
<1>10. ASSUME NEW k \in 1..Len(rows)
       PROVE  /\ rows[k].id = Len(itemRows) + k /\ Ref("orders", id) \in rows[k].refs
              /\ \A ref \in rows[k].refs : ref = Ref("orders", id) \/ ref.table = "products"
  <2>1. /\ rows[k].id = Len(itemRows) + k
        /\ rows[k].refs = {Ref("orders", id), Ref("products", items[k].product)}
    BY <1>8, <1>9 DEF SeedRow
  <2>2. QED
    BY <2>1 DEF Ref
<1>11. ItemsFor(Len(orderRows) + 1, rows)
  BY <1>3, <1>7, <1>10 DEF ItemsFor
<1>12. AddedOrder(customer, status, rows, payment)
  BY <1>2, <1>3, <1>4
<1>13. UNCHANGED <<seedPc, lines>> /\ seedPc = "orders"
  BY DEF AddOrder
<1>14. QED
  <2>1. \E p \in PaymentStatuses(status) :
            ItemsFor(Len(orderRows) + 1, rows) /\ AddedOrder(customer, status, rows, p)
    BY <1>11, <1>12
  <2>2. QED
    BY <1>7, <1>13, <2>1

LEMMA NumberedOn ==
    ASSUME NEW A, NEW rows \in Seq(A), Numbered(rows), NEW more \in Seq(A),
           \A k \in 1..Len(more) : more[k].id = Len(rows) + k
    PROVE  Numbered(rows \o more)
<1>1. PICK all : all = rows \o more
  OBVIOUS
<1>2. /\ \A i \in 1..Len(rows) : all[i] = rows[i]
      /\ \A k \in 1..Len(more) : all[Len(rows) + k] = more[k]
      /\ \A i \in 1..Len(all) :
             i \in 1..Len(rows) \/ (i - Len(rows) \in 1..Len(more)
                                    /\ i = Len(rows) + (i - Len(rows)))
  BY <1>1, Concatenated
<1>3. ASSUME NEW i \in 1..Len(all) PROVE all[i].id = i
  <2>1. CASE i \in 1..Len(rows)
    BY <1>2, <2>1 DEF Numbered
  <2>2. CASE i \notin 1..Len(rows)
    <3>1. PICK k \in 1..Len(more) : i = Len(rows) + k
      BY <1>2, <2>2
    <3>2. QED
      BY <1>2, <3>1
  <2>3. QED
    BY <2>1, <2>2
<1>4. QED
  BY <1>1, <1>3 DEF Numbered

LEMMA AddOrderOnce == ScriptInv /\ OnceInv /\ AddOrder => OnceInv'
<1> SUFFICES ASSUME ScriptInv, OnceInv, AddOrder PROVE OnceInv'
  OBVIOUS
<1>1. UNCHANGED <<seedPc, lines>> /\ seedPc = "orders"
  BY OrderAdded
<1>2. PICK customer \in 1..NCustomers, status \in Statuses, rows \in Seq(ItemRow) :
          \E payment \in PaymentStatuses(status) :
              ItemsFor(Len(orderRows) + 1, rows) /\ AddedOrder(customer, status, rows, payment)
  BY OrderAdded
<1>3. PICK payment \in PaymentStatuses(status) :
          ItemsFor(Len(orderRows) + 1, rows) /\ AddedOrder(customer, status, rows, payment)
  BY <1>2
<1>4. /\ orderRows \in Seq(Row) /\ itemRows \in Seq(Row) /\ paymentRows \in Seq(Row)
      /\ Numbered(orderRows) /\ Numbered(itemRows) /\ Numbered(paymentRows)
  BY DEF ScriptInv, Kept, OnceInv
<1>5. ASSUME NEW A, NEW s \in Seq(A), Numbered(s), NEW x \in A, x.id = Len(s) + 1
      PROVE  Numbered(Append(s, x))
  BY <1>5 DEF Numbered
<1>6. Numbered(orderRows')
  <2>1. PICK x : x = SeedRow(Len(orderRows) + 1, {Ref("customers", customer)}, status, 0)
    OBVIOUS
  <2>2. x.id = Len(orderRows) + 1
    BY <2>1 DEF SeedRow
  <2>3. orderRows \in Seq(Row \cup {x})
    BY <1>4
  <2>4. orderRows' = Append(orderRows, x)
    BY <1>3, <2>1 DEF AddedOrder
  <2>5. QED
    BY <1>4, <1>5, <2>2, <2>3, <2>4
<1>7. Numbered(itemRows')
  <2>1. /\ rows \in Seq(Row) /\ itemRows' = itemRows \o rows
        /\ \A k \in 1..Len(rows) : rows[k].id = Len(itemRows) + k
    BY <1>3, ItemRowIsRow DEF ItemsFor, AddedOrder
  <2>2. QED
    BY <1>4, <2>1, NumberedOn
<1>8. Numbered(paymentRows')
  <2>1. PICK x : x = SeedRow(Len(paymentRows) + 1, {Ref("orders", Len(orderRows) + 1)},
                             payment, OrderTotal(rows))
    OBVIOUS
  <2>2. x.id = Len(paymentRows) + 1
    BY <2>1 DEF SeedRow
  <2>3. paymentRows \in Seq(Row \cup {x})
    BY <1>4
  <2>4. paymentRows' = paymentRows \/ paymentRows' = Append(paymentRows, x)
    BY <1>3, <2>1 DEF AddedOrder
  <2>5. QED
    BY <1>4, <1>5, <2>2, <2>3, <2>4
<1>9. /\ NoEmptyInsert(lines')
      /\ \A table : RowsIn(lines', table) = RowsIn(lines, table)
  BY <1>1 DEF OnceInv
<1>10. QED
  BY <1>1, <1>6, <1>7, <1>8, <1>9 DEF OnceInv

(* The statements that reset the sequences.                                 *)
LEMMA ResetsTyped ==
    ASSUME NEW t, t = [k \in DOMAIN ResetTables |-> SetVal(ResetTables[k])]
    PROVE  /\ t \in Seq(Statement) /\ Len(t) = 10
           /\ \A k \in 1..10 : t[k] = SetVal(Tables[k]) /\ t[k].rows = <<>> /\ t[k].op = "setval"
           /\ \A table \in TableNames : \E k \in 1..10 : t[k] = SetVal(table)
           /\ \A j, k \in 1..10 : t[j] = t[k] => j = k
<1>1. DOMAIN ResetTables = 1..10 /\ \A k \in 1..10 : Tables[k] \in TableNames
  BY DEF ResetTables, Tables, TableNames
<1>2. \A k \in 1..10 : t[k] = SetVal(Tables[k])
  BY <1>1 DEF ResetTables
<1>3. \A k \in 1..10 : t[k] \in Statement /\ t[k].rows = <<>> /\ t[k].op = "setval"
  BY <1>1, <1>2 DEF SetVal, Statement
<1>4. t \in Seq(Statement) /\ Len(t) = 10
  <2>1. DOMAIN t = 1..10 /\ t = [k \in 1..10 |-> t[k]]
    BY <1>1
  <2>2. t \in [1..10 -> Statement] /\ 10 \in Nat
    BY <1>3, <2>1
  <2>3. QED
    BY <2>2, FunctionIsSeq
<1>5. \A table \in TableNames : \E k \in 1..10 : Tables[k] = table
  BY DEF Tables, TableNames
<1>6. \A j, k \in 1..10 : Tables[j] = Tables[k] => j = k
  BY DEF Tables
<1>7. \A j, k \in 1..10 : t[j] = t[k] => Tables[j] = Tables[k]
  <2>1. \A j \in 1..10 : t[j].table = Tables[j]
    BY <1>2 DEF SetVal
  <2>2. QED
    BY <2>1
<1>8. \A j, k \in 1..10 : t[j] = t[k] => j = k
  BY <1>6, <1>7
<1>9. \A table \in TableNames : \E k \in 1..10 : t[k] = SetVal(table)
  BY <1>2, <1>5
<1>10. QED
  BY <1>2, <1>3, <1>4, <1>8, <1>9

(* The last reset of a table's sequence comes after all of its rows.        *)
LEMMA LastReset ==
    ASSUME NEW s \in Seq(Statement), NEW t, NEW u, u = s \o t,
           t = [k \in DOMAIN ResetTables |-> SetVal(ResetTables[k])],
           NEW table \in TableNames
    PROVE  \E m \in DOMAIN u :
               /\ u[m] = SetVal(table)
               /\ \A n \in DOMAIN u : u[n] = SetVal(table) => n <= m
               /\ FlattenSeq([i \in 1..m |-> IF u[i].table = table THEN u[i].rows ELSE <<>>])
                      = RowsIn(u, table)
<1>1. /\ t \in Seq(Statement) /\ Len(t) = 10
      /\ \A k \in 1..10 : t[k].rows = <<>>
      /\ \A j, k \in 1..10 : t[j] = t[k] => j = k
  BY SMTT(30), ResetsTyped
<1>2. PICK k \in 1..10 : t[k] = SetVal(table)
  BY ResetsTyped
<1>3. PICK l \in Nat : l = Len(s)
  OBVIOUS
<1>4. /\ u \in Seq(Statement) /\ Len(u) = l + 10 /\ DOMAIN u = 1..(l + 10)
      /\ \A n \in 1..l : u[n] = s[n]
      /\ \A j \in 1..10 : u[l + j] = t[j]
      /\ \A n \in 1..(l + 10) : n \in 1..l \/ (n - l \in 1..10 /\ n = l + (n - l))
  <2>1. /\ u \in Seq(Statement) /\ Len(u) = Len(s) + Len(t)
        /\ \A n \in 1..Len(s) : u[n] = s[n]
        /\ \A j \in 1..Len(t) : u[Len(s) + j] = t[j]
    BY <1>1, Concatenated
  <2>2. u \in Seq(Statement) /\ Len(u) = l + 10 /\ DOMAIN u = 1..(l + 10)
    BY <1>1, <1>3, <2>1
  <2>3. \A n \in 1..(l + 10) : n \in 1..l \/ (n - l \in 1..10 /\ n = l + (n - l))
    OBVIOUS
  <2>4. QED
    BY <1>1, <1>3, <2>1, <2>2, <2>3
<1>5. PICK m \in 1..(l + 10) : m = l + k
  OBVIOUS
<1>6. u[m] = SetVal(table)
  BY <1>2, <1>4, <1>5
<1>7. ASSUME NEW n \in DOMAIN u, u[n] = SetVal(table) PROVE n <= m
  <2>1. CASE n \in 1..l
    BY <1>5, <2>1
  <2>2. CASE n \notin 1..l
    <3>1. PICK j \in 1..10 : n = l + j
      BY <1>4, <2>2
    <3>2. t[j] = t[k]
      BY <1>2, <1>4, <1>7, <3>1
    <3>3. j = k
      BY <1>1, <3>2
    <3>4. QED
      BY <1>5, <3>1, <3>3
  <2>3. QED
    BY <2>1, <2>2
<1>8. PICK b : b = [i \in 1..k |-> t[i]]
  OBVIOUS
<1>9. /\ b \in Seq(Statement) /\ Len(b) = k
      /\ \A i \in 1..k : b[i] = t[i] /\ b[i].rows = <<>>
  <2>1. \A i \in 1..k : i \in 1..10 /\ t[i] \in Statement
    BY <1>1
  <2>2. b \in [1..k -> Statement] /\ k \in Nat
    BY <1>8, <2>1
  <2>3. b \in Seq(Statement) /\ Len(b) = k
    BY <2>2, FunctionIsSeq
  <2>4. QED
    BY <1>1, <1>8, <2>1, <2>3
<1>10. PICK v : v = s \o b
  OBVIOUS
<1>11. /\ v \in Seq(Statement) /\ Len(v) = m
       /\ \A n \in 1..l : v[n] = s[n]
       /\ \A j \in 1..k : v[l + j] = b[j]
  <2>1. /\ v \in Seq(Statement) /\ Len(v) = Len(s) + Len(b)
        /\ \A n \in 1..Len(s) : v[n] = s[n]
        /\ \A j \in 1..Len(b) : v[Len(s) + j] = b[j]
    BY <1>9, <1>10, Concatenated
  <2>2. QED
    BY <1>3, <1>5, <1>9, <2>1
<1>12. ASSUME NEW i \in 1..m PROVE v[i] = u[i]
  <2>1. CASE i \in 1..l
    BY <1>4, <1>11, <2>1
  <2>2. CASE i \notin 1..l
    <3>1. i - l \in 1..k /\ i = l + (i - l)
      BY <1>5, <2>2
    <3>2. PICK j \in 1..k : i = l + j
      BY <3>1
    <3>3. j \in 1..10
      OBVIOUS
    <3>4. QED
      BY ZenonT(40), <1>4, <1>9, <1>11, <3>2, <3>3
  <2>3. QED
    BY <2>1, <2>2
<1>13. [i \in 1..m |-> IF u[i].table = table THEN u[i].rows ELSE <<>>] = PartOf(v, table)
  BY <1>11, <1>12 DEF PartOf
<1>14. RowsIn(b, table) = <<>> /\ RowsIn(t, table) = <<>>
  <2>1. RowsIn(b, table) = <<>>
    BY <1>9, RowsNone
  <2>2. \A i \in 1..Len(t) : t[i].table = table => t[i].rows = <<>>
    BY <1>1
  <2>3. RowsIn(t, table) = <<>>
    BY <1>1, <2>2, RowsNone
  <2>4. QED
    BY <2>1, <2>3
<1>15. RowsIn(v, table) = RowsIn(u, table)
  <2>1. RowsIn(v, table) = RowsIn(s, table) \o RowsIn(b, table)
    BY <1>9, <1>10, RowsConcatenated
  <2>2. RowsIn(u, table) = RowsIn(s, table) \o RowsIn(t, table)
    BY <1>1, RowsConcatenated
  <2>3. QED
    BY <1>14, <2>1, <2>2
<1>16. FlattenSeq([i \in 1..m |-> IF u[i].table = table THEN u[i].rows ELSE <<>>])
           = RowsIn(u, table)
  BY <1>13, <1>15 DEF RowsIn
<1>17. QED
  BY <1>4, <1>6, <1>7, <1>16

LEMMA ResetSequencesOnce == ScriptInv /\ OnceInv /\ ResetSequences => OnceInv'
<1> SUFFICES ASSUME ScriptInv, OnceInv, ResetSequences PROVE OnceInv'
  OBVIOUS
<1>1. PICK t : t = [k \in DOMAIN ResetTables |-> SetVal(ResetTables[k])]
  OBVIOUS
<1>2. /\ Appends("sequences", "written", t) /\ UNCHANGED <<orderRows, itemRows, paymentRows>>
      /\ lines \in Seq(Statement) /\ lines' = lines \o t
  BY <1>1 DEF ResetSequences, Appends, ScriptInv, Loadable
<1>3. /\ t \in Seq(Statement) /\ Len(t) = 10
      /\ \A k \in 1..10 : t[k].rows = <<>> /\ t[k].op = "setval"
  BY <1>1, ResetsTyped
<1>4. \A table : RowsIn(t, table) = <<>>
  BY <1>3, RowsNone
<1>5. FillsTables(t, "sequences", "written")
  BY <1>3, <1>4 DEF FillsTables, NoEmptyInsert
<1>6. PICK u : u = lines \o t
  OBVIOUS
<1>7. u \in Seq(Statement)
  BY <1>2, <1>3, <1>6, Concatenated
<1>8. ASSUME NEW table \in TableNames
      PROVE  NextValue(table)' > Len(RowsIn(lines', table))
  <2>1. PICK m \in DOMAIN u :
            /\ u[m] = SetVal(table)
            /\ \A n \in DOMAIN u : u[n] = SetVal(table) => n <= m
            /\ FlattenSeq([i \in 1..m |-> IF u[i].table = table THEN u[i].rows ELSE <<>>])
                   = RowsIn(u, table)
    BY <1>1, <1>2, <1>6, LastReset
  <2>2. m \in Nat /\ DOMAIN u \subseteq Nat
    BY <1>7
  <2>3. PICK sets : sets = {n \in DOMAIN u : u[n] = SetVal(table)}
    OBVIOUS
  <2>4. m \in sets /\ sets # {} /\ sets \subseteq Nat /\ \A n \in sets : n <= m
    BY <2>1, <2>2, <2>3
  <2>5. (CHOOSE n \in sets : \A o \in sets : o <= n) = m
    <3>1. \A n \in sets : (\A o \in sets : o <= n) <=> n = m
      BY <2>2, <2>4
    <3>2. QED
      BY <2>4, <3>1
  <2>6. NextValue(table)' = Len(RowsIn(u, table)) + 1
    BY <1>2, <1>6, <2>1, <2>3, <2>4, <2>5 DEF NextValue, Loaded
  <2>7. Len(RowsIn(u, table)) \in Nat
    <3>1. RowsIn(u, table) \in Seq(Row)
      BY <1>7, PartTyped
    <3>2. QED
      BY <3>1
  <2>8. QED
    BY <1>2, <1>6, <2>6, <2>7
<1>9. SequencesPast'
  BY <1>8 DEF SequencesPast
<1>10. QED
  BY <1>2, <1>5, <1>9, PartFills

LEMMA OnceStart == SeedInit => OnceInv
<1> SUFFICES ASSUME SeedInit PROVE OnceInv
  OBVIOUS
<1>1. /\ lines = <<>> /\ seedPc = "reference"
      /\ orderRows = <<>> /\ itemRows = <<>> /\ paymentRows = <<>>
  BY DEF SeedInit
<1>2. \A table : RowsIn(lines, table) = <<>>
  <2>1. PICK s \in Seq(Statement) : s = <<>>
    BY EmptySeq
  <2>2. \A table : \A i \in 1..Len(s) : s[i].table = table => s[i].rows = <<>>
    BY <2>1
  <2>3. QED
    BY <1>1, <2>1, <2>2, RowsNone
<1>3. QED
  BY <1>1, <1>2 DEF OnceInv, Numbered, NoEmptyInsert

LEMMA OnceInvariant == SeedSpec => []OnceInv
<1>1. ScriptInv /\ OnceInv /\ [SeedNext]_seedVars => OnceInv'
  <2> SUFFICES ASSUME ScriptInv, OnceInv, [SeedNext]_seedVars PROVE OnceInv'
    OBVIOUS
  <2>1. CASE SeedNext
    BY <2>1, EmitReferenceOnce, EmitSuppliersOnce, EmitProductsOnce, EmitCustomersOnce,
       AddOrderOnce, EmitSalesOnce, EmitReviewsOnce, ResetSequencesOnce DEF SeedNext
  <2>2. CASE UNCHANGED seedVars
    <3>1. UNCHANGED <<seedPc, lines, orderRows, itemRows, paymentRows>>
      BY <2>2 DEF seedVars
    <3>2. \A table : /\ RowsIn(lines', table) = RowsIn(lines, table)
                     /\ NextValue(table)' = NextValue(table)
      BY <3>1 DEF NextValue, Loaded
    <3>3. /\ NoEmptyInsert(lines')
          /\ (SequencesPast => SequencesPast') /\ (SalesIn(lines) => SalesIn(lines)')
      BY <3>1, <3>2 DEF OnceInv, SequencesPast, SalesIn
    <3>4. QED
      BY <3>1, <3>2, <3>3 DEF OnceInv
  <2>3. QED
    BY <2>1, <2>2
<1>2. QED
  BY <1>1, OnceStart, ScriptInvariant, PTL DEF SeedSpec

(* The finished script inserts the rows that main made, none lost and none  *)
(* twice, under the keys 1, 2, ..., with no INSERT that has no rows, and it *)
(* leaves every sequence past the keys of its table: whatever the sizes,    *)
(* the draws and the rows per INSERT.                                       *)
THEOREM RowsInsertedOnce == SeedSpec => []EachRowInsertedOnce
<1>1. ScriptInv /\ OnceInv => EachRowInsertedOnce
  <2> SUFFICES ASSUME ScriptInv, OnceInv, seedPc = "written" PROVE EachRowInsertedOnce
    BY DEF EachRowInsertedOnce
  <2>1. \A table : Loaded(table, Len(lines)) = RowsIn(lines, table)
    BY DEF Loaded, RowsIn, PartOf
  <2>2. lines \in Seq(Statement) /\ DOMAIN lines = 1..Len(lines)
    BY DEF ScriptInv, Loadable
  <2>3. \A n \in DOMAIN lines : lines[n].op = "insert" => lines[n].rows # <<>>
    BY <2>2 DEF OnceInv, NoEmptyInsert
  <2>4. SalesIn(lines) /\ SequencesPast
    BY DEF OnceInv
  <2>5. ASSUME NEW t \in DOMAIN Tables
        PROVE  /\ \A i \in DOMAIN RowsIn(lines, Tables[t]) : RowsIn(lines, Tables[t])[i].id = i
               /\ NextValue(Tables[t]) > Len(RowsIn(lines, Tables[t]))
    <3>1. Tables[t] \in TableNames
      BY DEF Tables, TableNames
    <3>2. Numbered(RowsIn(lines, Tables[t])) /\ RowsIn(lines, Tables[t]) \in Seq(Row)
      BY <2>2, <3>1, PartTyped DEF OnceInv
    <3>3. QED
      BY <2>4, <3>1, <3>2 DEF SequencesPast, Numbered
  <2>6. QED
    BY <2>1, <2>3, <2>4, <2>5 DEF EachRowInsertedOnce, SalesIn
<1>2. QED
  BY <1>1, ScriptInvariant, OnceInvariant, PTL
-----------------------------------------------------------------------------
(* The rows that reference a key.                                           *)
ReferringPart(rows, ref) ==
    [i \in DOMAIN rows |-> IF ref \in rows[i].refs THEN <<rows[i]>> ELSE <<>>]

LEMMA ReferringTyped ==
    ASSUME NEW rows \in Seq(Row), NEW ref
    PROVE  /\ ReferringPart(rows, ref) \in Seq(Seq(Row))
           /\ Len(ReferringPart(rows, ref)) = Len(rows)
           /\ RowsOf(rows, ref) = FlattenSeq(ReferringPart(rows, ref))
<1>1. PICK n \in Nat : n = Len(rows) /\ DOMAIN rows = 1..n
  OBVIOUS
<1>2. \A i \in 1..n : <<rows[i]>> \in Seq(Row) /\ <<>> \in Seq(Row)
  BY <1>1
<1>3. PICK f : f = ReferringPart(rows, ref)
  OBVIOUS
<1>4. f \in [1..n -> Seq(Row)]
  BY <1>1, <1>2, <1>3 DEF ReferringPart
<1>5. f \in Seq(Seq(Row)) /\ Len(f) = n
  BY <1>4, FunctionIsSeq
<1>6. QED
  BY <1>1, <1>3, <1>5 DEF RowsOf, ReferringPart

LEMMA ReferringConcatenated ==
    ASSUME NEW s \in Seq(Row), NEW t \in Seq(Row), NEW ref
    PROVE  RowsOf(s \o t, ref) = RowsOf(s, ref) \o RowsOf(t, ref)
<1>1. PICK u \in Seq(Row) : u = s \o t
  <2>1. s \o t \in Seq(Row)
    BY Concatenated
  <2>2. QED
    BY <2>1
<1>2. PICK a \in Seq(Seq(Row)) : a = ReferringPart(s, ref) /\ Len(a) = Len(s)
  BY ReferringTyped
<1>3. PICK b \in Seq(Seq(Row)) : b = ReferringPart(t, ref) /\ Len(b) = Len(t)
  BY ReferringTyped
<1>4. PICK c \in Seq(Seq(Row)) : c = ReferringPart(u, ref) /\ Len(c) = Len(u)
  BY ReferringTyped
<1>5. PICK l \in Nat : l = Len(s)
  OBVIOUS
<1>6. PICK m \in Nat : m = Len(t)
  OBVIOUS
<1>7. /\ Len(u) = l + m
      /\ \A i \in 1..l : u[i] = s[i]
      /\ \A k \in 1..m : u[l + k] = t[k]
  BY <1>1, <1>5, <1>6, Concatenated
<1>8. /\ \A i \in 1..l : a[i] = IF ref \in s[i].refs THEN <<s[i]>> ELSE <<>>
      /\ \A k \in 1..m : b[k] = IF ref \in t[k].refs THEN <<t[k]>> ELSE <<>>
      /\ \A i \in 1..(l + m) : c[i] = IF ref \in u[i].refs THEN <<u[i]>> ELSE <<>>
  BY <1>2, <1>3, <1>4, <1>5, <1>6, <1>7 DEF ReferringPart
<1>9. PICK ab \in Seq(Seq(Row)) : ab = a \o b
  <2>1. a \o b \in Seq(Seq(Row))
    BY Concatenated
  <2>2. QED
    BY <2>1
<1>10. /\ Len(ab) = l + m
       /\ \A i \in 1..l : ab[i] = a[i]
       /\ \A k \in 1..m : ab[l + k] = b[k]
  <2>1. /\ Len(ab) = Len(a) + Len(b)
        /\ \A i \in 1..Len(a) : ab[i] = a[i]
        /\ \A k \in 1..Len(b) : ab[Len(a) + k] = b[k]
    BY <1>9, Concatenated
  <2>2. QED
    BY <1>2, <1>3, <1>5, <1>6, <2>1
<1>11. ASSUME NEW i \in 1..Len(c) PROVE c[i] = ab[i]
  <2>1. i \in 1..(l + m)
    BY <1>4, <1>7
  <2>2. CASE i \in 1..l
    <3>1. c[i] = IF ref \in s[i].refs THEN <<s[i]>> ELSE <<>>
      BY <1>7, <1>8, <2>1, <2>2
    <3>2. QED
      BY <1>8, <1>10, <2>2, <3>1
  <2>3. CASE i \notin 1..l
    <3>1. i - l \in 1..m /\ i = l + (i - l)
      BY <2>1, <2>3
    <3>2. PICK k \in 1..m : i = l + k
      BY <3>1
    <3>3. c[i] = IF ref \in t[k].refs THEN <<t[k]>> ELSE <<>>
      BY <1>7, <1>8, <2>1, <3>2
    <3>4. QED
      BY <1>8, <1>10, <3>2, <3>3
  <2>4. QED
    BY <2>2, <2>3
<1>12. c = ab
  BY <1>4, <1>7, <1>10, <1>11, SeqEqual
<1>13. FlattenSeq(c) = FlattenSeq(a) \o FlattenSeq(b)
  BY <1>9, <1>12, FlattenConcat
<1>14. /\ RowsOf(s, ref) = FlattenSeq(a) /\ RowsOf(t, ref) = FlattenSeq(b)
       /\ RowsOf(u, ref) = FlattenSeq(c)
  BY <1>2, <1>3, <1>4, ReferringTyped
<1>15. QED
  BY <1>1, <1>13, <1>14

LEMMA ReferringNone ==
    ASSUME NEW rows \in Seq(Row), NEW ref, \A i \in 1..Len(rows) : ref \notin rows[i].refs
    PROVE  RowsOf(rows, ref) = <<>>
<1>1. PICK a \in Seq(Seq(Row)) : a = ReferringPart(rows, ref) /\ Len(a) = Len(rows)
  BY ReferringTyped
<1>2. \A k \in 1..Len(a) : a[k] = <<>>
  BY <1>1 DEF ReferringPart
<1>3. QED
  BY <1>1, <1>2, ReferringTyped, FlattenNone

LEMMA ReferringAll ==
    ASSUME NEW rows \in Seq(Row), NEW ref, \A i \in 1..Len(rows) : ref \in rows[i].refs
    PROVE  RowsOf(rows, ref) = rows
<1>1. PICK a \in Seq(Seq(Row)) : a = ReferringPart(rows, ref) /\ Len(a) = Len(rows)
  BY ReferringTyped
<1>2. \A k \in 1..Len(a) : a[k] = <<rows[k]>>
  BY <1>1 DEF ReferringPart
<1>3. FlattenSeq(a) = rows
  BY <1>1, <1>2, FlattenSingles
<1>4. QED
  BY <1>1, <1>3, ReferringTyped
-----------------------------------------------------------------------------
(* The invariant: every payment is for one order, as that order and its     *)
(* items want it, no two are for the same, and those that must have one do. *)
Outcomes(status) == PaymentStatuses(status) \ {"none"}
PaysFor(p, o, orders, items) ==
    /\ p.refs = {Ref("orders", o)} /\ p.status \in Outcomes(orders[o].status)
    /\ p.amount = OrderTotal(RowsOf(items, Ref("orders", o)))

PayInv ==
    /\ \A o \in 1..Len(orderRows) : orderRows[o].status \in Statuses
    /\ \A i \in 1..Len(paymentRows) :
           \E o \in 1..Len(orderRows) : PaysFor(paymentRows[i], o, orderRows, itemRows)
    /\ \A i, j \in 1..Len(paymentRows) : paymentRows[i].refs = paymentRows[j].refs => i = j
    /\ \A o \in 1..Len(orderRows) :
           orderRows[o].status \in {"completed", "refunded"} =>
               \E i \in 1..Len(paymentRows) : paymentRows[i].refs = {Ref("orders", o)}

LEMMA RefInjective == \A a, b : {Ref("orders", a)} = {Ref("orders", b)} => a = b
<1> SUFFICES ASSUME NEW a, NEW b, {Ref("orders", a)} = {Ref("orders", b)} PROVE a = b
  OBVIOUS
<1>1. Ref("orders", a).id = a /\ Ref("orders", b).id = b
  BY DEF Ref
<1>2. Ref("orders", a) = Ref("orders", b)
  OBVIOUS
<1>3. QED
  BY <1>1, <1>2

LEMMA OutcomesAre ==
    /\ Outcomes("completed") = {"captured"} /\ Outcomes("refunded") = {"refunded"}
    /\ Outcomes("pending") = {"failed"} /\ Outcomes("cancelled") = {}
    /\ "none" \notin PaymentStatuses("completed") /\ "none" \notin PaymentStatuses("refunded")
  BY DEF Outcomes, PaymentStatuses

(* A new order takes nothing from the items of those before it.             *)
LEMMA ItemsOfOlder ==
    ASSUME ScriptInv, NEW rows, ItemsFor(Len(orderRows) + 1, rows), itemRows' = itemRows \o rows,
           NEW o \in 1..(Len(orderRows) + 1)
    PROVE  RowsOf(itemRows', Ref("orders", o)) =
               IF o = Len(orderRows) + 1 THEN rows ELSE RowsOf(itemRows, Ref("orders", o))
<1>1. PICK id \in Nat : id = Len(orderRows) + 1
  <2>1. orderRows \in Seq(Row)
    BY DEF ScriptInv, Kept
  <2>2. Len(orderRows) + 1 \in Nat
    BY <2>1
  <2>3. QED
    BY <2>2
<1>2. PICK s \in Seq(Row) : s = itemRows
  BY DEF ScriptInv, Kept
<1>3. rows \in Seq(Row)
  BY ItemRowIsRow DEF ItemsFor
<1>4. PICK ref : ref = Ref("orders", o)
  OBVIOUS
<1>5. ref.table = "orders" /\ ref.id = o
  BY <1>4 DEF Ref
<1>6. RowsOf(s \o rows, ref) = RowsOf(s, ref) \o RowsOf(rows, ref)
  BY <1>2, <1>3, ReferringConcatenated
<1>7. RowsOf(s, ref) \in Seq(Row)
  <2>1. /\ ReferringPart(s, ref) \in Seq(Seq(Row))
        /\ RowsOf(s, ref) = FlattenSeq(ReferringPart(s, ref))
    BY <1>2, ReferringTyped
  <2>2. QED
    BY <2>1, EmptySeq, FlattenAppend
<1>8. CASE o = id
  <2>1. \A i \in 1..Len(s) : ref \notin s[i].refs
    <3>1. \A i \in 1..Len(s) : \A r \in s[i].refs :
              \/ r.table = "orders" /\ r.id \in 1..Len(orderRows)
              \/ r.table = "products" /\ r.id \in 1..NProducts
      BY <1>2 DEF ScriptInv, Kept
    <3>2. o \notin 1..Len(orderRows)
      BY <1>1, <1>8
    <3>3. QED
      BY <1>5, <3>1, <3>2
  <2>2. RowsOf(s, ref) = <<>>
    BY <1>2, <2>1, ReferringNone
  <2>3. \A k \in 1..Len(rows) : ref \in rows[k].refs
    BY <1>1, <1>4, <1>8 DEF ItemsFor
  <2>4. RowsOf(rows, ref) = rows
    BY <1>3, <2>3, ReferringAll
  <2>5. RowsOf(s \o rows, ref) = rows
    BY <1>3, <1>6, <2>2, <2>4
  <2>6. QED
    BY <1>1, <1>2, <1>4, <1>8, <2>5
<1>9. CASE o # id
  <2>1. \A k \in 1..Len(rows) : ref \notin rows[k].refs
    <3>1. \A k \in 1..Len(rows) : \A r \in rows[k].refs :
              r = Ref("orders", id) \/ r.table = "products"
      BY <1>1 DEF ItemsFor
    <3>2. Ref("orders", id).id = id
      BY DEF Ref
    <3>3. QED
      BY <1>5, <1>9, <3>1, <3>2
  <2>2. RowsOf(rows, ref) = <<>>
    BY <1>3, <2>1, ReferringNone
  <2>3. RowsOf(s \o rows, ref) = RowsOf(s, ref)
    BY <1>6, <1>7, <2>2
  <2>4. QED
    BY <1>1, <1>2, <1>4, <1>9, <2>3
<1>10. QED
  BY <1>8, <1>9

LEMMA AddOrderPays == ScriptInv /\ PayInv /\ AddOrder => PayInv'
<1> SUFFICES ASSUME ScriptInv, PayInv, AddOrder PROVE PayInv'
  OBVIOUS
<1>1. PICK customer \in 1..NCustomers, status \in Statuses, rows \in Seq(ItemRow) :
          \E payment \in PaymentStatuses(status) :
              ItemsFor(Len(orderRows) + 1, rows) /\ AddedOrder(customer, status, rows, payment)
  BY OrderAdded
<1>2. PICK payment \in PaymentStatuses(status) :
          ItemsFor(Len(orderRows) + 1, rows) /\ AddedOrder(customer, status, rows, payment)
  BY <1>1
<1>3. PICK len \in Nat : len = Len(orderRows)
  BY DEF ScriptInv, Kept
<1>4. PICK m \in Nat : m = Len(paymentRows)
  BY DEF ScriptInv, Kept
<1>5. PICK order : order = SeedRow(len + 1, {Ref("customers", customer)}, status, 0)
  OBVIOUS
<1>6. PICK paid : paid = SeedRow(m + 1, {Ref("orders", len + 1)}, payment, OrderTotal(rows))
  OBVIOUS
<1>7. /\ orderRows' = Append(orderRows, order) /\ itemRows' = itemRows \o rows
      /\ paymentRows' = IF payment = "none" THEN paymentRows ELSE Append(paymentRows, paid)
  BY <1>2, <1>3, <1>4, <1>5, <1>6 DEF AddedOrder
<1>8. ASSUME NEW A, NEW s \in Seq(A), NEW n \in Nat, n = Len(s), NEW x, NEW t, t = Append(s, x)
      PROVE  Len(t) = n + 1 /\ t[n + 1] = x /\ \A i \in 1..n : t[i] = s[i]
  <2>1. s \in Seq(A \cup {x})
    OBVIOUS
  <2>2. QED
    BY <1>8, <2>1
<1>9. orderRows \in Seq(Row) /\ paymentRows \in Seq(Row)
  BY DEF ScriptInv, Kept
<1>10. /\ Len(orderRows') = len + 1 /\ orderRows'[len + 1] = order
       /\ \A o \in 1..len : orderRows'[o] = orderRows[o]
  BY <1>3, <1>7, <1>8, <1>9
<1>11. order.status = status
  BY <1>5 DEF SeedRow
<1>12. \A o \in 1..len : RowsOf(itemRows', Ref("orders", o)) = RowsOf(itemRows, Ref("orders", o))
  <2>1. ASSUME NEW o \in 1..len
        PROVE  RowsOf(itemRows', Ref("orders", o)) = RowsOf(itemRows, Ref("orders", o))
    <3>1. o \in 1..(Len(orderRows) + 1) /\ o # Len(orderRows) + 1
      BY <1>3
    <3>2. QED
      BY <1>2, <1>7, <3>1, ItemsOfOlder
  <2>2. QED
    BY <2>1
<1>13. RowsOf(itemRows', Ref("orders", len + 1)) = rows
  <2>1. /\ ItemsFor(Len(orderRows) + 1, rows) /\ itemRows' = itemRows \o rows
        /\ Len(orderRows) + 1 \in 1..(Len(orderRows) + 1)
    BY <1>2, <1>3, <1>7
  <2>2. RowsOf(itemRows', Ref("orders", Len(orderRows) + 1)) = rows
    BY <2>1, ItemsOfOlder
  <2>3. QED
    BY <1>3, <2>2
<1>14. \A p : \A o \in 1..len :
           PaysFor(p, o, orderRows, itemRows) => PaysFor(p, o, orderRows', itemRows')
  BY <1>10, <1>12 DEF PaysFor
<1>15. \A o \in 1..(len + 1) : o \in 1..len \/ o = len + 1
  OBVIOUS
<1>16. \A o \in 1..(len + 1) : orderRows'[o].status \in Statuses
  BY <1>3, <1>10, <1>11, <1>15 DEF PayInv
<1>17. ASSUME NEW i \in 1..m
       PROVE  \E o \in 1..len : /\ PaysFor(paymentRows[i], o, orderRows, itemRows)
                              /\ PaysFor(paymentRows[i], o, orderRows', itemRows')
  BY <1>3, <1>4, <1>14, <1>17 DEF PayInv
<1>18. CASE payment = "none"
  <2>1. paymentRows' = paymentRows /\ status \notin {"completed", "refunded"}
    BY <1>2, <1>7, <1>18, OutcomesAre
  <2>2. \A i \in 1..m : \E o \in 1..(len + 1) : PaysFor(paymentRows[i], o, orderRows', itemRows')
    <3>1. 1..len \subseteq 1..(len + 1)
      OBVIOUS
    <3>2. QED
      BY <1>17, <3>1
  <2>3. \A i \in 1..Len(paymentRows') :
            \E o \in 1..Len(orderRows') : PaysFor(paymentRows[i], o, orderRows', itemRows')
    BY <1>4, <1>10, <2>1, <2>2
  <2>4. \A o \in 1..(len + 1) :
            orderRows'[o].status \in {"completed", "refunded"} =>
                \E i \in 1..m : paymentRows[i].refs = {Ref("orders", o)}
    BY <1>3, <1>4, <1>10, <1>11, <1>15, <2>1 DEF PayInv
  <2>5. \A i, j \in 1..m : paymentRows[i].refs = paymentRows[j].refs => i = j
    BY <1>4 DEF PayInv
  <2>6. QED
    BY ZenonT(40), <1>4, <1>10, <1>16, <2>1, <2>3, <2>4, <2>5 DEF PayInv, PaysFor
<1>19. CASE payment # "none"
  <2>1. /\ Len(paymentRows') = m + 1 /\ paymentRows'[m + 1] = paid
        /\ \A i \in 1..m : paymentRows'[i] = paymentRows[i]
    BY <1>4, <1>7, <1>8, <1>9, <1>19
  <2>2. paid.refs = {Ref("orders", len + 1)} /\ paid.status = payment /\ paid.amount = OrderTotal(rows)
    BY <1>6 DEF SeedRow
  <2>3. PaysFor(paid, len + 1, orderRows', itemRows')
    BY <1>2, <1>10, <1>11, <1>13, <1>19, <2>2 DEF PaysFor, Outcomes
  <2>4. \A i \in 1..(m + 1) : i \in 1..m \/ i = m + 1
    OBVIOUS
  <2>5. ASSUME NEW i \in 1..(m + 1)
        PROVE  \E o \in 1..(len + 1) : PaysFor(paymentRows'[i], o, orderRows', itemRows')
    <3>1. CASE i \in 1..m
      <4>1. PICK o \in 1..len : PaysFor(paymentRows[i], o, orderRows', itemRows')
        BY <1>17, <3>1
      <4>2. PaysFor(paymentRows'[i], o, orderRows', itemRows')
        BY <2>1, <3>1, <4>1
      <4>3. o \in 1..(len + 1)
        OBVIOUS
      <4>4. QED
        BY <4>2, <4>3
    <3>2. CASE i = m + 1
      BY <2>1, <2>3, <3>2
    <3>3. QED
      BY <2>4, <3>1, <3>2
  <2>6. \A i \in 1..m : paymentRows[i].refs # paid.refs
    <3>1. ASSUME NEW i \in 1..m, paymentRows[i].refs = paid.refs PROVE FALSE
      <4>1. PICK o \in 1..len : paymentRows[i].refs = {Ref("orders", o)}
        BY <1>17 DEF PaysFor
      <4>2. o = len + 1
        BY <2>2, <3>1, <4>1, RefInjective
      <4>3. QED
        BY <4>2
    <3>2. QED
      BY <3>1
  <2>7. \A i, j \in 1..(m + 1) : paymentRows'[i].refs = paymentRows'[j].refs => i = j
    <3>1. \A i, j \in 1..m : paymentRows[i].refs = paymentRows[j].refs => i = j
      BY <1>4 DEF PayInv
    <3>2. QED
      BY <2>1, <2>4, <2>6, <3>1
  <2>8. ASSUME NEW o \in 1..(len + 1), orderRows'[o].status \in {"completed", "refunded"}
        PROVE  \E i \in 1..(m + 1) : paymentRows'[i].refs = {Ref("orders", o)}
    <3>1. CASE o \in 1..len
      <4>1. PICK i \in 1..m : paymentRows[i].refs = {Ref("orders", o)}
        BY <1>3, <1>4, <1>10, <2>8, <3>1 DEF PayInv
      <4>2. i \in 1..(m + 1)
        OBVIOUS
      <4>3. QED
        BY <2>1, <4>1, <4>2
    <3>2. CASE o = len + 1
      <4>1. m + 1 \in 1..(m + 1)
        OBVIOUS
      <4>2. QED
        BY <2>1, <2>2, <3>2, <4>1
    <3>3. QED
      BY <1>15, <3>1, <3>2
  <2>9. QED
    BY ZenonT(40), <1>10, <1>16, <2>1, <2>5, <2>7, <2>8 DEF PayInv, PaysFor
<1>20. QED
  BY <1>18, <1>19

LEMMA PayStart == SeedInit => PayInv
<1> SUFFICES ASSUME SeedInit PROVE PayInv
  OBVIOUS
<1>1. orderRows = <<>> /\ paymentRows = <<>>
  BY DEF SeedInit
<1>2. QED
  BY <1>1 DEF PayInv

LEMMA PayInvariant == SeedSpec => []PayInv
<1>1. ScriptInv /\ PayInv /\ [SeedNext]_seedVars => PayInv'
  <2> SUFFICES ASSUME ScriptInv, PayInv, [SeedNext]_seedVars PROVE PayInv'
    OBVIOUS
  <2>1. CASE AddOrder
    BY <2>1, AddOrderPays
  <2>2. CASE UNCHANGED <<orderRows, itemRows, paymentRows>>
    BY <2>2 DEF PayInv
  <2>3. QED
    BY <2>1, <2>2 DEF SeedNext, seedVars, EmitReference, EmitSuppliers, EmitProducts,
       EmitCustomers, EmitSales, EmitReviews, ResetSequences
<1>2. QED
  BY <1>1, PayStart, ScriptInvariant, PTL DEF SeedSpec

(* The payments of an order.                                                *)
LEMMA PaidOnce ==
    ASSUME ScriptInv, PayInv, NEW o \in 1..Len(orderRows), NEW paid,
           paid = {p \in Range(paymentRows) : Ref("orders", o) \in p.refs}
    PROVE  /\ \A p \in paid : PaysFor(p, o, orderRows, itemRows)
           /\ Cardinality(paid) <= 1
           /\ orderRows[o].status \in {"completed", "refunded"} => paid # {}
<1>1. DOMAIN paymentRows = 1..Len(paymentRows)
  BY DEF ScriptInv, Kept
<1>2. ASSUME NEW p \in paid
      PROVE  \E i \in 1..Len(paymentRows) :
                 p = paymentRows[i] /\ PaysFor(p, o, orderRows, itemRows)
  <2>1. PICK i \in 1..Len(paymentRows) : p = paymentRows[i]
    BY <1>1, <1>2 DEF Range
  <2>2. PICK a \in 1..Len(orderRows) : PaysFor(p, a, orderRows, itemRows)
    BY <2>1 DEF PayInv
  <2>3. {Ref("orders", o)} = {Ref("orders", a)}
    BY <1>2, <2>2 DEF PaysFor
  <2>4. a = o
    BY <2>3, RefInjective
  <2>5. QED
    BY <2>1, <2>2, <2>4
<1>3. \A p, q \in paid : p = q
  <2>1. ASSUME NEW p \in paid, NEW q \in paid PROVE p = q
    <3>1. PICK i \in 1..Len(paymentRows) : p = paymentRows[i] /\ p.refs = {Ref("orders", o)}
      BY <1>2 DEF PaysFor
    <3>2. PICK j \in 1..Len(paymentRows) : q = paymentRows[j] /\ q.refs = {Ref("orders", o)}
      BY <1>2 DEF PaysFor
    <3>3. i = j
      BY <3>1, <3>2 DEF PayInv
    <3>4. QED
      BY <3>1, <3>2, <3>3
  <2>2. QED
    BY <2>1
<1>4. Cardinality(paid) <= 1
  <2>1. CASE paid = {}
    BY <2>1, FS_EmptySet
  <2>2. CASE paid # {}
    <3>1. PICK p : paid = {p}
      BY <1>3, <2>2
    <3>2. Cardinality(paid) = 1
      BY <3>1, FS_Singleton, Zenon
    <3>3. QED
      BY <3>2
  <2>3. QED
    BY <2>1, <2>2
<1>5. ASSUME orderRows[o].status \in {"completed", "refunded"} PROVE paid # {}
  <2>1. PICK i \in 1..Len(paymentRows) : paymentRows[i].refs = {Ref("orders", o)}
    BY <1>5 DEF PayInv
  <2>2. paymentRows[i] \in paid
    BY <1>1, <2>1 DEF Range
  <2>3. QED
    BY <2>2
<1>6. QED
  BY <1>2, <1>4, <1>5

(* A payment is for what the items of its order come to and says what       *)
(* became of the order; an order that was completed or refunded has one     *)
(* payment, any other at most a failed one.                                 *)
THEOREM PaymentsAgree == SeedSpec => []PaymentsAgreeWithOrders
<1>1. ScriptInv /\ PayInv => PaymentsAgreeWithOrders
  <2> SUFFICES ASSUME ScriptInv, PayInv PROVE PaymentsAgreeWithOrders
    OBVIOUS
  <2>1. DOMAIN orderRows = 1..Len(orderRows)
    BY DEF ScriptInv, Kept
  <2>2. ASSUME NEW o \in DOMAIN orderRows, NEW order, order = orderRows[o],
               NEW paid, paid = {p \in Range(paymentRows) : Ref("orders", order.id) \in p.refs}
        PROVE  /\ Cardinality(paid) <= 1
               /\ {p.status : p \in paid} \subseteq
                      (CASE order.status = "completed" -> {"captured"}
                         [] order.status = "refunded" -> {"refunded"}
                         [] order.status = "pending" -> {"failed"}
                         [] order.status = "cancelled" -> {})
               /\ order.status \in {"completed", "refunded"} => paid # {}
               /\ \A p \in paid :
                      p.amount = OrderTotal(RowsOf(itemRows, Ref("orders", order.id)))
    <3>1. order.id = o /\ order.status \in Statuses /\ o \in 1..Len(orderRows)
      BY <2>1, <2>2 DEF ScriptInv, Kept, PayInv
    <3>2. /\ \A p \in paid : PaysFor(p, o, orderRows, itemRows)
          /\ Cardinality(paid) <= 1
          /\ order.status \in {"completed", "refunded"} => paid # {}
      BY <2>2, <3>1, PaidOnce
    <3>3. {p.status : p \in paid} \subseteq Outcomes(order.status)
      BY <2>2, <3>2 DEF PaysFor
    <3>4. Outcomes(order.status) = (CASE order.status = "completed" -> {"captured"}
                                      [] order.status = "refunded" -> {"refunded"}
                                      [] order.status = "pending" -> {"failed"}
                                      [] order.status = "cancelled" -> {})
      BY <3>1, OutcomesAre DEF Statuses
    <3>5. \A p \in paid : p.amount = OrderTotal(RowsOf(itemRows, Ref("orders", order.id)))
      BY <3>1, <3>2 DEF PaysFor
    <3>6. QED
      BY <3>2, <3>3, <3>4, <3>5
  <2>3. QED
    BY <2>2 DEF PaymentsAgreeWithOrders
<1>2. QED
  BY <1>1, ScriptInvariant, PayInvariant, PTL
=============================================================================
