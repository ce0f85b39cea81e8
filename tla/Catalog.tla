------------------------------ MODULE Catalog -------------------------------
(***************************************************************************)
(* From the catalog of the database to the text the LLM is given: the      *)
(* joins of _INTROSPECTION_SQL over information_schema, the grouping of    *)
(* its rows in _introspect, and DatabaseSchema.render_for_prompt.  Data    *)
(* types and comments, which are copied, are left out.                     *)
(* X_Y marked "slip" is X with a mistake the properties must notice.       *)
(***************************************************************************)
EXTENDS Naturals, FiniteSets, SequencesExt

(* A database, as the role of DATABASE_URL sees it:                           *)
(*   tables  the public tables in name order, columns in ordinal order        *)
(*   keys    PRIMARY KEY and FOREIGN KEY constraints; refs: the columns they  *)
(*           point to (a primary key: its own)                                *)
(*   owned   the tables the role owns; on others it has SELECT at most        *)
ColumnRef(table, column) == [table |-> table, column |-> column]
NoRef == ColumnRef("", "")

Key(name, primary, table, columns, refs) ==
    [name |-> name, primary |-> primary, table |-> table, columns |-> columns, refs |-> refs]

(* What PostgreSQL ensures of one whose keys, as those of 01_schema.sql, point*)
(* to public tables; a table without columns has no rows in the query.        *)
IsDatabase(db) ==
    LET names == {db.tables[t].name : t \in DOMAIN db.tables}
    IN  /\ db.tables \in Seq([name : STRING,
                              columns : Seq([name : STRING, nullable : BOOLEAN]) \ {<<>>}])
        /\ \A t, u \in DOMAIN db.tables : db.tables[t].name = db.tables[u].name => t = u
        /\ IsFiniteSet(db.keys)
        /\ \A k \in db.keys :
               /\ IsFiniteSet(k.columns) /\ IsFiniteSet(k.refs)
               /\ {ref.table : ref \in k.refs} \subseteq names
               /\ ~k.primary /\ Cardinality(k.columns) = 1 => Cardinality(k.refs) = 1
        /\ \A j, k \in db.keys : j.primary /\ k.primary /\ j.table = k.table => j = k

(* information_schema lists a constraint only to a role with more than SELECT *)
(* on its table, what it points to only to the owner of the table pointed to, *)
(* and the columns it is made of to everybody who may read them.              *)
TableConstraints(db) == {k \in db.keys : k.table \in db.owned}

KeyColumnUsage(db) ==
    UNION {{[name |-> k.name, table |-> k.table, column |-> c] : c \in k.columns} :
               k \in db.keys}

ConstraintColumnUsage(db) ==
    UNION {{[name |-> k.name, ref |-> ref] : ref \in {to \in k.refs : to.table \in db.owned}} :
               k \in db.keys}
-----------------------------------------------------------------------------
(* The two subqueries: rows with their multiplicity, joined by name only.     *)
PkRows(db) ==
    {p \in TableConstraints(db) \X KeyColumnUsage(db) :
        p[1].primary /\ p[2].name = p[1].name}

FkRows(db) ==
    {f \in TableConstraints(db) \X KeyColumnUsage(db) \X ConstraintColumnUsage(db) :
        ~f[1].primary /\ f[2].name = f[1].name /\ f[3].name = f[1].name}

(* The side of a LEFT JOIN that may be missing.                               *)
OrNull(matches, null) == IF matches = {} THEN {null} ELSE matches

Joined_ColumnOnly(key, table, column) == key.column = column   \* slip: any table
Joined(key, table, column) == key.table = table /\ key.column = column

(* The rows of one column: more than one if several keys match.               *)
ColumnRows(db, table, column) ==
    LET pks == {p \in PkRows(db) : Joined(p[2], table, column.name)}
        fks == {f \in FkRows(db) : Joined(f[2], table, column.name)}
        pairs == OrNull(pks, <<>>) \X OrNull(fks, <<>>)
    IN  SetToSeq({[table |-> table, column |-> column.name, nullable |-> column.nullable,
                   pk |-> pair[1] # <<>>,
                   ref |-> IF pair[2] = <<>> THEN NoRef ELSE pair[2][3].ref,
                   from |-> pair] : pair \in pairs})

IntrospectionRows(db) ==
    FlattenSeq([t \in DOMAIN db.tables |->
        FlattenSeq([c \in DOMAIN db.tables[t].columns |->
            ColumnRows(db, db.tables[t].name, db.tables[t].columns[c])])])

(* The rows at some positions, in their order.                                *)
Picked(rows, positions) ==
    FlattenSeq([i \in DOMAIN rows |-> IF i \in positions THEN <<rows[i]>> ELSE <<>>])

(* tables_cols: a dict keeps the order in which its keys first came.          *)
GroupedBy(rows, heads) ==
    [n \in DOMAIN heads |->
        [name |-> heads[n].table,
         columns |-> Picked(rows, {i \in DOMAIN rows : rows[i].table = heads[n].table})]]
Grouped_Consecutive(rows) ==                               \* slip: the last table is lost
    GroupedBy(rows, Picked(rows, {i \in DOMAIN rows :
                                     i < Len(rows) /\ rows[i + 1].table # rows[i].table}))
Grouped(rows) ==
    GroupedBy(rows, Picked(rows, {i \in DOMAIN rows :
                                     \A j \in 1..(i - 1) : rows[j].table # rows[i].table}))

(* A column's line; NOT NULL is not said of a primary key.                    *)
Line(column, pk, nullable, ref) ==
    [column |-> column, pk |-> pk, notNull |-> ~nullable /\ ~pk, ref |-> ref]

RenderForPrompt(schema) ==
    [t \in DOMAIN schema |->
        [table |-> schema[t].name,
         lines |-> [c \in DOMAIN schema[t].columns |->
                       LET col == schema[t].columns[c]
                       IN  Line(col.column, col.pk, col.nullable, col.ref)]]]

(* What build_messages puts into the user message for a database.             *)
Prompt(db) == RenderForPrompt(Grouped(IntrospectionRows(db)))
-----------------------------------------------------------------------------
(* Reference definitions: the text a database should give.                    *)

KeysOf(db, table, column, primary) ==
    {k \in db.keys : k.primary = primary /\ k.table = table /\ column \in k.columns}

DescribedColumn(db, table, column) ==
    LET fks == KeysOf(db, table, column.name, FALSE)
    IN  Line(column.name, KeysOf(db, table, column.name, TRUE) # {}, column.nullable,
             IF fks = {} THEN NoRef
             ELSE CHOOSE ref \in UNION {k.refs : k \in fks} : TRUE)

Described(db) ==
    [t \in DOMAIN db.tables |->
        [table |-> db.tables[t].name,
         lines |-> [c \in DOMAIN db.tables[t].columns |->
                       DescribedColumn(db, db.tables[t].name, db.tables[t].columns[c])]]]

(* The databases the note in the introspection query has in mind, with names  *)
(* told apart: constraint names do not repeat, a foreign key has one column,  *)
(* and a column has one of them.                                              *)
PlainKeys(db) ==
    /\ \A j, k \in db.keys : j.name = k.name => j = k
    /\ \A k \in db.keys : ~k.primary => Cardinality(k.columns) = 1
    /\ \A j, k \in db.keys : ~j.primary /\ ~k.primary /\ j.table = k.table
                                 /\ j.columns = k.columns => j = k
=============================================================================
