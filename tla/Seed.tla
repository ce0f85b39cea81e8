-------------------------------- MODULE Seed --------------------------------
(***************************************************************************)
(* scripts/generate_seed.py: main writes the script that the database      *)
(* container loads over db/01_schema.sql, statement by statement in one    *)
(* transaction.  A row is its key, the keys it references and, for sales,  *)
(* its status and its amount; names, dates and channels are left out, and a*)
(* draw of the generator is any value of its range.                        *)
(* X_Y marked "slip" is X with a mistake the properties must notice.       *)
(***************************************************************************)
EXTENDS Naturals, FiniteSets, SequencesExt

CONSTANTS
    NRegions, CountryRegion, CategoryParent,       \* REGIONS, COUNTRIES, CATEGORIES
    NSuppliers, NProducts, NCustomers, NOrders,    \* N_SUPPLIERS, ...
    MaxItems, Quantities,                          \* n_items and qty of an order
    Discounts,                                     \* discount of an item, in percent
    ProdPrices,                                    \* prod_prices
    Chunk                                          \* rows per INSERT of _emit_bulk

ASSUME SeedAssumption ==
    /\ {NRegions, NSuppliers, NProducts, NCustomers, MaxItems, Chunk} \subseteq Nat \ {0}
    /\ NOrders \in Nat
    /\ CountryRegion \in Seq(1..NRegions) /\ CountryRegion # <<>>
    /\ CategoryParent \in Seq(0..Len(CategoryParent)) /\ CategoryParent # <<>>
    /\ Quantities \subseteq Nat \ {0} /\ Discounts \subseteq 0..100
    /\ ProdPrices \in [1..NProducts -> Nat]

VARIABLES
    seedPc,           \* the part of main that runs next
    lines,            \* the statements of the script so far
    orderRows, itemRows, paymentRows

seedVars == <<seedPc, lines, orderRows, itemRows, paymentRows>>

Statuses == {"completed", "pending", "cancelled", "refunded"}
Tables == <<"regions", "countries", "categories", "suppliers", "products", "customers",
            "orders", "order_items", "payments", "reviews">>

Ref(table, id) == [table |-> table, id |-> id]
SeedRow(id, refs, status, amount) ==
    [id |-> id, refs |-> refs, status |-> status, amount |-> amount]
PlainRow(id, refs) == SeedRow(id, refs, "none", 0)

Insert(table, rows) == [op |-> "insert", table |-> table, rows |-> rows]
SetVal(table) == [op |-> "setval", table |-> table, rows |-> <<>>]

(* Rows numbered from one, refs[i] the keys that row i references.            *)
InsertPlain(table, refs) ==
    <<Insert(table, [i \in DOMAIN refs |-> PlainRow(i, refs[i])])>>
-----------------------------------------------------------------------------
SeedInit ==
    /\ seedPc = "reference"
    /\ lines = <<>>
    /\ orderRows = <<>> /\ itemRows = <<>> /\ paymentRows = <<>>

Appends(from, to, statements) ==
    /\ seedPc = from /\ seedPc' = to
    /\ lines' = lines \o statements

Countries == 1..Len(CountryRegion)

(* Parents and children of categories come in one statement.                  *)
EmitReference ==
    /\ Appends("reference", "suppliers",
           InsertPlain("regions", [i \in 1..NRegions |-> {}])
           \o InsertPlain("countries", [i \in Countries |-> {Ref("regions", CountryRegion[i])}])
           \o InsertPlain("categories",
                  [i \in DOMAIN CategoryParent |->
                      {Ref("categories", p) : p \in {CategoryParent[i]} \ {0}}]))
    /\ UNCHANGED <<orderRows, itemRows, paymentRows>>

EmitSuppliers ==
    /\ \E country \in [1..NSuppliers -> Countries] :
           Appends("suppliers", "products",
               InsertPlain("suppliers",
                   [i \in 1..NSuppliers |-> {Ref("countries", country[i])}]))
    /\ UNCHANGED <<orderRows, itemRows, paymentRows>>

SupplierOf_ByCountry == Countries                          \* slip: randint(1, n_countries)
SupplierOf == 1..NSuppliers

EmitProducts ==
    /\ \E category \in [1..NProducts -> DOMAIN CategoryParent],
          supplier \in [1..NProducts -> SupplierOf] :
           Appends("products", "customers",
               InsertPlain("products",
                   [i \in 1..NProducts |->
                       {Ref("categories", category[i]), Ref("suppliers", supplier[i])}]))
    /\ UNCHANGED <<orderRows, itemRows, paymentRows>>

EmitCustomers ==
    /\ \E country \in [1..NCustomers -> Countries] :
           Appends("customers", "orders",
               InsertPlain("customers",
                   [i \in 1..NCustomers |-> {Ref("countries", country[i])}]))
    /\ UNCHANGED <<orderRows, itemRows, paymentRows>>

(* The items of order id, numbered on from those of the orders before it, with*)
(* what the quantity, the price and the discount in a row come to, in percents*)
(* of the unit of a price.                                                    *)
Item == [product : 1..NProducts, quantity : Quantities, discount : Discounts]
Net(item) == item.quantity * ProdPrices[item.product] * (100 - item.discount)
ItemsOf(id, items) ==
    [k \in DOMAIN items |->
        SeedRow(Len(itemRows) + k,
                {Ref("orders", id), Ref("products", items[k].product)}, "none",
                Net(items[k]))]

(* What an item adds to order_total, kept apart from its row as in the code.  *)
Charged_Full(item) ==                                      \* slip: discount forgotten
    item.quantity * ProdPrices[item.product] * 100
Charged(item) == item.quantity * ProdPrices[item.product] * (100 - item.discount)

OrderTotal(rows) == FoldSeq(LAMBDA row, total : total + row.amount, 0, rows)

(* Captured, refunded, failed for half of the pending orders, or none.        *)
PaymentStatuses_Cancelled(status) ==                       \* slip: else, not elif
    CASE status = "refunded" -> {"refunded"}
      [] status = "completed" -> {"captured"}
      [] OTHER -> {"failed", "none"}
PaymentStatuses(status) ==
    CASE status = "refunded" -> {"refunded"}
      [] status = "completed" -> {"captured"}
      [] status = "pending" -> {"failed", "none"}
      [] status = "cancelled" -> {"none"}

AddOrder ==
    /\ seedPc = "orders" /\ Len(orderRows) < NOrders
    /\ \E customer \in 1..NCustomers, status \in Statuses, n \in 1..MaxItems :
       \E items \in [1..n -> Item], payment \in PaymentStatuses(status) :
           LET id == Len(orderRows) + 1
               rows == ItemsOf(id, items)
               charged == [k \in 1..n |-> [rows[k] EXCEPT !.amount = Charged(items[k])]]
           IN  /\ orderRows' = Append(orderRows,
                                      SeedRow(id, {Ref("customers", customer)}, status, 0))
               /\ itemRows' = itemRows \o rows
               /\ paymentRows' = IF payment = "none" THEN paymentRows
                                 ELSE Append(paymentRows,
                                             SeedRow(Len(paymentRows) + 1, {Ref("orders", id)},
                                                     payment, OrderTotal(charged)))
    /\ UNCHANGED <<seedPc, lines>>

(* _emit_bulk: INSERTs of at most Chunk rows.                                 *)
Chunks_Full(rows) == Len(rows) \div Chunk                  \* slip: the rest is lost
Chunks(rows) == (Len(rows) + Chunk - 1) \div Chunk
EmitBulk(table, rows) ==
    [k \in 1..Chunks(rows) |->
        Insert(table, SubSeq(rows, (k - 1) * Chunk + 1,
                             IF k * Chunk < Len(rows) THEN k * Chunk ELSE Len(rows)))]

EmitSales ==
    /\ Len(orderRows) = NOrders
    /\ Appends("orders", "reviews",
           EmitBulk("orders", orderRows) \o EmitBulk("order_items", itemRows)
           \o EmitBulk("payments", paymentRows))
    /\ UNCHANGED <<orderRows, itemRows, paymentRows>>

EmitReviews ==
    /\ \E about \in [1..(NOrders \div 3) -> (1..NProducts) \X (1..NCustomers)] :
           Appends("reviews", "sequences",
               EmitBulk("reviews", [i \in DOMAIN about |->
                   PlainRow(i, {Ref("products", about[i][1]), Ref("customers", about[i][2])})]))
    /\ UNCHANGED <<orderRows, itemRows, paymentRows>>

ResetTables_BulkForgotten == SubSeq(Tables, 1, 6)          \* slip: list not extended
ResetTables == Tables

(* setval to the largest key, COMMIT, and the file is written.                *)
ResetSequences ==
    /\ Appends("sequences", "written", [t \in DOMAIN ResetTables |-> SetVal(ResetTables[t])])
    /\ UNCHANGED <<orderRows, itemRows, paymentRows>>

SeedNext == \/ EmitReference \/ EmitSuppliers \/ EmitProducts \/ EmitCustomers
            \/ AddOrder \/ EmitSales \/ EmitReviews \/ ResetSequences

SeedSpec == SeedInit /\ [][SeedNext]_seedVars
-----------------------------------------------------------------------------
(* Properties *)

(* The rows statements 1 to n put into a table.                               *)
Loaded(table, n) ==
    FlattenSeq([i \in 1..n |-> IF lines[i].table = table THEN lines[i].rows ELSE <<>>])
Ids(rows) == {rows[i].id : i \in DOMAIN rows}

(* The keys statements 1 to n put into a table.                               *)
LoadedIds(table, n) ==
    UNION {Ids(lines[m].rows) : m \in {k \in 1..n : lines[k].table = table}}

(* The script loads: each statement references only rows that it or an earlier*)
(* statement inserts, as the foreign keys of 01_schema.sql demand.            *)
ReferencesResolve ==
    \A n \in DOMAIN lines : \A i \in DOMAIN lines[n].rows :
        \A ref \in lines[n].rows[i].refs : ref.id \in LoadedIds(ref.table, n)

(* The next value of a sequence: 1, or past the largest key setval found. *)
NextValue(table) ==
    LET sets == {n \in DOMAIN lines : lines[n] = SetVal(table)}
    IN  IF sets = {} THEN 1
        ELSE Len(Loaded(table, CHOOSE n \in sets : \A m \in sets : m <= n)) + 1

(* No row is lost or repeated by the chunks, and no INSERT is without rows:   *)
(* what the finished script inserts are the rows main made, numbered from one.*)
(* "So future manual inserts don't collide", the sequences are past the keys. *)
EachRowInsertedOnce ==
    seedPc = "written" =>
        /\ \A n \in DOMAIN lines : lines[n].op = "insert" => lines[n].rows # <<>>
        /\ Loaded("orders", Len(lines)) = orderRows
        /\ Loaded("order_items", Len(lines)) = itemRows
        /\ Loaded("payments", Len(lines)) = paymentRows
        /\ \A t \in DOMAIN Tables :
               LET rows == Loaded(Tables[t], Len(lines))
               IN  /\ \A i \in DOMAIN rows : rows[i].id = i
                   /\ NextValue(Tables[t]) > Len(rows)

(* The rows that reference a key, in their order.                             *)
RowsOf(rows, ref) ==
    FlattenSeq([i \in DOMAIN rows |-> IF ref \in rows[i].refs THEN <<rows[i]>> ELSE <<>>])

(* A payment is for what the rows of the items of its order come to, discounts*)
(* included, and says what became of the order: an order has one payment if it*)
(* was completed or refunded, and at most a failed one otherwise.             *)
PaymentsAgreeWithOrders ==
    /\ \A o \in DOMAIN orderRows :
           LET order == orderRows[o]
               paid == {p \in Range(paymentRows) : Ref("orders", order.id) \in p.refs}
           IN  /\ Cardinality(paid) <= 1
               /\ {p.status : p \in paid} \subseteq
                      (CASE order.status = "completed" -> {"captured"}
                         [] order.status = "refunded" -> {"refunded"}
                         [] order.status = "pending" -> {"failed"}
                         [] order.status = "cancelled" -> {})
               /\ order.status \in {"completed", "refunded"} => paid # {}
               /\ \A p \in paid :
                      p.amount = OrderTotal(RowsOf(itemRows, Ref("orders", order.id)))
=============================================================================
