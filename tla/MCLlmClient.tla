---------------------------- MODULE MCLlmClient -----------------------------
(* Two tables of two columns under every mix of a simple or composite primary *)
(* key, one or two foreign keys, some under one name, and a role that owns    *)
(* all, one or none of the tables; and a reply for every branch of the client.*)
EXTENDS LlmClient

Table(name, columns) ==
    [name |-> name, columns |-> [c \in DOMAIN columns |->
                                    [name |-> columns[c], nullable |-> columns[c] = "note"]]]
MCTables == <<Table("countries", <<"id", "note">>), Table("customers", <<"id", "country">>)>>

Own(name, table, columns) ==
    Key(name, TRUE, table, columns, {ColumnRef(table, c) : c \in columns})
CountryId == Own("countries_pkey", "countries", {"id"})
CustomerId == Own("customers_pkey", "customers", {"id"})
BothColumns == Own("customers_pkey", "customers", {"id", "country"})
OfCountry(name) ==
    Key(name, FALSE, "customers", {"country"}, {ColumnRef("countries", "id")})
OfNote(name) == Key(name, FALSE, "countries", {"note"}, {ColumnRef("customers", "id")})
Composite == Key("pair_fkey", FALSE, "customers", {"id", "country"},
                 {ColumnRef("countries", "id"), ColumnRef("countries", "note")})

MCKeys == {{}, {CountryId}, {CountryId, CustomerId, OfCountry("fk")},
           {CountryId, BothColumns, OfCountry("fk")},
           {CountryId, CustomerId, OfCountry("fk"), OfNote("other_fk")},
           {CountryId, CustomerId, OfCountry("fk"), OfNote("fk")},
           {CountryId, CustomerId, OfCountry("countries_pkey")},
           {CountryId, CustomerId, Composite}}
MCDatabases ==
    [tables : {MCTables}, keys : MCKeys,
     owned : {{}, {"customers"}, {"countries", "customers"}}]
(* The databases db/01_schema.sql makes, for the role of docker-compose.yml.  *)
MCReadOnlyRole ==
    {[tables |-> MCTables, keys |-> {CountryId, CustomerId, OfCountry("fk")}, owned |-> {}]}

Usage(prompt, completion, total) ==
    [k \in TokenKinds |-> CASE k = "prompt" -> prompt
                             [] k = "completion" -> completion
                             [] k = "total" -> total]
NoUsage == Usage("absent", "absent", "absent")
AllCounted == Usage("counted", "counted", "counted")
FirstRejected == Usage("rejected", "counted", "counted")
HalfRecorded == Usage("counted", "rejected", "counted")

NoReply(post) == [post |-> post, holds |-> "not_json", json |-> "none",
                  fence |-> "none", usage |-> NoUsage]
Body(holds, json, fence, usage) ==
    [post |-> "answered", holds |-> holds, json |-> json, fence |-> fence, usage |-> usage]

MCReplies ==
    {NoReply(post) : post \in {"timeout", "transport", "unexpected", "http_error"}}
    \cup {Body(holds, "none", "none", NoUsage) :
              holds \in {"undecodable", "not_json", "no_text"}}
    \cup {Body("text", "sql", "sql", AllCounted), Body("text", "blank_sql", "sql", AllCounted),
          Body("text", "other", "sql", NoUsage), Body("text", "none", "blank", NoUsage),
          Body("text", "sql", "none", HalfRecorded), Body("text", "sql", "none", FirstRejected)}
=============================================================================
