SPECIFICATION FairSchemaSpec
CONSTANTS
    Requests = {r1, r2, r3}
    Conns = {c1, c2}
    Nobody = Nobody
    NoSchema = NoSchema
    CacheModes = {TRUE, FALSE}
    MaxVersion = 1
INVARIANTS
    SchemaInv
    FreshWhenUncached
PROPERTIES
    CacheSettles
    SchemaCallsComplete
    ImplementsContract
