SPECIFICATION FairServiceSpec
CONSTANTS
    Requests = {a1, p1}
    Probes = {p1}
    Conns = {c1, c2}
    Nobody = Nobody
    SentIds = {NoId, NotUtf8, x}
    NoId = NoId
    NotUtf8 = NotUtf8
INVARIANTS
    ServiceInv
    OwnRequestId
    CountedAsAnswered
    ResourcesOutliveRequests
PROPERTIES
    ReadyMeansServed
    EveryRequestCloses
    LifespanProgresses
    HealsByItself
