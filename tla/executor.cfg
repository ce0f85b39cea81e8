SPECIFICATION FairExecutorSpec
CONSTANTS
    Requests = {r1, r2}
    Conns = {c1}
    Nobody = Nobody
    Unknown = Unknown
    Policies <- MCPolicies
    MaxTotalCost = 10
    MaxPlanRows = 10
    Estimates <- MCEstimates
    Workload <- MCWorkload
    RowCaps <- MCRowCaps
    Matches <- MCMatches
INVARIANTS
    IdleConnectionsClean
    DeliveredRows
    PreflightHonoured
    ExecAccounting
    HolderDiscipline
    NoWriteCommits
    StatementsConfined
    ExecutorInv
PROPERTIES
    CallsComplete
    ImplementsContract
