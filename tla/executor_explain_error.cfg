SPECIFICATION ExecutorSpec
CONSTANTS
    Requests = {r1, r2}
    Conns = {c1}
    Nobody = Nobody
    Unknown = Unknown
    Policies <- MCOnlyRelaxed
    MaxTotalCost = 10
    MaxPlanRows = 10
    Estimates <- MCEstimates
    Workload <- MCWorkload
    RowCaps <- MCRowCaps
    Matches <- MCMatches
INVARIANTS
    ProceedsAfterExplainError
