SPECIFICATION SeedSpec
CONSTANTS
    NRegions = 1
    CountryRegion <- MCCountryRegion
    CategoryParent <- MCCategoryParent
    NSuppliers = 1
    NProducts = 1
    NCustomers = 1
    NOrders = 3
    MaxItems = 3
    Quantities = {2}
    Discounts = {20}
    ProdPrices <- MCProdPrices
    Chunk = 2
INVARIANTS
    ReferencesResolve
    EachRowInsertedOnce
    PaymentsAgreeWithOrders
CHECK_DEADLOCK FALSE
