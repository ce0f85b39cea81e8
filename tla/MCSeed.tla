------------------------------- MODULE MCSeed -------------------------------
(* A category with a child, and three orders so that there is a review and the*)
(* last chunk of the orders, and often that of the items, is not full.        *)
EXTENDS Seed

MCCountryRegion == <<1, 1>>
MCCategoryParent == <<0, 1>>
MCProdPrices == <<7>>
=============================================================================
