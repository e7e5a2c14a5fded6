--------------------------- MODULE MCPricingRefresh ---------------------------
(* Small instances of PricingRefresh; SKUs are interchangeable.                *)
EXTENDS PricingRefresh

SkuSymmetry == Permutations(Skus)

=============================================================================
