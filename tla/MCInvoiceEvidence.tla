--------------------------- MODULE MCInvoiceEvidence ---------------------------
(* Small instances of InvoiceEvidence; requests, artifacts and contents are   *)
(* interchangeable.                                                           *)
EXTENDS InvoiceEvidence, TLC

Interchangeable ==
  Permutations(Requests) \union Permutations(Artifacts) \union Permutations(Contents)

=============================================================================
