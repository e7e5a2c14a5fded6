---------------------------- MODULE MCAuditExport -----------------------------
(* A small instance of AuditExport.  Workers are not declared interchangeable: *)
(* symmetry is unsound for the liveness property.                              *)
EXTENDS AuditExport

=============================================================================
