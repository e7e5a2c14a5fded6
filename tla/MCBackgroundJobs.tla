--------------------------- MODULE MCBackgroundJobs ---------------------------
(* A small instance of BackgroundJobs: exports and replicas are              *)
(* interchangeable.                                                          *)
EXTENDS BackgroundJobs, TLC

JobSymmetry == Permutations(Exports) \union Permutations(Replicas)

=============================================================================
