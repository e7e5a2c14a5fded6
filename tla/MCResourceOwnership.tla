------------------------- MODULE MCResourceOwnership -------------------------
(* Small instances of ResourceOwnership; requests are interchangeable.       *)
EXTENDS ResourceOwnership

RequestSymmetry == Permutations(Requests)

=============================================================================
