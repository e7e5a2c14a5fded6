--------------------------- MODULE MCTeamMembership ---------------------------
(* Small instances of TeamMembership; requests are interchangeable.           *)
EXTENDS TeamMembership, TLC

RequestSymmetry == Permutations(Requests)

=============================================================================
