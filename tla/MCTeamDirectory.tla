---------------------------- MODULE MCTeamDirectory ----------------------------
(* A small instance of TeamDirectory: the founder has a shared mailbox, the  *)
(* second account an address on a domain that two teams can prove.           *)
EXTENDS TeamDirectory, TLC

CONSTANTS a1, a2, us, them, ours, shared

MCDomainOf == (a1 :> shared) @@ (a2 :> ours)
MCControls == {<<us, ours>>, <<them, ours>>}
MCSymmetry == Permutations(Calls) \union Permutations(Claims)

=============================================================================
