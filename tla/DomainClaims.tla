----------------------------- MODULE DomainClaims -----------------------------
(***************************************************************************)
(* What verified email domains promise (migration 046, ENTERPRISE-IDP-     *)
(* ONBOARDING.md): one team at a time holds a domain, and it took it when  *)
(* nobody held it, after its own DNS record was found.                     *)
(***************************************************************************)
CONSTANTS
  Teams,
  Domains,
  Controls  \* <<team, domain>>: the team can publish records in the domain

VARIABLES
  held,     \* <<team, domain>>: the team holds the domain
  proved    \* <<team, domain>>: a record of the team's present claim was found

vars == <<held, proved>>

Init == held = {} /\ proved = {}

\* What was found is not used.
Lapse(t, d) ==
  /\ proved' = proved \ {<<t, d>>}
  /\ UNCHANGED held

Prove(t, d) ==
  /\ <<t, d>> \in Controls
  /\ proved' = proved \union {<<t, d>>}
  /\ UNCHANGED held

Take(t, d) ==
  /\ <<t, d>> \in proved
  /\ \A other \in Teams : <<other, d>> \notin held
  /\ held' = held \union {<<t, d>>}
  /\ proved' = proved \ {<<t, d>>}

\* A claim is given up, and with it what was found for it.
Release(t, d) ==
  /\ held' = held \ {<<t, d>>}
  /\ proved' = proved \ {<<t, d>>}

Next ==
  \E t \in Teams, d \in Domains : Lapse(t, d) \/ Prove(t, d) \/ Take(t, d) \/ Release(t, d)

Spec == Init /\ [][Next]_vars

-----------------------------------------------------------------------------
(* What follows from it.                                                   *)

\* A team holds a domain only if it controls it, and no other team holds it: a
\* domain entitles one directory (markTeamDomainVerified).
HeldByOneInControl ==
  /\ held \subseteq Controls
  /\ \A t, other \in Teams, d \in Domains :
       <<t, d>> \in held /\ <<other, d>> \in held => t = other

=============================================================================
