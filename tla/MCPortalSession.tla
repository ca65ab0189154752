-------------------------- MODULE MCPortalSession ---------------------------
(* Instances of PortalSession for TLC. *)
EXTENDS PortalSession, TLC

CONSTANTS k1, k2, s1, r1, r2

\* Which slot a request takes does not matter, and no property is temporal.
Symmetry == Permutations(Requests)

MCForms == {EmptyForm, [segment |-> s1, optOut |-> "false"]}
=============================================================================
