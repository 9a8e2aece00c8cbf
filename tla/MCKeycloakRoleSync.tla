------------------------ MODULE MCKeycloakRoleSync -------------------------
(***************************************************************************)
(* Small instances of KeycloakRoleSync: one user with two memberships, the *)
(* role codes of two baseline roles and one custom code.                   *)
(***************************************************************************)
EXTENDS KeycloakRoleSync, TLC

CONSTANTS m1, m2, user, cashier, manager

\* Both memberships belong to the same user.
SameUser == [m \in Members |-> user]

\* The role codes stand for themselves; any other code is a custom cashier role.
MCBaseline ==
  [r \in Roles |-> IF r \in {cashier, manager} THEN r ELSE cashier]

\* The user starts as a cashier with membership m1; m2 does not exist yet.
OneMembership == [m \in Members |-> IF m = m1 THEN cashier ELSE None]
=============================================================================
