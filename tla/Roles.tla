------------------------------- MODULE Roles -------------------------------
(***************************************************************************)
(* The role hierarchy of common/roles.py.  Every authorisation decision of *)
(* the services compares weights with a strict order, so two roles of the  *)
(* same weight (PLAYER and PARENT) never act on each other, and no role    *)
(* acts on SUPER_ADMIN.                                                    *)
(***************************************************************************)
EXTENDS Integers

UserRole == {"SUPER_ADMIN", "CLUB_OWNER", "TECH_DIRECTOR", "COORDINATOR",
             "COACH", "PLAYER", "PARENT"}

ROLE_WEIGHTS ==
  [r \in UserRole |->
     CASE r = "SUPER_ADMIN"   -> 100
       [] r = "CLUB_OWNER"    -> 90
       [] r = "TECH_DIRECTOR" -> 80
       [] r = "COORDINATOR"   -> 70
       [] r = "COACH"         -> 60
       [] r = "PLAYER"        -> 50
       [] r = "PARENT"        -> 50]

Weight(role) == ROLE_WEIGHTS[role]

(* Faulty variant: a role acts on its equals. *)
OutranksOrEqual(actor, target) == Weight(actor) >= Weight(target)

Outranks(actor, target) == Weight(actor) > Weight(target)

SubordinateRoles(actor) == {r \in UserRole : ROLE_WEIGHTS[r] < Weight(actor)}
=============================================================================
