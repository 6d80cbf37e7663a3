------------------------------- MODULE Guards -------------------------------
(***************************************************************************)
(* Which bearer passes which door: JWTAccessAuthentication, the two        *)
(* permission classes, the role lists of the views, and the services that  *)
(* weigh a role (common/authentication.py, common/permissions.py,          *)
(* common/jwt.py, apps/*/views.py).                                        *)
(***************************************************************************)
EXTENDS Roles

NoRole == "none"

(* What a token says once it is signed: by which secret, and which role.   *)
Claims == [secret : {"access", "refresh"}, role : UserRole \cup {NoRole}]

(* generate_tokens signs one pair; a reset token claims no role, and is    *)
(* signed with the access secret.                                          *)
SessionClaims == [secret : {"access", "refresh"}, role : UserRole]
ResetClaims == {[secret |-> "access", role |-> NoRole]}

(* A refresh token is no credential, as a missing or a broken one is none. *)
Authenticated(claims) == claims.secret = "access"

(* Faulty variant: a principal without a role passes every list.           *)
RolesGuardLax(required, claims) ==
  Authenticated(claims) /\ (required = {} \/ claims.role \in required \cup {NoRole})

(* A view without a list admits whoever is authenticated.                  *)
RolesGuard(required, claims) ==
  Authenticated(claims) /\ (required = {} \/ claims.role \in required)

(* The lists of the views: of age groups and the removal of teams; of the  *)
(* creation of teams; of rosters, events and ratings; of clubs and the     *)
(* dashboard.  Some views have none.                                       *)
Managers == {"SUPER_ADMIN", "CLUB_OWNER", "TECH_DIRECTOR"}
TeamCreators == Managers \cup {"COORDINATOR"}
StaffRoles == TeamCreators \cup {"COACH"}
RequiredRoles == {{}, {"SUPER_ADMIN"}, Managers, TeamCreators, StaffRoles}

(* Invitations, role changes and the listing of users have no list, but    *)
(* weigh the role of the principal: weight() of no role raises.            *)
Doors == [required : RequiredRoles, weighs : BOOLEAN]
Opens(door, claims) ==
  /\ RolesGuard(door.required, claims)
  /\ door.weighs => claims.role \in UserRole

AnyBearer == [required |-> {}, weighs |-> FALSE]
RoleDoors == Doors \ {AnyBearer}
=============================================================================
