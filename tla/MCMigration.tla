----------------------------- MODULE MCMigration -----------------------------
(* Two users, one of them a super admin, and a rating for TLC. *)
EXTENDS Migration, TLC

CONSTANTS adm, usr, prf, e1, e2, k1, null, undated

MCTable == (adm :> "users") @@ (usr :> "users") @@ (prf :> "performances")
MCValuesOf == (adm :> {e1, e2}) @@ (usr :> {e1, e2, null}) @@ (prf :> {k1, undated})
=============================================================================
