----------------------------- MODULE MCAccounts -----------------------------
(* Instances of Accounts for TLC. *)
EXTENDS Accounts, TLC

CONSTANTS root, u1, u2, e0, e1, e2, e3, c1, c2

\* An empty database, before the first bootstrap.
MCEmpty == [u \in {} |-> [email |-> e0, role |-> "SUPER_ADMIN", club |-> NoClub]]

\* The bootstrapped administrator alone.
MCAdmin ==
  [u \in {root} |-> [email |-> AdminEmail, role |-> "SUPER_ADMIN", club |-> NoClub]]

Symmetric == Permutations(Workers)
=============================================================================
