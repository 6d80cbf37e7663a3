---------------------------- MODULE MCConnections ----------------------------
(* Instances of Connections for TLC: families and a coach of one club. *)
EXTENDS Connections, TLC

CONSTANTS mum, kid, kid2, coach, c1

RoleOf(u) == CASE u = mum -> "PARENT" [] u = coach -> "COACH" [] OTHER -> "PLAYER"

MCRole2 == [u \in {mum, kid} |-> RoleOf(u)]
MCRole3 == [u \in {mum, kid, coach} |-> RoleOf(u)]
MCRole3b == [u \in {mum, kid, kid2} |-> RoleOf(u)]
MCRole4 == [u \in {mum, kid, kid2, coach} |-> RoleOf(u)]

MCClub2 == [u \in {mum, kid} |-> c1]
MCClub3 == [u \in {mum, kid, coach} |-> c1]
MCClub3b == [u \in {mum, kid, kid2} |-> c1]
MCClub4 == [u \in {mum, kid, kid2, coach} |-> c1]

Symmetric == Permutations(Workers)
=============================================================================
