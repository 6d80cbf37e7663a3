------------------------------ MODULE MCRatings ------------------------------
(* An instance of Ratings for TLC: a club with its staff. *)
EXTENDS Ratings, TLC

CONSTANTS boss, coord, coach, c1

MCStaff ==
  {[user |-> boss, role |-> "CLUB_OWNER", club |-> c1],
   [user |-> coord, role |-> "COORDINATOR", club |-> c1],
   [user |-> coach, role |-> "COACH", club |-> c1]}

MCPlayerClub == [x \in Players |-> c1]

Symmetric == Permutations(Raters)
=============================================================================
