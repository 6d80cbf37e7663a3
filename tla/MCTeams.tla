------------------------------ MODULE MCTeams ------------------------------
(* Instances of Teams for TLC: a club with its staff, and another club. *)
EXTENDS Teams, TLC

CONSTANTS root, boss, coord, coach, other, c1, c2

Token(u, r, k) == [user |-> u, role |-> r, club |-> k]

MCTwoClubs ==
  {Token(root, "SUPER_ADMIN", NoClub), Token(coord, "COORDINATOR", c1),
   Token(coach, "COACH", c1), Token(other, "CLUB_OWNER", c2), Token(boss, "CLUB_OWNER", c1)}

Symmetric ==
  Permutations(Workers) \cup Permutations(Players) \cup Permutations(AgeGroupIds)
=============================================================================
