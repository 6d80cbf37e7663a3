----------------------------- MODULE RatingBook -----------------------------
(***************************************************************************)
(* What rating promises, whatever becomes of the teams meanwhile: a player *)
(* has one rater on record or none, never goes back to none, and the rater *)
(* was entitled to rate the player - by rank, or by a team at some time    *)
(* before - whatever the order of the statements that found it out.  When  *)
(* two rate at once, either may be the one on record.                      *)
(***************************************************************************)
CONSTANTS
  Players,
  Nobody,
  Standing      \* <<rater, player>>: entitled by rank, whatever the teams

VARIABLES
  book,         \* [Players -> raters, or Nobody]
  rights        \* <<rater, player>>: entitled by a team, so far

vars == <<book, rights>>

Init == book = [x \in Players |-> Nobody] /\ rights = {}

(* Teams change, and give rights.                                          *)
Learn == rights \subseteq rights' /\ UNCHANGED book

Record(x) ==
  /\ \E entry \in Standing \cup rights :
       entry[2] = x /\ book' = [book EXCEPT ![x] = entry[1]]
  /\ UNCHANGED rights

Next == Learn \/ \E x \in Players : Record(x)

Spec == Init /\ [][Next]_vars
=============================================================================
