\* Two processes with two threads, a counter of three values that turns, and
\* a clock that jumps.
SPECIFICATION Spec
CONSTANTS
  Processes = {p1, p2}
  Threads = {t1, t2}
  Modulus = 3
  Seconds = {1, 2}
  MaxDraws = 4
SYMMETRY Symmetric
INVARIANTS TypeOK Apart OrderedUpToTurn
