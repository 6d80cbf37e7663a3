------------------------------ MODULE ObjectIds ------------------------------
(***************************************************************************)
(* The primary keys of every table (common/objectid.py): four bytes of the *)
(* clock, five random bytes of the process, three bytes of a counter.      *)
(*                                                                         *)
(* A thread reads the clock first and takes the lock of the counter later; *)
(* the counter starts anywhere, goes round within Modulus values and is    *)
(* not reset by the second; the clock may be set back.  A worker that is   *)
(* killed is replaced by another process.                                  *)
(***************************************************************************)
EXTENDS Integers

CONSTANTS
  Processes,      \* their five random bytes, taken to differ
  Threads,
  Modulus,        \* 0xFFFFFF
  Seconds,        \* what the clock may show
  MaxDraws        \* bound on the ids that one process draws

ASSUME ObjectIdsAssumption ==
  /\ Modulus \in Nat /\ Modulus > 1
  /\ MaxDraws \in Nat

VARIABLES
  clock,
  counter,        \* the counter of each process
  life,           \* of each process: not started, running, killed
  drawing,        \* what each thread is doing, for which process
  ids,            \* history: the ids drawn, each with its place in the order
  drawn           \* history: how many ids each process has drawn

vars == <<clock, counter, life, drawing, ids, drawn>>

ObjectId == [second : Seconds, process : Processes, counter : 0 .. Modulus - 1]
Resting == [step |-> "idle"]
Drawing == [step : {"count"}, process : Processes, second : Seconds]

(* The type invariant; an id fits its field although the counter, which    *)
(* starts at any value of three bytes, may start beyond the last one that  *)
(* it ever returns to.                                                     *)
TypeOK ==
  /\ clock \in Seconds
  /\ counter \in [Processes -> 0 .. Modulus]
  /\ life \in [Processes -> {"new", "up", "dead"}]
  /\ drawing \in [Threads -> {Resting} \cup Drawing]
  /\ ids \subseteq [id : ObjectId, nth : Nat \ {0}]
  /\ drawn \in [Processes -> Nat]

Init ==
  /\ clock \in Seconds
  /\ counter \in [Processes -> 0 .. Modulus]
  /\ life = [p \in Processes |-> "new"]
  /\ drawing = [t \in Threads |-> Resting]
  /\ ids = {}
  /\ drawn = [p \in Processes |-> 0]

Tick ==
  /\ clock' \in Seconds
  /\ UNCHANGED <<counter, life, drawing, ids, drawn>>

Start(p) ==
  /\ life[p] = "new"
  /\ life' = [life EXCEPT ![p] = "up"]
  /\ UNCHANGED <<clock, counter, drawing, ids, drawn>>

ReadClock(t) ==
  /\ drawing[t] = Resting
  /\ \E p \in Processes :
       /\ life[p] = "up"
       /\ drawing' = [drawing EXCEPT ![t] = [step |-> "count", process |-> p, second |-> clock]]
  /\ UNCHANGED <<clock, counter, life, ids, drawn>>

(* Faulty variants: a modulus that is too short; one that is too long for  *)
(* the three bytes of the field.                                           *)
TurnEarly(c) == (c + 1) % (Modulus - 1)
TurnLate(c) == (c + 1) % (Modulus + 1)

Turn(c) == (c + 1) % Modulus

(* Faulty variant: the counter starts again with every second.             *)
DrawResetting(t) ==
  /\ drawing[t].step = "count"
  /\ LET p == drawing[t].process  s == drawing[t].second
         c == IF \E a \in ids : a.id.process = p /\ a.id.second = s
              THEN Turn(counter[p]) ELSE 0
     IN
     /\ drawn[p] < MaxDraws
     /\ counter' = [counter EXCEPT ![p] = c]
     /\ drawn' = [drawn EXCEPT ![p] = @ + 1]
     /\ ids' = ids \cup {[id |-> [second |-> s, process |-> p, counter |-> c],
                          nth |-> drawn[p] + 1]}
  /\ drawing' = [drawing EXCEPT ![t] = Resting]
  /\ UNCHANGED <<clock, life>>

Draw(t) ==
  /\ drawing[t].step = "count"
  /\ LET p == drawing[t].process  c == Turn(counter[p]) IN
     /\ drawn[p] < MaxDraws
     /\ counter' = [counter EXCEPT ![p] = c]
     /\ drawn' = [drawn EXCEPT ![p] = @ + 1]
     /\ ids' = ids \cup {[id |-> [second |-> drawing[t].second, process |-> p, counter |-> c],
                          nth |-> drawn[p] + 1]}
  /\ drawing' = [drawing EXCEPT ![t] = Resting]
  /\ UNCHANGED <<clock, life>>

(* A killed process takes its threads with it.                             *)
Kill(p) ==
  /\ life[p] = "up"
  /\ life' = [life EXCEPT ![p] = "dead"]
  /\ drawing' = [t \in Threads |-> IF drawing[t] # Resting /\ drawing[t].process = p
                                   THEN Resting ELSE drawing[t]]
  /\ UNCHANGED <<clock, counter, ids, drawn>>

Next ==
  \/ Tick
  \/ \E p \in Processes : Start(p) \/ Kill(p)
  \/ \E t \in Threads : ReadClock(t) \/ Draw(t)

Spec == Init /\ [][Next]_vars

-----------------------------------------------------------------------------
(* Two ids are the same only if one process drew them a full turn of the   *)
(* counter apart, within one second of the clock: not before, however the  *)
(* threads interleave, the clock jumps and processes are replaced.         *)
Apart ==
  \A a, b \in ids :
    a.id = b.id /\ a.nth < b.nth => b.nth - a.nth >= Modulus

(* The counters of a process's ids increase in the order in which they are *)
(* drawn, up to one turn: among the ids of one second, ordering by primary *)
(* key, which .first() does, is the order of creation but for that turn.   *)
(* (Ids of different seconds need not be in order: the second is read      *)
(* before the counter is.)                                                 *)
OrderedUpToTurn ==
  \A a, b \in ids :
    /\ a.id.process = b.id.process
    /\ a.nth < b.nth /\ b.nth - a.nth < Modulus
    => b.id.counter - a.id.counter \in {b.nth - a.nth, b.nth - a.nth - Modulus}
=============================================================================
