--------------------------- MODULE ObjectIdsProofs ---------------------------
(***************************************************************************)
(* Proofs about ObjectIds, for any modulus, clock, threads and processes.  *)
(***************************************************************************)
EXTENDS ObjectIds, TLAPS

(* How far the counter of a process is ahead of an id that it drew less    *)
(* than a turn ago: by the draws since, or by a turn less.                 *)
Near ==
  \A a \in ids :
    LET d == drawn[a.id.process] - a.nth IN
    /\ d >= 0 /\ counter[a.id.process] < Modulus
    /\ d < Modulus => counter[a.id.process] - a.id.counter \in {d, d - Modulus}

IdsInductive == TypeOK /\ Near /\ OrderedUpToTurn

(* The counter returns to three bytes less one value, one ahead.           *)
LEMMA TurnStep ==
  ASSUME NEW c \in 0 .. Modulus
  PROVE  /\ Turn(c) \in 0 .. Modulus - 1
         /\ c < Modulus - 1 => Turn(c) = c + 1
         /\ c = Modulus - 1 => Turn(c) = 0
<1>1. CASE c < Modulus - 1
  BY <1>1, ObjectIdsAssumption DEF Turn
<1>2. CASE c = Modulus - 1
  BY <1>2, ObjectIdsAssumption DEF Turn
<1>3. CASE c = Modulus
  BY <1>3, ObjectIdsAssumption DEF Turn
<1>4. QED BY <1>1, <1>2, <1>3, ObjectIdsAssumption

LEMMA InitIds == ASSUME Init PROVE IdsInductive
BY DEF Init, IdsInductive, TypeOK, Near, OrderedUpToTurn, Resting

(* A step that draws nothing leaves every id as near as it was.            *)
LEMMA OthersPreserve ==
  ASSUME IdsInductive, UNCHANGED <<counter, ids, drawn>>, TypeOK'
  PROVE  IdsInductive'
BY DEF IdsInductive, Near, OrderedUpToTurn

LEMMA DrawPreserves ==
  ASSUME IdsInductive, NEW t \in Threads, Draw(t)
  PROVE  IdsInductive'
<1>1. PICK p, s, c :
        p = drawing[t].process /\ s = drawing[t].second /\ c = Turn(counter[p])
  OBVIOUS
<1>2. p \in Processes /\ s \in Seconds /\ counter[p] \in 0 .. Modulus /\ drawn[p] \in Nat
  <2>1. drawing[t] \in Drawing BY DEF Draw, IdsInductive, TypeOK, Resting
  <2>2. QED BY <1>1, <2>1 DEF Drawing, IdsInductive, TypeOK
<1>3. /\ c \in 0 .. Modulus - 1 /\ c \in 0 .. Modulus
      /\ counter[p] < Modulus - 1 => c = counter[p] + 1
      /\ counter[p] = Modulus - 1 => c = 0
  BY <1>1, <1>2, TurnStep, ObjectIdsAssumption
<1>4. PICK new :
        /\ new = [id |-> [second |-> s, process |-> p, counter |-> c], nth |-> drawn[p] + 1]
        /\ ids' = ids \cup {new}
        /\ counter' = [counter EXCEPT ![p] = c]
        /\ drawn' = [drawn EXCEPT ![p] = @ + 1]
        /\ drawing' = [drawing EXCEPT ![t] = Resting]
        /\ UNCHANGED <<clock, life>>
  BY <1>1 DEF Draw
<1>5. /\ new \in [id : ObjectId, nth : Nat \ {0}]
      /\ new.id.process = p /\ new.id.counter = c /\ new.nth = drawn[p] + 1
  BY <1>2, <1>3, <1>4 DEF ObjectId
<1>5a. new.id.process = p /\ new.id.counter = c /\ new.nth = drawn[p] + 1
  BY <1>5
<1>6. /\ counter'[p] = c /\ drawn'[p] = drawn[p] + 1
      /\ \A q \in Processes \ {p} : counter'[q] = counter[q] /\ drawn'[q] = drawn[q]
  BY <1>2, <1>4 DEF IdsInductive, TypeOK
<1>7. TypeOK'
  <2>1. ids' \subseteq [id : ObjectId, nth : Nat \ {0}]
    BY <1>4, <1>5 DEF IdsInductive, TypeOK
  <2>2. counter' \in [Processes -> 0 .. Modulus] /\ drawn' \in [Processes -> Nat]
    BY <1>2, <1>3, <1>4 DEF IdsInductive, TypeOK
  <2>3. QED BY <1>4, <2>1, <2>2 DEF IdsInductive, TypeOK
<1>8. ASSUME NEW a \in ids
      PROVE  /\ a.id.counter \in 0 .. Modulus - 1 /\ a.nth \in Nat /\ a.id.process \in Processes
             /\ drawn[a.id.process] \in Nat /\ a.nth <= drawn[a.id.process]
  BY DEF IdsInductive, TypeOK, ObjectId, Near
(* The ids of the drawing process are one draw further behind its counter. *)
<1>9. ASSUME NEW a \in ids, a.id.process = p, drawn[p] + 1 - a.nth < Modulus
      PROVE  c - a.id.counter \in {drawn[p] + 1 - a.nth, drawn[p] + 1 - a.nth - Modulus}
  <2>1. PICK d \in Nat : d = drawn[p] - a.nth BY <1>2, <1>8, <1>9
  <2>2. d < Modulus - 1 /\ d < Modulus BY <1>2, <1>8, <1>9, <2>1, ObjectIdsAssumption
  <2>3. counter[p] - a.id.counter \in {d, d - Modulus} /\ counter[p] < Modulus
    BY <1>9, <2>1, <2>2 DEF IdsInductive, Near
  <2>4. CASE counter[p] < Modulus - 1
    BY <1>2, <1>3, <1>8, <2>1, <2>3, <2>4, ObjectIdsAssumption
  <2>5. CASE counter[p] = Modulus - 1
    BY <1>2, <1>3, <1>8, <2>1, <2>2, <2>3, <2>5, ObjectIdsAssumption
  <2>6. QED BY <1>2, <2>3, <2>4, <2>5, ObjectIdsAssumption
<1>10. Near'
  <2> SUFFICES ASSUME NEW a \in ids'
               PROVE  LET d == drawn'[a.id.process] - a.nth IN
                      /\ d >= 0 /\ counter'[a.id.process] < Modulus
                      /\ d < Modulus => counter'[a.id.process] - a.id.counter
                                          \in {d, d - Modulus}
    BY DEF Near
  <2>1. CASE a = new
    <3>1. a.id.process = p /\ drawn'[p] - a.nth = 0
      BY <1>2, <1>5a, <1>6, <2>1
    <3>2. counter'[p] - a.id.counter = 0 /\ counter'[p] < Modulus
      BY <1>3, <1>5a, <1>6, <2>1, ObjectIdsAssumption
    <3>3. counter'[a.id.process] = counter'[p] /\ drawn'[a.id.process] = drawn'[p]
      BY <3>1
    <3>4. QED BY <3>1, <3>2, <3>3, ObjectIdsAssumption
  <2>2. CASE a \in ids /\ a.id.process = p
    <3>1. drawn'[p] - a.nth = drawn[p] + 1 - a.nth /\ drawn[p] + 1 - a.nth >= 0
      BY <1>2, <1>8, <1>6, <2>2
    <3>2. c < Modulus BY <1>3, ObjectIdsAssumption
    <3>3. drawn[p] + 1 - a.nth < Modulus =>
            c - a.id.counter \in {drawn[p] + 1 - a.nth, drawn[p] + 1 - a.nth - Modulus}
      BY <1>9, <2>2
    <3>4. QED BY <1>2, <1>3, <1>6, <1>8, <2>2, <3>1, <3>2, <3>3, ObjectIdsAssumption
  <2>3. CASE a \in ids /\ a.id.process # p
    BY <1>8, <1>6, <2>3 DEF IdsInductive, Near
  <2>4. QED BY <1>4, <2>1, <2>2, <2>3
<1>11. OrderedUpToTurn'
  <2> SUFFICES ASSUME NEW a \in ids', NEW b \in ids',
                      a.id.process = b.id.process, a.nth < b.nth,
                      b.nth - a.nth < Modulus
               PROVE  b.id.counter - a.id.counter \in
                        {b.nth - a.nth, b.nth - a.nth - Modulus}
    BY DEF OrderedUpToTurn
  <2>1. CASE a \in ids /\ b \in ids
    BY <2>1 DEF IdsInductive, OrderedUpToTurn
  <2>2. CASE a \in ids /\ b = new
    <3>1. b.id.counter = c /\ b.nth = drawn[p] + 1 /\ a.id.process = p
      BY <1>5a, <2>2
    <3>2. drawn[p] + 1 - a.nth < Modulus
      BY <1>2, <1>8, <2>2, <3>1, ObjectIdsAssumption
    <3>3. c - a.id.counter \in {drawn[p] + 1 - a.nth, drawn[p] + 1 - a.nth - Modulus}
      BY <1>9, <2>2, <3>1, <3>2
    <3>4. QED BY <1>2, <1>3, <1>8, <2>2, <3>1, <3>3, ObjectIdsAssumption
  <2>3. CASE a = new
    BY <1>2, <1>4, <1>8, <1>5, <2>3
  <2>4. QED BY <1>4, <2>1, <2>2, <2>3
<1>12. QED BY <1>7, <1>10, <1>11 DEF IdsInductive

LEMMA NextIds == ASSUME IdsInductive, [Next]_vars PROVE IdsInductive'
<1>1. CASE Tick \/ UNCHANGED vars
  <2>1. TypeOK' BY <1>1 DEF Tick, vars, IdsInductive, TypeOK
  <2>2. QED BY <1>1, <2>1, OthersPreserve DEF Tick, vars
<1>2. ASSUME NEW p \in Processes, Start(p) \/ Kill(p) PROVE IdsInductive'
  <2>1. TypeOK' BY <1>2 DEF Start, Kill, IdsInductive, TypeOK
  <2>2. QED BY <1>2, <2>1, OthersPreserve DEF Start, Kill
<1>3. ASSUME NEW t \in Threads, ReadClock(t) PROVE IdsInductive'
  <2>1. TypeOK' BY <1>3 DEF ReadClock, IdsInductive, TypeOK, Drawing
  <2>2. QED BY <1>3, <2>1, OthersPreserve DEF ReadClock
<1>4. QED BY <1>1, <1>2, <1>3, DrawPreserves DEF Next

(* Every id fits its field, and every counter its three bytes.             *)
THEOREM IdsTyped == Spec => []TypeOK
<1>1. IdsInductive => TypeOK BY DEF IdsInductive
<1>2. QED BY <1>1, InitIds, NextIds, PTL DEF Spec

(* Ids of one process follow the order of its draws up to a turn.          *)
THEOREM IdsOrdered == Spec => []OrderedUpToTurn
<1>1. IdsInductive => OrderedUpToTurn BY DEF IdsInductive
<1>2. QED BY <1>1, InitIds, NextIds, PTL DEF Spec

(* No id comes twice but a full turn of one process's counter apart.       *)
THEOREM IdsApart == Spec => []Apart
<1>1. ASSUME IdsInductive PROVE Apart
  <2> SUFFICES ASSUME NEW a \in ids, NEW b \in ids, a.id = b.id, a.nth < b.nth,
                      b.nth - a.nth < Modulus
               PROVE  FALSE
    BY <1>1, ObjectIdsAssumption DEF Apart, IdsInductive, TypeOK
  <2>1. /\ a.id.counter \in Int /\ a.nth \in Nat /\ b.nth \in Nat
        /\ a.id.counter = b.id.counter /\ a.id.process = b.id.process
    BY <1>1, ObjectIdsAssumption DEF IdsInductive, TypeOK, ObjectId
  <2>2. b.id.counter - a.id.counter \in {b.nth - a.nth, b.nth - a.nth - Modulus}
    BY <1>1, <2>1 DEF IdsInductive, OrderedUpToTurn
  <2>3. QED BY <2>1, <2>2, ObjectIdsAssumption
<1>2. QED BY <1>1, InitIds, NextIds, PTL DEF Spec
=============================================================================
