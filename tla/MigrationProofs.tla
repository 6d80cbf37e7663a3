-------------------------- MODULE MigrationProofs --------------------------
(***************************************************************************)
(* Proofs about Migration, for any documents, values and edits of the      *)
(* source.                                                                 *)
(***************************************************************************)
EXTENDS Migration, TLAPS

LEMMA OrderDistinct ==
  /\ Len(Order) = 7 /\ DOMAIN Order = 1 .. 7
  /\ \A j, k \in 1 .. 7 : Order[j] = Order[k] => j = k
BY DEF Order

LEMMA DocsAreKeys ==
  /\ Docs \subseteq Keys /\ Drawn \in Keys /\ Drawn \notin Docs
  /\ \A i \in Docs : TableOf(i) = Table[i]
  /\ \A i \in Docs : \E k \in 1 .. 7 : Table[i] = Order[k]
  /\ NoRow \notin Row
BY MigrationAssumption, OrderDistinct DEF Keys, TableOf, NoRow, Row

LEMMA InitInductive == ASSUME Init PROVE Inductive
<1>1. TypeOK
  <2>1. run \in Run BY DocsAreKeys, OrderDistinct DEF Init, Run, Ended
  <2>2. rows \in [Keys -> Row \cup {NoRow}] BY DEF Init
  <2>3. source \in [Docs -> Values \cup {"unborn", "deleted"}] BY DEF Init
  <2>4. QED BY <2>1, <2>2, <2>3 DEF Init, TypeOK
<1>2. RowsBacked BY DocsAreKeys DEF Init, RowsBacked
<1>3. CopiesSoFar /\ BatchBacked /\ StampBacked /\ FlushBacked
  BY DEF Init, CopiesSoFar, BatchBacked, StampBacked, FlushBacked
<1>4. FailureHasCause /\ RerunKeepsRows BY DEF Init, FailureHasCause, RerunKeepsRows
<1>5. QED BY <1>1, <1>2, <1>3, <1>4 DEF Init, Inductive

-----------------------------------------------------------------------------
(* One lemma for each action *)

LEMMA StartPreserves ==
  ASSUME Inductive, Start
  PROVE  Inductive'
<1>1. PICK f \in BOOLEAN :
        run' = [run EXCEPT !.step = IF ~DefaultDatabase THEN "noDatabase"
                                    ELSE IF f THEN "flush" ELSE "open",
                           !.flushes = f, !.batch = {},
                           !.at = IF f THEN Len(Order) ELSE 1]
  BY DEF Start
<1>2. UNCHANGED <<source, rows, bootstrap, settled>> /\ edited' = {} BY DEF Start
<1>3. run \in Run BY DEF Inductive, TypeOK
<1>4. /\ run'.step \in {"noDatabase", "flush", "open"}
      /\ run'.step = "flush" => f
      /\ run'.step = "open" => ~f
      /\ run'.flushes = f /\ run'.batch = {} /\ run'.at = IF f THEN 7 ELSE 1
      /\ run'.doc = run.doc
  BY <1>1, <1>3, OrderDistinct DEF Run
<1>5. run' \in Run
  <2>1. PICK st \in Ended \cup {"flush", "open", "copy", "stamp"}, at \in 1 .. 8 :
          /\ st = IF ~DefaultDatabase THEN "noDatabase" ELSE IF f THEN "flush" ELSE "open"
          /\ at = IF f THEN Len(Order) ELSE 1
    BY OrderDistinct DEF Ended
  <2>2. run' = [run EXCEPT !.step = st, !.flushes = f, !.batch = {}, !.at = at]
    BY <1>1, <2>1
  <2>3. run' = [step |-> st, flushes |-> f, at |-> at, batch |-> {}, doc |-> run.doc]
    BY <1>3, <2>2 DEF Run
  <2>4. run.doc \in Keys BY <1>3 DEF Run
  <2>5. QED BY <2>1, <2>3, <2>4, OrderDistinct DEF Run
<1>6. TypeOK' BY <1>2, <1>5 DEF Inductive, TypeOK
<1>7. RowsBacked' BY <1>2 DEF Inductive, RowsBacked, InMongo
<1>8. CopiesSoFar' BY <1>4, OrderDistinct DEF CopiesSoFar, Passed
<1>9. BatchBacked' /\ StampBacked' BY <1>4 DEF BatchBacked, StampBacked
<1>10. FlushBacked' BY <1>4, OrderDistinct DEF FlushBacked
<1>11. RerunKeepsRows' BY <1>2 DEF Inductive, RerunKeepsRows, InMongo, Stale
<1>12. QED
  BY <1>2, <1>4, <1>6, <1>7, <1>8, <1>9, <1>10, <1>11 DEF Inductive, FailureHasCause

LEMMA FlushPreserves ==
  ASSUME Inductive, Flush
  PROVE  Inductive'
<1>1. rows' = [i \in Keys |-> IF TableOf(i) = Order[run.at] THEN NoRow ELSE rows[i]]
  BY DEF Flush
<1>2. UNCHANGED <<source, bootstrap, edited>> /\ settled' = FALSE BY DEF Flush
<1>3. /\ run \in Run /\ run.step = "flush" /\ run.flushes /\ run.at \in 1 .. 7
      /\ \A i \in Docs, k \in run.at + 1 .. 7 : Table[i] = Order[k] => rows[i] = NoRow
  BY OrderDistinct DEF Flush, Inductive, TypeOK, FlushBacked, Run
<1>4. /\ run' \in Run /\ run'.step \in {"flush", "open"} /\ run'.flushes
      /\ run'.step = "flush" => run'.at = run.at - 1 /\ run'.at \in 1 .. 7
      /\ run'.step = "open" => run.at = 1 /\ run'.at = 1
  BY <1>3, OrderDistinct DEF Flush, Run
<1>5. TypeOK' BY <1>1, <1>2, <1>4 DEF Inductive, TypeOK
<1>6. \A i \in Keys : rows'[i] \in {rows[i], NoRow} BY <1>1
<1>7. RowsBacked' BY <1>2, <1>6, DocsAreKeys DEF Inductive, RowsBacked, InMongo
<1>8. CopiesSoFar' BY <1>4 DEF CopiesSoFar, Passed
<1>9. BatchBacked' /\ StampBacked' BY <1>4 DEF BatchBacked, StampBacked
<1>10. FlushBacked'
  <2>1. ASSUME NEW i \in Docs, NEW k \in run.at .. 7, Table[i] = Order[k]
        PROVE  rows'[i] = NoRow
    <3>1. k = run.at \/ k \in run.at + 1 .. 7 BY <1>3
    <3>2. QED BY <1>1, <1>3, <2>1, <3>1, DocsAreKeys
  <2>2. CASE run'.step = "flush"
    <3>1. run'.at + 1 = run.at BY <1>4, <1>3, <2>2
    <3>2. QED BY <1>4, <2>1, <2>2, <3>1, OrderDistinct DEF FlushBacked
  <2>3. CASE run'.step = "open"
    <3>1. \A i \in Docs : rows'[i] = NoRow BY <1>4, <2>1, <2>3, DocsAreKeys
    <3>2. QED BY <3>1, <2>3 DEF FlushBacked
  <2>4. QED BY <2>2, <2>3, <1>4
<1>11. QED
  BY <1>2, <1>4, <1>5, <1>7, <1>8, <1>9, <1>10
  DEF Inductive, FailureHasCause, RerunKeepsRows

LEMMA OpenPreserves ==
  ASSUME Inductive, Open
  PROVE  Inductive'
<1> DEFINE batch == {<<i, source[i]>> : i \in {k \in Docs : InMongo(k) /\ Table[k] = Order[run.at]}}
<1>1. UNCHANGED <<source, rows, bootstrap, edited>> BY DEF Open
<1>2. run \in Run /\ run.step = "open" /\ run.at \in 1 .. 8
  BY OrderDistinct DEF Open, Inductive, TypeOK, Run
<1>3. RowsBacked' BY <1>1 DEF Inductive, RowsBacked, InMongo
<1>4. CASE run.at > 7
  <2>1. run' = [run EXCEPT !.step = "complete"] /\ settled' = (edited = {})
    BY <1>4, OrderDistinct DEF Open
  <2>2. /\ run' \in Run /\ run'.step = "complete" /\ run'.at = run.at
        /\ run'.flushes = run.flushes
    BY <1>2, <2>1 DEF Run, Ended
  <2>3. TypeOK' BY <1>1, <2>1, <2>2 DEF Inductive, TypeOK
  <2>4. CopiesSoFar'
    <3>1. \A i \in Docs \ edited : InMongo(i) => Passed(i)
      BY <1>2, <1>4, DocsAreKeys DEF Passed
    <3>2. \A i \in Docs \ edited : InMongo(i) => Copied(i)
      BY <1>2, <3>1 DEF Inductive, CopiesSoFar
    <3>3. QED BY <1>1, <3>2 DEF CopiesSoFar, InMongo, Copied
  <2>5. BatchBacked' /\ StampBacked' BY <2>2 DEF BatchBacked, StampBacked
  <2>6. FlushBacked' BY <1>1, <1>2, <2>2 DEF Inductive, FlushBacked
  <2>7. RerunKeepsRows'
    <3>1. ASSUME settled', NEW i \in Docs, InMongo(i) PROVE rows[i] # NoRow /\ ~Stale(i)
      <4>1. edited = {} BY <2>1, <3>1
      <4>2. Copied(i) BY <4>1, <3>1, <1>2, <1>4, DocsAreKeys DEF Inductive, CopiesSoFar, Passed
      <4>3. [value |-> source[i], stamped |-> TRUE] # NoRow
        <5>1. PICK row \in Row : row = [value |-> source[i], stamped |-> TRUE]
          BY <3>1 DEF Row, InMongo
        <5>2. QED BY <5>1, DocsAreKeys
      <4>4. QED BY <4>2, <4>3 DEF Copied, Stale
    <3>2. QED BY <1>1, <3>1 DEF RerunKeepsRows, InMongo, Stale
  <2>8. QED
    BY <1>1, <1>2, <1>3, <1>4, <2>1, <2>2, <2>3, <2>4, <2>5, <2>6, <2>7, OrderDistinct
    DEF Inductive, FailureHasCause
<1>5. CASE run.at \in 1 .. 7
  <2>1. run' = [run EXCEPT !.step = "copy", !.batch = batch] /\ settled' = settled
    BY <1>5, OrderDistinct DEF Open
  <2>2. batch \in SUBSET (Docs \X Values) BY DEF InMongo
  <2>3. /\ run' \in Run /\ run'.step = "copy" /\ run'.at = run.at
        /\ run'.flushes = run.flushes /\ run'.batch = batch
    BY <1>2, <2>1, <2>2 DEF Run
  <2>4. TypeOK' BY <1>1, <2>1, <2>3 DEF Inductive, TypeOK
  <2>5. CopiesSoFar'
    <3>1. ASSUME NEW i \in Docs \ edited, InMongo(i), Passed(i)'
          PROVE  Copied(i)
      <4>1. ~(Table[i] = Order[run.at] /\ \A d \in batch : d[1] # i)
        <5>1. Table[i] = Order[run.at] => <<i, source[i]>> \in batch BY <3>1
        <5>2. QED BY <5>1, <<i, source[i]>>[1] = i
      <4>2. \E k \in 1 .. run.at - 1 : Table[i] = Order[k]
        BY <2>3, <3>1, <4>1 DEF Passed
      <4>3. QED BY <4>2, <3>1, <1>2 DEF Inductive, CopiesSoFar, Passed
    <3>2. QED BY <1>1, <3>1 DEF CopiesSoFar, InMongo, Copied
  <2>6. BatchBacked' BY <1>1, <1>5, <2>3, OrderDistinct DEF BatchBacked
  <2>7. StampBacked' BY <2>3 DEF StampBacked
  <2>8. FlushBacked' BY <1>1, <1>2, <2>3 DEF Inductive, FlushBacked
  <2>9. RerunKeepsRows' BY <1>1, <2>1 DEF Inductive, RerunKeepsRows, InMongo, Stale
  <2>10. QED
    BY <1>1, <1>3, <2>1, <2>3, <2>4, <2>5, <2>6, <2>7, <2>8, <2>9
    DEF Inductive, FailureHasCause
<1>6. QED BY <1>2, <1>4, <1>5

(* A run that fails leaves the rows alone; what is left to show is why.    *)
LEMMA FailPreserves ==
  ASSUME Inductive, NEW i \in Docs, Fail(i), UNCHANGED <<source, bootstrap, edited, settled>>,
         FailureHasCause'
  PROVE  Inductive'
<1>1. UNCHANGED rows /\ run' = [run EXCEPT !.step = "failed", !.doc = i] BY DEF Fail
<1>2. run \in Run /\ i \in Keys BY DocsAreKeys DEF Inductive, TypeOK
<1>3. run' \in Run /\ run'.step = "failed" /\ run'.doc = i
  BY <1>1, <1>2 DEF Run, Ended
<1>4. TypeOK' BY <1>1, <1>3 DEF Inductive, TypeOK
<1>5. RowsBacked' BY <1>1 DEF Inductive, RowsBacked, InMongo
<1>6. RerunKeepsRows' BY <1>1 DEF Inductive, RerunKeepsRows, InMongo, Stale
<1>7. CopiesSoFar' /\ BatchBacked' /\ StampBacked' /\ FlushBacked'
  BY <1>3 DEF CopiesSoFar, BatchBacked, StampBacked, FlushBacked
<1>8. QED BY <1>3, <1>4, <1>5, <1>6, <1>7 DEF Inductive

(* A row of a document is written with the value of the batch, beside none *)
(* that has the value already.                                             *)
LEMMA CopyPreserves ==
  ASSUME Inductive, Copy
  PROVE  Inductive'
<1>1. PICK d \in run.batch :
        IF d[2] \in Refused \/ Taken(d[1], d[2]) THEN Fail(d[1]) ELSE Write(d)
  BY DEF Copy
<1>2. UNCHANGED <<source, bootstrap, edited, settled>> /\ run.step = "copy" BY DEF Copy
<1>3. run \in Run /\ rows \in [Keys -> Row \cup {NoRow}] BY DEF Inductive, TypeOK
<1>4. /\ run.at \in 1 .. 7
      /\ run.batch \subseteq Docs \X Values
      /\ \A c \in run.batch : Table[c[1]] = Order[run.at] /\ (c[1] \in edited \/ source[c[1]] = c[2])
      /\ \A b, c \in run.batch : b[1] = c[1] => b = c
  BY <1>2, <1>3, OrderDistinct DEF Inductive, BatchBacked, Run
<1>5. PICK i \in Docs, v \in Values : d = <<i, v>> BY <1>4
<1>6. i \in Keys /\ Table[i] = Order[run.at] /\ (i \in edited \/ source[i] = v)
  BY <1>4, <1>5, DocsAreKeys
<1>7. CASE v \in Refused \/ Taken(i, v)
  <2>1. Fail(i) BY <1>1, <1>5, <1>7
  <2>2. /\ UNCHANGED rows /\ run'.step = "failed" /\ run'.doc = i
        /\ run'.flushes = run.flushes
    BY <1>3, <2>1 DEF Fail, Run
  <2>3. ASSUME i \notin edited, v \notin Refused
        PROVE  \E k \in Keys :
                 /\ InTheWay(k, i)
                 /\ \/ k \in edited \cup {Drawn}
                    \/ source[k] = source[i]
                    \/ ~run.flushes /\ Stale(k)
    <3>1. source[i] = v BY <1>6, <2>3
    <3>2. PICK k \in Keys \ {i} :
            Unique(i) /\ TableOf(k) = TableOf(i) /\ rows[k] # NoRow /\ rows[k].value = v
      BY <1>7, <2>3 DEF Taken
    <3>3. InTheWay(k, i) BY <3>1, <3>2 DEF InTheWay
    <3>4. ASSUME k \notin edited \cup {Drawn}, source[k] # source[i]
          PROVE  ~run.flushes /\ Stale(k)
      <4>1. k \in Docs \ edited BY <3>2, <3>4 DEF Keys
      <4>2. Stale(k) BY <3>1, <3>2, <3>4 DEF Stale
      <4>3. QED BY <1>2, <3>2, <4>1, <4>2 DEF Inductive, FlushBacked, Stale
    <3>5. QED BY <3>2, <3>3, <3>4
  <2>4. FailureHasCause'
    <3>1. ASSUME i \notin edited, source[i] \notin Refused \cup Undated
          PROVE  \E k \in Keys :
                   /\ InTheWay(k, i)
                   /\ \/ k \in edited \cup {Drawn}
                      \/ source[k] = source[i]
                      \/ ~run.flushes /\ Stale(k)
      BY <1>6, <2>3, <3>1
    <3>2. QED BY <1>2, <2>2, <3>1 DEF FailureHasCause, InTheWay, Stale
  <2>5. QED BY <1>2, <2>1, <2>4, FailPreserves
<1>8. CASE v \notin Refused /\ ~Taken(i, v)
  <2>1. PICK row \in Row : row = [value |-> v, stamped |-> FALSE] BY DEF Row
  <2>2. /\ rows' = [rows EXCEPT ![i] = row]
        /\ run' = [run EXCEPT !.step = "stamp", !.batch = @ \ {d}, !.doc = i]
    BY <1>1, <1>5, <1>8, <2>1 DEF Write
  <2>3. row # NoRow /\ row.value = v BY <2>1, DocsAreKeys
  <2>4. /\ run' = [step |-> "stamp", flushes |-> run.flushes, at |-> run.at,
                   batch |-> run.batch \ {d}, doc |-> i]
        /\ run.flushes \in BOOLEAN
    BY <1>3, <2>2 DEF Run
  <2>5. /\ run'.step = "stamp" /\ run'.at = run.at /\ run'.flushes = run.flushes
        /\ run'.batch = run.batch \ {d} /\ run'.doc = i
    BY <2>4
  <2>6. run' \in Run BY <1>4, <1>6, <2>4, OrderDistinct DEF Run
  <2>7. rows'[i] = row /\ \A k \in Keys \ {i} : rows'[k] = rows[k] BY <1>3, <1>6, <2>2
  <2>8. TypeOK' BY <1>2, <2>1, <2>2, <2>6 DEF Inductive, TypeOK
  <2>9. RowsBacked'
    <3>1. ASSUME NEW k \in Keys \ {i}, rows[k] # NoRow, Unique(i), TableOf(k) = TableOf(i)
          PROVE  rows[k].value # v
      BY <1>8, <3>1 DEF Taken
    <3>2. ASSUME NEW j \in Keys, NEW k \in Keys, Apart(j, k), rows'[j] # NoRow, rows'[k] # NoRow
          PROVE  rows'[j].value # rows'[k].value
      <4>1. Unique(j) /\ Unique(k) /\ TableOf(j) = TableOf(k) /\ j # k
        BY <3>2 DEF Apart, Unique
      <4>2. CASE j = i BY <2>3, <2>7, <3>1, <3>2, <4>1, <4>2
      <4>3. CASE k = i BY <2>3, <2>7, <3>1, <3>2, <4>1, <4>3
      <4>4. CASE j # i /\ k # i BY <2>7, <3>2, <4>4 DEF Inductive, RowsBacked
      <4>5. QED BY <4>2, <4>3, <4>4
    <3>3. rows'[Drawn] = rows[Drawn] BY <2>7, DocsAreKeys
    <3>4. QED BY <1>2, <3>2, <3>3 DEF Inductive, RowsBacked, InMongo
  <2>10. CopiesSoFar'
    <3>1. ASSUME NEW k \in Docs \ edited, InMongo(k), Passed(k)'
          PROVE  k # i /\ Copied(k)
      <4>1. k # i BY <1>4, <1>6, <2>5, <3>1, OrderDistinct DEF Passed
      <4>2. Passed(k) BY <1>2, <1>5, <2>5, <3>1, <4>1 DEF Passed
      <4>3. QED BY <1>2, <3>1, <4>1, <4>2 DEF Inductive, CopiesSoFar
    <3>2. QED BY <1>2, <2>7, <3>1, DocsAreKeys DEF CopiesSoFar, InMongo, Copied
  <2>11. BatchBacked' BY <1>2, <1>4, <2>5, OrderDistinct DEF BatchBacked
  <2>12. StampBacked'
    <3>1. \A c \in run.batch \ {d} : c[1] # i BY <1>4, <1>5
    <3>2. QED BY <1>2, <1>6, <2>3, <2>5, <2>7, <3>1 DEF StampBacked
  <2>13. FlushBacked'
    <3>1. ASSUME run.flushes, NEW k \in Docs \ edited, rows'[k] # NoRow
          PROVE  rows'[k].value = source[k]
      BY <1>2, <1>6, <2>3, <2>7, <3>1, DocsAreKeys DEF Inductive, FlushBacked
    <3>2. QED BY <1>2, <2>5, <3>1 DEF FlushBacked
  <2>14. RerunKeepsRows'
    <3>1. ASSUME settled, NEW k \in Docs, InMongo(k)
          PROVE  rows'[k] # NoRow /\ rows'[k].value = source[k]
      BY <1>6, <2>3, <2>7, <3>1, DocsAreKeys DEF Inductive, RerunKeepsRows, Stale
    <3>2. QED BY <1>2, <3>1 DEF RerunKeepsRows, InMongo, Stale
  <2>15. QED
    BY <1>2, <2>5, <2>8, <2>9, <2>10, <2>11, <2>12, <2>13, <2>14
    DEF Inductive, FailureHasCause
<1>9. QED BY <1>7, <1>8

LEMMA StampPreserves ==
  ASSUME Inductive, Stamp, rows[run.doc].value \notin Undated
  PROVE  Inductive'
<1>1. PICK i \in Docs : i = run.doc BY DEF Stamp, Inductive, StampBacked
<1>2. /\ run \in Run /\ run.step = "stamp" /\ run.at \in 1 .. 7
      /\ rows \in [Keys -> Row \cup {NoRow}] /\ i \in Keys
  BY OrderDistinct, DocsAreKeys DEF Stamp, Inductive, TypeOK, BatchBacked, Run
<1>3. UNCHANGED <<source, bootstrap, edited, settled>> BY DEF Stamp
<1>4. /\ Table[i] = Order[run.at] /\ rows[i] # NoRow
      /\ i \in edited \/ rows[i].value = source[i]
      /\ \A d \in run.batch : d[1] # i
  BY <1>1, <1>2 DEF Inductive, StampBacked
<1>5. PICK old \in Row : old = rows[i] BY <1>2, <1>4
<1>6. PICK new \in Row : new = [value |-> old.value, stamped |-> TRUE] BY DEF Row
<1>7. rows' = [rows EXCEPT ![i] = new]
  <2>1. [old EXCEPT !.stamped = TRUE] = [value |-> old.value, stamped |-> TRUE]
    <3>1. ASSUME NEW x PROVE [old EXCEPT !.stamped = x] = [value |-> old.value, stamped |-> x]
      BY DEF Row
    <3>2. QED BY <3>1
  <2>2. QED BY <1>1, <1>2, <1>5, <1>6, <2>1 DEF Stamp
<1>8. /\ rows'[i] = new /\ new # NoRow /\ new.value = rows[i].value
      /\ \A k \in Keys \ {i} : rows'[k] = rows[k]
  BY <1>2, <1>5, <1>6, <1>7, DocsAreKeys
<1>9. run' = [run EXCEPT !.step = "copy"] BY DEF Stamp
<1>10. /\ run' \in Run /\ run'.step = "copy" /\ run'.at = run.at
       /\ run'.flushes = run.flushes /\ run'.batch = run.batch /\ run'.doc = run.doc
  BY <1>2, <1>9 DEF Run
<1>11. TypeOK' BY <1>3, <1>7, <1>10 DEF Inductive, TypeOK
<1>12. \A k \in Keys : /\ rows'[k] = NoRow <=> rows[k] = NoRow
                       /\ rows[k] # NoRow => rows'[k].value = rows[k].value
  BY <1>4, <1>8
<1>13. RowsBacked' BY <1>3, <1>12, DocsAreKeys DEF Inductive, RowsBacked, InMongo, Apart
<1>14. CopiesSoFar'
  <2>1. ASSUME NEW k \in Docs \ edited, InMongo(k), Passed(k)'
        PROVE  Copied(k)'
    <3>1. CASE k = i
      <4>1. old.value = source[k] BY <1>4, <1>5, <2>1, <3>1
      <4>2. rows'[k] = [value |-> source[k], stamped |-> TRUE] BY <1>6, <1>8, <3>1, <4>1
      <4>3. QED BY <1>3, <4>2 DEF Copied
    <3>2. CASE k # i
      <4>1. Passed(k) BY <1>1, <1>2, <1>10, <2>1, <3>2 DEF Passed
      <4>2. Copied(k) BY <1>2, <2>1, <4>1 DEF Inductive, CopiesSoFar
      <4>3. QED BY <1>3, <1>8, <3>2, <4>2, DocsAreKeys DEF Copied
    <3>3. QED BY <3>1, <3>2
  <2>2. QED BY <1>3, <2>1 DEF CopiesSoFar, InMongo
<1>15. BatchBacked' BY <1>2, <1>3, <1>10 DEF Inductive, BatchBacked
<1>16. StampBacked' BY <1>10 DEF StampBacked
<1>17. FlushBacked' BY <1>2, <1>3, <1>10, <1>12, DocsAreKeys DEF Inductive, FlushBacked
<1>18. RerunKeepsRows'
  BY <1>3, <1>12, DocsAreKeys DEF Inductive, RerunKeepsRows, InMongo, Stale
<1>19. QED
  BY <1>3, <1>10, <1>11, <1>13, <1>14, <1>15, <1>16, <1>17, <1>18
  DEF Inductive, FailureHasCause

(* What cannot be stamped is the document, unless it was edited.           *)
LEMMA StampFailsPreserves ==
  ASSUME Inductive, Stamp, rows[run.doc].value \in Undated
  PROVE  Inductive'
<1>1. PICK i \in Docs : i = run.doc BY DEF Stamp, Inductive, StampBacked
<1>2. Fail(i) /\ UNCHANGED <<source, bootstrap, edited, settled>> BY <1>1 DEF Stamp
<1>3. i \in edited \/ source[i] \in Undated BY <1>1 DEF Stamp, Inductive, StampBacked
<1>4. run'.doc = i BY <1>2 DEF Fail, Inductive, TypeOK, Run
<1>5. FailureHasCause' BY <1>2, <1>3, <1>4 DEF FailureHasCause
<1>6. QED BY <1>2, <1>5, FailPreserves

LEMMA ClosePreserves ==
  ASSUME Inductive, Close
  PROVE  Inductive'
<1>1. UNCHANGED <<source, rows, bootstrap, edited, settled>> BY DEF Close
<1>2. /\ run \in Run /\ run.step = "copy" /\ run.batch = {} /\ run.at \in 1 .. 7
      /\ run' = [run EXCEPT !.step = "open", !.at = @ + 1]
  BY OrderDistinct DEF Close, Inductive, TypeOK, BatchBacked, Run
<1>3. /\ run' \in Run /\ run'.step = "open" /\ run'.at = run.at + 1
      /\ run'.flushes = run.flushes
  <2>1. run' = [step |-> "open", flushes |-> run.flushes, at |-> run.at + 1,
                batch |-> run.batch, doc |-> run.doc]
    BY <1>2 DEF Run
  <2>2. run.at + 1 \in 1 .. 8 BY <1>2
  <2>3. QED BY <1>2, <2>1, <2>2, OrderDistinct DEF Run
<1>4. TypeOK' BY <1>1, <1>3 DEF Inductive, TypeOK
<1>5. RowsBacked' BY <1>1 DEF Inductive, RowsBacked, InMongo
<1>6. CopiesSoFar'
  <2>1. ASSUME NEW i \in Docs \ edited, InMongo(i), Passed(i)'
        PROVE  Copied(i)
    <3>1. PICK k \in 1 .. run.at : Table[i] = Order[k] BY <1>2, <1>3, <2>1 DEF Passed
    <3>2. k = run.at \/ k \in 1 .. run.at - 1 BY <1>2
    <3>3. Passed(i) BY <1>2, <3>1, <3>2 DEF Passed
    <3>4. QED BY <1>2, <2>1, <3>3 DEF Inductive, CopiesSoFar
  <2>2. QED BY <1>1, <2>1 DEF CopiesSoFar, InMongo, Copied
<1>7. BatchBacked' /\ StampBacked' BY <1>3 DEF BatchBacked, StampBacked
<1>8. FlushBacked' BY <1>1, <1>2, <1>3 DEF Inductive, FlushBacked
<1>9. RerunKeepsRows' BY <1>1 DEF Inductive, RerunKeepsRows, InMongo, Stale
<1>10. QED
  BY <1>1, <1>3, <1>4, <1>5, <1>6, <1>7, <1>8, <1>9 DEF Inductive, FailureHasCause

LEMMA KillPreserves ==
  ASSUME Inductive, Kill
  PROVE  Inductive'
<1>1. UNCHANGED <<source, rows, bootstrap, edited, settled>> BY DEF Kill
<1>2. run' \in Run /\ run'.step = "killed" BY DEF Kill, Inductive, TypeOK, Run, Ended
<1>3. TypeOK' BY <1>1, <1>2 DEF Inductive, TypeOK
<1>4. RowsBacked' BY <1>1 DEF Inductive, RowsBacked, InMongo
<1>5. RerunKeepsRows' BY <1>1 DEF Inductive, RerunKeepsRows, InMongo, Stale
<1>6. QED
  BY <1>1, <1>2, <1>3, <1>4, <1>5
  DEF Inductive, FailureHasCause, CopiesSoFar, BatchBacked, StampBacked, FlushBacked

(* What was edited is excused.                                             *)
LEMMA EditSourcePreserves ==
  ASSUME Inductive, EditSource
  PROVE  Inductive'
<1>1. PICK i \in Docs, v \in Values \cup {"deleted"} :
        source' = [source EXCEPT ![i] = v] /\ edited' = edited \cup {i}
  BY MigrationAssumption DEF EditSource
<1>2. UNCHANGED <<rows, run, bootstrap>> /\ settled' = FALSE BY DEF EditSource
<1>3. source \in [Docs -> Values \cup {"unborn", "deleted"}] BY DEF Inductive, TypeOK
<1>4. \A k \in Docs : k # i => source'[k] = source[k] BY <1>1, <1>3
<1>5. TypeOK' BY <1>1, <1>2 DEF Inductive, TypeOK
<1>6. RowsBacked' BY <1>2 DEF Inductive, RowsBacked
<1>7. CopiesSoFar'
  BY <1>1, <1>2, <1>4 DEF Inductive, CopiesSoFar, InMongo, Passed, Copied
<1>8. BatchBacked'
  <2>1. ASSUME run.step \in {"copy", "stamp"}, NEW d \in run.batch
        PROVE  d[1] \in edited' \/ source'[d[1]] = d[2]
    <3>1. d[1] \in Docs BY DEF Inductive, TypeOK, Run
    <3>2. d[1] \in edited \/ source[d[1]] = d[2] BY <2>1 DEF Inductive, BatchBacked
    <3>3. QED BY <1>1, <1>4, <3>1, <3>2
  <2>2. QED BY <1>2, <2>1 DEF Inductive, BatchBacked
<1>9. StampBacked' BY <1>1, <1>2, <1>4 DEF Inductive, StampBacked
<1>10. FlushBacked' BY <1>1, <1>2, <1>4 DEF Inductive, FlushBacked
<1>11. FailureHasCause'
  <2> SUFFICES ASSUME run.step = "failed", run.doc \notin edited', source'[run.doc] \notin Refused \cup Undated
               PROVE  \E k \in Keys :
                        /\ InTheWay(k, run.doc)'
                        /\ \/ k \in edited' \cup {Drawn}
                           \/ source'[k] = source'[run.doc]
                           \/ ~run.flushes /\ Stale(k)'
    BY <1>2 DEF FailureHasCause
  <2>1. run.doc \in Docs /\ run.doc # i /\ run.doc \notin edited BY <1>1 DEF Inductive
  <2>2. source'[run.doc] = source[run.doc] BY <1>4, <2>1
  <2>3. PICK k \in Keys :
          /\ InTheWay(k, run.doc)
          /\ \/ k \in edited \cup {Drawn}
             \/ source[k] = source[run.doc]
             \/ ~run.flushes /\ Stale(k)
    BY <2>1, <2>2 DEF Inductive, FailureHasCause
  <2>4. InTheWay(k, run.doc)' BY <1>2, <2>2, <2>3 DEF InTheWay
  <2>5. k = i \/ k = Drawn \/ (k \in Docs /\ source'[k] = source[k])
    BY <1>4 DEF Keys
  <2>6. QED BY <1>1, <1>2, <2>2, <2>3, <2>4, <2>5 DEF Stale
<1>12. QED
  BY <1>1, <1>2, <1>5, <1>6, <1>7, <1>8, <1>9, <1>10, <1>11
  DEF Inductive, RerunKeepsRows

(* A bootstrap writes no row but the one of the key it draws.              *)
LEMMA BootstrapPreserves ==
  ASSUME Inductive, BeginBootstrap \/ InsertAdmin \/ KillBootstrap
  PROVE  Inductive'
<1>1. UNCHANGED <<source, run, edited, settled>>
  BY DEF BeginBootstrap, InsertAdmin, KillBootstrap
<1>2. CASE UNCHANGED rows
  <2>1. TypeOK' BY <1>1, <1>2 DEF BeginBootstrap, InsertAdmin, KillBootstrap, Inductive, TypeOK
  <2>2. QED
    BY <1>1, <1>2, <2>1
    DEF Inductive, RowsBacked, InMongo, CopiesSoFar, Passed, Copied, BatchBacked,
        StampBacked, FlushBacked, FailureHasCause, InTheWay, RerunKeepsRows, Stale
<1>3. CASE ~UNCHANGED rows
  <2>1. PICK row \in Row : row = [value |-> AdminEmail, stamped |-> TRUE]
    BY MigrationAssumption DEF Row
  <2>2. /\ ~Taken(Drawn, AdminEmail) /\ bootstrap' = "idle"
        /\ rows' = [rows EXCEPT ![Drawn] = row]
    BY <1>3, <2>1 DEF BeginBootstrap, InsertAdmin, KillBootstrap
  <2>3. rows \in [Keys -> Row \cup {NoRow}] BY DEF Inductive, TypeOK
  <2>4. /\ rows'[Drawn] = row /\ row # NoRow /\ row.value = AdminEmail
        /\ \A k \in Keys : k # Drawn => rows'[k] = rows[k]
        /\ \A k \in Docs : rows'[k] = rows[k]
    BY <2>1, <2>2, <2>3, DocsAreKeys
  <2>5. TypeOK' BY <1>1, <2>2 DEF Inductive, TypeOK
  <2>6. RowsBacked'
    <3>1. ASSUME NEW j \in Keys, NEW k \in Keys, Apart(j, k), rows'[j] # NoRow, rows'[k] # NoRow
          PROVE  rows'[j].value # rows'[k].value
      <4>1. Unique(j) /\ Unique(k) /\ j # k /\ TableOf(j) = TableOf(k)
        BY <3>1 DEF Apart, Unique
      <4>2. CASE j = Drawn BY <2>2, <2>4, <3>1, <4>1, <4>2 DEF Taken
      <4>3. CASE k = Drawn BY <2>2, <2>4, <3>1, <4>1, <4>3 DEF Taken
      <4>4. CASE j # Drawn /\ k # Drawn BY <2>4, <3>1, <4>4 DEF Inductive, RowsBacked
      <4>5. QED BY <4>2, <4>3, <4>4
    <3>2. QED BY <1>1, <2>4, <3>1 DEF Inductive, RowsBacked, InMongo
  <2>7. CopiesSoFar' BY <1>1, <2>4 DEF Inductive, CopiesSoFar, InMongo, Passed, Copied
  <2>8. BatchBacked' BY <1>1 DEF Inductive, BatchBacked
  <2>9. StampBacked' BY <1>1, <2>4 DEF Inductive, StampBacked
  <2>10. FlushBacked' BY <1>1, <2>4 DEF Inductive, FlushBacked
  <2>11. FailureHasCause'
    <3>1. \A k \in Keys, j \in Docs : InTheWay(k, j) => InTheWay(k, j)'
      <4>1. ASSUME NEW k \in Keys, rows[k] # NoRow
            PROVE  rows'[k] # NoRow /\ rows'[k].value = rows[k].value
        BY <2>4, <4>1 DEF Inductive, RowsBacked
      <4>2. QED BY <1>1, <4>1 DEF InTheWay
    <3>2. \A k \in Docs : Stale(k) => Stale(k)' BY <1>1, <2>4 DEF Stale
    <3>3. QED BY <1>1, <3>1, <3>2 DEF Inductive, FailureHasCause, Keys
  <2>12. RerunKeepsRows'
    BY <1>1, <2>4 DEF Inductive, RerunKeepsRows, InMongo, Stale
  <2>13. QED
    BY <1>1, <2>5, <2>6, <2>7, <2>8, <2>9, <2>10, <2>11, <2>12 DEF Inductive
<1>4. QED BY <1>2, <1>3

-----------------------------------------------------------------------------

(* Wherever a run is, what it has passed is copied, and what it holds is   *)
(* of the source; whatever is killed, edited or bootstrapped beside it.    *)
THEOREM MigrationInductive == Spec => []Inductive
<1>1. Init => Inductive BY InitInductive
<1>2. ASSUME Inductive, [Next]_vars PROVE Inductive'
  <2>1. CASE UNCHANGED vars
    BY <1>2, <2>1
    DEF vars, Inductive, TypeOK, RowsBacked, InMongo, CopiesSoFar, Passed, Copied,
        BatchBacked, StampBacked, FlushBacked, FailureHasCause, InTheWay, RerunKeepsRows, Stale
  <2>2. CASE Next
    BY <1>2, <2>2, StartPreserves, FlushPreserves, OpenPreserves, CopyPreserves,
       StampPreserves, StampFailsPreserves, ClosePreserves, KillPreserves, EditSourcePreserves,
       BootstrapPreserves
    DEF Next
  <2>3. QED BY <1>2, <2>1, <2>2
<1>3. QED BY <1>1, <1>2, PTL DEF Spec

(* Rows, source and run hold values of their types.                        *)
THEOREM MigrationTyped == Spec => []TypeOK
<1>1. Inductive => TypeOK BY DEF Inductive
<1>2. QED BY <1>1, MigrationInductive, PTL

(* A run that reports that the migration is complete has copied whatever   *)
(* was not edited meanwhile.                                               *)
LEMMA CompletePassed ==
  ASSUME Inductive, run.step = "complete", NEW i \in Docs \ edited, InMongo(i)
  PROVE  Copied(i)
<1>1. run.at = 8 BY OrderDistinct DEF Inductive, TypeOK, Run
<1>2. Passed(i) BY <1>1, DocsAreKeys DEF Passed
<1>3. QED BY <1>2 DEF Inductive, CopiesSoFar

THEOREM CompleteRunsCopy == Spec => []CompleteCopies
<1>1. Inductive => CompleteCopies BY CompletePassed DEF CompleteCopies
<1>2. QED BY <1>1, MigrationInductive, PTL

(* With --flush it has left nothing else, and no super admin of a          *)
(* container either if the source has a user of that address.              *)
THEOREM FlushedRunsMirror == Spec => []FlushLeavesSource
<1>1. ASSUME Inductive, run.step = "complete", run.flushes PROVE FlushLeavesSource
  <2>1. ASSUME NEW i \in Docs \ edited, rows[i] # NoRow
        PROVE  InMongo(i) /\ rows[i].value = source[i]
    <3>1. rows[i] \in Row BY <1>1, <2>1, DocsAreKeys DEF Inductive, TypeOK
    <3>2. rows[i].value = source[i] BY <1>1, <2>1 DEF Inductive, FlushBacked
    <3>3. QED BY <3>1, <3>2 DEF Row, InMongo
  <2>2. ASSUME NEW i \in Docs \ edited, InMongo(i)
        PROVE  rows[i] # NoRow /\ rows[i].value = source[i] /\ rows[i].stamped
    <3>1. Copied(i) BY <1>1, <2>2, CompletePassed
    <3>2. PICK row \in Row : row = [value |-> source[i], stamped |-> TRUE]
      BY <2>2 DEF Row, InMongo
    <3>3. row # NoRow BY DocsAreKeys
    <3>4. QED BY <3>1, <3>2, <3>3 DEF Copied
  <2>3. ASSUME NEW i \in Docs \ edited, Table[i] = "users", source[i] = AdminEmail
        PROVE  rows[Drawn] = NoRow
    <3>1. Apart(i, Drawn) /\ i \in Keys BY <2>3, DocsAreKeys DEF Apart, Unique, TableOf
    <3>2. InMongo(i) BY <2>3, MigrationAssumption DEF InMongo
    <3>3. QED
      BY <1>1, <2>2, <2>3, <3>1, <3>2, DocsAreKeys DEF Inductive, RowsBacked
  <2>4. ASSUME rows[Drawn] = NoRow, edited = {} PROVE Validates
    <3>1. ASSUME NEW i \in Docs
          PROVE  /\ rows[i] # NoRow <=> InMongo(i)
                 /\ rows[i] # NoRow => rows[i].value = source[i] /\ rows[i].stamped
      BY <2>1, <2>2, <2>4
    <3>2. QED BY <2>4, <3>1, DocsAreKeys DEF Validates, Keys
  <2>5. QED BY <2>1, <2>3, <2>4 DEF FlushLeavesSource
<1>2. Inductive => FlushLeavesSource BY <1>1 DEF FlushLeavesSource
<1>3. QED BY <1>2, MigrationInductive, PTL

(* Of a run that fails, the document it stopped at was edited, cannot      *)
(* become a row, or shares a unique value with the row of a bootstrap, of  *)
(* another document that was edited or is its duplicate in the source, or, *)
(* without --flush, with what an earlier run left.                         *)
THEOREM FailuresExplained == Spec => []FailureHasCause
<1>1. Inductive => FailureHasCause BY DEF Inductive
<1>2. QED BY <1>1, MigrationInductive, PTL

(* Running again over what is complete disturbs nothing at any moment.     *)
THEOREM RerunsDisturbNothing == Spec => []RerunKeepsRows
<1>1. Inductive => RerunKeepsRows BY DEF Inductive
<1>2. QED BY <1>1, MigrationInductive, PTL
=============================================================================
