------------------------------ MODULE Migration ------------------------------
(***************************************************************************)
(* The copy of the MongoDB collections into the tables                     *)
(* (apps/users/management/commands/migrate_from_mongo.py), which may be    *)
(* killed and run again, with and without --flush, while the source is     *)
(* still in use and containers start and bootstrap a super admin.          *)
(*                                                                         *)
(* Of a document only what two rows may collide in is kept: the value of a *)
(* unique column (the email of a user, which is "" where it is missing,    *)
(* the player of a rating), or any value where no column is unique.        *)
(* Documents that cannot become rows are told by values of their own.      *)
(* Nothing is assumed of the source: documents may share a value that is   *)
(* unique in the table ("duplicate emails",                                *)
(* docs/MIGRATION_VALIDATION_REPORT.md:81).  Nothing but one run writes    *)
(* the tables beside the bootstrap ("before real traffic",                 *)
(* DEPLOYMENT.md:94).                                                      *)
(***************************************************************************)
EXTENDS Naturals, Sequences

CONSTANTS
  Docs,            \* the _id of the documents, which become primary keys
  Drawn,           \* the primary key that a bootstrap draws
  Table,           \* [Docs -> a table of Order]
  Values,
  ValuesOf,        \* [Docs -> SUBSET Values]: what a document may hold
  Refused,         \* what no row may hold: null where a column is NOT NULL (a
                   \* user without a role, a team without a club), or too long
  Undated,         \* documents whose times are no times
  AdminEmail,      \* SUPER_ADMIN_EMAIL
  Admins,          \* the users with role SUPER_ADMIN
  DefaultDatabase  \* MONGODB_URI names a database

Order == <<"clubs", "users", "age_groups", "teams", "events", "performances",
           "connection_requests">>
Keys == Docs \cup {Drawn}
TableOf(i) == IF i = Drawn THEN "users" ELSE Table[i]

ASSUME MigrationAssumption ==
  /\ Drawn \notin Docs
  /\ Table \in [Docs -> {Order[k] : k \in DOMAIN Order}]
  /\ ValuesOf \in [Docs -> SUBSET Values]
  /\ Refused \cup Undated \subseteq Values
  /\ AdminEmail \in Values \ Refused
  /\ Admins \subseteq {i \in Docs : Table[i] = "users"}
  /\ DefaultDatabase \in BOOLEAN
  /\ Values \cap {"unborn", "deleted"} = {}

VARIABLES
  source,          \* the documents; an _id is not used again
  rows,            \* the tables
  run,             \* the run of the command, or the last one
  bootstrap,       \* the bootstrap command of a container that starts
  edited,          \* history: the documents edited since the run began
  settled          \* history: a run completed, and since then neither was the
                   \* source edited nor a table flushed

vars == <<source, rows, run, bootstrap, edited, settled>>

Row == [value : Values, stamped : BOOLEAN]    \* stamped: with the source's times
NoRow == [value |-> "none"]

Ended == {"none", "killed", "failed", "noDatabase", "complete"}
Run ==
  [step : Ended \cup {"flush", "open", "copy", "stamp"}, flushes : BOOLEAN,
   at : 1 .. Len(Order) + 1, batch : SUBSET (Docs \X Values), doc : Keys]

(* The type invariant.                                                     *)
TypeOK ==
  /\ source \in [Docs -> Values \cup {"unborn", "deleted"}]
  /\ rows \in [Keys -> Row \cup {NoRow}]
  /\ run \in Run
  /\ bootstrap \in {"idle", "insert"}
  /\ edited \subseteq Docs
  /\ settled \in BOOLEAN

Unique(i) == TableOf(i) \in {"users", "performances"}
InMongo(i) == source[i] \in Values

Init ==
  /\ source \in [Docs -> Values \cup {"unborn"}]
  /\ \A i \in Docs : InMongo(i) => source[i] \in ValuesOf[i]
  /\ rows = [i \in Keys |-> NoRow]
  /\ run = [step |-> "none", flushes |-> FALSE, at |-> 1, batch |-> {}, doc |-> Drawn]
  /\ bootstrap = "idle"
  /\ edited = {}
  /\ settled = FALSE

-----------------------------------------------------------------------------
(* manage.py migrate_from_mongo [--flush]: handle *)

(* Without a database in the URI the fallback of line 74 reads os.environ, *)
(* and os is not imported.                                                 *)
Start ==
  /\ run.step \in Ended
  /\ \E f \in BOOLEAN :
       run' = [run EXCEPT !.step = IF ~DefaultDatabase THEN "noDatabase"
                                   ELSE IF f THEN "flush" ELSE "open",
                          !.flushes = f, !.batch = {},
                          !.at = IF f THEN Len(Order) ELSE 1]
  /\ edited' = {}
  /\ UNCHANGED <<source, rows, bootstrap, settled>>

(* Faulty variant: the users are not among the tables flushed.             *)
FlushKeepingUsers ==
  /\ run.step = "flush"
  /\ rows' = [i \in Keys |-> IF TableOf(i) = Order[run.at] /\ TableOf(i) # "users"
                             THEN NoRow ELSE rows[i]]
  /\ run' = IF run.at = 1 THEN [run EXCEPT !.step = "open"]
                          ELSE [run EXCEPT !.at = @ - 1]
  /\ settled' = FALSE
  /\ UNCHANGED <<source, bootstrap, edited>>

(* One table after the other is deleted, the last one of Order first.      *)
Flush ==
  /\ run.step = "flush"
  /\ rows' = [i \in Keys |-> IF TableOf(i) = Order[run.at] THEN NoRow ELSE rows[i]]
  /\ run' = IF run.at = 1 THEN [run EXCEPT !.step = "open"]
                          ELSE [run EXCEPT !.at = @ - 1]
  /\ settled' = FALSE
  /\ UNCHANGED <<source, bootstrap, edited>>

(* The documents of a collection are fetched, here at once: of a document  *)
(* that is edited while the cursor is read nothing is claimed below.       *)
Open ==
  /\ run.step = "open"
  /\ IF run.at > Len(Order)
     THEN /\ run' = [run EXCEPT !.step = "complete"]
          /\ settled' = (edited = {})
     ELSE /\ run' = [run EXCEPT !.step = "copy",
                       !.batch = {<<i, source[i]>> : i \in {k \in Docs :
                                    InMongo(k) /\ Table[k] = Order[run.at]}}]
          /\ UNCHANGED settled
  /\ UNCHANGED <<source, rows, bootstrap, edited>>

Taken(i, v) ==
  Unique(i) /\ \E k \in Keys \ {i} :
    TableOf(k) = TableOf(i) /\ rows[k] # NoRow /\ rows[k].value = v

(* A run that ends with an error names the document it could not copy.     *)
Fail(i) == run' = [run EXCEPT !.step = "failed", !.doc = i] /\ UNCHANGED rows

Write(d) ==
  /\ rows' = [rows EXCEPT ![d[1]] = [value |-> d[2], stamped |-> FALSE]]
  /\ run' = [run EXCEPT !.step = "stamp", !.batch = @ \ {d}, !.doc = d[1]]

(* Faulty variants: documents that are in the table are passed over; rows  *)
(* are only inserted; the row that is in the way is replaced.              *)
CopyOnlyNew ==
  /\ run.step = "copy"
  /\ \E d \in run.batch :
       IF rows[d[1]] # NoRow
       THEN run' = [run EXCEPT !.batch = @ \ {d}] /\ UNCHANGED rows
       ELSE IF d[2] \in Refused \/ Taken(d[1], d[2]) THEN Fail(d[1]) ELSE Write(d)
  /\ UNCHANGED <<source, bootstrap, edited, settled>>

CopyOnlyInserting ==
  /\ run.step = "copy"
  /\ \E d \in run.batch :
       IF rows[d[1]] # NoRow \/ d[2] \in Refused \/ Taken(d[1], d[2])
       THEN Fail(d[1]) ELSE Write(d)
  /\ UNCHANGED <<source, bootstrap, edited, settled>>

CopyDeletingFirst ==
  /\ run.step = "copy"
  /\ \E d \in run.batch :
       IF rows[d[1]] # NoRow
       THEN rows' = [rows EXCEPT ![d[1]] = NoRow] /\ UNCHANGED run
       ELSE IF d[2] \in Refused \/ Taken(d[1], d[2]) THEN Fail(d[1]) ELSE Write(d)
  /\ UNCHANGED <<source, bootstrap, edited, settled>>

(* update_or_create by _id; a column that refuses the document, or a       *)
(* unique value that another row holds, ends the run.  The times are those *)
(* of now until they are stamped.                                          *)
Copy ==
  /\ run.step = "copy"
  /\ \E d \in run.batch :
       IF d[2] \in Refused \/ Taken(d[1], d[2]) THEN Fail(d[1]) ELSE Write(d)
  /\ UNCHANGED <<source, bootstrap, edited, settled>>

(* _stamp, a statement of its own; _aware raises for what is no time, and  *)
(* the row stays as it was copied.                                         *)
Stamp ==
  /\ run.step = "stamp"
  /\ IF rows[run.doc].value \in Undated
     THEN Fail(run.doc)
     ELSE /\ rows' = [rows EXCEPT ![run.doc].stamped = TRUE]
          /\ run' = [run EXCEPT !.step = "copy"]
  /\ UNCHANGED <<source, bootstrap, edited, settled>>

Close ==
  /\ run.step = "copy" /\ run.batch = {}
  /\ run' = [run EXCEPT !.step = "open", !.at = @ + 1]
  /\ UNCHANGED <<source, rows, bootstrap, edited, settled>>

(* Killed, or cut off from one of the two databases.                       *)
Kill ==
  /\ run.step \notin Ended
  /\ run' = [run EXCEPT !.step = "killed"]
  /\ UNCHANGED <<source, rows, bootstrap, edited, settled>>

-----------------------------------------------------------------------------
(* What goes on beside a run *)

(* The users of the old service create, change and delete documents, and   *)
(* somebody repairs those that a run could not copy.                       *)
EditSource ==
  /\ \E i \in Docs :
       /\ source[i] # "deleted"
       /\ \E v \in ValuesOf[i] \cup (IF InMongo(i) THEN {"deleted"} ELSE {}) :
            v # source[i] /\ source' = [source EXCEPT ![i] = v]
       /\ edited' = edited \cup {i}
  /\ settled' = FALSE
  /\ UNCHANGED <<rows, run, bootstrap>>

(* A container starts: bootstrap_super_admin, in two statements.           *)
BeginBootstrap ==
  /\ bootstrap = "idle"
  /\ \A i \in Admins \cup {Drawn} : rows[i] = NoRow
  /\ bootstrap' = "insert"
  /\ UNCHANGED <<source, rows, run, edited, settled>>

(* Faulty variant: SUPER_ADMIN_EMAIL is not set.                           *)
InsertAdminUnset ==
  /\ bootstrap = "insert"
  /\ bootstrap' = "idle"
  /\ rows' = [rows EXCEPT ![Drawn] = [value |-> "unset", stamped |-> TRUE]]
  /\ UNCHANGED <<source, run, edited, settled>>

InsertAdmin ==
  /\ bootstrap = "insert"
  /\ bootstrap' = "idle"
  /\ IF Taken(Drawn, AdminEmail)
     THEN UNCHANGED rows
     ELSE rows' = [rows EXCEPT ![Drawn] = [value |-> AdminEmail, stamped |-> TRUE]]
  /\ UNCHANGED <<source, run, edited, settled>>

KillBootstrap ==
  /\ bootstrap = "insert"
  /\ bootstrap' = "idle"
  /\ UNCHANGED <<source, rows, run, edited, settled>>

Next ==
  \/ Start \/ Flush \/ Open \/ Copy \/ Stamp \/ Close \/ Kill
  \/ EditSource \/ BeginBootstrap \/ InsertAdmin \/ KillBootstrap

Spec == Init /\ [][Next]_vars

-----------------------------------------------------------------------------
(* Safety, whatever was killed, edited and bootstrapped before *)

Copied(i) == rows[i] = [value |-> source[i], stamped |-> TRUE]

(* When a run reports that the migration is complete, every document that  *)
(* was not edited meanwhile is in its table with its own times ("Preserves *)
(* every _id", DEPLOYMENT.md:105), although earlier runs died between the  *)
(* copy of a document and its stamp, or copied what has changed since.     *)
CompleteCopies ==
  run.step = "complete" => \A i \in Docs \ edited : InMongo(i) => Copied(i)

(* The checks of scripts/validate_migration.py: the same keys in every     *)
(* table, the same values, and the times of users (it compares no times of *)
(* ratings, and no updated_at but the users').                             *)
Validates ==
  \A i \in Keys :
    /\ rows[i] # NoRow <=> i \in Docs /\ InMongo(i)
    /\ rows[i] # NoRow => rows[i].value = source[i]
    /\ rows[i] # NoRow /\ TableOf(i) = "users" => rows[i].stamped

(* After a complete run with --flush the tables hold nothing else: the     *)
(* validation finds no problem, unless the source was edited.  Not even    *)
(* the super admin of a container that started during the run is left: its *)
(* row would have ended the run, if the source has a user of that address. *)
FlushLeavesSource ==
  run.step = "complete" /\ run.flushes =>
    /\ \A i \in Docs \ edited : ~InMongo(i) => rows[i] = NoRow
    /\ (\E i \in Docs \ edited : Table[i] = "users" /\ source[i] = AdminEmail)
         => rows[Drawn] = NoRow /\ (edited = {} => Validates)

(* A run that fails was stopped by a document that was edited meanwhile,   *)
(* that cannot become a row or be stamped, or whose unique value another   *)
(* row has: the super admin of a container, a document edited meanwhile or *)
(* one with the same value in the source, or, without --flush, what an     *)
(* earlier run left of a document that has changed since.  So a run with   *)
(* --flush over documents at rest that are well formed and share no unique *)
(* value does not fail, but for a bootstrap, whatever died before it       *)
(* ("safe to re-run", DEPLOYMENT.md:105).                                  *)
Stale(i) == rows[i] # NoRow /\ rows[i].value # source[i]
InTheWay(k, i) ==
  k # i /\ Unique(i) /\ TableOf(k) = TableOf(i) /\ rows[k] # NoRow /\ rows[k].value = source[i]

FailureHasCause ==
  run.step = "failed" =>
    \/ run.doc \in edited
    \/ source[run.doc] \in Refused \cup Undated
    \/ \E k \in Keys :
         /\ InTheWay(k, run.doc)
         /\ \/ k \in edited \cup {Drawn}
            \/ source[k] = source[run.doc]
            \/ ~run.flushes /\ Stale(k)

(* Nor does it disturb what is there: from a complete run on, until a      *)
(* flush or an edit, every document is in its table with its values at     *)
(* every moment of every further run, killed or not ("idempotent").        *)
RerunKeepsRows ==
  settled => \A i \in Docs : InMongo(i) => rows[i] # NoRow /\ ~Stale(i)

-----------------------------------------------------------------------------
(* The inductive invariant: how far the run has come, and what is true of  *)
(* the documents that it has passed and of those that it still holds.      *)

Apart(i, k) == i # k /\ Unique(i) /\ TableOf(i) = TableOf(k)

RowsBacked ==
  /\ \A i, k \in Keys :
       Apart(i, k) /\ rows[i] # NoRow /\ rows[k] # NoRow => rows[i].value # rows[k].value
  /\ rows[Drawn] # NoRow => rows[Drawn].value = AdminEmail

(* The documents of the tables before run.at, and of those of its own the  *)
(* ones that are neither in the batch nor about to be stamped.             *)
Passed(i) ==
  \/ \E k \in 1 .. run.at - 1 : Table[i] = Order[k]
  \/ /\ run.step \in {"copy", "stamp"} /\ Table[i] = Order[run.at]
     /\ \A d \in run.batch : d[1] # i
     /\ run.step = "stamp" => run.doc # i

CopiesSoFar ==
  run.step \in {"open", "copy", "stamp", "complete"} =>
    \A i \in Docs \ edited : InMongo(i) /\ Passed(i) => Copied(i)

BatchBacked ==
  run.step \in {"copy", "stamp"} =>
    /\ run.at <= Len(Order)
    /\ \A d \in run.batch :
         Table[d[1]] = Order[run.at] /\ (d[1] \in edited \/ source[d[1]] = d[2])
    /\ \A c, d \in run.batch : c[1] = d[1] => c = d

StampBacked ==
  run.step = "stamp" =>
    /\ run.doc \in Docs /\ Table[run.doc] = Order[run.at]
    /\ rows[run.doc] # NoRow
    /\ run.doc \in edited \/ rows[run.doc].value = source[run.doc]
    /\ \A d \in run.batch : d[1] # run.doc

(* Of a run that flushes: what it has emptied, and then that no row is of  *)
(* an earlier run.                                                         *)
FlushBacked ==
  /\ run.step = "flush" =>
       /\ run.flushes /\ run.at <= Len(Order)
       /\ \A i \in Docs, k \in run.at + 1 .. Len(Order) : Table[i] = Order[k] => rows[i] = NoRow
  /\ run.flushes /\ run.step \in {"open", "copy", "stamp", "complete"} =>
       \A i \in Docs \ edited : rows[i] # NoRow => rows[i].value = source[i]

Inductive ==
  /\ TypeOK
  /\ run.step = "failed" => run.doc \in Docs
  /\ RowsBacked /\ CopiesSoFar /\ BatchBacked /\ StampBacked /\ FlushBacked
  /\ run.step = "complete" => run.at > Len(Order)
  /\ settled => edited = {}
  /\ FailureHasCause /\ RerunKeepsRows

-----------------------------------------------------------------------------
(* What a comment claims and the code refutes *)

(* "The production URI has no DB in its path ... so fall back to           *)
(* MONGODB_DB" (migrate_from_mongo.py:67): a run finds its database.       *)
FallsBack == run.step # "noDatabase"
=============================================================================
