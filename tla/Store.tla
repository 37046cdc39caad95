-------------------------------- MODULE Store --------------------------------
(***************************************************************************)
(* The event store as the commands of this release share it: ensure_schema *)
(* (_db.py), the migrations (migrations/__init__.py), init, `db migrate`,  *)
(* `db prune`, producers and a broadcast daemon.  Processes interleave     *)
(* between their SQL transactions and may be killed anywhere; a            *)
(* transaction that was open then is rolled back.                          *)
(*                                                                         *)
(* The table is "none", "old" (an earlier release's, short of columns),    *)
(* "keyed" (all columns, but delivery_id for a key) or "seq" (schema.sql). *)
(* A row is an event and its seq, 0 before there is one.                   *)
(***************************************************************************)
EXTENDS Integers, FiniteSetsExt

CONSTANTS
  Procs,      \* processes
  Nil,       \* no process, no tracking table
  MaxEvents,  \* bound: rows ever inserted
  MaxStarts   \* bound: commands run

(* No table, no process: no list of migrations and no process.             *)
ASSUME StoreAssumption == Nil \notin Procs /\ \A known \in SUBSET (1 .. 3) : Nil # known

VARIABLES
  file,       \* whether the database file exists
  table,      \* the shape of the events table
  tracked,    \* schema_migrations, Nil before it exists
  rows,       \* <<event, seq>>
  high,       \* sqlite_sequence: the highest seq given
  writer,     \* who is between BEGIN IMMEDIATE and COMMIT
  pc,         \* per process: where it is
  job,        \* per process: [kind, target, vacuum]
  seen,       \* per process: the shape it read, the rows it doomed or copied
  pending,    \* per process: the migrations it is to apply
  cursor,     \* the daemon's _cursor
  starts,     \* commands run so far
  born,       \* events inserted so far
  owed,       \* events inserted under the present daemon, not yet swept
  ran,        \* how often the body of each migration was committed
  moved       \* what has happened to rows: "renumbered", "swapped" (history)

disk == <<file, table, tracked, rows, high>>
procs == <<writer, pc, job, seen, pending>>
history == <<starts, born, owed, ran, moved>>
storeVars == <<disk, procs, cursor, history>>

Migrations == {1, 2}
Jobs == [kind : {"daemon", "init"}] \cup [kind : {"migrate"}, target : Migrations]
          \cup [kind : {"prune"}, vacuum : BOOLEAN]
SeqsOf(R) == {r[2] : r \in R}
Serving == {p \in Procs : pc[p] = "serving"}

Goto(p, where) == pc' = [pc EXCEPT ![p] = where]
See(p, what) == seen' = [seen EXCEPT ![p] = what]

-----------------------------------------------------------------------------
(* Transactions.                                                           *)

(* BEGIN IMMEDIATE with busy_timeout=0: the lock, or another try, or, the  *)
(* tries used up, the end.                                                 *)
BeginTx(p, from, to) ==
  /\ pc[p] = from
  /\ writer = Nil
  /\ writer' = p
  /\ Goto(p, to)
  /\ UNCHANGED <<disk, job, seen, pending, cursor, history>>

BusyTx(p, from) ==
  /\ pc[p] = from
  /\ writer \notin {Nil, p}
  /\ Goto(p, "failed")
  /\ UNCHANGED <<disk, writer, job, seen, pending, cursor, history>>

Commit(p, to) == writer' = Nil /\ Goto(p, to)

(* ROLLBACK and raise.                                                     *)
Rollback(p) == Commit(p, "failed") /\ UNCHANGED <<disk, ran, moved>>

(* Mutant: a plain rowid is one more than the highest in the table.        *)
InsertedByRowid(event) ==
  /\ high' = IF table = "seq" THEN Max({0} \cup SeqsOf(rows)) + 1 ELSE high
  /\ rows' = rows \cup {<<event, high'>>}

Inserted(event) ==
  /\ high' = IF table = "seq" THEN high + 1 ELSE high
  /\ rows' = rows \cup {<<event, high'>>}

(* A producer: emit, a poll, the listener; it needs every column.          *)
Insert ==
  /\ born < MaxEvents
  /\ writer = Nil
  /\ table \in {"keyed", "seq"}
  /\ Inserted(born + 1)
  /\ born' = born + 1
  /\ owed' = IF Serving = {} THEN owed ELSE owed \cup {born + 1}
  /\ UNCHANGED <<file, table, tracked, procs, cursor, starts, ran, moved>>

-----------------------------------------------------------------------------
(* ensure_schema.                                                          *)

Command(p, j) ==
  /\ starts < MaxStarts
  /\ pc[p] = "idle"
  /\ starts' = starts + 1
  /\ job' = [job EXCEPT ![p] = j]
  /\ Goto(p, IF j.kind = "prune" THEN "check"
              ELSE IF j.kind = "migrate" /\ file THEN "plan" ELSE "columns")
  /\ UNCHANGED <<disk, writer, seen, pending, cursor, born, owed, ran, moved>>

(* connect creates the file; the columns are read outside the transaction. *)
ReadColumns(p) ==
  /\ pc[p] = "columns"
  /\ file' = TRUE
  /\ See(p, table)
  /\ Goto(p, "schema")
  /\ UNCHANGED <<table, tracked, rows, high, writer, job, pending, cursor, history>>

(* Before a retry the additive path reads the columns again.               *)
RetrySchema(p) ==
  /\ pc[p] = "schema"
  /\ writer \notin {Nil, p}
  /\ seen[p] # "none"
  /\ See(p, table)
  /\ UNCHANGED <<disk, writer, pc, job, pending, cursor, history>>

(* ADD COLUMN of a column that is there, or an index on one that is not,   *)
(* is an error.                                                            *)
SchemaFits(was, is) == was = "old" <=> is = "old"
Ensured(is) == [none |-> "seq", old |-> "keyed", keyed |-> "keyed", seq |-> "seq"][is]

CommitSchema(p) ==
  /\ pc[p] = "schema_tx"
  /\ UNCHANGED <<file, tracked, rows, high, job, seen, pending, cursor, starts, born, owed>>
  /\ IF SchemaFits(seen[p], table)
     THEN /\ table' = Ensured(table)
          /\ Commit(p, IF job[p].kind = "daemon" THEN "seed"
                       ELSE IF job[p].kind = "init" THEN "mark" ELSE "plan")
          /\ UNCHANGED <<ran, moved>>
     ELSE Rollback(p)

(* _seed_cursor, on a table that has one, and the bind of the socket.      *)
Seed(p) ==
  /\ pc[p] = "seed"
  /\ IF table = "seq" /\ Serving = {}
     THEN /\ cursor' = Max({0} \cup SeqsOf(rows))
          /\ owed' = {}
          /\ Goto(p, "serving")
     ELSE Goto(p, "failed") /\ UNCHANGED <<cursor, owed>>
  /\ UNCHANGED <<disk, writer, job, seen, pending, starts, born, ran, moved>>

(* One broadcast pass, when no row is left above the cursor.               *)
Sweep(p) ==
  /\ pc[p] = "serving"
  /\ cursor' = Max({cursor} \cup SeqsOf(rows))
  /\ owed' = owed \ {r[1] : r \in {x \in rows : x[2] > cursor}}
  /\ UNCHANGED <<disk, procs, starts, born, ran, moved>>

-----------------------------------------------------------------------------
(* Migrations.                                                             *)

Tracked == IF tracked = Nil THEN {} ELSE tracked

(* _ensure_tracking_table writes when there is no table: the lock again.   *)
Locked(p) == tracked = Nil /\ writer # Nil

(* mark_baseline_applied, in init.                                         *)
MarkBaseline(p) ==
  /\ pc[p] = "mark"
  /\ IF writer = Nil
     THEN tracked' = Tracked \cup Migrations /\ Goto(p, "idle")
     ELSE Goto(p, "failed") /\ UNCHANGED tracked
  /\ UNCHANGED <<file, table, rows, high, writer, job, seen, pending, cursor, history>>

(* apply_pending: plan, which refuses migrations that are not on disk.     *)
Plan(p) ==
  /\ pc[p] = "plan"
  /\ file' = TRUE
  /\ IF Locked(p) \/ Tracked \notin SUBSET Migrations
     THEN Goto(p, "failed") /\ UNCHANGED <<tracked, pending>>
     ELSE /\ tracked' = Tracked
          /\ pending' = [pending EXCEPT ![p] = {m \in Migrations \ Tracked : m <= job[p].target}]
          /\ Goto(p, "apply")
  /\ UNCHANGED <<table, rows, high, writer, job, seen, cursor, history>>

(* What the body of a migration leaves; "none" when it fails.              *)
Migrated(m) ==
  IF m = 1 THEN IF table = "none" THEN "old" ELSE table
  ELSE IF table \in {"keyed", "seq"} THEN "seq" ELSE "none"

Rank(r) == Cardinality({x \in rows : x[1] <= r[1]})

(* Mutant: the look inside the transaction is left out.                    *)
AlreadyByPlan(m) == m = 0

(* The look inside the transaction.                                        *)
Already(m) == m \in tracked

(* _apply_one_with_retry: look again, run, record, in one transaction; the *)
(* look is why the primary key of the record is never in the way.          *)
ApplyOne(p) ==
  LET m == Min(pending[p])
  IN  /\ pc[p] = "apply_tx"
      /\ UNCHANGED <<file, job, seen, cursor, starts, born, owed>>
      /\ \/ /\ Already(m)
            /\ Commit(p, "apply")
            /\ pending' = [pending EXCEPT ![p] = @ \ {m}]
            /\ UNCHANGED <<table, tracked, rows, high, ran, moved>>
         \/ /\ ~Already(m) /\ Migrated(m) # "none"
            /\ table' = Migrated(m)
            /\ tracked' = tracked \cup {m}
            /\ rows' = IF m = 2 THEN {<<r[1], Rank(r)>> : r \in rows} ELSE rows
            /\ high' = IF m = 2 THEN Cardinality(rows) ELSE high
            /\ ran' = [ran EXCEPT ![m] = @ + 1]
            /\ moved' = IF m = 2 /\ table = "seq" THEN moved \cup {"renumbered"} ELSE moved
            /\ pending' = [pending EXCEPT ![p] = @ \ {m}]
            /\ Commit(p, "apply")
         \/ /\ ~Already(m) /\ Migrated(m) = "none"
            /\ Rollback(p)
            /\ UNCHANGED pending

-----------------------------------------------------------------------------
(* prune.                                                                  *)

(* The socket is looked for once; then the oldest rows are doomed.         *)
Doom(p) ==
  /\ pc[p] = "check"
  /\ IF ~file \/ Serving # {} \/ table \in {"none", "old"}
     THEN Goto(p, "failed") /\ UNCHANGED seen
     ELSE /\ \E n \in 0 .. Cardinality(rows) : See(p, {r[1] : r \in {x \in rows : Rank(x) <= n}})
          /\ Goto(p, "delete")
  /\ UNCHANGED <<disk, writer, job, pending, cursor, history>>

(* _delete_ids_with_retry.                                                 *)
Delete(p) ==
  /\ pc[p] = "delete_tx"
  /\ rows' = {r \in rows : r[1] \notin seen[p]}
  /\ owed' = owed \ seen[p]
  /\ Commit(p, IF job[p].vacuum THEN "vacuum" ELSE "idle")
  /\ UNCHANGED <<file, table, tracked, high, job, seen, pending, cursor, starts, born, ran, moved>>

(* _vacuum_into: a copy, then os.replace.  Who had the file open goes on   *)
(* with the one that is no longer there ("astray").                        *)
Connected == {"schema", "schema_tx", "apply", "apply_tx", "delete_tx"}

Copy(p) ==
  /\ pc[p] = "vacuum"
  /\ See(p, <<table, tracked, rows, high>>)
  /\ Goto(p, "replace")
  /\ UNCHANGED <<disk, writer, job, pending, cursor, history>>

Replace(p) ==
  /\ pc[p] = "replace"
  /\ table' = seen[p][1] /\ tracked' = seen[p][2] /\ rows' = seen[p][3] /\ high' = seen[p][4]
  /\ moved' = IF seen[p] = <<table, tracked, rows, high>> THEN moved ELSE moved \cup {"swapped"}
  /\ pc' = [q \in Procs |-> IF q = p THEN "idle" ELSE IF pc[q] \in Connected THEN "astray" ELSE pc[q]]
  /\ writer' = Nil
  /\ UNCHANGED <<file, job, seen, pending, cursor, starts, born, owed, ran>>

-----------------------------------------------------------------------------
(* An end, an error or a kill; the next command is another process.        *)
End(p) ==
  /\ pc[p] # "idle"
  /\ pc[p] = "apply" => pending[p] # {}
  /\ writer' = IF writer = p THEN Nil ELSE writer
  /\ Goto(p, "idle")
  /\ See(p, Nil)
  /\ pending' = [pending EXCEPT ![p] = {}]
  /\ owed' = IF pc[p] = "serving" THEN {} ELSE owed
  /\ UNCHANGED <<disk, job, cursor, starts, born, ran, moved>>

ApplyDone(p) ==
  /\ pc[p] = "apply" /\ pending[p] = {}
  /\ Goto(p, "idle")
  /\ UNCHANGED <<disk, writer, job, seen, pending, cursor, history>>

(* Nothing yet, or what an earlier or a later release left.                *)
StoreInit ==
  /\ \/ file = FALSE /\ table = "none" /\ tracked = Nil
     \/ file = TRUE /\ table = "old" /\ tracked \in {Nil, {1}}
     \/ file = TRUE /\ table = "seq" /\ tracked \in {Nil, {1, 2}, {1, 2, 3}}
  /\ rows = {} /\ high = 0 /\ writer = Nil /\ cursor = 0
  /\ pc = [p \in Procs |-> "idle"] /\ seen = [p \in Procs |-> Nil]
  /\ job = [p \in Procs |-> [kind |-> "init"]]
  /\ pending = [p \in Procs |-> {}]
  /\ starts = 0 /\ born = 0 /\ owed = {} /\ ran = [m \in Migrations |-> 0] /\ moved = {}

Step(p) ==
  \/ \E j \in Jobs : Command(p, j)
  \/ ReadColumns(p) \/ RetrySchema(p) \/ BeginTx(p, "schema", "schema_tx") \/ CommitSchema(p)
  \/ BusyTx(p, "schema") \/ Seed(p) \/ Sweep(p)
  \/ MarkBaseline(p) \/ Plan(p) \/ ApplyDone(p) \/ ApplyOne(p) \/ BusyTx(p, "apply")
  \/ (pending[p] # {} /\ BeginTx(p, "apply", "apply_tx"))
  \/ Doom(p) \/ BeginTx(p, "delete", "delete_tx") \/ Delete(p) \/ BusyTx(p, "delete")
  \/ Copy(p) \/ Replace(p)
  \/ End(p)

StoreNext == Insert \/ \E p \in Procs : Step(p)

StoreSpec == StoreInit /\ [][StoreNext]_storeVars

-----------------------------------------------------------------------------
(* However many run `db migrate` and wherever they die, the body of a      *)
(* migration is committed at most once, after those before it, and the     *)
(* table then has the shape it makes; unless `db prune --vacuum` swapped   *)
(* the file under it.                                                      *)
MigratedOnce ==
  \A m \in Migrations : ran[m] > 0 =>
    \/ "swapped" \in moved
    \/ ran[m] = 1 /\ 1 .. m \subseteq tracked /\ (m = 2 => table = "seq")

(* A row inserted under a running daemon lies above the daemon's cursor    *)
(* until it is swept: a prune that the daemon overtook (the socket is      *)
(* looked for once) cannot make a seq come twice.  Rows renumbered by      *)
(* migration 0002 or swapped away by --vacuum are excepted.                *)
NothingIsStranded ==
  moved # {} \/ \A r \in rows : r[1] \in owed => Serving = {} \/ r[2] > cursor

(* schema.sql says seq is "monotonic and NEVER reused even after `waitbus  *)
(* db prune` deletes the highest row".                                     *)
(* The code does not keep it (README, "Where the code disagrees").         *)
SeqNeverReused == [][high' >= high]_storeVars

(* mark_baseline_applied records the migrations "ensure_schema has         *)
(* bootstrapped": what is recorded has been done.                          *)
RecordedIsDone == tracked # Nil /\ 2 \in tracked => table = "seq"

=============================================================================
