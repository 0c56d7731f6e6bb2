--------------------------- MODULE SchemaMigration ---------------------------
(* The database file of a workspace, what opening it does to an older      *)
(* schema, and the init command, which runs the same schema script outside *)
(* any transaction. Of the schema this keeps its version, whether the      *)
(* tables before and after outbox are there, the form of the outbox table  *)
(* (old: without channel and target), and the replies in it.               *)
EXTENDS Naturals

CONSTANTS OldReplies,   \* replies in the outbox at the beginning
          MaxInits      \* bound: how often init is run

SchemaVersion == 2
Tables == {"before outbox", "after outbox"}

VARIABLES db,       \* the file, as committed
          legacy,   \* whether the workspace holds files of the time before SQLite
          init,     \* the init command: the next statement, or where it ended
          inits     \* how often it was run

schemaVars == <<db, legacy, init, inits>>

NoFile == [version |-> 0, tables |-> {}, outbox |-> "none", replies |-> {}, file |-> FALSE]
Made(version, form) ==
    [version |-> version, tables |-> Tables, outbox |-> form,
     replies |-> IF form = "none" THEN {} ELSE OldReplies, file |-> TRUE]

SchemaInit ==
    /\ db \in {NoFile, Made(SchemaVersion, "new")} \cup {Made(1, form) : form \in {"none", "old", "new"}}
    /\ legacy \in BOOLEAN /\ (legacy => db = NoFile)
    /\ init = "off" /\ inits = 0

Valid(d) == d.version = SchemaVersion /\ d.tables = Tables /\ d.outbox = "new"

(* The schema script, statement by statement: the version comes first, and *)
(* what is there already is left as it is.                                 *)
Script == <<"version", "before outbox", "outbox", "after outbox">>

Statement(s, d) ==
    CASE s = "version" -> [d EXCEPT !.version = SchemaVersion]
      [] s = "outbox"  -> IF d.outbox = "none" THEN [d EXCEPT !.outbox = "new"] ELSE d
      [] OTHER         -> [d EXCEPT !.tables = @ \cup {s}]

(* The init command.  It opens the file, which creates it. *)

InitEnds == {"off", "refused", "done", "broken"}

InitStart ==
    /\ init \in InitEnds /\ inits < MaxInits /\ inits' = inits + 1
    /\ \E force \in BOOLEAN :
          IF legacy /\ ~force THEN init' = "refused" /\ UNCHANGED <<db, legacy>>
          ELSE /\ legacy' = FALSE
               /\ db' = [db EXCEPT !.file = TRUE]
               /\ init' = "version"

InitStatement ==
    \E i \in 1..4 :
        /\ init = Script[i]
        /\ db' = Statement(init, db)
        /\ init' = IF i = 4 THEN "validate" ELSE Script[i + 1]
        /\ UNCHANGED <<legacy, inits>>

InitValidate ==
    /\ init = "validate"
    /\ init' = IF Valid(db) THEN "done" ELSE "broken"
    /\ UNCHANGED <<db, legacy, inits>>

\* The command is interrupted; what it has written stays.
InitKilled ==
    /\ init \in {Script[i] : i \in 1..4} \cup {"validate"}
    /\ init' = "broken"
    /\ UNCHANGED <<db, legacy, inits>>

InitCommand == InitStart \/ InitStatement \/ InitValidate \/ InitKilled

(* Opening a first version.  Whether it has an outbox was looked up before *)
(* the transaction.                                                        *)

\* Mutant of the next: without a transaction, and killed before the copy.
MigratedHalf(outboxExists) ==
    [version |-> SchemaVersion, tables |-> Tables, outbox |-> "new",
     replies |-> IF outboxExists THEN {} ELSE db.replies, file |-> TRUE]

\* Rename, script, copy and drop, committed as one.
Migrated(outboxExists) ==
    [version |-> SchemaVersion, tables |-> Tables,
     outbox  |-> IF outboxExists \/ db.outbox = "none" THEN "new" ELSE db.outbox,
     replies |-> db.replies, file |-> TRUE]
=============================================================================
