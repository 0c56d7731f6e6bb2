-------------------------------- MODULE Host --------------------------------
(* One serve process after another: opening the database, assembling,      *)
(* starting Telegram, the event loop and the workers, syncing the cron     *)
(* jobs, serving, and stopping.  The workers run from their start until    *)
(* the stop has waited for them.                                           *)
EXTENDS SchemaMigration

CONSTANTS MaxCrashes,   \* bound: processes that crash or are stopped
          MaxLosses     \* bound: starts and transactions of the workers that fail

VARIABLES proc,       \* where the process is
          seen,       \* whether the migration found an outbox, before its transaction
          losses,     \* starts and transactions that failed so far
          crashes     \* crashes and stops so far

hostVars == <<schemaVars, proc, seen, losses, crashes>>

Opening == {"version", "inspect", "migrate", "validate"}
Running == {"workers", "serving", "stopping"}
Places  == {"down", "open", "telegram", "stopped"} \cup Opening \cup Running

HostInit ==
    /\ SchemaInit
    /\ proc = "down" /\ seen = FALSE /\ losses = 0 /\ crashes = 0

Stay == UNCHANGED <<losses, crashes>>

\* Only a workspace that was initialized is opened.
Open ==
    /\ proc = "down" /\ ~legacy /\ db.file
    /\ proc' = "version"
    /\ UNCHANGED <<schemaVars, seen>> /\ Stay

ReadVersion ==
    /\ proc = "version"
    /\ proc' = CASE db.version >= SchemaVersion -> "validate"
                 [] db.version = 1 -> "inspect"
                 [] OTHER -> "down"
    /\ UNCHANGED <<schemaVars, seen>> /\ Stay

Inspect ==
    /\ proc = "inspect"
    /\ seen' = (db.outbox # "none")
    /\ proc' = "migrate"
    /\ UNCHANGED schemaVars /\ Stay

Migrate ==
    /\ proc = "migrate"
    /\ db' = Migrated(seen)
    /\ proc' = "validate" /\ seen' = FALSE
    /\ UNCHANGED <<legacy, init, inits>> /\ Stay

Validate ==
    /\ proc = "validate"
    /\ proc' = IF Valid(db) THEN "open" ELSE "down"
    /\ UNCHANGED <<schemaVars, seen>> /\ Stay

\* The services are assembled and Telegram, if it is enabled, polls.
StartTelegram ==
    /\ proc = "open"
    /\ proc' = "telegram"
    /\ UNCHANGED <<schemaVars, seen>> /\ Stay

\* The event loop is started, then every worker.
StartHost ==
    /\ proc = "telegram"
    /\ proc' = "workers"
    /\ UNCHANGED <<schemaVars, seen>> /\ Stay

\* Any step of a start may fail, and the command ends; a migration is rolled back.
StartFails ==
    /\ proc \in Opening \cup {"open", "telegram"} /\ losses < MaxLosses
    /\ losses' = losses + 1
    /\ proc' = "down" /\ seen' = FALSE
    /\ UNCHANGED <<schemaVars, crashes>>

\* A signal, or a listener that failed: the contexts of all workers are cancelled.
Stop ==
    /\ proc = "serving" /\ crashes < MaxCrashes
    /\ crashes' = crashes + 1
    /\ proc' = "stopping"
    /\ UNCHANGED <<schemaVars, seen, losses>>

\* The loop and the workers have returned; Telegram is stopped, the database closed.
CloseDown ==
    /\ proc = "stopped"
    /\ proc' = "down"
    /\ UNCHANGED <<schemaVars, seen>> /\ Stay

Boot == Open \/ ReadVersion \/ Inspect \/ Migrate \/ Validate \/ StartTelegram \/ StartHost

HostStep ==
    \/ Boot \/ StartFails \/ CloseDown
    \/ (InitCommand /\ UNCHANGED <<proc, seen, losses, crashes>>)

\* The process dies where it is, and with it a transaction under way.
HostCrash ==
    /\ proc # "down" /\ crashes < MaxCrashes
    /\ crashes' = crashes + 1
    /\ proc' = "down" /\ seen' = FALSE
    /\ UNCHANGED <<schemaVars, losses>>
=============================================================================
