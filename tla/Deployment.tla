------------------------------ MODULE Deployment ------------------------------
(***************************************************************************)
(* The preview host: ops/promote.sh installs a release, migrates the       *)
(* database and switches the symlink /opt/cobri/current; ops/rollback.sh    *)
(* switches it back.  systemd starts both services from whatever the link   *)
(* names at that moment, and again whenever one fails.                     *)
(*                                                                         *)
(* One script runs at a time (the workflow's concurrency group).  Any of   *)
(* its commands may fail, the restarts included, and it may die between    *)
(* any two.  The candidate runs from a link, a port and a database of its  *)
(* own.                                                                    *)
(***************************************************************************)
EXTENDS Naturals

CONSTANTS
    Release,   \* releases, each in /opt/cobri/releases/<tag>
    Migration, \* Migration[r]: the last migration r's code has and needs
    Nothing,   \* no link, no release, an empty file
    Itself     \* the path of the link /opt/cobri/current, as a target

ASSUME MigrationAssumption == Migration \in [Release -> Nat]
ASSUME NamesAssumption == Nothing \notin Release /\ Itself \notin Release /\ Nothing # Itself

VARIABLES
    link,      \* where /opt/cobri/current points
    recorded,  \* /opt/cobri/previous-release
    schema,    \* the last migration the database has
    service,   \* the release each service runs
    script,    \* the script under way
    promoted,  \* a promotion has succeeded on this host
    settled    \* since the link moved last, its script has ended with 0, or its
               \* trap has seen the restart through, or the host was started

hostVars == <<link, recorded, schema, service, script, promoted, settled>>

Service == {"api", "worker"}

NoScript == [pc |-> "idle"]

Promotion == [pc : {"migrate", "record", "switch", "mark", "restart", "probe",
                    "trap", "trap_restart"},
              release : Release, previous : Release \union {Nothing, Itself}]

Rollback == [pc : {"undo_restart", "undo_probe"}]

TypeOK ==
    /\ link \in Release \union {Nothing, Itself}
    /\ recorded \in Release \union {Nothing, Itself}
    /\ schema \in Nat
    /\ service \in [Service -> Release \union {Nothing}]
    /\ script \in {NoScript} \union Promotion \union Rollback
    /\ promoted \in BOOLEAN
    /\ settled \in BOOLEAN

\* A host fresh from bootstrap-host.sh.
Init ==
    /\ link = Nothing
    /\ recorded = Nothing
    /\ schema = 0
    /\ service = [s \in Service |-> Nothing]
    /\ script = NoScript
    /\ promoted = FALSE
    /\ settled = TRUE

-----------------------------------------------------------------------------
(* systemd. *)

\* What a service that is started runs: a link to nothing or to itself fails.
Linked == IF link \in Release THEN link ELSE Nothing

\* systemctl restart stops both services and starts what the link names; each
\* may fail to come up.
Restarted == [Service -> {Linked, Nothing}]

\* A restart that fails: one may also run on as it did.
RestartFailed == {run \in [Service -> Release \union {Nothing}] :
                    \A s \in Service : run[s] \in {service[s], Linked, Nothing}}

Fails(s) ==
    /\ service[s] # Nothing
    /\ service' = [service EXCEPT ![s] = Nothing]
    /\ UNCHANGED <<link, recorded, schema, script, promoted, settled>>

\* Restart=on-failure, and the services enabled at boot.
Starts(s) ==
    /\ service[s] = Nothing
    /\ link \in Release
    /\ service' = [service EXCEPT ![s] = link]
    /\ UNCHANGED <<link, recorded, schema, script, promoted, settled>>

\* The host goes down, and the script with it.
HostStops ==
    /\ service' = [s \in Service |-> Nothing]
    /\ script' = NoScript
    /\ settled' = TRUE
    /\ UNCHANGED <<link, recorded, schema, promoted>>

-----------------------------------------------------------------------------
(* promote.sh. *)

\* Seeded fault: the link's path instead of what it resolves to.
ResolvedUnfollowed(path) == Itself

\* readlink -f: a missing link resolves to its own path, a loop to nothing.
Resolved(path) ==
    CASE path \in Release -> path
      [] path = Nothing   -> Itself
      [] path = Itself    -> Nothing

\* previous is read; the archive is extracted and the database dumped.
StartPromotion(r) ==
    /\ script = NoScript
    /\ script' = [pc |-> "migrate", release |-> r, previous |-> Resolved(link)]
    /\ UNCHANGED <<link, recorded, schema, service, promoted, settled>>

Goto(pc) == script' = [script EXCEPT !.pc = pc]

\* Seeded fault: the status of alembic is not looked at.
MigrateUnchecked ==
    /\ script.pc = "migrate"
    /\ schema' \in {schema, Migration[script.release]}
    /\ Goto("record")
    /\ UNCHANGED <<link, recorded, service, promoted, settled>>

\* alembic upgrade head: it knows no migration beyond the release's own.
Migrate ==
    /\ script.pc = "migrate"
    /\ schema <= Migration[script.release]
    /\ schema' = Migration[script.release]
    /\ Goto("record")
    /\ UNCHANGED <<link, recorded, service, promoted, settled>>

Record ==
    /\ script.pc = "record"
    /\ recorded' = script.previous
    /\ Goto("switch")
    /\ UNCHANGED <<link, schema, service, promoted, settled>>

Switch ==
    /\ script.pc = "switch"
    /\ link' = script.release
    /\ settled' = FALSE
    /\ Goto("mark")
    /\ UNCHANGED <<recorded, schema, service, promoted>>

\* switched=1: from here on the trap has work to do.
Mark ==
    /\ script.pc = "mark"
    /\ Goto("restart")
    /\ UNCHANGED <<link, recorded, schema, service, promoted, settled>>

\* Seeded fault: the status of systemctl is not looked at.
RestartUnchecked ==
    /\ script.pc = "restart"
    /\ service' \in RestartFailed
    /\ Goto("probe")
    /\ UNCHANGED <<link, recorded, schema, promoted, settled>>

Restart ==
    /\ script.pc = "restart"
    /\ service' \in Restarted
    /\ Goto("probe")
    /\ UNCHANGED <<link, recorded, schema, promoted, settled>>

\* Only the API is asked whether it lives.
Probe ==
    /\ script.pc = "probe"
    /\ service["api"] # Nothing
    /\ script' = NoScript
    /\ promoted' = TRUE
    /\ settled' = TRUE
    /\ UNCHANGED <<link, recorded, schema, service>>

\* A command fails, or a signal arrives, once switched is 1.
AbortSwitched ==
    /\ script.pc \in {"restart", "probe"}
    /\ service' \in {service} \union (IF script.pc = "restart" THEN RestartFailed ELSE {})
    /\ Goto("trap")
    /\ UNCHANGED <<link, recorded, schema, promoted, settled>>

\* rollback_on_error.  The test -d follows the link: after a first promotion
\* the link's own path is a directory, and ln makes the link point at itself.
Restore ==
    /\ script.pc = "trap"
    /\ script.previous # Nothing
    /\ link' = script.previous
    /\ Goto("trap_restart")
    /\ UNCHANGED <<recorded, schema, service, promoted, settled>>

\* "restored", whether the restart goes through or not.
RestartRestored ==
    /\ script.pc = "trap_restart"
    /\ \/ service' \in Restarted /\ settled' = TRUE
       \/ service' \in RestartFailed /\ UNCHANGED settled
    /\ script' = NoScript
    /\ UNCHANGED <<link, recorded, schema, promoted>>

GiveUp ==
    /\ script.pc = "trap"
    /\ script.previous = Nothing
    /\ script' = NoScript
    /\ UNCHANGED <<link, recorded, schema, service, promoted, settled>>

-----------------------------------------------------------------------------
(* rollback.sh: whatever release its caller names, it takes the recorded one. *)

StartRollback ==
    /\ script = NoScript
    /\ recorded \in Release
    /\ link' = recorded
    /\ script' = [pc |-> "undo_restart"]
    /\ settled' = FALSE
    /\ UNCHANGED <<recorded, schema, service, promoted>>

RestartBack ==
    /\ script.pc = "undo_restart"
    /\ service' \in Restarted
    /\ Goto("undo_probe")
    /\ UNCHANGED <<link, recorded, schema, promoted, settled>>

EndRollback ==
    /\ script.pc = "undo_probe"
    /\ service["api"] # Nothing
    /\ script' = NoScript
    /\ settled' = TRUE
    /\ UNCHANGED <<link, recorded, schema, service, promoted>>

-----------------------------------------------------------------------------
\* What a script that dies may have got done of its current command.
PartlyMigrated ==
    IF script.pc = "migrate" /\ schema <= Migration[script.release]
    THEN {schema, Migration[script.release]} ELSE {schema}

PartlyRestarted ==
    IF script.pc \in {"restart", "trap_restart", "undo_restart"} THEN RestartFailed ELSE {service}

\* The script ends where it is: a command of promote.sh fails while switched is
\* 0, one of rollback.sh fails, the trap's ln does, or a signal kills either.
Dies ==
    /\ script # NoScript
    /\ schema' \in PartlyMigrated
    /\ service' \in PartlyRestarted
    /\ script' = NoScript
    /\ UNCHANGED <<link, recorded, promoted, settled>>

Promote ==
    \/ \E r \in Release : StartPromotion(r)
    \/ Migrate \/ Record \/ Switch \/ Mark \/ Restart \/ Probe
    \/ AbortSwitched \/ Restore \/ RestartRestored \/ GiveUp

Next ==
    \/ Promote
    \/ StartRollback \/ RestartBack \/ EndRollback
    \/ Dies
    \/ \E s \in Service : Fails(s) \/ Starts(s)
    \/ HostStops

Spec == Init /\ [][Next]_hostVars

-----------------------------------------------------------------------------
\* No service ever runs code that needs a migration the database lacks, through
\* failed promotions, roll-backs, restarts by systemd and crashes of the host
\* between any two commands.
SchemaCoversCode ==
    \A s \in Service : service[s] \in Release => Migration[service[s]] <= schema

\* Once the script that moved the link last has ended with 0, or its trap has
\* seen the restart through, API and worker run the linked release or do not run,
\* whatever failing scripts left behind before, until the link moves again.
\* (A restart that fails in the trap or in rollback.sh, or a script that dies
\* after its ln, may leave them on the other release.)
ServicesAgree ==
    settled => \A s \in Service : service[s] \in {link, Nothing}

\* From the first promotion that succeeds on, the link names a release, whatever
\* fails later.  (Before it, a failed promotion leaves a link to itself.)
PromotedStaysServed == promoted => link \in Release

=============================================================================
