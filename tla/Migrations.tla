----------------------------- MODULE Migrations -----------------------------
(* Migrations at start-up: runMigrations of services/migrationRunner.js, as  *)
(* services/retainedMigrationRunner.js calls it from bootstrap of server.js. *)
(* Several replicas start at once, from builds that need not agree on what a *)
(* migration says; an advisory lock of the database, which ends with its     *)
(* connection, lets one run at a time.  The database commits every statement *)
(* of a migration by itself.                                                 *)
(*                                                                           *)
(* Left out: the check that historical migrations are applied, which reads   *)
(* the same ledger and only refuses to start; the adoption of a legacy       *)
(* schema, whose boundary all retained migrations are beyond; and the wait   *)
(* for the lock, which may time out.                                         *)
EXTENDS Naturals

CONSTANTS Replicas,
          Migrations,  \* ids, ascending
          Checksums,
          Builds,      \* a build has a checksum for each migration, NoScript where it has none
          NoScript,
          Size         \* statements of a migration

\* Migrations are numbered from 1: 0 is none.  A build has a script, or none,
\* for each.
ASSUME MigrationsAssumption ==
    /\ Migrations \subseteq Nat \ {0} /\ Size \in Nat /\ NoScript \notin Checksums
    /\ Builds # {} /\ Builds \subseteq [Migrations -> Checksums \cup {NoScript}]

VARIABLES
    ledger,    \* schema_migrations: status and checksum
    executed,  \* <<migration, checksum, statement>> the schema has seen
    lock,      \* which replicas believe they hold the lock
    replica    \* where the start-up of each replica is

migrationVars == <<ledger, executed, lock, replica>>

Down == [at |-> "down", build |-> CHOOSE b \in Builds : TRUE, next |-> 0, done |-> 0]

MigrationsInit ==
    /\ ledger = [m \in Migrations |-> [status |-> "none", checksum |-> NoScript]]
    /\ executed = {}
    /\ lock = {}
    /\ replica = [r \in Replicas |-> Down]
-----------------------------------------------------------------------------
Script(r, m) == replica[r].build[m]
Discovered(r) == {m \in Migrations : Script(r, m) # NoScript}

\* The migration the loop is at; none when it is through.
Current(r) == {m \in Discovered(r) : m > replica[r].next /\ \A n \in Discovered(r) : n > replica[r].next => m <= n}

Is(r, at) == replica[r].at = at
Goes(r, at) == replica' = [replica EXCEPT ![r].at = at]

\* A process starts with the migrations of its build.
Start(r, build) ==
    /\ Is(r, "down")
    /\ replica' = [replica EXCEPT ![r] = [Down EXCEPT !.at = "waiting", !.build = build]]
    /\ UNCHANGED <<ledger, executed, lock>>

\* Mutant: the answer of GET_LOCK is not looked at.
Granted(r) == TRUE

\* GET_LOCK
Free(r) == lock = {}

AcquireLock(r) ==
    /\ Is(r, "waiting") /\ Free(r)
    /\ lock' = lock \cup {r}
    /\ Goes(r, "reading")
    /\ UNCHANGED <<ledger, executed>>

\* Mutant: a corrected migration may replace one that was applied.
AnyEntryIsOpen(m) == TRUE

\* retryableChecksumState: "permits corrected checksum replacement only for
\* incomplete FAILED/RUNNING entries".
IsOpenEntry(m) == ledger[m].status \in {"none", "FAILED", "RUNNING"}

Mismatch(r, m) == ledger[m].checksum # Script(r, m) /\ ~IsOpenEntry(m)

\* The checksum of an applied migration differs: the process does not start.
Refuse(r) ==
    /\ Is(r, "reading") /\ \E m \in Current(r) : Mismatch(r, m)
    /\ replica' = [replica EXCEPT ![r] = Down] /\ lock' = lock \ {r}
    /\ UNCHANGED <<ledger, executed>>

Skip(r) ==
    /\ Is(r, "reading")
    /\ \E m \in Current(r) :
          /\ ~Mismatch(r, m) /\ ledger[m].status = "APPLIED"
          /\ replica' = [replica EXCEPT ![r].next = m]
    /\ UNCHANGED <<ledger, executed, lock>>

\* The entry was not applied when it was read ...
Pick(r) ==
    /\ Is(r, "reading")
    /\ \E m \in Current(r) : ~Mismatch(r, m) /\ ledger[m].status # "APPLIED"
    /\ Goes(r, "marking")
    /\ UNCHANGED <<ledger, executed, lock>>

\* ... and is RUNNING from here on, with this build's checksum.
MarkRunning(r) ==
    /\ Is(r, "marking")
    /\ \E m \in Current(r) : ledger' = [ledger EXCEPT ![m] = [status |-> "RUNNING", checksum |-> Script(r, m)]]
    /\ Goes(r, "executing")
    /\ UNCHANGED <<executed, lock>>

Execute(r) ==
    /\ Is(r, "executing") /\ replica[r].done < Size
    /\ \E m \in Current(r) : executed' = executed \cup {<<m, Script(r, m), replica[r].done + 1>>}
    /\ replica' = [replica EXCEPT ![r].done = @ + 1]
    /\ UNCHANGED <<ledger, lock>>

\* Mutant: what failed counts as applied too.
ExecutedEnough(r) == TRUE

Executed(r) == replica[r].done = Size

Apply(r) ==
    /\ Is(r, "executing") /\ Executed(r)
    /\ \E m \in Current(r) :
          /\ ledger' = [ledger EXCEPT ![m].status = "APPLIED"]
          /\ replica' = [replica EXCEPT ![r].at = "reading", ![r].next = m, ![r].done = 0]
    /\ UNCHANGED <<executed, lock>>

\* A statement, or the entry's own update, fails: noted, if that succeeds.
Fail(r) ==
    /\ Is(r, "executing")
    /\ \E m \in Current(r) : ledger' \in {ledger, [ledger EXCEPT ![m].status = "FAILED"]}
    /\ replica' = [replica EXCEPT ![r] = Down] /\ lock' = lock \ {r}
    /\ UNCHANGED executed

Finish(r) ==
    /\ Is(r, "reading") /\ Current(r) = {}
    /\ Goes(r, "ready") /\ lock' = lock \ {r}
    /\ UNCHANGED <<ledger, executed>>

\* The process, or its connection and so its lock, is lost.
Crash(r) ==
    /\ ~Is(r, "down")
    /\ replica' = [replica EXCEPT ![r] = Down] /\ lock' = lock \ {r}
    /\ UNCHANGED <<ledger, executed>>

MigrationsNext ==
    \E r \in Replicas :
        \/ \E build \in Builds : Start(r, build)
        \/ AcquireLock(r) \/ Refuse(r) \/ Skip(r) \/ Pick(r) \/ MarkRunning(r) \/ Execute(r) \/ Apply(r) \/ Fail(r)
        \/ Finish(r) \/ Crash(r)
-----------------------------------------------------------------------------
MigrationsTypeOK ==
    /\ ledger \in [Migrations -> [status : {"none", "RUNNING", "APPLIED", "FAILED"}, checksum : Checksums \cup {NoScript}]]
    /\ executed \subseteq Migrations \X Checksums \X (1..Size)
    /\ \A r \in Replicas :
          /\ replica[r].at \in {"down", "waiting", "reading", "marking", "executing", "ready"}
          /\ replica[r].build \in Builds /\ replica[r].next \in Migrations \cup {0} /\ replica[r].done \in 0..Size

\* A migration that is called applied was executed to its end as the ledger has
\* it, whatever failed or was cut short before.
AppliedIsExecuted ==
    \A m \in Migrations : ledger[m].status = "APPLIED" =>
        \A i \in 1..Size : <<m, ledger[m].checksum, i>> \in executed

\* A replica that serves has a schema of its own build: every migration it
\* knows is applied as it knows it, also after other builds have started.
ReadyIsCurrent ==
    \A r \in Replicas : Is(r, "ready") =>
        \A m \in Discovered(r) : ledger[m] = [status |-> "APPLIED", checksum |-> Script(r, m)]

\* "APPLIED ... migrations remain immutable", for replicas of any build that
\* start, fail and restart at the same time.
AppliedIsImmutable ==
    [][\A m \in Migrations : ledger[m].status = "APPLIED" => ledger'[m] = ledger[m]]_migrationVars
=============================================================================
