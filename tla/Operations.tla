----------------------------- MODULE Operations -----------------------------
(* What the plant, its people and its servers do, side by side in one        *)
(* database: the attendance of an employee, the roster, a job from the shop  *)
(* floor to its certificate of conformance, a controlled record, a recovery  *)
(* drill, public forms, and migrations at start-up.  They share no rows, so  *)
(* how their steps interleave makes no difference: a behaviour follows one   *)
(* of them, and leaves the others at their initial state.                    *)
EXTENDS Attendance, Roster, QualityRelease, ControlledForms, RecoveryDrills, Submissions, Migrations

VARIABLE followed

jobVars == <<floorVars, qualityVars>>
peopleVars == <<attendanceVars, rosterVars>>
recordVars == <<formVars, drillVars>>
serverVars == <<submissionVars, migrationVars>>
plantVars == <<peopleVars, jobVars, recordVars, serverVars, followed>>

PlantInit ==
    /\ AttendanceInit /\ RosterInit /\ QualityInit /\ FormsInit /\ DrillsInit /\ SubmissionsInit /\ MigrationsInit
    /\ followed \in {"attendance", "roster", "quality", "form", "drill", "submission", "migration"}

PlantNext ==
    \/ followed = "attendance" /\ AttendanceNext /\ UNCHANGED <<rosterVars, jobVars, recordVars, serverVars, followed>>
    \/ followed = "roster" /\ RosterNext /\ UNCHANGED <<attendanceVars, jobVars, recordVars, serverVars, followed>>
    \/ followed = "quality" /\ QualityNext /\ UNCHANGED <<peopleVars, recordVars, serverVars, followed>>
    \/ followed = "form" /\ FormsNext /\ UNCHANGED <<peopleVars, jobVars, drillVars, serverVars, followed>>
    \/ followed = "drill" /\ DrillsNext /\ UNCHANGED <<peopleVars, jobVars, formVars, serverVars, followed>>
    \/ followed = "submission" /\ SubmissionsNext /\ UNCHANGED <<peopleVars, jobVars, recordVars, migrationVars, followed>>
    \/ followed = "migration" /\ MigrationsNext /\ UNCHANGED <<peopleVars, jobVars, recordVars, submissionVars, followed>>
PlantSpec == PlantInit /\ [][PlantNext]_plantVars

PlantTypeOK ==
    /\ AttendanceTypeOK /\ RosterTypeOK /\ QualityTypeOK /\ FormsTypeOK /\ DrillsTypeOK
    /\ SubmissionsTypeOK /\ MigrationsTypeOK

\* What each part promises; see its module.  Sessions do not multiply or
\* overlap, an approved period stays settled, nobody has one shift twice.
WorkforceHolds ==
    /\ PlantTypeOK
    /\ OneOpenSession /\ OneSessionPerTap /\ ApprovedPeriodIsSettled /\ OverlapIsRestored
    /\ NoIdenticalShifts

\* What the records of the plant say is so: a release and its certificate rest
\* on what was inspected, an approved record is signed as it stands and keeps
\* its history, and a decision about a drill or its remediation is recorded.
RecordsHold ==
    /\ QualityHolds
    /\ ApprovalIsSigned /\ HistoryIsComplete /\ ShownIsCurrent
    /\ DecisionIsRecorded /\ ClosureIsRecorded

\* A form is acted on once and answered with its own answer; what is called
\* applied was executed, and a server that serves has the schema of its build.
ServersHold == ActedOnOnce /\ ReplaysOwnAnswer /\ AppliedIsExecuted /\ ReadyIsCurrent

\* A correction does not overwrite what its author never saw, no build replaces
\* a migration that is applied, no edit what was approved, and no later
\* decision the first.
NothingRewritten == CorrectionOfWhatWasSeen /\ AppliedIsImmutable /\ SettledStands /\ FirstDecisionStands
=============================================================================
