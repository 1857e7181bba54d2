----------------------------- MODULE Timesheets -----------------------------
(***************************************************************************)
(* One employee's week: the attendance it is made of, the weekly timesheet *)
(* with its versions and its payroll entry (services/                      *)
(* timesheetWorkflowService.js), and the refresh of its hours after an     *)
(* edit or on a read (controllers/attendanceController.js).                *)
(*                                                                         *)
(* A decision is one transaction under the lock of the employee's row of   *)
(* users; so is an edit of attendance.  The refresh that follows an edit   *)
(* is not: its three queries run one by one.  A Caller is one such refresh *)
(* at a time.                                                              *)
(*                                                                         *)
(* All attendance of the week is one of Contents; hours are in the unit of *)
(* Minutes.  A decision on a stale version is refused and changes nothing, *)
(* and is left out.  version_no is the number of versions: both are        *)
(* written by the same transaction.                                        *)
(*                                                                         *)
(* Bound: MaxVersions versions of the timesheet.                           *)
(***************************************************************************)
EXTENDS Naturals, Sequences

CONSTANTS
    Contents,     \* what the week's attendance may be: at least one record
    Unresolved,   \* those with records that need review
    Minutes,      \* verified worked minutes of each
    Callers,
    MaxVersions

Open      == {"DRAFT", "CORRECTION_REQUIRED"}
Submitted == {"PENDING_APPROVAL", "CORRECTION_RESUBMITTED"}
Statuses  == {"NONE", "REJECTED", "APPROVED"} \cup Open \cup Submitted

VARIABLES
    attendance,   \* staff_attendance of the week
    active,       \* the employee's account
    sheet,        \* weekly_timesheets; "NONE" before the first row
    versions,     \* timesheet_versions
    payroll,      \* payroll_ready
    callers       \* where each request awaits, with what it has read

vars == <<attendance, active, sheet, versions, payroll, callers>>

TypeOK ==
    /\ attendance \in Contents
    /\ active \in BOOLEAN
    /\ sheet \in [status : Statuses, total : Nat, approved : Nat]
    /\ versions \in Seq([status : Statuses, content : Contents])
    /\ payroll \in [status : {"NONE", "READY", "NOT_READY"}, hours : Nat]
    /\ callers \in [Callers -> [at : {"idle", "read", "insert", "write"},
                                total : Nat, version : Nat]]

AtRest == [at |-> "idle", total |-> 0, version |-> 0]

Init ==
    /\ attendance \in Contents
    /\ active = TRUE
    /\ sheet = [status |-> "NONE", total |-> 0, approved |-> 0]
    /\ versions = <<>>
    /\ payroll = [status |-> "NONE", hours |-> 0]
    /\ callers = [c \in Callers |-> AtRest]

\* loadVerifiedSummary: records of an ineligible account are not eligible.
Calculated == IF active THEN Minutes[attendance] ELSE 0

\* assertReviewResolved
Resolved == active /\ attendance \notin Unresolved

-----------------------------------------------------------------------------
(* Attendance.                                                             *)

\* Mutant: the period is not checked.
AnyPeriod == TRUE

\* assertMutablePeriod
MutablePeriod == sheet.status # "APPROVED"

\* Created, corrected, archived or restored attendance.  The request goes on
\* to refresh the week, as any reader does, or fails to.
Edit(content) ==
    /\ MutablePeriod
    /\ attendance' = content
    /\ UNCHANGED <<active, sheet, versions, payroll, callers>>

AccountChanges ==
    /\ active' = ~active
    /\ UNCHANGED <<attendance, sheet, versions, payroll, callers>>

-----------------------------------------------------------------------------
(* Refresh: getWeekAttendance, then upsertWeeklyTimesheet.                 *)

Load(c) ==
    /\ callers[c].at = "idle"
    /\ callers' = [callers EXCEPT ![c] = [at |-> "read", total |-> Calculated, version |-> 0]]
    /\ UNCHANGED <<attendance, active, sheet, versions, payroll>>

Read(c) ==
    /\ callers[c].at = "read"
    /\ callers' = [callers EXCEPT ![c] =
         CASE sheet.status = "NONE" -> [@ EXCEPT !.at = "insert"]
           [] sheet.status \in Open -> [@ EXCEPT !.at = "write", !.version = Len(versions)]
           [] OTHER                 -> AtRest]
    /\ UNCHANGED <<attendance, active, sheet, versions, payroll>>

\* "The existing unique staff/week key wins; never overwrite the winner."
Insert(c) ==
    /\ callers[c].at = "insert"
    /\ sheet' = IF sheet.status = "NONE"
                THEN [status |-> "DRAFT", total |-> callers[c].total, approved |-> 0]
                ELSE sheet
    /\ callers' = [callers EXCEPT ![c] = AtRest]
    /\ UNCHANGED <<attendance, active, versions, payroll>>

\* Mutant: the row is updated by its id alone.
WriteById(c) ==
    /\ callers[c].at = "write"
    /\ sheet' = [sheet EXCEPT !.total = callers[c].total]
    /\ callers' = [callers EXCEPT ![c] = AtRest]
    /\ UNCHANGED <<attendance, active, versions, payroll>>

\* The row must still be open, at the version that was read.
Write(c) ==
    /\ callers[c].at = "write"
    /\ sheet' = IF sheet.status \in Open /\ Len(versions) = callers[c].version
                THEN [sheet EXCEPT !.total = callers[c].total] ELSE sheet
    /\ callers' = [callers EXCEPT ![c] = AtRest]
    /\ UNCHANGED <<attendance, active, versions, payroll>>

\* "Attendance timesheet refresh pending": the edit stands, the refresh fails.
RefreshFails(c) ==
    /\ callers[c].at # "idle"
    /\ callers' = [callers EXCEPT ![c] = AtRest]
    /\ UNCHANGED <<attendance, active, sheet, versions, payroll>>

-----------------------------------------------------------------------------
(* Decisions.                                                              *)

\* createVersion
AddVersion(status) ==
    /\ Len(versions) < MaxVersions
    /\ versions' = Append(versions, [status |-> status, content |-> attendance])

Submit ==
    LET resubmitted == sheet.status = "CORRECTION_REQUIRED"
        status == IF resubmitted THEN "CORRECTION_RESUBMITTED" ELSE "PENDING_APPROVAL"
    IN  /\ sheet.status \in Open
        /\ Resolved
        /\ AddVersion(status)
        /\ sheet' = [sheet EXCEPT !.status = status, !.total = Calculated]
        /\ UNCHANGED <<attendance, active, payroll, callers>>

\* Approved hours may differ from the source with a reason.
Approve(hours) ==
    /\ sheet.status \in Submitted
    /\ Resolved
    /\ AddVersion("APPROVED")
    /\ sheet' = [status |-> "APPROVED", total |-> Calculated, approved |-> hours]
    /\ payroll' = [status |-> "READY", hours |-> hours]
    /\ UNCHANGED <<attendance, active, callers>>

\* reviewTimesheet: rejected, or returned for correction.
Review(status) ==
    /\ status \in {"REJECTED", "CORRECTION_REQUIRED"}
    /\ sheet.status \in Submitted
    /\ AddVersion(status)
    /\ sheet' = [sheet EXCEPT !.status = status]
    /\ payroll' = IF payroll.status = "NONE" THEN payroll
                  ELSE [payroll EXCEPT !.status = "NOT_READY"]
    /\ UNCHANGED <<attendance, active, callers>>

\* amendApprovedTimesheet
Amend(hours) ==
    /\ sheet.status = "APPROVED"
    /\ Resolved
    /\ AddVersion("APPROVED")
    /\ sheet' = [sheet EXCEPT !.total = Calculated, !.approved = hours]
    /\ payroll' = [payroll EXCEPT !.status = "READY", !.hours = hours]
    /\ UNCHANGED <<attendance, active, callers>>

Hours == {Minutes[content] : content \in Contents}

Decision ==
    \/ Submit
    \/ \E hours \in Hours : Approve(hours) \/ Amend(hours)
    \/ \E status \in Statuses : Review(status)

Refresh(c) == Load(c) \/ Read(c) \/ Insert(c) \/ Write(c) \/ RefreshFails(c)

Next ==
    \/ Decision
    \/ AccountChanges
    \/ \E content \in Contents : Edit(content)
    \/ \E c \in Callers : Refresh(c)

Spec == Init /\ [][Next]_vars

-----------------------------------------------------------------------------
(* Properties.                                                             *)

Latest == versions[Len(versions)]

\* What was approved stays what was worked: the approved version holds the
\* attendance of the week as it is now, its hours are the timesheet's hours,
\* and payroll holds the approved hours, and holds none as ready otherwise.
ApprovedIsCurrent ==
    IF sheet.status = "APPROVED"
    THEN /\ versions # <<>>
         /\ Latest = [status |-> "APPROVED", content |-> attendance]
         /\ sheet.total = Minutes[attendance]
         /\ payroll = [status |-> "READY", hours |-> sheet.approved]
    ELSE payroll.status # "READY"

\* A refresh that began before a submission never changes the hours that
\* were submitted.
SubmittedHoursStand ==
    sheet.status \in Submitted => versions # <<>> /\ sheet.total = Minutes[Latest.content]
=============================================================================
