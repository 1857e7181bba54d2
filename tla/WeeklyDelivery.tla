--------------------------- MODULE WeeklyDelivery ---------------------------
(***************************************************************************)
(* The e-mail of one employee's completed week                             *)
(* (services/weeklyTimesheetScheduler.js): the routine job and the         *)
(* operators' corrections, which prepare versions of it, composed with the *)
(* week itself (Timesheets) and with the queue that sends them             *)
(* (EmailQueue).  The queue holds one message per version.                 *)
(*                                                                         *)
(* A Sender is one run of the routine job or one operator's request at a   *)
(* time.  Reserving a version, queueing it and recording a failure are     *)
(* transactions of their own, and senders interleave between them.  All    *)
(* but the last take the lock of the employee's row of users first; a      *)
(* cycle of the queue keeps that lock from the validation of a message     *)
(* through its transport.                                                  *)
(*                                                                         *)
(* A claim lapses after 20 minutes and the routine job waits 15 before it  *)
(* tries again: between any two steps so much time may have passed, and no *)
(* claim holds another sender up.  A hash of the source is its value.      *)
(* Deliveries of the older PDF format and provider_accepted_at, which only *)
(* repeats a refusal that the status already gives, are left out.          *)
(*                                                                         *)
(* Bounds: MaxRevisions versions of the e-mail, MaxGenerations routine     *)
(* attempts, and those of Timesheets and EmailQueue.                       *)
(***************************************************************************)
EXTENDS Naturals, Sequences

CONSTANTS
    Contents, Unresolved, Minutes, Callers, MaxVersions,         \* of Timesheets
    Workers, NoMsg, MaxAttempts,                                 \* of EmailQueue
    MaxClaims, MaxRetries, MaxCrashes, MaxDbErrors, MaxStalls,
    Addresses,       \* designated recipients
    Senders,
    None,
    MaxRevisions,
    MaxGenerations

VARIABLES
    attendance, active, sheet, versions, payroll, callers,       \* of Timesheets
    queue, accepted, pc, batch, seen, row, verdict, faults,      \* of EmailQueue
    address,    \* users.timesheet_delivery_email
    latest,     \* whether this is still the latest completed week
    delivery,   \* weekly_timesheet_deliveries
    letters,    \* weekly_timesheet_delivery_versions; a queued row holds the same
    senders     \* where each call awaits, and what it has reserved

Revisions == 1..MaxRevisions

T == INSTANCE Timesheets
Q == INSTANCE EmailQueue WITH Msgs <- Revisions, Weekly <- Revisions, Invoices <- {}

ASSUME ContentsAssumption ==
    /\ Unresolved \subseteq Contents
    /\ Minutes \in [Contents -> Nat]
    /\ MaxVersions \in Nat

ASSUME AddressesAssumption ==
    /\ None \notin Addresses \cup Senders \cup Revisions
    /\ MaxRevisions \in Nat \ {0}      \* the first version is 1
    /\ MaxGenerations \in Nat

ASSUME QueueAssumption ==
    /\ NoMsg \notin Revisions
    /\ MaxAttempts \in Nat \ {0}
    /\ {MaxClaims, MaxRetries, MaxCrashes, MaxDbErrors, MaxStalls} \subseteq Nat

week == <<attendance, active, sheet, versions, payroll, callers>>
mail == <<queue, accepted, pc, batch, seen, row, verdict, faults>>
own  == <<address, latest, delivery, letters, senders>>
vars == <<week, mail, own>>

Sources == [content : Contents, review : T!Statuses, reviewed : 0..MaxVersions,
            version : Revisions]
Letters == [source : Sources, recipient : Addresses]

DeliveryStatus == {"NONE", "NO_WORK", "NO_RECIPIENT", "PREPARING", "GENERATION_FAILED",
                   "QUEUED", "RETRY", "FAILED", "SENT", "REVIEW_REQUIRED"}

AtRest == [at |-> "idle", version |-> None, source |-> None, recipient |-> None,
           held |-> FALSE]

TypeOK ==
    /\ T!TypeOK
    /\ Q!TypeOK
    /\ address \in Addresses \cup {None}
    /\ latest \in BOOLEAN
    /\ delivery \in [status : DeliveryStatus, version : Revisions,
                     recipient : Addresses \cup {None}, source : Sources \cup {None},
                     queue : Revisions \cup {None}, token : Senders \cup {None},
                     attempts : 0..MaxGenerations]
    /\ letters \in [Revisions -> Letters \cup {None}]
    /\ senders \in [Senders -> [at : {"idle", "reserved", "failing"},
                                version : Revisions \cup {None},
                                source : Sources \cup {None},
                                recipient : Addresses \cup {None}, held : BOOLEAN]]

Init ==
    /\ T!Init
    /\ Q!Init
    /\ address \in Addresses \cup {None}
    /\ latest = TRUE
    /\ delivery = [status |-> "NONE", version |-> 1, recipient |-> None, source |-> None,
                   queue |-> None, token |-> None, attempts |-> 0]
    /\ letters = [v \in Revisions |-> None]
    /\ senders = [s \in Senders |-> AtRest]

-----------------------------------------------------------------------------
(* What a transaction reads under the employee's lock.                     *)

EmployeeFree == \A v \in Revisions : ~Q!Locked(v)

\* assessWorkedAttendance of an active employee
Assessment ==
    IF attendance \in Unresolved THEN "REVIEW_REQUIRED"
    ELSE IF Minutes[attendance] > 0 THEN "ELIGIBLE" ELSE "NO_WORK"

Eligible == active /\ Assessment = "ELIGIBLE"

\* reviewProof: a saved approval counts if its version holds this attendance.
Proven ==
    /\ versions # <<>>
    /\ T!Latest = [status |-> "APPROVED", content |-> attendance]
    /\ sheet.total = Minutes[attendance]

ReviewStatus ==
    IF sheet.status = "NONE" THEN "DRAFT"
    ELSE IF sheet.status = "APPROVED" /\ ~Proven THEN "CORRECTION_REQUIRED"
    ELSE sheet.status

\* reviewedSnapshot
Source(version) ==
    [content |-> attendance, review |-> ReviewStatus, reviewed |-> Len(versions),
     version |-> version]

\* A week without a timesheet gets one.
SheetExists ==
    sheet' = IF sheet.status = "NONE"
             THEN [status |-> "DRAFT", total |-> Minutes[attendance], approved |-> 0]
             ELSE sheet

Goto(s, place) == senders' = [senders EXCEPT ![s] = place]

Reserved(version) ==
    [at |-> "reserved", version |-> version, source |-> Source(version),
     recipient |-> address, held |-> FALSE]

-----------------------------------------------------------------------------
(* The routine job: reserveDelivery.                                       *)

Reservable ==
    /\ latest
    /\ EmployeeFree
    /\ active
    /\ delivery.queue = None
    /\ delivery.status # "SENT"
    /\ delivery.status = "REVIEW_REQUIRED" => delivery.source = None
    /\ delivery.attempts < MaxGenerations

Unclaimed(status) == [delivery EXCEPT !.status = status, !.token = None]

\* Nothing to report, or nobody to report it to.
ReportUnfit ==
    /\ Reservable
    /\ Assessment = "ELIGIBLE" => address = None
    /\ delivery' = Unclaimed(IF Assessment = "ELIGIBLE" THEN "NO_RECIPIENT" ELSE Assessment)
    /\ UNCHANGED <<week, mail, address, latest, letters, senders>>

Reportable == Reservable /\ Assessment = "ELIGIBLE" /\ address # None

Mailed == {v \in Revisions : queue[v].status # "NONE"}

\* "Legacy queue rows remain preserved": any weekly message of the timesheet,
\* that of an earlier version included, settles the delivery.
TakeForMailed ==
    /\ Reportable
    /\ \E v \in Mailed : delivery' = [delivery EXCEPT
         !.status = IF queue[v].status = "SENT" THEN "SENT" ELSE "REVIEW_REQUIRED"]
    /\ SheetExists
    /\ UNCHANGED <<attendance, active, versions, payroll, callers>>
    /\ UNCHANGED <<mail, address, latest, letters, senders>>

\* A version that was prepared before keeps its source or is held.
HoldChangedSource ==
    /\ Reportable /\ Mailed = {}
    /\ delivery.source \notin {None, Source(delivery.version)}
    /\ SheetExists
    /\ delivery' = Unclaimed("REVIEW_REQUIRED")
    /\ UNCHANGED <<attendance, active, versions, payroll, callers>>
    /\ UNCHANGED <<mail, address, latest, letters, senders>>

\* When the answer of the commit is lost the claim stands unused, as after
\* SenderCrash.
Reserve(s) ==
    /\ senders[s].at = "idle"
    /\ Reportable /\ Mailed = {}
    /\ delivery.source \in {None, Source(delivery.version)}
    /\ SheetExists
    /\ delivery' = [delivery EXCEPT
         !.status = "PREPARING", !.recipient = address, !.source = Source(delivery.version),
         !.token = s, !.attempts = @ + 1]
    /\ Goto(s, Reserved(delivery.version))
    /\ UNCHANGED <<attendance, active, versions, payroll, callers>>
    /\ UNCHANGED <<mail, address, latest, letters>>

-----------------------------------------------------------------------------
(* queueReservedHtmlDelivery.                                              *)

ClaimHeld(s) ==
    /\ delivery.token = s
    /\ delivery.status = "PREPARING"
    /\ delivery.queue = None

\* checkReservedDelivery
StillReserved(s) ==
    /\ ClaimHeld(s)
    /\ Eligible
    /\ address = senders[s].recipient
    /\ Source(delivery.version) = senders[s].source

\* retainDeliveryVersion: a retained version is never another one.
Retainable(version, letter) == letters[version] \in {None, letter}

\* Mutant: the failure is recorded by the delivery's id alone.
RecordAnyFailure(s, outcome) ==
    /\ senders[s].at = "failing"
    /\ delivery' = IF outcome = "error" THEN delivery
                   ELSE Unclaimed(IF senders[s].held THEN "REVIEW_REQUIRED"
                                  ELSE "GENERATION_FAILED")
    /\ Goto(s, AtRest)
    /\ UNCHANGED <<week, mail, address, latest, letters>>

\* One transaction: the content is frozen, the message queued and linked, the
\* version retained.
Queue(s, outcome) ==
    LET version == senders[s].version
        letter  == [source |-> senders[s].source, recipient |-> senders[s].recipient]
    IN  /\ senders[s].at = "reserved"
        /\ EmployeeFree
        /\ StillReserved(s) /\ Retainable(version, letter)
        /\ IF outcome = "error" THEN UNCHANGED <<mail, delivery, letters>>
           ELSE /\ Q!QueueEmail(version, FALSE)
                /\ delivery' = [Unclaimed("QUEUED") EXCEPT !.queue = version]
                /\ letters' = [letters EXCEPT ![version] = letter]
        /\ Goto(s, IF outcome = "ok" THEN AtRest ELSE [senders[s] EXCEPT !.at = "failing"])
        /\ UNCHANGED <<week, address, latest>>

QueueRefused(s) ==
    LET letter == [source |-> senders[s].source, recipient |-> senders[s].recipient]
    IN  /\ senders[s].at = "reserved"
        /\ EmployeeFree
        /\ ~(StillReserved(s) /\ Retainable(senders[s].version, letter))
        /\ Goto(s, [senders[s] EXCEPT !.at = "failing", !.held = TRUE])
        /\ UNCHANGED <<week, mail, address, latest, delivery, letters>>

RecordFailure(s, outcome) ==
    /\ senders[s].at = "failing"
    /\ delivery' = IF outcome = "error" \/ delivery.token # s \/ delivery.queue # None
                   THEN delivery
                   ELSE Unclaimed(IF senders[s].held THEN "REVIEW_REQUIRED"
                                  ELSE "GENERATION_FAILED")
    /\ Goto(s, AtRest)
    /\ UNCHANGED <<week, mail, address, latest, letters>>

SenderCrash(s) ==
    /\ senders[s].at # "idle"
    /\ Goto(s, AtRest)
    /\ UNCHANGED <<week, mail, address, latest, delivery, letters>>

-----------------------------------------------------------------------------
(* An operator: queueWeeklyTimesheetRevision.                              *)

\* The operator acknowledges a possible previous delivery, but must wait for
\* the outcome of one that is under way.
PreviousSettled == delivery.queue # None => queue[delivery.queue].status # "SENDING"

\* "Superseded by an explicitly authorised weekly timesheet correction."
Supersede ==
    /\ queue' = [v \in Revisions |->
         IF v = delivery.queue /\ queue[v].status \notin {"SENT", "REVIEW_REQUIRED"}
         THEN [queue[v] EXCEPT !.status = "REVIEW_REQUIRED", !.waiting = FALSE]
         ELSE queue[v]]
    /\ UNCHANGED <<accepted, pc, batch, seen, row, verdict, faults>>

RetainCurrent ==
    LET letter == [source |-> delivery.source, recipient |-> delivery.recipient]
    IN  IF delivery.source = None THEN UNCHANGED letters
        ELSE /\ Retainable(delivery.version, letter)
             /\ letters' = [letters EXCEPT ![delivery.version] = letter]

\* A retry keeps the version, its source and its recipient.
Repeatable ==
    /\ delivery.status = "GENERATION_FAILED"
    /\ delivery.queue = None
    /\ delivery.source = Source(delivery.version)
    /\ delivery.recipient = address

Revise(s, retry) ==
    LET version == IF retry THEN delivery.version ELSE delivery.version + 1
    IN  /\ senders[s].at = "idle"
        /\ EmployeeFree
        /\ delivery.status # "NONE"
        /\ Eligible /\ address # None
        /\ retry => Repeatable
        /\ version \in Revisions
        /\ PreviousSettled
        /\ SheetExists
        /\ RetainCurrent
        /\ Supersede
        /\ delivery' = [delivery EXCEPT
             !.status = "PREPARING", !.version = version, !.recipient = address,
             !.source = Source(version), !.queue = None, !.token = s]
        /\ Goto(s, Reserved(version))
        /\ UNCHANGED <<attendance, active, versions, payroll, callers, address, latest>>

-----------------------------------------------------------------------------
(* A cycle of the queue.                                                   *)

Marked(v, status) ==
    IF delivery.queue = v THEN [delivery EXCEPT !.status = status] ELSE delivery

\* validateQueuedWeeklyDelivery
Valid(v) ==
    /\ delivery.queue = v
    /\ delivery.status \in {"QUEUED", "RETRY", "FAILED"}
    /\ delivery.version = v
    /\ letters[v] = [source |-> delivery.source, recipient |-> delivery.recipient]
    /\ Eligible /\ address = delivery.recipient
    /\ latest \/ delivery.version > 1
    /\ Source(v) = delivery.source

\* A message and its delivery are held for review by one statement.
Sweep(w, outcome) ==
    /\ Q!Sweep(w, outcome)
    /\ delivery' = IF outcome # "error" /\ \E v \in Revisions : v = delivery.queue /\ Q!Abandoned(v)
                   THEN [delivery EXCEPT !.status = "REVIEW_REQUIRED"] ELSE delivery
    /\ UNCHANGED <<week, address, latest, letters, senders>>

Prepare(w, error) ==
    /\ error # "transport" => EmployeeFree
    /\ error = "none" => Valid(row[w])
    /\ error = "held" => ~Valid(row[w])
    /\ error # "repair"
    /\ Q!Prepare(w, error)
    /\ UNCHANGED <<week, own>>

RecordSent(w, outcome) ==
    /\ Q!RecordSent(w, outcome)
    /\ delivery' = IF outcome = "error" THEN delivery ELSE Marked(row[w], "SENT")
    /\ UNCHANGED <<week, address, latest, letters, senders>>

Mark(w, outcome) ==
    /\ ~Q!Locked(row[w])
    /\ Q!Mark(w, outcome)
    /\ delivery' = IF outcome = "error" THEN delivery ELSE Marked(row[w], verdict[w])
    /\ UNCHANGED <<week, address, latest, letters, senders>>

CycleStep(w) ==
    \/ \E outcome \in Q!Outcomes : Sweep(w, outcome) \/ RecordSent(w, outcome) \/ Mark(w, outcome)
    \/ \E error \in Q!Errors \cup {"none"} : Prepare(w, error)
    \/ /\ pc[w] \notin {"idle", "sent", "mark", "prepare"}
       /\ Q!CycleStep(w)
       /\ UNCHANGED <<week, own>>
    \/ Q!Crash(w) /\ UNCHANGED <<week, own>>

QueueStep ==
    \/ \E w \in Workers : CycleStep(w)
    \/ /\ \E v \in Revisions : Q!Retry(v) \/ Q!BackoffElapses(v) \/ Q!ClaimAges(v)
       /\ UNCHANGED <<week, own>>

-----------------------------------------------------------------------------
(* The employee's records.                                                 *)

\* Mutant: the account and the attendance change without the lock.
RecordsChangeUnlocked ==
    /\ T!Decision \/ T!AccountChanges \/ \E content \in Contents : T!Edit(content)
    /\ UNCHANGED <<mail, own>>

\* Decisions, edits and the account's own changes take the employee's lock.
RecordsChange ==
    /\ EmployeeFree
    /\ T!Decision \/ T!AccountChanges \/ \E content \in Contents : T!Edit(content)
    /\ UNCHANGED <<mail, own>>

\* A refresh of the week's hours takes no lock.
RefreshStep == (\E c \in Callers : T!Refresh(c)) /\ UNCHANGED <<mail, own>>

AddressChanges ==
    /\ EmployeeFree
    /\ address' \in Addresses \cup {None}
    /\ UNCHANGED <<week, mail, latest, delivery, letters, senders>>

WeekPasses ==
    /\ latest
    /\ latest' = FALSE
    /\ UNCHANGED <<week, mail, address, delivery, letters, senders>>

Next ==
    \/ \E s \in Senders :
          \/ Reserve(s)
          \/ \E retry \in BOOLEAN : Revise(s, retry)
          \/ QueueRefused(s)
          \/ \E outcome \in Q!Outcomes : Queue(s, outcome) \/ RecordFailure(s, outcome)
          \/ SenderCrash(s)
    \/ ReportUnfit
    \/ TakeForMailed
    \/ HoldChangedSource
    \/ QueueStep
    \/ RecordsChange
    \/ RefreshStep
    \/ AddressChanges
    \/ WeekPasses

Spec == Init /\ [][Next]_vars

-----------------------------------------------------------------------------
(* Properties.                                                             *)

\* What the provider takes is the current version of the week, made of the
\* attendance and the review as they are at that moment, and goes to the
\* address the active employee has at that moment, whatever changed since it
\* was prepared, queued and validated.
SentIsCurrent ==
    [][\A v \in Revisions : accepted'[v] > accepted[v] =>
          /\ delivery.queue = v
          /\ active
          /\ letters[v] = [source |-> Source(v), recipient |-> address]]_vars

\* A delivery that is linked to a message is linked to that of its own
\* version, with the content and the recipient retained for it, and does not
\* read as one still to be prepared; no other message of that version or a
\* later one is in the queue.  So it stays whatever senders, lapsed claims,
\* corrections and lost answers came before.
QueuedIsTheVersion ==
    /\ delivery.queue # None =>
          /\ delivery.queue = delivery.version
          /\ delivery.status \in {"QUEUED", "RETRY", "FAILED", "SENT", "REVIEW_REQUIRED"}
          /\ letters[delivery.version] = [source |-> delivery.source,
                                          recipient |-> delivery.recipient]
    /\ \A v \in Mailed : v = delivery.queue \/ v < delivery.version

\* Deliveries, retained versions and messages tell the same story.
DeliveryIsConsistent == TypeOK /\ QueuedIsTheVersion

\* What is approved stays what was worked while its e-mail is prepared: see
\* Timesheets.
ApprovedIsCurrent == T!ApprovedIsCurrent

\* A refresh of the hours never changes what was submitted: see Timesheets.
SubmittedHoursStand == T!SubmittedHoursStand

\* A delivery reads SENT only when the provider took its current version
\* ("The provider accepted this message").
SentIsTheVersion == delivery.status = "SENT" => accepted[delivery.version] > 0
=============================================================================
