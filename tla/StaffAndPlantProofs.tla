------------------------ MODULE StaffAndPlantProofs ------------------------
(***************************************************************************)
(* Proofs about one week's timesheet and its e-mail (WeeklyDelivery), and  *)
(* about what the plant, its people and its servers do (Operations).       *)
(*                                                                         *)
(* The first part is about Timesheets alone, for any attendance, any       *)
(* number of refreshes under way and any number of versions; the second    *)
(* shows that the e-mail never disturbs the week, for any senders, cycles  *)
(* of the queue, versions and faults.  The third is about the e-mail       *)
(* itself: what is proved of the queue alone (EmailQueueProofs) is used    *)
(* here for the queue of this week's versions, and joined with who has     *)
(* reserved what and with what is locked while a message is in transport.  *)
(*                                                                         *)
(* Then each part of Operations has an inductive invariant of its own, for *)
(* any number of requests, people, replicas and clerks, and any amount of  *)
(* time; the last section puts them side by side.                          *)
(***************************************************************************)
EXTENDS WeeklyDelivery, Operations, SumProofs, SequenceTheorems, FunctionTheorems

\* What a timesheet is made of: a week's attendance has so many minutes.
Week == /\ Unresolved \subseteq Contents
        /\ Minutes \in [Contents -> Nat]

\* createVersion appends one version, which becomes the latest.
LEMMA VersionAdded ==
    ASSUME T!TypeOK, NEW status \in T!Statuses, T!AddVersion(status)
    PROVE  /\ versions' \in Seq([status : T!Statuses, content : Contents])
           /\ versions' # <<>>
           /\ T!Latest' = [status |-> status, content |-> attendance]
<1>1. versions' = Append(versions, [status |-> status, content |-> attendance])
  BY DEF T!AddVersion
<1>2. /\ versions \in Seq([status : T!Statuses, content : Contents])
      /\ [status |-> status, content |-> attendance] \in [status : T!Statuses, content : Contents]
  BY DEF T!TypeOK
<1> QED
  BY <1>1, <1>2, AppendProperties DEF T!Latest

LEMMA CalculatedType ==
    ASSUME Week, T!TypeOK
    PROVE  T!Calculated \in Nat
BY DEF Week, T!TypeOK, T!Calculated

LEMMA HoursType ==
    ASSUME Week
    PROVE  T!Hours \subseteq Nat
BY DEF Week, T!Hours

-----------------------------------------------------------------------------
(* Type correctness.                                                       *)

LEMMA InitType ==
    ASSUME Week, T!Init
    PROVE  T!TypeOK
<1>1. \A c \in Callers : T!AtRest \in [at : {"idle", "read", "insert", "write"},
                                     total : Nat, version : Nat]
  BY DEF T!AtRest
<1>2. versions \in Seq([status : T!Statuses, content : Contents])
  BY EmptySeq DEF T!Init
<1> QED
  BY <1>1, <1>2 DEF T!Init, T!TypeOK, T!Statuses

LEMMA DecisionType ==
    ASSUME Week, T!TypeOK, T!Decision
    PROVE  T!TypeOK'
<1> USE CalculatedType, HoursType
<1>1. CASE T!Submit
  <2>1. PICK status \in T!Submitted : T!AddVersion(status) /\ sheet'.status = status
                                    /\ sheet' = [sheet EXCEPT !.status = status, !.total = T!Calculated]
    BY <1>1 DEF T!Submit, T!TypeOK, T!Submitted
  <2>2. status \in T!Statuses
    BY DEF T!Statuses
  <2>3. UNCHANGED <<attendance, active, payroll, callers>>
    BY <1>1 DEF T!Submit
  <2> QED
    BY <2>1, <2>2, <2>3, VersionAdded DEF T!TypeOK
<1>2. ASSUME NEW hours \in T!Hours, T!Approve(hours)
      PROVE  T!TypeOK'
  <2>1. "APPROVED" \in T!Statuses
    BY DEF T!Statuses
  <2> QED
    BY <1>2, <2>1, VersionAdded DEF T!Approve, T!TypeOK
<1>3. ASSUME NEW hours \in T!Hours, T!Amend(hours)
      PROVE  T!TypeOK'
  <2>1. "APPROVED" \in T!Statuses
    BY DEF T!Statuses
  <2> QED
    BY <1>3, <2>1, VersionAdded DEF T!Amend, T!TypeOK
<1>4. ASSUME NEW status \in T!Statuses, T!Review(status)
      PROVE  T!TypeOK'
  BY <1>4, VersionAdded DEF T!Review, T!TypeOK
<1> QED
  BY <1>1, <1>2, <1>3, <1>4 DEF T!Decision

LEMMA RefreshType ==
    ASSUME Week, T!TypeOK, NEW c \in Callers, T!Refresh(c)
    PROVE  T!TypeOK'
<1> DEFINE Place == [at : {"idle", "read", "insert", "write"}, total : Nat, version : Nat]
<1>1. T!AtRest \in Place
  BY DEF T!AtRest
<1>2. callers[c] \in Place /\ callers[c].total \in Nat
  BY DEF T!TypeOK
<1>3. Len(versions) \in Nat
  BY LenProperties DEF T!TypeOK
<1>4. CASE T!Load(c)
  BY <1>4, CalculatedType DEF T!Load, T!TypeOK
<1>5. CASE T!Read(c)
  BY <1>5, <1>1, <1>2, <1>3 DEF T!Read, T!TypeOK
<1>6. CASE T!Insert(c)
  <2>1. "DRAFT" \in T!Statuses
    BY DEF T!Statuses, T!Open
  <2> QED
    BY <1>6, <1>1, <1>2, <2>1 DEF T!Insert, T!TypeOK
<1>7. CASE T!Write(c)
  BY <1>7, <1>1, <1>2 DEF T!Write, T!TypeOK
<1>8. CASE T!RefreshFails(c)
  BY <1>8, <1>1 DEF T!RefreshFails, T!TypeOK
<1> QED
  BY <1>4, <1>5, <1>6, <1>7, <1>8 DEF T!Refresh

LEMMA NextType ==
    ASSUME Week, T!TypeOK, [T!Next]_(T!vars)
    PROVE  T!TypeOK'
<1>1. CASE T!Decision
  BY <1>1, DecisionType
<1>2. CASE T!AccountChanges
  BY <1>2 DEF T!AccountChanges, T!TypeOK
<1>3. ASSUME NEW content \in Contents, T!Edit(content)
      PROVE  T!TypeOK'
  BY <1>3 DEF T!Edit, T!TypeOK
<1>4. ASSUME NEW c \in Callers, T!Refresh(c)
      PROVE  T!TypeOK'
  BY <1>4, RefreshType
<1>5. CASE UNCHANGED T!vars
  BY <1>5 DEF T!vars, T!TypeOK
<1> QED
  BY <1>1, <1>2, <1>3, <1>4, <1>5 DEF T!Next

\* Every reachable state of a week is well typed.
THEOREM WeekIsTypeCorrect ==
    ASSUME Week
    PROVE  T!Spec => []T!TypeOK
<1>1. T!Init => T!TypeOK
  BY InitType
<1>2. T!TypeOK /\ [T!Next]_(T!vars) => T!TypeOK'
  BY NextType
<1> QED
  BY <1>1, <1>2, PTL DEF T!Spec

-----------------------------------------------------------------------------
(* Approved hours.                                                         *)

Inv == T!TypeOK /\ T!ApprovedIsCurrent /\ T!SubmittedHoursStand

LEMMA InitInv ==
    ASSUME Week, T!Init
    PROVE  Inv
BY InitType DEF Inv, T!Init, T!ApprovedIsCurrent, T!SubmittedHoursStand, T!Submitted

\* What keeps the versions keeps the latest of them.
LEMMA LatestKept ==
    ASSUME UNCHANGED versions
    PROVE  T!Latest' = T!Latest
BY DEF T!Latest

LEMMA DecisionInv ==
    ASSUME Week, Inv, T!Decision
    PROVE  T!ApprovedIsCurrent' /\ T!SubmittedHoursStand'
<1> USE DEF Inv
<1>0. T!Resolved => T!Calculated = Minutes[attendance]
  BY DEF T!Resolved, T!Calculated
<1>1. CASE T!Submit
  <2>1. PICK status \in T!Submitted :
          /\ T!AddVersion(status)
          /\ sheet' = [sheet EXCEPT !.status = status, !.total = T!Calculated]
    BY <1>1 DEF T!Submit, T!Submitted
  <2>2. status \in T!Statuses
    BY DEF T!Statuses
  <2>3. versions' # <<>> /\ T!Latest'.content = attendance
    BY <2>1, <2>2, VersionAdded
  <2>4. sheet'.status = status /\ sheet'.total = Minutes[attendance]
    BY <1>0, <1>1, <2>1 DEF T!Submit, T!TypeOK
  <2>5. UNCHANGED <<attendance, payroll>> /\ sheet.status # "APPROVED"
    BY <1>1 DEF T!Submit, T!Open
  <2>6. T!ApprovedIsCurrent'
    BY <2>4, <2>5 DEF T!ApprovedIsCurrent, T!Submitted
  <2>7. T!SubmittedHoursStand'
    BY <2>3, <2>4, <2>5 DEF T!SubmittedHoursStand
  <2> QED
    BY <2>6, <2>7
<1>2. ASSUME NEW hours \in T!Hours, T!Approve(hours) \/ T!Amend(hours)
      PROVE  T!ApprovedIsCurrent' /\ T!SubmittedHoursStand'
  <2>1. versions' # <<>> /\ T!Latest' = [status |-> "APPROVED", content |-> attendance]
    BY <1>2, VersionAdded DEF T!Approve, T!Amend, T!Statuses
  <2>2. UNCHANGED attendance
    BY <1>2 DEF T!Approve, T!Amend
  <2>3. sheet' = [status |-> "APPROVED", total |-> Minutes[attendance], approved |-> hours]
    <3>1. CASE T!Approve(hours)
      BY <1>0, <3>1 DEF T!Approve
    <3>2. CASE T!Amend(hours)
      BY <1>0, <3>2 DEF T!Amend, T!TypeOK
    <3> QED
      BY <1>2, <3>1, <3>2
  <2>4. payroll' = [status |-> "READY", hours |-> hours]
    BY <1>2 DEF T!Approve, T!Amend, T!TypeOK
  <2>5. T!ApprovedIsCurrent'
    BY <2>1, <2>2, <2>3, <2>4 DEF T!ApprovedIsCurrent
  <2>6. T!SubmittedHoursStand'
    BY <2>3 DEF T!SubmittedHoursStand, T!Submitted
  <2> QED
    BY <2>5, <2>6
<1>3. ASSUME NEW status \in T!Statuses, T!Review(status)
      PROVE  T!ApprovedIsCurrent' /\ T!SubmittedHoursStand'
  <2>1. sheet'.status = status /\ status \in {"REJECTED", "CORRECTION_REQUIRED"}
    BY <1>3 DEF T!Review, T!TypeOK
  <2>2. payroll'.status # "READY"
    BY <1>3 DEF T!Review, T!TypeOK
  <2> QED
    BY <2>1, <2>2 DEF T!ApprovedIsCurrent, T!SubmittedHoursStand, T!Submitted
<1> QED
  BY <1>1, <1>2, <1>3 DEF T!Decision

\* A refresh writes to an open timesheet only.
LEMMA RefreshInv ==
    ASSUME Week, Inv, NEW c \in Callers, T!Refresh(c)
    PROVE  T!ApprovedIsCurrent' /\ T!SubmittedHoursStand'
<1>1. UNCHANGED <<attendance, versions, payroll>>
  BY DEF T!Refresh, T!Load, T!Read, T!Insert, T!Write, T!RefreshFails
<1>2. T!Latest' = T!Latest
  BY <1>1, LatestKept
<1>3. \/ UNCHANGED sheet
      \/ /\ sheet.status \notin T!Submitted \cup {"APPROVED"}
         /\ sheet'.status \notin T!Submitted \cup {"APPROVED"}
  BY DEF Inv, T!TypeOK, T!Refresh, T!Load, T!Read, T!Insert, T!Write, T!RefreshFails, T!Open, T!Submitted
<1> QED
  BY <1>1, <1>2, <1>3 DEF Inv, T!ApprovedIsCurrent, T!SubmittedHoursStand

LEMMA NextInv ==
    ASSUME Week, Inv, [T!Next]_(T!vars)
    PROVE  Inv'
<1>1. T!TypeOK'
  BY NextType DEF Inv
<1>2. CASE T!Decision
  BY <1>1, <1>2, DecisionInv DEF Inv
<1>3. CASE T!AccountChanges \/ UNCHANGED T!vars
  <2>1. UNCHANGED <<attendance, sheet, versions, payroll>> /\ T!Latest' = T!Latest
    BY <1>3, LatestKept DEF T!AccountChanges, T!vars
  <2> QED
    BY <1>1, <2>1 DEF Inv, T!ApprovedIsCurrent, T!SubmittedHoursStand
<1>4. ASSUME NEW content \in Contents, T!Edit(content)
      PROVE  Inv'
  <2>1. UNCHANGED <<sheet, versions, payroll>> /\ T!Latest' = T!Latest
    BY <1>4, LatestKept DEF T!Edit
  <2>2. sheet.status # "APPROVED"
    BY <1>4 DEF T!Edit, T!MutablePeriod
  <2> QED
    BY <1>1, <2>1, <2>2 DEF Inv, T!ApprovedIsCurrent, T!SubmittedHoursStand
<1>5. ASSUME NEW c \in Callers, T!Refresh(c)
      PROVE  Inv'
  BY <1>1, <1>5, RefreshInv DEF Inv
<1> QED
  BY <1>2, <1>3, <1>4, <1>5 DEF T!Next

LEMMA Invariance ==
    ASSUME Week
    PROVE  T!Spec => []Inv
<1>1. T!Init => Inv
  BY InitInv
<1>2. Inv /\ [T!Next]_(T!vars) => Inv'
  BY NextInv
<1> QED
  BY <1>1, <1>2, PTL DEF T!Spec

\* What was approved stays what was worked, in the timesheet, in its last
\* version and in payroll: edits, decisions and refreshes in any order.
THEOREM WeekApprovedStands ==
    ASSUME Week
    PROVE  T!Spec => []T!ApprovedIsCurrent
<1>1. Inv => T!ApprovedIsCurrent
  BY DEF Inv
<1> QED
  BY <1>1, Invariance, PTL

\* No refresh, however late, changes the hours that were submitted.
THEOREM WeekSubmissionStands ==
    ASSUME Week
    PROVE  T!Spec => []T!SubmittedHoursStand
<1>1. Inv => T!SubmittedHoursStand
  BY DEF Inv
<1> QED
  BY <1>1, Invariance, PTL

-----------------------------------------------------------------------------
(* The week within its delivery.                                           *)

\* The constants of the week, as WeeklyDelivery assumes them.
LEMMA WeekOK == Week
BY ContentsAssumption DEF Week

\* The one thing the delivery adds to a week: a draft where there was no
\* timesheet.
DraftAdded ==
    /\ SheetExists
    /\ UNCHANGED <<attendance, active, versions, payroll, callers>>

\* A step leaves the week alone, is a step of the week, or adds the draft.
LEMMA WeekStep ==
    ASSUME [Next]_vars
    PROVE  [T!Next]_(T!vars) \/ DraftAdded
<1> USE DEF T!vars, week
<1>1. ASSUME NEW s \in Senders, Reserve(s)
      PROVE  DraftAdded
  BY <1>1 DEF Reserve, DraftAdded
<1>2. ASSUME NEW s \in Senders, NEW retry \in BOOLEAN, Revise(s, retry)
      PROVE  DraftAdded
  BY <1>2 DEF Revise, DraftAdded
<1>3. ASSUME NEW s \in Senders, QueueRefused(s) \/ SenderCrash(s)
      PROVE  UNCHANGED week
  BY <1>3 DEF QueueRefused, SenderCrash
<1>4. ASSUME NEW s \in Senders, NEW outcome \in Q!Outcomes, Queue(s, outcome) \/ RecordFailure(s, outcome)
      PROVE  UNCHANGED week
  BY <1>4 DEF Queue, RecordFailure
<1>5. CASE ReportUnfit
  BY <1>5 DEF ReportUnfit
<1>6. CASE TakeForMailed
  BY <1>6 DEF TakeForMailed, DraftAdded
<1>7. CASE HoldChangedSource
  BY <1>7 DEF HoldChangedSource, DraftAdded
<1>8. CASE QueueStep
  <2>1. ASSUME NEW w \in Workers, CycleStep(w)
        PROVE  UNCHANGED week
    BY <2>1 DEF CycleStep, Sweep, Prepare, RecordSent, Mark
  <2> QED
    BY <1>8, <2>1 DEF QueueStep
<1>9. CASE RecordsChange
  BY <1>9 DEF RecordsChange, T!Next
<1>10. CASE RefreshStep
  BY <1>10 DEF RefreshStep, T!Next
<1>11. CASE AddressChanges \/ WeekPasses \/ UNCHANGED vars
  BY <1>11 DEF AddressChanges, WeekPasses, vars
<1> QED
  BY <1>1, <1>2, <1>3, <1>4, <1>5, <1>6, <1>7, <1>8, <1>9, <1>10, <1>11 DEF Next

-----------------------------------------------------------------------------
\* The draft that the delivery adds to a week without a timesheet.
LEMMA DraftInv ==
    ASSUME Inv, DraftAdded
    PROVE  Inv'
<1>1. T!Latest' = T!Latest
  BY DEF DraftAdded, T!Latest
<1>2. attendance \in Contents /\ Minutes[attendance] \in Nat
  BY ContentsAssumption DEF Inv, T!TypeOK
<1>3. \/ UNCHANGED sheet
      \/ /\ sheet.status = "NONE"
         /\ sheet' = [status |-> "DRAFT", total |-> Minutes[attendance], approved |-> 0]
  BY DEF DraftAdded, SheetExists
<1>4. T!TypeOK'
  BY <1>2, <1>3 DEF DraftAdded, Inv, T!TypeOK, T!Statuses, T!Open
<1>5. T!ApprovedIsCurrent' /\ T!SubmittedHoursStand'
  BY <1>1, <1>3 DEF DraftAdded, Inv, T!ApprovedIsCurrent, T!SubmittedHoursStand, T!Submitted
<1> QED
  BY <1>4, <1>5 DEF Inv

LEMMA WeekInvariance == Spec => []Inv
<1>1. Init => Inv
  BY WeekOK, InitInv DEF Init
<1>2. Inv /\ [Next]_vars => Inv'
  BY WeekStep, WeekOK, DraftInv, NextInv
<1> QED
  BY <1>1, <1>2, PTL DEF Spec

\* What was approved stays what was worked, in the timesheet, in its last
\* version and in payroll, while its e-mail is prepared, corrected and sent.
THEOREM ApprovedStands == Spec => []ApprovedIsCurrent
<1>1. Inv => ApprovedIsCurrent
  BY DEF Inv, ApprovedIsCurrent
<1> QED
  BY <1>1, WeekInvariance, PTL

\* No refresh, however late, and no delivery changes the hours that were
\* submitted.
THEOREM SubmissionStands == Spec => []SubmittedHoursStand
<1>1. Inv => SubmittedHoursStand
  BY DEF Inv, SubmittedHoursStand
<1> QED
  BY <1>1, WeekInvariance, PTL

-----------------------------------------------------------------------------
(* The delivery and its queue.                                             *)

\* What is proved of the queue by itself.
E == INSTANCE EmailQueueProofs WITH Msgs <- Revisions, Weekly <- Revisions, Invoices <- {}

Deliveries == [status : DeliveryStatus, version : Revisions,
               recipient : Addresses \cup {None}, source : Sources \cup {None},
               queue : Revisions \cup {None}, token : Senders \cup {None},
               attempts : 0..MaxGenerations]

Places == [at : {"idle", "reserved", "failing"}, version : Revisions \cup {None},
           source : Sources \cup {None}, recipient : Addresses \cup {None}, held : BOOLEAN]

OwnType ==
    /\ address \in Addresses \cup {None}
    /\ latest \in BOOLEAN
    /\ delivery \in Deliveries
    /\ letters \in [Revisions -> Letters \cup {None}]
    /\ senders \in [Senders -> Places]

VersionsFit == Len(versions) <= MaxVersions

\* A cycle that goes on to mark the delivery records no acceptance.
Failures == {"RETRY", "FAILED", "REVIEW_REQUIRED"}
VerdictsFit == \A w \in Workers : pc[w] \in {"log", "mark"} => verdict[w] \in Failures

\* Whoever has reserved a version knows what it is made of, and nobody else
\* prepares another one under the same claim.
SenderFits(s) ==
    senders[s].at = "reserved" =>
        /\ senders[s].version \in Revisions
        /\ senders[s].source \in Sources
        /\ senders[s].recipient \in Addresses
        /\ delivery.token = s =>
              /\ delivery.version = senders[s].version
              /\ delivery.source = senders[s].source
              /\ delivery.recipient = senders[s].recipient

SendersFit == \A s \in Senders : SenderFits(s)

\* A source has its recipient.
SourceHasRecipient == delivery.source # None => delivery.recipient \in Addresses

\* While a message is in transport the employee is locked: what was validated
\* stays so.
Fresh(v) ==
    /\ delivery.queue = v
    /\ active
    /\ letters[v] = [source |-> Source(v), recipient |-> address]

InTransportIsFresh == \A w \in Workers : pc[w] = "send" => Fresh(row[w])

OwnInv == OwnType /\ SendersFit /\ SourceHasRecipient /\ QueuedIsTheVersion

DeliveryInv ==
    /\ E!IInv /\ Inv /\ VersionsFit /\ VerdictsFit
    /\ OwnInv /\ InTransportIsFresh

\* The constants of the queue, as WeeklyDelivery assumes them.
LEMMA QueueConstants ==
    /\ Revisions \subseteq Revisions /\ {} \subseteq Revisions \ Revisions
    /\ NoMsg \notin Revisions
    /\ MaxAttempts \in Nat \ {0}
    /\ {MaxClaims, MaxRetries, MaxCrashes, MaxDbErrors, MaxStalls} \subseteq Nat
BY QueueAssumption

\* The queue that is composed here is the one that those proofs are about.
LEMMA SameQueue ==
    /\ Q!Init => E!Init
    /\ E!TypeOK => Q!TypeOK
    /\ Q!Outcomes = E!Outcomes
    /\ Q!Errors = E!Errors
BY DEF Q!Init, E!Init, Q!TypeOK, E!TypeOK, Q!Outcomes, E!Outcomes, Q!Errors, E!Errors,
       Q!RowStatus, E!RowStatus, Q!PCs, E!PCs, Q!Verdicts, E!Verdicts

LEMMA SameCycle ==
    ASSUME NEW w, NEW left
    PROVE  /\ Q!Continue(w, left) <=> E!Continue(w, left)
           /\ Q!Stop(w) <=> E!Stop(w)
           /\ Q!Done(w) <=> E!Done(w)
BY DEF Q!Continue, E!Continue, Q!Stop, E!Stop, Q!Done, E!Done

LEMMA SameEnd ==
    ASSUME NEW w, NEW place, NEW status, NEW error, NEW outcome
    PROVE  /\ Q!Goto(w, place) <=> E!Goto(w, place)
           /\ Q!Record(w, status, place) <=> E!Record(w, status, place)
           /\ Q!Caught(w, error) <=> E!Caught(w, error)
           /\ Q!Ends(outcome) <=> E!Ends(outcome)
<1>1. \A m, n : Q!Decide(m, n, error) = E!Decide(m, n, error)
  BY DEF Q!Decide, E!Decide
<1> QED
  BY <1>1 DEF Q!Goto, E!Goto, Q!Record, E!Record, Q!Caught, E!Caught, Q!Ends, E!Ends

LEMMA SameSteps ==
    ASSUME NEW w, NEW outcome, NEW m, NEW error, NEW taken
    PROVE  /\ Q!Sweep(w, outcome) => E!Sweep(w, outcome)
           /\ Q!Select(w, outcome) => E!Select(w, outcome)
           /\ Q!Claim(w, m, outcome) => E!Claim(w, m, outcome)
           /\ Q!Prepare(w, error) => E!Prepare(w, error)
           /\ Q!Send(w, error, taken) => E!Send(w, error, taken)
           /\ Q!RecordSent(w, outcome) => E!RecordSent(w, outcome)
           /\ Q!Settle(w, outcome) => E!Settle(w, outcome)
           /\ Q!Log(w, outcome) => E!Log(w, outcome)
           /\ Q!Confirm(w, outcome) => E!Confirm(w, outcome)
           /\ Q!Mark(w, outcome) => E!Mark(w, outcome)
           /\ Q!MarkVersion(w, outcome) => E!MarkVersion(w, outcome)
           /\ Q!Crash(w) => E!Crash(w)
<1>1. \A n : (Q!Due(n) <=> E!Due(n)) /\ (Q!Claimable(n) <=> E!Claimable(n))
  BY DEF Q!Due, E!Due, Q!Claimable, E!Claimable
<1>2. \A n : (Q!Abandoned(n) <=> E!Abandoned(n)) /\ (Q!Locked(n) <=> E!Locked(n))
  BY DEF Q!Abandoned, E!Abandoned, Q!Locked, E!Locked
<1>3. Q!Sweep(w, outcome) => E!Sweep(w, outcome)
  BY <1>2, SameEnd DEF Q!Sweep, E!Sweep
<1>4. Q!Select(w, outcome) => E!Select(w, outcome)
  BY <1>1, SameEnd DEF Q!Select, E!Select
<1>5. Q!Claim(w, m, outcome) => E!Claim(w, m, outcome)
  BY <1>1, SameEnd, SameCycle DEF Q!Claim, E!Claim
<1>6. Q!Prepare(w, error) => E!Prepare(w, error)
  BY SameEnd DEF Q!Prepare, E!Prepare
<1>7. Q!Send(w, error, taken) => E!Send(w, error, taken)
  BY SameEnd DEF Q!Send, E!Send
<1>8. Q!RecordSent(w, outcome) => E!RecordSent(w, outcome)
  BY SameEnd, SameCycle DEF Q!RecordSent, E!RecordSent
<1>9. Q!Settle(w, outcome) => E!Settle(w, outcome)
  BY SameEnd, SameCycle DEF Q!Settle, E!Settle
<1>10. Q!Log(w, outcome) => E!Log(w, outcome)
  BY SameEnd, SameCycle DEF Q!Log, E!Log
<1>11. Q!Confirm(w, outcome) => E!Confirm(w, outcome)
  BY SameEnd, SameCycle DEF Q!Confirm, E!Confirm
<1>12. Q!Mark(w, outcome) => E!Mark(w, outcome)
  BY SameEnd, SameCycle DEF Q!Mark, E!Mark
<1>13. Q!MarkVersion(w, outcome) => E!MarkVersion(w, outcome)
  BY SameEnd, SameCycle DEF Q!MarkVersion, E!MarkVersion
<1>14. Q!Crash(w) => E!Crash(w)
  BY SameCycle DEF Q!Crash, E!Crash
<1> QED
  BY <1>3, <1>4, <1>5, <1>6, <1>7, <1>8, <1>9, <1>10, <1>11, <1>12, <1>13, <1>14

LEMMA SameOutside ==
    ASSUME NEW m, NEW later
    PROVE  /\ Q!QueueEmail(m, later) => E!QueueEmail(m, later)
           /\ Q!Retry(m) => E!Retry(m)
           /\ Q!BackoffElapses(m) => E!BackoffElapses(m)
           /\ Q!ClaimAges(m) => E!ClaimAges(m)
BY DEF Q!QueueEmail, E!QueueEmail, Q!Retry, E!Retry, Q!BackoffElapses, E!BackoffElapses,
       Q!ClaimAges, E!ClaimAges, Q!cycle, E!cycle

-----------------------------------------------------------------------------
\* What a step of one cycle does to the queue and to the other cycles.
Cycles(w) ==
    /\ E!IInv'
    /\ \A v \in Revisions : queue'[v].status # "NONE" => queue[v].status # "NONE"
    /\ \A u \in Workers \ {w} : pc'[u] = pc[u] /\ row'[u] = row[u] /\ verdict'[u] = verdict[u]
    /\ pc'[w] \in {"log", "mark"} => verdict'[w] \in Failures
    /\ pc'[w] = "send" => pc[w] = "prepare" /\ row'[w] = row[w]
    /\ \A v \in Revisions : accepted'[v] > accepted[v] => pc[w] = "send" /\ v = row[w]

\* Where a step of a cycle leaves it.
Leaves(w) ==
    /\ \A u \in Workers \ {w} : pc'[u] = pc[u] /\ row'[u] = row[u] /\ verdict'[u] = verdict[u]
    /\ \/ pc'[w] \in {"idle", "select", "claim", "prepare", "settle", "sent"}
       \/ pc'[w] = "markVersion" \/ pc'[w] = "confirm"
       \/ pc'[w] = "log" /\ verdict'[w] = verdict[w] /\ pc[w] = "settle"
       \/ pc'[w] = "mark" /\ verdict'[w] = verdict[w] /\ pc[w] = "log"
       \/ pc'[w] = "send" /\ pc[w] = "prepare" /\ row'[w] = row[w]

LEMMA GotoLeaves ==
    ASSUME Q!TypeOK, NEW w \in Workers, NEW place, Q!Goto(w, place)
    PROVE  /\ pc'[w] = place /\ row'[w] = row[w] /\ verdict'[w] = verdict[w]
           /\ \A u \in Workers \ {w} : pc'[u] = pc[u] /\ row'[u] = row[u] /\ verdict'[u] = verdict[u]
BY DEF Q!TypeOK, Q!Goto

LEMMA ContinueLeaves ==
    ASSUME Q!TypeOK, NEW w \in Workers, NEW left, Q!Continue(w, left)
    PROVE  Leaves(w)
BY DEF Q!TypeOK, Q!Continue, Leaves

LEMMA EndLeaves ==
    ASSUME Q!TypeOK, NEW w \in Workers, Q!Stop(w) \/ Q!Done(w)
    PROVE  Leaves(w)
BY ContinueLeaves DEF Q!Stop, Q!Done

LEMMA CaughtLeaves ==
    ASSUME Q!TypeOK, NEW w \in Workers, NEW error, Q!Caught(w, error)
    PROVE  Leaves(w)
BY DEF Q!TypeOK, Q!Caught, Q!Record, Leaves

\* The row of a cycle is a message, in a status that nobody else changes, while
\* the cycle may still write it.
LEMMA RowOf ==
    ASSUME E!IInv, NEW w \in Workers, pc[w] \in {"prepare", "send", "sent", "settle"}
    PROVE  row[w] \in Revisions /\ queue[row[w]].status # "NONE"
BY DEF E!IInv, E!HolderOK, E!Holding, E!Held

LEMMA VerdictOf ==
    ASSUME E!IInv, NEW w \in Workers, pc[w] = "settle"
    PROVE  verdict[w] \in Failures
BY DEF E!IInv, E!HolderOK, Failures

LEMMA LeavesVerdict ==
    ASSUME E!IInv, VerdictsFit, NEW w \in Workers, Leaves(w)
    PROVE  /\ pc'[w] \in {"log", "mark"} => verdict'[w] \in Failures
           /\ pc'[w] = "send" => pc[w] = "prepare" /\ row'[w] = row[w]
BY VerdictOf DEF Leaves, VerdictsFit

\* Steps that leave the rows and the provider alone.
LEMMA QuietCycles ==
    ASSUME E!IInv, E!IInv', VerdictsFit, NEW w \in Workers, Leaves(w),
           UNCHANGED <<queue, accepted>>
    PROVE  Cycles(w)
<1>1. \A v \in Revisions : ~(accepted'[v] > accepted[v])
  BY DEF E!IInv, E!TypeOK
<1> QED
  BY <1>1, LeavesVerdict DEF Cycles, Leaves

LEMMA SweepCycles ==
    ASSUME E!IInv, VerdictsFit, NEW w \in Workers, NEW outcome \in Q!Outcomes, Q!Sweep(w, outcome)
    PROVE  Cycles(w)
<1>1. E!IInv' /\ Q!TypeOK
  BY SameSteps, SameQueue, QueueConstants, E!SweepKeeps DEF E!IInv
<1>2. Leaves(w)
  BY <1>1, GotoLeaves DEF Q!Sweep, Leaves
<1>3. \A v \in Revisions : queue'[v].status # "NONE" => queue[v].status # "NONE"
  BY DEF Q!Sweep, Q!Abandoned
<1>4. \A v \in Revisions : ~(accepted'[v] > accepted[v])
  <2>1. UNCHANGED accepted
    BY DEF Q!Sweep
  <2> QED
    BY <2>1 DEF E!IInv, E!TypeOK
<1> QED
  BY <1>1, <1>2, <1>3, <1>4, LeavesVerdict DEF Cycles, Leaves

LEMMA SelectCycles ==
    ASSUME E!IInv, VerdictsFit, NEW w \in Workers, NEW outcome \in Q!Outcomes, Q!Select(w, outcome)
    PROVE  Cycles(w)
<1>1. E!IInv' /\ Q!TypeOK
  BY SameSteps, SameQueue, QueueConstants, E!SelectKeeps DEF E!IInv
<1>2. Leaves(w) /\ UNCHANGED <<queue, accepted>>
  BY <1>1 DEF Q!Select, Leaves, Q!TypeOK
<1> QED
  BY <1>1, <1>2, QuietCycles

LEMMA ClaimCycles ==
    ASSUME E!IInv, VerdictsFit, NEW w \in Workers, NEW m \in Revisions,
           NEW outcome \in Q!Outcomes, Q!Claim(w, m, outcome)
    PROVE  Cycles(w)
<1>1. E!IInv' /\ Q!TypeOK
  BY SameSteps, SameQueue, QueueConstants, E!ClaimKeeps DEF E!IInv
<1> DEFINE claimed == outcome # "error" /\ Q!Claimable(m)
<1>2. Leaves(w)
  <2>1. CASE Q!Stop(w) \/ Q!Continue(w, batch[w] \ {m})
    BY <1>1, <2>1, EndLeaves, ContinueLeaves
  <2>2. CASE pc' = [pc EXCEPT ![w] = "prepare"] /\ row' = [row EXCEPT ![w] = m] /\ UNCHANGED verdict
    BY <1>1, <2>2 DEF Leaves, Q!TypeOK
  <2> QED
    BY <2>1, <2>2 DEF Q!Claim
<1>3. \A v \in Revisions : queue'[v].status # "NONE" => queue[v].status # "NONE"
  <2>1. queue' = queue \/ (/\ queue[m].status # "NONE"
                           /\ queue' = [queue EXCEPT ![m].status = "SENDING",
                                         ![m].attempts = @ + 1, ![m].stale = FALSE])
    BY DEF Q!Claim, Q!Claimable, Q!Due
  <2> QED
    BY <1>1, <2>1 DEF Q!TypeOK
<1>4. \A v \in Revisions : ~(accepted'[v] > accepted[v])
  BY DEF Q!Claim, E!IInv, E!TypeOK
<1> QED
  BY <1>1, <1>2, <1>3, <1>4, LeavesVerdict DEF Cycles, Leaves

LEMMA PrepareCycles ==
    ASSUME E!IInv, VerdictsFit, NEW w \in Workers, NEW error \in Q!Errors \cup {"none"},
           Q!Prepare(w, error)
    PROVE  Cycles(w)
<1>1. E!IInv' /\ Q!TypeOK
  BY SameSteps, SameQueue, QueueConstants, E!PrepareKeeps DEF E!IInv
<1>2. CASE Q!Goto(w, "send")
  BY <1>1, <1>2, GotoLeaves, QuietCycles DEF Q!Prepare, Leaves
<1>3. CASE Q!Caught(w, error)
  BY <1>1, <1>3, CaughtLeaves, QuietCycles DEF Q!Prepare
<1> QED
  BY <1>2, <1>3 DEF Q!Prepare

LEMMA SendCycles ==
    ASSUME E!IInv, VerdictsFit, NEW w \in Workers, NEW error \in Q!Errors \cup {"none"},
           NEW taken \in BOOLEAN, Q!Send(w, error, taken)
    PROVE  Cycles(w)
<1>1. E!IInv' /\ Q!TypeOK
  BY SameSteps, SameQueue, QueueConstants, E!SendKeeps DEF E!IInv
<1>2. Leaves(w)
  <2>1. CASE Q!Record(w, "SENT", "sent")
    BY <1>1, <2>1 DEF Q!Record, Leaves, Q!TypeOK
  <2> QED
    BY <1>1, <2>1, CaughtLeaves DEF Q!Send
<1>3. pc[w] = "send" /\ UNCHANGED queue
  BY DEF Q!Send
<1>4. \A v \in Revisions : accepted'[v] > accepted[v] => v = row[w]
  BY <1>1 DEF Q!Send, Q!TypeOK
<1> QED
  BY <1>1, <1>2, <1>3, <1>4, LeavesVerdict DEF Cycles, Leaves

LEMMA WriteCycles ==
    ASSUME E!IInv, VerdictsFit, NEW w \in Workers, NEW outcome \in Q!Outcomes,
           Q!RecordSent(w, outcome) \/ Q!Settle(w, outcome)
    PROVE  Cycles(w)
<1>1. E!IInv' /\ Q!TypeOK
  BY SameSteps, SameQueue, QueueConstants, E!RecordSentKeeps, E!SettleKeeps DEF E!IInv
<1>2. Leaves(w)
  <2>1. CASE Q!RecordSent(w, outcome)
    <3>1. row[w] \in Revisions
      BY <2>1, RowOf DEF Q!RecordSent
    <3> QED
      BY <1>1, <2>1, <3>1, CaughtLeaves, EndLeaves DEF Q!RecordSent
  <2>2. CASE Q!Settle(w, outcome)
    <3>1. pc[w] = "settle"
      BY <2>2 DEF Q!Settle
    <3>2. CASE Q!Goto(w, "log")
      BY <1>1, <3>1, <3>2, GotoLeaves DEF Leaves
    <3> QED
      BY <1>1, <2>2, <3>2, EndLeaves DEF Q!Settle
  <2> QED
    BY <2>1, <2>2
<1>3. row[w] \in Revisions /\ queue[row[w]].status # "NONE"
  BY RowOf DEF Q!RecordSent, Q!Settle
<1>4. \A v \in Revisions : queue'[v].status # "NONE" => queue[v].status # "NONE"
  BY <1>1, <1>3 DEF Q!RecordSent, Q!Settle, Q!TypeOK
<1>5. \A v \in Revisions : ~(accepted'[v] > accepted[v])
  BY DEF Q!RecordSent, Q!Settle, E!IInv, E!TypeOK
<1> QED
  BY <1>1, <1>2, <1>4, <1>5, LeavesVerdict DEF Cycles, Leaves

LEMMA BookkeepingCycles ==
    ASSUME E!IInv, VerdictsFit, NEW w \in Workers, NEW outcome \in Q!Outcomes,
           \/ Q!Log(w, outcome) \/ Q!Confirm(w, outcome)
           \/ Q!Mark(w, outcome) \/ Q!MarkVersion(w, outcome)
    PROVE  Cycles(w)
<1>1. E!IInv' /\ Q!TypeOK
  BY SameSteps, SameQueue, QueueConstants, E!BookkeepingKeeps DEF E!IInv
<1>2. UNCHANGED <<queue, accepted>>
  BY DEF Q!Log, Q!Confirm, Q!Mark, Q!MarkVersion
<1>3. \/ Q!Stop(w) \/ Q!Done(w) \/ Q!Caught(w, "held")
      \/ Q!Goto(w, "confirm") \/ Q!Goto(w, "markVersion")
      \/ Q!Goto(w, "mark") /\ pc[w] = "log"
  BY DEF Q!Log, Q!Confirm, Q!Mark, Q!MarkVersion
<1>4. Leaves(w)
  <2>1. CASE Q!Stop(w) \/ Q!Done(w) \/ Q!Caught(w, "held")
    BY <1>1, <2>1, EndLeaves, CaughtLeaves
  <2>2. CASE Q!Goto(w, "confirm") \/ Q!Goto(w, "markVersion")
    BY <1>1, <2>2, GotoLeaves DEF Leaves
  <2>3. CASE Q!Goto(w, "mark") /\ pc[w] = "log"
    BY <1>1, <2>3, GotoLeaves DEF Leaves
  <2> QED
    BY <1>3, <2>1, <2>2, <2>3
<1> QED
  BY <1>1, <1>2, <1>4, QuietCycles

LEMMA CrashCycles ==
    ASSUME E!IInv, VerdictsFit, NEW w \in Workers, Q!Crash(w)
    PROVE  Cycles(w)
<1>1. E!IInv' /\ Q!TypeOK
  BY SameSteps, SameQueue, QueueConstants, E!CrashKeeps DEF E!IInv
<1> QED
  BY <1>1, EndLeaves, QuietCycles DEF Q!Crash

-----------------------------------------------------------------------------
(* What the delivery is made of.                                           *)

LEMMA SourceType ==
    ASSUME Inv, VersionsFit, NEW v \in Revisions
    PROVE  Source(v) \in Sources
<1>1. Len(versions) \in 0..MaxVersions
  <2>1. Len(versions) \in Nat
    BY LenProperties DEF Inv, T!TypeOK
  <2> QED
    BY <2>1, ContentsAssumption DEF VersionsFit
<1>2. ReviewStatus \in T!Statuses
  <2>1. sheet.status \in T!Statuses
    BY DEF Inv, T!TypeOK
  <2> QED
    BY <2>1 DEF ReviewStatus, T!Statuses, T!Open
<1>3. attendance \in Contents
  BY DEF Inv, T!TypeOK
<1> QED
  BY <1>1, <1>2, <1>3 DEF Source, Sources

LEMMA VersionsKept ==
    ASSUME Inv, VersionsFit, [T!Next]_(T!vars) \/ DraftAdded
    PROVE  VersionsFit'
<1>1. CASE UNCHANGED versions
  BY <1>1 DEF VersionsFit
<1>2. ASSUME NEW status, T!AddVersion(status)
      PROVE  VersionsFit'
  <2> DEFINE e == [status |-> status, content |-> attendance]
  <2>1. Len(versions) < MaxVersions /\ versions' = Append(versions, e)
    BY <1>2 DEF T!AddVersion
  <2>2. versions \in Seq([status : T!Statuses, content : Contents]) /\ Len(versions) \in Nat
    BY LenProperties DEF Inv, T!TypeOK
  <2>3. Len(versions') = Len(versions) + 1
    <3> HIDE DEF e
    <3> QED
      BY <2>1, <2>2
  <2> QED
    BY <2>1, <2>2, <2>3, ContentsAssumption DEF VersionsFit
<1>3. CASE T!Decision
  BY <1>2, <1>3 DEF T!Decision, T!Submit, T!Approve, T!Amend, T!Review
<1>4. CASE T!AccountChanges \/ (\E content \in Contents : T!Edit(content)) \/ (\E c \in Callers : T!Refresh(c))
  BY <1>1, <1>4 DEF T!AccountChanges, T!Edit, T!Refresh, T!Load, T!Read, T!Insert, T!Write, T!RefreshFails
<1> QED
  BY <1>1, <1>3, <1>4 DEF T!Next, T!vars, DraftAdded

\* A refresh changes nothing that a message reports.
LEMMA RefreshKeepsSource ==
    ASSUME Inv, NEW c \in Callers, T!Refresh(c)
    PROVE  UNCHANGED <<attendance, active, versions, ReviewStatus>>
<1>1. UNCHANGED <<attendance, active, versions>>
  BY DEF T!Refresh, T!Load, T!Read, T!Insert, T!Write, T!RefreshFails
<1>2. T!Latest' = T!Latest
  BY <1>1, LatestKept
<1>3. \/ UNCHANGED sheet
      \/ sheet.status = "NONE" /\ sheet'.status = "DRAFT"
      \/ sheet.status \in T!Open /\ sheet'.status = sheet.status
  BY DEF Inv, T!TypeOK, T!Refresh, T!Load, T!Read, T!Insert, T!Write, T!RefreshFails
<1>4. ReviewStatus' = ReviewStatus
  <2>1. CASE UNCHANGED sheet
    BY <1>1, <1>2, <2>1 DEF ReviewStatus, Proven
  <2>2. CASE sheet.status = "NONE" /\ sheet'.status = "DRAFT"
    BY <2>2 DEF ReviewStatus
  <2>3. CASE sheet.status \in T!Open /\ sheet'.status = sheet.status
    BY <2>3 DEF ReviewStatus, T!Open
  <2> QED
    BY <1>3, <2>1, <2>2, <2>3
<1> QED
  BY <1>1, <1>4

\* Nothing is in transport while the employee is free.
LEMMA FreeIsNotInTransport ==
    ASSUME E!IInv, EmployeeFree, UNCHANGED pc
    PROVE  InTransportIsFresh'
<1>1. ASSUME NEW w \in Workers, pc[w] = "send"
      PROVE  FALSE
  <2>1. row[w] \in Revisions
    BY <1>1, RowOf
  <2> QED
    BY <1>1, <2>1 DEF EmployeeFree, Q!Locked
<1> QED
  BY <1>1 DEF InTransportIsFresh

\* Statuses of a delivery that is linked to a message.
Linked == {"QUEUED", "RETRY", "FAILED", "SENT", "REVIEW_REQUIRED"}

\* What keeps the version, its source, its recipient and its message, and
\* lets nobody new in.
Moved ==
    /\ delivery' \in Deliveries
    /\ delivery'.version = delivery.version
    /\ delivery'.source = delivery.source
    /\ delivery'.recipient = delivery.recipient
    /\ delivery'.queue = delivery.queue
    /\ delivery'.token \in {delivery.token, None}
    /\ delivery.queue = None \/ delivery'.status \in {delivery.status} \cup Linked

SendersLeave ==
    /\ senders' \in [Senders -> Places]
    /\ \A s \in Senders : senders'[s].at = "reserved" => senders'[s] = senders[s]

LEMMA MovedKeeps ==
    ASSUME OwnInv, Moved, SendersLeave, address' \in Addresses \cup {None}, latest' \in BOOLEAN,
           UNCHANGED letters,
           \A v \in Revisions : queue'[v].status # "NONE" => queue[v].status # "NONE"
    PROVE  OwnInv'
<1>1. OwnType'
  BY DEF OwnInv, OwnType, Moved, SendersLeave
<1>2. ASSUME NEW s \in Senders, senders'[s].at = "reserved"
      PROVE  SenderFits(s)'
  <2>1. senders'[s] = senders[s] /\ SenderFits(s) /\ s # None
    BY <1>2, AddressesAssumption DEF SendersLeave, OwnInv, SendersFit
  <2> QED
    BY <1>2, <2>1 DEF SenderFits, Moved
<1>3. SendersFit'
  BY <1>2 DEF SendersFit, SenderFits
<1>4. SourceHasRecipient'
  BY DEF OwnInv, SourceHasRecipient, Moved
<1>5. QueuedIsTheVersion'
  BY DEF OwnInv, QueuedIsTheVersion, Moved, Linked, Mailed
<1> QED
  BY <1>1, <1>3, <1>4, <1>5 DEF OwnInv

LEMMA StatusSet ==
    ASSUME OwnInv, NEW status \in DeliveryStatus,
           \/ delivery' = delivery
           \/ delivery' = [delivery EXCEPT !.status = status]
           \/ delivery' = Unclaimed(status),
           delivery' = delivery \/ delivery.queue = None \/ status \in Linked
    PROVE  Moved
<1>1. delivery \in Deliveries
  BY DEF OwnInv, OwnType
<1>2. CASE delivery' = delivery
  BY <1>1, <1>2 DEF Moved
<1>3. CASE delivery' = [delivery EXCEPT !.status = status]
  BY <1>1, <1>3 DEF Moved, Deliveries
<1>4. CASE delivery' = Unclaimed(status)
  BY <1>1, <1>4 DEF Moved, Deliveries, Unclaimed
<1> QED
  BY <1>2, <1>3, <1>4

LEMMA RestType == AtRest \in Places
BY DEF AtRest, Places

LEMMA LeaveTypes ==
    ASSUME OwnInv, NEW s \in Senders,
           \/ UNCHANGED senders
           \/ Goto(s, AtRest)
           \/ Goto(s, [senders[s] EXCEPT !.at = "failing"])
           \/ Goto(s, [senders[s] EXCEPT !.at = "failing", !.held = TRUE])
    PROVE  SendersLeave
<1>1. senders \in [Senders -> Places] /\ senders[s] \in Places
  BY DEF OwnInv, OwnType
<1>2. ASSUME NEW place \in Places, place.at # "reserved", Goto(s, place)
      PROVE  SendersLeave
  BY <1>1, <1>2 DEF SendersLeave, Goto
<1>3. CASE UNCHANGED senders
  BY <1>1, <1>3 DEF SendersLeave
<1>4. CASE Goto(s, AtRest)
  BY <1>2, <1>4, RestType DEF AtRest
<1>5. CASE Goto(s, [senders[s] EXCEPT !.at = "failing"])
  <2>1. [senders[s] EXCEPT !.at = "failing"] \in Places /\ [senders[s] EXCEPT !.at = "failing"].at # "reserved"
    BY <1>1 DEF Places
  <2> QED
    BY <1>2, <1>5, <2>1
<1>6. CASE Goto(s, [senders[s] EXCEPT !.at = "failing", !.held = TRUE])
  <2>1. /\ [senders[s] EXCEPT !.at = "failing", !.held = TRUE] \in Places
        /\ [senders[s] EXCEPT !.at = "failing", !.held = TRUE].at # "reserved"
    BY <1>1 DEF Places
  <2> QED
    BY <1>2, <1>6, <2>1
<1> QED
  BY <1>3, <1>4, <1>5, <1>6

-----------------------------------------------------------------------------
(* The senders.                                                            *)

\* A sender that reserves what it has written to the delivery: nothing is
\* linked to it yet.
LEMMA ReservedKeeps ==
    ASSUME OwnInv, Inv, VersionsFit, NEW s \in Senders, senders[s].at = "idle",
           NEW version \in Revisions, address \in Addresses,
           Goto(s, Reserved(version)),
           delivery' \in Deliveries,
           delivery'.version = version,
           delivery'.source = Source(version),
           delivery'.recipient = address,
           delivery'.queue = None,
           delivery'.token = s,
           letters' \in [Revisions -> Letters \cup {None}],
           UNCHANGED <<address, latest>>,
           \A v \in Revisions : queue'[v].status # "NONE" => v < version
    PROVE  OwnInv'
<1>1. senders \in [Senders -> Places] /\ Source(version) \in Sources
  BY SourceType DEF OwnInv, OwnType
<1> DEFINE place == Reserved(version)
<1>2. /\ place \in Places
      /\ place.version = version /\ place.source = Source(version) /\ place.recipient = address
  BY <1>1 DEF Reserved, Places
<1> HIDE DEF place
<1>3. senders' = [senders EXCEPT ![s] = place]
  BY DEF Goto, place
<1>4. OwnType'
  BY <1>1, <1>2, <1>3 DEF OwnInv, OwnType
<1>5. ASSUME NEW u \in Senders
      PROVE  SenderFits(u)'
  <2>1. CASE u = s
    BY <1>1, <1>2, <1>3, <2>1 DEF SenderFits
  <2>2. CASE u # s
    <3>1. senders'[u] = senders[u] /\ delivery'.token # u /\ SenderFits(u)
      BY <1>1, <1>3, <2>2 DEF OwnInv, SendersFit
    <3> QED
      BY <3>1 DEF SenderFits
  <2> QED
    BY <2>1, <2>2
<1>6. SendersFit'
  BY <1>5 DEF SendersFit, SenderFits
<1>7. SourceHasRecipient'
  BY DEF SourceHasRecipient
<1>8. QueuedIsTheVersion'
  BY DEF QueuedIsTheVersion, Mailed
<1> QED
  BY <1>4, <1>6, <1>7, <1>8 DEF OwnInv

LEMMA ReserveKeeps ==
    ASSUME DeliveryInv, NEW s \in Senders, Reserve(s)
    PROVE  OwnInv' /\ InTransportIsFresh'
<1>1. OwnInv /\ Inv /\ VersionsFit /\ E!IInv /\ delivery \in Deliveries /\ address \in Addresses
  BY DEF DeliveryInv, OwnInv, OwnType, Reserve, Reportable
<1>2. /\ delivery.queue = None /\ delivery.attempts < MaxGenerations /\ EmployeeFree
      /\ Mailed = {} /\ senders[s].at = "idle" /\ Goto(s, Reserved(delivery.version))
      /\ UNCHANGED <<mail, address, latest, letters>>
      /\ delivery' = [delivery EXCEPT
           !.status = "PREPARING", !.recipient = address, !.source = Source(delivery.version),
           !.token = s, !.attempts = @ + 1]
  BY DEF Reserve, Reportable, Reservable
<1>3. delivery.version \in Revisions /\ delivery.attempts \in Nat /\ MaxGenerations \in Nat
  BY <1>1, AddressesAssumption DEF Deliveries
<1>4. Source(delivery.version) \in Sources
  BY <1>1, <1>3, SourceType
<1> DEFINE source == Source(delivery.version)
<1> HIDE DEF source
<1>5. /\ delivery' \in Deliveries
      /\ delivery'.version = delivery.version
      /\ delivery'.source = source
      /\ delivery'.recipient = address
      /\ delivery'.queue = None
      /\ delivery'.token = s
  <2>1. source \in Sources /\ delivery.attempts + 1 \in 0..MaxGenerations
    BY <1>2, <1>3, <1>4 DEF source
  <2>2. delivery' = [delivery EXCEPT
           !.status = "PREPARING", !.recipient = address, !.source = source,
           !.token = s, !.attempts = @ + 1]
    BY <1>2 DEF source
  <2> QED
    BY <1>1, <1>2, <2>1, <2>2 DEF Deliveries, DeliveryStatus
<1>6. \A v \in Revisions : queue'[v].status # "NONE" => v < delivery.version
  BY <1>2 DEF Mailed, mail
<1>7. letters' \in [Revisions -> Letters \cup {None}]
  BY <1>1, <1>2 DEF OwnInv, OwnType
<1>8. OwnInv'
  BY <1>1, <1>2, <1>3, <1>5, <1>6, <1>7, ReservedKeeps DEF source
<1>9. InTransportIsFresh'
  BY <1>1, <1>2, FreeIsNotInTransport DEF mail
<1> QED
  BY <1>8, <1>9

LEMMA ReviseKeeps ==
    ASSUME DeliveryInv, NEW s \in Senders, NEW retry \in BOOLEAN, Revise(s, retry)
    PROVE  OwnInv' /\ InTransportIsFresh'
<1>1. OwnInv /\ Inv /\ VersionsFit /\ E!IInv /\ delivery \in Deliveries /\ address \in Addresses
  BY DEF DeliveryInv, OwnInv, OwnType, Revise
<1> DEFINE version == IF retry THEN delivery.version ELSE delivery.version + 1
<1>2. /\ version \in Revisions /\ EmployeeFree /\ senders[s].at = "idle"
      /\ RetainCurrent /\ Supersede /\ Goto(s, Reserved(version))
      /\ retry => delivery.queue = None
      /\ UNCHANGED <<address, latest>>
      /\ delivery' = [delivery EXCEPT
             !.status = "PREPARING", !.version = version, !.recipient = address,
             !.source = Source(version), !.queue = None, !.token = s]
  BY DEF Revise, Repeatable
<1>3. Source(version) \in Sources /\ delivery.version \in Revisions /\ Revisions \subseteq Nat
  BY <1>1, <1>2, SourceType DEF Deliveries, Revisions
<1>4. \A v \in Revisions : queue'[v].status # "NONE" => v < version
  <2> SUFFICES ASSUME NEW v \in Revisions, queue'[v].status # "NONE"
               PROVE  v < version
    OBVIOUS
  <2>1. CASE v = delivery.queue
    <3>1. delivery.queue # None /\ delivery.queue = delivery.version
      BY <1>1, <2>1, AddressesAssumption DEF OwnInv, QueuedIsTheVersion
    <3>2. version = delivery.version + 1
      BY <1>2, <3>1
    <3>3. delivery.version \in Nat
      BY <1>3
    <3> HIDE DEF version
    <3> QED
      BY <2>1, <3>1, <3>2, <3>3
  <2>2. CASE v # delivery.queue
    <3>1. v \in Mailed
      BY <1>2, <2>2 DEF Supersede, Mailed
    <3>2. v < delivery.version
      BY <1>1, <2>2, <3>1 DEF OwnInv, QueuedIsTheVersion
    <3>3. version \in {delivery.version, delivery.version + 1}
      OBVIOUS
    <3>4. v \in Nat /\ delivery.version \in Nat
      BY <1>3
    <3> HIDE DEF version
    <3> QED
      BY <3>2, <3>3, <3>4
  <2> QED
    BY <2>1, <2>2
<1>5. letters' \in [Revisions -> Letters \cup {None}]
  <2>1. letters \in [Revisions -> Letters \cup {None}]
    BY <1>1 DEF OwnInv, OwnType
  <2>2. delivery.source # None => [source |-> delivery.source, recipient |-> delivery.recipient] \in Letters
    BY <1>1 DEF OwnInv, SourceHasRecipient, Deliveries, Letters
  <2> QED
    BY <1>2, <2>1, <2>2 DEF RetainCurrent
<1>6. /\ delivery' \in Deliveries
      /\ delivery'.version = version
      /\ delivery'.source = Source(version)
      /\ delivery'.recipient = address
      /\ delivery'.queue = None
      /\ delivery'.token = s
  <2> DEFINE source == Source(version)
  <2>1. source \in Sources
    BY <1>3
  <2> HIDE DEF source, version
  <2>2. delivery' = [delivery EXCEPT
             !.status = "PREPARING", !.version = version, !.recipient = address,
             !.source = source, !.queue = None, !.token = s]
    BY <1>2 DEF source
  <2>3. /\ delivery' \in Deliveries
        /\ delivery'.version = version
        /\ delivery'.source = source
        /\ delivery'.recipient = address
        /\ delivery'.queue = None
        /\ delivery'.token = s
    BY <1>1, <1>2, <2>1, <2>2 DEF Deliveries, DeliveryStatus
  <2> QED
    BY <2>3 DEF source
<1>7. OwnInv'
  <2> HIDE DEF version
  <2> QED
    BY <1>1, <1>2, <1>4, <1>5, <1>6, ReservedKeeps
<1>8. InTransportIsFresh'
  BY <1>1, <1>2, FreeIsNotInTransport DEF Supersede
<1> QED
  BY <1>7, <1>8

LEMMA QueueKeeps ==
    ASSUME DeliveryInv, NEW s \in Senders, NEW outcome \in Q!Outcomes, Queue(s, outcome)
    PROVE  OwnInv' /\ InTransportIsFresh'
<1>1. OwnInv /\ E!IInv /\ delivery \in Deliveries /\ SendersLeave
  <2>1. Goto(s, AtRest) \/ Goto(s, [senders[s] EXCEPT !.at = "failing"])
    BY DEF Queue
  <2> QED
    BY <2>1, LeaveTypes DEF DeliveryInv, OwnInv, OwnType
<1> DEFINE version == senders[s].version
           letter  == [source |-> senders[s].source, recipient |-> senders[s].recipient]
<1>2. /\ senders[s].at = "reserved" /\ EmployeeFree /\ ClaimHeld(s)
      /\ UNCHANGED <<week, address, latest>>
  BY DEF Queue, StillReserved
<1>3. /\ version \in Revisions /\ letter \in Letters
      /\ delivery.version = version /\ delivery.source = senders[s].source
      /\ delivery.recipient = senders[s].recipient
      /\ delivery.token = s /\ delivery.queue = None
  BY <1>1, <1>2 DEF OwnInv, SendersFit, SenderFits, ClaimHeld, Letters
<1>4. address' \in Addresses \cup {None} /\ latest' \in BOOLEAN
  BY <1>1, <1>2 DEF OwnInv, OwnType
<1>5. CASE outcome = "error"
  <2>1. UNCHANGED <<mail, delivery, letters>>
    BY <1>5 DEF Queue
  <2>2. Moved
    BY <1>1, <2>1 DEF Moved
  <2>3. OwnInv'
    BY <1>1, <1>4, <2>1, <2>2, MovedKeeps DEF mail
  <2>4. InTransportIsFresh'
    BY <1>1, <1>2, <2>1, FreeIsNotInTransport DEF mail
  <2> QED
    BY <2>3, <2>4
<1>6. CASE outcome # "error"
  <2>1. /\ Q!QueueEmail(version, FALSE)
        /\ delivery' = [Unclaimed("QUEUED") EXCEPT !.queue = version]
        /\ letters' = [letters EXCEPT ![version] = letter]
    BY <1>6 DEF Queue
  <2> HIDE DEF version
  <2>2. /\ delivery' \in Deliveries
        /\ delivery'.status = "QUEUED"
        /\ delivery'.version = delivery.version
        /\ delivery'.source = delivery.source
        /\ delivery'.recipient = delivery.recipient
        /\ delivery'.queue = version
        /\ delivery'.token = None
    BY <1>1, <1>3, <2>1 DEF Deliveries, DeliveryStatus, Unclaimed
  <2>3. /\ letters' \in [Revisions -> Letters \cup {None}]
        /\ letters'[version] = letter
    <3> HIDE DEF letter
    <3> QED
      BY <1>1, <1>3, <2>1 DEF OwnInv, OwnType
  <2>4. OwnType'
    BY <1>1, <1>4, <2>2, <2>3 DEF OwnType, SendersLeave
  <2>5. SendersFit'
    <3>1. ASSUME NEW u \in Senders, senders'[u].at = "reserved"
          PROVE  SenderFits(u)'
      <4>1. senders'[u] = senders[u] /\ SenderFits(u) /\ u # None
        BY <1>1, <3>1, AddressesAssumption DEF SendersLeave, OwnInv, SendersFit
      <4> QED
        BY <2>2, <3>1, <4>1 DEF SenderFits
    <3> QED
      BY <3>1 DEF SendersFit, SenderFits
  <2>6. SourceHasRecipient'
    BY <1>1, <2>2 DEF OwnInv, SourceHasRecipient
  <2>7. QueuedIsTheVersion'
    <3>1. \A v \in Mailed' : v = version \/ v < delivery.version
      <4>1. \A v \in Revisions \ {version} : queue'[v] = queue[v]
        BY <1>1, <2>1 DEF Q!QueueEmail, E!IInv, E!TypeOK
      <4>2. \A v \in Mailed : v < delivery.version
        BY <1>1, <1>3, AddressesAssumption DEF OwnInv, QueuedIsTheVersion, Mailed
      <4> QED
        BY <4>1, <4>2 DEF Mailed
    <3>2. delivery'.version = version
      BY <1>3, <2>2 DEF version
    <3>3. letters'[delivery'.version] = [source |-> delivery'.source, recipient |-> delivery'.recipient]
      BY <1>3, <2>2, <2>3, <3>2
    <3> QED
      BY <2>2, <3>1, <3>2, <3>3 DEF QueuedIsTheVersion
  <2>8. InTransportIsFresh'
    BY <1>1, <1>2, <2>1, FreeIsNotInTransport DEF Q!QueueEmail, Q!cycle
  <2> QED
    BY <2>4, <2>5, <2>6, <2>7, <2>8 DEF OwnInv
<1> QED
  BY <1>5, <1>6

\* Steps of the senders that reserve and queue nothing.
LEMMA SenderKeeps ==
    ASSUME DeliveryInv, NEW s \in Senders,
           QueueRefused(s) \/ SenderCrash(s) \/ \E outcome \in Q!Outcomes : RecordFailure(s, outcome)
    PROVE  OwnInv' /\ InTransportIsFresh'
<1>1. OwnInv /\ E!IInv
  BY DEF DeliveryInv
<1>2. UNCHANGED <<week, mail, address, latest, letters>>
  BY DEF QueueRefused, SenderCrash, RecordFailure
<1>3. SendersLeave
  <2>1. \/ Goto(s, AtRest)
        \/ Goto(s, [senders[s] EXCEPT !.at = "failing", !.held = TRUE])
    BY DEF QueueRefused, SenderCrash, RecordFailure
  <2> QED
    BY <1>1, <2>1, LeaveTypes
<1>4. \/ delivery' = delivery
      \/ /\ delivery.queue = None
         /\ \/ delivery' = Unclaimed("REVIEW_REQUIRED")
            \/ delivery' = Unclaimed("GENERATION_FAILED")
  BY DEF QueueRefused, SenderCrash, RecordFailure
<1>5. Moved
  <2>1. \A status \in {"REVIEW_REQUIRED", "GENERATION_FAILED"} : status \in DeliveryStatus
    BY DEF DeliveryStatus
  <2>2. CASE delivery' = delivery
    BY <1>1, <2>2 DEF Moved, OwnInv, OwnType
  <2>3. ASSUME NEW status \in {"REVIEW_REQUIRED", "GENERATION_FAILED"},
               delivery.queue = None, delivery' = Unclaimed(status)
        PROVE  Moved
    BY <1>1, <2>1, <2>3, StatusSet
  <2> QED
    BY <1>4, <2>2, <2>3
<1>6. OwnInv'
  <2>1. address' \in Addresses \cup {None} /\ latest' \in BOOLEAN
    BY <1>1, <1>2 DEF OwnInv, OwnType
  <2> QED
    BY <1>1, <1>2, <1>3, <1>5, <2>1, MovedKeeps DEF mail
<1>7. InTransportIsFresh'
  <2> SUFFICES ASSUME NEW w \in Workers, pc[w] = "send"
               PROVE  Fresh(row[w])'
    BY <1>2 DEF InTransportIsFresh, mail
  <2>1. Fresh(row[w]) /\ row[w] \in Revisions
    BY <1>1, RowOf DEF DeliveryInv, InTransportIsFresh
  <2>2. delivery'.queue = delivery.queue
    BY <1>5 DEF Moved
  <2>3. Source(row[w])' = Source(row[w])
    BY <1>2 DEF Source, ReviewStatus, Proven, T!Latest, week, mail
  <2> QED
    BY <1>2, <2>1, <2>2, <2>3 DEF Fresh, week, mail
<1> QED
  BY <1>6, <1>7

\* The routine job's answers that prepare nothing.
LEMMA ReportKeeps ==
    ASSUME DeliveryInv, ReportUnfit \/ TakeForMailed \/ HoldChangedSource
    PROVE  OwnInv' /\ InTransportIsFresh'
<1>1. OwnInv /\ E!IInv
  BY DEF DeliveryInv
<1>2. /\ UNCHANGED <<mail, address, latest, letters, senders>>
      /\ EmployeeFree /\ delivery.queue = None
  BY DEF ReportUnfit, TakeForMailed, HoldChangedSource, Reportable, Reservable
<1>3. PICK status \in DeliveryStatus :
        delivery' = [delivery EXCEPT !.status = status] \/ delivery' = Unclaimed(status)
  <2>1. CASE ReportUnfit
    BY <2>1 DEF ReportUnfit, Assessment, DeliveryStatus
  <2>2. CASE TakeForMailed
    BY <2>2 DEF TakeForMailed, DeliveryStatus
  <2>3. CASE HoldChangedSource
    BY <2>3 DEF HoldChangedSource, DeliveryStatus
  <2> QED
    BY <2>1, <2>2, <2>3
<1>4. Moved
  BY <1>1, <1>2, <1>3, StatusSet
<1>5. address' \in Addresses \cup {None} /\ latest' \in BOOLEAN /\ SendersLeave
  BY <1>1, <1>2 DEF OwnInv, OwnType, SendersLeave
<1>6. OwnInv'
  BY <1>1, <1>2, <1>4, <1>5, MovedKeeps DEF mail
<1>7. InTransportIsFresh'
  BY <1>1, <1>2, FreeIsNotInTransport DEF mail
<1> QED
  BY <1>6, <1>7

\* The records of the employee and the calendar.
LEMMA RecordsKeep ==
    ASSUME DeliveryInv, RecordsChange \/ AddressChanges \/ RefreshStep \/ WeekPasses
    PROVE  OwnInv' /\ InTransportIsFresh'
<1>1. OwnInv /\ E!IInv /\ Inv
  BY DEF DeliveryInv
<1>2. UNCHANGED <<mail, delivery, letters, senders>>
  BY DEF RecordsChange, AddressChanges, RefreshStep, WeekPasses, own
<1>3. address' \in Addresses \cup {None} /\ latest' \in BOOLEAN
  BY <1>1 DEF RecordsChange, AddressChanges, RefreshStep, WeekPasses, own, OwnInv, OwnType
<1>4. SendersLeave /\ Moved
  BY <1>1, <1>2 DEF OwnInv, OwnType, SendersLeave, Moved
<1>5. OwnInv'
  BY <1>1, <1>2, <1>3, <1>4, MovedKeeps DEF mail
<1>6. InTransportIsFresh'
  <2>1. CASE RecordsChange \/ AddressChanges
    BY <1>1, <1>2, <2>1, FreeIsNotInTransport DEF RecordsChange, AddressChanges, mail
  <2>2. CASE RefreshStep \/ WeekPasses
    <3> SUFFICES ASSUME NEW w \in Workers, pc[w] = "send"
                 PROVE  Fresh(row[w])'
      BY <1>2 DEF InTransportIsFresh, mail
    <3>1. Fresh(row[w])
      BY DEF DeliveryInv, InTransportIsFresh
    <3>2. UNCHANGED <<attendance, active, versions, address, ReviewStatus>>
      <4>1. CASE RefreshStep
        BY <1>1, <4>1, RefreshKeepsSource DEF RefreshStep, own
      <4>2. CASE WeekPasses
        BY <4>2 DEF WeekPasses, ReviewStatus, Proven, T!Latest, week
      <4> QED
        BY <2>2, <4>1, <4>2
    <3>3. row'[w] = row[w]
      BY <1>2 DEF mail
    <3> QED
      BY <1>2, <3>1, <3>2, <3>3 DEF Fresh, Source
  <2> QED
    BY <2>1, <2>2
<1> QED
  BY <1>5, <1>6

-----------------------------------------------------------------------------
(* The cycles of the queue.                                                *)

LEMMA StaysFresh ==
    ASSUME DeliveryInv, NEW w \in Workers, Cycles(w), pc'[w] # "send",
           UNCHANGED <<week, address, letters>>, delivery'.queue = delivery.queue
    PROVE  InTransportIsFresh'
<1> SUFFICES ASSUME NEW u \in Workers, pc'[u] = "send"
             PROVE  Fresh(row[u])'
  BY DEF InTransportIsFresh
<1>1. u # w /\ pc[u] = "send" /\ row'[u] = row[u]
  BY DEF Cycles
<1>2. Fresh(row[u])
  BY <1>1 DEF DeliveryInv, InTransportIsFresh
<1>3. UNCHANGED <<attendance, active, versions, address, ReviewStatus, letters>>
  BY DEF week, ReviewStatus, Proven, T!Latest
<1> QED
  BY <1>1, <1>2, <1>3 DEF Fresh, Source

\* A cycle marks the delivery of its message by what became of it.
LEMMA MarkedKeeps ==
    ASSUME DeliveryInv, NEW w \in Workers, Cycles(w), pc'[w] # "send",
           NEW status \in Linked,
           delivery' = delivery \/ delivery' = [delivery EXCEPT !.status = status],
           UNCHANGED <<week, address, latest, letters, senders>>
    PROVE  OwnInv' /\ InTransportIsFresh'
<1>1. OwnInv
  BY DEF DeliveryInv
<1>2. status \in DeliveryStatus
  BY DEF Linked, DeliveryStatus
<1>3. Moved
  BY <1>1, <1>2, StatusSet
<1>4. address' \in Addresses \cup {None} /\ latest' \in BOOLEAN /\ SendersLeave
  BY <1>1 DEF OwnInv, OwnType, SendersLeave
<1>5. OwnInv'
  BY <1>1, <1>3, <1>4, MovedKeeps DEF Cycles
<1>6. InTransportIsFresh'
  BY <1>3, StaysFresh DEF Moved
<1> QED
  BY <1>5, <1>6

\* Nothing but the queue changes.
LEMMA QuietKeeps ==
    ASSUME DeliveryInv, NEW w \in Workers, Cycles(w), pc'[w] # "send", UNCHANGED <<week, own>>
    PROVE  OwnInv' /\ InTransportIsFresh'
<1>1. "SENT" \in Linked
  BY DEF Linked
<1> QED
  BY <1>1, MarkedKeeps DEF own

LEMMA ValidatedKeeps ==
    ASSUME DeliveryInv, NEW w \in Workers, NEW error \in Q!Errors \cup {"none"}, Prepare(w, error)
    PROVE  Cycles(w) /\ OwnInv' /\ InTransportIsFresh'
<1>1. Cycles(w) /\ E!IInv /\ OwnInv /\ Q!TypeOK
  BY PrepareCycles, SameQueue DEF Prepare, DeliveryInv, E!IInv
<1>2. CASE error # "none"
  <2>1. pc'[w] # "send"
    BY <1>1, <1>2 DEF Prepare, Q!Prepare, Q!Caught, Q!Record, Q!TypeOK
  <2> QED
    BY <1>1, <2>1, QuietKeeps DEF Prepare
<1>3. CASE error = "none"
  <2>1. EmployeeFree /\ Valid(row[w]) /\ UNCHANGED <<week, own>> /\ row' = row
    BY <1>3 DEF Prepare, Q!Prepare, Q!Goto
  <2>2. OwnInv'
    <3>1. SendersLeave /\ Moved
      BY <1>1, <2>1 DEF own, OwnInv, OwnType, SendersLeave, Moved
    <3>2. address' \in Addresses \cup {None} /\ latest' \in BOOLEAN
      BY <1>1, <2>1 DEF own, OwnInv, OwnType
    <3> QED
      BY <1>1, <2>1, <3>1, <3>2, MovedKeeps DEF own, Cycles
  <2>3. UNCHANGED <<attendance, active, versions, address, ReviewStatus, letters, delivery>>
    BY <2>1 DEF week, own, ReviewStatus, Proven, T!Latest
  <2>4. InTransportIsFresh'
    <3> SUFFICES ASSUME NEW u \in Workers, pc'[u] = "send"
                 PROVE  Fresh(row[u])'
      BY DEF InTransportIsFresh
    <3>1. u = w
      <4>1. ASSUME u # w
            PROVE  FALSE
        <5>1. pc[u] = "send"
          BY <1>1, <4>1 DEF Cycles
        <5>2. row[u] \in Revisions
          BY <1>1, <5>1, RowOf
        <5> QED
          BY <2>1, <5>1, <5>2 DEF EmployeeFree, Q!Locked
      <4> QED
        BY <4>1
    <3>2. Fresh(row[w])
      BY <2>1 DEF Valid, Fresh, Eligible
    <3> QED
      BY <2>1, <2>3, <3>1, <3>2 DEF Fresh, Source
  <2> QED
    BY <1>1, <2>2, <2>4
<1> QED
  BY <1>2, <1>3

LEMMA OtherCycles ==
    ASSUME DeliveryInv, NEW w \in Workers, pc[w] # "prepare", Q!CycleStep(w)
    PROVE  Cycles(w) /\ pc'[w] # "send"
<1>1. E!IInv /\ VerdictsFit
  BY DEF DeliveryInv
<1>2. Cycles(w)
  <2>1. ASSUME NEW outcome \in Q!Outcomes, NEW m \in Revisions,
               \/ Q!Sweep(w, outcome) \/ Q!Select(w, outcome) \/ Q!Claim(w, m, outcome)
               \/ Q!RecordSent(w, outcome) \/ Q!Settle(w, outcome) \/ Q!Log(w, outcome)
               \/ Q!Confirm(w, outcome) \/ Q!Mark(w, outcome) \/ Q!MarkVersion(w, outcome)
        PROVE  Cycles(w)
    BY <1>1, <2>1, SweepCycles, SelectCycles, ClaimCycles, WriteCycles, BookkeepingCycles
  <2>2. ASSUME NEW outcome \in Q!Outcomes,
               \/ Q!Sweep(w, outcome) \/ Q!Select(w, outcome)
               \/ Q!RecordSent(w, outcome) \/ Q!Settle(w, outcome) \/ Q!Log(w, outcome)
               \/ Q!Confirm(w, outcome) \/ Q!Mark(w, outcome) \/ Q!MarkVersion(w, outcome)
        PROVE  Cycles(w)
    BY <1>1, <2>2, SweepCycles, SelectCycles, WriteCycles, BookkeepingCycles
  <2>3. ASSUME NEW error \in Q!Errors \cup {"none"},
               Q!Prepare(w, error) \/ \E taken \in BOOLEAN : Q!Send(w, error, taken)
        PROVE  Cycles(w)
    BY <1>1, <2>3, PrepareCycles, SendCycles
  <2> QED
    BY <2>1, <2>2, <2>3 DEF Q!CycleStep
<1> QED
  BY <1>2 DEF Cycles

LEMMA CycleKeeps ==
    ASSUME DeliveryInv, NEW w \in Workers, CycleStep(w)
    PROVE  Cycles(w) /\ OwnInv' /\ InTransportIsFresh'
<1>1. E!IInv /\ VerdictsFit
  BY DEF DeliveryInv
<1>2. ASSUME NEW outcome \in Q!Outcomes, Sweep(w, outcome)
      PROVE  Cycles(w) /\ OwnInv' /\ InTransportIsFresh'
  <2>1. Cycles(w) /\ pc[w] # "prepare"
    BY <1>1, <1>2, SweepCycles DEF Sweep, Q!Sweep
  <2>2. /\ delivery' = delivery \/ delivery' = [delivery EXCEPT !.status = "REVIEW_REQUIRED"]
        /\ UNCHANGED <<week, address, latest, letters, senders>>
    BY <1>2 DEF Sweep
  <2>3. "REVIEW_REQUIRED" \in Linked /\ pc'[w] # "send"
    BY <2>1 DEF Linked, Cycles
  <2> QED
    BY <2>1, <2>2, <2>3, MarkedKeeps
<1>3. ASSUME NEW outcome \in Q!Outcomes, RecordSent(w, outcome)
      PROVE  Cycles(w) /\ OwnInv' /\ InTransportIsFresh'
  <2>1. Cycles(w) /\ pc[w] # "prepare"
    BY <1>1, <1>3, WriteCycles DEF RecordSent, Q!RecordSent
  <2>2. /\ delivery' = delivery \/ delivery' = [delivery EXCEPT !.status = "SENT"]
        /\ UNCHANGED <<week, address, latest, letters, senders>>
    BY <1>3 DEF RecordSent, Marked
  <2>3. "SENT" \in Linked /\ pc'[w] # "send"
    BY <2>1 DEF Linked, Cycles
  <2> QED
    BY <2>1, <2>2, <2>3, MarkedKeeps
<1>4. ASSUME NEW outcome \in Q!Outcomes, Mark(w, outcome)
      PROVE  Cycles(w) /\ OwnInv' /\ InTransportIsFresh'
  <2>1. Cycles(w) /\ pc[w] = "mark"
    BY <1>1, <1>4, BookkeepingCycles DEF Mark, Q!Mark
  <2>2. /\ delivery' = delivery \/ delivery' = [delivery EXCEPT !.status = verdict[w]]
        /\ UNCHANGED <<week, address, latest, letters, senders>>
    BY <1>4 DEF Mark, Marked
  <2>3. verdict[w] \in Linked /\ pc'[w] # "send"
    BY <1>1, <2>1 DEF VerdictsFit, Failures, Linked, Cycles
  <2> QED
    BY <2>1, <2>2, <2>3, MarkedKeeps
<1>5. ASSUME NEW error \in Q!Errors \cup {"none"}, Prepare(w, error)
      PROVE  Cycles(w) /\ OwnInv' /\ InTransportIsFresh'
  BY <1>5, ValidatedKeeps
<1>6. CASE /\ pc[w] \notin {"idle", "sent", "mark", "prepare"}
           /\ Q!CycleStep(w)
           /\ UNCHANGED <<week, own>>
  BY <1>6, OtherCycles, QuietKeeps
<1>7. CASE Q!Crash(w) /\ UNCHANGED <<week, own>>
  <2>1. pc'[w] # "send"
    BY <1>1, <1>7, SameQueue DEF Q!Crash, Q!Stop, Q!Continue, E!IInv, Q!TypeOK
  <2> QED
    BY <1>1, <1>7, <2>1, CrashCycles, QuietKeeps
<1> QED
  BY <1>2, <1>3, <1>4, <1>5, <1>6, <1>7 DEF CycleStep

\* Operators and the clock.
LEMMA OutsideStep ==
    ASSUME DeliveryInv, NEW v \in Revisions, Q!Retry(v) \/ Q!BackoffElapses(v) \/ Q!ClaimAges(v),
           UNCHANGED <<week, own>>
    PROVE  E!IInv' /\ VerdictsFit' /\ OwnInv' /\ InTransportIsFresh' /\ UNCHANGED accepted
<1>1. E!IInv /\ VerdictsFit /\ OwnInv /\ Q!TypeOK
  BY SameQueue DEF DeliveryInv, E!IInv
<1>2. E!Retry(v) \/ E!BackoffElapses(v) \/ E!ClaimAges(v)
  BY SameOutside
<1>3. E!IInv'
  BY <1>1, <1>2, QueueConstants, E!OutsideKeeps
<1>4. UNCHANGED <<accepted, pc, row, verdict>>
  BY DEF Q!Retry, Q!BackoffElapses, Q!ClaimAges, Q!cycle
<1>5. VerdictsFit'
  BY <1>1, <1>4 DEF VerdictsFit
<1>6. \A u \in Revisions : queue'[u].status # "NONE" => queue[u].status # "NONE"
  BY <1>1 DEF Q!Retry, Q!BackoffElapses, Q!ClaimAges, Q!TypeOK
<1>7. OwnInv'
  <2>1. SendersLeave /\ Moved
    BY <1>1 DEF own, OwnInv, OwnType, SendersLeave, Moved
  <2>2. address' \in Addresses \cup {None} /\ latest' \in BOOLEAN
    BY <1>1 DEF own, OwnInv, OwnType
  <2> QED
    BY <1>1, <1>6, <2>1, <2>2, MovedKeeps DEF own
<1>8. InTransportIsFresh'
  <2>1. UNCHANGED <<attendance, active, versions, address, ReviewStatus, letters, delivery>>
    BY DEF week, own, ReviewStatus, Proven, T!Latest
  <2> QED
    BY <1>4, <2>1 DEF DeliveryInv, InTransportIsFresh, Fresh, Source
<1> QED
  BY <1>3, <1>4, <1>5, <1>7, <1>8

-----------------------------------------------------------------------------
(* The queue under the steps of the senders.                               *)

LEMMA QueueUntouched ==
    ASSUME E!IInv, VerdictsFit, UNCHANGED mail
    PROVE  E!IInv' /\ VerdictsFit' /\ UNCHANGED accepted
<1>1. UNCHANGED E!vars
  BY DEF mail, E!vars, E!cycle
<1>2. E!IInv'
  BY <1>1, QueueConstants, E!StepIInv
<1> QED
  BY <1>2 DEF mail, VerdictsFit

LEMMA QueueingKeeps ==
    ASSUME DeliveryInv, NEW s \in Senders, NEW outcome \in Q!Outcomes, Queue(s, outcome)
    PROVE  E!IInv' /\ VerdictsFit' /\ UNCHANGED accepted
<1>1. E!IInv /\ VerdictsFit /\ OwnInv
  BY DEF DeliveryInv
<1>2. CASE UNCHANGED mail
  BY <1>1, <1>2, QueueUntouched
<1>3. CASE Q!QueueEmail(senders[s].version, FALSE)
  <2>1. senders[s].version \in Revisions
    BY <1>1 DEF Queue, OwnInv, SendersFit, SenderFits
  <2>2. E!QueueEmail(senders[s].version, FALSE)
    BY <1>3, SameOutside
  <2>3. E!IInv'
    BY <1>1, <2>1, <2>2, QueueConstants, E!OutsideKeeps
  <2>4. UNCHANGED <<accepted, pc, verdict>>
    BY <1>3 DEF Q!QueueEmail, Q!cycle
  <2> QED
    BY <1>1, <2>3, <2>4 DEF VerdictsFit
<1> QED
  BY <1>2, <1>3 DEF Queue

\* A superseded message was held by no cycle and is held for review now.
LEMMA SupersedeKeeps ==
    ASSUME DeliveryInv, NEW s \in Senders, NEW retry \in BOOLEAN, Revise(s, retry)
    PROVE  E!IInv' /\ VerdictsFit' /\ UNCHANGED accepted
<1>1. E!IInv /\ E!TypeOK /\ VerdictsFit /\ Supersede /\ PreviousSettled
  BY DEF DeliveryInv, E!IInv, Revise
<1>2. UNCHANGED <<accepted, pc, batch, seen, row, verdict, faults>>
  BY <1>1 DEF Supersede
<1>3. queue' = [v \in Revisions |->
         IF v = delivery.queue /\ queue[v].status \notin {"SENT", "REVIEW_REQUIRED"}
         THEN [queue[v] EXCEPT !.status = "REVIEW_REQUIRED", !.waiting = FALSE]
         ELSE queue[v]]
  BY <1>1 DEF Supersede
<1>4. ASSUME NEW v \in Revisions
      PROVE  /\ queue'[v] \in [status : E!RowStatus, attempts : Nat, waiting : BOOLEAN, stale : BOOLEAN]
             /\ \/ queue'[v] = queue[v]
                \/ queue[v].status \notin E!Held /\ queue'[v].status = "REVIEW_REQUIRED"
  <2>1. queue[v] \in [status : E!RowStatus, attempts : Nat, waiting : BOOLEAN, stale : BOOLEAN]
    BY <1>1 DEF E!TypeOK
  <2>2. CASE v = delivery.queue /\ queue[v].status \notin {"SENT", "REVIEW_REQUIRED"}
    <3>1. queue[v].status # "SENDING"
      BY <1>1, <2>2, AddressesAssumption DEF PreviousSettled
    <3>2. queue'[v] = [queue[v] EXCEPT !.status = "REVIEW_REQUIRED", !.waiting = FALSE]
      BY <1>3, <2>2
    <3> QED
      BY <2>1, <2>2, <3>1, <3>2 DEF E!RowStatus, E!Held
  <2>3. CASE ~(v = delivery.queue /\ queue[v].status \notin {"SENT", "REVIEW_REQUIRED"})
    BY <1>3, <2>1, <2>3
  <2> QED
    BY <2>2, <2>3
<1>5. E!TypeOK'
  <2>1. queue' \in [Revisions -> [status : E!RowStatus, attempts : Nat, waiting : BOOLEAN, stale : BOOLEAN]]
    BY <1>3, <1>4
  <2> QED
    BY <1>1, <1>2, <2>1 DEF E!TypeOK
<1>6. \A v \in Revisions : E!RowOK(v)'
  BY <1>1, <1>2, <1>4 DEF E!IInv, E!RowOK, E!Held
<1>7. ASSUME NEW w \in Workers
      PROVE  E!HolderOK(w)'
  <2>1. E!HolderOK(w) /\ (E!Holding(w)' <=> E!Holding(w))
    BY <1>1, <1>2 DEF E!IInv, E!Holding
  <2>2. CASE E!Holding(w)
    <3>1. row[w] \in Revisions /\ queue[row[w]].status \in E!Held
      BY <2>1, <2>2 DEF E!HolderOK
    <3>2. queue'[row[w]].status \in E!Held
      BY <1>4, <3>1 DEF E!Held
    <3> QED
      BY <1>2, <2>1, <3>1, <3>2 DEF E!HolderOK
  <2>3. CASE ~E!Holding(w)
    BY <1>2, <2>1, <2>3 DEF E!HolderOK, E!Holding
  <2> QED
    BY <2>2, <2>3
<1>8. E!OneHolder'
  BY <1>1, <1>2 DEF E!IInv, E!OneHolder, E!Holding
<1> QED
  BY <1>1, <1>2, <1>5, <1>6, <1>7, <1>8 DEF E!IInv, VerdictsFit

-----------------------------------------------------------------------------
(* The invariant.                                                          *)

LEMMA InitDeliveryInv == Init => DeliveryInv
<1> SUFFICES ASSUME Init PROVE DeliveryInv
  OBVIOUS
<1>1. E!IInv /\ (\A w \in Workers : pc[w] = "idle")
  <2>1. E!Init
    BY SameQueue DEF Init
  <2>2. E!IInv
    BY <2>1, QueueConstants, E!InitIInv
  <2> QED
    BY <2>1, <2>2 DEF E!Init
<1>2. Inv
  BY WeekOK, InitInv DEF Init
<1>3. VersionsFit
  BY ContentsAssumption DEF VersionsFit, Init, T!Init
<1>4. VerdictsFit /\ InTransportIsFresh
  BY <1>1 DEF VerdictsFit, InTransportIsFresh
<1>5. OwnInv
  <2>1. 1 \in Revisions /\ 0 \in 0..MaxGenerations
    BY AddressesAssumption DEF Revisions
  <2>2. OwnType
    BY <2>1, RestType DEF Init, OwnType, Deliveries, DeliveryStatus
  <2>3. SendersFit /\ SourceHasRecipient
    BY DEF Init, SendersFit, SenderFits, SourceHasRecipient, AtRest
  <2>4. QueuedIsTheVersion
    BY DEF Init, Q!Init, QueuedIsTheVersion, Mailed
  <2> QED
    BY <2>2, <2>3, <2>4 DEF OwnInv
<1> QED
  BY <1>1, <1>2, <1>3, <1>4, <1>5 DEF DeliveryInv

LEMMA CycleMail ==
    ASSUME DeliveryInv, NEW w \in Workers, Cycles(w)
    PROVE  E!IInv' /\ VerdictsFit'
BY DEF DeliveryInv, Cycles, VerdictsFit

\* What a step does to the provider's count.
SendsFresh == \A v \in Revisions : accepted'[v] > accepted[v] =>
    \E w \in Workers : pc[w] = "send" /\ v = row[w]

LEMMA AcceptedKept ==
    ASSUME E!IInv, UNCHANGED accepted
    PROVE  SendsFresh
BY DEF E!IInv, E!TypeOK, SendsFresh

\* Every step keeps the invariant, and hands over only what is in transport.
LEMMA NextDeliveryInv ==
    ASSUME DeliveryInv, [Next]_vars
    PROVE  DeliveryInv' /\ SendsFresh
<1>1. Inv' /\ VersionsFit'
  BY WeekStep, WeekOK, DraftInv, NextInv, VersionsKept DEF DeliveryInv
<1>2. E!IInv /\ VerdictsFit
  BY DEF DeliveryInv
<1> DEFINE Goal == E!IInv' /\ VerdictsFit' /\ OwnInv' /\ InTransportIsFresh' /\ SendsFresh
<1>3. ASSUME NEW s \in Senders, Reserve(s)
      PROVE  Goal
  BY <1>2, <1>3, ReserveKeeps, QueueUntouched, AcceptedKept DEF Reserve
<1>4. ASSUME NEW s \in Senders, NEW retry \in BOOLEAN, Revise(s, retry)
      PROVE  Goal
  BY <1>2, <1>4, ReviseKeeps, SupersedeKeeps, AcceptedKept
<1>5. ASSUME NEW s \in Senders,
             QueueRefused(s) \/ SenderCrash(s) \/ \E outcome \in Q!Outcomes : RecordFailure(s, outcome)
      PROVE  Goal
  <2>1. UNCHANGED mail
    BY <1>5 DEF QueueRefused, SenderCrash, RecordFailure
  <2> QED
    BY <1>2, <1>5, <2>1, SenderKeeps, QueueUntouched, AcceptedKept
<1>6. ASSUME NEW s \in Senders, NEW outcome \in Q!Outcomes, Queue(s, outcome)
      PROVE  Goal
  BY <1>2, <1>6, QueueKeeps, QueueingKeeps, AcceptedKept
<1>7. ASSUME ReportUnfit \/ TakeForMailed \/ HoldChangedSource
      PROVE  Goal
  <2>1. UNCHANGED mail
    BY <1>7 DEF ReportUnfit, TakeForMailed, HoldChangedSource
  <2> QED
    BY <1>2, <1>7, <2>1, ReportKeeps, QueueUntouched, AcceptedKept
<1>8. ASSUME RecordsChange \/ AddressChanges \/ RefreshStep \/ WeekPasses
      PROVE  Goal
  <2>1. UNCHANGED mail
    BY <1>8 DEF RecordsChange, AddressChanges, RefreshStep, WeekPasses
  <2> QED
    BY <1>2, <1>8, <2>1, RecordsKeep, QueueUntouched, AcceptedKept
<1>9. ASSUME QueueStep
      PROVE  Goal
  <2>1. ASSUME NEW w \in Workers, CycleStep(w)
        PROVE  Goal
    <3>1. Cycles(w) /\ OwnInv' /\ InTransportIsFresh'
      BY <2>1, CycleKeeps
    <3>2. SendsFresh
      BY <3>1 DEF Cycles, SendsFresh
    <3> QED
      BY <3>1, <3>2, CycleMail
  <2>2. ASSUME NEW v \in Revisions, Q!Retry(v) \/ Q!BackoffElapses(v) \/ Q!ClaimAges(v),
               UNCHANGED <<week, own>>
        PROVE  Goal
    BY <1>2, <2>2, OutsideStep, AcceptedKept
  <2> QED
    BY <1>9, <2>1, <2>2 DEF QueueStep
<1>10. ASSUME UNCHANGED vars
      PROVE  Goal
  <2>1. UNCHANGED <<week, mail, own>>
    BY <1>10 DEF vars
  <2>2. OwnInv'
    BY <2>1 DEF DeliveryInv, OwnInv, OwnType, SendersFit, SenderFits, SourceHasRecipient,
                QueuedIsTheVersion, Mailed, mail, own
  <2>3. InTransportIsFresh'
    <3>1. UNCHANGED <<attendance, active, versions, address, ReviewStatus, letters, delivery>>
      BY <2>1 DEF week, own, ReviewStatus, Proven, T!Latest
    <3> QED
      BY <2>1, <3>1 DEF DeliveryInv, InTransportIsFresh, Fresh, Source, mail
  <2> QED
    BY <1>2, <2>1, <2>2, <2>3, QueueUntouched, AcceptedKept
<1>11. Goal
  <2> HIDE DEF Goal
  <2> QED
    BY <1>3, <1>4, <1>5, <1>6, <1>7, <1>8, <1>9, <1>10 DEF Next
<1> QED
  BY <1>1, <1>11 DEF DeliveryInv

LEMMA AlwaysDeliveryInv == Spec => []DeliveryInv
<1>1. DeliveryInv /\ [Next]_vars => DeliveryInv'
  BY NextDeliveryInv
<1> QED
  BY <1>1, InitDeliveryInv, PTL DEF Spec

\* Deliveries, their retained versions and the messages in the queue tell the
\* same story: for any number of senders, of overlapping cycles, of versions
\* and of faults.
THEOREM DeliveryConsistent == Spec => []DeliveryIsConsistent
<1>1. DeliveryInv => DeliveryIsConsistent
  <2>1. E!IInv => Q!TypeOK
    BY SameQueue DEF E!IInv
  <2> QED
    BY <2>1 DEF DeliveryInv, Inv, OwnInv, OwnType, Deliveries, Places, TypeOK, DeliveryIsConsistent
<1> QED
  BY <1>1, AlwaysDeliveryInv, PTL

\* What the provider takes is current, and goes to where the employee's mail
\* goes at that moment.
THEOREM WhatIsSentIsCurrent == Spec => SentIsCurrent
<1>1. DeliveryInv /\ [Next]_vars =>
        [\A v \in Revisions : accepted'[v] > accepted[v] =>
          /\ delivery.queue = v
          /\ active
          /\ letters[v] = [source |-> Source(v), recipient |-> address]]_vars
  <2> SUFFICES ASSUME DeliveryInv, [Next]_vars, NEW v \in Revisions, accepted'[v] > accepted[v]
               PROVE  /\ delivery.queue = v
                      /\ active
                      /\ letters[v] = [source |-> Source(v), recipient |-> address]
    OBVIOUS
  <2>1. PICK w \in Workers : pc[w] = "send" /\ v = row[w]
    BY NextDeliveryInv DEF SendsFresh
  <2>2. Fresh(row[w])
    BY <2>1 DEF DeliveryInv, InTransportIsFresh
  <2> QED
    BY <2>1, <2>2 DEF Fresh
<1> QED
  BY <1>1, AlwaysDeliveryInv, PTL DEF Spec, SentIsCurrent

-----------------------------------------------------------------------------
(* Attendance.  Whatever requests were lost, sent twice or answered late,  *)
(* the session on a phone, the receipts and the sessions themselves agree. *)

Shifts == [state : {"none", "live", "archived"}, in : Nat, out : Nat, rest : Nat, onBreak : Nat,
           review : BOOLEAN, revision : Nat, tap : Nat, restored : BOOLEAN]
AskedFor == [state : {"none", "pending", "approved", "rejected"}, session : Sessions \cup {0}, seen : Shifts,
             in : Nat, out : Nat, rest : Nat]
PhoneStates == [at : {"idle", "confirm", "again", "sent", "unsure"}, request : Requests]

AttendanceTyped ==
    /\ shift \in [Sessions -> Shifts]
    /\ correction \in [Corrections -> AskedFor]
    /\ approved \subseteq Nat /\ clock \in Nat /\ bypass \in BOOLEAN
    /\ receipt \in [1..MaxRequests -> Sessions \cup {0}]
    /\ phone \in [Phones -> PhoneStates]
    /\ sent \subseteq Requests
    /\ issued \in [id : 0..MaxRequests, tap : 0..MaxRequests]

\* Times of a session are not in the future, and in order.
Timely(in, out) == in <= clock /\ out <= clock /\ (out # 0 => in < out)

ShiftIsSound(s) ==
    /\ shift[s].state = "none" => shift[s] = NoShift
    /\ Timely(shift[s].in, shift[s].out) /\ shift[s].onBreak <= clock
    /\ shift[s].tap # 0 => shift[s].tap \in 1..MaxRequests /\ receipt[shift[s].tap] # 0

OneOpen == \A s, t \in OpenSessions : s = t
ShiftsInv ==
    /\ \A s \in Sessions : ShiftIsSound(s)
    /\ OneOpen /\ OneSessionPerTap /\ OverlapIsRestored /\ ApprovedPeriodIsSettled

\* A request is of a tap of its own, and names a session unless it opens one.
RequestIsSound(m, last) ==
    /\ m.id \in 1..last /\ m.tap = m.id /\ m.action \in Actions
    /\ m.action # "CHECK_IN" => m.session \in Sessions
ClientsInv ==
    /\ issued.tap = issued.id
    /\ \A m \in sent : RequestIsSound(m, issued.id)
    /\ \A p \in Phones : phone[p].at # "idle" => RequestIsSound(phone[p].request, issued.id)

\* What a pending correction saw is older than the session, or the session.
CorrectionIsSound(c) ==
    correction[c].state = "pending" =>
        /\ Timely(correction[c].in, correction[c].out)
        /\ LET s == correction[c].session IN
           s # 0 => /\ shift[s].state # "none"
                    /\ correction[c].seen.revision <= shift[s].revision
                    /\ correction[c].seen.revision = shift[s].revision => shift[s] = correction[c].seen
CorrectionsInv == \A c \in Corrections : CorrectionIsSound(c)

AttendanceInv == AttendanceTyped /\ ShiftsInv /\ ClientsInv /\ CorrectionsInv

\* What a step does with a correction it approves.
ApprovesWhatWasSeen ==
    \A c \in Corrections : correction[c].state = "pending" /\ correction'[c].state = "approved" /\ correction[c].session # 0
        => shift[correction[c].session] = correction[c].seen

LEMMA NoShiftIsTyped ==
    /\ NoShift \in Shifts /\ NoShift.state = "none" /\ NoShift.in = 0 /\ NoShift.out = 0 /\ NoShift.onBreak = 0
    /\ NoShift.rest = 0 /\ NoShift.tap = 0 /\ NoShift.revision = 0 /\ NoShift.restored = FALSE /\ NoShift.review = FALSE
BY DEF NoShift, Shifts

LEMMA AttendanceInitInv == AttendanceInit => AttendanceInv
<1> SUFFICES ASSUME AttendanceInit PROVE AttendanceInv
  OBVIOUS
<1>1. \A s \in Sessions : shift[s] = NoShift
  BY DEF AttendanceInit
<1>2. AttendanceTyped
  <2>1. NoCorrection \in AskedFor
    BY NoShiftIsTyped DEF NoCorrection, AskedFor
  <2>2. Quiet \in PhoneStates
    BY DEF Quiet, PhoneStates, NoRequest, Requests
  <2>3. issued \in [id : 0..MaxRequests, tap : 0..MaxRequests]
    BY AttendanceAssumption DEF AttendanceInit
  <2> QED
    BY <2>1, <2>2, <2>3, NoShiftIsTyped DEF AttendanceInit, AttendanceTyped
<1>3. ShiftsInv
  <2>1. \A s \in Sessions : ShiftIsSound(s)
    BY <1>1, NoShiftIsTyped DEF ShiftIsSound, Timely, AttendanceInit
  <2>2. \A s \in Sessions : ~Kept(s)
    BY <1>1, NoShiftIsTyped DEF Kept
  <2>3. OneOpen
    BY <2>2 DEF OneOpen, OpenSessions, IsOpen
  <2>4. OneSessionPerTap
    BY <1>1, NoShiftIsTyped DEF OneSessionPerTap
  <2>5. OverlapIsRestored
    BY <2>2 DEF OverlapIsRestored
  <2>6. ApprovedPeriodIsSettled
    BY DEF ApprovedPeriodIsSettled, AttendanceInit
  <2> QED
    BY <2>1, <2>3, <2>4, <2>5, <2>6 DEF ShiftsInv
<1>4. ClientsInv
  BY DEF AttendanceInit, ClientsInv, Quiet
<1>5. CorrectionsInv
  BY DEF AttendanceInit, CorrectionsInv, CorrectionIsSound, NoCorrection
<1> QED
  BY <1>2, <1>3, <1>4, <1>5 DEF AttendanceInv

-----------------------------------------------------------------------------
\* The session nobody has changed: what it promises, it promises still.
LEMMA ShiftsUnchanged ==
    ASSUME AttendanceTyped, ShiftsInv, shift' = shift, clock' = clock \/ clock' = clock + 1,
           \A i \in 1..MaxRequests : receipt[i] # 0 => receipt'[i] # 0,
           \A w \in approved' : w \in approved \/ UnresolvedSessions(w) = {}
    PROVE  ShiftsInv'
<1>1. \A s \in Sessions : ShiftIsSound(s)'
  <2> TAKE s \in Sessions
  <2>1. ShiftIsSound(s) /\ clock \in Nat /\ clock' \in Nat /\ clock <= clock'
    BY DEF ShiftsInv, AttendanceTyped
  <2>2. shift[s].in \in Nat /\ shift[s].out \in Nat /\ shift[s].onBreak \in Nat
    BY DEF AttendanceTyped, Shifts
  <2>3. (shift[s].in <= clock => shift[s].in <= clock') /\ (shift[s].out <= clock => shift[s].out <= clock')
        /\ (shift[s].onBreak <= clock => shift[s].onBreak <= clock')
    BY <2>1, <2>2
  <2> QED
    BY <2>1, <2>3 DEF ShiftIsSound, Timely
<1>2. OneOpen' /\ OneSessionPerTap' /\ OverlapIsRestored'
  BY DEF ShiftsInv, OneOpen, OneSessionPerTap, OverlapIsRestored, OpenSessions, IsOpen, Kept, Clash
<1>3. \A w : UnresolvedSessions(w)' = UnresolvedSessions(w)
  BY DEF UnresolvedSessions, OfPeriod, Kept, Clash
<1>4. ApprovedPeriodIsSettled'
  BY <1>3 DEF ShiftsInv, ApprovedPeriodIsSettled
<1> QED
  BY <1>1, <1>2, <1>4 DEF ShiftsInv

\* One session changes: what has to be shown of it.
LEMMA ShiftChanges ==
    ASSUME AttendanceTyped, ShiftsInv, NEW s \in Sessions, NEW N \in Shifts,
           shift' = [shift EXCEPT ![s] = N], clock' = clock, approved' = approved,
           \A i \in 1..MaxRequests : receipt[i] # 0 => receipt'[i] # 0,
           N.state # "none", Timely(N.in, N.out), N.onBreak <= clock,
           \/ N.tap = shift[s].tap
           \/ /\ N.tap \in 1..MaxRequests /\ receipt'[N.tap] # 0
              /\ \A t \in Sessions : shift[t].tap # N.tap,
           N.state = "live" /\ N.out = 0 => OpenSessions \subseteq {s},
           Kept(s) => Mutable({shift[s].in}),
           N.state = "live" => Mutable({N.in}),
           N.state = "live" /\ ~N.restored =>
              \A t \in Sessions \ {s} : Kept(t) => \/ shift[t].restored
                                                   \/ /\ ~(N.in < shift[t].out /\ shift[t].in < N.out)
                                                      /\ ~(N.out = 0 /\ N.in < shift[t].out)
                                                      /\ ~(shift[t].out = 0 /\ shift[t].in < N.out)
    PROVE  shift' \in [Sessions -> Shifts] /\ ShiftsInv'
<1>1. shift' \in [Sessions -> Shifts] /\ shift'[s] = N /\ \A t \in Sessions : t # s => shift'[t] = shift[t]
  BY DEF AttendanceTyped
<1>2. \A t \in Sessions : ShiftIsSound(t)'
  <2> TAKE t \in Sessions
  <2>1. ShiftIsSound(t)
    BY DEF ShiftsInv
  <2>2. CASE t = s
    <3>1. N.tap # 0 => N.tap \in 1..MaxRequests /\ receipt'[N.tap] # 0
      BY <2>1, <2>2 DEF ShiftIsSound
    <3> QED
      BY <1>1, <2>2, <3>1 DEF ShiftIsSound, Timely
  <2>3. CASE t # s
    BY <1>1, <2>1, <2>3 DEF ShiftIsSound, Timely
  <2> QED
    BY <2>2, <2>3
<1>3. OneOpen'
  <2> SUFFICES ASSUME NEW t \in OpenSessions', NEW u \in OpenSessions' PROVE t = u
    BY DEF OneOpen
  <2>1. \A x \in Sessions : x \in OpenSessions' =>
            \/ x # s /\ x \in OpenSessions
            \/ x = s /\ OpenSessions \subseteq {s}
    BY <1>1 DEF OpenSessions, IsOpen, Kept
  <2>2. t \in Sessions /\ u \in Sessions
    BY DEF OpenSessions
  <2> QED
    BY <2>1, <2>2 DEF ShiftsInv, OneOpen
<1>4. OneSessionPerTap'
  <2> SUFFICES ASSUME NEW t \in Sessions, NEW u \in Sessions, t # u, shift'[t].tap # 0 PROVE shift'[t].tap # shift'[u].tap
    BY DEF OneSessionPerTap
  <2>1. \A x, y \in Sessions : x # y /\ shift[x].tap # 0 => shift[x].tap # shift[y].tap
    BY DEF ShiftsInv, OneSessionPerTap
  <2>2. CASE t = s
    <3>1. shift'[t] = N /\ shift'[u] = shift[u]
      BY <1>1, <2>2
    <3> QED
      BY <2>1, <2>2, <3>1
  <2>3. CASE u = s
    <3>1. shift'[u] = N /\ shift'[t] = shift[t]
      BY <1>1, <2>3
    <3> QED
      BY <2>1, <2>3, <3>1
  <2>4. CASE t # s /\ u # s
    BY <1>1, <2>1, <2>4
  <2> QED
    BY <2>2, <2>3, <2>4
<1>5. OverlapIsRestored'
  <2> SUFFICES ASSUME NEW t \in Sessions, NEW u \in Sessions, Kept(t)', Kept(u)', Clash(t, u)' \/ (IsOpen(t)' /\ shift'[t].in < shift'[u].out)
               PROVE  shift'[t].restored \/ shift'[u].restored
    BY DEF OverlapIsRestored
  <2>1. CASE t # s /\ u # s
    <3>1. shift'[t] = shift[t] /\ shift'[u] = shift[u]
      BY <1>1, <2>1
    <3>2. Kept(t) /\ Kept(u) /\ (Clash(t, u) \/ (IsOpen(t) /\ shift[t].in < shift[u].out))
      BY <3>1 DEF Kept, Clash, IsOpen
    <3> QED
      BY <3>1, <3>2 DEF ShiftsInv, OverlapIsRestored
  <2>2. CASE t = s /\ u # s
    <3>1. shift'[t] = N /\ shift'[u] = shift[u]
      BY <1>1, <2>2
    <3>2. N.state = "live" /\ Kept(u) /\ ((N.in < shift[u].out /\ shift[u].in < N.out) \/ (N.out = 0 /\ N.in < shift[u].out))
      BY <3>1 DEF Kept, Clash, IsOpen
    <3> QED
      BY <2>2, <3>1, <3>2
  <2>3. CASE t # s /\ u = s
    <3>1. shift'[u] = N /\ shift'[t] = shift[t]
      BY <1>1, <2>3
    <3>2. N.state = "live" /\ Kept(t) /\ ((shift[t].in < N.out /\ N.in < shift[t].out) \/ (shift[t].out = 0 /\ shift[t].in < N.out))
      BY <3>1 DEF Kept, Clash, IsOpen
    <3> QED
      BY <2>3, <3>1, <3>2
  <2>4. CASE t = s /\ u = s
    <3>1. IsOpen(s)' /\ shift'[s].in < shift'[s].out
      BY <2>4 DEF Clash
    <3>2. N.out = 0 /\ N.in < N.out
      BY <1>1, <3>1 DEF IsOpen
    <3>3. N.in \in Nat
      BY DEF Shifts
    <3> QED
      BY <3>2, <3>3
  <2> QED
    BY <2>1, <2>2, <2>3, <2>4
<1>6. ApprovedPeriodIsSettled'
  <2> SUFFICES ASSUME NEW w \in approved PROVE UnresolvedSessions(w)' = {}
    BY DEF ApprovedPeriodIsSettled
  <2>1. UnresolvedSessions(w) = {}
    BY DEF ShiftsInv, ApprovedPeriodIsSettled
  <2>2. s \notin OfPeriod(w) /\ s \notin OfPeriod(w)'
    <3>1. s \notin OfPeriod(w)
      BY DEF OfPeriod, Mutable
    <3>2. s \notin OfPeriod(w)'
      BY <1>1 DEF OfPeriod, Kept, Mutable
    <3> QED
      BY <3>1, <3>2
  <2>3. \A t \in Sessions : t \in OfPeriod(w)' <=> t \in OfPeriod(w)
    BY <1>1, <2>2 DEF OfPeriod, Kept
  <2>4. OfPeriod(w)' = OfPeriod(w) /\ \A t \in OfPeriod(w) : t \in Sessions /\ shift'[t] = shift[t]
    BY <1>1, <2>2, <2>3 DEF OfPeriod
  <2>5. \A t \in OfPeriod(w) : ~(shift[t].out = 0 \/ shift[t].review \/ \E u \in OfPeriod(w) : Clash(t, u))
    BY <2>1 DEF UnresolvedSessions
  <2>6. \A t, u \in OfPeriod(w) : Clash(t, u)' <=> Clash(t, u)
    BY <2>4 DEF Clash
  <2> QED
    BY <2>4, <2>5, <2>6 DEF UnresolvedSessions
<1> QED
  BY <1>1, <1>2, <1>3, <1>4, <1>5, <1>6 DEF ShiftsInv

\* The corrections that are asked for, when a session changes.
LEMMA CorrectionsOutlive ==
    ASSUME AttendanceTyped, CorrectionsInv, NEW s \in Sessions, NEW N \in Shifts,
           shift' = [shift EXCEPT ![s] = N], clock' = clock, N.state # "none",
           shift[s].state # "none" => N.revision > shift[s].revision,
           NEW c \in Corrections, correction'[c] = correction[c]
    PROVE  CorrectionIsSound(c)'
<1>1. shift'[s] = N /\ \A t \in Sessions : t # s => shift'[t] = shift[t]
  BY DEF AttendanceTyped
<1>2. CorrectionIsSound(c) /\ correction[c] \in AskedFor /\ 0 \notin Sessions
  BY AttendanceAssumption DEF CorrectionsInv, AttendanceTyped
<1>3. CASE correction[c].session = s
  <2>1. correction[c].seen.revision \in Nat /\ shift[s].revision \in Nat /\ N.revision \in Nat
    BY <1>2 DEF AskedFor, AttendanceTyped, Shifts
  <2>2. correction[c].state = "pending" => correction[c].seen.revision < N.revision
    BY <1>2, <1>3, <2>1 DEF CorrectionIsSound
  <2>3. correction[c].seen.revision < N.revision => correction[c].seen.revision <= N.revision /\ correction[c].seen.revision # N.revision
    BY <2>1
  <2> QED
    BY <1>1, <1>2, <1>3, <2>2, <2>3 DEF CorrectionIsSound, Timely
<1>4. CASE correction[c].session # s
  <2>1. correction[c].session # 0 => shift'[correction[c].session] = shift[correction[c].session]
    BY <1>1, <1>2, <1>4 DEF AskedFor
  <2> QED
    BY <1>2, <2>1 DEF CorrectionIsSound, Timely
<1> QED
  BY <1>3, <1>4

LEMMA CorrectionsKept ==
    ASSUME AttendanceTyped, CorrectionsInv, shift' = shift, clock' = clock \/ clock' = clock + 1,
           NEW c \in Corrections, correction'[c] = correction[c]
    PROVE  CorrectionIsSound(c)'
<1>1. CorrectionIsSound(c) /\ correction[c] \in AskedFor /\ clock \in Nat /\ clock' \in Nat /\ clock <= clock'
  BY DEF CorrectionsInv, AttendanceTyped
<1>2. correction[c].in \in Nat /\ correction[c].out \in Nat
  BY <1>1 DEF AskedFor
<1>3. (correction[c].in <= clock => correction[c].in <= clock') /\ (correction[c].out <= clock => correction[c].out <= clock')
  BY <1>1, <1>2
<1> QED
  BY <1>1, <1>3 DEF CorrectionIsSound, Timely

-----------------------------------------------------------------------------
\* The phone: nothing of the employee's sessions or corrections changes.
LEMMA ClientsMove ==
    ASSUME AttendanceInv, UNCHANGED <<shift, correction, approved, receipt, bypass, clock>>,
           phone' \in [Phones -> PhoneStates], sent' \subseteq Requests, issued' \in [id : 0..MaxRequests, tap : 0..MaxRequests],
           ClientsInv'
    PROVE  AttendanceInv' /\ ApprovesWhatWasSeen
<1>1. AttendanceTyped'
  BY DEF AttendanceInv, AttendanceTyped
<1>2. ShiftsInv'
  BY ShiftsUnchanged DEF AttendanceInv
<1>3. CorrectionsInv'
  BY CorrectionsKept DEF AttendanceInv, CorrectionsInv
<1> QED
  BY <1>1, <1>2, <1>3 DEF AttendanceInv, ApprovesWhatWasSeen

LEMMA LatestIsTyped == Latest \in Nat
<1> DEFINE live == {s \in Sessions : Kept(s)}
<1>1. CASE live = {}
  BY <1>1 DEF Latest
<1>2. CASE live # {}
  <2>1. IsFiniteSet(live) /\ live \subseteq Nat
    BY FS_Subset, AttendanceAssumption
  <2> HIDE DEF live
  <2>2. PICK m \in live : \A t \in live : t <= m
    BY <1>2, <2>1, LargestElement
  <2>3. (CHOOSE s \in live : \A t \in live : t <= s) \in live
    BY <2>2
  <2>4. Latest = CHOOSE s \in live : \A t \in live : t <= s
    BY <1>2 DEF live, Latest
  <2> QED
    BY <2>1, <2>3, <2>4
<1> QED
  BY <1>1, <1>2

LEMMA RequestIsMade ==
    ASSUME AttendanceInv, NEW action \in Actions, Allowed(action), NEW id \in Nat, NEW tap \in Nat
    PROVE  /\ Request(id, tap, action) \in Requests
           /\ Request(id, tap, action).id = id /\ Request(id, tap, action).tap = tap
           /\ Request(id, tap, action).action = action
           /\ action # "CHECK_IN" => Request(id, tap, action).session \in Sessions
<1> DEFINE session == IF action = "CHECK_IN" THEN 0 ELSE CHOOSE s \in OpenSessions : TRUE
<1>1. OpenSessions \subseteq Sessions /\ Sessions \subseteq Nat
  BY AttendanceAssumption DEF OpenSessions
<1>2. action # "CHECK_IN" => OpenSessions # {}
  BY DEF Allowed, Actions
<1>3. action # "CHECK_IN" => session \in OpenSessions
  BY <1>2
<1>4. session \in Nat
  BY <1>1, <1>3
<1>5. clock + ProofLife \in Nat
  BY AttendanceAssumption DEF AttendanceInv, AttendanceTyped
<1>6. Request(id, tap, action) = [id |-> id, tap |-> tap, action |-> action, session |-> session, prior |-> Latest, expires |-> clock + ProofLife]
  BY DEF Request
<1> HIDE DEF session
<1> QED
  BY <1>1, <1>3, <1>4, <1>5, <1>6, LatestIsTyped DEF Requests

LEMMA QuietIsTyped == Quiet \in PhoneStates /\ Quiet.at = "idle"
BY DEF Quiet, PhoneStates, NoRequest, Requests

LEMMA ClientStep ==
    ASSUME AttendanceInv, NEW p \in Phones,
           (\E a \in Actions : OpenAction(p, a)) \/ RetryPending(p) \/ SubmitAction(p) \/ CloseSheet(p) \/ ReconcileView(p)
    PROVE  AttendanceInv' /\ ApprovesWhatWasSeen
<1>1. /\ phone \in [Phones -> PhoneStates] /\ sent \subseteq Requests
      /\ issued \in [id : 0..MaxRequests, tap : 0..MaxRequests]
      /\ issued.tap = issued.id /\ (\A m \in sent : RequestIsSound(m, issued.id))
      /\ \A q \in Phones : phone[q].at # "idle" => RequestIsSound(phone[q].request, issued.id)
  BY DEF AttendanceInv, AttendanceTyped, ClientsInv
<1>2. phone[p] \in PhoneStates /\ MaxRequests \in Nat /\ issued.id \in 0..MaxRequests /\ issued.tap \in 0..MaxRequests
  BY <1>1, AttendanceAssumption
<1>3. CASE \E a \in Actions : OpenAction(p, a)
  <2>1. PICK a \in Actions : OpenAction(p, a)
    BY <1>3
  <2> DEFINE m == Request(issued.id + 1, issued.tap + 1, a)
             n == [at |-> "confirm", request |-> m]
  <2>2. /\ Allowed(a) /\ issued.id < MaxRequests /\ phone' = [phone EXCEPT ![p] = n]
        /\ issued' = [id |-> issued.id + 1, tap |-> issued.tap + 1]
        /\ UNCHANGED <<shift, correction, approved, receipt, sent, bypass, clock>>
    BY <2>1 DEF OpenAction
  <2>3. issued.id + 1 \in Nat /\ issued.tap + 1 \in Nat /\ issued.id + 1 \in 1..MaxRequests /\ issued.id + 1 = issued.tap + 1
    BY <1>1, <1>2, <2>2
  <2>4. /\ m \in Requests /\ m.id = issued.id + 1 /\ m.tap = issued.id + 1 /\ m.action = a
        /\ a # "CHECK_IN" => m.session \in Sessions
    BY <2>2, <2>3, RequestIsMade
  <2> HIDE DEF m
  <2>5. issued' \in [id : 0..MaxRequests, tap : 0..MaxRequests] /\ issued'.tap = issued'.id /\ issued'.id = issued.id + 1
    BY <2>2, <2>3
  <2>6. \A x : RequestIsSound(x, issued.id) => RequestIsSound(x, issued'.id)
    BY <1>2, <2>5 DEF RequestIsSound
  <2>7. RequestIsSound(m, issued'.id)
    BY <2>3, <2>4, <2>5 DEF RequestIsSound
  <2>8. phone' \in [Phones -> PhoneStates]
    BY <1>1, <2>2, <2>4 DEF PhoneStates
  <2>9. \A q \in Phones : phone'[q].at # "idle" => RequestIsSound(phone'[q].request, issued'.id)
    BY <1>1, <2>2, <2>6, <2>7
  <2>10. ClientsInv'
    BY <1>1, <2>2, <2>5, <2>6, <2>9 DEF ClientsInv
  <2> QED
    BY <1>1, <2>2, <2>5, <2>8, <2>10, ClientsMove
<1>4. CASE RetryPending(p)
  <2> DEFINE old == phone[p].request
             m == Request(old.id, old.tap, old.action)
             n == [at |-> "again", request |-> m]
  <2>1. /\ phone[p].at = "unsure" /\ Allowed(old.action) /\ phone' = [phone EXCEPT ![p] = n]
        /\ issued' = [issued EXCEPT !.id = IF m.id > @ THEN @ + 1 ELSE @]
        /\ UNCHANGED <<shift, correction, approved, receipt, sent, bypass, clock>>
    BY <1>4 DEF RetryPending
  <2>2. RequestIsSound(old, issued.id)
    BY <1>1, <2>1
  <2>3. old.id \in Nat /\ old.tap \in Nat /\ old.action \in Actions /\ old.id \in 1..issued.id /\ old.tap = old.id
    BY <1>2, <2>2 DEF RequestIsSound
  <2>4. /\ m \in Requests /\ m.id = old.id /\ m.tap = old.tap /\ m.action = old.action
        /\ old.action # "CHECK_IN" => m.session \in Sessions
    BY <2>1, <2>3, RequestIsMade
  <2> HIDE DEF m, old
  <2>5. issued' = issued
    <3>1. ~(m.id > issued.id)
      BY <1>2, <2>3, <2>4
    <3> QED
      BY <1>1, <2>1, <3>1
  <2>6. RequestIsSound(m, issued.id)
    BY <2>3, <2>4 DEF RequestIsSound
  <2>7. \A x : RequestIsSound(x, issued.id) => RequestIsSound(x, issued'.id)
    BY <2>5 DEF RequestIsSound
  <2>8. phone' \in [Phones -> PhoneStates]
    BY <1>1, <2>1, <2>4 DEF PhoneStates
  <2>9. \A q \in Phones : phone'[q].at # "idle" => RequestIsSound(phone'[q].request, issued'.id)
    BY <1>1, <2>1, <2>6, <2>7
  <2>10. ClientsInv'
    BY <1>1, <2>1, <2>5, <2>7, <2>9 DEF ClientsInv
  <2> QED
    BY <1>1, <2>1, <2>5, <2>8, <2>10, ClientsMove
<1>5. CASE SubmitAction(p)
  <2>1. /\ phone[p].at \in {"confirm", "again"} /\ phone' = [phone EXCEPT ![p].at = "sent"] /\ sent' = sent \cup {phone[p].request}
        /\ UNCHANGED <<shift, correction, approved, receipt, issued, bypass, clock>>
    BY <1>5 DEF SubmitAction
  <2>2. RequestIsSound(phone[p].request, issued.id) /\ phone[p].request \in Requests
    BY <1>1, <1>2, <2>1 DEF PhoneStates
  <2>3. phone' \in [Phones -> PhoneStates] /\ \A q \in Phones : phone'[q].request = phone[q].request /\ (phone'[q].at = "idle" <=> phone[q].at = "idle")
    BY <1>1, <2>1 DEF PhoneStates
  <2>4. \A x : RequestIsSound(x, issued.id) => RequestIsSound(x, issued'.id)
    BY <2>1 DEF RequestIsSound
  <2>5. \A q \in Phones : phone'[q].at # "idle" => RequestIsSound(phone'[q].request, issued'.id)
    BY <1>1, <2>3, <2>4
  <2>6. \A m \in sent' : RequestIsSound(m, issued'.id)
    BY <1>1, <2>1, <2>2, <2>4
  <2>7. ClientsInv'
    BY <1>1, <2>1, <2>5, <2>6 DEF ClientsInv
  <2> QED
    BY <1>1, <2>1, <2>2, <2>3, <2>7, ClientsMove
<1>6. CASE CloseSheet(p)
  <2>1. /\ phone[p].at # "idle" /\ phone' = [phone EXCEPT ![p] = IF @.at = "confirm" THEN Quiet ELSE [@ EXCEPT !.at = "unsure"]]
        /\ UNCHANGED <<shift, correction, approved, receipt, sent, issued, bypass, clock>>
    BY <1>6 DEF CloseSheet
  <2>2. phone' \in [Phones -> PhoneStates]
    BY <1>1, <2>1, QuietIsTyped DEF PhoneStates
  <2>3. \A q \in Phones : phone'[q].at # "idle" => phone'[q].request = phone[q].request /\ phone[q].at # "idle"
    BY <1>1, <2>1, QuietIsTyped DEF PhoneStates
  <2>4. ClientsInv'
    BY <1>1, <2>1, <2>3 DEF ClientsInv, RequestIsSound
  <2> QED
    BY <1>1, <2>1, <2>2, <2>4, ClientsMove
<1>7. CASE ReconcileView(p)
  <2>1. /\ phone' = [phone EXCEPT ![p] = Quiet]
        /\ UNCHANGED <<shift, correction, approved, receipt, sent, issued, bypass, clock>>
    BY <1>7 DEF ReconcileView
  <2>2. phone' \in [Phones -> PhoneStates] /\ \A q \in Phones : phone'[q].at # "idle" => phone'[q] = phone[q]
    BY <1>1, <2>1, QuietIsTyped
  <2>4. ClientsInv'
    BY <1>1, <2>1, <2>2 DEF ClientsInv, RequestIsSound
  <2> QED
    BY <1>1, <2>1, <2>2, <2>4, ClientsMove
<1> QED
  BY <1>3, <1>4, <1>5, <1>6, <1>7

LEMMA LoseActionStep ==
    ASSUME AttendanceInv, NEW m \in sent, LoseAction(m)
    PROVE  AttendanceInv' /\ ApprovesWhatWasSeen
<1>1. sent' = sent \ {m} /\ UNCHANGED <<shift, correction, approved, receipt, phone, issued, bypass, clock>>
  BY DEF LoseAction
<1>2. ClientsInv'
  BY <1>1 DEF AttendanceInv, ClientsInv, RequestIsSound
<1> QED
  BY <1>1, <1>2, ClientsMove DEF AttendanceInv, AttendanceTyped

-----------------------------------------------------------------------------
\* A request is done with.
LEMMA AnsweredClients ==
    ASSUME AttendanceInv, NEW m \in sent, Answered(m)
    PROVE  /\ phone' \in [Phones -> PhoneStates] /\ sent' \subseteq Requests /\ ClientsInv'
           /\ UNCHANGED <<correction, approved, issued, bypass, clock>> /\ ApprovesWhatWasSeen
<1>1. /\ sent' = sent \ {m} /\ UNCHANGED <<correction, approved, issued, bypass, clock>>
      /\ phone' = phone \/ \E p \in Phones : phone' = [phone EXCEPT ![p] = Quiet]
  BY DEF Answered
<1>2. phone \in [Phones -> PhoneStates] /\ sent \subseteq Requests
  BY DEF AttendanceInv, AttendanceTyped
<1>3. phone' \in [Phones -> PhoneStates] /\ \A q \in Phones : phone'[q].at # "idle" => phone'[q] = phone[q]
  BY <1>1, <1>2, QuietIsTyped
<1>4. ClientsInv'
  BY <1>1, <1>3 DEF AttendanceInv, ClientsInv, RequestIsSound
<1> QED
  BY <1>1, <1>2, <1>3, <1>4 DEF ApprovesWhatWasSeen

\* A request leaves a receipt, and the sessions as they are ...
LEMMA ReceivedAlone ==
    ASSUME AttendanceInv, NEW m \in sent, Answered(m), shift' = shift,
           receipt' = receipt \/ (\E s \in Sessions : receipt[m.id] = 0 /\ Receive(m, s))
    PROVE  AttendanceInv' /\ ApprovesWhatWasSeen
<1>1. /\ phone' \in [Phones -> PhoneStates] /\ sent' \subseteq Requests /\ ClientsInv'
      /\ UNCHANGED <<correction, approved, issued, bypass, clock>> /\ ApprovesWhatWasSeen
  BY AnsweredClients
<1>2. receipt \in [1..MaxRequests -> Sessions \cup {0}] /\ 0 \notin Sessions
  BY AttendanceAssumption DEF AttendanceInv, AttendanceTyped
<1>3. receipt' \in [1..MaxRequests -> Sessions \cup {0}] /\ \A i \in 1..MaxRequests : receipt[i] # 0 => receipt'[i] # 0
  BY <1>2 DEF Receive
<1>4. AttendanceTyped'
  BY <1>1, <1>3 DEF AttendanceInv, AttendanceTyped
<1>5. ShiftsInv'
  BY <1>1, <1>3, ShiftsUnchanged DEF AttendanceInv
<1>6. CorrectionsInv'
  BY <1>1, CorrectionsKept DEF AttendanceInv, CorrectionsInv
<1> QED
  BY <1>1, <1>4, <1>5, <1>6 DEF AttendanceInv

\* ... or one session changed, by the clock.
LEMMA ReceivedWithShift ==
    ASSUME AttendanceInv, NEW m \in sent, Answered(m),
           NEW s \in Sessions, NEW N \in Shifts, shift' = [shift EXCEPT ![s] = N],
           receipt[m.id] = 0, Receive(m, s),
           N.state # "none", Timely(N.in, N.out), N.onBreak <= clock,
           shift[s].state # "none" => N.revision > shift[s].revision,
           N.tap = shift[s].tap \/ N.tap = m.id,
           N.state = "live" /\ N.out = 0 => OpenSessions \subseteq {s},
           Kept(s) => Mutable({shift[s].in}),
           N.state = "live" => Mutable({N.in}),
           N.state = "live" /\ ~N.restored =>
              \A t \in Sessions \ {s} : Kept(t) => \/ shift[t].restored
                                                   \/ /\ ~(N.in < shift[t].out /\ shift[t].in < N.out)
                                                      /\ ~(N.out = 0 /\ N.in < shift[t].out)
                                                      /\ ~(shift[t].out = 0 /\ shift[t].in < N.out)
    PROVE  AttendanceInv' /\ ApprovesWhatWasSeen
<1>1. /\ phone' \in [Phones -> PhoneStates] /\ sent' \subseteq Requests /\ ClientsInv'
      /\ UNCHANGED <<correction, approved, issued, bypass, clock>> /\ ApprovesWhatWasSeen
  BY AnsweredClients
<1>2. receipt \in [1..MaxRequests -> Sessions \cup {0}] /\ 0 \notin Sessions /\ AttendanceTyped /\ ShiftsInv
  BY AttendanceAssumption DEF AttendanceInv, AttendanceTyped
<1>3. m.id \in 1..MaxRequests
  <2>1. m.id \in 1..issued.id /\ issued.id \in 0..MaxRequests /\ MaxRequests \in Nat
    BY AttendanceAssumption DEF AttendanceInv, ClientsInv, RequestIsSound, AttendanceTyped
  <2> QED
    BY <2>1
<1>4. /\ receipt' \in [1..MaxRequests -> Sessions \cup {0}] /\ \A i \in 1..MaxRequests : receipt[i] # 0 => receipt'[i] # 0
      /\ receipt'[m.id] # 0
  BY <1>2, <1>3 DEF Receive
<1>5. N.tap = m.id => N.tap \in 1..MaxRequests /\ receipt'[N.tap] # 0 /\ \A t \in Sessions : shift[t].tap # N.tap
  BY <1>2, <1>3, <1>4 DEF ShiftsInv, ShiftIsSound
<1>6. shift' \in [Sessions -> Shifts] /\ ShiftsInv'
  BY <1>1, <1>2, <1>4, <1>5, ShiftChanges
<1>7. AttendanceTyped'
  BY <1>1, <1>4, <1>6 DEF AttendanceInv, AttendanceTyped
<1>8. CorrectionsInv'
  BY <1>1, <1>2, CorrectionsOutlive DEF AttendanceInv, CorrectionsInv
<1> QED
  BY <1>1, <1>6, <1>7, <1>8 DEF AttendanceInv

\* What of a session its clock leaves alone cannot bring it into another.
LEMMA SameTimes ==
    ASSUME AttendanceInv, NEW s \in Sessions, Kept(s), NEW t \in Sessions, t # s, Kept(t),
           ~shift[s].restored, ~shift[t].restored
    PROVE  /\ ~(shift[s].in < shift[t].out /\ shift[t].in < shift[s].out)
           /\ ~(shift[s].out = 0 /\ shift[s].in < shift[t].out)
           /\ ~(shift[t].out = 0 /\ shift[t].in < shift[s].out)
<1>1. /\ ~(Clash(s, t) \/ (IsOpen(s) /\ shift[s].in < shift[t].out))
      /\ ~(IsOpen(t) /\ shift[t].in < shift[s].out)
  BY DEF AttendanceInv, ShiftsInv, OverlapIsRestored
<1> QED
  BY <1>1 DEF Clash, IsOpen

LEMMA CheckInStep ==
    ASSUME AttendanceInv, NEW m \in sent, CheckIn(m)
    PROVE  AttendanceInv' /\ ApprovesWhatWasSeen
<1>1. receipt[m.id] = 0 /\ Answered(m) /\ AttendanceTyped
  BY DEF CheckIn, AttendanceInv
<1>2. CASE OpenSessions # {} /\ Receive(m, CHOOSE s \in OpenSessions : TRUE) /\ UNCHANGED shift
  <2>1. (CHOOSE s \in OpenSessions : TRUE) \in Sessions
    BY <1>2 DEF OpenSessions
  <2> QED
    BY <1>1, <1>2, <2>1, ReceivedAlone
<1>3. ASSUME OpenSessions = {}, Mutable({clock}), NEW s \in Unused,
             shift' = [shift EXCEPT ![s] = [NoShift EXCEPT !.state = "live", !.in = clock, !.revision = 1, !.tap = m.tap]],
             Receive(m, s)
      PROVE  AttendanceInv' /\ ApprovesWhatWasSeen
  <2> DEFINE N == [NoShift EXCEPT !.state = "live", !.in = clock, !.revision = 1, !.tap = m.tap]
  <2>1. s \in Sessions /\ shift[s].state = "none"
    BY DEF Unused
  <2>2. clock \in Nat /\ m.tap = m.id /\ m \in Requests /\ m.tap \in Nat
    BY <1>1 DEF AttendanceInv, AttendanceTyped, ClientsInv, RequestIsSound, Requests
  <2>3. /\ N \in Shifts /\ N.state = "live" /\ N.in = clock /\ N.out = 0 /\ N.onBreak = 0 /\ N.tap = m.id
    BY <2>2 DEF NoShift, Shifts
  <2> HIDE DEF N
  <2>4. Timely(N.in, N.out) /\ N.onBreak <= clock
    BY <2>2, <2>3 DEF Timely
  <2>5. \A t \in Sessions : shift[t].in \in Nat /\ shift[t].out \in Nat /\ shift[t].out <= clock
    BY <1>1 DEF AttendanceInv, ShiftsInv, ShiftIsSound, Timely, AttendanceTyped, Shifts
  <2>6. \A t \in Sessions : /\ ~(N.in < shift[t].out /\ shift[t].in < N.out)
                            /\ ~(N.out = 0 /\ N.in < shift[t].out)
                            /\ ~(shift[t].out = 0 /\ shift[t].in < N.out)
    BY <2>2, <2>3, <2>5
  <2>7. ~Kept(s)
    BY <2>1 DEF Kept
  <2> QED
    BY <1>1, <1>3, <2>1, <2>3, <2>4, <2>6, <2>7, ReceivedWithShift DEF N
<1> QED
  BY <1>2, <1>3 DEF CheckIn

LEMMA CheckOutStep ==
    ASSUME AttendanceInv, NEW m \in sent, CheckOut(m)
    PROVE  AttendanceInv' /\ ApprovesWhatWasSeen
<1> DEFINE s == m.session
           taken == shift[s].rest + (IF shift[s].onBreak = 0 THEN 0 ELSE clock - shift[s].onBreak)
<1>1. receipt[m.id] = 0 /\ Answered(m) /\ AttendanceTyped /\ Kept(s) /\ Receive(m, s) /\ m.action = "CHECK_OUT"
  BY DEF CheckOut, AttendanceInv
<1>2. s \in Sessions
  BY <1>1 DEF AttendanceInv, ClientsInv, RequestIsSound
<1>3. CASE UNCHANGED shift
  BY <1>1, <1>2, <1>3, ReceivedAlone
<1>4. CASE /\ shift[s].out = 0 /\ Mutable({shift[s].in}) /\ CanChange(s)
           /\ clock > shift[s].in /\ taken <= clock - shift[s].in
           /\ shift' = Changed(s, [shift[s] EXCEPT !.out = clock, !.rest = taken, !.onBreak = 0,
                                                   !.review = clock - shift[s].in >= LongShift])
  <2> DEFINE M == [shift[s] EXCEPT !.out = clock, !.rest = taken, !.onBreak = 0, !.review = clock - shift[s].in >= LongShift]
             N == [M EXCEPT !.revision = shift[s].revision + 1]
  <2>1. /\ clock \in Nat /\ shift[s] \in Shifts /\ shift[s].rest \in Nat /\ shift[s].onBreak \in Nat /\ shift[s].onBreak <= clock
        /\ shift[s].in \in Nat /\ shift[s].revision \in Nat
    BY <1>1, <1>2 DEF AttendanceInv, AttendanceTyped, Shifts, ShiftsInv, ShiftIsSound
  <2>2. taken \in Nat /\ shift[s].revision + 1 \in Nat /\ shift[s].revision + 1 > shift[s].revision
    BY <2>1
  <2> HIDE DEF taken
  <2>3. (clock - shift[s].in >= LongShift) \in BOOLEAN
    OBVIOUS
  <2>4. /\ M \in Shifts /\ M.state = shift[s].state /\ M.in = shift[s].in /\ M.out = clock /\ M.onBreak = 0 /\ M.tap = shift[s].tap
        /\ M.restored = shift[s].restored
    BY <2>1, <2>2, <2>3 DEF Shifts
  <2>5. shift' = [shift EXCEPT ![s] = N]
    BY <1>4 DEF Changed
  <2> HIDE DEF M
  <2>6. /\ N \in Shifts /\ N.state = "live" /\ N.in = shift[s].in /\ N.out = clock /\ N.onBreak = 0 /\ N.tap = shift[s].tap
        /\ N.restored = shift[s].restored /\ N.revision > shift[s].revision
    BY <1>1, <2>2, <2>4 DEF Shifts, Kept
  <2> HIDE DEF N
  <2>7. Timely(N.in, N.out) /\ N.onBreak <= clock /\ N.out # 0
    <3>1. shift[s].in < clock
      BY <1>4, <2>1
    <3> QED
      BY <2>1, <2>6, <3>1 DEF Timely
  <2>8. ASSUME NEW t \in Sessions, t # s, Kept(t), ~shift[t].restored, ~N.restored
        PROVE  /\ ~(N.in < shift[t].out /\ shift[t].in < N.out)
               /\ ~(N.out = 0 /\ N.in < shift[t].out)
               /\ ~(shift[t].out = 0 /\ shift[t].in < N.out)
    <3>1. ~(shift[s].out = 0 /\ shift[s].in < shift[t].out)
      BY <1>1, <1>2, <2>6, <2>8, SameTimes
    <3>2. shift[t].out # 0
      <4>1. s \in OpenSessions
        BY <1>1, <1>2, <1>4 DEF OpenSessions, IsOpen
      <4>2. shift[t].out = 0 => t \in OpenSessions
        BY <2>8 DEF OpenSessions, IsOpen
      <4> QED
        BY <2>8, <4>1, <4>2 DEF AttendanceInv, ShiftsInv, OneOpen
    <3> QED
      BY <1>4, <2>6, <2>7, <3>1, <3>2
  <2> QED
    BY <1>1, <1>2, <1>4, <2>5, <2>6, <2>7, <2>8, ReceivedWithShift
<1> QED
  BY <1>3, <1>4 DEF CheckOut

LEMMA BreakStep ==
    ASSUME AttendanceInv, NEW m \in sent, Break(m)
    PROVE  AttendanceInv' /\ ApprovesWhatWasSeen
<1> DEFINE s == m.session
<1>1. /\ receipt[m.id] = 0 /\ Answered(m) /\ AttendanceTyped /\ IsOpen(s) /\ Receive(m, s) /\ m.action \in {"BREAK_START", "BREAK_END"}
  BY DEF Break, AttendanceInv
<1>2. s \in Sessions /\ Kept(s) /\ shift[s].out = 0
  BY <1>1 DEF AttendanceInv, ClientsInv, RequestIsSound, IsOpen
<1>3. CASE UNCHANGED shift
  BY <1>1, <1>2, <1>3, ReceivedAlone
<1>4. /\ clock \in Nat /\ shift[s] \in Shifts /\ shift[s].rest \in Nat /\ shift[s].onBreak \in Nat /\ shift[s].onBreak <= clock
      /\ shift[s].in \in Nat /\ shift[s].revision \in Nat /\ Timely(shift[s].in, shift[s].out)
  BY <1>1, <1>2 DEF AttendanceInv, AttendanceTyped, Shifts, ShiftsInv, ShiftIsSound
<1>5. shift[s].revision + 1 \in Nat /\ shift[s].revision + 1 > shift[s].revision /\ shift[s].rest + clock - shift[s].onBreak \in Nat
      /\ 0 <= clock /\ clock <= clock
  BY <1>4
<1>6. ASSUME NEW M \in Shifts, shift' = Changed(s, M), Mutable({shift[s].in}),
             M.state = shift[s].state, M.in = shift[s].in, M.out = shift[s].out, M.tap = shift[s].tap,
             M.restored = shift[s].restored, M.onBreak <= clock
      PROVE  AttendanceInv' /\ ApprovesWhatWasSeen
  <2> DEFINE N == [M EXCEPT !.revision = shift[s].revision + 1]
  <2>1. /\ N \in Shifts /\ N.state = "live" /\ N.in = shift[s].in /\ N.out = shift[s].out /\ N.tap = shift[s].tap
        /\ N.restored = shift[s].restored /\ N.revision > shift[s].revision /\ N.onBreak <= clock
    BY <1>2, <1>5, <1>6 DEF Shifts, Kept
  <2>2. shift' = [shift EXCEPT ![s] = N]
    BY <1>6 DEF Changed
  <2> HIDE DEF N
  <2>3. OpenSessions \subseteq {s}
    <3>1. s \in OpenSessions
      BY <1>1, <1>2 DEF OpenSessions
    <3> QED
      BY <3>1 DEF AttendanceInv, ShiftsInv, OneOpen
  <2>4. ASSUME NEW t \in Sessions, t # s, Kept(t), ~shift[t].restored, ~N.restored
        PROVE  /\ ~(N.in < shift[t].out /\ shift[t].in < N.out)
               /\ ~(N.out = 0 /\ N.in < shift[t].out)
               /\ ~(shift[t].out = 0 /\ shift[t].in < N.out)
    BY <1>2, <2>1, <2>4, SameTimes
  <2>5. Timely(N.in, N.out) /\ N.state # "none"
    BY <1>4, <2>1
  <2> QED
    BY <1>1, <1>2, <1>6, <2>1, <2>2, <2>3, <2>4, <2>5, ReceivedWithShift
<1>7. CASE Mutable({shift[s].in}) /\ shift' = Changed(s, [shift[s] EXCEPT !.onBreak = clock])
  <2> DEFINE M == [shift[s] EXCEPT !.onBreak = clock]
  <2>1. /\ M \in Shifts /\ M.state = shift[s].state /\ M.in = shift[s].in /\ M.out = shift[s].out /\ M.tap = shift[s].tap
        /\ M.restored = shift[s].restored /\ M.onBreak <= clock
    BY <1>4, <1>5 DEF Shifts
  <2> HIDE DEF M
  <2> QED
    BY <1>6, <1>7, <2>1 DEF M
<1>8. CASE Mutable({shift[s].in}) /\ shift' = Changed(s, [shift[s] EXCEPT !.rest = @ + clock - shift[s].onBreak, !.onBreak = 0])
  <2> DEFINE M == [shift[s] EXCEPT !.rest = @ + clock - shift[s].onBreak, !.onBreak = 0]
  <2>1. /\ M \in Shifts /\ M.state = shift[s].state /\ M.in = shift[s].in /\ M.out = shift[s].out /\ M.tap = shift[s].tap
        /\ M.restored = shift[s].restored /\ M.onBreak <= clock
    BY <1>4, <1>5 DEF Shifts
  <2> HIDE DEF M
  <2> QED
    BY <1>6, <1>8, <2>1 DEF M
<1> QED
  BY <1>3, <1>7, <1>8 DEF Break

LEMMA PerformStep ==
    ASSUME AttendanceInv, NEW m \in sent, Perform(m)
    PROVE  AttendanceInv' /\ ApprovesWhatWasSeen
BY CheckInStep, CheckOutStep, BreakStep, ReceivedAlone DEF Perform, Unmoved

-----------------------------------------------------------------------------
\* The desk changes one session, and nothing of the phones.
LEMMA DeskShift ==
    ASSUME AttendanceInv, NEW s \in Sessions, NEW M \in Shifts, shift' = Changed(s, M),
           UNCHANGED <<approved, clientVars, deskVars>>,
           M.state # "none", Timely(M.in, M.out), M.onBreak <= clock, M.tap = shift[s].tap,
           M.state = "live" /\ M.out = 0 => OpenSessions \subseteq {s},
           Kept(s) => Mutable({shift[s].in}),
           M.state = "live" => Mutable({M.in}),
           M.state = "live" /\ ~M.restored =>
              \A t \in Sessions \ {s} : Kept(t) => \/ shift[t].restored
                                                   \/ /\ ~(M.in < shift[t].out /\ shift[t].in < M.out)
                                                      /\ ~(M.out = 0 /\ M.in < shift[t].out)
                                                      /\ ~(shift[t].out = 0 /\ shift[t].in < M.out),
           correction' \in [Corrections -> AskedFor],
           \A c \in Corrections : correction'[c] = correction[c] \/ correction'[c].state # "pending",
           ApprovesWhatWasSeen
    PROVE  AttendanceInv'
<1> DEFINE N == [M EXCEPT !.revision = shift[s].revision + 1]
<1>1. AttendanceTyped /\ ShiftsInv /\ ClientsInv /\ CorrectionsInv
  BY DEF AttendanceInv
<1>2. shift[s].revision \in Nat
  BY <1>1 DEF AttendanceTyped, Shifts
<1>3. /\ N \in Shifts /\ N.state = M.state /\ N.in = M.in /\ N.out = M.out /\ N.tap = M.tap
      /\ N.restored = M.restored /\ N.onBreak = M.onBreak /\ N.revision > shift[s].revision
  BY <1>2 DEF Shifts
<1>4. shift' = [shift EXCEPT ![s] = N]
  BY DEF Changed
<1> HIDE DEF N
<1>5. UNCHANGED <<approved, phone, sent, issued, receipt, bypass, clock>>
  BY DEF clientVars, deskVars
<1>6. shift' \in [Sessions -> Shifts] /\ ShiftsInv'
  <2>1. /\ N.state # "none" /\ Timely(N.in, N.out) /\ N.onBreak <= clock /\ N.tap = shift[s].tap
        /\ N.state = "live" /\ N.out = 0 => OpenSessions \subseteq {s}
        /\ N.state = "live" => Mutable({N.in})
    BY <1>3
  <2>2. N.state = "live" /\ ~N.restored =>
              \A t \in Sessions \ {s} : Kept(t) => \/ shift[t].restored
                                                   \/ /\ ~(N.in < shift[t].out /\ shift[t].in < N.out)
                                                      /\ ~(N.out = 0 /\ N.in < shift[t].out)
                                                      /\ ~(shift[t].out = 0 /\ shift[t].in < N.out)
    BY <1>3
  <2>3. \A i \in 1..MaxRequests : receipt[i] # 0 => receipt'[i] # 0
    BY <1>5
  <2> QED
    BY <1>1, <1>3, <1>4, <1>5, <2>1, <2>2, <2>3, ShiftChanges
<1>7. AttendanceTyped'
  BY <1>1, <1>5, <1>6 DEF AttendanceTyped
<1>8. ClientsInv'
  BY <1>1, <1>5 DEF ClientsInv
<1>9. CorrectionsInv'
  <2> SUFFICES ASSUME NEW c \in Corrections PROVE CorrectionIsSound(c)'
    BY DEF CorrectionsInv
  <2>1. CASE correction'[c] = correction[c]
    BY <1>1, <1>3, <1>4, <1>5, <2>1, CorrectionsOutlive
  <2>2. CASE correction'[c].state # "pending"
    BY <2>2 DEF CorrectionIsSound
  <2> QED
    BY <2>1, <2>2
<1> QED
  BY <1>6, <1>7, <1>8, <1>9 DEF AttendanceInv

\* What a form enters: checked against the other sessions and the periods.
LEMMA EnteredShift ==
    ASSUME AttendanceInv, NEW s \in Sessions, NEW e, e.in \in Nat, e.out \in Nat, e.rest \in Nat,
           Timely(e.in, e.out), shift' = Changed(s, Entered(s, e)),
           UNCHANGED <<approved, clientVars, deskVars>>,
           Kept(s) => Mutable({shift[s].in}), Mutable({e.in}),
           e.out = 0 => OpenSessions \subseteq {s}, ~Overlaps(s, e.in, e.out),
           correction' \in [Corrections -> AskedFor],
           \A c \in Corrections : correction'[c] = correction[c] \/ correction'[c].state # "pending",
           ApprovesWhatWasSeen
    PROVE  AttendanceInv'
<1> DEFINE M == Entered(s, e)
<1>1. /\ clock \in Nat /\ shift[s] \in Shifts
      /\ \A t \in Sessions : shift[t].in \in Nat /\ shift[t].out \in Nat /\ shift[t].out <= clock
                             /\ (shift[t].out # 0 => shift[t].in < shift[t].out)
  BY DEF AttendanceInv, AttendanceTyped, Shifts, ShiftsInv, ShiftIsSound, Timely
<1>2. /\ M \in Shifts /\ M.state = "live" /\ M.in = e.in /\ M.out = e.out /\ M.onBreak = 0 /\ M.tap = shift[s].tap
      /\ M.restored = shift[s].restored
  BY <1>1 DEF Entered, Shifts
<1> HIDE DEF M
<1>3. M.onBreak <= clock
  BY <1>1, <1>2
<1>4. ASSUME NEW t \in Sessions, t # s, Kept(t)
      PROVE  /\ ~(M.in < shift[t].out /\ shift[t].in < M.out)
             /\ ~(M.out = 0 /\ M.in < shift[t].out)
             /\ ~(shift[t].out = 0 /\ shift[t].in < M.out)
  <2>1. ~(/\ shift[t].in < (IF e.out = 0 THEN clock ELSE e.out)
          /\ shift[t].out = 0 \/ shift[t].out > e.in)
    BY <1>4 DEF Overlaps
  <2>2. /\ shift[t].in \in Nat /\ shift[t].out \in Nat /\ shift[t].out <= clock
        /\ (shift[t].out # 0 => shift[t].in < shift[t].out) /\ clock \in Nat
    BY <1>1
  <2>3. CASE e.out # 0
    BY <1>2, <2>1, <2>2, <2>3
  <2>4. CASE e.out = 0
    <3>1. ~(e.in < shift[t].out)
      BY <2>1, <2>2, <2>4
    <3> QED
      BY <1>2, <2>2, <2>4, <3>1
  <2> QED
    BY <2>3, <2>4
<1>5. Timely(M.in, M.out) /\ M.state # "none" /\ (M.state = "live" /\ M.out = 0 => OpenSessions \subseteq {s})
      /\ (M.state = "live" => Mutable({M.in}))
  BY <1>2
<1>6. shift' = Changed(s, M)
  BY DEF M
<1> QED
  BY <1>2, <1>3, <1>4, <1>5, <1>6, DeskShift

LEMMA EntryIsTyped ==
    ASSUME AttendanceInv, NEW e \in Entries
    PROVE  e.in \in Nat /\ e.out \in Nat /\ e.rest \in Nat /\ Timely(e.in, e.out)
<1>1. clock \in Nat /\ Rests \subseteq Nat
  BY AttendanceAssumption DEF AttendanceInv, AttendanceTyped
<1>2. e.in \in 1..clock /\ e.out \in 0..clock /\ e.rest \in Rests /\ (e.out # 0 => e.in < e.out)
  BY DEF Entries
<1>3. e.rest \in Nat
  BY <1>1, <1>2
<1>4. e.in \in Nat /\ e.out \in Nat /\ e.in <= clock /\ e.out <= clock
  BY <1>1, <1>2
<1> QED
  BY <1>2, <1>3, <1>4 DEF Timely

\* The desk leaves the sessions alone.
LEMMA DeskOnly ==
    ASSUME AttendanceInv, UNCHANGED <<shift, clientVars, receipt, bypass>>,
           clock' = clock \/ clock' = clock + 1,
           approved' \subseteq Nat, \A w \in approved' : w \in approved \/ UnresolvedSessions(w) = {},
           correction' \in [Corrections -> AskedFor],
           \A c \in Corrections : correction'[c] = correction[c] \/ CorrectionIsSound(c)',
           ApprovesWhatWasSeen
    PROVE  AttendanceInv'
<1>1. AttendanceTyped /\ ShiftsInv /\ ClientsInv /\ CorrectionsInv
  BY DEF AttendanceInv
<1>2. UNCHANGED <<shift, phone, sent, issued, receipt, bypass>>
  BY DEF clientVars
<1>3. clock' \in Nat
  BY <1>1 DEF AttendanceTyped
<1>4. AttendanceTyped'
  BY <1>1, <1>2, <1>3 DEF AttendanceTyped
<1>5. ShiftsInv'
  BY <1>1, <1>2, ShiftsUnchanged
<1>6. ClientsInv'
  BY <1>1, <1>2 DEF ClientsInv
<1>7. CorrectionsInv'
  BY <1>1, <1>2, CorrectionsKept DEF CorrectionsInv
<1> QED
  BY <1>4, <1>5, <1>6, <1>7 DEF AttendanceInv

LEMMA DeskStep ==
    ASSUME AttendanceInv,
           \/ \E c \in Corrections : ApproveCorrection(c) \/ RejectCorrection(c) \/ \E s \in Sessions \cup {0}, e \in Entries : RequestCorrection(c, s, e)
           \/ \E s \in Sessions : ArchiveShift(s) \/ RestoreShift(s) \/ \E e \in Entries : SaveAttendance(s, e)
           \/ \E w \in 0..(clock \div PeriodLength) : ApprovePeriod(w)
           \/ Tick
    PROVE  AttendanceInv' /\ ApprovesWhatWasSeen
<1>1. /\ AttendanceTyped /\ ShiftsInv /\ ClientsInv /\ CorrectionsInv /\ clock \in Nat /\ 0 \notin Sessions
      /\ correction \in [Corrections -> AskedFor] /\ approved \subseteq Nat
  BY AttendanceAssumption DEF AttendanceInv, AttendanceTyped
<1>2. correction' = correction => ApprovesWhatWasSeen /\ correction' \in [Corrections -> AskedFor]
  BY <1>1 DEF ApprovesWhatWasSeen
<1>3. \A s \in Sessions : shift[s] \in Shifts /\ ShiftIsSound(s)
  BY <1>1 DEF AttendanceTyped, ShiftsInv
<1>4. CASE \E c \in Corrections : ApproveCorrection(c)
  <2>1. PICK c \in Corrections : ApproveCorrection(c)
    BY <1>4
  <2> DEFINE k == correction[c]
             target == IF k.session = 0 THEN Unused ELSE {k.session}
             D == [NoCorrection EXCEPT !.state = "approved"]
  <2>2. k \in AskedFor /\ k.state = "pending" /\ SameRevision(c) /\ CorrectionIsSound(c)
    BY <1>1, <2>1 DEF ApproveCorrection, CorrectionsInv
  <2>3. PICK s \in target :
          /\ k.session # 0 => Kept(s) /\ CanChange(s)
          /\ Mutable({k.in} \cup (IF k.session = 0 THEN {} ELSE {shift[s].in}))
          /\ ~Overlaps(s, k.in, k.out)
          /\ k.out = 0 => OpenSessions \subseteq {s}
          /\ shift' = Changed(s, Entered(s, k))
          /\ correction' = [correction EXCEPT ![c] = D]
    BY <2>1 DEF ApproveCorrection
  <2>4. UNCHANGED <<approved, clientVars, deskVars>>
    BY <2>1 DEF ApproveCorrection
  <2>5. D \in AskedFor /\ D.state = "approved"
    BY NoShiftIsTyped DEF NoCorrection, AskedFor
  <2>6. k.session \in Sessions \cup {0} /\ k.in \in Nat /\ k.out \in Nat /\ k.rest \in Nat /\ Timely(k.in, k.out)
    BY <2>2 DEF AskedFor, CorrectionIsSound
  <2>7. s \in Sessions /\ (k.session = 0 => ~Kept(s)) /\ (k.session # 0 => s = k.session)
    BY <2>3, <2>6 DEF Unused, Kept
  <2>8. k.session # 0 => shift[k.session] = k.seen
    BY <2>2 DEF SameRevision, CorrectionIsSound
  <2> HIDE DEF D
  <2>9. correction' \in [Corrections -> AskedFor] /\ correction'[c] = D /\ \A d \in Corrections : d # c => correction'[d] = correction[d]
    BY <1>1, <2>3, <2>5
  <2>10. ApprovesWhatWasSeen
    BY <2>8, <2>9 DEF ApprovesWhatWasSeen
  <2>11. Mutable({k.in}) /\ (Kept(s) => Mutable({shift[s].in}))
    <3>1. \A t \in {k.in} \cup (IF k.session = 0 THEN {} ELSE {shift[s].in}) : t \div PeriodLength \notin approved
      BY <2>3 DEF Mutable
    <3> QED
      BY <2>7, <3>1 DEF Mutable
  <2>12. \A d \in Corrections : correction'[d] = correction[d] \/ correction'[d].state # "pending"
    BY <2>5, <2>9
  <2> HIDE DEF k
  <2> QED
    BY <2>3, <2>4, <2>6, <2>7, <2>9, <2>10, <2>11, <2>12, EnteredShift
<1>5. CASE \E c \in Corrections : RejectCorrection(c)
  <2>1. PICK c \in Corrections : RejectCorrection(c)
    BY <1>5
  <2> DEFINE D == [NoCorrection EXCEPT !.state = "rejected"]
  <2>2. correction' = [correction EXCEPT ![c] = D] /\ UNCHANGED <<shift, approved, clientVars, deskVars>>
    BY <2>1 DEF RejectCorrection
  <2>3. D \in AskedFor /\ D.state = "rejected"
    BY NoShiftIsTyped DEF NoCorrection, AskedFor
  <2> HIDE DEF D
  <2>4. correction' \in [Corrections -> AskedFor] /\ correction'[c] = D /\ \A d \in Corrections : d # c => correction'[d] = correction[d]
    BY <1>1, <2>2, <2>3
  <2>5. ApprovesWhatWasSeen
    BY <2>3, <2>4 DEF ApprovesWhatWasSeen
  <2>6. \A d \in Corrections : correction'[d] = correction[d] \/ CorrectionIsSound(d)'
    BY <2>3, <2>4 DEF CorrectionIsSound
  <2>7. UNCHANGED <<receipt, bypass, clock>>
    BY <2>2 DEF deskVars
  <2> QED
    BY <1>1, <2>2, <2>4, <2>5, <2>6, <2>7, DeskOnly
<1>6. CASE \E c \in Corrections, s \in Sessions \cup {0}, e \in Entries : RequestCorrection(c, s, e)
  <2>1. PICK c \in Corrections, s \in Sessions \cup {0}, e \in Entries : RequestCorrection(c, s, e)
    BY <1>6
  <2> DEFINE before == IF s = 0 THEN NoShift ELSE shift[s]
             D == [state |-> "pending", session |-> s, seen |-> before, in |-> e.in, out |-> e.out, rest |-> e.rest]
  <2>2. /\ s # 0 => Kept(s)
        /\ correction' = [correction EXCEPT ![c] = D] /\ UNCHANGED <<shift, approved, clientVars, deskVars>>
    BY <2>1 DEF RequestCorrection
  <2>3. e.in \in Nat /\ e.out \in Nat /\ e.rest \in Nat /\ Timely(e.in, e.out)
    BY EntryIsTyped
  <2>4. before \in Shifts /\ (s # 0 => before = shift[s])
    BY <1>3, NoShiftIsTyped
  <2> HIDE DEF before
  <2>5. D \in AskedFor /\ D.session = s /\ D.seen = before /\ D.in = e.in /\ D.out = e.out /\ D.state = "pending"
    BY <2>3, <2>4 DEF AskedFor
  <2> HIDE DEF D
  <2>6. correction' \in [Corrections -> AskedFor] /\ correction'[c] = D /\ \A d \in Corrections : d # c => correction'[d] = correction[d]
    BY <1>1, <2>2, <2>5
  <2>7. UNCHANGED <<receipt, bypass, clock>>
    BY <2>2 DEF deskVars
  <2>8. CorrectionIsSound(c)'
    <3>1. s # 0 => shift[s].revision \in Nat /\ shift[s].revision <= shift[s].revision /\ shift[s].state # "none"
      BY <1>3, <2>2 DEF Shifts, Kept
    <3> QED
      BY <2>2, <2>3, <2>4, <2>5, <2>6, <2>7, <3>1 DEF CorrectionIsSound, Timely
  <2>9. ApprovesWhatWasSeen
    BY <2>5, <2>6 DEF ApprovesWhatWasSeen
  <2> QED
    BY <1>1, <2>2, <2>6, <2>7, <2>8, <2>9, DeskOnly
<1>7. CASE \E s \in Sessions : ArchiveShift(s)
  <2>1. PICK s \in Sessions : ArchiveShift(s)
    BY <1>7
  <2> DEFINE M == [shift[s] EXCEPT !.state = "archived"]
  <2>2. /\ Kept(s) /\ Mutable({shift[s].in}) /\ shift[s].onBreak = 0
        /\ shift' = Changed(s, M) /\ UNCHANGED <<correction, approved, clientVars, deskVars>>
    BY <2>1 DEF ArchiveShift
  <2>3. M \in Shifts /\ M.state = "archived" /\ M.in = shift[s].in /\ M.out = shift[s].out /\ M.tap = shift[s].tap /\ M.onBreak = shift[s].onBreak
    BY <1>3 DEF Shifts
  <2> HIDE DEF M
  <2>4. Timely(M.in, M.out) /\ M.onBreak <= clock
    BY <1>3, <2>3 DEF ShiftIsSound
  <2> QED
    BY <1>2, <2>2, <2>3, <2>4, DeskShift
<1>8. CASE \E s \in Sessions : RestoreShift(s)
  <2>1. PICK s \in Sessions : RestoreShift(s)
    BY <1>8
  <2> DEFINE M == [shift[s] EXCEPT !.state = "live", !.restored = TRUE]
  <2>2. /\ shift[s].state = "archived" /\ Mutable({shift[s].in}) /\ (shift[s].out = 0 => OpenSessions = {})
        /\ shift' = Changed(s, M) /\ UNCHANGED <<correction, approved, clientVars, deskVars>>
    BY <2>1 DEF RestoreShift, Fits
  <2>3. /\ M \in Shifts /\ M.state = "live" /\ M.in = shift[s].in /\ M.out = shift[s].out /\ M.tap = shift[s].tap
        /\ M.onBreak = shift[s].onBreak /\ M.restored
    BY <1>3 DEF Shifts
  <2> HIDE DEF M
  <2>4. Timely(M.in, M.out) /\ M.onBreak <= clock
    BY <1>3, <2>3 DEF ShiftIsSound
  <2> QED
    BY <1>2, <2>2, <2>3, <2>4, DeskShift
<1>9. CASE \E s \in Sessions, e \in Entries : SaveAttendance(s, e)
  <2>1. PICK s \in Sessions, e \in Entries : SaveAttendance(s, e)
    BY <1>9
  <2>2. /\ s \notin Unused => Kept(s) /\ Mutable({shift[s].in})
        /\ Mutable({e.in}) /\ (e.out = 0 => OpenSessions \subseteq {s}) /\ ~Overlaps(s, e.in, e.out)
        /\ shift' = Changed(s, Entered(s, e)) /\ UNCHANGED <<correction, approved, clientVars, deskVars>>
    BY <2>1 DEF SaveAttendance
  <2>3. Kept(s) => Mutable({shift[s].in})
    BY <2>2 DEF Unused, Kept
  <2>4. e.in \in Nat /\ e.out \in Nat /\ e.rest \in Nat /\ Timely(e.in, e.out)
    BY EntryIsTyped
  <2> QED
    BY <1>2, <2>2, <2>3, <2>4, EnteredShift
<1>10. CASE \E w \in 0..(clock \div PeriodLength) : ApprovePeriod(w)
  <2>1. PICK w \in 0..(clock \div PeriodLength) : ApprovePeriod(w)
    BY <1>10
  <2>2. w \in Nat
    <3>1. clock \div PeriodLength \in Int
      BY <1>1, AttendanceAssumption
    <3> QED
      BY <3>1
  <2>3. UnresolvedSessions(w) = {} /\ approved' = approved \cup {w} /\ UNCHANGED <<shift, correction, clientVars, deskVars>>
    BY <2>1 DEF ApprovePeriod
  <2>4. UNCHANGED <<receipt, bypass, clock>>
    BY <2>3 DEF deskVars
  <2>5. approved' \subseteq Nat /\ \A v \in approved' : v \in approved \/ UnresolvedSessions(v) = {}
    BY <1>1, <2>2, <2>3
  <2> QED
    BY <1>2, <2>3, <2>4, <2>5, DeskOnly
<1>11. CASE Tick
  BY <1>1, <1>2, <1>11, DeskOnly DEF Tick
<1> QED
  BY <1>4, <1>5, <1>6, <1>7, <1>8, <1>9, <1>10, <1>11

LEMMA AttendanceStep ==
    ASSUME AttendanceInv, [AttendanceNext]_attendanceVars
    PROVE  AttendanceInv' /\ ApprovesWhatWasSeen
<1>1. CASE UNCHANGED attendanceVars
  <2>1. UNCHANGED <<shift, correction, approved, receipt, phone, sent, issued, bypass, clock>>
    BY <1>1 DEF attendanceVars
  <2> QED
    BY <2>1, ClientsMove DEF AttendanceInv, AttendanceTyped, ClientsInv
<1> QED
  BY <1>1, ClientStep, LoseActionStep, PerformStep, DeskStep DEF AttendanceNext

LEMMA AttendanceHolds ==
    ASSUME AttendanceInv
    PROVE  AttendanceTypeOK /\ OneOpenSession /\ OneSessionPerTap /\ ApprovedPeriodIsSettled /\ OverlapIsRestored
<1>1. AttendanceTypeOK
  <2>1. AttendanceTyped
    BY DEF AttendanceInv
  <2>2. \A c \in Corrections : correction[c].state \in {"none", "pending", "approved", "rejected"}
    BY <2>1 DEF AttendanceTyped, AskedFor
  <2> QED
    BY <2>1, <2>2 DEF AttendanceTyped, AttendanceTypeOK, Shifts, PhoneStates
<1>2. OneOpenSession
  <2>1. CASE OpenSessions = {}
    BY <2>1, FS_EmptySet DEF OneOpenSession
  <2>2. CASE OpenSessions # {}
    <3>1. PICK s \in OpenSessions : TRUE
      BY <2>2
    <3>2. OpenSessions = {s}
      BY <3>1 DEF AttendanceInv, ShiftsInv, OneOpen
    <3>3. Cardinality({s}) = 1
      BY FS_Singleton
    <3> QED
      BY <3>2, <3>3 DEF OneOpenSession
  <2> QED
    BY <2>1, <2>2
<1> QED
  BY <1>1, <1>2 DEF AttendanceInv, ShiftsInv

-----------------------------------------------------------------------------
(* The roster.  What a request is about to write is for people whose rows  *)
(* it has locked, and no two requests have locked one person or one shift. *)

\* A row of roster_shifts, and what a request holds and is about to write.
RosterEntries == [state : {"none", "active", "deleted"}, user : Staff \cup {0}, slot : Slots \cup {0}, published : BOOLEAN]
DeskWork == [op : {"none", "save", "generate", "read", "restore"}, shift : ShiftIds \cup {0},
             users : SUBSET (Staff \cup {0}), rows : SUBSET (Staff \X Slots), published : BOOLEAN]
LocksHeld == {"save", "generate", "restore"}

\* What is about to be written is for people whose rows are locked, and no
\* shift is identical to it; what is about to be restored is still as it was.
WorkIsSound(w) ==
    /\ w.op \in {"save", "generate"} =>
          \A pair \in w.rows : pair[1] \in w.users /\ ~Identical(pair[1], pair[2], w.shift)
    /\ w.op = "generate" => w.shift = 0
    /\ w.op \in {"read", "restore"} => w.shift \in ShiftIds /\ roster[w.shift].state # "none"
    /\ w.op = "restore" =>
          /\ roster[w.shift].state = "deleted" /\ w.users = {roster[w.shift].user}
          /\ ~Identical(roster[w.shift].user, roster[w.shift].slot, w.shift)

\* No two requests have locked one person or one shift.
LocksApart ==
    \A d, e \in Desks : d # e /\ desk[d].op \in LocksHeld /\ desk[e].op \in LocksHeld =>
        /\ desk[d].users \cap desk[e].users = {}
        /\ desk[d].shift # 0 => desk[d].shift # desk[e].shift

RosterInv ==
    /\ roster \in [ShiftIds -> RosterEntries] /\ desk \in [Desks -> DeskWork]
    /\ \A d \in Desks : WorkIsSound(desk[d])
    /\ LocksApart
    /\ NoIdenticalShifts

LEMMA RosterInitInv == RosterInit => RosterInv
<1> SUFFICES ASSUME RosterInit PROVE RosterInv
  OBVIOUS
<1>1. NoEntry \in RosterEntries /\ NoEntry.state = "none" /\ NoWork \in DeskWork /\ NoWork.op = "none"
  BY DEF NoEntry, NoWork, RosterEntries, DeskWork
<1>2. roster = [s \in ShiftIds |-> NoEntry] /\ desk = [d \in Desks |-> NoWork]
  BY DEF RosterInit
<1>3. \A d \in Desks : WorkIsSound(desk[d])
  BY <1>1, <1>2 DEF WorkIsSound
<1>4. LocksApart /\ NoIdenticalShifts
  BY <1>1, <1>2 DEF LocksApart, NoIdenticalShifts, Rostered, LocksHeld
<1> QED
  BY <1>1, <1>2, <1>3, <1>4 DEF RosterInv

\* A request changes what it holds: what it is about to write is sound, and
\* nobody else has locked what it locks.
LEMMA DeskChanges ==
    ASSUME RosterInv, NEW d \in Desks, NEW w \in DeskWork, WorkIsSound(w),
           desk' = [desk EXCEPT ![d] = w], roster' = roster,
           w.op \in LocksHeld => \A e \in Desks \ {d} : desk[e].op \in LocksHeld =>
               /\ w.users \cap desk[e].users = {}
               /\ w.shift # 0 => w.shift # desk[e].shift
    PROVE  RosterInv'
<1>1. /\ desk' \in [Desks -> DeskWork] /\ desk'[d] = w /\ \A e \in Desks \ {d} : desk'[e] = desk[e]
  BY DEF RosterInv
<1>2. ASSUME NEW e \in Desks PROVE WorkIsSound(desk[e])'
  <2>1. CASE e = d
    BY <2>1, <1>1 DEF WorkIsSound, Identical, Rostered
  <2>2. CASE e # d
    <3>1. WorkIsSound(desk[e]) /\ desk'[e] = desk[e]
      BY <2>2, <1>1 DEF RosterInv
    <3> QED
      BY <3>1 DEF WorkIsSound, Identical, Rostered
  <2> QED
    BY <2>1, <2>2
<1>3. LocksApart'
  <2> SUFFICES ASSUME NEW a \in Desks, NEW e \in Desks, a # e, desk'[a].op \in LocksHeld, desk'[e].op \in LocksHeld
               PROVE  /\ desk'[a].users \cap desk'[e].users = {}
                      /\ desk'[a].shift # 0 => desk'[a].shift # desk'[e].shift
    BY DEF LocksApart, LocksHeld
  <2>1. CASE a = d
    BY <2>1, <1>1
  <2>2. CASE e = d
    BY <2>2, <1>1
  <2>3. CASE a # d /\ e # d
    BY <2>3, <1>1 DEF RosterInv, LocksApart
  <2> QED
    BY <2>1, <2>2, <2>3
<1>4. NoIdenticalShifts'
  BY DEF RosterInv, NoIdenticalShifts, Rostered
<1> QED
  BY <1>1, <1>2, <1>3, <1>4 DEF RosterInv

LEMMA DeskRests ==
    ASSUME RosterInv, NEW d \in Desks, Done(d), roster' = roster
    PROVE  RosterInv'
<1>1. NoWork \in DeskWork /\ NoWork.op = "none" /\ WorkIsSound(NoWork)
  BY DEF NoWork, DeskWork, WorkIsSound
<1> QED
  BY <1>1, DeskChanges DEF Done, LocksHeld

\* A request writes what it was about to and lets go.  It writes shifts of the
\* people it has locked, over unused ids or the shift it has locked.
LEMMA DeskWrites ==
    ASSUME RosterInv, NEW d \in Desks, desk[d].op \in LocksHeld, Done(d),
           roster' \in [ShiftIds -> RosterEntries], NoIdenticalShifts',
           \A s \in ShiftIds : roster'[s] = roster[s] \/
               /\ roster'[s].state = "active" /\ roster'[s].user \in desk[d].users
               /\ roster[s].state = "none" \/ (s = desk[d].shift /\ s # 0)
    PROVE  RosterInv'
<1>1. NoWork \in DeskWork /\ NoWork.op = "none"
  BY DEF NoWork, DeskWork
<1>2. /\ desk' \in [Desks -> DeskWork] /\ desk'[d] = NoWork /\ \A e \in Desks \ {d} : desk'[e] = desk[e]
  BY <1>1 DEF RosterInv, Done
<1>3. ASSUME NEW e \in Desks PROVE WorkIsSound(desk[e])'
  <2>1. CASE e = d
    BY <2>1, <1>1, <1>2 DEF WorkIsSound
  <2>2. CASE e # d
    <3>1. WorkIsSound(desk[e]) /\ desk'[e] = desk[e]
      BY <2>2, <1>2 DEF RosterInv
    <3>2. desk[e].op \in LocksHeld =>
             /\ desk[e].users \cap desk[d].users = {}
             /\ desk[e].shift # 0 => desk[e].shift # desk[d].shift
      BY <2>2 DEF RosterInv, LocksApart
    <3>4. ASSUME desk[e].op \in {"save", "generate"}, NEW pair \in desk[e].rows
          PROVE  pair[1] \in desk[e].users /\ ~Identical(pair[1], pair[2], desk[e].shift)'
      <4>1. pair[1] \in desk[e].users /\ ~Identical(pair[1], pair[2], desk[e].shift)
        BY <3>1, <3>4 DEF WorkIsSound
      <4>2. ~\E t \in ShiftIds \ {desk[e].shift} : roster'[t].state = "active" /\ roster'[t].user = pair[1] /\ roster'[t].slot = pair[2]
        BY <4>1, <3>2, <3>4 DEF Identical, Rostered, LocksHeld
      <4> QED
        BY <4>1, <4>2, <3>1 DEF Identical, Rostered
    <3>5. ASSUME desk[e].op \in {"read", "restore"}
          PROVE  desk[e].shift \in ShiftIds /\ roster'[desk[e].shift].state # "none"
      BY <3>1, <3>5 DEF WorkIsSound
    <3>6. ASSUME desk[e].op = "restore"
          PROVE  /\ roster'[desk[e].shift] = roster[desk[e].shift]
                 /\ ~\E t \in ShiftIds \ {desk[e].shift} : /\ roster'[t].state = "active"
                        /\ roster'[t].user = roster[desk[e].shift].user /\ roster'[t].slot = roster[desk[e].shift].slot
      <4>1. /\ desk[e].shift \in ShiftIds /\ roster[desk[e].shift].state = "deleted"
            /\ desk[e].users = {roster[desk[e].shift].user}
            /\ ~Identical(roster[desk[e].shift].user, roster[desk[e].shift].slot, desk[e].shift)
        BY <3>1, <3>6 DEF WorkIsSound
      <4>2. roster'[desk[e].shift] = roster[desk[e].shift]
        BY <4>1, <3>2, <3>6 DEF LocksHeld
      <4> QED
        BY <4>1, <4>2, <3>2, <3>6 DEF Identical, Rostered, LocksHeld
    <3>7. desk[e].op = "generate" => desk[e].shift = 0
      BY <3>1 DEF WorkIsSound
    <3> QED
      BY <3>1, <3>4, <3>5, <3>6, <3>7 DEF WorkIsSound, Identical, Rostered
  <2> QED
    BY <2>1, <2>2
<1>4. LocksApart'
  BY <1>1, <1>2 DEF RosterInv, LocksApart, LocksHeld
<1> QED
  BY <1>2, <1>3, <1>4 DEF RosterInv

\* A shift changes in nothing that other requests look at, or is archived.
LEMMA RosterShrinks ==
    ASSUME RosterInv, roster' \in [ShiftIds -> RosterEntries], desk' = desk,
           \A s \in ShiftIds : /\ roster'[s].user = roster[s].user /\ roster'[s].slot = roster[s].slot
                               /\ \/ roster'[s].state = roster[s].state
                                  \/ roster[s].state = "active" /\ roster'[s].state = "deleted"
    PROVE  RosterInv'
<1>1. ASSUME NEW d \in Desks PROVE WorkIsSound(desk[d])'
  <2>1. WorkIsSound(desk[d]) /\ desk'[d] = desk[d]
    BY DEF RosterInv
  <2>2. \A u, slot, s : Identical(u, slot, s)' => Identical(u, slot, s)
    BY DEF Identical, Rostered
  <2> QED
    BY <2>1, <2>2 DEF WorkIsSound, Identical, Rostered
<1>2. LocksApart'
  BY DEF RosterInv, LocksApart
<1>3. NoIdenticalShifts'
  BY DEF RosterInv, NoIdenticalShifts, Rostered
<1> QED
  BY <1>1, <1>2, <1>3 DEF RosterInv

LEMMA SaveBegins ==
    ASSUME RosterInv, NEW d \in Desks, NEW s \in ShiftIds \cup {0}, NEW u \in Staff, NEW slot \in Slots,
           NEW published \in BOOLEAN, BeginSave(d, s, u, slot, published)
    PROVE  RosterInv'
<1> DEFINE w == [op |-> "save", shift |-> s, users |-> {u}, rows |-> {<<u, slot>>}, published |-> published]
<1>1. /\ UserIsFree(u) /\ (s # 0 => ShiftIsFree(s)) /\ ~Identical(u, slot, s)
      /\ desk' = [desk EXCEPT ![d] = w] /\ roster' = roster
  BY DEF BeginSave, Undertake
<1>2. w \in DeskWork /\ w.op = "save" /\ w.users = {u} /\ w.shift = s /\ w.rows = {<<u, slot>>}
  BY DEF DeskWork
<1> HIDE DEF w
<1>3. WorkIsSound(w)
  BY <1>1, <1>2 DEF WorkIsSound
<1>4. \A e \in Desks \ {d} : desk[e].op \in LocksHeld =>
               /\ w.users \cap desk[e].users = {}
               /\ w.shift # 0 => w.shift # desk[e].shift
  BY <1>1, <1>2 DEF UserIsFree, ShiftIsFree, Holding, LocksHeld
<1> QED
  BY <1>1, <1>2, <1>3, <1>4, DeskChanges

LEMMA GenerateBegins ==
    ASSUME RosterInv, NEW d \in Desks, NEW us \in SUBSET Staff, NEW slots \in SUBSET Slots, BeginGenerate(d, us, slots)
    PROVE  RosterInv'
<1> DEFINE w == [op |-> "generate", shift |-> 0, users |-> us, published |-> FALSE,
                     rows |-> {r \in us \X slots : ~Identical(r[1], r[2], 0)}]
<1>1. /\ \A u \in us : UserIsFree(u)
      /\ desk' = [desk EXCEPT ![d] = w] /\ roster' = roster
  BY DEF BeginGenerate, Undertake
<1>2. w \in DeskWork /\ w.op = "generate" /\ w.users = us /\ w.shift = 0
  BY DEF DeskWork
<1>3. \A r \in w.rows : r[1] \in us /\ ~Identical(r[1], r[2], 0)
  OBVIOUS
<1> HIDE DEF w
<1>4. WorkIsSound(w)
  BY <1>2, <1>3 DEF WorkIsSound
<1>5. \A e \in Desks \ {d} : desk[e].op \in LocksHeld =>
               /\ w.users \cap desk[e].users = {}
               /\ w.shift # 0 => w.shift # desk[e].shift
  BY <1>1, <1>2 DEF UserIsFree, Holding, LocksHeld
<1> QED
  BY <1>1, <1>2, <1>4, <1>5, DeskChanges

LEMMA EntryTyped ==
    ASSUME NEW pair \in Staff \X Slots, NEW published \in BOOLEAN
    PROVE  /\ Entry(pair, published) \in RosterEntries
           /\ Entry(pair, published).state = "active"
           /\ Entry(pair, published).user = pair[1] /\ Entry(pair, published).slot = pair[2]
BY DEF Entry, RosterEntries

LEMMA SaveCommits ==
    ASSUME RosterInv, NEW d \in Desks, CommitSave(d)
    PROVE  RosterInv'
<1>1. PICK pair \in desk[d].rows, s \in (IF desk[d].shift = 0 THEN NextId ELSE {desk[d].shift}) :
          desk[d].op = "save" /\ roster' = [roster EXCEPT ![s] = Entry(pair, desk[d].published)] /\ Done(d)
  BY DEF CommitSave
<1>2. /\ desk[d] \in DeskWork /\ WorkIsSound(desk[d])
      /\ roster \in [ShiftIds -> RosterEntries] /\ NoIdenticalShifts
  BY DEF RosterInv
<1>3. pair \in Staff \X Slots /\ desk[d].published \in BOOLEAN /\ desk[d].shift \in ShiftIds \cup {0}
  BY <1>2 DEF DeskWork
<1>4. pair[1] \in desk[d].users /\ ~Identical(pair[1], pair[2], desk[d].shift)
  BY <1>1, <1>2 DEF WorkIsSound
<1>5. /\ s \in ShiftIds /\ 0 \notin ShiftIds
      /\ roster[s].state = "none" \/ (s = desk[d].shift /\ s # 0)
  BY <1>1, <1>3, RosterAssumption DEF NextId, FreeIds
<1> DEFINE n == Entry(pair, desk[d].published)
<1>6. n \in RosterEntries /\ n.state = "active" /\ n.user = pair[1] /\ n.slot = pair[2]
  BY <1>3, EntryTyped
<1>7. roster' = [roster EXCEPT ![s] = n]
  BY <1>1
<1> HIDE DEF n
<1>8. /\ roster' \in [ShiftIds -> RosterEntries] /\ roster'[s] = n
      /\ \A t \in ShiftIds \ {s} : roster'[t] = roster[t]
  BY <1>2, <1>5, <1>6, <1>7
<1>9. \A t \in ShiftIds \ {s} : ~(roster[t].state = "active" /\ roster[t].user = pair[1] /\ roster[t].slot = pair[2])
  BY <1>4, <1>5 DEF Identical, Rostered
<1>10. NoIdenticalShifts'
  BY <1>2, <1>6, <1>8, <1>9 DEF NoIdenticalShifts, Rostered
<1> QED
  BY <1>1, <1>4, <1>5, <1>6, <1>8, <1>10, DeskWrites DEF LocksHeld

\* A set that is no larger than another can be numbered by its elements.
LEMMA Numbering ==
    ASSUME NEW A, NEW B, IsFiniteSet(A), IsFiniteSet(B), Cardinality(A) <= Cardinality(B)
    PROVE  \E f \in [A -> B] : \A q, r \in A : f[q] = f[r] => q = r
<1>1. /\ Cardinality(A) \in Nat /\ ExistsBijection(1..Cardinality(A), A)
      /\ Cardinality(B) \in Nat /\ ExistsBijection(1..Cardinality(B), B)
  BY FS_CardinalityType
<1>2. ExistsInjection(1..Cardinality(A), 1..Cardinality(B))
  BY <1>1, Fun_NatInjLeq
<1>3. ExistsBijection(A, 1..Cardinality(A))
  BY <1>1, Fun_ExistsBijSymmetric
<1>4. ExistsInjection(A, 1..Cardinality(A)) /\ ExistsInjection(1..Cardinality(B), B)
  BY <1>1, <1>3 DEF ExistsBijection, ExistsInjection, Bijection
<1>5. ExistsInjection(A, 1..Cardinality(B))
  BY <1>2, <1>4, Fun_ExistsInjTransitive
<1>6. ExistsInjection(A, B)
  BY <1>4, <1>5, Fun_ExistsInjTransitive
<1> QED
  BY <1>6 DEF ExistsInjection, Injection, IsInjective

LEMMA GenerateCommits ==
    ASSUME RosterInv, NEW d \in Desks, CommitGenerate(d)
    PROVE  RosterInv'
<1> DEFINE rows == desk[d].rows
           id == CHOOSE f \in [rows -> FreeIds] : \A q, r \in rows : f[q] = f[r] => q = r
<1>1. /\ desk[d].op = "generate" /\ Cardinality(rows) <= Cardinality(FreeIds) /\ Done(d)
      /\ roster' = [s \in ShiftIds |->
               IF \E r \in rows : id[r] = s
               THEN Entry(CHOOSE r \in rows : id[r] = s, FALSE) ELSE roster[s]]
  BY DEF CommitGenerate
<1>2. /\ desk[d] \in DeskWork /\ WorkIsSound(desk[d])
      /\ roster \in [ShiftIds -> RosterEntries] /\ NoIdenticalShifts
  BY DEF RosterInv
<1>3. rows \subseteq Staff \X Slots
  BY <1>2 DEF DeskWork
<1>4. /\ \A r \in rows : r[1] \in desk[d].users /\ ~Identical(r[1], r[2], 0)
      /\ 0 \notin ShiftIds
  BY <1>1, <1>2, RosterAssumption DEF WorkIsSound
<1>5. id \in [rows -> FreeIds]
  <2>1. IsFiniteSet(Staff \X Slots)
    BY FS_Product, RosterAssumption
  <2>2. IsFiniteSet(rows) /\ IsFiniteSet(FreeIds)
    BY <2>1, <1>3, FS_Subset, RosterAssumption DEF FreeIds
  <2>3. \E f \in [rows -> FreeIds] : \A q, r \in rows : f[q] = f[r] => q = r
    BY <2>2, <1>1, Numbering
  <2> QED
    BY <2>3
<1> HIDE DEF id, rows
<1>6. ASSUME NEW s \in ShiftIds
      PROVE  roster'[s] = roster[s] \/
               \E r \in rows : id[r] = s /\ roster[s].state = "none" /\ roster'[s] = Entry(r, FALSE)
  <2>1. CASE \E r \in rows : id[r] = s
    <3>1. PICK r \in rows : r = CHOOSE q \in rows : id[q] = s
      BY <2>1
    <3>2. id[r] = s /\ roster'[s] = Entry(r, FALSE)
      BY <2>1, <3>1, <1>1
    <3>3. s \in FreeIds
      BY <3>2, <1>5
    <3> QED
      BY <3>2, <3>3 DEF FreeIds
  <2>2. CASE ~\E r \in rows : id[r] = s
    BY <2>2, <1>1
  <2> QED
    BY <2>1, <2>2
<1>7. ASSUME NEW s \in ShiftIds
      PROVE  roster'[s] = roster[s] \/
               \E r \in rows : /\ id[r] = s /\ roster[s].state = "none" /\ roster'[s] \in RosterEntries
                               /\ roster'[s].state = "active" /\ roster'[s].user = r[1] /\ roster'[s].slot = r[2]
  <2>1. CASE roster'[s] = roster[s]
    BY <2>1
  <2>2. CASE \E r \in rows : id[r] = s /\ roster[s].state = "none" /\ roster'[s] = Entry(r, FALSE)
    <3>1. PICK r \in rows : id[r] = s /\ roster[s].state = "none" /\ roster'[s] = Entry(r, FALSE)
      BY <2>2
    <3>2. r \in Staff \X Slots
      BY <1>3
    <3>3. /\ Entry(r, FALSE) \in RosterEntries /\ Entry(r, FALSE).state = "active"
          /\ Entry(r, FALSE).user = r[1] /\ Entry(r, FALSE).slot = r[2]
      BY <3>2, EntryTyped
    <3> QED
      BY <3>1, <3>3
  <2> QED
    BY <1>6, <2>1, <2>2
<1>8. roster' \in [ShiftIds -> RosterEntries]
  <2>1. \A s \in ShiftIds : roster'[s] \in RosterEntries
    BY <1>2, <1>7
  <2>2. roster' = [s \in ShiftIds |-> roster'[s]]
    BY <1>1
  <2> QED
    BY <2>1, <2>2
<1>9. NoIdenticalShifts'
  <2> SUFFICES ASSUME NEW s \in ShiftIds, NEW t \in ShiftIds, s # t, roster'[s].state = "active", roster'[t].state = "active",
                      roster'[s].user = roster'[t].user, roster'[s].slot = roster'[t].slot
               PROVE  FALSE
    BY DEF NoIdenticalShifts, Rostered
  <2>0. \A r \in rows, x \in ShiftIds : ~(roster[x].state = "active" /\ roster[x].user = r[1] /\ roster[x].slot = r[2])
    BY <1>4 DEF Identical, Rostered
  <2>1. CASE roster'[s] = roster[s] /\ roster'[t] = roster[t]
    BY <2>1, <1>2 DEF NoIdenticalShifts, Rostered
  <2>2. CASE roster'[s] = roster[s] /\ roster'[t] # roster[t]
    BY <2>2, <2>0, <1>7
  <2>3. CASE roster'[s] # roster[s] /\ roster'[t] = roster[t]
    BY <2>3, <2>0, <1>7
  <2>4. CASE roster'[s] # roster[s] /\ roster'[t] # roster[t]
    <3>1. PICK q \in rows : id[q] = s /\ roster'[s].user = q[1] /\ roster'[s].slot = q[2]
      BY <2>4, <1>7
    <3>2. PICK r \in rows : id[r] = t /\ roster'[t].user = r[1] /\ roster'[t].slot = r[2]
      BY <2>4, <1>7
    <3>3. q = r
      <4>1. q \in Staff \X Slots /\ r \in Staff \X Slots /\ q[1] = r[1] /\ q[2] = r[2]
        BY <3>1, <3>2, <1>3
      <4> QED
        BY ONLY <4>1
    <3> QED
      BY <3>1, <3>2, <3>3
  <2> QED
    BY <2>1, <2>2, <2>3, <2>4
<1>10. \A s \in ShiftIds : roster'[s] = roster[s] \/
               /\ roster'[s].state = "active" /\ roster'[s].user \in desk[d].users /\ roster[s].state = "none"
  BY <1>4, <1>7
<1> QED
  BY <1>1, <1>8, <1>9, <1>10, DeskWrites DEF LocksHeld

LEMMA RestoreStep ==
    ASSUME RosterInv, NEW d \in Desks, BeginRestore(d) \/ CommitRestore(d)
    PROVE  RosterInv'
<1>1. /\ desk \in [Desks -> DeskWork] /\ desk[d] \in DeskWork /\ WorkIsSound(desk[d])
      /\ roster \in [ShiftIds -> RosterEntries] /\ NoIdenticalShifts
  BY DEF RosterInv
<1> DEFINE s == desk[d].shift
<1>2. desk[d].op \in {"read", "restore"} /\ s \in ShiftIds /\ 0 \notin ShiftIds /\ roster[s].state # "none"
  BY <1>1, RosterAssumption DEF BeginRestore, CommitRestore, WorkIsSound
<1>3. CASE BeginRestore(d)
  <2>1. CASE Done(d) /\ UNCHANGED roster
    BY <2>1, DeskRests
  <2>2. CASE /\ SameAssignment(d) /\ roster[s].state = "deleted"
             /\ ~Identical(roster[s].user, roster[s].slot, s)
             /\ Undertake(d, [desk[d] EXCEPT !.op = "restore"])
    <3> DEFINE w == [desk[d] EXCEPT !.op = "restore"]
    <3>1. w \in DeskWork /\ w.op = "restore" /\ w.users = desk[d].users /\ w.shift = s
      BY <1>1 DEF DeskWork
    <3>2. desk' = [desk EXCEPT ![d] = w] /\ roster' = roster
      BY <2>2 DEF Undertake
    <3> HIDE DEF w
    <3>3. WorkIsSound(w)
      BY <3>1, <2>2, <1>2 DEF WorkIsSound, SameAssignment
    <3>4. \A e \in Desks \ {d} : desk[e].op \in LocksHeld =>
               /\ w.users \cap desk[e].users = {}
               /\ w.shift # 0 => w.shift # desk[e].shift
      <4>1. (\A u \in desk[d].users : UserIsFree(u)) /\ ShiftIsFree(s)
        BY <1>3 DEF BeginRestore
      <4> QED
        BY <4>1, <3>1 DEF UserIsFree, ShiftIsFree, Holding, LocksHeld
    <3> QED
      BY <3>1, <3>2, <3>3, <3>4, DeskChanges
  <2> QED
    BY <1>3, <2>1, <2>2 DEF BeginRestore
<1>4. CASE CommitRestore(d)
  <2>1. /\ desk[d].op = "restore" /\ roster' = [roster EXCEPT ![s].state = "active"] /\ Done(d)
    BY <1>4 DEF CommitRestore
  <2>2. /\ roster[s].state = "deleted" /\ desk[d].users = {roster[s].user}
        /\ ~Identical(roster[s].user, roster[s].slot, s)
    BY <2>1, <1>1 DEF WorkIsSound
  <2>3. /\ roster' \in [ShiftIds -> RosterEntries] /\ roster'[s].state = "active"
        /\ roster'[s].user = roster[s].user /\ roster'[s].slot = roster[s].slot
        /\ \A t \in ShiftIds \ {s} : roster'[t] = roster[t]
    BY <2>1, <1>1, <1>2 DEF RosterEntries
  <2>4. NoIdenticalShifts'
    BY <2>2, <2>3, <1>1, <1>2 DEF NoIdenticalShifts, Identical, Rostered
  <2> QED
    BY <2>1, <2>2, <2>3, <2>4, <1>2, DeskWrites DEF LocksHeld
<1> QED
  BY <1>3, <1>4

LEMMA RosterStep ==
    ASSUME RosterInv, [RosterNext]_rosterVars
    PROVE  RosterInv'
<1>t. roster \in [ShiftIds -> RosterEntries] /\ desk \in [Desks -> DeskWork]
  BY DEF RosterInv
<1>1. CASE UNCHANGED rosterVars
  BY <1>1, RosterShrinks, <1>t DEF rosterVars
<1>2. CASE \E d \in Desks : CommitSave(d) \/ CommitGenerate(d) \/ BeginRestore(d) \/ CommitRestore(d) \/ AbandonDesk(d)
  BY <1>2, SaveCommits, GenerateCommits, RestoreStep, DeskRests DEF AbandonDesk
<1>3. CASE \E d \in Desks, us \in SUBSET Staff, slots \in SUBSET Slots : BeginGenerate(d, us, slots)
  BY <1>3, GenerateBegins
<1>4. CASE \E d \in Desks, s \in ShiftIds : ReadAssignment(d, s)
  <2>1. PICK d \in Desks, s \in ShiftIds : ReadAssignment(d, s)
    BY <1>4
  <2> DEFINE w == [NoWork EXCEPT !.op = "read", !.shift = s, !.users = {roster[s].user}]
  <2>2. roster[s].state # "none" /\ desk' = [desk EXCEPT ![d] = w] /\ roster' = roster
    BY <2>1 DEF ReadAssignment, Undertake
  <2>3. w \in DeskWork /\ w.op = "read" /\ w.shift = s
    BY <1>t DEF NoWork, DeskWork, RosterEntries
  <2> HIDE DEF w
  <2>4. WorkIsSound(w)
    BY <2>2, <2>3 DEF WorkIsSound
  <2> QED
    BY <2>2, <2>3, <2>4, DeskChanges DEF LocksHeld
<1>5. CASE \E d \in Desks, s \in ShiftIds \cup {0}, u \in Staff, slot \in Slots, published \in BOOLEAN :
                BeginSave(d, s, u, slot, published)
  BY <1>5, SaveBegins
<1>6. CASE \E s \in ShiftIds : DeleteShift(s)
  <2>1. PICK s \in ShiftIds : DeleteShift(s)
    BY <1>6
  <2>2. roster[s].state = "active" /\ roster' = [roster EXCEPT ![s].state = "deleted"] /\ desk' = desk
    BY <2>1 DEF DeleteShift, Rostered
  <2>3. /\ roster' \in [ShiftIds -> RosterEntries]
        /\ \A t \in ShiftIds : roster'[t] = IF t = s THEN [roster[s] EXCEPT !.state = "deleted"] ELSE roster[t]
    BY <2>2, <1>t DEF RosterEntries
  <2>4. \A t \in ShiftIds : /\ roster'[t].user = roster[t].user /\ roster'[t].slot = roster[t].slot
                            /\ \/ roster'[t].state = roster[t].state
                               \/ roster[t].state = "active" /\ roster'[t].state = "deleted"
    BY <2>2, <2>3, <1>t DEF RosterEntries
  <2> QED
    BY <2>2, <2>3, <2>4, RosterShrinks
<1>7. CASE \E slots \in SUBSET Slots : PublishRoster(slots)
  <2>1. PICK slots \in SUBSET Slots : PublishRoster(slots)
    BY <1>7
  <2> DEFINE chosen == {s \in ShiftIds : Rostered(s) /\ roster[s].slot \in slots}
  <2>2. /\ roster' = [s \in ShiftIds |-> IF s \in chosen THEN [roster[s] EXCEPT !.published = TRUE] ELSE roster[s]]
        /\ desk' = desk
    BY <2>1 DEF PublishRoster
  <2> HIDE DEF chosen
  <2>3. \A s \in ShiftIds : [roster[s] EXCEPT !.published = TRUE] \in RosterEntries
    BY <1>t DEF RosterEntries
  <2>4. roster' \in [ShiftIds -> RosterEntries]
    BY <2>2, <2>3, <1>t
  <2>5. \A t \in ShiftIds : /\ roster'[t].user = roster[t].user /\ roster'[t].slot = roster[t].slot
                            /\ roster'[t].state = roster[t].state
    BY <2>2, <1>t DEF RosterEntries
  <2> QED
    BY <2>2, <2>4, <2>5, RosterShrinks
<1> QED
  BY <1>1, <1>2, <1>3, <1>4, <1>5, <1>6, <1>7 DEF RosterNext

LEMMA RosterInvHolds ==
    ASSUME RosterInv
    PROVE  RosterTypeOK /\ NoIdenticalShifts
BY DEF RosterInv, RosterTypeOK, RosterEntries, DeskWork

-----------------------------------------------------------------------------
(* From the shop floor to the certificate: production alone, inspections,  *)
(* then concessions, releases and certificates.                            *)

\* Production alone: a job nobody started has no operation under way.
FloorInv ==
    /\ FloorTypeOK
    /\ MachineAgrees
    /\ FinishedIsInspected
    /\ \A o \in Operations : job[o[1]] = "READY" => operation[o].status = "READY"

\* What a step on the shop floor does to a job: it is never released, and
\* never taken back from its release.
JobsMove == \A j \in Jobs : job'[j] = "FINAL_RELEASE" <=> job[j] = "FINAL_RELEASE"

LEMMA OperationTypes ==
    ASSUME FloorTypeOK, NEW o \in Operations, NEW u \in People, NEW status \in {"READY", "RUNNING", "PAUSED", "COMPLETE"},
           Turn(o, u, status)
    PROVE  /\ o[1] \in Jobs
           /\ operation' \in [Operations -> [status : {"READY", "RUNNING", "PAUSED", "COMPLETE"},
                                     owner : People \cup {Nobody}, starter : People \cup {Nobody}]]
           /\ operation'[o].status = status
           /\ \A p \in Operations \ {o} : operation'[p] = operation[p]
BY DEF FloorTypeOK, Turn, OwnerOf, Operations

LEMMA FloorInitInv ==
    ASSUME FloorInit
    PROVE  FloorInv /\ \A j \in Jobs : job[j] # "FINAL_RELEASE"
<1>0. \A j \in Jobs : OperationsOf(j) # {} /\ OperationsOf(j) \subseteq Operations
  <2>1. PICK s \in Steps : TRUE
    BY QualityAssumption, FloorAssumption
  <2>2. \A j \in Jobs : <<j, s>> \in OperationsOf(j)
    BY DEF OperationsOf, Operations
  <2> QED
    BY <2>2 DEF OperationsOf
<1>j. \A o \in Operations : o[1] \in Jobs
  BY DEF Operations
<1>1. CASE /\ job = [j \in Jobs |-> "READY"]
           /\ operation = [o \in Operations |-> Unstarted]
           /\ machine = "READY"
  BY <1>0, <1>j, <1>1 DEF FloorInv, FloorTypeOK, MachineAgrees, FinishedIsInspected, Running, Unstarted
<1>2. CASE \E old \in Operations, u \in People \cup {Nobody} :
          /\ job = [j \in Jobs |-> IF j = old[1] THEN "IN_PRODUCTION" ELSE "READY"]
          /\ operation = [o \in Operations |->
                 IF o = old THEN [status |-> "RUNNING", owner |-> Nobody, starter |-> u] ELSE Unstarted]
          /\ machine = "RUNNING"
  <2>1. PICK old \in Operations, u \in People \cup {Nobody} :
          /\ job = [j \in Jobs |-> IF j = old[1] THEN "IN_PRODUCTION" ELSE "READY"]
          /\ operation = [o \in Operations |->
                 IF o = old THEN [status |-> "RUNNING", owner |-> Nobody, starter |-> u] ELSE Unstarted]
          /\ machine = "RUNNING"
    BY <1>2
  <2>2. \A o \in Operations : operation[o].status = (IF o = old THEN "RUNNING" ELSE "READY")
    BY <2>1 DEF Unstarted
  <2>3. \A j \in Jobs : job[j] = (IF j = old[1] THEN "IN_PRODUCTION" ELSE "READY")
    BY <2>1
  <2>4. FloorTypeOK
    BY <2>1 DEF FloorTypeOK, Unstarted
  <2>5. MachineAgrees
    BY <2>1, <2>2 DEF MachineAgrees, Running
  <2>6. FinishedIsInspected
    BY <2>2, <2>3, <1>0 DEF FinishedIsInspected
  <2>7. \A o \in Operations : job[o[1]] = "READY" => operation[o].status = "READY"
    BY <2>2, <2>3, <1>j
  <2> QED
    BY <2>3, <2>4, <2>5, <2>6, <2>7 DEF FloorInv
<1> QED
  BY <1>1, <1>2 DEF FloorInit

LEMMA FloorStepInv ==
    ASSUME FloorInv, NEW o \in Operations, FloorStep(o)
    PROVE  FloorInv' /\ JobsMove
<1>1. PICK u \in People : StartOperation(o, u) \/ PauseOperation(o, u) \/ CompleteOperation(o, u)
  BY DEF FloorStep
<1>0. /\ FloorTypeOK /\ o[1] \in Jobs /\ o \in OperationsOf(o[1])
      /\ \A p \in Operations : p[1] \in Jobs /\ p \in OperationsOf(p[1])
      /\ \A j \in Jobs : OperationsOf(j) \subseteq Operations /\ \A p \in OperationsOf(j) : p[1] = j
  BY DEF FloorInv, OperationsOf, Operations
<1>m. MachineAgrees /\ FinishedIsInspected /\ \A p \in Operations : job[p[1]] = "READY" => operation[p].status = "READY"
  BY DEF FloorInv
<1>t. /\ job \in [Jobs -> {"READY", "IN_PRODUCTION", "INSPECTION", "FINAL_RELEASE"}]
      /\ machine \in {"READY", "RUNNING"}
  BY <1>0 DEF FloorTypeOK
<1>2. CASE StartOperation(o, u)
  <2>0. /\ operation[o].status \in {"READY", "PAUSED"} /\ job[o[1]] # "FINAL_RELEASE"
        /\ Turn(o, u, "RUNNING") /\ job' = [job EXCEPT ![o[1]] = "IN_PRODUCTION"] /\ machine' = "RUNNING"
    BY <1>2 DEF StartOperation, Closed
  <2>1. /\ operation' \in [Operations -> [status : {"READY", "RUNNING", "PAUSED", "COMPLETE"},
                                     owner : People \cup {Nobody}, starter : People \cup {Nobody}]]
        /\ operation'[o].status = "RUNNING"
        /\ \A p \in Operations \ {o} : operation'[p] = operation[p]
    BY <1>0, <2>0, OperationTypes
  <2>2. FloorTypeOK'
    BY <1>t, <2>0, <2>1 DEF FloorTypeOK
  <2>3. MachineAgrees'
    BY <2>0, <2>1 DEF MachineAgrees, Running
  <2>4. FinishedIsInspected'
    <3> SUFFICES ASSUME NEW j \in Jobs, job'[j] # "FINAL_RELEASE"
                 PROVE  job'[j] = "INSPECTION" <=> \A p \in OperationsOf(j) : operation'[p].status = "COMPLETE"
      BY DEF FinishedIsInspected, OperationsOf
    <3>1. CASE j = o[1]
      BY <3>1, <2>0, <2>1, <1>0, <1>t
    <3>2. CASE j # o[1]
      BY <3>2, <2>0, <2>1, <1>0, <1>t, <1>m DEF FinishedIsInspected
    <3> QED
      BY <3>1, <3>2
  <2>5. \A p \in Operations : job'[p[1]] = "READY" => operation'[p].status = "READY"
    BY <2>0, <2>1, <1>0, <1>t, <1>m
  <2>6. JobsMove
    BY <2>0, <1>t, <1>0 DEF JobsMove
  <2> QED
    BY <2>2, <2>3, <2>4, <2>5, <2>6 DEF FloorInv
<1>3. CASE PauseOperation(o, u)
  <2>0. /\ operation[o].status = "RUNNING"
        /\ Turn(o, u, "PAUSED") /\ job' = job /\ LeaveMachine(o)
    BY <1>3 DEF PauseOperation
  <2>1. /\ operation' \in [Operations -> [status : {"READY", "RUNNING", "PAUSED", "COMPLETE"},
                                     owner : People \cup {Nobody}, starter : People \cup {Nobody}]]
        /\ operation'[o].status = "PAUSED"
        /\ \A p \in Operations \ {o} : operation'[p] = operation[p]
    BY <1>0, <2>0, OperationTypes
  <2>2. FloorTypeOK'
    BY <1>t, <2>0, <2>1 DEF FloorTypeOK, LeaveMachine
  <2>3. MachineAgrees'
    BY <2>0, <2>1, <1>m, <1>t DEF MachineAgrees, Running, LeaveMachine
  <2>4. FinishedIsInspected'
    <3> SUFFICES ASSUME NEW j \in Jobs, job'[j] # "FINAL_RELEASE"
                 PROVE  job'[j] = "INSPECTION" <=> \A p \in OperationsOf(j) : operation'[p].status = "COMPLETE"
      BY DEF FinishedIsInspected, OperationsOf
    <3>1. CASE j = o[1]
      BY <3>1, <2>0, <2>1, <1>0, <1>t, <1>m DEF FinishedIsInspected
    <3>2. CASE j # o[1]
      BY <3>2, <2>0, <2>1, <1>0, <1>t, <1>m DEF FinishedIsInspected
    <3> QED
      BY <3>1, <3>2
  <2>5. \A p \in Operations : job'[p[1]] = "READY" => operation'[p].status = "READY"
    BY <2>0, <2>1, <1>0, <1>t, <1>m
  <2>6. JobsMove
    BY <2>0, <1>t, <1>0 DEF JobsMove
  <2> QED
    BY <2>2, <2>3, <2>4, <2>5, <2>6 DEF FloorInv
<1>4. CASE CompleteOperation(o, u)
  <2>0. /\ operation[o].status \in {"RUNNING", "PAUSED"} /\ job[o[1]] # "FINAL_RELEASE"
        /\ Turn(o, u, "COMPLETE") /\ LeaveMachine(o)
        /\ job' = IF job[o[1]] = "IN_PRODUCTION" /\ \A r \in OperationsOf(o[1]) \ {o} : operation[r].status = "COMPLETE"
              THEN [job EXCEPT ![o[1]] = "INSPECTION"] ELSE job
    BY <1>4 DEF CompleteOperation, Closed
  <2>1. /\ operation' \in [Operations -> [status : {"READY", "RUNNING", "PAUSED", "COMPLETE"},
                                     owner : People \cup {Nobody}, starter : People \cup {Nobody}]]
        /\ operation'[o].status = "COMPLETE"
        /\ \A p \in Operations \ {o} : operation'[p] = operation[p]
    BY <1>0, <2>0, OperationTypes
  <2>2. FloorTypeOK'
    BY <1>0, <1>t, <2>0, <2>1 DEF FloorTypeOK, LeaveMachine
  <2>3. MachineAgrees'
    BY <2>0, <2>1, <1>m, <1>t DEF MachineAgrees, Running, LeaveMachine
  <2>7. job[o[1]] = "IN_PRODUCTION"
    BY <2>0, <1>0, <1>t, <1>m DEF FinishedIsInspected
  <2>4. FinishedIsInspected'
    <3> SUFFICES ASSUME NEW j \in Jobs, job'[j] # "FINAL_RELEASE"
                 PROVE  job'[j] = "INSPECTION" <=> \A p \in OperationsOf(j) : operation'[p].status = "COMPLETE"
      BY DEF FinishedIsInspected, OperationsOf
    <3>1. CASE j = o[1]
      BY <3>1, <2>0, <2>1, <2>7, <1>0, <1>t, <1>m DEF FinishedIsInspected
    <3>2. CASE j # o[1]
      BY <3>2, <2>0, <2>1, <1>0, <1>t, <1>m DEF FinishedIsInspected
    <3> QED
      BY <3>1, <3>2
  <2>5. \A p \in Operations : job'[p[1]] = "READY" => operation'[p].status = "READY"
    BY <2>0, <2>1, <2>7, <1>0, <1>t, <1>m
  <2>6. JobsMove
    BY <2>0, <2>7, <1>t, <1>0 DEF JobsMove
  <2> QED
    BY <2>2, <2>3, <2>4, <2>5, <2>6 DEF FloorInv
<1> QED
  BY <1>1, <1>2, <1>3, <1>4

-----------------------------------------------------------------------------
(* Inspections.                                                            *)

\* A run is of an approved plan, and what it was measured by is kept.
InspectionInv ==
    /\ plan \in [Plans -> [status : {"none", "DRAFT", "APPROVED"}, has : SUBSET Characteristics]]
    /\ run \in [Runs -> [status : {"none", "OPEN", "PASS", "FAIL", "APPROVED"}, plan : Plans \cup {0},
                         by : People \cup {Nobody}, approver : People \cup {Nobody}]]
    /\ measurement \in [Runs -> [Keys -> [result : {"NONE", "PASS", "FAIL"}, by : People \cup {Nobody}]]]
    /\ \A r \in Runs : run[r].status # "none" => run[r].plan \in Plans /\ plan[run[r].plan].status = "APPROVED"
    /\ InspectionsStand

\* What a step does to an inspection that is approved.
ApprovedStays == \A r \in Runs : run[r].status = "APPROVED" => run'[r] = run[r]

\* What makes one inspection stand.
Stands(r) ==
    run[r].status \in {"PASS", "APPROVED"} =>
        /\ plan[run[r].plan].status = "APPROVED"
        /\ \A c \in Blockers(r) : Results(r, c) = {"PASS"}
        /\ run[r].status = "APPROVED" =>
              run[r].by # run[r].approver /\ \A k \in Keys : measurement[r][k].by # run[r].approver

LEMMA StandsEach == InspectionsStand <=> \A r \in Runs : Stands(r)
BY DEF InspectionsStand, Stands

\* An inspection stands as long as nothing that it rests on changes.
LEMMA UntouchedStands ==
    ASSUME NEW r \in Runs, Stands(r), run'[r] = run[r], measurement'[r] = measurement[r],
           run[r].status \in {"PASS", "APPROVED"} => plan'[run[r].plan] = plan[run[r].plan]
    PROVE  Stands(r)'
<1>1. \A c : Results(r, c)' = Results(r, c)
  BY DEF Results
<1>2. run[r].status \in {"PASS", "APPROVED"} => Blockers(r)' = Blockers(r)
  BY DEF Blockers
<1> QED
  BY <1>1, <1>2 DEF Stands

LEMMA PlanChanges ==
    ASSUME InspectionInv, NEW p \in Plans, plan[p].status # "APPROVED", UNCHANGED <<run, measurement>>,
           plan' \in [Plans -> [status : {"none", "DRAFT", "APPROVED"}, has : SUBSET Characteristics]],
           \A q \in Plans \ {p} : plan'[q] = plan[q]
    PROVE  InspectionInv' /\ ApprovedStays
<1>1. \A r \in Runs : run[r].status # "none" => run[r].plan \in Plans /\ plan'[run[r].plan] = plan[run[r].plan]
  BY DEF InspectionInv
<1>2. \A r \in Runs : Stands(r)
  BY StandsEach DEF InspectionInv
<1>3. ASSUME NEW r \in Runs PROVE Stands(r)'
  <2>1. run[r].status \in {"PASS", "APPROVED"} => plan'[run[r].plan] = plan[run[r].plan]
    BY <1>1
  <2> QED
    BY <2>1, <1>2, UntouchedStands
<1>4. InspectionsStand'
  BY <1>3 DEF InspectionsStand, Stands
<1> QED
  BY <1>1, <1>4 DEF InspectionInv, ApprovedStays

\* A run changes that is not approved; what it rests on does not.
LEMMA RunChanges ==
    ASSUME InspectionInv, NEW r \in Runs, run[r].status # "APPROVED", UNCHANGED <<plan, measurement>>,
           NEW n \in [status : {"OPEN", "PASS", "FAIL", "APPROVED"}, plan : Plans,
                         by : People \cup {Nobody}, approver : People \cup {Nobody}],
           plan[n.plan].status = "APPROVED",
           run' = [run EXCEPT ![r] = n],
           n.status \in {"PASS", "APPROVED"} => \A c \in plan[n.plan].has \cap Blocking : Results(r, c) = {"PASS"},
           n.status = "APPROVED" => n.by # n.approver /\ \A k \in Keys : measurement[r][k].by # n.approver
    PROVE  InspectionInv' /\ ApprovedStays
<1>1. /\ run' \in [Runs -> [status : {"none", "OPEN", "PASS", "FAIL", "APPROVED"}, plan : Plans \cup {0},
                         by : People \cup {Nobody}, approver : People \cup {Nobody}]]
      /\ run'[r] = n /\ \A q \in Runs \ {r} : run'[q] = run[q]
  BY DEF InspectionInv
<1>2. \A q \in Runs : Stands(q)
  BY StandsEach DEF InspectionInv
<1>3. ASSUME NEW q \in Runs PROVE Stands(q)'
  <2>1. CASE q = r
    <3>1. \A c : Results(r, c)' = Results(r, c)
      BY DEF Results
    <3>2. Blockers(r)' = plan[n.plan].has \cap Blocking
      BY <1>1 DEF Blockers
    <3> QED
      BY <2>1, <1>1, <3>1, <3>2 DEF Stands
  <2>2. CASE q # r
    BY <2>2, <1>1, <1>2, UntouchedStands
  <2> QED
    BY <2>1, <2>2
<1>4. InspectionsStand'
  BY <1>3 DEF InspectionsStand, Stands
<1> QED
  BY <1>1, <1>4 DEF InspectionInv, ApprovedStays

LEMMA InspectionStepInv ==
    ASSUME InspectionInv, Inspection
    PROVE  InspectionInv' /\ ApprovedStays
<1>p. /\ plan \in [Plans -> [status : {"none", "DRAFT", "APPROVED"}, has : SUBSET Characteristics]]
      /\ run \in [Runs -> [status : {"none", "OPEN", "PASS", "FAIL", "APPROVED"}, plan : Plans \cup {0},
                         by : People \cup {Nobody}, approver : People \cup {Nobody}]]
      /\ measurement \in [Runs -> [Keys -> [result : {"NONE", "PASS", "FAIL"}, by : People \cup {Nobody}]]]
      /\ \A r \in Runs : run[r].status # "none" => run[r].plan \in Plans /\ plan[run[r].plan].status = "APPROVED"
  BY DEF InspectionInv
<1>s. \A r \in Runs : Stands(r)
  BY StandsEach DEF InspectionInv
<1>1. ASSUME NEW p \in Plans, CreatePlan(p) PROVE InspectionInv' /\ ApprovedStays
  BY <1>1, <1>p, PlanChanges DEF CreatePlan
<1>2. ASSUME NEW p \in Plans, ApprovePlan(p) PROVE InspectionInv' /\ ApprovedStays
  BY <1>2, <1>p, PlanChanges DEF ApprovePlan
<1>3. ASSUME NEW p \in Plans, NEW c \in Characteristics, AddCharacteristic(p, c) PROVE InspectionInv' /\ ApprovedStays
  <2>1. /\ plan[p].status = "DRAFT" /\ UNCHANGED <<run, measurement>>
        /\ plan' = [plan EXCEPT ![p].has = plan[p].has \cup {c}]
    BY <1>3 DEF AddCharacteristic
  <2>2. plan' \in [Plans -> [status : {"none", "DRAFT", "APPROVED"}, has : SUBSET Characteristics]]
    BY <2>1, <1>p
  <2> QED
    BY <2>1, <2>2, <1>p, PlanChanges
<1>4. ASSUME NEW r \in Runs, CompleteRun(r) PROVE InspectionInv' /\ ApprovedStays
  <2> DEFINE s == IF \E c \in Blockers(r) : "FAIL" \in Results(r, c) THEN "FAIL" ELSE "PASS"
             n == [run[r] EXCEPT !.status = s]
  <2>1. /\ run[r].status = "OPEN" /\ \A c \in Blockers(r) : Results(r, c) # {}
        /\ run' = [run EXCEPT ![r] = n] /\ UNCHANGED <<plan, measurement>>
    BY <1>4 DEF CompleteRun
  <2>2. /\ n \in [status : {"OPEN", "PASS", "FAIL", "APPROVED"}, plan : Plans,
                         by : People \cup {Nobody}, approver : People \cup {Nobody}]
        /\ n.plan = run[r].plan /\ n.status = s /\ s # "APPROVED" /\ plan[n.plan].status = "APPROVED"
    BY <2>1, <1>p
  <2>3. ASSUME s = "PASS", NEW c \in plan[n.plan].has \cap Blocking PROVE Results(r, c) = {"PASS"}
    <3>1. c \in Blockers(r) /\ c \in Characteristics
      BY <2>2, <2>3, <1>p DEF Blockers
    <3>2. "FAIL" \notin Results(r, c) /\ Results(r, c) # {}
      BY <3>1, <2>1, <2>3
    <3>3. \A x \in Samples : <<c, x>> \in Keys
      BY <3>1 DEF Keys
    <3>4. \A x \in Samples : measurement[r][<<c, x>>].result \in {"NONE", "PASS", "FAIL"}
      BY <3>3, <1>p
    <3>5. Results(r, c) \subseteq {"PASS", "FAIL"}
      BY <3>4 DEF Results
    <3> QED
      BY <3>2, <3>5
  <2> HIDE DEF n
  <2>4. /\ n.status \in {"PASS", "APPROVED"} => \A c \in plan[n.plan].has \cap Blocking : Results(r, c) = {"PASS"}
        /\ n.status # "APPROVED"
    BY <2>2, <2>3
  <2> QED
    BY <2>1, <2>2, <2>4, RunChanges
<1>5. ASSUME NEW r \in Runs, NEW u \in People, ApproveRun(r, u) PROVE InspectionInv' /\ ApprovedStays
  <2> DEFINE n == [[run[r] EXCEPT !.status = "APPROVED"] EXCEPT !.approver = u]
  <2>1. /\ run[r].status = "PASS" /\ ~TookPart(r, u)
        /\ run' = [run EXCEPT ![r] = n] /\ UNCHANGED <<plan, measurement>>
    BY <1>5, <1>p DEF ApproveRun
  <2>2. /\ n \in [status : {"OPEN", "PASS", "FAIL", "APPROVED"}, plan : Plans,
                         by : People \cup {Nobody}, approver : People \cup {Nobody}]
        /\ n.plan = run[r].plan /\ n.by = run[r].by /\ n.approver = u /\ plan[n.plan].status = "APPROVED"
    BY <2>1, <1>p
  <2> HIDE DEF n
  <2>3. Stands(r)
    BY <1>s
  <2>4. \A c \in plan[n.plan].has \cap Blocking : Results(r, c) = {"PASS"}
    BY <2>1, <2>2, <2>3 DEF Stands, Blockers
  <2>5. n.by # n.approver /\ \A k \in Keys : measurement[r][k].by # n.approver
    BY <2>1, <2>2 DEF TookPart
  <2> QED
    BY <2>1, <2>2, <2>4, <2>5, RunChanges
<1>6. ASSUME NEW r \in Runs, NEW u \in People, NEW p \in Plans, CreateRun(r, p, u) PROVE InspectionInv' /\ ApprovedStays
  <2> DEFINE n == [status |-> "OPEN", plan |-> p, by |-> u, approver |-> Nobody]
  <2>1. /\ run[r].status = "none" /\ plan[p].status = "APPROVED"
        /\ run' = [run EXCEPT ![r] = n] /\ UNCHANGED <<plan, measurement>>
    BY <1>6 DEF CreateRun
  <2>2. /\ n \in [status : {"OPEN", "PASS", "FAIL", "APPROVED"}, plan : Plans,
                         by : People \cup {Nobody}, approver : People \cup {Nobody}]
        /\ n.plan = p /\ n.status = "OPEN"
    OBVIOUS
  <2> HIDE DEF n
  <2> QED
    BY <2>1, <2>2, RunChanges
<1>7. ASSUME NEW r \in Runs, NEW u \in People, NEW k \in Keys, NEW result \in {"PASS", "FAIL"}, RecordMeasurement(r, k, u, result)
      PROVE InspectionInv' /\ ApprovedStays
  <2>1. /\ run[r].status = "OPEN" /\ UNCHANGED <<plan, run>>
        /\ measurement' = [measurement EXCEPT ![r][k] = [result |-> result, by |-> u]]
    BY <1>7 DEF RecordMeasurement, Measurable
  <2>2. /\ measurement' \in [Runs -> [Keys -> [result : {"NONE", "PASS", "FAIL"}, by : People \cup {Nobody}]]]
        /\ \A q \in Runs \ {r} : measurement'[q] = measurement[q]
    BY <2>1, <1>p
  <2>3. ASSUME NEW q \in Runs PROVE Stands(q)'
    <3>1. CASE q = r
      BY <3>1, <2>1 DEF Stands
    <3>2. CASE q # r
      BY <3>2, <2>1, <2>2, <1>s, UntouchedStands
    <3> QED
      BY <3>1, <3>2
  <2>4. InspectionsStand'
    BY <2>3 DEF InspectionsStand, Stands
  <2> QED
    BY <2>1, <2>2, <2>4, <1>p DEF InspectionInv, ApprovedStays
<1> QED
  BY <1>1, <1>2, <1>3, <1>4, <1>5, <1>6, <1>7 DEF Inspection

-----------------------------------------------------------------------------
(* Concessions, releases and certificates.                                *)

PaperTyped ==
    /\ concession.status \in {"none", "DRAFT", "APPROVED"} /\ concession.lapsed \in BOOLEAN
    /\ DOMAIN concession = {"status", "requester", "approver", "lapsed"}
    /\ releasing \in [active : BOOLEAN, conceded : BOOLEAN]
    /\ releases \in Seq([run : Runs, conceded : BOOLEAN])
    /\ drafting \in [Certifiers -> [ready : BOOLEAN, runs : SUBSET Runs, conceded : BOOLEAN]]
    /\ certificates \in Seq([runs : SUBSET Runs, conceded : BOOLEAN])

\* Before a release there is no certificate and no draft of one; while one is
\* decided there is none.  What was conceded was approved and stays so, and a
\* draft has what the certificate needs.
PaperInv ==
    /\ PaperTyped
    /\ approving # {} => concession.status # "none"
    /\ releasing.active => Len(releases) = 0
    /\ releasing.active /\ releasing.conceded => concession.status = "APPROVED"
    /\ Len(releases) = 1 /\ releases[1].conceded => concession.status = "APPROVED"
    /\ \A c \in Certifiers : drafting[c].ready =>
          /\ Len(releases) = 1
          /\ releases[1].run \in drafting[c].runs
          /\ releases[1].conceded => drafting[c].conceded \/ concession.lapsed
    /\ Len(certificates) > 0 => Len(releases) = 1
    /\ ReleasesStand /\ CertificatesStand

QualityInv == FloorInv /\ InspectionInv /\ PaperInv /\ held \in BOOLEAN

\* What the papers say stays true while they are not written: approved
\* inspections stay, so does an approved concession, and the job keeps its
\* release.
LEMMA PaperStays ==
    ASSUME PaperInv, UNCHANGED paperVars,
           job'[Order] = "FINAL_RELEASE" <=> job[Order] = "FINAL_RELEASE",
           ApprovedStays,
           concession'.status \in {"none", "DRAFT", "APPROVED"}, concession'.lapsed \in BOOLEAN,
           DOMAIN concession' = {"status", "requester", "approver", "lapsed"},
           concession.status = "APPROVED" => concession'.status = "APPROVED",
           concession.lapsed => concession'.lapsed,
           approving' # {} => concession'.status # "none"
    PROVE  PaperInv'
<1>1. FinalRuns \subseteq FinalRuns'
  BY DEF FinalRuns, ApprovedStays
<1>2. /\ releasing' = releasing /\ releases' = releases /\ drafting' = drafting /\ certificates' = certificates
  BY DEF paperVars
<1>3. PaperTyped'
  BY <1>2 DEF PaperInv, PaperTyped
<1>4. ReleasesStand'
  BY <1>1, <1>2 DEF PaperInv, ReleasesStand
<1>5. CertificatesStand'
  BY <1>2 DEF PaperInv, CertificatesStand
<1> QED
  BY <1>2, <1>3, <1>4, <1>5 DEF PaperInv

LEMMA PaperUntouched ==
    ASSUME PaperInv, UNCHANGED paperVars, UNCHANGED concessionVars,
           job'[Order] = "FINAL_RELEASE" <=> job[Order] = "FINAL_RELEASE", ApprovedStays
    PROVE  PaperInv'
BY PaperStays DEF PaperInv, PaperTyped, concessionVars

LEMMA FloorUntouched ==
    ASSUME FloorInv, UNCHANGED floorVars
    PROVE  FloorInv'
BY DEF FloorInv, FloorTypeOK, MachineAgrees, FinishedIsInspected, Running, OperationsOf, floorVars

LEMMA InspectionUntouched ==
    ASSUME InspectionInv, UNCHANGED inspectionVars
    PROVE  InspectionInv' /\ ApprovedStays
<1>1. plan' = plan /\ run' = run /\ measurement' = measurement
  BY DEF inspectionVars
<1>2. \A r \in Runs : Stands(r)
  BY StandsEach DEF InspectionInv
<1>3. \A r \in Runs : Stands(r)'
  BY <1>1, <1>2, UntouchedStands
<1>4. InspectionsStand'
  BY <1>3 DEF InspectionsStand, Stands
<1> QED
  BY <1>1, <1>4 DEF InspectionInv, ApprovedStays

LEMMA QualityInitInv ==
    ASSUME QualityInit
    PROVE  QualityInv
<1>1. FloorInv /\ job[Order] # "FINAL_RELEASE"
  BY FloorInitInv, QualityAssumption, FloorAssumption DEF QualityInit
<1>2. InspectionInv
  <2>1. /\ plan = [p \in Plans |-> [status |-> "none", has |-> {}]]
        /\ run = [r \in Runs |-> NoRun]
        /\ measurement = [r \in Runs |-> [k \in Keys |-> NotMeasured]]
    BY DEF QualityInit
  <2>2. NoRun \in [status : {"none", "OPEN", "PASS", "FAIL", "APPROVED"}, plan : Plans \cup {0},
                         by : People \cup {Nobody}, approver : People \cup {Nobody}] /\ NoRun.status = "none"
    BY DEF NoRun
  <2>3. NotMeasured \in [result : {"NONE", "PASS", "FAIL"}, by : People \cup {Nobody}]
    BY DEF NotMeasured
  <2>4. InspectionsStand
    BY <2>1, <2>2 DEF InspectionsStand
  <2> QED
    BY <2>1, <2>2, <2>3, <2>4 DEF InspectionInv
<1>3. PaperInv
  <2>1. /\ releases = <<>> /\ certificates = <<>> /\ approving = {}
        /\ concession = [status |-> "none", requester |-> Nobody, approver |-> Nobody, lapsed |-> FALSE]
        /\ releasing = [active |-> FALSE, conceded |-> FALSE]
        /\ drafting = [c \in Certifiers |-> [ready |-> FALSE, runs |-> {}, conceded |-> FALSE]]
    BY DEF QualityInit, NotReleasing, NoDraft
  <2>2. PaperTyped
    BY <2>1 DEF PaperTyped
  <2>3. ReleasesStand /\ CertificatesStand
    BY <2>1, <1>1 DEF ReleasesStand, CertificatesStand
  <2> QED
    BY <2>1, <2>2, <2>3 DEF PaperInv
<1> QED
  BY <1>1, <1>2, <1>3 DEF QualityInv, QualityInit

LEMMA ConcessionStepInv ==
    ASSUME QualityInv, NEW u, CreateConcession(u) \/ CheckConcession(u) \/ ApproveConcession(u) \/ Lapse
    PROVE  QualityInv'
<1>1. /\ UNCHANGED <<floorVars, inspectionVars, gateVars, paperVars>>
      /\ concession'.status \in {"none", "DRAFT", "APPROVED"} /\ concession'.lapsed \in BOOLEAN
      /\ DOMAIN concession' = {"status", "requester", "approver", "lapsed"}
      /\ concession.status = "APPROVED" => concession'.status = "APPROVED"
      /\ concession.lapsed => concession'.lapsed
      /\ approving' # {} => concession'.status # "none"
  BY DEF CreateConcession, CheckConcession, ApproveConcession, Lapse, QualityInv, PaperInv, PaperTyped
<1>2. FloorInv' /\ InspectionInv' /\ ApprovedStays
  BY <1>1, FloorUntouched, InspectionUntouched DEF QualityInv
<1>3. PaperInv'
  BY <1>1, <1>2, PaperStays DEF QualityInv, floorVars
<1> QED
  BY <1>1, <1>2, <1>3 DEF QualityInv, gateVars

LEMMA GateStepInv ==
    ASSUME QualityInv, UNCHANGED <<floorVars, inspectionVars, concessionVars, paperVars>>, held' \in BOOLEAN
    PROVE  QualityInv'
<1>1. FloorInv' /\ InspectionInv' /\ ApprovedStays
  BY FloorUntouched, InspectionUntouched DEF QualityInv
<1>2. PaperInv'
  BY <1>1, PaperUntouched DEF QualityInv, floorVars
<1> QED
  BY <1>1, <1>2 DEF QualityInv

\* A release is decided while there is none and committed once.
LEMMA ReleaseStepInv ==
    ASSUME QualityInv, BeginRelease \/ AbandonRelease \/ \E r \in Runs : CommitRelease(r)
    PROVE  QualityInv'
<1>i. FloorInv /\ InspectionInv /\ PaperInv /\ PaperTyped /\ ReleasesStand /\ CertificatesStand
  BY DEF QualityInv, PaperInv
<1>1. CASE BeginRelease \/ AbandonRelease
  <2>1. /\ UNCHANGED <<floorVars, inspectionVars, gateVars, concessionVars, releases, drafting, certificates>>
        /\ releasing' \in [active : BOOLEAN, conceded : BOOLEAN]
        /\ releasing'.active => Len(releases) = 0 /\ (releasing'.conceded => concession.status = "APPROVED")
    <3>1. CASE BeginRelease
      <4>1. Conceded \in BOOLEAN /\ (Conceded => concession.status = "APPROVED")
        BY <1>i DEF PaperTyped, Conceded
      <4>2. /\ UNCHANGED <<floorVars, inspectionVars, gateVars, concessionVars, releases, drafting, certificates>>
            /\ releasing' = [active |-> TRUE, conceded |-> Conceded] /\ Len(releases) = 0
        BY <3>1 DEF BeginRelease, Unreleased
      <4> QED
        BY <4>1, <4>2
    <3>2. CASE AbandonRelease
      BY <3>2 DEF AbandonRelease, NotReleasing
    <3> QED
      BY <1>1, <3>1, <3>2
  <2>2. FloorInv' /\ InspectionInv' /\ ApprovedStays
    BY <1>i, <2>1, FloorUntouched, InspectionUntouched
  <2>3. PaperTyped'
    BY <1>i, <2>1 DEF PaperTyped, concessionVars
  <2>4. ReleasesStand' /\ CertificatesStand'
    BY <1>i, <2>1 DEF ReleasesStand, CertificatesStand, FinalRuns, floorVars, inspectionVars, concessionVars
  <2>5. PaperInv'
    BY <1>i, <2>1, <2>3, <2>4 DEF PaperInv, concessionVars
  <2> QED
    BY <2>1, <2>2, <2>5 DEF QualityInv, gateVars
<1>2. CASE \E r \in Runs : CommitRelease(r)
  <2>1. PICK r \in Runs : CommitRelease(r)
    BY <1>2
  <2> DEFINE n == [run |-> r, conceded |-> releasing.conceded]
  <2>2. /\ releasing.active /\ r \in FinalRuns /\ releases' = Append(releases, n)
        /\ job' = [job EXCEPT ![Order] = "FINAL_RELEASE"] /\ releasing' = [active |-> FALSE, conceded |-> FALSE]
        /\ UNCHANGED <<operation, machine, inspectionVars, gateVars, concessionVars, drafting, certificates>>
    BY <2>1 DEF CommitRelease, NotReleasing
  <2>3. n \in [run : Runs, conceded : BOOLEAN] /\ n.run = r /\ n.conceded = releasing.conceded
    BY <1>i DEF PaperTyped
  <2> HIDE DEF n
  <2>4. Len(releases) = 0
    BY <1>i, <2>2 DEF PaperInv
  <2>5. /\ releases' \in Seq([run : Runs, conceded : BOOLEAN]) /\ Len(releases') = 1 /\ releases'[1] = n
    BY <1>i, <2>2, <2>3, <2>4, AppendProperties DEF PaperTyped
  <2>6. InspectionInv' /\ ApprovedStays
    BY <1>i, <2>2, InspectionUntouched
  <2>7. job \in [Jobs -> {"READY", "IN_PRODUCTION", "INSPECTION", "FINAL_RELEASE"}] /\ job'[Order] = "FINAL_RELEASE"
    BY <1>i, <2>2, QualityAssumption, FloorAssumption DEF FloorInv, FloorTypeOK
  <2>8. FloorInv'
    <3>1. FloorTypeOK'
      BY <1>i, <2>2, <2>7 DEF FloorInv, FloorTypeOK
    <3>2. MachineAgrees'
      BY <1>i, <2>2 DEF FloorInv, MachineAgrees, Running
    <3>3. \A j \in Jobs : job'[j] # "FINAL_RELEASE" => job'[j] = job[j] /\ job[j] # "FINAL_RELEASE"
      BY <2>2, <2>7, QualityAssumption, FloorAssumption
    <3>4. FinishedIsInspected'
      BY <1>i, <3>3, <2>2 DEF FloorInv, FinishedIsInspected, OperationsOf
    <3>5. \A o \in Operations : o[1] \in Jobs
      BY DEF Operations
    <3>6. \A o \in Operations : job'[o[1]] = "READY" => operation'[o].status = "READY"
      BY <1>i, <3>3, <3>5, <2>2 DEF FloorInv
    <3> QED
      BY <3>1, <3>2, <3>4, <3>6 DEF FloorInv
  <2>9. PaperTyped'
    BY <1>i, <2>2, <2>5 DEF PaperTyped, concessionVars
  <2>10. r \in FinalRuns'
    BY <2>2, <2>6 DEF FinalRuns, ApprovedStays
  <2>11. ReleasesStand'
    BY <2>3, <2>5, <2>7, <2>10 DEF ReleasesStand
  <2>12. certificates = <<>>
    <3>1. Len(certificates) \in Nat /\ ~(Len(certificates) > 0)
      BY <1>i, <2>4, LenProperties DEF PaperInv, PaperTyped
    <3> QED
      BY <3>1, <1>i, EmptySeq DEF PaperTyped
  <2>13. CertificatesStand'
    BY <2>2, <2>12 DEF CertificatesStand
  <2>14. \A c \in Certifiers : ~drafting[c].ready
    BY <1>i, <2>4 DEF PaperInv
  <2>15. PaperInv'
    BY <1>i, <2>2, <2>3, <2>5, <2>9, <2>11, <2>12, <2>13, <2>14 DEF PaperInv, concessionVars
  <2> QED
    BY <2>2, <2>6, <2>8, <2>15 DEF QualityInv, gateVars
<1> QED
  BY <1>1, <1>2

\* A draft is of what is there when it is read, and one of them is written.
LEMMA CertificateStepInv ==
    ASSUME QualityInv, NEW c \in Certifiers, ReadCertificate(c) \/ WriteCertificate(c)
    PROVE  QualityInv'
<1>i. FloorInv /\ InspectionInv /\ PaperInv /\ PaperTyped /\ ReleasesStand /\ CertificatesStand
  BY DEF QualityInv, PaperInv
<1>l. Len(releases) \in Nat /\ Len(certificates) \in Nat
  BY <1>i, LenProperties DEF PaperTyped
<1>1. CASE ReadCertificate(c)
  <2>0. Len(releases) = 1
    <3>1. Len(releases) > 0
      BY <1>1 DEF ReadCertificate
    <3>2. Len(releases) <= 1
      BY <1>i DEF ReleasesStand
    <3>3. \A k \in Nat : k > 0 /\ k <= 1 => k = 1
      OBVIOUS
    <3> QED
      BY <3>1, <3>2, <3>3, <1>l
  <2> DEFINE n == [ready |-> TRUE, runs |-> {r \in Runs : run[r].status = "APPROVED"}, conceded |-> Conceded]
  <2>1. /\ Len(releases) > 0 /\ drafting' = [drafting EXCEPT ![c] = n]
        /\ UNCHANGED <<floorVars, inspectionVars, gateVars, concessionVars, releasing, releases, certificates>>
    BY <1>1 DEF ReadCertificate
  <2>2. n \in [ready : BOOLEAN, runs : SUBSET Runs, conceded : BOOLEAN]
    BY <1>i DEF PaperTyped, Conceded
  <2>3. Len(releases) = 1
    BY <2>0
  <2>4. releases[1].run \in FinalRuns
    BY <2>3, <1>i DEF ReleasesStand
  <2>5. /\ n.ready /\ releases[1].run \in n.runs /\ n.conceded = Conceded
    BY <2>4 DEF FinalRuns
  <2>6. releases[1].conceded => n.conceded \/ concession.lapsed
    BY <2>3, <2>5, <1>i DEF PaperInv, Conceded
  <2> HIDE DEF n
  <2>7. FloorInv' /\ InspectionInv' /\ ApprovedStays
    BY <1>i, <2>1, FloorUntouched, InspectionUntouched
  <2>8. PaperTyped'
    BY <1>i, <2>1, <2>2 DEF PaperTyped, concessionVars
  <2>9. ReleasesStand' /\ CertificatesStand'
    BY <1>i, <2>1 DEF ReleasesStand, CertificatesStand, FinalRuns, floorVars, inspectionVars, concessionVars
  <2>10. \A d \in Certifiers : drafting'[d].ready =>
          /\ Len(releases) = 1
          /\ releases[1].run \in drafting'[d].runs
          /\ releases[1].conceded => drafting'[d].conceded \/ concession.lapsed
    BY <2>1, <2>3, <2>5, <2>6, <1>i DEF PaperInv, PaperTyped
  <2>11. PaperInv'
    BY <1>i, <2>1, <2>8, <2>9, <2>10 DEF PaperInv, concessionVars
  <2> QED
    BY <2>1, <2>7, <2>11 DEF QualityInv, gateVars
<1>2. CASE WriteCertificate(c)
  <2> DEFINE n == [runs |-> drafting[c].runs, conceded |-> drafting[c].conceded]
             e == [ready |-> FALSE, runs |-> {}, conceded |-> FALSE]
  <2>1. /\ drafting[c].ready /\ drafting' = [drafting EXCEPT ![c] = e]
        /\ certificates' = IF certificates # <<>> THEN certificates ELSE Append(certificates, n)
        /\ UNCHANGED <<floorVars, inspectionVars, gateVars, concessionVars, releasing, releases>>
    BY <1>2 DEF WriteCertificate, Issue, NoDraft
  <2>2. /\ n \in [runs : SUBSET Runs, conceded : BOOLEAN] /\ n.runs = drafting[c].runs /\ n.conceded = drafting[c].conceded
        /\ e \in [ready : BOOLEAN, runs : SUBSET Runs, conceded : BOOLEAN] /\ ~e.ready
    BY <1>i DEF PaperTyped
  <2> HIDE DEF n, e
  <2>3. /\ Len(releases) = 1 /\ releases[1].run \in n.runs
        /\ releases[1].conceded => n.conceded \/ concession.lapsed
    BY <2>1, <2>2, <1>i DEF PaperInv
  <2>4. \/ certificates' = certificates
        \/ certificates' \in Seq([runs : SUBSET Runs, conceded : BOOLEAN]) /\ Len(certificates') = 1 /\ certificates'[1] = n
    <3>1. CASE certificates # <<>>
      BY <3>1, <2>1
    <3>2. CASE certificates = <<>>
      BY <3>2, <2>1, <2>2, <1>i, AppendProperties DEF PaperTyped
    <3> QED
      BY <3>1, <3>2
  <2>7. FloorInv' /\ InspectionInv' /\ ApprovedStays
    BY <1>i, <2>1, FloorUntouched, InspectionUntouched
  <2>8. PaperTyped'
    BY <1>i, <2>1, <2>2, <2>4 DEF PaperTyped, concessionVars
  <2>9. ReleasesStand'
    BY <1>i, <2>1 DEF ReleasesStand, FinalRuns, floorVars, inspectionVars
  <2>10. CertificatesStand'
    <3>1. CASE certificates' = certificates
      BY <3>1, <1>i, <2>1 DEF CertificatesStand, concessionVars
    <3>2. CASE Len(certificates') = 1 /\ certificates'[1] = n
      BY <3>2, <2>1, <2>3 DEF CertificatesStand, concessionVars
    <3> QED
      BY <3>1, <3>2, <2>4
  <2>11. \A d \in Certifiers : drafting'[d].ready => d # c /\ drafting'[d] = drafting[d]
    BY <2>1, <2>2, <1>i DEF PaperTyped
  <2>12. PaperInv'
    BY <1>i, <2>1, <2>3, <2>8, <2>9, <2>10, <2>11 DEF PaperInv, concessionVars
  <2> QED
    BY <2>1, <2>7, <2>12 DEF QualityInv, gateVars
<1> QED
  BY <1>1, <1>2

LEMMA QualityStep ==
    ASSUME QualityInv, [QualityNext]_<<floorVars, qualityVars>>
    PROVE  QualityInv'
<1>1. CASE UNCHANGED <<floorVars, qualityVars>>
  BY <1>1, GateStepInv DEF qualityVars, inspectionVars, concessionVars, paperVars, QualityInv
<1>2. CASE Inspection
  <2>1. UNCHANGED <<floorVars, gateVars, concessionVars, paperVars>>
    BY <1>2 DEF Inspection, CreatePlan, ApprovePlan, AddCharacteristic, CompleteRun, ApproveRun, CreateRun,
                RecordMeasurement, Untouched
  <2>2. FloorInv' /\ InspectionInv' /\ ApprovedStays
    BY <1>2, <2>1, FloorUntouched, InspectionStepInv DEF QualityInv
  <2>3. PaperInv'
    BY <2>1, <2>2, PaperUntouched DEF QualityInv, floorVars
  <2> QED
    BY <2>1, <2>2, <2>3 DEF QualityInv, gateVars
<1>3. CASE Lapse \/ \E u \in People : CreateConcession(u) \/ CheckConcession(u) \/ ApproveConcession(u)
  BY <1>3, ConcessionStepInv
<1>4. CASE PlaceHold \/ ReleaseHold
  BY <1>4, GateStepInv DEF PlaceHold, ReleaseHold
<1>5. CASE \E contained, hold \in BOOLEAN : CreateNcr(contained, hold)
  <2>1. PICK contained \in BOOLEAN, hold \in BOOLEAN : CreateNcr(contained, hold)
    BY <1>5
  <2>2. UNCHANGED <<floorVars, inspectionVars, concessionVars, paperVars>> /\ held' = (held \/ hold)
    BY <2>1 DEF CreateNcr
  <2> QED
    BY <2>2, GateStepInv DEF QualityInv
<1>6. CASE \E m \in Movers : MoveNcr(m) \/ \E target \in UNION {Transitions[s] : s \in DOMAIN Transitions} : CheckNcr(m, target)
  <2>1. UNCHANGED <<floorVars, inspectionVars, concessionVars, paperVars>> /\ held' = held
    BY <1>6 DEF MoveNcr, CheckNcr
  <2> QED
    BY <2>1, GateStepInv DEF QualityInv
<1>7. CASE BeginRelease \/ AbandonRelease \/ \E r \in Runs : CommitRelease(r)
  BY <1>7, ReleaseStepInv
<1>8. CASE \E c \in Certifiers : ReadCertificate(c) \/ WriteCertificate(c)
  BY <1>8, CertificateStepInv
<1>9. CASE \E o \in Operations : FloorStep(o) /\ (o[1] = Order => JobIsFree) /\ UNCHANGED qualityVars
  <2>1. FloorInv' /\ JobsMove /\ UNCHANGED qualityVars
    BY <1>9, FloorStepInv DEF QualityInv
  <2>2. UNCHANGED inspectionVars /\ UNCHANGED concessionVars /\ UNCHANGED paperVars /\ held' = held
    BY <2>1 DEF qualityVars, inspectionVars, concessionVars, paperVars
  <2>3. InspectionInv' /\ ApprovedStays
    BY <2>2, InspectionUntouched DEF QualityInv
  <2>4. PaperInv'
    BY <2>1, <2>2, <2>3, PaperUntouched, QualityAssumption, FloorAssumption DEF QualityInv, JobsMove
  <2> QED
    BY <2>1, <2>2, <2>3, <2>4 DEF QualityInv
<1> QED
  BY <1>1, <1>2, <1>3, <1>4, <1>5, <1>6, <1>7, <1>8, <1>9 DEF QualityNext

LEMMA QualityInvHolds ==
    ASSUME QualityInv
    PROVE  QualityTypeOK /\ QualityHolds
BY DEF QualityInv, FloorInv, InspectionInv, PaperInv, QualityTypeOK, QualityHolds

-----------------------------------------------------------------------------
(* Controlled records.                                                     *)

Marks == [revision : 1..MaxFormRevisions, values : Values, by : Authors]

\* A record exists from its first revision on; its history has one for each.
FormsInv ==
    /\ form \in (SUBSET Fields) \cup {NoForm}
    /\ record \in [status : DOMAIN Workflow, revision : 0..MaxFormRevisions, values : Values,
                   preparer : Authors \cup {Empty}, approver : Authors \cup {Empty}, imported : BOOLEAN]
    /\ revisions \in Seq(Values) /\ shown \in Values
    /\ \A i \in DOMAIN signatures : signatures[i] \in Marks
    /\ record.status = "none" => record = NoRecord
    /\ record.status # "none" => record.revision \in 1..MaxFormRevisions
    /\ Len(revisions) = record.revision
    /\ record.revision > 0 => revisions[record.revision] = record.values
    /\ ApprovalIsSigned /\ ShownIsCurrent

\* What a step does to a record that is settled.
RecordStands ==
    record.status \in Settled \cup {"VOID"} =>
        /\ record'.values = record.values /\ record'.approver = record.approver
        /\ revisions' = revisions /\ signatures' = signatures

LEMMA FormStatuses ==
    DOMAIN Workflow = {"none", "DRAFT", "REJECTED", "SUBMITTED", "UNDER_REVIEW", "APPROVED", "CLOSED", "SUPERSEDED", "VOID"}
BY DEF Workflow

LEMMA FormsInitInv == FormsInit => FormsInv
<1> SUFFICES ASSUME FormsInit PROVE FormsInv
  OBVIOUS
<1>1. Blank \in Values
  BY DEF Blank, Values
<1>2. revisions \in Seq(Values) /\ Len(revisions) = 0
  BY EmptySeq DEF FormsInit
<1>3. NoRecord \in [status : DOMAIN Workflow, revision : 0..MaxFormRevisions, values : Values,
                     preparer : Authors \cup {Empty}, approver : Authors \cup {Empty}, imported : BOOLEAN]
  BY <1>1, FormStatuses, FormsAssumption DEF NoRecord
<1>4. record = NoRecord /\ NoRecord.status = "none" /\ NoRecord.revision = 0 /\ NoRecord.values = Blank
  BY DEF FormsInit, NoRecord
<1>5. ApprovalIsSigned /\ \A i \in DOMAIN signatures : signatures[i] \in Marks
  BY <1>4 DEF FormsInit, ApprovalIsSigned, Settled
<1>6. ShownIsCurrent
  BY <1>4 DEF ShownIsCurrent, Blank
<1>7. record \in [status : DOMAIN Workflow, revision : 0..MaxFormRevisions, values : Values,
                  preparer : Authors \cup {Empty}, approver : Authors \cup {Empty}, imported : BOOLEAN]
  BY <1>3, <1>4
<1>8. /\ record.status = "none" => record = NoRecord
      /\ record.status # "none" => record.revision \in 1..MaxFormRevisions
      /\ Len(revisions) = record.revision
      /\ record.revision > 0 => revisions[record.revision] = record.values
  BY <1>2, <1>4
<1>9. form \in (SUBSET Fields) \cup {NoForm} /\ shown \in Values
  BY <1>1 DEF FormsInit
<1> QED
  BY <1>2, <1>5, <1>6, <1>7, <1>8, <1>9 DEF FormsInv

LEMMA KeptInHistory ==
    ASSUME FormsInv, NEW values \in Values, Keep(values)
    PROVE  /\ revisions' \in Seq(Values) /\ Len(revisions') = record.revision + 1
           /\ revisions'[record.revision + 1] = values
<1>1. revisions \in Seq(Values) /\ Len(revisions) = record.revision /\ revisions' = Append(revisions, values)
  BY DEF FormsInv, Keep
<1> QED
  BY <1>1, AppendProperties

LEMMA SyncedWithRecord ==
    ASSUME FormsInv, NEW values \in Values, Sync(values)
    PROVE  shown' \in Values /\ \A f \in Fields : values[f] # Empty => shown'[f] = values[f]
<1>1. shown' = [f \in Fields |-> IF values[f] = Empty THEN shown[f] ELSE values[f]]
  BY DEF Sync
<1>2. shown \in [Fields -> Inputs \cup {Empty}] /\ values \in [Fields -> Inputs \cup {Empty}]
  BY DEF FormsInv, Values
<1>3. shown' \in [Fields -> Inputs \cup {Empty}]
  BY <1>1, <1>2
<1> QED
  BY <1>1, <1>3 DEF Values

LEMMA FormsStep ==
    ASSUME FormsInv, [FormsNext]_formVars
    PROVE  FormsInv' /\ RecordStands
<1>1. CASE UNCHANGED formVars
  BY <1>1 DEF formVars, FormsInv, RecordStands, ApprovalIsSigned, ShownIsCurrent, Signature
<1>2. CASE \E required \in SUBSET Fields : PublishForm(required)
  BY <1>2 DEF PublishForm, FormsInv, RecordStands, ApprovalIsSigned, ShownIsCurrent, Signature
<1>3. CASE \E u \in Authors, values \in Values : CreateRecord(u, values) \/ ImportRecord(u, values)
  <2>1. PICK u \in Authors, values \in Values : CreateRecord(u, values) \/ ImportRecord(u, values)
    BY <1>3
  <2>2. PICK imported \in BOOLEAN :
           /\ record = NoRecord /\ record' = Created(u, values, imported)
           /\ Keep(values) /\ UNCHANGED <<form, signatures>>
           /\ IF imported THEN shown' = shown ELSE Sync(values)
    BY <2>1 DEF CreateRecord, ImportRecord
  <2>3. revisions' \in Seq(Values) /\ Len(revisions') = 1 /\ revisions'[1] = values
    <3>1. record.revision = 0
      BY <2>2 DEF NoRecord
    <3> QED
      BY <2>2, <3>1, KeptInHistory
  <2>4. shown' \in Values /\ (~imported => \A f \in Fields : values[f] # Empty => shown'[f] = values[f])
    BY <2>2, SyncedWithRecord DEF FormsInv
  <2>5. /\ record' \in [status : DOMAIN Workflow, revision : 0..MaxFormRevisions, values : Values,
                        preparer : Authors \cup {Empty}, approver : Authors \cup {Empty}, imported : BOOLEAN]
        /\ record'.status = "DRAFT" /\ record'.revision = 1 /\ record'.values = values /\ record'.imported = imported
    BY <2>2, FormsAssumption DEF Created, Workflow
  <2>6. record.status = "none" /\ signatures = << >>
    BY <2>2 DEF NoRecord, FormsInv, ApprovalIsSigned, Settled
  <2>7. ApprovalIsSigned' /\ RecordStands
    BY <2>2, <2>5, <2>6 DEF ApprovalIsSigned, RecordStands, Settled
  <2>8. ShownIsCurrent'
    BY <2>4, <2>5 DEF ShownIsCurrent
  <2> QED
    BY <2>2, <2>3, <2>4, <2>5, <2>7, <2>8, FormsAssumption DEF FormsInv, Marks
<1>4. CASE \E values \in Values : UpdateRecord(values)
  <2>1. PICK values \in Values : UpdateRecord(values)
    BY <1>4
  <2>2. /\ record.status \in {"DRAFT", "REJECTED"} /\ record.revision < MaxFormRevisions
        /\ record' = [record EXCEPT !.status = "DRAFT", !.revision = @ + 1, !.values = values, !.approver = Empty]
        /\ Keep(values) /\ Sync(values) /\ UNCHANGED <<form, signatures>>
    BY <2>1 DEF UpdateRecord, Editable
  <2>3. record.revision \in 1..MaxFormRevisions /\ signatures = << >>
    BY <2>2 DEF FormsInv, ApprovalIsSigned, Settled
  <2>4. /\ record' \in [status : DOMAIN Workflow, revision : 0..MaxFormRevisions, values : Values,
                        preparer : Authors \cup {Empty}, approver : Authors \cup {Empty}, imported : BOOLEAN]
        /\ record'.status = "DRAFT" /\ record'.revision = record.revision + 1 /\ record'.values = values
    <3>1. record.revision + 1 \in 0..MaxFormRevisions
      BY <2>2, <2>3, FormsAssumption
    <3>2. record \in [status : DOMAIN Workflow, revision : 0..MaxFormRevisions, values : Values,
                      preparer : Authors \cup {Empty}, approver : Authors \cup {Empty}, imported : BOOLEAN]
      BY DEF FormsInv
    <3> QED
      BY <2>2, <3>1, <3>2, FormStatuses
  <2>5. revisions' \in Seq(Values) /\ Len(revisions') = record'.revision /\ revisions'[record'.revision] = record'.values
    BY <2>2, <2>4, KeptInHistory
  <2>6. shown' \in Values /\ ShownIsCurrent'
    BY <2>2, <2>4, SyncedWithRecord DEF ShownIsCurrent
  <2>7. ApprovalIsSigned' /\ RecordStands
    BY <2>2, <2>3, <2>4 DEF ApprovalIsSigned, RecordStands, Settled
  <2>8. record'.revision \in 1..MaxFormRevisions
    BY <2>2, <2>3, <2>4, FormsAssumption
  <2> QED
    BY <2>2, <2>4, <2>5, <2>6, <2>7, <2>8 DEF FormsInv, Marks
<1>5. CASE \E u \in Authors, target \in DOMAIN Workflow : Transition(u, target)
  <2>1. PICK u \in Authors, target \in DOMAIN Workflow : Transition(u, target)
    BY <1>5
  <2> DEFINE approver == IF target = "APPROVED" THEN u ELSE record.approver
  <2>2. /\ target \in Workflow[record.status] /\ (target = "APPROVED" => u # record.preparer)
        /\ signatures' = IF target = "APPROVED" THEN Append(signatures, Signature(u)) ELSE signatures
        /\ UNCHANGED <<form, revisions, shown>>
    BY <2>1 DEF Transition
  <2>3. record' = [record EXCEPT !.status = target, !.approver = approver]
    BY <2>1 DEF Transition
  <2>4. approver \in Authors \cup {Empty}
    BY DEF FormsInv
  <2> HIDE DEF approver
  <2>5. /\ record' \in [status : DOMAIN Workflow, revision : 0..MaxFormRevisions, values : Values,
                        preparer : Authors \cup {Empty}, approver : Authors \cup {Empty}, imported : BOOLEAN]
        /\ record'.status = target /\ record'.approver = approver /\ record'.revision = record.revision
        /\ record'.values = record.values /\ record'.preparer = record.preparer /\ record'.imported = record.imported
    BY <2>3, <2>4 DEF FormsInv
  <2>6. /\ record.status \notin {"none", "VOID", "SUPERSEDED"} /\ target # "none"
        /\ record.status = "APPROVED" => target \in {"CLOSED", "SUPERSEDED"}
        /\ record.status = "CLOSED" => target = "SUPERSEDED"
        /\ target = "APPROVED" => record.status = "UNDER_REVIEW"
        /\ target \in {"CLOSED", "SUPERSEDED"} => record.status \in {"APPROVED", "CLOSED"}
    BY <2>2 DEF FormsInv, Workflow
  <2>7. record.revision \in 1..MaxFormRevisions
    BY <2>6 DEF FormsInv
  <2>8. RecordStands
    BY <2>2, <2>5, <2>6 DEF RecordStands, Settled, approver
  <2>9. ShownIsCurrent'
    BY <2>2, <2>5 DEF FormsInv, ShownIsCurrent
  <2>10. ApprovalIsSigned' /\ \A i \in DOMAIN signatures' : signatures'[i] \in Marks
    <3>1. CASE target = "APPROVED"
      <4>1. signatures = << >>
        BY <2>6, <3>1 DEF FormsInv, ApprovalIsSigned, Settled
      <4>2. signatures' = <<Signature(u)>>
        BY <2>2, <3>1, <4>1
      <4>3. Signature(u) \in Marks
        BY <2>7 DEF Signature, Marks, FormsInv
      <4>4. approver = u /\ u # record.preparer
        BY <2>2, <3>1 DEF approver
      <4>5. [revision |-> record'.revision, values |-> record'.values, by |-> record'.approver] = Signature(u)
        BY <2>5, <4>4 DEF Signature
      <4>6. ApprovalIsSigned'
        BY <2>5, <3>1, <4>2, <4>4, <4>5 DEF ApprovalIsSigned, Settled, Signature
      <4>7. \A i \in DOMAIN signatures' : signatures'[i] \in Marks
        BY <4>2, <4>3
      <4> QED
        BY <4>6, <4>7
    <3>2. CASE target # "APPROVED"
      <4>1. signatures' = signatures /\ record'.approver = record.approver
        BY <2>2, <2>5, <3>2 DEF approver
      <4>2. record'.status \in Settled <=> record.status \in Settled
        BY <2>5, <2>6, <3>2 DEF Settled
      <4>3. Signature(record.approver)' = Signature(record.approver)
        BY <2>5, <4>1 DEF Signature
      <4> QED
        BY <2>5, <4>1, <4>2, <4>3 DEF ApprovalIsSigned, FormsInv
    <3> QED
      BY <3>1, <3>2
  <2> QED
    BY <2>2, <2>5, <2>6, <2>7, <2>9, <2>10, <2>8 DEF FormsInv, Marks
<1> QED
  BY <1>1, <1>2, <1>3, <1>4, <1>5 DEF FormsNext

LEMMA FormsHold ==
    ASSUME FormsInv
    PROVE  FormsTypeOK /\ ApprovalIsSigned /\ HistoryIsComplete /\ ShownIsCurrent
<1>1. HistoryIsComplete
  BY DEF FormsInv, HistoryIsComplete
<1> QED
  BY <1>1 DEF FormsInv, FormsTypeOK, Marks

-----------------------------------------------------------------------------
(* Recovery drills and their remediation.                                  *)

\* What a request has undertaken to write.
Undertakings ==
    [op : {"none", "update", "finalize", "create", "change", "close"}, content : DrillContents,
     item : Items \cup {0}, status : {"none", "DRAFT", "OPEN", "ASSIGNED", "IN_PROGRESS"}]

\* What a request is about to write is what its kind may write.
Writable(w) ==
    /\ w.op = "update" => w.status \in {"DRAFT", "IN_PROGRESS"}
    /\ w.op = "finalize" => w.content \in Outcomes
    /\ w.op = "create" => w.status \in {"OPEN", "ASSIGNED"}
    /\ w.op = "change" => w.status \in {"OPEN", "ASSIGNED", "IN_PROGRESS"}
    /\ w.op \in {"change", "close"} => w.item \in Items

DrillsInv ==
    /\ DrillsTypeOK
    /\ \A c \in Clerks : Writable(clerk[c])
    /\ DecisionIsRecorded /\ ClosureIsRecorded

\* What a step does to what was decided.
DecisionsStand ==
    /\ Final => drill'.by = drill.by /\ drill'.decision = drill.decision
    /\ \A i \in Items : Ended(i) => item'[i].by = item[i].by

LEMMA DrillsInitInv == DrillsInit => DrillsInv
BY DEF DrillsInit, DrillsInv, DrillsTypeOK, Writable, DecisionIsRecorded, ClosureIsRecorded, Final, Ended,
       NoDrill, NoItem, ClerkAtRest, Outcomes, DrillContents

\* A request begins: only what it is about to write is new.
LEMMA DrillsBegin ==
    ASSUME DrillsInv, NEW c \in Clerks, NEW w \in Undertakings, Writable(w), Begin(c, w)
    PROVE  DrillsInv' /\ DecisionsStand
<1>1. clerk' = [clerk EXCEPT ![c] = w] /\ UNCHANGED <<drill, verdicts, item, closures>>
  BY DEF Begin
<1>2. clerk' \in [Clerks -> Undertakings]
  BY <1>1 DEF DrillsInv, DrillsTypeOK, Undertakings
<1>3. DrillsTypeOK'
  BY <1>1, <1>2 DEF DrillsInv, DrillsTypeOK, Undertakings
<1>4. \A d \in Clerks : Writable(clerk'[d])
  BY <1>1 DEF DrillsInv, DrillsTypeOK
<1>5. DecisionIsRecorded' /\ ClosureIsRecorded'
  BY <1>1 DEF DrillsInv, DecisionIsRecorded, ClosureIsRecorded, Final, Ended
<1> QED
  BY <1>1, <1>3, <1>4, <1>5 DEF DrillsInv, DecisionsStand, Writable

\* A request is answered.
LEMMA DrillsReply ==
    ASSUME DrillsInv, NEW c \in Clerks, Reply(c)
    PROVE  clerk' \in [Clerks -> Undertakings] /\ \A d \in Clerks : Writable(clerk'[d])
<1>1. ClerkAtRest \in Undertakings /\ Writable(ClerkAtRest)
  BY DEF ClerkAtRest, Undertakings, DrillContents, Writable
<1>2. clerk \in [Clerks -> Undertakings]
  BY DEF DrillsInv, DrillsTypeOK, Undertakings
<1>3. clerk' = [clerk EXCEPT ![c] = ClerkAtRest]
  BY DEF Reply
<1>4. clerk' \in [Clerks -> Undertakings]
  BY <1>1, <1>2, <1>3
<1>5. \A d \in Clerks : Writable(clerk'[d])
  BY <1>1, <1>2, <1>3 DEF DrillsInv
<1> QED
  BY <1>4, <1>5

LEMMA DrillsStep ==
    ASSUME DrillsInv, [DrillsNext]_drillVars
    PROVE  DrillsInv' /\ DecisionsStand
<1> USE DEF Writable
<1>1. CASE UNCHANGED drillVars
  BY <1>1 DEF drillVars, DrillsInv, DrillsTypeOK, DecisionIsRecorded, ClosureIsRecorded, Final, Ended, DecisionsStand
<1>2. CASE CreateDrill
  BY <1>2 DEF CreateDrill, NoDrill, DrillsInv, DrillsTypeOK, DecisionIsRecorded, ClosureIsRecorded, Final, Ended,
              DecisionsStand, DrillContents
<1>3. CASE \E c \in Clerks, content \in DrillContents, started \in BOOLEAN : ReadForUpdate(c, content, started)
  <2>1. PICK c \in Clerks, content \in DrillContents, started \in BOOLEAN : ReadForUpdate(c, content, started)
    BY <1>3
  <2> DEFINE w == [ClerkAtRest EXCEPT !.op = "update", !.content = content, !.status = IF started THEN "IN_PROGRESS" ELSE "DRAFT"]
  <2>2. w \in Undertakings /\ Writable(w)
    BY DEF ClerkAtRest, Undertakings
  <2> QED
    BY <2>1, <2>2, DrillsBegin DEF ReadForUpdate
<1>4. CASE \E c \in Clerks : ReadForFinalize(c)
  <2>1. PICK c \in Clerks : ReadForFinalize(c)
    BY <1>4
  <2> DEFINE w == [ClerkAtRest EXCEPT !.op = "finalize", !.content = drill.content]
  <2>2. drill.content \in Outcomes
    BY <2>1 DEF ReadForFinalize, DrillsInv, DrillsTypeOK, DrillContents
  <2>3. w \in Undertakings /\ Writable(w)
    BY <2>2 DEF ClerkAtRest, Undertakings, DrillContents
  <2> QED
    BY <2>1, <2>3, DrillsBegin DEF ReadForFinalize
<1>5. CASE \E c \in Clerks, owned \in BOOLEAN : ReadForItem(c, owned)
  <2>1. PICK c \in Clerks, owned \in BOOLEAN : ReadForItem(c, owned)
    BY <1>5
  <2> DEFINE w == [ClerkAtRest EXCEPT !.op = "create", !.status = IF owned THEN "ASSIGNED" ELSE "OPEN"]
  <2>2. w \in Undertakings /\ Writable(w)
    BY DEF ClerkAtRest, Undertakings, DrillContents
  <2> QED
    BY <2>1, <2>2, DrillsBegin DEF ReadForItem
<1>6. CASE \E c \in Clerks, i \in Items : ReadForClose(c, i)
  <2>1. PICK c \in Clerks, i \in Items : ReadForClose(c, i)
    BY <1>6
  <2> DEFINE w == [ClerkAtRest EXCEPT !.op = "close", !.item = i]
  <2>2. w \in Undertakings /\ Writable(w)
    BY DEF ClerkAtRest, Undertakings, DrillContents
  <2> QED
    BY <2>1, <2>2, DrillsBegin DEF ReadForClose
<1>7. CASE \E c \in Clerks, i \in Items, s \in {"OPEN", "ASSIGNED", "IN_PROGRESS"} : ReadForChange(c, i, s)
  <2>1. PICK c \in Clerks, i \in Items, s \in {"OPEN", "ASSIGNED", "IN_PROGRESS"} : ReadForChange(c, i, s)
    BY <1>7
  <2> DEFINE w == [ClerkAtRest EXCEPT !.op = "change", !.item = i, !.status = s]
  <2>2. w \in Undertakings /\ Writable(w)
    BY DEF ClerkAtRest, Undertakings, DrillContents
  <2> QED
    BY <2>1, <2>2, DrillsBegin DEF ReadForChange
<1>8. CASE \E c \in Clerks : WriteUpdate(c)
  <2>1. PICK c \in Clerks : WriteUpdate(c)
    BY <1>8
  <2>2. clerk' \in [Clerks -> Undertakings] /\ \A d \in Clerks : Writable(clerk'[d])
    BY <2>1, DrillsReply DEF WriteUpdate
  <2>3. clerk[c].content \in DrillContents /\ clerk[c].status \in {"DRAFT", "IN_PROGRESS"}
    BY <2>1 DEF DrillsInv, DrillsTypeOK, WriteUpdate
  <2>4. drill'.by = drill.by /\ drill'.decision = drill.decision /\ UNCHANGED <<verdicts, item, closures>>
    BY <2>1 DEF WriteUpdate, DrillsInv, DrillsTypeOK
  <2>5. DrillsTypeOK'
    BY <2>1, <2>2, <2>3 DEF WriteUpdate, DrillsInv, DrillsTypeOK, Undertakings
  <2> QED
    BY <2>2, <2>4, <2>5 DEF DrillsInv, DecisionIsRecorded, ClosureIsRecorded, Final, Ended, DecisionsStand
<1>9. CASE \E c \in Clerks : WriteFinalize(c)
  <2>1. PICK c \in Clerks : WriteFinalize(c)
    BY <1>9
  <2>2. clerk' \in [Clerks -> Undertakings] /\ \A d \in Clerks : Writable(clerk'[d])
    BY <2>1, DrillsReply DEF WriteFinalize
  <2>3. clerk[c].content \in Outcomes
    BY <2>1 DEF DrillsInv, DrillsTypeOK, WriteFinalize
  <2>4. UNCHANGED <<item, closures>> /\ Decide(c)
    BY <2>1 DEF WriteFinalize
  <2>7. drill' \in [status : {"none", "DRAFT", "IN_PROGRESS", "FINALIZED"}, content : DrillContents,
                    decision : Outcomes \cup {"none"}, by : Clerks \cup {NoClerk}]
    BY <2>3, <2>4 DEF Decide, DrillsInv, DrillsTypeOK
  <2>8. verdicts' \subseteq [by : Clerks, decision : Outcomes]
    BY <2>3, <2>4 DEF Decide, DrillsInv, DrillsTypeOK
  <2>5. DrillsTypeOK'
    BY <2>2, <2>4, <2>7, <2>8 DEF DrillsInv, DrillsTypeOK, Undertakings
  <2>6. DecisionIsRecorded' /\ (Final => drill' = drill)
    BY <2>4 DEF Decide, DrillsInv, DecisionIsRecorded, Final, DrillsTypeOK
  <2> QED
    BY <2>2, <2>4, <2>5, <2>6 DEF DrillsInv, ClosureIsRecorded, Ended, DecisionsStand
<1>10. CASE \E c \in Clerks : InsertItem(c)
  <2>1. PICK c \in Clerks : InsertItem(c)
    BY <1>10
  <2>2. clerk' \in [Clerks -> Undertakings] /\ \A d \in Clerks : Writable(clerk'[d])
    BY <2>1, DrillsReply DEF InsertItem
  <2>3. PICK i \in NextItem : item' = [item EXCEPT ![i].status = clerk[c].status]
    BY <2>1 DEF InsertItem
  <2>4. clerk[c].status \in {"OPEN", "ASSIGNED"} /\ i \in Items
    BY <2>1, <2>3 DEF InsertItem, DrillsInv, NextItem
  <2>6. /\ item' \in [Items -> [status : {"none", "OPEN", "ASSIGNED", "IN_PROGRESS", "CLOSED"}, by : Clerks \cup {NoClerk}]]
        /\ \A j \in Items : item'[j].by = item[j].by
    BY <2>3, <2>4 DEF DrillsInv, DrillsTypeOK
  <2>5. DrillsTypeOK' /\ \A j \in Items : item'[j].by = item[j].by
    BY <2>1, <2>2, <2>6 DEF InsertItem, DrillsInv, DrillsTypeOK, Undertakings
  <2> QED
    BY <2>1, <2>2, <2>5 DEF InsertItem, DrillsInv, DecisionIsRecorded, ClosureIsRecorded, Final, Ended, DecisionsStand
<1>11. CASE \E c \in Clerks : WriteChange(c)
  <2>1. PICK c \in Clerks : WriteChange(c)
    BY <1>11
  <2>2. clerk' \in [Clerks -> Undertakings] /\ \A d \in Clerks : Writable(clerk'[d])
    BY <2>1, DrillsReply DEF WriteChange
  <2>4. clerk[c].status \in {"OPEN", "ASSIGNED", "IN_PROGRESS"} /\ clerk[c].item \in Items
    BY <2>1 DEF WriteChange, DrillsInv
  <2>5. DrillsTypeOK' /\ \A j \in Items : item'[j].by = item[j].by
    BY <2>1, <2>2, <2>4 DEF WriteChange, DrillsInv, DrillsTypeOK, Undertakings
  <2> QED
    BY <2>1, <2>2, <2>5 DEF WriteChange, DrillsInv, DecisionIsRecorded, ClosureIsRecorded, Final, Ended, DecisionsStand
<1>12. CASE \E c \in Clerks : WriteClose(c)
  <2>1. PICK c \in Clerks : WriteClose(c)
    BY <1>12
  <2>2. clerk' \in [Clerks -> Undertakings] /\ \A d \in Clerks : Writable(clerk'[d])
    BY <2>1, DrillsReply DEF WriteClose
  <2> DEFINE i == clerk[c].item
  <2>4. i \in Items
    BY <2>1 DEF WriteClose, DrillsInv
  <2>5. /\ item' = IF Ended(i) THEN item ELSE [item EXCEPT ![i] = [status |-> "CLOSED", by |-> c]]
        /\ closures' = [closures EXCEPT ![i] = @ \cup {c}]
        /\ UNCHANGED <<drill, verdicts>>
    BY <2>1 DEF WriteClose
  <2> HIDE DEF i
  <2>9. item' \in [Items -> [status : {"none", "OPEN", "ASSIGNED", "IN_PROGRESS", "CLOSED"}, by : Clerks \cup {NoClerk}]]
    BY <2>4, <2>5 DEF DrillsInv, DrillsTypeOK
  <2>10. closures' \in [Items -> SUBSET Clerks]
    BY <2>4, <2>5 DEF DrillsInv, DrillsTypeOK
  <2>6. DrillsTypeOK'
    BY <2>2, <2>5, <2>9, <2>10 DEF DrillsInv, DrillsTypeOK, Undertakings
  <2>7. \A j \in Items : Ended(j) => item'[j] = item[j]
    BY <2>4, <2>5 DEF DrillsInv, DrillsTypeOK
  <2>8. ClosureIsRecorded'
    BY <2>4, <2>5 DEF DrillsInv, DrillsTypeOK, ClosureIsRecorded, Ended
  <2> QED
    BY <2>2, <2>5, <2>6, <2>7, <2>8 DEF DrillsInv, DecisionIsRecorded, Final, DecisionsStand
<1> QED
  BY <1>1, <1>2, <1>3, <1>4, <1>5, <1>6, <1>7, <1>8, <1>9, <1>10, <1>11, <1>12 DEF DrillsNext

-----------------------------------------------------------------------------
(* Deduplication of public submissions.                                    *)

\* A claim on a key, and what becomes of a request.
Claims ==
    [status : {"none", "PROCESSING", "COMPLETED", "FAILED"}, payload : Payloads \cup {NoPayload},
     token : Posts \cup {0}, response : Posts \cup {0}, expires : Nat]
Requested ==
    [at : {"none", "claimed", "running", "completing", "abandoning", "done"},
     payload : Payloads \cup {NoPayload}, since : Nat, accepted : BOOLEAN, replays : Posts \cup {0}]

SubmissionsTyped == claim \in Claims /\ post \in [Posts -> Requested] /\ tick \in Nat

\* Who has acted on the key, is acting on it, or will once it reads its claim.
MayAct(q) ==
    \/ post[q].at \in {"running", "completing", "abandoning"}
    \/ post[q].accepted
    \/ At(q, "claimed") /\ Holds(q)

ClaimIsSound ==
    /\ claim.token = 0 => claim.expires = 0 /\ claim.status = "none" /\ \A q \in Posts : At(q, "none")
    /\ claim.token # 0 =>
          /\ claim.status # "none" /\ ~At(claim.token, "none")
          /\ post[claim.token].payload = claim.payload
          /\ claim.status # "FAILED" => claim.expires = post[claim.token].since + Lifetime
          /\ claim.status = "FAILED" => ~MayAct(claim.token)
          /\ claim.status = "COMPLETED" => claim.response = claim.token /\ post[claim.token].accepted

PostIsSound(q) ==
    /\ post[q].since <= tick
    /\ At(q, "none") => post[q] = NoPost
    /\ post[q].at \in {"claimed", "running", "abandoning"} => ~post[q].accepted
    /\ At(q, "completing") => post[q].accepted

Apart(p, q) == post[p].since + Lifetime <= post[q].since

SubmissionsInv ==
    /\ SubmissionsTyped
    /\ ClaimIsSound
    /\ \A q \in Posts : PostIsSound(q)
    /\ \A q \in Posts : q # claim.token /\ MayAct(q) => claim.token # 0 /\ Apart(q, claim.token)
    /\ \A p, q \in Posts : p # q /\ MayAct(p) /\ MayAct(q) => Apart(p, q) \/ Apart(q, p)
    /\ ReplaysOwnAnswer

LEMMA SubmissionsInitInv == SubmissionsInit => SubmissionsInv
BY SubmissionsAssumption DEF SubmissionsInit, SubmissionsInv, SubmissionsTyped, Claims, Requested, ClaimIsSound, PostIsSound, MayAct, NoPost, At, Holds, ReplaysOwnAnswer

\* A request goes on: it keeps its payload and its time, and nothing that was
\* not about to act becomes so.
LEMMA PostGoesOn ==
    ASSUME SubmissionsInv, NEW q \in Posts, NEW N \in Requested,
           post' = [post EXCEPT ![q] = N], tick' = tick,
           ~At(q, "none"), N.at # "none", N.payload = post[q].payload, N.since = post[q].since,
           post[q].accepted => N.accepted,
           MayAct(q)' => MayAct(q),
           N.at \in {"claimed", "running", "abandoning"} => ~N.accepted,
           N.at = "completing" => N.accepted,
           N.replays # 0 => post[N.replays].accepted /\ post[N.replays].payload = N.payload,
           claim' \in Claims, claim'.token = claim.token,
           ClaimIsSound'
    PROVE  SubmissionsInv'
<1>1. /\ claim \in Claims /\ post \in [Posts -> Requested] /\ tick \in Nat /\ 0 \notin Posts /\ post' \in [Posts -> Requested]
      /\ post'[q] = N /\ \A p \in Posts : p # q => post'[p] = post[p]
  BY SubmissionsAssumption DEF SubmissionsInv, SubmissionsTyped
<1>2. SubmissionsTyped'
  BY <1>1 DEF SubmissionsTyped
<1>3. \A p \in Posts : /\ post'[p].since = post[p].since /\ post'[p].payload = post[p].payload
                       /\ post[p].accepted => post'[p].accepted
                       /\ MayAct(p)' => MayAct(p)
  <2> TAKE p \in Posts
  <2>1. CASE p = q
    BY <1>1, <2>1
  <2>2. CASE p # q
    BY <1>1, <2>2 DEF MayAct, At, Holds
  <2> QED
    BY <2>1, <2>2
<1>4. \A p \in Posts : PostIsSound(p)'
  <2> TAKE p \in Posts
  <2>1. CASE p = q
    BY <1>1, <2>1 DEF SubmissionsInv, PostIsSound, At
  <2>2. CASE p # q
    BY <1>1, <2>2 DEF SubmissionsInv, PostIsSound, At
  <2> QED
    BY <2>1, <2>2
<1>5. \A p \in Posts : p # claim'.token /\ MayAct(p)' => claim'.token # 0 /\ Apart(p, claim.token)'
  <2> SUFFICES ASSUME NEW p \in Posts, p # claim.token, MayAct(p)' PROVE claim.token # 0 /\ Apart(p, claim.token)'
    OBVIOUS
  <2>1. claim.token # 0 /\ Apart(p, claim.token)
    BY <1>3 DEF SubmissionsInv
  <2>2. claim.token \in Posts
    BY <1>1, <2>1 DEF Claims
  <2> QED
    BY <1>3, <2>1, <2>2 DEF Apart
<1>6. \A p, r \in Posts : p # r /\ MayAct(p)' /\ MayAct(r)' => Apart(p, r)' \/ Apart(r, p)'
  BY <1>3 DEF SubmissionsInv, Apart
<1>7. ReplaysOwnAnswer'
  <2> SUFFICES ASSUME NEW p \in Posts, post'[p].replays # 0
               PROVE  post'[post'[p].replays].accepted /\ post'[post'[p].replays].payload = post'[p].payload
    BY DEF ReplaysOwnAnswer
  <2>1. post'[p].replays \in Posts
    BY <1>1 DEF Requested
  <2>2. post[post'[p].replays].accepted /\ post[post'[p].replays].payload = post[p].payload
    <3>1. CASE p = q
      BY <1>1, <3>1
    <3>2. CASE p # q
      BY <1>1, <3>2 DEF SubmissionsInv, ReplaysOwnAnswer
    <3> QED
      BY <3>1, <3>2
  <2> QED
    BY <1>3, <2>1, <2>2
<1> QED
  BY <1>2, <1>4, <1>5, <1>6, <1>7 DEF SubmissionsInv, Apart

\* ... and leaves the claim alone.
LEMMA PostGoesOnAlone ==
    ASSUME SubmissionsInv, NEW q \in Posts, NEW N \in Requested,
           post' = [post EXCEPT ![q] = N], UNCHANGED <<claim, tick>>,
           ~At(q, "none"), N.at # "none", N.payload = post[q].payload, N.since = post[q].since,
           post[q].accepted => N.accepted,
           MayAct(q)' => MayAct(q),
           N.at \in {"claimed", "running", "abandoning"} => ~N.accepted,
           N.at = "completing" => N.accepted,
           N.replays # 0 => post[N.replays].accepted /\ post[N.replays].payload = N.payload
    PROVE  SubmissionsInv'
<1>1. /\ claim \in Claims /\ post \in [Posts -> Requested] /\ 0 \notin Posts
      /\ post'[q] = N /\ \A p \in Posts : p # q => post'[p] = post[p]
      /\ ClaimIsSound
  BY SubmissionsAssumption DEF SubmissionsInv, SubmissionsTyped
<1>2. claim.token # 0
  BY <1>1 DEF ClaimIsSound
<1>3. claim.token \in Posts
  BY <1>1, <1>2 DEF Claims
<1>4. /\ post'[claim.token].at # "none" /\ post'[claim.token].payload = post[claim.token].payload
      /\ post'[claim.token].since = post[claim.token].since
      /\ post[claim.token].accepted => post'[claim.token].accepted
      /\ MayAct(claim.token)' => MayAct(claim.token)
  <2>1. CASE claim.token = q
    BY <1>1, <2>1
  <2>2. CASE claim.token # q
    <3>1. post'[claim.token] = post[claim.token]
      BY <1>1, <1>3, <2>2
    <3> QED
      BY <1>1, <1>2, <3>1 DEF ClaimIsSound, At, MayAct, Holds
  <2> QED
    BY <2>1, <2>2
<1>5. ClaimIsSound'
  BY <1>1, <1>2, <1>4 DEF ClaimIsSound, At
<1> QED
  BY <1>1, <1>5, PostGoesOn

LEMMA ClaimStep ==
    ASSUME SubmissionsInv, NEW q \in Posts, NEW payload \in Payloads, Claim(q, payload)
    PROVE  SubmissionsInv'
<1> DEFINE N == [NoPost EXCEPT !.at = "claimed", !.payload = payload, !.since = tick]
<1>1. /\ claim \in Claims /\ post \in [Posts -> Requested] /\ tick \in Nat /\ ClaimIsSound
      /\ Posts \subseteq Nat /\ 0 \notin Posts /\ Lifetime \in Nat
  BY SubmissionsAssumption DEF SubmissionsInv, SubmissionsTyped
<1>2. /\ At(q, "none") /\ post' = [post EXCEPT ![q] = N] /\ tick' = tick
      /\ claim' = IF Expired
                  THEN [status |-> "PROCESSING", payload |-> payload, token |-> q, response |-> 0, expires |-> tick + Lifetime]
                  ELSE claim
  BY DEF Claim
<1>3. /\ N \in Requested /\ N.at = "claimed" /\ N.payload = payload /\ N.since = tick /\ ~N.accepted /\ N.replays = 0
  BY <1>1 DEF NoPost, Requested
<1> HIDE DEF N
<1>4. /\ post' \in [Posts -> Requested] /\ post'[q] = N /\ \A p \in Posts : p # q => post'[p] = post[p]
  BY <1>1, <1>2, <1>3
<1>5. claim.token # q
  BY <1>1, <1>2 DEF ClaimIsSound
<1>6. ~MayAct(q) /\ \A p \in Posts : PostIsSound(p)
  <2>1. \A p \in Posts : PostIsSound(p)
    BY DEF SubmissionsInv
  <2>2. post[q].at = "none" /\ post[q] = NoPost
    BY <1>2, <2>1 DEF PostIsSound, At
  <2>3. ~post[q].accepted
    BY <2>2 DEF NoPost
  <2> QED
    BY <2>1, <2>2, <2>3 DEF MayAct, At
<1>7. \A p \in Posts : PostIsSound(p)'
  BY <1>1, <1>2, <1>3, <1>4, <1>6 DEF PostIsSound, At
<1>8. ReplaysOwnAnswer'
  <2> SUFFICES ASSUME NEW p \in Posts, post'[p].replays # 0
               PROVE  post'[post'[p].replays].accepted /\ post'[post'[p].replays].payload = post'[p].payload
    BY DEF ReplaysOwnAnswer
  <2>1. p # q /\ post'[p] = post[p]
    BY <1>3, <1>4
  <2>2. post[p].replays \in Posts
    BY <1>1, <2>1 DEF Requested
  <2>3. post[post[p].replays].accepted /\ post[post[p].replays].payload = post[p].payload
    BY <2>1 DEF SubmissionsInv, ReplaysOwnAnswer
  <2>4. post[p].replays # q
    BY <1>2, <1>6, <2>3 DEF MayAct
  <2> QED
    BY <1>4, <2>1, <2>2, <2>3, <2>4
<1>9. CASE Expired
  <2>1. /\ claim' \in Claims /\ claim'.token = q /\ claim'.status = "PROCESSING" /\ claim'.payload = payload
        /\ claim'.expires = tick + Lifetime
    BY <1>1, <1>2, <1>9 DEF Claims
  <2>2. SubmissionsTyped'
    BY <1>1, <1>2, <1>4, <2>1 DEF SubmissionsTyped
  <2>3. ClaimIsSound'
    BY <1>1, <1>3, <1>4, <2>1 DEF ClaimIsSound, At
  <2>4. \A p \in Posts : p # q /\ MayAct(p)' => MayAct(p)
    BY <1>4, <2>1 DEF MayAct, At, Holds
  <2>5. \A p \in Posts : MayAct(p) => post[p].since + Lifetime <= tick
    <3> SUFFICES ASSUME NEW p \in Posts, MayAct(p) PROVE post[p].since + Lifetime <= tick
      OBVIOUS
    <3>1. CASE p = claim.token
      <4>1. claim.token # 0 /\ claim.status # "FAILED"
        BY <1>1, <3>1 DEF ClaimIsSound
      <4>2. claim.expires = post[p].since + Lifetime
        BY <1>1, <3>1, <4>1 DEF ClaimIsSound
      <4> QED
        BY <1>9, <4>2 DEF Expired
    <3>2. CASE p # claim.token
      <4>1. claim.token \in Posts /\ Apart(p, claim.token)
        BY <1>1, <3>2 DEF SubmissionsInv, Claims
      <4>2. post[claim.token].since <= tick
        BY <1>6, <4>1 DEF PostIsSound
      <4>3. /\ post[claim.token].since \in Nat /\ post[p].since \in Nat
            /\ post[p].since + Lifetime <= post[claim.token].since
        BY <1>1, <4>1 DEF Requested, Apart
      <4> QED
        BY <1>1, <4>2, <4>3
    <3> QED
      BY <3>1, <3>2
  <2>6. \A p \in Posts : p # q /\ MayAct(p)' => Apart(p, q)'
    BY <1>3, <1>4, <2>4, <2>5 DEF Apart
  <2>7. \A p, r \in Posts : p # r /\ MayAct(p)' /\ MayAct(r)' => Apart(p, r)' \/ Apart(r, p)'
    <3> SUFFICES ASSUME NEW p \in Posts, NEW r \in Posts, p # r, MayAct(p)', MayAct(r)'
                 PROVE  Apart(p, r)' \/ Apart(r, p)'
      OBVIOUS
    <3>1. CASE p = q \/ r = q
      BY <2>6, <3>1
    <3>2. CASE p # q /\ r # q
      <4>1. Apart(p, r) \/ Apart(r, p)
        BY <2>4, <3>2 DEF SubmissionsInv
      <4> QED
        BY <1>4, <3>2, <4>1 DEF Apart
    <3> QED
      BY <3>1, <3>2
  <2>8. \A p \in Posts : p # claim'.token /\ MayAct(p)' => claim'.token # 0 /\ post'[p].since + Lifetime <= post'[claim'.token].since
    BY <1>1, <2>1, <2>6 DEF Apart
  <2> QED
    BY <1>7, <1>8, <2>2, <2>3, <2>7, <2>8 DEF SubmissionsInv, Apart
<1>10. CASE ~Expired
  <2>1. claim' = claim /\ claim.token # 0
    BY <1>1, <1>2, <1>10 DEF ClaimIsSound, Expired
  <2>2. claim.token \in Posts /\ post'[claim.token] = post[claim.token]
    BY <1>1, <1>4, <1>5, <2>1 DEF Claims
  <2>3. SubmissionsTyped'
    BY <1>1, <1>2, <1>4, <2>1 DEF SubmissionsTyped
  <2>4. ~MayAct(q)' /\ \A p \in Posts : MayAct(p)' => p # q /\ MayAct(p)
    BY <1>3, <1>4, <1>5, <2>1 DEF MayAct, At, Holds
  <2>5. ClaimIsSound'
    BY <1>1, <2>1, <2>2, <2>4 DEF ClaimIsSound, At
  <2>6. \A p \in Posts : p # claim'.token /\ MayAct(p)' => claim'.token # 0 /\ post'[p].since + Lifetime <= post'[claim'.token].since
    BY <1>4, <2>1, <2>2, <2>4 DEF SubmissionsInv, Apart
  <2>7. \A p, r \in Posts : p # r /\ MayAct(p)' /\ MayAct(r)' => Apart(p, r)' \/ Apart(r, p)'
    BY <1>4, <2>4 DEF SubmissionsInv, Apart
  <2> QED
    BY <1>7, <1>8, <2>3, <2>5, <2>6, <2>7 DEF SubmissionsInv, Apart
<1> QED
  BY <1>9, <1>10

LEMMA HandlingStep ==
    ASSUME SubmissionsInv, NEW q \in Posts,
           \/ ReadClaim(q) \/ LosePost(q) \/ CompletePublicSubmission(q) \/ AbandonPublicSubmission(q)
           \/ \E passed \in BOOLEAN : Answer(q, passed)
    PROVE  SubmissionsInv'
<1>1. /\ claim \in Claims /\ post \in [Posts -> Requested] /\ tick \in Nat /\ ClaimIsSound
      /\ Posts \subseteq Nat /\ 0 \notin Posts /\ Lifetime \in Nat /\ PostIsSound(q)
  BY SubmissionsAssumption DEF SubmissionsInv, SubmissionsTyped
<1>2. post[q].replays # 0 => post[post[q].replays].accepted /\ post[post[q].replays].payload = post[q].payload
  BY DEF SubmissionsInv, ReplaysOwnAnswer
<1>3. \A N \in Requested : post' = [post EXCEPT ![q] = N] => post'[q] = N
  BY <1>1
<1>4. CASE ReadClaim(q)
  <2>0. At(q, "claimed") /\ UNCHANGED <<claim, tick>> /\ ~At(q, "none")
    BY <1>4 DEF ReadClaim, At
  <2>1. CASE claim.payload = post[q].payload /\ claim.token = q /\ Becomes(q, "running")
    <3> DEFINE N == [post[q] EXCEPT !.at = "running"]
    <3>1. /\ N \in Requested /\ N.at = "running" /\ N.payload = post[q].payload /\ N.since = post[q].since
          /\ N.accepted = post[q].accepted /\ N.replays = post[q].replays /\ post' = [post EXCEPT ![q] = N]
      BY <1>1, <2>1 DEF Requested, Becomes
    <3>2. MayAct(q) /\ ~post[q].accepted
      BY <1>1, <2>0, <2>1 DEF MayAct, Holds, PostIsSound, At
    <3> HIDE DEF N
    <3> QED
      BY <1>2, <2>0, <3>1, <3>2, PostGoesOnAlone
  <2>2. CASE /\ claim.payload = post[q].payload /\ claim.token # q /\ claim.status = "COMPLETED"
             /\ post' = [post EXCEPT ![q].at = "done", ![q].replays = claim.response]
    <3> DEFINE N == [post[q] EXCEPT !.at = "done", !.replays = claim.response]
    <3>1. /\ N \in Requested /\ N.at = "done" /\ N.payload = post[q].payload /\ N.since = post[q].since
          /\ N.accepted = post[q].accepted /\ N.replays = claim.response /\ post' = [post EXCEPT ![q] = N]
      BY <1>1, <2>2 DEF Requested, Claims
    <3> HIDE DEF N
    <3>2. claim.token # 0 /\ claim.response = claim.token /\ post[claim.token].accepted /\ post[claim.token].payload = claim.payload
      BY <1>1, <2>2 DEF ClaimIsSound
    <3>3. MayAct(q)' => MayAct(q)
      BY <1>3, <3>1 DEF MayAct, At
    <3> QED
      BY <2>0, <2>2, <3>1, <3>2, <3>3, PostGoesOnAlone
  <2>3. CASE Becomes(q, "done")
    <3> DEFINE N == [post[q] EXCEPT !.at = "done"]
    <3>1. /\ N \in Requested /\ N.at = "done" /\ N.payload = post[q].payload /\ N.since = post[q].since
          /\ N.accepted = post[q].accepted /\ N.replays = post[q].replays /\ post' = [post EXCEPT ![q] = N]
      BY <1>1, <2>3 DEF Requested, Becomes
    <3> HIDE DEF N
    <3>3. MayAct(q)' => MayAct(q)
      BY <1>3, <3>1 DEF MayAct, At
    <3> QED
      BY <1>2, <2>0, <3>1, <3>3, PostGoesOnAlone
  <2> QED
    BY <1>4, <2>1, <2>2, <2>3 DEF ReadClaim
<1>5. CASE LosePost(q)
  <2>1. PICK acted \in BOOLEAN :
           /\ post' = [post EXCEPT ![q].at = "done", ![q].accepted = acted]
           /\ ~At(q, "running") => acted = post[q].accepted
    <3>1. post[q].accepted \in BOOLEAN
      BY <1>1 DEF Requested
    <3>2. PICK acted \in (IF At(q, "running") THEN BOOLEAN ELSE {post[q].accepted}) :
             post' = [post EXCEPT ![q].at = "done", ![q].accepted = acted]
      BY <1>5 DEF LosePost
    <3> QED
      BY <3>1, <3>2
  <2> DEFINE N == [post[q] EXCEPT !.at = "done", !.accepted = acted]
  <2>2. /\ N \in Requested /\ N.at = "done" /\ N.payload = post[q].payload /\ N.since = post[q].since
        /\ N.accepted = acted /\ N.replays = post[q].replays /\ post' = [post EXCEPT ![q] = N]
    BY <1>1, <2>1 DEF Requested
  <2> HIDE DEF N
  <2>3. /\ post[q].at \in {"claimed", "running", "completing", "abandoning"} /\ UNCHANGED <<claim, tick>>
        /\ ~At(q, "none")
    BY <1>5 DEF LosePost, At
  <2>4. post[q].accepted => acted
    BY <1>1, <2>1 DEF PostIsSound, At
  <2>5. MayAct(q)' => MayAct(q)
    BY <1>3, <2>1, <2>2 DEF MayAct, At
  <2> QED
    BY <1>2, <2>2, <2>3, <2>4, <2>5, PostGoesOnAlone
<1>6. CASE \E passed \in BOOLEAN : Answer(q, passed)
  <2>1. PICK passed \in BOOLEAN : Answer(q, passed)
    BY <1>6
  <2> DEFINE N == [post[q] EXCEPT !.at = IF passed THEN "completing" ELSE "abandoning", !.accepted = passed]
  <2>2. /\ N \in Requested /\ N.at = (IF passed THEN "completing" ELSE "abandoning") /\ N.payload = post[q].payload
        /\ N.since = post[q].since
        /\ N.accepted = passed /\ N.replays = post[q].replays /\ post' = [post EXCEPT ![q] = N]
    <3>1. N \in Requested /\ N.at = (IF passed THEN "completing" ELSE "abandoning")
      BY <1>1 DEF Requested
    <3>2. N.payload = post[q].payload /\ N.since = post[q].since /\ N.accepted = passed /\ N.replays = post[q].replays
      BY <1>1 DEF Requested
    <3>3. post' = [post EXCEPT ![q] = N]
      BY <1>1, <2>1 DEF Answer
    <3> QED
      BY <3>1, <3>2, <3>3
  <2> HIDE DEF N
  <2>3. At(q, "running") /\ UNCHANGED <<claim, tick>> /\ ~At(q, "none")
    BY <2>1 DEF Answer, At
  <2>4. MayAct(q) /\ ~post[q].accepted
    BY <1>1, <2>3 DEF MayAct, At, PostIsSound
  <2> QED
    BY <1>2, <2>2, <2>3, <2>4, PostGoesOnAlone
<1>7. CASE CompletePublicSubmission(q)
  <2> DEFINE N == [post[q] EXCEPT !.at = "done"]
  <2>1. /\ N \in Requested /\ N.at = "done" /\ N.payload = post[q].payload /\ N.since = post[q].since
        /\ N.accepted = post[q].accepted /\ N.replays = post[q].replays /\ post' = [post EXCEPT ![q] = N]
    BY <1>1, <1>7 DEF Requested, Becomes, CompletePublicSubmission
  <2> HIDE DEF N
  <2>2. /\ At(q, "completing") /\ tick' = tick /\ ~At(q, "none")
        /\ claim' = IF Holds(q) THEN [claim EXCEPT !.status = "COMPLETED", !.response = q] ELSE claim
    BY <1>7 DEF CompletePublicSubmission, At
  <2>3. post[q].accepted /\ MayAct(q)
    BY <1>1, <2>2 DEF PostIsSound, MayAct
  <2>4. CASE Holds(q)
    <3>1. claim.token = q /\ q # 0 /\ claim.status # "FAILED"
      BY <1>1, <2>3, <2>4 DEF Holds, ClaimIsSound
    <3>2. /\ claim' \in Claims /\ claim'.token = q /\ claim'.status = "COMPLETED" /\ claim'.response = q
          /\ claim'.payload = claim.payload /\ claim'.expires = claim.expires
      BY <1>1, <2>2, <2>4, <3>1 DEF Claims
    <3>3. claim.payload = post[q].payload /\ claim.expires = post[q].since + Lifetime
      BY <1>1, <3>1 DEF ClaimIsSound
    <3>4. ClaimIsSound'
      BY <1>3, <2>1, <2>3, <3>1, <3>2, <3>3 DEF ClaimIsSound, At
    <3> QED
      BY <1>2, <2>1, <2>2, <2>3, <3>1, <3>2, <3>4, PostGoesOn
  <2>5. CASE ~Holds(q)
    BY <1>2, <2>1, <2>2, <2>3, <2>5, PostGoesOnAlone
  <2> QED
    BY <2>4, <2>5
<1>8. CASE AbandonPublicSubmission(q)
  <2> DEFINE N == [post[q] EXCEPT !.at = "done"]
  <2>1. /\ N \in Requested /\ N.at = "done" /\ N.payload = post[q].payload /\ N.since = post[q].since
        /\ N.accepted = post[q].accepted /\ N.replays = post[q].replays /\ post' = [post EXCEPT ![q] = N]
    BY <1>1, <1>8 DEF Requested, Becomes, AbandonPublicSubmission
  <2> HIDE DEF N
  <2>2. /\ At(q, "abandoning") /\ tick' = tick /\ ~At(q, "none")
        /\ claim' = IF Holds(q) THEN [claim EXCEPT !.status = "FAILED", !.expires = tick] ELSE claim
    BY <1>8 DEF AbandonPublicSubmission, At
  <2>3. ~post[q].accepted /\ MayAct(q)
    BY <1>1, <2>2 DEF PostIsSound, MayAct, At
  <2>4. CASE Holds(q)
    <3>1. claim.token = q /\ q # 0
      BY <1>1, <2>4 DEF Holds
    <3>2. /\ claim' \in Claims /\ claim'.token = q /\ claim'.status = "FAILED" /\ claim'.payload = claim.payload
      BY <1>1, <2>2, <2>4, <3>1 DEF Claims
    <3>3. claim.payload = post[q].payload
      BY <1>1, <3>1 DEF ClaimIsSound
    <3>4. ~MayAct(q)'
      BY <1>3, <2>1, <2>3 DEF MayAct, At
    <3>5. ClaimIsSound'
      BY <1>3, <2>1, <3>1, <3>2, <3>3, <3>4 DEF ClaimIsSound, At
    <3> QED
      BY <1>2, <2>1, <2>2, <2>3, <3>1, <3>2, <3>5, PostGoesOn
  <2>5. CASE ~Holds(q)
    BY <1>2, <2>1, <2>2, <2>3, <2>5, PostGoesOnAlone
  <2> QED
    BY <2>4, <2>5
<1> QED
  BY <1>4, <1>5, <1>6, <1>7, <1>8

LEMMA SubmissionsStep ==
    ASSUME SubmissionsInv, [SubmissionsNext]_submissionVars
    PROVE  SubmissionsInv'
<1>1. CASE UNCHANGED submissionVars
  BY <1>1 DEF submissionVars, SubmissionsInv, SubmissionsTyped, ClaimIsSound, PostIsSound, MayAct, At, Holds, Apart, ReplaysOwnAnswer
<1>2. CASE PassTick
  <2>1. tick \in Nat /\ tick' = tick + 1 /\ UNCHANGED <<claim, post>> /\ tick' \in Nat
    BY <1>2 DEF PassTick, SubmissionsInv, SubmissionsTyped
  <2>2. \A q \in Posts : post[q].since \in Nat
    BY DEF SubmissionsInv, SubmissionsTyped, Requested
  <2>3. \A q \in Posts : PostIsSound(q)'
    BY <2>1, <2>2 DEF SubmissionsInv, PostIsSound, At
  <2> QED
    BY <2>1, <2>3 DEF SubmissionsInv, SubmissionsTyped, ClaimIsSound, MayAct, At, Holds, Apart, ReplaysOwnAnswer
<1> QED
  BY <1>1, <1>2, ClaimStep, HandlingStep DEF SubmissionsNext

LEMMA SubmissionsHold ==
    ASSUME SubmissionsInv
    PROVE  SubmissionsTypeOK /\ ActedOnOnce /\ ReplaysOwnAnswer
<1>1. SubmissionsTypeOK
  BY DEF SubmissionsInv, SubmissionsTyped, SubmissionsTypeOK, Claims, Requested
<1>2. ActedOnOnce
  BY DEF SubmissionsInv, ActedOnOnce, MayAct, Apart
<1> QED
  BY <1>1, <1>2 DEF SubmissionsInv

-----------------------------------------------------------------------------
(* Migrations at start-up.                                                 *)

\* A replica that starts, and the row of a migration.
StartUps ==
    [at : {"down", "waiting", "reading", "marking", "executing", "ready"}, build : Builds,
     next : Migrations \cup {0}, done : 0..Size]
MigrationRows == [status : {"none", "RUNNING", "APPLIED", "FAILED"}, checksum : Checksums \cup {NoScript}]

MigrationsTyped ==
    /\ ledger \in [Migrations -> MigrationRows]
    /\ executed \subseteq Migrations \X Checksums \X (1..Size)
    /\ replica \in [Replicas -> StartUps]
    /\ lock \subseteq Replicas

\* The replica runs migrations, under the lock.
Migrating(r) == replica[r].at \in {"reading", "marking", "executing"}

\* What a replica believes about the ledger at each place of its start-up, and
\* may believe, because only the holder of the lock writes to it and what is
\* applied stays.
StartUpIsSound(r) ==
    /\ r \in lock <=> Migrating(r)
    /\ Migrating(r) => \A m \in Discovered(r) :
           m <= replica[r].next => ledger[m] = [status |-> "APPLIED", checksum |-> Script(r, m)]
    /\ replica[r].at \in {"waiting", "reading", "marking"} => replica[r].done = 0
    /\ Is(r, "waiting") => replica[r].next = 0
    /\ Is(r, "marking") => \A m \in Current(r) : ledger[m].status # "APPLIED"
    /\ Is(r, "executing") => \A m \in Current(r) :
           /\ ledger[m] = [status |-> "RUNNING", checksum |-> Script(r, m)]
           /\ \A i \in 1..replica[r].done : <<m, Script(r, m), i>> \in executed
    /\ Is(r, "ready") => \A m \in Discovered(r) : ledger[m] = [status |-> "APPLIED", checksum |-> Script(r, m)]

MigrationsInv ==
    /\ MigrationsTyped
    /\ \A r, s \in lock : r = s
    /\ \A r \in Replicas : StartUpIsSound(r)
    /\ AppliedIsExecuted

\* What a step does to what is applied.
AppliedStays == \A m \in Migrations : ledger[m].status = "APPLIED" => ledger'[m] = ledger[m]

LEMMA DownIsTyped == Down \in StartUps /\ Down.at = "down"
<1>1. (CHOOSE b \in Builds : TRUE) \in Builds
  BY MigrationsAssumption
<1> QED
  BY <1>1, MigrationsAssumption DEF Down, StartUps

LEMMA MigrationsInitInv == MigrationsInit => MigrationsInv
<1> SUFFICES ASSUME MigrationsInit PROVE MigrationsInv
  OBVIOUS
<1>1. MigrationsTyped
  BY DownIsTyped DEF MigrationsInit, MigrationsTyped, MigrationRows
<1>2. \A r \in Replicas : StartUpIsSound(r)
  BY DownIsTyped DEF MigrationsInit, StartUpIsSound, Migrating, Is
<1>3. AppliedIsExecuted
  BY DEF MigrationsInit, AppliedIsExecuted
<1> QED
  BY <1>1, <1>2, <1>3 DEF MigrationsInv, MigrationsInit

\* The scripts of a build.
LEMMA ScriptsOfABuild ==
    ASSUME MigrationsTyped, NEW r \in Replicas
    PROVE  /\ Discovered(r) \subseteq Migrations /\ Discovered(r) \subseteq Nat
           /\ \A m \in Discovered(r) : m > 0 /\ Script(r, m) \in Checksums
           /\ Current(r) \subseteq Discovered(r)
           /\ replica[r].next \in Nat
           /\ \A m, n \in Current(r) : m = n
<1>1. replica[r].build \in [Migrations -> Checksums \cup {NoScript}]
  BY MigrationsAssumption DEF MigrationsTyped, StartUps
<1>2. /\ Discovered(r) \subseteq Migrations /\ Discovered(r) \subseteq Nat
      /\ \A m \in Discovered(r) : m > 0 /\ Script(r, m) \in Checksums
  <2>1. Discovered(r) \subseteq Migrations
    BY DEF Discovered
  <2>2. \A m \in Migrations : m \in Nat /\ m > 0
    BY MigrationsAssumption
  <2>3. \A m \in Discovered(r) : Script(r, m) \in Checksums
    BY <1>1 DEF Discovered, Script
  <2> QED
    BY <2>1, <2>2, <2>3
<1>3. replica[r].next \in Nat
  <2>1. replica[r].next \in Migrations \cup {0}
    BY DEF MigrationsTyped, StartUps
  <2>2. \A m \in Migrations : m \in Nat
    BY MigrationsAssumption
  <2> QED
    BY <2>1, <2>2
<1>4. Current(r) \subseteq Discovered(r)
  BY DEF Current
<1>5. \A m, n \in Current(r) : m = n
  <2>1. \A m, n \in Current(r) : m <= n /\ n <= m
    BY DEF Current
  <2>2. Current(r) \subseteq Nat
    BY <1>2, <1>4
  <2> QED
    BY ONLY <2>1, <2>2
<1> QED
  BY <1>2, <1>3, <1>4, <1>5

\* What others do leaves a replica sound: nobody else writes while it holds the
\* lock.
LEMMA OtherStartUps ==
    ASSUME MigrationsInv, NEW s \in Replicas, replica'[s] = replica[s], AppliedStays, executed \subseteq executed',
           s \in lock' <=> s \in lock, s \in lock => ledger' = ledger
    PROVE  StartUpIsSound(s)'
<1>1. StartUpIsSound(s)
  BY DEF MigrationsInv
<1>2. /\ Discovered(s)' = Discovered(s) /\ Current(s)' = Current(s) /\ (Migrating(s)' <=> Migrating(s))
      /\ \A m : Script(s, m)' = Script(s, m)
      /\ \A at : Is(s, at)' <=> Is(s, at)
  BY DEF Discovered, Current, Migrating, Script, Is
<1>3. Discovered(s) \subseteq Migrations /\ Current(s) \subseteq Discovered(s)
  BY ScriptsOfABuild DEF MigrationsInv
<1>4. CASE Migrating(s)
  <2>1. ledger' = ledger /\ s \in lock'
    BY <1>1, <1>4 DEF StartUpIsSound
  <2>2. ~Is(s, "ready")
    BY <1>4 DEF Migrating, Is
  <2> QED
    BY <1>1, <1>2, <1>4, <2>1, <2>2 DEF StartUpIsSound
<1>5. CASE ~Migrating(s)
  <2>1. s \notin lock' /\ ~Is(s, "marking") /\ ~Is(s, "executing")
    BY <1>1, <1>5 DEF StartUpIsSound, Migrating, Is
  <2>2. Is(s, "ready") => \A m \in Discovered(s) : ledger'[m] = [status |-> "APPLIED", checksum |-> Script(s, m)]
    BY <1>1, <1>3 DEF StartUpIsSound, AppliedStays
  <2> QED
    BY <1>1, <1>2, <1>5, <2>1, <2>2 DEF StartUpIsSound
<1> QED
  BY <1>4, <1>5

\* A step of one replica: what is left to show of it.
LEMMA StepOfOne ==
    ASSUME MigrationsInv, NEW r \in Replicas, NEW new \in StartUps,
           replica' = [replica EXCEPT ![r] = new],
           ledger' \in [Migrations -> MigrationRows], AppliedStays,
           ledger' # ledger => r \in lock,
           executed \subseteq executed', executed' \subseteq Migrations \X Checksums \X (1..Size),
           lock' = lock \/ lock' = lock \ {r} \/ (lock = {} /\ lock' = {r}),
           StartUpIsSound(r)', AppliedIsExecuted'
    PROVE  MigrationsInv'
<1>1. MigrationsTyped'
  BY DEF MigrationsInv, MigrationsTyped
<1>2. \A p, q \in lock' : p = q
  BY DEF MigrationsInv
<1>3. ASSUME NEW s \in Replicas, s # r PROVE StartUpIsSound(s)'
  <2>1. replica'[s] = replica[s]
    BY <1>3 DEF MigrationsInv, MigrationsTyped
  <2>2. (s \in lock' <=> s \in lock) /\ (s \in lock => ledger' = ledger)
    BY <1>3 DEF MigrationsInv
  <2> QED
    BY <2>1, <2>2, OtherStartUps
<1> QED
  BY <1>1, <1>2, <1>3 DEF MigrationsInv

\* The process goes down, and its lock with it.
LEMMA GoesDown ==
    ASSUME MigrationsInv, NEW r \in Replicas, replica' = [replica EXCEPT ![r] = Down],
           lock' = lock \ {r}, executed' = executed,
           ledger' \in [Migrations -> MigrationRows], AppliedStays,
           ledger' # ledger => r \in lock,
           AppliedIsExecuted'
    PROVE  MigrationsInv'
<1>1. replica'[r] = Down
  BY DEF MigrationsInv, MigrationsTyped
<1>2. StartUpIsSound(r)'
  BY <1>1, DownIsTyped DEF StartUpIsSound, Migrating, Is
<1> QED
  BY <1>2, DownIsTyped, StepOfOne DEF MigrationsInv, MigrationsTyped

LEMMA MigrationStep ==
    ASSUME MigrationsInv, NEW r \in Replicas,
           \/ \E build \in Builds : Start(r, build)
           \/ AcquireLock(r) \/ Refuse(r) \/ Skip(r) \/ Pick(r) \/ MarkRunning(r) \/ Execute(r) \/ Apply(r) \/ Fail(r)
           \/ Finish(r) \/ Crash(r)
    PROVE  MigrationsInv' /\ AppliedStays
<1>1. /\ ledger \in [Migrations -> MigrationRows] /\ executed \subseteq Migrations \X Checksums \X (1..Size)
      /\ replica \in [Replicas -> StartUps] /\ lock \subseteq Replicas
  BY DEF MigrationsInv, MigrationsTyped
<1>2. /\ replica[r].at \in {"down", "waiting", "reading", "marking", "executing", "ready"}
      /\ replica[r].build \in Builds /\ replica[r].next \in Migrations \cup {0} /\ replica[r].done \in 0..Size
      /\ replica[r] = [at |-> replica[r].at, build |-> replica[r].build, next |-> replica[r].next, done |-> replica[r].done]
  BY <1>1 DEF StartUps
<1>3. /\ Discovered(r) \subseteq Migrations /\ Discovered(r) \subseteq Nat
      /\ \A m \in Discovered(r) : m > 0 /\ Script(r, m) \in Checksums
      /\ Current(r) \subseteq Discovered(r)
      /\ replica[r].next \in Nat
      /\ \A m, n \in Current(r) : m = n
  BY ScriptsOfABuild DEF MigrationsInv
<1>4. StartUpIsSound(r) /\ AppliedIsExecuted
  BY DEF MigrationsInv
<1>5. ledger' = ledger /\ executed' = executed => AppliedStays /\ AppliedIsExecuted'
  BY <1>4 DEF AppliedStays, AppliedIsExecuted
<1>6. ASSUME NEW N \in StartUps, replica' = [replica EXCEPT ![r] = N], N.build = replica[r].build
      PROVE  /\ replica'[r] = N
             /\ \A m : Script(r, m)' = Script(r, m)
             /\ Discovered(r)' = Discovered(r)
             /\ N.next = replica[r].next => Current(r)' = Current(r)
  <2>1. replica'[r] = N
    BY <1>1, <1>6
  <2>2. /\ \A m : Script(r, m)' = Script(r, m)
        /\ Discovered(r)' = Discovered(r)
    BY <1>6, <2>1 DEF Script, Discovered
  <2> QED
    BY <2>1, <2>2 DEF Current
<1>7. CASE \E build \in Builds : Start(r, build)
  <2>1. PICK build \in Builds : Start(r, build)
    BY <1>7
  <2> DEFINE N == [Down EXCEPT !.at = "waiting", !.build = build]
  <2>2. N \in StartUps /\ N.at = "waiting" /\ N.next = 0 /\ N.done = 0
    BY DownIsTyped, MigrationsAssumption DEF Down, StartUps
  <2>3. /\ replica[r].at = "down" /\ replica' = [replica EXCEPT ![r] = N]
        /\ UNCHANGED <<ledger, executed, lock>>
    BY <2>1 DEF Start, Is
  <2> HIDE DEF N
  <2>4. replica'[r] = N
    BY <1>1, <2>3
  <2>5. r \notin lock'
    BY <1>4, <2>3 DEF StartUpIsSound, Migrating
  <2>6. StartUpIsSound(r)'
    BY <2>2, <2>4, <2>5 DEF StartUpIsSound, Migrating, Is
  <2> QED
    BY <1>1, <1>5, <2>2, <2>3, <2>6, StepOfOne
<1>8. CASE AcquireLock(r)
  <2> DEFINE N == [replica[r] EXCEPT !.at = "reading"]
  <2>1. /\ replica[r].at = "waiting" /\ lock = {} /\ lock' = {r}
        /\ replica' = [replica EXCEPT ![r] = N] /\ UNCHANGED <<ledger, executed>>
    BY <1>1, <1>8 DEF AcquireLock, Is, Free, Goes
  <2>2. N \in StartUps /\ N.at = "reading" /\ N.next = 0 /\ N.done = 0 /\ N.build = replica[r].build
    BY <1>1, <1>4, <2>1 DEF StartUps, StartUpIsSound, Is
  <2> HIDE DEF N
  <2>3. replica'[r] = N /\ Discovered(r)' = Discovered(r)
    BY <1>6, <2>1, <2>2
  <2>4. \A m \in Discovered(r)' : ~(m <= 0)
    BY <1>3, <2>3
  <2>5. StartUpIsSound(r)'
    BY <2>1, <2>2, <2>3, <2>4 DEF StartUpIsSound, Migrating, Is
  <2> QED
    BY <1>1, <1>5, <2>1, <2>2, <2>5, StepOfOne
<1>9. CASE Refuse(r)
  BY <1>1, <1>5, <1>9, GoesDown DEF Refuse
<1>10. CASE Skip(r)
  <2>1. PICK m \in Current(r) :
           ~Mismatch(r, m) /\ ledger[m].status = "APPLIED" /\ replica' = [replica EXCEPT ![r].next = m]
    BY <1>10 DEF Skip
  <2> DEFINE N == [replica[r] EXCEPT !.next = m]
  <2>2. /\ replica[r].at = "reading" /\ replica' = [replica EXCEPT ![r] = N] /\ UNCHANGED <<ledger, executed, lock>>
    BY <1>1, <1>10, <2>1 DEF Skip, Is
  <2>3. m \in Migrations /\ m \in Nat /\ m \in Discovered(r)
    BY <1>3
  <2>4. N \in StartUps /\ N.at = "reading" /\ N.next = m /\ N.done = 0 /\ N.build = replica[r].build
    BY <1>1, <1>4, <2>2, <2>3 DEF StartUps, StartUpIsSound
  <2> HIDE DEF N
  <2>5. replica'[r] = N /\ Discovered(r)' = Discovered(r) /\ \A n : Script(r, n)' = Script(r, n)
    BY <1>6, <2>2, <2>4
  <2>6. ledger[m] = [status |-> "APPLIED", checksum |-> Script(r, m)]
    <3>1. ledger[m].checksum = Script(r, m)
      BY <2>1 DEF Mismatch, IsOpenEntry
    <3>2. ledger[m] \in MigrationRows
      BY <1>1, <2>3
    <3> QED
      BY <2>1, <3>1, <3>2 DEF MigrationRows
  <2>7. \A n \in Discovered(r) : n <= m => ledger[n] = [status |-> "APPLIED", checksum |-> Script(r, n)]
    <3> SUFFICES ASSUME NEW n \in Discovered(r), n <= m
                 PROVE  ledger[n] = [status |-> "APPLIED", checksum |-> Script(r, n)]
      OBVIOUS
    <3>1. CASE n <= replica[r].next
      BY <1>4, <2>2, <3>1 DEF StartUpIsSound, Migrating
    <3>2. CASE n > replica[r].next
      <4>1. m <= n /\ n \in Nat
        BY <1>3, <3>2 DEF Current
      <4>2. m = n
        BY <2>3, <4>1
      <4> QED
        BY <2>6, <4>2
    <3> QED
      BY <1>3, <3>1, <3>2
  <2>8. r \in lock'
    BY <1>4, <2>2 DEF StartUpIsSound, Migrating
  <2>9. StartUpIsSound(r)'
    BY <2>2, <2>4, <2>5, <2>7, <2>8 DEF StartUpIsSound, Migrating, Is
  <2> QED
    BY <1>1, <1>5, <2>2, <2>4, <2>9, StepOfOne
<1>11. CASE Pick(r)
  <2> DEFINE N == [replica[r] EXCEPT !.at = "marking"]
  <2>1. /\ replica[r].at = "reading" /\ \E m \in Current(r) : ledger[m].status # "APPLIED"
        /\ replica' = [replica EXCEPT ![r] = N] /\ UNCHANGED <<ledger, executed, lock>>
    BY <1>1, <1>11 DEF Pick, Is, Goes
  <2>2. N \in StartUps /\ N.at = "marking" /\ N.next = replica[r].next /\ N.done = 0 /\ N.build = replica[r].build
    BY <1>1, <1>4, <2>1 DEF StartUps, StartUpIsSound
  <2> HIDE DEF N
  <2>3. /\ replica'[r] = N /\ Discovered(r)' = Discovered(r) /\ Current(r)' = Current(r)
        /\ \A n : Script(r, n)' = Script(r, n)
    BY <1>6, <2>1, <2>2
  <2>4. \A m \in Current(r) : ledger[m].status # "APPLIED"
    BY <1>3, <2>1
  <2>5. /\ r \in lock'
        /\ \A n \in Discovered(r) : n <= N.next => ledger[n] = [status |-> "APPLIED", checksum |-> Script(r, n)]
    BY <1>4, <2>1, <2>2 DEF StartUpIsSound, Migrating
  <2>6. StartUpIsSound(r)'
    BY <2>1, <2>2, <2>3, <2>4, <2>5 DEF StartUpIsSound, Migrating, Is
  <2> QED
    BY <1>1, <1>5, <2>1, <2>2, <2>6, StepOfOne
<1>12. CASE MarkRunning(r)
  <2>1. PICK m \in Current(r) : ledger' = [ledger EXCEPT ![m] = [status |-> "RUNNING", checksum |-> Script(r, m)]]
    BY <1>12 DEF MarkRunning
  <2> DEFINE N == [replica[r] EXCEPT !.at = "executing"]
  <2>2. /\ replica[r].at = "marking" /\ replica' = [replica EXCEPT ![r] = N] /\ UNCHANGED <<executed, lock>>
    BY <1>1, <1>12 DEF MarkRunning, Is, Goes
  <2>3. N \in StartUps /\ N.at = "executing" /\ N.next = replica[r].next /\ N.done = 0 /\ N.build = replica[r].build
    BY <1>1, <1>4, <2>2 DEF StartUps, StartUpIsSound
  <2> HIDE DEF N
  <2>4. /\ replica'[r] = N /\ Discovered(r)' = Discovered(r) /\ Current(r)' = Current(r)
        /\ \A n : Script(r, n)' = Script(r, n)
    BY <1>6, <2>2, <2>3
  <2>5. m \in Migrations /\ Script(r, m) \in Checksums /\ ledger[m].status # "APPLIED"
    BY <1>3, <1>4, <2>2 DEF StartUpIsSound, Is
  <2>6. /\ ledger' \in [Migrations -> MigrationRows]
        /\ \A n \in Migrations : n # m => ledger'[n] = ledger[n]
        /\ ledger'[m] = [status |-> "RUNNING", checksum |-> Script(r, m)]
    BY <1>1, <2>1, <2>5 DEF MigrationRows
  <2>7. AppliedStays
    BY <2>5, <2>6 DEF AppliedStays
  <2>8. AppliedIsExecuted'
    BY <1>4, <2>2, <2>6 DEF AppliedIsExecuted
  <2>9. /\ r \in lock /\ r \in lock'
        /\ \A n \in Discovered(r) : n <= N.next => ledger'[n] = [status |-> "APPLIED", checksum |-> Script(r, n)]
    BY <1>3, <1>4, <2>2, <2>3, <2>7 DEF StartUpIsSound, Migrating, AppliedStays
  <2>10. \A n \in Current(r) : n = m
    BY <1>3
  <2>11. 1..N.done = {}
    BY <2>3
  <2>12. StartUpIsSound(r)'
    BY <2>3, <2>4, <2>6, <2>9, <2>10, <2>11 DEF StartUpIsSound, Migrating, Is
  <2> QED
    BY <1>1, <2>2, <2>3, <2>6, <2>7, <2>8, <2>9, <2>12, StepOfOne
<1>13. CASE Execute(r)
  <2>1. PICK m \in Current(r) : executed' = executed \cup {<<m, Script(r, m), replica[r].done + 1>>}
    BY <1>13 DEF Execute
  <2> DEFINE N == [replica[r] EXCEPT !.done = @ + 1]
  <2>2. /\ replica[r].at = "executing" /\ replica[r].done < Size
        /\ replica' = [replica EXCEPT ![r] = N] /\ UNCHANGED <<ledger, lock>>
    BY <1>1, <1>13 DEF Execute, Is
  <2>3. replica[r].done + 1 \in 1..Size /\ replica[r].done + 1 \in 0..Size /\ replica[r].done \in Nat
    BY <1>2, <2>2, MigrationsAssumption
  <2>4. /\ N \in StartUps /\ N.at = "executing" /\ N.next = replica[r].next /\ N.done = replica[r].done + 1
        /\ N.build = replica[r].build
    BY <1>1, <2>2, <2>3 DEF StartUps
  <2> HIDE DEF N
  <2>5. /\ replica'[r] = N /\ Discovered(r)' = Discovered(r) /\ Current(r)' = Current(r)
        /\ \A n : Script(r, n)' = Script(r, n)
    BY <1>6, <2>2, <2>4
  <2>6. executed' \subseteq Migrations \X Checksums \X (1..Size) /\ executed \subseteq executed'
    BY <1>1, <1>3, <2>1, <2>3
  <2>7. AppliedStays /\ AppliedIsExecuted'
    BY <1>4, <2>2, <2>6 DEF AppliedStays, AppliedIsExecuted
  <2>8. /\ r \in lock'
        /\ \A n \in Discovered(r) : n <= N.next => ledger'[n] = [status |-> "APPLIED", checksum |-> Script(r, n)]
        /\ \A n \in Current(r) : ledger'[n] = [status |-> "RUNNING", checksum |-> Script(r, n)]
    BY <1>4, <2>2, <2>4 DEF StartUpIsSound, Migrating, Is
  <2>9. \A n \in Current(r) : \A i \in 1..N.done : <<n, Script(r, n), i>> \in executed'
    <3> SUFFICES ASSUME NEW n \in Current(r), NEW i \in 1..N.done PROVE <<n, Script(r, n), i>> \in executed'
      OBVIOUS
    <3>1. n = m
      BY <1>3
    <3>2. i \in 1..replica[r].done \/ i = replica[r].done + 1
      BY <2>3, <2>4
    <3>3. i \in 1..replica[r].done => <<n, Script(r, n), i>> \in executed
      BY <1>4, <2>2 DEF StartUpIsSound, Is
    <3> QED
      BY <2>1, <3>1, <3>2, <3>3
  <2>10. StartUpIsSound(r)'
    BY <2>4, <2>5, <2>8, <2>9 DEF StartUpIsSound, Migrating, Is
  <2> QED
    BY <1>1, <2>2, <2>4, <2>6, <2>7, <2>10, StepOfOne
<1>14. CASE Apply(r)
  <2>1. PICK m \in Current(r) :
           /\ ledger' = [ledger EXCEPT ![m].status = "APPLIED"]
           /\ replica' = [replica EXCEPT ![r].at = "reading", ![r].next = m, ![r].done = 0]
    BY <1>14 DEF Apply
  <2> DEFINE N == [replica[r] EXCEPT !.at = "reading", !.next = m, !.done = 0]
  <2>2. replica[r].at = "executing" /\ replica[r].done = Size /\ UNCHANGED <<executed, lock>>
    BY <1>14 DEF Apply, Is, Executed
  <2>3. m \in Migrations /\ m \in Nat /\ m \in Discovered(r) /\ Script(r, m) \in Checksums
    BY <1>3
  <2>4. replica' = [replica EXCEPT ![r] = N]
    BY <1>1, <2>1
  <2>5. N \in StartUps /\ N.at = "reading" /\ N.next = m /\ N.done = 0 /\ N.build = replica[r].build
    <3>1. 0 \in 0..Size
      BY MigrationsAssumption
    <3> QED
      BY <1>1, <2>3, <3>1 DEF StartUps
  <2> HIDE DEF N
  <2>6. replica'[r] = N /\ Discovered(r)' = Discovered(r) /\ \A n : Script(r, n)' = Script(r, n)
    BY <1>6, <2>4, <2>5
  <2>7. /\ ledger[m] = [status |-> "RUNNING", checksum |-> Script(r, m)]
        /\ \A i \in 1..Size : <<m, Script(r, m), i>> \in executed
    BY <1>4, <2>2 DEF StartUpIsSound, Is
  <2>8. /\ ledger' \in [Migrations -> MigrationRows]
        /\ \A n \in Migrations : n # m => ledger'[n] = ledger[n]
        /\ ledger'[m] = [status |-> "APPLIED", checksum |-> Script(r, m)]
    BY <1>1, <2>1, <2>3, <2>7 DEF MigrationRows
  <2>9. AppliedStays
    BY <2>7, <2>8 DEF AppliedStays
  <2>10. AppliedIsExecuted'
    BY <1>4, <2>2, <2>7, <2>8 DEF AppliedIsExecuted
  <2>11. \A n \in Discovered(r) : n <= m => ledger'[n] = [status |-> "APPLIED", checksum |-> Script(r, n)]
    <3> SUFFICES ASSUME NEW n \in Discovered(r), n <= m
                 PROVE  ledger'[n] = [status |-> "APPLIED", checksum |-> Script(r, n)]
      OBVIOUS
    <3>1. CASE n <= replica[r].next
      <4>1. ledger[n] = [status |-> "APPLIED", checksum |-> Script(r, n)]
        BY <1>4, <2>2, <3>1 DEF StartUpIsSound, Migrating
      <4> QED
        BY <1>3, <2>9, <4>1 DEF AppliedStays
    <3>2. CASE n > replica[r].next
      <4>1. m <= n /\ n \in Nat
        BY <1>3, <3>2 DEF Current
      <4>2. m = n
        BY <2>3, <4>1
      <4> QED
        BY <2>8, <4>2
    <3> QED
      BY <1>3, <3>1, <3>2
  <2>12. r \in lock /\ r \in lock'
    BY <1>4, <2>2 DEF StartUpIsSound, Migrating
  <2>13. StartUpIsSound(r)'
    BY <2>2, <2>5, <2>6, <2>11, <2>12 DEF StartUpIsSound, Migrating, Is
  <2> QED
    BY <1>1, <2>2, <2>4, <2>5, <2>8, <2>9, <2>10, <2>12, <2>13, StepOfOne
<1>15. CASE Fail(r)
  <2>1. PICK m \in Current(r) : ledger' \in {ledger, [ledger EXCEPT ![m].status = "FAILED"]}
    BY <1>15 DEF Fail
  <2>2. /\ replica[r].at = "executing" /\ UNCHANGED executed
        /\ replica' = [replica EXCEPT ![r] = Down] /\ lock' = lock \ {r}
    BY <1>15 DEF Fail, Is
  <2>3. m \in Migrations
    BY <1>3
  <2>4. ledger[m].status = "RUNNING" /\ r \in lock
    <3>1. ledger[m] = [status |-> "RUNNING", checksum |-> Script(r, m)]
      BY <1>4, <2>2 DEF StartUpIsSound, Is
    <3>2. r \in lock
      BY <1>4, <2>2 DEF StartUpIsSound, Migrating
    <3> QED
      BY <3>1, <3>2
  <2>5. /\ ledger' \in [Migrations -> MigrationRows]
        /\ \A n \in Migrations : ledger'[n] = ledger[n] \/ (n = m /\ ledger'[n].status = "FAILED")
    BY <1>1, <2>1, <2>3 DEF MigrationRows
  <2>6. AppliedStays
    BY <2>4, <2>5 DEF AppliedStays
  <2>7. AppliedIsExecuted'
    BY <1>4, <2>2, <2>5 DEF AppliedIsExecuted
  <2> QED
    BY <2>2, <2>4, <2>5, <2>6, <2>7, GoesDown
<1>16. CASE Finish(r)
  <2> DEFINE N == [replica[r] EXCEPT !.at = "ready"]
  <2>1. /\ replica[r].at = "reading" /\ Current(r) = {}
        /\ replica' = [replica EXCEPT ![r] = N] /\ UNCHANGED <<ledger, executed>> /\ lock' = lock \ {r}
    BY <1>1, <1>16 DEF Finish, Is, Goes
  <2>2. N \in StartUps /\ N.at = "ready" /\ N.build = replica[r].build
    BY <1>1, <2>1 DEF StartUps
  <2> HIDE DEF N
  <2>3. /\ replica'[r] = N /\ Discovered(r)' = Discovered(r)
        /\ \A n : Script(r, n)' = Script(r, n)
    BY <1>6, <2>1, <2>2
  <2>4. \A m \in Discovered(r) : m <= replica[r].next
    <3> SUFFICES ASSUME NEW m \in Discovered(r), m > replica[r].next PROVE FALSE
      BY <1>3
    <3> DEFINE left == {n \in Discovered(r) : n > replica[r].next}
    <3>1. left \in SUBSET Nat /\ left # {}
      BY <1>3
    <3> HIDE DEF left
    <3>2. PICK l \in left : \A n \in left : l <= n
      BY <3>1, LeastOfNaturals
    <3>3. l \in Current(r)
      BY <3>2 DEF left, Current
    <3> QED
      BY <2>1, <3>3
  <2>5. \A m \in Discovered(r) : ledger[m] = [status |-> "APPLIED", checksum |-> Script(r, m)]
    BY <1>4, <2>1, <2>4 DEF StartUpIsSound, Migrating
  <2>6. StartUpIsSound(r)'
    BY <2>1, <2>2, <2>3, <2>5 DEF StartUpIsSound, Migrating, Is
  <2> QED
    BY <1>1, <1>5, <2>1, <2>2, <2>6, StepOfOne
<1>17. CASE Crash(r)
  BY <1>1, <1>5, <1>17, GoesDown DEF Crash
<1> QED
  BY <1>7, <1>8, <1>9, <1>10, <1>11, <1>12, <1>13, <1>14, <1>15, <1>16, <1>17

LEMMA MigrationsStep ==
    ASSUME MigrationsInv, [MigrationsNext]_migrationVars
    PROVE  MigrationsInv' /\ AppliedStays
<1>1. CASE UNCHANGED migrationVars
  <2>1. UNCHANGED <<ledger, executed, lock, replica>>
    BY <1>1 DEF migrationVars
  <2> QED
    BY <2>1 DEF MigrationsInv, MigrationsTyped, AppliedStays, AppliedIsExecuted, StartUpIsSound, Migrating, Is, Discovered, Current, Script
<1> QED
  BY <1>1, MigrationStep DEF MigrationsNext

LEMMA MigrationsHold ==
    ASSUME MigrationsInv
    PROVE  MigrationsTypeOK /\ AppliedIsExecuted /\ ReadyIsCurrent
<1>1. MigrationsTypeOK
  BY DEF MigrationsInv, MigrationsTyped, MigrationsTypeOK, MigrationRows, StartUps
<1>2. ReadyIsCurrent
  BY DEF MigrationsInv, ReadyIsCurrent, StartUpIsSound
<1> QED
  BY <1>1, <1>2 DEF MigrationsInv

-----------------------------------------------------------------------------
(* The parts side by side.                                                 *)

PlantInv ==
    /\ AttendanceInv /\ RosterInv /\ QualityInv /\ FormsInv /\ DrillsInv
    /\ SubmissionsInv /\ MigrationsInv

\* A step of the plant is a step of each part, or leaves it as it is.
LEMMA PartsMove ==
    ASSUME [PlantNext]_plantVars
    PROVE  /\ [AttendanceNext]_attendanceVars /\ [RosterNext]_rosterVars
           /\ [QualityNext]_<<floorVars, qualityVars>>
           /\ [FormsNext]_formVars /\ [DrillsNext]_drillVars
           /\ [SubmissionsNext]_submissionVars /\ [MigrationsNext]_migrationVars
BY DEF PlantNext, plantVars, peopleVars, jobVars, recordVars, serverVars

LEMMA PlantStep ==
    ASSUME PlantInv, [PlantNext]_plantVars
    PROVE  PlantInv' /\ ApprovesWhatWasSeen /\ AppliedStays /\ RecordStands /\ DecisionsStand
BY PartsMove, AttendanceStep, RosterStep, QualityStep, FormsStep, DrillsStep, SubmissionsStep, MigrationsStep DEF PlantInv

LEMMA AlwaysPlantInv == PlantSpec => []PlantInv
<1>1. PlantInit => PlantInv
  BY AttendanceInitInv, RosterInitInv, QualityInitInv, FormsInitInv, DrillsInitInv, SubmissionsInitInv, MigrationsInitInv
     DEF PlantInit, PlantInv
<1>2. PlantInv /\ [PlantNext]_plantVars => PlantInv'
  BY PlantStep
<1> QED
  BY <1>1, <1>2, PTL DEF PlantSpec

\* Whatever is lost, repeated or decided at once: sessions do not multiply, a
\* session that overlaps another came back from the archive, an approved
\* period has nothing left to settle, and nobody is rostered twice for one
\* shift.
THEOREM WorkforceStaysSound == PlantSpec => []WorkforceHolds
<1>1. PlantInv => WorkforceHolds
  BY AttendanceHolds, RosterInvHolds, QualityInvHolds, FormsHold, SubmissionsHold, MigrationsHold
     DEF PlantInv, DrillsInv, WorkforceHolds, PlantTypeOK
<1> QED
  BY <1>1, AlwaysPlantInv, PTL

\* An approved inspection, a release and its certificate rest on what was
\* measured; an approved record is what was signed; a decision about a drill
\* or its remediation is the recorded one.
THEOREM RecordsStaySound == PlantSpec => []RecordsHold
<1>1. PlantInv => RecordsHold
  BY QualityInvHolds, FormsHold DEF PlantInv, DrillsInv, RecordsHold
<1> QED
  BY <1>1, AlwaysPlantInv, PTL

\* However often a form is sent it is acted on once and answered with its own
\* answer; however many replicas start, what is called applied was executed,
\* and who serves has the schema of its build.
THEOREM ServersStaySound == PlantSpec => []ServersHold
<1>1. PlantInv => ServersHold
  BY SubmissionsHold, MigrationsHold DEF PlantInv, ServersHold
<1> QED
  BY <1>1, AlwaysPlantInv, PTL

\* A correction is of the session its author saw, an applied migration is
\* never replaced, an approved record never edited, and the first decision
\* about a drill or its remediation stands.
THEOREM NothingIsRewritten == PlantSpec => NothingRewritten
<1>1. PlantInv /\ [PlantNext]_plantVars =>
        /\ [ApprovesWhatWasSeen]_attendanceVars /\ [AppliedStays]_migrationVars
        /\ [RecordStands]_formVars /\ [DecisionsStand]_drillVars
  BY PlantStep
<1>2. PlantSpec => /\ [][ApprovesWhatWasSeen]_attendanceVars /\ [][AppliedStays]_migrationVars
                   /\ [][RecordStands]_formVars /\ [][DecisionsStand]_drillVars
  BY <1>1, AlwaysPlantInv, PTL DEF PlantSpec
<1> QED
  BY <1>2 DEF NothingRewritten, CorrectionOfWhatWasSeen, AppliedIsImmutable, SettledStands, FirstDecisionStands,
              ApprovesWhatWasSeen, AppliedStays, RecordStands, DecisionsStand
=============================================================================
