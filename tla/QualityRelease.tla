--------------------------- MODULE QualityRelease ---------------------------
(* From an inspection plan to the certificate of conformance:                *)
(* controllers/qms/inspectionController.js, qualityReleaseController.js, the *)
(* release gate of services/qmsGateService.js, and the holds and             *)
(* nonconformances of controllers/qmsOperationsController.js, over the       *)
(* production of ShopFloor.  Every document here is of one job, Order.       *)
(*                                                                           *)
(* Inspection handlers lock their plan or run and are one step.  A release   *)
(* locks the job, reads its gate in the snapshot of that moment, and locks   *)
(* the final inspection only afterwards.  Rows that refer to the job cannot  *)
(* be inserted under its lock; holds can, for they name it in a string.      *)
(* Concessions, nonconformances and certificates are checked without a lock  *)
(* and written afterwards.                                                   *)
EXTENDS ShopFloor, Sequences, FiniteSets

CONSTANTS Order,                  \* the job
          Plans, FinalPlans,      \* inspection_type: FINAL or another
          Characteristics, Blocking,
          Samples, Runs,
          Movers, Certifiers      \* requests under way at once

\* The job that is inspected and released is one of the shop floor's.
ASSUME QualityAssumption == Order \in Jobs

VARIABLES
    plan,         \* inspection_plans, with their characteristics
    run,          \* inspection_runs
    measurement,  \* inspection_measurements: result and measured_by
    concession,   \* a concession of the job
    approving,    \* who has checked the concession and not yet written
    held,         \* an active quality hold on the job
    ncr,          \* status of a nonconformance of the job
    moving,       \* the checked transition each mover is about to write
    releasing,    \* the release in progress: past its gate, holding the job
    releases,     \* production_releases, in order
    drafting,     \* what each certifier has read
    certificates  \* certificates_of_conformance, in order

qualityVars == <<plan, run, measurement, concession, approving, held, ncr, moving,
                 releasing, releases, drafting, certificates>>

inspectionVars == <<plan, run, measurement>>
gateVars == <<held, ncr, moving>>
concessionVars == <<concession, approving>>
paperVars == <<releasing, releases, drafting, certificates>>

Keys == Characteristics \X Samples
NoRun == [status |-> "none", plan |-> 0, by |-> Nobody, approver |-> Nobody]
NotMeasured == [result |-> "NONE", by |-> Nobody]
NotReleasing == [active |-> FALSE, conceded |-> FALSE]
NoDraft == [ready |-> FALSE, runs |-> {}, conceded |-> FALSE]

QualityInit ==
    /\ FloorInit
    /\ plan = [p \in Plans |-> [status |-> "none", has |-> {}]]
    /\ run = [r \in Runs |-> NoRun]
    /\ measurement = [r \in Runs |-> [k \in Keys |-> NotMeasured]]
    /\ concession = [status |-> "none", requester |-> Nobody, approver |-> Nobody, lapsed |-> FALSE]
    /\ approving = {}
    /\ held = FALSE
    /\ ncr = "none"
    /\ moving = [m \in Movers |-> "none"]
    /\ releasing = NotReleasing
    /\ releases = <<>>
    /\ drafting = [c \in Certifiers |-> NoDraft]
    /\ certificates = <<>>
-----------------------------------------------------------------------------
(* Plans and inspections.                                                    *)

Untouched == UNCHANGED <<floorVars, gateVars, concessionVars, paperVars>>

CreatePlan(p) ==
    /\ plan[p].status = "none"
    /\ plan' = [plan EXCEPT ![p].status = "DRAFT"]
    /\ UNCHANGED <<run, measurement>> /\ Untouched

\* "Approved inspection plans are immutable. Create a new controlled plan."
AddCharacteristic(p, c) ==
    /\ plan[p].status = "DRAFT" /\ c \notin plan[p].has
    /\ plan' = [plan EXCEPT ![p].has = @ \cup {c}]
    /\ UNCHANGED <<run, measurement>> /\ Untouched

ApprovePlan(p) ==
    /\ plan[p].status = "DRAFT" /\ plan[p].has # {}
    /\ plan' = [plan EXCEPT ![p].status = "APPROVED"]
    /\ UNCHANGED <<run, measurement>> /\ Untouched

JobIsFree == ~releasing.active

CreateRun(r, p, u) ==
    /\ run[r].status = "none" /\ \A q \in Runs : q < r => run[q].status # "none"
    /\ plan[p].status = "APPROVED"
    /\ JobIsFree
    /\ run' = [run EXCEPT ![r] = [status |-> "OPEN", plan |-> p, by |-> u, approver |-> Nobody]]
    /\ UNCHANGED <<plan, measurement>> /\ Untouched

\* Mutant: a completed inspection can still be measured.
MeasurableUntilApproved(r) == run[r].status \in {"OPEN", "PASS"}

\* "An open inspection run is required."
Measurable(r) == run[r].status = "OPEN"

\* A later measurement of the same sample replaces the earlier one, and its
\* measurer.
RecordMeasurement(r, k, u, result) ==
    /\ Measurable(r)
    /\ k[1] \in plan[run[r].plan].has
    /\ measurement' = [measurement EXCEPT ![r][k] = [result |-> result, by |-> u]]
    /\ UNCHANGED <<plan, run>> /\ Untouched

Results(r, c) == {measurement[r][<<c, s>>].result : s \in Samples} \ {"NONE"}

Blockers(r) == plan[run[r].plan].has \cap Blocking

CompleteRun(r) ==
    /\ run[r].status = "OPEN"
    /\ \A c \in Blockers(r) : Results(r, c) # {}
    /\ run' = [run EXCEPT ![r].status = IF \E c \in Blockers(r) : "FAIL" \in Results(r, c) THEN "FAIL" ELSE "PASS"]
    /\ UNCHANGED <<plan, measurement>> /\ Untouched

\* Mutant: who measured is not asked.
TookPartAsInspector(r, u) == run[r].by = u

\* "Separation of duties: the inspector or a measurer cannot provide final
\* approval."
TookPart(r, u) == run[r].by = u \/ \E k \in Keys : measurement[r][k].by = u

ApproveRun(r, u) ==
    /\ run[r].status = "PASS"
    /\ ~TookPart(r, u)
    /\ run' = [run EXCEPT ![r].status = "APPROVED", ![r].approver = u]
    /\ UNCHANGED <<plan, measurement>> /\ Untouched
-----------------------------------------------------------------------------
(* Concessions, holds and nonconformances.                                   *)

CreateConcession(u) ==
    /\ concession.status = "none" /\ JobIsFree
    /\ concession' = [concession EXCEPT !.status = "DRAFT", !.requester = u]
    /\ UNCHANGED <<floorVars, inspectionVars, approving, gateVars, paperVars>>

\* approveConcession, its checks ...
CheckConcession(u) ==
    /\ concession.status = "DRAFT" /\ ~concession.lapsed /\ concession.requester # u
    /\ approving' = approving \cup {u}
    /\ UNCHANGED <<floorVars, inspectionVars, concession, gateVars, paperVars>>

\* ... and its update, whatever happened since.
ApproveConcession(u) ==
    /\ u \in approving
    /\ approving' = approving \ {u}
    /\ concession' = [concession EXCEPT !.status = "APPROVED", !.approver = u]
    /\ UNCHANGED <<floorVars, inspectionVars, gateVars, paperVars>>

\* valid_until passes.
Lapse ==
    /\ concession.status # "none" /\ ~concession.lapsed
    /\ concession' = [concession EXCEPT !.lapsed = TRUE]
    /\ UNCHANGED <<floorVars, inspectionVars, approving, gateVars, paperVars>>

Conceded == concession.status = "APPROVED" /\ ~concession.lapsed

PlaceHold ==
    /\ ~held /\ held' = TRUE
    /\ UNCHANGED <<floorVars, inspectionVars, concessionVars, ncr, moving, paperVars>>

ReleaseHold ==
    /\ held /\ held' = FALSE
    /\ UNCHANGED <<floorVars, inspectionVars, concessionVars, ncr, moving, paperVars>>

CreateNcr(contained, hold) ==
    /\ ncr = "none" /\ JobIsFree
    /\ ncr' = IF contained THEN "CONTAINED" ELSE "CONTAINMENT_REQUIRED"
    /\ held' = (held \/ hold)
    /\ UNCHANGED <<floorVars, inspectionVars, concessionVars, moving, paperVars>>

Transitions ==
    [CONTAINMENT_REQUIRED |-> {"CONTAINED"}, CONTAINED |-> {"INVESTIGATION"},
     INVESTIGATION |-> {"DISPOSITION_REQUIRED"},
     DISPOSITION_REQUIRED |-> {"REWORK", "REINSPECTION", "APPROVAL"},
     REWORK |-> {"REINSPECTION"}, REINSPECTION |-> {"APPROVAL"}, APPROVAL |-> {"CLOSED"}]

\* transitionNcr, its check ...
CheckNcr(m, target) ==
    /\ moving[m] = "none" /\ ncr \in DOMAIN Transitions /\ target \in Transitions[ncr]
    /\ moving' = [moving EXCEPT ![m] = target]
    /\ UNCHANGED <<floorVars, inspectionVars, concessionVars, held, ncr, paperVars>>

\* ... and its update, from whatever status there is by then.
MoveNcr(m) ==
    /\ moving[m] # "none"
    /\ ncr' = moving[m]
    /\ moving' = [moving EXCEPT ![m] = "none"]
    /\ UNCHANGED <<floorVars, inspectionVars, concessionVars, held, paperVars>>
-----------------------------------------------------------------------------
(* Release and certificate.                                                  *)

\* jobReleaseReadiness
JobReleaseReadiness ==
    /\ ~held
    /\ \A r \in Runs : run[r].status # "FAIL"
    /\ ncr \in {"none", "CLOSED"}

\* Mutant: an earlier release is not looked for.
UnreleasedOnce == job[Order] \notin Closed \/ Len(releases) > 0

\* No release yet, and a status that permits one.
Unreleased == Len(releases) = 0 /\ job[Order] \notin Closed

\* releaseJob up to its gate: the job stays locked.
BeginRelease ==
    /\ JobIsFree /\ Unreleased
    /\ JobReleaseReadiness
    /\ releasing' = [active |-> TRUE, conceded |-> Conceded]
    /\ UNCHANGED <<floorVars, inspectionVars, gateVars, concessionVars, releases, drafting, certificates>>

FinalRuns == {r \in Runs : run[r].status = "APPROVED" /\ run[r].plan \in FinalPlans}

\* The latest final inspection; a completion is dated to the second, so it may
\* be any of them.
CommitRelease(r) ==
    /\ releasing.active /\ r \in FinalRuns
    /\ releases' = Append(releases, [run |-> r, conceded |-> releasing.conceded])
    /\ job' = [job EXCEPT ![Order] = "FINAL_RELEASE"]
    /\ releasing' = NotReleasing
    /\ UNCHANGED <<operation, machine, inspectionVars, gateVars, concessionVars, drafting, certificates>>

\* No approved final inspection, an error or a crash: rolled back.
AbandonRelease ==
    /\ releasing.active
    /\ releasing' = NotReleasing
    /\ UNCHANGED <<floorVars, inspectionVars, gateVars, concessionVars, releases, drafting, certificates>>

\* issueCoc: what is certified is read without a lock ...
ReadCertificate(c) ==
    /\ ~drafting[c].ready /\ Len(releases) > 0 /\ certificates = <<>>
    /\ FinalRuns # {}
    /\ drafting' = [drafting EXCEPT ![c] =
           [ready |-> TRUE, runs |-> {r \in Runs : run[r].status = "APPROVED"}, conceded |-> Conceded]]
    /\ UNCHANGED <<floorVars, inspectionVars, gateVars, concessionVars, releasing, releases, certificates>>

\* Mutant: the certificate is written as it was found missing before the lock.
IssueAnyway(c) == Append(certificates, [runs |-> drafting[c].runs, conceded |-> drafting[c].conceded])

\* The certificate that a lock of the release finds is returned instead.
Issue(c) ==
    IF certificates # <<>> THEN certificates
    ELSE Append(certificates, [runs |-> drafting[c].runs, conceded |-> drafting[c].conceded])

\* ... and written under the lock of the release.
WriteCertificate(c) ==
    /\ drafting[c].ready
    /\ certificates' = Issue(c)
    /\ drafting' = [drafting EXCEPT ![c] = NoDraft]
    /\ UNCHANGED <<floorVars, inspectionVars, gateVars, concessionVars, releasing, releases>>

Inspection ==
    \/ \E p \in Plans : CreatePlan(p) \/ ApprovePlan(p) \/ \E c \in Characteristics : AddCharacteristic(p, c)
    \/ \E r \in Runs :
          \/ CompleteRun(r)
          \/ \E u \in People :
                \/ ApproveRun(r, u)
                \/ \E p \in Plans : CreateRun(r, p, u)
                \/ \E k \in Keys, result \in {"PASS", "FAIL"} : RecordMeasurement(r, k, u, result)

QualityNext ==
    \/ Inspection
    \/ \E u \in People : CreateConcession(u) \/ CheckConcession(u) \/ ApproveConcession(u)
    \/ Lapse \/ PlaceHold \/ ReleaseHold
    \/ \E contained, hold \in BOOLEAN : CreateNcr(contained, hold)
    \/ \E m \in Movers : MoveNcr(m) \/ \E target \in UNION {Transitions[s] : s \in DOMAIN Transitions} : CheckNcr(m, target)
    \/ BeginRelease \/ AbandonRelease \/ \E r \in Runs : CommitRelease(r)
    \/ \E c \in Certifiers : ReadCertificate(c) \/ WriteCertificate(c)
    \/ \E o \in Operations : FloorStep(o) /\ (o[1] = Order => JobIsFree) /\ UNCHANGED qualityVars
-----------------------------------------------------------------------------
QualityTypeOK ==
    /\ FloorTypeOK
    /\ plan \in [Plans -> [status : {"none", "DRAFT", "APPROVED"}, has : SUBSET Characteristics]]
    /\ run \in [Runs -> [status : {"none", "OPEN", "PASS", "FAIL", "APPROVED"}, plan : Plans \cup {0},
                         by : People \cup {Nobody}, approver : People \cup {Nobody}]]
    /\ \A r \in Runs, k \in Keys : measurement[r][k].result \in {"NONE", "PASS", "FAIL"}
    /\ held \in BOOLEAN

\* A passed or approved inspection has passing measurements for all its plan
\* requires, and the approver neither inspected nor made any of them: neither
\* the plan nor a measurement changes behind it.
InspectionsStand ==
    \A r \in Runs : run[r].status \in {"PASS", "APPROVED"} =>
        /\ plan[run[r].plan].status = "APPROVED"
        /\ \A c \in Blockers(r) : Results(r, c) = {"PASS"}
        /\ run[r].status = "APPROVED" =>
              run[r].by # run[r].approver /\ \A k \in Keys : measurement[r][k].by # run[r].approver

\* A job has one release, which is why it is released, and the release rests
\* on an approved final inspection, whatever was done to the job, its holds
\* and its inspections while the release was decided.
ReleasesStand ==
    /\ Len(releases) <= 1
    /\ Len(releases) = 1 <=> job[Order] = "FINAL_RELEASE"
    /\ \A i \in 1..Len(releases) : releases[i].run \in FinalRuns

\* A release has one certificate, however many ask for it at once; it names
\* the inspection of the release and, unless it lapsed, its concession.
CertificatesStand ==
    /\ Len(certificates) <= 1
    /\ \A i \in 1..Len(certificates) :
          /\ releases[1].run \in certificates[i].runs
          /\ releases[1].conceded => certificates[i].conceded \/ concession.lapsed

QualityHolds == InspectionsStand /\ ReleasesStand /\ CertificatesStand /\ MachineAgrees /\ FinishedIsInspected

\* A closed nonconformance stays closed: the code's transition table has no
\* way out of CLOSED.
ClosedStaysClosed == [][ncr = "CLOSED" => ncr' = "CLOSED"]_qualityVars
=============================================================================
