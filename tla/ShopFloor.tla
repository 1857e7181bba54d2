----------------------------- MODULE ShopFloor ------------------------------
(* Production on the shop floor: transitionOperation of                      *)
(* controllers/qmsShopFloorController.js.  One call is one transaction that  *)
(* locks the operation and its job, then the machine; what it reads after    *)
(* that no other call can change, so it is one step.  Two calls that lock a  *)
(* machine and an operation in opposite orders are a deadlock the database   *)
(* ends by undoing one of them.                                              *)
(*                                                                           *)
(* The machine is one that all operations share.  Its readiness and the      *)
(* operator's only ever refuse a start: they are left to chance.  Jobs,      *)
(* operations and machines are entered by another program.                   *)
EXTENDS Naturals

CONSTANTS Jobs, Steps,       \* an operation is a step of a job
          People, Managers,  \* Managers: those who may act for any operator
          Nobody

\* A job that can be started has operations.
ASSUME FloorAssumption == Steps # {}

Operations == Jobs \X Steps

VARIABLES
    job,        \* manufacturing_jobs: status
    operation,  \* job_operations
    machine     \* equipment_assets: status

floorVars == <<job, operation, machine>>

Unstarted == [status |-> "READY", owner |-> Nobody, starter |-> Nobody]

\* An operation of old was started without an owner; the log of events may
\* tell who started it.
FloorInit ==
    \/ /\ job = [j \in Jobs |-> "READY"]
       /\ operation = [o \in Operations |-> Unstarted]
       /\ machine = "READY"
    \/ \E old \in Operations, u \in People \cup {Nobody} :
          /\ job = [j \in Jobs |-> IF j = old[1] THEN "IN_PRODUCTION" ELSE "READY"]
          /\ operation = [o \in Operations |->
                 IF o = old THEN [status |-> "RUNNING", owner |-> Nobody, starter |-> u] ELSE Unstarted]
          /\ machine = "RUNNING"
-----------------------------------------------------------------------------
OperationsOf(j) == {o \in Operations : o[1] = j}
Running == {o \in Operations : operation[o].status = "RUNNING"}

OwnerOf(o) == IF operation[o].owner # Nobody THEN operation[o].owner ELSE operation[o].starter

MayTurn(o, u, fresh) ==
    \/ u \in Managers
    \/ OwnerOf(o) = u
    \/ fresh /\ OwnerOf(o) = Nobody

\* "The job status blocks this production operation."
Closed == {"QUALITY_HOLD", "CANCELLED", "FINAL_RELEASE", "PACKING", "DISPATCHED", "COMPLETE"}

Turn(o, u, status) ==
    operation' = [operation EXCEPT ![o] =
        [status |-> status, owner |-> IF OwnerOf(o) = Nobody THEN u ELSE OwnerOf(o), starter |-> Nobody]]

\* START and RESUME
StartOperation(o, u) ==
    /\ operation[o].status \in {"READY", "PAUSED"}
    /\ MayTurn(o, u, operation[o].status = "READY")
    /\ job[o[1]] \notin Closed
    /\ Turn(o, u, "RUNNING")
    /\ job' = [job EXCEPT ![o[1]] = "IN_PRODUCTION"]
    /\ machine' = "RUNNING"

\* Mutant: the machine is ready as soon as one operation leaves it.
LeaveMachineAtOnce(o) == machine' = IF machine = "RUNNING" THEN "READY" ELSE machine

\* The machine is ready when no other operation runs on it.
LeaveMachine(o) == machine' = IF machine = "RUNNING" /\ Running \ {o} = {} THEN "READY" ELSE machine

PauseOperation(o, u) ==
    /\ operation[o].status = "RUNNING"
    /\ MayTurn(o, u, FALSE)
    /\ Turn(o, u, "PAUSED")
    /\ LeaveMachine(o)
    /\ UNCHANGED job

CompleteOperation(o, u) ==
    LET rest == OperationsOf(o[1]) \ {o} IN
    /\ operation[o].status \in {"RUNNING", "PAUSED"}
    /\ MayTurn(o, u, FALSE)
    /\ job[o[1]] \notin Closed
    /\ Turn(o, u, "COMPLETE")
    /\ LeaveMachine(o)
    /\ job' = IF job[o[1]] = "IN_PRODUCTION" /\ \A r \in rest : operation[r].status = "COMPLETE"
              THEN [job EXCEPT ![o[1]] = "INSPECTION"] ELSE job

FloorStep(o) ==
    \E u \in People : StartOperation(o, u) \/ PauseOperation(o, u) \/ CompleteOperation(o, u)
-----------------------------------------------------------------------------
FloorTypeOK ==
    /\ job \in [Jobs -> {"READY", "IN_PRODUCTION", "INSPECTION", "FINAL_RELEASE"}]
    /\ operation \in [Operations -> [status : {"READY", "RUNNING", "PAUSED", "COMPLETE"},
                                     owner : People \cup {Nobody}, starter : People \cup {Nobody}]]
    /\ machine \in {"READY", "RUNNING"}

\* The machine's status is what its operations say, whichever of several
\* operations on it started last and stops first.
MachineAgrees == machine = "RUNNING" <=> Running # {}

\* A job waits for inspection once all its operations are complete, and not
\* before.
FinishedIsInspected ==
    \A j \in Jobs : job[j] # "FINAL_RELEASE" =>
        (job[j] = "INSPECTION" <=> \A o \in OperationsOf(j) : operation[o].status = "COMPLETE")
=============================================================================
