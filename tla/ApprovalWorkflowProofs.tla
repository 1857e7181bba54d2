----------------------- MODULE ApprovalWorkflowProofs -----------------------
(***************************************************************************)
(* Invariants of ApprovalWorkflow for any number of users, requests,       *)
(* versions and job runs, proved with TLAPS.                               *)
(***************************************************************************)
EXTENDS ApprovalWorkflow, FiniteSetTheorems, TLAPS

-----------------------------------------------------------------------------
(* Constants.                                                              *)

LEMMA ElementOfSeq ==
  ASSUME NEW S, NEW q \in Seq(S), NEW n \in DOMAIN q
  PROVE  q[n] \in S
OBVIOUS

LEMMA VersionSteps ==
  ASSUME NEW v \in DOMAIN Definitions
  PROVE  /\ Definitions[v].self \in BOOLEAN
         /\ Definitions[v].steps \in Seq([mode : {"ANY", "ALL"}, minimum : Nat \ {0},
                                          approvers : SUBSET Reviewers,
                                          escalation : SUBSET Users])
         /\ Len(Definitions[v].steps) \in Nat \ {0}
         /\ DOMAIN Definitions[v].steps = 1..Len(Definitions[v].steps)
         /\ DOMAIN Definitions[v].steps \subseteq Steps
         /\ 1 \in Steps
<1>1. Definitions[v] \in [self : BOOLEAN,
                          steps : Seq([mode : {"ANY", "ALL"}, minimum : Nat \ {0},
                                       approvers : SUBSET Reviewers,
                                       escalation : SUBSET Users])]
  BY WorkflowConstants, ElementOfSeq
<1>2. Len(Definitions[v].steps) \in 1..10
  BY WorkflowConstants
<1>3. DOMAIN Definitions[v].steps = 1..Len(Definitions[v].steps)
  BY <1>1
<1>4. DOMAIN Definitions[v].steps \subseteq Steps
  <2>1. \A n \in 1..10 : \A s \in 1..n : s \in 1..10
    OBVIOUS
  <2> QED BY <1>2, <1>3, <2>1 DEF Steps
<1>5. \A n \in 1..10 : 1 \in 1..n
  OBVIOUS
<1>6. 1 \in Steps
  BY <1>2, <1>3, <1>4, <1>5
<1>7. /\ Definitions[v].self \in BOOLEAN
      /\ Definitions[v].steps \in Seq([mode : {"ANY", "ALL"}, minimum : Nat \ {0},
                                       approvers : SUBSET Reviewers,
                                       escalation : SUBSET Users])
  BY <1>1
<1>8. Len(Definitions[v].steps) \in Nat \ {0}
  <2>1. \A n \in 1..10 : n \in Nat \ {0}
    OBVIOUS
  <2> QED BY <1>2, <2>1
<1> QED BY <1>3, <1>4, <1>6, <1>7, <1>8

LEMMA StepsAreNumbers == Steps \subseteq Nat \ {0}
<1>1. \A v \in DOMAIN Definitions : DOMAIN Definitions[v].steps \subseteq Nat \ {0}
  BY VersionSteps
<1> QED BY <1>1 DEF Steps

LEMMA FirstVersion == 1 \in DOMAIN Definitions
  BY WorkflowConstants

LEMMA TimesOK ==
  /\ Times \subseteq Int /\ 0 \in Times
  /\ \A t \in 0..MaxTime : t + Sla \in Times /\ t + Grace \in Times
BY WorkflowConstants DEF Times

-----------------------------------------------------------------------------
(* What the table operators return.                                        *)

LEMMA AssignType ==
  ASSUME NEW table \in [Rows -> Assignment], NEW i, NEW s, NEW users, NEW due \in Times
  PROVE  Assign(table, i, s, users, due) \in [Rows -> Assignment]
<1>1. Row("PENDING", due) \in Assignment
  BY DEF Row, Assignment, AssignmentStatus
<1> QED BY <1>1 DEF Assign

LEMMA CloseType ==
  ASSUME NEW table \in [Rows -> Assignment], NEW rows, NEW status \in AssignmentStatus
  PROVE  Close(table, rows, status) \in [Rows -> Assignment]
<1>1. \A a \in Rows : [table[a] EXCEPT !.status = status] \in Assignment
  BY DEF Assignment
<1> QED BY <1>1 DEF Close

LEMMA DecidedType ==
  ASSUME TypeOK, NEW i \in Instances, NEW u \in Users, NEW status \in AssignmentStatus
  PROVE  Decided(i, u, status) \in [Rows -> Assignment]
<1>1. \A a \in Rows : [assignments[a] EXCEPT !.status = status] \in Assignment
  BY DEF TypeOK, Assignment
<1> QED BY <1>1 DEF TypeOK, Decided

-----------------------------------------------------------------------------
(* Type correctness.                                                       *)

LEMMA CurrentStep ==
  ASSUME TypeOK, NEW i \in Instances, NEW u \in Users
  PROVE  /\ <<i, instances[i].step, u>> \in Rows
         /\ instances[i].version \in DOMAIN Definitions
         /\ instances[i].step \in Steps
         /\ instances[i].requester \in Users
         /\ instances[i].status \in InstanceStatus
BY DEF TypeOK, Instance, Rows

LEMMA InstanceUpdate ==
  ASSUME TypeOK, NEW i \in Instances, NEW status \in InstanceStatus, NEW s \in Steps
  PROVE  /\ [instances EXCEPT ![i].status = status] \in [Instances -> Instance]
         /\ [instances EXCEPT ![i].status = status, ![i].step = s] \in [Instances -> Instance]
BY DEF TypeOK, Instance

LEMMA StatusForType ==
  ASSUME NEW ready
  PROVE  StatusFor(ready) \in Active /\ StatusFor(ready) \in InstanceStatus
BY DEF StatusFor, Active, InstanceStatus

\* A step of version v that is not the last has a successor.
LEMMA NextStep ==
  ASSUME TypeOK, NEW i \in Instances, ~LastStep(i),
         instances[i].step \in DOMAIN Definitions[instances[i].version].steps
  PROVE  instances[i].step + 1 \in DOMAIN Definitions[instances[i].version].steps
<1> DEFINE n == Len(Definitions[instances[i].version].steps)
<1>1. /\ n \in Nat
      /\ DOMAIN Definitions[instances[i].version].steps = 1..n
  BY CurrentStep, VersionSteps, WorkflowConstants DEF TypeOK, Instance
<1>2. instances[i].step # n
  BY DEF LastStep
<1> HIDE DEF n
<1> QED BY <1>1, <1>2

-----------------------------------------------------------------------------
\* A request is at a step of its own version.
StepInVersion ==
  \A i \in Instances : instances[i].step \in DOMAIN Definitions[instances[i].version].steps

TableOK == instances \in [Instances -> Instance] /\ assignments \in [Rows -> Assignment]

LEMMA TypeInit == Init => TypeOK /\ StepInVersion
<1> SUFFICES ASSUME Init PROVE TypeOK /\ StepInVersion
  OBVIOUS
<1>1. 1 \in DOMAIN Definitions
  BY FirstVersion
<1>2. 1 \in DOMAIN Definitions[1].steps /\ 1 \in Steps
  BY <1>1, VersionSteps
<1>3. instances \in [Instances -> Instance] /\ StepInVersion
  BY <1>1, <1>2 DEF Init, Instance, InstanceStatus, StepInVersion
<1>4. Row("NONE", 0) \in Assignment
  BY TimesOK DEF Row, Assignment, AssignmentStatus
<1>5. assignments \in [Rows -> Assignment]
  BY <1>4 DEF Init
<1>6. clock \in 0..MaxTime /\ batch \in [Sweepers -> SUBSET (Rows \X Times)]
  BY WorkflowConstants DEF Init
<1> QED BY <1>1, <1>3, <1>5, <1>6 DEF Init, TypeOK

LEMMA StartType ==
  ASSUME TypeOK, StepInVersion, NEW i \in Instances, NEW u \in Users, Start(i, u)
  PROVE  TableOK' /\ StepInVersion'
<1> DEFINE approvers == Resolve(published, 1, u)
           status    == StatusFor(Ready(Definitions[published].steps[1], Cardinality(approvers)))
<1>1. status \in InstanceStatus
  BY StatusForType
<1>2. published \in DOMAIN Definitions /\ clock + Sla \in Times
  BY TimesOK DEF TypeOK
<1>3. 1 \in DOMAIN Definitions[published].steps /\ 1 \in Steps
  BY <1>2, VersionSteps
<1>4. /\ instances' = [instances EXCEPT ![i] =
             [status |-> status, version |-> published, step |-> 1, requester |-> u]]
      /\ assignments' = Assign(assignments, i, 1, approvers, clock + Sla)
  BY DEF Start
<1> HIDE DEF approvers, status
<1>5. assignments' \in [Rows -> Assignment]
  BY <1>2, <1>4, AssignType DEF TypeOK
<1>6. [status |-> status, version |-> published, step |-> 1, requester |-> u] \in Instance
  BY <1>1, <1>2, <1>3 DEF Instance
<1>7. instances' \in [Instances -> Instance]
  BY <1>4, <1>6 DEF TypeOK
<1>8. StepInVersion'
  BY <1>3, <1>4 DEF StepInVersion, TypeOK
<1> QED BY <1>5, <1>7, <1>8 DEF TableOK

LEMMA ReviewType ==
  ASSUME TypeOK, StepInVersion, NEW i \in Instances, NEW u \in Users, Review(i, u)
  PROVE  TableOK' /\ StepInVersion'
<1>1. \A status \in AssignmentStatus : Decided(i, u, status) \in [Rows -> Assignment]
  BY DecidedType
<1>2. {"APPROVED", "REJECTED", "CHANGES_REQUESTED", "SKIPPED", "CANCELLED"} \subseteq AssignmentStatus
  BY DEF AssignmentStatus
<1>3. Close(Decided(i, u, "APPROVED"), StepRows(i), "SKIPPED") \in [Rows -> Assignment]
  BY <1>1, <1>2, CloseType
<1>4. CASE ApproveMore(i, u)
  BY <1>1, <1>2, <1>4 DEF ApproveMore, TypeOK, TableOK, StepInVersion
<1>5. CASE ApproveStep(i, u)
  <2> DEFINE s == instances[i].step + 1
             v == instances[i].version
             approvers == Resolve(v, s, instances[i].requester)
             status == StatusFor(Ready(Definitions[v].steps[s], Cardinality(approvers)))
  <2>1. /\ instances' = [instances EXCEPT ![i].status = status, ![i].step = s]
        /\ assignments' = Assign(Close(Decided(i, u, "APPROVED"), StepRows(i), "SKIPPED"),
                                 i, s, approvers, clock + Sla)
    BY <1>5 DEF ApproveStep
  <2>2. status \in InstanceStatus /\ clock + Sla \in Times
    BY StatusForType, TimesOK DEF TypeOK
  <2>3. v \in DOMAIN Definitions /\ s \in DOMAIN Definitions[v].steps
    BY <1>5, CurrentStep, NextStep DEF ApproveStep, StepInVersion
  <2>4. s \in Steps
    BY <2>3, VersionSteps
  <2> HIDE DEF approvers, status
  <2>5. assignments' \in [Rows -> Assignment]
    BY <1>3, <2>1, <2>2, AssignType
  <2>6. instances' \in [Instances -> Instance]
    BY <2>1, <2>2, <2>4, InstanceUpdate
  <2>7. StepInVersion'
    BY <2>1, <2>3 DEF StepInVersion, TypeOK, Instance
  <2> QED BY <2>5, <2>6, <2>7 DEF TableOK
<1>6. CASE ApproveRequest(i, u)
  <2>1. "APPROVED" \in InstanceStatus
    BY DEF InstanceStatus, Final
  <2>2. instances' \in [Instances -> Instance] /\ StepInVersion'
    BY <1>6, <2>1 DEF ApproveRequest, TypeOK, Instance, StepInVersion
  <2> QED BY <1>3, <1>6, <2>2 DEF ApproveRequest, TableOK
<1>7. CASE Reject(i, u) \/ RequestChanges(i, u)
  <2>1. PICK decision \in {"REJECTED", "CHANGES_REQUESTED"}, status \in {"REJECTED", "NEEDS_CHANGES"} :
               Decline(i, u, decision, status)
    BY <1>7 DEF Reject, RequestChanges
  <2>2. assignments' \in [Rows -> Assignment]
    <3>1. Decided(i, u, decision) \in [Rows -> Assignment]
      BY <1>1, <1>2
    <3>2. Close(Decided(i, u, decision), InstanceRows(i), "CANCELLED") \in [Rows -> Assignment]
      BY <1>2, <3>1, CloseType
    <3> QED BY <2>1, <3>2 DEF Decline
  <2>3. status \in InstanceStatus
    BY DEF InstanceStatus, Final
  <2>4. instances' \in [Instances -> Instance] /\ StepInVersion'
    BY <2>1, <2>3 DEF Decline, TypeOK, Instance, StepInVersion
  <2> QED BY <2>2, <2>4 DEF TableOK
<1> QED BY <1>4, <1>5, <1>6, <1>7 DEF Review

LEMMA CancelType ==
  ASSUME TypeOK, StepInVersion, NEW i \in Instances, Cancel(i)
  PROVE  TableOK' /\ StepInVersion'
<1>1. "CANCELLED" \in InstanceStatus /\ "CANCELLED" \in AssignmentStatus
  BY DEF InstanceStatus, Final, AssignmentStatus
<1>2. assignments' \in [Rows -> Assignment]
  BY <1>1, CloseType DEF Cancel, TypeOK
<1>3. instances' \in [Instances -> Instance] /\ StepInVersion'
  BY <1>1 DEF Cancel, TypeOK, Instance, StepInVersion
<1> QED BY <1>2, <1>3 DEF TableOK

\* The rows and the requests a reassignment to u leaves.
Renewed(i, u) ==
  LET dropped == IF instances[i].status = "PENDING" THEN StepRows(i) ELSE {}
      mine    == <<i, instances[i].step, u>>
  IN  [Close(assignments, dropped, "CANCELLED")
         EXCEPT ![mine].status = "PENDING", ![mine].due = NewDeadline(mine)]

HeldAfter(i, u) == {a \in StepRows(i) : Renewed(i, u)[a].status \in {"PENDING", "APPROVED"}}

LEMMA ReassignEffect ==
  ASSUME NEW i \in Instances, NEW u \in Users, Reassign(i, u)
  PROVE  /\ assignments' = Renewed(i, u)
         /\ instances' = [instances EXCEPT ![i].status =
                            StatusFor(Ready(StepOf(i), Cardinality(HeldAfter(i, u))))]
BY DEF Reassign, Renewed, HeldAfter

LEMMA ReassignType ==
  ASSUME TypeOK, StepInVersion, NEW i \in Instances, NEW u \in Users, Reassign(i, u)
  PROVE  TableOK' /\ StepInVersion'
<1> DEFINE status == StatusFor(Ready(StepOf(i), Cardinality(HeldAfter(i, u))))
           dropped == IF instances[i].status = "PENDING" THEN StepRows(i) ELSE {}
           table == Close(assignments, dropped, "CANCELLED")
           mine == <<i, instances[i].step, u>>
<1>1. status \in InstanceStatus
  BY StatusForType
<1>2. table \in [Rows -> Assignment]
  BY CloseType DEF TypeOK, AssignmentStatus
<1>3. assignments' = [table EXCEPT ![mine].status = "PENDING", ![mine].due = NewDeadline(mine)]
  BY ReassignEffect DEF Renewed
<1>4. NewDeadline(mine) \in Times
  BY TimesOK DEF TypeOK, NewDeadline
<1>5. instances' = [instances EXCEPT ![i].status = status]
  BY ReassignEffect
<1> HIDE DEF status, dropped, table, mine
<1>6. \A a \in Rows : [table[a] EXCEPT !.status = "PENDING", !.due = NewDeadline(mine)] \in Assignment
  BY <1>2, <1>4 DEF Assignment, AssignmentStatus
<1>7. assignments' \in [Rows -> Assignment]
  BY <1>2, <1>3, <1>6
<1>8. instances' \in [Instances -> Instance] /\ StepInVersion'
  BY <1>1, <1>5 DEF TypeOK, Instance, StepInVersion
<1> QED BY <1>7, <1>8 DEF TableOK

LEMMA ProcessType ==
  ASSUME TypeOK, NEW w \in Sweepers, NEW a, NEW due, Process(w, a, due)
  PROVE  TableOK' /\ a \in Rows /\ batch' \in [Sweepers -> SUBSET (Rows \X Times)]
<1>1. /\ <<a, due>> \in batch[w]
      /\ batch' = [batch EXCEPT ![w] = @ \ {<<a, due>>}]
  BY DEF Process, PassOver, WarnSoon, Escalate, Take
<1>2. a \in Rows /\ batch' \in [Sweepers -> SUBSET (Rows \X Times)]
  BY <1>1 DEF TypeOK
<1>3. instances' = instances
  BY DEF Process, PassOver, WarnSoon, Escalate
<1>4. assignments' \in [Rows -> Assignment]
  <2>1. CASE PassOver(w, a, due)
    BY <2>1 DEF PassOver, TypeOK
  <2>2. CASE WarnSoon(w, a, due)
    BY <1>2, <2>2 DEF WarnSoon, TypeOK, Assignment
  <2>3. CASE Escalate(w, a, due)
    <3>1. [assignments EXCEPT ![a].breached = assignments[a].due] \in [Rows -> Assignment]
      BY <1>2 DEF TypeOK, Assignment
    <3>2. clock + Grace \in Times
      BY TimesOK DEF TypeOK
    <3> QED BY <2>3, <3>1, <3>2, AssignType DEF Escalate
  <2> QED BY <2>1, <2>2, <2>3 DEF Process
<1> QED BY <1>2, <1>3, <1>4 DEF TableOK, TypeOK

LEMMA TypeNext == TypeOK /\ StepInVersion /\ [Next]_vars => TypeOK' /\ StepInVersion'
<1> SUFFICES ASSUME TypeOK, StepInVersion, [Next]_vars PROVE TypeOK' /\ StepInVersion'
  OBVIOUS
<1>0. TableOK
  BY DEF TypeOK, TableOK
<1>1. CASE Publish
  BY <1>0, <1>1 DEF Publish, TypeOK, StepInVersion
<1>2. CASE \E i \in Instances : Cancel(i)
  BY <1>2, CancelType DEF Cancel, TypeOK, TableOK
<1>3. CASE \E i \in Instances, u \in Users : Start(i, u)
  BY <1>3, StartType DEF Start, TypeOK, TableOK
<1>4. CASE \E i \in Instances, u \in Users : Review(i, u)
  BY <1>4, ReviewType DEF Review, ApproveMore, ApproveStep, ApproveRequest, Reject,
                          RequestChanges, Decline, TypeOK, TableOK
<1>5. CASE \E i \in Instances, u \in Users : Reassign(i, u)
  BY <1>5, ReassignType DEF Reassign, TypeOK, TableOK
<1>6. CASE \E w \in Sweepers : Select(w) \/ Abandon(w)
  <2> PICK w \in Sweepers : Select(w) \/ Abandon(w)
    BY <1>6
  <2>1. CASE Abandon(w)
    BY <2>1 DEF Abandon, TypeOK, StepInVersion
  <2>2. CASE Select(w)
    <3>1. PICK chosen \in SUBSET Rows :
                 batch' = [batch EXCEPT ![w] = {<<a, assignments[a].due>> : a \in chosen}]
      BY <2>2 DEF Select
    <3>2. {<<a, assignments[a].due>> : a \in chosen} \in SUBSET (Rows \X Times)
      BY DEF TypeOK, Assignment
    <3> QED BY <2>2, <3>1, <3>2 DEF Select, TypeOK, StepInVersion
  <2> QED BY <2>1, <2>2
<1>7. CASE \E w \in Sweepers : \E e \in batch[w] : Process(w, e[1], e[2])
  BY <1>7, ProcessType DEF Process, PassOver, WarnSoon, Escalate, TypeOK, TableOK, StepInVersion
<1>8. CASE Tick
  BY <1>8, WorkflowConstants DEF Tick, TypeOK, StepInVersion
<1>9. CASE UNCHANGED vars
  BY <1>9 DEF vars, TypeOK, StepInVersion
<1> QED BY <1>1, <1>2, <1>3, <1>4, <1>5, <1>6, <1>7, <1>8, <1>9 DEF Next

LEMMA TypeAlways == Spec => [](TypeOK /\ StepInVersion)
<1>1. Init => TypeOK /\ StepInVersion
  BY TypeInit
<1>2. TypeOK /\ StepInVersion /\ [Next]_vars => (TypeOK /\ StepInVersion)'
  BY TypeNext
<1> QED BY <1>1, <1>2, PTL DEF Spec

\* Every reachable state of the workflow's tables is well typed.
THEOREM TypeCorrect == Spec => []TypeOK
  BY TypeAlways, PTL

-----------------------------------------------------------------------------
(* An operation on one request leaves the others and their reviews alone.  *)

Operation(i) == Cancel(i) \/ \E u \in Users : Start(i, u) \/ Review(i, u) \/ Reassign(i, u)

Local(i) ==
  /\ \A j \in Instances : j # i => instances'[j] = instances[j]
  /\ \A a \in Rows : a[1] # i => assignments'[a] = assignments[a]

LEMMA AssignLocal ==
  ASSUME NEW table, NEW i, NEW s, NEW users, NEW due
  PROVE  \A a \in Rows : a[1] # i => Assign(table, i, s, users, due)[a] = table[a]
BY DEF Assign

LEMMA CloseLocal ==
  ASSUME NEW table, NEW i, NEW rows, rows \subseteq InstanceRows(i), NEW status
  PROVE  \A a \in Rows : a[1] # i => Close(table, rows, status)[a] = table[a]
BY DEF Close, InstanceRows

LEMMA DecidedLocal ==
  ASSUME TypeOK, NEW i \in Instances, NEW u \in Users, NEW status
  PROVE  \A a \in Rows : a[1] # i => Decided(i, u, status)[a] = assignments[a]
BY DEF Decided, TypeOK

LEMMA RowsOfInstance == \A i : StepRows(i) \subseteq InstanceRows(i)
BY DEF StepRows, InstanceRows

LEMMA OperationLocal ==
  ASSUME TypeOK, NEW i \in Instances, Operation(i)
  PROVE  Local(i)
<1>1. CASE Cancel(i)
  <2>1. \A a \in Rows : a[1] # i =>
            Close(assignments, InstanceRows(i), "CANCELLED")[a] = assignments[a]
    BY CloseLocal
  <2> QED BY <1>1, <2>1 DEF Cancel, Local, TypeOK
<1>2. CASE \E u \in Users : Start(i, u)
  BY <1>2, AssignLocal DEF Start, Local, TypeOK
<1>3. CASE \E u \in Users : Review(i, u)
  <2> PICK u \in Users : Review(i, u)
    BY <1>3
  <2> DEFINE approved == Decided(i, u, "APPROVED")
             skipped == Close(approved, StepRows(i), "SKIPPED")
  <2>1. \A a \in Rows : a[1] # i => approved[a] = assignments[a] /\ skipped[a] = assignments[a]
    BY DecidedLocal, CloseLocal, RowsOfInstance
  <2> HIDE DEF approved, skipped
  <2>2. CASE ApproveMore(i, u)
    BY <2>1, <2>2 DEF ApproveMore, Local, approved
  <2>3. CASE ApproveStep(i, u)
    <3> DEFINE s == instances[i].step + 1
               v == instances[i].version
               approvers == Resolve(v, s, instances[i].requester)
               status == StatusFor(Ready(Definitions[v].steps[s], Cardinality(approvers)))
    <3>1. /\ instances' = [instances EXCEPT ![i].status = status, ![i].step = s]
          /\ assignments' = Assign(skipped, i, s, approvers, clock + Sla)
      BY <2>3 DEF ApproveStep, approved, skipped
    <3> HIDE DEF approvers, status, s
    <3> QED BY <2>1, <3>1, AssignLocal DEF Local, TypeOK
  <2>4. CASE ApproveRequest(i, u)
    BY <2>1, <2>4 DEF ApproveRequest, Local, approved, skipped, TypeOK
  <2>5. CASE Reject(i, u) \/ RequestChanges(i, u)
    <3>1. PICK decision, status : Decline(i, u, decision, status)
      BY <2>5 DEF Reject, RequestChanges
    <3>2. \A a \in Rows : a[1] # i =>
              Close(Decided(i, u, decision), InstanceRows(i), "CANCELLED")[a] = assignments[a]
      BY DecidedLocal, CloseLocal
    <3> QED BY <3>1, <3>2 DEF Decline, Local, TypeOK
  <2> QED BY <2>2, <2>3, <2>4, <2>5 DEF Review
<1>4. CASE \E u \in Users : Reassign(i, u)
  <2> PICK u \in Users : Reassign(i, u)
    BY <1>4
  <2> DEFINE dropped == IF instances[i].status = "PENDING" THEN StepRows(i) ELSE {}
             table == Close(assignments, dropped, "CANCELLED")
             mine == <<i, instances[i].step, u>>
  <2>1. \A a \in Rows : a[1] # i => table[a] = assignments[a]
    BY CloseLocal, RowsOfInstance
  <2>2. assignments' = [table EXCEPT ![mine].status = "PENDING", ![mine].due = NewDeadline(mine)]
    BY ReassignEffect DEF Renewed
  <2>3. table \in [Rows -> Assignment] /\ mine[1] = i
    BY CloseType DEF TypeOK, AssignmentStatus
  <2> HIDE DEF table, mine
  <2>4. \A a \in Rows : a[1] # i => assignments'[a] = assignments[a]
    BY <2>1, <2>2, <2>3
  <2>5. \A j \in Instances : j # i => instances'[j] = instances[j]
    BY ReassignEffect DEF TypeOK
  <2> QED BY <2>4, <2>5 DEF Local
<1> QED BY <1>1, <1>2, <1>3, <1>4 DEF Operation

\* Only a start makes a request active, and no operation is open to a final one.
LEMMA OperationStatus ==
  ASSUME TypeOK, NEW i \in Instances, Operation(i)
  PROVE  /\ instances[i].status \notin Final
         /\ instances[i].status \notin Active => instances'[i].status \notin Active \/ NoneActive
<1>1. CASE Cancel(i)
  <2>1. instances'[i].status = "CANCELLED"
    BY <1>1 DEF Cancel, TypeOK, Instance
  <2> QED BY <1>1, <2>1 DEF Cancel, Cancellable, Active, Final
<1>2. CASE \E u \in Users : Start(i, u)
  BY <1>2 DEF Start, Active, Final
<1>3. CASE \E u \in Users : Review(i, u)
  BY <1>3 DEF Review, ApproveMore, ApproveStep, ApproveRequest, Reject, RequestChanges, Decline,
              MayAct, Active, Final
<1>4. CASE \E u \in Users : Reassign(i, u)
  BY <1>4 DEF Reassign, Active, Final
<1> QED BY <1>1, <1>2, <1>3, <1>4 DEF Operation

\* The other steps change no request, and open reviews only of one under review.
Job == \E w \in Sweepers : \/ Select(w) \/ Abandon(w)
                           \/ \E e \in batch[w] : Process(w, e[1], e[2])

LEMMA NextCases == [Next]_vars => \/ \E i \in Instances : Operation(i)
                                  \/ Publish \/ Job \/ Tick \/ UNCHANGED vars
BY DEF Next, Operation, Job

LEMMA JobEffect ==
  ASSUME TypeOK, Job
  PROVE  /\ instances' = instances
         /\ \/ \A a \in Rows : assignments'[a].status = assignments[a].status
            \/ \E a \in Rows :
                 /\ UnderReview(a)
                 /\ \A b \in Rows :
                      \/ assignments'[b].status = assignments[b].status
                      \/ b[1] = a[1] /\ b[2] = a[2] /\ assignments'[b].status = "PENDING"
<1> PICK w \in Sweepers : \/ Select(w) \/ Abandon(w)
                          \/ \E e \in batch[w] : Process(w, e[1], e[2])
  BY DEF Job
<1>1. CASE Select(w) \/ Abandon(w)
  BY <1>1 DEF Select, Abandon
<1>2. CASE \E e \in batch[w] : Process(w, e[1], e[2])
  <2> PICK e \in batch[w] : Process(w, e[1], e[2])
    BY <1>2
  <2> DEFINE a == e[1]
  <2>1. a \in Rows
    BY DEF TypeOK
  <2> HIDE DEF a
  <2>2. CASE PassOver(w, a, e[2])
    BY <2>2 DEF PassOver
  <2>3. CASE WarnSoon(w, a, e[2])
    BY <2>1, <2>3 DEF WarnSoon, TypeOK, Assignment
  <2>4. CASE Escalate(w, a, e[2])
    <3> DEFINE table == [assignments EXCEPT ![a].breached = assignments[a].due]
    <3>1. \A b \in Rows : table[b].status = assignments[b].status
      BY <2>1 DEF TypeOK, Assignment
    <3>2. assignments' = Assign(table, a[1], a[2], Escalation(a), clock + Grace)
          /\ instances' = instances /\ UnderReview(a)
      BY <2>4 DEF Escalate
    <3> HIDE DEF table
    <3>3. \A b \in Rows : \/ assignments'[b].status = assignments[b].status
                          \/ b[1] = a[1] /\ b[2] = a[2] /\ assignments'[b].status = "PENDING"
      BY <3>1, <3>2 DEF Assign, Row
    <3> QED BY <2>1, <3>2, <3>3
  <2> QED BY <2>2, <2>3, <2>4 DEF Process, a
<1> QED BY <1>1, <1>2

-----------------------------------------------------------------------------
(* One active request, and final requests stay as they are.                *)

LEMMA OneActiveNext ==
  TypeOK /\ AtMostOneActive /\ [Next]_vars => AtMostOneActive'
<1> SUFFICES ASSUME TypeOK, AtMostOneActive, [Next]_vars PROVE AtMostOneActive'
  OBVIOUS
<1>1. CASE \E i \in Instances : Operation(i)
  <2> PICK i \in Instances : Operation(i)
    BY <1>1
  <2>1. \A j \in Instances : j # i => instances'[j] = instances[j]
    BY OperationLocal DEF Local
  <2>2. CASE NoneActive
    BY <2>1, <2>2 DEF NoneActive, AtMostOneActive
  <2>3. CASE ~NoneActive
    <3>1. \A j \in Instances :
              instances'[j].status \in Active => instances[j].status \in Active
      BY <2>1, <2>3, OperationStatus
    <3> QED BY <3>1 DEF AtMostOneActive
  <2> QED BY <2>2, <2>3
<1>2. CASE Job
  BY <1>2, JobEffect DEF AtMostOneActive
<1>3. CASE Publish \/ Tick \/ UNCHANGED vars
  BY <1>3 DEF Publish, Tick, vars, AtMostOneActive
<1> QED BY <1>1, <1>2, <1>3, NextCases

\* "Requests ... cannot have two active approval instances for the same
\* workflow and business record": startWorkflow looks for one under its lock.
THEOREM OneActiveRequest == Spec => []AtMostOneActive
<1>1. Init => AtMostOneActive
  BY DEF Init, AtMostOneActive, Active
<1>2. TypeOK /\ AtMostOneActive /\ [Next]_vars => AtMostOneActive'
  BY OneActiveNext
<1> QED BY <1>1, <1>2, TypeCorrect, PTL DEF Spec

\* No operation and no late step of the escalation job changes a final
\* request or the status of its assignments.
THEOREM FinalRequestsStand == Spec => FinalIsFinal
<1>1. TypeOK /\ [Next]_vars =>
        [\A i \in Instances : instances[i].status \in Final =>
            /\ instances'[i] = instances[i]
            /\ \A a \in InstanceRows(i) :
                  assignments'[a].status = assignments[a].status]_vars
  <2> SUFFICES ASSUME TypeOK, [Next]_vars, NEW i \in Instances, instances[i].status \in Final
               PROVE  /\ instances'[i] = instances[i]
                      /\ \A a \in InstanceRows(i) :
                            assignments'[a].status = assignments[a].status
    OBVIOUS
  <2>1. CASE \E j \in Instances : Operation(j)
    BY <2>1, OperationLocal, OperationStatus DEF Local, InstanceRows
  <2>2. CASE Job
    BY <2>2, JobEffect DEF UnderReview, Final, InstanceRows
  <2>3. CASE Publish \/ Tick \/ UNCHANGED vars
    BY <2>3 DEF Publish, Tick, vars
  <2> QED BY <2>1, <2>2, <2>3, NextCases
<1> QED BY <1>1, TypeCorrect, PTL DEF Spec, FinalIsFinal

-----------------------------------------------------------------------------
(* Pending reviews are those of the current step.                          *)

LEMMA AssignStatus ==
  ASSUME NEW table, NEW i, NEW s, NEW users, NEW due, NEW a \in Rows,
         Assign(table, i, s, users, due)[a].status = "PENDING"
  PROVE  (a[1] = i /\ a[2] = s) \/ table[a].status = "PENDING"
BY DEF Assign

LEMMA CloseStatus ==
  ASSUME NEW table \in [Rows -> Assignment], NEW rows, NEW status \in AssignmentStatus \ {"PENDING"},
         NEW a \in Rows, Close(table, rows, status)[a].status = "PENDING"
  PROVE  a \notin rows /\ table[a].status = "PENDING"
BY DEF Close, Assignment

\* After an operation on i, its pending reviews are at its step and it is active.
LEMMA OperationPending ==
  ASSUME TypeOK, PendingIsCurrent, NEW i \in Instances, Operation(i),
         NEW a \in Rows, a[1] = i, assignments'[a].status = "PENDING"
  PROVE  instances'[i].status \in Active /\ a[2] = instances'[i].step
<1>0. \A b \in Rows : b[1] = i /\ assignments[b].status = "PENDING" =>
          instances[i].status \in Active /\ b \in StepRows(i)
  BY DEF PendingIsCurrent, StepRows
<1>1. CASE Cancel(i)
  <2>1. a \notin InstanceRows(i)
    BY <1>1, CloseStatus DEF Cancel, TypeOK, AssignmentStatus
  <2> QED BY <2>1 DEF InstanceRows
<1>2. CASE \E u \in Users : Start(i, u)
  <2> PICK u \in Users : Start(i, u)
    BY <1>2
  <2>1. instances'[i].status \in Active /\ instances'[i].step = 1
    BY StatusForType DEF Start, TypeOK
  <2>2. assignments[a].status # "PENDING"
    BY <1>0 DEF Start, Active
  <2>3. a[2] = 1
    BY <2>2, AssignStatus DEF Start
  <2> QED BY <2>1, <2>3
<1>3. CASE \E u \in Users : Review(i, u)
  <2> PICK u \in Users : Review(i, u)
    BY <1>3
  <2> DEFINE mine == <<i, instances[i].step, u>>
  <2>1. \A status \in AssignmentStatus : Decided(i, u, status) \in [Rows -> Assignment]
    BY DecidedType
  <2>2. \A status \in AssignmentStatus \ {"PENDING"} :
            Decided(i, u, status)[a].status = "PENDING" => assignments[a].status = "PENDING"
    BY DEF Decided, TypeOK, Assignment
  <2>3. CASE ApproveMore(i, u)
    BY <1>0, <2>2, <2>3 DEF ApproveMore, AssignmentStatus, StepRows
  <2>4. ASSUME Close(Decided(i, u, "APPROVED"), StepRows(i), "SKIPPED")[a].status = "PENDING"
        PROVE  FALSE
    <3>1. a \notin StepRows(i) /\ Decided(i, u, "APPROVED")[a].status = "PENDING"
      BY <2>1, <2>4, CloseStatus DEF AssignmentStatus
    <3> QED BY <1>0, <2>2, <3>1 DEF AssignmentStatus
  <2>5. CASE ApproveStep(i, u)
    <3> DEFINE s == instances[i].step + 1
               v == instances[i].version
               approvers == Resolve(v, s, instances[i].requester)
               ready == Ready(Definitions[v].steps[s], Cardinality(approvers))
               closed == Close(Decided(i, u, "APPROVED"), StepRows(i), "SKIPPED")
    <3>1. /\ instances' = [instances EXCEPT ![i].status = StatusFor(ready), ![i].step = s]
          /\ assignments' = Assign(closed, i, s, approvers, clock + Sla)
      BY <2>5 DEF ApproveStep
    <3>2. closed[a].status # "PENDING"
      BY <2>4
    <3> HIDE DEF approvers, ready, s, closed
    <3>3. a[2] = s
      BY <3>1, <3>2, AssignStatus
    <3>4. instances'[i].status \in Active /\ instances'[i].step = s
      BY <3>1, StatusForType DEF TypeOK, Instance
    <3> QED BY <3>3, <3>4
  <2>6. CASE ApproveRequest(i, u)
    BY <2>4, <2>6 DEF ApproveRequest
  <2>7. CASE Reject(i, u) \/ RequestChanges(i, u)
    <3>1. PICK decision \in AssignmentStatus, status \in InstanceStatus : Decline(i, u, decision, status)
      BY <2>7 DEF Reject, RequestChanges, AssignmentStatus, InstanceStatus, Final
    <3>2. a \notin InstanceRows(i)
      BY <2>1, <3>1, CloseStatus DEF Decline, AssignmentStatus
    <3> QED BY <3>2 DEF InstanceRows
  <2> QED BY <2>3, <2>5, <2>6, <2>7 DEF Review
<1>4. CASE \E u \in Users : Reassign(i, u)
  <2> PICK u \in Users : Reassign(i, u)
    BY <1>4
  <2> DEFINE dropped == IF instances[i].status = "PENDING" THEN StepRows(i) ELSE {}
             table == Close(assignments, dropped, "CANCELLED")
             mine == <<i, instances[i].step, u>>
  <2>1. table \in [Rows -> Assignment]
    BY CloseType DEF TypeOK, AssignmentStatus
  <2>2. table[a].status = "PENDING" => assignments[a].status = "PENDING"
    BY CloseStatus DEF TypeOK, AssignmentStatus
  <2>3. assignments' = [table EXCEPT ![mine].status = "PENDING", ![mine].due = NewDeadline(mine)]
    BY ReassignEffect DEF Renewed
  <2>4. instances'[i].status \in Active /\ instances'[i].step = instances[i].step
    BY ReassignEffect, StatusForType DEF TypeOK, Instance
  <2>5. mine[2] = instances[i].step
    OBVIOUS
  <2> HIDE DEF table, mine
  <2>6. a = mine \/ assignments[a].status = "PENDING"
    BY <2>1, <2>2, <2>3
  <2>7. a[2] = instances[i].step
    BY <1>0, <2>5, <2>6 DEF StepRows
  <2> QED BY <2>4, <2>7
<1> QED BY <1>1, <1>2, <1>3, <1>4 DEF Operation

LEMMA PendingNext ==
  TypeOK /\ PendingIsCurrent /\ [Next]_vars => PendingIsCurrent'
<1> SUFFICES ASSUME TypeOK, PendingIsCurrent, [Next]_vars,
                    NEW a \in Rows, assignments'[a].status = "PENDING"
             PROVE  instances'[a[1]].status \in Active /\ a[2] = instances'[a[1]].step
  BY DEF PendingIsCurrent
<1>0. a[1] \in Instances
  BY DEF Rows
<1>1. CASE \E i \in Instances : Operation(i)
  <2> PICK i \in Instances : Operation(i)
    BY <1>1
  <2>1. CASE a[1] = i
    BY <2>1, OperationPending
  <2>2. CASE a[1] # i
    BY <1>0, <2>2, OperationLocal DEF Local, PendingIsCurrent
  <2> QED BY <2>1, <2>2
<1>2. CASE Job
  BY <1>2, JobEffect DEF PendingIsCurrent, UnderReview, Active
<1>3. CASE Publish \/ Tick \/ UNCHANGED vars
  BY <1>3 DEF Publish, Tick, vars, PendingIsCurrent
<1> QED BY <1>1, <1>2, <1>3, NextCases

LEMMA PendingInit == Init => PendingIsCurrent
BY DEF Init, PendingIsCurrent, Row

\* Whatever is reassigned, skipped, cancelled or escalated, and however late
\* the job gets to a review it had selected, pending reviews are those of the
\* current step of an active request.
THEOREM NoObsoleteReviews == Spec => []PendingIsCurrent
<1>1. Init => PendingIsCurrent
  BY PendingInit
<1>2. TypeOK /\ PendingIsCurrent /\ [Next]_vars => PendingIsCurrent'
  BY PendingNext
<1> QED BY <1>1, <1>2, TypeCorrect, PTL DEF Spec

-----------------------------------------------------------------------------
(* Quorums.                                                                *)

\* The users whose review of step s of i has one of the statuses.
Saying(i, s, statuses) == {u \in Users : assignments[<<i, s, u>>].status \in statuses}

\* Step s of i is passed by the rule of its version.
Met(i, s) ==
  LET step == Definitions[instances[i].version].steps[s]
  IN  /\ step.mode = "ANY" => Cardinality(Saying(i, s, {"APPROVED"})) >= step.minimum
      /\ step.mode = "ALL" => /\ Saying(i, s, {"APPROVED"}) # {}
                              /\ \A u \in Users : assignments[<<i, s, u>>].status \in {"NONE", "APPROVED"}

\* Nobody is asked about a step before the request gets there.
NothingAhead(i) ==
  \A s \in Steps, u \in Users :
    \/ instances[i].status = "NONE"
    \/ instances[i].status \in Active /\ s > instances[i].step
    => assignments[<<i, s, u>>].status = "NONE"

\* The steps behind a request were passed.
BehindIsMet(i) ==
  \A s \in DOMAIN Definitions[instances[i].version].steps :
    \/ instances[i].status = "APPROVED"
    \/ instances[i].status \in Active /\ s < instances[i].step
    => Met(i, s)

\* Nobody approves his own request, unless its version allows it.
OthersApprove(i) ==
  \A s \in Steps :
    assignments[<<i, s, instances[i].requester>>].status = "APPROVED" =>
      Definitions[instances[i].version].self

\* An ANY step that is open still lacks an approval, and while it is not blocked
\* enough reviewers are left to give it.
OpenStepLacks(i) ==
  instances[i].status \in Active /\ StepOf(i).mode = "ANY" =>
    /\ Cardinality(Saying(i, instances[i].step, {"APPROVED"})) < StepOf(i).minimum
    /\ instances[i].status = "PENDING" =>
         Cardinality(Saying(i, instances[i].step, {"PENDING", "APPROVED"})) >= StepOf(i).minimum

QuorumOf(i) == NothingAhead(i) /\ BehindIsMet(i) /\ OthersApprove(i) /\ OpenStepLacks(i)
QuorumInv   == \A i \in Instances : QuorumOf(i)

-----------------------------------------------------------------------------
(* Counting reviews and counting reviewers is the same.                    *)

RowsFor(i, s, us) == {<<i, s, u>> : u \in us}

LEMMA RowsOfUsers ==
  ASSUME NEW i, NEW s, NEW us \in SUBSET Users
  PROVE  /\ IsFiniteSet(us) /\ Cardinality(us) \in Nat
         /\ IsFiniteSet(RowsFor(i, s, us))
         /\ Cardinality(RowsFor(i, s, us)) = Cardinality(us)
<1> DEFINE rows == RowsFor(i, s, us)
           f == [u \in us |-> <<i, s, u>>]
<1>1. IsFiniteSet(us) /\ Cardinality(us) \in Nat
  BY WorkflowConstants, FS_Subset, FS_CardinalityType
<1>2. f \in Bijection(us, rows)
  <2>1. f \in [us -> rows]
    BY DEF RowsFor
  <2>2. \A u, v \in us : f[u] = f[v] => u = v
    OBVIOUS
  <2>3. \A r \in rows : \E u \in us : f[u] = r
    BY DEF RowsFor
  <2>4. DOMAIN f = us
    OBVIOUS
  <2> HIDE DEF f, rows
  <2>5. f \in Injection(us, rows)
    BY <2>1, <2>2, <2>4 DEF Injection, IsInjective
  <2>6. f \in Surjection(us, rows)
    BY <2>1, <2>3 DEF Surjection
  <2> QED BY <2>5, <2>6 DEF Bijection
<1>3. ExistsBijection(us, rows)
  BY <1>2 DEF ExistsBijection
<1> QED BY <1>1, <1>3, FS_Bijection

LEMMA WithUsers ==
  ASSUME TypeOK, NEW i \in Instances, NEW statuses
  PROVE  /\ With(i, statuses) = RowsFor(i, instances[i].step, Saying(i, instances[i].step, statuses))
         /\ IsFiniteSet(With(i, statuses)) /\ IsFiniteSet(Saying(i, instances[i].step, statuses))
         /\ Cardinality(With(i, statuses)) = Cardinality(Saying(i, instances[i].step, statuses))
         /\ Cardinality(With(i, statuses)) \in Nat
<1> DEFINE s == instances[i].step
           users == Saying(i, s, statuses)
           rows == RowsFor(i, s, users)
<1>1. ASSUME NEW a \in With(i, statuses) PROVE a \in rows
  <2>1. a \in Rows /\ a[1] = i /\ a[2] = s /\ assignments[a].status \in statuses
    BY DEF With, StepRows
  <2>2. a = <<i, s, a[3]>> /\ a[3] \in Users
    BY <2>1 DEF Rows
  <2>3. a[3] \in users
    BY <2>1, <2>2 DEF Saying
  <2> QED BY <2>2, <2>3 DEF RowsFor
<1>2. ASSUME NEW u \in users PROVE <<i, s, u>> \in With(i, statuses)
  <2>1. u \in Users /\ assignments[<<i, s, u>>].status \in statuses
    BY DEF Saying
  <2>2. <<i, s, u>> \in Rows /\ <<i, s, u>>[1] = i /\ <<i, s, u>>[2] = s
    BY <2>1, CurrentStep
  <2> QED BY <2>1, <2>2 DEF With, StepRows
<1>3. With(i, statuses) = rows
  BY <1>1, <1>2 DEF RowsFor
<1>4. users \in SUBSET Users
  BY DEF Saying
<1> HIDE DEF users, s
<1>5. /\ IsFiniteSet(users) /\ IsFiniteSet(rows)
      /\ Cardinality(rows) = Cardinality(users) /\ Cardinality(users) \in Nat
  BY <1>4, RowsOfUsers
<1> HIDE DEF rows
<1>6. /\ IsFiniteSet(With(i, statuses)) /\ Cardinality(With(i, statuses)) = Cardinality(users)
      /\ Cardinality(With(i, statuses)) \in Nat
  BY <1>3, <1>5
<1> QED BY <1>3, <1>5, <1>6 DEF users, s, rows

\* The same of the state after a step.
WithAgrees ==
  \A i \in Instances :
    Cardinality(With(i, {"PENDING", "APPROVED"}))
      = Cardinality(Saying(i, instances[i].step, {"PENDING", "APPROVED"}))

LEMMA WithUsersNow == TypeOK => WithAgrees
BY WithUsers DEF WithAgrees

LEMMA WithUsersNext == TypeOK' => WithAgrees'
BY WithUsersNow, PTL

-----------------------------------------------------------------------------
(* The approval that decides a step.                                       *)

LEMMA DecidingApproval ==
  ASSUME TypeOK, NEW i \in Instances, NEW u \in Users, MayAct(i, u), Enough(i), StepInVersion
  PROVE  LET s == instances[i].step
         IN  /\ StepOf(i).mode = "ANY" => Cardinality(Saying(i, s, {"APPROVED"}) \cup {u}) >= StepOf(i).minimum
             /\ StepOf(i).mode = "ALL" => \A v \in Users : assignments[<<i, s, v>>].status \in {"NONE", "APPROVED"} \/ v = u
<1> DEFINE s == instances[i].step
           approved == Saying(i, s, {"APPROVED"})
<1>1. u \notin approved /\ <<i, s, u>> \in With(i, Exists) /\ <<i, s, u>> \notin With(i, {"APPROVED"})
  BY CurrentStep DEF MayAct, Saying, With, StepRows, Exists, AssignmentStatus
<1>2. /\ IsFiniteSet(approved) /\ Cardinality(approved) \in Nat
      /\ Cardinality(approved) = Cardinality(With(i, {"APPROVED"}))
      /\ IsFiniteSet(With(i, {"APPROVED"})) /\ IsFiniteSet(With(i, Exists))
      /\ Cardinality(With(i, Exists)) \in Nat
  BY WithUsers
<1>3. CASE StepOf(i).mode = "ANY"
  <2>1. Cardinality(With(i, {"APPROVED"})) + 1 >= StepOf(i).minimum
    BY <1>3 DEF Enough, Required
  <2>2. Cardinality(approved \cup {u}) = Cardinality(approved) + 1
    BY <1>1, <1>2, FS_AddElement
  <2> QED BY <1>2, <1>3, <2>1, <2>2
<1>4. CASE StepOf(i).mode = "ALL"
  <2> DEFINE both == With(i, {"APPROVED"}) \cup {<<i, s, u>>}
  <2>1. Cardinality(With(i, {"APPROVED"})) + 1 >= Cardinality(With(i, Exists))
    BY <1>4 DEF Enough, Required
  <2>2. IsFiniteSet(both) /\ Cardinality(both) = Cardinality(With(i, {"APPROVED"})) + 1
    BY <1>1, <1>2, FS_AddElement
  <2>3. both \in SUBSET With(i, Exists)
    BY <1>1 DEF With, Exists, AssignmentStatus
  <2>4. Cardinality(both) = Cardinality(With(i, Exists))
    <3>1. Cardinality(both) <= Cardinality(With(i, Exists))
      BY <1>2, <2>3, FS_Subset
    <3> QED BY <1>2, <2>1, <2>2, <3>1
  <2>5. both = With(i, Exists)
    BY <1>2, <2>3, <2>4, FS_Subset
  <2>6. ASSUME NEW v \in Users, v # u, assignments[<<i, s, v>>].status # "NONE"
        PROVE  assignments[<<i, s, v>>].status = "APPROVED"
    <3>1. <<i, s, v>> \in Rows
      BY CurrentStep
    <3>2. <<i, s, v>> \in With(i, Exists)
      BY <2>6, <3>1 DEF With, StepRows, Exists, TypeOK, Assignment
    <3> QED BY <2>5, <2>6, <3>2 DEF With
  <2> QED BY <1>4, <2>6
<1> QED BY <1>3, <1>4

-----------------------------------------------------------------------------
(* What each step leaves of the reviews of a request.                      *)

LEMMA SayingFinite ==
  ASSUME NEW i, NEW s, NEW statuses
  PROVE  /\ IsFiniteSet(Saying(i, s, statuses)) /\ Cardinality(Saying(i, s, statuses)) \in Nat
         /\ IsFiniteSet(Saying(i, s, statuses)') /\ Cardinality(Saying(i, s, statuses)') \in Nat
<1>1. Saying(i, s, statuses) \subseteq Users /\ Saying(i, s, statuses)' \subseteq Users
  BY DEF Saying
<1> QED BY <1>1, WorkflowConstants, FS_Subset, FS_CardinalityType

LEMMA RowKnown ==
  ASSUME NEW i \in Instances, NEW s \in Steps, NEW u \in Users
  PROVE  /\ <<i, s, u>> \in Rows
         /\ <<i, s, u>>[1] = i /\ <<i, s, u>>[2] = s /\ <<i, s, u>>[3] = u
BY DEF Rows

\* The reviews of step s of i say what they said.
Still(i, s) ==
  \A u \in Users : assignments'[<<i, s, u>>].status = assignments[<<i, s, u>>].status

LEMMA StillMet ==
  ASSUME NEW i, NEW s, Still(i, s), instances'[i].version = instances[i].version
  PROVE  /\ Met(i, s)' <=> Met(i, s)
         /\ \A statuses : Saying(i, s, statuses)' = Saying(i, s, statuses)
<1>1. \A statuses : Saying(i, s, statuses)' = Saying(i, s, statuses)
  BY DEF Still, Saying
<1> QED BY <1>1 DEF Still, Met

LEMMA StepsOfVersion ==
  ASSUME TypeOK, StepInVersion, NEW i \in Instances
  PROVE  /\ DOMAIN Definitions[instances[i].version].steps \subseteq Steps
         /\ instances[i].step \in Steps /\ instances[i].step \in Nat \ {0}
         /\ instances[i].version \in DOMAIN Definitions
         /\ Steps \subseteq Nat \ {0}
BY CurrentStep, VersionSteps, StepsAreNumbers DEF TypeOK, Instance

LEMMA RuleOfStep ==
  ASSUME NEW v \in DOMAIN Definitions, NEW s \in DOMAIN Definitions[v].steps
  PROVE  /\ Definitions[v].steps[s].minimum \in Nat \ {0}
         /\ Definitions[v].steps[s].mode \in {"ANY", "ALL"}
         /\ Definitions[v].steps[s].approvers \in SUBSET Users
<1>1. Definitions[v].steps[s] \in [mode : {"ANY", "ALL"}, minimum : Nat \ {0},
                                   approvers : SUBSET Reviewers, escalation : SUBSET Users]
  BY VersionSteps, ElementOfSeq
<1> QED BY <1>1, WorkflowConstants

LEMMA Unchanged ==
  ASSUME TypeOK, StepInVersion, NEW i \in Instances, QuorumOf(i),
         instances'[i] = instances[i], \A s \in Steps : Still(i, s)
  PROVE  QuorumOf(i)'
<1>1. ASSUME NEW s \in Steps, Met(i, s) PROVE Met(i, s)'
  BY <1>1, StillMet
<1>2. NothingAhead(i)'
  BY DEF QuorumOf, NothingAhead, Still
<1>3. BehindIsMet(i)'
  <2> SUFFICES ASSUME NEW s \in DOMAIN Definitions[instances[i].version].steps, Met(i, s)
               PROVE  Met(i, s)'
    BY DEF QuorumOf, BehindIsMet
  <2> QED BY <1>1, StepsOfVersion
<1>4. OthersApprove(i)'
  BY DEF QuorumOf, OthersApprove, Still, TypeOK, Instance
<1>5. OpenStepLacks(i)'
  <2>0. Still(i, instances[i].step)
    BY StepsOfVersion
  <2>1. \A statuses : Saying(i, instances[i].step, statuses)' = Saying(i, instances[i].step, statuses)
    BY <2>0 DEF Saying, Still
  <2> QED BY <2>1 DEF QuorumOf, OpenStepLacks, StepOf
<1> QED BY <1>2, <1>3, <1>4, <1>5 DEF QuorumOf

\* The reviews after the approval of u, and after it closed the step.
LEMMA DecidedRow ==
  ASSUME TypeOK, NEW i \in Instances, NEW u \in Users, NEW status, NEW a \in Rows
  PROVE  Decided(i, u, status)[a].status =
           IF a = <<i, instances[i].step, u>> THEN status ELSE assignments[a].status
BY DEF Decided, TypeOK, Assignment

LEMMA CloseRow ==
  ASSUME NEW table \in [Rows -> Assignment], NEW rows, NEW status, NEW a \in Rows
  PROVE  Close(table, rows, status)[a].status =
           IF a \in rows /\ table[a].status = "PENDING" THEN status ELSE table[a].status
BY DEF Close, Assignment

LEMMA AssignRow ==
  ASSUME NEW table, NEW i, NEW s, NEW users, NEW due, NEW a \in Rows
  PROVE  Assign(table, i, s, users, due)[a].status =
           IF a[1] = i /\ a[2] = s /\ a[3] \in users /\ table[a].status = "NONE"
           THEN "PENDING" ELSE table[a].status
BY DEF Assign, Row

LEMMA SkippedRow ==
  ASSUME TypeOK, NEW i \in Instances, NEW u \in Users, NEW a \in Rows
  PROVE  Close(Decided(i, u, "APPROVED"), StepRows(i), "SKIPPED")[a].status =
           IF a = <<i, instances[i].step, u>> THEN "APPROVED"
           ELSE IF a \in StepRows(i) /\ assignments[a].status = "PENDING" THEN "SKIPPED"
           ELSE assignments[a].status
<1>1. Decided(i, u, "APPROVED") \in [Rows -> Assignment]
  BY DecidedType DEF AssignmentStatus
<1> DEFINE table == Decided(i, u, "APPROVED")
<1>2. table[a].status =
        IF a = <<i, instances[i].step, u>> THEN "APPROVED" ELSE assignments[a].status
  BY DecidedRow
<1> HIDE DEF table
<1>3. Close(table, StepRows(i), "SKIPPED")[a].status =
        IF a \in StepRows(i) /\ table[a].status = "PENDING" THEN "SKIPPED" ELSE table[a].status
  BY <1>1, CloseRow DEF table
<1> QED BY <1>2, <1>3 DEF table

-----------------------------------------------------------------------------
(* Every operation keeps the quorums of its request.                       *)

\* A request that ends without approval asks nobody and claims nothing.
LEMMA EndQuorum ==
  ASSUME TypeOK, NEW i \in Instances, QuorumOf(i),
         instances'[i].status \in {"REJECTED", "NEEDS_CHANGES", "CANCELLED"},
         instances'[i].version = instances[i].version,
         instances'[i].requester = instances[i].requester,
         \A s \in Steps, u \in Users :
            assignments'[<<i, s, u>>].status = "APPROVED" => assignments[<<i, s, u>>].status = "APPROVED"
  PROVE  QuorumOf(i)'
<1>1. NothingAhead(i)' /\ BehindIsMet(i)' /\ OpenStepLacks(i)'
  BY DEF NothingAhead, BehindIsMet, OpenStepLacks, Active
<1>2. OthersApprove(i)'
  <2>1. instances[i].requester \in Users
    BY DEF TypeOK, Instance
  <2> QED BY <2>1 DEF QuorumOf, OthersApprove
<1> QED BY <1>1, <1>2 DEF QuorumOf

LEMMA CancelQuorum ==
  ASSUME TypeOK, NEW i \in Instances, QuorumOf(i), Cancel(i)
  PROVE  QuorumOf(i)'
<1>1. instances' = [instances EXCEPT ![i].status = "CANCELLED"]
  BY DEF Cancel
<1>2. /\ instances'[i].status = "CANCELLED"
      /\ instances'[i].version = instances[i].version
      /\ instances'[i].requester = instances[i].requester
  BY <1>1 DEF TypeOK, Instance
<1>3. ASSUME NEW s \in Steps, NEW u \in Users, assignments'[<<i, s, u>>].status = "APPROVED"
      PROVE  assignments[<<i, s, u>>].status = "APPROVED"
  <2>1. assignments \in [Rows -> Assignment] /\ <<i, s, u>> \in Rows
    BY RowKnown DEF TypeOK
  <2> QED BY <1>3, <2>1, CloseRow DEF Cancel
<1> QED BY <1>2, <1>3, EndQuorum

LEMMA DeclineQuorum ==
  ASSUME TypeOK, NEW i \in Instances, NEW u \in Users, QuorumOf(i), Reject(i, u) \/ RequestChanges(i, u)
  PROVE  QuorumOf(i)'
<1>1. PICK decision \in {"REJECTED", "CHANGES_REQUESTED"}, status \in {"REJECTED", "NEEDS_CHANGES"} :
             Decline(i, u, decision, status)
  BY DEF Reject, RequestChanges
<1>2. /\ instances' = [instances EXCEPT ![i].status = status]
      /\ assignments' = Close(Decided(i, u, decision), InstanceRows(i), "CANCELLED")
  BY <1>1 DEF Decline
<1>3. /\ instances'[i].status = status
      /\ instances'[i].version = instances[i].version
      /\ instances'[i].requester = instances[i].requester
  BY <1>2 DEF TypeOK, Instance
<1>4. ASSUME NEW s \in Steps, NEW v \in Users, assignments'[<<i, s, v>>].status = "APPROVED"
      PROVE  assignments[<<i, s, v>>].status = "APPROVED"
  <2> DEFINE a == <<i, s, v>>
             table == Decided(i, u, decision)
  <2>1. table \in [Rows -> Assignment] /\ a \in Rows
    BY RowKnown, DecidedType DEF AssignmentStatus
  <2>2. table[a].status = IF a = <<i, instances[i].step, u>> THEN decision ELSE assignments[a].status
    BY <2>1, DecidedRow
  <2> HIDE DEF table, a
  <2>3. assignments'[a].status =
          IF a \in InstanceRows(i) /\ table[a].status = "PENDING" THEN "CANCELLED" ELSE table[a].status
    BY <1>2, <2>1, CloseRow DEF table
  <2> QED BY <1>4, <2>2, <2>3 DEF a
<1> QED BY <1>3, <1>4, EndQuorum

LEMMA MoreQuorum ==
  ASSUME TypeOK, StepInVersion, NEW i \in Instances, NEW u \in Users, QuorumOf(i), ApproveMore(i, u)
  PROVE  QuorumOf(i)'
<1> DEFINE s == instances[i].step
           mine == <<i, s, u>>
<1>0. /\ instances' = instances /\ MayAct(i, u) /\ ~Enough(i)
      /\ instances[i].status \in Active
      /\ s \in Steps /\ mine \in Rows
      /\ assignments[mine].status = "PENDING"
  BY CurrentStep DEF ApproveMore, MayAct
<1>1. \A a \in Rows : assignments'[a].status =
                        IF a = mine THEN "APPROVED" ELSE assignments[a].status
  BY DecidedRow DEF ApproveMore
<1>2. \A t \in Steps, v \in Users : assignments'[<<i, t, v>>].status =
          IF t = s /\ v = u THEN "APPROVED" ELSE assignments[<<i, t, v>>].status
  BY <1>1, RowKnown
<1>3. \A t \in Steps : t # s => Still(i, t)
  BY <1>2 DEF Still
<1>4. NothingAhead(i)'
  <2>1. s \in Nat /\ Steps \subseteq Nat
    BY StepsOfVersion
  <2> QED BY <1>0, <1>2, <2>1 DEF QuorumOf, NothingAhead, Active
<1>5. BehindIsMet(i)'
  <2> SUFFICES ASSUME NEW t \in DOMAIN Definitions[instances[i].version].steps, t < s
               PROVE  Met(i, t)'
    BY <1>0 DEF BehindIsMet, Active
  <2>1. t \in Steps /\ t # s
    BY StepsOfVersion
  <2>2. Met(i, t)
    BY <1>0 DEF QuorumOf, BehindIsMet
  <2> QED BY <1>0, <1>3, <2>1, <2>2, StillMet
<1>6. OthersApprove(i)'
  <2>1. Definitions[instances[i].version].self \/ instances[i].requester # u
    BY <1>0 DEF MayAct
  <2> QED BY <1>0, <1>2, <2>1, CurrentStep DEF QuorumOf, OthersApprove
<1>7. OpenStepLacks(i)'
  <2> SUFFICES ASSUME StepOf(i).mode = "ANY"
               PROVE  /\ Cardinality(Saying(i, s, {"APPROVED"})') < StepOf(i).minimum
                      /\ instances[i].status = "PENDING" =>
                           Cardinality(Saying(i, s, {"PENDING", "APPROVED"})') >= StepOf(i).minimum
    BY <1>0 DEF OpenStepLacks, StepOf, Saying
  <2>1. Saying(i, s, {"APPROVED"})' = Saying(i, s, {"APPROVED"}) \cup {u}
    BY <1>0, <1>2 DEF Saying
  <2>2. Saying(i, s, {"PENDING", "APPROVED"})' = Saying(i, s, {"PENDING", "APPROVED"})
    BY <1>0, <1>2 DEF Saying
  <2>3. u \notin Saying(i, s, {"APPROVED"})
    BY <1>0 DEF Saying
  <2>4. Cardinality(Saying(i, s, {"APPROVED"}) \cup {u}) = Cardinality(Saying(i, s, {"APPROVED"})) + 1
    BY <2>3, SayingFinite, FS_AddElement
  <2>5. Cardinality(With(i, {"APPROVED"})) = Cardinality(Saying(i, s, {"APPROVED"}))
    BY WithUsers
  <2>6. ~(Cardinality(Saying(i, s, {"APPROVED"})) + 1 >= StepOf(i).minimum)
    BY <1>0, <2>5 DEF Enough, Required
  <2>7. StepOf(i).minimum \in Nat
    BY StepsOfVersion, RuleOfStep DEF StepOf, StepInVersion
  <2>8. Cardinality(Saying(i, s, {"APPROVED"})') < StepOf(i).minimum
    BY <2>1, <2>4, <2>6, <2>7, SayingFinite
  <2>9. instances[i].status = "PENDING" =>
           Cardinality(Saying(i, s, {"PENDING", "APPROVED"})) >= StepOf(i).minimum
    BY <1>0 DEF QuorumOf, OpenStepLacks
  <2> QED BY <2>2, <2>8, <2>9
<1> QED BY <1>4, <1>5, <1>6, <1>7 DEF QuorumOf

\* The step that the approval of u decides is met.
LEMMA DecidedMet ==
  ASSUME TypeOK, StepInVersion, NEW i \in Instances, NEW u \in Users, MayAct(i, u), Enough(i),
         instances'[i].version = instances[i].version,
         \A v \in Users :
            LET a == <<i, instances[i].step, v>>
            IN  assignments'[a].status =
                  IF v = u THEN "APPROVED"
                  ELSE IF assignments[a].status = "PENDING" THEN "SKIPPED"
                  ELSE assignments[a].status,
         NEW s, s = instances[i].step
  PROVE  Met(i, s)'
<1> DEFINE step == Definitions[instances[i].version].steps[s]
<1>1. Saying(i, s, {"APPROVED"})' = Saying(i, s, {"APPROVED"}) \cup {u}
  BY DEF Saying
<1>2. step = StepOf(i)
  BY DEF StepOf
<1>3. step.mode = "ANY" => Cardinality(Saying(i, s, {"APPROVED"})') >= step.minimum
  BY <1>1, <1>2, DecidingApproval
<1>4. step.mode = "ALL" => \A v \in Users : assignments'[<<i, s, v>>].status \in {"NONE", "APPROVED"}
  <2> SUFFICES ASSUME step.mode = "ALL", NEW v \in Users
               PROVE  assignments'[<<i, s, v>>].status \in {"NONE", "APPROVED"}
    OBVIOUS
  <2>1. assignments[<<i, s, v>>].status \in {"NONE", "APPROVED"} \/ v = u
    BY <1>2, DecidingApproval
  <2> QED BY <2>1
<1> QED BY <1>1, <1>3, <1>4 DEF Met

LEMMA ApproveStepQuorum ==
  ASSUME TypeOK, StepInVersion, NEW i \in Instances, NEW u \in Users, QuorumOf(i), ApproveStep(i, u)
  PROVE  QuorumOf(i)'
<1> DEFINE s == instances[i].step
           n == s + 1
           v == instances[i].version
           r == instances[i].requester
           approvers == Resolve(v, n, r)
           status == StatusFor(Ready(Definitions[v].steps[n], Cardinality(approvers)))
           skipped == Close(Decided(i, u, "APPROVED"), StepRows(i), "SKIPPED")
<1>1. /\ MayAct(i, u) /\ Enough(i) /\ ~LastStep(i)
      /\ instances' = [instances EXCEPT ![i].status = status, ![i].step = n]
      /\ assignments' = Assign(skipped, i, n, approvers, clock + Sla)
  BY DEF ApproveStep
<1>2. /\ v \in DOMAIN Definitions /\ r \in Users
      /\ s \in Nat /\ Steps \subseteq Nat /\ s \in Steps
      /\ n \in DOMAIN Definitions[v].steps /\ n \in Steps
      /\ DOMAIN Definitions[v].steps \subseteq Steps
      /\ instances[i].status \in Active
  <2>1. n \in DOMAIN Definitions[v].steps
    BY <1>1, NextStep DEF StepInVersion
  <2>2. instances[i].status \in Active
    BY <1>1 DEF MayAct
  <2> QED BY <2>1, <2>2, StepsOfVersion DEF TypeOK, Instance
<1>3. /\ instances'[i].status = status /\ instances'[i].step = n
      /\ instances'[i].version = v /\ instances'[i].requester = r
  BY <1>1 DEF TypeOK, Instance
<1>4. \A t \in Steps, w \in Users :
         skipped[<<i, t, w>>].status =
           IF t = s /\ w = u THEN "APPROVED"
           ELSE IF t = s /\ assignments[<<i, t, w>>].status = "PENDING" THEN "SKIPPED"
           ELSE assignments[<<i, t, w>>].status
  <2> TAKE t \in Steps, w \in Users
  <2>1. <<i, t, w>> \in Rows /\ (<<i, t, w>> \in StepRows(i) <=> t = s)
    BY RowKnown DEF StepRows
  <2> QED BY <2>1, SkippedRow
<1>5. \A w \in Users : assignments[<<i, n, w>>].status = "NONE"
  BY <1>2 DEF QuorumOf, NothingAhead
<1> HIDE DEF skipped, status
<1>6. \A t \in Steps, w \in Users :
         assignments'[<<i, t, w>>].status =
           IF t = n THEN IF w \in approvers THEN "PENDING" ELSE "NONE"
                    ELSE skipped[<<i, t, w>>].status
  <2> TAKE t \in Steps, w \in Users
  <2>1. assignments'[<<i, t, w>>].status =
          IF t = n /\ w \in approvers /\ skipped[<<i, t, w>>].status = "NONE"
          THEN "PENDING" ELSE skipped[<<i, t, w>>].status
    BY <1>1, RowKnown, AssignRow
  <2>2. CASE t = n
    <3>1. t # s
      BY <1>2, <2>2
    <3> QED BY <1>4, <1>5, <2>1, <2>2, <3>1
  <2> QED BY <2>1, <2>2
<1>7. approvers \in SUBSET Users
  BY <1>2, RuleOfStep DEF Resolve
<1> HIDE DEF approvers
<1>8. \A t \in Steps : t # s /\ t # n => Still(i, t)
  BY <1>4, <1>6 DEF Still
<1>9. \A t : t < n /\ t \in Nat => t < s \/ t = s
  BY <1>2
<1>10. NothingAhead(i)'
  <2> SUFFICES ASSUME NEW t \in Steps, NEW w \in Users, t > n
               PROVE  assignments'[<<i, t, w>>].status = "NONE"
    <3>1. instances'[i].status # "NONE"
      BY <1>3, StatusForType DEF Active, status
    <3> QED BY <1>3, <3>1 DEF NothingAhead
  <2>1. t # n /\ t # s /\ t > s
    BY <1>2
  <2>2. assignments[<<i, t, w>>].status = "NONE"
    BY <1>2, <2>1 DEF QuorumOf, NothingAhead
  <2> QED BY <1>4, <1>6, <2>1, <2>2
<1>11. BehindIsMet(i)'
  <2> SUFFICES ASSUME NEW t \in DOMAIN Definitions[v].steps, t < n
               PROVE  Met(i, t)'
    <3>1. instances'[i].status # "APPROVED"
      BY <1>3, StatusForType DEF Active, status
    <3> QED BY <1>3, <3>1 DEF BehindIsMet
  <2>0. t \in Steps /\ t \in Nat /\ n \in Nat
    BY <1>2
  <2>1. t \in Steps /\ t \in Nat /\ t # n
    BY <2>0
  <2>2. CASE t = s
    <3>1. \A w \in Users :
            assignments'[<<i, s, w>>].status =
              IF w = u THEN "APPROVED"
              ELSE IF assignments[<<i, s, w>>].status = "PENDING" THEN "SKIPPED"
              ELSE assignments[<<i, s, w>>].status
      BY <1>4, <1>6, <2>1, <2>2
    <3> QED BY <1>1, <1>3, <2>2, <3>1, DecidedMet
  <2>3. CASE t # s
    <3>1. t < s
      BY <1>9, <2>1, <2>3
    <3>2. Met(i, t)
      BY <1>2, <3>1 DEF QuorumOf, BehindIsMet
    <3> QED BY <1>3, <1>8, <2>1, <2>3, <3>2, StillMet
  <2> QED BY <2>2, <2>3
<1>12. OthersApprove(i)'
  <2> SUFFICES ASSUME NEW t \in Steps, assignments'[<<i, t, r>>].status = "APPROVED"
               PROVE  Definitions[v].self
    BY <1>3 DEF OthersApprove
  <2>1. Definitions[v].self \/ r # u
    BY <1>1 DEF MayAct
  <2>2. CASE assignments[<<i, t, r>>].status = "APPROVED"
    BY <2>2 DEF QuorumOf, OthersApprove
  <2>3. CASE assignments[<<i, t, r>>].status # "APPROVED"
    BY <1>2, <1>4, <1>6, <2>1, <2>3
  <2> QED BY <2>2, <2>3
<1>13. OpenStepLacks(i)'
  <2> DEFINE rule == Definitions[v].steps[n]
  <2>2. rule.minimum \in Nat \ {0}
    BY <1>2, RuleOfStep
  <2>3. rule.mode = "ANY" /\ status = "PENDING" => Cardinality(approvers) >= rule.minimum
    BY DEF status, StatusFor, Ready
  <2> HIDE DEF rule
  <2>4. Cardinality({}) < rule.minimum
    BY <2>2, FS_EmptySet
  <2>5. StepOf(i)' = rule
    BY <1>3 DEF StepOf, rule
  <2>6. /\ Saying(i, instances[i].step, {"APPROVED"})' = {}
        /\ Saying(i, instances[i].step, {"PENDING", "APPROVED"})' = approvers
    <3>1. \A w \in Users : assignments'[<<i, instances'[i].step, w>>].status =
                             IF w \in approvers THEN "PENDING" ELSE "NONE"
      BY <1>2, <1>3, <1>6
    <3> QED BY <1>7, <3>1 DEF Saying
  <2> QED BY <1>3, <2>3, <2>4, <2>5, <2>6 DEF OpenStepLacks
<1> QED BY <1>10, <1>11, <1>12, <1>13 DEF QuorumOf

LEMMA ApproveRequestQuorum ==
  ASSUME TypeOK, StepInVersion, NEW i \in Instances, NEW u \in Users, QuorumOf(i), ApproveRequest(i, u)
  PROVE  QuorumOf(i)'
<1> DEFINE s == instances[i].step
           v == instances[i].version
           r == instances[i].requester
<1>1. /\ MayAct(i, u) /\ Enough(i) /\ LastStep(i)
      /\ instances' = [instances EXCEPT ![i].status = "APPROVED"]
      /\ assignments' = Close(Decided(i, u, "APPROVED"), StepRows(i), "SKIPPED")
  BY DEF ApproveRequest
<1>2. /\ instances'[i].status = "APPROVED" /\ instances'[i].step = s
      /\ instances'[i].version = v /\ instances'[i].requester = r
  BY <1>1 DEF TypeOK, Instance
<1>3. /\ v \in DOMAIN Definitions /\ r \in Users
      /\ s \in Nat /\ s \in Steps
      /\ DOMAIN Definitions[v].steps \subseteq Steps
      /\ DOMAIN Definitions[v].steps = 1..Len(Definitions[v].steps)
      /\ s = Len(Definitions[v].steps)
      /\ instances[i].status \in Active
  <2>1. instances[i].status \in Active
    BY <1>1 DEF MayAct
  <2>2. s = Len(Definitions[v].steps)
    BY <1>1 DEF LastStep
  <2> QED BY <2>1, <2>2, StepsOfVersion, VersionSteps DEF TypeOK, Instance
<1>4. \A t \in Steps, w \in Users :
         assignments'[<<i, t, w>>].status =
           IF t = s /\ w = u THEN "APPROVED"
           ELSE IF t = s /\ assignments[<<i, t, w>>].status = "PENDING" THEN "SKIPPED"
           ELSE assignments[<<i, t, w>>].status
  <2> TAKE t \in Steps, w \in Users
  <2>1. <<i, t, w>> \in Rows /\ (<<i, t, w>> \in StepRows(i) <=> t = s)
    BY RowKnown DEF StepRows
  <2> QED BY <1>1, <2>1, SkippedRow
<1>5. NothingAhead(i)' /\ OpenStepLacks(i)'
  BY <1>2 DEF NothingAhead, OpenStepLacks, Active
<1>6. BehindIsMet(i)'
  <2> SUFFICES ASSUME NEW t \in DOMAIN Definitions[v].steps
               PROVE  Met(i, t)'
    BY <1>2 DEF BehindIsMet
  <2>1. CASE t = s
    <3>1. \A w \in Users :
            assignments'[<<i, s, w>>].status =
              IF w = u THEN "APPROVED"
              ELSE IF assignments[<<i, s, w>>].status = "PENDING" THEN "SKIPPED"
              ELSE assignments[<<i, s, w>>].status
      BY <1>3, <1>4
    <3> QED BY <1>1, <1>2, <2>1, <3>1, DecidedMet
  <2>2. CASE t # s
    <3>1. t \in Steps /\ t < s
      BY <1>3, <2>2
    <3>2. Met(i, t)
      BY <1>3, <3>1 DEF QuorumOf, BehindIsMet
    <3>3. Still(i, t)
      BY <1>4, <2>2, <3>1 DEF Still
    <3> QED BY <1>2, <3>2, <3>3, StillMet
  <2> QED BY <2>1, <2>2
<1>7. OthersApprove(i)'
  <2> SUFFICES ASSUME NEW t \in Steps, assignments'[<<i, t, r>>].status = "APPROVED"
               PROVE  Definitions[v].self
    BY <1>2 DEF OthersApprove
  <2>1. Definitions[v].self \/ r # u
    BY <1>1 DEF MayAct
  <2>2. CASE assignments[<<i, t, r>>].status = "APPROVED"
    BY <2>2 DEF QuorumOf, OthersApprove
  <2>3. CASE assignments[<<i, t, r>>].status # "APPROVED"
    BY <1>3, <1>4, <2>1, <2>3
  <2> QED BY <2>2, <2>3
<1> QED BY <1>5, <1>6, <1>7 DEF QuorumOf

LEMMA StartQuorum ==
  ASSUME TypeOK, NEW i \in Instances, NEW u \in Users, QuorumOf(i), Start(i, u)
  PROVE  QuorumOf(i)'
<1> DEFINE approvers == Resolve(published, 1, u)
           rule == Definitions[published].steps[1]
           status == StatusFor(Ready(rule, Cardinality(approvers)))
<1>1. /\ instances[i].status = "NONE"
      /\ instances' = [instances EXCEPT ![i] =
             [status |-> status, version |-> published, step |-> 1, requester |-> u]]
      /\ assignments' = Assign(assignments, i, 1, approvers, clock + Sla)
  BY DEF Start
<1>2. published \in DOMAIN Definitions /\ 1 \in DOMAIN Definitions[published].steps /\ 1 \in Steps
  <2>1. published \in DOMAIN Definitions
    BY DEF TypeOK
  <2> QED BY <2>1, VersionSteps
<1>3. /\ approvers \in SUBSET Users
      /\ rule.minimum \in Nat \ {0}
      /\ rule.mode = "ANY" /\ status = "PENDING" => Cardinality(approvers) >= rule.minimum
  BY <1>2, RuleOfStep DEF Resolve, StatusFor, Ready
<1>4. status \in Active
  BY StatusForType
<1> HIDE DEF approvers, rule, status
<1>5. /\ instances'[i].status = status /\ instances'[i].version = published
      /\ instances'[i].step = 1 /\ instances'[i].requester = u
  BY <1>1 DEF TypeOK
<1>6. \A t \in Steps, w \in Users :
         assignments'[<<i, t, w>>].status = IF t = 1 /\ w \in approvers THEN "PENDING" ELSE "NONE"
  <2> TAKE t \in Steps, w \in Users
  <2>1. assignments[<<i, t, w>>].status = "NONE"
    BY <1>1 DEF QuorumOf, NothingAhead
  <2> QED BY <1>1, <2>1, RowKnown, AssignRow
<1>7. NothingAhead(i)'
  <2> SUFFICES ASSUME NEW t \in Steps, NEW w \in Users, t > 1
               PROVE  assignments'[<<i, t, w>>].status = "NONE"
    BY <1>4, <1>5 DEF NothingAhead, Active
  <2>1. t # 1
    BY StepsAreNumbers
  <2> QED BY <1>6, <2>1
<1>8. BehindIsMet(i)'
  <2>1. \A t \in DOMAIN Definitions[published].steps : ~(t < 1)
    BY <1>2, VersionSteps
  <2> QED BY <1>4, <1>5, <2>1 DEF BehindIsMet, Active
<1>9. OthersApprove(i)'
  BY <1>5, <1>6 DEF OthersApprove
<1>10. OpenStepLacks(i)'
  <2>1. \A w \in Users : assignments'[<<i, instances'[i].step, w>>].status =
                           IF w \in approvers THEN "PENDING" ELSE "NONE"
    BY <1>2, <1>5, <1>6
  <2>2. /\ Saying(i, instances[i].step, {"APPROVED"})' = {}
        /\ Saying(i, instances[i].step, {"PENDING", "APPROVED"})' = approvers
    BY <1>3, <2>1 DEF Saying
  <2>3. Cardinality({}) < rule.minimum
    BY <1>3, FS_EmptySet
  <2>4. StepOf(i)' = rule
    BY <1>5 DEF StepOf, rule
  <2> QED BY <1>3, <1>5, <2>2, <2>3, <2>4 DEF OpenStepLacks
<1> QED BY <1>7, <1>8, <1>9, <1>10 DEF QuorumOf

LEMMA ReassignQuorum ==
  ASSUME TypeOK, StepInVersion, NEW i \in Instances, NEW u \in Users, QuorumOf(i), Reassign(i, u)
  PROVE  QuorumOf(i)'
<1> DEFINE s == instances[i].step
           v == instances[i].version
           r == instances[i].requester
           mine == <<i, s, u>>
           dropped == IF instances[i].status = "PENDING" THEN StepRows(i) ELSE {}
           table == Close(assignments, dropped, "CANCELLED")
           status == StatusFor(Ready(StepOf(i), Cardinality(HeldAfter(i, u))))
<1>1. /\ instances[i].status \in Active
      /\ instances' = [instances EXCEPT ![i].status = status]
      /\ assignments' = Renewed(i, u)
      /\ Renewed(i, u) = [table EXCEPT ![mine].status = "PENDING", ![mine].due = NewDeadline(mine)]
  BY ReassignEffect DEF Reassign, Renewed
<1>2. /\ instances'[i].status = status /\ instances'[i].step = s
      /\ instances'[i].version = v /\ instances'[i].requester = r
  BY <1>1 DEF TypeOK, Instance
<1>3. status \in Active /\ v \in DOMAIN Definitions /\ s \in Steps /\ r \in Users
      /\ s \in DOMAIN Definitions[v].steps /\ DOMAIN Definitions[v].steps \subseteq Steps
  BY StatusForType, StepsOfVersion DEF StepInVersion, TypeOK, Instance
<1>4. \A a \in Rows :
         /\ a = mine => assignments'[a].status = "PENDING"
         /\ a # mine /\ a \in StepRows(i) =>
               \/ assignments'[a].status = assignments[a].status
               \/ assignments'[a].status = "CANCELLED"
         /\ a # mine /\ a \notin StepRows(i) => assignments'[a].status = assignments[a].status
  <2>1. table \in [Rows -> Assignment]
    BY CloseType DEF TypeOK, AssignmentStatus
  <2>2. \A a \in Rows : table[a].status =
          IF a \in dropped /\ assignments[a].status = "PENDING" THEN "CANCELLED" ELSE assignments[a].status
    BY CloseRow DEF TypeOK
  <2>3. dropped \subseteq StepRows(i)
    OBVIOUS
  <2> HIDE DEF table, dropped
  <2>4. \A a \in Rows : assignments'[a].status = IF a = mine THEN "PENDING" ELSE table[a].status
    BY <1>1, <2>1 DEF Assignment
  <2> QED BY <2>2, <2>3, <2>4
<1>5. \A t \in Steps, w \in Users :
         /\ t # s => assignments'[<<i, t, w>>].status = assignments[<<i, t, w>>].status
         /\ assignments'[<<i, t, w>>].status = "APPROVED" => assignments[<<i, t, w>>].status = "APPROVED"
  <2> TAKE t \in Steps, w \in Users
  <2>1. <<i, t, w>> \in Rows /\ (<<i, t, w>> \in StepRows(i) <=> t = s)
    BY RowKnown DEF StepRows
  <2> QED BY <1>4, <2>1
<1>6. \A t \in Steps : t # s => Still(i, t)
  BY <1>5 DEF Still
<1>7. HeldAfter(i, u) = With(i, {"PENDING", "APPROVED"})'
  BY <1>1, <1>2 DEF HeldAfter, With, StepRows
<1> HIDE DEF status
<1>8. NothingAhead(i)'
  <2> SUFFICES ASSUME NEW t \in Steps, NEW w \in Users, t > s
               PROVE  assignments'[<<i, t, w>>].status = "NONE"
    BY <1>2, <1>3 DEF NothingAhead, Active
  <2>1. t # s
    BY <1>3, StepsAreNumbers
  <2> QED BY <1>1, <1>5, <2>1 DEF QuorumOf, NothingAhead
<1>9. BehindIsMet(i)'
  <2> SUFFICES ASSUME NEW t \in DOMAIN Definitions[v].steps, t < s
               PROVE  Met(i, t)'
    BY <1>2, <1>3 DEF BehindIsMet, Active
  <2>0. t \in Steps /\ t \in Nat /\ s \in Nat
    BY <1>3, StepsAreNumbers
  <2>1. t \in Steps /\ t # s
    BY <2>0
  <2>2. Met(i, t)
    BY <1>1 DEF QuorumOf, BehindIsMet
  <2> QED BY <1>2, <1>6, <2>1, <2>2, StillMet
<1>10. OthersApprove(i)'
  BY <1>2, <1>3, <1>5 DEF QuorumOf, OthersApprove
<1>11. OpenStepLacks(i)'
  <2> SUFFICES ASSUME StepOf(i).mode = "ANY"
               PROVE  /\ Cardinality(Saying(i, instances[i].step, {"APPROVED"})') < StepOf(i).minimum
                      /\ status = "PENDING" =>
                           Cardinality(Saying(i, instances[i].step, {"PENDING", "APPROVED"})')
                             >= StepOf(i).minimum
    BY <1>2 DEF OpenStepLacks, StepOf
  <2>1. Saying(i, instances[i].step, {"APPROVED"})' \subseteq Saying(i, instances[i].step, {"APPROVED"})
    BY <1>2, <1>3, <1>5 DEF Saying
  <2>2. /\ IsFiniteSet(Saying(i, instances[i].step, {"APPROVED"}))
        /\ Cardinality(Saying(i, instances[i].step, {"APPROVED"})) \in Nat
    BY SayingFinite
  <2>3. /\ Cardinality(Saying(i, instances[i].step, {"APPROVED"})')
             <= Cardinality(Saying(i, instances[i].step, {"APPROVED"}))
        /\ Cardinality(Saying(i, instances[i].step, {"APPROVED"})') \in Nat
    BY <2>1, <2>2, FS_Subset, FS_CardinalityType
  <2>4. StepOf(i).minimum \in Nat
    BY <1>3, RuleOfStep DEF StepOf
  <2>5. Cardinality(Saying(i, instances[i].step, {"APPROVED"})) < StepOf(i).minimum
    BY <1>1 DEF QuorumOf, OpenStepLacks
  <2>6. Cardinality(Saying(i, instances[i].step, {"APPROVED"})') < StepOf(i).minimum
    BY <2>2, <2>3, <2>4, <2>5
  <2>7. TypeOK'
    BY ReassignType DEF Reassign, TableOK, TypeOK
  <2>8. Cardinality(With(i, {"PENDING", "APPROVED"})')
          = Cardinality(Saying(i, instances[i].step, {"PENDING", "APPROVED"})')
    BY <2>7, WithUsersNext DEF WithAgrees
  <2>9. status = "PENDING" => Cardinality(HeldAfter(i, u)) >= StepOf(i).minimum
    BY DEF status, StatusFor, Ready
  <2> QED BY <1>7, <2>6, <2>8, <2>9
<1> QED BY <1>8, <1>9, <1>10, <1>11 DEF QuorumOf

-----------------------------------------------------------------------------
(* Quorums in every reachable state.                                       *)

LEMMA OperationQuorum ==
  ASSUME TypeOK, StepInVersion, NEW i \in Instances, QuorumOf(i), Operation(i)
  PROVE  QuorumOf(i)'
BY CancelQuorum, StartQuorum, MoreQuorum, ApproveStepQuorum, ApproveRequestQuorum, DeclineQuorum,
   ReassignQuorum DEF Operation, Review

\* The reviews the job adds are of a step under review: they complete no
\* quorum, and they leave no step with fewer reviewers.
LEMMA JobQuorum ==
  ASSUME TypeOK, StepInVersion, PendingIsCurrent, Job, NEW i \in Instances, QuorumOf(i)
  PROVE  QuorumOf(i)'
<1>1. instances' = instances
  BY JobEffect
<1>2. CASE \A a \in Rows : assignments'[a].status = assignments[a].status
  <2>1. \A s \in Steps : Still(i, s)
    BY <1>2, RowKnown DEF Still
  <2> QED BY <1>1, <2>1, Unchanged
<1>3. CASE \E a \in Rows :
             /\ UnderReview(a)
             /\ \A b \in Rows :
                  \/ assignments'[b].status = assignments[b].status
                  \/ b[1] = a[1] /\ b[2] = a[2] /\ assignments'[b].status = "PENDING"
  <2> PICK a \in Rows :
             /\ UnderReview(a)
             /\ \A b \in Rows :
                  \/ assignments'[b].status = assignments[b].status
                  \/ b[1] = a[1] /\ b[2] = a[2] /\ assignments'[b].status = "PENDING"
    BY <1>3
  <2>1. instances[a[1]].status = "PENDING" /\ a[2] = instances[a[1]].step
    BY DEF UnderReview, PendingIsCurrent
  <2>2. CASE a[1] # i
    <3>1. \A s \in Steps : Still(i, s)
      BY <2>2, RowKnown DEF Still
    <3> QED BY <1>1, <3>1, Unchanged
  <2>3. CASE a[1] = i
    <3> DEFINE s == instances[i].step
    <3>1. instances[i].status = "PENDING" /\ a[2] = s /\ s \in Steps /\ s \in Nat
      BY <2>1, <2>3, StepsOfVersion
    <3>2. \A t \in Steps, w \in Users :
             \/ assignments'[<<i, t, w>>].status = assignments[<<i, t, w>>].status
             \/ t = s /\ assignments'[<<i, t, w>>].status = "PENDING"
      BY <3>1, RowKnown
    <3>3. \A t \in Steps : t # s => Still(i, t)
      BY <3>2 DEF Still
    <3>4. NothingAhead(i)'
      BY <1>1, <3>1, <3>2 DEF QuorumOf, NothingAhead
    <3>5. BehindIsMet(i)'
      <4> SUFFICES ASSUME NEW t \in DOMAIN Definitions[instances[i].version].steps, t < s
                   PROVE  Met(i, t)'
        BY <1>1, <3>1 DEF BehindIsMet
      <4>0. t \in Steps /\ t \in Nat
        BY StepsOfVersion
      <4>1. t \in Steps /\ t # s
        BY <3>1, <4>0
      <4>2. Met(i, t)
        BY <3>1 DEF QuorumOf, BehindIsMet, Active
      <4> QED BY <1>1, <3>3, <4>1, <4>2, StillMet
    <3>6. OthersApprove(i)'
      <4>1. instances[i].requester \in Users
        BY DEF TypeOK, Instance
      <4> QED BY <1>1, <3>2, <4>1 DEF QuorumOf, OthersApprove
    <3>7. OpenStepLacks(i)'
      <4> DEFINE approved == Saying(i, instances[i].step, {"APPROVED"})
                 held == Saying(i, instances[i].step, {"PENDING", "APPROVED"})
      <4> SUFFICES ASSUME StepOf(i).mode = "ANY"
                   PROVE  /\ Cardinality(approved') < StepOf(i).minimum
                          /\ Cardinality(held') >= StepOf(i).minimum
        BY <1>1, <3>1 DEF OpenStepLacks, StepOf
      <4>1. approved' \subseteq approved /\ held \subseteq held'
        BY <1>1, <3>1, <3>2 DEF Saying
      <4>2. /\ Cardinality(approved) < StepOf(i).minimum
            /\ Cardinality(held) >= StepOf(i).minimum
        BY <3>1 DEF QuorumOf, OpenStepLacks, Active
      <4>3. /\ IsFiniteSet(approved) /\ Cardinality(approved) \in Nat
            /\ IsFiniteSet(held) /\ Cardinality(held) \in Nat
        BY SayingFinite
      <4>4. IsFiniteSet(held')
        <5>1. held' \subseteq Users
          BY DEF Saying
        <5> QED BY <5>1, WorkflowConstants, FS_Subset
      <4> HIDE DEF approved, held
      <4>5. /\ Cardinality(approved') <= Cardinality(approved) /\ Cardinality(approved') \in Nat
            /\ Cardinality(held) <= Cardinality(held') /\ Cardinality(held') \in Nat
        BY <4>1, <4>3, <4>4, FS_Subset, FS_CardinalityType
      <4>6. StepOf(i).minimum \in Nat
        BY StepsOfVersion, RuleOfStep DEF StepOf, StepInVersion
      <4> QED BY <4>2, <4>3, <4>5, <4>6
    <3> QED BY <3>4, <3>5, <3>6, <3>7 DEF QuorumOf
  <2> QED BY <2>2, <2>3
<1> QED BY <1>2, <1>3, JobEffect

LEMMA QuorumNext ==
  TypeOK /\ StepInVersion /\ PendingIsCurrent /\ QuorumInv /\ [Next]_vars => QuorumInv'
<1> SUFFICES ASSUME TypeOK, StepInVersion, PendingIsCurrent, QuorumInv, [Next]_vars,
                    NEW i \in Instances
             PROVE  QuorumOf(i)'
  BY DEF QuorumInv
<1>0. QuorumOf(i)
  BY DEF QuorumInv
<1>1. CASE \E j \in Instances : Operation(j)
  <2> PICK j \in Instances : Operation(j)
    BY <1>1
  <2>1. CASE j = i
    BY <1>0, <2>1, OperationQuorum
  <2>2. CASE j # i
    <3>1. instances'[i] = instances[i] /\ \A a \in Rows : a[1] # j => assignments'[a] = assignments[a]
      BY <2>2, OperationLocal DEF Local
    <3>2. \A s \in Steps : Still(i, s)
      BY <2>2, <3>1, RowKnown DEF Still
    <3> QED BY <1>0, <3>1, <3>2, Unchanged
  <2> QED BY <2>1, <2>2
<1>2. CASE Job
  BY <1>0, <1>2, JobQuorum
<1>3. CASE Publish \/ Tick \/ UNCHANGED vars
  <2>1. instances' = instances /\ assignments' = assignments
    BY <1>3 DEF Publish, Tick, vars
  <2>2. \A s \in Steps : Still(i, s)
    BY <2>1 DEF Still
  <2> QED BY <1>0, <2>1, <2>2, Unchanged
<1> QED BY <1>1, <1>2, <1>3, NextCases

LEMMA QuorumInit == Init => QuorumInv
<1> SUFFICES ASSUME Init, NEW i \in Instances PROVE QuorumOf(i)
  BY DEF QuorumInv
<1>1. instances[i].status = "NONE" /\ instances[i].requester \in Users
  BY DEF Init
<1>2. \A s \in Steps, w \in Users : assignments[<<i, s, w>>].status = "NONE"
  BY RowKnown DEF Init, Row
<1> QED BY <1>1, <1>2 DEF QuorumOf, NothingAhead, BehindIsMet, OthersApprove, OpenStepLacks, Active

LEMMA QuorumAlways == Spec => [](TypeOK /\ StepInVersion /\ QuorumInv)
<1>1. Init => QuorumInv
  BY QuorumInit
<1>2. TypeOK /\ StepInVersion /\ PendingIsCurrent /\ QuorumInv /\ [Next]_vars => QuorumInv'
  BY QuorumNext
<1> QED BY <1>1, <1>2, TypeAlways, NoObsoleteReviews, PTL DEF Spec

LEMMA QuorumIsKept == TypeOK /\ StepInVersion /\ QuorumInv => ApprovedByQuorum
<1> SUFFICES ASSUME TypeOK, StepInVersion, QuorumInv, NEW i \in Instances,
                    instances[i].status = "APPROVED",
                    NEW s \in DOMAIN Definitions[instances[i].version].steps
             PROVE  LET step == Definitions[instances[i].version].steps[s]
                        approvers == {u \in Users : assignments[<<i, s, u>>].status = "APPROVED"}
                    IN  /\ step.mode = "ANY" => Cardinality(approvers) >= step.minimum
                        /\ step.mode = "ALL" =>
                              /\ approvers # {}
                              /\ \A u \in Users :
                                    assignments[<<i, s, u>>].status \in {"NONE", "APPROVED"}
                        /\ instances[i].requester \in approvers =>
                              Definitions[instances[i].version].self
  BY DEF ApprovedByQuorum
<1>1. QuorumOf(i) /\ s \in Steps
  BY StepsOfVersion DEF QuorumInv
<1>2. Met(i, s)
  BY <1>1 DEF QuorumOf, BehindIsMet
<1>3. {u \in Users : assignments[<<i, s, u>>].status = "APPROVED"} = Saying(i, s, {"APPROVED"})
  BY DEF Saying
<1>4. instances[i].requester \in Saying(i, s, {"APPROVED"}) => Definitions[instances[i].version].self
  BY <1>1 DEF QuorumOf, OthersApprove, Saying
<1> QED BY <1>2, <1>3, <1>4 DEF Met

LEMMA SomebodyIsLeft == TypeOK /\ StepInVersion /\ QuorumInv => AnyStepIsReviewable
<1> SUFFICES ASSUME TypeOK, StepInVersion, QuorumInv, NEW i \in Instances,
                    instances[i].status = "PENDING", StepOf(i).mode = "ANY",
                    With(i, {"PENDING"}) = {}
             PROVE  FALSE
  BY DEF AnyStepIsReviewable
<1> DEFINE s == instances[i].step
<1>1. /\ Cardinality(Saying(i, s, {"APPROVED"})) < StepOf(i).minimum
      /\ Cardinality(Saying(i, s, {"PENDING", "APPROVED"})) >= StepOf(i).minimum
  BY DEF QuorumInv, QuorumOf, OpenStepLacks, Active
<1>2. ASSUME NEW u \in Saying(i, s, {"PENDING"}) PROVE FALSE
  BY CurrentStep DEF Saying, With, StepRows
<1>3. Saying(i, s, {"PENDING", "APPROVED"}) = Saying(i, s, {"APPROVED"})
  BY <1>2 DEF Saying
<1>4. /\ Cardinality(Saying(i, s, {"APPROVED"})) \in Nat
      /\ StepOf(i).minimum \in Nat
  BY SayingFinite, StepsOfVersion, RuleOfStep DEF StepOf, StepInVersion
<1> QED BY <1>1, <1>3, <1>4

\* A request is APPROVED only after enough of the right people approved each
\* step of the version it was submitted under, and never its requester unless
\* that version allows it.
THEOREM RequestsHaveTheirQuorum == Spec => []ApprovedByQuorum
BY QuorumIsKept, QuorumAlways, PTL

\* A request under review whose step any of several may decide never waits for
\* nobody, through every reassignment.
THEOREM SomebodyCanDecide == Spec => []AnyStepIsReviewable
BY SomebodyIsLeft, QuorumAlways, PTL
=============================================================================
