-------------------------- MODULE ApprovalWorkflow --------------------------
(***************************************************************************)
(* The approval requests of one business record under one workflow key     *)
(* (services/workflowService.js) and the job that escalates overdue        *)
(* reviews (services/workflowEscalationService.js).  Every operation is a  *)
(* transaction that starts by locking what it decides on, so each is one   *)
(* step; only the escalation job reads a list first and works through it   *)
(* in later transactions, with everything else free to happen between.     *)
(*                                                                         *)
(* Users are active throughout, and a step's approvers are the users its   *)
(* rule resolves to, all holding ACTION_APPROVALS.  Instances of the       *)
(* record are distinguished from one another, their payloads are not.      *)
(*                                                                         *)
(* Bounds: Instances, the clock's MaxTime, the number of Definitions.      *)
(***************************************************************************)
EXTENDS Integers, FiniteSets, Sequences

CONSTANTS
    Users,
    Reviewers,    \* users holding ACTION_APPROVALS
    Managers,     \* users holding MANAGE_WORKFLOWS
    Definitions,  \* the versions that get published, in order
    Instances,    \* approval requests for the record
    Sweepers,     \* runs of the escalation job that may overlap
    Limit,        \* assignments a run selects at most (100)
    Sla, Window, Grace, \* a step's deadline, the warning before it, an escalation's deadline
    MaxTime

ASSUME WorkflowConstants ==
    /\ IsFiniteSet(Users) /\ Users # {}
    /\ Reviewers \subseteq Users /\ Managers \subseteq Users
    /\ Definitions \in Seq([self : BOOLEAN,
                            steps : Seq([mode : {"ANY", "ALL"}, minimum : Nat \ {0},
                                         approvers : SUBSET Reviewers,
                                         escalation : SUBSET Users])])
    /\ Len(Definitions) > 0
    /\ \A v \in DOMAIN Definitions : Len(Definitions[v].steps) \in 1..10
    /\ Limit \in Nat \ {0} /\ MaxTime \in Nat
    /\ Sla \in Nat \ {0} /\ Window \in Nat /\ Grace \in Nat \ {0}

VARIABLES
    published,    \* the ACTIVE version of the definition
    instances,    \* workflow_instances
    assignments,  \* workflow_assignments by instance, step and assignee, with their SLA events
    batch,        \* what each run of the job has left to process
    clock         \* hours

vars == <<published, instances, assignments, batch, clock>>

Steps == {s \in 1..10 : \E v \in DOMAIN Definitions : s \in DOMAIN Definitions[v].steps}
Rows  == Instances \X Steps \X Users
Never == -1
Times == 0..(MaxTime + Sla + Grace)

Active == {"PENDING", "BLOCKED_ASSIGNMENT"}
Final  == {"APPROVED", "REJECTED", "CANCELLED"}

InstanceStatus   == Active \cup Final \cup {"NONE", "NEEDS_CHANGES"}
AssignmentStatus == {"NONE", "PENDING", "APPROVED", "REJECTED", "CHANGES_REQUESTED",
                     "SKIPPED", "CANCELLED"}

Instance   == [status : InstanceStatus, version : DOMAIN Definitions,
               step : Steps, requester : Users]
Assignment == [status : AssignmentStatus, due : Times,
               soon : Times \cup {Never},     \* the due_at its DUE_SOON event recorded,
               breached : Times \cup {Never}] \* and its BREACHED event

TypeOK ==
    /\ published \in DOMAIN Definitions
    /\ instances \in [Instances -> Instance]
    /\ assignments \in [Rows -> Assignment]
    /\ batch \in [Sweepers -> SUBSET (Rows \X Times)]
    /\ clock \in 0..MaxTime

Row(status, due) == [status |-> status, due |-> due, soon |-> Never, breached |-> Never]

Init ==
    /\ published = 1
    /\ \E u \in Users :
          instances = [i \in Instances |->
                         [status |-> "NONE", version |-> 1, step |-> 1, requester |-> u]]
    /\ assignments = [a \in Rows |-> Row("NONE", 0)]
    /\ batch = [w \in Sweepers |-> {}]
    /\ clock = 0

-----------------------------------------------------------------------------
\* Mutant: an open request follows the version published last.
StepOfPublished(i) == Definitions[published].steps[instances[i].step]

StepOf(i) == Definitions[instances[i].version].steps[instances[i].step]
LastStep(i) == instances[i].step = Len(Definitions[instances[i].version].steps)

StepRows(i) == {a \in Rows : a[1] = i /\ a[2] = instances[i].step}
With(i, statuses) == {a \in StepRows(i) : assignments[a].status \in statuses}
Exists == AssignmentStatus \ {"NONE"}

\* The approvers a step resolves to; a requester reviews only if the version says so.
Resolve(v, s, requester) ==
    Definitions[v].steps[s].approvers \ (IF Definitions[v].self THEN {} ELSE {requester})

\* Mutant: one reviewer is always enough.
ReadyWithOne(step, n) == n >= 1

\* Whether n reviewers are enough to decide a step.
Ready(step, n) == n >= (IF step.mode = "ALL" THEN 1 ELSE step.minimum)

StatusFor(ready) == IF ready THEN "PENDING" ELSE "BLOCKED_ASSIGNMENT"

\* INSERT IGNORE of an assignment for each of users: existing rows stay as they are.
Assign(table, i, s, users, due) ==
    [a \in Rows |-> IF a[1] = i /\ a[2] = s /\ a[3] \in users /\ table[a].status = "NONE"
                    THEN Row("PENDING", due)
                    ELSE table[a]]

\* UPDATE of the status of every PENDING assignment among rows.
Close(table, rows, status) ==
    [a \in Rows |-> IF a \in rows /\ table[a].status = "PENDING"
                    THEN [table[a] EXCEPT !.status = status]
                    ELSE table[a]]

InstanceRows(i) == {a \in Rows : a[1] = i}

-----------------------------------------------------------------------------
Publish ==
    /\ published + 1 \in DOMAIN Definitions
    /\ published' = published + 1
    /\ UNCHANGED <<instances, assignments, batch, clock>>

NoneActive == \A i \in Instances : instances[i].status \notin Active

Start(i, requester) ==
    /\ instances[i].status = "NONE"
    /\ NoneActive
    /\ LET approvers == Resolve(published, 1, requester)
           step      == Definitions[published].steps[1]
       IN  /\ instances' = [instances EXCEPT ![i] =
                 [status |-> StatusFor(Ready(step, Cardinality(approvers))),
                  version |-> published, step |-> 1, requester |-> requester]]
           /\ assignments' = Assign(assignments, i, 1, approvers, clock + Sla)
    /\ UNCHANGED <<published, batch, clock>>

\* What an APPROVE, REJECT or REQUEST_CHANGES of user u requires.
MayAct(i, u) ==
    /\ u \in Reviewers
    /\ instances[i].status \in Active
    /\ assignments[<<i, instances[i].step, u>>].status = "PENDING"
    /\ Definitions[instances[i].version].self \/ instances[i].requester # u

Decided(i, u, status) == [assignments EXCEPT ![<<i, instances[i].step, u>>].status = status]

\* Approvals the current step needs; "ALL" counts every row it ever had.
Required(i) == IF StepOf(i).mode = "ALL" THEN Cardinality(With(i, Exists))
                                         ELSE StepOf(i).minimum

Enough(i) == Cardinality(With(i, {"APPROVED"})) + 1 >= Required(i)

ApproveMore(i, u) ==
    /\ MayAct(i, u)
    /\ ~Enough(i)
    /\ assignments' = Decided(i, u, "APPROVED")
    /\ UNCHANGED <<published, instances, batch, clock>>

\* The approval that decides a step skips its other reviews and opens the next step.
ApproveStep(i, u) ==
    /\ MayAct(i, u)
    /\ Enough(i)
    /\ ~LastStep(i)
    /\ LET s         == instances[i].step + 1
           v         == instances[i].version
           approvers == Resolve(v, s, instances[i].requester)
       IN  /\ instances' = [instances EXCEPT
                 ![i].status = StatusFor(Ready(Definitions[v].steps[s], Cardinality(approvers))),
                 ![i].step = s]
           /\ assignments' = Assign(Close(Decided(i, u, "APPROVED"), StepRows(i), "SKIPPED"),
                                    i, s, approvers, clock + Sla)
    /\ UNCHANGED <<published, batch, clock>>

ApproveRequest(i, u) ==
    /\ MayAct(i, u)
    /\ Enough(i)
    /\ LastStep(i)
    /\ instances' = [instances EXCEPT ![i].status = "APPROVED"]
    /\ assignments' = Close(Decided(i, u, "APPROVED"), StepRows(i), "SKIPPED")
    /\ UNCHANGED <<published, batch, clock>>

Decline(i, u, decision, status) ==
    /\ MayAct(i, u)
    /\ instances' = [instances EXCEPT ![i].status = status]
    /\ assignments' = Close(Decided(i, u, decision), InstanceRows(i), "CANCELLED")
    /\ UNCHANGED <<published, batch, clock>>

Reject(i, u)         == Decline(i, u, "REJECTED", "REJECTED")
RequestChanges(i, u) == Decline(i, u, "CHANGES_REQUESTED", "NEEDS_CHANGES")

Cancellable == Active \cup {"NEEDS_CHANGES"}

\* By the requester or a manager.
Cancel(i) ==
    /\ instances[i].status \in Cancellable
    /\ instances' = [instances EXCEPT ![i].status = "CANCELLED"]
    /\ assignments' = Close(assignments, InstanceRows(i), "CANCELLED")
    /\ UNCHANGED <<published, batch, clock>>

NewDeadline(a) == clock + Sla

\* By a manager: u replaces the reviewers still pending, or joins those of a blocked
\* step.  A row u already has is renewed whatever it said; its SLA events stay.
Reassign(i, u) ==
    /\ instances[i].status \in Active
    /\ u \in Reviewers
    /\ Definitions[instances[i].version].self \/ instances[i].requester # u
    /\ LET dropped == IF instances[i].status = "PENDING" THEN StepRows(i) ELSE {}
           mine    == <<i, instances[i].step, u>>
           table   == [Close(assignments, dropped, "CANCELLED")
                         EXCEPT ![mine].status = "PENDING", ![mine].due = NewDeadline(mine)]
           held    == {a \in StepRows(i) : table[a].status \in {"PENDING", "APPROVED"}}
       IN  /\ assignments' = table
           /\ instances' = [instances EXCEPT
                 ![i].status = StatusFor(Ready(StepOf(i), Cardinality(held)))]
    /\ UNCHANGED <<published, batch, clock>>

-----------------------------------------------------------------------------
UnderReview(a) == assignments[a].status = "PENDING" /\ instances[a[1]].status = "PENDING"

\* processWorkflowSla reads the Limit earliest assignments due within the window,
\* those whose events are recorded already among them.
Select(w) ==
    /\ batch[w] = {}
    /\ LET due == {a \in Rows : UnderReview(a) /\ assignments[a].due <= clock + Window}
       IN  \E chosen \in SUBSET due :
             /\ chosen # {}
             /\ Cardinality(chosen) = Limit \/ (chosen = due /\ Cardinality(due) < Limit)
             /\ \A a \in chosen, b \in due \ chosen : assignments[a].due <= assignments[b].due
             /\ batch' = [batch EXCEPT ![w] = {<<a, assignments[a].due>> : a \in chosen}]
    /\ UNCHANGED <<published, instances, assignments, clock>>

\* Taken up in the order of due_at as it was read.
Take(w, a, due) ==
    /\ <<a, due>> \in batch[w]
    /\ \A e \in batch[w] : due <= e[2]
    /\ batch' = [batch EXCEPT ![w] = @ \ {<<a, due>>}]

\* Mutant: one event for each assignment.
AnyRecorded(a, due) == assignments[a].breached # Never \/ assignments[a].soon # Never

\* Whether the event for this due date, BREACHED or DUE_SOON, exists.
Recorded(a, due) == (IF due <= clock THEN assignments[a].breached
                                     ELSE assignments[a].soon) # Never

\* No longer under review, or the event is recorded already.
PassOver(w, a, due) ==
    /\ Take(w, a, due)
    /\ ~UnderReview(a) \/ Recorded(a, due)
    /\ UNCHANGED <<published, instances, assignments, clock>>

WarnSoon(w, a, due) ==
    /\ Take(w, a, due)
    /\ UnderReview(a)
    /\ due > clock /\ ~Recorded(a, due)
    /\ assignments' = [assignments EXCEPT ![a].soon = assignments[a].due]
    /\ UNCHANGED <<published, instances, clock>>

\* Whom a breach of a's deadline is escalated to.
Escalation(a) ==
    LET role == StepOf(a[1]).escalation
    IN  (IF role # {} THEN role ELSE Managers) \ {instances[a[1]].requester, a[3]}

\* Mutant: the job goes by what it read at the start of the run.
EscalateUnchecked(w, a, due) ==
    /\ Take(w, a, due)
    /\ due <= clock /\ ~Recorded(a, due)
    /\ assignments' = Assign([assignments EXCEPT ![a].breached = assignments[a].due],
                             a[1], a[2], Escalation(a), clock + Grace)
    /\ UNCHANGED <<published, instances, clock>>

\* A transaction of its own, which looks again whether the review is still open.
Escalate(w, a, due) ==
    /\ Take(w, a, due)
    /\ UnderReview(a)
    /\ due <= clock /\ ~Recorded(a, due)
    /\ assignments' = Assign([assignments EXCEPT ![a].breached = assignments[a].due],
                             a[1], a[2], Escalation(a), clock + Grace)
    /\ UNCHANGED <<published, instances, clock>>

\* A failed transaction or a stopped process abandons the rest of the run.
Abandon(w) ==
    /\ batch[w] # {}
    /\ batch' = [batch EXCEPT ![w] = {}]
    /\ UNCHANGED <<published, instances, assignments, clock>>

Tick ==
    /\ clock < MaxTime
    /\ clock' = clock + 1
    /\ UNCHANGED <<published, instances, assignments, batch>>

-----------------------------------------------------------------------------
Review(i, u) ==
    \/ ApproveMore(i, u)
    \/ ApproveStep(i, u)
    \/ ApproveRequest(i, u)
    \/ Reject(i, u)
    \/ RequestChanges(i, u)

Process(w, a, due) == PassOver(w, a, due) \/ WarnSoon(w, a, due) \/ Escalate(w, a, due)

Next ==
    \/ Publish
    \/ \E i \in Instances :
          \/ Cancel(i)
          \/ \E u \in Users : Start(i, u) \/ Review(i, u) \/ Reassign(i, u)
    \/ \E w \in Sweepers :
          \/ Select(w)
          \/ Abandon(w)
          \/ \E e \in batch[w] : Process(w, e[1], e[2])
    \/ Tick

Spec == Init /\ [][Next]_vars

\* The job's timer keeps starting runs, and no failure keeps every run from
\* ever reaching an assignment that run after run comes up for processing.
Fairness ==
    \A w \in Sweepers :
        /\ WF_vars(Select(w))
        /\ \A a \in Rows : SF_vars(\E due \in Times : Process(w, a, due))

FairSpec == Spec /\ Fairness

-----------------------------------------------------------------------------
\* "Requests ... cannot have two active approval instances for the same
\* workflow and business record", blocked ones included.
AtMostOneActive ==
    \A i, j \in Instances :
        instances[i].status \in Active /\ instances[j].status \in Active => i = j

\* A request is APPROVED only after enough of the right people approved each
\* step of the version it was submitted under, whatever was published,
\* reassigned or escalated since, and never its requester unless that version
\* allows it.
ApprovedByQuorum ==
    \A i \in Instances : instances[i].status = "APPROVED" =>
        LET version == Definitions[instances[i].version]
            Approvers(s) == {u \in Users : assignments[<<i, s, u>>].status = "APPROVED"}
        IN  \A s \in DOMAIN version.steps :
              /\ version.steps[s].mode = "ANY" =>
                    Cardinality(Approvers(s)) >= version.steps[s].minimum
              /\ version.steps[s].mode = "ALL" =>
                    /\ Approvers(s) # {}
                    /\ \A u \in Users : assignments[<<i, s, u>>].status \in {"NONE", "APPROVED"}
              /\ instances[i].requester \in Approvers(s) => version.self

\* Nobody has a review in the inbox that the request no longer waits for:
\* pending assignments belong to the current step of an active request, also
\* those the escalation job adds while reviewers act.
PendingIsCurrent ==
    \A a \in Rows : assignments[a].status = "PENDING" =>
        instances[a[1]].status \in Active /\ a[2] = instances[a[1]].step

\* A request under review never waits for nobody: some review of the current
\* step is pending, through every reassignment.  True of steps any of whose
\* reviewers may decide; see ReviewIsPending for the others.
AnyStepIsReviewable ==
    \A i \in Instances : instances[i].status = "PENDING" /\ StepOf(i).mode = "ANY" =>
        With(i, {"PENDING"}) # {}

\* What was decided stays decided: no review, cancellation or late step of
\* the escalation job changes a final request or any assignment of it.
FinalIsFinal ==
    [][\A i \in Instances : instances[i].status \in Final =>
         /\ instances'[i] = instances[i]
         /\ \A a \in InstanceRows(i) : assignments'[a].status = assignments[a].status]_vars

\* The job records the breach of every overdue review, unless the review ends
\* or is given a new deadline first.
OverdueIsNoticed ==
    \A a \in Rows :
        UnderReview(a) /\ assignments[a].due <= clock
        ~> ~UnderReview(a) \/ assignments[a].due > clock \/ assignments[a].breached # Never

-----------------------------------------------------------------------------
\* "A request with no qualified reviewer is blocked for assignment": a request
\* that is not blocked has a pending review.
ReviewIsPending ==
    \A i \in Instances : instances[i].status = "PENDING" => With(i, {"PENDING"}) # {}
=============================================================================
