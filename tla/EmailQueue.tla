----------------------------- MODULE EmailQueue -----------------------------
(***************************************************************************)
(* The company e-mail queue (services/emailQueue.js) and the operator's    *)
(* queue controls (controllers/emailController.js): rows of email_queue    *)
(* and any number of concurrent processEmailQueue cycles.  The scheduled   *)
(* cycle runs under a background-job lease, but the "process" endpoint     *)
(* runs one directly, so cycles do overlap.                                *)
(*                                                                         *)
(* Every query and the call of the mail transport is one step.  A Worker   *)
(* is one cycle at a time.  Weekly timesheet rows and invoice rows follow  *)
(* paths of their own here; what it does to the invoice is added by        *)
(* InvoiceDelivery.                                                        *)
(* email_logs and the evidence columns of a row (last_error, message_id,   *)
(* sent_at, provider_accepted_at) are never read back by the queue and are *)
(* left out; that writing them can fail is not.                            *)
(*                                                                         *)
(* Bounds: MaxClaims attempts per row, MaxRetries operator retries,        *)
(* MaxCrashes cycles cut short, MaxDbErrors failed queries, MaxStalls      *)
(* cycles that hold a claim for more than 15 minutes.                      *)
(***************************************************************************)
EXTENDS Naturals

CONSTANTS
    Workers,      \* processEmailQueue cycles, on all replicas
    Msgs,         \* messages that may be queued; one idempotency key each
    Weekly,       \* those weeklyMessage() recognises
    Invoices,     \* those with related_module = 'invoices'
    NoMsg,
    MaxAttempts,  \* email_queue.max_attempts
    MaxClaims, MaxRetries, MaxCrashes, MaxDbErrors, MaxStalls

ASSUME MessagesAssumption ==
    /\ Weekly \subseteq Msgs
    /\ Invoices \subseteq Msgs \ Weekly
    /\ NoMsg \notin Msgs
ASSUME LimitsAssumption ==
    /\ MaxAttempts \in Nat \ {0}
    /\ {MaxClaims, MaxRetries, MaxCrashes, MaxDbErrors, MaxStalls} \subseteq Nat

RowStatus == {"NONE", "PENDING", "SENDING", "SENT", "RETRY", "FAILED",
              "REVIEW_REQUIRED", "CANCELLED"}
Verdicts  == {"none", "SENT", "RETRY", "FAILED", "REVIEW_REQUIRED"}
PCs       == {"idle", "select", "claim", "prepare", "send", "sent", "settle",
              "log", "confirm", "mark", "markVersion"}

VARIABLES
    queue,     \* email_queue, by message; "NONE" until queued
    accepted,  \* how often the provider really accepted the message
    pc,        \* where each cycle awaits
    batch,     \* rows its SELECT returned, not yet handled
    seen,      \* the attempts column as that SELECT read it
    row,       \* the row being handled
    verdict,   \* the status being recorded for it
    faults     \* how much of the budgets is used

cycle == <<pc, batch, seen, row, verdict>>
vars  == <<queue, accepted, cycle, faults>>

TypeOK ==
    /\ queue \in [Msgs -> [status : RowStatus, attempts : Nat,
                           waiting : BOOLEAN, stale : BOOLEAN]]
    /\ accepted \in [Msgs -> Nat]
    /\ pc \in [Workers -> PCs]
    /\ batch \in [Workers -> SUBSET Msgs]
    /\ seen \in [Workers -> [Msgs -> Nat]]
    /\ row \in [Workers -> Msgs \cup {NoMsg}]
    /\ verdict \in [Workers -> Verdicts]
    /\ faults \in [retry : 0..MaxRetries, crash : 0..MaxCrashes,
                   db : 0..MaxDbErrors, stall : 0..MaxStalls]

Init ==
    /\ queue = [m \in Msgs |-> [status |-> "NONE", attempts |-> 0,
                                waiting |-> FALSE, stale |-> FALSE]]
    /\ accepted = [m \in Msgs |-> 0]
    /\ pc = [w \in Workers |-> "idle"]
    /\ batch = [w \in Workers |-> {}]
    /\ seen = [w \in Workers |-> [m \in Msgs |-> 0]]
    /\ row = [w \in Workers |-> NoMsg]
    /\ verdict = [w \in Workers |-> "none"]
    /\ faults = [retry |-> 0, crash |-> 0, db |-> 0, stall |-> 0]

-----------------------------------------------------------------------------
(* What the queries read.                                                  *)

\* Scheduled, and next_attempt_at has passed.
Due(m) ==
    /\ queue[m].status \in {"PENDING", "RETRY"}
    /\ ~queue[m].waiting
    /\ queue[m].attempts < MaxClaims

\* Mutant: the claim does not check that the row is due again.
ClaimableEarly(m) ==
    /\ queue[m].status \in {"PENDING", "RETRY"}
    /\ queue[m].attempts < MaxClaims

\* Mutant: the claim relies on what its SELECT read.
ClaimableAsSelected(m) == queue[m].attempts < MaxClaims

\* The WHERE clause of the claim, checked again at the UPDATE.
Claimable(m) ==
    /\ Due(m)
    /\ m \in Weekly => queue[m].attempts < MaxAttempts

\* Claimed more than 15 minutes ago and still SENDING.
Abandoned(m) == queue[m].status = "SENDING" /\ queue[m].stale

\* A weekly row's delivery stays locked from its validation to the commit.
Locked(m) == \E w \in Workers :
    row[w] = m /\ m \in Weekly /\ pc[w] \in {"send", "sent"}

-----------------------------------------------------------------------------
(* The catch block's decision.  How preparing or sending can fail:         *)
(*   held       DELIVERY_REVIEW_REQUIRED, or an uncertain transport        *)
(*   repair     a PDF_ code: the row's attachment must be repaired         *)
(*   permanent  an explicit refusal that is not retryable                  *)
(*   transport  not dispatched, or refused with a connectivity code        *)
(*   temporary  an explicit temporary refusal                              *)

Errors == {"held", "repair", "permanent", "transport", "temporary"}

\* Mutant: an uncertain outcome is retried like a lost connection.
DecideRetriesUncertain(m, attempts, error) ==
    IF error \in {"held", "transport"} \/ attempts < MaxAttempts THEN "RETRY" ELSE "FAILED"

Decide(m, attempts, error) ==
    LET withinBudget == attempts < MaxAttempts
        retry == /\ error \in {"transport", "temporary"}
                 /\ withinBudget \/ (m \notin Weekly /\ error = "transport")
    IN  IF error = "held" THEN "REVIEW_REQUIRED"
        ELSE IF retry THEN "RETRY" ELSE "FAILED"

-----------------------------------------------------------------------------
(* How a query can end for the cycle: see BackgroundJobs.                  *)

Outcomes == {"ok", "lost", "error"}

Ends(outcome) ==
    IF outcome = "ok" THEN UNCHANGED faults
    ELSE /\ faults.db < MaxDbErrors
         /\ faults' = [faults EXCEPT !.db = @ + 1]

Goto(w, place) ==
    /\ pc' = [pc EXCEPT ![w] = place]
    /\ UNCHANGED <<batch, seen, row, verdict>>

\* The for loop goes on with the rows left, or the cycle ends.
Continue(w, left) ==
    /\ pc' = [pc EXCEPT ![w] = IF left = {} THEN "idle" ELSE "claim"]
    /\ batch' = [batch EXCEPT ![w] = left]
    /\ seen' = [seen EXCEPT ![w] = [m \in Msgs |-> IF m \in left THEN seen[w][m] ELSE 0]]
    /\ row' = [row EXCEPT ![w] = NoMsg]
    /\ verdict' = [verdict EXCEPT ![w] = "none"]

Done(w) == Continue(w, batch[w] \ {row[w]})

\* processEmailQueue throws: the rows left wait for another cycle.
Stop(w) == Continue(w, {})

Record(w, status, place) ==
    /\ pc' = [pc EXCEPT ![w] = place]
    /\ verdict' = [verdict EXCEPT ![w] = status]
    /\ UNCHANGED <<batch, seen, row>>

Caught(w, error) ==
    Record(w, Decide(row[w], seen[w][row[w]] + 1, error), "settle")

-----------------------------------------------------------------------------
(* One cycle.                                                              *)

\* Mutant: abandoned rows are tried again.
SweepRetries(w, outcome) ==
    /\ pc[w] = "idle"
    /\ outcome = "ok" => \A m \in Msgs : ~(Abandoned(m) /\ Locked(m))
    /\ queue' = [m \in Msgs |->
         IF outcome # "error" /\ Abandoned(m)
         THEN [queue[m] EXCEPT !.status = "RETRY", !.waiting = FALSE] ELSE queue[m]]
    /\ Goto(w, IF outcome = "ok" THEN "select" ELSE "idle")
    /\ Ends(outcome)
    /\ UNCHANGED accepted

\* Mutant: nothing is swept.
SweepNothing(w, outcome) ==
    /\ pc[w] = "idle"
    /\ Goto(w, IF outcome = "ok" THEN "select" ELSE "idle")
    /\ Ends(outcome)
    /\ UNCHANGED <<queue, accepted>>

\* A row whose cycle stopped during transport is held for review.  The
\* statement waits for a locked delivery, and fails if that takes too long.
Sweep(w, outcome) ==
    /\ pc[w] = "idle"
    /\ outcome # "error" => \A m \in Msgs : ~(Abandoned(m) /\ Locked(m))
    /\ queue' = [m \in Msgs |->
         IF outcome # "error" /\ Abandoned(m)
         THEN [queue[m] EXCEPT !.status = "REVIEW_REQUIRED", !.waiting = FALSE]
         ELSE queue[m]]
    /\ Goto(w, IF outcome = "ok" THEN "select" ELSE "idle")
    /\ Ends(outcome)
    /\ UNCHANGED accepted

Select(w, outcome) ==
    /\ pc[w] = "select"
    /\ LET found == IF outcome = "ok" THEN {m \in Msgs : Due(m)} ELSE {}
       IN  /\ pc' = [pc EXCEPT ![w] = IF found = {} THEN "idle" ELSE "claim"]
           /\ batch' = [batch EXCEPT ![w] = found]
           /\ seen' = [seen EXCEPT ![w] =
                [m \in Msgs |-> IF m \in found THEN queue[m].attempts ELSE 0]]
    /\ Ends(outcome)
    /\ UNCHANGED <<queue, accepted, row, verdict>>

\* Any order among the rows left stands for their order of creation.
Claim(w, m, outcome) ==
    /\ pc[w] = "claim"
    /\ m \in batch[w]
    /\ LET claimed == outcome # "error" /\ Claimable(m)
       IN  /\ queue' = IF claimed
                       THEN [queue EXCEPT ![m].status = "SENDING",
                                         ![m].attempts = @ + 1, ![m].stale = FALSE]
                       ELSE queue
           /\ IF outcome # "ok" THEN Stop(w)
              ELSE IF ~claimed THEN Continue(w, batch[w] \ {m})
              ELSE /\ pc' = [pc EXCEPT ![w] = "prepare"]
                   /\ row' = [row EXCEPT ![w] = m]
                   /\ UNCHANGED <<batch, seen, verdict>>
    /\ Ends(outcome)
    /\ UNCHANGED accepted

\* Attachments are restored; a weekly row opens its transaction and is
\* validated under the locks of its delivery.
Prepare(w, error) ==
    /\ pc[w] = "prepare"
    /\ error \in {"none", "repair"} \/ (row[w] \in Weekly /\ error \in {"held", "transport"})
    /\ IF error = "none" THEN Goto(w, "send") ELSE Caught(w, error)
    /\ Ends(IF error = "transport" THEN "error" ELSE "ok")
    /\ UNCHANGED <<queue, accepted>>

\* sendMail.  Only a held message leaves it open whether the provider took it.
Send(w, error, taken) ==
    /\ pc[w] = "send"
    /\ error = "none" => taken
    /\ error \notin {"none", "held"} => ~taken
    /\ accepted' = IF taken THEN [accepted EXCEPT ![row[w]] = @ + 1] ELSE accepted
    /\ IF error = "none" THEN Record(w, "SENT", "sent") ELSE Caught(w, error)
    /\ UNCHANGED <<queue, faults>>

\* A weekly row's status, log and delivery are committed together.
RecordSent(w, outcome) ==
    /\ pc[w] = "sent"
    /\ queue' = IF outcome = "error" THEN queue
                ELSE [queue EXCEPT ![row[w]].status = "SENT"]
    /\ IF outcome # "ok" THEN Caught(w, "held")
       ELSE IF row[w] \in Weekly THEN Done(w) ELSE Goto(w, "log")
    /\ Ends(outcome)
    /\ UNCHANGED accepted

\* The catch block records its verdict by id alone.
Settle(w, outcome) ==
    /\ pc[w] = "settle"
    /\ queue' = IF outcome = "error" THEN queue
                ELSE [queue EXCEPT ![row[w]].status = verdict[w],
                                   ![row[w]].waiting = verdict[w] = "RETRY"]
    /\ IF outcome = "ok" THEN Goto(w, "log") ELSE Stop(w)
    /\ Ends(outcome)
    /\ UNCHANGED accepted

\* writeEmailLog, inside or after the try block.
Log(w, outcome) ==
    /\ pc[w] = "log"
    /\ IF verdict[w] = "SENT"
       THEN IF outcome # "ok" THEN Caught(w, "held")
            ELSE IF row[w] \in Invoices THEN Goto(w, "confirm") ELSE Done(w)
       ELSE IF outcome # "ok" THEN Stop(w)
            ELSE IF row[w] \in Weekly THEN Goto(w, "mark") ELSE Done(w)
    /\ Ends(outcome)
    /\ UNCHANGED <<queue, accepted>>

\* The invoice of an accepted message is marked sent.
Confirm(w, outcome) ==
    /\ pc[w] = "confirm"
    /\ IF outcome = "ok" THEN Done(w) ELSE Caught(w, "held")
    /\ Ends(outcome)
    /\ UNCHANGED <<queue, accepted>>

\* markWeekly in the catch block: two statements.
Mark(w, outcome) ==
    /\ pc[w] = "mark"
    /\ IF outcome = "ok" THEN Goto(w, "markVersion") ELSE Stop(w)
    /\ Ends(outcome)
    /\ UNCHANGED <<queue, accepted>>

MarkVersion(w, outcome) ==
    /\ pc[w] = "markVersion"
    /\ IF outcome = "ok" THEN Done(w) ELSE Stop(w)
    /\ Ends(outcome)
    /\ UNCHANGED <<queue, accepted>>

-----------------------------------------------------------------------------
(* Callers, operators and the environment.                                 *)

\* queueEmail; a second call with the same key finds the existing row.
QueueEmail(m, later) ==
    /\ queue[m].status = "NONE"
    /\ queue' = [queue EXCEPT ![m] = [status |-> "PENDING", attempts |-> 0,
                                      waiting |-> later, stale |-> FALSE]]
    /\ UNCHANGED <<accepted, cycle, faults>>

\* The operator's retry, its audit entry included, is one transaction.
Retry(m) ==
    /\ queue[m].status \in {"FAILED", "RETRY"}
    /\ faults.retry < MaxRetries
    /\ faults' = [faults EXCEPT !.retry = @ + 1]
    /\ queue' = [queue EXCEPT ![m].status = "RETRY", ![m].attempts = 0,
                               ![m].waiting = FALSE]
    /\ UNCHANGED <<accepted, cycle>>

BackoffElapses(m) ==
    /\ queue[m].waiting
    /\ queue' = [queue EXCEPT ![m].waiting = FALSE]
    /\ UNCHANGED <<accepted, cycle, faults>>

\* Fifteen minutes pass; under a cycle that still handles the row only
\* when it stalls.
ClaimAges(m) ==
    /\ queue[m].status = "SENDING"
    /\ ~queue[m].stale
    /\ queue' = [queue EXCEPT ![m].stale = TRUE]
    /\ IF \E w \in Workers : row[w] = m
       THEN /\ faults.stall < MaxStalls
            /\ faults' = [faults EXCEPT !.stall = @ + 1]
       ELSE UNCHANGED faults
    /\ UNCHANGED <<accepted, cycle>>

Crash(w) ==
    /\ pc[w] # "idle"
    /\ faults.crash < MaxCrashes
    /\ faults' = [faults EXCEPT !.crash = @ + 1]
    /\ Stop(w)
    /\ UNCHANGED <<queue, accepted>>

-----------------------------------------------------------------------------
CycleStep(w) ==
    \/ \E outcome \in Outcomes :
          \/ Sweep(w, outcome)
          \/ Select(w, outcome)
          \/ \E m \in Msgs : Claim(w, m, outcome)
          \/ RecordSent(w, outcome)
          \/ Settle(w, outcome)
          \/ Log(w, outcome)
          \/ Confirm(w, outcome)
          \/ Mark(w, outcome)
          \/ MarkVersion(w, outcome)
    \/ \E error \in Errors \cup {"none"} :
          \/ Prepare(w, error)
          \/ \E taken \in BOOLEAN : Send(w, error, taken)

Next ==
    \/ \E w \in Workers : CycleStep(w) \/ Crash(w)
    \/ \E m \in Msgs :
          \/ \E later \in BOOLEAN : QueueEmail(m, later)
          \/ Retry(m)
          \/ BackoffElapses(m)
          \/ ClaimAges(m)

Spec == Init /\ [][Next]_vars

\* Cycles keep being started and their awaits return; time passes.
Fairness ==
    /\ \A w \in Workers : WF_vars(CycleStep(w))
    /\ \A m \in Msgs : WF_vars(ClaimAges(m))

FairSpec == Spec /\ Fairness

-----------------------------------------------------------------------------
(* Properties.                                                             *)

\* Two overlapping cycles, a restart, the sweep and an operator's retry
\* together never hand the provider a message it has already taken.
AtMostOneAcceptance == \A m \in Msgs : accepted[m] <= 1

\* Once the provider has taken a message no cycle can claim it and no
\* operator can retry it, whatever else failed on the way ("Accepted or
\* uncertain deliveries require review").
AcceptedIsNeverRetryable ==
    \A m \in Msgs : accepted[m] > 0 => queue[m].status \in {"SENDING", "SENT", "REVIEW_REQUIRED"}

\* A row reads SENT only if the provider took the message.
SentMeansAccepted == \A m \in Msgs : queue[m].status = "SENT" => accepted[m] > 0

\* No attempt is dispatched during the back-off that an earlier one, of
\* any cycle, left behind.
BackoffIsRespected ==
    [][\A m \in Msgs : queue'[m].status = "SENDING" /\ queue[m].status # "SENDING"
                          => ~queue[m].waiting]_vars

\* A row that reads SENDING is eventually resolved: by its cycle, or by the
\* sweep when the cycle is gone.
SendingIsResolved ==
    \A m \in Msgs : queue[m].status = "SENDING" ~> queue[m].status # "SENDING"
=============================================================================
