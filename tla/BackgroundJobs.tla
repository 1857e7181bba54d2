--------------------------- MODULE BackgroundJobs ---------------------------
(***************************************************************************)
(* One recurring singleton job of the background-job framework             *)
(* (services/backgroundJobService.js and services/backgroundJobStore.js):  *)
(* the MySQL tables it coordinates through, and any number of runJob       *)
(* invocations on any number of replicas, interleaved between the awaits.  *)
(*                                                                         *)
(* Every store call is one MySQL transaction or statement, hence one step; *)
(* the code between two awaits touches only locals of the invocation.      *)
(* A worker is one invocation slot of runJob / retryDeadLetter.  A lease   *)
(* token is random and used by one invocation, so the worker stands for    *)
(* it; when the invocation ends or its process dies the token is nobody's. *)
(* Time is abstract: leases lapse and back-offs elapse by steps of their   *)
(* own.  Bounds: MaxRuns rows, MaxCrashes process deaths, MaxDbErrors      *)
(* failed store calls, MaxLapses expiries of a lease whose holder lives.   *)
(***************************************************************************)
EXTENDS Naturals, FiniteSets

CONSTANTS
    Workers,        \* invocation slots of runJob, on all replicas
    Users,          \* operators holding MANAGE_BACKGROUND_JOBS
    Nobody,         \* no worker, no user
    MaxAttempts,    \* definition.maxAttempts
    MaxRuns, MaxCrashes, MaxDbErrors, MaxLapses

ASSUME WorkersAssumption == Nobody \notin Workers \cup Users
ASSUME BoundsAssumption ==
    /\ MaxAttempts \in Nat \ {0}
    /\ MaxRuns \in Nat
    /\ MaxCrashes \in Nat
    /\ MaxDbErrors \in Nat
    /\ MaxLapses \in Nat

RunIds == 1..MaxRuns
NoRun  == 0

RunStatus    == {"NONE", "RUNNING", "COMPLETED", "RETRY", "FAILED", "DEAD_LETTER"}
Verdicts     == RunStatus \ {"NONE", "RUNNING"}
LetterStatus == {"NONE", "OPEN", "RETRYING", "RESOLVED"}
Triggers     == {"SCHEDULED", "STARTUP", "MANUAL"}

PCs == {"idle", "check", "acquire", "create", "handle", "renew", "complete",
        "resolve", "fail", "release", "reopen"}

VARIABLES
    lease,      \* the background_job_leases row: whose token, and unexpired?
    runs,       \* background_job_runs; "NONE" where no row exists (any more)
    created,    \* rows inserted so far: ids follow started_at
    failures,   \* runs with a row in background_job_failures
    letters,    \* background_job_dead_letters, by the run they came from
    pc,         \* where each invocation awaits
    trigger,    \* options.trigger; MANUAL is force and resetAttempts too
    claim,      \* retryDeadLetter's claimed letter and actor
    run,        \* the invocation's runUuid once recorded
    leaseLost,  \* a heartbeat has failed
    threw,      \* runJob is about to throw to its caller
    faults      \* how much of the fault budget is used

table  == <<lease, runs, created, failures, letters>>
locals == <<trigger, claim, run, leaseLost, threw>>
vars   == <<table, pc, locals, faults>>

NoClaim == [letter |-> NoRun, by |-> Nobody]

TypeOK ==
    /\ lease \in [holder : Workers \cup {Nobody}, live : BOOLEAN]
    /\ runs \in [RunIds -> [status : RunStatus, attempt : Nat, waiting : BOOLEAN]]
    /\ created \in 0..MaxRuns
    /\ failures \subseteq RunIds
    /\ letters \in [RunIds -> [status : LetterStatus, by : Users \cup {Nobody}]]
    /\ pc \in [Workers -> PCs]
    /\ trigger \in [Workers -> Triggers]
    /\ claim \in [Workers -> [letter : RunIds \cup {NoRun}, by : Users \cup {Nobody}]]
    /\ run \in [Workers -> RunIds \cup {NoRun}]
    /\ leaseLost \in [Workers -> BOOLEAN]
    /\ threw \in [Workers -> BOOLEAN]
    /\ faults \in [crash : 0..MaxCrashes, db : 0..MaxDbErrors, lapse : 0..MaxLapses]

Init ==
    /\ lease = [holder |-> Nobody, live |-> FALSE]
    /\ runs = [r \in RunIds |-> [status |-> "NONE", attempt |-> 0, waiting |-> FALSE]]
    /\ created = 0
    /\ failures = {}
    /\ letters = [r \in RunIds |-> [status |-> "NONE", by |-> Nobody]]
    /\ pc = [w \in Workers |-> "idle"]
    /\ trigger = [w \in Workers |-> "SCHEDULED"]
    /\ claim = [w \in Workers |-> NoClaim]
    /\ run = [w \in Workers |-> NoRun]
    /\ leaseLost = [w \in Workers |-> FALSE]
    /\ threw = [w \in Workers |-> FALSE]
    /\ faults = [crash |-> 0, db |-> 0, lapse |-> 0]

-----------------------------------------------------------------------------
(* Reading the tables.                                                     *)

Rows == {r \in RunIds : runs[r].status # "NONE"}

\* The newest row, NoRun where the table is empty.
IsLatest(r) == IF r = NoRun THEN Rows = {} ELSE r \in Rows /\ \A s \in Rows : s <= r

Holds(w) == lease.holder = w /\ lease.live

\* Mutant: a running run is never disturbed, even when its process is dead.
BlockedWhileRunning ==
    \E r \in RunIds : IsLatest(r) /\ runs[r].status \in {"RUNNING", "DEAD_LETTER"}

\* A run that is not forced leaves a dead-lettered job alone, and a RETRY
\* until its back-off has elapsed.
Blocked ==
    \E r \in RunIds :
        /\ IsLatest(r)
        /\ \/ runs[r].status = "DEAD_LETTER"
           \/ runs[r].status = "RETRY" /\ runs[r].waiting

-----------------------------------------------------------------------------
(* What each store call does to the tables.                                *)

\* Mutant: the UPDATE forgets AND status = 'RUNNING'.
SetVerdictUnguarded(r, verdict, waiting) ==
    runs' = [runs EXCEPT ![r].status = verdict, ![r].waiting = waiting]

SetVerdict(r, verdict, waiting) ==
    runs' = IF runs[r].status = "RUNNING"
            THEN [runs EXCEPT ![r].status = verdict, ![r].waiting = waiting]
            ELSE runs

LettersTo(from, to) ==
    [r \in RunIds |-> IF letters[r].status \in from
                      THEN [letters[r] EXCEPT !.status = to] ELSE letters[r]]

\* Mutant: an orphaned run is left open.
StoreCreateRunKeepsOrphan(w) ==
    /\ created < MaxRuns
    /\ created' = created + 1
    /\ runs' = [runs EXCEPT ![created + 1] =
                    [status |-> "RUNNING", attempt |-> 1, waiting |-> FALSE]]
    /\ UNCHANGED <<lease, failures, letters>>

\* The previous run, if still open, was abandoned; its attempt and that of a
\* failed run count on, unless an operator starts afresh.
StoreCreateRun(w) ==
    \E previous \in RunIds \cup {NoRun} :
        LET was(status) == previous # NoRun /\ runs[previous].status \in status
            orphan  == was({"RUNNING"})
            counted == was({"RUNNING", "RETRY", "FAILED"}) /\ trigger[w] # "MANUAL"
        IN  /\ IsLatest(previous)
            /\ created < MaxRuns
            /\ created' = created + 1
            /\ runs' = [r \in RunIds |->
                 IF r = created + 1
                 THEN [status  |-> "RUNNING", waiting |-> FALSE,
                       attempt |-> IF counted THEN runs[previous].attempt + 1 ELSE 1]
                 ELSE IF orphan /\ r = previous THEN [runs[r] EXCEPT !.status = "FAILED"]
                 ELSE runs[r]]
            /\ failures' = failures \cup (IF orphan THEN {previous} ELSE {})
            /\ UNCHANGED <<lease, letters>>

StoreCompleteRun(r, how, noop) ==
    /\ SetVerdict(r, IF how = "SCHEDULED" /\ noop THEN "NONE" ELSE "COMPLETED", FALSE)
    /\ UNCHANGED <<lease, created, failures, letters>>

StoreResolveDeadLetters ==
    /\ letters' = LettersTo({"OPEN", "RETRYING"}, "RESOLVED")
    /\ UNCHANGED <<lease, runs, created, failures>>

\* Mutant: the failure row is forgotten.
StoreScheduleRetrySilently(r) ==
    /\ SetVerdict(r, "RETRY", TRUE)
    /\ UNCHANGED <<lease, created, failures, letters>>

StoreScheduleRetry(r) ==
    /\ SetVerdict(r, "RETRY", TRUE)
    /\ failures' = failures \cup {r}
    /\ UNCHANGED <<lease, created, letters>>

\* Mutant: a new dead letter resolves every older one.
StoreDeadLetterResolvesAll(r) ==
    /\ SetVerdict(r, "DEAD_LETTER", FALSE)
    /\ failures' = failures \cup {r}
    /\ letters' = [LettersTo({"OPEN", "RETRYING"}, "RESOLVED") EXCEPT ![r].status = "OPEN"]
    /\ UNCHANGED <<lease, created>>

StoreDeadLetter(r) ==
    /\ SetVerdict(r, "DEAD_LETTER", FALSE)
    /\ failures' = failures \cup {r}
    /\ LET resolved == LettersTo({"RETRYING"}, "RESOLVED")
       IN  letters' = IF resolved[r].status = "NONE"
                      THEN [resolved EXCEPT ![r].status = "OPEN"] ELSE resolved
    /\ UNCHANGED <<lease, created>>

StoreReopen(c) ==
    /\ letters' = IF letters[c.letter] = [status |-> "RETRYING", by |-> c.by]
                  THEN [letters EXCEPT ![c.letter] = [status |-> "OPEN", by |-> Nobody]]
                  ELSE letters
    /\ UNCHANGED <<lease, runs, created, failures>>

-----------------------------------------------------------------------------
(* How a store call can end for the invocation that awaits it: "ok", an    *)
(* "error" before anything was committed, or "lost": committed, but the    *)
(* connection failed before the answer arrived.                            *)

Outcomes == {"ok", "lost", "error"}

Ends(outcome) ==
    IF outcome = "ok" THEN UNCHANGED faults
    ELSE /\ faults.db < MaxDbErrors
         /\ faults' = [faults EXCEPT !.db = @ + 1]

\* The invocation is over: its token, if the row still has it, is nobody's.
Disown(w) == IF lease.holder = w THEN [lease EXCEPT !.holder = Nobody] ELSE lease

Goto(w, place) == pc' = [pc EXCEPT ![w] = place]

\* Mutant: retryDeadLetter forgets to reopen the letter.
UndispatchedForgetsLetter(w) == "idle"

\* Where runJob's caller continues when runJob was skipped or threw.
Undispatched(w) == IF trigger[w] = "MANUAL" THEN "reopen" ELSE "idle"

-----------------------------------------------------------------------------
(* The steps of an invocation.                                             *)

\* How many more rows the invocations under way may insert.
Pending == Cardinality({w \in Workers : pc[w] \in {"check", "acquire", "create"}})

Enter(w, how, c) ==
    /\ Goto(w, "check")
    /\ trigger' = [trigger EXCEPT ![w] = how]
    /\ claim' = [claim EXCEPT ![w] = c]
    /\ run' = [run EXCEPT ![w] = NoRun]
    /\ leaseLost' = [leaseLost EXCEPT ![w] = FALSE]
    /\ threw' = [threw EXCEPT ![w] = FALSE]

\* A timer of createScheduler fires.
Tick(w, how) ==
    /\ pc[w] = "idle"
    /\ created + Pending < MaxRuns
    /\ Enter(w, how, NoClaim)
    /\ UNCHANGED <<table, faults>>

\* An operator retries an open dead letter; an unanswered claim is not undone.
ClaimDeadLetter(w, d, u, outcome) ==
    /\ pc[w] = "idle"
    /\ created + Pending < MaxRuns
    /\ letters[d].status = "OPEN"
    /\ letters' = IF outcome = "error" THEN letters
                  ELSE [letters EXCEPT ![d] = [status |-> "RETRYING", by |-> u]]
    /\ IF outcome = "ok" THEN Enter(w, "MANUAL", [letter |-> d, by |-> u])
                         ELSE UNCHANGED <<pc, locals>>
    /\ Ends(outcome)
    /\ UNCHANGED <<lease, runs, created, failures>>

CheckLatest(w, outcome) ==
    /\ pc[w] = "check"
    /\ Goto(w, IF outcome # "ok" THEN Undispatched(w)
               ELSE IF trigger[w] # "MANUAL" /\ Blocked THEN "idle" ELSE "acquire")
    /\ Ends(outcome)
    /\ UNCHANGED <<table, locals>>

\* Mutant: the takeover UPDATE forgets lease_expires_at <= NOW().
AcquireLeaseUnexpired(w, outcome) ==
    /\ pc[w] = "acquire"
    /\ lease' = IF outcome = "error" THEN lease
                ELSE [holder |-> IF outcome = "ok" THEN w ELSE Nobody, live |-> TRUE]
    /\ Goto(w, IF outcome = "ok" THEN "create" ELSE Undispatched(w))
    /\ Ends(outcome)
    /\ UNCHANGED <<runs, created, failures, letters, locals>>

AcquireLease(w, outcome) ==
    /\ pc[w] = "acquire"
    /\ lease' = IF outcome = "error" \/ lease.live THEN lease
                ELSE [holder |-> IF outcome = "ok" THEN w ELSE Nobody, live |-> TRUE]
    /\ Goto(w, IF outcome = "ok" /\ ~lease.live THEN "create" ELSE Undispatched(w))
    /\ Ends(outcome)
    /\ UNCHANGED <<runs, created, failures, letters, locals>>

\* Without the answer the invocation does not know its run was recorded.
CreateRun(w, outcome) ==
    /\ pc[w] = "create"
    /\ IF outcome = "error" THEN UNCHANGED table ELSE StoreCreateRun(w)
    /\ IF outcome = "ok"
       THEN /\ Goto(w, "handle")
            /\ run' = [run EXCEPT ![w] = created + 1]
            /\ UNCHANGED threw
       ELSE /\ Goto(w, "release")
            /\ threw' = [threw EXCEPT ![w] = TRUE]
            /\ UNCHANGED run
    /\ Ends(outcome)
    /\ UNCHANGED <<trigger, claim, leaseLost>>

\* The heartbeat timer finds the lease gone, or its query fails.
HeartbeatFails(w, outcome) ==
    /\ pc[w] = "handle"
    /\ ~leaseLost[w]
    /\ outcome = "ok" => ~Holds(w)
    /\ leaseLost' = [leaseLost EXCEPT ![w] = TRUE]
    /\ Ends(outcome)
    /\ UNCHANGED <<table, pc, trigger, claim, run, threw>>

HandlerReturns(w) ==
    /\ pc[w] = "handle"
    /\ Goto(w, "renew")
    /\ UNCHANGED <<table, locals, faults>>

HandlerThrows(w) ==
    /\ pc[w] = "handle"
    /\ Goto(w, "fail")
    /\ UNCHANGED <<table, locals, faults>>

FinalRenewal(w, outcome) ==
    /\ pc[w] = "renew"
    /\ leaseLost[w] => outcome = "ok"
    /\ Goto(w, IF outcome = "ok" /\ ~leaseLost[w] /\ Holds(w) THEN "complete" ELSE "fail")
    /\ Ends(outcome)
    /\ UNCHANGED <<table, locals>>

CompleteRun(w, noop, outcome) ==
    /\ pc[w] = "complete"
    /\ IF outcome = "error" THEN UNCHANGED table
                            ELSE StoreCompleteRun(run[w], trigger[w], noop)
    /\ Goto(w, IF outcome = "ok" THEN "resolve" ELSE "fail")
    /\ Ends(outcome)
    /\ UNCHANGED locals

ResolveDeadLetters(w, outcome) ==
    /\ pc[w] = "resolve"
    /\ IF outcome = "error" THEN UNCHANGED table ELSE StoreResolveDeadLetters
    /\ Goto(w, IF outcome = "ok" THEN "release" ELSE "fail")
    /\ Ends(outcome)
    /\ UNCHANGED locals

\* Mutant: the last attempt is dead-lettered one too early.
RecordFailureOneEarly(w, outcome) ==
    /\ pc[w] = "fail"
    /\ IF outcome = "error" THEN UNCHANGED table
       ELSE IF runs[run[w]].attempt + 1 < MaxAttempts THEN StoreScheduleRetry(run[w])
       ELSE StoreDeadLetter(run[w])
    /\ Goto(w, "release")
    /\ threw' = [threw EXCEPT ![w] = outcome # "ok"]
    /\ Ends(outcome)
    /\ UNCHANGED <<trigger, claim, run, leaseLost>>

\* The catch block: another attempt later, or none.
RecordFailure(w, outcome) ==
    /\ pc[w] = "fail"
    /\ IF outcome = "error" THEN UNCHANGED table
       ELSE IF runs[run[w]].attempt < MaxAttempts THEN StoreScheduleRetry(run[w])
       ELSE StoreDeadLetter(run[w])
    /\ Goto(w, "release")
    /\ threw' = [threw EXCEPT ![w] = outcome # "ok"]
    /\ Ends(outcome)
    /\ UNCHANGED <<trigger, claim, run, leaseLost>>

\* The finally block; its errors are ignored.
ReleaseLease(w, outcome) ==
    /\ pc[w] = "release"
    /\ lease' = IF outcome # "error" /\ lease.holder = w
                THEN [holder |-> Nobody, live |-> FALSE] ELSE Disown(w)
    /\ Goto(w, IF threw[w] THEN Undispatched(w) ELSE "idle")
    /\ Ends(outcome)
    /\ UNCHANGED <<runs, created, failures, letters, locals>>

ReopenDeadLetter(w, outcome) ==
    /\ pc[w] = "reopen"
    /\ IF outcome = "error" THEN UNCHANGED table ELSE StoreReopen(claim[w])
    /\ Goto(w, "idle")
    /\ Ends(outcome)
    /\ UNCHANGED locals

-----------------------------------------------------------------------------
(* The environment.                                                        *)

Crash(w) ==
    /\ pc[w] # "idle"
    /\ faults.crash < MaxCrashes
    /\ faults' = [faults EXCEPT !.crash = @ + 1]
    /\ lease' = Disown(w)
    /\ Goto(w, "idle")
    /\ UNCHANGED <<runs, created, failures, letters, locals>>

\* No heartbeat arrived in time although the holder lives (blocked event
\* loop, database unreachable).
LeaseLapses ==
    /\ lease.live /\ lease.holder # Nobody
    /\ faults.lapse < MaxLapses
    /\ faults' = [faults EXCEPT !.lapse = @ + 1]
    /\ lease' = [lease EXCEPT !.live = FALSE]
    /\ UNCHANGED <<runs, created, failures, letters, pc, locals>>

OrphanLeaseExpires ==
    /\ lease.live /\ lease.holder = Nobody
    /\ lease' = [lease EXCEPT !.live = FALSE]
    /\ UNCHANGED <<runs, created, failures, letters, pc, locals, faults>>

BackoffElapses(r) ==
    /\ runs[r].waiting
    /\ runs' = [runs EXCEPT ![r].waiting = FALSE]
    /\ UNCHANGED <<lease, created, failures, letters, pc, locals, faults>>

\* Only the bound MaxRuns ever stops the schedulers.
RunsExhausted ==
    /\ created = MaxRuns
    /\ \A w \in Workers : pc[w] = "idle"
    /\ UNCHANGED vars

-----------------------------------------------------------------------------

Continue(w, outcome) ==
    \/ CheckLatest(w, outcome)
    \/ AcquireLease(w, outcome)
    \/ CreateRun(w, outcome)
    \/ FinalRenewal(w, outcome)
    \/ \E noop \in BOOLEAN : CompleteRun(w, noop, outcome)
    \/ ResolveDeadLetters(w, outcome)
    \/ RecordFailure(w, outcome)
    \/ ReleaseLease(w, outcome)
    \/ ReopenDeadLetter(w, outcome)

Handler(w) == HandlerReturns(w) \/ HandlerThrows(w)

Next ==
    \/ \E w \in Workers :
        \/ \E how \in {"SCHEDULED", "STARTUP"} : Tick(w, how)
        \/ \E d \in RunIds, u \in Users, outcome \in Outcomes :
               ClaimDeadLetter(w, d, u, outcome)
        \/ \E outcome \in Outcomes : Continue(w, outcome) \/ HeartbeatFails(w, outcome)
        \/ Handler(w)
        \/ Crash(w)
    \/ LeaseLapses
    \/ OrphanLeaseExpires
    \/ \E r \in RunIds : BackoffElapses(r)
    \/ RunsExhausted

Spec == Init /\ [][Next]_vars

\* A live process runs its continuations and its handler to the end, its
\* interval timer keeps firing, and time passes.
Fairness ==
    /\ \A w \in Workers :
        /\ WF_vars(\E outcome \in Outcomes : Continue(w, outcome))
        /\ WF_vars(Handler(w))
        /\ WF_vars(Tick(w, "SCHEDULED"))
    /\ WF_vars(OrphanLeaseExpires)
    /\ \A r \in RunIds : WF_vars(BackoffElapses(r))

FairSpec == Spec /\ Fairness

-----------------------------------------------------------------------------
(* What the framework promises.                                            *)

\* At most one run is open, and it is the newest: createRun closes an orphan
\* before it inserts, however late its invocation comes (createRun's
\* FOR UPDATE read of the latest row).
OpenRunIsLatest ==
    \A r \in Rows : runs[r].status = "RUNNING" => \A s \in Rows : s <= r

\* Once a run has a verdict no later call changes it: the overtaken worker's
\* completeRun, scheduleRetry and deadLetter find no RUNNING row.
VerdictIsFinal ==
    [][\A r \in RunIds : runs[r].status \in Verdicts => runs'[r].status = runs[r].status]_vars

\* No failure is lost: a run that did not complete has its failure row, and
\* a dead-lettered one its dead letter, whoever gave the verdict.
FailureLeavesEvidence ==
    \A r \in RunIds :
        /\ runs[r].status \in {"RETRY", "FAILED", "DEAD_LETTER"} => r \in failures
        /\ runs[r].status = "DEAD_LETTER" => letters[r].status # "NONE"

\* A run is retried only while attempts are left, and dead-lettered only when
\* they are used up, whatever verdict another worker gave it meanwhile.
DeadLettersAreExhausted ==
    \A r \in RunIds :
        /\ runs[r].status = "RETRY" => runs[r].attempt < MaxAttempts
        /\ letters[r].status # "NONE" => runs[r].attempt >= MaxAttempts

\* Until a live holder misses its heartbeats, the handler runs under an
\* unexpired lease of its own invocation, and its run row stays open: no
\* other replica executes the job or calls the run abandoned.
HandlerOwnsItsRun ==
    faults.lapse = 0 =>
        \A w \in Workers : pc[w] \in {"handle", "renew", "complete"} =>
            Holds(w) /\ runs[run[w]].status = "RUNNING"

\* "Must not strand a dead letter in RETRYING": such a letter is in an
\* invocation's hands, or a scheduled run that will settle it is not held
\* off by a dead-lettered job.
NoStrandedLetter ==
    \A d \in RunIds :
        letters[d].status = "RETRYING" =>
            \/ \E w \in Workers : pc[w] # "idle" /\ claim[w].letter = d
            \/ \E r \in RunIds : IsLatest(r) /\ runs[r].status # "DEAD_LETTER"

\* That much holds until a process dies or a database call fails.
LettersAreHeld == faults.crash = 0 /\ faults.db = 0 => NoStrandedLetter

\* While no live lease lapses, an open dead letter is closed only by an
\* invocation whose own run was completed (or deleted as a no-op), and a
\* claimed one also by the run that replaces it with a newer letter.
LettersResolvedBySuccess ==
    [][\A d \in RunIds :
         faults.lapse = 0 /\ letters[d].status # "RESOLVED" /\ letters'[d].status = "RESOLVED"
         => \E w \in Workers :
              \/ pc[w] = "resolve" /\ runs[run[w]].status \in {"COMPLETED", "NONE"}
              \/ /\ letters[d].status = "RETRYING" /\ pc[w] = "fail"
                 /\ letters'[run[w]].status = "OPEN"]_vars

\* Dead letters are neither lost nor closed without cause.
LettersAreKept == []LettersAreHeld /\ LettersResolvedBySuccess

\* A run left open by a dead process is closed by a later one, unless the
\* model may create no more rows (MaxRuns).
OpenRunIsClosed ==
    \A r \in RunIds :
        runs[r].status = "RUNNING" ~> (runs[r].status # "RUNNING" \/ created = MaxRuns)

\* A claimed dead letter is settled, reopened or resolved, unless a process
\* dies (or MaxRuns is reached).
ClaimedLetterIsSettled ==
    \A d \in RunIds :
        letters[d].status = "RETRYING"
        ~> (letters[d].status # "RETRYING" \/ faults.crash > 0 \/ created = MaxRuns)

\* Neither a run nor a letter stays halfway.
OpenWorkIsSettled == OpenRunIsClosed /\ ClaimedLetterIsSettled

\* With heartbeats that reach the database in time (MaxLapses = 0) the lease
\* makes the job a singleton: see module SingletonJob.
Executing == {w \in Workers : pc[w] = "handle"}

Singleton == INSTANCE SingletonJob WITH executing <- Executing

\* Two replicas never execute the job's handler concurrently.
ImplementsSingleton == Singleton!Spec
=============================================================================
