------------------------ MODULE BackgroundJobsProofs ------------------------
(***************************************************************************)
(* Theorems about BackgroundJobs, for any number of workers, users, runs   *)
(* and faults.  First what each store call does to the tables, as lemmas   *)
(* that name only what the invariants look at; then one inductive          *)
(* invariant, action by action; then the properties it implies, and that   *)
(* the job is a singleton; last a second invariant about the dead letters, *)
(* on top of the first.                                                    *)
(***************************************************************************)
EXTENDS BackgroundJobs, SumProofs

RunRow    == [status : RunStatus, attempt : Nat, waiting : BOOLEAN]
LetterRow == [status : LetterStatus, by : Users \cup {Nobody}]

\* The part of TypeOK about the tables, and the part about the invocations.
TablesOK ==
    /\ lease \in [holder : Workers \cup {Nobody}, live : BOOLEAN]
    /\ runs \in [RunIds -> RunRow]
    /\ created \in 0..MaxRuns
    /\ failures \subseteq RunIds
    /\ letters \in [RunIds -> LetterRow]

LEMMA TablesType == TypeOK => TablesOK
  BY DEF TypeOK, TablesOK, RunRow, LetterRow

-----------------------------------------------------------------------------
(* The store calls.                                                        *)

\* Only an open run gets a verdict; nothing else changes in the table.
LEMMA SetVerdictEffect ==
  ASSUME runs \in [RunIds -> RunRow], NEW r \in RunIds, NEW v \in RunStatus,
         NEW b \in BOOLEAN, SetVerdict(r, v, b)
  PROVE  /\ runs' \in [RunIds -> RunRow]
         /\ \A s \in RunIds :
              /\ runs'[s].attempt = runs[s].attempt
              /\ s # r \/ runs[s].status # "RUNNING" => runs'[s] = runs[s]
         /\ runs[r].status = "RUNNING" => runs'[r].status = v
  BY DEF SetVerdict, RunRow

LEMMA LettersToEffect ==
  ASSUME letters \in [RunIds -> LetterRow],
         NEW from \in SUBSET {"OPEN", "RETRYING"}, NEW to \in {"OPEN", "RESOLVED"}
  PROVE  /\ LettersTo(from, to) \in [RunIds -> LetterRow]
         /\ \A s \in RunIds : LettersTo(from, to)[s].status = "NONE" <=> letters[s].status = "NONE"
  BY DEF LettersTo, LetterRow, LetterStatus

\* createRun closes at most the newest row, and only an open one.
LEMMA CreateRunEffect ==
  ASSUME TablesOK, NEW w \in Workers, StoreCreateRun(w)
  PROVE  /\ created' = created + 1 /\ created' \in RunIds
         /\ runs' \in [RunIds -> RunRow]
         /\ failures' \in SUBSET RunIds /\ failures \subseteq failures'
         /\ UNCHANGED <<lease, letters>>
         /\ runs'[created'].status = "RUNNING"
         /\ \A s \in RunIds \ {created'} :
              /\ runs'[s].attempt = runs[s].attempt
              /\ \/ runs'[s] = runs[s]
                 \/ /\ runs[s].status = "RUNNING" /\ runs'[s].status = "FAILED"
                    /\ s \in failures'
              /\ runs'[s].status = "RUNNING" => ~IsLatest(s)
<1> DEFINE was(p, status) == p # NoRun /\ runs[p].status \in status
           orphan(p)  == was(p, {"RUNNING"})
           counted(p) == was(p, {"RUNNING", "RETRY", "FAILED"}) /\ trigger[w] # "MANUAL"
           next(p)    == IF counted(p) THEN runs[p].attempt + 1 ELSE 1
<1>1. PICK p \in RunIds \cup {NoRun} :
        /\ IsLatest(p)
        /\ created < MaxRuns
        /\ created' = created + 1
        /\ runs' = [r \in RunIds |->
                IF r = created + 1
                THEN [status |-> "RUNNING", waiting |-> FALSE, attempt |-> next(p)]
                ELSE IF orphan(p) /\ r = p THEN [runs[r] EXCEPT !.status = "FAILED"]
                ELSE runs[r]]
        /\ failures' = failures \cup (IF orphan(p) THEN {p} ELSE {})
        /\ UNCHANGED <<lease, letters>>
  BY DEF StoreCreateRun
<1>2. next(p) \in Nat
  BY DEF TablesOK, RunRow, RunIds, NoRun
<1>3. created' = created + 1 /\ created' \in RunIds
  BY <1>1, BoundsAssumption DEF TablesOK, RunIds
<1>4. \A s \in RunIds \ {created'} :
        runs'[s] = IF orphan(p) /\ s = p THEN [runs[s] EXCEPT !.status = "FAILED"] ELSE runs[s]
  BY <1>1, <1>3
<1>5. runs'[created'] = [status |-> "RUNNING", waiting |-> FALSE, attempt |-> next(p)]
  BY <1>1, <1>3
<1> HIDE DEF next, counted
<1>6. runs' \in [RunIds -> RunRow]
  BY <1>1, <1>2 DEF TablesOK, RunRow, RunStatus
<1>7. failures' \in SUBSET RunIds /\ failures \subseteq failures'
  BY <1>1 DEF TablesOK
<1>8. ASSUME NEW s \in RunIds \ {created'}
      PROVE  /\ runs'[s].attempt = runs[s].attempt
             /\ \/ runs'[s] = runs[s]
                \/ /\ runs[s].status = "RUNNING" /\ runs'[s].status = "FAILED"
                   /\ s \in failures'
             /\ runs'[s].status = "RUNNING" => ~IsLatest(s)
  <2>1. CASE orphan(p) /\ s = p
    BY <2>1, <1>1, <1>4 DEF TablesOK, RunRow
  <2>2. CASE ~(orphan(p) /\ s = p)
    <3>1. runs'[s] = runs[s]
      BY <2>2, <1>4
    <3>2. ASSUME runs[s].status = "RUNNING", IsLatest(s) PROVE FALSE
      BY <3>2, <2>2, <1>1 DEF IsLatest, Rows, RunIds, NoRun
    <3> QED BY <3>1, <3>2
  <2> QED BY <2>1, <2>2
<1> QED BY <1>1, <1>3, <1>5, <1>6, <1>7, <1>8

-----------------------------------------------------------------------------
(* The inductive invariant.                                                *)

Executes == {"handle", "renew", "complete", "resolve", "fail"}

\* Ids are handed out in order, and an executing invocation has its own.
RunsRecorded ==
    /\ \A r \in RunIds : r > created => runs[r].status = "NONE" /\ letters[r].status = "NONE"
    /\ \A w \in Workers :
         /\ run[w] <= created
         /\ pc[w] \in Executes => run[w] # NoRun
         /\ \A v \in Workers : v # w /\ run[w] # NoRun => run[v] # run[w]

\* From the acquisition to the last statement that closes the run, the lease
\* is this invocation's.
LeaseHeld ==
    faults.lapse = 0 =>
        \A w \in Workers : pc[w] \in {"create", "handle", "renew", "complete"} => Holds(w)

IInv ==
    /\ TypeOK
    /\ RunsRecorded
    /\ LeaseHeld
    /\ OpenRunIsLatest
    /\ FailureLeavesEvidence
    /\ DeadLettersAreExhausted
    /\ HandlerOwnsItsRun

LEMMA InitIInv == Init => IInv
  <1> SUFFICES ASSUME Init PROVE IInv
    OBVIOUS
  <1>1. TypeOK
    BY BoundsAssumption
    DEF Init, TypeOK, RunStatus, LetterStatus, Triggers, PCs, NoClaim, RunIds, NoRun
  <1>2. RunsRecorded
    BY DEF Init, RunsRecorded, Executes, NoRun
  <1>3. LeaseHeld /\ HandlerOwnsItsRun
    BY DEF Init, LeaseHeld, HandlerOwnsItsRun
  <1>4. OpenRunIsLatest /\ FailureLeavesEvidence /\ DeadLettersAreExhausted
    BY DEF Init, OpenRunIsLatest, FailureLeavesEvidence, DeadLettersAreExhausted, Rows
  <1> QED BY <1>1, <1>2, <1>3, <1>4 DEF IInv

-----------------------------------------------------------------------------
(* Type correctness is preserved.                                          *)

LEMMA EndsEffect ==
  ASSUME TypeOK, NEW o \in Outcomes, Ends(o)
  PROVE  /\ faults' \in [crash : 0..MaxCrashes, db : 0..MaxDbErrors, lapse : 0..MaxLapses]
         /\ faults'.lapse = faults.lapse
  BY BoundsAssumption DEF TypeOK, Ends, Outcomes

\* The table rows after each step are rows.
LEMMA TablesStep ==
  ASSUME TypeOK, RunsRecorded, Next
  PROVE  TablesOK'
<1> USE TablesType
<1>1. ASSUME NEW w \in Workers, NEW how \in {"SCHEDULED", "STARTUP"}, Tick(w, how)
      PROVE  TablesOK'
  BY <1>1 DEF Tick, table, TablesOK
<1>2. ASSUME NEW w \in Workers, NEW d \in RunIds, NEW u \in Users, NEW o \in Outcomes,
             ClaimDeadLetter(w, d, u, o)
      PROVE  TablesOK'
  BY <1>2 DEF ClaimDeadLetter, TablesOK, LetterRow, LetterStatus
<1>3. ASSUME NEW w \in Workers, NEW o \in Outcomes, CheckLatest(w, o)
      PROVE  TablesOK'
  BY <1>3 DEF CheckLatest, table, TablesOK
<1>4. ASSUME NEW w \in Workers, NEW o \in Outcomes, AcquireLease(w, o)
      PROVE  TablesOK'
  BY <1>4 DEF AcquireLease, TablesOK
<1>5. ASSUME NEW w \in Workers, NEW o \in Outcomes, CreateRun(w, o)
      PROVE  TablesOK'
  <2>1. CASE UNCHANGED table
    BY <2>1 DEF table, TablesOK
  <2>2. CASE StoreCreateRun(w)
    BY <2>2, CreateRunEffect DEF TablesOK, RunIds
  <2> QED BY <1>5, <2>1, <2>2 DEF CreateRun
<1>6. ASSUME NEW w \in Workers, NEW o \in Outcomes, FinalRenewal(w, o)
      PROVE  TablesOK'
  BY <1>6 DEF FinalRenewal, table, TablesOK
<1>7. ASSUME NEW w \in Workers, NEW noop \in BOOLEAN, NEW o \in Outcomes, CompleteRun(w, noop, o)
      PROVE  TablesOK'
  <2>1. CASE UNCHANGED table
    BY <2>1 DEF table, TablesOK
  <2>2. CASE StoreCompleteRun(run[w], trigger[w], noop)
    <3>1. run[w] \in RunIds
      BY <1>7 DEF CompleteRun, RunsRecorded, Executes, TypeOK
    <3>2. runs' \in [RunIds -> RunRow]
      BY <2>2, <3>1, SetVerdictEffect DEF StoreCompleteRun, TablesOK, RunStatus
    <3> QED BY <2>2, <3>2 DEF StoreCompleteRun, TablesOK
  <2> QED BY <1>7, <2>1, <2>2 DEF CompleteRun
<1>8. ASSUME NEW w \in Workers, NEW o \in Outcomes, ResolveDeadLetters(w, o)
      PROVE  TablesOK'
  <2>1. CASE UNCHANGED table
    BY <2>1 DEF table, TablesOK
  <2>2. CASE StoreResolveDeadLetters
    <3>1. letters' \in [RunIds -> LetterRow]
      BY <2>2, LettersToEffect DEF StoreResolveDeadLetters, TablesOK
    <3> QED BY <2>2, <3>1 DEF StoreResolveDeadLetters, TablesOK
  <2> QED BY <1>8, <2>1, <2>2 DEF ResolveDeadLetters
<1>9. ASSUME NEW w \in Workers, NEW o \in Outcomes, RecordFailure(w, o)
      PROVE  TablesOK'
  <2>0. run[w] \in RunIds
    BY <1>9 DEF RecordFailure, RunsRecorded, Executes, TypeOK
  <2>1. CASE UNCHANGED table
    BY <2>1 DEF table, TablesOK
  <2>2. CASE StoreScheduleRetry(run[w])
    <3>1. runs' \in [RunIds -> RunRow]
      BY <2>2, <2>0, SetVerdictEffect DEF StoreScheduleRetry, TablesOK, RunStatus
    <3> QED BY <2>0, <2>2, <3>1 DEF StoreScheduleRetry, TablesOK
  <2>3. CASE StoreDeadLetter(run[w])
    <3>1. runs' \in [RunIds -> RunRow]
      BY <2>3, <2>0, SetVerdictEffect DEF StoreDeadLetter, TablesOK, RunStatus
    <3>2. LettersTo({"RETRYING"}, "RESOLVED") \in [RunIds -> LetterRow]
      BY LettersToEffect DEF TablesOK
    <3>3. letters' \in [RunIds -> LetterRow]
      BY <2>3, <2>0, <3>2 DEF StoreDeadLetter, LetterRow, LetterStatus
    <3> QED BY <2>0, <2>3, <3>1, <3>3 DEF StoreDeadLetter, TablesOK
  <2> QED BY <1>9, <2>1, <2>2, <2>3 DEF RecordFailure
<1>10. ASSUME NEW w \in Workers, NEW o \in Outcomes, ReleaseLease(w, o)
      PROVE  TablesOK'
  BY <1>10 DEF ReleaseLease, Disown, TablesOK
<1>11. ASSUME NEW w \in Workers, NEW o \in Outcomes, ReopenDeadLetter(w, o)
      PROVE  TablesOK'
  <2>1. CASE UNCHANGED table
    BY <2>1 DEF table, TablesOK
  <2>2. CASE StoreReopen(claim[w])
    <3>1. letters' \in [RunIds -> LetterRow]
      BY <2>2 DEF StoreReopen, TablesOK, LetterRow, LetterStatus
    <3> QED BY <2>2, <3>1 DEF StoreReopen, TablesOK
  <2> QED BY <1>11, <2>1, <2>2 DEF ReopenDeadLetter
<1>12. ASSUME NEW w \in Workers, NEW o \in Outcomes, HeartbeatFails(w, o)
      PROVE  TablesOK'
  BY <1>12 DEF HeartbeatFails, table, TablesOK
<1>13. ASSUME NEW w \in Workers, Handler(w)
      PROVE  TablesOK'
  BY <1>13 DEF Handler, HandlerReturns, HandlerThrows, table, TablesOK
<1>14. ASSUME NEW w \in Workers, Crash(w)
      PROVE  TablesOK'
  BY <1>14 DEF Crash, Disown, TablesOK
<1>15. CASE LeaseLapses \/ OrphanLeaseExpires
  BY <1>15 DEF LeaseLapses, OrphanLeaseExpires, TablesOK
<1>16. ASSUME NEW r \in RunIds, BackoffElapses(r)
      PROVE  TablesOK'
  BY <1>16 DEF BackoffElapses, TablesOK, RunRow
<1>17. CASE RunsExhausted
  BY <1>17 DEF RunsExhausted, vars, table, TablesOK
<1> QED BY <1>1, <1>2, <1>3, <1>4, <1>5, <1>6, <1>7, <1>8, <1>9, <1>10, <1>11, <1>12,
           <1>13, <1>14, <1>15, <1>16, <1>17 DEF Next, Continue

\* The locals of every invocation keep their types.
LEMMA LocalsStep ==
  ASSUME TypeOK, RunsRecorded, Next
  PROVE  /\ pc' \in [Workers -> PCs]
         /\ trigger' \in [Workers -> Triggers]
         /\ claim' \in [Workers -> [letter : RunIds \cup {NoRun}, by : Users \cup {Nobody}]]
         /\ run' \in [Workers -> RunIds \cup {NoRun}]
         /\ leaseLost' \in [Workers -> BOOLEAN]
         /\ threw' \in [Workers -> BOOLEAN]
<1> DEFINE LocalsOK ==
             /\ pc \in [Workers -> PCs]
             /\ trigger \in [Workers -> Triggers]
             /\ claim \in [Workers -> [letter : RunIds \cup {NoRun}, by : Users \cup {Nobody}]]
             /\ run \in [Workers -> RunIds \cup {NoRun}]
             /\ leaseLost \in [Workers -> BOOLEAN]
             /\ threw \in [Workers -> BOOLEAN]
<1>0. LocalsOK
  BY DEF TypeOK
<1> USE DEF Goto
<1>1. ASSUME NEW w \in Workers, NEW how \in {"SCHEDULED", "STARTUP"}, Tick(w, how)
      PROVE  LocalsOK'
  BY <1>0, <1>1 DEF Tick, Enter, NoClaim, PCs, Triggers
<1>2. ASSUME NEW w \in Workers, NEW d \in RunIds, NEW u \in Users, NEW o \in Outcomes,
             ClaimDeadLetter(w, d, u, o)
      PROVE  LocalsOK'
  <2>1. CASE UNCHANGED <<pc, locals>>
    BY <1>0, <2>1 DEF locals
  <2>2. CASE Enter(w, "MANUAL", [letter |-> d, by |-> u])
    BY <1>0, <2>2 DEF Enter, PCs, Triggers
  <2> QED BY <1>2, <2>1, <2>2 DEF ClaimDeadLetter
<1>3. ASSUME NEW w \in Workers, NEW o \in Outcomes,
             \/ CheckLatest(w, o) \/ AcquireLease(w, o) \/ FinalRenewal(w, o)
             \/ ResolveDeadLetters(w, o) \/ ReleaseLease(w, o) \/ ReopenDeadLetter(w, o)
      PROVE  LocalsOK'
  <2>1. UNCHANGED locals /\ \E place \in PCs : Goto(w, place)
    BY <1>3 DEF CheckLatest, AcquireLease, FinalRenewal, ResolveDeadLetters, ReleaseLease,
                ReopenDeadLetter, Undispatched, PCs
  <2> QED BY <1>0, <2>1 DEF locals
<1>4. ASSUME NEW w \in Workers, NEW noop \in BOOLEAN, NEW o \in Outcomes, CompleteRun(w, noop, o)
      PROVE  LocalsOK'
  BY <1>0, <1>4 DEF CompleteRun, locals, PCs
<1>5. ASSUME NEW w \in Workers, NEW o \in Outcomes, CreateRun(w, o)
      PROVE  LocalsOK'
  <2>1. CASE o = "ok"
    <3>1. created + 1 \in RunIds
      BY <2>1, <1>5, TablesType, CreateRunEffect DEF CreateRun
    <3> QED BY <1>0, <1>5, <2>1, <3>1 DEF CreateRun, PCs
  <2>2. CASE o # "ok"
    BY <1>0, <1>5, <2>2 DEF CreateRun, PCs
  <2> QED BY <2>1, <2>2
<1>6. ASSUME NEW w \in Workers, NEW o \in Outcomes, RecordFailure(w, o)
      PROVE  LocalsOK'
  BY <1>0, <1>6 DEF RecordFailure, PCs
<1>7. ASSUME NEW w \in Workers, NEW o \in Outcomes, HeartbeatFails(w, o)
      PROVE  LocalsOK'
  BY <1>0, <1>7 DEF HeartbeatFails
<1>8. ASSUME NEW w \in Workers, Handler(w) \/ Crash(w)
      PROVE  LocalsOK'
  BY <1>0, <1>8 DEF Handler, HandlerReturns, HandlerThrows, Crash, locals, PCs
<1>9. CASE LeaseLapses \/ OrphanLeaseExpires \/ (\E r \in RunIds : BackoffElapses(r))
  BY <1>0, <1>9 DEF LeaseLapses, OrphanLeaseExpires, BackoffElapses, locals
<1>10. CASE RunsExhausted
  BY <1>0, <1>10 DEF RunsExhausted, vars, locals
<1> QED BY <1>1, <1>2, <1>3, <1>4, <1>5, <1>6, <1>7, <1>8, <1>9, <1>10 DEF Next, Continue

\* The fault counters stay within their budgets; only LeaseLapses uses up lapses.
LEMMA FaultsStep ==
  ASSUME TypeOK, Next
  PROVE  /\ faults' \in [crash : 0..MaxCrashes, db : 0..MaxDbErrors, lapse : 0..MaxLapses]
         /\ faults'.lapse = faults.lapse \/ (LeaseLapses /\ faults'.lapse # 0)
<1>1. ASSUME NEW o \in Outcomes, Ends(o)
      PROVE  /\ faults' \in [crash : 0..MaxCrashes, db : 0..MaxDbErrors, lapse : 0..MaxLapses]
             /\ faults'.lapse = faults.lapse
  BY <1>1, EndsEffect
<1>2. CASE UNCHANGED faults
  BY <1>2 DEF TypeOK
<1>3. CASE \E w \in Workers : Crash(w)
  BY <1>3, BoundsAssumption DEF Crash, TypeOK
<1>4. CASE LeaseLapses
  BY <1>4, BoundsAssumption DEF LeaseLapses, TypeOK
<1>5. ASSUME NEW w \in Workers, NEW o \in Outcomes, Continue(w, o) \/ HeartbeatFails(w, o)
      PROVE  Ends(o)
  BY <1>5 DEF Continue, CheckLatest, AcquireLease, CreateRun, FinalRenewal, CompleteRun,
              ResolveDeadLetters, RecordFailure, ReleaseLease, ReopenDeadLetter, HeartbeatFails
<1>6. ASSUME NEW w \in Workers, NEW d \in RunIds, NEW u \in Users, NEW o \in Outcomes,
             ClaimDeadLetter(w, d, u, o)
      PROVE  Ends(o)
  BY <1>6 DEF ClaimDeadLetter
<1>7. ASSUME NEW w \in Workers, Handler(w) \/ (\E how \in {"SCHEDULED", "STARTUP"} : Tick(w, how))
      PROVE  UNCHANGED faults
  BY <1>7 DEF Handler, HandlerReturns, HandlerThrows, Tick
<1>8. CASE OrphanLeaseExpires \/ (\E r \in RunIds : BackoffElapses(r)) \/ RunsExhausted
  BY <1>2, <1>8 DEF OrphanLeaseExpires, BackoffElapses, RunsExhausted, vars
<1> QED BY <1>1, <1>2, <1>3, <1>4, <1>5, <1>6, <1>7, <1>8 DEF Next

LEMMA TypeStep == TypeOK /\ RunsRecorded /\ Next => TypeOK'
  BY TablesStep, LocalsStep, FaultsStep DEF TypeOK, TablesOK, RunRow, LetterRow

-----------------------------------------------------------------------------
(* Three kinds of step, as far as the ledger of runs, failures and letters *)
(* is concerned: it keeps every status, a run is created, or an executing  *)
(* invocation gives its own run a verdict.                                 *)

SameLetters(S) == \A s \in S : letters'[s].status = "NONE" <=> letters[s].status = "NONE"

KeepsLedger ==
    /\ UNCHANGED <<created, failures>>
    /\ \A s \in RunIds : runs'[s].status = runs[s].status /\ runs'[s].attempt = runs[s].attempt
    /\ SameLetters(RunIds)

Closes(w, v) ==
    /\ pc[w] \in {"complete", "fail"}
    /\ \E place \in {"resolve", "release", "fail"} : Goto(w, place)
    /\ \E b \in BOOLEAN : SetVerdict(run[w], v, b)
    /\ created' = created
    /\ \/ v \in {"NONE", "COMPLETED"} /\ UNCHANGED <<failures, letters>>
       \/ /\ v = "RETRY" /\ runs[run[w]].attempt < MaxAttempts
          /\ failures' = failures \cup {run[w]} /\ UNCHANGED letters
       \/ /\ v = "DEAD_LETTER" /\ runs[run[w]].attempt >= MaxAttempts
          /\ failures' = failures \cup {run[w]}
          /\ letters'[run[w]].status # "NONE" /\ SameLetters(RunIds \ {run[w]})

LEMMA LedgerSteps ==
  ASSUME TypeOK, RunsRecorded, Next
  PROVE  \/ KeepsLedger
         \/ \E w \in Workers : pc[w] = "create" /\ StoreCreateRun(w)
         \/ \E w \in Workers, v \in RunStatus : Closes(w, v)
<1> USE TablesType
<1>1. CASE UNCHANGED <<runs, created, failures, letters>>
  BY <1>1 DEF KeepsLedger, SameLetters
<1>2. ASSUME NEW w \in Workers, NEW d \in RunIds, NEW u \in Users, NEW o \in Outcomes,
             ClaimDeadLetter(w, d, u, o)
      PROVE  KeepsLedger
  BY <1>2 DEF ClaimDeadLetter, KeepsLedger, SameLetters, TablesOK, LetterRow
<1>3. ASSUME NEW w \in Workers, NEW o \in Outcomes, ResolveDeadLetters(w, o) \/ ReopenDeadLetter(w, o)
      PROVE  KeepsLedger
  <2>1. CASE UNCHANGED table
    BY <2>1, <1>1 DEF table, KeepsLedger, SameLetters
  <2>2. CASE StoreResolveDeadLetters
    BY <2>2, LettersToEffect DEF StoreResolveDeadLetters, KeepsLedger, SameLetters, TablesOK
  <2>3. CASE StoreReopen(claim[w])
    BY <2>3 DEF StoreReopen, KeepsLedger, SameLetters, TablesOK, LetterRow
  <2> QED BY <1>3, <2>1, <2>2, <2>3 DEF ResolveDeadLetters, ReopenDeadLetter
<1>4. ASSUME NEW r \in RunIds, BackoffElapses(r)
      PROVE  KeepsLedger
  BY <1>4 DEF BackoffElapses, KeepsLedger, SameLetters, TablesOK, RunRow
<1>5. ASSUME NEW w \in Workers, NEW o \in Outcomes, CreateRun(w, o), ~UNCHANGED table
      PROVE  pc[w] = "create" /\ StoreCreateRun(w)
  BY <1>5 DEF CreateRun
<1>6. ASSUME NEW w \in Workers, NEW noop \in BOOLEAN, NEW o \in Outcomes,
             CompleteRun(w, noop, o), ~UNCHANGED table
      PROVE  \E v \in RunStatus : Closes(w, v)
  <2>1. PICK v \in {"NONE", "COMPLETED"} : SetVerdict(run[w], v, FALSE)
    BY <1>6 DEF CompleteRun, StoreCompleteRun
  <2>2. Closes(w, v)
    BY <1>6, <2>1 DEF CompleteRun, StoreCompleteRun, Closes, Goto
  <2> QED BY <2>2 DEF RunStatus
<1>7. ASSUME NEW w \in Workers, NEW o \in Outcomes, RecordFailure(w, o), ~UNCHANGED table
      PROVE  \E v \in RunStatus : Closes(w, v)
  <2>1. pc[w] = "fail" /\ Goto(w, "release") /\ run[w] \in RunIds /\ runs[run[w]].attempt \in Nat
    BY <1>7 DEF RecordFailure, TypeOK, RunsRecorded, Executes
  <2>2. CASE runs[run[w]].attempt < MaxAttempts
    <3>1. StoreScheduleRetry(run[w])
      BY <1>7, <2>2 DEF RecordFailure
    <3>2. Closes(w, "RETRY")
      BY <2>1, <2>2, <3>1 DEF StoreScheduleRetry, Closes
    <3> QED BY <3>2 DEF RunStatus
  <2>3. CASE ~(runs[run[w]].attempt < MaxAttempts)
    <3>1. StoreDeadLetter(run[w])
      BY <1>7, <2>3 DEF RecordFailure
    <3>2. runs[run[w]].attempt >= MaxAttempts
      BY <2>1, <2>3, BoundsAssumption
    <3> DEFINE resolved == LettersTo({"RETRYING"}, "RESOLVED")
    <3>3. /\ resolved \in [RunIds -> LetterRow]
          /\ \A s \in RunIds : resolved[s].status = "NONE" <=> letters[s].status = "NONE"
      BY LettersToEffect DEF TablesOK
    <3>4. letters' = IF resolved[run[w]].status = "NONE"
                     THEN [resolved EXCEPT ![run[w]].status = "OPEN"] ELSE resolved
      BY <3>1 DEF StoreDeadLetter
    <3> HIDE DEF resolved
    <3>5. letters'[run[w]].status # "NONE" /\ SameLetters(RunIds \ {run[w]})
      BY <2>1, <3>3, <3>4 DEF SameLetters, LetterRow
    <3>6. Closes(w, "DEAD_LETTER")
      BY <2>1, <3>1, <3>2, <3>5 DEF StoreDeadLetter, Closes
    <3> QED BY <3>6 DEF RunStatus
  <2> QED BY <2>2, <2>3
<1>8. ASSUME NEW w \in Workers, NEW o \in Outcomes,
             \/ \E how \in {"SCHEDULED", "STARTUP"} : Tick(w, how)
             \/ CheckLatest(w, o) \/ AcquireLease(w, o) \/ FinalRenewal(w, o)
             \/ ReleaseLease(w, o) \/ HeartbeatFails(w, o) \/ Handler(w) \/ Crash(w)
      PROVE  UNCHANGED <<runs, created, failures, letters>>
  BY <1>8 DEF Tick, CheckLatest, AcquireLease, FinalRenewal, ReleaseLease, HeartbeatFails,
              Handler, HandlerReturns, HandlerThrows, Crash, table
<1>9. CASE LeaseLapses \/ OrphanLeaseExpires \/ RunsExhausted
  BY <1>1, <1>9 DEF LeaseLapses, OrphanLeaseExpires, RunsExhausted, vars, table
<1>10. UNCHANGED table => KeepsLedger
  BY <1>1 DEF table, KeepsLedger, SameLetters
<1>11. ASSUME NEW w \in Workers, NEW o \in Outcomes, Continue(w, o)
       PROVE  \/ KeepsLedger
              \/ pc[w] = "create" /\ StoreCreateRun(w)
              \/ \E v \in RunStatus : Closes(w, v)
  BY <1>1, <1>3, <1>5, <1>6, <1>7, <1>8, <1>10, <1>11 DEF Continue, KeepsLedger, SameLetters
<1>12. \E o \in Outcomes : TRUE
  BY DEF Outcomes
<1> QED BY <1>1, <1>2, <1>4, <1>8, <1>9, <1>11, <1>12 DEF Next, KeepsLedger, SameLetters

-----------------------------------------------------------------------------
(* The ledger invariants are preserved.                                    *)

LEMMA VerdictEffect ==
  ASSUME TypeOK, RunsRecorded, NEW w \in Workers, NEW v \in RunStatus, Closes(w, v)
  PROVE  /\ run[w] \in RunIds /\ run[w] <= created /\ created' = created
         /\ runs' \in [RunIds -> RunRow]
         /\ \A s \in RunIds :
              /\ runs'[s].attempt = runs[s].attempt
              /\ s # run[w] \/ runs[s].status # "RUNNING" => runs'[s] = runs[s]
         /\ runs[run[w]].status = "RUNNING" => runs'[run[w]].status = v
<1>1. run[w] \in RunIds /\ run[w] <= created
  BY DEF Closes, TypeOK, RunsRecorded, Executes
<1>2. PICK b \in BOOLEAN : SetVerdict(run[w], v, b)
  BY DEF Closes
<1>3. runs \in [RunIds -> RunRow]
  BY TablesType DEF TablesOK
<1> QED BY <1>1, <1>2, <1>3, SetVerdictEffect DEF Closes

LEMMA OpenRunIsLatestStep ==
  ASSUME TypeOK, RunsRecorded, OpenRunIsLatest, Next
  PROVE  OpenRunIsLatest'
<1>1. CASE KeepsLedger
  BY <1>1 DEF KeepsLedger, OpenRunIsLatest, Rows
<1>2. ASSUME NEW w \in Workers, StoreCreateRun(w)
      PROVE  OpenRunIsLatest'
  <2>0. /\ created' = created + 1 /\ created' \in RunIds
        /\ \A s \in RunIds \ {created'} :
             /\ runs'[s].status = "RUNNING" => runs[s].status = "RUNNING" /\ ~IsLatest(s)
             /\ runs'[s].status = "NONE" <=> runs[s].status = "NONE"
    BY <1>2, TablesType, CreateRunEffect
  <2>1. ASSUME NEW s \in RunIds \ {created'} PROVE runs'[s].status # "RUNNING"
    BY <2>0, <2>1 DEF OpenRunIsLatest, IsLatest, Rows, RunIds, NoRun
  <2>2. ASSUME NEW s \in RunIds, runs'[s].status # "NONE" PROVE s <= created'
    BY <2>0, <2>2 DEF RunsRecorded, RunIds, TypeOK
  <2> QED BY <2>1, <2>2 DEF OpenRunIsLatest, Rows
<1>3. ASSUME NEW w \in Workers, NEW v \in RunStatus, Closes(w, v)
      PROVE  OpenRunIsLatest'
  <2>1. \A s \in RunIds : /\ runs'[s].status = "RUNNING" => runs[s].status = "RUNNING"
                          /\ runs'[s].status # "NONE" => runs[s].status # "NONE"
    BY <1>3, VerdictEffect
  <2> QED BY <2>1 DEF OpenRunIsLatest, Rows
<1> QED BY <1>1, <1>2, <1>3, LedgerSteps

LEMMA FailureLeavesEvidenceStep ==
  ASSUME TypeOK, RunsRecorded, FailureLeavesEvidence, Next
  PROVE  FailureLeavesEvidence'
<1>1. CASE KeepsLedger
  BY <1>1 DEF KeepsLedger, SameLetters, FailureLeavesEvidence
<1>2. ASSUME NEW w \in Workers, StoreCreateRun(w)
      PROVE  FailureLeavesEvidence'
  BY <1>2, TablesType, CreateRunEffect DEF FailureLeavesEvidence
<1>3. ASSUME NEW w \in Workers, NEW v \in RunStatus, Closes(w, v)
      PROVE  FailureLeavesEvidence'
  <2> SUFFICES ASSUME NEW s \in RunIds
               PROVE  /\ runs'[s].status \in {"RETRY", "FAILED", "DEAD_LETTER"} => s \in failures'
                      /\ runs'[s].status = "DEAD_LETTER" => letters'[s].status # "NONE"
    BY DEF FailureLeavesEvidence
  <2>1. failures \subseteq failures'
    BY <1>3 DEF Closes
  <2>2. letters[s].status # "NONE" => letters'[s].status # "NONE"
    BY <1>3 DEF Closes, SameLetters
  <2>3. CASE runs'[s] = runs[s]
    BY <2>1, <2>2, <2>3 DEF FailureLeavesEvidence
  <2>4. CASE runs'[s] # runs[s]
    <3>1. s = run[w] /\ runs'[s].status = v
      BY <1>3, <2>4, VerdictEffect
    <3> QED BY <1>3, <3>1 DEF Closes
  <2> QED BY <2>3, <2>4
<1> QED BY <1>1, <1>2, <1>3, LedgerSteps

LEMMA DeadLettersAreExhaustedStep ==
  ASSUME TypeOK, RunsRecorded, DeadLettersAreExhausted, Next
  PROVE  DeadLettersAreExhausted'
<1>1. CASE KeepsLedger
  BY <1>1 DEF KeepsLedger, SameLetters, DeadLettersAreExhausted
<1>2. ASSUME NEW w \in Workers, StoreCreateRun(w)
      PROVE  DeadLettersAreExhausted'
  <2>1. letters'[created'].status = "NONE" /\ runs'[created'].status # "RETRY"
    <3>1. /\ created' \in RunIds /\ created' > created
          /\ letters' = letters /\ runs'[created'].status = "RUNNING"
      BY <1>2, TablesType, CreateRunEffect, BoundsAssumption DEF TablesOK
    <3> QED BY <3>1 DEF RunsRecorded
  <2>2. UNCHANGED letters
    BY <1>2, TablesType, CreateRunEffect
  <2>3. ASSUME NEW s \in RunIds \ {created'}
        PROVE  /\ runs'[s].status = "RETRY" => runs[s].status = "RETRY"
               /\ runs'[s].attempt = runs[s].attempt
    BY <1>2, TablesType, CreateRunEffect
  <2> QED BY <2>1, <2>2, <2>3 DEF DeadLettersAreExhausted
<1>3. ASSUME NEW w \in Workers, NEW v \in RunStatus, Closes(w, v)
      PROVE  DeadLettersAreExhausted'
  <2> SUFFICES ASSUME NEW s \in RunIds
               PROVE  /\ runs'[s].status = "RETRY" => runs'[s].attempt < MaxAttempts
                      /\ letters'[s].status # "NONE" => runs'[s].attempt >= MaxAttempts
    BY DEF DeadLettersAreExhausted
  <2>1. runs'[s].attempt = runs[s].attempt
    BY <1>3, VerdictEffect
  <2>2. runs'[s].status = "RETRY" => runs[s].attempt < MaxAttempts
    BY <1>3, VerdictEffect DEF Closes, DeadLettersAreExhausted
  <2>3. letters'[s].status # "NONE" => runs[s].attempt >= MaxAttempts
    BY <1>3 DEF Closes, SameLetters, DeadLettersAreExhausted
  <2> QED BY <2>1, <2>2, <2>3
<1> QED BY <1>1, <1>2, <1>3, LedgerSteps

\* The verdict of a run never changes again.
LEMMA VerdictIsFinalStep ==
  ASSUME TypeOK, RunsRecorded, Next
  PROVE  \A r \in RunIds : runs[r].status \in Verdicts => runs'[r].status = runs[r].status
<1>1. CASE KeepsLedger
  BY <1>1 DEF KeepsLedger
<1>2. ASSUME NEW w \in Workers, StoreCreateRun(w), NEW r \in RunIds, runs[r].status \in Verdicts
      PROVE  runs'[r].status = runs[r].status
  <2>1. r # created'
    BY <1>2, TablesType, CreateRunEffect DEF RunsRecorded, TypeOK, RunIds, Verdicts
  <2> QED BY <1>2, <2>1, TablesType, CreateRunEffect DEF Verdicts
<1>3. ASSUME NEW w \in Workers, NEW v \in RunStatus, Closes(w, v), NEW r \in RunIds,
             runs[r].status \in Verdicts
      PROVE  runs'[r].status = runs[r].status
  BY <1>3, VerdictEffect DEF Verdicts
<1> QED BY <1>1, <1>2, <1>3, LedgerSteps

-----------------------------------------------------------------------------
(* The invocations' own runs and the lease.                                *)

Owning   == {"handle", "renew", "complete"}
Critical == {"create"} \cup Owning

\* Except where a run was just recorded, an invocation keeps its run and does
\* not begin to execute.
KeepsRun(w) ==
    \/ /\ run'[w] = run[w]
       /\ pc'[w] \in Executes => pc[w] \in Executes
       /\ pc'[w] \in Owning => pc[w] \in Owning
    \/ run'[w] = NoRun /\ pc'[w] = "check"

LEMMA RunSteps ==
  ASSUME TypeOK, Next
  PROVE  \/ \A v \in Workers : KeepsRun(v)
         \/ \E w \in Workers : CreateRun(w, "ok")
<1> SUFFICES ASSUME ~ \E w \in Workers : CreateRun(w, "ok")
             PROVE  \A v \in Workers : KeepsRun(v)
  OBVIOUS
<1> USE DEF TypeOK, Goto, Executes, Owning, KeepsRun
<1>1. CASE UNCHANGED <<pc, run>>
  BY <1>1
<1>2. ASSUME NEW w \in Workers, NEW how \in Triggers, NEW c, Enter(w, how, c)
      PROVE  \A v \in Workers : KeepsRun(v)
  BY <1>2 DEF Enter
<1>3. ASSUME NEW w \in Workers, NEW o \in Outcomes,
             \/ CheckLatest(w, o) \/ AcquireLease(w, o) \/ ReleaseLease(w, o)
             \/ ReopenDeadLetter(w, o) \/ Crash(w)
      PROVE  \A v \in Workers : KeepsRun(v)
  <2>1. UNCHANGED run /\ \E place \in PCs \ Executes : Goto(w, place)
    BY <1>3 DEF CheckLatest, AcquireLease, ReleaseLease, ReopenDeadLetter, Crash, locals,
                Undispatched, PCs
  <2> QED BY <2>1
<1>4. ASSUME NEW w \in Workers, NEW o \in Outcomes, CreateRun(w, o)
      PROVE  \A v \in Workers : KeepsRun(v)
  BY <1>4 DEF CreateRun
<1>5. ASSUME NEW w \in Workers, NEW o \in Outcomes,
             \/ FinalRenewal(w, o) \/ Handler(w) \/ ResolveDeadLetters(w, o) \/ RecordFailure(w, o)
             \/ \E noop \in BOOLEAN : CompleteRun(w, noop, o)
      PROVE  \A v \in Workers : KeepsRun(v)
  BY <1>5 DEF FinalRenewal, Handler, HandlerReturns, HandlerThrows, ResolveDeadLetters,
              RecordFailure, CompleteRun, locals
<1>6. ASSUME NEW w \in Workers, NEW how \in {"SCHEDULED", "STARTUP"}, Tick(w, how)
      PROVE  \A v \in Workers : KeepsRun(v)
  BY <1>2, <1>6 DEF Tick, Triggers
<1>7. ASSUME NEW w \in Workers, NEW d \in RunIds, NEW u \in Users, NEW o \in Outcomes,
             ClaimDeadLetter(w, d, u, o)
      PROVE  \A v \in Workers : KeepsRun(v)
  BY <1>1, <1>2, <1>7 DEF ClaimDeadLetter, Triggers, locals
<1>8. ASSUME NEW w \in Workers, NEW o \in Outcomes, HeartbeatFails(w, o)
      PROVE  UNCHANGED <<pc, run>>
  BY <1>8 DEF HeartbeatFails
<1>9. CASE LeaseLapses \/ OrphanLeaseExpires \/ (\E r \in RunIds : BackoffElapses(r)) \/ RunsExhausted
  BY <1>1, <1>9 DEF LeaseLapses, OrphanLeaseExpires, BackoffElapses, RunsExhausted, locals, vars
<1>10. \E o \in Outcomes : TRUE
  BY DEF Outcomes
<1> HIDE DEF TypeOK, Goto, Executes, Owning, KeepsRun
<1> QED BY <1>1, <1>3, <1>4, <1>5, <1>6, <1>7, <1>8, <1>9, <1>10 DEF Next, Continue

\* A recorded run is the newest row, and the invocation's alone.
LEMMA RecordedRun ==
  ASSUME TypeOK, NEW w \in Workers, CreateRun(w, "ok")
  PROVE  /\ pc[w] = "create" /\ pc' = [pc EXCEPT ![w] = "handle"]
         /\ run' = [run EXCEPT ![w] = created']
         /\ created' = created + 1 /\ created' \in RunIds
         /\ runs'[created'].status = "RUNNING"
  BY TablesType, CreateRunEffect DEF CreateRun, Goto

LEMMA RunsRecordedStep ==
  ASSUME TypeOK, RunsRecorded, Next
  PROVE  RunsRecorded'
<1>0. created \in Nat /\ \A w \in Workers : run[w] \in Nat
  BY BoundsAssumption DEF TypeOK, RunIds, NoRun
<1>1. /\ created' \in Nat /\ created <= created'
      /\ \A r \in RunIds : r > created' => runs'[r].status = "NONE" /\ letters'[r].status = "NONE"
  <2>1. CASE KeepsLedger
    BY <1>0, <2>1 DEF KeepsLedger, SameLetters, RunsRecorded
  <2>2. ASSUME NEW w \in Workers, StoreCreateRun(w), NEW r \in RunIds, r > created'
        PROVE  runs'[r].status = "NONE" /\ letters'[r].status = "NONE"
    <3>1. r > created /\ r # created' /\ letters' = letters
      BY <1>0, <2>2, TablesType, CreateRunEffect DEF RunIds
    <3>2. runs[r].status = "NONE" /\ letters[r].status = "NONE"
      BY <3>1 DEF RunsRecorded
    <3> QED BY <2>2, <3>1, <3>2, TablesType, CreateRunEffect
  <2>3. ASSUME NEW w \in Workers, StoreCreateRun(w)
        PROVE  created' \in Nat /\ created <= created'
    BY <1>0, <2>3, TablesType, CreateRunEffect
  <2>4. ASSUME NEW w \in Workers, NEW v \in RunStatus, Closes(w, v)
        PROVE  /\ created' = created
               /\ \A r \in RunIds :
                    r > created => runs'[r].status = "NONE" /\ letters'[r].status = "NONE"
    <3>1. created' = created /\ run[w] \in RunIds /\ run[w] <= created
      BY <2>4, VerdictEffect
    <3>2. ASSUME NEW r \in RunIds, r > created PROVE r # run[w]
      BY <1>0, <3>1, <3>2 DEF RunIds
    <3>3. ASSUME NEW r \in RunIds, r > created
          PROVE runs'[r].status = "NONE" /\ letters'[r].status = "NONE"
      <4>1. runs[r].status = "NONE" /\ letters[r].status = "NONE" /\ r # run[w]
        BY <3>2, <3>3 DEF RunsRecorded
      <4>2. runs'[r] = runs[r]
        BY <2>4, <4>1, VerdictEffect
      <4>3. letters'[r].status = "NONE"
        BY <2>4, <4>1 DEF Closes, SameLetters
      <4> QED BY <4>1, <4>2, <4>3
    <3> QED BY <3>1, <3>3
  <2> QED BY <1>0, <2>1, <2>2, <2>3, <2>4, LedgerSteps DEF KeepsLedger
<1>2. CASE \A v \in Workers : KeepsRun(v)
  <2>1. ASSUME NEW w \in Workers
        PROVE  /\ run'[w] <= created'
               /\ pc'[w] \in Executes => run'[w] # NoRun
    BY <1>0, <1>1, <1>2 DEF KeepsRun, RunsRecorded, Executes, NoRun
  <2>2. ASSUME NEW w \in Workers, NEW v \in Workers, v # w, run'[w] # NoRun
        PROVE  run'[v] # run'[w]
    BY <1>2, <2>2 DEF KeepsRun, RunsRecorded
  <2> QED BY <1>1, <2>1, <2>2 DEF RunsRecorded
<1>3. ASSUME NEW w \in Workers, CreateRun(w, "ok")
      PROVE  RunsRecorded'
  <2>1. ASSUME NEW v \in Workers
        PROVE  /\ run'[v] <= created'
               /\ pc'[v] \in Executes => run'[v] # NoRun
               /\ v # w => run'[v] = run[v] /\ run[v] < created'
               /\ v = w => run'[v] = created'
    BY <1>0, <1>1, <1>3, RecordedRun DEF RunsRecorded, TypeOK, RunIds, NoRun
  <2>2. ASSUME NEW u \in Workers, NEW v \in Workers, v # u, run'[u] # NoRun
        PROVE  run'[v] # run'[u]
    BY <1>0, <2>1, <2>2 DEF RunsRecorded
  <2> QED BY <1>1, <2>1, <2>2 DEF RunsRecorded
<1> QED BY <1>2, <1>3, RunSteps

LEMMA LeaseHeldStep ==
  ASSUME TypeOK, LeaseHeld, Next
  PROVE  LeaseHeld'
<1> SUFFICES ASSUME faults'.lapse = 0, NEW v \in Workers, pc'[v] \in Critical
             PROVE  Holds(v)'
  BY DEF LeaseHeld, Critical, Owning
<1>0. faults.lapse = 0 /\ (pc[v] \in Critical => Holds(v))
  BY FaultsStep DEF LeaseHeld, Critical, Owning
<1> USE DEF TypeOK, Goto, Critical, Owning, Holds
<1>1. CASE UNCHANGED <<lease, pc>>
  BY <1>0, <1>1
<1>2. ASSUME NEW w \in Workers, NEW how, NEW c, Enter(w, how, c), UNCHANGED lease
      PROVE  Holds(v)'
  BY <1>0, <1>2 DEF Enter
<1>3. ASSUME NEW w \in Workers, NEW o \in Outcomes, CheckLatest(w, o) \/ ReopenDeadLetter(w, o)
      PROVE  Holds(v)'
  BY <1>0, <1>3 DEF CheckLatest, ReopenDeadLetter, StoreReopen, Undispatched, table
<1>4. ASSUME NEW w \in Workers, NEW o \in Outcomes, AcquireLease(w, o)
      PROVE  Holds(v)'
  BY <1>0, <1>4 DEF AcquireLease, Undispatched
<1>5. ASSUME NEW w \in Workers, NEW o \in Outcomes, CreateRun(w, o)
      PROVE  Holds(v)'
  BY <1>0, <1>5 DEF CreateRun, StoreCreateRun, table
<1>6. ASSUME NEW w \in Workers, NEW o \in Outcomes, FinalRenewal(w, o)
      PROVE  Holds(v)'
  BY <1>0, <1>6 DEF FinalRenewal, table
<1>7. ASSUME NEW w \in Workers, NEW noop \in BOOLEAN, NEW o \in Outcomes, CompleteRun(w, noop, o)
      PROVE  Holds(v)'
  BY <1>0, <1>7 DEF CompleteRun, StoreCompleteRun, table
<1>8. ASSUME NEW w \in Workers, NEW o \in Outcomes, ResolveDeadLetters(w, o) \/ RecordFailure(w, o)
      PROVE  Holds(v)'
  BY <1>0, <1>8 DEF ResolveDeadLetters, StoreResolveDeadLetters, RecordFailure,
                    StoreScheduleRetry, StoreDeadLetter, table
<1>9. ASSUME NEW w \in Workers, NEW o \in Outcomes, ReleaseLease(w, o) \/ Crash(w)
      PROVE  Holds(v)'
  BY <1>0, <1>9 DEF ReleaseLease, Crash, Disown, Undispatched
<1>10. ASSUME NEW w \in Workers, NEW o \in Outcomes, HeartbeatFails(w, o) \/ Handler(w)
      PROVE  Holds(v)'
  BY <1>0, <1>10 DEF HeartbeatFails, Handler, HandlerReturns, HandlerThrows, table
<1>11. ASSUME NEW w \in Workers, NEW how \in {"SCHEDULED", "STARTUP"}, Tick(w, how)
      PROVE  Holds(v)'
  BY <1>2, <1>11 DEF Tick, table
<1>12. ASSUME NEW w \in Workers, NEW d \in RunIds, NEW u \in Users, NEW o \in Outcomes,
              ClaimDeadLetter(w, d, u, o)
      PROVE  Holds(v)'
  BY <1>1, <1>2, <1>12 DEF ClaimDeadLetter
<1>13. CASE LeaseLapses
  BY <1>0, <1>13 DEF LeaseLapses
<1>14. CASE OrphanLeaseExpires
  BY <1>0, <1>14, WorkersAssumption DEF OrphanLeaseExpires
<1>15. CASE (\E r \in RunIds : BackoffElapses(r)) \/ RunsExhausted
  BY <1>1, <1>15 DEF BackoffElapses, RunsExhausted, table, vars
<1>16. \E o \in Outcomes : TRUE
  BY DEF Outcomes
<1> HIDE DEF TypeOK, Goto, Critical, Owning, Holds
<1> QED BY <1>3, <1>4, <1>5, <1>6, <1>7, <1>8, <1>9, <1>10, <1>11, <1>12, <1>13, <1>14, <1>15,
           <1>16 DEF Next, Continue

LEMMA HandlerOwnsItsRunStep ==
  ASSUME TypeOK, RunsRecorded, LeaseHeld, HandlerOwnsItsRun, Next
  PROVE  HandlerOwnsItsRun'
<1> SUFFICES ASSUME faults'.lapse = 0, NEW v \in Workers, pc'[v] \in Owning
             PROVE  Holds(v)' /\ runs'[run'[v]].status = "RUNNING"
  BY DEF HandlerOwnsItsRun, Owning
<1>1. Holds(v)'
  BY LeaseHeldStep DEF LeaseHeld, Owning
<1>2. faults.lapse = 0
  BY FaultsStep
<1>3. ASSUME NEW w \in Workers, pc[w] = "create"
      PROVE  w = v \/ pc[v] \notin Owning
  BY <1>2, <1>3 DEF LeaseHeld, Owning, Holds
<1>4. ASSUME NEW w \in Workers, CreateRun(w, "ok")
      PROVE  runs'[run'[v]].status = "RUNNING"
  <2>1. CASE v = w
    BY <1>4, <2>1, RecordedRun DEF TypeOK
  <2>2. CASE v # w
    BY <1>3, <1>4, <2>2, RecordedRun DEF TypeOK
  <2> QED BY <2>1, <2>2
<1>5. CASE KeepsRun(v)
  <2>1. /\ pc[v] \in Owning /\ run'[v] = run[v]
        /\ run[v] \in RunIds /\ runs[run[v]].status = "RUNNING"
    <3>1. pc[v] \in Owning /\ run'[v] = run[v]
      BY <1>5 DEF KeepsRun, Owning
    <3>2. run[v] \in RunIds
      BY <3>1 DEF Owning, Executes, RunsRecorded, TypeOK
    <3>3. runs[run[v]].status = "RUNNING"
      BY <1>2, <3>1 DEF HandlerOwnsItsRun, Owning
    <3> QED BY <3>1, <3>2, <3>3
  <2>2. CASE KeepsLedger
    <3>1. runs'[run[v]].status = runs[run[v]].status
      BY <2>1, <2>2 DEF KeepsLedger
    <3> QED BY <1>1, <2>1, <3>1
  <2>3. ASSUME NEW w \in Workers, pc[w] = "create" PROVE FALSE
    <3>1. w = v
      BY <1>3, <2>1, <2>3
    <3> QED BY <2>1, <2>3, <3>1 DEF Owning
  <2>4. ASSUME NEW w \in Workers, NEW verdict \in RunStatus, Closes(w, verdict)
        PROVE  runs'[run'[v]].status = "RUNNING"
    <3>1. v # w
      BY <2>4 DEF Closes, Goto, Owning, TypeOK
    <3>2. run[v] # run[w]
      BY <3>1, <2>1 DEF RunsRecorded, RunIds, NoRun
    <3>3. runs'[run[v]] = runs[run[v]]
      BY <2>1, <2>4, <3>2, VerdictEffect
    <3> QED BY <2>1, <3>3
  <2>5. \/ KeepsLedger
        \/ \E w \in Workers : pc[w] = "create"
        \/ \E w \in Workers, verdict \in RunStatus : Closes(w, verdict)
    BY LedgerSteps
  <2> QED BY <1>1, <2>2, <2>3, <2>4, <2>5
<1>6. KeepsRun(v) \/ \E w \in Workers : CreateRun(w, "ok")
  BY RunSteps
<1> QED BY <1>1, <1>4, <1>5, <1>6

-----------------------------------------------------------------------------
(* The theorems.                                                           *)

LEMMA StepIInv == IInv /\ [Next]_vars => IInv'
<1>1. CASE Next
  BY <1>1, TypeStep, RunsRecordedStep, LeaseHeldStep, OpenRunIsLatestStep,
     FailureLeavesEvidenceStep, DeadLettersAreExhaustedStep, HandlerOwnsItsRunStep DEF IInv
<1>2. CASE UNCHANGED vars
  BY <1>2 DEF vars, table, locals, IInv, TypeOK, RunsRecorded, LeaseHeld, OpenRunIsLatest, Rows,
              FailureLeavesEvidence, DeadLettersAreExhausted, HandlerOwnsItsRun, Holds
<1> QED BY <1>1, <1>2

LEMMA Inductive == Spec => []IInv
  BY InitIInv, StepIInv, PTL DEF Spec

\* Every variable has its type in every reachable state.
THEOREM TypeCorrect == Spec => []TypeOK
  BY Inductive, PTL DEF IInv

\* At most one run is open, the newest row of the job.
THEOREM OpenRunIsAlwaysLatest == Spec => []OpenRunIsLatest
  BY Inductive, PTL DEF IInv

\* Every run that did not complete left a failure row, every dead-lettered one
\* a dead letter, whatever crashes, lapses and database errors happened.
THEOREM FailuresAreNeverLost == Spec => []FailureLeavesEvidence
  BY Inductive, PTL DEF IInv

\* Only a run that used up its attempts is dead-lettered; only one that has
\* some left is retried.
THEOREM OnlyExhaustedRunsAreDeadLettered == Spec => []DeadLettersAreExhausted
  BY Inductive, PTL DEF IInv

\* Until a live holder's lease lapses, an executing invocation holds it and
\* its run row is open.
THEOREM HandlersOwnTheirRuns == Spec => []HandlerOwnsItsRun
  BY Inductive, PTL DEF IInv

\* A verdict is final.
THEOREM VerdictsAreFinal == Spec => VerdictIsFinal
<1>1. IInv /\ [Next]_vars =>
        [\A r \in RunIds : runs[r].status \in Verdicts => runs'[r].status = runs[r].status]_vars
  BY VerdictIsFinalStep DEF IInv
<1> QED BY <1>1, Inductive, PTL DEF Spec, VerdictIsFinal

-----------------------------------------------------------------------------
(* Refinement: with leases that do not lapse under a living holder, the    *)
(* job is a singleton.                                                     *)

LEMMA SingletonStep ==
  ASSUME MaxLapses = 0, IInv, IInv', Next
  PROVE  [Singleton!Next]_Executing
<1> USE DEF Executing
<1>0. pc \in [Workers -> PCs]
  BY DEF IInv, TypeOK
<1>1. \A v, w \in Workers : pc[v] = "handle" /\ pc[w] \in {"create", "handle"} => v = w
  <2>1. faults.lapse = 0
    BY DEF IInv, TypeOK
  <2> QED BY <2>1 DEF IInv, LeaseHeld, Holds
<1>2. CASE \A v \in Workers : pc'[v] = "handle" <=> pc[v] = "handle"
  BY <1>2
<1>3. ASSUME NEW w \in Workers, CreateRun(w, "ok")
      PROVE  Singleton!Start(w)
  <2>1. Executing = {}
    BY <1>0, <1>1, <1>3 DEF CreateRun
  <2>2. Executing' = {w}
    BY <1>0, <1>3, <2>1 DEF CreateRun, Goto
  <2> QED BY <2>1, <2>2 DEF Singleton!Start
<1>4. ASSUME NEW w \in Workers, pc[w] = "handle", NEW place \in PCs \ {"handle"}, Goto(w, place)
      PROVE  Singleton!Stop(w)
  <2>1. Executing = {w}
    BY <1>1, <1>4
  <2>2. Executing' = {}
    BY <1>0, <1>4, <2>1 DEF Goto
  <2> QED BY <2>1, <2>2 DEF Singleton!Stop
<1>5. ASSUME NEW w \in Workers, NEW place \in PCs \ {"handle"}, Goto(w, place)
      PROVE  \/ \A v \in Workers : pc'[v] = "handle" <=> pc[v] = "handle"
             \/ Singleton!Stop(w)
  <2>1. CASE pc[w] = "handle"
    BY <1>4, <1>5, <2>1
  <2>2. CASE pc[w] # "handle"
    BY <1>0, <1>5, <2>2 DEF Goto
  <2> QED BY <2>1, <2>2
<1>6. ASSUME NEW w \in Workers, NEW o \in Outcomes, Continue(w, o)
      PROVE  CreateRun(w, "ok") \/ \E place \in PCs \ {"handle"} : Goto(w, place)
  <2>1. CASE CheckLatest(w, o) \/ AcquireLease(w, o) \/ FinalRenewal(w, o)
    BY <2>1 DEF CheckLatest, AcquireLease, FinalRenewal, Undispatched, PCs
  <2>2. CASE CreateRun(w, o)
    BY <2>2 DEF CreateRun, PCs
  <2>3. CASE \E noop \in BOOLEAN : CompleteRun(w, noop, o)
    BY <2>3 DEF CompleteRun, PCs
  <2>4. CASE ResolveDeadLetters(w, o) \/ RecordFailure(w, o) \/ ReleaseLease(w, o) \/ ReopenDeadLetter(w, o)
    BY <2>4 DEF ResolveDeadLetters, RecordFailure, ReleaseLease, ReopenDeadLetter, Undispatched, PCs
  <2> QED BY <1>6, <2>1, <2>2, <2>3, <2>4 DEF Continue
<1>7. ASSUME NEW w \in Workers, Handler(w) \/ Crash(w)
      PROVE  \E place \in PCs \ {"handle"} : Goto(w, place)
  BY <1>7 DEF Handler, HandlerReturns, HandlerThrows, Crash, PCs
<1>8. ASSUME NEW w \in Workers, NEW how \in {"SCHEDULED", "STARTUP"}, Tick(w, how)
      PROVE  \E place \in PCs \ {"handle"} : Goto(w, place)
  BY <1>8 DEF Tick, Enter, PCs
<1>9. ASSUME NEW w \in Workers, NEW d \in RunIds, NEW u \in Users, NEW o \in Outcomes,
             ClaimDeadLetter(w, d, u, o)
      PROVE  UNCHANGED pc \/ \E place \in PCs \ {"handle"} : Goto(w, place)
  BY <1>9 DEF ClaimDeadLetter, Enter, PCs
<1>10. ASSUME NEW w \in Workers, NEW o \in Outcomes, HeartbeatFails(w, o)
       PROVE  UNCHANGED pc
  BY <1>10 DEF HeartbeatFails
<1>11. ASSUME LeaseLapses \/ OrphanLeaseExpires \/ (\E r \in RunIds : BackoffElapses(r)) \/ RunsExhausted
       PROVE  UNCHANGED pc
  BY <1>11 DEF LeaseLapses, OrphanLeaseExpires, BackoffElapses, RunsExhausted, vars
<1>12. \/ UNCHANGED pc
       \/ \E w \in Workers : CreateRun(w, "ok")
       \/ \E w \in Workers, place \in PCs \ {"handle"} : Goto(w, place)
  BY <1>6, <1>7, <1>8, <1>9, <1>10, <1>11 DEF Next
<1>13. UNCHANGED pc => UNCHANGED Executing
  OBVIOUS
<1> HIDE DEF Executing
<1>14. CASE \E w \in Workers : CreateRun(w, "ok")
  BY <1>3, <1>14 DEF Singleton!Next
<1>15. CASE \E w \in Workers, place \in PCs \ {"handle"} : Goto(w, place)
  <2>1. CASE \A v \in Workers : pc'[v] = "handle" <=> pc[v] = "handle"
    BY <2>1 DEF Executing
  <2>2. CASE \E w \in Workers : Singleton!Stop(w)
    BY <2>2 DEF Singleton!Next
  <2> QED BY <1>5, <1>15, <2>1, <2>2
<1> QED BY <1>12, <1>13, <1>14, <1>15

\* Two invocations never execute the job's handler concurrently, on any number
\* of replicas, provided no live holder's lease lapses.
THEOREM JobIsSingleton ==
  ASSUME MaxLapses = 0
  PROVE  Spec => ImplementsSingleton
<1>1. Init => Singleton!Init
  BY DEF Init, Singleton!Init, Executing
<1>2. IInv /\ IInv' /\ [Next]_vars => [Singleton!Next]_Executing
  <2>1. UNCHANGED vars => UNCHANGED Executing
    BY DEF vars, Executing
  <2> QED BY <2>1, SingletonStep
<1> QED BY <1>1, <1>2, Inductive, PTL DEF Spec, ImplementsSingleton, Singleton!Spec

-----------------------------------------------------------------------------
(* Dead letters.  Every part of this second invariant is about the letters *)
(* and who is to settle them; it stands on the first.                      *)

\* An operator's invocation that has not dispatched its run.
Carrying == {"check", "acquire", "create", "reopen"}
Carries(w, d) == pc[w] \in Carrying /\ claim[w].letter = d

Quiet == faults.crash = 0 /\ faults.db = 0

\* The letter of a run is made by the invocation's last statement about it.
OwnLetterIsNew == \A w \in Workers : pc[w] \in Executes => letters[run[w]].status = "NONE"

ResolvesAfterSuccess ==
    faults.lapse = 0 =>
        \A w \in Workers : pc[w] = "resolve" => runs[run[w]].status \in {"COMPLETED", "NONE"}

ClaimsAreManual == \A w \in Workers : claim[w].letter # NoRun => trigger[w] = "MANUAL"

NobodyThrew == Quiet => \A w \in Workers : threw[w] = FALSE

\* Whoever carries a letter is alone with it, and it is still claimed by its
\* operator unless another invocation resolved it.
CarriedIsClaimed ==
    Quiet => \A w \in Workers, d \in RunIds : Carries(w, d) =>
        /\ \/ letters[d].status = "RETRYING" /\ letters[d].by = claim[w].by
           \/ letters[d].status = "RESOLVED"
        /\ \A v \in Workers : Carries(v, d) => v = w

\* A run an operator started, not deleted as a no-op, and no dead-lettered one since.
Covers(r) ==
    /\ runs[r].status # "NONE"
    /\ \A w \in Workers : run[w] = r => trigger[w] = "MANUAL"
    /\ \A s \in RunIds : s >= r => runs[s].status # "DEAD_LETTER"

RetryingIsInHand ==
    Quiet => \A d \in RunIds : letters[d].status = "RETRYING" =>
        \/ \E w \in Workers : Carries(w, d)
        \/ \E r \in RunIds : Covers(r)

LettersInv ==
    /\ OwnLetterIsNew
    /\ ResolvesAfterSuccess
    /\ ClaimsAreManual
    /\ NobodyThrew
    /\ CarriedIsClaimed
    /\ RetryingIsInHand

LEMMA InitLettersInv == Init => LettersInv
<1> SUFFICES ASSUME Init PROVE LettersInv
  OBVIOUS
<1>1. OwnLetterIsNew /\ ResolvesAfterSuccess /\ NobodyThrew
  BY DEF Init, OwnLetterIsNew, ResolvesAfterSuccess, NobodyThrew, Executes
<1>2. ClaimsAreManual
  BY DEF Init, ClaimsAreManual, NoClaim
<1>3. CarriedIsClaimed
  BY DEF Init, CarriedIsClaimed, Carries, Carrying
<1>4. RetryingIsInHand
  BY DEF Init, RetryingIsInHand
<1> QED BY <1>1, <1>2, <1>3, <1>4 DEF LettersInv

\* A quiet step has a quiet past, and its store call was answered.
LEMMA QuietStep ==
  ASSUME TypeOK, Next, Quiet'
  PROVE  /\ Quiet
         /\ \A w \in Workers : ~Crash(w)
         /\ \A o \in Outcomes : Ends(o) => o = "ok"
<1>0. /\ faults \in [crash : 0..MaxCrashes, db : 0..MaxDbErrors, lapse : 0..MaxLapses]
      /\ faults.crash \in Nat /\ faults.db \in Nat
  BY BoundsAssumption DEF TypeOK
<1>1. ASSUME NEW o \in Outcomes, Ends(o)
      PROVE  Quiet /\ o = "ok"
  BY <1>0, <1>1 DEF Ends, Quiet
<1>2. ASSUME UNCHANGED faults
      PROVE  Quiet
  BY <1>2 DEF Quiet
<1>3. ASSUME NEW w \in Workers, Crash(w)
      PROVE FALSE
  <2>1. faults'.crash = faults.crash + 1
    BY <1>0, <1>3 DEF Crash
  <2> QED BY <1>0, <2>1 DEF Quiet
<1>4. ASSUME LeaseLapses
      PROVE  Quiet
  <2>1. faults'.crash = faults.crash /\ faults'.db = faults.db
    BY <1>0, <1>4 DEF LeaseLapses
  <2> QED BY <2>1 DEF Quiet
<1>5. ASSUME NEW w \in Workers, NEW o \in Outcomes, Continue(w, o) \/ HeartbeatFails(w, o)
      PROVE  Ends(o)
  BY <1>5 DEF Continue, CheckLatest, AcquireLease, CreateRun, FinalRenewal, CompleteRun,
              ResolveDeadLetters, RecordFailure, ReleaseLease, ReopenDeadLetter, HeartbeatFails
<1>6. ASSUME NEW w \in Workers, NEW d \in RunIds, NEW u \in Users, NEW o \in Outcomes,
             ClaimDeadLetter(w, d, u, o)
      PROVE  Ends(o)
  BY <1>6 DEF ClaimDeadLetter
<1>7. ASSUME NEW w \in Workers, Handler(w) \/ (\E how \in {"SCHEDULED", "STARTUP"} : Tick(w, how))
      PROVE  UNCHANGED faults
  BY <1>7 DEF Handler, HandlerReturns, HandlerThrows, Tick
<1>8. ASSUME OrphanLeaseExpires \/ (\E r \in RunIds : BackoffElapses(r)) \/ RunsExhausted
      PROVE  Quiet
  BY <1>2, <1>8 DEF OrphanLeaseExpires, BackoffElapses, RunsExhausted, vars
<1>9. Quiet
  BY <1>1, <1>2, <1>3, <1>4, <1>5, <1>6, <1>7, <1>8 DEF Next
<1> QED BY <1>1, <1>3, <1>9

-----------------------------------------------------------------------------
(* What a step does to one letter, and to one row.                         *)

LEMMA ResolvedTo ==
  ASSUME letters \in [RunIds -> LetterRow], NEW from \in SUBSET {"OPEN", "RETRYING"},
         NEW d \in RunIds
  PROVE  \/ letters[d].status \in from /\ LettersTo(from, "RESOLVED")[d].status = "RESOLVED"
         \/ letters[d].status \notin from /\ LettersTo(from, "RESOLVED")[d] = letters[d]
  BY DEF LettersTo, LetterRow, LetterStatus

\* A dead-lettering leaves no letter claimed; its own letter, if new, is open.
LEMMA DeadLettering ==
  ASSUME TypeOK, NEW r \in RunIds, StoreDeadLetter(r)
  PROVE  /\ \A d \in RunIds :
              /\ letters'[d].status # "RETRYING"
              /\ d # r => \/ letters'[d] = letters[d]
                          \/ letters[d].status = "RETRYING" /\ letters'[d].status = "RESOLVED"
         /\ letters[r].status = "NONE" => letters'[r].status = "OPEN"
<1> DEFINE resolved == LettersTo({"RETRYING"}, "RESOLVED")
<1>1. letters \in [RunIds -> LetterRow]
  BY TablesType DEF TablesOK
<1>2. /\ resolved \in [RunIds -> LetterRow]
      /\ \A d \in RunIds : \/ letters[d].status = "RETRYING" /\ resolved[d].status = "RESOLVED"
                           \/ letters[d].status # "RETRYING" /\ resolved[d] = letters[d]
  BY <1>1, LettersToEffect, ResolvedTo
<1>3. letters' = IF resolved[r].status = "NONE"
                 THEN [resolved EXCEPT ![r].status = "OPEN"] ELSE resolved
  BY DEF StoreDeadLetter
<1> HIDE DEF resolved
<1>4. ASSUME NEW d \in RunIds
      PROVE  /\ d # r => letters'[d] = resolved[d]
             /\ resolved[r].status = "NONE" => letters'[r].status = "OPEN"
             /\ resolved[r].status # "NONE" => letters'[r] = resolved[r]
  BY <1>2, <1>3 DEF LetterRow
<1>5. ASSUME NEW d \in RunIds
      PROVE  letters'[d].status # "RETRYING"
  BY <1>2, <1>4
<1> QED BY <1>2, <1>4, <1>5

LEMMA LetterStep ==
  ASSUME TypeOK, RunsRecorded, OwnLetterIsNew, Next, NEW d \in RunIds, letters'[d] # letters[d]
  PROVE  \/ \E w \in Workers, u \in Users, o \in Outcomes :
              ClaimDeadLetter(w, d, u, o) /\ o # "error"
         \/ \E w \in Workers, o \in Outcomes :
              ReopenDeadLetter(w, o) /\ claim[w].letter = d
                                     /\ letters[d].status = "RETRYING"
         \/ \E w \in Workers : /\ pc[w] = "resolve" /\ letters'[d].status = "RESOLVED"
                               /\ letters[d].status \in {"OPEN", "RETRYING"}
         \/ \E w \in Workers :
              /\ pc[w] = "fail" /\ StoreDeadLetter(run[w]) /\ run[w] \in RunIds
              /\ pc' = [pc EXCEPT ![w] = "release"] /\ letters'[run[w]].status = "OPEN"
              /\ \/ d = run[w]
                 \/ letters[d].status = "RETRYING" /\ letters'[d].status = "RESOLVED"
<1>0. letters \in [RunIds -> LetterRow]
  BY TablesType DEF TablesOK
<1> DEFINE Goal ==
         \/ \E w \in Workers, u \in Users, o \in Outcomes :
              ClaimDeadLetter(w, d, u, o) /\ o # "error"
         \/ \E w \in Workers, o \in Outcomes :
              ReopenDeadLetter(w, o) /\ claim[w].letter = d
                                     /\ letters[d].status = "RETRYING"
         \/ \E w \in Workers : /\ pc[w] = "resolve" /\ letters'[d].status = "RESOLVED"
                               /\ letters[d].status \in {"OPEN", "RETRYING"}
         \/ \E w \in Workers :
              /\ pc[w] = "fail" /\ StoreDeadLetter(run[w]) /\ run[w] \in RunIds
              /\ pc' = [pc EXCEPT ![w] = "release"] /\ letters'[run[w]].status = "OPEN"
              /\ \/ d = run[w]
                 \/ letters[d].status = "RETRYING" /\ letters'[d].status = "RESOLVED"
<1> HIDE DEF Goal
<1>1. ASSUME NEW w \in Workers, NEW c \in RunIds, NEW u \in Users, NEW o \in Outcomes,
             ClaimDeadLetter(w, c, u, o)
      PROVE  Goal
  <2>1. c = d /\ o # "error"
    BY <1>0, <1>1 DEF ClaimDeadLetter
  <2> QED BY <1>1, <2>1 DEF Goal
<1>2. ASSUME NEW w \in Workers, NEW o \in Outcomes, ReopenDeadLetter(w, o)
      PROVE  Goal
  <2>1. StoreReopen(claim[w])
    BY <1>2 DEF ReopenDeadLetter, table
  <2>2. claim[w].letter = d /\ letters[d].status = "RETRYING"
    BY <1>0, <2>1 DEF StoreReopen
  <2> QED BY <1>2, <2>2 DEF Goal
<1>3. ASSUME NEW w \in Workers, NEW o \in Outcomes, ResolveDeadLetters(w, o)
      PROVE  Goal
  <2>1. pc[w] = "resolve" /\ letters' = LettersTo({"OPEN", "RETRYING"}, "RESOLVED")
    BY <1>3 DEF ResolveDeadLetters, table, StoreResolveDeadLetters
  <2>2. letters[d].status \in {"OPEN", "RETRYING"} /\ letters'[d].status = "RESOLVED"
    BY <1>0, <2>1, ResolvedTo
  <2> QED BY <2>1, <2>2 DEF Goal
<1>4. ASSUME NEW w \in Workers, NEW o \in Outcomes, RecordFailure(w, o)
      PROVE  Goal
  <2>1. /\ pc[w] = "fail" /\ pc' = [pc EXCEPT ![w] = "release"]
        /\ StoreDeadLetter(run[w])
    BY <1>4 DEF RecordFailure, table, StoreScheduleRetry, Goto
  <2>2. run[w] \in RunIds /\ letters[run[w]].status = "NONE"
    BY <2>1 DEF OwnLetterIsNew, RunsRecorded, Executes, TypeOK
  <2>3. /\ letters'[run[w]].status = "OPEN"
        /\ \/ d = run[w]
           \/ letters[d].status = "RETRYING" /\ letters'[d].status = "RESOLVED"
    BY <2>1, <2>2, DeadLettering
  <2> QED BY <2>1, <2>2, <2>3 DEF Goal
<1>5. ASSUME NEW w \in Workers, NEW o \in Outcomes, CreateRun(w, o)
      PROVE  UNCHANGED letters
  <2>1. UNCHANGED table \/ StoreCreateRun(w)
    BY <1>5 DEF CreateRun
  <2> QED BY <2>1, TablesType, CreateRunEffect DEF table
<1>6. ASSUME NEW w \in Workers, NEW o \in Outcomes, NEW noop \in BOOLEAN, CompleteRun(w, noop, o)
      PROVE  UNCHANGED letters
  BY <1>6 DEF CompleteRun, StoreCompleteRun, table
<1>7. ASSUME NEW w \in Workers, NEW o \in Outcomes,
             \/ \E how \in {"SCHEDULED", "STARTUP"} : Tick(w, how)
             \/ CheckLatest(w, o) \/ AcquireLease(w, o) \/ FinalRenewal(w, o)
             \/ ReleaseLease(w, o) \/ HeartbeatFails(w, o) \/ Handler(w) \/ Crash(w)
      PROVE  UNCHANGED letters
  BY <1>7 DEF Tick, CheckLatest, AcquireLease, FinalRenewal, ReleaseLease, HeartbeatFails,
              Handler, HandlerReturns, HandlerThrows, Crash, table
<1>8. ASSUME LeaseLapses \/ OrphanLeaseExpires \/ RunsExhausted \/ (\E r \in RunIds : BackoffElapses(r))
      PROVE  UNCHANGED letters
  BY <1>8 DEF LeaseLapses, OrphanLeaseExpires, RunsExhausted, BackoffElapses, vars, table
<1>9. \E o \in Outcomes : TRUE
  BY DEF Outcomes
<1>10. ~UNCHANGED letters
  OBVIOUS
<1>11. ASSUME NEW w \in Workers, NEW o \in Outcomes, Continue(w, o)
       PROVE  Goal
  BY <1>2, <1>3, <1>4, <1>5, <1>6, <1>7, <1>10, <1>11 DEF Continue
<1>12. Goal
  BY <1>1, <1>7, <1>8, <1>9, <1>10, <1>11 DEF Next
<1> QED BY <1>12 DEF Goal

-----------------------------------------------------------------------------
(* The parts that need no quiet.                                           *)

LEMMA OwnLetterIsNewStep ==
  ASSUME TypeOK, RunsRecorded, OwnLetterIsNew, Next
  PROVE  OwnLetterIsNew'
<1> SUFFICES ASSUME NEW v \in Workers, pc'[v] \in Executes
             PROVE  letters'[run'[v]].status = "NONE"
  BY DEF OwnLetterIsNew
<1>1. CASE KeepsRun(v)
  <2>1. pc[v] \in Executes /\ run'[v] = run[v]
    BY <1>1 DEF KeepsRun, Executes
  <2>2. run[v] \in RunIds /\ run[v] # NoRun /\ letters[run[v]].status = "NONE"
    BY <2>1 DEF OwnLetterIsNew, RunsRecorded, TypeOK
  <2>3. ASSUME letters'[run[v]] # letters[run[v]] PROVE FALSE
    <3>1. \E w \in Workers : /\ run[w] = run[v]
                             /\ pc' = [pc EXCEPT ![w] = "release"]
      BY <2>2, <2>3, LetterStep DEF ClaimDeadLetter
    <3>2. pc'[v] = "release"
      BY <2>2, <3>1 DEF RunsRecorded, TypeOK
    <3> QED BY <3>2 DEF Executes
  <2> QED BY <2>1, <2>2, <2>3
<1>2. ASSUME NEW w \in Workers, CreateRun(w, "ok")
      PROVE  letters'[run'[v]].status = "NONE"
  <2>1. letters' = letters /\ StoreCreateRun(w)
    <3>1. StoreCreateRun(w)
      BY <1>2 DEF CreateRun
    <3> QED BY <3>1, TablesType, CreateRunEffect
  <2>2. CASE v = w
    <3>1. run'[v] = created' /\ created' \in RunIds /\ created' > created
      BY <1>2, <2>2, RecordedRun, BoundsAssumption DEF TypeOK
    <3> QED BY <2>1, <3>1 DEF RunsRecorded
  <2>3. CASE v # w
    <3>1. pc[v] \in Executes /\ run'[v] = run[v]
      BY <1>2, <2>3, RecordedRun DEF TypeOK
    <3> QED BY <2>1, <3>1 DEF OwnLetterIsNew
  <2> QED BY <2>2, <2>3
<1> QED BY <1>1, <1>2, RunSteps

\* An invocation comes to close letters by completing its run.
LEMMA ReachesResolve ==
  ASSUME TypeOK, Next, NEW v \in Workers, pc'[v] = "resolve"
  PROVE  \/ pc[v] = "resolve" /\ run'[v] = run[v]
         \/ \E noop \in BOOLEAN : CompleteRun(v, noop, "ok") /\ run'[v] = run[v]
<1> DEFINE Goal == \/ pc[v] = "resolve" /\ run'[v] = run[v]
                   \/ \E noop \in BOOLEAN : CompleteRun(v, noop, "ok") /\ run'[v] = run[v]
<1> USE DEF TypeOK, Goto
<1>1. ASSUME UNCHANGED <<pc, run>>
      PROVE  Goal
  BY <1>1
<1>2. ASSUME NEW w \in Workers, NEW how, NEW c, Enter(w, how, c)
      PROVE  Goal
  BY <1>2 DEF Enter
<1>3. ASSUME NEW w \in Workers, NEW o \in Outcomes,
             \/ CheckLatest(w, o) \/ AcquireLease(w, o) \/ ReleaseLease(w, o)
             \/ ReopenDeadLetter(w, o) \/ Crash(w)
      PROVE  Goal
  <2>1. UNCHANGED run /\ \E place \in PCs \ {"resolve"} : Goto(w, place)
    BY <1>3 DEF CheckLatest, AcquireLease, ReleaseLease, ReopenDeadLetter, Crash, locals,
                Undispatched, PCs
  <2> QED BY <2>1
<1>4. ASSUME NEW w \in Workers, NEW o \in Outcomes, CreateRun(w, o)
      PROVE  Goal
  BY <1>4 DEF CreateRun
<1>5. ASSUME NEW w \in Workers, NEW o \in Outcomes,
             \/ FinalRenewal(w, o) \/ Handler(w) \/ ResolveDeadLetters(w, o) \/ RecordFailure(w, o)
      PROVE  Goal
  BY <1>5 DEF FinalRenewal, Handler, HandlerReturns, HandlerThrows, ResolveDeadLetters,
              RecordFailure, locals
<1>6. ASSUME NEW w \in Workers, NEW o \in Outcomes, NEW noop \in BOOLEAN, CompleteRun(w, noop, o)
      PROVE  Goal
  <2>1. run' = run
    BY <1>6 DEF CompleteRun, locals
  <2>2. CASE v = w
    <3>1. o = "ok"
      BY <1>6, <2>2 DEF CompleteRun
    <3> QED BY <1>6, <2>1, <2>2, <3>1
  <2>3. CASE v # w
    BY <1>6, <2>1, <2>3 DEF CompleteRun
  <2> QED BY <2>2, <2>3
<1>7. ASSUME NEW w \in Workers, NEW how \in {"SCHEDULED", "STARTUP"}, Tick(w, how)
      PROVE  Goal
  BY <1>2, <1>7 DEF Tick
<1>8. ASSUME NEW w \in Workers, NEW d \in RunIds, NEW u \in Users, NEW o \in Outcomes,
             ClaimDeadLetter(w, d, u, o)
      PROVE  Goal
  BY <1>1, <1>2, <1>8 DEF ClaimDeadLetter, locals
<1>9. ASSUME NEW w \in Workers, NEW o \in Outcomes, HeartbeatFails(w, o)
      PROVE  UNCHANGED <<pc, run>>
  BY <1>9 DEF HeartbeatFails
<1>10. ASSUME LeaseLapses \/ OrphanLeaseExpires \/ (\E r \in RunIds : BackoffElapses(r)) \/ RunsExhausted
       PROVE  UNCHANGED <<pc, run>>
  BY <1>10 DEF LeaseLapses, OrphanLeaseExpires, BackoffElapses, RunsExhausted, locals, vars
<1>11. \E o \in Outcomes : TRUE
  BY DEF Outcomes
<1> HIDE DEF TypeOK, Goto, Goal
<1>12. Goal
  BY <1>1, <1>3, <1>4, <1>5, <1>6, <1>7, <1>8, <1>9, <1>10, <1>11 DEF Next, Continue
<1> QED BY <1>12 DEF Goal

LEMMA ResolvesAfterSuccessStep ==
  ASSUME TypeOK, RunsRecorded, HandlerOwnsItsRun, ResolvesAfterSuccess, Next
  PROVE  ResolvesAfterSuccess'
<1> SUFFICES ASSUME faults'.lapse = 0, NEW v \in Workers, pc'[v] = "resolve"
             PROVE  runs'[run'[v]].status \in {"COMPLETED", "NONE"}
  BY DEF ResolvesAfterSuccess
<1>1. faults.lapse = 0
  BY FaultsStep
<1>2. CASE pc[v] = "resolve" /\ run'[v] = run[v]
  <2>1. run[v] \in RunIds /\ run[v] <= created
    BY <1>2 DEF RunsRecorded, Executes, TypeOK
  <2>2. runs[run[v]].status \in {"COMPLETED", "NONE"}
    BY <1>1, <1>2 DEF ResolvesAfterSuccess
  <2>3. ASSUME runs[run[v]].status = "NONE" PROVE runs'[run[v]].status = "NONE"
    <3>1. CASE KeepsLedger
      BY <2>1, <2>3, <3>1 DEF KeepsLedger
    <3>2. ASSUME NEW w \in Workers, StoreCreateRun(w)
          PROVE  runs'[run[v]].status = "NONE"
      <4>1. run[v] # created'
        <5>1. created' = created + 1
          BY <3>2, TablesType, CreateRunEffect
        <5>2. created \in Nat /\ run[v] \in Nat
          BY <2>1, BoundsAssumption DEF TypeOK, RunIds
        <5> QED BY <2>1, <5>1, <5>2
      <4> QED BY <2>1, <2>3, <3>2, <4>1, TablesType, CreateRunEffect
    <3>3. ASSUME NEW w \in Workers, NEW verdict \in RunStatus, Closes(w, verdict)
          PROVE  runs'[run[v]].status = "NONE"
      BY <2>1, <2>3, <3>3, VerdictEffect
    <3> QED BY <3>1, <3>2, <3>3, LedgerSteps
  <2>4. runs[run[v]].status = "COMPLETED" => runs'[run[v]].status = "COMPLETED"
    BY <2>1, VerdictIsFinalStep DEF Verdicts, RunStatus
  <2> QED BY <1>2, <2>2, <2>3, <2>4
<1>3. ASSUME NEW noop \in BOOLEAN, CompleteRun(v, noop, "ok"), run'[v] = run[v]
      PROVE  runs'[run'[v]].status \in {"COMPLETED", "NONE"}
  <2>1. pc[v] = "complete" /\ StoreCompleteRun(run[v], trigger[v], noop)
    BY <1>3 DEF CompleteRun
  <2>2. run[v] \in RunIds /\ runs[run[v]].status = "RUNNING"
    BY <1>1, <2>1 DEF HandlerOwnsItsRun, RunsRecorded, Executes, TypeOK
  <2>3. PICK verdict \in {"COMPLETED", "NONE"} : SetVerdict(run[v], verdict, FALSE)
    BY <2>1 DEF StoreCompleteRun
  <2>4. runs'[run[v]].status = verdict
    BY <2>2, <2>3, TablesType, SetVerdictEffect DEF TablesOK, RunStatus
  <2> QED BY <1>3, <2>4
<1> QED BY <1>2, <1>3, ReachesResolve

LEMMA ClaimsAreManualStep ==
  ASSUME TypeOK, ClaimsAreManual, Next
  PROVE  ClaimsAreManual'
<1> USE DEF TypeOK, ClaimsAreManual
<1>1. ASSUME UNCHANGED <<trigger, claim>>
      PROVE  ClaimsAreManual'
  BY <1>1
<1>2. ASSUME NEW w \in Workers, NEW how \in {"SCHEDULED", "STARTUP"}, Tick(w, how)
      PROVE  ClaimsAreManual'
  BY <1>2 DEF Tick, Enter, NoClaim
<1>3. ASSUME NEW w \in Workers, NEW d \in RunIds, NEW u \in Users, NEW o \in Outcomes,
             ClaimDeadLetter(w, d, u, o)
      PROVE  ClaimsAreManual'
  <2>1. CASE UNCHANGED <<pc, locals>>
    BY <1>1, <2>1 DEF locals
  <2>2. CASE Enter(w, "MANUAL", [letter |-> d, by |-> u])
    BY <2>2 DEF Enter
  <2> QED BY <1>3, <2>1, <2>2 DEF ClaimDeadLetter
<1> HIDE DEF TypeOK, ClaimsAreManual
<1>4. ASSUME NEW w \in Workers, NEW o \in Outcomes,
             Continue(w, o) \/ HeartbeatFails(w, o) \/ Handler(w) \/ Crash(w)
      PROVE  UNCHANGED <<trigger, claim>>
  BY <1>4 DEF Continue, CheckLatest, AcquireLease, CreateRun, FinalRenewal, CompleteRun,
              ResolveDeadLetters, RecordFailure, ReleaseLease, ReopenDeadLetter, HeartbeatFails,
              Handler, HandlerReturns, HandlerThrows, Crash, locals
<1>5. ASSUME LeaseLapses \/ OrphanLeaseExpires \/ (\E r \in RunIds : BackoffElapses(r)) \/ RunsExhausted
      PROVE  UNCHANGED <<trigger, claim>>
  BY <1>5 DEF LeaseLapses, OrphanLeaseExpires, BackoffElapses, RunsExhausted, locals, vars
<1>6. \E o \in Outcomes : TRUE
  BY DEF Outcomes
<1> QED BY <1>1, <1>2, <1>3, <1>4, <1>5, <1>6 DEF Next

LEMMA NobodyThrewStep ==
  ASSUME TypeOK, NobodyThrew, Next
  PROVE  NobodyThrew'
<1> SUFFICES ASSUME Quiet', NEW v \in Workers PROVE threw'[v] = FALSE
  BY DEF NobodyThrew
<1>1. threw \in [Workers -> BOOLEAN] /\ threw[v] = FALSE
  BY QuietStep DEF NobodyThrew, TypeOK
<1> DEFINE Goal == threw'[v] = FALSE
<1>2. ASSUME UNCHANGED threw
      PROVE  Goal
  BY <1>1, <1>2
<1>3. ASSUME NEW w \in Workers, NEW how, NEW c, Enter(w, how, c)
      PROVE  Goal
  BY <1>1, <1>3 DEF Enter
<1>4. ASSUME NEW w \in Workers, NEW o \in Outcomes, CreateRun(w, o) \/ RecordFailure(w, o)
      PROVE  Goal
  <2>1. o = "ok"
    BY <1>4, QuietStep DEF CreateRun, RecordFailure
  <2> QED BY <1>1, <1>4, <2>1 DEF CreateRun, RecordFailure
<1>5. ASSUME NEW w \in Workers, NEW o \in Outcomes,
             \/ CheckLatest(w, o) \/ AcquireLease(w, o) \/ FinalRenewal(w, o)
             \/ \E noop \in BOOLEAN : CompleteRun(w, noop, o)
             \/ ResolveDeadLetters(w, o) \/ ReleaseLease(w, o) \/ ReopenDeadLetter(w, o)
             \/ HeartbeatFails(w, o) \/ Handler(w) \/ Crash(w)
      PROVE  UNCHANGED threw
  BY <1>5 DEF CheckLatest, AcquireLease, FinalRenewal, CompleteRun, ResolveDeadLetters,
              ReleaseLease, ReopenDeadLetter, HeartbeatFails, Handler, HandlerReturns,
              HandlerThrows, Crash, locals
<1>6. ASSUME NEW w \in Workers, NEW how \in {"SCHEDULED", "STARTUP"}, Tick(w, how)
      PROVE  Goal
  BY <1>3, <1>6 DEF Tick
<1>7. ASSUME NEW w \in Workers, NEW d \in RunIds, NEW u \in Users, NEW o \in Outcomes,
             ClaimDeadLetter(w, d, u, o)
      PROVE  Goal
  BY <1>2, <1>3, <1>7 DEF ClaimDeadLetter, locals
<1>8. ASSUME LeaseLapses \/ OrphanLeaseExpires \/ (\E r \in RunIds : BackoffElapses(r)) \/ RunsExhausted
      PROVE  UNCHANGED threw
  BY <1>8 DEF LeaseLapses, OrphanLeaseExpires, BackoffElapses, RunsExhausted, locals, vars
<1>9. \E o \in Outcomes : TRUE
  BY DEF Outcomes
<1> HIDE DEF Goal
<1>10. Goal
  BY <1>2, <1>4, <1>5, <1>6, <1>7, <1>8, <1>9 DEF Next, Continue
<1> QED BY <1>10 DEF Goal

-----------------------------------------------------------------------------
(* Nobody dies and no call fails: who carries a claimed letter.            *)

\* An invocation comes to carry a letter only by claiming it; it carries it
\* on, reopens it, or records the run that covers it.
LEMMA CarrySteps ==
  ASSUME TypeOK, NobodyThrew, Next, Quiet', NEW v \in Workers, NEW d \in RunIds, Carries(v, d)'
  PROVE  \/ Carries(v, d) /\ claim'[v] = claim[v] /\ ~ \E o \in Outcomes : ReopenDeadLetter(v, o)
         \/ \E u \in Users : /\ ClaimDeadLetter(v, d, u, "ok")
                             /\ claim'[v] = [letter |-> d, by |-> u]
<1> DEFINE Goal ==
         \/ Carries(v, d) /\ claim'[v] = claim[v] /\ ~ \E o \in Outcomes : ReopenDeadLetter(v, o)
         \/ \E u \in Users : /\ ClaimDeadLetter(v, d, u, "ok")
                             /\ claim'[v] = [letter |-> d, by |-> u]
<1>0. /\ pc \in [Workers -> PCs] /\ claim \in [Workers -> [letter : RunIds \cup {NoRun}, by : Users \cup {Nobody}]]
      /\ d # NoRun
  BY DEF TypeOK, RunIds, NoRun
<1>1. pc'[v] \in Carrying /\ claim'[v].letter = d
  BY DEF Carries
<1>2. \A o \in Outcomes : ~ReopenDeadLetter(v, o)
  BY <1>0, <1>1 DEF ReopenDeadLetter, Goto, Carrying
<1>3. ASSUME pc'[v] = pc[v] \/ pc[v] \in Carrying, claim'[v] = claim[v]
      PROVE  Goal
  BY <1>1, <1>2, <1>3 DEF Carries
<1>4. ASSUME NEW w \in Workers, NEW how \in {"SCHEDULED", "STARTUP"}, Tick(w, how)
      PROVE  Goal
  <2>1. CASE v = w
    BY <1>0, <1>1, <1>4, <2>1 DEF Tick, Enter, NoClaim
  <2>2. CASE v # w
    BY <1>0, <1>3, <1>4, <2>2 DEF Tick, Enter, Goto
  <2> QED BY <2>1, <2>2
<1>5. ASSUME NEW w \in Workers, NEW c \in RunIds, NEW u \in Users, NEW o \in Outcomes,
             ClaimDeadLetter(w, c, u, o)
      PROVE  Goal
  <2>1. o = "ok"
    BY <1>5, QuietStep DEF ClaimDeadLetter
  <2>2. Enter(w, "MANUAL", [letter |-> c, by |-> u])
    BY <1>5, <2>1 DEF ClaimDeadLetter
  <2>3. CASE v = w
    <3>1. claim'[v] = [letter |-> c, by |-> u]
      BY <1>0, <2>2, <2>3 DEF Enter
    <3> QED BY <1>1, <1>5, <2>1, <2>3, <3>1
  <2>4. CASE v # w
    BY <1>0, <1>3, <2>2, <2>4 DEF Enter, Goto
  <2> QED BY <2>3, <2>4
<1>6. ASSUME NEW w \in Workers, NEW o \in Outcomes, Continue(w, o) \/ HeartbeatFails(w, o) \/ Handler(w)
      PROVE  Goal
  <2>1. claim' = claim
    BY <1>6 DEF Continue, CheckLatest, AcquireLease, CreateRun, FinalRenewal, CompleteRun,
                ResolveDeadLetters, RecordFailure, ReleaseLease, ReopenDeadLetter, HeartbeatFails,
                Handler, HandlerReturns, HandlerThrows, locals
  <2>2. pc'[v] = pc[v] \/ pc[v] \in Carrying
    <3>1. threw[w] = FALSE
      BY QuietStep DEF NobodyThrew
    <3>2. CASE CheckLatest(w, o) \/ AcquireLease(w, o)
      BY <1>0, <3>2 DEF CheckLatest, AcquireLease, Goto, Carrying
    <3>3. CASE CreateRun(w, o) \/ FinalRenewal(w, o) \/ (\E noop \in BOOLEAN : CompleteRun(w, noop, o))
      BY <1>0, <1>1, <3>3 DEF CreateRun, FinalRenewal, CompleteRun, Goto, Carrying
    <3>4. CASE ResolveDeadLetters(w, o) \/ RecordFailure(w, o) \/ ReopenDeadLetter(w, o)
      BY <1>0, <1>1, <3>4 DEF ResolveDeadLetters, RecordFailure, ReopenDeadLetter, Goto, Carrying
    <3>5. CASE ReleaseLease(w, o)
      BY <1>0, <1>1, <3>1, <3>5 DEF ReleaseLease, Goto, Carrying
    <3>6. CASE HeartbeatFails(w, o) \/ Handler(w)
      BY <1>0, <1>1, <3>6 DEF HeartbeatFails, Handler, HandlerReturns, HandlerThrows, Goto, Carrying
    <3> QED BY <1>6, <3>2, <3>3, <3>4, <3>5, <3>6 DEF Continue
  <2> QED BY <1>3, <2>1, <2>2
<1>7. ASSUME LeaseLapses \/ OrphanLeaseExpires \/ (\E r \in RunIds : BackoffElapses(r)) \/ RunsExhausted
      PROVE  Goal
  <2>1. pc' = pc /\ claim' = claim
    BY <1>7 DEF LeaseLapses, OrphanLeaseExpires, BackoffElapses, RunsExhausted, locals, vars
  <2> QED BY <1>3, <2>1
<1>8. \A w \in Workers : ~Crash(w)
  BY QuietStep
<1>9. \E o \in Outcomes : TRUE
  BY DEF Outcomes
<1> HIDE DEF Goal
<1>10. Goal
  BY <1>4, <1>5, <1>6, <1>7, <1>8, <1>9 DEF Next
<1> QED BY <1>10 DEF Goal

\* Claiming takes an open letter.
LEMMA Claiming ==
  ASSUME TypeOK, NEW w \in Workers, NEW d \in RunIds, NEW u \in Users, NEW o \in Outcomes,
         ClaimDeadLetter(w, d, u, o), o # "error"
  PROVE  /\ letters[d].status = "OPEN"
         /\ letters'[d].status = "RETRYING" /\ letters'[d].by = u
BY TablesType DEF ClaimDeadLetter, TablesOK, LetterRow

\* An invocation gives back the letter it carries only.
LEMMA Reopening ==
  ASSUME TypeOK, NEW w \in Workers, NEW o \in Outcomes, ReopenDeadLetter(w, o),
         NEW d \in RunIds, claim[w].letter = d
  PROVE  /\ Carries(w, d) /\ pc' = [pc EXCEPT ![w] = "idle"]
         /\ o # "error" /\ letters[d].status = "RETRYING" /\ letters[d].by = claim[w].by
            => letters'[d].status = "OPEN"
<1>1. Carries(w, d) /\ pc' = [pc EXCEPT ![w] = "idle"]
  BY DEF ReopenDeadLetter, Carries, Carrying, Goto
<1>2. ASSUME o # "error", letters[d].status = "RETRYING", letters[d].by = claim[w].by
      PROVE  letters'[d].status = "OPEN"
  <2>1. letters \in [RunIds -> LetterRow]
    BY TablesType DEF TablesOK
  <2>2. letters[d] = [status |-> "RETRYING", by |-> claim[w].by]
    BY <1>2, <2>1 DEF LetterRow
  <2>3. letters' = [letters EXCEPT ![d] = [status |-> "OPEN", by |-> Nobody]]
    BY <1>2, <2>2 DEF ReopenDeadLetter, StoreReopen
  <2> QED BY <2>1, <2>3
<1> QED BY <1>1, <1>2

LEMMA CarriedIsClaimedStep ==
  ASSUME TypeOK, RunsRecorded, OwnLetterIsNew, NobodyThrew, CarriedIsClaimed, Next
  PROVE  CarriedIsClaimed'
<1> SUFFICES ASSUME Quiet', NEW w \in Workers, NEW d \in RunIds, Carries(w, d)'
             PROVE  /\ \/ letters'[d].status = "RETRYING" /\ letters'[d].by = claim'[w].by
                       \/ letters'[d].status = "RESOLVED"
                    /\ \A v \in Workers : Carries(v, d)' => v = w
  BY DEF CarriedIsClaimed
<1>0. Quiet
  BY QuietStep
<1>1. ASSUME NEW x \in Workers, Carries(x, d)
      PROVE  /\ \/ letters[d].status = "RETRYING" /\ letters[d].by = claim[x].by
                \/ letters[d].status = "RESOLVED"
             /\ \A v \in Workers : Carries(v, d) => v = x
  BY <1>0, <1>1 DEF CarriedIsClaimed
<1>2. CASE Carries(w, d) /\ claim'[w] = claim[w] /\ ~ \E o \in Outcomes : ReopenDeadLetter(w, o)
  <2>1. ASSUME NEW v \in Workers, NEW u \in Users, NEW o \in Outcomes,
               ClaimDeadLetter(v, d, u, o), o # "error"
        PROVE  FALSE
    BY <1>1, <1>2, <2>1, Claiming
  <2>2. ASSUME NEW v \in Workers, Carries(v, d)' PROVE v = w
    BY <1>1, <1>2, <2>1, <2>2, CarrySteps DEF Outcomes
  <2>3. ASSUME NEW v \in Workers, NEW o \in Outcomes, ReopenDeadLetter(v, o), claim[v].letter = d
        PROVE  FALSE
    BY <1>1, <1>2, <2>3, Reopening
  <2>4. \/ letters'[d] = letters[d] \/ letters'[d].status = "RESOLVED"
    BY <1>1, <1>2, <2>1, <2>3, LetterStep DEF OwnLetterIsNew, Executes
  <2> QED BY <1>1, <1>2, <2>2, <2>4
<1>3. ASSUME NEW u \in Users, ClaimDeadLetter(w, d, u, "ok"), claim'[w] = [letter |-> d, by |-> u]
      PROVE  /\ \/ letters'[d].status = "RETRYING" /\ letters'[d].by = claim'[w].by
                \/ letters'[d].status = "RESOLVED"
             /\ \A v \in Workers : Carries(v, d)' => v = w
  <2>1. letters[d].status = "OPEN" /\ letters'[d].status = "RETRYING" /\ letters'[d].by = u
    BY <1>3, Claiming DEF Outcomes
  <2>2. ASSUME NEW v \in Workers, Carries(v, d)' PROVE v = w
    <3>1. ~Carries(v, d)
      BY <1>1, <2>1
    <3>2. PICK t \in Users : ClaimDeadLetter(v, d, t, "ok")
      BY <2>2, <3>1, CarrySteps
    <3> QED BY <1>3, <3>2 DEF ClaimDeadLetter, Enter, Goto, TypeOK
  <2> QED BY <1>3, <2>1, <2>2
<1> QED BY <1>2, <1>3, CarrySteps

-----------------------------------------------------------------------------
(* A claimed letter is carried, or covered by a run an operator started.   *)

\* What happens to one row.
LEMMA RowStep ==
  ASSUME TypeOK, RunsRecorded, Next, NEW s \in RunIds, runs'[s].status # runs[s].status
  PROVE  \/ runs'[s].status \in {"RUNNING", "FAILED", "COMPLETED", "RETRY"}
         \/ runs'[s].status = "NONE" /\ \E w \in Workers : run[w] = s /\ trigger[w] = "SCHEDULED"
         \/ \E w \in Workers : StoreDeadLetter(run[w]) /\ run[w] \in RunIds
<1> DEFINE Goal ==
         \/ runs'[s].status \in {"RUNNING", "FAILED", "COMPLETED", "RETRY"}
         \/ runs'[s].status = "NONE" /\ \E w \in Workers : run[w] = s /\ trigger[w] = "SCHEDULED"
         \/ \E w \in Workers : StoreDeadLetter(run[w]) /\ run[w] \in RunIds
<1>0. runs \in [RunIds -> RunRow]
  BY TablesType DEF TablesOK
<1> HIDE DEF Goal
<1>1. ASSUME NEW w \in Workers, NEW o \in Outcomes, CreateRun(w, o)
      PROVE  Goal
  <2>1. StoreCreateRun(w)
    BY <1>1 DEF CreateRun, table
  <2>2. runs'[s].status \in {"RUNNING", "FAILED"}
    BY <2>1, TablesType, CreateRunEffect
  <2> QED BY <2>2 DEF Goal
<1>2. ASSUME NEW w \in Workers, NEW o \in Outcomes, NEW noop \in BOOLEAN, CompleteRun(w, noop, o)
      PROVE  Goal
  <2>1. StoreCompleteRun(run[w], trigger[w], noop) /\ run[w] \in RunIds
    BY <1>2 DEF CompleteRun, table, RunsRecorded, Executes, TypeOK
  <2> DEFINE v == IF trigger[w] = "SCHEDULED" /\ noop THEN "NONE" ELSE "COMPLETED"
  <2>2. SetVerdict(run[w], v, FALSE) /\ v \in RunStatus
    BY <2>1 DEF StoreCompleteRun, RunStatus
  <2>3. s = run[w] /\ runs'[s].status = v
    <3> HIDE DEF v
    <3> QED BY <1>0, <2>1, <2>2, SetVerdictEffect
  <2> QED BY <2>3 DEF Goal
<1>3. ASSUME NEW w \in Workers, NEW o \in Outcomes, RecordFailure(w, o)
      PROVE  Goal
  <2>0. run[w] \in RunIds
    BY <1>3 DEF RecordFailure, RunsRecorded, Executes, TypeOK
  <2>1. CASE StoreScheduleRetry(run[w])
    <3>1. runs'[s].status = "RETRY"
      BY <1>0, <2>0, <2>1, SetVerdictEffect DEF StoreScheduleRetry, RunStatus
    <3> QED BY <3>1 DEF Goal
  <2>2. CASE StoreDeadLetter(run[w])
    BY <2>0, <2>2 DEF Goal
  <2> QED BY <1>3, <2>1, <2>2 DEF RecordFailure, table
<1>4. ASSUME NEW r \in RunIds, BackoffElapses(r)
      PROVE  FALSE
  BY <1>0, <1>4 DEF BackoffElapses, RunRow
<1>5. ASSUME NEW w \in Workers, NEW o \in Outcomes,
             \/ \E how \in {"SCHEDULED", "STARTUP"} : Tick(w, how)
             \/ \E d \in RunIds, u \in Users : ClaimDeadLetter(w, d, u, o)
             \/ CheckLatest(w, o) \/ AcquireLease(w, o) \/ FinalRenewal(w, o)
             \/ ResolveDeadLetters(w, o) \/ ReopenDeadLetter(w, o)
             \/ ReleaseLease(w, o) \/ HeartbeatFails(w, o) \/ Handler(w) \/ Crash(w)
      PROVE  UNCHANGED runs
  BY <1>5 DEF Tick, ClaimDeadLetter, CheckLatest, AcquireLease, FinalRenewal, ReleaseLease,
              HeartbeatFails, ResolveDeadLetters, StoreResolveDeadLetters, ReopenDeadLetter,
              StoreReopen, Handler, HandlerReturns, HandlerThrows, Crash, table
<1>6. ASSUME LeaseLapses \/ OrphanLeaseExpires \/ RunsExhausted
      PROVE  UNCHANGED runs
  BY <1>6 DEF LeaseLapses, OrphanLeaseExpires, RunsExhausted, vars, table
<1>7. ~UNCHANGED runs
  OBVIOUS
<1>8. \E o \in Outcomes : TRUE
  BY DEF Outcomes
<1>9. ASSUME NEW w \in Workers, NEW o \in Outcomes, Continue(w, o)
      PROVE  Goal
  BY <1>1, <1>2, <1>3, <1>5, <1>7, <1>9 DEF Continue
<1>10. Goal
  BY <1>4, <1>5, <1>6, <1>7, <1>8, <1>9 DEF Next
<1> QED BY <1>10 DEF Goal

\* The run an invocation records is the newest; it keeps it and its trigger
\* until it enters runJob again.
LEMMA TriggerStep ==
  ASSUME TypeOK, Next, NEW v \in Workers, run'[v] # NoRun
  PROVE  \/ run'[v] = run[v] /\ trigger'[v] = trigger[v]
         \/ CreateRun(v, "ok") /\ run'[v] = created'
<1> DEFINE Goal == \/ run'[v] = run[v] /\ trigger'[v] = trigger[v]
                   \/ CreateRun(v, "ok") /\ run'[v] = created'
<1>1. ASSUME UNCHANGED <<run, trigger>>
      PROVE  Goal
  BY <1>1
<1>2. ASSUME NEW w \in Workers, NEW how, NEW c, Enter(w, how, c)
      PROVE  Goal
  BY <1>2 DEF Enter, TypeOK
<1>3. ASSUME NEW w \in Workers, NEW o \in Outcomes, CreateRun(w, o)
      PROVE  Goal
  <2>1. CASE o = "ok"
    BY <1>3, <2>1, RecordedRun DEF CreateRun, TypeOK
  <2>2. CASE o # "ok"
    BY <1>3, <2>2 DEF CreateRun
  <2> QED BY <2>1, <2>2
<1>4. ASSUME NEW w \in Workers, NEW o \in Outcomes,
             \/ CheckLatest(w, o) \/ AcquireLease(w, o) \/ FinalRenewal(w, o)
             \/ \E noop \in BOOLEAN : CompleteRun(w, noop, o)
             \/ ResolveDeadLetters(w, o) \/ ReleaseLease(w, o) \/ ReopenDeadLetter(w, o)
             \/ RecordFailure(w, o) \/ HeartbeatFails(w, o) \/ Handler(w) \/ Crash(w)
      PROVE  UNCHANGED <<run, trigger>>
  BY <1>4 DEF CheckLatest, AcquireLease, FinalRenewal, CompleteRun, ResolveDeadLetters,
              ReleaseLease, ReopenDeadLetter, RecordFailure, HeartbeatFails, Handler,
              HandlerReturns, HandlerThrows, Crash, locals
<1>5. ASSUME NEW w \in Workers, NEW how \in {"SCHEDULED", "STARTUP"}, Tick(w, how)
      PROVE  Goal
  BY <1>2, <1>5 DEF Tick
<1>6. ASSUME NEW w \in Workers, NEW d \in RunIds, NEW u \in Users, NEW o \in Outcomes,
             ClaimDeadLetter(w, d, u, o)
      PROVE  Goal
  BY <1>1, <1>2, <1>6 DEF ClaimDeadLetter, locals
<1>7. ASSUME LeaseLapses \/ OrphanLeaseExpires \/ (\E r \in RunIds : BackoffElapses(r)) \/ RunsExhausted
      PROVE  UNCHANGED <<run, trigger>>
  BY <1>7 DEF LeaseLapses, OrphanLeaseExpires, BackoffElapses, RunsExhausted, locals, vars
<1>8. \E o \in Outcomes : TRUE
  BY DEF Outcomes
<1> HIDE DEF Goal
<1>9. Goal
  BY <1>1, <1>3, <1>4, <1>5, <1>6, <1>7, <1>8 DEF Next, Continue
<1> QED BY <1>9 DEF Goal

\* Only a dead-lettering uncovers.
LEMMA CoversStep ==
  ASSUME TypeOK, RunsRecorded, Next, NEW r \in RunIds, Covers(r),
         ~ \E w \in Workers : StoreDeadLetter(run[w]) /\ run[w] \in RunIds
  PROVE  Covers(r)'
<1>1. runs'[r].status # "NONE"
  BY RowStep DEF Covers
<1>2. \A s \in RunIds : s >= r => runs'[s].status # "DEAD_LETTER"
  BY RowStep DEF Covers
<1>3. ASSUME NEW v \in Workers, run'[v] = r
      PROVE  trigger'[v] = "MANUAL"
  <2>1. r \in Nat /\ created \in Nat /\ r <= created /\ r # NoRun
    BY BoundsAssumption DEF Covers, RunsRecorded, TypeOK, RunIds, NoRun
  <2>2. CASE run'[v] = run[v] /\ trigger'[v] = trigger[v]
    BY <1>3, <2>2 DEF Covers
  <2>3. CASE CreateRun(v, "ok") /\ run'[v] = created'
    <3>1. created' = created + 1
      BY <2>3, RecordedRun
    <3> QED BY <1>3, <2>1, <2>3, <3>1
  <2> QED BY <1>3, <2>1, <2>2, <2>3, TriggerStep
<1> QED BY <1>1, <1>2, <1>3 DEF Covers

\* The run of an operator covers from the start.
LEMMA ManualRunCovers ==
  ASSUME TypeOK, RunsRecorded, NEW w \in Workers, CreateRun(w, "ok"), trigger[w] = "MANUAL"
  PROVE  \E r \in RunIds : Covers(r)'
<1>1. /\ created' = created + 1 /\ created' \in RunIds /\ created \in Nat
      /\ runs'[created'].status = "RUNNING"
      /\ run' = [run EXCEPT ![w] = created']
      /\ trigger' = trigger
  BY RecordedRun, BoundsAssumption DEF CreateRun, TypeOK
<1>2. ASSUME NEW v \in Workers, run'[v] = created'
      PROVE  trigger'[v] = "MANUAL"
  <2>1. run[v] # created'
    <3>1. run[v] <= created /\ run[v] \in Nat
      BY DEF RunsRecorded, TypeOK, RunIds, NoRun
    <3> QED BY <1>1, <3>1
  <2> QED BY <1>1, <1>2, <2>1 DEF TypeOK
<1>3. ASSUME NEW s \in RunIds, s >= created'
      PROVE  runs'[s].status # "DEAD_LETTER"
  <2>1. CASE s = created'
    BY <1>1, <2>1
  <2>2. CASE s # created'
    <3>1. s > created /\ runs[s].status = "NONE"
      BY <1>1, <1>3, <2>2 DEF RunsRecorded, RunIds
    <3>2. StoreCreateRun(w)
      BY DEF CreateRun
    <3> QED BY <2>2, <3>1, <3>2, TablesType, CreateRunEffect
  <2> QED BY <2>1, <2>2
<1>4. PICK r \in RunIds : r = created'
  BY <1>1
<1>5. Covers(r)'
  BY <1>1, <1>2, <1>3, <1>4 DEF Covers
<1> QED BY <1>5

\* An operator's invocation carries its letter on until it records its run
\* or gives the letter back.
LEMMA CarriesOn ==
  ASSUME TypeOK, Next, Quiet', NEW w \in Workers, NEW d, Carries(w, d), trigger[w] = "MANUAL",
         ~CreateRun(w, "ok"), \A o \in Outcomes : ~ReopenDeadLetter(w, o)
  PROVE  pc'[w] \in Carrying /\ claim'[w] = claim[w]
<1> DEFINE Goal == pc'[w] \in Carrying /\ claim'[w] = claim[w]
<1>0. /\ pc[w] \in Carrying /\ pc[w] # "idle"
      /\ pc \in [Workers -> PCs] /\ claim \in [Workers -> [letter : RunIds \cup {NoRun}, by : Users \cup {Nobody}]]
  BY DEF Carries, Carrying, TypeOK
<1>1. ASSUME NEW x \in Workers, NEW o \in Outcomes,
             Continue(x, o) \/ HeartbeatFails(x, o) \/ Handler(x)
      PROVE  claim' = claim
  BY <1>1 DEF Continue, CheckLatest, AcquireLease, CreateRun, FinalRenewal, CompleteRun,
          ResolveDeadLetters, RecordFailure, ReleaseLease, ReopenDeadLetter, HeartbeatFails,
          Handler, HandlerReturns, HandlerThrows, locals
<1>2. ASSUME NEW x \in Workers, NEW o \in Outcomes, CheckLatest(x, o) \/ AcquireLease(x, o)
      PROVE  pc'[w] \in Carrying
  BY <1>0, <1>2 DEF CheckLatest, AcquireLease, Undispatched, Goto, Carrying
<1>3. ASSUME NEW x \in Workers, NEW o \in Outcomes, CreateRun(x, o)
      PROVE  pc'[w] \in Carrying
  <2>1. o = "ok"
    BY <1>3, QuietStep DEF CreateRun
  <2> QED BY <1>0, <1>3, <2>1 DEF CreateRun, Goto
<1>4. ASSUME NEW x \in Workers, NEW o \in Outcomes, ReopenDeadLetter(x, o)
      PROVE  pc'[w] \in Carrying
  BY <1>0, <1>4 DEF ReopenDeadLetter, Goto
<1>5. ASSUME NEW x \in Workers, NEW o \in Outcomes,
             \/ FinalRenewal(x, o) \/ (\E noop \in BOOLEAN : CompleteRun(x, noop, o))
             \/ ResolveDeadLetters(x, o) \/ RecordFailure(x, o) \/ ReleaseLease(x, o)
             \/ HeartbeatFails(x, o) \/ Handler(x)
      PROVE  pc'[w] \in Carrying
  BY <1>0, <1>5 DEF FinalRenewal, CompleteRun, ResolveDeadLetters, RecordFailure, ReleaseLease,
                    HeartbeatFails, Handler, HandlerReturns, HandlerThrows, Goto, Carrying
<1>6. ASSUME NEW x \in Workers, NEW how, NEW c, pc[x] = "idle", Enter(x, how, c)
      PROVE  Goal
  BY <1>0, <1>6 DEF Enter, Goto
<1>7. ASSUME NEW x \in Workers, NEW how \in {"SCHEDULED", "STARTUP"}, Tick(x, how)
      PROVE  Goal
  BY <1>6, <1>7 DEF Tick
<1>8. ASSUME UNCHANGED <<pc, claim>>
      PROVE  Goal
  BY <1>0, <1>8
<1>9. ASSUME NEW x \in Workers, NEW c \in RunIds, NEW u \in Users, NEW o \in Outcomes,
             ClaimDeadLetter(x, c, u, o)
      PROVE  Goal
  BY <1>6, <1>8, <1>9 DEF ClaimDeadLetter, locals
<1>10. ASSUME LeaseLapses \/ OrphanLeaseExpires \/ (\E r \in RunIds : BackoffElapses(r)) \/ RunsExhausted
       PROVE  UNCHANGED <<pc, claim>>
  BY <1>10 DEF LeaseLapses, OrphanLeaseExpires, BackoffElapses, RunsExhausted, locals, vars
<1>11. ASSUME NEW x \in Workers, NEW o \in Outcomes,
              Continue(x, o) \/ HeartbeatFails(x, o) \/ Handler(x)
       PROVE  Goal
  <2>1. pc'[w] \in Carrying
    BY <1>2, <1>3, <1>4, <1>5, <1>11 DEF Continue
  <2> QED BY <1>1, <1>11, <2>1
<1>12. \A x \in Workers : ~Crash(x)
  BY QuietStep
<1>13. \E o \in Outcomes : TRUE
  BY DEF Outcomes
<1> HIDE DEF Goal
<1>14. Goal
  BY <1>7, <1>8, <1>9, <1>10, <1>11, <1>12, <1>13 DEF Next
<1> QED BY <1>14 DEF Goal

LEMMA RetryingIsInHandStep ==
  ASSUME TypeOK, RunsRecorded, OwnLetterIsNew, ClaimsAreManual, NobodyThrew, CarriedIsClaimed,
         RetryingIsInHand, Next
  PROVE  RetryingIsInHand'
<1> SUFFICES ASSUME Quiet', NEW d \in RunIds, letters'[d].status = "RETRYING"
             PROVE  \/ \E w \in Workers : Carries(w, d)'
                    \/ \E r \in RunIds : Covers(r)'
  BY DEF RetryingIsInHand
<1>0. Quiet
  BY QuietStep
<1>1. ASSUME NEW w \in Workers, StoreDeadLetter(run[w]), run[w] \in RunIds
      PROVE  FALSE
  BY <1>1, DeadLettering
<1>2. CASE letters'[d] # letters[d]
  <2>1. ASSUME NEW w \in Workers, NEW o \in Outcomes, ReopenDeadLetter(w, o), claim[w].letter = d,
               letters[d].status = "RETRYING"
        PROVE  FALSE
    <3>1. Carries(w, d) /\ o = "ok"
      BY <2>1, Reopening, QuietStep DEF ReopenDeadLetter
    <3>2. letters[d].by = claim[w].by
      BY <1>0, <2>1, <3>1 DEF CarriedIsClaimed
    <3> QED BY <2>1, <3>1, <3>2, Reopening
  <2>2. PICK w \in Workers, u \in Users, o \in Outcomes : ClaimDeadLetter(w, d, u, o)
    BY <1>1, <1>2, <2>1, LetterStep
  <2>3. o = "ok"
    BY <2>2, QuietStep DEF ClaimDeadLetter
  <2>4. Enter(w, "MANUAL", [letter |-> d, by |-> u])
    BY <2>2, <2>3 DEF ClaimDeadLetter
  <2>5. Carries(w, d)'
    BY <2>4 DEF Enter, Goto, Carries, Carrying, TypeOK
  <2> QED BY <2>5
<1>3. CASE letters'[d] = letters[d]
  <2>1. letters[d].status = "RETRYING"
    BY <1>3
  <2>2. ASSUME NEW r \in RunIds, Covers(r)
        PROVE  Covers(r)'
    BY <1>1, <2>2, CoversStep
  <2>3. ASSUME NEW w \in Workers, Carries(w, d)
        PROVE  \/ \E v \in Workers : Carries(v, d)'
               \/ \E r \in RunIds : Covers(r)'
    <3>1. d # NoRun /\ trigger[w] = "MANUAL"
      BY <2>3 DEF Carries, ClaimsAreManual, RunIds, NoRun
    <3>2. CASE CreateRun(w, "ok")
      BY <3>1, <3>2, ManualRunCovers
    <3>3. ASSUME NEW o \in Outcomes, ReopenDeadLetter(w, o)
          PROVE  FALSE
      <4>1. o = "ok" /\ letters[d].by = claim[w].by
        BY <1>0, <2>1, <2>3, <3>3, QuietStep DEF ReopenDeadLetter, CarriedIsClaimed
      <4> QED BY <1>3, <2>1, <2>3, <3>3, <4>1, Reopening DEF Carries
    <3>4. CASE ~CreateRun(w, "ok")
      <4>1. pc'[w] \in Carrying /\ claim'[w] = claim[w]
        BY <2>3, <3>1, <3>3, <3>4, CarriesOn
      <4> QED BY <2>3, <4>1 DEF Carries
    <3> QED BY <3>2, <3>4
  <2> QED BY <1>0, <2>1, <2>2, <2>3 DEF RetryingIsInHand
<1> QED BY <1>2, <1>3

-----------------------------------------------------------------------------

LEMMA StepLettersInv == IInv /\ LettersInv /\ [Next]_vars => LettersInv'
<1>1. ASSUME IInv, LettersInv, Next
      PROVE  LettersInv'
  BY <1>1, OwnLetterIsNewStep, ResolvesAfterSuccessStep, ClaimsAreManualStep, NobodyThrewStep,
     CarriedIsClaimedStep, RetryingIsInHandStep DEF IInv, LettersInv
<1>2. ASSUME LettersInv, UNCHANGED vars
      PROVE  LettersInv'
  <2>1. OwnLetterIsNew' /\ ResolvesAfterSuccess' /\ ClaimsAreManual' /\ NobodyThrew'
    BY <1>2 DEF LettersInv, vars, table, locals, OwnLetterIsNew, ResolvesAfterSuccess,
                ClaimsAreManual, NobodyThrew, Quiet
  <2>2. CarriedIsClaimed' /\ RetryingIsInHand'
    BY <1>2 DEF LettersInv, vars, table, locals, CarriedIsClaimed, RetryingIsInHand, Quiet,
                Carries, Covers
  <2> QED BY <2>1, <2>2 DEF LettersInv
<1> QED BY <1>1, <1>2

LEMMA LettersInductive == Spec => [](IInv /\ LettersInv)
  BY InitIInv, StepIInv, InitLettersInv, StepLettersInv, PTL DEF Spec

\* A covered table has a newest row, and it is not dead-lettered.
LEMMA CoveredIsNotHeldOff ==
  ASSUME TypeOK, NEW r \in RunIds, Covers(r)
  PROVE  \E m \in RunIds : IsLatest(m) /\ runs[m].status # "DEAD_LETTER"
<1>1. IsFiniteSet(Rows) /\ Rows # {} /\ Rows \subseteq Nat
  <2>1. IsFiniteSet(RunIds)
    BY BoundsAssumption, FS_Interval DEF RunIds
  <2>2. Rows \subseteq RunIds /\ r \in Rows
    BY DEF Rows, Covers
  <2>3. RunIds \subseteq Nat
    BY DEF RunIds
  <2> QED BY <2>1, <2>2, <2>3, FS_Subset
<1>2. PICK m \in Rows : \A s \in Rows : s <= m
  BY <1>1, LargestElement
<1>3. m \in RunIds /\ m # NoRun /\ IsLatest(m)
  BY <1>2 DEF Rows, IsLatest, RunIds, NoRun
<1>4. m >= r
  BY <1>2 DEF Rows, Covers, RunIds
<1> QED BY <1>3, <1>4 DEF Covers

LEMMA HeldLetters == TypeOK /\ LettersInv => LettersAreHeld
<1> SUFFICES ASSUME TypeOK, LettersInv, Quiet, NEW d \in RunIds, letters[d].status = "RETRYING"
             PROVE  \/ \E w \in Workers : pc[w] # "idle" /\ claim[w].letter = d
                    \/ \E r \in RunIds : IsLatest(r) /\ runs[r].status # "DEAD_LETTER"
  BY DEF LettersAreHeld, NoStrandedLetter, Quiet
<1>1. CASE \E w \in Workers : Carries(w, d)
  BY <1>1 DEF Carries, Carrying
<1>2. CASE \E r \in RunIds : Covers(r)
  BY <1>2, CoveredIsNotHeldOff
<1> QED BY <1>1, <1>2 DEF LettersInv, RetryingIsInHand

LEMMA ResolvingSteps ==
  IInv /\ LettersInv /\ [Next]_vars =>
    [\A d \in RunIds :
       faults.lapse = 0 /\ letters[d].status # "RESOLVED" /\ letters'[d].status = "RESOLVED"
       => \E w \in Workers :
            \/ pc[w] = "resolve" /\ runs[run[w]].status \in {"COMPLETED", "NONE"}
            \/ /\ letters[d].status = "RETRYING" /\ pc[w] = "fail"
               /\ letters'[run[w]].status = "OPEN"]_vars
<1> SUFFICES ASSUME IInv, LettersInv, Next, NEW d \in RunIds, faults.lapse = 0,
                    letters[d].status # "RESOLVED", letters'[d].status = "RESOLVED"
             PROVE  \E w \in Workers :
                      \/ pc[w] = "resolve" /\ runs[run[w]].status \in {"COMPLETED", "NONE"}
                      \/ /\ letters[d].status = "RETRYING" /\ pc[w] = "fail"
                         /\ letters'[run[w]].status = "OPEN"
  OBVIOUS
<1>1. ASSUME NEW w \in Workers, NEW u \in Users, NEW o \in Outcomes, ClaimDeadLetter(w, d, u, o),
             o # "error"
      PROVE  FALSE
  BY <1>1, Claiming DEF IInv
<1>2. ASSUME NEW w \in Workers, NEW o \in Outcomes, ReopenDeadLetter(w, o)
      PROVE  FALSE
  <2>1. letters \in [RunIds -> LetterRow]
    BY TablesType DEF IInv, TablesOK
  <2> QED BY <1>2, <2>1 DEF ReopenDeadLetter, StoreReopen, table
<1>3. ASSUME NEW w \in Workers, pc[w] = "resolve"
      PROVE  runs[run[w]].status \in {"COMPLETED", "NONE"}
  BY <1>3 DEF LettersInv, ResolvesAfterSuccess
<1> QED BY <1>1, <1>2, <1>3, LetterStep DEF IInv, LettersInv

\* Dead letters are kept: until a process dies or a database call fails, a
\* claimed one is in an invocation's hands or a later run will settle it;
\* and none is closed but by a run that succeeded, or by the letter that
\* replaces it.
THEOREM DeadLettersAreKept == Spec => LettersAreKept
<1>1. Spec => []LettersAreHeld
  BY LettersInductive, HeldLetters, PTL DEF IInv
<1>2. Spec => LettersResolvedBySuccess
  BY LettersInductive, ResolvingSteps, PTL DEF Spec, LettersResolvedBySuccess
<1> QED BY <1>1, <1>2, PTL DEF LettersAreKept
=============================================================================
