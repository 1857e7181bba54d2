-------------------------- MODULE EmailQueueProofs --------------------------
(***************************************************************************)
(* Theorems about EmailQueue, for any number of cycles and messages, any   *)
(* attempt limit and any number of faults.  The inductive invariant says   *)
(* who holds a row: from its claim until its outcome is recorded a row has *)
(* one holder, and while it has one its status is none that a claim or an  *)
(* operator's retry accepts.                                               *)
(***************************************************************************)
EXTENDS EmailQueue, TLAPS

Row == [status : RowStatus, attempts : Nat, waiting : BOOLEAN, stale : BOOLEAN]

\* Statuses no claim and no retry accepts.
Held == {"SENDING", "SENT", "REVIEW_REQUIRED"}

\* The cycle may still write the status of its row.
Holding(w) ==
    \/ pc[w] \in {"prepare", "send", "sent", "settle", "confirm"}
    \/ pc[w] = "log" /\ verdict[w] = "SENT"

\* What a cycle may rely on about the row it holds.
HolderOK(w) ==
    /\ Holding(w) => row[w] \in Msgs /\ queue[row[w]].status \in Held
    /\ pc[w] \in {"prepare", "send"} => accepted[row[w]] = 0
    /\ pc[w] = "sent" => accepted[row[w]] = 1
    /\ pc[w] = "settle" => /\ verdict[w] \in {"RETRY", "FAILED", "REVIEW_REQUIRED"}
                           /\ verdict[w] # "REVIEW_REQUIRED" => accepted[row[w]] = 0

OneHolder == \A w, u \in Workers : w # u /\ Holding(w) /\ Holding(u) => row[w] # row[u]

RowOK(m) ==
    /\ accepted[m] <= 1
    /\ accepted[m] > 0 => queue[m].status \in Held
    /\ queue[m].status = "SENT" => accepted[m] > 0

IInv ==
    /\ TypeOK
    /\ \A w \in Workers : HolderOK(w)
    /\ OneHolder
    /\ \A m \in Msgs : RowOK(m)

-----------------------------------------------------------------------------
(* Helpers.                                                                *)

\* A failed attempt is never recorded as SENT, and is retryable only if the
\* error leaves no doubt that the provider did not take the message.
LEMMA DecideFact ==
  ASSUME NEW m, NEW n, NEW e
  PROVE  /\ Decide(m, n, e) \in {"RETRY", "FAILED", "REVIEW_REQUIRED"}
         /\ e = "held" <=> Decide(m, n, e) = "REVIEW_REQUIRED"
  BY DEF Decide

LEMMA EndsType ==
  ASSUME TypeOK, NEW outcome, Ends(outcome)
  PROVE  faults' \in [retry : 0..MaxRetries, crash : 0..MaxCrashes,
                      db : 0..MaxDbErrors, stall : 0..MaxStalls]
  BY LimitsAssumption DEF TypeOK, Ends

CycleType ==
    /\ pc \in [Workers -> PCs]
    /\ batch \in [Workers -> SUBSET Msgs]
    /\ seen \in [Workers -> [Msgs -> Nat]]
    /\ row \in [Workers -> Msgs \cup {NoMsg}]
    /\ verdict \in [Workers -> Verdicts]

\* The variables of the other cycles stay as they are.
OthersKept(w) ==
    \A u \in Workers \ {w} :
        pc'[u] = pc[u] /\ row'[u] = row[u] /\ verdict'[u] = verdict[u]

LEMMA GotoEffect ==
  ASSUME TypeOK, NEW w \in Workers, NEW place \in PCs, Goto(w, place)
  PROVE  /\ CycleType' /\ OthersKept(w)
         /\ pc'[w] = place /\ row'[w] = row[w] /\ verdict'[w] = verdict[w]
  BY DEF TypeOK, Goto, CycleType, OthersKept

LEMMA ContinueEffect ==
  ASSUME TypeOK, NEW w \in Workers, NEW left \in SUBSET Msgs, Continue(w, left)
  PROVE  CycleType' /\ OthersKept(w) /\ pc'[w] \in {"idle", "claim"}
<1>1. seen' \in [Workers -> [Msgs -> Nat]]
  BY DEF TypeOK, Continue
<1>2. verdict' \in [Workers -> Verdicts] /\ row' \in [Workers -> Msgs \cup {NoMsg}]
  BY DEF TypeOK, Continue, Verdicts
<1>3. pc' \in [Workers -> PCs] /\ batch' \in [Workers -> SUBSET Msgs]
  BY DEF TypeOK, Continue, PCs
<1> QED
  BY <1>1, <1>2, <1>3 DEF TypeOK, Continue, CycleType, OthersKept

LEMMA DoneEffect ==
  ASSUME TypeOK, NEW w \in Workers, Done(w)
  PROVE  CycleType' /\ OthersKept(w) /\ pc'[w] \in {"idle", "claim"}
<1>1. batch[w] \ {row[w]} \in SUBSET Msgs
  BY DEF TypeOK
<1> QED
  BY <1>1, ContinueEffect DEF Done

LEMMA StopEffect ==
  ASSUME TypeOK, NEW w \in Workers, Stop(w)
  PROVE  CycleType' /\ OthersKept(w) /\ pc'[w] \in {"idle", "claim"}
  BY ContinueEffect DEF Stop

LEMMA RecordEffect ==
  ASSUME TypeOK, NEW w \in Workers, NEW status \in Verdicts, NEW place \in PCs,
         Record(w, status, place)
  PROVE  /\ CycleType' /\ OthersKept(w)
         /\ pc'[w] = place /\ row'[w] = row[w] /\ verdict'[w] = status
  BY DEF TypeOK, Record, CycleType, OthersKept

LEMMA CaughtEffect ==
  ASSUME TypeOK, NEW w \in Workers, NEW e, Caught(w, e)
  PROVE  /\ CycleType' /\ OthersKept(w)
         /\ pc'[w] = "settle" /\ row'[w] = row[w]
         /\ verdict'[w] \in {"RETRY", "FAILED", "REVIEW_REQUIRED"}
         /\ e = "held" <=> verdict'[w] = "REVIEW_REQUIRED"
<1> DEFINE status == Decide(row[w], seen[w][row[w]] + 1, e)
<1>1. /\ status \in {"RETRY", "FAILED", "REVIEW_REQUIRED"}
      /\ e = "held" <=> status = "REVIEW_REQUIRED"
  BY DecideFact
<1>2. status \in Verdicts /\ "settle" \in PCs
  BY <1>1 DEF Verdicts, PCs
<1>3. Record(w, status, "settle")
  BY DEF Caught
<1> HIDE DEF status
<1> QED
  BY <1>1, <1>2, <1>3, RecordEffect

\* The variables TypeOK types besides those of the cycles.
RestType ==
    /\ queue \in [Msgs -> Row]
    /\ accepted \in [Msgs -> Nat]
    /\ faults \in [retry : 0..MaxRetries, crash : 0..MaxCrashes,
                   db : 0..MaxDbErrors, stall : 0..MaxStalls]

LEMMA TypeParts == TypeOK <=> CycleType /\ RestType
  BY DEF TypeOK, CycleType, RestType, Row

LEMMA TypePartsNext == TypeOK' <=> CycleType' /\ RestType'
  BY DEF TypeOK, CycleType, RestType, Row

\* A step leaves m alone if a holder of m can go on relying on it.
LeftAlone(m) ==
    /\ accepted'[m] = accepted[m]
    /\ queue[m].status \in Held => queue'[m].status \in Held

\* A step of w touches no row but the one w holds, and w only comes to hold
\* a row that nobody holds: the other holders keep what they rely on.
LEMMA OthersUndisturbed ==
  ASSUME IInv, NEW w \in Workers, OthersKept(w),
         \A m \in Msgs : LeftAlone(m) \/ (Holding(w) /\ m = row[w]),
         \/ ~Holding(w)'
         \/ Holding(w) /\ row'[w] = row[w]
         \/ queue[row'[w]].status \notin Held
  PROVE  (\A u \in Workers \ {w} : HolderOK(u)') /\ OneHolder'
<1>1. \A u \in Workers \ {w} :
        /\ pc'[u] = pc[u] /\ row'[u] = row[u] /\ verdict'[u] = verdict[u]
        /\ Holding(u)' <=> Holding(u)
  BY DEF OthersKept, Holding
<1>2. ASSUME NEW u \in Workers \ {w}, Holding(u)
      PROVE  LeftAlone(row[u])
  BY <1>2 DEF IInv, OneHolder, HolderOK
<1>3. ASSUME NEW u \in Workers \ {w}
      PROVE  HolderOK(u)'
  <2>1. HolderOK(u)
    BY DEF IInv
  <2>2. CASE Holding(u)
    BY <1>1, <1>2, <2>1, <2>2 DEF HolderOK, Holding, LeftAlone
  <2>3. CASE ~Holding(u)
    BY <1>1, <2>3 DEF HolderOK, Holding
  <2> QED
    BY <2>2, <2>3
<1>4. OneHolder'
  <2> SUFFICES ASSUME NEW u \in Workers, NEW v \in Workers, u # v, Holding(u)', Holding(v)'
               PROVE  row'[u] # row'[v]
    BY DEF OneHolder
  <2>1. CASE u # w /\ v # w
    BY <1>1, <2>1 DEF IInv, OneHolder
  <2>2. ASSUME NEW x \in Workers \ {w}, Holding(x)', Holding(w)'
        PROVE  row'[x] # row'[w]
    BY <1>1, <2>2 DEF IInv, OneHolder, HolderOK
  <2> QED
    BY <2>1, <2>2
<1> QED
  BY <1>3, <1>4

\* What a step of one cycle has to show.
LEMMA CycleStepSuffices ==
  ASSUME IInv, NEW w \in Workers, OthersKept(w), CycleType', RestType',
         \A m \in Msgs : LeftAlone(m) \/ (Holding(w) /\ m = row[w]),
         \/ ~Holding(w)'
         \/ Holding(w) /\ row'[w] = row[w]
         \/ queue[row'[w]].status \notin Held,
         HolderOK(w)', \A m \in Msgs : RowOK(m)'
  PROVE  IInv'
  BY OthersUndisturbed, TypePartsNext DEF IInv

-----------------------------------------------------------------------------
(* The initial state and the steps.                                        *)

LEMMA InitIInv == Init => IInv
<1> SUFFICES ASSUME Init PROVE IInv
  OBVIOUS
<1>1. TypeOK
  BY LimitsAssumption, MessagesAssumption DEF Init, TypeOK, RowStatus, PCs, Verdicts
<1>2. \A w \in Workers : ~Holding(w) /\ HolderOK(w)
  BY DEF Init, Holding, HolderOK
<1>3. \A m \in Msgs : RowOK(m)
  BY DEF Init, RowOK, Held
<1> QED
  BY <1>1, <1>2, <1>3 DEF IInv, OneHolder

\* A step that writes neither a row nor the provider's count, and whose
\* cycle keeps the row it holds or lets go of it.
LEMMA QuietStep ==
  ASSUME IInv, NEW w \in Workers, OthersKept(w), CycleType', NEW outcome, Ends(outcome),
         UNCHANGED <<queue, accepted>>,
         ~Holding(w)' \/ (Holding(w) /\ row'[w] = row[w]),
         HolderOK(w)'
  PROVE  IInv'
<1>1. TypeOK /\ RestType
  BY TypeParts DEF IInv
<1>2. RestType'
  BY <1>1, EndsType DEF RestType
<1>3. \A m \in Msgs : LeftAlone(m) /\ RowOK(m)'
  BY DEF IInv, LeftAlone, RowOK
<1> QED
  BY <1>2, <1>3, CycleStepSuffices

LEMMA IdleHolds ==
  ASSUME NEW w, pc'[w] \in {"idle", "select", "claim"}
  PROVE  ~Holding(w)' /\ HolderOK(w)'
  BY DEF Holding, HolderOK

\* The sweep only replaces SENDING by REVIEW_REQUIRED.
LEMMA SweepKeeps ==
  ASSUME IInv, NEW w \in Workers, NEW outcome \in Outcomes, Sweep(w, outcome)
  PROVE  IInv'
<1>1. TypeOK /\ RestType
  BY TypeParts DEF IInv
<1> DEFINE place == IF outcome = "ok" THEN "select" ELSE "idle"
<1>2. place \in PCs /\ Goto(w, place)
  BY DEF PCs, Sweep
<1>3. OthersKept(w) /\ CycleType' /\ pc'[w] = place
  BY <1>1, <1>2, GotoEffect
<1>4. ~Holding(w)' /\ HolderOK(w)'
  BY <1>3, IdleHolds
<1>5. queue' \in [Msgs -> Row]
  BY <1>1 DEF RestType, Row, RowStatus, Sweep
<1>6. RestType'
  BY <1>1, <1>5, EndsType DEF RestType, Sweep
<1>7. ASSUME NEW m \in Msgs
      PROVE  /\ LeftAlone(m) /\ RowOK(m)'
  <2>1. \/ queue'[m] = queue[m]
        \/ Abandoned(m) /\ queue'[m] = [queue[m] EXCEPT !.status = "REVIEW_REQUIRED",
                                                       !.waiting = FALSE]
    BY DEF Sweep
  <2>2. queue[m] \in Row
    BY <1>1 DEF RestType
  <2>3. queue'[m].status = queue[m].status
          \/ (queue[m].status = "SENDING" /\ queue'[m].status = "REVIEW_REQUIRED")
    BY <2>1, <2>2 DEF Row, Abandoned
  <2>4. accepted'[m] = accepted[m] /\ RowOK(m)
    BY DEF Sweep, IInv
  <2> QED
    BY <2>3, <2>4 DEF LeftAlone, RowOK, Held
<1> QED
  BY <1>3, <1>4, <1>6, <1>7, CycleStepSuffices

LEMMA SelectKeeps ==
  ASSUME IInv, NEW w \in Workers, NEW outcome \in Outcomes, Select(w, outcome)
  PROVE  IInv'
<1>1. TypeOK
  BY DEF IInv
<1> DEFINE found == IF outcome = "ok" THEN {m \in Msgs : Due(m)} ELSE {}
<1>2. /\ found \in SUBSET Msgs
      /\ pc' = [pc EXCEPT ![w] = IF found = {} THEN "idle" ELSE "claim"]
      /\ batch' = [batch EXCEPT ![w] = found]
      /\ seen' = [seen EXCEPT ![w] =
              [m \in Msgs |-> IF m \in found THEN queue[m].attempts ELSE 0]]
      /\ UNCHANGED <<queue, accepted, row, verdict>>
  BY DEF Select
<1> HIDE DEF found
<1>3. [m \in Msgs |-> IF m \in found THEN queue[m].attempts ELSE 0] \in [Msgs -> Nat]
  <2>1. \A m \in Msgs : queue[m].attempts \in Nat
    BY <1>1 DEF TypeOK
  <2> QED
    BY <2>1
<1>4. CycleType'
  <2>1. pc' \in [Workers -> PCs]
    BY <1>1, <1>2 DEF TypeOK, PCs
  <2>2. seen' \in [Workers -> [Msgs -> Nat]]
    BY <1>1, <1>2, <1>3 DEF TypeOK
  <2> QED
    BY <1>1, <1>2, <2>1, <2>2 DEF TypeOK, CycleType
<1>5. OthersKept(w) /\ pc'[w] \in {"idle", "claim"}
  BY <1>1, <1>2 DEF TypeOK, OthersKept
<1>6. ~Holding(w)' /\ HolderOK(w)'
  BY <1>5, IdleHolds
<1>7. Ends(outcome)
  BY DEF Select
<1> QED
  BY <1>2, <1>4, <1>5, <1>6, <1>7, QuietStep

\* Only a row nobody holds can be claimed.
LEMMA ClaimKeeps ==
  ASSUME IInv, NEW w \in Workers, NEW n \in Msgs, NEW outcome \in Outcomes,
         Claim(w, n, outcome)
  PROVE  IInv'
<1>1. TypeOK /\ RestType /\ Ends(outcome) /\ UNCHANGED accepted
  BY TypeParts DEF IInv, Claim
<1> DEFINE claimed == outcome # "error" /\ Claimable(n)
<1>2. queue' = IF claimed
               THEN [queue EXCEPT ![n].status = "SENDING",
                                  ![n].attempts = @ + 1, ![n].stale = FALSE]
               ELSE queue
  BY DEF Claim
<1>3. queue' \in [Msgs -> Row]
  BY <1>1, <1>2 DEF RestType, Row, RowStatus
<1>4. /\ claimed => queue'[n].status = "SENDING"
      /\ ~claimed => queue' = queue
      /\ \A m \in Msgs \ {n} : queue'[m] = queue[m]
  BY <1>1, <1>2 DEF RestType, Row
<1>5. claimed => queue[n].status \notin Held
  BY DEF Claimable, Due, Held
<1> HIDE DEF claimed
<1>6. RestType'
  BY <1>1, <1>3, EndsType DEF RestType
<1>7. \A m \in Msgs : LeftAlone(m) /\ RowOK(m)'
  BY <1>1, <1>4, <1>5 DEF LeftAlone, RowOK, IInv, RestType, Held
<1>8. CASE outcome = "ok" /\ claimed
  <2>1. /\ pc' = [pc EXCEPT ![w] = "prepare"]
        /\ row' = [row EXCEPT ![w] = n]
        /\ UNCHANGED <<batch, seen, verdict>>
    BY <1>8 DEF Claim, claimed
  <2>2. CycleType' /\ OthersKept(w) /\ pc'[w] = "prepare" /\ row'[w] = n
    BY <1>1, <2>1 DEF TypeOK, CycleType, OthersKept, PCs
  <2>3. queue[row'[w]].status \notin Held
    BY <1>5, <1>8, <2>2
  <2>4. accepted[n] = 0
    BY <1>1, <2>3, <2>2 DEF IInv, RowOK, RestType
  <2>5. queue'[n].status = "SENDING"
    BY <1>4, <1>8
  <2>6. HolderOK(w)'
    BY <1>1, <2>2, <2>4, <2>5 DEF HolderOK, Holding, Held
  <2> QED
    BY <1>6, <1>7, <2>2, <2>3, <2>6, CycleStepSuffices
<1>9. CASE ~(outcome = "ok" /\ claimed)
  <2>1. Continue(w, {}) \/ Continue(w, batch[w] \ {n})
    BY <1>9 DEF Claim, claimed, Stop
  <2>2. batch[w] \ {n} \in SUBSET Msgs
    BY <1>1 DEF TypeOK
  <2>3. CycleType' /\ OthersKept(w) /\ pc'[w] \in {"idle", "claim"}
    BY <1>1, <2>1, <2>2, ContinueEffect
  <2>4. ~Holding(w)' /\ HolderOK(w)'
    BY <2>3, IdleHolds
  <2> QED
    BY <1>6, <1>7, <2>3, <2>4, CycleStepSuffices
<1> QED
  BY <1>8, <1>9

\* A verdict of the catch block that leaves the message retryable needs the
\* certainty that it was not taken.
LEMMA CaughtHolds ==
  ASSUME IInv, NEW w \in Workers, NEW e, Caught(w, e), Holding(w),
         \/ e = "held"
         \/ accepted'[row[w]] = 0,
         queue' = queue
  PROVE  CycleType' /\ OthersKept(w) /\ Holding(w)' /\ row'[w] = row[w] /\ HolderOK(w)'
<1>1. /\ CycleType' /\ OthersKept(w)
      /\ pc'[w] = "settle" /\ row'[w] = row[w]
      /\ verdict'[w] \in {"RETRY", "FAILED", "REVIEW_REQUIRED"}
      /\ e = "held" <=> verdict'[w] = "REVIEW_REQUIRED"
  BY CaughtEffect DEF IInv
<1>2. Holding(w)'
  BY <1>1 DEF Holding
<1>3. row[w] \in Msgs /\ queue[row[w]].status \in Held
  BY DEF IInv, HolderOK
<1>4. HolderOK(w)'
  BY <1>1, <1>3 DEF HolderOK
<1> QED
  BY <1>1, <1>2, <1>4

LEMMA PrepareKeeps ==
  ASSUME IInv, NEW w \in Workers, NEW e \in Errors \cup {"none"}, Prepare(w, e)
  PROVE  IInv'
<1>1. pc[w] = "prepare" /\ Holding(w) /\ UNCHANGED <<queue, accepted>>
  BY DEF Prepare, Holding
<1>2. /\ row[w] \in Msgs /\ queue[row[w]].status \in Held
      /\ accepted[row[w]] = 0
  BY <1>1 DEF IInv, HolderOK
<1>3. PICK outcome : Ends(outcome)
  BY DEF Prepare
<1>4. CASE e = "none"
  <2>1. Goto(w, "send") /\ "send" \in PCs
    BY <1>4 DEF Prepare, PCs
  <2>2. CycleType' /\ OthersKept(w) /\ pc'[w] = "send" /\ row'[w] = row[w]
    BY <2>1, GotoEffect DEF IInv
  <2>3. HolderOK(w)'
    BY <1>1, <1>2, <2>2 DEF HolderOK, Holding
  <2> QED
    BY <1>1, <1>3, <2>2, <2>3, QuietStep
<1>5. CASE e # "none"
  <2>1. Caught(w, e)
    BY <1>5 DEF Prepare
  <2>2. CycleType' /\ OthersKept(w) /\ Holding(w)' /\ row'[w] = row[w] /\ HolderOK(w)'
    BY <1>1, <1>2, <2>1, CaughtHolds
  <2> QED
    BY <1>1, <1>3, <2>2, QuietStep
<1> QED
  BY <1>4, <1>5

\* The provider takes a message only from its holder, and only one that it
\* has not taken before.
LEMMA SendKeeps ==
  ASSUME IInv, NEW w \in Workers, NEW e \in Errors \cup {"none"}, NEW taken \in BOOLEAN,
         Send(w, e, taken)
  PROVE  IInv'
<1>1. pc[w] = "send" /\ Holding(w) /\ UNCHANGED <<queue, faults>>
  BY DEF Send, Holding
<1>2. /\ row[w] \in Msgs /\ queue[row[w]].status \in Held
      /\ accepted[row[w]] = 0
  BY <1>1 DEF IInv, HolderOK
<1>3. accepted' = IF taken THEN [accepted EXCEPT ![row[w]] = @ + 1] ELSE accepted
  BY DEF Send
<1>4. TypeOK /\ RestType
  BY TypeParts DEF IInv
<1>5. /\ accepted' \in [Msgs -> Nat]
      /\ accepted'[row[w]] = IF taken THEN 1 ELSE 0
      /\ \A m \in Msgs \ {row[w]} : accepted'[m] = accepted[m]
  BY <1>2, <1>3, <1>4 DEF RestType
<1>6. RestType'
  BY <1>1, <1>4, <1>5 DEF RestType
<1>7. \A m \in Msgs : RowOK(m)' /\ (LeftAlone(m) \/ m = row[w])
  BY <1>1, <1>2, <1>5 DEF IInv, RowOK, LeftAlone
<1>8. CASE e = "none"
  <2>1. Record(w, "SENT", "sent") /\ "SENT" \in Verdicts /\ "sent" \in PCs /\ taken
    BY <1>8 DEF Send, Verdicts, PCs
  <2>2. CycleType' /\ OthersKept(w) /\ pc'[w] = "sent" /\ row'[w] = row[w]
    BY <1>4, <2>1, RecordEffect
  <2>3. HolderOK(w)'
    BY <1>1, <1>2, <1>5, <2>1, <2>2 DEF HolderOK, Holding
  <2> QED
    BY <1>1, <1>6, <1>7, <2>2, <2>3, CycleStepSuffices
<1>9. CASE e # "none"
  <2>1. Caught(w, e) /\ (e = "held" \/ accepted'[row[w]] = 0)
    BY <1>5, <1>9 DEF Send
  <2>2. CycleType' /\ OthersKept(w) /\ Holding(w)' /\ row'[w] = row[w] /\ HolderOK(w)'
    BY <1>1, <2>1, CaughtHolds
  <2> QED
    BY <1>1, <1>6, <1>7, <2>2, CycleStepSuffices
<1> QED
  BY <1>8, <1>9

\* SENT is recorded by the holder, of a message the provider took.
LEMMA RecordSentKeeps ==
  ASSUME IInv, NEW w \in Workers, NEW outcome \in Outcomes, RecordSent(w, outcome)
  PROVE  IInv'
<1>1. pc[w] = "sent" /\ Holding(w) /\ Ends(outcome) /\ UNCHANGED accepted
  BY DEF RecordSent, Holding
<1>2. /\ row[w] \in Msgs /\ queue[row[w]].status \in Held
      /\ accepted[row[w]] = 1
  BY <1>1 DEF IInv, HolderOK
<1>3. TypeOK /\ RestType
  BY TypeParts DEF IInv
<1>4. queue' = IF outcome = "error" THEN queue ELSE [queue EXCEPT ![row[w]].status = "SENT"]
  BY DEF RecordSent
<1>5. queue' \in [Msgs -> Row]
  BY <1>2, <1>3, <1>4 DEF RestType, Row, RowStatus
<1>6. /\ outcome # "error" => queue'[row[w]].status = "SENT"
      /\ outcome = "error" => queue' = queue
      /\ \A m \in Msgs \ {row[w]} : queue'[m] = queue[m]
  BY <1>2, <1>3, <1>4 DEF RestType, Row
<1>7. RestType'
  BY <1>1, <1>3, <1>5, EndsType DEF RestType
<1>8. \A m \in Msgs : RowOK(m)' /\ (LeftAlone(m) \/ m = row[w])
  BY <1>1, <1>2, <1>6 DEF IInv, RowOK, LeftAlone, Held
<1>9. queue'[row[w]].status \in Held
  BY <1>2, <1>6 DEF Held
<1>10. CASE outcome # "ok"
  <2>1. Caught(w, "held")
    BY <1>10 DEF RecordSent
  <2>2. /\ CycleType' /\ OthersKept(w)
        /\ pc'[w] = "settle" /\ row'[w] = row[w] /\ verdict'[w] = "REVIEW_REQUIRED"
    BY <1>3, <2>1, CaughtEffect
  <2>3. HolderOK(w)'
    BY <1>2, <1>9, <2>2 DEF HolderOK
  <2> QED
    BY <1>1, <1>7, <1>8, <2>2, <2>3, CycleStepSuffices
<1>11. CASE outcome = "ok" /\ row[w] \in Weekly
  <2>1. CycleType' /\ OthersKept(w) /\ pc'[w] \in {"idle", "claim"}
    BY <1>3, <1>11, DoneEffect DEF RecordSent
  <2>2. ~Holding(w)' /\ HolderOK(w)'
    BY <2>1, IdleHolds
  <2> QED
    BY <1>1, <1>7, <1>8, <2>1, <2>2, CycleStepSuffices
<1>12. CASE outcome = "ok" /\ row[w] \notin Weekly
  <2>1. Goto(w, "log") /\ "log" \in PCs
    BY <1>12 DEF RecordSent, PCs
  <2>2. CycleType' /\ OthersKept(w) /\ pc'[w] = "log" /\ row'[w] = row[w]
    BY <1>3, <2>1, GotoEffect
  <2>3. HolderOK(w)'
    BY <1>2, <1>9, <2>2 DEF HolderOK
  <2> QED
    BY <1>1, <1>7, <1>8, <2>2, <2>3, CycleStepSuffices
<1> QED
  BY <1>10, <1>11, <1>12

\* The catch block writes by id alone, yet only to the row its cycle holds.
LEMMA SettleKeeps ==
  ASSUME IInv, NEW w \in Workers, NEW outcome \in Outcomes, Settle(w, outcome)
  PROVE  IInv'
<1>1. pc[w] = "settle" /\ Holding(w) /\ Ends(outcome) /\ UNCHANGED accepted
  BY DEF Settle, Holding
<1>2. /\ row[w] \in Msgs /\ queue[row[w]].status \in Held
      /\ verdict[w] \in {"RETRY", "FAILED", "REVIEW_REQUIRED"}
      /\ verdict[w] # "REVIEW_REQUIRED" => accepted[row[w]] = 0
  BY <1>1 DEF IInv, HolderOK
<1>3. TypeOK /\ RestType
  BY TypeParts DEF IInv
<1>4. queue' = IF outcome = "error" THEN queue
               ELSE [queue EXCEPT ![row[w]].status = verdict[w],
                                  ![row[w]].waiting = verdict[w] = "RETRY"]
  BY DEF Settle
<1>5. queue' \in [Msgs -> Row]
  BY <1>2, <1>3, <1>4 DEF RestType, Row, RowStatus
<1>6. /\ outcome # "error" => queue'[row[w]].status = verdict[w]
      /\ outcome = "error" => queue' = queue
      /\ \A m \in Msgs \ {row[w]} : queue'[m] = queue[m]
  BY <1>2, <1>3, <1>4 DEF RestType, Row
<1>7. RestType'
  BY <1>1, <1>3, <1>5, EndsType DEF RestType
<1>8. \A m \in Msgs : RowOK(m)' /\ (LeftAlone(m) \/ m = row[w])
  BY <1>1, <1>2, <1>3, <1>6 DEF IInv, RowOK, LeftAlone, Held, RestType
<1>9. CASE outcome = "ok"
  <2>1. Goto(w, "log") /\ "log" \in PCs
    BY <1>9 DEF Settle, PCs
  <2>2. /\ CycleType' /\ OthersKept(w)
        /\ pc'[w] = "log" /\ verdict'[w] = verdict[w]
    BY <1>3, <2>1, GotoEffect
  <2>3. ~Holding(w)' /\ HolderOK(w)'
    BY <1>2, <2>2 DEF HolderOK, Holding
  <2> QED
    BY <1>1, <1>7, <1>8, <2>2, <2>3, CycleStepSuffices
<1>10. CASE outcome # "ok"
  <2>1. CycleType' /\ OthersKept(w) /\ pc'[w] \in {"idle", "claim"}
    BY <1>3, <1>10, StopEffect DEF Settle
  <2>2. ~Holding(w)' /\ HolderOK(w)'
    BY <2>1, IdleHolds
  <2> QED
    BY <1>1, <1>7, <1>8, <2>1, <2>2, CycleStepSuffices
<1> QED
  BY <1>9, <1>10

\* The bookkeeping after an attempt can only turn an accepted message into
\* one that is held for review.
LEMMA BookkeepingKeeps ==
  ASSUME IInv, NEW w \in Workers, NEW outcome \in Outcomes,
         Log(w, outcome) \/ Confirm(w, outcome) \/ Mark(w, outcome) \/ MarkVersion(w, outcome)
  PROVE  IInv'
<1>1. TypeOK /\ Ends(outcome) /\ UNCHANGED <<queue, accepted>>
  BY DEF IInv, Log, Confirm, Mark, MarkVersion
<1>2. CASE Done(w) \/ Stop(w)
  <2>1. CycleType' /\ OthersKept(w) /\ pc'[w] \in {"idle", "claim"}
    BY <1>1, <1>2, DoneEffect, StopEffect
  <2>2. ~Holding(w)' /\ HolderOK(w)'
    BY <2>1, IdleHolds
  <2> QED
    BY <1>1, <2>1, <2>2, QuietStep
<1>3. CASE Holding(w) /\ Caught(w, "held")
  <2>1. CycleType' /\ OthersKept(w) /\ Holding(w)' /\ row'[w] = row[w] /\ HolderOK(w)'
    BY <1>1, <1>3, CaughtHolds
  <2> QED
    BY <1>1, <1>3, <2>1, QuietStep
<1>4. CASE Holding(w) /\ Goto(w, "confirm")
  <2>1. /\ CycleType' /\ OthersKept(w)
        /\ pc'[w] = "confirm" /\ row'[w] = row[w]
    BY <1>1, <1>4, GotoEffect DEF PCs
  <2>2. Holding(w)' /\ HolderOK(w)'
    BY <1>1, <1>4, <2>1 DEF IInv, HolderOK, Holding
  <2> QED
    BY <1>1, <1>4, <2>1, <2>2, QuietStep
<1>5. ASSUME NEW place \in {"mark", "markVersion"}, Goto(w, place)
      PROVE  IInv'
  <2>1. CycleType' /\ OthersKept(w) /\ pc'[w] = place
    BY <1>1, <1>5, GotoEffect DEF PCs
  <2>2. ~Holding(w)' /\ HolderOK(w)'
    BY <2>1 DEF Holding, HolderOK
  <2> QED
    BY <1>1, <2>1, <2>2, QuietStep
<1>6. \/ Done(w) \/ Stop(w)
      \/ Holding(w) /\ (Caught(w, "held") \/ Goto(w, "confirm"))
      \/ Goto(w, "mark") \/ Goto(w, "markVersion")
  BY DEF Log, Confirm, Mark, MarkVersion, Holding
<1> QED
  BY <1>2, <1>3, <1>4, <1>5, <1>6

LEMMA CrashKeeps ==
  ASSUME IInv, NEW w \in Workers, Crash(w)
  PROVE  IInv'
<1>1. TypeOK /\ RestType /\ Stop(w) /\ UNCHANGED <<queue, accepted>>
  BY TypeParts DEF IInv, Crash
<1>2. CycleType' /\ OthersKept(w) /\ pc'[w] \in {"idle", "claim"}
  BY <1>1, StopEffect
<1>3. ~Holding(w)' /\ HolderOK(w)'
  BY <1>2, IdleHolds
<1>4. RestType'
  BY <1>1, LimitsAssumption DEF RestType, Crash
<1>5. \A m \in Msgs : LeftAlone(m) /\ RowOK(m)'
  BY <1>1 DEF IInv, LeftAlone, RowOK
<1> QED
  BY <1>2, <1>3, <1>4, <1>5, CycleStepSuffices

\* Callers, operators and the clock write one row n, which they leave alone
\* as far as its holder is concerned.
LEMMA OutsideKeeps ==
  ASSUME IInv, NEW n \in Msgs,
         \/ \E later \in BOOLEAN : QueueEmail(n, later)
         \/ Retry(n) \/ BackoffElapses(n) \/ ClaimAges(n)
  PROVE  IInv'
<1>1. TypeOK /\ RestType /\ CycleType /\ UNCHANGED <<accepted, cycle>>
  BY TypeParts DEF IInv, QueueEmail, Retry, BackoffElapses, ClaimAges
<1>2. /\ queue' \in [Msgs -> Row]
      /\ \A m \in Msgs \ {n} : queue'[m] = queue[m]
      /\ \/ queue'[n].status = queue[n].status
         \/ queue[n].status \notin Held /\ queue'[n].status # "SENT"
  <2>1. CASE \E later \in BOOLEAN : QueueEmail(n, later)
    BY <1>1, <2>1 DEF RestType, QueueEmail, Row, RowStatus, Held
  <2>2. CASE Retry(n)
    BY <1>1, <2>2 DEF RestType, Retry, Row, RowStatus, Held
  <2>3. CASE BackoffElapses(n)
    BY <1>1, <2>3 DEF RestType, BackoffElapses, Row
  <2>4. CASE ClaimAges(n)
    BY <1>1, <2>4 DEF RestType, ClaimAges, Row
  <2> QED
    BY <2>1, <2>2, <2>3, <2>4
<1>3. faults' \in [retry : 0..MaxRetries, crash : 0..MaxCrashes,
                  db : 0..MaxDbErrors, stall : 0..MaxStalls]
  BY <1>1, LimitsAssumption DEF RestType, QueueEmail, Retry, BackoffElapses, ClaimAges
<1>4. TypeOK'
  BY <1>1, <1>2, <1>3, TypePartsNext DEF CycleType, RestType, cycle
<1>5. \A m \in Msgs : LeftAlone(m) /\ RowOK(m)'
  BY <1>1, <1>2 DEF IInv, RowOK, LeftAlone, RestType
<1>6. \A w \in Workers : /\ HolderOK(w) /\ (Holding(w)' <=> Holding(w))
                         /\ pc'[w] = pc[w] /\ row'[w] = row[w] /\ verdict'[w] = verdict[w]
  BY <1>1 DEF IInv, Holding, cycle
<1>7. ASSUME NEW w \in Workers
      PROVE  HolderOK(w)'
  <2>1. CASE Holding(w)
    BY <1>5, <1>6, <2>1 DEF HolderOK, Holding, LeftAlone
  <2>2. CASE ~Holding(w)
    BY <1>6, <2>2 DEF HolderOK, Holding
  <2> QED
    BY <2>1, <2>2
<1>8. OneHolder'
  BY <1>6 DEF IInv, OneHolder
<1> QED
  BY <1>4, <1>5, <1>7, <1>8 DEF IInv

-----------------------------------------------------------------------------
LEMMA StepIInv == IInv /\ [Next]_vars => IInv'
<1> SUFFICES ASSUME IInv, [Next]_vars PROVE IInv'
  OBVIOUS
<1>1. ASSUME NEW w \in Workers, CycleStep(w)
      PROVE  IInv'
  <2>1. ASSUME NEW outcome \in Outcomes, NEW m \in Msgs,
               \/ Sweep(w, outcome) \/ Select(w, outcome) \/ Claim(w, m, outcome)
               \/ RecordSent(w, outcome) \/ Settle(w, outcome) \/ Log(w, outcome)
               \/ Confirm(w, outcome) \/ Mark(w, outcome) \/ MarkVersion(w, outcome)
        PROVE  IInv'
    BY <2>1, SweepKeeps, SelectKeeps, ClaimKeeps, RecordSentKeeps, SettleKeeps,
       BookkeepingKeeps
  <2>2. ASSUME NEW outcome \in Outcomes,
               \/ Sweep(w, outcome) \/ Select(w, outcome)
               \/ RecordSent(w, outcome) \/ Settle(w, outcome) \/ Log(w, outcome)
               \/ Confirm(w, outcome) \/ Mark(w, outcome) \/ MarkVersion(w, outcome)
        PROVE  IInv'
    BY <2>2, SweepKeeps, SelectKeeps, RecordSentKeeps, SettleKeeps, BookkeepingKeeps
  <2>3. ASSUME NEW e \in Errors \cup {"none"},
               Prepare(w, e) \/ \E taken \in BOOLEAN : Send(w, e, taken)
        PROVE  IInv'
    BY <2>3, PrepareKeeps, SendKeeps
  <2> QED
    BY <1>1, <2>1, <2>2, <2>3 DEF CycleStep
<1>2. ASSUME NEW w \in Workers, Crash(w)
      PROVE  IInv'
  BY <1>2, CrashKeeps
<1>3. ASSUME NEW m \in Msgs,
             \/ \E later \in BOOLEAN : QueueEmail(m, later)
             \/ Retry(m) \/ BackoffElapses(m) \/ ClaimAges(m)
      PROVE  IInv'
  BY <1>3, OutsideKeeps
<1>4. CASE UNCHANGED vars
  BY <1>4 DEF vars, cycle, IInv, TypeOK, HolderOK, Holding, OneHolder, RowOK
<1> QED
  BY <1>1, <1>2, <1>3, <1>4 DEF Next

LEMMA AlwaysIInv == Spec => []IInv
  BY InitIInv, StepIInv, PTL DEF Spec

-----------------------------------------------------------------------------
(* The theorems.                                                           *)

\* Every reachable state is well typed.
THEOREM TypeCorrect == Spec => []TypeOK
<1>1. IInv => TypeOK
  BY DEF IInv
<1> QED
  BY <1>1, AlwaysIInv, PTL

\* Overlapping cycles, deaths, failed queries, stalled claims and operator
\* retries never make processEmailQueue hand a message to the provider that
\* the provider has taken.
THEOREM TakenOnce == Spec => []AtMostOneAcceptance
<1>1. IInv => AtMostOneAcceptance
  BY DEF IInv, RowOK, AtMostOneAcceptance
<1> QED
  BY <1>1, AlwaysIInv, PTL

\* A message the provider has taken is never left to a claim or to the
\* operator's retry: the catch block records only REVIEW_REQUIRED for it.
THEOREM TakenNeverRetryable == Spec => []AcceptedIsNeverRetryable
<1>1. IInv => AcceptedIsNeverRetryable
  BY DEF IInv, RowOK, Held, AcceptedIsNeverRetryable
<1> QED
  BY <1>1, AlwaysIInv, PTL

\* SENT in email_queue is never a guess.
THEOREM SentIsTaken == Spec => []SentMeansAccepted
<1>1. IInv => SentMeansAccepted
  BY DEF IInv, RowOK, SentMeansAccepted
<1> QED
  BY <1>1, AlwaysIInv, PTL

\* Only a claim makes a row SENDING, and it checks the due time itself,
\* whatever the SELECT of its cycle saw.
LEMMA OnlyDueIsSent == IInv /\ [Next]_vars =>
    \A m \in Msgs : queue'[m].status = "SENDING" /\ queue[m].status # "SENDING" => ~queue[m].waiting
<1> SUFFICES ASSUME IInv, [Next]_vars, NEW m \in Msgs,
                    queue'[m].status = "SENDING", queue[m].status # "SENDING"
             PROVE  ~queue[m].waiting
  OBVIOUS
<1>1. queue \in [Msgs -> Row] /\ queue' # queue
  BY DEF IInv, TypeOK, Row
<1>2. ASSUME NEW w \in Workers, NEW n \in Msgs, NEW outcome \in Outcomes, Claim(w, n, outcome)
      PROVE  ~queue[m].waiting
  BY <1>1, <1>2 DEF Claim, Claimable, Due, Row
<1>3. ASSUME NEW w \in Workers, NEW outcome \in Outcomes, Settle(w, outcome)
      PROVE  FALSE
  <2>1. row[w] \in Msgs /\ verdict[w] \in {"RETRY", "FAILED", "REVIEW_REQUIRED"}
    BY <1>3 DEF IInv, HolderOK, Holding, Settle
  <2> QED
    BY <1>1, <1>3, <2>1 DEF Settle, Row
<1>4. ASSUME NEW w \in Workers, NEW outcome \in Outcomes,
             Sweep(w, outcome) \/ RecordSent(w, outcome)
      PROVE  FALSE
  BY <1>1, <1>4 DEF Sweep, Abandoned, RecordSent, Row
<1>5. ASSUME NEW n \in Msgs,
             \/ \E later \in BOOLEAN : QueueEmail(n, later)
             \/ Retry(n) \/ BackoffElapses(n) \/ ClaimAges(n)
      PROVE  FALSE
  BY <1>1, <1>5 DEF QueueEmail, Retry, BackoffElapses, ClaimAges, Row
<1> QED
  BY <1>1, <1>2, <1>3, <1>4, <1>5
     DEF Next, CycleStep, Select, Prepare, Send, Log, Confirm, Mark, MarkVersion, Crash, vars

\* A back-off that any cycle recorded is respected by every other cycle,
\* however old the snapshot it works from.
THEOREM BackoffKept == Spec => BackoffIsRespected
<1>1. IInv /\ [Next]_vars =>
        [\A m \in Msgs : queue'[m].status = "SENDING" /\ queue[m].status # "SENDING"
                            => ~queue[m].waiting]_vars
  BY OnlyDueIsSent
<1> QED
  BY <1>1, AlwaysIInv, PTL DEF Spec, BackoffIsRespected

-----------------------------------------------------------------------------
(* What becomes of a row between the call that queues it and its end.        *)

\* A cycle that goes on to log or to report an acceptance has seen one.
AcceptanceOK(w) ==
    pc[w] = "confirm" \/ (pc[w] = "log" /\ verdict[w] = "SENT") => row[w] \in Msgs /\ accepted[row[w]] > 0

\* The cycle has its row in transport, or is to record that it was not taken.
InTransport(w) ==
    \/ pc[w] \in {"prepare", "send", "sent"}
    \/ pc[w] = "settle" /\ verdict[w] # "REVIEW_REQUIRED"

\* Without stalls its row still says so: the sweep did not reach it.
TransportOK(w) == InTransport(w) => queue[row[w]].status = "SENDING" /\ ~queue[row[w]].stale

TransportInv ==
    /\ IInv
    /\ \A w \in Workers : AcceptanceOK(w)
    /\ MaxStalls = 0 => \A w \in Workers : TransportOK(w)

\* Mail that was sent, or may still be.
Live == {"PENDING", "RETRY", "FAILED", "SENDING"}

\* Except by queueing it no step makes a row, and none brings one back.
RowGoesOn(m) ==
    /\ queue'[m].status = "NONE" <=> queue[m].status = "NONE"
    /\ accepted'[m] >= accepted[m]
    /\ MaxStalls = 0 /\ queue'[m].status \in Live => queue[m].status \in Live

\* Nobody's transport of m is disturbed.
Undisturbed(m) == queue'[m].status = queue[m].status /\ queue'[m].stale = queue[m].stale

LEMMA TransportSuffices ==
  ASSUME TransportInv, IInv', NEW w \in Workers, OthersKept(w),
         \A m \in Msgs : RowGoesOn(m),
         \A m \in Msgs : \/ Undisturbed(m)
                         \/ queue[m].status # "SENDING" \/ queue[m].stale
                         \/ Holding(w) /\ m = row[w],
         AcceptanceOK(w)', MaxStalls = 0 => TransportOK(w)'
  PROVE  TransportInv'
<1>1. ASSUME NEW u \in Workers \ {w} PROVE AcceptanceOK(u)'
  <2>1. pc'[u] = pc[u] /\ row'[u] = row[u] /\ verdict'[u] = verdict[u] /\ AcceptanceOK(u)
    BY DEF OthersKept, TransportInv
  <2>2. \A m \in Msgs : accepted[m] \in Nat /\ accepted'[m] \in Nat /\ accepted'[m] >= accepted[m]
    <3>1. accepted \in [Msgs -> Nat] /\ accepted' \in [Msgs -> Nat]
      BY DEF TransportInv, IInv, TypeOK
    <3> QED
      BY <3>1 DEF RowGoesOn
  <2>3. \A m \in Msgs : accepted[m] > 0 => accepted'[m] > 0
    BY <2>2
  <2> QED
    BY <2>1, <2>3 DEF AcceptanceOK
<1>2. ASSUME MaxStalls = 0, NEW u \in Workers \ {w} PROVE TransportOK(u)'
  <2>1. pc'[u] = pc[u] /\ row'[u] = row[u] /\ verdict'[u] = verdict[u] /\ TransportOK(u)
    BY <1>2 DEF OthersKept, TransportInv
  <2>2. SUFFICES ASSUME InTransport(u) PROVE queue'[row[u]].status = "SENDING" /\ ~queue'[row[u]].stale
    BY <2>1 DEF TransportOK, InTransport
  <2>3. Holding(u)
    BY <2>2 DEF InTransport, Holding
  <2>4. row[u] \in Msgs /\ (Holding(w) => row[u] # row[w])
    BY <2>3 DEF TransportInv, IInv, HolderOK, OneHolder
  <2> QED
    BY <2>1, <2>2, <2>4 DEF TransportOK, Undisturbed
<1> QED
  BY <1>1, <1>2 DEF TransportInv

LEMMA QuietTransport ==
  ASSUME TransportInv, IInv', NEW w \in Workers, OthersKept(w), UNCHANGED <<queue, accepted>>,
         AcceptanceOK(w)', MaxStalls = 0 => TransportOK(w)'
  PROVE  TransportInv' /\ \A m \in Msgs : RowGoesOn(m)
<1>1. \A m \in Msgs : RowGoesOn(m) /\ Undisturbed(m)
  BY DEF RowGoesOn, Undisturbed, TransportInv, IInv, TypeOK
<1> QED
  BY <1>1, TransportSuffices

\* Between its claims a cycle relies on nothing.
LEMMA BetweenRows ==
  ASSUME NEW w, pc'[w] \in {"idle", "select", "claim", "mark", "markVersion"}
  PROVE  AcceptanceOK(w)' /\ TransportOK(w)'
  BY DEF AcceptanceOK, TransportOK, InTransport

\* The catch block, with the row as it was.
LEMMA CaughtTransport ==
  ASSUME TransportInv, NEW w \in Workers, NEW e, Caught(w, e),
         e = "held" \/ (InTransport(w) /\ queue' = queue)
  PROVE  OthersKept(w) /\ AcceptanceOK(w)' /\ (MaxStalls = 0 => TransportOK(w)')
<1>1. /\ OthersKept(w) /\ pc'[w] = "settle" /\ row'[w] = row[w]
      /\ e = "held" <=> verdict'[w] = "REVIEW_REQUIRED"
  BY CaughtEffect DEF TransportInv, IInv
<1> QED
  BY <1>1 DEF TransportInv, AcceptanceOK, TransportOK, InTransport

LEMMA SweepTransport ==
  ASSUME TransportInv, IInv', NEW w \in Workers, NEW outcome \in Outcomes, Sweep(w, outcome)
  PROVE  TransportInv' /\ \A m \in Msgs : RowGoesOn(m)
<1> DEFINE place == IF outcome = "ok" THEN "select" ELSE "idle"
<1>1. TypeOK /\ place \in PCs /\ Goto(w, place)
  BY DEF PCs, Sweep, TransportInv, IInv
<1>2. OthersKept(w) /\ pc'[w] = place
  BY <1>1, GotoEffect
<1>3. AcceptanceOK(w)' /\ TransportOK(w)'
  BY <1>2, BetweenRows
<1>4. ASSUME NEW m \in Msgs
      PROVE  RowGoesOn(m) /\ (Undisturbed(m) \/ queue[m].stale)
  <2>1. \/ queue'[m] = queue[m]
        \/ Abandoned(m) /\ queue'[m] = [queue[m] EXCEPT !.status = "REVIEW_REQUIRED", !.waiting = FALSE]
    BY DEF Sweep
  <2>2. queue[m] \in Row
    BY <1>1 DEF TypeOK, Row
  <2>3. \/ queue'[m] = queue[m]
        \/ queue[m].status = "SENDING" /\ queue[m].stale /\ queue'[m].status = "REVIEW_REQUIRED"
    BY <2>1, <2>2 DEF Row, Abandoned
  <2>4. accepted' = accepted /\ accepted[m] \in Nat
    BY <1>1 DEF Sweep, TypeOK
  <2> QED
    BY <2>3, <2>4 DEF RowGoesOn, Undisturbed, Live
<1> QED
  BY <1>2, <1>3, <1>4, TransportSuffices

LEMMA SelectTransport ==
  ASSUME TransportInv, IInv', NEW w \in Workers, NEW outcome \in Outcomes, Select(w, outcome)
  PROVE  TransportInv' /\ \A m \in Msgs : RowGoesOn(m)
<1>1. OthersKept(w) /\ pc'[w] \in {"idle", "claim"} /\ UNCHANGED <<queue, accepted>>
  BY DEF Select, OthersKept, TransportInv, IInv, TypeOK
<1> QED
  BY <1>1, BetweenRows, QuietTransport

LEMMA ClaimTransport ==
  ASSUME TransportInv, IInv', NEW w \in Workers, NEW n \in Msgs, NEW outcome \in Outcomes,
         Claim(w, n, outcome)
  PROVE  TransportInv' /\ \A m \in Msgs : RowGoesOn(m)
<1>0. TypeOK /\ accepted' = accepted
  BY DEF TransportInv, IInv, Claim
<1>1. CASE queue' = queue /\ (Stop(w) \/ Continue(w, batch[w] \ {n}))
  <2>1. OthersKept(w) /\ pc'[w] \in {"idle", "claim"}
    <3>1. batch[w] \ {n} \in SUBSET Msgs
      BY <1>0 DEF TypeOK
    <3> QED
      BY <1>0, <1>1, <3>1, StopEffect, ContinueEffect
  <2> QED
    BY <1>0, <1>1, <2>1, BetweenRows, QuietTransport
<1>2. CASE /\ Claimable(n)
           /\ queue' = [queue EXCEPT ![n].status = "SENDING", ![n].attempts = @ + 1, ![n].stale = FALSE]
           /\ \/ Stop(w)
              \/ pc' = [pc EXCEPT ![w] = "prepare"] /\ row' = [row EXCEPT ![w] = n] /\ UNCHANGED verdict
  <2>1. /\ queue[n].status \in {"PENDING", "RETRY"}
        /\ queue'[n].status = "SENDING" /\ ~queue'[n].stale
        /\ \A m \in Msgs \ {n} : queue'[m] = queue[m]
    BY <1>0, <1>2 DEF Claimable, Due, TypeOK
  <2>2. \A m \in Msgs : RowGoesOn(m) /\ (Undisturbed(m) \/ queue[m].status # "SENDING")
    BY <1>0, <2>1 DEF RowGoesOn, Undisturbed, Live, TypeOK
  <2>3. CASE Stop(w)
    <3>1. OthersKept(w) /\ pc'[w] \in {"idle", "claim"}
      BY <1>0, <2>3, StopEffect
    <3> QED
      BY <2>2, <3>1, BetweenRows, TransportSuffices
  <2>4. CASE pc' = [pc EXCEPT ![w] = "prepare"] /\ row' = [row EXCEPT ![w] = n] /\ UNCHANGED verdict
    <3>1. OthersKept(w) /\ pc'[w] = "prepare" /\ row'[w] = n
      BY <1>0, <2>4 DEF TypeOK, OthersKept
    <3>2. AcceptanceOK(w)' /\ TransportOK(w)'
      BY <2>1, <3>1 DEF AcceptanceOK, TransportOK
    <3> QED
      BY <2>2, <3>1, <3>2, TransportSuffices
  <2> QED
    BY <1>2, <2>3, <2>4
<1> QED
  BY <1>1, <1>2 DEF Claim, Claimable, Due

LEMMA PrepareTransport ==
  ASSUME TransportInv, IInv', NEW w \in Workers, NEW e \in Errors \cup {"none"}, Prepare(w, e)
  PROVE  TransportInv' /\ \A m \in Msgs : RowGoesOn(m)
<1>1. pc[w] = "prepare" /\ InTransport(w) /\ UNCHANGED <<queue, accepted>> /\ TypeOK
  BY DEF Prepare, InTransport, TransportInv, IInv
<1>2. CASE Goto(w, "send")
  <2>1. OthersKept(w) /\ pc'[w] = "send" /\ row'[w] = row[w]
    BY <1>1, <1>2, GotoEffect DEF PCs
  <2>2. AcceptanceOK(w)' /\ (MaxStalls = 0 => TransportOK(w)')
    BY <1>1, <2>1 DEF AcceptanceOK, TransportOK, TransportInv
  <2> QED
    BY <1>1, <2>1, <2>2, QuietTransport
<1>3. CASE Caught(w, e)
  BY <1>1, <1>3, CaughtTransport, QuietTransport
<1> QED
  BY <1>2, <1>3 DEF Prepare

LEMMA SendTransport ==
  ASSUME TransportInv, IInv', NEW w \in Workers, NEW e \in Errors \cup {"none"}, NEW taken \in BOOLEAN,
         Send(w, e, taken)
  PROVE  TransportInv' /\ \A m \in Msgs : RowGoesOn(m)
<1>1. pc[w] = "send" /\ InTransport(w) /\ queue' = queue /\ TypeOK
  BY DEF Send, InTransport, TransportInv, IInv
<1>2. ASSUME NEW m \in Msgs PROVE RowGoesOn(m) /\ Undisturbed(m)
  <2>1. accepted'[m] >= accepted[m]
    <3>1. accepted' = [accepted EXCEPT ![row[w]] = @ + 1] \/ accepted' = accepted
      BY DEF Send
    <3>2. accepted[m] \in Nat
      BY <1>1 DEF TypeOK
    <3>3. accepted'[m] = accepted[m] \/ accepted'[m] = accepted[m] + 1
      BY <1>1, <3>1 DEF TypeOK
    <3> QED
      BY <3>2, <3>3
  <2> QED
    BY <1>1, <2>1 DEF RowGoesOn, Undisturbed
<1>3. CASE Record(w, "SENT", "sent")
  <2>1. OthersKept(w) /\ pc'[w] = "sent" /\ row'[w] = row[w]
    BY <1>1, <1>3, RecordEffect DEF PCs, Verdicts
  <2>2. AcceptanceOK(w)' /\ (MaxStalls = 0 => TransportOK(w)')
    BY <1>1, <2>1 DEF AcceptanceOK, TransportOK, TransportInv
  <2> QED
    BY <1>2, <2>1, <2>2, TransportSuffices
<1>4. CASE Caught(w, e)
  BY <1>1, <1>2, <1>4, CaughtTransport, TransportSuffices
<1> QED
  BY <1>3, <1>4 DEF Send

LEMMA RecordSentTransport ==
  ASSUME TransportInv, IInv', NEW w \in Workers, NEW outcome \in Outcomes, RecordSent(w, outcome)
  PROVE  TransportInv' /\ \A m \in Msgs : RowGoesOn(m)
<1>1. pc[w] = "sent" /\ Holding(w) /\ accepted' = accepted /\ TypeOK
  BY DEF RecordSent, Holding, TransportInv, IInv
<1>2. row[w] \in Msgs /\ queue[row[w]].status \in Held /\ accepted[row[w]] = 1
  BY <1>1 DEF TransportInv, IInv, HolderOK
<1>3. ASSUME NEW m \in Msgs PROVE RowGoesOn(m) /\ (Undisturbed(m) \/ m = row[w])
  <2>1. queue'[m] = queue[m] \/ (m = row[w] /\ queue'[m].status = "SENT")
    BY <1>1, <1>2 DEF RecordSent, TypeOK
  <2> QED
    BY <1>1, <1>2, <2>1 DEF RowGoesOn, Undisturbed, Live, Held, TypeOK
<1>4. CASE Caught(w, "held")
  BY <1>1, <1>3, <1>4, CaughtTransport, TransportSuffices
<1>5. CASE Done(w)
  BY <1>1, <1>3, <1>5, DoneEffect, BetweenRows, TransportSuffices
<1>6. CASE Goto(w, "log")
  <2>1. OthersKept(w) /\ pc'[w] = "log" /\ row'[w] = row[w]
    BY <1>1, <1>6, GotoEffect DEF PCs
  <2>2. AcceptanceOK(w)' /\ TransportOK(w)'
    BY <1>1, <1>2, <2>1 DEF AcceptanceOK, TransportOK, InTransport
  <2> QED
    BY <1>1, <1>3, <2>1, <2>2, TransportSuffices
<1> QED
  BY <1>4, <1>5, <1>6 DEF RecordSent

LEMMA SettleTransport ==
  ASSUME TransportInv, IInv', NEW w \in Workers, NEW outcome \in Outcomes, Settle(w, outcome)
  PROVE  TransportInv' /\ \A m \in Msgs : RowGoesOn(m)
<1>1. pc[w] = "settle" /\ Holding(w) /\ accepted' = accepted /\ TypeOK
  BY DEF Settle, Holding, TransportInv, IInv
<1>2. /\ row[w] \in Msgs /\ queue[row[w]].status \in Held
      /\ verdict[w] \in {"RETRY", "FAILED", "REVIEW_REQUIRED"}
  BY <1>1 DEF TransportInv, IInv, HolderOK
<1>3. MaxStalls = 0 /\ verdict[w] # "REVIEW_REQUIRED" => queue[row[w]].status = "SENDING"
  BY <1>1 DEF TransportInv, TransportOK, InTransport
<1>4. ASSUME NEW m \in Msgs PROVE RowGoesOn(m) /\ (Undisturbed(m) \/ m = row[w])
  <2>1. queue'[m] = queue[m] \/ (m = row[w] /\ queue'[m].status = verdict[w])
    BY <1>1, <1>2 DEF Settle, TypeOK
  <2> QED
    BY <1>1, <1>2, <1>3, <2>1 DEF RowGoesOn, Undisturbed, Live, Held, TypeOK
<1>5. CASE Stop(w)
  BY <1>1, <1>4, <1>5, StopEffect, BetweenRows, TransportSuffices
<1>6. CASE Goto(w, "log")
  <2>1. OthersKept(w) /\ pc'[w] = "log" /\ row'[w] = row[w] /\ verdict'[w] = verdict[w]
    BY <1>1, <1>6, GotoEffect DEF PCs
  <2>2. AcceptanceOK(w)' /\ TransportOK(w)'
    BY <1>1, <1>2, <2>1 DEF AcceptanceOK, TransportOK, InTransport
  <2> QED
    BY <1>1, <1>4, <2>1, <2>2, TransportSuffices
<1> QED
  BY <1>5, <1>6 DEF Settle

LEMMA BookkeepingTransport ==
  ASSUME TransportInv, IInv', NEW w \in Workers, NEW outcome \in Outcomes,
         Log(w, outcome) \/ Confirm(w, outcome) \/ Mark(w, outcome) \/ MarkVersion(w, outcome)
  PROVE  TransportInv' /\ \A m \in Msgs : RowGoesOn(m)
<1>1. UNCHANGED <<queue, accepted>> /\ TypeOK
  BY DEF Log, Confirm, Mark, MarkVersion, TransportInv, IInv
<1>2. CASE Caught(w, "held")
  BY <1>1, <1>2, CaughtTransport, QuietTransport
<1>3. CASE Done(w) \/ Stop(w)
  BY <1>1, <1>3, DoneEffect, StopEffect, BetweenRows, QuietTransport
<1>4. CASE Goto(w, "mark") \/ Goto(w, "markVersion")
  <2>1. OthersKept(w) /\ pc'[w] \in {"mark", "markVersion"}
    BY <1>1, <1>4, GotoEffect DEF PCs
  <2> QED
    BY <1>1, <2>1, BetweenRows, QuietTransport
<1>5. CASE pc[w] = "log" /\ verdict[w] = "SENT" /\ Goto(w, "confirm")
  <2>1. OthersKept(w) /\ pc'[w] = "confirm" /\ row'[w] = row[w]
    BY <1>1, <1>5, GotoEffect DEF PCs
  <2>2. AcceptanceOK(w)' /\ TransportOK(w)'
    BY <1>1, <1>5, <2>1 DEF AcceptanceOK, TransportOK, InTransport, TransportInv
  <2> QED
    BY <1>1, <2>1, <2>2, QuietTransport
<1> QED
  BY <1>2, <1>3, <1>4, <1>5 DEF Log, Confirm, Mark, MarkVersion

LEMMA CycleTransport ==
  ASSUME TransportInv, NEW w \in Workers, CycleStep(w) \/ Crash(w)
  PROVE  TransportInv' /\ \A m \in Msgs : RowGoesOn(m)
<1>1. IInv'
  BY StepIInv DEF Next, TransportInv
<1>2. CASE Crash(w)
  <2>1. OthersKept(w) /\ pc'[w] \in {"idle", "claim"} /\ UNCHANGED <<queue, accepted>>
    BY <1>2, StopEffect DEF Crash, TransportInv, IInv
  <2> QED
    BY <1>1, <2>1, BetweenRows, QuietTransport
<1>3. CASE CycleStep(w)
  BY <1>1, <1>3, SweepTransport, SelectTransport, ClaimTransport, PrepareTransport, SendTransport,
     RecordSentTransport, SettleTransport, BookkeepingTransport DEF CycleStep
<1> QED
  BY <1>2, <1>3

LEMMA OutsideTransport ==
  ASSUME TransportInv, NEW n \in Msgs, Retry(n) \/ BackoffElapses(n) \/ ClaimAges(n)
  PROVE  TransportInv' /\ \A m \in Msgs : RowGoesOn(m)
<1>1. IInv'
  BY StepIInv DEF Next, TransportInv
<1>2. TypeOK /\ accepted' = accepted /\ UNCHANGED <<pc, row, verdict>>
  BY DEF Retry, BackoffElapses, ClaimAges, cycle, TransportInv, IInv
<1>3. /\ \A m \in Msgs \ {n} : queue'[m] = queue[m]
      /\ \/ queue[n].status \in {"FAILED", "RETRY"} /\ queue'[n].status = "RETRY"
         \/ Undisturbed(n)
         \/ ClaimAges(n) /\ queue'[n].status = queue[n].status
  BY <1>2 DEF Retry, BackoffElapses, ClaimAges, Undisturbed, TypeOK
<1>4. \A m \in Msgs : RowGoesOn(m)
  BY <1>2, <1>3 DEF RowGoesOn, Undisturbed, Live, TypeOK
<1>5. ASSUME MaxStalls = 0, ClaimAges(n), NEW w \in Workers PROVE row[w] # n
  <2>1. ~(faults.stall < MaxStalls)
    BY <1>2, <1>5 DEF TypeOK
  <2> QED
    BY <1>5, <2>1 DEF ClaimAges
<1>6. ASSUME MaxStalls = 0, NEW w \in Workers PROVE TransportOK(w)'
  <2>1. SUFFICES ASSUME InTransport(w) PROVE queue'[row[w]].status = "SENDING" /\ ~queue'[row[w]].stale
    BY <1>2 DEF TransportOK, InTransport
  <2>2. row[w] \in Msgs /\ queue[row[w]].status = "SENDING" /\ ~queue[row[w]].stale
    BY <1>6, <2>1 DEF TransportInv, TransportOK, IInv, HolderOK, Holding, InTransport
  <2> QED
    BY <1>3, <1>5, <1>6, <2>2 DEF Undisturbed
<1>7. \A w \in Workers : AcceptanceOK(w)'
  BY <1>2 DEF TransportInv, AcceptanceOK
<1> QED
  BY <1>1, <1>4, <1>6, <1>7 DEF TransportInv

\* A row that is queued is nobody's.
LEMMA QueueTransport ==
  ASSUME TransportInv, NEW n \in Msgs, NEW later \in BOOLEAN, QueueEmail(n, later)
  PROVE  TransportInv'
<1>1. IInv'
  BY StepIInv DEF Next, TransportInv
<1>2. TypeOK /\ queue[n].status = "NONE" /\ UNCHANGED <<accepted, pc, row, verdict>>
  BY DEF QueueEmail, cycle, TransportInv, IInv
<1>3. \A m \in Msgs \ {n} : queue'[m] = queue[m]
  BY <1>2 DEF QueueEmail, TypeOK
<1>4. ASSUME MaxStalls = 0, NEW w \in Workers PROVE TransportOK(w)'
  <2>1. SUFFICES ASSUME InTransport(w) PROVE queue'[row[w]].status = "SENDING" /\ ~queue'[row[w]].stale
    BY <1>2 DEF TransportOK, InTransport
  <2>2. row[w] \in Msgs /\ queue[row[w]].status = "SENDING" /\ ~queue[row[w]].stale
    BY <1>4, <2>1 DEF TransportInv, TransportOK, IInv, HolderOK, Holding, InTransport
  <2> QED
    BY <1>2, <1>3, <2>2
<1>5. \A w \in Workers : AcceptanceOK(w)'
  BY <1>2 DEF TransportInv, AcceptanceOK
<1> QED
  BY <1>1, <1>4, <1>5 DEF TransportInv

LEMMA InitTransport == ASSUME Init PROVE TransportInv
BY InitIInv DEF Init, TransportInv, AcceptanceOK, TransportOK, InTransport
=============================================================================
