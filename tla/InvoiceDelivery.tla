--------------------------- MODULE InvoiceDelivery ---------------------------
(***************************************************************************)
(* An invoice on its way to the customer: sendInvoice with                 *)
(* queueDocumentEmail (services/documentDeliveryService.js) and its table  *)
(* document_delivery_requests, composed with the invoice (Invoices) and    *)
(* the e-mail queue (EmailQueue).  All mail goes to one customer, so a     *)
(* request is identified by its document, and the document's request key   *)
(* is also the idempotency key of its row in the queue.                    *)
(*                                                                         *)
(* A Sender is one call of sendInvoice at a time; senders, cycles of the   *)
(* queue and users of the ledger interleave between their queries.         *)
(*                                                                         *)
(* Bounds: those of Invoices and EmailQueue.                               *)
(***************************************************************************)
EXTENDS Naturals, FiniteSets

CONSTANTS
    Keys, Totals, MaxRevision,                                   \* of Invoices
    Workers, NoMsg, MaxAttempts,                                 \* of EmailQueue
    MaxClaims, MaxRetries, MaxCrashes, MaxDbErrors, MaxStalls,
    Senders,   \* calls of sendInvoice, on all replicas
    NoDoc

VARIABLES
    invoice, payments, history,                                  \* of Invoices
    queue, accepted, pc, batch, seen, row, verdict, faults,      \* of EmailQueue
    requests,  \* document_delivery_requests, by document
    senders    \* where each call awaits, and the document it loaded

I == INSTANCE Invoices

\* What invoiceDocumentData derives from the invoice; the content is that
\* of its items, the revision is the sourceVersion.
Docs == {d \in [revision : 1..MaxRevision, content : 1..MaxRevision,
                paid : I!Amounts, review : BOOLEAN] :
            d.content <= d.revision /\ (d.review => d.paid = 0)}

Q == INSTANCE EmailQueue WITH Msgs <- Docs, Weekly <- {}, Invoices <- Docs

ASSUME NoDocAssumption == NoDoc \notin Docs

ASSUME LedgerAssumption ==
    /\ IsFiniteSet(Keys)
    /\ Totals \subseteq Nat /\ IsFiniteSet(Totals) /\ Totals # {}
    /\ MaxRevision \in Nat \ {0}      \* the first revision is 1

ASSUME QueueAssumption ==
    /\ NoMsg \notin Docs
    /\ MaxAttempts \in Nat \ {0}
    /\ {MaxClaims, MaxRetries, MaxCrashes, MaxDbErrors, MaxStalls} \subseteq Nat

ledger == <<invoice, payments, history>>
mail   == <<queue, accepted, pc, batch, seen, row, verdict, faults>>
vars   == <<ledger, mail, requests, senders>>

Generation == {"NONE", "PENDING", "GENERATING", "GENERATION_FAILED", "VALIDATED"}

TypeOK ==
    /\ I!TypeOK
    /\ Q!TypeOK
    /\ requests \in [Docs -> [status : Generation, aged : BOOLEAN]]
    /\ senders \in [Senders -> [at : {"idle", "loaded", "claim", "rendering", "failing"},
                                doc : Docs \cup {NoDoc}]]

Init ==
    /\ I!Init
    /\ Q!Init
    /\ requests = [d \in Docs |-> [status |-> "NONE", aged |-> FALSE]]
    /\ senders = [s \in Senders |-> [at |-> "idle", doc |-> NoDoc]]

-----------------------------------------------------------------------------
(* sendInvoice.                                                            *)

CurrentDoc ==
    [revision |-> invoice.revision, content |-> invoice.content,
     paid |-> IF I!ReviewRequired THEN 0 ELSE I!Recorded, review |-> I!ReviewRequired]

Goto(s, place) ==
    senders' = [senders EXCEPT ![s] = IF place = "idle" THEN [at |-> "idle", doc |-> NoDoc]
                                      ELSE [at |-> place, doc |-> senders[s].doc]]

SetStatus(d, status) == requests' = [requests EXCEPT ![d] = [status |-> status, aged |-> FALSE]]

\* The document is read in a transaction of its own.
Load(s) ==
    /\ senders[s].at = "idle"
    /\ I!Sendable
    /\ senders' = [senders EXCEPT ![s] = [at |-> "loaded", doc |-> CurrentDoc]]
    /\ UNCHANGED <<ledger, mail, requests>>

\* The request is created or found; one that has its row in the queue is
\* answered with that row's state.
Request(s) ==
    LET d == senders[s].doc IN
    /\ senders[s].at = "loaded"
    /\ IF requests[d].status = "NONE" THEN SetStatus(d, "PENDING") ELSE UNCHANGED requests
    /\ Goto(s, IF queue[d].status # "NONE" THEN "idle" ELSE "claim")
    /\ UNCHANGED <<ledger, mail>>

\* A document that has been generating for five minutes may be claimed again.
ClaimGeneration(s) ==
    LET d == senders[s].doc
        claimed == \/ requests[d].status \in {"PENDING", "GENERATION_FAILED"}
                   \/ requests[d].status = "GENERATING" /\ requests[d].aged
    IN  /\ senders[s].at = "claim"
        /\ IF claimed THEN SetStatus(d, "GENERATING") ELSE UNCHANGED requests
        /\ Goto(s, IF claimed THEN "rendering" ELSE "idle")
        /\ UNCHANGED <<ledger, mail>>

\* Mutant: the invoice is not loaded again before the row is inserted.
CurrentWhenLoaded(d) == I!Sendable

\* beforeQueue, under the lock of the invoice.
StillCurrent(d) == I!Sendable /\ CurrentDoc = d

\* Mutant: without the idempotency key the document is queued once more.
EnqueueAgain(d) ==
    /\ queue' = [queue EXCEPT ![d] = [status |-> "PENDING", attempts |-> 0,
                                      waiting |-> FALSE, stale |-> FALSE]]
    /\ UNCHANGED <<accepted, pc, batch, seen, row, verdict, faults>>

\* The row of the queue; a key that is there already is found, not repeated.
Enqueue(d) ==
    IF queue[d].status = "NONE"
    THEN Q!QueueEmail(d, FALSE)
    ELSE UNCHANGED mail

\* Mutant: the invoice is marked sent when its document is queued.
CommitMarksSent(s, outcome) ==
    LET d == senders[s].doc IN
    /\ senders[s].at = "rendering"
    /\ StillCurrent(d)
    /\ IF outcome = "error" THEN UNCHANGED <<ledger, mail, requests>>
       ELSE Enqueue(d) /\ SetStatus(d, "VALIDATED") /\ I!MarkSent
    /\ Goto(s, IF outcome = "ok" THEN "idle" ELSE "failing")

\* The row and the validated request are committed together.
Commit(s, outcome) ==
    LET d == senders[s].doc IN
    /\ senders[s].at = "rendering"
    /\ StillCurrent(d)
    /\ IF outcome = "error" THEN UNCHANGED <<mail, requests>>
       ELSE Enqueue(d) /\ SetStatus(d, "VALIDATED")
    /\ Goto(s, IF outcome = "ok" THEN "idle" ELSE "failing")
    /\ UNCHANGED ledger

\* Rendering or validation fails, or beforeQueue refuses.
RenderFails(s) ==
    /\ senders[s].at = "rendering"
    /\ Goto(s, "failing")
    /\ UNCHANGED <<ledger, mail, requests>>

\* Mutant: the failure is recorded whatever became of the commit.
RecordAnyFailure(s, outcome) ==
    LET d == senders[s].doc IN
    /\ senders[s].at = "failing"
    /\ IF outcome # "error" THEN SetStatus(d, "GENERATION_FAILED") ELSE UNCHANGED requests
    /\ Goto(s, "idle")
    /\ UNCHANGED <<ledger, mail>>

\* "A lost commit response must not downgrade an already committed document."
RecordFailure(s, outcome) ==
    LET d == senders[s].doc IN
    /\ senders[s].at = "failing"
    /\ IF outcome # "error" /\ requests[d].status # "VALIDATED"
       THEN SetStatus(d, "GENERATION_FAILED") ELSE UNCHANGED requests
    /\ Goto(s, "idle")
    /\ UNCHANGED <<ledger, mail>>

SenderCrash(s) ==
    /\ senders[s].at # "idle"
    /\ Goto(s, "idle")
    /\ UNCHANGED <<ledger, mail, requests>>

GenerationAges(d) ==
    /\ requests[d].status = "GENERATING"
    /\ requests' = [requests EXCEPT ![d].aged = TRUE]
    /\ UNCHANGED <<ledger, mail, senders>>

-----------------------------------------------------------------------------
(* The queue and the ledger.                                               *)

Cancellable == {"PENDING", "RETRY", "FAILED"}

NotInTransport == \A d \in Docs : queue[d].status # "SENDING"

\* editInvoice: queued mail of the old content is cancelled.
Edit(total) ==
    /\ NotInTransport
    /\ I!Edit(total)
    /\ queue' = [d \in Docs |-> IF queue[d].status \in Cancellable
                                THEN [queue[d] EXCEPT !.status = "CANCELLED"] ELSE queue[d]]
    /\ UNCHANGED <<accepted, pc, batch, seen, row, verdict, faults, requests, senders>>

LedgerStep == I!Operation /\ UNCHANGED <<mail, requests, senders>>

\* After the row and the log of an accepted message the invoice is updated.
Confirm(w, outcome) ==
    /\ Q!Confirm(w, outcome)
    /\ IF outcome = "error" THEN UNCHANGED ledger ELSE I!MarkSent
    /\ UNCHANGED <<requests, senders>>

QueueStep ==
    /\ \/ \E w \in Workers : (pc[w] # "confirm" /\ Q!CycleStep(w)) \/ Q!Crash(w)
       \/ \E d \in Docs : Q!Retry(d) \/ Q!BackoffElapses(d) \/ Q!ClaimAges(d)
    /\ UNCHANGED <<ledger, requests, senders>>

Next ==
    \/ \E s \in Senders :
          \/ Load(s)
          \/ Request(s)
          \/ ClaimGeneration(s)
          \/ RenderFails(s)
          \/ SenderCrash(s)
          \/ \E outcome \in Q!Outcomes : Commit(s, outcome) \/ RecordFailure(s, outcome)
    \/ \E d \in Docs : GenerationAges(d)
    \/ \E total \in Totals : Edit(total)
    \/ LedgerStep
    \/ \E w \in Workers, outcome \in Q!Outcomes : Confirm(w, outcome)
    \/ QueueStep

Spec == Init /\ [][Next]_vars

-----------------------------------------------------------------------------
\* A request is VALIDATED exactly when its document is in the queue: neither
\* a lost answer of the commit nor a second sender of the same document
\* takes them apart.
QueuedIsValidated ==
    \A d \in Docs : queue[d].status # "NONE" <=> requests[d].status = "VALIDATED"

\* A document is handed to the provider and taken by it at most once, however
\* many senders asked for it.
DeliveredOnce == Q!AtMostOneAcceptance

\* Requests, documents and the queue's rows tell the same story.
DeliveryIsConsistent == TypeOK /\ QueuedIsValidated /\ DeliveredOnce

\* "an edit during rendering cannot deliver stale data": mail that is to be
\* sent or is being sent has the content the invoice has now.  It does not
\* survive a claim that is swept under its living cycle: its run has no such
\* stall, and README.md says what happens with one.
MailIsCurrent ==
    \A d \in Docs : queue[d].status \in {"PENDING", "RETRY", "FAILED", "SENDING"} =>
        d.content = invoice.content

\* An invoice reads sent only when the provider took a document of it, or its
\* own history says so.
SentWasAccepted ==
    invoice.status = "sent" =>
        history.lifecycle = "sent" \/ \E d \in Docs : accepted[d] > 0
=============================================================================
