---------------------------- MODULE Submissions -----------------------------
(* Public forms sent more than once: services/publicSubmissionDedupeService, *)
(* which app.js puts before the handlers of public RFQs and leads.  The row  *)
(* of one key: it is claimed by one statement and read by another, the       *)
(* handler runs between, and the claim expires even while it still runs.     *)
(*                                                                           *)
(* A key without Idempotency-Key is made from the payload: it is the case of *)
(* a single payload.                                                         *)
EXTENDS Naturals

CONSTANTS Posts,       \* requests, each with a lock token of its own
          Payloads,
          NoPayload,
          Lifetime,    \* ttlSeconds
          LastTick     \* bound

\* Requests are numbered from 1: 0 is no request.
ASSUME SubmissionsAssumption == Posts \subseteq Nat \ {0} /\ Lifetime \in Nat

VARIABLES
    claim,   \* public_submission_dedupe: status, payload_sha256, lock_token, response, expires_at
    post,    \* what each request is at
    tick     \* NOW(3)

submissionVars == <<claim, post, tick>>

NoPost == [at |-> "none", payload |-> NoPayload, since |-> 0, accepted |-> FALSE, replays |-> 0]

SubmissionsInit ==
    /\ claim = [status |-> "none", payload |-> NoPayload, token |-> 0, response |-> 0, expires |-> 0]
    /\ post = [q \in Posts |-> NoPost]
    /\ tick = 1
-----------------------------------------------------------------------------
At(q, at) == post[q].at = at
Becomes(q, at) == post' = [post EXCEPT ![q].at = at]

\* Mutant: a claim is taken over while its holder may still run.
TakenOver == TRUE

Expired == claim.expires <= tick

\* The statement that claims the key, if it is new or its claim has expired.
Claim(q, payload) ==
    /\ At(q, "none") /\ \A p \in Posts : p < q => ~At(p, "none")
    /\ claim' = IF Expired
                THEN [status |-> "PROCESSING", payload |-> payload, token |-> q, response |-> 0, expires |-> tick + Lifetime]
                ELSE claim
    /\ post' = [post EXCEPT ![q] = [NoPost EXCEPT !.at = "claimed", !.payload = payload, !.since = tick]]
    /\ UNCHANGED tick

\* The row as it is by then: ACQUIRED, REPLAY, or CONFLICT and IN_PROGRESS.
ReadClaim(q) ==
    /\ At(q, "claimed")
    /\ \/ claim.payload = post[q].payload /\ claim.token = q /\ Becomes(q, "running")
       \/ /\ claim.payload = post[q].payload /\ claim.token # q /\ claim.status = "COMPLETED"
          /\ post' = [post EXCEPT ![q].at = "done", ![q].replays = claim.response]
       \/ /\ claim.payload # post[q].payload \/ (claim.token # q /\ claim.status # "COMPLETED")
          /\ Becomes(q, "done")
    /\ UNCHANGED <<claim, tick>>

\* The handler answers: it did what was asked, or it refuses.
Answer(q, accepted) ==
    /\ At(q, "running")
    /\ post' = [post EXCEPT ![q].at = IF accepted THEN "completing" ELSE "abandoning", ![q].accepted = accepted]
    /\ UNCHANGED <<claim, tick>>

\* Mutant: the key is completed for whoever holds it.
WhoeverHolds(q) == TRUE

\* WHERE lock_token = ?
Holds(q) == claim.token = q

CompletePublicSubmission(q) ==
    /\ At(q, "completing")
    /\ claim' = IF Holds(q) THEN [claim EXCEPT !.status = "COMPLETED", !.response = q] ELSE claim
    /\ Becomes(q, "done")
    /\ UNCHANGED tick

AbandonPublicSubmission(q) ==
    /\ At(q, "abandoning")
    /\ claim' = IF Holds(q) THEN [claim EXCEPT !.status = "FAILED", !.expires = tick] ELSE claim
    /\ Becomes(q, "done")
    /\ UNCHANGED tick

\* The process or the database is lost before the claim is finalized; a handler
\* may have done its work by then.
LosePost(q) ==
    /\ post[q].at \in {"claimed", "running", "completing", "abandoning"}
    /\ \E acted \in (IF At(q, "running") THEN BOOLEAN ELSE {post[q].accepted}) :
          post' = [post EXCEPT ![q].at = "done", ![q].accepted = acted]
    /\ UNCHANGED <<claim, tick>>

PassTick == tick < LastTick /\ tick' = tick + 1 /\ UNCHANGED <<claim, post>>

SubmissionsNext ==
    \/ \E q \in Posts :
          \/ \E payload \in Payloads : Claim(q, payload)
          \/ ReadClaim(q) \/ LosePost(q) \/ CompletePublicSubmission(q) \/ AbandonPublicSubmission(q)
          \/ \E accepted \in BOOLEAN : Answer(q, accepted)
    \/ PassTick
-----------------------------------------------------------------------------
SubmissionsTypeOK ==
    /\ claim \in [status : {"none", "PROCESSING", "COMPLETED", "FAILED"}, payload : Payloads \cup {NoPayload},
                  token : Posts \cup {0}, response : Posts \cup {0}, expires : Nat]
    /\ post \in [Posts -> [at : {"none", "claimed", "running", "completing", "abandoning", "done"},
                           payload : Payloads \cup {NoPayload}, since : Nat, accepted : BOOLEAN, replays : Posts \cup {0}]]

\* A key is acted on once within the lifetime of a claim, however often it is
\* sent, however slow the handler is and whatever is lost on the way.
ActedOnOnce ==
    \A p, q \in Posts : p # q /\ post[p].accepted /\ post[q].accepted
        => post[p].since + Lifetime <= post[q].since \/ post[q].since + Lifetime <= post[p].since

\* A replayed answer is one that was given to the same payload.
ReplaysOwnAnswer ==
    \A q \in Posts : post[q].replays # 0 =>
        post[post[q].replays].accepted /\ post[post[q].replays].payload = post[q].payload
=============================================================================
