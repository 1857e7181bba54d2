------------------------------ MODULE Careers -------------------------------
(* Applications for a vacancy: controllers/careersController.js, with the    *)
(* registration of a CV in services/documentSecurityService.js.              *)
(*                                                                           *)
(* The applications of one e-mail address for one vacancy.  A submission     *)
(* looks for a recent application, saves or updates one, registers the CV,   *)
(* attaches it and queues two letters, each on its own connection: several   *)
(* run side by side, and each step may fail, or succeed and lose its answer. *)
EXTENDS Naturals, Sequences, FiniteSets

CONSTANTS Candidates,        \* submissions under way at once
          Details,           \* what an applicant says
          MaxApplications,   \* bound: applications made
          MaxDocuments       \* bound: CVs registered

ASSUME CareersAssumption == Details # {} /\ MaxApplications \in Nat /\ MaxDocuments \in Nat

VARIABLES
    vacancy,        \* career_jobs: its status
    application,    \* career_applications
    document,       \* secure_documents of module careers
    letters,        \* email_queue, by idempotency key
    submission      \* what each submission has read and done

careerVars == <<vacancy, application, document, letters, submission>>

Kinds == {"admin", "candidate"}
Waiting == [at |-> "idle", details |-> CHOOSE d \in Details : TRUE, seen |-> 0, reference |-> 0, application |-> 0, document |-> 0, secured |-> FALSE]

CareersInit ==
    /\ vacancy = "OPEN"
    /\ application = << >> /\ document = << >> /\ letters = {}
    /\ submission = [c \in Candidates |-> Waiting]
-----------------------------------------------------------------------------
\* created_at within 30 minutes.  Several recent ones come from submissions side
\* by side, often within a second: any of them may be the one that is found.
Recent == {a \in DOMAIN application : application[a].recent}
Goes(c, step) == submission' = [submission EXCEPT ![c].at = step]

\* public_id.  Mutant: a retry takes one of its own.
FreshReference(c) == Len(application) + Cardinality(letters) + 1
Reference(c) == LET seen == submission[c].seen IN IF seen # 0 THEN application[seen].reference ELSE Len(application) + 1

\* Mutant: a retry updates an application that has its CV.
UpdatableAlways(a) == TRUE
Updatable(a) == application[a].resume = 0

Submit(c, details) ==
    /\ submission[c].at \in {"idle", "answered"} /\ vacancy = "OPEN"
    /\ \E seen \in IF Recent = {} THEN {0} ELSE Recent :
        /\ seen # 0 => application[seen].resume = 0
        /\ submission' = [submission EXCEPT ![c] = [Waiting EXCEPT !.at = "save", !.details = details, !.seen = seen]]
    /\ UNCHANGED <<vacancy, application, document, letters>>

\* The status of a retried application is NEW again.
Save(c) ==
    LET s == submission[c] IN
    /\ s.at = "save"
    /\ \/ /\ s.seen = 0 /\ Len(application) < MaxApplications
          /\ application' = Append(application, [reference |-> Reference(c), details |-> s.details, status |-> "NEW", resume |-> 0, recent |-> TRUE])
       \/ /\ s.seen # 0
          /\ application' = IF Updatable(s.seen) THEN [application EXCEPT ![s.seen].details = s.details, ![s.seen].status = "NEW"]
                            ELSE application
    /\ submission' = [submission EXCEPT ![c] = [Waiting EXCEPT !.at = "register", !.reference = Reference(c),
                                                    !.application = IF s.seen = 0 THEN Len(application) + 1 ELSE s.seen]]
    /\ UNCHANGED <<vacancy, document, letters>>

\* Mutant: the staged file is removed wherever the document is stored.
FileRemoved(remote) == FALSE
FileKept(remote) == ~remote
Registered(c, bytes) == document' = Append(document, [application |-> submission[c].application, bytes |-> bytes])

\* registerDocument: to the object store, if there is one, then into the table.
\* A failure removes the object, although the row may have been written.
RegisterDocument(c, remote) ==
    /\ submission[c].at = "register" /\ Len(document) < MaxDocuments
    /\ Registered(c, remote \/ FileKept(remote))
    /\ submission' = [submission EXCEPT ![c].at = "attach", ![c].document = Len(document) + 1]
    /\ UNCHANGED <<vacancy, application, letters>>

FailToRegister(c) ==
    /\ submission[c].at = "register"
    /\ \/ document' = document
       \/ Len(document) < MaxDocuments /\ \E bytes \in BOOLEAN : Registered(c, bytes)
    /\ Goes(c, "mail")
    /\ UNCHANGED <<vacancy, application, letters>>

\* Whether the answer arrives or not.
Attach(c, answered) ==
    /\ submission[c].at = "attach"
    /\ application' = [application EXCEPT ![submission[c].application].resume = submission[c].document]
    /\ submission' = [submission EXCEPT ![c].at = "mail", ![c].secured = answered]
    /\ UNCHANGED <<vacancy, document, letters>>

FailToAttach(c) ==
    /\ submission[c].at = "attach" /\ Goes(c, "mail")
    /\ UNCHANGED <<vacancy, application, document, letters>>

\* queueApplicationEmails: each is queued unless its key is in the queue, or
\* the attempt fails.
QueueEmails(c) ==
    LET s == submission[c]
        Absent(kind) == ~ \E l \in letters : l.reference = s.reference /\ l.kind = kind
    IN
    /\ s.at = "mail"
    /\ submission' = [submission EXCEPT ![c] = [Waiting EXCEPT !.at = "answered", !.application = s.application, !.secured = s.secured]]
    /\ \E kinds \in SUBSET Kinds :
        letters' = letters \cup {[reference |-> s.reference, application |-> s.application, kind |-> k] : k \in {k \in kinds : Absent(k)}}
    /\ UNCHANGED <<vacancy, application, document>>

LoseSubmission(c) ==
    /\ submission[c].at \notin {"idle", "answered"}
    /\ submission' = [submission EXCEPT ![c] = Waiting]
    /\ UNCHANGED <<vacancy, application, document, letters>>

UpdateApplicationStatus(a, status) ==
    /\ a \in DOMAIN application
    /\ application' = [application EXCEPT ![a].status = status]
    /\ UNCHANGED <<vacancy, document, letters, submission>>

SetJobStatus(status) ==
    /\ vacancy' = status
    /\ UNCHANGED <<application, document, letters, submission>>

HalfAnHourPasses ==
    /\ application' = [a \in DOMAIN application |-> [application[a] EXCEPT !.recent = FALSE]]
    /\ UNCHANGED <<vacancy, document, letters, submission>>

CareersNext ==
    \/ \E c \in Candidates :
        \/ \E details \in Details : Submit(c, details)
        \/ Save(c) \/ FailToRegister(c) \/ FailToAttach(c) \/ QueueEmails(c) \/ LoseSubmission(c)
        \/ \E remote \in BOOLEAN : RegisterDocument(c, remote)
        \/ \E answered \in BOOLEAN : Attach(c, answered)
    \/ \E a \in DOMAIN application, status \in {"NEW", "SCREENING"} : UpdateApplicationStatus(a, status)
    \/ \E status \in {"OPEN", "CLOSED"} : SetJobStatus(status)
    \/ HalfAnHourPasses
-----------------------------------------------------------------------------
CareersTypeOK ==
    /\ vacancy \in {"OPEN", "CLOSED"}
    /\ \A a \in DOMAIN application :
        application[a] \in [reference : Nat, details : Details, status : {"NEW", "SCREENING"}, resume : 0..MaxDocuments, recent : BOOLEAN]
    /\ \A d \in DOMAIN document : document[d] \in [application : DOMAIN application, bytes : BOOLEAN]
    /\ letters \subseteq [reference : Nat, application : DOMAIN application, kind : Kinds]
    /\ submission \in [Candidates -> [at : {"idle", "save", "register", "attach", "mail", "answered"}, details : Details,
                          seen : 0..MaxApplications, reference : Nat, application : 0..MaxApplications, document : 0..MaxDocuments, secured : BOOLEAN]]

\* A CV attached to an application was registered for it and can be read, and
\* whoever is told that the CV is secured has an application with one: also
\* when an earlier registration failed half way and removed its object.
ResumeIsKept ==
    /\ \A a \in DOMAIN application :
        LET d == application[a].resume IN d # 0 => document[d].application = a /\ document[d].bytes
    /\ \A c \in Candidates :
        submission[c].secured => application[submission[c].application].resume # 0

\* However often its submission is retried, an application is announced to the
\* recruiters and confirmed to the applicant once.
OneLetterEach ==
    \A a \in DOMAIN application, k \in Kinds : Cardinality({l \in letters : l.application = a /\ l.kind = k}) <= 1

\* Once the CV is attached, no retry that looked before rewrites what it was
\* sent in with.
SecuredDetailsStand ==
    [][\A a \in DOMAIN application :
         application[a].resume # 0 => application'[a].details = application[a].details]_careerVars
=============================================================================
