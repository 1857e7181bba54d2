----------------------------- MODULE MCRecords ------------------------------
(* A small instance of Records for TLC.  Focus leaves out what the followed *)
(* register does not need: initial states of the others, and, within the     *)
(* RFQs and the applications, combinations of one situation with another.    *)
EXTENDS Records, TLC

CONSTANTS clerk, boss, admin

Step(mode, minimum, approvers) ==
    [mode |-> mode, minimum |-> minimum, approvers |-> approvers, escalation |-> {admin}]

\* Boss and admin together; later either, and then both.
Versions ==
    << [self |-> FALSE, steps |-> <<Step("ANY", 2, {boss, admin})>>],
       [self |-> TRUE,  steps |-> <<Step("ANY", 1, {boss, admin}), Step("ALL", 1, {boss, admin})>>] >>

Symmetry == Permutations(Instances) \cup Permutations(Candidates)

\* Two submissions race, or one RFQ is worked on from two tabs.
Handled == drawn \subseteq {1} /\ wire = {} /\ \A t \in Tabs : form[t] = NoForm
Racing == \A r \in Rfq : rfq[r].revision <= 2 /\ rfq[r].state # "approved" /\ \A t \in Tabs : dialog[t] = NoDialog

\* Recruiters decide on one application, no longer advertised or not, or two
\* applications race, or their CVs.
Shortlisted == \E n \in DOMAIN application : application[n].status # "NEW"
Applied ==
    /\ Shortlisted => vacancy = "OPEN" /\ Len(application) <= 1 /\ letters = {}
    /\ vacancy = "CLOSED" => letters = {} /\ document = << >>
    /\ letters = {} \/ document = << >> \/ (Len(application) = 1 /\ Len(document) = 1)
    /\ Len(application) <= 1 \/ Len(document) <= 1

Focus ==
    /\ Applied
    /\ register # "ledger" => invoice.status = "draft" /\ invoice.total = 0
    /\ register # "approval" => \A i \in Instances : instances[i].requester = clerk
    /\ Handled \/ Racing
=============================================================================
