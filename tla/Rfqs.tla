-------------------------------- MODULE Rfqs --------------------------------
(* Requests for quotation from the office dashboard to their invoice:        *)
(* rfqController.js, createInvoice of invoiceController.js, and the dialogs  *)
(* of public/admin-dashboard.js that call them.  Every server handler is one *)
(* transaction that locks the RFQ.  A tab keeps the retry key of the RFQ it  *)
(* is submitting until an answer arrives, and an edit dialog keeps the       *)
(* revision it was opened with; answers get lost and tabs reload.            *)
EXTENDS Naturals, FiniteSets

CONSTANTS Rfq, Invoice,     \* ids, given out in ascending order
          Content,          \* what customer, material and quantity say
          Tabs,
          SubmitKeys,       \* crypto.randomUUID(), in the order they are drawn
          MaxRevision       \* bound: edits and transitions of one RFQ

ASSUME RfqsAssumption ==
    /\ Rfq \subseteq Nat /\ Invoice \subseteq Nat /\ SubmitKeys \subseteq Nat \ {0}
    /\ MaxRevision \in Nat

VARIABLES
    rfq,       \* rfqs
    bill,      \* invoices with an rfq_id
    form,      \* a tab's window.__rfqSubmission: body and key, or none
    wire,      \* create requests sent and not yet handled
    dialog,    \* a tab's edit dialog: RFQ, revision and the content it shows
    drawn,     \* keys drawn so far
    agreed     \* the content of an RFQ when it was approved

rfqVars == <<rfq, bill, form, wire, dialog, drawn, agreed>>
tabVars == <<form, wire, dialog, drawn>>

Status == {"none", "pending", "approved", "quoted", "rejected", "closed"}
NoForm == [body |-> "none", key |-> 0]
NoDialog == [rfq |-> 0, revision |-> 0, shows |-> "none"]

RfqsInit ==
    /\ rfq = [r \in Rfq |-> [state |-> "none", archived |-> FALSE, revision |-> 0, content |-> "none", key |-> 0]]
    /\ bill = [v \in Invoice |-> [state |-> "none", rfq |-> 0, content |-> "none"]]
    /\ form = [t \in Tabs |-> NoForm]
    /\ wire = {}
    /\ dialog = [t \in Tabs |-> NoDialog]
    /\ drawn = {}
    /\ agreed = [r \in Rfq |-> "none"]

FreshIn(table) == {n \in DOMAIN table : table[n].state = "none" /\ \A k \in DOMAIN table : k < n => table[k].state # "none"}
Live(r) == rfq[r].state # "none" /\ ~rfq[r].archived
-----------------------------------------------------------------------------
(* The tab.                                                                  *)

\* submitRFQ: the same body is sent with the same key, a changed one with a new key.
SubmitRFQ(t, body) ==
    \/ /\ form[t].body = body
       /\ wire' = wire \cup {[tab |-> t, body |-> body, key |-> form[t].key]}
       /\ UNCHANGED <<rfq, bill, form, dialog, drawn, agreed>>
    \/ /\ form[t].body # body
       /\ \E k \in SubmitKeys \ drawn :
             /\ \A j \in SubmitKeys : j < k => j \in drawn
             /\ drawn' = drawn \cup {k}
             /\ form' = [form EXCEPT ![t] = [body |-> body, key |-> k]]
             /\ wire' = wire \cup {[tab |-> t, body |-> body, key |-> k]}
       /\ UNCHANGED <<rfq, bill, dialog, agreed>>

\* The request, or its answer before the handler ran, is lost.
LoseRequest(m) == wire' = wire \ {m} /\ UNCHANGED <<rfq, bill, form, dialog, drawn, agreed>>

Reload(t) ==
    /\ form' = [form EXCEPT ![t] = NoForm] /\ dialog' = [dialog EXCEPT ![t] = NoDialog]
    /\ UNCHANGED <<rfq, bill, wire, drawn, agreed>>

\* editOriginalRfq: the dialog shows what the server has now.
EditOriginalRfq(t, r) ==
    /\ dialog[t] = NoDialog /\ Live(r)
    /\ dialog' = [dialog EXCEPT ![t] = [rfq |-> r, revision |-> rfq[r].revision, shows |-> rfq[r].content]]
    /\ UNCHANGED <<rfq, bill, form, wire, drawn, agreed>>
-----------------------------------------------------------------------------
(* The server.                                                               *)

\* Mutant: the request key is stored but not looked up.
KnownNever(key) == {}

\* The RFQ that was created with this key.
Known(key) == {r \in Rfq : rfq[r].state # "none" /\ rfq[r].key = key}

\* createRFQ: a known key is answered with its RFQ; the answer clears the form or is lost.
CreateRFQ(m) ==
    /\ m \in wire /\ wire' = wire \ {m}
    /\ \/ Known(m.key) # {} /\ UNCHANGED rfq
       \/ /\ Known(m.key) = {}
          /\ \E r \in FreshIn(rfq) :
                rfq' = [rfq EXCEPT ![r] = [state |-> "pending", archived |-> FALSE, revision |-> 0,
                                           content |-> m.body, key |-> m.key]]
    /\ \/ form' = [form EXCEPT ![m.tab] = NoForm]
       \/ UNCHANGED form
    /\ UNCHANGED <<bill, dialog, drawn, agreed>>

Revised(r) == rfq[r].revision < MaxRevision

Transition(r, status, allowed) ==
    /\ Live(r) /\ rfq[r].state \in allowed /\ Revised(r)
    /\ rfq' = [rfq EXCEPT ![r].state = status, ![r].revision = @ + 1]
    /\ agreed' = IF status = "approved" THEN [agreed EXCEPT ![r] = rfq[r].content] ELSE agreed
    /\ UNCHANGED <<bill, tabVars>>

ApproveRFQ(r) == Transition(r, "approved", {"pending"})
RejectRFQ(r) == Transition(r, "rejected", {"pending", "approved"})
CloseRFQ(r) == Transition(r, "closed", {"pending", "approved", "quoted", "rejected"})

\* Mutant: a save does not compare revisions.
CurrentAlways(t) == TRUE

\* The dialog's revision is the RFQ's.
Current(t) == dialog[t].revision = rfq[dialog[t].rfq].revision

\* Mutant: an approved RFQ may be edited.
EditableApproved == {"pending", "rejected", "approved"}

Editable == {"pending", "rejected"}

\* updateRFQ, called from a tab's edit dialog; a refused save leaves the dialog open.
UpdateRFQ(t, content) ==
    LET r == dialog[t].rfq
    IN /\ dialog[t] # NoDialog /\ Live(r) /\ rfq[r].state \in Editable
       /\ Current(t) /\ Revised(r)
       /\ rfq' = [rfq EXCEPT ![r].content = content, ![r].revision = @ + 1]
       /\ dialog' = [dialog EXCEPT ![t] = NoDialog]
       /\ UNCHANGED <<bill, form, wire, drawn, agreed>>

ArchiveRFQ(r) ==
    /\ Live(r) /\ rfq[r].state \in {"closed", "rejected", "pending"} /\ Revised(r)
    /\ rfq' = [rfq EXCEPT ![r].archived = TRUE, ![r].revision = @ + 1]
    /\ UNCHANGED <<bill, tabVars, agreed>>

RestoreRFQ(r) ==
    /\ rfq[r].archived /\ Revised(r)
    /\ rfq' = [rfq EXCEPT ![r].archived = FALSE, ![r].revision = @ + 1]
    /\ UNCHANGED <<bill, tabVars, agreed>>

\* createInvoice: a live invoice of the RFQ is opened instead; otherwise the RFQ is
\* approved and becomes quoted.  The archive flag and the revision play no part.
CreateInvoice(v, r) ==
    /\ v \in FreshIn(bill)
    /\ \A w \in Invoice : bill[w].rfq = r => bill[w].state # "live"
    /\ rfq[r].state = "approved"
    /\ bill' = [bill EXCEPT ![v] = [state |-> "live", rfq |-> r, content |-> rfq[r].content]]
    /\ rfq' = [rfq EXCEPT ![r].state = "quoted"]
    /\ UNCHANGED <<tabVars, agreed>>

\* The invoice is archived or restored (Invoices).
ArchiveBill(v) ==
    /\ bill[v].state # "none"
    /\ bill' = [bill EXCEPT ![v].state = IF @ = "live" THEN "archived" ELSE "live"]
    /\ UNCHANGED <<rfq, tabVars, agreed>>

RfqsNext ==
    \/ \E t \in Tabs : \/ \E c \in Content : SubmitRFQ(t, c) \/ UpdateRFQ(t, c)
                       \/ Reload(t)
                       \/ \E r \in Rfq : EditOriginalRfq(t, r)
    \/ \E m \in wire : LoseRequest(m) \/ CreateRFQ(m)
    \/ \E r \in Rfq : \/ ApproveRFQ(r) \/ RejectRFQ(r) \/ CloseRFQ(r) \/ ArchiveRFQ(r) \/ RestoreRFQ(r)
                      \/ \E v \in Invoice : CreateInvoice(v, r)
    \/ \E v \in Invoice : ArchiveBill(v)

RfqsSpec == RfqsInit /\ [][RfqsNext]_rfqVars
-----------------------------------------------------------------------------
RfqsTypeOK ==
    /\ \A r \in Rfq : /\ rfq[r].state \in Status /\ rfq[r].archived \in BOOLEAN
                      /\ rfq[r].revision \in 0..MaxRevision /\ rfq[r].content \in Content \cup {"none"}
    /\ \A v \in Invoice : bill[v].state \in {"none", "live", "archived"} /\ bill[v].rfq \in Rfq \cup {0}
    /\ drawn \subseteq SubmitKeys

\* An RFQ is invoiced at most once at a time, and the invoice is drawn from the
\* content that was approved: whatever was edited, rejected, archived or invoiced
\* between the approval and the invoice, from any tab.
InvoicedAsApproved ==
    /\ \A v \in Invoice : bill[v].state # "none" => bill[v].content = agreed[bill[v].rfq]
    /\ \A v, w \in Invoice : bill[v].state = "live" /\ bill[w].state = "live" /\ bill[v].rfq = bill[w].rfq => v = w

\* One submission makes one RFQ: retries after lost answers and late copies of a
\* request find it, even when it was edited, closed or archived since.
OneRfqPerSubmission ==
    \A r, s \in Rfq : rfq[r].state # "none" /\ rfq[s].state # "none" /\ rfq[r].key = rfq[s].key => r = s

\* An edit never overwrites content its editor has not seen.
NoLostEdit ==
    [][\A r \in Rfq :
          rfq[r].state # "none" /\ rfq'[r].content # rfq[r].content =>
              \E t \in Tabs : dialog[t].rfq = r /\ dialog[t].shows = rfq[r].content]_rfqVars
=============================================================================
