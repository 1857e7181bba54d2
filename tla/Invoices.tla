------------------------------ MODULE Invoices ------------------------------
(***************************************************************************)
(* One invoice and its payment register (controllers/invoiceController.js, *)
(* services/invoiceSummaryService.js).  Every operation locks the invoice  *)
(* row for the whole of its transaction, so each is one step; requests of  *)
(* any number of users come in any order.  A request that is repeated      *)
(* with its idempotency key changes nothing and is left out.               *)
(*                                                                         *)
(* Amounts are small numbers of cents.  An invoice may predate the         *)
(* payment register: its status then claims a payment that no row          *)
(* supports, until the claim is reviewed.                                  *)
(*                                                                         *)
(* Bounds: Totals an edit may choose, payment requests Keys, MaxRevision   *)
(* document revisions.                                                     *)
(***************************************************************************)
EXTENDS Naturals, FiniteSetsExt, Functions

CONSTANTS
    Keys,        \* payment requests, one payment each
    Totals,      \* totals an edit may choose, in cents
    MaxRevision

VARIABLES
    invoice,   \* the row of invoices, with the content its items make up
    payments,  \* invoice_payments by request key; amount 0 until recorded
    history    \* what invoice_activity and the customer's mailbox hold

ledger == <<invoice, payments, history>>

Status  == {"draft", "rejected", "approved", "sent", "paid"}
Amounts == 0..Max(Totals)

TypeOK ==
    /\ invoice \in [status : Status, deleted : BOOLEAN, total : Totals,
                    revision : 1..MaxRevision, content : 1..MaxRevision]
    /\ payments \in [Keys -> [amount : Amounts, voided : BOOLEAN]]
    /\ history \in [lifecycle : {"none", "approved", "sent"}, \* last such activity
                    approved : 0..MaxRevision,  \* content approved, or taken over, last
                    issued : 0..MaxRevision,    \* content the provider's acceptance marked sent
                    legacy : BOOLEAN]           \* a paid claim nobody has reviewed

\* A new draft, or a historical invoice marked paid.
Init ==
    /\ \E total \in Totals, legacy \in BOOLEAN :
          invoice = [status |-> IF legacy THEN "paid" ELSE "draft", deleted |-> FALSE,
                     total |-> total, revision |-> 1, content |-> 1]
    /\ payments = [k \in Keys |-> [amount |-> 0, voided |-> FALSE]]
    /\ \E lifecycle \in {"none", "approved", "sent"} :
          /\ invoice.status = "draft" => lifecycle = "none"
          /\ history = [lifecycle |-> lifecycle,
                        approved |-> IF invoice.status = "draft" THEN 0 ELSE 1,
                        issued |-> 0,
                        legacy |-> invoice.status = "paid"]

-----------------------------------------------------------------------------
\* Payments that have not been voided.
Recorded == SumFunctionOnSet([k \in Keys |-> IF payments[k].voided THEN 0 ELSE payments[k].amount], Keys)

ReviewRequired ==
    \/ Recorded > invoice.total
    \/ invoice.status = "paid" /\ Recorded < invoice.total

\* Sending is allowed and the document is not titled a draft.
Sendable == ~invoice.deleted /\ invoice.status \in {"approved", "sent", "paid"}

Enter(k, amount) == payments' = [payments EXCEPT ![k].amount = amount]

-----------------------------------------------------------------------------
Approve ==
    /\ ~invoice.deleted
    /\ invoice.status \in {"draft", "rejected"}
    /\ invoice' = [invoice EXCEPT !.status = "approved"]
    /\ history' = [history EXCEPT !.lifecycle = "approved", !.approved = invoice.content]
    /\ UNCHANGED payments

Reject ==
    /\ ~invoice.deleted
    /\ invoice.status \in {"draft", "approved"}
    /\ invoice' = [invoice EXCEPT !.status = "rejected"]
    /\ UNCHANGED <<payments, history>>

\* A payment, or the settlement of the whole balance.
SavePayment(k, amount) ==
    /\ ~invoice.deleted
    /\ invoice.status \in {"approved", "sent"}
    /\ payments[k].amount = 0
    /\ amount > 0 /\ Recorded + amount <= invoice.total
    /\ Enter(k, amount)
    /\ invoice' = [invoice EXCEPT
         !.status = IF Recorded + amount = invoice.total THEN "paid" ELSE @]
    /\ UNCHANGED history

\* Mutant: voiding leaves the invoice paid.
VoidKeepsPaid(k) ==
    /\ ~invoice.deleted
    /\ payments[k].amount > 0 /\ ~payments[k].voided
    /\ payments' = [payments EXCEPT ![k].voided = TRUE]
    /\ UNCHANGED <<invoice, history>>

VoidPayment(k) ==
    /\ ~invoice.deleted
    /\ payments[k].amount > 0 /\ ~payments[k].voided
    /\ payments' = [payments EXCEPT ![k].voided = TRUE]
    /\ invoice' = [invoice EXCEPT !.status = IF @ = "paid" THEN "approved" ELSE @]
    /\ UNCHANGED history

Archive == /\ invoice' = [invoice EXCEPT !.deleted = ~@]
           /\ UNCHANGED <<payments, history>>

\* An approved invoice that is edited is a draft again.
Edit(total) ==
    /\ ~invoice.deleted
    /\ invoice.status \in {"draft", "rejected", "approved"}
    /\ invoice.revision < MaxRevision
    /\ invoice' = [invoice EXCEPT !.total = total, !.revision = @ + 1,
                                  !.content = invoice.revision + 1,
                                  !.status = IF @ = "approved" THEN "draft" ELSE @]
    /\ UNCHANGED <<payments, history>>

\* The status a reviewed invoice returns to.
ReviewedStatus(paid) ==
    IF paid = invoice.total /\ invoice.total > 0 THEN "paid"
    ELSE IF history.lifecycle # "none" THEN history.lifecycle ELSE "draft"

\* Mutant: a register that exceeds the total can be confirmed too.
ConfirmOverpaid ==
    /\ ~invoice.deleted /\ ReviewRequired
    /\ invoice.revision < MaxRevision
    /\ invoice' = [invoice EXCEPT !.status = ReviewedStatus(Recorded), !.revision = @ + 1]
    /\ history' = [history EXCEPT !.legacy = FALSE]
    /\ UNCHANGED payments

\* The payment register is confirmed to be complete as it is.
ConfirmRegister ==
    /\ ~invoice.deleted /\ ReviewRequired
    /\ Recorded <= invoice.total
    /\ invoice.revision < MaxRevision
    /\ invoice' = [invoice EXCEPT !.status = ReviewedStatus(Recorded), !.revision = @ + 1]
    /\ history' = [history EXCEPT !.legacy = FALSE]
    /\ UNCHANGED payments

\* A receipt that was missing in the register is recorded.
RecordReceipt(k, amount) ==
    /\ ~invoice.deleted /\ ReviewRequired
    /\ payments[k].amount = 0
    /\ amount > 0 /\ Recorded + amount <= invoice.total
    /\ invoice.revision < MaxRevision
    /\ Enter(k, amount)
    /\ invoice' = [invoice EXCEPT !.status = ReviewedStatus(Recorded + amount),
                                  !.revision = @ + 1]
    /\ history' = [history EXCEPT !.legacy = FALSE]

\* The e-mail queue reports that the provider took a document of this
\* invoice; without effect unless the invoice is approved.
MarkSent ==
    IF ~invoice.deleted /\ invoice.status = "approved"
    THEN /\ invoice' = [invoice EXCEPT !.status = "sent"]
         /\ history' = [history EXCEPT !.issued = invoice.content]
         /\ UNCHANGED payments
    ELSE UNCHANGED ledger

-----------------------------------------------------------------------------
\* What changes nothing but the ledger.
Operation ==
    \/ Approve
    \/ Reject
    \/ \E k \in Keys :
          \/ \E amount \in Amounts : SavePayment(k, amount) \/ RecordReceipt(k, amount)
          \/ VoidPayment(k)
    \/ Archive
    \/ ConfirmRegister

Next ==
    \/ Operation
    \/ \E total \in Totals : Edit(total)
    \/ MarkSent

Spec == Init /\ [][Next]_ledger

-----------------------------------------------------------------------------
\* The status paid is backed by payments that add up to the total; only a
\* historical claim that nobody has reviewed is not.
PaidIsCovered ==
    invoice.status = "paid" => history.legacy \/ Recorded = invoice.total

\* What is approved, sent or paid is the content that was last approved: no
\* chain of edits, payments, voids and reviews gets around the approval.
ApprovedContentStands ==
    invoice.status \in {"approved", "sent", "paid"} => history.approved = invoice.content

\* "Sent and paid invoices retain their issued content": what a customer was
\* sent is what the invoice still says.
IssuedContentIsRetained ==
    history.issued > 0 => history.issued = invoice.content
=============================================================================
