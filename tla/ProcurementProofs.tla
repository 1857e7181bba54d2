-------------------------- MODULE ProcurementProofs --------------------------
(* Proofs about Procurement and ProcurementImport.                            *)
(*                                                                            *)
(* Procurement: nothing is bought that was not approved, what orders,         *)
(* receipts and returns say adds up, and what a submission leaves half done   *)
(* is accounted for, for any number of records and of requests racing for     *)
(* them.  BuyingInv says whose a workflow instance is, what a request that    *)
(* has read its record still knows of it, which request a SUBMITTING record   *)
(* and an unlinked instance belong to, and how receipts and returns refer to  *)
(* each other.                                                                *)
(*                                                                            *)
(* ProcurementImport: what was confirmed is what was shown, and a row becomes *)
(* one entry, for any number of files, screens and workers.  ImportInv says   *)
(* that a screen is never ahead of the batch and, when it shows the batch's   *)
(* revision, shows its rows; and that a row with an entry stays accepted.     *)
EXTENDS Procurement, ProcurementImport, SumProofs, SequenceTheorems

-----------------------------------------------------------------------------
(* The invariant.                                                            *)

Statuses == RequisitionStatus \cup OrderStatus
RequestRecords ==
    [phase : Phases, doc : Docs, was : Statuses, inst : Instances \cup {None},
     new : Instances \cup {None}, opened : Open \cup {"none"}]

\* The workflow instance a record or a request holds is one of that record.
InstanceOf(i, d) == i # None => instance[i].doc = d

DocsFit ==
    /\ \A d \in Docs : InstanceOf(doc[d].instance, d)
    /\ \A d \in Docs : doc[d].status = "none" => doc[d].instance = None /\ line[d].received = 0
    /\ \A o \in Orders : doc[o].status = "none" => source[o].requisition = None
    /\ \A o \in Orders : source[o].requisition # None => doc[source[o].requisition].status # "none"

\* What a request believes of its record was so when it read it.
RequestFits(c) ==
    /\ InstanceOf(c.inst, c.doc) /\ InstanceOf(c.new, c.doc)
    /\ doc[c.doc].status # "none" /\ c.was # "none"
    /\ c.phase = "link" => c.new # None /\ c.opened \in Open
    /\ c.phase = "withdraw" => c.inst # None

RequestsFit ==
    /\ DOMAIN request = Requests
    /\ \A p \in Requests : request[p] # Idle => RequestFits(request[p])

Submitting == {"start", "undo", "link"}

\* The request whose claim put the record into SUBMITTING.  One that found it there
\* is no owner, nor one whose undo would find another instance.
Owns(p, d) ==
    /\ request[p] # Idle /\ request[p].doc = d
    /\ request[p].phase \in Submitting
    /\ request[p].was # "SUBMITTING" /\ request[p].inst = doc[d].instance

SubmittersFit ==
    \A d \in Docs : doc[d].status = "SUBMITTING" => <<d, None>> \in stranded \/ \E p \in Requests : Owns(p, d)

\* While a record has no instance nobody believes in one; a request that submits it
\* finds it in SUBMITTING, one that is about to claim it read DRAFT, and one that is
\* about to cancel it did not read SUBMITTING.
FirstFits(c) ==
    doc[c.doc].instance = None =>
        /\ c.inst = None
        /\ c.phase \in Submitting => doc[c.doc].status = "SUBMITTING"
        /\ c.phase = "claim" => c.was = "DRAFT"
        /\ c.phase = "cancel" => c.was # "SUBMITTING"

FirstFit == \A p \in Requests : request[p] # Idle => FirstFits(request[p])

\* A first submission is one request's ...
OneSubmits ==
    \A p, q \in Requests :
        /\ request[p] # Idle /\ request[p].phase \in Submitting
        /\ request[q] # Idle /\ request[q].phase \in Submitting
        /\ request[p].doc = request[q].doc /\ doc[request[p].doc].instance = None
        => p = q

\* ... and the instances of such a record are being linked, or were stranded.
Linking(p, d, i) == request[p] # Idle /\ request[p].phase = "link" /\ request[p].doc = d /\ request[p].new = i
Accounted ==
    \A d \in Docs, i \in Instances :
        doc[d].instance = None /\ instance[i].doc = d =>
            <<d, i>> \in stranded \/ \E p \in Requests : Linking(p, d, i)

\* Only an awarded RFQ has a selected supplier, and only one.
AwardsFit ==
    \A f \in Rfqs, s \in Suppliers : rfq[f].invite[s] = "SELECTED" =>
        /\ rfq[f].status = "AWARDED"
        /\ \A t \in Suppliers : rfq[f].invite[t] = "SELECTED" => t = s

ReceiptsFit ==
    /\ \A g \in Receipts : goods[g].status = "none" <=> goods[g].order = None
    /\ \A t \in Returns : back[t].status = "none" => back[t].receipt = None
    /\ \A t \in Returns : back[t].receipt # None => goods[back[t].receipt].status # "none"

BuyingInv ==
    /\ TypeOK /\ DocsFit /\ RequestsFit /\ SubmittersFit /\ AwardsFit /\ ReceiptsFit
    /\ FirstFit /\ OneSubmits /\ Accounted
    /\ SpendIsApproved /\ GoodsBalance
-----------------------------------------------------------------------------
(* Which actions change what.                                                *)

\* What can change the status or the instance of a record
LEMMA DocFrame ==
    ASSUME Next
    PROVE  \/ UNCHANGED <<doc, revived>>
           \/ \E r \in Requisitions, q \in 1..MaxQuantity : CreateRequisition(r, q)
           \/ \E f \in Rfqs, r \in Requisitions, c \in SUBSET Suppliers : CreateSupplierRfq(f, r, c)
           \/ \E o \in Orders, r \in Requisitions, s \in Suppliers, f \in Rfqs \cup {None}, q \in 1..MaxQuantity :
                 CreatePurchaseOrder(o, r, s, f, q)
           \/ \E g \in Receipts, o \in Orders, q \in 1..MaxQuantity : ReceiveGoods(g, o, q)
           \/ \E p \in Requests : SubmitClaim(p)
           \/ \E p \in Requests : SubmitUndo(p)
           \/ \E p \in Requests : SubmitLink(p)
           \/ \E p \in Requests : CancelRecord(p)
<1>1. ASSUME Sourcing
      PROVE  \/ UNCHANGED <<doc, revived>>
             \/ \E r \in Requisitions, q \in 1..MaxQuantity : CreateRequisition(r, q)
             \/ \E f \in Rfqs, r \in Requisitions, c \in SUBSET Suppliers : CreateSupplierRfq(f, r, c)
  BY <1>1 DEF Sourcing, RecordSupplierResponse, CloseSupplierRfq, RemoveSupplier,
        RestoreSupplier, docs, later
<1>2. ASSUME Ordering
      PROVE  \/ UNCHANGED <<doc, revived>>
             \/ \E o \in Orders, r \in Requisitions, s \in Suppliers, f \in Rfqs \cup {None}, q \in 1..MaxQuantity :
                   CreatePurchaseOrder(o, r, s, f, q)
             \/ \E g \in Receipts, o \in Orders, q \in 1..MaxQuantity : ReceiveGoods(g, o, q)
  BY <1>2 DEF Ordering, InspectReceipt, CreatePurchaseReturn, RecordCreditNote, docs,
        later
<1>3. ASSUME Approving
      PROVE  \/ UNCHANGED <<doc, revived>>
             \/ \E p \in Requests : SubmitClaim(p)
             \/ \E p \in Requests : SubmitUndo(p)
             \/ \E p \in Requests : SubmitLink(p)
             \/ \E p \in Requests : CancelRecord(p)
  BY <1>3 DEF Approving, SubmitRequisition, SubmitPurchaseOrder, CancelRequisition,
        CancelPurchaseOrder, SubmitStep, CancelStep, Docs, SubmitRead, SubmitStart,
        CancelRead, CancelWithdraw, RequestDies, Decide, docs, later
<1> QED BY <1>1, <1>2, <1>3 DEF Next

\* What can change the lines
LEMMA LineFrame ==
    ASSUME Next
    PROVE  \/ UNCHANGED line
           \/ \E r \in Requisitions, q \in 1..MaxQuantity : CreateRequisition(r, q)
           \/ \E o \in Orders, r \in Requisitions, s \in Suppliers, f \in Rfqs \cup {None}, q \in 1..MaxQuantity :
                 CreatePurchaseOrder(o, r, s, f, q)
           \/ \E g \in Receipts, o \in Orders, q \in 1..MaxQuantity : ReceiveGoods(g, o, q)
           \/ \E t \in Returns, g \in Receipts, q \in 1..MaxQuantity : CreatePurchaseReturn(t, g, q)
<1>1. ASSUME Sourcing
      PROVE  \/ UNCHANGED line
             \/ \E r \in Requisitions, q \in 1..MaxQuantity : CreateRequisition(r, q)
  BY <1>1 DEF Sourcing, CreateSupplierRfq, RecordSupplierResponse, CloseSupplierRfq,
        RemoveSupplier, RestoreSupplier, docs, later
<1>2. ASSUME Ordering
      PROVE  \/ UNCHANGED line
             \/ \E o \in Orders, r \in Requisitions, s \in Suppliers, f \in Rfqs \cup {None}, q \in 1..MaxQuantity :
                   CreatePurchaseOrder(o, r, s, f, q)
             \/ \E g \in Receipts, o \in Orders, q \in 1..MaxQuantity : ReceiveGoods(g, o, q)
             \/ \E t \in Returns, g \in Receipts, q \in 1..MaxQuantity : CreatePurchaseReturn(t, g, q)
  BY <1>2 DEF Ordering, InspectReceipt, RecordCreditNote, docs, later
<1>3. ASSUME Approving
      PROVE  \/ UNCHANGED line
  BY <1>3 DEF Approving, SubmitRequisition, SubmitPurchaseOrder, CancelRequisition,
        CancelPurchaseOrder, SubmitStep, CancelStep, Docs, SubmitRead, SubmitClaim,
        SubmitStart, SubmitUndo, SubmitLink, CancelRead, CancelWithdraw, CancelRecord,
        RequestDies, Decide, docs, later
<1> QED BY <1>1, <1>2, <1>3 DEF Next

\* What can change what an order is drawn on
LEMMA SourceFrame ==
    ASSUME Next
    PROVE  \/ UNCHANGED source
           \/ \E o \in Orders, r \in Requisitions, s \in Suppliers, f \in Rfqs \cup {None}, q \in 1..MaxQuantity :
                 CreatePurchaseOrder(o, r, s, f, q)
<1>1. ASSUME Sourcing
      PROVE  \/ UNCHANGED source
  BY <1>1 DEF Sourcing, CreateRequisition, CreateSupplierRfq, RecordSupplierResponse,
        CloseSupplierRfq, RemoveSupplier, RestoreSupplier, docs, later
<1>2. ASSUME Ordering
      PROVE  \/ UNCHANGED source
             \/ \E o \in Orders, r \in Requisitions, s \in Suppliers, f \in Rfqs \cup {None}, q \in 1..MaxQuantity :
                   CreatePurchaseOrder(o, r, s, f, q)
  BY <1>2 DEF Ordering, ReceiveGoods, InspectReceipt, CreatePurchaseReturn,
        RecordCreditNote, docs, later
<1>3. ASSUME Approving
      PROVE  \/ UNCHANGED source
  BY <1>3 DEF Approving, SubmitRequisition, SubmitPurchaseOrder, CancelRequisition,
        CancelPurchaseOrder, SubmitStep, CancelStep, Docs, SubmitRead, SubmitClaim,
        SubmitStart, SubmitUndo, SubmitLink, CancelRead, CancelWithdraw, CancelRecord,
        RequestDies, Decide, docs, later
<1> QED BY <1>1, <1>2, <1>3 DEF Next

\* What can change the workflow instances
LEMMA InstanceFrame ==
    ASSUME Next
    PROVE  \/ UNCHANGED instance
           \/ \E p \in Requests : SubmitStart(p)
           \/ \E p \in Requests : CancelWithdraw(p)
           \/ \E i \in Instances : Decide(i)
<1>1. ASSUME Sourcing
      PROVE  \/ UNCHANGED instance
  BY <1>1 DEF Sourcing, CreateRequisition, CreateSupplierRfq, RecordSupplierResponse,
        CloseSupplierRfq, RemoveSupplier, RestoreSupplier, docs, later
<1>2. ASSUME Ordering
      PROVE  \/ UNCHANGED instance
  BY <1>2 DEF Ordering, CreatePurchaseOrder, ReceiveGoods, InspectReceipt,
        CreatePurchaseReturn, RecordCreditNote, docs, later
<1>3. ASSUME Approving
      PROVE  \/ UNCHANGED instance
             \/ \E p \in Requests : SubmitStart(p)
             \/ \E p \in Requests : CancelWithdraw(p)
             \/ \E i \in Instances : Decide(i)
  BY <1>3 DEF Approving, SubmitRequisition, SubmitPurchaseOrder, CancelRequisition,
        CancelPurchaseOrder, SubmitStep, CancelStep, Docs, SubmitRead, SubmitClaim,
        SubmitUndo, SubmitLink, CancelRead, CancelRecord, RequestDies, docs, later
<1> QED BY <1>1, <1>2, <1>3 DEF Next

\* What can change the requests
LEMMA RequestFrame ==
    ASSUME Next
    PROVE  \/ UNCHANGED request
           \/ \E p \in Requests, d \in Docs : SubmitRead(p, d)
           \/ \E p \in Requests : SubmitClaim(p)
           \/ \E p \in Requests : SubmitStart(p)
           \/ \E p \in Requests : SubmitUndo(p)
           \/ \E p \in Requests : SubmitLink(p)
           \/ \E p \in Requests, d \in Docs : CancelRead(p, d)
           \/ \E p \in Requests : CancelWithdraw(p)
           \/ \E p \in Requests : CancelRecord(p)
           \/ \E p \in Requests : RequestDies(p)
<1>1. ASSUME Sourcing
      PROVE  \/ UNCHANGED request
  BY <1>1 DEF Sourcing, CreateRequisition, CreateSupplierRfq, RecordSupplierResponse,
        CloseSupplierRfq, RemoveSupplier, RestoreSupplier, docs, later
<1>2. ASSUME Ordering
      PROVE  \/ UNCHANGED request
  BY <1>2 DEF Ordering, CreatePurchaseOrder, ReceiveGoods, InspectReceipt,
        CreatePurchaseReturn, RecordCreditNote, docs, later
<1>3. ASSUME Approving
      PROVE  \/ UNCHANGED request
             \/ \E p \in Requests, d \in Docs : SubmitRead(p, d)
             \/ \E p \in Requests : SubmitClaim(p)
             \/ \E p \in Requests : SubmitStart(p)
             \/ \E p \in Requests : SubmitUndo(p)
             \/ \E p \in Requests : SubmitLink(p)
             \/ \E p \in Requests, d \in Docs : CancelRead(p, d)
             \/ \E p \in Requests : CancelWithdraw(p)
             \/ \E p \in Requests : CancelRecord(p)
             \/ \E p \in Requests : RequestDies(p)
  BY <1>3 DEF Approving, SubmitRequisition, SubmitPurchaseOrder, CancelRequisition,
        CancelPurchaseOrder, SubmitStep, CancelStep, Docs, Decide, docs, later
<1> QED BY <1>1, <1>2, <1>3 DEF Next

\* What can change what was left half way
LEMMA StrandedFrame ==
    ASSUME Next
    PROVE  \/ UNCHANGED stranded
           \/ \E p \in Requests : SubmitClaim(p)
           \/ \E p \in Requests : SubmitStart(p)
           \/ \E p \in Requests : SubmitUndo(p)
           \/ \E p \in Requests : SubmitLink(p)
           \/ \E p \in Requests : RequestDies(p)
<1>1. ASSUME Sourcing
      PROVE  \/ UNCHANGED stranded
  BY <1>1 DEF Sourcing, CreateRequisition, CreateSupplierRfq, RecordSupplierResponse,
        CloseSupplierRfq, RemoveSupplier, RestoreSupplier, docs, later
<1>2. ASSUME Ordering
      PROVE  \/ UNCHANGED stranded
  BY <1>2 DEF Ordering, CreatePurchaseOrder, ReceiveGoods, InspectReceipt,
        CreatePurchaseReturn, RecordCreditNote, docs, later
<1>3. ASSUME Approving
      PROVE  \/ UNCHANGED stranded
             \/ \E p \in Requests : SubmitClaim(p)
             \/ \E p \in Requests : SubmitStart(p)
             \/ \E p \in Requests : SubmitUndo(p)
             \/ \E p \in Requests : SubmitLink(p)
             \/ \E p \in Requests : RequestDies(p)
  BY <1>3 DEF Approving, SubmitRequisition, SubmitPurchaseOrder, CancelRequisition,
        CancelPurchaseOrder, SubmitStep, CancelStep, Docs, SubmitRead,
        CancelRead, CancelWithdraw, CancelRecord, Decide, docs, later
<1> QED BY <1>1, <1>2, <1>3 DEF Next

\* What can change the supplier list
LEMMA ActiveFrame ==
    ASSUME Next
    PROVE  \/ UNCHANGED active
           \/ \E s \in Suppliers : RemoveSupplier(s)
           \/ \E s \in Suppliers : RestoreSupplier(s)
<1>1. ASSUME Sourcing
      PROVE  \/ UNCHANGED active
             \/ \E s \in Suppliers : RemoveSupplier(s)
             \/ \E s \in Suppliers : RestoreSupplier(s)
  BY <1>1 DEF Sourcing, CreateRequisition, CreateSupplierRfq, RecordSupplierResponse,
        CloseSupplierRfq, docs, later
<1>2. ASSUME Ordering
      PROVE  \/ UNCHANGED active
  BY <1>2 DEF Ordering, CreatePurchaseOrder, ReceiveGoods, InspectReceipt,
        CreatePurchaseReturn, RecordCreditNote, docs, later
<1>3. ASSUME Approving
      PROVE  \/ UNCHANGED active
  BY <1>3 DEF Approving, SubmitRequisition, SubmitPurchaseOrder, CancelRequisition,
        CancelPurchaseOrder, SubmitStep, CancelStep, Docs, SubmitRead, SubmitClaim,
        SubmitStart, SubmitUndo, SubmitLink, CancelRead, CancelWithdraw, CancelRecord,
        RequestDies, Decide, docs, later
<1> QED BY <1>1, <1>2, <1>3 DEF Next

\* What can change the supplier RFQs
LEMMA RfqFrame ==
    ASSUME Next
    PROVE  \/ UNCHANGED rfq
           \/ \E f \in Rfqs, r \in Requisitions, c \in SUBSET Suppliers : CreateSupplierRfq(f, r, c)
           \/ \E f \in Rfqs, s \in Suppliers : RecordSupplierResponse(f, s)
           \/ \E f \in Rfqs, s \in Suppliers \cup {None} : CloseSupplierRfq(f, s)
<1>1. ASSUME Sourcing
      PROVE  \/ UNCHANGED rfq
             \/ \E f \in Rfqs, r \in Requisitions, c \in SUBSET Suppliers : CreateSupplierRfq(f, r, c)
             \/ \E f \in Rfqs, s \in Suppliers : RecordSupplierResponse(f, s)
             \/ \E f \in Rfqs, s \in Suppliers \cup {None} : CloseSupplierRfq(f, s)
  BY <1>1 DEF Sourcing, CreateRequisition, RemoveSupplier, RestoreSupplier, docs, later
<1>2. ASSUME Ordering
      PROVE  \/ UNCHANGED rfq
  BY <1>2 DEF Ordering, CreatePurchaseOrder, ReceiveGoods, InspectReceipt,
        CreatePurchaseReturn, RecordCreditNote, docs, later
<1>3. ASSUME Approving
      PROVE  \/ UNCHANGED rfq
  BY <1>3 DEF Approving, SubmitRequisition, SubmitPurchaseOrder, CancelRequisition,
        CancelPurchaseOrder, SubmitStep, CancelStep, Docs, SubmitRead, SubmitClaim,
        SubmitStart, SubmitUndo, SubmitLink, CancelRead, CancelWithdraw, CancelRecord,
        RequestDies, Decide, docs, later
<1> QED BY <1>1, <1>2, <1>3 DEF Next

\* What can change the receipts
LEMMA GoodsFrame ==
    ASSUME Next
    PROVE  \/ UNCHANGED goods
           \/ \E g \in Receipts, o \in Orders, q \in 1..MaxQuantity : ReceiveGoods(g, o, q)
           \/ \E g \in Receipts, a \in 0..MaxQuantity : InspectReceipt(g, a)
<1>1. ASSUME Sourcing
      PROVE  \/ UNCHANGED goods
  BY <1>1 DEF Sourcing, CreateRequisition, CreateSupplierRfq, RecordSupplierResponse,
        CloseSupplierRfq, RemoveSupplier, RestoreSupplier, docs, later
<1>2. ASSUME Ordering
      PROVE  \/ UNCHANGED goods
             \/ \E g \in Receipts, o \in Orders, q \in 1..MaxQuantity : ReceiveGoods(g, o, q)
             \/ \E g \in Receipts, a \in 0..MaxQuantity : InspectReceipt(g, a)
  BY <1>2 DEF Ordering, CreatePurchaseOrder, CreatePurchaseReturn, RecordCreditNote,
        docs, later
<1>3. ASSUME Approving
      PROVE  \/ UNCHANGED goods
  BY <1>3 DEF Approving, SubmitRequisition, SubmitPurchaseOrder, CancelRequisition,
        CancelPurchaseOrder, SubmitStep, CancelStep, Docs, SubmitRead, SubmitClaim,
        SubmitStart, SubmitUndo, SubmitLink, CancelRead, CancelWithdraw, CancelRecord,
        RequestDies, Decide, docs, later
<1> QED BY <1>1, <1>2, <1>3 DEF Next

\* What can change the returns
LEMMA BackFrame ==
    ASSUME Next
    PROVE  \/ UNCHANGED back
           \/ \E t \in Returns, g \in Receipts, q \in 1..MaxQuantity : CreatePurchaseReturn(t, g, q)
           \/ \E t \in Returns, a \in 1..MaxQuantity : RecordCreditNote(t, a)
<1>1. ASSUME Sourcing
      PROVE  \/ UNCHANGED back
  BY <1>1 DEF Sourcing, CreateRequisition, CreateSupplierRfq, RecordSupplierResponse,
        CloseSupplierRfq, RemoveSupplier, RestoreSupplier, docs, later
<1>2. ASSUME Ordering
      PROVE  \/ UNCHANGED back
             \/ \E t \in Returns, g \in Receipts, q \in 1..MaxQuantity : CreatePurchaseReturn(t, g, q)
             \/ \E t \in Returns, a \in 1..MaxQuantity : RecordCreditNote(t, a)
  BY <1>2 DEF Ordering, CreatePurchaseOrder, ReceiveGoods, InspectReceipt, docs, later
<1>3. ASSUME Approving
      PROVE  \/ UNCHANGED back
  BY <1>3 DEF Approving, SubmitRequisition, SubmitPurchaseOrder, CancelRequisition,
        CancelPurchaseOrder, SubmitStep, CancelStep, Docs, SubmitRead, SubmitClaim,
        SubmitStart, SubmitUndo, SubmitLink, CancelRead, CancelWithdraw, CancelRecord,
        RequestDies, Decide, docs, later
<1> QED BY <1>1, <1>2, <1>3 DEF Next

\* What can change the lines, the receipts and the returns
LEMMA BooksFrame ==
    ASSUME Next
    PROVE  \/ UNCHANGED <<line, goods, back>>
           \/ \E r \in Requisitions, q \in 1..MaxQuantity : CreateRequisition(r, q)
           \/ \E o \in Orders, r \in Requisitions, s \in Suppliers, f \in Rfqs \cup {None}, q \in 1..MaxQuantity :
                 CreatePurchaseOrder(o, r, s, f, q)
           \/ \E g \in Receipts, o \in Orders, q \in 1..MaxQuantity : ReceiveGoods(g, o, q)
           \/ \E g \in Receipts, a \in 0..MaxQuantity : InspectReceipt(g, a)
           \/ \E t \in Returns, g \in Receipts, q \in 1..MaxQuantity : CreatePurchaseReturn(t, g, q)
           \/ \E t \in Returns, a \in 1..MaxQuantity : RecordCreditNote(t, a)
<1>1. ASSUME Sourcing
      PROVE  \/ UNCHANGED <<line, goods, back>>
             \/ \E r \in Requisitions, q \in 1..MaxQuantity : CreateRequisition(r, q)
  BY <1>1 DEF Sourcing, CreateSupplierRfq, RecordSupplierResponse, CloseSupplierRfq,
        RemoveSupplier, RestoreSupplier, docs, later
<1>2. ASSUME Ordering
      PROVE  \/ UNCHANGED <<line, goods, back>>
             \/ \E o \in Orders, r \in Requisitions, s \in Suppliers, f \in Rfqs \cup {None}, q \in 1..MaxQuantity :
                   CreatePurchaseOrder(o, r, s, f, q)
             \/ \E g \in Receipts, o \in Orders, q \in 1..MaxQuantity : ReceiveGoods(g, o, q)
             \/ \E g \in Receipts, a \in 0..MaxQuantity : InspectReceipt(g, a)
             \/ \E t \in Returns, g \in Receipts, q \in 1..MaxQuantity : CreatePurchaseReturn(t, g, q)
             \/ \E t \in Returns, a \in 1..MaxQuantity : RecordCreditNote(t, a)
  BY <1>2 DEF Ordering
<1>3. ASSUME Approving
      PROVE  \/ UNCHANGED <<line, goods, back>>
  BY <1>3 DEF Approving, SubmitRequisition, SubmitPurchaseOrder, CancelRequisition,
        CancelPurchaseOrder, SubmitStep, CancelStep, Docs, SubmitRead, SubmitClaim,
        SubmitStart, SubmitUndo, SubmitLink, CancelRead, CancelWithdraw, CancelRecord,
        RequestDies, Decide, docs, later
<1> QED BY <1>1, <1>2, <1>3 DEF Next

-----------------------------------------------------------------------------
(* Types.                                                                    *)

LEMMA Busy ==
    ASSUME TypeOK, NEW p \in Requests, request[p].phase \in Phases
    PROVE  request[p] # Idle /\ request[p] \in RequestRecords
<1>1. request[p] # Idle
  BY DEF Idle, Phases
<1> QED BY <1>1 DEF TypeOK, RequestRecords, Statuses

\* A record whose instance is approved has one.
LEMMA ApprovedHas ==
    ASSUME TypeOK, DocsFit, NEW d \in Docs, Approved(d)
    PROVE  /\ doc[d].instance \in Instances /\ doc[d].status # "none"
           /\ EverApproved(d)
<1>1. doc[d] \in [status : Statuses, instance : Instances \cup {None}]
  BY DEF TypeOK, Statuses
<1>2. doc[d].instance # None /\ instance[doc[d].instance].status = "APPROVED"
  BY DEF Approved, WfStatus
<1>3. doc[d].instance \in Instances
  BY <1>1, <1>2
<1>4. instance[doc[d].instance].doc = d
  BY <1>2 DEF DocsFit, InstanceOf
<1>5. instance[doc[d].instance] \in [doc : Docs \cup {None}, status : WorkflowStatus \cup {"none"}]
  BY <1>3 DEF TypeOK
<1>6. instance[doc[d].instance] = [doc |-> d, status |-> "APPROVED"]
  BY <1>2, <1>4, <1>5
<1>7. EverApproved(d)
  BY <1>3, <1>6 DEF EverApproved
<1>8. doc[d].status # "none"
  BY <1>2 DEF DocsFit
<1> QED BY <1>3, <1>7, <1>8

\* Every write of a record gives it a status and an instance of their types.
LEMMA WriteType ==
    ASSUME TypeOK, NEW d \in Docs, NEW s \in Statuses, NEW i \in Instances \cup {None}, Write(d, s, i)
    PROVE  /\ doc' \in [Docs -> [status : Statuses, instance : Instances \cup {None}]]
           /\ revived' \subseteq Docs
<1>1. doc \in [Docs -> [status : Statuses, instance : Instances \cup {None}]] /\ revived \subseteq Docs
  BY DEF TypeOK, Statuses
<1>2. [status |-> s, instance |-> i] \in [status : Statuses, instance : Instances \cup {None}]
  OBVIOUS
<1> QED BY <1>1, <1>2 DEF Write

LEMMA DocType ==
    ASSUME TypeOK, DocsFit, RequestsFit, Next
    PROVE  /\ doc' \in [Docs -> [status : Statuses, instance : Instances \cup {None}]]
           /\ revived' \subseteq Docs
<1> DEFINE Goal == /\ doc' \in [Docs -> [status : Statuses, instance : Instances \cup {None}]]
                   /\ revived' \subseteq Docs
<1>1. doc \in [Docs -> [status : Statuses, instance : Instances \cup {None}]] /\ revived \subseteq Docs
  BY DEF TypeOK, Statuses
<1>a. /\ {"SUBMITTING", "CANCELLED", "SOURCING", "DRAFT", "ORDER_DRAFTED", "PART_RECEIVED", "RECEIVED"} \subseteq Statuses
      /\ Requisitions \subseteq Docs /\ Orders \subseteq Docs
  BY DEF Statuses, RequisitionStatus, OrderStatus, Docs
<1>2. ASSUME UNCHANGED <<doc, revived>> PROVE Goal
  BY <1>1, <1>2
<1>3. ASSUME NEW p \in Requests, SubmitClaim(p) \/ SubmitUndo(p) \/ SubmitLink(p) \/ CancelRecord(p)
      PROVE  Goal
  <2>1. request[p] \in RequestRecords
    BY <1>3, Busy DEF SubmitClaim, SubmitUndo, SubmitLink, CancelRecord, Phases
  <2>2. /\ request[p].doc \in Docs /\ request[p].was \in Statuses
        /\ request[p].inst \in Instances \cup {None} /\ request[p].new \in Instances \cup {None}
        /\ request[p].opened \in Statuses
    BY <2>1 DEF RequestRecords, Statuses, RequisitionStatus
  <2>3. \/ UNCHANGED <<doc, revived>>
        \/ Write(request[p].doc, "SUBMITTING", request[p].inst)
        \/ Write(request[p].doc, request[p].was, request[p].inst)
        \/ Write(request[p].doc, request[p].opened, request[p].new)
        \/ Write(request[p].doc, "CANCELLED", request[p].inst)
    BY <1>3 DEF SubmitClaim, SubmitUndo, SubmitLink, CancelRecord
  <2> QED BY <1>a, <1>2, <2>2, <2>3, WriteType
<1>4. ASSUME NEW r \in Requisitions, NEW q \in 1..MaxQuantity, CreateRequisition(r, q) PROVE Goal
  <2>1. doc' = [doc EXCEPT ![r].status = "DRAFT"] /\ revived' = revived
    BY <1>4 DEF CreateRequisition
  <2> QED BY <1>1, <1>a, <2>1
<1>5. ASSUME NEW f \in Rfqs, NEW r \in Requisitions, NEW c \in SUBSET Suppliers, CreateSupplierRfq(f, r, c)
      PROVE  Goal
  <2>1. Write(r, "SOURCING", doc[r].instance) /\ Approved(r)
    BY <1>5 DEF CreateSupplierRfq
  <2> QED BY <1>a, <2>1, ApprovedHas, WriteType
<1>6. ASSUME NEW o \in Orders, NEW r \in Requisitions, NEW s \in Suppliers, NEW f \in Rfqs \cup {None},
             NEW q \in 1..MaxQuantity, CreatePurchaseOrder(o, r, s, f, q)
      PROVE  Goal
  <2>1. /\ doc' = [doc EXCEPT ![o].status = "DRAFT", ![r].status = "ORDER_DRAFTED"]
        /\ revived' = IF doc[r].status = "CANCELLED" THEN revived \cup {r} ELSE revived
    BY <1>6 DEF CreatePurchaseOrder
  <2>2. doc' \in [Docs -> [status : Statuses, instance : Instances \cup {None}]]
    BY <1>1, <1>a, <2>1
  <2> QED BY <1>1, <1>a, <2>1, <2>2
<1>7. ASSUME NEW g \in Receipts, NEW o \in Orders, NEW q \in 1..MaxQuantity, ReceiveGoods(g, o, q)
      PROVE  Goal
  <2>1. /\ Approved(o)
        /\ \/ Write(o, "PART_RECEIVED", doc[o].instance)
           \/ Write(o, "RECEIVED", doc[o].instance)
    BY <1>7 DEF ReceiveGoods
  <2> QED BY <1>a, <2>1, ApprovedHas, WriteType
<1> HIDE DEF Goal
<1>8. Goal
  BY <1>2, <1>3, <1>4, <1>5, <1>6, <1>7, DocFrame
<1> QED BY <1>8 DEF Goal

LEMMA InstanceType ==
    ASSUME TypeOK, Next
    PROVE  instance' \in [Instances -> [doc : Docs \cup {None}, status : WorkflowStatus \cup {"none"}]]
<1> DEFINE T == [doc : Docs \cup {None}, status : WorkflowStatus \cup {"none"}]
<1>1. instance \in [Instances -> T]
  BY DEF TypeOK
<1>2. {"PENDING", "BLOCKED_ASSIGNMENT", "APPROVED", "REJECTED", "NEEDS_CHANGES", "CANCELLED"} \subseteq WorkflowStatus
  BY DEF WorkflowStatus, Open
<1>3. ASSUME NEW p \in Requests, SubmitStart(p) PROVE instance' \in [Instances -> T]
  <2>1. request[p].doc \in Docs
    BY <1>3, Busy DEF SubmitStart, Phases, RequestRecords
  <2>2. \/ UNCHANGED instance
        \/ \E i \in Instances, s \in Open : instance' = [instance EXCEPT ![i] = [doc |-> request[p].doc, status |-> s]]
    BY <1>3 DEF SubmitStart, NextId
  <2>3. Open \subseteq WorkflowStatus
    BY DEF WorkflowStatus
  <2> QED BY <1>1, <2>1, <2>2, <2>3
<1>4. ASSUME NEW p \in Requests, CancelWithdraw(p) PROVE instance' \in [Instances -> T]
  BY <1>1, <1>2, <1>4 DEF CancelWithdraw
<1>5. ASSUME NEW i \in Instances, Decide(i) PROVE instance' \in [Instances -> T]
  BY <1>1, <1>2, <1>5 DEF Decide
<1> QED BY <1>1, <1>3, <1>4, <1>5, InstanceFrame

LEMMA RequestType ==
    ASSUME TypeOK, RequestsFit, Next
    PROVE  /\ DOMAIN request' = Requests
           /\ \A p \in Requests : request'[p] = Idle \/ request'[p] \in RequestRecords
<1> DEFINE R == RequestRecords \cup {Idle}
           Goal == DOMAIN request' = Requests /\ \A p \in Requests : request'[p] \in R
<1>1. DOMAIN request = Requests /\ \A p \in Requests : request[p] \in R
  BY DEF TypeOK, RequestsFit, RequestRecords, Statuses
<1>2. ASSUME NEW p \in Requests, NEW d \in Docs, SubmitRead(p, d) \/ CancelRead(p, d) PROVE Goal
  <2>1. doc[d] \in [status : Statuses, instance : Instances \cup {None}]
    BY DEF TypeOK, Statuses
  <2>2. PICK ph \in {"claim", "withdraw", "cancel"} :
          request' = [request EXCEPT ![p] = [phase |-> ph, doc |-> d, was |-> doc[d].status,
                                             inst |-> doc[d].instance, new |-> None, opened |-> "none"]]
    BY <1>2 DEF SubmitRead, CancelRead
  <2>3. ph \in Phases
    BY DEF Phases
  <2>4. [phase |-> ph, doc |-> d, was |-> doc[d].status, inst |-> doc[d].instance, new |-> None, opened |-> "none"]
          \in RequestRecords
    BY <2>1, <2>3 DEF RequestRecords
  <2> QED BY <1>1, <2>2, <2>4
<1>3. ASSUME NEW p \in Requests, SubmitStart(p) PROVE Goal
  <2>1. request[p] \in RequestRecords
    BY <1>3, Busy DEF SubmitStart, Phases
  <2>2. CASE request' = [request EXCEPT ![p].phase = "undo"]
    BY <1>1, <2>1, <2>2 DEF RequestRecords, Phases
  <2>3. CASE \E i \in Instances, s \in Open : request' = [request EXCEPT ![p].phase = "link", ![p].new = i, ![p].opened = s]
    <3>1. PICK i \in Instances, s \in Open : request' = [request EXCEPT ![p].phase = "link", ![p].new = i, ![p].opened = s]
      BY <2>3
    <3>2. request'[p] = [request[p] EXCEPT !.phase = "link", !.new = i, !.opened = s]
      BY <1>1, <3>1
    <3>3. request'[p] \in RequestRecords
      BY <2>1, <3>2 DEF RequestRecords, Phases
    <3> QED BY <1>1, <3>1, <3>3
  <2> QED BY <1>3, <2>2, <2>3 DEF SubmitStart, NextId
<1>4. ASSUME NEW p \in Requests, SubmitClaim(p) \/ SubmitLink(p) \/ CancelWithdraw(p) PROVE Goal
  <2>1. request[p] \in RequestRecords
    BY <1>4, Busy DEF SubmitClaim, SubmitLink, CancelWithdraw, Phases
  <2>2. \/ request' = [request EXCEPT ![p].phase = "start"]
        \/ request' = [request EXCEPT ![p].phase = "undo"]
        \/ request' = [request EXCEPT ![p].phase = "cancel"]
        \/ request' = [request EXCEPT ![p] = Idle]
    BY <1>4 DEF SubmitClaim, SubmitLink, CancelWithdraw
  <2> QED BY <1>1, <2>1, <2>2 DEF RequestRecords, Phases
<1>5. ASSUME NEW p \in Requests, SubmitUndo(p) \/ CancelRecord(p) \/ RequestDies(p) PROVE Goal
  <2>1. request' = [request EXCEPT ![p] = Idle]
    BY <1>5 DEF SubmitUndo, CancelRecord, RequestDies
  <2> QED BY <1>1, <2>1
<1>6. Goal
  <2> HIDE DEF Goal
  <2>1. ASSUME UNCHANGED request PROVE Goal
    BY <1>1, <2>1 DEF Goal
  <2> QED BY <1>2, <1>3, <1>4, <1>5, <2>1, RequestFrame
<1> QED BY <1>6

-----------------------------------------------------------------------------
(* What no step takes back.                                                  *)

\* An instance stays with its record, and an approval stands.
LEMMA InstancesStand ==
    ASSUME TypeOK, Next
    PROVE  \A i \in Instances : instance[i].doc # None =>
              /\ instance'[i].doc = instance[i].doc
              /\ instance[i].status = "APPROVED" => instance'[i] = instance[i]
<1> SUFFICES ASSUME NEW i \in Instances, instance[i].doc # None
             PROVE  /\ instance'[i].doc = instance[i].doc
                    /\ instance[i].status = "APPROVED" => instance'[i] = instance[i]
  OBVIOUS
<1>1. /\ instance \in [Instances -> [doc : Docs \cup {None}, status : WorkflowStatus \cup {"none"}]]
      /\ Open \cup {"NEEDS_CHANGES"} = {"PENDING", "BLOCKED_ASSIGNMENT", "NEEDS_CHANGES"}
  BY DEF TypeOK, Open
<1>2. ASSUME NEW p \in Requests, SubmitStart(p) PROVE instance'[i] = instance[i]
  <2>1. \/ UNCHANGED instance
        \/ \E n \in Instances, s \in Open :
              /\ instance[n].doc = None
              /\ instance' = [instance EXCEPT ![n] = [doc |-> request[p].doc, status |-> s]]
    BY <1>2 DEF SubmitStart, NextId
  <2> QED BY <1>1, <2>1
<1>3. ASSUME NEW p \in Requests, CancelWithdraw(p)
      PROVE  /\ instance'[i].doc = instance[i].doc
             /\ instance[i].status = "APPROVED" => instance'[i] = instance[i]
  BY <1>1, <1>3 DEF CancelWithdraw
<1>4. ASSUME NEW n \in Instances, Decide(n)
      PROVE  /\ instance'[i].doc = instance[i].doc
             /\ instance[i].status = "APPROVED" => instance'[i] = instance[i]
  BY <1>1, <1>4 DEF Decide
<1> QED BY <1>2, <1>3, <1>4, InstanceFrame

LEMMA InstanceOfStands ==
    ASSUME TypeOK, Next, NEW d \in Docs, NEW i \in Instances \cup {None}, InstanceOf(i, d)
    PROVE  InstanceOf(i, d)'
<1>1. CASE i = None
  BY <1>1 DEF InstanceOf
<1>2. CASE i # None
  <2>1. i \in Instances /\ instance[i].doc = d /\ d # None
    BY <1>2, IdsAssumption DEF InstanceOf, Docs
  <2>2. instance'[i].doc = d
    BY <2>1, InstancesStand
  <2> QED BY <2>2 DEF InstanceOf
<1> QED BY <1>1, <1>2

LEMMA ApprovalStands ==
    ASSUME TypeOK, Next, NEW d \in Docs, EverApproved(d)
    PROVE  EverApproved(d)'
<1>1. PICK i \in Instances : instance[i] = [doc |-> d, status |-> "APPROVED"]
  BY DEF EverApproved
<1>2. d # None
  BY IdsAssumption DEF Docs
<1>3. instance'[i] = instance[i]
  BY <1>1, <1>2, InstancesStand
<1> QED BY <1>1, <1>3 DEF EverApproved

\* What a write does to one record.
LEMMA WriteOne ==
    ASSUME TypeOK, NEW d \in Docs, NEW s \in Statuses, NEW i \in Instances \cup {None}, Write(d, s, i),
           NEW e \in Docs
    PROVE  /\ doc'[e].status = IF e = d THEN s ELSE doc[e].status
           /\ doc'[e].instance = IF e = d THEN i ELSE doc[e].instance
           /\ revived \subseteq revived'
           /\ e = d /\ doc[e].status = "CANCELLED" /\ s # "CANCELLED" => e \in revived'
BY DEF Write, TypeOK

\* The step writes one record: `s` is its new status and `i` its new instance.
Wrote(d, s, i) ==
    /\ \A e \in Docs : /\ doc'[e].status = IF e = d THEN s ELSE doc[e].status
                       /\ doc'[e].instance = IF e = d THEN i ELSE doc[e].instance
    /\ revived \subseteq revived'
    /\ doc[d].status = "CANCELLED" /\ s # "CANCELLED" => d \in revived'

\* What a step does to the records.  A request writes what it believes; the other
\* operations leave the instance.
Claims(p) == /\ SubmitClaim(p) /\ Unmoved(p) /\ Wrote(request[p].doc, "SUBMITTING", request[p].inst)
Undoes(p) == /\ SubmitUndo(p)
             /\ doc[request[p].doc].status = "SUBMITTING" /\ doc[request[p].doc].instance = request[p].inst
             /\ Wrote(request[p].doc, request[p].was, request[p].inst)
LinksIt(p) == /\ SubmitLink(p) /\ Wrote(request[p].doc, request[p].opened, request[p].new)
Cancels(p) == /\ CancelRecord(p) /\ Unmoved(p) /\ Wrote(request[p].doc, "CANCELLED", request[p].inst)
Creates(r) ==
    /\ doc[r].status = "none" /\ Wrote(r, "DRAFT", doc[r].instance)
    /\ \E q \in 1..MaxQuantity : CreateRequisition(r, q)
Sources(r) == doc[r].status # "none" /\ doc[r].instance # None /\ Wrote(r, "SOURCING", doc[r].instance)
DrawsUp(o, r) ==
    /\ doc[o].status = "none" /\ doc[r].status # "none" /\ doc[r].instance # None /\ o # r
    /\ \E s \in Suppliers, f \in Rfqs \cup {None}, q \in 1..MaxQuantity : CreatePurchaseOrder(o, r, s, f, q)
    /\ \A e \in Docs :
          /\ doc'[e].status = IF e = o THEN "DRAFT" ELSE IF e = r THEN "ORDER_DRAFTED" ELSE doc[e].status
          /\ doc'[e].instance = doc[e].instance
    /\ revived \subseteq revived'
    /\ doc[r].status = "CANCELLED" => r \in revived'
Receives(o) ==
    /\ doc[o].status # "none" /\ doc[o].instance # None
    /\ \E g \in Receipts, q \in 1..MaxQuantity : ReceiveGoods(g, o, q)
    /\ \E s \in {"PART_RECEIVED", "RECEIVED"} : Wrote(o, s, doc[o].instance)

LEMMA DocStep ==
    ASSUME TypeOK, DocsFit, RequestsFit, Next
    PROVE  \/ UNCHANGED <<doc, revived>>
           \/ \E p \in Requests : Claims(p) \/ Undoes(p) \/ LinksIt(p) \/ Cancels(p)
           \/ \E r \in Requisitions : Creates(r) \/ Sources(r)
           \/ \E o \in Orders, r \in Requisitions : DrawsUp(o, r)
           \/ \E o \in Orders : Receives(o)
<1> DEFINE Goal == \/ UNCHANGED <<doc, revived>>
                   \/ \E p \in Requests : Claims(p) \/ Undoes(p) \/ LinksIt(p) \/ Cancels(p)
                   \/ \E r \in Requisitions : Creates(r) \/ Sources(r)
                   \/ \E o \in Orders, r \in Requisitions : DrawsUp(o, r)
                   \/ \E o \in Orders : Receives(o)
<1>1. doc \in [Docs -> [status : Statuses, instance : Instances \cup {None}]] /\ revived \subseteq Docs
  BY DEF TypeOK, Statuses
<1>a. /\ {"SUBMITTING", "CANCELLED", "SOURCING", "DRAFT", "ORDER_DRAFTED", "PART_RECEIVED", "RECEIVED"} \subseteq Statuses
      /\ Requisitions \subseteq Docs /\ Orders \subseteq Docs
  BY DEF Statuses, RequisitionStatus, OrderStatus, Docs
<1>b. ASSUME NEW d \in Docs, NEW s \in Statuses, NEW i \in Instances \cup {None}, Write(d, s, i)
      PROVE  Wrote(d, s, i)
  BY <1>b, WriteOne DEF Wrote
<1>3. ASSUME NEW p \in Requests, SubmitClaim(p) \/ SubmitUndo(p) \/ SubmitLink(p) \/ CancelRecord(p)
      PROVE  Goal
  <2>1. request[p] \in RequestRecords
    BY <1>3, Busy DEF SubmitClaim, SubmitUndo, SubmitLink, CancelRecord, Phases
  <2>2. /\ request[p].doc \in Docs /\ request[p].was \in Statuses
        /\ request[p].inst \in Instances \cup {None} /\ request[p].new \in Instances \cup {None}
        /\ request[p].opened \in Statuses
    BY <2>1 DEF RequestRecords, Statuses, RequisitionStatus
  <2>3. CASE SubmitClaim(p)
    <3>1. UNCHANGED <<doc, revived>> \/ (Unmoved(p) /\ Write(request[p].doc, "SUBMITTING", request[p].inst))
      BY <2>3 DEF SubmitClaim
    <3>2. UNCHANGED <<doc, revived>> \/ (Unmoved(p) /\ Wrote(request[p].doc, "SUBMITTING", request[p].inst))
      BY <1>a, <1>b, <2>2, <3>1
    <3> QED BY <2>3, <3>2 DEF Claims
  <2>4. CASE SubmitUndo(p)
    <3>1. \/ UNCHANGED <<doc, revived>>
          \/ /\ doc[request[p].doc] = [status |-> "SUBMITTING", instance |-> request[p].inst]
             /\ Write(request[p].doc, request[p].was, request[p].inst)
      BY <2>4 DEF SubmitUndo, ClaimStands
    <3>2. \/ UNCHANGED <<doc, revived>>
          \/ /\ doc[request[p].doc].status = "SUBMITTING" /\ doc[request[p].doc].instance = request[p].inst
             /\ Wrote(request[p].doc, request[p].was, request[p].inst)
      BY <1>b, <2>2, <3>1
    <3> QED BY <2>4, <3>2 DEF Undoes
  <2>5. CASE SubmitLink(p)
    <3>1. UNCHANGED <<doc, revived>> \/ Write(request[p].doc, request[p].opened, request[p].new)
      BY <2>5 DEF SubmitLink
    <3>2. UNCHANGED <<doc, revived>> \/ Wrote(request[p].doc, request[p].opened, request[p].new)
      BY <1>b, <2>2, <3>1
    <3> QED BY <2>5, <3>2 DEF LinksIt
  <2>6. CASE CancelRecord(p)
    <3>1. UNCHANGED <<doc, revived>> \/ (Unmoved(p) /\ Write(request[p].doc, "CANCELLED", request[p].inst))
      BY <2>6 DEF CancelRecord
    <3>2. UNCHANGED <<doc, revived>> \/ (Unmoved(p) /\ Wrote(request[p].doc, "CANCELLED", request[p].inst))
      BY <1>a, <1>b, <2>2, <3>1
    <3> QED BY <2>6, <3>2 DEF Cancels
  <2> QED BY <1>3, <2>3, <2>4, <2>5, <2>6
<1>4. ASSUME NEW r \in Requisitions, NEW q \in 1..MaxQuantity, CreateRequisition(r, q) PROVE Goal
  <2>1. doc' = [doc EXCEPT ![r].status = "DRAFT"] /\ revived' = revived /\ doc[r].status = "none"
    BY <1>4 DEF CreateRequisition, NextId
  <2>2. Wrote(r, "DRAFT", doc[r].instance)
    BY <1>1, <1>a, <2>1 DEF Wrote
  <2>3. Creates(r)
    BY <1>4, <2>1, <2>2 DEF Creates
  <2> QED BY <2>3
<1>5. ASSUME NEW f \in Rfqs, NEW r \in Requisitions, NEW c \in SUBSET Suppliers, CreateSupplierRfq(f, r, c)
      PROVE  Goal
  <2>1. Write(r, "SOURCING", doc[r].instance) /\ Approved(r)
    BY <1>5 DEF CreateSupplierRfq
  <2>2. doc[r].instance \in Instances /\ doc[r].status # "none" /\ doc[r].instance # None
    BY <1>a, <2>1, ApprovedHas, IdsAssumption
  <2>3. Wrote(r, "SOURCING", doc[r].instance)
    BY <1>a, <1>b, <2>1, <2>2
  <2> QED BY <2>2, <2>3 DEF Sources
<1>6. ASSUME NEW o \in Orders, NEW r \in Requisitions, NEW s \in Suppliers, NEW f \in Rfqs \cup {None},
             NEW q \in 1..MaxQuantity, CreatePurchaseOrder(o, r, s, f, q)
      PROVE  Goal
  <2>1. /\ doc' = [doc EXCEPT ![o].status = "DRAFT", ![r].status = "ORDER_DRAFTED"]
        /\ revived' = IF doc[r].status = "CANCELLED" THEN revived \cup {r} ELSE revived
        /\ doc[o].status = "none" /\ Approved(r)
    BY <1>6 DEF CreatePurchaseOrder, NextId
  <2>2. o # r
    BY IdsAssumption
  <2>3. doc[r].status # "none" /\ doc[r].instance # None
    BY <1>a, <2>1, ApprovedHas, IdsAssumption
  <2>4. \A e \in Docs :
          /\ doc'[e].status = IF e = o THEN "DRAFT" ELSE IF e = r THEN "ORDER_DRAFTED" ELSE doc[e].status
          /\ doc'[e].instance = doc[e].instance
    BY <1>1, <1>a, <2>1, <2>2
  <2>5. revived \subseteq revived' /\ (doc[r].status = "CANCELLED" => r \in revived')
    BY <2>1
  <2>6. DrawsUp(o, r)
    BY <1>6, <2>1, <2>2, <2>3, <2>4, <2>5 DEF DrawsUp
  <2> QED BY <2>6
<1>7. ASSUME NEW g \in Receipts, NEW o \in Orders, NEW q \in 1..MaxQuantity, ReceiveGoods(g, o, q)
      PROVE  Goal
  <2>1. /\ Approved(o)
        /\ \/ Write(o, "PART_RECEIVED", doc[o].instance)
           \/ Write(o, "RECEIVED", doc[o].instance)
    BY <1>7 DEF ReceiveGoods
  <2>2. doc[o].instance \in Instances /\ doc[o].status # "none" /\ doc[o].instance # None
    BY <1>a, <2>1, ApprovedHas, IdsAssumption
  <2>3. \E s \in {"PART_RECEIVED", "RECEIVED"} : Wrote(o, s, doc[o].instance)
    BY <1>a, <1>b, <2>1, <2>2
  <2>4. Receives(o)
    BY <1>7, <2>2, <2>3 DEF Receives
  <2> QED BY <2>4
<1>8. Goal
  <2> HIDE DEF Goal
  <2>1. ASSUME UNCHANGED <<doc, revived>> PROVE Goal
    BY <2>1 DEF Goal
  <2> QED BY <1>3, <1>4, <1>5, <1>6, <1>7, <2>1, DocFrame
<1> QED BY <1>8

-----------------------------------------------------------------------------
(* Records and requests.                                                     *)

\* What is known of a request inside a call.
LEMMA RequestHas ==
    ASSUME TypeOK, RequestsFit, NEW p \in Requests, request[p].phase \in Phases
    PROVE  /\ request[p] # Idle /\ RequestFits(request[p])
           /\ request[p].doc \in Docs /\ request[p].was \in Statuses
           /\ request[p].inst \in Instances \cup {None} /\ request[p].new \in Instances \cup {None}
           /\ request[p].opened \in Statuses
<1>1. request[p] # Idle /\ request[p] \in RequestRecords
  BY Busy
<1> QED BY <1>1 DEF RequestsFit, RequestRecords, Statuses, RequisitionStatus

\* A record is there from its creation on.
LEMMA RecordsExist ==
    ASSUME TypeOK, DocsFit, RequestsFit, Next, NEW d \in Docs, doc[d].status # "none"
    PROVE  doc'[d].status # "none"
<1>1. ASSUME NEW p \in Requests, Claims(p) \/ Undoes(p) \/ LinksIt(p) \/ Cancels(p)
      PROVE  doc'[d].status # "none"
  <2>1. request[p].phase \in Phases
    BY <1>1 DEF Claims, Undoes, LinksIt, Cancels, SubmitClaim, SubmitUndo, SubmitLink, CancelRecord, Phases
  <2>2. request[p].was # "none" /\ (LinksIt(p) => request[p].opened # "none")
    BY <2>1, RequestHas DEF RequestFits, LinksIt, SubmitLink, Open
  <2> QED BY <1>1, <2>2 DEF Claims, Undoes, LinksIt, Cancels, Wrote
<1>2. ASSUME NEW r \in Requisitions, Creates(r) \/ Sources(r) PROVE doc'[d].status # "none"
  BY <1>2 DEF Creates, Sources, Wrote
<1>3. ASSUME NEW o \in Orders, NEW r \in Requisitions, DrawsUp(o, r) PROVE doc'[d].status # "none"
  BY <1>3 DEF DrawsUp
<1>4. ASSUME NEW o \in Orders, Receives(o) PROVE doc'[d].status # "none"
  BY <1>4 DEF Receives, Wrote
<1> QED BY <1>1, <1>2, <1>3, <1>4, DocStep

LEMMA InstancesFit ==
    ASSUME TypeOK, DocsFit, RequestsFit, Next
    PROVE  \A d \in Docs : InstanceOf(doc[d].instance, d)'
<1> SUFFICES ASSUME NEW d \in Docs PROVE InstanceOf(doc[d].instance, d)'
  OBVIOUS
<1> DEFINE i == doc[d].instance
<1>1. i \in Instances \cup {None} /\ InstanceOf(i, d)
  BY DEF TypeOK, DocsFit
<1>2. ASSUME doc'[d].instance = i PROVE InstanceOf(doc[d].instance, d)'
  <2>1. ASSUME NEW j, j = i PROVE InstanceOf(j, d)'
    <3>1. j \in Instances \cup {None} /\ InstanceOf(j, d)
      BY <1>1, <2>1
    <3> QED BY <3>1, InstanceOfStands DEF InstanceOf
  <2> QED BY <1>2, <1>1, InstanceOfStands DEF InstanceOf
<1>3. ASSUME NEW p \in Requests, Claims(p) \/ Undoes(p) \/ LinksIt(p) \/ Cancels(p)
      PROVE  InstanceOf(doc[d].instance, d)'
  <2>1. request[p].phase \in Phases
    BY <1>3 DEF Claims, Undoes, LinksIt, Cancels, SubmitClaim, SubmitUndo, SubmitLink, CancelRecord, Phases
  <2>2. /\ InstanceOf(request[p].inst, request[p].doc) /\ InstanceOf(request[p].new, request[p].doc)
        /\ request[p].inst \in Instances \cup {None} /\ request[p].new \in Instances \cup {None}
        /\ request[p].doc \in Docs
    BY <2>1, RequestHas DEF RequestFits
  <2>3. \/ doc'[d].instance = i
        \/ d = request[p].doc /\ doc'[d].instance \in {request[p].inst, request[p].new}
    BY <1>3 DEF Claims, Undoes, LinksIt, Cancels, Wrote
  <2>4. ASSUME d = request[p].doc, doc'[d].instance \in {request[p].inst, request[p].new}
        PROVE  InstanceOf(doc[d].instance, d)'
    BY <2>2, <2>4, InstanceOfStands DEF InstanceOf
  <2> QED BY <1>2, <2>3, <2>4
<1>4. ASSUME NEW r \in Requisitions, Creates(r) \/ Sources(r) PROVE doc'[d].instance = i
  BY <1>4 DEF Creates, Sources, Wrote
<1>5. ASSUME NEW o \in Orders, NEW r \in Requisitions, DrawsUp(o, r) PROVE doc'[d].instance = i
  BY <1>5 DEF DrawsUp
<1>6. ASSUME NEW o \in Orders, Receives(o) PROVE doc'[d].instance = i
  BY <1>6 DEF Receives, Wrote
<1>7. ASSUME UNCHANGED <<doc, revived>> PROVE doc'[d].instance = i
  BY <1>7
<1> HIDE DEF i
<1> QED BY <1>2, <1>3, <1>4, <1>5, <1>6, <1>7, DocStep

\* A record that is not there yet was given no instance by the step.
LEMMA StillToCome ==
    ASSUME TypeOK, DocsFit, RequestsFit, Next, NEW d \in Docs, doc'[d].status = "none"
    PROVE  doc[d].status = "none" /\ doc'[d].instance = doc[d].instance
<1>0. doc[d].status = "none"
  BY RecordsExist
<1>1. ASSUME NEW p \in Requests, Claims(p) \/ Undoes(p) \/ LinksIt(p) \/ Cancels(p)
      PROVE  doc'[d].instance = doc[d].instance
  <2>1. request[p].phase \in Phases
    BY <1>1 DEF Claims, Undoes, LinksIt, Cancels, SubmitClaim, SubmitUndo, SubmitLink, CancelRecord, Phases
  <2>2. doc[request[p].doc].status # "none"
    BY <2>1, RequestHas DEF RequestFits
  <2> QED BY <1>0, <1>1, <2>2 DEF Claims, Undoes, LinksIt, Cancels, Wrote
<1>2. ASSUME NEW r \in Requisitions, Creates(r) \/ Sources(r) PROVE doc'[d].instance = doc[d].instance
  BY <1>2 DEF Creates, Sources, Wrote
<1>3. ASSUME NEW o \in Orders, NEW r \in Requisitions, DrawsUp(o, r) PROVE doc'[d].instance = doc[d].instance
  BY <1>3 DEF DrawsUp
<1>4. ASSUME NEW o \in Orders, Receives(o) PROVE doc'[d].instance = doc[d].instance
  BY <1>4 DEF Receives, Wrote
<1> QED BY <1>0, <1>1, <1>2, <1>3, <1>4, DocStep

\* The record an order is drawn up as, and the one it is drawn up under, are there.
LEMMA OrderDrawn ==
    ASSUME TypeOK, DocsFit, NEW o \in Orders, NEW r \in Requisitions, NEW s \in Suppliers,
           NEW f \in Rfqs \cup {None}, NEW q \in 1..MaxQuantity, CreatePurchaseOrder(o, r, s, f, q)
    PROVE  /\ o \in Docs /\ r \in Docs /\ o # r
           /\ doc[o].status = "none" /\ source[o].requisition = None
           /\ doc'[o].status = "DRAFT" /\ doc'[r].status = "ORDER_DRAFTED"
           /\ EverApproved(r)
           /\ source' = [source EXCEPT ![o] = [requisition |-> r, supplier |-> s, rfq |-> f]]
<1>1. o \in Docs /\ r \in Docs /\ o # r
  BY IdsAssumption DEF Docs
<1>2. /\ doc[o].status = "none" /\ Approved(r)
      /\ doc' = [doc EXCEPT ![o].status = "DRAFT", ![r].status = "ORDER_DRAFTED"]
      /\ source' = [source EXCEPT ![o] = [requisition |-> r, supplier |-> s, rfq |-> f]]
  BY DEF CreatePurchaseOrder, NextId
<1>3. doc'[o].status = "DRAFT" /\ doc'[r].status = "ORDER_DRAFTED"
  BY <1>1, <1>2 DEF TypeOK
<1>4. source[o].requisition = None
  BY <1>2 DEF DocsFit
<1> QED BY <1>1, <1>2, <1>3, <1>4, ApprovedHas

LEMMA DocsStayFit ==
    ASSUME TypeOK, DocsFit, RequestsFit, Next
    PROVE  DocsFit'
<1>1. \A d \in Docs : InstanceOf(doc[d].instance, d)'
  BY InstancesFit
<1>2. ASSUME NEW d \in Docs, doc'[d].status = "none"
      PROVE  doc'[d].instance = None /\ line'[d].received = 0
  <2>1. doc[d].status = "none" /\ doc'[d].instance = doc[d].instance
    BY <1>2, StillToCome
  <2>2. doc[d].instance = None /\ line[d].received = 0
    BY <2>1 DEF DocsFit
  <2>3. line \in [Docs -> [quantity : 0..MaxQuantity, received : 0..MaxQuantity, returned : 0..MaxQuantity]]
    BY DEF TypeOK
  <2>4. ASSUME NEW r \in Requisitions, NEW q \in 1..MaxQuantity, CreateRequisition(r, q)
        PROVE  line'[d].received = line[d].received
    BY <2>3, <2>4 DEF CreateRequisition
  <2>5. ASSUME NEW o \in Orders, NEW r \in Requisitions, NEW s \in Suppliers, NEW f \in Rfqs \cup {None},
               NEW q \in 1..MaxQuantity, CreatePurchaseOrder(o, r, s, f, q)
        PROVE  line'[d].received = line[d].received
    BY <2>3, <2>5 DEF CreatePurchaseOrder
  <2>6. ASSUME NEW g \in Receipts, NEW o \in Orders, NEW q \in 1..MaxQuantity, ReceiveGoods(g, o, q)
        PROVE  line'[d].received = line[d].received
    <3>1. Approved(o) /\ line' = [line EXCEPT ![o].received = @ + q]
      BY <2>6 DEF ReceiveGoods
    <3>2. doc[o].status # "none"
      BY <3>1, ApprovedHas DEF Docs
    <3> QED BY <2>1, <2>3, <3>1, <3>2
  <2>7. ASSUME NEW t \in Returns, NEW g \in Receipts, NEW q \in 1..MaxQuantity, CreatePurchaseReturn(t, g, q)
        PROVE  line'[d].received = line[d].received
    BY <2>3, <2>7 DEF CreatePurchaseReturn
  <2>8. line'[d].received = line[d].received
    BY <2>4, <2>5, <2>6, <2>7, LineFrame
  <2> QED BY <2>1, <2>2, <2>8
<1>3. ASSUME NEW o \in Orders
      PROVE  /\ doc'[o].status = "none" => source'[o].requisition = None
             /\ source'[o].requisition # None => doc'[source'[o].requisition].status # "none"
  <2>0. source \in [Orders -> [requisition : Requisitions \cup {None}, supplier : Suppliers \cup {None},
                               rfq : Rfqs \cup {None}]] /\ o \in Docs /\ Requisitions \subseteq Docs
    BY DEF TypeOK, Docs
  <2>1. ASSUME source'[o] = source[o]
        PROVE  /\ doc'[o].status = "none" => source'[o].requisition = None
               /\ source'[o].requisition # None => doc'[source'[o].requisition].status # "none"
    <3>1. doc'[o].status = "none" => source'[o].requisition = None
      BY <2>0, <2>1, StillToCome DEF DocsFit
    <3>2. ASSUME source'[o].requisition # None PROVE doc'[source'[o].requisition].status # "none"
      <4>1. source[o].requisition \in Docs /\ doc[source[o].requisition].status # "none"
        BY <2>0, <2>1, <3>2 DEF DocsFit
      <4> QED BY <2>1, <4>1, RecordsExist
    <3> QED BY <3>1, <3>2
  <2>2. ASSUME NEW oo \in Orders, NEW r \in Requisitions, NEW s \in Suppliers, NEW f \in Rfqs \cup {None},
               NEW q \in 1..MaxQuantity, CreatePurchaseOrder(oo, r, s, f, q)
        PROVE  /\ doc'[o].status = "none" => source'[o].requisition = None
               /\ source'[o].requisition # None => doc'[source'[o].requisition].status # "none"
    <3>1. /\ source' = [source EXCEPT ![oo] = [requisition |-> r, supplier |-> s, rfq |-> f]]
          /\ doc'[oo].status = "DRAFT" /\ doc'[r].status = "ORDER_DRAFTED"
      BY <2>2, OrderDrawn
    <3>2. CASE o = oo
      BY <2>0, <3>1, <3>2
    <3>3. CASE o # oo
      BY <2>0, <2>1, <3>1, <3>3
    <3> QED BY <3>2, <3>3
  <2> QED BY <2>1, <2>2, SourceFrame
<1> QED BY <1>1, <1>2, <1>3 DEF DocsFit

\* A request moves by its own steps only.
LEMMA RequestMoves ==
    ASSUME RequestsFit, Next, NEW p \in Requests
    PROVE  \/ request'[p] = request[p]
           \/ \E d \in Docs : SubmitRead(p, d) \/ CancelRead(p, d)
           \/ SubmitClaim(p) \/ SubmitStart(p) \/ SubmitUndo(p) \/ SubmitLink(p)
           \/ CancelWithdraw(p) \/ CancelRecord(p) \/ RequestDies(p)
<1>1. DOMAIN request = Requests
  BY DEF RequestsFit
<1>2. ASSUME NEW pp \in Requests, pp # p,
             \/ \E d \in Docs : SubmitRead(pp, d) \/ CancelRead(pp, d)
             \/ SubmitClaim(pp) \/ SubmitStart(pp) \/ SubmitUndo(pp) \/ SubmitLink(pp)
             \/ CancelWithdraw(pp) \/ CancelRecord(pp) \/ RequestDies(pp)
      PROVE  request'[p] = request[p]
  BY <1>1, <1>2 DEF SubmitRead, CancelRead, SubmitClaim, SubmitStart, SubmitUndo, SubmitLink,
                    CancelWithdraw, CancelRecord, RequestDies
<1> QED BY <1>2, RequestFrame

LEMMA RequestsStayFit ==
    ASSUME TypeOK, DocsFit, RequestsFit, Next
    PROVE  RequestsFit'
<1> DEFINE Fits(p) == request'[p] # Idle => RequestFits(request[p])'
<1> SUFFICES ASSUME NEW p \in Requests PROVE Fits(p)
  BY RequestType DEF RequestsFit
<1>1. DOMAIN request = Requests
  BY DEF RequestsFit
\* What stays true of a request that keeps its record
<1>2. ASSUME NEW c \in RequestRecords, RequestFits(c)
      PROVE  /\ InstanceOf(c.inst, c.doc)' /\ InstanceOf(c.new, c.doc)'
             /\ doc'[c.doc].status # "none" /\ c.was # "none"
             /\ c.phase = "link" => c.new # None /\ c.opened \in Open
             /\ c.phase = "withdraw" => c.inst # None
  <2>1. /\ c.doc \in Docs /\ c.inst \in Instances \cup {None} /\ c.new \in Instances \cup {None}
        /\ InstanceOf(c.inst, c.doc) /\ InstanceOf(c.new, c.doc)
        /\ doc[c.doc].status # "none" /\ c.was # "none"
    BY <1>2 DEF RequestRecords, RequestFits
  <2> DEFINE ii == c.inst
             jj == c.new
             dd == c.doc
  <2>2. dd \in Docs /\ ii \in Instances \cup {None} /\ InstanceOf(ii, dd) /\ jj \in Instances \cup {None} /\ InstanceOf(jj, dd)
    BY <2>1
  <2> HIDE DEF ii, jj, dd
  <2>3. InstanceOf(ii, dd)' /\ InstanceOf(jj, dd)'
    BY <2>2, InstanceOfStands DEF InstanceOf
  <2>4. InstanceOf(c.inst, c.doc)' /\ InstanceOf(c.new, c.doc)'
    BY <2>3 DEF ii, jj, dd, InstanceOf
  <2>5. doc'[c.doc].status # "none"
    BY <2>1, RecordsExist
  <2> QED BY <1>2, <2>1, <2>4, <2>5 DEF RequestFits
<1>3. ASSUME request'[p] = request[p] PROVE Fits(p)
  <2>1. request[p] # Idle => request[p] \in RequestRecords /\ RequestFits(request[p])
    BY DEF TypeOK, RequestsFit, RequestRecords, Statuses
  <2> QED BY <1>2, <1>3, <2>1 DEF RequestFits, InstanceOf
\* A request whose new state fits in the old one
<1>4. ASSUME NEW c \in RequestRecords, RequestFits(c), request'[p] = c PROVE Fits(p)
  <2>1. /\ InstanceOf(c.inst, c.doc)' /\ InstanceOf(c.new, c.doc)'
        /\ doc'[c.doc].status # "none" /\ c.was # "none"
        /\ c.phase = "link" => c.new # None /\ c.opened \in Open
        /\ c.phase = "withdraw" => c.inst # None
    BY <1>2, <1>4
  <2> QED BY <1>4, <2>1 DEF RequestFits, InstanceOf
<1> HIDE DEF Fits
<1>5. ASSUME request'[p] = Idle PROVE Fits(p)
  BY <1>5 DEF Fits
<1>6. ASSUME NEW d \in Docs, SubmitRead(p, d) \/ CancelRead(p, d) PROVE Fits(p)
  <2>1. /\ doc[d] \in [status : Statuses, instance : Instances \cup {None}] /\ doc[d].status # "none"
        /\ InstanceOf(doc[d].instance, d)
    BY <1>6 DEF TypeOK, Statuses, SubmitRead, CancelRead, DocsFit
  <2>2. PICK ph \in {"claim", "withdraw", "cancel"} :
          /\ request' = [request EXCEPT ![p] = [phase |-> ph, doc |-> d, was |-> doc[d].status,
                                                inst |-> doc[d].instance, new |-> None, opened |-> "none"]]
          /\ ph = "withdraw" => WfStatus(d) \in Open
    BY <1>6 DEF SubmitRead, CancelRead
  <2> DEFINE c == [phase |-> ph, doc |-> d, was |-> doc[d].status, inst |-> doc[d].instance,
                   new |-> None, opened |-> "none"]
  <2>3. c \in RequestRecords
    BY <2>1 DEF RequestRecords, Phases
  <2>4. ph = "withdraw" => doc[d].instance # None
    BY <2>2 DEF WfStatus, Open
  <2>5. RequestFits(c)
    BY <2>1, <2>4 DEF RequestFits, InstanceOf
  <2>6. request'[p] = c
    BY <1>1, <2>2
  <2> HIDE DEF c
  <2> QED BY <1>4, <2>3, <2>5, <2>6
<1>7. ASSUME NEW ph \in {"start", "undo", "cancel"}, request[p].phase \in Phases,
             request'[p] = [request[p] EXCEPT !.phase = ph]
      PROVE  Fits(p)
  <2>1. request[p] \in RequestRecords /\ RequestFits(request[p])
    BY <1>7, Busy, RequestHas
  <2> DEFINE c == [request[p] EXCEPT !.phase = ph]
  <2>2. c \in RequestRecords
    BY <2>1 DEF RequestRecords, Phases
  <2>3. /\ c.phase = ph /\ c.doc = request[p].doc /\ c.was = request[p].was
        /\ c.inst = request[p].inst /\ c.new = request[p].new
    BY <2>1 DEF RequestRecords
  <2>4. request'[p] = c
    BY <1>7
  <2> HIDE DEF c
  <2>5. RequestFits(c)
    BY <2>1, <2>3 DEF RequestFits
  <2> QED BY <1>4, <2>2, <2>4, <2>5
<1>10. ASSUME SubmitClaim(p) \/ SubmitLink(p) \/ CancelWithdraw(p) PROVE Fits(p)
  <2>1. request[p].phase \in Phases
    BY <1>10 DEF SubmitClaim, SubmitLink, CancelWithdraw, Phases
  <2>2. request'[p] = Idle \/ \E ph \in {"start", "undo", "cancel"} : request'[p] = [request[p] EXCEPT !.phase = ph]
    BY <1>1, <1>10 DEF SubmitClaim, SubmitLink, CancelWithdraw
  <2> QED BY <1>5, <1>7, <2>1, <2>2
<1>8. ASSUME SubmitStart(p) PROVE Fits(p)
  <2>1. request[p] \in RequestRecords /\ RequestFits(request[p])
    BY <1>8, Busy, RequestHas DEF SubmitStart, Phases
  <2>2. CASE request' = [request EXCEPT ![p].phase = "undo"]
    BY <1>1, <1>7, <1>8, <2>2 DEF SubmitStart, Phases
  <2>3. CASE \E i \in Instances, s \in Open :
               /\ instance' = [instance EXCEPT ![i] = [doc |-> request[p].doc, status |-> s]]
               /\ request' = [request EXCEPT ![p].phase = "link", ![p].new = i, ![p].opened = s]
    <3>1. PICK i \in Instances, s \in Open :
               /\ instance' = [instance EXCEPT ![i] = [doc |-> request[p].doc, status |-> s]]
               /\ request' = [request EXCEPT ![p].phase = "link", ![p].new = i, ![p].opened = s]
      BY <2>3
    <3>2. /\ request'[p].phase = "link" /\ request'[p].doc = request[p].doc /\ request'[p].opened = s
          /\ request'[p].was = request[p].was /\ request[p].was # "none"
          /\ request'[p].inst = request[p].inst /\ request'[p].new = i
      BY <1>1, <2>1, <3>1 DEF RequestRecords, RequestFits
    <3>3. instance'[i].doc = request[p].doc
      BY <3>1 DEF TypeOK
    <3>4. InstanceOf(request[p].inst, request[p].doc)' /\ doc'[request[p].doc].status # "none"
      <4>1. /\ InstanceOf(request[p].inst, request[p].doc)
            /\ request[p].doc \in Docs /\ request[p].inst \in Instances \cup {None}
            /\ doc[request[p].doc].status # "none"
        BY <2>1 DEF RequestRecords, RequestFits
      <4>2. doc'[request[p].doc].status # "none"
        BY <4>1, RecordsExist
      <4>3. request'[p].inst = request[p].inst /\ request'[p].doc = request[p].doc
        BY <3>2
      <4>4. request[p].inst # None => instance'[request[p].inst].doc = request[p].doc
        <5>1. ASSUME request[p].inst # None PROVE instance'[request[p].inst].doc = request[p].doc
          <6>1. request[p].inst \in Instances /\ instance[request[p].inst].doc = request[p].doc /\ request[p].doc # None
            BY <4>1, <5>1, IdsAssumption DEF InstanceOf, Docs
          <6> QED BY <6>1, InstancesStand
        <5> QED BY <5>1
      <4> QED BY <3>2, <4>2, <4>3, <4>4 DEF InstanceOf
    <3>5. i # None /\ s \in Open
      BY IdsAssumption
    <3> QED BY <3>2, <3>3, <3>4, <3>5 DEF Fits, RequestFits, InstanceOf
  <2> QED BY <1>8, <2>2, <2>3 DEF SubmitStart, NextId
<1>9. ASSUME SubmitUndo(p) \/ CancelRecord(p) \/ RequestDies(p) PROVE Fits(p)
  BY <1>1, <1>5, <1>9 DEF SubmitUndo, CancelRecord, RequestDies
<1> QED BY <1>3, <1>6, <1>8, <1>9, <1>10, RequestMoves

-----------------------------------------------------------------------------
(* Who put a record into SUBMITTING.                                         *)

\* A record is in SUBMITTING because it was, or because a claim took it there.
LEMMA SubmittingBegins ==
    ASSUME TypeOK, DocsFit, RequestsFit, Next, NEW d \in Docs, doc'[d].status = "SUBMITTING"
    PROVE  \/ doc[d].status = "SUBMITTING" /\ doc'[d].instance = doc[d].instance
           \/ \E p \in Requests : Claims(p) /\ request[p].doc = d /\ request[p].was # "SUBMITTING"
<1> DEFINE Was == doc[d].status = "SUBMITTING" /\ doc'[d].instance = doc[d].instance
<1>1. ASSUME NEW p \in Requests, Claims(p), ~(request[p].doc = d /\ request[p].was # "SUBMITTING") PROVE Was
  <2>1. CASE request[p].doc = d
    <3>1. doc[d] = [status |-> request[p].was, instance |-> request[p].inst] /\ request[p].was = "SUBMITTING"
      BY <1>1, <2>1 DEF Claims, Unmoved
    <3>2. doc'[d].instance = request[p].inst
      BY <1>1, <2>1 DEF Claims, Wrote
    <3> QED BY <3>1, <3>2
  <2>2. CASE request[p].doc # d
    BY <1>1, <2>2 DEF Claims, Wrote
  <2> QED BY <2>1, <2>2
<1>2. ASSUME NEW p \in Requests, Undoes(p) PROVE Was
  BY <1>2 DEF Undoes, Wrote
<1>3. ASSUME NEW p \in Requests, LinksIt(p) PROVE Was
  <2>1. request[p].opened # "SUBMITTING"
    BY <1>3, RequestHas DEF LinksIt, SubmitLink, Phases, RequestFits, Open
  <2> QED BY <1>3, <2>1 DEF LinksIt, Wrote
<1>4. ASSUME NEW p \in Requests, Cancels(p) PROVE Was
  BY <1>4 DEF Cancels, Wrote
<1>5. ASSUME NEW r \in Requisitions, Creates(r) \/ Sources(r) PROVE Was
  BY <1>5 DEF Creates, Sources, Wrote
<1>6. ASSUME NEW o \in Orders, NEW r \in Requisitions, DrawsUp(o, r) PROVE Was
  BY <1>6 DEF DrawsUp
<1>7. ASSUME NEW o \in Orders, Receives(o) PROVE Was
  BY <1>7 DEF Receives, Wrote
<1>8. ASSUME UNCHANGED <<doc, revived>> PROVE Was
  BY <1>8
<1> HIDE DEF Was
<1>9. Was \/ \E p \in Requests : Claims(p) /\ request[p].doc = d /\ request[p].was # "SUBMITTING"
  BY <1>1, <1>2, <1>3, <1>4, <1>5, <1>6, <1>7, <1>8, DocStep
<1> QED BY <1>9 DEF Was

\* The claim makes its request the owner, or its answer is lost.
LEMMA ClaimOwns ==
    ASSUME TypeOK, RequestsFit, NEW p \in Requests, Claims(p), request[p].was # "SUBMITTING",
           NEW d \in Docs, request[p].doc = d
    PROVE  Owns(p, d)' \/ <<d, None>> \in stranded'
<1>1. request[p] \in RequestRecords /\ DOMAIN request = Requests
  BY Busy DEF Claims, SubmitClaim, Phases, RequestsFit
<1>2. <<d, None>> \in stranded' \/ request' = [request EXCEPT ![p].phase = "start"]
  BY DEF Claims, SubmitClaim
<1>3. CASE request' = [request EXCEPT ![p].phase = "start"]
  <2>1. /\ request'[p].phase = "start" /\ request'[p].doc = request[p].doc
        /\ request'[p].was = request[p].was /\ request'[p].inst = request[p].inst
    BY <1>1, <1>3 DEF RequestRecords
  <2>2. request'[p] # Idle
    BY <2>1 DEF Idle
  <2>3. doc'[d].instance = request[p].inst
    BY <1>1 DEF Claims, Wrote, RequestRecords
  <2> QED BY <2>1, <2>2, <2>3 DEF Owns, Submitting
<1> QED BY <1>2, <1>3

\* What was left half way is, until the record is claimed again.
LEMMA StrandedStays ==
    ASSUME Next, NEW e \in stranded
    PROVE  \/ e \in stranded'
           \/ \E p \in Requests : /\ SubmitClaim(p) /\ Unmoved(p) /\ request[p].was # "SUBMITTING"
                                  /\ e = <<request[p].doc, None>>
<1>1. ASSUME NEW p \in Requests, SubmitClaim(p)
      PROVE  e \in stranded' \/ (Unmoved(p) /\ request[p].was # "SUBMITTING" /\ e = <<request[p].doc, None>>)
  BY <1>1 DEF SubmitClaim
<1>2. ASSUME NEW p \in Requests, SubmitStart(p) \/ SubmitUndo(p) \/ SubmitLink(p) \/ RequestDies(p)
      PROVE  e \in stranded'
  BY <1>2 DEF SubmitStart, SubmitUndo, SubmitLink, RequestDies
<1> QED BY <1>1, <1>2, StrandedFrame

\* The owner of a record that stays as it was stays its owner, or leaves it stranded.
LEMMA OwnerStays ==
    ASSUME TypeOK, DocsFit, RequestsFit, Next, NEW d \in Docs, NEW p \in Requests, Owns(p, d),
           doc[d].status = "SUBMITTING", doc'[d].status = "SUBMITTING", doc'[d].instance = doc[d].instance
    PROVE  Owns(p, d)' \/ <<d, None>> \in stranded'
<1>1. /\ request[p] # Idle /\ request[p].doc = d /\ request[p].phase \in Submitting
      /\ request[p].was # "SUBMITTING" /\ request[p].inst = doc[d].instance
      /\ request[p] \in RequestRecords /\ DOMAIN request = Requests
  BY Busy DEF Owns, Submitting, Phases, RequestsFit
<1>2. Left(p) = {<<d, None>>}
  <2>1. doc[d] \in [status : Statuses, instance : Instances \cup {None}]
    BY DEF TypeOK, Statuses
  <2>2. ClaimStands(p)
    BY <1>1, <2>1 DEF ClaimStands
  <2> QED BY <1>1, <2>2 DEF Left
<1>3. CASE request'[p] = request[p]
  BY <1>3 DEF Owns
\* Its phase changes only.
<1>4. ASSUME NEW ph \in Submitting, request'[p].phase = ph, request'[p].doc = request[p].doc,
             request'[p].was = request[p].was, request'[p].inst = request[p].inst
      PROVE  Owns(p, d)'
  BY <1>1, <1>4 DEF Owns, Idle, Submitting
<1>5. CASE SubmitStart(p)
  <2>1. CASE request' = [request EXCEPT ![p].phase = "undo"]
    <3>1. /\ request'[p].phase = "undo" /\ request'[p].doc = request[p].doc
          /\ request'[p].was = request[p].was /\ request'[p].inst = request[p].inst
      BY <1>1, <2>1 DEF RequestRecords
    <3> QED BY <1>4, <3>1 DEF Submitting
  <2>2. CASE \E i \in Instances, s \in Open : request' = [request EXCEPT ![p].phase = "link", ![p].new = i, ![p].opened = s]
    <3>1. /\ request'[p].phase = "link" /\ request'[p].doc = request[p].doc
          /\ request'[p].was = request[p].was /\ request'[p].inst = request[p].inst
      BY <1>1, <2>2 DEF RequestRecords
    <3> QED BY <1>4, <3>1 DEF Submitting
  <2> QED BY <1>5, <2>1, <2>2 DEF SubmitStart, NextId
<1>6. CASE SubmitUndo(p)
  <2>1. \/ Write(d, request[p].was, request[p].inst)
        \/ stranded' = stranded \cup Left(p)
    BY <1>1, <1>2, <1>6 DEF SubmitUndo, Left
  <2>2. CASE Write(d, request[p].was, request[p].inst)
    <3>1. doc'[d].status = request[p].was
      BY <2>2 DEF Write, TypeOK
    <3> QED BY <1>1, <3>1
  <2> QED BY <1>2, <2>1, <2>2
<1>7. CASE SubmitLink(p)
  <2>1. CASE Write(d, request[p].opened, request[p].new)
    <3>1. request[p].opened \in Open
      BY <1>7, RequestHas DEF SubmitLink, RequestFits, Phases
    <3>2. doc'[d].status = request[p].opened
      BY <2>1 DEF Write, TypeOK
    <3> QED BY <3>1, <3>2 DEF Open
  <2>2. CASE request' = [request EXCEPT ![p].phase = "undo"]
    <3>1. /\ request'[p].phase = "undo" /\ request'[p].doc = request[p].doc
          /\ request'[p].was = request[p].was /\ request'[p].inst = request[p].inst
      BY <1>1, <2>2 DEF RequestRecords
    <3> QED BY <1>4, <3>1 DEF Submitting
  <2> QED BY <1>1, <1>7, <2>1, <2>2 DEF SubmitLink
<1>8. CASE RequestDies(p)
  BY <1>1, <1>2, <1>8 DEF RequestDies, Submitting
<1>9. CASE \/ \E x \in Docs : SubmitRead(p, x) \/ CancelRead(p, x)
           \/ SubmitClaim(p) \/ CancelWithdraw(p) \/ CancelRecord(p)
  BY <1>1, <1>9 DEF SubmitRead, CancelRead, SubmitClaim, CancelWithdraw, CancelRecord, Submitting
<1> QED BY <1>3, <1>5, <1>6, <1>7, <1>8, <1>9, RequestMoves

LEMMA SubmittersStayFit ==
    ASSUME TypeOK, DocsFit, RequestsFit, SubmittersFit, Next
    PROVE  SubmittersFit'
<1> SUFFICES ASSUME NEW d \in Docs, doc'[d].status = "SUBMITTING"
             PROVE  <<d, None>> \in stranded' \/ \E p \in Requests : Owns(p, d)'
  BY DEF SubmittersFit
<1>1. ASSUME NEW p \in Requests, Claims(p), request[p].doc = d, request[p].was # "SUBMITTING"
      PROVE  Owns(p, d)' \/ <<d, None>> \in stranded'
  BY <1>1, ClaimOwns
<1>2. ASSUME doc[d].status = "SUBMITTING", doc'[d].instance = doc[d].instance
      PROVE  <<d, None>> \in stranded' \/ \E p \in Requests : Owns(p, d)'
  <2>1. CASE <<d, None>> \in stranded
    <3>1. ASSUME NEW p \in Requests, Unmoved(p), request[p].was # "SUBMITTING", <<d, None>> = <<request[p].doc, None>>
          PROVE  FALSE
      BY <1>2, <3>1 DEF Unmoved
    <3> QED BY <2>1, <3>1, StrandedStays
  <2>2. CASE \E p \in Requests : Owns(p, d)
    BY <1>2, <2>2, OwnerStays
  <2> QED BY <1>2, <2>1, <2>2 DEF SubmittersFit
<1> QED BY <1>1, <1>2, SubmittingBegins

-----------------------------------------------------------------------------
(* First submissions.                                                        *)

\* Only a link gives a record another instance.
LEMMA InstanceGiven ==
    ASSUME TypeOK, DocsFit, RequestsFit, Next, NEW d \in Docs, doc'[d].instance = None
    PROVE  /\ doc[d].instance = None
           /\ \A p \in Requests : ~(LinksIt(p) /\ request[p].doc = d)
<1>1. ASSUME NEW p \in Requests, LinksIt(p) PROVE request[p].doc # d /\ doc[d].instance = None
  <2>1. request[p].new # None
    BY <1>1, RequestHas DEF LinksIt, SubmitLink, Phases, RequestFits
  <2> QED BY <1>1, <2>1 DEF LinksIt, Wrote
<1>2. ASSUME NEW p \in Requests, Claims(p) \/ Undoes(p) \/ Cancels(p) PROVE doc[d].instance = None
  BY <1>2 DEF Claims, Undoes, Cancels, Unmoved, Wrote
<1>3. ASSUME NEW r \in Requisitions, Creates(r) \/ Sources(r) PROVE doc[d].instance = None
  BY <1>3 DEF Creates, Sources, Wrote
<1>4. ASSUME NEW o \in Orders, NEW r \in Requisitions, DrawsUp(o, r) PROVE doc[d].instance = None
  BY <1>4 DEF DrawsUp
<1>5. ASSUME NEW o \in Orders, Receives(o) PROVE doc[d].instance = None
  BY <1>5 DEF Receives, Wrote
<1>6. ASSUME UNCHANGED <<doc, revived>> PROVE doc[d].instance = None
  BY <1>6
<1> QED BY <1>1, <1>2, <1>3, <1>4, <1>5, <1>6, DocStep

\* A record that is first submitted stays in SUBMITTING until its request is done.
LEMMA StaysSubmitting ==
    ASSUME TypeOK, DocsFit, RequestsFit, FirstFit, OneSubmits, Next,
           NEW p \in Requests, request[p] # Idle, request[p].phase \in Submitting,
           NEW d \in Docs, request[p].doc = d, doc'[d].instance = None
    PROVE  doc'[d].status = "SUBMITTING" \/ SubmitUndo(p)
<1>1. /\ doc[d].instance = None /\ doc[d].status = "SUBMITTING"
      /\ \A q \in Requests : ~(LinksIt(q) /\ request[q].doc = d)
  BY InstanceGiven DEF FirstFit, FirstFits
<1> DEFINE Goal == doc'[d].status = "SUBMITTING" \/ SubmitUndo(p)
<1>2. ASSUME NEW q \in Requests, Claims(q) PROVE Goal
  BY <1>1, <1>2 DEF Claims, Wrote
<1>3. ASSUME NEW q \in Requests, Undoes(q) PROVE Goal
  <2>1. CASE request[q].doc = d
    <3>1. request[q] # Idle /\ request[q].phase \in Submitting
      BY <1>3, RequestHas DEF Undoes, SubmitUndo, Phases, Submitting
    <3>2. q = p
      BY <1>1, <2>1, <3>1 DEF OneSubmits
    <3> QED BY <1>3, <3>2 DEF Undoes
  <2>2. CASE request[q].doc # d
    BY <1>1, <1>3, <2>2 DEF Undoes, Wrote
  <2> QED BY <2>1, <2>2
<1>4. ASSUME NEW q \in Requests, LinksIt(q) PROVE Goal
  BY <1>1, <1>4 DEF LinksIt, Wrote
<1>5. ASSUME NEW q \in Requests, Cancels(q) PROVE Goal
  <2>1. CASE request[q].doc = d
    <3>1. request[q] # Idle /\ request[q].phase = "cancel"
      BY <1>5, RequestHas DEF Cancels, CancelRecord, Phases
    <3>2. request[q].was # "SUBMITTING"
      BY <1>1, <2>1, <3>1 DEF FirstFit, FirstFits
    <3>3. doc[d].status = request[q].was
      BY <1>5, <2>1 DEF Cancels, Unmoved
    <3> QED BY <1>1, <3>2, <3>3
  <2>2. CASE request[q].doc # d
    BY <1>1, <1>5, <2>2 DEF Cancels, Wrote
  <2> QED BY <2>1, <2>2
<1>6. ASSUME NEW r \in Requisitions, Creates(r) \/ Sources(r) PROVE Goal
  BY <1>1, <1>6 DEF Creates, Sources, Wrote
<1>7. ASSUME NEW o \in Orders, NEW r \in Requisitions, DrawsUp(o, r) PROVE Goal
  BY <1>1, <1>7 DEF DrawsUp
<1>8. ASSUME NEW o \in Orders, Receives(o) PROVE Goal
  BY <1>1, <1>8 DEF Receives, Wrote
<1>9. ASSUME UNCHANGED <<doc, revived>> PROVE Goal
  BY <1>1, <1>9
<1> HIDE DEF Goal
<1>10. Goal
  BY <1>2, <1>3, <1>4, <1>5, <1>6, <1>7, <1>8, <1>9, DocStep
<1> QED BY <1>10 DEF Goal

\* What a request's phase says of its record when it has no instance
LEMMA FirstStaysFit ==
    ASSUME TypeOK, DocsFit, RequestsFit, FirstFit, OneSubmits, Next
    PROVE  FirstFit'
<1> SUFFICES ASSUME NEW p \in Requests, request'[p] # Idle, doc'[request'[p].doc].instance = None
             PROVE  /\ request'[p].inst = None
                    /\ request'[p].phase \in Submitting => doc'[request'[p].doc].status = "SUBMITTING"
                    /\ request'[p].phase = "claim" => request'[p].was = "DRAFT"
                    /\ request'[p].phase = "cancel" => request'[p].was # "SUBMITTING"
  BY DEF FirstFit, FirstFits
<1> DEFINE d == request'[p].doc
           Goal == /\ request'[p].inst = None
                   /\ request'[p].phase \in Submitting => doc'[d].status = "SUBMITTING"
                   /\ request'[p].phase = "claim" => request'[p].was = "DRAFT"
                   /\ request'[p].phase = "cancel" => request'[p].was # "SUBMITTING"
<1>1. d \in Docs
  BY RequestType DEF RequestRecords
<1>2. doc[d].instance = None /\ \A q \in Requests : ~(LinksIt(q) /\ request[q].doc = d)
  BY <1>1, InstanceGiven
<1>a. DOMAIN request = Requests
  BY DEF RequestsFit
\* A request that was submitting the record already
<1>3. ASSUME request[p] # Idle, request[p].doc = d, request[p].phase \in Submitting, ~SubmitUndo(p),
             request'[p].inst = request[p].inst, request'[p].phase \in Submitting
      PROVE  Goal
  <2>1. request[p].inst = None
    BY <1>2, <1>3 DEF FirstFit, FirstFits
  <2>2. doc'[d].status = "SUBMITTING"
    BY <1>1, <1>3, StaysSubmitting
  <2> QED BY <1>3, <2>1, <2>2 DEF Submitting
<1>4. ASSUME request'[p] = request[p] PROVE Goal
  <2>1. CASE request[p].phase \in Submitting
    <3>1. ~SubmitUndo(p)
      BY <1>a, <1>4 DEF SubmitUndo
    <3> QED BY <1>3, <1>4, <2>1, <3>1
  <2>2. CASE request[p].phase \notin Submitting
    BY <1>2, <1>4, <2>2 DEF FirstFit, FirstFits
  <2> QED BY <2>1, <2>2
<1>5. ASSUME NEW x \in Docs, SubmitRead(p, x) PROVE Goal
  <2>1. request'[p] = [phase |-> "claim", doc |-> x, was |-> doc[x].status,
                       inst |-> doc[x].instance, new |-> None, opened |-> "none"]
    BY <1>a, <1>5 DEF SubmitRead
  <2>2. d = x /\ request'[p].phase = "claim" /\ request'[p].was = doc[x].status /\ request'[p].inst = doc[x].instance
    BY <2>1
  <2>3. WfStatus(x) = "none"
    BY <1>2, <2>2 DEF WfStatus
  <2>4. doc[x].status = "DRAFT"
    BY <1>5, <2>3 DEF SubmitRead
  <2> QED BY <1>2, <2>2, <2>4 DEF Submitting
<1>6. ASSUME NEW x \in Docs, CancelRead(p, x) PROVE Goal
  <2>1. request'[p] = [phase |-> IF WfStatus(x) \in Open THEN "withdraw" ELSE "cancel", doc |-> x,
                       was |-> doc[x].status, inst |-> doc[x].instance, new |-> None, opened |-> "none"]
    BY <1>a, <1>6 DEF CancelRead
  <2>2. /\ d = x /\ request'[p].phase \in {"withdraw", "cancel"}
        /\ request'[p].was = doc[x].status /\ request'[p].inst = doc[x].instance
    BY <2>1
  <2>3. doc[x].status \in Active
    BY <1>2, <1>6, <2>2 DEF CancelRead
  <2>4. doc[x].status # "SUBMITTING"
    BY <2>3 DEF Active, Open
  <2> QED BY <1>2, <2>2, <2>4 DEF Submitting
<1>7. ASSUME SubmitClaim(p) PROVE Goal
  <2>1. request[p] \in RequestRecords /\ request[p] # Idle
    BY <1>7, Busy DEF SubmitClaim, Phases
  <2>2. /\ request' = [request EXCEPT ![p].phase = "start"]
        /\ Write(request[p].doc, "SUBMITTING", request[p].inst)
    BY <1>a, <1>7 DEF SubmitClaim
  <2>3. /\ request'[p].phase = "start" /\ request'[p].inst = request[p].inst /\ d = request[p].doc
    BY <1>a, <2>1, <2>2 DEF RequestRecords
  <2>4. doc'[d].status = "SUBMITTING"
    BY <1>1, <2>2, <2>3 DEF Write, TypeOK
  <2>5. request[p].inst = None
    BY <1>2, <2>1, <2>3 DEF FirstFit, FirstFits
  <2> QED BY <2>3, <2>4, <2>5
<1>8. ASSUME SubmitStart(p) PROVE Goal
  <2>1. request[p] \in RequestRecords /\ request[p] # Idle /\ request[p].phase \in Submitting /\ ~SubmitUndo(p)
    BY <1>8, Busy DEF SubmitStart, SubmitUndo, Phases, Submitting
  <2>2. CASE request' = [request EXCEPT ![p].phase = "undo"]
    <3>1. request'[p].phase = "undo" /\ request'[p].inst = request[p].inst /\ d = request[p].doc
      BY <1>a, <2>1, <2>2 DEF RequestRecords
    <3> QED BY <1>3, <2>1, <3>1 DEF Submitting
  <2>3. CASE \E i \in Instances, s \in Open : request' = [request EXCEPT ![p].phase = "link", ![p].new = i, ![p].opened = s]
    <3>1. request'[p].phase = "link" /\ request'[p].inst = request[p].inst /\ d = request[p].doc
      BY <1>a, <2>1, <2>3 DEF RequestRecords
    <3> QED BY <1>3, <2>1, <3>1 DEF Submitting
  <2> QED BY <1>8, <2>2, <2>3 DEF SubmitStart, NextId
<1>9. ASSUME SubmitLink(p) PROVE Goal
  <2>1. request[p] \in RequestRecords /\ request[p] # Idle /\ request[p].phase \in Submitting /\ ~SubmitUndo(p)
    BY <1>9, Busy DEF SubmitLink, SubmitUndo, Phases, Submitting
  <2>2. request' = [request EXCEPT ![p].phase = "undo"]
    BY <1>a, <1>9 DEF SubmitLink
  <2>3. request'[p].phase = "undo" /\ request'[p].inst = request[p].inst /\ d = request[p].doc
    BY <1>a, <2>1, <2>2 DEF RequestRecords
  <2> QED BY <1>3, <2>1, <2>3 DEF Submitting
<1>10. ASSUME CancelWithdraw(p) PROVE Goal
  <2>1. request[p] \in RequestRecords /\ request[p] # Idle /\ request[p].inst # None
    BY <1>10, Busy, RequestHas DEF CancelWithdraw, Phases, RequestFits
  <2>2. request' = [request EXCEPT ![p].phase = "cancel"]
    BY <1>a, <1>10 DEF CancelWithdraw
  <2>3. d = request[p].doc
    BY <1>a, <2>1, <2>2 DEF RequestRecords
  <2> QED BY <1>2, <2>1, <2>3 DEF FirstFit, FirstFits
<1>11. ASSUME SubmitUndo(p) \/ CancelRecord(p) \/ RequestDies(p) PROVE Goal
  BY <1>a, <1>11 DEF SubmitUndo, CancelRecord, RequestDies
<1> HIDE DEF Goal
<1>12. Goal
  BY <1>4, <1>5, <1>6, <1>7, <1>8, <1>9, <1>10, <1>11, RequestMoves
<1> QED BY <1>12 DEF Goal

\* A request is submitting because it was, or because its claim took the record.
LEMMA SubmitsSince ==
    ASSUME TypeOK, RequestsFit, Next, NEW p \in Requests, request'[p] # Idle, request'[p].phase \in Submitting
    PROVE  /\ request[p] # Idle /\ request[p].doc = request'[p].doc
           /\ \/ request[p].phase \in Submitting
              \/ SubmitClaim(p) /\ Unmoved(p) /\ request[p].phase = "claim"
<1>1. DOMAIN request = Requests
  BY DEF RequestsFit
<1>2. CASE request'[p] = request[p]
  BY <1>2
<1>3. ASSUME NEW x \in Docs, SubmitRead(p, x) \/ CancelRead(p, x) PROVE FALSE
  BY <1>1, <1>3 DEF SubmitRead, CancelRead, Submitting
<1>4. CASE SubmitClaim(p)
  <2>1. request[p] \in RequestRecords /\ request[p] # Idle /\ request[p].phase = "claim"
    BY <1>4, Busy DEF SubmitClaim, Phases
  <2>2. Unmoved(p) /\ request' = [request EXCEPT ![p].phase = "start"]
    BY <1>1, <1>4 DEF SubmitClaim
  <2>3. request'[p].doc = request[p].doc
    BY <1>1, <2>1, <2>2 DEF RequestRecords
  <2> QED BY <1>4, <2>1, <2>2, <2>3
<1>5. CASE SubmitStart(p)
  <2>1. request[p] \in RequestRecords /\ request[p] # Idle /\ request[p].phase \in Submitting
    BY <1>5, Busy DEF SubmitStart, Phases, Submitting
  <2>2. \/ request' = [request EXCEPT ![p].phase = "undo"]
        \/ \E i \in Instances, s \in Open : request' = [request EXCEPT ![p].phase = "link", ![p].new = i, ![p].opened = s]
    BY <1>5 DEF SubmitStart, NextId
  <2>3. CASE request' = [request EXCEPT ![p].phase = "undo"]
    BY <1>1, <2>1, <2>3 DEF RequestRecords
  <2>4. ASSUME NEW i \in Instances, NEW s \in Open,
               request' = [request EXCEPT ![p].phase = "link", ![p].new = i, ![p].opened = s]
        PROVE  request'[p].doc = request[p].doc
    BY <1>1, <2>1, <2>4 DEF RequestRecords
  <2> QED BY <2>1, <2>2, <2>3, <2>4
<1>6. CASE SubmitLink(p)
  <2>1. request[p] \in RequestRecords /\ request[p] # Idle /\ request[p].phase \in Submitting
    BY <1>6, Busy DEF SubmitLink, Phases, Submitting
  <2>2. request' = [request EXCEPT ![p].phase = "undo"]
    BY <1>1, <1>6 DEF SubmitLink
  <2>3. request'[p].doc = request[p].doc
    BY <1>1, <2>1, <2>2 DEF RequestRecords
  <2> QED BY <2>1, <2>3
<1>7. CASE CancelWithdraw(p)
  <2>1. request[p] \in RequestRecords
    BY <1>7, Busy DEF CancelWithdraw, Phases
  <2>2. request'[p].phase = "cancel"
    BY <1>1, <1>7, <2>1 DEF CancelWithdraw, RequestRecords
  <2> QED BY <2>2 DEF Submitting
<1>8. CASE SubmitUndo(p) \/ CancelRecord(p) \/ RequestDies(p)
  BY <1>1, <1>8 DEF SubmitUndo, CancelRecord, RequestDies
<1> QED BY <1>2, <1>3, <1>4, <1>5, <1>6, <1>7, <1>8, RequestMoves

\* No second request begins a first submission while one is under way.
LEMMA OneStillSubmits ==
    ASSUME TypeOK, DocsFit, RequestsFit, FirstFit, OneSubmits, Next
    PROVE  OneSubmits'
<1> SUFFICES ASSUME NEW p \in Requests, NEW q \in Requests,
                    request'[p] # Idle, request'[p].phase \in Submitting,
                    request'[q] # Idle, request'[q].phase \in Submitting,
                    request'[p].doc = request'[q].doc, doc'[request'[p].doc].instance = None,
                    p # q
             PROVE  FALSE
  BY DEF OneSubmits
<1>1. request'[p].doc \in Docs
  BY RequestType DEF RequestRecords
<1>2. doc[request'[p].doc].instance = None
  BY <1>1, InstanceGiven
<1>3. /\ request[p] # Idle /\ request[p].doc = request'[p].doc
      /\ request[p].phase \in Submitting \/ (SubmitClaim(p) /\ Unmoved(p) /\ request[p].phase = "claim")
      /\ request[q] # Idle /\ request[q].doc = request'[p].doc
      /\ request[q].phase \in Submitting \/ (SubmitClaim(q) /\ Unmoved(q) /\ request[q].phase = "claim")
  BY SubmitsSince
<1>4. ASSUME NEW x \in {p, q}, NEW y \in {p, q}, x # y, SubmitClaim(x), Unmoved(x), request[x].phase = "claim"
      PROVE  FALSE
  <2>1. request'[y] = request[y]
    BY <1>4 DEF SubmitClaim, RequestsFit
  <2>2. doc[request[y].doc].status = "SUBMITTING"
    BY <1>2, <1>3, <1>4, <2>1 DEF FirstFit, FirstFits
  <2>3. request[x].was = "DRAFT"
    BY <1>2, <1>3, <1>4 DEF FirstFit, FirstFits
  <2>4. doc[request[x].doc].status = request[x].was
    BY <1>4 DEF Unmoved
  <2> QED BY <1>3, <2>2, <2>3, <2>4
<1>5. request[p].phase \in Submitting /\ request[q].phase \in Submitting
  BY <1>3, <1>4
<1> QED BY <1>2, <1>3, <1>5 DEF OneSubmits

\* An instance of a record that has none is about to be linked to it, or is stranded.
LEMMA StaysAccounted ==
    ASSUME TypeOK, DocsFit, RequestsFit, Accounted, Next
    PROVE  Accounted'
<1> SUFFICES ASSUME NEW d \in Docs, NEW i \in Instances, doc'[d].instance = None, instance'[i].doc = d
             PROVE  <<d, i>> \in stranded' \/ \E p \in Requests : Linking(p, d, i)'
  BY DEF Accounted
<1> DEFINE Goal == <<d, i>> \in stranded' \/ \E p \in Requests : Linking(p, d, i)'
<1>1. doc[d].instance = None
  BY InstanceGiven
<1>2. i # None /\ d # None
  BY IdsAssumption DEF Docs
<1>a. DOMAIN request = Requests /\ DOMAIN doc = Docs /\ DOMAIN instance = Instances
  BY DEF RequestsFit, TypeOK
<1>3. CASE <<d, i>> \in stranded
  BY <1>2, <1>3, StrandedStays
<1>4. ASSUME NEW p \in Requests, Linking(p, d, i) PROVE Goal
  <2>1. request[p] # Idle /\ request[p].phase = "link" /\ request[p].doc = d /\ request[p].new = i
    BY <1>4 DEF Linking
  <2>2. CASE request'[p] = request[p]
    BY <2>1, <2>2 DEF Linking
  <2>3. CASE SubmitLink(p)
    <3>1. CASE Write(d, request[p].opened, i)
      <4>1. doc'[d].instance = i
        BY <1>a, <3>1 DEF Write
      <4> QED BY <1>2, <4>1
    <3> QED BY <2>1, <2>3, <3>1 DEF SubmitLink
  <2>4. CASE RequestDies(p)
    BY <2>1, <2>4 DEF RequestDies
  <2>5. CASE \/ \E x \in Docs : SubmitRead(p, x) \/ CancelRead(p, x)
             \/ SubmitClaim(p) \/ SubmitStart(p) \/ SubmitUndo(p) \/ CancelWithdraw(p) \/ CancelRecord(p)
    BY <2>1, <2>5 DEF SubmitRead, CancelRead, SubmitClaim, SubmitStart, SubmitUndo, CancelWithdraw, CancelRecord
  <2> QED BY <2>2, <2>3, <2>4, <2>5, RequestMoves
<1>5. ASSUME NEW p \in Requests, SubmitStart(p), instance[i].doc # d PROVE Goal
  <2>1. request[p] \in RequestRecords
    BY <1>5, Busy DEF SubmitStart, Phases
  <2>2. PICK n \in Instances, s \in Open :
          /\ instance' = [instance EXCEPT ![n] = [doc |-> request[p].doc, status |-> s]]
          /\ \/ request' = [request EXCEPT ![p].phase = "link", ![p].new = n, ![p].opened = s]
             \/ stranded' = stranded \cup {<<request[p].doc, n>>}
    BY <1>5 DEF SubmitStart, NextId
  <2>3. n = i /\ request[p].doc = d
    BY <1>5, <1>a, <2>2
  <2>4. CASE request' = [request EXCEPT ![p].phase = "link", ![p].new = n, ![p].opened = s]
    <3>1. request'[p].phase = "link" /\ request'[p].doc = d /\ request'[p].new = i
      BY <1>a, <2>1, <2>3, <2>4 DEF RequestRecords
    <3> QED BY <3>1 DEF Linking, Idle
  <2> QED BY <2>2, <2>3, <2>4
<1>6. ASSUME instance[i].doc # d PROVE \E p \in Requests : SubmitStart(p)
  <2>0. instance \in [Instances -> [doc : Docs \cup {None}, status : WorkflowStatus \cup {"none"}]]
    BY DEF TypeOK
  <2>1. ASSUME NEW p \in Requests, CancelWithdraw(p) PROVE FALSE
    BY <1>6, <2>0, <2>1 DEF CancelWithdraw
  <2>2. ASSUME NEW n \in Instances, Decide(n) PROVE FALSE
    BY <1>6, <2>0, <2>2 DEF Decide
  <2> QED BY <1>6, <2>1, <2>2, InstanceFrame
<1>7. instance[i].doc = d => <<d, i>> \in stranded \/ \E p \in Requests : Linking(p, d, i)
  BY <1>1 DEF Accounted
<1> QED BY <1>3, <1>4, <1>5, <1>6, <1>7

\* So a submission happens as a whole, or says what it left.
LEMMA WholeOrStranded ==
    ASSUME SubmittersFit, OneSubmits, Accounted
    PROVE  SubmissionsAreWhole
<1> SUFFICES ASSUME NEW d \in Docs
             PROVE  /\ doc[d].status = "SUBMITTING" => <<d, None>> \in stranded \/ Submitters(d) # {}
                    /\ doc[d].instance = None =>
                          /\ \A p, q \in Submitters(d) : p = q
                          /\ \A i \in Instances : instance[i].doc = d =>
                                \/ <<d, i>> \in stranded
                                \/ \E p \in Submitters(d) : request[p].phase = "link" /\ request[p].new = i
  BY DEF SubmissionsAreWhole
<1>1. doc[d].status = "SUBMITTING" => <<d, None>> \in stranded \/ Submitters(d) # {}
  BY DEF SubmittersFit, Owns, Submitters, Submitting
<1>2. ASSUME doc[d].instance = None PROVE \A p, q \in Submitters(d) : p = q
  BY <1>2 DEF OneSubmits, Submitters, Submitting
<1>3. ASSUME doc[d].instance = None, NEW i \in Instances, instance[i].doc = d
      PROVE  \/ <<d, i>> \in stranded
             \/ \E p \in Submitters(d) : request[p].phase = "link" /\ request[p].new = i
  BY <1>3 DEF Accounted, Linking, Submitters
<1> QED BY <1>1, <1>2, <1>3
-----------------------------------------------------------------------------
(* Supplier RFQs and what is spent.                                          *)

LEMMA RfqType ==
    ASSUME TypeOK, Next
    PROVE  rfq' \in [Rfqs -> [requisition : Requisitions \cup {None}, status : {"none", "OPEN", "CLOSED", "AWARDED"},
                       invite : [Suppliers -> {"none", "INVITED", "RESPONDED", "SELECTED", "NOT_SELECTED"}]]]
<1> DEFINE T == [requisition : Requisitions \cup {None}, status : {"none", "OPEN", "CLOSED", "AWARDED"},
                 invite : [Suppliers -> {"none", "INVITED", "RESPONDED", "SELECTED", "NOT_SELECTED"}]]
<1>1. rfq \in [Rfqs -> T]
  BY DEF TypeOK
<1>2. ASSUME NEW f \in Rfqs, NEW r \in Requisitions, NEW c \in SUBSET Suppliers, CreateSupplierRfq(f, r, c)
      PROVE  rfq' \in [Rfqs -> T]
  <2>1. [s \in Suppliers |-> IF s \in c THEN "INVITED" ELSE "none"]
          \in [Suppliers -> {"none", "INVITED", "RESPONDED", "SELECTED", "NOT_SELECTED"}]
    OBVIOUS
  <2>2. rfq' = [rfq EXCEPT ![f] = [requisition |-> r, status |-> "OPEN",
                                   invite |-> [s \in Suppliers |-> IF s \in c THEN "INVITED" ELSE "none"]]]
    BY <1>2 DEF CreateSupplierRfq
  <2> QED BY <1>1, <2>1, <2>2
<1>3. ASSUME NEW f \in Rfqs, NEW s \in Suppliers, RecordSupplierResponse(f, s) PROVE rfq' \in [Rfqs -> T]
  BY <1>1, <1>3 DEF RecordSupplierResponse
<1>4. ASSUME NEW f \in Rfqs, NEW s \in Suppliers \cup {None}, CloseSupplierRfq(f, s) PROVE rfq' \in [Rfqs -> T]
  <2> DEFINE i == [x \in Suppliers |->
              IF s = None THEN rfq[f].invite[x] ELSE IF x = s THEN "SELECTED"
              ELSE IF rfq[f].invite[x] = "RESPONDED" THEN "NOT_SELECTED" ELSE rfq[f].invite[x]]
  <2>1. i \in [Suppliers -> {"none", "INVITED", "RESPONDED", "SELECTED", "NOT_SELECTED"}]
    BY <1>1
  <2>2. rfq' = [rfq EXCEPT ![f].status = IF s = None THEN "CLOSED" ELSE "AWARDED", ![f].invite = i]
    BY <1>1, <1>4 DEF CloseSupplierRfq
  <2> HIDE DEF i
  <2>3. PICK st \in {"CLOSED", "AWARDED"} : rfq' = [rfq EXCEPT ![f].status = st, ![f].invite = i]
    BY <2>2
  <2>4. [rfq[f] EXCEPT !.status = st, !.invite = i] \in T
    BY <1>1, <2>1
  <2>5. rfq' = [rfq EXCEPT ![f] = [rfq[f] EXCEPT !.status = st, !.invite = i]]
    BY <1>1, <2>3
  <2> HIDE DEF T
  <2> QED BY <1>1, <2>4, <2>5
<1> QED BY <1>1, <1>2, <1>3, <1>4, RfqFrame

\* A supplier once selected stays the one selected.
LEMMA AwardsStay ==
    ASSUME TypeOK, AwardsFit, Next
    PROVE  /\ AwardsFit'
           /\ \A f \in Rfqs : rfq[f].status = "AWARDED" => rfq'[f] = rfq[f]
<1> DEFINE Fits(f) == \A s \in Suppliers : rfq'[f].invite[s] = "SELECTED" =>
                        /\ rfq'[f].status = "AWARDED"
                        /\ \A t \in Suppliers : rfq'[f].invite[t] = "SELECTED" => t = s
           Stays(f) == rfq[f].status = "AWARDED" => rfq'[f] = rfq[f]
<1> SUFFICES ASSUME NEW f \in Rfqs PROVE Fits(f) /\ Stays(f)
  BY DEF AwardsFit
<1>1. /\ rfq \in [Rfqs -> [requisition : Requisitions \cup {None}, status : {"none", "OPEN", "CLOSED", "AWARDED"},
                 invite : [Suppliers -> {"none", "INVITED", "RESPONDED", "SELECTED", "NOT_SELECTED"}]]]
      /\ None \notin Suppliers
  BY IdsAssumption DEF TypeOK
<1>2. ASSUME rfq'[f] = rfq[f] PROVE Fits(f) /\ Stays(f)
  BY <1>2 DEF AwardsFit
<1>3. ASSUME NEW ff \in Rfqs, NEW r \in Requisitions, NEW c \in SUBSET Suppliers, CreateSupplierRfq(ff, r, c)
      PROVE  Fits(f) /\ Stays(f)
  <2>1. CASE f # ff
    BY <1>1, <1>2, <1>3, <2>1 DEF CreateSupplierRfq
  <2>2. CASE f = ff
    <3>1. rfq[f].status = "none"
      BY <1>3, <2>2 DEF CreateSupplierRfq, NextId
    <3>2. \A s \in Suppliers : rfq'[f].invite[s] # "SELECTED"
      BY <1>1, <1>3, <2>2 DEF CreateSupplierRfq
    <3> QED BY <3>1, <3>2
  <2> QED BY <2>1, <2>2
<1>4. ASSUME NEW ff \in Rfqs, NEW s \in Suppliers, RecordSupplierResponse(ff, s) PROVE Fits(f) /\ Stays(f)
  <2>1. CASE f # ff
    BY <1>1, <1>2, <1>4, <2>1 DEF RecordSupplierResponse
  <2>2. CASE f = ff
    <3>1. rfq[f].status = "OPEN" /\ \A t \in Suppliers : rfq[f].invite[t] # "SELECTED"
      BY <1>4, <2>2 DEF RecordSupplierResponse, AwardsFit
    <3>2. \A t \in Suppliers : rfq'[f].invite[t] # "SELECTED"
      BY <1>1, <1>4, <2>2, <3>1 DEF RecordSupplierResponse
    <3> QED BY <3>1, <3>2
  <2> QED BY <2>1, <2>2
<1>5. ASSUME NEW ff \in Rfqs, NEW s \in Suppliers \cup {None}, CloseSupplierRfq(ff, s) PROVE Fits(f) /\ Stays(f)
  <2>1. CASE f # ff
    BY <1>1, <1>2, <1>5, <2>1 DEF CloseSupplierRfq
  <2>2. CASE f = ff
    <3>1. rfq[f].status = "OPEN" /\ \A t \in Suppliers : rfq[f].invite[t] # "SELECTED"
      BY <1>5, <2>2 DEF CloseSupplierRfq, AwardsFit
    <3>2. /\ rfq'[f].status = IF s = None THEN "CLOSED" ELSE "AWARDED"
          /\ \A t \in Suppliers : rfq'[f].invite[t] = "SELECTED" => s # None /\ t = s
      BY <1>1, <1>5, <2>2, <3>1 DEF CloseSupplierRfq
    <3> QED BY <3>1, <3>2
  <2> QED BY <2>1, <2>2
<1> HIDE DEF Fits, Stays
<1> QED BY <1>2, <1>3, <1>4, <1>5, RfqFrame

-----------------------------------------------------------------------------
\* What an order was drawn on, once it is there.
LEMMA SourceType ==
    ASSUME TypeOK, Next
    PROVE  source' \in [Orders -> [requisition : Requisitions \cup {None}, supplier : Suppliers \cup {None},
                                   rfq : Rfqs \cup {None}]]
<1>1. source \in [Orders -> [requisition : Requisitions \cup {None}, supplier : Suppliers \cup {None},
                             rfq : Rfqs \cup {None}]]
  BY DEF TypeOK
<1>2. ASSUME NEW o \in Orders, NEW r \in Requisitions, NEW s \in Suppliers, NEW f \in Rfqs \cup {None},
             NEW q \in 1..MaxQuantity, CreatePurchaseOrder(o, r, s, f, q)
      PROVE  source' \in [Orders -> [requisition : Requisitions \cup {None}, supplier : Suppliers \cup {None},
                                     rfq : Rfqs \cup {None}]]
  BY <1>1, <1>2 DEF CreatePurchaseOrder
<1> QED BY <1>1, <1>2, SourceFrame

LEMMA SpendStaysApproved ==
    ASSUME TypeOK, DocsFit, AwardsFit, SpendIsApproved, Next
    PROVE  SpendIsApproved'
<1> DEFINE Selected(f) == {s \in Suppliers : rfq[f].invite[s] = "SELECTED"}
           Under(o) == source'[o].requisition # None => EverApproved(source[o].requisition)'
           Got(o) == line'[o].received > 0 => EverApproved(o)'
           Placed(o) == source'[o].rfq # None => Selected(source[o].rfq)' = {source'[o].supplier}
<1>0. /\ source \in [Orders -> [requisition : Requisitions \cup {None}, supplier : Suppliers \cup {None},
                                rfq : Rfqs \cup {None}]]
      /\ line \in [Docs -> [quantity : 0..MaxQuantity, received : 0..MaxQuantity, returned : 0..MaxQuantity]]
      /\ Orders \subseteq Docs /\ Requisitions \subseteq Docs
  BY DEF TypeOK, Docs
<1> SUFFICES ASSUME NEW o \in Orders PROVE Under(o) /\ Got(o) /\ Placed(o)
  BY DEF SpendIsApproved
\* The RFQ an order is placed on was awarded, and stays as it is
<1>1. ASSUME NEW f \in Rfqs, NEW s \in Suppliers \cup {None}, Selected(f) = {s}
      PROVE  rfq'[f] = rfq[f] /\ Selected(f)' = {s}
  <2>1. s \in Suppliers /\ rfq[f].invite[s] = "SELECTED"
    BY <1>1
  <2>2. rfq[f].status = "AWARDED"
    BY <2>1 DEF AwardsFit
  <2>3. rfq'[f] = rfq[f]
    BY <2>2, AwardsStay
  <2> QED BY <1>1, <2>3
<1>2. ASSUME source'[o] = source[o] PROVE Under(o) /\ Placed(o)
  <2>1. ASSUME source[o].requisition # None PROVE EverApproved(source[o].requisition)'
    <3>1. PICK r \in Docs : r = source[o].requisition /\ EverApproved(r)
      BY <1>0, <2>1 DEF SpendIsApproved
    <3>2. EverApproved(r)'
      BY <3>1, ApprovalStands
    <3> QED BY <1>2, <3>1, <3>2 DEF EverApproved
  <2>2. ASSUME source[o].rfq # None PROVE Selected(source[o].rfq)' = {source'[o].supplier}
    <3>1. PICK f \in Rfqs, s \in Suppliers \cup {None} :
            f = source[o].rfq /\ s = source[o].supplier /\ Selected(f) = {s}
      BY <1>0, <2>2 DEF SpendIsApproved
    <3>2. Selected(f)' = {s}
      BY <1>1, <3>1
    <3> QED BY <1>2, <3>1, <3>2
  <2> QED BY <1>2, <2>1, <2>2
<1>3. ASSUME NEW oo \in Orders, NEW r \in Requisitions, NEW s \in Suppliers, NEW f \in Rfqs \cup {None},
             NEW q \in 1..MaxQuantity, CreatePurchaseOrder(oo, r, s, f, q)
      PROVE  Under(o) /\ Placed(o)
  <2>1. CASE o # oo
    <3>1. source'[o] = source[o]
      BY <1>0, <1>3, <2>1, OrderDrawn
    <3> QED BY <1>2, <3>1
  <2>2. CASE o = oo
    <3>0. /\ source' = [source EXCEPT ![oo] = [requisition |-> r, supplier |-> s, rfq |-> f]]
          /\ EverApproved(r)
      BY <1>3, OrderDrawn
    <3>1. source'[o].requisition = r /\ source'[o].supplier = s /\ source'[o].rfq = f /\ EverApproved(r)
      BY <1>0, <2>2, <3>0
    <3>2. EverApproved(r)'
      BY <1>0, <3>1, ApprovalStands
    <3>3. ASSUME f # None PROVE \A x \in Suppliers : rfq'[f].invite[x] = "SELECTED" <=> x = s
      <4>1. f \in Rfqs /\ rfq[f].invite[s] = "SELECTED"
        BY <1>3, <3>3 DEF CreatePurchaseOrder
      <4>2. rfq' = rfq
        BY <1>3 DEF CreatePurchaseOrder, later
      <4> QED BY <4>1, <4>2 DEF AwardsFit
    <3>4. Placed(o)
      BY <3>1, <3>3
    <3>5. Under(o)
      BY <3>1, <3>2 DEF EverApproved
    <3> QED BY <3>4, <3>5
  <2> QED BY <2>1, <2>2
<1>4. Got(o)
  <2>1. ASSUME line'[o].received = line[o].received PROVE Got(o)
    BY <1>0, <2>1, ApprovalStands DEF SpendIsApproved
  <2>2. ASSUME NEW r \in Requisitions, NEW q \in 1..MaxQuantity, CreateRequisition(r, q)
        PROVE  line'[o].received = line[o].received
    BY <1>0, <2>2 DEF CreateRequisition
  <2>3. ASSUME NEW oo \in Orders, NEW r \in Requisitions, NEW s \in Suppliers, NEW f \in Rfqs \cup {None},
               NEW q \in 1..MaxQuantity, CreatePurchaseOrder(oo, r, s, f, q)
        PROVE  line'[o].received = line[o].received
    BY <1>0, <2>3 DEF CreatePurchaseOrder
  <2>4. ASSUME NEW g \in Receipts, NEW oo \in Orders, NEW q \in 1..MaxQuantity, ReceiveGoods(g, oo, q)
        PROVE  Got(o)
    <3>1. Approved(oo) /\ line' = [line EXCEPT ![oo].received = @ + q]
      BY <2>4 DEF ReceiveGoods
    <3>2. CASE o # oo
      BY <1>0, <2>1, <3>1, <3>2
    <3>3. CASE o = oo
      <4>1. EverApproved(o)
        BY <1>0, <3>1, <3>3, ApprovedHas
      <4> QED BY <1>0, <4>1, ApprovalStands
    <3> QED BY <3>2, <3>3
  <2>5. ASSUME NEW t \in Returns, NEW g \in Receipts, NEW q \in 1..MaxQuantity, CreatePurchaseReturn(t, g, q)
        PROVE  line'[o].received = line[o].received
    BY <1>0, <2>5 DEF CreatePurchaseReturn
  <2> HIDE DEF Got
  <2> QED BY <2>1, <2>2, <2>3, <2>4, <2>5, LineFrame
<1> HIDE DEF Under, Placed, Got
<1>5. Under(o) /\ Placed(o)
  BY <1>2, <1>3, SourceFrame
<1> QED BY <1>4, <1>5

-----------------------------------------------------------------------------
(* Receipts and returns.                                                     *)

GoodsRows == [order : Orders \cup {None}, quantity : 0..MaxQuantity, accepted : 0..MaxQuantity,
              status : {"none", "PENDING_INSPECTION", "ACCEPTED", "REJECTED", "PARTIALLY_ACCEPTED"}]
BackRows == [receipt : Receipts \cup {None}, quantity : 0..MaxQuantity, credit : 0..MaxQuantity,
             status : {"none", "CREDIT_PENDING", "CREDIT_RECEIVED"}]
LineRows == [quantity : 0..MaxQuantity, received : 0..MaxQuantity, returned : 0..MaxQuantity]

ReceiptsOf(o) == {g \in Receipts : goods[g].order = o}
ReturnsOf(o) == {t \in Returns : back[t].receipt \in ReceiptsOf(o)}
Received == [g \in Receipts |-> goods[g].quantity]
Returned == [t \in Returns |-> back[t].quantity]

Balanced(o) ==
    /\ line[o].received = SumFunctionOnSet(Received, ReceiptsOf(o))
    /\ line[o].returned = SumFunctionOnSet(Returned, ReturnsOf(o))
    /\ line[o].returned <= line[o].received /\ line[o].received <= line[o].quantity

Credited == \A t \in Returns : back[t].credit <= back[t].quantity

LEMMA BalanceParts ==
    GoodsBalance <=> TypeOK /\ OrderedWithinRequest /\ (\A o \in Orders : Balanced(o)) /\ Credited
BY DEF GoodsBalance, Balanced, Credited, Received, Returned, ReturnsOf, ReceiptsOf

LEMMA BooksType ==
    ASSUME TypeOK
    PROVE  /\ line \in [Docs -> LineRows] /\ goods \in [Receipts -> GoodsRows] /\ back \in [Returns -> BackRows]
           /\ MaxQuantity \in Nat /\ Orders \subseteq Docs /\ Requisitions \subseteq Docs
           /\ Requisitions \cap Orders = {} /\ IsFiniteSet(Receipts) /\ IsFiniteSet(Returns) /\ IsFiniteSet(Orders)
           /\ None \notin Receipts /\ None \notin Orders
BY IdsAssumption DEF TypeOK, LineRows, GoodsRows, BackRows, Docs

\* A receipt is booked under a free id, on an order that is there.
LEMMA ReceiptBooked ==
    ASSUME TypeOK, ReceiptsFit, NEW g \in Receipts, NEW o \in Orders, NEW q \in 1..MaxQuantity, ReceiveGoods(g, o, q)
    PROVE  /\ goods[g].order = None /\ goods[g].status = "none"
           /\ line[o].received + q <= line[o].quantity
           /\ goods'[g].order = o /\ goods'[g].quantity = q /\ goods'[g].status = "PENDING_INSPECTION"
           /\ goods'[g] \in GoodsRows
           /\ \A x \in Receipts \ {g} : goods'[x] = goods[x]
           /\ DOMAIN goods' = Receipts
           /\ line' = [line EXCEPT ![o].received = line[o].received + q]
           /\ UNCHANGED back
<1>1. /\ goods[g].status = "none" /\ line[o].received + q <= line[o].quantity
      /\ goods' = [goods EXCEPT ![g] = [order |-> o, quantity |-> q, status |-> "PENDING_INSPECTION", accepted |-> 0]]
      /\ line' = [line EXCEPT ![o].received = @ + q]
      /\ UNCHANGED back
  BY DEF ReceiveGoods, NextId
<1>2. goods[g].order = None
  BY <1>1 DEF ReceiptsFit
<1>3. goods \in [Receipts -> GoodsRows] /\ MaxQuantity \in Nat
  BY BooksType
<1>4. [order |-> o, quantity |-> q, status |-> "PENDING_INSPECTION", accepted |-> 0] \in GoodsRows
  BY <1>3 DEF GoodsRows
<1> QED BY <1>1, <1>2, <1>3, <1>4

\* What an inspection leaves.
LEMMA ReceiptInspected ==
    ASSUME TypeOK, NEW g \in Receipts, NEW a \in 0..MaxQuantity, InspectReceipt(g, a)
    PROVE  /\ goods' \in [Receipts -> GoodsRows]
           /\ \A x \in Receipts : /\ goods'[x].order = goods[x].order /\ goods'[x].quantity = goods[x].quantity
                                  /\ goods'[x].status = "none" <=> goods[x].status = "none"
           /\ UNCHANGED <<line, back>>
<1>1. goods \in [Receipts -> GoodsRows]
  BY BooksType
<1>2. PICK s \in {"ACCEPTED", "REJECTED", "PARTIALLY_ACCEPTED"} :
        goods' = [goods EXCEPT ![g].accepted = a, ![g].status = s]
  BY DEF InspectReceipt
<1>3. goods[g].status = "PENDING_INSPECTION" /\ UNCHANGED <<line, back>>
  BY DEF InspectReceipt, docs
<1>4. [goods[g] EXCEPT !.accepted = a, !.status = s] \in GoodsRows
  BY <1>1 DEF GoodsRows
<1>5. goods' = [goods EXCEPT ![g] = [goods[g] EXCEPT !.accepted = a, !.status = s]]
  BY <1>1, <1>2
<1>6. goods' \in [Receipts -> GoodsRows]
  BY <1>1, <1>4, <1>5
<1>7. /\ goods'[g].order = goods[g].order /\ goods'[g].quantity = goods[g].quantity
      /\ goods'[g].status = s
      /\ \A x \in Receipts \ {g} : goods'[x] = goods[x]
  BY <1>1, <1>5 DEF GoodsRows
<1> QED BY <1>3, <1>6, <1>7

\* A return is booked under a free id, of a receipt that is there.
LEMMA ReturnBooked ==
    ASSUME TypeOK, ReceiptsFit, NEW t \in Returns, NEW g \in Receipts, NEW q \in 1..MaxQuantity,
           CreatePurchaseReturn(t, g, q)
    PROVE  /\ back[t].receipt = None /\ goods[g].status # "none"
           /\ goods[g].order \in Orders
           /\ line[goods[g].order].returned + q <= goods[g].quantity
           /\ back'[t].receipt = g /\ back'[t].quantity = q /\ back'[t].status = "CREDIT_PENDING" /\ back'[t].credit = 0
           /\ back'[t] \in BackRows
           /\ \A x \in Returns \ {t} : back'[x] = back[x]
           /\ DOMAIN back' = Returns
           /\ line' = [line EXCEPT ![goods[g].order].returned = line[goods[g].order].returned + q]
           /\ UNCHANGED goods
<1>1. /\ back[t].status = "none" /\ goods[g].status # "none"
      /\ q <= Returnable(g)
      /\ back' = [back EXCEPT ![t] = [receipt |-> g, quantity |-> q, status |-> "CREDIT_PENDING", credit |-> 0]]
      /\ line' = [line EXCEPT ![goods[g].order].returned = @ + q]
      /\ UNCHANGED goods
  BY DEF CreatePurchaseReturn, NextId
<1>2. /\ goods \in [Receipts -> GoodsRows] /\ back \in [Returns -> BackRows] /\ line \in [Docs -> LineRows]
      /\ MaxQuantity \in Nat /\ Orders \subseteq Docs
  BY BooksType
<1>3. goods[g].order \in Orders
  BY <1>1, <1>2 DEF ReceiptsFit, GoodsRows
<1>4. line[goods[g].order].returned + q <= goods[g].quantity
  <2>1. goods[g].quantity \in Nat /\ line[goods[g].order].returned \in Nat /\ q \in Nat /\ q > 0
    BY <1>2, <1>3 DEF GoodsRows, LineRows
  <2> QED BY <1>1, <2>1 DEF Returnable
<1>5. [receipt |-> g, quantity |-> q, status |-> "CREDIT_PENDING", credit |-> 0] \in BackRows
  BY <1>2 DEF BackRows
<1>6. back[t].receipt = None
  BY <1>1 DEF ReceiptsFit
<1>7. back'[t] = [receipt |-> g, quantity |-> q, status |-> "CREDIT_PENDING", credit |-> 0]
  BY <1>1, <1>2
<1> QED BY <1>1, <1>2, <1>3, <1>4, <1>5, <1>6, <1>7

LEMMA CreditBooked ==
    ASSUME TypeOK, NEW t \in Returns, NEW a \in 1..MaxQuantity, RecordCreditNote(t, a)
    PROVE  /\ back' \in [Returns -> BackRows]
           /\ \A x \in Returns : /\ back'[x].receipt = back[x].receipt /\ back'[x].quantity = back[x].quantity
                                 /\ back'[x].status = "none" <=> back[x].status = "none"
           /\ back'[t].credit <= back'[t].quantity
           /\ \A x \in Returns \ {t} : back'[x] = back[x]
           /\ UNCHANGED <<line, goods>>
<1>1. back \in [Returns -> BackRows] /\ MaxQuantity \in Nat
  BY BooksType
<1>2. /\ back' = [back EXCEPT ![t].status = "CREDIT_RECEIVED", ![t].credit = a]
      /\ back[t].status = "CREDIT_PENDING" /\ a <= back[t].quantity
      /\ UNCHANGED <<line, goods>>
  BY DEF RecordCreditNote, docs
<1>3. [back[t] EXCEPT !.status = "CREDIT_RECEIVED", !.credit = a] \in BackRows
  <2>1. a \in 0..MaxQuantity /\ back[t] \in BackRows
    BY <1>1
  <2> QED BY <2>1 DEF BackRows
<1>4. back' = [back EXCEPT ![t] = [back[t] EXCEPT !.status = "CREDIT_RECEIVED", !.credit = a]]
  BY <1>1, <1>2
<1>5. back' \in [Returns -> BackRows]
  BY <1>1, <1>3, <1>4
<1>6. /\ back'[t].receipt = back[t].receipt /\ back'[t].quantity = back[t].quantity
      /\ back'[t].status = "CREDIT_RECEIVED" /\ back'[t].credit = a
      /\ \A x \in Returns \ {t} : back'[x] = back[x]
  BY <1>1, <1>4 DEF BackRows
<1> QED BY <1>2, <1>5, <1>6

LEMMA GoodsType ==
    ASSUME TypeOK, ReceiptsFit, Next
    PROVE  goods' \in [Receipts -> GoodsRows] /\ back' \in [Returns -> BackRows]
<1>1. goods \in [Receipts -> GoodsRows] /\ back \in [Returns -> BackRows]
  BY BooksType
<1>2. ASSUME NEW g \in Receipts, NEW o \in Orders, NEW q \in 1..MaxQuantity, ReceiveGoods(g, o, q)
      PROVE  goods' \in [Receipts -> GoodsRows]
  <2>1. /\ DOMAIN goods' = Receipts /\ goods'[g] \in GoodsRows /\ \A x \in Receipts \ {g} : goods'[x] = goods[x]
        /\ goods' = [goods EXCEPT ![g] = [order |-> o, quantity |-> q, status |-> "PENDING_INSPECTION", accepted |-> 0]]
    BY <1>2, ReceiptBooked DEF ReceiveGoods
  <2> HIDE DEF GoodsRows
  <2> QED BY <1>1, <2>1
<1>3. ASSUME NEW t \in Returns, NEW g \in Receipts, NEW q \in 1..MaxQuantity, CreatePurchaseReturn(t, g, q)
      PROVE  back' \in [Returns -> BackRows]
  <2>1. /\ DOMAIN back' = Returns /\ back'[t] \in BackRows /\ \A x \in Returns \ {t} : back'[x] = back[x]
        /\ back' = [back EXCEPT ![t] = [receipt |-> g, quantity |-> q, status |-> "CREDIT_PENDING", credit |-> 0]]
    BY <1>3, ReturnBooked DEF CreatePurchaseReturn
  <2> QED BY <1>1, <2>1
<1>4. goods' \in [Receipts -> GoodsRows]
  BY <1>1, <1>2, ReceiptInspected, GoodsFrame
<1>5. back' \in [Returns -> BackRows]
  BY <1>1, <1>3, CreditBooked, BackFrame
<1> QED BY <1>4, <1>5

LEMMA ReceiptsStayFit ==
    ASSUME TypeOK, ReceiptsFit, Next
    PROVE  ReceiptsFit'
<1>1. None \notin Orders /\ None \notin Receipts
  BY BooksType
<1>2. ASSUME NEW x \in Receipts
      PROVE  /\ goods'[x].status = "none" <=> goods'[x].order = None
             /\ goods[x].status # "none" => goods'[x].status # "none"
  <2>0. goods[x].status = "none" <=> goods[x].order = None
    BY DEF ReceiptsFit
  <2>1. ASSUME NEW g \in Receipts, NEW o \in Orders, NEW q \in 1..MaxQuantity, ReceiveGoods(g, o, q)
        PROVE  /\ goods'[x].status = "none" <=> goods'[x].order = None
               /\ goods[x].status # "none" => goods'[x].status # "none"
    <3>1. /\ goods'[g].order = o /\ goods'[g].status = "PENDING_INSPECTION"
          /\ x # g => goods'[x] = goods[x]
      BY <2>1, ReceiptBooked
    <3> QED BY <1>1, <2>0, <3>1
  <2>2. ASSUME NEW g \in Receipts, NEW a \in 0..MaxQuantity, InspectReceipt(g, a)
        PROVE  /\ goods'[x].status = "none" <=> goods'[x].order = None
               /\ goods[x].status # "none" => goods'[x].status # "none"
    BY <2>0, <2>2, ReceiptInspected
  <2> QED BY <2>0, <2>1, <2>2, GoodsFrame
<1>3. ASSUME NEW x \in Returns
      PROVE  /\ back'[x].status = "none" => back'[x].receipt = None
             /\ back'[x].receipt # None => goods'[back'[x].receipt].status # "none"
  <2>0. /\ back[x].status = "none" => back[x].receipt = None
        /\ back[x].receipt # None => back[x].receipt \in Receipts /\ goods[back[x].receipt].status # "none"
    BY BooksType DEF ReceiptsFit, BackRows
  <2>1. ASSUME back'[x].receipt = back[x].receipt, back'[x].status = "none" <=> back[x].status = "none"
        PROVE  /\ back'[x].status = "none" => back'[x].receipt = None
               /\ back'[x].receipt # None => goods'[back'[x].receipt].status # "none"
    BY <1>2, <2>0, <2>1
  <2>2. ASSUME NEW t \in Returns, NEW g \in Receipts, NEW q \in 1..MaxQuantity, CreatePurchaseReturn(t, g, q)
        PROVE  /\ back'[x].status = "none" => back'[x].receipt = None
               /\ back'[x].receipt # None => goods'[back'[x].receipt].status # "none"
    <3>1. /\ back'[t].receipt = g /\ back'[t].status = "CREDIT_PENDING" /\ goods[g].status # "none"
          /\ x # t => back'[x] = back[x]
      BY <2>2, ReturnBooked
    <3> QED BY <1>2, <2>1, <3>1
  <2>3. ASSUME NEW t \in Returns, NEW a \in 1..MaxQuantity, RecordCreditNote(t, a)
        PROVE  back'[x].receipt = back[x].receipt /\ (back'[x].status = "none" <=> back[x].status = "none")
    BY <2>3, CreditBooked
  <2> QED BY <2>1, <2>2, <2>3, BackFrame
<1> QED BY <1>2, <1>3 DEF ReceiptsFit

-----------------------------------------------------------------------------
(* The line of an order against its receipts and returns.                    *)

\* Sums are sums of natural numbers, over sets that are finite.
LEMMA SumsFit ==
    ASSUME TypeOK, NEW o
    PROVE  /\ ReceiptsOf(o) \in SUBSET Receipts /\ IsFiniteSet(ReceiptsOf(o))
           /\ ReturnsOf(o) \in SUBSET Returns /\ IsFiniteSet(ReturnsOf(o))
           /\ \A g \in Receipts : Received[g] \in Nat
           /\ \A t \in Returns : Returned[t] \in Nat
           /\ SumFunctionOnSet(Received, ReceiptsOf(o)) \in Nat
           /\ SumFunctionOnSet(Returned, ReturnsOf(o)) \in Nat
<1>1. /\ ReceiptsOf(o) \in SUBSET Receipts /\ IsFiniteSet(ReceiptsOf(o))
      /\ ReturnsOf(o) \in SUBSET Returns /\ IsFiniteSet(ReturnsOf(o))
  BY BooksType, FS_Subset DEF ReceiptsOf, ReturnsOf
<1>2. (\A g \in Receipts : Received[g] \in Nat) /\ (\A t \in Returns : Returned[t] \in Nat)
  BY BooksType DEF Received, Returned, GoodsRows, BackRows
<1>3. SumFunctionOnSet(Received, ReceiptsOf(o)) \in Nat
  BY <1>1, <1>2, SumType
<1>4. SumFunctionOnSet(Returned, ReturnsOf(o)) \in Nat
  BY <1>1, <1>2, SumType
<1> QED BY <1>1, <1>2, <1>3, <1>4

\* While no quantity and no assignment changes, neither does a sum.
LEMMA SumsKept ==
    ASSUME TypeOK, NEW o,
           \A g \in Receipts : goods'[g].order = goods[g].order /\ goods'[g].quantity = goods[g].quantity,
           \A t \in Returns : back'[t].receipt = back[t].receipt /\ back'[t].quantity = back[t].quantity
    PROVE  /\ SumFunctionOnSet(Received', ReceiptsOf(o)') = SumFunctionOnSet(Received, ReceiptsOf(o))
           /\ SumFunctionOnSet(Returned', ReturnsOf(o)') = SumFunctionOnSet(Returned, ReturnsOf(o))
<1>1. ReceiptsOf(o)' = ReceiptsOf(o) /\ ReturnsOf(o)' = ReturnsOf(o)
  BY DEF ReceiptsOf, ReturnsOf
<1>2. Received' = Received /\ Returned' = Returned
  BY DEF Received, Returned
<1> QED BY <1>1, <1>2

\* A receipt of the order adds to what was received, and to nothing else.
LEMMA SumOfReceipts ==
    ASSUME TypeOK, ReceiptsFit, NEW o \in Orders, NEW g \in Receipts, NEW oo \in Orders, NEW q \in 1..MaxQuantity,
           ReceiveGoods(g, oo, q)
    PROVE  /\ SumFunctionOnSet(Received', ReceiptsOf(o)') =
                SumFunctionOnSet(Received, ReceiptsOf(o)) + (IF o = oo THEN q ELSE 0)
           /\ SumFunctionOnSet(Returned', ReturnsOf(o)') = SumFunctionOnSet(Returned, ReturnsOf(o))
<1>1. /\ goods[g].order = None /\ goods[g].status = "none" /\ goods'[g].order = oo /\ goods'[g].quantity = q
      /\ \A x \in Receipts \ {g} : goods'[x] = goods[x]
      /\ UNCHANGED back
  BY ReceiptBooked
<1>2. None \notin Orders /\ IsFiniteSet(Receipts) /\ q \in Nat /\ MaxQuantity \in Nat /\ None \notin Receipts
  BY BooksType
<1>3. g \notin ReceiptsOf(o) /\ ReceiptsOf(o) \in SUBSET Receipts
  BY <1>1, <1>2 DEF ReceiptsOf
<1>4. ReceiptsOf(o)' = IF o = oo THEN ReceiptsOf(o) \cup {g} ELSE ReceiptsOf(o)
  BY <1>1, <1>2 DEF ReceiptsOf
<1>5. \A t \in Returns : back[t].receipt # g
  BY <1>1, <1>2 DEF ReceiptsFit
<1>6. ReturnsOf(o)' = ReturnsOf(o) /\ Returned' = Returned
  BY <1>1, <1>4, <1>5 DEF ReturnsOf, Returned
<1> DEFINE f == Received
           h == Received'
           S == ReceiptsOf(o)
           T == ReceiptsOf(o)'
<1>7. \A x \in Receipts : f[x] \in Nat
  BY SumsFit
<1>8. h[g] = q /\ \A x \in Receipts \ {g} : h[x] = f[x]
  BY <1>1 DEF Received
<1>9. S \in SUBSET Receipts /\ T \in SUBSET Receipts /\ g \notin S /\ (g \in T <=> o = oo)
      /\ \A x \in Receipts \ {g} : x \in S <=> x \in T
  BY <1>3, <1>4
<1> HIDE DEF f, h, S, T
<1>10. \E rest \in Nat :
          /\ SumFunctionOnSet(f, S) = (IF g \in S THEN f[g] ELSE 0) + rest
          /\ SumFunctionOnSet(h, T) = (IF g \in T THEN h[g] ELSE 0) + rest
  BY <1>2, <1>7, <1>8, <1>9, SumChange
<1>11. SumFunctionOnSet(h, T) = SumFunctionOnSet(f, S) + (IF o = oo THEN q ELSE 0)
  BY <1>2, <1>8, <1>9, <1>10
<1> QED BY <1>6, <1>11 DEF f, h, S, T

\* A return of a receipt of the order adds to what was returned.
LEMMA SumOfReturns ==
    ASSUME TypeOK, ReceiptsFit, NEW o \in Orders, NEW t \in Returns, NEW g \in Receipts, NEW q \in 1..MaxQuantity,
           CreatePurchaseReturn(t, g, q)
    PROVE  /\ SumFunctionOnSet(Received', ReceiptsOf(o)') = SumFunctionOnSet(Received, ReceiptsOf(o))
           /\ SumFunctionOnSet(Returned', ReturnsOf(o)') =
                SumFunctionOnSet(Returned, ReturnsOf(o)) + (IF o = goods[g].order THEN q ELSE 0)
<1>1. /\ back[t].receipt = None /\ back'[t].receipt = g /\ back'[t].quantity = q
      /\ \A x \in Returns \ {t} : back'[x] = back[x]
      /\ UNCHANGED goods
  BY ReturnBooked
<1>2. None \notin Receipts /\ IsFiniteSet(Returns) /\ q \in Nat /\ MaxQuantity \in Nat
  BY BooksType
<1>3. ReceiptsOf(o)' = ReceiptsOf(o) /\ Received' = Received /\ (g \in ReceiptsOf(o) <=> o = goods[g].order)
      /\ None \notin ReceiptsOf(o)
  BY <1>1, <1>2 DEF ReceiptsOf, Received
<1> DEFINE f == Returned
           h == Returned'
           S == ReturnsOf(o)
           T == ReturnsOf(o)'
<1>7. \A x \in Returns : f[x] \in Nat
  BY SumsFit
<1>8. h[t] = q /\ \A x \in Returns \ {t} : h[x] = f[x]
  BY <1>1 DEF Returned
<1>9. S \in SUBSET Returns /\ T \in SUBSET Returns /\ t \notin S /\ (t \in T <=> o = goods[g].order)
      /\ \A x \in Returns \ {t} : x \in S <=> x \in T
  BY <1>1, <1>3 DEF ReturnsOf
<1> HIDE DEF f, h, S, T
<1>10. \E rest \in Nat :
          /\ SumFunctionOnSet(f, S) = (IF t \in S THEN f[t] ELSE 0) + rest
          /\ SumFunctionOnSet(h, T) = (IF t \in T THEN h[t] ELSE 0) + rest
  BY <1>2, <1>7, <1>8, <1>9, SumChange
<1>11. SumFunctionOnSet(h, T) = SumFunctionOnSet(f, S) + (IF o = goods[g].order THEN q ELSE 0)
  BY <1>2, <1>8, <1>9, <1>10
<1> QED BY <1>3, <1>11 DEF f, h, S, T

\* No more comes in one receipt than the order received.
LEMMA ReceiptIsPart ==
    ASSUME TypeOK, NEW g \in Receipts, goods[g].order \in Orders, Balanced(goods[g].order)
    PROVE  goods[g].quantity <= line[goods[g].order].received
<1> DEFINE o == goods[g].order
           f == Received
           S == ReceiptsOf(o)
<1>1. g \in S /\ f[g] = goods[g].quantity
  BY DEF ReceiptsOf, Received
<1>2. S \in SUBSET Receipts /\ IsFiniteSet(S) /\ \A x \in Receipts : f[x] \in Nat
  BY SumsFit
<1>3. line[o].received = SumFunctionOnSet(f, S)
  BY DEF Balanced
<1> HIDE DEF f, S, o
<1>4. SumFunctionOnSet(f, S) = f[g] + SumFunctionOnSet(f, S \ {g})
  BY <1>1, <1>2, SumRemove
<1>5. SumFunctionOnSet(f, S \ {g}) \in Nat
  <2>1. IsFiniteSet(S \ {g}) /\ \A x \in S \ {g} : f[x] \in Nat
    BY <1>2, FS_Subset
  <2> QED BY <2>1, SumType
<1>6. f[g] \in Nat
  BY <1>2
<1>7. f[g] <= line[o].received
  BY <1>3, <1>4, <1>5, <1>6
<1> QED BY <1>1, <1>7 DEF o

LEMMA LinesStayBalanced ==
    ASSUME TypeOK, DocsFit, ReceiptsFit, \A o \in Orders : Balanced(o), Next
    PROVE  /\ line' \in [Docs -> LineRows]
           /\ \A o \in Orders : Balanced(o)'
<1>1. /\ line \in [Docs -> LineRows] /\ Orders \subseteq Docs /\ Requisitions \subseteq Docs
      /\ Requisitions \cap Orders = {} /\ MaxQuantity \in Nat
  BY BooksType
<1> DEFINE Goal == /\ line' \in [Docs -> LineRows]
                   /\ \A o \in Orders : Balanced(o)'
\* Where the sums and what the line says of them stay
<1>2. ASSUME line' \in [Docs -> LineRows],
             \A o \in Orders : /\ line'[o].received = line[o].received /\ line'[o].returned = line[o].returned
                               /\ line'[o].received <= line'[o].quantity,
             \A g \in Receipts : goods'[g].order = goods[g].order /\ goods'[g].quantity = goods[g].quantity,
             \A t \in Returns : back'[t].receipt = back[t].receipt /\ back'[t].quantity = back[t].quantity
      PROVE  Goal
  BY <1>2, SumsKept DEF Balanced
<1>3. ASSUME UNCHANGED <<line, goods, back>> PROVE Goal
  <2>1. \A o \in Orders : line[o].received <= line[o].quantity
    BY DEF Balanced
  <2> HIDE DEF Goal
  <2> QED BY <1>1, <1>2, <1>3, <2>1
<1>4. ASSUME NEW r \in Requisitions, NEW q \in 1..MaxQuantity, CreateRequisition(r, q) PROVE Goal
  <2>1. line' = [line EXCEPT ![r].quantity = q] /\ UNCHANGED <<goods, back>>
    BY <1>4 DEF CreateRequisition, later
  <2>2. q \in 0..MaxQuantity /\ r \in Docs /\ r \notin Orders
    BY <1>1
  <2>3. line' \in [Docs -> LineRows]
    BY <1>1, <2>1, <2>2 DEF LineRows
  <2>4. \A o \in Orders : line'[o] = line[o] /\ line[o].received <= line[o].quantity
    BY <1>1, <2>1, <2>2 DEF Balanced
  <2> HIDE DEF Goal
  <2> QED BY <1>2, <2>1, <2>3, <2>4
<1>5. ASSUME NEW o \in Orders, NEW r \in Requisitions, NEW s \in Suppliers, NEW f \in Rfqs \cup {None},
             NEW q \in 1..MaxQuantity, CreatePurchaseOrder(o, r, s, f, q)
      PROVE  Goal
  <2>1. line' = [line EXCEPT ![o].quantity = q] /\ UNCHANGED <<goods, back>> /\ doc[o].status = "none"
    BY <1>5 DEF CreatePurchaseOrder, later, NextId
  <2>2. q \in 0..MaxQuantity /\ o \in Docs /\ line[o].received = 0 /\ q \in Nat
    BY <1>1, <2>1 DEF DocsFit
  <2>3. line' \in [Docs -> LineRows]
    BY <1>1, <2>1, <2>2 DEF LineRows
  <2>4. line'[o].received = line[o].received /\ line'[o].returned = line[o].returned /\ line'[o].quantity = q
    BY <1>1, <2>1, <2>2 DEF LineRows
  <2>5. \A x \in Orders \ {o} : line'[x] = line[x] /\ line[x].received <= line[x].quantity
    BY <1>1, <2>1 DEF Balanced
  <2>6. \A x \in Orders : /\ line'[x].received = line[x].received /\ line'[x].returned = line[x].returned
                          /\ line'[x].received <= line'[x].quantity
    BY <2>2, <2>4, <2>5
  <2> HIDE DEF Goal
  <2> QED BY <1>2, <2>1, <2>3, <2>6
<1>6. ASSUME NEW g \in Receipts, NEW oo \in Orders, NEW q \in 1..MaxQuantity, ReceiveGoods(g, oo, q) PROVE Goal
  <2>1. line' = [line EXCEPT ![oo].received = line[oo].received + q] /\ line[oo].received + q <= line[oo].quantity
    BY <1>6, ReceiptBooked
  <2>2. /\ line[oo].received \in Nat /\ line[oo].quantity \in 0..MaxQuantity /\ q \in Nat
        /\ line[oo].received + q \in 0..MaxQuantity /\ oo \in Docs
    BY <1>1, <2>1 DEF LineRows
  <2>3. line' \in [Docs -> LineRows]
    BY <1>1, <2>1, <2>2 DEF LineRows
  <2>4. /\ line'[oo].received = line[oo].received + q /\ line'[oo].returned = line[oo].returned
        /\ line'[oo].quantity = line[oo].quantity
        /\ \A x \in Orders \ {oo} : line'[x] = line[x]
    BY <1>1, <2>1, <2>2 DEF LineRows
  <2>5. ASSUME NEW o \in Orders PROVE Balanced(o)'
    <3>1. /\ SumFunctionOnSet(Received', ReceiptsOf(o)') =
                SumFunctionOnSet(Received, ReceiptsOf(o)) + (IF o = oo THEN q ELSE 0)
          /\ SumFunctionOnSet(Returned', ReturnsOf(o)') = SumFunctionOnSet(Returned, ReturnsOf(o))
      BY <1>6, SumOfReceipts
    <3>2. /\ line[o].received = SumFunctionOnSet(Received, ReceiptsOf(o))
          /\ line[o].returned = SumFunctionOnSet(Returned, ReturnsOf(o))
          /\ line[o].returned <= line[o].received /\ line[o].received <= line[o].quantity
      BY DEF Balanced
    <3>3. line[o].received \in Nat /\ line[o].returned \in Nat /\ line[o].quantity \in Nat
      BY <1>1 DEF LineRows
    <3>4. /\ line'[o].received = line[o].received + (IF o = oo THEN q ELSE 0)
          /\ line'[o].returned = line[o].returned /\ line'[o].quantity = line[o].quantity
      BY <2>4, <3>3
    <3>5. line'[o].received = SumFunctionOnSet(Received', ReceiptsOf(o)')
      BY <3>1, <3>2, <3>4
    <3>6. line'[o].returned = SumFunctionOnSet(Returned', ReturnsOf(o)')
      BY <3>1, <3>2, <3>4
    <3>7. line'[o].returned <= line'[o].received /\ line'[o].received <= line'[o].quantity
      BY <2>1, <2>2, <3>2, <3>3, <3>4
    <3> QED BY <3>5, <3>6, <3>7 DEF Balanced
  <2> QED BY <2>3, <2>5
<1>7. ASSUME NEW g \in Receipts, NEW a \in 0..MaxQuantity, InspectReceipt(g, a) PROVE Goal
  <2>1. /\ \A x \in Receipts : goods'[x].order = goods[x].order /\ goods'[x].quantity = goods[x].quantity
        /\ UNCHANGED <<line, back>>
    BY <1>7, ReceiptInspected
  <2>2. \A o \in Orders : line[o].received <= line[o].quantity
    BY DEF Balanced
  <2> HIDE DEF Goal
  <2> QED BY <1>1, <1>2, <2>1, <2>2
<1>8. ASSUME NEW t \in Returns, NEW g \in Receipts, NEW q \in 1..MaxQuantity, CreatePurchaseReturn(t, g, q)
      PROVE  Goal
  <2> DEFINE oo == goods[g].order
  <2>1. /\ oo \in Orders /\ line[oo].returned + q <= goods[g].quantity
        /\ line' = [line EXCEPT ![oo].returned = line[oo].returned + q]
    BY <1>8, ReturnBooked
  <2>2. goods[g].quantity <= line[oo].received
    BY <2>1, ReceiptIsPart
  <2>3. goods[g].quantity \in 0..MaxQuantity
    BY BooksType DEF GoodsRows
  <2> HIDE DEF oo
  <2>4. /\ line[oo].returned \in Nat /\ line[oo].received \in 0..MaxQuantity /\ q \in Nat
        /\ line[oo].returned + q \in 0..MaxQuantity /\ oo \in Docs
    BY <1>1, <2>1, <2>3 DEF LineRows
  <2>5. line' \in [Docs -> LineRows]
    BY <1>1, <2>1, <2>4 DEF LineRows
  <2>6. /\ line'[oo].returned = line[oo].returned + q /\ line'[oo].received = line[oo].received
        /\ line'[oo].quantity = line[oo].quantity
        /\ \A x \in Orders \ {oo} : line'[x] = line[x]
    BY <1>1, <2>1, <2>4 DEF LineRows
  <2>7. ASSUME NEW o \in Orders PROVE Balanced(o)'
    <3>1. /\ SumFunctionOnSet(Received', ReceiptsOf(o)') = SumFunctionOnSet(Received, ReceiptsOf(o))
          /\ SumFunctionOnSet(Returned', ReturnsOf(o)') =
                SumFunctionOnSet(Returned, ReturnsOf(o)) + (IF o = oo THEN q ELSE 0)
      BY <1>8, SumOfReturns DEF oo
    <3>2. /\ line[o].received = SumFunctionOnSet(Received, ReceiptsOf(o))
          /\ line[o].returned = SumFunctionOnSet(Returned, ReturnsOf(o))
          /\ line[o].returned <= line[o].received /\ line[o].received <= line[o].quantity
      BY DEF Balanced
    <3>3. line[o].received \in Nat /\ line[o].returned \in Nat /\ line[o].quantity \in Nat
      BY <1>1 DEF LineRows
    <3>4. /\ line'[o].returned = line[o].returned + (IF o = oo THEN q ELSE 0)
          /\ line'[o].received = line[o].received /\ line'[o].quantity = line[o].quantity
      BY <2>6, <3>3
    <3>5. line'[o].received = SumFunctionOnSet(Received', ReceiptsOf(o)')
      BY <3>1, <3>2, <3>4
    <3>6. line'[o].returned = SumFunctionOnSet(Returned', ReturnsOf(o)')
      BY <3>1, <3>2, <3>4
    <3>7. line'[o].returned <= line'[o].received /\ line'[o].received <= line'[o].quantity
      BY <2>1, <2>2, <2>3, <2>4, <3>2, <3>3, <3>4
    <3> QED BY <3>5, <3>6, <3>7 DEF Balanced
  <2> QED BY <2>5, <2>7
<1>9. ASSUME NEW t \in Returns, NEW a \in 1..MaxQuantity, RecordCreditNote(t, a) PROVE Goal
  <2>1. /\ \A x \in Returns : back'[x].receipt = back[x].receipt /\ back'[x].quantity = back[x].quantity
        /\ UNCHANGED <<line, goods>>
    BY <1>9, CreditBooked
  <2>2. \A o \in Orders : line[o].received <= line[o].quantity
    BY DEF Balanced
  <2> HIDE DEF Goal
  <2> QED BY <1>1, <1>2, <2>1, <2>2
<1> HIDE DEF Goal
<1>10. Goal
  BY <1>3, <1>4, <1>5, <1>6, <1>7, <1>8, <1>9, BooksFrame
<1> QED BY <1>10 DEF Goal

LEMMA CreditsStay ==
    ASSUME TypeOK, ReceiptsFit, Credited, Next
    PROVE  Credited'
<1> SUFFICES ASSUME NEW x \in Returns PROVE back'[x].credit <= back'[x].quantity
  BY DEF Credited
<1>1. ASSUME back'[x] = back[x] PROVE back'[x].credit <= back'[x].quantity
  BY <1>1 DEF Credited
<1>2. ASSUME NEW t \in Returns, NEW g \in Receipts, NEW q \in 1..MaxQuantity, CreatePurchaseReturn(t, g, q)
      PROVE  back'[x].credit <= back'[x].quantity
  <2>1. /\ back'[t].quantity = q /\ back'[t].credit = 0
        /\ x # t => back'[x] = back[x]
    BY <1>2, ReturnBooked
  <2>2. q >= 0
    BY BooksType
  <2> QED BY <1>1, <2>1, <2>2
<1>3. ASSUME NEW t \in Returns, NEW a \in 1..MaxQuantity, RecordCreditNote(t, a)
      PROVE  back'[x].credit <= back'[x].quantity
  BY <1>1, <1>3, CreditBooked
<1> QED BY <1>1, <1>2, <1>3, BackFrame
-----------------------------------------------------------------------------
(* The orders of a requisition against the requisition.                      *)

Quantities == [o \in Orders |-> line[o].quantity]
Counted(r) == LiveOrders(r) \ revived

\* An order that counts counted before, but for the one just drawn up.
LEMMA CountedBefore ==
    ASSUME TypeOK, DocsFit, RequestsFit, Next, NEW o \in Orders,
           doc'[o].status # "CANCELLED", o \notin revived'
    PROVE  doc[o].status # "CANCELLED" /\ o \notin revived
<1>1. ASSUME NEW p \in Requests, Claims(p) \/ Undoes(p) \/ LinksIt(p) \/ Cancels(p)
      PROVE  doc[o].status # "CANCELLED" /\ o \notin revived
  BY <1>1 DEF Claims, Undoes, LinksIt, Cancels, Wrote, Docs
<1>2. ASSUME NEW r \in Requisitions, Creates(r) \/ Sources(r)
      PROVE  doc[o].status # "CANCELLED" /\ o \notin revived
  BY <1>2 DEF Creates, Sources, Wrote, Docs
<1>3. ASSUME NEW oo \in Orders, NEW r \in Requisitions, DrawsUp(oo, r)
      PROVE  doc[o].status # "CANCELLED" /\ o \notin revived
  <2>1. o # r
    BY IdsAssumption
  <2> QED BY <1>3, <2>1 DEF DrawsUp, Docs
<1>4. ASSUME NEW oo \in Orders, Receives(oo)
      PROVE  doc[o].status # "CANCELLED" /\ o \notin revived
  BY <1>4 DEF Receives, Wrote, Docs
<1> QED BY <1>1, <1>2, <1>3, <1>4, DocStep

\* What was counted and still is adds up to no more than before.
LEMMA CountedLess ==
    ASSUME TypeOK, OrderedWithinRequest, NEW r \in Requisitions,
           Counted(r)' \subseteq Counted(r),
           \A o \in Counted(r) : line'[o].quantity = line[o].quantity,
           line'[r].quantity = line[r].quantity
    PROVE  SumFunctionOnSet(Quantities', Counted(r)') <= line'[r].quantity
<1> DEFINE f == Quantities
           h == Quantities'
           S == Counted(r)
           T == Counted(r)'
<1>1. /\ IsFiniteSet(S) /\ S \subseteq Orders /\ T \in SUBSET S
      /\ \A o \in S : f[o] \in Nat /\ h[o] = f[o]
  <2>1. S \subseteq Orders /\ T \in SUBSET S
    BY DEF Counted, LiveOrders
  <2>2. IsFiniteSet(S)
    BY <2>1, BooksType, FS_Subset
  <2>3. \A o \in S : f[o] = line[o].quantity /\ h[o] = line'[o].quantity
    BY <2>1 DEF Quantities
  <2>4. \A o \in S : line[o].quantity \in Nat
    BY <2>1, BooksType DEF LineRows
  <2> QED BY <2>1, <2>2, <2>3, <2>4
<1>2. SumFunctionOnSet(f, S) <= line[r].quantity
  BY DEF OrderedWithinRequest, OrderedQuantity, Quantities, Counted
<1>3. line[r].quantity \in Nat
  BY BooksType DEF LineRows
<1> HIDE DEF f, h, S, T
<1>4. IsFiniteSet(T) /\ \A o \in T : h[o] = f[o] /\ f[o] \in Nat
  BY <1>1, FS_Subset
<1>5. SumFunctionOnSet(h, T) = SumFunctionOnSet(f, T)
  BY <1>4, SumSame
<1>6. SumFunctionOnSet(f, T) <= SumFunctionOnSet(f, S)
  BY <1>1, SumSubset
<1>7. SumFunctionOnSet(f, T) \in Nat /\ SumFunctionOnSet(f, S) \in Nat
  BY <1>1, <1>4, SumType
<1>8. SumFunctionOnSet(h, T) <= line[r].quantity
  BY <1>2, <1>3, <1>5, <1>6, <1>7
<1> QED BY <1>8 DEF h, T

LEMMA OrderedStaysWithin ==
    ASSUME TypeOK, DocsFit, RequestsFit, OrderedWithinRequest, Next
    PROVE  OrderedWithinRequest'
<1>0. /\ line \in [Docs -> LineRows] /\ Orders \subseteq Docs /\ Requisitions \subseteq Docs
      /\ Requisitions \cap Orders = {} /\ MaxQuantity \in Nat /\ IsFiniteSet(Orders)
      /\ source \in [Orders -> [requisition : Requisitions \cup {None}, supplier : Suppliers \cup {None},
                                rfq : Rfqs \cup {None}]]
  BY BooksType DEF TypeOK
<1> DEFINE Within(r) == SumFunctionOnSet(Quantities', Counted(r)') <= line'[r].quantity
<1> SUFFICES ASSUME NEW r \in Requisitions PROVE Within(r)
  BY DEF OrderedWithinRequest, OrderedQuantity, Quantities, Counted
<1>1. ASSUME source' = source PROVE Counted(r)' \subseteq Counted(r)
  BY <1>1, CountedBefore DEF Counted, LiveOrders
<1>2. ASSUME source' = source, \A d \in Docs : line'[d].quantity = line[d].quantity PROVE Within(r)
  <2>1. Counted(r) \subseteq Docs /\ r \in Docs
    BY <1>0 DEF Counted, LiveOrders
  <2> QED BY <1>1, <1>2, <2>1, CountedLess
<1>3. ASSUME NEW rr \in Requisitions, NEW q \in 1..MaxQuantity, CreateRequisition(rr, q) PROVE Within(r)
  <2>1. /\ line' = [line EXCEPT ![rr].quantity = q] /\ source' = source /\ doc[rr].status = "none"
    BY <1>3 DEF CreateRequisition, NextId
  <2>2. CASE r = rr
    <3>1. \A o \in Orders : source[o].requisition # r
      <4>1. r # None
        BY IdsAssumption
      <4> QED BY <2>1, <2>2, <4>1 DEF DocsFit
    <3>2. Counted(r)' = {}
      BY <2>1, <3>1 DEF Counted, LiveOrders
    <3>3. line'[r].quantity = q
      BY <1>0, <2>1, <2>2
    <3>4. SumFunctionOnSet(Quantities', {}) = 0
      BY SumEmpty
    <3>5. q >= 0
      BY <1>0
    <3> QED BY <3>2, <3>3, <3>4, <3>5
  <2>3. CASE r # rr
    <3>1. \A d \in Docs \ {rr} : line'[d] = line[d]
      BY <1>0, <2>1
    <3>2. Counted(r) \subseteq Docs \ {rr} /\ r \in Docs \ {rr}
      BY <1>0, <2>3 DEF Counted, LiveOrders
    <3> QED BY <1>1, <2>1, <3>1, <3>2, CountedLess
  <2> QED BY <2>2, <2>3
<1>4. ASSUME NEW o \in Orders, NEW rr \in Requisitions, NEW s \in Suppliers, NEW f \in Rfqs \cup {None},
             NEW q \in 1..MaxQuantity, CreatePurchaseOrder(o, rr, s, f, q)
      PROVE  Within(r)
  <2>1. /\ line' = [line EXCEPT ![o].quantity = q]
        /\ OrderedQuantity(LiveOrders(rr)) + q <= line[rr].quantity
    BY <1>4 DEF CreatePurchaseOrder
  <2>2. /\ source' = [source EXCEPT ![o] = [requisition |-> rr, supplier |-> s, rfq |-> f]]
        /\ source[o].requisition = None
    BY <1>4, OrderDrawn
  <2>3. /\ source'[o].requisition = rr /\ \A x \in Orders \ {o} : source'[x] = source[x]
        /\ line'[o].quantity = q /\ \A d \in Docs \ {o} : line'[d] = line[d]
    BY <1>0, <2>1, <2>2 DEF LineRows
  <2>4. rr # None /\ r # None /\ r # o
    BY <1>0, IdsAssumption
  <2>5. \A x \in Counted(r)' : x = o \/ x \in Counted(r)
    <3>1. SUFFICES ASSUME NEW x \in Orders, source'[x].requisition = r, doc'[x].status # "CANCELLED", x \notin revived', x # o
                   PROVE  x \in Counted(r)
      BY DEF Counted, LiveOrders
    <3>2. source[x].requisition = r
      BY <2>3, <3>1
    <3>3. doc[x].status # "CANCELLED" /\ x \notin revived
      BY <3>1, CountedBefore
    <3> QED BY <3>2, <3>3 DEF Counted, LiveOrders
  <2>6. CASE r # rr
    <3>1. o \notin Counted(r)' /\ o \notin Counted(r)
      BY <2>2, <2>3, <2>4, <2>6 DEF Counted, LiveOrders
    <3>2. Counted(r)' \subseteq Counted(r)
      BY <2>5, <3>1
    <3>3. Counted(r) \subseteq Docs \ {o} /\ r \in Docs \ {o}
      BY <1>0, <2>4, <3>1 DEF Counted, LiveOrders
    <3> QED BY <2>3, <3>2, <3>3, CountedLess
  <2>7. CASE r = rr
    <3> DEFINE L == LiveOrders(r)
               T == Counted(r)'
               g == Quantities
               h == Quantities'
    <3>1. L \subseteq Orders /\ o \notin L /\ Counted(r) \subseteq L
      BY <2>2, <2>4 DEF LiveOrders, Counted
    <3>2. IsFiniteSet(L) /\ IsFiniteSet(L \cup {o}) /\ T \in SUBSET (L \cup {o})
      BY <1>0, <2>5, <3>1, FS_Subset, FS_AddElement
    <3>3. h[o] = q /\ q \in Nat
      BY <1>0, <2>3 DEF Quantities
    <3>4. \A x \in L : h[x] = g[x] /\ g[x] \in Nat
      <4>1. \A x \in L : x \in Docs \ {o} /\ line[x].quantity \in Nat
        BY <1>0, <3>1 DEF LineRows
      <4> QED BY <2>3, <3>1, <4>1 DEF Quantities
    <3>5. line'[r].quantity = line[r].quantity /\ line[r].quantity \in Nat
      BY <1>0, <2>3, <2>4 DEF LineRows
    <3>6. SumFunctionOnSet(g, L) + q <= line[r].quantity
      BY <2>1, <2>7 DEF OrderedQuantity, Quantities
    <3> HIDE DEF L, T, g, h
    <3>7. SumFunctionOnSet(h, L \cup {o}) = q + SumFunctionOnSet(h, L)
      <4>1. \A x \in L \cup {o} : h[x] \in Nat
        BY <3>3, <3>4
      <4> QED BY <3>1, <3>2, <3>3, <4>1, SumAdd
    <3>8. SumFunctionOnSet(h, L) = SumFunctionOnSet(g, L)
      BY <3>2, <3>4, SumSame
    <3>9. SumFunctionOnSet(h, T) <= SumFunctionOnSet(h, L \cup {o})
      <4>1. \A x \in L \cup {o} : h[x] \in Nat
        BY <3>3, <3>4
      <4> QED BY <3>2, <4>1, SumSubset
    <3>10. SumFunctionOnSet(h, T) \in Nat /\ SumFunctionOnSet(g, L) \in Nat
      <4>1. IsFiniteSet(T) /\ (\A x \in T : h[x] \in Nat) /\ (\A x \in L : g[x] \in Nat)
        BY <3>2, <3>3, <3>4, FS_Subset
      <4> QED BY <3>2, <4>1, SumType
    <3>11. SumFunctionOnSet(h, T) <= line'[r].quantity
      BY <3>3, <3>5, <3>6, <3>7, <3>8, <3>9, <3>10
    <3> QED BY <3>11 DEF h, T
  <2> QED BY <2>6, <2>7
<1>5. ASSUME NEW g \in Receipts, NEW o \in Orders, NEW q \in 1..MaxQuantity, ReceiveGoods(g, o, q) PROVE Within(r)
  <2>1. line' = [line EXCEPT ![o].received = @ + q] /\ source' = source
    BY <1>5 DEF ReceiveGoods
  <2>2. \A d \in Docs : line'[d].quantity = line[d].quantity
    BY <1>0, <2>1 DEF LineRows
  <2> QED BY <1>2, <2>1, <2>2
<1>6. ASSUME NEW t \in Returns, NEW g \in Receipts, NEW q \in 1..MaxQuantity, CreatePurchaseReturn(t, g, q)
      PROVE  Within(r)
  <2>1. line' = [line EXCEPT ![goods[g].order].returned = @ + q] /\ source' = source
    BY <1>6 DEF CreatePurchaseReturn
  <2>2. \A d \in Docs : line'[d].quantity = line[d].quantity
    BY <1>0, <2>1 DEF LineRows
  <2> QED BY <1>2, <2>1, <2>2
<1> HIDE DEF Within
<1>7. CASE UNCHANGED line
  BY <1>2, <1>4, <1>7, SourceFrame
<1> QED BY <1>3, <1>4, <1>5, <1>6, <1>7, LineFrame
-----------------------------------------------------------------------------
(* The invariant holds.                                                      *)

LEMMA TypeStays ==
    ASSUME BuyingInv, Next
    PROVE  TypeOK'
<1>1. /\ TypeOK /\ DocsFit /\ RequestsFit /\ ReceiptsFit
      /\ \A o \in Orders : Balanced(o)
  BY BalanceParts DEF BuyingInv
<1>2. doc' \in [Docs -> [status : RequisitionStatus \cup OrderStatus, instance : Instances \cup {None}]]
      /\ revived' \subseteq Docs
  BY <1>1, DocType DEF Statuses
<1>3. line' \in [Docs -> [quantity : 0..MaxQuantity, received : 0..MaxQuantity, returned : 0..MaxQuantity]]
  BY <1>1, LinesStayBalanced DEF LineRows
<1>4. \A p \in Requests : request'[p] = Idle \/ request'[p] \in
          [phase : Phases, doc : Docs, was : RequisitionStatus \cup OrderStatus,
           inst : Instances \cup {None}, new : Instances \cup {None}, opened : Open \cup {"none"}]
  BY <1>1, RequestType DEF RequestRecords, Statuses
<1>5. /\ goods' \in [Receipts -> [order : Orders \cup {None}, quantity : 0..MaxQuantity, accepted : 0..MaxQuantity,
                 status : {"none", "PENDING_INSPECTION", "ACCEPTED", "REJECTED", "PARTIALLY_ACCEPTED"}]]
      /\ back' \in [Returns -> [receipt : Receipts \cup {None}, quantity : 0..MaxQuantity, credit : 0..MaxQuantity,
                 status : {"none", "CREDIT_PENDING", "CREDIT_RECEIVED"}]]
  BY <1>1, GoodsType DEF GoodsRows, BackRows
<1>6. active' \in [Suppliers -> BOOLEAN]
  <2>1. active \in [Suppliers -> BOOLEAN]
    BY <1>1 DEF TypeOK
  <2>2. ASSUME NEW s \in Suppliers, RemoveSupplier(s) \/ RestoreSupplier(s) PROVE active' \in [Suppliers -> BOOLEAN]
    BY <2>1, <2>2 DEF RemoveSupplier, RestoreSupplier
  <2> QED BY <2>1, <2>2, ActiveFrame
<1>7. stranded' \subseteq Docs \X (Instances \cup {None})
  <2> DEFINE T == Docs \X (Instances \cup {None})
  <2>1. stranded \subseteq T
    BY <1>1 DEF TypeOK
  <2>2. ASSUME NEW p \in Requests, request[p] \in RequestRecords
        PROVE  Left(p) \subseteq T /\ <<request[p].doc, None>> \in T /\ <<request[p].doc, request[p].new>> \in T
    BY <2>2 DEF Left, RequestRecords
  <2>3. ASSUME NEW p \in Requests, SubmitClaim(p) PROVE stranded' \subseteq T
    <3>1. request[p] \in RequestRecords
      BY <1>1, <2>3, Busy DEF SubmitClaim, Phases
    <3> QED BY <2>1, <2>2, <2>3, <3>1 DEF SubmitClaim
  <2>4. ASSUME NEW p \in Requests, SubmitStart(p) PROVE stranded' \subseteq T
    <3>1. request[p].doc \in Docs
      BY <1>1, <2>4, Busy DEF SubmitStart, Phases, RequestRecords
    <3>2. stranded' = stranded \/ \E i \in Instances : stranded' = stranded \cup {<<request[p].doc, i>>}
      BY <2>4 DEF SubmitStart, NextId
    <3> QED BY <2>1, <3>1, <3>2
  <2>5. ASSUME NEW p \in Requests, SubmitUndo(p) \/ SubmitLink(p) \/ RequestDies(p) PROVE stranded' \subseteq T
    <3>1. request[p] \in RequestRecords
      BY <1>1, <2>5, Busy DEF SubmitUndo, SubmitLink, RequestDies, Phases, TypeOK, RequestRecords, Statuses
    <3> QED BY <2>1, <2>2, <2>5, <3>1 DEF SubmitUndo, SubmitLink, RequestDies
  <2> QED BY <2>1, <2>3, <2>4, <2>5, StrandedFrame
<1> QED BY <1>1, <1>2, <1>3, <1>4, <1>5, <1>6, <1>7, SourceType, InstanceType, RfqType DEF TypeOK

LEMMA StepHolds ==
    ASSUME BuyingInv, Next
    PROVE  BuyingInv'
<1>1. /\ TypeOK /\ DocsFit /\ RequestsFit /\ SubmittersFit /\ AwardsFit /\ ReceiptsFit
      /\ FirstFit /\ OneSubmits /\ Accounted
      /\ SpendIsApproved /\ OrderedWithinRequest /\ Credited
      /\ \A o \in Orders : Balanced(o)
  BY BalanceParts DEF BuyingInv
<1>2. TypeOK'
  BY TypeStays
<1>3. DocsFit' /\ RequestsFit' /\ SubmittersFit' /\ AwardsFit' /\ ReceiptsFit' /\ SpendIsApproved'
  BY <1>1, DocsStayFit, RequestsStayFit, SubmittersStayFit, AwardsStay, ReceiptsStayFit, SpendStaysApproved
<1>7. FirstFit' /\ OneSubmits' /\ Accounted'
  BY <1>1, FirstStaysFit, OneStillSubmits, StaysAccounted
<1>4. OrderedWithinRequest' /\ Credited'
  BY <1>1, OrderedStaysWithin, CreditsStay
<1>5. \A o \in Orders : Balanced(o)'
  BY <1>1, LinesStayBalanced
<1>6. GoodsBalance'
  BY <1>2, <1>4, <1>5 DEF GoodsBalance, Balanced, Credited, Received, Returned, ReturnsOf, ReceiptsOf
<1> QED BY <1>2, <1>3, <1>6, <1>7 DEF BuyingInv

LEMMA StutterHolds ==
    ASSUME BuyingInv, UNCHANGED vars
    PROVE  BuyingInv'
<1>1. UNCHANGED <<doc, line, source, instance, request, rfq, goods, back, active, stranded, revived>>
  BY DEF vars, docs, later
<1>2. TypeOK' /\ DocsFit' /\ RequestsFit' /\ AwardsFit' /\ ReceiptsFit'
  BY <1>1 DEF BuyingInv, TypeOK, DocsFit, RequestsFit, RequestFits, AwardsFit, ReceiptsFit, InstanceOf
<1>3. SubmittersFit' /\ FirstFit' /\ OneSubmits' /\ Accounted'
  BY <1>1 DEF BuyingInv, SubmittersFit, Owns, FirstFit, FirstFits, OneSubmits, Accounted, Linking
<1>4. SpendIsApproved'
  BY <1>1 DEF BuyingInv, SpendIsApproved, EverApproved
<1>5. OrderedWithinRequest'
  BY <1>1 DEF BuyingInv, GoodsBalance, OrderedWithinRequest, OrderedQuantity, LiveOrders
<1>6. GoodsBalance'
  <2>1. /\ TypeOK /\ OrderedWithinRequest /\ (\A o \in Orders : Balanced(o)) /\ Credited
    BY BalanceParts DEF BuyingInv
  <2>2. \A o \in Orders : Balanced(o)'
    BY <1>1, <2>1 DEF Balanced, Received, Returned, ReturnsOf, ReceiptsOf
  <2>3. Credited'
    BY <1>1, <2>1 DEF Credited
  <2> QED BY <1>2, <1>5, <2>2, <2>3 DEF GoodsBalance, Balanced, Credited, Received, Returned, ReturnsOf, ReceiptsOf
<1> QED BY <1>2, <1>3, <1>4, <1>6 DEF BuyingInv

LEMMA BuyingBegins == Init => BuyingInv
<1> SUFFICES ASSUME Init PROVE BuyingInv
  OBVIOUS
<1>0. /\ None \notin Requisitions \cup Orders \cup Rfqs \cup Receipts \cup Instances \cup Suppliers
      /\ MaxQuantity \in Nat
  BY IdsAssumption
<1>1. TypeOK
  <2>1. 0 \in 0..MaxQuantity
    BY <1>0
  <2>2. doc \in [Docs -> [status : RequisitionStatus \cup OrderStatus, instance : Instances \cup {None}]]
    BY DEF Init, RequisitionStatus
  <2>3. line \in [Docs -> [quantity : 0..MaxQuantity, received : 0..MaxQuantity, returned : 0..MaxQuantity]]
    BY <2>1 DEF Init
  <2>4. source \in [Orders -> [requisition : Requisitions \cup {None}, supplier : Suppliers \cup {None},
                              rfq : Rfqs \cup {None}]]
    BY DEF Init
  <2>5. instance \in [Instances -> [doc : Docs \cup {None}, status : WorkflowStatus \cup {"none"}]]
    BY DEF Init
  <2>6. rfq \in [Rfqs -> [requisition : Requisitions \cup {None}, status : {"none", "OPEN", "CLOSED", "AWARDED"},
                 invite : [Suppliers -> {"none", "INVITED", "RESPONDED", "SELECTED", "NOT_SELECTED"}]]]
    BY DEF Init
  <2>7. goods \in [Receipts -> [order : Orders \cup {None}, quantity : 0..MaxQuantity, accepted : 0..MaxQuantity,
                 status : {"none", "PENDING_INSPECTION", "ACCEPTED", "REJECTED", "PARTIALLY_ACCEPTED"}]]
    BY <2>1 DEF Init
  <2>8. back \in [Returns -> [receipt : Receipts \cup {None}, quantity : 0..MaxQuantity, credit : 0..MaxQuantity,
                 status : {"none", "CREDIT_PENDING", "CREDIT_RECEIVED"}]]
    BY <2>1 DEF Init
  <2>9. /\ \A p \in Requests : request[p] = Idle
        /\ active \in [Suppliers -> BOOLEAN] /\ stranded \subseteq Docs \X (Instances \cup {None}) /\ revived \subseteq Docs
    BY DEF Init
  <2> QED BY <2>2, <2>3, <2>4, <2>5, <2>6, <2>7, <2>8, <2>9 DEF TypeOK
<1>2. /\ \A d \in Docs : doc[d].status = "none" /\ doc[d].instance = None
      /\ \A d \in Docs : line[d].quantity = 0 /\ line[d].received = 0 /\ line[d].returned = 0
      /\ \A o \in Orders : source[o].requisition = None /\ source[o].rfq = None
      /\ DOMAIN request = Requests /\ \A p \in Requests : request[p] = Idle
      /\ \A f \in Rfqs, s \in Suppliers : rfq[f].invite[s] = "none"
      /\ \A g \in Receipts : goods[g].order = None /\ goods[g].status = "none"
      /\ \A t \in Returns : back[t].receipt = None /\ back[t].status = "none"
      /\ \A t \in Returns : back[t].credit = 0 /\ back[t].quantity = 0
  BY DEF Init
<1>3. Orders \subseteq Docs /\ Requisitions \subseteq Docs
  BY DEF Docs
<1>4. DocsFit /\ RequestsFit
  BY <1>2, <1>3 DEF DocsFit, RequestsFit, InstanceOf
<1>5. SubmittersFit /\ FirstFit /\ OneSubmits /\ Accounted
  <2>1. \A i \in Instances, d \in Docs : instance[i].doc # d
    BY <1>0 DEF Init, Docs
  <2> QED BY <1>2, <2>1 DEF SubmittersFit, FirstFit, OneSubmits, Accounted
<1>6. AwardsFit
  BY <1>2 DEF AwardsFit
<1>7. ReceiptsFit
  BY <1>2 DEF ReceiptsFit
<1>8. SpendIsApproved
  BY <1>2, <1>3 DEF SpendIsApproved
<1>9. OrderedWithinRequest
  <2>1. SUFFICES ASSUME NEW r \in Requisitions PROVE OrderedQuantity(LiveOrders(r) \ revived) <= line[r].quantity
    BY DEF OrderedWithinRequest
  <2>2. r # None
    BY <1>0
  <2>3. LiveOrders(r) \ revived = {}
    BY <1>2, <2>2 DEF LiveOrders
  <2>4. OrderedQuantity({}) = 0
    BY SumEmpty DEF OrderedQuantity
  <2> QED BY <1>2, <1>3, <2>3, <2>4
<1>10. \A o \in Orders : Balanced(o)
  <2>1. SUFFICES ASSUME NEW o \in Orders PROVE Balanced(o)
    OBVIOUS
  <2>2. o # None /\ o \in Docs
    BY <1>0, <1>3
  <2>3. ReceiptsOf(o) = {} /\ ReturnsOf(o) = {}
    BY <1>2, <2>2 DEF ReceiptsOf, ReturnsOf
  <2>4. SumFunctionOnSet(Received, {}) = 0 /\ SumFunctionOnSet(Returned, {}) = 0
    BY SumEmpty
  <2> QED BY <1>2, <2>2, <2>3, <2>4 DEF Balanced
<1>11. Credited
  BY <1>2 DEF Credited
<1>12. GoodsBalance
  BY <1>1, <1>9, <1>10, <1>11, BalanceParts
<1> QED BY <1>1, <1>4, <1>5, <1>6, <1>7, <1>8, <1>12 DEF BuyingInv

THEOREM BuyingIsInvariant == Spec => []BuyingInv
<1>1. BuyingInv /\ [Next]_vars => BuyingInv'
  BY StepHolds, StutterHolds
<1> QED BY <1>1, BuyingBegins, PTL DEF Spec

\* Spent is only what was approved: orders, receipts and the supplier of an order.
THEOREM OnlyApprovedIsSpent == Spec => []SpendIsApproved
<1>1. BuyingInv => SpendIsApproved
  BY DEF BuyingInv
<1> QED BY <1>1, BuyingIsInvariant, PTL

\* Receipts, returns and order lines agree, within what was requisitioned.
THEOREM GoodsAddUp == Spec => []GoodsBalance
<1>1. BuyingInv => GoodsBalance
  BY DEF BuyingInv
<1> QED BY <1>1, BuyingIsInvariant, PTL

\* A submission, interrupted wherever it may be, leaves a record in SUBMITTING or an
\* approval request without its record only where it stopped half way, and a first
\* submission is one request's.
THEOREM SubmissionsStayWhole == Spec => []SubmissionsAreWhole
<1>1. BuyingInv => SubmissionsAreWhole
  BY WholeOrStranded DEF BuyingInv
<1> QED BY <1>1, BuyingIsInvariant, PTL

-----------------------------------------------------------------------------
(* Rows in order.                                                            *)

IsOrder(s, fs) ==
    /\ s \in [1..Cardinality(fs) -> fs]
    /\ \A i, j \in 1..Cardinality(fs) : i < j => s[i] < s[j]

LEMMA OrderExtends ==
    ASSUME NEW T, IsFiniteSet(T), T \subseteq Nat, NEW m \in T, \A x \in T : x <= m,
           NEW t, IsOrder(t, T \ {m})
    PROVE  \E s : IsOrder(s, T)
<1> DEFINE n == Cardinality(T \ {m})
           s == [i \in 1..(n + 1) |-> IF i = n + 1 THEN m ELSE t[i]]
<1>1. n \in Nat /\ Cardinality(T) = n + 1
  <2>1. IsFiniteSet(T \ {m}) /\ Cardinality(T \ {m}) = Cardinality(T) - 1
    BY FS_RemoveElement
  <2>2. Cardinality(T) \in Nat /\ Cardinality(T \ {m}) \in Nat
    BY <2>1, FS_CardinalityType
  <2> QED
    BY <2>1, <2>2
<1>2. t \in [1..n -> T \ {m}] /\ \A i, j \in 1..n : i < j => t[i] < t[j]
  BY DEF IsOrder
<1> HIDE DEF n
<1>3. \A i \in 1..n : t[i] \in T /\ t[i] # m /\ t[i] < m
  <2> SUFFICES ASSUME NEW i \in 1..n PROVE t[i] \in T /\ t[i] # m /\ t[i] < m
    OBVIOUS
  <2>1. t[i] \in T \ {m}
    BY <1>2
  <2>2. t[i] \in Nat /\ m \in Nat /\ t[i] <= m /\ t[i] # m
    BY <2>1
  <2> QED
    BY <2>1, <2>2
<1>4. s \in [1..(n + 1) -> T]
  BY <1>1, <1>3
<1>5. \A i, j \in 1..(n + 1) : i < j => s[i] < s[j]
  <2> SUFFICES ASSUME NEW i \in 1..(n + 1), NEW j \in 1..(n + 1), i < j PROVE s[i] < s[j]
    OBVIOUS
  <2>1. i \in 1..n /\ i # n + 1
    BY <1>1
  <2>2. CASE j = n + 1
    BY <1>3, <2>1, <2>2
  <2>3. CASE j # n + 1
    <3>1. j \in 1..n
      BY <1>1, <2>3
    <3> QED
      BY <1>2, <2>1, <2>3, <3>1
  <2> QED
    BY <2>2, <2>3
<1> HIDE DEF s
<1>6. IsOrder(s, T)
  BY <1>1, <1>4, <1>5 DEF IsOrder
<1> QED
  BY <1>6

LEMMA OrderExists ==
    ASSUME NEW S, IsFiniteSet(S), S \subseteq Nat
    PROVE  \E s : IsOrder(s, S)
<1> DEFINE Ordered(T) == \E s : IsOrder(s, T)
           C == {T \in SUBSET S : ~ Ordered(T)}
<1>1. C # {} => \E T \in C : \A U \in C : U \subseteq T => U = T
  <2>1. C \in SUBSET (SUBSET S)
    OBVIOUS
  <2> HIDE DEF C
  <2> SUFFICES ASSUME C # {} PROVE \E T \in C : \A U \in C : U \subseteq T => U = T
    OBVIOUS
  <2> QED
    BY ONLY <2>1, C # {}, IsFiniteSet(S), SmallestSubset
<1> SUFFICES ASSUME C # {} PROVE FALSE
  OBVIOUS
<1>2. PICK T \in C : \A U \in C : U \subseteq T => U = T
  BY <1>1
<1>3. T \subseteq S /\ ~ Ordered(T) /\ IsFiniteSet(T) /\ T \subseteq Nat
  <2>1. T \subseteq S /\ ~ Ordered(T)
    OBVIOUS
  <2> HIDE DEF C, Ordered
  <2> QED
    BY <2>1, FS_Subset
<1>4. T # {}
  <2>1. Cardinality({}) = 0
    BY FS_EmptySet
  <2>2. IsOrder([i \in 1..0 |-> 0], {})
    BY <2>1 DEF IsOrder
  <2> QED
    BY <1>3, <2>2
<1>5. PICK m \in T : \A x \in T : x <= m
  BY <1>3, <1>4, LargestElement
<1>6. Ordered(T \ {m})
  <2>1. T \ {m} \in SUBSET S /\ T \ {m} # T /\ T \ {m} \subseteq T
    BY <1>3
  <2> HIDE DEF Ordered
  <2> QED
    BY <1>2, <2>1
<1>7. PICK t : IsOrder(t, T \ {m})
  BY <1>6
<1>8. Ordered(T)
  BY <1>3, <1>5, <1>7, OrderExtends
<1> QED
  BY <1>3, <1>8

\* The rows of a set of files, each once, in the files' order.
LEMMA InOrderIs ==
    ASSUME NEW S, IsFiniteSet(S), S \subseteq Nat
    PROVE  /\ Cardinality(S) \in Nat
           /\ InOrder(S) \in [1..Cardinality(S) -> S]
           /\ \A i, j \in 1..Cardinality(S) : i < j => InOrder(S)[i] < InOrder(S)[j]
           /\ \A i, j \in 1..Cardinality(S) : i # j => InOrder(S)[i] # InOrder(S)[j]
           /\ \A f \in S : \E i \in 1..Cardinality(S) : InOrder(S)[i] = f
<1> DEFINE n == Cardinality(S)
           o == InOrder(S)
<1>1. n \in Nat
  BY FS_CardinalityType
<1>2. o \in [1..n -> S] /\ \A i, j \in 1..n : i < j => o[i] < o[j]
  <2>1. PICK s : s \in [1..n -> S] /\ \A i, j \in 1..n : i < j => s[i] < s[j]
    BY OrderExists DEF IsOrder
  <2> QED
    BY <2>1 DEF InOrder
<1> HIDE DEF n, o
<1>3. \A i, j \in 1..n : i # j => o[i] # o[j]
  <2> SUFFICES ASSUME NEW i \in 1..n, NEW j \in 1..n, i # j PROVE o[i] # o[j]
    OBVIOUS
  <2>1. i < j \/ j < i
    BY <1>1
  <2>2. o[i] \in Nat /\ o[j] \in Nat
    BY <1>2
  <2>3. o[i] < o[j] \/ o[j] < o[i]
    BY <1>2, <2>1
  <2> QED
    BY <2>2, <2>3
<1>4. o \in Injection(1..n, S)
  BY <1>2, <1>3 DEF Injection, IsInjective
<1>5. Cardinality(1..n) = n
  <2>1. 1 \in Int /\ n \in Int /\ (1 > n => n = 0) /\ n - 1 + 1 = n
    BY <1>1
  <2>2. Cardinality(1..n) = IF 1 > n THEN 0 ELSE n - 1 + 1
    BY <2>1, FS_Interval
  <2> QED
    BY <2>1, <2>2
<1>6. o \in Surjection(1..n, S)
  <2>1. n = Cardinality(S)
    BY DEF n
  <2> QED
    BY <1>4, <1>5, <2>1, FS_Injection
<1>7. \A f \in S : \E i \in 1..n : o[i] = f
  BY <1>6 DEF Surjection
<1> QED
  BY <1>1, <1>2, <1>3, <1>7 DEF n, o

\* The first of a set of files.
LEMMA FirstFile ==
    ASSUME NEW S, IsFiniteSet(S), S # {}
    PROVE  S \subseteq Nat => \E g \in S : \A h \in S : g <= h
<1> SUFFICES ASSUME S \subseteq Nat PROVE \E g \in S : \A h \in S : g <= h
  OBVIOUS
<1> DEFINE n == Cardinality(S)
           o == InOrder(S)
<1>1. /\ n \in Nat /\ o \in [1..n -> S]
      /\ \A i, j \in 1..n : i < j => o[i] < o[j]
      /\ \A f \in S : \E i \in 1..n : o[i] = f
  BY InOrderIs
<1> HIDE DEF n, o
<1>2. 1 \in 1..n
  <2>1. PICK f \in S : TRUE
    OBVIOUS
  <2>2. PICK i \in 1..n : o[i] = f
    BY <1>1, <2>1
  <2> QED
    BY <1>1, <2>2
<1>3. ASSUME NEW h \in S PROVE o[1] <= h
  <2>1. PICK i \in 1..n : o[i] = h
    BY <1>1
  <2>2. o[1] \in Nat /\ h \in Nat /\ (i = 1 \/ 1 < i)
    <3>1. o[1] \in S
      BY <1>1, <1>2
    <3>2. i = 1 \/ 1 < i
      BY <1>1
    <3> QED
      BY <3>1, <3>2
  <2>3. CASE i = 1
    BY <2>1, <2>2, <2>3
  <2>4. CASE 1 < i
    BY <1>1, <1>2, <2>1, <2>2, <2>4
  <2> QED
    BY <2>2, <2>3, <2>4
<1> QED
  BY <1>1, <1>2, <1>3

-----------------------------------------------------------------------------
(* The batch, its rows and its entries: the invariant.                       *)

FileRow  == [status : FileStatus, stored : BOOLEAN, attempts : 0..MaxAttempts, expired : BOOLEAN,
             claim : Workers \cup {Nothing}, extracted : BOOLEAN, ocr : BOOLEAN]
SheetRow == [status : RowStatus, value : Values \cup {Nothing}, reviewed : BOOLEAN, entry : 0..MaxRecords]
Entry    == [value : Values, origin : Files \cup Keys, shown : Values \cup {Nothing}, edits : 0..MaxEdits,
             archived : BOOLEAN]

\* A screen is closed, or shows a batch, or its rows too.
ScreensOK ==
    /\ DOMAIN screen = Screens
    /\ \A s \in Screens :
        \/ screen[s] = Closed
        \/ screen[s] \in [phase : {"batch"}, revision : 0..MaxRevision, token : 0..MaxRevision, rows : {<<>>}]
        \/ screen[s] \in [phase : {"shown"}, revision : 0..MaxRevision, token : 0..MaxRevision,
                          rows : [Files -> SheetRow]]

\* No screen is ahead of the batch, and one that shows its revision shows its rows.
ShownIsRead ==
    \A s \in Screens : screen[s] # Closed =>
        /\ batch.status # "none"
        /\ screen[s].revision <= batch.revision
        /\ screen[s].phase = "shown" /\ screen[s].revision = batch.revision => screen[s].rows = row

\* What can be confirmed has been mapped.
RowsAreMapped ==
    \A f \in Files : row[f].status \in {"VALIDATED", "REVIEW_REQUIRED"} => row[f].value # Nothing

\* A row of which an entry was made is accepted for good.
AcceptedRow(f) == row[f].status = "ACCEPTED" /\ row[f].entry # 0
RowsAreEntered == \A i \in DOMAIN records : records[i].origin \in Files => AcceptedRow(records[i].origin)

EntriesDiffer ==
    \A i, j \in DOMAIN records : i < j =>
        /\ records[i].origin # records[j].origin
        /\ records[i].value = records[j].value => records[i].edits + records[j].edits > 0

ImportInv ==
    /\ ImportTypeOK /\ ScreensOK /\ ShownIsRead /\ RowsAreMapped /\ RowsAreEntered
    /\ ConfirmedAsShown /\ CommittedIsComplete /\ EntriesDiffer

LEMMA InvHolds == ImportInv => ConfirmedAsShown /\ EntriesAreConsistent
  BY DEF ImportInv, EntriesAreConsistent, EnteredOnce, EntriesDiffer

LEMMA ImportTypes ==
    ASSUME ImportTypeOK
    PROVE  /\ batch \in [status : BatchStatus, revision : 0..MaxRevision, token : 0..MaxRevision, confirmed : BOOLEAN]
           /\ file \in [Files -> FileRow]
           /\ row \in [Files -> SheetRow]
           /\ records \in Seq(Entry) /\ Len(records) <= MaxRecords
           /\ work \in [Workers -> Files \cup {Nothing}]
           /\ \A s \in Screens : screen[s].phase \in {"closed", "batch", "shown"}
  BY DEF ImportTypeOK, FileRow, SheetRow, Entry

LEMMA TypesImport ==
    ASSUME batch \in [status : BatchStatus, revision : 0..MaxRevision, token : 0..MaxRevision, confirmed : BOOLEAN],
           file \in [Files -> FileRow], row \in [Files -> SheetRow],
           records \in Seq(Entry), Len(records) <= MaxRecords,
           work \in [Workers -> Files \cup {Nothing}],
           ScreensOK
    PROVE  ImportTypeOK
<1>1. ASSUME NEW s \in Screens PROVE screen[s].phase \in {"closed", "batch", "shown"}
  BY DEF ScreensOK, Closed
<1> QED
  BY <1>1 DEF ImportTypeOK, FileRow, SheetRow, Entry

LEMMA InitImport == ImportInit => ImportInv
<1> SUFFICES ASSUME ImportInit PROVE ImportInv
  OBVIOUS
<1> USE ImportAssumption
<1>1. records = <<>> /\ records \in Seq(Entry) /\ Len(records) = 0 /\ DOMAIN records = {}
  BY DEF ImportInit
<1>2. ScreensOK /\ ShownIsRead
  BY DEF ImportInit, ScreensOK, ShownIsRead
<1>3. ImportTypeOK
  <2>1. batch \in [status : BatchStatus, revision : 0..MaxRevision, token : 0..MaxRevision, confirmed : BOOLEAN]
    BY DEF ImportInit, BatchStatus
  <2>2. file \in [Files -> FileRow]
    BY DEF ImportInit, FileRow, FileStatus
  <2>3. row \in [Files -> SheetRow]
    BY DEF ImportInit, SheetRow, RowStatus
  <2>4. work \in [Workers -> Files \cup {Nothing}]
    BY DEF ImportInit
  <2>5. Len(records) <= MaxRecords
    BY <1>1
  <2> QED
    BY <1>1, <1>2, <2>1, <2>2, <2>3, <2>4, <2>5, TypesImport
<1>4. RowsAreMapped /\ CommittedIsComplete
  BY DEF ImportInit, RowsAreMapped, CommittedIsComplete, Undecided
<1>5. RowsAreEntered /\ ConfirmedAsShown /\ EntriesDiffer
  BY <1>1 DEF RowsAreEntered, ConfirmedAsShown, EntriesDiffer
<1> QED
  BY <1>2, <1>3, <1>4, <1>5 DEF ImportInv

-----------------------------------------------------------------------------
(* What steps leave alone.                                                   *)

\* A step that revises the batch leaves the screens behind it.
LEMMA ScreensFallBehind ==
    ASSUME ImportInv,
           batch.status # "none" => batch'.revision > batch.revision,
           batch'.status # "none",
           DOMAIN screen' = DOMAIN screen, \A s \in Screens : screen'[s] = screen[s] \/ screen'[s] = Closed,
           batch'.revision \in Nat
    PROVE  ScreensOK' /\ ShownIsRead'
<1>1. ScreensOK'
  BY DEF ImportInv, ScreensOK
<1>2. ASSUME NEW s \in Screens, screen'[s] # Closed
      PROVE  screen'[s].revision < batch'.revision
  <2>1. screen'[s] = screen[s] /\ batch.status # "none" /\ screen[s].revision <= batch.revision
    BY <1>2 DEF ImportInv, ShownIsRead
  <2>2. batch.revision \in Nat /\ screen[s].revision \in Nat
    <3>1. batch.revision \in 0..MaxRevision
      BY ImportTypes DEF ImportInv
    <3>2. screen[s].revision \in 0..MaxRevision
      BY <2>1, <1>2 DEF ImportInv, ScreensOK
    <3> QED
      BY <3>1, <3>2
  <2> QED
    BY <2>1, <2>2
<1>3. ShownIsRead'
  <2> SUFFICES ASSUME NEW s \in Screens, screen'[s] # Closed
               PROVE  /\ screen'[s].revision <= batch'.revision
                      /\ screen'[s].revision # batch'.revision
    BY DEF ShownIsRead
  <2>1. screen'[s].revision \in Nat
    <3>1. screen'[s].revision \in 0..MaxRevision
      BY <1>1 DEF ScreensOK
    <3> QED
      BY <3>1
  <2> QED
    BY <1>2, <2>1
<1> QED
  BY <1>1, <1>3

\* As long as the entries and their rows stay, what holds of them does.
LEMMA EntriesKept ==
    ASSUME ImportInv, UNCHANGED records,
           \A f \in Files : AcceptedRow(f) => AcceptedRow(f)'
    PROVE  RowsAreEntered' /\ ConfirmedAsShown' /\ EntriesDiffer'
  BY DEF ImportInv, RowsAreEntered, ConfirmedAsShown, EntriesDiffer

\* Uploads and workers.
LEMMA FilesChange ==
    ASSUME ImportInv, UNCHANGED <<batch, row, records, screen>>,
           file' \in [Files -> FileRow], work' \in [Workers -> Files \cup {Nothing}]
    PROVE  ImportInv'
<1>1. ScreensOK' /\ ShownIsRead' /\ RowsAreMapped' /\ RowsAreEntered' /\ ConfirmedAsShown'
      /\ CommittedIsComplete' /\ EntriesDiffer'
  BY DEF ImportInv, ScreensOK, ShownIsRead, RowsAreMapped, RowsAreEntered, AcceptedRow, ConfirmedAsShown,
         CommittedIsComplete, EntriesDiffer
<1>2. /\ batch' \in [status : BatchStatus, revision : 0..MaxRevision, token : 0..MaxRevision, confirmed : BOOLEAN]
      /\ row' \in [Files -> SheetRow] /\ records' \in Seq(Entry) /\ Len(records') <= MaxRecords
  BY ImportTypes DEF ImportInv
<1>3. ImportTypeOK'
  BY <1>1, <1>2, ImportTypes, TypesImport DEF ImportInv, ScreensOK, ImportTypeOK, FileRow, SheetRow, Entry
<1> QED
  BY <1>1, <1>3 DEF ImportInv

\* A step that rewrites one file.
LEMMA FileWritten ==
    ASSUME file \in [Files -> FileRow], NEW f \in Files, NEW r \in FileRow, file' = [file EXCEPT ![f] = r]
    PROVE  file' \in [Files -> FileRow]
  OBVIOUS

LEMMA StorageSteps ==
    ASSUME ImportInv,
           NEW u \in Uploads, (\E f \in Files : StoreFile(u, f)) \/ UploadDies(u)
    PROVE  ImportInv'
<1>1. file' \in [Files -> FileRow]
  <2>1. file \in [Files -> FileRow]
    BY ImportTypes DEF ImportInv
  <2>2. ASSUME NEW f \in Files, StoreFile(u, f) PROVE file' \in [Files -> FileRow]
    <3> DEFINE stored == [file[f] EXCEPT !.stored = TRUE, !.status = "STORED", !.ocr = FALSE]
               failed == [file[f] EXCEPT !.status = "STORAGE_FAILED", !.ocr = FALSE]
    <3>1. stored \in FileRow /\ failed \in FileRow
      BY <2>1 DEF FileRow, FileStatus
    <3>2. file' = [file EXCEPT ![f] = stored] \/ file' = [file EXCEPT ![f] = failed]
      BY <2>1, <2>2 DEF StoreFile
    <3> HIDE DEF stored, failed
    <3> QED
      BY <2>1, <3>1, <3>2, FileWritten
  <2>3. CASE UploadDies(u)
    BY <2>1, <2>3 DEF UploadDies
  <2> QED
    BY <2>2, <2>3
<1>2. UNCHANGED <<batch, row, records, screen, work>>
  BY DEF StoreFile, UploadDies
<1>3. work' \in [Workers -> Files \cup {Nothing}]
  BY <1>2, ImportTypes DEF ImportInv
<1> QED
  BY <1>1, <1>2, <1>3, FilesChange

LEMMA WorkerSteps ==
    ASSUME ImportInv,
           NEW w \in Workers, (\E f \in Files : ClaimFile(w, f)) \/ ExtractionFails(w) \/ WorkerDies(w)
    PROVE  ImportInv'
<1>0. file \in [Files -> FileRow] /\ work \in [Workers -> Files \cup {Nothing}]
  BY ImportTypes DEF ImportInv
<1>1. file' \in [Files -> FileRow]
  <2>1. ASSUME NEW f \in Files, ClaimFile(w, f) PROVE file' \in [Files -> FileRow]
    <3>1. file[f].attempts + 1 \in 0..MaxAttempts
      <4>1. file[f].attempts \in 0..MaxAttempts /\ file[f].attempts < MaxAttempts /\ MaxAttempts \in Nat
        BY <1>0, <2>1, ImportAssumption DEF FileRow, ClaimFile, Claimable
      <4> QED
        BY <4>1
    <3> DEFINE r == [file[f] EXCEPT !.status = "EXTRACTING", !.claim = w, !.expired = FALSE, !.attempts = @ + 1]
    <3>2. r \in FileRow
      BY <1>0, <3>1 DEF FileRow, FileStatus
    <3>3. file' = [file EXCEPT ![f] = r]
      BY <1>0, <2>1 DEF ClaimFile
    <3> HIDE DEF r
    <3> QED
      BY <1>0, <3>2, <3>3, FileWritten
  <2>2. ASSUME ExtractionFails(w) PROVE file' \in [Files -> FileRow]
    <3>1. PICK f \in Files : f = work[w]
      BY <1>0, <2>2 DEF ExtractionFails
    <3> DEFINE r == [file[f] EXCEPT !.status = "EXTRACTION_FAILED", !.claim = Nothing, !.expired = FALSE, !.ocr = FALSE]
    <3>2. r \in FileRow
      BY <1>0 DEF FileRow, FileStatus
    <3>3. file' = [file EXCEPT ![f] = r] \/ file' = file
      BY <1>0, <2>2, <3>1 DEF ExtractionFails
    <3> HIDE DEF r
    <3> QED
      BY <1>0, <3>2, <3>3, FileWritten
  <2>3. CASE WorkerDies(w)
    BY <1>0, <2>3 DEF WorkerDies
  <2> QED
    BY <2>1, <2>2, <2>3
<1>2. UNCHANGED <<batch, row, records, screen>>
  BY DEF ClaimFile, ExtractionFails, WorkerDies
<1>3. work' \in [Workers -> Files \cup {Nothing}]
  BY <1>0 DEF ClaimFile, ExtractionFails, WorkerDies
<1> QED
  BY <1>1, <1>2, <1>3, FilesChange

LEMMA LeaseSteps ==
    ASSUME ImportInv, NEW f \in Files, LeaseExpires(f) \/ GiveUp(f)
    PROVE  ImportInv'
<1>0. file \in [Files -> FileRow] /\ work \in [Workers -> Files \cup {Nothing}]
  BY ImportTypes DEF ImportInv
<1>1. file' \in [Files -> FileRow]
  <2> DEFINE late == [file[f] EXCEPT !.expired = TRUE]
             over == [file[f] EXCEPT !.status = "EXTRACTION_FAILED", !.claim = Nothing, !.expired = FALSE, !.ocr = FALSE]
  <2>1. late \in FileRow /\ over \in FileRow
    BY <1>0 DEF FileRow, FileStatus
  <2>2. file' = [file EXCEPT ![f] = late] \/ file' = [file EXCEPT ![f] = over]
    BY <1>0 DEF LeaseExpires, GiveUp
  <2> HIDE DEF late, over
  <2> QED
    BY <1>0, <2>1, <2>2, FileWritten
<1>2. UNCHANGED <<batch, row, records, screen, work>>
  BY DEF LeaseExpires, GiveUp
<1> QED
  BY <1>0, <1>1, <1>2, FilesChange

\* The numbers of entries fit a row.
LEMMA EntryNumbers ==
    ASSUME records \in Seq(Entry), Len(records) <= MaxRecords, NEW i \in DOMAIN records
    PROVE  i \in 1..MaxRecords
<1>1. i \in 1..Len(records) /\ Len(records) \in Nat /\ MaxRecords \in Nat
  BY ImportAssumption
<1> QED
  BY <1>1

\* Marking duplicates changes the status of valid rows only, and no row's value.
LEMMA Marking ==
    ASSUME records \in Seq(Entry), Len(records) <= MaxRecords, NEW r \in [Files -> SheetRow]
    PROVE  /\ MarkDuplicates(r) \in [Files -> SheetRow]
           /\ \A f \in Files :
                 /\ MarkDuplicates(r)[f].value = r[f].value
                 /\ r[f].status \notin {"VALIDATED", "DUPLICATE"} => MarkDuplicates(r)[f] = r[f]
                 /\ MarkDuplicates(r)[f].status \in {r[f].status, "DUPLICATE"}
<1> DEFINE marked(f) == r[f].value # Nothing /\ r[f].status \in {"VALIDATED", "DUPLICATE"}
           seen(f) == \E g \in Files : g < f /\ marked(g) /\ r[g].value = r[f].value /\ EntryOf(r[g].value) = {}
           known(f) == CHOOSE i \in EntryOf(r[f].value) : TRUE
           again(f) == [r[f] EXCEPT !.status = "DUPLICATE"]
           kept(f) == [r[f] EXCEPT !.status = "DUPLICATE", !.entry = known(f)]
           m(f) == IF ~marked(f) THEN r[f] ELSE IF seen(f) THEN again(f)
                   ELSE IF EntryOf(r[f].value) # {} THEN kept(f) ELSE r[f]
<1>1. MarkDuplicates(r) = [f \in Files |-> m(f)]
  BY DEF MarkDuplicates
<1>2. ASSUME NEW f \in Files
      PROVE  /\ again(f) \in SheetRow /\ again(f).value = r[f].value /\ again(f).status = "DUPLICATE"
  BY DEF SheetRow, RowStatus
<1>3. ASSUME NEW f \in Files, EntryOf(r[f].value) # {}
      PROVE  /\ kept(f) \in SheetRow /\ kept(f).value = r[f].value /\ kept(f).status = "DUPLICATE"
  <2>1. known(f) \in DOMAIN records
    BY <1>3 DEF EntryOf
  <2>2. known(f) \in 0..MaxRecords
    <3>1. known(f) \in 1..MaxRecords
      BY <2>1, EntryNumbers
    <3> QED
      BY <3>1
  <2> HIDE DEF known
  <2> QED
    BY <2>2 DEF SheetRow, RowStatus
<1> HIDE DEF again, kept, seen
<1>4. ASSUME NEW f \in Files
      PROVE  /\ m(f) \in SheetRow /\ m(f).value = r[f].value
             /\ r[f].status \notin {"VALIDATED", "DUPLICATE"} => m(f) = r[f]
             /\ m(f).status \in {r[f].status, "DUPLICATE"}
  <2>1. r[f] \in SheetRow
    OBVIOUS
  <2> QED
    BY <1>2, <1>3, <2>1
<1> HIDE DEF m
<1> QED
  BY <1>1, <1>4

\* Another revision of the batch.
LEMMA Revised ==
    ASSUME ImportInv, NEW status \in BatchStatus, NEW token \in 0..MaxRevision, Revise(status, token)
    PROVE  /\ batch' \in [status : BatchStatus, revision : 0..MaxRevision, token : 0..MaxRevision, confirmed : BOOLEAN]
           /\ batch'.status = status
           /\ batch'.revision \in Nat /\ batch'.revision > batch.revision
<1>1. batch \in [status : BatchStatus, revision : 0..MaxRevision, token : 0..MaxRevision, confirmed : BOOLEAN]
  BY ImportTypes DEF ImportInv
<1>2. batch.revision \in Nat /\ batch.revision + 1 \in 0..MaxRevision
  <2>1. batch.revision \in 0..MaxRevision /\ batch.revision < MaxRevision /\ MaxRevision \in Nat
    BY <1>1, ImportAssumption DEF Revise
  <2> QED
    BY <2>1
<1>3. batch' = [batch EXCEPT !.status = status, !.revision = @ + 1, !.token = token]
  BY DEF Revise
<1>4. batch'.revision = batch.revision + 1 /\ batch'.status = status
  BY <1>1, <1>3
<1>5. batch' \in [status : BatchStatus, revision : 0..MaxRevision, token : 0..MaxRevision, confirmed : BOOLEAN]
  BY <1>1, <1>2, <1>3
<1> QED
  BY <1>2, <1>4, <1>5

LEMMA NewToken ==
    ASSUME ImportInv, batch.revision < MaxRevision
    PROVE  NewPreviewToken \in 0..MaxRevision
<1>1. batch.revision \in 0..MaxRevision /\ MaxRevision \in Nat
  BY ImportTypes, ImportAssumption DEF ImportInv
<1> QED
  BY <1>1 DEF NewPreviewToken

\* What a step on the rows has to show.
LEMMA RowsChange ==
    ASSUME ImportInv, UNCHANGED records, work' \in [Workers -> Files \cup {Nothing}],
           batch' \in [status : BatchStatus, revision : 0..MaxRevision, token : 0..MaxRevision, confirmed : BOOLEAN],
           batch'.status \notin {"none", "COMMITTED"},
           batch'.revision \in Nat, batch.status # "none" => batch'.revision > batch.revision,
           DOMAIN screen' = DOMAIN screen, \A s \in Screens : screen'[s] = screen[s] \/ screen'[s] = Closed,
           file' \in [Files -> FileRow], row' \in [Files -> SheetRow],
           \A f \in Files : row'[f].status \in {"VALIDATED", "REVIEW_REQUIRED"} => row'[f].value # Nothing,
           \A f \in Files : AcceptedRow(f) => row'[f] = row[f]
    PROVE  ImportInv'
<1>1. ScreensOK' /\ ShownIsRead'
  BY ScreensFallBehind
<1>2. RowsAreMapped' /\ CommittedIsComplete'
  BY DEF RowsAreMapped, CommittedIsComplete
<1>3. RowsAreEntered' /\ ConfirmedAsShown' /\ EntriesDiffer'
  <2>1. \A f \in Files : AcceptedRow(f) => AcceptedRow(f)'
    BY DEF AcceptedRow
  <2> QED
    BY <2>1, EntriesKept
<1>4. ImportTypeOK'
  <2>1. records' \in Seq(Entry) /\ Len(records') <= MaxRecords
    BY ImportTypes DEF ImportInv
  <2>2. \A s \in Screens : screen'[s].phase \in {"closed", "batch", "shown"}
    BY <1>1 DEF ScreensOK, Closed
  <2> QED
    BY <2>1, <2>2 DEF ImportTypeOK, FileRow, SheetRow, Entry
<1> QED
  BY <1>1, <1>2, <1>3, <1>4 DEF ImportInv

LEMMA PreviewStep ==
    ASSUME ImportInv, NEW s \in Screens, NEW f \in Files, NEW v \in Values,
           NEW status \in {"VALIDATED", "REVIEW_REQUIRED", "REJECTED", "EXCLUDED"},
           PreviewImport(s, f, v, status)
    PROVE  ImportInv'
<1> DEFINE mapped == [status |-> status, value |-> v, reviewed |-> FALSE, entry |-> 0]
           out == [row[f] EXCEPT !.status = status]
           r == IF row[f].entry # 0 THEN row
                ELSE IF status = "EXCLUDED" THEN [row EXCEPT ![f].status = status]
                ELSE [row EXCEPT ![f] = mapped]
<1>0. /\ file \in [Files -> FileRow] /\ row \in [Files -> SheetRow]
      /\ records \in Seq(Entry) /\ Len(records) <= MaxRecords
  BY ImportTypes DEF ImportInv
<1>1. mapped \in SheetRow /\ out \in SheetRow
  <2>1. 0 \in 0..MaxRecords
    BY ImportAssumption
  <2>2. row[f] \in SheetRow
    BY <1>0
  <2> QED
    BY <2>1, <2>2 DEF SheetRow, RowStatus
<1>2. r \in [Files -> SheetRow]
      /\ \A g \in Files : \/ r[g] = row[g]
                          \/ row[g].entry = 0 /\ r[g] = mapped
                          \/ row[g].entry = 0 /\ status = "EXCLUDED" /\ r[g] = out
  <2>1. [row EXCEPT ![f].status = status] = [row EXCEPT ![f] = out]
    BY <1>0
  <2> HIDE DEF mapped, out
  <2> QED
    BY <1>0, <1>1, <2>1
<1>3. mapped.value # Nothing /\ mapped.value = v
  BY ImportAssumption
<1>4. out.status = status
  BY <1>0 DEF SheetRow
<1>5. row' = MarkDuplicates(r)
  BY DEF PreviewImport
<1> HIDE DEF r, mapped, out
<1>6. \A g \in Files : r[g].status \in {"VALIDATED", "REVIEW_REQUIRED"} => r[g].value # Nothing
  BY <1>2, <1>3, <1>4 DEF ImportInv, RowsAreMapped
<1>7. \A g \in Files : AcceptedRow(g) => r[g] = row[g]
  BY <1>2 DEF AcceptedRow
<1>8. /\ row' \in [Files -> SheetRow]
      /\ \A g \in Files :
            /\ row'[g].value = r[g].value
            /\ r[g].status \notin {"VALIDATED", "DUPLICATE"} => row'[g] = r[g]
            /\ row'[g].status \in {r[g].status, "DUPLICATE"}
  BY <1>0, <1>2, <1>5, Marking
<1>9. /\ batch' \in [status : BatchStatus, revision : 0..MaxRevision, token : 0..MaxRevision, confirmed : BOOLEAN]
      /\ batch'.status = "PREVIEWED" /\ batch'.revision \in Nat /\ batch'.revision > batch.revision
  <2>1. Revise("PREVIEWED", NewPreviewToken) /\ batch.revision < MaxRevision
    BY DEF PreviewImport, Revise
  <2>2. NewPreviewToken \in 0..MaxRevision /\ "PREVIEWED" \in BatchStatus
    BY <2>1, NewToken DEF BatchStatus
  <2> QED
    BY <2>1, <2>2, Revised
<1>10. file' \in [Files -> FileRow]
  <2> DEFINE g == [file[f] EXCEPT !.status = "PREVIEWED"]
  <2>1. g \in FileRow /\ file' = [file EXCEPT ![f] = g]
    BY <1>0 DEF PreviewImport, FileRow, FileStatus
  <2> HIDE DEF g
  <2> QED
    BY <1>0, <2>1
<1>11. UNCHANGED records /\ work' \in [Workers -> Files \cup {Nothing}]
       /\ DOMAIN screen' = DOMAIN screen /\ \A t \in Screens : screen'[t] = screen[t] \/ screen'[t] = Closed
  <2>1. UNCHANGED <<records, work>> /\ screen' = [screen EXCEPT ![s] = Closed]
    BY DEF PreviewImport
  <2> QED
    BY <2>1, ImportTypes DEF ImportInv
<1>12. \A g \in Files : row'[g].status \in {"VALIDATED", "REVIEW_REQUIRED"} => row'[g].value # Nothing
  BY <1>6, <1>8
<1>13. \A g \in Files : AcceptedRow(g) => row'[g] = row[g]
  BY <1>7, <1>8 DEF AcceptedRow
<1> QED
  BY <1>8, <1>9, <1>10, <1>11, <1>12, <1>13, RowsChange

LEMMA EditRowStep ==
    ASSUME ImportInv, NEW s \in Screens, NEW f \in Files, NEW v \in Values, EditImportRow(s, f, v)
    PROVE  ImportInv'
<1> DEFINE mapped == [status |-> "VALIDATED", value |-> v, reviewed |-> TRUE, entry |-> 0]
           r == [row EXCEPT ![f] = mapped]
<1>0. /\ file \in [Files -> FileRow] /\ row \in [Files -> SheetRow]
      /\ records \in Seq(Entry) /\ Len(records) <= MaxRecords
  BY ImportTypes DEF ImportInv
<1>1. mapped \in SheetRow
  <2>1. 0 \in 0..MaxRecords
    BY ImportAssumption
  <2> QED
    BY <2>1 DEF SheetRow, RowStatus
<1>2. mapped.value # Nothing
  BY ImportAssumption
<1>3. row' = MarkDuplicates(r) /\ row[f].entry = 0
  BY DEF EditImportRow
<1> HIDE DEF mapped
<1>4. r \in [Files -> SheetRow] /\ \A g \in Files : r[g] = row[g] \/ (g = f /\ r[g] = mapped)
  BY <1>0, <1>1
<1> HIDE DEF r
<1>6. \A g \in Files : r[g].status \in {"VALIDATED", "REVIEW_REQUIRED"} => r[g].value # Nothing
  BY <1>2, <1>4 DEF ImportInv, RowsAreMapped
<1>7. \A g \in Files : AcceptedRow(g) => r[g] = row[g]
  BY <1>3, <1>4 DEF AcceptedRow
<1>8. /\ row' \in [Files -> SheetRow]
      /\ \A g \in Files :
            /\ row'[g].value = r[g].value
            /\ r[g].status \notin {"VALIDATED", "DUPLICATE"} => row'[g] = r[g]
            /\ row'[g].status \in {r[g].status, "DUPLICATE"}
  BY <1>0, <1>3, <1>4, Marking
<1>9. /\ batch' \in [status : BatchStatus, revision : 0..MaxRevision, token : 0..MaxRevision, confirmed : BOOLEAN]
      /\ batch'.status = "PREVIEWED" /\ batch'.revision \in Nat /\ batch'.revision > batch.revision
  <2>1. Revise("PREVIEWED", NewPreviewToken) /\ batch.revision < MaxRevision
    BY DEF EditImportRow, Revise
  <2>2. NewPreviewToken \in 0..MaxRevision /\ "PREVIEWED" \in BatchStatus
    BY <2>1, NewToken DEF BatchStatus
  <2> QED
    BY <2>1, <2>2, Revised
<1>11. UNCHANGED <<records, file>> /\ work' \in [Workers -> Files \cup {Nothing}]
       /\ DOMAIN screen' = DOMAIN screen /\ \A t \in Screens : screen'[t] = screen[t] \/ screen'[t] = Closed
  <2>1. UNCHANGED <<records, work, file>> /\ screen' = [screen EXCEPT ![s] = Closed]
    BY DEF EditImportRow
  <2> QED
    BY <2>1, ImportTypes DEF ImportInv
<1>12. \A g \in Files : row'[g].status \in {"VALIDATED", "REVIEW_REQUIRED"} => row'[g].value # Nothing
  BY <1>6, <1>8
<1>13. \A g \in Files : AcceptedRow(g) => row'[g] = row[g]
  BY <1>7, <1>8 DEF AcceptedRow
<1> QED
  BY <1>0, <1>8, <1>9, <1>11, <1>12, <1>13, RowsChange

LEMMA RetryStep ==
    ASSUME ImportInv, NEW s \in Screens, RetryExtraction(s)
    PROVE  ImportInv'
<1>0. /\ file \in [Files -> FileRow] /\ row \in [Files -> SheetRow] /\ work \in [Workers -> Files \cup {Nothing}]
      /\ batch.status \in BatchStatus
  BY ImportTypes DEF ImportInv
<1>1. batch.status \notin {"none", "COMMITTED"}
  <2>1. screen[s].phase = "shown" /\ batch.status # "COMMITTED"
    BY DEF RetryExtraction, Current
  <2>2. screen[s] # Closed
    BY <2>1 DEF Closed
  <2> QED
    BY <2>1, <2>2 DEF ImportInv, ShownIsRead
<1>2. /\ batch' \in [status : BatchStatus, revision : 0..MaxRevision, token : 0..MaxRevision, confirmed : BOOLEAN]
      /\ batch'.status = batch.status /\ batch'.revision \in Nat /\ batch'.revision > batch.revision
  <2>1. Revise(batch.status, 0)
    BY DEF RetryExtraction
  <2>2. 0 \in 0..MaxRevision
    BY ImportAssumption
  <2> QED
    BY <1>0, <2>1, <2>2, Revised
<1>3. file' \in [Files -> FileRow]
  <2>1. ASSUME NEW f \in Files
        PROVE  [file[f] EXCEPT !.status = "STORED", !.attempts = 0, !.claim = Nothing, !.ocr = FALSE] \in FileRow
    <3>1. 0 \in 0..MaxAttempts
      BY ImportAssumption
    <3> QED
      BY <1>0, <3>1 DEF FileRow, FileStatus
  <2> QED
    BY <1>0, <2>1 DEF RetryExtraction
<1>4. UNCHANGED <<records, work, row>> /\ DOMAIN screen' = DOMAIN screen /\ \A t \in Screens : screen'[t] = screen[t] \/ screen'[t] = Closed
  <2>1. UNCHANGED <<records, work, row>> /\ screen' = [screen EXCEPT ![s] = Closed]
    BY DEF RetryExtraction
  <2>2. screen' = [t \in DOMAIN screen |-> IF t = s THEN Closed ELSE screen[t]]
    BY <2>1
  <2> QED
    BY <2>1
<1>5. \A f \in Files : row'[f].status \in {"VALIDATED", "REVIEW_REQUIRED"} => row'[f].value # Nothing
  BY <1>4 DEF ImportInv, RowsAreMapped
<1> QED
  BY <1>0, <1>1, <1>2, <1>3, <1>4, <1>5, RowsChange

LEMMA ExtractStep ==
    ASSUME ImportInv, NEW w \in Workers, NEW outcome \in {"EXTRACTED", "REVIEW_REQUIRED", "OCR"},
           ExtractFile(w, outcome)
    PROVE  ImportInv'
<1>0. /\ file \in [Files -> FileRow] /\ row \in [Files -> SheetRow] /\ work \in [Workers -> Files \cup {Nothing}]
  BY ImportTypes DEF ImportInv
<1>1. PICK f \in Files : f = work[w]
  BY <1>0 DEF ExtractFile
<1>2. UNCHANGED <<records, screen>> /\ work' \in [Workers -> Files \cup {Nothing}]
  BY <1>0 DEF ExtractFile
<1>3. CASE ~ (file[f].status = "EXTRACTING" /\ file[f].claim = w)
  <2>1. UNCHANGED <<batch, file, row>>
    BY <1>1, <1>3 DEF ExtractFile
  <2> QED
    BY <1>0, <1>2, <2>1, FilesChange
<1>4. CASE file[f].status = "EXTRACTING" /\ file[f].claim = w
  <2> DEFINE ocr == outcome = "OCR"
             read == [file[f] EXCEPT !.status = IF ocr THEN "REVIEW_REQUIRED" ELSE outcome,
                                     !.claim = Nothing, !.expired = FALSE, !.extracted = TRUE, !.ocr = ocr]
             fresh == [row[f] EXCEPT !.status = "PENDING_MAPPING"]
             status == IF batch.confirmed THEN "PARTIALLY_COMMITTED" ELSE "UPLOADED"
  <2>1. /\ file' = [file EXCEPT ![f] = read]
        /\ row' = row \/ (row[f].status = "none" /\ row' = [row EXCEPT ![f] = fresh])
        /\ Revise(status, 0)
    BY <1>0, <1>1, <1>4 DEF ExtractFile
  <2>2. read \in FileRow
    BY <1>0 DEF FileRow, FileStatus
  <2>3. fresh \in SheetRow /\ fresh.status = "PENDING_MAPPING"
    BY <1>0 DEF SheetRow, RowStatus
  <2>4. status \in BatchStatus \ {"none", "COMMITTED"}
    BY DEF BatchStatus
  <2> HIDE DEF read, fresh, status
  <2>5. file' \in [Files -> FileRow]
    BY <1>0, <2>1, <2>2
  <2>6. row' \in [Files -> SheetRow]
        /\ \A g \in Files : row'[g] = row[g] \/ (g = f /\ row[g].status = "none" /\ row'[g] = fresh)
    BY <1>0, <2>1, <2>3
  <2>7. /\ batch' \in [status : BatchStatus, revision : 0..MaxRevision, token : 0..MaxRevision, confirmed : BOOLEAN]
        /\ batch'.status = status /\ batch'.revision \in Nat /\ batch'.revision > batch.revision
    <3>1. 0 \in 0..MaxRevision
      BY ImportAssumption
    <3> QED
      BY <2>1, <2>4, <3>1, Revised
  <2>8. \A g \in Files : row'[g].status \in {"VALIDATED", "REVIEW_REQUIRED"} => row'[g].value # Nothing
    BY <2>3, <2>6 DEF ImportInv, RowsAreMapped
  <2>9. \A g \in Files : AcceptedRow(g) => row'[g] = row[g]
    BY <2>6 DEF AcceptedRow
  <2> QED
    BY <1>2, <2>4, <2>5, <2>6, <2>7, <2>8, <2>9, RowsChange
<1> QED
  BY <1>3, <1>4

LEMMA CreateUploadStep ==
    ASSUME ImportInv, NEW u \in Uploads, NEW bad \in SUBSET Files, CreateUpload(u, bad)
    PROVE  ImportInv'
<1>0. /\ file \in [Files -> FileRow] /\ row \in [Files -> SheetRow] /\ work \in [Workers -> Files \cup {Nothing}]
      /\ batch \in [status : BatchStatus, revision : 0..MaxRevision, token : 0..MaxRevision, confirmed : BOOLEAN]
  BY ImportTypes DEF ImportInv
<1>1. UNCHANGED <<row, records, work, screen>>
  BY DEF CreateUpload
<1>2. CASE batch.status # "none"
  <2>1. UNCHANGED <<batch, file>>
    BY <1>2 DEF CreateUpload
  <2> QED
    BY <1>0, <1>1, <2>1, FilesChange
<1>3. CASE batch.status = "none"
  <2>1. /\ batch' = [batch EXCEPT !.status = "UPLOADED", !.revision = 1]
        /\ file' = [f \in Files |-> [file[f] EXCEPT !.status = IF f \in bad THEN "REJECTED" ELSE "STORAGE_PENDING"]]
    BY <1>3 DEF CreateUpload
  <2>2. 1 \in 0..MaxRevision
    BY ImportAssumption
  <2>3. /\ batch' \in [status : BatchStatus, revision : 0..MaxRevision, token : 0..MaxRevision, confirmed : BOOLEAN]
        /\ batch'.status = "UPLOADED" /\ batch'.revision \in Nat
    BY <1>0, <2>1, <2>2 DEF BatchStatus
  <2>4. file' \in [Files -> FileRow]
    <3>1. ASSUME NEW f \in Files
          PROVE  [file[f] EXCEPT !.status = IF f \in bad THEN "REJECTED" ELSE "STORAGE_PENDING"] \in FileRow
      BY <1>0 DEF FileRow, FileStatus
    <3> QED
      BY <2>1, <3>1
  <2>5. \A f \in Files : row'[f].status \in {"VALIDATED", "REVIEW_REQUIRED"} => row'[f].value # Nothing
    BY <1>1 DEF ImportInv, RowsAreMapped
  <2> QED
    BY <1>0, <1>1, <1>3, <2>3, <2>4, <2>5, RowsChange
<1> QED
  BY <1>2, <1>3

\* Reading a batch and its rows.
LEMMA ReadingSteps ==
    ASSUME ImportInv, NEW s \in Screens, ReadBatch(s) \/ ReadRows(s)
    PROVE  ImportInv'
<1>0. /\ file \in [Files -> FileRow] /\ row \in [Files -> SheetRow] /\ work \in [Workers -> Files \cup {Nothing}]
      /\ batch \in [status : BatchStatus, revision : 0..MaxRevision, token : 0..MaxRevision, confirmed : BOOLEAN]
      /\ records \in Seq(Entry) /\ Len(records) <= MaxRecords
  BY ImportTypes DEF ImportInv
<1>1. UNCHANGED <<batch, file, row, records, work>>
  BY DEF ReadBatch, ReadRows
<1>2. DOMAIN screen = Screens /\ \A t \in Screens : screen[t] = Closed \/ screen[t] # Closed
  BY DEF ImportInv, ScreensOK
<1>3. PICK new : screen' = [screen EXCEPT ![s] = new]
  BY Zenon DEF ReadBatch, ReadRows
<1>4. DOMAIN screen' = Screens /\ screen'[s] = new /\ \A t \in Screens \ {s} : screen'[t] = screen[t]
  BY <1>2, <1>3
<1>5. /\ \/ new \in [phase : {"batch"}, revision : 0..MaxRevision, token : 0..MaxRevision, rows : {<<>>}]
         \/ new \in [phase : {"shown"}, revision : 0..MaxRevision, token : 0..MaxRevision, rows : [Files -> SheetRow]]
      /\ batch.status # "none" /\ new.revision <= batch.revision
      /\ new.phase = "shown" /\ new.revision = batch.revision => new.rows = row
  <2>1. CASE ReadBatch(s)
    <3>1. new = [phase |-> "batch", revision |-> batch.revision, token |-> batch.token, rows |-> <<>>]
      BY <1>2, <1>4, <2>1 DEF ReadBatch
    <3>2. batch.status # "none"
      BY <2>1 DEF ReadBatch
    <3>3. batch.revision \in 0..MaxRevision /\ batch.token \in 0..MaxRevision
      BY <1>0, <3>2 DEF ImportInv
    <3> QED
      BY <3>1, <3>2, <3>3
  <2>2. CASE ReadRows(s)
    <3>1. screen[s].phase = "batch" /\ screen' = [screen EXCEPT ![s].phase = "shown", ![s].rows = row]
      BY <2>2 DEF ReadRows
    <3>2. /\ screen[s] # Closed
          /\ screen[s] \in [phase : {"batch"}, revision : 0..MaxRevision, token : 0..MaxRevision, rows : {<<>>}]
      BY <3>1 DEF ImportInv, ScreensOK, Closed
    <3>3. new = [screen[s] EXCEPT !.phase = "shown", !.rows = row]
      BY <1>2, <1>4, <3>1
    <3>4. new \in [phase : {"shown"}, revision : 0..MaxRevision, token : 0..MaxRevision, rows : [Files -> SheetRow]]
          /\ new.rows = row /\ new.revision = screen[s].revision
      BY <1>0, <3>2, <3>3
    <3>5. batch.status # "none" /\ screen[s].revision <= batch.revision
      BY <3>2 DEF ImportInv, ShownIsRead
    <3> QED
      BY <3>4, <3>5
  <2> QED
    BY <2>1, <2>2
<1>6. ScreensOK' /\ ShownIsRead'
  BY <1>1, <1>4, <1>5 DEF ImportInv, ScreensOK, ShownIsRead
<1>7. RowsAreMapped' /\ RowsAreEntered' /\ ConfirmedAsShown' /\ CommittedIsComplete' /\ EntriesDiffer'
  BY <1>1 DEF ImportInv, RowsAreMapped, RowsAreEntered, AcceptedRow, ConfirmedAsShown,
              CommittedIsComplete, EntriesDiffer
<1>8. ImportTypeOK'
  <2>1. \A t \in Screens : screen'[t].phase \in {"closed", "batch", "shown"}
    BY <1>6 DEF ScreensOK, Closed
  <2> QED
    BY <1>0, <1>1, <2>1 DEF ImportTypeOK, FileRow, SheetRow, Entry
<1> QED
  BY <1>6, <1>7, <1>8 DEF ImportInv

-----------------------------------------------------------------------------
(* Confirming.                                                               *)

\* What one confirmation enters, and the entries and rows after it.
Skipped(sel) == {f \in sel : row[f].status \in {"DUPLICATE", "ACCEPTED"}}
Entered(sel) ==
    {f \in sel \ Skipped(sel) :
        /\ EntryOf(row[f].value) = {}
        /\ \A g \in sel \ Skipped(sel) : g < f => row[g].value # row[f].value}
NewEntry(s, f) ==
    [value |-> row[f].value, origin |-> f, shown |-> screen[s].rows[f].value, edits |-> 0, archived |-> FALSE]
NewEntries(s, sel) == [i \in 1..Len(InOrder(Entered(sel))) |-> NewEntry(s, InOrder(Entered(sel))[i])]

\* The value of every selected row has its entry afterwards.
LEMMA ValuesAreEntered ==
    ASSUME NEW sel \in SUBSET Files, NEW f \in sel \ Skipped(sel), EntryOf(row[f].value) = {}
    PROVE  \E g \in Entered(sel) : row[g].value = row[f].value
<1> DEFINE same == {g \in sel \ Skipped(sel) : row[g].value = row[f].value}
<1>1. same \subseteq Nat /\ f \in same /\ IsFiniteSet(same)
  BY ImportAssumption, FS_Subset
<1>2. PICK g \in same : \A h \in same : g <= h
  <2> HIDE DEF same
  <2> QED
    BY <1>1, FirstFile
<1>3. ASSUME NEW h \in sel \ Skipped(sel), h < g PROVE row[h].value # row[g].value
  <2> SUFFICES ASSUME row[h].value = row[g].value PROVE FALSE
    OBVIOUS
  <2>1. h \in same
    BY <1>2
  <2>2. g <= h /\ g \in Nat /\ h \in Nat
    BY <1>1, <1>2, <2>1
  <2> QED
    BY <1>3, <2>2
<1>4. g \in Entered(sel)
  BY <1>2, <1>3 DEF Entered
<1> QED
  BY <1>2, <1>4

\* A selected row has the content the screen showed.
LEMMA ScreenIsCurrent ==
    ASSUME ImportInv, NEW s \in Screens, Current(s)
    PROVE  screen[s].rows = row /\ batch.status \notin {"none", "COMMITTED"}
<1>1. screen[s].phase = "shown" /\ screen[s].revision = batch.revision /\ batch.status # "COMMITTED"
  BY DEF Current
<1>2. screen[s] # Closed
  BY <1>1 DEF Closed
<1> QED
  BY <1>1, <1>2 DEF ImportInv, ShownIsRead

\* The new entries: one for each row entered, in the files' order.
LEMMA NewEntriesAre ==
    ASSUME ImportInv, NEW s \in Screens, Current(s), NEW sel \in SUBSET Files,
           \A f \in sel \ Skipped(sel) : row[f].status \in {"VALIDATED", "REVIEW_REQUIRED"}
    PROVE  /\ NewEntries(s, sel) \in Seq(Entry)
           /\ Len(NewEntries(s, sel)) \in Nat
           /\ DOMAIN NewEntries(s, sel) = 1..Len(NewEntries(s, sel))
           /\ \A i \in 1..Len(NewEntries(s, sel)) :
                 \E f \in Entered(sel) : /\ NewEntries(s, sel)[i] = NewEntry(s, f)
                                        /\ InOrder(Entered(sel))[i] = f
           /\ \A i, j \in 1..Len(NewEntries(s, sel)) : i # j =>
                 InOrder(Entered(sel))[i] # InOrder(Entered(sel))[j]
           /\ \A f \in Entered(sel) : \E i \in 1..Len(NewEntries(s, sel)) : NewEntries(s, sel)[i] = NewEntry(s, f)
<1> DEFINE E == Entered(sel)
           o == InOrder(E)
           n == Cardinality(E)
<1>0. row \in [Files -> SheetRow]
  BY ImportTypes DEF ImportInv
<1>1. E \subseteq Files /\ IsFiniteSet(E) /\ E \subseteq Nat
  BY ImportAssumption, FS_Subset DEF Entered
<1>2. /\ n \in Nat /\ o \in [1..n -> E]
      /\ \A i, j \in 1..n : i # j => o[i] # o[j]
      /\ \A f \in E : \E i \in 1..n : o[i] = f
  BY <1>1, InOrderIs
<1>3. ASSUME NEW f \in E PROVE NewEntry(s, f) \in Entry
  <2>1. row[f].value \in Values /\ f \in Files
    <3>1. f \in sel \ Skipped(sel) /\ f \in Files
      BY <1>3 DEF Entered
    <3>2. row[f].value # Nothing /\ row[f] \in SheetRow
      BY <1>0, <3>1 DEF ImportInv, RowsAreMapped
    <3> QED
      BY <3>1, <3>2 DEF SheetRow
  <2>2. screen[s].rows[f].value = row[f].value
    BY ScreenIsCurrent
  <2>3. 0 \in 0..MaxEdits
    BY ImportAssumption
  <2> QED
    BY <2>1, <2>2, <2>3 DEF NewEntry, Entry
<1>4. Len(o) = n
  BY <1>2
<1>5. NewEntries(s, sel) = [i \in 1..n |-> NewEntry(s, o[i])]
  BY <1>4 DEF NewEntries
<1> HIDE DEF E, n, o
<1>6. NewEntries(s, sel) \in [1..n -> Entry]
  BY <1>2, <1>3, <1>5
<1>7. NewEntries(s, sel) \in Seq(Entry) /\ Len(NewEntries(s, sel)) = n
  BY <1>2, <1>6
<1>8. \A i \in 1..n : NewEntries(s, sel)[i] = NewEntry(s, o[i])
  BY <1>5
<1>9. \A i \in 1..n : \E f \in E : NewEntries(s, sel)[i] = NewEntry(s, f) /\ o[i] = f
  BY <1>2, <1>8
<1>10. \A f \in E : \E i \in 1..n : NewEntries(s, sel)[i] = NewEntry(s, f)
  BY <1>2, <1>8
<1> QED
  BY <1>2, <1>6, <1>7, <1>9, <1>10 DEF E, o

Number(all, v) == CHOOSE i \in DOMAIN all : all[i].value = v
RowsAfter(sel, all) ==
    [f \in Files |->
        IF f \in Entered(sel)
        THEN [row[f] EXCEPT !.status = "ACCEPTED", !.reviewed = TRUE, !.entry = Number(all, row[f].value)]
        ELSE IF f \in sel \ Skipped(sel)
        THEN [row[f] EXCEPT !.status = "DUPLICATE", !.entry = Number(all, row[f].value)]
        ELSE row[f]]

LEMMA CommitEffect ==
    ASSUME NEW s \in Screens, NEW sel \in SUBSET Files, CommitImport(s, sel)
    PROVE  /\ Current(s)
           /\ \A f \in sel \ Skipped(sel) : row[f].status \in {"VALIDATED", "REVIEW_REQUIRED"}
           /\ records' = records \o NewEntries(s, sel)
           /\ Len(records') <= MaxRecords
           /\ row' = RowsAfter(sel, records')
           /\ batch.revision < MaxRevision
           /\ batch' = [batch EXCEPT !.confirmed = TRUE, !.revision = @ + 1,
                           !.status = IF Remaining(file, row') THEN "PARTIALLY_COMMITTED" ELSE "COMMITTED",
                           !.token = IF Remaining(file, row') THEN NewPreviewToken ELSE @]
           /\ screen' = [screen EXCEPT ![s] = Closed]
           /\ UNCHANGED <<file, upload, work>>
<1>1. /\ Current(s) /\ batch.revision < MaxRevision /\ Len(records') <= MaxRecords
      /\ screen' = [screen EXCEPT ![s] = Closed] /\ UNCHANGED <<file, upload, work>>
  BY DEF CommitImport
<1>2. \A f \in sel \ Skipped(sel) : row[f].status \in {"VALIDATED", "REVIEW_REQUIRED"}
  BY DEF CommitImport, Skipped
<1>3. records' = records \o NewEntries(s, sel)
  BY DEF CommitImport, Skipped, Entered, NewEntries, NewEntry
<1>4. row' = RowsAfter(sel, records')
  <2>1. row' = RowsAfter(sel, records \o NewEntries(s, sel))
    BY ZenonT(60) DEF CommitImport, Skipped, Entered, NewEntries, NewEntry, RowsAfter, Number
  <2> QED
    BY ONLY <1>3, <2>1
<1>5. batch' = [batch EXCEPT !.confirmed = TRUE, !.revision = @ + 1,
                   !.status = IF Remaining(file, row') THEN "PARTIALLY_COMMITTED" ELSE "COMMITTED",
                   !.token = IF Remaining(file, row') THEN NewPreviewToken ELSE @]
  BY DEF CommitImport
<1> QED
  BY <1>1, <1>2, <1>3, <1>4, <1>5

\* The numbers the confirmed rows get.
LEMMA NumbersFit ==
    ASSUME ImportInv, NEW s \in Screens, NEW sel \in SUBSET Files, CommitImport(s, sel)
    PROVE  /\ records' \in Seq(Entry)
           /\ \A f \in sel \ Skipped(sel) : Number(records', row[f].value) \in 1..MaxRecords
<1> DEFINE more == NewEntries(s, sel)
<1>1. /\ records \in Seq(Entry) /\ Len(records) \in Nat
      /\ more \in Seq(Entry) /\ Len(more) \in Nat
  BY CommitEffect, NewEntriesAre, ImportTypes DEF ImportInv
<1>2. records' = records \o more /\ Len(records') <= MaxRecords
  BY CommitEffect
<1>3. /\ \A f \in Entered(sel) : \E i \in 1..Len(more) : more[i] = NewEntry(s, f)
  BY CommitEffect, NewEntriesAre
<1> HIDE DEF more
<1>4. /\ records' \in Seq(Entry) /\ Len(records') = Len(records) + Len(more)
      /\ DOMAIN records' = 1..Len(records')
      /\ \A i \in 1..Len(records) : records'[i] = records[i]
      /\ \A i \in 1..Len(more) : records'[Len(records) + i] = more[i]
  BY <1>1, <1>2
<1>5. ASSUME NEW f \in sel \ Skipped(sel) PROVE \E i \in DOMAIN records' : records'[i].value = row[f].value
  <2>1. CASE EntryOf(row[f].value) # {}
    <3>1. PICK i \in DOMAIN records : records[i].value = row[f].value
      BY <2>1 DEF EntryOf
    <3>2. i \in 1..Len(records) /\ i \in 1..Len(records')
      BY <1>1, <1>4, <3>1
    <3> QED
      BY <1>4, <3>1, <3>2
  <2>2. CASE EntryOf(row[f].value) = {}
    <3>1. PICK g \in Entered(sel) : row[g].value = row[f].value
      BY <2>2, ValuesAreEntered
    <3>2. PICK i \in 1..Len(more) : more[i] = NewEntry(s, g)
      BY <1>3
    <3>3. Len(records) + i \in 1..Len(records') /\ records'[Len(records) + i] = more[i]
      BY <1>1, <1>4
    <3>4. more[i].value = row[f].value
      BY <3>1, <3>2 DEF NewEntry
    <3> QED
      BY <1>4, <3>3, <3>4
  <2> QED
    BY <2>1, <2>2
<1>6. ASSUME NEW f \in sel \ Skipped(sel) PROVE Number(records', row[f].value) \in 1..MaxRecords
  <2>1. Number(records', row[f].value) \in DOMAIN records'
    BY <1>5 DEF Number
  <2>2. Number(records', row[f].value) \in 1..Len(records') /\ Len(records') \in Nat /\ MaxRecords \in Nat
    BY <1>4, <2>1, ImportAssumption
  <2> HIDE DEF Number
  <2> QED
    BY <1>2, <2>2
<1> QED
  BY <1>4, <1>6

LEMMA CommitStep ==
    ASSUME ImportInv, NEW s \in Screens, NEW sel \in SUBSET Files, CommitImport(s, sel)
    PROVE  ImportInv'
<1> DEFINE more == NewEntries(s, sel)
           n == Len(records)
           m == Len(more)
<1>0. /\ file \in [Files -> FileRow] /\ row \in [Files -> SheetRow] /\ work \in [Workers -> Files \cup {Nothing}]
      /\ batch \in [status : BatchStatus, revision : 0..MaxRevision, token : 0..MaxRevision, confirmed : BOOLEAN]
      /\ records \in Seq(Entry)
  BY ImportTypes DEF ImportInv
<1>1. /\ n \in Nat /\ m \in Nat /\ more \in Seq(Entry)
      /\ \A i \in 1..m : \E f \in Entered(sel) : more[i] = NewEntry(s, f) /\ InOrder(Entered(sel))[i] = f
      /\ \A i, j \in 1..m : i # j => InOrder(Entered(sel))[i] # InOrder(Entered(sel))[j]
  BY <1>0, CommitEffect, NewEntriesAre
<1>2. records' = records \o more /\ Len(records') <= MaxRecords
  BY CommitEffect
<1>3. row' = RowsAfter(sel, records')
  BY CommitEffect
<1>4. records' \in Seq(Entry) /\ \A f \in sel \ Skipped(sel) : Number(records', row[f].value) \in 1..MaxRecords
  BY NumbersFit
<1>5. screen[s].rows = row
  BY CommitEffect, ScreenIsCurrent
<1>6. \A f \in sel \ Skipped(sel) : row[f].status \in {"VALIDATED", "REVIEW_REQUIRED"} /\ f \in Files
  BY CommitEffect
<1>7. Entered(sel) \subseteq sel \ Skipped(sel)
  BY DEF Entered
<1> HIDE DEF more
<1>8. /\ n + m \in Nat /\ DOMAIN records = 1..n /\ DOMAIN records' = 1..(n + m)
      /\ \A i \in 1..n : records'[i] = records[i]
      /\ \A i \in 1..m : records'[n + i] = more[i]
      /\ \A i \in 1..(n + m) : i \in 1..n \/ \E j \in 1..m : i = n + j
  <2>1. \A i \in 1..(n + m) : i \in 1..n \/ (i - n \in 1..m /\ i = n + (i - n))
    BY <1>1
  <2> QED
    BY <1>0, <1>1, <1>2, <2>1
<1> HIDE DEF n, m
\* The rows.
<1>9. ASSUME NEW f \in Files
      PROVE  /\ row'[f] \in SheetRow
             /\ f \in Entered(sel) => row'[f].status = "ACCEPTED" /\ row'[f].entry # 0
             /\ row'[f] = row[f] \/ (f \in sel \ Skipped(sel) /\ row'[f].status \in {"ACCEPTED", "DUPLICATE"})
  <2> DEFINE k == Number(records', row[f].value)
             taken == [row[f] EXCEPT !.status = "ACCEPTED", !.reviewed = TRUE, !.entry = k]
             double == [row[f] EXCEPT !.status = "DUPLICATE", !.entry = k]
  <2>1. row'[f] = IF f \in Entered(sel) THEN taken ELSE IF f \in sel \ Skipped(sel) THEN double ELSE row[f]
    BY <1>3 DEF RowsAfter
  <2>2. ASSUME f \in sel \ Skipped(sel)
        PROVE  /\ taken \in SheetRow /\ taken.status = "ACCEPTED" /\ taken.entry # 0
               /\ double \in SheetRow /\ double.status = "DUPLICATE"
    <3>1. k \in 0..MaxRecords /\ k # 0
      <4>1. k \in 1..MaxRecords
        BY <1>4, <2>2
      <4> HIDE DEF k
      <4> QED
        BY <4>1
    <3> HIDE DEF k
    <3> QED
      BY <1>0, <3>1 DEF SheetRow, RowStatus
  <2> HIDE DEF taken, double
  <2> QED
    BY <1>0, <1>7, <2>1, <2>2
<1>10. row' \in [Files -> SheetRow]
  <2>1. DOMAIN row' = Files /\ row' = [f \in Files |-> row'[f]]
    BY <1>3 DEF RowsAfter
  <2> QED
    BY <1>9, <2>1
<1>11. \A f \in Files : AcceptedRow(f) => row'[f] = row[f]
  BY <1>6, <1>9 DEF AcceptedRow
<1>12. RowsAreMapped'
  BY <1>9 DEF ImportInv, RowsAreMapped
\* The entries.
<1>13. ASSUME NEW i \in 1..m
       PROVE  \E f \in Entered(sel) :
                 /\ InOrder(Entered(sel))[i] = f /\ f \in Files
                 /\ records'[n + i].origin = f /\ records'[n + i].edits = 0
                 /\ records'[n + i].value = row[f].value /\ records'[n + i].shown = row[f].value
  <2>1. PICK f \in Entered(sel) : more[i] = NewEntry(s, f) /\ InOrder(Entered(sel))[i] = f
    BY <1>1
  <2> QED
    BY <1>5, <1>6, <1>7, <1>8, <2>1 DEF NewEntry
<1>14. RowsAreEntered'
  <2> DEFINE Taken(f) == row'[f].status = "ACCEPTED" /\ row'[f].entry # 0
  <2> SUFFICES ASSUME NEW i \in DOMAIN records', records'[i].origin \in Files PROVE Taken(records'[i].origin)
    BY DEF RowsAreEntered, AcceptedRow
  <2>1. CASE i \in 1..n
    <3>1. records'[i].origin = records[i].origin /\ AcceptedRow(records[i].origin)
      BY <1>8, <2>1 DEF ImportInv, RowsAreEntered
    <3> QED
      BY <1>11, <3>1 DEF AcceptedRow
  <2>2. ASSUME NEW j \in 1..m, i = n + j PROVE Taken(records'[i].origin)
    <3>1. PICK f \in Entered(sel) : f \in Files /\ records'[i].origin = f
      BY <1>13, <2>2
    <3> QED
      BY <1>9, <3>1
  <2> QED
    BY <1>8, <2>1, <2>2
<1>15. ConfirmedAsShown'
  <2> SUFFICES ASSUME NEW i \in DOMAIN records', records'[i].edits = 0 PROVE records'[i].value = records'[i].shown
    BY DEF ConfirmedAsShown
  <2>1. CASE i \in 1..n
    BY <1>8, <2>1 DEF ImportInv, ConfirmedAsShown
  <2>2. ASSUME NEW j \in 1..m, i = n + j PROVE records'[i].value = records'[i].shown
    BY <1>13, <2>2
  <2> QED
    BY <1>8, <2>1, <2>2
<1>16. EntriesDiffer'
  <2> SUFFICES ASSUME NEW i \in DOMAIN records', NEW j \in DOMAIN records', i < j
               PROVE  /\ records'[i].origin # records'[j].origin
                      /\ records'[i].value = records'[j].value => records'[i].edits + records'[j].edits > 0
    BY DEF EntriesDiffer
  <2>1. CASE j \in 1..n
    <3>1. i \in 1..n
      BY <1>1, <1>8, <2>1 DEF n, m
    <3> QED
      BY <1>8, <2>1, <3>1 DEF ImportInv, EntriesDiffer
  <2>2. ASSUME i \in 1..n, NEW b \in 1..m, j = n + b
        PROVE  records'[i].origin # records'[j].origin /\ records'[i].value # records'[j].value
    <3>1. PICK f \in Entered(sel) : /\ f \in Files /\ records'[j].origin = f
                                    /\ records'[j].value = row[f].value
      BY <1>13, <2>2
    <3>2. EntryOf(row[f].value) = {}
      BY DEF Entered
    <3>3. ~ AcceptedRow(f)
      BY <1>6, <1>7 DEF AcceptedRow
    <3> QED
      BY <1>8, <2>2, <3>1, <3>2, <3>3 DEF ImportInv, RowsAreEntered, EntryOf
  <2>3. ASSUME NEW a \in 1..m, i = n + a, NEW b \in 1..m, j = n + b
        PROVE  records'[i].origin # records'[j].origin /\ records'[i].value # records'[j].value
    <3>1. a # b
      BY <1>8, <2>3
    <3>2. PICK f \in Entered(sel) : /\ InOrder(Entered(sel))[a] = f /\ f \in Files
                                    /\ records'[i].origin = f /\ records'[i].value = row[f].value
      BY <1>13, <2>3
    <3>3. PICK g \in Entered(sel) : /\ InOrder(Entered(sel))[b] = g /\ g \in Files
                                    /\ records'[j].origin = g /\ records'[j].value = row[g].value
      BY <1>13, <2>3
    <3>4. f # g
      BY <1>1, <3>1, <3>2, <3>3
    <3>5. f \in Nat /\ g \in Nat
      BY <3>2, <3>3, ImportAssumption
    <3>6. f < g \/ g < f
      BY <3>4, <3>5
    <3>7. row[f].value # row[g].value
      BY <3>6 DEF Entered
    <3> QED
      BY <3>2, <3>3, <3>4, <3>7
  <2>4. i \in 1..n \/ \E a \in 1..m : i = n + a
    BY <1>8
  <2>5. j \in 1..n \/ \E b \in 1..m : j = n + b
    BY <1>8
  <2> QED
    BY <2>1, <2>2, <2>3, <2>4, <2>5
\* The batch.
<1>17. /\ batch' \in [status : BatchStatus, revision : 0..MaxRevision, token : 0..MaxRevision, confirmed : BOOLEAN]
       /\ batch'.revision \in Nat /\ batch'.revision > batch.revision
       /\ batch'.status = IF Remaining(file, row') THEN "PARTIALLY_COMMITTED" ELSE "COMMITTED"
  <2>1. batch.revision \in Nat /\ batch.revision + 1 \in 0..MaxRevision
    <3>1. batch.revision \in 0..MaxRevision /\ batch.revision < MaxRevision /\ MaxRevision \in Nat
      BY <1>0, CommitEffect, ImportAssumption
    <3> QED
      BY <3>1
  <2> DEFINE st == IF Remaining(file, row') THEN "PARTIALLY_COMMITTED" ELSE "COMMITTED"
             tk == IF Remaining(file, row') THEN NewPreviewToken ELSE batch.token
  <2>2. st \in BatchStatus /\ tk \in 0..MaxRevision
    <3>1. NewPreviewToken \in 0..MaxRevision
      BY CommitEffect, NewToken
    <3> QED
      BY <1>0, <3>1 DEF BatchStatus
  <2>3. batch' = [batch EXCEPT !.confirmed = TRUE, !.revision = @ + 1, !.status = st, !.token = tk]
    BY CommitEffect
  <2> HIDE DEF st, tk
  <2>4. batch' \in [status : BatchStatus, revision : 0..MaxRevision, token : 0..MaxRevision, confirmed : BOOLEAN]
    BY <1>0, <2>1, <2>2, <2>3
  <2>5. batch'.revision = batch.revision + 1 /\ batch'.status = st
    BY <1>0, <2>3
  <2> QED
    BY <2>1, <2>4, <2>5 DEF st
<1>18. CommittedIsComplete'
  BY <1>17 DEF CommittedIsComplete, Remaining
<1>19. ScreensOK' /\ ShownIsRead'
  <2>1. screen' = [screen EXCEPT ![s] = Closed]
    BY CommitEffect
  <2>2. DOMAIN screen' = DOMAIN screen /\ \A t \in Screens : screen'[t] = screen[t] \/ screen'[t] = Closed
    BY <2>1 DEF ImportInv, ScreensOK
  <2>3. batch'.status # "none"
    BY <1>17
  <2> QED
    BY <1>17, <2>2, <2>3, ScreensFallBehind
<1>20. ImportTypeOK'
  <2>1. UNCHANGED <<file, work>>
    BY CommitEffect
  <2>2. \A t \in Screens : screen'[t].phase \in {"closed", "batch", "shown"}
    BY <1>19 DEF ScreensOK, Closed
  <2> QED
    BY <1>0, <1>2, <1>4, <1>10, <1>17, <2>1, <2>2 DEF ImportTypeOK, FileRow, SheetRow, Entry
<1> QED
  BY <1>12, <1>14, <1>15, <1>16, <1>18, <1>19, <1>20 DEF ImportInv

-----------------------------------------------------------------------------
(* Manual entries.                                                           *)

\* A step that touches the entries alone.
LEMMA EntriesChange ==
    ASSUME ImportInv, UNCHANGED <<batch, file, row, upload, work, screen>>,
           records' \in Seq(Entry), Len(records') <= MaxRecords,
           RowsAreEntered', ConfirmedAsShown', EntriesDiffer'
    PROVE  ImportInv'
<1>1. ScreensOK' /\ ShownIsRead' /\ RowsAreMapped' /\ CommittedIsComplete'
  BY DEF ImportInv, ScreensOK, ShownIsRead, RowsAreMapped, CommittedIsComplete
<1>2. ImportTypeOK'
  BY ImportTypes DEF ImportInv, ImportTypeOK, FileRow, SheetRow, Entry
<1> QED
  BY <1>1, <1>2 DEF ImportInv

LEMMA CreateEntryStep ==
    ASSUME ImportInv, NEW k \in Keys, NEW v \in Values, CreateEntry(k, v)
    PROVE  ImportInv'
<1> DEFINE e == [value |-> v, origin |-> k, shown |-> v, edits |-> 0, archived |-> FALSE]
           n == Len(records)
<1>0. records \in Seq(Entry) /\ n \in Nat /\ n < MaxRecords /\ MaxRecords \in Nat
  BY ImportTypes, ImportAssumption DEF ImportInv, CreateEntry
<1>1. e \in Entry
  <2>1. 0 \in 0..MaxEdits
    BY ImportAssumption
  <2> QED
    BY <2>1 DEF Entry
<1>2. records' = Append(records, e)
  BY DEF CreateEntry
<1>3. e.value = v /\ e.origin = k /\ e.shown = v /\ k \notin Files
  BY ImportAssumption
<1> HIDE DEF e
<1>4. /\ records' \in Seq(Entry) /\ Len(records') <= MaxRecords
      /\ DOMAIN records = 1..n /\ DOMAIN records' = 1..(n + 1)
      /\ \A i \in 1..n : records'[i] = records[i]
      /\ records'[n + 1] = e
  BY <1>0, <1>1, <1>2
<1>5. \A i \in 1..n : records[i].origin # k /\ records[i].value # v
  BY <1>4 DEF CreateEntry
<1> HIDE DEF n
<1>6. \A i \in 1..(n + 1) : i \in 1..n \/ i = n + 1
  BY <1>0
<1>7. UNCHANGED <<batch, file, row, upload, work, screen>>
  BY DEF CreateEntry
<1>8. RowsAreEntered'
  BY <1>3, <1>4, <1>6, <1>7 DEF ImportInv, RowsAreEntered, AcceptedRow
<1>9. ConfirmedAsShown'
  BY <1>3, <1>4, <1>6 DEF ImportInv, ConfirmedAsShown
<1>10. EntriesDiffer'
  <2> SUFFICES ASSUME NEW i \in DOMAIN records', NEW j \in DOMAIN records', i < j
               PROVE  /\ records'[i].origin # records'[j].origin
                      /\ records'[i].value = records'[j].value => records'[i].edits + records'[j].edits > 0
    BY DEF EntriesDiffer
  <2>1. i \in 1..n
    BY <1>0, <1>4
  <2>2. CASE j \in 1..n
    BY <1>4, <2>1, <2>2 DEF ImportInv, EntriesDiffer
  <2>3. CASE j = n + 1
    BY <1>3, <1>4, <1>5, <2>1, <2>3
  <2> QED
    BY <1>4, <1>6, <2>2, <2>3
<1> QED
  BY <1>4, <1>7, <1>8, <1>9, <1>10, EntriesChange

\* A step that rewrites one entry.
LEMMA RewriteStep ==
    ASSUME ImportInv, NEW i, ArchiveEntry(i) \/ \E v \in Values : EditEntry(i, v)
    PROVE  ImportInv'
<1>0. records \in Seq(Entry) /\ Len(records) <= MaxRecords /\ i \in DOMAIN records
  BY ImportTypes DEF ImportInv, ArchiveEntry, EditEntry
<1>1. UNCHANGED <<batch, file, row, upload, work, screen>>
  BY DEF ArchiveEntry, EditEntry
<1>2. \E e \in Entry :
         /\ records' = [records EXCEPT ![i] = e]
         /\ e.origin = records[i].origin /\ e.edits \in Nat /\ e.edits >= records[i].edits
         /\ e.edits = 0 => e.value = records[i].value /\ e.shown = records[i].shown
         /\ e.value # records[i].value => e.edits > 0
  <2>1. records[i] \in Entry /\ records[i].edits \in Nat /\ records[i].edits \in 0..MaxEdits
    <3>1. records[i] \in Entry
      BY <1>0
    <3> QED
      BY <3>1, ImportAssumption DEF Entry
  <2>2. CASE ArchiveEntry(i)
    <3> DEFINE e == [records[i] EXCEPT !.archived = ~@]
    <3>1. e \in Entry /\ e.origin = records[i].origin /\ e.edits = records[i].edits
          /\ e.value = records[i].value /\ e.shown = records[i].shown
      BY <2>1 DEF Entry
    <3>2. records' = [records EXCEPT ![i] = e]
      BY <2>2 DEF ArchiveEntry
    <3>3. e.edits \in Nat /\ e.edits >= records[i].edits
      BY <2>1, <3>1
    <3> HIDE DEF e
    <3> QED
      BY <3>1, <3>2, <3>3
  <2>3. ASSUME NEW v \in Values, EditEntry(i, v)
        PROVE  \E e \in Entry :
                  /\ records' = [records EXCEPT ![i] = e]
                  /\ e.origin = records[i].origin /\ e.edits \in Nat /\ e.edits > records[i].edits /\ e.edits > 0
    <3> DEFINE k == records[i].edits + 1
               e == [records[i] EXCEPT !.value = v, !.edits = k]
    <3>1. k \in 0..MaxEdits /\ k \in Nat /\ k > records[i].edits /\ k > 0
      <4>1. records[i].edits < MaxEdits
        BY <2>3 DEF EditEntry
      <4> QED
        BY <2>1, <4>1, ImportAssumption
    <3>2. records' = [records EXCEPT ![i] = e]
      BY <2>3 DEF EditEntry
    <3> HIDE DEF k
    <3>3. e \in Entry /\ e.origin = records[i].origin /\ e.edits = k
      BY <2>1, <3>1 DEF Entry
    <3> HIDE DEF e
    <3> QED
      BY <3>1, <3>2, <3>3
  <2>4. ASSUME NEW v \in Values, EditEntry(i, v)
        PROVE  \E e \in Entry :
         /\ records' = [records EXCEPT ![i] = e]
         /\ e.origin = records[i].origin /\ e.edits \in Nat /\ e.edits >= records[i].edits
         /\ e.edits = 0 => e.value = records[i].value /\ e.shown = records[i].shown
         /\ e.value # records[i].value => e.edits > 0
    <3>1. PICK e \in Entry :
                  /\ records' = [records EXCEPT ![i] = e]
                  /\ e.origin = records[i].origin /\ e.edits \in Nat /\ e.edits > records[i].edits /\ e.edits > 0
      BY <2>3, <2>4
    <3>2. e.edits >= records[i].edits /\ e.edits # 0
      BY <2>1, <3>1
    <3> QED
      BY <3>1, <3>2
  <2> QED
    BY <2>2, <2>4
<1>3. PICK e \in Entry :
         /\ records' = [records EXCEPT ![i] = e]
         /\ e.origin = records[i].origin /\ e.edits \in Nat /\ e.edits >= records[i].edits
         /\ e.edits = 0 => e.value = records[i].value /\ e.shown = records[i].shown
         /\ e.value # records[i].value => e.edits > 0
  BY <1>2
<1>4. /\ records' \in Seq(Entry) /\ Len(records') = Len(records) /\ DOMAIN records' = DOMAIN records
      /\ records'[i] = e /\ \A j \in DOMAIN records : j # i => records'[j] = records[j]
  BY <1>0, <1>3
<1>5. RowsAreEntered'
  BY <1>1, <1>3, <1>4 DEF ImportInv, RowsAreEntered, AcceptedRow
<1>6. ConfirmedAsShown'
  <2>1. e.edits = 0 => records[i].edits = 0
    <3>1. records[i].edits \in 0..MaxEdits
      <4>1. records[i] \in Entry
        BY <1>0
      <4> QED
        BY <4>1 DEF Entry
    <3> QED
      BY <1>3, <3>1
  <2> QED
    BY <1>3, <1>4, <2>1 DEF ImportInv, ConfirmedAsShown
<1>7. EntriesDiffer'
  <2> SUFFICES ASSUME NEW a \in DOMAIN records', NEW b \in DOMAIN records', a < b
               PROVE  /\ records'[a].origin # records'[b].origin
                      /\ records'[a].value = records'[b].value => records'[a].edits + records'[b].edits > 0
    BY DEF EntriesDiffer
  <2>1. /\ records[a].origin # records[b].origin
        /\ records[a].value = records[b].value => records[a].edits + records[b].edits > 0
    BY <1>4 DEF ImportInv, EntriesDiffer
  <2>2. ASSUME NEW c \in DOMAIN records
        PROVE  /\ records'[c].origin = records[c].origin
               /\ records[c].edits \in Nat /\ records'[c].edits \in Nat
               /\ records'[c].edits >= records[c].edits
               /\ records'[c].value # records[c].value => records'[c].edits > 0
    <3>1. records[c].edits \in 0..MaxEdits
      <4>1. records[c] \in Entry
        BY <1>0
      <4> QED
        BY <4>1 DEF Entry
    <3>2. records[c].edits \in Nat /\ records[c].edits >= records[c].edits
      BY <3>1
    <3> QED
      BY <1>3, <1>4, <3>2
  <2> DEFINE x == records[a].edits
             y == records[b].edits
             p == records'[a].edits
             q == records'[b].edits
  <2>3. x \in Nat /\ y \in Nat /\ p \in Nat /\ q \in Nat /\ p >= x /\ q >= y
    BY <1>4, <2>2
  <2>4. records'[a].value = records'[b].value => x + y > 0 \/ p > 0 \/ q > 0
    BY <1>4, <2>1, <2>2
  <2> HIDE DEF x, y, p, q
  <2>5. records'[a].value = records'[b].value => p + q > 0
    BY <2>3, <2>4
  <2>6. records'[a].origin # records'[b].origin
    BY <1>4, <2>1, <2>2
  <2> QED
    BY <2>5, <2>6 DEF p, q
<1>8. Len(records') <= MaxRecords
  BY <1>0, <1>4
<1> QED
  BY <1>1, <1>4, <1>5, <1>6, <1>7, <1>8, EntriesChange

-----------------------------------------------------------------------------
LEMMA ImportSteps == ImportInv /\ [ImportNext]_importVars => ImportInv'
<1> SUFFICES ASSUME ImportInv, [ImportNext]_importVars PROVE ImportInv'
  OBVIOUS
<1>1. CASE Uploading
  BY <1>1, CreateUploadStep, StorageSteps DEF Uploading
<1>2. CASE Extracting
  BY <1>2, ExtractStep, WorkerSteps, LeaseSteps DEF Extracting
<1>3. CASE Reviewing
  BY <1>3, ReadingSteps, RetryStep, PreviewStep, EditRowStep DEF Reviewing
<1>4. CASE Entering
  BY <1>4, CommitStep, CreateEntryStep, RewriteStep DEF Entering
<1>5. CASE UNCHANGED importVars
  <2>1. UNCHANGED <<batch, file, row, records, screen, work>>
    BY <1>5 DEF importVars
  <2>2. file' \in [Files -> FileRow] /\ work' \in [Workers -> Files \cup {Nothing}]
    BY <2>1, ImportTypes DEF ImportInv
  <2> QED
    BY <2>1, <2>2, FilesChange
<1> QED
  BY <1>1, <1>2, <1>3, <1>4, <1>5 DEF ImportNext

LEMMA ImportInvariance == ImportSpec => []ImportInv
  BY InitImport, ImportSteps, PTL DEF ImportSpec

\* A confirmation makes entries of what its screen showed (confirmImport of
\* procurement-ui.js, commitImport's revision and token checks).
THEOREM WhatWasShownIsConfirmed == ImportSpec => []ConfirmedAsShown
  BY ImportInvariance, InvHolds, PTL

\* The files, rows and entries of a batch agree: a row becomes one entry and a manual
\* request one, entries of one value were edited, and a committed batch has decided all
\* its rows (commitImport's fingerprint checks and hasRemaining).
THEOREM EntriesAgree == ImportSpec => []EntriesAreConsistent
  BY ImportInvariance, InvHolds, PTL
=============================================================================
