---------------------------- MODULE Procurement -----------------------------
(* Requisitions, supplier RFQs, purchase orders, goods receipts, inspections, *)
(* returns and credit notes (procurementService.js), with the approval       *)
(* requests they start.  A requisition or an order is approved by a workflow *)
(* instance, of which this module keeps only what workflowService promises:  *)
(* an open instance is decided once, and a record has at most one open.      *)
(*                                                                           *)
(* Submitting and cancelling are not transactions: each HTTP request reads   *)
(* the record, calls the workflow in a transaction of its own and then       *)
(* writes the record, so every one of their database steps is an action of   *)
(* the request `p` and other requests run between them.  All the other       *)
(* operations are one transaction under row locks and are one action.        *)
(* A record has one line; prices are one per unit.                           *)
EXTENDS Naturals, FiniteSets, Functions

CONSTANTS Requisitions, Orders,      \* ids, given out in ascending order
          Rfqs, Receipts, Returns, Instances,
          Suppliers, Requests,
          MaxQuantity,
          None

ASSUME IdsAssumption ==
    /\ \A S \in {Rfqs, Receipts, Returns, Instances} : S \subseteq Nat /\ IsFiniteSet(S)
    /\ Requisitions \subseteq Nat /\ Orders \subseteq Nat /\ IsFiniteSet(Orders)
    /\ Requisitions \cap Orders = {}
    /\ None \notin Requisitions \cup Orders \cup Rfqs \cup Receipts \cup Instances \cup Suppliers
    /\ MaxQuantity \in Nat

VARIABLES
    doc,        \* purchase_requisitions, purchase_orders: status and approval_instance_id
    line,       \* quantity, and what of it was received and returned
    source,     \* the requisition and the supplier of an order
    instance,   \* workflow_instances
    request,    \* HTTP requests inside submit... or cancel...
    rfq, goods, back, active,
    stranded,   \* <<d, None>>: d was left in SUBMITTING; <<d, i>>: d's instance i was left unlinked
    revived     \* records that left CANCELLED

docs == <<doc, line, source>>
later == <<rfq, goods, back, active>>
vars == <<doc, line, source, instance, request, rfq, goods, back, active, stranded, revived>>

Docs == Requisitions \cup Orders
Open == {"PENDING", "BLOCKED_ASSIGNMENT"}
WorkflowStatus == Open \cup {"APPROVED", "REJECTED", "NEEDS_CHANGES", "CANCELLED"}
RequisitionStatus == {"none", "DRAFT", "SUBMITTING", "CANCELLED", "SOURCING", "ORDER_DRAFTED"} \cup Open
OrderStatus == {"none", "DRAFT", "SUBMITTING", "CANCELLED", "PART_RECEIVED", "RECEIVED"} \cup Open
\* REQUISITION_ACTIVE and PO_ACTIVE, against the workflow's status or the record's own.
Active == {"DRAFT", "PENDING_APPROVAL", "NEEDS_CHANGES"} \cup Open
Phases == {"claim", "start", "undo", "link", "withdraw", "cancel"}
Idle == [phase |-> "idle"]

Init ==
    /\ doc = [d \in Docs |-> [status |-> "none", instance |-> None]]
    /\ line = [d \in Docs |-> [quantity |-> 0, received |-> 0, returned |-> 0]]
    /\ source = [o \in Orders |-> [requisition |-> None, supplier |-> None, rfq |-> None]]
    /\ instance = [i \in Instances |-> [doc |-> None, status |-> "none"]]
    /\ request = [p \in Requests |-> Idle]
    /\ rfq = [f \in Rfqs |-> [requisition |-> None, status |-> "none", invite |-> [s \in Suppliers |-> "none"]]]
    /\ goods = [g \in Receipts |-> [order |-> None, quantity |-> 0, status |-> "none", accepted |-> 0]]
    /\ back = [t \in Returns |-> [receipt |-> None, quantity |-> 0, status |-> "none", credit |-> 0]]
    /\ active = [s \in Suppliers |-> TRUE]
    /\ stranded = {} /\ revived = {}

\* AUTO_INCREMENT: the lowest id whose row is not there yet.
NextId(S, Taken(_)) == {n \in S : ~Taken(n) /\ \A m \in S : m < n => Taken(m)}
\* activeWorkflowStatus
WfStatus(d) == IF doc[d].instance = None THEN "none" ELSE instance[doc[d].instance].status
Approved(d) == WfStatus(d) = "APPROVED"
-----------------------------------------------------------------------------
(* Submitting a requisition or an order.                                     *)

\* The record is read; `was` and `inst` are what the rest of the call believes.
SubmitRead(p, d) ==
    /\ request[p] = Idle
    /\ doc[d].status # "none"
    /\ doc[d].status = "DRAFT" \/ WfStatus(d) = "NEEDS_CHANGES"
    /\ request' = [request EXCEPT ![p] = [phase |-> "claim", doc |-> d, was |-> doc[d].status,
                                          inst |-> doc[d].instance, new |-> None, opened |-> "none"]]
    /\ UNCHANGED <<docs, later, instance, stranded, revived>>

Unmoved(p) ==
    LET c == request[p] IN doc[c.doc] = [status |-> c.was, instance |-> c.inst]

Write(d, status, inst) ==
    /\ doc' = [doc EXCEPT ![d] = [status |-> status, instance |-> inst]]
    /\ revived' = IF doc[d].status = "CANCELLED" /\ status # "CANCELLED" THEN revived \cup {d} ELSE revived

\* Mutant: the claim does not compare what was read.
SubmitClaimBlind(p) ==
    /\ request[p].phase = "claim"
    /\ Write(request[p].doc, "SUBMITTING", request[p].inst)
    /\ request' = [request EXCEPT ![p].phase = "start"]
    /\ UNCHANGED <<line, source, later, instance, stranded>>

\* UPDATE ... SET status = 'SUBMITTING' WHERE status = ? AND approval_instance_id = ?
\* Not inside the try: when its answer is lost nothing puts the status back.
SubmitClaim(p) ==
    /\ request[p].phase = "claim"
    /\ IF Unmoved(p)
       THEN /\ Write(request[p].doc, "SUBMITTING", request[p].inst)
            /\ LET own == IF request[p].was = "SUBMITTING" THEN {} ELSE {<<request[p].doc, None>>}
               IN \/ /\ request' = [request EXCEPT ![p].phase = "start"]
                     /\ stranded' = stranded \ own
                  \/ /\ request' = [request EXCEPT ![p] = Idle]
                     /\ stranded' = stranded \cup own
       ELSE /\ request' = [request EXCEPT ![p] = Idle]
            /\ UNCHANGED <<doc, stranded, revived>>
    /\ UNCHANGED <<line, source, later, instance>>

\* startWorkflow: a new instance unless the record has an open one, or it fails;
\* or its COMMIT succeeds and the answer is lost.
SubmitStart(p) ==
    /\ request[p].phase = "start"
    /\ \/ /\ request' = [request EXCEPT ![p].phase = "undo"]
          /\ UNCHANGED <<instance, stranded>>
       \/ /\ \A i \in Instances : instance[i].doc = request[p].doc => instance[i].status \notin Open
          /\ \E i \in NextId(Instances, LAMBDA n : instance[n].doc # None), status \in Open :
                /\ instance' = [instance EXCEPT ![i] = [doc |-> request[p].doc, status |-> status]]
                /\ \/ /\ request' = [request EXCEPT ![p].phase = "link", ![p].new = i, ![p].opened = status]
                      /\ UNCHANGED stranded
                   \/ /\ request' = [request EXCEPT ![p].phase = "undo"]
                      /\ stranded' = stranded \cup {<<request[p].doc, i>>}
    /\ UNCHANGED <<docs, later, revived>>

\* WHERE status = 'SUBMITTING' AND approval_instance_id = ?
ClaimStands(p) ==
    LET c == request[p] IN doc[c.doc] = [status |-> "SUBMITTING", instance |-> c.inst]

\* What a request leaves in SUBMITTING that ends without putting the status back.
Left(p) == IF ClaimStands(p) /\ request[p].was # "SUBMITTING" THEN {<<request[p].doc, None>>} ELSE {}

\* The catch block puts the status back if the claim still stands; when that
\* UPDATE fails the failure is swallowed.
SubmitUndo(p) ==
    /\ request[p].phase = "undo"
    /\ \/ /\ IF ClaimStands(p) THEN Write(request[p].doc, request[p].was, request[p].inst)
                              ELSE UNCHANGED <<doc, revived>>
          /\ UNCHANGED stranded
       \/ /\ stranded' = stranded \cup Left(p)
          /\ UNCHANGED <<doc, revived>>
    /\ request' = [request EXCEPT ![p] = Idle]
    /\ UNCHANGED <<line, source, later, instance>>

\* UPDATE ... SET status = ?, approval_instance_id = ? WHERE id = ?
\* It fails, or its answer is lost: the catch block puts the status back, if it can,
\* and the instance stays open.
SubmitLink(p) ==
    /\ request[p].phase = "link"
    /\ \/ /\ Write(request[p].doc, request[p].opened, request[p].new)
          /\ request' = [request EXCEPT ![p] = Idle] \/ request' = [request EXCEPT ![p].phase = "undo"]
          /\ UNCHANGED stranded
       \/ /\ request' = [request EXCEPT ![p].phase = "undo"]
          /\ stranded' = stranded \cup {<<request[p].doc, request[p].new>>}
          /\ UNCHANGED <<doc, revived>>
    /\ UNCHANGED <<line, source, later, instance>>

SubmitRequisition(p) == (\E d \in Requisitions : SubmitRead(p, d))
SubmitPurchaseOrder(p) == (\E d \in Orders : SubmitRead(p, d))
SubmitStep(p) == SubmitClaim(p) \/ SubmitStart(p) \/ SubmitUndo(p) \/ SubmitLink(p)
-----------------------------------------------------------------------------
(* Cancelling: a first transaction decides, the workflow is withdrawn in one *)
(* of its own, a third transaction compares and writes.                      *)

CancelRead(p, d) ==
    /\ request[p] = Idle
    /\ doc[d].status \notin {"none", "CANCELLED"}
    /\ (IF doc[d].instance = None THEN doc[d].status ELSE WfStatus(d)) \in Active
    /\ request' = [request EXCEPT ![p] =
          [phase |-> IF WfStatus(d) \in Open THEN "withdraw" ELSE "cancel",
           doc |-> d, was |-> doc[d].status, inst |-> doc[d].instance,
           new |-> None, opened |-> "none"]]
    /\ UNCHANGED <<docs, later, instance, stranded, revived>>

\* cancelWorkflow refuses an instance that was decided meanwhile, and the call fails.
CancelWithdraw(p) ==
    /\ request[p].phase = "withdraw"
    /\ LET i == request[p].inst
       IN IF instance[i].status \in Open \cup {"NEEDS_CHANGES"}
          THEN /\ instance' = [instance EXCEPT ![i].status = "CANCELLED"]
               /\ request' = [request EXCEPT ![p].phase = "cancel"]
          ELSE /\ request' = [request EXCEPT ![p] = Idle]
               /\ UNCHANGED instance
    /\ UNCHANGED <<docs, later, stranded, revived>>

CancelRecord(p) ==
    /\ request[p].phase = "cancel"
    /\ IF Unmoved(p) THEN Write(request[p].doc, "CANCELLED", request[p].inst)
                     ELSE UNCHANGED <<doc, revived>>
    /\ request' = [request EXCEPT ![p] = Idle]
    /\ UNCHANGED <<line, source, later, instance, stranded>>

CancelRequisition(p) == (\E d \in Requisitions : CancelRead(p, d))
CancelPurchaseOrder(p) == (\E d \in Orders : CancelRead(p, d))
CancelStep(p) == CancelWithdraw(p) \/ CancelRecord(p)

\* The server stops inside a request, or a step of cancelling fails.
RequestDies(p) ==
    /\ request[p] # Idle
    /\ request' = [request EXCEPT ![p] = Idle]
    /\ stranded' = stranded
         \cup (IF request[p].phase \in {"start", "undo", "link"} THEN Left(p) ELSE {})
         \cup (IF request[p].phase = "link" THEN {<<request[p].doc, request[p].new>>} ELSE {})
    /\ UNCHANGED <<docs, later, instance, revived>>

\* Approvers and requesters act on the instance itself (actionWorkflow,
\* cancelWorkflow, reassignWorkflow); a decision is final.
Decide(i) ==
    /\ \/ /\ instance[i].status = "PENDING"
          /\ \E s \in {"APPROVED", "REJECTED", "NEEDS_CHANGES"} :
                instance' = [instance EXCEPT ![i].status = s]
       \/ /\ instance[i].status = "BLOCKED_ASSIGNMENT"
          /\ instance' = [instance EXCEPT ![i].status = "PENDING"]
       \/ /\ instance[i].status \in Open \cup {"NEEDS_CHANGES"}
          /\ instance' = [instance EXCEPT ![i].status = "CANCELLED"]
    /\ UNCHANGED <<docs, request, later, stranded, revived>>
-----------------------------------------------------------------------------
(* Requisitions and sourcing.                                                *)

CreateRequisition(r, q) ==
    /\ r \in NextId(Requisitions, LAMBDA n : doc[n].status # "none")
    /\ doc' = [doc EXCEPT ![r].status = "DRAFT"]
    /\ line' = [line EXCEPT ![r].quantity = q]
    /\ UNCHANGED <<source, instance, request, later, stranded, revived>>

\* Only an approved requisition is sourced, and only from suppliers not archived.
CreateSupplierRfq(f, r, chosen) ==
    /\ f \in NextId(Rfqs, LAMBDA n : rfq[n].status # "none")
    /\ chosen # {} /\ \A s \in chosen : active[s]
    /\ Approved(r)
    /\ rfq' = [rfq EXCEPT ![f] = [requisition |-> r, status |-> "OPEN",
                                  invite |-> [s \in Suppliers |-> IF s \in chosen THEN "INVITED" ELSE "none"]]]
    /\ Write(r, "SOURCING", doc[r].instance)
    /\ UNCHANGED <<line, source, instance, request, goods, back, active, stranded>>

RecordSupplierResponse(f, s) ==
    /\ rfq[f].status = "OPEN" /\ rfq[f].invite[s] # "none"
    /\ rfq' = [rfq EXCEPT ![f].invite[s] = "RESPONDED"]
    /\ UNCHANGED <<docs, instance, request, goods, back, active, stranded, revived>>

\* With a supplier that responded the RFQ is awarded to it, without it is closed.
CloseSupplierRfq(f, s) ==
    /\ rfq[f].status = "OPEN"
    /\ s # None => rfq[f].invite[s] = "RESPONDED"
    /\ rfq' = [rfq EXCEPT
         ![f].status = IF s = None THEN "CLOSED" ELSE "AWARDED",
         ![f].invite = [x \in Suppliers |->
              IF s = None THEN @[x] ELSE IF x = s THEN "SELECTED"
              ELSE IF @[x] = "RESPONDED" THEN "NOT_SELECTED" ELSE @[x]]]
    /\ UNCHANGED <<docs, instance, request, goods, back, active, stranded, revived>>

RemoveSupplier(s) ==
    /\ active[s] /\ active' = [active EXCEPT ![s] = FALSE]
    /\ UNCHANGED <<docs, instance, request, rfq, goods, back, stranded, revived>>

RestoreSupplier(s) ==
    /\ ~active[s] /\ active' = [active EXCEPT ![s] = TRUE]
    /\ UNCHANGED <<docs, instance, request, rfq, goods, back, stranded, revived>>
-----------------------------------------------------------------------------
(* Ordering, receiving, inspecting and returning.                            *)

\* Mutant: an order takes nothing of its requisition until it is submitted.
LiveOrdersSubmitted(r) ==
    {o \in Orders : source[o].requisition = r /\ doc[o].status \notin {"DRAFT", "CANCELLED"}}

\* The orders of a requisition that are not cancelled, and what they take of it.
LiveOrders(r) == {o \in Orders : source[o].requisition = r /\ doc[o].status # "CANCELLED"}
OrderedQuantity(os) == SumFunctionOnSet([o \in Orders |-> line[o].quantity], os)

CreatePurchaseOrder(o, r, s, f, q) ==
    /\ o \in NextId(Orders, LAMBDA n : doc[n].status # "none")
    /\ Approved(r) /\ active[s]
    /\ OrderedQuantity(LiveOrders(r)) + q <= line[r].quantity
    /\ f # None => rfq[f].requisition = r /\ rfq[f].invite[s] = "SELECTED"
    /\ doc' = [doc EXCEPT ![o].status = "DRAFT", ![r].status = "ORDER_DRAFTED"]
    /\ line' = [line EXCEPT ![o].quantity = q]
    /\ source' = [source EXCEPT ![o] = [requisition |-> r, supplier |-> s, rfq |-> f]]
    /\ revived' = IF doc[r].status = "CANCELLED" THEN revived \cup {r} ELSE revived
    /\ UNCHANGED <<instance, request, later, stranded>>

\* Mutant: any open approval request will do.
ReceiveGoodsEarly(g, o, q) ==
    /\ g \in NextId(Receipts, LAMBDA n : goods[n].status # "none")
    /\ doc[o].status # "CANCELLED" /\ WfStatus(o) # "none"
    /\ q > 0 /\ line[o].received + q <= line[o].quantity
    /\ goods' = [goods EXCEPT ![g] = [order |-> o, quantity |-> q, status |-> "PENDING_INSPECTION", accepted |-> 0]]
    /\ line' = [line EXCEPT ![o].received = @ + q]
    /\ Write(o, IF line[o].received + q < line[o].quantity THEN "PART_RECEIVED" ELSE "RECEIVED", doc[o].instance)
    /\ UNCHANGED <<source, instance, request, rfq, back, active, stranded>>

ReceiveGoods(g, o, q) ==
    /\ g \in NextId(Receipts, LAMBDA n : goods[n].status # "none")
    /\ doc[o].status # "CANCELLED" /\ Approved(o)
    /\ q > 0 /\ line[o].received + q <= line[o].quantity
    /\ goods' = [goods EXCEPT ![g] = [order |-> o, quantity |-> q, status |-> "PENDING_INSPECTION", accepted |-> 0]]
    /\ line' = [line EXCEPT ![o].received = @ + q]
    /\ Write(o, IF line[o].received + q < line[o].quantity THEN "PART_RECEIVED" ELSE "RECEIVED", doc[o].instance)
    /\ UNCHANGED <<source, instance, request, rfq, back, active, stranded>>

\* Mutant: the inspection result is written as it was entered.
InspectReceiptRaw(g, accepted) ==
    /\ goods[g].status = "PENDING_INSPECTION"
    /\ goods' = [goods EXCEPT ![g].accepted = accepted, ![g].status = "PASS"]
    /\ UNCHANGED <<docs, instance, request, rfq, back, active, stranded, revived>>

\* Accepted and rejected add up to the receipt; the result follows from them.
InspectReceipt(g, accepted) ==
    /\ goods[g].status = "PENDING_INSPECTION" /\ accepted <= goods[g].quantity
    /\ goods' = [goods EXCEPT
         ![g].accepted = accepted,
         ![g].status = IF accepted = goods[g].quantity THEN "ACCEPTED"
                       ELSE IF accepted = 0 THEN "REJECTED" ELSE "PARTIALLY_ACCEPTED"]
    /\ UNCHANGED <<docs, instance, request, rfq, back, active, stranded, revived>>

\* Mutant: the receipt alone limits what can go back.
ReturnableAgain(g) == goods[g].quantity

\* What can go back of a receipt: the receipt less everything the order line returned.
Returnable(g) ==
    LET o == goods[g].order
    IN IF goods[g].quantity > line[o].returned THEN goods[g].quantity - line[o].returned ELSE 0

CreatePurchaseReturn(t, g, q) ==
    /\ t \in NextId(Returns, LAMBDA n : back[n].status # "none")
    /\ goods[g].status # "none"
    /\ q > 0 /\ q <= Returnable(g)
    /\ back' = [back EXCEPT ![t] = [receipt |-> g, quantity |-> q, status |-> "CREDIT_PENDING", credit |-> 0]]
    /\ line' = [line EXCEPT ![goods[g].order].returned = @ + q]
    /\ UNCHANGED <<doc, source, instance, request, rfq, goods, active, stranded, revived>>

RecordCreditNote(t, amount) ==
    /\ back[t].status = "CREDIT_PENDING"
    /\ amount > 0 /\ amount <= back[t].quantity
    /\ back' = [back EXCEPT ![t].status = "CREDIT_RECEIVED", ![t].credit = amount]
    /\ UNCHANGED <<docs, instance, request, rfq, goods, active, stranded, revived>>
-----------------------------------------------------------------------------
Sourcing ==
    \/ \E r \in Requisitions, q \in 1..MaxQuantity : CreateRequisition(r, q)
    \/ \E f \in Rfqs, r \in Requisitions, c \in SUBSET Suppliers : CreateSupplierRfq(f, r, c)
    \/ \E f \in Rfqs, s \in Suppliers : RecordSupplierResponse(f, s)
    \/ \E f \in Rfqs, s \in Suppliers \cup {None} : CloseSupplierRfq(f, s)
    \/ \E s \in Suppliers : RemoveSupplier(s) \/ RestoreSupplier(s)

Ordering ==
    \/ \E o \in Orders, r \in Requisitions, s \in Suppliers, f \in Rfqs \cup {None}, q \in 1..MaxQuantity :
          CreatePurchaseOrder(o, r, s, f, q)
    \/ \E g \in Receipts, o \in Orders, q \in 1..MaxQuantity : ReceiveGoods(g, o, q)
    \/ \E g \in Receipts, a \in 0..MaxQuantity : InspectReceipt(g, a)
    \/ \E t \in Returns, g \in Receipts, q \in 1..MaxQuantity : CreatePurchaseReturn(t, g, q)
    \/ \E t \in Returns, a \in 1..MaxQuantity : RecordCreditNote(t, a)

Approving ==
    \/ \E p \in Requests : \/ SubmitRequisition(p) \/ SubmitPurchaseOrder(p) \/ SubmitStep(p)
                           \/ CancelRequisition(p) \/ CancelPurchaseOrder(p) \/ CancelStep(p)
                           \/ RequestDies(p)
    \/ \E i \in Instances : Decide(i)

Next == Sourcing \/ Ordering \/ Approving
Spec == Init /\ [][Next]_vars
-----------------------------------------------------------------------------
TypeOK ==
    /\ doc \in [Docs -> [status : RequisitionStatus \cup OrderStatus, instance : Instances \cup {None}]]
    /\ line \in [Docs -> [quantity : 0..MaxQuantity, received : 0..MaxQuantity, returned : 0..MaxQuantity]]
    /\ source \in [Orders -> [requisition : Requisitions \cup {None}, supplier : Suppliers \cup {None},
                              rfq : Rfqs \cup {None}]]
    /\ instance \in [Instances -> [doc : Docs \cup {None}, status : WorkflowStatus \cup {"none"}]]
    /\ \A p \in Requests : request[p] = Idle \/ request[p] \in
          [phase : Phases, doc : Docs, was : RequisitionStatus \cup OrderStatus,
           inst : Instances \cup {None}, new : Instances \cup {None}, opened : Open \cup {"none"}]
    /\ rfq \in [Rfqs -> [requisition : Requisitions \cup {None}, status : {"none", "OPEN", "CLOSED", "AWARDED"},
                 invite : [Suppliers -> {"none", "INVITED", "RESPONDED", "SELECTED", "NOT_SELECTED"}]]]
    /\ goods \in [Receipts -> [order : Orders \cup {None}, quantity : 0..MaxQuantity, accepted : 0..MaxQuantity,
                 status : {"none", "PENDING_INSPECTION", "ACCEPTED", "REJECTED", "PARTIALLY_ACCEPTED"}]]
    /\ back \in [Returns -> [receipt : Receipts \cup {None}, quantity : 0..MaxQuantity, credit : 0..MaxQuantity,
                 status : {"none", "CREDIT_PENDING", "CREDIT_RECEIVED"}]]
    /\ active \in [Suppliers -> BOOLEAN]
    /\ stranded \subseteq Docs \X (Instances \cup {None}) /\ revived \subseteq Docs

EverApproved(d) == \E i \in Instances : instance[i] = [doc |-> d, status |-> "APPROVED"]

\* Nothing is bought that was not approved: an order exists only under a requisition
\* an approver accepted, goods were received only on an order an approver accepted,
\* and an order placed on an RFQ went to its one selected supplier - whatever
\* submissions, cancellations and stale writes ran between the approvals and now.
SpendIsApproved ==
    \A o \in Orders :
        /\ source[o].requisition # None => EverApproved(source[o].requisition)
        /\ line[o].received > 0 => EverApproved(o)
        /\ source[o].rfq # None =>
              {s \in Suppliers : rfq[source[o].rfq].invite[s] = "SELECTED"} = {source[o].supplier}

\* The orders of a requisition never ask for more than was requisitioned, except
\* through an order that was cancelled - which frees its quantity - and came back.
OrderedWithinRequest ==
    \A r \in Requisitions : OrderedQuantity(LiveOrders(r) \ revived) <= line[r].quantity

\* Receipts and order lines tell the same story: what the line says was received is
\* what its receipts say, never more than was ordered, an inspected receipt is split
\* without loss, and what is returned was received; and no more was ordered than asked for.
GoodsBalance ==
    /\ TypeOK
    /\ OrderedWithinRequest
    /\ \A o \in Orders :
        LET gs == {g \in Receipts : goods[g].order = o}
            ts == {t \in Returns : back[t].receipt \in gs}
        IN /\ line[o].received = SumFunctionOnSet([g \in Receipts |-> goods[g].quantity], gs)
           /\ line[o].returned = SumFunctionOnSet([t \in Returns |-> back[t].quantity], ts)
           /\ line[o].returned <= line[o].received /\ line[o].received <= line[o].quantity
    /\ \A t \in Returns : back[t].credit <= back[t].quantity

Submitters(d) ==
    {p \in Requests : request[p] # Idle /\ request[p].phase \in {"start", "undo", "link"} /\ request[p].doc = d}

\* A submission happens as a whole or says what it left.  A record is in SUBMITTING
\* only because of a request still running, or because one stopped half way: it
\* died, or an UPDATE of it failed or went unanswered.  A workflow that refuses
\* leaves no record there.  A first submission is that of one request, and an approval
\* request the record does not know of is about to be linked to it, or was left by a
\* submission that stopped half way.
SubmissionsAreWhole ==
    \A d \in Docs :
        /\ doc[d].status = "SUBMITTING" => <<d, None>> \in stranded \/ Submitters(d) # {}
        /\ doc[d].instance = None =>
              /\ \A p, q \in Submitters(d) : p = q
              /\ \A i \in Instances : instance[i].doc = d =>
                    \/ <<d, i>> \in stranded
                    \/ \E p \in Submitters(d) : request[p].phase = "link" /\ request[p].new = i

\* cancelRequisition and cancelPurchaseOrder end a record; the check before them says
\* that only a draft or a returned record can be submitted.
CancelledIsFinal == [][\A d \in Docs : doc[d].status = "CANCELLED" => doc'[d].status = "CANCELLED"]_vars

\* procurementService.js: "Received or completed purchase orders cannot be cancelled".
ReceivedIsNotCancelled == \A o \in Orders : doc[o].status = "CANCELLED" => line[o].received = 0
=============================================================================
