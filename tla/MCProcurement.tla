--------------------------- MODULE MCProcurement ----------------------------
(* A small instance of Procurement for TLC.  Focus explores two halves of    *)
(* the state space to the end instead of their product: two requests racing  *)
(* for the same record, with plain goods receipts, and everything that is    *)
(* bought and returned, with one request at a time that does not die.        *)
EXTENDS Procurement, TLC

Symmetry == Permutations(Requests) \cup Permutations(Suppliers)

Busy == {p \in Requests : request[p] # Idle}
Racing ==
    /\ \A p, q \in Busy : request[p].doc = request[q].doc
    /\ Cardinality(stranded) <= 1
    /\ \A f \in Rfqs : rfq[f].status = "none"
    /\ \A s \in Suppliers : active[s]
    /\ Cardinality({source[o].supplier : o \in Orders} \ {None}) <= 1
    /\ \A g \in Receipts : goods[g].status # "none" => g = 1 /\ goods[g].status = "PENDING_INSPECTION"
    /\ \A i \in Instances : instance[i].status \notin {"BLOCKED_ASSIGNMENT", "REJECTED"}
    /\ \A t \in Returns : back[t].status = "none"
Buying ==
    /\ Cardinality(Busy) <= 1 /\ stranded = {} /\ revived = {}
    /\ \A p \in Busy : request[p].phase # "cancel"
    /\ \A i \in Instances : instance[i].status \in
          {"none", "PENDING", "APPROVED"} \cup (IF i = 1 THEN {"BLOCKED_ASSIGNMENT", "REJECTED"} ELSE {})
    /\ \A d \in Docs : doc[d].status # "CANCELLED"
Focus == Racing \/ Buying
=============================================================================
