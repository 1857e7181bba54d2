----------------------------- MODULE Inventory ------------------------------
(* Product stock (stockController.js) and the material register              *)
(* (materialController.js).  Every handler is one transaction that locks the *)
(* rows it writes, so every handler is one action.  A stock batch keeps a    *)
(* running balance next to the list of its issues; nothing recomputes it.    *)
(* Clients may send an issue again with the same retry key.                  *)
EXTENDS Naturals, Sequences, FiniteSets, SequencesExt, Functions

CONSTANTS Batches, Issues, Materials,  \* ids, given out in ascending order
          RetryKeys, NoKey,
          MaxUnits,                    \* bound: quantities
          MaxMoves                     \* bound: entries of one material's log

ASSUME InventoryAssumption ==
    /\ Batches \subseteq Nat /\ Issues \subseteq Nat /\ Materials \subseteq Nat
    /\ IsFiniteSet(Issues) /\ NoKey \notin RetryKeys
    /\ MaxUnits \in Nat /\ MaxMoves \in Nat

VARIABLES
    batch,     \* stock_batches
    issue,     \* stock_movements
    material   \* material_inventory, with material_movements as a log

stockVars == <<batch, issue>>
inventoryVars == <<batch, issue, material>>

Units == 0..MaxUnits
NoBatch == [state |-> "none", units |-> 0, current |-> 0]
NoIssue == [state |-> "none", batch |-> 0, quantity |-> 0, key |-> NoKey]
NoMaterial == [state |-> "none", input |-> 0, current |-> 0, log |-> <<>>]

InventoryInit ==
    /\ batch = [b \in Batches |-> NoBatch]
    /\ issue = [i \in Issues |-> NoIssue]
    /\ material = [x \in Materials |-> NoMaterial]

\* AUTO_INCREMENT: the lowest id without a row.
Fresh(table) == {n \in DOMAIN table : table[n].state = "none" /\ \A k \in DOMAIN table : k < n => table[k].state # "none"}
-----------------------------------------------------------------------------
CreateBatch(b, n) ==
    /\ b \in Fresh(batch)
    /\ batch' = [batch EXCEPT ![b] = [state |-> "live", units |-> n, current |-> n]]
    /\ UNCHANGED <<issue, material>>

\* Mutant: the balance is set to the quantity that was entered.
EditBatchResets(b, n) ==
    /\ batch[b].state = "live"
    /\ batch' = [batch EXCEPT ![b].units = n, ![b].current = n]
    /\ UNCHANGED <<issue, material>>

\* Mutant: the new quantity is not compared with what was issued.
EditBatchBelow(b, n) ==
    /\ batch[b].state = "live"
    /\ batch' = [batch EXCEPT ![b].units = n, ![b].current = n - (batch[b].units - batch[b].current)]
    /\ UNCHANGED <<issue, material>>

\* The quantity may be corrected, but not below what was issued.
EditBatch(b, n) ==
    /\ batch[b].state = "live"
    /\ LET issued == batch[b].units - batch[b].current
       IN /\ n >= issued
          /\ batch' = [batch EXCEPT ![b].units = n, ![b].current = n - issued]
    /\ UNCHANGED <<issue, material>>

ArchiveBatch(b) ==
    /\ batch[b].state = "live" /\ batch' = [batch EXCEPT ![b].state = "archived"]
    /\ UNCHANGED <<issue, material>>

RestoreBatch(b) ==
    /\ batch[b].state = "archived" /\ batch' = [batch EXCEPT ![b].state = "live"]
    /\ UNCHANGED <<issue, material>>

\* The key is on some issue already: the same issue is answered again, another one refused.
Used(key) == key # NoKey /\ \E i \in Issues : issue[i].key = key

IssueStock(i, b, n, key) ==
    /\ batch[b].state = "live" /\ ~Used(key)
    /\ n > 0 /\ n <= batch[b].current
    /\ i \in Fresh(issue)
    /\ issue' = [issue EXCEPT ![i] = [state |-> "issued", batch |-> b, quantity |-> n, key |-> key]]
    /\ batch' = [batch EXCEPT ![b].current = @ - n]
    /\ UNCHANGED material

\* lockMovementStocks: the batches of a correction are live and the balance adds up.
Correctable(i, b) ==
    /\ issue[i].state = "issued"
    /\ \A x \in {b, issue[i].batch} : batch[x].state = "live"
    /\ batch[issue[i].batch].current + issue[i].quantity <= batch[issue[i].batch].units

\* A correction may move the issue to another batch: what it took goes back first.
UpdateStockMovement(i, b, n) ==
    /\ Correctable(i, b)
    /\ LET back == [batch EXCEPT ![issue[i].batch].current = @ + issue[i].quantity]
       IN /\ n > 0 /\ n <= back[b].current
          /\ batch' = [back EXCEPT ![b].current = @ - n]
    /\ issue' = [issue EXCEPT ![i].batch = b, ![i].quantity = n]
    /\ UNCHANGED material

\* A voided issue stays, with its key; voiding it again changes nothing.
DeleteStockMovement(i) ==
    /\ issue[i].state = "issued" /\ Correctable(i, issue[i].batch)
    /\ batch' = [batch EXCEPT ![issue[i].batch].current = @ + issue[i].quantity]
    /\ issue' = [issue EXCEPT ![i].state = "voided"]
    /\ UNCHANGED material
-----------------------------------------------------------------------------
(* A material's quantities are entered as they are; the log keeps both sides *)
(* of every change.                                                          *)

\* Mutant: only a change of the quantity on hand is logged.
LoggedCurrentOnly(x, input, current) ==
    IF material[x].current = current /\ material[x].state # "none" THEN material[x].log
    ELSE Append(material[x].log, [input |-> <<material[x].input, input>>, current |-> <<material[x].current, current>>])

\* The INSERT INTO material_movements, left out by an edit that changes no quantity.
Logged(x, input, current) ==
    IF material[x].state # "none" /\ material[x].input = input /\ material[x].current = current THEN material[x].log
    ELSE Append(material[x].log, [input |-> <<material[x].input, input>>, current |-> <<material[x].current, current>>])

SaveMaterial(x, input, current) ==
    /\ x \in Fresh(material) \/ material[x].state = "live"
    /\ current <= input
    /\ Len(Logged(x, input, current)) <= MaxMoves
    /\ material' = [material EXCEPT ![x] = [state |-> "live", input |-> input, current |-> current,
                                            log |-> Logged(x, input, current)]]
    /\ UNCHANGED stockVars

ArchiveMaterial(x) ==
    /\ material[x].state = "live" /\ material' = [material EXCEPT ![x].state = "archived"]
    /\ UNCHANGED stockVars

RestoreMaterial(x) ==
    /\ material[x].state = "archived" /\ material' = [material EXCEPT ![x].state = "live"]
    /\ UNCHANGED stockVars

StockNext ==
    \/ \E b \in Batches, n \in Units : CreateBatch(b, n) \/ EditBatch(b, n)
    \/ \E b \in Batches : ArchiveBatch(b) \/ RestoreBatch(b)
    \/ \E i \in Issues, b \in Batches, n \in Units, key \in RetryKeys \cup {NoKey} : IssueStock(i, b, n, key)
    \/ \E i \in Issues, b \in Batches, n \in Units : UpdateStockMovement(i, b, n)
    \/ \E i \in Issues : DeleteStockMovement(i)

MaterialNext ==
    \/ \E x \in Materials, input, current \in Units : SaveMaterial(x, input, current)
    \/ \E x \in Materials : ArchiveMaterial(x) \/ RestoreMaterial(x)

InventoryNext == StockNext \/ MaterialNext
-----------------------------------------------------------------------------
InventoryTypeOK ==
    /\ batch \in [Batches -> [state : {"none", "live", "archived"}, units : Units, current : Units]]
    /\ issue \in [Issues -> [state : {"none", "issued", "voided"}, batch : Batches \cup {0}, quantity : Units,
                             key : RetryKeys \cup {NoKey}]]
    /\ \A x \in Materials : /\ material[x].state \in {"none", "live", "archived"}
                            /\ material[x].current \in Units /\ material[x].input \in Units

IssuesOf(b) == {i \in Issues : issue[i].state = "issued" /\ issue[i].batch = b}
Issued(b) == SumFunctionOnSet([i \in Issues |-> issue[i].quantity], IssuesOf(b))

\* The running balance of a batch is what the issues that stand leave of it, however
\* issues were retried, corrected, moved to another batch or voided and whatever was
\* archived or re-counted meanwhile; and one retry key takes goods out once.
StockBalance ==
    /\ \A b \in Batches :
          batch[b].current + Issued(b) = batch[b].units
    /\ \A i, j \in Issues : issue[i].key = issue[j].key /\ issue[i].key # NoKey => i = j

\* The log of a material is one unbroken chain from nothing to the quantities on
\* record: every entry starts where the one before it ended.
MaterialHistory ==
    \A x \in Materials :
        LET log == material[x].log
        IN /\ \A k \in 2..Len(log) : /\ log[k].input[1] = log[k - 1].input[2]
                                     /\ log[k].current[1] = log[k - 1].current[2]
           /\ material[x].state # "none" =>
                 /\ log # <<>> /\ log[1].current[1] = 0
                 /\ Last(log).input[2] = material[x].input /\ Last(log).current[2] = material[x].current
=============================================================================
