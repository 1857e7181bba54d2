------------------------------- MODULE Trash --------------------------------
(* Registers whose records go to the trash and come back: customers,         *)
(* suppliers, tasks, meetings and notifications (trashService.js, and the    *)
(* save and delete handlers of their controllers).  A record's row says that *)
(* it is deleted, and an ACTIVE row of trash_items says so again; a restore  *)
(* reads the trash item under its lock, then the record, and looks for a     *)
(* live record with the same e-mail in a plain read of its own.  Nothing is  *)
(* ever purged.                                                              *)
EXTENDS Naturals, FiniteSets

CONSTANTS Records, TrashItems,  \* ids, given out in ascending order
          Emails, NoEmail,      \* a blank e-mail address is compared with nothing
          Restorers             \* requests that restore

ASSUME TrashAssumption == Records \subseteq Nat /\ TrashItems \subseteq Nat /\ NoEmail \in Emails

VARIABLES
    record,    \* rows of a register: state and email
    item,      \* trash_items
    restore    \* restores that passed their checks and have not written yet

trashVars == <<record, item, restore>>

NoRestore == [item |-> 0]

TrashInit ==
    /\ record = [r \in Records |-> [state |-> "none", email |-> NoEmail]]
    /\ item = [t \in TrashItems |-> [state |-> "none", record |-> 0]]
    /\ restore = [q \in Restorers |-> NoRestore]

FreshRow(table) == {n \in DOMAIN table : table[n].state = "none" /\ \A k \in DOMAIN table : k < n => table[k].state # "none"}
\* FOR UPDATE locks a running restore holds until it commits.
LockedItems == {restore[q].item : q \in Restorers}
LockedRecords == {item[restore[q].item].record : q \in {x \in Restorers : restore[x] # NoRestore}}
-----------------------------------------------------------------------------
\* No register refuses an e-mail address that another record has.
CreateRecord(r, email) ==
    /\ r \in FreshRow(record)
    /\ record' = [record EXCEPT ![r] = [state |-> "live", email |-> email]]
    /\ UNCHANGED <<item, restore>>

SaveRecord(r, email) ==
    /\ record[r].state = "live" /\ r \notin LockedRecords
    /\ record' = [record EXCEPT ![r].email = email]
    /\ UNCHANGED <<item, restore>>

Trashable(r) == record[r].state = "live" /\ r \notin LockedRecords

MoveToTrash(r, t) ==
    /\ Trashable(r) /\ t \in FreshRow(item)
    /\ record' = [record EXCEPT ![r].state = "deleted"]
    /\ item' = [item EXCEPT ![t] = [state |-> "ACTIVE", record |-> r]]
    /\ UNCHANGED restore

Conflict(r) ==
    /\ record[r].email # NoEmail
    /\ \E x \in Records \ {r} : record[x].state = "live" /\ record[x].email = record[r].email

\* restoreTrashItem up to its first write: the item, the record and the conflict.
RestoreChecks(q, t) ==
    /\ restore[q] = NoRestore
    /\ t \notin LockedItems /\ item[t].state = "ACTIVE"
    /\ item[t].record \notin LockedRecords
    /\ ~Conflict(item[t].record)
    /\ restore' = [restore EXCEPT ![q] = [item |-> t]]
    /\ UNCHANGED <<record, item>>

\* Mutant: the trash item is not marked RESTORED.
RestoreWritesHalf(q) ==
    /\ restore[q] # NoRestore
    /\ record' = [record EXCEPT ![item[restore[q].item].record].state = "live"]
    /\ restore' = [restore EXCEPT ![q] = NoRestore]
    /\ UNCHANGED item

\* Its two updates and the audit entry, committed together.
RestoreWrites(q) ==
    /\ restore[q] # NoRestore
    /\ record' = [record EXCEPT ![item[restore[q].item].record].state = "live"]
    /\ item' = [item EXCEPT ![restore[q].item].state = "RESTORED"]
    /\ restore' = [restore EXCEPT ![q] = NoRestore]

\* An error after the checks rolls everything back and frees the locks.
RestoreFails(q) ==
    /\ restore[q] # NoRestore /\ restore' = [restore EXCEPT ![q] = NoRestore]
    /\ UNCHANGED <<record, item>>

TrashNext ==
    \/ \E r \in Records, e \in Emails : CreateRecord(r, e) \/ SaveRecord(r, e)
    \/ \E r \in Records, t \in TrashItems : MoveToTrash(r, t)
    \/ \E q \in Restorers, t \in TrashItems : RestoreChecks(q, t)
    \/ \E q \in Restorers : RestoreWrites(q) \/ RestoreFails(q)

TrashSpec == TrashInit /\ [][TrashNext]_trashVars
-----------------------------------------------------------------------------
TrashTypeOK ==
    /\ record \in [Records -> [state : {"none", "live", "deleted"}, email : Emails]]
    /\ item \in [TrashItems -> [state : {"none", "ACTIVE", "RESTORED"}, record : Records \cup {0}]]
    /\ restore \in [Restorers -> [item : TrashItems \cup {0}]]

\* A record is deleted exactly while one trash item can bring it back: nothing is
\* lost without a way to restore it, and no stale item is left to restore a record
\* that is in use.
DeletedIsRestorable ==
    \A r \in Records :
        Cardinality({t \in TrashItems : item[t] = [state |-> "ACTIVE", record |-> r]}) =
            IF record[r].state = "deleted" THEN 1 ELSE 0
=============================================================================
