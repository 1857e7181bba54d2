---------------------------- MODULE RecoveryDrills ----------------------------
(* A recovery drill and the remediation of what it found:                    *)
(* controllers/recoveryDrillEvidenceController.js and                        *)
(* recoveryRemediationController.js.  Every request reads its row without a  *)
(* lock and writes it in a later statement; only the two statements that     *)
(* finalize and close name in their WHERE that nobody has done so.  They     *)
(* answer alike whether or not they changed a row.                           *)
(*                                                                           *)
(* What a drill recorded is its outcome: Incomplete while it lacks something *)
(* that finalize demands.  Whether a drill calls for remediation depends     *)
(* also on its age and on the date of the next one, so any drill may.        *)
EXTENDS Naturals, FiniteSets

CONSTANTS Clerks,      \* requests under way at once, each of its own user
          Items,       \* ids of recovery_remediation_items
          NoClerk

VARIABLES
    drill,      \* recovery_drill_records
    verdicts,   \* recovery_drill_events: DRILL_FINALIZED
    item,       \* recovery_remediation_items
    closures,   \* recovery_remediation_events: REMEDIATION_CLOSED
    clerk       \* what each request has read, and is about to write

drillVars == <<drill, verdicts, item, closures, clerk>>

Outcomes == {"MET", "MISSED", "FAILED"}
DrillContents == Outcomes \cup {"Incomplete"}

NoDrill == [status |-> "none", content |-> "Incomplete", decision |-> "none", by |-> NoClerk]
NoItem == [status |-> "none", by |-> NoClerk]
ClerkAtRest == [op |-> "none", content |-> "Incomplete", item |-> 0, status |-> "none"]

DrillsInit ==
    /\ drill = NoDrill /\ verdicts = {}
    /\ item = [i \in Items |-> NoItem] /\ closures = [i \in Items |-> {}]
    /\ clerk = [c \in Clerks |-> ClerkAtRest]
-----------------------------------------------------------------------------
Final == drill.by # NoClerk
Ended(i) == item[i].by # NoClerk
Listed(i) == item[i].status # "none"
Undecided == ~ \E i \in Items : Listed(i) /\ item[i].status # "CLOSED"   \* no row with status<>'CLOSED'
NextItem == {i \in Items : ~Listed(i) /\ \A j \in Items : j < i => Listed(j)}

Begin(c, work) == clerk[c] = ClerkAtRest /\ clerk' = [clerk EXCEPT ![c] = work] /\ UNCHANGED <<drill, verdicts, item, closures>>
Reply(c) == clerk' = [clerk EXCEPT ![c] = ClerkAtRest]

CreateDrill ==
    /\ drill = NoDrill
    /\ drill' = [NoDrill EXCEPT !.status = "DRAFT"]
    /\ UNCHANGED <<verdicts, item, closures, clerk>>

\* update: what was read must not be finalized; the write does not ask again.
ReadForUpdate(c, content, started) ==
    /\ drill # NoDrill /\ ~Final
    /\ content # "Incomplete" => started
    /\ Begin(c, [ClerkAtRest EXCEPT !.op = "update", !.content = content, !.status = IF started THEN "IN_PROGRESS" ELSE "DRAFT"])

WriteUpdate(c) ==
    /\ clerk[c].op = "update"
    /\ drill' = [drill EXCEPT !.content = clerk[c].content, !.status = clerk[c].status]
    /\ Reply(c)
    /\ UNCHANGED <<verdicts, item, closures>>

\* finalize: the decision follows from what was read.
ReadForFinalize(c) ==
    /\ drill.content # "Incomplete" /\ ~Final
    /\ Begin(c, [ClerkAtRest EXCEPT !.op = "finalize", !.content = drill.content])

\* Mutant: the statement does not ask whether the drill is finalized.
DecideAgain(c) ==
    /\ drill' = [drill EXCEPT !.status = "FINALIZED", !.decision = clerk[c].content, !.by = c]
    /\ verdicts' = verdicts \cup {[by |-> c, decision |-> clerk[c].content]}
Decide(c) ==
    /\ drill' = IF Final THEN drill ELSE [drill EXCEPT !.status = "FINALIZED", !.decision = clerk[c].content, !.by = c]
    /\ verdicts' = verdicts \cup {[by |-> c, decision |-> clerk[c].content]}

WriteFinalize(c) ==
    /\ clerk[c].op = "finalize"
    /\ Decide(c) /\ Reply(c)
    /\ UNCHANGED <<item, closures>>

\* create and sync of remediations: neither finds an item that is not CLOSED.
ReadForItem(c, owned) ==
    /\ drill # NoDrill /\ Undecided
    /\ Begin(c, [ClerkAtRest EXCEPT !.op = "create", !.status = IF owned THEN "ASSIGNED" ELSE "OPEN"])

InsertItem(c) ==
    /\ clerk[c].op = "create"
    /\ \E i \in NextItem : item' = [item EXCEPT ![i].status = clerk[c].status]
    /\ Reply(c)
    /\ UNCHANGED <<drill, verdicts, closures>>

\* update of a remediation
ReadForChange(c, i, status) ==
    /\ Listed(i) /\ ~Ended(i)
    /\ Begin(c, [ClerkAtRest EXCEPT !.op = "change", !.item = i, !.status = status])

WriteChange(c) ==
    /\ clerk[c].op = "change"
    /\ item' = [item EXCEPT ![clerk[c].item].status = clerk[c].status]
    /\ Reply(c)
    /\ UNCHANGED <<drill, verdicts, closures>>

\* close: an owner must have been assigned when it was read.
ReadForClose(c, i) ==
    /\ Listed(i) /\ ~Ended(i) /\ item[i].status \in {"ASSIGNED", "IN_PROGRESS"}
    /\ Begin(c, [ClerkAtRest EXCEPT !.op = "close", !.item = i])

WriteClose(c) ==
    /\ clerk[c].op = "close"
    /\ LET i == clerk[c].item
       IN  /\ item' = IF Ended(i) THEN item ELSE [item EXCEPT ![i] = [status |-> "CLOSED", by |-> c]]
           /\ closures' = [closures EXCEPT ![i] = @ \cup {c}]
    /\ Reply(c)
    /\ UNCHANGED <<drill, verdicts>>

DrillsNext ==
    \/ CreateDrill
    \/ \E c \in Clerks :
        \/ \E content \in DrillContents, started \in BOOLEAN : ReadForUpdate(c, content, started)
        \/ ReadForFinalize(c) \/ WriteUpdate(c) \/ WriteFinalize(c)
        \/ \E owned \in BOOLEAN : ReadForItem(c, owned)
        \/ \E i \in Items : ReadForClose(c, i) \/ \E s \in {"OPEN", "ASSIGNED", "IN_PROGRESS"} : ReadForChange(c, i, s)
        \/ InsertItem(c) \/ WriteChange(c) \/ WriteClose(c)
-----------------------------------------------------------------------------
DrillsTypeOK ==
    /\ drill \in [status : {"none", "DRAFT", "IN_PROGRESS", "FINALIZED"}, content : DrillContents,
                  decision : Outcomes \cup {"none"}, by : Clerks \cup {NoClerk}]
    /\ verdicts \subseteq [by : Clerks, decision : Outcomes]
    /\ item \in [Items -> [status : {"none", "OPEN", "ASSIGNED", "IN_PROGRESS", "CLOSED"}, by : Clerks \cup {NoClerk}]]
    /\ closures \in [Items -> SUBSET Clerks]
    /\ clerk \in [Clerks -> [op : {"none", "update", "finalize", "create", "change", "close"}, content : DrillContents,
                             item : Items \cup {0}, status : {"none", "DRAFT", "OPEN", "ASSIGNED", "IN_PROGRESS"}]]

\* The events of a drill say who finalized it and how, even when several
\* tried; a drill is never final without such an event.
DecisionIsRecorded == Final => [by |-> drill.by, decision |-> drill.decision] \in verdicts

\* Likewise for an item: whoever closed it is among those its events name.
ClosureIsRecorded == \A i \in Items : Ended(i) => item[i].by \in closures[i]

\* However many finalize and close at once, the first decides, and what it
\* decided is not replaced.
FirstDecisionStands ==
    [][/\ Final => drill'.by = drill.by /\ drill'.decision = drill.decision
       /\ \A i \in Items : Ended(i) => item'[i].by = item[i].by]_drillVars

\* "Finalized recovery drill records are immutable.", "Closed remediation
\* records are immutable.": not so, an update that was read before is written
\* after.  The drill then shows evidence its decision does not follow from,
\* and the item, no longer CLOSED, hides that its drill has none that is open.
FinalIsImmutable ==
    [][/\ Final => drill' = drill
       /\ \A i \in Items : Ended(i) => item'[i] = item[i]]_drillVars
=============================================================================
