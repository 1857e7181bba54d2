--------------------------- MODULE ControlledForms ---------------------------
(* A controlled record and the form it fills in:                             *)
(* controllers/qms/recordController.js, with the definitions of              *)
(* qmsDefinitionService.js and qmsOperationsController.js.  A form is        *)
(* published by overwriting the definition of its revision; a record is      *)
(* revised while it is a draft, then reviewed, signed and closed.  Every     *)
(* change of a record locks its row first and so is one step.                *)
(*                                                                           *)
(* A definition is the set of its mandatory fields: the other rules of       *)
(* validateField refuse values in the same way.  Links, comments and holds   *)
(* of a record change nothing here.                                          *)
EXTENDS Naturals, Sequences

CONSTANTS Fields, Inputs,
          Empty,          \* no value for a field
          Authors,
          NoForm,
          MaxFormRevisions    \* bound: revisions of the record

\* A record can have its first revision.
ASSUME FormsAssumption == MaxFormRevisions \in Nat \ {0}

VARIABLES
    form,         \* qms_form_definition_versions: what the effective one demands
    record,       \* qms_records
    revisions,    \* qms_record_revisions: the values of each
    signatures,   \* qms_record_signatures
    shown         \* qms_record_values: one row for each field ever filled in

formVars == <<form, record, revisions, signatures, shown>>

Values == [Fields -> Inputs \cup {Empty}]
Blank == [f \in Fields |-> Empty]
NoRecord == [status |-> "none", revision |-> 0, values |-> Blank, preparer |-> Empty, approver |-> Empty, imported |-> FALSE]

FormsInit ==
    /\ form = NoForm
    /\ record = NoRecord
    /\ revisions = << >> /\ signatures = << >>
    /\ shown = Blank
-----------------------------------------------------------------------------
Effective == form # NoForm
Complete == \A f \in form : record.values[f] # Empty

Editable == {"DRAFT", "REJECTED"}
Workflow ==
    [none |-> {}, DRAFT |-> {"SUBMITTED", "VOID"}, REJECTED |-> {"DRAFT", "VOID"},
     SUBMITTED |-> {"UNDER_REVIEW", "REJECTED"}, UNDER_REVIEW |-> {"APPROVED", "REJECTED"},
     APPROVED |-> {"CLOSED", "SUPERSEDED"}, CLOSED |-> {"SUPERSEDED"}, SUPERSEDED |-> {}, VOID |-> {}]
Guarded == {"SUBMITTED", "UNDER_REVIEW", "APPROVED", "CLOSED"}

\* syncValues writes the fields it is given, and removes none: a reader leaves
\* out those the record no longer has.
Sync(values) == shown' = [f \in Fields |-> IF values[f] = Empty THEN shown[f] ELSE values[f]]

\* Mutant: the values of a revision are written to the record alone.
KeepNone(values) == revisions' = Append(revisions, Blank)
Keep(values) == revisions' = Append(revisions, values)

\* upsertDefinition
PublishForm(required) ==
    /\ form' = required
    /\ UNCHANGED <<record, revisions, signatures, shown>>

Created(u, values, imported) ==
    [status |-> "DRAFT", revision |-> 1, values |-> values, preparer |-> u, approver |-> Empty, imported |-> imported]

CreateRecord(u, values) ==
    /\ record = NoRecord /\ Effective
    /\ record' = Created(u, values, FALSE)
    /\ Keep(values) /\ Sync(values)
    /\ UNCHANGED <<form, signatures>>

\* importLegacy writes no qms_record_values.
ImportRecord(u, values) ==
    /\ record = NoRecord /\ Effective
    /\ record' = Created(u, values, TRUE)
    /\ Keep(values)
    /\ UNCHANGED <<form, signatures, shown>>

\* The caller may say which revision it edits, and need not.
UpdateRecord(values) ==
    /\ record.status \in Editable /\ record.revision < MaxFormRevisions
    /\ record' = [record EXCEPT !.status = "DRAFT", !.revision = @ + 1, !.values = values, !.approver = Empty]
    /\ Keep(values) /\ Sync(values)
    /\ UNCHANGED <<form, signatures>>

Signature(u) == [revision |-> record.revision, values |-> record.values, by |-> u]

Transition(u, target) ==
    /\ target \in Workflow[record.status]
    /\ target = "APPROVED" => u # record.preparer
    /\ target \in Guarded => Effective /\ Complete
    /\ record' = [record EXCEPT !.status = target, !.approver = IF target = "APPROVED" THEN u ELSE @]
    /\ signatures' = IF target = "APPROVED" THEN Append(signatures, Signature(u)) ELSE signatures
    /\ UNCHANGED <<form, revisions, shown>>

FormsNext ==
    \/ \E required \in SUBSET Fields : PublishForm(required)
    \/ \E u \in Authors, values \in Values : CreateRecord(u, values) \/ ImportRecord(u, values)
    \/ \E values \in Values : UpdateRecord(values)
    \/ \E u \in Authors, target \in DOMAIN Workflow : Transition(u, target)
-----------------------------------------------------------------------------
FormsTypeOK ==
    /\ form \in (SUBSET Fields) \cup {NoForm}
    /\ record \in [status : DOMAIN Workflow, revision : 0..MaxFormRevisions, values : Values,
                   preparer : Authors \cup {Empty}, approver : Authors \cup {Empty}, imported : BOOLEAN]
    /\ revisions \in Seq(Values) /\ shown \in Values
    /\ \A i \in DOMAIN signatures : signatures[i] \in [revision : 1..MaxFormRevisions, values : Values, by : Authors]

Settled == {"APPROVED", "CLOSED", "SUPERSEDED"}

\* An approved record carries exactly one signature: of the revision and the
\* values it has, by its approver, who did not prepare it.
ApprovalIsSigned ==
    IF record.status \in Settled
    THEN signatures = <<Signature(record.approver)>> /\ record.approver # record.preparer
    ELSE signatures = << >>

\* The history holds every revision, the present one included.
HistoryIsComplete ==
    record # NoRecord => Len(revisions) = record.revision /\ revisions[record.revision] = record.values

\* The list of values of a record shows what it holds now.  An imported record
\* has no such list before its first revision.
ShownIsCurrent ==
    \A f \in Fields :
        record.values[f] # Empty /\ (record.imported => record.revision > 1) => shown[f] = record.values[f]

\* "Record is ... and cannot be edited": what was approved, closed, superseded
\* or voided keeps its values, its history and its signature.
SettledStands ==
    [][record.status \in Settled \cup {"VOID"} =>
         /\ record'.values = record.values /\ record'.approver = record.approver
         /\ revisions' = revisions /\ signatures' = signatures]_formVars
=============================================================================
