------------------------------ MODULE Records -------------------------------
(* The office registers side by side in one database: stock and materials,   *)
(* records that go to the trash, requests for quotation, supplier bills,     *)
(* applications, an invoice with its payments, and approval requests.  They  *)
(* share no rows, so how their steps interleave makes no difference: a       *)
(* behaviour follows one of them, and leaves the others at their initial     *)
(* state.                                                                    *)
EXTENDS Inventory, Trash, Rfqs, Expenses, Careers

CONSTANTS
    Keys, Totals, MaxEditions,                           \* of Invoices
    Users, Reviewers, Managers, Definitions, Instances   \* of ApprovalWorkflow

VARIABLES
    invoice, payments, history,                          \* of Invoices
    published, instances, assignments, due, hour,        \* of ApprovalWorkflow
    register                                             \* the register that is followed

Ledger == INSTANCE Invoices WITH MaxRevision <- MaxEditions

\* The escalation job is left to ApprovalWorkflow's own run: no time passes.
Approval == INSTANCE ApprovalWorkflow WITH
                Sweepers <- {}, Limit <- 1, Sla <- 1, Window <- 1, Grace <- 1, MaxTime <- 0,
                batch <- due, clock <- hour

ASSUME ApprovalAssumption == Approval!WorkflowConstants

ASSUME LedgerAssumption ==
    /\ IsFiniteSet(Keys) /\ IsFiniteSet(Totals) /\ Totals \subseteq Nat /\ Totals # {}
    /\ MaxEditions \in Nat \ {0}

ledgerVars == <<invoice, payments, history>>
approvalVars == <<published, instances, assignments, due, hour>>
vars == <<inventoryVars, trashVars, rfqVars, expenseVars, careerVars, ledgerVars, approvalVars, register>>

Init ==
    /\ InventoryInit /\ TrashInit /\ RfqsInit /\ ExpensesInit /\ CareersInit /\ Ledger!Init /\ Approval!Init
    /\ register \in {"stock", "material", "trash", "rfq", "expense", "application", "ledger", "approval"}

Next ==
    \/ register = "stock" /\ StockNext /\ UNCHANGED <<material, trashVars, rfqVars, expenseVars, careerVars, ledgerVars, approvalVars, register>>
    \/ register = "material" /\ MaterialNext /\ UNCHANGED <<stockVars, trashVars, rfqVars, expenseVars, careerVars, ledgerVars, approvalVars, register>>
    \/ register = "trash" /\ TrashNext /\ UNCHANGED <<inventoryVars, rfqVars, expenseVars, careerVars, ledgerVars, approvalVars, register>>
    \/ register = "rfq" /\ RfqsNext /\ UNCHANGED <<inventoryVars, trashVars, expenseVars, careerVars, ledgerVars, approvalVars, register>>
    \/ register = "expense" /\ ExpensesNext /\ UNCHANGED <<inventoryVars, trashVars, rfqVars, careerVars, ledgerVars, approvalVars, register>>
    \/ register = "application" /\ CareersNext /\ UNCHANGED <<inventoryVars, trashVars, rfqVars, expenseVars, ledgerVars, approvalVars, register>>
    \/ register = "ledger" /\ Ledger!Next /\ UNCHANGED <<inventoryVars, trashVars, rfqVars, expenseVars, careerVars, approvalVars, register>>
    \/ register = "approval" /\ Approval!Next /\ UNCHANGED <<inventoryVars, trashVars, rfqVars, expenseVars, careerVars, ledgerVars, register>>
Spec == Init /\ [][Next]_vars

TypeOK ==
    /\ InventoryTypeOK /\ TrashTypeOK /\ RfqsTypeOK /\ ExpensesTypeOK /\ CareersTypeOK
    /\ Ledger!TypeOK /\ Approval!TypeOK

\* What each register promises; see its module.  Stock, materials and the log
\* add up; payments stay within a bill and cover what is called paid; an invoice
\* bills what was approved of its RFQ, and is sent and paid as it was approved.
BalancesHold ==
    /\ TypeOK
    /\ StockBalance /\ MaterialHistory /\ PaymentsWithinTotal /\ Ledger!PaidIsCovered
    /\ InvoicedAsApproved /\ Ledger!ApprovedContentStands

\* However often it is sent, a submission makes one RFQ, and one announcement of
\* an application, whose CV is kept.
IntakeHolds == OneRfqPerSubmission /\ OneLetterEach /\ ResumeIsKept

\* What is approved had the reviewers its version asks for, and what is under
\* review is not forgotten.
ApprovalsHold == Approval!ApprovedByQuorum /\ Approval!AnyStepIsReviewable

\* No edit goes over one that its author never saw, nor over an application
\* that its CV has completed.
EditsStand == NoLostEdit /\ SecuredDetailsStand
=============================================================================
