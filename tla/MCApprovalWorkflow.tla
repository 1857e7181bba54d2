------------------------- MODULE MCApprovalWorkflow -------------------------
(* Small instances of ApprovalWorkflow for TLC: a clerk, a boss and an      *)
(* admin, to whom every overdue review is escalated.                        *)
EXTENDS ApprovalWorkflow, TLC

CONSTANTS clerk, boss, admin

Step(mode, minimum, approvers) ==
    [mode |-> mode, minimum |-> minimum, approvers |-> approvers, escalation |-> {admin}]

\* Boss and admin at once; later the boss's review twice over, of which the admin
\* has none until one is escalated.
Relaxed ==
    << [self |-> FALSE, steps |-> <<Step("ANY", 2, {boss, admin})>>],
       [self |-> FALSE, steps |-> <<Step("ANY", 1, {boss}), Step("ANY", 1, {boss})>>] >>

\* One step, reviewed by boss and admin.
AllReview == << [self |-> FALSE, steps |-> <<Step("ALL", 1, {boss, admin})>>] >>

Symmetry == Permutations(Instances) \cup Permutations(Sweepers)
=============================================================================
