------------------------------ MODULE Expenses ------------------------------
(* Supplier bills and their payments: expenseController.js,                  *)
(* expensePaymentDomain.js, and the dialogs of public/expense-payments.js.   *)
(* A handler is one transaction that locks the bill, except that a reversal  *)
(* first reads which bill its payment belongs to: under REPEATABLE READ that *)
(* read fixes the snapshot its later totals come from.                       *)
(*                                                                           *)
(* BillAmounts are small naturals.  A due date only turns 'unpaid' into          *)
(* 'overdue' on display and is left out.                                     *)
EXTENDS Naturals, FiniteSets, Functions

CONSTANTS Bills, Payments,   \* ids, ascending
          BillAmounts,       \* bill totals and payments
          Dialogs            \* edit and payment dialogs open in the office

ASSUME ExpensesAssumption ==
    /\ Bills \subseteq Nat \ {0} /\ Payments \subseteq Nat \ {0} /\ BillAmounts \subseteq Nat \ {0}
    /\ IsFiniteSet(Payments)

VARIABLES
    expense,    \* expenses
    payment,    \* expense_payments
    sheet,      \* what each dialog shows: a bill as listed, or a payment's retry key
    reversal    \* payments whose reversal has read its snapshot, with that snapshot

expenseVars == <<expense, payment, sheet, reversal>>

NoBill == [state |-> "none", total |-> 0, status |-> "unpaid"]
NoPayment == [state |-> "none", bill |-> 0, amount |-> 0]
Shut == [kind |-> "none", bill |-> 0, status |-> "unpaid", spent |-> FALSE]
Unread == [begun |-> FALSE, seen |-> {}]

ExpensesInit ==
    /\ expense = [b \in Bills |-> NoBill]
    /\ payment = [p \in Payments |-> NoPayment]
    /\ sheet = [d \in Dialogs |-> Shut]
    /\ reversal = [p \in Payments |-> Unread]
-----------------------------------------------------------------------------
NextId(table) == {n \in DOMAIN table : table[n].state = "none" /\ \A k \in DOMAIN table : k < n => table[k].state # "none"}
Stored(b) == expense[b].state = "live"
LiveOf(b) == {p \in Payments : payment[p].state = "live" /\ payment[p].bill = b}
Amount(set) == SumFunctionOnSet([p \in Payments |-> payment[p].amount], set)

\* legacyPaidAmount: a bill without payments is paid when its status says so.
Paid(status, total, set) == IF set # {} THEN Amount(set) ELSE IF status = "paid" THEN total ELSE 0

\* paymentState
Standing(status, total, set) ==
    LET paid == Paid(status, total, set) IN
    IF paid >= total THEN "paid" ELSE IF paid > 0 THEN "partially_paid" ELSE "unpaid"
Shown(b) == Standing(expense[b].status, expense[b].total, LiveOf(b))
Balance(b) == expense[b].total - Paid(expense[b].status, expense[b].total, LiveOf(b))
-----------------------------------------------------------------------------
(* The dialogs.                                                              *)

\* openExpenseDialog: the status on show goes along, hidden.
OpenExpenseDialog(d, b) ==
    /\ sheet[d].kind = "none" /\ (b \in Bills => Stored(b))
    /\ sheet' = [sheet EXCEPT ![d] = [kind |-> "edit", bill |-> b, status |-> IF b = 0 THEN "unpaid" ELSE Shown(b), spent |-> FALSE]]
    /\ UNCHANGED <<expense, payment, reversal>>

\* openRecordExpensePaymentDialog: its key lasts as long as the dialog.
OpenPaymentDialog(d, b) ==
    /\ sheet[d].kind = "none" /\ Stored(b) /\ Balance(b) > 0
    /\ sheet' = [sheet EXCEPT ![d] = [Shut EXCEPT !.kind = "pay", !.bill = b]]
    /\ UNCHANGED <<expense, payment, reversal>>

CloseDialog(d) ==
    /\ sheet[d].kind # "none"
    /\ sheet' = [sheet EXCEPT ![d] = Shut]
    /\ UNCHANGED <<expense, payment, reversal>>

\* The answer closes the dialog, or is lost.
Answer(d) == sheet' = sheet \/ sheet' = [sheet EXCEPT ![d] = Shut]
-----------------------------------------------------------------------------
(* The handlers.                                                             *)

\* Mutant: recorded payments are not compared with the new total.
CoversAlways(b, total) == TRUE

\* "Expense total cannot be less than payments already recorded"
Covers(b, total) == Amount(LiveOf(b)) <= total

SaveExpense(d, total) ==
    LET b == sheet[d].bill IN
    /\ sheet[d].kind = "edit"
    /\ \/ /\ b = 0
          /\ \E n \in NextId(expense) : expense' = [expense EXCEPT ![n] = [state |-> "live", total |-> total, status |-> "unpaid"]]
       \/ /\ b # 0 /\ Stored(b) /\ Covers(b, total)
          /\ expense' = [expense EXCEPT ![b].total = total,
                        ![b].status = IF LiveOf(b) = {} THEN sheet[d].status ELSE Standing("unpaid", total, LiveOf(b))]
    /\ Answer(d) /\ UNCHANGED <<payment, reversal>>

\* Mutant: the amount is compared with the bill, not with what is left of it.
WithinBill(b, amount) == amount <= expense[b].total

\* validatePaymentAmount
WithinBalance(b, amount) == amount <= Balance(b)

\* recordExpensePayment: a key that has a payment is not used again.
RecordExpensePayment(d, amount) ==
    LET b == sheet[d].bill IN
    /\ sheet[d].kind = "pay" /\ Stored(b) /\ ~sheet[d].spent
    /\ WithinBalance(b, amount)
    /\ \E n \in NextId(payment) :
          /\ payment' = [payment EXCEPT ![n] = [state |-> "live", bill |-> b, amount |-> amount]]
          /\ LET paid == Paid(expense[b].status, expense[b].total, LiveOf(b)) + amount IN
             expense' = [expense EXCEPT ![b].status = IF paid >= expense[b].total THEN "paid" ELSE "partially_paid"]
    /\ sheet' = [sheet EXCEPT ![d].spent = TRUE] \/ sheet' = [sheet EXCEPT ![d] = Shut]
    /\ UNCHANGED reversal

\* voidExpensePayment, up to the lock ...
BeginReversal(p) ==
    /\ payment[p].state = "live" /\ ~reversal[p].begun
    /\ reversal' = [reversal EXCEPT ![p] = [begun |-> TRUE, seen |-> LiveOf(payment[p].bill)]]
    /\ UNCHANGED <<expense, payment, sheet>>

\* ... and with it: the totals are those of the snapshot, less this payment.
VoidExpensePayment(p) ==
    LET b == payment[p].bill
        left == reversal[p].seen \ {p} IN
    /\ reversal[p].begun
    /\ payment' = [payment EXCEPT ![p].state = "void"]
    /\ expense' = [expense EXCEPT ![b].status = Standing("unpaid", expense[b].total, left)]
    /\ reversal' = [reversal EXCEPT ![p] = Unread]
    /\ UNCHANGED sheet

ArchiveExpense(b) ==
    /\ expense[b].state # "none"
    /\ expense' = [expense EXCEPT ![b].state = IF @ = "live" THEN "archived" ELSE "live"]
    /\ UNCHANGED <<payment, sheet, reversal>>

ExpensesNext ==
    \/ \E d \in Dialogs :
          \/ \E b \in Bills \cup {0} : OpenExpenseDialog(d, b)
          \/ \E b \in Bills : OpenPaymentDialog(d, b)
          \/ CloseDialog(d)
          \/ \E a \in BillAmounts : SaveExpense(d, a) \/ RecordExpensePayment(d, a)
    \/ \E p \in Payments : BeginReversal(p) \/ VoidExpensePayment(p)
    \/ \E b \in Bills : ArchiveExpense(b)
-----------------------------------------------------------------------------
Standings == {"unpaid", "partially_paid", "paid"}

ExpensesTypeOK ==
    /\ expense \in [Bills -> [state : {"none", "live", "archived"}, total : Nat, status : Standings]]
    /\ payment \in [Payments -> [state : {"none", "live", "void"}, bill : Nat, amount : Nat]]
    /\ sheet \in [Dialogs -> [kind : {"none", "edit", "pay"}, bill : Nat, status : Standings, spent : BOOLEAN]]
    /\ \A p \in Payments : reversal[p].seen \subseteq Payments

\* However payments, reversals and edits of the bill interleave, and whatever
\* balance a dialog still shows, the live payments never exceed the bill.
PaymentsWithinTotal == \A b \in Bills : Amount(LiveOf(b)) <= expense[b].total

\* "Status is calculated from payment history. Save the bill, then use Record
\* Payment.": a bill listed as paid has payments for all of it.
PaidHasPayments == \A b \in Bills : Stored(b) /\ Shown(b) = "paid" => Amount(LiveOf(b)) = expense[b].total
=============================================================================
