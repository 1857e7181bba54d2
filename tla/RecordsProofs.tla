---------------------------- MODULE RecordsProofs ----------------------------
(***************************************************************************)
(* What the office registers of Records keep, for any number of records,   *)
(* requests, tabs and people.  A step of one register leaves the others    *)
(* alone, so that each has an inductive invariant of its own.              *)
(***************************************************************************)
EXTENDS Records, SumProofs, SequenceTheorems

-----------------------------------------------------------------------------
(* The trash.                                                              *)

Active(t) == item[t].state = "ACTIVE"

\* A restore that has passed its checks still finds its item active, and no
\* other restore has it.
RestoresActive ==
    \A q \in Restorers : restore[q] # NoRestore =>
        /\ restore[q].item \in TrashItems /\ Active(restore[q].item)
        /\ \A p \in Restorers : restore[p].item = restore[q].item => p = q

\* Items and deleted records belong to each other one to one.
ItemsMatch ==
    /\ \A t \in TrashItems : Active(t) => item[t].record \in Records /\ record[item[t].record].state = "deleted"
    /\ \A s, t \in TrashItems : Active(s) /\ Active(t) /\ item[s].record = item[t].record => s = t
    /\ \A r \in Records : record[r].state = "deleted" => \E t \in TrashItems : Active(t) /\ item[t].record = r

TrashInv == TrashTypeOK /\ RestoresActive /\ ItemsMatch

LEMMA TrashInitially == TrashInit => TrashInv
BY TrashAssumption DEF TrashInit, TrashInv, TrashTypeOK, RestoresActive, ItemsMatch, Active, NoRestore

LEMMA TrashStep ==
    ASSUME TrashInv, TrashNext
    PROVE  TrashInv'
<1> USE DEF TrashInv, TrashTypeOK
<1>1. ASSUME NEW r \in Records, NEW e \in Emails, CreateRecord(r, e)
      PROVE  TrashInv'
  <2>1. record[r].state = "none"
    BY <1>1 DEF CreateRecord, FreshRow
  <2> QED
    BY <1>1, <2>1 DEF CreateRecord, RestoresActive, ItemsMatch, Active
<1>2. ASSUME NEW r \in Records, NEW e \in Emails, SaveRecord(r, e)
      PROVE  TrashInv'
  BY <1>2 DEF SaveRecord, RestoresActive, ItemsMatch, Active
<1>3. ASSUME NEW r \in Records, NEW t \in TrashItems, MoveToTrash(r, t)
      PROVE  TrashInv'
  <2>1. record[r].state = "live" /\ item[t].state = "none"
    BY <1>3 DEF MoveToTrash, Trashable, FreshRow
  <2>2. TrashTypeOK'
    BY <1>3 DEF MoveToTrash
  <2>3. RestoresActive'
    BY <1>3, <2>1 DEF MoveToTrash, RestoresActive, Active
  <2>4. ItemsMatch'
    BY <1>3, <2>1 DEF MoveToTrash, ItemsMatch, Active
  <2> QED
    BY <2>2, <2>3, <2>4
<1>4. ASSUME NEW q \in Restorers, NEW t \in TrashItems, RestoreChecks(q, t)
      PROVE  TrashInv'
  BY <1>4 DEF RestoreChecks, RestoresActive, ItemsMatch, Active, LockedItems
<1>5. ASSUME NEW q \in Restorers, RestoreWrites(q)
      PROVE  TrashInv'
  <2> DEFINE t == restore[q].item
             r == item[t].record
  <2>1. t \in TrashItems /\ Active(t) /\ r \in Records
    BY <1>5 DEF RestoreWrites, RestoresActive, ItemsMatch
  <2>2. TrashTypeOK'
    BY <1>5, <2>1 DEF RestoreWrites, NoRestore
  <2>3. RestoresActive'
    BY <1>5, <2>1 DEF RestoreWrites, RestoresActive, Active, NoRestore
  <2>4. ItemsMatch'
    BY <1>5, <2>1 DEF RestoreWrites, ItemsMatch, Active
  <2> QED
    BY <2>2, <2>3, <2>4
<1>6. ASSUME NEW q \in Restorers, RestoreFails(q)
      PROVE  TrashInv'
  BY <1>6 DEF RestoreFails, RestoresActive, ItemsMatch, Active, NoRestore
<1> QED
  BY <1>1, <1>2, <1>3, <1>4, <1>5, <1>6 DEF TrashNext

LEMMA TrashInvariance == Spec => []TrashInv
<1>1. Init => TrashInv
  BY TrashInitially DEF Init
<1>2. TrashInv /\ [Next]_vars => TrashInv'
  <2>1. ASSUME TrashInv, UNCHANGED trashVars
        PROVE  TrashInv'
    BY <2>1 DEF TrashInv, TrashTypeOK, RestoresActive, ItemsMatch, Active, trashVars
  <2> QED
    BY <2>1, TrashStep DEF Next, vars
<1> QED
  BY <1>1, <1>2, PTL DEF Spec

\* Whatever is created, saved, deleted and restored at once, a record in the
\* trash has one item that brings it back, and a live one has none.
THEOREM DeletedComesBack == Spec => []DeletedIsRestorable
<1>1. TrashInv => DeletedIsRestorable
  <2> SUFFICES ASSUME TrashInv, NEW r \in Records
               PROVE  Cardinality({t \in TrashItems : item[t] = [state |-> "ACTIVE", record |-> r]}) =
                          IF record[r].state = "deleted" THEN 1 ELSE 0
    BY DEF DeletedIsRestorable
  <2> DEFINE Its == {t \in TrashItems : item[t] = [state |-> "ACTIVE", record |-> r]}
  <2>1. \A t \in TrashItems : t \in Its <=> Active(t) /\ item[t].record = r
    BY DEF TrashInv, TrashTypeOK, Active
  <2>2. CASE record[r].state = "deleted"
    <3>1. PICK t \in TrashItems : Its = {t}
      BY <2>1, <2>2 DEF TrashInv, ItemsMatch
    <3> QED
      BY <2>2, <3>1, FS_Singleton
  <2>3. CASE record[r].state # "deleted"
    <3>1. Its = {}
      BY <2>1, <2>3 DEF TrashInv, ItemsMatch
    <3> QED
      BY <2>3, <3>1, FS_EmptySet
  <2> QED
    BY <2>2, <2>3
<1> QED
  BY <1>1, TrashInvariance, PTL

-----------------------------------------------------------------------------
(* Requests for quotation.                                                 *)

Bodies == Content \cup {"none"}
RequestKeys == SubmitKeys \cup {0}
Forms == [body : Bodies, key : RequestKeys]

RowsTyped ==
    /\ rfq \in [Rfq -> [state : Status, archived : BOOLEAN, revision : Nat, content : Bodies, key : RequestKeys]]
    /\ bill \in [Invoice -> [state : {"none", "live", "archived"}, rfq : Rfq \cup {0}, content : Bodies]]
    /\ agreed \in [Rfq -> Bodies]
    /\ form \in [Tabs -> Forms]
    /\ wire \subseteq [tab : Tabs, body : Bodies, key : RequestKeys]
    /\ dialog \in [Tabs -> [rfq : Rfq \cup {0}, revision : Nat, shows : Bodies]]

\* A dialog whose revision is still the RFQ's shows its content: nothing that
\* changes the content leaves the revision.
DialogsShow ==
    \A t \in Tabs : dialog[t] # NoDialog =>
        LET r == dialog[t].rfq IN
        /\ r \in Rfq /\ rfq[r].state # "none" /\ dialog[t].revision <= rfq[r].revision
        /\ dialog[t].revision = rfq[r].revision => dialog[t].shows = rfq[r].content

\* An approved RFQ is as it was agreed; one with an invoice takes no edits and no
\* second invoice.
BillsAgree ==
    /\ \A r \in Rfq : rfq[r].state = "approved" => rfq[r].content = agreed[r]
    /\ \A v \in Invoice : bill[v].state # "none" =>
        /\ bill[v].rfq \in Rfq /\ rfq[bill[v].rfq].state \in {"quoted", "closed"}
        /\ bill[v].content = agreed[bill[v].rfq]
    /\ \A v, w \in Invoice : bill[v].state # "none" /\ bill[w].state # "none" /\ bill[v].rfq = bill[w].rfq => v = w

RfqsInv == RowsTyped /\ DialogsShow /\ BillsAgree /\ OneRfqPerSubmission

LEMMA RfqsInitially == RfqsInit => RfqsInv
<1> SUFFICES ASSUME RfqsInit PROVE RfqsInv
  OBVIOUS
<1> USE DEF RfqsInit
<1>1. RowsTyped
  BY DEF RowsTyped, Status, Bodies, RequestKeys, Forms, NoForm, NoDialog
<1>2. DialogsShow /\ BillsAgree /\ OneRfqPerSubmission
  BY DEF DialogsShow, BillsAgree, OneRfqPerSubmission
<1> QED
  BY <1>1, <1>2 DEF RfqsInv

\* The steps of a tab change no RFQ and no invoice.
LEMMA TabStep ==
    ASSUME RfqsInv, NEW t \in Tabs,
           \/ \E c \in Content : SubmitRFQ(t, c)
           \/ Reload(t)
           \/ \E r \in Rfq : EditOriginalRfq(t, r)
           \/ \E m \in wire : LoseRequest(m)
    PROVE  RfqsInv'
<1> USE DEF RfqsInv
<1>1. ASSUME NEW c \in Content, SubmitRFQ(t, c)
      PROVE  RfqsInv'
  <2>1. UNCHANGED <<rfq, bill, dialog, agreed>>
    BY <1>1 DEF SubmitRFQ
  <2>2. RowsTyped'
    BY <1>1 DEF SubmitRFQ, RowsTyped, Forms, Bodies, RequestKeys
  <2> QED
    BY <2>1, <2>2 DEF DialogsShow, BillsAgree, OneRfqPerSubmission
<1>2. CASE Reload(t)
  <2>1. RowsTyped'
    BY <1>2 DEF Reload, RowsTyped, Forms, Bodies, RequestKeys, NoForm, NoDialog
  <2>2. DialogsShow'
    BY <1>2 DEF Reload, RowsTyped, DialogsShow
  <2> QED
    BY <1>2, <2>1, <2>2 DEF Reload, BillsAgree, OneRfqPerSubmission
<1>3. ASSUME NEW r \in Rfq, EditOriginalRfq(t, r)
      PROVE  RfqsInv'
  <2>1. RowsTyped'
    BY <1>3 DEF EditOriginalRfq, RowsTyped
  <2>2. DialogsShow'
    BY <1>3 DEF EditOriginalRfq, RowsTyped, DialogsShow, Live
  <2> QED
    BY <1>3, <2>1, <2>2 DEF EditOriginalRfq, BillsAgree, OneRfqPerSubmission
<1>4. ASSUME NEW m \in wire, LoseRequest(m)
      PROVE  RfqsInv'
  BY <1>4 DEF LoseRequest, RowsTyped, DialogsShow, BillsAgree, OneRfqPerSubmission
<1> QED
  BY <1>1, <1>2, <1>3, <1>4

LEMMA CreateStep ==
    ASSUME RfqsInv, NEW m \in wire, CreateRFQ(m)
    PROVE  RfqsInv'
<1> USE DEF RfqsInv
<1>1. m \in [tab : Tabs, body : Bodies, key : RequestKeys]
  BY DEF RowsTyped
<1>2. \/ UNCHANGED rfq
      \/ /\ \A s \in Rfq : rfq[s].state # "none" => rfq[s].key # m.key
         /\ \E r \in Rfq : /\ rfq[r].state = "none"
                          /\ rfq' = [rfq EXCEPT ![r] = [state |-> "pending", archived |-> FALSE, revision |-> 0,
                                                         content |-> m.body, key |-> m.key]]
  BY DEF CreateRFQ, Known, FreshIn, RowsTyped
<1>3. RowsTyped'
  <2>1. form' \in [Tabs -> Forms]
    BY <1>1 DEF CreateRFQ, RowsTyped, Forms, NoForm, Bodies, RequestKeys
  <2>2. rfq' \in [Rfq -> [state : Status, archived : BOOLEAN, revision : Nat, content : Bodies, key : RequestKeys]]
    <3>1. [state |-> "pending", archived |-> FALSE, revision |-> 0, content |-> m.body, key |-> m.key]
             \in [state : Status, archived : BOOLEAN, revision : Nat, content : Bodies, key : RequestKeys]
      BY <1>1 DEF Status
    <3> QED
      BY <1>2, <3>1 DEF RowsTyped
  <2> QED
    BY <2>1, <2>2 DEF CreateRFQ, RowsTyped
<1>4. UNCHANGED <<bill, dialog, agreed>>
  BY DEF CreateRFQ
<1>5. \A r \in Rfq : rfq[r].state # "none" => rfq'[r] = rfq[r]
  BY <1>2 DEF RowsTyped
<1>6. \A r \in Rfq : rfq'[r].state = "approved" => rfq'[r] = rfq[r]
  BY <1>2 DEF RowsTyped
<1>7. DialogsShow'
  BY <1>4, <1>5 DEF DialogsShow
<1>8. BillsAgree'
  BY <1>4, <1>5, <1>6 DEF BillsAgree
<1>9. OneRfqPerSubmission'
  BY <1>2 DEF RowsTyped, OneRfqPerSubmission
<1> QED
  BY <1>3, <1>7, <1>8, <1>9

LEMMA TransitionStep ==
    ASSUME RfqsInv, NEW r \in Rfq, NEW status \in Status \ {"none", "quoted"}, NEW allowed \in SUBSET Status,
           "quoted" \in allowed => status = "closed",
           "closed" \notin allowed,
           status = "approved" => allowed = {"pending"},
           Transition(r, status, allowed)
    PROVE  RfqsInv'
<1> USE DEF RfqsInv
<1>1. RowsTyped'
  BY DEF Transition, RowsTyped, tabVars
<1>2. DialogsShow'
  BY DEF Transition, RowsTyped, DialogsShow, tabVars
<1>3. BillsAgree'
  <2>1. \A v \in Invoice : bill[v].state # "none" /\ bill[v].rfq = r => status = "closed"
    BY DEF Transition, RowsTyped, BillsAgree
  <2> QED
    BY <2>1 DEF Transition, RowsTyped, BillsAgree
<1>4. OneRfqPerSubmission'
  BY DEF Transition, RowsTyped, OneRfqPerSubmission, Live
<1> QED
  BY <1>1, <1>2, <1>3, <1>4

LEMMA UpdateStep ==
    ASSUME RfqsInv, NEW t \in Tabs, NEW c \in Content, UpdateRFQ(t, c)
    PROVE  RfqsInv'
<1> USE DEF RfqsInv
<1> DEFINE r == dialog[t].rfq
<1>1. r \in Rfq /\ rfq[r].state \in {"pending", "rejected"}
  BY DEF UpdateRFQ, Editable, DialogsShow
<1>2. RowsTyped'
  BY <1>1 DEF UpdateRFQ, RowsTyped, Bodies, RequestKeys, NoDialog
<1>3. DialogsShow'
  BY <1>1 DEF UpdateRFQ, RowsTyped, DialogsShow
<1>4. BillsAgree'
  BY <1>1 DEF UpdateRFQ, RowsTyped, BillsAgree
<1>5. OneRfqPerSubmission'
  BY <1>1 DEF UpdateRFQ, RowsTyped, OneRfqPerSubmission
<1> QED
  BY <1>2, <1>3, <1>4, <1>5

LEMMA RfqsStep ==
    ASSUME RfqsInv, RfqsNext
    PROVE  RfqsInv'
<1> USE DEF RfqsInv
<1>1. ASSUME NEW r \in Rfq, ApproveRFQ(r) \/ RejectRFQ(r) \/ CloseRFQ(r)
      PROVE  RfqsInv'
  BY <1>1, TransitionStep DEF ApproveRFQ, RejectRFQ, CloseRFQ, Status
<1>2. ASSUME NEW r \in Rfq, ArchiveRFQ(r) \/ RestoreRFQ(r)
      PROVE  RfqsInv'
  BY <1>2 DEF ArchiveRFQ, RestoreRFQ, RowsTyped, DialogsShow, BillsAgree, OneRfqPerSubmission, tabVars
<1>3. ASSUME NEW r \in Rfq, NEW v \in Invoice, CreateInvoice(v, r)
      PROVE  RfqsInv'
  <2>1. bill[v].state = "none" /\ rfq[r].state = "approved"
    BY <1>3 DEF CreateInvoice, FreshIn
  <2>2. RowsTyped'
    BY <1>3 DEF CreateInvoice, RowsTyped, Status, tabVars
  <2>3. DialogsShow' /\ OneRfqPerSubmission'
    BY <1>3, <2>1 DEF CreateInvoice, RowsTyped, DialogsShow, OneRfqPerSubmission, tabVars
  <2>4. BillsAgree'
    BY <1>3, <2>1 DEF CreateInvoice, RowsTyped, BillsAgree
  <2> QED
    BY <2>2, <2>3, <2>4
<1>4. ASSUME NEW v \in Invoice, ArchiveBill(v)
      PROVE  RfqsInv'
  BY <1>4 DEF ArchiveBill, RowsTyped, DialogsShow, BillsAgree, OneRfqPerSubmission, tabVars
<1>5. ASSUME NEW m \in wire, LoseRequest(m)
      PROVE  RfqsInv'
  BY <1>5 DEF LoseRequest, RowsTyped, DialogsShow, BillsAgree, OneRfqPerSubmission
<1> QED
  BY <1>1, <1>2, <1>3, <1>4, <1>5, TabStep, CreateStep, UpdateStep DEF RfqsNext

LEMMA RfqsInvariance == Spec => []RfqsInv
<1>1. Init => RfqsInv
  BY RfqsInitially DEF Init
<1>2. RfqsInv /\ [Next]_vars => RfqsInv'
  <2>1. ASSUME RfqsInv, UNCHANGED rfqVars
        PROVE  RfqsInv'
    BY <2>1 DEF RfqsInv, RowsTyped, DialogsShow, BillsAgree, OneRfqPerSubmission, rfqVars
  <2> QED
    BY <2>1, RfqsStep DEF Next, vars
<1> QED
  BY <1>1, <1>2, PTL DEF Spec

\* Every invoice bills what was approved of its RFQ, and no RFQ has two.
THEOREM BilledAsApproved == Spec => []InvoicedAsApproved
<1>1. RfqsInv => InvoicedAsApproved
  BY DEF RfqsInv, BillsAgree, InvoicedAsApproved
<1> QED
  BY <1>1, RfqsInvariance, PTL

\* The only step that changes the content of an RFQ is a save from a dialog that
\* shows it.
LEMMA RfqsEdit ==
    ASSUME RfqsInv, RfqsNext, NEW r \in Rfq, rfq[r].state # "none", rfq'[r].content # rfq[r].content
    PROVE  \E t \in Tabs : dialog[t].rfq = r /\ dialog[t].shows = rfq[r].content
<1> USE DEF RfqsInv
<1>1. ASSUME NEW t \in Tabs, NEW c \in Content, UpdateRFQ(t, c)
      PROVE  dialog[t].rfq = r /\ dialog[t].shows = rfq[r].content
  BY <1>1 DEF UpdateRFQ, Current, RowsTyped, DialogsShow
<1>2. ASSUME NEW m \in wire, CreateRFQ(m)
      PROVE  FALSE
  BY <1>2 DEF CreateRFQ, FreshIn, RowsTyped
<1>3. ASSUME NEW s \in Rfq, \/ ApproveRFQ(s) \/ RejectRFQ(s) \/ CloseRFQ(s) \/ ArchiveRFQ(s) \/ RestoreRFQ(s)
                          \/ \E v \in Invoice : CreateInvoice(v, s)
      PROVE  FALSE
  <2>1. \A status, allowed : ~Transition(s, status, allowed)
    BY DEF Transition, RowsTyped
  <2>2. ~ArchiveRFQ(s)
    BY DEF ArchiveRFQ, RowsTyped
  <2>3. ~RestoreRFQ(s)
    BY DEF RestoreRFQ, RowsTyped
  <2>4. ASSUME NEW v \in Invoice, CreateInvoice(v, s)
        PROVE  FALSE
    BY <2>4 DEF CreateInvoice, RowsTyped
  <2> QED
    BY <1>3, <2>1, <2>2, <2>3, <2>4 DEF ApproveRFQ, RejectRFQ, CloseRFQ
<1>4. \/ \E t \in Tabs, c \in Content : UpdateRFQ(t, c)
      \/ \E m \in wire : CreateRFQ(m)
      \/ \E s \in Rfq : \/ ApproveRFQ(s) \/ RejectRFQ(s) \/ CloseRFQ(s) \/ ArchiveRFQ(s) \/ RestoreRFQ(s)
                       \/ \E v \in Invoice : CreateInvoice(v, s)
  BY DEF RfqsNext, SubmitRFQ, Reload, EditOriginalRfq, LoseRequest, ArchiveBill
<1> QED
  BY <1>1, <1>2, <1>3, <1>4

-----------------------------------------------------------------------------
(* Applications.                                                           *)

Said == Details \cup {Waiting.details}
Rows == [reference : Nat, details : Said, status : {"NEW", "SCREENING"}, resume : Nat, recent : BOOLEAN]
Papers == [application : Nat, bytes : BOOLEAN]
Running == {"register", "attach", "mail"}
Runs == [at : {"idle", "save", "answered"} \cup Running, details : Said, seen : Nat,
         reference : Nat, application : Nat, document : Nat, secured : BOOLEAN]

CareersTyped ==
    /\ application \in Seq(Rows) /\ document \in Seq(Papers)
    /\ letters \subseteq [reference : Nat, application : Nat, kind : Kinds]
    /\ submission \in [Candidates -> Runs]

\* An application keeps the reference it was given, and so do its submissions
\* and its letters.
ReferencesStand ==
    /\ \A a \in 1..Len(application) : application[a].reference = a
    /\ \A c \in Candidates :
        LET s == submission[c] IN
        /\ s.seen # 0 => s.seen \in 1..Len(application)
        /\ s.at \in Running => s.application \in 1..Len(application) /\ s.reference = s.application
    /\ \A l \in letters : l.reference = l.application

\* A letter is the only one of its kind.
LettersDiffer == \A l, k \in letters : l.application = k.application /\ l.kind = k.kind => l = k

\* A CV that is to be attached is the application's, and can be read.
PapersMatch ==
    \A c \in Candidates :
        LET s == submission[c] IN
        s.at = "attach" => /\ s.document \in 1..Len(document)
                           /\ document[s.document] = [application |-> s.application, bytes |-> TRUE]

\* So was what is attached, and who was told of a CV has one.
ResumesMatch ==
    /\ \A a \in 1..Len(application) : application[a].resume # 0 =>
        /\ application[a].resume \in 1..Len(document)
        /\ document[application[a].resume] = [application |-> a, bytes |-> TRUE]
    /\ \A c \in Candidates : submission[c].secured =>
        submission[c].application \in 1..Len(application) /\ application[submission[c].application].resume # 0

CareersInv ==
    CareersTyped /\ ReferencesStand /\ LettersDiffer /\ PapersMatch /\ ResumesMatch

\* A function over the indices of a sequence is a sequence of the same length.
LEMMA Rewritten ==
    ASSUME NEW S, NEW s \in Seq(S), NEW T, NEW t \in [1..Len(s) -> T]
    PROVE  t \in Seq(T) /\ Len(t) = Len(s)
<1>1. Len(s) \in Nat
  BY LenProperties
<1>2. t \in Seq(T)
  BY <1>1, SeqDef
<1>3. DOMAIN t = 1..Len(s) /\ DOMAIN t = 1..Len(t) /\ Len(t) \in Nat
  BY <1>2, LenProperties
<1> QED
  BY <1>1, <1>2, <1>3

LEMMA CareersInitially == CareersInit => CareersInv
BY EmptySeq DEF CareersInit, CareersInv, CareersTyped, ReferencesStand, LettersDiffer, PapersMatch, ResumesMatch,
    Waiting, Said, Runs, Running

LEMMA WaitingRuns == Waiting \in Runs
BY DEF Waiting, Runs, Said, Running

\* A step of a submission that leaves the tables alone.
LEMMA SubmitStep ==
    ASSUME CareersInv, NEW c \in Candidates, NEW details \in Details, Submit(c, details)
    PROVE  CareersInv'
<1> USE DEF CareersInv
<1>1. PICK seen \in IF Recent = {} THEN {0} ELSE Recent :
        submission' = [submission EXCEPT ![c] = [Waiting EXCEPT !.at = "save", !.details = details, !.seen = seen]]
  BY DEF Submit
<1>2. seen \in Nat /\ (seen # 0 => seen \in 1..Len(application))
  BY LenProperties DEF Recent, CareersTyped
<1>3. [Waiting EXCEPT !.at = "save", !.details = details, !.seen = seen] \in Runs
  BY <1>2, WaitingRuns DEF Runs, Said
<1>4. UNCHANGED <<application, document, letters>>
  BY DEF Submit
<1>5. \A d \in Candidates : d # c => submission'[d] = submission[d]
  BY <1>1 DEF CareersTyped
<1>6. submission'[c].at = "save" /\ submission'[c].seen = seen /\ ~submission'[c].secured
  BY <1>1, <1>3 DEF CareersTyped, Waiting
<1>7. CareersTyped'
  BY <1>1, <1>3, <1>4 DEF CareersTyped
<1>8. ReferencesStand'
  BY <1>2, <1>4, <1>5, <1>6 DEF ReferencesStand, Running
<1>9. PapersMatch' /\ ResumesMatch'
  BY <1>4, <1>5, <1>6 DEF PapersMatch, ResumesMatch
<1> QED
  BY <1>4, <1>7, <1>8, <1>9 DEF LettersDiffer

\* A new application has the next reference; a retry changes details only.
LEMMA SaveStep ==
    ASSUME CareersInv, NEW c \in Candidates, Save(c)
    PROVE  CareersInv'
<1> USE DEF CareersInv
<1> DEFINE s == submission[c]
           n == IF s.seen = 0 THEN Len(application) + 1 ELSE s.seen
<1>1. Len(application) \in Nat /\ application \in [1..Len(application) -> Rows] /\ s \in Runs
  BY LenProperties DEF CareersTyped
<1>2. Reference(c) = n
  BY <1>1 DEF Reference, ReferencesStand
<1>3. /\ application' \in Seq(Rows)
      /\ Len(application') = IF s.seen = 0 THEN Len(application) + 1 ELSE Len(application)
      /\ \A a \in 1..Len(application) : /\ application'[a].reference = application[a].reference
                                       /\ application'[a].resume = application[a].resume
      /\ s.seen = 0 => application'[n].reference = n /\ application'[n].resume = 0
  <2>1. CASE s.seen = 0
    <3> DEFINE new == [reference |-> n, details |-> s.details, status |-> "NEW", resume |-> 0, recent |-> TRUE]
    <3>1. application' = Append(application, new)
      BY <2>1, <1>2 DEF Save
    <3>2. new \in Rows
      BY <1>1, <2>1 DEF Runs, Rows
    <3> QED
      BY <1>1, <2>1, <3>1, <3>2 DEF CareersTyped
  <2>2. CASE s.seen # 0 /\ ~Updatable(s.seen)
    BY <2>2 DEF Save, CareersTyped
  <2>3. CASE s.seen # 0 /\ Updatable(s.seen)
    <3>1. application' = [application EXCEPT ![s.seen].details = s.details, ![s.seen].status = "NEW"]
      BY <2>3 DEF Save
    <3>2. application' \in [1..Len(application) -> Rows]
      BY <1>1, <2>3, <3>1 DEF Rows, Runs
    <3>3. application' \in Seq(Rows) /\ Len(application') = Len(application)
      BY <3>2, Rewritten DEF CareersTyped
    <3> QED
      BY <1>1, <2>3, <3>1, <3>3 DEF Rows
  <2> QED
    BY <2>1, <2>2, <2>3
<1>4. submission' = [submission EXCEPT ![c] = [Waiting EXCEPT !.at = "register", !.reference = n, !.application = n]]
  BY <1>2 DEF Save
<1>5. n \in 1..Len(application') /\ n \in Nat
  BY <1>1, <1>3 DEF ReferencesStand, Runs
<1>6. [Waiting EXCEPT !.at = "register", !.reference = n, !.application = n] \in Runs
  BY <1>5, WaitingRuns DEF Runs, Running
<1>7. \A d \in Candidates : d # c => submission'[d] = submission[d]
  BY <1>4 DEF CareersTyped
<1>8. /\ submission'[c].at = "register" /\ submission'[c].seen = 0 /\ ~submission'[c].secured
      /\ submission'[c].reference = n /\ submission'[c].application = n
  BY <1>4, <1>6 DEF CareersTyped, Waiting
<1>9. UNCHANGED <<document, letters>>
  BY DEF Save
<1>10. CareersTyped'
  BY <1>3, <1>4, <1>6, <1>9 DEF CareersTyped
<1>11. ReferencesStand'
  <2>1. \A a \in 1..Len(application') : application'[a].reference = a
    BY <1>1, <1>3 DEF ReferencesStand
  <2> QED
    BY <1>1, <1>3, <1>5, <1>7, <1>8, <1>9, <2>1 DEF ReferencesStand
<1>12. PapersMatch'
  BY <1>7, <1>8, <1>9 DEF PapersMatch
<1>13. ResumesMatch'
  BY <1>1, <1>3, <1>7, <1>8, <1>9 DEF ResumesMatch
<1> QED
  BY <1>9, <1>10, <1>11, <1>12, <1>13 DEF LettersDiffer

\* A submission that goes on to its next step knows what it knew.
LEMMA Moved ==
    ASSUME CareersInv, NEW c \in Candidates, NEW step \in Running \cup {"idle"}, NEW d \in Nat,
           \/ submission' = [submission EXCEPT ![c].at = step]
           \/ submission' = [submission EXCEPT ![c].at = step, ![c].document = d]
    PROVE  /\ submission' \in [Candidates -> Runs]
           /\ submission'[c].at = step
           /\ submission'[c].seen = submission[c].seen /\ submission'[c].reference = submission[c].reference
           /\ submission'[c].application = submission[c].application /\ (submission'[c].secured <=> submission[c].secured)
<1>1. submission[c] \in Runs /\ submission \in [Candidates -> Runs]
  BY DEF CareersInv, CareersTyped
<1>2. CASE submission' = [submission EXCEPT ![c].at = step]
  BY <1>1, <1>2 DEF Runs, Running
<1>3. CASE submission' = [submission EXCEPT ![c].at = step, ![c].document = d]
  BY <1>1, <1>3 DEF Runs, Running
<1> QED
  BY <1>2, <1>3

\* The documents that a registration adds, however it ends, are added last.
LEMMA AddedLast ==
    ASSUME CareersInv, NEW c \in Candidates, submission[c].at = "register", NEW bytes \in BOOLEAN, Registered(c, bytes)
    PROVE  /\ document' \in Seq(Papers) /\ Len(document') = Len(document) + 1 /\ Len(document) \in Nat
           /\ \A d \in 1..Len(document) : document'[d] = document[d]
           /\ document'[Len(document) + 1] = [application |-> submission[c].application, bytes |-> bytes]
<1>1. [application |-> submission[c].application, bytes |-> bytes] \in Papers
  BY DEF CareersInv, CareersTyped, Runs, Papers
<1> QED
  BY <1>1, LenProperties DEF Registered, CareersInv, CareersTyped

LEMMA RegisterStep ==
    ASSUME CareersInv, NEW c \in Candidates,
           FailToRegister(c) \/ \E remote \in BOOLEAN : RegisterDocument(c, remote)
    PROVE  CareersInv'
<1> USE DEF CareersInv
<1>1. submission[c].at = "register" /\ UNCHANGED <<application, letters>>
  BY DEF FailToRegister, RegisterDocument
<1>2. /\ document' \in Seq(Papers) /\ Len(document') >= Len(document) /\ Len(document) \in Nat /\ Len(document') \in Nat
      /\ \A d \in 1..Len(document) : document'[d] = document[d]
  <2>1. document' = document \/ \E bytes \in BOOLEAN : Registered(c, bytes)
    BY DEF FailToRegister, RegisterDocument, FileKept
  <2>2. CASE document' = document
    BY <2>2, LenProperties DEF CareersTyped
  <2>3. ASSUME NEW bytes \in BOOLEAN, Registered(c, bytes)
        PROVE  /\ document' \in Seq(Papers) /\ Len(document') = Len(document) + 1 /\ Len(document) \in Nat
               /\ \A d \in 1..Len(document) : document'[d] = document[d]
    BY <1>1, <2>3, AddedLast
  <2> QED
    BY <2>1, <2>2, <2>3
<1>3. \/ /\ submission' = [submission EXCEPT ![c].at = "mail"]
      \/ /\ submission' = [submission EXCEPT ![c].at = "attach", ![c].document = Len(document) + 1]
         /\ Registered(c, TRUE)
  BY DEF FailToRegister, RegisterDocument, Goes, FileKept
<1>4. /\ submission' \in [Candidates -> Runs]
      /\ submission'[c].seen = submission[c].seen /\ submission'[c].reference = submission[c].reference
      /\ submission'[c].application = submission[c].application /\ (submission'[c].secured <=> submission[c].secured)
  <2>1. CASE submission' = [submission EXCEPT ![c].at = "mail"]
    BY <2>1, Moved DEF Running
  <2>2. CASE submission' = [submission EXCEPT ![c].at = "attach", ![c].document = Len(document) + 1]
    <3>1. Len(document) + 1 \in Nat
      BY <1>2
    <3> QED
      BY <2>2, <3>1, Moved DEF Running
  <2> QED
    BY <1>3, <2>1, <2>2
<1>5. CareersTyped' /\ (\A d \in Candidates : d # c => submission'[d] = submission[d])
  BY <1>1, <1>2, <1>3, <1>4 DEF CareersTyped
<1>6. ReferencesStand'
  BY <1>1, <1>4, <1>5 DEF ReferencesStand, Running
<1>7. ResumesMatch'
  BY <1>1, <1>2, <1>4, <1>5 DEF ResumesMatch
<1>8. PapersMatch'
  <2>1. ASSUME submission'[c].at = "attach"
        PROVE  /\ submission'[c].document \in 1..Len(document')
               /\ document'[submission'[c].document] = [application |-> submission'[c].application, bytes |-> TRUE]
    <3>1. Registered(c, TRUE) /\ submission'[c].document = Len(document) + 1
      BY <1>3, <2>1 DEF CareersTyped, Runs
    <3>2. document'[Len(document) + 1] = [application |-> submission[c].application, bytes |-> TRUE] /\ Len(document') = Len(document) + 1
      BY <1>1, <3>1, AddedLast
    <3> QED
      BY <1>2, <1>4, <3>1, <3>2
  <2>2. \A d \in Candidates \ {c} : submission'[d].at = "attach" =>
           /\ submission'[d].document \in 1..Len(document')
           /\ document'[submission'[d].document] = [application |-> submission'[d].application, bytes |-> TRUE]
    BY <1>2, <1>5 DEF PapersMatch
  <2> QED
    BY <2>1, <2>2 DEF PapersMatch
<1> QED
  BY <1>1, <1>5, <1>6, <1>7, <1>8 DEF LettersDiffer

LEMMA AttachStep ==
    ASSUME CareersInv, NEW c \in Candidates, NEW answered \in BOOLEAN, Attach(c, answered)
    PROVE  CareersInv'
<1> USE DEF CareersInv
<1> DEFINE a == submission[c].application
           d == submission[c].document
<1>1. Len(application) \in Nat /\ application \in [1..Len(application) -> Rows] /\ Len(document) \in Nat
  BY LenProperties DEF CareersTyped
<1>2. /\ a \in 1..Len(application) /\ d \in 1..Len(document)
      /\ document[d] = [application |-> a, bytes |-> TRUE]
  BY DEF Attach, ReferencesStand, PapersMatch, Running
<1>3. application' \in Seq(Rows) /\ Len(application') = Len(application)
  <2>1. application' \in [1..Len(application) -> Rows]
    BY <1>1, <1>2 DEF Attach, Rows
  <2> QED
    BY <2>1, Rewritten DEF CareersTyped
<1>4. /\ \A b \in 1..Len(application) : b # a => application'[b] = application[b]
      /\ application'[a].resume = d /\ application'[a].reference = application[a].reference
  BY <1>1, <1>2 DEF Attach, Rows
<1>5. UNCHANGED <<document, letters>>
  BY DEF Attach
<1>6. CareersTyped' /\ (\A b \in Candidates : b # c => submission'[b] = submission[b])
  BY <1>3, <1>5 DEF Attach, CareersTyped, Runs, Running
<1>7. /\ submission'[c].at = "mail" /\ submission'[c].application = a
      /\ submission'[c].reference = submission[c].reference /\ submission'[c].seen = submission[c].seen
  BY DEF Attach, CareersTyped, Runs
<1>8. ReferencesStand'
  <2>1. \A b \in 1..Len(application') : application'[b].reference = b
    BY <1>2, <1>3, <1>4 DEF ReferencesStand
  <2>2. submission[c].at = "attach"
    BY DEF Attach
  <2> QED
    BY <1>3, <1>5, <1>6, <1>7, <2>1, <2>2 DEF ReferencesStand, Running
<1>9. PapersMatch'
  BY <1>5, <1>6, <1>7 DEF PapersMatch
<1>10. ResumesMatch'
  <2>1. \A b \in 1..Len(application) : application[b].resume # 0 => application'[b].resume # 0
    BY <1>1, <1>2, <1>4
  <2>2. \A b \in 1..Len(application') : application'[b].resume # 0 =>
           /\ application'[b].resume \in 1..Len(document')
           /\ document'[application'[b].resume] = [application |-> b, bytes |-> TRUE]
    BY <1>2, <1>3, <1>4, <1>5 DEF ResumesMatch
  <2>3. application'[a].resume # 0
    BY <1>1, <1>2, <1>4
  <2> QED
    BY <1>2, <1>3, <1>6, <1>7, <2>1, <2>2, <2>3 DEF ResumesMatch
<1> QED
  BY <1>5, <1>6, <1>8, <1>9, <1>10 DEF LettersDiffer

LEMMA QueueStep ==
    ASSUME CareersInv, NEW c \in Candidates, QueueEmails(c)
    PROVE  CareersInv'
<1> USE DEF CareersInv
<1> DEFINE s == submission[c]
           Absent(kind) == ~ \E l \in letters : l.reference = s.reference /\ l.kind = kind
<1>1. s.at = "mail" /\ s.application \in 1..Len(application) /\ s.reference = s.application /\ s \in Runs
  BY DEF QueueEmails, ReferencesStand, Running, CareersTyped
<1>2. PICK kinds \in SUBSET Kinds :
        letters' = letters \cup {[reference |-> s.reference, application |-> s.application, kind |-> k] : k \in {k \in kinds : Absent(k)}}
  BY DEF QueueEmails
<1>3. UNCHANGED <<application, document>>
  BY DEF QueueEmails
<1>4. submission' = [submission EXCEPT ![c] = [Waiting EXCEPT !.at = "answered", !.application = s.application, !.secured = s.secured]]
  BY DEF QueueEmails
<1>5. [Waiting EXCEPT !.at = "answered", !.application = s.application, !.secured = s.secured] \in Runs
  BY <1>1, WaitingRuns DEF Runs, Running
<1>6. \A d \in Candidates : d # c => submission'[d] = submission[d]
  BY <1>4 DEF CareersTyped
<1>7. /\ submission'[c].at = "answered" /\ submission'[c].seen = 0
      /\ submission'[c].application = s.application /\ submission'[c].secured = s.secured
  BY <1>1, <1>4, <1>5 DEF CareersTyped, Waiting, Runs
<1>8. \A l \in letters' : l \in letters \/ (/\ l.reference = s.reference /\ l.application = s.application
                                          /\ l.kind \in kinds /\ Absent(l.kind)
                                          /\ l = [reference |-> s.reference, application |-> s.application, kind |-> l.kind])
  BY <1>2
<1>9. CareersTyped'
  <2>1. letters' \subseteq [reference : Nat, application : Nat, kind : Kinds]
    BY <1>1, <1>8 DEF CareersTyped, Runs
  <2> QED
    BY <1>3, <1>4, <1>5, <2>1 DEF CareersTyped
<1>10. ReferencesStand'
  BY <1>1, <1>3, <1>6, <1>7, <1>8 DEF ReferencesStand, Running
<1>11. LettersDiffer'
  BY <1>1, <1>8 DEF LettersDiffer, ReferencesStand
<1>12. PapersMatch' /\ ResumesMatch'
  BY <1>3, <1>6, <1>7 DEF PapersMatch, ResumesMatch
<1> QED
  BY <1>9, <1>10, <1>11, <1>12

LEMMA OtherCareersStep ==
    ASSUME CareersInv,
           \/ \E c \in Candidates : FailToAttach(c) \/ LoseSubmission(c)
           \/ \E a \in DOMAIN application, status \in {"NEW", "SCREENING"} : UpdateApplicationStatus(a, status)
           \/ \E status \in {"OPEN", "CLOSED"} : SetJobStatus(status)
           \/ HalfAnHourPasses
    PROVE  CareersInv'
<1> USE DEF CareersInv
<1>0. Len(application) \in Nat /\ application \in [1..Len(application) -> Rows] /\ DOMAIN application = 1..Len(application)
  BY LenProperties DEF CareersTyped
<1>1. ASSUME NEW c \in Candidates, FailToAttach(c) \/ LoseSubmission(c)
      PROVE  CareersInv'
  <2>1. UNCHANGED <<application, document, letters>>
    BY <1>1 DEF FailToAttach, LoseSubmission
  <2>2. \/ submission[c].at \in Running /\ submission' = [submission EXCEPT ![c].at = "mail"]
        \/ submission' = [submission EXCEPT ![c] = Waiting]
    BY <1>1 DEF FailToAttach, LoseSubmission, Goes, Running
  <2>3. CASE submission' = [submission EXCEPT ![c] = Waiting]
    <3>1. CareersTyped'
      BY <2>1, <2>3, WaitingRuns DEF CareersTyped
    <3>2. /\ \A d \in Candidates : d # c => submission'[d] = submission[d]
          /\ submission'[c].at = "idle" /\ submission'[c].seen = 0 /\ ~submission'[c].secured
      BY <2>3 DEF CareersTyped, Waiting
    <3> QED
      BY <2>1, <3>1, <3>2 DEF ReferencesStand, Running, LettersDiffer, PapersMatch, ResumesMatch
  <2>4. CASE submission[c].at \in Running /\ submission' = [submission EXCEPT ![c].at = "mail"]
    <3>1. CareersTyped'
      BY <2>1, <2>4, Moved DEF CareersTyped, Running
    <3>2. \A d \in Candidates : d # c => submission'[d] = submission[d]
      BY <2>4 DEF CareersTyped
    <3>3. /\ submission'[c].at = "mail"
          /\ submission'[c].seen = submission[c].seen /\ submission'[c].reference = submission[c].reference
          /\ submission'[c].application = submission[c].application /\ (submission'[c].secured <=> submission[c].secured)
      BY <2>4, Moved DEF Running
    <3>4. ReferencesStand'
      BY <2>1, <2>4, <3>2, <3>3 DEF ReferencesStand, Running
    <3>5. PapersMatch' /\ ResumesMatch'
      BY <2>1, <3>2, <3>3 DEF PapersMatch, ResumesMatch
    <3> QED
      BY <2>1, <3>1, <3>4, <3>5 DEF LettersDiffer
  <2> QED
    BY <2>2, <2>3, <2>4
<1>2. ASSUME /\ application' \in [1..Len(application) -> Rows] /\ UNCHANGED <<document, letters, submission>>
             /\ \A a \in 1..Len(application) : /\ application'[a].reference = application[a].reference
                                              /\ application'[a].resume = application[a].resume
      PROVE  CareersInv'
  <2>1. application' \in Seq(Rows) /\ Len(application') = Len(application)
    BY <1>2, Rewritten DEF CareersTyped
  <2> QED
    BY <1>2, <2>1 DEF CareersTyped, ReferencesStand, LettersDiffer, PapersMatch, ResumesMatch
<1>3. ASSUME NEW a \in DOMAIN application, NEW status \in {"NEW", "SCREENING"}, UpdateApplicationStatus(a, status)
      PROVE  CareersInv'
  BY <1>0, <1>2, <1>3 DEF UpdateApplicationStatus, Rows
<1>4. ASSUME NEW status \in {"OPEN", "CLOSED"}, SetJobStatus(status)
      PROVE  CareersInv'
  BY <1>4 DEF SetJobStatus, CareersTyped, ReferencesStand, LettersDiffer, PapersMatch, ResumesMatch
<1>5. CASE HalfAnHourPasses
  BY <1>0, <1>2, <1>5 DEF HalfAnHourPasses, Rows
<1> QED
  BY <1>1, <1>3, <1>4, <1>5

LEMMA CareersStep ==
    ASSUME CareersInv, CareersNext
    PROVE  CareersInv'
BY SubmitStep, SaveStep, RegisterStep, AttachStep, QueueStep, OtherCareersStep DEF CareersNext

LEMMA CareersInvariance == Spec => []CareersInv
<1>1. Init => CareersInv
  BY CareersInitially DEF Init
<1>2. CareersInv /\ [Next]_vars => CareersInv'
  <2>1. ASSUME CareersInv, UNCHANGED careerVars
        PROVE  CareersInv'
    BY <2>1 DEF CareersInv, CareersTyped, ReferencesStand, LettersDiffer, PapersMatch, ResumesMatch, careerVars
  <2> QED
    BY <2>1, CareersStep DEF Next, vars
<1> QED
  BY <1>1, <1>2, PTL DEF Spec

\* However often a submission is sent again, and whatever fails half way, it
\* makes one RFQ, or one announcement of an application whose CV can be read.
THEOREM SubmissionsActOnce == Spec => []IntakeHolds
<1>1. RfqsInv => OneRfqPerSubmission
  BY DEF RfqsInv
<1>2. ASSUME CareersInv
      PROVE  OneLetterEach
  <2> SUFFICES ASSUME NEW a \in DOMAIN application, NEW k \in Kinds
               PROVE  Cardinality({l \in letters : l.application = a /\ l.kind = k}) <= 1
    BY DEF OneLetterEach
  <2> DEFINE Sent == {l \in letters : l.application = a /\ l.kind = k}
  <2>1. Sent = {} \/ \E l : Sent = {l}
    BY <1>2 DEF CareersInv, LettersDiffer
  <2>2. Cardinality(Sent) = 0 \/ Cardinality(Sent) = 1
    BY <2>1, FS_EmptySet, FS_Singleton
  <2> QED
    BY <2>2
<1>3. ASSUME CareersInv
      PROVE  ResumeIsKept
  <2>1. DOMAIN application = 1..Len(application)
    BY <1>3, LenProperties DEF CareersInv, CareersTyped
  <2>2. ASSUME NEW a \in 1..Len(application), application[a].resume # 0
        PROVE  document[application[a].resume].application = a /\ document[application[a].resume].bytes
    <3>1. document[application[a].resume] = [application |-> a, bytes |-> TRUE]
      BY <1>3, <2>2 DEF CareersInv, ResumesMatch
    <3> QED
      BY <3>1
  <2>3. \A c \in Candidates : submission[c].secured => application[submission[c].application].resume # 0
    BY <1>3 DEF CareersInv, ResumesMatch
  <2> QED
    BY <2>1, <2>2, <2>3 DEF ResumeIsKept
<1> QED
  BY <1>1, <1>2, <1>3, RfqsInvariance, CareersInvariance, PTL DEF IntakeHolds

\* No step rewrites what an application says once it has its CV.
LEMMA DetailsStay ==
    ASSUME CareersInv, CareersNext, NEW a \in DOMAIN application, application[a].resume # 0
    PROVE  application'[a].details = application[a].details
<1>1. /\ Len(application) \in Nat /\ application \in [1..Len(application) -> Rows]
      /\ a \in 1..Len(application) /\ application \in Seq(Rows)
  BY LenProperties DEF CareersInv, CareersTyped
<1>2. ASSUME NEW c \in Candidates, Save(c)
      PROVE  application'[a] = application[a] \/ application'[a].details = application[a].details
  <2>1. CASE submission[c].seen = 0
    BY <1>1, <1>2, <2>1 DEF Save
  <2>2. CASE submission[c].seen # 0
    BY <1>1, <1>2, <2>2 DEF Save, Updatable
  <2> QED
    BY <2>1, <2>2
<1>3. ASSUME NEW c \in Candidates, NEW answered \in BOOLEAN, Attach(c, answered)
      PROVE  application'[a].details = application[a].details
  BY <1>1, <1>3 DEF Attach, Rows
<1>4. ASSUME NEW b \in DOMAIN application, NEW status \in {"NEW", "SCREENING"}, UpdateApplicationStatus(b, status)
      PROVE  application'[a].details = application[a].details
  BY <1>1, <1>4 DEF UpdateApplicationStatus, Rows
<1>5. CASE HalfAnHourPasses
  BY <1>1, <1>5 DEF HalfAnHourPasses, Rows
<1>6. \/ UNCHANGED application \/ HalfAnHourPasses
      \/ \E c \in Candidates : Save(c) \/ \E answered \in BOOLEAN : Attach(c, answered)
      \/ \E b \in DOMAIN application, status \in {"NEW", "SCREENING"} : UpdateApplicationStatus(b, status)
  BY DEF CareersNext, Submit, RegisterDocument, FailToRegister, FailToAttach, QueueEmails, LoseSubmission, SetJobStatus
<1> QED
  BY <1>2, <1>3, <1>4, <1>5, <1>6

\* Whoever saves has seen what the save replaces: no edit of an RFQ, and no
\* retry of an application, goes over what came after it was opened.
THEOREM EditsAreOfWhatWasSeen == Spec => EditsStand
<1> DEFINE RfqEdits == \A r \in Rfq :
               rfq[r].state # "none" /\ rfq'[r].content # rfq[r].content =>
                   \E t \in Tabs : dialog[t].rfq = r /\ dialog[t].shows = rfq[r].content
           Completed == \A a \in DOMAIN application :
               application[a].resume # 0 => application'[a].details = application[a].details
<1>1. RfqsInv /\ [Next]_vars => [RfqEdits]_rfqVars
  BY RfqsEdit DEF Next, vars
<1>2. CareersInv /\ [Next]_vars => [Completed]_careerVars
  BY DetailsStay DEF Next, vars
<1> QED
  BY <1>1, <1>2, RfqsInvariance, CareersInvariance, PTL DEF Spec, EditsStand, NoLostEdit, SecuredDetailsStand

-----------------------------------------------------------------------------
(* Approval requests.  What ApprovalWorkflowProofs shows of the workflow    *)
(* by itself holds of it here.                                             *)

A == INSTANCE ApprovalWorkflowProofs WITH
         Sweepers <- {}, Limit <- 1, Sla <- 1, Window <- 1, Grace <- 1, MaxTime <- 0,
         batch <- due, clock <- hour

LEMMA WorkflowOK == A!WorkflowConstants
BY ApprovalAssumption DEF A!WorkflowConstants, Approval!WorkflowConstants, A!IsFiniteSet, Approval!IsFiniteSet

\* The workflow of Records is the workflow of the proofs.
LEMMA SameApprovals == (Approval!Init <=> A!Init) /\ (Approval!Next <=> A!Next)
<1> USE DEF A!Steps, Approval!Steps, A!Rows, Approval!Rows, A!Never, Approval!Never,
            A!Active, Approval!Active, A!Row, Approval!Row, A!AssignmentStatus, Approval!AssignmentStatus,
            A!StepOf, Approval!StepOf, A!LastStep, Approval!LastStep,
            A!StepRows, Approval!StepRows, A!InstanceRows, Approval!InstanceRows,
            A!With, Approval!With, A!Exists, Approval!Exists, A!Resolve, Approval!Resolve,
            A!Ready, Approval!Ready, A!StatusFor, Approval!StatusFor, A!Cardinality, Approval!Cardinality,
            A!Assign, Approval!Assign, A!Close, Approval!Close, A!MayAct, Approval!MayAct,
            A!Decided, Approval!Decided, A!Required, Approval!Required, A!Enough, Approval!Enough
<1>1. Approval!Init <=> A!Init
  BY DEF A!Init, Approval!Init
<1>2. (Approval!Publish <=> A!Publish) /\ (Approval!Tick <=> A!Tick)
  BY DEF A!Publish, Approval!Publish, A!Tick, Approval!Tick
<1>3. \A i, u : Approval!Start(i, u) <=> A!Start(i, u)
  BY DEF A!Start, Approval!Start, A!NoneActive, Approval!NoneActive
<1>4. \A i, u : Approval!ApproveMore(i, u) <=> A!ApproveMore(i, u)
  BY DEF A!ApproveMore, Approval!ApproveMore
<1>5. \A i, u : Approval!ApproveStep(i, u) <=> A!ApproveStep(i, u)
  BY DEF A!ApproveStep, Approval!ApproveStep
<1>6. \A i, u : Approval!ApproveRequest(i, u) <=> A!ApproveRequest(i, u)
  BY DEF A!ApproveRequest, Approval!ApproveRequest
<1>7. \A i, u : Approval!Reject(i, u) <=> A!Reject(i, u)
  BY DEF A!Reject, Approval!Reject, A!Decline, Approval!Decline
<1>8. \A i, u : Approval!RequestChanges(i, u) <=> A!RequestChanges(i, u)
  BY DEF A!RequestChanges, Approval!RequestChanges, A!Decline, Approval!Decline
<1>9. \A i : Approval!Cancel(i) <=> A!Cancel(i)
  BY DEF A!Cancel, Approval!Cancel, A!Cancellable, Approval!Cancellable
<1>10. \A i, u : Approval!Reassign(i, u) <=> A!Reassign(i, u)
  BY DEF A!Reassign, Approval!Reassign, A!NewDeadline, Approval!NewDeadline
<1> QED
  BY <1>1, <1>2, <1>3, <1>4, <1>5, <1>6, <1>7, <1>8, <1>9, <1>10
     DEF A!Next, Approval!Next, A!Review, Approval!Review

ApprovalInv == A!TypeOK /\ A!StepInVersion /\ A!PendingIsCurrent /\ A!QuorumInv

LEMMA ApprovalInitially == Approval!Init => ApprovalInv
<1>1. A!Init => A!TypeOK /\ A!StepInVersion
  BY WorkflowOK, A!TypeInit
<1>2. A!Init => A!PendingIsCurrent
  BY WorkflowOK, A!PendingInit
<1>3. A!Init => A!QuorumInv
  BY WorkflowOK, A!QuorumInit
<1> QED
  BY <1>1, <1>2, <1>3, SameApprovals DEF ApprovalInv

LEMMA ApprovalStep ==
    ASSUME ApprovalInv, [Next]_vars
    PROVE  ApprovalInv'
<1>1. [A!Next]_(A!vars)
  BY SameApprovals DEF Next, vars, approvalVars, A!vars
<1>2. A!TypeOK' /\ A!StepInVersion'
  BY <1>1, WorkflowOK, A!TypeNext DEF ApprovalInv
<1>3. A!PendingIsCurrent'
  BY <1>1, WorkflowOK, A!PendingNext DEF ApprovalInv
<1>4. A!QuorumInv'
  BY <1>1, WorkflowOK, A!QuorumNext DEF ApprovalInv
<1> QED
  BY <1>2, <1>3, <1>4 DEF ApprovalInv

\* What is approved had the reviewers its version asks for, and a request under
\* review always has somebody left to decide it.
THEOREM ApprovalsHaveTheirQuorum == Spec => []ApprovalsHold
<1>1. Init => ApprovalInv
  BY ApprovalInitially DEF Init
<1>2. ApprovalInv /\ [Next]_vars => ApprovalInv'
  BY ApprovalStep
<1>3. ApprovalInv => ApprovalsHold
  <2>1. ApprovalInv => A!ApprovedByQuorum
    BY WorkflowOK, A!QuorumIsKept DEF ApprovalInv
  <2>2. ApprovalInv => A!AnyStepIsReviewable
    BY WorkflowOK, A!SomebodyIsLeft DEF ApprovalInv
  <2>3. A!ApprovedByQuorum => Approval!ApprovedByQuorum
    BY DEF A!ApprovedByQuorum, Approval!ApprovedByQuorum, A!Cardinality, Approval!Cardinality
  <2>4. A!AnyStepIsReviewable => Approval!AnyStepIsReviewable
    BY DEF A!AnyStepIsReviewable, Approval!AnyStepIsReviewable, A!StepOf, Approval!StepOf,
           A!With, Approval!With, A!StepRows, Approval!StepRows, A!Rows, Approval!Rows,
           A!Steps, Approval!Steps
  <2> QED
    BY <2>1, <2>2, <2>3, <2>4 DEF ApprovalsHold
<1> QED
  BY <1>1, <1>2, <1>3, PTL DEF Spec

-----------------------------------------------------------------------------
(* Materials.                                                              *)

Entries == [input : Units \X Units, current : Units \X Units]

MaterialTyped ==
    material \in [Materials -> [state : {"none", "live", "archived"}, input : Units, current : Units,
                                log : Seq(Entries)]]

\* The log of a material starts from nothing, and ends at what is on record.
Ended(m) ==
    IF m.state = "none" THEN m = NoMaterial
    ELSE /\ Len(m.log) > 0 /\ m.log[1].current[1] = 0
         /\ m.log[Len(m.log)].input[2] = m.input /\ m.log[Len(m.log)].current[2] = m.current

Chained(log) ==
    \A k \in 2..Len(log) : /\ log[k].input[1] = log[k - 1].input[2]
                           /\ log[k].current[1] = log[k - 1].current[2]

LogEnds == \A x \in Materials : Ended(material[x])
LogChains == \A x \in Materials : Chained(material[x].log)

MaterialInv == MaterialTyped /\ LogEnds /\ LogChains

LEMMA MaterialInitially == InventoryInit => MaterialInv
<1> SUFFICES ASSUME InventoryInit PROVE MaterialInv
  OBVIOUS
<1>1. << >> \in Seq(Entries) /\ 0 \in Units /\ Len(<< >>) = 0
  BY InventoryAssumption, EmptySeq DEF Units
<1>2. MaterialTyped
  BY <1>1 DEF InventoryInit, MaterialTyped, NoMaterial
<1>3. LogEnds
  BY DEF InventoryInit, LogEnds, Ended, NoMaterial
<1>4. LogChains
  BY DEF InventoryInit, LogChains, Chained, NoMaterial
<1> QED
  BY <1>2, <1>3, <1>4 DEF MaterialInv

LEMMA SaveMaterialStep ==
    ASSUME MaterialInv, NEW x \in Materials, NEW input \in Units, NEW current \in Units,
           SaveMaterial(x, input, current)
    PROVE  MaterialInv'
<1> DEFINE old == material[x]
           log == old.log
           entry == [input |-> <<old.input, input>>, current |-> <<old.current, current>>]
           new == Logged(x, input, current)
<1>1. /\ old.state \in {"none", "live", "archived"} /\ old.input \in Units /\ old.current \in Units
      /\ log \in Seq(Entries) /\ Len(log) \in Nat
  BY LenProperties DEF MaterialInv, MaterialTyped
<1>2. entry \in Entries
  BY <1>1 DEF Entries
<1>3. material' = [material EXCEPT ![x] = [state |-> "live", input |-> input, current |-> current, log |-> new]]
  BY DEF SaveMaterial
<1>4. CASE old.state # "none" /\ old.input = input /\ old.current = current
  <2>1. new = log
    BY <1>4 DEF Logged
  <2>2. MaterialTyped'
    BY <1>1, <1>3, <2>1 DEF MaterialInv, MaterialTyped
  <2>3. LogEnds'
    BY <1>3, <1>4, <2>1 DEF MaterialInv, MaterialTyped, LogEnds, Ended
  <2>4. LogChains'
    BY <1>3, <2>1 DEF MaterialInv, MaterialTyped, LogChains
  <2> QED
    BY <2>2, <2>3, <2>4 DEF MaterialInv
<1>5. CASE ~(old.state # "none" /\ old.input = input /\ old.current = current)
  <2>1. new = Append(log, entry)
    BY <1>5 DEF Logged
  <2> HIDE DEF entry, new
  <2>2. /\ new \in Seq(Entries) /\ Len(new) = Len(log) + 1
        /\ new[Len(log) + 1] = entry
        /\ \A k \in 1..Len(log) : new[k] = log[k]
    BY <1>1, <1>2, <2>1, AppendProperties
  <2>3. MaterialTyped'
    BY <1>1, <1>3, <2>2 DEF MaterialInv, MaterialTyped
  <2>4. new[1].current[1] = 0
    <3>1. CASE old.state = "none"
      BY <1>1, <2>2, <3>1 DEF MaterialInv, LogEnds, Ended, NoMaterial, entry
    <3>2. CASE old.state # "none"
      <4>1. Len(log) > 0 /\ log[1].current[1] = 0
        BY <3>2 DEF MaterialInv, LogEnds, Ended
      <4>2. 1 \in 1..Len(log)
        BY <1>1, <4>1
      <4> QED
        BY <2>2, <4>1, <4>2
    <3> QED
      BY <3>1, <3>2
  <2>5. new[Len(new)].input[2] = input /\ new[Len(new)].current[2] = current /\ Len(new) > 0
    BY <1>1, <2>2 DEF entry
  <2>6. LogEnds'
    BY <1>3, <2>4, <2>5 DEF MaterialInv, MaterialTyped, LogEnds, Ended
  <2>7. ASSUME NEW k \in 2..Len(new)
        PROVE  /\ new[k].input[1] = new[k - 1].input[2]
               /\ new[k].current[1] = new[k - 1].current[2]
    <3>1. CASE k = Len(log) + 1
      <4>1. Len(log) > 0 /\ k - 1 = Len(log) /\ Len(log) \in 1..Len(log)
        BY <1>1, <2>7, <3>1
      <4>2. old.state # "none"
        BY <4>1 DEF MaterialInv, LogEnds, Ended, NoMaterial
      <4>3. log[Len(log)].input[2] = old.input /\ log[Len(log)].current[2] = old.current
        BY <4>2 DEF MaterialInv, LogEnds, Ended
      <4>4. new[k - 1] = log[Len(log)] /\ new[k] = entry
        BY <2>2, <3>1, <4>1
      <4> QED
        BY <4>3, <4>4 DEF entry
    <3>2. CASE k # Len(log) + 1
      <4>1. k \in 2..Len(log) /\ k \in 1..Len(log) /\ k - 1 \in 1..Len(log)
        BY <1>1, <2>2, <2>7, <3>2
      <4>2. new[k] = log[k] /\ new[k - 1] = log[k - 1]
        BY <2>2, <4>1
      <4> QED
        BY <4>1, <4>2 DEF MaterialInv, LogChains, Chained
    <3> QED
      BY <3>1, <3>2
  <2>8. LogChains'
    BY <1>3, <2>7 DEF MaterialInv, MaterialTyped, LogChains, Chained
  <2> QED
    BY <2>3, <2>6, <2>8 DEF MaterialInv
<1> QED
  BY <1>4, <1>5

LEMMA MaterialStep ==
    ASSUME MaterialInv, MaterialNext
    PROVE  MaterialInv'
<1>1. ASSUME NEW x \in Materials, ArchiveMaterial(x) \/ RestoreMaterial(x)
      PROVE  MaterialInv'
  <2>1. PICK state \in {"live", "archived"} : material' = [material EXCEPT ![x].state = state]
    BY <1>1 DEF ArchiveMaterial, RestoreMaterial
  <2>2. material[x].state # "none"
    BY <1>1 DEF ArchiveMaterial, RestoreMaterial
  <2>3. MaterialTyped'
    BY <2>1 DEF MaterialInv, MaterialTyped
  <2>4. \A y \in Materials :
           /\ material'[y].log = material[y].log
           /\ material'[y].input = material[y].input
           /\ material'[y].current = material[y].current
           /\ y # x => material'[y] = material[y]
    BY <2>1 DEF MaterialInv, MaterialTyped
  <2>5. material'[x].state # "none"
    BY <2>1 DEF MaterialInv, MaterialTyped
  <2>6. ASSUME NEW y \in Materials
        PROVE  Ended(material'[y]) /\ Chained(material'[y].log)
    <3>1. Ended(material[y]) /\ Chained(material[y].log)
      BY DEF MaterialInv, LogEnds, LogChains
    <3>2. CASE y # x
      BY <2>4, <2>6, <3>1, <3>2
    <3>3. CASE y = x
      <4>1. material'[x].log = material[x].log
        BY <1>1, <2>4
      <4>2. /\ Len(material[x].log) > 0 /\ material[x].log[1].current[1] = 0
            /\ material[x].log[Len(material[x].log)].input[2] = material[x].input
            /\ material[x].log[Len(material[x].log)].current[2] = material[x].current
        BY <2>2, <3>1, <3>3 DEF Ended
      <4>3. Ended(material'[x])
        BY <1>1, <2>4, <2>5, <4>2 DEF Ended
      <4> QED
        BY <3>1, <3>3, <4>1, <4>3
    <3> QED
      BY <3>2, <3>3
  <2>7. LogEnds' /\ LogChains'
    BY <2>6 DEF LogEnds, LogChains
  <2> QED
    BY <2>3, <2>6, <2>7 DEF MaterialInv
<1> QED
  BY <1>1, SaveMaterialStep DEF MaterialNext

LEMMA MaterialInvariance == Spec => []MaterialInv
<1>1. Init => MaterialInv
  BY MaterialInitially DEF Init
<1>2. MaterialInv /\ [Next]_vars => MaterialInv'
  <2> SUFFICES ASSUME MaterialInv, [Next]_vars PROVE MaterialInv'
    OBVIOUS
  <2>1. CASE UNCHANGED material
    BY <2>1 DEF MaterialInv, MaterialTyped, LogEnds, LogChains
  <2>2. CASE MaterialNext
    BY <2>2, MaterialStep
  <2> QED
    BY <2>1, <2>2 DEF Next, vars, inventoryVars, StockNext, CreateBatch, EditBatch, ArchiveBatch,
                      RestoreBatch, IssueStock, UpdateStockMovement, DeleteStockMovement
<1> QED
  BY <1>1, <1>2, PTL DEF Spec

LEMMA MaterialLogged == MaterialInv => MaterialHistory
<1> SUFFICES ASSUME MaterialInv, NEW x \in Materials
             PROVE  LET log == material[x].log
                    IN  /\ \A k \in 2..Len(log) : /\ log[k].input[1] = log[k - 1].input[2]
                                                  /\ log[k].current[1] = log[k - 1].current[2]
                        /\ material[x].state # "none" =>
                              /\ log # << >> /\ log[1].current[1] = 0
                              /\ Last(log).input[2] = material[x].input
                              /\ Last(log).current[2] = material[x].current
  BY DEF MaterialHistory
<1>1. material[x].state # "none" => material[x].log # << >>
  BY EmptySeq DEF MaterialInv, LogEnds, Ended
<1> QED
  BY <1>1 DEF MaterialInv, LogEnds, Ended, LogChains, Chained, Last

-----------------------------------------------------------------------------
(* Stock.                                                                  *)

BatchRows == [state : {"none", "live", "archived"}, units : Units, current : Units]
IssueRows == [state : {"none", "issued", "voided"}, batch : Batches \cup {0}, quantity : Units,
              key : RetryKeys \cup {NoKey}]

\* What an issue takes from a batch, and what a table of issues takes from it.
Share(row, b) == IF row.state = "issued" /\ row.batch = b THEN row.quantity ELSE 0
Taken(table, b) ==
    SumFunctionOnSet([i \in Issues |-> table[i].quantity],
                     {i \in Issues : table[i].state = "issued" /\ table[i].batch = b})

StockTyped == batch \in [Batches -> BatchRows] /\ issue \in [Issues -> IssueRows]
Untouched == \A b \in Batches : batch[b].state = "none" => batch[b].units = 0 /\ batch[b].current = 0
TakenFromBatches == \A i \in Issues : issue[i].state = "issued" => issue[i].batch \in Batches
Balanced == \A b \in Batches : batch[b].current + Taken(issue, b) = batch[b].units
KeysSpentOnce == \A i, j \in Issues : issue[i].key = issue[j].key /\ issue[i].key # NoKey => i = j

StockInv == StockTyped /\ Untouched /\ TakenFromBatches /\ Balanced /\ KeysSpentOnce

\* Changing one issue changes what is taken by its share.
LEMMA IssueChanges ==
    \A t, u \in [Issues -> IssueRows], i \in Issues, b \in Batches :
        (\A j \in Issues : j # i => t[j] = u[j]) =>
            \E rest \in Nat : Taken(t, b) = Share(t[i], b) + rest /\ Taken(u, b) = Share(u[i], b) + rest
<1> SUFFICES ASSUME NEW t \in [Issues -> IssueRows], NEW u \in [Issues -> IssueRows], NEW i \in Issues,
                    NEW b \in Batches, \A j \in Issues : j # i => t[j] = u[j]
             PROVE  \E rest \in Nat : Taken(t, b) = Share(t[i], b) + rest /\ Taken(u, b) = Share(u[i], b) + rest
  OBVIOUS
<1> DEFINE S == {j \in Issues : t[j].state = "issued" /\ t[j].batch = b}
           T == {j \in Issues : u[j].state = "issued" /\ u[j].batch = b}
           f == [j \in Issues |-> t[j].quantity]
           h == [j \in Issues |-> u[j].quantity]
<1>1. IsFiniteSet(Issues) /\ Units \subseteq Nat
  BY InventoryAssumption DEF Units
<1>2. \A j \in Issues : f[j] = t[j].quantity /\ h[j] = u[j].quantity /\ f[j] \in Nat /\ h[j] \in Nat
  BY <1>1 DEF IssueRows
<1>3. /\ S \in SUBSET Issues /\ T \in SUBSET Issues
      /\ \A j \in Issues \ {i} : f[j] = h[j] /\ (j \in S <=> j \in T)
  OBVIOUS
<1>4. /\ (i \in S <=> t[i].state = "issued" /\ t[i].batch = b)
      /\ (i \in T <=> u[i].state = "issued" /\ u[i].batch = b)
  OBVIOUS
<1>5. Taken(t, b) = SumFunctionOnSet(f, S) /\ Taken(u, b) = SumFunctionOnSet(h, T)
  BY DEF Taken
<1> HIDE DEF S, T, f, h
<1>6. PICK rest \in Nat : /\ SumFunctionOnSet(f, S) = (IF i \in S THEN f[i] ELSE 0) + rest
                          /\ SumFunctionOnSet(h, T) = (IF i \in T THEN h[i] ELSE 0) + rest
  BY <1>1, <1>2, <1>3, SumChange
<1>7. (IF i \in S THEN f[i] ELSE 0) = Share(t[i], b) /\ (IF i \in T THEN h[i] ELSE 0) = Share(u[i], b)
  BY <1>2, <1>4 DEF Share
<1> QED
  BY <1>5, <1>6, <1>7

LEMMA TakenType ==
    ASSUME NEW t \in [Issues -> IssueRows], NEW b
    PROVE  Taken(t, b) \in Nat
<1> DEFINE S == {j \in Issues : t[j].state = "issued" /\ t[j].batch = b}
           f == [j \in Issues |-> t[j].quantity]
<1>1. IsFiniteSet(S)
  BY InventoryAssumption, FS_Subset
<1>2. \A j \in S : f[j] \in Nat
  BY InventoryAssumption DEF IssueRows, Units
<1>3. Taken(t, b) = SumFunctionOnSet(f, S)
  BY DEF Taken
<1> HIDE DEF S, f
<1> QED
  BY <1>1, <1>2, <1>3, SumType

LEMMA StockInitially == InventoryInit => StockInv
<1> SUFFICES ASSUME InventoryInit PROVE StockInv
  OBVIOUS
<1>1. StockTyped
  BY InventoryAssumption DEF InventoryInit, StockTyped, BatchRows, IssueRows, NoBatch, NoIssue, Units
<1>2. ASSUME NEW b \in Batches
      PROVE  Taken(issue, b) = 0
  <2>1. {i \in Issues : issue[i].state = "issued" /\ issue[i].batch = b} = {}
    BY DEF InventoryInit, NoIssue
  <2> QED
    BY <2>1, SumEmpty DEF Taken
<1>3. Balanced
  BY <1>2 DEF Balanced, InventoryInit, NoBatch
<1> QED
  BY <1>1, <1>3 DEF StockInv, Untouched, TakenFromBatches, KeysSpentOnce, InventoryInit, NoBatch, NoIssue

\* A step that touches no issue, and keeps what is missing from each batch.
LEMMA BatchStep ==
    ASSUME StockInv, NEW b \in Batches, NEW row \in BatchRows, row.state # "none",
           batch' = [batch EXCEPT ![b] = row], issue' = issue,
           row.current + Taken(issue, b) = row.units
    PROVE  StockInv'
<1>1. StockTyped'
  BY DEF StockInv, StockTyped
<1>2. \A c \in Batches : c # b => batch'[c] = batch[c]
  BY DEF StockInv, StockTyped
<1>3. batch'[b] = row
  BY DEF StockInv, StockTyped
<1>4. Untouched'
  BY <1>2, <1>3 DEF StockInv, Untouched
<1>5. Balanced'
  <2> SUFFICES ASSUME NEW c \in Batches PROVE batch'[c].current + Taken(issue', c) = batch'[c].units
    BY DEF Balanced
  <2>1. Taken(issue', c) = Taken(issue, c)
    OBVIOUS
  <2> QED
    BY <1>2, <1>3, <2>1 DEF StockInv, Balanced
<1>6. TakenFromBatches' /\ KeysSpentOnce'
  BY DEF StockInv, TakenFromBatches, KeysSpentOnce
<1> QED
  BY <1>1, <1>4, <1>5, <1>6 DEF StockInv

LEMMA TakenNext ==
    \A i \in Issues, b \in Batches :
        /\ issue \in [Issues -> IssueRows] /\ issue' \in [Issues -> IssueRows]
        /\ \A j \in Issues : j # i => issue[j] = issue'[j]
        => \E rest \in Nat : /\ Taken(issue, b) = Share(issue[i], b) + rest
                             /\ Taken(issue', b) = Share(issue'[i], b) + rest
BY IssueChanges

\* A step that changes one issue, and every balance by what its share changes.
LEMMA IssueStep ==
    ASSUME StockInv, NEW i \in Issues, NEW row \in IssueRows,
           issue' = [issue EXCEPT ![i] = row],
           row.state = "issued" => row.batch \in Batches,
           row.key # NoKey => \A j \in Issues \ {i} : issue[j].key # row.key,
           batch' \in [Batches -> BatchRows],
           \A c \in Batches :
              /\ batch'[c].units = batch[c].units
              /\ batch[c].state = "none" => batch'[c] = batch[c]
              /\ batch'[c].state = batch[c].state
              /\ batch'[c].current + Share(row, c) = batch[c].current + Share(issue[i], c)
    PROVE  StockInv'
<1>1. issue \in [Issues -> IssueRows] /\ issue' \in [Issues -> IssueRows] /\ StockTyped'
  BY DEF StockInv, StockTyped
<1>2. issue'[i] = row /\ \A j \in Issues \ {i} : issue[j] = issue'[j]
  BY <1>1
<1>3. Untouched'
  BY DEF StockInv, Untouched
<1>4. TakenFromBatches'
  BY <1>2 DEF StockInv, TakenFromBatches
<1>5. KeysSpentOnce'
  BY <1>2 DEF StockInv, KeysSpentOnce
<1>6. Balanced'
  <2> SUFFICES ASSUME NEW c \in Batches PROVE batch'[c].current + Taken(issue', c) = batch'[c].units
    BY DEF Balanced
  <2>1. PICK rest \in Nat : /\ Taken(issue, c) = Share(issue[i], c) + rest
                            /\ Taken(issue', c) = Share(issue'[i], c) + rest
    <3>1. issue \in [Issues -> IssueRows] /\ issue' \in [Issues -> IssueRows]
      BY <1>1
    <3>2. \A j \in Issues : j # i => issue[j] = issue'[j]
      BY <1>2
    <3> QED
      BY <3>1, <3>2, TakenNext
  <2>2. batch[c].current + Taken(issue, c) = batch[c].units
    BY DEF StockInv, Balanced
  <2>3. /\ batch'[c].units = batch[c].units
        /\ batch'[c].current + Share(row, c) = batch[c].current + Share(issue[i], c)
    OBVIOUS
  <2>4. batch[c].current \in Nat /\ batch'[c].current \in Nat /\ Share(issue[i], c) \in Nat /\ Share(row, c) \in Nat
    BY <1>1, InventoryAssumption DEF StockInv, StockTyped, BatchRows, IssueRows, Share, Units
  <2> QED
    BY <1>2, <2>1, <2>2, <2>3, <2>4
<1> QED
  BY <1>1, <1>3, <1>4, <1>5, <1>6 DEF StockInv

LEMMA StockStep ==
    ASSUME StockInv, StockNext
    PROVE  StockInv'
<1>1. ASSUME NEW b \in Batches, NEW n \in Units, CreateBatch(b, n)
      PROVE  StockInv'
  <2> DEFINE row == [state |-> "live", units |-> n, current |-> n]
  <2>1. batch[b].state = "none" /\ issue' = issue
    BY <1>1 DEF CreateBatch, Fresh
  <2>2. Taken(issue, b) = 0
    <3>1. Taken(issue, b) \in Nat
      BY TakenType DEF StockInv, StockTyped
    <3>2. batch[b].current = 0 /\ batch[b].units = 0 /\ batch[b].current + Taken(issue, b) = batch[b].units
      BY <2>1 DEF StockInv, Untouched, Balanced
    <3> QED
      BY <3>1, <3>2
  <2>3. row \in BatchRows /\ n \in Nat
    BY InventoryAssumption DEF BatchRows, Units
  <2>4. row.state # "none" /\ row.current + Taken(issue, b) = row.units
    BY <2>2, <2>3
  <2>5. batch' = [batch EXCEPT ![b] = row]
    BY <1>1 DEF CreateBatch
  <2> HIDE DEF row
  <2> QED
    BY <2>1, <2>3, <2>4, <2>5, BatchStep
<1>2. ASSUME NEW b \in Batches, NEW n \in Units, EditBatch(b, n)
      PROVE  StockInv'
  <2> DEFINE issued == batch[b].units - batch[b].current
             row == [state |-> "live", units |-> n, current |-> n - issued]
  <2>1. batch[b].state = "live" /\ issue' = issue /\ n >= issued
    BY <1>2 DEF EditBatch
  <2>2. Taken(issue, b) \in Nat /\ batch[b].current \in Nat /\ batch[b].units \in Nat
    BY TakenType, InventoryAssumption DEF StockInv, StockTyped, BatchRows, Units
  <2>3. batch[b].current + Taken(issue, b) = batch[b].units
    BY DEF StockInv, Balanced
  <2>4. n - issued \in Units /\ (n - issued) + Taken(issue, b) = n
    BY <2>1, <2>2, <2>3, InventoryAssumption DEF Units
  <2>5. row \in BatchRows /\ row.state # "none" /\ row.current + Taken(issue, b) = row.units
    BY <2>4 DEF BatchRows
  <2>6. batch' = [batch EXCEPT ![b] = row]
    <3>1. batch' = [batch EXCEPT ![b].units = n, ![b].current = n - issued]
      BY <1>2 DEF EditBatch
    <3> HIDE DEF issued
    <3>2. batch'[b] = row /\ \A c \in Batches \ {b} : batch'[c] = batch[c]
      BY <2>1, <3>1 DEF StockInv, StockTyped, BatchRows
    <3>3. batch' \in [Batches -> BatchRows]
      BY <2>5, <3>1, <3>2 DEF StockInv, StockTyped
    <3> QED
      BY <3>2, <3>3 DEF StockInv, StockTyped
  <2> HIDE DEF row
  <2> QED
    BY <2>1, <2>5, <2>6, BatchStep
<1>3. ASSUME NEW b \in Batches, ArchiveBatch(b) \/ RestoreBatch(b)
      PROVE  StockInv'
  <2>1. PICK state \in {"live", "archived"} : batch' = [batch EXCEPT ![b].state = state]
    BY <1>3 DEF ArchiveBatch, RestoreBatch
  <2> DEFINE row == [state |-> state, units |-> batch[b].units, current |-> batch[b].current]
  <2>2. row \in BatchRows /\ row.state # "none" /\ row.current + Taken(issue, b) = row.units
    BY DEF StockInv, StockTyped, Balanced, BatchRows
  <2>3. batch' = [batch EXCEPT ![b] = row] /\ issue' = issue
    BY <1>3, <2>1 DEF ArchiveBatch, RestoreBatch, StockInv, StockTyped, BatchRows
  <2> HIDE DEF row
  <2> QED
    BY <2>2, <2>3, BatchStep
<1>4. ASSUME NEW i \in Issues, NEW b \in Batches, NEW n \in Units, NEW key \in RetryKeys \cup {NoKey},
             IssueStock(i, b, n, key)
      PROVE  StockInv'
  <2> DEFINE row == [state |-> "issued", batch |-> b, quantity |-> n, key |-> key]
  <2>1. row \in IssueRows /\ issue' = [issue EXCEPT ![i] = row] /\ row.batch \in Batches
    BY <1>4 DEF IssueStock, IssueRows
  <2>2. row.key # NoKey => \A j \in Issues \ {i} : issue[j].key # row.key
    BY <1>4 DEF IssueStock, Used
  <2>3. issue[i].state = "none" /\ batch[b].state = "live"
    BY <1>4 DEF IssueStock, Fresh
  <2>4. batch[b].current - n \in Units /\ (batch[b].current - n) + n = batch[b].current
    BY <1>4, InventoryAssumption DEF IssueStock, StockInv, StockTyped, BatchRows, Units
  <2>5. batch' \in [Batches -> BatchRows]
    BY <1>4, <2>4 DEF IssueStock, StockInv, StockTyped, BatchRows
  <2>6. ASSUME NEW c \in Batches
        PROVE  /\ batch'[c].units = batch[c].units
               /\ batch[c].state = "none" => batch'[c] = batch[c]
               /\ batch'[c].state = batch[c].state
               /\ batch'[c].current + Share(row, c) = batch[c].current + Share(issue[i], c)
    <3>1. batch' = [batch EXCEPT ![b].current = @ - n]
      BY <1>4 DEF IssueStock
    <3>2. Share(issue[i], c) = 0 /\ Share(row, c) = IF c = b THEN n ELSE 0
      BY <2>3 DEF Share
    <3>3. CASE c = b
      <4>1. batch'[c].current = batch[c].current - n
        BY <3>1, <3>3 DEF StockInv, StockTyped, BatchRows
      <4>2. batch[c].current \in Nat /\ n \in Nat
        BY <2>6, InventoryAssumption DEF StockInv, StockTyped, BatchRows, Units
      <4> QED
        BY <2>3, <3>1, <3>2, <3>3, <4>1, <4>2 DEF StockInv, StockTyped, BatchRows
    <3>4. CASE c # b
      <4>1. batch'[c] = batch[c]
        BY <2>6, <3>1, <3>4 DEF StockInv, StockTyped
      <4> QED
        BY <3>2, <3>4, <4>1
    <3> QED
      BY <3>3, <3>4
  <2> HIDE DEF row
  <2> QED
    BY <2>1, <2>2, <2>5, <2>6, IssueStep
<1>5. ASSUME NEW i \in Issues, NEW b \in Batches, NEW n \in Units, UpdateStockMovement(i, b, n)
      PROVE  StockInv'
  <2> DEFINE old == issue[i]
             a == old.batch
             back == [batch EXCEPT ![a].current = @ + old.quantity]
             row == [old EXCEPT !.batch = b, !.quantity = n]
  <2>1. old.state = "issued" /\ a \in Batches /\ old \in IssueRows
    BY <1>5 DEF UpdateStockMovement, Correctable, StockInv, StockTyped, TakenFromBatches
  <2>2. /\ batch[a].state = "live" /\ batch[b].state = "live"
        /\ batch[a].current + old.quantity <= batch[a].units
        /\ n > 0 /\ n <= back[b].current
        /\ batch' = [back EXCEPT ![b].current = @ - n]
        /\ issue' = [issue EXCEPT ![i].batch = b, ![i].quantity = n]
    BY <1>5 DEF UpdateStockMovement, Correctable
  <2>3. /\ row \in IssueRows /\ row.batch = b /\ row.quantity = n /\ row.state = "issued" /\ row.key = old.key
    BY <2>1 DEF IssueRows
  <2>4. issue' = [issue EXCEPT ![i] = row]
    BY <2>2 DEF StockInv, StockTyped, IssueRows
  <2>5. row.key # NoKey => \A j \in Issues \ {i} : issue[j].key # row.key
    BY <2>3 DEF StockInv, KeysSpentOnce
  <2>6. /\ batch \in [Batches -> BatchRows] /\ n \in Nat /\ old.quantity \in Nat
        /\ \A c \in Batches : batch[c].current \in Nat /\ batch[c].units \in Units
    BY <2>1, InventoryAssumption DEF StockInv, StockTyped, BatchRows, IssueRows, Units
  <2>7. /\ back \in [Batches -> BatchRows]
        /\ \A c \in Batches : /\ back[c].state = batch[c].state /\ back[c].units = batch[c].units
                              /\ back[c].current = batch[c].current + Share(old, c)
                              /\ back[c].current \in Nat
    <3>1. batch[a].current + old.quantity \in Units
      BY <2>1, <2>2, <2>6, InventoryAssumption DEF Units
    <3>2. back \in [Batches -> BatchRows]
      BY <2>1, <2>6, <3>1 DEF BatchRows
    <3>3. ASSUME NEW c \in Batches
          PROVE  /\ back[c].state = batch[c].state /\ back[c].units = batch[c].units
                 /\ back[c].current = batch[c].current + Share(old, c)
                 /\ back[c].current \in Nat
      <4>1. CASE c = a
        BY <2>1, <2>6, <3>1, <3>3, <4>1 DEF Share, BatchRows, Units
      <4>2. CASE c # a
        BY <2>1, <2>6, <3>3, <4>2 DEF Share
      <4> QED
        BY <4>1, <4>2
    <3> QED
      BY <3>2, <3>3
  <2> HIDE DEF back, row
  <2>8. back[b].current - n \in Units
    BY <2>2, <2>6, <2>7, InventoryAssumption DEF BatchRows, Units
  <2>9. batch' \in [Batches -> BatchRows]
    BY <2>2, <2>7, <2>8 DEF BatchRows
  <2>10. ASSUME NEW c \in Batches
         PROVE  /\ batch'[c].units = batch[c].units
                /\ batch[c].state = "none" => batch'[c] = batch[c]
                /\ batch'[c].state = batch[c].state
                /\ batch'[c].current + Share(row, c) = batch[c].current + Share(old, c)
    <3>1. CASE c = b
      <4>1. Share(row, c) = n
        BY <2>3, <3>1 DEF Share
      <4>2. batch'[c].current = back[c].current - n /\ batch'[c].state = back[c].state /\ batch'[c].units = back[c].units
        BY <2>2, <2>7, <3>1 DEF BatchRows
      <4>3. back[c].current \in Nat /\ back[c].current = batch[c].current + Share(old, c)
        BY <2>7, <2>10
      <4> QED
        BY <2>2, <2>6, <2>7, <3>1, <4>1, <4>2, <4>3
    <3>2. CASE c # b
      <4>1. Share(row, c) = 0 /\ batch'[c] = back[c]
        BY <2>2, <2>3, <2>7, <2>10, <3>2 DEF Share
      <4>2. back[c].current \in Nat /\ back[c].current = batch[c].current + Share(old, c)
        BY <2>7, <2>10
      <4>3. batch[c].state = "none" => batch'[c] = batch[c]
        <5>1. c # a => back[c] = batch[c]
          BY <2>1, <2>6, <2>10 DEF back
        <5> QED
          BY <2>2, <4>1, <5>1
      <4> QED
        BY <2>7, <2>10, <4>1, <4>2, <4>3
    <3> QED
      BY <3>1, <3>2
  <2> QED
    BY <2>3, <2>4, <2>5, <2>9, <2>10, IssueStep
<1>6. ASSUME NEW i \in Issues, DeleteStockMovement(i)
      PROVE  StockInv'
  <2> DEFINE old == issue[i]
             a == old.batch
             row == [old EXCEPT !.state = "voided"]
  <2>1. old.state = "issued" /\ a \in Batches /\ old \in IssueRows
    BY <1>6 DEF DeleteStockMovement, Correctable, StockInv, StockTyped, TakenFromBatches
  <2>2. /\ batch[a].state = "live"
        /\ batch[a].current + old.quantity <= batch[a].units
        /\ batch' = [batch EXCEPT ![a].current = @ + old.quantity]
        /\ issue' = [issue EXCEPT ![i].state = "voided"]
    BY <1>6 DEF DeleteStockMovement, Correctable
  <2>3. row \in IssueRows /\ row.state = "voided" /\ row.key = old.key
    BY <2>1 DEF IssueRows
  <2>4. issue' = [issue EXCEPT ![i] = row]
    BY <2>2 DEF StockInv, StockTyped, IssueRows
  <2>5. row.key # NoKey => \A j \in Issues \ {i} : issue[j].key # row.key
    BY <2>3 DEF StockInv, KeysSpentOnce
  <2>6. /\ batch \in [Batches -> BatchRows] /\ old.quantity \in Nat
        /\ \A c \in Batches : batch[c].current \in Nat /\ batch[c].units \in Units
    BY <2>1, InventoryAssumption DEF StockInv, StockTyped, BatchRows, IssueRows, Units
  <2>7. batch[a].current + old.quantity \in Units
    BY <2>1, <2>2, <2>6, InventoryAssumption DEF Units
  <2>8. batch' \in [Batches -> BatchRows]
    BY <2>1, <2>2, <2>6, <2>7 DEF BatchRows
  <2>9. ASSUME NEW c \in Batches
        PROVE  /\ batch'[c].units = batch[c].units
               /\ batch[c].state = "none" => batch'[c] = batch[c]
               /\ batch'[c].state = batch[c].state
               /\ batch'[c].current + Share(row, c) = batch[c].current + Share(old, c)
    <3>1. Share(row, c) = 0
      BY <2>3 DEF Share
    <3>2. CASE c = a
      <4>1. Share(old, c) = old.quantity /\ batch'[c].current = batch[c].current + old.quantity
        BY <2>1, <2>2, <2>6, <3>2 DEF Share, BatchRows
      <4> QED
        BY <2>1, <2>2, <2>6, <3>1, <3>2, <4>1 DEF BatchRows
    <3>3. CASE c # a
      BY <2>1, <2>2, <2>6, <2>9, <3>1, <3>3 DEF Share
    <3> QED
      BY <3>2, <3>3
  <2> HIDE DEF row
  <2> QED
    BY <2>3, <2>4, <2>5, <2>8, <2>9, IssueStep
<1> QED
  BY <1>1, <1>2, <1>3, <1>4, <1>5, <1>6 DEF StockNext

\* The balances of Inventory, as the invariant has them.
LEMMA StockBalances == StockInv => StockBalance
BY DEF StockInv, StockBalance, Balanced, KeysSpentOnce, Issued, IssuesOf, Taken

LEMMA StockInvariance == Spec => []StockInv
<1>1. Init => StockInv
  BY StockInitially DEF Init
<1>2. StockInv /\ [Next]_vars => StockInv'
  <2> SUFFICES ASSUME StockInv, [Next]_vars PROVE StockInv'
    OBVIOUS
  <2>1. CASE UNCHANGED stockVars
    BY <2>1 DEF StockInv, StockTyped, Untouched, TakenFromBatches, Balanced, KeysSpentOnce, stockVars
  <2>2. CASE StockNext
    BY <2>2, StockStep
  <2> QED
    BY <2>1, <2>2 DEF Next, vars, inventoryVars, stockVars, MaterialNext, SaveMaterial, ArchiveMaterial,
                      RestoreMaterial
<1> QED
  BY <1>1, <1>2, PTL DEF Spec

-----------------------------------------------------------------------------
(* Supplier bills.                                                         *)

BillRows == [state : {"none", "live", "archived"}, total : Nat, status : Standings]
PaymentRows == [state : {"none", "live", "void"}, bill : Nat, amount : Nat]
Sheets == [kind : {"none", "edit", "pay"}, bill : Nat, status : Standings, spent : BOOLEAN]

\* What a table of payments has paid of a bill, and one row's part of it.
Part(row, b) == IF row.state = "live" /\ row.bill = b THEN row.amount ELSE 0
PaidOf(table, b) ==
    SumFunctionOnSet([p \in Payments |-> table[p].amount],
                     {p \in Payments : table[p].state = "live" /\ table[p].bill = b})

BillsTyped ==
    /\ expense \in [Bills -> BillRows] /\ payment \in [Payments -> PaymentRows]
    /\ sheet \in [Dialogs -> Sheets]
    /\ reversal \in [Payments -> [begun : BOOLEAN, seen : SUBSET Payments]]

\* A dialog, a live payment and a reversal that has begun are of something that exists.
Referring ==
    /\ \A d \in Dialogs : sheet[d].kind # "none" => sheet[d].bill \in Bills \cup {0}
    /\ \A d \in Dialogs : sheet[d].kind = "pay" => sheet[d].bill \in Bills
    /\ \A p \in Payments : payment[p].state = "live" =>
          payment[p].bill \in Bills /\ expense[payment[p].bill].state # "none"
    /\ \A p \in Payments : reversal[p].begun => payment[p].state = "live"

WithinTotals == \A b \in Bills : PaidOf(payment, b) <= expense[b].total

BillInv == BillsTyped /\ Referring /\ WithinTotals

LEMMA PaymentChanges ==
    \A t, u \in [Payments -> PaymentRows], p \in Payments, b \in Bills :
        (\A q \in Payments : q # p => t[q] = u[q]) =>
            \E rest \in Nat : PaidOf(t, b) = Part(t[p], b) + rest /\ PaidOf(u, b) = Part(u[p], b) + rest
<1> SUFFICES ASSUME NEW t \in [Payments -> PaymentRows], NEW u \in [Payments -> PaymentRows],
                    NEW p \in Payments, NEW b \in Bills, \A q \in Payments : q # p => t[q] = u[q]
             PROVE  \E rest \in Nat : PaidOf(t, b) = Part(t[p], b) + rest /\ PaidOf(u, b) = Part(u[p], b) + rest
  OBVIOUS
<1> DEFINE S == {q \in Payments : t[q].state = "live" /\ t[q].bill = b}
           T == {q \in Payments : u[q].state = "live" /\ u[q].bill = b}
           f == [q \in Payments |-> t[q].amount]
           h == [q \in Payments |-> u[q].amount]
<1>1. IsFiniteSet(Payments)
  BY ExpensesAssumption
<1>2. \A q \in Payments : f[q] = t[q].amount /\ h[q] = u[q].amount /\ f[q] \in Nat /\ h[q] \in Nat
  BY DEF PaymentRows
<1>3. /\ S \in SUBSET Payments /\ T \in SUBSET Payments
      /\ \A q \in Payments \ {p} : f[q] = h[q] /\ (q \in S <=> q \in T)
  OBVIOUS
<1>4. /\ (p \in S <=> t[p].state = "live" /\ t[p].bill = b)
      /\ (p \in T <=> u[p].state = "live" /\ u[p].bill = b)
  OBVIOUS
<1>5. PaidOf(t, b) = SumFunctionOnSet(f, S) /\ PaidOf(u, b) = SumFunctionOnSet(h, T)
  BY DEF PaidOf
<1> HIDE DEF S, T, f, h
<1>6. PICK rest \in Nat : /\ SumFunctionOnSet(f, S) = (IF p \in S THEN f[p] ELSE 0) + rest
                          /\ SumFunctionOnSet(h, T) = (IF p \in T THEN h[p] ELSE 0) + rest
  BY <1>1, <1>2, <1>3, SumChange
<1>7. (IF p \in S THEN f[p] ELSE 0) = Part(t[p], b) /\ (IF p \in T THEN h[p] ELSE 0) = Part(u[p], b)
  BY <1>2, <1>4 DEF Part
<1> QED
  BY <1>5, <1>6, <1>7

LEMMA PaidNext ==
    \A p \in Payments, b \in Bills :
        /\ payment \in [Payments -> PaymentRows] /\ payment' \in [Payments -> PaymentRows]
        /\ \A q \in Payments : q # p => payment[q] = payment'[q]
        => \E rest \in Nat : /\ PaidOf(payment, b) = Part(payment[p], b) + rest
                             /\ PaidOf(payment', b) = Part(payment'[p], b) + rest
BY PaymentChanges

\* A bill nobody has paid anything of.
LEMMA UnpaidBill ==
    ASSUME NEW t, NEW b, \A p \in Payments : t[p].state = "live" => t[p].bill # b
    PROVE  PaidOf(t, b) = 0
<1>1. {p \in Payments : t[p].state = "live" /\ t[p].bill = b} = {}
  OBVIOUS
<1> QED
  BY <1>1, SumEmpty DEF PaidOf

LEMMA PaidType ==
    ASSUME NEW t \in [Payments -> PaymentRows], NEW b
    PROVE  PaidOf(t, b) \in Nat
<1> DEFINE S == {p \in Payments : t[p].state = "live" /\ t[p].bill = b}
           f == [p \in Payments |-> t[p].amount]
<1>1. IsFiniteSet(S)
  BY ExpensesAssumption, FS_Subset
<1>2. \A p \in S : f[p] \in Nat
  BY DEF PaymentRows
<1>3. PaidOf(t, b) = SumFunctionOnSet(f, S)
  BY DEF PaidOf
<1> HIDE DEF S, f
<1> QED
  BY <1>1, <1>2, <1>3, SumType

LEMMA AmountIs == \A b : Amount(LiveOf(b)) = PaidOf(payment, b)
BY DEF Amount, LiveOf, PaidOf

LEMMA BillsInitially == ExpensesInit => BillInv
<1> SUFFICES ASSUME ExpensesInit PROVE BillInv
  OBVIOUS
<1>1. BillsTyped
  BY DEF ExpensesInit, BillsTyped, BillRows, PaymentRows, Sheets, Standings, NoBill, NoPayment, Shut, Unread
<1>2. Referring
  BY DEF ExpensesInit, Referring, NoPayment, Shut, Unread
<1>3. WithinTotals
  <2>1. \A b \in Bills : PaidOf(payment, b) = 0
    BY UnpaidBill DEF ExpensesInit, NoPayment
  <2> QED
    BY <2>1 DEF WithinTotals, ExpensesInit, NoBill
<1> QED
  BY <1>1, <1>2, <1>3 DEF BillInv

\* Steps that neither pay nor change a bill's total.
LEMMA DialogStep ==
    ASSUME BillInv, NEW d \in Dialogs,
           \/ \E b \in Bills \cup {0} : OpenExpenseDialog(d, b)
           \/ \E b \in Bills : OpenPaymentDialog(d, b)
           \/ CloseDialog(d)
    PROVE  BillInv'
<1>1. UNCHANGED <<expense, payment, reversal>>
  BY DEF OpenExpenseDialog, OpenPaymentDialog, CloseDialog
<1>2. WithinTotals'
  BY <1>1 DEF BillInv, WithinTotals
<1>3. PICK row \in Sheets : /\ sheet' = [sheet EXCEPT ![d] = row]
                            /\ row.kind # "none" => row.bill \in Bills \cup {0}
                            /\ row.kind = "pay" => row.bill \in Bills
  <2>1. ASSUME NEW b \in Bills \cup {0}, OpenExpenseDialog(d, b)
        PROVE  \E row \in Sheets : /\ sheet' = [sheet EXCEPT ![d] = row]
                                   /\ row.kind # "none" => row.bill \in Bills \cup {0}
                                   /\ row.kind = "pay" => row.bill \in Bills
    <3> DEFINE status == IF b = 0 THEN "unpaid" ELSE Shown(b)
               row == [kind |-> "edit", bill |-> b, status |-> status, spent |-> FALSE]
    <3>1. status \in Standings
      BY DEF Shown, Standing, Standings
    <3>2. b \in Nat
      BY ExpensesAssumption
    <3>3. row \in Sheets
      BY <3>1, <3>2 DEF Sheets
    <3> QED
      BY <2>1, <3>3 DEF OpenExpenseDialog
  <2>2. ASSUME NEW b \in Bills, OpenPaymentDialog(d, b)
        PROVE  \E row \in Sheets : /\ sheet' = [sheet EXCEPT ![d] = row]
                                   /\ row.kind # "none" => row.bill \in Bills \cup {0}
                                   /\ row.kind = "pay" => row.bill \in Bills
    <3> DEFINE row == [Shut EXCEPT !.kind = "pay", !.bill = b]
    <3>1. row \in Sheets /\ row.bill = b
      BY ExpensesAssumption DEF Sheets, Shut, Standings
    <3> QED
      BY <2>2, <3>1 DEF OpenPaymentDialog
  <2>3. CASE CloseDialog(d)
    <3>1. Shut \in Sheets /\ Shut.kind = "none"
      BY DEF Sheets, Shut, Standings
    <3> QED
      BY <2>3, <3>1 DEF CloseDialog
  <2> QED
    BY <2>1, <2>2, <2>3
<1>4. BillsTyped'
  BY <1>1, <1>3 DEF BillInv, BillsTyped
<1>5. Referring'
  BY <1>1, <1>3 DEF BillInv, BillsTyped, Referring
<1> QED
  BY <1>2, <1>4, <1>5 DEF BillInv

\* What is left of a dialog once the server has answered.
LEMMA AnsweredDialog ==
    ASSUME BillInv, NEW d \in Dialogs,
           Answer(d) \/ sheet' = [sheet EXCEPT ![d].spent = TRUE]
    PROVE  /\ sheet' \in [Dialogs -> Sheets]
           /\ \A e \in Dialogs : /\ sheet'[e].kind # "none" => sheet'[e].bill \in Bills \cup {0}
                                 /\ sheet'[e].kind = "pay" => sheet'[e].bill \in Bills
<1>1. Shut \in Sheets /\ Shut.kind = "none"
  BY DEF Sheets, Shut, Standings
<1>2. sheet' \in [Dialogs -> Sheets]
  BY <1>1 DEF BillInv, BillsTyped, Answer, Sheets
<1>3. \A e \in Dialogs : sheet'[e].kind = "none" \/ (sheet'[e].kind = sheet[e].kind /\ sheet'[e].bill = sheet[e].bill)
  BY <1>1 DEF BillInv, BillsTyped, Answer, Sheets
<1> QED
  BY <1>2, <1>3 DEF BillInv, Referring

LEMMA SaveExpenseStep ==
    ASSUME BillInv, NEW d \in Dialogs, NEW total \in BillAmounts, SaveExpense(d, total)
    PROVE  BillInv'
<1>1. UNCHANGED <<payment, reversal>> /\ total \in Nat
  BY ExpensesAssumption DEF SaveExpense
<1>2. /\ sheet' \in [Dialogs -> Sheets]
      /\ \A e \in Dialogs : /\ sheet'[e].kind # "none" => sheet'[e].bill \in Bills \cup {0}
                            /\ sheet'[e].kind = "pay" => sheet'[e].bill \in Bills
  BY AnsweredDialog DEF SaveExpense
<1>3. PICK b \in Bills, row \in BillRows :
        /\ expense' = [expense EXCEPT ![b] = row]
        /\ row.state # "none" /\ PaidOf(payment, b) <= row.total
  <2> DEFINE c == sheet[d].bill
  <2>1. CASE c = 0
    <3>1. PICK n \in NextId(expense) :
            expense' = [expense EXCEPT ![n] = [state |-> "live", total |-> total, status |-> "unpaid"]]
      BY <2>1 DEF SaveExpense
    <3>2. n \in Bills /\ expense[n].state = "none"
      BY DEF NextId, BillInv, BillsTyped
    <3>3. PaidOf(payment, n) = 0
      BY <3>2, UnpaidBill DEF BillInv, Referring
    <3> DEFINE row == [state |-> "live", total |-> total, status |-> "unpaid"]
    <3>4. row \in BillRows /\ row.state # "none" /\ PaidOf(payment, n) <= row.total
      BY <1>1, <3>3 DEF BillRows, Standings
    <3>5. expense' = [expense EXCEPT ![n] = row]
      BY <3>1
    <3> HIDE DEF row
    <3> QED
      BY <3>2, <3>4, <3>5
  <2>2. CASE c # 0
    <3> DEFINE status == IF LiveOf(c) = {} THEN sheet[d].status ELSE Standing("unpaid", total, LiveOf(c))
               row == [state |-> "live", total |-> total, status |-> status]
    <3>1. c \in Bills /\ expense[c].state = "live"
      BY <2>2 DEF SaveExpense, Stored, BillInv, Referring
    <3>2. PaidOf(payment, c) <= total
      BY <2>2, AmountIs DEF SaveExpense, Covers
    <3>3. status \in Standings
      BY DEF Standing, Standings, BillInv, BillsTyped, Sheets
    <3> HIDE DEF status
    <3>4. row \in BillRows
      BY <1>1, <3>3 DEF BillRows
    <3>5. expense' = [expense EXCEPT ![c].total = total, ![c].status = status]
      BY <2>2 DEF SaveExpense, status
    <3>6. expense' = [expense EXCEPT ![c] = row]
      <4>1. expense \in [Bills -> BillRows]
        BY DEF BillInv, BillsTyped
      <4>2. expense'[c] = row /\ \A e \in Bills \ {c} : expense'[e] = expense[e]
        BY <3>1, <3>5, <4>1 DEF BillRows
      <4>3. expense' \in [Bills -> BillRows]
        BY <3>4, <3>5, <4>1, <4>2
      <4> QED
        BY <3>1, <4>1, <4>2, <4>3
    <3> QED
      BY <3>1, <3>2, <3>4, <3>6
  <2> QED
    BY <2>1, <2>2
<1>4. /\ expense' \in [Bills -> BillRows] /\ expense'[b] = row
      /\ \A c \in Bills \ {b} : expense'[c] = expense[c]
  BY <1>3 DEF BillInv, BillsTyped
<1>5. BillsTyped'
  BY <1>1, <1>2, <1>4 DEF BillInv, BillsTyped
<1>6. Referring'
  BY <1>1, <1>2, <1>3, <1>4 DEF BillInv, Referring
<1>7. WithinTotals'
  <2> SUFFICES ASSUME NEW c \in Bills PROVE PaidOf(payment', c) <= expense'[c].total
    BY DEF WithinTotals
  <2>1. PaidOf(payment', c) = PaidOf(payment, c) /\ PaidOf(payment, c) <= expense[c].total
    BY <1>1 DEF BillInv, WithinTotals
  <2> QED
    BY <1>3, <1>4, <2>1
<1> QED
  BY <1>5, <1>6, <1>7 DEF BillInv

LEMMA RecordPaymentStep ==
    ASSUME BillInv, NEW d \in Dialogs, NEW amount \in BillAmounts, RecordExpensePayment(d, amount)
    PROVE  BillInv'
<1> DEFINE b == sheet[d].bill
<1>1. reversal' = reversal /\ amount \in Nat /\ amount > 0
  BY ExpensesAssumption DEF RecordExpensePayment
<1>2. /\ sheet' \in [Dialogs -> Sheets]
      /\ \A e \in Dialogs : /\ sheet'[e].kind # "none" => sheet'[e].bill \in Bills \cup {0}
                            /\ sheet'[e].kind = "pay" => sheet'[e].bill \in Bills
  BY AnsweredDialog DEF RecordExpensePayment, Answer
<1>3. b \in Bills /\ expense[b].state = "live" /\ amount <= Balance(b)
  BY DEF RecordExpensePayment, Stored, WithinBalance, BillInv, Referring
<1> DEFINE row == [state |-> "live", bill |-> b, amount |-> amount]
<1>4. PICK n \in NextId(payment), status \in Standings :
        /\ payment' = [payment EXCEPT ![n] = row]
        /\ expense' = [expense EXCEPT ![b].status = status]
  BY DEF RecordExpensePayment, Standings
<1>5. n \in Payments /\ payment[n].state = "none"
  BY DEF NextId, BillInv, BillsTyped
<1>6. row \in PaymentRows
  BY <1>1, <1>3, ExpensesAssumption DEF PaymentRows
<1>7. payment' \in [Payments -> PaymentRows] /\ payment'[n] = row /\ \A q \in Payments : q # n => payment[q] = payment'[q]
  BY <1>4, <1>5, <1>6 DEF BillInv, BillsTyped
<1>8. /\ expense' \in [Bills -> BillRows]
      /\ \A c \in Bills : expense'[c].state = expense[c].state /\ expense'[c].total = expense[c].total
  BY <1>3, <1>4 DEF BillInv, BillsTyped, BillRows
<1>9. BillsTyped'
  BY <1>1, <1>2, <1>7, <1>8 DEF BillInv, BillsTyped
<1>10. Referring'
  <2>1. \A p \in Payments : payment'[p].state = "live" =>
          payment'[p].bill \in Bills /\ expense'[payment'[p].bill].state # "none"
    BY <1>3, <1>7, <1>8 DEF BillInv, Referring
  <2>2. \A p \in Payments : reversal'[p].begun => payment'[p].state = "live"
    BY <1>1, <1>7 DEF BillInv, Referring
  <2> QED
    BY <1>2, <2>1, <2>2 DEF Referring
<1>11. WithinTotals'
  <2> SUFFICES ASSUME NEW c \in Bills PROVE PaidOf(payment', c) <= expense'[c].total
    BY DEF WithinTotals
  <2>1. PICK rest \in Nat : /\ PaidOf(payment, c) = Part(payment[n], c) + rest
                            /\ PaidOf(payment', c) = Part(payment'[n], c) + rest
    BY <1>5, <1>7, PaidNext DEF BillInv, BillsTyped
  <2>2. Part(payment[n], c) = 0 /\ Part(payment'[n], c) = IF c = b THEN amount ELSE 0
    BY <1>5, <1>7 DEF Part
  <2>3. PaidOf(payment, c) \in Nat /\ expense[c].total \in Nat /\ PaidOf(payment, c) <= expense[c].total
    BY PaidType DEF BillInv, BillsTyped, BillRows, WithinTotals
  <2>4. CASE c # b
    BY <1>8, <2>1, <2>2, <2>3, <2>4
  <2>5. CASE c = b
    <3>1. amount <= expense[b].total - Paid(expense[b].status, expense[b].total, LiveOf(b))
      BY <1>3 DEF Balance
    <3>2. CASE LiveOf(b) # {}
      <4>1. Paid(expense[b].status, expense[b].total, LiveOf(b)) = PaidOf(payment, b)
        BY <3>2, AmountIs DEF Paid
      <4> QED
        BY <1>1, <1>8, <2>1, <2>2, <2>3, <2>5, <3>1, <4>1
    <3>3. CASE LiveOf(b) = {}
      <4>1. PaidOf(payment, b) = 0
        BY <3>3, UnpaidBill DEF LiveOf
      <4>2. Paid(expense[b].status, expense[b].total, LiveOf(b)) \in {0, expense[b].total}
        BY <3>3 DEF Paid
      <4>3. amount <= expense[b].total
        <5> DEFINE total == expense[b].total
                   paid == Paid(expense[b].status, expense[b].total, LiveOf(b))
        <5>1. total \in Nat /\ paid \in {0, total} /\ amount <= total - paid
          BY <2>3, <2>5, <3>1, <4>2
        <5> HIDE DEF total, paid
        <5>2. amount <= total
          BY <1>1, <5>1
        <5> QED
          BY <5>2 DEF total
      <4>4. rest = 0
        BY <2>1, <2>2, <2>5, <4>1
      <4>5. PaidOf(payment', c) = amount
        BY <1>1, <2>1, <2>2, <2>5, <4>4
      <4> QED
        BY <1>8, <2>5, <4>3, <4>5
    <3> QED
      BY <3>2, <3>3
  <2> QED
    BY <2>4, <2>5
<1> QED
  BY <1>9, <1>10, <1>11 DEF BillInv

LEMMA VoidPaymentStep ==
    ASSUME BillInv, NEW n \in Payments, VoidExpensePayment(n)
    PROVE  BillInv'
<1> DEFINE b == payment[n].bill
<1>1. sheet' = sheet /\ payment[n].state = "live" /\ b \in Bills
  BY DEF VoidExpensePayment, BillInv, Referring
<1>2. PICK status \in Standings : expense' = [expense EXCEPT ![b].status = status]
  BY DEF VoidExpensePayment, Standing, Standings
<1>3. payment' = [payment EXCEPT ![n].state = "void"] /\ reversal' = [reversal EXCEPT ![n] = Unread]
  BY DEF VoidExpensePayment
<1>4. /\ payment' \in [Payments -> PaymentRows] /\ payment'[n].state = "void"
      /\ \A q \in Payments : q # n => payment[q] = payment'[q]
  BY <1>3 DEF BillInv, BillsTyped, PaymentRows
<1>5. /\ expense' \in [Bills -> BillRows]
      /\ \A c \in Bills : expense'[c].state = expense[c].state /\ expense'[c].total = expense[c].total
  BY <1>1, <1>2 DEF BillInv, BillsTyped, BillRows
<1>6. /\ reversal' \in [Payments -> [begun : BOOLEAN, seen : SUBSET Payments]]
      /\ \A q \in Payments : reversal'[q].begun => q # n /\ reversal[q].begun
  BY <1>3 DEF BillInv, BillsTyped, Unread
<1>7. BillsTyped'
  BY <1>1, <1>4, <1>5, <1>6 DEF BillInv, BillsTyped
<1>8. Referring'
  <2>1. \A p \in Payments : payment'[p].state = "live" =>
          payment'[p].bill \in Bills /\ expense'[payment'[p].bill].state # "none"
    BY <1>4, <1>5 DEF BillInv, Referring
  <2>2. \A p \in Payments : reversal'[p].begun => payment'[p].state = "live"
    BY <1>4, <1>6 DEF BillInv, Referring
  <2> QED
    BY <1>1, <2>1, <2>2 DEF BillInv, Referring
<1>9. WithinTotals'
  <2> SUFFICES ASSUME NEW c \in Bills PROVE PaidOf(payment', c) <= expense'[c].total
    BY DEF WithinTotals
  <2>1. PICK rest \in Nat : /\ PaidOf(payment, c) = Part(payment[n], c) + rest
                            /\ PaidOf(payment', c) = Part(payment'[n], c) + rest
    BY <1>4, PaidNext DEF BillInv, BillsTyped
  <2>2. Part(payment[n], c) \in Nat /\ Part(payment'[n], c) = 0
    BY <1>4 DEF Part, BillInv, BillsTyped, PaymentRows
  <2>3. expense[c].total \in Nat /\ PaidOf(payment, c) <= expense[c].total
    BY DEF BillInv, BillsTyped, BillRows, WithinTotals
  <2> QED
    BY <1>5, <2>1, <2>2, <2>3
<1> QED
  BY <1>7, <1>8, <1>9 DEF BillInv

LEMMA BillsStep ==
    ASSUME BillInv, ExpensesNext
    PROVE  BillInv'
<1>1. ASSUME NEW p \in Payments, BeginReversal(p)
      PROVE  BillInv'
  <2>1. UNCHANGED <<expense, payment, sheet>> /\ payment[p].state = "live"
    BY <1>1 DEF BeginReversal
  <2>2. LiveOf(payment[p].bill) \in SUBSET Payments
    BY DEF LiveOf
  <2>3. /\ reversal' \in [Payments -> [begun : BOOLEAN, seen : SUBSET Payments]]
        /\ \A q \in Payments : reversal'[q].begun => q = p \/ reversal[q].begun
    BY <1>1, <2>2 DEF BeginReversal, BillInv, BillsTyped
  <2>4. BillsTyped' /\ WithinTotals'
    BY <2>1, <2>3 DEF BillInv, BillsTyped, WithinTotals
  <2>5. Referring'
    BY <2>1, <2>3 DEF BillInv, Referring
  <2> QED
    BY <2>4, <2>5 DEF BillInv
<1>2. ASSUME NEW b \in Bills, ArchiveExpense(b)
      PROVE  BillInv'
  <2>1. UNCHANGED <<payment, sheet, reversal>> /\ expense[b].state # "none"
    BY <1>2 DEF ArchiveExpense
  <2>2. /\ expense' \in [Bills -> BillRows]
        /\ \A c \in Bills : /\ expense'[c].total = expense[c].total
                            /\ expense[c].state # "none" => expense'[c].state # "none"
    BY <1>2 DEF ArchiveExpense, BillInv, BillsTyped, BillRows
  <2>3. BillsTyped'
    BY <2>1, <2>2 DEF BillInv, BillsTyped
  <2>4. Referring' /\ WithinTotals'
    BY <2>1, <2>2 DEF BillInv, Referring, WithinTotals
  <2> QED
    BY <2>3, <2>4 DEF BillInv
<1> QED
  BY <1>1, <1>2, DialogStep, SaveExpenseStep, RecordPaymentStep, VoidPaymentStep DEF ExpensesNext

LEMMA BillsInvariance == Spec => []BillInv
<1>1. Init => BillInv
  BY BillsInitially DEF Init
<1>2. BillInv /\ [Next]_vars => BillInv'
  <2>1. ASSUME BillInv, UNCHANGED expenseVars
        PROVE  BillInv'
    BY <2>1 DEF BillInv, BillsTyped, Referring, WithinTotals, expenseVars
  <2> QED
    BY <2>1, BillsStep DEF Next, vars
<1> QED
  BY <1>1, <1>2, PTL DEF Spec

LEMMA PaymentsFit == BillInv => PaymentsWithinTotal
BY AmountIs DEF BillInv, WithinTotals, PaymentsWithinTotal

-----------------------------------------------------------------------------
(* The ledger of an invoice.                                               *)

LedgerSum(t) == SumFunctionOnSet([k \in Keys |-> IF t[k].voided THEN 0 ELSE t[k].amount], Keys)

LEMMA RecordedIs == Ledger!Recorded = LedgerSum(payments)
BY DEF Ledger!Recorded, LedgerSum, Ledger!SumFunctionOnSet, SumFunctionOnSet,
       Ledger!FoldFunctionOnSet, FoldFunctionOnSet, Ledger!MapThenFoldSet, MapThenFoldSet

LEMMA RecordedNext == Ledger!Recorded' = LedgerSum(payments')
BY DEF Ledger!Recorded, LedgerSum, Ledger!SumFunctionOnSet, SumFunctionOnSet,
       Ledger!FoldFunctionOnSet, FoldFunctionOnSet, Ledger!MapThenFoldSet, MapThenFoldSet

Receipts == [amount : Nat, voided : BOOLEAN]
Worth(row) == IF row.voided THEN 0 ELSE row.amount

\* Nothing is voided that was not recorded.
VoidedAreRecorded == \A k \in Keys : payments[k].amount = 0 => ~payments[k].voided

LedgerInv == Ledger!TypeOK /\ Ledger!PaidIsCovered /\ Ledger!ApprovedContentStands /\ VoidedAreRecorded

LEMMA AmountsAreNaturals == 0 \in Ledger!Amounts /\ Ledger!Amounts \subseteq Nat
<1>1. PICK m \in Totals : \A x \in Totals : x <= m
  BY LedgerAssumption, LargestElement
<1>2. Ledger!Max(Totals) \in Totals
  BY <1>1, LedgerAssumption DEF Ledger!Max
<1>3. Ledger!Max(Totals) \in Nat
  BY <1>2, LedgerAssumption
<1> QED
  BY <1>3 DEF Ledger!Amounts

LEMMA LedgerSumType ==
    ASSUME NEW t \in [Keys -> Receipts]
    PROVE  LedgerSum(t) \in Nat
<1> DEFINE f == [k \in Keys |-> IF t[k].voided THEN 0 ELSE t[k].amount]
<1>1. \A k \in Keys : f[k] \in Nat
  BY DEF Receipts
<1>2. LedgerSum(t) = SumFunctionOnSet(f, Keys)
  BY DEF LedgerSum
<1> HIDE DEF f
<1> QED
  BY <1>1, <1>2, LedgerAssumption, SumType

LEMMA ReceiptChanges ==
    \A t, u \in [Keys -> Receipts], k \in Keys :
        (\A j \in Keys : j # k => t[j] = u[j]) =>
            \E rest \in Nat : LedgerSum(t) = Worth(t[k]) + rest /\ LedgerSum(u) = Worth(u[k]) + rest
<1> SUFFICES ASSUME NEW t \in [Keys -> Receipts], NEW u \in [Keys -> Receipts], NEW k \in Keys,
                    \A j \in Keys : j # k => t[j] = u[j]
             PROVE  \E rest \in Nat : LedgerSum(t) = Worth(t[k]) + rest /\ LedgerSum(u) = Worth(u[k]) + rest
  OBVIOUS
<1> DEFINE f == [j \in Keys |-> IF t[j].voided THEN 0 ELSE t[j].amount]
           h == [j \in Keys |-> IF u[j].voided THEN 0 ELSE u[j].amount]
<1>1. \A j \in Keys : f[j] = Worth(t[j]) /\ h[j] = Worth(u[j]) /\ f[j] \in Nat /\ h[j] \in Nat
  BY DEF Receipts, Worth
<1>2. \A j \in Keys \ {k} : f[j] = h[j] /\ (j \in Keys <=> j \in Keys)
  OBVIOUS
<1>3. LedgerSum(t) = SumFunctionOnSet(f, Keys) /\ LedgerSum(u) = SumFunctionOnSet(h, Keys)
  BY DEF LedgerSum
<1> HIDE DEF f, h
<1>4. PICK rest \in Nat : /\ SumFunctionOnSet(f, Keys) = (IF k \in Keys THEN f[k] ELSE 0) + rest
                          /\ SumFunctionOnSet(h, Keys) = (IF k \in Keys THEN h[k] ELSE 0) + rest
  BY <1>1, <1>2, LedgerAssumption, SumChange
<1> QED
  BY <1>1, <1>3, <1>4

LEMMA SumOfReceipts ==
    \A k \in Keys :
        /\ payments \in [Keys -> Receipts] /\ payments' \in [Keys -> Receipts]
        /\ \A j \in Keys : j # k => payments[j] = payments'[j]
        => \E rest \in Nat : /\ LedgerSum(payments) = Worth(payments[k]) + rest
                             /\ LedgerSum(payments') = Worth(payments'[k]) + rest
BY ReceiptChanges

LEMMA LedgerTyped ==
    ASSUME Ledger!TypeOK
    PROVE  payments \in [Keys -> Receipts] /\ Ledger!Recorded \in Nat /\ invoice.total \in Nat
<1>1. payments \in [Keys -> Receipts]
  BY AmountsAreNaturals DEF Ledger!TypeOK, Receipts
<1> QED
  BY <1>1, LedgerSumType, RecordedIs, LedgerAssumption DEF Ledger!TypeOK

LEMMA LedgerInitially == Ledger!Init => LedgerInv
<1> SUFFICES ASSUME Ledger!Init PROVE LedgerInv
  OBVIOUS
<1>1. Ledger!TypeOK
  BY AmountsAreNaturals, LedgerAssumption DEF Ledger!Init, Ledger!TypeOK, Ledger!Status
<1> QED
  BY <1>1 DEF Ledger!Init, LedgerInv, Ledger!PaidIsCovered, Ledger!ApprovedContentStands, VoidedAreRecorded

\* A receipt is entered under a key that has none.
LEMMA EnteringAdds ==
    ASSUME LedgerInv, NEW k \in Keys, NEW amount \in Ledger!Amounts,
           payments[k].amount = 0, amount > 0, Ledger!Enter(k, amount)
    PROVE  /\ payments' \in [Keys -> [amount : Ledger!Amounts, voided : BOOLEAN]]
           /\ VoidedAreRecorded'
           /\ Ledger!Recorded' = Ledger!Recorded + amount
<1>1. /\ payments \in [Keys -> [amount : Ledger!Amounts, voided : BOOLEAN]]
      /\ payments \in [Keys -> Receipts] /\ amount \in Nat
  BY AmountsAreNaturals, LedgerTyped DEF LedgerInv, Ledger!TypeOK
<1>2. payments' = [payments EXCEPT ![k].amount = amount]
  BY DEF Ledger!Enter
<1>3. payments' \in [Keys -> [amount : Ledger!Amounts, voided : BOOLEAN]] /\ payments' \in [Keys -> Receipts]
  BY <1>1, <1>2 DEF Receipts
<1>4. /\ ~payments[k].voided /\ ~payments'[k].voided /\ payments'[k].amount = amount
      /\ \A j \in Keys : j # k => payments[j] = payments'[j]
  BY <1>1, <1>2 DEF LedgerInv, VoidedAreRecorded, Receipts
<1>5. PICK rest \in Nat : /\ LedgerSum(payments) = Worth(payments[k]) + rest
                          /\ LedgerSum(payments') = Worth(payments'[k]) + rest
  BY <1>1, <1>3, <1>4, SumOfReceipts
<1>6. Worth(payments[k]) = 0 /\ Worth(payments'[k]) = amount
  BY <1>4 DEF Worth
<1>7. LedgerSum(payments') = LedgerSum(payments) + amount
  BY <1>1, <1>5, <1>6
<1>8. VoidedAreRecorded'
  BY <1>4 DEF LedgerInv, VoidedAreRecorded
<1> QED
  BY <1>3, <1>7, <1>8, RecordedIs, RecordedNext

LEMMA LedgerStep ==
    ASSUME LedgerInv, Ledger!Next
    PROVE  LedgerInv'
<1> DEFINE Accounts == [Keys -> [amount : Ledger!Amounts, voided : BOOLEAN]]
<1>1. /\ invoice \in [status : Ledger!Status, deleted : BOOLEAN, total : Totals,
                      revision : 1..MaxEditions, content : 1..MaxEditions]
      /\ payments \in Accounts
      /\ history \in [lifecycle : {"none", "approved", "sent"}, approved : 0..MaxEditions,
                      issued : 0..MaxEditions, legacy : BOOLEAN]
      /\ MaxEditions \in Nat
  BY LedgerAssumption DEF LedgerInv, Ledger!TypeOK
<1>2. Ledger!Recorded \in Nat /\ invoice.total \in Nat
  BY LedgerTyped DEF LedgerInv
\* Steps that leave the payments alone.
<1>3. ASSUME payments' = payments
      PROVE  Ledger!Recorded' = Ledger!Recorded /\ VoidedAreRecorded' /\ payments' \in Accounts
  <2>1. LedgerSum(payments') = LedgerSum(payments)
    BY <1>3
  <2> QED
    BY <1>1, <1>3, <2>1, RecordedIs, RecordedNext DEF LedgerInv, VoidedAreRecorded
<1> USE DEF LedgerInv, Ledger!TypeOK, Ledger!PaidIsCovered, Ledger!ApprovedContentStands, Ledger!Status
<1>4. CASE Ledger!Approve
  <2>1. /\ payments' = payments /\ invoice' = [invoice EXCEPT !.status = "approved"]
        /\ history' = [history EXCEPT !.lifecycle = "approved", !.approved = invoice.content]
    BY <1>4 DEF Ledger!Approve
  <2>2. invoice.content \in 0..MaxEditions
    BY <1>1
  <2> QED
    BY <1>1, <1>3, <2>1, <2>2
<1>5. CASE Ledger!Reject
  BY <1>1, <1>3, <1>5 DEF Ledger!Reject
<1>6. CASE Ledger!Archive
  BY <1>1, <1>3, <1>6 DEF Ledger!Archive
<1>7. ASSUME NEW total \in Totals, Ledger!Edit(total)
      PROVE  LedgerInv'
  <2> DEFINE next == invoice.revision + 1
             status == IF invoice.status = "approved" THEN "draft" ELSE invoice.status
  <2>1. UNCHANGED <<payments, history>> /\ next \in 1..MaxEditions /\ status \in {"draft", "rejected"}
    BY <1>1, <1>7 DEF Ledger!Edit
  <2>2. invoice' = [invoice EXCEPT !.total = total, !.revision = next, !.content = next, !.status = status]
    BY <1>1, <1>7 DEF Ledger!Edit
  <2> HIDE DEF next, status
  <2>3. /\ invoice' \in [status : Ledger!Status, deleted : BOOLEAN, total : Totals,
                          revision : 1..MaxEditions, content : 1..MaxEditions]
        /\ invoice'.status \in {"draft", "rejected"}
    BY <1>1, <2>1, <2>2
  <2> QED
    BY <1>1, <1>3, <2>1, <2>3
<1>8. CASE Ledger!MarkSent
  <2>1. payments' = payments
    BY <1>8 DEF Ledger!MarkSent, Ledger!ledger
  <2>2. CASE ~invoice.deleted /\ invoice.status = "approved"
    <3>1. invoice' = [invoice EXCEPT !.status = "sent"] /\ history' = [history EXCEPT !.issued = invoice.content]
      BY <1>8, <2>2 DEF Ledger!MarkSent
    <3>2. invoice.content \in 0..MaxEditions
      BY <1>1
    <3> QED
      BY <1>1, <1>3, <2>1, <2>2, <3>1, <3>2
  <2>3. CASE ~(~invoice.deleted /\ invoice.status = "approved")
    <3>1. UNCHANGED <<invoice, history>>
      BY <1>8, <2>3 DEF Ledger!MarkSent, Ledger!ledger
    <3> QED
      BY <1>1, <1>3, <2>1, <3>1
  <2> QED
    BY <2>2, <2>3
\* A review: the claim is paid, as otherwise the register would exceed the total.
<1>9. ASSUME Ledger!ReviewRequired, Ledger!Recorded <= invoice.total
      PROVE  /\ invoice.status = "paid" /\ history.approved = invoice.content
             /\ \A paid : Ledger!ReviewedStatus(paid) \in Ledger!Status
             /\ \A paid : Ledger!ReviewedStatus(paid) = "paid" => paid = invoice.total
  BY <1>1, <1>2, <1>9 DEF Ledger!ReviewRequired, Ledger!ReviewedStatus
<1>10. CASE Ledger!ConfirmRegister
  <2> DEFINE status == Ledger!ReviewedStatus(Ledger!Recorded)
             next == invoice.revision + 1
  <2>1. /\ payments' = payments /\ history' = [history EXCEPT !.legacy = FALSE]
        /\ invoice' = [invoice EXCEPT !.status = status, !.revision = next]
        /\ next \in 1..MaxEditions
    BY <1>1, <1>10 DEF Ledger!ConfirmRegister
  <2>2. /\ history.approved = invoice.content /\ status \in Ledger!Status
        /\ status = "paid" => Ledger!Recorded = invoice.total
    BY <1>9, <1>10 DEF Ledger!ConfirmRegister
  <2> HIDE DEF status, next
  <2> QED
    BY <1>1, <1>3, <2>1, <2>2
<1>11. ASSUME NEW k \in Keys, NEW amount \in Ledger!Amounts, Ledger!SavePayment(k, amount)
       PROVE  LedgerInv'
  <2>1. /\ payments' \in Accounts /\ VoidedAreRecorded'
        /\ Ledger!Recorded' = Ledger!Recorded + amount
    BY <1>11, EnteringAdds DEF Ledger!SavePayment
  <2> QED
    BY <1>1, <1>11, <2>1 DEF Ledger!SavePayment
<1>12. ASSUME NEW k \in Keys, NEW amount \in Ledger!Amounts, Ledger!RecordReceipt(k, amount)
       PROVE  LedgerInv'
  <2>1. /\ payments' \in Accounts /\ VoidedAreRecorded'
        /\ Ledger!Recorded' = Ledger!Recorded + amount
    BY <1>12, EnteringAdds DEF Ledger!RecordReceipt
  <2>2. Ledger!Recorded <= invoice.total /\ Ledger!ReviewRequired /\ amount \in Nat
    BY <1>2, <1>12, AmountsAreNaturals DEF Ledger!RecordReceipt
  <2> DEFINE status == Ledger!ReviewedStatus(Ledger!Recorded + amount)
             next == invoice.revision + 1
  <2>3. /\ history' = [history EXCEPT !.legacy = FALSE]
        /\ invoice' = [invoice EXCEPT !.status = status, !.revision = next]
        /\ next \in 1..MaxEditions
    BY <1>1, <1>12 DEF Ledger!RecordReceipt
  <2>4. /\ history.approved = invoice.content /\ status \in Ledger!Status
        /\ status = "paid" => Ledger!Recorded + amount = invoice.total
    BY <1>9, <2>2
  <2> HIDE DEF status, next
  <2> QED
    BY <1>1, <2>1, <2>3, <2>4
<1>13. ASSUME NEW k \in Keys, Ledger!VoidPayment(k)
       PROVE  LedgerInv'
  <2>1. payments' \in Accounts
    BY <1>1, <1>13 DEF Ledger!VoidPayment
  <2>2. \A j \in Keys : payments'[j].amount = payments[j].amount /\ (j # k => payments'[j] = payments[j])
    BY <1>1, <1>13 DEF Ledger!VoidPayment
  <2>3. payments[k].amount # 0
    BY <1>1, <1>13, AmountsAreNaturals DEF Ledger!VoidPayment
  <2>4. VoidedAreRecorded'
    BY <2>2, <2>3 DEF VoidedAreRecorded
  <2> QED
    BY <1>1, <1>13, <2>1, <2>4 DEF Ledger!VoidPayment
<1> QED
  BY <1>4, <1>5, <1>6, <1>7, <1>8, <1>10, <1>11, <1>12, <1>13 DEF Ledger!Next, Ledger!Operation

LEMMA LedgerInvariance == Spec => []LedgerInv
<1>1. Init => LedgerInv
  BY LedgerInitially DEF Init
<1>2. LedgerInv /\ [Next]_vars => LedgerInv'
  <2>1. ASSUME LedgerInv, UNCHANGED ledgerVars
        PROVE  LedgerInv'
    <3>1. LedgerSum(payments') = LedgerSum(payments)
      BY <2>1 DEF ledgerVars
    <3> QED
      BY <2>1, <3>1, RecordedIs, RecordedNext
         DEF LedgerInv, ledgerVars, Ledger!TypeOK, Ledger!PaidIsCovered, Ledger!ApprovedContentStands, VoidedAreRecorded
  <2> QED
    BY <2>1, LedgerStep DEF Next, vars
<1> QED
  BY <1>1, <1>2, PTL DEF Spec

-----------------------------------------------------------------------------
(* The types of the registers, beyond what their invariants say.           *)

RfqBounds == (\A r \in Rfq : rfq[r].revision <= MaxRevision) /\ drawn \subseteq SubmitKeys

LEMMA RfqBoundsStep ==
    ASSUME RfqsInv, RfqBounds, RfqsNext
    PROVE  RfqBounds'
<1> USE DEF RfqBounds, RowsTyped, RfqsInv
<1>1. ASSUME NEW t \in Tabs, NEW body \in Content, SubmitRFQ(t, body)
      PROVE  RfqBounds'
  BY <1>1 DEF SubmitRFQ
<1>2. ASSUME NEW t \in Tabs, NEW content \in Content, UpdateRFQ(t, content)
      PROVE  RfqBounds'
  <2> DEFINE r == dialog[t].rfq
  <2>1. rfq[r].revision < MaxRevision /\ drawn' = drawn
    BY <1>2 DEF UpdateRFQ, Revised
  <2>2. rfq' = [rfq EXCEPT ![r].content = content, ![r].revision = @ + 1]
    BY <1>2 DEF UpdateRFQ
  <2> HIDE DEF r
  <2>3. \A s \in Rfq : rfq'[s].revision = IF s = r THEN rfq[s].revision + 1 ELSE rfq[s].revision
    BY <2>2
  <2>4. MaxRevision \in Nat /\ \A s \in Rfq : rfq[s].revision \in Nat
    BY RfqsAssumption
  <2> QED
    BY <2>1, <2>3, <2>4
<1>3. ASSUME NEW r \in Rfq, ApproveRFQ(r) \/ RejectRFQ(r) \/ CloseRFQ(r) \/ ArchiveRFQ(r) \/ RestoreRFQ(r)
      PROVE  RfqBounds'
  <2>1. rfq[r].revision < MaxRevision /\ drawn' = drawn
    BY <1>3 DEF ApproveRFQ, RejectRFQ, CloseRFQ, Transition, ArchiveRFQ, RestoreRFQ, Revised, tabVars
  <2>2. \A s \in Rfq : rfq'[s].revision = IF s = r THEN rfq[s].revision + 1 ELSE rfq[s].revision
    BY <1>3 DEF ApproveRFQ, RejectRFQ, CloseRFQ, Transition, ArchiveRFQ, RestoreRFQ
  <2>3. MaxRevision \in Nat /\ \A s \in Rfq : rfq[s].revision \in Nat
    BY RfqsAssumption
  <2> QED
    BY <2>1, <2>2, <2>3
<1>4. ASSUME NEW m \in wire, CreateRFQ(m)
      PROVE  RfqBounds'
  BY <1>4, RfqsAssumption DEF CreateRFQ, FreshIn
<1>5. ASSUME NEW r \in Rfq, NEW v \in Invoice, CreateInvoice(v, r)
      PROVE  RfqBounds'
  BY <1>5 DEF CreateInvoice, tabVars
<1>6. CASE UNCHANGED <<rfq, drawn>>
  BY <1>6
<1> QED
  BY <1>1, <1>2, <1>3, <1>4, <1>5, <1>6
     DEF RfqsNext, Reload, EditOriginalRfq, LoseRequest, ArchiveBill, tabVars

LEMMA RfqsTypes == RfqsInv /\ RfqBounds => RfqsTypeOK
BY RfqsAssumption DEF RfqsInv, RowsTyped, RfqBounds, RfqsTypeOK, Bodies

-----------------------------------------------------------------------------
\* What is attached, mailed or under way is of applications and documents made.
CareerBounds ==
    /\ vacancy \in {"OPEN", "CLOSED"}
    /\ Len(application) <= MaxApplications /\ Len(document) <= MaxDocuments
    /\ \A c \in Candidates : /\ submission[c].application \in 0..Len(application)
                             /\ submission[c].document \in 0..Len(document)
    /\ \A d \in 1..Len(document) : document[d].application \in 1..Len(application)
    /\ \A l \in letters : l.application \in 1..Len(application)

LEMMA CareerBoundsInitially == CareersInit => CareerBounds
<1> SUFFICES ASSUME CareersInit PROVE CareerBounds
  OBVIOUS
<1>1. Len(application) = 0 /\ Len(document) = 0 /\ 0 \in 0..0
  BY EmptySeq DEF CareersInit
<1> QED
  BY <1>1, CareersAssumption DEF CareersInit, CareerBounds, Waiting

\* A step that adds no document.
LEMMA NoDocument ==
    ASSUME CareersInv, CareerBounds, document' = document,
           vacancy' \in {"OPEN", "CLOSED"},
           Len(application') \in Nat, Len(application') >= Len(application), Len(application') <= MaxApplications,
           \A c \in Candidates :
              /\ \/ submission'[c].application \in {0, submission[c].application}
                 \/ submission'[c].application \in 1..Len(application')
              /\ submission'[c].document \in {0, submission[c].document},
           \A l \in letters' : l \in letters \/ l.application \in 1..Len(application)
    PROVE  CareerBounds'
<1>1. Len(application) \in Nat /\ Len(document) \in Nat
  BY LenProperties DEF CareersInv, CareersTyped
<1>2. 1..Len(application) \subseteq 1..Len(application') /\ 0..Len(application) \subseteq 0..Len(application')
  BY <1>1
<1>3. \A c \in Candidates : /\ submission'[c].application \in 0..Len(application')
                            /\ submission'[c].document \in 0..Len(document')
  <2> SUFFICES ASSUME NEW c \in Candidates
               PROVE  submission'[c].application \in 0..Len(application') /\ submission'[c].document \in 0..Len(document')
    OBVIOUS
  <2>1. submission[c].application \in 0..Len(application) /\ submission[c].document \in 0..Len(document)
    BY DEF CareerBounds
  <2>2. 0 \in 0..Len(application') /\ 0 \in 0..Len(document) /\ 1..Len(application') \subseteq 0..Len(application')
    BY <1>1
  <2> QED
    BY <1>2, <2>1, <2>2
<1>4. \A l \in letters' : l.application \in 1..Len(application')
  BY <1>2 DEF CareerBounds
<1>5. \A d \in 1..Len(document') : document'[d].application \in 1..Len(application')
  BY <1>2 DEF CareerBounds
<1> QED
  BY <1>3, <1>4, <1>5 DEF CareerBounds

LEMMA CareerBoundsStep ==
    ASSUME CareersInv, CareerBounds, CareersNext
    PROVE  CareerBounds'
<1>0. /\ Len(application) \in Nat /\ Len(document) \in Nat /\ Len(application) <= MaxApplications
      /\ Len(application) >= Len(application)
      /\ application \in [1..Len(application) -> Rows] /\ DOMAIN application = 1..Len(application)
      /\ submission \in [Candidates -> Runs] /\ vacancy \in {"OPEN", "CLOSED"}
  BY LenProperties DEF CareersInv, CareersTyped, CareerBounds
<1>1. ASSUME NEW c \in Candidates, NEW details \in Details, Submit(c, details)
      PROVE  CareerBounds'
  <2>1. UNCHANGED <<vacancy, application, document, letters>>
    BY <1>1 DEF Submit
  <2>2. PICK seen : submission' = [submission EXCEPT ![c] = [Waiting EXCEPT !.at = "save", !.details = details, !.seen = seen]]
    BY <1>1 DEF Submit
  <2>3. \A e \in Candidates : /\ submission'[e].application \in {0, submission[e].application}
                              /\ submission'[e].document \in {0, submission[e].document}
    BY <1>0, <2>2 DEF Waiting
  <2> QED
    BY <1>0, <2>1, <2>3, NoDocument
<1>2. ASSUME NEW c \in Candidates, Save(c)
      PROVE  CareerBounds'
  <2> DEFINE s == submission[c]
             n == IF s.seen = 0 THEN Len(application) + 1 ELSE s.seen
  <2>1. UNCHANGED <<vacancy, document, letters>>
    BY <1>2 DEF Save
  <2>2. /\ Len(application') \in Nat /\ Len(application') >= Len(application) /\ Len(application') <= MaxApplications
        /\ n \in 1..Len(application')
    <3>1. CASE s.seen = 0
      <4>1. PICK new : application' = Append(application, new)
        BY <1>2, <3>1 DEF Save
      <4>2. Len(application) < MaxApplications
        BY <1>2, <3>1 DEF Save
      <4>3. Len(application') = Len(application) + 1
        BY <4>1 DEF CareersInv, CareersTyped
      <4> QED
        BY <1>0, <3>1, <4>2, <4>3, CareersAssumption
    <3>2. CASE s.seen # 0
      <4>1. application' = application \/ application' = [application EXCEPT ![s.seen].details = s.details, ![s.seen].status = "NEW"]
        BY <1>2, <3>2 DEF Save
      <4>2. s.seen \in 1..Len(application) /\ s \in Runs
        BY <1>0, <3>2 DEF CareersInv, ReferencesStand
      <4>3. application' \in [1..Len(application) -> Rows]
        <5>1. CASE application' = application
          BY <1>0, <5>1
        <5>2. CASE application' = [application EXCEPT ![s.seen].details = s.details, ![s.seen].status = "NEW"]
          BY <1>0, <4>2, <5>2 DEF Rows, Runs
        <5> QED
          BY <4>1, <5>1, <5>2
      <4>4. Len(application') = Len(application)
        BY <4>3, Rewritten DEF CareersInv, CareersTyped
      <4> QED
        BY <1>0, <3>2, <4>2, <4>4
    <3> QED
      BY <3>1, <3>2
  <2>3. submission' = [submission EXCEPT ![c] = [Waiting EXCEPT !.at = "register", !.reference = Reference(c), !.application = n]]
    BY <1>2 DEF Save
  <2>4. \A e \in Candidates :
           /\ \/ submission'[e].application \in {0, submission[e].application}
              \/ submission'[e].application \in 1..Len(application')
           /\ submission'[e].document \in {0, submission[e].document}
    <3> HIDE DEF n
    <3> QED
      BY <1>0, <2>2, <2>3 DEF Waiting
  <2> HIDE DEF n
  <2> QED
    BY <1>0, <2>1, <2>2, <2>4, NoDocument
<1>3. ASSUME NEW c \in Candidates, NEW bytes \in BOOLEAN, submission[c].at = "register", Registered(c, bytes),
             Len(document) < MaxDocuments, UNCHANGED <<vacancy, application, letters>>,
             \/ submission' = [submission EXCEPT ![c].at = "mail"]
             \/ submission' = [submission EXCEPT ![c].at = "attach", ![c].document = Len(document) + 1]
      PROVE  CareerBounds'
  <2>1. /\ Len(document') = Len(document) + 1
        /\ \A d \in 1..Len(document) : document'[d] = document[d]
        /\ document'[Len(document) + 1] = [application |-> submission[c].application, bytes |-> bytes]
    <3>1. submission[c].at = "register" /\ Registered(c, bytes)
      BY <1>3
    <3> QED
      BY <3>1, AddedLast
  <2>2. Len(document') <= MaxDocuments
    BY <1>0, <1>3, <2>1, CareersAssumption
  <2>3. submission[c].application \in 1..Len(application)
    BY <1>3 DEF CareersInv, ReferencesStand, Running
  <2>4. \A d \in 1..Len(document') : document'[d].application \in 1..Len(application)
    <3>1. \A d \in 1..Len(document') : d \in 1..Len(document) \/ d = Len(document) + 1
      BY <1>0, <2>1
    <3> QED
      BY <2>1, <2>3, <3>1 DEF CareerBounds
  <2>5. \A e \in Candidates : /\ submission'[e].application \in 0..Len(application)
                              /\ submission'[e].document \in 0..Len(document')
    <3>1. \A e \in Candidates : /\ submission'[e].application = submission[e].application
                                /\ submission'[e].document \in {submission[e].document, Len(document) + 1}
      BY <1>0, <1>3 DEF Runs
    <3>2. 0..Len(document) \subseteq 0..Len(document') /\ Len(document) + 1 \in 0..Len(document')
      BY <1>0, <2>1
    <3> QED
      BY <3>1, <3>2 DEF CareerBounds
  <2> QED
    BY <1>3, <2>2, <2>4, <2>5 DEF CareerBounds
<1>4. ASSUME NEW c \in Candidates, NEW remote \in BOOLEAN, RegisterDocument(c, remote)
      PROVE  CareerBounds'
  <2>1. /\ submission[c].at = "register" /\ Len(document) < MaxDocuments /\ UNCHANGED <<vacancy, application, letters>>
        /\ Registered(c, TRUE)
        /\ submission' = [submission EXCEPT ![c].at = "attach", ![c].document = Len(document) + 1]
    BY <1>4 DEF RegisterDocument, FileKept
  <2> QED
    BY <1>3, <2>1
<1>5. ASSUME NEW c \in Candidates, FailToRegister(c)
      PROVE  CareerBounds'
  <2>1. submission[c].at = "register" /\ UNCHANGED <<vacancy, application, letters>>
        /\ submission' = [submission EXCEPT ![c].at = "mail"]
    BY <1>5 DEF FailToRegister, Goes
  <2>2. CASE document' = document
    <3>1. \A e \in Candidates : /\ submission'[e].application \in {0, submission[e].application}
                                /\ submission'[e].document \in {0, submission[e].document}
      BY <1>0, <2>1 DEF Runs
    <3> QED
      BY <1>0, <2>1, <2>2, <3>1, NoDocument
  <2>3. CASE Len(document) < MaxDocuments /\ \E bytes \in BOOLEAN : Registered(c, bytes)
    BY <1>3, <2>1, <2>3
  <2> QED
    BY <1>5, <2>2, <2>3 DEF FailToRegister
<1>6. ASSUME NEW c \in Candidates, NEW answered \in BOOLEAN, Attach(c, answered)
      PROVE  CareerBounds'
  <2>1. UNCHANGED <<vacancy, document, letters>>
    BY <1>6 DEF Attach
  <2>2. submission[c].application \in 1..Len(application) /\ submission[c].document \in Nat
    BY <1>0, <1>6 DEF Attach, CareersInv, ReferencesStand, Running, Runs
  <2>3. application' \in [1..Len(application) -> Rows]
    BY <1>0, <1>6, <2>2 DEF Attach, Rows
  <2>4. Len(application') = Len(application)
    BY <2>3, Rewritten DEF CareersInv, CareersTyped
  <2>5. \A e \in Candidates : /\ submission'[e].application \in {0, submission[e].application}
                              /\ submission'[e].document \in {0, submission[e].document}
    BY <1>0, <1>6 DEF Attach, Runs
  <2> QED
    BY <1>0, <2>1, <2>4, <2>5, NoDocument
<1>7. ASSUME NEW c \in Candidates, FailToAttach(c) \/ LoseSubmission(c)
      PROVE  CareerBounds'
  <2>1. UNCHANGED <<vacancy, application, document, letters>>
    BY <1>7 DEF FailToAttach, LoseSubmission
  <2>2. \A e \in Candidates : /\ submission'[e].application \in {0, submission[e].application}
                              /\ submission'[e].document \in {0, submission[e].document}
    <3>1. \/ submission' = [submission EXCEPT ![c].at = "mail"] \/ submission' = [submission EXCEPT ![c] = Waiting]
      BY <1>7 DEF FailToAttach, LoseSubmission, Goes
    <3>2. CASE submission' = [submission EXCEPT ![c].at = "mail"]
      BY <1>0, <3>2 DEF Runs
    <3>3. CASE submission' = [submission EXCEPT ![c] = Waiting]
      BY <1>0, <3>3 DEF Waiting
    <3> QED
      BY <3>1, <3>2, <3>3
  <2> QED
    BY <1>0, <2>1, <2>2, NoDocument
<1>8. ASSUME NEW c \in Candidates, QueueEmails(c)
      PROVE  CareerBounds'
  <2> DEFINE s == submission[c]
  <2>1. UNCHANGED <<vacancy, application, document>>
    BY <1>8 DEF QueueEmails
  <2>2. s.application \in 1..Len(application)
    BY <1>8 DEF QueueEmails, CareersInv, ReferencesStand, Running
  <2>3. \A l \in letters' : l \in letters \/ l.application = s.application
    BY <1>8 DEF QueueEmails
  <2>4. submission' = [submission EXCEPT ![c] = [Waiting EXCEPT !.at = "answered", !.application = s.application, !.secured = s.secured]]
    BY <1>8 DEF QueueEmails
  <2> DEFINE row == [Waiting EXCEPT !.at = "answered", !.application = s.application, !.secured = s.secured]
  <2>0. row.application = s.application /\ row.document = 0
    BY DEF Waiting
  <2>6. submission' = [submission EXCEPT ![c] = row]
    BY <2>4
  <2> HIDE DEF row
  <2>5. \A e \in Candidates : /\ submission'[e].application \in {0, submission[e].application}
                              /\ submission'[e].document \in {0, submission[e].document}
    <3>1. submission'[c] = row /\ \A e \in Candidates : e # c => submission'[e] = submission[e]
      BY <1>0, <2>6
    <3>2. row.application = submission[c].application
      BY <2>0
    <3> QED
      BY <2>0, <3>1, <3>2
  <2> QED
    BY <1>0, <2>1, <2>2, <2>3, <2>5, NoDocument
<1>9. ASSUME application' \in [1..Len(application) -> Rows], UNCHANGED <<vacancy, document, letters, submission>>
      PROVE  CareerBounds'
  <2>1. Len(application') = Len(application)
    BY <1>9, Rewritten DEF CareersInv, CareersTyped
  <2> QED
    BY <1>0, <1>9, <2>1, NoDocument
<1>10. ASSUME NEW a \in DOMAIN application, NEW status \in {"NEW", "SCREENING"}, UpdateApplicationStatus(a, status)
       PROVE  CareerBounds'
  <2>1. application' \in [1..Len(application) -> Rows]
    BY <1>0, <1>10 DEF UpdateApplicationStatus, Rows
  <2> QED
    BY <1>9, <1>10, <2>1 DEF UpdateApplicationStatus
<1>11. ASSUME NEW status \in {"OPEN", "CLOSED"}, SetJobStatus(status)
       PROVE  CareerBounds'
  BY <1>11 DEF SetJobStatus, CareerBounds
<1>12. CASE HalfAnHourPasses
  <2>1. application' \in [1..Len(application) -> Rows]
    BY <1>0, <1>12 DEF HalfAnHourPasses, Rows
  <2> QED
    BY <1>9, <1>12, <2>1 DEF HalfAnHourPasses
<1> QED
  BY <1>1, <1>2, <1>4, <1>5, <1>6, <1>7, <1>8, <1>10, <1>11, <1>12 DEF CareersNext

LEMMA CareersTypes == CareersInv /\ CareerBounds => CareersTypeOK
<1> SUFFICES ASSUME CareersInv, CareerBounds PROVE CareersTypeOK
  OBVIOUS
<1>1. /\ Len(application) \in Nat /\ Len(document) \in Nat
      /\ DOMAIN application = 1..Len(application) /\ DOMAIN document = 1..Len(document)
      /\ application \in [1..Len(application) -> Rows] /\ document \in [1..Len(document) -> Papers]
  BY LenProperties DEF CareersInv, CareersTyped
<1>2. Said = Details
  BY CareersAssumption DEF Said, Waiting
<1>3. 0..Len(application) \subseteq 0..MaxApplications /\ 0..Len(document) \subseteq 0..MaxDocuments
  BY <1>1, CareersAssumption DEF CareerBounds
<1>4. \A a \in DOMAIN application :
        application[a] \in [reference : Nat, details : Details, status : {"NEW", "SCREENING"}, resume : 0..MaxDocuments, recent : BOOLEAN]
  <2> SUFFICES ASSUME NEW a \in 1..Len(application)
               PROVE  application[a] \in [reference : Nat, details : Details, status : {"NEW", "SCREENING"},
                                          resume : 0..MaxDocuments, recent : BOOLEAN]
    BY <1>1
  <2>1. application[a] \in Rows
    BY <1>1
  <2>2. application[a].resume \in 0..Len(document)
    <3>1. application[a].resume = 0 \/ application[a].resume \in 1..Len(document)
      BY DEF CareersInv, ResumesMatch
    <3> QED
      BY <1>1, <3>1
  <2> QED
    BY <1>2, <1>3, <2>1, <2>2 DEF Rows
<1>5. \A d \in DOMAIN document : document[d] \in [application : DOMAIN application, bytes : BOOLEAN]
  BY <1>1 DEF Papers, CareerBounds
<1>6. letters \subseteq [reference : Nat, application : DOMAIN application, kind : Kinds]
  BY <1>1 DEF CareersInv, CareersTyped, CareerBounds
<1>7. submission \in [Candidates -> [at : {"idle", "save", "register", "attach", "mail", "answered"}, details : Details,
                          seen : 0..MaxApplications, reference : Nat, application : 0..MaxApplications,
                          document : 0..MaxDocuments, secured : BOOLEAN]]
  <2>1. submission \in [Candidates -> Runs]
    BY DEF CareersInv, CareersTyped
  <2>2. ASSUME NEW c \in Candidates
        PROVE  submission[c] \in [at : {"idle", "save", "register", "attach", "mail", "answered"}, details : Details,
                          seen : 0..MaxApplications, reference : Nat, application : 0..MaxApplications,
                          document : 0..MaxDocuments, secured : BOOLEAN]
    <3>1. submission[c].seen \in 0..Len(application)
      BY <1>1, <2>1 DEF CareersInv, ReferencesStand, Runs
    <3> QED
      BY <1>2, <1>3, <2>1, <3>1 DEF CareerBounds, Runs, Running
  <2> QED
    BY <2>1, <2>2
<1> QED
  BY <1>4, <1>5, <1>6, <1>7 DEF CareersTypeOK, CareerBounds

LEMMA BoundsInvariance == Spec => [](RfqBounds /\ CareerBounds)
<1>1. Init => RfqBounds /\ CareerBounds
  BY CareerBoundsInitially, RfqsAssumption DEF Init, RfqsInit, RfqBounds
<1>2. RfqsInv /\ CareersInv /\ RfqBounds /\ CareerBounds /\ [Next]_vars => (RfqBounds /\ CareerBounds)'
  <2>1. UNCHANGED rfqVars /\ RfqBounds => RfqBounds'
    BY DEF RfqBounds, rfqVars
  <2>2. UNCHANGED careerVars /\ CareerBounds => CareerBounds'
    BY DEF CareerBounds, careerVars
  <2> QED
    BY <2>1, <2>2, RfqBoundsStep, CareerBoundsStep DEF Next, vars
<1> QED
  BY <1>1, <1>2, RfqsInvariance, CareersInvariance, PTL DEF Spec

-----------------------------------------------------------------------------
LEMMA ApprovalTypes == A!TypeOK => Approval!TypeOK
BY DEF A!TypeOK, Approval!TypeOK, A!Rows, Approval!Rows, A!Steps, Approval!Steps, A!Times, Approval!Times,
       A!Never, Approval!Never, A!Instance, Approval!Instance, A!InstanceStatus, Approval!InstanceStatus,
       A!Active, Approval!Active, A!Final, Approval!Final, A!Assignment, Approval!Assignment,
       A!AssignmentStatus, Approval!AssignmentStatus

-----------------------------------------------------------------------------
(* All of it.                                                              *)

\* What each register promises: stock and the log of a material add up, payments
\* stay within a bill and cover what is called paid, and an invoice bills, and is
\* sent and paid, as it was approved.
THEOREM BalancesAdd == Spec => []BalancesHold
<1>1. TrashInv => TrashTypeOK
  BY DEF TrashInv
<1>2. StockInv /\ MaterialInv => InventoryTypeOK
  BY DEF StockInv, StockTyped, BatchRows, IssueRows, MaterialInv, MaterialTyped, InventoryTypeOK
<1>3. BillInv => ExpensesTypeOK
  BY DEF BillInv, BillsTyped, BillRows, PaymentRows, Sheets, ExpensesTypeOK
<1>4. LedgerInv => Ledger!TypeOK /\ Ledger!PaidIsCovered /\ Ledger!ApprovedContentStands
  BY DEF LedgerInv
<1>5. ApprovalInv => Approval!TypeOK
  BY ApprovalTypes DEF ApprovalInv
<1>6. RfqsInv => InvoicedAsApproved
  BY DEF RfqsInv, BillsAgree, InvoicedAsApproved
<1>7. Spec => []ApprovalInv
  <2>1. Init => ApprovalInv
    BY ApprovalInitially DEF Init
  <2> QED
    BY <2>1, ApprovalStep, PTL DEF Spec
<1>8. /\ TrashInv /\ StockInv /\ MaterialInv /\ BillInv /\ LedgerInv /\ ApprovalInv
      /\ RfqsInv /\ CareersInv /\ RfqBounds /\ CareerBounds
      => BalancesHold
  BY <1>1, <1>2, <1>3, <1>4, <1>5, <1>6, RfqsTypes, CareersTypes, StockBalances, MaterialLogged, PaymentsFit
     DEF BalancesHold, TypeOK
<1> QED
  BY <1>7, <1>8, TrashInvariance, StockInvariance, MaterialInvariance, BillsInvariance, LedgerInvariance,
     RfqsInvariance, CareersInvariance, BoundsInvariance, PTL
=============================================================================
