----------------------------- MODULE Attendance -----------------------------
(* One employee's attendance: the clock on the phone (public/staff-home.js,  *)
(* services/attendanceActionService.js, attendanceQrService.js), correction  *)
(* requests (attendanceCorrectionService.js), and the supervisor's own edits *)
(* (attendanceController.js).  Every handler is a transaction under the lock *)
(* of the employee's row of users.  A phone keeps a request that may have    *)
(* been lost in sessionStorage and asks for its receipt or sends it again    *)
(* with the same request id.                                                 *)
(*                                                                           *)
(* Times are ticks of the server's clock from 1; 0 is NULL.  A supervisor's  *)
(* form opened on a stale revision is refused and is left out.               *)
EXTENDS Naturals, FiniteSets

CONSTANTS Sessions,      \* ids of staff_attendance, ascending
          Phones,
          Corrections,
          Rests,         \* minutes of break a form may say
          MaxRequests,   \* bound: request ids issued
          MaxTime,       \* bound
          MaxChanges,    \* bound: revisions of one session
          PeriodLength,  \* ticks of one timesheet period
          ProofLife,     \* 30 seconds
          LongShift      \* 720 minutes

ASSUME AttendanceAssumption ==
    /\ Sessions \subseteq Nat \ {0} /\ IsFiniteSet(Sessions) /\ Rests \subseteq Nat /\ MaxRequests \in Nat /\ MaxTime \in Nat
    /\ MaxChanges \in Nat /\ ProofLife \in Nat /\ {PeriodLength, LongShift} \subseteq Nat \ {0}

VARIABLES
    shift,        \* staff_attendance with its effective breaks
    correction,   \* attendance_correction_requests
    approved,     \* periods of approved weekly_timesheets
    receipt,      \* attendance_action_receipts
    phone,        \* a phone's pending request and where it is
    sent,         \* requests sent and not yet handled
    issued,       \* crypto.randomUUID() and taps so far
    bypass,       \* the account may clock without a QR code
    clock         \* server time

attendanceVars == <<shift, correction, approved, receipt, phone, sent, issued, bypass, clock>>
clientVars == <<phone, sent, issued>>

NoShift == [state |-> "none", in |-> 0, out |-> 0, rest |-> 0, onBreak |-> 0,
            review |-> FALSE, revision |-> 0, tap |-> 0, restored |-> FALSE]
NoCorrection == [state |-> "none", session |-> 0, seen |-> NoShift, in |-> 0, out |-> 0, rest |-> 0]
NoRequest == [id |-> 0, tap |-> 0, action |-> "none", session |-> 0, prior |-> 0, expires |-> 0]
Quiet == [at |-> "idle", request |-> NoRequest]
Actions == {"CHECK_IN", "CHECK_OUT", "BREAK_START", "BREAK_END"}

AttendanceInit ==
    /\ shift = [s \in Sessions |-> NoShift]
    /\ correction = [c \in Corrections |-> NoCorrection]
    /\ approved = {}
    /\ receipt = [r \in 1..MaxRequests |-> 0]
    /\ phone = [p \in Phones |-> Quiet]
    /\ sent = {}
    /\ issued = [id |-> 0, tap |-> 0]
    /\ bypass \in BOOLEAN
    /\ clock = 1
-----------------------------------------------------------------------------
Kept(s) == shift[s].state = "live"
IsOpen(s) == Kept(s) /\ shift[s].out = 0
OpenSessions == {s \in Sessions : IsOpen(s)}
Latest == LET live == {s \in Sessions : Kept(s)} IN IF live = {} THEN 0 ELSE CHOOSE s \in live : \A t \in live : t <= s
Unused == {s \in Sessions : shift[s].state = "none" /\ \A t \in Sessions : t < s => shift[t].state # "none"}

\* Mutant: the period of the session as it was is not checked.
MutableAsEntered(times) == \E t \in times : t \div PeriodLength \notin approved

\* assertMutablePeriod, on the work dates of sessions that start at times.
Mutable(times) == \A t \in times : t \div PeriodLength \notin approved

\* Mutant: an open session is compared by its start alone.
OverlapsAny(s, in, out) == \E t \in Sessions \ {s} : Kept(t) /\ shift[t].in < out /\ shift[t].out > in

\* "overlaps another retained attendance session"
Overlaps(s, in, out) ==
    \E t \in Sessions \ {s} :
        /\ Kept(t) /\ shift[t].in < (IF out = 0 THEN clock ELSE out)
        /\ shift[t].out = 0 \/ shift[t].out > in

\* Mutant: the session's own revision stays.
ChangedQuietly(s, change) == [shift EXCEPT ![s] = [change EXCEPT !.revision = shift[s].revision]]

Changed(s, change) == [shift EXCEPT ![s] = [change EXCEPT !.revision = shift[s].revision + 1]]
CanChange(s) == shift[s].revision < MaxChanges

\* manualWorkedEntry: worked attendance is not in the future.
Entries == {e \in [in : 1..clock, out : 0..clock, rest : Rests] :
              e.out # 0 => e.in < e.out /\ e.rest < e.out - e.in}
Entered(s, e) == [shift[s] EXCEPT !.state = "live", !.in = e.in, !.out = e.out, !.rest = e.rest,
                                  !.onBreak = 0, !.review = e.out = 0]
-----------------------------------------------------------------------------
(* The phone.                                                                *)

\* The state of today's page: the session on show and what it allows.
Allowed(action) ==
    CASE action = "CHECK_IN"    -> OpenSessions = {}
      [] action = "BREAK_START" -> \E s \in OpenSessions : shift[s].onBreak = 0
      [] action = "BREAK_END"   -> \E s \in OpenSessions : shift[s].onBreak # 0
      [] OTHER                  -> OpenSessions # {}

\* Mutant: a retry draws a new request id.
RequestNewId(id, tap, action) ==
    [id |-> issued.id + 1, tap |-> tap, action |-> action,
     session |-> IF action = "CHECK_IN" THEN 0 ELSE CHOOSE s \in OpenSessions : TRUE,
     prior |-> Latest, expires |-> clock + ProofLife]

\* resolveQr and confirmAction: the proof names the newest session.
Request(id, tap, action) ==
    [id |-> id, tap |-> tap, action |-> action,
     session |-> IF action = "CHECK_IN" THEN 0 ELSE CHOOSE s \in OpenSessions : TRUE,
     prior |-> Latest, expires |-> clock + ProofLife]

\* openAction: scan, then the confirmation sheet.
OpenAction(p, action) ==
    /\ phone[p].at = "idle" /\ Allowed(action) /\ issued.id < MaxRequests
    /\ phone' = [phone EXCEPT ![p] = [at |-> "confirm", request |-> Request(issued.id + 1, issued.tap + 1, action)]]
    /\ issued' = [id |-> issued.id + 1, tap |-> issued.tap + 1]
    /\ UNCHANGED <<shift, correction, approved, receipt, sent, bypass, clock>>

\* retryPending, once reconcile found no receipt: the same session, the same id.
RetryPending(p) ==
    LET old == phone[p].request IN
    /\ phone[p].at = "unsure" /\ receipt[old.id] = 0 /\ Allowed(old.action)
    /\ old.action # "CHECK_IN" => old.session \in OpenSessions
    /\ issued.id < MaxRequests \/ Request(old.id, old.tap, old.action).id = old.id
    /\ phone' = [phone EXCEPT ![p] = [at |-> "again", request |-> Request(old.id, old.tap, old.action)]]
    /\ issued' = [issued EXCEPT !.id = IF Request(old.id, old.tap, old.action).id > @ THEN @ + 1 ELSE @]
    /\ UNCHANGED <<shift, correction, approved, receipt, sent, bypass, clock>>

\* submitAction: remembered before it is sent.
SubmitAction(p) ==
    /\ phone[p].at \in {"confirm", "again"}
    /\ phone' = [phone EXCEPT ![p].at = "sent"]
    /\ sent' = sent \cup {phone[p].request}
    /\ UNCHANGED <<shift, correction, approved, receipt, issued, bypass, clock>>

\* The sheet is closed, or the page reloaded: a pending request is kept.
CloseSheet(p) ==
    /\ phone[p].at # "idle"
    /\ phone' = [phone EXCEPT ![p] = IF @.at = "confirm" THEN Quiet ELSE [@ EXCEPT !.at = "unsure"]]
    /\ UNCHANGED <<shift, correction, approved, receipt, sent, issued, bypass, clock>>

\* reconcileView finds the receipt.
ReconcileView(p) ==
    /\ phone[p].at = "unsure" /\ receipt[phone[p].request.id] # 0
    /\ phone' = [phone EXCEPT ![p] = Quiet]
    /\ UNCHANGED <<shift, correction, approved, receipt, sent, issued, bypass, clock>>

LoseAction(m) ==
    /\ sent' = sent \ {m}
    /\ UNCHANGED <<shift, correction, approved, receipt, phone, issued, bypass, clock>>
-----------------------------------------------------------------------------
(* performAction.                                                            *)

\* The request is done with; its answer reaches the phone that waits for it, or not.
Answered(m) ==
    /\ sent' = sent \ {m}
    /\ \/ phone' = phone
       \/ \E p \in Phones : phone[p].at = "sent" /\ phone[p].request = m /\ phone' = [phone EXCEPT ![p] = Quiet]
    /\ UNCHANGED <<correction, approved, issued, bypass, clock>>

Receive(m, s) == receipt' = [receipt EXCEPT ![m.id] = s]
ProofHolds(m) == bypass \/ clock <= m.expires

CheckIn(m) ==
    /\ m.action = "CHECK_IN" /\ receipt[m.id] = 0 /\ ProofHolds(m)
    /\ \/ /\ OpenSessions # {}
          /\ Receive(m, CHOOSE s \in OpenSessions : TRUE) /\ UNCHANGED shift
       \/ /\ OpenSessions = {} /\ Mutable({clock})
          /\ bypass \/ m.prior = Latest
          /\ Latest # 0 => shift[Latest].out <= clock
          /\ \E s \in Unused :
                /\ shift' = [shift EXCEPT ![s] = [NoShift EXCEPT !.state = "live", !.in = clock, !.revision = 1, !.tap = m.tap]]
                /\ Receive(m, s)
    /\ Answered(m)

CheckOut(m) ==
    LET s == m.session
        taken == shift[s].rest + (IF shift[s].onBreak = 0 THEN 0 ELSE clock - shift[s].onBreak)
    IN  /\ m.action = "CHECK_OUT" /\ receipt[m.id] = 0 /\ ProofHolds(m) /\ Kept(s)
        /\ \/ shift[s].out # 0 /\ UNCHANGED shift
           \/ /\ shift[s].out = 0 /\ Mutable({shift[s].in}) /\ CanChange(s)
              /\ clock > shift[s].in /\ taken <= clock - shift[s].in
              /\ shift' = Changed(s, [shift[s] EXCEPT !.out = clock, !.rest = taken, !.onBreak = 0,
                                                      !.review = clock - shift[s].in >= LongShift])
        /\ Receive(m, s) /\ Answered(m)

Break(m) ==
    LET s == m.session IN
    /\ m.action \in {"BREAK_START", "BREAK_END"} /\ receipt[m.id] = 0 /\ IsOpen(s)
    /\ \/ (m.action = "BREAK_START") = (shift[s].onBreak # 0) /\ UNCHANGED shift
       \/ /\ Mutable({shift[s].in}) /\ CanChange(s)
          /\ \/ /\ m.action = "BREAK_START" /\ shift[s].onBreak = 0
                /\ shift' = Changed(s, [shift[s] EXCEPT !.onBreak = clock])
             \/ /\ m.action = "BREAK_END" /\ shift[s].onBreak # 0
                /\ shift' = Changed(s, [shift[s] EXCEPT !.rest = @ + clock - shift[s].onBreak, !.onBreak = 0])
    /\ Receive(m, s) /\ Answered(m)

\* A receipt is returned, or the action refused: nothing changes.
Unmoved(m) == Answered(m) /\ UNCHANGED <<shift, receipt>>

Perform(m) == CheckIn(m) \/ CheckOut(m) \/ Break(m) \/ Unmoved(m)
-----------------------------------------------------------------------------
(* Corrections and the supervisor.                                           *)

deskVars == <<receipt, bypass, clock>>

RequestCorrection(c, s, e) ==
    /\ correction[c].state = "none"
    /\ s # 0 => Kept(s)
    /\ correction' = [correction EXCEPT ![c] =
         [state |-> "pending", session |-> s, seen |-> IF s = 0 THEN NoShift ELSE shift[s], in |-> e.in, out |-> e.out, rest |-> e.rest]]
    /\ UNCHANGED <<shift, approved, clientVars, deskVars>>

\* Mutant: the revision the request was made on is not compared.
AnyRevision(c) == TRUE

SameRevision(c) == correction[c].session # 0 => shift[correction[c].session].revision = correction[c].seen.revision

ApproveCorrection(c) ==
    LET k == correction[c]
        target == IF k.session = 0 THEN Unused ELSE {k.session} IN
    /\ k.state = "pending" /\ SameRevision(c)
    /\ \E s \in target :
          /\ k.session # 0 => Kept(s) /\ CanChange(s)
          /\ Mutable({k.in} \cup (IF k.session = 0 THEN {} ELSE {shift[s].in}))
          /\ ~Overlaps(s, k.in, k.out)
          /\ k.out = 0 => OpenSessions \subseteq {s}
          /\ shift' = Changed(s, Entered(s, k))
          /\ correction' = [correction EXCEPT ![c] = [NoCorrection EXCEPT !.state = "approved"]]
    /\ UNCHANGED <<approved, clientVars, deskVars>>

RejectCorrection(c) ==
    /\ correction[c].state = "pending"
    /\ correction[c].session # 0 => Kept(correction[c].session)
    /\ correction' = [correction EXCEPT ![c] = [NoCorrection EXCEPT !.state = "rejected"]]
    /\ UNCHANGED <<shift, approved, clientVars, deskVars>>

SaveAttendance(s, e) ==
    /\ s \notin Unused => Kept(s) /\ Mutable({shift[s].in}) /\ shift[s].onBreak = 0
    /\ Mutable({e.in}) /\ CanChange(s)
    /\ e.out = 0 => OpenSessions \subseteq {s}
    /\ ~Overlaps(s, e.in, e.out)
    /\ shift' = Changed(s, Entered(s, e))
    /\ UNCHANGED <<correction, approved, clientVars, deskVars>>

\* deleteAttendance
ArchiveShift(s) ==
    /\ Kept(s) /\ Mutable({shift[s].in}) /\ shift[s].onBreak = 0 /\ CanChange(s)
    /\ shift' = Changed(s, [shift[s] EXCEPT !.state = "archived"])
    /\ UNCHANGED <<correction, approved, clientVars, deskVars>>

\* Mutant: any archived session comes back.
RestoreFits(s) == TRUE

\* "Close the active shift before restoring an unfinished shift"
Fits(s) == shift[s].out = 0 => OpenSessions = {}

\* restoreAttendance: no other interval is compared.
RestoreShift(s) ==
    /\ shift[s].state = "archived" /\ Mutable({shift[s].in}) /\ CanChange(s)
    /\ Fits(s)
    /\ shift' = Changed(s, [shift[s] EXCEPT !.state = "live", !.restored = TRUE])
    /\ UNCHANGED <<correction, approved, clientVars, deskVars>>

\* Live sessions of a period that assessWorkedAttendance has issues with.
Clash(s, t) == s # t /\ shift[s].in < shift[t].out /\ shift[t].in < shift[s].out
OfPeriod(w) == {s \in Sessions : Kept(s) /\ shift[s].in \div PeriodLength = w}
UnresolvedSessions(w) == {s \in OfPeriod(w) : shift[s].out = 0 \/ shift[s].review \/ \E t \in OfPeriod(w) : Clash(s, t)}

\* approveTimesheet under the same lock.
ApprovePeriod(w) ==
    /\ w \notin approved /\ UnresolvedSessions(w) = {}
    /\ approved' = approved \cup {w}
    /\ UNCHANGED <<shift, correction, clientVars, deskVars>>

Tick ==
    /\ clock < MaxTime /\ clock' = clock + 1
    /\ UNCHANGED <<shift, correction, approved, receipt, clientVars, bypass>>

AttendanceNext ==
    \/ \E p \in Phones : (\E a \in Actions : OpenAction(p, a)) \/ RetryPending(p) \/ SubmitAction(p) \/ CloseSheet(p) \/ ReconcileView(p)
    \/ \E m \in sent : Perform(m) \/ LoseAction(m)
    \/ \E c \in Corrections : ApproveCorrection(c) \/ RejectCorrection(c) \/ \E s \in Sessions \cup {0}, e \in Entries : RequestCorrection(c, s, e)
    \/ \E s \in Sessions : ArchiveShift(s) \/ RestoreShift(s) \/ \E e \in Entries : SaveAttendance(s, e)
    \/ \E w \in 0..(clock \div PeriodLength) : ApprovePeriod(w)
    \/ Tick

-----------------------------------------------------------------------------
Requests == [id : Nat, tap : Nat, action : Actions \cup {"none"}, session : Nat, prior : Nat, expires : Nat]

AttendanceTypeOK ==
    /\ shift \in [Sessions -> [state : {"none", "live", "archived"}, in : Nat, out : Nat, rest : Nat, onBreak : Nat,
                               review : BOOLEAN, revision : Nat, tap : Nat, restored : BOOLEAN]]
    /\ \A c \in Corrections : correction[c].state \in {"none", "pending", "approved", "rejected"}
    /\ approved \subseteq Nat /\ clock \in Nat /\ bypass \in BOOLEAN
    /\ receipt \in [1..MaxRequests -> Sessions \cup {0}]
    /\ phone \in [Phones -> [at : {"idle", "confirm", "again", "sent", "unsure"}, request : Requests]]
    /\ sent \subseteq Requests

\* "This staff member already has an active shift": whatever the clock, the
\* corrections and the supervisor do in turn, one session is open at most.
OneOpenSession == Cardinality(OpenSessions) <= 1

\* A tap of the clock opens one session, however often its request was lost,
\* late, or sent again from the pending sheet.
OneSessionPerTap ==
    \A s, t \in Sessions : s # t /\ shift[s].tap # 0 => shift[s].tap # shift[t].tap

\* The hours of an approved period rest on finished sessions, without a review
\* or an overlap, and no later step by clock, correction or edit changes that.
ApprovedPeriodIsSettled == \A w \in approved : UnresolvedSessions(w) = {}

\* An approved correction replaces the session the employee saw when asking,
\* not one that the clock or a supervisor has changed meanwhile.
CorrectionOfWhatWasSeen ==
    [][\A c \in Corrections : correction[c].state = "pending" /\ correction'[c].state = "approved" /\ correction[c].session # 0
          => shift[correction[c].session] = correction[c].seen]_attendanceVars

\* "This interval overlaps another retained attendance session": two live
\* sessions overlap only when one of them came back from the archive.
OverlapIsRestored ==
    \A s, t \in Sessions :
        Kept(s) /\ Kept(t) /\ (Clash(s, t) \/ (IsOpen(s) /\ shift[s].in < shift[t].out)) => shift[s].restored \/ shift[t].restored
=============================================================================
