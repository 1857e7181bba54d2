------------------------------- MODULE Roster -------------------------------
(* The roster of shifts: controllers/rosterController.js.  Saving, generating *)
(* and restoring shifts lock the row of users of whoever they are for before *)
(* they look for an identical shift, and write in a later statement: "save   *)
(* and generation use the same row lock, so repeated/concurrent batches      *)
(* cannot race their duplicate checks".  A restore must read whose shift it  *)
(* is before it can lock.                                                    *)
(*                                                                           *)
(* Whether an account is active only ever refuses a request and is left out; *)
(* a slot is a date with its start and end.                                  *)
EXTENDS Naturals, FiniteSets

CONSTANTS ShiftIds, Staff, Slots,
          Desks        \* requests under way at once

\* Shifts are numbered from 1: 0 is no shift.
ASSUME RosterAssumption ==
    /\ ShiftIds \subseteq Nat \ {0}
    /\ IsFiniteSet(ShiftIds) /\ IsFiniteSet(Staff) /\ IsFiniteSet(Slots)

VARIABLES
    roster,      \* roster_shifts
    desk         \* what each request holds and is about to write

rosterVars == <<roster, desk>>

NoEntry == [state |-> "none", user |-> 0, slot |-> 0, published |-> FALSE]
NoWork == [op |-> "none", shift |-> 0, users |-> {}, rows |-> {}, published |-> FALSE]

RosterInit ==
    /\ roster = [s \in ShiftIds |-> NoEntry]
    /\ desk = [d \in Desks |-> NoWork]
-----------------------------------------------------------------------------
FreeIds == {s \in ShiftIds : roster[s].state = "none"}
NextId == {s \in FreeIds : \A t \in FreeIds : s <= t}
Rostered(s) == roster[s].state = "active"

Holding == {d \in Desks : desk[d].op \in {"save", "generate", "restore"}}
UserIsFree(u) == \A d \in Holding : u \notin desk[d].users
ShiftIsFree(s) == \A d \in Holding : desk[d].shift # s

\* An identical active shift, other than s.
Identical(u, slot, s) ==
    \E t \in ShiftIds \ {s} : Rostered(t) /\ roster[t].user = u /\ roster[t].slot = slot

Undertake(d, work) == desk' = [desk EXCEPT ![d] = work] /\ UNCHANGED roster
Done(d) == desk' = [desk EXCEPT ![d] = NoWork]
Idle(d) == desk[d].op = "none"

\* saveShift up to its write: s is 0 for a new shift.
BeginSave(d, s, u, slot, published) ==
    /\ Idle(d) /\ UserIsFree(u)
    /\ s # 0 => Rostered(s) /\ ShiftIsFree(s)
    /\ ~Identical(u, slot, s)
    /\ Undertake(d, [op |-> "save", shift |-> s, users |-> {u}, rows |-> {<<u, slot>>}, published |-> published])

\* generateRoster up to its inserts: what is missing of these people's shifts.
BeginGenerate(d, us, slots) ==
    /\ Idle(d) /\ us # {} /\ slots # {} /\ \A u \in us : UserIsFree(u)
    /\ Undertake(d, [op |-> "generate", shift |-> 0, users |-> us, published |-> FALSE,
                     rows |-> {r \in us \X slots : ~Identical(r[1], r[2], 0)}])

Entry(row, published) == [state |-> "active", user |-> row[1], slot |-> row[2], published |-> published]

CommitSave(d) ==
    /\ desk[d].op = "save"
    /\ \E row \in desk[d].rows, s \in (IF desk[d].shift = 0 THEN NextId ELSE {desk[d].shift}) :
          roster' = [roster EXCEPT ![s] = Entry(row, desk[d].published)]
    /\ Done(d)

CommitGenerate(d) ==
    /\ desk[d].op = "generate" /\ Cardinality(desk[d].rows) <= Cardinality(FreeIds)
    /\ LET id == CHOOSE f \in [desk[d].rows -> FreeIds] : \A q, r \in desk[d].rows : f[q] = f[r] => q = r
       IN  roster' = [s \in ShiftIds |->
               IF \E r \in desk[d].rows : id[r] = s
               THEN Entry(CHOOSE r \in desk[d].rows : id[r] = s, FALSE) ELSE roster[s]]
    /\ Done(d)

\* deleteShift
DeleteShift(s) ==
    /\ Rostered(s) /\ ShiftIsFree(s)
    /\ roster' = [roster EXCEPT ![s].state = "deleted"]
    /\ UNCHANGED desk

\* restoreShift: whose shift it is, read without a lock ...
ReadAssignment(d, s) ==
    /\ Idle(d) /\ roster[s].state # "none"
    /\ Undertake(d, [NoWork EXCEPT !.op = "read", !.shift = s, !.users = {roster[s].user}])

\* Mutant: whose shift it is is not asked again.
AnyAssignment(d) == TRUE

\* "Shift assignment changed. Refresh and retry."
SameAssignment(d) == desk[d].users = {roster[desk[d].shift].user}

\* ... then the locks and checks ...
BeginRestore(d) ==
    LET s == desk[d].shift IN
    /\ desk[d].op = "read"
    /\ \A u \in desk[d].users : UserIsFree(u)
    /\ ShiftIsFree(s)
    /\ \/ /\ SameAssignment(d) /\ roster[s].state = "deleted"
          /\ ~Identical(roster[s].user, roster[s].slot, s)
          /\ Undertake(d, [desk[d] EXCEPT !.op = "restore"])
       \/ Done(d) /\ UNCHANGED roster      \* refused, or there is nothing to restore

\* ... then the write.
CommitRestore(d) ==
    /\ desk[d].op = "restore"
    /\ roster' = [roster EXCEPT ![desk[d].shift].state = "active"]
    /\ Done(d)

\* publishRoster: locks the shifts of a range of dates and their people.
PublishRoster(slots) ==
    LET chosen == {s \in ShiftIds : Rostered(s) /\ roster[s].slot \in slots} IN
    /\ chosen # {} /\ \A s \in chosen : ShiftIsFree(s) /\ UserIsFree(roster[s].user)
    /\ roster' = [s \in ShiftIds |-> IF s \in chosen THEN [roster[s] EXCEPT !.published = TRUE] ELSE roster[s]]
    /\ UNCHANGED desk

\* An error or a lost connection: rolled back.
AbandonDesk(d) == ~Idle(d) /\ Done(d) /\ UNCHANGED roster

RosterNext ==
    \/ \E d \in Desks :
          \/ CommitSave(d) \/ CommitGenerate(d) \/ BeginRestore(d) \/ CommitRestore(d) \/ AbandonDesk(d)
          \/ \E us \in SUBSET Staff, slots \in SUBSET Slots : BeginGenerate(d, us, slots)
          \/ \E s \in ShiftIds : ReadAssignment(d, s)
          \/ \E s \in ShiftIds \cup {0}, u \in Staff, slot \in Slots, published \in BOOLEAN :
                BeginSave(d, s, u, slot, published)
    \/ \E s \in ShiftIds : DeleteShift(s)
    \/ \E slots \in SUBSET Slots : PublishRoster(slots)
-----------------------------------------------------------------------------
RosterTypeOK ==
    /\ roster \in [ShiftIds -> [state : {"none", "active", "deleted"}, user : Staff \cup {0},
                                slot : Slots \cup {0}, published : BOOLEAN]]
    /\ \A d \in Desks : desk[d].op \in {"none", "save", "generate", "read", "restore"}

\* "An identical shift already exists for this staff member": nobody has two,
\* however saving, generating, archiving and restoring are interleaved.
NoIdenticalShifts ==
    \A s, t \in ShiftIds : s # t /\ Rostered(s) /\ Rostered(t) /\ roster[s].user = roster[t].user
        => roster[s].slot # roster[t].slot
=============================================================================
