---------------------------- MODULE MCOperations ----------------------------
(* A small instance of Operations for TLC.  Focus leaves out what the         *)
(* followed part does not need: initial states of the other, and, within the *)
(* larger parts, combinations of one situation with another.                 *)
EXTENDS Operations, TLC

CONSTANTS c1, c2, c3

\* The new build has a corrected first migration, and a second one.
OldAndNew == {[m \in {1, 2} |-> IF m = 1 THEN c1 ELSE NoScript], [m \in {1, 2} |-> IF m = 1 THEN c2 ELSE c3]}

Symmetry == Permutations(Phones)

\* The clock alone, the office alone, or both on one session.
Clocked == {s \in Sessions : shift[s].state # "none"}
Asked == \E c \in Corrections : correction[c].state # "none"
ByDesk == \E s \in Clocked : shift[s].tap = 0
Short == IF bypass THEN clock <= 2 ELSE clock = 1 \/ issued.id <= 1
ClockOnly == ~Asked /\ ~ByDesk /\ approved = {} /\ Short /\ \A s \in Sessions : shift[s].revision <= 3
DeskOnly == issued.id = 0 /\ ~bypass /\ (Asked => \A s \in Sessions : shift[s].revision <= 2)
Both == issued.id <= 1 /\ Cardinality(Clocked) <= 1 /\ bypass /\ (Asked => ~ByDesk)

\* The shop floor, or inspection with one of the things that stop a release.
\* Once both have begun, the other jobs wait.
Worked == \E o \in Operations : operation[o].status # "READY"
Inspected == \E p \in Plans : plan[p].status # "none"
Repeated == (\E p \in Plans : p > 1 /\ plan[p].status # "none") \/ \E r \in Runs : r > 1 /\ run[r].status # "none"
Concerns ==
    (IF Worked THEN {"floor"} ELSE {}) \cup (IF Repeated THEN {"repeated"} ELSE {}) \cup
    (IF held THEN {"hold"} ELSE {}) \cup (IF ncr # "none" THEN {"ncr"} ELSE {}) \cup
    (IF concession.status # "none" THEN {"concession"} ELSE {})
Waiting == \A o \in Operations : o[1] # Order => operation[o].status = "READY"

\* A drill, or the remediation of one that records nothing yet.
DrillOnly == \A i \in Items : ~Listed(i)
ItemsOnly == drill.content = "Incomplete" /\ \A c \in Clerks : clerk[c].op # "update"

Focus ==
    /\ DrillOnly \/ ItemsOnly
    /\ followed # "attendance" => ~bypass
    /\ followed # "quality" => machine = "READY"
    /\ ClockOnly \/ DeskOnly \/ Both
    /\ Cardinality(Concerns) <= 1 /\ (Worked /\ Inspected => Waiting)
=============================================================================
