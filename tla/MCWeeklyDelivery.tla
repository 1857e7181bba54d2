-------------------------- MODULE MCWeeklyDelivery --------------------------
(* Small instances of WeeklyDelivery for TLC.                              *)
EXTENDS WeeklyDelivery, TLC

\* Two weeks of the same hours, and one with a record to review.
CONSTANTS monday, friday, unfinished
WeekMinutes == [content \in Contents |-> 1]

\* TLC follows the week by itself, with every refresh of its hours and up to
\* MaxVersions decisions; the deliveries of a week that is not submitted, whose
\* attendance is edited and whose employee loses the account or the address,
\* not both; and those of a week that is submitted and approved meanwhile.  No
\* refresh is on its way then: it writes only to an open timesheet's total,
\* which no delivery reads.
Focus == delivery.status # "NONE" =>
    /\ \/ versions = <<>> /\ (active \/ address # None)
       \/ /\ Len(versions) = IF sheet.status = "APPROVED" THEN 2 ELSE 1
          /\ attendance = monday /\ active /\ address # None
    /\ \A c \in Callers : callers[c] = T!AtRest

Symmetry == Permutations(Callers) \cup Permutations(Senders) \cup Permutations(Workers)
=============================================================================
