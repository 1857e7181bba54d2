---------------------------- MODULE MCEmailQueue ----------------------------
(* Small instances of EmailQueue for TLC.                                  *)
EXTENDS EmailQueue

\* One message at a time: a weekly timesheet's, or an invoice's.
Focus == \A m, n \in Msgs :
    m # n => "NONE" \in {queue[m].status, queue[n].status}
=============================================================================
