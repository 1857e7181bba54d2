------------------------ MODULE MCProcurementImport -------------------------
(* A small instance of ProcurementImport for TLC.  Focus explores two parts  *)
(* of the state space to the end: two overlapping upload requests and two    *)
(* workers on one file before its rows are mapped, and two screens and the   *)
(* manual entries over one upload and one worker.                            *)
EXTENDS ProcurementImport, TLC

U == CHOOSE u \in Uploads : TRUE
W == CHOOSE w \in Workers : TRUE
V == CHOOSE v \in Values : TRUE
Busy == {s \in Screens : screen[s] # Closed}
Fetching ==
    /\ records = <<>> /\ Cardinality(Busy) <= 1 /\ batch.revision <= 4
    /\ \A f \in Files : row[f].value = Nothing /\ (f > 1 => file[f].status \in {"none", "REJECTED"})
Confirming ==
    /\ \A w \in Workers : work[w] # Nothing => w = W
    /\ \A u \in Uploads : (upload[u].phase # "new") <=> (u = U)
    /\ \A f \in Files : /\ file[f].attempts <= 1 /\ ~file[f].expired /\ ~file[f].ocr
                        /\ file[f].status # "REJECTED"
                        /\ row[f].status # "EXCLUDED"
    /\ (\E f \in Files : file[f].status \in Processing \cup Failed) =>
          Cardinality(Busy) <= 1 /\ \A f \in Files : file[f].status # "STORAGE_PENDING" \/ Busy = {}
    /\ Cardinality(Busy) <= 1 \/ \A f \in Files : /\ row[f].status \notin {"REJECTED", "DUPLICATE"}
                                                  /\ f > 1 => row[f].value \in {Nothing, V}
    /\ (\E i \in DOMAIN records : records[i].origin \in Keys \/ records[i].archived \/ records[i].edits > 0)
          => /\ Cardinality(Busy) <= 1
             /\ \A f \in Files : file[f].status \notin Processing \cup Failed /\ (f > 1 => row[f].value \in {Nothing, V})
Focus == Fetching \/ Confirming
=============================================================================
