-------------------------- MODULE ProcurementImport --------------------------
(* One import batch of procurement files and the draft entries its owner     *)
(* holds (procurementImportService.js, procurementEntryService.js and the    *)
(* upload, review and confirm screens of procurement-ui.js).                 *)
(*                                                                           *)
(* An upload request registers the files in one transaction and then stores  *)
(* each in one of its own; the browser repeats a request that got no answer  *)
(* under the same key, and the first may still be running.  Worker processes *)
(* claim stored files for five minutes and extract their rows.  A screen     *)
(* reads the batch and then its rows, in two queries; what is confirmed is   *)
(* what one screen selected.  A file has one row; a value stands for the     *)
(* mapped fields of a row and for their fingerprint.  The replay table of    *)
(* confirmations changes only what a repeated one answers and is left out.   *)
EXTENDS Naturals, FiniteSets, Sequences

CONSTANTS Files,              \* ordinal numbers of the files of the batch
          Uploads,            \* HTTP upload requests under one key
          Workers, Screens,
          Keys,               \* Idempotency-Keys of manual entries
          Values,
          MaxAttempts,        \* 3 in the code
          MaxRevision, MaxRecords, MaxEdits,   \* bounds
          Nothing

ASSUME ImportAssumption ==
    /\ Files \subseteq Nat /\ IsFiniteSet(Files)
    /\ {MaxAttempts, MaxRevision} \subseteq Nat \ {0} /\ {MaxRecords, MaxEdits} \subseteq Nat
    /\ Nothing \notin Workers \cup Values /\ Keys \cap Files = {}

VARIABLES
    batch,      \* status, revision, preview_token (0 is NULL), confirmed_at
    file,       \* status, storage_type set, attempts, claim, lease, extraction_json set
    row,        \* status, values, reviewed_by, entry_id
    records,    \* procurement_records in the order they were inserted
    upload,     \* files an upload request still has to store
    work,       \* the file a worker process is extracting
    screen      \* what a browser tab shows

importVars == <<batch, file, row, records, upload, work, screen>>

FileStatus == {"none", "REJECTED", "STORAGE_PENDING", "STORAGE_FAILED", "STORED", "EXTRACTING",
               "EXTRACTED", "REVIEW_REQUIRED", "EXTRACTION_FAILED", "PREVIEWED"}
RowStatus == {"none", "PENDING_MAPPING", "VALIDATED", "REVIEW_REQUIRED", "REJECTED", "EXCLUDED",
              "DUPLICATE", "ACCEPTED"}
BatchStatus == {"none", "UPLOADED", "PREVIEWED", "PARTIALLY_COMMITTED", "COMMITTED"}
Processing == {"STORAGE_PENDING", "STORED", "EXTRACTING"}
Failed == {"STORAGE_FAILED", "EXTRACTION_FAILED"}
Undecided == {"PENDING_MAPPING", "VALIDATED", "REVIEW_REQUIRED", "REJECTED"}
Closed == [phase |-> "closed"]

ImportInit ==
    /\ batch = [status |-> "none", revision |-> 0, token |-> 0, confirmed |-> FALSE]
    /\ file = [f \in Files |-> [status |-> "none", stored |-> FALSE, attempts |-> 0, claim |-> Nothing,
                                expired |-> FALSE, extracted |-> FALSE, ocr |-> FALSE]]
    /\ row = [f \in Files |-> [status |-> "none", value |-> Nothing, reviewed |-> FALSE, entry |-> 0]]
    /\ records = <<>>
    /\ upload = [u \in Uploads |-> [phase |-> "new", todo |-> {}]]
    /\ work = [w \in Workers |-> Nothing]
    /\ screen = [s \in Screens |-> Closed]

Revise(status, token) ==
    /\ batch.revision < MaxRevision
    /\ batch' = [batch EXCEPT !.status = status, !.revision = @ + 1, !.token = token]
\* A random token is one that no earlier revision had.
NewPreviewToken == batch.revision + 1
-----------------------------------------------------------------------------
(* Uploading.                                                                *)

\* The first request under the key registers the batch; `bad` did not validate.
CreateUpload(u, bad) ==
    /\ upload[u].phase = "new"
    /\ IF batch.status = "none"
       THEN /\ batch' = [batch EXCEPT !.status = "UPLOADED", !.revision = 1]
            /\ file' = [f \in Files |-> [file[f] EXCEPT !.status = IF f \in bad THEN "REJECTED"
                                                                  ELSE "STORAGE_PENDING"]]
            /\ upload' = [upload EXCEPT ![u] = [phase |-> "storing", todo |-> Files \ bad]]
       ELSE /\ upload' = [upload EXCEPT ![u] = [phase |-> "storing",
                    todo |-> {f \in Files : ~file[f].stored /\ file[f].status # "REJECTED"}]]
            /\ UNCHANGED <<batch, file>>
    /\ UNCHANGED <<row, records, work, screen>>

\* One file is stored, or could not be, whatever another request made of it.
StoreFile(u, f) ==
    /\ f \in upload[u].todo /\ \A g \in upload[u].todo : f <= g
    /\ \/ file' = [file EXCEPT ![f].stored = TRUE, ![f].status = "STORED", ![f].ocr = FALSE]
       \/ file' = [file EXCEPT ![f].status = "STORAGE_FAILED", ![f].ocr = FALSE]
    /\ upload' = [upload EXCEPT ![u].todo = @ \ {f}]
    /\ UNCHANGED <<batch, row, records, work, screen>>

\* The server stops while a request is storing.
UploadDies(u) ==
    /\ upload[u].todo # {} /\ upload' = [upload EXCEPT ![u].todo = {}]
    /\ UNCHANGED <<batch, file, row, records, work, screen>>
-----------------------------------------------------------------------------
(* Extraction: a claim in one transaction, the result in another.            *)

Claimable(f) ==
    /\ batch.status # "COMMITTED" /\ file[f].attempts < MaxAttempts
    /\ file[f].status = "STORED" \/ (file[f].status = "EXTRACTING" /\ file[f].expired)

ClaimFile(w, f) ==
    /\ work[w] = Nothing /\ Claimable(f)
    /\ file' = [file EXCEPT ![f].status = "EXTRACTING", ![f].claim = w, ![f].expired = FALSE,
                            ![f].attempts = @ + 1]
    /\ work' = [work EXCEPT ![w] = f]
    /\ UNCHANGED <<batch, row, records, upload, screen>>

\* The result is written only by the worker that still holds the claim; rows that
\* are there already stay as they are.
ExtractFile(w, outcome) ==
    LET f == work[w]
        \* Local OCR failed or is off: only these are read again by a retry.
        ocr == outcome = "OCR"
    IN /\ f # Nothing
       /\ IF file[f].status = "EXTRACTING" /\ file[f].claim = w
          THEN /\ file' = [file EXCEPT ![f].status = IF ocr THEN "REVIEW_REQUIRED" ELSE outcome,
                                       ![f].claim = Nothing, ![f].expired = FALSE,
                                       ![f].extracted = TRUE, ![f].ocr = ocr]
               /\ row' = IF row[f].status = "none" THEN [row EXCEPT ![f].status = "PENDING_MAPPING"] ELSE row
               /\ Revise(IF batch.confirmed THEN "PARTIALLY_COMMITTED" ELSE "UPLOADED", 0)
          ELSE UNCHANGED <<batch, file, row>>
       /\ work' = [work EXCEPT ![w] = Nothing]
       /\ UNCHANGED <<records, upload, screen>>

ExtractionFails(w) ==
    /\ work[w] # Nothing
    /\ file' = IF file[work[w]].claim = w
               THEN [file EXCEPT ![work[w]].status = "EXTRACTION_FAILED", ![work[w]].claim = Nothing,
                                 ![work[w]].expired = FALSE, ![work[w]].ocr = FALSE]
               ELSE file
    /\ work' = [work EXCEPT ![w] = Nothing]
    /\ UNCHANGED <<batch, row, records, upload, screen>>

WorkerDies(w) ==
    /\ work[w] # Nothing /\ work' = [work EXCEPT ![w] = Nothing]
    /\ UNCHANGED <<batch, file, row, records, upload, screen>>

\* Five minutes pass, with or without the worker.
LeaseExpires(f) ==
    /\ file[f].status = "EXTRACTING" /\ ~file[f].expired
    /\ file' = [file EXCEPT ![f].expired = TRUE]
    /\ UNCHANGED <<batch, row, records, upload, work, screen>>

\* Mutant: the sweep waits for one attempt too many.
GiveUpLate(f) ==
    /\ file[f].status = "EXTRACTING" /\ file[f].expired /\ file[f].attempts > MaxAttempts
    /\ file' = [file EXCEPT ![f].status = "EXTRACTION_FAILED", ![f].claim = Nothing, ![f].expired = FALSE,
                            ![f].ocr = FALSE]
    /\ UNCHANGED <<batch, row, records, upload, work, screen>>

\* The sweep at the start of processPendingImports.
GiveUp(f) ==
    /\ file[f].status = "EXTRACTING" /\ file[f].expired /\ file[f].attempts >= MaxAttempts
    /\ file' = [file EXCEPT ![f].status = "EXTRACTION_FAILED", ![f].claim = Nothing, ![f].expired = FALSE,
                            ![f].ocr = FALSE]
    /\ UNCHANGED <<batch, row, records, upload, work, screen>>
-----------------------------------------------------------------------------
(* Screens.                                                                  *)

\* Mutant: the rows are read before the batch.
ReadBatchLate(s) ==
    \/ /\ batch.status # "none"
       /\ screen[s] = Closed \/ screen[s].phase = "shown"
       /\ screen' = [screen EXCEPT ![s] = [phase |-> "batch", revision |-> 0, token |-> 0, rows |-> row]]
       /\ UNCHANGED <<batch, file, row, records, upload, work>>
    \/ /\ screen[s].phase = "batch" /\ screen[s].revision = 0
       /\ screen' = [screen EXCEPT ![s].phase = "shown", ![s].revision = batch.revision, ![s].token = batch.token]
       /\ UNCHANGED <<batch, file, row, records, upload, work>>

\* getImport reads the batch ...
ReadBatch(s) ==
    /\ batch.status # "none"
    /\ screen[s] = Closed \/ screen[s].phase = "shown"
    /\ screen' = [screen EXCEPT ![s] = [phase |-> "batch", revision |-> batch.revision,
                                        token |-> batch.token, rows |-> <<>>]]
    /\ UNCHANGED <<batch, file, row, records, upload, work>>

\* ... and then the rows.
ReadRows(s) ==
    /\ screen[s].phase = "batch" /\ screen[s].revision # 0
    /\ screen' = [screen EXCEPT ![s].phase = "shown", ![s].rows = row]
    /\ UNCHANGED <<batch, file, row, records, upload, work>>

Current(s) ==
    /\ screen[s].phase = "shown" /\ batch.status # "COMMITTED"
    /\ screen[s].revision = batch.revision

EntryOf(v) == {i \in DOMAIN records : records[i].value = v}
\* markDuplicates, over rows r: a value seen before in the batch, or of a retained entry.
MarkDuplicates(r) ==
    LET marked(f) == r[f].value # Nothing /\ r[f].status \in {"VALIDATED", "DUPLICATE"}
        seen(f) == \E g \in Files : g < f /\ marked(g) /\ r[g].value = r[f].value /\ EntryOf(r[g].value) = {}
    IN [f \in Files |->
          IF ~marked(f) THEN r[f]
          ELSE IF seen(f) THEN [r[f] EXCEPT !.status = "DUPLICATE"]
          ELSE IF EntryOf(r[f].value) # {}
               THEN [r[f] EXCEPT !.status = "DUPLICATE", !.entry = CHOOSE i \in EntryOf(r[f].value) : TRUE]
          ELSE r[f]]

\* Mutant: rows that already have an entry are mapped again.
PreviewImportAll(s, f, v, status) ==
    /\ Current(s)
    /\ file[f].extracted /\ file[f].status # "EXTRACTING"
    /\ row' = MarkDuplicates([row EXCEPT ![f] =
                                 [status |-> status, value |-> v, reviewed |-> FALSE, entry |-> 0]])
    /\ file' = [file EXCEPT ![f].status = "PREVIEWED"]
    /\ Revise("PREVIEWED", NewPreviewToken)
    /\ screen' = [screen EXCEPT ![s] = Closed]
    /\ UNCHANGED <<records, upload, work>>

\* A mapping turns the row of file f into value v, unless an entry was made of it.
PreviewImport(s, f, v, status) ==
    /\ Current(s)
    /\ file[f].extracted /\ file[f].status # "EXTRACTING"
    /\ row' = MarkDuplicates(IF row[f].entry # 0 THEN row
                             ELSE IF status = "EXCLUDED" THEN [row EXCEPT ![f].status = status]
                             ELSE [row EXCEPT ![f] =
                                     [status |-> status, value |-> v, reviewed |-> FALSE, entry |-> 0]])
    /\ file' = [file EXCEPT ![f].status = "PREVIEWED"]
    /\ Revise("PREVIEWED", NewPreviewToken)
    /\ screen' = [screen EXCEPT ![s] = Closed]
    /\ UNCHANGED <<records, upload, work>>

\* The row carries its own revision, which stands for its content here: the screen must
\* show the row as it is now.
EditImportRow(s, f, v) ==
    /\ screen[s].phase = "shown" /\ batch.status # "COMMITTED"
    /\ row[f].status # "none" /\ screen[s].rows[f] = row[f] /\ row[f].entry = 0
    /\ row' = MarkDuplicates([row EXCEPT ![f] =
                                 [status |-> "VALIDATED", value |-> v, reviewed |-> TRUE, entry |-> 0]])
    /\ Revise("PREVIEWED", NewPreviewToken)
    /\ screen' = [screen EXCEPT ![s] = Closed]
    /\ UNCHANGED <<file, records, upload, work>>

\* Files whose extraction failed, or waits for OCR, are extracted again.
RetryExtraction(s) ==
    /\ Current(s)
    /\ file' = [f \in Files |->
          IF file[f].stored /\ (file[f].status = "EXTRACTION_FAILED" \/ (file[f].status = "REVIEW_REQUIRED" /\ file[f].ocr))
          THEN [file[f] EXCEPT !.status = "STORED", !.attempts = 0, !.claim = Nothing, !.ocr = FALSE]
          ELSE file[f]]
    /\ Revise(batch.status, 0)
    /\ screen' = [screen EXCEPT ![s] = Closed]
    /\ UNCHANGED <<row, records, upload, work>>
-----------------------------------------------------------------------------
(* Confirming.                                                               *)

Selectable(r) == r.status = "VALIDATED" \/ (r.status = "REVIEW_REQUIRED" /\ r.reviewed)

\* Mutant: rows that wait for a review do not keep the batch open.
RemainingDone(fs, r) ==
    \/ \E f \in Files : fs[f].status \in Processing \cup Failed
    \/ \E f \in Files : r[f].status \in {"PENDING_MAPPING", "VALIDATED"}

\* hasRemaining
Remaining(fs, r) ==
    \/ \E f \in Files : fs[f].status \in Processing \cup Failed
    \/ \E f \in Files : fs[f].status = "REVIEW_REQUIRED" /\ r[f].status = "none"
    \/ \E f \in Files : r[f].status \in Undecided

\* ORDER BY the file's ordinal
InOrder(fs) ==
    CHOOSE s \in [1..Cardinality(fs) -> fs] : \A i, j \in 1..Cardinality(fs) : i < j => s[i] < s[j]

\* One transaction under the owner's lock: of the selected rows those whose value no
\* entry has become entries, in order, and the others duplicates.
CommitImport(s, sel) ==
    LET skipped == {f \in sel : row[f].status \in {"DUPLICATE", "ACCEPTED"}}
        entered == {f \in sel \ skipped :
                       /\ EntryOf(row[f].value) = {}
                       /\ \A g \in sel \ skipped : g < f => row[g].value # row[f].value}
        order == InOrder(entered)
        all == records \o [i \in 1..Len(order) |->
                   [value |-> row[order[i]].value, origin |-> order[i], shown |-> screen[s].rows[order[i]].value,
                    edits |-> 0, archived |-> FALSE]]
        entryOf(v) == CHOOSE i \in DOMAIN all : all[i].value = v
        r == [f \in Files |->
                IF f \in entered THEN [row[f] EXCEPT !.status = "ACCEPTED", !.reviewed = TRUE, !.entry = entryOf(row[f].value)]
                ELSE IF f \in sel \ skipped THEN [row[f] EXCEPT !.status = "DUPLICATE", !.entry = entryOf(row[f].value)]
                ELSE row[f]]
    IN /\ Current(s)
       /\ sel # {} /\ \A f \in sel : Selectable(screen[s].rows[f])
       /\ batch.token # 0 /\ screen[s].token = batch.token
       /\ \A f \in sel \ skipped : row[f].status \in {"VALIDATED", "REVIEW_REQUIRED"}
       /\ Len(all) <= MaxRecords
       /\ batch.revision < MaxRevision
       /\ row' = r /\ records' = all
       /\ batch' = [batch EXCEPT !.confirmed = TRUE, !.revision = @ + 1,
                       !.status = IF Remaining(file, r) THEN "PARTIALLY_COMMITTED" ELSE "COMMITTED",
                       !.token = IF Remaining(file, r) THEN NewPreviewToken ELSE @]
       /\ screen' = [screen EXCEPT ![s] = Closed]
       /\ UNCHANGED <<file, upload, work>>

\* A manual entry; a repeated key or a value the owner has answers with what is there.
CreateEntry(k, v) ==
    /\ \A i \in DOMAIN records : records[i].origin # k /\ records[i].value # v
    /\ Len(records) < MaxRecords
    /\ records' = Append(records, [value |-> v, origin |-> k, shown |-> v, edits |-> 0, archived |-> FALSE])
    /\ UNCHANGED <<batch, file, row, upload, work, screen>>

EditEntry(i, v) ==
    /\ i \in DOMAIN records /\ ~records[i].archived /\ records[i].edits < MaxEdits
    /\ records' = [records EXCEPT ![i].value = v, ![i].edits = @ + 1]
    /\ UNCHANGED <<batch, file, row, upload, work, screen>>

ArchiveEntry(i) ==
    /\ i \in DOMAIN records
    /\ records' = [records EXCEPT ![i].archived = ~@]
    /\ UNCHANGED <<batch, file, row, upload, work, screen>>
-----------------------------------------------------------------------------
Uploading == \E u \in Uploads :
    \/ \E bad \in SUBSET Files : CreateUpload(u, bad)
    \/ \E f \in Files : StoreFile(u, f)
    \/ UploadDies(u)
Extracting ==
    \/ \E w \in Workers :
          \/ \E f \in Files : ClaimFile(w, f)
          \/ \E outcome \in {"EXTRACTED", "REVIEW_REQUIRED", "OCR"} : ExtractFile(w, outcome)
          \/ ExtractionFails(w) \/ WorkerDies(w)
    \/ \E f \in Files : LeaseExpires(f) \/ GiveUp(f)
Reviewing == \E s \in Screens :
    \/ ReadBatch(s) \/ ReadRows(s) \/ RetryExtraction(s)
    \/ \E f \in Files, v \in Values, status \in {"VALIDATED", "REVIEW_REQUIRED", "REJECTED", "EXCLUDED"} :
          PreviewImport(s, f, v, status)
    \/ \E f \in Files, v \in Values : EditImportRow(s, f, v)
Entering ==
    \/ \E s \in Screens, sel \in SUBSET Files : CommitImport(s, sel)
    \/ \E k \in Keys, v \in Values : CreateEntry(k, v)
    \/ \E i \in 1..MaxRecords : ArchiveEntry(i) \/ \E v \in Values : EditEntry(i, v)

ImportNext == Uploading \/ Extracting \/ Reviewing \/ Entering

\* The fifteen-second timer of a living server keeps claiming, extracting and sweeping.
Worker(w) == \/ \E f \in Files : ClaimFile(w, f)
             \/ \E outcome \in {"EXTRACTED", "REVIEW_REQUIRED", "OCR"} : ExtractFile(w, outcome)
             \/ ExtractionFails(w)
ImportSpec ==
    /\ ImportInit /\ [][ImportNext]_importVars
    /\ \A w \in Workers : WF_importVars(Worker(w))
    /\ \A f \in Files : WF_importVars(LeaseExpires(f)) /\ WF_importVars(GiveUp(f))
-----------------------------------------------------------------------------
ImportTypeOK ==
    /\ batch \in [status : BatchStatus, revision : 0..MaxRevision, token : 0..MaxRevision, confirmed : BOOLEAN]
    /\ file \in [Files -> [status : FileStatus, stored : BOOLEAN, attempts : 0..MaxAttempts, expired : BOOLEAN,
                           claim : Workers \cup {Nothing}, extracted : BOOLEAN, ocr : BOOLEAN]]
    /\ row \in [Files -> [status : RowStatus, value : Values \cup {Nothing}, reviewed : BOOLEAN, entry : 0..MaxRecords]]
    /\ records \in Seq([value : Values, origin : Files \cup Keys, shown : Values \cup {Nothing}, edits : 0..MaxEdits,
                        archived : BOOLEAN])
    /\ Len(records) <= MaxRecords
    /\ work \in [Workers -> Files \cup {Nothing}]
    /\ \A s \in Screens : screen[s].phase \in {"closed", "batch", "shown"}

\* What was confirmed is what the screen that confirmed it showed, although the screen
\* reads the batch and its rows in two queries and other screens map, edit and confirm
\* between them.
ConfirmedAsShown ==
    \A i \in DOMAIN records : records[i].edits = 0 => records[i].value = records[i].shown

\* A batch that says COMMITTED has decided every row it has; no mapping, edit or late
\* extraction adds an undecided one without reopening it.
CommittedIsComplete ==
    batch.status = "COMMITTED" => \A f \in Files : row[f].status \notin Undecided

\* A row becomes at most one entry and a manual request at most one, through repeated
\* extractions, mappings and confirmations; and two entries have the same content only
\* after one of them was edited.  No row of a committed batch is left to enter.
EnteredOnce ==
    /\ CommittedIsComplete
    /\ \A i, j \in DOMAIN records : i < j =>
          /\ records[i].origin # records[j].origin
          /\ records[i].value = records[j].value => records[i].edits + records[j].edits > 0

\* Files, rows and entries tell the same story.
EntriesAreConsistent == ImportTypeOK /\ EnteredOnce

\* A file that waits for its extraction gets it, or is given up, although workers die
\* and overrun their leases.  (A file whose last attempt ended as STORED is not waiting:
\* nothing reads it any more.)
PendingIsSettled ==
    \A f \in Files :
        (file[f].status = "EXTRACTING" \/ (file[f].status = "STORED" /\ file[f].attempts < MaxAttempts))
        ~> (file[f].status \notin {"STORED", "EXTRACTING"} \/ batch.status = "COMMITTED"
            \/ (file[f].status = "STORED" /\ file[f].attempts = MaxAttempts) \/ batch.revision = MaxRevision)

\* procurementImportService.js:79, written with STORAGE_FAILED: "The original could not
\* be stored durably. Re-upload this file; it was not accepted."
FailedIsNotStored == \A f \in Files : file[f].status = "STORAGE_FAILED" => ~file[f].stored
=============================================================================
