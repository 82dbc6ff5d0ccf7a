------------------------------- MODULE Store -------------------------------
(***************************************************************************)
(* A store directory over several runs of the process that writes it       *)
(* (store/store.cpp): each run opens the directory, appends and syncs      *)
(* records, and ends by closing the writer or by a crash; the next run     *)
(* reads what is left and continues in a new segment.                      *)
(***************************************************************************)
EXTENDS SegmentLog, FiniteSets

CONSTANTS
  Sizes,        \* the sizes of a record frame
  MaxRecords,   \* bound on the records appended
  MaxRuns,      \* bound on the runs of the process
  MaxFailures,  \* bound on failed writes
  MaxRefusals   \* bound on refused appends

ASSUME StoreAssumption ==
  /\ Sizes \subseteq Nat \ {0}
  /\ MaxRecords \in Nat /\ MaxRuns \in Nat /\ MaxFailures \in Nat /\ MaxRefusals \in Nat

VARIABLES
  manifest,  \* "absent", "torn" or "good"
  up,        \* a process has the store open
  log,       \* the directory and the writer's fields
  records,   \* append() calls that returned ok; a record's payload is its number
  acked,     \* history: the records in the directory when a sync() or close() returned ok
  history,   \* "whole": no crash, no failed write; "damaged"; "reopened" after damage
  runs,      \* how often the store was opened
  failures,  \* failed writes
  spilled,   \* history: the bytes that failed writes may have left in the directory
  refusals   \* refused appends

vars == <<manifest, up, log, records, acked, history, runs, failures, spilled, refusals>>

\* The writer's counters and flags stay in range: the open segment is a file of the
\* directory, and no segment is counted beyond max_segment_records.
TypeOK ==
  /\ manifest \in {"absent", "torn", "good"}
  /\ up \in BOOLEAN
  /\ log.file \in 0..Len(log.disk)
  /\ log.segment_records \in 0..MaxSegmentRecords
  /\ \A i \in 1..Len(log.disk) : log.disk[i].durable \in 0..Len(log.disk[i].frames)
  /\ records \in 0..MaxRecords
  /\ acked \subseteq 1..records
  /\ history \in {"whole", "damaged", "reopened"}
  /\ runs \in 0..MaxRuns /\ failures \in 0..MaxFailures /\ spilled \in Nat /\ refusals \in 0..MaxRefusals

Init ==
  /\ manifest = "absent"
  /\ up = FALSE
  /\ log = NewLog(<<>>)
  /\ records = 0
  /\ acked = {}
  /\ history = "whole"
  /\ runs = 0
  /\ failures = 0
  /\ spilled = 0
  /\ refusals = 0

-----------------------------------------------------------------------------
Damaged == IF history = "whole" THEN "damaged" ELSE history

ManifestAfterOpenLazy == manifest

\* open() writes and flushes the manifest before it returns.
ManifestAfterOpen == "good"

\* StoreWriter::open: checks the manifest or writes it; no segment is created yet.
Open ==
  /\ ~up /\ runs < MaxRuns
  /\ manifest # "torn"
  /\ manifest' = ManifestAfterOpen
  /\ up' = TRUE
  /\ log' = NewLog(log.disk)
  /\ history' = IF history = "whole" THEN "whole" ELSE "reopened"
  /\ runs' = runs + 1
  /\ UNCHANGED <<records, acked, failures, spilled, refusals>>

\* A crash while the first open() writes the manifest.
OpenCrash ==
  /\ ~up /\ runs < MaxRuns
  /\ manifest = "absent"
  /\ manifest' = "torn"
  /\ runs' = runs + 1
  /\ UNCHANGED <<up, log, records, acked, history, failures, spilled, refusals>>

AppendOk(size) ==
  /\ up /\ records < MaxRecords
  /\ LET appended == AppendRecord(log, records + 1, size) IN
     /\ appended.ok
     /\ log' = appended.log
  /\ records' = records + 1
  /\ UNCHANGED <<manifest, up, acked, history, runs, failures, spilled, refusals>>

\* CapacityExceeded, from either limit.
AppendRefused(size) ==
  /\ up /\ refusals < MaxRefusals
  /\ LET appended == AppendRecord(log, records + 1, size) IN
     /\ ~appended.ok
     /\ log' = appended.log
  /\ refusals' = refusals + 1
  /\ UNCHANGED <<manifest, up, records, acked, history, runs, failures, spilled>>

\* IoError from writing the record: the caller may go on appending.
AppendFailed(size) ==
  /\ up /\ failures < MaxFailures
  /\ LET prepared == PrepareAppend(log, size) IN
     /\ prepared.accepted
     /\ log' \in FailedWrites(prepared.log, size)
     /\ spilled' = spilled + IF log' = prepared.log THEN 0 ELSE size
  /\ history' = Damaged
  /\ failures' = failures + 1
  /\ UNCHANGED <<manifest, up, records, acked, runs, refusals>>

Sync ==
  /\ up
  /\ log' = SyncLog(log)
  /\ acked' = acked \cup WrittenRecords(log'.disk)
  /\ UNCHANGED <<manifest, up, records, history, runs, failures, spilled, refusals>>

Close ==
  /\ up
  /\ up' = FALSE
  /\ log' = CloseLog(log)
  /\ acked' = acked \cup WrittenRecords(log'.disk)
  /\ UNCHANGED <<manifest, records, history, runs, failures, spilled, refusals>>

Crash ==
  /\ up
  /\ up' = FALSE
  /\ \E disk \in CrashedDisks(log.disk) : log' = NewLog(disk)
  /\ history' = Damaged
  /\ UNCHANGED <<manifest, records, acked, runs, failures, spilled, refusals>>

Next ==
  \/ Open \/ OpenCrash \/ Sync \/ Close \/ Crash
  \/ \E size \in Sizes : AppendOk(size) \/ AppendRefused(size) \/ AppendFailed(size)

Spec == Init /\ [][Next]_vars

-----------------------------------------------------------------------------
(* Properties.                                                              *)

Recovered == Range(ReadAll(log.disk))

\* read_all returns the records in the order in which append() accepted them, none twice,
\* whatever crashes, rotations, failed writes and restarts the directory has seen.
RecoveredInWriteOrder ==
  LET found == ReadAll(log.disk) IN
  \A i, j \in 1..Len(found) : i < j => found[i] < found[j]

\* Losing an acknowledged record is never silent: when a record that was in the directory
\* when sync() or close() returned ok is not among those read_all returns, the recovery
\* report is not clean.
AckedLossIsReported == acked \subseteq Recovered \/ ~CleanRecovery(log.disk)

\* Until the store is opened again after a crash or a failed write, every acknowledged
\* record is recovered: a crash costs only what was appended since the last sync(), plus
\* whatever a failed write put out of the reader's reach.
CrashLosesOnlyUnsynced == history # "reopened" /\ failures = 0 => acked \subseteq Recovered

\* A store that holds an acknowledged record can be opened: open() flushes the manifest
\* before the first append.
AckedStoreOpens == acked # {} => manifest = "good"

\* Rotation keeps every file within max_segment_records, and within max_segment_bytes up to
\* the one header that append()'s fit test leaves out for the first record of a segment and
\* the pieces that failed writes left, which segment_bytes_ does not count.
SegmentsWithinLimits ==
  \A i \in 1..Len(log.disk) :
    /\ Cardinality(RecordsOf(log.disk[i])) <= MaxSegmentRecords
    /\ SegmentBytes(log.disk[i]) <= MaxSegmentBytes + HeaderBytes + spilled

\* No step rewrites or drops a durable frame: the directory only grows, and open() never
\* truncates a segment of an earlier run.
DurableFramesKept ==
  [][\A i \in 1..Len(log.disk) :
       /\ i <= Len(log'.disk)
       /\ log.disk[i].durable <= Len(log'.disk[i].frames)
       /\ \A j \in 1..log.disk[i].durable : log'.disk[i].frames[j] = log.disk[i].frames[j]]_vars

\* StoreReader: "Reads every intact record from a store directory, in write order."  With
\* no damaged frame in any segment, every record in the directory is returned.
EveryIntactRecordIsRead ==
  (\A i \in 1..Len(log.disk) : HasHeader(log.disk[i])
                                /\ \A j \in 1..Len(log.disk[i].frames) : ~IsTorn(log.disk[i].frames[j]))
    => DurableRecords(log.disk) \subseteq Recovered
=============================================================================
