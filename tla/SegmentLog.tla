------------------------------ MODULE SegmentLog ------------------------------
(***************************************************************************)
(* The segmented log of store/store.cpp as operators: what                 *)
(* StoreReader::read_all returns for a directory, what StoreWriter::append *)
(* does to it, and what a crash leaves of a file that was not flushed.     *)
(*                                                                         *)
(* A directory is the sequence of its segments in file name order.  A      *)
(* segment is the sequence of the frames written to its file, of which the *)
(* first `durable` have been flushed and synced.  A frame is a segment     *)
(* header, a record, a footer, or what a cut or failed write leaves of     *)
(* one: "torn_head" when fewer than the 12 bytes of a record header are    *)
(* there, "torn_body" when only the rest of the frame is missing.          *)
(* Checksums recognise a torn frame; they are not modelled bit by bit.     *)
(*                                                                         *)
(* A log is a directory with the fields of the StoreWriter that writes it: *)
(* file is the index of the open segment, 0 for file_ == nullptr.          *)
(***************************************************************************)
EXTENDS Integers, Sequences, FiniteSetsExt

CONSTANTS
  MaxSegmentRecords,  \* limits.max_segment_records
  MaxSegmentBytes,    \* limits.max_segment_bytes
  MaxStoreBytes,      \* limits.max_store_bytes
  HeaderBytes,        \* kSegmentHeaderBytes
  FooterBytes,        \* kSegmentFooterBytes
  NoPayload           \* a model value: frames that are not records carry nothing

ASSUME LogAssumption ==
  /\ MaxSegmentRecords \in Nat \ {0}
  /\ MaxSegmentBytes \in Nat /\ MaxStoreBytes \in Nat
  /\ HeaderBytes \in Nat \ {0} /\ FooterBytes \in Nat \ {0}
  /\ FooterBytes <= MaxSegmentBytes  \* Limits::validate() asks for much more

Frame(kind, payload, size) == [kind |-> kind, payload |-> payload, size |-> size]
HeaderFrame == Frame("header", NoPayload, HeaderBytes)
FooterFrame == Frame("footer", NoPayload, FooterBytes)
TornKinds == {"torn_head", "torn_body"}
IsTorn(frame) == frame.kind \in TornKinds

EmptySegment == [frames |-> <<HeaderFrame>>, durable |-> 0]
WriteFrame(segment, frame) == [segment EXCEPT !.frames = Append(@, frame)]
Flush(segment) == [segment EXCEPT !.durable = Len(segment.frames)]

\* The places of the records in a segment, and the size of its file.  A torn piece counts as
\* much as the frame it is a piece of: this is the most the file can hold.
RecordsOf(segment) == {j \in 1..Len(segment.frames) : segment.frames[j].kind = "record"}
SegmentBytes(segment) ==
  LET sum[n \in 0..Len(segment.frames)] == IF n = 0 THEN 0 ELSE sum[n - 1] + segment.frames[n].size
  IN  sum[Len(segment.frames)]

-----------------------------------------------------------------------------
(* StoreReader::read_all.                                                   *)

HasHeader(segment) == segment.frames # <<>> /\ segment.frames[1].kind = "header"

\* The number of intact records that follow the header.
RecordRun(segment) ==
  LET written == Len(segment.frames) IN
  CHOOSE n \in 0..(written - 1) :
    /\ \A i \in 2..(n + 1) : segment.frames[i].kind = "record"
    /\ n = written - 1 \/ segment.frames[n + 2].kind # "record"

SegmentRecords(segment) ==
  IF HasHeader(segment)
    THEN [i \in 1..RecordRun(segment) |-> segment.frames[i + 1].payload]
    ELSE <<>>

EndsUnclosedAtAnyTear(segment) ==
  LET next == RecordRun(segment) + 2 IN
  next > Len(segment.frames) \/ IsTorn(segment.frames[next])

\* The file ends where a record header should be: the segment was never closed, or a
\* crash cut a record header short.
EndsUnclosed(segment) ==
  LET next == RecordRun(segment) + 2 IN
  \/ next > Len(segment.frames)
  \/ next = Len(segment.frames) /\ segment.frames[next].kind = "torn_head"

EndsInFooter(segment) ==
  LET next == RecordRun(segment) + 2 IN
  next <= Len(segment.frames) /\ segment.frames[next].kind = "footer"

\* read_all reports the segment and stops at it: no header, a damaged frame, or no footer
\* after at least one record.
StopsReading(segment) ==
  \/ ~HasHeader(segment)
  \/ ~EndsInFooter(segment) /\ ~(EndsUnclosed(segment) /\ RecordRun(segment) = 0)

SegmentsRead(disk) ==
  LET stops == {i \in 1..Len(disk) : StopsReading(disk[i])} IN
  IF stops = {} THEN Len(disk) ELSE Min(stops)

ReadUpToNewestFirst(disk, n) ==
  LET found[i \in 0..n] == IF i = 0 THEN <<>> ELSE SegmentRecords(disk[i]) \o found[i - 1]
  IN  found[n]

\* The records of the first n segments, one segment after the other.
ReadUpTo(disk, n) ==
  LET found[i \in 0..n] == IF i = 0 THEN <<>> ELSE found[i - 1] \o SegmentRecords(disk[i])
  IN  found[n]

\* The records of every segment up to and including the first that stops the reader.
ReadAll(disk) == ReadUpTo(disk, SegmentsRead(disk))

\* RecoveryReport::clean(): no segment was rejected and no record discarded.
CleanRecovery(disk) == \A i \in 1..Len(disk) : ~StopsReading(disk[i])

-----------------------------------------------------------------------------
(* StoreWriter.                                                             *)

NewLog(disk) ==
  [disk |-> disk, file |-> 0, segment_records |-> 0, segment_bytes |-> 0, total_bytes |-> 0]

OpenSegmentOverLast(log) ==
  LET id == IF Len(log.disk) = 0 THEN 1 ELSE Len(log.disk) IN
  [log EXCEPT !.disk = [i \in 1..id |-> IF i = id THEN EmptySegment ELSE log.disk[i]],
              !.file = id,
              !.segment_records = 0,
              !.segment_bytes = HeaderBytes]

\* The identifier is one more than the last file's, so the file is always a new one.
OpenSegment(log) ==
  [log EXCEPT !.disk = Append(@, EmptySegment),
              !.file = Len(log.disk) + 1,
              !.segment_records = 0,
              !.segment_bytes = HeaderBytes]

CloseSegmentUnflushed(log) ==
  [log EXCEPT !.disk[log.file] = WriteFrame(@, FooterFrame),
              !.file = 0,
              !.segment_bytes = @ + FooterBytes,
              !.total_bytes = @ + FooterBytes]

\* close_segment() and the fclose that follows it: footer, durable flush.
CloseSegment(log) ==
  [log EXCEPT !.disk[log.file] = Flush(WriteFrame(@, FooterFrame)),
              !.file = 0,
              !.segment_bytes = @ + FooterBytes,
              !.total_bytes = @ + FooterBytes]

NeedsRotationOneLate(log, size) ==
  /\ log.segment_records # 0
  /\ \/ log.segment_records > MaxSegmentRecords
     \/ log.segment_bytes + size + FooterBytes > MaxSegmentBytes

NeedsRotation(log, size) ==
  /\ log.segment_records # 0
  /\ \/ log.segment_records + 1 > MaxSegmentRecords
     \/ log.segment_bytes + size + FooterBytes > MaxSegmentBytes

\* append() up to its write: the segment the record would go to, or a refusal.  A refused
\* append may already have created or rotated a segment.
PrepareAppend(log, size) ==
  LET opened == IF log.file = 0 THEN OpenSegment(log) ELSE log
      rotated == IF NeedsRotation(opened, size)
                   THEN OpenSegment(CloseSegment(opened)) ELSE opened
  IN  IF size + FooterBytes > MaxSegmentBytes
        THEN [log |-> opened, accepted |-> FALSE]
        ELSE [log |-> rotated, accepted |-> rotated.total_bytes + size <= MaxStoreBytes]

WriteRecord(log, payload, size) ==
  [log EXCEPT !.disk[log.file] = WriteFrame(@, Frame("record", payload, size)),
              !.segment_records = @ + 1,
              !.segment_bytes = @ + size,
              !.total_bytes = @ + size]

\* append(): the log it leaves and whether it returned ok.
AppendRecord(log, payload, size) ==
  LET prepared == PrepareAppend(log, size) IN
  [log |-> IF prepared.accepted THEN WriteRecord(prepared.log, payload, size) ELSE prepared.log,
   ok |-> prepared.accepted]

\* sync()
SyncLog(log) == IF log.file = 0 THEN log ELSE [log EXCEPT !.disk[log.file] = Flush(@)]

\* close()
CloseLog(log) == IF log.file = 0 THEN log ELSE CloseSegment(log)

-----------------------------------------------------------------------------
(* Crashes and failed writes.                                               *)

\* What a failed fwrite of a frame of this size leaves: nothing, or a piece of the frame.
\* The counters of the writer stay as they were.
FailedWrites(log, size) ==
  {log} \cup {[log EXCEPT !.disk[log.file] = WriteFrame(@, Frame(kind, NoPayload, size))] : kind \in TornKinds}

\* What a crash can leave of a segment: the durable frames, any number of the frames after
\* them, and possibly a torn piece of the next one.
CrashImages(segment) ==
  LET written == Len(segment.frames)
      Kept(n) == SubSeq(segment.frames, 1, n)
      Image(frames) == [frames |-> frames, durable |-> Len(frames)]
  IN  {Image(Kept(n)) : n \in segment.durable..written}
      \cup {Image(Append(Kept(n), Frame(kind, NoPayload, segment.frames[n + 1].size))) :
              n \in segment.durable..(written - 1), kind \in TornKinds}

\* The directories a crash can leave.  Rotation flushes a segment before it opens the next
\* one, so at most one segment has frames at risk.
CrashedDisks(disk) ==
  LET AtRisk == {i \in 1..Len(disk) : disk[i].durable < Len(disk[i].frames)} IN
  IF AtRisk = {} THEN {disk}
  ELSE UNION {{[disk EXCEPT ![i] = image] : image \in CrashImages(disk[i])} : i \in AtRisk}

\* The payloads of the records in a directory, and of those that no crash can take away.
RecordsWithin(segment, n) ==
  {segment.frames[j].payload : j \in RecordsOf(segment) \cap 1..n}

WrittenRecords(disk) == UNION {RecordsWithin(disk[i], Len(disk[i].frames)) : i \in 1..Len(disk)}
DurableRecords(disk) == UNION {RecordsWithin(disk[i], disk[i].durable) : i \in 1..Len(disk)}
=============================================================================
