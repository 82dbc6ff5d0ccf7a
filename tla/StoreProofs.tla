----------------------------- MODULE StoreProofs -----------------------------
(***************************************************************************)
(* The invariants of the store directory, for every record size, every     *)
(* limit and every number of runs, failed writes and crashes.              *)
(*                                                                         *)
(* The inductive invariant is about the files themselves.  Records are     *)
(* numbered as append() accepted them, so the numbers grow along the       *)
(* directory; a crash, a failed write and a restart take records away or   *)
(* leave them, and never add one.  What sync() and close() acknowledged    *)
(* lies in the part of the files that no crash takes.  And as long as no   *)
(* damaged store was opened again, every file but the last ends in its     *)
(* footer, which is why the reader gets as far as the last acknowledged    *)
(* record.                                                                 *)
(*                                                                         *)
(* The limits of a segment file have an invariant of their own: the        *)
(* writer's counters are those of the file it has open, for append() tests *)
(* the counters, not the file.  What it tests leaves room for the footer   *)
(* that close_segment() writes later, and the first record of a segment is *)
(* tested without the header.                                              *)
(***************************************************************************)
EXTENDS Store, SegmentLogProofs, FiniteSetTheorems

\* Records are numbered from 1 to top, in the order of the files and of the frames in them.
Numbered(disk, top) ==
  /\ \A i \in 1..Len(disk) : \A j \in RecordsOf(disk[i]) : disk[i].frames[j].payload \in 1..top
  /\ \A i, k \in 1..Len(disk) : \A j \in RecordsOf(disk[i]), m \in RecordsOf(disk[k]) :
       i < k \/ (i = k /\ j < m) => disk[i].frames[j].payload < disk[k].frames[m].payload

\* The writer's count of the records of the open file.
CountOK(l) == l.segment_records \in Nat /\ l.segment_records <= MaxSegmentRecords

\* A file with its header, records and possibly one frame that is not a record, at the end.
Tidy(segment) ==
  /\ Len(segment.frames) > 1 => segment.frames[1].kind = "header"
  /\ \A j \in 1..Len(segment.frames) : j > 1 /\ j < Len(segment.frames) => segment.frames[j].kind = "record"

FooterEnds(segment) ==
  Len(segment.frames) > 1 /\ segment.frames[Len(segment.frames)].kind = "footer"

\* Every file is tidy and every file but the last has its footer.
Whole(disk) ==
  /\ \A i \in 1..Len(disk) : Tidy(disk[i])
  /\ \A i \in 1..Len(disk) : i < Len(disk) => FooterEnds(disk[i])

\* A process that has met no damage: the file it has open is all records.
Undamaged(l) ==
  /\ Whole(l.disk)
  /\ l.file = 0 => \A i \in 1..Len(l.disk) : FooterEnds(l.disk[i])
  /\ l.file # 0 => \A j \in 1..Len(l.disk[l.file].frames) : j > 1 => l.disk[l.file].frames[j].kind = "record"

RangesOK ==
  /\ manifest \in {"absent", "torn", "good"} /\ up \in BOOLEAN
  /\ records \in 0..MaxRecords /\ history \in {"whole", "damaged", "reopened"}
  /\ runs \in 0..MaxRuns /\ failures \in 0..MaxFailures /\ spilled \in Nat /\ refusals \in 0..MaxRefusals

StoreInvariant ==
  /\ RangesOK /\ LogShape(log) /\ Numbered(log.disk, records)
  /\ CountOK(log)
  /\ acked \subseteq DurableRecords(log.disk)
  /\ ~up => log.file = 0
  /\ up \/ acked # {} => manifest = "good"
  /\ failures = 0 /\ history = "whole" => Undamaged(log)
  /\ failures = 0 /\ history = "damaged" => ~up /\ Whole(log.disk)

-----------------------------------------------------------------------------
(* The numbers of the records.                                              *)

\* A step that writes no record keeps the numbers in order.
LEMMA NumberedKept ==
  ASSUME NEW a, NEW b, IsSequence(a), IsSequence(b), NoNewRecords(a, b), NEW top, Numbered(a, top)
  PROVE  Numbered(b, top)
<1>1. Len(a) \in Nat /\ Len(b) \in Nat
  BY SequenceFacts, Zenon
<1>2. ASSUME NEW i \in 1..Len(b), NEW j \in RecordsOf(b[i])
      PROVE  i \in 1..Len(a) /\ j \in RecordsOf(a[i]) /\ b[i].frames[j] = a[i].frames[j]
  <2>1. i \in 1..Len(a)
    BY Zenon DEF NoNewRecords
  <2>2. NothingNew(a[i], b[i])
    BY <2>1, Zenon DEF NoNewRecords
  <2>3. QED
    BY <2>1, <2>2, Zenon DEF NothingNew
<1>3. ASSUME NEW i \in 1..Len(b), NEW j \in RecordsOf(b[i]) PROVE b[i].frames[j].payload \in 1..top
  BY <1>2, Zenon DEF Numbered
<1>4. ASSUME NEW i \in 1..Len(b), NEW k \in 1..Len(b), NEW j \in RecordsOf(b[i]), NEW m \in RecordsOf(b[k]),
             i < k \/ (i = k /\ j < m)
      PROVE  b[i].frames[j].payload < b[k].frames[m].payload
  <2>1. /\ i \in 1..Len(a) /\ j \in RecordsOf(a[i]) /\ b[i].frames[j] = a[i].frames[j]
        /\ k \in 1..Len(a) /\ m \in RecordsOf(a[k]) /\ b[k].frames[m] = a[k].frames[m]
    BY <1>2, Zenon
  <2>2. QED
    BY <1>4, <2>1, Zenon DEF Numbered
<1>5. QED
  BY <1>3, <1>4, Zenon DEF Numbered

\* The next number is written to the last file, after every other.
LEMMA NumberedWrite ==
  ASSUME NEW l, LogShape(l), l.file # 0, NEW top \in Nat, Numbered(l.disk, top), NEW size \in Nat,
         NEW m, m = WriteRecord(l, top + 1, size)
  PROVE  Numbered(m.disk, top + 1)
<1>1. PICK new : Written(l.disk[l.file], Frame("record", top + 1, size), new) /\ Replaced(l.disk, l.file, new, m.disk)
  BY RecordShape, Zenon
<1>2. Len(l.disk) \in Nat /\ l.file = Len(l.disk) /\ l.file \in 1..Len(l.disk) /\ SegmentShape(l.disk[l.file])
  BY OpenFile, Zenon
<1>3. PICK last : last = Len(l.disk[l.file].frames) + 1
  BY Zenon
<1>4. /\ RecordsOf(new) = RecordsOf(l.disk[l.file]) \cup {last}
      /\ new.frames[last].payload = top + 1
      /\ \A j \in RecordsOf(l.disk[l.file]) : j < last /\ new.frames[j] = l.disk[l.file].frames[j]
  BY <1>1, <1>2, <1>3, RecordWritten
<1>5. Len(m.disk) = Len(l.disk) /\ m.disk[l.file] = new /\ \A i \in 1..Len(l.disk) : i # l.file => m.disk[i] = l.disk[i]
  BY <1>1, Zenon DEF Replaced
<1>6. ASSUME NEW i \in 1..Len(l.disk), NEW j \in RecordsOf(m.disk[i])
      PROVE  \/ i = l.file /\ j = last /\ m.disk[i].frames[j].payload = top + 1
             \/ /\ j \in RecordsOf(l.disk[i]) /\ m.disk[i].frames[j] = l.disk[i].frames[j]
                /\ i # l.file \/ j < last
  BY <1>4, <1>5, ZenonT(30)
<1>7. ASSUME NEW i \in 1..Len(l.disk), NEW j \in RecordsOf(m.disk[i]) PROVE m.disk[i].frames[j].payload \in 1..(top + 1)
  <2>1. CASE m.disk[i].frames[j].payload = top + 1
    BY <2>1
  <2>2. CASE j \in RecordsOf(l.disk[i]) /\ m.disk[i].frames[j] = l.disk[i].frames[j]
    <3>1. m.disk[i].frames[j].payload \in 1..top
      BY <2>2, Zenon DEF Numbered
    <3>2. QED
      BY <3>1
  <2>3. QED
    BY <1>6, <2>1, <2>2, ZenonT(30)
<1>8. ASSUME NEW i \in 1..Len(l.disk), NEW k \in 1..Len(l.disk), NEW j \in RecordsOf(m.disk[i]), NEW h \in RecordsOf(m.disk[k]),
             i < k \/ (i = k /\ j < h)
      PROVE  m.disk[i].frames[j].payload < m.disk[k].frames[h].payload
  <2>1. j \in RecordsOf(l.disk[i]) /\ m.disk[i].frames[j] = l.disk[i].frames[j]
    <3>1. CASE i = l.file /\ j = last
      <4>1. i = k /\ j < h
        BY <1>2, <1>8, <3>1
      <4>2. h \in RecordsOf(new) /\ h # last /\ ~(h < last)
        <5>1. j \in Nat /\ h \in Nat
          BY DEF RecordsOf
        <5>2. QED
          BY <1>5, <3>1, <4>1, <5>1
      <4>3. QED
        BY <1>4, <4>2, ZenonT(30)
    <3>2. QED
      BY <1>6, <3>1, SMTT(30)
  <2>2. m.disk[i].frames[j].payload \in 1..top
    BY <2>1, ZenonT(30) DEF Numbered
  <2>3. CASE m.disk[k].frames[h].payload = top + 1
    BY <2>2, <2>3
  <2>4. CASE h \in RecordsOf(l.disk[k]) /\ m.disk[k].frames[h] = l.disk[k].frames[h]
    BY <1>8, <2>1, <2>4, Zenon DEF Numbered
  <2>5. QED
    BY <1>6, <2>3, <2>4, ZenonT(30)
<1>9. \A i \in 1..Len(m.disk) : \A j \in RecordsOf(m.disk[i]) : m.disk[i].frames[j].payload \in 1..(top + 1)
  BY <1>5, <1>7
<1>10. ASSUME NEW i \in 1..Len(m.disk), NEW k \in 1..Len(m.disk), NEW j \in RecordsOf(m.disk[i]), NEW h \in RecordsOf(m.disk[k]),
              i < k \/ (i = k /\ j < h)
       PROVE  m.disk[i].frames[j].payload < m.disk[k].frames[h].payload
  <2>1. i \in 1..Len(l.disk) /\ k \in 1..Len(l.disk)
    BY <1>5, ZenonT(30)
  <2>2. QED
    BY <1>8, <1>10, <2>1, Zenon
<1>11. QED
  BY <1>9, <1>10, Zenon DEF Numbered

-----------------------------------------------------------------------------
(* The counter and the order of the frames, operation by operation.         *)

\* open_segment()
LEMMA OpenOK ==
  ASSUME NEW l, LogShape(l), CountOK(l), l.file = 0, NEW m, m = OpenSegment(l)
  PROVE  CountOK(m) /\ (Undamaged(l) => Undamaged(m))
<1>1. /\ LogShape(m) /\ m.file = Len(l.disk) + 1 /\ m.segment_records = 0
      /\ Len(l.disk) \in Nat /\ Len(m.disk) = Len(l.disk) + 1 /\ m.disk[m.file] = EmptySegment
      /\ \A i \in 1..Len(l.disk) : m.disk[i] = l.disk[i]
  BY OpenShape DEF Longer
<1>2. EmptySegment.frames = <<HeaderFrame>> /\ Len(<<HeaderFrame>>) = 1 /\ <<HeaderFrame>>[1].kind = "header"
  BY OneElement, Zenon DEF EmptySegment, HeaderFrame, Frame
<1>3. \A j \in 1..1 : ~(j > 1) /\ j = 1
  OBVIOUS
<1>4. CountOK(m)
  BY <1>1, LogAssumption DEF CountOK
<1>5. ASSUME Undamaged(l) PROVE Undamaged(m)
  <2>1. Tidy(EmptySegment)
    BY <1>2, <1>3 DEF Tidy
  <2>2. \A i \in 1..Len(m.disk) : i \in 1..Len(l.disk) \/ i = m.file
    BY <1>1
  <2>3. \A i \in 1..Len(m.disk) : Tidy(m.disk[i])
    BY <1>1, <1>5, <2>1, <2>2, ZenonT(30) DEF Undamaged, Whole
  <2>4. \A i \in 1..Len(m.disk) : i < Len(m.disk) => i \in 1..Len(l.disk)
    BY <1>1
  <2>5. \A i \in 1..Len(m.disk) : i < Len(m.disk) => FooterEnds(m.disk[i])
    BY <1>1, <1>5, <2>4, ZenonT(30) DEF Undamaged
  <2>6. m.file # 0 /\ \A j \in 1..Len(m.disk[m.file].frames) : j > 1 => m.disk[m.file].frames[j].kind = "record"
    BY <1>1, <1>2, <1>3
  <2>7. QED
    BY <2>3, <2>5, <2>6 DEF Undamaged, Whole
<1>6. QED
  BY <1>4, <1>5

\* What the reader finds in front of the frames of an open file.
LEMMA OpenFrames ==
  ASSUME NEW segment, SegmentShape(segment), Unclosed(segment)
  PROVE  Len(segment.frames) \in Nat /\ Len(segment.frames) # 0 /\ 1 \in 1..Len(segment.frames)
         /\ segment.frames[1].kind = "header"
<1>1. IsSequence(segment.frames) /\ segment.frames # <<>> /\ segment.frames[1].kind = "header"
  BY Zenon DEF SegmentShape, Unclosed, HasHeader
<1>2. Len(segment.frames) \in Nat
  BY <1>1, SequenceFacts
<1>3. Len(segment.frames) # 0
  BY <1>1, NoElements, SameSequence
<1>4. QED
  BY <1>1, <1>2, <1>3

\* close_segment()
LEMMA CloseOK ==
  ASSUME NEW l, LogShape(l), CountOK(l), l.file # 0, NEW m, m = CloseSegment(l)
  PROVE  CountOK(m) /\ (Undamaged(l) => Undamaged(m))
<1>1. LogShape(m) /\ m.file = 0 /\ m.segment_records = l.segment_records
  BY CloseShape, Zenon
<1>2. CountOK(m)
  BY <1>1, Zenon DEF CountOK
<1>3. ASSUME Undamaged(l) PROVE Undamaged(m)
  <2>1. PICK new : ClosedAs(l.disk[l.file], new) /\ Replaced(l.disk, l.file, new, m.disk)
    BY CloseShape, Zenon
  <2>2. PICK old : old = l.disk[l.file]
    BY Zenon
  <2>3. Len(l.disk) \in Nat /\ l.file = Len(l.disk) /\ SegmentShape(old) /\ Unclosed(old)
    BY <2>2, OpenFile, ZenonT(30)
  <2>4. Len(old.frames) \in Nat /\ Len(old.frames) # 0 /\ 1 \in 1..Len(old.frames) /\ old.frames[1].kind = "header"
    BY <2>3, OpenFrames, Zenon
  <2>5. /\ Len(new.frames) = Len(old.frames) + 1 /\ new.frames[Len(old.frames) + 1].kind = "footer"
        /\ \A j \in 1..Len(old.frames) : new.frames[j] = old.frames[j]
    BY <2>1, <2>2 DEF ClosedAs, Longer, FooterFrame, Frame
  <2>6. \A j \in 1..Len(old.frames) : j > 1 => old.frames[j].kind = "record"
    BY <1>3, <2>2, Zenon DEF Undamaged
  <2>7. Tidy(new) /\ FooterEnds(new)
    <3>1. \A j \in 1..Len(new.frames) : j > 1 /\ j < Len(new.frames) => j \in 1..Len(old.frames)
      BY <2>4, <2>5
    <3>2. Len(new.frames) > 1
      BY <2>4, <2>5
    <3>3. QED
      BY <2>4, <2>5, <2>6, <3>1, <3>2, Zenon DEF Tidy, FooterEnds
  <2>8. Len(m.disk) = Len(l.disk) /\ m.disk[l.file] = new /\ \A i \in 1..Len(l.disk) : i # l.file => m.disk[i] = l.disk[i]
    BY <2>1, Zenon DEF Replaced
  <2>9. \A i \in 1..Len(l.disk) : i # l.file => i < Len(l.disk)
    BY <2>3
  <2>10. \A i \in 1..Len(m.disk) : Tidy(m.disk[i]) /\ FooterEnds(m.disk[i])
    BY <1>3, <2>7, <2>8, <2>9 DEF Undamaged, Whole
  <2>11. QED
    BY <1>1, <2>10, ZenonT(30) DEF Undamaged, Whole
<1>4. QED
  BY <1>2, <1>3, ZenonT(30)

\* sync()
LEMMA SyncOK ==
  ASSUME NEW l, LogShape(l), CountOK(l), NEW m, m = SyncLog(l)
  PROVE  CountOK(m) /\ (Undamaged(l) => Undamaged(m))
<1>1. CASE l.file = 0
  BY <1>1, ZenonT(30) DEF SyncLog
<1>2. CASE l.file # 0
  <2>1. LogShape(m) /\ m.file = l.file /\ m.segment_records = l.segment_records
    BY <1>2, SyncShape
  <2>2. PICK new : Flushed(l.disk[l.file], new) /\ Replaced(l.disk, l.file, new, m.disk)
    BY <1>2, SyncShape
  <2>3. Len(l.disk) \in Nat /\ l.file = Len(l.disk) /\ l.file \in 1..Len(l.disk)
    BY <1>2, OpenFile
  <2>4. Len(m.disk) = Len(l.disk) /\ \A i \in 1..Len(l.disk) : m.disk[i].frames = l.disk[i].frames
    BY <2>2, <2>3, ZenonT(30) DEF Replaced, Flushed
  <2>5. CountOK(m)
    BY <2>1, ZenonT(30) DEF CountOK
  <2>6. ASSUME Undamaged(l) PROVE Undamaged(m)
    <3>1. \A i \in 1..Len(l.disk) : (Tidy(l.disk[i]) => Tidy(m.disk[i])) /\ (FooterEnds(l.disk[i]) => FooterEnds(m.disk[i]))
      BY <2>4, ZenonT(30) DEF Tidy, FooterEnds
    <3>2. QED
      BY <1>2, <2>1, <2>3, <2>4, <2>6, <3>1, SMTT(30) DEF Undamaged, Whole
  <2>7. QED
    BY <2>5, <2>6
<1>3. QED
  BY <1>1, <1>2

\* append() up to its write.
LEMMA PrepareOK ==
  ASSUME NEW l, LogShape(l), CountOK(l), NEW size \in Nat, NEW m, m = PrepareAppend(l, size).log
  PROVE  CountOK(m) /\ (Undamaged(l) => Undamaged(m))
<1>1. CASE l.file # 0 /\ m = l
  BY <1>1, Zenon
<1>2. CASE l.file = 0 /\ m = OpenSegment(l)
  BY <1>2, OpenOK, ZenonT(30)
<1>3. CASE l.file # 0 /\ \E closed : closed = CloseSegment(l) /\ m = OpenSegment(closed)
  <2>1. PICK closed : closed = CloseSegment(l) /\ m = OpenSegment(closed)
    BY <1>3, ZenonT(30)
  <2>2. LogShape(closed) /\ closed.file = 0
    BY <1>3, <2>1, CloseShape, ZenonT(30)
  <2>3. CountOK(closed) /\ (Undamaged(l) => Undamaged(closed))
    BY <1>3, <2>1, CloseOK, ZenonT(30)
  <2>4. QED
    BY <2>1, <2>2, <2>3, OpenOK, ZenonT(30)
<1>4. QED
  BY <1>1, <1>2, <1>3, PrepareCases

\* The write of append(), after the test that keeps a segment within its limits.
LEMMA RecordOK ==
  ASSUME NEW l, LogShape(l), CountOK(l), l.file # 0, NEW payload, NEW size \in Nat, ~NeedsRotation(l, size),
         NEW m, m = WriteRecord(l, payload, size)
  PROVE  CountOK(m) /\ (Undamaged(l) => Undamaged(m))
<1>1. LogShape(m) /\ m.file = l.file /\ m.segment_records = l.segment_records + 1
  BY RecordShape
<1>2. PICK new : Written(l.disk[l.file], Frame("record", payload, size), new) /\ Replaced(l.disk, l.file, new, m.disk)
  BY RecordShape, Zenon
<1>3. PICK old : old = l.disk[l.file]
  BY Zenon
<1>4. Len(l.disk) \in Nat /\ l.file = Len(l.disk) /\ l.file \in 1..Len(l.disk) /\ SegmentShape(old) /\ Unclosed(old)
  BY <1>3, OpenFile
<1>5. Len(m.disk) = Len(l.disk) /\ m.disk[l.file] = new /\ \A i \in 1..Len(l.disk) : i # l.file => m.disk[i] = l.disk[i]
  BY <1>2 DEF Replaced
<1>6. CountOK(m)
  <2>1. l.segment_records \in Nat /\ l.segment_records + 1 <= MaxSegmentRecords
    BY LogAssumption DEF NeedsRotation, LogShape
  <2>2. QED
    BY <1>1, <2>1, SMTT(30) DEF CountOK
<1>7. ASSUME Undamaged(l) PROVE Undamaged(m)
  <2>1. Len(old.frames) \in Nat /\ Len(old.frames) # 0 /\ 1 \in 1..Len(old.frames) /\ old.frames[1].kind = "header"
    BY <1>4, OpenFrames, ZenonT(30)
  <2>2. /\ Len(new.frames) = Len(old.frames) + 1 /\ new.frames[Len(old.frames) + 1].kind = "record"
        /\ \A j \in 1..Len(old.frames) : new.frames[j] = old.frames[j]
    BY <1>2, <1>3 DEF Written, Longer, Frame
  <2>3. \A j \in 1..Len(new.frames) : j \in 1..Len(old.frames) \/ j = Len(old.frames) + 1
    BY <2>1, <2>2, SMTT(30)
  <2>4. \A j \in 1..Len(new.frames) : j > 1 => new.frames[j].kind = "record"
    BY <1>3, <1>7, <2>2, <2>3, ZenonT(30) DEF Undamaged
  <2>5. Tidy(new)
    BY <2>1, <2>2, <2>4 DEF Tidy
  <2>6. ~(l.file < Len(l.disk))
    BY <1>4
  <2>7. Whole(m.disk)
    BY <1>5, <1>7, <2>5, <2>6 DEF Undamaged, Whole
  <2>8. QED
    BY <1>1, <1>5, <2>4, <2>7 DEF Undamaged
<1>8. QED
  BY <1>6, <1>7, ZenonT(30)

\* A crash of a process that has met no damage cuts the last file behind some record.
LEMMA CrashOK ==
  ASSUME NEW l, LogShape(l), NEW disk \in CrashedDisks(l.disk), Undamaged(l)
  PROVE  Whole(disk)
<1>1. PICK m : m = NewLog(disk)
  BY Zenon
<1>2. CASE disk = l.disk
  BY <1>2 DEF Undamaged
<1>3. CASE l.file # 0 /\ \E new, n : CrashedAs(l.disk[l.file], n, new) /\ Replaced(l.disk, l.file, new, disk)
  <2>1. PICK new, n : CrashedAs(l.disk[l.file], n, new) /\ Replaced(l.disk, l.file, new, disk)
    BY <1>3, ZenonT(30)
  <2>2. PICK old : old = l.disk[l.file]
    BY ZenonT(30)
  <2>3. Len(l.disk) \in Nat /\ l.file = Len(l.disk) /\ SegmentShape(old) /\ Unclosed(old)
    BY <1>3, <2>2, OpenFile, ZenonT(30)
  <2>4. Len(old.frames) \in Nat /\ Len(old.frames) # 0 /\ 1 \in 1..Len(old.frames) /\ old.frames[1].kind = "header"
    BY <2>3, OpenFrames, SMTT(30)
  <2>5. /\ n \in Nat /\ n <= Len(old.frames) /\ \A j \in 1..n : new.frames[j] = old.frames[j]
        /\ Len(new.frames) = n \/ Len(new.frames) = n + 1
    BY <2>1, <2>2, <2>3, <2>4, SMTT(30) DEF CrashedAs, SegmentShape
  <2>6. Tidy(new)
    <3>1. Len(new.frames) > 1 => 1 \in 1..n
      BY <2>5
    <3>2. \A j \in 1..Len(new.frames) : j > 1 /\ j < Len(new.frames) => j \in 1..n /\ j \in 1..Len(old.frames)
      BY <2>4, <2>5
    <3>3. QED
      BY <1>3, <2>2, <2>4, <2>5, <3>1, <3>2, Zenon DEF Tidy, Undamaged
  <2>7. ~(l.file < Len(l.disk))
    BY <2>3
  <2>8. QED
    BY <2>1, <2>6, <2>7 DEF Undamaged, Whole, Replaced
<1>4. QED
  BY <1>1, <1>2, <1>3, CrashShape

-----------------------------------------------------------------------------
(* The invariant, action by action.                                         *)

\* A directory that does not exist yet.
LEMMA StoreInit == Init => StoreInvariant
<1> SUFFICES ASSUME Init PROVE StoreInvariant
  BY ZenonT(30)
<1>1. IsSequence(<<>>) /\ Len(<<>>) = 0 /\ \A i \in 1..0 : FALSE
  BY NoElements
<1>2. LogShape(log) /\ log.disk = <<>> /\ log.file = 0 /\ log.segment_records = 0
  BY <1>1, NewShape, ZenonT(30) DEF Init
<1>3. Numbered(log.disk, records) /\ CountOK(log) /\ Undamaged(log)
  BY <1>1, <1>2, LogAssumption DEF Numbered, CountOK, Undamaged, Whole
<1>4. RangesOK
  <2>1. up \in BOOLEAN
    BY Zenon DEF Init
  <2>2. 0 \in 0..MaxRecords /\ 0 \in 0..MaxRuns /\ 0 \in 0..MaxFailures /\ 0 \in 0..MaxRefusals
    BY StoreAssumption
  <2>3. QED
    BY <2>1, <2>2 DEF Init, RangesOK
<1>5. QED
  BY <1>2, <1>3, <1>4 DEF Init, StoreInvariant

\* open()
LEMMA OpenStep ==
  ASSUME StoreInvariant, Open
  PROVE  StoreInvariant'
<1>1. PICK l, m : l = log /\ m = log'
  BY ZenonT(30)
<1>2. LogShape(l) /\ CountOK(l) /\ l.file = 0
  BY <1>1, ZenonT(30) DEF StoreInvariant, Open
<1>3. IsSequence(l.disk) /\ \A i \in 1..Len(l.disk) : SegmentShape(l.disk[i]) /\ i # 0
  BY <1>2 DEF LogShape
<1>4. \A i \in 1..Len(l.disk) : l.disk[i].durable = Len(l.disk[i].frames)
  BY <1>2, <1>3 DEF LogShape
<1>5. m = NewLog(l.disk)
  BY <1>1, ZenonT(30) DEF Open
<1>6. LogShape(m) /\ m.disk = l.disk /\ m.file = 0
  BY <1>3, <1>4, <1>5, NewShape, ZenonT(30)
<1>7. CountOK(m)
  BY <1>5, LogAssumption DEF NewLog, CountOK
<1>8. Undamaged(l) => Undamaged(m)
  BY <1>2, <1>6, ZenonT(30) DEF Undamaged
<1>9. Numbered(m.disk, records') /\ acked' \subseteq DurableRecords(m.disk)
  BY <1>1, <1>6, ZenonT(30) DEF Open, StoreInvariant
<1>10. /\ up' = TRUE /\ manifest' = "good" /\ failures' = failures /\ acked' = acked
       /\ history' = IF history = "whole" THEN "whole" ELSE "reopened"
  BY Zenon DEF Open, ManifestAfterOpen
<1>11. RangesOK'
  BY StoreAssumption DEF Open, ManifestAfterOpen, StoreInvariant, RangesOK
<1>12. failures' = 0 /\ history' = "whole" => Undamaged(m)
  BY <1>1, <1>8, <1>10, Zenon DEF StoreInvariant
<1>13. QED
  BY <1>1, <1>6, <1>7, <1>9, <1>10, <1>11, <1>12, ZenonT(30) DEF StoreInvariant

\* A crash in open(), before there is a store.
LEMMA OpenCrashStep ==
  ASSUME StoreInvariant, OpenCrash
  PROVE  StoreInvariant'
<1>1. RangesOK'
  BY StoreAssumption DEF OpenCrash, StoreInvariant, RangesOK
<1>2. QED
  BY <1>1, ZenonT(30) DEF OpenCrash, StoreInvariant

\* append() that returns ok.
LEMMA AppendOkStep ==
  ASSUME StoreInvariant, NEW size \in Sizes, AppendOk(size)
  PROVE  StoreInvariant'
<1>1. PICK l, p, m, top : l = log /\ p = PrepareAppend(l, size).log /\ m = log' /\ top = records
  BY Zenon
<1>2. LogShape(l) /\ CountOK(l) /\ Numbered(l.disk, top) /\ top \in Nat /\ size \in Nat
  BY <1>1, StoreAssumption DEF StoreInvariant, RangesOK
<1>3. PrepareAppend(l, size).accepted /\ m = WriteRecord(p, top + 1, size) /\ m = AppendRecord(l, top + 1, size).log
  BY <1>1, Zenon DEF AppendOk, AppendRecord
<1>4. LogShape(p) /\ p.file # 0 /\ NoNewRecords(l.disk, p.disk) /\ ~NeedsRotation(p, size)
  BY <1>1, <1>2, <1>3, PrepareShape, PrepareKeeps, PrepareCases, ZenonT(30)
<1>5. CountOK(p) /\ (Undamaged(l) => Undamaged(p))
  BY <1>1, <1>2, PrepareOK, ZenonT(30)
<1>6. LogShape(m) /\ DurableKept(l.disk, m.disk)
  BY <1>2, <1>3, AppendKeeps, ZenonT(30)
<1>7. CountOK(m) /\ (Undamaged(p) => Undamaged(m))
  BY <1>2, <1>3, <1>4, <1>5, RecordOK, ZenonT(30)
<1>8. Numbered(m.disk, top + 1)
  <2>1. Numbered(p.disk, top)
    BY <1>2, <1>4, NumberedKept, ZenonT(30) DEF LogShape
  <2>2. QED
    BY <1>2, <1>3, <1>4, <2>1, NumberedWrite, SMTT(30)
<1>9. DurableRecords(l.disk) \subseteq DurableRecords(m.disk)
  BY <1>2, <1>6, DurableGrows, ZenonT(30) DEF LogShape
<1>10. UNCHANGED <<manifest, up, acked, history, failures>> /\ up /\ records' = top + 1
  BY <1>1, ZenonT(30) DEF AppendOk
<1>11. RangesOK'
  <2>1. records' \in 0..MaxRecords
    BY StoreAssumption DEF AppendOk, StoreInvariant, RangesOK
  <2>2. UNCHANGED <<manifest, up, history, runs, failures, spilled, refusals>>
    BY Zenon DEF AppendOk
  <2>3. QED
    BY <2>1, <2>2, ZenonT(30) DEF StoreInvariant, RangesOK
<1>12. failures' = 0 /\ history' = "whole" => Undamaged(m)
  BY <1>1, <1>5, <1>7, <1>10, Zenon DEF StoreInvariant
<1>13. acked' \subseteq DurableRecords(m.disk)
  BY <1>1, <1>9, <1>10, ZenonT(30) DEF StoreInvariant
<1>14. QED
  BY <1>1, <1>6, <1>7, <1>8, <1>10, <1>11, <1>12, <1>13, Zenon DEF StoreInvariant

\* append() that is refused: it may have opened or rotated a segment.
LEMMA AppendRefusedStep ==
  ASSUME StoreInvariant, NEW size \in Sizes, AppendRefused(size)
  PROVE  StoreInvariant'
<1>1. PICK l, m : l = log /\ m = log'
  BY Zenon
<1>2. LogShape(l) /\ CountOK(l) /\ Numbered(l.disk, records) /\ size \in Nat
  BY <1>1, StoreAssumption DEF StoreInvariant
<1>3. m = PrepareAppend(l, size).log
  BY <1>1, ZenonT(30) DEF AppendRefused, AppendRecord
<1>4. LogShape(m) /\ DurableKept(l.disk, m.disk) /\ NoNewRecords(l.disk, m.disk)
  BY <1>2, <1>3, PrepareShape, PrepareKeeps, ZenonT(30)
<1>5. CountOK(m) /\ (Undamaged(l) => Undamaged(m))
  BY <1>2, <1>3, PrepareOK, SMTT(30)
<1>6. Numbered(m.disk, records)
  BY <1>2, <1>4, NumberedKept DEF LogShape
<1>7. DurableRecords(l.disk) \subseteq DurableRecords(m.disk)
  BY <1>2, <1>4, DurableGrows, ZenonT(30) DEF LogShape
<1>8. UNCHANGED <<manifest, up, records, acked, history, runs, failures, spilled>> /\ up
  BY Zenon DEF AppendRefused
<1>9. RangesOK'
  <2>1. refusals' \in 0..MaxRefusals
    BY StoreAssumption DEF AppendRefused, StoreInvariant, RangesOK
  <2>2. QED
    BY <1>8, <2>1, ZenonT(30) DEF StoreInvariant, RangesOK
<1>10. failures' = 0 /\ history' = "whole" => Undamaged(m)
  BY <1>1, <1>5, <1>8, Zenon DEF StoreInvariant
<1>11. acked' \subseteq DurableRecords(m.disk)
  BY <1>1, <1>7, <1>8, ZenonT(30) DEF StoreInvariant
<1>12. QED
  BY <1>1, <1>4, <1>5, <1>6, <1>8, <1>9, <1>10, <1>11, ZenonT(30) DEF StoreInvariant

\* append() whose write fails.
LEMMA AppendFailedStep ==
  ASSUME StoreInvariant, NEW size \in Sizes, AppendFailed(size)
  PROVE  StoreInvariant'
<1>1. PICK l, p, m : l = log /\ p = PrepareAppend(l, size).log /\ m = log'
  BY Zenon
<1>2. LogShape(l) /\ CountOK(l) /\ Numbered(l.disk, records) /\ size \in Nat
  BY <1>1, StoreAssumption DEF StoreInvariant
<1>3. m \in FailedWrites(p, size)
  BY <1>1, ZenonT(30) DEF AppendFailed
<1>4. LogShape(p) /\ p.file # 0 /\ DurableKept(l.disk, p.disk) /\ NoNewRecords(l.disk, p.disk)
  BY <1>1, <1>2, PrepareShape, PrepareKeeps, ZenonT(30)
<1>5. LogShape(m) /\ DurableKept(p.disk, m.disk) /\ NoNewRecords(p.disk, m.disk)
  BY <1>3, <1>4, FailedShape, FailedKeeps, SMTT(30)
<1>6. DurableKept(l.disk, m.disk) /\ NoNewRecords(l.disk, m.disk)
  BY <1>2, <1>4, <1>5, KeepsTwice, ZenonT(30) DEF LogShape
<1>7. CountOK(m)
  <2>1. CountOK(p) /\ m.segment_records = p.segment_records
    BY <1>1, <1>2, <1>3, <1>4, PrepareOK, FailedShape
  <2>2. QED
    BY <2>1, ZenonT(30) DEF CountOK
<1>8. Numbered(m.disk, records)
  BY <1>2, <1>5, <1>6, NumberedKept DEF LogShape
<1>9. DurableRecords(l.disk) \subseteq DurableRecords(m.disk)
  BY <1>2, <1>5, <1>6, DurableGrows, ZenonT(30) DEF LogShape
<1>10. UNCHANGED <<manifest, up, records, acked, runs, refusals>> /\ up /\ history' = Damaged /\ failures' = failures + 1
       /\ failures < MaxFailures /\ spilled' = spilled + IF m = p THEN 0 ELSE size
  BY <1>1, Zenon DEF AppendFailed
<1>11. failures \in Nat /\ failures' \in 0..MaxFailures /\ failures' # 0 /\ spilled' \in Nat
  BY <1>2, <1>10, StoreAssumption DEF StoreInvariant, RangesOK
<1>12. RangesOK'
  BY <1>10, <1>11, Zenon DEF StoreInvariant, RangesOK, Damaged
<1>13. acked' \subseteq DurableRecords(m.disk)
  BY <1>1, <1>9, <1>10, Zenon DEF StoreInvariant
<1>14. QED
  BY <1>1, <1>5, <1>7, <1>8, <1>10, <1>11, <1>12, <1>13 DEF StoreInvariant

\* sync(): every record of the directory is durable when it returns.
LEMMA SyncStep ==
  ASSUME StoreInvariant, Sync
  PROVE  StoreInvariant'
<1>1. PICK l, m : l = log /\ m = log'
  OBVIOUS
<1>2. LogShape(l) /\ CountOK(l) /\ Numbered(l.disk, records) /\ m = SyncLog(l)
  BY <1>1, Zenon DEF StoreInvariant, Sync
<1>3. /\ LogShape(m) /\ DurableRecords(m.disk) = WrittenRecords(m.disk)
      /\ DurableKept(l.disk, m.disk) /\ NoNewRecords(l.disk, m.disk)
  BY <1>2, SyncedIsDurable
<1>4. CountOK(m) /\ (Undamaged(l) => Undamaged(m))
  BY <1>2, SyncOK
<1>5. Numbered(m.disk, records)
  BY <1>2, <1>3, NumberedKept, ZenonT(30) DEF LogShape
<1>6. DurableRecords(l.disk) \subseteq DurableRecords(m.disk)
  BY <1>2, <1>3, DurableGrows, ZenonT(30) DEF LogShape
<1>7. UNCHANGED <<manifest, up, records, history, runs, failures, spilled, refusals>> /\ up
      /\ acked' = acked \cup WrittenRecords(m.disk)
  BY <1>1, ZenonT(30) DEF Sync
<1>8. RangesOK'
  BY <1>7, ZenonT(30) DEF StoreInvariant, RangesOK
<1>9. failures' = 0 /\ history' = "whole" => Undamaged(m)
  BY <1>1, <1>4, <1>7 DEF StoreInvariant
<1>10. acked' \subseteq DurableRecords(m.disk)
  BY <1>1, <1>3, <1>6, <1>7 DEF StoreInvariant
<1>11. QED
  BY <1>1, <1>3, <1>4, <1>5, <1>7, <1>8, <1>9, <1>10, ZenonT(30) DEF StoreInvariant

\* close(): footer, flush, and nothing open.
LEMMA CloseStep ==
  ASSUME StoreInvariant, Close
  PROVE  StoreInvariant'
<1>1. PICK l, m : l = log /\ m = log'
  OBVIOUS
<1>2. LogShape(l) /\ CountOK(l) /\ Numbered(l.disk, records) /\ m = CloseLog(l)
  BY <1>1, Zenon DEF StoreInvariant, Close
<1>3. /\ LogShape(m) /\ DurableRecords(m.disk) = WrittenRecords(m.disk)
      /\ DurableKept(l.disk, m.disk) /\ NoNewRecords(l.disk, m.disk)
  BY <1>2, SyncedIsDurable
<1>4. m.file = 0 /\ CountOK(m) /\ (Undamaged(l) => Undamaged(m))
  <2>1. CASE l.file = 0
    BY <1>2, <2>1, ZenonT(30) DEF CloseLog
  <2>2. CASE l.file # 0
    BY <1>2, <2>2, CloseOK, CloseShape, ZenonT(30) DEF CloseLog
  <2>3. QED
    BY <2>1, <2>2, ZenonT(30)
<1>5. Numbered(m.disk, records)
  BY <1>2, <1>3, NumberedKept DEF LogShape
<1>6. DurableRecords(l.disk) \subseteq DurableRecords(m.disk)
  BY <1>2, <1>3, DurableGrows DEF LogShape
<1>7. UNCHANGED <<manifest, records, history, runs, failures, spilled, refusals>> /\ up /\ up' = FALSE
      /\ acked' = acked \cup WrittenRecords(m.disk)
  BY <1>1, ZenonT(30) DEF Close
<1>8. RangesOK'
  BY <1>7, Zenon DEF StoreInvariant, RangesOK
<1>9. (failures' = 0 /\ history' = "whole" => Undamaged(m)) /\ (failures' = 0 /\ history' = "damaged" => FALSE)
  BY <1>1, <1>4, <1>7, ZenonT(30) DEF StoreInvariant
<1>10. acked' \subseteq DurableRecords(m.disk)
  BY <1>1, <1>3, <1>6, <1>7, ZenonT(30) DEF StoreInvariant
<1>11. manifest' = "good"
  BY <1>7, Zenon DEF StoreInvariant
<1>12. QED
  BY <1>1, <1>3, <1>4, <1>5, <1>7, <1>8, <1>9, <1>10, <1>11, SMTT(30) DEF StoreInvariant

\* A crash of the process or of the machine.
LEMMA CrashStep ==
  ASSUME StoreInvariant, Crash
  PROVE  StoreInvariant'
<1>1. PICK l, m : l = log /\ m = log'
  OBVIOUS
<1>2. PICK disk \in CrashedDisks(l.disk) : m = NewLog(disk)
  BY <1>1, ZenonT(30) DEF Crash
<1>3. LogShape(l) /\ CountOK(l) /\ Numbered(l.disk, records)
  BY <1>1, ZenonT(30) DEF StoreInvariant
<1>4. LogShape(m) /\ m.disk = disk /\ m.file = 0
  BY <1>2, <1>3, CrashShape
<1>5. DurableKept(l.disk, disk) /\ NoNewRecords(l.disk, disk) /\ IsSequence(disk)
  BY <1>2, <1>3, <1>4, CrashKeeps, ZenonT(30) DEF LogShape
<1>6. CountOK(m)
  BY <1>2, LogAssumption DEF NewLog, CountOK
<1>7. Numbered(m.disk, records)
  BY <1>3, <1>4, <1>5, NumberedKept, ZenonT(30) DEF LogShape
<1>8. DurableRecords(l.disk) \subseteq DurableRecords(m.disk)
  BY <1>3, <1>4, <1>5, DurableGrows, ZenonT(30) DEF LogShape
<1>9. UNCHANGED <<manifest, records, acked, runs, failures, spilled, refusals>> /\ up /\ up' = FALSE /\ history' = Damaged
  BY Zenon DEF Crash
<1>10. RangesOK'
  BY <1>9, Zenon DEF StoreInvariant, RangesOK, Damaged
<1>11. failures' = 0 /\ history' = "damaged" => Whole(m.disk)
  <2>1. history = "damaged" /\ failures = 0 => FALSE
    BY <1>9, ZenonT(30) DEF StoreInvariant
  <2>2. Undamaged(l) => Whole(m.disk)
    BY <1>2, <1>3, <1>4, CrashOK, ZenonT(30)
  <2>3. QED
    BY <1>1, <1>9, <2>1, <2>2, ZenonT(30) DEF StoreInvariant, Damaged, RangesOK
<1>12. history' # "whole"
  BY <1>9, ZenonT(30) DEF StoreInvariant, Damaged, RangesOK
<1>13. acked' \subseteq DurableRecords(m.disk) /\ manifest' = "good"
  BY <1>1, <1>8, <1>9 DEF StoreInvariant
<1>14. QED
  BY <1>1, <1>4, <1>6, <1>7, <1>9, <1>10, <1>11, <1>12, <1>13, ZenonT(30) DEF StoreInvariant

\* The inductive invariant of the store.
THEOREM StoreInvariantHolds == Spec => []StoreInvariant
<1>1. Init => StoreInvariant
  BY StoreInit, Zenon
<1>2. StoreInvariant /\ [Next]_vars => StoreInvariant'
  <2> SUFFICES ASSUME StoreInvariant, [Next]_vars PROVE StoreInvariant'
    BY Zenon
  <2>1. CASE UNCHANGED vars
    BY <2>1, Zenon DEF vars, StoreInvariant, RangesOK
  <2>2. CASE Next
    BY <2>2, OpenStep, OpenCrashStep, SyncStep, CloseStep, CrashStep, AppendOkStep, AppendRefusedStep,
       AppendFailedStep DEF Next
  <2>3. QED
    BY <2>1, <2>2, ZenonT(30)
<1>3. QED
  BY <1>1, <1>2, PTL DEF Spec

-----------------------------------------------------------------------------
(* What the reader makes of the directory.                                  *)

\* What is read from a segment are records of it, in the order of its frames.
LEMMA ReadIsRecorded ==
  ASSUME NEW segment, SegmentShape(segment)
  PROVE  /\ IsSequence(SegmentRecords(segment))
         /\ \A a \in 1..Len(SegmentRecords(segment)) :
              a + 1 \in RecordsOf(segment) /\ SegmentRecords(segment)[a] = segment.frames[a + 1].payload
<1>1. IsSequence(segment.frames) /\ Len(segment.frames) \in Nat
  BY SequenceFacts, Zenon DEF SegmentShape
<1>2. CASE ~HasHeader(segment)
  <2>1. SegmentRecords(segment) = <<>> /\ Len(<<>>) = 0 /\ IsSequence(<<>>) /\ \A a \in 1..0 : FALSE
    BY <1>1, <1>2, RecordsFacts, NoElements
  <2>2. QED
    BY <2>1, Zenon
<1>3. CASE HasHeader(segment)
  <2>1. /\ IsSequence(SegmentRecords(segment)) /\ Len(SegmentRecords(segment)) = RecordRun(segment)
        /\ \A a \in 1..RecordRun(segment) : SegmentRecords(segment)[a] = segment.frames[a + 1].payload
    BY <1>1, <1>3, RecordsFacts
  <2>2. RunsTo(segment, RecordRun(segment))
    BY <1>1, <1>3, RunFacts, ZenonT(30) DEF HasHeader
  <2>3. \A a \in 1..RecordRun(segment) : a + 1 \in 2..(RecordRun(segment) + 1) /\ a + 1 \in 1..Len(segment.frames)
    BY <1>1, <2>2 DEF RunsTo
  <2>4. \A a \in 1..RecordRun(segment) : a + 1 \in RecordsOf(segment)
    BY <2>2, <2>3 DEF RunsTo, RecordsOf
  <2>5. QED
    BY <2>1, <2>4, ZenonT(30)
<1>4. QED
  BY <1>2, <1>3, ZenonT(30)

\* The same, for a member of what is read.
LEMMA ReadMember ==
  ASSUME NEW segment, SegmentShape(segment), NEW x \in Range(SegmentRecords(segment))
  PROVE  \E j \in RecordsOf(segment) : x = segment.frames[j].payload
<1>1. IsSequence(SegmentRecords(segment)) /\ DOMAIN SegmentRecords(segment) = 1..Len(SegmentRecords(segment))
  BY ReadIsRecorded, SequenceFacts, ZenonT(30)
<1>2. PICK a \in 1..Len(SegmentRecords(segment)) : x = SegmentRecords(segment)[a]
  BY <1>1, Zenon DEF Range
<1>3. QED
  BY <1>2, ReadIsRecorded

\* A record that only records separate from the header is read.
LEMMA RunReaches ==
  ASSUME NEW segment, SegmentShape(segment), HasHeader(segment), NEW j \in RecordsOf(segment),
         \A k \in 2..j : segment.frames[k].kind = "record"
  PROVE  segment.frames[j].payload \in Range(SegmentRecords(segment))
<1>1. IsSequence(segment.frames) /\ Len(segment.frames) \in Nat /\ segment.frames # <<>>
  BY SequenceFacts, ZenonT(30) DEF SegmentShape, HasHeader
<1>2. j \in 1..Len(segment.frames) /\ segment.frames[j].kind = "record" /\ j # 1
  BY Zenon DEF RecordsOf, HasHeader
<1>3. PICK run : run = RecordRun(segment)
  BY Zenon
<1>4. RunsTo(segment, run)
  BY <1>1, <1>3, RunFacts
<1>5. run \in Nat /\ run <= Len(segment.frames) - 1 /\ (run = Len(segment.frames) - 1 \/ segment.frames[run + 2].kind # "record")
  BY <1>1, <1>4 DEF RunsTo
<1>6. j - 1 \in 1..run /\ (j - 1) + 1 = j
  <2>1. CASE run + 2 \in 2..j
    <3>1. segment.frames[run + 2].kind = "record"
      BY <2>1, ZenonT(30)
    <3>2. run = Len(segment.frames) - 1
      BY <1>5, <3>1, ZenonT(30)
    <3>3. QED
      BY <1>1, <1>2, <2>1, <3>2
  <2>2. CASE run + 2 \notin 2..j
    BY <1>1, <1>2, <1>5, <2>2, SMTT(30)
  <2>3. QED
    BY <2>1, <2>2, ZenonT(30)
<1>7. /\ IsSequence(SegmentRecords(segment)) /\ Len(SegmentRecords(segment)) = run
      /\ SegmentRecords(segment)[j - 1] = segment.frames[j].payload
  BY <1>1, <1>3, <1>6, RecordsFacts, ZenonT(30)
<1>8. j - 1 \in DOMAIN SegmentRecords(segment)
  BY <1>6, <1>7, SequenceFacts, ZenonT(30)
<1>9. QED
  BY <1>7, <1>8 DEF Range

\* The reader returns every record of a segment that does not stop it.
LEMMA PassedIsRead ==
  ASSUME NEW segment, SegmentShape(segment), ~StopsReading(segment), NEW j \in RecordsOf(segment)
  PROVE  segment.frames[j].payload \in Range(SegmentRecords(segment))
<1>1. HasHeader(segment) /\ (EndsInFooter(segment) \/ (EndsUnclosed(segment) /\ RecordRun(segment) = 0))
  BY Zenon DEF StopsReading
<1>2. IsSequence(segment.frames) /\ Len(segment.frames) \in Nat /\ segment.frames # <<>>
  BY <1>1, SequenceFacts DEF SegmentShape, HasHeader
<1>3. PICK run : run = RecordRun(segment)
  BY Zenon
<1>4. RunsTo(segment, run)
  BY <1>2, <1>3, RunFacts, ZenonT(30)
<1>5. run \in Nat /\ \A i \in 2..(run + 1) : segment.frames[i].kind = "record"
  BY <1>2, <1>4 DEF RunsTo
<1>6. j \in 1..Len(segment.frames) /\ segment.frames[j].kind = "record" /\ j # 1
  BY <1>1, ZenonT(30) DEF RecordsOf, HasHeader
<1>7. CASE EndsInFooter(segment)
  <2>1. run + 2 <= Len(segment.frames) /\ segment.frames[run + 2].kind = "footer"
    BY <1>3, <1>7, ZenonT(30) DEF EndsInFooter
  <2>2. run + 2 = Len(segment.frames)
    BY <1>2, <1>5, <2>1 DEF SegmentShape
  <2>3. j # run + 2
    BY <1>6, <2>1, ZenonT(30)
  <2>4. \A k \in 2..j : k \in 2..(run + 1)
    BY <1>2, <1>5, <1>6, <2>2, <2>3, SMTT(30)
  <2>5. QED
    BY <1>1, <1>5, <2>4, RunReaches, ZenonT(30)
<1>8. CASE EndsUnclosed(segment) /\ RecordRun(segment) = 0
  <2>1. 2 > Len(segment.frames) \/ (2 = Len(segment.frames) /\ segment.frames[2].kind = "torn_head")
    BY <1>8 DEF EndsUnclosed
  <2>2. QED
    BY <1>2, <1>6, <2>1
<1>9. QED
  BY <1>1, <1>7, <1>8, ZenonT(30)

\* In an undamaged directory no file but the last stops the reader, and every record is read.
LEMMA WholeIsRead ==
  ASSUME NEW disk, IsSequence(disk), \A i \in 1..Len(disk) : SegmentShape(disk[i]), Whole(disk),
         NEW i \in 1..Len(disk)
  PROVE  /\ i < Len(disk) => ~StopsReading(disk[i])
         /\ \A j \in RecordsOf(disk[i]) : disk[i].frames[j].payload \in Range(SegmentRecords(disk[i]))
<1>1. PICK segment : segment = disk[i]
  BY Zenon
<1>2. SegmentShape(segment) /\ Tidy(segment) /\ (i < Len(disk) => FooterEnds(segment))
  BY <1>1, ZenonT(30) DEF Whole
<1>3. IsSequence(segment.frames) /\ Len(segment.frames) \in Nat
  BY <1>2, SequenceFacts, ZenonT(30) DEF SegmentShape
<1>4. ASSUME i < Len(disk) PROVE ~StopsReading(segment)
  <2>1. Len(segment.frames) > 1 /\ segment.frames[Len(segment.frames)].kind = "footer"
    BY <1>2, <1>4 DEF FooterEnds
  <2>2. HasHeader(segment)
    <3>1. segment.frames # <<>>
      BY <2>1, NoElements
    <3>2. QED
      BY <1>2, <2>1, <3>1, ZenonT(30) DEF Tidy, HasHeader
  <2>3. PICK run : run = Len(segment.frames) - 2
    BY Zenon
  <2>4. run \in Nat /\ run + 2 = Len(segment.frames)
    BY <1>3, <2>1, <2>3
  <2>5. RunsTo(segment, run)
    <3>1. \A k \in 2..(run + 1) : k \in 1..Len(segment.frames) /\ k > 1 /\ k < Len(segment.frames)
      BY <1>3, <2>4
    <3>2. run \in 0..(Len(segment.frames) - 1)
      BY <1>3, <2>4
    <3>3. QED
      BY <1>2, <2>1, <2>4, <3>1, <3>2, ZenonT(30) DEF Tidy, RunsTo
  <2>6. RecordRun(segment) = run
    BY <1>3, <2>2, <2>5, RunFacts DEF HasHeader
  <2>7. EndsInFooter(segment)
    BY <1>3, <2>1, <2>4, <2>6, SMTT(30) DEF EndsInFooter
  <2>8. QED
    BY <2>2, <2>7, ZenonT(30) DEF StopsReading
<1>5. ASSUME NEW j \in RecordsOf(segment) PROVE segment.frames[j].payload \in Range(SegmentRecords(segment))
  <2>1. j \in 1..Len(segment.frames) /\ segment.frames[j].kind = "record"
    BY Zenon DEF RecordsOf
  <2>2. segment.frames # <<>>
    BY <1>3, <2>1, NoElements
  <2>3. j # 1 /\ Len(segment.frames) > 1
    BY <1>2, <1>3, <2>1, <2>2 DEF SegmentShape, TornKinds
  <2>4. HasHeader(segment)
    BY <1>2, <2>2, <2>3 DEF Tidy, HasHeader
  <2>5. \A k \in 2..j : (k \in 1..Len(segment.frames) /\ k > 1 /\ k < Len(segment.frames)) \/ k = j
    BY <1>3, <2>1
  <2>6. \A k \in 2..j : segment.frames[k].kind = "record"
    BY <1>2, <2>1, <2>5 DEF Tidy
  <2>7. QED
    BY <1>2, <2>4, <2>6, RunReaches
<1>6. QED
  BY <1>1, <1>4, <1>5, ZenonT(30)

\* What the reader returns grows along the directory.
Grows(s) == \A a, b \in 1..Len(s) : a < b => s[a] < s[b]

\* Reading one more segment keeps the order: its records come after all those read before.
LEMMA GrowsFurther ==
  ASSUME NEW disk, IsSequence(disk), \A i \in 1..Len(disk) : SegmentShape(disk[i]), NEW top, Numbered(disk, top),
         NEW n \in 1..Len(disk), Grows(ReadUpTo(disk, n - 1))
  PROVE  Grows(ReadUpTo(disk, n))
<1>1. PICK f, g, u : f = ReadUpTo(disk, n - 1) /\ g = SegmentRecords(disk[n]) /\ u = ReadUpTo(disk, n)
  BY Zenon
<1>2. Len(disk) \in Nat /\ n - 1 \in 0..Len(disk) /\ n \in Nat /\ \A i \in 1..(n - 1) : i \in 1..Len(disk) /\ i < n
  BY SequenceFacts
<1>3. IsDisk(disk) /\ \A i \in 1..Len(disk) : IsSequence(SegmentRecords(disk[i]))
  <2>1. ASSUME NEW i \in 1..Len(disk) PROVE IsSequence(disk[i].frames)
    <3>1. PICK segment : segment = disk[i]
      BY ZenonT(30)
    <3>2. SegmentShape(segment)
      BY <3>1, ZenonT(30)
    <3>3. QED
      BY <3>1, <3>2 DEF SegmentShape
  <2>2. QED
    BY <2>1, ReadIsRecorded, SMTT(30) DEF IsDisk
<1>4. u = f \o g
  BY <1>1, <1>2, <1>3, ReadUpToSteps, ZenonT(30)
<1>5. IsSequence(f) /\ IsSequence(g) /\ \A x : x \in Range(f) <=> \E i \in 1..(n - 1) : x \in Range(SegmentRecords(disk[i]))
  BY <1>1, <1>2, <1>3, ReadUpToMembers, ZenonT(30)
<1>6. Len(f) \in Nat /\ Len(g) \in Nat /\ DOMAIN f = 1..Len(f)
  BY <1>5, SequenceFacts
<1>7. /\ Len(u) = Len(f) + Len(g) /\ \A a \in 1..Len(f) : u[a] = f[a]
      /\ \A b \in 1..Len(g) : u[Len(f) + b] = g[b]
  BY <1>4, <1>5, ConcatFacts, SMTT(30)
<1>8. \A b \in 1..Len(g) : b + 1 \in RecordsOf(disk[n]) /\ g[b] = disk[n].frames[b + 1].payload
  BY <1>1, ReadIsRecorded, ZenonT(30)
<1>9. ASSUME NEW a \in 1..Len(f), NEW b \in 1..Len(g) PROVE f[a] < g[b]
  <2>1. f[a] \in Range(f)
    BY <1>6, ZenonT(30) DEF Range
  <2>2. PICK i \in 1..(n - 1) : f[a] \in Range(SegmentRecords(disk[i]))
    BY <1>5, <2>1, ZenonT(30)
  <2>3. i \in 1..Len(disk) /\ i < n
    BY <1>2, ZenonT(30)
  <2>4. PICK j \in RecordsOf(disk[i]) : f[a] = disk[i].frames[j].payload
    BY <2>2, <2>3, ReadMember, ZenonT(30)
  <2>5. QED
    BY <1>8, <2>3, <2>4, Zenon DEF Numbered
<1>10. ASSUME NEW a \in 1..Len(g), NEW b \in 1..Len(g), a < b PROVE g[a] < g[b]
  <2>1. a + 1 < b + 1
    BY <1>10
  <2>2. QED
    BY <1>8, <2>1, ZenonT(30) DEF Numbered
<1>11. ASSUME NEW a \in 1..Len(u), NEW b \in 1..Len(u), a < b PROVE u[a] < u[b]
  <2>1. CASE b \in 1..Len(f)
    <3>1. a \in 1..Len(f)
      BY <1>6, <1>11, <2>1
    <3>2. QED
      BY <1>1, <1>7, <1>11, <2>1, <3>1 DEF Grows
  <2>2. CASE b \notin 1..Len(f)
    <3>1. PICK e : e = b - Len(f)
      OBVIOUS
    <3>2. e \in 1..Len(g) /\ b = Len(f) + e
      BY <1>6, <1>7, <2>2, <3>1
    <3>3. CASE a \in 1..Len(f)
      BY <1>7, <1>9, <3>2, <3>3, ZenonT(30)
    <3>4. CASE a \notin 1..Len(f)
      <4>1. PICK d : d = a - Len(f)
        BY Zenon
      <4>2. d \in 1..Len(g) /\ a = Len(f) + d /\ d < e
        BY <1>6, <1>7, <1>11, <3>2, <3>4, <4>1
      <4>3. QED
        BY <1>7, <1>10, <3>2, <4>2, ZenonT(30)
    <3>5. QED
      BY <3>3, <3>4, ZenonT(30)
  <2>3. QED
    BY <2>1, <2>2, ZenonT(30)
<1>12. QED
  BY <1>1, <1>11 DEF Grows

\* So everything that is read is in the order of the record numbers.
LEMMA ReadGrows ==
  ASSUME NEW disk, IsSequence(disk), \A i \in 1..Len(disk) : SegmentShape(disk[i]), NEW top, Numbered(disk, top)
  PROVE  \A n \in 0..Len(disk) : Grows(ReadUpTo(disk, n))
<1> DEFINE S == {n \in 0..Len(disk) : Grows(ReadUpTo(disk, n))}
<1>1. Len(disk) \in Nat
  BY SequenceFacts, ZenonT(30)
<1>2. 0 \in S
  <2>1. 0 \in Nat /\ Len(<<>>) = 0 /\ \A i \in 1..0 : IsSequence(SegmentRecords(disk[i]))
    OBVIOUS
  <2>2. ReadUpTo(disk, 0) = <<>>
    BY <2>1, ReadUpToSteps, ZenonT(30)
  <2>3. Grows(ReadUpTo(disk, 0))
    BY <2>1, <2>2 DEF Grows
  <2>4. QED
    BY <1>1, <2>3
<1>3. ASSUME NEW n \in 0..Len(disk), n # Len(disk), n \in S PROVE n + 1 \in S
  <2>1. n + 1 \in 1..Len(disk) /\ (n + 1) - 1 = n /\ n + 1 \in 0..Len(disk)
    BY <1>1, <1>3
  <2>2. Grows(ReadUpTo(disk, n + 1))
    BY <1>3, <2>1, GrowsFurther, ZenonT(30)
  <2>3. QED
    BY <2>1, <2>2
<1> HIDE DEF S
<1>4. \A n \in 0..Len(disk) : n \in S
  BY <1>1, <1>2, <1>3, Reaches, Zenon
<1>5. QED
  BY <1>4, ZenonT(30) DEF S

\* When the reader passes every file but the last and reads all their records, it
\* recovers everything that is durable.
LEMMA AllRead ==
  ASSUME NEW l, LogShape(l),
         \A i \in 1..Len(l.disk) : i < Len(l.disk) => ~StopsReading(l.disk[i]),
         \A i \in 1..Len(l.disk) : \A j \in RecordsOf(l.disk[i]) :
           l.disk[i].frames[j].payload \in Range(SegmentRecords(l.disk[i]))
  PROVE  DurableRecords(l.disk) \subseteq Range(ReadAll(l.disk))
<1>1. PICK disk, n : disk = l.disk /\ n = SegmentsRead(l.disk)
  BY Zenon
<1>2. IsDisk(disk) /\ Len(disk) \in Nat
  BY <1>1, ShapeIsDisk, SequenceFacts, ZenonT(30) DEF IsDisk
<1>3. n \in 0..Len(disk) /\ (n = Len(disk) \/ StopsReading(disk[n])) /\ ReadAll(disk) = ReadUpTo(disk, n) /\ (n = 0 => Len(disk) = 0)
  BY <1>1, <1>2, ReadAllFacts, ZenonT(30)
<1>4. n = Len(disk)
  <2>1. CASE n # Len(disk)
    <3>1. n \in 1..Len(disk) /\ n < Len(disk) /\ StopsReading(disk[n])
      BY <1>2, <1>3, <2>1
    <3>2. QED
      BY <1>1, <3>1, ZenonT(30)
  <2>2. QED
    BY <2>1
<1>5. SUFFICES ASSUME NEW x \in DurableRecords(disk) PROVE x \in Range(ReadAll(disk))
  BY <1>1
<1>6. PICK i \in 1..Len(disk) : x \in RecordsWithin(disk[i], disk[i].durable)
  BY Zenon DEF DurableRecords
<1>7. x \in Range(SegmentRecords(disk[i]))
  BY <1>1, <1>6 DEF RecordsWithin
<1>8. QED
  BY <1>2, <1>3, <1>4, <1>6, <1>7, ReadUpToMembers, ZenonT(30)

-----------------------------------------------------------------------------
(* What the store promises.                                                 *)

\* The counters and flags of the writer stay in range, and only numbers that append()
\* gave out are ever acknowledged.
THEOREM StoreTypes == Spec => []TypeOK
<1>1. StoreInvariant => TypeOK
  <2> SUFFICES ASSUME StoreInvariant PROVE TypeOK
    BY Zenon
  <2>1. PICK l, top : l = log /\ top = records
    BY Zenon
  <2>2. LogShape(l) /\ CountOK(l) /\ Numbered(l.disk, top) /\ acked \subseteq DurableRecords(l.disk) /\ RangesOK
    BY <2>1, ZenonT(30) DEF StoreInvariant
  <2>3. Len(l.disk) \in Nat /\ l.file \in 0..Len(l.disk)
    BY <2>2, SequenceFacts DEF LogShape
  <2>4. l.segment_records \in 0..MaxSegmentRecords
    BY <2>2, LogAssumption DEF LogShape, CountOK
  <2>5. ASSUME NEW i \in 1..Len(l.disk) PROVE l.disk[i].durable \in 0..Len(l.disk[i].frames)
    <3>1. PICK segment : segment = l.disk[i]
      BY Zenon
    <3>2. SegmentShape(segment)
      BY <2>2, <3>1, ZenonT(30) DEF LogShape
    <3>3. QED
      BY <3>1, <3>2, ZenonT(30) DEF SegmentShape
  <2>6. ASSUME NEW x \in DurableRecords(l.disk) PROVE x \in 1..top
    <3>1. PICK i \in 1..Len(l.disk) : x \in RecordsWithin(l.disk[i], l.disk[i].durable)
      BY Zenon DEF DurableRecords
    <3>2. PICK j \in RecordsOf(l.disk[i]) : x = l.disk[i].frames[j].payload
      BY <3>1, ZenonT(30) DEF RecordsWithin
    <3>3. QED
      BY <2>2, <3>2, ZenonT(30) DEF Numbered
  <2>7. acked \subseteq 1..top
    BY <2>2, <2>6, ZenonT(30)
  <2>8. QED
    BY <2>1, <2>2, <2>3, <2>4, <2>5, <2>7, ZenonT(30) DEF TypeOK, RangesOK
<1>2. QED
  BY <1>1, StoreInvariantHolds, PTL

\* open() flushes the manifest before the first append, so a store that holds an
\* acknowledged record can be opened.
THEOREM AckedStoresOpen == Spec => []AckedStoreOpens
<1>1. StoreInvariant => AckedStoreOpens
  BY ZenonT(30) DEF StoreInvariant, AckedStoreOpens
<1>2. QED
  BY <1>1, StoreInvariantHolds, PTL

\* read_all returns records in the order in which append() accepted them, none twice.
THEOREM RecoveryKeepsWriteOrder == Spec => []RecoveredInWriteOrder
<1>1. StoreInvariant => RecoveredInWriteOrder
  <2> SUFFICES ASSUME StoreInvariant PROVE RecoveredInWriteOrder
    OBVIOUS
  <2>1. PICK l, top : l = log /\ top = records
    OBVIOUS
  <2>2. LogShape(l) /\ Numbered(l.disk, top)
    BY <2>1, ZenonT(30) DEF StoreInvariant
  <2>3. ReadAll(l.disk) = ReadUpTo(l.disk, SegmentsRead(l.disk)) /\ SegmentsRead(l.disk) \in 0..Len(l.disk)
    BY <2>2, ShapeIsDisk, ReadAllFacts, ZenonT(30)
  <2>4. Grows(ReadAll(l.disk))
    BY <2>2, <2>3, ReadGrows, ZenonT(30) DEF LogShape
  <2>5. QED
    BY <2>1, <2>4, ZenonT(30) DEF Grows, RecoveredInWriteOrder
<1>2. QED
  BY <1>1, StoreInvariantHolds, PTL

\* When the recovery report is clean, every acknowledged record was recovered.
THEOREM LossesAreReported == Spec => []AckedLossIsReported
<1>1. StoreInvariant => AckedLossIsReported
  <2> SUFFICES ASSUME StoreInvariant, CleanRecovery(log.disk) PROVE acked \subseteq Recovered
    BY Zenon DEF AckedLossIsReported
  <2>1. PICK l : l = log
    BY Zenon
  <2>2. LogShape(l) /\ acked \subseteq DurableRecords(l.disk)
    BY <2>1 DEF StoreInvariant
  <2>3. \A i \in 1..Len(l.disk) : SegmentShape(l.disk[i]) /\ ~StopsReading(l.disk[i])
    BY <2>1, <2>2, ZenonT(30) DEF CleanRecovery, LogShape
  <2>4. \A i \in 1..Len(l.disk) : \A j \in RecordsOf(l.disk[i]) :
          l.disk[i].frames[j].payload \in Range(SegmentRecords(l.disk[i]))
    BY <2>3, PassedIsRead, ZenonT(30)
  <2>5. DurableRecords(l.disk) \subseteq Range(ReadAll(l.disk))
    BY <2>2, <2>3, <2>4, AllRead, ZenonT(30)
  <2>6. QED
    BY <2>1, <2>2, <2>5, ZenonT(30) DEF Recovered
<1>2. QED
  BY <1>1, StoreInvariantHolds, PTL

\* Until a damaged store is opened again, a crash costs only what was not synced: rotation
\* ends every file but the last in its footer, so the reader gets to the last one.
THEOREM CrashesLoseOnlyUnsynced == Spec => []CrashLosesOnlyUnsynced
<1>1. StoreInvariant => CrashLosesOnlyUnsynced
  <2> SUFFICES ASSUME StoreInvariant, history # "reopened", failures = 0 PROVE acked \subseteq Recovered
    BY Zenon DEF CrashLosesOnlyUnsynced
  <2>1. PICK l : l = log
    BY Zenon
  <2>2. LogShape(l) /\ acked \subseteq DurableRecords(l.disk)
    BY <2>1, ZenonT(30) DEF StoreInvariant
  <2>3. Whole(l.disk)
    BY <2>1, ZenonT(30) DEF StoreInvariant, RangesOK, Undamaged
  <2>4. IsSequence(l.disk) /\ \A i \in 1..Len(l.disk) : SegmentShape(l.disk[i])
    BY <2>2, ZenonT(30) DEF LogShape
  <2>5. \A i \in 1..Len(l.disk) :
          /\ i < Len(l.disk) => ~StopsReading(l.disk[i])
          /\ \A j \in RecordsOf(l.disk[i]) : l.disk[i].frames[j].payload \in Range(SegmentRecords(l.disk[i]))
    BY <2>3, <2>4, WholeIsRead, ZenonT(30)
  <2>6. DurableRecords(l.disk) \subseteq Range(ReadAll(l.disk))
    BY <2>2, <2>5, AllRead, ZenonT(30)
  <2>7. QED
    BY <2>1, <2>2, <2>6 DEF Recovered
<1>2. QED
  BY <1>1, StoreInvariantHolds, PTL

\* Every step of the store keeps what is durable.
LEMMA StepKeepsDurable ==
  ASSUME StoreInvariant, [Next]_vars
  PROVE  DurableKept(log.disk, log'.disk)
<1>1. PICK l, m : l = log /\ m = log'
  BY Zenon
<1>2. LogShape(l) /\ DurableKept(l.disk, l.disk)
  BY <1>1, SameKeeps, ZenonT(30) DEF StoreInvariant, LogShape
<1>3. CASE m.disk = l.disk
  BY <1>1, <1>2, <1>3
<1>4. ASSUME NEW size \in Sizes, AppendOk(size) \/ AppendRefused(size) PROVE DurableKept(l.disk, m.disk)
  <2>1. m = AppendRecord(l, records + 1, size).log /\ size \in Nat
    BY <1>1, <1>4, StoreAssumption, ZenonT(30) DEF AppendOk, AppendRefused
  <2>2. QED
    BY <1>2, <2>1, AppendKeeps, ZenonT(30)
<1>5. ASSUME NEW size \in Sizes, AppendFailed(size) PROVE DurableKept(l.disk, m.disk)
  <2>1. PICK p : p = PrepareAppend(l, size).log
    BY Zenon
  <2>2. m \in FailedWrites(p, size) /\ size \in Nat
    BY <1>1, <1>5, <2>1, StoreAssumption, ZenonT(30) DEF AppendFailed
  <2>3. LogShape(p) /\ p.file # 0 /\ DurableKept(l.disk, p.disk)
    BY <1>2, <2>1, <2>2, PrepareShape, PrepareKeeps, ZenonT(30)
  <2>4. LogShape(m) /\ DurableKept(p.disk, m.disk)
    BY <2>2, <2>3, FailedShape, FailedKeeps, ZenonT(30)
  <2>5. QED
    BY <1>2, <2>3, <2>4, KeepsTwice, SMTT(30) DEF LogShape
<1>6. CASE Sync \/ Close
  <2>1. m = SyncLog(l) \/ m = CloseLog(l)
    BY <1>1, <1>6, ZenonT(30) DEF Sync, Close
  <2>2. QED
    BY <1>1, <1>2, <2>1, SyncedIsDurable, ZenonT(30)
<1>7. CASE Crash
  <2>1. PICK disk \in CrashedDisks(l.disk) : m = NewLog(disk)
    BY <1>1, <1>7, ZenonT(30) DEF Crash
  <2>2. m.disk = disk
    BY <2>1, ZenonT(30) DEF NewLog
  <2>3. QED
    BY <1>1, <1>2, <2>1, <2>2, CrashKeeps, ZenonT(30)
<1>8. CASE Open
  <2>1. m.disk = l.disk
    BY <1>1, <1>8, ZenonT(30) DEF Open, NewLog
  <2>2. QED
    BY <1>3, <2>1, ZenonT(30)
<1>9. CASE OpenCrash \/ UNCHANGED vars
  <2>1. m.disk = l.disk
    BY <1>1, <1>9, ZenonT(30) DEF OpenCrash, vars
  <2>2. QED
    BY <1>3, <2>1
<1>10. QED
  BY <1>1, <1>4, <1>5, <1>6, <1>7, <1>8, <1>9, ZenonT(30) DEF Next

\* No step rewrites or drops a durable frame, and none takes a file away.
THEOREM DurableFramesStay == Spec => DurableFramesKept
<1> DEFINE Kept(i) == /\ i <= Len(log'.disk)
                      /\ log.disk[i].durable <= Len(log'.disk[i].frames)
                      /\ \A j \in 1..log.disk[i].durable : log'.disk[i].frames[j] = log.disk[i].frames[j]
<1>1. ASSUME StoreInvariant, StoreInvariant', [Next]_vars
      PROVE  \A i \in 1..Len(log.disk) : Kept(i)
  <2>1. PICK a, b : a = log.disk /\ b = log'.disk
    BY Zenon
  <2>2. DurableKept(a, b)
    BY <1>1, <2>1, StepKeepsDurable, ZenonT(30)
  <2>3. /\ IsSequence(a) /\ \A i \in 1..Len(a) : SegmentShape(a[i])
        /\ IsSequence(b) /\ \A i \in 1..Len(b) : SegmentShape(b[i])
    BY <1>1, <2>1, SMTT(30) DEF StoreInvariant, LogShape
  <2>4. ASSUME NEW i \in 1..Len(a)
        PROVE  /\ i <= Len(b) /\ a[i].durable <= Len(b[i].frames)
               /\ \A j \in 1..a[i].durable : b[i].frames[j] = a[i].frames[j]
    <3>1. Len(a) \in Nat /\ Len(b) \in Nat /\ Len(a) <= Len(b) /\ KeepsDurable(a[i], b[i])
      BY <2>2, <2>3, SequenceFacts, ZenonT(30) DEF DurableKept
    <3>2. i \in 1..Len(b)
      BY <3>1
    <3>3. SegmentShape(a[i]) /\ SegmentShape(b[i])
      BY <2>3, <3>2, ZenonT(30)
    <3>4. PICK old, new : old = a[i] /\ new = b[i]
      BY Zenon
    <3>5. Len(old.frames) \in Nat /\ Len(new.frames) \in Nat
      BY <3>3, <3>4, SequenceFacts, ZenonT(30) DEF SegmentShape
    <3>6. old.durable \in Nat /\ new.durable \in Nat
      BY <3>3, <3>4, <3>5 DEF SegmentShape
    <3>7. old.durable <= Len(new.frames) /\ \A j \in 1..old.durable : new.frames[j] = old.frames[j]
      BY <3>1, <3>4, <3>5, <3>6 DEF KeepsDurable
    <3>8. QED
      BY <3>1, <3>2, <3>4, <3>7
  <2>5. QED
    BY <2>1, <2>4, ZenonT(30)
<1>2. StoreInvariant /\ StoreInvariant' /\ [Next]_vars => [\A i \in 1..Len(log.disk) : Kept(i)]_vars
  BY <1>1
<1>3. QED
  BY <1>2, StoreInvariantHolds, PTL DEF Spec, DurableFramesKept

-----------------------------------------------------------------------------
(* The records of a segment.                                                *)

\* segment_records counts the records of the open file, and no file has too many.
CountsOK(l) ==
  /\ \A i \in 1..Len(l.disk) : Cardinality(RecordsOf(l.disk[i])) <= MaxSegmentRecords
  /\ l.segment_records <= MaxSegmentRecords
  /\ l.file # 0 => Cardinality(RecordsOf(l.disk[l.file])) = l.segment_records

\* The records of a file can be counted.
LEMMA RecordsAreFinite ==
  ASSUME NEW segment, IsSequence(segment.frames)
  PROVE  IsFiniteSet(RecordsOf(segment)) /\ Cardinality(RecordsOf(segment)) \in Nat
<1>1. IsFiniteSet(1..Len(segment.frames))
  BY SequenceFacts, FS_Interval
<1>2. RecordsOf(segment) \subseteq 1..Len(segment.frames)
  BY Zenon DEF RecordsOf
<1>3. IsFiniteSet(RecordsOf(segment))
  BY <1>1, <1>2, FS_Subset, Zenon
<1>4. QED
  BY <1>3, FS_CardinalityType, ZenonT(30)

\* A step that writes no record keeps the counts within the limit.
LEMMA CountsKept ==
  ASSUME NEW l, LogShape(l), CountsOK(l), NEW disk, IsSequence(disk), NoNewRecords(l.disk, disk)
  PROVE  \A i \in 1..Len(disk) : Cardinality(RecordsOf(disk[i])) <= MaxSegmentRecords
<1> SUFFICES ASSUME NEW i \in 1..Len(disk) PROVE Cardinality(RecordsOf(disk[i])) <= MaxSegmentRecords
  BY Zenon
<1>1. CASE i \in 1..Len(l.disk)
  <2>1. RecordsOf(disk[i]) \subseteq RecordsOf(l.disk[i])
    BY <1>1, Zenon DEF NoNewRecords, NothingNew
  <2>2. IsSequence(l.disk[i].frames)
    BY <1>1, Zenon DEF LogShape, SegmentShape
  <2>3. IsFiniteSet(RecordsOf(l.disk[i])) /\ Cardinality(RecordsOf(l.disk[i])) \in Nat
    BY <2>2, RecordsAreFinite, Zenon
  <2>4. Cardinality(RecordsOf(disk[i])) <= Cardinality(RecordsOf(l.disk[i]))
    BY <2>1, <2>3, FS_Subset, ZenonT(30)
  <2>5. Cardinality(RecordsOf(disk[i])) \in Nat
    BY <2>1, <2>3, FS_Subset, FS_CardinalityType, ZenonT(30)
  <2>6. Cardinality(RecordsOf(l.disk[i])) <= MaxSegmentRecords
    BY <1>1, Zenon DEF CountsOK
  <2>7. QED
    BY <2>3, <2>4, <2>5, <2>6, LogAssumption
<1>2. CASE i \notin 1..Len(l.disk)
  <2>1. RecordsOf(disk[i]) = {}
    BY <1>2, Zenon DEF NoNewRecords
  <2>2. QED
    BY <2>1, FS_EmptySet, LogAssumption
<1>3. QED
  BY <1>1, <1>2, Zenon

\* A log that no process has open.
LEMMA NewCounts ==
  ASSUME NEW l, LogShape(l), CountsOK(l), NEW disk, IsSequence(disk), NoNewRecords(l.disk, disk), NEW m, m = NewLog(disk)
  PROVE  CountsOK(m)
<1>1. m.disk = disk /\ m.file = 0 /\ m.segment_records = 0
  BY Zenon DEF NewLog
<1>2. QED
  BY <1>1, CountsKept, LogAssumption DEF CountsOK

\* open_segment(): a file without records.
LEMMA OpenCounts ==
  ASSUME NEW l, LogShape(l), CountsOK(l), l.file = 0, NEW m, m = OpenSegment(l)
  PROVE  CountsOK(m)
<1>1. /\ LogShape(m) /\ m.file = Len(l.disk) + 1 /\ m.segment_records = 0
      /\ m.disk[m.file] = EmptySegment
  BY OpenShape DEF Longer
<1>2. EmptySegment.frames = <<HeaderFrame>> /\ Len(<<HeaderFrame>>) = 1 /\ <<HeaderFrame>>[1].kind = "header"
  BY OneElement, Zenon DEF EmptySegment, HeaderFrame, Frame
<1>3. \A j \in 1..1 : j = 1
  OBVIOUS
<1>4. RecordsOf(EmptySegment) = {}
  BY <1>2, <1>3, Zenon DEF RecordsOf
<1>5. NoNewRecords(l.disk, m.disk) /\ IsSequence(m.disk)
  BY <1>1, OpenKeeps, ZenonT(30) DEF LogShape
<1>6. \A i \in 1..Len(m.disk) : Cardinality(RecordsOf(m.disk[i])) <= MaxSegmentRecords
  BY <1>5, CountsKept, ZenonT(30)
<1>7. Cardinality(RecordsOf(m.disk[m.file])) = 0
  BY <1>1, <1>4, FS_EmptySet, SMTT(30)
<1>8. QED
  BY <1>1, <1>6, <1>7, LogAssumption DEF CountsOK

\* close_segment(): the footer is no record.
LEMMA CloseCounts ==
  ASSUME NEW l, LogShape(l), CountsOK(l), l.file # 0, NEW m, m = CloseSegment(l)
  PROVE  CountsOK(m)
<1>1. LogShape(m) /\ m.file = 0 /\ m.segment_records = l.segment_records /\ NoNewRecords(l.disk, m.disk)
  BY CloseShape, CloseKeeps, ZenonT(30)
<1>2. \A i \in 1..Len(m.disk) : Cardinality(RecordsOf(m.disk[i])) <= MaxSegmentRecords
  BY <1>1, CountsKept, Zenon DEF LogShape
<1>3. QED
  BY <1>1, <1>2, ZenonT(30) DEF CountsOK

\* sync(): the same frames.
LEMMA SyncCounts ==
  ASSUME NEW l, LogShape(l), CountsOK(l), l.file # 0, NEW m, m = SyncLog(l)
  PROVE  CountsOK(m)
<1>1. m.file = l.file /\ m.segment_records = l.segment_records
  BY SyncShape, Zenon
<1>2. PICK new : Flushed(l.disk[l.file], new) /\ Replaced(l.disk, l.file, new, m.disk)
  BY SyncShape, Zenon
<1>3. l.file \in 1..Len(l.disk)
  BY OpenFile, Zenon
<1>4. Len(m.disk) = Len(l.disk) /\ \A i \in 1..Len(l.disk) : m.disk[i].frames = l.disk[i].frames
  BY <1>2, <1>3, Zenon DEF Replaced, Flushed
<1>5. \A i \in 1..Len(l.disk) : RecordsOf(m.disk[i]) = RecordsOf(l.disk[i])
  BY <1>4, Zenon DEF RecordsOf
<1>6. QED
  BY <1>1, <1>3, <1>4, <1>5, ZenonT(30) DEF CountsOK

\* append() up to its write.
LEMMA PrepareCounts ==
  ASSUME NEW l, LogShape(l), CountsOK(l), NEW size \in Nat, NEW m, m = PrepareAppend(l, size).log
  PROVE  CountsOK(m)
<1>1. CASE m = l
  BY <1>1, Zenon
<1>2. CASE l.file = 0 /\ m = OpenSegment(l)
  BY <1>2, OpenCounts, Zenon
<1>3. CASE l.file # 0 /\ \E closed : closed = CloseSegment(l) /\ m = OpenSegment(closed)
  <2>1. PICK closed : closed = CloseSegment(l) /\ m = OpenSegment(closed)
    BY <1>3, Zenon
  <2>2. LogShape(closed) /\ closed.file = 0
    BY <1>3, <2>1, CloseShape, ZenonT(30)
  <2>3. CountsOK(closed)
    BY <1>3, <2>1, CloseCounts, Zenon
  <2>4. QED
    BY <2>1, <2>2, <2>3, OpenCounts, Zenon
<1>4. QED
  BY <1>1, <1>2, <1>3, PrepareCases

\* The write of append(), after the test that keeps a segment within its limits.
LEMMA RecordCounts ==
  ASSUME NEW l, LogShape(l), CountsOK(l), l.file # 0, NEW payload, NEW size \in Nat, ~NeedsRotation(l, size),
         NEW m, m = WriteRecord(l, payload, size)
  PROVE  CountsOK(m)
<1>1. m.file = l.file /\ m.segment_records = l.segment_records + 1
  BY RecordShape
<1>2. PICK new : Written(l.disk[l.file], Frame("record", payload, size), new) /\ Replaced(l.disk, l.file, new, m.disk)
  BY RecordShape, Zenon
<1>3. PICK old : old = l.disk[l.file]
  BY Zenon
<1>4. l.file \in 1..Len(l.disk) /\ SegmentShape(old)
  BY <1>3, OpenFile, Zenon
<1>5. Len(m.disk) = Len(l.disk) /\ m.disk[l.file] = new /\ \A i \in 1..Len(l.disk) : i # l.file => m.disk[i] = l.disk[i]
  BY <1>2, ZenonT(30) DEF Replaced
<1>6. RecordsOf(new) = RecordsOf(old) \cup {Len(old.frames) + 1} /\ Len(old.frames) + 1 \notin RecordsOf(old)
  BY <1>2, <1>3, <1>4, RecordWritten
<1>7. IsFiniteSet(RecordsOf(old)) /\ Cardinality(RecordsOf(old)) \in Nat
  BY <1>4, RecordsAreFinite, Zenon DEF SegmentShape
<1>8. Cardinality(RecordsOf(new)) = Cardinality(RecordsOf(old)) + 1
  BY <1>6, <1>7, FS_AddElement, Zenon
<1>9. Cardinality(RecordsOf(old)) = l.segment_records
  BY <1>3, ZenonT(30) DEF CountsOK
<1>10. l.segment_records \in Nat /\ l.segment_records + 1 <= MaxSegmentRecords
  BY LogAssumption DEF NeedsRotation, LogShape
<1>11. QED
  BY <1>1, <1>4, <1>5, <1>8, <1>9, <1>10, ZenonT(30) DEF CountsOK

\* A failed write leaves no record.
LEMMA FailedCounts ==
  ASSUME NEW l, LogShape(l), CountsOK(l), l.file # 0, NEW size, NEW m \in FailedWrites(l, size)
  PROVE  CountsOK(m)
<1>1. LogShape(m) /\ m.file = l.file /\ m.segment_records = l.segment_records /\ NoNewRecords(l.disk, m.disk)
  BY FailedShape, FailedKeeps, ZenonT(30)
<1>2. CASE m = l
  BY <1>2, Zenon
<1>3. CASE m # l
  <2>1. PICK new, frame : /\ frame.kind \in TornKinds
                          /\ Written(l.disk[l.file], frame, new) /\ Replaced(l.disk, l.file, new, m.disk)
    BY <1>3, FailedShape, ZenonT(30)
  <2>2. PICK old : old = l.disk[l.file]
    BY Zenon
  <2>3. SegmentShape(old) /\ l.file \in 1..Len(l.disk)
    BY <2>2, OpenFile, ZenonT(30)
  <2>4. NothingNew(old, new)
    BY <2>1, <2>2, <2>3, WrittenKeeps, ZenonT(30) DEF TornKinds
  <2>5. \A j \in 1..Len(old.frames) : new.frames[j] = old.frames[j] /\ j \in 1..Len(new.frames)
    BY <2>1, <2>2 DEF Written, Longer
  <2>6. RecordsOf(new) = RecordsOf(old)
    <3>1. RecordsOf(old) \subseteq RecordsOf(new)
      BY <2>5 DEF RecordsOf
    <3>2. QED
      BY <2>4, <3>1, Zenon DEF NothingNew
  <2>7. Cardinality(RecordsOf(m.disk[m.file])) = m.segment_records
    BY <1>1, <2>1, <2>2, <2>6, SMTT(30) DEF CountsOK, Replaced
  <2>8. \A i \in 1..Len(m.disk) : Cardinality(RecordsOf(m.disk[i])) <= MaxSegmentRecords
    BY <1>1, CountsKept, SMTT(30) DEF LogShape
  <2>9. QED
    BY <1>1, <2>7, <2>8 DEF CountsOK
<1>4. QED
  BY <1>2, <1>3

-----------------------------------------------------------------------------
(* The bytes of a segment.                                                  *)

HasSizes(frames) == \A j \in 1..Len(frames) : frames[j].size \in Nat

\* The size of each prefix of a file, and of the whole.
Sums(segment, g) ==
  /\ g[0] = 0 /\ \A n \in 0..Len(segment.frames) : g[n] \in Nat
  /\ \A n \in 1..Len(segment.frames) : g[n] = g[n - 1] + segment.frames[n].size
  /\ SegmentBytes(segment) = g[Len(segment.frames)]

\* f[i] is the size of the first i frames, for i up to n.
Adds(frames, n, f) == f = [i \in 0..n |-> IF i = 0 THEN 0 ELSE f[i - 1] + frames[i].size]

\* The sizes can be added up to any frame.
LEMMA AddsExists ==
  ASSUME NEW frames, NEW N \in Nat
  PROVE  \E f : Adds(frames, N, f)
<1> DEFINE Good == {n \in Nat : \E f : Adds(frames, n, f)}
<1>1. 0 \in Good
  <2> DEFINE f == [i \in 0..0 |-> 0]
  <2>1. f = [i \in 0..0 |-> IF i = 0 THEN 0 ELSE f[i - 1] + frames[i].size]
    OBVIOUS
  <2> HIDE DEF f
  <2>2. Adds(frames, 0, f)
    BY <2>1 DEF Adds
  <2>3. QED
    BY <2>2, ZenonT(30)
<1>2. ASSUME NEW k \in 0..N, k # N, NEW f, Adds(frames, k, f) PROVE \E h : Adds(frames, k + 1, h)
  <2> DEFINE h == [i \in 0..(k + 1) |-> IF i = 0 THEN 0 ELSE f[i - 1] + frames[i].size]
  <2>1. ASSUME NEW i \in 0..k PROVE h[i] = f[i]
    <3>1. f[i] = IF i = 0 THEN 0 ELSE f[i - 1] + frames[i].size
      BY <1>2, ZenonT(30) DEF Adds
    <3>2. QED
      BY <3>1
  <2>2. ASSUME NEW i \in 0..(k + 1) PROVE h[i] = IF i = 0 THEN 0 ELSE h[i - 1] + frames[i].size
    <3>1. CASE i = 0
      BY <3>1, ZenonT(30)
    <3>2. CASE i # 0
      <4>1. i - 1 \in 0..k
        BY <3>2
      <4>2. h[i - 1] = f[i - 1]
        BY <2>1, <4>1, SMTT(30)
      <4>3. h[i] = f[i - 1] + frames[i].size
        BY <3>2, ZenonT(30)
      <4> HIDE DEF h
      <4>4. QED
        BY <3>2, <4>2, <4>3
    <3>3. QED
      BY <3>1, <3>2, ZenonT(30)
  <2>3. h = [i \in 0..(k + 1) |-> h[i]]
    BY Zenon
  <2> HIDE DEF h
  <2>4. Adds(frames, k + 1, h)
    BY <2>2, <2>3, Zenon DEF Adds
  <2>5. QED
    BY <2>4
<1>3. \A k \in 0..N : k # N /\ k \in Good => k + 1 \in Good
  BY <1>2
<1> HIDE DEF Good
<1>4. \A n \in 0..N : n \in Good
  BY <1>1, <1>3, Reaches, ZenonT(30)
<1>5. N \in Good
  BY <1>4
<1>6. QED
  BY <1>5 DEF Good

\* The size of a file is summed up frame by frame.
LEMMA BytesSum ==
  ASSUME NEW segment, IsSequence(segment.frames), HasSizes(segment.frames)
  PROVE  \E g : Sums(segment, g)
<1>1. PICK frames, N : frames = segment.frames /\ N = Len(frames)
  BY Zenon
<1>2. N \in Nat
  BY <1>1, SequenceFacts
<1>3. PICK g : Adds(frames, N, g) /\ SegmentBytes(segment) = g[N]
  <2>1. Adds(frames, N, CHOOSE f : Adds(frames, N, f))
    BY <1>2, AddsExists, ZenonT(30)
  <2>2. SegmentBytes(segment) = (CHOOSE f : Adds(frames, N, f))[N]
    BY <1>1 DEF SegmentBytes, Adds
  <2>3. QED
    BY <2>1, <2>2, Zenon
<1>4. \A i \in 0..N : g[i] = IF i = 0 THEN 0 ELSE g[i - 1] + frames[i].size
  BY <1>3, ZenonT(30) DEF Adds
<1>5. g[0] = 0 /\ SegmentBytes(segment) = g[N]
  BY <1>2, <1>3, <1>4
<1>6. ASSUME NEW n \in 1..N PROVE g[n] = g[n - 1] + frames[n].size
  <2>1. n \in 0..N /\ n # 0
    BY <1>2
  <2>2. QED
    BY <1>4, <2>1, ZenonT(30)
<1> DEFINE S == {n \in 0..N : g[n] \in Nat}
<1>7. 0 \in S
  BY <1>2, <1>5
<1>8. ASSUME NEW n \in 0..N, n # N, n \in S PROVE n + 1 \in S
  <2>1. n + 1 \in 1..N /\ (n + 1) - 1 = n /\ n + 1 \in 0..N
    BY <1>2, <1>8
  <2>2. g[n + 1] = g[n] + frames[n + 1].size /\ frames[n + 1].size \in Nat /\ g[n] \in Nat
    BY <1>1, <1>6, <1>8, <2>1 DEF HasSizes
  <2>3. QED
    BY <2>1, <2>2
<1> HIDE DEF S
<1>9. \A n \in 0..N : n \in S
  BY <1>2, <1>7, <1>8, Reaches
<1>10. \A n \in 0..N : g[n] \in Nat
  BY <1>9 DEF S
<1>11. QED
  BY <1>1, <1>5, <1>6, <1>10, ZenonT(30) DEF Sums

\* The sizes of a common prefix are the same in both files.
LEMMA SamePrefixSum ==
  ASSUME NEW a, NEW g, Sums(a, g), NEW b, NEW h, Sums(b, h), Len(a.frames) \in Nat, Len(b.frames) \in Nat,
         NEW N \in Nat, N <= Len(a.frames), N <= Len(b.frames), \A j \in 1..N : a.frames[j].size = b.frames[j].size
  PROVE  g[N] = h[N]
<1> DEFINE S == {n \in 0..N : g[n] = h[n]}
<1>1. 0 \in S
  BY DEF Sums
<1>2. ASSUME NEW n \in 0..N, n # N, n \in S PROVE n + 1 \in S
  <2>1. n + 1 \in 1..N /\ (n + 1) - 1 = n /\ n + 1 \in 0..N /\ n + 1 \in 1..Len(a.frames) /\ n + 1 \in 1..Len(b.frames)
    BY <1>2
  <2>2. g[n + 1] = g[n] + a.frames[n + 1].size /\ h[n + 1] = h[n] + b.frames[n + 1].size /\ a.frames[n + 1].size = b.frames[n + 1].size
    BY <2>1, ZenonT(30) DEF Sums
  <2>3. QED
    BY <1>2, <2>1, <2>2
<1> HIDE DEF S
<1>3. \A n \in 0..N : n \in S
  BY <1>1, <1>2, Reaches, Zenon
<1>4. QED
  BY <1>3 DEF S

\* A frame more adds its size.
LEMMA LongerBytes ==
  ASSUME NEW a, IsSequence(a.frames), HasSizes(a.frames), NEW frame, frame.size \in Nat,
         NEW b, Longer(a.frames, frame, b.frames)
  PROVE  HasSizes(b.frames) /\ SegmentBytes(b) = SegmentBytes(a) + frame.size /\ SegmentBytes(a) \in Nat
<1>1. /\ Len(a.frames) \in Nat /\ Len(b.frames) = Len(a.frames) + 1 /\ IsSequence(b.frames)
      /\ b.frames[Len(a.frames) + 1] = frame /\ \A j \in 1..Len(a.frames) : b.frames[j] = a.frames[j]
  BY Zenon DEF Longer
<1>2. PICK N : N = Len(a.frames)
  BY ZenonT(30)
<1>3. HasSizes(b.frames)
  <2>1. \A j \in 1..Len(b.frames) : j \in 1..Len(a.frames) \/ j = Len(a.frames) + 1
    BY <1>1
  <2>2. QED
    BY <1>1, <2>1, ZenonT(30) DEF HasSizes
<1>4. PICK g : Sums(a, g)
  BY BytesSum
<1>5. PICK h : Sums(b, h)
  BY <1>1, <1>3, BytesSum, SMTT(30)
<1>6. g[N] = h[N]
  BY <1>1, <1>2, <1>4, <1>5, SamePrefixSum, SMTT(30)
<1>7. N + 1 \in 1..Len(b.frames) /\ (N + 1) - 1 = N /\ N \in 0..Len(a.frames)
  BY <1>1, <1>2, SMTT(30)
<1>8. h[N + 1] = h[N] + frame.size /\ SegmentBytes(b) = h[N + 1] /\ SegmentBytes(a) = g[N] /\ g[N] \in Nat
  BY <1>1, <1>2, <1>4, <1>5, <1>7, ZenonT(30) DEF Sums
<1>9. QED
  BY <1>3, <1>6, <1>8, ZenonT(30)

\* The size of a prefix is at most that of the file.
LEMMA PrefixSum ==
  ASSUME NEW a, NEW g, Sums(a, g), HasSizes(a.frames), Len(a.frames) \in Nat, NEW k \in 0..Len(a.frames)
  PROVE  g[k] <= SegmentBytes(a)
<1>1. PICK N : N = Len(a.frames) - k
  OBVIOUS
<1>2. N \in Nat /\ k \in Nat /\ k + N = Len(a.frames)
  BY <1>1
<1> DEFINE S == {n \in 0..N : g[k] <= g[k + n]}
<1>3. 0 \in S
  <2>1. g[k] \in Nat /\ k + 0 = k
    BY <1>2 DEF Sums
  <2>2. QED
    BY <1>2, <2>1
<1>4. ASSUME NEW n \in 0..N, n # N, n \in S PROVE n + 1 \in S
  <2>1. /\ k + (n + 1) \in 1..Len(a.frames) /\ (k + (n + 1)) - 1 = k + n /\ n + 1 \in 0..N
        /\ k + n \in 0..Len(a.frames)
    BY <1>2, <1>4
  <2>2. g[k + (n + 1)] = g[k + n] + a.frames[k + (n + 1)].size /\ a.frames[k + (n + 1)].size \in Nat
        /\ g[k + n] \in Nat /\ g[k] \in Nat
    BY <2>1, Zenon DEF Sums, HasSizes
  <2>3. g[k] <= g[k + n]
    BY <1>4
  <2>4. g[k] <= g[k + (n + 1)]
    BY <2>2, <2>3, SMTT(30)
  <2>5. QED
    BY <2>1, <2>4, Zenon
<1> HIDE DEF S
<1>5. \A n \in 0..N : n \in S
  BY <1>2, <1>3, <1>4, Reaches
<1>6. g[k] <= g[k + N]
  BY <1>2, <1>5 DEF S
<1>7. QED
  BY <1>2, <1>6, ZenonT(30) DEF Sums

\* A crash leaves no more bytes than there were.
LEMMA CrashedBytes ==
  ASSUME NEW a, SegmentShape(a), HasSizes(a.frames), NEW n, NEW b, CrashedAs(a, n, b)
  PROVE  HasSizes(b.frames) /\ SegmentBytes(b) \in 0..SegmentBytes(a)
<1>1. /\ Len(a.frames) \in Nat /\ a.durable \in Nat /\ n \in Nat /\ n <= Len(a.frames) /\ IsSequence(b.frames)
      /\ IsSequence(a.frames) /\ \A j \in 1..n : b.frames[j] = a.frames[j]
      /\ \/ Len(b.frames) = n
         \/ n < Len(a.frames) /\ Len(b.frames) = n + 1 /\ b.frames[n + 1].size = a.frames[n + 1].size
  BY SequenceFacts DEF SegmentShape, CrashedAs
<1>2. \A j \in 1..Len(b.frames) : j \in 1..Len(a.frames) /\ b.frames[j].size = a.frames[j].size
  <2>1. PICK M, N : M = Len(a.frames) /\ N = Len(b.frames)
    BY Zenon
  <2>2. M \in Nat /\ n \in Nat /\ n <= M /\ (N = n \/ (N = n + 1 /\ n < M))
    BY <1>1, <2>1, Zenon
  <2>3. \A j \in 1..N : j \in 1..M /\ (j \in 1..n \/ (j = n + 1 /\ N = n + 1))
    BY <2>2
  <2>4. N = n + 1 => n + 1 # n
    BY <2>2
  <2>5. QED
    BY <1>1, <2>1, <2>3, <2>4, ZenonT(30)
<1>3. HasSizes(b.frames)
  BY <1>2, Zenon DEF HasSizes
<1>4. PICK g : Sums(a, g)
  BY <1>1, BytesSum
<1>5. PICK h : Sums(b, h)
  BY <1>1, <1>3, BytesSum, SMTT(30)
<1>6. PICK N : N = Len(b.frames)
  BY Zenon
<1>7. N \in Nat /\ N <= Len(a.frames) /\ N \in 0..Len(a.frames) /\ N \in 0..Len(b.frames)
  BY <1>1, <1>6
<1>8. g[N] = h[N]
  BY <1>2, <1>4, <1>5, <1>6, <1>7, SamePrefixSum, SMTT(30)
<1>9. g[N] <= SegmentBytes(a) /\ SegmentBytes(a) \in Nat
  <2>1. g[N] <= SegmentBytes(a)
    BY <1>1, <1>4, <1>7, PrefixSum
  <2>2. QED
    BY <1>1, <1>4, <2>1 DEF Sums
<1>10. SegmentBytes(b) = h[N] /\ h[N] \in Nat
  BY <1>5, <1>6, <1>7, Zenon DEF Sums
<1>11. QED
  BY <1>3, <1>8, <1>9, <1>10

\* segment_bytes is the size of the open file up to the x bytes that failed writes have left;
\* it leaves room for the footer, and before the first record it is the header's.
BytesOK(l, x) ==
  /\ \A i \in 1..Len(l.disk) :
       HasSizes(l.disk[i].frames) /\ SegmentBytes(l.disk[i]) \in 0..(MaxSegmentBytes + HeaderBytes + x)
  /\ l.file # 0 => /\ SegmentBytes(l.disk[l.file]) \in 0..(l.segment_bytes + x)
                   /\ l.segment_bytes + FooterBytes <= MaxSegmentBytes + HeaderBytes
                   /\ l.segment_records = 0 => l.segment_bytes = HeaderBytes

\* The open file changes; the others are as they were.
LEMMA BytesReplaced ==
  ASSUME NEW l, LogShape(l), l.file # 0, NEW x \in Nat, BytesOK(l, x), NEW new, HasSizes(new.frames),
         SegmentBytes(new) \in 0..(MaxSegmentBytes + HeaderBytes + x), NEW disk, Replaced(l.disk, l.file, new, disk)
  PROVE  \A i \in 1..Len(disk) :
           HasSizes(disk[i].frames) /\ SegmentBytes(disk[i]) \in 0..(MaxSegmentBytes + HeaderBytes + x)
<1>1. Len(disk) = Len(l.disk) /\ disk[l.file] = new /\ \A i \in 1..Len(l.disk) : i # l.file => disk[i] = l.disk[i]
  BY ZenonT(30) DEF Replaced
<1>2. QED
  BY <1>1, SMTT(30) DEF BytesOK

\* The open file, its frames and their sizes.
LEMMA OpenBytes ==
  ASSUME NEW l, LogShape(l), l.file # 0, NEW x \in Nat, BytesOK(l, x)
  PROVE  /\ SegmentShape(l.disk[l.file]) /\ IsSequence(l.disk[l.file].frames) /\ HasSizes(l.disk[l.file].frames)
         /\ SegmentBytes(l.disk[l.file]) \in 0..(l.segment_bytes + x) /\ l.segment_bytes \in Nat
<1>1. SegmentShape(l.disk[l.file]) /\ l.file \in 1..Len(l.disk)
  BY OpenFile, SMTT(30)
<1>2. IsSequence(l.disk[l.file].frames)
  BY <1>1, ZenonT(30) DEF SegmentShape
<1>3. QED
  BY <1>1, <1>2 DEF BytesOK, LogShape

\* A new segment has the size of its header.
LEMMA NewSegmentBytes ==
  ASSUME NEW l, LogShape(l), l.file = 0, NEW x \in Nat, BytesOK(l, x), NEW m, m = OpenSegment(l)
  PROVE  BytesOK(m, x)
<1>1. /\ m.file = Len(l.disk) + 1 /\ Longer(l.disk, EmptySegment, m.disk) /\ m.segment_bytes = HeaderBytes
  BY OpenShape
<1>2. /\ Len(l.disk) \in Nat /\ Len(m.disk) = Len(l.disk) + 1 /\ m.disk[Len(l.disk) + 1] = EmptySegment
      /\ \A i \in 1..Len(l.disk) : m.disk[i] = l.disk[i]
  BY <1>1 DEF Longer
<1>3. PICK none : none = [frames |-> <<>>, durable |-> 0]
  BY ZenonT(30)
<1>4. IsSequence(none.frames) /\ none.frames = <<>> /\ Len(none.frames) = 0 /\ HasSizes(none.frames)
  BY <1>3, NoElements DEF HasSizes
<1>5. SegmentBytes(none) = 0
  <2>1. PICK g : Sums(none, g)
    BY <1>4, BytesSum
  <2>2. QED
    BY <1>4, <2>1 DEF Sums
<1>6. Longer(none.frames, HeaderFrame, EmptySegment.frames) /\ HeaderFrame.size = HeaderBytes
  <2>1. EmptySegment.frames = <<HeaderFrame>> /\ HeaderFrame.size = HeaderBytes
    BY Zenon DEF EmptySegment, HeaderFrame, Frame
  <2>2. IsSequence(<<HeaderFrame>>) /\ Len(<<HeaderFrame>>) = 1 /\ <<HeaderFrame>>[1] = HeaderFrame
    BY OneElement, SMTT(30)
  <2>3. QED
    BY <1>4, <2>1, <2>2, SMTT(30) DEF Longer
<1>7. HasSizes(EmptySegment.frames) /\ SegmentBytes(EmptySegment) = HeaderBytes
  BY <1>4, <1>5, <1>6, LogAssumption, LongerBytes, SMTT(30)
<1>8. \A i \in 1..Len(m.disk) : i \in 1..Len(l.disk) \/ i = Len(l.disk) + 1
  BY <1>2
<1>9. /\ SegmentBytes(EmptySegment) \in 0..(MaxSegmentBytes + HeaderBytes + x)
      /\ SegmentBytes(EmptySegment) \in 0..(HeaderBytes + x) /\ HeaderBytes + FooterBytes <= MaxSegmentBytes + HeaderBytes
  BY <1>7, LogAssumption, SMTT(30)
<1>10. \A i \in 1..Len(m.disk) :
         HasSizes(m.disk[i].frames) /\ SegmentBytes(m.disk[i]) \in 0..(MaxSegmentBytes + HeaderBytes + x)
  BY <1>2, <1>7, <1>8, <1>9, SMTT(30) DEF BytesOK
<1>11. QED
  BY <1>1, <1>2, <1>7, <1>9, <1>10, SMTT(30) DEF BytesOK

\* Closing a file adds its footer, for which there is room.
LEMMA CloseBytes ==
  ASSUME NEW l, LogShape(l), l.file # 0, NEW x \in Nat, BytesOK(l, x), NEW m, m = CloseSegment(l)
  PROVE  BytesOK(m, x)
<1>1. PICK new : ClosedAs(l.disk[l.file], new) /\ Replaced(l.disk, l.file, new, m.disk)
  BY CloseShape
<1>2. FooterFrame.size = FooterBytes /\ FooterBytes \in Nat
  BY LogAssumption DEF FooterFrame, Frame
<1>3. /\ SegmentBytes(l.disk[l.file]) \in 0..(l.segment_bytes + x) /\ l.segment_bytes \in Nat
      /\ IsSequence(l.disk[l.file].frames) /\ HasSizes(l.disk[l.file].frames)
      /\ l.segment_bytes + FooterBytes <= MaxSegmentBytes + HeaderBytes
  BY OpenBytes, Zenon DEF BytesOK
<1>4. HasSizes(new.frames) /\ SegmentBytes(new) \in 0..(MaxSegmentBytes + HeaderBytes + x)
  <2>1. HasSizes(new.frames) /\ SegmentBytes(new) = SegmentBytes(l.disk[l.file]) + FooterBytes
    BY <1>1, <1>2, <1>3, LongerBytes, SMTT(30) DEF ClosedAs
  <2>2. QED
    BY <1>2, <1>3, <2>1, LogAssumption
<1>5. m.file = 0
  BY CloseShape
<1>6. QED
  BY <1>1, <1>4, <1>5, BytesReplaced, SMTT(30) DEF BytesOK

\* append() up to its write.
LEMMA PrepareBytes ==
  ASSUME NEW l, LogShape(l), NEW x \in Nat, BytesOK(l, x), NEW size \in Nat, NEW m, m = PrepareAppend(l, size).log
  PROVE  BytesOK(m, x)
<1>1. CASE m = l
  BY <1>1
<1>2. CASE l.file = 0 /\ m = OpenSegment(l)
  BY <1>2, NewSegmentBytes
<1>3. CASE l.file # 0 /\ \E closed : closed = CloseSegment(l) /\ m = OpenSegment(closed)
  <2>1. PICK closed : closed = CloseSegment(l) /\ m = OpenSegment(closed)
    BY <1>3
  <2>2. LogShape(closed) /\ closed.file = 0 /\ BytesOK(closed, x)
    BY <1>3, <2>1, CloseShape, CloseBytes, SMTT(30)
  <2>3. QED
    BY <2>1, <2>2, NewSegmentBytes, SMTT(30)
<1>4. QED
  BY <1>1, <1>2, <1>3, PrepareCases

\* A record that needs no rotation fits, with the footer, except for the header of a
\* segment of which it is the first record.
LEMMA RecordBytes ==
  ASSUME NEW l, LogShape(l), l.file # 0, NEW x \in Nat, BytesOK(l, x), NEW payload, NEW size \in Nat,
         size + FooterBytes <= MaxSegmentBytes, ~NeedsRotation(l, size), NEW m, m = WriteRecord(l, payload, size)
  PROVE  BytesOK(m, x)
<1>1. PICK new : Written(l.disk[l.file], Frame("record", payload, size), new) /\ Replaced(l.disk, l.file, new, m.disk)
  BY RecordShape
<1>2. Frame("record", payload, size).size = size
  BY Zenon DEF Frame
<1>3. /\ HasSizes(new.frames) /\ SegmentBytes(new) = SegmentBytes(l.disk[l.file]) + size /\ l.segment_bytes \in Nat
      /\ SegmentBytes(l.disk[l.file]) \in 0..(l.segment_bytes + x)
  BY <1>1, <1>2, OpenBytes, LongerBytes DEF Written
<1>4. l.segment_bytes + size + FooterBytes <= MaxSegmentBytes + HeaderBytes
  <2>1. CASE l.segment_records = 0
    <3>1. l.segment_bytes = HeaderBytes
      BY <2>1, ZenonT(30) DEF BytesOK
    <3>2. QED
      BY <3>1, LogAssumption
  <2>2. CASE l.segment_records # 0
    <3>1. ~(l.segment_bytes + size + FooterBytes > MaxSegmentBytes)
      BY <2>2 DEF NeedsRotation
    <3>2. QED
      BY <1>3, <3>1, LogAssumption
  <2>3. QED
    BY <2>1, <2>2
<1>5. /\ SegmentBytes(new) \in 0..(MaxSegmentBytes + HeaderBytes + x)
      /\ SegmentBytes(new) \in 0..(l.segment_bytes + size + x)
  BY <1>3, <1>4, LogAssumption, SMTT(30)
<1>6. m.file = l.file /\ m.segment_records = l.segment_records + 1 /\ m.segment_bytes = l.segment_bytes + size
      /\ l.segment_records \in Nat /\ l.file \in 1..Len(l.disk)
  BY RecordShape, OpenFile, SMTT(30) DEF LogShape
<1>7. m.disk[m.file] = new /\ m.segment_records # 0
  BY <1>1, <1>6, SMTT(30) DEF Replaced
<1>8. \A i \in 1..Len(m.disk) :
        HasSizes(m.disk[i].frames) /\ SegmentBytes(m.disk[i]) \in 0..(MaxSegmentBytes + HeaderBytes + x)
  BY <1>1, <1>3, <1>5, BytesReplaced
<1>9. QED
  BY <1>4, <1>5, <1>6, <1>7, <1>8, SMTT(30) DEF BytesOK

\* A failed write leaves a piece, of at most the bytes of the record, that is not counted.
LEMMA FailedBytes ==
  ASSUME NEW l, LogShape(l), l.file # 0, NEW x \in Nat, BytesOK(l, x), NEW size \in Nat,
         NEW m \in FailedWrites(l, size)
  PROVE  BytesOK(m, x + IF m = l THEN 0 ELSE size)
<1>1. CASE m = l
  <2>1. x + (IF m = l THEN 0 ELSE size) = x
    BY <1>1
  <2>2. QED
    BY <1>1, <2>1, Zenon
<1>2. CASE m # l
  <2>1. PICK y : y = x + size
    BY Zenon
  <2>2. y \in Nat /\ x + (IF m = l THEN 0 ELSE size) = y
    BY <1>2, <2>1
  <2>3. PICK new, frame : frame.size = size /\ Written(l.disk[l.file], frame, new) /\ Replaced(l.disk, l.file, new, m.disk)
    BY <1>2, FailedShape, ZenonT(30)
  <2>4. /\ HasSizes(new.frames) /\ SegmentBytes(new) = SegmentBytes(l.disk[l.file]) + size
        /\ SegmentBytes(l.disk[l.file]) \in 0..(l.segment_bytes + x) /\ l.segment_bytes \in Nat
    BY <2>3, OpenBytes, LongerBytes DEF Written
  <2>5. l.file \in 1..Len(l.disk) /\ l.segment_bytes + FooterBytes <= MaxSegmentBytes + HeaderBytes
    BY OpenFile, Zenon DEF BytesOK
  <2>6. /\ SegmentBytes(new) \in 0..(l.segment_bytes + y)
        /\ SegmentBytes(new) \in 0..(MaxSegmentBytes + HeaderBytes + y)
    <3>1. PICK a, b : a = SegmentBytes(l.disk[l.file]) /\ b = l.segment_bytes
      BY Zenon
    <3>2. a \in 0..(b + x) /\ b \in Nat /\ b + FooterBytes <= MaxSegmentBytes + HeaderBytes
      BY <2>4, <2>5, <3>1, Zenon
    <3>3. a + size \in 0..(b + y) /\ a + size \in 0..(MaxSegmentBytes + HeaderBytes + y)
      BY <2>1, <3>2, LogAssumption
    <3>4. QED
      BY <2>4, <3>1, <3>3, Zenon
  <2>7. m.file = l.file /\ m.segment_records = l.segment_records /\ m.segment_bytes = l.segment_bytes
    BY FailedShape, SMTT(30)
  <2>8. BytesOK(l, y)
    <3>1. PICK c, d : c = MaxSegmentBytes + HeaderBytes /\ d = l.segment_bytes
      BY Zenon
    <3>2. c \in Nat /\ d \in Nat
      BY <2>4, <3>1, LogAssumption
    <3>3. \A k : (k \in 0..(c + x) => k \in 0..(c + y)) /\ (k \in 0..(d + x) => k \in 0..(d + y))
      BY <2>1, <3>2
    <3>4. QED
      BY <3>1, <3>3, ZenonT(30) DEF BytesOK
  <2>9. m.disk[m.file] = new
    BY <2>3, <2>5, <2>7, Zenon DEF Replaced
  <2>10. \A i \in 1..Len(m.disk) :
           HasSizes(m.disk[i].frames) /\ SegmentBytes(m.disk[i]) \in 0..(MaxSegmentBytes + HeaderBytes + y)
    BY <2>2, <2>3, <2>4, <2>6, <2>8, BytesReplaced, ZenonT(30)
  <2>11. BytesOK(m, y)
    BY <2>6, <2>7, <2>8, <2>9, <2>10, Zenon DEF BytesOK
  <2>12. QED
    BY <2>2, <2>11, Zenon
<1>3. QED
  BY <1>1, <1>2

\* A flush changes no size.
LEMMA SyncBytes ==
  ASSUME NEW l, LogShape(l), l.file # 0, NEW x \in Nat, BytesOK(l, x), NEW m, m = SyncLog(l)
  PROVE  BytesOK(m, x)
<1>1. PICK new : Flushed(l.disk[l.file], new) /\ Replaced(l.disk, l.file, new, m.disk)
  BY SyncShape, ZenonT(30)
<1>2. new.frames = l.disk[l.file].frames
  BY <1>1, SMTT(30) DEF Flushed
<1>3. HasSizes(new.frames) /\ SegmentBytes(new) \in 0..(l.segment_bytes + x)
  <2>1. SegmentBytes(new) = SegmentBytes(l.disk[l.file])
    BY <1>2, Zenon DEF SegmentBytes
  <2>2. QED
    BY <1>2, <2>1, OpenBytes, Zenon
<1>4. l.file \in 1..Len(l.disk) /\ SegmentBytes(new) \in 0..(MaxSegmentBytes + HeaderBytes + x)
  BY <1>2, OpenFile, ZenonT(30) DEF BytesOK, SegmentBytes
<1>5. m.file = l.file /\ m.segment_records = l.segment_records /\ m.segment_bytes = l.segment_bytes
  BY SyncShape, Zenon
<1>6. m.disk[m.file] = new
  BY <1>1, <1>5, Zenon DEF Replaced
<1>7. \A i \in 1..Len(m.disk) :
        HasSizes(m.disk[i].frames) /\ SegmentBytes(m.disk[i]) \in 0..(MaxSegmentBytes + HeaderBytes + x)
  BY <1>1, <1>3, <1>4, BytesReplaced, ZenonT(30)
<1>8. QED
  BY <1>3, <1>5, <1>6, <1>7, SMTT(30) DEF BytesOK

\* A crash leaves no file larger.
LEMMA CrashBytes ==
  ASSUME NEW l, LogShape(l), NEW x \in Nat, BytesOK(l, x), NEW disk \in CrashedDisks(l.disk), NEW m, m = NewLog(disk)
  PROVE  BytesOK(m, x)
<1>1. m.disk = disk /\ m.file = 0
  BY CrashShape
<1>2. CASE disk = l.disk
  BY <1>1, <1>2, Zenon DEF BytesOK
<1>3. CASE l.file # 0 /\ \E new, n : CrashedAs(l.disk[l.file], n, new) /\ Replaced(l.disk, l.file, new, disk)
  <2>1. PICK new, n : CrashedAs(l.disk[l.file], n, new) /\ Replaced(l.disk, l.file, new, disk)
    BY <1>3, ZenonT(30)
  <2>2. HasSizes(new.frames) /\ SegmentBytes(new) \in 0..SegmentBytes(l.disk[l.file])
    BY <1>3, <2>1, OpenBytes, CrashedBytes, ZenonT(30)
  <2>3. SegmentBytes(l.disk[l.file]) \in 0..(MaxSegmentBytes + HeaderBytes + x)
    BY <1>3, OpenFile, ZenonT(30) DEF BytesOK
  <2>4. SegmentBytes(new) \in 0..(MaxSegmentBytes + HeaderBytes + x)
    BY <2>2, <2>3, LogAssumption
  <2>5. QED
    BY <1>1, <1>3, <2>1, <2>2, <2>4, BytesReplaced, ZenonT(30) DEF BytesOK
<1>4. QED
  BY <1>2, <1>3, CrashShape, SMTT(30)

-----------------------------------------------------------------------------
(* The limits.                                                              *)

LimitsOK(l, x) == LogShape(l) /\ CountsOK(l) /\ BytesOK(l, x)

\* Without a writer no file is open.
NoneOpen(l, running) == ~running => l.file = 0

LimitsInvariant == spilled \in Nat /\ LimitsOK(log, spilled) /\ NoneOpen(log, up)

\* A run that ends, by close() or by a crash, leaves no file open.
LEMMA NoneOpenStep ==
  ASSUME NoneOpen(log, up), [Next]_vars, LogShape(log)
  PROVE  NoneOpen(log, up)'
<1>1. PICK l, m : l = log /\ m = log'
  BY Zenon
<1>2. CASE Close
  <2>1. m.file = 0
    BY <1>1, <1>2, CloseShape, ZenonT(30) DEF Close, CloseLog
  <2>2. QED
    BY <1>1, <2>1 DEF NoneOpen
<1>3. CASE Crash
  <2>1. m.file = 0
    BY <1>1, <1>3 DEF Crash, NewLog
  <2>2. QED
    BY <1>1, <2>1 DEF NoneOpen
<1>4. CASE Open
  BY <1>4, Zenon DEF Open, NoneOpen
<1>5. ASSUME Sync \/ \E size \in Sizes : AppendOk(size) \/ AppendRefused(size) \/ AppendFailed(size)
      PROVE  NoneOpen(log, up)'
  <2>1. up /\ up' = up
    BY <1>5, ZenonT(30) DEF Sync, AppendOk, AppendRefused, AppendFailed
  <2>2. QED
    BY <2>1, ZenonT(30) DEF NoneOpen
<1>6. CASE OpenCrash \/ UNCHANGED vars
  BY <1>6, ZenonT(30) DEF OpenCrash, vars, NoneOpen
<1>7. QED
  BY <1>2, <1>3, <1>4, <1>5, <1>6, ZenonT(30) DEF Next

\* Every step keeps the files within their limits, and the counters those of the open file.
LEMMA LimitsStep ==
  ASSUME LimitsInvariant, [Next]_vars
  PROVE  LimitsInvariant'
<1>1. PICK l, m, x, y : l = log /\ m = log' /\ x = spilled /\ y = spilled'
  BY Zenon
<1>2. x \in Nat /\ LogShape(l) /\ CountsOK(l) /\ BytesOK(l, x) /\ NoneOpen(l, up)
  BY <1>1, Zenon DEF LimitsInvariant, LimitsOK
<1> SUFFICES y \in Nat /\ LogShape(m) /\ CountsOK(m) /\ BytesOK(m, y)
  BY <1>1, <1>2, NoneOpenStep, ZenonT(30) DEF LimitsInvariant, LimitsOK
<1>3. ASSUME NEW size \in Sizes, AppendOk(size) \/ AppendRefused(size) \/ AppendFailed(size)
      PROVE  y \in Nat /\ LogShape(m) /\ CountsOK(m) /\ BytesOK(m, y)
  <2>1. PICK p : p = PrepareAppend(l, size).log
    BY Zenon
  <2>2. size \in Nat
    BY StoreAssumption, Zenon
  <2>3. LogShape(p) /\ p.file # 0 /\ CountsOK(p) /\ BytesOK(p, x)
    BY <1>2, <2>1, <2>2, PrepareShape, PrepareCounts, PrepareBytes, ZenonT(30)
  <2>4. CASE AppendRefused(size)
    BY <1>1, <1>2, <2>1, <2>3, <2>4, ZenonT(30) DEF AppendRefused, AppendRecord
  <2>5. CASE AppendOk(size)
    <3>1. PrepareAppend(l, size).accepted /\ m = WriteRecord(p, records + 1, size) /\ y = x
      BY <1>1, <2>1, <2>5, Zenon DEF AppendOk, AppendRecord
    <3>2. size + FooterBytes <= MaxSegmentBytes /\ ~NeedsRotation(p, size)
      BY <1>2, <2>1, <2>2, <3>1, PrepareCases, ZenonT(30)
    <3>3. LogShape(m)
      BY <2>2, <2>3, <3>1, RecordShape, Zenon
    <3>4. QED
      BY <1>2, <2>2, <2>3, <3>1, <3>2, <3>3, RecordBytes, RecordCounts, ZenonT(30)
  <2>6. CASE AppendFailed(size)
    <3>1. m \in FailedWrites(p, size) /\ y = x + IF m = p THEN 0 ELSE size
      BY <1>1, <2>1, <2>6, Zenon DEF AppendFailed
    <3>2. y \in Nat
      BY <1>2, <2>2, <3>1
    <3>3. BytesOK(m, y)
      BY <1>2, <2>2, <2>3, <3>1, FailedBytes, ZenonT(30)
    <3>4. QED
      BY <2>3, <3>1, <3>2, <3>3, FailedShape, FailedCounts, ZenonT(30)
  <2>7. QED
    BY <1>3, <2>4, <2>5, <2>6
<1>4. CASE Sync \/ Close
  <2>1. (m = SyncLog(l) \/ m = CloseLog(l)) /\ y = x
    BY <1>1, <1>4, Zenon DEF Sync, Close
  <2>2. CASE l.file = 0
    BY <1>2, <2>1, <2>2, Zenon DEF SyncLog, CloseLog
  <2>3. CASE l.file # 0
    <3>1. LogShape(m)
      BY <1>2, <2>1, <2>3, SyncShape, CloseShape, Zenon DEF CloseLog
    <3>2. QED
      BY <1>2, <2>1, <2>3, <3>1, SyncBytes, CloseBytes, SyncCounts, CloseCounts, ZenonT(30) DEF CloseLog
  <2>4. QED
    BY <2>2, <2>3, Zenon
<1>5. CASE Crash
  <2>1. PICK disk \in CrashedDisks(l.disk) : m = NewLog(disk) /\ y = x
    BY <1>1, <1>5, Zenon DEF Crash
  <2>2. LogShape(m) /\ m.disk = disk
    BY <1>2, <2>1, CrashShape
  <2>3. NoNewRecords(l.disk, disk) /\ IsSequence(disk)
    BY <1>2, <2>1, <2>2, CrashKeeps, ZenonT(30) DEF LogShape
  <2>4. QED
    BY <1>2, <2>1, <2>2, <2>3, CrashBytes, NewCounts, ZenonT(30)
<1>6. CASE Open
  <2>1. m = NewLog(l.disk) /\ y = x /\ l.file = 0 /\ IsSequence(l.disk)
    BY <1>1, <1>2, <1>6, Zenon DEF Open, LogShape, NoneOpen
  <2>2. m.disk = l.disk /\ m.file = 0 /\ m.segment_records = 0
    BY <2>1, Zenon DEF NewLog
  <2>3. LogShape(m)
    BY <1>2, <2>1, NewShape, SMTT(30) DEF LogShape
  <2>4. CountsOK(m)
    BY <1>2, <2>2, LogAssumption DEF CountsOK
  <2>5. QED
    BY <1>2, <2>1, <2>2, <2>3, <2>4, Zenon DEF BytesOK
<1>7. CASE OpenCrash \/ UNCHANGED vars
  <2>1. m = l /\ y = x
    BY <1>1, <1>7, Zenon DEF OpenCrash, vars
  <2>2. QED
    BY <1>2, <2>1, Zenon
<1>8. QED
  BY <1>1, <1>3, <1>4, <1>5, <1>6, <1>7, ZenonT(30) DEF Next

\* Rotation keeps every file within max_segment_records, and within max_segment_bytes plus
\* one header and the bytes that failed writes may have left.
THEOREM SegmentsStayWithinLimits == Spec => []SegmentsWithinLimits
<1>1. ASSUME Init PROVE LimitsInvariant
  <2>1. spilled = 0 /\ log = NewLog(<<>>) /\ log.disk = <<>> /\ log.file = 0 /\ log.segment_records = 0 /\ Len(<<>>) = 0
    BY <1>1, Zenon DEF Init, NewLog
  <2>2. LogShape(log)
    BY <2>1, NoElements, NewShape DEF Init
  <2>3. QED
    BY <2>1, <2>2, LogAssumption DEF LimitsInvariant, LimitsOK, CountsOK, BytesOK, NoneOpen
<1>2. LimitsInvariant /\ [Next]_vars => LimitsInvariant'
  BY LimitsStep, Zenon
<1>3. LimitsInvariant => SegmentsWithinLimits
  BY LogAssumption DEF LimitsInvariant, LimitsOK, CountsOK, BytesOK, SegmentsWithinLimits
<1>4. QED
  BY <1>1, <1>2, <1>3, PTL DEF Spec
=============================================================================
