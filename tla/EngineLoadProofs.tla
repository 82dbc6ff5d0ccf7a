-------------------------- MODULE EngineLoadProofs --------------------------
(***************************************************************************)
(* What the engine reads back.  First the log: what each operation of the  *)
(* writer, and a crash, does to what read_all() returns.  Then the loops   *)
(* of the engine: what load_store() makes of a sequence of records, what   *)
(* persist() leaves in the log, what the gate decides on a batch and which *)
(* fences are written behind it.  EngineProofs builds on it.               *)
(***************************************************************************)
EXTENDS Engine, SegmentLogProofs

-----------------------------------------------------------------------------
(* What the writer does to what the reader returns.                         *)

\* A file with its header and nothing but records behind it.
OnlyRecords(segment) ==
  HasHeader(segment) /\ \A j \in 2..Len(segment.frames) : segment.frames[j].kind = "record"

\* No write to the open file has failed.
Intact(l) == l.file # 0 => OnlyRecords(l.disk[l.file])

\* The reader stops before it comes to the file that is open, or to the next one.
Frozen(l) == \E i \in 1..Len(l.disk) : i # l.file /\ StopsReading(l.disk[i])

\* The reader returns all the records of such a file.
LEMMA OnlyRecordsRun ==
  ASSUME NEW segment, IsSequence(segment.frames), OnlyRecords(segment)
  PROVE  /\ Len(segment.frames) \in Nat /\ Len(segment.frames) >= 1
         /\ RecordRun(segment) = Len(segment.frames) - 1
<1>1. segment.frames # <<>> /\ Len(segment.frames) \in Nat
  BY SequenceFacts, Zenon DEF OnlyRecords, HasHeader
<1>2. Len(segment.frames) >= 1
  <2>1. SUFFICES ASSUME Len(segment.frames) = 0 PROVE FALSE
    BY <1>1
  <2>2. segment.frames = <<>>
    BY <2>1, NoElements, SameSequence
  <2>3. QED
    BY <1>1, <2>2, Zenon
<1>3. RunsTo(segment, Len(segment.frames) - 1)
  BY <1>1, <1>2 DEF OnlyRecords, RunsTo
<1>4. QED
  BY <1>1, <1>2, <1>3, RunFacts, Zenon

\* A record is read behind those before it.
LEMMA WrittenRead ==
  ASSUME NEW old, IsSequence(old.frames), OnlyRecords(old), NEW payload, NEW size,
         NEW new, Longer(old.frames, Frame("record", payload, size), new.frames)
  PROVE  OnlyRecords(new) /\ Longer(SegmentRecords(old), payload, SegmentRecords(new))
<1>1. PICK N : N = Len(old.frames)
  BY Zenon
<1>2. N \in Nat /\ N >= 1 /\ RecordRun(old) = N - 1
  BY <1>1, OnlyRecordsRun, Zenon
<1>3. PICK frame : frame = Frame("record", payload, size)
  BY Zenon
<1>4. frame.kind = "record" /\ frame.payload = payload
  BY <1>3, Zenon DEF Frame
<1>5. /\ IsSequence(new.frames) /\ Len(new.frames) = N + 1 /\ new.frames[N + 1] = frame
      /\ \A j \in 1..N : new.frames[j] = old.frames[j]
  BY <1>1, <1>3, Zenon DEF Longer
<1>6. OnlyRecords(new)
  <2>1. new.frames # <<>>
    BY <1>2, <1>5, NoElements
  <2>2. new.frames[1].kind = "header"
    <3>1. 1 \in 1..N
      BY <1>2
    <3>2. QED
      BY <1>5, <3>1, Zenon DEF OnlyRecords, HasHeader
  <2>3. ASSUME NEW j \in 2..(N + 1) PROVE new.frames[j].kind = "record"
    <3>1. CASE j = N + 1
      BY <1>4, <1>5, <3>1, Zenon
    <3>2. CASE j # N + 1
      <4>1. j \in 1..N /\ j \in 2..N
        BY <1>2, <3>2
      <4>2. QED
        BY <1>1, <1>5, <4>1, Zenon DEF OnlyRecords
    <3>3. QED
      BY <3>1, <3>2, Zenon
  <2>4. QED
    BY <1>5, <2>1, <2>2, <2>3, Zenon DEF OnlyRecords, HasHeader
<1>7. RecordRun(new) = N
  BY <1>2, <1>5, <1>6, OnlyRecordsRun
<1>8. PICK a, b : a = SegmentRecords(old) /\ b = SegmentRecords(new)
  BY Zenon
<1>9. IsSequence(a) /\ Len(a) = N - 1 /\ \A i \in 1..(N - 1) : a[i] = old.frames[i + 1].payload
  BY <1>2, <1>8, RecordsFacts, Zenon DEF OnlyRecords
<1>10. IsSequence(b) /\ Len(b) = N /\ \A i \in 1..N : b[i] = new.frames[i + 1].payload
  BY <1>5, <1>6, <1>7, <1>8, RecordsFacts, Zenon DEF OnlyRecords
<1>11. \A i \in 1..(N - 1) : b[i] = a[i]
  <2>1. \A i \in 1..(N - 1) : i \in 1..N /\ i + 1 \in 1..N
    BY <1>2
  <2>2. QED
    BY <1>5, <1>9, <1>10, <2>1, Zenon
<1>12. b[N] = payload
  <2>1. N \in 1..N
    BY <1>2
  <2>2. QED
    BY <1>4, <1>5, <1>10, <2>1, Zenon
<1>13. Longer(a, payload, b)
  BY <1>2, <1>9, <1>10, <1>11, <1>12 DEF Longer
<1>14. QED
  BY <1>6, <1>8, <1>13, Zenon

\* A footer ends the file, and the reader goes on behind it.
LEMMA ClosedRead ==
  ASSUME NEW old, IsSequence(old.frames), OnlyRecords(old), NEW new, ClosedAs(old, new)
  PROVE  SegmentRecords(new) = SegmentRecords(old) /\ ~StopsReading(new)
<1>1. PICK N : N = Len(old.frames)
  BY Zenon
<1>2. N \in Nat /\ N >= 1 /\ RecordRun(old) = N - 1
  BY <1>1, OnlyRecordsRun, Zenon
<1>3. /\ IsSequence(new.frames) /\ Len(new.frames) = N + 1 /\ new.frames[N + 1].kind = "footer"
      /\ \A j \in 1..N : new.frames[j] = old.frames[j]
  BY <1>1 DEF ClosedAs, Longer, FooterFrame, Frame
<1>4. HasHeader(new)
  <2>1. new.frames # <<>>
    BY <1>2, <1>3, NoElements
  <2>2. QED
    BY <1>2, <1>3, <2>1 DEF OnlyRecords, HasHeader
<1>5. RecordRun(new) = N - 1
  <2>1. \A j \in 2..N : new.frames[j].kind = "record"
    <3>1. \A j \in 2..N : j \in 1..N
      OBVIOUS
    <3>2. QED
      BY <1>1, <1>3, <3>1, Zenon DEF OnlyRecords
  <2>2. N - 1 \in 0..N /\ (N - 1) + 1 = N /\ (N - 1) + 2 = N + 1
    BY <1>2
  <2>3. RunsTo(new, N - 1)
    BY <1>2, <1>3, <2>1, <2>2 DEF RunsTo
  <2>4. QED
    BY <1>3, <1>4, <2>3, RunFacts, Zenon DEF HasHeader
<1>6. EndsInFooter(new)
  BY <1>2, <1>3, <1>5 DEF EndsInFooter
<1>7. PICK a, b : a = SegmentRecords(old) /\ b = SegmentRecords(new)
  BY Zenon
<1>8. IsSequence(a) /\ Len(a) = N - 1 /\ \A i \in 1..(N - 1) : a[i] = old.frames[i + 1].payload
  BY <1>2, <1>7, RecordsFacts, Zenon DEF OnlyRecords
<1>9. IsSequence(b) /\ Len(b) = N - 1 /\ \A i \in 1..(N - 1) : b[i] = new.frames[i + 1].payload
  BY <1>3, <1>4, <1>5, <1>7, RecordsFacts, ZenonT(30)
<1>10. \A i \in 1..(N - 1) : b[i] = a[i]
  <2>1. \A i \in 1..(N - 1) : i + 1 \in 1..N
    BY <1>2
  <2>2. QED
    BY <1>3, <1>8, <1>9, <2>1, ZenonT(30)
<1>11. a = b
  BY <1>8, <1>9, <1>10, SameSequence, Zenon
<1>12. QED
  BY <1>4, <1>6, <1>7, <1>11, Zenon DEF StopsReading

\* A flush changes nothing that is read.
LEMMA FlushedRead ==
  ASSUME NEW old, OnlyRecords(old), NEW new, new.frames = old.frames
  PROVE  SegmentRecords(new) = SegmentRecords(old) /\ OnlyRecords(new)
  BY DEF SegmentRecords, RecordRun, HasHeader, OnlyRecords

\* A new file has no records.
LEMMA EmptyRead == IsSequence(EmptySegment.frames) /\ OnlyRecords(EmptySegment) /\ SegmentRecords(EmptySegment) = <<>>
<1>1. PICK segment : segment = EmptySegment
  BY Zenon
<1>2. segment.frames = <<HeaderFrame>> /\ HeaderFrame.kind = "header"
  BY <1>1, Zenon DEF EmptySegment, HeaderFrame, Frame
<1>3. IsSequence(segment.frames) /\ Len(segment.frames) = 1 /\ segment.frames[1] = HeaderFrame
  BY <1>2, OneElement, Zenon
<1>4. OnlyRecords(segment)
  <2>1. segment.frames # <<>>
    BY <1>3, NoElements
  <2>2. QED
    BY <1>2, <1>3, <2>1 DEF OnlyRecords, HasHeader
<1>5. Len(SegmentRecords(segment)) = 0 /\ IsSequence(SegmentRecords(segment))
  BY <1>3, <1>4, OnlyRecordsRun, RecordsFacts DEF OnlyRecords
<1>6. SegmentRecords(segment) = <<>>
  BY <1>5, NoElements, SameSequence
<1>7. QED
  BY <1>1, <1>3, <1>4, <1>6, Zenon

\* What a crash leaves of a file is read up to a place.
LEMMA CrashedRead ==
  ASSUME NEW old, IsSequence(old.frames), OnlyRecords(old), old.durable \in Nat,
         NEW n, NEW new, CrashedAs(old, n, new)
  PROVE  \E k \in 0..Len(SegmentRecords(old)) : Cut(SegmentRecords(old), k, SegmentRecords(new))
<1>1. PICK N : N = Len(old.frames)
  BY Zenon
<1>2. N \in Nat /\ N >= 1 /\ RecordRun(old) = N - 1
  BY <1>1, OnlyRecordsRun, Zenon
<1>3. PICK a, b : a = SegmentRecords(old) /\ b = SegmentRecords(new)
  BY Zenon
<1>4. IsSequence(a) /\ Len(a) = N - 1 /\ \A i \in 1..(N - 1) : a[i] = old.frames[i + 1].payload
  BY <1>2, <1>3, RecordsFacts, ZenonT(30) DEF OnlyRecords
<1>5. /\ n \in Nat /\ n <= N /\ IsSequence(new.frames) /\ \A j \in 1..n : new.frames[j] = old.frames[j]
      /\ Len(new.frames) = n \/ (Len(new.frames) = n + 1 /\ new.frames[n + 1].kind \in TornKinds)
  BY <1>1, <1>2 DEF CrashedAs
<1>6. CASE n = 0
  <2>1. ~HasHeader(new)
    <3>1. SUFFICES ASSUME new.frames # <<>> PROVE new.frames[1].kind # "header"
      BY Zenon DEF HasHeader
    <3>2. Len(new.frames) # 0
      BY <1>5, <3>1, NoElements, SameSequence
    <3>3. QED
      BY <1>5, <1>6, <3>2 DEF TornKinds
  <2>2. b = <<>>
    BY <1>3, <1>5, <2>1, RecordsFacts, Zenon
  <2>3. Cut(a, 0, b) /\ 0 \in 0..Len(a)
    BY <1>2, <1>4, <2>2, NoElements DEF Cut
  <2>4. QED
    BY <1>3, <2>3, Zenon
<1>7. CASE n # 0
  <2>1. HasHeader(new)
    <3>1. new.frames # <<>>
      BY <1>5, <1>7, NoElements
    <3>2. QED
      BY <1>5, <1>7, <3>1 DEF OnlyRecords, HasHeader
  <2>2. RecordRun(new) = n - 1
    <3>1. \A j \in 2..n : new.frames[j].kind = "record"
      <4>1. \A j \in 2..n : j \in 1..n /\ j \in 2..N
        BY <1>2, <1>5
      <4>2. QED
        BY <1>1, <1>5, <4>1 DEF OnlyRecords
    <3>2. n - 1 \in 0..(Len(new.frames) - 1) /\ (n - 1) + 1 = n /\ (n - 1) + 2 = n + 1
      BY <1>5, <1>7
    <3>3. n - 1 = Len(new.frames) - 1 \/ new.frames[n + 1].kind # "record"
      BY <1>5, Zenon DEF TornKinds
    <3>4. RunsTo(new, n - 1)
      BY <3>1, <3>2, <3>3, Zenon DEF RunsTo
    <3>5. QED
      BY <1>5, <2>1, <3>4, RunFacts, Zenon DEF HasHeader
  <2>3. IsSequence(b) /\ Len(b) = n - 1 /\ \A i \in 1..(n - 1) : b[i] = new.frames[i + 1].payload
    BY <1>3, <1>5, <2>1, <2>2, RecordsFacts, ZenonT(30)
  <2>4. \A i \in 1..(n - 1) : b[i] = a[i]
    <3>1. \A i \in 1..(n - 1) : i + 1 \in 1..n /\ i \in 1..(N - 1)
      BY <1>2, <1>5
    <3>2. QED
      BY <1>4, <1>5, <2>3, <3>1, ZenonT(30)
  <2>5. n - 1 \in 0..Len(a) /\ n - 1 \in Nat
    BY <1>2, <1>4, <1>5, <1>7
  <2>6. Cut(a, n - 1, b)
    BY <2>3, <2>4, <2>5, Zenon DEF Cut
  <2>7. QED
    BY <1>3, <2>5, <2>6, ZenonT(30)
<1>8. QED
  BY <1>6, <1>7, Zenon

\* The reader depends on nothing but the records it meets.
LEMMA SameRead ==
  ASSUME NEW a, NEW b, NEW N \in Nat, \A i \in 1..N : SegmentRecords(a[i]) = SegmentRecords(b[i]),
         \A i \in 1..N : IsSequence(SegmentRecords(a[i]))
  PROVE  ReadUpTo(a, N) = ReadUpTo(b, N)
<1>1. /\ ReadUpTo(a, 0) = <<>> /\ ReadUpTo(b, 0) = <<>>
      /\ \A n \in 1..N : ReadUpTo(a, n) = ReadUpTo(a, n - 1) \o SegmentRecords(a[n])
      /\ \A n \in 1..N : ReadUpTo(b, n) = ReadUpTo(b, n - 1) \o SegmentRecords(b[n])
  BY ReadUpToSteps, Zenon
<1> DEFINE S == {n \in 0..N : ReadUpTo(a, n) = ReadUpTo(b, n)}
<1>2. 0 \in S
  BY <1>1
<1>3. ASSUME NEW n \in 0..N, n # N, n \in S PROVE n + 1 \in S
  <2>1. n + 1 \in 1..N /\ (n + 1) - 1 = n /\ n + 1 \in 0..N
    BY <1>3
  <2>2. ReadUpTo(a, n + 1) = ReadUpTo(a, n) \o SegmentRecords(a[n + 1])
    BY <1>1, <2>1
  <2>3. ReadUpTo(b, n + 1) = ReadUpTo(b, n) \o SegmentRecords(a[n + 1])
    BY <1>1, <2>1, ZenonT(30)
  <2>4. ReadUpTo(a, n + 1) = ReadUpTo(b, n + 1)
    BY <1>3, <2>2, <2>3, ZenonT(30)
  <2>5. QED
    BY <2>1, <2>4
<1> HIDE DEF S
<1>4. \A n \in 0..N : n \in S
  BY <1>2, <1>3, Reaches, ZenonT(30)
<1>5. QED
  BY <1>4 DEF S

\* A directory that stops the reader nowhere before its last file is read to its end.
LEMMA ReadToEnd ==
  ASSUME NEW disk, IsDisk(disk), \A i \in 1..Len(disk) : i # Len(disk) => ~StopsReading(disk[i])
  PROVE  ReadAll(disk) = ReadUpTo(disk, Len(disk))
<1>1. PICK n : n = SegmentsRead(disk)
  BY Zenon
<1>2. /\ n \in 0..Len(disk) /\ ReadAll(disk) = ReadUpTo(disk, n) /\ (n = 0 => Len(disk) = 0)
      /\ n = Len(disk) \/ StopsReading(disk[n])
  BY <1>1, ReadAllFacts, ZenonT(30)
<1>3. n = Len(disk)
  BY <1>2
<1>4. QED
  BY <1>2, <1>3, ZenonT(30)

\* A file that stops the reader hides whatever comes behind it.
LEMMA ReadNoFurther ==
  ASSUME NEW a, IsDisk(a), NEW b, IsDisk(b), NEW k \in 1..Len(a), StopsReading(a[k]),
         k <= Len(b), \A i \in 1..k : b[i] = a[i]
  PROVE  ReadAll(b) = ReadAll(a)
<1>1. PICK n, m : n = SegmentsRead(a) /\ m = SegmentsRead(b)
  BY Zenon
<1>2. /\ n \in 0..Len(a) /\ ReadAll(a) = ReadUpTo(a, n) /\ (n = 0 => Len(a) = 0)
      /\ \A i \in 1..n : i # n => ~StopsReading(a[i])
      /\ n = Len(a) \/ StopsReading(a[n])
  BY <1>1, ReadAllFacts, ZenonT(30)
<1>3. /\ m \in 0..Len(b) /\ ReadAll(b) = ReadUpTo(b, m) /\ (m = 0 => Len(b) = 0)
      /\ \A i \in 1..m : i # m => ~StopsReading(b[i])
      /\ m = Len(b) \/ StopsReading(b[m])
  BY <1>1, ReadAllFacts, ZenonT(30)
<1>4. Len(a) \in Nat /\ Len(b) \in Nat
  BY SequenceFacts, Zenon DEF IsDisk
<1>5. n \in 1..k
  <2>1. ~(k \in 1..n /\ k # n)
    BY <1>2, Zenon
  <2>2. n # 0
    BY <1>2, <1>4
  <2>3. QED
    BY <1>2, <1>4, <2>1, <2>2
<1>6. m \in 1..k
  <2>1. ~(k \in 1..m /\ k # m)
    BY <1>3
  <2>2. m # 0
    BY <1>3, <1>4
  <2>3. QED
    BY <1>3, <1>4, <2>1, <2>2
<1>7. n = m
  <2>1. StopsReading(a[n]) /\ StopsReading(b[m])
    BY <1>2, <1>3, <1>4, <1>5, <1>6
  <2>2. ~(n < m)
    BY <1>3, <1>5, <1>6, <2>1
  <2>3. ~(m < n)
    BY <1>2, <1>5, <1>6, <2>1
  <2>4. QED
    BY <1>5, <1>6, <2>2, <2>3
<1>8. ReadUpTo(a, n) = ReadUpTo(b, n)
  <2>1. n \in Nat /\ \A i \in 1..n : i \in 1..k /\ i \in 1..Len(a)
    BY <1>4, <1>5
  <2>2. \A i \in 1..n : SegmentRecords(a[i]) = SegmentRecords(b[i]) /\ IsSequence(SegmentRecords(a[i]))
    BY <2>1, RecordsFacts, ZenonT(30) DEF IsDisk
  <2>3. QED
    BY <2>1, <2>2, SameRead, ZenonT(30)
<1>9. QED
  BY <1>2, <1>3, <1>7, <1>8, ZenonT(30)

\* From log l to log m the reader gains the records `added`, unless it stops before.
Follows(l, m, added) ==
  /\ Frozen(l) => Frozen(m) /\ ReadAll(m.disk) = ReadAll(l.disk)
  /\ ~Frozen(l) => ~Frozen(m) /\ ReadAll(m.disk) = ReadAll(l.disk) \o added

\* What is read is a sequence.
LEMMA ReadIsSequence ==
  ASSUME NEW disk, IsDisk(disk)
  PROVE  IsSequence(ReadAll(disk))
  BY ReadAllFacts, ReadUpToMembers, ZenonT(30)

\* Nothing added is nothing changed.
LEMMA ConcatNothing ==
  ASSUME NEW a, IsSequence(a)
  PROVE  a \o <<>> = a
<1>1. PICK u : u = a \o <<>>
  BY Zenon
<1>2. IsSequence(u) /\ Len(u) = Len(a) + 0 /\ \A i \in 1..Len(a) : u[i] = a[i]
  BY <1>1, NoElements, ConcatFacts
<1>3. Len(a) + 0 = Len(a)
  BY SequenceFacts
<1>4. QED
  BY <1>1, <1>2, <1>3, SameSequence

Associates(a, b, c) == (a \o b) \o c = a \o (b \o c)

\* Concatenation is associative.
LEMMA ConcatAssociates ==
  ASSUME NEW a, IsSequence(a), NEW b, IsSequence(b), NEW c, IsSequence(c)
  PROVE  Associates(a, b, c)
<1>1. PICK ab, bc, u, v : ab = a \o b /\ bc = b \o c /\ u = ab \o c /\ v = a \o bc
  BY Zenon
<1>2. Len(a) \in Nat /\ Len(b) \in Nat /\ Len(c) \in Nat
  BY SequenceFacts, Zenon
<1>3. Joined(a, b, ab) /\ Joined(b, c, bc)
  BY <1>1, ConcatJoins, ZenonT(30)
<1>4. Joined(ab, c, u) /\ Joined(a, bc, v)
  <2>1. IsSequence(ab) /\ IsSequence(bc)
    BY <1>3, Zenon DEF Joined
  <2>2. QED
    BY <1>1, <2>1, ConcatJoins, ZenonT(30)
<1>5. /\ IsSequence(ab) /\ Len(ab) = Len(a) + Len(b)
      /\ \A i \in 1..Len(a) : ab[i] = a[i]
      /\ \A i \in 1..Len(b) : ab[Len(a) + i] = b[i]
  BY <1>3, ZenonT(30) DEF Joined
<1>6. /\ IsSequence(bc) /\ Len(bc) = Len(b) + Len(c)
      /\ \A i \in 1..Len(b) : bc[i] = b[i]
      /\ \A i \in 1..Len(c) : bc[Len(b) + i] = c[i]
  BY <1>3, Zenon DEF Joined
<1>7. /\ IsSequence(u) /\ Len(u) = Len(ab) + Len(c)
      /\ \A i \in 1..Len(ab) : u[i] = ab[i]
      /\ \A i \in 1..Len(c) : u[Len(ab) + i] = c[i]
  BY <1>4, Zenon DEF Joined
<1>8. /\ IsSequence(v) /\ Len(v) = Len(a) + Len(bc)
      /\ \A i \in 1..Len(a) : v[i] = a[i]
      /\ \A i \in 1..Len(bc) : v[Len(a) + i] = bc[i]
  BY <1>4, Zenon DEF Joined
<1>9. ASSUME NEW i \in 1..Len(u) PROVE u[i] = v[i]
  <2>1. CASE i \in 1..Len(a)
    BY <1>2, <1>5, <1>7, <1>8, <2>1
  <2>2. CASE i \in (Len(a) + 1)..(Len(a) + Len(b))
    <3>1. PICK j : j \in 1..Len(b) /\ i = Len(a) + j /\ j \in 1..Len(bc) /\ i \in 1..Len(ab)
      <4>1. i - Len(a) \in 1..Len(b) /\ i = Len(a) + (i - Len(a)) /\ i - Len(a) \in 1..Len(bc) /\ i \in 1..Len(ab)
        BY <1>2, <1>5, <1>6, <2>2
      <4>2. QED
        BY <4>1, ZenonT(30)
    <3>2. u[i] = b[j]
      BY <1>5, <1>7, <3>1, Zenon
    <3>3. v[i] = b[j]
      BY <1>6, <1>8, <3>1, ZenonT(30)
    <3>4. QED
      BY <3>2, <3>3, Zenon
  <2>3. CASE i \notin 1..Len(a) /\ i \notin (Len(a) + 1)..(Len(a) + Len(b))
    <3>1. PICK j : j \in 1..Len(c) /\ i = Len(ab) + j /\ Len(b) + j \in 1..Len(bc) /\ i = Len(a) + (Len(b) + j)
      <4>1. PICK j : j = i - (Len(a) + Len(b))
        BY Zenon
      <4>2. j \in 1..Len(c) /\ i = Len(ab) + j /\ Len(b) + j \in 1..Len(bc) /\ i = Len(a) + (Len(b) + j)
        BY <1>2, <1>5, <1>6, <1>7, <2>3, <4>1
      <4>3. QED
        BY <4>2, ZenonT(30)
    <3>2. u[i] = c[j]
      BY <1>7, <3>1, ZenonT(30)
    <3>3. v[i] = c[j]
      BY <1>6, <1>8, <3>1, ZenonT(30)
    <3>4. QED
      BY <3>2, <3>3
  <2>4. QED
    BY <2>1, <2>2, <2>3, ZenonT(30)
<1>10. Len(u) = Len(v)
  BY <1>2, <1>5, <1>6, <1>7, <1>8
<1>11. u = v
  BY <1>7, <1>8, <1>9, <1>10, SameSequence
<1>12. QED
  BY <1>1, <1>11, Zenon DEF Associates

\* One change after the other.
LEMMA FollowsTwice ==
  ASSUME NEW a, IsDisk(a.disk), NEW b, NEW c, NEW s, IsSequence(s), NEW t, IsSequence(t),
         Follows(a, b, s), Follows(b, c, t)
  PROVE  Follows(a, c, s \o t)
<1>1. IsSequence(ReadAll(a.disk))
  BY ReadIsSequence, ZenonT(30)
<1>2. (ReadAll(a.disk) \o s) \o t = ReadAll(a.disk) \o (s \o t)
  BY <1>1, ConcatAssociates DEF Associates
<1>3. QED
  BY <1>2, Zenon DEF Follows

\* A change of the open file: what the file gains, the reader gains.
LEMMA ReplacedFollows ==
  ASSUME NEW l, LogShape(l), l.file # 0, NEW m, LogShape(m), m.file \in {0, l.file},
         NEW new, Replaced(l.disk, l.file, new, m.disk), NEW added, IsSequence(added),
         SegmentRecords(new) = SegmentRecords(l.disk[l.file]) \o added, m.file = 0 => ~StopsReading(new)
  PROVE  Follows(l, m, added)
<1>1. PICK a, b, N : a = l.disk /\ b = m.disk /\ N = Len(a)
  BY Zenon
<1>2. IsDisk(a) /\ IsDisk(b) /\ IsSequence(a) /\ N \in Nat
  BY <1>1, ShapeIsDisk, SequenceFacts, ZenonT(30) DEF LogShape
<1>3. l.file = N /\ N >= 1 /\ Len(b) = N /\ b[N] = new /\ \A i \in 1..N : i # N => b[i] = a[i]
  <2>1. l.file = N /\ l.file \in 1..N
    BY <1>1, OpenFile, Zenon
  <2>2. N >= 1
    BY <1>2, <2>1
  <2>3. QED
    BY <1>1, <2>1, <2>2, Zenon DEF Replaced
<1>4. CASE Frozen(l)
  <2>1. PICK k \in 1..N : k # N /\ StopsReading(a[k])
    BY <1>1, <1>3, <1>4, ZenonT(30) DEF Frozen
  <2>2. k <= N /\ k < N /\ \A i \in 1..k : i \in 1..N /\ i # N
    BY <1>2, <2>1
  <2>3. ReadAll(b) = ReadAll(a)
    BY <1>1, <1>2, <1>3, <2>1, <2>2, ReadNoFurther
  <2>4. k # m.file /\ StopsReading(b[k]) /\ k \in 1..Len(b)
    BY <1>3, <2>1, <2>2
  <2>5. Frozen(m)
    BY <1>1, <2>4, Zenon DEF Frozen
  <2>6. QED
    BY <1>1, <1>4, <2>3, <2>5, ZenonT(30) DEF Follows
<1>5. CASE ~Frozen(l)
  <2>1. \A i \in 1..N : i # N => ~StopsReading(a[i])
    BY <1>1, <1>3, <1>5, ZenonT(30) DEF Frozen
  <2>2. ~Frozen(m)
    BY <1>1, <1>3, <2>1, ZenonT(30) DEF Frozen
  <2>3. ReadAll(a) = ReadUpTo(a, N) /\ ReadAll(b) = ReadUpTo(b, N)
    BY <1>1, <1>2, <1>3, <2>1, ReadToEnd, ZenonT(30)
  <2>4. /\ \A i \in 1..N : IsSequence(SegmentRecords(a[i]))
        /\ \A i \in 1..N : IsSequence(SegmentRecords(b[i]))
    BY <1>1, <1>2, <1>3, RecordsFacts, ZenonT(30) DEF IsDisk
  <2>5. N \in 1..N /\ N - 1 \in 0..N /\ N - 1 \in Nat /\ \A i \in 1..(N - 1) : i \in 1..N /\ i # N
    BY <1>2, <1>3
  <2>6. ReadUpTo(a, N) = ReadUpTo(a, N - 1) \o SegmentRecords(a[N]) /\ IsSequence(ReadUpTo(a, N - 1))
    BY <1>2, <2>4, <2>5, ReadUpToSteps, ZenonT(30)
  <2>7. ReadUpTo(b, N) = ReadUpTo(b, N - 1) \o SegmentRecords(b[N])
    BY <1>2, <2>4, <2>5, ReadUpToSteps, ZenonT(30)
  <2>8. ReadUpTo(a, N - 1) = ReadUpTo(b, N - 1)
    <3>1. \A i \in 1..(N - 1) : SegmentRecords(a[i]) = SegmentRecords(b[i]) /\ IsSequence(SegmentRecords(a[i]))
      BY <1>3, <2>4, <2>5
    <3>2. QED
      BY <2>5, <3>1, SameRead
  <2>9. PICK r, s : r = ReadUpTo(a, N - 1) /\ s = SegmentRecords(a[N])
    BY Zenon
  <2>10. SegmentRecords(b[N]) = s \o added
    BY <1>1, <1>3, <2>9
  <2>11. r \o (s \o added) = (r \o s) \o added
    <3>1. IsSequence(r) /\ IsSequence(s)
      BY <2>4, <2>5, <2>6, <2>9, ZenonT(30)
    <3>2. Associates(r, s, added)
      BY <3>1, ConcatAssociates
    <3>3. QED
      BY <3>2, Zenon DEF Associates
  <2>12. ReadUpTo(b, N) = ReadUpTo(a, N) \o added
    BY <2>6, <2>7, <2>8, <2>9, <2>10, <2>11, ZenonT(30)
  <2>13. QED
    BY <1>1, <1>5, <2>2, <2>3, <2>12 DEF Follows
<1>6. QED
  BY <1>4, <1>5, Zenon

\* A log that stays as it is adds nothing.
LEMMA SameFollows ==
  ASSUME NEW l, LogShape(l), NEW m, m.disk = l.disk, m.file = l.file
  PROVE  Follows(l, m, <<>>)
<1>1. IsSequence(ReadAll(l.disk))
  BY ShapeIsDisk, ReadIsSequence, ZenonT(30)
<1>2. ReadAll(l.disk) \o <<>> = ReadAll(l.disk)
  BY <1>1, ConcatNothing
<1>3. QED
  BY <1>2, Zenon DEF Follows, Frozen

\* A new file adds nothing.
LEMMA OpenFollows ==
  ASSUME NEW l, LogShape(l), l.file = 0, NEW m, m = OpenSegment(l)
  PROVE  Intact(m) /\ Follows(l, m, <<>>)
<1>1. PICK a, b, N : a = l.disk /\ b = m.disk /\ N = Len(a)
  BY Zenon
<1>2. LogShape(m) /\ m.file = N + 1 /\ Longer(a, EmptySegment, b)
  BY <1>1, OpenShape, ZenonT(30)
<1>3. N \in Nat /\ Len(b) = N + 1 /\ b[N + 1] = EmptySegment /\ \A i \in 1..N : b[i] = a[i]
  BY <1>1, <1>2, ZenonT(30) DEF Longer
<1>4. Intact(m)
  BY <1>1, <1>2, <1>3, EmptyRead, ZenonT(30) DEF Intact
<1>5. IsDisk(a) /\ IsDisk(b)
  BY <1>1, <1>2, ShapeIsDisk, ZenonT(30)
<1>6. CASE Frozen(l)
  <2>1. PICK k \in 1..N : StopsReading(a[k])
    BY <1>1, <1>6, Zenon DEF Frozen
  <2>2. k <= N + 1 /\ k \in 1..(N + 1) /\ k # N + 1 /\ \A i \in 1..k : i \in 1..N
    BY <1>3
  <2>3. ReadAll(b) = ReadAll(a)
    BY <1>1, <1>3, <1>5, <2>1, <2>2, ReadNoFurther, ZenonT(30)
  <2>4. Frozen(m)
    BY <1>1, <1>2, <1>3, <2>1, <2>2 DEF Frozen
  <2>5. QED
    BY <1>1, <1>4, <1>6, <2>3, <2>4, ZenonT(30) DEF Follows
<1>7. CASE ~Frozen(l)
  <2>1. \A i \in 1..N : ~StopsReading(a[i])
    <3>1. \A i \in 1..N : i # 0
      OBVIOUS
    <3>2. QED
      BY <1>1, <1>7, <3>1, ZenonT(30) DEF Frozen
  <2>2. \A i \in 1..(N + 1) : i # N + 1 => i \in 1..N
    BY <1>3
  <2>3. ~Frozen(m)
    BY <1>1, <1>2, <1>3, <2>1, <2>2, ZenonT(30) DEF Frozen
  <2>4. ReadAll(a) = ReadUpTo(a, N)
    BY <1>1, <1>5, <2>1, ReadToEnd, ZenonT(30)
  <2>5. ReadAll(b) = ReadUpTo(b, N + 1)
    BY <1>3, <1>5, <2>1, <2>2, ReadToEnd, ZenonT(30)
  <2>6. \A i \in 1..(N + 1) : IsSequence(SegmentRecords(b[i]))
    BY <1>3, <1>5, RecordsFacts, ZenonT(30) DEF IsDisk
  <2>7. N + 1 \in Nat /\ N + 1 \in 1..(N + 1) /\ (N + 1) - 1 = N /\ \A i \in 1..N : i \in 1..(N + 1)
    BY <1>3
  <2>8. ReadUpTo(b, N + 1) = ReadUpTo(b, N) \o <<>>
    <3>1. ReadUpTo(b, N + 1) = ReadUpTo(b, (N + 1) - 1) \o SegmentRecords(b[N + 1])
      BY <2>6, <2>7, ReadUpToSteps, ZenonT(30)
    <3>2. QED
      BY <1>3, <2>7, <3>1, EmptyRead, ZenonT(30)
  <2>9. ReadUpTo(b, N) = ReadUpTo(a, N)
    <3>1. \A i \in 1..N : SegmentRecords(b[i]) = SegmentRecords(a[i]) /\ IsSequence(SegmentRecords(b[i]))
      BY <1>3, <2>6, <2>7
    <3>2. QED
      BY <1>3, <3>1, SameRead, ZenonT(30)
  <2>10. QED
    BY <1>1, <1>4, <1>7, <2>3, <2>4, <2>5, <2>8, <2>9, ZenonT(30) DEF Follows
<1>8. QED
  BY <1>6, <1>7, ZenonT(30)

\* Closing the file adds nothing, and the reader will pass it.
LEMMA CloseFollows ==
  ASSUME NEW l, LogShape(l), Intact(l), l.file # 0, NEW m, m = CloseSegment(l)
  PROVE  m.file = 0 /\ Follows(l, m, <<>>)
<1>1. PICK old : old = l.disk[l.file]
  BY Zenon
<1>2. LogShape(m) /\ m.file = 0
  BY CloseShape, Zenon
<1>3. PICK new : ClosedAs(old, new) /\ Replaced(l.disk, l.file, new, m.disk)
  BY <1>1, CloseShape, ZenonT(30)
<1>4. IsSequence(old.frames) /\ OnlyRecords(old)
  BY <1>1, OpenFile, ZenonT(30) DEF Intact, SegmentShape
<1>5. SegmentRecords(new) = SegmentRecords(old) /\ ~StopsReading(new) /\ IsSequence(SegmentRecords(old))
  BY <1>3, <1>4, ClosedRead, RecordsFacts, ZenonT(30)
<1>6. SegmentRecords(new) = SegmentRecords(old) \o <<>>
  BY <1>5, ConcatNothing, ZenonT(30)
<1>7. Follows(l, m, <<>>)
  BY <1>1, <1>2, <1>3, <1>5, <1>6, NoElements, ReplacedFollows, ZenonT(30)
<1>8. QED
  BY <1>2, <1>7, ZenonT(30)

\* A record adds itself.
LEMMA RecordFollows ==
  ASSUME NEW l, LogShape(l), Intact(l), l.file # 0, NEW payload, NEW size \in Nat,
         NEW m, m = WriteRecord(l, payload, size)
  PROVE  Intact(m) /\ Follows(l, m, <<payload>>)
<1>1. PICK old : old = l.disk[l.file]
  BY Zenon
<1>2. LogShape(m) /\ m.file = l.file
  BY RecordShape
<1>3. PICK new : Written(old, Frame("record", payload, size), new) /\ Replaced(l.disk, l.file, new, m.disk)
  BY <1>1, RecordShape, Zenon
<1>4. IsSequence(old.frames) /\ OnlyRecords(old)
  BY <1>1, OpenFile, Zenon DEF Intact, SegmentShape
<1>5. OnlyRecords(new) /\ Longer(SegmentRecords(old), payload, SegmentRecords(new))
  BY <1>3, <1>4, WrittenRead, ZenonT(30) DEF Written
<1>6. SegmentRecords(new) = SegmentRecords(old) \o <<payload>>
  <2>1. PICK s, t, u : s = SegmentRecords(old) /\ t = SegmentRecords(new) /\ u = s \o <<payload>>
    BY Zenon
  <2>2. IsSequence(s) /\ IsSequence(<<payload>>) /\ Len(<<payload>>) = 1 /\ <<payload>>[1] = payload
    BY <1>4, <2>1, RecordsFacts, OneElement, ZenonT(30)
  <2>3. Joined(s, <<payload>>, u)
    BY <2>1, <2>2, ConcatJoins, ZenonT(30)
  <2>4. IsSequence(u) /\ Len(u) = Len(s) + 1 /\ u[Len(s) + 1] = payload /\ \A i \in 1..Len(s) : u[i] = s[i]
    BY <2>2, <2>3 DEF Joined
  <2>5. IsSequence(t) /\ Len(t) = Len(s) + 1 /\ Len(s) \in Nat /\ t[Len(s) + 1] = payload /\ \A i \in 1..Len(s) : t[i] = s[i]
    BY <1>5, <2>1, Zenon DEF Longer
  <2>6. \A i \in 1..Len(t) : t[i] = u[i]
    <3>1. \A i \in 1..(Len(s) + 1) : i \in 1..Len(s) \/ i = Len(s) + 1
      BY <2>5
    <3>2. QED
      BY <2>4, <2>5, <3>1, Zenon
  <2>7. t = u
    BY <2>4, <2>5, <2>6, SameSequence
  <2>8. QED
    BY <2>1, <2>7, ZenonT(30)
<1>7. Follows(l, m, <<payload>>)
  <2>1. m.file # 0
    BY <1>2, Zenon
  <2>2. QED
    BY <1>1, <1>2, <1>3, <1>6, <2>1, OneElement, ReplacedFollows, ZenonT(30)
<1>8. Intact(m)
  <2>1. m.disk[m.file] = new
    BY <1>2, <1>3, ZenonT(30) DEF Replaced
  <2>2. QED
    BY <1>5, <2>1 DEF Intact
<1>9. QED
  BY <1>7, <1>8, ZenonT(30)

\* sync() and close() add nothing.
LEMMA SyncFollows ==
  ASSUME NEW l, LogShape(l), Intact(l), NEW m, m = SyncLog(l) \/ m = CloseLog(l)
  PROVE  Intact(m) /\ Follows(l, m, <<>>)
<1>1. CASE l.file = 0
  <2>1. m = l
    BY <1>1, Zenon DEF SyncLog, CloseLog
  <2>2. QED
    BY <2>1, SameFollows
<1>2. CASE l.file # 0 /\ m = CloseLog(l)
  <2>1. m = CloseSegment(l)
    BY <1>2, ZenonT(30) DEF CloseLog
  <2>2. m.file = 0 /\ Follows(l, m, <<>>)
    BY <1>2, <2>1, CloseFollows, ZenonT(30)
  <2>3. QED
    BY <2>2, Zenon DEF Intact
<1>3. CASE l.file # 0 /\ m = SyncLog(l)
  <2>1. PICK old : old = l.disk[l.file]
    BY Zenon
  <2>2. LogShape(m) /\ m.file = l.file
    BY <1>3, SyncShape, ZenonT(30)
  <2>3. PICK new : Flushed(old, new) /\ Replaced(l.disk, l.file, new, m.disk)
    BY <1>3, <2>1, SyncShape, ZenonT(30)
  <2>4. IsSequence(old.frames) /\ OnlyRecords(old)
    BY <1>3, <2>1, OpenFile, ZenonT(30) DEF Intact, SegmentShape
  <2>5. SegmentRecords(new) = SegmentRecords(old) /\ OnlyRecords(new) /\ IsSequence(SegmentRecords(old))
    BY <2>3, <2>4, FlushedRead, RecordsFacts, ZenonT(30) DEF Flushed
  <2>6. SegmentRecords(new) = SegmentRecords(old) \o <<>>
    BY <2>5, ConcatNothing, ZenonT(30)
  <2>7. Follows(l, m, <<>>)
    <3>1. m.file # 0
      BY <1>3, <2>2, ZenonT(30)
    <3>2. QED
      BY <1>3, <2>1, <2>2, <2>3, <2>6, <3>1, NoElements, ReplacedFollows, ZenonT(30)
  <2>8. Intact(m)
    <3>1. m.disk[m.file] = new
      BY <2>2, <2>3, ZenonT(30) DEF Replaced
    <3>2. QED
      BY <2>5, <3>1 DEF Intact
  <2>9. QED
    BY <2>7, <2>8, ZenonT(30)
<1>4. QED
  BY <1>1, <1>2, <1>3, ZenonT(30)

\* append() adds its record if it returns ok, and otherwise nothing.
LEMMA AppendFollows ==
  ASSUME NEW l, LogShape(l), Intact(l), NEW payload, NEW size \in Nat,
         NEW r, r = AppendRecord(l, payload, size)
  PROVE  /\ Intact(r.log)
         /\ r.ok => Follows(l, r.log, <<payload>>)
         /\ ~r.ok => Follows(l, r.log, <<>>)
<1>1. PICK p : p = PrepareAppend(l, size).log
  BY Zenon
<1>2. LogShape(p) /\ p.file # 0
  BY <1>1, PrepareShape, ZenonT(30)
<1>3. Intact(p) /\ Follows(l, p, <<>>)
  <2>1. CASE p = l
    BY <2>1, SameFollows, Zenon
  <2>2. CASE l.file = 0 /\ p = OpenSegment(l)
    BY <2>2, OpenFollows, ZenonT(30)
  <2>3. ASSUME l.file # 0, NEW closed, closed = CloseSegment(l), p = OpenSegment(closed)
        PROVE  Intact(p) /\ Follows(l, p, <<>>)
    <3>1. closed.file = 0 /\ Follows(l, closed, <<>>) /\ LogShape(closed)
      BY <2>3, CloseFollows, CloseShape, ZenonT(30)
    <3>2. Intact(p) /\ Follows(closed, p, <<>>)
      BY <2>3, <3>1, OpenFollows, ZenonT(30)
    <3>3. IsDisk(l.disk) /\ <<>> \o <<>> = <<>>
      BY ShapeIsDisk, NoElements, ConcatNothing, ZenonT(30)
    <3>4. Follows(l, p, <<>> \o <<>>)
      BY <3>1, <3>2, <3>3, NoElements, FollowsTwice, ZenonT(30)
    <3>5. QED
      BY <3>2, <3>3, <3>4, ZenonT(30)
  <2>4. QED
    BY <1>1, <2>1, <2>2, <2>3, PrepareCases
<1>4. PICK accepted : accepted = PrepareAppend(l, size).accepted
  BY Zenon
<1>5. r.ok = accepted /\ r.log = IF accepted THEN WriteRecord(p, payload, size) ELSE p
  BY <1>1, <1>4, ZenonT(30) DEF AppendRecord
<1>6. CASE accepted
  <2>1. PICK m : m = WriteRecord(p, payload, size)
    BY Zenon
  <2>2. Intact(m) /\ Follows(p, m, <<payload>>)
    BY <1>2, <1>3, <2>1, RecordFollows
  <2>3. IsDisk(l.disk) /\ IsSequence(<<payload>>) /\ <<>> \o <<payload>> = <<payload>>
    BY ShapeIsDisk, OneElement
  <2>4. Follows(l, m, <<>> \o <<payload>>)
    BY <1>3, <2>2, <2>3, NoElements, FollowsTwice, ZenonT(30)
  <2>5. r.log = m /\ r.ok
    BY <1>5, <1>6, <2>1, ZenonT(30)
  <2>6. QED
    BY <1>5, <2>2, <2>3, <2>4, <2>5, ZenonT(30)
<1>7. CASE ~accepted
  BY <1>3, <1>5, <1>7, ZenonT(30)
<1>8. QED
  BY <1>6, <1>7

Shortened(a, b) == \E k \in 0..Len(a) : Cut(a, k, b)

\* After a crash the reader returns a prefix of what it would have returned.
LEMMA CrashFollows ==
  ASSUME NEW l, LogShape(l), Intact(l), NEW disk \in CrashedDisks(l.disk)
  PROVE  Shortened(ReadAll(l.disk), ReadAll(disk))
<1>1. PICK a, N, m : a = l.disk /\ N = Len(a) /\ m = NewLog(disk)
  BY Zenon
<1>2. LogShape(m) /\ m.disk = disk
  BY <1>1, CrashShape
<1>3. IsDisk(a) /\ IsDisk(disk) /\ N \in Nat
  BY <1>1, <1>2, ShapeIsDisk, SequenceFacts, Zenon DEF IsDisk
<1>4. IsSequence(ReadAll(a)) /\ Len(ReadAll(a)) \in Nat
  BY <1>3, ReadIsSequence, SequenceFacts, Zenon
<1>5. ASSUME ReadAll(disk) = ReadAll(a) PROVE \E k \in 0..Len(ReadAll(a)) : Cut(ReadAll(a), k, ReadAll(disk))
  <2>1. Cut(ReadAll(a), Len(ReadAll(a)), ReadAll(disk))
    BY <1>4, <1>5, Zenon DEF Cut
  <2>2. QED
    BY <1>4, <2>1
<1>6. ASSUME disk = a PROVE \E k \in 0..Len(ReadAll(a)) : Cut(ReadAll(a), k, ReadAll(disk))
  BY <1>1, <1>5, <1>6, Zenon
<1>7. ASSUME l.file # 0, NEW new, NEW n, CrashedAs(a[l.file], n, new), Replaced(a, l.file, new, disk)
      PROVE  \E k \in 0..Len(ReadAll(a)) : Cut(ReadAll(a), k, ReadAll(disk))
  <2>1. /\ l.file = N /\ N >= 1 /\ SegmentShape(a[N]) /\ OnlyRecords(a[N])
        /\ Len(disk) = N /\ disk[N] = new /\ \A i \in 1..N : i # N => disk[i] = a[i]
    BY <1>1, <1>3, <1>7, OpenFile DEF Replaced, Intact
  <2>2. CASE Frozen(l)
    <3>1. PICK k \in 1..N : k # N /\ StopsReading(a[k])
      BY <1>1, <2>1, <2>2, Zenon DEF Frozen
    <3>2. k <= N /\ k < N /\ \A i \in 1..k : i \in 1..N /\ i # N
      BY <1>3, <3>1
    <3>3. ReadAll(disk) = ReadAll(a)
      BY <1>1, <1>3, <2>1, <3>1, <3>2, ReadNoFurther
    <3>4. QED
      BY <1>5, <3>3, Zenon
  <2>3. CASE ~Frozen(l)
    <3>1. \A i \in 1..N : i # N => ~StopsReading(a[i])
      BY <1>1, <2>1, <2>3, Zenon DEF Frozen
    <3>2. ReadAll(a) = ReadUpTo(a, N) /\ ReadAll(disk) = ReadUpTo(disk, N)
      BY <1>1, <1>3, <2>1, <3>1, ReadToEnd, Zenon
    <3>3. /\ \A i \in 1..N : IsSequence(SegmentRecords(a[i]))
          /\ \A i \in 1..N : IsSequence(SegmentRecords(disk[i]))
      BY <1>1, <1>3, <2>1, RecordsFacts, Zenon DEF IsDisk
    <3>4. N \in 1..N /\ N - 1 \in 0..N /\ N - 1 \in Nat /\ \A i \in 1..(N - 1) : i \in 1..N /\ i # N
      BY <1>3, <2>1
    <3>5. ReadUpTo(a, N) = ReadUpTo(a, N - 1) \o SegmentRecords(a[N]) /\ IsSequence(ReadUpTo(a, N - 1))
      BY <1>3, <3>3, <3>4, ReadUpToSteps, Zenon
    <3>6. ReadUpTo(disk, N) = ReadUpTo(disk, N - 1) \o SegmentRecords(disk[N])
      BY <1>3, <3>3, <3>4, ReadUpToSteps, Zenon
    <3>7. ReadUpTo(a, N - 1) = ReadUpTo(disk, N - 1)
      <4>1. \A i \in 1..(N - 1) : SegmentRecords(a[i]) = SegmentRecords(disk[i]) /\ IsSequence(SegmentRecords(a[i]))
        BY <2>1, <3>3, <3>4, Zenon
      <4>2. QED
        BY <3>4, <4>1, SameRead, Zenon
    <3>8. PICK r, s, t : r = ReadUpTo(a, N - 1) /\ s = SegmentRecords(a[N]) /\ t = SegmentRecords(new)
      BY Zenon
    <3>9. IsSequence(r) /\ IsSequence(s) /\ IsSequence(t)
      BY <2>1, <3>3, <3>4, <3>5, <3>8, Zenon
    <3>10. PICK j \in 0..Len(s) : Cut(s, j, t)
      <4>1. IsSequence(a[N].frames) /\ a[N].durable \in Nat
        BY <2>1, SequenceFacts DEF SegmentShape
      <4>2. QED
        BY <1>7, <2>1, <3>8, <4>1, CrashedRead, Zenon
    <3>11. PICK u, v : u = r \o s /\ v = r \o t
      BY Zenon
    <3>12. Joined(r, s, u) /\ Joined(r, t, v)
      BY <3>9, <3>11, ConcatJoins, Zenon
    <3>13. Len(r) \in Nat /\ Len(s) \in Nat /\ Len(t) = j /\ \A i \in 1..j : t[i] = s[i]
      BY <3>9, <3>10, SequenceFacts, Zenon DEF Cut
    <3>14. /\ IsSequence(v) /\ Len(v) = Len(r) + j /\ Len(u) = Len(r) + Len(s)
           /\ \A i \in 1..Len(r) : v[i] = r[i] /\ u[i] = r[i]
           /\ \A i \in 1..Len(s) : u[Len(r) + i] = s[i]
           /\ \A i \in 1..j : v[Len(r) + i] = t[i]
      BY <3>12, <3>13, Zenon DEF Joined
    <3>15. ASSUME NEW i \in 1..(Len(r) + j) PROVE v[i] = u[i]
      <4>1. CASE i \in 1..Len(r)
        BY <3>14, <4>1, Zenon
      <4>2. CASE i \notin 1..Len(r)
        <5>1. PICK h \in 1..j : i = Len(r) + h /\ h \in 1..Len(s)
          <6>1. i - Len(r) \in 1..j /\ i = Len(r) + (i - Len(r)) /\ i - Len(r) \in 1..Len(s)
            BY <3>10, <3>13, <4>2
          <6>2. QED
            BY <6>1, Zenon
        <5>2. QED
          BY <3>13, <3>14, <5>1, ZenonT(30)
      <4>3. QED
        BY <4>1, <4>2, Zenon
    <3>16. Len(r) + j \in 0..Len(u) /\ Len(r) + j \in Nat
      BY <3>10, <3>13, <3>14
    <3>17. Cut(u, Len(r) + j, v)
      BY <3>14, <3>15, <3>16, ZenonT(30) DEF Cut
    <3>18. ReadAll(a) = u /\ ReadAll(disk) = v
      BY <2>1, <3>2, <3>5, <3>6, <3>7, <3>8, <3>11, ZenonT(30)
    <3>19. QED
      BY <3>16, <3>17, <3>18, Zenon
  <2>4. QED
    BY <2>2, <2>3, Zenon
<1>8. \/ disk = a
      \/ l.file # 0 /\ \E new, n : CrashedAs(a[l.file], n, new) /\ Replaced(a, l.file, new, disk)
  BY <1>1, CrashShape, Zenon
<1>9. \E k \in 0..Len(ReadAll(a)) : Cut(ReadAll(a), k, ReadAll(disk))
  BY <1>6, <1>7, <1>8, Zenon
<1>10. QED
  BY <1>1, <1>9, Zenon DEF Shortened

-----------------------------------------------------------------------------
(* What has been written stays, as long as the process lives.               *)

Extends(old, new) ==
  Len(old.frames) <= Len(new.frames) /\ \A j \in 1..Len(old.frames) : new.frames[j] = old.frames[j]

FramesKept(old, new) == Len(old) <= Len(new) /\ \A i \in 1..Len(old) : Extends(old[i], new[i])

\* A record that has been written is still there.
LEMMA WrittenGrows ==
  ASSUME NEW a, IsDisk(a), NEW b, IsDisk(b), FramesKept(a, b)
  PROVE  WrittenRecords(a) \subseteq WrittenRecords(b)
<1>1. SUFFICES ASSUME NEW x \in WrittenRecords(a) PROVE x \in WrittenRecords(b)
  BY Zenon
<1>2. Len(a) \in Nat /\ Len(b) \in Nat /\ Len(a) <= Len(b)
  BY SequenceFacts, Zenon DEF IsDisk, FramesKept
<1>3. PICK i \in 1..Len(a) : x \in RecordsWithin(a[i], Len(a[i].frames))
  BY <1>1, Zenon DEF WrittenRecords
<1>4. PICK j \in RecordsOf(a[i]) : x = a[i].frames[j].payload
  BY <1>3, Zenon DEF RecordsWithin
<1>5. Extends(a[i], b[i]) /\ i \in 1..Len(b)
  BY <1>2 DEF FramesKept
<1>6. Len(a[i].frames) \in Nat /\ Len(b[i].frames) \in Nat
  BY <1>5, SequenceFacts, Zenon DEF IsDisk
<1>7. j \in 1..Len(a[i].frames) /\ a[i].frames[j].kind = "record"
  BY Zenon DEF RecordsOf
<1>8. j \in 1..Len(b[i].frames) /\ b[i].frames[j] = a[i].frames[j]
  BY <1>5, <1>6, <1>7 DEF Extends
<1>9. j \in RecordsOf(b[i])
  BY <1>7, <1>8, Zenon DEF RecordsOf
<1>10. x \in RecordsWithin(b[i], Len(b[i].frames))
  BY <1>4, <1>8, <1>9, ZenonT(30) DEF RecordsWithin
<1>11. QED
  BY <1>5, <1>10, Zenon DEF WrittenRecords

\* A frame more in the open file, or none, keeps what the other files hold.
LEMMA ReplacedExtends ==
  ASSUME NEW l, LogShape(l), l.file # 0, NEW new, NEW disk, Replaced(l.disk, l.file, new, disk), Extends(l.disk[l.file], new)
  PROVE  FramesKept(l.disk, disk)
<1>1. ASSUME NEW i \in 1..Len(l.disk) PROVE Extends(l.disk[i], disk[i])
  <2>1. CASE i = l.file
    BY <2>1, Zenon DEF Replaced
  <2>2. CASE i # l.file
    <3>1. disk[i] = l.disk[i]
      BY <2>2, Zenon DEF Replaced
    <3>2. Len(l.disk[i].frames) \in Nat
      BY ShapeIsDisk, SequenceFacts, ZenonT(30) DEF IsDisk
    <3>3. QED
      BY <3>1, <3>2 DEF Extends
  <2>3. QED
    BY <2>1, <2>2, Zenon
<1>2. QED
  BY <1>1 DEF FramesKept, Replaced

\* One frame more.
LEMMA LongerExtends ==
  ASSUME NEW old, NEW frame, NEW new, Longer(old.frames, frame, new.frames)
  PROVE  Extends(old, new)
  BY DEF Longer, Extends

\* A new file keeps what the others hold.
LEMMA OpenWrites ==
  ASSUME NEW l, LogShape(l), l.file = 0, NEW m, m = OpenSegment(l)
  PROVE  WrittenRecords(l.disk) \subseteq WrittenRecords(m.disk)
<1>1. LogShape(m) /\ Longer(l.disk, EmptySegment, m.disk)
  BY OpenShape, Zenon
<1>2. IsDisk(l.disk) /\ IsDisk(m.disk)
  BY <1>1, ShapeIsDisk, ZenonT(30)
<1>3. ASSUME NEW i \in 1..Len(l.disk) PROVE Extends(l.disk[i], m.disk[i])
  <2>1. m.disk[i] = l.disk[i] /\ Len(l.disk[i].frames) \in Nat
    BY <1>1, <1>2, SequenceFacts, ZenonT(30) DEF Longer, IsDisk
  <2>2. QED
    BY <2>1 DEF Extends
<1>4. FramesKept(l.disk, m.disk)
  BY <1>1, <1>3 DEF FramesKept, Longer
<1>5. QED
  BY <1>2, <1>4, WrittenGrows, ZenonT(30)

\* So does closing one.
LEMMA CloseWrites ==
  ASSUME NEW l, LogShape(l), l.file # 0, NEW m, m = CloseSegment(l)
  PROVE  WrittenRecords(l.disk) \subseteq WrittenRecords(m.disk)
<1>1. LogShape(m)
  BY CloseShape, Zenon
<1>2. PICK new : ClosedAs(l.disk[l.file], new) /\ Replaced(l.disk, l.file, new, m.disk)
  BY CloseShape, Zenon
<1>3. Extends(l.disk[l.file], new)
  BY <1>2, LongerExtends, ZenonT(30) DEF ClosedAs
<1>4. QED
  BY <1>1, <1>2, <1>3, ReplacedExtends, ShapeIsDisk, WrittenGrows

\* And a flush.
LEMMA SyncWrites ==
  ASSUME NEW l, LogShape(l), NEW m, m = SyncLog(l)
  PROVE  WrittenRecords(l.disk) \subseteq WrittenRecords(m.disk)
<1>1. CASE l.file = 0
  BY <1>1, Zenon DEF SyncLog
<1>2. CASE l.file # 0
  <2>1. LogShape(m)
    BY <1>2, SyncShape
  <2>2. PICK new : Flushed(l.disk[l.file], new) /\ Replaced(l.disk, l.file, new, m.disk)
    BY <1>2, SyncShape
  <2>3. Len(l.disk[l.file].frames) \in Nat
    BY <1>2, OpenFile, SequenceFacts, ZenonT(30) DEF SegmentShape
  <2>4. Extends(l.disk[l.file], new)
    BY <2>2, <2>3 DEF Flushed, Extends
  <2>5. QED
    BY <1>2, <2>1, <2>2, <2>4, ReplacedExtends, ShapeIsDisk, WrittenGrows, ZenonT(30)
<1>3. QED
  BY <1>1, <1>2, ZenonT(30)

\* append() keeps what is written, and adds its record when it returns ok.
LEMMA AppendWrites ==
  ASSUME NEW l, LogShape(l), NEW payload, NEW size \in Nat, NEW r, r = AppendRecord(l, payload, size)
  PROVE  /\ WrittenRecords(l.disk) \subseteq WrittenRecords(r.log.disk)
         /\ r.ok => payload \in WrittenRecords(r.log.disk)
<1>1. PICK p : p = PrepareAppend(l, size).log
  BY Zenon
<1>2. LogShape(p) /\ p.file # 0
  BY <1>1, PrepareShape
<1>3. WrittenRecords(l.disk) \subseteq WrittenRecords(p.disk)
  <2>1. CASE p = l
    BY <2>1, Zenon
  <2>2. CASE l.file = 0 /\ p = OpenSegment(l)
    BY <2>2, OpenWrites
  <2>3. ASSUME l.file # 0, NEW closed, closed = CloseSegment(l), p = OpenSegment(closed)
        PROVE  WrittenRecords(l.disk) \subseteq WrittenRecords(p.disk)
    <3>1. closed.file = 0 /\ LogShape(closed) /\ WrittenRecords(l.disk) \subseteq WrittenRecords(closed.disk)
      BY <2>3, CloseShape, CloseWrites, ZenonT(30)
    <3>2. WrittenRecords(closed.disk) \subseteq WrittenRecords(p.disk)
      BY <2>3, <3>1, OpenWrites
    <3>3. QED
      BY <3>1, <3>2, ZenonT(30)
  <2>4. QED
    BY <1>1, <2>1, <2>2, <2>3, PrepareCases
<1>4. PICK m : m = WriteRecord(p, payload, size)
  BY Zenon
<1>5. LogShape(m) /\ m.file = p.file
  BY <1>2, <1>4, RecordShape
<1>6. PICK new : Written(p.disk[p.file], Frame("record", payload, size), new) /\ Replaced(p.disk, p.file, new, m.disk)
  BY <1>2, <1>4, RecordShape, Zenon
<1>7. WrittenRecords(p.disk) \subseteq WrittenRecords(m.disk)
  <2>1. Extends(p.disk[p.file], new)
    BY <1>6, LongerExtends, ZenonT(30) DEF Written
  <2>2. QED
    BY <1>2, <1>5, <1>6, <2>1, ReplacedExtends, ShapeIsDisk, WrittenGrows, ZenonT(30)
<1>8. payload \in WrittenRecords(m.disk)
  <2>1. PICK N, frame : N = Len(p.disk[p.file].frames) /\ frame = Frame("record", payload, size)
    BY Zenon
  <2>2. frame.kind = "record" /\ frame.payload = payload
    BY <2>1, ZenonT(30) DEF Frame
  <2>3. N \in Nat /\ Len(new.frames) = N + 1 /\ new.frames[N + 1] = frame
    BY <1>6, <2>1, ZenonT(30) DEF Written, Longer
  <2>4. N + 1 \in 1..Len(new.frames)
    BY <2>3
  <2>5. N + 1 \in RecordsOf(new)
    BY <2>2, <2>3, <2>4 DEF RecordsOf
  <2>6. payload \in RecordsWithin(new, Len(new.frames))
    BY <2>2, <2>3, <2>4, <2>5 DEF RecordsWithin
  <2>7. m.file \in 1..Len(m.disk) /\ m.disk[m.file] = new
    BY <1>2, <1>5, <1>6, OpenFile, ZenonT(30) DEF Replaced
  <2>8. QED
    BY <2>6, <2>7 DEF WrittenRecords
<1>9. r.log = IF r.ok THEN m ELSE p
  BY <1>1, <1>4 DEF AppendRecord
<1>10. QED
  BY <1>3, <1>7, <1>8, <1>9

-----------------------------------------------------------------------------
(* The loops of the engine over the elements of a sequence.                 *)

\* load_store() with a decoder that refuses nothing: what the registries make of the records.
ReplayRecord(memory, p) == IF memory.ok THEN Register(memory, p) ELSE memory

Replay(payloads) ==
  LET after[n \in 0..Len(payloads)] ==
        IF n = 0 THEN EmptyMemory ELSE ReplayRecord(after[n - 1], payloads[n])
  IN  after[Len(payloads)]

LoopStep(kind, arg, st, x) ==
  CASE kind = "load" -> LoadRecord(st, x)
    [] kind = "replay" -> ReplayRecord(st, x)
    [] kind = "persist" -> Persist(st, x)
    [] kind = "admit" -> Admit(st, x)
    [] kind = "fences" -> st \o HeldFence(arg, x)

\* f[i] is what the loop has come to after the first i elements.
Looped(kind, arg, base, s, n, f) ==
  f = [i \in 0..n |-> IF i = 0 THEN base ELSE LoopStep(kind, arg, f[i - 1], s[i])]

Stepped(kind, arg, base, s, n, f) ==
  f[0] = base /\ \A i \in 1..n : f[i] = LoopStep(kind, arg, f[i - 1], s[i])

\* What such a function is before the first element and after each.
LEMMA LoopValues ==
  ASSUME NEW kind, NEW arg, NEW base, NEW s, NEW n \in Nat, NEW f, Looped(kind, arg, base, s, n, f)
  PROVE  Stepped(kind, arg, base, s, n, f)
<1>1. \A i \in 0..n : f[i] = IF i = 0 THEN base ELSE LoopStep(kind, arg, f[i - 1], s[i])
  BY Zenon DEF Looped
<1>2. 0 \in 0..n /\ \A i \in 1..n : i \in 0..n /\ i # 0
  OBVIOUS
<1>3. QED
  BY <1>1, <1>2, Zenon DEF Stepped

\* Every loop over a sequence comes to its end.
LEMMA LoopExists ==
  ASSUME NEW kind, NEW arg, NEW base, NEW s, NEW N \in Nat
  PROVE  \E f : Looped(kind, arg, base, s, N, f)
<1> DEFINE Good == {n \in Nat : \E f : Looped(kind, arg, base, s, n, f)}
<1>1. 0 \in Good
  <2> DEFINE f == [i \in 0..0 |-> base]
  <2>1. f = [i \in 0..0 |-> IF i = 0 THEN base ELSE LoopStep(kind, arg, f[i - 1], s[i])]
    OBVIOUS
  <2> HIDE DEF f
  <2>2. Looped(kind, arg, base, s, 0, f)
    BY <2>1, Zenon DEF Looped
  <2>3. QED
    BY <2>2, ZenonT(30)
<1>2. ASSUME NEW k \in 0..N, k # N, NEW f, Looped(kind, arg, base, s, k, f)
      PROVE \E h : Looped(kind, arg, base, s, k + 1, h)
  <2> DEFINE h == [i \in 0..(k + 1) |-> IF i = 0 THEN base ELSE LoopStep(kind, arg, f[i - 1], s[i])]
  <2>1. ASSUME NEW i \in 0..k PROVE h[i] = f[i]
    <3>1. f[i] = IF i = 0 THEN base ELSE LoopStep(kind, arg, f[i - 1], s[i])
      BY <1>2, Zenon DEF Looped
    <3>2. i \in 0..(k + 1)
      OBVIOUS
    <3>3. QED
      BY <3>1, <3>2, Zenon
  <2>2. ASSUME NEW i \in 0..(k + 1)
        PROVE h[i] = IF i = 0 THEN base ELSE LoopStep(kind, arg, h[i - 1], s[i])
    <3>1. CASE i = 0
      BY <3>1, ZenonT(30)
    <3>2. CASE i # 0
      <4>1. i - 1 \in 0..k
        BY <3>2
      <4>2. h[i] = LoopStep(kind, arg, f[i - 1], s[i])
        BY <3>2, Zenon
      <4> HIDE DEF h
      <4>3. h[i - 1] = f[i - 1]
        BY <2>1, <4>1, Zenon
      <4>4. QED
        BY <3>2, <4>2, <4>3, Zenon
    <3>3. QED
      BY <3>1, <3>2, ZenonT(30)
  <2>3. h = [i \in 0..(k + 1) |-> h[i]]
    BY Zenon
  <2> HIDE DEF h
  <2>4. Looped(kind, arg, base, s, k + 1, h)
    BY <2>2, <2>3, Zenon DEF Looped
  <2>5. QED
    BY <2>4, Zenon
<1>3. \A k \in 0..N : k # N /\ k \in Good => k + 1 \in Good
  BY <1>2
<1> HIDE DEF Good
<1>4. \A n \in 0..N : n \in Good
  BY <1>1, <1>3, Reaches, Zenon
<1>5. N \in Good
  BY <1>4
<1>6. QED
  BY <1>5, Zenon DEF Good

Agree(s, t, n) == \A i \in 1..n : s[i] = t[i]

Meet(f, g, n) == f[n] = g[n]

\* Two loops whose sequences agree for a while agree for as long.
LEMMA LoopsAgree ==
  ASSUME NEW kind, NEW arg, NEW base, NEW s, NEW t, NEW n \in Nat, NEW m \in Nat, n <= m,
         Agree(s, t, n), NEW f, Looped(kind, arg, base, s, n, f), NEW g, Looped(kind, arg, base, t, m, g)
  PROVE  Meet(f, g, n)
<1> DEFINE Good == {k \in Nat : f[k] = g[k]}
<1>1. Stepped(kind, arg, base, s, n, f) /\ Stepped(kind, arg, base, t, m, g)
  BY LoopValues, Zenon
<1>3. 0 \in Good
  BY <1>1, ZenonT(30) DEF Stepped
<1>4. ASSUME NEW k \in 0..n, k # n, k \in Good PROVE k + 1 \in Good
  <2>1. k + 1 \in 1..n /\ k + 1 \in 1..m /\ (k + 1) - 1 = k /\ k + 1 \in Nat
    BY <1>4
  <2>2. f[k + 1] = LoopStep(kind, arg, f[k], s[k + 1]) /\ g[k + 1] = LoopStep(kind, arg, g[k], t[k + 1])
    BY <1>1, <2>1, ZenonT(30) DEF Stepped
  <2>3. f[k + 1] = g[k + 1]
    BY <1>4, <2>1, <2>2, ZenonT(30) DEF Agree
  <2>4. QED
    BY <2>1, <2>3, ZenonT(30)
<1> HIDE DEF Good
<1>5. \A k \in 0..n : k \in Good
  BY <1>3, <1>4, Reaches
<1>6. n \in Good
  BY <1>5
<1>7. QED
  BY <1>6, ZenonT(30) DEF Good, Meet

-----------------------------------------------------------------------------
(* load_store().                                                            *)

ReplayLoop(s, n, f) == f = [i \in 0..n |-> IF i = 0 THEN EmptyMemory ELSE ReplayRecord(f[i - 1], s[i])]

\* The replay is one of those loops.
LEMMA ReplayIsLoop ==
  ASSUME NEW s, NEW n, NEW f
  PROVE  ReplayLoop(s, n, f) <=> Looped("replay", 0, EmptyMemory, s, n, f)
<1>1. \A st, x : LoopStep("replay", 0, st, x) = ReplayRecord(st, x)
  BY Zenon DEF LoopStep
<1>2. [i \in 0..n |-> IF i = 0 THEN EmptyMemory ELSE ReplayRecord(f[i - 1], s[i])]
        = [i \in 0..n |-> IF i = 0 THEN EmptyMemory ELSE LoopStep("replay", 0, f[i - 1], s[i])]
  BY <1>1, ZenonT(30)
<1>3. QED
  BY <1>2, Zenon DEF ReplayLoop, Looped

\* What the replay has come to after each record, for a sequence and for its beginnings.
ReplayedBy(s, g) ==
  /\ g[0] = EmptyMemory
  /\ \A i \in 1..Len(s) : g[i] = ReplayRecord(g[i - 1], s[i])
  /\ \A n \in 0..Len(s) : \A t : Cut(s, n, t) => Replay(t) = g[n]

\* The replay goes record by record: a shorter log leaves what a longer one had come to.
LEMMA ReplaySteps ==
  ASSUME NEW s, IsSequence(s)
  PROVE  \E g : ReplayedBy(s, g) /\ Replay(s) = g[Len(s)]
<1>1. Len(s) \in Nat
  BY SequenceFacts, ZenonT(30)
<1>2. PICK g : Looped("replay", 0, EmptyMemory, s, Len(s), g)
  BY <1>1, LoopExists, Zenon
<1>3. Stepped("replay", 0, EmptyMemory, s, Len(s), g)
  BY <1>1, <1>2, LoopValues, Zenon
<1>4. \A st, x : LoopStep("replay", 0, st, x) = ReplayRecord(st, x)
  BY Zenon DEF LoopStep
<1>5. ASSUME NEW n \in 0..Len(s), NEW t, Cut(s, n, t) PROVE Replay(t) = g[n]
  <2>1. n \in Nat /\ n <= Len(s) /\ Len(t) = n /\ Agree(t, s, n)
    BY <1>1, <1>5 DEF Cut, Agree
  <2>2. \E f : ReplayLoop(t, n, f)
    BY <2>1, LoopExists, ReplayIsLoop, Zenon
  <2>3. PICK f : f = CHOOSE h : ReplayLoop(t, n, h)
    BY Zenon
  <2>4. Looped("replay", 0, EmptyMemory, t, n, f)
    BY <2>2, <2>3, ReplayIsLoop, Zenon
  <2>5. Replay(t) = f[n]
    BY <2>1, <2>3, Zenon DEF Replay, ReplayLoop
  <2>6. Meet(f, g, n)
    BY <1>1, <1>2, <2>1, <2>4, LoopsAgree, ZenonT(30)
  <2>7. QED
    BY <2>5, <2>6, Zenon DEF Meet
<1>6. ReplayedBy(s, g)
  BY <1>3, <1>4, <1>5, Zenon DEF ReplayedBy, Stepped
<1>7. Cut(s, Len(s), s)
  BY <1>1, Zenon DEF Cut
<1>8. Replay(s) = g[Len(s)]
  BY <1>1, <1>5, <1>7
<1>9. QED
  BY <1>6, <1>8, Zenon

\* An empty store replays to the empty memory.
LEMMA ReplayNothing == Replay(<<>>) = EmptyMemory
<1>1. PICK g : ReplayedBy(<<>>, g) /\ Replay(<<>>) = g[Len(<<>>)]
  BY NoElements, ReplaySteps, Zenon
<1>2. QED
  BY <1>1, NoElements, Zenon DEF ReplayedBy

\* One record more at the end of the log is one step more of the replay.
LEMMA ReplayOneMore ==
  ASSUME NEW s, IsSequence(s), NEW p, NEW u, u = s \o <<p>>
  PROVE  Replay(u) = ReplayRecord(Replay(s), p)
<1>1. /\ IsSequence(u) /\ Len(u) = Len(s) + 1 /\ Len(s) \in Nat
      /\ u[Len(s) + 1] = p /\ \A i \in 1..Len(s) : u[i] = s[i]
  <2>1. IsSequence(<<p>>) /\ Len(<<p>>) = 1 /\ <<p>>[1] = p /\ Len(s) \in Nat
    BY OneElement, SequenceFacts, ZenonT(30)
  <2>2. Joined(s, <<p>>, u)
    BY <2>1, ConcatJoins, Zenon
  <2>3. QED
    BY <2>1, <2>2 DEF Joined
<1>2. PICK g : ReplayedBy(u, g) /\ Replay(u) = g[Len(u)]
  BY <1>1, ReplaySteps, Zenon
<1>3. Cut(u, Len(s), s) /\ Len(s) \in 0..Len(u)
  BY <1>1 DEF Cut
<1>4. Replay(s) = g[Len(s)]
  BY <1>2, <1>3, Zenon DEF ReplayedBy
<1>5. Len(u) \in 1..Len(u) /\ Len(u) - 1 = Len(s)
  BY <1>1
<1>6. g[Len(u)] = ReplayRecord(g[Len(s)], u[Len(u)])
  BY <1>2, <1>5, ZenonT(30) DEF ReplayedBy
<1>7. QED
  BY <1>1, <1>2, <1>4, <1>6, Zenon

\* A beginning of a log that replays does too: an error ends it for good.
LEMMA PrefixReplays ==
  ASSUME NEW s, IsSequence(s), Replay(s).ok, NEW n \in 0..Len(s), NEW t, Cut(s, n, t)
  PROVE  Replay(t).ok
<1>1. PICK g : ReplayedBy(s, g) /\ Replay(s) = g[Len(s)]
  BY ReplaySteps, Zenon
<1>2. Len(s) \in Nat
  BY SequenceFacts, ZenonT(30)
<1> DEFINE Failed == {k \in Nat : ~g[n + k].ok}
<1>3. SUFFICES ASSUME ~g[n].ok PROVE FALSE
  BY <1>1, Zenon DEF ReplayedBy
<1>4. 0 \in Failed
  BY <1>3
<1>5. ASSUME NEW k \in 0..(Len(s) - n), k # Len(s) - n, k \in Failed PROVE k + 1 \in Failed
  <2>1. n + k + 1 \in 1..Len(s) /\ (n + k + 1) - 1 = n + k /\ n + (k + 1) = n + k + 1 /\ k + 1 \in Nat
    BY <1>2, <1>5
  <2>2. g[n + k + 1] = ReplayRecord(g[n + k], s[n + k + 1])
    BY <1>1, <2>1 DEF ReplayedBy
  <2>3. ~g[n + k].ok
    BY <1>5, ZenonT(30)
  <2>4. g[n + k + 1] = g[n + k]
    BY <2>2, <2>3, Zenon DEF ReplayRecord, Register
  <2>5. QED
    BY <2>1, <2>3, <2>4, ZenonT(30)
<1> HIDE DEF Failed
<1>6. Len(s) - n \in Nat /\ Len(s) - n \in 0..(Len(s) - n) /\ n + (Len(s) - n) = Len(s)
  BY <1>2
<1>7. Len(s) - n \in Failed
  BY <1>4, <1>5, <1>6, Reaches, ZenonT(30)
<1>8. QED
  BY <1>1, <1>6, <1>7, ZenonT(30) DEF Failed

-----------------------------------------------------------------------------
(* persist().                                                               *)

NothingDone(l) == [log |-> l, ok |-> TRUE, count |-> 0]

Persists(s, n, f) ==
  f = [i \in 0..n |-> IF i = 0 THEN [log |-> log, ok |-> TRUE, count |-> 0] ELSE Persist(f[i - 1], s[i])]

\* A call persists its payloads one after the other.
LEMMA PersistSteps ==
  ASSUME NEW s, IsSequence(s)
  PROVE  \E g : /\ g[0] = NothingDone(log) /\ \A i \in 1..Len(s) : g[i] = Persist(g[i - 1], s[i])
                /\ PersistAll(s) = g[Len(s)]
<1>1. Len(s) \in Nat
  BY SequenceFacts
<1>2. PICK n : n = Len(s)
  BY Zenon
<1>3. \A st, x : LoopStep("persist", 0, st, x) = Persist(st, x)
  BY Zenon DEF LoopStep
<1>4. ASSUME NEW f PROVE Persists(s, n, f) <=> Looped("persist", 0, NothingDone(log), s, n, f)
  <2>1. [i \in 0..n |-> IF i = 0 THEN NothingDone(log) ELSE Persist(f[i - 1], s[i])]
          = [i \in 0..n |-> IF i = 0 THEN NothingDone(log) ELSE LoopStep("persist", 0, f[i - 1], s[i])]
    BY <1>3, ZenonT(30)
  <2>2. QED
    BY <2>1, Zenon DEF Persists, Looped, NothingDone
<1>5. PICK base : base = NothingDone(log)
  BY Zenon
<1>6. \E f : Looped("persist", 0, base, s, n, f)
  BY <1>1, <1>2, LoopExists, Zenon
<1>7. PICK g : g = CHOOSE f : Persists(s, n, f)
  BY Zenon
<1>8. Looped("persist", 0, base, s, n, g)
  BY <1>4, <1>5, <1>6, <1>7, Zenon
<1>9. Stepped("persist", 0, base, s, n, g)
  BY <1>1, <1>2, <1>8, LoopValues, Zenon
<1>10. PersistAll(s) = g[n]
  BY <1>2, <1>7, Zenon DEF PersistAll, Persists
<1>11. QED
  BY <1>2, <1>3, <1>5, <1>9, <1>10, Zenon DEF Stepped

\* What the first n payloads of a call have made of the log it began with: what was durable
\* is kept, and the reader finds as many of the payloads as persist() counted behind what it
\* found before.
Persisted(old, s, n, d) ==
  /\ d.count \in 0..n /\ (d.ok => d.count = n)
  /\ LogShape(d.log) /\ Intact(d.log) /\ DurableKept(old.disk, d.log.disk)
  /\ \E added : Cut(s, d.count, added) /\ Follows(old, d.log, added)
  /\ d.ok => \A i \in 1..n : s[i] \in WrittenRecords(d.log.disk)

\* A sequence cut one element later.
LEMMA CutOneMore ==
  ASSUME NEW s, NEW n, NEW t, Cut(s, n, t)
  PROVE  Cut(s, n + 1, t \o <<s[n + 1]>>)
<1>1. PICK p : p = s[n + 1]
  BY Zenon
<1>2. IsSequence(<<p>>) /\ Len(<<p>>) = 1 /\ <<p>>[1] = p
  BY OneElement, ZenonT(30)
<1>3. PICK u : u = t \o <<p>>
  BY Zenon
<1>4. Joined(t, <<p>>, u)
  BY <1>2, <1>3, ConcatJoins, Zenon DEF Cut
<1>5. Len(u) = n + 1 /\ n + 1 \in Nat /\ IsSequence(u) /\ u[n + 1] = p /\ \A i \in 1..n : u[i] = s[i]
  BY <1>2, <1>4 DEF Joined, Cut
<1>6. \A i \in 1..(n + 1) : i \in 1..n \/ i = n + 1
  BY DEF Cut
<1>7. QED
  BY <1>1, <1>3, <1>5, <1>6, Zenon DEF Cut

\* One payload more: a log that takes it, a log that refuses it and a read-only engine.
LEMMA PersistOne ==
  ASSUME NEW old, LogShape(old), NEW s, NEW n \in Nat, NEW d, Persisted(old, s, n, d),
         SizeOf(s[n + 1]) \in Nat, phase # "stopped", NEW e, e = Persist(d, s[n + 1])
  PROVE  Persisted(old, s, n + 1, e)
<1> DEFINE p == s[n + 1]
<1> HIDE DEF p
<1>1. d.count \in 0..(n + 1) /\ n + 1 \in 0..(n + 1)
  BY DEF Persisted
<1>2. CASE ~d.ok
  <2>1. e = d
    BY <1>2, Zenon DEF Persist
  <2>2. QED
    BY <1>1, <1>2, <2>1, Zenon DEF Persisted
<1>3. CASE d.ok /\ readonly
  <2>1. e.log = d.log /\ e.ok = FALSE /\ e.count = d.count
    BY <1>3, Zenon DEF Persist
  <2>2. QED
    BY <1>1, <2>1, Zenon DEF Persisted
<1>4. CASE d.ok /\ ~readonly
  <2>1. PICK r, size : size = SizeOf(p) /\ r = AppendRecord(d.log, p, size)
    BY Zenon
  <2>2. e.log = r.log /\ e.ok = r.ok /\ e.count = IF r.ok THEN d.count + 1 ELSE d.count
    BY <1>4, <2>1, ZenonT(30) DEF Persist, p
  <2>3. size \in Nat /\ LogShape(d.log) /\ Intact(d.log) /\ d.count = n
    BY <1>4, <2>1, ZenonT(30) DEF Persisted, p
  <2>4. LogShape(r.log) /\ DurableKept(d.log.disk, r.log.disk)
    BY <2>1, <2>3, AppendKeeps, Zenon
  <2>5. /\ Intact(r.log)
        /\ r.ok => Follows(d.log, r.log, <<p>>)
        /\ ~r.ok => Follows(d.log, r.log, <<>>)
    BY <2>1, <2>3, AppendFollows, Zenon
  <2>6. /\ WrittenRecords(d.log.disk) \subseteq WrittenRecords(r.log.disk)
        /\ r.ok => p \in WrittenRecords(r.log.disk)
    BY <2>1, <2>3, AppendWrites, Zenon
  <2>7. DurableKept(old.disk, r.log.disk)
    BY <2>3, <2>4, KeepsTwice, Zenon DEF LogShape, Persisted
  <2>8. PICK added : Cut(s, n, added) /\ Follows(old, d.log, added)
    BY <2>3, ZenonT(30) DEF Persisted
  <2>9. IsDisk(old.disk) /\ IsSequence(added) /\ IsSequence(<<p>>) /\ IsSequence(<<>>)
    BY <2>8, ShapeIsDisk, OneElement, NoElements, Zenon DEF Cut
  <2>11. CASE r.ok
    <3>1. Follows(old, r.log, added \o <<p>>)
      BY <2>5, <2>8, <2>9, <2>11, FollowsTwice, Zenon
    <3>2. Cut(s, n + 1, added \o <<p>>)
      BY <2>8, CutOneMore, Zenon DEF p
    <3>3. e.count = n + 1
      BY <2>2, <2>3, <2>11, ZenonT(30)
    <3>4. \A i \in 1..(n + 1) : i \in 1..n \/ i = n + 1
      OBVIOUS
    <3>5. \A i \in 1..(n + 1) : s[i] \in WrittenRecords(e.log.disk)
      BY <1>4, <2>2, <2>6, <2>11, <3>4, Zenon DEF Persisted, p
    <3>6. QED
      BY <1>1, <2>2, <2>4, <2>5, <2>7, <2>11, <3>1, <3>2, <3>3, <3>5, Zenon DEF Persisted
  <2>12. CASE ~r.ok
    <3>1. Follows(old, r.log, added \o <<>>)
      BY <2>5, <2>8, <2>9, <2>12, FollowsTwice, Zenon
    <3>2. added \o <<>> = added
      BY <2>9, ConcatNothing, Zenon
    <3>3. e.count = n
      BY <2>2, <2>3, <2>12
    <3>4. QED
      BY <1>1, <2>2, <2>3, <2>4, <2>5, <2>7, <2>8, <2>12, <3>1, <3>2, <3>3, Zenon DEF Persisted
  <2>13. QED
    BY <2>11, <2>12, ZenonT(30)
<1>5. QED
  BY <1>2, <1>3, <1>4, Zenon

\* What a call leaves of the log, however far it came.
LEMMA PersistFacts ==
  ASSUME NEW l, l = log, LogShape(l), Intact(l), phase # "stopped",
         NEW s, IsSequence(s), \A i \in 1..Len(s) : SizeOf(s[i]) \in Nat,
         NEW d, d = PersistAll(s)
  PROVE  Persisted(l, s, Len(s), d)
<1>1. Len(s) \in Nat
  BY SequenceFacts, ZenonT(30)
<1>2. PICK g : /\ g[0] = NothingDone(l) /\ \A i \in 1..Len(s) : g[i] = Persist(g[i - 1], s[i])
               /\ PersistAll(s) = g[Len(s)]
  BY PersistSteps, Zenon
<1> DEFINE Good == {n \in Nat : Persisted(l, s, n, g[n])}
<1>3. 0 \in Good
  <2>1. g[0].log = l /\ g[0].ok = TRUE /\ g[0].count = 0
    BY <1>2 DEF NothingDone
  <2>2. Follows(l, l, <<>>) /\ DurableKept(l.disk, l.disk)
    BY SameFollows, SameKeeps, Zenon DEF LogShape
  <2>3. Cut(s, 0, <<>>)
    BY NoElements DEF Cut
  <2>4. \A i \in 1..0 : FALSE
    OBVIOUS
  <2>5. 0 \in 0..0 /\ 0 \in Nat
    OBVIOUS
  <2>6. Persisted(l, s, 0, g[0])
    BY <2>1, <2>2, <2>3, <2>4, <2>5, Zenon DEF Persisted
  <2>7. QED
    BY <2>5, <2>6, ZenonT(30)
<1>4. ASSUME NEW k \in 0..Len(s), k # Len(s), k \in Good PROVE k + 1 \in Good
  <2>1. k \in Nat /\ k + 1 \in Nat /\ k + 1 \in 1..Len(s) /\ (k + 1) - 1 = k
    BY <1>1, <1>4
  <2>2. g[k + 1] = Persist(g[k], s[k + 1]) /\ SizeOf(s[k + 1]) \in Nat
    BY <1>2, <2>1
  <2>3. Persisted(l, s, k + 1, g[k + 1])
    BY <1>4, <2>1, <2>2, PersistOne, Zenon
  <2>4. QED
    BY <2>1, <2>3, ZenonT(30)
<1> HIDE DEF Good
<1>5. \A n \in 0..Len(s) : n \in Good
  BY <1>1, <1>3, <1>4, Reaches, Zenon
<1>6. Len(s) \in Good
  BY <1>1, <1>5
<1>7. QED
  BY <1>2, <1>6, ZenonT(30) DEF Good

-----------------------------------------------------------------------------
(* The gate's decision on a batch.                                          *)

MeasurementRecords ==
  [type : {"measurement"}, record : Records, verdict : {"current", "historical"}, received : 0..MaxCalls]

FenceShape(fence) ==
  fence = [next_ordinal |-> fence.next_ordinal, sessions |-> fence.sessions,
           current |-> fence.current, current_ordinal |-> fence.current_ordinal]

FencesOK(f) == f = [s \in Sources |-> f[s]] /\ \A s \in Sources : FenceShape(f[s])

\* The session fence leaves a fence that remembers the record's session or has it as its
\* current one, so never the empty fence.
LEMMA ApplyFence ==
  ASSUME NEW fence, FenceShape(fence), NEW record, record.session \in Sessions, NEW verdict,
         NEW a, a = ApplySessionFence(fence, record, verdict)
  PROVE  FenceShape(a.fence) /\ a.fence # EmptyFence
<1> DEFINE opens == OpenSession(fence, record)
<1>1. PICK base, st : /\ base = IF record.session \in DOMAIN fence.sessions THEN fence ELSE opens
                      /\ a.fence = [base EXCEPT !.sessions[record.session] = st]
  BY Zenon DEF ApplySessionFence
<1>2. FenceShape(opens) /\ opens.current = record.session
  BY Zenon DEF OpenSession, FenceShape
<1> HIDE DEF opens
<1>3. FenceShape(base)
  BY <1>1, <1>2, ZenonT(30)
<1>4. a.fence = [next_ordinal |-> base.next_ordinal,
                 sessions |-> [base.sessions EXCEPT ![record.session] = st],
                 current |-> base.current, current_ordinal |-> base.current_ordinal]
  BY <1>1, <1>3, ZenonT(30) DEF FenceShape
<1>5. CASE record.session \in DOMAIN fence.sessions
  <2>1. record.session \in DOMAIN a.fence.sessions
    BY <1>1, <1>4, <1>5, Zenon
  <2>2. DOMAIN EmptyFence.sessions = {}
    BY Zenon DEF EmptyFence
  <2>3. QED
    BY <1>4, <2>1, <2>2, ZenonT(30) DEF FenceShape
<1>6. CASE record.session \notin DOMAIN fence.sessions
  <2>1. a.fence.current = record.session
    BY <1>1, <1>2, <1>4, <1>6, ZenonT(30)
  <2>2. EmptyFence.current = NoSession
    BY Zenon DEF EmptyFence
  <2>3. QED
    BY <1>4, <2>1, <2>2, FenceAssumption, ZenonT(30) DEF FenceShape
<1>7. QED
  BY <1>5, <1>6

\* classify() leaves the fence alone or leaves one that is not empty.
LEMMA ClassifyFence ==
  ASSUME NEW fence, FenceShape(fence), NEW record, record.session \in Sessions, NEW revision,
         NEW d, d = Classify(fence, revision, record)
  PROVE  FenceShape(d.fence) /\ (d.fence = fence \/ d.fence # EmptyFence)
<1>1. CASE revision = 0 \/ ~record.sound
  BY <1>1, Zenon DEF Classify, RefusedUntouched
<1>2. CASE ~(revision = 0 \/ ~record.sound)
  <2>1. PICK verdict : verdict = IF record.bound THEN "current" ELSE "historical"
    BY Zenon
  <2>2. PICK a : a = ApplySessionFence(fence, record, verdict)
    BY Zenon
  <2>3. a = [fence |-> a.fence, replayed |-> a.replayed, ordinal |-> a.ordinal, verdict |-> a.verdict]
    BY <2>2, Zenon DEF ApplySessionFence
  <2>4. PICK v : d = [a EXCEPT !.verdict = v]
    BY <1>2, <2>1, <2>2, ZenonT(30) DEF Classify
  <2>5. d.fence = a.fence
    BY <2>3, <2>4, Zenon
  <2>6. QED
    BY <2>2, <2>5, ApplyFence, Zenon
<1>3. QED
  BY <1>1, <1>2, Zenon

\* A list of measurements.
Measurements(s) == IsSequence(s) /\ \A i \in 1..Len(s) : s[i] \in MeasurementRecords

\* What the first n records of a batch have come to, from the fences the batch found.
Admitting(found, n, st) ==
  /\ FencesOK(st.fences) /\ \A s \in Sources : st.fences[s] = EmptyFence => found[s] = EmptyFence
  /\ Measurements(st.current) /\ Measurements(st.history)
  /\ Len(st.current) + Len(st.history) <= n

Grown(s, v, w, t) == Len(s) \in Nat /\ Len(t) = IF v = w THEN Len(s) + 1 ELSE Len(s)

\* A list of measurements with one more, when the verdict asks for it.
LEMMA MeasurementAdded ==
  ASSUME NEW s, Measurements(s), NEW m, NEW v, NEW w, v = w => m \in MeasurementRecords,
         NEW t, t = IF v = w THEN Append(s, m) ELSE s
  PROVE  Measurements(t) /\ Grown(s, v, w, t)
<1>1. CASE v = w
  <2>1. Longer(s, m, t)
    BY <1>1, AppendFacts, Zenon DEF Measurements
  <2>2. \A i \in 1..Len(t) : i \in 1..Len(s) \/ i = Len(s) + 1
    BY <2>1 DEF Longer
  <2>3. QED
    BY <1>1, <2>1, <2>2, ZenonT(30) DEF Longer, Measurements, Grown
<1>2. CASE v # w
  <2>1. Len(s) \in Nat
    BY SequenceFacts, Zenon DEF Measurements
  <2>2. QED
    BY <1>2, <2>1, Zenon DEF Grown
<1>3. QED
  BY <1>1, <1>2, Zenon

\* One record more.
LEMMA AdmitOne ==
  ASSUME NEW found, NEW n \in Nat, NEW st, Admitting(found, n, st), NEW r \in Records,
         calls \in 0..MaxCalls, NEW e, e = Admit(st, r)
  PROVE  Admitting(found, n + 1, e)
<1>1. r.source \in Sources /\ r.session \in Sessions
  BY Zenon DEF Records
<1>2. PICK d, m : /\ d = Classify(st.fences[r.source], RevisionOf(catalog, r.source), r)
                  /\ m = Measurement(r, d.verdict, calls)
  BY Zenon
<1>3. /\ e.fences = [st.fences EXCEPT ![r.source] = d.fence]
      /\ e.current = IF d.verdict = "current" THEN Append(st.current, m) ELSE st.current
      /\ e.history = IF d.verdict = "historical" THEN Append(st.history, m) ELSE st.history
  BY <1>2, Zenon DEF Admit
<1>4. FencesOK(st.fences) /\ FenceShape(st.fences[r.source])
  BY <1>1, Zenon DEF Admitting, FencesOK
<1>5. FenceShape(d.fence) /\ (d.fence = st.fences[r.source] \/ d.fence # EmptyFence)
  BY <1>1, <1>2, <1>4, ClassifyFence, Zenon
<1>6. FencesOK(e.fences) /\ \A s \in Sources : e.fences[s] = EmptyFence => st.fences[s] = EmptyFence
  BY <1>1, <1>3, <1>4, <1>5, Zenon DEF FencesOK
<1>7. d.verdict = "current" \/ d.verdict = "historical" => m \in MeasurementRecords
  BY <1>2, Zenon DEF Measurement, MeasurementRecords
<1>8. Measurements(e.current) /\ Grown(st.current, d.verdict, "current", e.current)
  <2>1. Measurements(st.current) /\ (d.verdict = "current" => m \in MeasurementRecords)
    BY <1>7, Zenon DEF Admitting
  <2>2. QED
    BY <1>3, <2>1, MeasurementAdded, Zenon
<1>9. Measurements(e.history) /\ Grown(st.history, d.verdict, "historical", e.history)
  <2>1. Measurements(st.history) /\ (d.verdict = "historical" => m \in MeasurementRecords)
    BY <1>7, Zenon DEF Admitting
  <2>2. QED
    BY <1>3, <2>1, MeasurementAdded, Zenon
<1>10. Len(e.current) + Len(e.history) <= n + 1
  <2>1. Len(st.current) + Len(st.history) <= n
    BY Zenon DEF Admitting
  <2>2. PICK c, h, k, j : c = Len(st.current) /\ h = Len(st.history) /\ k = Len(e.current) /\ j = Len(e.history)
    BY Zenon
  <2>3. c \in Nat /\ h \in Nat /\ ((k = c + 1 /\ j = h) \/ (k = c /\ j = h + 1) \/ (k = c /\ j = h))
    BY <1>8, <1>9, <2>2, "current" # "historical", Zenon DEF Grown
  <2>4. c + h <= n
    BY <2>1, <2>2, Zenon
  <2>5. k + j <= n + 1
    BY <2>3, <2>4
  <2>6. QED
    BY <2>2, <2>5, Zenon
<1>11. QED
  BY <1>6, <1>8, <1>9, <1>10, Zenon DEF Admitting

NothingAdmitted(f) == [fences |-> f, current |-> <<>>, history |-> <<>>]

Admits(s, n, f) ==
  f = [i \in 0..n |-> IF i = 0 THEN [fences |-> fences, current |-> <<>>, history |-> <<>>]
                      ELSE Admit(f[i - 1], s[i])]

\* The gate decides the records of a batch one after the other.
LEMMA AdmitSteps ==
  ASSUME NEW s, IsSequence(s)
  PROVE  \E g : /\ g[0] = NothingAdmitted(fences) /\ \A i \in 1..Len(s) : g[i] = Admit(g[i - 1], s[i])
                /\ AdmitBatch(s) = g[Len(s)]
<1>1. Len(s) \in Nat
  BY SequenceFacts, Zenon
<1>2. PICK n : n = Len(s)
  BY Zenon
<1>3. \A st, x : LoopStep("admit", 0, st, x) = Admit(st, x)
  BY Zenon DEF LoopStep
<1>4. ASSUME NEW f PROVE Admits(s, n, f) <=> Looped("admit", 0, NothingAdmitted(fences), s, n, f)
  <2>1. [i \in 0..n |-> IF i = 0 THEN NothingAdmitted(fences) ELSE Admit(f[i - 1], s[i])]
          = [i \in 0..n |-> IF i = 0 THEN NothingAdmitted(fences) ELSE LoopStep("admit", 0, f[i - 1], s[i])]
    BY <1>3, Zenon
  <2>2. QED
    BY <2>1, Zenon DEF Admits, Looped, NothingAdmitted
<1>5. PICK base : base = NothingAdmitted(fences)
  BY Zenon
<1>6. \E f : Looped("admit", 0, base, s, n, f)
  BY <1>1, <1>2, LoopExists, Zenon
<1>7. PICK g : g = CHOOSE f : Admits(s, n, f)
  BY Zenon
<1>8. Looped("admit", 0, base, s, n, g)
  BY <1>4, <1>5, <1>6, <1>7, Zenon
<1>9. Stepped("admit", 0, base, s, n, g)
  BY <1>1, <1>2, <1>8, LoopValues, Zenon
<1>10. AdmitBatch(s) = g[n]
  BY <1>2, <1>7, Zenon DEF AdmitBatch, Admits
<1>11. QED
  BY <1>2, <1>3, <1>5, <1>9, <1>10, Zenon DEF Stepped

\* What a batch comes to: as many measurements as it has records at most, and no fence that
\* held a session is empty again.
LEMMA AdmitFacts ==
  ASSUME NEW found, found = fences, FencesOK(found), calls \in 0..MaxCalls,
         NEW batch, IsSequence(batch), \A i \in 1..Len(batch) : batch[i] \in Records,
         NEW st, st = AdmitBatch(batch)
  PROVE  Admitting(found, Len(batch), st)
<1>1. Len(batch) \in Nat
  BY SequenceFacts, Zenon
<1>2. PICK g : /\ g[0] = NothingAdmitted(found) /\ \A i \in 1..Len(batch) : g[i] = Admit(g[i - 1], batch[i])
               /\ AdmitBatch(batch) = g[Len(batch)]
  BY AdmitSteps, Zenon
<1> DEFINE Good == {n \in Nat : Admitting(found, n, g[n])}
<1>3. 0 \in Good
  <2>1. g[0].fences = found /\ g[0].current = <<>> /\ g[0].history = <<>>
    BY <1>2 DEF NothingAdmitted
  <2>2. Measurements(<<>>)
    BY NoElements DEF Measurements
  <2>3. Len(<<>>) + Len(<<>>) <= 0 /\ 0 \in Nat
    BY NoElements
  <2>4. Admitting(found, 0, g[0])
    BY <2>1, <2>2, <2>3, Zenon DEF Admitting
  <2>5. QED
    BY <2>3, <2>4, Zenon
<1>4. ASSUME NEW k \in 0..Len(batch), k # Len(batch), k \in Good PROVE k + 1 \in Good
  <2>1. k \in Nat /\ k + 1 \in Nat /\ k + 1 \in 1..Len(batch) /\ (k + 1) - 1 = k
    BY <1>1, <1>4
  <2>2. g[k + 1] = Admit(g[k], batch[k + 1]) /\ batch[k + 1] \in Records
    BY <1>2, <2>1, ZenonT(30)
  <2>3. Admitting(found, k + 1, g[k + 1])
    BY <1>4, <2>1, <2>2, AdmitOne, Zenon
  <2>4. QED
    BY <2>1, <2>3, ZenonT(30)
<1> HIDE DEF Good
<1>5. \A n \in 0..Len(batch) : n \in Good
  BY <1>1, <1>3, <1>4, Reaches, Zenon
<1>6. Len(batch) \in Good
  BY <1>1, <1>5
<1>7. QED
  BY <1>2, <1>6, Zenon DEF Good

-----------------------------------------------------------------------------
(* The fences a batch writes.                                               *)

Collects(f, n, h) == h = [i \in 0..n |-> IF i = 0 THEN <<>> ELSE h[i - 1] \o HeldFence(f, SourceOrder[i])]

\* The fence of the k-th source is there to be written.
Holds(f, k, p) == f[SourceOrder[k]] # EmptyFence /\ p = FenceRecord(SourceOrder[k], f[SourceOrder[k]])

Collected(f, n, q) == IsSequence(q) /\ \A p : p \in Range(q) <=> \E k \in 1..n : Holds(f, k, p)

\* One source more.
LEMMA CollectOne ==
  ASSUME NEW f, NEW n \in Nat, NEW q, Collected(f, n, q), NEW r, r = q \o HeldFence(f, SourceOrder[n + 1])
  PROVE  Collected(f, n + 1, r)
<1>1. PICK held : held = HeldFence(f, SourceOrder[n + 1])
  BY Zenon
<1>2. IsSequence(held) /\ \A p : p \in Range(held) <=> Holds(f, n + 1, p)
  <2>1. CASE f[SourceOrder[n + 1]] = EmptyFence
    <3>1. held = <<>> /\ \A p : ~Holds(f, n + 1, p)
      BY <1>1, <2>1, Zenon DEF HeldFence, Holds
    <3>2. IsSequence(<<>>) /\ Range(<<>>) = {}
      BY NoElements DEF Range
    <3>3. QED
      BY <3>1, <3>2, Zenon
  <2>2. CASE f[SourceOrder[n + 1]] # EmptyFence
    <3>1. PICK x : x = FenceRecord(SourceOrder[n + 1], f[SourceOrder[n + 1]])
      BY Zenon
    <3>2. held = <<x>> /\ \A p : Holds(f, n + 1, p) <=> p = x
      BY <1>1, <2>2, <3>1, Zenon DEF HeldFence, Holds
    <3>3. IsSequence(<<x>>) /\ Range(<<x>>) = {x}
      BY OneElement DEF Range
    <3>4. QED
      BY <3>2, <3>3, Zenon
  <2>3. QED
    BY <2>1, <2>2, ZenonT(30)
<1>3. IsSequence(r) /\ Range(r) = Range(q) \cup Range(held)
  <2>1. Joined(q, held, r)
    BY <1>1, <1>2, ConcatJoins, Zenon DEF Collected
  <2>2. QED
    BY <1>1, <1>2, <2>1, ConcatMembers, Zenon DEF Collected, Joined
<1>4. \A k : k \in 1..(n + 1) <=> k \in 1..n \/ k = n + 1
  OBVIOUS
<1>5. QED
  BY <1>2, <1>3, <1>4, Zenon DEF Collected

\* gate_.fences() lists the fence of every source that has one, and no other.
LEMMA FenceFacts ==
  ASSUME NEW f, NEW q, q = FenceRecords(f)
  PROVE  Collected(f, Len(SourceOrder), q)
<1>1. PICK n : n = Len(SourceOrder)
  BY Zenon
<1>2. n \in Nat
  BY <1>1, EngineAssumption
<1>3. \A st, x : LoopStep("fences", f, st, x) = st \o HeldFence(f, x)
  BY Zenon DEF LoopStep
<1>4. ASSUME NEW h PROVE Collects(f, n, h) <=> Looped("fences", f, <<>>, SourceOrder, n, h)
  <2>1. [i \in 0..n |-> IF i = 0 THEN <<>> ELSE h[i - 1] \o HeldFence(f, SourceOrder[i])]
          = [i \in 0..n |-> IF i = 0 THEN <<>> ELSE LoopStep("fences", f, h[i - 1], SourceOrder[i])]
    BY <1>3, ZenonT(30)
  <2>2. QED
    BY <2>1, Zenon DEF Collects, Looped
<1>5. \E h : Looped("fences", f, <<>>, SourceOrder, n, h)
  BY <1>2, LoopExists, Zenon
<1>6. PICK g : g = CHOOSE h : Collects(f, n, h)
  BY Zenon
<1>7. Looped("fences", f, <<>>, SourceOrder, n, g)
  BY <1>4, <1>5, <1>6, Zenon
<1>8. Stepped("fences", f, <<>>, SourceOrder, n, g)
  BY <1>2, <1>7, LoopValues, Zenon
<1>9. g[0] = <<>> /\ \A i \in 1..n : g[i] = g[i - 1] \o HeldFence(f, SourceOrder[i])
  BY <1>3, <1>8, Zenon DEF Stepped
<1>10. q = g[n]
  BY <1>1, <1>6, Zenon DEF FenceRecords, Collects
<1> DEFINE Good == {k \in Nat : Collected(f, k, g[k])}
<1>11. 0 \in Good
  <2>1. IsSequence(<<>>) /\ Range(<<>>) = {} /\ \A k \in 1..0 : FALSE
    BY NoElements DEF Range
  <2>2. Collected(f, 0, g[0])
    BY <1>9, <2>1, Zenon DEF Collected
  <2>3. QED
    BY <2>2, ZenonT(30)
<1>12. ASSUME NEW k \in 0..n, k # n, k \in Good PROVE k + 1 \in Good
  <2>1. k \in Nat /\ k + 1 \in Nat /\ k + 1 \in 1..n /\ (k + 1) - 1 = k
    BY <1>2, <1>12
  <2>2. g[k + 1] = g[k] \o HeldFence(f, SourceOrder[k + 1])
    BY <1>9, <2>1, ZenonT(30)
  <2>3. Collected(f, k + 1, g[k + 1])
    BY <1>12, <2>1, <2>2, CollectOne, Zenon
  <2>4. QED
    BY <2>1, <2>3
<1> HIDE DEF Good
<1>13. \A k \in 0..n : k \in Good
  BY <1>2, <1>11, <1>12, Reaches, Zenon
<1>14. n \in Good
  BY <1>2, <1>13
<1>15. QED
  BY <1>1, <1>10, <1>14, ZenonT(30) DEF Good

-----------------------------------------------------------------------------
(* What a replay can come to.                                               *)

PayloadOK(p) ==
  \/ p.type = "definition" /\ p.def \in Definitions
  \/ p.type = "domain"
  \/ p.type = "sync" /\ p.sync \in Syncs
  \/ p.type = "measurement" /\ p \in MeasurementRecords
  \/ p.type = "fence" /\ p.source \in Sources /\ FenceShape(p.fence)

PayloadsOK(s) == \A i \in 1..Len(s) : PayloadOK(s[i])

CatalogOK(c) == c = [k \in Kinds |-> c[k]] /\ \A k \in Kinds : Range(c[k]) \subseteq Definitions

ClocksOK(c) == c = [domains |-> c.domains, syncs |-> c.syncs] /\ Range(c.syncs) \subseteq Syncs

MemoryShape(memory) ==
  memory = [ok |-> memory.ok, catalog |-> memory.catalog, clocks |-> memory.clocks,
            fences |-> memory.fences, records |-> memory.records]

MemoryOK(n, memory) ==
  /\ MemoryShape(memory)
  /\ CatalogOK(memory.catalog) /\ ClocksOK(memory.clocks) /\ FencesOK(memory.fences)
  /\ Measurements(memory.records) /\ Len(memory.records) <= n

\* A table with an entry more or an entry replaced has no other new member.
LEMMA TableRange ==
  ASSUME NEW table, NEW key, NEW value, NEW S, Range(table) \subseteq S, value \in S,
         NEW new, new = With(table, key, value)
  PROVE  Range(new) \subseteq S
BY Zenon DEF Range, With

\* A definition is entered in the table of its kind or refused; either way the catalog holds
\* definitions that callers sent.
LEMMA DefineKeeps ==
  ASSUME NEW c, CatalogOK(c), NEW def \in Definitions, NEW d, d = Define(c, def)
  PROVE  CatalogOK(d.catalog)
<1>1. def.kind \in Kinds
  BY EngineAssumption
<1>2. d = Upsert(c, def) \/ d = Refused(c)
  BY <1>1 DEF Kinds, Define, DefineSource, DefineEndpoint, DefineLink, DefineQueue, DefineHop, DefineGeneration, DefinePath
<1>3. PICK new : new = Entered(c[def.kind], def)
  BY Zenon
<1>4. d.catalog = c \/ d.catalog = [c EXCEPT ![def.kind] = new]
  BY <1>2, <1>3 DEF Upsert, Refused
<1>5. Range(new) \subseteq Definitions
  <2>1. PICK table : table = c[def.kind] /\ Range(table) \subseteq Definitions
    BY <1>1 DEF CatalogOK
  <2>2. new = With(table, def.name, def)
    BY <1>3, <2>1, Zenon DEF Entered, With
  <2>3. QED
    BY <2>1, <2>2, TableRange
<1>6. QED
  BY <1>1, <1>4, <1>5 DEF CatalogOK

\* A domain that is defined leaves the reports alone.
LEMMA DomainKeeps ==
  ASSUME NEW c, ClocksOK(c), NEW name, NEW content, NEW d, d = DefineDomain(c, name, content)
  PROVE  ClocksOK(d.clocks)
<1>1. PICK new : d.clocks = c \/ d.clocks = [c EXCEPT !.domains = new]
  BY Zenon DEF DefineDomain
<1>2. QED
  BY <1>1 DEF ClocksOK

\* A report that is recorded is one that callers sent.
LEMMA SyncKeepsReports ==
  ASSUME NEW c, ClocksOK(c), NEW sync \in Syncs, NEW d, d = RecordSync(c, sync)
  PROVE  ClocksOK(d.clocks)
<1>1. PICK new : new = With(c.syncs, sync.domain, sync)
  BY Zenon
<1>2. d.clocks = c \/ d.clocks = [c EXCEPT !.syncs = new]
  BY <1>1 DEF RecordSync
<1>3. Range(new) \subseteq Syncs
  BY <1>1, TableRange DEF ClocksOK
<1>4. QED
  BY <1>2, <1>3 DEF ClocksOK

\* One record more of the store.
LEMMA ReplayRecordOK ==
  ASSUME NEW n \in Nat, NEW memory, MemoryOK(n, memory), NEW p, PayloadOK(p), NEW e, e = ReplayRecord(memory, p)
  PROVE  MemoryOK(n + 1, e)
<1>1. /\ MemoryShape(memory) /\ CatalogOK(memory.catalog) /\ ClocksOK(memory.clocks)
      /\ FencesOK(memory.fences) /\ Measurements(memory.records)
  BY Zenon DEF MemoryOK
<1>2. Len(memory.records) \in Nat /\ Len(memory.records) <= n + 1
  BY <1>1, SequenceFacts DEF MemoryOK, Measurements
<1>3. CASE ~memory.ok
  <2>1. e = memory
    BY <1>3, Zenon DEF ReplayRecord, Register
  <2>2. QED
    BY <1>1, <1>2, <2>1, Zenon DEF MemoryOK
<1>4. CASE memory.ok /\ p.type = "definition"
  <2>1. PICK d : d = Define(memory.catalog, p.def)
    BY Zenon
  <2>2. e = [memory EXCEPT !.ok = d.ok, !.catalog = d.catalog]
    BY <1>4, <2>1 DEF ReplayRecord, Register
  <2>3. p.def \in Definitions
    BY <1>4 DEF PayloadOK
  <2>4. CatalogOK(d.catalog)
    BY <1>1, <2>1, <2>3, DefineKeeps, Zenon
  <2>5. MemoryShape(e) /\ e.catalog = d.catalog /\ e.clocks = memory.clocks /\ e.fences = memory.fences
        /\ e.records = memory.records
    BY <1>1, <2>2, ZenonT(30) DEF MemoryShape
  <2>6. QED
    BY <1>1, <1>2, <2>4, <2>5, Zenon DEF MemoryOK
<1>5. CASE memory.ok /\ p.type \in {"domain", "sync"}
  <2>1. PICK d : /\ e = [memory EXCEPT !.ok = d.ok, !.clocks = d.clocks]
                 /\ \/ d = DefineDomain(memory.clocks, p.domain.name, p.domain.content)
                    \/ p.type = "sync" /\ d = RecordSync(memory.clocks, p.sync)
    BY <1>5, ZenonT(30) DEF ReplayRecord, Register
  <2>2. p.type = "sync" => p.sync \in Syncs
    BY Zenon DEF PayloadOK
  <2>3. ClocksOK(d.clocks)
    BY <1>1, <2>1, <2>2, DomainKeeps, SyncKeepsReports, Zenon
  <2>4. MemoryShape(e) /\ e.clocks = d.clocks /\ e.catalog = memory.catalog /\ e.fences = memory.fences
        /\ e.records = memory.records
    BY <1>1, <2>1, ZenonT(30) DEF MemoryShape
  <2>5. QED
    BY <1>1, <1>2, <2>3, <2>4, Zenon DEF MemoryOK
<1>6. CASE memory.ok /\ p.type = "measurement"
  <2>1. e = [memory EXCEPT !.records = Append(memory.records, p)]
    BY <1>6 DEF ReplayRecord, Register
  <2>2. p \in MeasurementRecords
    BY <1>6 DEF PayloadOK
  <2>3. PICK t : t = Append(memory.records, p)
    BY Zenon
  <2>4. Measurements(t) /\ Len(t) = Len(memory.records) + 1
    <3>1. Longer(memory.records, p, t)
      BY <1>1, <2>3, AppendFacts, Zenon DEF Measurements
    <3>2. \A i \in 1..Len(t) : i \in 1..Len(memory.records) \/ i = Len(memory.records) + 1
      BY <1>2, <3>1 DEF Longer
    <3>3. QED
      BY <1>1, <2>2, <3>1, <3>2, Zenon DEF Longer, Measurements
  <2>5. MemoryShape(e) /\ e.records = t /\ e.catalog = memory.catalog /\ e.clocks = memory.clocks
        /\ e.fences = memory.fences
    BY <1>1, <2>1, <2>3, ZenonT(30) DEF MemoryShape
  <2>6. Len(memory.records) <= n
    BY Zenon DEF MemoryOK
  <2>7. Len(e.records) <= n + 1
    BY <1>2, <2>4, <2>5, <2>6
  <2>8. QED
    BY <1>1, <2>4, <2>5, <2>7, Zenon DEF MemoryOK
<1>7. CASE memory.ok /\ p.type = "fence"
  <2>1. e = [memory EXCEPT !.fences = [memory.fences EXCEPT ![p.source] = p.fence]]
    BY <1>7 DEF ReplayRecord, Register, RestoreFence
  <2>2. p.source \in Sources /\ FenceShape(p.fence)
    BY <1>7 DEF PayloadOK
  <2>3. FencesOK([memory.fences EXCEPT ![p.source] = p.fence])
    BY <1>1, <2>2, ZenonT(30) DEF FencesOK
  <2>4. MemoryShape(e) /\ e.fences = [memory.fences EXCEPT ![p.source] = p.fence]
        /\ e.catalog = memory.catalog /\ e.clocks = memory.clocks /\ e.records = memory.records
    BY <1>1, <2>1, ZenonT(30) DEF MemoryShape
  <2>5. QED
    BY <1>1, <1>2, <2>3, <2>4, Zenon DEF MemoryOK
<1>8. QED
  BY <1>3, <1>4, <1>5, <1>6, <1>7, Zenon DEF PayloadOK

\* What the registries make of records that the engine wrote.
LEMMA ReplayOK ==
  ASSUME NEW s, IsSequence(s), PayloadsOK(s)
  PROVE  MemoryOK(Len(s), Replay(s))
<1>1. PICK g : ReplayedBy(s, g) /\ Replay(s) = g[Len(s)]
  BY ReplaySteps, Zenon
<1>2. Len(s) \in Nat
  BY SequenceFacts
<1> DEFINE Good == {n \in Nat : MemoryOK(n, g[n])}
<1>3. 0 \in Good
  <2>1. MemoryOK(0, EmptyMemory)
    <3>1. MemoryShape(EmptyMemory) /\ FencesOK(EmptyMemory.fences)
      BY Zenon DEF EmptyMemory, MemoryShape, FencesOK, EmptyFence, FenceShape
    <3>2. CatalogOK(EmptyMemory.catalog)
      BY Zenon DEF EmptyMemory, CatalogOK, EmptyCatalog, NoDefinition, Range
    <3>3. ClocksOK(EmptyMemory.clocks)
      BY Zenon DEF EmptyMemory, ClocksOK, NoClocks, Range
    <3>4. Measurements(EmptyMemory.records) /\ Len(EmptyMemory.records) <= 0
      BY NoElements DEF EmptyMemory, Measurements
    <3>5. QED
      BY <3>1, <3>2, <3>3, <3>4, ZenonT(30) DEF MemoryOK
  <2>2. QED
    BY <1>1, <2>1, ZenonT(30) DEF ReplayedBy
<1>4. ASSUME NEW k \in 0..Len(s), k # Len(s), k \in Good PROVE k + 1 \in Good
  <2>1. k \in Nat /\ k + 1 \in Nat /\ k + 1 \in 1..Len(s) /\ (k + 1) - 1 = k
    BY <1>2, <1>4
  <2>2. g[k + 1] = ReplayRecord(g[k], s[k + 1]) /\ PayloadOK(s[k + 1])
    BY <1>1, <2>1 DEF ReplayedBy, PayloadsOK
  <2>3. MemoryOK(k + 1, g[k + 1])
    BY <1>4, <2>1, <2>2, ReplayRecordOK, Zenon
  <2>4. QED
    BY <2>1, <2>3
<1> HIDE DEF Good
<1>5. \A n \in 0..Len(s) : n \in Good
  BY <1>2, <1>3, <1>4, Reaches, Zenon
<1>6. Len(s) \in Good
  BY <1>2, <1>5
<1>7. QED
  BY <1>1, <1>6, ZenonT(30) DEF Good

=============================================================================
