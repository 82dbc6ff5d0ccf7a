-------------------------- MODULE SegmentLogProofs --------------------------
(***************************************************************************)
(* The segmented log for any directory: what read_all returns, segment by  *)
(* segment, and what each operation of the writer, a failed write and a    *)
(* crash do to the frames that are there.  StoreProofs and                 *)
(* EngineLoadProofs build on it.                                           *)
(***************************************************************************)
EXTENDS SegmentLog, WellFoundedInduction, TLAPS

-----------------------------------------------------------------------------
(* Sequences of anything.                                                   *)

IsSequence(s) == \E S : s \in Seq(S)

\* A sequence is a function on the indices up to its length.
LEMMA SequenceFacts ==
  ASSUME NEW s, IsSequence(s)
  PROVE  Len(s) \in Nat /\ DOMAIN s = 1..Len(s) /\ s = [i \in 1..Len(s) |-> s[i]]
<1>1. PICK S : s \in Seq(S)
  BY Zenon DEF IsSequence
<1>2. QED
  BY <1>1

\* And every such function is a sequence.
LEMMA FunctionIsSequence ==
  ASSUME NEW n \in Nat, NEW s, s = [i \in 1..n |-> s[i]]
  PROVE  IsSequence(s) /\ Len(s) = n
<1> DEFINE S == {s[i] : i \in 1..n}
<1>1. s \in [1..n -> S]
  BY Zenon
<1> HIDE DEF S
<1>2. s \in Seq(S) /\ Len(s) = n
  BY <1>1
<1>3. QED
  BY <1>2, Zenon DEF IsSequence

\* The empty sequence, as in a directory without segments.
LEMMA NoElements == IsSequence(<<>>) /\ Len(<<>>) = 0
<1>1. <<>> \in Seq({}) /\ Len(<<>>) = 0
  OBVIOUS
<1>2. QED
  BY <1>1, Zenon DEF IsSequence

\* The sequence of one element, as in a segment with only its header.
LEMMA OneElement == ASSUME NEW e PROVE IsSequence(<<e>>) /\ Len(<<e>>) = 1 /\ <<e>>[1] = e
<1>1. <<e>> \in Seq({e}) /\ Len(<<e>>) = 1 /\ <<e>>[1] = e
  OBVIOUS
<1>2. QED
  BY <1>1, Zenon DEF IsSequence

\* Sequences with the same elements are equal.
LEMMA SameSequence ==
  ASSUME NEW s, IsSequence(s), NEW t, IsSequence(t), Len(s) = Len(t), \A i \in 1..Len(s) : s[i] = t[i]
  PROVE  s = t
<1>1. s = [i \in 1..Len(s) |-> s[i]] /\ t = [i \in 1..Len(t) |-> t[i]]
  BY SequenceFacts, Zenon
<1>2. QED
  BY <1>1, Zenon

\* t is s with one element more, s with its k-th element replaced, and the first n of s.
Longer(s, e, t) ==
  /\ IsSequence(t) /\ Len(t) = Len(s) + 1 /\ Len(s) \in Nat
  /\ \A i \in 1..Len(s) : t[i] = s[i]
  /\ t[Len(s) + 1] = e

Replaced(s, k, e, t) ==
  /\ IsSequence(t) /\ Len(t) = Len(s) /\ Len(s) \in Nat /\ t[k] = e
  /\ \A i \in 1..Len(s) : i # k => t[i] = s[i]

Cut(s, n, t) == IsSequence(t) /\ Len(t) = n /\ n \in Nat /\ \A i \in 1..n : t[i] = s[i]

\* What Append does to a sequence: a directory gets a segment, a segment a frame.
LEMMA AppendFacts ==
  ASSUME NEW s, IsSequence(s), NEW e
  PROVE  Longer(s, e, Append(s, e))
<1> DEFINE t == Append(s, e)
<1>1. PICK S : s \in Seq(S)
  BY DEF IsSequence
<1>2. PICK T : T = S \cup {e}
  BY Zenon
<1>3. s \in Seq(T) /\ e \in T
  BY <1>1, <1>2
<1>4. /\ t \in Seq(T) /\ Len(t) = Len(s) + 1 /\ (\A i \in 1..Len(s) : t[i] = s[i]) /\ t[Len(s) + 1] = e
      /\ Len(s) \in Nat
  BY <1>3
<1> HIDE DEF t
<1>5. Longer(s, e, t)
  BY <1>4, Zenon DEF IsSequence, Longer
<1>6. QED
  BY <1>5, Zenon DEF t

\* What SubSeq does: a crash cuts a file.
LEMMA PrefixFacts ==
  ASSUME NEW s, IsSequence(s), NEW n \in 0..Len(s)
  PROVE  Cut(s, n, SubSeq(s, 1, n))
<1> DEFINE t == SubSeq(s, 1, n)
<1>1. PICK S : s \in Seq(S)
  BY Zenon DEF IsSequence
<1>2. Len(s) \in Nat /\ n \in Nat
  BY <1>1
<1>3. t \in Seq(S) /\ Len(t) = n /\ \A i \in 1..n : t[i] = s[i]
  BY <1>1, <1>2
<1> HIDE DEF t
<1>4. Cut(s, n, t)
  BY <1>2, <1>3, Zenon DEF IsSequence, Cut
<1>5. QED
  BY <1>4, Zenon DEF t

\* What EXCEPT does: a write changes one segment of the directory.
LEMMA ExceptFacts ==
  ASSUME NEW s, IsSequence(s), NEW k \in 1..Len(s), NEW e
  PROVE  Replaced(s, k, e, [s EXCEPT ![k] = e])
<1> DEFINE t == [s EXCEPT ![k] = e]
<1>1. Len(s) \in Nat /\ s = [i \in 1..Len(s) |-> s[i]]
  BY SequenceFacts, Zenon
<1>2. t = [i \in 1..Len(s) |-> t[i]] /\ t[k] = e /\ \A i \in 1..Len(s) : i # k => t[i] = s[i]
  BY <1>1, Zenon
<1> HIDE DEF t
<1>3. IsSequence(t) /\ Len(t) = Len(s)
  BY <1>1, <1>2, FunctionIsSequence, Zenon
<1>4. Replaced(s, k, e, t)
  BY <1>1, <1>2, <1>3, Zenon DEF Replaced
<1>5. QED
  BY <1>4, Zenon DEF t

\* u is s with t behind it.
Joined(s, t, u) ==
  /\ IsSequence(u) /\ Len(u) = Len(s) + Len(t)
  /\ \A i \in 1..Len(s) : u[i] = s[i]
  /\ \A i \in 1..Len(t) : u[Len(s) + i] = t[i]

\* Concatenation puts the second sequence behind the first.
LEMMA ConcatJoins ==
  ASSUME NEW s, IsSequence(s), NEW t, IsSequence(t)
  PROVE  Joined(s, t, s \o t)
<1>1. PICK S : s \in Seq(S)
  BY Zenon DEF IsSequence
<1>2. PICK T : t \in Seq(T)
  BY Zenon DEF IsSequence
<1>3. PICK U : U = S \cup T
  BY Zenon
<1>4. s \in Seq(U) /\ t \in Seq(U)
  BY <1>1, <1>2, <1>3
<1>5. PICK u : u = s \o t
  BY Zenon
<1>6. u \in Seq(U) /\ Len(u) = Len(s) + Len(t)
  BY <1>4, <1>5
<1>7. (\A i \in 1..Len(s) : u[i] = s[i]) /\ (\A i \in 1..Len(t) : u[Len(s) + i] = t[i])
  BY <1>4, <1>5
<1>8. Joined(s, t, u)
  BY <1>6, <1>7, Zenon DEF IsSequence, Joined
<1>9. QED
  BY <1>5, <1>8, Zenon

\* The same, for a named concatenation.
LEMMA ConcatFacts ==
  ASSUME NEW s, IsSequence(s), NEW t, IsSequence(t), NEW u, u = s \o t
  PROVE  /\ IsSequence(u) /\ Len(u) = Len(s) + Len(t)
         /\ \A i \in 1..Len(s) : u[i] = s[i]
         /\ \A i \in 1..Len(t) : u[Len(s) + i] = t[i]
<1>1. Joined(s, t, u)
  BY ConcatJoins, Zenon
<1>2. QED
  BY <1>1, Zenon DEF Joined



\* The least of a set of numbers.
LEMMA Least ==
  ASSUME NEW S, S \subseteq Nat, S # {}
  PROVE  Min(S) \in S /\ \A y \in S : Min(S) <= y
<1>1. PICK m \in S : \A y \in S : ~(<<y, m>> \in OpToRel(<, Nat))
  BY NatLessThanWellFounded, WFMin, Zenon
<1>2. \A y \in S : ~(y < m)
  BY <1>1, Zenon DEF OpToRel
<1>3. \A y \in S : m <= y
  BY <1>2
<1>4. QED
  BY <1>3, Zenon DEF Min

\* Induction up to a bound, as a statement about the set of good numbers: segment by segment,
\* frame by frame.
LEMMA Reaches ==
  ASSUME NEW N \in Nat, NEW S, 0 \in S,
         \A n \in 0..N : n # N /\ n \in S => n + 1 \in S
  PROVE  \A n \in 0..N : n \in S
<1> DEFINE Bad == {n \in 0..N : n \notin S}
<1>1. SUFFICES ASSUME Bad # {} PROVE FALSE
  BY Zenon
<1>2. Bad \subseteq Nat
  OBVIOUS
<1> HIDE DEF Bad
<1>3. PICK m \in Bad : \A y \in Bad : m <= y
  BY <1>1, <1>2, Least, Zenon
<1>4. m \in 0..N /\ m \notin S
  BY Zenon DEF Bad
<1>5. m - 1 \in 0..N /\ m - 1 # N /\ ~(m <= m - 1) /\ (m - 1) + 1 = m
  BY <1>4
<1>6. QED
  BY <1>3, <1>4, <1>5, Zenon DEF Bad

-----------------------------------------------------------------------------
(* Reading segment after segment.                                           *)

\* f[i] is what the first i segments hold, for i up to n.
Runs(disk, n, f) == f = [i \in 0..n |-> IF i = 0 THEN <<>> ELSE f[i - 1] \o SegmentRecords(disk[i])]

\* What such a function is at zero and at each later segment.
LEMMA RunValues ==
  ASSUME NEW disk, NEW n \in Nat, NEW f, Runs(disk, n, f)
  PROVE  f[0] = <<>> /\ \A i \in 1..n : f[i] = f[i - 1] \o SegmentRecords(disk[i])
<1>1. \A i \in 0..n : f[i] = IF i = 0 THEN <<>> ELSE f[i - 1] \o SegmentRecords(disk[i])
  BY Zenon DEF Runs
<1>2. 0 \in 0..n /\ \A i \in 1..n : i \in 0..n /\ i # 0
  OBVIOUS
<1>3. QED
  BY <1>1, <1>2, Zenon

\* The reader can get to any segment.
LEMMA RunExists ==
  ASSUME NEW disk, NEW N \in Nat
  PROVE  \E f : Runs(disk, N, f)
<1> DEFINE Good == {n \in Nat : \E f : Runs(disk, n, f)}
<1>1. 0 \in Good
  <2> DEFINE f == [i \in 0..0 |-> <<>>]
  <2>1. f = [i \in 0..0 |-> IF i = 0 THEN <<>> ELSE f[i - 1] \o SegmentRecords(disk[i])]
    OBVIOUS
  <2> HIDE DEF f
  <2>2. Runs(disk, 0, f)
    BY <2>1, Zenon DEF Runs
  <2>3. QED
    BY <2>2, Zenon
<1>2. ASSUME NEW k \in 0..N, k # N, NEW f, Runs(disk, k, f) PROVE \E h : Runs(disk, k + 1, h)
  <2> DEFINE h == [i \in 0..(k + 1) |-> IF i = 0 THEN <<>> ELSE f[i - 1] \o SegmentRecords(disk[i])]
  <2>1. ASSUME NEW i \in 0..k PROVE h[i] = f[i]
    <3>1. f[i] = IF i = 0 THEN <<>> ELSE f[i - 1] \o SegmentRecords(disk[i])
      BY <1>2, Zenon DEF Runs
    <3>2. QED
      BY <3>1
  <2>2. ASSUME NEW i \in 0..(k + 1) PROVE h[i] = IF i = 0 THEN <<>> ELSE h[i - 1] \o SegmentRecords(disk[i])
    <3>1. CASE i = 0
      BY <3>1, Zenon
    <3>2. CASE i # 0
      <4>1. i - 1 \in 0..k
        BY <3>2
      <4>2. h[i - 1] = f[i - 1]
        BY <2>1, <4>1, Zenon
      <4>3. h[i] = f[i - 1] \o SegmentRecords(disk[i])
        BY <3>2, Zenon
      <4> HIDE DEF h
      <4>4. QED
        BY <3>2, <4>2, <4>3, Zenon
    <3>3. QED
      BY <3>1, <3>2, Zenon
  <2>3. h = [i \in 0..(k + 1) |-> h[i]]
    BY Zenon
  <2> HIDE DEF h
  <2>4. Runs(disk, k + 1, h)
    BY <2>2, <2>3, Zenon DEF Runs
  <2>5. QED
    BY <2>4, Zenon
<1>3. \A k \in 0..N : k # N /\ k \in Good => k + 1 \in Good
  BY <1>2
<1> HIDE DEF Good
<1>4. \A n \in 0..N : n \in Good
  BY <1>1, <1>3, Reaches, Zenon
<1>5. N \in Good
  BY <1>4
<1>6. QED
  BY <1>5, Zenon DEF Good

\* Reading further changes nothing of what was read before.
LEMMA RunsAgree ==
  ASSUME NEW disk, NEW n \in Nat, NEW m \in Nat, n <= m,
         NEW f, Runs(disk, n, f), NEW g, Runs(disk, m, g)
  PROVE  f[n] = g[n]
<1> DEFINE Good == {k \in Nat : f[k] = g[k]}
<1>1. f[0] = <<>> /\ \A i \in 1..n : f[i] = f[i - 1] \o SegmentRecords(disk[i])
  BY RunValues, Zenon
<1>2. g[0] = <<>> /\ \A i \in 1..m : g[i] = g[i - 1] \o SegmentRecords(disk[i])
  BY RunValues, Zenon
<1>3. 0 \in Good
  BY <1>1, <1>2, Zenon
<1>4. ASSUME NEW k \in 0..n, k # n, k \in Good PROVE k + 1 \in Good
  <2>1. k + 1 \in 1..n /\ k + 1 \in 1..m /\ (k + 1) - 1 = k /\ k + 1 \in Nat
    BY <1>4
  <2>2. f[k + 1] = f[k] \o SegmentRecords(disk[k + 1]) /\ g[k + 1] = g[k] \o SegmentRecords(disk[k + 1])
    BY <1>1, <1>2, <2>1, Zenon
  <2>3. f[k + 1] = g[k + 1]
    BY <1>4, <2>2, Zenon
  <2>4. QED
    BY <2>1, <2>3, Zenon
<1> HIDE DEF Good
<1>5. \A k \in 0..n : k \in Good
  BY <1>3, <1>4, Reaches, Zenon
<1>6. n \in Good
  BY <1>5
<1>7. QED
  BY <1>6, Zenon DEF Good

\* ReadUpTo is such a function's last value, whichever segment it was built for.
LEMMA ReadIsRun ==
  ASSUME NEW disk, NEW n \in Nat, NEW m \in Nat, n <= m, NEW g, Runs(disk, m, g)
  PROVE  ReadUpTo(disk, n) = g[n]
<1>1. Runs(disk, n, CHOOSE f : Runs(disk, n, f))
  BY RunExists, Zenon
<1>2. ReadUpTo(disk, n) = (CHOOSE f : Runs(disk, n, f))[n]
  BY Zenon DEF ReadUpTo, Runs
<1>3. QED
  BY <1>1, <1>2, RunsAgree

\* What the first n segments hold is what those before the n-th hold, then the n-th's records.
LEMMA ReadUpToSteps ==
  ASSUME NEW disk, NEW N \in Nat, \A i \in 1..N : IsSequence(SegmentRecords(disk[i]))
  PROVE  /\ ReadUpTo(disk, 0) = <<>>
         /\ \A n \in 1..N : ReadUpTo(disk, n) = ReadUpTo(disk, n - 1) \o SegmentRecords(disk[n])
         /\ \A n \in 0..N : IsSequence(ReadUpTo(disk, n))
<1>1. PICK g : Runs(disk, N, g)
  BY RunExists, Zenon
<1>2. \A n \in 0..N : ReadUpTo(disk, n) = g[n]
  BY <1>1, ReadIsRun
<1>3. g[0] = <<>> /\ \A n \in 1..N : g[n] = g[n - 1] \o SegmentRecords(disk[n])
  BY <1>1, RunValues, Zenon
<1>4. ReadUpTo(disk, 0) = <<>>
  BY <1>2, <1>3
<1>5. ASSUME NEW n \in 1..N PROVE ReadUpTo(disk, n) = ReadUpTo(disk, n - 1) \o SegmentRecords(disk[n])
  <2>1. n \in 0..N /\ n - 1 \in 0..N
    OBVIOUS
  <2>2. QED
    BY <1>2, <1>3, <2>1, Zenon
<1>6. \A n \in 0..N : IsSequence(ReadUpTo(disk, n))
  <2> DEFINE Good == {n \in Nat : IsSequence(ReadUpTo(disk, n))}
  <2>1. 0 \in Good
    BY <1>4, NoElements, Zenon
  <2>2. ASSUME NEW k \in 0..N, k # N, k \in Good PROVE k + 1 \in Good
    <3>1. k + 1 \in 1..N /\ (k + 1) - 1 = k
      BY <2>2
    <3>2. ReadUpTo(disk, k + 1) = ReadUpTo(disk, k) \o SegmentRecords(disk[k + 1])
      BY <1>5, <3>1, Zenon
    <3>3. QED
      BY <2>2, <3>1, <3>2, ConcatFacts, SMTT(30)
  <2> HIDE DEF Good
  <2>3. \A n \in 0..N : n \in Good
    BY <2>1, <2>2, Reaches, Zenon
  <2>4. QED
    BY <2>3, Zenon DEF Good
<1>7. QED
  BY <1>4, <1>5, <1>6, Zenon

-----------------------------------------------------------------------------
(* read_all().                                                              *)

\* The members of a concatenation.
LEMMA ConcatMembers ==
  ASSUME NEW s, IsSequence(s), NEW t, IsSequence(t)
  PROVE  Range(s \o t) = Range(s) \cup Range(t)
<1>1. PICK u : u = s \o t
  BY Zenon
<1>2. /\ Len(s) \in Nat /\ DOMAIN s = 1..Len(s) /\ Len(t) \in Nat /\ DOMAIN t = 1..Len(t)
      /\ DOMAIN u = 1..(Len(s) + Len(t))
      /\ \A i \in 1..Len(s) : u[i] = s[i]
      /\ \A i \in 1..Len(t) : u[Len(s) + i] = t[i]
  <2>1. IsSequence(u) /\ Len(u) = Len(s) + Len(t)
    BY <1>1, ConcatFacts, Zenon
  <2>2. DOMAIN u = 1..Len(u)
    BY <2>1, SequenceFacts, Zenon
  <2>3. QED
    BY <1>1, <2>1, <2>2, ConcatFacts, SequenceFacts
<1>3. ASSUME NEW i \in 1..(Len(s) + Len(t)) PROVE u[i] \in Range(s) \cup Range(t)
  <2>1. CASE i \in 1..Len(s)
    BY <1>2, <2>1, Zenon DEF Range
  <2>2. CASE i \notin 1..Len(s)
    <3>1. PICK j \in 1..Len(t) : i = Len(s) + j
      <4>1. i - Len(s) \in 1..Len(t) /\ i = Len(s) + (i - Len(s))
        BY <1>2, <2>2
      <4>2. QED
        BY <4>1, Zenon
    <3>2. u[i] = t[j]
      BY <1>2, <3>1, Zenon
    <3>3. QED
      BY <1>2, <3>2, Zenon DEF Range
  <2>3. QED
    BY <2>1, <2>2, Zenon
<1>4. \A i \in 1..Len(s) : i \in 1..(Len(s) + Len(t))
  BY <1>2
<1>5. \A i \in 1..Len(t) : Len(s) + i \in 1..(Len(s) + Len(t))
  BY <1>2
<1>6. Range(s) \subseteq Range(u) /\ Range(t) \subseteq Range(u)
  BY <1>2, <1>4, <1>5, Zenon DEF Range
<1>7. Range(u) \subseteq Range(s) \cup Range(t)
  BY <1>2, <1>3, Zenon DEF Range
<1>8. QED
  BY <1>1, <1>6, <1>7, Zenon

\* n frames after the header are records, and no more.
RunsTo(segment, n) ==
  /\ n \in 0..(Len(segment.frames) - 1)
  /\ \A i \in 2..(n + 1) : segment.frames[i].kind = "record"
  /\ n = Len(segment.frames) - 1 \/ segment.frames[n + 2].kind # "record"

\* The reader finds one such number.
LEMMA RunFacts ==
  ASSUME NEW segment, IsSequence(segment.frames), segment.frames # <<>>
  PROVE  /\ RunsTo(segment, RecordRun(segment))
         /\ \A n : RunsTo(segment, n) => RecordRun(segment) = n
<1> DEFINE w == Len(segment.frames)
           Ends == {n \in 0..(w - 1) : n = w - 1 \/ segment.frames[n + 2].kind # "record"}
<1>1. w \in Nat /\ w # 0
  <2>1. w \in Nat /\ segment.frames = [i \in 1..w |-> segment.frames[i]]
    BY SequenceFacts, Zenon
  <2>2. CASE w = 0
    <3>1. segment.frames = <<>>
      BY <2>1, <2>2
    <3>2. QED
      BY <3>1, Zenon
  <2>3. QED
    BY <2>1, <2>2, Zenon
<1> HIDE DEF w
<1>2. PICK m : m = Min(Ends) /\ m \in Ends /\ \A n \in Ends : m <= n
  <2>1. Ends \subseteq Nat /\ w - 1 \in Ends
    BY <1>1
  <2> HIDE DEF Ends
  <2>2. QED
    BY <2>1, Least, Zenon
<1>3. m \in 0..(w - 1) /\ (m = w - 1 \/ segment.frames[m + 2].kind # "record")
  BY <1>2, Zenon
<1>4. ASSUME NEW i \in 2..(m + 1) PROVE segment.frames[i].kind = "record"
  <2>1. PICK k \in Nat : k + 2 = i /\ k < m /\ k \in 0..(w - 1) /\ k # w - 1
    <3>1. i - 2 \in Nat /\ (i - 2) + 2 = i /\ i - 2 < m /\ i - 2 \in 0..(w - 1) /\ i - 2 # w - 1
      BY <1>1, <1>3
    <3>2. QED
      BY <3>1, Zenon
  <2>2. k \notin Ends
    <3> HIDE DEF Ends
    <3>1. m \in Nat
      BY <1>3
    <3>2. QED
      BY <1>2, <2>1, <3>1
  <2>3. QED
    BY <2>1, <2>2, Zenon
<1>5. RunsTo(segment, m)
  BY <1>3, <1>4, Zenon DEF RunsTo, w
<1>6. ASSUME NEW n, RunsTo(segment, n), NEW k, RunsTo(segment, k) PROVE n = k
  <2>1. ASSUME NEW a, RunsTo(segment, a), NEW b, RunsTo(segment, b) PROVE ~(a < b)
    <3>1. SUFFICES ASSUME a < b PROVE FALSE
      BY Zenon
    <3>2. a \in 0..(w - 1) /\ b \in 0..(w - 1)
      BY <2>1, Zenon DEF RunsTo, w
    <3>3. a # w - 1 /\ a + 2 \in 2..(b + 1)
      BY <1>1, <3>1, <3>2
    <3>4. QED
      BY <2>1, <3>3, Zenon DEF RunsTo, w
  <2>2. n \in Int /\ k \in Int
    BY <1>1, <1>6 DEF RunsTo, w
  <2>3. QED
    BY <1>6, <2>1, <2>2
<1>7. RecordRun(segment) = CHOOSE n \in 0..(w - 1) : RunsTo(segment, n)
  BY Zenon DEF RecordRun, RunsTo, w
<1>8. RunsTo(segment, RecordRun(segment))
  <2>1. \E n \in 0..(w - 1) : RunsTo(segment, n)
    BY <1>3, <1>5, Zenon
  <2>2. QED
    BY <1>7, <2>1, Zenon
<1>9. QED
  BY <1>6, <1>8, Zenon

\* The records of a segment are the frames of its run.
LEMMA RecordsFacts ==
  ASSUME NEW segment, IsSequence(segment.frames)
  PROVE  /\ IsSequence(SegmentRecords(segment))
         /\ ~HasHeader(segment) => SegmentRecords(segment) = <<>>
         /\ HasHeader(segment) =>
              /\ Len(SegmentRecords(segment)) = RecordRun(segment)
              /\ \A i \in 1..RecordRun(segment) : SegmentRecords(segment)[i] = segment.frames[i + 1].payload
<1>1. CASE ~HasHeader(segment)
  BY <1>1, NoElements, Zenon DEF SegmentRecords
<1>2. CASE HasHeader(segment)
  <2>1. segment.frames # <<>>
    BY <1>2, Zenon DEF HasHeader
  <2>2. RecordRun(segment) \in Nat
    <3>1. Len(segment.frames) \in Nat
      BY SequenceFacts, Zenon
    <3>2. QED
      BY <2>1, <3>1, RunFacts DEF RunsTo
  <2>3. SegmentRecords(segment) = [i \in 1..RecordRun(segment) |-> segment.frames[i + 1].payload]
    BY <1>2, Zenon DEF SegmentRecords
  <2>4. PICK n \in Nat : n = RecordRun(segment)
    BY <2>2, Zenon
  <2> DEFINE found == SegmentRecords(segment)
  <2>5. found = [i \in 1..n |-> found[i]] /\ \A i \in 1..n : found[i] = segment.frames[i + 1].payload
    BY <2>3, <2>4, Zenon
  <2> HIDE DEF found
  <2>6. IsSequence(found) /\ Len(found) = n
    BY <2>5, FunctionIsSequence, Zenon
  <2>7. QED
    BY <1>2, <2>4, <2>5, <2>6, Zenon DEF found
<1>3. QED
  BY <1>1, <1>2, Zenon

\* The frames of every segment are a sequence.
IsDisk(disk) == IsSequence(disk) /\ \A i \in 1..Len(disk) : IsSequence(disk[i].frames)

\* The reader stops at the first segment it reports, and returns the records up to it.
LEMMA ReadAllFacts ==
  ASSUME NEW disk, IsDisk(disk)
  PROVE  /\ SegmentsRead(disk) \in 0..Len(disk)
         /\ \A i \in 1..SegmentsRead(disk) : i # SegmentsRead(disk) => ~StopsReading(disk[i])
         /\ SegmentsRead(disk) = Len(disk) \/ StopsReading(disk[SegmentsRead(disk)])
         /\ ReadAll(disk) = ReadUpTo(disk, SegmentsRead(disk))
         /\ SegmentsRead(disk) = 0 => Len(disk) = 0
<1> DEFINE Stops == {i \in 1..Len(disk) : StopsReading(disk[i])}
<1>1. Len(disk) \in Nat
  BY SequenceFacts, Zenon DEF IsDisk
<1>2. SegmentsRead(disk) = IF Stops = {} THEN Len(disk) ELSE Min(Stops)
  BY Zenon DEF SegmentsRead
<1>3. ReadAll(disk) = ReadUpTo(disk, SegmentsRead(disk))
  BY Zenon DEF ReadAll
<1>4. CASE Stops = {}
  <2>1. SegmentsRead(disk) = Len(disk) /\ \A i \in 1..Len(disk) : ~StopsReading(disk[i])
    BY <1>2, <1>4, Zenon
  <2>2. QED
    BY <1>1, <1>3, <2>1
<1>5. CASE Stops # {}
  <2>1. PICK m : m = Min(Stops) /\ m \in Stops /\ \A i \in Stops : m <= i
    <3>1. Stops \subseteq Nat
      BY <1>1
    <3> HIDE DEF Stops
    <3>2. QED
      BY <1>5, <3>1, Least, Zenon
  <2>2. m \in 1..Len(disk) /\ StopsReading(disk[m]) /\ \A i \in 1..Len(disk) : i < m => ~StopsReading(disk[i])
    <3>1. m \in 1..Len(disk) /\ StopsReading(disk[m])
      BY <2>1, Zenon
    <3>2. ASSUME NEW i \in 1..Len(disk), i < m PROVE i \notin Stops
      <4> HIDE DEF Stops
      <4>1. QED
        BY <1>1, <2>1, <3>1, <3>2
    <3>3. QED
      BY <3>1, <3>2, Zenon
  <2>3. SegmentsRead(disk) = m
    <3> HIDE DEF Stops
    <3>1. QED
      BY <1>2, <1>5, <2>1, <2>2, Zenon
  <2>4. QED
    BY <1>1, <1>3, <2>2, <2>3
<1>6. QED
  BY <1>4, <1>5, Zenon

\* read_all returns the records of the segments it reads.
LEMMA ReadUpToMembers ==
  ASSUME NEW disk, IsDisk(disk), NEW N \in 0..Len(disk)
  PROVE  /\ IsSequence(ReadUpTo(disk, N))
         /\ \A x : x \in Range(ReadUpTo(disk, N)) <=> \E i \in 1..N : x \in Range(SegmentRecords(disk[i]))
<1>1. Len(disk) \in Nat /\ N \in Nat /\ \A i \in 1..Len(disk) : IsSequence(SegmentRecords(disk[i]))
  BY SequenceFacts, RecordsFacts DEF IsDisk
<1>2. /\ ReadUpTo(disk, 0) = <<>>
      /\ \A n \in 1..N : ReadUpTo(disk, n) = ReadUpTo(disk, n - 1) \o SegmentRecords(disk[n])
      /\ \A n \in 0..N : IsSequence(ReadUpTo(disk, n))
  <2>1. \A i \in 1..N : IsSequence(SegmentRecords(disk[i]))
    BY <1>1
  <2>2. QED
    BY <1>1, <2>1, ReadUpToSteps, Zenon
<1> DEFINE Gathered(n) == \A x : x \in Range(ReadUpTo(disk, n)) <=> \E i \in 1..n : x \in Range(SegmentRecords(disk[i]))
           Good == {n \in Nat : Gathered(n)}
<1>3. 0 \in Good
  <2>1. Range(<<>>) = {}
    <3>1. DOMAIN <<>> = {}
      OBVIOUS
    <3>2. QED
      BY <3>1, Zenon DEF Range
  <2>2. QED
    BY <1>2, <2>1
<1>4. ASSUME NEW k \in 0..N, k # N, k \in Good PROVE k + 1 \in Good
  <2>1. k + 1 \in 1..N /\ (k + 1) - 1 = k /\ k + 1 \in 1..Len(disk)
    BY <1>1, <1>4
  <2>2. ReadUpTo(disk, k + 1) = ReadUpTo(disk, k) \o SegmentRecords(disk[k + 1])
    BY <1>2, <2>1, Zenon
  <2>3. Range(ReadUpTo(disk, k + 1)) = Range(ReadUpTo(disk, k)) \cup Range(SegmentRecords(disk[k + 1]))
    BY <1>1, <1>2, <2>1, <2>2, ConcatMembers, Zenon
  <2>4. \A i : i \in 1..(k + 1) <=> i \in 1..k \/ i = k + 1
    BY <1>4
  <2>5. Gathered(k)
    BY <1>4, Zenon
  <2>6. Gathered(k + 1)
    BY <2>3, <2>4, <2>5, Zenon
  <2>7. QED
    BY <2>6
<1>5. Gathered(N)
  <2> HIDE DEF Good
  <2>1. \A n \in 0..N : n \in Good
    BY <1>1, <1>3, <1>4, Reaches, Zenon
  <2>2. QED
    BY <1>1, <2>1 DEF Good
<1>6. QED
  BY <1>1, <1>2, <1>5

-----------------------------------------------------------------------------
(* The writer, a failed write and a crash.                                  *)

\* A segment's file begins with a header, or with what a crash left of it, and ends at its
\* footer.
SegmentShape(segment) ==
  /\ segment = [frames |-> segment.frames, durable |-> segment.durable]
  /\ IsSequence(segment.frames) /\ segment.durable \in 0..Len(segment.frames)
  /\ \A j \in 1..Len(segment.frames) : segment.frames[j].kind = "footer" => j = Len(segment.frames)
  /\ segment.frames # <<>> => segment.frames[1].kind \in {"header"} \cup TornKinds

\* A segment that is being written has its header and no footer.
Unclosed(segment) ==
  HasHeader(segment) /\ \A j \in 1..Len(segment.frames) : segment.frames[j].kind # "footer"

\* Only the last segment is ever open, and every other is durable.
LogShape(l) ==
  /\ l = [disk |-> l.disk, file |-> l.file, segment_records |-> l.segment_records,
          segment_bytes |-> l.segment_bytes, total_bytes |-> l.total_bytes]
  /\ IsSequence(l.disk) /\ l.file \in {0, Len(l.disk)}
  /\ l.segment_records \in Nat /\ l.segment_bytes \in Nat /\ l.total_bytes \in Nat
  /\ \A i \in 1..Len(l.disk) : SegmentShape(l.disk[i])
  /\ \A i \in 1..Len(l.disk) : i # l.file => l.disk[i].durable = Len(l.disk[i].frames)
  /\ l.file # 0 => Unclosed(l.disk[l.file])

\* A log that no process has open.
LEMMA NewShape ==
  ASSUME NEW disk, IsSequence(disk), \A i \in 1..Len(disk) : SegmentShape(disk[i]),
         \A i \in 1..Len(disk) : disk[i].durable = Len(disk[i].frames), NEW l, l = NewLog(disk)
  PROVE  LogShape(l) /\ l.disk = disk /\ l.file = 0 /\ l.segment_records = 0
  BY Zenon DEF NewLog, LogShape

\* open_segment()
LEMMA OpenShape ==
  ASSUME NEW l, LogShape(l), l.file = 0, NEW m, m = OpenSegment(l)
  PROVE  /\ LogShape(m) /\ m.file = Len(l.disk) + 1 /\ Longer(l.disk, EmptySegment, m.disk)
         /\ m.segment_records = 0 /\ m.segment_bytes = HeaderBytes
<1>1. /\ m.disk = Append(l.disk, EmptySegment) /\ m.file = Len(l.disk) + 1 /\ m.segment_records = 0
      /\ m.segment_bytes = HeaderBytes /\ m.total_bytes = l.total_bytes
      /\ m = [disk |-> m.disk, file |-> m.file, segment_records |-> m.segment_records,
              segment_bytes |-> m.segment_bytes, total_bytes |-> m.total_bytes]
  BY Zenon DEF OpenSegment, LogShape
<1>2. IsSequence(l.disk) /\ Len(l.disk) \in Nat
  BY SequenceFacts, Zenon DEF LogShape
<1>3. Longer(l.disk, EmptySegment, m.disk)
  BY <1>1, <1>2, AppendFacts, Zenon
<1>4. /\ EmptySegment.frames = <<HeaderFrame>> /\ EmptySegment.durable = 0 /\ IsSequence(<<HeaderFrame>>)
      /\ Len(<<HeaderFrame>>) = 1 /\ <<HeaderFrame>>[1] = HeaderFrame /\ HeaderFrame.kind = "header"
      /\ EmptySegment = [frames |-> EmptySegment.frames, durable |-> EmptySegment.durable]
  BY OneElement, Zenon DEF EmptySegment, HeaderFrame, Frame
<1>5. SegmentShape(EmptySegment) /\ Unclosed(EmptySegment)
  <2>1. <<HeaderFrame>> # <<>>
    BY <1>4, NoElements, Zenon
  <2>2. \A j \in 1..1 : j = 1
    OBVIOUS
  <2>3. QED
    BY <1>4, <2>1, <2>2 DEF SegmentShape, Unclosed, HasHeader
<1>6. \A i \in 1..Len(m.disk) : i \in 1..Len(l.disk) \/ i = Len(l.disk) + 1
  BY <1>2, <1>3 DEF Longer
<1>7. LogShape(m)
  <2>1. \A i \in 1..Len(m.disk) : SegmentShape(m.disk[i])
    BY <1>3, <1>5, <1>6, Zenon DEF LogShape, Longer
  <2>2. \A i \in 1..Len(m.disk) : i # m.file => m.disk[i].durable = Len(m.disk[i].frames)
    <3>1. \A i \in 1..Len(l.disk) : i # 0
      OBVIOUS
    <3>2. QED
      BY <1>1, <1>3, <1>6, <3>1, ZenonT(30) DEF LogShape, Longer
  <2>3. Unclosed(m.disk[m.file])
    BY <1>1, <1>3, <1>5, Zenon DEF Longer
  <2>4. HeaderBytes \in Nat
    BY LogAssumption, Zenon
  <2>5. QED
    BY <1>1, <1>3, <2>1, <2>2, <2>3, <2>4 DEF LogShape, Longer
<1>8. QED
  BY <1>1, <1>3, <1>7, Zenon DEF Longer

\* A frame more in a segment.
Written(old, frame, new) ==
  /\ new = [frames |-> new.frames, durable |-> new.durable] /\ new.durable = old.durable
  /\ Longer(old.frames, frame, new.frames)

\* A record, a footer or a torn piece is written at the end of the file.
LEMMA WriteFrameFacts ==
  ASSUME NEW old, SegmentShape(old), NEW frame
  PROVE  Written(old, frame, WriteFrame(old, frame))
<1>1. PICK new : new = WriteFrame(old, frame)
  BY Zenon
<1>2. new = [frames |-> new.frames, durable |-> new.durable] /\ new.frames = Append(old.frames, frame)
      /\ new.durable = old.durable
  BY <1>1, Zenon DEF WriteFrame, SegmentShape
<1>3. Longer(old.frames, frame, new.frames)
  BY <1>2, AppendFacts, Zenon DEF SegmentShape
<1>4. QED
  BY <1>1, <1>2, <1>3, Zenon DEF Written

\* What is written to the open file, and what closes it, leaves every other segment alone.
LEMMA ReplaceShape ==
  ASSUME NEW l, LogShape(l), l.file # 0, NEW new, SegmentShape(new),
         NEW m, m = [disk |-> m.disk, file |-> m.file, segment_records |-> m.segment_records,
                     segment_bytes |-> m.segment_bytes, total_bytes |-> m.total_bytes],
         m.disk = [l.disk EXCEPT ![l.file] = new], m.file \in {0, l.file},
         m.segment_records \in Nat, m.segment_bytes \in Nat, m.total_bytes \in Nat,
         m.file = 0 => new.durable = Len(new.frames), m.file # 0 => Unclosed(new)
  PROVE  LogShape(m) /\ Replaced(l.disk, l.file, new, m.disk)
<1>1. IsSequence(l.disk) /\ Len(l.disk) \in Nat /\ l.file = Len(l.disk) /\ l.file \in 1..Len(l.disk)
  BY SequenceFacts DEF LogShape
<1>2. Replaced(l.disk, l.file, new, m.disk)
  BY <1>1, ExceptFacts
<1>3. \A i \in 1..Len(m.disk) : SegmentShape(m.disk[i])
  BY <1>2, Zenon DEF LogShape, Replaced
<1>4. \A i \in 1..Len(m.disk) : i # m.file => m.disk[i].durable = Len(m.disk[i].frames)
  BY <1>2, Zenon DEF LogShape, Replaced
<1>5. m.file # 0 => Unclosed(m.disk[m.file])
  BY <1>2, Zenon DEF Replaced
<1>6. QED
  BY <1>1, <1>2, <1>3, <1>4, <1>5, Zenon DEF LogShape, Replaced

\* A record, or what a failed write leaves of one, keeps a segment open.
LEMMA WriteUnclosed ==
  ASSUME NEW old, SegmentShape(old), Unclosed(old),
         NEW frame, frame.kind \in {"record"} \cup TornKinds, NEW new, Written(old, frame, new)
  PROVE  SegmentShape(new) /\ Unclosed(new)
<1>1. \A j \in 1..Len(new.frames) : new.frames[j].kind # "footer"
  <2>1. \A j \in 1..Len(new.frames) : j \in 1..Len(old.frames) \/ j = Len(old.frames) + 1
    BY DEF Written, Longer
  <2>2. QED
    BY <2>1, Zenon DEF Unclosed, TornKinds, Written, Longer
<1>2. new.frames # <<>> /\ new.frames[1].kind = "header"
  <2>1. Len(old.frames) # 0
    BY NoElements, SameSequence DEF SegmentShape, Unclosed, HasHeader
  <2>2. 1 \in 1..Len(old.frames)
    BY <2>1 DEF Written, Longer
  <2>3. new.frames # <<>>
    BY NoElements DEF Written, Longer
  <2>4. QED
    BY <2>2, <2>3, Zenon DEF Unclosed, HasHeader, Written, Longer
<1>3. new.durable \in 0..Len(new.frames)
  BY DEF SegmentShape, Written, Longer
<1>4. QED
  BY <1>1, <1>2, <1>3, Zenon DEF SegmentShape, Unclosed, HasHeader, Written, Longer

\* append() writes a record to the open segment, or fails and leaves a piece of it.
LEMMA WriteShape ==
  ASSUME NEW l, LogShape(l), l.file # 0, NEW frame, frame.kind \in {"record"} \cup TornKinds,
         NEW m, m = [disk |-> m.disk, file |-> m.file, segment_records |-> m.segment_records,
                     segment_bytes |-> m.segment_bytes, total_bytes |-> m.total_bytes],
         m.disk = [l.disk EXCEPT ![l.file] = WriteFrame(@, frame)], m.file = l.file,
         m.segment_records \in Nat, m.segment_bytes \in Nat, m.total_bytes \in Nat
  PROVE  /\ LogShape(m)
         /\ \E new : Written(l.disk[l.file], frame, new) /\ Replaced(l.disk, l.file, new, m.disk)
<1>1. l.file \in 1..Len(l.disk) /\ SegmentShape(l.disk[l.file]) /\ Unclosed(l.disk[l.file])
  BY SequenceFacts DEF LogShape
<1>2. PICK new : new = WriteFrame(l.disk[l.file], frame)
  BY Zenon
<1>3. Written(l.disk[l.file], frame, new)
  BY <1>1, <1>2, WriteFrameFacts, Zenon
<1>4. SegmentShape(new) /\ Unclosed(new)
  BY <1>1, <1>3, WriteUnclosed, Zenon
<1>5. LogShape(m) /\ Replaced(l.disk, l.file, new, m.disk)
  <2>1. m.disk = [l.disk EXCEPT ![l.file] = new]
    BY <1>2, Zenon
  <2>2. QED
    BY <1>4, <2>1, ReplaceShape, Zenon
<1>6. QED
  BY <1>3, <1>5, Zenon

\* The file is flushed, and the file is closed: footer and flush.
Flushed(old, new) ==
  /\ new = [frames |-> new.frames, durable |-> new.durable]
  /\ new.frames = old.frames /\ new.durable = Len(old.frames)

ClosedAs(old, new) ==
  /\ new = [frames |-> new.frames, durable |-> new.durable]
  /\ Longer(old.frames, FooterFrame, new.frames) /\ new.durable = Len(new.frames)

\* close_segment()
LEMMA CloseShape ==
  ASSUME NEW l, LogShape(l), l.file # 0, NEW m, m = CloseSegment(l)
  PROVE  /\ LogShape(m) /\ m.file = 0 /\ m.segment_records = l.segment_records
         /\ \E new : ClosedAs(l.disk[l.file], new) /\ Replaced(l.disk, l.file, new, m.disk)
<1>1. PICK old : old = l.disk[l.file]
  BY Zenon
<1>2. l.file \in 1..Len(l.disk) /\ SegmentShape(old) /\ Unclosed(old)
  BY <1>1, SequenceFacts DEF LogShape
<1>3. PICK mid : mid = WriteFrame(old, FooterFrame)
  BY Zenon
<1>4. Written(old, FooterFrame, mid)
  BY <1>2, <1>3, WriteFrameFacts, Zenon
<1>5. PICK new : new = Flush(mid)
  BY Zenon
<1>6. ClosedAs(old, new)
  BY <1>4, <1>5, Zenon DEF Flush, Written, ClosedAs
<1>7. SegmentShape(new)
  <2>1. \A j \in 1..Len(new.frames) : new.frames[j].kind = "footer" => j = Len(new.frames)
    <3>1. \A j \in 1..Len(new.frames) : j \in 1..Len(old.frames) \/ j = Len(old.frames) + 1
      BY <1>6 DEF ClosedAs, Longer
    <3>2. QED
      BY <1>2, <1>6, <3>1, Zenon DEF ClosedAs, Longer, Unclosed
  <2>2. new.frames[1].kind = "header"
    <3>1. Len(old.frames) # 0
      BY <1>2, NoElements, SameSequence DEF SegmentShape, Unclosed, HasHeader
    <3>2. 1 \in 1..Len(old.frames)
      BY <1>6, <3>1 DEF ClosedAs, Longer
    <3>3. QED
      BY <1>2, <1>6, <3>2, Zenon DEF Unclosed, HasHeader, ClosedAs, Longer
  <2>3. new.durable \in 0..Len(new.frames)
    BY <1>6 DEF ClosedAs, Longer
  <2>4. QED
    BY <1>6, <2>1, <2>2, <2>3, Zenon DEF SegmentShape, ClosedAs, Longer
<1>8. /\ m.disk = [l.disk EXCEPT ![l.file] = new] /\ m.file = 0
      /\ m.segment_records = l.segment_records /\ m.segment_bytes = l.segment_bytes + FooterBytes
      /\ m.total_bytes = l.total_bytes + FooterBytes
      /\ m = [disk |-> m.disk, file |-> m.file, segment_records |-> m.segment_records,
              segment_bytes |-> m.segment_bytes, total_bytes |-> m.total_bytes]
  <2>1. l.disk = [i \in 1..Len(l.disk) |-> l.disk[i]]
    BY SequenceFacts, Zenon DEF LogShape
  <2>2. m.disk = [l.disk EXCEPT ![l.file] = Flush(WriteFrame(@, FooterFrame))]
    BY Zenon DEF CloseSegment, LogShape
  <2>3. m.disk = [l.disk EXCEPT ![l.file] = new]
    BY <1>1, <1>3, <1>5, <2>2, Zenon
  <2>4. QED
    BY <2>3, Zenon DEF CloseSegment, LogShape
<1>9. m.segment_records \in Nat /\ m.segment_bytes \in Nat /\ m.total_bytes \in Nat
  BY <1>8, LogAssumption DEF LogShape
<1>10. new.durable = Len(new.frames)
  BY <1>6, Zenon DEF ClosedAs
<1>11. LogShape(m) /\ Replaced(l.disk, l.file, new, m.disk)
  BY <1>7, <1>8, <1>9, <1>10, ReplaceShape
<1>12. QED
  BY <1>1, <1>6, <1>8, <1>11, Zenon

\* sync() with an open file.
LEMMA SyncShape ==
  ASSUME NEW l, LogShape(l), l.file # 0, NEW m, m = SyncLog(l)
  PROVE  /\ LogShape(m) /\ m.file = l.file
         /\ m.segment_records = l.segment_records /\ m.segment_bytes = l.segment_bytes
         /\ \E new : Flushed(l.disk[l.file], new) /\ Replaced(l.disk, l.file, new, m.disk)
<1>1. PICK old : old = l.disk[l.file]
  OBVIOUS
<1>2. l.file \in 1..Len(l.disk) /\ SegmentShape(old) /\ Unclosed(old) /\ Len(old.frames) \in Nat
  <2>1. l.file \in 1..Len(l.disk) /\ SegmentShape(old) /\ Unclosed(old)
    BY <1>1, SequenceFacts DEF LogShape
  <2>2. QED
    BY <2>1, SequenceFacts, ZenonT(30) DEF SegmentShape
<1>3. PICK new : new = Flush(old)
  OBVIOUS
<1>4. Flushed(old, new)
  BY <1>2, <1>3, Zenon DEF Flush, Flushed, SegmentShape
<1>5. SegmentShape(new) /\ Unclosed(new)
  <2>1. new.durable \in 0..Len(new.frames)
    BY <1>2, <1>4 DEF Flushed
  <2>2. QED
    BY <1>2, <1>4, <2>1, Zenon DEF SegmentShape, Unclosed, HasHeader, Flushed
<1>6. /\ m.disk = [l.disk EXCEPT ![l.file] = new] /\ m.file = l.file
      /\ m.segment_records = l.segment_records /\ m.segment_bytes = l.segment_bytes
      /\ m.total_bytes = l.total_bytes
      /\ m = [disk |-> m.disk, file |-> m.file, segment_records |-> m.segment_records,
              segment_bytes |-> m.segment_bytes, total_bytes |-> m.total_bytes]
  <2>1. m.disk = [l.disk EXCEPT ![l.file] = Flush(@)]
    BY Zenon DEF SyncLog, LogShape
  <2>2. m.disk = [l.disk EXCEPT ![l.file] = new]
    BY <1>1, <1>3, <2>1, Zenon
  <2>3. QED
    BY <2>2, Zenon DEF SyncLog, LogShape
<1>7. m.segment_records \in Nat /\ m.segment_bytes \in Nat /\ m.total_bytes \in Nat
  BY <1>6, Zenon DEF LogShape
<1>8. LogShape(m) /\ Replaced(l.disk, l.file, new, m.disk)
  BY <1>5, <1>6, <1>7, ReplaceShape, ZenonT(30)
<1>9. QED
  BY <1>1, <1>4, <1>6, <1>8, Zenon

\* What a crash leaves of a file: the first n frames, at least the durable ones, and possibly
\* a piece of the next.
CrashedAs(old, n, new) ==
  /\ new = [frames |-> new.frames, durable |-> new.durable] /\ new.durable = Len(new.frames)
  /\ IsSequence(new.frames) /\ n \in old.durable..Len(old.frames)
  /\ \A j \in 1..n : new.frames[j] = old.frames[j]
  /\ \/ Len(new.frames) = n
     \/ /\ n < Len(old.frames) /\ Len(new.frames) = n + 1
        /\ new.frames[n + 1].kind \in TornKinds /\ new.frames[n + 1].size = old.frames[n + 1].size

\* Every image of a file after a crash is of that form.
LEMMA CrashImageFacts ==
  ASSUME NEW old, SegmentShape(old), NEW new \in CrashImages(old)
  PROVE  \E n : CrashedAs(old, n, new)
<1>1. old.durable \in Nat /\ Len(old.frames) \in Nat /\ old.durable <= Len(old.frames) /\ IsSequence(old.frames)
  BY SequenceFacts DEF SegmentShape
<1>2. CASE \E n \in old.durable..Len(old.frames) :
             new = [frames |-> SubSeq(old.frames, 1, n), durable |-> Len(SubSeq(old.frames, 1, n))]
  <2>1. PICK n \in old.durable..Len(old.frames) :
          new = [frames |-> SubSeq(old.frames, 1, n), durable |-> Len(SubSeq(old.frames, 1, n))]
    BY <1>2, Zenon
  <2>2. n \in 0..Len(old.frames)
    BY <1>1
  <2>3. new.frames = SubSeq(old.frames, 1, n) /\ new.durable = Len(new.frames)
        /\ new = [frames |-> new.frames, durable |-> new.durable]
    BY <2>1, Zenon
  <2>4. Cut(old.frames, n, new.frames)
    BY <1>1, <2>2, <2>3, PrefixFacts, Zenon
  <2>5. CrashedAs(old, n, new)
    BY <2>3, <2>4, Zenon DEF CrashedAs, Cut
  <2>6. QED
    BY <2>5, Zenon
<1>3. CASE \E n \in old.durable..(Len(old.frames) - 1), kind \in TornKinds :
             new = [frames |-> Append(SubSeq(old.frames, 1, n), Frame(kind, NoPayload, old.frames[n + 1].size)),
                    durable |-> Len(Append(SubSeq(old.frames, 1, n), Frame(kind, NoPayload, old.frames[n + 1].size)))]
  <2>1. PICK n \in old.durable..(Len(old.frames) - 1), kind \in TornKinds :
             new = [frames |-> Append(SubSeq(old.frames, 1, n), Frame(kind, NoPayload, old.frames[n + 1].size)),
                    durable |-> Len(Append(SubSeq(old.frames, 1, n), Frame(kind, NoPayload, old.frames[n + 1].size)))]
    BY <1>3, Zenon
  <2>2. n \in 0..Len(old.frames) /\ n < Len(old.frames) /\ n \in old.durable..Len(old.frames)
    BY <1>1
  <2>3. PICK kept, torn : kept = SubSeq(old.frames, 1, n) /\ torn = Frame(kind, NoPayload, old.frames[n + 1].size)
    BY Zenon
  <2>4. Cut(old.frames, n, kept)
    BY <1>1, <2>2, <2>3, PrefixFacts, ZenonT(30)
  <2>5. new.frames = Append(kept, torn) /\ new.durable = Len(new.frames)
        /\ new = [frames |-> new.frames, durable |-> new.durable]
    BY <2>1, <2>3, Zenon
  <2>6. Longer(kept, torn, new.frames)
    BY <2>4, <2>5, AppendFacts, Zenon DEF Cut
  <2>7. torn.kind = kind /\ torn.size = old.frames[n + 1].size
    BY <2>3, Zenon DEF Frame
  <2>8. CrashedAs(old, n, new)
    BY <2>2, <2>4, <2>5, <2>6, <2>7, ZenonT(30) DEF CrashedAs, Cut, Longer
  <2>9. QED
    BY <2>8, Zenon
<1>4. QED
  BY <1>2, <1>3 DEF CrashImages

\* A crash keeps the shape of a file.
LEMMA CrashedShape ==
  ASSUME NEW old, SegmentShape(old), NEW n, NEW new, CrashedAs(old, n, new)
  PROVE  SegmentShape(new)
<1>1. old.durable \in Nat /\ Len(old.frames) \in Nat /\ Len(new.frames) \in Nat /\ n \in Nat /\ n <= Len(old.frames)
  BY SequenceFacts DEF SegmentShape, CrashedAs
<1>2. \A j \in 1..Len(new.frames) : new.frames[j].kind = "footer" => j = Len(new.frames)
  <2>1. ASSUME NEW j \in 1..Len(new.frames), new.frames[j].kind = "footer" PROVE j = Len(new.frames)
    <3>1. CASE j \in 1..n
      <4>1. j \in 1..Len(old.frames) /\ old.frames[j].kind = "footer"
        BY <1>1, <2>1, <3>1 DEF CrashedAs
      <4>2. j = Len(old.frames)
        BY <4>1, Zenon DEF SegmentShape
      <4>3. QED
        BY <1>1, <3>1, <4>2 DEF CrashedAs
    <3>2. CASE j \notin 1..n
      BY <1>1, <2>1, <3>2 DEF CrashedAs, TornKinds
    <3>3. QED
      BY <3>1, <3>2, Zenon
  <2>2. QED
    BY <2>1, Zenon
<1>3. new.frames # <<>> => new.frames[1].kind \in {"header"} \cup TornKinds
  <2>1. SUFFICES ASSUME new.frames # <<>> PROVE new.frames[1].kind \in {"header"} \cup TornKinds
    BY Zenon
  <2>2. Len(new.frames) # 0
    BY <2>1, NoElements, SameSequence DEF CrashedAs
  <2>3. CASE n = 0
    BY <1>1, <2>2, <2>3 DEF CrashedAs
  <2>4. CASE n # 0
    <3>1. 1 \in 1..n /\ Len(old.frames) # 0
      BY <1>1, <2>4
    <3>2. old.frames # <<>>
      BY <3>1, NoElements, Zenon
    <3>3. QED
      BY <3>1, <3>2, Zenon DEF CrashedAs, SegmentShape
  <2>5. QED
    BY <2>3, <2>4, Zenon
<1>4. new.durable \in 0..Len(new.frames)
  BY <1>1 DEF CrashedAs
<1>5. QED
  BY <1>2, <1>3, <1>4, Zenon DEF SegmentShape, CrashedAs

\* A crash takes frames only from the file that was open.
LEMMA CrashShape ==
  ASSUME NEW l, LogShape(l), NEW disk \in CrashedDisks(l.disk), NEW m, m = NewLog(disk)
  PROVE  /\ LogShape(m) /\ m.disk = disk /\ m.file = 0 /\ m.segment_records = 0
         /\ \/ disk = l.disk /\ \A i \in 1..Len(l.disk) : l.disk[i].durable = Len(l.disk[i].frames)
            \/ /\ l.file # 0
               /\ \E new, n : CrashedAs(l.disk[l.file], n, new) /\ Replaced(l.disk, l.file, new, disk)
<1>1. \A i \in 1..Len(l.disk) : SegmentShape(l.disk[i]) /\ l.disk[i].durable <= Len(l.disk[i].frames)
                                /\ l.disk[i].durable \in Nat /\ Len(l.disk[i].frames) \in Nat
  BY SequenceFacts DEF LogShape, SegmentShape
<1>2. CASE \A i \in 1..Len(l.disk) : ~(l.disk[i].durable < Len(l.disk[i].frames))
  <2>1. disk = l.disk
    BY <1>2, Zenon DEF CrashedDisks
  <2>2. \A i \in 1..Len(l.disk) : l.disk[i].durable = Len(l.disk[i].frames)
    BY <1>1, <1>2
  <2>3. LogShape(m) /\ m.disk = disk /\ m.file = 0 /\ m.segment_records = 0
    BY <1>1, <2>1, <2>2, NewShape DEF LogShape
  <2>4. QED
    BY <2>1, <2>2, <2>3, Zenon
<1>3. CASE ~ \A i \in 1..Len(l.disk) : ~(l.disk[i].durable < Len(l.disk[i].frames))
  <2> PICK risk : risk = {i \in 1..Len(l.disk) : l.disk[i].durable < Len(l.disk[i].frames)}
    BY Zenon
  <2> risk # {}
    BY <1>3, Zenon
  <2> disk \in UNION {{[l.disk EXCEPT ![i] = image] : image \in CrashImages(l.disk[i])} : i \in risk}
    BY Zenon DEF CrashedDisks
  <2> PICK i \in risk : disk \in {[l.disk EXCEPT ![i] = image] : image \in CrashImages(l.disk[i])}
    BY Zenon
  <2>1. PICK image \in CrashImages(l.disk[i]) :
          disk = [l.disk EXCEPT ![i] = image] /\ i \in 1..Len(l.disk) /\ l.disk[i].durable < Len(l.disk[i].frames)
    BY Zenon
  <2>2. l.disk[i].durable # Len(l.disk[i].frames)
    BY <1>1, <2>1
  <2>3. i = l.file /\ l.file # 0
    BY <2>2 DEF LogShape
  <2>4. PICK n : CrashedAs(l.disk[l.file], n, image)
    BY <1>1, <2>1, <2>3, CrashImageFacts, Zenon
  <2>5. SegmentShape(image) /\ image.durable = Len(image.frames)
    BY <1>1, <2>3, <2>4, CrashedShape, Zenon DEF CrashedAs
  <2>6. Replaced(l.disk, l.file, image, disk)
    BY <2>1, <2>3, ExceptFacts, ZenonT(30) DEF LogShape
  <2>7. IsSequence(disk) /\ \A k \in 1..Len(disk) : SegmentShape(disk[k]) /\ disk[k].durable = Len(disk[k].frames)
    BY <1>1, <2>3, <2>5, <2>6, Zenon DEF Replaced, LogShape
  <2>8. LogShape(m) /\ m.disk = disk /\ m.file = 0 /\ m.segment_records = 0
    BY <2>7, NewShape, Zenon
  <2>9. QED
    BY <2>3, <2>4, <2>6, <2>8, Zenon
<1>4. QED
  BY <1>2, <1>3, Zenon

\* append() up to its write: the log it was called with, a new segment when no file was open,
\* or a closed one and a new one.
LEMMA PrepareCases ==
  ASSUME NEW l, LogShape(l), NEW size \in Nat, NEW m, m = PrepareAppend(l, size).log
  PROVE  /\ \/ l.file # 0 /\ m = l
            \/ l.file = 0 /\ m = OpenSegment(l)
            \/ l.file # 0 /\ \E closed : closed = CloseSegment(l) /\ m = OpenSegment(closed)
         /\ PrepareAppend(l, size).accepted => size + FooterBytes <= MaxSegmentBytes /\ ~NeedsRotation(m, size)
<1>1. PICK opened : opened = IF l.file = 0 THEN OpenSegment(l) ELSE l
  BY Zenon
<1>2. PICK rotated : rotated = IF NeedsRotation(opened, size) THEN OpenSegment(CloseSegment(opened)) ELSE opened
  BY Zenon
<1>3. PrepareAppend(l, size) = IF size + FooterBytes > MaxSegmentBytes
                                 THEN [log |-> opened, accepted |-> FALSE]
                                 ELSE [log |-> rotated, accepted |-> rotated.total_bytes + size <= MaxStoreBytes]
  BY <1>1, <1>2, Zenon DEF PrepareAppend
<1>4. \A k : OpenSegment(k).segment_records = 0 \/ ~ (k = [disk |-> k.disk, file |-> k.file,
          segment_records |-> k.segment_records, segment_bytes |-> k.segment_bytes, total_bytes |-> k.total_bytes])
  BY Zenon DEF OpenSegment
<1>5. l.file = 0 => opened.segment_records = 0 /\ ~NeedsRotation(opened, size)
  BY <1>1, <1>4, Zenon DEF LogShape, NeedsRotation
<1>6. ASSUME NeedsRotation(opened, size)
      PROVE  l.file # 0 /\ (\E closed : closed = CloseSegment(l) /\ rotated = OpenSegment(closed))
             /\ ~NeedsRotation(rotated, size)
  <2>1. l.file # 0 /\ opened = l
    BY <1>1, <1>5, <1>6, Zenon
  <2>2. PICK closed : closed = CloseSegment(l)
    BY Zenon
  <2>3. rotated = OpenSegment(closed)
    BY <1>2, <1>6, <2>1, <2>2, ZenonT(30)
  <2>4. LogShape(closed)
    BY <2>1, <2>2, CloseShape, ZenonT(30)
  <2>5. rotated.segment_records = 0
    BY <1>4, <2>3, <2>4, ZenonT(30) DEF LogShape
  <2>6. QED
    BY <2>1, <2>2, <2>3, <2>5, ZenonT(30) DEF NeedsRotation
<1>7. ~NeedsRotation(opened, size) => rotated = opened
  BY <1>2, Zenon
<1>8. CASE size + FooterBytes > MaxSegmentBytes
  BY <1>1, <1>3, <1>8
<1>9. CASE ~(size + FooterBytes > MaxSegmentBytes)
  <2>1. m = rotated
    BY <1>3, <1>9
  <2>2. size + FooterBytes <= MaxSegmentBytes
    BY <1>9, LogAssumption
  <2>3. QED
    BY <1>1, <1>6, <1>7, <2>1, <2>2, ZenonT(30)
<1>10. QED
  BY <1>8, <1>9, Zenon

\* The log that append() leaves before its write has a file open when it is to write.
LEMMA PrepareShape ==
  ASSUME NEW l, LogShape(l), NEW size \in Nat, NEW m, m = PrepareAppend(l, size).log
  PROVE  LogShape(m) /\ m.file # 0
<1>1. CASE l.file # 0 /\ m = l
  BY <1>1, Zenon
<1>2. CASE l.file = 0 /\ m = OpenSegment(l)
  <2>1. LogShape(m) /\ m.file = Len(l.disk) + 1
    BY <1>2, OpenShape, Zenon
  <2>2. Len(l.disk) \in Nat
    BY SequenceFacts, Zenon DEF LogShape
  <2>3. QED
    BY <2>1, <2>2
<1>3. CASE l.file # 0 /\ \E closed : closed = CloseSegment(l) /\ m = OpenSegment(closed)
  <2>1. PICK closed : closed = CloseSegment(l) /\ m = OpenSegment(closed)
    BY <1>3, Zenon
  <2>2. LogShape(closed) /\ closed.file = 0
    BY <1>3, <2>1, CloseShape, Zenon
  <2>3. LogShape(m) /\ m.file = Len(closed.disk) + 1
    BY <2>1, <2>2, OpenShape, Zenon
  <2>4. Len(closed.disk) \in Nat
    BY <2>2, SequenceFacts, Zenon DEF LogShape
  <2>5. QED
    BY <2>3, <2>4
<1>4. QED
  BY <1>1, <1>2, <1>3, PrepareCases

\* The write of append().
LEMMA RecordShape ==
  ASSUME NEW l, LogShape(l), l.file # 0, NEW payload, NEW size \in Nat, NEW m, m = WriteRecord(l, payload, size)
  PROVE  /\ LogShape(m) /\ m.file = l.file
         /\ m.segment_records = l.segment_records + 1 /\ m.segment_bytes = l.segment_bytes + size
         /\ \E new : /\ Written(l.disk[l.file], Frame("record", payload, size), new)
                     /\ Replaced(l.disk, l.file, new, m.disk)
<1>1. PICK frame : frame = Frame("record", payload, size)
  BY Zenon
<1>2. frame.kind = "record"
  BY <1>1, Zenon DEF Frame
<1>3. /\ m.disk = [l.disk EXCEPT ![l.file] = WriteFrame(@, frame)] /\ m.file = l.file
      /\ m.segment_records = l.segment_records + 1 /\ m.segment_bytes = l.segment_bytes + size
      /\ m.total_bytes = l.total_bytes + size
      /\ m = [disk |-> m.disk, file |-> m.file, segment_records |-> m.segment_records,
              segment_bytes |-> m.segment_bytes, total_bytes |-> m.total_bytes]
  BY <1>1, Zenon DEF WriteRecord, LogShape
<1>4. m.segment_records \in Nat /\ m.segment_bytes \in Nat /\ m.total_bytes \in Nat
  BY <1>3 DEF LogShape
<1>5. /\ LogShape(m)
      /\ \E new : Written(l.disk[l.file], frame, new) /\ Replaced(l.disk, l.file, new, m.disk)
  BY <1>2, <1>3, <1>4, WriteShape, Zenon
<1>6. QED
  BY <1>1, <1>3, <1>5, Zenon

\* The records of a file to which a record was written.
LEMMA RecordWritten ==
  ASSUME NEW old, SegmentShape(old), NEW payload, NEW size, NEW new, Written(old, Frame("record", payload, size), new)
  PROVE  /\ RecordsOf(new) = RecordsOf(old) \cup {Len(old.frames) + 1} /\ Len(old.frames) + 1 \notin RecordsOf(old)
         /\ new.frames[Len(old.frames) + 1].payload = payload /\ new.frames[Len(old.frames) + 1].size = size
         /\ \A j \in RecordsOf(old) : j < Len(old.frames) + 1 /\ new.frames[j] = old.frames[j]
<1>1. /\ Len(old.frames) \in Nat /\ Len(new.frames) = Len(old.frames) + 1
      /\ new.frames[Len(old.frames) + 1] = Frame("record", payload, size)
      /\ \A j \in 1..Len(old.frames) : new.frames[j] = old.frames[j]
  BY Zenon DEF Written, Longer
<1>2. /\ Frame("record", payload, size).kind = "record" /\ Frame("record", payload, size).payload = payload
      /\ Frame("record", payload, size).size = size
  BY Zenon DEF Frame
<1>3. \A j \in 1..Len(new.frames) : j \in 1..Len(old.frames) \/ j = Len(old.frames) + 1
  BY <1>1
<1>4. \A j \in 1..Len(old.frames) : j \in 1..Len(new.frames) /\ j < Len(old.frames) + 1
  BY <1>1
<1>5. Len(old.frames) + 1 \in 1..Len(new.frames) /\ Len(old.frames) + 1 \notin 1..Len(old.frames)
  BY <1>1, SMTT(30)
<1>6. QED
  BY <1>1, <1>2, <1>3, <1>4, <1>5, Zenon DEF RecordsOf

\* A failed write leaves the log as it was, or a torn piece at the end of the open file.
LEMMA FailedShape ==
  ASSUME NEW l, LogShape(l), l.file # 0, NEW size, NEW m \in FailedWrites(l, size)
  PROVE  /\ LogShape(m) /\ m.file = l.file
         /\ m.segment_records = l.segment_records /\ m.segment_bytes = l.segment_bytes
         /\ \/ m = l
            \/ \E new, frame : /\ frame.kind \in TornKinds /\ frame.size = size
                               /\ Written(l.disk[l.file], frame, new)
                               /\ Replaced(l.disk, l.file, new, m.disk)
<1>1. CASE m = l
  BY <1>1, Zenon
<1>2. CASE m # l
  <2>1. PICK kind \in TornKinds : m = [l EXCEPT !.disk[l.file] = WriteFrame(@, Frame(kind, NoPayload, size))]
    BY <1>2, Zenon DEF FailedWrites
  <2>2. PICK frame : frame = Frame(kind, NoPayload, size)
    BY Zenon
  <2>3. frame.kind \in TornKinds /\ frame.size = size /\ frame.kind \in {"record"} \cup TornKinds
    BY <2>2, Zenon DEF Frame
  <2>4. /\ m.disk = [l.disk EXCEPT ![l.file] = WriteFrame(@, frame)] /\ m.file = l.file
        /\ m.segment_records = l.segment_records /\ m.segment_bytes = l.segment_bytes
        /\ m.total_bytes = l.total_bytes
        /\ m = [disk |-> m.disk, file |-> m.file, segment_records |-> m.segment_records,
                segment_bytes |-> m.segment_bytes, total_bytes |-> m.total_bytes]
    BY <2>1, <2>2, Zenon DEF LogShape
  <2>5. m.segment_records \in Nat /\ m.segment_bytes \in Nat /\ m.total_bytes \in Nat
    BY <2>4, Zenon DEF LogShape
  <2>6. /\ LogShape(m)
        /\ \E new : Written(l.disk[l.file], frame, new) /\ Replaced(l.disk, l.file, new, m.disk)
    BY <2>3, <2>4, <2>5, WriteShape, Zenon
  <2>7. PICK new : Written(l.disk[l.file], frame, new) /\ Replaced(l.disk, l.file, new, m.disk)
    BY <2>6, Zenon
  <2>8. QED
    BY <2>3, <2>4, <2>6, <2>7, Zenon
<1>3. QED
  BY <1>1, <1>2, Zenon

\* A log in shape is a directory of sequences of frames.
LEMMA ShapeIsDisk ==
  ASSUME NEW l, LogShape(l)
  PROVE  IsDisk(l.disk)
<1>1. ASSUME NEW i \in 1..Len(l.disk) PROVE IsSequence(l.disk[i].frames)
  <2>1. PICK segment : segment = l.disk[i]
    BY Zenon
  <2>2. SegmentShape(segment)
    BY <2>1, Zenon DEF LogShape
  <2>3. QED
    BY <2>1, <2>2, Zenon DEF SegmentShape
<1>2. QED
  BY <1>1, Zenon DEF LogShape, IsDisk

-----------------------------------------------------------------------------
(* What every operation keeps.                                              *)

\* The durable frames of a file stay, and stay durable; and it gets no new record.
KeepsDurable(old, new) ==
  /\ old.durable <= new.durable /\ new.durable \in 0..Len(new.frames)
  /\ \A j \in 1..old.durable : new.frames[j] = old.frames[j]

NothingNew(old, new) == \A j \in RecordsOf(new) : j \in RecordsOf(old) /\ new.frames[j] = old.frames[j]

DurableKept(old, new) ==
  Len(old) <= Len(new) /\ \A i \in 1..Len(old) : KeepsDurable(old[i], new[i])

NoNewRecords(old, new) ==
  /\ Len(old) <= Len(new) /\ \A i \in 1..Len(old) : NothingNew(old[i], new[i])
  /\ \A i \in 1..Len(new) : i \notin 1..Len(old) => RecordsOf(new[i]) = {}

\* A step that leaves every file as it is keeps everything.
LEMMA SameKeeps ==
  ASSUME NEW disk, IsSequence(disk), \A i \in 1..Len(disk) : SegmentShape(disk[i])
  PROVE  DurableKept(disk, disk) /\ NoNewRecords(disk, disk)
<1>1. Len(disk) \in Nat
  BY SequenceFacts, Zenon
<1>2. ASSUME NEW i \in 1..Len(disk) PROVE KeepsDurable(disk[i], disk[i]) /\ NothingNew(disk[i], disk[i])
  <2>1. PICK segment : segment = disk[i]
    BY Zenon
  <2>2. segment.durable \in 0..Len(segment.frames)
    BY <2>1, ZenonT(30) DEF SegmentShape
  <2>3. segment.durable <= segment.durable
    BY <2>2
  <2>4. QED
    BY <2>1, <2>2, <2>3, Zenon DEF KeepsDurable, NothingNew
<1>3. QED
  BY <1>1, <1>2 DEF DurableKept, NoNewRecords

\* What two steps keep.
LEMMA KeepsTwice ==
  ASSUME NEW a, IsSequence(a), \A i \in 1..Len(a) : SegmentShape(a[i]),
         NEW b, IsSequence(b), \A i \in 1..Len(b) : SegmentShape(b[i]),
         NEW c, IsSequence(c), \A i \in 1..Len(c) : SegmentShape(c[i])
  PROVE  /\ DurableKept(a, b) /\ DurableKept(b, c) => DurableKept(a, c)
         /\ NoNewRecords(a, b) /\ NoNewRecords(b, c) => NoNewRecords(a, c)
<1>1. Len(a) \in Nat /\ Len(b) \in Nat /\ Len(c) \in Nat
  BY SequenceFacts, Zenon
<1>2. ASSUME DurableKept(a, b), DurableKept(b, c) PROVE DurableKept(a, c)
  <2>1. Len(a) <= Len(b) /\ Len(b) <= Len(c)
    BY <1>2, Zenon DEF DurableKept
  <2>2. ASSUME NEW i \in 1..Len(a) PROVE KeepsDurable(a[i], c[i])
    <3>1. i \in 1..Len(b) /\ KeepsDurable(a[i], b[i]) /\ KeepsDurable(b[i], c[i])
      BY <1>1, <1>2, <2>1 DEF DurableKept
    <3>2. a[i].durable \in Nat /\ b[i].durable \in Nat /\ c[i].durable \in Nat
      <4>1. SegmentShape(a[i]) /\ SegmentShape(b[i]) /\ i \in 1..Len(c)
        BY <1>1, <2>1, <3>1
      <4>2. SegmentShape(c[i])
        BY <4>1, Zenon
      <4>3. QED
        BY <4>1, <4>2 DEF SegmentShape
    <3>3. \A j \in 1..a[i].durable : j \in 1..b[i].durable
      BY <3>1, <3>2 DEF KeepsDurable
    <3>4. a[i].durable <= c[i].durable
      BY <3>1, <3>2 DEF KeepsDurable
    <3>5. QED
      BY <3>1, <3>3, <3>4, Zenon DEF KeepsDurable
  <2>3. QED
    BY <1>1, <2>1, <2>2 DEF DurableKept
<1>3. ASSUME NoNewRecords(a, b), NoNewRecords(b, c) PROVE NoNewRecords(a, c)
  <2>1. Len(a) <= Len(b) /\ Len(b) <= Len(c)
    BY <1>3, Zenon DEF NoNewRecords
  <2>2. ASSUME NEW i \in 1..Len(a) PROVE NothingNew(a[i], c[i])
    <3>1. i \in 1..Len(b) /\ NothingNew(a[i], b[i]) /\ NothingNew(b[i], c[i])
      BY <1>1, <1>3, <2>1 DEF NoNewRecords
    <3>2. QED
      BY <3>1, Zenon DEF NothingNew
  <2>3. ASSUME NEW i \in 1..Len(c), i \notin 1..Len(a) PROVE RecordsOf(c[i]) = {}
    <3>1. CASE i \in 1..Len(b)
      <4>1. RecordsOf(b[i]) = {} /\ NothingNew(b[i], c[i])
        BY <1>3, <2>3, <3>1, Zenon DEF NoNewRecords
      <4>2. QED
        BY <4>1, Zenon DEF NothingNew
    <3>2. CASE i \notin 1..Len(b)
      BY <1>3, <3>2, Zenon DEF NoNewRecords
    <3>3. QED
      BY <3>1, <3>2, Zenon
  <2>4. QED
    BY <1>1, <2>1, <2>2, <2>3 DEF NoNewRecords
<1>4. QED
  BY <1>2, <1>3, Zenon

\* A change of the open file alone.
LEMMA ReplacedKeeps ==
  ASSUME NEW l, LogShape(l), l.file # 0, NEW new, NEW disk, Replaced(l.disk, l.file, new, disk)
  PROVE  /\ KeepsDurable(l.disk[l.file], new) => DurableKept(l.disk, disk)
         /\ NothingNew(l.disk[l.file], new) => NoNewRecords(l.disk, disk)
<1>1. DurableKept(l.disk, l.disk) /\ NoNewRecords(l.disk, l.disk)
  BY SameKeeps, Zenon DEF LogShape
<1>2. Len(disk) = Len(l.disk) /\ disk[l.file] = new /\ \A i \in 1..Len(l.disk) : i # l.file => disk[i] = l.disk[i]
  BY Zenon DEF Replaced
<1>3. ASSUME KeepsDurable(l.disk[l.file], new) PROVE DurableKept(l.disk, disk)
  BY <1>1, <1>2, <1>3, Zenon DEF DurableKept
<1>4. ASSUME NothingNew(l.disk[l.file], new) PROVE NoNewRecords(l.disk, disk)
  BY <1>1, <1>2, <1>4, Zenon DEF NoNewRecords
<1>5. QED
  BY <1>3, <1>4, Zenon

\* A frame that is written leaves the durable ones; only a record is a new record.
LEMMA WrittenKeeps ==
  ASSUME NEW old, SegmentShape(old), NEW frame, NEW new, Written(old, frame, new)
  PROVE  KeepsDurable(old, new) /\ (frame.kind # "record" => NothingNew(old, new))
<1>1. /\ Len(old.frames) \in Nat /\ Len(new.frames) = Len(old.frames) + 1 /\ new.durable = old.durable
      /\ new.frames[Len(old.frames) + 1] = frame /\ \A j \in 1..Len(old.frames) : new.frames[j] = old.frames[j]
  BY Zenon DEF Written, Longer
<1>2. old.durable \in Nat /\ old.durable <= Len(old.frames)
  BY <1>1 DEF SegmentShape
<1>3. KeepsDurable(old, new)
  BY <1>1, <1>2 DEF KeepsDurable
<1>4. \A j \in 1..Len(new.frames) : j \in 1..Len(old.frames) \/ j = Len(old.frames) + 1
  BY <1>1
<1>5. frame.kind # "record" => NothingNew(old, new)
  BY <1>1, <1>4, Zenon DEF NothingNew, RecordsOf
<1>6. QED
  BY <1>3, <1>5, Zenon

\* A flush leaves the durable frames and adds no record.
LEMMA FlushedKeeps ==
  ASSUME NEW old, SegmentShape(old), NEW new, Flushed(old, new)
  PROVE  KeepsDurable(old, new) /\ NothingNew(old, new)
<1>1. Len(old.frames) \in Nat /\ old.durable \in Nat /\ old.durable <= Len(old.frames)
  BY SequenceFacts DEF SegmentShape
<1>2. QED
  BY <1>1 DEF Flushed, KeepsDurable, NothingNew, RecordsOf

\* So does close_segment(), which writes the footer.
LEMMA ClosedKeeps ==
  ASSUME NEW old, SegmentShape(old), NEW new, ClosedAs(old, new)
  PROVE  KeepsDurable(old, new) /\ NothingNew(old, new)
<1>1. /\ Len(old.frames) \in Nat /\ Len(new.frames) = Len(old.frames) + 1 /\ new.durable = Len(new.frames)
      /\ new.frames[Len(old.frames) + 1].kind # "record" /\ \A j \in 1..Len(old.frames) : new.frames[j] = old.frames[j]
  BY DEF ClosedAs, Longer, FooterFrame, Frame
<1>2. old.durable \in Nat /\ old.durable <= Len(old.frames)
  BY <1>1 DEF SegmentShape
<1>3. KeepsDurable(old, new)
  BY <1>1, <1>2 DEF KeepsDurable
<1>4. \A j \in 1..Len(new.frames) : j \in 1..Len(old.frames) \/ j = Len(old.frames) + 1
  BY <1>1
<1>5. NothingNew(old, new)
  BY <1>1, <1>4, Zenon DEF NothingNew, RecordsOf
<1>6. QED
  BY <1>3, <1>5, Zenon

\* So does a crash, which cuts the file behind what is durable.
LEMMA CrashedKeeps ==
  ASSUME NEW old, SegmentShape(old), NEW n, NEW new, CrashedAs(old, n, new)
  PROVE  KeepsDurable(old, new) /\ NothingNew(old, new)
<1>1. /\ Len(old.frames) \in Nat /\ old.durable \in Nat /\ n \in Nat /\ old.durable <= n /\ n <= Len(old.frames)
      /\ new.durable = Len(new.frames) /\ \A j \in 1..n : new.frames[j] = old.frames[j]
      /\ Len(new.frames) = n \/ (Len(new.frames) = n + 1 /\ new.frames[n + 1].kind # "record")
  BY SequenceFacts DEF SegmentShape, CrashedAs, TornKinds
<1>2. KeepsDurable(old, new)
  BY <1>1 DEF KeepsDurable
<1>3. \A j \in 1..Len(new.frames) : (j \in 1..n /\ j \in 1..Len(old.frames)) \/ (j = n + 1 /\ new.frames[j].kind # "record")
  BY <1>1
<1>4. NothingNew(old, new)
  BY <1>1, <1>3, Zenon DEF NothingNew, RecordsOf
<1>5. QED
  BY <1>2, <1>4, Zenon

\* open_segment() adds a file without records.
LEMMA OpenKeeps ==
  ASSUME NEW l, LogShape(l), l.file = 0, NEW m, m = OpenSegment(l)
  PROVE  DurableKept(l.disk, m.disk) /\ NoNewRecords(l.disk, m.disk)
<1>1. DurableKept(l.disk, l.disk) /\ NoNewRecords(l.disk, l.disk)
  BY SameKeeps, Zenon DEF LogShape
<1>2. /\ Len(l.disk) \in Nat /\ Len(m.disk) = Len(l.disk) + 1 /\ m.disk[Len(l.disk) + 1] = EmptySegment
      /\ \A i \in 1..Len(l.disk) : m.disk[i] = l.disk[i]
  BY OpenShape DEF Longer
<1>3. RecordsOf(EmptySegment) = {}
  <2>1. EmptySegment.frames = <<HeaderFrame>> /\ Len(<<HeaderFrame>>) = 1 /\ <<HeaderFrame>>[1].kind = "header"
    BY OneElement, Zenon DEF EmptySegment, HeaderFrame, Frame
  <2>2. \A j \in 1..1 : j = 1
    OBVIOUS
  <2>3. QED
    BY <2>1, <2>2, Zenon DEF RecordsOf
<1>4. Len(l.disk) <= Len(m.disk)
  BY <1>2
<1>5. \A i \in 1..Len(m.disk) : i \in 1..Len(l.disk) \/ i = Len(l.disk) + 1
  BY <1>2
<1>6. QED
  BY <1>1, <1>2, <1>3, <1>4, <1>5, ZenonT(30) DEF DurableKept, NoNewRecords

\* The file that is open.
LEMMA OpenFile ==
  ASSUME NEW l, LogShape(l), l.file # 0
  PROVE  /\ Len(l.disk) \in Nat /\ l.file = Len(l.disk) /\ l.file \in 1..Len(l.disk)
         /\ SegmentShape(l.disk[l.file]) /\ Unclosed(l.disk[l.file])
  BY SequenceFacts DEF LogShape

\* close_segment() and close()
LEMMA CloseKeeps ==
  ASSUME NEW l, LogShape(l), l.file # 0, NEW m, m = CloseSegment(l)
  PROVE  DurableKept(l.disk, m.disk) /\ NoNewRecords(l.disk, m.disk)
<1>1. PICK new : ClosedAs(l.disk[l.file], new) /\ Replaced(l.disk, l.file, new, m.disk)
  BY CloseShape, Zenon
<1>2. SegmentShape(l.disk[l.file])
  BY OpenFile, Zenon
<1>3. KeepsDurable(l.disk[l.file], new) /\ NothingNew(l.disk[l.file], new)
  BY <1>1, <1>2, ClosedKeeps, Zenon
<1>4. QED
  BY <1>1, <1>3, ReplacedKeeps, Zenon

\* sync()
LEMMA SyncKeeps ==
  ASSUME NEW l, LogShape(l), l.file # 0, NEW m, m = SyncLog(l)
  PROVE  DurableKept(l.disk, m.disk) /\ NoNewRecords(l.disk, m.disk)
<1>1. PICK new : Flushed(l.disk[l.file], new) /\ Replaced(l.disk, l.file, new, m.disk)
  BY SyncShape, ZenonT(30)
<1>2. SegmentShape(l.disk[l.file])
  BY OpenFile
<1>3. KeepsDurable(l.disk[l.file], new) /\ NothingNew(l.disk[l.file], new)
  BY <1>1, <1>2, FlushedKeeps
<1>4. QED
  BY <1>1, <1>3, ReplacedKeeps

\* A crash.
LEMMA CrashKeeps ==
  ASSUME NEW l, LogShape(l), NEW disk \in CrashedDisks(l.disk)
  PROVE  DurableKept(l.disk, disk) /\ NoNewRecords(l.disk, disk)
<1>1. PICK m : m = NewLog(disk)
  BY Zenon
<1>2. \/ disk = l.disk
      \/ l.file # 0 /\ \E new, n : CrashedAs(l.disk[l.file], n, new) /\ Replaced(l.disk, l.file, new, disk)
  BY <1>1, CrashShape, Zenon
<1>3. CASE disk = l.disk
  BY <1>3, SameKeeps, Zenon DEF LogShape
<1>4. CASE l.file # 0 /\ \E new, n : CrashedAs(l.disk[l.file], n, new) /\ Replaced(l.disk, l.file, new, disk)
  <2>1. PICK new, n : CrashedAs(l.disk[l.file], n, new) /\ Replaced(l.disk, l.file, new, disk)
    BY <1>4, Zenon
  <2>2. SegmentShape(l.disk[l.file])
    BY <1>4, OpenFile, Zenon
  <2>3. KeepsDurable(l.disk[l.file], new) /\ NothingNew(l.disk[l.file], new)
    BY <2>1, <2>2, CrashedKeeps, ZenonT(30)
  <2>4. QED
    BY <1>4, <2>1, <2>3, ReplacedKeeps, ZenonT(30)
<1>5. QED
  BY <1>2, <1>3, <1>4, ZenonT(30)

\* A record that is written leaves the durable frames.
LEMMA RecordKeeps ==
  ASSUME NEW l, LogShape(l), l.file # 0, NEW payload, NEW size \in Nat, NEW m, m = WriteRecord(l, payload, size)
  PROVE  DurableKept(l.disk, m.disk)
<1>1. PICK new : Written(l.disk[l.file], Frame("record", payload, size), new) /\ Replaced(l.disk, l.file, new, m.disk)
  BY RecordShape, Zenon
<1>2. SegmentShape(l.disk[l.file])
  BY OpenFile, Zenon
<1>3. KeepsDurable(l.disk[l.file], new)
  BY <1>1, <1>2, WrittenKeeps, ZenonT(30)
<1>4. QED
  BY <1>1, <1>3, ReplacedKeeps, ZenonT(30)

\* One whose write fails leaves them too, and is not there as a record.
LEMMA FailedKeeps ==
  ASSUME NEW l, LogShape(l), l.file # 0, NEW size, NEW m \in FailedWrites(l, size)
  PROVE  DurableKept(l.disk, m.disk) /\ NoNewRecords(l.disk, m.disk)
<1>1. CASE m = l
  BY <1>1, SameKeeps, Zenon DEF LogShape
<1>2. CASE m # l
  <2>1. PICK new, frame : /\ frame.kind \in TornKinds
                          /\ Written(l.disk[l.file], frame, new) /\ Replaced(l.disk, l.file, new, m.disk)
    BY <1>2, FailedShape, Zenon
  <2>2. SegmentShape(l.disk[l.file])
    BY OpenFile, Zenon
  <2>3. KeepsDurable(l.disk[l.file], new) /\ NothingNew(l.disk[l.file], new)
    BY <2>1, <2>2, WrittenKeeps, ZenonT(30) DEF TornKinds
  <2>4. QED
    BY <2>1, <2>3, ReplacedKeeps, ZenonT(30)
<1>3. QED
  BY <1>1, <1>2, Zenon

\* append() up to its write.
LEMMA PrepareKeeps ==
  ASSUME NEW l, LogShape(l), NEW size \in Nat, NEW m, m = PrepareAppend(l, size).log
  PROVE  DurableKept(l.disk, m.disk) /\ NoNewRecords(l.disk, m.disk)
<1>1. CASE l.file # 0 /\ m = l
  BY <1>1, SameKeeps, Zenon DEF LogShape
<1>2. CASE l.file = 0 /\ m = OpenSegment(l)
  BY <1>2, OpenKeeps, Zenon
<1>3. CASE l.file # 0 /\ \E closed : closed = CloseSegment(l) /\ m = OpenSegment(closed)
  <2>1. PICK closed : closed = CloseSegment(l) /\ m = OpenSegment(closed)
    BY <1>3
  <2>2. LogShape(closed) /\ closed.file = 0
    BY <1>3, <2>1, CloseShape
  <2>3. LogShape(m)
    BY <2>1, <2>2, OpenShape, ZenonT(30)
  <2>4. DurableKept(l.disk, closed.disk) /\ NoNewRecords(l.disk, closed.disk)
    BY <1>3, <2>1, CloseKeeps, ZenonT(30)
  <2>5. DurableKept(closed.disk, m.disk) /\ NoNewRecords(closed.disk, m.disk)
    BY <2>1, <2>2, OpenKeeps, ZenonT(30)
  <2>6. QED
    BY <2>2, <2>3, <2>4, <2>5, KeepsTwice, ZenonT(30) DEF LogShape
<1>4. QED
  BY <1>1, <1>2, <1>3, PrepareCases

\* What append() keeps, whether it returns ok or not.
LEMMA AppendKeeps ==
  ASSUME NEW l, LogShape(l), NEW payload, NEW size \in Nat, NEW m, m = AppendRecord(l, payload, size).log
  PROVE  LogShape(m) /\ DurableKept(l.disk, m.disk)
<1>1. PICK p : p = PrepareAppend(l, size).log
  BY Zenon
<1>2. LogShape(p) /\ p.file # 0 /\ DurableKept(l.disk, p.disk)
  BY <1>1, PrepareShape, PrepareKeeps
<1>3. m = IF PrepareAppend(l, size).accepted THEN WriteRecord(p, payload, size) ELSE p
  BY <1>1, Zenon DEF AppendRecord
<1>4. CASE m = p
  BY <1>2, <1>4, ZenonT(30)
<1>5. CASE m = WriteRecord(p, payload, size)
  <2>1. LogShape(m) /\ DurableKept(p.disk, m.disk)
    BY <1>2, <1>5, RecordShape, RecordKeeps
  <2>2. QED
    BY <1>2, <2>1, KeepsTwice, Zenon DEF LogShape
<1>6. QED
  BY <1>3, <1>4, <1>5

-----------------------------------------------------------------------------
(* The records that are durable.                                            *)

\* No record that was durable is lost.
LEMMA DurableGrows ==
  ASSUME NEW a, \A i \in 1..Len(a) : SegmentShape(a[i]), NEW b, IsSequence(a), IsSequence(b), DurableKept(a, b)
  PROVE  DurableRecords(a) \subseteq DurableRecords(b)
<1>1. SUFFICES ASSUME NEW x \in DurableRecords(a) PROVE x \in DurableRecords(b)
  BY Zenon
<1>2. PICK i \in 1..Len(a) : x \in RecordsWithin(a[i], a[i].durable)
  BY Zenon DEF DurableRecords
<1>3. PICK j \in RecordsOf(a[i]) \cap 1..a[i].durable : x = a[i].frames[j].payload
  BY <1>2, Zenon DEF RecordsWithin
<1>4. KeepsDurable(a[i], b[i]) /\ i \in 1..Len(b)
  BY SequenceFacts DEF DurableKept
<1>5. a[i].durable \in Nat
  <2>1. SegmentShape(a[i])
    BY Zenon
  <2>2. QED
    BY <2>1 DEF SegmentShape
<1>6. j \in 1..b[i].durable /\ j \in 1..Len(b[i].frames)
  <2>1. a[i].durable <= b[i].durable /\ b[i].durable \in 0..Len(b[i].frames)
    BY <1>4, Zenon DEF KeepsDurable
  <2>2. Len(b[i].frames) \in Int
    BY <2>1
  <2>3. QED
    BY <1>5, <2>1, <2>2
<1>7. b[i].frames[j] = a[i].frames[j]
  BY <1>4, Zenon DEF KeepsDurable
<1>8. j \in RecordsOf(b[i])
  BY <1>6, <1>7, ZenonT(30) DEF RecordsOf
<1>9. x \in RecordsWithin(b[i], b[i].durable)
  BY <1>3, <1>6, <1>7, <1>8, ZenonT(30) DEF RecordsWithin
<1>10. QED
  BY <1>4, <1>9, Zenon DEF DurableRecords

\* When every file is durable, so is every record.
LEMMA AllDurable ==
  ASSUME NEW disk, \A i \in 1..Len(disk) : disk[i].durable = Len(disk[i].frames)
  PROVE  DurableRecords(disk) = WrittenRecords(disk)
<1>1. \A i \in 1..Len(disk) :
        RecordsWithin(disk[i], disk[i].durable) = RecordsWithin(disk[i], Len(disk[i].frames))
  BY Zenon
<1>2. QED
  BY <1>1 DEF DurableRecords, WrittenRecords

\* After a sync() that returned, and after close(), every record of the directory is durable.
LEMMA SyncedIsDurable ==
  ASSUME NEW l, LogShape(l), NEW m, m = SyncLog(l) \/ m = CloseLog(l)
  PROVE  /\ LogShape(m) /\ DurableRecords(m.disk) = WrittenRecords(m.disk)
         /\ DurableKept(l.disk, m.disk) /\ NoNewRecords(l.disk, m.disk)
<1>1. ASSUME m = l, l.file = 0
      PROVE  /\ LogShape(m) /\ DurableRecords(m.disk) = WrittenRecords(m.disk)
             /\ DurableKept(l.disk, m.disk) /\ NoNewRecords(l.disk, m.disk)
  <2>1. \A i \in 1..Len(m.disk) : i # 0
    OBVIOUS
  <2>2. \A i \in 1..Len(m.disk) : m.disk[i].durable = Len(m.disk[i].frames)
    BY <1>1, <2>1, Zenon DEF LogShape
  <2>3. QED
    BY <1>1, <2>2, AllDurable, SameKeeps, Zenon DEF LogShape
<1>2. CASE m = SyncLog(l) /\ l.file # 0
  <2>1. LogShape(m) /\ DurableKept(l.disk, m.disk) /\ NoNewRecords(l.disk, m.disk)
    BY <1>2, SyncShape, SyncKeeps, Zenon
  <2>2. PICK new : Flushed(l.disk[l.file], new) /\ Replaced(l.disk, l.file, new, m.disk)
    BY <1>2, SyncShape, Zenon
  <2>3. \A i \in 1..Len(m.disk) : m.disk[i].durable = Len(m.disk[i].frames)
    BY <2>2, ZenonT(30) DEF LogShape, Replaced, Flushed
  <2>4. QED
    BY <2>1, <2>3, AllDurable, Zenon
<1>3. CASE m = CloseLog(l) /\ l.file # 0
  <2>1. m = CloseSegment(l)
    BY <1>3, Zenon DEF CloseLog
  <2>2. LogShape(m) /\ DurableKept(l.disk, m.disk) /\ NoNewRecords(l.disk, m.disk) /\ m.file = 0
    BY <1>3, <2>1, CloseShape, CloseKeeps, Zenon
  <2>3. \A i \in 1..Len(m.disk) : i # 0
    OBVIOUS
  <2>4. \A i \in 1..Len(m.disk) : m.disk[i].durable = Len(m.disk[i].frames)
    BY <2>2, <2>3, Zenon DEF LogShape
  <2>5. QED
    BY <2>2, <2>4, AllDurable, Zenon
<1>4. QED
  BY <1>1, <1>2, <1>3, Zenon DEF SyncLog, CloseLog

=============================================================================
