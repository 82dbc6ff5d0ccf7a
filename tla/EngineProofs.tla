---------------------------- MODULE EngineProofs ----------------------------
(***************************************************************************)
(* What the engine keeps through every call, shutdown, crash and restart,  *)
(* for any number of sources, definitions and runs: what was acknowledged  *)
(* is durable, a log that decodes always loads, and a clean restart        *)
(* rebuilds the memory.                                                    *)
(***************************************************************************)
EXTENDS EngineLoadProofs

-----------------------------------------------------------------------------
(* Replaying what a call appended.                                          *)

ReplaysOn(s, t, u, g) ==
  /\ g[0] = Replay(s) /\ g[Len(t)] = Replay(u)
  /\ \A i \in 1..Len(t) : g[i] = ReplayRecord(g[i - 1], t[i])

\* The replay of a longer log goes on from that of the shorter one.
LEMMA ReplayAfter ==
  ASSUME NEW s, IsSequence(s), NEW t, IsSequence(t), NEW u, u = s \o t
  PROVE  \E g : ReplaysOn(s, t, u, g)
<1>1. Len(s) \in Nat /\ Len(t) \in Nat
  BY SequenceFacts, ZenonT(30)
<1>2. /\ IsSequence(u) /\ Len(u) = Len(s) + Len(t)
      /\ \A i \in 1..Len(s) : u[i] = s[i]
      /\ \A i \in 1..Len(t) : u[Len(s) + i] = t[i]
  <2>1. Joined(s, t, u)
    BY ConcatJoins, Zenon
  <2>2. QED
    BY <2>1, Zenon DEF Joined
<1>3. PICK h : ReplayedBy(u, h) /\ Replay(u) = h[Len(u)]
  BY <1>2, ReplaySteps, Zenon
<1>4. PICK g : g = [i \in 0..Len(t) |-> h[Len(s) + i]]
  BY Zenon
<1>5. Cut(u, Len(s), s) /\ Len(s) \in 0..Len(u)
  BY <1>1, <1>2 DEF Cut
<1>6. g[0] = Replay(s)
  <2>1. Replay(s) = h[Len(s)]
    BY <1>3, <1>5, Zenon DEF ReplayedBy
  <2>2. QED
    BY <1>1, <1>4, <2>1
<1>7. g[Len(t)] = Replay(u)
  BY <1>1, <1>2, <1>3, <1>4
<1>8. ASSUME NEW i \in 1..Len(t) PROVE g[i] = ReplayRecord(g[i - 1], t[i])
  <2>1. Len(s) + i \in 1..Len(u) /\ (Len(s) + i) - 1 = Len(s) + (i - 1) /\ i \in 0..Len(t) /\ i - 1 \in 0..Len(t)
    BY <1>1, <1>2
  <2>2. h[Len(s) + i] = ReplayRecord(h[Len(s) + (i - 1)], u[Len(s) + i])
    BY <1>3, <2>1, Zenon DEF ReplayedBy
  <2>3. g[i] = h[Len(s) + i] /\ g[i - 1] = h[Len(s) + (i - 1)]
    BY <1>4, <2>1, Zenon
  <2>4. QED
    BY <1>2, <2>2, <2>3, Zenon
<1>9. QED
  BY <1>6, <1>7, <1>8, Zenon DEF ReplaysOn

\* What no record of a batch touches.
SameTables(memory, e) == e.ok /\ e.catalog = memory.catalog /\ e.clocks = memory.clocks

MeasurementReplayed(memory, p, e) ==
  /\ MemoryShape(e) /\ SameTables(memory, e) /\ e.fences = memory.fences
  /\ e.records = Append(memory.records, p)

FenceReplayed(memory, p, e) ==
  /\ MemoryShape(e) /\ SameTables(memory, e) /\ e.records = memory.records
  /\ e.fences = [memory.fences EXCEPT ![p.source] = p.fence]

\* The registries take every measurement and every fence.
LEMMA BatchRecordReplays ==
  ASSUME NEW memory, MemoryShape(memory), memory.ok, NEW p, NEW e, e = ReplayRecord(memory, p)
  PROVE  /\ p.type = "measurement" => MeasurementReplayed(memory, p, e)
         /\ p.type = "fence" => FenceReplayed(memory, p, e)
<1>1. CASE p.type = "measurement"
  <2>1. e = [memory EXCEPT !.records = Append(memory.records, p)]
    BY <1>1, Zenon DEF ReplayRecord, Register
  <2>2. QED
    BY <1>1, <2>1, ZenonT(30) DEF MemoryShape, SameTables, MeasurementReplayed
<1>2. CASE p.type = "fence"
  <2>1. e = [memory EXCEPT !.fences = [memory.fences EXCEPT ![p.source] = p.fence]]
    BY <1>2, Zenon DEF ReplayRecord, Register, RestoreFence
  <2>2. QED
    BY <1>2, <2>1, Zenon DEF MemoryShape, SameTables, FenceReplayed
<1>3. QED
  BY <1>1, <1>2, Zenon

\* Nothing that ingest() appends can make the replay fail.
LEMMA BatchReplays ==
  ASSUME NEW s, IsSequence(s), PayloadsOK(s), Replay(s).ok,
         NEW t, IsSequence(t), \A i \in 1..Len(t) : t[i].type \in {"measurement", "fence"},
         NEW u, u = s \o t
  PROVE  Replay(u).ok
<1>1. Len(t) \in Nat
  BY SequenceFacts, Zenon
<1>2. PICK g : ReplaysOn(s, t, u, g)
  BY ReplayAfter, Zenon
<1> DEFINE Good == {n \in Nat : MemoryShape(g[n]) /\ g[n].ok}
<1>3. 0 \in Good
  <2>1. MemoryShape(Replay(s))
    BY ReplayOK, Zenon DEF MemoryOK
  <2>2. QED
    BY <1>2, <2>1, Zenon DEF ReplaysOn
<1>4. ASSUME NEW k \in 0..Len(t), k # Len(t), k \in Good PROVE k + 1 \in Good
  <2>1. k + 1 \in Nat /\ k + 1 \in 1..Len(t) /\ (k + 1) - 1 = k
    BY <1>1, <1>4
  <2>2. g[k + 1] = ReplayRecord(g[k], t[k + 1]) /\ (t[k + 1].type = "measurement" \/ t[k + 1].type = "fence")
    BY <1>2, <2>1, ZenonT(30) DEF ReplaysOn
  <2>3. MemoryShape(g[k + 1]) /\ g[k + 1].ok
    BY <1>4, <2>2, BatchRecordReplays, ZenonT(30) DEF SameTables, MeasurementReplayed, FenceReplayed
  <2>4. QED
    BY <2>1, <2>3, ZenonT(30)
<1> HIDE DEF Good
<1>5. \A n \in 0..Len(t) : n \in Good
  BY <1>1, <1>3, <1>4, Reaches, Zenon
<1>6. Len(t) \in Good
  BY <1>1, <1>5
<1>7. QED
  BY <1>2, <1>6, Zenon DEF Good, ReplaysOn

\* u is s with the first n of t behind it.
Gained(s, t, n, u) ==
  /\ IsSequence(u) /\ Len(u) = Len(s) + n
  /\ \A i \in 1..Len(s) : u[i] = s[i]
  /\ \A i \in 1..n : u[Len(s) + i] = t[i]

\* One element more.
LEMMA GainsOne ==
  ASSUME NEW s, IsSequence(s), NEW t, NEW n \in Nat, NEW u, Gained(s, t, n, u), NEW v, v = Append(u, t[n + 1])
  PROVE  Gained(s, t, n + 1, v)
<1>1. Len(s) \in Nat
  BY SequenceFacts, Zenon
<1>2. Longer(u, t[n + 1], v)
  BY AppendFacts, Zenon DEF Gained
<1>3. IsSequence(v) /\ Len(v) = Len(s) + (n + 1) /\ v[Len(s) + (n + 1)] = t[n + 1]
  BY <1>1, <1>2 DEF Longer, Gained
<1>4. \A i \in 1..(Len(s) + n) : v[i] = u[i]
  BY <1>2, Zenon DEF Longer, Gained
<1>5. ASSUME NEW i \in 1..Len(s) PROVE v[i] = s[i]
  BY <1>1, <1>4 DEF Gained
<1>6. ASSUME NEW i \in 1..(n + 1) PROVE v[Len(s) + i] = t[i]
  <2>1. CASE i = n + 1
    BY <1>3, <2>1, Zenon
  <2>2. CASE i # n + 1
    <3>1. i \in 1..n /\ Len(s) + i \in 1..(Len(s) + n)
      BY <1>1, <2>2
    <3>2. QED
      BY <1>4, <3>1, ZenonT(30) DEF Gained
  <2>3. QED
    BY <2>1, <2>2, Zenon
<1>7. QED
  BY <1>3, <1>5, <1>6, Zenon DEF Gained

\* The measurements of a batch are replayed behind those that were there, and touch nothing
\* else.
LEMMA MeasurementsReplay ==
  ASSUME NEW s, IsSequence(s), PayloadsOK(s), Replay(s).ok, NEW t, Measurements(t), NEW u, u = s \o t
  PROVE  SameTables(Replay(s), Replay(u)) /\ Replay(u).fences = Replay(s).fences /\ Replay(u).records = Replay(s).records \o t
<1>1. IsSequence(t) /\ Len(t) \in Nat /\ \A i \in 1..Len(t) : t[i].type = "measurement"
  BY SequenceFacts, Zenon DEF Measurements, MeasurementRecords
<1>2. PICK g : ReplaysOn(s, t, u, g)
  BY <1>1, ReplayAfter, Zenon
<1>3. PICK old : old = Replay(s)
  BY Zenon
<1>4. MemoryShape(old) /\ IsSequence(old.records) /\ old.ok
  BY <1>3, ReplayOK, Zenon DEF MemoryOK, Measurements
<1> DEFINE Good == {n \in Nat : /\ MemoryShape(g[n]) /\ SameTables(old, g[n]) /\ g[n].fences = old.fences
                                /\ Gained(old.records, t, n, g[n].records)}
<1>5. 0 \in Good
  <2>1. Gained(old.records, t, 0, old.records)
    BY <1>4, SequenceFacts DEF Gained
  <2>2. SameTables(old, old)
    BY <1>4, Zenon DEF SameTables
  <2>3. QED
    BY <1>2, <1>3, <1>4, <2>1, <2>2, ZenonT(30) DEF ReplaysOn
<1>6. ASSUME NEW k \in 0..Len(t), k # Len(t), k \in Good PROVE k + 1 \in Good
  <2>1. k \in Nat /\ k + 1 \in Nat /\ k + 1 \in 1..Len(t) /\ (k + 1) - 1 = k
    BY <1>1, <1>6
  <2>2. g[k + 1] = ReplayRecord(g[k], t[k + 1]) /\ t[k + 1].type = "measurement"
    BY <1>1, <1>2, <2>1, ZenonT(30) DEF ReplaysOn
  <2>3. /\ MemoryShape(g[k]) /\ SameTables(old, g[k]) /\ g[k].fences = old.fences
        /\ Gained(old.records, t, k, g[k].records)
    BY <1>6, Zenon
  <2>4. MeasurementReplayed(g[k], t[k + 1], g[k + 1])
    BY <2>2, <2>3, BatchRecordReplays, Zenon DEF SameTables
  <2>5. Gained(old.records, t, k + 1, g[k + 1].records)
    BY <1>4, <2>1, <2>3, <2>4, GainsOne, Zenon DEF MeasurementReplayed
  <2>6. QED
    BY <2>1, <2>3, <2>4, <2>5, Zenon DEF SameTables, MeasurementReplayed
<1> HIDE DEF Good
<1>7. \A n \in 0..Len(t) : n \in Good
  BY <1>1, <1>5, <1>6, Reaches, Zenon
<1>8. Len(t) \in Good
  BY <1>1, <1>7
<1>9. SameTables(old, Replay(u)) /\ Replay(u).fences = old.fences /\ Gained(old.records, t, Len(t), Replay(u).records)
  BY <1>2, <1>8, Zenon DEF Good, ReplaysOn
<1>10. PICK a, b : a = old.records \o t /\ b = Replay(u).records
  BY Zenon
<1>11. Joined(old.records, t, a)
  BY <1>1, <1>4, <1>10, ConcatJoins, Zenon
<1>12. IsSequence(a) /\ IsSequence(b) /\ Len(a) = Len(b) /\ Len(a) = Len(old.records) + Len(t)
  BY <1>9, <1>10, <1>11, Zenon DEF Joined, Gained
<1>13. ASSUME NEW i \in 1..Len(a) PROVE a[i] = b[i]
  <2>1. Len(old.records) \in Nat
    BY <1>4, SequenceFacts, Zenon
  <2>2. CASE i \in 1..Len(old.records)
    BY <1>9, <1>10, <1>11, <2>2, ZenonT(30) DEF Joined, Gained
  <2>3. CASE i \notin 1..Len(old.records)
    <3>1. i - Len(old.records) \in 1..Len(t) /\ Len(old.records) + (i - Len(old.records)) = i
      BY <1>1, <1>12, <2>1, <2>3
    <3>2. PICK j \in 1..Len(t) : i = Len(old.records) + j
      BY <3>1, Zenon
    <3>3. QED
      BY <1>9, <1>10, <1>11, <3>2 DEF Joined, Gained
  <2>4. QED
    BY <2>2, <2>3, Zenon
<1>14. a = b
  BY <1>12, <1>13, SameSequence, Zenon
<1>15. QED
  BY <1>3, <1>9, <1>10, <1>14, Zenon

\* The fences after the first n of the fence records q, all of them taken from F.
Restored(old, F, q, n, f) ==
  /\ f = [x \in Sources |-> f[x]]
  /\ \A x \in Sources : f[x] = IF \E i \in 1..n : q[i].source = x THEN F[x] ELSE old[x]

\* One fence record more.
LEMMA RestoresOne ==
  ASSUME NEW old, NEW F, NEW q, NEW n \in Nat, NEW f, Restored(old, F, q, n, f),
         NEW p, p = q[n + 1], p.source \in Sources, p.fence = F[p.source],
         NEW h, h = [f EXCEPT ![p.source] = p.fence]
  PROVE  Restored(old, F, q, n + 1, h)
<1>1. h = [x \in Sources |-> h[x]] /\ \A x \in Sources : h[x] = IF x = p.source THEN F[x] ELSE f[x]
  BY Zenon DEF Restored
<1>2. \A i \in 1..(n + 1) : i \in 1..n \/ i = n + 1
  OBVIOUS
<1>3. \A i \in 1..n : i \in 1..(n + 1)
  OBVIOUS
<1>4. n + 1 \in 1..(n + 1)
  OBVIOUS
<1>5. ASSUME NEW x \in Sources PROVE h[x] = IF \E i \in 1..(n + 1) : q[i].source = x THEN F[x] ELSE old[x]
  BY <1>1, <1>2, <1>3, <1>4, Zenon DEF Restored
<1>6. QED
  BY <1>1, <1>5, Zenon DEF Restored

\* A record of FenceRecords(F).
IsFenceOf(F, p) == p.type = "fence" /\ p.source \in Sources /\ p.fence = F[p.source]

Held(F, q) ==
  /\ IsSequence(q) /\ \A i \in 1..Len(q) : IsFenceOf(F, q[i])
  /\ \A x \in Sources : F[x] # EmptyFence => \E i \in 1..Len(q) : q[i].source = x

\* gate_.fences() has the fence of every source that has one, and nothing else.
LEMMA FencesHeld ==
  ASSUME NEW F, NEW q, Collected(F, Len(SourceOrder), q)
  PROVE  Held(F, q)
<1>1. DOMAIN SourceOrder = 1..Len(SourceOrder) /\ Sources = {SourceOrder[k] : k \in 1..Len(SourceOrder)}
  BY EngineAssumption DEF Sources, Range
<1>2. IsSequence(q) /\ Range(q) = {q[i] : i \in 1..Len(q)}
  BY SequenceFacts, Zenon DEF Collected, Range
<1>3. ASSUME NEW i \in 1..Len(q) PROVE IsFenceOf(F, q[i])
  <2>1. PICK k \in 1..Len(SourceOrder) : Holds(F, k, q[i])
    BY <1>2, Zenon DEF Collected
  <2>2. PICK x \in Sources : x = SourceOrder[k]
    BY <1>1, Zenon
  <2>3. q[i] = FenceRecord(x, F[x])
    BY <2>1, <2>2, Zenon DEF Holds
  <2>4. QED
    BY <2>3 DEF FenceRecord, IsFenceOf
<1>4. ASSUME NEW x \in Sources, F[x] # EmptyFence PROVE \E i \in 1..Len(q) : q[i].source = x
  <2>1. PICK k \in 1..Len(SourceOrder) : x = SourceOrder[k]
    BY <1>1, Zenon
  <2>2. PICK p : p = FenceRecord(x, F[x])
    BY Zenon
  <2>3. Holds(F, k, p)
    BY <1>4, <2>1, <2>2, Zenon DEF Holds
  <2>4. p \in Range(q)
    BY <2>3, Zenon DEF Collected
  <2>5. PICK i \in 1..Len(q) : q[i] = p
    BY <1>2, <2>4, Zenon
  <2>6. p.source = x
    BY <2>2, Zenon DEF FenceRecord
  <2>7. QED
    BY <2>5, <2>6, Zenon
<1>5. QED
  BY <1>2, <1>3, <1>4, Zenon DEF Held

Emptier(F, f) == \A x \in Sources : F[x] = EmptyFence => f[x] = EmptyFence

FencesReplayed(old, F, e) == SameTables(old, e) /\ e.fences = F /\ e.records = old.records

\* The fences that a call writes behind its measurements are the fences that a replay has when
\* it comes to the end of them: a source without a fence had none before.
LEMMA FencesReplay ==
  ASSUME NEW s, IsSequence(s), PayloadsOK(s), Replay(s).ok, NEW F, FencesOK(F),
         NEW q, Collected(F, Len(SourceOrder), q), NEW old, old = Replay(s), Emptier(F, old.fences),
         NEW u, u = s \o q
  PROVE  FencesReplayed(old, F, Replay(u))
<1>1. /\ IsSequence(q) /\ \A i \in 1..Len(q) : IsFenceOf(F, q[i])
      /\ \A x \in Sources : F[x] # EmptyFence => \E i \in 1..Len(q) : q[i].source = x
  <2>1. Held(F, q)
    BY FencesHeld, Zenon
  <2>2. QED
    BY <2>1, Zenon DEF Held
<1>2. Len(q) \in Nat
  BY <1>1, SequenceFacts, Zenon
<1>3. PICK g : ReplaysOn(s, q, u, g)
  BY <1>1, ReplayAfter, Zenon
<1>4. MemoryShape(old) /\ FencesOK(old.fences) /\ old.ok
  BY ReplayOK, Zenon DEF MemoryOK
<1> DEFINE Good == {n \in Nat : /\ MemoryShape(g[n]) /\ SameTables(old, g[n]) /\ g[n].records = old.records
                                /\ Restored(old.fences, F, q, n, g[n].fences)}
<1>5. 0 \in Good
  <2>1. Restored(old.fences, F, q, 0, old.fences)
    BY <1>4 DEF Restored, FencesOK
  <2>2. SameTables(old, old)
    BY <1>4, Zenon DEF SameTables
  <2>3. QED
    BY <1>3, <1>4, <2>1, <2>2, Zenon DEF ReplaysOn
<1>6. ASSUME NEW k \in 0..Len(q), k # Len(q), k \in Good PROVE k + 1 \in Good
  <2>1. k \in Nat /\ k + 1 \in Nat /\ k + 1 \in 1..Len(q) /\ (k + 1) - 1 = k
    BY <1>2, <1>6
  <2>2. g[k + 1] = ReplayRecord(g[k], q[k + 1]) /\ IsFenceOf(F, q[k + 1])
    BY <1>1, <1>3, <2>1, Zenon DEF ReplaysOn
  <2>3. /\ MemoryShape(g[k]) /\ SameTables(old, g[k]) /\ g[k].records = old.records
        /\ Restored(old.fences, F, q, k, g[k].fences)
    BY <1>6, Zenon
  <2>4. FenceReplayed(g[k], q[k + 1], g[k + 1])
    BY <2>2, <2>3, BatchRecordReplays, Zenon DEF SameTables, IsFenceOf
  <2>5. Restored(old.fences, F, q, k + 1, g[k + 1].fences)
    BY <2>1, <2>2, <2>3, <2>4, RestoresOne, Zenon DEF FenceReplayed, IsFenceOf
  <2>6. QED
    BY <2>1, <2>3, <2>4, <2>5, Zenon DEF SameTables, FenceReplayed
<1> HIDE DEF Good
<1>7. \A n \in 0..Len(q) : n \in Good
  BY <1>2, <1>5, <1>6, Reaches, Zenon
<1>8. Len(q) \in Good
  BY <1>2, <1>7
<1>9. /\ SameTables(old, Replay(u)) /\ Replay(u).records = old.records
       /\ Restored(old.fences, F, q, Len(q), Replay(u).fences)
  BY <1>3, <1>8, Zenon DEF Good, ReplaysOn
<1>10. Replay(u).fences = F
  <2>1. PICK f : f = Replay(u).fences
    BY Zenon
  <2>2. ASSUME NEW x \in Sources PROVE f[x] = F[x]
    <3>1. f[x] = IF \E i \in 1..Len(q) : q[i].source = x THEN F[x] ELSE old.fences[x]
      BY <1>9, <2>1, Zenon DEF Restored
    <3>2. CASE F[x] # EmptyFence
      BY <1>1, <3>1, <3>2, Zenon
    <3>3. CASE F[x] = EmptyFence
      BY <3>1, <3>3, Zenon DEF Emptier
    <3>4. QED
      BY <3>2, <3>3, Zenon
  <2>3. f = [x \in Sources |-> f[x]] /\ F = [x \in Sources |-> F[x]]
    BY <1>9, <2>1, Zenon DEF Restored, FencesOK
  <2>4. QED
    BY <2>1, <2>2, <2>3, Zenon
<1>11. QED
  BY <1>9, <1>10, Zenon DEF FencesReplayed

-----------------------------------------------------------------------------
(* What a call leaves.                                                      *)

\* A call that persists s, done when it comes to d, leaves the log m of l.
Left(l, s, d, m) ==
  /\ LogShape(m) /\ Intact(m) /\ DurableKept(l.disk, m.disk)
  /\ \E added : Cut(s, d.count, added) /\ d.count \in 0..Len(s) /\ Follows(l, m, added)
  /\ d.ok => d.count = Len(s) /\ Follows(l, m, s) /\ \A i \in 1..Len(s) : s[i] \in DurableRecords(m.disk)

\* A call that returns ok has appended all its payloads, and its sync has made them durable;
\* one that was refused has appended the first of them.
LEMMA CallLeaves ==
  ASSUME NEW l, l = log, LogShape(l), Intact(l), phase # "stopped",
         NEW s, IsSequence(s), \A i \in 1..Len(s) : SizeOf(s[i]) \in Nat,
         NEW d, d = PersistAll(s), NEW m, m = IF d.ok THEN SyncLog(d.log) ELSE d.log
  PROVE  Left(l, s, d, m)
<1>1. Persisted(l, s, Len(s), d)
  BY PersistFacts, Zenon
<1>2. PICK added : Cut(s, d.count, added) /\ Follows(l, d.log, added)
  BY <1>1, Zenon DEF Persisted
<1>3. LogShape(d.log) /\ Intact(d.log) /\ DurableKept(l.disk, d.log.disk) /\ d.count \in 0..Len(s)
  BY <1>1, Zenon DEF Persisted
<1>4. CASE ~d.ok
  <2>1. m = d.log
    BY <1>4, Zenon
  <2>2. QED
    BY <1>2, <1>3, <1>4, <2>1, Zenon DEF Left
<1>5. CASE d.ok
  <2>1. m = SyncLog(d.log) /\ d.count = Len(s) /\ \A i \in 1..Len(s) : s[i] \in WrittenRecords(d.log.disk)
    BY <1>1, <1>5, Zenon DEF Persisted
  <2>2. /\ LogShape(m) /\ DurableRecords(m.disk) = WrittenRecords(m.disk) /\ DurableKept(d.log.disk, m.disk)
        /\ Intact(m) /\ Follows(d.log, m, <<>>)
    BY <1>3, <2>1, SyncedIsDurable, SyncFollows, Zenon
  <2>3. added = s
    BY <1>2, <2>1, SameSequence, Zenon DEF Cut
  <2>4. Follows(l, m, s)
    <3>1. IsDisk(l.disk)
      BY ShapeIsDisk, Zenon
    <3>2. Follows(l, m, s \o <<>>)
      BY <1>2, <2>2, <2>3, <3>1, FollowsTwice, NoElements, Zenon
    <3>3. QED
      BY <3>2, ConcatNothing, Zenon
  <2>5. DurableKept(l.disk, m.disk)
    BY <1>3, <2>2, KeepsTwice, Zenon DEF LogShape
  <2>6. WrittenRecords(d.log.disk) \subseteq WrittenRecords(m.disk)
    BY <1>3, <2>1, SyncWrites, Zenon
  <2>7. \A i \in 1..Len(s) : s[i] \in DurableRecords(m.disk)
    BY <2>1, <2>2, <2>6, Zenon
  <2>8. QED
    BY <1>2, <1>3, <2>1, <2>2, <2>3, <2>4, <2>5, <2>7, Zenon DEF Left
<1>6. QED
  BY <1>4, <1>5, Zenon

From(s, t, x) == (\E j \in 1..Len(s) : x = s[j]) \/ (\E j \in 1..Len(t) : x = t[j])

\* An element of a joined sequence is one of either part.
LEMMA JoinedFrom ==
  ASSUME NEW s, IsSequence(s), NEW t, IsSequence(t), NEW u, Joined(s, t, u), NEW i \in 1..Len(u)
  PROVE  From(s, t, u[i])
<1>1. Len(s) \in Nat /\ Len(t) \in Nat
  BY SequenceFacts, Zenon
<1>2. Len(u) = Len(s) + Len(t)
  BY Zenon DEF Joined
<1>3. i \in 1..Len(s) \/ \E j \in 1..Len(t) : i = Len(s) + j
  <2>1. i \notin 1..Len(s) => i - Len(s) \in 1..Len(t) /\ i = Len(s) + (i - Len(s))
    BY <1>1, <1>2
  <2>2. QED
    BY <2>1, Zenon
<1>4. QED
  BY <1>3, Zenon DEF Joined, From

\* Two sequences of payloads of the engine, one behind the other.
LEMMA PayloadsJoin ==
  ASSUME NEW s, IsSequence(s), PayloadsOK(s), NEW t, IsSequence(t), PayloadsOK(t), NEW u, u = s \o t
  PROVE  IsSequence(u) /\ PayloadsOK(u)
<1>1. Joined(s, t, u)
  BY ConcatJoins, Zenon
<1>2. ASSUME NEW i \in 1..Len(u) PROVE PayloadOK(u[i])
  <2>1. From(s, t, u[i])
    BY <1>1, JoinedFrom, Zenon
  <2>2. QED
    BY <2>1, Zenon DEF From, PayloadsOK
<1>3. QED
  BY <1>1, <1>2, Zenon DEF Joined, PayloadsOK

\* The first payloads of such a sequence.
LEMMA PayloadsCut ==
  ASSUME NEW s, IsSequence(s), PayloadsOK(s), NEW n \in 0..Len(s), NEW t, Cut(s, n, t)
  PROVE  IsSequence(t) /\ PayloadsOK(t)
<1>1. Len(s) \in Nat
  BY SequenceFacts, Zenon
<1>2. \A i \in 1..n : i \in 1..Len(s)
  BY <1>1
<1>3. QED
  BY <1>2, Zenon DEF Cut, PayloadsOK

\* What is read after a step that appended some payloads.
LEMMA PayloadsFollow ==
  ASSUME NEW l, LogShape(l), PayloadsOK(ReadAll(l.disk)), NEW m, NEW t, IsSequence(t), PayloadsOK(t), Follows(l, m, t)
  PROVE  PayloadsOK(ReadAll(m.disk))
<1>1. IsSequence(ReadAll(l.disk))
  BY ShapeIsDisk, ReadIsSequence, Zenon
<1>2. ReadAll(m.disk) = ReadAll(l.disk) \/ ReadAll(m.disk) = ReadAll(l.disk) \o t
  BY Zenon DEF Follows
<1>3. QED
  BY <1>1, <1>2, PayloadsJoin, Zenon

\* The load has come to f[i] after i records.
LoadedUpTo(s, f) == f[0] = EmptyMemory /\ \A i \in 1..Len(s) : f[i] = LoadRecord(f[i - 1], s[i])

\* load_store() goes record by record.
LEMMA LoadSteps ==
  ASSUME NEW s, IsSequence(s)
  PROVE  \E f : LoadedUpTo(s, f) /\ Load(s) = f[Len(s)]
<1>1. PICK n : n = Len(s) /\ n \in Nat
  BY SequenceFacts, Zenon
<1>2. \A st, x : LoopStep("load", 0, st, x) = LoadRecord(st, x)
  BY Zenon DEF LoopStep
<1> DEFINE Loop(h) == h = [i \in 0..n |-> IF i = 0 THEN EmptyMemory ELSE LoadRecord(h[i - 1], s[i])]
<1>3. ASSUME NEW h PROVE Loop(h) <=> Looped("load", 0, EmptyMemory, s, n, h)
  <2>1. [i \in 0..n |-> IF i = 0 THEN EmptyMemory ELSE LoadRecord(h[i - 1], s[i])]
          = [i \in 0..n |-> IF i = 0 THEN EmptyMemory ELSE LoopStep("load", 0, h[i - 1], s[i])]
    BY <1>2, ZenonT(30)
  <2>2. QED
    BY <2>1, Zenon DEF Looped
<1>4. PICK f : f = CHOOSE h : Loop(h)
  BY Zenon
<1>5. Load(s) = f[n]
  BY <1>1, <1>4, Zenon DEF Load
<1> HIDE DEF Loop
<1>6. \E h : Looped("load", 0, EmptyMemory, s, n, h)
  BY <1>1, LoopExists, Zenon
<1>7. Looped("load", 0, EmptyMemory, s, n, f)
  BY <1>3, <1>4, <1>6, Zenon
<1>8. Stepped("load", 0, EmptyMemory, s, n, f)
  BY <1>1, <1>7, LoopValues, Zenon
<1>9. QED
  BY <1>1, <1>2, <1>5, <1>8, Zenon DEF Stepped, LoadedUpTo

\* A load whose records all decode, and one that succeeded, is what the registries make of
\* the records.
LEMMA LoadIsReplay ==
  ASSUME NEW s, IsSequence(s), PayloadsOK(s), Decodable(s) \/ Load(s).ok
  PROVE  Load(s) = Replay(s)
<1>1. PICK f : LoadedUpTo(s, f) /\ Load(s) = f[Len(s)]
  BY LoadSteps, Zenon
<1>2. PICK g : ReplayedBy(s, g) /\ Replay(s) = g[Len(s)]
  BY ReplaySteps, Zenon
<1>3. Len(s) \in Nat
  BY SequenceFacts, Zenon
<1> DEFINE Good == {n \in Nat : f[n] = g[n] \/ (~f[n].ok /\ ~Decodable(s))}
<1>4. 0 \in Good
  BY <1>1, <1>2, Zenon DEF LoadedUpTo, ReplayedBy
<1>5. ASSUME NEW k \in 0..Len(s), k # Len(s), k \in Good PROVE k + 1 \in Good
  <2>1. k + 1 \in Nat /\ k + 1 \in 1..Len(s) /\ (k + 1) - 1 = k
    BY <1>3, <1>5
  <2>2. PICK p : p = s[k + 1]
    BY Zenon
  <2>3. f[k + 1] = LoadRecord(f[k], p) /\ g[k + 1] = ReplayRecord(g[k], p)
    BY <1>1, <1>2, <2>1, <2>2, ZenonT(30) DEF LoadedUpTo, ReplayedBy
  <2>4. CASE ~f[k].ok
    <3>1. f[k + 1] = f[k]
      BY <2>3, <2>4, Zenon DEF LoadRecord
    <3>2. f[k] = g[k] => g[k + 1] = g[k]
      BY <2>3, <2>4, Zenon DEF ReplayRecord
    <3>3. f[k] = g[k] \/ ~Decodable(s)
      BY <1>5, Zenon
    <3>4. f[k + 1] = g[k + 1] \/ (~f[k + 1].ok /\ ~Decodable(s))
      BY <2>4, <3>1, <3>2, <3>3, Zenon
    <3>5. QED
      BY <2>1, <3>4, Zenon
  <2>5. CASE f[k].ok /\ Decodes(p)
    <3>1. f[k] = g[k]
      BY <1>5, <2>5, Zenon
    <3>2. f[k + 1] = Register(f[k], p) /\ g[k + 1] = Register(f[k], p)
      BY <2>3, <2>5, <3>1, Zenon DEF LoadRecord, ReplayRecord
    <3>3. QED
      BY <2>1, <3>2, Zenon
  <2>6. CASE f[k].ok /\ ~Decodes(p)
    <3>1. ~Decodable(s)
      BY <2>1, <2>2, <2>6, Zenon DEF Decodable
    <3>2. f[k] = g[k] /\ f[k + 1] = [f[k] EXCEPT !.ok = FALSE]
      BY <1>5, <2>3, <2>6, Zenon DEF LoadRecord
    <3>3. PICK t : t = SubSeq(s, 1, k)
      BY Zenon
    <3>4. Cut(s, k, t)
      BY <3>3, PrefixFacts, Zenon
    <3>5. Replay(t) = g[k] /\ IsSequence(t) /\ PayloadsOK(t)
      BY <1>2, <3>4, PayloadsCut, Zenon DEF ReplayedBy
    <3>6. MemoryShape(g[k])
      BY <3>5, ReplayOK, Zenon DEF MemoryOK
    <3>7. ~f[k + 1].ok
      <4>1. PICK m, a, b, c, d, o : m = g[k] /\ m = [ok |-> o, catalog |-> a, clocks |-> b, fences |-> c, records |-> d]
        BY <3>6, Zenon DEF MemoryShape
      <4>2. [m EXCEPT !.ok = FALSE].ok = FALSE
        BY <4>1
      <4>3. QED
        BY <3>2, <4>1, <4>2, Zenon
    <3>8. QED
      BY <2>1, <3>1, <3>7, Zenon
  <2>7. QED
    BY <2>4, <2>5, <2>6, Zenon
<1> HIDE DEF Good
<1>6. \A n \in 0..Len(s) : n \in Good
  BY <1>3, <1>4, <1>5, Reaches, Zenon
<1>7. Len(s) \in Good
  BY <1>3, <1>6
<1>8. QED
  BY <1>1, <1>2, <1>7, Zenon DEF Good

\* Every payload has a size.
LEMMA PayloadSize ==
  ASSUME NEW s, PayloadsOK(s)
  PROVE  \A i \in 1..Len(s) : SizeOf(s[i]) \in Nat
<1>1. ASSUME NEW i \in 1..Len(s) PROVE SizeOf(s[i]) \in Nat
  <2>1. PayloadOK(s[i])
    BY Zenon DEF PayloadsOK
  <2>2. QED
    BY <2>1, EngineAssumption, Zenon DEF PayloadOK, SizeOf
<1>2. QED
  BY <1>1, Zenon

-----------------------------------------------------------------------------
(* The inductive invariant.                                                 *)

\* What the engine has in memory.
Memory == [catalog |-> catalog, clocks |-> clocks, fences |-> fences, records |-> records]

Remembered(mem) ==
  /\ CatalogOK(mem.catalog) /\ ClocksOK(mem.clocks) /\ FencesOK(mem.fences)
  /\ Measurements(mem.records) /\ Len(mem.records) <= RecordCapacity

\* The replay e would give the engine the memory mem.
Mirrors(e, mem) ==
  /\ e.ok /\ e.catalog = mem.catalog /\ e.clocks = mem.clocks
  /\ e.fences = mem.fences /\ e.records = mem.records

\* The store directory and the writer: no append leaves a damaged frame behind, everything
\* the reader returns is something the engine wrote, and acknowledged measurements are
\* durable.
Kept(l, acks) ==
  /\ LogShape(l) /\ Intact(l) /\ PayloadsOK(ReadAll(l.disk))
  /\ acks \subseteq DurableRecords(l.disk) /\ acks \subseteq MeasurementRecords

\* Until a crash the reader comes to the end of the log; until a persist() is refused the
\* registries take what it finds, and a running engine whose log is read to its end has in
\* memory what a replay would give it.  The replay leaves out the decoder because a running
\* engine may hold a report of revision 0, and go on writing behind it.
Replays(ph, l, mem, flt) ==
  /\ "crash" \notin flt => ~Frozen(l)
  /\ "refusal" \notin flt => Replay(ReadAll(l.disk)).ok
  /\ "refusal" \notin flt /\ ph # "down" /\ ~Frozen(l) => Mirrors(Replay(ReadAll(l.disk)), mem)

EngineInvariant ==
  /\ phase \in {"down", "up", "stopping", "stopped"} /\ readonly \in BOOLEAN
  /\ faults \subseteq {"crash", "refusal"} /\ calls \in 0..MaxCalls
  /\ phase \in {"down", "stopped"} => log.file = 0
  /\ Kept(log, acked)
  /\ Remembered(Memory)
  /\ Replays(phase, log, Memory, faults)

\* With s replayed as well, mem becomes new.
Becomes(mem, s, new) ==
  \A t, u : IsSequence(t) /\ PayloadsOK(t) /\ u = t \o s /\ Mirrors(Replay(t), mem) => Mirrors(Replay(u), new)

\* A call keeps the log and the memory together: what it adds to memory is what its payloads
\* add to a replay, and when its persist() is refused nothing more is claimed.
LEMMA CallReplays ==
  ASSUME NEW l, LogShape(l), PayloadsOK(ReadAll(l.disk)), NEW mem, NEW flt,
         NEW ph, ph # "down", Replays(ph, l, mem, flt),
         NEW s, NEW d, NEW m, Left(l, s, d, m), NEW new, d.ok => Becomes(mem, s, new),
         NEW nflt, nflt = IF d.ok THEN flt ELSE flt \cup {"refusal"}
  PROVE  Replays(ph, m, new, nflt)
<1>1. PICK a, b : a = ReadAll(l.disk) /\ b = ReadAll(m.disk)
  BY Zenon
<1>2. IsSequence(a) /\ PayloadsOK(a)
  BY <1>1, ShapeIsDisk, ReadIsSequence, Zenon
<1>3. Frozen(m) <=> Frozen(l)
  BY Zenon DEF Left, Follows
<1>4. CASE ~d.ok
  <2>1. "refusal" \in nflt /\ ("crash" \in nflt <=> "crash" \in flt)
    BY <1>4, Zenon
  <2>2. QED
    BY <1>3, <2>1, Zenon DEF Replays
<1>5. CASE d.ok
  <2>1. nflt = flt /\ Follows(l, m, s) /\ Becomes(mem, s, new)
    BY <1>5, Zenon DEF Left
  <2>2. CASE Frozen(l)
    BY <1>1, <1>3, <2>1, <2>2, Zenon DEF Replays, Follows
  <2>3. CASE ~Frozen(l)
    <3>1. b = a \o s
      BY <1>1, <2>1, <2>3, Zenon DEF Follows
    <3>2. CASE "refusal" \in flt
      BY <1>3, <2>1, <3>2, Zenon DEF Replays
    <3>3. CASE "refusal" \notin flt
      <4>1. Mirrors(Replay(a), mem)
        BY <1>1, <2>3, <3>3, Zenon DEF Replays
      <4>2. Mirrors(Replay(b), new)
        BY <1>2, <2>1, <3>1, <4>1, Zenon DEF Becomes
      <4>3. QED
        BY <1>1, <1>3, <2>1, <2>3, <4>2, Zenon DEF Replays, Mirrors
    <3>4. QED
      BY <3>2, <3>3, Zenon
  <2>4. QED
    BY <2>2, <2>3, Zenon
<1>6. QED
  BY <1>4, <1>5, Zenon

\* What a call acknowledges are measurements among its payloads, when it returns ok.
Acknowledges(acks, s, d, more) ==
  \A x \in more : x \in acks \/ (d.ok /\ x \in MeasurementRecords /\ \E i \in 1..Len(s) : x = s[i])

\* A call that changed nothing but what it says keeps the invariant.
LEMMA CallKeeps ==
  ASSUME EngineInvariant, AcceptsCalls, calls < MaxCalls, phase' = phase, readonly' = readonly,
         NEW s, IsSequence(s), PayloadsOK(s), NEW d, d = PersistAll(s), Logged(d),
         NEW mem, mem = Memory, NEW new, new = Memory', Remembered(new), d.ok => Becomes(mem, s, new),
         NEW acks, acks = acked, NEW more, more = acked', Acknowledges(acks, s, d, more)
  PROVE  EngineInvariant'
<1>1. PICK l, m, flt, nflt, ph : l = log /\ m = log' /\ flt = faults /\ nflt = faults' /\ ph = phase
  BY Zenon
<1>2. Kept(l, acks) /\ Replays(ph, l, mem, flt) /\ flt \subseteq {"crash", "refusal"} /\ calls \in 0..MaxCalls
  BY <1>1, Zenon DEF EngineInvariant
<1>3. ph \in {"up", "stopping"} /\ readonly \in BOOLEAN
  BY <1>1, Zenon DEF AcceptsCalls, EngineInvariant
<1>4. ph # "down" /\ ph # "stopped" /\ ph \notin {"down", "stopped"}
  BY <1>3, Zenon
<1>5. m = IF d.ok THEN SyncLog(d.log) ELSE d.log
  BY <1>1, Zenon DEF Logged
<1>6. nflt = IF d.ok THEN flt ELSE flt \cup {"refusal"}
  BY <1>1, Zenon DEF Logged
<1>7. Left(l, s, d, m)
  BY <1>1, <1>2, <1>4, <1>5, PayloadSize, CallLeaves, Zenon DEF Kept
<1>8. Replays(ph, m, new, nflt)
  BY <1>2, <1>4, <1>6, <1>7, CallReplays, Zenon DEF Kept
<1>9. Kept(m, more)
  <2>1. LogShape(l) /\ PayloadsOK(ReadAll(l.disk)) /\ acks \subseteq DurableRecords(l.disk) /\ acks \subseteq MeasurementRecords
    BY <1>2, Zenon DEF Kept
  <2>2. LogShape(m) /\ Intact(m) /\ DurableKept(l.disk, m.disk)
    BY <1>7, Zenon DEF Left
  <2>3. PICK added : Cut(s, d.count, added) /\ d.count \in 0..Len(s) /\ Follows(l, m, added)
    BY <1>7, Zenon DEF Left
  <2>4. IsSequence(added) /\ PayloadsOK(added)
    BY <2>3, PayloadsCut, Zenon
  <2>5. PayloadsOK(ReadAll(m.disk))
    BY <2>1, <2>3, <2>4, PayloadsFollow, Zenon
  <2>6. DurableRecords(l.disk) \subseteq DurableRecords(m.disk)
    BY <2>1, <2>2, DurableGrows, Zenon DEF LogShape
  <2>7. d.ok => \A i \in 1..Len(s) : s[i] \in DurableRecords(m.disk)
    BY <1>7, Zenon DEF Left
  <2>8. ASSUME NEW x \in more PROVE x \in DurableRecords(m.disk) /\ x \in MeasurementRecords
    <3>1. x \in acks \/ (d.ok /\ x \in MeasurementRecords /\ \E i \in 1..Len(s) : x = s[i])
      BY Zenon DEF Acknowledges
    <3>2. QED
      BY <2>1, <2>6, <2>7, <3>1, ZenonT(30)
  <2>9. more \subseteq DurableRecords(m.disk) /\ more \subseteq MeasurementRecords
    BY <2>8, Zenon
  <2>10. QED
    BY <2>2, <2>5, <2>9, Zenon DEF Kept
<1>10. calls' \in 0..MaxCalls
  BY <1>2, EngineAssumption DEF Logged
<1>11. nflt \subseteq {"crash", "refusal"}
  BY <1>2, <1>6, Zenon
<1>12. QED
  BY <1>1, <1>3, <1>4, <1>8, <1>9, <1>10, <1>11, ZenonT(30) DEF EngineInvariant

\* What one payload does to the replay.
LEMMA OneBecomes ==
  ASSUME NEW mem, NEW p, NEW new, \A e : MemoryShape(e) /\ Mirrors(e, mem) => Mirrors(ReplayRecord(e, p), new),
         NEW s, s = <<p>>
  PROVE  Becomes(mem, s, new)
<1>1. SUFFICES ASSUME NEW t, NEW u, IsSequence(t), PayloadsOK(t), u = t \o s, Mirrors(Replay(t), mem)
               PROVE  Mirrors(Replay(u), new)
  BY Zenon DEF Becomes
<1>2. MemoryShape(Replay(t))
  BY <1>1, ReplayOK, Zenon DEF MemoryOK
<1>3. Replay(u) = ReplayRecord(Replay(t), p)
  BY <1>1, ReplayOneMore, Zenon
<1>4. QED
  BY <1>1, <1>2, <1>3, Zenon

\* A call with one payload that the engine's tables accepted.
LEMMA OneCall ==
  ASSUME EngineInvariant, AcceptsCalls, calls < MaxCalls, phase' = phase, readonly' = readonly, acked' = acked,
         NEW p, PayloadOK(p), NEW d, d = PersistAll(<<p>>), Logged(d),
         NEW mem, mem = Memory, NEW new, new = Memory', Remembered(new),
         \A e : MemoryShape(e) /\ Mirrors(e, mem) => Mirrors(ReplayRecord(e, p), new)
  PROVE  EngineInvariant'
<1>1. PICK s : s = <<p>>
  BY Zenon
<1>2. IsSequence(s) /\ Len(s) = 1 /\ s[1] = p
  BY <1>1, OneElement, Zenon
<1>3. PayloadsOK(s)
  BY <1>2 DEF PayloadsOK
<1>4. Becomes(mem, s, new)
  BY <1>1, OneBecomes, Zenon
<1>5. PICK acks : acks = acked /\ acks = acked' /\ Acknowledges(acks, s, d, acks)
  BY Zenon DEF Acknowledges
<1>6. d = PersistAll(s)
  BY <1>1, Zenon
<1>7. QED
  BY <1>2, <1>3, <1>4, <1>5, <1>6, CallKeeps, Zenon

\* define_source() and its siblings.
LEMMA DefineStep ==
  ASSUME EngineInvariant, NEW def \in Definitions, DefineEntity(def)
  PROVE  EngineInvariant'
<1>1. PICK mem, new : mem = Memory /\ new = Memory'
  BY Zenon
<1>2. PICK d : d = Define(mem.catalog, def)
  BY Zenon
<1>3. /\ d.ok /\ new.catalog = d.catalog /\ new.clocks = mem.clocks /\ new.fences = mem.fences
      /\ new.records = mem.records
  BY <1>1, <1>2, Zenon DEF DefineEntity, Memory
<1>4. Remembered(mem)
  BY <1>1, Zenon DEF EngineInvariant
<1>5. Remembered(new)
  <2>1. CatalogOK(d.catalog)
    BY <1>2, <1>4, DefineKeeps, Zenon DEF Remembered
  <2>2. QED
    BY <1>3, <1>4, <2>1, Zenon DEF Remembered
<1>6. PICK p : p = DefinitionRecord(def)
  BY Zenon
<1>7. p.type = "definition" /\ p.def = def
  BY <1>6, Zenon DEF DefinitionRecord
<1>8. ASSUME NEW e, MemoryShape(e), Mirrors(e, mem) PROVE Mirrors(ReplayRecord(e, p), new)
  <2>1. e.ok /\ e.catalog = mem.catalog /\ e.clocks = mem.clocks /\ e.fences = mem.fences /\ e.records = mem.records
    BY <1>8, Zenon DEF Mirrors
  <2>2. ReplayRecord(e, p) = [e EXCEPT !.ok = d.ok, !.catalog = d.catalog]
    BY <1>2, <1>7, <2>1, Zenon DEF ReplayRecord, Register
  <2>3. QED
    BY <1>3, <1>8, <2>1, <2>2, Zenon DEF MemoryShape, Mirrors
<1>9. PayloadOK(p)
  BY <1>7, Zenon DEF PayloadOK
<1>10. AcceptsCalls /\ calls < MaxCalls /\ phase' = phase /\ readonly' = readonly /\ acked' = acked
       /\ Logged(PersistAll(<<p>>))
  BY <1>6, Zenon DEF DefineEntity
<1>11. PICK done : done = PersistAll(<<p>>)
  BY Zenon
<1>12. QED
  BY <1>1, <1>5, <1>8, <1>9, <1>10, <1>11, OneCall, Zenon

\* define_clock_domain()
LEMMA DomainStep ==
  ASSUME EngineInvariant, NEW domain, DefineClockDomain(domain)
  PROVE  EngineInvariant'
<1>1. PICK mem, new : mem = Memory /\ new = Memory'
  BY Zenon
<1>2. PICK d : d = DefineDomain(mem.clocks, domain.name, domain.content)
  BY Zenon
<1>3. /\ d.ok /\ new.clocks = d.clocks /\ new.catalog = mem.catalog /\ new.fences = mem.fences
      /\ new.records = mem.records
  BY <1>1, <1>2, Zenon DEF DefineClockDomain, Memory
<1>4. Remembered(mem)
  BY <1>1, Zenon DEF EngineInvariant
<1>5. Remembered(new)
  <2>1. ClocksOK(d.clocks)
    BY <1>2, <1>4, DomainKeeps, Zenon DEF Remembered
  <2>2. QED
    BY <1>3, <1>4, <2>1, Zenon DEF Remembered
<1>6. PICK p : p = DomainRecord(domain)
  BY Zenon
<1>7. p.type = "domain" /\ p.domain = domain
  BY <1>6, Zenon DEF DomainRecord
<1>8. ASSUME NEW e, MemoryShape(e), Mirrors(e, mem) PROVE Mirrors(ReplayRecord(e, p), new)
  <2>1. e.ok /\ e.catalog = mem.catalog /\ e.clocks = mem.clocks /\ e.fences = mem.fences /\ e.records = mem.records
    BY <1>8, Zenon DEF Mirrors
  <2>2. ReplayRecord(e, p) = [e EXCEPT !.ok = d.ok, !.clocks = d.clocks]
    BY <1>2, <1>7, <2>1, Zenon DEF ReplayRecord, Register
  <2>3. QED
    BY <1>3, <1>8, <2>1, <2>2, ZenonT(30) DEF MemoryShape, Mirrors
<1>9. PayloadOK(p)
  BY <1>7, Zenon DEF PayloadOK
<1>10. AcceptsCalls /\ calls < MaxCalls /\ phase' = phase /\ readonly' = readonly /\ acked' = acked
       /\ Logged(PersistAll(<<p>>))
  BY <1>6, Zenon DEF DefineClockDomain
<1>11. PICK done : done = PersistAll(<<p>>)
  BY Zenon
<1>12. QED
  BY <1>1, <1>5, <1>8, <1>9, <1>10, <1>11, OneCall, Zenon

\* record_clock_sync()
LEMMA SyncStep ==
  ASSUME EngineInvariant, NEW sync \in Syncs, RecordClockSync(sync)
  PROVE  EngineInvariant'
<1>1. PICK mem, new : mem = Memory /\ new = Memory'
  BY Zenon
<1>2. PICK d : d = RecordSync(mem.clocks, sync)
  BY Zenon
<1>3. /\ d.ok /\ new.clocks = d.clocks /\ new.catalog = mem.catalog /\ new.fences = mem.fences
      /\ new.records = mem.records
  BY <1>1, <1>2, Zenon DEF RecordClockSync, Memory
<1>4. Remembered(mem)
  BY <1>1, Zenon DEF EngineInvariant
<1>5. Remembered(new)
  <2>1. ClocksOK(d.clocks)
    BY <1>2, <1>4, SyncKeepsReports, Zenon DEF Remembered
  <2>2. QED
    BY <1>3, <1>4, <2>1, Zenon DEF Remembered
<1>6. PICK p : p = SyncRecord(sync)
  BY Zenon
<1>7. p.type = "sync" /\ p.sync = sync
  BY <1>6, Zenon DEF SyncRecord
<1>8. ASSUME NEW e, MemoryShape(e), Mirrors(e, mem) PROVE Mirrors(ReplayRecord(e, p), new)
  <2>1. e.ok /\ e.catalog = mem.catalog /\ e.clocks = mem.clocks /\ e.fences = mem.fences /\ e.records = mem.records
    BY <1>8, Zenon DEF Mirrors
  <2>2. ReplayRecord(e, p) = [e EXCEPT !.ok = d.ok, !.clocks = d.clocks]
    BY <1>2, <1>7, <2>1, ZenonT(30) DEF ReplayRecord, Register
  <2>3. QED
    BY <1>3, <1>8, <2>1, <2>2, Zenon DEF MemoryShape, Mirrors
<1>9. PayloadOK(p)
  BY <1>7, Zenon DEF PayloadOK
<1>10. AcceptsCalls /\ calls < MaxCalls /\ phase' = phase /\ readonly' = readonly /\ acked' = acked
       /\ Logged(PersistAll(<<p>>))
  BY <1>6, Zenon DEF RecordClockSync
<1>11. PICK done : done = PersistAll(<<p>>)
  BY Zenon
<1>12. QED
  BY <1>1, <1>5, <1>8, <1>9, <1>10, <1>11, OneCall, Zenon

-----------------------------------------------------------------------------
(* ingest().                                                                *)

\* A batch is a sequence of records.
LEMMA BatchShape ==
  ASSUME NEW batch \in Batches
  PROVE  IsSequence(batch) /\ \A i \in 1..Len(batch) : batch[i] \in Records
<1>1. PICK n \in 1..MaxBatch : batch \in [1..n -> Records]
  BY Zenon DEF Batches
<1>2. n \in Nat
  BY <1>1, EngineAssumption
<1>3. batch = [i \in 1..n |-> batch[i]]
  BY <1>1, Zenon
<1>4. IsSequence(batch) /\ Len(batch) = n
  BY <1>2, <1>3, FunctionIsSequence, Zenon
<1>5. QED
  BY <1>1, <1>4, Zenon

\* Measurements behind measurements.
LEMMA MeasurementsJoin ==
  ASSUME NEW s, Measurements(s), NEW t, Measurements(t), NEW u, u = s \o t
  PROVE  Measurements(u) /\ Joined(s, t, u)
<1>1. IsSequence(s) /\ IsSequence(t)
  BY Zenon DEF Measurements
<1>2. Joined(s, t, u)
  BY <1>1, ConcatJoins, Zenon
<1>3. ASSUME NEW i \in 1..Len(u) PROVE u[i] \in MeasurementRecords
  <2>1. From(s, t, u[i])
    BY <1>1, <1>2, JoinedFrom, ZenonT(30)
  <2>2. QED
    BY <2>1, Zenon DEF From, Measurements
<1>4. QED
  BY <1>2, <1>3, Zenon DEF Joined, Measurements

\* Measurements are payloads.
LEMMA MeasurementPayloads ==
  ASSUME NEW s, Measurements(s)
  PROVE  PayloadsOK(s) /\ \A i \in 1..Len(s) : s[i].type = "measurement"
BY Zenon DEF Measurements, MeasurementRecords, PayloadsOK, PayloadOK

\* So are fences.
LEMMA FencePayloads ==
  ASSUME NEW F, FencesOK(F), NEW q, Held(F, q)
  PROVE  PayloadsOK(q) /\ \A i \in 1..Len(q) : q[i].type = "fence"
BY Zenon DEF FencesOK, Held, IsFenceOf, PayloadsOK, PayloadOK

\* What a batch came to: its accepted measurements, and the fences to be written behind them.
Batched(found, n, F, accepted, q, s) ==
  /\ FencesOK(F) /\ \A x \in Sources : F[x] = EmptyFence => found[x] = EmptyFence
  /\ Measurements(accepted) /\ Len(accepted) <= n /\ Collected(F, Len(SourceOrder), q)
  /\ s = accepted \o q /\ Joined(accepted, q, s) /\ PayloadsOK(s)
  /\ \A i \in 1..Len(s) : s[i].type \in {"measurement", "fence"}

\* admit() and what ingest() makes of it.
LEMMA BatchFacts ==
  ASSUME NEW found, found = fences, FencesOK(found), calls \in 0..MaxCalls, NEW batch \in Batches,
         NEW st, st = AdmitBatch(batch), NEW accepted, accepted = st.current \o st.history,
         NEW s, s = IngestPayloads(st)
  PROVE  \E q : Batched(found, Len(batch), st.fences, accepted, q, s)
<1>1. IsSequence(batch) /\ \A i \in 1..Len(batch) : batch[i] \in Records
  BY BatchShape, Zenon
<1>2. Admitting(found, Len(batch), st)
  BY <1>1, AdmitFacts, Zenon
<1>3. PICK q : q = FenceRecords(st.fences)
  BY Zenon
<1>4. Collected(st.fences, Len(SourceOrder), q)
  BY <1>3, FenceFacts, Zenon
<1>5. Measurements(accepted) /\ Joined(st.current, st.history, accepted)
  BY <1>2, MeasurementsJoin, Zenon DEF Admitting
<1>6. Len(accepted) <= Len(batch)
  BY <1>2, <1>5, Zenon DEF Joined, Admitting
<1>7. s = accepted \o q
  BY <1>3, Zenon DEF IngestPayloads
<1>8. Held(st.fences, q)
  BY <1>4, FencesHeld, Zenon
<1>9. IsSequence(accepted) /\ IsSequence(q)
  BY <1>5, <1>8, Zenon DEF Measurements, Held
<1>10. Joined(accepted, q, s)
  BY <1>7, <1>9, ConcatJoins, Zenon
<1>11. PayloadsOK(accepted) /\ \A i \in 1..Len(accepted) : accepted[i].type = "measurement"
  BY <1>5, MeasurementPayloads, Zenon
<1>12. PayloadsOK(q) /\ \A i \in 1..Len(q) : q[i].type = "fence"
  BY <1>2, <1>8, FencePayloads, Zenon DEF Admitting
<1>13. PayloadsOK(s)
  BY <1>7, <1>9, <1>11, <1>12, PayloadsJoin, Zenon
<1>14. ASSUME NEW i \in 1..Len(s) PROVE s[i].type \in {"measurement", "fence"}
  <2>1. From(accepted, q, s[i])
    BY <1>9, <1>10, JoinedFrom, ZenonT(30)
  <2>2. s[i].type = "measurement" \/ s[i].type = "fence"
    BY <1>11, <1>12, <2>1, Zenon DEF From
  <2>3. QED
    BY <2>2, Zenon
<1>15. QED
  BY <1>2, <1>4, <1>5, <1>6, <1>7, <1>10, <1>13, <1>14, Zenon DEF Batched, Admitting

\* The memory after a batch that was persisted to its end.
LEMMA BatchBecomes ==
  ASSUME NEW mem, FencesOK(mem.fences), NEW n, NEW F, NEW accepted, NEW q, NEW s, Batched(mem.fences, n, F, accepted, q, s),
         NEW new, new.catalog = mem.catalog, new.clocks = mem.clocks, new.fences = F,
         new.records = mem.records \o accepted
  PROVE  Becomes(mem, s, new)
<1>1. SUFFICES ASSUME NEW t, NEW u, IsSequence(t), PayloadsOK(t), u = t \o s, Mirrors(Replay(t), mem)
               PROVE  Mirrors(Replay(u), new)
  BY Zenon DEF Becomes
<1>2. /\ FencesOK(F) /\ \A x \in Sources : F[x] = EmptyFence => mem.fences[x] = EmptyFence
      /\ Measurements(accepted) /\ Collected(F, Len(SourceOrder), q) /\ s = accepted \o q
  BY Zenon DEF Batched
<1>3. IsSequence(accepted) /\ IsSequence(q) /\ PayloadsOK(accepted)
  BY <1>2, MeasurementPayloads, Zenon DEF Measurements, Collected
<1>4. PICK v : v = t \o accepted
  BY Zenon
<1>5. u = v \o q
  <2>1. Associates(t, accepted, q)
    BY <1>1, <1>3, ConcatAssociates, Zenon
  <2>2. QED
    BY <1>1, <1>2, <1>4, <2>1, Zenon DEF Associates
<1>6. IsSequence(v) /\ PayloadsOK(v)
  BY <1>1, <1>3, <1>4, PayloadsJoin, Zenon
<1>7. PICK old, mid, last : old = Replay(t) /\ mid = Replay(v) /\ last = Replay(u)
  BY Zenon
<1>8. old.ok /\ old.catalog = mem.catalog /\ old.clocks = mem.clocks /\ old.fences = mem.fences /\ old.records = mem.records
  BY <1>1, <1>7, Zenon DEF Mirrors
<1>9. SameTables(old, mid) /\ mid.fences = old.fences /\ mid.records = old.records \o accepted
  BY <1>1, <1>2, <1>4, <1>7, <1>8, MeasurementsReplay, Zenon
<1>10. mid.ok /\ Emptier(F, mid.fences)
  BY <1>2, <1>8, <1>9, Zenon DEF SameTables, Emptier
<1>11. FencesReplayed(mid, F, last)
  BY <1>2, <1>5, <1>6, <1>7, <1>10, FencesReplay, Zenon
<1>12. QED
  BY <1>7, <1>8, <1>9, <1>11, Zenon DEF Mirrors, SameTables, FencesReplayed

RecordsGained(old, accepted, n, count, new) ==
  /\ Measurements(new) /\ Len(new) <= Len(old) + Len(accepted)
  /\ count = n => new = old \o accepted

\* The records of a batch that reached the log are in memory behind the others: all that
\* were accepted, when every payload reached it.
LEMMA RecordsAdded ==
  ASSUME NEW old, Measurements(old), NEW accepted, Measurements(accepted), NEW q, IsSequence(q),
         NEW s, Joined(accepted, q, s), NEW count \in 0..Len(s),
         NEW new, new = old \o SubSeq(accepted, 1, Min({count, Len(accepted)}))
  PROVE  RecordsGained(old, accepted, Len(s), count, new)
<1>1. Len(accepted) \in Nat /\ Len(q) \in Nat /\ Len(old) \in Nat /\ IsSequence(accepted) /\ IsSequence(old)
  BY SequenceFacts, Zenon DEF Measurements
<1>2. Len(s) = Len(accepted) + Len(q)
  BY Zenon DEF Joined
<1>3. count \in Nat
  BY <1>1, <1>2
<1>4. PICK k, S : S = {count, Len(accepted)} /\ k = Min(S)
  BY Zenon
<1>5. k \in S /\ \A y \in S : k <= y
  <2>1. S \subseteq Nat /\ S # {}
    BY <1>1, <1>3, <1>4
  <2>2. QED
    BY <1>4, <2>1, Least, ZenonT(30)
<1>6. k \in 0..Len(accepted)
  BY <1>1, <1>3, <1>4, <1>5
<1>7. PICK t : t = SubSeq(accepted, 1, k)
  BY Zenon
<1>8. Cut(accepted, k, t)
  BY <1>1, <1>6, <1>7, PrefixFacts, Zenon
<1>9. \A i \in 1..k : i \in 1..Len(accepted)
  BY <1>1, <1>6
<1>10. Measurements(t) /\ Len(t) = k
  BY <1>8, <1>9, Zenon DEF Cut, Measurements
<1>11. new = old \o t
  BY <1>4, <1>7, Zenon
<1>12. Measurements(new) /\ Joined(old, t, new)
  BY <1>10, <1>11, MeasurementsJoin, Zenon
<1>13. Len(new) = Len(old) + k
  BY <1>10, <1>12, Zenon DEF Joined
<1>14. Len(new) <= Len(old) + Len(accepted)
  <2>1. PICK a, b, c : a = Len(new) /\ b = Len(old) /\ c = Len(accepted)
    BY Zenon
  <2>2. b \in Nat /\ c \in Nat /\ k \in 0..c /\ a = b + k
    BY <1>1, <1>6, <1>13, <2>1, Zenon
  <2>3. a <= b + c
    BY <2>2
  <2>4. QED
    BY <2>1, <2>3, Zenon
<1>15. ASSUME count = Len(s) PROVE new = old \o accepted
  <2>1. k = Len(accepted)
    BY <1>1, <1>2, <1>4, <1>5, <1>15
  <2>2. t = accepted
    BY <1>1, <1>8, <2>1, SameSequence, Zenon DEF Cut
  <2>3. QED
    BY <1>11, <2>2, Zenon
<1>16. QED
  BY <1>12, <1>14, <1>15, Zenon DEF RecordsGained

\* ingest()
LEMMA IngestStep ==
  ASSUME EngineInvariant, NEW batch \in Batches, Ingest(batch)
  PROVE  EngineInvariant'
<1>1. PICK mem, new : mem = Memory /\ new = Memory'
  BY Zenon
<1>2. Remembered(mem) /\ calls \in 0..MaxCalls
  BY <1>1, Zenon DEF EngineInvariant
<1>3. PICK st, accepted, s, d : /\ st = AdmitBatch(batch) /\ accepted = st.current \o st.history
                                /\ s = IngestPayloads(st) /\ d = PersistAll(s)
  BY Zenon
<1>4. mem.fences = fences /\ mem.records = records
  BY <1>1, Zenon DEF Memory
<1>5. /\ FencesOK(mem.fences) /\ Measurements(mem.records) /\ CatalogOK(mem.catalog) /\ ClocksOK(mem.clocks)
  BY <1>2, Zenon DEF Remembered
<1>6. PICK q : Batched(mem.fences, Len(batch), st.fences, accepted, q, s)
  BY <1>2, <1>3, <1>4, <1>5, BatchFacts, Zenon
<1>7. /\ Measurements(accepted) /\ Len(accepted) <= Len(batch) /\ FencesOK(st.fences) /\ IsSequence(q)
      /\ Joined(accepted, q, s) /\ IsSequence(s) /\ PayloadsOK(s)
  BY <1>6, Zenon DEF Batched, Collected, Joined
<1>8. /\ new.fences = st.fences /\ new.catalog = mem.catalog /\ new.clocks = mem.clocks
      /\ new.records = mem.records \o SubSeq(accepted, 1, Min({d.count, Len(accepted)}))
  BY <1>1, <1>3, ZenonT(30) DEF Ingest, Memory
<1>9. /\ AcceptsCalls /\ calls < MaxCalls /\ Len(records) + Len(batch) <= RecordCapacity
      /\ phase' = phase /\ readonly' = readonly /\ Logged(d)
      /\ acked' = IF d.ok THEN acked \cup Range(accepted) ELSE acked
  BY <1>3, Zenon DEF Ingest, CanIngest
<1>10. d.count \in 0..Len(s) /\ (d.ok => d.count = Len(s))
  <2>1. PICK l : l = log
    BY Zenon
  <2>2. LogShape(l) /\ Intact(l)
    BY <2>1, Zenon DEF EngineInvariant, Kept
  <2>3. phase # "stopped"
    BY <1>9, Zenon DEF AcceptsCalls
  <2>4. Persisted(l, s, Len(s), d)
    BY <1>3, <1>7, <2>1, <2>2, <2>3, PayloadSize, PersistFacts, Zenon
  <2>5. QED
    BY <2>4, Zenon DEF Persisted
<1>11. RecordsGained(mem.records, accepted, Len(s), d.count, new.records)
  BY <1>5, <1>7, <1>8, <1>10, RecordsAdded, Zenon
<1>12. Len(new.records) <= RecordCapacity
  <2>1. PICK a, b, c, e : a = Len(new.records) /\ b = Len(mem.records) /\ c = Len(accepted) /\ e = Len(batch)
    BY Zenon
  <2>2. a \in Nat /\ b \in Nat /\ c \in Nat /\ e \in Nat
    BY <1>5, <1>7, <1>11, <2>1, BatchShape, SequenceFacts, ZenonT(30) DEF Measurements, RecordsGained
  <2>3. a <= b + c /\ c <= e /\ b + e <= RecordCapacity
    BY <1>4, <1>7, <1>9, <1>11, <2>1, Zenon DEF RecordsGained
  <2>4. QED
    BY <2>1, <2>2, <2>3, EngineAssumption
<1>13. Remembered(new)
  BY <1>5, <1>7, <1>8, <1>11, <1>12, Zenon DEF Remembered, RecordsGained
<1>14. d.ok => Becomes(mem, s, new)
  BY <1>5, <1>6, <1>8, <1>10, <1>11, BatchBecomes, Zenon DEF RecordsGained
<1>15. PICK acks, more : acks = acked /\ more = acked'
  BY Zenon
<1>16. ASSUME NEW x \in more PROVE x \in acks \/ (d.ok /\ x \in MeasurementRecords /\ \E i \in 1..Len(s) : x = s[i])
  <2>1. x \in acks \/ (d.ok /\ x \in Range(accepted))
    BY <1>9, <1>15, Zenon
  <2>2. CASE d.ok /\ x \in Range(accepted)
    <3>1. PICK j \in 1..Len(accepted) : x = accepted[j]
      BY <1>7, <2>2, SequenceFacts, Zenon DEF Measurements, Range
    <3>2. s[j] = x /\ x \in MeasurementRecords
      BY <1>7, <3>1, Zenon DEF Joined, Measurements
    <3>3. j \in 1..Len(s)
      <4>1. Len(accepted) \in Nat /\ Len(q) \in Nat /\ Len(s) = Len(accepted) + Len(q)
        BY <1>7, SequenceFacts, Zenon DEF Measurements, Joined
      <4>2. QED
        BY <3>1, <4>1
    <3>4. QED
      BY <2>2, <3>2, <3>3, Zenon
  <2>3. QED
    BY <2>1, <2>2, Zenon
<1>17. Acknowledges(acks, s, d, more)
  BY <1>16, Zenon DEF Acknowledges
<1>18. QED
  BY <1>1, <1>3, <1>7, <1>9, <1>13, <1>14, <1>15, <1>17, CallKeeps, Zenon

-----------------------------------------------------------------------------
(* Crashes, and the start and the end of a run.                             *)

\* What replays still replays when its end is lost.
CrashLeft(l, acks, m) ==
  Kept(m, acks) /\ m.file = 0 /\ (Replay(ReadAll(l.disk)).ok => Replay(ReadAll(m.disk)).ok)

\* A crash takes the end of what the reader would have found, and nothing durable.
LEMMA CrashLeaves ==
  ASSUME NEW l, NEW acks, Kept(l, acks), NEW disk \in CrashedDisks(l.disk), NEW m, m = NewLog(disk)
  PROVE  CrashLeft(l, acks, m)
<1>1. LogShape(l) /\ Intact(l) /\ PayloadsOK(ReadAll(l.disk)) /\ acks \subseteq DurableRecords(l.disk)
      /\ acks \subseteq MeasurementRecords
  BY Zenon DEF Kept
<1>2. LogShape(m) /\ m.disk = disk /\ m.file = 0
  <2>1. LogShape(l)
    BY <1>1, Zenon
  <2>2. QED
    BY <2>1, CrashShape
<1>3. Intact(m)
  BY <1>2, Zenon DEF Intact
<1>4. DurableRecords(l.disk) \subseteq DurableRecords(m.disk)
  BY <1>1, <1>2, CrashKeeps, DurableGrows, Zenon DEF LogShape
<1>5. acks \subseteq DurableRecords(m.disk)
  BY <1>1, <1>4, Zenon
<1>6. PICK a, b : a = ReadAll(l.disk) /\ b = ReadAll(m.disk)
  BY Zenon
<1>7. IsSequence(a)
  BY <1>1, <1>6, ShapeIsDisk, ReadIsSequence, Zenon
<1>8. PICK k \in 0..Len(a) : Cut(a, k, b)
  BY <1>1, <1>2, <1>6, CrashFollows, Zenon DEF Shortened
<1>9. PayloadsOK(b)
  BY <1>1, <1>6, <1>7, <1>8, PayloadsCut, Zenon
<1>10. Replay(a).ok => Replay(b).ok
  BY <1>7, <1>8, PrefixReplays, Zenon
<1>11. QED
  BY <1>1, <1>2, <1>3, <1>5, <1>6, <1>9, <1>10, Zenon DEF CrashLeft, Kept

\* The log when a batch has been persisted in part or whole, and not been synced.
LEMMA UnsyncedBatch ==
  ASSUME NEW l, NEW acks, Kept(l, acks), NEW s, IsSequence(s), PayloadsOK(s),
         \A i \in 1..Len(s) : s[i].type \in {"measurement", "fence"}, NEW d, Persisted(l, s, Len(s), d)
  PROVE  Kept(d.log, acks) /\ (Replay(ReadAll(l.disk)).ok => Replay(ReadAll(d.log.disk)).ok)
<1>1. LogShape(l) /\ Intact(l) /\ PayloadsOK(ReadAll(l.disk)) /\ acks \subseteq DurableRecords(l.disk)
      /\ acks \subseteq MeasurementRecords
  BY Zenon DEF Kept
<1>2. PICK m, count : m = d.log /\ count = d.count
  BY Zenon
<1>3. LogShape(m) /\ Intact(m) /\ DurableKept(l.disk, m.disk) /\ count \in 0..Len(s)
  BY <1>2, Zenon DEF Persisted
<1>4. PICK added : Cut(s, count, added) /\ Follows(l, m, added)
  BY <1>2, Zenon DEF Persisted
<1>5. IsSequence(added) /\ PayloadsOK(added)
  BY <1>3, <1>4, PayloadsCut, Zenon
<1>6. PayloadsOK(ReadAll(m.disk))
  BY <1>1, <1>4, <1>5, PayloadsFollow, Zenon
<1>7. DurableRecords(l.disk) \subseteq DurableRecords(m.disk)
  BY <1>1, <1>3, DurableGrows, Zenon DEF LogShape
<1>8. acks \subseteq DurableRecords(m.disk)
  BY <1>1, <1>7, Zenon
<1>9. PICK a, b : a = ReadAll(l.disk) /\ b = ReadAll(m.disk)
  BY Zenon
<1>10. IsSequence(a) /\ (b = a \/ b = a \o added)
  BY <1>1, <1>4, <1>9, ShapeIsDisk, ReadIsSequence, Zenon DEF Follows
<1>11. \A i \in 1..Len(added) : added[i].type \in {"measurement", "fence"}
  <2>1. \A i \in 1..count : i \in 1..Len(s)
    BY <1>3, SequenceFacts
  <2>2. QED
    BY <1>4, <2>1, Zenon DEF Cut
<1>12. Replay(a).ok => Replay(b).ok
  BY <1>1, <1>5, <1>9, <1>10, <1>11, BatchReplays, Zenon
<1>13. QED
  BY <1>1, <1>2, <1>3, <1>6, <1>8, <1>9, <1>12, Zenon DEF Kept

\* The invariant after a crash, of a log that replays when the engine's did.
LEMMA CrashedInvariant ==
  ASSUME EngineInvariant, NEW l, NEW old, old = log, NEW acks, acks = acked, Kept(l, acks),
         Replay(ReadAll(old.disk)).ok => Replay(ReadAll(l.disk)).ok,
         NEW disk \in CrashedDisks(l.disk), log' = NewLog(disk), phase' = "down", calls' \in 0..MaxCalls,
         faults' = faults \cup {"crash"}, UNCHANGED <<readonly, fences, catalog, clocks, records, acked>>
  PROVE  EngineInvariant'
<1>1. PICK m, mem, ph, flt, nflt : m = log' /\ mem = Memory /\ ph = phase /\ flt = faults /\ nflt = faults'
  BY Zenon
<1>2. CrashLeft(l, acks, m)
  BY <1>1, CrashLeaves, Zenon
<1>3. Remembered(mem) /\ Replays(ph, old, mem, flt) /\ readonly \in BOOLEAN /\ flt \subseteq {"crash", "refusal"}
  BY <1>1, Zenon DEF EngineInvariant
<1>4. "crash" \in nflt /\ ("refusal" \in nflt <=> "refusal" \in flt) /\ nflt \subseteq {"crash", "refusal"}
  BY <1>1, <1>3, Zenon
<1>5. Replays("down", m, mem, nflt)
  BY <1>2, <1>3, <1>4, Zenon DEF Replays, CrashLeft
<1>6. Kept(m, acks) /\ m.file = 0
  BY <1>2, Zenon DEF CrashLeft
<1>7. Memory' = mem /\ acked' = acks
  BY <1>1, Zenon DEF Memory
<1>8. QED
  BY <1>1, <1>3, <1>4, <1>5, <1>6, <1>7, Zenon DEF EngineInvariant

\* The process dies inside ingest().
LEMMA IngestCrashStep ==
  ASSUME EngineInvariant, NEW batch \in Batches, IngestCrash(batch)
  PROVE  EngineInvariant'
<1>1. PICK l, acks, mem : l = log /\ acks = acked /\ mem = Memory
  BY Zenon
<1>2. Kept(l, acks) /\ Remembered(mem) /\ calls \in 0..MaxCalls
  BY <1>1, Zenon DEF EngineInvariant
<1>3. mem.fences = fences /\ FencesOK(mem.fences)
  BY <1>1, <1>2, Zenon DEF Memory, Remembered
<1>4. PICK st, accepted, s, d : /\ st = AdmitBatch(batch) /\ accepted = st.current \o st.history
                                /\ s = IngestPayloads(st) /\ d = PersistAll(s)
  BY Zenon
<1>5. PICK q : Batched(mem.fences, Len(batch), st.fences, accepted, q, s)
  BY <1>2, <1>3, <1>4, BatchFacts, Zenon
<1>6. IsSequence(s) /\ PayloadsOK(s) /\ \A i \in 1..Len(s) : s[i].type \in {"measurement", "fence"}
  BY <1>5, Zenon DEF Batched, Joined
<1>7. phase # "stopped" /\ calls < MaxCalls
  BY Zenon DEF IngestCrash, CanIngest, AcceptsCalls
<1>8. Persisted(l, s, Len(s), d)
  BY <1>1, <1>2, <1>4, <1>6, <1>7, PayloadSize, PersistFacts, Zenon DEF Kept
<1>9. Kept(d.log, acks) /\ (Replay(ReadAll(l.disk)).ok => Replay(ReadAll(d.log.disk)).ok)
  BY <1>2, <1>6, <1>8, UnsyncedBatch, Zenon
<1>10. PICK disk \in CrashedDisks(d.log.disk) : log' = NewLog(disk)
  BY <1>4, Zenon DEF IngestCrash
<1>11. calls' \in 0..MaxCalls
  BY <1>2, <1>7, EngineAssumption DEF IngestCrash
<1>12. /\ phase' = "down" /\ faults' = faults \cup {"crash"}
       /\ UNCHANGED <<readonly, fences, catalog, clocks, records, acked>>
  BY Zenon DEF IngestCrash
<1>13. QED
  BY <1>1, <1>9, <1>10, <1>11, <1>12, CrashedInvariant, Zenon

\* A crash between two calls.
LEMMA CrashStep ==
  ASSUME EngineInvariant, Crash
  PROVE  EngineInvariant'
<1>1. PICK l, acks : l = log /\ acks = acked
  BY Zenon
<1>2. Kept(l, acks) /\ calls \in 0..MaxCalls
  BY <1>1, Zenon DEF EngineInvariant
<1>3. PICK disk \in CrashedDisks(l.disk) : log' = NewLog(disk)
  BY <1>1, Zenon DEF Crash
<1>4. /\ phase' = "down" /\ faults' = faults \cup {"crash"} /\ calls' \in 0..MaxCalls
      /\ UNCHANGED <<readonly, fences, catalog, clocks, records, acked>>
  BY <1>2, Zenon DEF Crash
<1>5. QED
  BY <1>1, <1>2, <1>3, <1>4, CrashedInvariant, Zenon

\* A step that adds nothing to what is read keeps what is said of it.
LEMMA SameReplays ==
  ASSUME NEW ph, NEW l, LogShape(l), NEW mem, NEW flt, Replays(ph, l, mem, flt), NEW m, Follows(l, m, <<>>),
         NEW nph, nph # "down" => ph # "down"
  PROVE  Replays(nph, m, mem, flt)
<1>1. IsSequence(ReadAll(l.disk))
  BY ShapeIsDisk, ReadIsSequence, Zenon
<1>2. ReadAll(m.disk) = ReadAll(l.disk) /\ (Frozen(m) <=> Frozen(l))
  BY <1>1, ConcatNothing, Zenon DEF Follows
<1>3. QED
  BY <1>2, Zenon DEF Replays

\* shutdown() with its writer, and the end of the process.
LEMMA CloseStep ==
  ASSUME EngineInvariant, ShutdownClose \/ Exit
  PROVE  EngineInvariant'
<1>1. PICK l, m, mem, acks, flt, ph, nph : /\ l = log /\ m = log' /\ mem = Memory /\ acks = acked /\ flt = faults
                                           /\ ph = phase /\ nph = phase'
  BY Zenon
<1>2. /\ Kept(l, acks) /\ Remembered(mem) /\ Replays(ph, l, mem, flt) /\ readonly \in BOOLEAN
      /\ flt \subseteq {"crash", "refusal"} /\ calls \in 0..MaxCalls
  BY <1>1, Zenon DEF EngineInvariant
<1>3. /\ ph # "down" /\ nph \in {"down", "stopped"} /\ m = CloseLog(l)
      /\ UNCHANGED <<readonly, fences, catalog, clocks, records, acked, faults, calls>>
  BY <1>1, Zenon DEF ShutdownClose, Exit
<1>4. LogShape(l) /\ Intact(l) /\ PayloadsOK(ReadAll(l.disk)) /\ acks \subseteq DurableRecords(l.disk)
      /\ acks \subseteq MeasurementRecords
  BY <1>2, Zenon DEF Kept
<1>5. LogShape(m) /\ Intact(m) /\ Follows(l, m, <<>>) /\ DurableKept(l.disk, m.disk)
  BY <1>3, <1>4, SyncedIsDurable, SyncFollows, Zenon
<1>6. m.file = 0
  BY <1>3, <1>4, CloseShape, Zenon DEF CloseLog
<1>7. Kept(m, acks)
  <2>1. DurableRecords(l.disk) \subseteq DurableRecords(m.disk)
    BY <1>4, <1>5, DurableGrows, Zenon DEF LogShape
  <2>2. acks \subseteq DurableRecords(m.disk)
    BY <1>4, <2>1, Zenon
  <2>3. IsSequence(ReadAll(l.disk))
    BY <1>4, ShapeIsDisk, ReadIsSequence, Zenon
  <2>4. ReadAll(m.disk) = ReadAll(l.disk)
    BY <1>5, <2>3, ConcatNothing, Zenon DEF Follows
  <2>5. QED
    BY <1>4, <1>5, <2>2, <2>4, Zenon DEF Kept
<1>8. Replays(nph, m, mem, flt)
  BY <1>2, <1>3, <1>4, <1>5, SameReplays, Zenon
<1>9. Memory' = mem /\ acked' = acks /\ faults' = flt
  BY <1>1, <1>3, Zenon DEF Memory
<1>10. QED
  BY <1>1, <1>2, <1>3, <1>6, <1>7, <1>8, <1>9, ZenonT(30) DEF EngineInvariant

\* shutdown() sets its flag.
LEMMA StoppingStep ==
  ASSUME EngineInvariant, ShutdownBegin
  PROVE  EngineInvariant'
<1>1. PICK l, mem, acks, flt, ph : l = log /\ mem = Memory /\ acks = acked /\ flt = faults /\ ph = phase
  BY Zenon
<1>2. /\ Kept(l, acks) /\ Remembered(mem) /\ Replays(ph, l, mem, flt) /\ readonly \in BOOLEAN
      /\ flt \subseteq {"crash", "refusal"} /\ calls \in 0..MaxCalls
  BY <1>1, Zenon DEF EngineInvariant
<1>3. ph # "down" /\ phase' = "stopping" /\ log' = l /\ acked' = acks /\ faults' = flt /\ Memory' = mem
      /\ UNCHANGED <<readonly, calls>>
  BY <1>1, Zenon DEF ShutdownBegin, Memory
<1>4. Replays("stopping", l, mem, flt)
  BY <1>2, <1>3, Zenon DEF Replays
<1>5. QED
  BY <1>2, <1>3, <1>4, Zenon DEF EngineInvariant

\* Engine::create takes its memory from the load, and its writer leaves the files as they are.
LEMMA StartStep ==
  ASSUME EngineInvariant, Start
  PROVE  EngineInvariant'
<1>1. PICK l, m, new, acks, flt, ph, mem : /\ l = log /\ m = log' /\ new = Memory' /\ acks = acked /\ flt = faults
                                           /\ ph = phase /\ mem = Memory
  BY Zenon
<1>2. /\ Kept(l, acks) /\ Replays(ph, l, mem, flt) /\ flt \subseteq {"crash", "refusal"} /\ calls \in 0..MaxCalls
  BY <1>1, Zenon DEF EngineInvariant
<1>3. l.file = 0
  BY <1>1, Zenon DEF EngineInvariant, Start
<1>4. LogShape(l) /\ PayloadsOK(ReadAll(l.disk))
  BY <1>2, Zenon DEF Kept
<1>5. PICK s, e : s = ReadAll(l.disk) /\ e = Replay(s)
  BY Zenon
<1>6. /\ Len(s) <= RecordCapacity /\ e.ok /\ new.catalog = e.catalog /\ new.clocks = e.clocks
      /\ new.fences = e.fences /\ new.records = e.records
  <2>1. /\ Len(s) <= RecordCapacity /\ Load(s).ok /\ new.catalog = Load(s).catalog /\ new.clocks = Load(s).clocks
        /\ new.fences = Load(s).fences /\ new.records = Load(s).records
    BY <1>1, <1>5, Zenon DEF Start, Loadable, Memory
  <2>2. IsSequence(s) /\ PayloadsOK(s)
    BY <1>4, <1>5, ShapeIsDisk, ReadIsSequence, Zenon
  <2>3. Load(s) = e
    BY <1>5, <2>1, <2>2, LoadIsReplay, Zenon
  <2>4. QED
    BY <2>1, <2>3, Zenon
<1>7. /\ m = NewLog(l.disk) /\ phase' = "up" /\ readonly' \in BOOLEAN
      /\ UNCHANGED <<acked, faults, calls>>
  BY <1>1, Zenon DEF Start
<1>8. IsSequence(s)
  BY <1>4, <1>5, ShapeIsDisk, ReadIsSequence, Zenon
<1>9. MemoryOK(Len(s), e)
  BY <1>4, <1>5, <1>8, ReplayOK, Zenon
<1>10. Remembered(new)
  <2>1. CatalogOK(e.catalog) /\ ClocksOK(e.clocks) /\ FencesOK(e.fences) /\ Measurements(e.records)
        /\ Len(e.records) <= Len(s)
    BY <1>9, Zenon DEF MemoryOK
  <2>2. PICK a, b : a = Len(e.records) /\ b = Len(s)
    BY Zenon
  <2>3. a \in Nat /\ b \in Nat /\ a <= b /\ b <= RecordCapacity
    BY <1>6, <1>8, <2>1, <2>2, SequenceFacts, ZenonT(30) DEF Measurements
  <2>4. a <= RecordCapacity
    BY <2>3, EngineAssumption
  <2>5. QED
    BY <1>6, <2>1, <2>2, <2>4, Zenon DEF Remembered
<1>11. LogShape(m) /\ m.disk = l.disk /\ m.file = 0
  <2>1. \A i \in 1..Len(l.disk) : i # 0
    BY <1>4, SequenceFacts DEF LogShape
  <2>2. IsSequence(l.disk) /\ \A i \in 1..Len(l.disk) : SegmentShape(l.disk[i])
    BY <1>4, Zenon DEF LogShape
  <2>3. \A i \in 1..Len(l.disk) : l.disk[i].durable = Len(l.disk[i].frames)
    BY <1>3, <1>4, <2>1, Zenon DEF LogShape
  <2>4. QED
    BY <1>7, <2>2, <2>3, NewShape, Zenon
<1>12. Kept(m, acks)
  BY <1>2, <1>11, Zenon DEF Kept, Intact
<1>13. Follows(l, m, <<>>)
  BY <1>3, <1>4, <1>11, SameFollows, Zenon
<1>14. Replays("up", m, new, flt)
  <2>1. Frozen(m) <=> Frozen(l)
    BY <1>13, Zenon DEF Follows
  <2>2. Mirrors(e, new)
    BY <1>6, Zenon DEF Mirrors
  <2>3. QED
    BY <1>2, <1>5, <1>6, <1>11, <2>1, <2>2, Zenon DEF Replays
<1>15. QED
  BY <1>1, <1>2, <1>7, <1>10, <1>11, <1>12, <1>14, ZenonT(30) DEF EngineInvariant

-----------------------------------------------------------------------------
(* The theorems.                                                            *)

\* An empty store has nothing to load, and the memory of an engine that has not started is
\* empty.
LEMMA InitInvariant ==
  ASSUME Init
  PROVE  EngineInvariant
<1>1. PICK l, mem : l = log /\ mem = Memory
  BY Zenon
<1>2. /\ l = NewLog(<<>>) /\ mem.catalog = EmptyCatalog /\ mem.clocks = NoClocks
      /\ mem.fences = EmptyMemory.fences /\ mem.records = <<>>
  BY <1>1, Zenon DEF Init, Memory
<1>3. IsSequence(<<>>) /\ Len(<<>>) = 0
  BY NoElements, Zenon
<1>4. \A i \in 1..0 : FALSE
  OBVIOUS
<1>5. LogShape(l) /\ l.disk = <<>> /\ l.file = 0
  BY <1>2, <1>3, <1>4, NewShape, ZenonT(30)
<1>6. ReadAll(l.disk) = <<>>
  <2>1. IsDisk(l.disk)
    BY <1>5, ShapeIsDisk, Zenon
  <2>2. SegmentsRead(l.disk) \in 0..Len(l.disk) /\ ReadAll(l.disk) = ReadUpTo(l.disk, SegmentsRead(l.disk))
    BY <2>1, ReadAllFacts, Zenon
  <2>3. SegmentsRead(l.disk) = 0
    BY <1>3, <1>5, <2>2
  <2>4. ReadUpTo(l.disk, 0) = <<>>
    BY <1>4, ReadUpToSteps, Zenon
  <2>5. QED
    BY <2>2, <2>3, <2>4, Zenon
<1>7. PICK e : e = Replay(<<>>)
  BY Zenon
<1>8. e = EmptyMemory
  BY <1>7, ReplayNothing, Zenon
<1>9. PayloadsOK(<<>>)
  BY <1>3, <1>4, Zenon DEF PayloadsOK
<1>10. MemoryOK(Len(<<>>), e)
  BY <1>3, <1>7, <1>9, ReplayOK, Zenon
<1>11. /\ e.ok /\ e.catalog = mem.catalog /\ e.clocks = mem.clocks /\ e.fences = mem.fences
       /\ e.records = mem.records
  BY <1>2, <1>8, Zenon DEF EmptyMemory
<1>12. Remembered(mem)
  <2>1. CatalogOK(mem.catalog) /\ ClocksOK(mem.clocks) /\ FencesOK(mem.fences) /\ Measurements(mem.records)
    BY <1>10, <1>11, Zenon DEF MemoryOK
  <2>2. Len(mem.records) <= RecordCapacity
    BY <1>2, <1>3, EngineAssumption
  <2>3. QED
    BY <2>1, <2>2, Zenon DEF Remembered
<1>13. Kept(l, {})
  BY <1>5, <1>6, <1>9, Zenon DEF Kept, Intact
<1>14. ~Frozen(l)
  BY <1>3, <1>4, <1>5, Zenon DEF Frozen
<1>15. Replays("down", l, mem, {})
  BY <1>6, <1>7, <1>11, <1>14, Zenon DEF Replays
<1>16. /\ phase \in {"down", "up", "stopping", "stopped"} /\ readonly \in BOOLEAN
       /\ faults \subseteq {"crash", "refusal"} /\ calls \in 0..MaxCalls
  <2>1. calls \in 0..MaxCalls /\ faults \subseteq {"crash", "refusal"}
    BY EngineAssumption DEF Init
  <2>2. readonly \in BOOLEAN /\ phase \in {"down", "up", "stopping", "stopped"}
    BY Zenon DEF Init
  <2>3. QED
    BY <2>1, <2>2, Zenon
<1>17. phase = "down" /\ faults = {} /\ acked = {}
  BY Zenon DEF Init
<1>18. QED
  BY <1>1, <1>5, <1>12, <1>13, <1>15, <1>16, <1>17, Zenon DEF EngineInvariant

\* Every call, every crash, and the start and the end of every run keep the invariant.
LEMMA InvariantStep ==
  ASSUME EngineInvariant, [Next]_vars
  PROVE  EngineInvariant'
<1>1. CASE UNCHANGED vars
  <2>1. PICK l, mem, acks, flt, ph : l = log /\ mem = Memory /\ acks = acked /\ flt = faults /\ ph = phase
    BY Zenon
  <2>2. log' = l /\ Memory' = mem /\ acked' = acks /\ faults' = flt /\ phase' = ph /\ readonly' = readonly
        /\ calls' = calls
    BY <1>1, <2>1, Zenon DEF vars, Memory
  <2>3. QED
    BY <2>1, <2>2, Zenon DEF EngineInvariant
<1>2. CASE Start
  BY <1>2, StartStep, Zenon
<1>3. CASE ShutdownBegin
  BY <1>3, StoppingStep, Zenon
<1>4. CASE ShutdownClose \/ Exit
  BY <1>4, CloseStep, Zenon
<1>5. CASE Crash
  BY <1>5, CrashStep
<1>6. ASSUME NEW def \in Definitions, DefineEntity(def) PROVE EngineInvariant'
  BY <1>6, DefineStep, Zenon
<1>7. ASSUME NEW domain \in ClockDomains, DefineClockDomain(domain) PROVE EngineInvariant'
  BY <1>7, DomainStep, ZenonT(30)
<1>8. ASSUME NEW sync \in Syncs, RecordClockSync(sync) PROVE EngineInvariant'
  BY <1>8, SyncStep
<1>9. ASSUME NEW batch \in Batches, Ingest(batch) PROVE EngineInvariant'
  BY <1>9, IngestStep, Zenon
<1>10. ASSUME NEW batch \in Batches, IngestCrash(batch) PROVE EngineInvariant'
  BY <1>10, IngestCrashStep, Zenon
<1>11. QED
  BY <1>1, <1>2, <1>3, <1>4, <1>5, <1>6, <1>7, <1>8, <1>9, <1>10, Zenon DEF Next

\* The engine's log and memory are in step in every state the engine reaches: the reader
\* finds only what the engine wrote, and a running engine that was never refused holds what a
\* replay of its log gives.
THEOREM EngineHolds == Spec => []EngineInvariant
<1>1. Init => EngineInvariant
  BY InitInvariant, Zenon
<1>2. EngineInvariant /\ [Next]_vars => EngineInvariant'
  BY InvariantStep, Zenon
<1>3. QED
  BY <1>1, <1>2, PTL DEF Spec

\* The members of the engine have their types, and the writer has a file open only while a
\* run may append.
THEOREM EngineTyped == Spec => []TypeOK
<1>1. ASSUME EngineInvariant PROVE TypeOK
  <2>1. PICK l, mem, acks : l = log /\ mem = Memory /\ acks = acked
    BY Zenon
  <2>2. LogShape(l) /\ acks \subseteq MeasurementRecords /\ Remembered(mem)
    BY <1>1, <2>1, Zenon DEF EngineInvariant, Kept
  <2>3. l.file \in 0..Len(l.disk)
    BY <2>2, SequenceFacts DEF LogShape
  <2>4. mem.catalog = catalog /\ mem.clocks = clocks /\ mem.fences = fences /\ mem.records = records
    BY <2>1, Zenon DEF Memory
  <2>5. \A k \in Kinds : Range(catalog[k]) \subseteq Definitions
    BY <2>2, <2>4, Zenon DEF Remembered, CatalogOK
  <2>6. Range(clocks.syncs) \subseteq Syncs
    BY <2>2, <2>4, Zenon DEF Remembered, ClocksOK
  <2>7. DOMAIN fences = Sources
    BY <2>2, <2>4, Zenon DEF Remembered, FencesOK
  <2>8. Len(records) <= RecordCapacity
    BY <2>2, <2>4, Zenon DEF Remembered
  <2>9. Range(records) \subseteq MeasurementRecords
    <3>1. Measurements(records)
      BY <2>2, <2>4, Zenon DEF Remembered
    <3>2. QED
      BY <3>1, SequenceFacts, Zenon DEF Measurements, Range
  <2>10. Range(records) \cup acked \subseteq MeasurementRecords
    BY <2>1, <2>2, <2>9, Zenon
  <2>11. phase \in {"down", "up", "stopping", "stopped"} /\ readonly \in BOOLEAN
         /\ faults \subseteq {"crash", "refusal"} /\ (phase \in {"down", "stopped"} => log.file = 0)
    BY <1>1, Zenon DEF EngineInvariant
  <2>12. QED
    BY <2>1, <2>3, <2>5, <2>6, <2>7, <2>8, <2>10, <2>11, Zenon DEF TypeOK, MeasurementRecords
<1>2. QED
  BY <1>1, EngineHolds, PTL

\* A measurement of a call that returned ok is durable from then on, through every crash,
\* shutdown and restart.
THEOREM AcknowledgedStayDurable == Spec => []AckedIsDurable
<1>1. EngineInvariant => AckedIsDurable
  BY Zenon DEF EngineInvariant, Kept, AckedIsDurable
<1>2. QED
  BY <1>1, EngineHolds, PTL

\* Until a persist() is refused, the registries accept every definition and every report that
\* load_store() finds and decodes, wherever a crash has cut the log.
THEOREM DefinitionsAlwaysLoad == Spec => []DefinitionsLoad
<1>1. ASSUME EngineInvariant, "refusal" \notin faults, NEW s, s = ReadAll(log.disk), Decodable(s)
      PROVE  Load(s).ok
  <2>1. IsSequence(s) /\ PayloadsOK(s) /\ Replay(s).ok
    BY <1>1, ShapeIsDisk, ReadIsSequence, Zenon DEF EngineInvariant, Kept, Replays
  <2>2. QED
    BY <1>1, <2>1, LoadIsReplay, Zenon
<1>2. EngineInvariant => DefinitionsLoad
  BY <1>1, Zenon DEF DefinitionsLoad
<1>3. QED
  BY <1>2, EngineHolds, PTL

\* Without a crash or a refusal, Engine::create fails on a log that decodes exactly when it
\* holds more records than max_total_samples, and what it loads is what the running engine
\* holds.
THEOREM RestartsAreFaithful == Spec => []RestartIsFaithful
<1>1. ASSUME EngineInvariant, faults = {}, phase # "down", NEW s, s = ReadAll(log.disk), Decodable(s)
      PROVE  /\ Loadable(s) <=> Len(s) <= RecordCapacity
             /\ Load(s).catalog = catalog /\ Load(s).clocks = clocks
             /\ Load(s).fences = fences /\ Load(s).records = records
  <2>1. PICK l, mem, flt, ph : l = log /\ mem = Memory /\ flt = faults /\ ph = phase
    BY Zenon
  <2>2. Replays(ph, l, mem, flt) /\ "crash" \notin flt /\ "refusal" \notin flt /\ ph # "down" /\ s = ReadAll(l.disk)
    BY <1>1, <2>1, Zenon DEF EngineInvariant
  <2>3. Mirrors(Replay(s), mem)
    BY <2>2, Zenon DEF Replays
  <2>4. IsSequence(s) /\ PayloadsOK(s)
    BY <1>1, ShapeIsDisk, ReadIsSequence, Zenon DEF EngineInvariant, Kept
  <2>5. Load(s) = Replay(s)
    BY <1>1, <2>4, LoadIsReplay, Zenon
  <2>6. mem.catalog = catalog /\ mem.clocks = clocks /\ mem.fences = fences /\ mem.records = records
    BY <2>1, Zenon DEF Memory
  <2>7. QED
    BY <2>3, <2>5, <2>6, Zenon DEF Mirrors, Loadable
<1>2. EngineInvariant => RestartIsFaithful
  BY <1>1, Zenon DEF RestartIsFaithful
<1>3. QED
  BY <1>2, EngineHolds, PTL
=============================================================================
