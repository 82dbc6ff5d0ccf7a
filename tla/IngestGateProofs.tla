-------------------------- MODULE IngestGateProofs --------------------------
(***************************************************************************)
(* Invariance proofs about IngestGate, for every set of sources and        *)
(* sessions, every table and window size, and any number of records.       *)
(***************************************************************************)
EXTENDS IngestGate, FiniteSetTheorems, WellFoundedInduction, TLAPS

\* A replay window: no repetition, at most ReplayWindow long, nothing above the last sequence.
WindowOK(state) ==
  LET w == state.recent IN
    /\ Len(w) <= ReplayWindow
    /\ \A i, j \in 1..Len(w) : w[i] = w[j] => i = j
    /\ \A i \in 1..Len(w) : w[i] <= state.last

\* A session state between two calls, or one that was just opened.
StateOK(state) ==
  /\ state \in SessionState
  /\ WindowOK(state)
  /\ ~state.has_last => state.recent = <<>>

\* Ordinals are handed out once.
DistinctOrdinals(sessions) ==
  \A k, j \in DOMAIN sessions : sessions[k].ordinal = sessions[j].ordinal => k = j

\* The fence of a source: its shape, and the well-formedness that is inductive with it.
FenceOK(f) ==
  /\ f = [next_ordinal |-> f.next_ordinal, sessions |-> f.sessions,
          current |-> f.current, current_ordinal |-> f.current_ordinal]
  /\ f.next_ordinal \in Nat \ {0}
  /\ f.current_ordinal = f.next_ordinal - 1
  /\ f.current \in Sessions \cup {NoSession}
  /\ IsFiniteSet(DOMAIN f.sessions) /\ DOMAIN f.sessions \subseteq Sessions
  /\ Cardinality(DOMAIN f.sessions) <= MaxSessions
  /\ f.sessions = [k \in DOMAIN f.sessions |-> f.sessions[k]]
  /\ \A k \in DOMAIN f.sessions : /\ StateOK(f.sessions[k])
                                  /\ f.sessions[k].ordinal <= f.current_ordinal
  /\ DistinctOrdinals(f.sessions)
  /\ f.current = NoSession <=> f.current_ordinal = 0
  /\ f.current # NoSession => /\ f.current \in DOMAIN f.sessions
                              /\ f.sessions[f.current].ordinal = f.current_ordinal

\* Every remembered session has accepted something.
AllStarted(f) == \A k \in DOMAIN f.sessions : f.sessions[k].has_last

\* A session that fewer than MaxSessions newer ones have followed is remembered.
SessionKept(f, e) ==
  f.current_ordinal - e.ordinal < MaxSessions =>
    e.session \in DOMAIN f.sessions /\ f.sessions[e.session].ordinal = e.ordinal

\* What went through the fence is not newer than what the fence remembers.
PassedCovered(f, e) ==
  /\ e.ordinal <= f.current_ordinal
  /\ \A k \in DOMAIN f.sessions : f.sessions[k].ordinal = e.ordinal => e.seq <= f.sessions[k].last

IInv ==
  /\ TypeOK
  /\ fences = [s \in Sources |-> fences[s]]
  /\ \A s \in Sources : FenceOK(fences[s]) /\ AllStarted(fences[s])
  /\ \A e \in passed : PassedCovered(fences[e.source], e) /\ SessionKept(fences[e.source], e)

-----------------------------------------------------------------------------
(* The replay window.                                                       *)

\* recent_order.push_back(), with pop_front() when the window is full: one new sequence
\* comes in, at most the oldest leaves, and the limit is kept.
LEMMA RememberFacts ==
  ASSUME NEW w \in Seq(Nat), NEW q \in Nat, Len(w) <= ReplayWindow,
         \A i, j \in 1..Len(w) : w[i] = w[j] => i = j,
         q \notin Elements(w)
  PROVE  LET v == Remember(w, q) IN
         /\ v \in Seq(Nat) /\ Len(v) <= ReplayWindow
         /\ \A i \in 1..Len(v) : v[i] = q \/ \E k \in 1..Len(w) : v[i] = w[k]
         /\ \A i, j \in 1..Len(v) : v[i] = v[j] => i = j
<1> USE FenceAssumption
<1>1. \A k \in 1..Len(w) : w[k] # q
  BY Zenon DEF Elements
<1>2. CASE Len(w) < ReplayWindow
  <2>1. Remember(w, q) = Append(w, q)
    BY <1>2, Zenon DEF Remember
  <2>2. /\ Append(w, q) \in Seq(Nat) /\ Len(Append(w, q)) = Len(w) + 1 /\ Len(w) \in Nat
        /\ \A i \in 1..Len(w) : Append(w, q)[i] = w[i]
        /\ Append(w, q)[Len(w) + 1] = q
    OBVIOUS
  <2>3. QED
    BY <1>1, <1>2, <2>1, <2>2
<1>3. CASE ~(Len(w) < ReplayWindow)
  <2>1. Remember(w, q) = Append(Tail(w), q) /\ Len(w) = ReplayWindow /\ w # <<>>
    BY <1>3 DEF Remember
  <2> DEFINE t == Tail(w)
  <2>2. /\ t \in Seq(Nat) /\ Len(w) \in Nat /\ Len(t) = Len(w) - 1
        /\ \A i \in 1..Len(t) : t[i] = w[i + 1]
    BY <2>1
  <2> DEFINE v == Append(t, q)
             n == Len(w)
  <2>3. /\ v \in Seq(Nat) /\ Len(v) = n /\ n \in Nat
        /\ \A i \in 1..(n - 1) : v[i] = w[i + 1] /\ i + 1 \in 1..n
        /\ v[n] = q
    BY <2>1, <2>2
  <2>4. \A i, j \in 1..n : w[i] = w[j] => i = j
    BY Zenon
  <2>5. \A k \in 1..n : w[k] # q
    BY <1>1, Zenon
  <2>6. Remember(w, q) = v /\ n = ReplayWindow
    BY <2>1, Zenon
  <2> HIDE DEF t, v, n
  <2>7. \A i, j \in 1..n : v[i] = v[j] => i = j
    <3>1. SUFFICES ASSUME NEW i \in 1..n, NEW j \in 1..n, v[i] = v[j]
                   PROVE  i = j
      BY Zenon
    <3>2. \A k \in 1..n : k = n \/ k \in 1..(n - 1)
      BY <2>3
    <3>3. \A k \in 1..(n - 1) : v[k] # q
      BY <2>3, <2>5, Zenon
    <3>4. CASE i \in 1..(n - 1) /\ j \in 1..(n - 1)
      <4>1. w[i + 1] = w[j + 1] /\ i + 1 \in 1..n /\ j + 1 \in 1..n
        BY <2>3, <3>1, <3>4, Zenon
      <4>2. i + 1 = j + 1
        BY <2>4, <4>1, Zenon
      <4>3. QED
        BY <3>4, <4>2
    <3>5. QED
      BY <2>3, <3>1, <3>2, <3>3, <3>4, Zenon
  <2>8. \A i \in 1..n : v[i] = q \/ \E k \in 1..n : v[i] = w[k]
    BY <2>3
  <2>9. QED
    BY <2>3, <2>6, <2>7, <2>8 DEF n
<1>4. QED
  BY <1>2, <1>3, Zenon

\* A sequence that is no replay: the session has started, remembers it as covered by its
\* last sequence, and its last sequence has not moved back.
LEMMA AdvanceFacts ==
  ASSUME NEW state, StateOK(state), NEW r \in Records, ~IsReplay(state, r.seq)
  PROVE  LET next == Advance(state, r) IN
         /\ StateOK(next) /\ next.has_last
         /\ next.ordinal = state.ordinal
         /\ r.seq <= next.last
         /\ state.has_last => state.last <= next.last
<1> USE GateAssumption
<1> DEFINE last == IF ~state.has_last \/ r.seq > state.last THEN r.seq ELSE state.last
           w == Remember(state.recent, r.seq)
<1>1. /\ state \in SessionState /\ state.recent \in Seq(Nat) /\ state.last \in Nat
      /\ state.has_last \in BOOLEAN /\ r.seq \in Nat
  BY Zenon DEF StateOK, SessionState, Records
<1>2. r.seq \notin Elements(state.recent)
  <2>1. CASE ~state.has_last
    BY <2>1 DEF StateOK, Elements
  <2>2. CASE state.has_last
    BY <1>1, <2>2, Zenon DEF StateOK, WindowOK, Elements, IsReplay
  <2>3. QED
    BY <1>1, <2>1, <2>2, Zenon
<1>3. /\ w \in Seq(Nat) /\ Len(w) <= ReplayWindow
      /\ \A i \in 1..Len(w) : w[i] = r.seq \/ \E k \in 1..Len(state.recent) : w[i] = state.recent[k]
      /\ \A i, j \in 1..Len(w) : w[i] = w[j] => i = j
  BY <1>1, <1>2, RememberFacts, Zenon DEF StateOK, WindowOK
<1>4. last \in Nat /\ r.seq <= last /\ (state.has_last => state.last <= last)
  BY <1>1
<1>5. \A i \in 1..Len(w) : w[i] <= last
  <2>1. \A k \in 1..Len(state.recent) : state.recent[k] \in Nat /\ state.recent[k] <= last
    <3>1. CASE state.has_last
      BY <1>1, <1>4, <3>1 DEF StateOK, WindowOK
    <3>2. CASE ~state.has_last
      BY <3>2 DEF StateOK
    <3>3. QED
      BY <1>1, <3>1, <3>2, Zenon
  <2> HIDE DEF last, w
  <2>2. QED
    BY <1>3, <1>4, <2>1, Zenon
<1>6. Advance(state, r) = [state EXCEPT !.has_last = TRUE, !.last = last, !.recent = w]
  BY Zenon DEF Advance
<1> HIDE DEF last, w
<1> DEFINE next == [state EXCEPT !.has_last = TRUE, !.last = last, !.recent = w]
<1>7. /\ next \in SessionState
      /\ next.ordinal = state.ordinal /\ next.has_last = TRUE
      /\ next.last = last /\ next.recent = w
  BY <1>1, <1>3, <1>4, Zenon DEF SessionState
<1> HIDE DEF next
<1>8. StateOK(next)
  BY <1>3, <1>5, <1>7 DEF StateOK, WindowOK
<1>9. QED
  BY <1>1, <1>4, <1>6, <1>7, <1>8, Zenon DEF next

-----------------------------------------------------------------------------
(* Opening a session.                                                       *)

\* The eviction loop leaves at most max_sessions_per_source sessions, and never removes
\* one that no other session is newer than.
LEMMA SurvivorFacts ==
  ASSUME NEW t, IsFiniteSet(DOMAIN t),
         \A k \in DOMAIN t : t[k].ordinal \in Nat,
         DistinctOrdinals(t)
  PROVE  /\ IsFiniteSet(Survivors(t)) /\ Survivors(t) \subseteq DOMAIN t
         /\ Cardinality(Survivors(t)) <= MaxSessions
         /\ \A k \in DOMAIN t : (\A j \in DOMAIN t : t[j].ordinal <= t[k].ordinal) => k \in Survivors(t)
<1> USE FenceAssumption
<1> DEFINE S == Survivors(t)
           Newer(k) == {j \in DOMAIN t : t[j].ordinal > t[k].ordinal}
<1>1. S = {k \in DOMAIN t : Cardinality(Newer(k)) < MaxSessions}
  BY Zenon DEF Survivors
<1>2. IsFiniteSet(S) /\ S \subseteq DOMAIN t /\ Cardinality(S) \in Nat
  BY <1>1, FS_Subset, FS_CardinalityType, Zenon
<1>3. ASSUME NEW k \in DOMAIN t, \A j \in DOMAIN t : t[j].ordinal <= t[k].ordinal
      PROVE  k \in S
  <2>1. Newer(k) = {}
    BY <1>3
  <2>2. QED
    BY <1>1, <2>1, FS_EmptySet
<1>4. CASE S = {}
  BY <1>2, <1>3, <1>4, FS_EmptySet
<1>5. CASE S # {}
  <2> DEFINE O == {t[k].ordinal : k \in S}
  <2>1. O \subseteq Nat /\ O # {}
    BY <1>2, <1>5, Zenon
  <2>2. PICK m \in O : \A y \in O : ~(<<y, m>> \in OpToRel(<, Nat))
    BY <2>1, NatLessThanWellFounded, WFMin, Zenon
  <2>3. \A y \in O : ~(y < m)
    BY <2>1, <2>2, Zenon DEF OpToRel
  <2>4. PICK k \in S : t[k].ordinal = m
    BY <2>2, Zenon
  <2>5. S \ {k} \subseteq Newer(k)
    <3>1. SUFFICES ASSUME NEW j \in S, j # k PROVE t[j].ordinal > t[k].ordinal
      BY <1>2, Zenon
    <3>2. t[j].ordinal # t[k].ordinal /\ t[j].ordinal \in Nat /\ t[k].ordinal \in Nat
      BY <1>2, <3>1, Zenon DEF DistinctOrdinals
    <3>3. ~(t[j].ordinal < t[k].ordinal)
      BY <2>3, <2>4, Zenon
    <3>4. QED
      BY <3>2, <3>3
  <2>6. IsFiniteSet(Newer(k)) /\ Cardinality(Newer(k)) \in Nat
    BY FS_Subset, FS_CardinalityType, Zenon
  <2>7. Cardinality(S \ {k}) = Cardinality(S) - 1
    BY <1>2, FS_RemoveElement, Zenon
  <2>8. Cardinality(S \ {k}) <= Cardinality(Newer(k))
    BY <2>5, <2>6, FS_Subset, Zenon
  <2>9. Cardinality(Newer(k)) < MaxSessions
    BY <1>1, Zenon
  <2> HIDE DEF S, Newer
  <2>10. Cardinality(S) <= MaxSessions
    BY <1>2, <2>6, <2>7, <2>8, <2>9
  <2>11. QED
    BY <1>2, <1>3, <2>10, Zenon DEF S
<1>6. QED
  BY <1>4, <1>5, Zenon

\* Nor does it remove one that fewer than max_sessions_per_source ordinals separate from
\* the newest.
LEMMA YoungSurvive ==
  ASSUME NEW t, IsFiniteSet(DOMAIN t), NEW n \in Nat,
         \A k \in DOMAIN t : t[k].ordinal \in Nat /\ t[k].ordinal <= n,
         DistinctOrdinals(t),
         NEW k \in DOMAIN t, n - t[k].ordinal < MaxSessions
  PROVE  k \in Survivors(t)
<1> DEFINE o == t[k].ordinal
           Newer == {j \in DOMAIN t : t[j].ordinal > o}
           I == (o + 1)..n
           f == [j \in Newer |-> t[j].ordinal]
<1>1. o \in Nat /\ o <= n
  BY Zenon
<1>2. \A j \in Newer : t[j].ordinal \in I
  BY <1>1
<1>3. IsFiniteSet(Newer) /\ Cardinality(Newer) \in Nat
  BY FS_Subset, FS_CardinalityType, Zenon
<1> HIDE DEF o
<1>4. IsFiniteSet(I) /\ Cardinality(I) = n - o
  <2>1. o + 1 \in Int /\ n \in Int
    BY <1>1
  <2>2. IsFiniteSet(I) /\ Cardinality(I) = IF o + 1 > n THEN 0 ELSE n - (o + 1) + 1
    BY <2>1, FS_Interval, Zenon
  <2> HIDE DEF I
  <2>3. QED
    BY <1>1, <2>2
<1>5. f \in Injection(Newer, I)
  <2>1. f \in [Newer -> I]
    BY <1>2, Zenon
  <2>2. \A i, j \in Newer : f[i] = f[j] => i = j
    BY Zenon DEF DistinctOrdinals
  <2> HIDE DEF f, Newer, I
  <2>3. QED
    BY <2>1, <2>2, Zenon DEF Injection, IsInjective
<1> HIDE DEF Newer, I, f
<1>6. Cardinality(Newer) <= Cardinality(I)
  BY <1>4, <1>5, FS_Injection, Zenon
<1>7. n - o < MaxSessions
  BY Zenon DEF o
<1>8. Cardinality(Newer) < MaxSessions
  BY <1>1, <1>3, <1>4, <1>6, <1>7, FenceAssumption
<1>9. QED
  BY <1>8, Zenon DEF Survivors, Newer, o

\* A session that is opened is the current one and the newest; the sessions kept besides
\* it are as they were, and the table is well formed again.
LEMMA OpenFacts ==
  ASSUME NEW f, FenceOK(f), NEW r \in Records, r.session \notin DOMAIN f.sessions
  PROVE  LET g == OpenSession(f, r) IN
         /\ FenceOK(g)
         /\ r.session \in DOMAIN g.sessions
         /\ g.current_ordinal = f.current_ordinal + 1
         /\ g.sessions[r.session].ordinal = g.current_ordinal
         /\ ~g.sessions[r.session].has_last
         /\ \A k \in DOMAIN g.sessions \ {r.session} :
              k \in DOMAIN f.sessions /\ g.sessions[k] = f.sessions[k]
         /\ \A k \in DOMAIN f.sessions :
              g.current_ordinal - f.sessions[k].ordinal < MaxSessions =>
                k \in DOMAIN g.sessions /\ g.sessions[k] = f.sessions[k]
<1> USE FenceAssumption, GateAssumption
<1> DEFINE opened == [ordinal |-> f.next_ordinal, source_revision |-> r.rev,
                      has_last |-> FALSE, last |-> 0, recent |-> <<>>]
           all == [k \in DOMAIN f.sessions \cup {r.session} |->
                     IF k = r.session THEN opened ELSE f.sessions[k]]
           g == OpenSession(f, r)
<1>1. g = [next_ordinal |-> f.next_ordinal + 1, sessions |-> [k \in Survivors(all) |-> all[k]],
           current |-> r.session, current_ordinal |-> f.next_ordinal]
  BY Zenon DEF OpenSession
<1>2. r.session \in Sessions /\ r.rev \in Nat /\ r.session # NoSession
  BY DEF Records
<1>3. /\ StateOK(opened) /\ opened.ordinal = f.next_ordinal /\ ~opened.has_last
  <2>1. opened \in SessionState
    BY <1>2 DEF SessionState, FenceOK
  <2>2. WindowOK(opened)
    BY DEF WindowOK
  <2>3. QED
    BY <2>1, <2>2, Zenon DEF StateOK
<1> HIDE DEF opened
<1>4. DOMAIN all = DOMAIN f.sessions \cup {r.session} /\ IsFiniteSet(DOMAIN all)
  BY FS_AddElement, Zenon DEF FenceOK
<1>5. /\ all[r.session] = opened
      /\ \A k \in DOMAIN f.sessions : all[k] = f.sessions[k]
  BY Zenon
<1> HIDE DEF all
<1>6. \A k \in DOMAIN f.sessions : /\ StateOK(f.sessions[k]) /\ f.sessions[k].ordinal \in Nat
                                   /\ f.sessions[k].ordinal < f.next_ordinal
  BY DEF FenceOK, StateOK, SessionState
<1>7. f.next_ordinal \in Nat \ {0} /\ f.current_ordinal = f.next_ordinal - 1
  BY Zenon DEF FenceOK
<1>8. \A k \in DOMAIN all : /\ StateOK(all[k]) /\ all[k].ordinal \in Nat
                            /\ all[k].ordinal <= f.next_ordinal
  BY <1>3, <1>4, <1>5, <1>6, <1>7
<1>9. DistinctOrdinals(all)
  BY <1>3, <1>4, <1>5, <1>6, <1>7 DEF FenceOK, DistinctOrdinals
<1>10. /\ IsFiniteSet(Survivors(all)) /\ Survivors(all) \subseteq DOMAIN all
       /\ Cardinality(Survivors(all)) <= MaxSessions
       /\ r.session \in Survivors(all)
  BY <1>3, <1>4, <1>5, <1>8, <1>9, SurvivorFacts, Zenon
<1>11. /\ g.next_ordinal = f.next_ordinal + 1 /\ g.current = r.session
       /\ g.current_ordinal = f.next_ordinal
       /\ g.sessions = [k \in Survivors(all) |-> all[k]]
       /\ DOMAIN g.sessions = Survivors(all)
       /\ \A k \in Survivors(all) : g.sessions[k] = all[k]
       /\ g = [next_ordinal |-> g.next_ordinal, sessions |-> g.sessions,
               current |-> g.current, current_ordinal |-> g.current_ordinal]
  BY <1>1
<1> HIDE DEF g
<1>12. DistinctOrdinals(g.sessions)
  BY <1>9, <1>10, <1>11, Zenon DEF DistinctOrdinals
<1>13. DOMAIN g.sessions \subseteq Sessions
  BY <1>2, <1>4, <1>10, <1>11, Zenon DEF FenceOK
<1>14. g.sessions[r.session].ordinal = g.current_ordinal
  BY <1>3, <1>5, <1>10, <1>11, Zenon
<1>15. FenceOK(g)
  BY <1>2, <1>7, <1>8, <1>10, <1>11, <1>12, <1>13, <1>14 DEF FenceOK
<1>16. ASSUME NEW k \in DOMAIN f.sessions, g.current_ordinal - f.sessions[k].ordinal < MaxSessions
       PROVE  k \in DOMAIN g.sessions /\ g.sessions[k] = f.sessions[k]
  <2>1. k \in DOMAIN all /\ all[k] = f.sessions[k] /\ f.next_ordinal \in Nat
    BY <1>4, <1>5, <1>7, Zenon
  <2>2. f.next_ordinal - all[k].ordinal < MaxSessions
    BY <1>11, <1>16, <2>1, Zenon
  <2>3. k \in Survivors(all)
    BY <1>4, <1>8, <1>9, <2>1, <2>2, YoungSurvive, Zenon
  <2>4. QED
    BY <1>11, <2>1, <2>3, Zenon
<1>17. QED
  BY <1>3, <1>4, <1>5, <1>7, <1>10, <1>11, <1>14, <1>15, <1>16 DEF g

-----------------------------------------------------------------------------
(* The session fence.                                                       *)

\* Replacing the state of one remembered session by one with the same ordinal keeps the
\* table well formed.
LEMMA ReplaceFacts ==
  ASSUME NEW f, FenceOK(f), NEW k \in DOMAIN f.sessions, NEW state,
         StateOK(state), state.ordinal = f.sessions[k].ordinal
  PROVE  LET g == [f EXCEPT !.sessions[k] = state] IN
         /\ FenceOK(g)
         /\ g.current_ordinal = f.current_ordinal
         /\ DOMAIN g.sessions = DOMAIN f.sessions
         /\ g.sessions[k] = state
         /\ \A j \in DOMAIN f.sessions \ {k} : g.sessions[j] = f.sessions[j]
<1> DEFINE g == [f EXCEPT !.sessions[k] = state]
<1>1. /\ f = [next_ordinal |-> f.next_ordinal, sessions |-> f.sessions,
              current |-> f.current, current_ordinal |-> f.current_ordinal]
      /\ f.sessions = [j \in DOMAIN f.sessions |-> f.sessions[j]]
  BY Zenon DEF FenceOK
<1>2. /\ g = [next_ordinal |-> g.next_ordinal, sessions |-> g.sessions,
              current |-> g.current, current_ordinal |-> g.current_ordinal]
      /\ g.next_ordinal = f.next_ordinal /\ g.current = f.current
      /\ g.current_ordinal = f.current_ordinal
      /\ g.sessions = [f.sessions EXCEPT ![k] = state]
  BY <1>1
<1> HIDE DEF g
<1>3. /\ DOMAIN g.sessions = DOMAIN f.sessions
      /\ g.sessions = [j \in DOMAIN g.sessions |-> g.sessions[j]]
      /\ g.sessions[k] = state
      /\ \A j \in DOMAIN f.sessions \ {k} : g.sessions[j] = f.sessions[j]
  BY <1>1, <1>2, Zenon
<1>4. \A j \in DOMAIN f.sessions : g.sessions[j].ordinal = f.sessions[j].ordinal
  BY <1>3, Zenon
<1>5. DistinctOrdinals(g.sessions)
  BY <1>3, <1>4, Zenon DEF DistinctOrdinals, FenceOK
<1>6. \A j \in DOMAIN g.sessions : StateOK(g.sessions[j]) /\ g.sessions[j].ordinal <= g.current_ordinal
  BY <1>2, <1>3, <1>4, Zenon DEF FenceOK
<1>7. g.current # NoSession => /\ g.current \in DOMAIN g.sessions
                               /\ g.sessions[g.current].ordinal = g.current_ordinal
  BY <1>2, <1>3, <1>4, ZenonT(30) DEF FenceOK
<1>8. FenceOK(g)
  BY <1>2, <1>3, <1>5, <1>6, <1>7, Zenon DEF FenceOK
<1>9. QED
  BY <1>2, <1>3, <1>8, Zenon DEF g

\* The fence after the record's session was found or opened.
Base(f, r) == IF r.session \in DOMAIN f.sessions THEN f ELSE OpenSession(f, r)

\* Either the session was remembered and has accepted something, or it is newer than
\* every other one and has not.
LEMMA BaseFacts ==
  ASSUME NEW f, FenceOK(f), AllStarted(f), NEW r \in Records
  PROVE  LET base == Base(f, r)
             state == base.sessions[r.session]
         IN  /\ FenceOK(base) /\ r.session \in DOMAIN base.sessions
             /\ f.current_ordinal <= base.current_ordinal
             /\ \A k \in DOMAIN base.sessions \ {r.session} :
                  k \in DOMAIN f.sessions /\ base.sessions[k] = f.sessions[k]
             /\ \A k \in DOMAIN f.sessions :
                  base.current_ordinal - f.sessions[k].ordinal < MaxSessions =>
                    k \in DOMAIN base.sessions /\ base.sessions[k] = f.sessions[k]
             /\ \/ /\ r.session \in DOMAIN f.sessions /\ state = f.sessions[r.session]
                   /\ state.has_last
                \/ state.ordinal > f.current_ordinal /\ ~state.has_last
<1>1. f.current_ordinal \in Nat
  BY DEF FenceOK
<1>2. CASE r.session \in DOMAIN f.sessions
  BY <1>1, <1>2 DEF Base, AllStarted
<1>3. CASE r.session \notin DOMAIN f.sessions
  BY <1>1, <1>3, OpenFacts DEF Base
<1>4. QED
  BY <1>2, <1>3, Zenon

\* apply_session_fence(): the table is well formed again, the record's session is in it,
\* covers the record's sequence unless it is a replay, and everything that was covered is
\* covered still, whichever sessions were evicted.
LEMMA FenceStep ==
  ASSUME NEW f, FenceOK(f), AllStarted(f), NEW r \in Records, NEW v
  PROVE  LET a == ApplySessionFence(f, r, v)
             g == a.fence
         IN  /\ FenceOK(g) /\ AllStarted(g)
             /\ a.ordinal \in Nat \ {0} /\ a.ordinal <= g.current_ordinal
             /\ r.session \in DOMAIN g.sessions /\ g.sessions[r.session].ordinal = a.ordinal
             /\ ~a.replayed => r.seq <= g.sessions[r.session].last
             /\ \A e : e.ordinal \in Nat /\ e.seq \in Nat /\ PassedCovered(f, e) => PassedCovered(g, e)
             /\ \A e : e.ordinal \in Nat /\ SessionKept(f, e) => SessionKept(g, e)
<1> USE GateAssumption
<1> DEFINE base == Base(f, r)
           state == base.sessions[r.session]
           raised == [state EXCEPT !.source_revision = IF r.rev > @ THEN r.rev ELSE @]
           replayed == IsReplay(state, r.seq)
           next == IF replayed THEN raised ELSE Advance(raised, r)
           a == ApplySessionFence(f, r, v)
           g == a.fence
<1>1. /\ g = [base EXCEPT !.sessions[r.session] = next]
      /\ a.ordinal = state.ordinal /\ a.replayed = replayed
  BY Zenon DEF ApplySessionFence, Base
<1>2. f.current_ordinal \in Nat /\ r.rev \in Nat /\ r.seq \in Nat
  BY DEF FenceOK, Records
<1>3. /\ FenceOK(base) /\ r.session \in DOMAIN base.sessions
      /\ f.current_ordinal <= base.current_ordinal
      /\ \A k \in DOMAIN base.sessions \ {r.session} :
           k \in DOMAIN f.sessions /\ base.sessions[k] = f.sessions[k]
      /\ \A k \in DOMAIN f.sessions :
           base.current_ordinal - f.sessions[k].ordinal < MaxSessions =>
             k \in DOMAIN base.sessions /\ base.sessions[k] = f.sessions[k]
      /\ \/ /\ r.session \in DOMAIN f.sessions /\ state = f.sessions[r.session]
            /\ state.has_last
         \/ state.ordinal > f.current_ordinal /\ ~state.has_last
  BY BaseFacts, Zenon
<1> HIDE DEF base
<1>4. StateOK(state) /\ state.ordinal <= base.current_ordinal /\ base.current_ordinal \in Nat
  BY <1>3 DEF FenceOK
<1> HIDE DEF state
<1>5. /\ StateOK(raised) /\ raised.ordinal = state.ordinal /\ raised.last = state.last
      /\ raised.has_last = state.has_last /\ raised.recent = state.recent
  <2>1. /\ raised \in SessionState /\ raised.ordinal = state.ordinal /\ raised.last = state.last
        /\ raised.has_last = state.has_last /\ raised.recent = state.recent
    BY <1>2, <1>4, Zenon DEF StateOK, SessionState
  <2>2. QED
    BY <1>4, <2>1, Zenon DEF StateOK, WindowOK
<1> HIDE DEF raised
<1>6. IsReplay(raised, r.seq) = replayed /\ (replayed => state.has_last)
  BY <1>5, Zenon DEF IsReplay
<1>7. /\ StateOK(next) /\ next.has_last /\ next.ordinal = state.ordinal
      /\ ~replayed => r.seq <= next.last
      /\ state.has_last => state.last <= next.last
  <2>1. state.last \in Nat
    BY <1>4, Zenon DEF StateOK, SessionState
  <2>2. CASE replayed
    BY <1>5, <1>6, <2>1, <2>2
  <2>3. CASE ~replayed
    BY <1>5, <1>6, <2>3, AdvanceFacts, Zenon
  <2>4. QED
    BY <2>2, <2>3, Zenon
<1> HIDE DEF next, g, replayed
<1>8. /\ FenceOK(g) /\ g.current_ordinal = base.current_ordinal
      /\ DOMAIN g.sessions = DOMAIN base.sessions
      /\ g.sessions[r.session] = next
      /\ \A j \in DOMAIN base.sessions \ {r.session} : g.sessions[j] = base.sessions[j]
  BY <1>1, <1>3, <1>7, ReplaceFacts DEF state
<1>9. AllStarted(g)
  BY <1>3, <1>7, <1>8, Zenon DEF AllStarted
<1>10. state.ordinal \in Nat \ {0}
  BY <1>4, Zenon DEF StateOK, SessionState
<1>11. ASSUME NEW e, e.ordinal \in Nat, e.seq \in Nat, PassedCovered(f, e) PROVE PassedCovered(g, e)
  <2>1. e.ordinal <= g.current_ordinal
    BY <1>2, <1>3, <1>4, <1>8, <1>11 DEF PassedCovered
  <2>2. ASSUME NEW k \in DOMAIN g.sessions, g.sessions[k].ordinal = e.ordinal
        PROVE  e.seq <= g.sessions[k].last
    <3>1. CASE k # r.session
      BY <1>3, <1>8, <1>11, <2>2, <3>1, Zenon DEF PassedCovered
    <3>2. CASE k = r.session
      <4>1. next.ordinal = e.ordinal /\ next.last \in Nat /\ state.last \in Nat
        BY <1>4, <1>7, <1>8, <2>2, <3>2, Zenon DEF StateOK, SessionState
      <4>2. e.ordinal <= f.current_ordinal
        BY <1>11, Zenon DEF PassedCovered
      <4>3. r.session \in DOMAIN f.sessions /\ state = f.sessions[r.session] /\ state.has_last
        BY <1>2, <1>3, <1>7, <1>10, <1>11, <4>1, <4>2
      <4>4. e.seq <= state.last
        BY <1>7, <1>11, <4>1, <4>3, Zenon DEF PassedCovered
      <4>5. QED
        BY <1>7, <1>8, <1>11, <3>2, <4>1, <4>3, <4>4
    <3>3. QED
      BY <3>1, <3>2, Zenon
  <2>3. QED
    BY <2>1, <2>2, Zenon DEF PassedCovered
<1>12. ASSUME NEW e, e.ordinal \in Nat, SessionKept(f, e) PROVE SessionKept(g, e)
  <2>1. SUFFICES ASSUME g.current_ordinal - e.ordinal < MaxSessions
                 PROVE  e.session \in DOMAIN g.sessions /\ g.sessions[e.session].ordinal = e.ordinal
    BY Zenon DEF SessionKept
  <2>2. f.current_ordinal - e.ordinal < MaxSessions
    BY <1>2, <1>3, <1>4, <1>8, <1>12, <2>1, FenceAssumption
  <2>3. e.session \in DOMAIN f.sessions /\ f.sessions[e.session].ordinal = e.ordinal
    BY <1>12, <2>2, Zenon DEF SessionKept
  <2>4. /\ e.session \in DOMAIN base.sessions
        /\ base.sessions[e.session] = f.sessions[e.session]
    BY <1>3, <1>8, <2>1, <2>3, Zenon
  <2>5. g.sessions[e.session].ordinal = base.sessions[e.session].ordinal
    BY <1>7, <1>8, <2>4, Zenon DEF state
  <2>6. QED
    BY <1>8, <2>3, <2>4, <2>5, Zenon
<1>13. QED
  BY <1>1, <1>3, <1>4, <1>7, <1>8, <1>9, <1>10, <1>11, <1>12, Zenon DEF g

-----------------------------------------------------------------------------
(* The gate.                                                                *)

\* classify() beyond the first checks: the fence, the ordinal and the replay are those of
\* the session fence, and a verdict of current survives every fence after it.
LEMMA ClassifyFacts ==
  ASSUME NEW f, NEW n, NEW r \in Records, n # 0, r.sound
  PROVE  LET v == IF r.bound THEN "current" ELSE "historical"
             a == ApplySessionFence(f, r, v)
             d == Classify(f, n, r)
         IN  /\ d.fence = a.fence /\ d.ordinal = a.ordinal /\ d.replayed = a.replayed
             /\ d.verdict = "current" => a.verdict = "current"
<1> DEFINE a == ApplySessionFence(f, r, IF r.bound THEN "current" ELSE "historical")
           revised == RevisionFence(r, n, a.verdict)
<1>1. Classify(f, n, r) = [a EXCEPT !.verdict =
                             IF revised = "current" /\ ~r.usable THEN "historical" ELSE revised]
  BY Zenon DEF Classify
<1>2. DOMAIN a = {"fence", "replayed", "ordinal", "verdict"}
  BY Zenon DEF ApplySessionFence
<1>3. revised = "current" => a.verdict = "current"
  BY Zenon DEF RevisionFence
<1> HIDE DEF a, revised
<1>4. QED
  BY <1>1, <1>2, <1>3, Zenon DEF a

\* A record the session fence leaves current belongs to the newest session and follows
\* its last sequence.
LEMMA CurrentFacts ==
  ASSUME NEW f, FenceOK(f), AllStarted(f), NEW r \in Records, NEW v,
         ApplySessionFence(f, r, v).verdict = "current"
  PROVE  LET a == ApplySessionFence(f, r, v) IN
         \A e : e.ordinal \in Nat /\ e.seq \in Nat /\ PassedCovered(f, e) =>
                  e.ordinal < a.ordinal \/ (e.ordinal = a.ordinal /\ e.seq < r.seq)
<1> USE GateAssumption
<1> DEFINE base == Base(f, r)
           state == base.sessions[r.session]
           a == ApplySessionFence(f, r, v)
<1>1. /\ a.ordinal = state.ordinal
      /\ ~IsReplay(state, r.seq) /\ ~Demotes(base, state, r)
  <2>1. a.verdict = CASE IsReplay(state, r.seq) -> "rejected"
                      [] ~IsReplay(state, r.seq) /\ Demotes(base, state, r) -> "historical"
                      [] OTHER -> v
    BY Zenon DEF ApplySessionFence, Base
  <2>2. a.ordinal = state.ordinal
    BY Zenon DEF ApplySessionFence, Base
  <2> HIDE DEF base, state
  <2>3. QED
    BY <2>1, <2>2, Zenon
<1>2. /\ FenceOK(base) /\ r.session \in DOMAIN base.sessions
      /\ f.current_ordinal <= base.current_ordinal
      /\ \/ /\ r.session \in DOMAIN f.sessions /\ state = f.sessions[r.session]
            /\ state.has_last
         \/ state.ordinal > f.current_ordinal /\ ~state.has_last
  BY BaseFacts, Zenon
<1>3. /\ StateOK(state) /\ base.current_ordinal \in Nat /\ f.current_ordinal \in Nat
      /\ state.ordinal <= base.current_ordinal
  BY <1>2 DEF FenceOK
<1> HIDE DEF base, state, a
<1>4. state.ordinal \in Nat /\ state.last \in Nat /\ r.seq \in Nat
  BY <1>3, Zenon DEF StateOK, SessionState, Records
<1>5. state.ordinal = base.current_ordinal
  BY <1>1, <1>3, <1>4 DEF Demotes
<1>6. state.has_last => state.last < r.seq
  BY <1>1, <1>4 DEF Demotes, IsReplay, IsReordered
<1>7. ASSUME NEW e, e.ordinal \in Nat, e.seq \in Nat, PassedCovered(f, e)
      PROVE  e.ordinal < a.ordinal \/ (e.ordinal = a.ordinal /\ e.seq < r.seq)
  <2>1. e.ordinal <= f.current_ordinal
    BY <1>7, Zenon DEF PassedCovered
  <2>2. CASE state.ordinal > f.current_ordinal
    BY <1>1, <1>3, <1>4, <1>7, <2>1, <2>2
  <2>3. CASE r.session \in DOMAIN f.sessions /\ state = f.sessions[r.session] /\ state.has_last
    <3>1. e.ordinal = state.ordinal => e.seq <= state.last
      BY <1>7, <2>3, Zenon DEF PassedCovered
    <3>2. QED
      BY <1>1, <1>2, <1>3, <1>4, <1>5, <1>6, <1>7, <2>1, <2>3, <3>1
  <2>4. QED
    BY <1>2, <2>2, <2>3, Zenon
<1>8. QED
  BY <1>7, Zenon DEF a

\* The part of TypeOK that one fence answers for.
LEMMA FenceTyped ==
  ASSUME NEW f, FenceOK(f)
  PROVE  /\ f.next_ordinal \in Nat \ {0} /\ f.current_ordinal \in Nat
         /\ f.current \in Sessions \cup {NoSession}
         /\ DOMAIN f.sessions \subseteq Sessions
         /\ \A k \in DOMAIN f.sessions : f.sessions[k] \in SessionState
BY DEF FenceOK, StateOK

\* Before the first record every fence is empty.
LEMMA InitInv == Init => IInv
<1> SUFFICES ASSUME Init PROVE IInv
  BY Zenon
<1> USE FenceAssumption, GateAssumption
<1>1. FenceOK(EmptyFence) /\ AllStarted(EmptyFence)
  BY FS_EmptySet DEF EmptyFence, FenceOK, AllStarted, DistinctOrdinals
<1>2. \A s \in Sources : fences[s] = EmptyFence
  BY Zenon DEF Init
<1>3. TypeOK
  BY <1>1, <1>2, FenceTyped DEF Init, TypeOK
<1>4. QED
  BY <1>1, <1>2, <1>3, Zenon DEF Init, IInv

\* A redefinition of a source leaves the fences alone.
LEMMA DefineSourceInv ==
  ASSUME IInv, NEW s \in Sources, NEW rev \in 1..MaxRevision, DefineSource(s, rev)
  PROVE  IInv'
<1>1. fences' = fences /\ passed' = passed
  BY Zenon DEF DefineSource
<1>2. revisions' \in [Sources -> 0..MaxRevision]
  BY GateAssumption DEF DefineSource, IInv, TypeOK
<1>3. TypeOK'
  BY <1>1, <1>2, Zenon DEF IInv, TypeOK
<1>4. QED
  BY <1>1, <1>3, Zenon DEF IInv

\* A record moves the fence of its own source, and joins `passed` covered by it.
LEMMA AdmitInv ==
  ASSUME IInv, NEW s \in Sources, NEW r \in Records, Admit(s, r)
  PROVE  IInv'
<1> USE GateAssumption
<1> DEFINE f == fences[s]
           d == Decision(s, r)
           v == IF r.bound THEN "current" ELSE "historical"
           a == ApplySessionFence(f, r, v)
           e0 == [source |-> s, session |-> r.session, ordinal |-> d.ordinal, seq |-> r.seq]
<1>1. /\ fences' = [fences EXCEPT ![s] = d.fence]
      /\ passed' = IF d.replayed \/ d.ordinal = 0 THEN passed ELSE passed \cup {e0}
      /\ revisions' = revisions
  BY Zenon DEF Admit
<1>2. FenceOK(f) /\ AllStarted(f) /\ fences = [t \in Sources |-> fences[t]]
  BY Zenon DEF IInv
<1>3. \A e \in passed : e.source \in Sources /\ e.ordinal \in Nat /\ e.seq \in Nat
  BY Zenon DEF IInv, TypeOK
<1>4. CASE revisions[s] = 0 \/ ~r.sound
  <2>1. d.fence = f /\ d.ordinal = 0
    BY <1>4, Zenon DEF Decision, Classify, RefusedUntouched
  <2>2. fences' = fences /\ passed' = passed
    BY <1>1, <1>2, <2>1, Zenon
  <2>3. QED
    BY <1>1, <2>2, Zenon DEF IInv, TypeOK
<1>5. CASE ~(revisions[s] = 0 \/ ~r.sound)
  <2>1. d.fence = a.fence /\ d.ordinal = a.ordinal /\ d.replayed = a.replayed
    BY <1>5, ClassifyFacts DEF Decision
  <2>2. /\ FenceOK(a.fence) /\ AllStarted(a.fence)
        /\ a.ordinal \in Nat \ {0} /\ a.ordinal <= a.fence.current_ordinal
        /\ r.session \in DOMAIN a.fence.sessions /\ a.fence.sessions[r.session].ordinal = a.ordinal
        /\ ~a.replayed => r.seq <= a.fence.sessions[r.session].last
        /\ \A e : e.ordinal \in Nat /\ e.seq \in Nat /\ PassedCovered(f, e) => PassedCovered(a.fence, e)
        /\ \A e : e.ordinal \in Nat /\ SessionKept(f, e) => SessionKept(a.fence, e)
    BY <1>2, FenceStep
  <2> HIDE DEF d, a
  <2>3. /\ fences' = [t \in Sources |-> fences'[t]]
        /\ fences'[s] = a.fence /\ \A t \in Sources \ {s} : fences'[t] = fences[t]
    BY <1>1, <1>2, <2>1, Zenon
  <2>4. \A t \in Sources : FenceOK(fences'[t]) /\ AllStarted(fences'[t])
    BY <2>2, <2>3, Zenon DEF IInv
  <2>5. \A e \in passed : /\ PassedCovered(fences'[e.source], e)
                           /\ SessionKept(fences'[e.source], e)
    BY <1>3, <2>2, <2>3, Zenon DEF IInv
  <2>6. ~a.replayed => PassedCovered(fences'[s], e0) /\ SessionKept(fences'[s], e0)
    <3>1. \A k \in DOMAIN a.fence.sessions : a.fence.sessions[k].ordinal = a.ordinal => k = r.session
      BY <2>2, Zenon DEF FenceOK, DistinctOrdinals
    <3>2. QED
      BY <2>1, <2>2, <2>3, <3>1, Zenon DEF PassedCovered, SessionKept
  <2>7. \A e \in passed' : /\ PassedCovered(fences'[e.source], e)
                            /\ SessionKept(fences'[e.source], e)
    BY <1>1, <2>1, <2>5, <2>6
  <2>8. e0 \in [source : Sources, session : Sessions, ordinal : Nat \ {0}, seq : Seqs]
    BY <2>1, <2>2, Zenon DEF Records
  <2>9. passed' \subseteq [source : Sources, session : Sessions, ordinal : Nat \ {0}, seq : Seqs]
    BY <1>1, <2>8, Zenon DEF IInv, TypeOK
  <2>10. TypeOK'
    BY <1>1, <2>4, <2>9, FenceTyped, Zenon DEF IInv, TypeOK
  <2>11. QED
    BY <2>3, <2>4, <2>7, <2>10, Zenon DEF IInv
<1>6. QED
  BY <1>4, <1>5, Zenon

\* The inductive invariant holds in every reachable state of the gate, whatever arrives.
THEOREM Invariance == Spec => []IInv
<1>1. IInv /\ [Next]_vars => IInv'
  <2>1. SUFFICES ASSUME IInv, [Next]_vars PROVE IInv'
    BY Zenon
  <2>2. CASE UNCHANGED vars
    BY <2>1, <2>2, Zenon DEF vars, IInv, TypeOK
  <2>3. CASE Next
    BY <2>1, <2>3, DefineSourceInv, AdmitInv, Zenon DEF Next
  <2>4. QED
    BY <2>1, <2>2, <2>3, Zenon
<1>2. QED
  BY InitInv, <1>1, PTL DEF Spec

\* The gate's state keeps the types of ingest.hpp; no ordinal is ever 0.
THEOREM TypeCorrect == Spec => []TypeOK
<1>1. IInv => TypeOK
  BY Zenon DEF IInv
<1>2. QED
  BY Invariance, <1>1, PTL

\* apply_session_fence() keeps the session table of every source well formed at any
\* limits: eviction spares the current session, which is the newest, ordinals are unique,
\* and table and windows never exceed their limits.
THEOREM FencesStayWellFormed == Spec => []FenceWellFormed
<1>1. IInv => FenceWellFormed
  BY ZenonT(30) DEF IInv, FenceWellFormed, FenceOK, AllStarted, StateOK, WindowOK, DistinctOrdinals
<1>2. QED
  BY Invariance, <1>1, PTL

\* Whatever classify() would accept as current next is newer than everything of its source
\* that went through the fence before, and continues the session it names unless that one
\* was displaced, for any number of sources, sessions and records.
THEOREM CurrentEvidenceIsNewest == Spec => []CurrentIsNewest
<1>1. IInv => CurrentIsNewest
  <2>1. SUFFICES ASSUME IInv, NEW s \in Sources, NEW r \in Records,
                        Decision(s, r).verdict = "current",
                        NEW e \in passed, e.source = s
                 PROVE  LET d == Decision(s, r) IN
                        /\ e.ordinal < d.ordinal \/ (e.ordinal = d.ordinal /\ e.seq < r.seq)
                        /\ e.session = r.session /\ ~Displaced(e) => e.ordinal = d.ordinal
    BY Zenon DEF CurrentIsNewest
  <2>2. revisions[s] # 0 /\ r.sound
    BY <2>1, Zenon DEF Decision, Classify, RefusedUntouched
  <2>3. /\ e.ordinal \in Nat /\ e.seq \in Nat
        /\ PassedCovered(fences[s], e) /\ SessionKept(fences[s], e)
    BY <2>1, GateAssumption, Zenon DEF IInv, TypeOK
  <2>4. FenceOK(fences[s]) /\ AllStarted(fences[s])
    BY <2>1, Zenon DEF IInv
  <2> DEFINE a == ApplySessionFence(fences[s], r, IF r.bound THEN "current" ELSE "historical")
  <2>5. a.verdict = "current" /\ Decision(s, r).ordinal = a.ordinal
    BY <2>1, <2>2, ClassifyFacts DEF Decision
  <2>6. e.ordinal < a.ordinal \/ (e.ordinal = a.ordinal /\ e.seq < r.seq)
    BY <2>3, <2>4, <2>5, CurrentFacts
  <2>7. ASSUME e.session = r.session, ~Displaced(e) PROVE e.ordinal = a.ordinal
    <3>1. fences[s].current_ordinal \in Nat
      BY <2>4 DEF FenceOK
    <3>2. fences[s].current_ordinal - e.ordinal < MaxSessions
      BY <2>1, <2>3, <2>7, <3>1, FenceAssumption DEF Displaced
    <3>3. r.session \in DOMAIN fences[s].sessions /\ fences[s].sessions[r.session].ordinal = e.ordinal
      BY <2>3, <2>7, <3>2, Zenon DEF SessionKept
    <3>4. a.ordinal = fences[s].sessions[r.session].ordinal
      BY <3>3, Zenon DEF ApplySessionFence
    <3>5. QED
      BY <3>3, <3>4, Zenon
  <2>8. QED
    BY <2>5, <2>6, <2>7, Zenon
<1>2. QED
  BY Invariance, <1>1, PTL

-----------------------------------------------------------------------------
(* What the bounded replay window forgets.                                  *)

\* What went through the fence of source s under one session ordinal.
Passed(s, ordinal) == {e \in passed : e.source = s /\ e.ordinal = ordinal}

\* A window w holds sequences of P only, and all of them until P has outgrown it.
Remembers(w, P) ==
  /\ \A q \in Elements(w) : \E e \in P : e.seq = q
  /\ (\A e \in P : e.seq \in Elements(w)) \/ Cardinality(P) > ReplayWindow

\* The windows of all remembered sessions do.
Memory ==
  /\ IsFiniteSet(passed)
  /\ \A s \in Sources : \A k \in DOMAIN fences[s].sessions :
       Remembers(fences[s].sessions[k].recent, Passed(s, fences[s].sessions[k].ordinal))

\* recent_order.push_back() with its pop_front(): nothing is dropped before the window is
\* full, and the new sequence is in.
LEMMA RememberElements ==
  ASSUME NEW w \in Seq(Nat), NEW q \in Nat
  PROVE  LET v == Remember(w, q) IN
         /\ q \in Elements(v)
         /\ Elements(v) \subseteq Elements(w) \cup {q}
         /\ Len(w) < ReplayWindow => Elements(w) \subseteq Elements(v)
<1> USE FenceAssumption
<1>1. CASE Len(w) < ReplayWindow
  <2>1. Remember(w, q) = Append(w, q)
    BY <1>1, Zenon DEF Remember
  <2>2. /\ Len(Append(w, q)) = Len(w) + 1 /\ Len(w) \in Nat
        /\ \A i \in 1..Len(w) : Append(w, q)[i] = w[i]
        /\ Append(w, q)[Len(w) + 1] = q
    OBVIOUS
  <2>3. \A i \in 1..(Len(w) + 1) : i \in 1..Len(w) \/ i = Len(w) + 1
    BY <2>2
  <2>4. 1..Len(w) \subseteq 1..(Len(w) + 1) /\ Len(w) + 1 \in 1..(Len(w) + 1)
    BY <2>2
  <2>5. QED
    BY <2>1, <2>2, <2>3, <2>4, Zenon DEF Elements
<1>2. CASE ~(Len(w) < ReplayWindow)
  <2> DEFINE t == Tail(w)
  <2>1. Remember(w, q) = Append(t, q) /\ w # <<>>
    BY <1>2 DEF Remember
  <2>2. /\ t \in Seq(Nat) /\ Len(w) \in Nat /\ Len(t) = Len(w) - 1
        /\ \A i \in 1..Len(t) : t[i] = w[i + 1] /\ i + 1 \in 1..Len(w)
    BY <2>1
  <2> HIDE DEF t
  <2>3. /\ Len(Append(t, q)) = Len(t) + 1 /\ Len(t) \in Nat
        /\ \A i \in 1..Len(t) : Append(t, q)[i] = t[i]
        /\ Append(t, q)[Len(t) + 1] = q
    BY <2>2
  <2>4. \A i \in 1..(Len(t) + 1) : i \in 1..Len(t) \/ i = Len(t) + 1
    BY <2>3
  <2>5. Len(t) + 1 \in 1..(Len(t) + 1)
    BY <2>3
  <2>6. Elements(Append(t, q)) \subseteq Elements(t) \cup {q} /\ q \in Elements(Append(t, q))
    BY <2>3, <2>4, <2>5, Zenon DEF Elements
  <2>7. Elements(t) \subseteq Elements(w)
    BY <2>2, Zenon DEF Elements
  <2>8. QED
    BY <1>2, <2>1, <2>6, <2>7, Zenon
<1>3. QED
  BY <1>1, <1>2, Zenon

\* A full window without repetition stands for as many records as it is long.
LEMMA WindowCounts ==
  ASSUME NEW w \in Seq(Nat), NEW P, IsFiniteSet(P),
         \A i, j \in 1..Len(w) : w[i] = w[j] => i = j,
         \A q \in Elements(w) : \E e \in P : e.seq = q
  PROVE  Len(w) <= Cardinality(P)
<1> DEFINE f == [i \in 1..Len(w) |-> CHOOSE e \in P : e.seq = w[i]]
<1>1. \A i \in 1..Len(w) : f[i] \in P /\ f[i].seq = w[i]
  BY Zenon DEF Elements
<1>2. f \in Injection(1..Len(w), P)
  <2>1. f \in [1..Len(w) -> P]
    BY <1>1, Zenon
  <2>2. \A i, j \in 1..Len(w) : f[i] = f[j] => i = j
    BY <1>1
  <2> HIDE DEF f
  <2>3. QED
    BY <2>1, <2>2, Zenon DEF Injection, IsInjective
<1>3. Cardinality(1..Len(w)) <= Cardinality(P)
  BY <1>2, FS_Injection, Zenon
<1>4. Len(w) \in Nat /\ Cardinality(1..Len(w)) = Len(w)
  BY FS_Interval
<1>5. QED
  BY <1>3, <1>4, Zenon

\* Accepting a sequence that the window does not hold: the window drops an older one only
\* when more records than it can hold have gone through.
LEMMA RememberKeeps ==
  ASSUME NEW w \in Seq(Nat), Len(w) <= ReplayWindow,
         \A i, j \in 1..Len(w) : w[i] = w[j] => i = j,
         NEW P, IsFiniteSet(P), Remembers(w, P), NEW e0, e0.seq \in Nat, e0.seq \notin Elements(w)
  PROVE  Remembers(Remember(w, e0.seq), P \cup {e0})
<1> USE FenceAssumption
<1> DEFINE v == Remember(w, e0.seq)
<1>1. /\ e0.seq \in Elements(v)
      /\ Elements(v) \subseteq Elements(w) \cup {e0.seq}
      /\ Len(w) < ReplayWindow => Elements(w) \subseteq Elements(v)
  BY RememberElements, Zenon
<1> HIDE DEF v
<1>2. \A q \in Elements(v) : \E e \in P \cup {e0} : e.seq = q
  BY <1>1, Zenon DEF Remembers
<1>3. /\ Cardinality(P \cup {e0}) = IF e0 \in P THEN Cardinality(P) ELSE Cardinality(P) + 1
      /\ Cardinality(P) \in Nat /\ Len(w) \in Nat
  BY FS_AddElement, FS_CardinalityType
<1>4. CASE Cardinality(P) > ReplayWindow
  BY <1>2, <1>3, <1>4 DEF Remembers, v
<1>5. CASE \A e \in P : e.seq \in Elements(w)
  <2>1. CASE Len(w) < ReplayWindow
    BY <1>1, <1>2, <1>5, <2>1, Zenon DEF Remembers, v
  <2>2. CASE ~(Len(w) < ReplayWindow)
    <3>1. e0 \notin P
      BY <1>5, Zenon
    <3>2. Len(w) <= Cardinality(P)
      BY WindowCounts, Zenon DEF Remembers
    <3>3. Cardinality(P \cup {e0}) > ReplayWindow
      BY <1>3, <2>2, <3>1, <3>2
    <3>4. QED
      BY <1>2, <3>3, Zenon DEF Remembers, v
  <2>3. QED
    BY <2>1, <2>2, Zenon
<1>6. QED
  BY <1>4, <1>5, Zenon DEF Remembers

\* apply_session_fence() touches the window of the record's session only; a session it
\* opens starts with an empty one.
LEMMA FenceWindows ==
  ASSUME NEW f, FenceOK(f), AllStarted(f), NEW r \in Records, NEW v
  PROVE  LET a == ApplySessionFence(f, r, v)
             g == a.fence
         IN  /\ \A k \in DOMAIN g.sessions \ {r.session} :
                  k \in DOMAIN f.sessions /\ g.sessions[k] = f.sessions[k]
             /\ \/ /\ r.session \in DOMAIN f.sessions
                   /\ a.ordinal = f.sessions[r.session].ordinal
                   /\ a.replayed = IsReplay(f.sessions[r.session], r.seq)
                   /\ g.sessions[r.session].recent =
                        IF a.replayed THEN f.sessions[r.session].recent
                        ELSE Remember(f.sessions[r.session].recent, r.seq)
                \/ /\ a.ordinal > f.current_ordinal /\ ~a.replayed
                   /\ g.sessions[r.session].recent = Remember(<<>>, r.seq)
<1> DEFINE base == Base(f, r)
           state == base.sessions[r.session]
           raised == [state EXCEPT !.source_revision = IF r.rev > @ THEN r.rev ELSE @]
           replayed == IsReplay(state, r.seq)
           next == IF replayed THEN raised ELSE Advance(raised, r)
           a == ApplySessionFence(f, r, v)
           g == a.fence
<1>1. /\ g = [base EXCEPT !.sessions[r.session] = next]
      /\ a.ordinal = state.ordinal /\ a.replayed = replayed
  BY Zenon DEF ApplySessionFence, Base
<1>2. /\ FenceOK(base) /\ r.session \in DOMAIN base.sessions
      /\ \A k \in DOMAIN base.sessions \ {r.session} :
           k \in DOMAIN f.sessions /\ base.sessions[k] = f.sessions[k]
      /\ \/ /\ r.session \in DOMAIN f.sessions /\ state = f.sessions[r.session]
            /\ state.has_last
         \/ state.ordinal > f.current_ordinal /\ ~state.has_last
  BY BaseFacts, Zenon
<1> HIDE DEF base
<1>3. state \in SessionState /\ (~state.has_last => state.recent = <<>>)
  BY <1>2, Zenon DEF FenceOK, StateOK
<1> HIDE DEF state
<1>4. raised \in [ordinal : Nat \ {0}, source_revision : Nat, has_last : BOOLEAN, last : Nat,
                  recent : Seq(Nat)] /\ raised.recent = state.recent
  BY <1>3, GateAssumption DEF SessionState, Records
<1> HIDE DEF raised
<1>5. next.recent = IF replayed THEN state.recent ELSE Remember(state.recent, r.seq)
  BY <1>4, Zenon DEF Advance
<1>6. DOMAIN g.sessions = DOMAIN base.sessions /\ g.sessions[r.session] = next
      /\ \A k \in DOMAIN base.sessions \ {r.session} : g.sessions[k] = base.sessions[k]
  <2>1. /\ base = [next_ordinal |-> base.next_ordinal, sessions |-> base.sessions,
                   current |-> base.current, current_ordinal |-> base.current_ordinal]
        /\ base.sessions = [k \in DOMAIN base.sessions |-> base.sessions[k]]
    BY <1>2, Zenon DEF FenceOK
  <2> HIDE DEF next, g
  <2>2. g.sessions = [base.sessions EXCEPT ![r.session] = next]
    BY <1>1, <2>1, Zenon
  <2>3. QED
    BY <1>2, <2>1, <2>2, Zenon
<1>7. ~state.has_last => ~replayed
  BY Zenon DEF IsReplay
<1> HIDE DEF next, replayed, g, a
<1>8. CASE r.session \in DOMAIN f.sessions /\ state = f.sessions[r.session]
  BY <1>1, <1>2, <1>5, <1>6, <1>8, Zenon DEF a, g, replayed
<1>9. CASE state.ordinal > f.current_ordinal /\ ~state.has_last
  BY <1>1, <1>2, <1>3, <1>5, <1>6, <1>7, <1>9, Zenon DEF a, g
<1>10. QED
  BY <1>2, <1>8, <1>9, Zenon

\* A record that is no replay of a session in order is not in the session's window.
LEMMA NotReplayed ==
  ASSUME NEW state, StateOK(state), state.has_last, NEW q \in Nat, ~IsReplay(state, q)
  PROVE  q \notin Elements(state.recent)
<1>1. \A i \in 1..Len(state.recent) : state.recent[i] <= state.last
  BY Zenon DEF StateOK, WindowOK
<1>2. state.last \in Nat
  BY Zenon DEF StateOK, SessionState
<1>3. QED
  BY <1>1, <1>2, Zenon DEF IsReplay, Elements

\* A record of source s changes the windows of s in step with what it adds to `passed`.
LEMMA AdmitMemory ==
  ASSUME IInv, Memory, NEW s \in Sources, NEW r \in Records, Admit(s, r)
  PROVE  Memory'
<1> USE GateAssumption
<1> DEFINE f == fences[s]
           d == Decision(s, r)
           v == IF r.bound THEN "current" ELSE "historical"
           a == ApplySessionFence(f, r, v)
           g == a.fence
           e0 == [source |-> s, session |-> r.session, ordinal |-> d.ordinal, seq |-> r.seq]
           Later(t, o) == {e \in passed' : e.source = t /\ e.ordinal = o}
<1>1. /\ fences' = [fences EXCEPT ![s] = d.fence]
      /\ passed' = IF d.replayed \/ d.ordinal = 0 THEN passed ELSE passed \cup {e0}
  BY Zenon DEF Admit
<1>2. FenceOK(f) /\ AllStarted(f) /\ fences = [t \in Sources |-> fences[t]]
  BY Zenon DEF IInv
<1>3. CASE revisions[s] = 0 \/ ~r.sound
  <2>1. d.fence = f /\ d.ordinal = 0
    BY <1>3, Zenon DEF Decision, Classify, RefusedUntouched
  <2>2. fences' = fences /\ passed' = passed
    BY <1>1, <1>2, <2>1, Zenon
  <2>3. QED
    BY <2>2 DEF Memory, Passed
<1>4. CASE ~(revisions[s] = 0 \/ ~r.sound)
  <2>1. d.fence = g /\ d.ordinal = a.ordinal /\ d.replayed = a.replayed
    BY <1>4, ClassifyFacts DEF Decision
  <2>2. /\ FenceOK(g) /\ a.ordinal \in Nat \ {0}
        /\ r.session \in DOMAIN g.sessions /\ g.sessions[r.session].ordinal = a.ordinal
    BY <1>2, FenceStep
  <2>3. /\ \A k \in DOMAIN g.sessions \ {r.session} :
             k \in DOMAIN f.sessions /\ g.sessions[k] = f.sessions[k]
        /\ \/ /\ r.session \in DOMAIN f.sessions
              /\ a.ordinal = f.sessions[r.session].ordinal
              /\ a.replayed = IsReplay(f.sessions[r.session], r.seq)
              /\ g.sessions[r.session].recent =
                   IF a.replayed THEN f.sessions[r.session].recent
                   ELSE Remember(f.sessions[r.session].recent, r.seq)
           \/ /\ a.ordinal > f.current_ordinal /\ ~a.replayed
              /\ g.sessions[r.session].recent = Remember(<<>>, r.seq)
    BY <1>2, FenceWindows
  <2> HIDE DEF d, a, g, f
  <2>4. /\ fences'[s] = g /\ \A t \in Sources \ {s} : fences'[t] = fences[t]
        /\ passed' = IF a.replayed THEN passed ELSE passed \cup {e0}
        /\ e0.source = s /\ e0.ordinal = a.ordinal /\ e0.seq = r.seq
    BY <1>1, <1>2, <2>1, <2>2, Zenon
  <2> HIDE DEF e0
  <2>5. IsFiniteSet(passed')
    BY <2>4, FS_AddElement, Zenon DEF Memory
  <2>6. \A t \in Sources : \A o : t # s \/ o # a.ordinal => Later(t, o) = Passed(t, o)
    BY <2>4, Zenon DEF Passed
  <2>7. Later(s, a.ordinal) = IF a.replayed THEN Passed(s, a.ordinal)
                                ELSE Passed(s, a.ordinal) \cup {e0}
    BY <2>4, Zenon DEF Passed
  <2> HIDE DEF Later
  <2>8. \A o : IsFiniteSet(Passed(s, o))
    BY FS_Subset, Zenon DEF Memory, Passed
  <2>9. ASSUME NEW t \in Sources, t # s, NEW k \in DOMAIN fences'[t].sessions
        PROVE  Remembers(fences'[t].sessions[k].recent, Later(t, fences'[t].sessions[k].ordinal))
    BY <2>4, <2>6, <2>9 DEF Memory
  <2>10. ASSUME NEW k \in DOMAIN g.sessions, k # r.session
         PROVE  Remembers(g.sessions[k].recent, Later(s, g.sessions[k].ordinal))
    <3>1. k \in DOMAIN f.sessions /\ g.sessions[k] = f.sessions[k]
      BY <2>3, <2>10, Zenon
    <3>2. g.sessions[k].ordinal # a.ordinal
      BY <2>2, <2>10, Zenon DEF FenceOK, DistinctOrdinals
    <3>3. QED
      BY <2>6, <3>1, <3>2, Zenon DEF Memory, f
  <2>11. Remembers(g.sessions[r.session].recent, Later(s, a.ordinal))
    <3>1. CASE a.ordinal > f.current_ordinal /\ ~a.replayed
               /\ g.sessions[r.session].recent = Remember(<<>>, r.seq)
      <4>1. Passed(s, a.ordinal) = {}
        <5>1. \A e \in passed : e.source = s => e.ordinal <= f.current_ordinal /\ e.ordinal \in Nat
          BY Zenon DEF IInv, TypeOK, PassedCovered, f
        <5>2. f.current_ordinal \in Nat
          BY <1>2 DEF FenceOK
        <5>3. QED
          BY <2>2, <3>1, <5>1, <5>2 DEF Passed
      <4>2. Elements(<<>>) = {} /\ <<>> \in Seq(Nat) /\ Len(<<>>) = 0 /\ r.seq \in Nat
        <5>1. <<>> \in Seq(Nat) /\ Len(<<>>) = 0
          OBVIOUS
        <5>2. Elements(<<>>) = {}
          BY <5>1 DEF Elements
        <5>3. QED
          BY <5>1, <5>2, Zenon DEF Records
      <4>3. Remembers(<<>>, {}) /\ IsFiniteSet({})
        BY <4>2, FS_EmptySet, Zenon DEF Remembers
      <4>4. Len(<<>>) <= ReplayWindow /\ \A i, j \in 1..Len(<<>>) : <<>>[i] = <<>>[j] => i = j
        BY <4>2, FenceAssumption
      <4>5. Remembers(Remember(<<>>, r.seq), {} \cup {e0})
        BY <2>4, <4>2, <4>3, <4>4, RememberKeeps, Zenon
      <4>6. QED
        BY <2>7, <3>1, <4>1, <4>5, Zenon
    <3>2. CASE /\ r.session \in DOMAIN f.sessions
               /\ a.ordinal = f.sessions[r.session].ordinal
               /\ a.replayed = IsReplay(f.sessions[r.session], r.seq)
               /\ g.sessions[r.session].recent =
                    IF a.replayed THEN f.sessions[r.session].recent
                    ELSE Remember(f.sessions[r.session].recent, r.seq)
      <4> DEFINE w == f.sessions[r.session].recent
      <4>1. Remembers(w, Passed(s, a.ordinal))
        BY <3>2, Zenon DEF Memory, f
      <4>2. CASE a.replayed
        BY <2>7, <3>2, <4>1, <4>2, Zenon
      <4>3. CASE ~a.replayed
        <5>1. StateOK(f.sessions[r.session]) /\ f.sessions[r.session].has_last /\ r.seq \in Nat
          BY <1>2, <3>2, Zenon DEF FenceOK, AllStarted, Records
        <5>2. r.seq \notin Elements(w)
          BY <3>2, <4>3, <5>1, NotReplayed, Zenon
        <5>3. /\ w \in Seq(Nat) /\ Len(w) <= ReplayWindow
              /\ \A i, j \in 1..Len(w) : w[i] = w[j] => i = j
          BY <5>1, Zenon DEF StateOK, WindowOK, SessionState
        <5> HIDE DEF w
        <5>4. Remembers(Remember(w, r.seq), Passed(s, a.ordinal) \cup {e0})
          BY <2>4, <2>8, <4>1, <5>1, <5>2, <5>3, RememberKeeps, Zenon
        <5>5. QED
          BY <2>7, <3>2, <4>3, <5>4, Zenon DEF w
      <4>4. QED
        BY <4>2, <4>3, Zenon
    <3>3. QED
      BY <2>3, <3>1, <3>2, Zenon
  <2>12. \A t \in Sources : \A k \in DOMAIN fences'[t].sessions :
           Remembers(fences'[t].sessions[k].recent, Later(t, fences'[t].sessions[k].ordinal))
    BY <2>2, <2>4, <2>9, <2>10, <2>11, Zenon
  <2>13. QED
    BY <2>5, <2>12, Zenon DEF Memory, Passed, Later
<1>5. QED
  BY <1>3, <1>4, Zenon

\* A sequence that went through the fence of a session still in the table is refused as a
\* replay until more than sequence_replay_window records of that session have gone
\* through, whatever is evicted, reopened or redefined in between.
THEOREM ReplaysAreRemembered == Spec => []ForgetsOnlyBeyondWindow
<1>1. Init => Memory
  BY FS_EmptySet DEF Init, Memory, EmptyFence
<1>2. IInv /\ Memory /\ [Next]_vars => Memory'
  <2>1. SUFFICES ASSUME IInv, Memory, [Next]_vars PROVE Memory'
    BY Zenon
  <2>2. CASE UNCHANGED <<fences, passed>>
    BY <2>1, <2>2 DEF Memory, Passed
  <2>3. QED
    BY <2>1, <2>2, AdmitMemory, Zenon DEF Next, DefineSource, vars
<1>3. IInv /\ Memory => ForgetsOnlyBeyondWindow
  <2>1. SUFFICES ASSUME IInv, Memory, NEW s \in Sources, NEW r \in Records,
                        ~Decision(s, r).replayed,
                        NEW e \in Passed(s, Decision(s, r).ordinal), e.seq = r.seq
                 PROVE  Cardinality(Passed(s, Decision(s, r).ordinal)) > ReplayWindow
    BY Zenon DEF ForgetsOnlyBeyondWindow, Passed
  <2> DEFINE f == fences[s]
             d == Decision(s, r)
             a == ApplySessionFence(f, r, IF r.bound THEN "current" ELSE "historical")
  <2>2. /\ e \in passed /\ e.source = s /\ e.ordinal = d.ordinal
        /\ e.ordinal \in Nat \ {0} /\ PassedCovered(f, e)
    BY <2>1, Zenon DEF Passed, IInv, TypeOK
  <2>3. FenceOK(f) /\ AllStarted(f)
    BY <2>1, Zenon DEF IInv
  <2>4. ~(revisions[s] = 0 \/ ~r.sound)
    BY <2>2, Zenon DEF Decision, Classify, RefusedUntouched
  <2>5. d.ordinal = a.ordinal /\ d.replayed = a.replayed
    BY <2>4, ClassifyFacts DEF Decision
  <2> HIDE DEF d
  <2>6. ~(a.ordinal > f.current_ordinal)
    BY <2>2, <2>3, <2>5 DEF PassedCovered, FenceOK
  <2>7. /\ r.session \in DOMAIN f.sessions
        /\ a.ordinal = f.sessions[r.session].ordinal
        /\ ~IsReplay(f.sessions[r.session], r.seq)
    BY <2>1, <2>3, <2>5, <2>6, FenceWindows, Zenon DEF d
  <2>8. StateOK(f.sessions[r.session]) /\ f.sessions[r.session].has_last /\ r.seq \in Nat
    BY <2>3, <2>7, GateAssumption, Zenon DEF FenceOK, AllStarted, Records
  <2>9. r.seq \notin Elements(f.sessions[r.session].recent)
    BY <2>7, <2>8, NotReplayed, Zenon
  <2>10. Remembers(f.sessions[r.session].recent, Passed(s, a.ordinal))
    BY <2>1, <2>7, Zenon DEF Memory
  <2> HIDE DEF a, f
  <2>11. QED
    BY <2>1, <2>5, <2>9, <2>10, Zenon DEF Remembers, d
<1>4. QED
  BY <1>1, <1>2, <1>3, Invariance, PTL DEF Spec
=============================================================================
