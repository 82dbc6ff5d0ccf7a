--------------------------- MODULE WorkerPoolProofs ---------------------------
(***************************************************************************)
(* Invariance proofs about WorkerPool, for every finite set of workers,    *)
(* every set of clients, every queue depth and every number of tasks.      *)
(***************************************************************************)
EXTENDS WorkerPool, FiniteSetTheorems, TLAPS

\* The workers between taking a task and settling it.
Busy == {w \in Workers : wpc[w] \in {"picked", "settle"}}

\* What the safety properties rest on: which local variables are live at which program
\* counter, that one shutdown call runs at a time, and that a worker leaves its loop only
\* when the pool is stopping and its queue is empty.
Discipline ==
  /\ active = Cardinality(Busy)
  /\ \A w \in Workers : wpc[w] \in {"picked", "settle"} => wtask[w] \in Tasks
  /\ \A t \in Tasks : promise[t] = "unsubmitted" <=> t > stats.submitted
  /\ \A w \in Workers : wpc[w] = "exit" => stopping /\ queue = <<>>
  /\ \A c, d \in Clients : cpc[c] # "idle" /\ cpc[d] # "idle" => c = d
  /\ \A c \in Clients : cpc[c] \in {"idle", "drain", "recheck", "clear"} => abandoned[c] = <<>>
  /\ \A c \in Clients : cpc[c] # "idle" => stopping /\ owner = "held"
  /\ \A c \in Clients : cpc[c] = "clear" => \A w \in Workers : wpc[w] = "exit"
  /\ threads \in {Workers, {}}
  /\ threads = {} => stopping /\ (\A w \in Workers : wpc[w] = "exit")
                              /\ (\A c \in Clients : cpc[c] = "idle")
  /\ \A w \in Workers : wpc[w] = "settle" /\ wtask[w] \in tokens => outcome[w] = "cancelled"

IInv == TypeOK /\ SettledOnce /\ CancelledReportsCancelled /\ Discipline

-----------------------------------------------------------------------------
(* Facts about sequences and about the number of busy workers.              *)

\* push_back(): the sequence gains its new element, and stays free of repetition.
LEMMA AppendFacts ==
  ASSUME NEW T, NEW s \in Seq(T), NEW e \in T
  PROVE  /\ Append(s, e) \in Seq(T)
         /\ \A t : In(Append(s, e), t) <=> In(s, t) \/ t = e
         /\ Injective(s) /\ ~In(s, e) => Injective(Append(s, e))
<1>1. /\ Append(s, e) \in Seq(T)
      /\ Len(s) \in Nat
      /\ Len(Append(s, e)) = Len(s) + 1
      /\ \A i \in 1..Len(s) : Append(s, e)[i] = s[i]
      /\ Append(s, e)[Len(s) + 1] = e
  OBVIOUS
<1>2. \A t : In(Append(s, e), t) <=> In(s, t) \/ t = e
  <2>1. ASSUME NEW t, In(Append(s, e), t) PROVE In(s, t) \/ t = e
    <3>1. PICK i \in 1..(Len(s) + 1) : Append(s, e)[i] = t
      BY <1>1, <2>1, Zenon DEF In
    <3>2. CASE i = Len(s) + 1
      BY <1>1, <3>1, <3>2, Zenon
    <3>3. CASE i # Len(s) + 1
      <4>1. i \in 1..Len(s)
        BY <1>1, <3>3
      <4>2. QED
        BY <1>1, <3>1, <4>1, Zenon DEF In
    <3>4. QED
      BY <3>2, <3>3, Zenon
  <2>2. ASSUME NEW t, In(s, t) PROVE In(Append(s, e), t)
    <3>1. PICK i \in 1..Len(s) : s[i] = t
      BY <2>2, Zenon DEF In
    <3>2. i \in 1..Len(Append(s, e)) /\ Append(s, e)[i] = t
      BY <1>1, <3>1
    <3>3. QED
      BY <3>2, Zenon DEF In
  <2>3. In(Append(s, e), e)
    <3>1. Len(s) + 1 \in 1..Len(Append(s, e))
      BY <1>1
    <3>2. QED
      BY <1>1, <3>1, Zenon DEF In
  <2>4. QED
    BY <2>1, <2>2, <2>3, Zenon
<1>3. ASSUME Injective(s), ~In(s, e) PROVE Injective(Append(s, e))
  <2>1. ASSUME NEW i \in 1..(Len(s) + 1), NEW j \in 1..(Len(s) + 1),
               Append(s, e)[i] = Append(s, e)[j]
        PROVE  i = j
    <3>1. \A k \in 1..Len(s) : s[k] # e
      BY <1>3, Zenon DEF In
    <3>2. CASE i \in 1..Len(s) /\ j \in 1..Len(s)
      BY <1>1, <1>3, <2>1, <3>2, Zenon DEF Injective
    <3>3. CASE ~(i \in 1..Len(s) /\ j \in 1..Len(s))
      BY <1>1, <2>1, <3>1, <3>3
    <3>4. QED
      BY <3>2, <3>3, Zenon
  <2>2. QED
    BY <1>1, <2>1, Zenon DEF Injective
<1>4. QED
  BY <1>1, <1>2, <1>3, Zenon

\* front() and pop_front(): exactly the first element leaves the sequence.
LEMMA TailFacts ==
  ASSUME NEW T, NEW s \in Seq(T), s # <<>>
  PROVE  /\ Head(s) \in T
         /\ Tail(s) \in Seq(T)
         /\ In(s, Head(s))
         /\ Injective(s) => /\ Injective(Tail(s))
                            /\ \A t : In(Tail(s), t) <=> In(s, t) /\ t # Head(s)
<1>1. /\ Tail(s) \in Seq(T)
      /\ Len(s) \in Nat /\ Len(s) >= 1
      /\ Len(Tail(s)) = Len(s) - 1
      /\ \A i \in 1..(Len(s) - 1) : Tail(s)[i] = s[i + 1]
      /\ Head(s) = s[1]
  OBVIOUS
<1>2. 1 \in 1..Len(s)
  BY <1>1
<1>3. Head(s) \in T /\ In(s, Head(s))
  BY <1>1, <1>2 DEF In
<1>4. ASSUME Injective(s) PROVE Injective(Tail(s))
  BY <1>1, <1>4 DEF Injective
<1>5. ASSUME Injective(s), NEW t PROVE In(Tail(s), t) <=> In(s, t) /\ t # Head(s)
  <2>1. ASSUME In(Tail(s), t) PROVE In(s, t) /\ t # Head(s)
    <3>1. PICK i \in 1..(Len(s) - 1) : s[i + 1] = t
      BY <1>1, <2>1, Zenon DEF In
    <3>2. i + 1 \in 1..Len(s) /\ i + 1 # 1
      BY <1>1, <3>1
    <3>3. QED
      BY <1>1, <1>2, <1>5, <3>1, <3>2, Zenon DEF In, Injective
  <2>2. ASSUME In(s, t), t # Head(s) PROVE In(Tail(s), t)
    <3>1. PICK i \in 1..Len(s) : s[i] = t
      BY <2>2, Zenon DEF In
    <3>2. i - 1 \in 1..(Len(s) - 1) /\ (i - 1) + 1 = i
      BY <1>1, <2>2, <3>1
    <3>3. Tail(s)[i - 1] = t
      BY <1>1, <3>1, <3>2, Zenon
    <3>4. QED
      BY <1>1, <3>2, <3>3, Zenon DEF In
  <2>3. QED
    BY <2>1, <2>2, Zenon
<1>6. QED
  BY <1>1, <1>3, <1>4, <1>5, Zenon

\* An empty queue or abandoned list holds no task.
LEMMA EmptyFacts == Injective(<<>>) /\ \A t : ~In(<<>>, t)
BY DEF Injective, In

\* State::active counts the busy workers: taking a task adds one, settling removes one.
LEMMA BusyFacts ==
  /\ IsFiniteSet(Busy) /\ Cardinality(Busy) \in Nat
  /\ \A w \in Busy : IsFiniteSet(Busy \ {w}) /\ Cardinality(Busy \ {w}) = Cardinality(Busy) - 1
                                             /\ Cardinality(Busy \ {w}) \in Nat
  /\ \A w : w \notin Busy => Cardinality(Busy \cup {w}) = Cardinality(Busy) + 1
  /\ Busy = {} => Cardinality(Busy) = 0
<1>1. IsFiniteSet(Busy)
  BY PoolAssumption, FS_Subset, Zenon DEF Busy
<1>2. Cardinality(Busy) \in Nat
  BY <1>1, FS_CardinalityType, Zenon
<1>3. ASSUME NEW w \in Busy
      PROVE  IsFiniteSet(Busy \ {w}) /\ Cardinality(Busy \ {w}) = Cardinality(Busy) - 1
                                     /\ Cardinality(Busy \ {w}) \in Nat
  <2>1. IsFiniteSet(Busy \ {w}) /\ Cardinality(Busy \ {w}) = Cardinality(Busy) - 1
    BY <1>1, FS_RemoveElement, Zenon
  <2>2. Cardinality(Busy \ {w}) \in Nat
    BY <2>1, FS_CardinalityType, Zenon
  <2>3. QED
    BY <2>1, <2>2, Zenon
<1>4. ASSUME NEW w, w \notin Busy PROVE Cardinality(Busy \cup {w}) = Cardinality(Busy) + 1
  BY <1>1, <1>4, FS_AddElement, Zenon
<1>5. Busy = {} => Cardinality(Busy) = 0
  BY FS_EmptySet, Zenon
<1>6. QED
  BY <1>1, <1>2, <1>3, <1>4, <1>5, Zenon

\* Counting an event keeps Pool::Stats a record of counters.
LEMMA StatsFacts ==
  ASSUME NEW s \in Stats
  PROVE  /\ s.submitted \in Nat
         /\ [s EXCEPT !.refused = @ + 1] \in Stats
         /\ [s EXCEPT !.reentrant_refusals = @ + 1] \in Stats
         /\ [s EXCEPT !.completed = @ + 1] \in Stats
         /\ [s EXCEPT !.failed = @ + 1] \in Stats
         /\ [s EXCEPT !.cancelled = @ + 1] \in Stats
         /\ \A n \in Nat :
              [s EXCEPT !.submitted = @ + 1, !.peak_pending = IF n > @ THEN n ELSE @] \in Stats
<1>1. s.submitted \in Nat
  BY Zenon DEF Stats
<1>2. [s EXCEPT !.refused = @ + 1] \in Stats
  BY DEF Stats
<1>3. [s EXCEPT !.reentrant_refusals = @ + 1] \in Stats
  BY DEF Stats
<1>4. [s EXCEPT !.completed = @ + 1] \in Stats
  BY DEF Stats
<1>5. [s EXCEPT !.failed = @ + 1] \in Stats
  BY DEF Stats
<1>6. [s EXCEPT !.cancelled = @ + 1] \in Stats
  BY DEF Stats
<1>7. ASSUME NEW n \in Nat
      PROVE  [s EXCEPT !.submitted = @ + 1, !.peak_pending = IF n > @ THEN n ELSE @] \in Stats
  <2> DEFINE counted == [s EXCEPT !.submitted = @ + 1]
             peak == IF n > counted.peak_pending THEN n ELSE counted.peak_pending
  <2>1. counted \in Stats
    BY DEF Stats
  <2>2. peak \in Nat
    BY <2>1, Zenon DEF Stats
  <2> HIDE DEF counted, peak
  <2>3. [counted EXCEPT !.peak_pending = peak] \in Stats
    BY <2>1, <2>2, Zenon DEF Stats
  <2>4. QED
    BY <2>3, Zenon DEF counted, peak
<1>8. QED
  BY <1>1, <1>2, <1>3, <1>4, <1>5, <1>6, <1>7, Zenon

-----------------------------------------------------------------------------
(* The initial states.                                                      *)

\* WorkerPool::create establishes the inductive invariant.
LEMMA InitInv == Init => IInv
<1> SUFFICES ASSUME Init PROVE IInv
  BY Zenon
<1> USE PoolAssumption DEF Init
<1>1. Busy = {} /\ active = 0
  BY Zenon DEF Busy
<1>2. TypeOK
  <2>1. stats \in Stats
    BY Zenon DEF Stats
  <2>2. queue \in Seq(Tasks) /\ abandoned \in [Clients -> Seq(Tasks)]
    OBVIOUS
  <2>3. wtask \in [Workers -> Tasks \cup {NoTask}]
    BY Zenon
  <2>4. outcome \in [Workers -> Outcomes] /\ promise \in [Tasks -> {"unsubmitted", "pending"} \cup Outcomes]
    BY Zenon DEF Outcomes
  <2>5. wpc \in [Workers -> WorkerPC] /\ cpc \in [Clients -> ClientPC]
    BY Zenon DEF WorkerPC, ClientPC
  <2>6. QED
    BY <2>1, <2>2, <2>3, <2>4, <2>5, Zenon DEF TypeOK
<1>3. SettledOnce
  <2>1. \A t : ~InQueue(t) /\ ~Held(t) /\ ~IsAbandoned(t)
    BY EmptyFacts, Zenon DEF InQueue, Held, Holds, IsAbandoned, InAbandoned
  <2>2. Injective(queue) /\ \A c \in Clients : Injective(abandoned[c])
    BY EmptyFacts, Zenon
  <2>3. \A w \in Workers, t \in Tasks : ~Holds(w, t)
    BY Zenon DEF Holds
  <2>4. \A c \in Clients, t \in Tasks : ~InAbandoned(c, t)
    BY EmptyFacts, Zenon DEF InAbandoned
  <2>5. \A t \in Tasks : promise[t] # "pending"
    BY Zenon
  <2>6. QED
    BY <2>1, <2>2, <2>3, <2>4, <2>5, Zenon DEF SettledOnce
<1>4. CancelledReportsCancelled
  BY Zenon DEF CancelledReportsCancelled
<1>5. Discipline
  <2>1. active = Cardinality(Busy)
    BY <1>1, BusyFacts, Zenon
  <2>2. QED
    BY <2>1 DEF Discipline, Tasks
<1>6. QED
  BY <1>2, <1>3, <1>4, <1>5, Zenon DEF IInv

-----------------------------------------------------------------------------
(* Steps that move no task.                                                 *)

\* No task changes hands: the queue, the promises and the abandoned lists stay, and every
\* worker holds what it held.
SameHands ==
  /\ UNCHANGED <<queue, promise, abandoned, wtask>>
  /\ wpc' \in [Workers -> WorkerPC]
  /\ \A w \in Workers : wpc'[w] \in {"picked", "settle"} <=> wpc[w] \in {"picked", "settle"}

\* Such a step keeps the one-place discipline and the set of busy workers.
LEMMA SameHandsFacts ==
  ASSUME SettledOnce, SameHands
  PROVE  SettledOnce' /\ Busy' = Busy
<1>1. Busy' = Busy
  BY Zenon DEF Busy, SameHands
<1>2. /\ \A t : InQueue(t)' <=> InQueue(t)
      /\ \A t : \A w \in Workers : Holds(w, t)' <=> Holds(w, t)
      /\ \A t : \A c \in Clients : InAbandoned(c, t)' <=> InAbandoned(c, t)
  BY Zenon DEF SameHands, InQueue, Holds, InAbandoned, In
<1>3. \A t : (Held(t)' <=> Held(t)) /\ (IsAbandoned(t)' <=> IsAbandoned(t))
  BY <1>2, Zenon DEF Held, IsAbandoned
<1>4. Injective(queue)' = Injective(queue)
      /\ \A c \in Clients : Injective(abandoned[c])' = Injective(abandoned[c])
  BY Zenon DEF SameHands
<1>5. QED
  BY <1>1, <1>2, <1>3, <1>4, Zenon DEF SettledOnce, SameHands

\* submit() with a full queue only counts the refusal.
LEMMA SubmitRefusedInv ==
  ASSUME IInv, NEW c \in Clients, SubmitRefused(c)
  PROVE  IInv'
<1> USE DEF SubmitRefused, workerVars, clientVars
<1>1. SameHands
  BY Zenon DEF IInv, TypeOK, SameHands, WorkerPC
<1>2. TypeOK'
  <2>1. stats' \in Stats
    BY StatsFacts, Zenon DEF IInv, TypeOK
  <2>2. QED
    BY <1>1, <2>1, Zenon DEF IInv, TypeOK, SameHands, ClientPC
<1>3. SettledOnce' /\ Busy' = Busy
  BY <1>1, SameHandsFacts, Zenon DEF IInv
<1>4. CancelledReportsCancelled'
  BY Zenon DEF IInv, CancelledReportsCancelled
<1>5. Discipline'
  BY <1>1, <1>3, PoolAssumption, SMTT(30) DEF IInv, TypeOK, Discipline, SameHands, Stats, WorkerPC, ClientPC
<1>6. QED
  BY <1>2, <1>3, <1>4, <1>5, Zenon DEF IInv

\* A draining shutdown that wakes up only moves its program counter.
LEMMA DrainRecheckInv ==
  ASSUME IInv, NEW c \in Clients, DrainRecheck(c)
  PROVE  IInv'
<1> USE DEF DrainRecheck, Idle, workerVars, clientVars
<1>1. SameHands
  BY Zenon DEF IInv, TypeOK, SameHands, WorkerPC
<1>2. TypeOK'
  BY <1>1, Zenon DEF IInv, TypeOK, SameHands, ClientPC, Stats
<1>3. SettledOnce' /\ Busy' = Busy
  BY <1>1, SameHandsFacts, Zenon DEF IInv
<1>4. CancelledReportsCancelled'
  BY Zenon DEF IInv, CancelledReportsCancelled
<1>5. Discipline'
  BY <1>1, <1>3, PoolAssumption, SMTT(30) DEF IInv, TypeOK, Discipline, SameHands, Stats, WorkerPC, ClientPC
<1>6. QED
  BY <1>2, <1>3, <1>4, <1>5, Zenon DEF IInv

\* shutdown()'s notify_all sends sleeping workers back to their predicate.
LEMMA ShutdownNotifyInv ==
  ASSUME IInv, NEW c \in Clients, ShutdownNotify(c)
  PROVE  IInv'
<1> USE DEF ShutdownNotify, NotifyAllNotEmpty, workerVars, clientVars
<1>1. SameHands
  BY Zenon DEF IInv, TypeOK, SameHands, WorkerPC
<1>2. TypeOK'
  BY <1>1, Zenon DEF IInv, TypeOK, SameHands, ClientPC, Stats
<1>3. SettledOnce' /\ Busy' = Busy
  BY <1>1, SameHandsFacts, Zenon DEF IInv
<1>4. CancelledReportsCancelled'
  BY Zenon DEF IInv, CancelledReportsCancelled
<1>5. Discipline'
  BY <1>1, <1>3, PoolAssumption, SMTT(30) DEF IInv, TypeOK, Discipline, SameHands, Stats, WorkerPC, ClientPC
<1>6. QED
  BY <1>2, <1>3, <1>4, <1>5, Zenon DEF IInv

\* shutdown() counts a task it has settled.
LEMMA ShutdownCountInv ==
  ASSUME IInv, NEW c \in Clients, ShutdownCount(c)
  PROVE  IInv'
<1> USE DEF ShutdownCount, workerVars, clientVars
<1>1. SameHands
  BY Zenon DEF IInv, TypeOK, SameHands, WorkerPC
<1>2. TypeOK'
  <2>1. stats' \in Stats
    BY StatsFacts, Zenon DEF IInv, TypeOK
  <2>2. QED
    BY <1>1, <2>1, Zenon DEF IInv, TypeOK, SameHands, ClientPC
<1>3. SettledOnce' /\ Busy' = Busy
  BY <1>1, SameHandsFacts, Zenon DEF IInv
<1>4. CancelledReportsCancelled'
  BY Zenon DEF IInv, CancelledReportsCancelled
<1>5. Discipline'
  <2>1. stats'.submitted = stats.submitted
    BY Zenon DEF IInv, TypeOK, Stats
  <2>2. /\ cpc[c] = "count" /\ cpc'[c] = "abandon"
        /\ \A d \in Clients : d # c => cpc'[d] = cpc[d]
    BY Zenon DEF IInv, TypeOK
  <2>3. UNCHANGED <<queue, stopping, active, threads, promise, tokens, wpc, wtask, outcome,
                    abandoned, owner>>
    BY Zenon
  <2> HIDE DEF ShutdownCount
  <2>4. QED
    BY <1>3, <2>1, <2>2, <2>3 DEF IInv, Discipline
<1>6. QED
  BY <1>2, <1>3, <1>4, <1>5, Zenon DEF IInv

\* The join loop passes only when every worker has left.
LEMMA ShutdownJoinInv ==
  ASSUME IInv, NEW c \in Clients, ShutdownJoin(c)
  PROVE  IInv'
<1> USE DEF ShutdownJoin, workerVars, clientVars
<1>1. SameHands
  BY Zenon DEF IInv, TypeOK, SameHands, WorkerPC
<1>2. TypeOK'
  BY <1>1, Zenon DEF IInv, TypeOK, SameHands, ClientPC, Stats
<1>3. SettledOnce' /\ Busy' = Busy
  BY <1>1, SameHandsFacts, Zenon DEF IInv
<1>4. CancelledReportsCancelled'
  BY Zenon DEF IInv, CancelledReportsCancelled
<1>5. Discipline'
  BY <1>1, <1>3, PoolAssumption, SMTT(30) DEF IInv, TypeOK, Discipline, SameHands, Stats, WorkerPC, ClientPC
<1>6. QED
  BY <1>2, <1>3, <1>4, <1>5, Zenon DEF IInv

\* threads.clear() follows the join.
LEMMA ShutdownClearInv ==
  ASSUME IInv, NEW c \in Clients, ShutdownClear(c)
  PROVE  IInv'
<1> USE DEF ShutdownClear, workerVars, clientVars
<1>1. SameHands
  BY Zenon DEF IInv, TypeOK, SameHands, WorkerPC
<1>2. TypeOK'
  BY <1>1, Zenon DEF IInv, TypeOK, SameHands, ClientPC, Stats
<1>3. SettledOnce' /\ Busy' = Busy
  BY <1>1, SameHandsFacts, Zenon DEF IInv
<1>4. CancelledReportsCancelled'
  BY Zenon DEF IInv, CancelledReportsCancelled
<1>5. Discipline'
  BY <1>1, <1>3, PoolAssumption, SMTT(30) DEF IInv, TypeOK, Discipline, SameHands, Stats, WorkerPC, ClientPC
<1>6. QED
  BY <1>2, <1>3, <1>4, <1>5, Zenon DEF IInv

\* A worker goes to sleep only between two tasks.
LEMMA WorkerBlockInv ==
  ASSUME IInv, NEW w \in Workers, WorkerBlock(w)
  PROVE  IInv'
<1> USE DEF WorkerBlock, workerVars, clientVars
<1>1. SameHands
  BY Zenon DEF IInv, TypeOK, SameHands, WorkerPC
<1>2. TypeOK'
  BY <1>1, Zenon DEF IInv, TypeOK, SameHands, ClientPC, Stats
<1>3. SettledOnce' /\ Busy' = Busy
  BY <1>1, SameHandsFacts, Zenon DEF IInv
<1>4. CancelledReportsCancelled'
  BY Zenon DEF IInv, CancelledReportsCancelled
<1>5. Discipline'
  BY <1>1, <1>3, PoolAssumption, SMTT(30) DEF IInv, TypeOK, Discipline, SameHands, Stats, WorkerPC, ClientPC
<1>6. QED
  BY <1>2, <1>3, <1>4, <1>5, Zenon DEF IInv

\* A worker leaves its loop only when the pool stops and its queue is empty.
LEMMA WorkerExitInv ==
  ASSUME IInv, NEW w \in Workers, WorkerExit(w)
  PROVE  IInv'
<1> USE DEF WorkerExit, workerVars, clientVars
<1>1. SameHands
  BY Zenon DEF IInv, TypeOK, SameHands, WorkerPC
<1>2. TypeOK'
  BY <1>1, Zenon DEF IInv, TypeOK, SameHands, ClientPC, Stats
<1>3. SettledOnce' /\ Busy' = Busy
  BY <1>1, SameHandsFacts, Zenon DEF IInv
<1>4. CancelledReportsCancelled'
  BY Zenon DEF IInv, CancelledReportsCancelled
<1>5. Discipline'
  BY <1>1, <1>3, PoolAssumption, SMTT(30) DEF IInv, TypeOK, Discipline, SameHands, Stats, WorkerPC, ClientPC
<1>6. QED
  BY <1>2, <1>3, <1>4, <1>5, Zenon DEF IInv

\* A re-entrant submit() only counts the refusal.
LEMMA ReentrantSubmitInv ==
  ASSUME IInv, NEW w \in Workers, ReentrantSubmit(w)
  PROVE  IInv'
<1> USE DEF ReentrantSubmit, workerVars, clientVars
<1>1. SameHands
  BY Zenon DEF IInv, TypeOK, SameHands, WorkerPC
<1>2. TypeOK'
  <2>1. stats' \in Stats
    BY StatsFacts, Zenon DEF IInv, TypeOK
  <2>2. QED
    BY <1>1, <2>1, Zenon DEF IInv, TypeOK, SameHands, ClientPC
<1>3. SettledOnce' /\ Busy' = Busy
  BY <1>1, SameHandsFacts, Zenon DEF IInv
<1>4. CancelledReportsCancelled'
  BY Zenon DEF IInv, CancelledReportsCancelled
<1>5. Discipline'
  BY <1>1, <1>3, PoolAssumption, SMTT(30) DEF IInv, TypeOK, Discipline, SameHands, Stats, WorkerPC, ClientPC
<1>6. QED
  BY <1>2, <1>3, <1>4, <1>5, Zenon DEF IInv

\* A spurious wakeup moves one waiter back to its predicate.
LEMMA SpuriousWakeupInv ==
  ASSUME IInv, SpuriousWakeup
  PROVE  IInv'
<1> USE DEF SpuriousWakeup, Waiting, workerVars, clientVars
<1>1. SameHands
  BY Zenon DEF IInv, TypeOK, SameHands, WorkerPC
<1>2. TypeOK'
  BY <1>1, Zenon DEF IInv, TypeOK, SameHands, ClientPC, Stats
<1>3. SettledOnce' /\ Busy' = Busy
  BY <1>1, SameHandsFacts, Zenon DEF IInv
<1>4. CancelledReportsCancelled'
  BY Zenon DEF IInv, CancelledReportsCancelled
<1>5. Discipline'
  BY <1>1, <1>3, PoolAssumption, SMTT(30) DEF IInv, TypeOK, Discipline, SameHands, Stats, WorkerPC, ClientPC
<1>6. QED
  BY <1>2, <1>3, <1>4, <1>5, Zenon DEF IInv

\* Dropping the handle changes nothing inside the pool.
LEMMA ReleaseInv ==
  ASSUME IInv, Release
  PROVE  IInv'
<1> USE DEF Release, workerVars, clientVars
<1>1. SameHands
  BY Zenon DEF IInv, TypeOK, SameHands, WorkerPC
<1>2. TypeOK'
  BY <1>1, Zenon DEF IInv, TypeOK, SameHands, ClientPC, Stats
<1>3. SettledOnce' /\ Busy' = Busy
  BY <1>1, SameHandsFacts, Zenon DEF IInv
<1>4. CancelledReportsCancelled'
  BY Zenon DEF IInv, CancelledReportsCancelled
<1>5. Discipline'
  BY <1>1, <1>3, PoolAssumption, SMTT(30) DEF IInv, TypeOK, Discipline, SameHands, Stats, WorkerPC, ClientPC
<1>6. QED
  BY <1>2, <1>3, <1>4, <1>5, Zenon DEF IInv

\* cancel_pending() reaches queued tasks only, and none of those is in a worker's hands.
LEMMA CancelPendingInv ==
  ASSUME IInv, NEW c \in Clients, CancelPending(c)
  PROVE  IInv'
<1> USE DEF CancelPending, workerVars, clientVars
<1>1. SameHands
  BY Zenon DEF IInv, TypeOK, SameHands
<1>2. \A t \in tokens' : t \in tokens \/ (t \in Tasks /\ InQueue(t))
  <2>1. queue \in Seq(Tasks) /\ tokens' = tokens \cup {queue[i] : i \in 1..Len(queue)}
    BY Zenon DEF IInv, TypeOK
  <2>2. \A i \in 1..Len(queue) : queue[i] \in Tasks
    BY <2>1
  <2> HIDE DEF CancelPending
  <2>3. QED
    BY <2>1, <2>2, Zenon DEF InQueue, In
<1>3. TypeOK'
  BY <1>1, <1>2, Zenon DEF IInv, TypeOK, SameHands
<1>4. SettledOnce' /\ Busy' = Busy
  BY <1>1, SameHandsFacts, Zenon DEF IInv
<1>5. CancelledReportsCancelled'
  BY <1>2, Zenon DEF IInv, CancelledReportsCancelled, SettledOnce
<1>6. Discipline'
  <2>1. ASSUME NEW w \in Workers, wpc[w] = "settle", wtask[w] \in tokens'
        PROVE  outcome[w] = "cancelled"
    <3>1. Held(wtask[w]) /\ wtask[w] \in Tasks
      BY <2>1, Zenon DEF IInv, Discipline, Held, Holds
    <3>2. wtask[w] \in tokens
      BY <1>2, <2>1, <3>1, Zenon DEF IInv, SettledOnce
    <3>3. QED
      BY <2>1, <3>2, Zenon DEF IInv, Discipline
  <2>2. QED
    BY <1>4, <2>1, Zenon DEF IInv, Discipline
<1>7. QED
  BY <1>3, <1>4, <1>5, <1>6, Zenon DEF IInv

\* A task that starts with a cancelled token answers `cancelled`.
LEMMA WorkerRunInv ==
  ASSUME IInv, NEW w \in Workers, WorkerRun(w)
  PROVE  IInv'
<1> USE DEF WorkerRun, clientVars
<1>1. SameHands
  BY Zenon DEF IInv, TypeOK, SameHands, WorkerPC
<1>2. PICK o \in Answers(wtask[w]) : outcome' = [outcome EXCEPT ![w] = o]
  BY Zenon
<1>3. o \in Outcomes /\ (wtask[w] \in tokens => o = "cancelled")
  BY <1>2, Zenon DEF Answers, Outcomes
<1>4. TypeOK'
  BY <1>1, <1>2, <1>3, Zenon DEF IInv, TypeOK, SameHands
<1>5. SettledOnce' /\ Busy' = Busy
  BY <1>1, SameHandsFacts, Zenon DEF IInv
<1>6. CancelledReportsCancelled'
  BY Zenon DEF IInv, CancelledReportsCancelled
<1>7. Discipline'
  BY <1>1, <1>2, <1>3, <1>5 DEF IInv, TypeOK, Discipline, SameHands
<1>8. QED
  BY <1>4, <1>5, <1>6, <1>7, Zenon DEF IInv

-----------------------------------------------------------------------------
(* Steps that hand a task over.                                             *)

\* submit(): the new task is in the queue and nowhere else.
LEMMA SubmitAcceptedInv ==
  ASSUME IInv, NEW c \in Clients, SubmitAccepted(c)
  PROVE  IInv'
<1> DEFINE e == stats.submitted + 1
<1> USE DEF SubmitAccepted, clientVars
<1>1. e \in Tasks /\ promise[e] = "unsubmitted"
  <2>0. stats.submitted \in Nat
    BY StatsFacts, Zenon DEF IInv, TypeOK
  <2>1. e \in Tasks /\ e > stats.submitted
    BY <2>0, PoolAssumption DEF Tasks
  <2>2. QED
    BY <2>1, Zenon DEF IInv, Discipline
<1>2. /\ wpc' \in [Workers -> WorkerPC]
      /\ \A w \in Workers : \/ wpc'[w] = wpc[w]
                            \/ wpc[w] = "wait" /\ wpc'[w] = "loop"
  BY Zenon DEF IInv, TypeOK, NotifyOneNotEmpty, Waiting, WorkerPC
<1>3. Busy' = Busy
  BY <1>2, Zenon DEF Busy
<1>4. /\ queue' \in Seq(Tasks)
      /\ \A t : InQueue(t)' <=> InQueue(t) \/ t = e
      /\ Injective(queue) /\ ~InQueue(e) => Injective(queue')
  BY <1>1, AppendFacts DEF IInv, TypeOK, InQueue
<1>5. /\ \A t : \A w \in Workers : Holds(w, t)' <=> Holds(w, t)
      /\ \A t : \A d \in Clients : InAbandoned(d, t)' <=> InAbandoned(d, t)
      /\ \A t : (Held(t)' <=> Held(t)) /\ (IsAbandoned(t)' <=> IsAbandoned(t))
      /\ \A d \in Clients : Injective(abandoned[d])' = Injective(abandoned[d])
  BY <1>2, Zenon DEF Holds, InAbandoned, Held, IsAbandoned, In
<1>6. ~InQueue(e) /\ ~Held(e) /\ ~IsAbandoned(e)
  BY <1>1, Zenon DEF IInv, SettledOnce
<1>7. \A t \in Tasks : promise'[t] = IF t = e THEN "pending" ELSE promise[t]
  BY <1>1, Zenon DEF IInv, TypeOK
<1>8. TypeOK'
  <2>0. stats \in Stats /\ Len(queue) + 1 \in Nat
    BY DEF IInv, TypeOK
  <2>1. stats' \in Stats
    BY <2>0, StatsFacts, Zenon
  <2>2. promise' \in [Tasks -> {"unsubmitted", "pending"} \cup Outcomes]
    BY Zenon DEF IInv, TypeOK
  <2>3. QED
    BY <1>2, <1>4, <2>1, <2>2, Zenon DEF IInv, TypeOK
<1>9. SettledOnce'
  BY <1>1, <1>4, <1>5, <1>6, <1>7, Zenon DEF IInv, SettledOnce
<1>10. CancelledReportsCancelled'
  BY <1>1, <1>7, Zenon DEF IInv, TypeOK, CancelledReportsCancelled
<1>11. Discipline'
  <2>1. stats'.submitted = e /\ stats.submitted \in Nat
    BY StatsFacts, Zenon DEF IInv, TypeOK, Stats
  <2>2. \A t \in Tasks : promise'[t] = "unsubmitted" <=> t > stats'.submitted
    BY <1>7, <2>1 DEF IInv, Discipline, Tasks
  <2>3. QED
    BY <1>2, <1>3, <2>2 DEF IInv, TypeOK, Discipline
<1>12. QED
  BY <1>8, <1>9, <1>10, <1>11, Zenon DEF IInv

\* A worker that takes a task moves it from the head of the queue into its hands.
LEMMA WorkerTakeInv ==
  ASSUME IInv, NEW w \in Workers, WorkerTake(w)
  PROVE  IInv'
<1> DEFINE e == Head(queue)
<1> USE DEF WorkerTake, clientVars
<1>1. /\ e \in Tasks /\ InQueue(e)
      /\ queue' \in Seq(Tasks)
      /\ Injective(queue') /\ \A t : InQueue(t)' <=> InQueue(t) /\ t # e
  BY TailFacts, Zenon DEF IInv, TypeOK, SettledOnce, InQueue
<1>2. /\ wpc' \in [Workers -> WorkerPC]
      /\ wtask' \in [Workers -> Tasks \cup {NoTask}]
      /\ \A v \in Workers : v # w => wpc'[v] = wpc[v] /\ wtask'[v] = wtask[v]
      /\ wpc'[w] = "picked" /\ wtask'[w] = e /\ wpc[w] = "loop"
  BY <1>1, Zenon DEF IInv, TypeOK, WorkerPC
<1>3. /\ \A v \in Workers, t \in Tasks : Holds(v, t)' <=> Holds(v, t) \/ (v = w /\ t = e)
      /\ \A t \in Tasks : Held(t)' <=> Held(t) \/ t = e
  BY <1>2, Zenon DEF Holds, Held
<1>4. /\ \A t : \A d \in Clients : InAbandoned(d, t)' <=> InAbandoned(d, t)
      /\ \A t : IsAbandoned(t)' <=> IsAbandoned(t)
      /\ \A d \in Clients : Injective(abandoned[d])' = Injective(abandoned[d])
  BY Zenon DEF InAbandoned, IsAbandoned, In
<1>5. promise[e] = "pending" /\ ~Held(e) /\ ~IsAbandoned(e)
  BY <1>1, Zenon DEF IInv, SettledOnce
<1>6. active' = Cardinality(Busy') /\ active' \in Nat
  <2>1. Busy' = Busy \cup {w} /\ w \notin Busy
    BY <1>2, Zenon DEF Busy
  <2>2. QED
    BY <2>1, BusyFacts DEF IInv, Discipline
<1>7. TypeOK'
  BY <1>1, <1>2, <1>6, Zenon DEF IInv, TypeOK
<1>8. SettledOnce'
  <2>1. \A v, u \in Workers, t \in Tasks : Holds(v, t)' /\ Holds(u, t)' => v = u
    BY <1>3, <1>5 DEF IInv, SettledOnce, Held
  <2>2. QED
    BY <1>1, <1>3, <1>4, <1>5, <2>1, Zenon DEF IInv, SettledOnce
<1>9. CancelledReportsCancelled'
  BY Zenon DEF IInv, CancelledReportsCancelled
<1>10. Discipline'
  <2>1. \A v \in Workers : wpc'[v] # "exit"
    BY <1>2, Zenon DEF IInv, Discipline
  <2>2. \A v \in Workers : wpc[v] # "exit"
    BY Zenon DEF IInv, Discipline
  <2>3. QED
    BY <1>1, <1>2, <1>6, <2>1, <2>2 DEF IInv, Discipline
<1>11. QED
  BY <1>7, <1>8, <1>9, <1>10, Zenon DEF IInv

\* A worker settles the one promise it holds, which is pending.
LEMMA WorkerSettleInv ==
  ASSUME IInv, NEW w \in Workers, WorkerSettle(w)
  PROVE  IInv'
<1> DEFINE e == wtask[w]
<1> USE DEF WorkerSettle
<1>1. e \in Tasks /\ Holds(w, e) /\ Held(e) /\ promise[e] = "pending"
  <2>1. e \in Tasks /\ Holds(w, e) /\ Held(e)
    BY Zenon DEF IInv, Discipline, Holds, Held
  <2>2. QED
    BY <2>1, Zenon DEF IInv, SettledOnce
<1>2. /\ wpc' \in [Workers -> WorkerPC]
      /\ wtask' \in [Workers -> Tasks \cup {NoTask}]
      /\ outcome' \in [Workers -> Outcomes]
      /\ \A v \in Workers : v # w => wpc'[v] = wpc[v] /\ wtask'[v] = wtask[v] /\ outcome'[v] = outcome[v]
      /\ wpc'[w] = "loop" /\ wpc[w] = "settle"
  BY Zenon DEF IInv, TypeOK, WorkerPC, Outcomes
<1>3. /\ cpc' \in [Clients -> ClientPC]
      /\ \A c \in Clients : cpc'[c] = cpc[c] \/ (cpc[c] = "drain" /\ cpc'[c] = "recheck")
  BY Zenon DEF IInv, TypeOK, NotifyIdle, ClientPC
<1>4. /\ \A t \in Tasks : promise'[t] = IF t = e THEN outcome[w] ELSE promise[t]
      /\ promise' \in [Tasks -> {"unsubmitted", "pending"} \cup Outcomes]
      /\ outcome[w] \in Outcomes
  BY <1>1, Zenon DEF IInv, TypeOK
<1>5. /\ \A v \in Workers, t \in Tasks : Holds(v, t)' <=> Holds(v, t) /\ t # e
      /\ \A t \in Tasks : Held(t)' <=> Held(t) /\ t # e
  <2>1. \A v \in Workers : Holds(v, e) => v = w
    BY <1>1, Zenon DEF IInv, SettledOnce
  <2>2. \A v \in Workers, t \in Tasks : Holds(v, t)' <=> Holds(v, t) /\ v # w
    BY <1>2, Zenon DEF Holds
  <2>3. \A t \in Tasks : Holds(w, t) => t = e
    BY Zenon DEF Holds
  <2>4. \A v \in Workers, t \in Tasks : Holds(v, t)' <=> Holds(v, t) /\ t # e
    BY <2>1, <2>2, <2>3, Zenon
  <2>5. QED
    BY <2>4, Zenon DEF Held
<1>6. /\ \A t : InQueue(t)' <=> InQueue(t)
      /\ \A t : \A d \in Clients : InAbandoned(d, t)' <=> InAbandoned(d, t)
      /\ \A t : IsAbandoned(t)' <=> IsAbandoned(t)
      /\ \A d \in Clients : Injective(abandoned[d])' = Injective(abandoned[d])
      /\ Injective(queue)' = Injective(queue)
  BY Zenon DEF InQueue, InAbandoned, IsAbandoned, In
<1>7. active' = Cardinality(Busy') /\ active' \in Nat
  <2>1. Busy' = Busy \ {w} /\ w \in Busy
    BY <1>2, Zenon DEF Busy
  <2>2. QED
    BY <2>1, BusyFacts, Zenon DEF IInv, Discipline
<1>8. stats' \in Stats /\ stats'.submitted = stats.submitted
  <2>1. stats \in Stats /\ outcome[w] \in {"value", "failed", "cancelled"}
    BY Zenon DEF IInv, TypeOK, Outcomes
  <2>2. CASE outcome[w] = "value"
    BY <2>1, <2>2, StatsFacts, Zenon DEF CountOutcome, Stats
  <2>3. CASE outcome[w] = "failed"
    BY <2>1, <2>3, StatsFacts, Zenon DEF CountOutcome, Stats
  <2>4. CASE outcome[w] = "cancelled"
    BY <2>1, <2>4, StatsFacts, Zenon DEF CountOutcome, Stats
  <2>5. QED
    BY <2>1, <2>2, <2>3, <2>4, Zenon
<1>9. TypeOK'
  BY <1>2, <1>3, <1>4, <1>7, <1>8, Zenon DEF IInv, TypeOK
<1>10. SettledOnce'
  <2>1. outcome[w] # "pending"
    BY <1>4, Zenon DEF Outcomes
  <2>2. ~InQueue(e) /\ ~IsAbandoned(e)
    BY <1>1, Zenon DEF IInv, SettledOnce
  <2>3. QED
    BY <1>1, <1>4, <1>5, <1>6, <2>1, <2>2 DEF IInv, SettledOnce
<1>11. CancelledReportsCancelled'
  BY <1>4 DEF IInv, TypeOK, CancelledReportsCancelled, Discipline
<1>12. Discipline'
  <2>1. \A t \in Tasks : promise'[t] = "unsubmitted" <=> t > stats'.submitted
    BY <1>1, <1>4, <1>8, ZenonT(30) DEF IInv, Discipline, Outcomes
  <2>2. QED
    BY <1>2, <1>3, <1>7, <2>1 DEF IInv, Discipline
<1>13. QED
  BY <1>9, <1>10, <1>11, <1>12, Zenon DEF IInv

\* shutdown(true) moves no task; shutdown(false) moves the whole queue into `abandoned`.
LEMMA ShutdownBeginInv ==
  ASSUME IInv, NEW c \in Clients, NEW drain \in BOOLEAN, ShutdownBegin(c, drain)
  PROVE  IInv'
<1> USE DEF ShutdownBegin, Calls, workerVars
<1>1. /\ \A d \in Clients : cpc[d] = "idle" /\ abandoned[d] = <<>>
      /\ threads = Workers /\ owner = "held"
  BY Zenon DEF IInv, Discipline
<1>2. /\ cpc' \in [Clients -> ClientPC]
      /\ \A d \in Clients : d # c => cpc'[d] = "idle"
      /\ cpc'[c] \in {"notify", "drain"}
  BY <1>1, Zenon DEF IInv, TypeOK, ClientPC
<1>3. CancelledReportsCancelled'
  BY Zenon DEF IInv, CancelledReportsCancelled
<1>4. CASE drain
  <2>1. SameHands
    BY <1>4, Zenon DEF IInv, TypeOK, SameHands
  <2>2. SettledOnce' /\ Busy' = Busy
    BY <2>1, SameHandsFacts, Zenon DEF IInv
  <2>3. TypeOK'
    BY <1>2, <2>1, Zenon DEF IInv, TypeOK, SameHands
  <2>4. Discipline'
    BY <1>1, <1>2, <2>1, <2>2, PoolAssumption DEF IInv, Discipline, SameHands
  <2>5. QED
    BY <1>3, <2>2, <2>3, <2>4, Zenon DEF IInv
<1>5. CASE ~drain
  <2>1. /\ queue' = <<>> /\ cpc'[c] = "notify"
        /\ abandoned' \in [Clients -> Seq(Tasks)]
        /\ abandoned'[c] = queue
        /\ \A d \in Clients : d # c => abandoned'[d] = <<>>
    BY <1>1, <1>5, Zenon DEF IInv, TypeOK, AbandonQueue
  <2>2. Busy' = Busy
    BY Zenon DEF Busy
  <2>3. /\ \A t : ~InQueue(t)'
        /\ \A t : \A d \in Clients : InAbandoned(d, t)' <=> d = c /\ InQueue(t)
        /\ \A t : \A d \in Clients : ~InAbandoned(d, t)
        /\ \A t : \A w \in Workers : Holds(w, t)' <=> Holds(w, t)
    BY <1>1, <2>1, EmptyFacts, Zenon DEF InQueue, InAbandoned, Holds
  <2>4. \A t : (Held(t)' <=> Held(t)) /\ (IsAbandoned(t)' <=> InQueue(t)) /\ ~IsAbandoned(t)
    BY <2>3, Zenon DEF Held, IsAbandoned
  <2>5. Injective(queue') /\ \A d \in Clients : Injective(abandoned'[d])
    BY <2>1, EmptyFacts, Zenon DEF IInv, SettledOnce
  <2>6. SettledOnce'
    BY <2>3, <2>4, <2>5, Zenon DEF IInv, SettledOnce
  <2>7. queue' \in Seq(Tasks)
    BY <2>1
  <2>8. TypeOK'
    BY <1>2, <2>1, <2>7, Zenon DEF IInv, TypeOK
  <2>9. Discipline'
    BY <1>1, <1>2, <2>1, <2>2, PoolAssumption DEF IInv, Discipline
  <2>10. QED
    BY <1>3, <2>6, <2>8, <2>9, Zenon DEF IInv
<1>6. QED
  BY <1>4, <1>5, Zenon

\* shutdown(false) settles the promise of an abandoned task, which is pending and which
\* no worker holds.
LEMMA ShutdownSettleInv ==
  ASSUME IInv, NEW c \in Clients, ShutdownSettle(c)
  PROVE  IInv'
<1> DEFINE e == Head(abandoned[c])
<1> USE DEF ShutdownSettle, workerVars
<1>1. abandoned[c] \in Seq(Tasks) /\ Injective(abandoned[c])
  BY Zenon DEF IInv, TypeOK, SettledOnce
<1>2. /\ e \in Tasks /\ InAbandoned(c, e)
      /\ Tail(abandoned[c]) \in Seq(Tasks) /\ Injective(Tail(abandoned[c]))
      /\ \A t : In(Tail(abandoned[c]), t) <=> InAbandoned(c, t) /\ t # e
  BY <1>1, TailFacts, Zenon DEF InAbandoned
<1>3. /\ abandoned' \in [Clients -> Seq(Tasks)]
      /\ abandoned'[c] = Tail(abandoned[c])
      /\ \A d \in Clients : d # c => abandoned'[d] = abandoned[d]
  BY <1>2, Zenon DEF IInv, TypeOK
<1>4. promise[e] = "pending" /\ IsAbandoned(e) /\ ~InQueue(e) /\ ~Held(e)
  <2>1. IsAbandoned(e)
    BY <1>2, Zenon DEF IsAbandoned
  <2>2. QED
    BY <1>2, <2>1, Zenon DEF IInv, SettledOnce
<1>5. /\ cpc' \in [Clients -> ClientPC]
      /\ cpc[c] = "abandon" /\ cpc'[c] = "count"
      /\ \A d \in Clients : d # c => cpc'[d] = cpc[d]
  BY <1>4, Zenon DEF IInv, TypeOK, ClientPC
<1>6. /\ \A t \in Tasks : promise'[t] = IF t = e THEN "cancelled" ELSE promise[t]
      /\ promise' \in [Tasks -> {"unsubmitted", "pending"} \cup Outcomes]
  BY <1>2, <1>4, Zenon DEF IInv, TypeOK, Outcomes
<1>7. /\ \A t \in Tasks, d \in Clients : InAbandoned(d, t)' <=> InAbandoned(d, t) /\ t # e
      /\ \A t \in Tasks : IsAbandoned(t)' <=> IsAbandoned(t) /\ t # e
  <2>1. \A d \in Clients : InAbandoned(d, e) => d = c
    BY <1>2, Zenon DEF IInv, SettledOnce
  <2>2. \A t \in Tasks, d \in Clients : InAbandoned(d, t)' <=> InAbandoned(d, t) /\ t # e
    BY <1>2, <1>3, <2>1, Zenon DEF InAbandoned
  <2>3. QED
    BY <2>2, Zenon DEF IsAbandoned
<1>8. /\ \A t : InQueue(t)' <=> InQueue(t)
      /\ \A t : \A w \in Workers : Holds(w, t)' <=> Holds(w, t)
      /\ \A t : Held(t)' <=> Held(t)
      /\ Injective(queue)' = Injective(queue)
      /\ \A d \in Clients : Injective(abandoned'[d])
      /\ Busy' = Busy
  BY <1>2, <1>3, Zenon DEF IInv, SettledOnce, InQueue, Holds, Held, Busy
<1>9. TypeOK'
  BY <1>2, <1>3, <1>5, <1>6, Zenon DEF IInv, TypeOK
<1>10. SettledOnce'
  BY <1>2, <1>4, <1>6, <1>7, <1>8, Zenon DEF IInv, SettledOnce
<1>11. CancelledReportsCancelled'
  BY <1>6 DEF IInv, TypeOK, CancelledReportsCancelled
<1>12. Discipline'
  <2>1. \A w \in Workers : wpc[w] = "settle" => wtask[w] # e
    BY <1>4, Zenon DEF Held, Holds
  <2>2. \A t \in Tasks : promise'[t] = "unsubmitted" <=> promise[t] = "unsubmitted"
    BY <1>4, <1>6, Zenon
  <2>3. QED
    BY <1>3, <1>5, <1>8, <2>1, <2>2 DEF IInv, Discipline
<1>13. QED
  BY <1>9, <1>10, <1>11, <1>12, Zenon DEF IInv

\* ~State runs when every worker has left: the queue is empty and it settles nothing.
LEMMA DestroyStateInv ==
  ASSUME IInv, DestroyState
  PROVE  IInv'
<1> USE DEF DestroyState, workerVars, clientVars
<1>1. queue = <<>> /\ stopping
  BY PoolAssumption, Zenon DEF IInv, Discipline
<1>2. promise' = promise
  BY <1>1 DEF IInv, TypeOK
<1>3. SameHands
  BY <1>1, <1>2, Zenon DEF IInv, TypeOK, SameHands
<1>4. SettledOnce' /\ Busy' = Busy
  BY <1>3, SameHandsFacts, Zenon DEF IInv
<1>5. TypeOK'
  BY <1>3, Zenon DEF IInv, TypeOK, SameHands
<1>6. CancelledReportsCancelled'
  BY <1>2, Zenon DEF IInv, CancelledReportsCancelled
<1>7. Discipline'
  BY <1>1, <1>2, <1>4, Zenon DEF IInv, Discipline
<1>8. QED
  BY <1>4, <1>5, <1>6, <1>7, Zenon DEF IInv

-----------------------------------------------------------------------------
(* The theorems.                                                            *)

\* Every step of every thread preserves the inductive invariant.
LEMMA StepInv == IInv /\ [Next]_vars => IInv'
<1> SUFFICES ASSUME IInv, [Next]_vars PROVE IInv'
  BY Zenon
<1>1. ASSUME NEW c \in Clients, ShutdownStep(c) PROVE IInv'
  BY <1>1, DrainRecheckInv, ShutdownNotifyInv, ShutdownSettleInv, ShutdownCountInv,
     ShutdownJoinInv, ShutdownClearInv, Zenon DEF ShutdownStep
<1>2. ASSUME NEW w \in Workers, WorkerStep(w) PROVE IInv'
  BY <1>2, WorkerBlockInv, WorkerExitInv, WorkerTakeInv, WorkerRunInv, WorkerSettleInv, Zenon
     DEF WorkerStep
<1>3. CASE UNCHANGED vars
  <2>1. SameHands
    BY <1>3, Zenon DEF IInv, TypeOK, SameHands, vars
  <2>2. SettledOnce' /\ Busy' = Busy
    BY <2>1, SameHandsFacts, Zenon DEF IInv
  <2>3. TypeOK' /\ CancelledReportsCancelled'
    BY <1>3, Zenon DEF IInv, TypeOK, CancelledReportsCancelled, vars
  <2>4. Discipline'
    BY <1>3, <2>2, Zenon DEF IInv, Discipline, vars
  <2>5. QED
    BY <2>2, <2>3, <2>4, Zenon DEF IInv
<1>4. CASE Next
  BY <1>1, <1>2, <1>4, SubmitAcceptedInv, SubmitRefusedInv, CancelPendingInv, ShutdownBeginInv,
     ReentrantSubmitInv, SpuriousWakeupInv, ReleaseInv, DestroyStateInv, Zenon DEF Next
<1>5. QED
  BY <1>3, <1>4, Zenon

\* The inductive invariant holds in every reachable state.
THEOREM Invariance == Spec => []IInv
<1>1. QED
  BY InitInv, StepInv, PTL DEF Spec

\* Every variable of the pool keeps its type; in particular State::active, an unsigned
\* counter in the code, never goes below zero.
THEOREM TypeCorrect == Spec => []TypeOK
<1>1. IInv => TypeOK
  BY Zenon DEF IInv
<1>2. QED
  BY <1>1, Invariance, PTL

\* A promise is pending exactly while its task is in one place, so it is set exactly once:
\* no set_value of a worker or of shutdown() meets a settled promise, and no accepted
\* task is dropped between the queue, the workers and the abandoned list.
THEOREM PromisesSettledOnce == Spec => []SettledOnce
<1>1. IInv => SettledOnce
  BY Zenon DEF IInv
<1>2. QED
  BY <1>1, Invariance, PTL

\* A task whose token was cancelled by cancel_pending() or shutdown(false) before a worker
\* started it never reports anything but `cancelled`.
THEOREM CancellationIsHonoured == Spec => []CancelledReportsCancelled
<1>1. IInv => CancelledReportsCancelled
  BY Zenon DEF IInv
<1>2. QED
  BY <1>1, Invariance, PTL

\* When shutdown() has joined and cleared its threads, every worker has left its loop, the
\* queue is empty and no future is left pending.
THEOREM ShutdownLeavesQuiet == Spec => []QuietAfterShutdown
<1>1. IInv => QuietAfterShutdown
  <2>1. SUFFICES ASSUME IInv, stopping, threads = {}
                 PROVE  /\ \A w \in Workers : wpc[w] = "exit"
                        /\ queue = <<>> /\ active = 0
                        /\ \A t \in Tasks : promise[t] # "pending"
    BY Zenon DEF QuietAfterShutdown
  <2>2. /\ \A w \in Workers : wpc[w] = "exit"
        /\ \A c \in Clients : abandoned[c] = <<>>
    BY <2>1, Zenon DEF IInv, Discipline
  <2>3. queue = <<>>
    BY <2>1, <2>2, PoolAssumption, Zenon DEF IInv, Discipline
  <2>4. active = 0
    <3>1. Busy = {}
      BY <2>2, Zenon DEF Busy
    <3>2. QED
      BY <2>1, <3>1, BusyFacts, Zenon DEF IInv, Discipline
  <2>5. \A t \in Tasks : ~InQueue(t) /\ ~Held(t) /\ ~IsAbandoned(t)
    BY <2>2, <2>3, EmptyFacts, Zenon DEF InQueue, Held, Holds, IsAbandoned, InAbandoned
  <2>6. \A t \in Tasks : promise[t] # "pending"
    BY <2>1, <2>5, Zenon DEF IInv, SettledOnce
  <2>7. QED
    BY <2>2, <2>3, <2>4, <2>6, Zenon
<1>2. QED
  BY <1>1, Invariance, PTL

-----------------------------------------------------------------------------
(* Wakeups.                                                                 *)

\* The workers on their way to the critical section at the top of their loop.
Looping == {w \in Workers : wpc[w] = "loop"}

\* One worker more, or one worker less, on the way to the queue.
LEMMA LoopingFacts ==
  /\ Cardinality(Looping) \in Nat
  /\ \A w : w \notin Looping => Cardinality(Looping \cup {w}) = Cardinality(Looping) + 1
  /\ \A w \in Looping : Cardinality(Looping \ {w}) = Cardinality(Looping) - 1
<1>1. IsFiniteSet(Looping)
  BY PoolAssumption, FS_Subset, Zenon DEF Looping
<1>2. QED
  BY <1>1, FS_CardinalityType, FS_AddElement, FS_RemoveElement, Zenon

\* A step that neither lengthens the queue, nor puts a worker to sleep, nor takes one off
\* its way to the queue loses no wakeup.
LEMMA NobodyForgotten ==
  ASSUME NoLostWakeup, queue \in Seq(Tasks), queue' \in Seq(Tasks), Len(queue') <= Len(queue),
         Waiting' \subseteq Waiting, Looping \subseteq Looping'
  PROVE  NoLostWakeup'
<1>1. IsFiniteSet(Looping') /\ Looping \in SUBSET Looping'
  BY PoolAssumption, FS_Subset, Zenon DEF Looping
<1>2. Cardinality(Looping) <= Cardinality(Looping')
  BY <1>1, FS_Subset, Zenon
<1>3. Cardinality(Looping) \in Nat /\ Cardinality(Looping') \in Nat
  BY <1>1, LoopingFacts, FS_CardinalityType, Zenon
<1>4. CASE Waiting = {}
  BY <1>4, Zenon DEF NoLostWakeup
<1>5. CASE Len(queue) <= Cardinality(Looping)
  <2>1. Len(queue') <= Cardinality(Looping')
    BY <1>2, <1>3, <1>5
  <2>2. QED
    BY <2>1, Zenon DEF NoLostWakeup, Looping
<1>6. QED
  BY <1>4, <1>5, Zenon DEF NoLostWakeup, Looping

\* submit() notifies one sleeping worker for the one task it queues.
LEMMA SubmitWakes ==
  ASSUME IInv, NoLostWakeup, NEW c \in Clients, SubmitAccepted(c)
  PROVE  NoLostWakeup'
<1>1. queue \in Seq(Tasks) /\ wpc \in [Workers -> WorkerPC]
  BY Zenon DEF IInv, TypeOK
<1>2. Len(queue') = Len(queue) + 1 /\ Len(queue) \in Nat
  BY <1>1 DEF SubmitAccepted
<1>3. CASE Waiting = {}
  BY <1>3, Zenon DEF SubmitAccepted, NotifyOneNotEmpty, NoLostWakeup, Waiting
<1>4. CASE Waiting # {}
  <2>1. PICK w \in Waiting : wpc' = [wpc EXCEPT ![w] = "loop"]
    BY <1>4, Zenon DEF SubmitAccepted, NotifyOneNotEmpty
  <2>2. Looping' = Looping \cup {w} /\ w \notin Looping
    BY <1>1, <2>1, Zenon DEF Waiting, Looping
  <2>3. Cardinality(Looping') = Cardinality(Looping) + 1 /\ Cardinality(Looping) \in Nat
    BY <2>2, LoopingFacts, Zenon
  <2>4. Len(queue) <= Cardinality(Looping)
    BY <1>4, Zenon DEF NoLostWakeup, Looping
  <2>5. Len(queue') <= Cardinality(Looping')
    BY <1>2, <2>3, <2>4
  <2>6. QED
    BY <2>5, Zenon DEF NoLostWakeup, Looping
<1>5. QED
  BY <1>3, <1>4, Zenon

\* A worker that takes a task shortens the queue by the task it came for.
LEMMA TakeKeepsWakeups ==
  ASSUME IInv, NoLostWakeup, NEW w \in Workers, WorkerTake(w)
  PROVE  NoLostWakeup'
<1>1. queue \in Seq(Tasks) /\ wpc \in [Workers -> WorkerPC]
  BY Zenon DEF IInv, TypeOK
<1>2. Len(queue') = Len(queue) - 1 /\ Len(queue) \in Nat
  BY <1>1 DEF WorkerTake
<1>3. Looping' = Looping \ {w} /\ w \in Looping /\ Waiting' = Waiting
  BY <1>1, Zenon DEF WorkerTake, Looping, Waiting
<1>4. Cardinality(Looping') = Cardinality(Looping) - 1 /\ Cardinality(Looping) \in Nat
  BY <1>3, LoopingFacts, Zenon
<1>5. CASE Waiting = {}
  BY <1>3, <1>5, Zenon DEF NoLostWakeup
<1>6. CASE Len(queue) <= Cardinality(Looping)
  <2>1. Len(queue') <= Cardinality(Looping')
    BY <1>2, <1>4, <1>6
  <2>2. QED
    BY <2>1, Zenon DEF NoLostWakeup, Looping
<1>7. QED
  BY <1>5, <1>6, Zenon DEF NoLostWakeup, Looping

\* With an empty queue nobody can be forgotten.
LEMMA EmptyQueueWakes ==
  ASSUME queue' = <<>>
  PROVE  NoLostWakeup'
<1>1. IsFiniteSet(Looping')
  BY PoolAssumption, FS_Subset, Zenon DEF Looping
<1>2. Cardinality(Looping') \in Nat
  BY <1>1, FS_CardinalityType, Zenon
<1>3. QED
  BY <1>2 DEF NoLostWakeup, Looping

\* Every step of every thread keeps the wakeups and the queued tasks in step.
LEMMA WakeupStep == IInv /\ NoLostWakeup /\ [Next]_vars => NoLostWakeup'
<1> SUFFICES ASSUME IInv, NoLostWakeup, [Next]_vars PROVE NoLostWakeup'
  BY Zenon
<1>1. queue \in Seq(Tasks) /\ wpc \in [Workers -> WorkerPC]
  BY Zenon DEF IInv, TypeOK
<1>2. ASSUME queue' = queue, wpc' = wpc PROVE NoLostWakeup'
  BY <1>1, <1>2, NobodyForgotten DEF Waiting, Looping
<1>3. ASSUME queue' = queue,
             \A w \in Workers : \/ wpc'[w] = wpc[w]
                                \/ wpc[w] # "loop" /\ wpc'[w] # "wait"
      PROVE  NoLostWakeup'
  <2>1. Waiting' \subseteq Waiting /\ Looping \subseteq Looping'
    BY <1>3, Zenon DEF Waiting, Looping
  <2>2. Len(queue') <= Len(queue) /\ queue' \in Seq(Tasks)
    BY <1>1, <1>3
  <2>3. QED
    BY <1>1, <2>1, <2>2, NobodyForgotten, Zenon
<1>4. ASSUME NEW c \in Clients, ShutdownStep(c) PROVE NoLostWakeup'
  <2>1. CASE ShutdownNotify(c)
    BY <1>1, <1>3, <2>1, Zenon DEF ShutdownNotify, NotifyAllNotEmpty
  <2>2. CASE ~ShutdownNotify(c)
    BY <1>2, <1>4, <2>2, Zenon DEF ShutdownStep, DrainRecheck, ShutdownSettle, ShutdownCount,
       ShutdownJoin, ShutdownClear, workerVars
  <2>3. QED
    BY <2>1, <2>2, Zenon
<1>5. ASSUME NEW w \in Workers, WorkerStep(w) PROVE NoLostWakeup'
  <2>1. CASE WorkerBlock(w) \/ WorkerExit(w)
    BY <2>1, EmptyQueueWakes, Zenon DEF WorkerBlock, WorkerExit
  <2>2. CASE WorkerTake(w)
    BY <2>2, TakeKeepsWakeups, Zenon
  <2>3. CASE WorkerRun(w)
    BY <1>1, <1>3, <2>3, Zenon DEF WorkerRun
  <2>4. CASE WorkerSettle(w)
    BY <1>1, <1>3, <2>4, Zenon DEF WorkerSettle
  <2>5. QED
    BY <1>5, <2>1, <2>2, <2>3, <2>4, Zenon DEF WorkerStep
<1>6. ASSUME NEW c \in Clients, NEW drain \in BOOLEAN, ShutdownBegin(c, drain) PROVE NoLostWakeup'
  <2>1. CASE drain
    BY <1>2, <1>6, <2>1, Zenon DEF ShutdownBegin, workerVars
  <2>2. CASE ~drain
    BY <1>6, <2>2, EmptyQueueWakes, Zenon DEF ShutdownBegin, AbandonQueue
  <2>3. QED
    BY <2>1, <2>2, Zenon
<1>7. CASE SpuriousWakeup
  <2>1. CASE \E w \in Waiting : wpc' = [wpc EXCEPT ![w] = "loop"] /\ queue' = queue
    BY <1>1, <1>3, <2>1, Zenon DEF Waiting
  <2>2. CASE wpc' = wpc /\ queue' = queue
    BY <1>2, <2>2, Zenon
  <2>3. QED
    BY <1>7, <2>1, <2>2, Zenon DEF SpuriousWakeup, workerVars
<1>8. CASE DestroyState
  BY <1>8, EmptyQueueWakes, Zenon DEF DestroyState
<1>9. ASSUME NEW c \in Clients, SubmitRefused(c) \/ CancelPending(c) PROVE NoLostWakeup'
  BY <1>2, <1>9, Zenon DEF SubmitRefused, CancelPending, workerVars
<1>10. ASSUME NEW w \in Workers, ReentrantSubmit(w) PROVE NoLostWakeup'
  BY <1>2, <1>10, Zenon DEF ReentrantSubmit, workerVars
<1>11. CASE Release
  BY <1>2, <1>11, Zenon DEF Release, workerVars
<1>12. CASE UNCHANGED vars
  BY <1>2, <1>12, Zenon DEF vars
<1>13. CASE Next
  BY <1>4, <1>5, <1>6, <1>7, <1>8, <1>9, <1>10, <1>11, <1>13, SubmitWakes, Zenon DEF Next
<1>14. QED
  BY <1>12, <1>13, Zenon

\* submit() notifies one waiter per task and a worker sleeps only on an empty queue, so no
\* wakeup is lost: with any number of workers, whenever one of them sleeps, at least as
\* many others are on their way to the queue as it holds tasks.
THEOREM WakeupsAreNotLost == Spec => []NoLostWakeup
<1>1. Init => NoLostWakeup
  BY Zenon DEF Init, NoLostWakeup, Waiting
<1>2. QED
  BY <1>1, WakeupStep, Invariance, PTL DEF Spec

-----------------------------------------------------------------------------
(* Counters.                                                                *)

\* The tasks whose future shows o, the tasks submit() has accepted, and the shutdown call
\* between settling an abandoned promise and counting it.
Showing(o) == {t \in Tasks : promise[t] = o}
Accepted == {t \in Tasks : promise[t] # "unsubmitted"}
Counting == {c \in Clients : cpc[c] = "count"}

\* The part of CountersMatchFutures that Discipline does not already say.
Accounts ==
  /\ stats.submitted = Cardinality(Accepted)
  /\ stats.completed = Cardinality(Showing("value"))
  /\ stats.failed = Cardinality(Showing("failed"))
  /\ stats.cancelled + Cardinality(Counting) = Cardinality(Showing("cancelled"))
  /\ Len(queue) <= stats.peak_pending /\ stats.peak_pending <= QueueDepth

\* The futures that show one result are a finite set, which grows by one at a time.
LEMMA ShowingFacts ==
  /\ \A o : /\ IsFiniteSet(Showing(o)) /\ Cardinality(Showing(o)) \in Nat
            /\ \A t : t \notin Showing(o) => Cardinality(Showing(o) \cup {t}) = Cardinality(Showing(o)) + 1
  /\ IsFiniteSet(Accepted) /\ Cardinality(Accepted) \in Nat
  /\ \A t : t \notin Accepted => Cardinality(Accepted \cup {t}) = Cardinality(Accepted) + 1
<1>1. IsFiniteSet(Tasks)
  BY PoolAssumption, FS_Interval DEF Tasks
<1>2. ASSUME NEW o PROVE IsFiniteSet(Showing(o))
  BY <1>1, FS_Subset, Zenon DEF Showing
<1>3. IsFiniteSet(Accepted)
  BY <1>1, FS_Subset, Zenon DEF Accepted
<1>4. QED
  BY <1>2, <1>3, FS_CardinalityType, FS_AddElement, Zenon

\* One future moves from pending to a result: that result is shown once more, and every
\* other one as often as before.
LEMMA SettleFacts ==
  ASSUME NEW e \in Tasks, promise[e] = "pending", NEW o \in Outcomes,
         \A t \in Tasks : promise'[t] = IF t = e THEN o ELSE promise[t]
  PROVE  /\ Cardinality(Showing(o)') = Cardinality(Showing(o)) + 1
         /\ \A p \in Outcomes : p # o => Showing(p)' = Showing(p)
         /\ Accepted' = Accepted
<1>1. o # "pending" /\ o # "unsubmitted" /\ \A p \in Outcomes : p # "pending"
  BY Zenon DEF Outcomes
<1>2. Showing(o)' = Showing(o) \cup {e} /\ e \notin Showing(o)
  BY <1>1, Zenon DEF Showing
<1>3. \A p \in Outcomes : p # o => Showing(p)' = Showing(p)
  BY <1>1, Zenon DEF Showing
<1>4. Accepted' = Accepted
  BY <1>1, Zenon DEF Accepted
<1>5. QED
  BY <1>2, <1>3, <1>4, ShowingFacts, Zenon

\* A step that settles nothing, counts nothing but a refusal, and does not lengthen the
\* queue.
QuietStep ==
  /\ promise' = promise /\ Counting' = Counting
  /\ stats'.submitted = stats.submitted /\ stats'.completed = stats.completed
  /\ stats'.failed = stats.failed /\ stats'.cancelled = stats.cancelled
  /\ stats'.peak_pending = stats.peak_pending
  /\ queue' \in Seq(Tasks) /\ Len(queue') <= Len(queue)

\* Such a step keeps the accounts.
LEMMA QuietKeepsAccounts ==
  ASSUME IInv, Accounts, QuietStep
  PROVE  Accounts'
<1>1. Accepted' = Accepted /\ \A o : Showing(o)' = Showing(o)
  BY Zenon DEF QuietStep, Accepted, Showing
<1>2. stats.peak_pending \in Nat /\ Len(queue) \in Nat /\ Len(queue') \in Nat
  BY DEF IInv, TypeOK, Stats, QuietStep
<1>3. Len(queue') <= stats'.peak_pending
  BY <1>2 DEF Accounts, QuietStep
<1>4. QED
  BY <1>1, <1>3, Zenon DEF Accounts, QuietStep

\* Shutdown calls do not overlap, so at most one of them is about to count.
LEMMA AtMostOneCounts ==
  ASSUME IInv
  PROVE  /\ Cardinality(Counting) \in Nat
         /\ \A c \in Clients : cpc[c] # "idle" => Counting = IF cpc[c] = "count" THEN {c} ELSE {}
<1>1. \A c \in Clients : cpc[c] # "idle" => Counting = IF cpc[c] = "count" THEN {c} ELSE {}
  BY ZenonT(30) DEF IInv, Discipline, Counting
<1>2. CASE Counting = {}
  BY <1>1, <1>2, FS_EmptySet
<1>3. CASE Counting # {}
  <2>1. PICK c \in Clients : cpc[c] = "count"
    BY <1>3, Zenon DEF Counting
  <2>2. Counting = {c}
    BY <1>1, <2>1, Zenon
  <2>3. Cardinality(Counting) = 1
    BY <2>2, FS_Singleton, Zenon
  <2>4. QED
    BY <1>1, <2>3
<1>4. QED
  BY <1>2, <1>3, Zenon

\* submit() counts the task it queues, within the queue's limit.
LEMMA SubmitAccounts ==
  ASSUME IInv, Accounts, NEW c \in Clients, SubmitAccepted(c)
  PROVE  Accounts'
<1> DEFINE e == stats.submitted + 1
<1>1. queue \in Seq(Tasks) /\ stats \in Stats
      /\ promise \in [Tasks -> {"unsubmitted", "pending"} \cup Outcomes]
  BY Zenon DEF IInv, TypeOK
<1>2. e \in Tasks /\ promise[e] = "unsubmitted"
  BY <1>1, PoolAssumption DEF SubmitAccepted, Tasks, Stats, IInv, Discipline
<1>3. \A t \in Tasks : promise'[t] = IF t = e THEN "pending" ELSE promise[t]
  BY <1>1, Zenon DEF SubmitAccepted
<1>4. Accepted' = Accepted \cup {e} /\ e \notin Accepted
  BY <1>2, <1>3, Zenon DEF Accepted
<1>5. \A o \in Outcomes : Showing(o)' = Showing(o)
  BY <1>2, <1>3, Zenon DEF Showing, Outcomes
<1>6. Len(queue') = Len(queue) + 1 /\ Len(queue) \in Nat /\ Counting' = Counting
  BY <1>1 DEF SubmitAccepted, Counting, clientVars
<1>7. /\ stats'.submitted = stats.submitted + 1 /\ stats'.completed = stats.completed
      /\ stats'.failed = stats.failed /\ stats'.cancelled = stats.cancelled
      /\ stats'.peak_pending = IF Len(queue) + 1 > stats.peak_pending
                               THEN Len(queue) + 1 ELSE stats.peak_pending
      /\ stats.peak_pending \in Nat /\ stats.submitted \in Nat
  BY <1>1, Zenon DEF SubmitAccepted, Stats
<1>8. Len(queue') <= stats'.peak_pending /\ stats'.peak_pending <= QueueDepth
  BY <1>6, <1>7, PoolAssumption DEF Accounts, SubmitAccepted
<1>9. stats'.submitted = Cardinality(Accepted')
  BY <1>4, <1>7, ShowingFacts, Zenon DEF Accounts
<1>10. QED
  BY <1>5, <1>6, <1>7, <1>8, <1>9, Zenon DEF Accounts, Outcomes

\* A worker counts the result it settles a pending promise with.
LEMMA WorkerAccounts ==
  ASSUME IInv, Accounts, NEW w \in Workers, WorkerSettle(w)
  PROVE  Accounts'
<1>1. /\ queue \in Seq(Tasks) /\ stats \in Stats /\ outcome[w] \in Outcomes
      /\ promise \in [Tasks -> {"unsubmitted", "pending"} \cup Outcomes]
      /\ cpc \in [Clients -> ClientPC]
  BY Zenon DEF IInv, TypeOK
<1>2. PICK e \in Tasks, o \in Outcomes : e = wtask[w] /\ o = outcome[w] /\ promise[e] = "pending"
  <2>1. wtask[w] \in Tasks /\ Held(wtask[w])
    BY Zenon DEF WorkerSettle, IInv, Discipline, Holds, Held
  <2>2. QED
    BY <1>1, <2>1, Zenon DEF IInv, SettledOnce
<1>3. \A t \in Tasks : promise'[t] = IF t = e THEN o ELSE promise[t]
  BY <1>1, <1>2, Zenon DEF WorkerSettle
<1>4. /\ Cardinality(Showing(o)') = Cardinality(Showing(o)) + 1
      /\ \A p \in Outcomes : p # o => Showing(p)' = Showing(p)
      /\ Accepted' = Accepted
  BY <1>1, <1>2, <1>3, SettleFacts, Zenon
<1>5. Counting' = Counting
  BY <1>1, Zenon DEF WorkerSettle, NotifyIdle, Counting
<1>6. queue' = queue /\ stats' = CountOutcome(o)
  BY <1>2, Zenon DEF WorkerSettle
<1>7. /\ stats'.submitted = stats.submitted /\ stats'.peak_pending = stats.peak_pending
      /\ stats'.completed = IF o = "value" THEN stats.completed + 1 ELSE stats.completed
      /\ stats'.failed = IF o = "failed" THEN stats.failed + 1 ELSE stats.failed
      /\ stats'.cancelled = IF o = "cancelled" THEN stats.cancelled + 1 ELSE stats.cancelled
  BY <1>1, <1>2, <1>6, Zenon DEF CountOutcome, Stats, Outcomes
<1>8. /\ stats'.completed = Cardinality(Showing("value")')
      /\ stats'.failed = Cardinality(Showing("failed")')
  BY <1>1, <1>4, <1>7, Zenon DEF Accounts, Outcomes
<1>9. stats'.cancelled + Cardinality(Counting) = Cardinality(Showing("cancelled")')
  <2>1. CASE o # "cancelled"
    BY <1>1, <1>4, <1>7, <2>1, Zenon DEF Accounts, Outcomes
  <2>2. CASE o = "cancelled"
    <3>1. Cardinality(Counting) \in Nat /\ stats.cancelled \in Nat
      BY <1>1, AtMostOneCounts, Zenon DEF Stats
    <3>2. QED
      BY <1>4, <1>7, <2>2, <3>1 DEF Accounts
  <2>3. QED
    BY <2>1, <2>2, Zenon
<1>10. QED
  BY <1>4, <1>5, <1>6, <1>7, <1>8, <1>9, Zenon DEF Accounts

\* shutdown(false) settles an abandoned promise first and owes the count.
LEMMA SettleAccounts ==
  ASSUME IInv, Accounts, NEW c \in Clients, ShutdownSettle(c)
  PROVE  Accounts'
<1>1. /\ abandoned[c] \in Seq(Tasks) /\ cpc \in [Clients -> ClientPC] /\ stats \in Stats
      /\ promise \in [Tasks -> {"unsubmitted", "pending"} \cup Outcomes]
  BY Zenon DEF IInv, TypeOK
<1>2. PICK e \in Tasks : e = Head(abandoned[c]) /\ promise[e] = "pending"
  <2>1. Head(abandoned[c]) \in Tasks /\ IsAbandoned(Head(abandoned[c]))
    BY <1>1, TailFacts, Zenon DEF ShutdownSettle, IInv, SettledOnce, InAbandoned, IsAbandoned
  <2>2. QED
    BY <2>1, Zenon DEF IInv, SettledOnce
<1>3. /\ promise' = [promise EXCEPT ![e] = "cancelled"]
      /\ cpc' = [cpc EXCEPT ![c] = "count"] /\ cpc[c] = "abandon"
      /\ stats' = stats /\ queue' = queue
  BY <1>2, Zenon DEF ShutdownSettle
<1>4. \A t \in Tasks : promise'[t] = IF t = e THEN "cancelled" ELSE promise[t]
  BY <1>1, <1>3, Zenon
<1>5. /\ Cardinality(Showing("cancelled")') = Cardinality(Showing("cancelled")) + 1
      /\ \A p \in Outcomes : p # "cancelled" => Showing(p)' = Showing(p)
      /\ Accepted' = Accepted
  BY <1>2, <1>4, SettleFacts, Zenon DEF Outcomes
<1>6. Counting = {} /\ Counting' = {c}
  <2>1. Counting = {}
    BY <1>3, AtMostOneCounts, Zenon
  <2>2. QED
    BY <1>1, <1>3, <2>1, Zenon DEF Counting
<1>7. Cardinality(Counting) = 0 /\ Cardinality(Counting') = 1
  BY <1>6, FS_EmptySet, FS_Singleton, Zenon
<1>8. stats.cancelled \in Nat
  BY <1>1, Zenon DEF Stats
<1>9. QED
  BY <1>3, <1>5, <1>7, <1>8 DEF Accounts, Outcomes

\* ... and pays it, under the mutex.
LEMMA CountAccounts ==
  ASSUME IInv, Accounts, NEW c \in Clients, ShutdownCount(c)
  PROVE  Accounts'
<1>1. cpc \in [Clients -> ClientPC] /\ stats \in Stats
  BY Zenon DEF IInv, TypeOK
<1>2. /\ promise' = promise /\ queue' = queue
      /\ cpc' = [cpc EXCEPT ![c] = "abandon"] /\ cpc[c] = "count"
      /\ stats' = [stats EXCEPT !.cancelled = @ + 1]
  BY Zenon DEF ShutdownCount
<1>3. /\ stats'.submitted = stats.submitted /\ stats'.completed = stats.completed
      /\ stats'.failed = stats.failed /\ stats'.peak_pending = stats.peak_pending
      /\ stats'.cancelled = stats.cancelled + 1 /\ stats.cancelled \in Nat
  BY <1>1, <1>2, Zenon DEF Stats
<1>4. Counting = {c} /\ Counting' = {}
  <2>1. Counting = {c}
    BY <1>2, AtMostOneCounts, Zenon
  <2>2. QED
    BY <1>1, <1>2, <2>1, Zenon DEF Counting
<1>5. Cardinality(Counting) = 1 /\ Cardinality(Counting') = 0
  BY <1>4, FS_EmptySet, FS_Singleton, Zenon
<1>6. Accepted' = Accepted /\ \A o : Showing(o)' = Showing(o)
  BY <1>2, Zenon DEF Accepted, Showing
<1>7. QED
  BY <1>2, <1>3, <1>5, <1>6 DEF Accounts

\* Every step of every thread keeps Pool::Stats in agreement with the futures.
LEMMA AccountsStep == IInv /\ Accounts /\ [Next]_vars => Accounts'
<1> SUFFICES ASSUME IInv, Accounts, [Next]_vars PROVE Accounts'
  BY Zenon
<1>1. /\ queue \in Seq(Tasks) /\ stats \in Stats /\ cpc \in [Clients -> ClientPC]
      /\ Len(queue) \in Nat
  BY DEF IInv, TypeOK
<1>2. SUFFICES QuietStep \/ Accounts'
  BY QuietKeepsAccounts, Zenon
<1>3. ASSUME NEW c \in Clients, ShutdownStep(c) PROVE QuietStep \/ Accounts'
  <2>1. CASE ShutdownSettle(c) \/ ShutdownCount(c)
    BY <2>1, SettleAccounts, CountAccounts, Zenon
  <2>2. CASE DrainRecheck(c) \/ ShutdownNotify(c) \/ ShutdownJoin(c) \/ ShutdownClear(c)
    <3>1. Counting' = Counting
      BY <1>1, <2>2, Zenon DEF Counting, DrainRecheck, ShutdownNotify, ShutdownJoin, ShutdownClear
    <3>2. QED
      BY <1>1, <2>2, <3>1 DEF QuietStep, DrainRecheck, ShutdownNotify, ShutdownJoin, ShutdownClear
  <2>3. QED
    BY <1>3, <2>1, <2>2, Zenon DEF ShutdownStep
<1>4. ASSUME NEW w \in Workers, WorkerStep(w) \/ ReentrantSubmit(w) PROVE QuietStep \/ Accounts'
  <2>1. CASE WorkerSettle(w)
    BY <2>1, WorkerAccounts, Zenon
  <2>2. CASE WorkerTake(w)
    <3>1. queue' \in Seq(Tasks) /\ Len(queue') <= Len(queue)
      BY <1>1, <2>2 DEF WorkerTake
    <3>2. QED
      BY <2>2, <3>1, Zenon DEF QuietStep, WorkerTake, Counting, clientVars
  <2>3. CASE WorkerBlock(w) \/ WorkerExit(w) \/ WorkerRun(w)
    BY <1>1, <2>3 DEF QuietStep, WorkerBlock, WorkerExit, WorkerRun, Counting, clientVars
  <2>4. CASE ReentrantSubmit(w)
    BY <1>1, <2>4 DEF QuietStep, ReentrantSubmit, Counting, clientVars, Stats
  <2>5. QED
    BY <1>4, <2>1, <2>2, <2>3, <2>4, Zenon DEF WorkerStep
<1>5. ASSUME NEW c \in Clients, NEW drain \in BOOLEAN, ShutdownBegin(c, drain)
      PROVE  QuietStep
  <2>1. Counting' = Counting
    BY <1>1, <1>5, Zenon DEF ShutdownBegin, Calls, Counting
  <2>2. queue' = queue \/ queue' = <<>>
    BY <1>5, Zenon DEF ShutdownBegin, AbandonQueue
  <2>3. queue' \in Seq(Tasks) /\ Len(queue') <= Len(queue)
    <3>1. CASE queue' = queue
      BY <1>1, <3>1
    <3>2. CASE queue' = <<>>
      <4>1. queue' \in Seq(Tasks) /\ Len(queue') = 0
        BY <3>2
      <4>2. QED
        BY <1>1, <4>1
    <3>3. QED
      BY <2>2, <3>1, <3>2, Zenon
  <2>4. QED
    BY <1>5, <2>1, <2>3, Zenon DEF QuietStep, ShutdownBegin
<1>6. ASSUME NEW c \in Clients, SubmitRefused(c) \/ CancelPending(c) PROVE QuietStep
  BY <1>1, <1>6 DEF QuietStep, SubmitRefused, CancelPending, Counting, clientVars, Stats
<1>7. CASE SpuriousWakeup
  <2>1. Counting' = Counting
    BY <1>1, <1>7, Zenon DEF SpuriousWakeup, Counting, clientVars
  <2>2. QED
    BY <1>1, <1>7, <2>1 DEF QuietStep, SpuriousWakeup
<1>8. CASE Release
  BY <1>1, <1>8 DEF QuietStep, Release, Counting, clientVars
<1>9. CASE DestroyState
  <2>1. queue = <<>>
    BY <1>9, PoolAssumption, Zenon DEF DestroyState, IInv, Discipline
  <2>2. promise' = promise
    BY <1>9, <2>1 DEF DestroyState, IInv, TypeOK
  <2>3. QED
    BY <1>1, <1>9, <2>1, <2>2 DEF QuietStep, DestroyState, Counting, clientVars
<1>10. CASE UNCHANGED vars
  BY <1>1, <1>10 DEF QuietStep, vars, Counting
<1>11. CASE Next
  BY <1>3, <1>4, <1>5, <1>6, <1>7, <1>8, <1>9, <1>11, SubmitAccounts, Zenon DEF Next
<1>12. QED
  BY <1>10, <1>11, Zenon

\* Pool::Stats agrees with what the futures show at every step, however submissions,
\* workers and an aborting shutdown interleave (the shutdown path settles one promise
\* before it counts it), `active` is the number of busy workers, and the queue and its
\* recorded peak never exceed queue_depth.
THEOREM CountersAgree == Spec => []CountersMatchFutures
<1>1. Init => Accounts
  <2>1. SUFFICES ASSUME Init PROVE Accounts
    BY Zenon
  <2>2. Accepted = {} /\ Counting = {} /\ \A o \in Outcomes : Showing(o) = {}
    BY <2>1, Zenon DEF Init, Accepted, Counting, Showing, Outcomes
  <2>3. /\ Cardinality(Accepted) = 0 /\ Cardinality(Counting) = 0
        /\ \A o \in Outcomes : Cardinality(Showing(o)) = 0
    BY <2>2, FS_EmptySet, Zenon
  <2>4. Len(queue) = 0
    BY <2>1, Zenon DEF Init
  <2>5. QED
    BY <2>1, <2>3, <2>4, PoolAssumption DEF Init, Accounts, Outcomes
<1>2. IInv /\ Accounts => CountersMatchFutures
  BY Zenon DEF IInv, Discipline, Busy, Accounts, Accepted, Showing, Counting, CountersMatchFutures
<1>3. QED
  BY <1>1, <1>2, AccountsStep, Invariance, PTL DEF Spec
=============================================================================
