---------------------------- MODULE EngineServer ----------------------------
(***************************************************************************)
(* The server in front of the engine: the operations that Server and       *)
(* ServerProofs take as parameters are those of Service.                    *)
(*                                                                         *)
(* First, what the engine calls of Service keep, for every engine state    *)
(* and every request that dispatch() reads completely: an entry that a     *)
(* lookup finds is found after any call, and the operations that take no   *)
(* exclusive lock change nothing.  This is what lets the server look names *)
(* up without the lock.  So the engine's calls obey the laws that serving  *)
(* needs, for any configuration of the engine, any clients and any such    *)
(* requests, and the whole of it serves requests atomically.               *)
(***************************************************************************)
EXTENDS Service, WellFoundedInduction, TLAPS

\* The shape of the engine's state: the catalog has every table, the registry both.
EngineOK(e) ==
  /\ e = [catalog |-> e.catalog, clocks |-> e.clocks, fences |-> e.fences,
          records |-> e.records, baselines |-> e.baselines]
  /\ e.catalog = [k \in Kinds |-> e.catalog[k]]
  /\ e.clocks = [domains |-> e.clocks.domains, syncs |-> e.clocks.syncs]

-----------------------------------------------------------------------------
(* The engine's calls.                                                      *)

\* upsert(): a definition keeps every name of every table.
LEMMA DefineGrows ==
  ASSUME NEW catalog, catalog = [k \in Kinds |-> catalog[k]], NEW def, def.kind \in Kinds
  PROVE  LET after == Define(catalog, def).catalog IN
         /\ after = [k \in Kinds |-> after[k]]
         /\ \A k \in Kinds : DOMAIN catalog[k] \subseteq DOMAIN after[k]
<1> DEFINE after == Define(catalog, def).catalog
           stored == [catalog EXCEPT ![def.kind] = Entered(@, def)]
<1>1. after \in {catalog, stored}
  <2>1. Upsert(catalog, def).catalog \in {catalog, stored} /\ Refused(catalog).catalog = catalog
    BY Zenon DEF Upsert, Refused
  <2>2. Define(catalog, def) \in {Upsert(catalog, def), Refused(catalog)}
    BY Zenon DEF Define, Kinds, DefineSource, DefineEndpoint, DefineLink, DefineQueue, DefineHop,
           DefineGeneration, DefinePath
  <2>3. QED
    BY <2>1, <2>2, Zenon
<1>2. /\ stored = [k \in Kinds |-> stored[k]]
      /\ \A k \in Kinds : DOMAIN catalog[k] \subseteq DOMAIN stored[k]
  BY Zenon DEF Entered
<1>3. QED
  BY <1>1, <1>2, Zenon

\* define_domain() and record_sync(): a domain stays defined.
LEMMA ClocksGrow ==
  ASSUME NEW clocks, clocks = [domains |-> clocks.domains, syncs |-> clocks.syncs]
  PROVE  /\ \A name, content : LET after == DefineDomain(clocks, name, content).clocks IN
              /\ after = [domains |-> after.domains, syncs |-> after.syncs]
              /\ DOMAIN clocks.domains \subseteq DOMAIN after.domains
         /\ \A sync : LET after == RecordSync(clocks, sync).clocks IN
              /\ after = [domains |-> after.domains, syncs |-> after.syncs]
              /\ DOMAIN clocks.domains \subseteq DOMAIN after.domains
<1>1. ASSUME NEW name, NEW content
      PROVE  LET after == DefineDomain(clocks, name, content).clocks IN
             /\ after = [domains |-> after.domains, syncs |-> after.syncs]
             /\ DOMAIN clocks.domains \subseteq DOMAIN after.domains
  <2> DEFINE more == [clocks EXCEPT !.domains = With(@, name, content)]
             after == DefineDomain(clocks, name, content).clocks
  <2>1. after \in {clocks, more}
    BY Zenon DEF DefineDomain
  <2>2. /\ more = [domains |-> more.domains, syncs |-> more.syncs]
        /\ DOMAIN clocks.domains \subseteq DOMAIN more.domains
    BY DEF With
  <2> HIDE DEF more, after
  <2>3. QED
    BY <2>1, <2>2, Zenon DEF after
<1>2. ASSUME NEW sync
      PROVE  LET after == RecordSync(clocks, sync).clocks IN
             /\ after = [domains |-> after.domains, syncs |-> after.syncs]
             /\ DOMAIN clocks.domains \subseteq DOMAIN after.domains
  <2> DEFINE more == [clocks EXCEPT !.syncs = With(@, sync.domain, sync)]
             after == RecordSync(clocks, sync).clocks
  <2>1. after \in {clocks, more}
    BY Zenon DEF RecordSync
  <2>2. /\ more = [domains |-> more.domains, syncs |-> more.syncs]
        /\ DOMAIN clocks.domains \subseteq DOMAIN more.domains
    OBVIOUS
  <2> HIDE DEF more, after
  <2>3. QED
    BY <2>1, <2>2, Zenon DEF after
<1>3. QED
  BY <1>1, <1>2, Zenon

\* A call that takes the lock shared, or not at all, leaves the engine alone.
LEMMA ReadersLeaveAlone ==
  ASSUME NEW e, NEW r, WellFormed(r), ~Writes(r)
  PROVE  Call(e, r).engine = e
<1>1. /\ \A ok, value : Done(e, ok, value).engine = e
      /\ \A result : Read(e, result).engine = e
  BY Zenon DEF Done, Read
<1>2. CASE r.op = "ingest"
  <2>1. Len(r.batch) > MaxBatch
    BY <1>2, ServiceAssumption DEF WellFormed, Writes
  <2>2. Call(e, r) = Done(e, FALSE, 0)
    BY <1>2, <2>1, Zenon DEF Call, CallIngest
  <2>3. QED
    BY <1>1, <2>2, Zenon
<1>3. CASE r.op = "export"
  <2>1. Call(e, r) = CallExport(e, r.query)
    BY <1>3, Zenon DEF Call
  <2>2. r.query.kind \in {"summary", "baselines", "samples"}
    BY <1>3, Zenon DEF WellFormed
  <2>3. QED
    BY <1>1, <2>1, <2>2 DEF CallExport
<1>4. CASE r.op = "explain"
  <2>1. Call(e, r) = CallExplain(e, AllSources(r.query))
    BY <1>4, Zenon DEF Call
  <2>2. QED
    BY <1>1, <2>1, Zenon DEF CallExplain
<1>5. CASE r.op \notin {"ingest", "export", "explain"}
  <2>1. r.op \notin {"define", "define_clock_domain", "clock_sync", "baseline_create"}
    BY Zenon DEF Writes
  <2>2. \/ \E ok, value : Call(e, r) = Done(e, ok, value)
        \/ \E result : Call(e, r) = Read(e, result)
    BY <1>5, <2>1, ZenonT(30) DEF Call
  <2>3. QED
    BY <1>1, <2>2, Zenon
<1>6. QED
  BY <1>2, <1>3, <1>4, <1>5, Zenon

\* Whatever a call does, what is known stays known.
LEMMA CallGrows ==
  ASSUME NEW e, EngineOK(e), NEW r, WellFormed(r)
  PROVE  LET after == Call(e, r).engine IN
         /\ EngineOK(after)
         /\ \A ref : ref.kind \in Kinds \cup {"domain"} /\ Lookup(e, ref) => Lookup(after, ref)
<1> DEFINE after == Call(e, r).engine
<1>1. SUFFICES /\ EngineOK(after)
               /\ \A k \in Kinds : DOMAIN e.catalog[k] \subseteq DOMAIN after.catalog[k]
               /\ DOMAIN e.clocks.domains \subseteq DOMAIN after.clocks.domains
  BY Zenon DEF Lookup, Known
<1>2. CASE ~Writes(r) \/ r.op = "flush"
  <2>1. after = e
    <3>1. CASE ~Writes(r)
      BY <3>1, ReadersLeaveAlone, Zenon
    <3>2. CASE r.op = "flush"
      BY <3>2, Zenon DEF Call, Done
    <3>3. QED
      BY <1>2, <3>1, <3>2, Zenon
  <2>2. QED
    BY <2>1, Zenon
<1>3. CASE r.op = "define"
  <2> DEFINE d == Define(e.catalog, r.def)
  <2>1. after = [e EXCEPT !.catalog = d.catalog]
    BY <1>3, Zenon DEF Call, CallDefine, Done
  <2>2. /\ d.catalog = [k \in Kinds |-> d.catalog[k]]
        /\ \A k \in Kinds : DOMAIN e.catalog[k] \subseteq DOMAIN d.catalog[k]
    BY <1>3, DefineGrows, Zenon DEF WellFormed, EngineOK
  <2> HIDE DEF d, after
  <2>3. QED
    BY <2>1, <2>2, Zenon DEF EngineOK
<1>4. CASE r.op = "define_clock_domain"
  <2> DEFINE d == DefineDomain(e.clocks, r.domain, r.domain)
  <2>1. after = [e EXCEPT !.clocks = d.clocks]
    BY <1>4, Zenon DEF Call, CallDefineDomain, Done
  <2>2. /\ d.clocks = [domains |-> d.clocks.domains, syncs |-> d.clocks.syncs]
        /\ DOMAIN e.clocks.domains \subseteq DOMAIN d.clocks.domains
    BY ClocksGrow, Zenon DEF EngineOK
  <2> HIDE DEF d, after
  <2>3. QED
    BY <2>1, <2>2, Zenon DEF EngineOK
<1>5. CASE r.op = "clock_sync"
  <2> DEFINE d == RecordSync(e.clocks, r.sync)
  <2>1. after = [e EXCEPT !.clocks = d.clocks]
    BY <1>5, Zenon DEF Call, CallSync, Done
  <2>2. /\ d.clocks = [domains |-> d.clocks.domains, syncs |-> d.clocks.syncs]
        /\ DOMAIN e.clocks.domains \subseteq DOMAIN d.clocks.domains
    BY ClocksGrow, Zenon DEF EngineOK
  <2> HIDE DEF d, after
  <2>3. QED
    BY <2>1, <2>2 DEF EngineOK
<1>6. CASE r.op = "ingest" /\ Writes(r)
  <2>1. ~(Len(r.batch) > MaxBatch)
    BY <1>6, ServiceAssumption DEF Writes, WellFormed
  <2>2. PICK d : after = [e EXCEPT !.fences = d.fences, !.records = d.records]
    BY <1>6, <2>1, Zenon DEF Call, CallIngest, WithIngested, Done
  <2> HIDE DEF after
  <2>3. QED
    BY <2>2, ZenonT(30) DEF EngineOK
<1>7. CASE r.op = "baseline_create"
  <2>1. PICK d : after = [e EXCEPT !.baselines = d.baselines]
    BY <1>7, Zenon DEF Call, CallBaseline, WithBaselines, Done
  <2> HIDE DEF after
  <2>2. QED
    BY <2>1, Zenon DEF EngineOK
<1>8. QED
  BY <1>2, <1>3, <1>4, <1>5, <1>6, <1>7, ZenonT(30) DEF Writes

-----------------------------------------------------------------------------
(* Calls made one after the other.                                          *)

\* f[i] is the engine after the first i requests, for i up to n.
Called(start, requests, n, f) ==
  f = [i \in 0..n |-> IF i = 0 THEN start ELSE Call(f[i - 1], requests[i]).engine]

\* Induction up to a bound, as a statement about the set of good numbers: call by call.
LEMMA Climb ==
  ASSUME NEW N \in Nat, NEW S, 0 \in S,
         \A n \in 0..N : n # N /\ n \in S => n + 1 \in S
  PROVE  \A n \in 0..N : n \in S
<1> DEFINE Bad == {n \in 0..N : n \notin S}
<1>1. SUFFICES ASSUME Bad # {} PROVE FALSE
  BY Zenon
<1>2. Bad \subseteq Nat
  OBVIOUS
<1> HIDE DEF Bad
<1>3. PICK m \in Bad : \A y \in Bad : ~(<<y, m>> \in OpToRel(<, Nat))
  BY <1>1, <1>2, NatLessThanWellFounded, WFMin, Zenon
<1>4. \A y \in Bad : ~(y < m)
  BY <1>2, <1>3, ZenonT(30) DEF OpToRel
<1>5. m \in 0..N /\ m \notin S
  BY Zenon DEF Bad
<1>6. m \in Nat /\ m # 0 /\ m <= N
  BY <1>5
<1>7. m - 1 \in 0..N /\ m - 1 # N /\ m - 1 < m /\ (m - 1) + 1 = m
  BY <1>6
<1>8. m - 1 \in S
  BY <1>4, <1>7, Zenon DEF Bad
<1>9. QED
  BY <1>5, <1>7, <1>8, Zenon

\* The number of the call after one that is not the last.
LEMMA NextCall ==
  ASSUME NEW N \in Nat, NEW k \in 0..N, k # N
  PROVE  k + 1 \in 1..N /\ k + 1 \in 0..N /\ k + 1 # 0 /\ (k + 1) - 1 = k /\ k + 1 \in Nat
  OBVIOUS

\* Any number of calls can be made one after the other.
LEMMA CalledExists ==
  ASSUME NEW start, NEW requests, NEW N \in Nat
  PROVE  \E f : Called(start, requests, N, f)
<1> DEFINE Good == {n \in Nat : \E f : Called(start, requests, n, f)}
<1>1. 0 \in Good
  <2> DEFINE f == [i \in 0..0 |-> start]
  <2>1. f = [i \in 0..0 |-> IF i = 0 THEN start ELSE Call(f[i - 1], requests[i]).engine]
    OBVIOUS
  <2> HIDE DEF f
  <2>2. Called(start, requests, 0, f)
    BY <2>1, Zenon DEF Called
  <2>3. QED
    BY <2>2, Zenon
<1>2. ASSUME NEW k \in 0..N, k # N, NEW f, Called(start, requests, k, f)
      PROVE  \E h : Called(start, requests, k + 1, h)
  <2> DEFINE h == [i \in 0..(k + 1) |-> IF i = 0 THEN start ELSE Call(f[i - 1], requests[i]).engine]
  <2>1. ASSUME NEW i \in 0..k PROVE h[i] = f[i]
    <3>1. f[i] = IF i = 0 THEN start ELSE Call(f[i - 1], requests[i]).engine
      BY <1>2, Zenon DEF Called
    <3>2. i \in 0..(k + 1)
      OBVIOUS
    <3>3. QED
      BY <3>1, <3>2, Zenon
  <2>2. ASSUME NEW i \in 0..(k + 1) PROVE h[i] = IF i = 0 THEN start ELSE Call(h[i - 1], requests[i]).engine
    <3>1. CASE i = 0
      BY <3>1, Zenon
    <3>2. CASE i # 0
      <4>1. i - 1 \in 0..k
        BY <3>2
      <4>2. h[i - 1] = f[i - 1]
        BY <2>1, <4>1, Zenon
      <4>3. h[i] = Call(f[i - 1], requests[i]).engine
        BY <3>2, Zenon
      <4> HIDE DEF h
      <4>4. QED
        BY <3>2, <4>2, <4>3, Zenon
    <3>3. QED
      BY <3>1, <3>2, Zenon
  <2>3. h = [i \in 0..(k + 1) |-> h[i]]
    BY Zenon
  <2> HIDE DEF h
  <2>4. Called(start, requests, k + 1, h)
    BY <2>2, <2>3, Zenon DEF Called
  <2>5. QED
    BY <2>4, Zenon
<1>3. \A k \in 0..N : k # N /\ k \in Good => k + 1 \in Good
  BY <1>2
<1> HIDE DEF Good
<1>4. \A n \in 0..N : n \in Good
  BY <1>1, <1>3, Climb, Zenon
<1>5. N \in Good
  BY <1>4
<1>6. QED
  BY <1>5, Zenon DEF Good

\* A line that is no request looks nothing up, and is answered without the engine.
LEMMA NoRequest ==
  ASSUME NEW r, r.by = "name", r.op = "malformed"
  PROVE  Refs(r) = <<>> /\ WellFormed(r) /\ ~Writes(r)
<1>1. Refs(r) = <<>>
  BY Zenon DEF Refs
<1>2. Len(Refs(r)) = 0
  BY <1>1
<1>3. QED
  BY <1>1, <1>2 DEF WellFormed, Writes

\* An operation that takes no lock has nothing to look up.
LEMMA LocklessLooksNothingUp ==
  ASSUME NEW r, Lockless(r)
  PROVE  Refs(r) = <<>>
  BY Zenon DEF Lockless, Refs, IngestRefs

\* The engine that create() makes, and every sequence of calls after it.
LEMMA CallsOK ==
  ASSUME NEW requests, Len(requests) \in Nat, DOMAIN requests = 1..Len(requests),
         \A i \in 1..Len(requests) : WellFormed(requests[i])
  PROVE  EngineOK(Calls(EmptyEngine, requests))
<1> DEFINE N == Len(requests)
<1>1. EngineOK(EmptyEngine)
  BY Zenon DEF EngineOK, EmptyEngine, EmptyCatalog, NoClocks
<1>2. PICK f : Called(EmptyEngine, requests, N, f) /\ Calls(EmptyEngine, requests) = f[N]
  <2>1. Called(EmptyEngine, requests, N, CHOOSE f : Called(EmptyEngine, requests, N, f))
    BY CalledExists, Zenon
  <2>2. Calls(EmptyEngine, requests) = (CHOOSE f : Called(EmptyEngine, requests, N, f))[N]
    BY Zenon DEF Calls, Called
  <2>3. QED
    BY <2>1, <2>2, Zenon
<1>3. \A i \in 0..N : f[i] = IF i = 0 THEN EmptyEngine ELSE Call(f[i - 1], requests[i]).engine
  BY <1>2, Zenon DEF Called
<1> DEFINE Good == {n \in Nat : EngineOK(f[n])}
<1>4. 0 \in Good
  BY <1>1, <1>3
<1>5. ASSUME NEW k \in 0..N, k # N, k \in Good PROVE k + 1 \in Good
  <2>1. k + 1 \in 1..N /\ k + 1 \in 0..N /\ k + 1 # 0 /\ (k + 1) - 1 = k /\ k + 1 \in Nat
    BY <1>5, NextCall, Zenon
  <2>2. f[k + 1] = Call(f[k], requests[k + 1]).engine
    BY <1>3, <2>1, Zenon
  <2>3. EngineOK(f[k]) /\ WellFormed(requests[k + 1])
    BY <1>5, <2>1, ZenonT(30)
  <2>4. EngineOK(f[k + 1])
    BY <2>2, <2>3, CallGrows, Zenon
  <2>5. QED
    BY <2>1, <2>4, Zenon
<1> HIDE DEF Good
<1>6. \A n \in 0..N : n \in Good
  BY <1>4, <1>5, Climb, ZenonT(30)
<1>7. N \in Good
  BY <1>6, SMTT(30)
<1>8. QED
  BY <1>2, <1>7, Zenon DEF Good

-----------------------------------------------------------------------------
(* The server.                                                              *)

CONSTANTS
  Clients, Wake, Requests, MaxSends, Pipelining, Readers, MaxConnections, ReapFactor, PipeSignal, Nobody, NoAnswer,
  Setup  \* the calls made before the first client connects

VARIABLES
  link, backlog, gone, sent, unread, replies, pc, line, resolved, answer, engine, lock, run, active, threads,
  stats, stop, listening

Serving == INSTANCE ServerProofs
  WITH Start <- Calls(EmptyEngine, Setup), Names <- Refs, Finds <- Lookup, Enters <- Inserts,
       Exclusive <- Writes, Unlocked <- Lockless, Handle <- Call, NotFound <- Problem("not_found"),
       Sound <- EngineOK

\* The clients and the limits are as the server assumes them.
ServerSetting ==
  /\ Wake \notin Clients /\ Nobody \notin Clients /\ Pipelining \subseteq Clients /\ Readers \subseteq Clients
  /\ MaxConnections \in Nat \ {0} /\ ReapFactor \in Nat
  /\ PipeSignal \in BOOLEAN
  /\ MaxSends \in [Clients -> Nat]

\* dispatch() reads every member that a request's operation needs.
RequestsAreRead ==
  /\ \A c \in Clients : \A request \in Requests[c] : WellFormed(request)
  /\ Len(Setup) \in Nat /\ DOMAIN Setup = 1..Len(Setup) /\ \A i \in 1..Len(Setup) : WellFormed(Setup[i])

\* A line is a request that is read completely, or no request.
LEMMA LinesAreRead ==
  ASSUME RequestsAreRead
  PROVE  /\ \A request \in Serving!Lines : WellFormed(request)
         /\ \A request \in Serving!Garbled : Refs(request) = <<>>
<1>1. ASSUME NEW request \in Serving!Garbled PROVE WellFormed(request) /\ Refs(request) = <<>>
  <2>1. request.by = "name" /\ request.op = "malformed"
    BY DEF Serving!Garbled, Serving!Malformed
  <2>2. QED
    BY <2>1, NoRequest, Zenon
<1>2. QED
  BY <1>1, SMTT(30) DEF RequestsAreRead, Serving!Lines

\* The engine's calls obey the laws: no call removes a definition or a clock domain that
\* a lookup finds, and only the operations that take the lock exclusively change anything.
THEOREM ServiceObeysLaws == ASSUME RequestsAreRead PROVE Serving!ServiceLaws
<1>1. EngineOK(Calls(EmptyEngine, Setup))
  BY CallsOK, ZenonT(30) DEF RequestsAreRead
<1>2. ASSUME NEW request \in Serving!Lines, Lockless(request) PROVE Refs(request) = <<>>
  BY <1>2, LocklessLooksNothingUp, ZenonT(30)
<1>3. ASSUME NEW e, EngineOK(e), NEW request \in Serving!Lines
      PROVE  /\ EngineOK(Call(e, request).engine)
             /\ ~Writes(request) => Call(e, request).engine = e
             /\ \A other \in Serving!Lines : \A i \in 1..Len(Refs(other)) :
                  Lookup(e, Refs(other)[i]) => Lookup(Call(e, request).engine, Refs(other)[i])
  <2>1. WellFormed(request)
    BY LinesAreRead, ZenonT(30)
  <2>2. /\ EngineOK(Call(e, request).engine)
        /\ \A ref : ref.kind \in Kinds \cup {"domain"} /\ Lookup(e, ref) => Lookup(Call(e, request).engine, ref)
    BY <1>3, <2>1, CallGrows, ZenonT(30)
  <2>3. ASSUME NEW other \in Serving!Lines, NEW i \in 1..Len(Refs(other))
        PROVE  Refs(other)[i].kind \in Kinds \cup {"domain"}
    BY LinesAreRead, SMTT(30) DEF WellFormed
  <2>4. QED
    BY <2>1, <2>2, <2>3, ReadersLeaveAlone, ZenonT(30)
<1>4. QED
  BY <1>1, <1>2, <1>3, SMTT(30) DEF Serving!ServiceLaws

\* The assumptions of the server hold of the engine's operations.
LEMMA ServerIsSet ==
  ASSUME ServerSetting, RequestsAreRead
  PROVE  /\ Wake \notin Clients /\ Nobody \notin Clients
         /\ Pipelining \subseteq Clients /\ Readers \subseteq Clients
         /\ MaxConnections \in Nat \ {0} /\ ReapFactor \in Nat
         /\ PipeSignal \in BOOLEAN
         /\ MaxSends \in [Clients -> Nat]
         /\ \A c \in Clients : \A request \in Requests[c] : Len(Refs(request)) \in Nat
         /\ \A request \in Serving!Garbled : Refs(request) = <<>>
  BY LinesAreRead, SMTT(30) DEF ServerSetting, RequestsAreRead, WellFormed

\* The server in front of the engine serves every request as one atomic step against one
\* state of the engine.
THEOREM EngineIsServedAtomically ==
  ASSUME ServerSetting, RequestsAreRead
  PROVE  Serving!Spec => Serving!ServesAtomically
<1>1. Serving!ServiceLaws
  BY ServiceObeysLaws, Zenon
<1>2. QED
  BY <1>1, ServerIsSet, Serving!ServingIsAtomic, SMTT(30)
=============================================================================
