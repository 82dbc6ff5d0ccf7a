------------------------------- MODULE Engine -------------------------------
(***************************************************************************)
(* The runtime engine (runtime/engine.cpp) over its admission gate and its *)
(* store: definitions, synchronisation reports and batches of measurements *)
(* are decided by the catalog, the clock registry and the gate, kept in    *)
(* memory and appended to the log; a run of the process ends by shutdown() *)
(* or by a crash, and the next one rebuilds its memory from what read_all  *)
(* recovers.                                                               *)
(*                                                                         *)
(* Every mutating call holds the exclusive lock from its first check to    *)
(* its return, so a call is one step; a crash inside a call is a step of   *)
(* its own.  durable_writes is on.  A definition's record has the size of  *)
(* its text; every other log record has size 1.                            *)
(***************************************************************************)
EXTENDS SessionFence, SegmentLog, Catalog, ClockRegistry

CONSTANTS
  SourceOrder,     \* the sources records come from, in the order of their identities
  Seqs,            \* sequence numbers records carry
  Definitions,     \* the catalog definitions callers send
  ClockDomains,    \* the clock domains callers define, as [name, content]
  Syncs,           \* the synchronisation reports callers send
  MaxBatch,        \* bound on the records of a batch
  RecordCapacity,  \* limits.max_total_samples
  MaxCalls,        \* bound on the calls that append to the log
  MaxRuns          \* bound on the runs of the process

Sources == Range(SourceOrder)

ASSUME EngineAssumption ==
  /\ SourceOrder \in Seq(Sources)
  /\ Seqs \subseteq Nat
  /\ \A def \in Definitions : def.kind \in Kinds /\ def.size \in Nat
  /\ MaxBatch \in Nat /\ RecordCapacity \in Nat
  /\ MaxCalls \in Nat /\ MaxRuns \in Nat

VARIABLES
  readonly,   \* RuntimeConfig::readonly of this run
  phase,      \* "down"; "up"; "stopping": shut_down_ is set; "stopped": the writer is closed
  log,        \* the store directory and the writer
  fences,     \* IngestGate::fences_
  catalog,    \* Engine::catalog_
  clocks,     \* Engine::clocks_
  records,    \* Engine::records_
  acked,      \* history: the measurements of the calls that returned ok
  faults,     \* history: "crash", and "refusal" when a persist() was refused
  calls,      \* calls that appended to the log
  runs        \* runs of the process

vars == <<readonly, phase, log, fences, catalog, clocks, records, acked, faults, calls, runs>>

\* Sound, usable records stamped with the first revision; IngestGate has all the others.
Records ==
  [source : Sources, session : Sessions, seq : Seqs, rev : {1},
   sound : {TRUE}, bound : {TRUE}, usable : {TRUE}]

\* The payloads of the store.
DefinitionRecord(def) == [type |-> "definition", def |-> def]
DomainRecord(domain) == [type |-> "domain", domain |-> domain]
SyncRecord(sync) == [type |-> "sync", sync |-> sync]
FenceRecord(s, fence) == [type |-> "fence", source |-> s, fence |-> fence]
\* received stands for the receive time of the batch.
Measurement(r, verdict, received) ==
  [type |-> "measurement", record |-> r, verdict |-> verdict, received |-> received]

SizeOf(payload) == IF payload.type = "definition" THEN payload.def.size ELSE 1

\* The registered revision of a source, 0 when it is unknown.
RevisionOf(known, s) == IF Known(known, "source", s) THEN known["source"][s].rev ELSE 0

-----------------------------------------------------------------------------
(* load_store().                                                            *)

EmptyMemory ==
  [ok |-> TRUE, catalog |-> EmptyCatalog, clocks |-> NoClocks,
   fences |-> [s \in Sources |-> EmptyFence], records |-> <<>>]

RestoreFirstFence(memory, p) ==
  [memory EXCEPT !.fences[p.source] = IF @ = EmptyFence THEN p.fence ELSE @]

\* restore_fence(): a later fence replaces the earlier one.
RestoreFence(memory, p) == [memory EXCEPT !.fences[p.source] = p.fence]

\* decode_clock_sync() refuses revision 0, which record_sync() accepts and
\* write_json() writes.  Every other record decodes to what was written.
Decodes(p) == p.type = "sync" => p.sync.rev # 0
Decodable(payloads) == \A i \in 1..Len(payloads) : Decodes(payloads[i])

\* One stored record is registered again through the checks of its first registration.
Register(memory, p) ==
  CASE p.type = "definition" ->
         LET d == Define(memory.catalog, p.def)
         IN  [memory EXCEPT !.ok = d.ok, !.catalog = d.catalog]
    [] p.type = "domain" ->
         LET d == DefineDomain(memory.clocks, p.domain.name, p.domain.content)
         IN  [memory EXCEPT !.ok = d.ok, !.clocks = d.clocks]
    [] p.type = "sync" ->
         LET d == RecordSync(memory.clocks, p.sync)
         IN  [memory EXCEPT !.ok = d.ok, !.clocks = d.clocks]
    [] p.type = "measurement" -> [memory EXCEPT !.records = Append(@, p)]
    [] p.type = "fence" -> RestoreFence(memory, p)

\* An error of the decoder or of the registration ends the load.
LoadRecord(memory, p) ==
  CASE ~memory.ok -> memory
    [] memory.ok /\ ~Decodes(p) -> [memory EXCEPT !.ok = FALSE]
    [] memory.ok /\ Decodes(p) -> Register(memory, p)

Load(payloads) ==
  LET after[n \in 0..Len(payloads)] ==
        IF n = 0 THEN EmptyMemory ELSE LoadRecord(after[n - 1], payloads[n])
  IN  after[Len(payloads)]

\* More records of any type than the evidence capacity make load_store() fail as well.
Loadable(payloads) == Len(payloads) <= RecordCapacity /\ Load(payloads).ok

Init ==
  /\ readonly = FALSE
  /\ phase = "down"
  /\ log = NewLog(<<>>)
  /\ fences = EmptyMemory.fences
  /\ catalog = EmptyCatalog
  /\ clocks = NoClocks
  /\ records = <<>>
  /\ acked = {}
  /\ faults = {}
  /\ calls = 0
  /\ runs = 0

\* Engine::create: load_store(), then a writer that continues in a new segment.
Start ==
  /\ phase = "down" /\ runs < MaxRuns
  /\ LET payloads == ReadAll(log.disk)
         memory == Load(payloads) IN
     /\ Loadable(payloads)
     /\ fences' = memory.fences
     /\ catalog' = memory.catalog
     /\ clocks' = memory.clocks
     /\ records' = memory.records
  /\ readonly' \in BOOLEAN
  /\ phase' = "up"
  /\ log' = NewLog(log.disk)
  /\ runs' = runs + 1
  /\ UNCHANGED <<acked, faults, calls>>

-----------------------------------------------------------------------------
(* Calls that append to the log.                                            *)

\* persist(), on the log and the number of payloads persisted so far by the call: a
\* refusal ends the call, and without a writer there is nothing to do.
Persist(done, payload) ==
  LET next == CASE readonly -> [log |-> done.log, ok |-> FALSE]
                [] ~readonly /\ phase = "stopped" -> [log |-> done.log, ok |-> TRUE]
                [] OTHER -> AppendRecord(done.log, payload, SizeOf(payload))
  IN  IF ~done.ok THEN done
      ELSE [log |-> next.log, ok |-> next.ok, count |-> IF next.ok THEN done.count + 1 ELSE done.count]

PersistAll(payloads) ==
  LET after[n \in 0..Len(payloads)] ==
        IF n = 0 THEN [log |-> log, ok |-> TRUE, count |-> 0] ELSE Persist(after[n - 1], payloads[n])
  IN  after[Len(payloads)]

AcceptsCallsAlways == phase # "down"

\* The check of shut_down_ at the head of every call.  It is read under the engine's mutex
\* but written under shutdown_mutex_, so until the shutdown has taken the engine's mutex a
\* call may read either value; a call that sees it set changes nothing.
AcceptsCalls == phase \in {"up", "stopping"}

\* What one call leaves of the log: a call that reached its end has synced it.
Logged(appended) ==
  /\ log' = IF appended.ok THEN SyncLog(appended.log) ELSE appended.log
  /\ faults' = IF appended.ok THEN faults ELSE faults \cup {"refusal"}
  /\ calls' = calls + 1

DefineEntityUnchecked(def) ==
  /\ AcceptsCalls /\ calls < MaxCalls
  /\ catalog' = Define(catalog, def).catalog
  /\ Logged(PersistAll(<<DefinitionRecord(def)>>))
  /\ UNCHANGED <<readonly, phase, fences, clocks, records, acked, runs>>

\* define_source(), define_endpoint(), ... define_path(): the catalog first, then the log,
\* where a redefinition is written again.
DefineEntity(def) ==
  /\ AcceptsCalls /\ calls < MaxCalls
  /\ LET defined == Define(catalog, def) IN defined.ok /\ catalog' = defined.catalog
  /\ Logged(PersistAll(<<DefinitionRecord(def)>>))
  /\ UNCHANGED <<readonly, phase, fences, clocks, records, acked, runs>>

DefineClockDomain(domain) ==
  /\ AcceptsCalls /\ calls < MaxCalls
  /\ LET defined == DefineDomain(clocks, domain.name, domain.content)
     IN  defined.ok /\ clocks' = defined.clocks
  /\ Logged(PersistAll(<<DomainRecord(domain)>>))
  /\ UNCHANGED <<readonly, phase, fences, catalog, records, acked, runs>>

RecordClockSync(sync) ==
  /\ AcceptsCalls /\ calls < MaxCalls
  /\ LET recorded == RecordSync(clocks, sync) IN recorded.ok /\ clocks' = recorded.clocks
  /\ Logged(PersistAll(<<SyncRecord(sync)>>))
  /\ UNCHANGED <<readonly, phase, fences, catalog, records, acked, runs>>

\* admit(): one record, after what the batch has come to so far.
Admit(st, r) ==
  LET d == Classify(st.fences[r.source], RevisionOf(catalog, r.source), r)
      m == Measurement(r, d.verdict, calls)
  IN  [fences  |-> [st.fences EXCEPT ![r.source] = d.fence],
       current |-> IF d.verdict = "current" THEN Append(st.current, m) ELSE st.current,
       history |-> IF d.verdict = "historical" THEN Append(st.history, m) ELSE st.history]

\* admit(): every record of the batch in turn.
AdmitBatch(batch) ==
  LET after[n \in 0..Len(batch)] ==
        IF n = 0 THEN [fences |-> fences, current |-> <<>>, history |-> <<>>]
        ELSE Admit(after[n - 1], batch[n])
  IN  after[Len(batch)]

HeldFence(f, s) == IF f[s] = EmptyFence THEN <<>> ELSE <<FenceRecord(s, f[s])>>

\* gate_.fences(): the sources that have a fence, in the order of the map.
FenceRecords(f) ==
  LET upto[n \in 0..Len(SourceOrder)] ==
        IF n = 0 THEN <<>> ELSE upto[n - 1] \o HeldFence(f, SourceOrder[n])
  IN  upto[Len(SourceOrder)]

IngestPayloadsFencesFirst(admitted) ==
  FenceRecords(fences) \o admitted.current \o admitted.history

\* What ingest() appends: the accepted current records, the accepted history, and the
\* state of every fence.
IngestPayloads(admitted) ==
  admitted.current \o admitted.history \o FenceRecords(admitted.fences)

CanIngest(batch) ==
  /\ AcceptsCalls /\ calls < MaxCalls
  /\ ~readonly
  /\ Len(records) + Len(batch) <= RecordCapacity

\* The records appended are in memory whatever becomes of the rest of the batch; the
\* fences have moved even when the log refuses.  One sync makes the batch durable.
Ingest(batch) ==
  /\ CanIngest(batch)
  /\ LET admitted == AdmitBatch(batch)
         accepted == admitted.current \o admitted.history
         appended == PersistAll(IngestPayloads(admitted))
     IN  /\ fences' = admitted.fences
         /\ records' = records \o SubSeq(accepted, 1, Min({appended.count, Len(accepted)}))
         /\ acked' = IF appended.ok THEN acked \cup Range(accepted) ELSE acked
         /\ Logged(appended)
  /\ UNCHANGED <<readonly, phase, catalog, clocks, runs>>

\* The process dies inside ingest(), before its sync: any prefix of what it appended
\* may have reached the disk.
IngestCrash(batch) ==
  /\ CanIngest(batch)
  /\ LET appended == PersistAll(IngestPayloads(AdmitBatch(batch))) IN
     \E disk \in CrashedDisks(appended.log.disk) : log' = NewLog(disk)
  /\ phase' = "down"
  /\ faults' = faults \cup {"crash"}
  /\ calls' = calls + 1
  /\ UNCHANGED <<readonly, fences, catalog, clocks, records, acked, runs>>

-----------------------------------------------------------------------------
(* The end of a run.                                                        *)

\* shutdown(): sets shut_down_ under shutdown_mutex_ and drains the pool ...
ShutdownBegin ==
  /\ phase = "up"
  /\ phase' = "stopping"
  /\ UNCHANGED <<readonly, log, fences, catalog, clocks, records, acked, faults, calls, runs>>

ShutdownDropsWriter ==
  /\ phase = "stopping"
  /\ phase' = "stopped"
  /\ UNCHANGED <<readonly, log, fences, catalog, clocks, records, acked, faults, calls, runs>>

\* ... then takes the engine's mutex and closes the writer.
ShutdownClose ==
  /\ phase = "stopping"
  /\ phase' = "stopped"
  /\ log' = CloseLog(log)
  /\ UNCHANGED <<readonly, fences, catalog, clocks, records, acked, faults, calls, runs>>

\* The process ends.  Without a completed shutdown() the destructor of the writer closes
\* the segment.
Exit ==
  /\ phase \in {"up", "stopped"}
  /\ phase' = "down"
  /\ log' = CloseLog(log)
  /\ UNCHANGED <<readonly, fences, catalog, clocks, records, acked, faults, calls, runs>>

\* A crash between two calls.
Crash ==
  /\ phase # "down"
  /\ phase' = "down"
  /\ \E disk \in CrashedDisks(log.disk) : log' = NewLog(disk)
  /\ faults' = faults \cup {"crash"}
  /\ UNCHANGED <<readonly, fences, catalog, clocks, records, acked, calls, runs>>

Batches == UNION {[1..n -> Records] : n \in 1..MaxBatch}

Next ==
  \/ Start \/ ShutdownBegin \/ ShutdownClose \/ Exit \/ Crash
  \/ \E def \in Definitions : DefineEntity(def)
  \/ \E domain \in ClockDomains : DefineClockDomain(domain)
  \/ \E sync \in Syncs : RecordClockSync(sync)
  \/ \E batch \in Batches : Ingest(batch) \/ IngestCrash(batch)

Spec == Init /\ [][Next]_vars

-----------------------------------------------------------------------------
(* Properties.                                                              *)

\* The types of the engine's members; the writer is closed outside a run.
TypeOK ==
  /\ phase \in {"down", "up", "stopping", "stopped"}
  /\ log.file \in 0..Len(log.disk)
  /\ phase \in {"down", "stopped"} => log.file = 0
  /\ readonly \in BOOLEAN /\ faults \subseteq {"crash", "refusal"}
  /\ \A k \in Kinds : Range(catalog[k]) \subseteq Definitions
  /\ Range(clocks.syncs) \subseteq Syncs
  /\ DOMAIN fences = Sources
  /\ Len(records) <= RecordCapacity
  /\ Range(records) \cup acked \subseteq
       [type : {"measurement"}, record : Records, verdict : {"current", "historical"},
        received : 0..MaxCalls]

\* Once ingest() has returned ok, its accepted measurements are on disk for good: through
\* the window in which shutdown() has set its flag and not yet closed the writer, and
\* through every later crash and restart.
AckedIsDurable == acked \subseteq DurableRecords(log.disk)

\* As long as no run crashed and persist() never refused, Engine::create on the store of a
\* running engine, whenever no call is in progress, would rebuild exactly the evidence, the
\* fences, the catalog and the clock registry that are in memory.  Two things stand in the
\* way of such a restart and nothing else does: a report of revision 0, and a log with more
\* records than max_total_samples, which ingest() compares with the measurements alone and
\* load_store() with the records of every type.
RestartIsFaithful ==
  LET payloads == ReadAll(log.disk)
      restored == Load(payloads) IN
  faults = {} /\ phase # "down" /\ Decodable(payloads) =>
    /\ Loadable(payloads) <=> Len(payloads) <= RecordCapacity
    /\ restored.catalog = catalog /\ restored.clocks = clocks
    /\ restored.fences = fences /\ restored.records = records

\* However a run ends, if the next one can load the store and finds a measurement of a call
\* that returned ok, then the fence it restores has passed that measurement's sequence, as
\* long as the source has opened no more sessions than the gate remembers (a session that
\* newer ones displaced is forgotten, and starts afresh when it comes back): the fences
\* reach the log behind the measurements they cover, and before the call returns.
AckedStaysFenced ==
  LET payloads == ReadAll(log.disk)
      restored == Load(payloads) IN
  restored.ok =>
    \A m \in acked \cap Range(payloads) :
      LET fence == restored.fences[m.record.source]
          key == m.record.session IN
      fence.next_ordinal <= MaxSessions + 1 =>
        key \in DOMAIN fence.sessions /\ m.record.seq <= fence.sessions[key].last

\* Whatever part of the log a crash has put out of reach, load_store() never meets a
\* definition or a report that its registries refuse (a reference that does not resolve,
\* other content at a revision already seen), as long as every persist() succeeded: the
\* engine only appends what its memory accepted, and its memory is what a load of the log
\* rebuilds.  The decoder has to be left out of this: it refuses a report of revision 0.
\* A refused persist() breaks it: memory keeps the definition, and the log then takes
\* definitions that refer to it.
DefinitionsLoad ==
  LET payloads == ReadAll(log.disk) IN
  "refusal" \notin faults /\ Decodable(payloads) => Load(payloads).ok

\* docs/persistence.md: "fence state (sessions, last sequence, bounded replay window,
\* revisions) is restored, so replayed sequences are still refused": after a start, a
\* measurement the runtime holds is not accepted as current a second time.
ReplayRefusedAfterRestart ==
  phase = "up" =>
    \A m \in Range(records) :
      Classify(fences[m.record.source], RevisionOf(catalog, m.record.source), m.record).verdict # "current"
=============================================================================
