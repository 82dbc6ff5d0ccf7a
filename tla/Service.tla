------------------------------ MODULE Service ------------------------------
(***************************************************************************)
(* The request dispatcher (runtime/service.cpp), over an engine without a  *)
(* store: what each operation looks up in the catalog and the clock        *)
(* registry before it calls the engine, without the engine's lock, and     *)
(* what the call itself does, under the lock.                              *)
(*                                                                         *)
(* A request is a record with the operation "op" and what it is about: a   *)
(* definition "def", a clock domain "domain", a report "sync", a "batch"   *)
(* of measurements or a "query".  Its entities are given by "name" or by   *)
(* "identity" (field "by"), and "mentions" says whether the line has the   *)
(* word "shutdown", in quotes, anywhere.  The text of requests and         *)
(* responses, and the fields parsed and only passed on, are left out.      *)
(***************************************************************************)
EXTENDS Queries

CONSTANTS
  MaxBatch,   \* Limits::max_batch_samples
  Now,        \* Clock::now_reference(), which stands still here
  Sources     \* the sources measurements may name

ASSUME ServiceAssumption == MaxBatch \in Nat /\ Now \in Int

Answer(value) == [result |-> value]
Problem(code) == [error |-> code]

-----------------------------------------------------------------------------
(* Names are resolved to identities one after the other, in this order; an  *)
(* optional name that is absent is not looked up.                           *)

Ref(kind, name) == [kind |-> kind, name |-> name]
Given(kind, name) == IF name \in {NoRef, None} THEN <<>> ELSE <<Ref(kind, name)>>

\* define_generation, define_link, define_queue, define_hop and define_path.
GenerationRefs(def) == Given("generation", def.supersedes)
LinkRefs(def) == <<Ref("endpoint", def.from), Ref("endpoint", def.to)>>
QueueRefs(def) == <<Ref("link", def.link)>>
HopRefs(def) == Given("link", def.link) \o Given("queue", def.queue)
PathRefs(def) == <<Ref("generation", def.generation)>> \o Each(LAMBDA h : Ref("hop", h), def.hops)

\* A source and an endpoint refer to nothing.
DefineRefs(def) ==
  CASE def.kind \in {"source", "endpoint"} -> <<>>
    [] def.kind = "generation" -> GenerationRefs(def)
    [] def.kind = "link" -> LinkRefs(def)
    [] def.kind = "queue" -> QueueRefs(def)
    [] def.kind = "hop" -> HopRefs(def)
    [] def.kind = "path" -> PathRefs(def)

\* clock_sync.
SyncRefs(sync, reported_by) ==
  <<Ref("domain", sync.domain), Ref("domain", sync.reference), Ref("domain", sync.in)>>
    \o Given("source", reported_by) \o Given("generation", sync.generation)

HopObservationRefs(h) ==
  <<Ref("hop", h.hop)>> \o Given("link", h.link) \o Given("queue", h.queue)
    \o <<Ref("domain", h.entry.domain), Ref("domain", h.exit.domain)>>

\* ingest, one measurement.
MeasurementRefs(m) ==
  <<Ref("path", m.path), Ref("generation", m.generation), Ref("source", m.source),
    Ref("domain", m.domain), Ref("domain", m.observed.domain)>>
    \o FlattenSeq(Each(HopObservationRefs, m.hops))

\* ingest: a batch that is too large is refused before anything is looked up.
IngestRefs(batch) ==
  IF Len(batch) > MaxBatch THEN <<>> ELSE FlattenSeq(Each(MeasurementRefs, batch))

\* summarize, explain and attribute.
WindowRefs(query) == <<Ref("path", query.path), Ref("generation", query.generation)>>

\* history and baseline_create, which may be restricted to a source.
SourcedRefs(query) == WindowRefs(query) \o Given("source", query.source)

\* export: both are optional.
ExportRefs(query) == Given("path", query.path) \o Given("generation", query.generation)

\* What a request looks up.  An identity is taken as it is: it is the engine that finds
\* out whether something has it.
Refs(request) ==
  CASE request.by = "identity" -> <<>>
    [] request.op = "define" -> DefineRefs(request.def)
    [] request.op = "clock_sync" -> SyncRefs(request.sync, request.reported_by)
    [] request.op = "ingest" -> IngestRefs(request.batch)
    [] request.op \in {"summarize", "explain", "attribute"} -> WindowRefs(request.query)
    [] request.op \in {"history", "baseline_create"} -> SourcedRefs(request.query)
    [] request.op = "export" -> ExportRefs(request.query)
    [] OTHER -> <<>>

\* resolve_path() and its siblings.
Lookup(engine, ref) ==
  IF ref.kind = "domain" THEN ref.name \in DOMAIN engine.clocks.domains
  ELSE Known(engine.catalog, ref.kind, ref.name)

\* A request that inserts into the table a reference is looked up in.
Inserts(request, ref) ==
  \/ request.op = "define" /\ request.def.kind = ref.kind
  \/ request.op = "define_clock_domain" /\ ref.kind = "domain"

\* The requests that dispatch() reads completely: a definition of one of the seven kinds,
\* an export of one of the three, a list of measurements, and references to things of a
\* known kind.
WellFormed(request) ==
  /\ request.op = "define" => request.def.kind \in Kinds
  /\ request.op = "export" => request.query.kind \in {"summary", "baselines", "samples"}
  /\ request.op = "ingest" => Len(request.batch) \in Nat
  /\ Len(Refs(request)) \in Nat
  /\ \A i \in 1..Len(Refs(request)) : Refs(request)[i].kind \in Kinds \cup {"domain"}

-----------------------------------------------------------------------------
(* The engine call, and the answer made of its result.                      *)

\* The operations that take the engine's lock exclusively, and the ones that take no lock.
Writes(request) ==
  \/ request.op \in {"define", "define_clock_domain", "clock_sync", "baseline_create", "flush"}
  \/ request.op = "ingest" /\ Len(request.batch) <= MaxBatch

Lockless(request) ==
  \/ request.op \in {"operations", "shutdown", "malformed"}
  \/ request.op = "ingest" /\ Len(request.batch) > MaxBatch

Done(engine, ok, value) == [engine |-> engine, answer |-> IF ok THEN Answer(value) ELSE Problem("refused")]

CallDefine(engine, def) ==
  LET d == Define(engine.catalog, def)
  IN  Done([engine EXCEPT !.catalog = d.catalog], d.ok, def.name)

CallDefineDomain(engine, domain) ==
  LET d == DefineDomain(engine.clocks, domain, domain)
  IN  Done([engine EXCEPT !.clocks = d.clocks], d.ok, domain)

CallSync(engine, sync) ==
  LET d == RecordSync(engine.clocks, sync)
  IN  Done([engine EXCEPT !.clocks = d.clocks], d.ok, sync.domain)

WithIngested(engine, d) ==
  Done([engine EXCEPT !.fences = d.fences, !.records = d.records], d.ok,
       Len(d.records) - Len(engine.records))

CallIngest(engine, batch, received) ==
  IF Len(batch) > MaxBatch THEN Done(engine, FALSE, 0)
  ELSE WithIngested(engine, IngestBatch(engine.catalog, engine.clocks, engine.fences, engine.records,
                                        batch, Reading(received)))

WithBaselines(engine, name, d) == Done([engine EXCEPT !.baselines = d.baselines], d.ok, name)

CallBaseline(engine, name, query) ==
  WithBaselines(engine, name,
    NewBaseline(engine.records, engine.catalog, engine.baselines, name, query, Now))

\* The reading operations leave the engine alone.
Read(engine, result) == Done(engine, result.ok, result)

\* summarize, explain and attribute read no "source".
AllSources(query) == [query EXCEPT !.source = None]

CallExplain(engine, query) ==
  LET s == Summarize(engine.records, engine.catalog, query)
  IN  Done(engine, s.ok, Explain(engine.records, engine.catalog, query))

CallExport(engine, query) ==
  CASE query.kind = "summary" -> Read(engine, ExportSummary(engine.records, engine.catalog, query))
    [] query.kind = "baselines" -> Read(engine, ExportBaselines(engine.baselines))
    [] query.kind = "samples" -> Read(engine, ExportSamples(engine.records, query))

\* The rest of dispatch(), once every name is resolved.  A shutdown is only acknowledged:
\* the caller closes the runtime.  "malformed" is a line that is no JSON object with an
\* operation; it and an unknown operation are answered with an error.
Call(engine, request) ==
  CASE request.op = "define" -> CallDefine(engine, request.def)
    [] request.op = "define_clock_domain" -> CallDefineDomain(engine, request.domain)
    [] request.op = "clock_sync" -> CallSync(engine, request.sync)
    [] request.op = "ingest" -> CallIngest(engine, request.batch, request.received)
    [] request.op = "summarize" -> 
         Read(engine, Summarize(engine.records, engine.catalog, AllSources(request.query)))
    [] request.op = "explain" -> CallExplain(engine, AllSources(request.query))
    [] request.op = "history" -> Read(engine, History(engine.records, engine.catalog, request.query))
    [] request.op = "baseline_create" -> CallBaseline(engine, request.name, request.query)
    [] request.op = "baseline_list" -> Done(engine, TRUE, ListBaselines(engine.baselines))
    [] request.op = "attribute" ->
         Read(engine, Attribute(engine.records, engine.catalog, engine.clocks, engine.baselines,
                                AllSources(request.query), request.baseline))
    [] request.op = "export" -> CallExport(engine, request.query)
    [] request.op \in {"capabilities", "operations", "status", "flush", "shutdown"} ->
         Done(engine, TRUE, request.op)
    [] OTHER -> Done(engine, FALSE, request.op)

-----------------------------------------------------------------------------
\* Engine::create without a store.
EmptyEngine ==
  [catalog |-> EmptyCatalog, clocks |-> NoClocks, fences |-> [s \in Sources |-> EmptyFence],
   records |-> <<>>, baselines |-> <<>>]

\* The engine after a sequence of calls.
Calls(engine, requests) ==
  LET after[n \in 0..Len(requests)] ==
        IF n = 0 THEN engine ELSE Call(after[n - 1], requests[n]).engine
  IN  after[Len(requests)]
=============================================================================
