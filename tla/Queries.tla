------------------------------ MODULE Queries ------------------------------
(***************************************************************************)
(* The calls of Engine that combine the components below it: a batch of    *)
(* measurements, a baseline from a summary, an explanation and an export.  *)
(* The state they work on is passed in; Observatory and Service hold it.   *)
(***************************************************************************)
EXTENDS Attribution

CONSTANTS
  ProvenanceLimit,   \* kProvenanceLimit
  ExportLimit,       \* min(request.limit, Limits::max_export_records)
  RecordCapacity     \* the evidence capacity: Limits::max_total_samples

ASSUME QueriesAssumption ==
  ProvenanceLimit \in Nat \ {0} /\ ExportLimit \in Nat \ {0} /\ RecordCapacity \in Nat

Reading(ns) == [ns |-> ns, domain |-> Reference]

\* What one admitted measurement adds to a batch.
Take(done, source, d) ==
  [done EXCEPT !.fences[source] = d.fence,
               !.current = IF d.verdict = "current" THEN Append(@, d.record) ELSE @,
               !.historical = IF d.verdict = "historical" THEN Append(@, d.record) ELSE @]

\* gate.admit() of a batch: one measurement after the other, each against the fences the
\* earlier ones left.
AdmitBatch(catalog, clocks, fences, batch, received) ==
  FoldLeft(LAMBDA done, m :
             Take(done, m.source, Admitted(catalog, clocks, done.fences[m.source], m, received)),
           [fences |-> fences, current |-> <<>>, historical |-> <<>>], batch)

\* The records, current before historical, are in the order stored.
Ingested(records, admitted) ==
  [ok |-> TRUE, fences |-> admitted.fences,
   records |-> records \o admitted.current \o admitted.historical]

\* Engine::ingest, but for the shut down and read only runtimes and the store.
IngestBatch(catalog, clocks, fences, records, batch, received) ==
  IF Len(records) + Len(batch) > RecordCapacity
  THEN [ok |-> FALSE, fences |-> fences, records |-> records]
  ELSE Ingested(records, AdmitBatch(catalog, clocks, fences, batch, received))

\* The baseline Engine::create_baseline builds from a summary.
BaselineOf(name, request, summary, now) ==
  [id         |-> BaselineId(request.path, request.generation, request.in, 1, name),
   name       |-> name,
   path       |-> request.path,
   generation |-> request.generation,
   domain     |-> request.in,
   rev        |-> 1,
   bounds     |-> request.bounds,
   probes     |-> request.probes,
   created_at |-> now,
   end_to_end |-> summary.end_to_end,
   hops       |-> summary.hops,
   evidence   |-> summary.evidence]

\* Engine::create_baseline: refused for a window with nothing included.
Register(baselines, name, request, summary, now) ==
  IF ~summary.ok THEN [ok |-> FALSE, baselines |-> baselines]
  ELSE IF summary.counts["Included"] = 0 THEN [ok |-> FALSE, baselines |-> baselines]
  ELSE AddBaseline(baselines, BaselineOf(name, request, summary, now))

NewBaseline(records, catalog, baselines, name, request, now) ==
  Register(baselines, name, request, Summarize(records, catalog, request), now)

ExplainUnflagged(records, catalog, request) ==
  LET included == SelectSeq(records, LAMBDA r : RecordClass(r, request) = "Included")
  IN  [provenance |-> SubSeq(included, 1, Min({Len(included), ProvenanceLimit})), truncated |-> FALSE,
       outdated   |-> CurrentGeneration(catalog) \notin {NoRef, request.generation}]

\* Engine::explain: the included records in order, up to the limit; truncated when the
\* limit was reached before the last record was looked at.  It notes when the lineage has
\* another current generation than the one asked for.
Explain(records, catalog, request) ==
  LET Included(r) == RecordClass(r, request) = "Included"
      Full(n) == Len(SelectSeq(SubSeq(records, 1, n), Included)) >= ProvenanceLimit
      looked == IF \E n \in 1..Len(records) : Full(n)
                THEN Min({n \in 1..Len(records) : Full(n)}) ELSE Len(records)
  IN  [provenance |-> SelectSeq(SubSeq(records, 1, looked), Included),
       truncated  |-> looked < Len(records),
       outdated   |-> CurrentGeneration(catalog) \notin {NoRef, request.generation}]

Cut(rows) ==
  LET exported == Min({Len(rows), ExportLimit})
  IN  [ok |-> TRUE, rows |-> SubSeq(rows, 1, exported), skipped |-> Len(rows) - exported,
       truncated |-> exported < Len(rows)]

\* Engine::export_data of samples: by path, generation and receive time, whatever the
\* domain and the evidence.
ExportSamples(records, request) ==
  Cut(SelectSeq(records, LAMBDA r :
        /\ request.path = None \/ r.path = request.path
        /\ request.generation = None \/ r.generation = request.generation
        /\ r.received.ns >= request.from /\ r.received.ns < request.to))

\* Engine::export_data of baselines, and of a summary, which is always historical.
ExportBaselines(baselines) == Cut(ListBaselines(baselines))

ExportSummary(records, catalog, request) ==
  IF None \in {request.path, request.generation} THEN Failed
  ELSE Summarize(records, catalog, [request EXCEPT !.mode = "historical", !.source = None])
=============================================================================
