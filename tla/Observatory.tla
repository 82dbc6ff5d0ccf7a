----------------------------- MODULE Observatory -----------------------------
(***************************************************************************)
(* The evidence path of the runtime, from a reported measurement to the    *)
(* answers of Engine's queries: clocks are synchronised, entities are      *)
(* redefined, measurements arrive late, repeated and out of order, time    *)
(* passes, baselines are recorded and the process restarts.  Engine has    *)
(* the store and its failures; here what was stored is loaded again.       *)
(*                                                                         *)
(* A query reads one snapshot under the shared lock, so it is a function   *)
(* of the state: Summarize, History, Attribute, Explain, Export.           *)
(***************************************************************************)
EXTENDS Queries

CONSTANTS
  Sources,           \* the sources measurements come from
  Setup,             \* the definitions the catalog starts with, in order
  Redefinitions,     \* definitions that arrive later
  ClockDomains,      \* the clock domains that are defined, besides the reference
  Synced,            \* the reports recorded at the start, in order
  Syncs,             \* the synchronisation reports that arrive later
  Measurements,      \* the measurements that arrive
  Requests,          \* the queries asked
  BaselineNames,     \* names of the baselines created
  BaselineRequests,  \* the windows they are taken from
  Ends,              \* the ends of the windows compared with a baseline
  DefaultBuckets,    \* Limits::max_histogram_buckets, unless it is configured
  TrueOffset,        \* clock domain -> its reading minus the reference's, for the properties
  Instants,          \* the times at which anything happens
  MaxRestarts        \* bound on restarts

ASSUME ObservatoryAssumption ==
  /\ MaxRestarts \in Nat
  /\ Instants \subseteq Nat /\ Instants # {}
  /\ Ends \subseteq Nat /\ DefaultBuckets \in Nat

\* Every report is right about its clock, within the uncertainty it declares.
ASSUME HonestSyncs ==
  \A s \in Syncs \cup Range(Synced) :
    s.offset - (TrueOffset[s.domain] - TrueOffset[s.reference]) \in -s.uncertainty..s.uncertainty

VARIABLES
  now,        \* Clock::now_reference()
  catalog,    \* Engine::catalog_
  clocks,     \* Engine::clocks_
  fences,     \* IngestGate::fences_
  records,    \* Engine::records_
  baselines,  \* Engine::baselines_
  taken,      \* for the properties: of every baseline its window, its time and the records there were
  restarts    \* restarts so far

vars == <<now, catalog, clocks, fences, records, baselines, taken, restarts>>

-----------------------------------------------------------------------------
Init ==
  /\ now = Min(Instants)
  /\ catalog = FoldLeft(LAMBDA c, def : Define(c, def).catalog, EmptyCatalog, Setup)
  /\ clocks = FoldLeft(LAMBDA c, sync : RecordSync(c, sync).clocks,
                       [NoClocks EXCEPT !.domains = [d \in ClockDomains \cup {Reference} |-> d]], Synced)
  /\ fences = [s \in Sources |-> EmptyFence]
  /\ records = <<>>
  /\ baselines = <<>> /\ taken = <<>>
  /\ restarts = 0

Tick(t) ==
  /\ now < t
  /\ now' = t
  /\ UNCHANGED <<catalog, clocks, fences, records, baselines, taken, restarts>>

\* Engine::define_*.
Redefine(def) ==
  /\ Define(catalog, def).catalog # catalog
  /\ catalog' = Define(catalog, def).catalog
  /\ UNCHANGED <<now, clocks, fences, records, baselines, taken, restarts>>

\* Engine::record_clock_sync.
ReportSync(sync) ==
  /\ RecordSync(clocks, sync).clocks # clocks
  /\ clocks' = RecordSync(clocks, sync).clocks
  /\ UNCHANGED <<now, catalog, fences, records, baselines, taken, restarts>>

\* Engine::ingest of one measurement; the caller may state the receive time.
Ingest(m) ==
  LET received == Reading(IF m.received = NoValue THEN now ELSE m.received)
      batch == IngestBatch(catalog, clocks, fences, records, <<m>>, received)
  IN  /\ batch.ok
      /\ fences' = batch.fences
      /\ records' = batch.records
      /\ UNCHANGED <<now, catalog, clocks, baselines, taken, restarts>>

\* Engine::create_baseline.
CreateBaseline(name, request) ==
  LET added == NewBaseline(records, catalog, baselines, name, request, now)
  IN  /\ added.ok
      /\ baselines' = added.baselines
      /\ taken' = Append(taken, [request |-> request, at |-> now, records |-> Len(records)])
      /\ UNCHANGED <<now, catalog, clocks, fences, records, restarts>>

\* reclassify_loaded(): the freshness is computed again, against the start of the new
\* session and the clock reports that precede the record in the log.
Reclassify(record) ==
  [record EXCEPT !.evidence.freshness =
     FreshnessOf(EstimateAge(record.clocks, record.observed, Reading(now)))]

DecodeBaselineAsNew(baseline) ==
  [baseline EXCEPT !.evidence = Absent(baseline.evidence.state), !.created_at = now]

\* decode_baseline(): of the evidence only the state was written.
DecodeBaseline(baseline) == [baseline EXCEPT !.evidence = Absent(baseline.evidence.state)]

\* decode_histogram_spec() checks the bounds against the default limits, whatever the
\* limits of the runtime are; Engine::create fails for one baseline it refuses.
BaselinesDecode == \A i \in 1..Len(baselines) : Len(baselines[i].bounds) <= DefaultBuckets

\* What Engine::create loads from the store.
LoadedRecords == Each(Reclassify, records)
LoadedBaselines == Each(DecodeBaseline, baselines)

\* The process ends and another one loads the store.
Restart ==
  /\ restarts < MaxRestarts
  /\ BaselinesDecode
  /\ restarts' = restarts + 1
  /\ records' = LoadedRecords
  /\ baselines' = LoadedBaselines
  /\ UNCHANGED <<now, catalog, clocks, fences, taken>>

Next ==
  \/ \E t \in Instants : Tick(t)
  \/ \E def \in Redefinitions : Redefine(def)
  \/ \E sync \in Syncs : ReportSync(sync)
  \/ \E m \in Measurements : Ingest(m)
  \/ \E name \in BaselineNames, request \in BaselineRequests : CreateBaseline(name, request)
  \/ Restart

Spec == Init /\ [][Next]_vars

-----------------------------------------------------------------------------
(* Properties.                                                              *)

Summary(request) == Summarize(records, catalog, request)
Attributed(request) == Attribute(records, catalog, clocks, baselines, request, NoValue)
Included(request) == InClass(records, request, "Included")

\* The state of the runtime keeps its shape: accepted records only, with evidence that is
\* a combination of the three enumerations, and no two baselines with one identity.
TypeOK ==
  /\ now \in Instants /\ restarts \in 0..MaxRestarts
  /\ Len(records) <= RecordCapacity
  /\ \A i \in 1..Len(records) :
       /\ records[i].evidence \in EvidenceValues
       /\ records[i].verdict \in {"current", "historical"}
       /\ \A k \in 1..Len(records[i].hops) : records[i].hops[k].evidence \in EvidenceValues
  /\ \A i, j \in 1..Len(baselines) : baselines[i].id = baselines[j].id => i = j

\* A dwell is as accurate as it claims: whatever the clocks of the two readings, whichever
\* reports were in force when the measurement arrived and whatever arrived since, the
\* stored dwell differs from the true one by at most the stored uncertainty, as long as
\* the reports themselves were honest.
DwellsAreTrue ==
  \A i \in 1..Len(records) : \A k \in 1..Len(records[i].hops) :
    LET h == records[i].hops[k]
        true == (h.exit.ns - TrueOffset[h.exit.domain]) - (h.entry.ns - TrueOffset[h.entry.domain])
    IN  h.dwell # NoValue => h.dwell - true \in -h.uncertainty..h.uncertainty

\* aggregate() against a definition that does not sort: every quantile is the least value
\* at or below which the asked share of the values lies, mean and remainder give back the
\* exact sum unless it is not representable, and the histogram counts every value below
\* each bound.
DistributionsAreExact ==
  \A request \in Requests :
    LET s == Summary(request)
        d == s.end_to_end
        included == Included(request)
        Below(v) == Cardinality({k \in 1..Len(included) : included[k].rtt <= v})
        rtts == {included[k].rtt : k \in 1..Len(included)}
    IN  s.ok =>
        /\ d.count = Len(included)
        /\ rtts # {} => /\ \A p \in 1..Len(d.probes) :
                             d.quantiles[p] = Min({v \in rtts :
                               Below(v) * d.probes[p][2] >= d.probes[p][1] * d.count})
                        /\ d.min = Min(rtts) /\ d.max = Max(rtts)
        /\ d.overflowed <=> rtts # {} /\ d.sum = NoValue
        /\ d.mean # NoValue => /\ d.mean * d.count + d.remainder = d.sum
                               /\ d.min <= d.mean /\ d.mean <= d.max
        /\ \A b \in 1..Len(d.bounds) :
             Total(SubSeq(d.histogram.buckets, 1, b)) + d.histogram.underflow = Below(d.bounds[b] - 1)

\* Engine::history and Engine::summarize answer alike: the buckets of a window together
\* count exactly the exchanges its summary includes and excludes for their evidence, also
\* when the last bucket reaches past the window.
HistoryAgreesWithSummary ==
  \A request \in Requests :
    LET s == Summary(request)
        h == History(records, catalog, request)
    IN  s.ok /\ h.ok =>
          /\ \A c \in {"Included", "Conflicting", "Unsupported", "Stale"} :
               Total(Each(LAMBDA b : b.counts[c], h.buckets)) = s.counts[c]
          /\ h.evidence = s.evidence
          /\ Total(Each(LAMBDA b : b.end_to_end.count, h.buckets)) = s.end_to_end.count

\* attribute() selects records with a filter of its own, of any source, which agrees with
\* the one of summarize(); and when it reports a complete decomposition every hop of the
\* path was observed in every included exchange.
AttributionAgreesWithSummary ==
  \A request \in Requests :
    LET s == Summary([request EXCEPT !.source = None])
        a == Attributed(request)
    IN  s.ok /\ a.ok =>
          /\ a.included = s.counts["Included"]
          /\ a.kind = "Observed" => \A i \in 1..Len(s.hops) : s.hops[i].observed = s.counts["Included"]

Conserves(a, sums, shares, complete) ==
  a.ok =>
    /\ a.complete + a.incomplete = a.included /\ a.complete = Len(complete)
    /\ a.complete > 0 /\ NoValue \notin Range(sums) /\ a.residual.sum # NoValue =>
         Total(sums) + a.residual.sum = Total(Each(Rtt, complete))
    /\ a.kind \in {"Refused", "Unsupported"} => shares = 0 /\ a.accounted = NoValue
    /\ a.accounted # NoValue => /\ a.complete > 0
                                /\ shares \in (Million - Len(sums))..Million

\* A decomposition accounts for the time it decomposes: over the complete exchanges the
\* hop sums and the residuals add up to the end to end sum, shares are parts of the
\* accounted time, and a refused or unsupported one publishes no share and no accounted
\* time at all.
AttributionConserves ==
  \A request \in Requests :
    LET a == Attributed(request)
        path == catalog["path"][request.path]
    IN  Conserves(a, Each(LAMBDA c : c.sum, a.contributions), Total(a.shares),
          SelectSeq(records, LAMBDA r : Selected(r, request) /\ Complete(clocks, r, path)))

\* The provenance of an explanation is the list of the exchanges the summary includes; it
\* is cut short only together with the flag that says so, and a sample export of the same
\* window holds every exchange of it or admits that it was truncated.
ProvenanceAgreesWithSummary ==
  \A request \in Requests :
    LET e == Explain(records, catalog, request)
        x == ExportSamples(records, request)
    IN  /\ ~e.truncated => e.provenance = Included(request)
        /\ IsPrefix(e.provenance, Included(request))
        /\ ~x.truncated => Range(Included(request)) \subseteq Range(x.rows)
        /\ x.truncated <=> x.skipped > 0

\* Answers do not depend on the order in which the records arrived: summaries, histories
\* and attributions of the reversed log are the same.  Of an evidence that is its state,
\* freshness and confidence; the reasons merge() also keeps, the first 24 to arrive, are
\* not in the model.
OrderIndependent ==
  \A request \in Requests :
    /\ Summarize(Reverse(records), catalog, request) = Summary(request)
    /\ History(Reverse(records), catalog, request) = History(records, catalog, request)
    /\ Attribute(Reverse(records), catalog, clocks, baselines, request, NoValue) = Attributed(request)

\* A baseline speaks for its window until it is too old, and for nothing else.  Whatever was
\* measured, redefined or restarted since, a later look at the window it was taken from is
\* compared with it exactly when the look ends no earlier than the baseline was taken and no
\* more than the aging horizon after, and has enough usable evidence.  The same window shows
\* no deviation at all as long as no measurement has been stored since.
BaselinesSpeakForTheirWindow ==
  \A i \in 1..Len(baselines) : \A end \in {e \in Ends : taken[i].request.from < e} :
    LET asked == [taken[i].request EXCEPT !.to = end]
        s == Summary(asked)
        c == CompareBaseline(baselines[i], s)
    IN  s.ok =>
        /\ c.applicable <=> /\ end \in taken[i].at..taken[i].at + AgingHorizon
                            /\ s.end_to_end.count >= MinSamples
                            /\ baselines[i].evidence.state # "Conflicting"
                            /\ asked.mode = "current" => Usable(s.evidence)
        /\ c.applicable /\ asked = taken[i].request /\ Len(records) = taken[i].records =>
             /\ c.mean_delta \in {0, NoValue} /\ c.min_delta = 0 /\ c.max_delta = 0
             /\ \A k \in 1..Len(c.anomalies) : c.anomalies[k].class \in {"None", "Unknown"}

Answers(s, a, bases) ==
  IF ~s.ok \/ ~a.ok THEN <<s.ok, a.ok>>
  ELSE <<s.counts, s.end_to_end, Each(LAMBDA h : h.dwell, s.hops), s.evidence.state,
         a.kind, a.shares, a.accounted, Each(LAMBDA b : CompareBaseline(b, s), bases)>>

HistoricalAnswers(recs, bases, request) ==
  Answers(Summarize(recs, catalog, request),
          Attribute(recs, catalog, clocks, bases, request, NoValue), bases)

\* docs/persistence.md: a restart changes how fresh evidence is, and nothing else.  In every
\* state, what a historical query answers, its counts, distributions, decomposition and
\* comparison with every baseline, is what it would answer after a restart that loads.
RestartPreservesHistory ==
  \A request \in Requests : request.mode = "historical" /\ BaselinesDecode =>
    HistoricalAnswers(records, baselines, request)
      = HistoricalAnswers(LoadedRecords, LoadedBaselines, request)

=============================================================================
