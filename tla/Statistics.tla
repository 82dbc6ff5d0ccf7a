----------------------------- MODULE Statistics -----------------------------
(***************************************************************************)
(* Aggregation of stored records: distributions (stats/distribution.cpp),  *)
(* the summary of a path (stats/summary.cpp) and its history in buckets    *)
(* (Engine::history).  All of it is a function of the records, the catalog *)
(* and a request [path, generation, mode, from, to, in, source, bounds,    *)
(* probes, bucket]; "in" is the clock domain of the window, bounds are     *)
(* those of the histogram and a probe is a <<numerator, denominator>>.     *)
(***************************************************************************)
EXTENDS Admission, SequencesExt

CONSTANTS
  NanosMax,            \* the largest Nanos: 2^63 - 1
  MaxSamplesPerPath,   \* Limits::max_samples_per_path
  MaxQuantileProbes,   \* Limits::max_quantile_probes
  MaxHistoryBuckets    \* Limits::max_history_buckets

ASSUME StatisticsAssumption ==
  /\ NanosMax \in Nat \ {0} /\ MaxSamplesPerPath \in Nat
  /\ MaxQuantileProbes \in Nat /\ MaxHistoryBuckets \in Nat

Million == 1000000
Failed == [ok |-> FALSE]

\* The ratio_ppm() of summary.cpp and attribute.cpp.
RatioPpm(numerator, denominator) ==
  IF denominator = 0 THEN 0 ELSE Min({Million, (numerator * Million) \div denominator})

\* A value a signed 64 bit integer holds, or nothing.
Nanos(x) == IF x \in (-NanosMax - 1)..NanosMax THEN x ELSE NoValue

Total(values) == FoldLeft(+, 0, values)

MergeAll(first, rest) == FoldLeft(Merge, first, rest)

-----------------------------------------------------------------------------
(* distribution.cpp.                                                        *)

\* floor_mean(); \div is floor division.
FloorMean(values) ==
  IF values = <<>> \/ Nanos(Total(values)) = NoValue THEN NoValue
  ELSE Total(values) \div Len(values)

NearestRankDown(sorted, probe) ==
  IF sorted = <<>> THEN NoValue
  ELSE sorted[Max({1, (probe[1] * Len(sorted)) \div probe[2]})]

\* nearest_rank(): the ceiling of numerator * count / denominator, within 1..count.
NearestRank(sorted, probe) ==
  LET product == probe[1] * Len(sorted)
      ceiling == product \div probe[2] + (IF product % probe[2] = 0 THEN 0 ELSE 1)
  IN  IF sorted = <<>> THEN NoValue ELSE sorted[Min({Max({ceiling, 1}), Len(sorted)})]

\* Histogram::add: bucket i + 1 counts the values with exactly i bounds at or below them.
Histogram(values, bounds) ==
  LET BucketOf(v) == 1 + Cardinality({i \in 1..Len(bounds) : v >= bounds[i]})
      Proper == SelectSeq(values, LAMBDA v : v >= 0)
  IN  [underflow |-> Len(values) - Len(Proper),
       buckets   |-> Each(LAMBDA b : Len(SelectSeq(Proper, LAMBDA v : BucketOf(v) = b)),
                         [b \in 1..Len(bounds) + 1 |-> b])]

\* aggregate().
Aggregate(values, request) ==
  LET sorted == SortSeq(values, <)
      some == values # <<>>
  IN  IF Len(values) > MaxSamplesPerPath \/ Len(request.probes) > MaxQuantileProbes THEN Failed
      ELSE [ok         |-> TRUE,
            count      |-> Len(values),
            min        |-> IF some THEN sorted[1] ELSE NoValue,
            max        |-> IF some THEN sorted[Len(sorted)] ELSE NoValue,
            sum        |-> IF some THEN Nanos(Total(values)) ELSE NoValue,
            overflowed |-> some /\ Nanos(Total(values)) = NoValue,
            mean       |-> FloorMean(values),
            remainder  |-> IF FloorMean(values) = NoValue THEN 0 ELSE Total(values) % Len(values),
            quantiles  |-> Each(LAMBDA p : NearestRank(sorted, p), request.probes),
            bounds     |-> request.bounds,
            probes     |-> request.probes,
            histogram  |-> Histogram(values, request.bounds)]

-----------------------------------------------------------------------------
(* summary.cpp.                                                             *)

InWindow(reading, request) ==
  reading.domain = request.in /\ reading.ns >= request.from /\ reading.ns < request.to

\* TimeWindow::valid.
ValidWindow(request) == request.in # None /\ request.from < request.to

Valueless == {"Unsupported", "Refused", "Unknown", "Missing"}

RecordClassUpToEnd(record, request) ==
  EarlyReturn(
    <<<<record.path # request.path, "OtherPath">>,
      <<record.generation # request.generation, "OtherGeneration">>,
      <<request.source # None /\ record.source # request.source, "OtherSource">>,
      <<record.received.domain # request.in, "ClockDomainMismatch">>,
      <<record.received.ns \notin request.from..request.to, "OutOfWindow">>,
      <<record.evidence.state = "Conflicting", "Conflicting">>,
      <<record.evidence.state \in Valueless, "Unsupported">>,
      <<request.mode = "current" /\ ~Usable(record.evidence), "Stale">>>>, "Included")

\* classify_record().
RecordClass(record, request) ==
  EarlyReturn(
    <<<<record.path # request.path, "OtherPath">>,
      <<record.generation # request.generation, "OtherGeneration">>,
      <<request.source # None /\ record.source # request.source, "OtherSource">>,
      <<record.received.domain # request.in, "ClockDomainMismatch">>,
      <<~InWindow(record.received, request), "OutOfWindow">>,
      <<record.evidence.state = "Conflicting", "Conflicting">>,
      <<record.evidence.state \in Valueless, "Unsupported">>,
      <<request.mode = "current" /\ ~Usable(record.evidence), "Stale">>>>, "Included")

Classes ==
  {"OtherPath", "OtherGeneration", "OtherSource", "ClockDomainMismatch", "OutOfWindow",
   "Conflicting", "Unsupported", "Stale", "Included"}

InClass(records, request, class) ==
  SelectSeq(records, LAMBDA r : RecordClass(r, request) = class)

\* How many records fall in each of some classes.
ClassCounts(records, classes, request) ==
  LET all == Each(LAMBDA r : RecordClass(r, request), records)
  IN  [c \in classes |-> Len(SelectSeq(all, LAMBDA x : x = c))]

\* hop_at(): the observation a record carries for a hop index, if any.
HopAt(record, index) == SelectSeq(record.hops, LAMBDA h : h.index = index)
HasHop(record, index) == HopAt(record, index) # <<>>
Hop(record, index) == HopAt(record, index)[1]

\* The present values of a field over the observations of one hop.
ValuesOf(observations, field) ==
  SelectSeq(Each(LAMBDA h : h[field], observations), LAMBDA v : v # NoValue)

\* What one exchange adds to the evidence of a hop.  Where there is no dwell the code
\* merges the observation's evidence twice, which is the same as once.
HopShare(record, index) == IF HasHop(record, index) THEN Hop(record, index).evidence ELSE Absent("Missing")

\* The state a hop summary ends in: partial coverage overwrites whatever was merged.
Covered(evidence, observed, included) ==
  EarlyReturn(
    <<<<included = 0, Merge(evidence, Absent("Unknown"))>>,
      <<observed = 0, Merge(evidence, IncompleteEvidence)>>,
      <<observed < included, [evidence EXCEPT !.state = "Incomplete"]>>>>, evidence)

\* The summary of the hop a path declares at an index, over the included records.
HopSummary(included, hop, index, request) ==
  LET reporting == SelectSeq(included, LAMBDA r : HasHop(r, index))
      observations == Each(LAMBDA r : Hop(r, index), reporting)
      dwells == ValuesOf(observations, "dwell")
      queues == ValuesOf(observations, "queue_dwell")
      merged == MergeAll(ObservedFresh, Each(LAMBDA r : HopShare(r, index), included))
  IN  [index              |-> index,
       hop                |-> hop,
       observed           |-> Len(dwells),
       missing            |-> Len(included) - Len(reporting),
       unsupported        |-> Len(reporting) - Len(dwells),
       queue_observed     |-> Len(queues),
       queue_unsupported  |-> Len(SelectSeq(observations, LAMBDA h : h.queue_dwell = NoValue /\ h.queue # NoRef)),
       dwell              |-> Aggregate(dwells, request),
       queue_dwell        |-> Aggregate(queues, request),
       coverage           |-> RatioPpm(Len(dwells), Len(included)),
       evidence           |-> Covered(merged, Len(dwells), Len(included))]

Rtt(record) == record.rtt
EvidenceOf(record) == record.evidence
HasRtt(record) == record.evidence.state \in {"Observed", "Incomplete", "Stale"}

\* summarize().
Summarize(records, catalog, request) ==
  LET path == catalog["path"][request.path]
      included == InClass(records, request, "Included")
      valued == SelectSeq(included, HasRtt)
      end_to_end == Aggregate(Each(Rtt, valued), request)
      evidence == MergeAll(ObservedFresh, Each(EvidenceOf, included))
  IN  IF ~ValidWindow(request) \/ ~Known(catalog, "path", request.path) \/ request.generation = None
         \/ ~end_to_end.ok
      THEN Failed
      ELSE [ok         |-> TRUE,
            path       |-> request.path,
            generation |-> request.generation,
            domain     |-> request.in,
            mode       |-> request.mode,
            as_of      |-> request.to,
            considered |-> Len(records),
            counts     |-> ClassCounts(records, Classes, request),
            sources    |-> {included[k].source : k \in 1..Len(included)},
            end_to_end |-> end_to_end,
            hops       |-> Each(LAMBDA i : HopSummary(included, path.hops[i], i - 1, request),
                               [i \in 1..Len(path.hops) |-> i]),
            evidence   |-> IF included = <<>> THEN Merge(evidence, Absent("Unknown")) ELSE evidence]

-----------------------------------------------------------------------------
(* Engine::history.                                                         *)

BucketCountDown(request) == (request.to - request.from) \div request.bucket

\* The span over the bucket width, rounded up.
BucketCount(request) == (request.to - request.from + request.bucket - 1) \div request.bucket

HistoryBucket(records, b, request) ==
  LET start == request.from + (b - 1) * request.bucket
      here == SelectSeq(records, LAMBDA r : r.received.ns - start \in 0..request.bucket - 1)
      included == InClass(here, request, "Included")
  IN  [from        |-> start,
       to          |-> start + request.bucket,
       counts      |-> ClassCounts(here, {"Included", "Conflicting", "Unsupported", "Stale"}, request),
       end_to_end  |-> Aggregate(Each(Rtt, included), request),
       evidence    |-> IF included = <<>> THEN Merge(ObservedFresh, Absent("Unknown")) ELSE ObservedFresh]

History(records, catalog, request) ==
  LET count == BucketCount(request)
      buckets == Each(LAMBDA b : HistoryBucket(records, b, request), [b \in 1..count |-> b])
      included == InClass(records, request, "Included")
      evidence == MergeAll(ObservedFresh, Each(EvidenceOf, included))
  IN  IF \/ ~ValidWindow(request) \/ request.bucket <= 0 \/ request.generation = None
         \/ ~Known(catalog, "path", request.path)
         \/ Nanos(request.to - request.from) = NoValue
         \/ Nanos(request.to - request.from + request.bucket - 1) = NoValue
         \/ count = 0 \/ count > MaxHistoryBuckets
         \/ \E b \in 1..count : ~buckets[b].end_to_end.ok
      THEN Failed
      ELSE [ok |-> TRUE, buckets |-> buckets,
            evidence |-> IF included = <<>> THEN Merge(evidence, Absent("Unknown")) ELSE evidence]
=============================================================================
