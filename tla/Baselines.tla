------------------------------ MODULE Baselines ------------------------------
(***************************************************************************)
(* Reference distributions (baseline/baseline.cpp): the registry of        *)
(* baselines, a sequence in order of registration, and the comparison of a *)
(* summary with one of them.                                               *)
(***************************************************************************)
EXTENDS Statistics

CONSTANTS
  MaxBaselines,   \* Limits::max_baselines
  MinSamples,     \* AnomalyPolicy::min_samples
  WatchDelta,     \* AnomalyPolicy::watch_delta_ns
  ElevatedDelta   \* AnomalyPolicy::elevated_delta_ns

ASSUME BaselineAssumption ==
  /\ MaxBaselines \in Nat \ {0} /\ MinSamples \in Nat \ {0}
  /\ WatchDelta \in Nat \ {0} /\ ElevatedDelta \in Nat /\ ElevatedDelta > WatchDelta

\* The identity is derived from these fields.
BaselineId(path, generation, domain, rev, name) == <<path, generation, domain, rev, name>>

\* BaselineStore::get.
GetBaseline(baselines, id) == SelectSeq(baselines, LAMBDA b : b.id = id)

AddBaselineAgain(baselines, baseline) ==
  IF Len(baselines) >= MaxBaselines THEN [ok |-> FALSE, baselines |-> baselines]
  ELSE [ok |-> TRUE, baselines |-> Append(baselines, baseline)]

\* BaselineStore::add: a baseline is never replaced.
AddBaseline(baselines, baseline) ==
  IF \/ None \in {baseline.path, baseline.generation, baseline.domain}
     \/ GetBaseline(baselines, baseline.id) # <<>>
     \/ Len(baselines) >= MaxBaselines
  THEN [ok |-> FALSE, baselines |-> baselines]
  ELSE [ok |-> TRUE, baselines |-> Append(baselines, baseline)]

\* BaselineStore::latest_for: the greatest revision, the earliest registered of equals.
LatestFor(baselines, path, generation, domain, bounds) ==
  LET Fits(b) == b.path = path /\ b.generation = generation /\ b.domain = domain /\ b.bounds = bounds
      fitting == SelectSeq(baselines, Fits)
      newest == Max({fitting[i].rev : i \in 1..Len(fitting)})
  IN  IF fitting = <<>> THEN <<>> ELSE <<SelectSeq(fitting, LAMBDA b : b.rev = newest)[1]>>

\* BaselineStore::list: by identity, a digest, so in an order that the registration does
\* not determine.
ListBaselines(baselines) == SetToSeq(Range(baselines))

-----------------------------------------------------------------------------
(* compare().                                                               *)

Delta(current, reference) ==
  IF NoValue \in {current, reference} THEN NoValue ELSE Nanos(current - reference)

\* The ratio_ppm() of baseline.cpp: no cap, and no ratio to a reference that is not positive.
MeanRatio(current, reference) ==
  IF NoValue \in {current, reference} THEN 0
  ELSE IF reference <= 0 THEN 0 ELSE (Max({current, 0}) * Million) \div reference

\* quantile_at(): the probe asked for, or the last one there is.
QuantileAt(distribution, probe) ==
  LET at == {i \in 1..Len(distribution.probes) : distribution.probes[i] = probe}
      n == Len(distribution.quantiles)
  IN  IF at # {} THEN distribution.quantiles[Min(at)]
      ELSE IF n > 0 THEN distribution.quantiles[n] ELSE NoValue

\* A deviation against the two thresholds, upwards and downwards.
AnomalyClass(delta) ==
  EarlyReturn(
    <<<<delta >= ElevatedDelta, "Elevated">>, <<delta >= WatchDelta, "Watch">>,
      <<delta <= -ElevatedDelta, "SuppressedElevated">>, <<delta <= -WatchDelta, "Suppressed">>>>, "None")

\* classify_anomaly().
ClassifyAnomaly(current, reference) ==
  LET delta == Delta(current.mean, reference.mean)
      class == IF \/ current.count < MinSamples \/ reference.count < MinSamples
                  \/ delta = NoValue
               THEN "Unknown" ELSE AnomalyClass(delta)
  IN  [class      |-> class,
       mean_delta |-> delta,
       p99_delta  |-> Delta(QuantileAt(current, <<99, 100>>), QuantileAt(reference, <<99, 100>>)),
       ratio      |-> MeanRatio(current.mean, reference.mean)]

AgeMismatchExpired(age) ==
  EarlyReturn(<<<<age < 0, {"NotUsable"}>>, <<ClassifyAge(age) = "Expired", {"Expired"}>>>>, {})

\* A summary that ends before the baseline was taken, or too long after.
AgeMismatch(age) ==
  EarlyReturn(<<<<age < 0, {"NotUsable"}>>, <<ClassifyAge(age) = "Stale", {"Stale"}>>,
                <<ClassifyAge(age) = "Expired", {"Expired"}>>>>, {})

\* Why a baseline does not apply to a summary.
Mismatches(reference, current) ==
  (IF reference.path # current.path THEN {"Path"} ELSE {})
  \cup (IF reference.generation # current.generation THEN {"Generation"} ELSE {})
  \cup (IF reference.domain # current.domain THEN {"ClockDomain"} ELSE {})
  \cup (IF reference.bounds # current.end_to_end.bounds THEN {"Histogram"} ELSE {})
  \cup (IF reference.probes # current.end_to_end.probes THEN {"Probes"} ELSE {})
  \cup (IF \/ reference.evidence.state = "Conflicting"
           \/ current.mode = "current" /\ ~Usable(current.evidence)
           \/ current.end_to_end.count < MinSamples THEN {"NotUsable"} ELSE {})
  \cup AgeMismatch(current.as_of - reference.created_at)

\* One anomaly for the exchange and one for every hop both have.
Anomalies(reference, current) ==
  LET n == Min({Len(reference.hops), Len(current.hops)})
  IN  <<ClassifyAnomaly(current.end_to_end, reference.end_to_end)>>
      \o [i \in 1..n |-> ClassifyAnomaly(current.hops[i].dwell, reference.hops[i].dwell)]

\* compare().
CompareBaseline(reference, current) ==
  IF Mismatches(reference, current) # {}
  THEN [applicable |-> FALSE, mismatches |-> Mismatches(reference, current)]
  ELSE [applicable |-> TRUE, mismatches |-> {},
        mean_delta |-> Delta(current.end_to_end.mean, reference.end_to_end.mean),
        min_delta  |-> Delta(current.end_to_end.min, reference.end_to_end.min),
        max_delta  |-> Delta(current.end_to_end.max, reference.end_to_end.max),
        mean_ratio |-> MeanRatio(current.end_to_end.mean, reference.end_to_end.mean),
        anomalies  |-> Anomalies(reference, current)]
=============================================================================
