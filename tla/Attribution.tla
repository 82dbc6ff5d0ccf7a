----------------------------- MODULE Attribution -----------------------------
(***************************************************************************)
(* The decomposition of end to end time into hops (attribute/attribute.cpp *)
(* ): which exchanges take part, when it is refused, what it publishes.    *)
(***************************************************************************)
EXTENDS Baselines

CONSTANT AllowPartial   \* AttributionPolicy::allow_partial_decomposition

ASSUME AttributionAssumption == AllowPartial \in BOOLEAN

-----------------------------------------------------------------------------
(* The pass over the records.                                               *)

\* The selection repeats classify_record() without the restriction to a source.
Selected(record, request) ==
  /\ record.path = request.path /\ record.generation = request.generation
  /\ InWindow(record.received, request)
  /\ record.evidence.state \notin Valueless \cup {"Conflicting"}
  /\ request.mode = "current" => Usable(record.evidence)

CompareFor(clocks, record, a, b) ==
  IF a = b THEN Comparable(0, 0, 0, ObservedFresh)
  ELSE Compare(clocks, a, b, record.received,
               [generation |-> record.generation, epoch |-> record.session[1],
                incarnation |-> record.session[2]])

\* The exchange must be comparable with the local reference.
ExchangeComparison(clocks, record) == CompareFor(clocks, record, record.domain, Reference)

HasDwell(record, index) == HasHop(record, index) /\ Hop(record, index).dwell # NoValue

\* A hop that was reported without a dwell and whose evidence blames a clock or a conflict.
HopRefused(record, index) ==
  /\ HasHop(record, index) /\ ~HasDwell(record, index)
  /\ \/ Hop(record, index).evidence.state \in {"Refused", "Conflicting"}
     \/ Hop(record, index).evidence.clock

HopComparison(clocks, record, index) ==
  CompareFor(clocks, record, Hop(record, index).entry.domain, record.domain)

\* The hop contributes a value to the decomposition.
HopPlaced(clocks, record, index) ==
  HasDwell(record, index) /\ HopComparison(clocks, record, index).comparable

Positions(path) == 0..Len(path.hops) - 1

\* Some clock the exchange needs was refused.
ClocksRefused(clocks, record, path) ==
  \/ ~ExchangeComparison(clocks, record).comparable
  \/ \E i \in Positions(path) :
       HopRefused(record, i) \/ (HasDwell(record, i) /\ ~HopPlaced(clocks, record, i))

\* The evidence an exchange adds to a refusal.
Refusals(clocks, record, path) ==
  LET exchange == ExchangeComparison(clocks, record)
      Of(i) == IF ~HasHop(record, i) THEN <<>>
               ELSE IF ~HasDwell(record, i) THEN <<Hop(record, i).evidence>>
               ELSE IF ~HopPlaced(clocks, record, i) THEN <<HopComparison(clocks, record, i).evidence>>
               ELSE <<>>
  IN  (IF exchange.comparable THEN <<>> ELSE <<exchange.evidence>>)
      \o FlattenSeq(Each(LAMBDA i : Of(i - 1), [i \in 1..Len(path.hops) |-> i]))

Dwells(record, path) == Each(LAMBDA i : Hop(record, i - 1).dwell, [i \in 1..Len(path.hops) |-> i])

\* Both ends are moved by the same offset, so the end to end time is the round trip.
EndToEnd(record) == record.response - record.request

Accounted(record, path) == Total(Dwells(record, path))

\* An exchange with every hop placed, whose dwells add up without overflow.
Complete(clocks, record, path) ==
  /\ ExchangeComparison(clocks, record).comparable
  /\ \A i \in Positions(path) : HopPlaced(clocks, record, i)
  /\ EndToEnd(record) >= 0
  /\ \A n \in 1..Len(path.hops) : Nanos(Total(SubSeq(Dwells(record, path), 1, n))) # NoValue

-----------------------------------------------------------------------------
(* What the pass leaves: one contribution per hop of the path.              *)

\* HopContribution, before its share is known.  The uncertainty is the largest of the
\* exchanges in which the hop was placed, complete or not.
Contribution(clocks, included, complete, path, index, request) ==
  LET placed == SelectSeq(included, LAMBDA r : HopPlaced(clocks, r, index))
      missing == Len(SelectSeq(included, LAMBDA r : ~HasDwell(r, index)))
      observations == Each(LAMBDA r : Hop(r, index), complete)
      dwell == Aggregate(ValuesOf(observations, "dwell"), request)
      evidence == EarlyReturn(
        <<<<complete = <<>>, Merge(ObservedFresh, Absent("Unknown"))>>,
          <<missing # 0, Merge(ObservedFresh, IncompleteEvidence)>>>>, ObservedFresh)
  IN  [index       |-> index,
       hop         |-> path.hops[index + 1],
       mean        |-> dwell.mean,
       sum         |-> dwell.sum,
       queue_mean  |-> Aggregate(ValuesOf(observations, "queue_dwell"), request).mean,
       uncertainty |-> IF placed = <<>> THEN NoValue
                       ELSE Max({Hop(placed[k], index).uncertainty : k \in 1..Len(placed)}),
       coverage    |-> RatioPpm(Len(complete), Len(complete) + missing),
       evidence    |-> evidence]

\* Only sums that are known are accounted for (a dwell is never negative), and one that
\* would overflow an unsigned 64 bit sum is left out.
AccountedSum(contributions) ==
  LET Add(total, c) == IF c.sum = NoValue THEN total
                       ELSE IF total + c.sum > 2 * NanosMax + 1 THEN total ELSE total + c.sum
  IN  FoldLeft(Add, 0, contributions)

SharesOf(contributions, accounted) ==
  Each(LAMBDA c : IF c.sum = NoValue THEN 0 ELSE RatioPpm(c.sum, accounted), contributions)

\* The verdict: no evidence, no declared semantics, refused clocks, no complete exchange,
\* incomplete coverage, in this order.
Kind(included, declared, refused, complete) ==
  EarlyReturn(
    <<<<included = 0, "Refused">>, <<~declared, "Unsupported">>, <<refused, "Refused">>,
      <<complete = 0, "Refused">>,
      <<complete < included, IF AllowPartial THEN "Partial" ELSE "Refused">>>>, "Observed")

VerdictEvidence(included, declared, refused, complete, refusal) ==
  LET partial == [ObservedFresh EXCEPT !.state = "Incomplete", !.confidence = "Low"]
  IN  EarlyReturn(
        <<<<included = 0, Merge(ObservedFresh, Absent("Unknown"))>>,
          <<~declared, Merge(ObservedFresh, Absent("Unsupported"))>>,
          <<refused, [Merge(ObservedFresh, refusal) EXCEPT !.state = "Refused"]>>,
          <<complete = 0, Merge(Merge(ObservedFresh, refusal), Absent("Refused"))>>,
          <<complete < included, IF AllowPartial THEN partial ELSE Merge(partial, Absent("Refused"))>>>>,
        ObservedFresh)

PublishesAlways(kind) == kind # "Unsupported"

\* A refused or unsupported decomposition publishes no shares and no accounted time.
Publishes(kind) == kind \in {"Observed", "Partial"}

-----------------------------------------------------------------------------
\* What the pass over the included exchanges finds.
Pass(catalog, clocks, included, path) ==
  [included |-> included,
   complete |-> SelectSeq(included, LAMBDA r : Complete(clocks, r, path)),
   refused  |-> \E k \in 1..Len(included) : ClocksRefused(clocks, included[k], path),
   declared |-> \E k \in 1..Len(included) :
                  LET s == included[k].source
                  IN  Known(catalog, "source", s) /\ "hop" \in catalog["source"][s].semantics,
   refusal  |-> MergeAll(Blank, FlattenSeq(Each(LAMBDA r : Refusals(clocks, r, path), included)))]

\* The result, once the verdict and the contributions are known.
Published(considered, path, pass, kind, end_to_end, residual, contributions, comparison) ==
  LET complete == Len(pass.complete)
      included == Len(pass.included)
      accounted == IF Publishes(kind) THEN AccountedSum(contributions) ELSE 0
      mean == IF accounted = 0 THEN NoValue ELSE Nanos(accounted \div complete)
  IN  [ok          |-> TRUE,
       kind        |-> kind,
       considered  |-> considered,
       included    |-> included,
       complete    |-> complete,
       incomplete  |-> included - complete,
       negative    |-> Len(SelectSeq(pass.complete, LAMBDA r : EndToEnd(r) < Accounted(r, path))),
       e2e_mean    |-> end_to_end.mean,
       residual    |-> residual,
       contributions |-> contributions,
       shares      |-> SharesOf(contributions, accounted),
       accounted   |-> mean,
       unaccounted |-> Delta(end_to_end.mean, mean),
       evidence    |-> VerdictEvidence(included, pass.declared, pass.refused, complete, pass.refusal),
       comparison  |-> comparison]

Decomposition(considered, clocks, path, pass, end_to_end, comparison, request) ==
  IF ~end_to_end.ok \/ comparison = <<Failed>> THEN Failed
  ELSE Published(considered, path, pass,
         Kind(Len(pass.included), pass.declared, pass.refused, Len(pass.complete)),
         end_to_end,
         Aggregate(Each(LAMBDA r : EndToEnd(r) - Accounted(r, path), pass.complete), request),
         Each(LAMBDA i : Contribution(clocks, pass.included, pass.complete, path, i - 1, request),
              [i \in 1..Len(path.hops) |-> i]),
         comparison)

\* The comparison with the baseline asked for, if there is one; it needs a summary.
Compared(found, summary) ==
  IF found = <<>> THEN <<>>
  ELSE IF ~summary.ok THEN <<Failed>> ELSE <<CompareBaseline(found[1], summary)>>

Decomposed(considered, clocks, path, pass, comparison, request) ==
  Decomposition(considered, clocks, path, pass,
                Aggregate(Each(EndToEnd, pass.complete), request), comparison, request)

\* attribute().
Attribute(records, catalog, clocks, baselines, request, baseline) ==
  IF ~ValidWindow(request) \/ request.generation = None \/ ~Known(catalog, "path", request.path)
  THEN Failed
  ELSE Decomposed(Len(SelectSeq(records, LAMBDA r : r.path = request.path)),
         clocks, catalog["path"][request.path],
         Pass(catalog, clocks, SelectSeq(records, LAMBDA r : Selected(r, request)),
              catalog["path"][request.path]),
         Compared(GetBaseline(baselines, baseline),
                  Summarize(records, catalog, [request EXCEPT !.source = None])),
         request)
=============================================================================
