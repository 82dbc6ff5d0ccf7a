------------------------------ MODULE Admission ------------------------------
(***************************************************************************)
(* What the admission gate (ingest/ingest.cpp) makes of one measurement:   *)
(* structural checks against the catalog, the age of the observation, the  *)
(* dwell of every hop, and the verdict of SessionFence.                    *)
(*                                                                         *)
(* A measurement as sent is [path, generation, source, session, seq, rev,  *)
(* domain, request, response, rtt, observed, hops]: session is an <<epoch, *)
(* incarnation>> pair, request, response and observed are readings.  A hop *)
(* is [index, hop, queue, entry, exit, queue_entry, queue_exit]; an absent *)
(* queue reading has the domain None.                                      *)
(***************************************************************************)
EXTENDS SessionFence, Catalog, ClockRegistry

CONSTANT NoValue   \* an empty optional

\* The evidence a measurement's clock comparisons are bound to.
Binding(m) == [generation |-> m.generation, epoch |-> m.session[1], incarnation |-> m.session[2]]

IndexesIncrease(hops) == \A i \in 1..Len(hops) - 1 : hops[i].index < hops[i + 1].index

\* A hop that can be judged at all: its definition and both its domains are known.
Judged(catalog, h) == Known(catalog, "hop", h.hop) /\ None \notin {h.entry.domain, h.exit.domain}

\* The hop is the one the path declares at this position.
MatchesPath(path, h) == h.index < Len(path.hops) /\ path.hops[h.index + 1] = h.hop

\* Everything classify() rejects outright, but for the unknown source: registry,
\* structure of the exchange, and hops that do not match the path.
Sound(catalog, m) ==
  /\ Known(catalog, "path", m.path) /\ Known(catalog, "generation", m.generation)
  /\ None \notin {m.session[1], m.session[2], m.domain} /\ m.rev >= 1
  /\ m.request.domain = m.domain /\ m.response.domain = m.domain
  /\ m.response.ns >= m.request.ns /\ m.rtt = m.response.ns - m.request.ns
  /\ IndexesIncrease(m.hops)
  /\ \A i \in 1..Len(m.hops) :
       Judged(catalog, m.hops[i]) => MatchesPath(catalog["path"][m.path], m.hops[i])

\* The generation is the path's and nothing supersedes it.
Bound(catalog, m) ==
  catalog["path"][m.path].generation = m.generation /\ ~IsSuperseded(catalog, m.generation)

FreshnessOf(age) == IF age.known THEN ClassifyAge(age.age) ELSE "Unknown"

\* The evidence of the exchange: its age is established on the reference timeline.
ExchangeEvidence(clocks, m, now) ==
  LET age == EstimateAge(clocks, m.observed, now)
  IN  [Merge(Observed("Unknown", "High"), age.evidence) EXCEPT !.freshness = FreshnessOf(age)]

-----------------------------------------------------------------------------
(* derive_dwells().                                                         *)

NoSpan(evidence) == [value |-> NoValue, uncertainty |-> NoValue, evidence |-> evidence]

\* The time between two readings, each brought onto the reference timeline, and the
\* evidence to merge into the hop; ObservedFresh is neutral.  Readings of one domain are
\* subtracted without asking the registry.
Elapsed(c, span) ==
  EarlyReturn(
    <<<<~c.comparable, NoSpan(c.evidence)>>,
      <<span < 0, NoSpan(Absent("Conflicting"))>>>>,
    [value |-> span, uncertainty |-> c.uncertainty, evidence |-> c.evidence])

Between(c, entry, exit) == Elapsed(c, (exit.ns - c.second) - (entry.ns - c.first))

Span(clocks, entry, exit, now, binding) ==
  Between(IF entry.domain = exit.domain THEN Comparable(0, 0, 0, ObservedFresh)
          ELSE Compare(clocks, entry.domain, exit.domain, now, binding), entry, exit)

\* Queue residency: only when the hop declares the queue and the queue declares the semantics.
QueueSpan(catalog, clocks, h, now, binding) ==
  LET declared == catalog["hop"][h.hop].queue
      supported == /\ declared # NoRef /\ h.queue = declared /\ Known(catalog, "queue", declared)
                   /\ "queue" \in catalog["queue"][declared].semantics
                   /\ None \notin {h.queue_entry.domain, h.queue_exit.domain}
  IN  IF declared = NoRef /\ h.queue = NoRef THEN NoSpan(ObservedFresh)
      ELSE IF ~supported THEN NoSpan(Absent("Unsupported"))
      ELSE Span(clocks, h.queue_entry, h.queue_exit, now, binding)

\* The evidence of a hop before its dwell is derived: what the structural pass found, and
\* the freshness of the exchange when it found nothing.
HopEvidence(catalog, h, exchange) ==
  EarlyReturn(
    <<<<~Known(catalog, "hop", h.hop), Merge(ObservedFresh, Absent("Unsupported"))>>,
      <<~Judged(catalog, h), Merge(ObservedFresh, ClockAbsent("Unsupported"))>>>>,
    Observed(exchange.freshness, exchange.confidence))

Measured(h, base, dwell, queue) ==
  [index |-> h.index, hop |-> h.hop, queue |-> h.queue, entry |-> h.entry, exit |-> h.exit,
   dwell |-> dwell.value, uncertainty |-> dwell.uncertainty, queue_dwell |-> queue.value,
   evidence |-> Merge(Merge(base, dwell.evidence), queue.evidence)]

\* A hop that is not known is left as the structural pass judged it.
DeriveDwell(catalog, clocks, h, exchange, now, binding) ==
  LET base == HopEvidence(catalog, h, exchange)
  IN  IF ~Known(catalog, "hop", h.hop) THEN Measured(h, base, NoSpan(ObservedFresh), NoSpan(ObservedFresh))
      ELSE Measured(h, base, Span(clocks, h.entry, h.exit, now, binding),
                    QueueSpan(catalog, clocks, h, now, binding))

-----------------------------------------------------------------------------
\* The registered revision of a source, 0 when it is unknown.
RevisionOf(catalog, s) == IF Known(catalog, "source", s) THEN catalog["source"][s].rev ELSE 0

\* The part of the clock registry that the age of a reading of a domain depends on.
ReportsFor(clocks, domain) == [clocks EXCEPT !.syncs = RestrictDomain(@, LAMBDA d : d = domain)]

\* The decision of classify() on a measurement with this evidence.
Decided(catalog, fence, m, exchange) ==
  LET sound == Sound(catalog, m)
  IN  Classify(fence, RevisionOf(catalog, m.source),
        [session |-> m.session, seq |-> m.seq, rev |-> m.rev, sound |-> sound,
         bound |-> sound /\ Bound(catalog, m), usable |-> Usable(exchange)])

\* The record stored for a measurement.  A replay is conflicting; one that the revision
\* fence then accepts as history is stored that way.  "verdict" is a history variable, and
\* "clocks" the registry as the log has it before the record, for the next load.
Stored(catalog, clocks, m, exchange, d, now) ==
  [path |-> m.path, generation |-> m.generation, source |-> m.source,
   session |-> m.session, seq |-> m.seq, domain |-> m.domain,
   request |-> m.request.ns, response |-> m.response.ns, rtt |-> m.rtt,
   observed |-> m.observed, received |-> now, verdict |-> d.verdict,
   evidence |-> IF d.replayed THEN [exchange EXCEPT !.state = "Conflicting", !.freshness = "Unknown"]
                ELSE exchange,
   clocks |-> ReportsFor(clocks, m.observed.domain),
   hops |-> [i \in 1..Len(m.hops) |->
               DeriveDwell(catalog, clocks, m.hops[i], exchange, now, Binding(m))]]

Admission(catalog, clocks, m, exchange, d, now) ==
  [verdict |-> d.verdict, fence |-> d.fence, record |-> Stored(catalog, clocks, m, exchange, d, now)]

\* admit() of one measurement received at now: the stored record, its verdict and the
\* fence afterwards.
Admitted(catalog, clocks, fence, m, now) ==
  LET exchange == ExchangeEvidence(clocks, m, now)
  IN  Admission(catalog, clocks, m, exchange, Decided(catalog, fence, m, exchange), now)
=============================================================================
