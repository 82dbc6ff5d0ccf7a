---------------------------- MODULE ClockRegistry ----------------------------
(***************************************************************************)
(* The clock registry (model/clock.cpp): clock domains, the newest         *)
(* synchronisation report of each, and the decision whether readings of    *)
(* two domains may be compared.  The registry is a value                   *)
(* [domains |-> name -> content, syncs |-> name -> report].                *)
(*                                                                         *)
(* A report is [domain, reference, state, offset, uncertainty, valid_for,  *)
(* observed_at, in, generation, epoch, incarnation, rev]; "in" is the      *)
(* domain of its observation time.  Its skew is stored and never used.  A  *)
(* reading is [ns, domain]; a binding [generation, epoch, incarnation]     *)
(* describes the evidence being compared.                                  *)
(***************************************************************************)
EXTENDS Evidence, FiniteSets

CONSTANTS
  Reference,        \* core::reference_clock_domain()
  None,             \* an invalid identity
  MaxClockDomains,  \* Limits::max_clock_domains
  MaxUncertainty,   \* ComparabilityPolicy::max_uncertainty_ns
  AllowHoldover,    \* ComparabilityPolicy::allow_holdover
  RequireMatch      \* which of "generation", "epoch", "incarnation" a report must match

ASSUME ClockAssumption ==
  /\ Reference # None
  /\ MaxClockDomains \in Nat \ {0} /\ MaxUncertainty \in Nat
  /\ AllowHoldover \in BOOLEAN
  /\ RequireMatch \subseteq {"generation", "epoch", "incarnation"}

NoClocks == [domains |-> [d \in {} |-> None], syncs |-> [d \in {} |-> None]]

With(table, key, value) == [k \in DOMAIN table \cup {key} |-> IF k = key THEN value ELSE table[k]]

\* define_domain(): the same content again is accepted, other content is a conflict.
DefineDomain(clocks, name, content) ==
  LET known == name \in DOMAIN clocks.domains
      fits == Cardinality(DOMAIN clocks.domains) < MaxClockDomains
  IN  [ok     |-> IF known THEN clocks.domains[name] = content ELSE fits,
       clocks |-> IF ~known /\ fits
                  THEN [clocks EXCEPT !.domains = With(@, name, content)] ELSE clocks]

\* The checks of record_sync() that look at the report alone and at the domains.
SyncWellFormed(clocks, sync) ==
  /\ sync.domain # None /\ sync.domain \in DOMAIN clocks.domains
  /\ sync.reference # None => sync.reference \in DOMAIN clocks.domains
  /\ sync.reference # sync.domain
  /\ sync.uncertainty >= 0 /\ sync.valid_for > 0

\* A report replaces the recorded one only at a greater revision; the same report again is
\* accepted and changes nothing.
SyncAdvances(clocks, sync) ==
  sync.domain \in DOMAIN clocks.syncs =>
    \/ sync.rev > clocks.syncs[sync.domain].rev
    \/ sync = clocks.syncs[sync.domain]

\* record_sync().
RecordSync(clocks, sync) ==
  LET ok == SyncWellFormed(clocks, sync) /\ SyncAdvances(clocks, sync)
  IN  [ok |-> ok, clocks |-> IF ok THEN [clocks EXCEPT !.syncs = With(@, sync.domain, sync)] ELSE clocks]

Incomparable(state) ==
  [comparable |-> FALSE, uncertainty |-> 0, first |-> 0, second |-> 0, evidence |-> ClockAbsent(state)]

Comparable(uncertainty, first, second, evidence) ==
  [comparable |-> TRUE, uncertainty |-> uncertainty, first |-> first, second |-> second,
   evidence |-> evidence]

\* A binding field contradicts a report when the policy asks for it and both declare it.
Contradicts(field, sync, binding) ==
  /\ field \in RequireMatch
  /\ sync[field] # None /\ binding[field] # None /\ sync[field] # binding[field]

Aging(sync, age) == age > sync.valid_for \div 2

\* What a report that may be used is worth.
SyncEvidence(sync, age, confidence) ==
  Observed(IF Aging(sync, age) THEN "Aging" ELSE "Fresh",
           IF sync.state = "holdover" THEN "Degraded" ELSE confidence)

\* compare_single(): whether one domain's report may be used now.
CompareSingle(clocks, d, now, binding) ==
  IF d \notin DOMAIN clocks.domains \/ d \notin DOMAIN clocks.syncs THEN Incomparable("Unknown")
  ELSE
    LET sync == clocks.syncs[d]
        age == now.ns - sync.observed_at
        refusal == EarlyReturn(
          <<<<sync.state \in {"unknown", "unsynced"}, "Refused">>,
            <<sync.state = "holdover" /\ ~AllowHoldover, "Refused">>,
            <<\E f \in {"generation", "epoch", "incarnation"} : Contradicts(f, sync, binding), "Conflicting">>,
            <<sync.in = None, "Unknown">>,
            <<sync.in # now.domain, "Conflicting">>,
            <<age < 0, "Conflicting">>,
            <<age > sync.valid_for, "Stale">>>>, "Observed")
    IN  IF refusal # "Observed" THEN Incomparable(refusal)
        ELSE Comparable(sync.uncertainty, sync.offset, sync.offset,
                        SyncEvidence(sync, age, IF Aging(sync, age) THEN "Moderate" ELSE "High"))

\* The uncertainty ceiling, applied to a comparison that is otherwise allowed.
WithinCeiling(c) ==
  IF c.uncertainty > MaxUncertainty
  THEN [Incomparable("Refused") EXCEPT !.uncertainty = c.uncertainty] ELSE c

\* compare() when one of the two, a or b, is the local reference domain: `single` is the
\* comparison of the other and `report` its synchronisation.
AgainstReference(single, report, a, b) ==
  IF ~single.comparable THEN single
  ELSE IF report.reference # Reference THEN Incomparable("Conflicting")
  ELSE WithinCeiling([single EXCEPT !.first = IF a = Reference THEN 0 ELSE @,
                                    !.second = IF b = Reference THEN 0 ELSE @])

CompareWithReference(clocks, a, b, now, binding) ==
  LET remote == IF a = Reference THEN b ELSE a
  IN  AgainstReference(CompareSingle(clocks, remote, now, binding), clocks.syncs[remote], a, b)

\* compare() of two remote domains: both reports are usable and name the same reference.
\* The sum of two uncertainties cannot overflow at the sizes modelled.
BothReports(left, right, first, second) ==
  IF ~left.comparable THEN left
  ELSE IF ~right.comparable THEN right
  ELSE IF first.reference # second.reference THEN Incomparable("Conflicting")
  ELSE IF first.reference = None THEN Incomparable("Refused")
  ELSE WithinCeiling(Comparable(left.uncertainty + right.uncertainty, left.first, right.first,
                                Merge(left.evidence, right.evidence)))

CompareRemotesSwapped(clocks, a, b, now, binding) ==
  BothReports(CompareSingle(clocks, b, now, binding), CompareSingle(clocks, a, now, binding),
              clocks.syncs[b], clocks.syncs[a])

CompareRemotes(clocks, a, b, now, binding) ==
  BothReports(CompareSingle(clocks, a, now, binding), CompareSingle(clocks, b, now, binding),
              clocks.syncs[a], clocks.syncs[b])

\* compare(): offsets bring each side's readings onto the reference timeline.
Compare(clocks, a, b, now, binding) ==
  IF None \in {a, b} THEN Incomparable("Unknown")
  ELSE IF a = b THEN Comparable(0, 0, 0, ObservedFresh)
  ELSE IF Reference \in {a, b} THEN CompareWithReference(clocks, a, b, now, binding)
  ELSE CompareRemotes(clocks, a, b, now, binding)

Unaged(evidence) == [known |-> FALSE, age |-> 0, evidence |-> evidence]
Aged(age, evidence) == [known |-> TRUE, age |-> age, evidence |-> evidence]

\* estimate_age(): the age of a reading on the reference timeline, and the evidence for it.
EstimateAge(clocks, observed, now) ==
  IF None \in {observed.domain, now.domain} THEN Unaged(ClockAbsent("Unknown"))
  ELSE IF observed.domain = now.domain THEN Aged(now.ns - observed.ns, Observed("Unknown", "High"))
  ELSE IF observed.domain \notin DOMAIN clocks.syncs THEN Unaged(ClockAbsent("Unknown"))
  ELSE
    LET sync == clocks.syncs[observed.domain]
        report_age == now.ns - sync.observed_at
    IN  EarlyReturn(
          <<<<sync.reference = None, Unaged(ClockAbsent("Unknown"))>>,
            <<sync.reference # now.domain, Unaged(ClockAbsent("Conflicting"))>>,
            <<sync.state \in {"unknown", "unsynced"}, Unaged(ClockAbsent("Refused"))>>,
            <<report_age \notin 0..sync.valid_for, Unaged([StaleEvidence EXCEPT !.clock = TRUE])>>>>,
          Aged(now.ns - (observed.ns - sync.offset), SyncEvidence(sync, report_age, "Moderate")))
=============================================================================
