------------------------------ MODULE Evidence ------------------------------
(***************************************************************************)
(* The evidence every result carries (core/evidence.cpp): a state, a       *)
(* freshness and a confidence, and the merge that combines them.  Of the   *)
(* reasons that explain it one question is ever asked: whether one of them *)
(* is a refused clock (clock_refusal_reason in attribute.cpp); "clock"     *)
(* answers it and the rest is left out.                                    *)
(***************************************************************************)
EXTENDS Integers, Sequences, Functions

CONSTANTS FreshHorizon, AgingHorizon, StaleHorizon   \* FreshnessPolicy

\* FreshnessPolicy::validate.
ASSUME HorizonAssumption ==
  /\ FreshHorizon \in Nat \ {0}
  /\ AgingHorizon \in Int /\ AgingHorizon > FreshHorizon
  /\ StaleHorizon \in Int /\ StaleHorizon > AgingHorizon

\* The enumerations, in order of rank: a later member is worse.
States ==
  <<"Observed", "Incomplete", "Missing", "Stale", "Conflicting", "Unknown", "Unsupported", "Refused">>
Freshnesses == <<"Fresh", "Aging", "Stale", "Expired", "Unknown">>
Confidences == <<"High", "Moderate", "Low", "Degraded", "None">>

Rank(order, x) == CHOOSE i \in 1..Len(order) : order[i] = x

Worse(order, a, b) == IF Rank(order, a) >= Rank(order, b) THEN a ELSE b

EvidenceValues ==
  [state : Range(States), freshness : Range(Freshnesses), confidence : Range(Confidences), clock : BOOLEAN]

\* A default constructed Evidence.
Blank == [state |-> "Unknown", freshness |-> "Unknown", confidence |-> "None", clock |-> FALSE]

Observed(freshness, confidence) ==
  [state |-> "Observed", freshness |-> freshness, confidence |-> confidence, clock |-> FALSE]

ObservedFresh == Observed("Fresh", "High")

\* missing(), conflicting(), unknown(), unsupported() and refused() differ in the state alone.
Absent(state) == [Blank EXCEPT !.state = state]
ClockAbsent(state) == [Absent(state) EXCEPT !.clock = TRUE]

IncompleteEvidence == [Blank EXCEPT !.state = "Incomplete", !.confidence = "Low"]

StaleEvidence == [Absent("Stale") EXCEPT !.freshness = "Stale"]

\* Evidence::usable: may be used as current evidence.
Usable(e) == e.state = "Observed" /\ e.freshness \in {"Fresh", "Aging"}

Coverage == {"Observed", "Incomplete", "Missing"}

MergeStateFirst(a, b) == IF a = "Observed" THEN b ELSE a

\* Coverage states combine into Incomplete; anything else takes the more severe state.
MergeState(a, b) ==
  IF {a, b} \subseteq Coverage
    THEN IF {a, b} = {"Observed"} THEN "Observed" ELSE "Incomplete"
    ELSE Worse(States, a, b)

Merge(left, right) ==
  [state      |-> MergeState(left.state, right.state),
   freshness  |-> Worse(Freshnesses, left.freshness, right.freshness),
   confidence |-> Worse(Confidences, left.confidence, right.confidence),
   clock      |-> left.clock \/ right.clock]

\* Op of every element.  A concatenation is evaluated by TLC once, a function at every use.
Each(Op(_), s) == [i \in 1..Len(s) |-> Op(s[i])] \o <<>>

\* A chain of early returns: the outcome of the first <<condition, outcome>> that holds.
EarlyReturn(checks, otherwise) ==
  LET hits == SelectSeq(checks, LAMBDA c : c[1])
  IN  IF hits = <<>> THEN otherwise ELSE hits[1][2]

\* FreshnessPolicy::classify: evidence from the future has no freshness.
ClassifyAge(age) ==
  EarlyReturn(<<<<age < 0, "Unknown">>, <<age <= FreshHorizon, "Fresh">>,
                <<age <= AgingHorizon, "Aging">>, <<age <= StaleHorizon, "Stale">>>>, "Expired")
=============================================================================
