------------------------------ MODULE MCEngine ------------------------------
(***************************************************************************)
(* Model checking of Engine.  Three records fill a segment, so that a      *)
(* batch and its fences can straddle two segments; the store limit and the *)
(* load capacity are reached within the calls of a behaviour; three runs   *)
(* leave a crash, a restart that writes, and a restart that reads.  The    *)
(* definitions are a source and its next revision, a generation whose text *)
(* fits the store only when it is empty, and one that supersedes it; a     *)
(* clock domain has two revisions of a report, and one of revision 0.      *)
(***************************************************************************)
EXTENDS Engine, TLC

CONSTANTS s1, g1, g2, d1

SourceDef(s, rev) == [kind |-> "source", name |-> s, rev |-> rev, size |-> 1]
GenerationDef(g, supersedes, size) ==
  [kind |-> "generation", name |-> g, rev |-> 1, supersedes |-> supersedes, size |-> size]

MCDefinitions ==
  {SourceDef(s1, 1), SourceDef(s1, 2), GenerationDef(g1, NoRef, 5), GenerationDef(g2, g1, 1)}

MCSourceOrder == <<s1>>

MCClockDomains == {[name |-> d1, content |-> 0]}

SyncReport(rev) ==
  [domain |-> d1, reference |-> None, state |-> "synchronized", offset |-> rev, uncertainty |-> 0,
   valid_for |-> 1, observed_at |-> 0, in |-> None, generation |-> None, epoch |-> None,
   incarnation |-> None, rev |-> rev]

MCSyncs == {SyncReport(0), SyncReport(1), SyncReport(2)}

MCTableLimit == [k \in Kinds |-> 2]

Symmetry == Permutations(Sessions)
=============================================================================
