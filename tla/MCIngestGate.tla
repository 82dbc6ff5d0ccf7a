---------------------------- MODULE MCIngestGate ----------------------------
(* One source, three sessions of which two are remembered, three sequences   *)
(* over a window of two and two revisions: every fence fires, windows        *)
(* overflow and a session is evicted.                                        *)
EXTENDS IngestGate, TLC

Symmetry == Permutations(Sessions)
=============================================================================
