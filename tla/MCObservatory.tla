--------------------------- MODULE MCObservatory ---------------------------
(* Path p crosses hops h1 and h2, h2 with queue q; clock domains d1 and d2  *)
(* run 2 ahead of and 1 behind the reference.  Measurements are complete,   *)
(* partial, cross-domain, out of order, from another source, or malformed.  *)
EXTENDS Observatory

SourceDef(name, semantics) == [kind |-> "source", name |-> name, rev |-> 2, semantics |-> semantics]
Generation(name) == [kind |-> "generation", name |-> name, rev |-> 1, supersedes |-> NoRef]
HopDef(name, queue) == [kind |-> "hop", name |-> name, rev |-> 1, link |-> NoRef, queue |-> queue]
PathDef(rev, generation, hops) ==
  [kind |-> "path", name |-> "p", rev |-> rev, generation |-> generation, hops |-> hops]

MCSetup ==
  << SourceDef("s1", {"hop"}), SourceDef("s2", {}), Generation("g1"), Generation("g2"),
     [kind |-> "queue", name |-> "q", rev |-> 1, link |-> NoRef, semantics |-> {"queue"}],
     HopDef("h1", NoRef), HopDef("h2", "q"), PathDef(1, "g1", <<"h1", "h2">>) >>

\* Path p moves to generation g2, where its hops are the other way round.
MCRedefinitions == { PathDef(2, "g2", <<"h2", "h1">>) }

MCClockDomains == {"d1", "d2"}
MCTrueOffset == [d \in {"d1", "d2", "ref"} |-> CASE d = "d1" -> 2 [] d = "d2" -> -1 [] d = "ref" -> 0]

Sync(domain, offset, uncertainty, at, rev) ==
  [domain |-> domain, reference |-> "ref", state |-> "synchronized", offset |-> offset,
   uncertainty |-> uncertainty, valid_for |-> 1, observed_at |-> at, in |-> "ref",
   generation |-> None, epoch |-> None, incarnation |-> None, rev |-> rev]

MCSynced == << Sync("d2", -1, 0, 1, 1) >>
MCSyncs == { Sync("d1", 3, 1, 1, 1), Sync("d1", 2, 0, 2, 2) }

At(ns, domain) == [ns |-> ns + MCTrueOffset[domain], domain |-> domain]
Absence == [ns |-> 0, domain |-> None]

\* Hops by true times.
Plain(index, hop, from, to, domain) ==
  [index |-> index, hop |-> hop, queue |-> NoRef, entry |-> At(from, domain), exit |-> At(to, domain),
   queue_entry |-> Absence, queue_exit |-> Absence]
Queued(index, from, to, in, out) ==
  [index |-> index, hop |-> "h2", queue |-> "q", entry |-> At(from, in), exit |-> At(to, out),
   queue_entry |-> At(from, in), queue_exit |-> At(to, out)]

Exchange(source, seq, domain, from, to, hops) ==
  [path |-> "p", generation |-> "g1", source |-> source, session |-> <<"e1", "i1">>, seq |-> seq,
   rev |-> 2, domain |-> domain, request |-> At(from, domain), response |-> At(to, domain),
   rtt |-> to - from, observed |-> At(1, "ref"), hops |-> hops, received |-> NoValue]

MCMeasurements ==
  { Exchange("s1", 2, "ref", 0, 5, <<Plain(0, "h1", 0, 2, "ref"), Queued(1, 2, 4, "d2", "d1")>>),
    [Exchange("s1", 1, "ref", 0, 7, <<Plain(0, "h1", 1, 4, "ref")>>) 
       EXCEPT !.observed = At(0, "ref"), !.rev = 1],
    [Exchange("s1", 3, "d1", 0, 3, <<Plain(0, "h1", 0, 1, "d1"), Queued(1, 1, 4, "d1", "d1")>>)
       EXCEPT !.observed = At(1, "d1")],
    [Exchange("s2", 1, "ref", 1, 1, <<Plain(0, "h1", 1, 1, "ref"), Queued(1, 1, 1, "ref", "ref")>>)
       EXCEPT !.received = 2],
    Exchange("s2", 2, "ref", 0, 2, <<Plain(0, "h2", 0, 1, "ref")>>) }

\* The last bucket of either history reaches past its window.
Query(mode, from, to, source) ==
  [path |-> "p", generation |-> "g1", mode |-> mode, from |-> from, to |-> to, in |-> "ref",
   source |-> source, bounds |-> <<2, 6>>, probes |-> << <<1, 2>>, <<99, 100>> >>,
   bucket |-> IF mode = "current" THEN 3 ELSE 2]

MCRequests == { Query("current", 1, 3, "s1"), Query("historical", 1, 4, None) }
MCBaselineRequests == { Query("historical", 1, 4, None) }

MCTableLimit == [k \in Kinds |-> 3]
MCSessions == {<<"e1", "i1">>, <<"e1", "i2">>}
=============================================================================
