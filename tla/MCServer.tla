------------------------------ MODULE MCServer ------------------------------
(* One client changes definitions and evidence, may send without waiting and *)
(* shuts the server down; the other asks and refers to what the first made.  *)
EXTENDS Server, Service

Line(op) == [op |-> op, by |-> "name", mentions |-> op = "shutdown"]
Definition(def) == [op |-> "define", by |-> "name", mentions |-> FALSE, def |-> def]
Asking(op, query) ==
  [op |-> op, by |-> "name", mentions |-> FALSE, query |-> query, name |-> "b", baseline |-> NoValue]

Source(name) == [kind |-> "source", name |-> name, rev |-> 1, semantics |-> {"hop"}]
Generation(name, supersedes) == [kind |-> "generation", name |-> name, rev |-> 1, supersedes |-> supersedes]
HopDef(name) == [kind |-> "hop", name |-> name, rev |-> 1, link |-> NoRef, queue |-> NoRef]
Path(rev, generation) ==
  [kind |-> "path", name |-> "p", rev |-> rev, generation |-> generation, hops |-> <<"h1">>]

Ref0(ns) == [ns |-> ns, domain |-> "ref"]
Measurement(source, seq) ==
  [path |-> "p", generation |-> "g1", source |-> source, session |-> <<"e1", "i1">>, seq |-> seq, rev |-> 1,
   domain |-> "ref", request |-> Ref0(0), response |-> Ref0(2), rtt |-> 2, observed |-> Ref0(1), hops |-> <<>>]
Batch(batch) ==
  [op |-> "ingest", by |-> "name", mentions |-> FALSE, batch |-> batch, received |-> 1]
DomainLine(name) == [op |-> "define_clock_domain", by |-> "name", mentions |-> FALSE, domain |-> name]
SyncLine ==
  [op |-> "clock_sync", by |-> "name", mentions |-> FALSE, reported_by |-> "s1",
   sync |-> [domain |-> "d1", reference |-> "ref", state |-> "synchronized", offset |-> 1, uncertainty |-> 0,
             valid_for |-> 1, observed_at |-> 1, in |-> "ref", generation |-> None, epoch |-> None,
             incarnation |-> None, rev |-> 1]]

Query(kind) ==
  [path |-> "p", generation |-> "g1", mode |-> "current", from |-> 0, to |-> 2, in |-> "ref", source |-> None,
   bounds |-> <<2, 6>>, probes |-> << <<1, 2>> >>, bucket |-> 2, kind |-> kind]

Endpoint(name) == [kind |-> "endpoint", name |-> name, rev |-> 1]
MCSetup ==
  << DomainLine("ref"), Definition(Source("s1")), Definition(Generation("g1", NoRef)), Definition(HopDef("h1")),
     Definition(Path(1, "g1")), Definition(Endpoint("e1")), Batch(<<Measurement("s1", 1)>>) >>
MCStart == Calls(EmptyEngine, MCSetup)
MCNotFound == Problem("not_found")

\* c1 shuts the server down before or after its other line; c2 asks about what c1 defines.
MCRequests ==
  [c \in {"c1", "c2"} |->
     IF c = "c1" THEN { Definition(Generation("g2", "g1")), Line("shutdown") }
     ELSE { Definition(Path(2, "g2")), Asking("export", Query("samples")) }]
MCMaxSends == [c \in {"c1", "c2"} |-> IF c = "c1" THEN 2 ELSE 1]

\* Every operation: c1's lines change something, c2's refer to it.
MCOperations ==
  [c \in {"c1", "c2"} |->
     IF c = "c1"
     THEN { Definition(Generation("g2", "g1")), Definition(Endpoint("e2")), DomainLine("d1"),
            Batch(<<Measurement("s1", 2)>>), Batch(<<Measurement("s1", 2), Measurement("s1", 3)>>),
            Asking("baseline_create", Query("summary")), Line("flush"), Line("malformed"), Line("oversized") }
     ELSE { Definition(Path(2, "g2")), [Definition(Path(2, "g2")) EXCEPT !.by = "identity"],
            Definition([kind |-> "link", name |-> "l1", rev |-> 1, from |-> "e1", to |-> "e2"]),
            Definition([kind |-> "queue", name |-> "q1", rev |-> 1, link |-> "l1", semantics |-> {}]),
            Definition([HopDef("h2") EXCEPT !.link = "l1", !.queue = "q1"]),
            SyncLine, Line("baseline_list"), Line("status"), Asking("explain", Query("summary")),
            [Asking("summarize", Query("summary")) EXCEPT !.mentions = TRUE] }
          \cup { Asking(op, Query("summary")) : op \in {"history", "attribute"} }
          \cup { Asking("export", Query(kind)) : kind \in {"samples", "baselines", "summary"} }]
MCOneSend == [c \in {"c1", "c2"} |-> 1]

MCTableLimit == [k \in Kinds |-> 3]
MCSessions == {<<"e1", "i1">>, <<"e1", "i2">>}

\* What the clients send, and what was called before the first one connected.
ASSUME RequestsWellFormed ==
  /\ \A c \in Clients : \A request \in Requests[c] : WellFormed(request)
  /\ \A i \in 1..Len(MCSetup) : WellFormed(MCSetup[i])
=============================================================================
