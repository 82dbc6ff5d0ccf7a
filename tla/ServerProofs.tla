---------------------------- MODULE ServerProofs ----------------------------
(***************************************************************************)
(* The server for any clients, requests and limits: its connections are    *)
(* accounted for, a client's replies match its requests, and serving a     *)
(* request with lookups outside the engine's lock implements AtomicService *)
(* for every service that keeps what it has (ServiceLaws).  EngineServer   *)
(* shows that the service is one.                                          *)
(***************************************************************************)
EXTENDS Server, FiniteSetTheorems, TLAPS

CONSTANT Sound(_)  \* the states of the engine its calls keep it in

-----------------------------------------------------------------------------
(* The inductive invariant, in five parts.                                  *)

\* A thread that works on a line, and one that has still to reply to it.
Working(c) == pc[c] \in {"resolve", "call", "write"}
Serving(c) == Working(c) \/ pc[c] = "reply"

\* A connection is in the listener's queue.
Waits(queue, c) == \E i \in 1..Len(queue) : queue[i] = c

LiveOnes == {c \in Conns : Live(c)}

\* A connection is queued at most once, has a thread exactly while it is open, and the
\* wake-up connection is made by the one thread whose request_stop() was the first.
LinksOK ==
  /\ link \in [Conns -> {"none", "queued", "open", "closed"}]
  /\ backlog \in Seq(Conns) /\ Len(backlog) <= MaxConnections
  /\ \A i, j \in 1..Len(backlog) : backlog[i] = backlog[j] => i = j
  /\ \A c \in Conns : link[c] = "queued" <=> Waits(backlog, c)
  /\ pc \in [Conns -> Places]
  /\ \A c \in Conns : link[c] \in {"none", "queued"} => pc[c] = "none"
  /\ \A c \in Conns : link[c] = "open" <=> Live(c)
  /\ stop \in BOOLEAN /\ listening \in BOOLEAN
  /\ link[Wake] # "none" => stop
  /\ pc[Wake] \in {"none", "loop", "close", "done"}
  /\ \A c \in Conns : pc[c] = "wake" => stop /\ link[Wake] = "none"
  /\ \A c, d \in Conns : pc[c] = "wake" /\ pc[d] = "wake" => c = d

\* The counters of run().
CountsOK ==
  /\ run \in {"check", "accept", "accepting", "reap", "join", "returned", "closed", "killed"}
  /\ stats \in [{"accepted", "rejected", "served", "refused"} -> Nat]
  /\ active \in Nat /\ threads \in Nat
  /\ IsFiniteSet(LiveOnes) /\ active = Cardinality(LiveOnes)
  /\ active <= MaxConnections /\ active <= threads /\ threads <= stats.accepted
  /\ run \in {"returned", "closed"} => LiveOnes = {}

\* A numbered line of a client.
LineOf(c) == [n : Nat, request : Requests[c] \cup Garbled]

\* The lines of a client are numbered in the order it sent them: those replied to, then
\* the one worked on, then those unread.  A client that waits has one line at a time, whole
\* unless it has left.
ClientLines(c) ==
  /\ unread[c] \in Seq(LineOf(c)) /\ line[c] \in LineOf(c) /\ replies[c] \in Seq(Nat)
  /\ line[c].n <= sent[c] /\ sent[c] <= MaxSends[c]
  /\ \A i \in 1..Len(unread[c]) : line[c].n < unread[c][i].n /\ unread[c][i].n <= sent[c]
  /\ \A i, j \in 1..Len(unread[c]) : i < j => unread[c][i].n < unread[c][j].n
  /\ \A i \in 1..Len(replies[c]) :
       replies[c][i] <= line[c].n /\ (Serving(c) => replies[c][i] < line[c].n)
  /\ \A i, j \in 1..Len(replies[c]) : i < j => replies[c][i] < replies[c][j]
  /\ c \notin Pipelining =>
       /\ \A i \in 1..Len(replies[c]) : replies[c][i] = i
       /\ ~gone[c] => Len(replies[c]) = IF Serving(c) THEN line[c].n - 1 ELSE line[c].n
       /\ \/ unread[c] = <<>> /\ line[c].n = sent[c]
          \/ /\ Len(unread[c]) = 1 /\ (gone[c] \/ unread[c][1].request \in Requests[c])
             /\ unread[c][1].n = sent[c] /\ sent[c] = line[c].n + 1

LinesOK ==
  /\ gone \in [Conns -> BOOLEAN] /\ sent \in [Conns -> Nat]
  /\ unread = [c \in Conns |-> unread[c]] /\ replies = [c \in Conns |-> replies[c]]
  /\ line = [c \in Conns |-> line[c]]
  /\ unread[Wake] = <<>> /\ line[Wake] = NoLine
  /\ \A c \in Clients : ClientLines(c)

\* The locals of a client's thread, and the engine's lock held exactly inside the call it
\* was taken for.
ClientLocals(c) ==
  /\ lock = c <=> pc[c] = "write"
  /\ pc[c] = "write" => Exclusive(Request(c))
  /\ ~Serving(c) => Request(c) = Malformed /\ resolved[c] = 0
  /\ pc[c] # "reply" => answer[c] = NoAnswer
  /\ pc[c] = "resolve" => resolved[c] < Len(Names(Request(c)))
  /\ pc[c] \in {"call", "write"} => resolved[c] = Len(Names(Request(c)))
  /\ pc[c] = "reply" => resolved[c] <= Len(Names(Request(c)))

LocalsOK ==
  /\ resolved \in [Conns -> Nat] /\ answer = [c \in Conns |-> answer[c]]
  /\ resolved[Wake] = 0
  /\ lock \in Clients \cup {Nobody}
  /\ \A c \in Clients : ClientLocals(c)

\* A name that was found, in the engine's state or in the one the insertion under way makes.
Found(c, name) ==
  \/ Finds(engine, name)
  \/ lock # Nobody /\ lock # c /\ Finds(Handle(engine, Request(lock)).engine, name)

\* What a thread has found stays found until it calls the engine.
Known(c) == Working(c) => \A i \in 1..resolved[c] : Found(c, Names(Request(c))[i])

FoundOK ==
  /\ Sound(engine)
  /\ \A c \in Clients : Known(c)

-----------------------------------------------------------------------------
(* Links, the listener's queue and the wake-up connection.                  *)

\* Nothing is connected when LineServer::start() returns.
LEMMA InitLinks == Init => LinksOK
<1>1. <<>> \in Seq(Conns) /\ Len(<<>>) = 0
  OBVIOUS
<1>2. SUFFICES ASSUME Init PROVE LinksOK
  BY Zenon
<1>3. /\ \A c \in Conns : link[c] = "none" /\ pc[c] = "none"
      /\ link \in [Conns -> {"none", "queued", "open", "closed"}] /\ pc \in [Conns -> Places]
      /\ backlog = <<>> /\ stop = FALSE /\ listening = TRUE /\ Wake \in Conns
  BY <1>2, Zenon DEF Init, Places, Conns
<1>4. backlog \in Seq(Conns) /\ Len(backlog) <= MaxConnections /\ 1..Len(backlog) = {}
  BY <1>1, <1>3, ServerAssumption
<1>5. QED
  BY <1>3, <1>4, Zenon DEF LinksOK, Live, Waits

\* A thread that goes on to another place of its loop.
LEMMA MoveKeepsLinks ==
  ASSUME LinksOK, NEW c \in Conns, Live(c), NEW place \in Places \ {"none", "wake", "done"},
         c = Wake => place = "close", Goto(c, place), UNCHANGED <<link, backlog, stop, listening>>
  PROVE  LinksOK'
<1>1. pc' = [pc EXCEPT ![c] = place] /\ pc \in [Conns -> Places]
  BY Zenon DEF Goto, LinksOK
<1>2. /\ \A d \in Conns : pc'[d] = IF d = c THEN place ELSE pc[d]
      /\ pc' \in [Conns -> Places]
  BY <1>1, Zenon
<1>3. \A d \in Conns : Live(d)' <=> Live(d)
  BY <1>2, Zenon DEF Live
<1>4. Wake \in Conns
  BY Zenon DEF Conns
<1>5. QED
  BY <1>2, <1>3, <1>4 DEF LinksOK, Live

\* A connection that is not in the listener's queue enters it once.
LEMMA Queueing ==
  ASSUME NEW queue \in Seq(Conns), \A i, j \in 1..Len(queue) : queue[i] = queue[j] => i = j,
         NEW c \in Conns, ~Waits(queue, c)
  PROVE  LET longer == Append(queue, c) IN
         /\ longer \in Seq(Conns) /\ Len(longer) = Len(queue) + 1 /\ Len(queue) \in Nat
         /\ \A i, j \in 1..Len(longer) : longer[i] = longer[j] => i = j
         /\ \A d : Waits(longer, d) <=> d = c \/ Waits(queue, d)
<1> DEFINE longer == Append(queue, c)
           n == Len(queue)
<1>1. /\ longer \in Seq(Conns) /\ Len(longer) = n + 1 /\ n \in Nat
      /\ \A i \in 1..(n + 1) : longer[i] = IF i = n + 1 THEN c ELSE queue[i]
  OBVIOUS
<1>2. n + 1 \in 1..(n + 1) /\ 1..(n + 1) = (1..n) \cup {n + 1} /\ n + 1 \notin 1..n
  BY <1>1
<1> HIDE DEF longer, n
<1>3. longer[n + 1] = c /\ \A i \in 1..n : longer[i] = queue[i]
  BY <1>1, <1>2, Zenon
<1>4. \A i, j \in 1..(n + 1) : longer[i] = longer[j] => i = j
  BY <1>2, <1>3, Zenon DEF n, Waits
<1>5. \A d : (\E i \in 1..(n + 1) : longer[i] = d) <=> d = c \/ \E i \in 1..n : queue[i] = d
  BY <1>2, <1>3, Zenon
<1>6. QED
  BY <1>1, <1>4, <1>5, Zenon DEF longer, n, Waits

\* connect(): the client waits at the listener.
LEMMA ConnectKeepsLinks ==
  ASSUME LinksOK, NEW c \in Clients, Connect(c)
  PROVE  LinksOK'
<1>1. /\ c \in Conns /\ c # Wake /\ link[c] = "none" /\ pc[c] = "none" /\ Wake \in Conns
      /\ link \in [Conns -> {"none", "queued", "open", "closed"}]
      /\ Len(backlog) < MaxConnections /\ UNCHANGED <<pc, stop, listening>>
      /\ link' = [link EXCEPT ![c] = "queued"] /\ backlog' = Append(backlog, c)
      /\ ~Waits(backlog, c)
  BY ServerAssumption, Zenon DEF Connect, LinksOK, Conns, threadVars, runVars
<1>2. /\ link' \in [Conns -> {"none", "queued", "open", "closed"}]
      /\ \A d \in Conns : link'[d] = IF d = c THEN "queued" ELSE link[d]
  BY <1>1, Zenon
<1>3. /\ backlog' \in Seq(Conns) /\ Len(backlog') = Len(backlog) + 1 /\ Len(backlog) \in Nat
      /\ \A i, j \in 1..Len(backlog') : backlog'[i] = backlog'[j] => i = j
      /\ \A d : Waits(backlog', d) <=> d = c \/ Waits(backlog, d)
  BY <1>1, Queueing DEF LinksOK
<1>4. Len(backlog') <= MaxConnections
  BY <1>1, <1>3, ServerAssumption
<1>5. \A d \in Conns : link'[d] = "queued" <=> Waits(backlog', d)
  BY <1>2, <1>3 DEF LinksOK
<1>6. \A d \in Conns : Live(d)' <=> Live(d)
  BY <1>1, Zenon DEF Live
<1>7. QED
  BY <1>1, <1>2, <1>3, <1>4, <1>5, <1>6 DEF LinksOK, Live

\* accept(): the first that waits gets a thread, or none when the server is full; a close of
\* the listener under way takes the others with it.
LEMMA AcceptKeepsLinks ==
  ASSUME LinksOK, RunAccept
  PROVE  LinksOK'
<1> DEFINE c == Head(backlog)
           fits == active < MaxConnections
           taken == [link EXCEPT ![c] = IF fits THEN "open" ELSE "closed"]
<1>1. /\ backlog \in Seq(Conns) /\ backlog # <<>> /\ stop \in BOOLEAN /\ listening \in BOOLEAN
      /\ link \in [Conns -> {"none", "queued", "open", "closed"}] /\ pc \in [Conns -> Places]
      /\ Wake \in Conns /\ MaxConnections \in Nat
  BY ServerAssumption, Zenon DEF RunAccept, LinksOK, Conns
<1>2. c \in Conns /\ Len(backlog) \in Nat /\ 1 \in 1..Len(backlog) /\ backlog[1] = c
  BY <1>1
<1>3. link[c] = "queued" /\ pc[c] = "none"
  BY <1>2 DEF LinksOK, Waits
<1>4. /\ link' = (IF listening THEN taken ELSE Reset(taken))
      /\ pc' = [pc EXCEPT ![c] = IF fits THEN "loop" ELSE pc[c]]
      /\ backlog' = (IF listening THEN Tail(backlog) ELSE <<>>)
      /\ UNCHANGED <<stop, listening>>
  BY Zenon DEF RunAccept
<1> HIDE DEF c, fits
<1>5. /\ taken \in [Conns -> {"none", "queued", "open", "closed"}]
      /\ \A d \in Conns : taken[d] = IF d = c THEN (IF fits THEN "open" ELSE "closed") ELSE link[d]
  BY <1>1, Zenon
<1> HIDE DEF taken
<1>6. /\ link' \in [Conns -> {"none", "queued", "open", "closed"}]
      /\ \A d \in Conns : link'[d] = IF ~listening /\ taken[d] = "queued" THEN "closed" ELSE taken[d]
  BY <1>4, <1>5, Zenon DEF Reset
<1>7. /\ pc' \in [Conns -> Places]
      /\ \A d \in Conns : pc'[d] = IF d = c /\ fits THEN "loop" ELSE pc[d]
  BY <1>1, <1>4, Zenon DEF Places
<1>8. ASSUME listening
      PROVE  /\ backlog' \in Seq(Conns) /\ Len(backlog') = Len(backlog) - 1
             /\ \A i \in 1..Len(backlog') : backlog'[i] = backlog[i + 1] /\ i + 1 \in 1..Len(backlog)
             /\ \A i \in 1..Len(backlog) : i # 1 => i - 1 \in 1..Len(backlog') /\ backlog'[i - 1] = backlog[i]
  <2>1. backlog' = Tail(backlog) /\ Len(backlog) # 0
    BY <1>1, <1>4, <1>8
  <2>2. /\ backlog' \in Seq(Conns) /\ Len(backlog') = Len(backlog) - 1
        /\ \A i \in 1..Len(backlog') : backlog'[i] = backlog[i + 1]
    BY <1>1, <2>1
  <2>3. QED
    BY <1>2, <2>1, <2>2
<1>9. /\ backlog' \in Seq(Conns) /\ Len(backlog') <= MaxConnections
      /\ \A i, j \in 1..Len(backlog') : backlog'[i] = backlog'[j] => i = j
      /\ \A d \in Conns : link'[d] = "queued" <=> Waits(backlog', d)
  <2>1. CASE listening
    <3>1. Len(backlog') <= MaxConnections
      BY <1>1, <1>2, <1>8, <2>1 DEF LinksOK
    <3>2. \A i, j \in 1..Len(backlog') : backlog'[i] = backlog'[j] => i = j
      BY <1>2, <1>8, <2>1 DEF LinksOK
    <3>3. ASSUME NEW d \in Conns PROVE link'[d] = "queued" <=> Waits(backlog', d)
      <4>1. link'[d] = "queued" <=> d # c /\ link[d] = "queued"
        BY <1>5, <1>6, <2>1, ZenonT(30)
      <4>2. link[d] = "queued" <=> \E i \in 1..Len(backlog) : backlog[i] = d
        BY Zenon DEF LinksOK, Waits
      <4>3. \A i \in 1..Len(backlog) : backlog[i] = c => i = 1
        BY <1>2, Zenon DEF LinksOK
      <4>4. \A i \in 1..Len(backlog') : i + 1 # 1
        OBVIOUS
      <4>5. ASSUME NEW i \in 1..Len(backlog'), backlog'[i] = d PROVE d # c /\ link[d] = "queued"
        BY <1>8, <2>1, <4>2, <4>3, <4>4, <4>5
      <4>6. ASSUME d # c, NEW i \in 1..Len(backlog), backlog[i] = d
            PROVE  \E k \in 1..Len(backlog') : backlog'[k] = d
        <5>1. i # 1
          BY <1>2, <4>6, Zenon
        <5>2. QED
          BY <1>8, <2>1, <4>6, <5>1, Zenon
      <4>7. QED
        BY <4>1, <4>2, <4>5, <4>6, Zenon DEF Waits
    <3>4. QED
      BY <1>8, <2>1, <3>1, <3>2, <3>3, Zenon
  <2>2. CASE ~listening
    <3>1. backlog' = <<>> /\ <<>> \in Seq(Conns) /\ Len(<<>>) = 0
      BY <1>4, <2>2
    <3>2. 1..Len(backlog') = {} /\ Len(backlog') <= MaxConnections
      BY <1>1, <3>1
    <3>3. \A d \in Conns : link'[d] # "queued"
      BY <1>6, <2>2, ZenonT(30)
    <3>4. QED
      BY <3>1, <3>2, <3>3, ZenonT(30) DEF Waits
  <2>3. QED
    BY <2>1, <2>2, Zenon
<1>10. ASSUME NEW d \in Conns
       PROVE  /\ link'[d] \in {"none", "queued"} => pc'[d] = "none"
              /\ link'[d] = "open" <=> Live(d)'
  BY <1>3, <1>5, <1>6, <1>7 DEF LinksOK, Live
<1>11. /\ link'[Wake] # "none" => stop
       /\ pc'[Wake] \in {"none", "loop", "close", "done"}
       /\ \A d \in Conns : pc'[d] = "wake" => pc[d] = "wake" /\ stop /\ link'[Wake] = "none"
  BY <1>1, <1>3, <1>5, <1>6, <1>7 DEF LinksOK
<1>12. \A d, e \in Conns : pc'[d] = "wake" /\ pc'[e] = "wake" => d = e
  BY <1>11, ZenonT(30) DEF LinksOK
<1>13. QED
  BY <1>1, <1>4, <1>6, <1>7, <1>9, <1>10, <1>11, <1>12, ZenonT(30) DEF LinksOK

\* request_stop(): the first to ask goes on to make the wake-up connection.
LEMMA StopKeepsLinks ==
  ASSUME LinksOK, NEW c \in Conns, ThreadStop(c)
  PROVE  LinksOK'
<1>1. /\ c # Wake /\ Wake \in Conns /\ pc[c] = "stop" /\ stop' = TRUE
      /\ pc' = [pc EXCEPT ![c] = IF stop THEN "close" ELSE "wake"]
      /\ UNCHANGED <<link, backlog, listening>>
      /\ pc \in [Conns -> Places] /\ stop \in BOOLEAN
  BY Zenon DEF ThreadStop, At, Goto, wireVars, LinksOK, Conns
<1>2. /\ pc' \in [Conns -> Places]
      /\ \A d \in Conns : pc'[d] = IF d = c THEN (IF stop THEN "close" ELSE "wake") ELSE pc[d]
  BY <1>1, Zenon DEF Places
<1>3. \A d \in Conns : Live(d)' <=> Live(d)
  BY <1>1, <1>2, Zenon DEF Live
<1>4. QED
  BY <1>1, <1>2, <1>3 DEF LinksOK, Live

\* The wake-up connection waits at the listener like any other, or is given up.
LEMMA WakeKeepsLinks ==
  ASSUME LinksOK, NEW c \in Conns, ThreadWake(c)
  PROVE  LinksOK'
<1>1. /\ c # Wake /\ Wake \in Conns /\ pc[c] = "wake" /\ stop /\ link[Wake] = "none"
      /\ pc' = [pc EXCEPT ![c] = "unlisten"] /\ pc \in [Conns -> Places]
      /\ link \in [Conns -> {"none", "queued", "open", "closed"}] /\ backlog \in Seq(Conns)
      /\ UNCHANGED <<stop, listening>>
  BY Zenon DEF ThreadWake, At, Goto, runVars, LinksOK, Conns
<1>2. /\ pc' \in [Conns -> Places]
      /\ \A d \in Conns : pc'[d] = IF d = c THEN "unlisten" ELSE pc[d]
  BY <1>1, Zenon DEF Places
<1>3. \A d \in Conns : Live(d)' <=> Live(d)
  BY <1>1, <1>2, Zenon DEF Live
<1>4. \A d \in Conns : pc'[d] # "wake" /\ (pc[d] = "none" => pc'[d] = "none")
  BY <1>1, <1>2, ZenonT(30) DEF LinksOK
<1>5. CASE Len(backlog) < MaxConnections
  <2>1. link' = [link EXCEPT ![Wake] = "queued"] /\ backlog' = Append(backlog, Wake)
    BY <1>5, Zenon DEF ThreadWake
  <2>2. /\ link' \in [Conns -> {"none", "queued", "open", "closed"}]
        /\ \A d \in Conns : link'[d] = IF d = Wake THEN "queued" ELSE link[d]
    BY <1>1, <2>1, Zenon
  <2>3. ~Waits(backlog, Wake)
    BY <1>1, ZenonT(30) DEF LinksOK
  <2>4. /\ backlog' \in Seq(Conns) /\ Len(backlog') = Len(backlog) + 1 /\ Len(backlog) \in Nat
        /\ \A i, j \in 1..Len(backlog') : backlog'[i] = backlog'[j] => i = j
        /\ \A d : Waits(backlog', d) <=> d = Wake \/ Waits(backlog, d)
    BY <1>1, <2>1, <2>3, Queueing DEF LinksOK
  <2>5. Len(backlog') <= MaxConnections
    BY <1>5, <2>4, ServerAssumption
  <2>6. \A d \in Conns : link'[d] = "queued" <=> Waits(backlog', d)
    BY <2>2, <2>4 DEF LinksOK
  <2>7. QED
    BY <1>1, <1>2, <1>3, <1>4, <2>2, <2>4, <2>5, <2>6 DEF LinksOK, Live
<1>6. CASE ~(Len(backlog) < MaxConnections)
  <2>1. UNCHANGED <<link, backlog>>
    BY <1>6, Zenon DEF ThreadWake
  <2>2. QED
    BY <1>1, <1>2, <1>3, <1>4, <2>1 DEF LinksOK
<1>7. QED
  BY <1>5, <1>6, ZenonT(30)

\* The close of the listener resets what waits there, unless accept() still holds it.
LEMMA UnlistenKeepsLinks ==
  ASSUME LinksOK, NEW c \in Conns, ThreadUnlisten(c)
  PROVE  LinksOK'
<1>1. /\ c # Wake /\ Wake \in Conns /\ pc[c] = "unlisten" /\ listening' = FALSE /\ UNCHANGED stop
      /\ pc' = [pc EXCEPT ![c] = "close"] /\ pc \in [Conns -> Places]
      /\ link \in [Conns -> {"none", "queued", "open", "closed"}]
      /\ \/ UNCHANGED <<backlog, link>>
         \/ backlog' = <<>> /\ link' = Reset(link)
  BY Zenon DEF ThreadUnlisten, At, Goto, LinksOK, Conns
<1>2. /\ pc' \in [Conns -> Places]
      /\ \A d \in Conns : pc'[d] = IF d = c THEN "close" ELSE pc[d]
  BY <1>1, Zenon DEF Places
<1>3. \A d \in Conns : Live(d)' <=> Live(d)
  BY <1>1, <1>2, ZenonT(30) DEF Live
<1>4. /\ \A d \in Conns : pc'[d] = "wake" <=> pc[d] = "wake"
      /\ \A d \in Conns : pc'[d] = "none" <=> pc[d] = "none"
      /\ pc'[Wake] = pc[Wake] /\ stop' \in BOOLEAN /\ listening' \in BOOLEAN
  BY <1>1, <1>2, Zenon DEF LinksOK
<1>5. CASE UNCHANGED <<backlog, link>>
  BY <1>1, <1>2, <1>3, <1>4, <1>5 DEF LinksOK
<1>6. CASE backlog' = <<>> /\ link' = Reset(link)
  <2>1. backlog' \in Seq(Conns) /\ Len(backlog') = 0
    BY <1>6
  <2>2. 1..Len(backlog') = {} /\ Len(backlog') <= MaxConnections
    BY <2>1, ServerAssumption
  <2>3. /\ link' \in [Conns -> {"none", "queued", "open", "closed"}]
        /\ \A d \in Conns : link'[d] = IF link[d] = "queued" THEN "closed" ELSE link[d]
    BY <1>1, <1>6, Zenon DEF Reset
  <2>4. \A d \in Conns : link'[d] \in {"none", "queued"} => link[d] = "none"
    BY <2>3, ZenonT(30)
  <2>5. QED
    BY <1>1, <1>2, <1>3, <1>4, <2>1, <2>2, <2>3, <2>4 DEF LinksOK, Waits
<1>7. QED
  BY <1>1, <1>5, <1>6, Zenon

\* The end of a connection's thread.
LEMMA CloseKeepsLinks ==
  ASSUME LinksOK, NEW c \in Conns, ThreadClose(c)
  PROVE  LinksOK'
<1>1. /\ Wake \in Conns /\ pc[c] = "close" /\ UNCHANGED <<backlog, stop, listening>>
      /\ pc' = [pc EXCEPT ![c] = "done"] /\ pc \in [Conns -> Places]
      /\ link' = [link EXCEPT ![c] = "closed"]
      /\ link \in [Conns -> {"none", "queued", "open", "closed"}]
  BY Zenon DEF ThreadClose, At, Goto, LinksOK, Conns
<1>2. /\ pc' \in [Conns -> Places] /\ link' \in [Conns -> {"none", "queued", "open", "closed"}]
      /\ \A d \in Conns : pc'[d] = IF d = c THEN "done" ELSE pc[d]
      /\ \A d \in Conns : link'[d] = IF d = c THEN "closed" ELSE link[d]
  BY <1>1, Zenon DEF Places
<1>3. link[c] = "open"
  BY <1>1, Zenon DEF LinksOK, Live
<1>4. \A d \in Conns : (Live(d)' <=> d # c /\ Live(d)) /\ (link'[d] = "queued" <=> link[d] = "queued")
  BY <1>1, <1>2, <1>3, ZenonT(30) DEF Live
<1>5. QED
  BY <1>1, <1>2, <1>3, <1>4 DEF LinksOK

\* A step of a thread that leaves the links alone.
LEMMA ThreadKeepsLinks ==
  ASSUME LinksOK, NEW c \in Conns, Thread(c)
  PROVE  LinksOK'
<1> USE DEF At, Live, Places, wireVars, runVars
<1>1. ASSUME Live(c), NEW place \in Places \ {"none", "wake", "done"}, c = Wake => place = "close",
             Goto(c, place), UNCHANGED <<link, backlog, stop, listening>>
      PROVE  LinksOK'
  <2> HIDE DEF Live, Places
  <2>1. QED
    BY <1>1, MoveKeepsLinks, ZenonT(30)
<1>2. CASE ThreadLoop(c)
  <2>1. c = Wake => stop
    BY <1>2, ZenonT(30) DEF ThreadLoop, LinksOK
  <2>2. QED
    BY <1>1, <1>2, <2>1, Zenon DEF ThreadLoop
<1>3. c = Wake => pc[c] \in {"none", "loop", "close", "done"}
  BY Zenon DEF LinksOK
<1>4. CASE ThreadRead(c) \/ ThreadFind(c)
  BY <1>1, <1>3, <1>4, ZenonT(30) DEF ThreadRead, ThreadFind, AfterNames
<1>5. CASE ThreadReadFails(c) \/ ThreadMiss(c) \/ ThreadCall(c) \/ ThreadLock(c) \/ ThreadWrite(c)
  BY <1>1, <1>3, <1>5, Zenon DEF ThreadReadFails, ThreadMiss, ThreadCall, ThreadLock, ThreadWrite
<1>6. CASE ThreadReply(c) \/ ThreadReplyFails(c)
  BY <1>1, <1>3, <1>6, Zenon DEF ThreadReply, ThreadReplyFails
<1>7. CASE ThreadReplyKills(c)
  BY <1>7 DEF ThreadReplyKills, threadVars, LinksOK
<1>8. CASE ThreadStop(c) \/ ThreadWake(c) \/ ThreadUnlisten(c) \/ ThreadClose(c)
  BY <1>8, StopKeepsLinks, WakeKeepsLinks, UnlistenKeepsLinks, CloseKeepsLinks, Zenon
<1>9. QED
  BY <1>2, <1>4, <1>5, <1>6, <1>7, <1>8, Zenon DEF Thread

\* No step of the listener, of a connection or of the stop breaks the links.
LEMMA LinksStep == LinksOK /\ [Next]_vars => LinksOK'
<1> SUFFICES ASSUME LinksOK, [Next]_vars PROVE LinksOK'
  BY Zenon
<1>1. ASSUME UNCHANGED <<link, backlog, pc, stop, listening>> PROVE LinksOK'
  BY <1>1 DEF LinksOK, Live
<1>2. CASE UNCHANGED vars
  BY <1>1, <1>2, Zenon DEF vars, wireVars, threadVars, runVars
<1>3. ASSUME NEW c \in Clients, Connect(c) PROVE LinksOK'
  BY <1>3, ConnectKeepsLinks, Zenon
<1>4. ASSUME NEW c \in Clients, Send(c) \/ Leave(c) \/ LeaveMidLine(c) PROVE LinksOK'
  BY <1>1, <1>4, Zenon DEF Send, Leave, LeaveMidLine, Sends, wireVars, threadVars, runVars
<1>5. CASE RunCheck \/ RunEnter \/ RunReap \/ RunJoin \/ CloseRuntime
  BY <1>1, <1>5, Zenon DEF RunCheck, RunEnter, RunReap, RunJoin, CloseRuntime, wireVars, threadVars
<1>6. CASE RunAccept
  BY <1>6, AcceptKeepsLinks, ZenonT(30)
<1>7. QED
  BY <1>2, <1>3, <1>4, <1>5, <1>6, ThreadKeepsLinks, Zenon DEF Next, Client, Run

-----------------------------------------------------------------------------
(* The connection limit and the threads to join.                            *)

\* The counters start at zero.
LEMMA InitCounts == Init => CountsOK
<1> SUFFICES ASSUME Init PROVE CountsOK
  OBVIOUS
<1>1. LiveOnes = {}
  BY Zenon DEF Init, LiveOnes, Live
<1>2. IsFiniteSet(LiveOnes) /\ Cardinality(LiveOnes) = 0
  BY <1>1, FS_EmptySet, Zenon
<1>3. QED
  BY <1>2, ServerAssumption DEF Init, CountsOK

\* A step of a thread at work that does not end it leaves it at work.
LEMMA ThreadStaysLive ==
  ASSUME LinksOK, NEW c \in Conns, Thread(c), ~ThreadClose(c)
  PROVE  LiveOnes' = LiveOnes
<1>1. pc \in [Conns -> Places]
  BY Zenon DEF LinksOK
<1>2. ASSUME Live(c), NEW place \in Places \ {"none", "done"}, Goto(c, place)
      PROVE  LiveOnes' = LiveOnes
  BY <1>1, <1>2, Zenon DEF Goto, LiveOnes, Live
<1>3. CASE ThreadReplyKills(c)
  BY <1>3, Zenon DEF ThreadReplyKills, threadVars, LiveOnes, Live
<1>4. CASE ~ThreadReplyKills(c)
  <2> USE DEF At, Live, Places
  <2>1. CASE ThreadLoop(c) \/ ThreadRead(c) \/ ThreadReadFails(c) \/ ThreadFind(c) \/ ThreadMiss(c)
    BY <1>2, <2>1, Zenon DEF ThreadLoop, ThreadRead, ThreadReadFails, ThreadFind, ThreadMiss, AfterNames
  <2>2. CASE ThreadCall(c) \/ ThreadLock(c) \/ ThreadWrite(c)
    BY <1>2, <2>2, Zenon DEF ThreadCall, ThreadLock, ThreadWrite
  <2>3. CASE ThreadReply(c) \/ ThreadReplyFails(c) \/ ThreadStop(c) \/ ThreadWake(c) \/ ThreadUnlisten(c)
    BY <1>2, <2>3, ZenonT(30) DEF ThreadReply, ThreadReplyFails, ThreadStop, ThreadWake, ThreadUnlisten
  <2>4. QED
    BY <1>4, <2>1, <2>2, <2>3, Zenon DEF Thread
<1>5. QED
  BY <1>3, <1>4, ZenonT(30)

\* accept() starts a thread only below the limit.
LEMMA AcceptCounts ==
  ASSUME LinksOK, CountsOK, RunAccept
  PROVE  CountsOK'
<1> DEFINE c == Head(backlog)
<1>1. /\ c \in Conns /\ pc[c] = "none" /\ pc \in [Conns -> Places]
  <2>1. backlog \in Seq(Conns) /\ backlog # <<>>
    BY Zenon DEF RunAccept, LinksOK
  <2>2. c \in Conns /\ 1 \in 1..Len(backlog) /\ backlog[1] = c
    BY <2>1
  <2>3. QED
    BY <2>2 DEF LinksOK, Waits
<1> HIDE DEF c
<1>2. CASE active < MaxConnections
  <2>1. /\ pc' = [pc EXCEPT ![c] = "loop"] /\ active' = active + 1 /\ threads' = threads + 1
        /\ stats' = [stats EXCEPT !.accepted = @ + 1] /\ run' \in {"reap"}
    BY <1>2, ZenonT(30) DEF RunAccept, c
  <2>2. LiveOnes' = LiveOnes \cup {c} /\ c \notin LiveOnes
    BY <1>1, <2>1, Zenon DEF LiveOnes, Live
  <2>3. IsFiniteSet(LiveOnes') /\ Cardinality(LiveOnes') = Cardinality(LiveOnes) + 1
    BY <2>2, FS_AddElement, Zenon DEF CountsOK
  <2>4. QED
    BY <1>2, <2>1, <2>3, ServerAssumption, SMTT(30) DEF CountsOK
<1>3. CASE ~(active < MaxConnections)
  <2>1. /\ pc' = [pc EXCEPT ![c] = pc[c]] /\ active' = active /\ threads' = threads
        /\ stats' = [stats EXCEPT !.rejected = @ + 1] /\ run' \in {"check", "killed"}
    BY <1>3, Zenon DEF RunAccept, AfterBusy, c
  <2>2. LiveOnes' = LiveOnes
    BY <1>1, <2>1, Zenon DEF LiveOnes, Live
  <2>3. QED
    BY <2>1, <2>2, ServerAssumption DEF CountsOK
<1>4. QED
  BY <1>2, <1>3, ZenonT(30)

\* A thread that ends is counted off.
LEMMA CloseCounts ==
  ASSUME LinksOK, CountsOK, NEW c \in Conns, ThreadClose(c)
  PROVE  CountsOK'
<1>1. /\ pc' = [pc EXCEPT ![c] = "done"] /\ pc[c] = "close" /\ pc \in [Conns -> Places]
      /\ active' = (IF active > 0 THEN active - 1 ELSE active) /\ UNCHANGED <<run, threads, stats>>
  BY Zenon DEF ThreadClose, At, Goto, LinksOK
<1>2. LiveOnes' = LiveOnes \ {c} /\ c \in LiveOnes
  BY <1>1, ZenonT(30) DEF LiveOnes, Live
<1>3. IsFiniteSet(LiveOnes') /\ Cardinality(LiveOnes') = Cardinality(LiveOnes) - 1
  BY <1>2, FS_RemoveElement, ZenonT(30) DEF CountsOK
<1>4. Cardinality(LiveOnes) # 0
  BY <1>2, FS_EmptySet, Zenon DEF CountsOK
<1>5. QED
  BY <1>1, <1>2, <1>3, <1>4, ServerAssumption DEF CountsOK

\* No step lets active_connections or connection_threads drift from the threads.
LEMMA CountsStep == LinksOK /\ CountsOK /\ [Next]_vars => CountsOK'
<1> SUFFICES ASSUME LinksOK, CountsOK, [Next]_vars PROVE CountsOK'
  BY Zenon
<1>1. ASSUME UNCHANGED <<pc, run, active, threads, stats>> PROVE CountsOK'
  BY <1>1, ZenonT(30) DEF CountsOK, LiveOnes, Live
<1>2. CASE UNCHANGED vars
  BY <1>1, <1>2, Zenon DEF vars, threadVars, runVars
<1>3. CASE Client
  BY <1>1, <1>3, ZenonT(30) DEF Client, Connect, Send, Leave, LeaveMidLine, Sends, threadVars, runVars
<1>4. ASSUME UNCHANGED <<pc, active, stats>>,
             run' \in {"check", "accept", "accepting", "reap", "join", "returned", "closed", "killed"},
             threads' = threads \/ (threads' = 0 /\ active = 0),
             run' \in {"returned", "closed"} => LiveOnes = {}
      PROVE  CountsOK'
  BY <1>4 DEF CountsOK, LiveOnes, Live
<1>5. CASE RunCheck \/ RunEnter \/ RunReap \/ CloseRuntime
  BY <1>4, <1>5, Zenon DEF RunCheck, RunEnter, RunReap, CloseRuntime, threadVars, CountsOK
<1>6. CASE RunJoin
  <2>1. LiveOnes = {}
    BY <1>6, ZenonT(30) DEF RunJoin, LiveOnes
  <2>2. active = 0
    BY <2>1, FS_EmptySet, ZenonT(30) DEF CountsOK
  <2>3. QED
    BY <1>4, <1>6, <2>1, <2>2, ZenonT(30) DEF RunJoin, threadVars
<1>7. CASE RunAccept
  BY <1>7, AcceptCounts, ZenonT(30)
<1>8. ASSUME NEW c \in Conns, Thread(c) PROVE CountsOK'
  <2>1. CASE ThreadClose(c)
    BY <2>1, CloseCounts, Zenon
  <2>2. CASE ~ThreadClose(c)
    <3>1. LiveOnes' = LiveOnes
      BY <1>8, <2>2, ThreadStaysLive, Zenon
    <3>2. UNCHANGED <<active, threads>> /\ (run' = run \/ run' = "killed")
      BY <1>8, <2>2, ZenonT(30) DEF Thread, ThreadLoop, ThreadRead, ThreadReadFails, ThreadFind, ThreadMiss, ThreadCall,
                        ThreadLock, ThreadWrite, ThreadReply, ThreadReplyFails, ThreadReplyKills, ThreadStop,
                        ThreadWake, ThreadUnlisten, runVars
    <3>3. \/ stats' = stats
          \/ stats' = [stats EXCEPT !.served = @ + 1]
          \/ stats' = [stats EXCEPT !.refused = @ + 1]
      BY <1>8, <2>2, Zenon DEF Thread, ThreadLoop, ThreadRead, ThreadReadFails, ThreadFind, ThreadMiss, ThreadCall,
                        ThreadLock, ThreadWrite, ThreadReply, ThreadReplyFails, ThreadReplyKills, ThreadStop,
                        ThreadWake, ThreadUnlisten, runVars
    <3>4. /\ stats' \in [{"accepted", "rejected", "served", "refused"} -> Nat]
          /\ stats'.accepted = stats.accepted
      BY <3>3 DEF CountsOK
    <3>5. QED
      BY <3>1, <3>2, <3>4, ZenonT(30) DEF CountsOK
  <2>3. QED
    BY <2>1, <2>2, Zenon
<1>9. QED
  BY <1>2, <1>3, <1>5, <1>6, <1>7, <1>8, Zenon DEF Next, Run

-----------------------------------------------------------------------------
(* Lines and replies.                                                       *)

\* No line has been sent.
LEMMA InitLines == Init => LinesOK
<1> SUFFICES ASSUME Init PROVE LinesOK
  OBVIOUS
<1>1. /\ gone \in [Conns -> BOOLEAN] /\ sent \in [Conns -> Nat]
      /\ unread = [c \in Conns |-> unread[c]] /\ replies = [c \in Conns |-> replies[c]]
      /\ line = [c \in Conns |-> line[c]] /\ unread[Wake] = <<>> /\ line[Wake] = NoLine
  BY Zenon DEF Init, Conns
<1>2. ASSUME NEW c \in Clients PROVE ClientLines(c)
  <2>1. /\ unread[c] = <<>> /\ replies[c] = <<>> /\ sent[c] = 0 /\ pc[c] = "none"
        /\ line[c] = [n |-> 0, request |-> Malformed]
    BY Zenon DEF Init, Conns, NoLine
  <2>2. /\ unread[c] \in Seq(LineOf(c)) /\ Len(unread[c]) = 0 /\ replies[c] \in Seq(Nat) /\ Len(replies[c]) = 0
        /\ line[c] \in LineOf(c) /\ line[c].n = 0 /\ ~Serving(c)
    BY <2>1, SMTT(30) DEF LineOf, Garbled, Serving, Working
  <2>3. QED
    BY <2>1, <2>2, ServerAssumption DEF ClientLines
<1>3. QED
  BY <1>1, <1>2, Zenon DEF LinesOK

\* A step that does not concern a client's lines.
LEMMA Untouched ==
  ASSUME NEW c \in Clients, ClientLines(c), gone'[c] = gone[c], sent'[c] = sent[c], unread'[c] = unread[c],
         replies'[c] = replies[c], line'[c] = line[c], Serving(c)' <=> Serving(c)
  PROVE  ClientLines(c)'
  BY ZenonT(30) DEF ClientLines

\* What a recv() leaves: the lines after the first, or fewer, numbered as they were.
LEMMA LeftFacts ==
  ASSUME NEW c, NEW lines \in Seq(LineOf(c)), lines # <<>>, NEW left \in LeftUnread(lines)
  PROVE  /\ left \in Seq(LineOf(c)) /\ Len(left) < Len(lines)
         /\ \A i \in 1..Len(left) : LET o == Len(lines) - Len(left) IN
              i + o \in 2..Len(lines) /\ left[i].n = lines[i + o].n
<1>1. PICK k \in 2..(Len(lines) + 1) :
        \/ left = SubSeq(lines, k, Len(lines))
        \/ /\ k # Len(lines) + 1
           /\ \E piece \in Garbled : left = [SubSeq(lines, k, Len(lines)) EXCEPT ![1].request = piece]
  <2>1. \A k \in 2..Len(lines) : k \in 2..(Len(lines) + 1) /\ k # Len(lines) + 1
    OBVIOUS
  <2>2. CASE \E k \in 2..(Len(lines) + 1) : left = SubSeq(lines, k, Len(lines))
    BY <2>2, Zenon
  <2>3. CASE \E k \in 2..Len(lines) : \E piece \in Pieces(lines[k].request) :
               left = [SubSeq(lines, k, Len(lines)) EXCEPT ![1].request = piece]
    BY <2>1, <2>3, Zenon DEF Pieces
  <2>4. QED
    BY <2>2, <2>3, Zenon DEF LeftUnread
<1> DEFINE rest == SubSeq(lines, k, Len(lines))
<1>2. /\ rest \in Seq(LineOf(c)) /\ Len(rest) = Len(lines) + 1 - k
      /\ \A i \in 1..Len(rest) : rest[i] = lines[i + k - 1] /\ i + k - 1 \in 2..Len(lines)
  OBVIOUS
<1> HIDE DEF rest
<1>3. CASE left = rest
  BY <1>2, <1>3
<1>4. ASSUME k # Len(lines) + 1, NEW piece \in Garbled, left = [rest EXCEPT ![1].request = piece]
      PROVE  /\ left \in Seq(LineOf(c)) /\ Len(left) = Len(rest) /\ \A i \in 1..Len(rest) : left[i].n = rest[i].n
  <2>1. Len(rest) \in Nat /\ 1 \in 1..Len(rest) /\ rest[1] \in LineOf(c)
    BY <1>2, <1>4
  <2> DEFINE first == [rest[1] EXCEPT !.request = piece]
  <2>2. first \in LineOf(c) /\ first.n = rest[1].n
    BY <2>1, Zenon DEF LineOf
  <2>3. left = [rest EXCEPT ![1] = first]
    BY <1>4, Zenon
  <2> HIDE DEF first
  <2>4. QED
    BY <1>2, <2>1, <2>2, <2>3
<1>5. CASE left # rest
  <2>1. left \in Seq(LineOf(c)) /\ Len(left) = Len(rest) /\ \A i \in 1..Len(rest) : left[i].n = rest[i].n
    BY <1>1, <1>4, <1>5, Zenon DEF rest
  <2>2. QED
    BY <1>2, <2>1
<1>6. QED
  BY <1>3, <1>5, Zenon

\* The client's end: a line is sent after the ones before it, by one that waits only when it
\* has had its reply.
LEMMA SendsKeepsLines ==
  ASSUME LinesOK, NEW c \in Clients, NEW request \in Requests[c] \cup Garbled, Sends(c, request),
         (gone' = gone /\ request \in Requests[c]) \/ gone' = [gone EXCEPT ![c] = TRUE]
  PROVE  LinesOK'
<1>1. unread' = [unread EXCEPT ![c] = Append(@, [n |-> sent[c] + 1, request |-> request])]
  BY Zenon DEF Sends
<1> DEFINE last == [n |-> sent[c] + 1, request |-> request]
<1>2. /\ ~gone[c] /\ sent[c] < MaxSends[c] /\ (c \in Pipelining \/ Len(replies[c]) = sent[c])
      /\ sent' = [sent EXCEPT ![c] = @ + 1] /\ UNCHANGED <<replies, line, pc>>
  BY Zenon DEF Sends, threadVars
<1>3. /\ c \in Conns /\ c # Wake /\ sent \in [Conns -> Nat] /\ MaxSends[c] \in Nat
      /\ unread = [d \in Conns |-> unread[d]]
  BY ServerAssumption, Zenon DEF LinesOK, Conns
<1>4. /\ sent' \in [Conns -> Nat] /\ sent'[c] = sent[c] + 1 /\ sent[c] \in Nat
      /\ unread' = [d \in Conns |-> unread'[d]] /\ unread'[c] = Append(unread[c], last)
      /\ \A d \in Conns : d # c => sent'[d] = sent[d] /\ unread'[d] = unread[d]
  <2>1. unread' = [unread EXCEPT ![c] = Append(unread[c], last)]
    BY <1>1, Zenon
  <2> HIDE DEF last
  <2>2. /\ unread' = [d \in Conns |-> unread'[d]] /\ unread'[c] = Append(unread[c], last)
        /\ \A d \in Conns : d # c => unread'[d] = unread[d]
    BY <1>3, <2>1, Zenon
  <2>3. /\ sent' \in [Conns -> Nat] /\ sent'[c] = sent[c] + 1 /\ sent[c] \in Nat
        /\ \A d \in Conns : d # c => sent'[d] = sent[d]
    BY <1>2, <1>3
  <2>4. QED
    BY <2>2, <2>3, Zenon
<1>5. /\ \A d \in Conns : Serving(d)' <=> Serving(d)
      /\ gone' \in [Conns -> BOOLEAN] /\ \A d \in Conns : d # c => gone'[d] = gone[d]
      /\ gone'[c] \/ request \in Requests[c]
  <2>1. gone \in [Conns -> BOOLEAN]
    BY Zenon DEF LinesOK
  <2>2. QED
    BY <1>2, <1>3, <2>1, ZenonT(30) DEF Serving, Working
<1>6. ClientLines(c)'
  <2>1. /\ unread[c] \in Seq(LineOf(c)) /\ line[c] \in LineOf(c) /\ replies[c] \in Seq(Nat)
        /\ line[c].n <= sent[c] /\ sent[c] <= MaxSends[c]
        /\ \A i \in 1..Len(unread[c]) : line[c].n < unread[c][i].n /\ unread[c][i].n <= sent[c]
        /\ \A i, j \in 1..Len(unread[c]) : i < j => unread[c][i].n < unread[c][j].n
    BY Zenon DEF LinesOK, ClientLines
  <2>2. last \in LineOf(c) /\ last.n = sent[c] + 1 /\ last.request = request /\ line[c].n \in Nat
    BY <1>4, <2>1 DEF LineOf
  <2> HIDE DEF last
  <2>3. /\ unread'[c] \in Seq(LineOf(c)) /\ Len(unread'[c]) = Len(unread[c]) + 1 /\ Len(unread[c]) \in Nat
        /\ unread'[c][Len(unread[c]) + 1] = last
        /\ \A i \in 1..Len(unread[c]) : unread'[c][i] = unread[c][i] /\ unread[c][i].n \in Nat
    <3>1. /\ unread'[c] \in Seq(LineOf(c)) /\ Len(unread'[c]) = Len(unread[c]) + 1 /\ Len(unread[c]) \in Nat
          /\ unread'[c][Len(unread[c]) + 1] = last
          /\ \A i \in 1..Len(unread[c]) : unread'[c][i] = unread[c][i] /\ unread[c][i] \in LineOf(c)
      BY <1>4, <2>1, <2>2
    <3>2. \A l \in LineOf(c) : l.n \in Nat
      BY Zenon DEF LineOf
    <3>3. QED
      BY <3>1, <3>2, Zenon
  <2>4. \A i \in 1..Len(unread'[c]) : line[c].n < unread'[c][i].n /\ unread'[c][i].n <= sent[c] + 1
    BY <1>4, <2>1, <2>2, <2>3, SMTT(30)
  <2>5. \A i, j \in 1..Len(unread'[c]) : i < j => unread'[c][i].n < unread'[c][j].n
    BY <1>4, <2>1, <2>2, <2>3, SMTT(30)
  <2>6. line[c].n <= sent[c] + 1 /\ sent[c] + 1 <= MaxSends[c]
    BY <1>2, <1>3, <1>4, <2>1, <2>2
  <2>7. ASSUME c \notin Pipelining
        PROVE  /\ Len(unread'[c]) = 1 /\ unread'[c][1].request = request
               /\ unread'[c][1].n = sent[c] + 1 /\ sent[c] + 1 = line[c].n + 1
               /\ \A i \in 1..Len(replies[c]) : replies[c][i] = i
               /\ Len(replies[c]) = IF Serving(c) THEN line[c].n - 1 ELSE line[c].n
    <3>1. Len(replies[c]) = sent[c] /\ (Len(replies[c]) = IF Serving(c) THEN line[c].n - 1 ELSE line[c].n)
      BY <1>2, <2>7, Zenon DEF LinesOK, ClientLines
    <3>2. line[c].n = sent[c]
      BY <1>4, <2>1, <2>2, <3>1
    <3>3. unread[c] = <<>>
      <4>1. unread[c] = <<>> \/ sent[c] = line[c].n + 1
        BY <2>7, Zenon DEF LinesOK, ClientLines
      <4>2. QED
        BY <1>4, <3>2, <4>1
    <3>4. /\ Len(unread'[c]) = 1 /\ unread'[c][1].request = request
          /\ unread'[c][1].n = sent[c] + 1 /\ sent[c] + 1 = line[c].n + 1
      BY <2>2, <2>3, <3>2, <3>3, SMTT(30)
    <3>5. QED
      BY <1>2, <2>7, <3>1, <3>4, Zenon DEF LinesOK, ClientLines
  <2>8. /\ \A i \in 1..Len(replies[c]) : replies[c][i] <= line[c].n /\ (Serving(c) => replies[c][i] < line[c].n)
        /\ \A i, j \in 1..Len(replies[c]) : i < j => replies[c][i] < replies[c][j]
    BY Zenon DEF LinesOK, ClientLines
  <2>9. QED
    BY <1>2, <1>4, <1>5, <1>3, <2>1, <2>3, <2>4, <2>5, <2>6, <2>7, <2>8, ZenonT(30) DEF ClientLines
<1>7. ASSUME NEW d \in Clients, d # c PROVE ClientLines(d)'
  BY <1>2, <1>4, <1>5, <1>7, Untouched, Zenon DEF LinesOK, Conns
<1>8. QED
  BY <1>2, <1>3, <1>4, <1>5, <1>6, <1>7, Zenon DEF LinesOK, Conns

\* The line is whole, or it is what a client that leaves has written of it.
LEMMA SendKeepsLines ==
  ASSUME LinesOK, NEW c \in Clients, Send(c) \/ LeaveMidLine(c)
  PROVE  LinesOK'
<1>1. CASE Send(c)
  BY <1>1, SendsKeepsLines, Zenon DEF Send
<1>2. CASE LeaveMidLine(c)
  <2>1. PICK request \in Requests[c] : \E piece \in Pieces(request) \cup {request} : Sends(c, piece)
    BY <1>2, Zenon DEF LeaveMidLine
  <2>2. QED
    BY <1>2, <2>1, SendsKeepsLines, Zenon DEF LeaveMidLine, Pieces
<1>3. QED
  BY <1>1, <1>2, Zenon

\* A client that leaves is owed nothing more.
LEMMA LeaveKeepsLines ==
  ASSUME LinesOK, NEW c \in Clients, Leave(c)
  PROVE  LinesOK'
<1>1. gone' = [gone EXCEPT ![c] = TRUE] /\ UNCHANGED <<sent, unread, replies, line, pc>> /\ c \in Conns
  BY Zenon DEF Leave, wireVars, threadVars, Conns
<1>2. /\ gone' \in [Conns -> BOOLEAN] /\ gone'[c] = TRUE
      /\ \A d \in Conns : d # c => gone'[d] = gone[d]
  BY <1>1, Zenon DEF LinesOK
<1>3. \A d \in Conns : Serving(d)' <=> Serving(d)
  BY <1>1, Zenon DEF Serving, Working
<1>4. ClientLines(c)'
  BY <1>1, <1>2, <1>3, ZenonT(30) DEF LinesOK, ClientLines
<1>5. ASSUME NEW d \in Clients, d # c PROVE ClientLines(d)'
  BY <1>1, <1>2, <1>3, <1>5, Untouched, Zenon DEF LinesOK, Conns
<1>6. QED
  BY <1>1, <1>2, <1>4, <1>5, Zenon DEF LinesOK

\* read_line(): the first unread line is worked on, and the numbers of what is left follow.
LEMMA ReadKeepsLines ==
  ASSUME LinksOK, LinesOK, NEW c \in Clients, ThreadRead(c)
  PROVE  LinesOK'
<1>1. PICK left \in LeftUnread(unread[c]) : unread' = [unread EXCEPT ![c] = left]
  BY Zenon DEF ThreadRead
<1>2. /\ c \in Conns /\ c # Wake /\ unread = [d \in Conns |-> unread[d]] /\ line = [d \in Conns |-> line[d]]
      /\ pc[c] = "read" /\ pc \in [Conns -> Places] /\ unread[c] # <<>>
      /\ line' = [line EXCEPT ![c] = Head(unread[c])] /\ UNCHANGED <<gone, sent, replies>>
      /\ pc' = [pc EXCEPT ![c] = AfterNames(Head(unread[c]).request, 0)]
  BY ServerAssumption, Zenon DEF ThreadRead, At, Goto, clientVars, LinesOK, LinksOK, Conns
<1>3. /\ unread' = [d \in Conns |-> unread'[d]] /\ unread'[c] = left
      /\ line' = [d \in Conns |-> line'[d]] /\ line'[c] = Head(unread[c])
      /\ \A d \in Conns : d # c => unread'[d] = unread[d] /\ line'[d] = line[d] /\ pc'[d] = pc[d]
      /\ pc'[c] \in {"resolve", "call"}
  BY <1>1, <1>2, Zenon DEF AfterNames
<1>4. Serving(c)' /\ ~Serving(c) /\ \A d \in Conns : d # c => (Serving(d)' <=> Serving(d))
  BY <1>2, <1>3, Zenon DEF Serving, Working
<1>5. ClientLines(c)'
  <2>1. /\ unread[c] \in Seq(LineOf(c)) /\ line[c] \in LineOf(c) /\ replies[c] \in Seq(Nat)
        /\ line[c].n <= sent[c] /\ sent[c] <= MaxSends[c]
        /\ \A i \in 1..Len(unread[c]) : line[c].n < unread[c][i].n /\ unread[c][i].n <= sent[c]
        /\ \A i, j \in 1..Len(unread[c]) : i < j => unread[c][i].n < unread[c][j].n
        /\ \A i \in 1..Len(replies[c]) : replies[c][i] <= line[c].n
        /\ \A i, j \in 1..Len(replies[c]) : i < j => replies[c][i] < replies[c][j]
        /\ sent[c] \in Nat /\ MaxSends[c] \in Nat
    BY <1>2, ServerAssumption, Zenon DEF LinesOK, ClientLines
  <2> DEFINE o == Len(unread[c]) - Len(left)
  <2>2. /\ left \in Seq(LineOf(c)) /\ Len(left) < Len(unread[c])
        /\ \A i \in 1..Len(left) : i + o \in 2..Len(unread[c]) /\ left[i].n = unread[c][i + o].n
    BY <1>2, <2>1, LeftFacts, ZenonT(30)
  <2>3. /\ Len(unread[c]) \in Nat /\ Len(left) \in Nat /\ o \in Nat /\ 1 \in 1..Len(unread[c])
        /\ line'[c] = unread[c][1] /\ line'[c] \in LineOf(c)
    BY <1>2, <1>3, <2>1, <2>2
  <2> HIDE DEF o
  <2>4. \A l \in LineOf(c) : l.n \in Nat
    BY Zenon DEF LineOf
  <2>5. /\ line'[c].n \in Nat /\ line[c].n \in Nat /\ line[c].n < line'[c].n /\ line'[c].n <= sent[c]
    BY <2>1, <2>3, <2>4, ZenonT(30)
  <2>6. \A i \in 1..Len(left) : line'[c].n < left[i].n /\ left[i].n <= sent[c]
    <3>1. \A k \in 2..Len(unread[c]) : k \in 1..Len(unread[c]) /\ 1 < k
      BY <2>3, SMTT(30)
    <3>2. QED
      BY <2>1, <2>2, <2>3, <3>1, Zenon
  <2>7. \A i, j \in 1..Len(left) : i < j => left[i].n < left[j].n
    <3>1. \A k \in 2..Len(unread[c]) : k \in 1..Len(unread[c])
      BY <2>3
    <3>2. \A i, j \in 1..Len(left) : i < j => i + o < j + o
      BY <2>3, SMTT(30)
    <3>3. QED
      BY <2>1, <2>2, <3>1, <3>2, ZenonT(30)
  <2>8. \A i \in 1..Len(replies[c]) : replies[c][i] <= line'[c].n /\ replies[c][i] < line'[c].n
    <3>1. \A i \in 1..Len(replies[c]) : replies[c][i] \in Nat
      BY <2>1, SMTT(30)
    <3>2. QED
      BY <2>1, <2>5, <3>1, SMTT(30)
  <2>9. ASSUME c \notin Pipelining
        PROVE  /\ left = <<>> /\ line'[c].n = sent[c] /\ line'[c].n - 1 = line[c].n
               /\ \A i \in 1..Len(replies[c]) : replies[c][i] = i
               /\ ~gone[c] => Len(replies[c]) = line[c].n
    <3>1. /\ Len(unread[c]) = 1 /\ unread[c][1].n = sent[c] /\ sent[c] = line[c].n + 1
          /\ \A i \in 1..Len(replies[c]) : replies[c][i] = i
          /\ ~gone[c] => Len(replies[c]) = line[c].n
      BY <1>2, <1>4, <2>9, Zenon DEF LinesOK, ClientLines
    <3>2. Len(left) = 0
      BY <2>2, <2>3, <3>1, SMTT(30)
    <3>3. left = <<>>
      BY <2>2, <3>2, SMTT(30)
    <3>4. QED
      BY <2>3, <2>5, <3>1, <3>3, SMTT(30)
  <2>10. QED
    BY <1>2, <1>3, <1>4, <2>1, <2>2, <2>3, <2>5, <2>6, <2>7, <2>8, <2>9, ZenonT(30) DEF ClientLines
<1>6. ASSUME NEW d \in Clients, d # c PROVE ClientLines(d)'
  BY <1>2, <1>3, <1>4, <1>6, Untouched, ZenonT(30) DEF LinesOK, Conns
<1>7. QED
  BY <1>2, <1>3, <1>5, <1>6, Zenon DEF LinesOK, Conns

\* A reply to a later line than all before it.
LEMMA NextReply ==
  ASSUME NEW old \in Seq(Nat), NEW m \in Nat, \A i \in 1..Len(old) : old[i] < m,
         \A i, j \in 1..Len(old) : i < j => old[i] < old[j], NEW new, new = Append(old, m)
  PROVE  /\ new \in Seq(Nat) /\ \A i \in 1..Len(new) : new[i] <= m
         /\ \A i, j \in 1..Len(new) : i < j => new[i] < new[j]
         /\ Len(old) = m - 1 /\ (\A i \in 1..Len(old) : old[i] = i)
              => Len(new) = m /\ \A i \in 1..Len(new) : new[i] = i
<1> DEFINE n == Len(old)
<1>1. /\ new \in Seq(Nat) /\ Len(new) = n + 1 /\ n \in Nat /\ new[n + 1] = m
      /\ \A i \in 1..n : new[i] = old[i] /\ new[i] \in Nat /\ old[i] < m
  OBVIOUS
<1>2. \A i, j \in 1..n : i < j => old[i] < old[j]
  BY Zenon
<1> HIDE DEF n
<1>3. \A i \in 1..(n + 1) : i = n + 1 \/ i \in 1..n
  BY <1>1
<1>4. \A i \in 1..(n + 1) : new[i] <= m
  BY <1>1, <1>3
<1>5. \A i, j \in 1..(n + 1) : i < j => new[i] < new[j]
  <2>1. \A i, j \in 1..(n + 1) : i < j => i \in 1..n
    BY <1>1
  <2>2. QED
    BY <1>1, <1>2, <1>3, <2>1, Zenon
<1>6. n = m - 1 /\ (\A i \in 1..n : old[i] = i) => n + 1 = m /\ \A i \in 1..(n + 1) : new[i] = i
  BY <1>1, <1>3
<1>7. QED
  BY <1>1, <1>4, <1>5, <1>6, Zenon DEF n

\* The end of a turn of the loop, with the reply written or lost.
LEMMA ReplyKeepsLines ==
  ASSUME LinksOK, LinesOK, NEW c \in Clients, ThreadReply(c) \/ ThreadReplyFails(c)
  PROVE  LinesOK'
<1>1. /\ c \in Conns /\ c # Wake /\ line = [d \in Conns |-> line[d]] /\ replies = [d \in Conns |-> replies[d]]
      /\ pc[c] = "reply" /\ pc \in [Conns -> Places] /\ line[c] \in LineOf(c)
      /\ UNCHANGED <<gone, sent, unread>> /\ line' = [line EXCEPT ![c].request = Malformed]
      /\ \/ pc' = [pc EXCEPT ![c] = "stop"]
         \/ pc' = [pc EXCEPT ![c] = "loop"]
         \/ pc' = [pc EXCEPT ![c] = "close"]
      /\ \/ ~gone[c] /\ replies' = [replies EXCEPT ![c] = Append(@, line[c].n)]
         \/ gone[c] /\ replies' = replies
  BY ServerAssumption, Zenon
  DEF ThreadReply, ThreadReplyFails, Forget, At, Goto, clientVars, wireVars, LinesOK, ClientLines, LinksOK, Conns
<1>2. /\ line'[c].n = line[c].n /\ line'[c] \in LineOf(c) /\ line[c].n \in Nat
  BY <1>1, ZenonT(30) DEF LineOf, Garbled
<1>3. /\ line' = [d \in Conns |-> line'[d]] /\ replies' = [d \in Conns |-> replies'[d]]
      /\ \A d \in Conns : d # c => line'[d] = line[d] /\ replies'[d] = replies[d] /\ pc'[d] = pc[d]
      /\ pc'[c] \in {"stop", "loop", "close"}
      /\ \/ ~gone[c] /\ replies'[c] = Append(replies[c], line[c].n)
         \/ gone[c] /\ replies'[c] = replies[c]
  BY <1>1, Zenon
<1>4. Serving(c) /\ ~Serving(c)' /\ \A d \in Conns : d # c => (Serving(d)' <=> Serving(d))
  BY <1>1, <1>3, Zenon DEF Serving, Working
<1>5. ClientLines(c)'
  <2>1. ClientLines(c)
    BY Zenon DEF LinesOK
  <2>2. /\ replies[c] \in Seq(Nat) /\ Len(replies[c]) \in Nat
        /\ \A i \in 1..Len(replies[c]) : replies[c][i] \in Nat /\ replies[c][i] < line[c].n
        /\ \A i, j \in 1..Len(replies[c]) : i < j => replies[c][i] < replies[c][j]
    BY <1>4, <2>1, SMTT(30) DEF ClientLines
  <2>3. CASE gone[c]
    <3>1. replies'[c] = replies[c] /\ \A i \in 1..Len(replies[c]) : replies[c][i] <= line[c].n
      BY <1>2, <1>3, <2>2, <2>3
    <3>2. QED
      BY <1>1, <1>2, <1>4, <2>1, <2>3, <3>1, Zenon DEF ClientLines
  <2>4. CASE ~gone[c]
    <3>1. replies'[c] = Append(replies[c], line[c].n)
      BY <1>3, <2>4, Zenon
    <3>2. /\ replies'[c] \in Seq(Nat) /\ \A i \in 1..Len(replies'[c]) : replies'[c][i] <= line[c].n
          /\ \A i, j \in 1..Len(replies'[c]) : i < j => replies'[c][i] < replies'[c][j]
          /\ Len(replies[c]) = line[c].n - 1 /\ (\A i \in 1..Len(replies[c]) : replies[c][i] = i)
               => Len(replies'[c]) = line[c].n /\ \A i \in 1..Len(replies'[c]) : replies'[c][i] = i
      BY <1>2, <2>2, <3>1, NextReply, ZenonT(30)
    <3>3. c \notin Pipelining =>
            Len(replies[c]) = line[c].n - 1 /\ \A i \in 1..Len(replies[c]) : replies[c][i] = i
      BY <1>4, <2>1, <2>4, Zenon DEF ClientLines
    <3>4. QED
      BY <1>1, <1>2, <1>4, <2>1, <2>4, <3>2, <3>3, ZenonT(30) DEF ClientLines
  <2>5. QED
    BY <2>3, <2>4, ZenonT(30)
<1>6. ASSUME NEW d \in Clients, d # c PROVE ClientLines(d)'
  BY <1>1, <1>3, <1>4, <1>6, Untouched, Zenon DEF LinesOK, Conns
<1>7. QED
  BY <1>1, <1>3, <1>5, <1>6, Zenon DEF LinesOK, Conns

\* The other steps of a thread stay within a turn of the loop or outside of it.
LEMMA ThreadKeepsTurn ==
  ASSUME LinksOK, NEW c \in Conns, Thread(c), ~ThreadRead(c), ~ThreadReply(c), ~ThreadReplyFails(c)
  PROVE  /\ UNCHANGED <<gone, sent, unread, replies, line>>
         /\ \A d \in Conns : Serving(d)' <=> Serving(d)
<1>1. pc \in [Conns -> Places]
  BY Zenon DEF LinksOK
<1>2. ASSUME NEW place, Goto(c, place), Serving(c) <=> place \in {"resolve", "call", "write", "reply"}
      PROVE  \A d \in Conns : Serving(d)' <=> Serving(d)
  BY <1>1, <1>2, Zenon DEF Goto, Serving, Working
<1> USE DEF At, clientVars, wireVars
<1>3. CASE ThreadLoop(c) \/ ThreadReadFails(c) \/ ThreadStop(c) \/ ThreadWake(c) \/ ThreadUnlisten(c)
           \/ ThreadClose(c)
  <2>1. PICK place \in {"close", "read", "wake", "unlisten", "done"} : Goto(c, place)
    BY <1>3, ZenonT(30) DEF ThreadLoop, ThreadReadFails, ThreadStop, ThreadWake, ThreadUnlisten, ThreadClose
  <2>2. ~Serving(c) /\ UNCHANGED <<gone, sent, unread, replies, line>>
    BY <1>3, Zenon DEF ThreadLoop, ThreadReadFails, ThreadStop, ThreadWake, ThreadUnlisten, ThreadClose, Serving, Working
  <2>3. QED
    BY <1>2, <2>1, <2>2, Zenon
<1>4. CASE ThreadFind(c) \/ ThreadMiss(c) \/ ThreadCall(c) \/ ThreadLock(c) \/ ThreadWrite(c)
  <2>1. PICK place \in {"resolve", "call", "write", "reply"} : Goto(c, place)
    BY <1>4, Zenon DEF ThreadFind, ThreadMiss, ThreadCall, ThreadLock, ThreadWrite, AfterNames
  <2>2. Serving(c) /\ UNCHANGED <<gone, sent, unread, replies, line>>
    BY <1>4, Zenon DEF ThreadFind, ThreadMiss, ThreadCall, ThreadLock, ThreadWrite, Serving, Working
  <2>3. QED
    BY <1>2, <2>1, <2>2, Zenon
<1>5. CASE ThreadReplyKills(c)
  BY <1>5, Zenon DEF ThreadReplyKills, threadVars, Serving, Working
<1>6. QED
  BY <1>3, <1>4, <1>5, Zenon DEF Thread

\* No step of a client or a thread breaks the order of the lines and the replies.
LEMMA LinesStep == LinksOK /\ LinesOK /\ [Next]_vars => LinesOK'
<1> SUFFICES ASSUME LinksOK, LinesOK, [Next]_vars PROVE LinesOK'
  BY Zenon
<1>1. ASSUME UNCHANGED <<gone, sent, unread, replies, line>>, \A d \in Conns : Serving(d)' <=> Serving(d)
      PROVE  LinesOK'
  <2>1. ASSUME NEW d \in Clients PROVE ClientLines(d)'
    BY <1>1, Untouched, Zenon DEF LinesOK, Conns
  <2>2. QED
    BY <1>1, <2>1, Zenon DEF LinesOK
<1>2. ASSUME UNCHANGED <<gone, sent, unread, replies, line, pc>> PROVE LinesOK'
  BY <1>1, <1>2, Zenon DEF Serving, Working
<1>3. CASE UNCHANGED vars
  BY <1>2, <1>3, Zenon DEF vars, clientVars, wireVars, threadVars
<1>4. ASSUME NEW c \in Clients, Connect(c) PROVE LinesOK'
  BY <1>2, <1>4, Zenon DEF Connect, clientVars, threadVars
<1>5. CASE RunCheck \/ RunEnter \/ RunReap \/ RunJoin \/ CloseRuntime
  BY <1>2, <1>5, Zenon DEF RunCheck, RunEnter, RunReap, RunJoin, CloseRuntime, clientVars, wireVars, threadVars
<1>6. CASE RunAccept
  <2>1. \A d \in Conns : pc'[d] = pc[d] \/ (pc'[d] = "loop" /\ pc[d] = "none")
    <3> DEFINE c == Head(backlog)
    <3>1. backlog \in Seq(Conns) /\ backlog # <<>> /\ pc \in [Conns -> Places]
      BY <1>6, Zenon DEF RunAccept, LinksOK
    <3>2. c \in Conns /\ 1 \in 1..Len(backlog) /\ backlog[1] = c
      BY <3>1
    <3>3. pc[c] = "none"
      BY <3>2 DEF LinksOK, Waits
    <3> HIDE DEF c
    <3>4. pc' = [pc EXCEPT ![c] = "loop"] \/ pc' = [pc EXCEPT ![c] = pc[c]]
      BY <1>6, ZenonT(30) DEF RunAccept, c
    <3>5. QED
      BY <3>1, <3>3, <3>4, Zenon
  <2>2. UNCHANGED <<gone, sent, unread, replies, line>>
    BY <1>6, Zenon DEF RunAccept, clientVars
  <2>3. QED
    BY <1>1, <2>1, <2>2, Zenon DEF Serving, Working
<1>7. ASSUME NEW c \in Conns, Thread(c) PROVE LinesOK'
  <2>1. CASE ThreadRead(c) \/ ThreadReply(c) \/ ThreadReplyFails(c)
    <3>1. c \in Clients
      BY <2>1, Zenon DEF ThreadRead, ThreadReply, ThreadReplyFails, At, LinksOK, Conns
    <3>2. QED
      BY <2>1, <3>1, ReadKeepsLines, ReplyKeepsLines, Zenon
  <2>2. CASE ~(ThreadRead(c) \/ ThreadReply(c) \/ ThreadReplyFails(c))
    BY <1>1, <1>7, <2>2, ThreadKeepsTurn, Zenon
  <2>3. QED
    BY <2>1, <2>2, Zenon
<1>8. QED
  BY <1>3, <1>4, <1>5, <1>6, <1>7, SendKeepsLines, LeaveKeepsLines, Zenon DEF Next, Client, Run

-----------------------------------------------------------------------------
(* The locals of a turn, and the lock.                                      *)

\* No thread has locals, and the engine's lock is free.
LEMMA InitLocals == Init => LocalsOK
<1> SUFFICES ASSUME Init PROVE LocalsOK
  BY Zenon
<1>1. /\ resolved \in [Conns -> Nat] /\ answer = [c \in Conns |-> answer[c]] /\ resolved[Wake] = 0
      /\ lock = Nobody /\ Nobody \notin Clients
  BY ServerAssumption, Zenon DEF Init, Conns
<1>2. ASSUME NEW c \in Clients PROVE ClientLocals(c)
  <2>1. /\ resolved[c] = 0 /\ answer[c] = NoAnswer /\ pc[c] = "none" /\ lock # c
        /\ line[c] = [n |-> 0, request |-> Malformed]
    BY <1>1, Zenon DEF Init, Conns, NoLine
  <2>2. QED
    BY <2>1, SMTT(30) DEF ClientLocals, Request, Serving, Working
<1>3. QED
  BY <1>1, <1>2, Zenon DEF LocalsOK

\* What a client's line looks up is a sequence.
LEMMA NamesCounted ==
  ASSUME LinesOK, NEW c \in Clients
  PROVE  /\ Len(Names(Request(c))) \in Nat
         /\ \A i \in 1..Len(unread[c]) : Len(Names(unread[c][i].request)) \in Nat
<1>1. \A request \in Requests[c] \cup Garbled : Len(Names(request)) \in Nat
  BY ServerAssumption
<1>2. line[c] \in LineOf(c) /\ \A i \in 1..Len(unread[c]) : unread[c][i] \in LineOf(c)
  <2>1. line[c] \in LineOf(c) /\ unread[c] \in Seq(LineOf(c))
    BY ZenonT(30) DEF LinesOK, ClientLines
  <2>2. QED
    BY <2>1, SMTT(30)
<1>3. \A l \in LineOf(c) : l.request \in Requests[c] \cup Garbled
  BY Zenon DEF LineOf
<1>4. QED
  BY <1>1, <1>2, <1>3, Zenon DEF Request

\* A step that leaves a thread's locals alone, and where it is or outside of a turn.
LEMMA SameLocals ==
  ASSUME NEW c \in Clients, ClientLocals(c), resolved'[c] = resolved[c], answer'[c] = answer[c],
         line'[c] = line[c], lock' = c <=> lock = c,
         pc'[c] = pc[c] \/ (~Serving(c) /\ ~Serving(c)')
  PROVE  ClientLocals(c)'
  BY Zenon DEF ClientLocals, Request, Serving, Working

\* A turn begins.
LEMMA ReadLocals ==
  ASSUME LinksOK, LinesOK, LocalsOK, NEW c \in Clients, ThreadRead(c)
  PROVE  LocalsOK'
<1> DEFINE first == Head(unread[c])
<1>1. /\ c \in Conns /\ c # Wake /\ pc[c] = "read" /\ pc \in [Conns -> Places] /\ unread[c] # <<>>
      /\ line = [d \in Conns |-> line[d]] /\ resolved \in [Conns -> Nat]
      /\ line' = [line EXCEPT ![c] = first] /\ resolved' = [resolved EXCEPT ![c] = 0]
      /\ pc' = [pc EXCEPT ![c] = AfterNames(first.request, 0)] /\ UNCHANGED <<answer, lock>>
  BY ServerAssumption, Zenon DEF ThreadRead, At, Goto, engineVars, LinesOK, LinksOK, LocalsOK, Conns
<1>2. first = unread[c][1] /\ 1 \in 1..Len(unread[c])
  <2>1. unread[c] \in Seq(LineOf(c))
    BY ZenonT(30) DEF LinesOK, ClientLines
  <2>2. QED
    BY <1>1, <2>1, SMTT(30)
<1>3. Len(Names(first.request)) \in Nat
  BY <1>2, NamesCounted, Zenon
<1> HIDE DEF first
<1>4. /\ line'[c] = first /\ resolved'[c] = 0 /\ pc'[c] = AfterNames(first.request, 0)
      /\ resolved' \in [Conns -> Nat]
      /\ \A d \in Conns : d # c => line'[d] = line[d] /\ resolved'[d] = resolved[d] /\ pc'[d] = pc[d]
  BY <1>1, Zenon
<1>5. ClientLocals(c)'
  <2>1. lock # c /\ answer[c] = NoAnswer
    BY <1>1, Zenon DEF LocalsOK, ClientLocals
  <2>2. QED
    BY <1>1, <1>3, <1>4, <2>1 DEF ClientLocals, AfterNames, Request, Serving, Working
<1>6. ASSUME NEW d \in Clients, d # c PROVE ClientLocals(d)'
  BY <1>1, <1>4, <1>6, SameLocals, ZenonT(30) DEF LocalsOK, Conns
<1>7. QED
  BY <1>1, <1>4, <1>5, <1>6, Zenon DEF LocalsOK, Conns

\* A name is found or missed, and the engine is called.
LEMMA WorkLocals ==
  ASSUME LinksOK, LinesOK, LocalsOK, NEW c \in Clients,
         ThreadFind(c) \/ ThreadMiss(c) \/ ThreadCall(c) \/ ThreadLock(c) \/ ThreadWrite(c)
  PROVE  LocalsOK'
<1>1. /\ c \in Conns /\ c # Wake /\ pc \in [Conns -> Places] /\ resolved \in [Conns -> Nat]
      /\ answer = [d \in Conns |-> answer[d]] /\ UNCHANGED line
      /\ Len(Names(Request(c))) \in Nat /\ Request(c)' = Request(c) /\ Nobody \notin Clients
      /\ ClientLocals(c)
  BY ServerAssumption, NamesCounted, ZenonT(30)
  DEF ThreadFind, ThreadMiss, ThreadCall, ThreadLock, ThreadWrite, LinesOK, LinksOK, LocalsOK, Conns, Request
<1>2. ASSUME resolved' \in [Conns -> Nat], answer' = [d \in Conns |-> answer'[d]],
             lock' \in Clients \cup {Nobody}, ClientLocals(c)',
             \A d \in Conns : d # c => /\ resolved'[d] = resolved[d] /\ answer'[d] = answer[d]
                                       /\ pc'[d] = pc[d] /\ (lock' = d <=> lock = d)
      PROVE  LocalsOK'
  <2>1. ASSUME NEW d \in Clients, d # c PROVE ClientLocals(d)'
    BY <1>1, <1>2, <2>1, SameLocals, ZenonT(30) DEF LocalsOK, Conns
  <2>2. QED
    BY <1>1, <1>2, <2>1, Zenon DEF LocalsOK, Conns
<1> USE DEF At, Goto, Serving, Working
<1>3. CASE ThreadFind(c)
  <2>1. /\ pc[c] = "resolve" /\ resolved' = [resolved EXCEPT ![c] = @ + 1] /\ UNCHANGED <<answer, lock>>
        /\ pc' = [pc EXCEPT ![c] = AfterNames(Request(c), resolved[c] + 1)]
    BY <1>3, Zenon DEF ThreadFind, engineVars
  <2>2. resolved[c] \in Nat /\ resolved[c] < Len(Names(Request(c))) /\ lock # c /\ answer[c] = NoAnswer
    BY <1>1, <2>1, Zenon DEF ClientLocals
  <2>3. /\ resolved'[c] = resolved[c] + 1 /\ resolved' \in [Conns -> Nat]
        /\ pc'[c] = AfterNames(Request(c), resolved[c] + 1)
        /\ \A d \in Conns : d # c => resolved'[d] = resolved[d] /\ pc'[d] = pc[d]
    BY <1>1, <2>1, SMTT(30)
  <2>4. ClientLocals(c)'
    BY <1>1, <2>1, <2>2, <2>3, SMTT(30) DEF ClientLocals, AfterNames
  <2>5. QED
    BY <1>1, <1>2, <2>1, <2>3, <2>4, Zenon DEF LocalsOK
<1>4. CASE ThreadMiss(c) \/ ThreadCall(c)
  <2>1. PICK reply : answer' = [answer EXCEPT ![c] = reply]
    BY <1>4, Zenon DEF ThreadMiss, ThreadCall
  <2>2. /\ pc[c] \in {"resolve", "call"} /\ pc' = [pc EXCEPT ![c] = "reply"] /\ UNCHANGED <<resolved, lock>>
    BY <1>4, Zenon DEF ThreadMiss, ThreadCall, engineVars
  <2>3. /\ answer' = [d \in Conns |-> answer'[d]] /\ pc'[c] = "reply"
        /\ \A d \in Conns : d # c => answer'[d] = answer[d] /\ pc'[d] = pc[d]
    BY <1>1, <2>1, <2>2, ZenonT(30)
  <2>4. resolved[c] <= Len(Names(Request(c))) /\ lock # c
    BY <1>1, <2>2 DEF ClientLocals
  <2>5. ClientLocals(c)'
    BY <1>1, <2>2, <2>3, <2>4, Zenon DEF ClientLocals
  <2>6. QED
    BY <1>1, <1>2, <2>2, <2>3, <2>5, Zenon DEF LocalsOK
<1>5. CASE ThreadLock(c)
  <2>1. /\ pc[c] = "call" /\ Exclusive(Request(c)) /\ lock = Nobody /\ lock' = c
        /\ pc' = [pc EXCEPT ![c] = "write"] /\ UNCHANGED <<resolved, answer>>
    BY <1>5, Zenon DEF ThreadLock
  <2>2. pc'[c] = "write" /\ \A d \in Conns : d # c => pc'[d] = pc[d]
    BY <1>1, <2>1, Zenon
  <2>3. ClientLocals(c)'
    BY <1>1, <2>1, <2>2, Zenon DEF ClientLocals
  <2>4. ASSUME NEW d \in Clients, d # c PROVE ClientLocals(d)'
    BY <1>1, <2>1, <2>2, <2>4, SameLocals, Zenon DEF LocalsOK, Conns
  <2>5. QED
    BY <1>1, <2>1, <2>3, <2>4, Zenon DEF LocalsOK
<1>6. CASE ThreadWrite(c)
  <2>1. PICK reply : answer' = [answer EXCEPT ![c] = reply]
    BY <1>6, Zenon DEF ThreadWrite
  <2>2. pc[c] = "write" /\ lock' = Nobody /\ pc' = [pc EXCEPT ![c] = "reply"] /\ UNCHANGED resolved
    BY <1>6, Zenon DEF ThreadWrite
  <2>3. /\ answer' = [d \in Conns |-> answer'[d]] /\ pc'[c] = "reply" /\ lock = c
        /\ \A d \in Conns : d # c => answer'[d] = answer[d] /\ pc'[d] = pc[d]
    BY <1>1, <2>1, <2>2, Zenon DEF ClientLocals
  <2>4. ClientLocals(c)'
    BY <1>1, <2>2, <2>3 DEF ClientLocals
  <2>5. ASSUME NEW d \in Clients, d # c PROVE ClientLocals(d)'
    BY <1>1, <2>2, <2>3, <2>5, SameLocals, Zenon DEF LocalsOK, Conns
  <2>6. QED
    BY <1>1, <2>2, <2>3, <2>4, <2>5, Zenon DEF LocalsOK
<1>7. QED
  BY <1>3, <1>4, <1>5, <1>6, ZenonT(30)

\* A turn ends.
LEMMA ReplyLocals ==
  ASSUME LinksOK, LinesOK, LocalsOK, NEW c \in Clients, ThreadReply(c) \/ ThreadReplyFails(c)
  PROVE  LocalsOK'
<1>1. /\ c \in Conns /\ c # Wake /\ pc \in [Conns -> Places] /\ resolved \in [Conns -> Nat]
      /\ answer = [d \in Conns |-> answer[d]] /\ line = [d \in Conns |-> line[d]] /\ line[c] \in LineOf(c)
      /\ pc[c] = "reply" /\ Forget(c) /\ UNCHANGED lock
  BY ServerAssumption, Zenon
  DEF ThreadReply, ThreadReplyFails, At, engineVars, LinesOK, ClientLines, LinksOK, LocalsOK, Conns
<1>2. PICK place \in {"stop", "loop", "close"} : Goto(c, place)
  BY Zenon DEF ThreadReply, ThreadReplyFails
<1>3. line' = [line EXCEPT ![c].request = Malformed]
  BY <1>1, Zenon DEF Forget
<1>4. line'[c].request = Malformed /\ \A d \in Conns : d # c => line'[d] = line[d]
  <2>1. line'[c] = [line[c] EXCEPT !.request = Malformed]
    BY <1>1, <1>3, Zenon
  <2>2. QED
    BY <1>1, <1>3, <2>1, Zenon DEF LineOf
<1>5. /\ resolved'[c] = 0 /\ answer'[c] = NoAnswer /\ pc'[c] = place
      /\ resolved' \in [Conns -> Nat] /\ answer' = [d \in Conns |-> answer'[d]]
      /\ \A d \in Conns : d # c => resolved'[d] = resolved[d] /\ answer'[d] = answer[d] /\ pc'[d] = pc[d]
  BY <1>1, <1>2, Zenon DEF Forget, Goto
<1>6. ClientLocals(c)'
  <2>1. lock # c
    BY <1>1, Zenon DEF LocalsOK, ClientLocals
  <2>2. QED
    BY <1>1, <1>4, <1>5, <2>1, Zenon DEF ClientLocals, Request, Serving, Working
<1>7. ASSUME NEW d \in Clients, d # c PROVE ClientLocals(d)'
  BY <1>1, <1>4, <1>5, <1>7, SameLocals, ZenonT(30) DEF LocalsOK, Conns
<1>8. QED
  BY <1>1, <1>5, <1>6, <1>7, Zenon DEF LocalsOK, Conns

\* The steps of a turn: the ones that touch a line, the engine or its lock.
TurnStep(c) ==
  \/ ThreadRead(c)
  \/ ThreadFind(c) \/ ThreadMiss(c)
  \/ ThreadCall(c) \/ ThreadLock(c) \/ ThreadWrite(c)
  \/ ThreadReply(c) \/ ThreadReplyFails(c)

\* Every other step, of the clients, of run() or of a thread outside of a turn, leaves the
\* turns as they are.  A client may leave.
TurnsStay ==
  /\ UNCHANGED <<line, resolved, answer, engine, lock>>
  /\ gone' = gone \/ \E c \in Clients : ~gone[c] /\ gone' = [gone EXCEPT ![c] = TRUE]
  /\ \A d \in Conns : pc'[d] = pc[d] \/ (~Serving(d) /\ ~Serving(d)')

\* A step is a step of some client's turn or leaves all turns alone.
LEMMA TurnOrNot ==
  ASSUME LinksOK, [Next]_vars
  PROVE  (\E c \in Clients : TurnStep(c)) \/ TurnsStay
<1>1. pc \in [Conns -> Places]
  BY Zenon DEF LinksOK
<1> USE DEF clientVars, wireVars, threadVars, engineVars, runVars
<1>2. CASE UNCHANGED vars
  BY <1>2, Zenon DEF vars, TurnsStay
<1>3. CASE Client
  BY <1>3, ZenonT(30) DEF Client, Connect, Send, Leave, LeaveMidLine, Sends, TurnsStay
<1>4. CASE RunCheck \/ RunEnter \/ RunReap \/ RunJoin \/ CloseRuntime
  BY <1>4, Zenon DEF RunCheck, RunEnter, RunReap, RunJoin, CloseRuntime, TurnsStay
<1>5. CASE RunAccept
  <2> DEFINE c == Head(backlog)
  <2>1. backlog \in Seq(Conns) /\ backlog # <<>>
    BY <1>5, Zenon DEF RunAccept, LinksOK
  <2>2. c \in Conns /\ 1 \in 1..Len(backlog) /\ backlog[1] = c
    BY <2>1
  <2>3. pc[c] = "none"
    BY <2>2 DEF LinksOK, Waits
  <2> HIDE DEF c
  <2>4. pc' = [pc EXCEPT ![c] = "loop"] \/ pc' = [pc EXCEPT ![c] = pc[c]]
    BY <1>5, Zenon DEF RunAccept, c
  <2>5. \A d \in Conns : pc'[d] = pc[d] \/ (~Serving(d) /\ ~Serving(d)')
    BY <1>1, <2>2, <2>3, <2>4, Zenon DEF Serving, Working
  <2>6. UNCHANGED <<line, resolved, answer, engine, lock, gone>>
    BY <1>5, Zenon DEF RunAccept
  <2>7. QED
    BY <2>5, <2>6, Zenon DEF TurnsStay
<1>6. ASSUME NEW c \in Conns, Thread(c), ~TurnStep(c) PROVE TurnsStay
  <2>1. CASE ThreadReplyKills(c)
    BY <2>1, Zenon DEF ThreadReplyKills, TurnsStay
  <2>2. CASE ~ThreadReplyKills(c)
    <3>1. ThreadLoop(c) \/ ThreadReadFails(c) \/ ThreadStop(c) \/ ThreadWake(c) \/ ThreadUnlisten(c)
          \/ ThreadClose(c)
      BY <1>6, <2>2, Zenon DEF Thread, TurnStep
    <3>2. PICK place \in {"close", "read", "wake", "unlisten", "done"} : Goto(c, place)
      BY <3>1, Zenon DEF ThreadLoop, ThreadReadFails, ThreadStop, ThreadWake, ThreadUnlisten, ThreadClose
    <3>3. ~Serving(c) /\ UNCHANGED <<line, resolved, answer, engine, lock, gone>>
      BY <3>1, ZenonT(30) DEF ThreadLoop, ThreadReadFails, ThreadStop, ThreadWake, ThreadUnlisten, ThreadClose, At,
                  Serving, Working
    <3>4. QED
      BY <1>1, <3>2, <3>3, Zenon DEF Goto, TurnsStay, Serving, Working
  <2>3. QED
    BY <2>1, <2>2, Zenon
<1>7. ASSUME NEW c \in Conns, TurnStep(c) PROVE c \in Clients
  BY <1>7, Zenon DEF TurnStep, ThreadRead, ThreadFind, ThreadMiss, ThreadCall, ThreadLock, ThreadWrite, ThreadReply,
              ThreadReplyFails, At, LinksOK, Conns
<1>8. QED
  BY <1>2, <1>3, <1>4, <1>5, <1>6, <1>7, Zenon DEF Next, Run

\* No step breaks what holds of the locals.
LEMMA LocalsStep == LinksOK /\ LinesOK /\ LocalsOK /\ [Next]_vars => LocalsOK'
<1> SUFFICES ASSUME LinksOK, LinesOK, LocalsOK, [Next]_vars PROVE LocalsOK'
  BY Zenon
<1>1. CASE TurnsStay
  <2>1. ASSUME NEW d \in Clients PROVE ClientLocals(d)'
    BY <1>1, SameLocals, Zenon DEF LocalsOK, TurnsStay, Conns
  <2>2. QED
    BY <1>1, <2>1, Zenon DEF LocalsOK, TurnsStay
<1>2. ASSUME NEW c \in Clients, TurnStep(c) PROVE LocalsOK'
  BY <1>2, ReadLocals, WorkLocals, ReplyLocals, Zenon DEF TurnStep
<1>3. QED
  BY <1>1, <1>2, TurnOrNot, Zenon

-----------------------------------------------------------------------------
(* The invariants of the server.                                            *)

\* What holds of the server whatever service is behind it.
ServerInvariant == LinksOK /\ CountsOK /\ LinesOK /\ LocalsOK

\* The invariant holds throughout: of the accept loop, the connection threads, the clients
\* and the stop, in any order.
THEOREM ServerInvariantHolds == Spec => []ServerInvariant
<1>1. Init => ServerInvariant
  BY InitLinks, InitCounts, InitLines, InitLocals, Zenon DEF ServerInvariant
<1>2. ServerInvariant /\ [Next]_vars => ServerInvariant'
  BY LinksStep, CountsStep, LinesStep, LocalsStep, Zenon DEF ServerInvariant
<1>3. QED
  BY <1>1, <1>2, PTL DEF Spec

\* The types of the server's state, the listener's queue matching the links and the lock
\* held only inside the call it was taken for: for any clients, requests and limits.
THEOREM ServerTypes == Spec => []TypeOK
<1>1. ASSUME ServerInvariant PROVE TypeOK
  <2> USE <1>1 DEF ServerInvariant
  <2>1. Range(backlog) = {c \in Conns : link[c] = "queued"}
    <3>1. backlog \in Seq(Conns) /\ \A c \in Conns : link[c] = "queued" <=> Waits(backlog, c)
      BY Zenon DEF LinksOK
    <3>2. Range(backlog) = {backlog[i] : i \in 1..Len(backlog)}
      BY <3>1 DEF Range
    <3>3. QED
      BY <3>1, <3>2 DEF Waits
  <2>2. gone \in [Conns -> BOOLEAN] /\ DOMAIN unread = Conns /\ DOMAIN replies = Conns
    BY Zenon DEF LinesOK
  <2>3. \A c \in Clients : sent[c] \in 0..MaxSends[c]
    BY ServerAssumption DEF LinesOK, ClientLines, Conns
  <2>4. ASSUME NEW c \in Conns PROVE resolved[c] \in 0..Len(Names(Request(c)))
    <3>1. CASE c \in Clients
      <4>1. ClientLocals(c) /\ resolved[c] \in Nat /\ Len(Names(Request(c))) \in Nat
        BY <3>1, NamesCounted, Zenon DEF LocalsOK
      <4>2. QED
        BY <4>1 DEF ClientLocals, Serving, Working
    <3>2. CASE c = Wake
      <4>1. Request(c) = Malformed /\ resolved[c] = 0
        BY <3>2, SMTT(30) DEF LinesOK, LocalsOK, NoLine, Request
      <4>2. Names(Request(c)) = <<>>
        BY <4>1, ServerAssumption, Zenon DEF Garbled
      <4>3. QED
        BY <4>1, <4>2
    <3>3. QED
      BY <3>1, <3>2, Zenon DEF Conns
  <2>5. lock \in Clients \cup {Nobody} /\ (lock # Nobody => pc[lock] = "write")
    BY Zenon DEF LocalsOK, ClientLocals
  <2>6. QED
    BY <2>1, <2>2, <2>3, <2>4, <2>5, ZenonT(30) DEF TypeOK, LinksOK, CountsOK
<1>2. QED
  BY <1>1, ServerInvariantHolds, PTL

\* The limit counts exactly the threads at work and run() joins all of them: none is left,
\* and the engine's lock is free, when it returns.
THEOREM NoConnectionIsForgotten == Spec => []ConnectionsAccounted
<1>1. ASSUME ServerInvariant PROVE ConnectionsAccounted
  <2> USE <1>1 DEF ServerInvariant
  <2>1. /\ active = Cardinality({c \in Conns : Live(c)}) /\ active <= MaxConnections
        /\ active <= threads /\ threads <= stats.accepted
    BY Zenon DEF CountsOK, LiveOnes
  <2>2. ASSUME run \in {"returned", "closed"} PROVE active = 0 /\ lock = Nobody
    <3>1. LiveOnes = {} /\ active = Cardinality(LiveOnes)
      BY <2>2, Zenon DEF CountsOK
    <3>2. active = 0
      BY <3>1, FS_EmptySet, Zenon
    <3>3. \A c \in Clients : pc[c] # "write"
      BY <3>1, Zenon DEF LiveOnes, Live, Conns
    <3>4. QED
      BY <3>2, <3>3, ZenonT(30) DEF LocalsOK, ClientLocals
  <2>3. QED
    BY <2>1, <2>2, Zenon DEF ConnectionsAccounted
<1>2. QED
  BY <1>1, ServerInvariantHolds, PTL

\* Replies come one for each line, in order and never twice, however the threads, the
\* clients that leave and the lines dropped by read_line() interleave.
THEOREM RepliesAreInOrder == Spec => []RepliesMatchRequests
<1>1. ASSUME ServerInvariant, NEW c \in Clients
      PROVE  /\ c \notin Pipelining => replies[c] = [i \in 1..Len(replies[c]) |-> i]
             /\ \A i \in 1..Len(replies[c]) - 1 : replies[c][i] < replies[c][i + 1]
             /\ \A i \in 1..Len(replies[c]) : replies[c][i] <= sent[c]
  <2>1. ClientLines(c) /\ sent[c] \in Nat
    BY <1>1, Zenon DEF ServerInvariant, LinesOK, Conns
  <2>2. replies[c] \in Seq(Nat) /\ line[c].n \in Nat
    BY <2>1, Zenon DEF ClientLines, LineOf
  <2>3. ASSUME c \notin Pipelining PROVE replies[c] = [i \in 1..Len(replies[c]) |-> i]
    <3>1. \A i \in 1..Len(replies[c]) : replies[c][i] = i
      BY <2>1, <2>3, Zenon DEF ClientLines
    <3>2. DOMAIN replies[c] = 1..Len(replies[c]) /\ replies[c] = [i \in DOMAIN replies[c] |-> replies[c][i]]
      BY <2>2
    <3>3. QED
      BY <3>1, <3>2, Zenon
  <2>4. \A i \in 1..Len(replies[c]) - 1 : replies[c][i] < replies[c][i + 1]
    <3>1. \A i, j \in 1..Len(replies[c]) : i < j => replies[c][i] < replies[c][j]
      BY <2>1, ZenonT(30) DEF ClientLines
    <3>2. Len(replies[c]) \in Nat
      BY <2>2
    <3>3. QED
      BY <3>1, <3>2, SMTT(30)
  <2>5. \A i \in 1..Len(replies[c]) : replies[c][i] <= sent[c]
    <3>1. line[c].n <= sent[c] /\ \A i \in 1..Len(replies[c]) : replies[c][i] <= line[c].n
      BY <2>1, Zenon DEF ClientLines
    <3>2. \A i \in 1..Len(replies[c]) : replies[c][i] \in Nat
      BY <2>2, SMTT(30)
    <3>3. QED
      BY <2>1, <2>2, <3>1, <3>2, SMTT(30)
  <2>6. QED
    BY <2>3, <2>4, <2>5, Zenon
<1>2. ServerInvariant => RepliesMatchRequests
  BY <1>1, Zenon DEF RepliesMatchRequests
<1>3. QED
  BY <1>2, ServerInvariantHolds, PTL

-----------------------------------------------------------------------------
(* Requests are served atomically.                                          *)

\* Every line a thread may work on.
Lines == (UNION {Requests[c] : c \in Clients}) \cup Garbled

\* What the server needs of the service: a request keeps the engine's state sound and
\* everything that is found there, one that does not take the lock exclusively changes
\* nothing, and one that takes no lock at all looks nothing up.
ServiceLaws ==
  /\ Sound(Start)
  /\ \A request \in Lines : Unlocked(request) => Names(request) = <<>>
  /\ \A e : \A request \in Lines : Sound(e) =>
       /\ Sound(Handle(e, request).engine)
       /\ ~Exclusive(request) => Handle(e, request).engine = e
       /\ \A other \in Lines : \A i \in 1..Len(Names(other)) :
            Finds(e, Names(other)[i]) => Finds(Handle(e, request).engine, Names(other)[i])

\* A client's thread works on a line.
LEMMA WorksOnLines == ASSUME LinesOK, NEW c \in Clients PROVE Request(c) \in Lines
<1>1. line[c] \in LineOf(c)
  BY ZenonT(30) DEF LinesOK, ClientLines
<1>2. line[c].request \in Requests[c] \cup Garbled
  BY <1>1, Zenon DEF LineOf
<1>3. QED
  BY <1>2, Zenon DEF Request, Lines

\* The engine starts sound, with nothing looked up.
LEMMA InitFound == ServiceLaws /\ Init => FoundOK
<1> SUFFICES ASSUME ServiceLaws, Init PROVE FoundOK
  BY Zenon
<1>1. engine = Start /\ \A c \in Clients : ~Working(c)
  BY Zenon DEF Init, Working, Conns
<1>2. QED
  BY <1>1, Zenon DEF FoundOK, Known, ServiceLaws

\* What a thread has found it keeps when neither its turn nor the engine changes and the
\* holder of the lock, if it is another, goes on with its request.
LEMMA StaysFound ==
  ASSUME FoundOK, NEW d \in Clients, Working(d)' => Working(d) /\ resolved'[d] = resolved[d] /\ line'[d] = line[d],
         UNCHANGED engine, lock \notin {Nobody, d} => lock' = lock /\ line'[lock] = line[lock]
  PROVE  Known(d)'
<1> SUFFICES ASSUME Working(d)', NEW i \in 1..resolved'[d] PROVE Found(d, Names(Request(d))[i])'
  BY Zenon DEF Known
<1>1. PICK name : name = Names(Request(d))[i]
  BY Zenon
<1>2. Working(d) /\ i \in 1..resolved[d] /\ Request(d)' = Request(d)
  BY Zenon DEF Request
<1>3. Found(d, name)
  BY <1>1, <1>2, Zenon DEF FoundOK, Known
<1>4. Finds(engine', name) \/ (lock' # Nobody /\ lock' # d /\ Finds(Handle(engine', Request(lock)').engine, name))
  BY <1>3, ZenonT(30) DEF Found, Request
<1>5. QED
  BY <1>1, <1>2, <1>4, ZenonT(30) DEF Found

\* No step makes a thread lose a name it has found.
LEMMA FoundStep == ServiceLaws /\ ServerInvariant /\ FoundOK /\ [Next]_vars => FoundOK'
<1> SUFFICES ASSUME ServiceLaws, ServerInvariant, FoundOK, [Next]_vars PROVE FoundOK'
  BY Zenon
<1> USE DEF ServerInvariant
<1>1. /\ pc \in [Conns -> Places] /\ resolved \in [Conns -> Nat] /\ line = [d \in Conns |-> line[d]]
      /\ lock \in Clients \cup {Nobody} /\ Nobody \notin Clients /\ Clients \subseteq Conns
      /\ \A d \in Clients : ClientLocals(d)
  BY ServerAssumption, Zenon DEF LinksOK, LinesOK, LocalsOK, Conns
<1>2. CASE TurnsStay
  <2>1. ASSUME NEW d \in Clients
        PROVE  Known(d)'
    BY <1>1, <1>2, StaysFound, Zenon DEF TurnsStay, Working, Serving
  <2>2. QED
    BY <1>2, <2>1, ZenonT(30) DEF TurnsStay, FoundOK
<1>3. ASSUME NEW c \in Clients, ThreadRead(c) PROVE FoundOK'
  <2>1. PICK l : line' = [line EXCEPT ![c] = l]
    BY <1>3, ZenonT(30) DEF ThreadRead
  <2>2. PICK place : pc' = [pc EXCEPT ![c] = place]
    BY <1>3, ZenonT(30) DEF ThreadRead, Goto
  <2>3. resolved' = [resolved EXCEPT ![c] = 0] /\ UNCHANGED <<engine, lock>> /\ pc[c] = "read"
    BY <1>3, Zenon DEF ThreadRead, engineVars, At
  <2>4. /\ \A d \in Conns : d # c => line'[d] = line[d] /\ pc'[d] = pc[d] /\ resolved'[d] = resolved[d]
        /\ lock # c /\ resolved'[c] = 0
    BY <1>1, <2>1, <2>2, <2>3, Zenon DEF ClientLocals
  <2>5. ASSUME NEW d \in Clients, d # c
        PROVE  Known(d)'
    BY <1>1, <2>3, <2>4, <2>5, StaysFound, Zenon DEF Working
  <2>6. Known(c)'
    BY <2>4, SMTT(30) DEF Known
  <2>7. QED
    BY <2>3, <2>5, <2>6, Zenon DEF FoundOK
<1>4. ASSUME NEW c \in Clients, ThreadFind(c) PROVE FoundOK'
  <2>1. PICK place : pc' = [pc EXCEPT ![c] = place]
    BY <1>4, ZenonT(30) DEF ThreadFind, Goto
  <2>2. /\ resolved' = [resolved EXCEPT ![c] = @ + 1] /\ UNCHANGED <<engine, lock, line>> /\ pc[c] = "resolve"
        /\ MayFind(c)
    BY <1>4, Zenon DEF ThreadFind, engineVars, At
  <2>3. /\ \A d \in Conns : d # c => pc'[d] = pc[d] /\ resolved'[d] = resolved[d]
        /\ lock # c /\ resolved'[c] = resolved[c] + 1 /\ resolved[c] \in Nat
    BY <1>1, <2>1, <2>2, Zenon DEF ClientLocals
  <2>4. ASSUME NEW d \in Clients, d # c
        PROVE  Known(d)'
    BY <1>1, <2>2, <2>3, <2>4, StaysFound, Zenon DEF Working
  <2>5. ASSUME NEW i \in 1..resolved'[c] PROVE Found(c, Names(Request(c))[i])'
    <3>1. PICK name : name = Names(Request(c))[i]
      BY Zenon
    <3>2. Found(c, name)
      <4>1. CASE i = resolved[c] + 1
        BY <2>2, <2>3, <3>1, <4>1, ZenonT(30) DEF MayFind, Racing, NextRef, Found
      <4>2. CASE i \in 1..resolved[c]
        BY <2>2, <3>1, <4>2, Zenon DEF FoundOK, Known, Working
      <4>3. QED
        BY <2>3, <4>1, <4>2, SMTT(30)
    <3>3. QED
      BY <2>2, <3>1, <3>2, Zenon DEF Found, Request
  <2>6. Known(c)'
    BY <2>5, Zenon DEF Known
  <2>7. QED
    BY <2>2, <2>4, <2>6, Zenon DEF FoundOK
<1>5. ASSUME NEW c \in Clients, ThreadMiss(c) \/ ThreadCall(c) PROVE FoundOK'
  <2>1. /\ pc' = [pc EXCEPT ![c] = "reply"] /\ UNCHANGED <<engine, lock, line, resolved>>
    BY <1>5, Zenon DEF ThreadMiss, ThreadCall, Goto, engineVars
  <2>2. ASSUME NEW d \in Clients
        PROVE  Known(d)'
    <3>1. Working(d)' => Working(d)
      BY <1>1, <2>1, Zenon DEF Working
    <3>2. QED
      BY <1>1, <2>1, <3>1, StaysFound, Zenon
  <2>3. QED
    BY <2>1, <2>2, Zenon DEF FoundOK
<1>6. ASSUME NEW c \in Clients, ThreadLock(c) PROVE FoundOK'
  <2>1. /\ pc' = [pc EXCEPT ![c] = "write"] /\ pc[c] = "call" /\ lock = Nobody
        /\ UNCHANGED <<engine, line, resolved>>
    BY <1>6, Zenon DEF ThreadLock, Goto, At
  <2>2. ASSUME NEW d \in Clients
        PROVE  Known(d)'
    <3>1. Working(d)' => Working(d)
      BY <1>1, <2>1, Zenon DEF Working
    <3>2. QED
      BY <1>1, <2>1, <3>1, StaysFound, Zenon
  <2>3. QED
    BY <2>1, <2>2, Zenon DEF FoundOK
<1>7. ASSUME NEW c \in Clients, ThreadWrite(c) PROVE FoundOK'
  <2>1. /\ pc' = [pc EXCEPT ![c] = "reply"] /\ pc[c] = "write" /\ lock = c /\ lock' = Nobody
        /\ UNCHANGED <<line, resolved>> /\ engine' = Handle(engine, Request(c)).engine
    BY <1>1, <1>7, Zenon DEF ThreadWrite, Goto, At, ClientLocals
  <2>2. Request(c) \in Lines /\ Sound(engine)
    BY WorksOnLines, Zenon DEF FoundOK
  <2>3. /\ Sound(engine')
        /\ \A other \in Lines : \A i \in 1..Len(Names(other)) :
             Finds(engine, Names(other)[i]) => Finds(engine', Names(other)[i])
    BY <2>1, <2>2, Zenon DEF ServiceLaws
  <2>4. ASSUME NEW d \in Clients, Working(d)', NEW i \in 1..resolved'[d]
        PROVE  Found(d, Names(Request(d))[i])'
    <3>1. Working(d) /\ pc[d] \in {"resolve", "call", "write"} /\ Request(d)' = Request(d) /\ i \in 1..resolved[d]
      BY <1>1, <2>1, <2>4, Zenon DEF Working, Request
    <3>2. i \in 1..Len(Names(Request(d)))
      <4>1. ClientLocals(d) /\ resolved[d] \in Nat /\ Len(Names(Request(d))) \in Nat
        BY <1>1, NamesCounted, Zenon
      <4>2. resolved[d] <= Len(Names(Request(d)))
        BY <3>1, <4>1, SMTT(30) DEF ClientLocals
      <4>3. QED
        BY <3>1, <4>1, <4>2
    <3>3. PICK name : name = Names(Request(d))[i]
      BY Zenon
    <3>4. Found(d, name)
      BY <3>1, <3>3, ZenonT(30) DEF FoundOK, Known
    <3>5. Finds(engine', name)
      BY <2>1, <2>3, <3>2, <3>3, <3>4, WorksOnLines, Zenon DEF Found
    <3>6. QED
      BY <3>1, <3>3, <3>5, ZenonT(30) DEF Found
  <2>5. QED
    BY <2>3, <2>4, ZenonT(30) DEF FoundOK, Known
<1>8. ASSUME NEW c \in Clients, ThreadReply(c) \/ ThreadReplyFails(c) PROVE FoundOK'
  <2>1. PICK place \in {"stop", "loop", "close"} : pc' = [pc EXCEPT ![c] = place]
    BY <1>8, Zenon DEF ThreadReply, ThreadReplyFails, Goto
  <2>2. /\ line' = [line EXCEPT ![c].request = Malformed] /\ resolved' = [resolved EXCEPT ![c] = 0]
        /\ UNCHANGED <<engine, lock>> /\ pc[c] = "reply"
    BY <1>8, Zenon DEF ThreadReply, ThreadReplyFails, Forget, engineVars, At
  <2>3. /\ \A d \in Conns : d # c => line'[d] = line[d] /\ pc'[d] = pc[d] /\ resolved'[d] = resolved[d]
        /\ lock # c /\ pc'[c] = place
    BY <1>1, <2>1, <2>2, Zenon DEF ClientLocals
  <2>4. ASSUME NEW d \in Clients
        PROVE  Known(d)'
    BY <1>1, <2>2, <2>3, StaysFound, Zenon DEF Working
  <2>5. QED
    BY <2>2, <2>4, Zenon DEF FoundOK
<1>9. QED
  BY <1>2, <1>3, <1>4, <1>5, <1>6, <1>7, <1>8, TurnOrNot, Zenon DEF TurnStep

\* A thread's place and locals, seen as a job.
LEMMA Jobs ==
  ASSUME NEW c \in Clients, ClientLocals(c)
  PROVE  /\ ~Serving(c) => JobOf(c) = Atomic!Idle(line[c].n)
         /\ Working(c) => JobOf(c) = Atomic!Busy(line[c].n, Request(c))
         /\ pc[c] = "reply" => JobOf(c) = Atomic!Answered(line[c].n, Request(c), answer[c])
<1>1. /\ ~Serving(c) => JobOf(c) = [phase |-> "idle", n |-> line[c].n, request |-> line[c].request, answer |-> answer[c]]
      /\ Working(c) => JobOf(c) = [phase |-> "busy", n |-> line[c].n, request |-> line[c].request, answer |-> answer[c]]
      /\ pc[c] = "reply" =>
           JobOf(c) = [phase |-> "answered", n |-> line[c].n, request |-> line[c].request, answer |-> answer[c]]
  BY Zenon DEF JobOf, Serving, Working
<1>2. /\ ~Serving(c) => line[c].request = Malformed /\ answer[c] = NoAnswer
      /\ Working(c) => answer[c] = NoAnswer
  BY ZenonT(30) DEF ClientLocals, Serving, Working, Request
<1>3. QED
  BY <1>1, <1>2, Zenon DEF Atomic!Idle, Atomic!Busy, Atomic!Answered, Request

\* The same after a step.
LEMMA JobsAfter ==
  ASSUME NEW c \in Clients, ClientLocals(c)'
  PROVE  /\ ~Serving(c)' => JobOf(c)' = Atomic!Idle(line'[c].n)
         /\ Working(c)' => JobOf(c)' = Atomic!Busy(line'[c].n, Request(c)')
         /\ pc'[c] = "reply" => JobOf(c)' = Atomic!Answered(line'[c].n, Request(c)', answer'[c])
<1>1. /\ ~Serving(c)' =>
           JobOf(c)' = [phase |-> "idle", n |-> line'[c].n, request |-> line'[c].request, answer |-> answer'[c]]
      /\ Working(c)' =>
           JobOf(c)' = [phase |-> "busy", n |-> line'[c].n, request |-> line'[c].request, answer |-> answer'[c]]
      /\ pc'[c] = "reply" =>
           JobOf(c)' = [phase |-> "answered", n |-> line'[c].n, request |-> line'[c].request, answer |-> answer'[c]]
  BY Zenon DEF JobOf, Serving, Working
<1>2. /\ ~Serving(c)' => line'[c].request = Malformed /\ answer'[c] = NoAnswer
      /\ Working(c)' => answer'[c] = NoAnswer
  BY ZenonT(30) DEF ClientLocals, Serving, Working, Request
<1>3. QED
  BY <1>1, <1>2, Zenon DEF Atomic!Idle, Atomic!Busy, Atomic!Answered, Request

\* Every step of the server is a step of the atomic service or none.
LEMMA StepsAreAtomic ==
  ASSUME ServiceLaws, ServerInvariant, ServerInvariant', FoundOK, [Next]_vars
  PROVE  [Atomic!Next]_<<engine, [c \in Clients |-> JobOf(c)], [c \in Clients |-> gone[c]]>>
<1> DEFINE job == [c \in Clients |-> JobOf(c)]
           left == [c \in Clients |-> gone[c]]
<1>1. /\ pc \in [Conns -> Places] /\ resolved \in [Conns -> Nat] /\ line = [d \in Conns |-> line[d]]
      /\ answer = [d \in Conns |-> answer[d]]
      /\ lock \in Clients \cup {Nobody} /\ Nobody \notin Clients /\ Clients \subseteq Conns
      /\ \A d \in Clients : ClientLocals(d) /\ ClientLocals(d)'
  BY ServerAssumption, Zenon DEF ServerInvariant, LinksOK, LinesOK, LocalsOK, Conns
<1>2. ASSUME NEW d \in Conns, pc'[d] = pc[d], line'[d] = line[d], answer'[d] = answer[d]
      PROVE  JobOf(d)' = JobOf(d)
  BY <1>2, ZenonT(30) DEF JobOf
<1>3. ASSUME NEW c \in Clients, NEW to, JobOf(c)' = to,
             \A d \in Conns : d # c => pc'[d] = pc[d] /\ line'[d] = line[d] /\ answer'[d] = answer[d]
      PROVE  job' = [job EXCEPT ![c] = to] /\ job[c] = JobOf(c) /\ job'[c] = to
  <2>1. \A d \in Clients : d # c => JobOf(d)' = JobOf(d)
    BY <1>1, <1>2, <1>3, ZenonT(30)
  <2>2. QED
    BY <1>3, <2>1, ZenonT(30)
<1>4. CASE TurnsStay
  <2>1. ASSUME NEW d \in Clients PROVE JobOf(d)' = JobOf(d)
    <3>1. CASE pc'[d] = pc[d]
      BY <1>1, <1>2, <1>4, <3>1, ZenonT(30) DEF TurnsStay
    <3>2. CASE ~Serving(d) /\ ~Serving(d)'
      BY <1>1, <1>4, <3>2, Jobs, JobsAfter, Zenon DEF TurnsStay
    <3>3. QED
      BY <1>1, <1>4, <3>1, <3>2, ZenonT(30) DEF TurnsStay
  <2>2. UNCHANGED <<engine, job>>
    BY <1>4, <2>1, ZenonT(30) DEF TurnsStay
  <2>3. CASE gone' = gone
    BY <2>2, <2>3, Zenon
  <2>4. ASSUME NEW c \in Clients, ~gone[c], gone' = [gone EXCEPT ![c] = TRUE] PROVE Atomic!Leave(c)
    <3>1. gone \in [Conns -> BOOLEAN] /\ Clients \subseteq Conns
      BY Zenon DEF ServerInvariant, LinesOK, Conns
    <3>2. left' = [left EXCEPT ![c] = TRUE] /\ ~left[c]
      BY <2>4, <3>1, ZenonT(30)
    <3>3. QED
      BY <2>2, <3>2, Zenon DEF Atomic!Leave
  <2>5. QED
    BY <1>4, <2>2, <2>3, <2>4, Zenon DEF TurnsStay, Atomic!Next
<1>5. ASSUME NEW c \in Clients, ThreadRead(c) PROVE Atomic!Accept(c)
  <2> DEFINE first == Head(unread[c])
  <2>1. /\ line' = [line EXCEPT ![c] = first] /\ pc[c] = "read" /\ UNCHANGED <<engine, answer, gone>>
        /\ pc' = [pc EXCEPT ![c] = AfterNames(first.request, 0)] /\ unread[c] # <<>>
    BY <1>5, Zenon DEF ThreadRead, Goto, At, engineVars, clientVars
  <2>2. ClientLines(c) /\ sent[c] \in Nat
    BY Zenon DEF ServerInvariant, LinesOK, Conns
  <2>3. unread[c] \in Seq(LineOf(c)) /\ line[c] \in LineOf(c)
    BY <2>2, ZenonT(30) DEF ClientLines
  <2>4. first = unread[c][1] /\ 1 \in 1..Len(unread[c]) /\ first \in LineOf(c)
    BY <2>1, <2>3, SMTT(30)
  <2>5. /\ line[c].n < first.n /\ first.n <= sent[c] /\ sent[c] <= MaxSends[c]
        /\ c \notin Pipelining => (gone[c] \/ first.request \in Requests[c]) /\ first.n = line[c].n + 1
    BY <2>1, <2>2, <2>4, ZenonT(30) DEF ClientLines
  <2>6. line[c].n \in Nat /\ first.n \in Nat /\ first.request \in Requests[c] \cup Garbled /\ MaxSends[c] \in Nat
    BY <2>3, <2>4, ServerAssumption, ZenonT(30) DEF LineOf
  <2> HIDE DEF first
  <2>7. /\ line'[c] = first /\ Working(c)'
        /\ \A d \in Conns : d # c => pc'[d] = pc[d] /\ line'[d] = line[d] /\ answer'[d] = answer[d]
    BY <1>1, <2>1, Zenon DEF Working, AfterNames
  <2>8. JobOf(c) = Atomic!Idle(line[c].n) /\ JobOf(c)' = Atomic!Busy(first.n, first.request)
    BY <1>1, <2>1, <2>7, Jobs, JobsAfter, ZenonT(30) DEF Serving, Working, Request
  <2>9. PICK n \in line[c].n + 1..MaxSends[c], request \in Requests[c] \cup Garbled :
          /\ c \in Pipelining \/ n = line[c].n + 1
          /\ c \in Pipelining \/ gone[c] \/ request \in Requests[c]
          /\ JobOf(c)' = Atomic!Busy(n, request)
    <3>1. first.n \in line[c].n + 1..MaxSends[c]
      BY <2>2, <2>5, <2>6, SMTT(30)
    <3>2. QED
      BY <2>5, <2>6, <2>8, <3>1, Zenon
  <2>10. job' = [job EXCEPT ![c] = Atomic!Busy(n, request)] /\ job[c] = Atomic!Idle(line[c].n)
         /\ job'[c] = Atomic!Busy(n, request)
    BY <1>3, <2>7, <2>8, <2>9, Zenon
  <2>11. job[c].n = line[c].n /\ job[c].phase = "idle" /\ job'[c].phase = "busy"
    BY <2>10, SMTT(30) DEF Atomic!Idle, Atomic!Busy
  <2>12. left' = left /\ left[c] = gone[c]
    BY <2>1, Zenon
  <2>13. Atomic!Turns(c, "idle", "busy")
    BY <2>11, Zenon DEF Atomic!Turns
  <2>14. \E m \in job[c].n + 1..MaxSends[c], r \in Requests[c] \cup Garbled :
           /\ c \in Pipelining \/ m = job[c].n + 1
           /\ c \in Pipelining \/ left[c] \/ r \in Requests[c]
           /\ job' = [job EXCEPT ![c] = Atomic!Busy(m, r)]
    <3> HIDE DEF job, left
    <3>1. n \in job[c].n + 1..MaxSends[c] /\ (c \in Pipelining \/ n = job[c].n + 1)
      BY <2>9, <2>11, Zenon
    <3>2. c \in Pipelining \/ left[c] \/ request \in Requests[c]
      BY <2>9, <2>12, Zenon
    <3>3. QED
      BY <2>10, <3>1, <3>2, Zenon
  <2>15. UNCHANGED <<engine, left>>
    BY <2>1, <2>12, Zenon
  <2>16. QED
    BY <2>13, <2>14, <2>15, Zenon DEF Atomic!Accept
<1>6. ASSUME NEW c \in Clients, ThreadFind(c) \/ ThreadLock(c) PROVE UNCHANGED <<engine, job, left>>
  <2>1. PICK place \in {"resolve", "call", "write"} : pc' = [pc EXCEPT ![c] = place]
    BY <1>6, Zenon DEF ThreadFind, ThreadLock, Goto, AfterNames
  <2>2. UNCHANGED <<engine, line, answer, gone>> /\ pc[c] \in {"resolve", "call"}
    BY <1>6, Zenon DEF ThreadFind, ThreadLock, At, engineVars, clientVars
  <2>3. \A d \in Conns : d # c => pc'[d] = pc[d] /\ line'[d] = line[d] /\ answer'[d] = answer[d]
    BY <1>1, <2>1, <2>2, Zenon
  <2>4. JobOf(c)' = JobOf(c)
    <3>1. Working(c) /\ Working(c)' /\ Request(c)' = Request(c) /\ line'[c] = line[c]
      BY <1>1, <2>1, <2>2, Zenon DEF Working, Request
    <3>2. QED
      BY <1>1, <3>1, Jobs, JobsAfter, ZenonT(30)
  <2>5. \A d \in Clients : JobOf(d)' = JobOf(d)
    BY <1>1, <1>2, <2>3, <2>4, Zenon
  <2>6. QED
    BY <2>2, <2>5, Zenon
<1>7. ASSUME NEW c \in Clients, pc[c] \in {"resolve", "call", "write"}, pc' = [pc EXCEPT ![c] = "reply"],
             NEW reply, answer' = [answer EXCEPT ![c] = reply], UNCHANGED line
      PROVE  /\ Atomic!Turns(c, "busy", "answered") /\ job[c].request = Request(c)
             /\ job' = [job EXCEPT ![c] = Atomic!Answered(@.n, @.request, reply)]
  <2>1. /\ line'[c] = line[c] /\ answer'[c] = reply /\ pc'[c] = "reply"
        /\ \A d \in Conns : d # c => pc'[d] = pc[d] /\ line'[d] = line[d] /\ answer'[d] = answer[d]
    BY <1>1, <1>7, Zenon
  <2>2. JobOf(c) = Atomic!Busy(line[c].n, Request(c)) /\ JobOf(c)' = Atomic!Answered(line[c].n, Request(c), reply)
    BY <1>1, <1>7, <2>1, Jobs, JobsAfter, Zenon DEF Working, Request
  <2>3. PICK to : to = Atomic!Answered(line[c].n, Request(c), reply)
    BY Zenon
  <2>4. job' = [job EXCEPT ![c] = to] /\ job[c] = Atomic!Busy(line[c].n, Request(c)) /\ job'[c] = to
    BY <1>3, <2>1, <2>2, <2>3, ZenonT(30)
  <2>5. job[c].n = line[c].n /\ job[c].request = Request(c) /\ job[c].phase = "busy" /\ to.phase = "answered"
    BY <2>3, <2>4 DEF Atomic!Busy, Atomic!Answered
  <2>6. QED
    BY <2>3, <2>4, <2>5, Zenon DEF Atomic!Turns
<1>8. ASSUME NEW c \in Clients, ThreadMiss(c) PROVE Atomic!Perform(c) \/ Atomic!Miss(c)
  <2>1. /\ pc[c] = "resolve" /\ pc' = [pc EXCEPT ![c] = "reply"] /\ UNCHANGED <<engine, line, left>>
        /\ answer' = [answer EXCEPT ![c] = NotFound] /\ (Racing(c) \/ ~Finds(engine, NextRef(c)))
    BY <1>8, Zenon DEF ThreadMiss, Goto, At, engineVars, clientVars
  <2>2. /\ Atomic!Turns(c, "busy", "answered") /\ job[c].request = Request(c)
        /\ job' = [job EXCEPT ![c] = Atomic!Answered(@.n, @.request, NotFound)]
    BY <1>7, <2>1, ZenonT(30)
  <2>3. resolved[c] + 1 \in 1..Len(Names(Request(c)))
    <3>1. Len(Names(Request(c))) \in Nat /\ resolved[c] \in Nat /\ ClientLocals(c)
      BY <1>1, NamesCounted, Zenon DEF ServerInvariant
    <3>2. QED
      BY <2>1, <3>1 DEF ClientLocals
  <2>4. CASE ~Finds(engine, NextRef(c))
    <3>1. Atomic!Execute(engine, Request(c)) = [engine |-> engine, answer |-> NotFound]
      BY <2>3, <2>4, Zenon DEF Atomic!Execute, NextRef
    <3>2. PICK done : done = Atomic!Execute(engine, Request(c)) /\ done.engine = engine /\ done.answer = NotFound
      BY <3>1, SMTT(30)
    <3>3. QED
      BY <2>1, <2>2, <3>2, Zenon DEF Atomic!Perform
  <2>5. CASE Racing(c)
    <3>1. lock \in Clients \ {c} /\ Working(lock) /\ Enters(Request(lock), NextRef(c))
      BY <1>1, <2>1, <2>5, Zenon DEF Racing, ClientLocals, Working
    <3>2. job[lock].phase = "busy" /\ job[lock].request = Request(lock)
      <4>1. JobOf(lock) = Atomic!Busy(line[lock].n, Request(lock)) /\ job[lock] = JobOf(lock)
        BY <1>1, <3>1, Jobs, ZenonT(30)
      <4>2. QED
        BY <4>1 DEF Atomic!Busy
    <3>3. \E d \in Clients \ {c}, i \in 1..Len(Names(job[c].request)) :
            job[d].phase = "busy" /\ Enters(job[d].request, Names(job[c].request)[i])
      BY <2>2, <2>3, <3>1, <3>2, ZenonT(30) DEF NextRef
    <3>4. QED
      BY <2>1, <2>2, <3>3, Zenon DEF Atomic!Miss
  <2>6. QED
    BY <2>1, <2>4, <2>5, Zenon
<1>9. ASSUME NEW c \in Clients, ThreadCall(c) \/ ThreadWrite(c) PROVE Atomic!Perform(c)
  <2>1. /\ pc[c] \in {"call", "write"} /\ pc' = [pc EXCEPT ![c] = "reply"] /\ UNCHANGED <<line, left>>
        /\ answer' = [answer EXCEPT ![c] = Handle(engine, Request(c)).answer]
    BY <1>9, Zenon DEF ThreadCall, ThreadWrite, Goto, At, clientVars
  <2>2. PICK reply : reply = Handle(engine, Request(c)).answer
    BY Zenon
  <2>3. /\ Atomic!Turns(c, "busy", "answered") /\ job[c].request = Request(c)
        /\ job' = [job EXCEPT ![c] = Atomic!Answered(@.n, @.request, reply)]
    BY <1>7, <2>1, <2>2, ZenonT(30)
  <2>4. Request(c) \in Lines /\ Sound(engine)
    BY WorksOnLines, Zenon DEF ServerInvariant, FoundOK
  <2>5. engine' = Handle(engine, Request(c)).engine
    <3>1. CASE ThreadWrite(c)
      BY <3>1, Zenon DEF ThreadWrite
    <3>2. CASE ThreadCall(c)
      BY <2>4, <3>2, ZenonT(30) DEF ThreadCall, engineVars, ServiceLaws
    <3>3. QED
      BY <1>9, <3>1, <3>2, Zenon
  <2>6. \A i \in 1..Len(Names(Request(c))) : Finds(engine, Names(Request(c))[i])
    <3>1. CASE lock \in {Nobody, c}
      <4>1. resolved[c] = Len(Names(Request(c)))
        BY <1>1, <2>1, Zenon DEF ClientLocals
      <4>2. \A i \in 1..resolved[c] : Found(c, Names(Request(c))[i])
        BY <2>1, Zenon DEF FoundOK, Known, Working
      <4>3. QED
        BY <3>1, <4>1, <4>2, ZenonT(30) DEF Found
    <3>2. CASE lock \notin {Nobody, c}
      <4>1. Unlocked(Request(c))
        BY <1>1, <1>9, <3>2, Zenon DEF ThreadCall, ThreadWrite, At, ClientLocals
      <4>2. Names(Request(c)) = <<>>
        BY <2>4, <4>1, ZenonT(30) DEF ServiceLaws
      <4>3. Len(Names(Request(c))) = 0
        BY <4>2
      <4>4. QED
        BY <4>3, SMTT(30)
    <3>3. QED
      BY <3>1, <3>2, ZenonT(30)
  <2>7. PICK done : /\ done = Atomic!Execute(engine, Request(c))
                    /\ done.engine = Handle(engine, Request(c)).engine /\ done.answer = reply
    BY <2>2, <2>6, Zenon DEF Atomic!Execute
  <2>8. QED
    BY <2>1, <2>3, <2>5, <2>7, ZenonT(30) DEF Atomic!Perform
<1>10. ASSUME NEW c \in Clients, ThreadReply(c) \/ ThreadReplyFails(c) PROVE Atomic!Return(c)
  <2>1. PICK place \in {"stop", "loop", "close"} : pc' = [pc EXCEPT ![c] = place]
    BY <1>10, Zenon DEF ThreadReply, ThreadReplyFails, Goto
  <2>2. /\ line' = [line EXCEPT ![c].request = Malformed] /\ answer' = [answer EXCEPT ![c] = NoAnswer]
        /\ UNCHANGED <<engine, left>> /\ pc[c] = "reply"
    BY <1>10, Zenon DEF ThreadReply, ThreadReplyFails, Forget, engineVars, clientVars, At
  <2>3. /\ line'[c] = [line[c] EXCEPT !.request = Malformed] /\ pc'[c] = place
        /\ \A d \in Conns : d # c => pc'[d] = pc[d] /\ line'[d] = line[d] /\ answer'[d] = answer[d]
    BY <1>1, <2>1, <2>2, Zenon
  <2>4. line'[c].n = line[c].n
    <3>1. line[c] \in LineOf(c)
      BY Zenon DEF ServerInvariant, LinesOK, ClientLines
    <3>2. QED
      BY <2>3, <3>1, ZenonT(30) DEF LineOf
  <2>5. JobOf(c) = Atomic!Answered(line[c].n, Request(c), answer[c]) /\ JobOf(c)' = Atomic!Idle(line[c].n)
    BY <1>1, <2>2, <2>3, <2>4, Jobs, JobsAfter, Zenon DEF Serving, Working
  <2>6. PICK to : to = Atomic!Idle(line[c].n)
    BY Zenon
  <2>7. job' = [job EXCEPT ![c] = to] /\ job[c] = Atomic!Answered(line[c].n, Request(c), answer[c]) /\ job'[c] = to
    BY <1>3, <2>3, <2>5, <2>6
  <2>8. job[c].n = line[c].n /\ job[c].phase = "answered" /\ to.phase = "idle"
    BY <2>6, <2>7, SMTT(30) DEF Atomic!Idle, Atomic!Answered
  <2>9. QED
    BY <2>2, <2>6, <2>7, <2>8, Zenon DEF Atomic!Return, Atomic!Turns
<1>11. QED
  BY <1>4, <1>5, <1>6, <1>8, <1>9, <1>10, TurnOrNot, Zenon DEF TurnStep, Atomic!Next, ServerInvariant

\* Looking up names without the engine's lock and calling the engine with it implements
\* one atomic request after the other, for any service that obeys the laws, any clients,
\* requests and limits: no interleaving gives an answer or leaves a state that no order of
\* whole requests explains, but for lookups that miss during an insertion.
THEOREM ServingIsAtomic == ASSUME ServiceLaws PROVE Spec => ServesAtomically
<1>1. Init => Atomic!Init
  <2> SUFFICES ASSUME Init PROVE Atomic!Init
    BY Zenon
  <2>1. ASSUME NEW c \in Clients PROVE JobOf(c) = Atomic!Idle(0)
    <3>1. ClientLocals(c)
      BY InitLocals, Zenon DEF LocalsOK
    <3>2. line[c] = [n |-> 0, request |-> Malformed] /\ pc[c] = "none"
      BY Zenon DEF Init, NoLine, Conns
    <3>3. ~Serving(c) /\ line[c].n = 0
      BY <3>2 DEF Serving, Working
    <3>4. QED
      BY <3>1, <3>3, Jobs, Zenon
  <2>2. [c \in Clients |-> gone[c]] = [c \in Clients |-> FALSE]
    <3>1. \A c \in Clients : gone[c] = FALSE
      BY ServerAssumption, ZenonT(30) DEF Init, Conns
    <3>2. QED
      BY <3>1, ZenonT(30)
  <2>3. QED
    BY <2>1, <2>2, Zenon DEF Init, Atomic!Init
<1>2. Init => FoundOK
  BY InitFound, Zenon
<1>3. ServerInvariant /\ FoundOK /\ [Next]_vars => FoundOK'
  BY FoundStep, Zenon
<1>4. ServerInvariant /\ ServerInvariant' /\ FoundOK /\ [Next]_vars =>
        [Atomic!Next]_<<engine, [c \in Clients |-> JobOf(c)], [c \in Clients |-> gone[c]]>>
  BY StepsAreAtomic, Zenon
<1>5. Spec => []ServerInvariant
  BY ServerInvariantHolds, Zenon
<1>6. QED
  BY <1>1, <1>2, <1>3, <1>4, <1>5, PTL DEF Spec, ServesAtomically, Atomic!Spec
=============================================================================
