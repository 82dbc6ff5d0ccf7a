------------------------------- MODULE Server -------------------------------
(***************************************************************************)
(* The line server (runtime/transport.cpp) in front of the service: an     *)
(* accept loop, one thread per connection, clients that connect, send      *)
(* lines and leave at any time, the stop requested by a shutdown line, and *)
(* the close of the runtime after it (run_serve of tools/latobs.cpp).      *)
(*                                                                         *)
(* Names are looked up without the engine's lock, one step per name, while *)
(* another thread may be writing: that is a data race, and a search of a   *)
(* table during an insertion may see the entries of before or of after it, *)
(* or miss one that is there.                                              *)
(***************************************************************************)
EXTENDS Integers, Sequences, FiniteSets, Functions

CONSTANTS
  Clients,         \* the clients, each with one connection
  Wake,            \* the connection request_stop() makes to its own server
  Requests,        \* client -> the requests it may send
  MaxSends,        \* client -> bound on the requests it sends
  Pipelining,      \* the clients that send without waiting for a reply
  Readers,         \* the clients that read what is sent to them, until they leave
  MaxConnections,  \* TransportConfig::max_connections
  ReapFactor,      \* 4: connection_threads may hold this many times max_connections
  PipeSignal,      \* a send to a connection the peer reset may end the process (POSIX)
  Nobody           \* no connection

\* The service behind the server, whose operations are those of Service.
CONSTANTS
  Start,           \* the engine's state when the first client connects
  Names(_),        \* the references a request looks up, in order
  Finds(_, _),     \* whether a reference is found in a state of the engine
  Enters(_, _),    \* whether a request inserts into the table of a reference
  Exclusive(_),    \* whether a request takes the engine's lock exclusively
  Unlocked(_),     \* whether it takes no lock at all
  Handle(_, _),    \* the engine's state after a request whose names are found, and the answer
  NotFound,        \* the answer to a request with a name that is not
  NoAnswer         \* no answer yet

Conns == Clients \cup {Wake}

\* A line that is no request.  It may still mention "shutdown".
Malformed == [op |-> "malformed", by |-> "name", mentions |-> FALSE]
Garbled == {Malformed, [Malformed EXCEPT !.mentions = TRUE]}

\* What a piece of a request's line may be taken for.
Pieces(request) == {piece \in Garbled : piece.mentions => request.mentions}

ASSUME ServerAssumption ==
  /\ Wake \notin Clients /\ Nobody \notin Clients
  /\ Pipelining \subseteq Clients /\ Readers \subseteq Clients
  /\ MaxConnections \in Nat \ {0} /\ ReapFactor \in Nat
  /\ PipeSignal \in BOOLEAN
  /\ MaxSends \in [Clients -> Nat]
  /\ \A c \in Clients : \A request \in Requests[c] : Len(Names(request)) \in Nat
  /\ \A request \in Garbled : Names(request) = <<>>

VARIABLES
  link,      \* connection -> "none", "queued" at the listener, "open" or "closed"
  backlog,   \* the connections queued, in order
  gone,      \* connection -> whether the peer has left
  sent,      \* connection -> lines sent
  unread,    \* connection -> lines sent and not yet received
  replies,   \* connection -> the numbers of the lines it has replies to
  pc,        \* connection -> where its thread is
  line,      \* connection -> the line its thread works on
  resolved,  \* connection -> names looked up so far
  answer,    \* connection -> the response
  engine,    \* the engine's state
  lock,      \* who holds Engine::mutex_ exclusively, or Nobody
  run,       \* where LineServer::run() is
  active,    \* Impl::active_connections
  threads,   \* the size of Impl::connection_threads
  stats,     \* Impl::stats
  stop,      \* stop_requested_
  listening  \* the listener is open

clientVars == <<gone, sent>>
wireVars == <<link, backlog, unread, replies>>
threadVars == <<pc, line, resolved, answer>>
engineVars == <<engine, lock>>
runVars == <<run, active, threads, stats, stop, listening>>
vars == <<clientVars, wireVars, threadVars, engineVars, runVars>>

NoLine == [n |-> 0, request |-> Malformed]

\* A close of the listener takes effect only when no accept() is waiting on it.
Listening == listening \/ run = "accepting"

\* A thread that has been started and has not finished.
Live(c) == pc[c] \notin {"none", "done"}
Killed == run = "killed"

Init ==
  /\ link = [c \in Conns |-> "none"] /\ backlog = <<>>
  /\ gone = [c \in Conns |-> c = Wake] /\ sent = [c \in Conns |-> 0]
  /\ unread = [c \in Conns |-> <<>>] /\ replies = [c \in Conns |-> <<>>]
  /\ pc = [c \in Conns |-> "none"] /\ line = [c \in Conns |-> NoLine]
  /\ resolved = [c \in Conns |-> 0] /\ answer = [c \in Conns |-> NoAnswer]
  /\ engine = Start /\ lock = Nobody
  /\ run = "check" /\ active = 0 /\ threads = 0
  /\ stats = [accepted |-> 0, rejected |-> 0, served |-> 0, refused |-> 0]
  /\ stop = FALSE /\ listening = TRUE

-----------------------------------------------------------------------------
(* The clients.                                                             *)

\* The backlog of the listener is max_connections long.
Connect(c) ==
  /\ link[c] = "none" /\ Listening /\ ~Killed /\ Len(backlog) < MaxConnections
  /\ link' = [link EXCEPT ![c] = "queued"]
  /\ backlog' = Append(backlog, c)
  /\ UNCHANGED <<clientVars, unread, replies, threadVars, engineVars, runVars>>

\* The client's next line is written.
Sends(c, request) ==
  /\ link[c] \in {"queued", "open"} /\ ~gone[c] /\ ~Killed
  /\ sent[c] < MaxSends[c] /\ (c \in Pipelining \/ Len(replies[c]) = sent[c])
  /\ unread' = [unread EXCEPT ![c] = Append(@, [n |-> sent[c] + 1, request |-> request])]
  /\ sent' = [sent EXCEPT ![c] = @ + 1]
  /\ UNCHANGED <<link, backlog, replies, threadVars, engineVars, runVars>>

Send(c) ==
  /\ \E request \in Requests[c] : Sends(c, request)
  /\ UNCHANGED gone

\* The client leaves before the end of a line: read_line() returns what there is of it.
LeaveMidLine(c) ==
  /\ \E request \in Requests[c] : \E piece \in Pieces(request) \cup {request} : Sends(c, piece)
  /\ gone' = [gone EXCEPT ![c] = TRUE]

Leave(c) ==
  /\ link[c] \in {"queued", "open"} /\ ~gone[c] /\ ~Killed
  /\ gone' = [gone EXCEPT ![c] = TRUE]
  /\ UNCHANGED <<sent, wireVars, threadVars, engineVars, runVars>>

Client == \E c \in Clients : Connect(c) \/ Send(c) \/ Leave(c) \/ LeaveMidLine(c)

-----------------------------------------------------------------------------
(* The accept loop, LineServer::run().                                      *)

RunCheck ==
  /\ run = "check"
  /\ run' = IF stop THEN "join" ELSE "accept"
  /\ UNCHANGED <<clientVars, wireVars, threadVars, engineVars, active, threads, stats, stop, listening>>

\* accept() is called; it fails on a listener that has been closed.
RunEnter ==
  /\ run = "accept"
  /\ run' = IF listening THEN "accepting" ELSE "join"
  /\ UNCHANGED <<clientVars, wireVars, threadVars, engineVars, active, threads, stats, stop, listening>>

\* The links after those waiting at a closed listener are reset.
Reset(links) == [c \in Conns |-> IF links[c] = "queued" THEN "closed" ELSE links[c]]

\* Where run() is after it has told a connection that the server is busy: a client that has
\* left may end the process, as in ThreadReplyKills.
AfterBusy(c) == {"check"} \cup {place \in {"killed"} : PipeSignal /\ c \in Clients /\ gone[c]}

\* accept() returns a connection, which gets a thread or is told that the server is busy.
RunAccept ==
  /\ run = "accepting" /\ backlog # <<>>
  /\ LET c == Head(backlog)
         fits == active < MaxConnections
         taken == [link EXCEPT ![c] = IF fits THEN "open" ELSE "closed"]
     IN  /\ link' = IF listening THEN taken ELSE Reset(taken)
         /\ pc' = [pc EXCEPT ![c] = IF fits THEN "loop" ELSE @]
         /\ active' = IF fits THEN active + 1 ELSE active
         /\ threads' = IF fits THEN threads + 1 ELSE threads
         /\ stats' = IF fits THEN [stats EXCEPT !.accepted = @ + 1] ELSE [stats EXCEPT !.rejected = @ + 1]
         /\ run' \in IF fits THEN {"reap"} ELSE AfterBusy(c)
  /\ backlog' = IF listening THEN Tail(backlog) ELSE <<>>
  /\ UNCHANGED <<clientVars, unread, replies, line, resolved, answer, engineVars, stop, listening>>

RunReapAll ==
  /\ run = "reap"
  /\ threads' = IF threads > MaxConnections * ReapFactor THEN 0 ELSE threads
  /\ run' = "check"
  /\ UNCHANGED <<clientVars, wireVars, threadVars, engineVars, active, stats, stop, listening>>

\* Finished threads are joined when there are many, and only while none is active.
RunReap ==
  /\ run = "reap"
  /\ threads' = IF threads > MaxConnections * ReapFactor /\ active = 0 THEN 0 ELSE threads
  /\ run' = "check"
  /\ UNCHANGED <<clientVars, wireVars, threadVars, engineVars, active, stats, stop, listening>>

\* The threads left are joined: run() returns when the last has finished.
RunJoin ==
  /\ run = "join" /\ \A c \in Conns : ~Live(c)
  /\ threads' = 0
  /\ run' = "returned"
  /\ UNCHANGED <<clientVars, wireVars, threadVars, engineVars, active, stats, stop, listening>>

\* run_serve(): service->shutdown() after run().
CloseRuntime ==
  /\ run = "returned"
  /\ run' = "closed"
  /\ UNCHANGED <<clientVars, wireVars, threadVars, engineVars, active, threads, stats, stop, listening>>

Run == RunCheck \/ RunEnter \/ RunAccept \/ RunReap \/ RunJoin \/ CloseRuntime

-----------------------------------------------------------------------------
(* A connection's thread.                                                   *)

At(c, place) == pc[c] = place /\ ~Killed
Goto(c, place) == pc' = [pc EXCEPT ![c] = place]

ThreadLoop(c) ==
  /\ At(c, "loop")
  /\ Goto(c, IF stop THEN "close" ELSE "read")
  /\ UNCHANGED <<clientVars, wireVars, line, resolved, answer, engineVars, runVars>>

\* Where a thread goes once the first n names of a request are found.
AfterNames(request, n) == IF n < Len(Names(request)) THEN "resolve" ELSE "call"

\* The lines a recv() may leave of the ones that were there: it returns at least the first
\* line, and what it returns beyond that line's end is dropped, up to the middle of a line.
LeftUnread(lines) ==
  {SubSeq(lines, k, Len(lines)) : k \in 2..Len(lines) + 1}
    \cup UNION {{[SubSeq(lines, k, Len(lines)) EXCEPT ![1].request = rest] : rest \in Pieces(lines[k].request)} :
                  k \in 2..Len(lines)}

TooLong(c) == unread[c] # <<>> /\ Head(unread[c]).request.op = "oversized"

ThreadReadAgain(c) ==
  /\ At(c, "read") /\ unread[c] # <<>> /\ ~TooLong(c)
  /\ unread' \in {[unread EXCEPT ![c] = left] : left \in LeftUnread(unread[c]) \cup {unread[c]}}
  /\ line' = [line EXCEPT ![c] = Head(unread[c])]
  /\ resolved' = [resolved EXCEPT ![c] = 0]
  /\ Goto(c, AfterNames(Head(unread[c]).request, 0))
  /\ UNCHANGED <<clientVars, link, backlog, replies, answer, engineVars, runVars>>

\* read_line() returns a line.
ThreadRead(c) ==
  /\ At(c, "read") /\ unread[c] # <<>> /\ ~TooLong(c)
  /\ unread' \in {[unread EXCEPT ![c] = left] : left \in LeftUnread(unread[c])}
  /\ line' = [line EXCEPT ![c] = Head(unread[c])]
  /\ resolved' = [resolved EXCEPT ![c] = 0]
  /\ Goto(c, AfterNames(Head(unread[c]).request, 0))
  /\ UNCHANGED <<clientVars, link, backlog, replies, answer, engineVars, runVars>>

\* read_line() fails: the peer has left, perhaps with lines still unread, or the line
\* exceeds max_line_bytes.
ThreadReadFails(c) ==
  /\ At(c, "read") /\ (gone[c] \/ TooLong(c))
  /\ Goto(c, "close")
  /\ UNCHANGED <<clientVars, wireVars, line, resolved, answer, engineVars, runVars>>

Request(c) == line[c].request
NextRef(c) == Names(Request(c))[resolved[c] + 1]

\* Another thread is inserting into the table the reference is looked up in.
Racing(c) == lock # Nobody /\ Enters(Request(lock), NextRef(c))

\* The name is there, or the insertion under way has put it there.
MayFind(c) ==
  \/ Finds(engine, NextRef(c))
  \/ Racing(c) /\ Finds(Handle(engine, Request(lock)).engine, NextRef(c))

ThreadFind(c) ==
  /\ At(c, "resolve") /\ MayFind(c)
  /\ resolved' = [resolved EXCEPT ![c] = @ + 1]
  /\ Goto(c, AfterNames(Request(c), resolved[c] + 1))
  /\ UNCHANGED <<clientVars, wireVars, line, answer, engineVars, runVars>>

ThreadMissPassed(c) ==
  /\ At(c, "resolve") /\ (Racing(c) \/ ~Finds(engine, NextRef(c)))
  /\ resolved' = [resolved EXCEPT ![c] = @ + 1]
  /\ Goto(c, AfterNames(Request(c), resolved[c] + 1))
  /\ UNCHANGED <<clientVars, wireVars, line, answer, engineVars, runVars>>

ThreadMiss(c) ==
  /\ At(c, "resolve") /\ (Racing(c) \/ ~Finds(engine, NextRef(c)))
  /\ answer' = [answer EXCEPT ![c] = NotFound]
  /\ Goto(c, "reply")
  /\ UNCHANGED <<clientVars, wireVars, line, resolved, engineVars, runVars>>

\* An operation that only reads the engine, under the shared lock unless it needs none.
ThreadCall(c) ==
  /\ At(c, "call") /\ ~Exclusive(Request(c)) /\ (Unlocked(Request(c)) \/ lock = Nobody)
  /\ answer' = [answer EXCEPT ![c] = Handle(engine, Request(c)).answer]
  /\ Goto(c, "reply")
  /\ UNCHANGED <<clientVars, wireVars, line, resolved, engineVars, runVars>>

\* A writing operation takes the lock; others may look names up until it is done.
ThreadLock(c) ==
  /\ At(c, "call") /\ Exclusive(Request(c)) /\ lock = Nobody
  /\ lock' = c
  /\ Goto(c, "write")
  /\ UNCHANGED <<clientVars, wireVars, line, resolved, answer, engine, runVars>>

ThreadWriteKeepsLock(c) ==
  /\ At(c, "write")
  /\ engine' = Handle(engine, Request(c)).engine
  /\ answer' = [answer EXCEPT ![c] = Handle(engine, Request(c)).answer]
  /\ Goto(c, "reply")
  /\ UNCHANGED <<clientVars, wireVars, line, resolved, lock, runVars>>

ThreadWrite(c) ==
  /\ At(c, "write")
  /\ engine' = Handle(engine, Request(c)).engine
  /\ answer' = [answer EXCEPT ![c] = Handle(engine, Request(c)).answer]
  /\ lock' = Nobody
  /\ Goto(c, "reply")
  /\ UNCHANGED <<clientVars, wireVars, line, resolved, runVars>>

\* The locals of one turn of the loop.
Forget(c) ==
  /\ line' = [line EXCEPT ![c].request = Malformed]
  /\ resolved' = [resolved EXCEPT ![c] = 0]
  /\ answer' = [answer EXCEPT ![c] = NoAnswer]

\* Both parts of the reply are written.  A shutdown line stops the server only after this.
ThreadReply(c) ==
  /\ At(c, "reply")
  /\ replies' = IF gone[c] THEN replies ELSE [replies EXCEPT ![c] = Append(@, line[c].n)]
  /\ stats' = [stats EXCEPT !.served = @ + 1]
  /\ Forget(c)
  /\ Goto(c, IF Request(c).mentions THEN "stop" ELSE "loop")
  /\ UNCHANGED <<clientVars, link, backlog, unread, engineVars, run, active, threads, stop, listening>>

\* The peer has left: the response is not written, or its terminator is not.
ThreadReplyFails(c) ==
  /\ At(c, "reply") /\ gone[c]
  /\ \E written \in BOOLEAN :
       stats' = IF written THEN [stats EXCEPT !.served = @ + 1] ELSE [stats EXCEPT !.refused = @ + 1]
  /\ Forget(c)
  /\ Goto(c, "close")
  /\ UNCHANGED <<clientVars, wireVars, engineVars, run, active, threads, stop, listening>>

\* send() flags nothing and no handler is installed, so the signal ends the process.
ThreadReplyKills(c) ==
  /\ At(c, "reply") /\ gone[c] /\ PipeSignal
  /\ run' = "killed"
  /\ UNCHANGED <<clientVars, wireVars, threadVars, engineVars, active, threads, stats, stop, listening>>

\* request_stop(): nothing when the stop has been requested already.
ThreadStop(c) ==
  /\ At(c, "stop")
  /\ stop' = TRUE
  /\ Goto(c, IF stop THEN "close" ELSE "wake")
  /\ UNCHANGED <<clientVars, wireVars, line, resolved, answer, engineVars, run, active, threads, stats,
                 listening>>

ThreadWakeNobody(c) ==
  /\ At(c, "wake")
  /\ Goto(c, "unlisten")
  /\ UNCHANGED <<clientVars, wireVars, line, resolved, answer, engineVars, runVars>>

\* Its connection to the server, which gives up when the backlog stays full.
ThreadWake(c) ==
  /\ At(c, "wake")
  /\ IF Len(backlog) < MaxConnections
     THEN backlog' = Append(backlog, Wake) /\ link' = [link EXCEPT ![Wake] = "queued"]
     ELSE UNCHANGED <<backlog, link>>
  /\ Goto(c, "unlisten")
  /\ UNCHANGED <<clientVars, unread, replies, line, resolved, answer, engineVars, runVars>>

\* The listener is closed, and with it what is queued there.
ThreadUnlisten(c) ==
  /\ At(c, "unlisten")
  /\ listening' = FALSE
  /\ IF run = "accepting" THEN UNCHANGED <<backlog, link>> ELSE backlog' = <<>> /\ link' = Reset(link)
  /\ Goto(c, "close")
  /\ UNCHANGED <<clientVars, unread, replies, line, resolved, answer, engineVars, run, active, threads, stats,
                 stop>>

ThreadClose(c) ==
  /\ At(c, "close")
  /\ link' = [link EXCEPT ![c] = "closed"]
  /\ active' = IF active > 0 THEN active - 1 ELSE active
  /\ Goto(c, "done")
  /\ UNCHANGED <<clientVars, backlog, unread, replies, line, resolved, answer, engineVars, run, threads, stats,
                 stop, listening>>

Thread(c) ==
  \/ ThreadLoop(c) \/ ThreadRead(c) \/ ThreadReadFails(c)
  \/ ThreadFind(c) \/ ThreadMiss(c)
  \/ ThreadCall(c) \/ ThreadLock(c) \/ ThreadWrite(c)
  \/ ThreadReply(c) \/ ThreadReplyFails(c) \/ ThreadReplyKills(c)
  \/ ThreadStop(c) \/ ThreadWake(c) \/ ThreadUnlisten(c) \/ ThreadClose(c)

-----------------------------------------------------------------------------
Next == Client \/ Run \/ \E c \in Conns : Thread(c)

\* A thread does not wait for its client: write_all() has no timeout, and a client that stays
\* without reading may fill the connection and hold its thread in send().
Unhindered(c) == pc[c] = "reply" => c \in Readers \/ gone[c]

\* The server's threads are scheduled; a client owes nothing, but those in Readers do read.
Spec == Init /\ [][Next]_vars /\ WF_vars(Run) /\ \A c \in Conns : WF_vars(Unhindered(c) /\ Thread(c))

-----------------------------------------------------------------------------
Places == {"none", "loop", "read", "resolve", "call", "write", "reply", "stop", "wake", "unlisten", "close",
           "done"}

\* The types of the server's state, the queue of the listener matching the links, and the
\* engine's lock held by a thread only inside the call it took it for.
TypeOK ==
  /\ link \in [Conns -> {"none", "queued", "open", "closed"}]
  /\ Len(backlog) <= MaxConnections /\ Range(backlog) = {c \in Conns : link[c] = "queued"}
  /\ gone \in [Conns -> BOOLEAN] /\ DOMAIN unread = Conns /\ DOMAIN replies = Conns
  /\ \A c \in Clients : sent[c] \in 0..MaxSends[c]
  /\ pc \in [Conns -> Places]
  /\ \A c \in Conns : resolved[c] \in 0..Len(Names(Request(c)))
  /\ lock \in Clients \cup {Nobody} /\ (lock # Nobody => pc[lock] = "write")
  /\ run \in {"check", "accept", "accepting", "reap", "join", "returned", "closed", "killed"}
  /\ stop \in BOOLEAN /\ listening \in BOOLEAN
  /\ stats \in [{"accepted", "rejected", "served", "refused"} -> Nat]

\* The connection limit counts exactly the threads at work, and every one of them is among
\* those run() will join: connections accepted, refused, finished and joined in any order
\* never let the count drift or a thread be forgotten.  So none is left that could call
\* the engine when run() returns and the runtime is closed.
ConnectionsAccounted ==
  LET live == {c \in Conns : Live(c)}
  IN  /\ active = Cardinality(live) /\ active <= MaxConnections
      /\ active <= threads /\ threads <= stats.accepted
      /\ run \in {"returned", "closed"} => active = 0 /\ lock = Nobody

\* A client that waits for each reply gets the replies to its requests, one each and in
\* order; one that does not wait gets some of them, in order and never twice.
RepliesMatchRequests ==
  \A c \in Clients :
    /\ c \notin Pipelining => replies[c] = [i \in 1..Len(replies[c]) |-> i]
    /\ \A i \in 1..Len(replies[c]) - 1 : replies[c][i] < replies[c][i + 1]
    /\ \A i \in 1..Len(replies[c]) : replies[c][i] <= sent[c]

\* What the server does for a client, seen as one atomic request after the other.
JobOf(c) ==
  [phase   |-> CASE pc[c] \in {"resolve", "call", "write"} -> "busy"
                 [] pc[c] = "reply" -> "answered"
                 [] OTHER -> "idle",
   n       |-> line[c].n,
   request |-> line[c].request,
   answer  |-> answer[c]]

Atomic == INSTANCE AtomicService
  WITH job <- [c \in Clients |-> JobOf(c)], left <- [c \in Clients |-> gone[c]]

\* Looking up the names without the lock and calling the engine with it amounts to one
\* atomic request: no interleaving of definitions, measurements and queries gives an
\* answer or leaves a state that no order of whole requests explains, but for lookups
\* that miss during an insertion.
ServesAtomically == Atomic!Spec

\* A line that was read is answered, or its connection is closed, while the process lives:
\* no lock is waited for for ever, and a client that does not read its replies holds up its
\* own thread and no other's.
RequestsFinish ==
  \A c \in Clients :
    pc[c] \in {"resolve", "call", "write", "reply"}
      ~> (pc[c] \in {"loop", "stop", "close"} \/ Killed \/ ~Unhindered(c))

ClientsGone == \A c \in Clients : link[c] \in {"none", "closed"} \/ gone[c]

\* Once a stop is requested and every client has left, run() returns and the runtime is
\* closed, however the wake-up connection, the close of the listener and the accept loop
\* interleave.
StopCompletes == <>[](stop /\ ClientsGone) => <>(run \in {"closed", "killed"})

\* A stop requested by a shutdown line ends run(), whatever the other clients do.
StopEndsRun == stop ~> run \in {"returned", "closed", "killed"}

=============================================================================
