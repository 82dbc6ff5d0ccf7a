--------------------------- MODULE AtomicService ---------------------------
(***************************************************************************)
(* What a client of the server may rely on: between being read and being   *)
(* answered a request takes effect at one instant, all of it, against the  *)
(* state of that instant.  Two weaknesses are part of the promise: a       *)
(* lookup may miss while another request inserts into the table it         *)
(* searches, and a client that does not wait for its replies may have      *)
(* lines skipped or garbled, as may one that leaves have its last.         *)
(***************************************************************************)
EXTENDS Integers, Sequences

CONSTANTS
  Clients,        \* the clients
  Requests,       \* client -> the requests it may send
  MaxSends,       \* client -> bound on the requests it sends
  Pipelining,     \* the clients that send without waiting for a reply
  Start,          \* the engine's state when the first client connects
  Names(_),       \* the references a request looks up
  Finds(_, _),    \* whether a reference is found in a state of the engine
  Enters(_, _),   \* whether a request inserts into the table of a reference
  Handle(_, _),   \* the engine's state after a request whose names are found, and the answer
  NotFound,       \* the answer to a lookup that misses
  Malformed,      \* a line that is not a request
  Garbled,        \* what is left of a line that is cut
  NoAnswer        \* no answer yet

VARIABLES
  engine,  \* the engine's state
  job,     \* client -> what is being done for it
  left     \* client -> whether it has left

\* The n-th line of a client: nothing, or a request that is being worked on or answered.
Idle(n) == [phase |-> "idle", n |-> n, request |-> Malformed, answer |-> NoAnswer]
Busy(n, request) == [phase |-> "busy", n |-> n, request |-> request, answer |-> NoAnswer]
Answered(n, request, answer) == [phase |-> "answered", n |-> n, request |-> request, answer |-> answer]

Init ==
  /\ engine = Start
  /\ job = [c \in Clients |-> Idle(0)]
  /\ left = [c \in Clients |-> FALSE]

\* A client's job goes from one phase to the next.
Turns(c, from, to) == job[c].phase = from /\ job'[c].phase = to

\* The next line, or a later one of a client that does not wait, is taken up.
Accept(c) ==
  /\ Turns(c, "idle", "busy")
  /\ \E n \in job[c].n + 1..MaxSends[c], request \in Requests[c] \cup Garbled :
       /\ c \in Pipelining \/ n = job[c].n + 1
       /\ c \in Pipelining \/ left[c] \/ request \in Requests[c]
       /\ job' = [job EXCEPT ![c] = Busy(n, request)]
  /\ UNCHANGED <<engine, left>>

\* A whole request against one state of the engine: what it would answer if nothing else
\* happened meanwhile.
Execute(state, request) ==
  IF \E i \in 1..Len(Names(request)) : ~Finds(state, Names(request)[i])
  THEN [engine |-> state, answer |-> NotFound]
  ELSE Handle(state, request)

Perform(c) ==
  /\ Turns(c, "busy", "answered")
  /\ \E done \in {Execute(engine, job[c].request)} :
       /\ job' = [job EXCEPT ![c] = Answered(@.n, @.request, done.answer)]
       /\ engine' = done.engine
  /\ UNCHANGED left

\* A lookup that misses because of a concurrent insertion.
Miss(c) ==
  /\ Turns(c, "busy", "answered")
  /\ \E d \in Clients \ {c}, i \in 1..Len(Names(job[c].request)) :
       job[d].phase = "busy" /\ Enters(job[d].request, Names(job[c].request)[i])
  /\ job' = [job EXCEPT ![c] = Answered(@.n, @.request, NotFound)]
  /\ UNCHANGED <<engine, left>>

\* The answer is handed to the client, or dropped because the client is gone.
Return(c) ==
  /\ Turns(c, "answered", "idle")
  /\ job' = [job EXCEPT ![c] = Idle(@.n)]
  /\ UNCHANGED <<engine, left>>

Leave(c) ==
  /\ ~left[c]
  /\ left' = [left EXCEPT ![c] = TRUE]
  /\ UNCHANGED <<engine, job>>

Next == \E c \in Clients : Accept(c) \/ Perform(c) \/ Miss(c) \/ Return(c) \/ Leave(c)

Spec == Init /\ [][Next]_<<engine, job, left>>
=============================================================================
