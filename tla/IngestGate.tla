------------------------------ MODULE IngestGate ------------------------------
(***************************************************************************)
(* The admission gate as a state machine: records arrive in any order,     *)
(* repeated, late and from any session, while sources are redefined.  The  *)
(* engine serialises every call under its exclusive lock, so one record is *)
(* one step; a batch is a run of such steps.                               *)
(***************************************************************************)
EXTENDS SessionFence

CONSTANTS
  Sources,       \* registered or unregistered sources
  Seqs,          \* sequence numbers records carry
  MaxRevision,   \* bound on source revisions
  MaxOrdinal     \* bound on the sessions ever opened per source

ASSUME GateAssumption ==
  /\ Seqs \subseteq Nat
  /\ MaxRevision \in Nat /\ MaxOrdinal \in Nat

VARIABLES
  fences,      \* IngestGate::fences_
  revisions,   \* Catalog::sources_: the registered revision of each source, 0 when unknown
  passed       \* history: what went through the session fence without being a replay

vars == <<fences, revisions, passed>>

Records ==
  [session : Sessions, seq : Seqs, rev : 1..MaxRevision,
   sound : BOOLEAN, bound : BOOLEAN, usable : BOOLEAN]

Decision(s, r) == Classify(fences[s], revisions[s], r)

-----------------------------------------------------------------------------
Init ==
  /\ fences = [s \in Sources |-> EmptyFence]
  /\ revisions = [s \in Sources |-> 0]
  /\ passed = {}

\* define_source(): a new source, or new content at a higher revision; anything else is
\* a conflict, or an identical redefinition, and changes nothing.
DefineSource(s, rev) ==
  /\ rev > revisions[s]
  /\ revisions' = [revisions EXCEPT ![s] = rev]
  /\ UNCHANGED <<fences, passed>>

\* admit() of one record.
Admit(s, r) ==
  /\ fences[s].next_ordinal <= MaxOrdinal \/ r.session \in DOMAIN fences[s].sessions
  /\ LET d == Decision(s, r) IN
       /\ fences' = [fences EXCEPT ![s] = d.fence]
       /\ passed' = IF d.replayed \/ d.ordinal = 0 THEN passed
                    ELSE passed \cup {[source |-> s, session |-> r.session,
                                       ordinal |-> d.ordinal, seq |-> r.seq]}
  /\ UNCHANGED revisions

Next ==
  \/ \E s \in Sources, rev \in 1..MaxRevision : DefineSource(s, rev)
  \/ \E s \in Sources, r \in Records : Admit(s, r)

Spec == Init /\ [][Next]_vars

-----------------------------------------------------------------------------
(* Properties.                                                              *)

\* The gate's variables stay within the types of ingest.hpp; in particular an ordinal is
\* never 0, the value that means "no session yet".
TypeOK ==
  /\ \A s \in Sources :
       /\ fences[s].next_ordinal \in Nat \ {0}
       /\ fences[s].current_ordinal \in Nat
       /\ fences[s].current \in Sessions \cup {NoSession}
       /\ DOMAIN fences[s].sessions \subseteq Sessions
       /\ \A k \in DOMAIN fences[s].sessions : fences[s].sessions[k] \in SessionState
  /\ revisions \in [Sources -> 0..MaxRevision]
  /\ passed \subseteq [source : Sources, session : Sessions, ordinal : Nat \ {0}, seq : Seqs]

\* The session table of a source: ordinals are unique and handed out in order, the
\* current session is remembered and is the newest one (eviction never removes it), the
\* table and the replay windows respect their limits, a window holds no duplicate and
\* nothing above the last sequence.
FenceWellFormed ==
  \A s \in Sources : LET f == fences[s]
                         Live == DOMAIN f.sessions IN
    /\ f.current_ordinal = f.next_ordinal - 1
    /\ f.current = NoSession <=> f.current_ordinal = 0
    /\ f.current # NoSession => f.current \in Live
                                /\ f.sessions[f.current].ordinal = f.current_ordinal
    /\ \A k, j \in Live : f.sessions[k].ordinal = f.sessions[j].ordinal => k = j
    /\ \A k \in Live : f.sessions[k].ordinal <= f.current_ordinal
    /\ Cardinality(Live) <= MaxSessions
    /\ \A k \in Live : LET w == f.sessions[k].recent IN
         /\ f.sessions[k].has_last /\ Len(w) <= ReplayWindow
         /\ \A i, j \in 1..Len(w) : w[i] = w[j] => i = j
         /\ \A i \in 1..Len(w) : w[i] <= f.sessions[k].last

\* As many sessions as the table holds were opened since the one e belongs to.
Displaced(e) == fences[e.source].current_ordinal - e.ordinal >= MaxSessions

\* Whatever record arrives next, if the gate would accept it as current then nothing newer of
\* its source went through the fence before: everything that did belongs to a session opened
\* earlier, or to the same session with a smaller sequence.  The session is the one it was
\* then: as long as fewer than max_sessions_per_source sessions were opened after it, no
\* replay, reordering, redefinition or eviction in between makes the gate take its evidence
\* for that of a new session, so none of it is current twice or out of order.  (A session
\* that was displaced and comes back is opened anew, and its old sequences are current again.)
CurrentIsNewest ==
  \A s \in Sources, r \in Records :
    LET d == Decision(s, r) IN
    d.verdict = "current" =>
      \A e \in passed : e.source = s =>
        /\ e.ordinal < d.ordinal \/ (e.ordinal = d.ordinal /\ e.seq < r.seq)
        /\ e.session = r.session /\ ~Displaced(e) => e.ordinal = d.ordinal

\* A sequence that went through the fence of a remembered session is recognised as a
\* replay until the bounded window has overflowed: at least sequence_replay_window other
\* sequences of that session were accepted since.
ForgetsOnlyBeyondWindow ==
  \A s \in Sources, r \in Records :
    LET d == Decision(s, r)
        Same == {e \in passed : e.source = s /\ e.ordinal = d.ordinal} IN
    (\E e \in Same : e.seq = r.seq) /\ ~d.replayed => Cardinality(Same) > ReplayWindow

\* docs/semantics.md, fence 6: "A sequence already inside the bounded replay window is a
\* replay: rejected as conflicting."
ReplayIsRejected ==
  \A s \in Sources, r \in Records : LET d == Decision(s, r) IN
    d.replayed => d.verdict = "rejected"

=============================================================================
