----------------------------- MODULE SessionFence -----------------------------
(***************************************************************************)
(* The decision the admission gate of ingest/ingest.cpp takes about one    *)
(* record, as operators on the fence state of the record's source: the     *)
(* session (epoch, incarnation) fence, the bounded replay window, the      *)
(* revision fence and the final verdict.                                   *)
(*                                                                         *)
(* A record is abstracted to what the decision tells apart:                *)
(*   session  the (epoch, incarnation) pair                                *)
(*   seq      the sequence number                                          *)
(*   rev      the source revision the record is stamped with (>= 1)        *)
(*   sound    its path and generation are known and the structural checks  *)
(*            of classify() all pass                                       *)
(*   bound    its generation is the path's and is not superseded           *)
(*   usable   its age is known and fresh or aging at the receive time      *)
(***************************************************************************)
EXTENDS Integers, Sequences, FiniteSets

CONSTANTS
  Sessions,      \* the (epoch, incarnation) pairs records carry
  NoSession,     \* an invalid pair: no session is current yet
  MaxSessions,   \* Limits::max_sessions_per_source
  ReplayWindow   \* Limits::sequence_replay_window

\* Limits::validate refuses a zero limit.
ASSUME FenceAssumption ==
  /\ NoSession \notin Sessions
  /\ MaxSessions \in Nat \ {0}
  /\ ReplayWindow \in Nat \ {0}

Verdicts == {"current", "historical", "rejected"}

\* SessionState.  The counters of accepted and rejected records steer nothing and are
\* left out; recent_sequences is the set of the elements of recent_order.
SessionState ==
  [ordinal : Nat \ {0}, source_revision : Nat, has_last : BOOLEAN, last : Nat, recent : Seq(Nat)]

EmptyFenceFromZero ==
  [next_ordinal |-> 0, sessions |-> [k \in {} |-> 0], current |-> NoSession, current_ordinal |-> 0]

\* SourceFenceState: fence.sessions is a function whose domain is the remembered sessions.
EmptyFence ==
  [next_ordinal |-> 1, sessions |-> [k \in {} |-> 0], current |-> NoSession, current_ordinal |-> 0]

Elements(s) == {s[i] : i \in 1..Len(s)}

\* The eviction loop drops the oldest session that is not current until at most
\* max_sessions_per_source remain.  The current session has the greatest ordinal, so
\* the loop leaves the newest ones.
Survivors(sessions) ==
  {k \in DOMAIN sessions :
     Cardinality({j \in DOMAIN sessions : sessions[j].ordinal > sessions[k].ordinal}) < MaxSessions}

\* A session seen for the first time becomes the current one.
OpenSession(fence, record) ==
  LET opened == [ordinal |-> fence.next_ordinal, source_revision |-> record.rev,
                 has_last |-> FALSE, last |-> 0, recent |-> <<>>]
      all == [k \in DOMAIN fence.sessions \cup {record.session} |->
                IF k = record.session THEN opened ELSE fence.sessions[k]]
  IN  [next_ordinal |-> fence.next_ordinal + 1,
       sessions |-> [k \in Survivors(all) |-> all[k]],
       current |-> record.session,
       current_ordinal |-> fence.next_ordinal]

IsReplayWindowOnly(state, seq) ==
  state.has_last /\ seq < state.last /\ seq \in Elements(state.recent)

IsReplay(state, seq) ==
  state.has_last /\ seq <= state.last /\ (seq = state.last \/ seq \in Elements(state.recent))

IsReordered(state, seq) ==
  state.has_last /\ seq < state.last /\ seq \notin Elements(state.recent)

RememberUntrimmed(recent, seq) == Append(recent, seq)
RememberOneFewer(recent, seq) ==
  IF Len(recent) + 1 < ReplayWindow THEN Append(recent, seq) ELSE Tail(Append(recent, seq))

\* The bounded replay window, in order of acceptance.
Remember(recent, seq) ==
  IF Len(recent) < ReplayWindow THEN Append(recent, seq) ELSE Append(Tail(recent), seq)

\* The session state after a record that is not a replay.
Advance(state, record) ==
  [state EXCEPT !.has_last = TRUE,
                !.last = IF ~state.has_last \/ record.seq > @ THEN record.seq ELSE @,
                !.recent = Remember(@, record.seq)]

\* The reasons of the session fence that make a record historical: an older session,
\* a session revision that moved backwards, a sequence that arrives out of order.
Demotes(fence, state, record) ==
  \/ state.ordinal < fence.current_ordinal
  \/ record.rev < state.source_revision
  \/ IsReordered(state, record.seq)

\* apply_session_fence(): the fence afterwards, the verdict and whether it is a replay.
\* A replay is refused after the session was opened and its revision raised, but before
\* its sequence is remembered.
ApplySessionFence(fence, record, verdict) ==
  LET base == IF record.session \in DOMAIN fence.sessions THEN fence
              ELSE OpenSession(fence, record)
      state == base.sessions[record.session]
      raised == [state EXCEPT !.source_revision = IF record.rev > @ THEN record.rev ELSE @]
      replayed == IsReplay(state, record.seq)
  IN  [fence    |-> [base EXCEPT !.sessions[record.session] =
                       IF replayed THEN raised ELSE Advance(raised, record)],
       replayed |-> replayed,
       ordinal  |-> state.ordinal,
       verdict  |-> CASE replayed -> "rejected"
                      [] ~replayed /\ Demotes(base, state, record) -> "historical"
                      [] OTHER -> verdict]

\* The source revision fence that follows, and overrides, the session fence.
RevisionFence(record, revision, verdict) ==
  IF record.rev > revision THEN "rejected"
  ELSE IF record.rev < revision THEN "historical" ELSE verdict

RefusedUntouched(fence) ==
  [fence |-> fence, replayed |-> FALSE, ordinal |-> 0, verdict |-> "rejected"]

\* classify(): `revision` is the registered revision of the source, 0 when it is unknown.
Classify(fence, revision, record) ==
  IF revision = 0 \/ ~record.sound
  THEN RefusedUntouched(fence)
  ELSE
    LET fenced == ApplySessionFence(fence, record, IF record.bound THEN "current" ELSE "historical")
        revised == RevisionFence(record, revision, fenced.verdict)
    IN  [fenced EXCEPT !.verdict =
           IF revised = "current" /\ ~record.usable THEN "historical" ELSE revised]
=============================================================================
