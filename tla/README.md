# A verification of Latency Observatory in TLA+

Latency Observatory is a C++20 library and service that admits latency
measurements from many sources, decides which of them may count as *current*
evidence, keeps them in a segmented append-only store and aggregates, compares and
attributes them. This directory holds a TLA+ model of it from the request line of a
client to the frames on disk, the TLC configurations that check it on small instances, and TLAPS proofs that hold for
every value of the constants. `PROJECT.json` lists runs, mutants, findings, hazards
and theorems, and maps every definition to the lines it models.

## Inventory

| part | state | operations | interacts with |
| --- | --- | --- | --- |
| worker pool (`runtime/worker_pool.cpp`) | queue, threads, stopping, active, stats, promises, tokens | create, submit, cancel_pending, shutdown(drain), ~State | engine (creation, cancel, shutdown) |
| admission gate (`ingest/ingest.cpp`) | per source fence: sessions, ordinals, last sequence, replay window, revisions | admit, restore_fence | catalog, clock registry, engine |
| store (`store/store.cpp`) | manifest, segment files, writer counters | open, append, sync, close, read_all | engine |
| engine (`runtime/engine.cpp`) | catalog, clocks, gate, records, baselines, writer, shut_down_ | create/load_store, define_*, record_clock_sync, ingest, queries, flush, shutdown | everything |
| catalog (`model/entities.cpp`) | definitions with revisions and generations | define_*, lookups | gate, engine, service |
| clock registry (`model/clock.cpp`) | domains, synchronisation reports | define_domain, record_sync, compare, estimate_age | gate, engine |
| evidence lattice (`core/evidence.cpp`) | none (values) | add_reason, merge, normalize, usable | gate, aggregation |
| aggregation (`stats/`) | none | classify_record, summarize, distributions | engine |
| baselines (`baseline/`) | bounded store of baselines | add, get, latest_for, compare | engine, attribution |
| attribution (`attribute/`) | none | attribute | engine |
| transport (`runtime/transport.cpp`) | listener, connection threads, stop flag, stats | start, run, request_stop | service |
| service (`runtime/service.cpp`) | none of its own | dispatch: name lookups, then one engine call | engine, catalog, transport |
| CLI, codecs, export, explain, demo | none of their own | decoding, rendering | engine |

What makes it hard: threads with three condition variables and promises settled from
two places; records that arrive duplicated, late, reordered and from restarted
sources against bounded memories; clocks that are only comparable through reports
which expire and contradict each other; five kinds of answers computed from the same
records by five pieces of code; a log that is cut by crashes anywhere, written by
several runs and read by a reader that stops at the first problem; a `shut_down_`
flag read and written under different mutexes; a batch that is persisted record by
record; connection threads that read the catalog without its lock, and a stop that
one of them requests. The hazards in `PROJECT.json` name each place.

## Modules

| module | models | notes |
| --- | --- | --- |
| `WorkerPool` | `worker_pool.cpp` | one action per critical section; everything done outside the mutex is an action of its own |
| `SessionFence` | the decision of `classify` and `apply_session_fence` | operators on a fence state, used by the three machines below |
| `IngestGate` | the gate as a machine | records in any order, sources redefined meanwhile |
| `SegmentLog` | append, rotation, flush, `read_all`, crash images | operators on a log |
| `Store` | `StoreWriter` over its runs, with crashes and failed writes | `EXTENDS SegmentLog` |
| `Evidence` | `core/evidence.cpp`, `FreshnessPolicy::classify` | state, freshness, confidence and their merge |
| `Catalog` | `model/entities.cpp` | every `define_*` with its references, limits and revisions |
| `ClockRegistry` | `model/clock.cpp` | domains, reports, comparability, age |
| `Engine` | `create`, `define_*`, `record_clock_sync`, `ingest`, `shutdown`, crashes | composes `SessionFence`, `Catalog`, `ClockRegistry` and `SegmentLog` |
| `Admission` | the rest of `ingest.cpp`: structure, freshness, dwells | joins the fence with catalog and clocks |
| `Statistics` | `stats/`, `Engine::history` | record classes, exact sums, nearest rank, histograms, summaries, buckets |
| `Baselines` | `baseline/baseline.cpp` | bounded store, compatibility, deviations, anomaly classes |
| `Attribution` | `attribute/attribute.cpp` | hop sums, residuals, shares, refusals |
| `Queries` | `Engine::ingest`, `create_baseline`, `explain`, `export` on a snapshot | limits and truncation flags |
| `Observatory` | the evidence path as a machine | from a measurement to every kind of answer, with restarts |
| `Service` | `runtime/service.cpp` | per operation: the names looked up, in order, and the engine call |
| `AtomicService` | what a client may rely on | the abstract specification `Server` implements |
| `Server` | `runtime/transport.cpp`, `run_serve` of `tools/latobs.cpp` | accept loop, connection threads, clients, stop |
| `WorkerPoolProofs`, `IngestGateProofs` | theorems about the pool and the gate | |
| `SegmentLogProofs`, `StoreProofs` | theorems about the store | the first holds the lemmas about `SegmentLog` that both sides below use |
| `EngineLoadProofs`, `EngineProofs` | theorems about the engine | the first is about reading back, the second about the calls |
| `ServerProofs`, `EngineServer` | theorems about the server | for any service; and that `Service` is one |
| `MC*` | instances for TLC | constants and symmetry |

`Admission`, `Statistics`, `Baselines`, `Attribution` and `Queries` extend each other in
this order and hold operators only; `Observatory` and `Service` are two uses of them.

**WorkerPool.** `wpc[w]` is where a worker is: `loop` (about to enter the critical
section at the top), `wait` (asleep on `not_empty`), `picked` (a task in its hands),
`settle` (the outcome in its hands), `exit`. `cpc[c]` does the same for a client in
`shutdown`. A notify moves sleepers back to where they re-evaluate their predicate;
`SpuriousWakeup` does so at any time. `promise[t]` is the state of a task's promise;
setting a settled promise throws in the code, and the catch swallows it, so the model
leaves the promise alone. A worker's lambda holds a `shared_ptr` to the state, so
`DestroyState` waits for every worker to exit. Left out: `not_full` (no waiter),
`draining` (no reader), the read-only `stats()`. Two overlapping calls of `shutdown`
are excluded because `Engine::shutdown`, the only caller, lets one thread through.

**SessionFence, IngestGate.** A record is a session (an epoch and incarnation pair), a
sequence, a revision and three booleans for what the checks before the fence found
(`sound`, `bound`, `usable`); `Admission` computes the three from a whole measurement. Eviction is stated as its result, the newest
`MaxSessions` sessions: the current session has the greatest ordinal, which
`FenceWellFormed` checks. `passed` is a history variable of what went through the fence.

**SegmentLog, Store.** A segment is a sequence of frames of which the first `durable`
are flushed. A crash keeps the durable frames, any number of the others and possibly a
torn piece of the next; `torn_head` and `torn_body` are kept apart because
`read_all` treats a short record header and a short payload differently. Checksums are
represented by the fact that torn frames are recognised. Failed record writes are
modelled: they leave a piece of the frame in the file and the writer's counters as they
were, and `spilled` keeps the account of those bytes. Failing header, footer and flush
calls, and directory entries lost by a crash, are not modelled.

**Engine.** Mutating calls hold the exclusive lock from the first check to the return,
so a call is a step and a crash inside one is another. `shutdown()` is two steps:
`shut_down_` is written under `shutdown_mutex_` and read under `mutex_`, so between
them a call may read either value (`AcceptsCalls`). A log record is what decoding it
gives back; `LoadRecord` decodes it, which a report of revision 0 does not survive
(`Decodes`), and registers it again through the checks of its first registration. A definition has the size of its text, every other record size 1; other
sizes are the business of `Store`. Records are sound and usable with revision 1; the
other kinds are the business of `IngestGate`. `durable_writes` is on; every start chooses whether the run is
`readonly`, which makes `persist` refuse. `SourceOrder` lists the sources in the order of
the map that `gate_.fences()` iterates over.

**Evidence to Queries.** A value of `Evidence` has its three enumerations and one bit of
its reasons, whether a clock was refused, which is all that any decision asks of
them. An empty optional is `NoValue`. Entities are known by their names, which the
code's identities hash. A reading is nanoseconds in a clock domain. Sums are exact and
`NanosMax` stands for the largest representable value, so that a sum can overflow
where a 64-bit one would. Chains of early returns are `EarlyReturn` lists, in the
code's order.

**Observatory.** Every mutating call and the passing of time is an action; a query is an
operator on the state, as the code answers it from one snapshot under the shared lock.
`Restart` recomputes freshness the way `reclassify_loaded` does and decodes baselines
without what their codec does not write; it does not happen when a baseline has more
bounds than the default limit that its decoder applies (`BaselinesDecode`). `taken` is a
history variable: the window, the time and the number of records behind each
baseline. `TrueOffset` gives every clock a true offset,
which the program never sees: it is what `DwellsAreTrue` measures dwells against.

**Service, Server.** A request goes through `read`, `resolve` (one step per name),
`call` or `write` under the lock, and `reply`. The `resolve_*` helpers read the catalog and the clock
registry without the engine's lock; that is a data race when another connection is
inserting, and the model lets such a lookup see the table of before or after the
insertion, or miss an entry that is there. `read_line` drops what a buffer holds
beyond the first newline, so a client that does not wait may lose lines or have one
cut (`LeftUnread`); what is left of a line may still mention `"shutdown"` (`Pieces`). A
client may leave in the middle of a line, which `read_line` returns as if it were whole
(`LeaveMidLine`). A reply to a client that has left fails, or ends the process by
a signal (`PipeSignal`), the busy line of the accept loop included. `request_stop` is three steps, as `run()` may be anywhere in its loop
between them. The engine of `Service` has no store; `Engine` has it. `Server` and
`AtomicService` take the service as parameters (the names of a request, a lookup, the
call, which requests insert and which lock); `MCServer` and `EngineServer` give them the
operators of `Service`.

**AtomicService.** A request takes effect at one instant, against the state of that
instant. Its weaknesses are the ones the code has: a lookup may miss while another
request inserts into the same table, lines of a client that does not wait may be
skipped, and the last line of one that leaves may be a piece. The refinement mapping `JobOf` reads a thread's place as the phase of its request.

## Runs

| run | instance | result |
| --- | --- | --- |
| `pool` | 2 workers, 2 clients, 3 tasks, depth 2, 1 refusal | passes |
| `gate` | 1 source, 3 sessions, table of 2, window of 2, 3 sequences, 2 revisions, 3 ordinals | passes |
| `store` | 3 records of sizes 1, 4, 5; 2 records or 5 bytes a segment; 3 runs, 1 failed write, 1 refusal | passes |
| `engine` | 1 source, 2 sessions, 2 sequences, 4 definitions, 1 clock domain with 2 reports, batches of 2, 3 calls, 3 runs, log limit 5 | passes |
| `observatory` | 2 sources, a path of 2 hops and its redefinition, 3 clock domains, 5 measurements, 2 records in memory, 2 queries, 1 restart | passes |
| `server` | 2 clients, one line each out of 9 and 15, 2 connections | passes |
| `server_stop` | 2 clients, one of which sends 2 lines without waiting, and may shut down | passes |
| `pool_destroy`, `gate_replay`, `store_intact`, `engine_replay`, `server_idle` | the same modules | violate one documented statement each |

What the passing runs show:

* `pool`: a promise is pending exactly while its task is in one place (`SettledOnce`);
  counters and futures agree (`CountersMatchFutures`); after a shutdown nothing is left
  (`QuietAfterShutdown`); cancelled tasks report `cancelled`; no wakeup is lost; every
  task settles and every shutdown returns.
* `gate`: the session table is well formed at its limits; current evidence is newer
  than everything that passed before (`CurrentIsNewest`), where a session is the one it
  was until as many newer ones were opened as the table holds (`Displaced`; one that
  returns after that is opened anew); a sequence is forgotten only when the window has
  overflowed.
* `store`: recovery returns records in write order; a lost acknowledged record is
  reported; a crash loses only what was not synced; a store with acknowledged records
  opens; files keep to their limits (up to the one header the fit test leaves out and
  the pieces of failed writes, which no counter sees); durable frames are never rewritten.
* `engine`: acknowledged measurements are durable, through the shutdown window too; a
  restart rebuilds evidence, fences, catalog and clocks exactly when nothing crashed or
  was refused, and only a log larger than the capacity or a report of revision 0
  prevents it; a recovered acknowledged measurement is covered by the recovered fence,
  as long as its source has opened no more sessions than the gate remembers (a session
  displaced by newer ones is forgotten, so its fence starts afresh when it returns);
  definitions load whatever part of the log is lost, unless `persist` was refused.
* `observatory`: a derived dwell is off by at most its stored uncertainty, if the reports
  were honest (`DwellsAreTrue`); distributions equal a definition that does not sort;
  history, attribution, explanation and sample export agree with the summary of the
  same window; a decomposition adds up to the time it decomposes and a refused one
  publishes nothing; answers do not depend on the order of arrival; a baseline is
  compared with later looks at its window from the moment it was taken to its aging
  horizon and never otherwise, restarts or not, and shows no deviation before something
  new was stored (`BaselinesSpeakForTheirWindow`); a restart changes no historical answer.
* `server`: `Server` implements `AtomicService` (`ServesAtomically`); the connection count
  is the number of threads at work, each of which `run()` will join.
* `server_stop`: replies match requests in order; a line that was read is answered or its
  connection closed, unless its own client does not read: one that does not holds its
  own thread and nobody else's; once a stop is requested and the clients have left, `run()`
  returns and the runtime is closed.

**Bounds.** Two workers and two clients let a worker, a waiter, a submitter and a
shutdown overlap; three tasks in a queue of two give a full queue with a task in hand.
Three sessions in a table of two force eviction; three sequences in a window of two
force forgetting. Three runs are needed for a crash, a run after it, and a reader of
both. Sizes 1, 4 and 5 meet rotation by count, rotation by bytes, the largest record
that fits and one that does not. The measurements of `observatory` are complete,
partial, across clock domains, of an old revision, of another source and malformed,
and two at a time in memory meet every merge; the instants 1 and 3 age
evidence past its horizons and reports past their validity; the windows compared with a
baseline end at 2 to 5, so its age is negative, fresh, aging, stale and expired. The last
bucket of either history reaches past its window, and records fall in the overhang. Two connections meet the
limit together with the wake-up connection that `request_stop` makes; `ReapFactor` is 1
instead of 4, so that the join of finished threads happens. Sessions are
interchangeable, and `gate` and `engine`, which check invariants only, declare them
symmetric.

**Deadlock** checking is off in `pool`, `store`, `engine`, `observatory` and the `server` runs: a
pool that was shut down and released, a process whose runs are used up, a memory that is full and a
server that was closed stop for good.

**Fairness.** `pool`: weak fairness of each worker's step and of each step of a shutdown in
progress (a runnable thread is scheduled and a task function returns), and of the
state destructor once it can run. Nobody is obliged to submit, to shut down or to wake
spuriously. `Server`: weak fairness of the accept loop and of each connection's thread,
which the operating system schedules, except while the thread writes a reply to a client
that neither reads (`Readers`) nor has left: `write_all` sends on a blocking socket
without a timeout, so the reply to such a client may or may not get through
(`Unhindered`). In `server_stop` the client that does not wait is not a reader. Clients
owe nothing else, not even to leave.

## Where the code and its documents differ

Shown by a run each:

* `pool_destroy`: destroying a pool that was not shut down does not stop its workers.
* `gate_replay`: a replay of an older revision is accepted as history, not rejected.
* `store_intact`: a footerless segment without damage hides the segments after it.
* `engine_replay`: after a crash between a measurement and its fence, the measurement
  is accepted as current again.
* `server_idle`: a stop does not end `run()` while a client stays connected and silent.

Met while modelling, and part of the model as the code has them:

* A session displaced from the bounded table and seen again is taken for a new one and is
  current, its old sequences too (`semantics.md:66`, `ingest.hpp:68` say an older session never is).
* `classify_record` looks at the evidence and not at the verdict, so history with usable
  evidence takes part in current aggregation (`semantics.md:79` says only accepted_current).
* A query of an old generation uses the path's present hops (`entities.hpp:134`).
* A record still fresh at the start of a session is current again after a restart.
* `resolve_*` read the catalog without the lock (`concurrency.md:5`, `engine.hpp:178`).
* Lines sent without waiting for the reply are dropped or cut by `read_line`.
* A line with `"shutdown"` in quotes anywhere stops the server after its reply, whatever
  its operation; a shutdown whose reply cannot be written does not stop it.
* Finished connection threads are joined only while no connection is active, so their
  number is not bounded as the comment at `transport.cpp:305` says.
* A refused `persist` leaves memory ahead of the log, and a definition that refers to the
  refused one makes the next load fail.
* The capacity test of a load counts every frame, the one of `ingest` only measurements.
* `record_sync` accepts a report of revision 0 and the engine writes it; `json_revision`
  refuses it, so the next load fails. The service never makes one (it decodes requests
  with the same function), a caller of the library can.
* A baseline's bounds are decoded against the default limits, not the configured ones, so
  a runtime that allows more buckets can write a baseline it cannot load.
* What a failed write leaves in a segment is in no counter, so `max_segment_bytes`
  (`persistence.md:81`) bounds what was appended and not the file.

## Proofs

Every theorem holds for every value of the constants that the named assumptions allow.
The assumptions are what the code enforces (`WorkerPool::create`, `Limits::validate`)
plus the naming of the bounds: `PoolAssumption`, `FenceAssumption`, `GateAssumption`,
`LogAssumption`, `StoreAssumption`, `CatalogAssumption`, `ClockAssumption`, `EngineAssumption`,
`ServerAssumption`. `FooterBytes <= MaxSegmentBytes` in `LogAssumption` is weaker than the
4096 bytes that `policy.cpp:89` asks for.

| module | proved |
| --- | --- |
| `WorkerPoolProofs` | `TypeOK`, `SettledOnce`, `CancelledReportsCancelled`, `QuietAfterShutdown`, `NoLostWakeup`, `CountersMatchFutures` |
| `IngestGateProofs` | `TypeOK`, `FenceWellFormed`, `CurrentIsNewest`, `ForgetsOnlyBeyondWindow` |
| `StoreProofs` | `TypeOK`, `RecoveredInWriteOrder`, `AckedLossIsReported`, `CrashLosesOnlyUnsynced`, `AckedStoreOpens`, `SegmentsWithinLimits`, `DurableFramesKept` |
| `EngineProofs` | `TypeOK`, `AckedIsDurable`, `DefinitionsLoad`, `RestartIsFaithful` |
| `ServerProofs` | `TypeOK`, `ConnectionsAccounted`, `RepliesMatchRequests`, `ServesAtomically` |
| `EngineServer` | `ServesAtomically` with the operations of `Service` |

**Worker pool.** None of the invariants is inductive. `IInv` adds `Discipline`: `active` is
the number of busy workers (else `active` could go below zero, and a drain could pass with a
task in hand); accepted tasks are exactly 1 to `submitted`; a worker that has exited saw
`stopping` set and the queue empty, and nothing fills the queue again; at most one
client is inside `shutdown`, which has set `stopping`, and it holds abandoned tasks only
between taking and settling them; at `clear`, and once the thread vector is empty, every
worker has exited; and the outcome in a worker's hands respects its task's token. Each
action has a lemma that it preserves `IInv`, which `StepInv` combines. On top of it,
`WakeupStep` shows that a step which queues a task wakes a sleeper if there is one, and one
that puts a worker to sleep finds the queue empty. `Accounts` says of each counter that it
is the cardinality of the set of tasks with that outcome; a step moves one task from one
set to another, which `FiniteSetTheorems` counts.

**Gate.** `CurrentIsNewest` looks one record ahead and is far from inductive; its `IInv` ties
the history to the fence. What passed is not newer than what the
fence remembers (`PassedCovered`): its ordinal is at most the current one, and its
sequence at most the last of the session with that ordinal. This survives because
ordinals are distinct and the current session has the greatest (`FenceOK`), because every
remembered session has a last sequence (`AllStarted`), and because eviction drops the least
ordinal and never the session just opened (`SurvivorFacts`, where the least one exists since
the naturals are well founded). An ordinal alone could hide that a session was opened a
second time, so `SessionKept` adds that a session is remembered under the ordinal it passed
with until `MaxSessions` newer ones were opened: eviction drops only the least ordinal, and
the remembered ones are distinct. For
`ForgetsOnlyBeyondWindow`, `Memory` says that a session's window holds all that passed under
its ordinal until more than a window has.

**Store.** `SegmentLogProofs` describes each operation of the log by what it does to the
files: `LogShape` (only the last file is open, every other is wholly durable, the open one has
no footer), and one lemma per operation that it keeps the shape and which frames it
touches. `StoreInvariant` adds that records are numbered along the directory in the order
`append` accepted them (`Numbered`), which is what makes recovery return them in order
whatever is missing; that acknowledged records are among the durable frames; that
the manifest is good before there is anything to acknowledge; and that as long as no
write failed and no damaged store was opened again every file but the last ends in its
footer (`Whole`), which is why the reader reaches the last acknowledged record. The
limits need an invariant of their own, `LimitsInvariant`: `append` tests the writer's
counters and not the file, so the counters have to be those of the file, and what they
allow has to leave room for the footer that `close_segment` writes later; what the
file holds beyond the counters is what failed writes have spilled.

**Engine.** `EngineLoadProofs` first shows what each operation of the writer and a crash
do to what `read_all` returns: an append to a log that is read to its end adds its record
at the end, an append to one that a crash has cut short (`Frozen`) adds nothing, and a crash
leaves a prefix. Then the loops: the load of a longer log goes on from the load of the
shorter one, a batch goes through the gate record by record, and the fences behind it
are those of the sources that have one. `EngineInvariant` needs all of it: the log has its
shape and holds only what the engine wrote (`Kept`); memory is closed under
references and within its tables (`Remembered`); and what the reader finds loads, to exactly
what memory holds while the log is read to its end (`Replays`). `RestartIsFaithful` alone is not
inductive, as it says nothing after a crash, while a run after the crash
goes on from what was loaded; nor is `DefinitionsLoad`, since a definition is accepted against
memory and is loaded against what the log gave back so far. The invariant speaks of
`Replay`, the load without its decoder, because the registries can be trusted with what they
accepted before and the decoder cannot; `LoadIsReplay` shows that both give the same
memory when every record decodes or the load succeeds.

**Server.** `ServerInvariant` has a part for the links and places of the connections, one for
the counts of `run()`, one for the numbered lines of each client (replied to, then worked
on, then unread) and one for the threads' locals and the lock. For the refinement
`FoundOK` is added: a name that a thread has found is in the engine's state, or will be once
the insertion now under the lock is done. That is stable only if no call removes a
name and calls without the exclusive lock change nothing; `ServiceLaws` states this of the
parameters, `ServingIsAtomic` proves from it that each step of `Server` is a step of
`AtomicService` or a stutter, and `EngineServer` proves the laws of the operations of `Service`
(`ServiceObeysLaws`), for requests whose members `dispatch` reads completely
(`RequestsAreRead`, `ServerSetting`). So the lookups outside the lock are harmless because entities and
domains are never removed.

**Recursion.** What the model computes in a loop (records of a directory, bytes of a
segment, a load, a batch) is a recursive function over an initial segment of the naturals.
The proofs replace it by its defining equations, show by well-founded induction
that a function with them exists, and carry a fact along it as the least
counterexample. This needs no induction theorem with an operator as a parameter.

Only model-checked:

* All liveness, which is out of the prover's reach: `EveryTaskSettles`, `ShutdownReturns`,
  `RequestsFinish`, `StopCompletes`.
* `AckedStaysFenced`. It speaks of what a crash at any point of an `ingest` leaves, so its
  invariant would have to follow the fences through every prefix of the log, and the
  sessions of a source through what the gate displaces; the lemmas about loading
  are there, the ones about prefixes are not.
* Everything about `Observatory`. Its answers are folds and sorts of sequences, defined by
  the operators of the community modules; what those compute for every input is
  induction over data with an operator as the parameter, which the prover does not offer.

## Not modelled

* The reasons of evidence, of which only a refused clock steers anything; that a merge
  keeps the first 24 in order of arrival is therefore out of sight.
* Text: JSON, codecs, rendering of explanations and exports, argument parsing, and the
  refusal of malformed text beyond one kind of malformed line. Hashes and identities.
  They are byte computations without state.
* The demo, which only calls the public operations.
* `durable_writes` off, failing header, footer and flush calls, directory
  entries lost by a crash, sockets that fail otherwise than by a departed peer,
  connections closed in one direction only (their client would still read the reply to
  its last line), a server destroyed without `run()`.
* Widths: 64-bit ages and offsets (only sums have a largest value), 32-bit segment identifiers.
