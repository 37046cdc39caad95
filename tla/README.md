# A TLA+ development of waitbus

waitbus is a local event bus. Producers insert rows into one SQLite table and
ring a doorbell socket; a broadcast daemon wakes up, reads the new rows and fans
them out over a Unix stream socket to the processes that wait for them. Around
that core there are sources (GitHub polling, a webhook listener, Docker, the
file system, pytest), consumers (CLI commands, a Python SDK, an MCP server), and
a supervisor. This directory holds TLA+ modules of the parts where order,
concurrency and failure decide whether the system is right, the TLC runs that
check them, and proofs of what holds for every value of the constants.

Every module is written from the code under `src/`; `PROJECT.json` names
for every definition the lines it stands for, for every property a mutation of
the model that breaks it, and lists the hazards the properties are for.

    tlc -workers 4 -config MCBroadcast.cfg MCBroadcast     # one run
    tlapm BroadcastProofs.tla                              # one proof module


## 1. Inventory

### The bus

| part | state | operations | talks to |
|---|---|---|---|
| event store `_db.py` | table `events` (`seq` AUTOINCREMENT, `event_id` a ULID, `delivery_id` unique), `schema_migrations` | `insert_event`, `iter_events_above`, `seq_for_event_id`, `ensure_schema` | everyone, through WAL-mode connections |
| producer API `_emit.py` | none | `emit`: one insert, one ring. `emit_batch`: one transaction, one ring | store, doorbell |
| doorbell `_doorbell.py` | listening socket with a backlog, an eventfd (a datagram socket on macOS) | `ring`, `accept_one` (in a thread), `drain` | producers -> daemon |
| daemon, fan-out `broadcast.py` | `cursor`, the `subscribers` map, per subscriber: filters, `replay_watermark`, `pre_ack_buffer`, `lag_count` | `_on_doorbell_wake` / `_broadcast_pass` / `_fan_out`, heartbeat loop, `_shutdown` | doorbell, store, subscribers |
| daemon, subscribe `broadcast.py` | the task of each `_read_subscribe` | accept, read the frame, register, snapshot, ack, replay, flush | subscribers, store |
| daemon, tx path `broadcast.py` | `_tx_queue`, whether the writability callback is armed, `events_delivered_total` | `enqueue`, `_drain`, `_start_draining`, `_stop_draining`, `_close_subscriber` | kernel socket buffer |

A row travels: commit -> ring -> backlog -> accept-thread -> eventfd -> wake ->
drain -> SELECT -> fan-out -> send buffer -> peer. A subscriber is in one of: not
registered, registered but not acknowledged (live rows go to a bounded pre-ack
buffer), replaying, flushing, live.

*What is hard.* A subscriber that resumes with `since` is fed by three writers:
the replay, the pre-ack buffer and the live fan-out. A pass may run while the
ack is in flight, while the daemon's cursor lags behind the table, or during
shutdown. Rings coalesce, can be lost, and a pass is bounded. Peers read slowly,
die, or make a send fail half way through a frame.

*What makes it right.* No row twice, none out of order, none missing; ack
before events; bounded memory per subscriber; a wake-up is never lost; frames
are whole; a subscription always ends its handshake.

### Consumers

| part | state | operations |
|---|---|---|
| engine `_broadcast_sub.py` | the subscription, a `BookmarkCursor` (a file written by rename) | `await_predicate`: read, advance the bookmark, decide |
| `coalesce.py`, `replay.py`, `broadcast_tap.py`, `top.py` | snapshot per entity, merged flush list | collect the backlog, flush in event_id order, advance per frame |
| SDK `_subscribe.py`, `_compose.py`, `_predicate.py` | for `asubscribe`: worker thread, bounded queue, the generator's socket | `wait_for`, `subscribe`, `asubscribe`; `all_of`/`any_of` |
| messaging `_messaging.py` | rows of kind agent message, correlation ids | `request`, `respond`, a since-replay for the answer |
| `wait.py`, `on.py` | what an all-of wait has already seen; the child process of `on` | decide per frame, deadline, run a command |
| MCP `mcp.py`, `_mcp_subscriptions.py` | sessions, pending queue per session | tools, resource subscriptions, notification pump |

*What is hard.* A consumer dies between the bookmark write and the effect, or
in the middle of a flush; two producers commit against the order of their
event_ids; an async generator is left while its worker is blocked in a put.

*What makes it right.* Nothing emitted twice, a bounded loss per crash, never an
older state after a newer one, no event dropped on a hand-off, no teardown that
hangs.

### Producers and the rest

| part | state | operations |
|---|---|---|
| docker source `sources/docker_watch.py` | `since` cursor, reconnect attempt, a `WatchStopper` used from another thread | stream, emit per exit, reconnect with backoff, stop |
| file-system source `sources/fs_watch.py` | `_pending` under a lock, the flush thread, an observer thread | add, flush off the lock, stop |
| GitHub polling `etag_poll.py`, `_http.py` | the ETag file | conditional GET, commit rows, synthesise stalls, save ETags |
| pull-request monitor `pr_monitor.py` | the head of each pull request, its last line | wake, aggregate the newest job rows, print, exit |
| webhook listener `listener.py` | a thread per request | gates, HMAC, insert, ring, answer; shutdown by a signal |
| pytest source `sources/pytest_emit.py` | the outcomes of a process | one batch at the end, in each xdist worker |
| plugin registry `sources/_registry.py`, `_attestation.py`, `_config.py`, `cli/allowlist.py` | per process the registered sources; the shared allowlist of pinned publishers | discover, attest, trust on first use, pin; add, remove, repair, verify |
| supervisor `cli/serve.py` | the daemon's task, component threads, poll timers; the socket file | probe, start order, ticks, teardown with the bus last, exit code |
| watchdog `watchdog_check.py`; `read_events.py` | two flag files | one check; a listing |
| migrations, `init`, prune | `schema_migrations`, the database file | apply pending, baseline, delete, `VACUUM INTO` + rename |
| stress and soak runs `scripts/stress`, `scripts/soak` | child processes, a ledger, outcomes | windows of drivers, seed, drain, verdict; probes, suspends, verdict |
| metrics, stats, install, demo, command line | reporting | read-only |

*What is hard.* Several processes over one file: the table, the allowlist, the
ETag file, a socket path, two flag files. Each is read, judged and written in
steps, and a process may be killed between any two; a redelivery, a retry or a
second worker repeats what was done. The two harnesses judge runs in which
children die.

*What makes it right.* Nothing saved stands for what was not stored; no row is
left without a ring; a repeated delivery is one row; a pin outlives the race it
was made in; an exit code tells what happened.

The hazards of all these, each at its line and with the properties that would
catch it, are the `hazards` of `PROJECT.json`.


## 2. Modules

| module | models | interleaves |
|---|---|---|
| `Broadcast` | table, producers, doorbell, daemon loop, subscribe/replay, frame-level tx, peers, SIGKILL and shutdown | producers, accept-thread, asyncio callbacks, peers, crash |
| `SubscriberTx` | one subscriber's tx path, byte by byte | the callbacks of one loop against the peer and partial sends |
| `FrameChannel` | abstract specification: a bounded FIFO of whole frames | - |
| `AsyncSubscribe` | `asubscribe`: worker, bounded queue, generator, teardown | worker thread, event loop, daemon, consumer |
| `Resume` | bookmark sessions, faithful and coalesced, killed at every point | sessions over time against producers |
| `DockerWatch` | Engine log, `watch()`, reconnect, `WatchStopper` | watch thread, stopper thread, Engine |
| `FsDebounce` | observer, debouncer, flush thread, stop | three threads |
| `Waiting` | `wait`, `wait_for`, `subscribe` on one stream, with deadline, torn frames, SIGINT | consumer, daemon, clock |
| `OnCommand` | `waitbus on`: command groups, restart, termination, signals | supervisor, command's processes, signals at any statement |
| `Messaging` | `request` and `respond`, retries, crashes | agents over one table |
| `McpTail` | the MCP server's paged and blocking reads | agent, producers, prune |
| `McpPush` | sessions, subscriptions, the queue before `initialized` | frame task, dispatch loop, client |
| `Polling` | `etag_poll`, one-shot, killed anywhere | GitHub, polls over time |
| `PrMonitor` | `pr_monitor` over job rows that come in any order | monitor, producers, pushes |
| `Store` | `ensure_schema`, migrations, `init`, `db migrate`, `db prune`, daemon, producers over one file | processes between transactions, kills |
| `Ingress` | listener threads and its shutdown; a pytest-xdist run | request threads, main thread, test processes |
| `Serve` | supervisors over one socket path | supervisors, ticks, threads, signals |
| `Registry` | discovery, trust on first use, the allowlist and its commands | processes, operators, installs, kills |
| `Watchdog` | `watchdog_check` and its flags | checks, heartbeats, clock, kills |
| `Stress`, `Soak` | the two harnesses | controller, children, daemon |
| `MCBroadcast`, `MCSources`, `MCSdk`, `MCPrograms`, `MCOperations` | instances | one part at a time (below) |
| `*Proofs`, eight modules | theorems about the components they extend (section 5) | every behaviour |

Each `MC` module but the first holds several components that meet only in the
table or in files of their own. A behaviour picks one of them, `part`, in its initial
state; the others stand still in a fixed one. So one run explores each component
in full, under its own fairness, and no component hides behind another; `Parts`
picks the ones a run explores. An `MC` module extends the component modules, so its runs and
the proofs speak of the same variables and definitions.

### Broadcast

The daemon is one asyncio loop, so a callback runs to its next `await` without
another callback in between while producers, the accept-thread, peers and a
SIGKILL may act at any time. The variable `loop` says which callback holds the
loop: `idle`, `woken` (drained, about to SELECT), `sweep` (fanning rows out, one
per step), `task` (a subscribe task that replays or flushes), `closing` (last
pass done), `down` and `booting`. This is why `FanOutRow`, `ReplayRow` and
`FlushRow` can be steps of their own without letting a second callback in.

A frame is a number: an event frame is its row's `seq`, the ack, the heartbeat
and the reject are 0, -1 and -2. A subscriber record has the whole history of
its connection: `out` is every frame handed to it, of which the first `sent` are
with the kernel (the rest is `_tx_queue`) and the first `read` with the peer.
`buf` is `pre_ack_buffer`, `wm` `replay_watermark`, `lag` `lag_count`. `lo`,
`pos`, `end` and `base` record which rows its replay covers and where its live
rows begin; nothing but the replay step reads them.

| code | action |
|---|---|
| `emit`, `emit_batch`, `insert_event` | `Commit` (a stored `delivery_id` inserts nothing), then `Ring` or `RingLost` |
| `_ring_linux`, `Doorbell.accept_one` | `Ring` (blocks on a full backlog, no-op when nobody listens), `AcceptRing`, `AcceptRingTimeout` |
| `_on_doorbell_wake`, `_broadcast_pass`, `_fan_out` | `Wake` (drain first), `Select` / `SelectFails`, `FanOutRow` |
| `_handle_accept`, `_recv_subscribe_frame` | `Accept`, `HelloFails`, `RejectVersion` |
| `_read_subscribe` | `Subscribe` / `SnapshotFails`, `SendAck` / `AckFails`, `ResumeTask`, `ReplayRow`, `ReplayDone` / `ReplayFails`, `FlushRow`, `FlushDone` |
| `Subscriber.enqueue`, `_drain`, the lag check of each caller | `Enqueue` inside the action of its caller, `Drain`, `DrainError`, `EvictIfLagging` |
| `_heartbeat_loop` | `Heartbeat`, one step over the whole map |
| `_seed_cursor`, `_open_doorbell`, `run`, `_shutdown`, SIGKILL | `Boot`, `Open`, `Stop`, `Shutdown`, `Crash` |

Abstractions: a filter is the set of deliveries it accepts; event contents,
metrics, the byte cap of the pre-ack buffer (never reached before the frame cap)
and time-outs' durations are left out; a time-out is an action that may happen.
The send buffer holds `SNDBUF` frames; a frame is taken whole or not at all here,
and `SubscriberTx` opens that up.

### SubscriberTx and FrameChannel

`wire` is the sequence of bytes the kernel took, each as *(frame number, offset)*.
`send` takes any prefix that fits. `busy` marks a `_drain` callback in mid-loop.
`enqueue`'s three branches, the drain loop, the counter reset on a clean send or
an emptied queue, the reject at a frame boundary and the discarded queue on an
error are each an action or a branch of one. The refinement `ImplementsChannel`
maps the bytes to `FrameChannel`: what is through followed by what waits is one
FIFO, a frame becomes `sent` when its last byte is taken, and only closing may
drop the unsent tail.

`Transient` says whether the kernel may report an error the connection survives
(`ENOBUFS`, `ENOMEM`). It is FALSE in the run: see "Where the code disagrees".

### AsyncSubscribe

Matched events are numbered. The worker blocks in a put while the queue is full;
leaving the generator (end, exception, `break`, cancellation) shuts the socket,
starts the drainer and waits for the worker. Not modelled: a join that times
out, and a put that fails because the loop itself is gone.

### Resume

A row's place in `table` is its `seq`, the order the daemon sends in (that order
is what `Broadcast` checks). Its `event_id` is drawn before the insert takes the
write lock, so any order of ids is possible. A session loads the bookmark, reads
from the row after it, and ends or is killed in any state. Faithful sessions
write the bookmark (`Advance`) before `Decide`; coalesced ones collect, sort
(`Merge`), then `FlushEmit` and `FlushAdvance` per frame. The bookmark file is
replaced by rename, so a killed write leaves the old or the new id: `Kill`
before or after the step. The live tail of `coalesce_replay` is not modelled: no
command calls it.

### DockerWatch

The Engine is a log of messages with a clock in whole seconds; a request with
`since = s` is served those at or after second `s`, one without it what comes
later. The stream can be cut or end in any state. `WatchStopper.stop` is three
steps (flag, take the connection under its lock, shut it down) against the
watch thread's `_register` and `_clear`. The float power of the backoff
overflows at `FloatMaxExp` (1024 for a double, see `docker_retry`).

### FsDebounce

`Add` and the taking of a batch are atomic (the lock), `emit_batch` is a step of
its own off the lock that commits, raises, or outlasts the five-second join.
Left out: an observer whose own join times out (its callbacks only stat a file).


### Waiting

A call is a record of options (verb, filters, `all_of`/`any_of` clauses, deadline);
the daemon writes frames, pieces of frames and heartbeats, and closes or rejects.
`CheckBudget`, `SelectReady`/`SelectTimesOut`, `ReadEvent`, `ReadControl` and
`ReadEnd` are the loop of `await_predicate`; `Update` and `Decides` the decide
functions; `Finish` the outcome table with its exit codes. Time is what is left
of the deadline (`remaining`), and passes between any two steps. The read of a
frame that has begun (`stage = "frame"`) waits for its rest without a limit, as
`sync_read_frame` does; the deadline is looked at between frames only.

### OnCommand

A command is a group of a leader and a helper it started; both may ignore
SIGTERM. A spawn is `WriteFile` (the event file), `Popen` and `Bind` (the
assignment of `running`), three steps because a signal handler raises between
any two statements; `WriteFails` and `SpawnFails` are its two errors, of which only
the second unlinks the file. `SendTerm`, `GraceEnds`, `Kill` and `Unlink` are
`terminate_and_cleanup`. `struck` and `cut` record where a raise fell. The wait for a
match is one action; `Waiting` opens it up.

### Messaging

`messages` is the table in seq order. `Request` is everything up to the emit,
whose `delivery_id` makes a repeated one the row that is there; `Subscribe` and
`ReadFrame` are `_await_reply`; `GivesUp` the deadline and the dropped
connection; `Crash` the death of the caller between any two.

### McpTail and McpPush

`McpTail`: an agent pages through a lane with the `next_cursor` of the call
before (`Call`, `Return`), or parks on a subscription (`Subscribe`, `Frame`,
`Expire`, `Reread`), while rows are committed and pruned. `McpPush`: `Connect`
begins after the last row or, with `since` configured, at the first, on every
reconnect again. A frame (of a run, an agent's message, the stub of an oversized
event, or the daemon's reject) is numbered by its reading, so a replayed event is a
frame of its own. `ReadFrame` and `ReadReject` make the notifications it calls for;
`EmitChannel` and `Ping` send or queue one each (the awaits of the task), `Flush` is one
turn of `_flush_pending`, which gives way to the task in between.

### Polling and PrMonitor

`Polling`: `FetchRuns`, `UpsertRuns`, `ListRuns`, `FetchJobs`, `UpsertJobs`,
`EmitStalls`, `SaveState` in the order of `main`, each of which a kill or a failed
request may follow (`Abort`). An ETag is the content it was served with, so
that a 304 is exactly "what I have is still there". Retries with Retry-After
are an answer that comes late or not at all. `PrMonitor`: a pass over the pull
requests is `TickBegins`, one `Look` for each of them (its own SELECT, no
transaction around them) and `TickEnds`; producers store rows between any two.
A `gh` may fail for each. `during` records the tables there were during the pass.

### Store

Processes run one command each, one SQL transaction at a time. `BeginTx` and
`BusyTx` are BEGIN IMMEDIATE with its retries, `Commit` and `Rollback` its ends;
`CommitSchema` (`ensure_schema`), `MarkBaseline` (`init`), `Plan` and `ApplyOne`
(`apply_pending`), `Doom`, `Delete`, `Copy`, `Replace` (`db prune`, with and without
`--vacuum`), `Seed` and `Sweep` (the daemon's cursor). A table is one of four
shapes: none, an earlier release's, all columns but keyed by `delivery_id`, and
today's. A kill rolls an open transaction back.

### Ingress

A request carries its first flaw, if any, and `Refuse` answers what the first gate that
finds it answers; `InsertEvent`, `Ring` and the answer are three steps of the
request's thread. The pytest part records outcomes per process (the controller
hears of all), then `Finish` decides the stand-down and `EmitBatch` and
`RingBatch` store and ring. `numprocesses` is the option `_is_xdist_controller`
asks for: false in a run distributed by `-d` or `--tx` alone, where the controller
does not stand down. `Dies` kills a process, or fails its batch, at any point.

### Serve

`sup` holds for each supervisor where it is, what its daemon task is doing, which
threads run and the code it will return. `Launch` probes; `Bind` unlinks
whatever is at the path and binds; `RunEnds`, `StopPolls`, `JoinsEnd`, `BusJoined` or
`BusTimesOut` and `Leave` are the teardown in its order, each bounded as in the code:
past its five seconds the daemon is cancelled, with its file in place, and the code
kept. `early` is a SIGINT before the supervisor's own handlers: `asyncio.run` answers
it, with or without a daemon, and the exit code is 0.

### Registry and Watchdog

`Registry`: a process discovers (`Discover`, `Consider`, which loads the wheel that
is there by then, `Found`), decides by what it read
of the file (`EnforceTofu`, no lock) and pins under the lock (`Pin`), where the
file is read again. The operator's `Add`, `Remove`, `Repair` are split at their reads.
A wheel is who signed it, its event types and its first flaw. `Watchdog`: `Query`,
`Bootstrap`, `Fresh` or `Stale`, `NotifySend`, with a kill between any two.

### Stress and Soak

`Stress`: windows of drivers, each with a daemon; a driver imports, subscribes since
the anchor, wakes, calls its model, stores its reaction and prints it, and may die in
any of these; `Collect` reads what was printed, `Judge` gives the exit code.

`Soak`: the smoke pre-phase with a throwaway daemon, then the measured run, each
a spawn and a finally clause (`Sigterm`, then `Reap` or `Sigkill`); in between the
loop of emits, samples, probes and suspends. `OpenProgress` is the open that lies
between the spawn and the `try`. What keeps the harness from its teardown is
`OpenFails`, `Interrupted` (a Ctrl-C in the finally clause) and `Killed`; an error or an
interrupt before it is `Raises`. A daemon is `boot`, `up`, `stopped` (suspended), `ending`
or gone; it may die at any time, and one whose harness is gone reads EOF on its
pipe (`DaemonReadsEof`). Assumed: `proc.pid` leads the daemon's group (the
launcher `uv` execs or forwards).


## 3. Runs

| run | instance | states | shows |
|---|---|---|---|
| `feed` | 1 subscriber, 3 deliveries, batches of 2, SWEEP 2, REPLAY 2, LAG 2, pre-ack 1, send buffer 1, backlog 1, 1 heartbeat, every fault | 1.5 M | exact, ordered, acked, bounded feed |
| `two_subscribers` | 2 subscribers, 2 deliveries, SWEEP 1, REPLAY 1 | 0.7 M | evicting one costs the other nothing |
| `liveness` | 1 subscriber, 2 deliveries, SWEEP 1, no crash | 61 k | a ring is answered, a handshake ends |
| `sources` | fs: 3 saves, 4 notifications. docker: 3 messages, 2 seconds, exponent limit 1. monitor: 2 pull requests, 2 commits, 3 rows. tx: 4 frames of 1 and 3 bytes, reject of 2, buffer of 2, LAG 3 | 0.6 M | no save and no exit lost, stop works, no early verdict; whole frames, the channel refinement, a queue empties |
| `sdk` | async: 5 events, queue of 2. bookmark: 4 rows, 3 sessions, both modes. wait: 3 frames, all calls of `TheCalls` | 0.5 M | exact hand-off and teardown; faithful and coalesced resume; the answer is the first, a deadline ends |
| `programs` | on: 3 commands, 2 signals. messaging: 2 agents, 2 correlation ids, 3 rows, 2 attempts. tail: pages of 1, 3 rows, 3 calls. push: queue of 2, 2 events, 3 frames read, 2 requests. poll: 2 runs, 3 changes. stress: 2 windows of 2 drivers. soak: 3 emits, 2 cycles | 2.5 M | one command at a time; safe retries; exact inbox; no silent loss; no ETag ahead; earned verdicts, no daemon left |
| `operations` | store: 2 processes, 2 rows, 3 commands. serve: 2 supervisors. listener: 2 deliveries, 2 threads, 3 sends. pytest: 2 workers, a controller, with and without `-n`. plugins: 1 name, 4 wheels, 2 publishers, a daemon, a verb, an operator. watchdog: clock to 4, 1 kill | 2.0 M | migrated once, nothing stranded; exit code and socket; no silent row; one row per outcome; pins; one announcement |

Properties of different parts say nothing of each other: a part that stands
still satisfies its own in its initial state, and its next-state relation is
explored by the behaviours that picked it.

Some properties are named conjunctions of the parts they are made of, which the
modules define and comment one by one: `YieldsTheStream` and `IterationEnds`
(`AsyncSubscribe`), `FaithfulResume` and `CoalescedResume` (`Resume`),
`WireIsExact` (`SubscriberTx`), `RequestsAreSafe` (`Messaging`), `InboxIsExact`
(`McpTail`), `PinsAreTrust` (`Registry`).

Why the bounds are enough. Each limit is set to the smallest value at which both
sides of it occur: `SWEEP_LIMIT` and `REPLAY_LIMIT` below the number of rows, so
that a pass and a replay are cut; a pre-ack buffer of one frame, so that it
overflows; a send buffer of one frame and a lag limit of two, so that a queue
forms, empties, and trips the limit; a backlog of one, so that rings coalesce and
producers block. Three deliveries are one below, one inside and one above a
snapshot. Two subscribers are enough for one to be evicted in the same row the
other is owed. `tx` has frames shorter and longer than the space left, so that a
send is partial at the first and at a later byte. `async` sends more than twice
the queue's size. `bookmark` has rows of one entity, of none, ids in every order,
and two kills before a last session. `docker` has messages that share the second
of the cursor. `wait` has enough frames for the clauses of `all_of` to be met in
any order with one that meets none. `on` restarts twice, so that the end of a
command meets the termination of it and the spawn of the next. `tail` needs a
page that is full, one that is empty and a row of another lane; `push` queues more
notifications than fit, and reads an event twice. `monitor` has two pull requests, which may share a
head, so that a row falls between the looks of one pass. `poll` has one run whose job is polled while the other changes.
`store` has two commands beside a daemon or a producer, enough for any two
of them to race and for one to die. Three sends of two deliveries are a
redelivery and another. The plugin part has one name and two publishers: pins of
different names never meet but in the file, which is rewritten as a whole.
Two windows let one count what is the other's. Bounds that only make the space
finite: `MaxBatch`, `MaxBeats`, `MaxFrames`, `MaxEvents`, `MaxRows`,
`MaxSessions`, `MaxRead`, `MaxSec`, `MaxNotices`, `MaxCommands`, `MaxSignals`,
`MaxAttempts`, `MaxCalls`, `MaxRequests`, `MaxChanges`, `MaxStarts`,
`MaxLaunches`, `MaxTicks`, `MaxSends`, `MaxWalks`, `MaxInstalls`, `MaxEdits`,
`MaxTime`, `MaxKills`, `MaxEmits`, `MaxCycles`, and `Event` itself (each delivery
is stored once).

Symmetry is used in `feed` and `two_subscribers`, over the subscribers and over
the two deliveries every filter treats alike, and in no run with a liveness
property. Deadlock checking is off where the system really stops (a watch that
is over, a generator that is gone, a run that has its verdict, no session left)
and where a bound ends the behaviour; the daemon's safety runs check it.

### Fairness

* *Daemon.* asyncio polls all ready descriptors each turn, so a callback that
  holds the loop goes on (weak fairness) and one that keeps becoming ready gets
  the idle loop (strong fairness: other callbacks take the loop in between). A
  producer that committed rings, the accept-thread accepts, a peer reads. What
  loses a ring (`RingLost`, `AcceptRingTimeout`, `SelectFails`) or ends the
  daemon is left out of the live specification's next-state relation: with it
  the properties are false, and the code promises nothing there. No fairness for
  new producers or new connections.
* *SubscriberTx.* `SF` for the writability callback of a level-triggered selector,
  `WF` for its loop and for the peer.
* *AsyncSubscribe.* The worker, the loop and the drainer go on; nothing is asked
  of the daemon or of the body of the consumer's loop.
* *Waiting.* The consumer's process goes on and time passes. Nothing is asked of the
  daemon, which may leave a frame half-written for ever (suspended, or blocked
  between two sends). `DeadlineEnds` says that this alone can hold a wait past its deadline.
* *DockerWatch.* Both threads go on; the Engine never has to answer.
* *FsDebounce.* Both threads go on; nobody has to stop the watch.
* *Ingress, Serve.* A process that runs goes on. No property of the runs rests on it:
  what they check of these two is safety.


## 4. Where the code disagrees

With a run each (`expect: violation`), at the place named in `findings`:

* `sweep_stall`: a pass takes at most `SWEEP_LIMIT` rows and does not ring again;
  a larger batch rings once. The tail waits for an unrelated ring, not for "at
  most one ring cycle".
* `replay_gap`: the replay is capped at `REPLAY_LIMIT`, the watermark is the
  uncapped snapshot; the rows in between come from neither.
* `orphan`: the snapshot query runs outside the `try` and after registration; a
  database error there leaves a subscriber in the map that is neither acked nor
  closed.
* `docker_retry`: `2.0 ** (attempt - 1)` is computed before it is capped and
  overflows after 1024 drops in a row, so the watch ends instead of retrying (the
  instance lowers the exponent).
* `baseline`: `init` records migration 0002 as applied on a database of an
  earlier release that never had it, and `db migrate` then skips it for good.

Stated in a module, refuted by TLC when put into the cfg of its part, and not
kept as a run:

* `Store.SeqNeverReused`. `schema.sql` says a `seq` is never reused; migration 0002
  numbers anew and `db prune --vacuum` swaps in an older counter.
* `Ingress.SigtermTearsDown`. `main` of the listener promises a clean teardown on
  SIGTERM; the handler runs on top of `serve_forever` in the main thread, and
  `shutdown` waits there for the loop it interrupted.
* `OnCommand.NeverOrphaned`. A signal between `Popen` and the assignment of
  `running`, or one in the last termination itself, leaves the command alive.
  (Its event file is left also by a signal between the file's writing and
  `Popen`, or a write that fails half way; `OneCommandAtATime` names each case.)
* `Waiting.DeadlineIsSelfEnforced`. `_broadcast_sub.py:518` calls the deadline of
  `await_predicate` self-enforced and :523, with `mcp.py:805`, the worker guaranteed to end by it.
  The budget is checked between frames; `sync_read_frame` reads the rest of one
  that has begun with no limit, so a half-written frame holds the wait (and, in the
  MCP server, a worker thread) for as long as the connection stands.
* `Waiting.ExitOneIsAFailure`. `wait.py` reads exit 1 as a failed run; a rejected
  subscription exits 1 as well.
* `Registry.RepairKeepsPins`. `allowlist repair` loads before it takes the lock, so a
  pin made in between is written away.
* `Ingress.WorkersAreTheSource`. `_is_xdist_controller` says that the controller stands
  down, so that each outcome is written by its worker alone. It asks for
  `numprocesses`, which a run distributed by `-d` or `--tx` has not: there the
  controller emits every forwarded report under a session of its own, and an outcome is two rows.
* `Soak.NoneStranded`. `_harness.py:1106-1108` relies on the pipe to end a daemon
  whose harness died by any means. A suspended daemon does not read: a harness
  that is killed, or interrupted twice, between SIGSTOP and SIGCONT leaves it for good.
* `Soak.LossIsAFailure`. The emits since a suspend are counted as
  `emit_count - pre_emit_count`, always 0, so a lost event is never one.

Met while modelling; the properties state what holds instead:

* A row committed while no daemon runs lies below the cursor `_seed_cursor`
  picks; `_doorbell.py` says the next boot catches it up.
* A heartbeat tick between registration and ack goes out before the
  `subscribe_ack`, which `CONSUMER_API.md` calls the first frame on the wire.
* `_drain` discards the queue on any `OSError`. If the connection survives the
  error, the next frame is written in the middle of the half-sent one
  (`Transient = TRUE` in `SubscriberTx` shows it as a violation of `WholeFrames`).
* A second cancellation of a task that leaves `asubscribe` drops the drainer and
  may leave the worker blocked; `IterationEnds` allows for it.
* A batch whose `emit_batch` raises in the flush thread of `fs_watch` is gone and the
  thread with it; `SavesSurviveStop` allows for it.
* Without an initial `since`, a Docker stream that breaks before its first message
  reconnects without a cursor; `WindowIsReplayed` starts at the first message the
  cursor knows. A clean end of the stream without `until` reconnects although
  `watch`'s docstring says it returns.
* The bookmark is written before `decide`, so a kill in between costs one frame
  although the docs speak of the last consumed event; `LossIsBounded` is what
  holds.
* A coalesced flush goes in event_id order while resumption goes by seq. With two
  producers the two differ and a kill in mid-flush skips frames;
  `UnflushedIsRepulledInOrder` has the condition under which the docstring is right.
* A kill between emit and advance, followed by a backlog cut short, reports an
  older state of an entity; `NoEntityRegresses` excludes kills.
* GitHub polling: the jobs of a run that completes between two polls are never
  polled again, so an open job row stays and is reported as stalled; a rerun reuses the
  delivery ids of the first run and stores nothing.
* `pr_monitor` is described as push-driven, but its predicate never matches, so it
  looks only when its 60-second wait runs out.
* MCP: the flush before `initialized` gives way to direct sends, so a later
  notification overtakes queued ones although the queue is called FIFO; events
  during a disconnect are not announced; a process that has not discovered a
  plugin is not woken by its types; the empty batch's cursor is the one that
  was passed, where the model's doc says null. The overflow marker that
  `_mcp_subscriptions.py:6-7` promises is a channel notification, so a client that did not
  negotiate the channel is never told of a loss; `NothingLostSilently` says what
  it lacks. `waitbus://current` (:24, "matches every frame") is not pinged for the
  stub of an oversized event nor for an agent's message.
* Messaging: replies are matched by correlation id and recipient, not by kind: two agents
  that request of each other under one id take each other's request for a reply.
  `Owner` in the module is the premise under which ids answer.
* Registry: a corrupt allowlist is announced as "registered without pin", but an
  attested wheel is then skipped, an unattested one registered; the message says to
  run `allowlist repair`, which refuses a file it cannot parse; `source list` pins
  publishers as a side effect.
* Watchdog: a check killed between touching the flag and notifying leaves an
  outage nobody is told of; a heartbeat from the future counts as fresh.
* Store: a process whose snapshot of the columns is stale adds one a second time and
  fails; a vacuum swap loses what was committed meanwhile, a migration included.
* Serve: `_run_serve` returns "0 on a clean stop, 1 when the broadcast daemon died with
  an exception". 0 is also what a SIGINT before the handlers makes of a start that
  had no daemon, or one that raised, and what a daemon cancelled five seconds into its
  shutdown leaves; `ExitCodeTellsTheBus` names both.
* Serve: a daemon that ends unlinks the path even if another has bound it since;
  a tick's thread that outlives its await is joined without a bound when the loop
  closes.
* Stress: a point counts as proven only if every framework reacted, so a window of
  fewer drivers than frameworks never is, against its docstring; a driver's nonzero
  exit does not matter if its output was clean.
* Soak: a run that ends early can still exit 0 when every probe had run. The progress log is
  opened after the spawn and before the `try` although the comment above it
  (`scripts/soak/_main.py:605-608`) says that every operation after the spawn is inside; the
  daemon of a failed open ends by its pipe. `_harness.py:161-166` says that a daemon
  which outlives SIGKILL surfaces as `TimeoutExpired`, which `terminate_daemon_group`
  suppresses.


## 5. Proofs

Every invariant and action property of the passing runs is also a theorem of
its component's specification, for any sets of processes, rows, messages or
names and any length of the behaviour. A module with proofs extends the
component modules themselves, as the MC modules do, so a run and a theorem speak of the
same definitions. What a theorem supposes of the constants is named: an
`ASSUME` in the component's module, which TLC evaluates on each run, or a
hypothesis of the theorem. Each proof finds an inductive invariant (`Init`
establishes it, every action keeps it, it implies the property), with one step
per action. Below: why each property is not inductive as it stands, and
what closes the gap.

| module | components | theorems |
|---|---|---|
| `BroadcastProofs` | `Broadcast` | `TypeCorrect`, `FeedIsOrdered`, `Invariance` |
| `BroadcastFeedProofs` | `Broadcast` | `AckComesFirst`, `BacklogIsBounded`, `FeedIsExact` |
| `SubscriberTxProofs` | `SubscriberTx`, `FrameChannel` | `WireIsAlwaysExact`, `SubscriberIsAChannel` |
| `SourcesProofs` | `FsDebounce`, `DockerWatch`, `PrMonitor` | `SavesAccounted`, `StopKeepsSaves`, `ExitsAreReplayed`, `DoneMeansDecided` |
| `SdkProofs` | `AsyncSubscribe`, `Resume`, `Waiting` | `IterationIsTheStream`, `BookmarkResumes`, `CoalescingResumes`, `FirstAnswerEnds` |
| `ClientProofs` | `Messaging`, `McpTail`, `McpPush` | `RequestsAreAnswered`, `TailInvariant`, `InboxIsRead`, `PushInvariant`, `LossIsTold` |
| `ProgramsProofs` | `Polling`, `OnCommand`, `Soak`, `Stress` | `NeverAhead`, `OneAtATime`, `NoneOutlivesTheSoak`, `EveryDriverGetsTheSeed`, `PassesAreEarned` |
| `OperationsProofs` | `Serve`, `Watchdog`, `Store`, `Ingress`, `Registry` | `ZeroMeansStopped`, `StrandedKnewTheWindow`, `AnnouncedOnce`, `MigrationsRunOnce`, `OwedRowsAreAhead`, `NoSilentRow`, `OneRowEach`, `PinsAreKept` |

### The daemon's feed

`BroadcastProofs` proves, for any sets of events, producers, subscribers and
filters and any positive limits (`LimitsAssumption`, `FilterAssumption`; `Event`
and `Sub` need not be finite), that no subscriber is ever handed a row twice or
out of order, by the replay, the pre-ack buffer or the fan-out
(`NoDuplicateInSeqOrder`). The property does not say why the next row a
writer hands over is above everything handed before. `IInv` is `TypeOK`,
`LoopInv` and `RecInv` for every subscriber.

* `LoopInv`: cursor and sweepEnd stay within the table; a running pass has rows
  left; a subscriber that replays or flushes does so while a subscribe task holds
  the loop, and at most one subscriber does.
* `RecInv` has three parts. `WindowInv`: how the watermark, the replay window
  `lo <= pos <= end`, `base` and the cursor relate in each phase. `RangeInv`:
  every row handed so far lies in the part of the replay window already done or in
  the live range above `base` and at or below the cursor, only in the former until
  the flush begins, and rows in `buf` lie in the live range. `InOrder`: the conclusion itself.

Every action either leaves a record's rows alone, or hands over one row that is
above all rows `RangeInv` allows at that moment; the watermark skips exactly
those it is not above. Each helper (`Enqueue`, `CloseSubscriber`, `FanOutTo`) has
a lemma about one record, so the step proof per action is about which records
change and how the window moves.

`BroadcastFeedProofs` adds two invariants on top of `IInv`.

* `WInv`, for `EventsFollowAck` and `BoundedBacklog`: before the ack there are only
  heartbeats; from then on, the ack is among the frames the kernel took; a
  reject only on a closed connection, as its last frame; and the queue is no
  longer than the lag counter, which stands at the limit only for a peer
  that is dead and has nothing queued.
* `FInv`, for `ExactFeed`. That nothing is handed over twice does not say that
  nothing is missed. `FInv` says, phase by phase, that the rows a registered
  subscriber was handed, or holds in its pre-ack buffer, are all the rows it wants
  of the replay window done so far and of the live range. `DownInv` (no record
  outlives the daemon) is what makes the claim survive a crash: after it there is
  nobody to claim anything about.

### One subscriber's wire

`SubscriberTxProofs` works under `Limits`: frames have at least one byte, the
buffer and the lag limit are positive, and `Transient` is FALSE (with it TRUE
`WireIsExact` is false, see 4). `WholeFrames` speaks of the wire alone; the
invariant ties its end to the queue (`Meets`): with nothing queued the wire ends
with a whole frame, else the next byte it may take is the one the head of the
queue has next. This holds while the subscriber is open and its peer is there,
which is when something can be written. `Armed` says that a lag counter at the
limit means a dead peer, so nothing follows a frame that a failed send tore.

`SubscriberIsAChannel` is the refinement: the byte-level subscriber implements
`FrameChannel`, the bounded FIFO of whole frames. The channel's
`out` is what went through whole, in the order of its numbers, followed by the ids
of the queue. The lemma `Ranks` turns the set of frames that went through into a
sequence; the invariant says that they all come before what waits. Each action of
the byte level is then one step of the channel (`Pass`, `Wait`, `Flush`, `Fail`
or `Close`) or a stutter (a partial send of what already waits, a read of the
peer, a callback armed or entered).

### Sources

* `FsDebounce` (`FsAssumption`): accounting (`SavesAreAccountedFor`) is inductive
  with the type invariant. For `SavesSurviveStop`, `StopInv` says what each stage of
  the stop has settled: after the observer's join nothing is added; from the join
  of the flush thread on, its stop flag keeps it from taking a batch; after the
  final flush the buffer is empty.
* `DockerWatch`: `WindowIsReplayed` is about the moment of a reconnect. `ClockInv`:
  the Engine's seconds do not go back and the cursor is not ahead of them.
  `StreamInv`: what the connection has still to serve is at or after the cursor, and so
  is the exit about to be stored, so a cursor that moves never passes an exit.
* `PrMonitor` (`MonitorAssumption`): `DoneIsDecided` is an action property;
  `MonitorInv` says that what was last printed is the state in hand, and that while a
  pass is still settled every pull request it has come past was reported from a table
  of this pass (`Reported`) that had it decided; the lemma `Decided`, that an
  aggregate which is neither pending nor empty has a failure or only successes.
  Rows may land between two looks, so each pull request has a table of its own, and the
  theorem does not say that all were decided at one moment.

### The SDK

* `AsyncSubscribe`: `YieldsTheStream` says that yielded, queued and in hand
  together are the events read. The sentinels pass through the same queue, so the
  property alone does not tell what may follow the events. `HandInv`: behind them comes
  only what tells how the stream ended, once it has and as it did; until then
  the worker has handed over exactly what it read.
* `Resume` (`ResumeAssumption`), both modes. Faithful: the bookmark is the last
  frame taken, and what was emitted lies at or below it, below it while a frame is in
  hand, so a kill costs that frame at most. Coalesced: a flush
  emits by event_id, not in stream order, and a kill may come between an emit and
  the bookmark. `Covers`: each row the session read is stood for by a collected row
  of its entity that is no older. `FlushInv`: what is collected was emitted or is
  still to come, in event_id order. From these, when ids are in order, every row
  at or below the bookmark was emitted, or a later one of its entity was or is
  still to be read (`Repulled`); that this holds of every such row, not only of
  the bookmark's own, is what makes it inductive. `OutputInv`: without kills the
  output ascends. That an order by event_id exists (`MergeExists`) is shown by
  ranks, not by induction.
* `Waiting` (`WaitingAssumption`): `AnswerIsFirst`. `Tracked`: the tracker of an
  all-of holds exactly the clauses some frame read so far satisfied, which makes
  the frame that completes it the first that does.

### Clients

* `Messaging`: `RequestsAreSafe`. `UniqueInv`: a delivery id is one row, so a retried
  request is the row it was. `CausedInv`: a reply follows its request. `CallInv`: the
  watermark of a call is its own request's row, wherever the call was killed
  and tried again, so nothing above it answers an earlier request.
* `McpTail` (`TailAssumption`: a page is not empty, the default lane has a type
  to show, lanes are not types): `InboxIsExact`. `Covered`: what lies up to the cursor
  was returned or pruned. `Watching`: a parked call's stream starts no later than
  the first row it waits for. `Woken`: a woken call has a row to return, or it was
  pruned.
* `McpPush` (`PushAssumption`): `NothingLostSilently`. Every notification that was
  due is in hand, queued, sent, or missing; `InHand` and `Once` keep them apart and
  each in its place once, whatever is replayed. `Told`: what is missing was for the
  channel of a client that did not negotiate it, or the overflow flag or the marker
  tells of it; those tell only when something is missing, and the marker only a
  client that negotiated.

### Programs

* `Polling`: `EtagNeverAhead` for any runs and jobs, failures, rate limits and kills.
  `ExistsInv`: what the listing names, a poll waits for or an answer carries has
  existed, and what existed never goes back to absent. Hypothesis
  `"listing" \notin Runs`: the listing's ETag has a key of its own.
* `OnCommand`: `OneCommandAtATime`. `RestartInv` says at each statement what is left of
  the commands: none of an earlier one, ever; of the last one nothing before the
  next is spawned; and which raise left a command without `running`, or an event file
  without a command. A signal that cuts the last termination short is excepted.
* `Soak`: `NoDaemonLeft`. `SoakInv` says where a suspended daemon may be: between
  SIGSTOP and SIGCONT, in a teardown that follows an error or an interrupt, or with a harness
  that was killed or interrupted again. So a harness that comes to a verdict leaves nothing,
  and one that is cut off for any other reason leaves at most a daemon that can still read its pipe.
* `Stress` (`StressAssumption`: a sweep and a framework order that are not empty):
  `SeedIsForEveryDriver` rests on `Anchored` (every driver started remembers a
  ledger from before the window's seed) and `Unseeded`; `PassIsEarned` on `AllGone`
  (between windows no driver is left that could count for the next), `Marked` and `Earned`.

### Operations

* `Serve`: `ExitCodeTellsTheBus` and `StrandedOnlyInAWindow` for any number of supervisors,
  launches and ticks. `ExitInv` carries the code 0, of a supervisor that no early SIGINT
  struck, from the stop to the join of the bus, done or cancelled, and the exit. `WindowInv`: whoever is up while another may still bind or unlink bound in
  that one's window or has lost the file already. A launch keeps it because its
  probe found nobody, and a daemon that is up and not found has lost its file.
  Hypothesis `None \notin Supervisors`: no socket file is nobody's.
* `Watchdog`: `OutageIsAnnouncedOnce`, with kills between any two steps. `FlagInv`: while
  the flag is down nothing was announced or swallowed since it went down, and
  the same holds, with the flag up, of a check that is about to notify.
* `Store` (`StoreAssumption`): `MigratedOnce` and `NothingIsStranded`. `Ordered`: who
  applies migrations has them in order and on a tracking table, so each ran
  once and left its table (`OnceEach`); `ServedOK`: a daemon serves a numbered table
  and is not ahead of its numbers, so what is inserted under it is above its cursor.
  Both properties except a store that `db prune --vacuum` has swapped (a run shows what
  happens to it, see 4), and so does the invariant.
* `Ingress` (`IngressAssumption`): `NothingIsSilent`. `Rings`: if a row was stored since
  the last ring, some thread or test process is between its commit and its ring,
  or one was killed there. `OneRowPerOutcome`: `OfTheRun`, given `-n` the
  controller never commits and every row is of the workers' one session; `Complete`, a worker that has
  committed left no row out.
* `Registry` (`RegistryAssumption`): `PinsAreTrust`. `CommandInv`: a repair holds an
  allowlist it could parse, an `add` a name and its publisher; `ProcessInv`: a host about
  to pin has a verified publisher. What a repair takes back of pins appended while
  it works is recorded apart (`undone`, see 4): the theorem is about the others.

### Model-checked only

* Liveness, which needs fairness and ENABLED: `RingIsAnswered`, `SubscribeCompletes`,
  `SavesReachTheTable`, `StopEnds`, `QueueFlushes`, `IterationEnds`, `DeadlineEnds`.
* The five runs that expect a violation: a counterexample is an instance.

The library's induction theorems take an operator as a parameter, which the
provers cannot instantiate. Where an argument needs the least or the next
element of a set, it is taken from the well-foundedness of the naturals
(`LeastNatural`), and sequences in a given order are built from ranks.


## 6. Not modelled

* *Command line, rendering, installation, demos* (`cli/main.py`, `cli/_shared.py`,
  `cli/install`, `cli/demo.py`): arguments and text, no state of their own. The few helpers of
  `_shared` that decide something are part of the commands that call them.
* *Metrics, statistics, queries* (`_metrics.py`, `stats.py`, `events_query.py`,
  `events_analyze.py`, `read_events.py`): they only read. The one counter with a
  subtle boundary, `events_delivered_total`, is `DeliveredIsExact`.
* *`scripts/derive_gh_distributions.py` and other scripts*: numerics over a
  download; nothing runs beside it.
* *Benchmarks, adapters, examples*: measurement and integration around the system.
* *Encodings*: JSON, frame lengths, HMAC, ULIDs, attestation signatures, TOML
  validation. Each is a value of a small set where a decision depends on it.
* *Inside a component*: two overlapping watchdog checks; a probe against a full
  backlog; the byte cap of the pre-ack buffer; the live tail of `coalesce_replay`, which no
  command calls; a row a prune deletes while `emit` reads it back; the
  worker xdist starts in place of a dead one; the model calls of the stress drivers' frameworks.
