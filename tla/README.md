# A verification of daemon-framework

TLA+ models of the Rust workspace in `src/`, TLC runs that check them on small
instances, and proofs checked by TLAPS for every instance. Module names and
definitions follow the source; `PROJECT.json` maps each definition to its lines.

`T` stands for `src/crates/shelllist-daemon-tokio/src`, `C` for
`src/crates/shelllist-daemon-core/src`, `H` for `src/crates/shelllist-hyprland/src`,
`L` for `src/crates/shelllist-local-build/src`.

## 1. The system

The framework is the common ground of several desktop daemons. A daemon serves
calls over D-Bus or over a private Unix socket; a bridge process (`jsonl.rs`) turns
JSON lines on stdin/stdout into D-Bus calls. Everything is asynchronous on Tokio;
the hard parts are tasks, channels, locks and deadlines, not data.

```
 stdin/socket -> Frames -> request loop -> slots -> call tasks ---+
                                                                  | priority lane
 D-Bus / service -> event forwarder ---------- event lane ----> output actor -> writer
 D-Bus callers -> ServiceBoundary -> worker + encoder
               -> OwnedTaskRegistry (ids, owners) <- OwnerLossMonitor <- bus
 synchronous work -> BlockingLane -> dispatcher -> thread pool
```

| Component | State | Operations | What is hard | What makes it correct |
|---|---|---|---|---|
| Output actor (`T/output_actor.rs`) | two bounded lanes; active ids with routes, early events, history of cancelled ids | send on a lane; take a command or an event; acknowledge and release; cancel; reset; query; write | an event overtakes its acknowledgement; cancellations overtake events; the history is bounded; a write can fail between any two lines | per id: nothing before the acknowledgement, order kept, no gap, nothing after the end; tables agree with what the reader was told |
| Owned tasks (`T/subscription.rs`, `C/operation.rs`) | table id -> (owner, worker generation) under a mutex; closed flag; the workers | spawn, cancel, shutdown, Drop; a worker's start, end, abort, cleanup | an id is used again before the old worker has cleaned up; abort before start; concurrent shutdowns | no worker escapes; limits bound what runs; one winner per entry; shutdown joins; owner loss ends a worker |
| Blocking lane (`T/blocking.rs`) | channel, permits, activity count with notification, closed flag, shutdown signal, dispatcher handle | submit, dispatch, run, answer, shutdown with deadline, Drop | jobs cannot be cancelled; a deadline may pass at any step; several shutdowns | permits conserved; every accepted call answered; the shutdown report hides nothing |
| Service boundary (`T/service.rs`) | two semaphores, usage per owner and per method | call, raw, subscribe, cancel, run, encode | a deadline or a lost waiter while work or the encoder goes on | capacity is held exactly as long as work goes on |
| Owner-loss monitor (`T/owner.rs`) | lazily started signal task, broadcast(64), stopped flag | wait, has_owner, subscribe, recv | check/wait race, lag, termination | a wait ends if its owner leaves or cannot be watched |
| Socket server (`T/socket.rs`, `socket/writer.rs`) | per connection: session, slots, call tasks, detached work, output actor | accept, read, dispatch, drain, disconnect | detached work outlives its connection; disconnect cleanup may be aborted; write deadline | `disconnected` follows all work of the session; permits bound work |
| Socket path (`T/socket/path.rs`) | lock file, socket file | bind, unlink on Drop | stale files after a crash, several starters, a stranger in the gap between a look at the path and its use | one binder; a live listener's socket is kept |
| JSONL bridge (`T/jsonl.rs`) | current client, readiness, last error, call tasks, slots | request loop, forwarder, owner watcher, release, drain, cancel on exit | reconnection under running calls; two tasks reset and invalidate | a lost connection is announced; subscriptions wait for readiness; calls are never replayed |
| Framing (`T/jsonl_input.rs`) | prefix of the record, oversized flag | next | chunking, CRLF at the limit | records are independent of chunking; no suffix of an oversized record is a record |
| Staged files and state (`C/file.rs`, `C/state.rs`, `T/file.rs`) | temporary, destination | write, sync, rename, sync parent | crash at every step | old or new contents, never a mixture |
| Resume detection (`T/resume.rs`) | last offset, reported flag | poll, signal | two sources for one resume | one announcement per resume |
| Watches (`C/watch.rs`) | retry time, delay, healthy since; path plan | started, failed, plan | repeated construct/fail cycles | the penalty is kept until a healthy interval |
| Task group, forwarding (`T/task.rs`, `T/forward.rs`, `T/event.rs`) | handles, gate | spawn, abort, shutdown, forward | spawn racing with shutdown, lag | nothing is spawned after the gate closes |
| Recent results (`C/operation.rs`) | queue of results with times | record, get, prune | replacement and expiry order | newest per id, bounded |
| Hyprland (`H/lib.rs`, `monitor.rs`, `preferences.rs`, `work_area.rs`) | the sockets of several instances; a watcher and its channel; replies about monitors, windows and rules | request, exact request, event stream, work areas | sockets come and go between check and connection; a connection breaks after the command; geometry in four directions | a command is executed once at most, by the right instance; the stream is in order; areas do not depend on how a layout is said |
| Local build (`L`) | definitions, captured copies, overrides, a lock | preflight, capture, lock, prune | overlays on nested inputs; edits while the graph is walked; follows in circles | every local edge gets the one captured copy; what preflight passes can be built; a pruned lock is closed |
| Wire types, protocol generator, D-Bus client | none | - | - | data types and thin calls |

Interaction: the request loop, call tasks, event forwarder and owner watcher of a
connection all talk to one output actor through its lanes and learn ids back by
queries; sessions hand workers to `OwnedTaskRegistry::spawn_until` with a future
that ends them; the registry watches owners through the monitor; blocking domain
work goes through `BlockingLane`, admitted D-Bus work through `ServiceBoundary`.

## 2. What is built

Twenty-two component modules, eight modules of proofs, five modules of small
instances, twelve configurations. All components of the table are modelled except the
last line; four are modelled in part, and section 7 says which part.

Two modules of proofs are about one component: `OutputActorProofs` and
`ServiceBoundaryProofs`. Six are about several, each with an invariant of its own:
`WorkProofs` (`OwnedTasks`, `BlockingLane`), `ConnectionsProofs` (`SocketConnection`,
`Bridge`), `LifecycleProofs` (`OwnerLoss`, `TaskGroup`, `RecentResults`, `Frames`),
`FilesProofs` (`StagedFile`, `SocketPath`, `WatchPlan`, `WatchBackoff`),
`DesktopProofs` (`Resumes`, `Forwarding`, `HyprlandEvents`, `HyprlandRequest`,
`WorkAreas`) and `LocalBuildProofs` (`BuildGraph`, `PrunedLock`).

Possible next steps: `SocketConnection` over `OutputActor` itself instead of the lane it
shows to a connection.

### How modules share a run

Components that share no state are checked together: `MCWork`, `MCConnections`,
`MCFiles` and `MCDesktop` extend several of them, and a variable `part`, chosen at the
start, says which one moves in a behaviour; the others rest in an initial state. The
components do not know of each other; to be extended together their names are
distinct (`TasksNext`, `LaneNext`, `GroupNext`, ...). A property of a part that rests
holds of its initial state, so a bundle says about each part what a run of its own
would. In a bundle's specification a fairness condition that is enabled in an initial
state has `part = ...` as a conjunct, or the resting part would have to move.

Each component's invariants are stated one by one, with the code they are about, and
once more as a named conjunction ("Together: ..."), which the runs check.

## 3. Modules

### OutputActor, OrderedDelivery (`T/output_actor.rs`)

`state` is `OutputState` field by field: `active` (`active_ids`), `pending`
(`pending_events`, a set whose order is the events' numbers, since one FIFO lane
numbers them), `suppressed` and `order` (`suppressed_ids`, `suppressed_order`).
`Suppress`, `Cancelled`, `Activate`, `AcceptEvent` and `EventLine` are its methods,
as operators from state to state. `priority` and `events` are the two channels;
`SendCommand`, `SendEvent` and `DropHandles` are what callers do. The task takes one
command (`TakeResponse`, `TakeCancelled`, `TakeQuery`, `TakeReset`, `TakePlain`) or,
if none waits, one event (`TakeEvent`); the select is biased. Every line to be
written is in `line` until `WriteLine` or `WriteFails`, and the events an
acknowledgement releases are in `drain` until `DrainEvent` has accepted each anew,
so senders interleave with the middle of `emit_response`. `acked`, `ended` and
`delivered` are history variables: what the reader has been told.

An event is reduced to its number, the id the policy reads from it, the subscription
that addresses it and whether it is terminal; a response to the id it names, whether
that is a subscription, the id it cancels, and its route. `ResponseType` admits no
error reply that cancels, because no caller sends one.

`OrderedDelivery` is the promise without lanes, tables and limits: an event is taken
in from the lane, delivered in order behind its acknowledgement, or withdrawn by the
end of its id. Its lane holds the events themselves, so that a refusal is bound to the
event at its head: only one whose own id has ended, is not active and owes nothing may
be refused (`Refuse`); anything else that is lost stops the connection.
`DeliveryInOrder` instantiates it with the actor's `acked`, its `events` as the lane
and `Owed`, the events the actor has accepted and still owes. A mutant that drops the
event of a live id because another one, which addresses it, has ended is found.

### OwnedTasks (`T/subscription.rs`, `C/operation.rs`, `T/task.rs`)

`entry` and `task` are the table, `phase` where each worker's future is. A critical
section is one action (`Spawn`, `CancelOwned`, `Drain`, `DropRegistry`, `Cleanup`);
what follows the unlock is another: `SendStart` the start signal, `AbortNext`,
`AwaitAll` and `Return` the loop of `abort_and_join`. A worker is a generation and
is spawned once; ids are used again freely. `AbortLands` is the runtime dropping an
aborted future when it next schedules it, so an abort takes effect any time later, or
not at all if the worker is already past its last await. `claims` counts the
removals of a worker's entry (history). The owner monitor is two facts: owners leave
(`gone`), the monitor fails (`monitorDown`).

### BlockingLane (`T/blocking.rs`)

The dispatcher's poll is split where another thread can see a difference: `Acquire`
(a permit), `Poll` (the shutdown branch of the biased select is not ready), `Receive`
(a job leaves the channel), `Count` (`fetch_add`), `Launch` (`spawn_blocking`).
`Quit` is its end by the signal or by an abort, which can only land where it is
suspended; queued jobs and their reply senders go with the receiver. A job's thread
is `Begin`, `Finish` (the answer), `Release` (the permit), `Uncount` (`fetch_sub`)
and `Notify`, in the order in which the closure drops its captures. A caller of
`shutdown` goes through `Close`, `Signal`, `Join` or `JoinTimesOut`, the loop of
`wait_until_idle` (`Enable`, `Look`, `Wait`, `Wake`, `WaitTimesOut`) and `Report`;
`Abandon` drops its future. The closing of a runtime under its pool is left out.

### ServiceBoundary (`T/service.rs`)

`stage` is where a request's work is, which says what it holds, `waiter` what its
caller does; `free`, `owners` and `methods` are the counts of the code. `Enter` and
`Admit` are separate steps because `call_policy` takes a permit first and may give it
back. Work (`RunWork`) is a task; its encoder is a blocking job that cannot be
aborted and keeps permit and quotas until it is dropped, piece by piece, in the order
of its captures (`DropQuota`, `DropPermit`). A deadline or a dropped caller aborts a
read (`WorkAborted` lands when the task is next scheduled) and leaves an effect alone.
Sizes are outcomes.

### TaskGroup (`T/task.rs`), Forwarding (`T/forward.rs`)

`TaskGroup`: `handles` under its mutex, the `batch` each caller of shutdown has taken
out of it, workers whose cleanup may spawn again, futures of shutdown that are dropped
while they wait. `Forwarding`: `forward_watch` and `forward_broadcast` next to their
sources, step by step, with an emission that takes its time; channels are external.

### OwnerLoss (`T/owner.rs`)

One task turns signals into a broadcast; `log` is what was published, `wait[w].pos` how
far a waiter has read, and `Recv` meets a lag when the log is more than `LossCapacity`
ahead. External: names leave the bus for ever, signals are in order, the bus may close.
`OwnedTasks` uses of it only that a wait ends when the owner leaves or the monitor
fails, and that it does not end otherwise: `WaitEnds` and `WaitIsTruthful`.

### SocketConnection (`T/socket.rs`, `T/socket/writer.rs`)

`serve`, its connections, their readers, slots, detached work, reply waiters, the
drain of Shutdown with its barrier, the writer's deadline and the guard that runs
`disconnected` when the connection's future is dropped. A request is two tasks, `work`
and `reply`. The output actor is reduced to what a connection sees of it: it takes
commands, stalls on its peer, or has ended. External: what the service does; a
dispatch may leave an effect that `disconnected` takes away.

### Bridge (`T/jsonl.rs`)

`main` reads lines into tasks with slots; the client for the bus is shared and made
anew after it was invalidated; forwarder and watcher are programs of their own, whose
steps are one acquisition of the client's lock each. The output lane acts when a
command is sent, which `OutputActor` justifies (it is first in, first out, and queries
go through it too). External: the bus, whose connections break, and the daemon, which
keeps subscriptions by connection, may be replaced and need not answer.

### Frames (`T/jsonl_input.rs`)

`Read` takes a chunk of any size off the stream, through `Finish` and the draining of
an oversized record; `EndOfInput` is the end of input. The reference splits the whole stream.

### StagedFile (`C/file.rs`, `T/file.rs`)

Several threads stage and commit one file: look for missing ancestors, make them, sync
each with its parent, create, write, flush, sync, check, rename, sync the parent; each
step may fail, and drop then removes the temporary. The file system is external and as
weak as it may be: `disk` has the entries a name may have after a power loss, `hard`
the least of each file's contents, `linked` the directories whose entry is durable.
`Kill` restarts the process (with its pid, hence its temporaries' names), `PowerLoss`
the machine. A reader opens, checks the length and reads; strangers append to the
destination or put a link there.

### SocketPath (`T/socket/path.rs`)

`bind` of several daemons: take the lock, look, probe, unlink what refused, bind,
remember the inode; Drop looks whether that inode is at the path (`DropLooks`), removes by
name (`Unlink`), closes the listener and gives up the lock. Crashes leave the socket.
Somebody who ignores the lock may rebind the path at any moment, also between a look and
the use made of it; `late` is history and holds what came in such a gap: between the
recheck and the removal of a stale socket, between bind and the read of the own
identity, between Drop's look and its removal. Inodes are numbers and do not come again.

### WatchPlan, WatchBackoff (`C/watch.rs`), RecentResults (`C/operation.rs`)

`WatchPlan` walks a tree of directories, links and closed directories with the stack
and the budget of the code; `WatchBackoff` lets a daemon start, fail and refuse
watchers at any moment of a small clock; `RecentResults` records, looks up and prunes.
Each has a reference definition that is not computed the same way.

### HyprlandRequest, HyprlandEvents (`H/lib.rs`), WorkAreas (`H/work_area.rs`)

A request scans two roots for sockets, sorts candidates, checks each and connects,
while what is at the paths changes; then it sends and reads before one deadline. Any
candidate may be passed over, a live compositor that cannot take a connection now
included, and any end of the stream is an Ok reply, also that of a compositor which
died with the command unread: whether it was executed is independent of the answer. The
watcher connects, reads, tells, sleeps and tries again; the channel and its consumer
are there, the compositor is external. `WorkAreas` is a calculation over replies, of
which `AreasConstants` assumes what decoding gives: lists, fields, numbers, and
selectors of the kinds that the code tells apart.

### Resumes (`T/resume.rs`)

`ResumeDetector` with both its sources, and the two tasks of `monitor_resumes`. `clock`
is the time spent in suspension, samples of it err by a jitter or are discarded as
preempted. logind is external: it connects, breaks, and its signals may be late.

### BuildGraph, PrunedLock (`L/preflight.rs`, `L/graph.rs`, `L/lock.rs`)

The recursive walks of preflight and build with their stack (`walks`), the pending call
(`walkCall`), overlays merged on the way down, captures and overrides, while
repositories are edited (external). An input's own inputs are kept with it by path, so
that merging two definitions on every level is one function. `PrunedLock` resolves
follows by a recursive function over calls, each with the paths it is inside of, and
retains what can be reached.

## 4. Runs

| Run | Question | Bounds, and why they are enough |
|---|---|---|
| `output_tables` | do the tables agree, stay bounded, and match what the reader was told? | two ids and two routes; limit 1, so that the second early event overflows and the second cancellation evicts; 3 commands and 3 events, enough for acknowledge - cancel - acknowledge with an event between any two; six kinds of response, four of event |
| `output_delivery` | does the actor implement `OrderedDelivery`, and is every accepted event settled? | limit 2, so that a batch of two is released and one of them may be terminal; 3 events, 3 commands, every interleaving of lanes, writes, failures and the drop of the handles |
| `work_safety` | owned tasks: do table and workers agree, is each claimed once, what does a returned shutdown leave? lane: are permits conserved and the report honest? boundary: do permits and quotas follow the work? | two ids for three workers (an id reused), one owner and no owner, total 2, per owner 1, two shutdowns, Drop; three jobs over two permits and two slots, one shutdown; three requests of two callers, two methods whose limits differ in both directions, 2 calls and 1 control |
| `work_progress` | do owner loss, abort, shutdown, callers and abandoned work end? do groups join their workers, and waits for an owner end when they should? | one id, two workers; two jobs on one permit and one slot; two requests; three workers, two overlapping shutdowns of a group; two names, two waiters, a channel of one, so that a waiter lags |
| `connections_safety` | server: do slots cover the work, is `disconnected` last? bridge: are acknowledged subscriptions heard, owned and known to the cleanup? | two connections for one place, two requests of three kinds, one slot a lane; two lines, two clients, one replacement of the daemon |
| `socket_progress` | do uncertain connections, shutdown and serve end? | one connection, a call and a cancel |
| `bridge_progress` | is a lost bus told, and does the end of input end the bridge? | one line of three kinds, two clients, one replacement, with the drain's limit out of reach |
| `files_safety` | are contents whole and commits durable? who may bind a path? do plans, backoff, results, frames, graphs and locks match their references? | staged files, of one chunk and a torn one: two writers with one kill and one power loss, in any order; one writer with a reader, a stranger twice, nothing crashing; three daemons, five sockets, two of them a stranger's; all forests of four paths of three kinds with up to two roots; clocks of 16 and 3, three ids and four records; all streams of up to five of four symbols with a limit of two; all worlds of three repositories with up to two inputs and an overlay, and two edits among eight of them; all locks of three nodes |
| `desktop_progress` | are commands executed once, by the right instance? are streams, resumes and forwarded values in order, told and ended? are areas the same however a layout is said? | two roots, two signatures, one change in any arrangement of sockets; two causes, a channel of two; three suspensions and two connections to logind; four values over a channel of two; layouts of three monitors, three windows in groups, rows of up to three monitors |
| `lane_report` (violation) | is the report of a second, concurrent shutdown honest? | two jobs, one permit, two shutdowns |
| `file_barrier` (violation) | is a successful write durable? | one writer, two missing directories, one crash of each kind |
| `graph_cycles` (violation) | does preflight report every cycle? | the worlds of `files_safety`, without edits |

Deadlock is checked in the output runs, where the finished actor stutters explicitly
(`Rest`). The other systems really stop: a registry or lane is gone and all work is
over, a calculation is done, a bound is reached; their configurations say so.

Symmetry is used in safety runs only, for workers, jobs, requests, ids, connections
and writers, where no property names one of them. In `work_safety` one set of
names serves as workers, jobs and requests, since one part moves.

### Fairness

- `OutputActor`: the task's own steps. It is a spawned task, and `WriteLine` is one of
  its steps because a writer that never finishes is retired by the connection's
  deadline (`WriteFails`). Nothing obliges callers to send. The select is biased: an
  endless stream of commands would starve the event lane, the bound on commands
  excludes that, and `DueIsSettled` reads "once commands pause".
- `OwnedTasks`: the spawner after its unlock, each worker's scheduling and a running
  shutdown. A worker's own events need never complete.
- `BlockingLane`: the dispatcher, threads outside the job body, callers of shutdown.
  Bodies need not end and deadlines need not pass; properties that need it have the
  premise `JobsEnd`.
- `ServiceBoundary`: the runtime drops, encodes and answers, and timers fire; work
  need not end.
- `SocketConnection`: tasks are scheduled and deadlines fire, `disconnected` returns
  (which `socket.rs` asks of the service), and, strongly, a sender that waits for a
  place in a first-in-first-out lane that keeps taking commands gets it. Work need not
  end.
- `Bridge`: its tasks and timers. Neither daemon, bus nor input has to do anything.
- `OwnerLoss`: the task and the waiters. Nobody has to leave.
- `TaskGroup`: aborts land and callers' futures are polled. Workers need not end.
- `HyprlandRequest`: the task and the deadline; the compositor owes nothing.
  `HyprlandEvents`: the watcher, its sleeps, and a consumer that takes events as long
  as it stays.
- `Resumes`: ticks come and some of their samples count; both tasks are scheduled;
  signals need not come. `Forwarding`: both futures are polled and emissions end.
- The rest has safety properties only.

## 5. What the checks show

All properties of the passing runs hold; `mutants` in `PROJECT.json` names plausible
faults of the code that break them, at least one for each, and for most conjunctions
one for each part. Three runs show a disagreement:

- `lane_report`: two concurrent calls of `BlockingLane::shutdown`. The first takes
  the dispatcher's handle; the second skips the join (`blocking.rs:146`), sees a count
  of zero and reports `dispatcher_stopped: true, active_jobs: 0`, although the
  dispatcher, which polled just before the signal, has taken a job out of the channel
  that it has not counted yet, and will start. `docs/server-infrastructure.md:102`
  promises that the report covers remaining work. The same happens when the first
  future was dropped. With one shutdown, `ReportCovers` holds.
- `file_barrier`: `create_directory` (`file.rs:165`) syncs only the ancestors it finds
  missing. When an earlier write made a directory and was killed, failed or is still
  running before it synced the entry, the next write finds it present and commits Ok; a
  power loss may then take directory and file, against `file.rs:38` ("a successful
  commit is the configured durability barrier"). `AncestorsOutlivePower` states what
  does hold.
- `graph_cycles`: `Scan::walk` (`preflight.rs:70`) returns when a repository was walked
  under the same overlay, whatever it was walked below. A cycle that exists only below
  another path, because an overlay made an input follow elsewhere, is not reported and
  the build fails with it, against `docs/local-build.md:32` ("reports every
  discoverable worktree problem together").

Behaviour that the models reach and no property forbids, since the code accepts it:

- a cancelled id that was evicted from the history has its late events held back as
  early ones, where they take room until a reset; `ResetCorrelation` overtakes events
  of the old connection that still wait in their lane;
- `cancel_owned` frees quota before the aborted worker is over (`LiveWithinLimits`
  counts unaborted workers); a second `shutdown` of a registry or a `TaskGroup`
  (`task.rs:57`) returns while the first still joins (`ShutdownJoins` and
  `GroupShutdownJoins` say exactly what may then still run);
- a resume signal whose own sample was discarded as preempted announces and leaves no
  trace, so that the next poll announces the same suspension again (`resume.rs:52`);
  a flag left by the clock may swallow a later signal. `OncePerResume` has the
  condition under which each suspension is announced once;
- a stranger who replaces the socket's path after `UnixListener::bind` (`path.rs:86`)
  and before the identity is read back by name (`path.rs:87`), or between Drop's
  comparison and its removal (`path.rs:26-29`), has his own socket unlinked, live or not.
  `docs/unix-jsonl.md:12` says "Drop unlinks only the inode this listener created", and
  goes on that this is no sandbox against the own user. `LiveIsKept` admits what came in
  these gaps (`late`) and nothing else;
- a compositor that dies with a command unread ends the stream like one that has
  answered: `request_socket` returns an empty reply as Ok (`lib.rs:345`), and a caller
  that does not parse it cannot tell whether its command was executed;
- directories queued below two overlapping watch roots count twice against the budget;
- `call_policy` borrows a permit while it checks the quotas, so that a request that
  will be refused can make another be refused.

## 6. Proofs

Each is from the named assumption of its module about the constants (absent values are
outside the sets they are absent from, limits are naturals), for every value of them.

*OutputActor.* `IInv` is the type invariant and four parts. `StateOK`: the tables
agree and are ordered and bounded; each method of `OutputState` preserves it
(`SuppressOrder`, `CancelledOK`, `ActivateOK`, `HoldOK`). `LineExplains`: the actor's
active ids differ from the reader's view only by what the line being written will tell
it; without it `ReaderAgrees`, which speaks of idle states, is not inductive.
`DrainOK`: a released batch has one id, active or just remembered, which is why
releasing never runs out of room. `LineOK`: the line's route and the reason of a
failure. Results: `TablesSound`, `LinesAreRouted`.

*OwnedTasks* (`WorkProofs`). `TasksInv` adds to the properties what a spawned worker keeps
(`SpawnedOK`),
that a registered worker is unclaimed (`Unclaimed`), what a shutdown has seen to at
each stage (`Stages`), and that a closed or dropped registry is empty (`Emptied`).
`ClaimOK` is the heart: ids of different entries stand for different workers, so a
claim counts each worker once. `WithinLimits` rests on an injection from unaborted
workers into entries while the registry is open (`OnePerEntry`); once it is closed no
worker joins (`FewerRun`). Results: `TasksSound`, `ShutdownJoins`.

*BlockingLane* (`WorkProofs`). Permits and the activity count are sums over places: free, with the
dispatcher (`InHand`: it holds one job at most), with jobs at each stage. A step moves
one unit between two places, and cardinalities do the rest. Results: `PermitsSound`;
`ReportCovers` for a lane that one caller shuts down (the assumption `Once`), the
condition without which `lane_report` refutes it: that caller has joined the dispatcher
before it looks, and nobody counts jobs after that.

*ServiceBoundary.* Permits and quotas are sums over requests in the stages that hold
them. The limit on executing work follows from the quota because what executes is among
what holds (`Executing`); giving a quota back needs that the last one found is counted,
for every subset of an owner's requests (`LastFound`). Result: `WorkAccounted`.

*The refinement of OrderedDelivery* (`OutputActorProofs`). Beside `IInv` it needs that
ids remembered as cancelled have ended (`RememberedEnded`), so that the event taken from
the lane is refused for its own id's end, and that the event being written is the first
of those owed for its id (`LineIsFirst`). Under these every step of the actor is a
step of the abstract delivery or leaves it alone; one lemma for each action
(`TakeEventRefines`, ...). Result: `DeliveryInOrder`.

*SocketConnection* (`ConnectionsProofs`). Slots and the listener's places are sums over
what is in progress (`SlotsCoverWork`, `CapacityLent`). Effects of a closed connection
have the guard or the disconnect ahead of them (`ClosedIsCleaned`), for which closing
must be known to precede everything after reading (`ClosedBehind`, `AbortedBehind`).
Results: `SlotsSound`, `CleanupIsLast`.

*Bridge* (`ConnectionsProofs`). `Calm` is the heart: as long as nothing has to be told to
the frontend, one client was made, and a subscription that was let through found the
forwarder reading from it. `CancelsOfLines` says what a cancellation in progress may
rely on, `CleanupKnows` that the cleanup asks for every id. Result: `SubscriptionsKept`.

*TaskGroup* (`LifecycleProofs`). A running worker is in the group's handles, or in the
batch of a caller who has still to abort or join it. Result: `WorkersAreKnown`.

*OwnerLoss* (`LifecycleProofs`). `Truthful`: what is in the log has left. `Monitored`:
what leaves while the task lives will be in it. A waiter's place is behind every entry it
has not read, and a lag moves it only as far as a look at the bus makes up for. Result:
`WaitIsTruthful`.

*RecentResults* (`LifecycleProofs`). An entry is the last result of its id, entries are in
order of their values and so of their times (`Holding`), and the last result of an id that
has no entry is too old or has as many newer ones as the limit (`Excused`). What is
behind an entry in the queue and what was recorded after it are counted against each
other (`LaterCount`); what `partition_point` finds is the first entry that is young enough
(`PrunedFacts`), and a queue without some of its places is numbered by their ranks
(`KthFacts`). Result: `ResultsAreExact`.

*Frames* (`LifecycleProofs`). What the reader keeps is a part of the stream, from where
the record it is in starts (`StartOf`, which `StartIsUnique` says is one place) to where
it has read, or nothing if that is too long already (`Within`); past the end nothing is
left (`PastEnd`). There are as many frames as ends of records that were passed, so the next
one is the record that ends here (`NextEnd`, from `KthFacts`). Result: `FramesAreExact`,
with its bound on memory, for every way of cutting the stream into reads.

*StagedFile* (`FilesProofs`). `DestOK`: whatever the power may leave at the destination
has been renamed to it and is whole, in memory and on the disk. `WriterOK`: a thread's
file was never at the destination, is synced once it is staged, and its ancestors are
durable or still to be synced; what it has renamed is there, or something later, until
it syncs the directory. `WritersApart`: no two threads write one file, also after a
kill, since names that are taken are passed over and files are numbered. Ranks order
what came to the destination, and each new one is above all others (`NextRankFacts`),
so that a later commit replaces an earlier one and never the reverse. Result:
`WritesOutlivePower`, type invariant included, for any number of threads, ancestors,
chunks, kills and power losses.

*SocketPath* (`FilesProofs`). Whoever is not down holds the lock, so one daemon is; an
inode that refused once is never listened on again, so what is removed was dead or came
late. In each gap between a look and its use the path is what was looked at or came late,
and an identity is of the own socket or of one that came late (`Overtaken`). Results:
`PathSound`, and the action property `LiveIsKept`.

*WatchPlan* (`FilesProofs`). The sizes of the stack and of the sets entered from it;
directories are queued one by one up to the budget (`BudgetIInv`). What the plan must
hold is the least set with the recursive roots that is closed under listing (`Reached`);
the recursive function `Inside` of the reference is that set, by the least counterexample
among paths, which are numbered after their parents (`InsideIsReached`). Nothing is
planned or queued that is not wanted, a root was visited or is ahead, and what lies below
an expanded directory was expanded or is queued (`NothingForgotten`), so that an empty
queue means a closed set. Unless roots overlap, a path is queued once and not planned
before (`QueuedOnce`), so that queue and plan together count no more than what is wanted:
a plan is refused only for a reason. Results: `QueueWithinBudget`, `PlanIsExact`.

*WatchBackoff* (`FilesProofs`). The next delay is the penalty of the next place in the
row (`DelayIsNext`), a running watcher remembers when it was made (`StartRemembered`).
`Penalty` is a recursive function; that there is one with its equation is proved by a
least bound for which there would be none (`PenaltiesExist`). Result: `PenaltyIsKept`.

*Resumes* (`DesktopProofs`). What was announced, what signals under way will announce and
what a sample of the clock would (`Overtaken`) are together at most two for each
suspension (`AtMostTwo`), and one as long as all is prompt (`AtMostOne`); a sample that
counts is one that errs by no more than the threshold allows. Result: `ResumesCounted`.

*Forwarding* (`DesktopProofs`). What was shown is no newer than what was seen, and older
when a change is announced (`ShownGrew`); a function that counts what events account for
exists, ends at the receiver's place and gives each item its number (`CountsExist`,
`CountsTell`). Result: `ForwardingIsFaithful`.

*HyprlandEvents* (`DesktopProofs`). Each phase of the watcher is tied to what was told by
then (`Phases`): between attempts the cause that is remembered is the last thing told,
and what is about to be told follows from it (`Telling`). A cause is a message, which no
marker of the model is (`EventsConstants`). Result: `StreamIsTrue`.

*HyprlandRequest* (`DesktopProofs`). While it looks, each path was missing, is ahead, or
lies in a root that is still to be scanned (`CoveredBy`), and whatever ranks before a
candidate or a path to check was missing or stands before it (`InOrder`,
`ToCheckInOrder`); so the first candidate is preferred to all that were there
(`FirstCandidate`); a candidate that refuses counts as missing from then on. A peer keeps
what it was chosen for, and the command is pending or executed, never both (`SentOnce`).
Result: `CommandsAreSafe`, for any number of instances, however often their sockets come
and go and whoever refuses. It says nothing of what Ok means.

*WorkAreas* (`DesktopProofs`). The state is three steps long, so `AreasIInv` says little:
a parsed reply has positive scales and sorted groups, and areas are its insets. The work
is in what the operators return. Mirroring and exchanging axes keep every distance within
its tolerance and every common edge (`MirroredSides`, `TransposedSides`), so the nearest
neighbour is the same (`DirectionalSame`; that there is one with the longest edge is
`GreatestAt`), each clause means what it did (`TermSame`) and the last rule with gaps is
the same one (`GapsSame`). Leaving out rules without gaps keeps the order of the others
(`GapsKept`). The recursive walk around the ring has its equation because the remainder
satisfies it, and equals it by the least counterexample (`WalkChosen`, `WalkIsSteps`). A
group can be sorted (`OrderExists`), sorting keeps its bag, and groups of equal bags are
equally long and sort alike, by joining one-to-one maps of where each member is
(`BagTellsLength`, `BagTellsSorted`), so distinct sorted groups are distinct bags
(`GroupsCounted`). Result: `AreasAreExact`, for every reply.

*PrunedLock* (`LocalBuildProofs`). `Follow` has its recursive equation because a call
either meets a path it was not inside of, of finitely many, or shortens what is left of
its path (`NearerIsWellFounded`; `RecursionExists` is the general fact). In a part of a
lock that has the root and all its links lead to, paths lead where they led
(`PartFollows`, by the nearest call that would differ), so nothing that was resolved
while pruning changes its meaning when the rest is taken out. While it runs, what was
looked at resolves into what was or is to be looked at, and all of that is reached from
the root (`Exploring`). Result: `PruningIsExact`, for lock files with cycles too.

*BuildGraph* (`LocalBuildProofs`). The inputs of a walk, overlay laid over overlay, are
tied to the reference, which reads off the captured definitions on the way down from the
root who says what of an input (`Stands`): merging adds what the place itself says
(`StandsMerge`), what an input lays over its repository is what was said below it
(`StandsNested`), and a new override changes nothing that was said at the other places
(`EdgeGrows`). While the build runs, an edge that is due is there, or will be found by
the call, or is still to be taken (`NothingMissed`), and every override is due
(`OverridesFit`). Without edits, what preflight walked is closed under what it leads to
once nothing is awaited (`AllAwaited`), and is within every such set (`Reached`); the
walks that got a place in the build are one (`PlacedIsClosed`), so the build captures
all that preflight listed. Result: `GraphIsExact`.

Only model-checked: liveness, which under fairness is out of the prover's reach. Every
invariant and every action property of the runs that must pass is proved.

## 7. Not modelled

- Wire types, the contract macro, envelopes and decimal formatting: stateless.
- The JavaScript protocol generator, run at build time; the thin D-Bus client, of which
  a model would be a model of the bus; Nix expressions, scripts and CI.
- Of staged files and state: modes, JSON and the XDG checks of `state.rs`.
- Of Hyprland: the formatting of monitor rules, the parsing of preferences, JSON, the
  CSS shorthand of gaps and the grammar of numbers, the list of geometry events.
- Of the local build: copying files, the policies on Cargo manifests and root inputs,
  the command line, nix and git themselves.
- Of the socket path: checks of names, owners and modes, which refuse before anything
  changes.
- Of the blocking lane: a runtime that closes under its pool.

Of the hazards in `PROJECT.json` one has no property: the reset that overtakes events of
the old connection (`output_actor.rs:270`), which the code accepts.
