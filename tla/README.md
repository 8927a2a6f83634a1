# A TLA+ model of MINOTAUR

MINOTAUR is a bounded, low-interaction TCP deception sensor. It listens on up to 32 endpoints,
keeps a short dialogue (raw, SSH identification, Telnet login, one HTTP request) with whoever
connects, and writes one JSON record for each session. The modules beside this file model its
control from the bytes of a session to the exit status of the process. They are checked with TLC
on small instances. Every safety property of the passing runs is also proved with TLAPS, for every value of the
constants: the rate limiter, admission, the start of the process, the log and its file, the composed sensor, the management
endpoint with its health check, and the sessions with their four handlers.
`PROJECT.json` gives, for each definition, the lines of the source it stands for.

## 1. The system

Paths are below `src/`.

| Part | State it keeps | Operations | Talks to |
|---|---|---|---|
| Rate limiter, `src/ratelimit.rs` | a mutex over: address → admission times | `check`, `evict_idle`, `tracked_ips` | called by each endpoint task and by the maintenance worker |
| Log channel and writer, `src/logger.rs` | bounded channel; the record in hand; counters | `Logger::log` (never waits), `run_writer` | called by every session; writes the sinks; a failure clears readiness and is counted, and ends the writer, whereupon main cancels the shutdown token |
| Rotating log file, `FileSink` in `src/logger.rs` | active file, archives, lock file, size in memory | `open`, `write`, `rotate` | the writer; a second process on the same path |
| Server, `src/server.rs` | semaphore of `max_sessions`, worker set; each endpoint the set of its sessions | `run`, `run_endpoint`, `handle_session` | limiter, logger, handlers, shutdown token, readiness gauge |
| Process, `src/main.rs` | outcome, handles of server and writer | `run`, `finish`, `merge` | signals; waits for the server, then for the writer, each with a grace period |
| Session record, `src/session.rs` | byte counter, preview, at most 16 events | `record_bytes`, `push_event`, `finalize` | the handlers write it, `handle_session` finalizes it |
| Session I/O and handlers, `src/protocols/` | Telnet decoder and line, HTTP header buffer, SSH line | one `handle` each, `SessionIo::read`, `write` | the client; cancelled at an await by `handle_session` |
| Management endpoint, `src/metrics.rs` | connection tasks, a gauge | `serve`, `handle` | probes and scrapers; reads readiness |
| Configuration, `src/config.rs` | none after start | `load`, `validate`, `canonical_ip`, `binds_conflict` | everything |
| Start of the process, `src/main.rs` `run`, `BoundServer::bind`, `Logger::spawn` | the listeners, the lock | bind each socket, lock and open the log, give back | the kernel; other processes with the same sockets or log |
| Health check, `src/main.rs` `healthcheck` | one connection | ask `/readyz`, exit 0 on status 200 | the management endpoint of another process |

What is hard in it:

- *Interleavings.* Endpoints read the clock before they take the limiter's mutex. `try_send` takes
  a permit and pushes in two steps while the writer may be failing. The shutdown token is polled,
  and a connection accepted after it. The server sets the readiness gauge that main and the writer
  clear.
- *Failures in the middle.* A rotation is a chain of a remove and renames; a record goes to the file
  and then to stdout; a panic or an abort may hit a task at any await; a write that missed its
  deadline may still land.
- *Admission.* Exclusion list, limiter and permit are three decisions with other tasks in between; the limiter's
  slot is spent before the permit is tried, and each way out has its counter. An endpoint that dies takes its sessions with
  it, wherever they are.
- *Other processes.* A start takes sockets one by one and then a lock, and may fail or be killed after any of
  them; the deadline of a file operation does not cancel the thread that makes it.
- *Shutdown.* main waits for the server, then drops its own handle on the state, then waits for the
  writer, which waits for the last handle. A wrong order loses records or hangs.
- *Bytes.* A line, a Telnet command or the blank line after HTTP headers may be cut anywhere by the
  ends of reads; limits on lines, headers, input and preview all bite at their last byte.

What makes it correct, part by part, is stated by the properties of section 4.

## 2. The modules

| Module | Models | Its place |
|---|---|---|
| `SlidingWindow` | what the limiter promises: all admissions remembered, each question answered from the window that ends at its time | abstract specification |
| `RateLimiter` | `RateLimiter` with its callers | implements `SlidingWindow` (`INSTANCE … WITH`, property `ImplementsSlidingWindow`) |
| `Addresses` | `canonical_ip`, `is_unspecified`, `binds_conflict` | used by the limiter, by `Config` and by `Startup` |
| `Admission` | `run_endpoint` for one connection, the permits and the counters of a session | extends `RateLimiter`, every step of which it takes |
| `Config` | `validate`, `log_path` | used by `Startup` |
| `Startup` | `run` up to the first task, `bind`, `Logger::spawn`, `acquire_lock`, and the ends of a process | extends `Config` |
| `Logger` | `Logger::log`, tokio's channel, `run_writer` | what `Sensor` implements (`INSTANCE … WITH`, property `ImplementsLogger`) |
| `FileSink` | the file, its rotation and its lock | alone; what `Logger` calls one write to the sink `"file"` |
| `LateWrites` | file operations that outlive their sink | extends `FileSink` |
| `Sensor` | server, sessions, workers, main | implements `Logger` |
| `SessionIo` | `SessionState`, `SessionIo` | base of the handlers |
| `Telnet`, `Http`, `Ssh` | one handler each | extend `SessionIo` |
| `Session` | dispatch, the raw handler, cancellation | extends the three handlers |
| `Management` | `metrics::serve` and its connection tasks | to `Sensor` it is the worker `Management` |
| `HealthCheck` | `healthcheck`, `handle` for `/readyz`, and the tasks that own the gauge | extends `Management` |
| `AdmissionProofs` | – | theorems and proofs of `RateLimiter` (first half) and `Admission` (second half) |
| `StartupProofs`, `ManagementProofs`, `LoggerProofs`, `FileSinkProofs` | – | theorems and proofs of the module of that name |
| `SensorProofs` | – | theorems and proofs of `Sensor`: its use of `Logger`, and what it promises itself |
| `SessionProofs` | – | theorems and proofs of `Session` with its four handlers, all but `TelnetFaithful` |
| `TelnetProofs` | – | extends `SessionProofs`: `TelnetFaithful` |
| `MC…` | – | constants and symmetry for TLC |

How they correspond to the code:

**RateLimiter.** `check` samples the clock (line 47), `check_at` is the critical section; likewise
`evict_idle` and `evict_at`. `map` is the table, a bucket a sequence of times. `expire` removes from
the front and stops at the first live time, as `expire` in the code, which matters because times can
be out of order. `canonical_ip` maps the two spellings of an IPv4 host to one key. A panic under the
mutex (`Poison`) makes every later call fail closed, unless `limit = 0`, where the mutex is never
looked at. `admitted` is a history variable. The clock advances by `Tick`, and `MaxSkew` bounds how
long a task may stay between its sample and the lock.

**Admission.** `accept`, `decide` and `try_acquire` are the three decisions of `run_endpoint`; between them the
other endpoint and the sessions run. A session takes four steps after its spawn, as its counters and guards
do: `SessionStarts`, `SessionCloses` (the end is counted), `SessionEnds` (the gauge, by a guard, also after a panic)
and `PermitDropped`. An endpoint owns the `JoinSet` of its sessions, so the session counters are kept by endpoint. It dies by a panic under the limiter's mutex
(`EndpointPanics`), or is aborted between two connections when main gives up on the server (`EndpointAborted`). Its sessions are then
aborted, one after the other and not at once (`SessionDropped`): one that was never polled gives back its permit and is counted nowhere, one that
waits in its handler drops its guard and then its permit, and one that is running on another thread gets as far as its next await, so every other
step of a session stays possible. `accepts`, `placed`, `crowded`, `panics`, `unpolled` and `aborted` are history variables.

**Config and Startup.** `validate` is a predicate on a record of the fields the code looks at; a text is its length and
its class of characters. A process goes through `bind`, `lock`, `open` and `run`; `Fail` leaves each of them for `failing`, where
what was taken is still held, and `GiveBack` drops it. `Kill` may come anywhere (a `SIGTERM` before the
handlers are installed is a `Kill` too), and `Start` may follow. The kernel is
external: a socket hears a set of destinations, IPv6 wildcards also those of IPv4 unless the machine's default
is v6-only, and two sockets on one port are refused if they hear a common one. The lock is the kernel's
too: it goes with its holder. `late` has the processes whose lock task was given up by the deadline of `FileSink::open` and may
still take the lock.

**Logger.** `Log…` are the outcomes of `try_send`: closed, full, or a permit taken; `LogPush` is the
second half of a successful send. The writer's actions are `Recv`, `RecvNone` (the end: no handle
left and the channel empty), `WriteSink` for each sink in order, `WriteDone`, `WriteFail` (error or
deadline; the write may have landed, or may land later: `OrphanLands`), `MarkFailed` (error counter,
readiness, close the channel) and `CountLost` (count what is left in it). `Abort` is main giving up.
Records are numbers: call *n* of `log` logs record *n*. The sinks are written one record at a time;
the formatting of a record is not modelled.

**FileSink.** Each file operation of `write` and `rotate` is an action (`RemoveOldest`,
`ShiftArchive`, `RenameActive`, `Reopen`, `AppendLine`). `FailBefore`, `FailAfter` and `FailTorn` end
the process, or its sink, at any of them, without effect, with effect, or with half a line written;
the next `open` may be by the same or by another process. `Repair` is the operator who removes an
incomplete last line, which `open_log` asks for. Crashes are of the process, not of the machine: the
code flushes and never syncs, so what a power loss leaves is not claimed and not modelled. In `FileSink` the operation
under way has its effect before the lock is free, or never; `LateWrites` lets it land later, when another process may have
the log open.

**Sensor.** Every task has a place: sessions (`conn`), workers, the server and main. A step ends where
another task could change what the next one reads: the poll of the token and the accept are two
steps, and so are the test of the token and the setting of the gauge in `run`. Every task that owns an
`Arc<AppState>` is a holder of a `Logger` handle, so the end of the channel is derived from who still
lives. `Sensor` does not use the actions of `Logger`; `ImplementsLogger` says that each of its steps is one of them or changes nothing the
logger sees, with the tasks that own the state as senders. `Fault` injects failures: a panic of a session or a worker, a failed accept, a failed writer, a
grace period that ends. The limiter's verdict is left open (`Reject` is always possible), and so is the
time at which a handler returns.

**SessionIo and the handlers.** A handler runs from one read or write to the next; `pc` names the one it
waits in. A read gives any chunk of one to `BufferSize` bytes within the input budget, or ends the
session. So every way to cut a stream into reads is a behaviour. Bytes are classes (`"CR"`, `"IAC"`,
`"a"`, …). Where a loop of the code runs over the bytes of one read it is a fold over the chunk
(`Scan`, `Identify`). `stream` is a history variable: everything read. `Cancel` drops the handler
where it waits, with its locals. In `Http` the framing works on the bytes, and the request that was
framed is chosen freely from `Requests` (a kind of first line, which stands for the version too, a path as a sequence of pieces with `?` and `#` among them,
and a list of kinds of headers) when `parse_request` runs; which bytes make a token or a legal value is not modelled. The event has the
fields of the code: method, path, version, host and agent. `redact` is the whole of `push_event`'s first half: the path cut at its first mark, or
hidden, and what metadata mode takes out.

**Management.** The three polls of `tokio::select! { biased; … }` are three steps in the code's order, with
other tasks running between them. A task counts against the cap from its spawn until it is joined. `trouble` is a history variable: something
failed, whether or not `serve` noticed.

**HealthCheck.** Some clients of `Management` are probes. `Handle` reads the gauge and then, in a second step, the error
counter; the server, the writer and main change them at any time. The probe is healthy when the connection
is closed after a 200, unhealthy otherwise; nothing bounds how slow it is.

## 3. Bounds

Bounds are constants named in the cfg files or in the MC modules.

| Run | Bounds | Why they are enough |
|---|---|---|
| `rate_limiter` | 2 endpoints, 2 hosts in 3 spellings, limit 2, 1 address, window 2, clock ≤ 4, skew ≤ 1 | a full table and a host to refuse; two calls that sample in one order and lock in the other; the window slides twice |
| `admission` | 2 endpoints, an ordinary, an excluded (2 spellings) and an IPv6 host, limit 1, 1 address, 1 permit, 2 connections, window 2, clock ≤ 2, skew ≤ 1 | each of the five refusals is reached; the permit is free again while a slot is not; a bucket goes idle; an endpoint dies with a session in each of its places, and the other goes on |
| `startup` | 2 processes, 2 stops, 2 kills or errors; the configurations of `MCStartup`: fields at and past their bounds, all pairs of binds over 3 families and wildcard or not, one log under several names | a start against a running, failing, dead or given-up process; a validated pair of binds on a machine of either kind |
| `logger` | 3 senders, channel 2, 2 sinks, 4 records | a full channel with a third sender; a failure with permits held and records queued |
| `late_writes` | as `file_sink`, 1 failure, 4 lines | one late append is enough |
| `file_sink` | 2 processes, 3 archives, files of 3 bytes, 7 lines of 1 or 2 (4 is too long), 3 failures | the oldest archive is removed, and a second rotation starts on what an interrupted one left |
| `sensor`, `sensor_ready` | 1 endpoint; 2 connections and 1 permit (`sensor`); 1 fault | the permit is contended; a signal can come with any one fault at any moment |
| `sensor_stops` | 1 connection | liveness over the same tasks |
| `session` | Telnet streams of 7 bytes with lines of 2 and two rounds, HTTP headers of 7 bytes with an input of 5 or 9, SSH lines of 4 with an input of 5, raw input of 4; reads of at most 3 | each limit can be met exactly, missed by one, and met in the middle of a chunk; a delimiter of four bytes can be cut at each place |
| `management` | 4 clients, one a probe, 2 slots | a full set, a queue, and a client that comes back |

In `session`, `MAX_EVENTS` is `MAX_ATTEMPTS + 1`, the most a Telnet session can produce, so
"no event is missing" is tight; the code's 16 is far above its own 3 + 1.
Telnet's alphabets are three: one for subnegotiation (seven bytes), one for options (five) and one
for typing (seven); a stream that mixes classes of two of them is not explored.

## 4. What is checked

| Run | Property | Says |
|---|---|---|
| `rate_limiter` | `MemoryBound` | at most `max_tracked_ips` buckets of 1 to `limit` times, and the gauge within the bound |
| | `RateBound` | any `limit + 1` admissions of a host span at least `WINDOW - MaxSkew` |
| | `ImplementsSlidingWindow` | the bounded table answers as the unbounded history would, up to the skew |
| `admission` | `IgnoredNeverAdmitted` | an excluded host gets no bucket, slot or session under any spelling, and nobody else is refused for the list |
| | `EveryConnectionCounted` | each connection is one refusal or one session; a session is in `connections_total` once polled, and then active, closed, panicked or aborted; only an endpoint that died has lost or aborted any; every permit comes back |
| | `SlotPerAttempt` | a slot of the window is a session or a refusal for want of a permit, no more and no less |
| | `IdleBucketReclaimed` | an idle bucket is evicted, so a full table is not full for ever |
| `startup` | `AllOrNothing` | a process that runs has every socket and its log; one that gave up has none |
| | `OneWriterPerLog` | no two processes have one log open, whatever each calls it and whoever died |
| | `ConflictIsOverlap` | `binds_conflict` is what a dual-stack kernel refuses |
| | `FailuresJustified` | a start fails because of a living process, or of the port the kernel gave to its own port 0 |
| | `SomeoneRuns` | of processes with one configuration started together, not all fail for each other's sake |
| | `WithinBudgets` | an accepted configuration has no record longer than a file or than it was reckoned, no full queue over 256 MiB, no full limiter over its million timestamps |
| `logger` | `DeliveredInOrder` | every sink is a prefix of what was accepted |
| | `Accounting` | every call of `log` is written, counted, or on its way, and a failure loses at most what held a permit |
| | `AcceptedRecordWritten`, `WriterEnds` | progress of a record, and of the writer when the last handle goes |
| `file_sink` | `RetainedIsSuffix` | the files, oldest first, are the newest lines without hole, repetition or disorder |
| | `TornOnlyAtEnd` | half a line is only ever the last thing in the active file |
| | `SizeBound` | no file over its limit, and the size in memory is right, across restarts |
| | `RetentionFloor` | the archives promised are kept, less one for each interrupted rotation |
| `sensor` | `SessionBound` | permits, live sessions and the gauge agree on every way out of a session |
| | `NoSessionOutlivesServer` | the server returns after its sessions |
| | `CleanExitLosesNothing` | exit with success means each session's record is in every sink or counted |
| | `ExitStatus` | the status is a failure exactly if something failed |
| | `ReadyzTruthful` | `/readyz` against a failed writer |
| | `ImplementsLogger` | the whole process uses the log as `Logger` allows: its order and accounting hold for it too |
| `sensor_stops` | `StopsWhenTold` | a signal or a failure stops the process |
| `session` | `RecordTruthful` | budget, preview and `bytes_truncated` for every cut of the stream |
| | `PrivacyKept` | the matrix of `docs/CONFIGURATION.md:30-40`: what each mode hides and keeps of preview, credentials, path, host and agent; method and version are kept in both |
| | `TelnetFaithful` | the logins in the record are those a decoder of the whole stream finds |
| | `HttpFraming`, `HttpStrict` | the headers end at the first blank line, 431 exactly when there is none; recorded if and only if well formed |
| | `SshFaithful` | the first line of the stream decides, and nothing after it |
| `management` | `CapHolds`, `SlotsComeBack` | the cap, and slots that come back under a flood |
| | `EndsAsPromised` | `serve` returns after every task, with an error exactly if something failed, in the loop or in the drain |
| | `HealthTruthful` | a healthy verdict is true of a moment of the probe |

`rate_limiter` and `management` also check a `TypeOK`. Each property has a mutant in `PROJECT.json`: a plausible bug in one mapped
definition, next to it and marked `(mutant)`, under which TLC finds the property violated.

*Reference definitions.* `TelnetFaithful` compares the incremental decoder and line reader with `Decoded`, `Lines` and
`Logins`, which are written over the whole stream, by position, and share no state machine with the
handler. `HttpFraming` and `SshFaithful` do the same with the first delimiter and the first line of `stream`,
and `HttpStrict` restates the parser's ordered checks as counts.

*Fairness.* Weak fairness throughout. Tasks that can run are polled by the runtime. A write to a sink ends because
`run_writer` puts a deadline on it; a session ends because of its lifetime limit; a management connection ends because of
its deadline; the maintenance worker ticks. Nothing is assumed of clients, signals, grace timers or the
arrival of connections. `SlotsComeBack` depends on the order of the polls: with the listener polled
before the tasks (the mutant `Joinable_last`) a flood of connections starves the joins.

### Where the code and its text differ

| Run | Shows |
|---|---|
| `late_writes` | "Размер текущего файла ограничен `max_file_bytes`" (the size of the current file is limited, `docs/ARCHITECTURE.md:97`) fails when a write outlives the deadline of its sink, and the next process opens the log before the first one has ended |
| `logger_loss` | `logger_dropped_total` ("Records not delivered to all sinks", `metrics.rs`) can miss records whose senders held a channel permit when the writer failed |
| `sensor_ready` | the readiness gauge ("… and the writer is healthy", `metrics.rs:117`) can be 1 after the writer has failed, because `run` tests the token and sets the gauge in two steps; `/readyz` is right all the same |

That the window is "exact" (`ratelimit.rs:1`) has to be read with the clock in mind: `check` samples it before it takes the
mutex, so `RateBound` has `WINDOW - MaxSkew`, and `LimiterExactWithoutSkew` (section 5) shows that nothing else is missing.

## 5. What is proved

All theorems are of the specification that the run checks, and hold for every value of the constants that the
named assumptions allow; TLC evaluates these assumptions in the runs.

**`AdmissionProofs`, on `RateLimiter`**, from `LimiterAssumption` and `PeersAssumption`, for every set of peers and endpoints, limit, table
size, window and skew: `LimiterTypeCorrect` (`TypeOK`), `LimiterMemoryBounded` (`MemoryBound`), `LimiterRateBounded`
(`RateBound`), and `LimiterExactWithoutSkew`: with `MaxSkew = 0` the window is exact (`ExactRate`).

*The argument.* `RateBound` is not inductive: it speaks of all admissions, while `check_at` sees only a bucket that
has been cut by `expire` and perhaps dropped by `evict_at`. The invariant `IInv` adds that each bucket is the tail of its host's
history, and that what was forgotten before it is older than the window, up to the skew (`TableRemembers`), that the table is
finite (`TableFinite`), and that a sample in use is at most `MaxSkew` old (`SamplesFresh`), with a peer to each pending call
(`CallsHavePeers`). The lemmas say what `expire` removes (`ExpireCutsPrefix`), that each
of the three ways to change a bucket keeps the tail property (`ExpireRemembers`, `AppendRemembers`,
`LaterRemembers`), and that an admission below the limit keeps the span (`AdmissionKeepsSpan`): the admission `limit` places back
cannot be in the bucket, which has fewer than `limit` members, so it was forgotten, so it is old. One lemma per action then shows that `IInv` is kept.

`LimiterImplementsWindow` (`ImplementsSlidingWindow`) is the refinement: every step of the bounded, evicted table is a
step of the unbounded history or a stutter. It needs two facts more (`HistoryInv`): two admissions of a host are out of order by at most the skew, so that the
forgotten ones are not only old but the oldest; and finitely many hosts have been admitted, so that a full table is a
count of hosts with something in their window.

**`AdmissionProofs`, on `Admission`**, from these assumptions and `AdmissionAssumption`, for every finite set of endpoints and peers, every exclusion
list, limit, table size and number of permits: `AdmissionUsesLimiter` (every behaviour of `AdmissionSpec` is one of
`RateLimiter`'s `Spec`, so that the theorems above hold here too), `IgnoredStayOut` (`IgnoredNeverAdmitted`), `ConnectionsAddUp`
(`EveryConnectionCounted`) and `SlotsAreAttempts` (`SlotPerAttempt`).

*The argument.* `AdmissionInv` adds to the three properties the types of the counters (`CountersOK`) and `PlacesOK`: an endpoint has one connection in
hand, in the limiter or past it, and no peer of an excluded host is in either. Each property is a sum that a step changes
on both sides: the endpoints in hand change by one (`CountChanges`), a counter by one and so the total of its family
by one (`TotalOfOne`). Of the sessions there are two accounts: `SessionSums` over all endpoints, and `SessionsOf` for each, to which a step of
another endpoint does nothing; sessions are lost by `SessionDropped` alone, which needs a dead endpoint. That an excluded host is refused in each spelling is `IgnoredByHost`, from `OneBucketPerHost`.

**`StartupProofs`**, from `StartupAssumption` and `DeploymentsAssumption`, for every set of processes, hosts and
configurations and any number of kills and errors: `StartupAllOrNothing`, `StartupOneWriter`, `StartupConflictIsOverlap`,
`StartupFailuresJustified`, `StartupSomeoneRuns` and `StartupWithinBudgets`, each of the property of that name.

*The argument.* `IInv` relates what a process holds to where it is: every bound socket is one its owner's
configuration asks for, and is complete from `lock` on and gone from `leaving` on (`SocketsInv`); a lock is held by a
process that has its log open, is failing, or left a lock task behind, and only failing and leaving processes do
(`LockInv`). `OneWriterPerLog` follows because a lock has one holder. `FailuresJustified` needs `ConflictExact`: for
all addresses, `binds_conflict` is the overlap of the destinations the kernel gives them. So `validate`, which
ran before the first bind, has excluded that a process meets its own sockets, and what is in the way is another's. One lemma per action
shows that a step of a process keeps the invariant for it, and changes nothing for the others. `SomeoneRuns` asks who wins
a race without end, since a process that failed may start again. `RaceInv` answers: as long as nothing is stopped or fails, all sockets there
are belong to one process, the first of the configuration among them. Another process meets that one at its own
first socket, so it fails with none of its own, and the one ahead meets nobody, at a socket or at the lock. `WithinBudgets` is a fact about `validate` (`ValidFits`): eight tags are at most 2608 bytes (`TagsBounded`, an induction on the
positions the sum has been taken over), so all texts of the sensor at most 2800, which is within the 65536 that `validate` adds to three times the preview. A product grows with its factors (`ProductGrows`), so a full queue of such records is within the budget that `validate` sets for the estimate.

**`ManagementProofs`**, from `ManagementAssumption` and `ProbesAssumption`, for every finite set of clients, every subset of probes and every cap:
`ManagementTypeCorrect`, `ManagementCapHolds`, `ManagementEndsAsPromised` and `HealthCheckTruthful`, all of `HealthSpec`.

*The argument.* `EndsAsPromised` speaks of the end alone. `IInv` adds that serve leaves its loop only with the token
cancelled (`ToldBeforeDrain`), and that trouble is always either in the variable `failure` or in a panicked task that
is still to be joined (`Heard`); `serve` ends with no task left, so then it is in `failure`. The cap holds because
a task is added only below it, and the gauge counts what is served because a guard goes with the task. `HealthTruthful`
rests on `ReplySeen`: a probe that has been told 200, or half of it while the writer's error is not yet counted, has seen a
ready sensor. The gauge goes first and the counter second, and `handle` reads them in that order.

**`LoggerProofs`**, from `LoggerAssumption`, for every finite set of senders, every choice of sinks and every capacity: `LoggerDeliversInOrder`
(`DeliveredInOrder`), `LoggerAccounts` (`Accounting`) and `LoggerEndsClean`: a writer that ends on its own has everything in every sink.

*The argument.* A record moves from `accepted` to the queue to the writer's hand to the sinks. `ChannelInv` says that the queue is what
`accepted` has after the records written and the one in hand, as long as there is a receiver; `SinksInv` how long each sink is in each place
of the writer, and that a write that was given up, and may still land, is of the very next record; `CountsInv` that permits and queued records
together fit the channel and that nothing is unaccounted for but what a failure found under a permit.

**`FileSinkProofs`**, from `SinkAssumption`, for every set of processes, threshold, number of archives, size of line and number of failures:
`LogHasNoHole` (`RetainedIsSuffix`), `TornStaysLast` (`TornOnlyAtEnd`), `FilesStaySmall` (`SizeBound`) and `ArchivesAreKept` (`RetentionFloor`).

*The argument.* At most one process has the log open and its `size` is that of the file (`OwnerInv`); the active file is never torn under a process that has it open
(`TailInv`). `Chain` says what an interrupted rotation cannot destroy: there are cuts of `landed`, one for each file, between two of which each file lies, where a
place that is free lies between two equal cuts. A rename moves one file over a free place and one cut with it. `RetainedIsSuffix` follows. Retention is a count (`KeptInv`): the archives that are there, with the free places
below any of them, make up the archives promised, up to the rotations that were cut off; within a rotation there is room for one more.

**`SensorProofs`**, from `SensorAssumption`, for every finite set of connections and endpoints, every number of permits, capacity of the log and any
faults: `SensorImplementsLogger` (`ImplementsLogger`), `SessionsAreBounded` (`SessionBound`), `ServerLeavesNoSession` (`NoSessionOutlivesServer`),
`ExitStatusIsTrue` (`ExitStatus`), `ReadyzIsTruthful` (`ReadyzTruthful`) and `CleanExitIsComplete` (`CleanExitLosesNothing`).

*The argument.* `UseInv` is how the tasks use the log: a connection is in the hand of one endpoint (`Placing`), only a session between the two halves of `try_send` holds a permit of the channel
(`PushPending`), and a holder of a handle is alive. With it each step of `Sensor` is a step of `Logger` or a stutter, and the invariant of `LoggerProofs` holds of the
sensor's log. For the end of the process, `StopInv` says what the token has told whom, `DrainInv` that an endpoint and the server return after what they own, `BlameInv` that no task fails without a
fault, and `AlarmInv` that no fault is forgotten: until the server has noticed it, it lies where the task that has to notice it will look (`Noticeable`), and from there it goes into the
result of the server and into `outcome`. `LoggedInv` counts that each session calls `log` once, so that a clean exit, which has drained the log, has every session's record.

**`SessionProofs`**, from `IoAssumption` and the assumptions of the handlers, for every set of configurations and requests, all limits and
every way to cut a stream: `RecordsAreTruthful` (`RecordTruthful`), `PrivacyIsKept` (`PrivacyKept`), `SshIsFaithful` (`SshFaithful`), `HttpIsFramed` (`HttpFraming`) and
`HttpIsStrict` (`HttpStrict`).

*The argument.* `SessionInv` has one part for the record and one for each handler. `RecordInv` says what the counters and the preview are of `stream`, and what an event may hold in
each mode (`Private`); that an event of a request shows exactly what its mode allows of that request is `RequestShown`, kept from the moment of the push; that no event is missing takes a bound on the events of each protocol, so `TelnetInv` counts the notices and the attempts that are left. `SshInv` says that the line so far holds no LF and is all of
`stream`, until the LF has been seen; `HttpInv` that no delimiter is in what has been read: a search that starts three bytes before the end of the last read misses none, although a delimiter can be cut. The loops over the bytes of a chunk
are folds (`Scan`, `Identify`, and `parse_request` over the header lines), of which `FoldsOver` and `Solves` say what every solution satisfies at each position. For `parse_request` (`ParsedOK`) that is the first error, or else
how often each kind has occurred, which is what the counts of `WellFormed` say.

**`TelnetProofs`**, from the same assumptions, for every stream, every way to cut it, every `MAX_LINE` and `MAX_ATTEMPTS` and every end of a session:
`TelnetIsFaithful` (`TelnetFaithful`).

*The argument.* The reference takes the whole stream, decodes it, takes its lines and pairs them into logins, each by a recursion that runs
from a position to the end. The handler goes the other way: it sees a byte at a time and does not know what follows. The two meet in statements about
*every continuation*. `DecodedAt` says, of the bytes `s` seen and the decoder's state, that for every `t` the reference decodes `s \o t` into what has been handed on
and then what `t` gives from that state. `LinesAt` says the same of the data, of the line so far and `pending_cr`: the lines that are complete stay, and the next
one begins with `line`. `LoginsAt` says it of the lines, of the logins told and the rounds left. Each is kept by one byte (`LineTaken` and the lemmas for a byte
of its own, after a CR, or inside a command), so by every chunk, whatever its length (`ScanHeard`), and with nothing to follow each is what the reference
says. The invariant `ToldInv` joins the three (`HeardAt`, `Dialogue`) with the record: while the session is open, the redacted logins of
the stream, without a name whose answer has not come, are its login events (`OpenTold`). For the end, `TelnetFaithful` itself is part of it, and
each way out is a case: the client closes or is late, a line is too long, the prompt cannot be written, the rounds are over, `Cancel` comes at an await. The
recursive functions of the reference are shown to exist by a rank that goes down towards the end of the input (`RecursionExists`); that they
are unique is not needed, because every solution satisfies the equations the proof uses.

*Sums and folds.* No `RECURSIVE` operator is in reach of a proof, but `Total`, `BytesOf`, the lengths of the tags, the concatenation of the files and the loops of the handlers are folds of the community modules, which are recursive
functions over sets. What they compute is proved by an induction in set form: a set of numbers that holds 0, and `n + 1` with each
`n`, holds all (`Inductive`, from the well-foundedness of `<`). So the recursion has a solution on the subsets of any finite set (`SumsExist`), and any two solutions agree (`TotalIs`).

*Assumptions.* `SensorAssumption` keeps the kinds of tasks apart, `AdmissionAssumption` has finitely many endpoints and peers, `SinkAssumption` keeps the absence of a file from being one of its
contents, and `StartupAssumption` has at least one process (of none, `SomeoneRuns` could not speak). `DeploymentsAssumption` says that endpoints and tags are sequences and lengths are numbers, `IoAssumption` that `"None"`, which
stands for a text that is absent, is not also a byte, and `TelnetAssumption` has `MAX_ATTEMPTS < MAX_EVENTS` (in the code 3 and 16). All hold of the program: there are at most 32 endpoints, and addresses are finite in number.

*Only model-checked:* liveness (`IdleBucketReclaimed`, `AcceptedRecordWritten`, `WriterEnds`, `StopsWhenTold`, `SlotsComeBack`): fairness and `ENABLED` are beyond the prover. The three runs that expect a violation show one, and nothing is proved of them.

## 6. What is not modelled

- Text: JSON, the Prometheus format, banners, prompts, response bodies, the two encodings of the preview, log messages.
- The bytes of an HTTP request line or header beyond its kind, and UTF-8 replacement in texts.
- TOML and the defaults of the configuration: `Config` starts from the parsed value. `WithinBudgets` takes
  upper bounds of the texts a handler can put in a record, by hand from the handlers' limits.
- Which file types, symlinks and permissions `open_log` and `acquire_lock` refuse; power loss.
- Late landings of an append whose file was rotated away meanwhile, and of a rename that would take the active file from a
  process that has it open (`LateWrites` has the others). `Startup` frees the lock with the sink and says nothing of file operations.
- The order in which other threads see the two relaxed loads in `handle`: they are taken in program order.
- The kernel beyond the overlap of listening sockets: `TIME_WAIT`, `SO_REUSEADDR`, addresses that are not on the machine (an error of the system).
- A panic inside `run` or `run_writer` themselves, and hyper's treatment of a management request.
- Registration and rendering of metrics; argument parsing, `print-config`, `validate-config`: they keep no state.
- Deployment files, documents and scripts.

## 7. Plan

Done: the limiter with its abstract specification, admission, the start of the process with its configuration, logger and file sink, the composed
sensor as an implementation of `Logger`, the management endpoint and the health check, and the sessions with their handlers, each with its proofs; late landings, model-checked.

Every safety and action property of a passing run has its theorem. What could be added is a proof of liveness, for which the prover has
no rules, and a weaker bound on a file that late landings reach.
