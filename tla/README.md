# A TLA+ model of the ZeluxDL download manager

ZeluxDL is a desktop download manager. Its engine (`crates/prism-engine`) fetches files over
many connections, resumes them after a crash, and puts streams together; its core
(`crates/prism-core`) keeps the list of downloads, runs queues, takes links over from the
browser and stores in SQLite what is needed to go on; `prism-video` drives yt-dlp, ffmpeg and
gallery-dl; `prism-torrent` wraps a torrent library; `prism-native-host` is the process between
the browser and the app. The models are about the logic of these parts: what may happen when
their threads, tasks, processes and files interleave, when the program is killed, when a server
changes its mind, and what the decisions that have no state (a playlist, a list of formats, a
repository) must yield.

Contents: 1 inventory, 2 modules, 3 runs, bounds and fairness, 4 proofs, 5 findings, 6 other
disagreements the models show, 7 not modelled, 8 plan.

## 1. Inventory

### Engine

| Part | State | Operations | Interacts with |
|---|---|---|---|
| Segment table (`segmented/table.rs`) | segments `{start, pos, end, req_end, written, extra, owner, racer}` under one mutex | `acquire` (claim / split / race), `advance`, `release`, `on_flushed`, `durable_states` | workers, writer, supervisor, checkpoint |
| Workers (`segmented/worker.rs`) | assignment, cursor, open stream | acquire, open, pump, `on_failure`, retire | table, writer's channel, stop token, host slots |
| Writer (`segmented/writer.rs`) | one buffer per worker, `failed`, the shared memory budget | chunk, flush (checkpoint barrier), close, idle and pressure flush | channel, part file, table |
| Supervisor (`segmented/supervisor.rs`) | `done`, `fatal`, worker set, target, learned limit | spawn, join, ramp-up, probe-up, turbo, end decision | workers, host limits, commands |
| Host limits (`hostlimits.rs`) | active connections, learned and set limits | `acquire`, release, `record`, `set`, expiry | all downloads of a host |
| Rate limiters (`limiter.rs`) | one timeline per limiter | `acquire`, `set_rate` | workers of one download, of all |
| Job (`job.rs`, `transfer.rs`, `resume.rs`, `http/download.rs`) | stop reason, final resume state, part file | `setup`, `request_stop`, `checkpoint`, `end_job`, `finalize` | manager, writer, disk |
| HTTP (`http/*.rs`) | sources, validators, nonces | probe, open, retry, `change_url`, sign-in | server |
| FTP (`ftp.rs`) | control connections | probe, RETR, reuse | server |
| Streams (`media/*.rs`) | plan, segment files, completed list, key cache | resolve, fetch, checkpoint, concatenate, mux, place | workers of its own, ffmpeg |

### Core, video, torrents, browser

| Part | State | Operations | Interacts with |
|---|---|---|---|
| Manager (`manager/mod.rs`, `jobs.rs`, `db.rs`) | `items`, `jobs`, `dirty` under one mutex; rows; files | start, pause, delete, redownload, trash, restore, duplicates, groups, `handle_outcome`, `progress_tick`, `checkpoint`, restart | jobs of every kind, database, callers on many threads |
| Queues, scheduler (`manager/queues.rs`, `scheduler.rs`) | `running`, `queue_was_busy`, admission lock, last tick, power action | start, stop, `admit`, `queue_tick`, move, `run_post_action` | manager, clock |
| Captures (`manager/capture.rs`) | pending captures, probes, dialogs | take over, probe, confirm, cancel, batch | extension, user, resolver, manager |
| Grabber (`grabber.rs`, `manager/grab.rs`) | frontier, seen, limits, stop flags, projects | crawl, stop, collect | site, database |
| Settings (`manager/mod.rs`) | settings, engine configuration | update, apply, find ffmpeg | all parts |
| Clipboard (`clipboard.rs`) | last change number, last text | poll, offer | system, window |
| Video jobs (`manager/jobs.rs`) | slots, streams, stop kind | run, fall back to yt-dlp, post-process | engine, `prism-video` |
| `prism-video` | tools directory and marker, processes, cookie files | probe, run, install, sweep, mux | external programs |
| Torrents (`prism-torrent`, `jobs.rs`) | session, torrents | add, watch, pause, delete, move | library session |
| Browser link (`prism-core/ipc.rs`, `prism-native-host`) | `ipc.json`, its cache, launch lock, manifests | message, launch, retry, register | browser, app |

### What is hard

Workers cut segments other workers are receiving into. Data is accounted before it is written,
written out of order and synced later still, and a checkpoint runs through the same channel as
the data. A crash may fall anywhere. Downloads share names in a folder, slots of a host, memory
and bandwidth. In the manager every command is a series of short critical sections with
database writes in between, on several threads: a row written last need not be the newest.
Jobs, sessions, processes and the browser outlive or miss one another. `PROJECT.json` lists
each hazard at its line with the properties that cover it.

## 2. Modules

| Module | Models |
|---|---|
| `SegmentTable` | the methods of the segment table, as operators on a sequence of segments |
| `SegmentedTransfer` | workers, writer, supervisor, end, resume and crashes of one download (EXTENDS `SegmentTable`) |
| `DurableDownload` | abstract: claimed bytes, durable bytes, finished; `SegmentedTransfer` implements it |
| `HttpDownload` | sources, validators and answers of an HTTP download; one stream or ranges |
| `HttpAuth` | Basic, Digest and NTLM of the requests |
| `FtpDownload` | control connections with two replies per transfer, resume against a changed file |
| `HostConnections` | slots of a host, supervisors' targets, learned limits |
| `WriteBudget`, `RateLimiter` | memory and bandwidth all downloads share |
| `MediaJob` | one HLS or DASH job from manifest to placed file, with crashes |
| `MediaPlan` | HLS playlists and DASH manifests to tracks and segments (decisions) |
| `DownloadFolder` | files of downloads that want one name: claim, place, delete, kill, row |
| `DownloadManager` | items, rows, jobs, outcomes, checkpoint, commands, one queue |
| `ItemList` | trash, groups, duplicates by content, moves, restart for an update |
| `QueueSchedule`, `QueueOrder` | schedules, power actions; positions |
| `Captures`, `ProbeCache` | from a link to an item; the cache of page probes |
| `SiteGrabber` | crawl, collector, projects |
| `LinkResolver`, `HuggingFace`, `PostMedia` | decisions: sharing links, models, media of a post |
| `VideoJob` | slots, streams, fallback, stops of video jobs |
| `YtDlpRun` | one call of yt-dlp: attempts, cookies, processes, output |
| `PostProcess`, `VideoTools` | files around ffmpeg; installing and sweeping programs |
| `VideoChoices`, `ChapterMarks` | decisions: formats to choices, plans and arguments; chapters |
| `Torrents` | items against a session that outlives them |
| `BrowserLink`, `HostRegistration` | messages over two processes; browsers' manifests |
| `SettingsStore`, `ClipboardMonitor` | updates and their application; polls and offers |
| `MC...` | instances for TLC |
| `SegmentedTransfer_proofs`, `Durability_proofs` | theorems about the table's operators and the transfer: types, the table's shape, who holds what; what is on disk, the end of a run and the refinement (the second EXTENDS the first) |
| `Fetchers_proofs` | theorems about HTTP and FTP downloads: types, one version in a file, one answer in a stream, nonce counts, replies |
| `MediaJob_proofs` | theorems about HLS and DASH downloads: types, outputs, foreign files |
| `DownloadManager_proofs` | theorems about the manager: types, deletions, the map of jobs, admission |
| `DownloadFolder_proofs` | theorems about the files of one name: part files, completed rows, files in place |
| `VideoJob_proofs`, `ProbeCache_proofs` | theorems about the slots and streams of video jobs, and the locks of the probes |

A step of a module is what happens under one lock, between two awaits, or between two calls
that reach the disk or another process. Every definition that models code is listed with its
lines in `PROJECT.json`, `map`; a helper that stands within the lines of the definition that
uses it has no entry of its own there.

### SegmentTable and SegmentedTransfer

A table is a sequence, since an index is stable in the code too.

- A worker is `idle`, `open` (about to request), `pump` (receiving), `hand`/`last` (a chunk is
  accounted in the table and not yet submitted: the two calls in `pump` are separate steps
  because other threads run in between), or leaves as `fatal`/`gaveup`. `Receive` is `advance`,
  `Submit` is `Writer::submit`, `EndOfRange` the complete response, `Fail` is `on_failure`.
- Speeds decide whether a tail is raced and how long a request is. Both are free choices; the
  answer of a server is a free choice too (a shorter range, a failure, a source to reopen).
- The writer takes one message at a time. `TakeChunk` is `add` with every branch of it,
  `FlushBuffer` writes one buffer, `Finish...` ends a flush with what its caller asked for:
  fsync and states for a checkpoint or the end of the job, close for `finalize`. Memory pressure
  is a free choice after any chunk. A write and an fsync may fail when `WriteMayFail`.
- `disk` is what the operating system has, `synced` what survives a power loss; `Crash` keeps
  `synced` and any part of the rest, and nothing else but `saved`, the row of the download.
- `AskCheckpoint`, `FinishCheckpoint` and `SaveCheckpoint` are separate: an answer may be
  stored after the job has ended, after the next run began, or never.
- `StartFresh` with a saved state is the part file that failed `verify_against_disk`
  (`PartFileMayVanish`).

`DurableDownload` is what whoever keeps the resume state may rely on: claims are durable,
durable bytes stay, and finishing means that every byte is durable. `SegmentedTransfer`
implements it under `claimed <- Claimed(saved)`, `durable <- synced`,
`finished <- phase = "complete"`.

### What the other engine modules refine or abstract

- `HttpDownload` leaves who takes which block to `SegmentedTransfer` and keeps what that module
  leaves free: the version each answer is of, the validators compared, links that expire or
  are replaced, mirrors that serve the version before, the stream without ranges that starts
  over. A block holds the version it was received from.
- `HostConnections` keeps the number of workers in each state. The notification of the slots is
  modelled with its registration (`Notified::enable`) so that a missed wake-up would show.
- `WriteBudget` has one worker per download; chunks sit in the channel, then in the buffer, and
  return their permits with the write. `Shrunk` is the change of the budget, which waits.
- `MediaJob` keeps what resuming can tell of a segment's file: its manifest, and whether it is
  synced, cached or torn. `WriteTemporary`, `SyncTemporary`, `RenameTemporary` are separate.
- `DownloadFolder` composes `transfer.rs` and the manager's rows: the job chooses, claims and
  moves, `handle_outcome` and the scan change the row, and a kill falls in between. Nothing
  orders a job's look for a free name (`unique_path`) and its claim of the part file
  (`create_part_file`) against the others: another may choose, claim, transfer, place its file
  and report in between. `late` records that a name was claimed whose file came after the look.

### DownloadManager

A thread of the runtime runs a command; `thread[t]` holds where it is and the items left. Each
action is one critical section of the state mutex. `with_item` changes the item in its
critical section and gives a copy to the database after it: the copy waits in `write[a]`, and
`Persist(a)` is the database statement. Jobs run until asked to stop or by themselves
(`JobEnds`), report (`JobReports`), and `handle_outcome` takes the outcomes one by one with an
await for the virus scan between two of its writes. `Saver` is the two-second checkpoint:
collect the jobs, wait for each answer, then clone the dirty items and write the copies.
`Ticker` is the one-second task: admission, then `detect_finished_queues`. Connecting,
Downloading, Retrying and Processing are one status, "active" (`Status::is_active`). What an
item holds apart from its status is whether it has a resume state. `ItemList` follows what is
on the disk where `DownloadManager` follows locks and rows.

### Notes on the other modules

- `Captures`: how long the extension waits for the answer is the state of the connection it has in
  mind (`actionTimeout`: 5 s or 12 s, `KnownTime` and `UnknownTime`); whether the app is up is
  another matter, and if it is not, the native host launches it first (8 s and its look at the
  app's health, `LaunchTime`) and only then does the app try the link (2.5 s, `TryTime`). In units
  of 2.5 s that is 2, 5, 4 and 1. An app that is up answers before the extension gives up; one
  that is launched for the message may answer after it, and then has the download too (section 6,
  `AnswersInTime`). `DownloadedOnce` says that nothing else leads to it. Nobody tells the host or
  the app that the extension went on, so `GiveUp` only sets `gaveUp`.
- `ProbeCache`: a caller looks at the lock's count under the mutex of the map (`CheckLock`) and its
  own reference goes after it (`DropLock`), so that two that leave together leave the lock in the
  map; so does a request that is dropped while it waits or probes (`Dropped`). The next one finds
  and uses it.
- `VideoJob`: a stop sets its kind, whatever stop came before, and asks the streams in calls of its
  own (`asking`), which those of another stop may fall between.
- `YtDlpRun`: the two fallbacks are nested as in `run_ytdlp` and `run_ytdlp_opts`: the settings
  are read at each outer attempt. yt-dlp and its ffmpeg exit when they like or never. The output
  is taken to end with the last process of the tree, that is, ffmpeg keeps yt-dlp's pipes; one that
  closed them and outlived yt-dlp would be reached by nobody (`Spawned::drop` signals the group
  only while the direct child runs, `process.rs:93`).
- `BrowserLink`: two apps never listen on the same random port. An `ipc.json` is known by its
  stamp, which two of them may share.
- `HostRegistration`: Opera reads Chrome's places too, so that registering it makes them, as in the
  code.
- `ClipboardMonitor`: a copy made while the thread starts is left out.
- `SettingsStore`: `Core::start` applies the settings before any command comes.
- `MediaPlan`, DASH: addresses are the references joined, times are in units of the timescale; the
  offset of a timeline's presentation time is left out.

## 3. Runs

| Run | Module, cfg | Shows |
|---|---|---|
| `transfer` | `MCSegmentedTransfer`, `Transfer.cfg` | two workers, four bytes, one run: partition, no lost byte, `written` is on disk, holders are at work, only whole files complete, progress is kept |
| `recovery` | `TransferRecovery.cfg` | two runs, a crash anywhere, a checkpoint: the saved state is durable and the transfer implements `DurableDownload` |
| `stop` | `TransferStop.cfg` | liveness with disk errors: a stopped or completely received run ends |
| `manager_commands` | `DownloadManager`, `ManagerCommands.cfg` | every command on one item, two in a row, a checkpoint, and jobs that end before they are mapped: types and each outcome once, a deleted item stays gone |
| `engine` | `MCEngine`, `Engine.cfg` | safety of the engine and of `prism-video` |
| `core` | `MCCore`, `Core.cfg` | safety of the manager and its services |
| `progress` | `MCProgress`, `Progress.cfg` | liveness of everything in which something waits; in the manager every live job is in the map or about to be |
| `write_error` | `TransferWriteError.cfg` | violated: the state saved after a failed write or fsync claims unsynced bytes |
| `part_file_lost` | `TransferPartFileLost.cfg` | violated: an old state is resumed over a new part file |
| `manager_completion` | `ManagerCompletion.cfg` | violated: a checkpoint's older copy overwrites the row of a completed item |
| `manager_redownload` | `ManagerRedownload.cfg` | violated: the outcome of the old job unmaps the new one |
| `restart_tail` | `MCHttp`, `HttpTail.cfg` | violated: a restarted stream keeps the tail of the attempt before |

**The composite runs.** Parts that share no state are checked in one run: `machine` says which
part a behaviour is of, and it never changes. `MCCore` extends `DownloadFolder` and `MCEngine`
extends `VideoJob` and `MediaJob`, whose variables are at rest in the other machines; those take the first of
`x1`, `x2`, ..., substituted in an `INSTANCE`. The run explores the sum of the parts' state
spaces, not their product, and each property is a conjunction of statements
`machine = "..." => Part!Property`, or one of the module that is extended, by its own name.
Decisions (playlists, templates, formats, chapters, links, repositories, posts) are evaluated on
every input of a bounded set: the first step picks the input, the property compares the operator
translated from the code with a reference stated otherwise.

What `engine` checks:

| Property | Machines | Statement |
|---|---|---|
| `EngineTypeOK` | all | types |
| `MediaOutputOK` | media | a finished stream is all segments of one manifest; no two segments share a file; a segment saved as done is on stable storage |
| `OneVersionOK` | http, plain, ftp | a file is of one version of the resource where the server lets one tell, through pauses, mirrors, expired links; one stream of known length is one answer; a reply read on an FTP connection belongs to the command |
| `ConnectionsOK` | host | counters agree with the workers; no waiter sleeps beside a free slot; no failure without work left |
| `SharedLimitsOK` | budget, rate | no byte of memory lost or counted twice; no more bytes than the rate |
| `SignInOK` | auth | a nonce count is used once; a right password gets in |
| `StreamPlansOK` | streams | segments, keys, ranges, timelines, templates, variants |
| `SlotsAreExact`, `NoStrayStream` | videos | the slots in use are those of the videos at work; no stream goes on that nobody can stop |
| `VideoFilesOK` | calls, post, tools | nothing outlives a call of yt-dlp; the session is given up only for cause; missing cookies are explained; streams or output are there; a usable tool was verified |
| `VideoChoicesOK` | choices, marks | choices, plans, arguments; chapters |
| `FilesKept` | media, tools | foreign files, and the yt-dlp in use, are kept by every step |

What `core` checks:

| Property | Machines | Statement |
|---|---|---|
| `CoreTypeOK` | all with a type invariant | types; each outcome is sent once |
| `AdmittedWithinLimit` | queueing | two items, one slot; start, stop and pause beside the tick: the slots are not exceeded |
| `CapturesOK` | captures, again, probes | a waiting capture has its probe; what was accepted is kept; downloaded once, except by a browser that went on while the app was launched; a page is probed by one request at a time, however locks come, go and stay behind |
| `PartsNotShared`, `CompletedHasFile`, `FinishedKept` | folder | part files are not shared and a completed row names the item's own file, unless something is deleted or overwritten, and after a kill where all rename and no claim was late (`Undisturbed`); a file in place is not replaced |
| `ItemListOK` | list, torrents, order | at work means a job; duplicates have an original; a batch is announced once; no torrent without its item's job; moves keep the order |
| `ServicesOK` | browser, registry, settings, clipboard | launched once; handled once; no false alarm; registration repairs; updates one at a time, also after some that overlapped, are saved and in force; no copy is slept through; offered once |
| `AddressesOK` | crawl, links, hub, posts | a crawl's completeness, depth and limits; same file and idempotent; one model, whole; every medium once |
| `NothingUndone` | list, registry | content outlives the duplicate check, a restart continues, other browsers stay registered |
| `MomentsFire` | clock | of the queues that do not run, a tick starts exactly those with a moment in its window |

What `progress` checks, each machine with its own fairness: `ManagerSettles` (an item whose job
ended does not stay active; a command comes to its end), `StoppedJobEnds` (media),
`SharersGetTheirTurn` (host: every download ends; budget: memory comes), `AskedIsAnswered` (a
video reports, a given-up yt-dlp call ends, the native host exits after its browser closed the
port); and, of every state of the manager's two machines, `LiveJobsAreMapped`.

**Bounds.** Each is a constant named `Max...` or a small set, and is chosen so that the case
the property is about happens.

- *Transfer.* Two workers are enough for every relation the table has: an owner and a racer, a
  victim and a thief, a worker that leaves and one that takes over. `Transfer.cfg` has four
  bytes, splits of at least two and requests of two or three: a fresh file is split at the
  midpoint while a request reaches beyond it, pieces too small to split are raced by a second
  worker that may fall behind or get ahead, chunks of one or two bytes cross a shrunk end, and a
  write buffer of three bytes makes buffers coalesce, wait, overflow and be replaced. A split
  behind the request in flight needs a fifth byte and five times the states; with it the
  run passes too (two and a half minutes), and `SplitPointInside` is proved for both. It takes no checkpoint: to the
  table a checkpoint's flush is the flush of an idle writer, which it has. Two bytes are
  enough where crashes or disk errors are added, since what matters there is one byte claimed
  and not synced.
- *Manager.* In `core` ("queueing") two items compete for one slot; two jobs let an old and a
  new job of an item coexist; `MaxCommands` bounds the commands. `manager_commands` takes one
  checkpoint, the others none: a checkpoint touches rows and the resume flag only.
  `EarlyOutcomes = FALSE` leaves out a job that reports before its starter has put it into
  the map, in all but `manager_commands` and the theorems. Two starters of one item do violate
  `LiveJobsAreMapped`, so `progress` checks it with one caller, and without the queue or with
  one job; deletions beside a running queue violate `AdmittedWithinLimit` (section 6), so
  "queueing" has none.
- *Engine.* Two downloads, two workers or tasks, two or three blocks or segments, two versions
  of a resource, one fault, crash, kill or change, and two runs where something is resumed. The
  HTTP download comes twice: "http" is a server with strong ETags whose links expire, "plain"
  one without validators and one without ranges. `MediaJob` has one segment in each of two
  tracks with a key each. The connection machine has a download with two units of work and
  one with one, on a server that serves two connections. Video jobs get two commands, so that a
  second stop comes while the first asks the streams.
- *Core.* Two items of one name with all three conflict policies, a kill, and four starts, of which
  a foreign file or a deletion takes the place of one: both items can be at work, be killed with
  their rows as they are, and both be at work again. Three starts suffice for a late claim to break `CompletedHasFile`, and
  four for `PartsNotShared`, when `~late` is left out of `Undisturbed`. Three requests for one page,
  one that probes, one that waits with its lock and one that finds the lock gone or left behind;
  three list entries of which two have one content; a day of six time units with leaps up to five; a site of twelve pages with circles and two ways to most pages; two
  messages, two instances and a death of the app; five browsers that share places; two
  updates with different contents. The machine "again" of the captures has a capture that is
  probed a second time with its cookies, and the times of the hand-off in proportion; "captures",
  which has all kinds of links and dialogs, has a launch of one unit after which the answer may
  just come too late.
- *Progress.* The same machines at smaller bounds, as liveness needs the whole graph: the manager
  with two starts, pauses or deletions and two jobs ("manager"), and with two of
  redownload, start queue and stop queue and one job ("queueing"); the media
  job with one retry, the host with no faults but unjoined workers, two videos of one stream
  and one of two, the browser once with a death and one message and once with two messages.

Workers are symmetric in `engine`, `transfer` and `recovery`, as are the videos in `engine`; in
`core` the items of "queueing", "folder" and "torrents" and the messages of "browser".
Symmetry is never used with a liveness property or with properties
that name one of the symmetric values.

**Fairness.** What is assumed is what the tokio scheduler, the threads of the operating system
and the standard library's locks give; nothing is assumed of the user or of the disk.

- `SegmentedTransfer`: a worker that has a chunk to submit or sees the stop token is polled, the
  writer thread is scheduled, the supervisor's loop goes round, an outcome is handled. Nothing
  is assumed of the network, so a run need not end by itself.
- `DownloadManager`: threads, reporters, database writes and the outcome task that can go on do
  so; nothing of how long a job runs. A caller that wants the admission lock gets it when it is
  free again and again (parking_lot's mutexes are eventually fair); without this `start_queue`
  may wait forever behind the tick, as TLC shows.
- `MediaJob`: workers and the coordinator are polled; an answer from the network is not assumed,
  which is why a stop must reach a worker that waits for one, or for the key's lock.
- `HostConnections`: workers, timers and the supervisor are polled. Here the server serves or
  refuses (`EveryDownloadEnds` is about slots); a download's `Begin` is strongly fair, for the
  slots it needs come and go.
- `WriteBudget`: the writer threads run; an idle flush comes when the channel is quiet, also
  while a worker waits for memory.
- `VideoJob`: the job's task is polled, and what it waits for ends: a stream of the engine and
  a call of yt-dlp have retries and time-outs of their own and can be stopped.
- `YtDlpRun`: the call's task is polled; nothing is assumed of yt-dlp.
- `BrowserLink`: threads of the host run, a thread that wants the launch lock gets it when it is
  free again and again, an app that was launched comes up or is given up after the wait.

## 4. Proofs

`tlapm` checks every theorem and lemma. None assumes anything of the constants but the named
ASSUME of their module, except where an assumption is given below.

**The table** (`SegmentedTransfer_proofs`).

- `SplitPointInside`: a splittable segment is cut strictly inside its unreceived part.
- `FlushedSegmentFlushed`: `on_flushed` moves `written` only over flushed bytes, in whatever
  order the flushes come.

**The transfer**, for any set of workers, any file size, alignment, chunk and buffer size.

- `TypeCorrect`: `Spec => [](TypeOK /\ AssignedInTable)`. The type invariant is not inductive
  alone: that a worker, buffer or message names a segment that exists (`AssignedInTable`) is
  needed for the table's updates to keep their type.
- `TablePartitionsFile`, `ProgressKept`, `SavedStateValid`: the segments cover the file without
  gap or overlap with their frontiers in order, no step of a run takes progress back, and
  every persisted state passes the validation at the next start; also with disk errors and
  crashes. `PartitionInvariant` adds to the shape of the table where each accounted piece is on
  its way: a piece in a worker's hand, in the channel or in a buffer ends below the receive
  frontier of its segment, for else its flush could push `written` past `pos` after a split.
- `HoldersAtWork`: no segment is left to a worker that is gone or elsewhere. A worker leaves a
  finished segment without a release, so `HoldersInvariant` adds that a finished segment is
  unheld, and that a worker with its last piece in hand is on a finished one.
- `SavedStateDurable` and `WrittenOnDisk`, with `~WriteMayFail` and `~PartFileMayVanish`: the
  persisted state claims synced bytes only, and what counts as written is on disk.
  `DurabilityInvariant` says of every segment that what its `written` frontier and its `extra`
  range count is on disk, of every answer on its way (`ckpt`, `final`) that it claims synced
  bytes only, and that synced bytes are on disk; the frontier argument is
  `FlushedSegmentFlushed`, a split shrinks a claim and never extends one, and a crash keeps
  what is synced.
- `ClosedAfterLastChunk`: when the writer closes, no chunk is left in the channel, whether or not
  writes fail. `EndInvariant` is the order in which a run ends: workers are joined before the
  writer is asked to flush or close, and only checkpoints are asked for after that.
- `ReceivedHeld`, `CompleteWhole`, under the two assumptions: every accounted byte is with a
  worker, in the channel, in a buffer or on disk, and a download that is reported complete has
  every byte synced. `CompletionInvariant` joins all of the above: what is received is held
  (`AllHeld`), nothing is held outside the disk once the writer closed, closing synced the
  disk, and a table that is done accounts the whole file.
- `ImplementsDurable`, under the two assumptions: the transfer implements `DurableDownload`. Each
  step stores, records, finishes or is a stutter of the abstract download.

The assumptions `~WriteMayFail` and `~PartFileMayVanish` are necessary: `write_error` and
`part_file_lost` are the counterexamples without them.

**The manager**, for any sets of items and callers and any number of jobs, commands, slots and
checkpoints, and whether or not jobs may report before they are mapped.

- `ManagerTypeCorrect`: types, and the channel of outcomes holds each job's outcome once.
  `ManagerInvariant` adds what threads, handler and channel point at: an item in hand exists, a
  job in hand was started, a job in the channel was sent and is there once.
- `DeletedItemsStayGone`: nobody who still has an item in hand puts it back after its deletion,
  whichever commands are given.
- `JobsAreMapped`: every running job that nobody cancelled is in the map or about to be put there by
  its starter. `JobBook` counts a job as open until its outcome is taken from the channel, for
  it is then that the map's entry goes: an item has one open job at most, that job is mapped
  or in its starter's hand, or its item is being deleted, and who is about to start an item
  finds no open job of it. This needs that no two threads start items, or start and delete, at
  once (`Serial`). It follows where one caller gives `start`, `pause` and `delete` and no
  queue runs (`OneByOne`), and where items are started by admission only, under its lock,
  whatever threads start, stop and pause (`ByAdmission`). The theorem assumes
  `OneByOne \/ ByAdmission`. Neither is a property of the program: two starters of one item,
  a deletion beside a running queue, and `redownload` do violate the statement
  (`manager_redownload`; sections 5 and 6). The theorem says that nothing else does.
- `AdmissionWithinLimit`, under `ByAdmission`: the queue never runs more downloads than it has
  slots. The bound is not inductive: admission counts items by status and map, not jobs, and an
  item that was admitted has neither until its start got that far. `Capacity` counts both as
  taken, the items with a running job and those claimed by a thread between admission and
  start. Only `Admit` takes slots; as it finds the lock free nobody is between, so by `JobBook`
  every running job is in the map and was counted.

**The folder** (`DownloadFolder_proofs`), for any number of downloads, names, starts and files of
other programs. `FolderConstants` says that the bound of the numbers is a natural, that the
policies are among the three and that no item is called what stands for nobody.

- `PartsApart`: no two downloads write one part file. Two cases are proved, those of
  `Undisturbed`, in both of which nothing is deleted and nobody overwrites: the program is not
  killed, however old the look by which each chose its name; and all rename and no name was
  claimed that had got its finished file since the look (`~late`), through any number of kills.
  The code does not exclude a late claim. It is an assumption of the second case, and needed:
  with it and a kill, with "fail" and a kill, with a deletion, or with overwriting, part files
  are shared (section 6).
  The statement is not inductive: a resumed download whose part file is gone makes it anew under
  the same name without looking (`Resume`, then `Claim` of a fixed name). `FolderInv` follows
  every name an item uses or has in its row or in the database. Where all rename and none was
  late, the part file of such a name is the item's own, or it is gone and the name is barred by a
  finished file, and no other item uses that name (`RenamersApart`). Otherwise a name may be
  claimed without that bar, and the part file in hand is the item's own only while nothing is
  read back after a kill (`CarefulApart`).
- `CompletedRowsTrue`: a row that says completed names the item's own file, under the same
  conditions, from `FinishedOwn` (from the link that puts the file in place to the row).
- `FinishedFilesKept`: a file in place is taken away by a deletion or by a download that was told
  to overwrite, without any condition.
- `FolderTypeCorrect`: the type invariant.

**Video jobs** (`VideoJob_proofs`), for any finite set of videos, any plan and limits.

- `SlotsExact`: the slots in use are those of the videos at work. It is inductive with the types;
  each step moves one job into or out of `Holding` or wakes jobs that wait.
- `NoStrayStreams`: beside the yt-dlp that replaces them and after the report no stream runs that
  was not told to stop. `StreamsInHand` adds that one stream was told only when all of its video
  were, that a stream ends paused or cancelled only when it was told, and which may run in a
  phase: none before they are started, none that was waited for, none while ffmpeg joins them.
- `VideoTypeCorrect`: the type invariant.

**Probes** (`ProbeCache_proofs`), for any finite set of requests and any set of pages.

- `PageProbedOnce`: a page is probed by one request at a time, and none probes a page that has a
  recent answer. That locks do not stay behind is not part of it; they do, when two leave
  together or a request is dropped. What matters is that a lock somebody waits for is not removed
  while another is made for the page: `ProbeInv` says that whoever has a lock to wait for, to hold
  or to look after has the one the map keeps for its page (`LockOfPage`), that two pages never
  have one lock (`LocksInUse`), and that a held lock is held by one request (`HeldByOne`).

**Streams** (`MediaJob_proofs`), for any set of workers, any division of any number of segments into
tracks, any manifests, names, runs and power losses, and each policy.

- `MediaOutputCorrect`: `MediaSpec => []MediaOutputOK`, the statement `engine` checks of the machine
  "media". None of its parts is inductive alone. `SegmentsPlaced` says that no segment is at two
  of queue, done and the workers, that a worker which ended well left an empty queue, that
  without a failed worker no segment is nowhere, and that the work ends with all done.
  `FilesDurable` follows the files: under its name a segment's file is on stable storage or not
  there; those of `done` are whole and of the job's manifest; a state saved while a job works is
  of its manifest and directory; and what the saved state and the one on its way to the owner
  call completed is of their manifest or was lost with its directory entry, which the next start
  sees. `TracksWhole` carries this to the tracks that were put together, and so to the output.
- `ForeignFilesSafe`: unless the policy is "overwrite", no step replaces a file that is not the job's.
- `MediaTypeCorrect`: types, and which states of a worker go with a segment.

**HTTP downloads** (`Fetchers_proofs`), for any number of workers, blocks, versions, retries, faults,
expiries and runs, and any of the kinds of servers. `HttpConstants` says that the first worker is
0, that workers are numbers, that there is a block and a version, and how a mirror is called.

- `OneVersionKept`: `Spec => []OneVersion`. The property speaks of the part file only.
  `OfKnownVersion` adds that every body being received is of the version the run knows, that this
  is the server's version wherever no ETag will tell, and that a part file which passed the
  comparison of the overlap is of the server's version. `SetUpAlone` is needed where `known`
  changes: at the first answer one worker is at work, and its request went to the link and not to
  a mirror, whose content is only taken to be what the run began with.
- `StreamIsOneAnswer`: where the length is known, a file that came in one stream is one answer of the
  server. `OneStream` says that the blocks behind the stream are of the answer it reads and that
  whoever asks again asks for the first block, which needs that no second worker, mirror or
  change of address exists there. Without a known length the statement is false (`restart_tail`).
- `HttpTypeCorrect`: the type invariant.

**Authentication** (`Fetchers_proofs`), for any number of fetchers, any schemes and any faults.

- `CountsNeverRepeat`: `Auth!Spec => []CountsAreFresh`. `StampsApart` follows a nonce and its count
  from the moment a request is built: the stamps on their way differ from each other and from those
  the server saw, and none is ahead of the shared client's count. A challenge starts the count again,
  which is sound because its nonce was never given out before. `HandshakeWanted` is needed for the
  third leg of NTLM, whose refusal brings no nonce: it never comes to start a count.

**FTP downloads** (`Fetchers_proofs`), for any number of workers, blocks, versions, faults and runs.

- `FtpRepliesMatch`: `Ftp!Spec => []RepliesMatch`. A connection that may be used again owes no
  reply (`CleanIsQuiet`).
- `FtpChangeIsFound`: `Ftp!Spec => []PausedChangeIsFound`. `OfSavedVersion` ties what was received to
  the version in the resume state, and what is on the way to the server's. `AtWork` says that nobody
  receives outside a run and that a resume state is only kept of a server with REST.

Only model-checked: the types of the composite runs, which are conjunctions over their machines, and
all properties of the other modules; and `FinishedQueueHadItems` and `CompletionSurvives`, which do
not hold. `AdmittedWithinLimit` is checked by `core` with two callers; the theorem has it under
`ByAdmission`, as the bound fails beside deletions (section 6). Liveness under fairness
(`StoppedRunEnds` and all of `progress`) and statements with ENABLED stay with TLC, and what a
recursive definition computes is out of the prover's reach: playlists, formats and repositories
are checked on all small inputs. No module that is proved about has a RECURSIVE operator.

## 5. Findings

The five runs that end in a violation check statements of the repository's own comments and
documents; `PROJECT.json` quotes them under `findings`.

- `write_error` (`job.rs:223`): the state that stands in for a failed last flush counts bytes
  that were written and never synced.
- `part_file_lost` (`http/download.rs:309`): a part file is started over while the row keeps the
  old resume state.
- `manager_completion` (`manager/mod.rs:1102`): copies of rows are written outside the lock, and
  an older one may be last.
- `manager_redownload` (`manager/mod.rs:1205`): an outcome unmaps whatever job has its item's id.
- `restart_tail` (`segmented/worker.rs:306`): a stream of unknown length that is started over and
  is shorter the second time completes with the end of the first attempt behind it.

## 6. Other disagreements the models show

Each of these is a definition of its module, a statement of a comment, that TLC violates at the
bounds of the runs or those named here. They are in no run.

| Property | Source | What happens |
|---|---|---|
| `DownloadManager!FinishedQueueHadItems` | `queues.rs:222` | a tick between the lock sections of `start_queue` reports the queue finished, and its power action runs, before its items are queued |
| `DownloadManager!AdmittedWithinLimit` (one item, two callers, `startQueue` and `delete`, three jobs, four commands) | `queues.rs:282`, `mod.rs:1205` | an item put in the queue while it runs is admitted again while it is being deleted; the outcome of its cancelled job unmaps the new one (section 5, `manager_redownload`), which is not counted any more |
| `DownloadFolder!DeletesOwnFiles` | `manager/mod.rs:896`, `1632` | an item deleted with its files before its job reported the name it chose takes the file of that name in its row, another's |
| `DownloadFolder!PartsNotShared` and `CompletedHasFile` without `~late` in `Undisturbed` | `transfer.rs:91` | a job finds a name free, another claims it, transfers and places its file, and then the first claims the part file of the name, which is free again; killed before the other's outcome is saved, both rows name it: both resume on one part file, or one completes with the other's data |
| `Captures!AnswersInTime` | `capture.rs:1437`, `1982` | the extension takes the app to be up and waits 5 s, the native host has to launch it and may take 8 s; the app's answer comes when the browser has gone on with the download, and both have it |
| `HostConnections!LearnedLimitHolds` | `hostlimits.rs:128`, `supervisor.rs:158` | a refused supervisor records the connections it has itself, though others of the host have more |
| `VideoJob!StopReachesStreams` | `jobs.rs:1051` | a stop that comes while streams are being started, before their handles are kept, reaches none of them |
| `VideoTools!RunningBuildKept` | `tools.rs:1052` | an update sweeps the build that a running yt-dlp was started from, when the system lets it |
| `HttpDownload!NewLinkUsed` | `http/download.rs:363` | after `change_url` an answer still on its way from the old link makes its target the source again |
| `SiteGrabber!RunningCrawlStops` (`MaxRuns` 2) | `grab.rs:85` | the collector of an earlier crawl removes the flag by which the new one would be stopped |
| `HuggingFace!SuggestionLoads` | `huggingface.rs:690` | weights are suggested from a folder without the files that belong to them |
| `PostProcess!FinishedVideosKept` (one name for two videos) | `jobs.rs:1231` | two videos of one name write one temporary file and replace one output |
| `QueueSchedule!FiredOnce` (`MaxBack` 1) | `scheduler.rs:6`, `queues.rs:326` | a clock set back lets a moment fire twice |
| `QueueSchedule!CancelledIsNotDone` | `queues.rs:399`, `415` | a second power action replaces the token through which the first is cancelled |
| `Torrents!ContentWhereSaid` | `prism-torrent/src/lib.rs:177`, `jobs.rs:1403` | a torrent the session has already keeps its folder, and the item is told its row's |
| `ItemList!DuplicateHasOriginal` | `model.rs:188`, `mod.rs:879` | the original of a duplicate is moved, deleted or replaced |
| `RateLimiter!OldRateForgotten` | `limiter.rs:101` | a rate read before a change is reserved after it |
| `SettingsStore!FfmpegKept` | `jobs.rs:1641` | a configuration built before ffmpeg was found is pushed after the one with it |

Smaller ones seen while reading, stated nowhere: renaming an item replaces a file of that name
(`mod.rs:652`); `remove_deleted_files` may remove an item that was started again meanwhile
(`mod.rs:855`); `delete_category` does not persist the items' new category (`queues.rs:61`); a
stop moment crossed in the tick of a start is lost (`queues.rs:334`); two media of a post that
differ only in the query are one (`gallery.rs:377`); a yt-dlp job cancelled after yt-dlp moved
its file reports "stopped" though the file is there (`probe.rs:444`).

## 7. Not modelled

- *Small engine parts* (back-off, speed meters, checksums, request and configuration types):
  arithmetic over wall-clock time, or data without a protocol.
- *Categories, events, platform, antivirus, paths*: configuration and operating-system calls.
- *Desktop shell, user interface, test server*: presentation and test support. The commands of
  the shell are the environment of the modules of the core.
- *Browser extension*: runs in the browser; its hand-off is in `Captures`.
- Parsers: HTML, JSON, XML and header parsing, names by template, and what is fetched only to
  be parsed (pages of the link resolver). The decisions start from what the parsers give.
- Cryptography and protocols of libraries: decryption of segments, TLS, NTLM's and Digest's
  hashes, librqbit. They are external definitions or free choices.
- Of the transfer: speed meters and request sizing (free choices), the stall watch, checksums.
- Of the manager: labels, statistics, the event listener's writes of what a probe learnt (a
  further stale copy of the kind `manager_completion` shows), names and categories of queues.
- Of yt-dlp calls: the arguments, and the clean-up of old cookie files at start-up.
- Of the video tools: which build fits a processor, and downloads with mirrors.

## 8. Plan

Proofs, in the order of worth: `CompletionSurvives` where no checkpoint is taken;
`LaunchedOnce` of `BrowserLink`. `BudgetConserved` of `WriteBudget`
and `CountersAreExact` of `HostConnections` are sums over all downloads, folds whose value for
every set is found by induction over it: they stay with TLC. Modules: the listener's writes
composed with `DownloadManager`, checksums after the move, and the hand-off of the extension as a
module of its own.
