# CoPaw: a verification project

CoPaw (`src/integrations/ripple/copaw/`) is the Python application of this
repository: an asyncio server in which chat channels receive messages, queues
serialise them per session, agents answer them with the help of language models
and tools, and workspaces with all of this are replaced while they serve. The
other top-level directories of the repository are plugins, notes and assets
around it. All paths below are relative to
`src/integrations/ripple/copaw/src/copaw/`.

This directory holds TLA+ modules for the parts of CoPaw whose correctness
depends on the order in which things happen, the instances TLC checks, and the
proofs TLAPS checks. `PROJECT.json` names, for every definition, the lines of the
code it stands for.

## 1. The system

| Component | State it keeps | Operations | What is hard | What makes it correct |
|---|---|---|---|---|
| `TaskTracker` (`app/runner/task_tracker.py`) | `_runs`: the live run of each chat, with its task, event buffer and subscriber queues | attach, attach_or_start, producer, request_stop, stream_from_queue, detach | readers join and leave while the producer broadcasts; a stop before the first step; clean-up by key | one live run per chat; every reader gets the whole log once, in order; readers are released |
| `UnifiedQueueManager`, `ChannelManager`, `BaseChannel` (`app/channels/`) | a queue and a consumer task per (channel, session, priority) | enqueue with time limit, consume batches, /stop, idle clean-up, stop_all | full queues; a consumer that is replaced while it works; cancellation that is absorbed | a message is processed once, in order, by one consumer, and settles |
| `MultiAgentManager` (`app/multi_agent_manager.py`) | `agents`: the instance that serves, the clean-up tasks of old ones | get_agent, stop_agent, reload_agent, stop_all | reloads outside the lock against removals, lazy starts and shutdown; services shared by two instances | the entry is up; every instance has exactly one owner; old ones stop |
| `Workspace`, `ServiceManager` (`app/workspace/`) | services by priority, which of them are reused | start, stop(final), set_reusable | a start that fails half-way | all or nothing is running |
| `LLMRateLimiter`, `RetryChatModel` (`providers/`) | pause, window of timestamps, semaphore; attempt of each call | acquire, release, report_rate_limit; call, stream, retry | who releases the permit on which path; timeouts and cancellations in any wait | permits are conserved; a 429 holds calls back; every call ends |
| `ApprovalService`, `ToolGuardMixin`, `AgentRunner` (`app/approvals/`, `agents/tool_guard_mixin.py`, `app/runner/runner.py`) | pending and approved records; the replay queue of an agent; the session file | request, approve, deny, replay, expire | an approval beside the run that asked; siblings in several queues at once; stops | an approval buys one execution; no call is lost, repeated or asked for again |
| `CronManager` (`app/crons/`) | the jobs in `jobs.json`; per manager a scheduler, a semaphore and a state per job | start, create or replace, delete, pause, resume, run, the scheduler's firing, stop | updates and deletions under executions in flight; two managers on one file during a reload | the schedule follows the file; each instance keeps to the limit; a job shown as running runs |
| MCP (`app/mcp/`) | clients with a lifecycle task and its events, the manager's table, the watcher's snapshot and reload task | connect, reconnect, close; replace, remove, close_all; check, reload, stop | connecting outside the lock, closing inside it; cancellation of a reload; servers that break at any moment | no client is lost silently; requests, the watcher's stop and the closing of all clients end |
| Model download (`local_models/`) | a worker process and a monitor thread per download, one shared progress, the staging and the installed directory | start, cancel, monitor, promote | real threads: cancel, a late monitor and the next download; directories that are removed or copied in part | one worker; only whole models are promoted; the reported end is what happened |
| `AgentConfigWatcher`, channel replacement (`app/agent_config_watcher.py`, `app/channels/manager.py`) | the snapshot of `agent.json`, the table of channels, a clone that is being started | poll, diff, clone, replace_channel, reschedule the heartbeat, stop | edits between any two steps; a clone that does not start, a heartbeat without a trigger; cancellation at each await | channels and heartbeat follow the file; every channel is owned or stopped |
| Everything else (`config`, `agents/tools`, `agents/skills`, `envs`, `token_usage`, `cli`, `app/routers`, channel adapters, ...) | files, records, HTTP handlers | | I/O and pure functions | |

How they interact: a channel calls `ChannelManager.enqueue`; the consumer of the
queue hands a batch to `TaskTracker.attach_or_start`; the run it starts calls
`AgentRunner.query_handler`, which answers a pending approval or builds an agent;
the agent calls `RetryChatModel`, which passes the one `LLMRateLimiter`, and its
tools, which pass `ToolGuardMixin`. All of it lives in a `Workspace` that
`MultiAgentManager` starts, replaces and stops; a reload asks the old instance's
tracker whether tasks are active.

A workspace also owns an MCP client manager with its watcher, a cron manager and
an `AgentConfigWatcher`; the watchers poll `agent.json` and apply what changed to
the MCP clients, the channels and the heartbeat job while all of the above goes
on.

Everything but the download runs in one event loop. **A coroutine runs without
interruption from one suspension point to the next, and the actions of the
modules are these steps.** An asyncio lock that guards code without an await is
never contended, so taking it is no step of its own; a lock that is held across
an await is part of the state (`lock` in `AgentReload`, `Locked` in
`McpClients`).

## 2. The modules

| Module | Models | Runs |
|---|---|---|
| `RunStreams` | what the tracker promises: runs with a log, connections that read it | refined by `tracker` |
| `TaskTracker`, `MCTaskTracker` | `task_tracker.py` | `tracker` |
| `QueueManager`, `MCQueueManager` | `unified_queue_manager.py`, the queue half of `manager.py`, `_consume_with_tracker` of `base.py` | `queues` |
| `QueueManagerProofs` | proofs about `QueueManager` | |
| `AgentReload`, `MCAgentReload` | `multi_agent_manager.py`, the outcome of `workspace.py`'s start and stop | `reload` |
| `WorkspaceProofs` | proofs about `TaskTracker` and `AgentReload` | |
| `RateLimiter` | `rate_limiter.py` and asyncio's semaphore | |
| `RetryChatModel`, `MCRetryChatModel` | `retry_chat_model.py`, extending `RateLimiter` | `limiter` |
| `RetryChatModelProofs` | proofs about `RetryChatModel` | |
| `Approvals`, `MCApprovals` | `service.py`, `tool_guard_mixin.py`, the approval steps of `runner.py` | `approvals`, `approvals_twice` |
| `ApprovalsProofs` | proofs about `Approvals` | |
| `McpClients`, `MCMcpClients` | `stateful_client.py`, `mcp/manager.py`, `mcp/watcher.py` | `mcp` |
| `McpClientsProofs` | proofs about `McpClients` | |
| `CronJobs`, `MCCronJobs` | `crons/manager.py`, the limits its executor and scheduler apply | `cron` |
| `CronJobsProofs` | proofs about `CronJobs` | |
| `ModelDownload`, `MCModelDownload` | `download_manager.py`, the staging and promotion of `model_manager.py` | `download` |
| `ModelDownloadProofs` | proofs about `ModelDownload` | |
| `ChannelReload`, `MCChannelReload` | `agent_config_watcher.py`, `replace_channel` and `stop_all` of `channels/manager.py` | `channels`, `watcher_stop`, `channel_workspace` |
| `ChannelReloadProofs` | proofs about `ChannelReload` | |

Definitions named "Mutation of X" are plausible mistakes in X. They are used
by no specification: put in place of X, each of them makes TLC find one property
violated, which shows that the property depends on that code.

### TaskTracker

`runs` is `_runs`; `task`, `buffer` and `queues` are the fields of a `_RunState`;
`stream`, `of`, `queue` and `got` belong to a connection, which owns one queue.
`Attach` and `Start` are the two outcomes of `attach_or_start`; `Begin`, `Emit`,
`Finish` and `Fail` are the producer; `Read`, `ReadSentinel` and `Disconnect` are
`stream_from_queue`; `Abandon` is the caller that drops its queue unread. A task
that is cancelled before its first step ends without its `finally` ("dead").

`ImplementsRunStreams` is a refinement: with the queues, entries and sentinels
hidden, every step is a step of `RunStreams`, where a connection reads the log of
its run from the first event and is told the end only after all of it.

### QueueManager

Messages are numbered as they arrive, queue objects as they are created. `reg` is
`_queues`, `cons` and `batch` are the consumer task, `puts` are the enqueue tasks
that have not put yet and `blocked` those whose put waits. The agent run is one
variable, `run[k]`; its inside is `TaskTracker`. The cleanup loop is a scan
(`SweepBegin`) and then, for each key, an eviction and a wait for the cancelled
consumer (`SweepOn`). A consumer that is cancelled while it reads a run's stream
takes the cancellation for the end of the stream and goes on (`EndReading`), as
`stream_from_queue` turns it into a return. So does one that is cancelled while a
control command runs the agent inside it (`AbsorbInCommand`): the runner turns the
cancellation into an exception that `_run_process_loop` catches. Both may take longer
than the idle timeout (`GrowIdle`).

### AgentReload

`agent` is the entry of `agents`; `pc`, `new` and `old` are the calls in
progress; `inst` is a workspace's state; `service` and `closed` are the services
that an instance reuses from its predecessor and that a final stop closes. A
reload is `ReloadCheck`, `ReloadPrepare`, `ReloadStarted` and `Swap` or `Abort`,
between which any other call may run. `RetireDone` and `CleanupDone` are the return
of a `Workspace.stop`, which may never come: no service's stop has a timeout. The
names that `TaskTracker` has as well
begin with `Reload` (`ReloadInit`, `ReloadNext`, `ReloadTypeOK`), because one module
proves about both.

### RateLimiter and RetryChatModel

Time is relative and discrete: the pause counts down, timestamps are ages.
`asyncio.Semaphore` is modelled as in CPython 3.11 and later: a release hands the
permit to the first waiter, who owns it before it runs (`granted`). `acquire` is
cut at its three waits (pause, window, semaphore). `acquire_timeout` may expire
at any moment of these waits. A stream owns the permit until its first chunk or
its `finally`. The consumer of a stream iterates it at once, and one model streams
always or never. `get_rate_limiter`'s singleton is taken as given.

### Approvals

One session. `pending` and `tokens` are the service's pending and approved
records; the runs are "chat", the ordinary messages one after another, and
"command", an `/approve` that runs beside them because control commands have a
queue of their own. Either of them denies the oldest request when it brings anything
but an approval (`Deny`). Each run has an agent: the message it acts on (`todo`), its
replay state (`forced`, `queue`, `active`, `done`) and its memory, loaded from the
session file at the start and written back whole at the end (`saved`). Tool
inputs are abstracted to which calls have the same input, memory to which calls
have a result and which have a marked denial. The garbage collection of the
service may remove the oldest records at each creation and resolution, as many as
it likes: its limits are ages and counts that the model does not keep. The
siblings of a call are those that follow it in its message; that a clean-up may
have deleted that message after a stop is abstracted away. With parallel tool
calls switched off, as is AgentScope's default, the calls of a message are acted
on one after the other. A guard that raises lets a call pass (`_acting` catches its
exception), so it is modelled as one that finds nothing: `Risky` are the calls in
which the guard does find something. A run that reaches `max_iters` with calls left to
replay drops them as a cancelled one does, and is a case of `Stop`.

`Kept` is a list comprehension of the code: what a sequence has at some places, in
order. It is what a withdrawal leaves of the requests (`CancelStale`) and what
`_filter_pending_replay_queue` leaves of a queue (`ReplayNext`). `disturbed`
remembers that two runs were under way at once or that one was stopped; the
guarantees about repetition and loss are for sessions where neither happened.

### McpClients

Client objects are numbered as they are built. `life[c]` is where the lifecycle task
of client `c` is, `stop[c]` its stop event; of the ready event only what a waiting
`connect` sees is kept (`woken`). `task`, `todo`, `key` and `hand` are the one task
that changes the manager's table: the start of the workspace, then one reload after
the other (`HandleKey`, `Swap`, `ConnectTimeout`, `ConnectFails`, `OldClosed`,
`TaskEnds`). `Check` is the watcher's poll, which notes the mtime before it finds
that a reload is still running. `StopCancels` is the end of the five seconds that
the watcher's stop gives a reload: the task is cancelled at its await, and so is a
lifecycle task it awaits. `CloseAll` comes at any time after the watcher has
stopped, or never: in the workspace's shutdown the configuration watcher and the
channels are stopped in between, and their stops may not return. `close` does
nothing to a client that is not connected; `lost[c]` records that such a client was
let go of.

### CronJobs

One job and the two managers that share its record during a reload. Jobs share
nothing else, and the file is loaded, changed and saved without an await, so each
operation under the manager's lock is one step. `rt`, `entry` and `state` are what
a manager keeps of the job; semaphores and state objects have identities, because
an execution in flight keeps those it got. An execution is cut where it waits for
the semaphore. `Stop` cancels what the scheduler started and leaves the tasks of
`run_job` running; an execution that it cancels ends as "cancelled", or as "error"
when the cancellation reaches the runner, which turns it into an exception. `mixed[m]`
and `missed` remember the two situations in which the code gives no guarantee: an
execution of `m` that began before the job was saved, and a change made by the old
manager after the new one has read the file.

### ModelDownload

The only module with threads: the actions interleave at every lock, queue and
directory operation. `Start` and the five steps of cancel run in the event loop's
thread, `Fetch`, `Put` and `Exit` in the worker process, the rest in the monitor
of a download. Downloads are of one model, so they share its directory; `staging`
says how much of a download's own directory is there, and "torn" that it is being
deleted. The promotion is cut where the file system is: `Remove` is the `rmtree` of the
installed model and `Move` the `shutil.move` of the new one, each of which may raise
before, during or after its work, and `Size` the sum of the sizes at the end; an
exception makes the download a failed one. `broken` remembers that what is installed is
in the middle of this, or was left there. A directory moved into what another monitor
has just installed becomes a subdirectory of it and leaves it as it is. `Finish` closes
the worker and `Clear` clears the task, and in between `is_alive` raises, so that no
download starts. `late` remembers a cancel whose two seconds of waiting for the monitor
were over, `overlap` a download that started beside the monitor of another, and
`died` a monitor that an exception ended.

### ChannelReload

`file` and `heartbeat` are the sections of `agent.json`, edited at any moment;
`seen` and `seenHb` are the watcher's snapshot, `cfg` the configuration it works
on. `at` is the await its task is in, `hand` the channel object it starts, undoes
or stops; channel objects have identities. `Interrupted` and `Swallowed` are the
two fates of a `CancelledError`: it passes the handlers for `Exception`, but
`replace_channel` catches it around the stop of the old channel. A section may be
missing: a built-in channel then has its default configuration, which is one of
`Versions`, and a plug-in channel goes on with what it has (`Optional`, `SkipName`); a
file without a channels part has none of the latter. `Broken` are the heartbeat sections
from which no trigger can be built: `reschedule_heartbeat` removes the job before it
finds out, and the watcher logs the exception with the hash already noted, so the job
is gone (`CheckEnds`, `Built`). `skipped`, `refused` and `skippedHb` remember which
sections were taken as applied although the channel or the job never had them.

## 3. What the runs show

| Run | Instance | States | Shows |
|---|---|---|---|
| `tracker` | 1 chat, 2 runs, 3 connections, 1 event and an error event | 163,511 | `TypeOK`, `OneLiveRunPerKey`, `StreamExact`, `NoLeakedQueue`, `ImplementsRunStreams`, `StopReleasesReaders` |
| `queues` | 2 keys, 3 messages, 3 queue objects of one place | 101,949 | `TypeOK`, `MessageInOnePlace`, `SerialUntilCleanup`, `ArrivalOrder`, `EveryMessageSettles` |
| `reload` | 2 callers, 3 instances | 33,940 | `ReloadTypeOK`, `EntryIsUp`, `NoOrphan`, `ReusableServices`, `OldInstanceStops` |
| `limiter` | 2 callers, 1 permit, 2 requests per window of 2 ticks, 3 attempts, pauses of 1 and 3 ticks | 49,299 | `TypeOK`, `PermitsConserved`, `CooldownBinds`, `EveryCallEnds` |
| `approvals` | 5 calls of one tool: two risky ones with one input, two others, a harmless one; messages of up to 3 | 456,981 | `TypeOK`, `ApprovedOnce`, `RunsOnce`, `NoneLost` |
| `mcp` | 2 keys, 3 client objects, 2 edits, 1 broken connection | 394,852 | `TypeOK`, `NoSilentLeak`, `NobodyWaitsForever` |
| `cron` | 2 executions in flight, 4 semaphores, 4 state objects, 5 records, 2 changes | 3,294,397 | `TypeOK`, `RunningIsTrue`, `ScheduleFollowsStore`, `ConcurrencyLimit` |
| `download` | 3 downloads of one model, two of which may be cancelled | 957,970 | `TypeOK`, `OneWorker`, `InstalledIsWhole`, `ReportIsTrue`, `EveryDownloadEnds` |
| `channels` | 2 channels, one of them a plug-in, 2 versions of each section, 3 of the heartbeat's, 4 channel objects, 3 edits | 795,381 | `TypeOK`, `SettledFollowsFile`, `NoStrayChannel`, `EditTakesEffect` |

Why these bounds are enough. *tracker*: the code treats chats alike and they share
nothing, so one is enough; two runs give every restart, three connections an early,
a late and a restarting reader; one event and the error event tell a gap, a
repetition and a swap apart, and one of them may be lost before or after each reader
joins. *queues*: a queue of one place makes the second message find it full; three
queue objects let an evicted key be re-created twice, the first time with the old
consumer alive. *reload*: two callers give every pair of operations; three instances
give two successive swaps or two concurrent reloads. *limiter*: one permit makes a
caller wait for the other, two requests fill the window, and three attempts let a
retry be retried. *approvals*: three calls in a message give a replay that is asked
about with a call behind it, the case in which a request is withdrawn; equal and
unequal inputs, and stops that leave an approval behind, are what the approval's
comparison is for. A fifth call is needed for a refusal that is taken for a result,
which takes a denied request beside a replay with a queue; it is made only as long
as runs follow one another, the case that `RunsOnce` and `NoneLost` are about. Once
two runs overlapped or one was stopped, at most three calls are made (`MCBound`):
with them an approval can meet an equal input, another one and a sibling, which is
what `ApprovedOnce` is about then. The two equal calls are symmetric. *mcp*: two
keys are a reload with a client it touches and one it leaves alone; three objects
are two at the start and one replacement, or a failed one; of two edits one may come
during the reload that the other causes. *cron*: two executions meet at a semaphore,
and between them and two managers no more than four objects of a kind are referred
to, so the bound never disables a step; the records are every combination the code
treats differently; two changes are a deletion and a re-creation. *download*: three
downloads are one that is finished late, one that runs and one that may follow; the
last one need not be cancelled as well, since the first two already are, each alone
and beside the monitor of the other. *channels*: two channels let a refused one
share a check with one that is replaced, and a section that may be missing with one
that may not; of three heartbeats one is broken; four objects are both tables, a
clone and one that was cut off; three edits are a change, its reversal during the
reload, and another.

Three disagreements between the code and what its comments and documents say are
kept as runs that TLC must find violated:

* `approvals_twice`: `/approve` beside the run that asked executes a sibling again
  whose result only that run has.
* `watcher_stop`: a watcher that is stopped while `replace_channel` stops an old
  channel goes on polling, and the workspace's shutdown waits for it for ever.
* `channel_workspace`: a channel that was reloaded has no workspace injected.

Other steps that surprise, and that no run singles out, are in the models because
the code takes them; the properties name them as exceptions:

* a run stopped before its task's first step stays in `_runs` (`TaskTracker`);
* a run longer than the idle timeout makes the clean-up replace the busy consumer,
  whose next message meets the live run and is ignored, and a key that gets a
  message while the clean-up waits for another consumer is evicted with the message
  in its queue (`QueueManager`);
* a control command that runs the agent longer than the idle timeout is cancelled by
  the clean-up, answers with an error and goes on beside its successor
  (`QueueManager`);
* `stop_all` cancels the task that was to stop an old instance, and `stop` of a
  workspace that failed to start does nothing (`AgentReload`);
* a caller that already waits for a permit calls in the pause of a later 429
  (`RetryChatModel`);
* when a request is denied, every denial in the session loses its mark: a call that
  was only refused then counts as answered and leaves the replay of another
  request; and the queue of a finished replay stays in `_tool_guard_replay_queue`,
  where the next request takes it for its own rest and withdraws the requests of
  the calls in it (`Approvals`);
* a client that is between two connections when it is closed, or whose connect is
  interrupted by the watcher's stop, connects again later (`McpClients`);
* an execution that began before the job was saved counts against the old
  semaphore, and during a reload, and as long as tasks of `run_job` outlive it, the
  old instance's executions run beside the new one's, each up to the limit
  (`CronJobs`);
* the removal of the installed model or the move of the new one may stop partway: the
  download is reported as failed, and part of a model stays installed
  (`ModelDownload`);
* a heartbeat section with an impossible schedule removes the heartbeat job, which
  comes back only with the next edit of the section (`ChannelReload`);
* a workspace's stop may wait for ever for one of its services, and with it the stop of
  a swapped out instance (`AgentReload`) and the closing of the MCP clients
  (`McpClients`): `watcher_stop` shows one way, and the queues' `stop_all` has another,
  the clean-up that waits for a consumer which absorbed its cancellation
  (`StopCleaner` of `QueueManager`);
* the progress of a download is overwritten by the late monitor of another, and a
  probe that raises ends a monitor without a report (`ModelDownload`);
* an edit between the moment the workspace reads its configuration and the start
  of a watcher is taken as applied (`ChannelReload`, `McpClients`).

`CHECK_DEADLOCK FALSE` is set where the system may come to rest: the bounded
identities are used up or the application has shut down.

### Fairness

Liveness is checked under weak fairness of what the event loop schedules: a ready
task takes its next step, a timer fires. `TaskTracker` adds that a *cancelled*
stream unwinds, and assumes nothing of others nor of clients. `QueueManager`
assumes that agent runs end (model calls have timeouts, reasoning a bound on
steps), inside a control command as well. `AgentReload` assumes only
that `wait_all_done`'s timer fires, so that the stop of an old instance begins
(`CleanupStop`): neither that tasks end, nor that a lock is passed on, nor that a stop
returns. The second half of `OldInstanceStops`, that the instance is stopped in the
end, has the return of stops as a premise (`StopsReturn`); without it TLC finds it
violated. `RetryChatModel` assumes that time passes and
that the HTTP client of the inner model replies or times out; of `EveryCallEnds`,
the part that a waiter is served does without the timeout of `acquire`, the part
that calls end states it as a premise. `McpClients` assumes
that lifecycle tasks, the changing task, the stop of the watcher, a `close_all` that has
begun and a waiting request take their steps, and nothing of servers, edits or the
user, nor that `close_all` begins. `ModelDownload` assumes
that threads are scheduled and that a worker ends: the clients of both hubs have
timeouts; nobody has to start or cancel anything. `ChannelReload` assumes that the
watcher's task and a shutdown that was asked for go on, hence that the start and
the stop of a channel end one way or the other; edits and shutdowns need not come.
`Approvals` and `CronJobs` have safety properties only.

## 4. What is proved

All proofs are for every value of the constants, from the named assumptions of
the modules (sets of identities do not contain their null values, bounds are
natural numbers).

* **`WorkspaceProofs`, the tracker.** `TypeCorrect`, then `Invariance` of `IInv`,
which adds to the types: entries and live runs agree in both directions (`EntryKey`,
`OneLiveRunPerKey`); an open connection is on the list of its run and a list holds
only its own run's connections (`Listed`, `Owned`); unused identities are fresh; and
`StreamExact`. `StreamExact` is not inductive alone: a broadcast keeps it only
because open connections are on the list, and `Detach`, which looks the list up by
key, keeps *that* only because the key's entry is the connection's run or a later
one that does not list it. From `IInv` follow `OneLiveRun`, `StreamsAreExact`,
`NoQueueLeaks` and `Refinement` (`Spec => Abs!Spec`). * **`QueueManagerProofs`.**
`TypeCorrect` and `SerialAlways` (`SerialUntilCleanup`). Alone the latter is not
inductive: a message would be ignored if a run were live that the key's only
consumer does not read, and a consumer's `finally` could unregister the queue of
another. `UpInv` adds, while the manager is up, that an entry leads to a queue of
its own key and an unused queue has nothing (`Registered`), that messages are bound
for and found in queues of their key (`RightQueue`), and that a run of a key not
evicted is being read by a consumer of the key (`RunIsRead`). Then a consumer with a
cancellation coming belongs to an evicted key (`CancelledIsEvicted`), and so does
one that finds a live run. `OnePlaceAlways` (`MessageInOnePlace`): `Placed` names
the places of a message as sets instead of counting them and ties them to its target
and its fate, `AllOnce` says that no place holds it twice, and every action is one
of the few `Moves` of messages between places. `ArrivalOrderAlways`
(`ArrivalOrder`): `LineInv` splits the order along the line of a queue (batch,
buffer, put tasks) into the order within each and the order of each two, which a
move from one to the next keeps because a message is in one place; messages that
arrive get higher numbers (`ArriveInv`). * **`RetryChatModelProofs`.**
`PermitsSafe`: free permits, permits on their way to a waiter and holders add up to
`max_concurrent`. `PInv` adds that the queue holds each waiter once and that queued,
granted and holding callers are disjoint, so that each step moves one permit between
the three counts. `CooldownSafe`: with `CInv`, what a caller owes is at most the
pause and nothing once it is past the check; it needs that pauses are never
shortened. `TypeCorrect` adds `WInv` (the window has room for a claim that was let
through) and `AInv` (a call that sleeps between two attempts has one left, so that
`_wrap_stream` and `__call__` together stay within the limit), and that a delay is a
number: `2^n` is the number of subsets of `1..n`, which needs no induction. *
**`WorkspaceProofs`, the instances.** `ReloadTypeCorrect` needs that whatever a call
or the entry names has been created (`Begun`), because a stop closes the services of
what it stops. `EntryUp` and `NoOrphans` follow from `RInv`: until shutdown, the
lock is held by exactly the calls inside one of three steps; what a call has in
hand, and its state, is determined by its step; a clean-up task owns a running
instance that was swapped out; no instance is in two hands. `NoOrphan` alone is not
inductive: a stop or a hand-over keeps it only if nobody else owns the instance.
`ReusableServicesSafe` (`ReusableServices`) follows from `SInv`: services were
created by an instance that was, and as long as no removal crosses a reload, a
reload works on the services of the entry and never has to stop what it started
(`ReloadInv`), and open services are the entry's, those of an instance about to
become it, or those of a start that failed (`OpenInv`). * **`ApprovalsProofs`.**
`TypeCorrect`, from `TypeInv`: a call waits in one request (`Distinct`), what an
agent has in hand follows from what it does (`Modes`), and every call that is
anywhere was made by the language model (`Known`). `ApprovedOnceAlways`
(`ApprovedOnce`): executions and tokens of the calls with one input are together no
more than their approvals (`Balance`). It counts with sets of pairs, as
`ApprovedOnce` does, so that a sum over calls needs no recursion; an execution takes
the first token of its tool, which must have its input, and what the garbage
collection removes is only ever less. `RunsOnceAlways` (`RunsOnce`), for runs that
follow one another: one run is under way and its memory is ahead of the file
(`Solo`); what was executed has its result there, and neither a request nor anything
still to be acted on was executed (`Once`); the only token of a guarded call is that
of the replay under way (`OneToken`), so that the first one that `consume_approval`
finds is the right one. `NoneLostAlways` (`NoneLost`): a new request withdraws those
of the calls in its queue, so the calls behind the withdrawn ones must not be lost.
They are not, because any two lines of calls, of requests or of the run in hand,
agree: from a call on that both have, and up to what is settled, each has what the
other has (`Agreement`). A filtered queue keeps it, as what it leaves out has a
result. `Fresh` adds that a new message shares nothing with a request, and that a
stale queue can only withdraw requests whose calls are all settled; `Covered`, that
every call is settled, requested or in hand. * **`McpClientsProofs`.** `TypeCorrect`
and `NoSilentLeakAlways`. What makes `NoSilentLeak` inductive is `TaskInv`: the
changing task has a client in hand exactly at the steps that await one, there is no
such task once the watcher has stopped, and nothing is being closed before the
shutdown. Every step that takes a client out of the table, a hand or the closing set
then awaits it, finds its task ended, or marks it (`CloseMarks`). *
**`CronJobsProofs`.** `TypeCorrect` and `RunningIsTrueAlways`. The latter needs
`OneOwner`: a state object is the state of one manager only and written by that
manager's executions only. Without it an execution of one instance could end, or
start, in the state that the other shows. The steps reduce to four effects (start to
run, end, register, none), a lemma each. `ScheduleFollowsStoreAlways`
(`ScheduleFollowsStore`) and `ConcurrencyLimitAlways` (`ConcurrencyLimit`) come from
`LimitInv`: a manager that has not started has nothing (`Untouched`); the registered
semaphore has the limit in the file (`RightLimit`); executions of a manager that
began since the last registration share it (`SharedSem`); and no semaphore gives
more permits than it has (`Permits`), which is where executions are counted. The
limit of the instance that was replaced needs two facts more: what its scheduler
fires is one execution at a time (`Fired`), and its last semaphore has the limit in
the file unless that execution is all it has (`OldLimit`). *
**`ModelDownloadProofs`.** `TypeCorrect`, `OneWorkerAlways`, `OnlyWholeInstalled`.
`WorkerInv`: a running worker is the task's, and a result, a monitor that has one,
and a cancel past its kill all have a worker that no longer runs, so that clearing
the task never leaves a running worker behind. `WholeInv`: as long as every cancel
has waited, the directory of a result that is still to be promoted, up to its move,
is whole and no clean-up runs beside its monitor; so what is installed is whole
unless a removal or a move of it goes on or stopped partway. `ReportIsTrueAlways`
(`ReportIsTrue`): `LastInv` says that downloads begin one after the other and that
the task and the victim of a cancel are the last one, `ReportInv`, as long as
downloads did not overlap and cancels waited, what its monitor has done so far
(`MonitorDid`) and what the status therefore says or still has to be told
(`StatusSays`). * **`ChannelReloadProofs`.** `TypeCorrect` and
`NoStrayChannelAlways`, from `HandInv`: only a reload under way has a channel in
hand, it is not in the table, a clone is for a name in the table, and after the
watcher's stop has returned nothing is in hand. `SettledFollowsFileAlways`
(`SettledFollowsFile`) follows from `SnapshotInv`: a channel runs what the old
snapshot says until the check has dealt with it, then what the new one says; a
snapshot is what the file says, except for what was refused or is missing, unless
the file has changed since; and the heartbeat job is what can be built from the
section noted last, nothing if that is broken, unless the section was passed over.

Every invariant of the passing runs is proved. With TLC only: the liveness
properties (`StopReleasesReaders`, `EveryMessageSettles`, `OldInstanceStops`,
`EveryCallEnds`, `NobodyWaitsForever`, `EveryDownloadEnds`, `EditTakesEffect`),
because fairness and ENABLED are outside the proof system's reach, and the three
runs whose property is violated.

No definition that the proofs use is recursive: what a recursive definition
computes for every input needs an induction that the provers do not have. A list
filtered by a comprehension is therefore the increasing choice of its places
(`Kept`), and a sum the size of a set of pairs (`Times`).

## 5. What is not modelled, and the plan

`PROJECT.json` lists every component with its status. Parts without a module are
pure I/O (channel adapters, tools, skills, providers, the tunnel), configuration
and records, or functions without state of their own (the rules of the tool guard,
the command registry): there is no order of events in them to check. Most of the
repository's lines are of this kind. Of the modelled parts, left out are: the
rendering and sending of messages and the debounce buffers of channels, the
llama.cpp server (operations one at a time under a lock, around an external
process), the removal of an installed model, and the inside of an agent's run.

What could follow:

1. `ServiceStart`: priority groups, concurrent starts, a failure among siblings
   (`gather` without `return_exceptions` leaves the others starting), reuse and
   stop; composed with `AgentReload` through the start's outcome.
2. Composition of `QueueManager` with `TaskTracker` in place of `run[k]`, and an
   abstract session (messages in order, one at a time) that `QueueManager`
   implements as long as no key is evicted.
3. `QueueManager` with `ChannelReload`: consumers keep the channel object they were
   created with until the idle clean-up, also after it was replaced and stopped.
