# TLA+ models of the wolfharness orchestrator

wolfharness (formerly agentpool) runs LLM agents behind several protocol servers. Its own core
logic is the *orchestrator*: sessions that take prompts from concurrent callers, run one agent turn
at a time, inject messages into a running turn, and can be cancelled and closed at any moment. Around it
are the event bus that carries what a run says, the store that lets a deferred question outlive its run, the
background tasks of a run and the connection to agents that speak ACP. This directory models these in
TLA+, checks them with TLC, and proves part of it with TLAPS.

Paths below are relative to `src/src/wolfharness/` unless they begin with `src/`.

## 1. Inventory

Everything in the orchestrator runs on one asyncio event loop: a task switches only where it
suspends. What is hard is therefore not data races but *interleavings of suspensions*: state that is
read before an `await` and used after it, and locks that are released between two halves of one
decision.

| Component | State | Operations | Interacts through |
|---|---|---|---|
| Message routing and runs (`orchestrator/session_controller_runs.py`, `session_pool_messaging.py`, `session_pool_runs.py`) | per session `current_run_id`, `prompt_queue`, `feedback_queue`, `_request_lock`; the pool-wide `_runs` | `send_message`/`_route_message`, `steer`, `steer_from_background_task`, `inject_prompt`, `followup`, `queue_prompt`, `process_prompt`, `run_stream`, `revoke`, `cancel_run` | calls; a `_consume_run` task per run; its done callback |
| RunHandle and turn (`orchestrator/run.py`, `agents/native_agent/turn.py`) | `complete_event`, `run_ctx` (cancelled, current_task, queued_steer_messages), `active_agent_run`, the session's `turn_lock` | `start`, `_execute_turn`, `steer`, `followup`, `drain_queued_steer_messages`, `cancel`, `close` | an async generator driven by a task or a caller; task cancellation |
| Session close (`orchestrator/session_controller_close.py`, `session_pool.py`) | `is_closing`, the step of the close, the controller lock | the seven steps, cascade to children, checkpoint on close, the 15 s fallback | calls; locks shared with routing |
| Session registry, tree, TTL (`orchestrator/session_controller.py`, `session_controller_agent.py`) | `_sessions`, `_children`, agents by session, activity times | get or create, resolve agent, expiry scan | calls; two background tasks |
| Checkpoint and resume (`orchestrator/session_pool.py`, `agents/native_agent/checkpoint.py`) | `SessionData` (status, pending deferred calls), the checkpoint, resume locks | checkpoint on close, `resume_session`, expiry of deferred calls | the session store; restarts |
| Elicitation and deferred tools (`agents/native_agent/`, `capabilities/`) | futures of the run, cached answers | ask, answer in process, park, time out | the record and the checkpoint; events |
| Background tasks (`capabilities/background_task/`) | status, slot and events of each task; batches of notices | launch, wait, cancel, time out, notify, shut down | asyncio tasks, a semaphore, timers; `steer_from_background_task` |
| EventBus (`orchestrator/event_bus.py`) | subscriber queues, replay buffers, event counter | subscribe, unsubscribe, publish, close, coalescing | bounded queues |
| Journal, snapshots, CommChannel (`lifecycle/`) | journal entries, snapshot, feedback tables | append, upsert, replay, resume, publish, revoke | files or memory; crashes |
| ACP connection (`src/src/acp/connection.py`, `src/src/acp/task/`) | pending requests, send queue, dispatcher queue | request, notify, receive, close | a byte stream; four kinds of task |
| ACP agent client (`agents/acp_agent/`) | updates of the session, load capture, `update_event` | turn, load, `session_update` | notifications and responses of the connection |
| Teams, agents, capabilities, servers, storage, configuration | | | see `PROJECT.json` for why each is left out |

What makes each of them correct:

* **Routing and runs.** A message that is accepted has exactly one fate; turns of a session do not
  overlap; a queued prompt is run without a further call; the session does not stay busy with a run
  that is gone; every call returns.
* **RunHandle.** A run ends whatever is cancelled and whenever; there is one live run, and the session knows it; a steer
  message taken by a run reaches its agent; the turn lock is released on every path.
* **Close.** Nothing is created after the close has begun; the agent outlives its turn; the close ends.
* **Registry.** A session that is used is not expired under its user; no child survives a cascade it
  should be part of.
* **Checkpoint, resume, elicitation.** The answer to a question reaches one run and reaches it once; a call that was
  recorded is not forgotten by a failed or cancelled resume, a close or a crash.
* **Background tasks.** Slots are neither lost nor made up; a task has one outcome, and the parent learns it once.
* **EventBus.** A subscriber sees ids in order, without duplicates, and without loss that the bus
  does not account for (overflow, eviction).
* **Lifecycle.** Replay after a crash gives the events after the snapshot, each entity in its last state.
* **ACP connection.** A request gets its own answer or an error; the peer is told what became of its own; the close
  leaves no task behind.
* **ACP agent client.** A turn streams what the agent said in it, and a load all of the history, although
  notifications and responses take different ways.

`PROJECT.json` lists the hazards of this code at the line where they bite, with the properties that
cover them or the reason why none does yet.

## 2. Modules

| Module | Contents |
|---|---|
| `SessionRun` | one session: routing, runs, turns, cancellation, close |
| `PromptService` | abstract specification of a session: a prompt gets at most one turn, or is given up before, and turns do not overlap |
| `MCSessionRun` | instances for TLC |
| `SessionRunProofs` | types, turns and closing of `SessionRun`: theorems and their proofs |
| `SessionServiceProofs` | proof that `SessionRun` implements `PromptService` |
| `SessionMessageProofs` | proofs that `SessionRun` loses and doubles no message between its queues, that a live run is the current one, and when steers reach their agent |
| `EventBus` | the event bus and the streams its consumers read |
| `CheckpointResume` | deferred elicitations of one session: record, checkpoint, resumes, close, crash |
| `BackgroundTasks` | the background tasks of one run and the notices of their ends |
| `AcpConnection` | one JSON-RPC connection and its staged close |
| `AcpUpdates` | a session with a remote ACP agent: turns, loads and notifications over the event loop's order |
| `EventBusProofs`, `CheckpointResumeProofs`, `BackgroundTasksProofs`, `AcpConnectionProofs`, `AcpUpdatesProofs` | theorems about these modules and their proofs |
| `MCEventBus`, `MCCheckpointResume`, `MCBackgroundTasks`, `MCAcpConnection`, `MCAcpUpdates` | instances for TLC |

`PromptService` is composed with `SessionRun` (`ServiceSpec`). The other modules meet at their
external actions: `StartRun` of `CheckpointResume` stands for what `SessionRun` details, `InnerEnds`
of `BackgroundTasks` for the run of a child session, and `AcpUpdates` sees of the connection only
the ways of notifications and responses.

### How `SessionRun` corresponds to the code

*Steps.* An action is what one task does between two suspensions. `SendMessage` is `send_message` up to its await of
the session's agent; `_route_message` is then one step (`RouteReject`, `RouteIdle`, `RouteSteer` or `RouteQueue`).

*Locks.* `_request_lock` has no variable. What is done while it is held does not suspend: `_emit_user_message_inserted`
goes through `ProtocolChannel.publish`, whose journal is synchronous, and `EventBus.publish`, whose own lock is never
contended. So the lock is free whenever a task runs, and the chaining of `_consume_run`, the look at the run in
`_route_message` and the creation in `run_stream` are part of the step they belong to. For the same reason `run_stream`
never finds, under the lock, a run that was not there before it: that branch, which would follow a run with the lock held
(`session_pool_runs.py:341-358`), is unreachable and left out. `turn_lock` is held for a turn; it is FIFO, a sequence of
the holder and the waiters.

*Runs.* In the per-prompt design a `RunHandle` executes one prompt, so run `m` is the RunHandle
of message `m`. `phase[m]` follows `_consume_run` and `start`: `created` (the task has not had its
first step), `wait_turn` (`wait_empty` for an empty prompt), the turn (`starting`: before `active_agent_run` is set;
`active`; `stopping`: the post-turn code of a failed or cancelled turn runs while `active_agent_run` is still set;
`ending`: after it is cleared; `unwinding`: the finally blocks of a turn that a CancelledError leaves), then
`failing` (a team member's run tells the lead's session that it raised), `cancelled` (waits for the done callback),
`failed` or `done`. The end of a turn, the look at `prompt_queue` and the next run's entry into `start()` are one step
(`GoIdle`, `ChainNext`). `task[m]` is the run the driving `_consume_run` task was created with, because that is what
`_on_run_done` cleans up, or `None` when `process_prompt` or `run_stream` drives the generator itself (`EndDriven`).

*Empty prompts.* `start("")` drains `feedback_queue` and returns under `turn_lock` without a turn, unless content is
staged for the agent. A resumed session is run that way, and so are the skill commands of the OpenCode server. The outcomes
for a caller that drives the run are `ProcessEmpty` (the lock is free), `ProcessEmptyWaits` with `ReturnFromStart` (it is not), and
`ProcessIdle` or `TakeTurn` (something is staged, which may happen while the call waits). A queued prompt without content
has a turn like any other, or, when an earlier turn has used what was staged for it, skips it (`TurnError` from `starting`, which adds a
suspension the code does not have).

*Kinds of agent.* `NativeAgent` says whether turns are NativeTurns. Only these set `active_agent_run` and drain
`queued_steer_messages`; an `ACPTurn` does neither, so a steer to it always goes to `feedback_queue`, and what its run has
taken from there stays with the run.

*Cancellation.* `RunHandle.cancel` sets `cancelled` and cancels the task that drives `start()`. The
CancelledError arrives at the task's next step (`interrupted`): in the agent's loop it is caught by
`NativeTurn.execute` (`CancelGracefully`), anywhere else in the turn it runs the finally blocks (`CancelTurn`, then
`LeaveCancelled`), and a task that waits for `turn_lock` leaves `start()` (`LeaveCancelled`). A run
that has not had its first step has no `current_task`, so only the flag is set and the turn resets it.

*Close.* `CloseSession` to `CloseMark` is the wait for the controller's lock and the store. `CloseMark` is
`is_closing = True` together with steps 1 and 2: `RunHandle.close` sets `complete_event`, so the wait for it does not
suspend. `CloseAgent` is steps 3 and 4, `CloseFinish` the rest. `CloseTimeout` is the 15 s fallback of
`SessionPool.close_session`: it may cut the close at each of these waits, cancels the current run and begins the close
again, once.

*Callers.* A message is submitted once, by any entry point (`send_message` with either delivery mode,
`steer`/`inject_prompt`, `steer_from_background_task`, `followup`/`queue_prompt`, `process_prompt`, `run_stream`). The
constant `Events` says which entry points (`empty`: an empty prompt) and faults (`cancel`; `raise`: start() raises before
the turn; `member`: in a team member's session; `error`: a turn error or a denying hook; `close`, `close_timeout`) an
instance allows.

*Abstraction.* Contents, events, hooks and tool calls are left out; what an agent does in its turn is
the time between `Activate` and the end of the turn. A session that is closed is not created again.

### How `EventBus` corresponds to the code

*Steps.* The bus has an `asyncio.Lock`, but nothing suspends while it is held, so it is never contended:
`subscribe`, `unsubscribe`, `publish` and `close_session` are each one step. What interleaves with them is the
consumers' `queue.get()` (`Read`, `EndOfStream`).

*State.* An event is its `event_id`, its position in `log`. `replay[s]` is the deque of session `s`; `buffers` is the
insertion order of `_replay_buffers`, which decides the concatenation for `scope="all"`. A client has one
subscription at a time, so `subscribers`, `queue` and `shut` (the queues on which `shutdown()` was called) are
indexed by client; a new subscription has a new queue. `received` and `since` are what the client itself knows:
the ids it has read over its resumed subscriptions and the last id before the present one.

*Consumers.* A client resumes with the id of the last event it has read (`Resume`). A queue that is shut down still
yields what is in it, and only then `QueueShutDown`; a client that unsubscribes reads on or stops at once.

*Filters.* The list comprehensions of `subscribe` are `Keep`, a recursive function, and not `SelectSeq`, of which the prover knows nothing.

*Abstraction.* Contents of events are left out. The session tree does not change. `exclude_source` has one hint.

### How `CheckpointResume` corresponds to the code

*State.* What is stored (`record`, `checkpoint`) survives `Crash`; what is in memory does not. The record is loaded,
awaited upon and saved whole by three parties: a tool that asks (`LoadRecord`, `SaveRecord`), `resume_session` (`Resume`
loads it before the lock, `SaveData`, `SaveActive` and `SaveBack` write `data`) and `close_session` (`Close`, `CloseSave`).

*Asking.* `Ask` publishes the event, from which moment the client can answer; `SaveCheckpoint` and `SaveRecord` follow after
awaits. A local tool then waits for its future, a bridged (MCP) call is parked and its run goes on.

*Resuming.* `allow` is `allow_active_run`, computed when the resume is called. `Resolve` gives the answer to the waiting future.
Without a live run the record is marked `resuming` (`LoadCheckpoint`) and `run_stream` is called with the results and the empty
prompt. Four things can happen: the session's agent has staged content and a run begins (`RunFromCheckpoint`); nothing is staged, as
always after a restart, and `start("")` returns at once (`NothingToRun`); the session closes or has a run again, which is then followed
(`NoRunFromCheckpoint`, `following`); the agent cannot be set up (`StartFails`). In the second and third the answer goes nowhere
(`dropped`), and `resume_session` cannot tell: `SaveActive` follows all but the last. `Leave` is every way out of
`resume_session`.

*Cancellation.* A resume can be cancelled at any of its awaits (`CancelResume`; `CancelRunning` ends the run it drives). `except Exception`
does not see it: nothing is saved, the lock is released, and if the record was marked it stays so (state `cut`).

*History.* `answers`, `dropped` and `noted` say what became of an answer. `stale` becomes true in the step in which one of the parties
overwrites a record it has not seen, goes on with an `allow` that no longer holds (the futures it was computed from are gone when `Resolve`
looks for them; the failed resume then saves an `active` record as `checkpointed`), or leaves a resume that has given an answer and is cancelled before
it saves that. `AnsweredOnce` and `PendingUntilAnswer` are stated for behaviours up to that step; section 5 lists what follows after it, and what is
lost before. `ResumingIsHeld` does not depend on it: the run looks at the behaviours up to that step, the theorem at all of them.

*Abstraction.* Agents that speak ACP have a resume of their own (`_resume_acp_agent`), which is not handed the answers of an elicitation; it is not modelled.

### How `BackgroundTasks` corresponds to the code

*Steps.* A task is two asyncio tasks, `exec[t]` (`_execute_task`) and `inner[t]` (the coroutine). `exec` distinguishes what
`_execute_task` awaits, because a cancellation does something else in each: `running` (`asyncio.wait`), `reaping` (the cancelled
timeout, where a cancellation is swallowed), `unwinding` and `timing_out` (the coroutine). `Finish` is the end of
`_execute_task`: slot, `on_completed`, event, in that order and without a suspension.

*Callers.* `cancel_task` writes the status and waits (`calls`) until the task has ended (`CancelReturns`), its time limit is over or it is
cancelled (`CancelAbandoned`). `background_output` registers as the one blocking waiter (`Wait`) and returns what the
status says when it wakes (`WaitReturns`).

*Notices.* `Submit`, `Flush` and `FlushEnds` are the batcher; `flushes` are the batches being delivered. `BeginShutdown` to
`FinishShutdown` are `after_run`. `told` and `notices` are history. Delivery itself is a `followup` to the parent's session, which is in `SessionRun` (`Followup`).

*Assumption.* A coroutine that was told to end does so within the retention period (an hour by default): `Cleanup` has the guard `~Live(t)`.

### How `AcpConnection` corresponds to the code

The receive loop (`ReceiveResponse`, `Receive`, `StreamEnds`, `StreamFails`), the dispatcher, the
sender and `close()` are tasks; `incoming[n]` follows the handler task of each message of the peer.
An entry of `outbox` names the caller or handler that awaits its future, so writing it or failing to
write it (`WriteCall`, `WriteReply`, `...Fails`) is also the wake-up of that task. The stages of
`closer` are the awaits of `close()`; `CancelClose` is its cancellation, which is swallowed together
with the task it awaited. The peer (external) answers what it has read in any order and any number
of times. Methods, parameters and results are left out, but not that they may fail to serialise
(`SendRequestFails`, `ReplyFails`).

### How `AcpUpdates` corresponds to the code

Whether an update belongs to a turn depends on the order in which the event loop runs what is ready,
so `ready`, the loop's queue of callbacks, is part of the state, and every step of a task is the
callback at its head. A chunk of lines is processed without a suspension (`AfterLine`); the
dispatcher starts a task per notification; a response resolves a future, which makes the caller
ready. `NextRound`, `Timeout`, `EndWait`, `Pop`, `DrainAgain`, `EndTurn` are `stream_events`;
`Settle` is the `sleep(0)` of `load_session`. The agent (external) sends text for the request it
serves and state changes at any time.

## 3. Runs

| Run | Question | Result |
|---|---|---|
| `SessionSafety` | with every entry point and fault: the inductive invariant `IndInv` (with `TypeOK`), `OneTurnAtATime`, `MessageInOnePlace`, `LiveRunIsCurrent`, `NoRunWhileClosing`, refinement `ServiceSpec` | holds |
| `SessionLiveness` | `QueuedPromptsRun`, `RunsEnd`, `CloseEnds` with every way a run is created and ends (but for a user's cancel) and a close that times out anywhere | holds |
| `EventBusStreams` | under every overflow policy and several kinds of subscription: `TypeOK`, `StreamsInOrder`, `SubscribedGetsEvents`, `NoReaderStranded`, `ResumeMissesNothing`, `ReadersEnd` | holds |
| `CheckpointResume` | with two questions, one bridged, two resumes that may be cancelled, closes and a crash: `TypeOK`, `AnsweredOnce`, `PendingUntilAnswer`, `ResumingIsHeld` | holds |
| `BackgroundTasks` | two tasks for one slot, with timeouts, abandoned cancellations, waiters and the shutdown: `TypeOK`, `SlotsRespected`, `EndedTasksHaveOutcome`, `NotifiedOnce`, `OutcomeIsFinal`, `TasksEnd`, `OutcomesReachParent`, `ShutdownEnds` | holds |
| `AcpConnection` | with failures of writer, stream, serialisation and a cancelled close: `TypeOK`, `OwnAnswer`, `WaitersRegistered`, `RepliesMatchRecords`, `OrderlyClose`, `CloseEnds`, `QueuedAnswersAreWritten` | holds |
| `AcpUpdates` | `TypeOK`, `LoadIsComplete`, `TurnsAreSeparate`, `AgentOrder`, `AnsweredRequestsEnd` with turns, loads, cancellations and announcements in between | holds |
| `SessionCancelChained` | does `_cleanup_run` free the session when a cancelled run was chained (`BusyRunIsDriven`)? | violated |
| `SessionCloseDuringTurn` | does the close await the turn before it exits the agent (`AgentExitAwaitsTurn`)? | violated |
| `SessionSteersLost` | does a steer that an ACP agent's run has taken reach the agent (`TakenSteersReachAgent`), as the comment in `start()` says? | violated |
| `ResumeForgets` | does a call leave the record only when a run was given its answer (`NoCallForgotten`), as `resume_session` says? | violated |
| `ResumeCancelled` | does a failed resume leave a record that can be resumed (`FailedResumeIsUndone`), as `resume_session` says? | violated |

`CHECK_DEADLOCK FALSE` everywhere: each of these systems stops when all its calls have returned and
everything was read.

*Sessions.* Four messages in `SessionSafety`, three elsewhere: two runs and a message between them are needed for every overtaking
and hand-over in the code (a run that ends, one that waits for `turn_lock`, one in the queue); with four, `turn_lock` has two waiters behind a
turn and each queue reaches length two beside two runs. Each message is submitted at most once, and the close and its retry happen at most
once; there is no other bound. `SessionSafety` has NativeTurns, which is where messages move most (the proofs are for both kinds of agent);
`SessionLiveness` has no steers and does not tell them apart. Symmetry over messages is used where only safety is checked.
`SessionLiveness` leaves `cancel` out because `BusyRunIsDriven` fails with it: the session then stays busy, and what is queued waits
(`RunsEnd` and `CloseEnds` still meet cancelled runs through `close_timeout`).
The preconditions of the properties are the code's, not conveniences. `NoRunWhileClosing` excludes `process_prompt` and `run_stream`, because
they do not look at `is_closing` again after they have awaited the agent. `QueuedPromptsRun` excludes a raising `start()` and runs driven by
their callers, which end without a look at `prompt_queue`.

*Event bus.* Four events (`MaxEvents`), queues and replay buffers of length two: an overflow and an eviction happen,
a consumer can resume after either, and a gap and a contiguous history both occur. One client is enough: consumers
share `log`, `replay` and `buffers`, which no consumer writes, so a second one adds no behaviour to the first. The events of
a lead and its two children, one with a hint, make each branch of `_should_receive` decide. Resumption with `scope="all"` is not
in the profiles: see section 5.

*Checkpoint and resume.* Two calls, because one call's record is overwritten by the other's; two resumes, because they race;
two runs, one of a closed session and one of its successor; one crash, since after it everything in memory is gone and the next
finds the same kinds of state. `CONSTRAINT UpToStale` cuts behaviours where `stale` has become true: `AnsweredOnce` and `PendingUntilAnswer` are
`stale \/ ...` and `stale` stays true, so the cut loses nothing of them; `ResumingIsHeld` is proved for the behaviours that are cut, too (section 4). Symmetry
over resumes. The violated runs need one call and one resume: `ResumeForgets` one crash, `ResumeCancelled` none.

*Background tasks.* Two tasks and one slot make one of them queue; two waiters make one replace the other. `Expiring` and `Awaited` name one task
each: it may be cleaned up and waited for, the other shows what happens behind it.

*ACP connection.* Two calls and one message of the peer: answers in any order, and an answer and a request in one outbox.
*ACP updates.* Two requests and two updates: an update of one request can meet the other, and two updates can overtake each other.

Every property has a mutant in `PROJECT.json`: a `Wrong...` operator beside the definition it would
replace, on which the property fails.

### Fairness

In each module fairness is what the event loop gives: a task that is ready is resumed, a timer
fires. Beyond that:

* `SessionRun`: an agent's turn ends, without which nothing that waits for a turn can be live; so does the notice to a lead's session; a caller that drives a run
  reads on; the steps of a close end. The 15 s timer need not fire, and `CloseEnds` holds wherever it does. `turn_lock` needs no strong fairness because asyncio's
  locks are FIFO, which the model spells out.
* `EventBus`: a consumer in `queue.get()` is resumed when there is an event or the queue is shut down.
* `BackgroundTasks`: timeouts fire (the code gives every task one), a cancelled coroutine ends, a delivery and a blocking wait end (both have a limit). A
  coroutine that was not cancelled need not end, nor does anybody have to launch, cancel or shut down.
* `AcpConnection`: sender, dispatcher, handlers and the steps of `close()` go on; a write ends or fails. Neither the peer nor the receive loop has to do anything.
* `AcpUpdates`: the loop runs what is ready, the 50 ms are over at some time, the consumer of a turn takes the next event. The agent need not answer; that it talks only
  `MaxUpdates` times matters for `AnsweredRequestsEnd`, because a drain goes on while updates keep coming.
* `CheckpointResume`: none; only safety is stated.

Nothing is assumed about callers or faults.

## 4. Proofs

`SessionRunProofs` proves, for every set of messages, both kinds of agent and every choice of `Events`:

* `Invariance`: `Spec => []IndInv`. `TypeOK` alone is not inductive. `IndInv` adds that a run in its turn is the
  head of `turn_lock` (`TurnLockHeld`) and how messages that are queued or have a run were settled (`SettledMessages`),
  which shows that no step creates a run twice.
* `TypeCorrectness`, `TurnExclusion`: `TypeOK` and `OneTurnAtATime` follow. Two turns would both be the head of
  `turn_lock`.
* `ClosingCreatesNoRun`: `NoRunWhileClosing`.

`SessionServiceProofs` proves `Refinement` (`Spec => ServiceSpec`). The simulation needs, besides
`IndInv`, that a queued prompt has no run yet and is queued once: otherwise a run
chained for it could be its second. Each action is a step of `PromptService` or a stutter; a turn
begins only when no other is being executed because `turn_lock` was free or its head is the run that
begins.

`SessionMessageProofs` proves `MessagesInOnePlace` (`Spec => []MessageInOnePlace`). The inductive
`MessageInv` speaks of sets: the places are pairwise disjoint and together hold the messages taken, no queue repeats a
message, and a run that has not begun has taken no steered message (`start()` overwrites `queued_steer_messages` with what it
drains, and would lose what is there). `OnePlace` goes back to positions. `LiveRunsAreCurrent` (`LiveRunIsCurrent`) needs that a run that is
not complete is registered until its task or caller takes it out, and takes it out only with `current_run_id`, or after a close has marked it.
`TakenSteersArrive` (`TakenSteersReachAgent`) assumes NativeTurns and none of the ways a run loses what it has taken (`Losses`: a cancel, a raising
`start()`, a turn error, an empty prompt, the close's time limit): then every run passes `Activate`, and none has a steer left after it. The code makes no such
assumption, and `SessionSteersLost` shows what happens without.

The proofs have one lemma per action that changes a lock or a queue, and one per group of
those that do not. They rest on `ConstantsAssumption`, which TLC evaluates in every run, and on no other assumption.

`EventBusProofs` proves, for any clients, sessions, session tree, policy and sizes:

* `ReadersAreNotStranded`: `NoReaderStranded` is inductive as it stands, because each way a subscription ends (a dead queue, `unsubscribe`, the end of
  the session) shuts the queue down in the same step.
* `BusInvariant` and from it `TypeCorrectness`, `ConsumersKeepTheOrder` (`StreamsInOrder`) and `ConsumersGetTheirEvents` (`SubscribedGetsEvents`). What the
  three lack to be inductive is what a new subscription replays: a replay buffer holds events of its session only, in their order (`Histories`).
* `ResumingMissesNothing` (`ResumeMissesNothing`), on the assumptions that a queue has room for a replay buffer and that nobody subscribes with `scope="all"`.
  The code demands neither, and without either the property fails: the replay stops at a full queue (hazard at `event_bus.py:493`), and section 5 has the other.

What `Keep` and `FlattenSeq` return is proved by induction over the length. The library's induction
theorems take an operator and cannot be used, but the well-foundedness of the numbers
(`NatLessThanWellFounded`, `WFMin`) is about sets, and gives induction for a set of numbers
(`Counting`); the function that a recursive definition names exists (`KeptExists`, `FlatExists`)
because it does up to every length.

`BackgroundTasksProofs` proves, for every set of tasks and callers and every number of slots,
`Invariance` (`TaskInv`) and from it `TypeCorrectness`, `SlotsAreRespected`, `EndedHaveOutcome` and
`OutcomesAreFinal` (an action property). `TypeOK` alone says nothing of the semaphore: that a slot
is there when the head of `queue` is woken, and that it has not started yet, needs `QueueIsWaiting`
(the queue holds the tasks without a slot, each once), `SlotsAdd` (the counter and the tasks that
hold a slot make `max_concurrent_tasks`) and `TasksAreConsistent` (how far `_execute_task` is bounds
what the status and the coroutine can be). The only assumption is `ConcurrencyAssumption`
(`max_concurrent_tasks` is a number). `NotifiedAtMostOnce` (`NotifiedOnce`) needs an invariant of
its own, `NoticeInv`: the copies of a notice, in the batcher, in the batches being delivered and
with the parent, are as many as the task has reported, so that no flush doubles one.

`AcpConnectionProofs` proves, for every set of outgoing calls and of messages of the peer,
`Invariance` (`ConnectionInv`) and from it `TypeCorrectness`, `RequestsGetTheirAnswer`,
`WaitersAreRegistered`, `RecordsTellTheReply` and `CloseIsOrderly`, which are the invariants of the
run `AcpConnection`. None is inductive: that an answer is its own needs that an id belongs to one
call in the store, the outbox and the peer together (`IdsAreIssuedOnce`); that a waiter is
registered needs what the store can lose while its request is still in the outbox
(`CallsAreConsistent`); that the peer is answered once needs that a handler has at most one item in
the outbox (`OutboxIsTyped`) and what the record says until it is written (`MessagesAreConsistent`);
that nothing is published to a closed queue needs the order of the stages (`StagesAreOrdered`). The
proof has a lemma per action, and under it a step per conjunct that the action can disturb. The only
assumption is `DistinctNames`.

`CheckpointResumeProofs` proves, for every set of questions and resumes and any number of runs and
crashes, `ResumesAreExclusive` (at most one `resume_session` is past the resume lock) and from it
`ResumingEnds` (`ResumingIsHeld`), also in behaviours with stale records, because no party but the
holder of the lock writes `resuming`. It further proves `TypeCorrectness`, `AnswersReachOneRun`
(`AnsweredOnce`) and `CallsStayRecorded` (`PendingUntilAnswer`). Their invariant `AnswersInv` says
which question belongs to which run (`RunsInv`), that a question whose tool has not recorded it is
in no record that anybody has read, and that what a resume has read names no question but the one it
brings an answer to (`StoreInv`). Until the first stale step it adds that a question that is still
asked has no answer (`OnceInv`), and that a recorded one has an answer only while the resume that
gave it has not yet saved the record (`GivenInv`, `PendingInv`). The proof found a case TLC's two
resumes are too few for: a resume let in for its futures, which it finds gone, fails and saves an
active record as `checkpointed` (`session_pool.py:893-897`, comment "keep status as checkpointed");
a call that was answered in the process can then be replayed. `stale` covers that step. The only
assumption these proofs use is `NoneAssumption`. What `AnswersReachOneRun` says is an upper bound: that a run gets the answer at all is
`NoCallForgotten`, which fails.

`AcpUpdatesProofs` proves, for any number of requests and updates, `AcpInvariant` and from it
`TypeCorrectness`, `LoadsAreComplete` (`LoadIsComplete`), `TurnsStreamTheirOwn` (`TurnsAreSeparate`)
and `TurnsKeepTheOrder` (`AgentOrder`). A text takes five stations: the line (`inbox`), the
dispatcher's queue, a task in the loop's queue, the list of the session, the stream. A response
overtakes it nowhere, for a reason that the invariant spells out: what is said for a request is on
the line before its answer (`SaidBefore`); the task that handles a text is ready before the caller
whom the answer wakes can run a second time, so when the caller sees the answer the text has left
the dispatcher's queue or will in this round (`QueueClear`), and once it has suspended again no task
of a text is behind it (`LateClear`; the exceptions are a turn that began with `update_event` set,
`stale`, and a caller that has not suspended yet, `RunsOn`). `LoopInv` says that a task that has
something to do is ready, once; `OrderInv` that no text overtakes another between any two stations;
`RequestInv` that a request is answered once; `SeparateInv` that what is ahead of a client whose
turns were all drained is of the present turn. The only assumption is `BoundsAssumption`.

Every invariant of the passing runs, `OutcomeIsFinal`, `NoRunWhileClosing`, `ResumeMissesNothing`
and the refinement `ServiceSpec` are thereby theorems. Only model-checked is the liveness:
the prover does not do it under fairness.

## 5. What the violated runs show

1. *Cancelled chained run.* The done callback is bound to the first run of the task, so cancelling a
   later one leaves it in `_runs` and in `current_run_id`, and the prompts queued behind it wait for the
   next message of the session.
2. *Agent exited during its turn.* The close waits for an event it has set itself.
3. *Steers lost.* A steer that arrives while an ACP agent's run is in its turn waits in `feedback_queue`; the next run's `start()`
   takes it into `queued_steer_messages`, and nothing reads these.
4. *A resume forgets its call.* The record has a pending call and the process restarts. The resume loads the checkpoint, marks the
   record, and calls `run_stream` with the empty prompt, which finds nothing staged and starts no turn. The resume then saves the
   record as active, without the call.
5. *A cancelled resume.* The task of `resume_session` is cancelled after the record was marked; the record says `resuming` for good.

The models also show the following; they are why some properties carry a precondition, and none of
them is assumed away silently.

*Runs.* A run that `run_stream` or `process_prompt` drives ends without chaining what is queued. With any agent, a run with an empty prompt, a failing one
and one that is cancelled before its agent run exists lose the steers they have taken.

*Event bus.* With `scope="all"` the gap check looks only at the first event of all buffers one after the other (`event_bus.py:471`; the docstring,
416-417, speaks of each buffer), so a resumed client can get an event twice or miss the notice of a gap.

*Checkpoint and resume, before `stale`.* A second question while the record is `checkpointed` is not recorded and overwrites the checkpoint. A batch of
bridged calls cannot be answered by the ACP handler, which brings one answer at a time. A run that was resumed and asks again cannot be answered until its
elicitation times out, and there is no timeout by default. The event is published before the future is registered, so an early answer is lost. A bridged call that
is answered before its run ends resolves a future that nobody awaits. `run_stream` on a session that closes returns at once, or follows a run that has appeared: the
answers are dropped and the record becomes `active` all the same. A run that is followed and is cancelled outside its turn's handler publishes no event that ends the
following, so the resume keeps its lock until the session closes. A run that ends in `RunErrorEvent` clears the pending calls (comment at `session_pool.py:860`: only when it has
succeeded). A child closed by the cascade becomes `closed` with its pending calls. A crash in `resuming` leaves a record that nobody can resume.

*Checkpoint and resume, by `stale`.* `resume_session` uses after the lock what it has loaded before it (`session_pool.py:722`, 794), so a concurrent resume with an old
`allow_active_run` replays a call that was answered (docstring, 233-255: one resume at a time); `SessionBusyError` writes `checkpointed` back over whatever is there (893-897); tools that
ask in parallel overwrite each other's pending call; so does the close (`session_controller_close.py:329`). A resume that has given the answer to a waiting tool and is cancelled
before it has saved the record leaves the call pending, so that it can be replayed from the checkpoint.

*Background tasks.* A cancellation that arrives while the cancelled timeout is awaited leaves the task `cancelling` for ever (`manager.py:151`, 253; `EndedTasksHaveOutcome` allows exactly this).
A task cancelled while pending reports its completion twice. `after_run` shuts the batcher down before the manager, so that what ends in between starts a timer nobody stops (docstring,
`capability.py:553-556`). A batch in delivery at the shutdown is lost. The time limit of `cancel_task` writes an outcome without reporting it. A task that is cleaned up while the shutdown awaits
another raises `KeyError`, which `after_run` suppresses (stage `aborted`).

*ACP connection.* What is sent after the close, or behind a failed writer, never settles. The end of the stream rejects nothing until the close. A result that cannot be serialised is
never answered. A handler that returns after the sentinel loses its answer. A cancelled `close()` goes on, and drops unsent messages when it was awaiting the sender.

*ACP updates.* When `update_event` is set from before, the first wait ends at once with nothing to drain, and so does the turn (`stale` turns; docstring, `acp_agent_api.py:278-281`). `create_turn` does not clear the
updates of an earlier turn. A cancelled load leaves `is_loading` set. An update of the commands that is still being announced is missing in the load.

## 6. Not modelled, and the plan

The repository has some 183 000 lines, of which most are data, layout and I/O: toolsets, protocol
translation, storage providers, configuration models and the UI. The models cover the concurrent
core, which is a small share of the lines; a module for, say, a toolset would restate its calls and
have nothing to say that could be wrong. `PROJECT.json` gives the reason for each component.

Left out inside the modelled components: `run_agent`, the cascade to child sessions (except its
effect on a child's record), what a lead's session does with the notice of a member's crash, the store's failures (except on close),
tracing (`SessionRun`, `CheckpointResume`); the resume of ACP agents and the unreachable branch of `run_stream` under `_request_lock` (section 2); the expiry scan of deferred calls, which never finds any
since nothing sets `PendingDeferredCall.timeout`; answers through the OpenCode question API;
`drain_and_merge` and changes of the session tree (`EventBus`); what a follow-up of a background
task returns or fails to send, and the cancel scope of the batcher, which is entered before the run, never left, and cancelled by the shutdown
(`notification.py:358`): what it interrupts depends on the scopes of anyio (`BackgroundTasks`); observers of the stream, parsing
(`AcpConnection`); permission, file and terminal requests and forks (`AcpUpdates`).

Plan, in order:

1. Proofs: what the liveness properties rest on and is safety, such as that a session with a queued prompt has a run that will look at it.
2. `SessionTree`: the registry, the cascade of a close to children that are being registered, and the TTL scan, which closes
   sessions after it has collected them.
3. `Lifecycle`: journal, snapshots and replay after a crash. `drain_and_merge` as an operator of `EventBus`.

The runs and properties are as many as can be checked in reasonable time; 2 and 3 take the place of
weaker ones.
