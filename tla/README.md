# A TLA+ verification of yuxu

yuxu is a daemon of cooperating agents in one asyncio event loop: a kernel
(message bus and loader) and about thirty bundled agents and skills. This
directory holds TLA+ models of it, the TLC configurations that check them on
small instances, and TLAPS proofs, for every value of the constants, of the
kernel's properties and those of the supervisor, the rate limiter, the approval wall,
the pairing gate, the scheduler and the memory files. Paths below are relative to
`src/src/yuxu/`; those of agents to `src/src/yuxu/bundled/`.

## The system

| Component | State | Operations | Interacts by | Hard behaviours | What makes it correct |
|---|---|---|---|---|---|
| bus, point-to-point (`core/bus.py`) | `_handlers`, `_pending` | register, unregister, send, request | a task per message | timeouts against late answers, handlers replaced between send and dispatch | no leaked reply entry, nobody answered twice or by a run that was not theirs, every request returns |
| bus, topics and status | `_subs`, `_status`, `_status_events` | publish, subscribe, publish_status, wait_for_service | handler tasks, events | status that changes before a waiter looks again | waits end, no failure goes unseen |
| loader (`core/loader.py`) | `_locks`, `tasks`, `modules`, bus status | ensure_running, stop, restart, crash callback | calls itself for dependencies; bus | locks held over awaits, stop without the lock, timeouts that leave tasks alive | one start at a time, dependencies first, nothing out of stop's reach, every call ends |
| project_supervisor | `_restarts`, `_in_flight`, `_give_ups` | state-change handler, scan, restart, reset | subscription, loader.restart | events during a restart, two heals at once, sliding window | bounded restarts, no failure missed |
| rate_limit_service | lanes, credits, counters, call times | acquire, release, snapshot | one condition variable per pool | cancellation, timeouts, ties, lazy pruning | limits kept, nobody overtaken but by ties, everybody served |
| approval_queue, checkpoint_store | `_queue`, one JSON record | enqueue, approve, reject, load_state | requests, `.decided` events | failed, refused, late and reordered saves, crashes | an answered approval is on record; no act without one (refused saves apart) |
| approval_applier | drafts and memory files | decided event, gate, write, archive, apply_draft | subscription, request to admission_gate | crash around the write, check before an await | each approval is applied once at most; no draft is lost |
| memory_curator, reflection_agent | drafts, improvement log | curate, reflect | LLM calls, approval_queue | runs that overlap, lost enqueues | no proposal twice |
| admission_gate, performance_ranker, memory, session_compressor | memory files and their frontmatter | check, credit, demote, list and search, compress | `memory.retrieved`, files | events counted for an older version of a file, overlapping roots | trust is earned by the text that has it; a verdict is as good as what it saw |
| scheduler, minimax_budget | throttle level and time, usage windows, alerts | fire, cap events, can_serve, refresh | events and requests | stale snapshots, lazily cleared counters, overlapping refreshes | a cap event holds for its time, floors are served, alerts are in order |
| llm_driver, llm_service | a turn's messages, retries | run_turn, chat | rate limiter, provider | timeouts that leave a call running, partial failures | every turn ends, a call is charged once, requests are well formed |
| llm_judge, context_compressor, compactor, harness_pro_max and the skills of `/new` | none of their own but files | compare, score, compress, compact, create | turns of llm_driver | votes that fail, documents that fail | the verdict is the majority's, nothing is lost unsaid |
| gateway (drafts, pairing), adapters, dashboard | sessions, draft handles, the pairing file | inbound, gate, open, update, close, reload | subscriptions, adapters, `yuxu pair` | two writers of one file, edits under way at the close | only approved senders get through, the last text stays |
| recovery_agent, resource_guardian, runtime_monitor | inventory, event times, registry entries | scan, gc, record, sweep | requests, files | decisions on stale scans, sweeps that race | nothing young is deleted unless it was old when listed, a burst is warned of once |
| project_manager, other skills, command line, examples | files | one call at a time | | none that a model checker reaches | |

`PROJECT.json` lists each of these as a component with its status, and under
`hazards` the places in the code that are hard to test, with the property that
watches each one or the reason why none does.

## Modules

| Module | Models | State | Actions |
|---|---|---|---|
| `BusDirect` | `Bus.register`, `unregister`, `send`, `request`, `_dispatch_direct` | handler table, messages and their task, reply table, callers | one per section between two awaits: `Send`, `Request`, `DispatchMissing`, `DispatchCall`, `HandlerEnds`, `GiveUp`, `Resume` |
| `Rpc` | the promise of a request: one outcome, earned by the handler or by the deadline | abstract | |
| `Loader` | `Loader.ensure_running`, `_start` for every driver and run mode (a start registers its handler, awaits and is ready in steps of their own), `stop`, `restart`, `_on_task_done`, `_handle_task_crash`; of the bus `publish_status`, `wait_for_service`, `register`, `unregister` | status, per-agent lock, calls, instances of start(), task table, modules, handlers, stops | one per section between awaits |
| `Supervisor` | `project_supervisor`, extending `Loader`: its restarts are the stops and calls of that module | events under way, `_in_flight`, restart times, heals | `Install`, `Scan`, the state-change handler, each section of a heal, reset, clock |
| `RateLimit` | one pool of `rate_limit_service` | callers, lanes, credits, account slots and call times, lock and condition | entry, look, wait, wake-up, admission, timeout, cancellation at each await, release |
| `Permits` | what a pool promises: at most so many holders per account | abstract | |
| `Approvals` | `approval_queue`, the save and load of `checkpoint_store`, `approval_applier`, proposers as they use them | queue, what in it cannot be encoded, record on disk, handlers, saves and events under way, drafts, memory files | each handler cut at its awaits, `Crash`, `CrashInWrite`, `Restart` |
| `Consent` | what the approval wall promises: verdicts are final, an act follows its approval and happens once | abstract | |
| `Drafts` | `gateway/draft.py`, the draft operations of the gateway, `reply_via_gateway`, `dashboard`, adapters as they render | handles with their fair lock, tasks inside them, renders under way, what the chat shows | open, update, flush, coalesced flush, refresh, close, each cut at its awaits; renders that succeed, fail or raise |
| `Gateway` | inbound messages and `gateway/pairing.py`, extending `Drafts`; `yuxu pair` as another process | registry in memory, in the file, in each command; mtimes; messages under way | hold, hint, deliver, cancel; cut and write of the file by both processes, poll, reload |
| `Budget` | `minimax_budget` over what the vendor says | vendor's interval, refreshes under way, snapshot, alerts, local counters | fetch, refresh, completion, roll, reset, restart |
| `Scheduler` | `scheduler`, extending `Budget`: its throttle hears the alerts, its schedules ask `can_serve` | throttle, schedules, requests under way | tick, judge, fire or skip, cap event, override, reload, restart |
| `MemoryStore` | memory files: `memory`, `performance_ranker`, the stages of `admission_gate` | files with level, probation, counters and age; events under way | retrieve, credit, blame, sweep, reset |
| `Memory` | `reflection_agent`, `memory_curator`, `approval_applier`, `session_compressor`, extending `MemoryStore` | runs, drafts, archive, approvals asked for, applier's tasks, improvement log | each step of a run between two requests, decide, fetch, gate, judge, settle, apply_draft, compress |
| `Conversation` | message lists: what the driver appends, the compactor cuts, `anthropic_adapter` translates | operators | |
| `LlmTurn` | `llm_driver.run_turn` and `llm_service`, extending `Conversation` | turns, requests in the service, free slots, charges | ask, serve, answer, fail, time out, retry, tool results, the end of a turn |
| `LlmJobs` | `llm_judge`, `context_compressor`, `compactor`, `harness_pro_max` with `classify_intent` and `generate_agent_md`, extending `LlmTurn` | jobs, files of new agents | a step of each job, aggregation |
| `Recovery` | `checkpoint_store` and `recovery_agent` | records by age, inventory, jobs | save, delete, list, load, end of a scan, discard |
| `Guardian` | `resource_guardian` | event times, last warnings | error, throttle, report, reset, time |
| `Registry` | `runtime_monitor` and `yuxu ps` on `~/.yuxu/runtime` | entries, processes, sweeps | install, uninstall, crash, look, unlink |
| `MC*` | instances for TLC | | |
| `*_proofs` | theorems and proofs | | |

A step of a model is what the event loop runs between two suspensions of a
coroutine. Where the code awaits something that may finish without suspending
(an uncontended lock, a topic without subscribers) the models treat the task as
suspended: that adds interleavings and takes none away. Where another process
is involved (the pairing file, the registry) a step is one system call. Agents,
names, payloads and files are model values, texts a version number or a record
of what the code tells apart; logging and parsing are left out. What a model
answers, a user decides or a provider returns is an input.

A definition whose comment begins with "Fault:" is not used by `Next`: it is the
code with one plausible mistake, and each property was seen to fail when the
mistake replaces the code (`PROJECT.json`, `mutants`).

## What the runs show

| Run | Bounds | Shows |
|---|---|---|
| `Watchers` | two requests, one send, one agent, two handlers; two checkpoints and two jobs of recovery_agent; four events in a window of two; three daemons of two projects and one `yuxu ps` | the reply table holds exactly the waiting callers; every request returns; `Rpc` is implemented; gc, bursts, sweeps |
| `Loader` | scripts: a start of an agent with two dependencies (one without code) against its restart, or against a stop of the dependency that cascades; two starts of one agent against its restart; a skill; a one-shot agent; crashes, import errors, ready timeouts | the inductive invariant; of a steady agent one start at a time, and its live instance is the one stop would cancel; dependencies first; a steady agent that registers a handler and is ready can be reached; every call and stop ends |
| `Supervisor` | one agent, two heals, one restart per window, three instants | the budget, earned giving up, no failure between subscription and scan |
| `RateLimitSlots` | four callers in two lanes (two alike), two accounts, one slot and two calls per window, two instants | calls per window, `Permits` is implemented |
| `RateLimitServed` | four callers, three of one agent, one slot; two alike run out of time | the patient ones are served, also when their neighbour's waiter is dequeued by equality; nobody is overtaken in a lane unless an equal left |
| `Approvals` | an add and an update of one file, a crash or a detail that cannot be encoded; failing, refused, late and overtaking saves | answered is durable, `Consent` is implemented (but for an edit whose own save was refused), decisions settle |
| `Gateway` | two strangers and two commands of `yuxu pair`; three messages of one session; one streaming agent with two updates; versions up to 2; with and without edits | nobody gets in who was not approved, whatever half-written file is read; the daemon catches up with the file; the final frame is the last; closed drafts are dropped |
| `Scheduler` | three schedules (of each priority), one agent with a floor, a cap of two requests, two vendor intervals, two refreshes | order of alerts, no cap event in force is softened, floors, skipped schedules fire again |
| `Memory` | two runs at once, three files, two overlapping roots, probation of two retrievals, two windows of staleness, dates of today and a window back | no text staged twice by reflection, probation earned, one step per window since the date an entry bears, drafts never lost, the gate's verdict as good as what it saw |
| `LlmJobs` | one slot, one retry, one or two jobs of up to four turns, both dialects, errors, timeouts and leaked reasoning | well-formed requests, one charge per call, majority verdicts, no silent loss, everything ends |
| `SupervisorDeaf` | one agent that fails to import | the first disagreement below |
| `RateLimitFifo` | as `RateLimitServed` | the second |

`MCLoader`, `MCGateway`, `MCScheduler`, `MCMemory` and `MCLlmJobs` choose in
`Init` a script that says who acts in a behaviour (the clients that begin, the
operators' commands, what a model answers). `MCApprovals` lets a crash or a detail that
cannot be encoded into a behaviour, not both; the theorems are about both. A script
only restricts the environment, never the code; each hazard has one that meets it, which
keeps one run per module within minutes.

Why the bounds are enough: every hazard needs two actors, or three with a third
that has priority or depends on both; every window, threshold or cap is set to
the least value that has an inside, an edge and an outside. Every action of every
`Next` fires in its run. For the safety properties that are proved the bound does
not matter. For the rest it is a bound on confidence, and named in the `.cfg`.

### Disagreements between the code and its documents

With a run:

- `SupervisorDeaf`: the `failed` event of a restart that fails is dropped because
  the agent is in flight (`project_supervisor/handler.py:57`); the agent stays
  down with budget left, while `AGENT.md:10-11` says it is restarted.
- `RateLimitFifo`: `rate_limit_service/handler.py:239` (and 229) takes a waiter out of its
  lane by equality: a caller that gives up or is cancelled takes along one whose fields
  are the same, whose caller then waits outside the lane and sees later callers of its
  agent let in, which the comment of line 162 says should not happen. `AGENT.md:40`
  says an agent's callers are first in, first out.

Each of the following breaks a promise that a module states as a property of its own. TLC
refutes it when it is named in the `.cfg`; no run is spent on it:

- `StoppedIsDead` (`Loader`, with `Faults <- LateFaults`), `core/loader.py:329-333`: a
  start that misses `ready_timeout` is published as failed but not cancelled; the next
  `ensure_running` runs a second instance beside it and forgets the first, which is
  alive when the agent was stopped. docs/CORE_INTERFACE.md:130 says stop "cancels its
  task".
- `OneInstance` (`Loader`), `core/loader.py:463`, and 500 with 331: a crash of which the
  loader hears after the stop, and of two stops that overlap the later to end, publish
  `failed` or `stopped` over an instance started between them. The next
  `ensure_running` starts a second instance beside a live one, which no stop can reach
  any more; docs/CORE_INTERFACE.md:127 calls `ensure_running` idempotent.
  `Idempotent` and `LiveIsTracked` speak therefore of agents (`Steady`) that are
  never late, are stopped or restarted once at most, and if so do not crash.
- `SlotsReturned` (`RateLimit`, in `RateLimitSlots.cfg`), `rate_limit_service/handler.py:252`: a
  caller cancelled while its release waits for the lock keeps its slot;
  `AGENT.md:110` says that leaving returns it. `Permits` counts it as held.
- `PendingSurvives` (`Approvals`, with `SPECIFICATION Spec`), `approval_queue/handler.py:47-53`:
  `_persist` does not look at the answer of checkpoint_store, which is `{ok: False}` when
  the record cannot be encoded (`checkpoint_store/handler.py:114-115`); enqueue answers
  and decisions go out with nothing on record, for that entry and all that come after it,
  and are gone after a restart. `AGENT.md:50-51` says no pending item is lost. Hence `refused`.
- `FallsInTime` (`Scheduler`), `scheduler/handler.py:176-182`: a soft event that finds a
  hard level whose time is up, at which nobody has looked, renews it for another
  half hour; `AGENT.md:32-34` says the level falls back by itself.
- `ReadAsUpdated` (`Memory`), `performance_ranker/handler.py:384`: `memory.retrieved` names
  paths; a retrieval announced before an update and delivered after it counts for the
  new text. docs/ARCHITECTURE.md:250-252 says the updated content has been read.
- `AddsAreNew` (`Memory`), `approval_applier/handler.py:178` with 219: of two approved adds of
  one file that wait for the gate at once the second overwrites the first, for the
  target is looked at before; `AGENT.md:57` says such an add is skipped.
- `OnlyAged` (`Recovery`, in `Watchers.cfg`), `recovery_agent/handler.py:113-119`: gc goes by
  the ages of the last scan and deletes a checkpoint that was saved since; `AGENT.md:35`
  says it deletes what `saved_at` shows to be old. `OldOrSavedSince` is what holds.

Met while modelling. Each is behaviour of the models, which the properties are
stated around:

- `core/loader.py:284`: when a dependency fails nothing is published for the
  agent, which docs/CORE_INTERFACE.md:129 says is marked failed.
- `core/loader.py:500` against 331: a stop during a start can end in `failed`
  after `stopped`.
- `project_supervisor/AGENT.md:26` promises to absorb jitter that `handler.py:62`
  does not.
- `approval_queue`: a record that cannot be loaded at boot leaves the queue empty,
  and its next save overwrites the record.
- `approval_applier/handler.py:54-58` and 189-191: a comment says an update inherits the
  evidence level; it takes the draft's.
- `approval_applier/handler.py:64-74`: the stamp of an update leaves `updated` as the proposal
  has it, and curator and reflection keep a given date: an entry written with a past
  date is stale at once, and the next sweep demotes it (`Dates` in `MemoryStore`).
- `gateway/pairing.py:159` with `gateway/handler.py:108-113`: an approval by
  `yuxu pair`, which should take effect without a restart, is lost when the daemon
  writes its own copy after the command has read the file; `missed` in `Gateway` is
  the case where a change is never seen, because the daemon takes the mtime after its
  own write for its own.
- `dashboard/handler.py:84-89`: of two `/dashboard` at once the first card's loop
  is forgotten and refreshes until the daemon stops; `AGENT.md:14` says that any
  other message ends the dashboard.
- `scheduler/handler.py:121`: the throttle ends after its TTL although the newest
  snapshot is at the cap, for alerts are sent once per interval and not by level;
  `AGENT.md:35` says that under sustained pressure it stays.
- `memory_curator/handler.py:559` looks for duplicates by the hash of the raw body,
  while the file name has the hash of the body with its defaults: the same
  body is staged again in the next run (comment at 533-539). Hence the exemption
  in `NoRepeats`. Its `AGENT.md` says nobody publishes `session.ended`; the
  loader does.
- `admission_gate/handler.py:57`: golden replay looks in
  `docs/experiences/sessions_raw`, while drafts cite sessions of `data/sessions`.
  By default the sources of a run are `*.md`, and sessions are `.jsonl`.
- `performance_ranker/handler.py:43-46` says `mode=reflect` is the only path that
  retrieves entries on probation; other modes, get and the user's own filters do too, and
  every retrieval counts towards clearing it.
- `llm_driver/handler.py:351-353`: a turn asked for without a sender is attributed to
  "unknown", not to the caller. A turn stopped by its token budget returns
  tool calls that nobody answers.
- `llm_judge`: votes called parallel in its documentation are asked for one by
  one; a score reply in JSON without a score counts as 0. `SKILL.md` of
  `context_compressor` gives `max_bytes` as 60_000, the code 500_000.
- `harness_pro_max`: an agent with the name of a bundled one shadows it; a write
  that fails after `mkdir` leaves an empty directory that refuses the name.
- `recovery_agent/handler.py:113-119`: gc passes a checkpoint that grew old or came since
  the scan. Of two scans the later to end wins, though it may have begun first.
- `resource_guardian/handler.py:57`: the last warning defaults to 0 of the monotonic
  clock, so no burst is warned of in the first window after the machine starts.
- `runtime_monitor/handler.py:201`: a sweep may unlink an entry that was written
  anew since it was read.
- `core/session_log.py:65-67`: the docstring says a caller's `ts` is overwritten; the
  caller's wins.

## Fairness

The event loop runs every task that can run (weak fairness of its step) and fires
every timer. So: dispatch, handlers' ends and deadlines in `BusDirect`; every
section of a call and a stop, and the ready timeout, in `Loader`; callers' looks
and deadlines and the release of a caller inside, in `RateLimit`; handlers, saves,
timeouts, the applier and the boot after a crash in `Approvals`; in `Drafts` and
`Gateway` the tasks of the daemon, its watch loop, renders (adapters have timeouts)
and the end of a command that has begun; in `Scheduler` the loops of schedules,
delivery of alerts, the vendor's answers and the passing of the TTL; in `LlmJobs`
the service, the driver and the jobs, each as a whole (their work is finite, so
none can be put off for ever); in `Registry` the sweeps of one daemon that
stays up. Nothing is assumed of clients, users, crashes, cancellations or faults:
nobody need ask, decide or fail. `start()` of an agent need not become ready: that
is what the ready timeout is for. `Supervisor`, `Memory`, `Recovery` and `Guardian`
are checked for safety only. A call enters its agent's lock once, so weak fairness is
enough where a lock is free from time to time. Only `RateLimit`, whose callers take the
lock of the pool again and again, needs strong fairness of a caller that could have it:
`asyncio.Lock` is first come, first served.

## What is proved

| Module | Theorems | Inductive invariant |
|---|---|---|
| `Watchers_proofs` (bus) | `NoLeakedReplySlot`, `OutcomesAreEarned`, `FirstSettlementWins`, `BusImplementsRpc` | types; the reply table is the set of waiting callers; a settled future carries the outcome of the message's own end. `OutcomesAreEarned` does not tell the bus's LookupError from a handler's own (`bus.py:99`), as no caller can |
| `Watchers_proofs` (watchers) | `BurstsAreWarned` | `GuardianInv`: the events kept of a pair are a suffix of all that were heard, and what was cut has left the window; the time kept for it is that of its last warning, and no burst came since without one |
| | `OnlyOldOrSavedSince` | `RecoveryInv`: the time of a scan is not ahead of the clock; the victims of a gc told their age when they were listed, and are old enough now |
| `Supervisor_proofs` (loader) | `Invariant`, `Locked` | `IInv`: types; a call holds the lock of its target exactly between entering and leaving |
| | `OneStartAtATime` | `OneInv`: a live instance of a steady agent belongs to the call in the lock or to an agent that is up |
| | `StopFindsTheTask` | with `OneInv`, `StopInv`: while a stop joins the task it cancelled, no call has begun another start of that agent |
| | `DependenciesAreFirst` | `DepsInv`: an agent whose call has ended well was up, and stays so unless it crashes |
| | `ReadyHasHandler` | with `OneInv` and `StopInv`, `AttachedInv`: between its registration and `ready` the handler of a steady start stays, for a stop that unregisters it has cancelled the start |
| `Supervisor_proofs` (watchdog) | `SupervisorUsesLoader`, `SupervisedLoaderIsSafe` | none: a step of the supervised system is one of `Loader`, and its theorems hold |
| | `Budgeted`, `GivesUpOnlyWhenSpent` | `BudgetInv`: the restart times kept are a suffix of all the attempts, and what was cut off has left the window |
| | `FailuresAreSeen` | `SeenInv`: an agent in flight has a heal that is under way or over |
| `RateLimit_proofs` | `Invariant`, `NobodySavesUp`, `RateLimited`, `PoolImplementsPermits` | slot counters equal the number of callers inside (with the leaked ones) per account; call times are recent or prunable, in order, and no window of kept times holds more than `rpm` |
| | `LaneOrder` | `LaneInv`: a lane is in the order of arrival; a caller that waits outside it has an equal that left |
| `Approvals_proofs` | `Invariant`, `AnsweredIsDurable`, `WallImplementsConsent` | the queue knows what the record says; a decision is at one place on its way (save, event, applier, file) and on record once it is out, unless its own save was refused |
| `Gateway_proofs` | `Approved` | `PairInv`: every copy of the registry, the file and what is read of it while it is written included, allows only the approved |
| | `FinalFrameStays` | `DraftInv`: the queue of a lock holds the tasks that want it or have it; a handle has one closer, last in its queue; a closed handle has no other source of flushes |
| `LlmJobs_proofs` | `OneDebitEach` | `PaidInv`: a turn has one request under way at most, and none of its iterations that were paid for is ahead; a job has not asked for the turns ahead of it |
| | `NothingLostSilently` | with `PaidInv`, `SumInv`: each summary covers its document or says that a fallback was due, and a merge keeps what the summaries cover |
| | `MajorityDecides` | with `PaidInv`, `VoteInv`: a request shows the order its job drew; each counted vote is what one paid reply meant, and each is of another turn |
| | `RequestsArePaired` | with `PaidInv`, `TalkInv`: each message list on its way is settled (every call answered right after the message that made it, nothing else answered) or, while tools run, open in exactly the calls that still run |
| `Scheduler_proofs` | `ThrottleHolds`, `FloorServes` | `CapInv`: the level that is kept, looked at or not, is as strict as the cap events that stand, and none stands once its time is up |
| | `AlertsInOrder` | `AlertInv`: the same of the alerts made and not delivered; all of them are in the marks |
| `Memory_proofs` | `Unrepeated`, `Earned`, `AgesByWindows`, `AdmittedAsSeen`, `DraftsSurvive` | per file, retrievals and demotions against what its history counts, the window of a past date included; what a sweep has yet to look at; near-duplicates of a text that passed the gate were written since |

The properties themselves are not inductive. That an answered approval is on
record, say, needs that a saved one is, which needs that no save can undo one,
which needs that the queue a save writes knows all that the record says, even
after a boot; hence `OnRecord`. That no approval is applied twice needs that its
event, the applier's work and its effect exclude each other; hence `Way`. That
start() runs once at a time for one agent, whatever happens to others, needs that
no step of a call touches another agent's lock, status or instances; hence the
lemmas on `Elsewhere` and the split of `OneInv` by agent. A stop takes no lock:
that the table has the live task all the same needs that a call which comes while a
stop joins finds the agent still up, or a call in the lock whose event has not come;
hence `Held`. That a dependency was up when `start()` runs needs that nothing but a
crash takes it down, though other calls for it, late or failing, go on; hence
`WasUp`. The budget is one of a sliding window that is cut only by the task that
looks; hence the history `attempts`. A sweep folds over the files of every root and
a root may hold another: that no file is taken down twice needs that the first visit
makes it fresh; hence a least counterexample along the fold, not an induction. That
nothing replaces a final frame needs that whoever closes a handle has it for itself
(an update, a coalesced flush, the refresh loop and the card that opens next all look
before they queue), and that the lock serves in order, though tasks are cancelled
in the middle of the queue; hence `ClosersOK`, `ClosedOK` and the lemmas on queues.
That a judge names what most replies meant needs that a reply which comes too late is
not taken for one to the next question, and that the counted replies and the votes
correspond one to one; hence `Backed` and `OneEach`, a bijection.
That a request is paired is proved of the list before it is translated: micro_compact
only empties results, full_compact cuts where a user message stands, and no exchange
reaches across one, so what is kept is settled by itself; a turn whose budget ran out
between two calls leaves an open list, and its job drops it (hence the exception in
`TurnTalk`). For the second dialect the wire messages are counted by where they
begin, and the ranks are a bijection that keeps neighbours neighbours; hence
`RankOnto`, `RankNext` and `BeginsFinite`. That a burst is warned of although a report may
prune at any time needs that pruning cuts only what no later count could look at, and
that the one time kept bars a warning no longer than a window; hence `Dropped`. That a
gc takes nothing young needs that a request goes by the age of its own scan, at most
that of the clock when it chooses, and that what it chose only ages; hence `Going`
and `Doomed`.
`OutcomeIsEarned`, `SettledOnce`, `LockDiscipline` (a part of `IInv`), `CreditCapped`
and the slot counters are proved without a run of their own.

Assumptions: those on constants, named in the modules (`BusAssumption` and so
on), evaluated by TLC in every run that has them. They say what shape the inputs
have (finite sets of roots and edits, one name per task of a draft, values that stand
for nothing are none of the others; a judge's steps are votes, a compressor's are its
documents and a merge; a compactor keeps a natural number of turns, as the code takes
negative ones for 0), and no more. `OneStartAtATime`, `StopFindsTheTask` and
`ReadyHasHandler` speak of steady agents (see above), and of dependencies only those that are steady and that
nobody stops are promised to be up: for the others it is false. The theorems on
approvals assume that the record can be loaded at boot (`LoadMayFail = FALSE`), for
otherwise the queue starts empty over it, and except an edit from what they promise once
its own save was answered `{ok: False}`. `LaneOrder` allows the overtaking of
`RateLimitFifo` and no other. `Earned` counts a retrieval announced before an update and
delivered after it. `AgesByWindows` counts from the date an entry was written with, which
is today or a window back; dates in the future are left out. `AdmittedAsSeen` is about
entries the gate answered `passed` for: those it waived or could not judge
(`approval_applier/handler.py:279-293`), and those of `apply_draft`, are written without.

Only model-checked: liveness under fairness, which is out of this prover's reach with
`ENABLED` and induction over recursive definitions. These are `RequestsReturn`,
`CallsEnd`, `Served`, `DecisionsSettle`, `ReloadCatchesUp`, `ClosesEnd`,
`SkippedFires`, `AllEnds` and `DeadAreCleared`. Every invariant and every action
property that a passing run checks is stated by a theorem.

## What is not modelled, and the plan

- Parsing, texts, prompts and ranking by words (`core/frontmatter.py`,
  `core/principles.py`, `skill_index`, search of `memory`): pure functions on
  strings; what they decide is an input.
- I/O: HTTP to providers and chat services, polling, webhooks and signatures of
  the adapters, samples of the process, the setup wizard. How each may fail is
  in the module that uses it.
- `core/session_log.py`: one critical section.
- Skills that read or write files in one call; a synchronous `start` is one
  section of its call and needs no action of its own.
- The table of subscriptions of the bus: who hears what is written into the
  module of the hearer, so a supervisor that is restarted and heard twice is not
  a behaviour of `Supervisor`.
- `scan` and `build_dep_graph`: the dependency graph is a constant without cycles.

Next, in this order: `BusTopics`, with subscriptions that outlive a restart; `DepGraph`,
scan and the topological order against a reference definition.
