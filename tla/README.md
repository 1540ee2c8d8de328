# SimpleClaw: a TLA+ verification project

SimpleClaw is a multi-agent chat runtime: a Discord gateway receives messages, a
per-session worker runs one turn at a time (a ReAct loop over a language-model
provider and a set of tools), and the reply is streamed back into Discord
messages. This directory holds TLA+ models of the runtime, TLC configurations
that check them on small instances, and TLAPS proofs for every instance. Paths
below are relative to the crate's `src/` unless they begin with `sandbox/`
(`run.rs` is `src/run.rs` of the repository).

    tlc -workers 2 -config SessionWorkers.cfg SessionWorkers     # one run
    tlapm SessionWorkersProofs.tla                               # one module's proofs

`PROJECT.json` lists the components, the runs, the source lines behind every
definition, the hazards each property is aimed at, and the theorems.

## 1. The system

| Component | State | Operations | Interacts with |
|---|---|---|---|
| Gateway listener, `gateway/mod.rs`, `router.rs` | the message in hand | route (policy, session key), enqueue | Discord events in, inbound queue (capacity 1024) out |
| Routing policy, `config/routing.rs`, `*/policy.rs` | none (pure) | resolve the settings of a place, classify a message | listener, commands |
| Session store, `gateway/session.rs` | active session number per scope, persistent (SQLite) | `current_or_create`, `rotate` | listener, `/new` |
| Slash commands, `channels/discord.rs`, `gateway/mod.rs` | queue of commands, one command task | `/new`, `/stop`, `/status`, `/tools`, ten seconds' wait | session store, worker coordinator, background runs |
| Service loop, `run.rs` | the call in progress | receive, dispatch, acknowledge | inbound queue, coordinator |
| Worker coordinator, `run/session.rs` | map key → (id, sender), id counter, one task with an unbounded channel per worker | `dispatch` (look up or spawn, send, retry once), `remove`, idle expiry | service loop, `/new`, turn handler |
| Turn engine, `turn/*`, `react.rs`, `dispatch.rs`, `invoke.rs` | conversation of the turn | prepare, provider calls, tool calls, finalize; delegated turns | memory, tools, providers, streaming display |
| Memory, `memory/*` | short- and long-term rows and their vectors (SQLite, sqlite-vec) | append, recent, recall, memorize, forget | turn engine, memory tools |
| Providers, `providers/*` | the buffer of one stream | request from history and tools, events from bytes, response from events | turn engine, token store |
| Tools, `tools/mod.rs`, `dispatch.rs`, `sandbox/*` | registry per run; what each call set going | look up, authorise, plan, escalate, run | turn engine, approvals, background runs |
| File tools, `exec`, web search, `tools/builtin/*` and the guests under `sandbox/` | files | route a path, page, edit, list, search; judge a command | tool calls |
| Streaming display, `run.rs` | text wanted, text shown, message id, committed prefix, in-flight flags | delta, send, edit, rollover, finalize | provider stream, Discord messages |
| Background runs, `tools/async_tool_manager.rs`, `tools/builtin/wait.rs` | entry per run: status, claimed flag, finish time, waiters | start (with eviction), kill, complete, announce, wait | turn's tools, inbound queue |
| Approvals, `approval.rs`, `channels/discord.rs`, `tools/mod.rs` | pending requests, id counter, one-shot channels, resolution queue; prompts kept by Discord | register, prompt, wait or time out, press, resolve | tool calls, Discord interactions |
| Cron, `run/cron_scheduler.rs`, `tools/builtin/cron/*` | jobs with `last_fired_at` (SQLite), the tick under way | tick, guard, fire, create, delete | inbound queue |
| OAuth tokens, `auth/*` | token file, lock file | read, refresh, update, login, logout | providers, commands in other processes |
| Daemon and logs, `run/daemon.rs`, `run/logging.rs` | pid file, log files | start, stop; write, rotate, prune | operating system |
| Configuration, `config/*`, `secrets.rs`, `run/composition.rs`, `prompt.rs`, `tools/skill.rs` | none after start | load, resolve secrets, expand, validate, assemble | everything |
| CLI, telemetry, paths, `testing.rs` | none shared | printing, argument parsing, fixtures | |

What is hard about it, and where a test hardly reaches:

* **Two tasks and a lock released between two steps.** `dispatch` clones a
  sender under the lock and sends after it; a worker decides to expire and only
  then takes the lock; a wait claims runs and only then registers for their end;
  a button handler looks a request up and resolves it through a queue; a turn
  reads a token, exchanges it without the lock and writes the new one; memorize
  looks for similar facts and changes the tables afterwards.
* **Commands against messages in flight.** `/new` replaces a session while its
  worker is in a turn and messages stamped with the old key wait in the queue.
* **Results applied late.** The result of a Discord send or edit is applied to a
  display that deltas, a rollover or the end of the turn may have moved on; a
  tick works through a list of jobs that turns go on changing.
* **Timeouts racing answers.** Idle expiry against a message, the deadline of a
  wait against the end of a run, the approval timeout against a button press, a
  tool's timeout against what the tool goes on doing.
* **Partial failure.** A handler panic leaves a dead entry, a wait fails after
  claiming half of its list, a prompt or an edit cannot be sent, a fact is
  inserted without its vector, a cron message is sent and not written down.
* **Restart.** Prompts, cron jobs, sessions, memory, tokens and logs outlive the
  process; approval ids, workers and background runs do not.
* **Limits.** The 1024-message queues, the 2000-character messages, the 64
  finished runs that are kept, five candidates per recalled hit, page sizes.
* **The same thing done twice.** The host and the sandbox guest each resolve a
  path and each implement the file tools; two providers each read an answer
  streamed and whole; the preflight parses a command that the shell will parse
  again.

What makes each component correct:

* *coordinator*: one handler per key at a time; per-key order; every accepted
  message in exactly one place; one retry is enough; nobody starves;
* *gateway*: `/new` is effective for every later message, and leaves no task
  behind; the active session keeps the coordinator's guarantees;
* *policy and commands*: the most specific setting governs; only those allowed
  wake an agent; a command's answer is what happened;
* *turns*: what the user was told is what the session remembers; recalled
  excerpts are the session's own and older than its history;
* *memory*: every fact can be found by what it says now; recall is relevant,
  bounded, and never what the turn has anyway;
* *providers*: calls, results and text neither lost nor confused, however the
  bytes are cut;
* *tool calls*: nothing runs beyond what its user may do or approved; every call
  returns;
* *file tools, exec*: host and guest mean the same file and say the same about
  it; every command that the preflight tells apart is judged;
* *background runs*: every end is made known once somebody can know it; eviction
  takes only old finished runs;
* *approvals*: decided once, by the requester, on what the prompt showed; nothing
  waits for ever; no undecided request unreachable;
* *display*: after success the channel shows the reply, whole, once, in order;
  full messages are never touched again; the finalizer returns;
* *cron*: a job fires as often as it is due, and one that fell behind catches up;
* *tokens*: no update lost; the stored refresh token is one the server accepts;
* *daemon and logs*: a running service can be stopped; every line is filed under
  its day and kept as long as promised;
* *configuration*: what loads is usable.

## 2. Modules

| Module | Models | Checked in |
|---|---|---|
| `SessionMailbox` | abstract: one mailbox per key, one handler at a time, in order | with `SessionWorkers` |
| `SessionWorkers` | `run/session.rs` and the service loop of `run.rs` | itself |
| `GatewaySessions` | listener, session store, inbound queue, `/new`, background completions; **composes** `SessionWorkers` | `MCSessions` |
| `AsyncToolRuns` | `tools/async_tool_manager.rs`, the `wait` tool | `MCTurns`, `MCAsyncToolRuns` |
| `ApprovalRegistry` | `approval.rs`, the approval part of `channels/discord.rs`, the gateway's approval listener | `MCApprovalRegistry` |
| `StreamingDisplay` | the display of `run.rs`, fed by `react.rs` | `MCSessions` |
| `CronScheduler` | `run/cron_scheduler.rs`, `tools/builtin/cron/*` | `MCServices` |
| `TokenStore` | `auth/mod.rs`, `auth/openai_oauth.rs` | `MCServices` |
| `DaemonControl` | `run/daemon.rs` | `MCServices` |
| `LogRotation` | `run/logging.rs` | `MCServices` |
| `ToolCalls` | `dispatch.rs`, `tools/mod.rs`, `sandbox/*` | `MCServices` |
| `TurnEngine` | `turn/*`, `react.rs`, `dispatch.rs`, `invoke.rs`, short-term memory | `MCTurns` |
| `LongTermMemory` | the fact half of `memory/mod.rs`, the memory tools | `MCTurns` |
| `InboundPolicy`, `ChannelCommands` | routing hierarchy, message classification; slash commands (`ChannelCommands` extends `InboundPolicy`) | `MCTurns` |
| `ProviderStreams`, `ProviderRequests` | `providers/*`: streams; requests and whole answers (the second extends the first) | `MCTurns` |
| `ToolArguments`, `ExecPreflight` | `tools/builtin/common.rs`; `tools/builtin/exec.rs` before a command runs | `MCTurns` |
| `FileRouting`, `FileTools` | path routing on the host and in the guests; what the file tools show and write | `MCTurns`, themselves |
| `WebSearch` | `web_search` and the transparency footer | `MCTurns` |
| `RecallRanking` | candidates, ranking, excerpts and prompt room of recall | `MCTurns` |
| `ConfigLoad` | `config/*`, `secrets.rs`, composition, prompts, skills | `MCTurns` |
| `Questions` | no code: the frame in which pure operators are asked about bounded inputs | `MCTurns` |

The proofs are in modules of their own, which extend the modules they are about:

| Proofs in | About |
|---|---|
| `SessionWorkersProofs` | `SessionWorkers`, `SessionMailbox` |
| `GatewaySessionsProofs` | `GatewaySessions`, with the pool of `SessionWorkers` inside it |
| `AsyncToolRunsProofs` | `AsyncToolRuns` |
| `ApprovalRegistryProofs` | `ApprovalRegistry` |
| `StreamingDisplayProofs` | `StreamingDisplay` |
| `ServicesProofs` | `DaemonControl`, `ToolCalls`, `CronScheduler`, `LogRotation`, `TokenStore` |
| `MemoryProofs` | `TurnEngine`, `LongTermMemory` |
| `InputProofs` | `ChannelCommands`, `InboundPolicy`, `FileRouting`, `ToolArguments`, `ExecPreflight`, `RecallRanking` |

`MCSessions`, `MCServices` and `MCTurns` compose modules that share no state: their
variable `followed` selects one part per behaviour, so that state counts add up rather
than multiply, and each part's other variables stay as they were.

Operators introduced by a comment beginning with "Slip" are not part of any
specification: each is a deliberately wrong variant of the definition after it
(a dropped guard, a missing reset, a swapped order). With the slip in its place
the property paired with it in `PROJECT.json` fails, which shows that the
property is sensitive to that line of the code.

### SessionWorkers

Steps end where another task can run: when the `workers` mutex is released, at
an await, and between cloning a sender and sending on it.

| Model | Code |
|---|---|
| `workers`, `nextWorkerId` | the map and the atomic counter |
| `phase`, `workerKey`, `queue` | the spawned tasks and their unbounded channels |
| `dispatch`, `calls` | the one call in progress, and its number; a message is the number of its call |
| `handled`, `accepted`, `refused`, `lost` | history: what the handler saw, what `dispatch` returned, what went down with a receiver |
| `ReuseWorker`, `SpawnWorker` | `worker_sender_for_key`, one critical section |
| `SendOk`, `SendErr`, `RetryOrRefuse` | the body of `dispatch`'s two-iteration loop |
| `Receive`, `HandlerDone`, `IdleTimeout`, `LeaveMap`, `DropReceiver`, `HandlerPanics` | the worker task: loop, end of loop, clean-up under the lock, drop |
| `Remove`, `ChannelClosed` | `remove`, called by `/new`, and what it leads to: a worker that sees its channel closed (in the next-state relation of `GatewaySessions` only) |

`IdleTimeout` cannot fire for a worker whose spawning call has not yet sent
(`dispatch.at = "sendFirst"`). This is the one timing assumption: the timer is
five minutes, and between spawning and sending the call has no await other than
the release of the lock. `tokio::time::timeout` polls the channel before the
timer, so it cannot fire over a message that is already there.

`dispatch` has a single caller, `run_service`, so there is one call at a time.
Worker ids are a `u64` in the code and do not wrap in the life of a process;
`MaxWorkers` bounds them here.

### GatewaySessions

A session key is a scope and the number of its session. `held` is the message
the listener has stamped and is waiting to enqueue; `rotated` is a `/new` between
the store's `rotate` and the coordinator's `remove`; `renewed` is history.
Completions of background runs enter the queue with the key of the turn that
started them (`CompletionReinjected`), which is what lets an old key come back
long after `/new`. Discord is the only channel, so there is one listener and one
command task. Cron messages carry a session key that is used once; they only take
room in the queue and are left out.

### AsyncToolRuns

Runs of one session; ids of other sessions are rejected exactly as unknown ones
are. `Start` includes `auto_evict`. `FinishRun`/`MarkCompleted`/`DecideReinject`/
`Reinject` are the watcher's steps; `Claim`, `Register`, `Woken`/`Deadline`,
`CheckOne`, `Unclaim`, `CollectOne`, `Return` are those of `wait_for_session`,
which takes the lock once per id. `finished` orders entries by `finished_at`.

### ApprovalRegistry

The requester's task (`Register` ... `DeletePrompt`), the interaction handler
(`Evaluate`, `QueueResolution`, `AckInteraction`), the gateway's listener
(`Resolve`) and a process restart. Prompts are Discord's and survive `Restart`;
the registry, the id counter, the queue and the tasks do not. `TaskPanics` is the
end of a requester that never removes its entry: tool calls of one step are
joined, so a panic of one drops the futures of the others. The one-shot sender is
dropped only by being used, so the closed-channel branch of `wait_for_decision`
cannot be reached and is left out.

### StreamingDisplay

One turn with up to `MaxResponses` provider responses. A text is its number and
its length; two different texts share no characters (so a text never equals a
segment of another one). `NextAction` is `next_streaming_display_action`, one
critical section; the send or edit it starts is a task whose result is applied by
`SendSucceeds`, `SendFails`, `EditSucceeds` or `EditFails`, and which then looks
for the next action (`TaskRetries`). A call that returns an error may have taken
effect on Discord. `Poll` is one iteration of the finalizer's loop, `Fallback`
its plain send. Discord always returns an id, so the `Ok(None)` branch, which is
for channels without ids, is left out.

### CronScheduler

`tick` is where `run_tick` is: the list of jobs taken once (`StartTick`), then for
each job due, guard, send, record. `CronCrash` keeps only the table; `owed` are
interval ticks that come in a burst after a delay. Turns create and delete jobs
at any point of a tick. A schedule is the set of minutes it names.

### TokenStore

`lock` is the advisory lock on `auth.json.lock`, `file` the token file, `copy`
what a caller has loaded under the lock. A turn loads (`GetProfile`), exchanges
the refresh token with no lock held (`Refresh`), and locks again to write
(`UpdateProfile`). Login, logout and status are processes of their own. The
authorization server is external: it either retires a refresh token with every
exchange or never does. The file can fail to be loaded or saved under the lock
(`LoadOrSaveFails`), a caller can time out on the lock, and a process can die at any
step; what each of them loses is kept in `lost`.

### DaemonControl, LogRotation

`start` and `stop` are sequences of steps on `pidFile` and the table of running
processes, with no lock between them: reading the file, looking for the process,
removing the file, spawning, opening the file and writing it. A command may fail or
be killed before any of them (`CutOff`), and the service may exit under it. A file
that was opened and not written is `Empty`, which no command can read. In
`LogRotation` each process has its own open file and its own `current_day`;
renaming a file does not change what a process writes to. Writing the first line
of a day includes rotation and pruning; a process may die between the two.

### ToolCalls

A call goes from `ExecuteToolCall` (registry, authorisation, plan) to an approval
when its target lies outside the sandbox, preparation of the sandbox, the run
itself and its end or timeout. `run` is what the call set going, which may
outlive the call: a timed-out command's children, a background run. Every
combination of agent settings and of request is an initial value or an input.

### TurnEngine

`stored` is the message table, with ids shared by all sessions of the agent. A
turn stores the user's message, loads the history, recalls, and asks the
provider up to `MaxSteps` times; tool calls of one response finish in any order,
delegated runs are loops with a counter of their own. Recall reads the table as
it is by then, not as it was when the history was loaded; it gives each match the
whole merged span it lies in, or panics with its task (`RecallPanics`). A reply that cannot be
stored makes the turn fail (`finalize_turn`), although its text may have been
streamed to the channel already; one whose vector cannot be stored makes it fail
with the reply in the table, as may a crash.

### LongTermMemory

`facts` and `vectors` are two tables written by separate statements. Each call of
`memorize` or `forget` looks first and writes afterwards, and several overlap. A
content is a topic and a wording; the nearest-row search returns rows of all
kinds before the other conditions filter them, as the query does.

### ChannelCommands and InboundPolicy

The handler on Discord's side waits ten seconds; the gateway's single command
task carries on regardless. `Resolve` folds the levels of the routing
configuration from the most general to the most specific one; the reference
definition picks each field from the most specific level that sets it.

### ProviderStreams and ProviderRequests

A body is a sequence of tokens, cut into chunks anywhere, inside a multi-byte
character or a document included. `push_bytes`, the event parser and the
collector of `react.rs` are separate steps. What comes out is compared with what
the documents mean when read as a whole; `cause` says why an exchange did not come
to its end (the request or a read failed, a character was cut, the body was over too
early). Requests: identifiers, tool results and schemas of each provider. `NormalizeSchemaNode` is recursive, as in the code.

### The pure parts

`ToolArguments`, `ExecPreflight`, `FileRouting`, `FileTools`, `WebSearch`,
`RecallRanking`, `ConfigLoad` and `InboundPolicy` translate functions without
shared state. Each puts its questions from a bounded set of inputs, and its
invariant compares the answer with a definition that is not the code's: a
command built from words and printed with quotes must come back as those words;
a page followed by the offset it names must add up to the file; a path routed to
the guest must open the file a direct run opens. The copies of `read` and `list` in
the guests differ from the host's and are modelled twice. In `RecallRanking` a text
has characters of one byte and of two, because the agent's name is compared with as
many bytes. In `ConfigLoad` the environment and the secrets file give each name of a
secret a text, a blank one or nothing, a value may itself hold references, and
expanding it again would change it.

## 3. Runs

| Run | Expected | Shows |
|---|---|---|
| `session_workers` | passes | the coordinator on 2 keys, 4 messages, 2 panics: serialisation, order, accounting, one retry is enough, no starvation, refinement of `SessionMailbox` |
| `session_expiry` | violated | an accepted message is lost when a worker idles out (finding 1) |
| `gateway_display` | passes | with `/new`: the active session stays serialised and ordered, `/new` is effective, cut-off workers drain and end. The display of a reply: success means it is shown whole, once, in order; the finalizer returns unless the text is shorter than the committed prefix |
| `gateway_overlap` | violated | a *replaced* session can be handled twice at once (finding 2) |
| `async_silent` | violated | a wait that fails on an unknown id silences the runs before it (finding 3) |
| `approvals` | passes | one decision, by the requester, no unreachable request, everything settles |
| `approval_restart` | violated | an old prompt decides a new request after a restart (finding 4) |
| `streaming_spin` | violated | the finalizer polls for ever on a text shorter than the committed prefix (finding 5) |
| `services` | passes | cron, tokens, daemon, log and tool calls, with crashes, failed writes, late ticks, lock timeouts and deaths in between |
| `turns` | passes | turns and their memory; claims, kills, evictions and two overlapping waits of background runs, where no end is swallowed except by a failed wait or an eviction; slash commands, provider streams, and the pure parts against reference definitions |
| `file_guest` | violated | the guest denies what the host has put in the sandbox (finding 6) |
| `list_direct` | violated | outside the sandbox `list` shows nothing below its root (finding 7) |

### Properties

* SessionWorkers: `TypeOK`, `Serialized`, `InOrder`, `Accounted`, `NeverRefused`,
  `EveryMessageIsServed` (accepted, and served unless a handler never returns),
  `ImplementsMailbox`;
* GatewaySessions: `SerializedWhileActive`, `InOrderWhileActive`,
  `FreshAfterNew`, `NewLeavesNothingBehind` (cut-off workers drain and end);
* AsyncToolRuns: `ClaimIsCovered`, `FinishedOnce`, `EveryEndIsSettled`,
  `EvictsOldestFinished`;
* ApprovalRegistry: `RegistryAgrees` (what is undecided can be answered, what is
  decided is gone, nothing is forgotten), `DecidedByRequester`,
  `EverythingSettles`;
* StreamingDisplay: `ReplyIsShown`, `DisplayIsConsistent` (nothing twice, and the
  display's picture of the channel is true), `CommittedIsFinal`,
  `FinalizerReturnsUnlessShorter`;
* CronScheduler: `FiresAsOftenAsDue`, `OverdueCatchesUp`;
* TokenStore: `HolderSeesFile`, `StoredIsRefreshable`;
* DaemonControl, LogRotation: `ServiceIsManaged`, `EveryLineIsFiled`;
* ToolCalls: `RunsAreEntitled`, `EveryCallReturns`;
* TurnEngine: `ConversationIsRemembered`, `ExcerptsStayApart`;
* LongTermMemory, RecallRanking: `FactsAreIndexed`, `RecallIsRelevant`;
* FileRouting: `SameFileEitherWay`, and `SandboxedIsTaken` (violated); FileTools and
  WebSearch: `ToolsReportExactly`, and `DirectListsTree` (violated); ExecPreflight:
  `CommandIsJudgedByParts`;
* ChannelCommands and InboundPolicy: `InboundIsGoverned`;
* ConfigLoad: `ServiceIsConfigured`; ProviderRequests and ProviderStreams:
  `ExchangeIsFaithful`.

Each is stated in words, with the behaviour it is about, above its definition.
Most modules also define a type invariant, which the runs leave out where a
misplaced value would already break one of the properties. `RegisteredIsAlive`
is proved and therefore not run.

Some properties have an exception written into them, where the code does not
give more:

* `StoredIsRefreshable` does not hold for a grant whose newest token was lost with a
  process, a lock timeout or a save that failed;
* `ServiceIsManaged` excepts a service whose start was cut off between spawning it
  and having written the pid, and one whose pid was written while another command
  was under way, which goes by what it read before;
* `EveryLineIsFiled` supposes that logging processes do not overlap;
* `FactsAreIndexed` exempts a row whose insertion was cut short between its two
  commits: the row stays without a vector, which the property does not catch;
* `ExcerptsStayApart` allows an excerpt to be repeated as a whole, once for each
  match in its span;
* `RecallIsRelevant` speaks of different texts within each store, and leaves out
  queries on which comparing the name panics;
* `SameFileEitherWay` lets the guest refuse below the extra roots and, for `list`,
  below the persona, and says that it refuses nothing else;
* `CommandIsJudgedByParts` is about the separators that the preflight knows; of what
  follows a lone `&` or a newline it says only what is still judged;
* `InboundIsGoverned` says of a `/stop` that its number is that of the runs it found
  and stopped, which need not be all that run;
* `ExchangeIsFaithful` states when an error event, a cut character or an unacceptable
  identifier is lost, instead of leaving it out.

The exceptions that depend on history are kept in variables (`lost`, `shared`,
`halfDone`, the `contended` and `cut off` commands); section 5 says what becomes of
each.

### Bounds

| Bound | Value | Why it is enough |
|---|---|---|
| `MaxMessages`, `MaxWorkers` (SessionWorkers) | 4, 4 | a call spawns at most one worker, since a second attempt follows only a reuse, so 4 workers never run out. Three messages to one key give an old, a dying and a new worker; the fourth goes to the other key |
| `MaxPanics` | 2, 0 | two dead entries for one key in a row; with `/new` panics are switched off to keep the run small |
| `MaxSessions`, `Scopes` | 3, 1 | two `/new` in a row; scopes do not interact except through the queue and the loop |
| `QueueCapacity` | 1 (1024 in the code) | the smallest queue blocks soonest; a larger one only delays the blocking |
| Runs, waits, `MaxCompleted` | 3, 2, 1 (64) | two finished runs and a start force an eviction; two waits overlap on a run |
| `WaitLists` | a good list and one ending in an unknown id | the failing claim needs one known and one unknown id |
| Requests, users, `MaxClicks`, `MaxRestarts` | 2, 2, 2, 1 | both buttons, a double press, a stranger's press; one request before and one after a restart |
| `Limit`, `MaxLength`, `MaxResponses` | 2 (2000), 5, 2 | three messages for one text (two rollovers), a second response after a rolled-over first |
| `MaxJobs`, `MaxMinute`, `MaxOwed`, `MaxCronFaults` | 2, 3, 2, 1 | two jobs in one tick, one of them deleted under it; two scheduled minutes, so one can be missed; a burst of two ticks; a crash between sending and recording |
| Turns, profiles, grants, `MaxGeneration`, `MaxTokenFaults` | 2, 2, 2, 2, 1 | two refreshes of one token at once, a login over one of them, a second profile to switch to |
| Commands, `MaxPid` | 3, 3 | two commands overlapping and one after them |
| Writers, `RetainDaily`, `MaxDay`, `MaxLines`, `MaxFiles` | 2, 1 (2), 3, 3, 4 | two rotations and a pruning, a restart on another day |
| `CallSlots`, users, tools | 1, 3, 5 | calls share no state in this part: one call, with every setting and request, one tool of each way of running, owner, stranger and `system` |
| Sessions, `HistoryMessages`, `ContextRadius`, `MaxSteps`, `MaxCalls`, `MaxStored` | 2, 1, 1, 2, 1, 4 | two sessions interleave in the table; four messages are more than window and excerpt, so something is recalled and something is cut |
| Memory callers, topics, wordings, kinds, `MaxFacts` | 2, 2, 2, 2, 2 | an update, a deletion and an insertion of the same row overlap |
| Interactions, runs, `MaxSequence` | 2, 1, 3 | a timed-out command and one behind it; two `/new` |
| `IdLimit`, `ShownLimit`, `MaxFileLines`, `SearchLimit`, `CandidatesPerHit` | 3 (64), 2, 4, 2 (5), 2 (5) | inputs shorter than, as long as and longer than each limit |

`turns` and `async_silent` check no liveness and use symmetry: waiters, and in
`turns` sessions, memory callers and interactions, are interchangeable. Since a
behaviour of `turns` follows one part, one permutation that exchanges all of them at
once is enough. The coordinator, the gateway, the display, the approvals and the
background runs have a `Quiescent` stuttering disjunct for the states in which the
bounds are used up and nothing is left to do, so deadlock checking stays on and means
something; in `turns` the other parts may rest (`MayRest`), since a question that was
answered and a turn beyond the bounds have no next step. In `services` and in the
violated runs that ask questions deadlock is not checked, for the same reason.

### Fairness

* A task whose next step is enabled is eventually polled, mutexes are held for
  bounded critical sections and timers fire: weak fairness of every task's steps.
  Tokio's scheduler provides it as long as no task blocks its thread.
* The turn handler is *not* assumed to return: no timeout bounds a turn or a
  provider call. Liveness of the coordinator holds without it or is stated up to
  `StuckInHandler(w)`.
* `CutOffWorkersEnd` does not use the idle timer.
* Calls to Discord end, with success or an error: an assumption on the HTTP
  client, needed for `FinalizerReturns...` and `EverythingSettles`.
* The cron scheduler's task runs on and the clock advances: a guard command has a
  timeout, and the service loop keeps emptying the inbound queue
  (`OverdueCatchesUp`).
* A tool call's timers fire, an approval ends at the latest with its timeout, and
  a tool without a timeout only works on local state; delegating tools are not
  assumed to end, since a provider request has no timeout (`EveryCallReturns`).
* Users need not press buttons, providers may stall, nothing need panic or
  restart.

## 4. Proofs

A run shows a property on the instance of its cfg; a theorem shows it for every
value of the constants. Each of these theorems is of the form `Spec => []P` (or
`Spec => P` for an action property and for the refinement) and rests on an
inductive invariant, since no `P` here but the type invariants is inductive alone.
Those without one are about a pure operator, for every input of its type.

| Theorem | States | Inductive invariant |
|---|---|---|
| **`SessionWorkersProofs`** | | |
| `TypeCorrect`, `Serialization` | `TypeOK`, `Serialized` | `IInv` |
| `ChannelStaysOpen` | without `/new` a worker in its loop has a sender, so `ChannelClosed` has no place in `SessionWorkers` | `IInv` |
| `RegistryAlive`, `DispatchSucceeds` | `RegisteredIsAlive`, `NeverRefused` | `RInv` |
| `Ordering` | `InOrder` | `OInv` |
| `MessagesStayAccounted` | `Accounted` | `AInv` |
| `CoordinatorIsMailbox` | `ImplementsMailbox` | `OInv` |
| **`GatewaySessionsProofs`** | | |
| `ActiveStaysSerialized` | `SerializedWhileActive` | `SerialInv` |
| `ActiveStaysInOrder` | `InOrderWhileActive` | `SerialInv`, `Order` |
| `StampsAreFresh` | `FreshAfterNew` | `StoreInv` |
| **`AsyncToolRunsProofs`** | | |
| `ClaimsStayCovered`, `RunsFinishOnce`, `EndsAreSettled` | `ClaimIsCovered`, `FinishedOnce`, `EveryEndIsSettled` | `RunsInv` |
| `OldestAreEvicted` | `EvictsOldestFinished` | `RunsInv` |
| **`ApprovalRegistryProofs`** | | |
| `RegistryStaysInStep`, `OnlyTheRequesterDecides` | `RegistryAgrees`, `DecidedByRequester` | `ApprovalInv` |
| `ApprovedAsShownUntilRestart` | `ApprovedAsShown` as long as `restarts = 0` | `ApprovalInv` |
| **`StreamingDisplayProofs`** | | |
| `ReplyStaysShown`, `DisplayStaysConsistent` | `ReplyIsShown`, `DisplayIsConsistent` | `DisplayInv` |
| `CommittedStaysFinal` | `CommittedIsFinal` | `DisplayInv` |
| **`ServicesProofs`** | | |
| `ServiceStaysManaged` | `ServiceIsManaged` | `DaemonInv` |
| `RunsStayEntitled` | `RunsAreEntitled` | `CallsInv` |
| `JobsFireAsOftenAsDue` | `FiresAsOftenAsDue` | `CronInv` |
| `LinesStayFiled` | `EveryLineIsFiled` | `LogInv` |
| `TokenTypes`, `NoLostUpdate` | `TokenTypeOK`, `HolderSeesFile` | `LockInv` |
| `RefreshTokensStayUsable` | `StoredIsRefreshable` | `LockInv`, `TokenInv` |
| **`MemoryProofs`** | | |
| `ConversationStaysRemembered`, `PromptsStayApart` | `ConversationIsRemembered`, `ExcerptsStayApart` | `TurnInv` |
| `FactsStayIndexed` | `FactsAreIndexed` | `MemoryInv` |
| **`InputProofs`** | | |
| `InboundGoverned` | `InboundIsGoverned` | `InboundInv` |
| `RoutesFollowPolicy` | every routing table and message: routed by the most specific setting | |
| `DiscordMessagesWakeRightly` | every Discord message: it wakes the agent exactly when a person who may wrote something and mentions the bot where that is asked for | |
| `FilesAreTheSame` | `SameFileEitherWay` | `FileAsked` |
| `SameFile` | every path of any length: one file on the host and in the guest, which refuses exactly what it has no mount for | |
| `CommandsAreJudgedByParts` | `CommandIsJudgedByParts` | `CommandAsked` |
| `QuotedWordsAreKept` | every two words of any length, however quoted, are read back | |
| `LinesAreJudgedByEach` | every line of any length is judged by each command that `&&`, `\|\|`, `;` or `\|` sets apart, and after a lone `&` or a newline by network tools and redirections | |
| `RemindedRight` | `RecallIsRelevant` | `RecallAsked` |
| `RecallKeepsItsPromise` | whatever is stored: the hits, their order and their excerpts | |
| `MemoryToolKeepsToStore` | whatever is stored and configured: the tool's store and number, and a zero refused | |
| `PromptTakesWhatFits` | whatever the hits and the room: as many as fit, and no more | |
| `QueryIsWithoutAddress` | every text: what is left has no address and stays as it is, or a comparison cuts a character and panics | |

### Assumptions

Each module with constants names what it assumes of them, TLC evaluates the
assumption in the run of that module, and the proofs use nothing else. Bounds are
natural numbers, positive where zero would leave nothing to model. Beyond that
there are keys and scopes (`ConstantsAssumption`, `GatewayConstantsAssumption`),
every request has a requester (`ApprovalConstantsAssumption`), wait lists are
sequences and delegated runs are runs (`RunsAssumption`), schedules are sets of
minutes before the last one (`CronAssumption`), recall fetches at least one candidate
per hit (`CandidatesPerHitAssumption`), and no turn has the name the model
gives to the command line or to a free lock (`TokenAssumption`). No set of keys,
sessions, requests, users, runs or callers is assumed finite, apart from the
commands of one behaviour, since what they did is counted (`CommandsAssumption`).

### SessionWorkers

1. `IInv` = `TypeOK`, `CallConsistent`, `BornInOrder`, `LoopingIsRegistered`.
   `Serialized` is not inductive: nothing in it stops a second worker from being
   spawned beside one that is still in its loop. The missing fact is
   `LoopingIsRegistered`: a worker that can still take a message is the one the
   map has for its key, so there is at most one. It survives `RetryOrRefuse` and
   `LeaveMap` only because an entry is removed when it matches: the retry removes
   the entry of a worker whose receiver is gone (`CallConsistent`), and an
   expiring worker its own. `SpawnWorker` needs that ids at or above the counter
   are unborn (`BornInOrder`).
2. `RInv` adds `RegisteredIsAlive`, `RetryHasWorker` and `NeverRefused`. A call's
   key keeps the worker that was looked up or loses its entry; nobody else can
   register one. So the second attempt finds no entry, spawns, and the fresh
   worker waits for its first message: the branch that drops a message is dead
   code while there is one service loop and no `/new`.
3. `OInv` adds `QueuesInOrder` and `InOrder`: queues are increasing and, for a
   worker in its loop, lie after everything its session has handled; by
   `LoopingIsRegistered` a message can only go behind the queue that will be
   served, and a worker out of its loop serves nothing any more.
4. `AInv` puts both together and adds `Accounted` and `AcceptedArePast`: the
   message in hand is newer than everything accepted, so sending it cannot make
   a second copy, and `Receive`, `DropReceiver` and `HandlerPanics` move a message
   from one of the three places to another.
5. The refinement maps a key to the queue of its worker in the loop, empty if there
   is none, and the served keys to those with a worker in the handler. `OInv` makes
   the mapping a function: at most one worker per key is in its loop. Then
   `SendOk` to a worker in its loop is a delivery, `Receive` the start of a
   handler, `HandlerDone` and `HandlerPanics` its end (the latter with the box
   lost), `IdleTimeout` a stutter, since the queue is empty, and everything about
   the map, the retry and a worker after its loop is a stutter as well.

### GatewaySessions

`/new` removes the entry of a worker that may be in a turn, so
`LoopingIsRegistered` is false here, which is finding 2. What is left of it is
`LoopingIsCurrent`: a worker in its loop is the registered one *or its session has
been replaced*. That `Remove` keeps it needs `RotatedIsRetired`: the command
removes the entry only after the store has moved on, and sessions are never made
active again. For `Order`, messages of a replaced session may be handled out of
order, but never twice: `LogApart` and `QueuesApart` say that no message is in two
queues, or in a queue and a log, and `LogFirst` keeps the order for the active
session. The pool's lemmas are stated again over its actions here, because
`Remove` and `ChannelClosed` are steps of this composition only, so that
`[Next]_vars` of `SessionWorkers` does not hold of the composed step.

### AsyncToolRuns

`ClaimIsCovered` depends on who still holds a claim. `ClaimsAreHeld` says that a
claimed run that has not ended is on the list of a wait between claiming and
checking, or was abandoned by a failed claim; `SoundCall` says that a wait's lists
hold only runs that were started and that, as it checks one run after the other,
the ones passed that were still running are in `still`, which is what `Unclaim`
gives back. `WatcherFollows` ties the watcher to the entry: only a claim or an
eviction lets it end without an announcement.

### ApprovalRegistry

`IdsAgree`: a pending id was given out by this process and is the id of the
request filed under it, and live requests have different ids. Decisions are traced
back to a press (`DecisionsArePressed`), but only to a press *under the same id*;
that the id means the same request (`IdsAreUnique`) holds as long as the process
has not restarted. So `DecidedByRequester`, which follows the user, is a theorem,
and `ApprovedAsShown`, which follows the prompt, is one up to the first restart and
refuted after it (finding 4).

### StreamingDisplay

`Placed`: completed messages are consecutive pieces of text, up to `committed`.
`Current`: the open message, the send or the edit in flight begins right after it,
and there is at most one of them. `Fresh`: nothing is shown of a text that has not
been streamed yet. These hold while no call has failed, and a failed call is the
last one (`FailureIsTheLast`), which is what lets them survive late results.
`Stages` relates the task that finalizes to the display it polls.

### Services

* *Daemon.* `DaemonInv`: every running service has the start that spawned it
  (`ServicesHaveStarts`), and while one runs whose pid was written with no other
  command under way, the file names it and every command under way has read that pid
  and goes by it (`FileIsHeeded`); no pid is known before it was given out.
  Such a command finds its service running, or leaves the file until it has seen it
  end, so what fails or is killed under way cannot put the file wrong.
* *Tool calls.* `CallIsJudged` keeps the verdict beside the call: a call has
  something going only after a verdict that allows it, and outside the sandbox only
  if it needs none or was approved. What outlives its time limit is covered, since
  `run` is not forgotten when the call is.
* *Cron.* `RecordIsKept`: as long as a job is enabled or listed in the tick, its
  recorded firings are at or before `last_fired_at`, and if the tick has chosen it,
  a scheduled minute lies between. Disabling and crashes only weaken what the next
  firing has to respect.
* *Log.* `Tidy`: every line of the active file is of the day of its last
  modification, and every line written is in the file of its day, in the active
  file, or was pruned after enough later days. Pruning removes a day only when
  `RetainDaily` later ones exist, by counting the days after the latest one removed
  (`LatestExists`, from the well-foundedness of the naturals, `WFMin`).

### TokenStore

`LockInv`: the lock is held by exactly the caller that is inside a critical section
and what a holder has read is what the file says. `TokenInv`: every token was
issued (`AllIssued`), a grant belongs to one profile (`OneProfile`), a login's grant
is nobody else's (`LoginIsFresh`), and a turn between exchange and update has the
newest token of its grant (`PendingIsNewest`), which, where the server rotates, is
not in the file nor with another turn (`PendingIsUnique`). So the file's token is
the newest, or that of a pending turn is.

### Turns and memory

`TurnsAreOpened`: a turn under way has stored its user message, no reply, and
nothing of its session after that message; `TurnsAreDistinct`: two sessions' turns
are two turns. Hence the reply that is appended directly answers the message, in the
order of the session. `HistoryIsRecent` holds between loading and recalling, so what
recall excludes is what the prompt will show; and two different spans that were
merged from the matches do not meet (`Apart`), so a message is in two excerpts only if
they are one span, repeated. For facts, `FoundIsIndexed` says that
a row that a search can find is not between its two insertion statements, so an
update or a deletion never meets a half-written row, and `RowAwaitsVector` that the
vector to come is that of the row's content.

### Input

*Commands.* `CommandsInv`: a command is in the queue at most once and not there and
in hand at the same time (`HandledOnce`), what is still to be done has had no answer
but that its time ran out (`InHandUnanswered`), and the step the task is in agrees
with what it has done (`ExecutingRight`). The session number then counts the renewals
(`CommandsAreAccountedFor`), by the cardinality of the set of commands that
renewed, and a `/stop` that is done has counted the runs it ended
(`StopsAreCounted`). `RouteAsked` and `DiscordAsked` say what the questions are about, and the
general theorems answer them.

*Data of any length.* The induction theorems of the library cannot be instantiated
here, but induction can be done by hand on sets: among the members of a set of
naturals for which a statement fails there is a least one (`LeastMember`, from
`WFMin`), and its predecessor refutes it. `UpTo` and `EverySequence` state this
with a set `P` in place of the operator, and `FoldExists` builds the function that
`FoldLeft` chooses, so that a fold becomes a chain of states whose steps are those
of the code's loop (`IsFold`, `IsRun` and their kin). On these rest:

* `SameFile`: normalising a path is a run over its components that never leaves the
  root, so the guest's view of a mount (`.` and `..` resolved after the mount point
  is put in front) is the host's path below the same root;
* `QuotedWordsAreKept`: over an escaped, double- or single-quoted word the scanner
  goes back to the mode it started in with exactly that word appended
  (`EscapedIsRead`, `DoubleIsRead`, `SingleIsRead`), and two such runs compose
  (`ScanOn`, `ScanTwo`);
* `LinesAreJudgedByEach`: the segments of a joined line are the segments of its two
  sides (`SplitTwo`), splitting ignores what a word says (`SplitMoved`), and a
  segment that asks still asks when its targets are moved outside (`MovedIsAsked`).

* `RecallKeepsItsPromise`: the rank of a place is the number of places before it. Ranks
  differ, and there are as many as places, so each number is the rank of exactly one
  (`RanksFill`, `RanksAre`): `Sorted` has every place once, in order (`SortedIs`).
  Selecting is a run over the hits in that order with four invariants at once
  (`SelectedIs`), and so is merging the spans: the last one begins no later than the
  next match, which is why a longer last span covers what it did before
  (`MergedCovers`);
* `PromptTakesWhatFits`: filling a section is a run as well, whose section is full
  exactly from the first hit that did not fit (`FilledTo`);
* `QueryIsWithoutAddress`: an address that is taken off makes the text shorter, so as
  many steps as the text is long leave none (`StrippedTo`), and trimming in between
  only ever leaves an ending of the text (`Ending`).

`FileAsked`, `CommandAsked` and `RecallAsked` are weaker than what the modules ask: they
admit paths, words, lines, outputs, rows and hits of any number, so that the bounds of
the questions play no part in the proofs.

### Model-checked only

* Liveness under fairness: `EveryMessageIsServed`, `NewLeavesNothingBehind`,
  `EverythingSettles`, `FinalizerReturnsUnlessShorter`, `OverdueCatchesUp`,
  `EveryCallReturns`. TLAPS proves neither fairness arguments nor `ENABLED`.
* `ServiceIsConfigured`, `ExchangeIsFaithful` and `ToolsReportExactly`: comparisons of
  an algorithm with a reference definition on bounded inputs. `ConfigLoad`,
  `ProviderRequests` and `WebSearch` have `RECURSIVE` operators (references,
  schemas, sums), and so has `MCTurns`, which states the last one;
  tlapm loses its SMT back end in a module that reaches one.
* The properties of the runs that are expected to be violated.

`RegisteredIsAlive`, `ChannelStaysOpen`, the type invariant of `TokenStore` and
`ApprovedAsShown` before a restart are proved and not run.

## 5. Findings

1. *An accepted message can be lost* (`run/session.rs:130`). A worker leaves its
   loop on the idle timeout with its entry still in the map and its receiver
   alive. A `dispatch` in that window succeeds and is acknowledged, and the
   message is dropped with the receiver. The README says workers "expire after
   idle timeout (5 minutes), then respawn on next message".
2. *A replaced session can be handled twice at once* (`gateway/mod.rs:301`).
   `/new` removes the entry while the worker may be in a turn; a queued message
   or a background completion with the old key starts a second worker. The README
   says processing is serialised per `session_key`.
3. *A failing wait silences other runs* (`tools/async_tool_manager.rs:600`).
   `claim_runs` keeps the claims made before an unknown id.
4. *Approval ids repeat after a restart* (`approval.rs:110`), and a prompt from
   before it names the request that has the id now.
5. *The finalizer can poll for ever* (`run.rs:384`) when the final text is
   shorter than the prefix committed by rollovers, and with it the session's
   worker.
6. *The guest denies what the host calls sandboxed* (`tools/builtin/file_access.rs:96`,
   `sandbox/common/src/lib.rs:71`). The host treats a path below an extra root, and
   for `list` one below the persona, as inside the sandbox; the guest has no mount
   for it and refuses. The host then reports "sandbox invariant violated": "preflight
   classified target as in-sandbox but wasm denied" it (`tools/mod.rs:1076`).
7. *A direct `list` shows only its root* (`tools/builtin/list.rs:230`): entries at the
   top are filed under the empty path and looked up under `.`. The tool says of itself
   that it "Recursively walks from the given path" (`tools/builtin/list.rs:64`); the guest
   normalises the key and does.

### Other observations

Met while modelling. The models have all of these behaviours, and the exceptions of
section 3 come from them; most contradict no document, and no run of its own refutes
one that they do contradict.

*Commands, daemon, configuration*

* `/stop` is described as "Stop running background tasks" (`channels/discord.rs:118`),
  but it passes over delegated runs, and answers that no running background tasks
  were found when there are no others (`gateway/mod.rs:571`). A slash command that timed out
  still takes effect.
* A `start` that fails or is killed after spawning leaves a service that no command
  knows of; one that is cut off while writing leaves an empty pid file, on which every
  later `start` and `stop` ends with an error (`run/daemon.rs:44`). Of two overlapping
  commands, one can remove or replace the pid that the other has just written. Two
  processes logging to one path file lines under the wrong day.
* A route error logs "retrying" and drops the message (`gateway/mod.rs:122`).
* A blank secret in the environment is an error even if the secrets file has a
  good one; the routing may name an agent that does not exist.
* Turns started by cron and by completions run as user `system`, which is nobody's
  owner: tools for owners are refused there.

*Turns and memory*

* Each of two matches in one merged span repeats the whole span in the prompt
  (`memory/mod.rs:563`, `turn/prepare.rs:268`). Two spans that are different need more
  messages than `MaxStored`; that they do not meet is a theorem.
* The agent's name is compared with as many bytes of the query as it is long
  (`turn/prepare.rs:372`). Where that cuts a character the comparison panics, and with it
  the turn handler (`RecallPanics`, and `HandlerPanics` of the coordinator).
* A fact and a message of the same text are two hits.
* Two `memorize` calls of the same fact at once store it twice; a crash between
  the two statements of an insertion leaves a fact without a vector (`halfDone`). A
  message is inserted in two statements as well (`memory/mod.rs:307`): a turn can fail
  with its reply stored.

*Providers and tokens*

* A `failed` or `error` event of Codex without a message becomes an answer without an
  error (`providers/openai_codex.rs:390`). A chunk that ends inside a character fails the turn
  (`providers/openai_codex.rs:434`, `providers/gemini.rs:277`).
* Codex identifiers that are absent or not acceptable may be replaced by equal ones;
  Gemini and Moonshot are sent the tools' schemas as they are.
* Gemini joins the parts of an answer with a line break only when it comes in one
  piece.
* A crash, a lock timeout or a failed save after a refresh loses the new refresh
  token; a logout during a refresh is undone by it.

*Tools*

* The preflight does not separate commands at a lone `&` or a newline
  (`tools/builtin/exec.rs:536`, `606`), at which `bash -lc`
  (`tools/builtin/common.rs:366`) starts another one: what
  follows is judged as arguments, so only by what is asked of any word.
* A wait can sleep to its deadline although its runs have ended:
  `notify_waiters` (`tools/async_tool_manager.rs:420`) reaches only registered
  waiters, and a run may end between claim and registration.
* `DefaultHostSandbox` never reports a permission denial, so the branch that asks
  the user after one (`tools/mod.rs:975`) is not reached; the XML dispatcher is
  never constructed.
* `edit` reads and writes without a lock (`tools/builtin/edit.rs:164`): of two
  edits of one file at once, one may be lost.

## 6. Not modelled

* Errors of the session store (SQLite), and the service loop after the inbound
  channel is closed: the gateway keeps a sender while the process runs.
* Discord's connection, gateway events other than messages, buttons and slash
  commands, and reactions.
* Libraries and services that the code calls: the embedding model and sqlite-vec
  (nearest rows over an abstract likeness), wasmtime and the operating system's
  sandbox, the authorization server, HTTP, YAML and JSON parsing.
* The pattern languages of `glob` and `grep` (a match is given), the conversion of
  HTML to Markdown, wording and layout of outputs.
* CLI printing, telemetry, subscriber set-up, paths and `testing.rs`: no state
  that another part reads.

## 7. Plan

Done: all modules of section 2, and a theorem for every invariant and action
property that the runs check apart from those listed at the end of section 4.
What is left:

1. `ConfigLoad` and `WebSearch` with recursive functions in place of their
   `RECURSIVE` operators, so that they can be proved about;
2. type invariants that are so far only part of an inductive invariant, as
   theorems of their own.
