# Hermon, modelled in TLA+

Hermon is a terminal and menu-bar roster of coding agents; *Hermon Flow*
(`src/crates/hermon-flow`) drives those agents through a workflow: bots write
and review code in attempts, an owner approves at gates, and a host keeps each
run on disk. The logic that must not go wrong first is Flow's: it starts
programs that change a repository, retries them, waits for people, and survives
crashes. The rest of the program, called the desk below, watches: it reads
transcripts while agents write them, keeps panes, raises alerts and mirrors the
rosters of other machines. Both sides are modelled, checked and proved
about.

## Inventory

| Component | State it keeps | Operations | What makes it correct |
|---|---|---|---|
| Run and routing core, `hub.rs` | `Run`: current step, status, block, active attempt, counters, evidence, question, gate generations, event log | `advance` (one observation, then automatic routes), `retry`, `override_step` | one worker at a time; late results refused; gates pass on fresh consent only; loops bounded; numbers never reused |
| Owner controls, `control.rs` | none of its own; rewrites the saved run under `run.lock` | pause, resume, cancel, retry, override, approve, answer, reopen | a control is never overwritten; cancellation is terminal; the tracker is told before a decision takes effect |
| Run store and journal, `store.rs`, `control.rs` | `run.json`, `events.jsonl` | `read`, `save`, `append_event`, `write_run` | a save happens at once or not at all, whatever a crash leaves |
| Host, `host.rs` | the run in memory during a tick, `run.lock`, `hub.lock`, notices | `tick`: read, advance, save, announce, flush | an interrupted tick repeats without a second worker; an attempt is given what was accepted |
| Agent supervisor, `agent.rs` | attempt directories: `launch.json`, `process.json`, `result.json` | start, poll, stop, reconcile; detached supervisor with a deadline | a reserved launch is never launched twice |
| Hermes ACP client, `agent/hermes_acp.rs` | one JSON-RPC session in a worker, a log of what it heard | prompt, wait, cancel, close; reconcile from the log | an attempt is settled only when the gateway ended its prompt; a stop wins over a late success |
| Workflow definitions, `workflow.rs` | none | load, validate, `validate_cycles` | every automatic cycle is bounded |
| Checks and evidence, `checks.rs` | git tags and notes, a receipt in memory | run a check, freeze tests, create and verify evidence | evidence says what was checked, of the tree that was checked |
| Tracker, `tracker.rs` | `requests` with client ids, cursors and replies | post a comment, gate, question, alert | a comment is posted once; a reply is found, once |
| Code host, `code_host.rs` | receipt of the pull request | `open_pr`, `merged` | one pull request per run; a gate passes on its merge only |
| Intake, `intake.rs` | creates the run directory and worktree | `create`, `announce` | a run is complete on disk or absent |
| Transcript sources, `hermon-core/source/` | offsets, counters, cursors, caches | `update`, scans | reading while it is written equals reading at once |
| Rendering, bots and roster rows | pending fragments of a pane; routes | render a record, build a row | a row opens the session it shows |
| Engine and roster, `engine.rs`, `roster.rs` | sessions, panes, their order | scan, open, evict, linger | a pane is kept while it may be, and comes back |
| Notification policy, `notify.rs` | `AlertHistory` | `decide_alerts` | attention is told, without a storm |
| Notifier arbitration, `arbitration.rs` | a pidfile per kind of program | decide, claim, release | a program stays silent for a reason |
| Remote rosters, `remote/` | transport, generation, snapshot, backoff, containers | frames, supervise, discover | no stale frame is folded; a name is not handed over |
| User interfaces, `ui/`, `flow_ui.rs` | list, grid, buffers, alerts of hosted runs | keys, engine events, polls | the screen and the engine agree |
| Doctor, templates, command line, drawing | none that outlives a call | | not a matter of state |

How the parts interact. A host ticks over the run directories. For each run it
takes `run.lock`, reads `run.json` and the journal, and calls `hub::advance`,
which polls the agent, asks the tracker, the code host and git through
adapters, and changes the run in memory until it has to wait. The run is saved
at the end of the tick. Owner controls take the same lock and rewrite the same
file. Workers run detached under a supervisor, so they outlive the host and
end in their own time; replies and merges arrive in services the hub polls. The
desk programs share nothing with the host but files: transcripts, `run.json`,
pidfiles. Within one, the UI's thread and the watcher's exchange commands and
events over two bounded channels, and each remote has a supervisor, a reader
and a writer thread.

What is hard: a worker's result races its deadline, a cancellation and the
owner; everything an adapter did during a tick outlives a host that dies before
the save; retries, check reruns, visits and gate generations are separate
counters reset at different places; old replies stay readable for ever; a post
whose answer is lost may have been made; files are truncated and replaced
between a look and a read; a frame of a connection that is gone arrives after
the next one began. `PROJECT.json` lists the hazards with their lines and the
properties that watch them. Two have no property: a supervisor that cannot
start its agent keeps the bot's capacity for good (`agent.rs:843`), which
nothing in the repository calls wrong, and an `on_block` route of a gate
(`hub.rs:726`), which the theorem on consent excludes by name.

## Modules

The hub side:

| Module | Stands for |
|---|---|
| `FlowRun` | the run and every function of `hub.rs` and `control.rs` from a run to a run: `transition`, `handle_block`, `retry`, `override_step`, ... Pure operators, with the workflow as the constant `Flow` |
| `Hub` | the state machine around it: `advance`'s branches, the owner's controls, the worker, the clock and the tracker |
| `HubProps` | the properties of `Hub`, its inductive invariant and its fairness |
| `VisitLog` | the whole event log beside the count of visits the other modules keep |
| `FlowHost` | `host.rs` around `Hub`: the lock, a tick, its save, crashes; capacity and reservation of `agent.rs`; evidence tags of `checks.rs` |
| `TaskInputs` | what a worker, a gate and a pull request are given, and from which attempt |
| `Notices` | what a run owes its tracker: started comment, notices of decisions, outcome; two hosts and the owner |
| `Journal`, `RunRegister` | the run directory: the two files and each write of a save; and the register it promises to be |
| `Supervisor`, `BotCapacity` | the files of all attempts under a root, the hosts, the detached supervisors and the agents; and what hosts need of them: one unsettled attempt of a bot |
| `HermesTurn`, `SettledTurn` | the worker of a Hermes bot, its viewer and the gateway; and what a hub needs of it: no outcome while the service works |
| `Checks` | a red and a green step with their checks and evidence in a repository that changes; path globs and test reports |
| `WorkflowCycles` | `validate_cycles` |
| `Tracker`, `Correspondence` | requests, posts, pages of replies, deaths between exchanges; and what the hub may count on |
| `CodeHost` | `open_pr` and `merged` as sequences of `git` and `gh` commands |
| `Intake` | creation of a run by rival intakes, beside the host and the owner |

The desk side:

| Module | Stands for |
|---|---|
| `Engine` | the watcher loop: scans, panes, alerts |
| `App` | the terminal UI's state as plain data, with operators for keys and events |
| `Watch` | both on their threads, with the channels between them |
| `FlowFeed` | rows and alerts of a hosted run, from its event log |
| `Arbitration` | who raises banners |
| `Routes` | from a row back to a store or remote; the registry of Hermes profiles |
| `RemoteLink`, `Backoff`, `Discovery` | a remote's supervisor, reader, writer and agent; the wait before a respawn; Docker discovery |
| `JsonlTails` | Claude totals and panes, Codex rollouts, Grok's history over files that change |
| `CodexTurns`, `GeminiStore` | decoding of Codex's streams and usage; Gemini's patches and logs |
| `RowTails` | Hermes' messages and OpenCode's parts, read from databases |
| `SessionScan`, `Liveness` | finding sessions and their ids; live, needing attention, done |

`FlowRunProofs`, `HubProofs`, `FlowHostProofs` (host, task inputs), `SupervisorProofs`,
`ServiceProofs` (visit log, tracker, workflow cycles, publication, evidence,
intake) and `SessionProofs` (the turn of a Hermes worker, engine, arbitration,
backoff, liveness, discovery, scans, remote link, feed, routes) hold theorems; `Journal`
and `Notices` hold their own at their end. The last two proof modules have one section
for each module they are about, which they INSTANCE: `E!PaneKept` is `PaneKept` of
`Engine`.

For TLC, `MCHub`, `MCFlowHost` and `MCSupervisor` give small workflows, bots and
bounds. `MCServices`, `MCProgress` and `MCMonitor` each put several components
side by side: a variable `part` is chosen at the start and only that component
takes steps, so the states checked are the sum, not the product, of the
components'. A property of such a run is the conjunction of the components'
properties, named after what they have in common.

### State and code

* `run` is `Run` (`hub.rs:69`). Names, texts, times and paths are gone; what
  they decide is kept: the event log is reduced to the number of the current
  visit (`RouteEvent`, `LeaveStep`), which `VisitLog` shows to be what
  `hub::visits` computes from the log; `attempts` is reduced to the latest of
  each step, the only one the code looks at; a revision is a number per tag.
* An attempt is its step, its number and its family. `Handle` is its directory.
* `live` is what really executes: the hub has no such variable, and only learns
  of it by polling. `overdue` says that the active attempt's deadline has
  passed. `replies` and `merged` are the tracker and the code host, which never
  forget an answer.
* `tainted`, `released` and `reruns` of `Hub` are history: whether the attempt
  was ever past its deadline, unresolved or cancelled; the last generation of a
  gate that was decided; the starts within a visit. No guard reads them.
* One action is one branch of `advance`'s loop, with every assignment made until
  the loop goes round or returns. An adapter's answer is a choice between
  actions. `PROJECT.json` "map" names the lines of each.
* In `FlowHost` the same actions work on `mem`, the run as the holder of the
  lock sees it, and `disk` is the saved run. `launched` are the reserved
  attempts, `stranded` those whose spawn a crash prevented, `tags` the evidence
  in git.
* `Supervisor` has the other side of `launched` and `live`: one variable for
  each file of an attempt (`launch`, `cancel`, `receipt`, `output`, `task`,
  `answer`), where a supervisor is in `worker_main_at` (`sup`), and what
  executes (`leader`, `group`). Where a host is in `start_inner`,
  `resume_answer` or `stop` says which locks it holds (`Free`,
  `CapacityFree`), so a host that dies lets go of them as `flock` does. A write
  of a file is a step of its own, as are a look at one and the act upon it,
  wherever the two sides can get in between. `observed` is history: what a
  host was last told of a finished attempt.
* `HermesTurn` is one attempt seen from inside its worker, where `Supervisor`
  has a watched process. `seen` and `verdict` are the worker's memory of the
  stops and of its result, `receipt` is what `process.json` says of them;
  `logged` is the last answer to a prompt in the log. `gateway` says that the
  service works on a prompt: no code here can see that, it hears an answer
  (`reply`) through a viewer that may die. An error of the turn leaves the
  receipt open (`Abandon`); everything else goes through `close` (`Conclude`,
  `Close`).
* In `Tracker` `mem` is the `LinearTracker` in memory, `disk` its state file and
  `thread` the comments of the issue in the order of their times, several of
  which may share one. `call` says where the one call under way is: each place
  is followed by one exchange, which may succeed, fail without effect, or take
  effect and lose its answer. A death (`Restart`) keeps `disk` and `thread`.
  `heard` is what the hub was told.
* In `Notices` `turn` is the holder of `run.lock` with its copy of the record
  and its place in `apply`, `reopen`, `request_stop`, `flush_notices`,
  `publish_outcome` or a tick; `kept` is `run.json`; `issue` the comments posted
  under their keys.
* In `WorkflowCycles` `incoming` counts edges as the code does, target by
  target with repetitions. The queue of the code is a set, `ready`: which of
  its steps is taken next is left open, so that what holds of it holds of the
  code's order too.
* The readers of transcripts are split where the file may change in between: a
  stat, an open, a read. Offsets count pieces of lines.
* The terminal UI and the watcher are two processes in `Watch`, with the
  channels of commands and events as bounded queues; `unread` and `unsettled`
  are what a pane's tailer has still to deliver.

## Runs

| Run | Shows | States | Expect |
|---|---|---|---|
| `gate` | owner gate, question, route back to the gate, deadline, cancel, reopen: one worker (`SoleWorker`), a consistent run, bounded reruns, late results refused, fresh consent, terminal cancellation, fresh numbers, kept answers | 824 000 | pass |
| `loop` | corrections, review rounds, publication, merge: a review never accepts its own family's work (`IndependentReview`); automatic routing rests (`ComesToRest`) | 245 000 | pass |
| `crash` | a host that dies anywhere in a tick: controls hold, a bot has one worker, the saved run is consistent, it comes to rest, cancelled workers settle | 607 000 | pass |
| `supervisor` | hosts of two runs share a bot; attempts are started, stopped, resumed with an answer, and end late or on time; a host, a supervisor or a spawn fails anywhere: one supervisor for an attempt, receipts that mean that nothing executes, outcomes that never change, fresh results, one answer, an end in time | 275 000 | pass |
| `services` | what the hub relies on: the directory is an atomic register (`Readable`, `Atomic`), visits are those of the log (`VisitsOfLog`), evidence and inputs (`EvidenceHolds`), the pull request (`MergesOnce`), the tracker and its notices (`Corresponds`), workflow cycles, globs and reports (`ReadsAsMeant`); and every reader of transcripts (`TranscriptsHold`) | 627 000 | pass |
| `progress` | what must happen in the end: a stopped Hermes turn ends and is settled (`TurnSettled`, `StopsWin`, `EndsWhenStopped`), a question is answered, a run that can be seen is whole and announced (`IntakeHolds`), panes arrive, remotes end and refill | 43 000 | pass |
| `monitor` | the desk: panes (`PanesHold`), alerts and banners (`AlertsHold`), screen and engine (`ScreenHolds`), remotes, routes and containers (`RemotesHold`) | 434 000 | pass |
| `merge_cycle`, `reopen_answer`, `host_reopen`, `host_evidence`, `pane_history` | statements of the documentation or of comments that the code does not keep (see Findings) | | violation |

Deadlock is not checked: a run that is done, blocked or cancelled rests, and so
do attempts that are settled and programs that wait for a user.

### Bounds

* `MaxOwner` (1 to 4) bounds what the owner does in a behaviour: controls,
  replies and the merge. Four is enough to answer a gate, cancel, reopen and
  retry in one run. The bound is a guard, so liveness is checked properly.
* `TransientRetries` (0 or 1) is the workflow's own limit; 1 has a first
  attempt, a retry and an exhausted retry.
* `MaxCrashes` 1: between two crashes the host starts from a saved run that
  is reachable with one; what a second crash could add is a second forgotten
  launch of another step. The theorems about `FlowHost` hold for any number.
* `MCRecords` of `MCServices` has two records apart by up to three events, so
  that a save is cut short between its appends; six events in `VisitLog` allow
  leaving a step and returning to it twice.
* `HermesTurn` needs no bound: a worker sends four prompts at most (`Turns`,
  the code's own limit), and the viewer, the worker, a stop and the deadline
  each happen once.
* `MaxFailures` 1: one death or failed spawn, of a host or of a supervisor, at
  every point of every behaviour. The three attempts of `MCSupervisor` are the
  smallest set with a resumed attempt and a rival of another run for the same
  bot.
* Steps, tags and families are model values; the workflows have the shapes of
  `workflows/sdlc/workflow.yaml`: gate, implementation, bounded correction,
  bounded review, publication, merge. `AdapterKinds` and `WorkerKinds` choose
  which kinds of block adapters and workers report; kinds that the workflow
  does not route differ only in their name.
* The budget of iterations of `advance` is any number: `FlowHost` may save
  after every iteration (`BudgetSpent`).
* The tracker has pages of one comment, two remarks of people and two times, so
  that a page ends between comments of one time and a reply comes after a cursor
  has passed its time; one death. A gate has two texts, a question one.
* Three steps with two targets each are the smallest workflows in which a cycle
  shares a step with a way out, a target is named twice and a bounded step cuts
  one of two cycles. Symmetric ones are left out (`Ordered`).
* Caps of the code (bytes of a read, lines, ids, records) are small numbers
  where reaching them matters (`ReadCap`, `LineCap`, `AnchorCap`, `Budget`,
  `Limit`) and out of reach where it does not (`RecordCap`, `MessageCap` 9).
* Engines have two or three sessions, one or two panes, and clocks just long
  enough for a linger and a cooldown to pass twice (`MaxTime`). Queues of the
  channels have one place, which is where a sender waits soonest.
* `Backoff` has the code's own constants, with the uptimes at and beside its two
  thresholds.

### Fairness

The hub's step and a worker's end are weakly fair. The host ticks in a loop and
is restarted by its service manager, and a supervisor kills its worker at a
deadline of its own (`agent.rs`, `worker_main_at`). A Hermes worker goes
on as long as it lives; its gateway owes nothing, and that the worker ends
nevertheless is `EndsWhenStopped`. The owner, the tracker and
the code host owe nothing in `Hub`. Two things are outside this: a supervisor
that died without a receipt leaves a worker only `reconcile` can settle (the
model has it as `LoseTrack`, where the run blocks, and `stranded`, which
`SavedAtRest` excepts); and capacity that other runs' workers hold, as only one
run is modelled.

In `MCProgress` an exchange with the tracker is fair, and one of those that are
tried again and again takes effect some time (strong fairness of `Bind`,
`RecoverPosted`, `Create` and `ReadPage` with their saves): a service that fails
for ever answers nobody. Intakes and the host take their steps. The watcher
scans, obeys and pumps whenever its loop comes to it, which is again and again
and not continuously (strong fairness), and the UI's thread empties its queue of
events before it draws (`[]<>(events = <<>>)`, `run_terminal`). A remote's
supervisor, reader, writer and agent are threads and a process of their own,
each weakly fair; a connection that dies is not assumed to come back.

## Proofs

TLC checks the small instances above; the theorems hold for every value of the
constants under the assumptions named in the modules. `FlowAssumption`,
`HubAssumption` and `HostAssumption`: steps route to steps, limits are numbers,
the start is a step. `JournalAssumption`: records have numbers of events, the
first none. `SupervisorAssumption`: an answer resumes an attempt of the same run
and bot. `TrackerAssumption`: gates, questions, alerts and acknowledgements have
keys of their own (the code makes ids of different prefixes), pages are not
empty. `TasksAssumption`: inputs,
expectations and routes are steps, and workers end in the ways listed. `CyclesAssumption`: finitely many steps and targets. `ChecksAssumption`:
versions of files are numbers. `EngineAssumption`: alerts are raised again after
a positive time (`ATTENTION_REFIRE_SECS`, `engine.rs`). `LivenessAssumption`: so
is the time a silent session is believed (`Mult`). `BackoffAssumption`,
`ArbitrationAssumption`, `DiscoveryAssumption`, `ScanAssumption`,
`RemoteAssumption`, `FeedAssumption` and `RoutesAssumption`: limits, times and
paths are numbers, names and kinds are of their sets, a step's name is no event's
word, at least one store may be followed, and no slug but the first is the
default. `AppAssumption` and `WatchAssumption`: a page of the grid has two slots at
least (`GRID_SLOTS`), and sessions are finitely many. Otherwise only that
`None`, and in `Notices` the owner and nobody, are nothing else.

**The run** (`HubProofs`, on `FlowRunProofs`). `TypeCorrect`, `OneWorker` and
`Consistent` follow from the inductive invariant `IInv`, and from it the action
properties `Cancellation`, `Numbers`, `LateResults` and `Consent`. `SoleWorker`
needs to know that a start happens only without an active attempt, which is
`RunConsistent`: a ready run holds none. That a fresh number is fresh needs
`NumbersTaken` (the counter of a step is at least its latest attempt's number).
Consent needs `GatesOpen`: an open gate's request is newer than the last one
decided. A cancelled run goes nowhere because of `CancelledBlocked`, and a
result accepted is in time and undoubted because of `RunningClean`.
`FlowRunProofs` proves for each operator on runs what it keeps (types, counters,
which fields it moves), so that the step lemmas, one for each action, never look
inside two operators at once. `Consent` assumes `UnroutedGates`: no gate has an
`on_block` route. The loader accepts one, and an adapter's error at such a gate
follows the route without the owner; the theorem states the condition instead of
hiding it.

A second invariant, `VisitInv`, is about one visit of a step: `RerunsBounded`
with `StartsCounted` (what has been started within the visit is paid for by the
retries and the check rerun counted in the run), `QuestionsPut` (a question is
the current step's, and no reply names an attempt before it has asked) and `ReviewerDiffers` (a review at work is of a
known family other than the latest attempt it reviews). Every step of the run
ends in one of a few outcomes (`Routed`, `Controlled`, a start, an observation),
and the invariant is shown for outcomes. It gives `StartsBounded`,
`AnswerReachesWorker` and `Independence`.

**The host** (`FlowHostProofs`): `HostTypeCorrect`, `SavedWhole`, `OneWorker`,
`ControlsKept`, for any number of crashes. The invariant `HostInv` says of the
run in memory and of the saved one alike that they are whole and that what they
hold was launched (`Whole`, `Held`), that they agree on what the owner decided
(`SameControls`), and that a bot has one worker, stranded ones included
(`OneWorkerPerBot`). It has to be about both, since a crash replaces one by the
other at any iteration.

**Task inputs** (`FlowHostProofs`, on `TaskInputs`): `AcceptedIsGiven`,
`LaunchesAreDue`, `AttemptsAreToldWhy` and `ExpectationsAreAccepted`, for any
workflow, results, retries and forgotten ticks. The host finds the accepted attempt
by matching started and done events with the recorded attempts, and the reason of a
visit by searching back for its route; the model notes both on the run besides
(`accepted`, `routed`), so that the theorems say more than the search itself. By
`Matched` every step has as many attempts as start events and the search finds what
was noted, by `Explained` the last route event is the one of this visit and follows
its block: of every run in memory or on disk. `InTick` says what a tick may have
changed of what was saved before it: nothing was accepted but what the tick saw end.
`Asked` says that a task of an attempt still to come was written by a tick that was
forgotten; that is why `LaunchedIsDue` has its exception. The search is stated by
sets of places and their sizes (`EventsOf`, `Nth`, `Latest`) and not by a fold, so
what an event does to it is counting (`StartKeeps`, `EndAccepts`).

**Its directory** (`Journal`): it is readable in every state (`JournalReadable`)
and implements `RunRegister` (`JournalAtomic`), for any records and any number of
events. `JInv` says that the file is a prefix of what is being saved plus at most
one torn line, and that `run.json` is never ahead of the journal.

**The visits** (`ServiceProofs`): the counters a limit is compared with are those
of the whole log (`CountsTheLog`), and an event begins one visit of one step at
most (`OneVisitEach`). The log's visits are stated by sets of its places
(`Entered`, `Rerouted`) and not by a fold, so no induction over the log is
needed: `LogInv` is preserved because a step of the run logs events of its
current step only (`Logs`).

**The tracker** (`ServiceProofs`): `TrackerCorresponds` shows that `Tracker`
implements `Correspondence`: a request is put once, what the hub hears of it is
something the owner said to it, once and for all, and an answer is acknowledged
before it is acted on. `TrackerInv` says that the memory and the file note of a
request only what is so in the thread (`IsTrue`), that a call under way has done
what its place says (`CallInv`), that a request has one comment (`ThreadInv`) in
the order of times (`TimesInv`), that only of a gate the memory may be ahead of the
file (`InStep`), and that what was heard was saved first (`HeardInv`). `NoReplyPassed`
shows that the saved cursor passes no comment that answers its request, in
either order of pages: `CursorInv` says of memory and file alike that a comment
that answers is still ahead of the cursor or, where pages begin with the newest,
came during the scan and is left to the next one (`Ahead`, `Follows`).

**Publication** (`ServiceProofs`): `PublicationSafe`, one pull request of a run bears
its marker, and the merge gate passes for that one, merged and in the base since
the gate was asked. `PublicationInv` says what a call has found by the command it
has come to (`Found`): nothing with a marker and no receipt when it is about to
push or to create, the run's own merged pull request when it fetches, and by the
time it looks for the merge commit a ref that was in the base meanwhile.

**Evidence** (`ServiceProofs`): `EvidenceSound`, what is accepted is what it says.
`EvidenceInv` says that a check which still finds the commit it began with, and a
clean worktree, ran its commands on that commit, since edits by others leave the
worktree dirty and commits get numbers of their own (`Looked`), and that the tags
of the present attempt are of commits its check covered (`Tagged`).

**Intake** (`ServiceProofs`): `IntakeSafe`, a run directory that can be seen is whole,
and a cancellation of it stays. By `Staging` whoever has made the worktree holds
`intake.lock`, and whoever still has a record to save holds `run.lock` too.

**The notices** (`Notices`): `ToldFirst`, no host or control acts on a decision
before the tracker has accepted its notice. `TInv` says that the copy of whoever
holds the lock has the notices of the record, and that a tick that moves the run
owes none. `NoticesOrdered`, the tracker has one comment of each decision and has
them in their order: `OInv` adds that notices are numbered upwards (`Ranked`), so
that no two share a key, and that the comments of the record and of the holder's
copy are in order, of which a flush posts the first that is due. `OneHostWorks`,
only the program that holds `hub.lock` ticks the runs.

**Workflow files** (`ServiceProofs`): a workflow that `validate` accepts has no
cycle of plain steps (`AcceptedWorkflowsEnd`), and one that it rejects has a
missing target, or plain steps each of which another of them leads to
(`RejectedWorkflowsGoRound`). `CyclesInv` says that the counts are those of the
edges from steps that are left, so that no count falls below zero, and that
steps that lead to one another are all left. That a rejected workflow has a
closed path is then the pigeonhole principle; TLC checks it (`ReadsAsMeant`).

**The supervisor** (`SupervisorProofs`): everything of `Supervisor` but its
liveness, for any number of hosts, attempts, runs, bots and failures:
`CapacityShared` (the refinement of `BotCapacity`), `OneSupervisor`, `Quiet`,
`SameOutcome`, `EarnedResult`, `OneAnswer` and the types. The invariant `SInv`
is the code's locking argument made explicit: `Locked` (no two hosts are at
work in one run, nor two where a bot's lock is held), `HostPlaces` (a host that
found capacity free still has it free when it reserves, because whoever could
take it holds the same lock; a host that is about to cancel is alone with an
attempt nobody was told of), `SupPlaces` (a receipt is completed at the end of
its only supervisor, after the group), and `TaskKept` (the answered task is
reserved before it replaces the task).

**Hermes** (`SessionProofs`): `Settled` (the refinement of `SettledTurn`),
`StopsStay`, `HeardVerdict` and the types. Nothing in the program can see whether
the gateway works, so the invariant `HInv` ties that to what it can see: `Heard`
says which answer the log ends with at each place of the worker, `Working` that
a gateway at work has been answered for by nothing but an error, `Told` that a
stop the worker saw is in its receipt wherever someone else may complete it, and
`Grounded` what a verdict rests on.

**Panes and alerts** (`SessionProofs`, on `Engine`): `PanesStayInOrder`,
`PanesAreKept`, `NobodyForgottenEarly`, `AlertsAreSpaced` and
`AttentionAlwaysTold`, for any sessions, limits and times. `PanesInv` says what a
scan relies on between two of its own openings: what it is still to open is
wanted, has no pane and is not closed for good, so that an eviction makes way for
nothing that closes again. `AlertsInv` says that the clock of an alert
(`fired`) is the one of the last alert for as long as the session has not been
seen outside the state.

**Screen and engine** (`SessionProofs`, on `Watch` and `App`): `ScreenAndEngineAgree`,
for any sessions, filters, keys and queues, and `WatchRunsTheEngine`, the refinement
of `Engine` by the composition, which carries all of the last paragraph over to it.
A turn of the UI takes any number of events, each of which may move the cursor, close
panes and send commands, before the engine sees one of them. `WatchInv` says of the
state between turns that the commands on their way lead to what is open (`After`),
that buffers are of open panes (`Cleared`) and, unless the screen is unsettled, that
what is open is what the view calls for and the cursor can be seen (`Agrees`).
`StepIs` and `HearIs` show for one event what `TurnIs` shows for a turn. That is
induction over the queue, which here goes by sets of numbers: a set that holds 0 and
with n also n + 1 holds all numbers (`AllNumbers`), and what is made place by place
exists (`Unfolds`). So the model writes what it computes over a sequence as a function
of places and not as a fold (`Among`, `Turn`), and what commands amount to as a
statement about the last one of each session (`After`).

**Banners** (`SessionProofs`, on `Arbitration`): `ProgramsYield` and
`SilenceHasReason`. A program decides and claims in two steps without a lock, so
that two may raise banners; the theorems say of whom, in terms of what was claimed
when they decided (`saw`).

**Sessions** (`SessionProofs`): `SilentSessionsAge` and `WritersKeepSessions` (on
`Liveness`), and `RowsOpenWhatTheyShow` and `NoSessionUnseen` (on `SessionScan`):
a row opens the file it was found at, and every id that can be read is on a row,
for any files that come, go and state each other's ids. `ScanTypes` says that what
the caches hold is of files that were there, by the ids they had.

**Remotes** (`SessionProofs`): `StormsEnd` and `WaitsDouble` (`Backoff`: the streak
of instant exits is never ahead of the strikes counted), `RosterFollowsDocker`,
`NamesRest`, `OldestWins` and `ClaimantsAreFollowed` (`Discovery`: what is managed is what
was listed, under one name each, none of them the user's), and
`FramesAreOfTheirConnection` and `ContextsFitSnapshots` (`RemoteLink`). For
`RemoteLink`, `ReaderInv` says that a reader outlives its connection only while the
source is being dropped; `ContextInv` follows the frames through the pipe: each
context is followed by its own snapshot (`Precedes`), also when the first of the two
is already read, or has been folded and waits in `pending`.

**Hosted runs on the desk** (`SessionProofs`, on `FlowFeed`): `OwnerIsTold` and
`DoneStepsWerePassed`, for any workflow and any length of the log. An alert is
raised when its key changes, and the key is made of counts over the log and of
words, so the proof is that the key changes with what the owner should know:
`Known` keeps what was told beside the log as it was then, and `Followed` says that
no event that counts has been logged since if the counts agree. Exactly one kind of
stop escapes it, which `ToldAlike` names (see Findings).

**Rows and stores** (`SessionProofs`, on `Routes`): `RowsOpenTheirSessions`,
`FreshRowsCanBeOpened` and `OwnersOfStoresStay`, for any stores, links, slugs, remotes
and limits. `RoutesInv` says of every row, also of an earlier scan, that its route and
key follow from what it was made of (`IsRow`), and that a route under way was checked
against the link it was asked with: so two rows of one route have one key
(`KeyOfRoute`), and what a remote called a session is known by three fields of the
route (`WireIs`). `RegistryInv` has the owners' types; the first slug of a store
exists because natural numbers are well founded (`Smallest`), and that the default's store is followed rests on there being none
that precedes it (`DefaultFirst`).

Only model-checked:

* Liveness, which the prover cannot reach: `ComesToRest`, `SavedAtRest`,
  `CancelSettlesSaved`, `EndsInTime`, `EndsWhenStopped`, `AnswerArrives`,
  `PanesArrive`, `RemoteProgress`, and that a started run is told (`Intake`).
* Globs and reports in `ReadsAsMeant`, recursive over their input.
* The readers of transcripts (`JsonlTails`, `CodexTurns`, `RowTails`,
  `GeminiStore`) in `TranscriptsHold`: what a pane shows is a fold over what was
  read.

## Findings

Five statements the code does not keep, each with a run that shows it:

1. The merge gate of a cycle passes again without the owner once the run's pull
   request is merged (`merge_cycle`).
2. A reopened run is restarted by a tracker reply to a question asked before its
   cancellation, without a retry (`reopen_answer`).
3. `reopen` looks for a worker in the saved run only and succeeds beside one
   whose launch was never saved (`host_reopen`).
4. An evidence tag whose note could not be written is refused by every later
   attempt instead of being recovered (`host_evidence`).
5. A finished session that resumes while its pane is open loses the pane's
   history: the UI drops the buffer, the engine never replays (`pane_history`).

Smaller things met while modelling, which the models have as the code has them:

* The outcome is posted before Done is saved (`host.rs:228`). After a crash in
  between, a run that is cancelled or retried and then ends with another summary
  finds the outcome's key bound to the first text, and its later ticks fail.
* A cancelled run's notices wait for its next control or reopening.
* A crash between the worktree's creation and the rename strands a run ID.
* `open_pr` looks the pull request up before it pushes, so that a later visit
  does not push what was committed since (`code_host.rs:402`).
* `prepare` returns when `task.md` exists (`host.rs:340`), so a task is what the
  run was when it was first written.
* Edits that are undone during a check are not noticed.
* A review that must differ from the family of its own step can never start.
* `PidGuard` removes its kind's pidfile also when another process has claimed it
  since (`arbitration.rs:125`).
* The three instant exits that pin the backoff need not be "in a row"
  (`source.rs:417`): a connection that ended between the two thresholds does not
  start the count over.
* A gate approved in Hermon stays "pending" in the pipeline rows, and the alert
  of a second reopening has the key of the first.
* The key of an alert (`flow_ui.rs:217`) counts neither a timeout, a lost attempt,
  a cancellation nor an answer from the tracker. A run that is reopened, answered
  there, cancelled and reopened again between two polls is told once, and so is a
  timeout that comes back to its step by an override and a route, although
  `docs/flow/hosting-pipelines.md:73` says that a new attempt can alert again.
  `EverythingTold` excepts such a stop by name (`ToldAlike`).

## Not modelled

Text (templates, comments, status lines, the wording of `task.md`), the command
lines, environments and sandboxes of checks and agents, the formats of
transcripts and frames, costs, drawing, argument parsing, the doctor's probes.
The GUI keeps panes in a copy of the terminal UI's scheme and is left out, as is
the menu bar, which only counts sessions. Fields of a workflow file one by one
are `FlowRun`'s assumption, not its model.

## Plan

1. Proofs about the readers of transcripts as far as they are no folds (offsets,
   anchors, resets).
2. That `Supervisor` gives `FlowHost` what it takes for granted of `launched` and
   `live`.
