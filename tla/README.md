# Verification of ephy-runtime

ephy-runtime is a local assistant: a desktop application in Go with a window in
JavaScript, a gateway and a speech service in Python, and packages for search,
memory, tools and evaluation. This directory models the parts of it that keep
state and meet concurrency, failure or restarts. TLC checks the models on small
instances; TLAPS proves their safety for every value of the constants, and every
invariant that a run checks is a theorem.

    tlc -config SpoolOrder.cfg MCRecordingSpool.tla     # one run
    tlapm InteractionTurnProofs.tla                     # one module of proofs

## 1. Inventory

`PROJECT.json` lists every component with its files, the ones that are not
modelled too. The parts that keep state and run concurrently:

| Component | State | Operations | Talks to | What makes it correct |
|---|---|---|---|---|
| recording spool (`desktop/recording`) | turn files, heads, completed keys, settings; the same in memory; the attempt under way | Begin, BeginCandidate, BeginContinuation, Checkpoint, Finish, Configure, Retry, DispatchOnce, Close, New | interaction engine, Karte (outbox, receipts, HTTP) | nothing acknowledged is lost; each event is canonical once and in order; nothing said while OFF is kept |
| interaction engine (`desktop/interaction*.go`, `app_recording.go`) | turns, the active operation, the voice session, goroutines and timers | Start, Commit, Continue, Cancel, Interrupt, Playback, Fail, voice sessions, Close | recognizer, model, speech provider, window, spool | one turn at a time; complete means heard; the record agrees; every turn ends |
| event queue (`queueLocked`, `dispatch`, `interaction_asr.go`) | a channel of 1024 events, two slots and a wake for recognition updates | queue under the mutex, judge, emit | engine, window | producers do not block under the mutex; what is stale is not shown, what matters arrives |
| web search (`web_search_core`, gateway chat route) | plans, turn counts, job sessions | propose, approve, turn, submit, poll, cancel, purge | worker manager (HTTP) | a cancel is final; the plan of a running turn stays; every turn ends |
| Discord observation | records with their phase, active plan, gate token | poll, run, expire, cancel, reload | worker manager, local model | a run keeps its record; every run ends |
| tools (`tool_core`) | approvals, the write lock, the workspace | offer, approve, execute, read, list | file system, processes | one execution per approval; a write replaces what was shown |
| participation of the resident, inference gate | candidate, ticket, check, gate count and token | search, read, generate, check, cancel, switch of the model | Karte, model, desktop | the gate counts what runs; a candidate is spoken once, on evidence that still stands |
| Karte conversation and outbox (`karte_core`) | outbox files, receipts | plan, review, publish | Karte | what is sent is what was reviewed; a proposal is found or written, never missing |
| Karte index (`karte_core.watcher`, `rag_core`) | snapshot, pending scan, JSON store, Qdrant | poll, rescan, index, ingest, restart | files, Karte | index and snapshot agree, and catch up with the files |
| resident feedback (`eval_core.resident_service`) | sessions, changes, feedback, operations | submit, undo, retract, control, expire | windows | acts on what was seen; undo restores what was |
| preference evaluation, model registry | sessions, pairs, votes, exports; registry, selections, lock | batch, vote, export, import, select, launch | each other, files | selections resolve; a session keeps its artifacts; one current vote; export as reviewed |
| speech service, adapters, assets | queue, worker process, pipe, cleanup; voices; asset directories | synthesize, stop; load, generate; publish, verify | processes, files | nothing is lost, answers are one's own, assets are whole |
| launchers (`scripts`) | process records, lifecycle lock | start, stop, roll back, watch | all services | what was started is recorded; windows close first |
| traces, fillers, routing, prompts, configuration, retrieval ranking, front end | files, tables | load, look up, rank | - | sequential data handling or an unconstrained actor; not modelled |

The hard behaviours are the `hazards` of `PROJECT.json`, each at its line with
the properties that would catch it: writes that fail before or after their
rename, crashes between two writes, recording switched OFF and ON while an answer
streams, late and lost answers, a mutex that is given up and taken again, providers
that outlive their stage, tasks that are canceled at any await, processes that
die between being started and being recorded. Two are without a property: the
handoff of a recognizer that opens late, and the desktop's side of the permission
to play a candidate; the desktop's slot and timer are not modelled.

## 2. The modules

Operators whose definition is followed by the comment `mutant` are plausible bugs
of the operator after them; `PROJECT.json` pairs each with the property it breaks.

| Module | Models | Proofs |
|---|---|---|
| `RecordingSpool` | `desktop/recording/store.go`, `client.go`, `candidate.go`, and the Karte as they use it | `RecordingSpoolProofs` |
| `ConversationLog`, `RecordingSpoolLog` | what the recording promises, and the refinement mapping to it | `RecordingLogProofs` |
| `InteractionTurn` | `desktop/interaction.go`, `interaction_candidate.go`, `interaction_delivery.go`, `interaction_voice_session.go`, `app_recording.go` | `InteractionTurnProofs` |
| `EventQueue` | the events of `interaction.go` and `interaction_asr.go` on their way to the window | `EventQueueProofs` |
| `WebSearch` | `packages/web_search_core` and the chat route that waits for it | `WebSearchProofs` |
| `DiscordObservation` | `packages/discord_observe_core`, its routes in the gateway | `WebSearchProofs` |
| `ToolExecution` | `packages/tool_core` | `GatewayProofs` |
| `Participation` | `apps/gateway/resident_participation.py`, `model_transition.py`, `packages/runtime_core/participation.py` | `GatewayProofs` |
| `KarteConversation` | `packages/karte_core`: context, conversation, planning, contracts, outbox | `KarteProofs` |
| `KarteIndex` | `packages/karte_core`: source, watcher, protected; `packages/rag_core`: service, stores | `KarteProofs` |
| `ResidentFeedback` | `packages/eval_core/resident_service.py` | `GatewayProofs` |
| `ModelRegistry`, `PreferenceEvaluation` | `packages/model_registry`; the A/B evaluation of `packages/eval_core` over it | `GatewayProofs` |
| `SpeechWorker`, `SpeechAdapter`, `SpeechAssets` | `apps/speech`, `packages/speech_assets` | `SpeechProofs` |
| `LocalStack` | `scripts/integration_stack.py`, `scripts/resident_app.py` | `EventQueueProofs` |
| `MC...` | the instances for TLC | |

Modules that share no state are checked by one run where a behaviour is that of
one of them: `MCResident`, `MCWebSearch`, `MCKarte`, `MCSpeech` and `MCServices` hold
their variables side by side, and `part` says which one moves while the others rest in
an initial state. Within a part nothing is added to or taken from the module's own
next-state relation. These modules extend the components whose properties they check, so
that a run and a theorem speak of the same definition; where one component is run with
a second set of constants (the integration environment beside the resident, the imports
of the registry beside the evaluation), the second is an `INSTANCE` with constants of
its own. Where modules do interact they are composed or abstracted as the
code's interface shows it: `PreferenceEvaluation` contains an instance of `ModelRegistry`;
`InteractionTurn` sees the spool as a draft that is open, closed or stuck, and the queue
not at all; `WebSearch` has its turn; `Participation` has the gate that searches,
chats and switches share.

### 2.1 RecordingSpool

Memory and disk are different variables. `turns`, `seq`, `heads`, `completed`,
`enabled`, `current`, `storageFailed` are the fields of `Store`; `file`,
`headsFile`, `completedFile`, `enabledFile` what the directory holds. A crash
(`Gone`) forgets the first and keeps the second; `Open`, `RecoverDraft`,
`RecoverVerified`, `RecoverPending` and `Loaded` are `New()`, one step per file, so
that it may itself crash or fail half-way. Each method under `Store.mu` is one action.
`DispatchOnce` releases the mutex between choice, publication, wait, read-back and
failure: it is the actions `Dispatch`, `Prepare`, `Send`, `Poll`, `Confirm`,
`AttemptFails`, `RecordFailure`, with the attempt in `flight`.

A write of one file is atomic but may report an error before the rename
(`"early"`) or after it (`"late"`, the fsync of the directory): `SaveTurn` and
`Written`. `Confirm` is four writes, and `ConfirmFails` and `ConfirmCrashes` stop
after each of them. Every caller's reaction to a failed save is in its action.
Texts are lengths (`said`, `text`, `skip`): the properties ask how much of an answer
was recorded, never which words. `limit` remembers how much had been said when
recording was first turned off, `acked` which events a caller was told are
preserved; both are history for the properties. The Karte is external
(`KarteApply`, `KarteReceipt`, `KarteReject`): it appends a proposal whose base is the
current revision, once, and may refuse anything.

Left out: the first registration in `Configure`, `SetConversation`, `Snapshot`, the
expiry of `cleanup`, the capacity in bytes, segments, and the backoff clock.

### 2.2 InteractionTurn

`turns` has what the critical sections read: state, revision, generation,
`generationDone`, `producerDone`, the speech error, speech units, chunks, the
recording draft and what closed it, the error code. `active` and `voice` are the
engine's; `main` and `speech` the two goroutines of every attempt, `input` the
goroutine that accepts the input. Each action is one critical section or one step of a goroutine:
`runGeneration` is `Generate`, `Progress`, `Push` (the send on the bounded channel),
`LlmReturns`, `LlmFails`, `GeneratorStops`, `Await`; its speech goroutine
`SpeechTake` to `SpeechFails`; a provider that succeeds after its stage gave up is
`LateSeal`. `Finish` is `finishLocked` in its order: recording, trace, state, active. The
window is `PlaybackAck`, `WindowFails`, `Cancel`, `Interrupt`, `ObserveCandidateStop`.
`StartPreparedCandidate` takes the lock twice and so is `Start` and `ArmCandidate`.

Left out: streaming recognition (one stage that succeeds, fails or is canceled),
metadata and traces as data, the age and number of kept turns, fillers.

### 2.3 EventQueue

`events` is the channel, `pending` what the holder of the mutex has still to send: the
mutex is held exactly while it is not empty, and every handler begins when it is
free. `Send` is the send inside `queueLocked`. `disp` is the goroutine `dispatch`:
`Receive`, `Wake` and `Stop` are the cases of its select, `Judge` and `JudgeASR` its
critical sections, `Emit` the call of the window, which may come back with `Playback`.
`asr` is what `receiveASR` and `dispatchASR` share. How many events an attempt queues is
the budget `AttemptEvents` of the comment of `queueLocked`; thinking deltas are counted
apart because that comment does not count them. What was shown is history.

### 2.4 The gateway and its packages

Python's event loop runs a task until its next await, so an action of `WebSearch`,
`DiscordObservation`, `Participation`, `PreferenceEvaluation` and `SpeechWorker` is the
code between two awaits, and a cancellation or a client that leaves takes effect at the
next of them. What runs in threads (`ToolExecution`, `KarteConversation`, `KarteIndex`)
or in processes of its own (`ModelRegistry`, `SpeechAssets`, `LocalStack`) interleaves at
each look at a file and each lock. A deadline is a step that may happen once it
is armed. A request to another program has three moments that may be lost or late:
it arrives, it is answered, the answer arrives.

* `WebSearch`: `plans` with their count of turns (`active_turns`), `sessions` with the job
  and its cancel flags, `jobs` at the Manager, `tasks` with their pc and request, `stray`
  the requests whose sender is gone.
* `Participation`: one candidate (`cand`), the one-use `ticket`, the check (`checking`),
  the gate (`active`, `token`, `foreground`), grants and the Karte's withdrawals.
* `ToolExecution`: `grants` of the store, `calls` with their pc, `writeLock`, `files`
  which other programs change too (`touched` is history), processes as groups of two.
* `KarteIndex`: `jobs` are the operations of the watcher and of another caller over
  the JSON store (`local`) and Qdrant (`primary`); `clean`, `synced` and `alone` are
  history that says when the index may be off (overlap, failure, absent file).
* `KarteConversation`: `calls` plan, are shown, plan again, compare and publish; `outbox`
  and `receipts` are files that the Karte moves while `publish` looks for them.
* `ResidentFeedback`: every call is one `IMMEDIATE` transaction; windows act on the
  revision they saw.
* `ModelRegistry`, `PreferenceEvaluation`: commands as processes that read without the
  lock and change under it; batches under an asyncio lock and the registry's lease.
* `SpeechWorker`: `stage` of each request, the worker `process` with its pipe (`answer`),
  the cleanup task; `SpeechAdapter`: one call inside the worker with what it must undo;
  `SpeechAssets`: staging, rename and verification of directories.
* `LocalStack`: processes, the records in `processes.json`, the lifecycle lock.
* `DiscordObservation`: records and their runs, the polls that wait for them.

## 3. The runs

| Run | Instance | Shows |
|---|---|---|
| `SpoolOrder` | 2 turns of one conversation, queue of 3, one crash, writes that fail early | nothing acknowledged is lost (`AckedDurable`), the hand-over is justified at every step (`Handoff`), the spool is a log of which the Karte has a prefix (`ImplementsLog`) |
| `SpoolOneTurn` | 1 turn with text, recording OFF and ON, early failures, a refusal, one crash, fairness | files hold only what was said, and while it was allowed (`RecordedAsSaid`); every event is delivered in the end (`EventuallyDelivered`) |
| `TurnEnds` | 1 operation of each kind in three shapes: voice sessions; a second attempt of two units; two chunks; failing recorder and trace, fairness | the engine, session and draft belong to the turn under way (`Ownership`), complete means heard and no goroutine left (`CompletionHolds`), the record agrees (`RecordMatchesTurn`), turns end (`EventuallyTerminal`) |
| `QueueShows` | 1 operation and its continuation; 7 events per attempt, 2 updates, 1 thinking delta, fairness | nobody blocks (`ProducersNeverBlock`), ends and updates arrive (`EndShown`, `UpdatesArrive`) |
| `Resident` | tools: 2 callers, 2 paths, 2 texts, another program's edit; candidates: 2 operations, 2 documents, 2 foreground requests, 1 change; launchers: two starts of the resident with its watcher, a start and a stop of the integration environment with 1 kill | `OneExecutionPerApproval`, `ReplacesWhatWasShown`; `GateAccounts`, `OneReadyPerCandidate`; `StartedIsRecorded`, `WindowsAlwaysFirst` |
| `SearchTurns` | search: 2 turns and a cancel on one plan, either provider; Discord: 2 clients and a reload, or 2 requests for one record; fairness | `CancellationHolds`, `TurnKeepsPlan`, `EveryTurnEnds`; `RunsHoldTheirPlace`, `RunEnds` |
| `Karte` | index: 1 document, 2 paths, default store or Qdrant, 2 edits, 1 other operation, 1 failure, fairness; proposals: 2 requests, 2 documents | `IndexIsSnapshot`, `IndexCatchesUp`; `SentAsReviewed`, `PlansMeetContract`, `NeverMissing` |
| `Speech` | worker: 4 requests in pairs, of which two share an id, 2 voices; adapter: 3 providers, 2 requests, 1 fault; assets: 3 commands, 1 fault; fairness of the worker | `NothingLost`, `AnswerIsOwn`, `OwnerUndisturbed`, `EveryRequestEnds`; `VoiceIsProfiles`; `AssetsHold` |
| `Services` | registry: 7 commands on 2 models; evaluation: 2 batches over a reload and a crash, or 2 reviewers and an export; feedback: 2 windows of the owner, or a window with other speakers, memories and time | `SelectionResolves`; `SessionKeepsArtifacts`, `OneCurrentVote`, `ExportAsReviewed`; `AppliedOnWhatWasSeen`, `UndoRestores` |
| `QueueBlocks` | 1 typed operation, more thinking deltas than the channel holds, fairness | *violation* of `MutexReleased`: producer and dispatcher wait for each other |
| `PreferenceReload` | 2 calls of generate and a reload, fairness | *violation* of `LeaseEnds`: the loop waits for a lease that it must itself return |
| `LauncherRollback` | a start while everything runs | *violation* of `RollbackOnlyNew`: a service that ran before is stopped |

**Bounds.** They are constants, and the guards they bound are marked `bound`. Two
turns of one conversation are the least that make order, bases, continuation and
capacity matter; conversations share only the capacity and the dispatcher. One
crash reaches every half-written state, including a crash inside recovery when the
first stop was a failed write. Writes that fail late are left out of `SpoolOrder`:
an uncertain write may reuse a number (section 6), and order and refinement then do
fail; `AckedDurable`, `Handoff` and `RecordedAsSaid` hold with them and are proved with
them. In `InteractionTurn` two chunks let one be heard and the next not, two attempts
let an old goroutine meet a new one, and a queue of one makes the generator block; the
three shapes are each bounded where the others are not, because their product is
too large: sessions that pause and resume do not need a second attempt to go stale,
and chunks are heard one after the other whatever the session does. `Ownership` of
several operations is not checked by TLC beyond one but proved for all. In `EventQueue` the channel
is just as large as reserve, budget and thinking deltas together, as the code's
argument needs it. Elsewhere two actors and one or two objects are the least that make
the actors meet, and one fault or edit at every possible moment makes every single
failure happen; two faults at once are beyond the runs, not beyond the proofs.

**Deadlock** is not checked: the application, the gateway and every command may rest
when nothing is asked of them, and bounds end what could be asked. That nothing
waits for ever is said by the liveness properties.

**Fairness.** Only what the code's own scheduling provides is fair; never a user, a
client, an edit, a failure, a crash or an answer of another program.
* Spool: `Store.Start` tries again every second, an attempt ends within its timeouts,
  `New()` runs to its end (weak fairness of `RecordFailure`, `Exit`, `Restart`); the steps
  of an attempt are strongly fair, as the disk and the Karte are not unavailable on every
  single try, and the Karte takes and answers what it may. The promise excepts an
  item that is blocked, a latched store and a process that is down.
* Turn: recognition, generation, speech and playback have deadlines, after which the
  stage fails (`LlmFails`, `SpeechFails`, `PlaybackTimeout`), and goroutines run on. A
  request that carries a planned web search has no deadline of the generation stage
  (`worker_search_control.go:78-83`) and relies on those of the search. A microphone turn
  that is never committed stays in RECORDING: the property starts at TRANSCRIBING.
* Queue: the dispatcher and a handler that has begun run on (weak fairness of `Send`, `Emit`,
  `Return`). Strong fairness of `Receive` and `Wake`: a Go select picks among ready cases
  at random; of `Judge`, `JudgeASR`, `Acknowledge`: a `sync.Mutex` hands over to a waiter
  that has starved for a millisecond.
* Event loops: a task that can run is run (`Step`, `RunStep`, `Job`, `Stream`, `Cleanup`,
  `Generation`), and a deadline that is armed passes (`DeadlinePasses`).
* Index: the watch loop polls again and again and time goes on (`Watcher`, `Age`, `Work`); a
  failed loop is not restarted.

## 4. Proofs

The theorems are listed in `PROJECT.json`; together they state every invariant and
every action property of the passing runs (`WindowsAlwaysFirst` is `WindowsFirst` of
two instances). Their assumptions are the named `ASSUME`s of the modules, or operators
that the theorems name and the `MC` modules assume: TLC evaluates each of them in a
run. They say what the constants are (which actors are distinct, which set is finite,
what a table maps to what) and, where the code itself validates its configuration, that
it was validated (`RequestsAssumption` of the proposals, `CatalogAssumption` of the
voices). Four theorems have a hypothesis that says more, given with them below:
`SpoolImplementsLog` with its two companions, `NoProducerBlocks`, `SelectionsResolve`
and `UndoGivesBack`. None of the theorems bounds the number of actors, objects,
failures, crashes or edits: the bounds of the guards are arbitrary constants.

Each proof has one lemma per action or group of like actions; where many actions
change one record among many, the invariant is a predicate on the values of one record
(`Good`, `Rec`, `RequestHolds`, `JobOK`, `CallHolds`, `Goer`), so that most of the proof is
about values and one frame lemma says what a step leaves alone. Most of the inductive
invariants were checked by TLC on a small instance before they were proved.

* **`RecordingSpoolProofs`**: `TypeInvariant`; `HandoffInvariant` (`Handoff`): a receipt is for a
  recorded event, a read-back follows the receipt of its own proposal, what is verified
  is canonical; `AckedDurability` (`AckedDurable`). `AckedDurable` is not inductive: it says
  nothing of an event in memory whose attempt is at its read-back. `IInv` adds
  `Wellformed` (an open draft has no result yet, the event under way stays in memory with
  its proposal, recovery visits every open draft) and the chain proposal, receipt, record,
  verified item. `SpoolIsHonest` (`RecordedAsSaid`), early and late failures and any
  number of crashes included: `RecordedAsSaid` speaks of texts that are there; `Rec` says per
  key what a later step may still write: that memory and file claim no more than was
  said and hold no more than the limit, that a draft of the current epoch has no limit
  yet, and that a key whose failed `Begin` left a blank file may begin again only
  while nothing was said of it.
* **`RecordingLogProofs`**: `SpoolImplementsLog` (`ImplementsLog`), the refinement of the abstract
  log, `LedgerInvariant` and `NumbersOnce` (`SeqsDistinct`), under the hypothesis
  `"late" \notin Faults`. It is needed: a write that reports an error after its rename
  leaves a numbered event on disk that memory does not count, and the number is given
  again (section 6). `Ledger` is what makes it inductive. On disk, also between two writes
  of a confirmation: numbers are given once and without gaps after Karte's record, the
  n-th entry of the record is still in its file with number n or is completed and covered by the saved head,
  a prepared or verified event was sent against the revision before its number, and a
  proposal under way carries the next number of its event. In memory: the turns are the files
  up to what is blocked, `seq` is the last number, an event is verified exactly if
  the head covers its number, so the oldest unverified event is the one after the head.
  The log, a choice over the numbers in files, is handled by the relation `Entry(c, n, e)`:
  `AcceptedBook` says it is a function of n, and a step either keeps it (`SameEntries`), adds
  the last one (`NewEntry`) or moves the border of the record. `DiskMove` is the frame
  lemma for steps that take delivered events out of their files.
* **`EventQueueProofs`**: `TypeInvariant`; `NoProducerBlocks` (`ProducersNeverBlock`) under
  `ThinkingFits`, the condition the code does not enforce (section 5). The invariant
  counts: what is in the channel or still to be sent is at most the reserve plus what
  the attempt has queued, a live attempt keeps room for its end, only the last attempt
  is live. `ReserveAssumption` is the arithmetic of the comment of `queueLocked`; the
  budget `AttemptEvents` is taken from it, not derived. Of the launchers: `StartedIsFound`
  (`StartedIsRecorded`) for the resident's, from records naming processes of their name, a
  command's copy being equal to `processes.json`, ports with one owner, and everything that runs being
  recorded or in hand; the integration stack keeps no such promise (section 6). `ServicesEndLast`
  (`WindowsFirst`) for both: who stops goes by the records as they are and has seen the end of
  every window it is past, and a watcher the end of its own before it took the lock.
* **`InteractionTurnProofs`**: `TurnsOwn` (`Ownership`), `CompletionIsReal` (`CompletionHolds`),
  `RecordIsTrue` (`RecordMatchesTurn`). The invariant says what the input goroutine, the
  generator and the speech goroutine of each attempt may assume of each other: before
  acceptance there is no goroutine, no attempt but the latest has one unless the turn
  was ended by force, speech succeeds only when the queue is closed and empty, and a unit
  that is not synthesized is on its way from one to the other. The last is why "all
  units sealed" at completion cannot miss one.
* **`WebSearchProofs`**: `Typed`; `PlanOutlivesTurns` (`TurnKeepsPlan`), from `active_turns` being the
  cardinality of the set of turns between `begin_turn` and `close`; `CancellationIsFinal`
  (`CancellationHolds`), from what a session and each request in flight know of a job
  staying true while the job moves on. `TurnsFinite` is needed to count.
  `OneRunInItsPlace` (`RunsHoldTheirPlace`) of the Discord observation: a record has as many
  runs at work as it says, none once it is answered, and `active` of the gate is the number
  of polls and analyses that are under it, so that a switch, which waits for 0, meets none.
* **`GatewayProofs`** is of five components that share one service.
  *Participation*: `GateCounts` (`GateAccounts`), `SpokenOnce` (`OneReadyPerCandidate`), and the
  action properties `SpokenWasReread` (what may be spoken rests on evidence the Karte had when
  the check began) and `LateAnswers` (a document enters only a valid run). The invariant gives an
  operation one place at a time: not asked, candidate, ticket, check, spoken.
  *Tools*: `ApprovalsCount` (`OneExecutionPerApproval`) and `WritesAsShown`
  (`ReplacesWhatWasShown`), from who holds the write lock and from what each writer knows of its
  target after its last look.
  *Registry and evaluation*: `SelectionsResolve` starts from a selection that resolves, which no
  command makes worse; it rests on records being added and never changed. `SessionsKeepArtifacts`
  needs to know what a batch under the lease has read and that the lease is its own until it
  gives it back; `VotesFollowEachOther` (`OneCurrentVote`) that the transaction takes a vote only over
  the latest one; `ExportsAreReviewed` (`ExportAsReviewed`) that a record is exported
  from what a vote said of the side it was shown on, in a session of the right mode.
  *Resident feedback*: `FeedbackIsFresh` (`AppliedOnWhatWasSeen`): a window that holds the latest
  revision, and a request with it, was shown all rows, and also the policy, if the process, the
  clock and the selection of the model are still those of then (`SeenInv`). `UndoGivesBack`
  (`UndoRestores`): every row holds the value that its layer had before it (`RowsHold`),
  which a mark on a row does not change; and what an applied restriction added is in force
  and was added by no other (`MemHold`), so that lifting one lifts no other. `RestrictionsAssumption` is its hypothesis: restrictions
  are offered for the owner, never for a session, which is so in the window (section 6 says what a
  direct request could do).
* **`KarteProofs`**: `SnapshotIsIndexed` (`IndexIsSnapshot`). Between polls nothing but the
  property is known, but an operation in progress knows more: while it is alone the
  stores agree with the snapshot until it writes and with its scan from then on, and
  what a load dropped is among the paths it replaces. `ReplaceTouched` is the lemma on
  the algorithm: replacing the paths of what differs between two scans turns the one
  into the other, because a scan has at most one document of a path and `Touched` takes
  the old as well as the new place. Of the proposals: `OutboxIsReviewed` (`SentAsReviewed`), from
  what each call knows of the plan it was shown; `PublishedIsFound` (`NeverMissing`): files only
  move on, from pending to accepted or rejected, and a status that was asked after a publication
  finds the file in a directory it has not looked into yet; `ContractIsMet` (`PlansMeetContract`),
  over all results of classification, search and selection.
* **`SpeechProofs`**: `SpeechTypes`, `NothingIsLost` (`NothingLost`), `AnswersBelong` (`AnswerIsOwn`)
  and `OwnersAreServed` (`OwnerUndisturbed`) of the worker. The lock has one owner, who alone starts and
  talks to the process; whoever calls stop waits for one cleanup and gets its result; a
  handle is forgotten only when the process is dead and its directory removed; and the
  pipes of a process in use hold just what the protocol has in flight for the owner (`Pipes`). `AssetsAreWhole`
  (`AssetsHold`): a directory gets its name by one rename of what is complete, and the name is made of
  the content. `VoicesBelong` (`VoiceIsProfiles`): after the call that prepares the voice, the cache has
  it under the digest that was asked for until the request is done, whatever failed before.

**Only model-checked, and why.**
* Liveness (`EventuallyDelivered`, `EventuallyTerminal`, `EndShown`, `UpdatesArrive`,
  `EveryTurnEnds`, `RunEnds`, `EveryRequestEnds`, `IndexCatchesUp`): needs `ENABLED`, which the
  prover does not support.
* What a fold or a recursive function computes for every input: that needs induction over
  data, whose theorems take an operator that the installed provers cannot instantiate. The
  proofs use of such an operator what one step of it does, or avoid it: the greatest row of a layer
  exists because the order below a bound is well founded.

## 5. Findings

* **Thinking deltas may block the engine** (`QueueBlocks`). The bound in the comment of
  `queueLocked` leaves out the chat events of a typed turn (`interaction.go:649`). If the
  window is more than 500 events behind, a handler that queues two events can wait for
  room while the dispatcher, holding one event, waits for the handler's mutex.
* **A reload during a batch stops the gateway** (`PreferenceReload`).
  `preference_service.py:117` serializes batches with an asyncio lock of the service object and
  then takes the registry's file lock, which blocks the thread. After a reload the new
  object has a new lock: the next `generate` blocks the loop on which the batch that holds
  the lease would have to go on.
* **A failed second start stops what ran before** (`LauncherRollback`). `resident_app.py:232`
  takes a service for new when its record differs from the one before; for a service that
  runs already it does, in `started`. The test says that only new services are stopped.

## 6. Seen while modelling

The following is what the models do because the code does; no document promises the
opposite. Spool and turn:
* A permission error of an attempt overwrites the code of the storage latch
  (`client.go:577`), so the store may be configured again without a restart
  (`StorageFailureLatched`). A write that fails late in `Begin` (`store.go:386`) leaves
  its file while memory gives the number again (`SeqsDistinct`).
* `StartPreparedCandidate` does not look at the turn again after its second lock
  (`interaction_candidate.go:21`): a draft may open after the end (`CandidateDraftClosed`).
  The limit of 256 speech units (`interaction.go:715`) also fails a typed answer
  (`TextSurvivesSpeech`). These properties are kept in the modules for whoever wants to
  reproduce them.

Gateway and packages:
* A cancel of a candidate in the first 50 ms has no effect; the gate's token expires
  after 600 s; `/v1/web-search/plan` is outside the gate; after a reload a running
  search turn cannot be canceled through the new service.
* Two operations on the index without a lock may lose each other's chunks; a failure after
  the save leaves chunks the snapshot does not know until a full rescan; an error of Qdrant
  is swallowed; the default store drops chunks of files that are absent for a moment.
* A process that ignores SIGTERM outlives the command that started it when its leader exits.
* A session policy of the resident disappears at a restart without a new revision; an undo
  that was taken over by a later undo may restore a value whose feedback was retracted. Undoing,
  after a restart, a row of a session of the earlier process gives no value back
  (`UndoRestores` makes these two exceptions). A restriction at session scope, which only a direct request to
  `change` can ask for, would let a later one of the owner replace the owner's list by what
  was in force for the session (`resident_service.py:196-199`).
* A Discord record that expired and is asked again starts with a new deadline and the same
  submit key; one that expires between its creation and its first step may run twice.
* The launcher may adopt and later stop a service that it did not start; its watcher gives
  up after six tries; killed between `Popen` and `remember` it leaves a process without record
  in the integration stack.

## 7. Left for later

Models of the recognizer slot and of the desktop's side of resident candidates.
