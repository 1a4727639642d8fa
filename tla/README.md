# WheelMaker: a verification project

WheelMaker lets browsers and phones drive coding agents that run on a
developer's machines. A **hub** process on each machine starts the agents,
records what they say as numbered *turns* and streams them through a
**registry** (a WebSocket switchboard) to the **page**, a single large client
application. This directory models the parts that keep state, says what TLC
checks of them on small instances, and what TLAPS proves for every instance.

All paths are relative to the repository (`src/`). Go files without a directory are
in `server/internal/hub/client/`; TypeScript ones are under `app/web/src/`.

## 1. The system

### Parts and how they interact

*Hub.* `Session.handlePromptBlocks` takes a session's execution lock, tells the
`SessionRecorder` that a prompt starts, forwards every update of the agent and then
the result. The recorder publishes each turn as it changes, and when the prompt
ends writes its turns to the *turn files* and their count to the session's row in
SQLite. `session.read` joins the files with the recorder's live turns; archive,
restore and delete move a session between rows, files and an archive pack. One
operation at a time runs for packages, skills, file index and releases; terminals
write output with run and sequence numbers; attachments are part files that become
artifacts.

*Registry.* It forwards each request of a page to a hub through a pool of workers,
matches answers to requests, and owns the one port relay slot.

*Page.* One WebSocket client (`Connection`) under a service that every component
calls (`RegistryCalls`). The chat keeps a turn store per session (`ChatSync`), a queue
of prompts (`ChatPrompts`), drafts, attachments, lists and search; the workspace keeps
project trees, files, Git data and preview tabs; settings pages start and poll
operations of the hubs; voice input and reading aloud stream audio. What should
survive a page reload goes to IndexedDB (`ClientCache`).

What makes all of this hard to test: every handler of the page awaits answers, and the
user, events, reconnects and other handlers run between two awaits; events are lost
with the connection; timers race with answers; the hub updates files, rows and memory
one after the other and can die in between; several of its entry points work on a row
that they loaded without the lock.

### Components

| Component | Modules | Status | What is modelled, what is left out |
|---|---|---|---|
| Session recorder | `TurnRecorder`, `MCTurnRecorder`, `TurnRecorderProofs` | partly | Every path of RecordEvent and RecordSessionOperation, plus ReadSessionTurns, MarkSessionRead and RenameSessionTitle, for one session with a turn store. DeleteSessionData is the last step of archive and delete in SessionLifecycle. Left out: ResetPromptState, RemovePromptState and ResetSessionTurns (they run inside a reload, which needs the agent to replay its history), the usage update (it rewrites the agent JSON only) and the in-memory finishedTurns used when no turn store is configured. |
| Turn files | `TurnFiles`, `TurnLog`, `MCTurnFiles`, `TurnRecorder`, `TurnFilesProofs` | modelled | WriteTurns and DeleteTurns step by step on the WMT2 format with failing operations, kills and power loss, ReadTurns as the log a reader sees; TurnLog is the abstract log, which TurnRecorder uses one turn at a time. The newest-first search scan is read-only. |
| Session store (SQLite) | `TurnRecorder` | partly | LoadSession and SaveSession as atomic reads and writes of one row that can fail. Project, agent-preference and skill tables, and the migrations, are plain CRUD. |
| Session execution | `TurnRecorder` | partly | The execution lock (beginExecution/endExecution), handlePromptBlocks as the recorder sees it, and StartCompaction. Instance creation, initialize/load/new, Suspend, cancel and the update channel drive a process outside the repository and are left out. |
| Session reload, archive, restore and delete | `SessionLifecycle`, `MCChat`, `SessionLifecycleProofs` | partly | archiveSession, deleteActiveSession, RestoreArchivedSession and the upserts that race with them, step by step with failures and crashes. The native archive of the agent and the reload of a session are not modelled. |
| Web client turn store | `ChatSync`, `MCChat`, `ChatSyncProofs` | modelled | The turn store, the read repair queue, the durable cache queue and the WorkspaceApp handlers that drive them, for one session, with connection loss, page reload, hub restart, failing reads and answers that are overtaken. The message-level helpers of chatSync.ts that no handler calls any more are left out. |
| Web client prompt queue | `ChatPrompts`, `MCChat` | modelled | Composer submission, the in-memory queue of prompts and compactions, the pending prompt with its confirmation timer, Retry, Edit, Stop and the drain effect, for one session against a hub that executes one thing at a time. Uploads are Attachments, drafts DraftSessions; /status and /fast change no queue state. |
| Registry | `RegistryCalls`, `PortRelay`, `MCTools` | partly | The life of a request from the dispatcher to the hub and back (RegistryCalls) and the control plane of the port relay (PortRelay). Left out: the login limiter, the upload quota, the request id window and the reporting of project state. |
| Hub reporter | - | not modelled | The hub side of the registry connection: reconnect loop, request dispatch and event forwarding. The modules of the page assume what it does to a request (answer, error, silence) without modelling it. |
| Agent connections | - | not modelled | Shared and owned ACP connections, the Codex app-server bridge and process supervision; speaks to programs outside the repository. |
| Port relay | `PortRelay`, `MCTools` | partly | Control plane: the controller slot, listener and tunnel, and the settings and frame of the web page. The data plane (frames, streams, login guard, URLs, clearing site data) is not modelled. |
| Server data, security, speech and TTS | - | not modelled | Configuration storage, crypto wrappers and calls to external services: each call is a request and an answer, without state that outlives it. |
| File index and tools | `FileIndexScan`, `AgentPackages`, `ReleaseUpdates`, `SkillsScan`, `MCTools` | partly | The single operation a hub runs at a time, its pending flag and its result, as the pages that start and poll it see them. What the operation does (walking the file system, running npm or git) is an outcome chosen freely. |
| Deployment, updater and desktop shells | - | not modelled | Process launchers and installers: what they do is done by the operating system. |
| Web workspace UI | `MCChat`, `MCWorkspace`, `MCTools` | partly | The state machines inside WorkspaceApp.tsx are the components listed below, each with its module. Rendering, layout, styling, key bindings and formatting are left out. |
| Android shell | `ApkUpdate`, `MCTools` | partly | The download and install of a package (ApkUpdate). The WebView host, notifications and the Android speech transport are left out: they call the platform. |
| Web client persistence | `ClientCache`, `MCWorkspace` | modelled | The IndexedDB stores, the write queue, the direct writes, cache budgets, quota recovery, and initialize() after a reload. Settings are versions, chats the length of their finished prefix. The database dump is not modelled: it only reads. |
| Web client connection | `Connection`, `MCWorkspace` | modelled | The WebSocket client and its pending requests, which client the service forwards, connect() with its silent reconnect and grace period, the foreground supervisor and the login state. What a connected page loads afterwards belongs to other components. |
| Web preview workbench | `PreviewWorkbench`, `MCWorkspace` | modelled | Tabs, their loads, the snapshot and the restore effect. The rendering of a tab, search inside it and line selection are presentation. |
| Web project trees | `ProjectTree`, `MCWorkspace` | modelled | The explorer, its validation and refresh, project switches and the tree of the preview pane over the directory cache. |
| Web file view | `FileView`, `MCWorkspace` | modelled | readSelectedFile and everything that starts or overtakes it. Scroll positions, search in the file and line selection are presentation. |
| Web voice input | `VoiceInput`, `MCTools`, `VoiceButton` | partly | The registry transport: permission, capture, buffer, send queue, stream start loop, finishing, events. The Android transport is not in the model. |
| Web Git view | `GitView`, `MCWorkspace` | modelled | Revision check, loads, branch selection, commit files, diffs and their cache; layout, popovers and date formatting are left out. |
| Session search | `SessionSearch`, `MCChat` | modelled | Page state, polling and cancelling of project searches, and the search manager of the hub. Matching of text, highlighting and the jump to a turn are left out. |
| Registry calls | `RegistryCalls`, `MCTools`, `RegistryCallsProofs` | modelled | Every method of the repository with its scope, timeouts and reading of the answer; the request life in the client, in the dispatcher and forwarding of the registry, and in the hub. Payload contents are reduced to complete or incomplete. |
| Session administration (page) | `SessionAdmin`, `MCChat` | modelled | Archive, delete, rename, reload, batch archive, archived mode, preview, restore, list refresh and folding of older sessions. |
| Project file index (page) | `FileIndexScan`, `MCTools` | modelled | Scan, Scan All, status refresh and polling of the update page against the rebuild of the hub. |
| Agent package updates (page) | `AgentPackages`, `MCTools` | modelled | Scan, polling, install, update, uninstall and update of all packages against the one operation a hub runs. |
| Release updates (page) | `ReleaseUpdates`, `MCTools` | modelled | Check of all hubs, poll during background fetches, forced refresh, update of one hub and of all. |
| Android package update | `ApkUpdate`, `MCTools` | modelled | Check, install request, bridge timeout, download thread and events. |
| Skills page (scans and actions) | `SkillsScan`, `MCTools` | modelled | Refresh of all hubs, scan of one, the polling timer, confirmed actions, and the operation of a hub. |
| Skills page (install panel, rows, details) | `SkillPanel`, `MCTools` | modelled | Source input, list, ticking, dialogs and the detail cache; splitting the input at quotes and grouping rows by category are left out. |
| Terminals | `TerminalSync`, `MCTools`, `TerminalResize` | partly | Output, snapshots, runs, closing, and the ownership of the size, on the hub and on the page. Left out: the pseudo terminal and the screen model of the hub, base64, the key bar and copying of a selection. |
| Text to speech (page) | `TtsPlayback`, `MCTools` | modelled | Segments, fetching ahead, playing, stopping. Cleaning of markdown is left out: a chain of regular expressions without state. |
| Microphone audio | `PcmStream`, `MCTools` | modelled | Resampling, bytes and chunks of a stream. The web audio graph and base64 are left out; permission and the life of the microphone are in VoiceInput. |
| File search boxes | `FileSearch`, `MCWorkspace`, `FileResultTree` | modelled | Mention menu, tree search and quick open: timers, generations, answers in any order, changes of project; the wording of rows is left out. |
| Session attachments | `Attachments`, `MCChat` | partly | Draft tiles, the upload of a send and the hub attachment manager with failing calls, restarts and expiry. Thumbnails, the reading of previews and the size limits are left out. |
| Draft sessions | `DraftSessions`, `MCChat` | modelled | Draft rows, session.create with late, lost and failing answers, the move to the real session and the first prompt. |
| Session index | `ChatIndex`, `MCChat` | partly | Project and session lists with coalesced refreshes, events, read marks, lost connections; the summary of a session is a number. The durable copy of the list is in ClientCache. |
| Recent sessions and quick switch | `RecentSessions`, `MCChat` | modelled | Menu, recent list, green dot and the effects that compute them. |
| Chat view | `ChatDisplay`, `MCChat` | partly | Rows, prompt states, plan, copy ranges, offers and jumps over turns that arrive in any order. Estimated heights and the rendering are left out. |
| Clickable answers | `OptionReplies`, `MCChat` | modelled | Reading of options and questions, line by line; which sentences ask for a confirmation is given with the line. |

## 2. Modules

Every component has one module with its own variables, `Init`, one action per handler
or step, `Next` and `Spec`, and, where something must eventually happen, `FairSpec`.
Operators carry the names of the functions they model. A handler is cut exactly
where the code can be interrupted: at an `await`, a call that may fail, an unlock, or
a file operation. Everything between two such points, including trailing saves,
publications and state updates, is one action. Data is reduced to what the properties tell
apart: a text is a revision number or the request that brought it, a file
content the file and its version, audio the number of a chunk.

The components of a page share little state: they meet in the service, which answers,
fails or stays silent. So each module has the answers of its environment as actions
of its own (`Answer`, `Fail`, `Receive`, a bounded number of faults), in any order the
transport allows, instead of one product of all of them.

### Turns on the hub

**TurnRecorder** is `SessionRecorder` for one session. `row` is `session_sync_json`
(`latest` = latestPersistedTurnIndex, `done` and `ok` = lastDoneTurnIndex and
lastDoneSuccess, `read` = lastReadTurnIndex) with one bit for a manual title; `files` are
the turn files; `state`, `nextIdx` and `activeOps` the recorder's maps for this session;
`exec` the execution kind of the `Session` that feeds it. A turn is its index, method, a
tag (tool call, stop reason, operation status), a *revision* that counts the chunks
merged into it, and its finished flag.

Handlers run under `writeMu`. The holder is one process: `pc` is its next step, `task`
the handler, `rec` the row it loaded and `todo` the turns it has to write. Each load,
save and turn file write is a step of its own. The unlocked callers (`Clients`) have a
step for the load and one for the save.

| Action | Code |
|---|---|
| `PromptStarted`, `PromptStartedInterrupting`, `PromptStartLost`, `StartRequest` | `handlePromptStartedLocked`, `nextPromptStateLocked` |
| `UpdateMessage`, `ReplyAndEnd`, `SessionInfoUpdate` | `handleUpdateMessageLocked`, `addMessageTurn`, the reply of `handlePromptBlocks`, `handleSessionInfoUpdateLocked` |
| `PromptFinished`, `PromptFinishedIgnored`, `ArtifactWriteFails`, `FinishSave`, `InterruptSave` | `handlePromptFinishedLocked`, `finishPromptStateLocked` |
| `PersistLoad`, `PersistenceGap`, `WriteTurn`, `WriteRefused`, `PersistSave` | `persistSessionStateTurnsLocked`, `WriteTurns` |
| `UpsertLoad`, `UpsertSave` | `upsertSessionProjectionWithPublish` |
| `OperationStarted`, `OperationEnded`, `OperationSave` | `StartCompaction`, `RecordSessionOperation` |
| `MarkReadLoad/Save`, `RenameLoad/Save`, `ReadLoad/Live` | `MarkSessionRead`, `RenameSessionTitle`, `ReadSessionTurns` |
| `StoreFails`, `Crash` | an error of the store or the files; the hub process dies |

`out` is what the last step published, in order, and `view` what a subscriber that misses
nothing holds. After a crash such a subscriber reads the session again (`Persisted`).

**TurnFiles** is `fileSessionTurnStore` on the WMT2 format. `file[k]` is file *k* as the
process sees it (header state, used slots, body bytes) and `disk[k]` what a sync has
made certain. `writeTurn` is split where the code does a file operation: open, header,
body, sync, slot, sync. `Fails` ends a call at any of them, possibly with half of a header
or a body written; `Killed` ends the process; `PowerLoss` keeps the synced state and any
part of what came after, byte by byte (`ByteSurvives`). `DeleteTurns` removes the files one
at a time. Assumed of the file system (external): a sync of a file also makes its
directory entry durable, a removal is durable in order with what follows, and the
eight bytes of a slot are written whole. Offsets are unbounded in the model (the code
stores 32 bits).

**TurnLog** is the abstract specification of the files: a batch is appended turn by turn in
the order given, a turn that was synced goes only in a delete, and what is missing
reads as a gap. `TurnFiles` implements it under `log <- LogNow, synced <- SyncedNow`;
`TurnRecorder` uses it in the small (`files` is its `log`, `WriteTurn` its `AppendNext`, and
the hub's death leaves the log as it is).

**SessionLifecycle** is archive, restore and delete (`session_archive.go`, `client.go`) over
rows, turn files, manifest and pack, each step of which can fail or be the last before
a crash, beside upserts of the same session. The rollback of a restore ignores the errors of
its two deletes, so it may leave the row, the files or both (`TakenBack`). Four history
variables let the properties say what has happened: `archives` counts archive requests, `cut`
is an archive or restore that was cut off between its two records, `torn` a rollback that kept
the row without its files, `alone` that no request was served beside a delete.

### The chat on the page (`MCChat`)

| Module | State | Actions |
|---|---|---|
| `ChatSync` | turn store, cursor, repair queue, IndexedDB copy; the hub's log | events, reads and their late answers, selection, hydration, the 5 s flush, drops, reloads, hub restarts; a silent reconnect in four steps (`Connect`, `bindRepository`: events are heard, `RepositoryInPlace`: requests go out, `syncChatSessionsAfterReconnect`), between which turns arrive and chats are selected |
| `ChatPrompts` | composer, queue, pending prompt with its timer, requests on the wire; what the hub executes | submit, drain, confirm, expire, retry, edit, stop, compact, voice, prompts of other devices |
| `DraftSessions` | draft rows, their composers and create calls | create, type, send, late and failing answers, the move to the real session |
| `Attachments` | tiles, the send that uploads them; part files, artifacts and sidecars of the hub | attach, remove, upload step by step, cancel, expire, restart |
| `ChatDisplay` | turns held, in any order and with gaps | rows, running state, plan, copy range, offers and jumps as operators of that state |
| `OptionReplies` | the lines of a growing answer | reading of options and questions |
| `ChatIndex` | project and session lists with in-flight and dirty flags | refreshes, events, read marks, drops |
| `RecentSessions` | session lists with times, recent list | the effects that recompute it, and the quick-switch menu |
| `SessionAdmin` | rows, dialogs, batch, archived mode | archive, delete, rename, reload, batch, preview, restore, list answers |
| `SessionSearch` | the page's search and polls; the hub's tasks | submit, poll, cancel, expire, close |

### The workspace (`MCWorkspace`)

| Module | State | Actions |
|---|---|---|
| `Connection` | sockets, pending requests, service client, supervisor and login state | connect step by step, close, hide, foreground, online and offline, grace timer, logout |
| `ClientCache` | memory, IndexedDB stores, write queue, budgets | direct and queued writes, eviction, quota recovery, crash, `initialize` |
| `ProjectTree` | the explorer's tree, hashes, directory cache, selected project of page and service | toggles, listings, validation, refresh, project switch, the preview's tree |
| `FileView` | selected file, content on screen, reads in flight, two caches | choose, switch, reconnect, refresh, answers |
| `GitView` | the page's Git state and its tasks | revision check, loads, branches, commits, diffs |
| `PreviewWorkbench` | tabs per project, loads, snapshot | open, close, abort, restore, answers |
| `FileSearch` | three boxes with timers and generations | type, timer, answers, take, project switch |
| `FileResultTree` | an answer, directory listings, folded directories | build, fold, arrow keys |

### Operations, terminals, registry and audio (`MCTools`)

| Module | State | Actions |
|---|---|---|
| `FileIndexScan`, `AgentPackages`, `ReleaseUpdates`, `SkillsScan` | cards of the page, timers and calls; the hub's one operation | scan, refresh, poll, act, confirm, answers, failures |
| `SkillPanel` | source input, list, ticks, dialog, detail cache | type, list, tick, confirm, open details |
| `ApkUpdate` | card, bridge request, download threads of the Android shell | check, install, timeout, events |
| `TerminalSync` | run and sequence on hub and page, snapshot in flight, buffer, emulator | output, loss, snapshot, restart, close, hide |
| `TerminalResize` | size and owner token at the hub, sizes of the pages, the goroutines that still have to publish | fit, claim, resize, publish, answers and events in any order |
| `RegistryCalls` | calls of the page, registry workers and forwards, hub work | start, dispatch, forward, answer, timeouts, closes, retries |
| `PortRelay` | slot, listener, tunnel; settings of each device | enable, disable, poll, new code, targets |
| `VoiceInput`, `VoiceButton`, `PcmStream` | microphone, buffer, send queue, streams; the press; samples and chunks | record, start loop, finish, cancel, events, drops; pointer events; blocks |
| `TtsPlayback` | segments, fetches, player, elements it has lost | read aloud, answer, play, stop, late rejections and ends of lost elements |

## 3. Runs

`MCTurnRecorder` and `MCTurnFiles` give the recorder and the files their model values. The
three modules `MCChat`, `MCWorkspace` and `MCTools` instantiate the modules above several
times each, with different constants. The instances share no variable, so a run explores them
**side by side**: the variable `part` names the instance a behaviour is about and all
others keep their initial state; the state space of a run is the sum, not the product,
of its instances. A property of such a run is a conjunction over the instances of
named properties of their modules, each stated and explained where it is defined; the
comment above the conjunction says what it means for the program.

| Run | What is explored | What it shows |
|---|---|---|
| `recorder_core` | all update kinds, two tool calls, compaction, six turns, no failures, no unlocked callers | publishing, persistence and projection agree (`UnfinishedTail`, `SealBeforeNext`, `RowMatchesFiles`, `LiveTurnsFollowFiles`, `PublishedIsPersisted`, `IdleIsSettled`) |
| `recorder_faults` | one client calling markRead, rename and session.read at any time, and compaction; in the behaviours without them, two failing writes and one crash anywhere; five turns | a published `prompt_done` is in the files (`DoneIsDurable`), cursors name `prompt_done` turns (`CursorsNameDoneTurns`), a read has at most an unfinished tail (`ReadTail`) |
| `recorder_mark_race` | one client, no compaction | *violation*: a stale save of the row undoes `latestPersistedTurnIndex` |
| `turn_files` | two turns per file, three files, contents of one and two bytes, batches of up to two, one failing operation, one kill or power loss | stored turns stay readable, the next slot is free, only files being created block, and the files implement `TurnLog` |
| `lifecycle_archive_again` | one job, two archives | *violation*: a restored session that is archived again is in no place |
| `chat_late_answer` | `ChatSync` with one late answer | *violation*: an answer that a seal overtook opens the turn again |
| `chat` | 26 instances of the chat modules | the store keeps the log, prompts are executed once for each time they are sent, composers keep their content, rows, lists and searches are what they claim, no session is lost up to its second archive |
| `chat_live` | 7 instances, fair | the page catches up with the hub, the composer comes free |
| `workspace` | 20 instances | what strands a page, leaves the file view on another file or the explorer on another project is limited to the steps of section 4; storage survives, the other panes show what was asked for last |
| `workspace_live` | 5 instances, fair | the connection returns and every pane settles |
| `tools` | 24 instances | operations are shown while they run, terminals agree (up to section 4), calls are their own, recording is complete, playback in order |
| `tools_live` | 9 instances, fair | operations are seen to their end, streams end |

### Bounds

The bounds count what makes a case interesting, and are named constants of the modules.
Recorder: `MaxTurn` lets two prompts with updates, or a prompt, an interrupted prompt and
a compaction, fit in one behaviour; `MaxRev` = 2 lets every turn be merged into once,
which is enough to tell a merged content from the first; two faults allow a failing
finish followed by a failing retry; one client is enough because each race is between
one stale copy and the lock holder. The constraint `FaultsOrRaces` of
`MCTurnRecorder` keeps faults and compaction apart, because together they break `DoneIsDurable`
(section 4), and faults and calls under way or a rename, because together they are too many states;
the theorems about these properties have faults and calls at once. Files: three files give a first, a full middle and a
growing last one. Page: two projects (one to leave, one to arrive at), one or two
sessions, two or three overlapping calls (one overtaken by another), one lost connection,
one or two failing calls, one reload: a race needs two actors and one fault, and each
instance has at least these for the handlers it is about. Where all of them together
would be too many states, several instances share them out (`Ops` sets, `Late`, `Wide`,
`Reorder`): the names of the instances and the comments above them say which. The tool calls
of the recorder are symmetric; nothing else uses symmetry.

`CHECK_DEADLOCK FALSE` is set in the runs of the three side-by-side modules and for
`lifecycle_archive_again` and `chat_late_answer`: with the bounds used up, a page at rest has nothing to do.

### Fairness

Only what the code or its runtime guarantees is assumed fair, as weak fairness unless the
step can be disabled again and again by others: a request is answered or rejected by
its timer (`RegistryClient` sets one for each), delivered events are handled, effects run
after their render, timers fire, the operation of a hub ends, audio that plays comes to
its end, the silent reconnect tries again. Strong fairness is used for the timer of the skills
page, for the calls of the file index and for the answers of a release check, whose step
can be disabled meanwhile by another refresh. The user, other devices, failures, losses and
crashes are never fair. The hub of `RegistryCalls` need not answer at all.

## 4. Where code and documents differ

Three differences are kept as runs that must find a violation:

1. *Stale save of the row* (`recorder_mark_race`). `MarkSessionRead` and `RenameSessionTitle`
   save a row they loaded outside `writeMu`. If a prompt is persisted in between, the
   row counts fewer turns than the files have, and `WriteTurns` refuses every later batch.
   A crash between `WriteTurns` and `SaveSession` leaves the same state.
2. *Archive again* (`lifecycle_archive_again`). Restore keeps the archive entry, marked as
   restored; archiving the session a second time finds the entry, writes nothing
   to the pack and drops the row and the files.

3. *Late answer* (`chat_late_answer`). The hub answers each `session.read` from a goroutine of
   its own, so an answer computed before a seal may be sent after it. `applySessionReadResult`
   removes the finished turns in the range of the answer and takes its unfinished one: the page
   shows the turn open again, the finished turns after it are cut off by `getDurableTurnPrefix`,
   and no read is requested.

The others were met while modelling. Some have their cause switched on in the passing runs, and
the property checked there says exactly how far the code keeps the document, and by which steps
alone it is broken: these are marked **delimited**, with the name of the delimiting property. The rest name a
property of the module that states what the document says and that some instance violates:
"Not kept by the code" in the modules where it holds on no interesting instance, otherwise the
passing runs switch the cause off (`SlowRelease`, `MaxVoice`, `MaxForeign`, `Reorder`, `Ops` and
the like) and the comment above the checked property says so.

**TurnRecorder**

* `ReadContiguous`: ReadSessionTurns reads the row and the files before it takes writeMu for the live turns. When a prompt is persisted and the next one starts in between, the result holds the old persisted prefix and the new prompt's turns, without the turns persisted meanwhile. (`session_recorder.go:563`; `docs/session-management-and-sync.zh-CN.md:150`)
* `ReadCursorMonotone`: Handlers save the row they loaded, with the read cursor it had then; a markRead that saves in between is undone. (`session_recorder.go:902`; `docs/session-management-and-sync.zh-CN.md:161`)
* `DoneIsDurable`: After a failed artifact write the unpersisted turns keep their indices while a compaction persists operation turns under the same ones. The next prompt start finishes the old prompt, finds nothing beyond latestPersistedTurnIndex to write, and publishes prompt_done although that turn is in no file. (`session_recorder.go:811`; `docs/session-management-and-sync.zh-CN.md:585`)

**ChatSync**

* `SealReplacesLive`: the run `chat_late_answer` above. **Delimited** by `FinishedStaysStep` (nothing but such an answer, a hub restart or a page reload takes a finished turn back) and `QuiescentComplete` (until an answer is overtaken, a read fails or the hub loses turns, a quiet selected session shows the whole log). (`chat/turns/chatTurnStores.ts:199`; `docs/superpowers/specs/2026-05-18-turn-first-chat-sync-state-display-spec.md:229`)
* `QuiescentComplete` after a failed read: both callers report the error and return, and nothing repeats the read until the chat is selected again or a gap is seen. (`app/WorkspaceApp.tsx:10080`; `docs/superpowers/specs/2026-05-18-turn-first-chat-sync-state-display-spec.md:297`)
* `SealedIsFinal` after a hub restart: indices of turns the hub had not written go to other turns, and the client keeps the old ones as finished until a read finds the hub behind its cursor. (`chat/turns/chatTurnStores.ts:90`)
* `UnloadLosesNothing`: flushAll and flush have no caller outside the 5 s timer, so finished turns received within it are not in the cache when the page goes away. (`chat/turns/chatDurablePersist.ts:27`; `docs/superpowers/specs/2026-05-18-turn-first-chat-sync-state-display-spec.md:267`)
* `SavedCursorIsDurable`: session.updated saves the in-memory cursor with the session summary while the turns wait for the 5 s timer, so cursorJson is ahead of turnsJson. (`app/WorkspaceApp.tsx:16422`; `docs/superpowers/specs/2026-05-18-turn-first-chat-sync-state-display-spec.md:247`)

**ChatPrompts**

* `UndeliveredStays`: The hub publishes prompt_done before endExecution releases the session, so the queued prompt that is sent on prompt_done can be refused as busy. It becomes the pending undelivered prompt, which does not stop the drain effect: the next queued prompt is sent at once and rememberPendingChatPrompt replaces the undelivered one. (`app/WorkspaceApp.tsx:11162`; `docs/scope/2026-06-18-chat-prompt-queue/spec-chat-prompt-queue.md:31`)
* `LossIsShown`, and **delimited** in `QueueDrains`: drainNextQueuedChatItem takes the prompt out of the queue and calls sendChatMessage, whose first statement returns while voiceAwaitingFinalRef is set: the prompt is neither sent nor pending. (`app/WorkspaceApp.tsx:11276`; `docs/scope/2026-06-18-chat-prompt-queue/spec-chat-prompt-queue.md:30`)
* `LossIsShown`: Any prompt_request of the session calls forgetPendingChatPrompt, so the prompt of another client confirms the pending prompt of this one; the busy error that follows finds no pending prompt and is not reported. (`app/WorkspaceApp.tsx:16502`; `docs/scope/2026-06-18-chat-prompt-queue/spec-chat-prompt-queue.md:31`)
* `BlameOwnCallStep` (**delimited**): session.send is answered when the prompt has ended. Its 30 s timer can fire after prompt_done, when the next queued prompt is already pending under the same runtime key: the catch block marks that prompt undelivered. The other way is the late answer of a prompt whose 5 s timer had shown it as undelivered; there is no third, with expiries, retries and drops on. (`app/WorkspaceApp.tsx:11216`; `docs/scope/2026-06-18-chat-prompt-queue/spec-chat-prompt-queue.md:31`)
* `OneCompact`: A drained compaction that is refused as busy is put back with enqueueChatItemToFront, which does not look for the compaction the user queued meanwhile. (`app/WorkspaceApp.tsx:11267`; `docs/scope/2026-07-14-codex-session-actions/plan-codex-session-actions.md:329`)

**Connection**

* `NotStranded` (**delimited** by `StrandedStep`, with hiding, offline and logout on): disconnectForSupervisor sets supervisorManagedCloseRef and calls service.close(), which runs no close listener when the service has no client (before the first connect, or offline followed by background). The flag stays set, and the next unexpected close of a later connection returns early from onClose: no reconnect is scheduled and no message is shown. (`app/WorkspaceApp.tsx:12500`; `app/__tests__/web-reconnect-fallback.test.ts:5`)
* The other way to be stranded, also in `StrandedStep`: a page that was sent back to the login checks its session once more and finds it valid, but autoConnectTriedRef is still set, so nobody connects; the connect page is shown.
* `HiddenIsClosed`: disconnectForSupervisor closes the current client only; a connection attempt that is in flight when the page is hidden completes and leaves the hidden page connected. (`app/WorkspaceApp.tsx:12512`; `app/__tests__/web-pwa-connection.test.ts:32`)

**PreviewWorkbench**

* `ClickIsShown`: openChatAttachmentPreview begins a load of the tab only for images; for any other attachment the tab never learns the request number and updatePreviewTabAfterLoad drops the answer, so a tab whose restored load failed keeps its error whatever a new click reads. (`app/WorkspaceApp.tsx:8849`; `docs/superpowers/plans/2026-06-11-chat-sent-attachment-preview.md:5`)

**ProjectTree**

* `TreeIsOfProject` (this and the next two **delimited** by `ForeignStep`): loadDirectory puts its answer into dirEntries without asking whether the project is still the one it was called for; after a project switch the listing of the previous project appears in the tree of the next. (`app/WorkspaceApp.tsx:8241`; `docs/superpowers/specs/2026-05-18-workspace-project-lightweight-sync-design.md:100`)
* `CacheIsOfProject`: validateExpandedDirectories lists each directory with service.listDirectory, for whatever project is selected by then, and caches the result under the project it was called for. (`workspace/WorkspaceController.ts:83`; `docs/superpowers/specs/2026-05-18-workspace-project-lightweight-sync-design.md:98`)
* `ServiceFollowsPage`: refreshProject calls service.selectProject for the project it started with; when the user switched meanwhile the service is left on the old project while the page shows the new one. (`app/WorkspaceApp.tsx:16153`; `docs/superpowers/specs/2026-05-18-workspace-project-lightweight-sync-design.md:31`)

**FileView**

* `ShowsSelected` (this and the next **delimited** by `ViewSpoiltStep`, with reconnects and tab toggles on): connect() sets skipNextSelectedFileAutoReadRef before it reads the selected file; after a silent reconnect project and file are unchanged, the effect that would reset the flag does not run, and the next file the user chooses is not read: the view keeps the content of the previous one. (`app/WorkspaceApp.tsx:12377`; `app/__tests__/web-file-pin.test.ts:5`)
* `SpinnerHasRead`: Switching projects from the Chat tab moves fileReadSeqRef on and skips the read of the new project's file; the overtaken read no longer ends fileLoading, so the File tab shows "Loading file..." until another file is chosen. (`app/WorkspaceApp.tsx:14499`; `docs/superpowers/specs/2026-05-18-workspace-project-lightweight-sync-design.md:99`)

**VoiceInput**

* `RecognizingEnds`: finishVoiceInput does not look at the generation after speech.finish: when the input was cleared meanwhile (chat switch, early final, error event) it sets voiceAwaitingFinalRef again and arms a timer for the old generation, which completeVoiceInputFinalizing ignores. The voice button stays disabled and sendChatMessage is refused. (`app/WorkspaceApp.tsx:11812`; `docs/superpowers/specs/2026-05-29-voice-input-state-machine-design.md:257`)
* `SurvivesClose`: clearVoiceStreamStateForReconnect cancels the send queue; the chunks behind the one in flight reject with "voice input send queue cancelled", which is not retryable while the generation is still active, so handleVoiceChunkSendFailure cancels the whole input. (`app/WorkspaceApp.tsx:11544`; `docs/superpowers/specs/2026-05-29-voice-input-state-machine-design.md:166`)
* `TextKept`: handleVoiceChunkSendFailure calls cancelVoiceInput, which restores the text from before the recording. (`app/WorkspaceApp.tsx:11557`; `docs/superpowers/specs/2026-05-29-voice-input-state-machine-design.md:232`)
* `TextStaysInChat`: After a disconnect while recognizing the stream id is empty, so selecting another chat does not cancel the input, and the final timeout writes its text into the composer of the chat that is selected by then. (`app/WorkspaceApp.tsx:12087`; `docs/superpowers/specs/2026-05-29-voice-input-state-machine-design.md:233`)

**VoiceButton**

* `ReleaseKeepsInput`: A press that is released before onStart settles waits with pendingAction "lock", but the click that follows is suppressed for 800 ms only: after a longer press onClick clears the pointer and calls onFinish. (`features/speech/VoiceInputButton.tsx:378`; `docs/superpowers/specs/2026-05-29-voice-input-state-machine-design.md:130`)

**GitView**

* `FirstOpenLoads`: loadGitIfRevChanged returns when gitRevCheckInFlightRef is set, and a check that belongs to the previous project and finds nothing to do changes no state, so no effect runs again: the Git tab of the new project stays empty. (`app/WorkspaceApp.tsx:9484`; `docs/superpowers/specs/2026-05-18-workspace-project-lightweight-sync-design.md:105`)
* `NoForeignDiff`: The diff effect calls setDiffText after its await without asking whether the project or the selection is still the same. (`app/WorkspaceApp.tsx:9584`; `docs/superpowers/specs/2026-05-18-workspace-project-lightweight-sync-design.md:178`)
* `NoForeignCommits`: loadGit asks listGitCommits of whatever project the service has selected after the first await, and marks the project of its start as loaded: after a switch away and back the list holds the other project's commits and the revision check skips the reload. (`app/WorkspaceApp.tsx:9413`; `docs/superpowers/specs/2026-05-18-workspace-project-lightweight-sync-design.md:100`)

**PortRelay**

* `KnownCodeIsTheSlots`: regeneratePortRelayAccessCode shows the new code before the registry answers; when the request fails the generation still matches and the code is shown and copied as current. (`app/WorkspaceApp.tsx:13022`; `docs/superpowers/specs/2026-05-22-registry-port-relay-design.md:148`)
* `KnownCodeIsTheSlots`: Disable clears the slot with its AccessCodeGeneration, so the next Enable starts at generation 1 again and another device takes its old code for the current one. (`server/internal/portrelay/types.go:275`; `docs/superpowers/specs/2026-05-22-registry-port-relay-design.md:148`)
* `SavedIsShown`: applyPortRelaySnapshot saves the targets its closure saw when the poll was sent, and does not set the state when they did not change: a target added or deleted meanwhile is undone in the saved settings. (`app/WorkspaceApp.tsx:12753`; `docs/superpowers/specs/2026-05-22-registry-port-relay-design.md:527`)
* `ComesUp`: When hub.relay.open is refused Enable closes the listener but leaves it in c.listener, and the next Enable with the same port reuses it: the hub cannot connect. (`server/internal/portrelay/types.go:256`; `docs/superpowers/specs/2026-05-22-registry-port-relay-design.md:206`)
* `UpMeansReachable`: An Enable whose open is refused closes its listener although a later Enable uses the same one and is Up. (`server/internal/portrelay/types.go:256`; `docs/superpowers/specs/2026-05-22-registry-port-relay-design.md:128`)

**SessionSearch**

* `SearchesSucceed`: The effect polls as soon as the search id is set, while the start requests are under way; the hub serves each request in a goroutine and start registers the task only after it listed the sessions, so the query can come first, fails with "not found" and the project counts as done. (`app/WorkspaceApp.tsx:5347`; `docs/superpowers/specs/2026-05-26-session-search-design.md:5`)
* `SearchFinishes`: Answers are applied in the order they arrive; startSessionSearch queries beside the poll, so an older answer with done=false can undo done=true after the poll has ended. (`app/WorkspaceApp.tsx:5234`; `docs/superpowers/specs/2026-05-26-session-search-design.md:153`)
* `ClosedStaysClosed`: startSessionSearch goes on after the await of the cancel without asking whether the search was closed meanwhile. (`app/WorkspaceApp.tsx:5299`; `docs/superpowers/specs/2026-05-26-session-search-design.md:175`)
* `NoOrphanTask`: Two submits before the first await ends both read the same previous id: the task of the first stays at the hub until it expires. (`app/WorkspaceApp.tsx:5293`; `docs/superpowers/specs/2026-05-26-session-search-design.md:136`)

**RegistryCalls**

* A change that is repeated (**delimited** by `AppliedOncePerTry`): the registry answers TIMEOUT (and INTERNAL when the hub connection ends), which the protocol calls retryable, while the hub goes on with the request; repeated after such an answer the change may be applied once for each call, and never more often. After NOT_FOUND and busy nothing was applied (`RefusedChangesNothing`). (`server/internal/registry/server.go:1374`; `docs/registry-protocol.md:523`)
* `OfflineIsUnavailable`: unregisterHub removes the projects together with the connection, so a request for an offline hub finds no project and gets NOT_FOUND; the branch for UNAVAILABLE cannot be reached. (`server/internal/registry/server.go:1343`; `docs/registry-protocol.md:521`)

**SessionLifecycle**

* `DeletedStaysDeleted` (**delimited**: it asks that no request was served beside the delete): persistSession saves with an upsert and no check that the session still exists, so a snapshot or an eviction that took the session before the delete writes the row again after it. (`session.go:956`; `docs/superpowers/specs/2026-06-03-session-archive-recover-design.md:23`)

* `OneHome` (**delimited** by `cut`): a crash or a failing delete of the row between the archive entry and the row of an archive, or between the row and the mark of a restore, leaves the session both active and archived. (`client.go:1066`; `docs/superpowers/specs/2026-06-03-session-archive-recover-design.md:13`)
* `RowHasFiles` (**delimited** by `torn`): when the manifest cannot be marked, RestoreArchivedSession ignores the errors of the two deletes of its rollback, so a row may be left whose turns are gone from the files (they still are in the archive). (`client.go:1243`)

**SessionAdmin**

* `OneBatch`: requestArchiveOlderSessions sets the progress to null when it finds no candidates, also while a batch runs; the guard of handleArchiveBatch then lets a second batch start, and both call session.archive for the same sessions. (`app/WorkspaceApp.tsx:10696`; `docs/superpowers/specs/2026-06-03-session-archive-recover-design.md:54`)
* `RemovedStaysRemoved`: mergeChatSessionList replaces the list by the answer, however old it is, so a list asked for before an archive brings the session back (and may select it). (`app/WorkspaceApp.tsx:10127`; `docs/superpowers/specs/2026-06-03-session-archive-recover-design.md:135`)
* `PreviewIsSelected`: loadArchivedSessionPreview applies the answer without checking that its row is still selected. (`app/WorkspaceApp.tsx:10800`; `docs/superpowers/specs/2026-06-03-session-archive-recover-design.md:180`)
* `CancelClears`: enterArchivedMode and loadArchivedSessionPreview apply their answers after exitArchivedMode. (`app/WorkspaceApp.tsx:10776`; `docs/superpowers/specs/2026-06-03-session-archive-recover-design.md:168`)

**FileIndexScan**

* `ScanIsSeenToEnd`: refreshProjectFileIndexes clears the one poll timer whatever hubs it was set for, and asks only for its own; the scan of the other hub is not polled any more. (`app/WorkspaceApp.tsx:13597`; `docs/superpowers/specs/2026-06-03-file-mention-index-design.md:156`)
* `ScanAllLimit`: The workers wait for rebuildFileIndex, which the hub answers as soon as it has started the scan (file_index.go:201). (`app/WorkspaceApp.tsx:14196`; `docs/superpowers/specs/2026-06-03-file-mention-index-design.md:89`)

**AgentPackages**

* `OperationIsSeenToEnd`: A scan that fails or runs into the 65 s timeout does not count as running, so no timer is set and the card keeps its operation as running, with its buttons disabled. (`app/WorkspaceApp.tsx:13555`; `docs/superpowers/specs/2026-05-19-agent-npm-update-settings-design.md:122`)

**SkillsScan**

* `OperationIsSeenToEnd`: A scan that fails does not set the timer again, so the card keeps its operation as running, with every button of the hub disabled, until the page is refreshed by hand. (`app/WorkspaceApp.tsx:13762`; `docs/superpowers/specs/2026-05-20-skills-settings-management-design.md:256`)

**SkillPanel**

* `InstallsNamesOfSource`: The dialog takes the source from the input as it is typed now and the names from the list of the source that was typed before, so it asks to install names that its source does not have. (`app/WorkspaceApp.tsx:13935`; `docs/superpowers/specs/2026-05-20-skills-settings-management-design.md:253`)

**TerminalSync**

* `ShowsEverything`: The refresh for the new run is dropped because one is in flight, and its answer puts the old run back; the page shows the old run until the new one writes something. (`app/WorkspaceApp.tsx:15190`; `docs/scope/2026-07-12-interactive-terminal/spec-interactive-terminal.md:168`)
* `ClosedIsRemoved`: applyTerminalSnapshot adds the terminal again when it was closed while its snapshot was under way; it stays in the tabs, and opening it fails. (`terminal/terminalSync.ts:201`; `docs/scope/2026-07-12-interactive-terminal/spec-interactive-terminal.md:170`)
* `ScreenIsFaithful` (this and the next **delimited** by `spoilt`, which only they and a remount during the parsing set, and the next snapshot clears): The state is committed as attached before the snapshot is parsed, so an output event is written to the emulator before the buffered ones. (`app/WorkspaceApp.tsx:15199`; `docs/scope/2026-07-12-interactive-terminal/spec-interactive-terminal.md:145`)
* `ScreenIsFaithful`: The effect that fetches a snapshot does not run when the panel is mounted again by a tab switch; output is appended to an empty emulator. (`app/WorkspaceApp.tsx:15234`; `docs/scope/2026-07-12-interactive-terminal/spec-interactive-terminal.md:168`)
* `LoadingEnds`: A gap asks for a refresh while the one before still waits for the emulator: the request is dropped and the terminal stays loading, with input refused. (`app/WorkspaceApp.tsx:15190`; `docs/scope/2026-07-12-interactive-terminal/spec-interactive-terminal.md:118`)

**TerminalResize**

* `OwnerFits`: The answer to an earlier resize is written to the emulator and to lastSizeRef; a report that runs just then finds the emulator at the size of the screen and does not resize, and the next answer puts the old size back. (`terminal/TerminalView.tsx:228`; `docs/scope/2026-07-12-interactive-terminal/spec-interactive-terminal.md:149`)
* `OwnedOnRequest`: A page that shows the terminal at another size claims it, and so does one whose resize was refused. (`app/WorkspaceApp.tsx:15289`; `docs/scope/2026-07-12-interactive-terminal/spec-interactive-terminal.md:24`)
* `SameSize` (**delimited** by `overtaken`): Resize publishes its change from a goroutine of its own and the page applies the answer to a resize whatever was received since, so one that arrives after the event of a later resize leaves the page at the earlier size. (`app/WorkspaceApp.tsx:15305`; `docs/scope/2026-07-12-interactive-terminal/spec-interactive-terminal.md:150`)

**TtsPlayback**

* `PlaybackEnds`: atob of an answer that is not base64 rejects the fetch, the rejection ends play() and is swallowed by the caller, and the state stays at loading or playing. (`features/tts/ttsPlayback.ts:157`; `features/tts/ttsPlayback.ts:45`)
* `OneAudio` (**delimited** by `stray`): `done` clears this.audio without looking whose it is, so the late rejection of a play() that a stop interrupted makes the player forget the element of the next session, which no stop can pause then. (`features/tts/ttsPlayback.ts:271`)

**FileSearch**

* `TakenInOwnProject` (**delimited** by `MixedStep`, with two projects): Selecting a chat neither closes the mention menu nor drops its results or its call; applyChatFileMentionResult then puts a path of the first project into the composer of the second. (`app/WorkspaceApp.tsx:4469`; `docs/superpowers/specs/2026-06-03-file-mention-index-design.md:26`)
* `TakenWasShown`: Enter reads chatFileMentionResults, which keep the answer of the former query while the menu shows "Searching...". (`app/WorkspaceApp.tsx:19469`; `docs/superpowers/specs/2026-06-03-file-mention-index-design.md:221`)

**Attachments**

* `SentStays`: finish writes a new sidecar over the one of an artifact that exists, and the new one is not marked sent, so the delete of the second, unsent tile removes the file of the sent prompt. (`session_attachments.go:636`; `docs/superpowers/specs/2026-06-11-chat-sent-attachment-preview-design.md:245`)
* `NothingRemovedIsSent`: uploadChatAttachmentsForSend goes through the list captured at the send, while queued and completed tiles keep their remove button; a tile removed meanwhile is uploaded and sent. (`app/WorkspaceApp.tsx:4684`; `docs/superpowers/specs/2026-05-26-chat-attachment-upload-design.md:78`)
* `PartsAreRemoved`: cleanupExpiredLocked runs only inside start, chunk, finish and cancel and knows only the records in memory. (`session_attachments.go:793`; `docs/superpowers/specs/2026-05-26-chat-attachment-upload-design.md:277`)

**DraftSessions**

* `SentOnce`: applyDraftSessionCreateSuccess moves composer, pending and queued prompts to the real session, but not the submitting flag, which moves only when the answer of session.create has come; the hub publishes session.updated before it answers. (`app/WorkspaceApp.tsx:3786`; `app/__tests__/web-chat-ui.test.ts:2369`)

**ChatIndex**

* `Converges`: rememberProjectSessionList replaces the list by the answer, and nothing compares it with what events brought since the hub made it. (`app/WorkspaceApp.tsx:16185`; `docs/superpowers/specs/2026-05-16-multi-project-chat-index-and-turn-window-design.md:90`)
* `Converges`: registry.project.report adds the project and asks for nothing; only the wide layout lists the sessions of a new project. (`app/WorkspaceApp.tsx:16387`; `docs/superpowers/specs/2026-05-16-multi-project-chat-index-and-turn-window-design.md:90`)
* `FullFollowUpRuns`: An error of project.list leaves the loop without a look at the dirty flag. (`app/WorkspaceApp.tsx:16284`; `docs/superpowers/specs/2026-05-16-multi-project-chat-index-and-turn-window-design.md:106`)
* `OneListPerProject`: The effect of the wide layout calls listProjectSessions for every project, past the in-flight flags of refreshChatProjectSessions. (`app/WorkspaceApp.tsx:5442`; `docs/superpowers/specs/2026-05-16-multi-project-chat-index-and-turn-window-design.md:104`)

**RecentSessions**

* `UnreadFirst`: isPriorityQuickSwitchSession asks for unreadCount, which no hub sends, while the dot compares lastDoneTurnIndex with lastReadTurnIndex: an unread session has no priority. (`chat/mobileChatQuickSwitch.ts:39`; `docs/superpowers/specs/2026-06-06-chat-quick-switch-unread-create-design.md:97`)

**ChatDisplay**

* `CopyGapDisabled`: buildPromptDoneCopyRange asks only that every turn index is held, and a gap turn has one. (`chat/chatCopyRange.ts:70`; `docs/superpowers/specs/2026-05-18-turn-first-chat-sync-state-display-spec.md:437`)
* `GapHasRow`: A gap turn has no text, and shouldRenderChatTurn renders no turn without. (`app/WorkspaceApp.tsx:1628`; `docs/superpowers/specs/2026-05-18-turn-first-chat-sync-state-display-spec.md:465`)
* `IdleIsSeen`: The started turn of a compaction is persisted at once, and after a restart of the hub nothing writes the second: the client takes the session as running, and queues. (`app/WorkspaceApp.tsx:18337`; `docs/scope/2026-07-14-codex-session-actions/spec-codex-session-actions.md:20`)

## 5. Proofs

Eight modules hold theorems: five proof modules beside their components, and three components
(`DraftSessions`, `TtsPlayback`, `TerminalResize`) that carry their proofs at the end. They prove, for all
values of the constants that satisfy the assumptions of the module they are about, what the runs check on
an instance: sets are arbitrary, bounds are any natural numbers, the number of slots of a file is any
positive one. `TurnRecorder` and `TurnFiles` assume this (`ConstantsAssumption`, `FilesAssumption`); the
modules that `MCChat` and `MCTools` instantiate state it as an operator (`ConstantsAssumption` of
`ChatSync`, `LifecycleConstants`, `CallConstants`, `DraftSessionsConstants`, `TtsConstants`), which is a
hypothesis of their theorems.

### TurnRecorderProofs

| Theorem | Statement |
|---|---|
| `TypeCorrect` | `Spec => []TypeOK` |
| `OpenTurnIsLastAlways` | `Spec => []OpenTurnIsLast` |
| `UnfinishedTailAlways` | without compaction, `Spec => []UnfinishedTail` |
| `SealBeforeNextAlways` | without compaction, `Spec => SealBeforeNext` |

`TypeOK` is not inductive. `activeOps` stays a natural number only because an operation
ends only when one is counted, and a finish takes the last turn of a state that is
never empty. `CoreInv` therefore adds `LockShape` (what each step of the lock holder may
assume: a finish holds a state that ends in `prompt_done`, an operation belongs to a
compaction that is counted) and `StateShape` (indices of the state increase by position,
the next index follows the last, only the last turn is open).

`UnfinishedTail` speaks of published turns. `PublishInv` adds `ViewShape` (published turns lie
below the state or equal its turns; without a state all are finished and lie below the
index the next prompt will get), `FreshCopies` (as long as the next index would be
computed from the row, no copy that may still be saved differs from it in
`latestPersistedTurnIndex`, which is why stale saves do no harm here) and `LiveStart`. With
compaction the property really fails after a fault, because an operation turn takes an
index that live turns hold, hence the hypothesis `~CanCompact`.

The lemmas follow the code: what `UpdateTurn`, sealing, `AddMessageTurn` and finishing do to
a well-formed state, what publishing does to a view, then one lemma per group of
actions.

The second half of the module relates memory, row, files and subscribers.

| Theorem | Statement |
|---|---|
| `ReadTailAlways` | `Spec => []ReadTail`, whatever the constants |
| `DoneIsDurableAlways` | without compaction, `Spec => []DoneIsDurable` |
| `CursorsNameDoneTurnsAlways` | without compaction, `Spec => []CursorsNameDoneTurns` |
| `RowMatchesFilesAlways` | undisturbed, `Spec => []RowMatchesFiles` |
| `LiveTurnsFollowFilesAlways` | undisturbed, `Spec => []LiveTurnsFollowFiles` |
| `PublishedIsPersistedAlways` | undisturbed, `Spec => []PublishedIsPersisted` |
| `IdleIsSettledAlways` | undisturbed, `Spec => []IdleIsSettled` |
| `UnfinishedTailSettled` | undisturbed, `Spec => []UnfinishedTail` |
| `SealBeforeNextSettled` | undisturbed, `Spec => SealBeforeNext` |

*Reads.* `ReadTail` is preserved with `StateShape`: the answer is the files, all finished, and
the live turns, of which only the last is open and has the largest index.

*Durable ends* (`DurableInvariance`). Faults, crashes and any number of unlocked
clients are allowed. `DoneIsDurable` needs to know that the `prompt_done` a finish will publish is
on its way to the files, and that no copy of the row hides it. `DurableInv` says so step by step
(`DoneOnItsWay`: below the index when the row is loaded, the last of `todo` while writing, in
the files afterwards), bounds `latestPersistedTurnIndex` in every copy that may still be saved
(`LatestBelow`), and follows the cursors through those copies (`CursorCopies`). `~CanCompact` is needed: after a
fault an operation turn takes the index of a live turn, and the finish then skips it as
persisted.

*Settled sessions* (`SettledInvariance`). `Undisturbed` says `MaxFaults = 0`, `MaxCrashes = 0`
and no unlocked caller; compaction is allowed. The hypothesis is the one of `recorder_core`, and cannot be
dropped: `recorder_mark_race` shows the row falling behind the files after one unlocked save,
and a fault or crash between the file write and the row save does the same. `SettledInv` has
three parts. `Execution`: the recorder's live state, its operation count and the handler at
work agree with what the `Session` executes, so that no prompt starts over a live one.
`Numbering`: live turns, next index, the row, its loaded copy and the turns to write are
numbered without a hole from the end of the files, at each step of a handler.
`Publication`: what subscribers hold is live or is in the files as it was published. The
relation `Carries(s, e, r)` (the state `r` keeps the indices of `s`, changes only turns that the
events `e` publish, and adds at most the next one) is proved once for sealing, appending, merging and
finishing, and gives `Publication` for every handler.

### TurnFilesProofs

| Theorem | Statement |
|---|---|
| `TypeCorrect` | `Spec => []TypeOK` |
| `NextSlotIsFreeAlways` | `Spec => []NextSlotIsFree` |
| `OnlyNewFilesBlockAlways` | `Spec => []OnlyNewFilesBlock` |
| `ReadsNeverFailAlways` | `Spec => []ReadsNeverFail` |
| `FilesImplementLog` | `Spec => ImplementsLog` |

None of the three invariants is inductive: they say nothing about the disk, and a power loss puts
the disk back. The inductive invariant is `FilesInv == TypeOK /\ FilesOK /\ CallOK`. `FilesOK`
says of every file, in memory and on disk, that one without a valid header is empty and that
every used slot lies inside the body and holds one of the contents (`FileOK`); that
the disk has every byte a slot points to, even a slot that is not synced yet (`BackedBy`);
and that no turn is at or behind a file whose header was never synced. `CallOK` says what each step
of a call may assume: no turn lies behind the file being written, `cur` is the turn after the last one and belongs in
the first empty slot, the content follows the slots' bytes once it is
written, and is on disk before its slot is. The lemmas come in three layers: arithmetic of files
and slots (`Position`, `NextPosition`: the product `k * SlotsPerFile` is kept away from the
solver), what each file operation does to a file (`BodyReplaced`, `SlotAppended`,
`SurvivorFacts` for a power loss), and one lemma per action.

*The log.* `FilesImplementLog` is `Spec => ImplementsLog`: the detailed files refine `TurnLog` with
`log <- LogNow` (what reading every turn in order returns) and `synced <- SyncedNow` (how many of
them the disk is certain to have), for every number of slots per file and every bound. The steps correspond
as follows.

| Step of `TurnFiles` | Step of `TurnLog` |
|---|---|
| `WriteTurns` | `Submit` |
| `OpenFile`, `InitHeader`, `WriteBody`, `DeleteTurns`, `DeleteEnds` | stutter |
| `WriteSlot` | `AppendNext` |
| `SyncBody` | stutter, or `Sync` (it also syncs slots of an earlier call) |
| `SyncSlot` | `Sync` |
| `Fails`, `Killed` | `Abandon` |
| `RemoveFile` | `Erase` |
| `PowerLoss` | `Lose` |

Each step uses `FilesInv` before and after it. `KeptTurns` says when a turn reads the same in two
states of the files, `SameLog` that the log is then the same, `ReducedLog` what is left of it when a
file is removed or turns are lost, `SyncedGrows` that a sync never lowers the synced length.

### RegistryCallsProofs

The module `RegistryCalls` is instantiated by `MCTools`, so its facts about the constants are the
operator `CallConstants`, a hypothesis of every theorem here; the run `tools` checks the same
properties on instances through `CallsAreTheirOwn`.

| Theorem | Statement |
|---|---|
| `TypeCorrect` | `Spec => []TypeOK` |
| `AnswerIsOwnAlways` | `Spec => []AnswerIsOwn` |
| `SlotsAreUsedAlways` | `Spec => []SlotsAreUsed` |
| `RefusedChangesNothingAlways` | `Spec => []RefusedChangesNothing` |
| `AppliedOncePerTryAlways` | `Spec => []AppliedOncePerTry` |
| `DoneWasAppliedAlways` | with `ContentConfirms`, `Spec => []DoneWasApplied` |

None of these is inductive. `CallsInv` adds the following.

* `Routed`: every id the hub or the wire holds is below the next one, and where a forward with that
  id still waits, it waits for the same call. Ids are never used twice, so an answer that comes after
  its forward was dropped meets no other forward; this is all that keeps late answers apart.
* `Started`, `Named`: what phase a call is in where, and which call an operation is named after.
* `Working`, `Refusing`: the hub works only for calls a worker has taken, and a refused call
  was answered before one did. So nothing can be done for it later.
* `Applying`: whatever was applied was applied for a call that was not refused.

`AppliedOncePerTry` allows any repetition, after TIMEOUT and INTERNAL too. `Repeats` counts, for an
operation, the calls that were not refused and for which nothing will be applied any more (`Past`): an
application takes its call from those that may still be applied to these, and no step takes one back, so there are
never fewer of them than applications.

`DoneWasApplied` depends on how an answer is read. A method whose answer is not looked at (shape `raw`
or `none`) is taken for done with whatever fields the hub sends. `ContentConfirms` says that the hub
sends the fields, or that no such method is called; `Confirmed` carries the fact along the wire.

`Bounded` (`fwd` is finite and within `registerPending`'s limit) is a separate induction because
cardinalities need the theorems about finite sets.

### ChatSyncProofs

`ConstantsAssumption` is the only hypothesis of all of them; the run `chat` checks the same on two
instances, one of them with a page reload, a restart, a failed read and a late answer, in `SyncKeepsTheLog` and
`NothingIsTakenBack`.

| Theorem | Statement |
|---|---|
| `TypeCorrect` | `Spec => []TypeOK` |
| `PrefixStoreAlways` | `Spec => []PrefixStore` |
| `DurablePrefixAlways` | `Spec => []DurablePrefix` |
| `RepairMatchesReadAlways` | `Spec => []RepairMatchesRead` |
| `SealedIsFinalAlways` | `Spec => []SealedIsFinal` (until the hub loses turns) |
| `FinishedStaysAlways` | `Spec => [][FinishedStaysStep]_vars` (until the hub loses turns, only a reload or an overtaken answer takes a finished turn back) |
| `QuiescentCompleteAlways` | `Spec => []QuiescentComplete` (until the hub loses turns, an answer is overtaken or a read fails) |

`PrefixStore` is not inductive: that no turn is both finished and live depends on where the turns of an
answer lie. `applySessionReadResult` keeps what lies outside of (`after`, `latest`] and takes the
answer's turns inside; an answer to an older read, applied with the checkpoint of a newer one, would put
turns where the kept ones are. `FlightInv` excludes it: an answer on its way, computed or sent, belongs to
the read that waits for it and lies within its checkpoint (`Fits`), no read has two answers on the way,
and without a connection there are none. This holds because every path that ends or repeats a read
(`EndRead`, `Drain`, `RetryStale`, a closed connection, a reload) comes after its answer has been
taken, or takes it along. The other parts of `SyncInv` are what is proved of the hub's log (`HubInv`:
only the last turn is open), the messages (`WireInv`), the store and the cache (`StoreInv`) and the
reads with the repair queue (`ReadsInv`, which contains `RepairMatchesRead`).

The lemmas about `chatTurnStores.ts` come first. `getFinishedCursor` is a `CHOOSE`; that there is such a
number follows from the least index that is missing or unfinished (`LeastExists`, from the well-foundedness
of the order of the naturals). With it `SettledFacts` gives what every write of the store leaves, and `MergeRealtime`,
`ApplyResult` and `MergeCached` what the three writers do to a sound store, and from where each finished
turn of the result comes (`ComesFrom`).

`SealedIsFinal` follows that origin back to the log. `FinalInv` says of every finished turn, in the store,
in the cache, on the connection and in computed answers, that the log has it; a publication appends, or
changes the last turn when it is open (`PublicationKeepsFinished`), so the log keeps it. It
ends with a restart, which gives the indices of turns the hub had not written to other turns; the
property says so with the budget that is left (`Restarted`).

The last two are about the order on the connection. `OrderInv` compares versions of a turn (`Upto`: the
same, or an unfinished one with an older stamp): what the store and the cache have is not later than what
the messages bring, a message not later than the messages behind it, and none of them later than the log
(`Ahead`). Besides, an answer is the whole log after the checkpoint of its read (`Whole`), and no checkpoint is
beyond the cursor. So an answer cannot replace a finished turn by an older version of it, it is never
stale, and the cursor grows with every step but a page reload. `ComingInv` then says of every turn of the log
that the page does not show, while the session is selected and online, where it will come from: a message, a
read that is asked with a checkpoint before it, or the repair queue's next run (`Coming`). The case that needs it is
a finished turn behind a hole, which `mergeRealtimeTurn` drops: `request` asks for it or marks the run
under way as pending, and the end of that run reads again from the cursor (`RequestEffect`, `EndReadEffect`,
`ReadCovers`). `OrderUntil` says that all this
holds until the hub loses turns or an answer is overtaken. What remains afterwards is `WholeInv`: answers, those not yet
sent included, still hold the whole log behind their checkpoint. With `FinalInv` it shows that of
all messages only an answer whose log ended in an open turn that the page has finished by now can take a finished turn back
(`Outdated`). The conditions inside `QuiescentComplete` are needed: TLC finds counterexamples with one late answer,
one failed read or one hub restart.

A disconnect by the supervisor is not in `ChatSync`: it closes the service, whose repository is then
null, and a read asked meanwhile is answered with an empty result, which looks like a hub behind the
cursor and clears the cache.

### SessionLifecycleProofs

| Theorem | Statement |
|---|---|
| `TypeCorrect` | `Spec => []TypeOK`, whatever overlaps |
| `RowHasFilesAlways` | one request at a time, `Spec => []RowHasFiles` |
| `OneHomeAlways` | one request at a time, `Spec => []OneHome` |
| `NothingLostUntilArchivedAgain` | one request at a time, `Spec => []NothingLostAtFirst` |
| `DeletedStaysDeletedAlways` | `Spec => []DeletedStaysDeleted`, whatever overlaps |

Faults of every step and crashes between any two are allowed in all of them, and so are any number of
archives. One request at a time is the hypothesis `~Overlap` of three: the hub takes no lock over the
steps of a request, and with two overlapping ones TLC refutes each of the three. What breaks the properties
otherwise is part of them: the second archive request in `NothingLostAtFirst` (it finds the entry of the
first and removes the row although the entry may hold fewer turns, the run `lifecycle_archive_again`), a
hand-over that was cut off in `OneHome`, a rollback done by half in `RowHasFiles`, and a request served
beside the delete in `DeletedStaysDeleted`.

A step of a request uses what an earlier step read. `LifecycleInv` therefore says for each place of each
request what it knows (`Underway`: the row is still the one it copied, the memory is already
dropped, the entry is not yet marked), when both homes may be there (`HomeWhile`), and why the row may
be removed (`Removes`: its turns are deleted, or an entry has them). There is one lemma per action and
invariant; `Rejoin` reduces each to the request that moves. `DeletedStaysDeleted` has an invariant of its own,
`DeleteInv`, which holds with overlapping requests: while a delete runs alone no other request is
under way (`Deleting`), and after its answer neither row nor memory is left for one to start from (`Gone`).

### DraftSessions

`DraftSessionsConstants` (the bounds are numbers) is the only hypothesis; drafts are any set. The run
`chat` checks the same on two drafts, in `ComposersKeepTheirContent` and `NothingIsTakenBack`.

| Theorem | Statement |
|---|---|
| `TypeCorrect` | `Spec => []TypeOK` |
| `ShownOnceAlways` | `Spec => []ShownOnce` |
| `ReachableAlways` | `Spec => []Reachable` |
| `TypedIsKeptAlways` | `Spec => [][TypedIsKeptStep]_vars` |

`DraftsInv` adds to the properties where a row and its create stand (`Created`: nothing exists
before the call, a call without a draft has no row, a row that has not failed waits for its call)
and `Captured`: while a send waits, the draft's composer is read-only and holds nothing
the send has not captured. With it the answer may empty the composers. That the text of a draft may be moved
to its session without losing any follows from `ShownOnce` and `Reachable` together: as long as the
draft has its row the session is not known, so its composer is empty (`MoveFacts`).

### TtsPlayback

| Theorem | Statement |
|---|---|
| `OneAudioAlways` | `Spec => []OneAudio` |
| `UrlsAreCurrentAlways` | `Spec => []UrlsAreCurrent` |
| `MarkedWhileBusyAlways` | `Spec => []MarkedWhileBusy` |
| `InOrderAlways` | `Spec => []InOrder` |

`PlayerInv` adds what the pieces know of each other: what sounds is the element of the current session and
segment or one that was lost (`stray`), what is not lost is the element `this.audio` names and its URL is kept, and
something sounds that is not lost only while the player waits for its end. Rejections of `play()` may come at any time, also
after the next session has begun to play; the theorem says that they are the only way to lose an element.
`SegmentsFit` and `TypeOK` speak of what `segmentText` computes, a fold over the paragraphs, and stay with
TLC.

### TerminalResize

| Theorem | Statement |
|---|---|
| `OneOwnerAlways` | `Spec => []OneOwner` |
| `SameSizeAlways` | `Spec => []SameSize` |

Neither has a hypothesis. A token counts as held from the moment the answer is sent (`Held`); the hub
has given out every one that is held, and none to two pages (`GivenOnce`), so the next one is new whatever
is still on its way. `SameSize` speaks of a page at rest, with no goroutine left to publish, to which nothing
was delivered before something sent earlier. Until then the last size on its way to a page, or the one it shows
when there is none, is the size of the hub, or a goroutine that will read it has still to run (`Shows`, `SizesInv`,
`DueInv`).

### Only model-checked

* Liveness (`chat_live`, `workspace_live`, `tools_live`): it rests on fairness and `ENABLED`, which the
  prover does not handle.
* What recursive definitions and folds compute (`FileResultTree`, parsing in `SkillPanel` and
  `OptionReplies`, the segments of `TtsPlayback`): induction over data is out of its reach.
* `UpMeansReachable` of `PortRelay` is not claimed when the hub may fail a forward: an `Enable` that
  overlaps another one closes the listener that both use.
* The safety properties of the other parts of the page, of the registry and of the composer (`chat`,
  `workspace`, `tools`). They are conjunctions over instances; the proofs for a component are about its
  module.
* `UnfinishedTail`, `SealBeforeNext`, `DoneIsDurable` and `CursorsNameDoneTurns` are not claimed for
  compaction together with faults: there an operation turn can take the index of a live turn.
