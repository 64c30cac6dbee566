# chrome-bridge: TLA+ models, model checks and proofs

chrome-bridge lets programs drive a user's own Chrome: clients talk MCP or HTTP to
a local server, the server talks over one WebSocket per browser to an extension, and
the extension works on tabs through `chrome.debugger`. This directory models the
parts of it where steps of several actors interleave, checks them with TLC, and
proves the most important properties for every number of actors with TLAPS.

Paths below are relative to the repository. `server/` abbreviates
`packages/mcp/src/chrome_bridge_mcp/`, `ext/` abbreviates `apps/extension/`.

## 1. The system

| Component | Source | State | Operations | What makes it correct |
|---|---|---|---|---|
| Operation coordinator | `server/coordination.py` | deque of waiters, active session, `single_active`, leases with call lock, in-flight count and pending release | `acquire_session`, `single_call`, `session_call`, `heartbeat`, `release_session`, reaper, `close` | one browser operation at a time, strictly first come first served, no grant lost, every lease ends |
| The same in Dart | `packages/mcp-dart/lib/src/coordinator.dart` | as above | as above | as above |
| Managed server | `server/app.py`, `__main__.py` | `last_activity`, `should_exit` | idle monitor, lifespan | exits when disused, only then |
| Connections and registry | `server/bridge.py`, endpoint in `app.py`; Dart: `registry.dart` | connections by browser id, v1 slot, pending futures, ids that timed out | `attach`, `detach`, `resolve`, `request`, `receive` | a call reaches the browser it names, and fails only with its own connection |
| HTTP API, MCP tools, controller | `server/direct_api.py`, `app.py` (MCP tools), `bridge.py` (`BrowserController`) | none of their own | one per command | calls of the above, with validation of arguments and results |
| Schemas, security, configuration | `server/protocol.py`, `security.py`, `config.py` | none | checks of one message or request | |
| Python SDK | `packages/sdk/src/chrome_bridge_sdk/client.py` | session token, heartbeat task | session context manager, server start | a session is given back, whatever its body does |
| Extension connection manager | `ext/background.js` 2045-2540, `connection-probe.js` | global `socket`, backoff, timers, `connectInFlight` | `connectOnce`, `handleMessage`, timer, alarm, settings | one live socket, always a next attempt, answers where the question came from |
| Page operations | `ext/background.js` 140-320 and the cases of `executeCommand` | operation queue, target tab, operating token, ref epochs and generations | one per command | operations of a browser run one after the other, on the target they were meant for |
| Retained dialogs | `ext/background.js` 291-688 | `retainedDialogOperation`, marker in `chrome.storage.local` | promotion, respond, watchers, recovery, tab removal | a native dialog can be answered, exactly once, and blocks others only as long as it is there |
| Debugger session | `ext/debugger-session.js` | `active`, `criticalPending`, `attached`, `closed` | `run`, `tryCapture`, `close`, `onDetach` | exclusive turns, focus emulation taken back, nobody starves |
| Recording | `ext/recording.js`, `recording-offscreen.js` | recorder, capture loop, the one offscreen document with its active recording | start, frame, finish, abort, close | the answer agrees with what ran and what was saved; everything acquired is given back |
| Downloads | `ext/download.js` | the first download's guid, settled or not | begin, progress, timeout | success is reported for the one download of the click |
| Content runtime | `ext/src/*.ts` | refs of a snapshot and their epoch, mark in the title | snapshot, click, type, ... | a ref names the element it was given out for |

How they interact. A client's request takes the browser from the coordinator
(`single_call`, or `session_call` under a lease); the call is routed by the registry
to one connection, which registers a future, sends a command and waits for the answer
up to a timeout. The extension takes the command from its socket, queues page
operations one after the other, opens a debugger session for each, and answers on its
current socket. A native dialog suspends the page and the operation with it: the
command is answered with the dialog's state, the session is retained, and a later
command answers the dialog. The hard parts are the ones no thread of control owns:
timeouts that race grants and answers, releases that race calls, connections that are
replaced under pending calls, a service worker that may be stopped at any await,
dialogs that the user answers while a client does, commands Chrome never answers.
`PROJECT.json` lists these hazards with the line where each bites and the properties
that cover it.

## 2. The modules

### Coordinator, ExclusiveBrowser, MCCoordinator, CoordinatorProofs

`Coordinator` is `OperationCoordinator`. The condition lock makes everything between two
suspensions one step, so an action is such a section of a handler, with
`_grant_next_locked` (`GrantNext`) and `_expire_session_locked` (`Expire`) inside it.
`phase` is where the task of a request stands: `waiting` in the deque, `granted` (its
future has a result, the task has not run yet), `running` or `holding`, `cancelled` (its
timeout or its client ended the wait, the task has not removed it yet), `revoked` (both: the
result was set, then the wait was cancelled). `stage` is the same for session calls and
`callLock` is the lease's lock with the tasks queued on it. Times are ages, counted up to
the two durations; `Tick` advances them. `Overdue` is the pair of deadlines.

`ExclusiveBrowser` is what the coordinator promises: a holder, the set of requests that wait and the order in
which they came, served strictly in that order; the browser is free only while nobody waits. `MCCoordinator` maps
the coordinator to it: the holder is the owner of the grant, those that wait are the requests whose future is still
pending, and their order is the one in which they stand in the deque, among futures that are already dead.

Left out: validation of arguments and of tokens (they raise and change nothing).

### ManagedServer, ManagedServerProofs

Adds the idle monitor of a `--managed` server to the coordinator: `quiet` is the time since
`last_activity`, which the coordinator's callback resets when it grants and when a session call enters its
body; `Monitor` is the round of the monitor that asks uvicorn to exit, `Exit` the end of the
lifespan, which closes the coordinator. A tick stands for a large part of five minutes, so the ready queue
of the event loop is empty before it (`Ready`).

### Bridge, BridgeProofs

Server and extension around one WebSocket each. Server: `registry` and `legacy` are
`_connections` and `_legacy_browser_id`, `endpoint` where `extension_endpoint` stands for a socket
(greeting, waiting for the close of the socket it replaced, which succeeds or raises
(`Replaced`, `ReplaceFails`), reading, rejecting after a protocol error, gone, or orphaned: over without
having deregistered its connection), `pending` and `timedOut` the two maps of a connection, `call` and `future`
where the task of a request and its future stand: `asyncio.wait_for` cancels the future in `Timer`, and
the task learns of it in `Wake`, a later step. Extension: the global `current` socket,
the commands it is executing, and answers that go to whatever socket is current then
(`Finish`). Environment: connections break and lose what was under way from some point on,
service workers stop, settings change.

Left out: pings, error answers (they resolve a call as results do), malformed messages,
a second hello, metadata, cancellation of a request's task. A `send_json` is assumed not to block for ever;
the code has no bound for it.

### DebuggerSession, DebuggerSessionProofs

The exclusive turns of `openDebuggerSession`. JavaScript runs one callback at a time; whoever
awaits `active.promise` is woken in the order in which it began to, as microtasks directly behind the
`finally` of the owner, which is why `woken` is a queue and every other action waits for it
to be empty (`Quiet`). Captures stand for a recorder's frames: Chrome may never answer
one, and `boundCapture` gives up after a second. Opening the session comes before the
state exists. A capture that was given up may still run in Chrome: `OneWorker` is about the
extension's own turn. If taking back the focus emulation fails, the target has lost it.

### DialogOperation, MCDialogOperation, DialogOperationProofs

Page operations and the native dialogs they open: `runPageOperation`,
`runDialogAwareTargetOperation`, `advanceRetainedDialogOperation`, both watchers,
`respondToBrowserDialog`, `page.snapshot` with `recoverInterruptedDialogState`,
`handleTabRemoved`. `at` and `mine` are the program counter and locals of every task: the operations,
the callers of respond and snapshot, the watcher of each dialog, the removal of each
tab. `op` holds an operation's session, observer and fields of `held`. Steps that wait for Chrome,
the page, the user or a client wait until no promise is settled without its continuation having run
(`Quiet`). Calls of `chrome.storage.local` take effect when made and are
answered in order (`storage`): that decides which of two racing writers of the marker wins.
`events` are what Chrome has sent and the observer has not seen.
Faults are a detached debugger, a closed tab and a replaced service worker.

Operations act on any tab, which covers every choice of target; a dialog stands for itself, its
entry and its ref. Left out: dialogs that pages open between operations (beyond
`docs/concepts/browser-dialogs.md`), plain operations that use no debugger, the marker's
clearing at browser start, the release in `tabs.close`, which repeats `handleTabRemoved`, the result
an ended operation returns. The content runtime is taken to respond exactly when no dialog is shown; in the
code (`ext/background.js:349-380`) a restricted page, or one that needs more than 500 ms, is refused as well, and `BlockEnds` rests on some
later snapshot finding it responsive. `Page.disable` before a session's close is part of the close.

### PageOperations, MCPageOperations, PageOperationsProofs

The fourteen kinds of page operations, each a program: the sequence of its suspensions (`Program`), with
one action per kind of step. `tab` holds every tab's document and its state of navigation; a document
holds whether its content runtime runs, the epoch of its refs (`refState`), the mark in its title and, as
history, the epochs its snapshots were given. `target`, `operating`, `refEpoch` and `generation` are the keys
of `chrome.storage.session`. `op` is the operation at the head of the queue, with the locals of the code it
is in: the tabs it has read, the ref, the measured point, the epoch of the snapshot it has taken, the download observer.
The environment navigates, restores documents from the back/forward cache with their
runtime and refs, closes and selects tabs, moves the layout, changes URLs, starts and ends downloads, and
replaces the service worker, between any two steps.

An operation reads the target three times, and `tabs.select` is not queued behind it. `Begin` is the read of
`runPageOperation`: `op.mark` is the tab that is marked (`Mark`, `BeginSync`) and brought up to date at the end, none if there is no
target. `Attach` is the read of `runDialogAwareTargetOperation`: `op.session` is the tab the debugger is attached to, through which all input goes
(snapshot, screenshot and console logs have no such session: `DialogAware`). `ReadTarget` is the read of the command itself: `op.tab` is the tab it
works on, where its ref must resolve. Selections fall between any two of them, so the three may differ; the checks of the code
(`requireUnchangedTarget`, `requireCurrentAriaRef`) are about `op.tab`. A recorded operation reads the target once more
(`ext/background.js:698`), for its recorder, and checks it again when it enters; that is not in this module.
A ref is any that was ever handed out, as a client may keep it
as long as it likes. `Enter`, `ReadEpoch`, `Loaded` and `Check` stand for the chains of checks at the places of the same
name: they only read, and what one of them reads true is only ever lost afterwards, so the run that passes
them one by one passes them all at the first. `Generate` covers the message and the content runtime's
`generateSnapshot`; `Compare` and `Store` are the two steps that decide whether the snapshot's refs are current.
`FailsAfterClick` is the catch of `downloadFileTarget`. `CloseTab` is the first step of `handleTabRemoved`; `gone` is a
closed target that `getTargetTabId` or `clearTargetTabIfClosed` has read (`ReadGone`) and whose keys it has yet to remove (`RemoveGone`).

One selection is brought to the indicators before the next one is made, and the tabs that `tabs.open` and
`ensureNavigationTarget` create are tabs that were there. The first selection is no event.
Left out: what is typed, pressed and drawn; restricted pages; which of a document's elements a ref names
(`resolveAriaRef` may always refuse); dialogs, which `DialogOperation` has.

### Recording, RecordingProofs

Recorders as two tasks each, the command and its capture loop, and the one offscreen document. `rec` holds the two program
counters and what the recorder has: the debugger session (`attached`), the first frame, the file. `page` holds the document:
the active recording, the encoders that run, its object URLs. A handler of the document runs up to its first
await, and the handlers that wait (`reset`, `stop`, `abort`, `drawFrame`) have a second step that acts on what
is there then. `film` is a history variable: whose frames were drawn on a recorder's canvas.
`Dropped` is how recordings come to overlap: `handleTabRemoved`, or the recovery of a dialog's state, forgets a held operation,
which frees the queue while the recorder still finishes. That Chrome cannot remove a file that was not saved (`removeCommandDownload` is best
effort), and failures of one frame's decoding or of the encoder apart from those of the document, are left out.

Left out: pixels, time, the up to four explicit frames of a drag, what the operation does.

### Connection, ConnectionProofs

The connection manager: `attempt` is where `connectOnce` stands with the settings it has read, `ws` the
WebSockets with the settings they were made for, `socket` the global one, `closings` the close listeners that have yet to
schedule the next attempt, `timer` and `alarm` the two retries. A stop of the worker takes the timer
along and leaves the alarm; an alarm or changed settings start it again. A worker is not stopped while it has a WebSocket or an await
under way. The probe answers at once: a probe that takes its time sees the server come or go in `Dial`, `Opens` and `Breaks`.

Left out: the length of the back-off, the heartbeat, the label as such.

A definition marked "Slip" is no part of a specification. It is a plausible mistake in
the definition after it, and shows that the property it is paired with in `PROJECT.json` can
tell the two apart.

## 3. The runs

| Run | Instance | Result |
|---|---|---|
| `coordinator` | 1 single caller that returns again and again, 2 session requests, 2 calls, times 1 and 2, fair | one operation at a time; a grant always has an owner who can give it back; calls keep their lease; a free browser serves whoever waits; leases end for good; none starts a call after its release; **implements `ExclusiveBrowser`**; every request is answered, every lease ends, every queued call gets its turn |
| `managed_server` | 1 single caller, 2 sessions, 1 call, shutdown after 2 ticks, fair | the monitor decides to exit only on a free browser; an abandoned server exits |
| `bridge` | a v1 and a v2 extension, 3 sockets, 1 call, fair to the server | live calls are on registered connections; commands run only where they were sent; a connection is registered only while its endpoint serves it, or when that has orphaned it, and leaves no call behind; only a connection's own end or replacement deregisters it; calls fail only with it, and all return |
| `bridge_reconnect` | 1 extension, 2 sockets, 2 calls | **violation**, see findings |
| `debugger_session` | 3 runs, 1 recorder, close, detach, fair | exclusive turns, focus taken back, nothing after close, waiters counted; waiting runs get their turn and close returns though captures stay unanswered |
| `dialog_safety` | 2 operations, 2 tabs, 1 dialog, 1 respond and 1 snapshot caller, 2 faults, symmetric | at most one operation has a session that takes work; while it shows a dialog it stays held |
| `dialog_liveness` | 2 operations on 1 tab, 2 dialogs, 1 fault, at most 4 of them all, 1 respond and 1 snapshot caller, fair | page operations are not refused for good; an operation that waits behind another gets its turn |
| `dialog_stale_ref` | 1 operation, 2 dialogs, no fault | **violation**, see findings |
| `page_operations` | any kind, then hover, upload, download or navigate, then drag or select; 2 tabs, 2 downloads, 2 events, at most 4 operations and events, symmetric | refs are resolved only in the document that gave them out; the refs of a returned snapshot are usable; the stored mark is the running operation's; a download is reported as what it was |
| `recording` | an operation and a video, each recorded, fair | the answer agrees with what ran and with the file; the last one out leaves no document and no session; the queue alone keeps recordings apart; what has begun ends |
| `recording_start` | the same | **violation**, see findings |
| `connection` | 3 sockets, 2 settings, 5 events, fair | one live socket; always an attempt ahead; a server that stays up is found |

Why the bounds are enough to be interesting. Two session requests and a single caller are what it
takes for one to give up while another is granted behind a third that holds; two calls for one to queue
behind the other's lock while the lease is released; an idle time below the lifetime separates the
two deadlines. Three sockets are a connection, its replacement and the replacement of that,
or two of one extension beside one of the other. Three runs let one be woken in vain twice. Two dialogs are a
dialog and the one chained to it; two operations and tabs are what it takes to attach a second
session beside one that was not closed; two faults let a worker be replaced after a detach.
Two operations on one tab are what it takes for one to wait behind the other: the first is held with its dialog, loses its session,
or dies, and the second is refused, or has its turn, or is lost too. `MaxEvents` admits one operation with two dialogs and a fault there, or two with
two dialogs or with one and a fault.
Three page operations are a snapshot, an operation that navigates and the use of the snapshot's ref, with an event
that restores the first document; two operations are a snapshot and the use of its ref, with two events of the tabs between
any two of their steps: the navigation away and the one back, a navigation and another target, a closed tab and a new selection, a
selection between two reads of the target and another one back. While there is no ref only the kinds that take none can begin, so
they are the first operations (`AnyThenUse`); the second and third have one kind for each way in which refs are resolved: by a measured point
that may be measured again (hover; upload, which presses and types like click and type), with a download's click, once (drag), by the page itself (select).
Two downloads make a click ambiguous. Two recorders overlap when the first is dropped. Five events let
the server go and come back around changed settings and a stop of the worker.
Safety does not rest on the bounds: every invariant and action property of a passing run, and the refinement, is proved for
all of them (section 5). Liveness does.

`Calls` (which kinds may be called first, second and so on), `MaxEvents` and `MaxBoth` of `PageOperations`, `MaxEvents` of `Connection`, `MaxDialogs`,
`MaxFaults` and `MaxEvents` of `DialogOperation` and the three times of the coordinator and the managed server are the only bounds on counters.
Symmetry is used where no property is a liveness property and the sets' members occur in no other constant: of tabs and downloads.
The operations of `DialogOperation` are alike until they are called, so `Request` takes any one that has not been.

`CHECK_DEADLOCK FALSE` in every run: requests, commands, sockets, recorders and operations are each used a bounded number of
times, and a system with nothing to do stops.

The type invariant of every module is proved; no run spends a property on one.

### Fairness

Only what the code schedules itself is fair. Coordinator: tasks that are ready, timers, the
reaper, the passing of time, and the body of an operation (it ends, by result or timeout); clients
owe nothing, neither a release nor a heartbeat nor silence. Managed server: the same and the
monitor. Bridge: for each call, that it is sent, times out or goes on; an extension owes nothing,
and neither does an endpoint.
Debugger session: callbacks that are due, the capture timer, the end of an operation; an
answer to a capture is not owed. Dialogs: callbacks, answers of Chrome to commands, the end
of an operation's work, and two things of people: the user answers what is shown, as the
extension's error message asks, and some client goes on taking snapshots, as every
refusal asks. A response is not owed, and may never return (see hazards). Recording: the two tasks
of a recorder go on, since every wait in them has a timeout except the one `recording_start` is about, which is
a step with a guard; frames, sessions, the document and the file are not owed. Connection: the worker
runs what is ready, a socket opens or breaks, and Chrome delivers alarms; the timer, which dies with the worker, is not needed.
Page operations have no liveness property: their waits are bounded by constants of seconds, or are Chrome's to answer.

## 4. Findings

- **A command answered after a reconnect breaks the new connection** (`bridge_reconnect`).
  The extension answers on the global socket; the new connection does not know the id.
- **A response can close a later dialog** (`dialog_stale_ref`). The ref is checked when the
  response arrives; `Page.handleJavaScriptDialog` names no dialog. If the user answers first and the page
  opens another, that one is answered.

- **A recording that loses its target as it starts never ends** (`recording_start`). Without a session the
  capture loop gets no frames and no error, and `createTargetRecorder` waits for the first frame or the end of the loop. The
  command does not return, and the page-operation queue stays with it.

Seven more disagreements were met while modelling, and confirmed with TLC on formulas that are not kept as runs;
each is a hazard in `PROJECT.json`:

- *A replaced socket that cannot be closed orphans its successor* (`server/bridge.py:214`). `attach` registers the new connection and
  then awaits the close of the old socket, which raises if that endpoint has already sent its own close (1002 after a protocol error, its
  `detach` still to come) or may if the peer is gone. `connection` is not assigned then (`server/app.py:461`), so the endpoint's `finally` detaches nothing:
  the new connection stays registered with nobody reading it, commands are routed to it and time out, until the browser says hello again.
  `docs/concepts/multiple-browser-routing.md:160` says of a connection that disconnects: "remove only this instance and fail its pending calls".
  `ReplaceFails` is this step; with "an endpoint that is over has no registered connection" as an invariant TLC finds it.
- *Input may go to another tab than the ref's* (`ext/background.js:582`). The wrapper reads the target for the debugger session, the
  command reads it again for its ref; after a selection in between they differ, every later check is about the second, and the click measured
  in one tab is sent to the other. It takes a selection while a page operation runs: the server serialises its callers, but a command it has given up on
  after a timeout goes on in the extension. `SPEC.md:275`: "Page-operation tools never operate on a tab other than the target."
- *The operating mark without an operation* (`ext/background.js:189`). Recovery after a worker's stop brings the target's indicator up to date
  once and passes over a tab that is loading; if that load is given up, the document keeps the mark. (One that comes back from the back/forward
  cache may have it on for the same reason.) `SPEC.md:206` has the mark "only while a page command runs".
- *A selection that is lost* (`ext/background.js:115`). `getTargetTabId` and `clearTargetTabIfClosed` read the target, and remove the key after an
  await. If the target's tab closes and another tab is selected in between, the new selection is removed, though `tabs.select` has answered with it.
- *The idle monitor* (`server/app.py:627`) measures from the last grant or call, not from the end of use: the
  server may exit right after a long lease or operation. `SPEC.md:91` promises five minutes without either.
- *An answer that races its timeout* (`server/bridge.py:134`). Between the timer's cancellation of the
  future and the task's `_remember_timed_out` the id is in neither state `receive()` accepts, and the connection is closed.
  The Dart port marks the id in the timer's callback.
- *Settings saved during an attempt* (`ext/background.js:2095`). `connect` joins the attempt under way, which has read the old
  ones; `docs/runbooks/operations.md:40` says that it reconnects with the new ones.

## 5. Proofs

`CoordinatorProofs` proves, for any sets of callers, sessions and calls and any durations with idle time
at most lifetime: `TypeCorrect`, `MutualExclusion`, `GrantNeverLeaks`, `CallsKeepTheirLease`,
`FreeBrowserServesWaiters`, and the action properties `EndedLeasesStayEnded` and `ReleasedLeasesTakeNoCall`.
None of the invariants is inductive alone. `Inv` adds: the deque holds each waiting request
exactly once, and beside them only ones that gave up (`QueueOK`: without it a grant could go to a
request twice or leave one out); the flag or the active session has exactly one owner
(`OwnerOK`: `_single_active` itself names none); a call that is not idle stands once in its session's lock, the
one in its body first (`LocksOK`); a lease counts exactly the call in its body, and
is marked for release only under one (`LeasesOK`). The parts are stated of values
rather than variables because `GrantNext` and `Expire` run on what their caller has just assigned. Lemmas on
the deque (append, remove, grant) and the lock (append, tail) come first, then one lemma per group of
actions.

`DebuggerSessionProofs` proves, for any sets of runs and captures: `SessionTypeCorrect`, `OneAtATime`,
`FocusNeverLeftOn`, `ClosedSessionIsFree`, `WaitersCountedOnce`, and the action property `NothingStartsLate`.
`SInv` adds the line of those that await `active.promise`: each stands in one of its two parts at most once
(`LineOK`), and whoever does is in phase `waiting` (`Stand`). Only then does a run that is woken
find itself counted, so that taking it out of `criticalPending` keeps the count exact; and `Unfocused`
(Chrome takes the emulation with the session) makes `FocusTakenBack` survive the cleanup of a detached session.

`BridgeProofs` proves, for any sets of browsers, sockets and commands: `BridgeTypeCorrect`, `NoCallLeftBehind`,
`CallsAreRouted`, `ConnectionsLeaveForGood`, and the action properties `OwnersDeregister` and `CallsFailAlone`. The endpoint
deregisters its connection once, under the one key it looks up, so `Registration` and `LegacyEntry` (a connection is registered
only under its own key and while its endpoint serves it, or has orphaned it; `legacy` names the one v1 connection) are what makes "deregistered" mean
"nowhere registered". `PendingCalls` (what is pending on a connection was resolved to it and is being
sent or awaited) ties calls to connections in one direction, `LiveCallsAreRegistered` in the other. `Placed` (a call that has been
resolved was resolved to a connection of the browser it asked for), `Carried`, `Executed` and `CurrentIsOwn` follow a command
over the wire: what lies on a socket was put on it, and a browser reads its own sockets.

`PageOperationsProofs` proves, for any tabs, downloads, operations and bounds: `PageTypeCorrect`, `MarkIsTheRunners`,
`DownloadsAnswerTruly`, `SnapshotsAreUsable` and the action property `RefsResolveAtHome`. An operation is a program,
so its invariant speaks of the rest of it: `OpRight` (the rest is well formed: a ref is entered before it is resolved,
never after the click of a download; what has been observed of downloads by then), `RefKept` (from its entry until it stores a snapshot of
its own, an operation that has a ref to resolve finds the tab's epoch to be the ref's, or gone), `FreshKept` (while an
operation's snapshot is fresh, the document has its epoch, and after the store the tab has), `EpochsGiven` (an epoch in force in a document was given out by it) and
`GoneIsClosed` (a tab read as gone stays closed, so removing its keys hits no live operation). The lemmas on programs (what the
tail of a well-formed program still contains) come first.

`RecordingProofs` proves, for any number of recorders: `RecordingTypeCorrect`, `RecordsTruly`, `EverythingIsGivenBack` and
`RecordingsKeepApart`. `RecordingRight` relates where a recorder's two tasks stand to what it holds; `Owed` says who will close the
document that is open; `Apart` needs that no operation was dropped: then only the queue's holder works, and what the
document holds is its own.

`ConnectionProofs` proves, for any sockets, settings and numbers of events: `ConnectionTypeCorrect`, `AtMostOneConnection` and
`AlwaysAnAttemptAhead`. The first needs `NothingLive`: from the check of the current socket to the dialling, which are
steps of their own, no other step makes a socket live. The second needs `AlarmBehind`: a timer, which dies with the worker, never runs
without the alarm, which does not.

`DialogOperationProofs` proves, for any operations, clients, tabs, numbers of dialogs and faults: `DialogTypeCorrect`,
`OneSessionAtATime` and `DialogsStayAnswerable`. A session that takes work belongs to the operation that has its turn and has not
been held yet, or to the one that is held (`Kept`); while the first exists nothing is held (`NotHeldYet`), because the
queue gives one turn at a time (`QueueRight`). It remains that nobody takes `held` away under an open session. Whoever is
about to has seen the session end (`NotOpen`), with one exception: a snapshot that found the operation terminal and reads its
marker. That one is saved by the order in which storage answers: the interruption that made the operation terminal asked
first, and closes the session when it is answered (`Interruption`, `ReadOnce`). The proof that a step of one task preserves all this is done once,
for a step described by what it may do to queue, `held`, `op` and `storage` (`TaskStep`); each action is then shown to be such a step.

`CoordinatorImplements`, in `CoordinatorProofs`, is the refinement: the coordinator implements `ExclusiveBrowser`. The invariant makes the
mapping exact. By `OwnerOK` the holder of the abstract browser is the owner of the grant (`HolderIs`), by `QueueOK` those that
wait stand in the deque once each, so their order is an order (`LineIs`). Lemmas on the deque say what an append, the removal of a dead
future and a grant do to that order. Then `GrantNext` on a free browser passes it to the first in the line (`GrantPasses`), and on what was free or
busy before it is not seen (`GrantUnseen`: a free browser has an empty line, `ServedOK`); `Expire` hands it over or is not seen
(`ExpireMaps`). Each action is one of these: enqueueing is `Arrive`, giving up while waiting is `Leave`, even though the dead future
stays in the deque; the end of a single call, of a lease or of a waiter that had been granted is `HandOver`; `close()` is
`TurnAway`; everything else leaves holder and line as they are.

`ManagedServerProofs` proves, for any idle timeout besides: `ManagedTypeCorrect` and the action property `ExitsOnlyWhenFree`. The coordinator's
invariant does not say that a session in phase `granted` has the browser, and without the monitor's notion of time it may not: the
reaper could end a lease before its task has run. `FreshOK` excludes it: no time passes while a task is
ready, so such a lease is as new as it was granted, and whoever looks at the flags finds it.

Assumptions: the named ones of the modules (sets disjoint, model values fresh, durations positive, bounds natural), nothing else.
The theorems are about `Spec`; where a run checks `FairSpec`, that only has fewer behaviours.

What is only model-checked:

- liveness, which the prover does not reason about: `RequestsResolve`, `LeasesEnd`, `CallsResolve`, `AbandonedServerExits`,
  `CallsReturn`, `RunsGetTheirTurn`, `CloseReturns`, `BlockEnds`, `QueueMoves`, `RecordingReturns`, `ServerIsFound`;
- the three violations, which are counterexamples.

Two things the proofs asked of the models. `DialogOperation` did not say that its tasks, tabs and dialogs are different things and that `None` is
none of them; it does now (`NoneFresh`, `TasksDisjoint`). `ExclusiveBrowser` used to keep the line as a sequence that is filtered, which the
provers cannot reason about without induction; as a set with an order on it it says the same and asks for none.

## 6. Not modelled, and the plan

Not modelled, with the reason:

- the Dart ports: the same algorithms on another event loop;
- schemas, security middleware, configuration, argument and result validation: checks of one message that keep no state;
- HTTP handlers and MCP tools: one call each of what is modelled;
- the Python SDK's client: its heartbeat and release are the coordinator's inputs, which `Coordinator` admits in every order, also late or never;
- user interface, layout and drawing, accessible names, image sizes; vendored and generated code.

Done, in the order of importance: coordinator with its abstract specification and proofs; managed server;
bridge; debugger session with proofs; dialogs; page operations with refs and downloads; recording; connection; the proofs of every safety property and of the
refinement. Next:

1. If there is reason to model more: a lossy client beside `Coordinator`, and a composition of coordinator, bridge and page
   queue with the claim that commands of different holders never overlap in the extension, and where timeouts break it.
2. Abstract specifications of other components, in the way of `ExclusiveBrowser`: the page-operation queue with its held operation, and the
   debugger session's turns, each as a holder and those that wait.
