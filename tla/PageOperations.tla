-------------------------- MODULE PageOperations --------------------------
(***************************************************************************)
(* The page operations of the extension, against tabs that navigate, close  *)
(* and change under them: the target tab, the refs a snapshot hands out and *)
(* the operating mark (apps/extension/background.js, with the content       *)
(* runtime of a document in apps/extension/src).                            *)
(*                                                                          *)
(* Every operation is a program: the sequence of its suspensions, and one   *)
(* action says what each kind of step does.  Checks that only read and      *)
(* follow each other are one step: what they read is only ever lost in      *)
(* between, so a run that passes them one by one passes them all where the  *)
(* first is made.  Calls to chrome.storage.session are answered in order,   *)
(* and Chrome delivers its events and its answers in one order: a commit    *)
(* and the listener that clears the tab's refs are one step.                *)
(*                                                                          *)
(* Abstracted: what is typed, pressed or drawn; which of a document's        *)
(* elements a ref names (a ref is its epoch); documents are HTTP(S).         *)
(* Browser dialogs are the subject of DialogOperation.                      *)
(***************************************************************************)
EXTENDS Naturals, Sequences, FiniteSets

CONSTANTS
  Tabs, NoTab,
  Downloads, NoDownload,
  Calls,        \* bound: the kinds of operations that may be called first, second, ...
  MaxEvents,    \* bound: navigations, closed tabs, selections and restarts
  MaxBoth       \* bound: operations and events together

ASSUME NoTabIsNoTab == NoTab \notin Tabs
ASSUME NoDownloadIsNone == NoDownload \notin Downloads

VARIABLES
  tab,          \* the tabs of the browser
  target,       \* storage.session: targetTabId
  gone,         \* a target that was read and whose tab is closed: to be removed
  operating,    \* storage.session: operatingTabId and operatingToken
  refEpoch,     \* storage.session: refEpoch:<tab>, 0 when there is none
  generation,   \* storage.session: snapshotGeneration
  op,           \* the page operation at the head of pageOperationQueue
  selection,    \* tabs.select, or a restarted worker: indicators to bring up to date
  ops, events   \* counters for the bounds

vars == <<tab, target, gone, operating, refEpoch, generation, op, selection, ops, events>>

-----------------------------------------------------------------------------
(* Programs *)

\* captureSnapshotForTarget
Capture == <<"epoch", "generate", "compare", "store">>

\* Input at a ref, with the debugger session that executeCommand passes on.
Click == <<"enter", "prepare", "check", "verify", "press", "loads">> \o Capture
Hover == <<"enter", "prepare", "check", "verify", "move", "loads">> \o Capture
Type == Click
Drag == <<"enter", "prepare", "check", "verifyOnce", "drag", "loads">> \o Capture
SelectOption == <<"enter", "options", "check", "perform", "loads">> \o Capture
UploadFiles == <<"enter", "prepare", "check", "verify", "press", "choose", "loads">> \o Capture
DownloadFile ==
  <<"enter", "prepare", "check", "verify", "click", "loads">> \o Capture \o <<"settle">>
PressKey == <<"enter", "chord", "loads">>
Navigate == <<"leave", "navigate", "commit">> \o Capture
Wait == <<"check", "check">>
WaitFor == <<"enter", "text">> \o Capture
Screenshot == <<"enter", "shoot", "resize">>
ConsoleLogs == <<"loads", "listen">>

\* executeCommand
Program ==
  [snapshot |-> Capture, click |-> Click, hover |-> Hover, type |-> Type, drag |-> Drag,
   selectOption |-> SelectOption, uploadFile |-> UploadFiles, downloadFile |-> DownloadFile,
   pressKey |-> PressKey, navigate |-> Navigate, wait |-> Wait, waitFor |-> WaitFor,
   screenshot |-> Screenshot, getConsoleLogs |-> ConsoleLogs]

Kinds == DOMAIN Program

ASSUME CallsAreCommands == Calls \in Seq(SUBSET Kinds)

\* Operations of these kinds work under a debugger session that was opened before
\* them (runDialogAwareTargetOperation); the others open one themselves, if any.
DialogAware == Kinds \ {"snapshot", "screenshot", "getConsoleLogs"}

TakesRef == {"click", "hover", "type", "drag", "selectOption", "uploadFile", "downloadFile"}

-----------------------------------------------------------------------------
(* State *)

\* A document with its content runtime: the epoch of its refState (0: none), the
\* mark in its title, and (history) every epoch its snapshots were given.
Document(runtime) == [runtime |-> runtime, epoch |-> 0, given |-> {}, ui |-> "off"]
NoDocument == Document(FALSE)

\* `back` is the document that the back/forward cache keeps, `left` whether
\* there is one.  "started": a navigation is under way, "loading": it has
\* committed; tab.status is "complete" only when it is "idle".
Fresh == [open |-> TRUE, doc |-> Document(TRUE), left |-> FALSE, back |-> NoDocument,
          nav |-> "idle"]
Closed == [Fresh EXCEPT !.open = FALSE, !.doc = NoDocument]

NotOperating == [tab |-> NoTab, token |-> 0]

\* Three reads of the target: `mark`, the tab that is marked; `session`, the tab that
\* the debugger is attached to (NoTab: none yet, or the command's own); and `tab`,
\* the tab that the command works on.  `attach`: the session is still to be opened.
NoOp == [stage |-> "none", token |-> 0, mark |-> NoTab, attach |-> FALSE, session |-> NoTab,
         tab |-> NoTab, ref |-> 0, todo |-> <<>>, tries |-> 2,
         point |-> FALSE, epoch |-> 0, url |-> TRUE, fresh |-> FALSE, committed |-> FALSE,
         watch |-> "off", guid |-> NoDownload, begun |-> {}, ended |-> {},
         snapshot |-> TRUE, result |-> "none"]

Init ==
  /\ tab = [t \in Tabs |-> Fresh]
  /\ target = NoTab /\ gone = NoTab
  /\ operating = NotOperating
  /\ refEpoch = [t \in Tabs |-> 0]
  /\ generation = 0
  /\ op = NoOp
  /\ selection = <<>>
  /\ ops = 0
  /\ events = 0

Event == events < MaxEvents /\ ops + events < MaxBoth /\ events' = events + 1

\* The content runtime of a tab answers; Complete: tab.status.
Answers(t) == tab[t].open /\ tab[t].doc.runtime
Complete(t) == tab[t].open /\ tab[t].nav = "idle"

\* Slip: the content runtime does not compare the ref's epoch with its own.
ResolvesAny(t, ref) == Answers(t) /\ tab[t].doc.epoch # 0

\* resolveAriaRef
Resolves(t, ref) == Answers(t) /\ tab[t].doc.epoch = ref

\* The listener of the content runtime: whether it can serve the message of this
\* step.  It resolves a ref anew in each message that names one.
RefSteps == {"prepare", "verify", "verifyOnce", "options", "perform"}
Handles == Answers(op.tab) /\ (Head(op.todo) \in RefSteps => Resolves(op.tab, op.ref))

\* requireUnchangedTarget, and requireCurrentAriaRef for an operation with a ref.
Unchanged == target = op.tab /\ tab[op.tab].open
Current == op.ref = 0 \/ refEpoch[op.tab] = op.ref

\* agentUiStateForTab
UiState(t) ==
  IF target # t THEN "off" ELSE IF operating.tab = t THEN "operating" ELSE "target"

\* syncAgentUiForTab: a tab that is loading, or gone, is passed over.
SyncUi(t) ==
  tab' = IF t # NoTab /\ Complete(t)
         THEN [tab EXCEPT ![t].doc.runtime = TRUE, ![t].doc.ui = UiState(t)]
         ELSE tab

-----------------------------------------------------------------------------
(* The queue *)

\* The operation is called.
Called(o) == [o EXCEPT !.stage = IF o.attach THEN "attach" ELSE "target", !.attach = FALSE]

\* runPageOperation starts the next operation, and reads the target: getTargetTabId.
\* Without a target there is no mark.  A ref is any that was ever handed out.
Begin(kind) ==
  /\ op.stage = "none" /\ ops + events < MaxBoth
  /\ ops < Len(Calls) /\ kind \in Calls[ops + 1]
  /\ ops' = ops + 1
  /\ \E ref \in IF kind \in TakesRef THEN 1..generation ELSE {0} :
       LET begun == [NoOp EXCEPT !.attach = kind \in DialogAware, !.ref = ref, !.todo = Program[kind]]
       IN op' = IF target # NoTab /\ tab[target].open
                THEN [begun EXCEPT !.stage = "mark", !.token = ops', !.mark = target]
                ELSE Called(begun)
  /\ UNCHANGED <<tab, target, gone, operating, refEpoch, generation, selection, events>>

\* beginOperatingTarget
Mark ==
  /\ op.stage = "mark"
  /\ operating' = [tab |-> op.mark, token |-> op.token]
  /\ op' = [op EXCEPT !.stage = "begin"]
  /\ UNCHANGED <<tab, target, gone, refEpoch, generation, selection, ops, events>>

BeginSync ==
  /\ op.stage = "begin"
  /\ SyncUi(op.mark)
  /\ op' = Called(op)
  /\ UNCHANGED <<target, gone, operating, refEpoch, generation, selection, ops, events>>

\* What is left of an operation that has ended.
Ended(o, result) ==
  [o EXCEPT !.stage = "finish", !.result = result, !.todo = <<>>, !.ref = 0, !.tries = 2]

\* The rest of the program after a step, and its end.
Goes(o) ==
  IF Tail(o.todo) = <<>> THEN Ended(o, "ok") ELSE [o EXCEPT !.todo = Tail(@)]

Fails(o, result) ==
  Ended([NoOp EXCEPT !.token = o.token, !.mark = o.mark, !.watch = o.watch], result)

\* getTargetTab
HasTarget == target # NoTab /\ tab[target].open

\* runDialogAwareTargetOperation reads the target for its debugger session, which
\* may fail to attach ...
Attach ==
  /\ op.stage = "attach"
  /\ \/ HasTarget /\ op' = [op EXCEPT !.stage = "target", !.session = target]
     \/ op' = Fails(op, "error")
  /\ UNCHANGED <<tab, target, gone, operating, refEpoch, generation, selection, ops, events>>

\* ... and the command itself reads the target that it works on.
ReadTarget ==
  /\ op.stage = "target"
  /\ op' = IF HasTarget THEN [op EXCEPT !.stage = "run", !.tab = target] ELSE Fails(op, "error")
  /\ UNCHANGED <<tab, target, gone, operating, refEpoch, generation, selection, ops, events>>

\* downloadFileTarget: after the click every error is an unknown outcome, and the
\* snapshot's own failure is kept until the download is settled.
FailsAfterClick(o) ==
  IF o.watch # "off" /\ o.todo # <<"settle">>
  THEN [o EXCEPT !.todo = <<"settle">>, !.snapshot = FALSE]
  ELSE Fails(o, IF o.watch = "off" THEN "error" ELSE "unknown")

Step(s) == op.stage = "run" /\ Head(op.todo) = s

\* An operation takes its next step, or fails when it may not go on.
Proceeds(allowed, next) == op' = IF allowed THEN Goes(next) ELSE FailsAfterClick(op)

\* finishOperatingTarget takes back the mark that carries this operation's token.
Finish ==
  /\ op.stage = "finish"
  /\ IF op.mark # NoTab /\ operating.token = op.token
     THEN operating' = NotOperating /\ op' = [NoOp EXCEPT !.stage = "sync", !.mark = op.mark]
     ELSE op' = NoOp /\ UNCHANGED operating
  /\ UNCHANGED <<tab, target, gone, refEpoch, generation, selection, ops, events>>

\* ... and brings the tab's indicator up to date, then the target's.
FinishSync ==
  /\ op.stage \in {"sync", "syncTarget"}
  /\ SyncUi(IF op.stage = "sync" THEN op.mark ELSE target)
  /\ op' = IF op.stage = "sync" /\ target \notin {op.mark, NoTab}
           THEN [op EXCEPT !.stage = "syncTarget"] ELSE NoOp
  /\ UNCHANGED <<target, gone, operating, refEpoch, generation, selection, ops, events>>

-----------------------------------------------------------------------------
(* The steps *)

kept == <<target, gone, operating, generation, selection, ops, events>>

\* ensureContentRuntime; a runtime that is injected asks for its tab's state.
Injected(t) ==
  IF tab[t].doc.runtime THEN tab
  ELSE [tab EXCEPT ![t].doc.runtime = TRUE, ![t].doc.ui = UiState(t)]

\* waitForContentRuntimeTab returns, or gives up on a tab that is loading or gone.
Loads == Complete(op.tab)

Enter ==
  /\ Step("enter")
  /\ tab' = IF Loads /\ Unchanged THEN Injected(op.tab) ELSE tab
  /\ Proceeds(Loads /\ Unchanged /\ Current, op)
  /\ UNCHANGED <<refEpoch, kept>>

\* The runtime takes the point of the ref's element, or refuses: it is gone, is
\* another by now, or is not to be clicked.
Prepare ==
  /\ Step("prepare")
  /\ \/ Handles /\ op' = Goes([op EXCEPT !.point = TRUE])
     \/ op' = FailsAfterClick(op)
  /\ UNCHANGED <<tab, refEpoch, kept>>

Check ==
  /\ Step("check")
  /\ Proceeds(Unchanged /\ Current, op)
  /\ UNCHANGED <<tab, refEpoch, kept>>

\* refAtPoint: the ref's element is still where it was measured.
AtPoint == Handles /\ op.point

\* After the cursor settled: an element that moved is measured again
\* once; the start of a drag is not.
Verify ==
  /\ Step("verify") \/ Step("verifyOnce")
  /\ IF Handles /\ ~op.point /\ op.tries = 2 /\ Step("verify")
     THEN op' = [op EXCEPT !.tries = 1, !.todo = <<"prepare", "check">> \o @]
     ELSE Proceeds(AtPoint, [op EXCEPT !.tries = 2, !.point = FALSE])
  /\ UNCHANGED <<tab, refEpoch, kept>>

\* A message to the page or a command of the debugger that is answered in its time,
\* which takes what it is sent to; or is not.
Does(s, able) ==
  /\ Step(s)
  /\ \/ able /\ op' = Goes(op)
     \/ op' = FailsAfterClick(op)
  /\ UNCHANGED <<tab, refEpoch, kept>>

\* What is sent through the session is taken by the tab that it was opened for.
Attached == tab[op.session].open

\* showCursorPress and dispatchTrustedClick, then what is typed; dispatchMouseMove;
\* dispatchTrustedDrag, which tells the page of every move; dispatchKeyChord.
Press == Does("press", Handles /\ Attached)
Move == Does("move", Attached)
DragAndDrop == Does("drag", Handles /\ Attached)
Chord == Does("chord", Attached)

\* The options that are to be selected; performSelectOptions resolves the ref again,
\* and acts in the same step.
PrepareOptions == Does("options", Handles)
Perform == Does("perform", Handles)

\* The file chooser opens, and its input takes the files.
Choose == Does("choose", Attached)

\* waitForAriaText goes with its document.
AwaitText == Does("text", Handles /\ Unchanged)

Shoot == Does("shoot", TRUE)
Resize == Does("resize", Handles /\ Unchanged)
Listen == Does("listen", Unchanged)

\* downloadFileTarget starts its observer with the click.
ClickDownload ==
  /\ Step("click")
  /\ LET clicked == [op EXCEPT !.watch = "on"]
     IN \/ op' = Fails(op, "error")
        \/ Handles /\ Attached /\ op' \in {Goes(clicked), Fails(clicked, "unknown")}
  /\ UNCHANGED <<tab, refEpoch, kept>>

\* waitAfterPageOperation: that the DOM does not settle, or its document goes, is
\* no error; a tab that does not load is.
Loaded ==
  /\ Step("loads")
  /\ Proceeds(Loads /\ Unchanged, op)
  /\ UNCHANGED <<tab, refEpoch, kept>>

\* navigateAndCapture drops the refs, then asks the tab to navigate.
Leave ==
  /\ Step("leave")
  /\ Proceeds(Unchanged, op)
  /\ refEpoch' = IF Unchanged THEN [refEpoch EXCEPT ![op.tab] = 0] ELSE refEpoch
  /\ UNCHANGED <<tab, kept>>

AskToNavigate ==
  /\ Step("navigate")
  /\ \/ /\ tab[op.tab].open
        /\ tab' = [tab EXCEPT ![op.tab].nav = "started"]
        /\ op' = Goes(op)
     \/ op' = Fails(op, "error") /\ UNCHANGED tab
  /\ UNCHANGED <<refEpoch, kept>>

\* topFrameNavigation: a commit in the tab; or an error, or the deadline, which
\* stops the load.
AwaitCommit ==
  /\ Step("commit")
  /\ \/ op.committed /\ op' = Goes([op EXCEPT !.committed = FALSE]) /\ UNCHANGED tab
     \/ /\ op' = Fails(op, "error")
        /\ tab' = IF tab[op.tab].open THEN [tab EXCEPT ![op.tab].nav = "idle"] ELSE tab
  /\ UNCHANGED <<refEpoch, kept>>

-----------------------------------------------------------------------------
(* captureSnapshotForTarget *)

\* clearSnapshotState
Forgotten(doc) == [doc EXCEPT !.epoch = 0]

\* Without a current epoch, the runtime forgets its refs.
ReadEpoch ==
  /\ Step("epoch")
  /\ Proceeds(Loads /\ Unchanged, op)
  /\ tab' = IF ~(Loads /\ Unchanged) THEN tab
            ELSE IF refEpoch[op.tab] = 0 THEN [Injected(op.tab) EXCEPT ![op.tab].doc = Forgotten(@)]
            ELSE Injected(op.tab)
  /\ UNCHANGED <<refEpoch, kept>>

\* generateSnapshot: refs carry the generation of the document's first snapshot.
Snapshot(doc, g) ==
  LET epoch == IF doc.epoch = 0 THEN g ELSE doc.epoch
  IN [doc EXCEPT !.epoch = epoch, !.given = @ \cup {epoch}]

\* Slip: the runtime numbers its refs anew, and the background keeps the first epoch.
GenerateRenamed ==
  /\ Step("generate")
  /\ generation' = generation + 1
  /\ IF Answers(op.tab)
     THEN /\ tab' = [tab EXCEPT ![op.tab].doc = [Snapshot(@, generation') EXCEPT !.epoch = generation']]
          /\ op' = Goes([op EXCEPT !.epoch = IF refEpoch[op.tab] = 0 THEN generation' ELSE refEpoch[op.tab],
                                   !.url = TRUE, !.fresh = TRUE])
     ELSE op' = FailsAfterClick(op) /\ UNCHANGED tab
  /\ UNCHANGED <<target, gone, operating, refEpoch, selection, ops, events>>

\* nextSnapshotGeneration, and the snapshot that the document answers with; the answer
\* may not come, or not before the deadline of a navigation.
Generate ==
  /\ Step("generate")
  /\ generation' = generation + 1
  /\ \/ /\ Handles
        /\ tab' = [tab EXCEPT ![op.tab].doc = Snapshot(@, generation')]
        /\ op' = Goes([op EXCEPT !.epoch = tab'[op.tab].doc.epoch, !.url = TRUE, !.fresh = TRUE])
     \/ op' = FailsAfterClick(op) /\ UNCHANGED tab
  /\ UNCHANGED <<target, gone, operating, refEpoch, selection, ops, events>>

\* tabs.get must show the document of the snapshot; otherwise the refs are
\* dropped, and the snapshot is taken once more.
Compare ==
  /\ Step("compare")
  /\ IF Unchanged /\ ~(Complete(op.tab) /\ op.url)
     THEN /\ refEpoch' = [refEpoch EXCEPT ![op.tab] = 0]
          /\ op' = IF op.tries = 2
                   THEN [op EXCEPT !.tries = 1, !.todo = <<"epoch", "generate">> \o @]
                   ELSE FailsAfterClick(op)
     ELSE Proceeds(Unchanged, op) /\ UNCHANGED refEpoch
  /\ UNCHANGED <<tab, kept>>

Store ==
  /\ Step("store")
  /\ refEpoch' = [refEpoch EXCEPT ![op.tab] = op.epoch]
  /\ op' = Goes(op)
  /\ UNCHANGED <<tab, kept>>

-----------------------------------------------------------------------------
(* The download that an operation waits for: observeTargetDownload *)

Watching == op.watch = "on" /\ op.stage = "run"

\* The observer rejects; which downloads it has seen is of no use any more.
Unobserved == [op EXCEPT !.watch = "failed", !.guid = NoDownload, !.begun = {}, !.ended = {}]

\* Page.downloadWillBegin: a second download makes the click ambiguous.
DownloadBegins(d) ==
  /\ Watching /\ d \notin op.begun \cup op.ended
  /\ op' = IF op.guid = NoDownload THEN [op EXCEPT !.begun = {d}, !.guid = d] ELSE Unobserved
  /\ UNCHANGED <<tab, refEpoch, kept>>

\* Slip: any download that completes is taken for the one that was asked for.
AnyDownloadCompletes(d) ==
  /\ Watching /\ d \notin op.ended
  /\ op' = [op EXCEPT !.ended = @ \cup {d}, !.guid = d, !.watch = "complete"]
  /\ UNCHANGED <<tab, refEpoch, kept>>

\* Page.downloadProgress with the state "completed", also of a download that had
\* begun before the click.
DownloadCompletes(d) ==
  /\ Watching /\ d \notin op.ended
  /\ op' = [op EXCEPT !.ended = @ \cup {d}, !.watch = IF op.guid = d THEN "complete" ELSE @]
  /\ UNCHANGED <<tab, refEpoch, kept>>

\* The download is cancelled, the debugger detaches, or the timeout passes.
DownloadFails ==
  /\ Watching
  /\ op' = Unobserved
  /\ UNCHANGED <<tab, refEpoch, kept>>

\* Both outcomes are known: success needs the download, the snapshot and the target.
Settled ==
  /\ Step("settle") /\ op.watch # "on"
  /\ Proceeds(op.watch = "complete" /\ op.snapshot /\ Unchanged, op)
  /\ UNCHANGED <<tab, refEpoch, kept>>

-----------------------------------------------------------------------------
(* The browser, the user and other calls *)

StartNavigation(t) ==
  /\ Event
  /\ Complete(t)
  /\ tab' = [tab EXCEPT ![t].nav = "started"]
  /\ UNCHANGED <<target, gone, operating, refEpoch, generation, op, selection, ops>>

\* A tab that gets another URL before the snapshot is compared with it, and the
\* listeners of topFrameNavigation.
SeesUrl(sameUrl) ==
  [op EXCEPT !.url = Step("compare") => sameUrl,
             !.committed = Step("navigate") \/ Step("commit")]

\* What the running operation may see of a commit in its tab.
SeesCommit(t, sameUrl) ==
  IF op.tab = t THEN [SeesUrl(sameUrl) EXCEPT !.fresh = FALSE, !.point = FALSE] ELSE op

\* webNavigation.onCommitted: a new document, or the one that was left before,
\* with its content runtime and all.  Either way the tab's refs are dropped.
Commit(t) ==
  /\ tab[t].nav = "started"
  /\ \E restored \in {FALSE, tab[t].left}, cached \in BOOLEAN :
       tab' = [tab EXCEPT ![t].doc = IF restored THEN tab[t].back ELSE NoDocument,
                          ![t].back = IF cached THEN tab[t].doc ELSE NoDocument,
                          ![t].left = cached,
                          ![t].nav = IF restored THEN "idle" ELSE "loading"]
  /\ refEpoch' = [refEpoch EXCEPT ![t] = 0]
  /\ \E sameUrl \in BOOLEAN : op' = SeesCommit(t, sameUrl)
  /\ UNCHANGED kept

\* The load ends, or a navigation comes to nothing.
Settle(t) ==
  /\ tab[t].nav # "idle"
  /\ tab' = [tab EXCEPT ![t].nav = "idle"]
  /\ UNCHANGED <<refEpoch, op, kept>>

\* document_idle: the manifest's content script starts the runtime.
DocumentIdle(t) ==
  /\ tab[t].open /\ ~tab[t].doc.runtime
  /\ tab' = Injected(t)
  /\ UNCHANGED <<refEpoch, op, kept>>

\* history.pushState; the layout of the page shifts.
UrlChanges ==
  /\ Step("compare") \/ Step("navigate") \/ Step("commit")
  /\ op' = SeesUrl(FALSE)
  /\ UNCHANGED <<tab, refEpoch, kept>>

PageMoves ==
  /\ op.point
  /\ op' = [op EXCEPT !.point = FALSE]
  /\ UNCHANGED <<tab, refEpoch, kept>>

\* tabs.onRemoved, and tabs.close: the first step of handleTabRemoved.
CloseTab(t) ==
  /\ Event
  /\ tab[t].open
  /\ tab' = [tab EXCEPT ![t] = Closed]
  /\ refEpoch' = [refEpoch EXCEPT ![t] = 0]
  /\ op' = IF op.tab = t THEN [op EXCEPT !.fresh = FALSE] ELSE op
  /\ UNCHANGED <<target, gone, operating, generation, selection, ops>>

\* clearTargetTabIfClosed, or getTargetTabId on any occasion, reads a target whose tab
\* is closed, and then removes what is stored by then.
ReadGone ==
  /\ gone = NoTab /\ target # NoTab /\ ~tab[target].open
  /\ gone' = target
  /\ UNCHANGED <<tab, target, operating, refEpoch, generation, op, selection, ops, events>>

RemoveGone ==
  /\ gone # NoTab
  /\ target' = NoTab /\ operating' = NotOperating
  /\ refEpoch' = [refEpoch EXCEPT ![gone] = 0]
  /\ gone' = NoTab
  /\ UNCHANGED <<tab, generation, op, selection, ops, events>>

\* tabs.select, or tabs.open and ensureNavigationTarget when there is no target:
\* setTargetTabId.  The first one is not bounded.
SelectTab(t) ==
  /\ \/ ops = 0 /\ target = NoTab /\ UNCHANGED events
     \/ Event
  /\ selection = <<>> /\ tab[t].open
  /\ target' = t
  /\ selection' = IF target \in {t, NoTab} THEN <<t>> ELSE <<target, t>>
  /\ UNCHANGED <<tab, gone, operating, refEpoch, generation, op, ops>>

SyncSelection ==
  /\ selection # <<>>
  /\ SyncUi(Head(selection))
  /\ selection' = Tail(selection)
  /\ UNCHANGED <<target, gone, operating, refEpoch, generation, op, ops, events>>

\* Slip: the mark of the operation that was lost is left behind.
RestartUnrecovered ==
  /\ Event
  /\ op' = NoOp
  /\ selection' = IF target = NoTab THEN <<>> ELSE <<target>>
  /\ UNCHANGED <<tab, target, gone, operating, refEpoch, generation, ops>>

\* The service worker stops and starts again: what it was doing is lost, and
\* recoverAgentUiState takes the mark back before anything else is handled.
Restart ==
  /\ Event
  /\ op' = NoOp
  /\ operating' = NotOperating
  /\ gone' = NoTab
  /\ selection' = IF target = NoTab THEN <<>> ELSE <<target>>
  /\ UNCHANGED <<tab, target, refEpoch, generation, ops>>

Next ==
  \/ \E kind \in Kinds : Begin(kind)
  \/ Mark \/ BeginSync \/ Attach \/ ReadTarget \/ Finish \/ FinishSync
  \/ Enter \/ Prepare \/ Check \/ Verify \/ Press \/ Move \/ DragAndDrop \/ Chord
  \/ PrepareOptions \/ Perform \/ Choose \/ AwaitText \/ Shoot \/ Resize \/ Listen \/ ClickDownload
  \/ Loaded \/ Leave \/ AskToNavigate \/ AwaitCommit
  \/ ReadEpoch \/ Generate \/ Compare \/ Store
  \/ \E d \in Downloads : DownloadBegins(d) \/ DownloadCompletes(d)
  \/ DownloadFails \/ Settled
  \/ \E t \in Tabs :
       \/ StartNavigation(t) \/ Commit(t) \/ Settle(t) \/ DocumentIdle(t)
       \/ CloseTab(t) \/ SelectTab(t)
  \/ UrlChanges \/ PageMoves
  \/ ReadGone \/ RemoveGone \/ SyncSelection \/ Restart

Spec == Init /\ [][Next]_vars

-----------------------------------------------------------------------------
(* Properties *)

\* A ref is only ever resolved in the document whose snapshot gave it out: not in
\* the next document of the tab, in another tab's, or in one that was left and is
\* back, whatever navigations, selections and restarts lie between.
RefsOfTheirDocument ==
  [][ \A s \in RefSteps :
        Step(s) /\ op'.stage = "run" /\ op'.todo = Tail(op.todo)
          => op.ref \in tab[op.tab].doc.given /\ refEpoch[op.tab] \in {0, op.ref} ]_vars

\* The refs of a snapshot that is returned are good for the next operation: unless
\* the tab has another document since, the background and the content runtime
\* agree on their epoch, also if refs were given out in the document before.
SnapshotUsable ==
  op.stage = "finish" /\ op.result = "ok" /\ op.fresh
    => refEpoch[op.tab] = op.epoch /\ tab[op.tab].doc.epoch = op.epoch

\* The operating mark is stored only for the operation that runs, and carries its
\* token and the tab that was the target when it began, whatever it works on: an
\* operation that fails, loses its tab or dies with the worker leaves none.
MarkNamesTheRunner ==
  operating # NotOperating
    => op.stage \in {"begin", "attach", "target", "run", "finish"}
       /\ operating = [tab |-> op.mark, token |-> op.token]

\* downloadFile succeeds only with the one download that began with its click and
\* completed, and once the click is under way every failure is reported as unknown,
\* whatever failed: the click, the load, the snapshot, the target, the download.
DownloadAnswersTruly ==
  /\ op.result = "ok" /\ op.watch # "off" => op.begun = {op.guid} /\ op.guid \in op.ended
  /\ op.result = "error" => op.watch = "off"

=============================================================================
