-------------------------- MODULE DialogOperation --------------------------
(***************************************************************************)
(* Page operations of the extension and the native dialogs they open: the   *)
(* operation queue, the debugger session that is kept while a dialog waits  *)
(* for its answer, and the marker that keeps other operations away from it  *)
(* (apps/extension/background.js).                                          *)
(*                                                                          *)
(* JavaScript runs one callback at a time, and everything a callback has    *)
(* made ready before the next one: steps that wait for Chrome, the page,    *)
(* the user or a client wait for Quiet.  A storage call takes effect when   *)
(* it is made, and the calls are answered in the order in which they were.  *)
(*                                                                          *)
(* A dialog stands for the dialog, its entry and its ref: each has one of   *)
(* its own.  Operations act on any tab, which covers every choice of a      *)
(* target.  Pages open dialogs while an operation works on them; those that *)
(* open between operations are beyond docs/concepts/browser-dialogs.md.     *)
(***************************************************************************)
EXTENDS Integers, Sequences, FiniteSets

CONSTANTS
  Ops,         \* page operations, each run once
  Responds,    \* callers of browser_dialog_respond, again and again
  Snapshots,   \* callers of browser_snapshot, again and again
  Tabs,
  None,
  MaxDialogs,  \* bound: dialogs that are opened
  MaxFaults,   \* bound: lost debugger sessions, closed tabs, replaced workers
  MaxEvents    \* bound: operations, dialogs and faults together

Dialogs == 1 .. MaxDialogs

ASSUME BoundsValid == MaxDialogs \in Nat /\ MaxFaults \in Nat
ASSUME NoneFresh == None \notin Ops \cup Tabs
\* 0 stands for no dialog.
ASSUME TasksDisjoint ==
  /\ Ops \cap (Responds \cup Snapshots \cup Tabs \cup 0 .. MaxDialogs) = {}
  /\ Responds \cap (Snapshots \cup Tabs \cup 0 .. MaxDialogs) = {}
  /\ Snapshots \cap (Tabs \cup 0 .. MaxDialogs) = {}
  /\ Tabs \cap 0 .. MaxDialogs = {}

VARIABLES
  queue,    \* pageOperationQueue: the operation that runs, then those that wait
  at,       \* where each task stands: operations, responses, snapshots, the
            \* watcher of each dialog, the handler of each tab's removal
  mine,     \* its locals: the operation, dialog and marker it works with
  held,     \* retainedDialogOperation
  op,       \* what belongs to each operation, see NewOp
  closed,   \* the dialogs whose entry.closed is resolved
  storage,  \* the tasks whose call of chrome.storage.local is not answered yet
  marker,   \* the tab of the stored retainedDialog
  tabs,     \* the tabs there are
  dialog,   \* the native dialog each tab shows, 0 if none
  opened,   \* how many have been opened
  faults    \* how many faults have struck

world == <<tabs, dialog, opened, faults>>
vars == <<queue, at, mine, held, op, closed, storage, marker, world>>

Tasks == Ops \cup Responds \cup Snapshots \cup Tabs \cup Dialogs

\* Its tab; the debugger session; operationOutcome; the observer with the events
\* under way to it, the openings nobody has taken yet and detached; and held's
\* entry, state, terminalError and responding.
NewOp == [tab |-> None, session |-> "none", body |-> "none",
          listening |-> FALSE, events |-> <<>>, openings |-> <<>>, detached |-> FALSE,
          entry |-> 0, shown |-> 0, terminal |-> FALSE, responding |-> FALSE]

Locals(w) == [op |-> IF w \in Ops THEN w ELSE None, dialog |-> 0, marker |-> None]

Init ==
  /\ queue = <<>>
  /\ at = [w \in Tasks |-> "idle"]
  /\ mine = [w \in Tasks |-> Locals(w)]
  /\ held = None
  /\ op = [p \in Ops |-> NewOp]
  /\ closed = {}
  /\ storage = <<>>
  /\ marker = None
  /\ tabs = Tabs
  /\ dialog = [t \in Tabs |-> 0]
  /\ opened = 0
  /\ faults = 0

-----------------------------------------------------------------------------
(* Helpers *)

Mine(w) == op[mine[w].op]
Over(o) == o.body = "over"
Attached(o) == o.session \in {"open", "closing"}
Shows(t) == t \in tabs /\ dialog[t] # 0

\* A callback has made this task ready to go on.
Ready(w) ==
  \/ at[w] = "queued" /\ Head(queue) = w
  \/ at[w] \in {"racing", "advancing"} /\ (Over(Mine(w)) \/ Mine(w).openings # <<>>)
  \/ at[w] = "retained" /\ op[w].detached
  \/ at[w] = "awaiting" /\ mine[w].dialog \in closed
  \/ at[w] = "armed" /\ w \in closed

Quiet == \A w \in Tasks : ~Ready(w)

\* The task is the next whose storage call is answered.
Answered(w) == Quiet /\ storage # <<>> /\ Head(storage) = w

Goto(w, phase) == at' = [at EXCEPT ![w] = phase]

\* observer.cleanup: what Chrome still sends is nobody's any more.
Deaf(o) == [o EXCEPT !.listening = FALSE, !.events = <<>>, !.openings = <<>>]

\* ... and session.close: refused to new work at once, detached when the work
\* that is active has ended.  The Page.disable sent first is work of the session
\* too: it is part of what close() waits for.
LetGo(o) == [Deaf(o) EXCEPT !.session = CASE @ = "open" -> "closing"
                                          [] @ = "lost" -> "closed"
                                          [] OTHER -> @]

\* Chrome sends an event to whoever listens.
Notify(o, kind, d) ==
  IF o.listening THEN [o EXCEPT !.events = Append(@, <<kind, d>>)] ELSE o

ReadMarker(w, t) ==
  /\ mine' = [mine EXCEPT ![w].marker = marker, ![w].op = t]
  /\ storage' = Append(storage, w)

\* The operation ends, and the next one in the queue may start.
EndOp(p) == Goto(p, "done") /\ queue' = Tail(queue)

\* A response returns or raises, a watcher has nothing more to do.
Finish(w, o) ==
  /\ op' = [op EXCEPT ![mine[w].op] =
              [o EXCEPT !.responding = IF w \in Responds THEN FALSE ELSE @]]
  /\ Goto(w, IF w \in Responds THEN "idle" ELSE "done")
  /\ mine' = [mine EXCEPT ![w] = Locals(w)]

-----------------------------------------------------------------------------
(* runPageOperation and runDialogAwareTargetOperation *)

\* The bound on what happens.
More == Cardinality({p \in Ops : at[p] # "idle"}) + opened + faults < MaxEvents

\* Operations are alike: any one that was not called may stand for the next.
Request(p) ==
  /\ Quiet
  /\ More
  /\ at[p] = "idle" /\ p = (CHOOSE q \in Ops : at[q] = "idle")
  /\ Goto(p, "queued")
  /\ queue' = Append(queue, p)
  /\ UNCHANGED <<mine, held, op, closed, storage, marker, world>>

\* Slip: an operation that is refused while a dialog is held keeps its turn.
StartInVain(p) ==
  /\ at[p] = "queued" /\ Head(queue) = p
  /\ IF held # None
     THEN Goto(p, "done") /\ UNCHANGED <<mine, storage>>
     ELSE Goto(p, "checking") /\ ReadMarker(p, p)
  /\ UNCHANGED <<queue, held, op, closed, marker, world>>

\* Its turn has come.
Start(p) ==
  /\ at[p] = "queued" /\ Head(queue) = p
  /\ IF held # None
     THEN EndOp(p) /\ UNCHANGED <<mine, storage>>
     ELSE Goto(p, "checking") /\ ReadMarker(p, p) /\ UNCHANGED queue
  /\ UNCHANGED <<held, op, closed, marker, world>>

Checked(p) ==
  /\ Answered(p)
  /\ at[p] = "checking"
  /\ storage' = Tail(storage)
  /\ mine' = [mine EXCEPT ![p] = Locals(p)]
  /\ IF mine[p].marker # None THEN EndOp(p) ELSE Goto(p, "starting") /\ UNCHANGED queue
  /\ UNCHANGED <<held, op, closed, marker, world>>

\* A debugger is attached to the target, or there is no target or no attaching.
Attach(p) ==
  /\ Quiet
  /\ at[p] = "starting"
  /\ \/ \E t \in tabs :
          /\ held = None
          /\ \A q \in Ops : ~(Attached(op[q]) /\ op[q].tab = t)
          /\ Goto(p, "enabling")
          /\ op' = [op EXCEPT ![p].tab = t, ![p].session = "open", ![p].listening = TRUE]
          /\ UNCHANGED queue
     \/ EndOp(p) /\ UNCHANGED op
  /\ UNCHANGED <<mine, held, closed, storage, marker, world>>

\* The finally of an operation that is not retained.
Leave(p) ==
  /\ Goto(p, "leaving")
  /\ op' = [op EXCEPT ![p] = LetGo(@)]
  /\ UNCHANGED <<mine, held, marker, storage>>

\* Page.enable is answered, though not while the tab shows a dialog, and the
\* operation's own work starts.
Enable(p) ==
  /\ Quiet
  /\ at[p] = "enabling"
  /\ \/ /\ op[p].session = "open" /\ ~Shows(op[p].tab)
        /\ Goto(p, "racing")
        /\ op' = [op EXCEPT ![p].body = "running"]
        /\ UNCHANGED <<mine, held, marker, storage>>
     \/ op[p].session # "open" /\ Leave(p)
  /\ UNCHANGED <<queue, closed, world>>

\* The race against the first dialog is won by the operation.
RaceOutcome(p) ==
  /\ at[p] = "racing"
  /\ Over(op[p])
  /\ Leave(p)
  /\ UNCHANGED <<queue, closed, world>>

\* The state of the first dialog is stored: watchers are set up and it is
\* returned, unless the removal of the tab took the operation away meanwhile.
Promoted(p) ==
  LET d == mine[p].dialog
  IN /\ Answered(p)
     /\ at[p] = "persisting"
     /\ storage' = Tail(storage)
     /\ mine' = [mine EXCEPT ![d].op = p, ![p] = Locals(p)]
     /\ IF held = p
        THEN /\ at' = [at EXCEPT ![d] = "armed", ![p] = "retained"]
             /\ queue' = Tail(queue)
             /\ UNCHANGED op
        ELSE /\ at' = [at EXCEPT ![d] = "armed", ![p] = "leaving"]
             /\ op' = [op EXCEPT ![p] = LetGo(@)]
             /\ UNCHANGED queue
     /\ UNCHANGED <<held, closed, marker, world>>

Left(p) ==
  /\ Quiet
  /\ at[p] = "leaving" /\ op[p].session = "closed"
  /\ EndOp(p)
  /\ UNCHANGED <<mine, held, op, closed, storage, marker, world>>

-----------------------------------------------------------------------------
(* respondToBrowserDialog, advanceRetainedDialogOperation and the watchers *)

\* persistRetainedDialogOperation
Persist(w) ==
  /\ marker' = Mine(w).tab
  /\ storage' = Append(storage, w)

\* The last two lines of closeRetainedDialogOperation.
Release(w, phase) ==
  /\ held' = IF held = mine[w].op THEN None ELSE held
  /\ marker' = None
  /\ storage' = Append(storage, w)
  /\ Goto(w, phase)
  /\ UNCHANGED mine

\* closeRetainedDialogOperation up to the first await that is not over at once;
\* a watcher that fails sets terminalError before it.
CloseRetained(w, closing, clearing) ==
  /\ op' = [op EXCEPT ![mine[w].op] =
              [LetGo(Mine(w)) EXCEPT !.terminal = @ \/ closing = "reclosing"]]
  /\ IF Mine(w).session = "open"
     THEN Goto(w, closing) /\ UNCHANGED <<mine, held, marker, storage>>
     ELSE Release(w, clearing)

\* The catch of respondToBrowserDialog.
Throw(w) ==
  /\ IF held # mine[w].op
     THEN Finish(w, Mine(w)) /\ UNCHANGED <<marker, storage>>
     ELSE /\ op' = [op EXCEPT ![held].terminal = TRUE]
          /\ Persist(w)
          /\ Goto(w, "interrupting")
          /\ UNCHANGED mine
  /\ UNCHANGED held

\* A response that gives the ref of the state on offer; any other raises.
Respond(w) ==
  /\ Quiet
  /\ at[w] = "idle"
  /\ held # None /\ ~op[held].terminal
  /\ Goto(w, "handling")
  /\ op' = [op EXCEPT ![held].responding = TRUE]
  /\ mine' = [mine EXCEPT ![w].op = held, ![w].dialog = op[held].shown]
  /\ UNCHANGED <<queue, held, closed, storage, marker, world>>

\* Page.handleJavaScriptDialog answers whatever dialog the tab shows, or fails;
\* then the entry of that moment is awaited.
Handled(w) ==
  LET p == mine[w].op
      t == op[p].tab
  IN /\ Quiet
     /\ at[w] = "handling"
     /\ IF Attached(op[p]) /\ Shows(t)
        THEN /\ dialog' = [dialog EXCEPT ![t] = 0]
             /\ op' = [op EXCEPT ![p] = Notify(@, "closed", dialog[t])]
             /\ mine' = [mine EXCEPT ![w].dialog = op[p].entry]
             /\ Goto(w, "awaiting")
             /\ UNCHANGED <<held, marker, storage>>
        ELSE Throw(w) /\ UNCHANGED dialog
     /\ UNCHANGED <<queue, closed, tabs, opened, faults>>

RespondClosed(w) ==
  /\ at[w] = "awaiting" /\ mine[w].dialog \in closed
  /\ Goto(w, "advancing")
  /\ UNCHANGED <<queue, mine, held, op, closed, storage, marker, world>>

\* The watcher of a dialog goes on unless a response does.
WatchClosed(d) ==
  /\ at[d] = "armed" /\ d \in closed
  /\ Goto(d, IF held = mine[d].op /\ Mine(d).entry = d /\ ~Mine(d).responding
             THEN "advancing" ELSE "done")
  /\ UNCHANGED <<queue, mine, held, op, closed, storage, marker, world>>

AdvanceOutcome(w) ==
  /\ at[w] = "advancing"
  /\ Over(Mine(w))
  /\ CloseRetained(w, "closing", "clearing")
  /\ UNCHANGED <<queue, closed, world>>

\* The operation's first dialog, or another one: it is the entry at once, its
\* state follows.
TakeDialog(w) ==
  LET p == mine[w].op
      d == Head(op[p].openings)
  IN /\ at[w] \in {"racing", "advancing"}
     /\ ~Over(op[p]) /\ op[p].openings # <<>>
     /\ Goto(w, "snapshotting")
     /\ op' = [op EXCEPT ![p].entry = d, ![p].openings = Tail(@)]
     /\ mine' = [mine EXCEPT ![w].dialog = d]
     /\ UNCHANGED <<queue, held, closed, storage, marker, world>>

\* dialogSnapshot is answered, or fails because the tab is gone.
Snapshotted(w) ==
  LET p == mine[w].op
  IN /\ Quiet
     /\ at[w] = "snapshotting"
     /\ IF op[p].tab \in tabs
        THEN /\ op' = [op EXCEPT ![p].shown = mine[w].dialog]
             /\ held' = IF w \in Ops THEN p ELSE held
             /\ Persist(w)
             /\ Goto(w, "persisting")
             /\ UNCHANGED mine
        ELSE CASE w \in Ops -> Leave(w)
               [] w \in Responds -> Throw(w)
               [] OTHER -> CloseRetained(w, "reclosing", "reclearing")
     /\ UNCHANGED <<queue, closed, world>>

\* Slip: `responding` is not reset when a response ends with another dialog.
AdvancedResponding(w) ==
  LET d == mine[w].dialog
  IN /\ Answered(w)
     /\ w \notin Ops /\ at[w] = "persisting"
     /\ storage' = Tail(storage)
     /\ at' = [at EXCEPT ![d] = "armed", ![w] = IF w \in Responds THEN "idle" ELSE "done"]
     /\ mine' = [mine EXCEPT ![d].op = mine[w].op, ![w] = Locals(w)]
     /\ UNCHANGED <<queue, held, op, closed, marker, world>>

\* The next dialog is watched, and its state returned.
Advanced(w) ==
  LET p == mine[w].op
      d == mine[w].dialog
      reply == w \in Responds
  IN /\ Answered(w)
     /\ w \notin Ops /\ at[w] = "persisting"
     /\ storage' = Tail(storage)
     /\ at' = [at EXCEPT ![d] = "armed", ![w] = IF reply THEN "idle" ELSE "done"]
     /\ op' = [op EXCEPT ![p].responding = IF reply THEN FALSE ELSE @]
     /\ mine' = [mine EXCEPT ![d].op = p, ![w] = Locals(w)]
     /\ UNCHANGED <<queue, held, closed, marker, world>>

\* closeRetainedDialogOperation goes on when the session is closed.
ClosedRetained(w) ==
  /\ Quiet
  /\ at[w] \in {"closing", "reclosing"}
  /\ Mine(w).session = "closed"
  /\ Release(w, IF at[w] = "closing" THEN "clearing" ELSE "reclearing")
  /\ UNCHANGED <<queue, op, closed, world>>

\* closeRetainedDialogOperation returns.  If the operation has failed, its
\* watcher closes it once more: that it fails after a late snapshot, with the
\* operation closed already, is the same step.
Cleared(w) ==
  /\ Answered(w)
  /\ at[w] \in {"clearing", "reclearing"}
  /\ \/ /\ w \in Dialogs /\ at[w] = "clearing"
        /\ Goto(w, "reclearing")
        /\ held' = IF held = mine[w].op THEN None ELSE held
        /\ marker' = None
        /\ storage' = Append(Tail(storage), w)
        /\ op' = [op EXCEPT ![mine[w].op].terminal = TRUE]
        /\ UNCHANGED mine
     \/ /\ Finish(w, Mine(w))
        /\ storage' = Tail(storage)
        /\ UNCHANGED <<held, marker>>
  /\ UNCHANGED <<queue, closed, world>>

\* watchRetainedDebuggerDetach
DetachSeen(p) ==
  /\ at[p] = "retained" /\ op[p].detached
  /\ IF held # p
     THEN Goto(p, "done") /\ UNCHANGED <<op, marker, storage>>
     ELSE /\ op' = [op EXCEPT ![p].terminal = TRUE]
          /\ Persist(p)
          /\ Goto(p, "interrupting")
  /\ UNCHANGED <<queue, mine, held, closed, world>>

\* Slip: only the observer is cleaned up, the session stays open.
InterruptedOpen(w) ==
  /\ Answered(w)
  /\ at[w] = "interrupting"
  /\ storage' = Tail(storage)
  /\ Finish(w, Deaf(Mine(w)))
  /\ UNCHANGED <<queue, held, closed, marker, world>>

\* The marker has been stored: the watcher of the detaching and a response that
\* failed let go of the session.  The response waits for the end of its close.
Interrupted(w) ==
  /\ Answered(w)
  /\ at[w] = "interrupting"
  /\ storage' = Tail(storage)
  /\ IF w \in Responds /\ Mine(w).session = "open"
     THEN /\ Goto(w, "leaving")
          /\ op' = [op EXCEPT ![mine[w].op] = LetGo(@)]
          /\ UNCHANGED mine
     ELSE Finish(w, LetGo(Mine(w)))
  /\ UNCHANGED <<queue, held, closed, marker, world>>

RespondLeft(w) ==
  /\ Quiet
  /\ w \in Responds /\ at[w] = "leaving" /\ Mine(w).session = "closed"
  /\ Finish(w, Mine(w))
  /\ UNCHANGED <<queue, held, closed, storage, marker, world>>

-----------------------------------------------------------------------------
(* page.snapshot while there is something to recover, and handleTabRemoved *)

\* Slip: a marker is recovered whether its operation is live or not.
SnapshotOfAny(c) ==
  /\ Quiet
  /\ at[c] = "idle"
  /\ held # None \/ marker # None
  /\ Goto(c, "reading")
  /\ ReadMarker(c, held)
  /\ UNCHANGED <<queue, held, op, closed, marker, world>>

\* A live dialog's state is returned at once, and a snapshot without any dialog
\* is a page operation: neither is this action.
Snapshot(c) ==
  /\ Quiet
  /\ at[c] = "idle"
  /\ IF held # None THEN op[held].terminal ELSE marker # None
  /\ Goto(c, "reading")
  /\ ReadMarker(c, held)
  /\ UNCHANGED <<queue, held, op, closed, marker, world>>

\* Without a marker the operation itself tells the tab.  It is the one of the
\* start: storage is answered in order, so no other one is held by now.
Probe(c) ==
  /\ Answered(c)
  /\ at[c] = "reading"
  /\ storage' = Tail(storage)
  /\ mine' = [mine EXCEPT ![c].marker = IF @ = None THEN Mine(c).tab ELSE @]
  /\ Goto(c, "probing")
  /\ UNCHANGED <<queue, held, op, closed, marker, world>>

\* recoverInterruptedDialogState: it fails while the tab shows a dialog, and
\* otherwise takes back the marker and the operation that was held at its start.
\* A page that does not answer the probe for another reason, a restricted or a
\* slow one, is left out: the next snapshot tries it again.
Recover(c) ==
  LET live == mine[c].op
      t == mine[c].marker
  IN /\ Quiet
     /\ at[c] = "probing"
     /\ Goto(c, "idle")
     /\ mine' = [mine EXCEPT ![c] = Locals(c)]
     /\ IF Shows(t)
        THEN UNCHANGED <<held, op, marker>>
        ELSE /\ held' = IF held = live THEN None ELSE held
             /\ marker' = None
             /\ op' = [p \in Ops |-> IF p = live /\ t \in tabs THEN Deaf(op[p]) ELSE op[p]]
     /\ UNCHANGED <<queue, closed, storage, world>>

TabRemoved(t) ==
  /\ Quiet
  /\ at[t] = "removing"
  /\ Goto(t, "leaving")
  /\ IF held # None /\ op[held].tab = t
     THEN /\ held' = None
          /\ op' = [op EXCEPT ![held] = LetGo(@)]
          /\ mine' = [mine EXCEPT ![t].op = held]
     ELSE UNCHANGED <<held, op, mine>>
  /\ UNCHANGED <<queue, closed, storage, marker, world>>

TabLeft(t) ==
  /\ Quiet
  /\ at[t] = "leaving"
  /\ mine[t].op # None => Mine(t).session = "closed"
  /\ Goto(t, "reading")
  /\ ReadMarker(t, None)
  /\ UNCHANGED <<queue, held, op, closed, marker, world>>

TabForgotten(t) ==
  /\ Answered(t)
  /\ at[t] = "reading"
  /\ Goto(t, "done")
  /\ storage' = Tail(storage)
  /\ marker' = IF mine[t].marker = t THEN None ELSE marker
  /\ mine' = [mine EXCEPT ![t] = Locals(t)]
  /\ UNCHANGED <<queue, held, op, closed, world>>

-----------------------------------------------------------------------------
(* Chrome, the page and the user *)

\* The page opens a dialog while the operation works on it.
DialogOpens(p) ==
  LET t == op[p].tab
  IN /\ Quiet
     /\ op[p].body = "running" /\ Attached(op[p])
     /\ t \in tabs /\ ~Shows(t) /\ opened < MaxDialogs /\ More
     /\ opened' = opened + 1
     /\ dialog' = [dialog EXCEPT ![t] = opened']
     /\ op' = [op EXCEPT ![p] = Notify(@, "opening", opened')]
     /\ UNCHANGED <<queue, at, mine, held, closed, storage, marker, tabs, faults>>

\* The user answers a dialog.
UserAnswers(t) ==
  /\ Quiet
  /\ Shows(t)
  /\ dialog' = [dialog EXCEPT ![t] = 0]
  /\ op' = [p \in Ops |-> IF Attached(op[p]) /\ op[p].tab = t /\ op[p].body # "none"
                          THEN Notify(op[p], "closed", dialog[t]) ELSE op[p]]
  /\ UNCHANGED <<queue, at, mine, held, closed, storage, marker, tabs, opened, faults>>

\* The operation's own work succeeds, or fails, which it may do under a dialog.
BodyEnds(p) ==
  /\ Quiet
  /\ op[p].body = "running"
  /\ op' = [op EXCEPT ![p].body = "over"]
  /\ UNCHANGED <<queue, at, mine, held, closed, storage, marker, world>>

\* session.close has waited for the active work, and detaches.
SessionCloses(p) ==
  /\ Quiet
  /\ op[p].session = "closing" /\ op[p].body # "running"
  /\ op' = [op EXCEPT ![p].session = "closed"]
  /\ UNCHANGED <<queue, at, mine, held, closed, storage, marker, world>>

Fault == faults < MaxFaults /\ More /\ faults' = faults + 1

\* Chrome takes the session away: the tab is gone, or DevTools or the user did it.
Lost(o) ==
  [Notify(o, "detached", 0) EXCEPT !.session = IF @ = "open" THEN "lost" ELSE "closed"]

ChromeDetaches(p) ==
  /\ Quiet
  /\ Attached(op[p])
  /\ Fault
  /\ op' = [op EXCEPT ![p] = Lost(@)]
  /\ UNCHANGED <<queue, at, mine, held, closed, storage, marker, tabs, dialog, opened>>

TabCloses(t) ==
  /\ Quiet
  /\ t \in tabs
  /\ Fault
  /\ tabs' = tabs \ {t}
  /\ dialog' = [dialog EXCEPT ![t] = 0]
  /\ op' = [p \in Ops |-> IF Attached(op[p]) /\ op[p].tab = t THEN Lost(op[p]) ELSE op[p]]
  /\ Goto(t, "removing")
  /\ UNCHANGED <<queue, mine, held, closed, storage, marker, opened>>

\* The listeners of observeJavaScriptDialogs.
Deliver(p) ==
  /\ Quiet
  /\ op[p].events # <<>>
  /\ \E kind \in {"opening", "closed", "detached"}, d \in 0 .. MaxDialogs :
       /\ Head(op[p].events) = <<kind, d>>
       /\ closed' = IF kind = "closed" THEN closed \cup {d} ELSE closed
       /\ op' = [op EXCEPT
            ![p].events = Tail(@),
            ![p].openings = IF kind = "opening" THEN Append(@, d) ELSE @,
            ![p].detached = @ \/ kind = "detached"]
  /\ UNCHANGED <<queue, at, mine, held, storage, marker, world>>

\* The service worker is replaced: what it had in memory is gone, the marker and
\* the native dialogs are not.
Restart ==
  /\ Fault
  /\ queue' = <<>>
  /\ at' = [w \in Tasks |-> IF w \in Responds \cup Snapshots \/ at[w] = "idle"
                            THEN "idle" ELSE "done"]
  /\ mine' = [w \in Tasks |-> Locals(w)]
  /\ held' = None
  /\ op' = [p \in Ops |-> NewOp]
  /\ storage' = <<>>
  /\ UNCHANGED <<closed, marker, tabs, dialog, opened>>

OpStep(p) ==
  \/ Start(p) \/ Checked(p) \/ Attach(p) \/ Enable(p) \/ RaceOutcome(p) \/ Promoted(p)
  \/ Left(p) \/ DetachSeen(p) \/ Deliver(p) \/ SessionCloses(p) \/ BodyEnds(p)

DialogStep(w) ==
  \/ Handled(w) \/ RespondClosed(w) \/ Interrupted(w) \/ RespondLeft(w)
  \/ AdvanceOutcome(w) \/ TakeDialog(w) \/ Snapshotted(w) \/ Advanced(w)
  \/ ClosedRetained(w) \/ Cleared(w)

ExtensionStep ==
  \/ \E p \in Ops : OpStep(p)
  \/ \E w \in Ops \cup Responds \cup Dialogs : DialogStep(w)
  \/ \E d \in Dialogs : WatchClosed(d)
  \/ \E c \in Snapshots : Probe(c) \/ Recover(c)
  \/ \E t \in Tabs : TabRemoved(t) \/ TabLeft(t) \/ TabForgotten(t)

Next ==
  \/ ExtensionStep
  \/ \E p \in Ops : Request(p) \/ DialogOpens(p) \/ ChromeDetaches(p)
  \/ \E w \in Responds : Respond(w)
  \/ \E c \in Snapshots : Snapshot(c)
  \/ \E t \in Tabs : UserAnswers(t) \/ TabCloses(t)
  \/ Restart

Spec == Init /\ [][Next]_vars

\* What is ready runs, Chrome answers, and an operation ends: its commands and
\* waits are bounded.  The user answers a dialog sooner or later, as the
\* extension asks, and a client that is told to goes on taking snapshots.  No
\* response is owed.
Fairness ==
  /\ \A p \in Ops : WF_vars(OpStep(p))
  /\ \A w \in Ops \cup Responds \cup Dialogs : WF_vars(DialogStep(w))
  /\ \A d \in Dialogs : WF_vars(WatchClosed(d))
  /\ \A c \in Snapshots : WF_vars(Snapshot(c)) /\ WF_vars(Probe(c) \/ Recover(c))
  /\ \A t \in Tabs :
       WF_vars(UserAnswers(t)) /\ WF_vars(TabRemoved(t) \/ TabLeft(t) \/ TabForgotten(t))

FairSpec == Spec /\ Fairness

-----------------------------------------------------------------------------
(* Properties *)

DialogTypeOK ==
  /\ queue \in Seq(Ops)
  /\ mine \in [Tasks -> [op : Ops \cup {None}, dialog : 0 .. MaxDialogs,
                         marker : Tabs \cup {None}]]
  /\ held \in Ops \cup {None}
  /\ op \in [Ops -> [tab : Tabs \cup {None},
                     session : {"none", "open", "lost", "closing", "closed"},
                     body : {"none", "running", "over"},
                     listening : BOOLEAN,
                     events : Seq({"opening", "closed", "detached"} \X (0 .. MaxDialogs)),
                     openings : Seq(Dialogs),
                     detached : BOOLEAN,
                     entry : 0 .. MaxDialogs, shown : 0 .. MaxDialogs,
                     terminal : BOOLEAN, responding : BOOLEAN]]
  /\ closed \subseteq Dialogs
  /\ storage \in Seq(Tasks)
  /\ marker \in Tabs \cup {None}
  /\ tabs \subseteq Tabs
  /\ dialog \in [Tabs -> 0 .. MaxDialogs]
  /\ opened \in 0 .. MaxDialogs
  /\ faults \in 0 .. MaxFaults

\* At most one page operation has a debugger session that takes work, however the
\* one before it lost its dialog: answered, interrupted, recovered or closed.
OneSession ==
  \A p, q \in Ops : op[p].session = "open" /\ op[q].session = "open" => p = q

\* As long as the session a dialog was reported on is open the operation is held,
\* so that the dialog can be answered and other operations keep away: no late
\* watcher, response, snapshot or tab handler lets go of it early.
AnswerableWhileOpen ==
  \A p \in Ops : op[p].session = "open" /\ op[p].shown # 0 => held = p

\* docs/concepts/browser-dialogs.md: "A stale ref can never act on a later
\* dialog."  A response closes the dialog whose ref it gave, or none.
StaleRefNeverActs ==
  [][\A w \in Responds :
       at[w] = "handling" /\ at'[w] = "awaiting" => dialog[Mine(w).tab] = mine[w].dialog]_vars

\* The keeping away ends: an answered dialog, a lost session, a closed tab or a
\* replaced worker never leave the extension refusing page operations for good.
BlockEnds == []<>(held = None /\ marker = None)

\* No operation holds the queue for ever: one that waits behind another gets its
\* turn, and is refused, ends or is retained with its dialog, although the one
\* before it is held with a dialog, loses its session or its tab.
QueueMoves == \A p \in Ops : []<>(\A i \in 1 .. Len(queue) : queue[i] # p)

=============================================================================
