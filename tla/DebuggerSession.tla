-------------------------- MODULE DebuggerSession --------------------------
(***************************************************************************)
(* One chrome.debugger session of the extension: page operations and       *)
(* recording frames take turns on it, and it is closed under both           *)
(* (apps/extension/debugger-session.js).                                    *)
(*                                                                          *)
(* JavaScript runs one callback at a time: a step is the code between two   *)
(* awaits.  Tasks that await active.promise are woken in the order in which *)
(* they began to, one microtask each.  The first to be woken is the owner   *)
(* of the promise itself, which clears `active`: that is part of the step   *)
(* in which its work ends.  The others are already queued behind it, so     *)
(* nothing else runs before them, neither what the owner's caller does next *)
(* nor a callback of Chrome's: every other action waits for Quiet.          *)
(***************************************************************************)
EXTENDS Integers, Sequences, FiniteSets

CONSTANTS
  Runs,      \* callers of run(): page operations
  Captures,  \* callers of tryCapture(): recording frames
  Closer,    \* the caller of close()
  None

Tasks == Runs \cup Captures

ASSUME TasksDisjoint ==
  /\ Runs \cap Captures = {}
  /\ Closer \notin Tasks
  /\ None \notin Tasks

VARIABLES
  at,               \* where each task stands
  active,           \* the task whose work holds the session
  criticalPending,  \* runs that are waiting
  waiting,          \* tasks that await active.promise
  woken,            \* tasks whose await is over, still to be run
  closed,
  closing,          \* close(): "no", "waiting", "detaching" or "done"
  detached,         \* Chrome has detached the debugger
  focus             \* Emulation.setFocusEmulationEnabled

queues == <<waiting, woken>>
session == <<closed, closing, detached>>
vars == <<at, active, criticalPending, queues, session, focus>>

\* No microtask is queued.
Quiet == woken = <<>>

\* Phases of the work of a run, with and without emulateFocus, and of a capture.
Working == {"focusing", "operating", "unfocusing", "plain", "capturing"}

Init ==
  /\ at = [t \in Tasks |-> "idle"]
  /\ active = None
  /\ criticalPending = 0
  /\ waiting = <<>>
  /\ woken = <<>>
  /\ closed = FALSE
  /\ closing = "no"
  /\ detached = FALSE
  /\ focus = FALSE

-----------------------------------------------------------------------------
(* Helpers.  A definition marked "Slip" is no part of the specification: it is *)
(* a plausible mistake in the definition after it.                             *)

\* Slip: only run() itself asks whether the session is still attached.
BeginUnchecked(t, phase) ==
  /\ active' = t
  /\ at' = [at EXCEPT ![t] = phase]

\* runExclusive up to its await.
Begin(t, phase) ==
  IF closed \/ detached
  THEN /\ at' = [at EXCEPT ![t] = "idle"]
       /\ UNCHANGED active
  ELSE /\ active' = t
       /\ at' = [at EXCEPT ![t] = phase]

\* Slip: the owner clears the session even if it is another's by now, and wakes
\* nobody.
SettleSilently(t) ==
  /\ at' = [at EXCEPT ![t] = "idle"]
  /\ active' = None
  /\ UNCHANGED queues

\* The promise of active settles: runExclusive clears active, and whoever awaits
\* the promise is woken after it.
Settle(t) ==
  /\ at' = [at EXCEPT ![t] = "idle"]
  /\ active' = IF active = t THEN None ELSE active
  /\ woken' = woken \o waiting
  /\ waiting' = <<>>

-----------------------------------------------------------------------------
(* run *)

\* run() up to its first suspension.
Run(t) ==
  /\ Quiet
  /\ at[t] = "idle"
  /\ ~closed /\ ~detached
  /\ IF active = None
     THEN /\ \E phase \in {"focusing", "plain"} : Begin(t, phase)
          /\ UNCHANGED <<criticalPending, waiting>>
     ELSE /\ at' = [at EXCEPT ![t] = "waiting"]
          /\ criticalPending' = criticalPending + 1
          /\ waiting' = Append(waiting, t)
          /\ UNCHANGED active
  /\ UNCHANGED <<woken, session, focus>>

\* Slip: the run asks only once whether the session is active.
RunWakesOnce(t) ==
  /\ woken # <<>> /\ Head(woken) = t
  /\ woken' = Tail(woken)
  /\ \E phase \in {"focusing", "plain"} : Begin(t, phase)
  /\ criticalPending' = criticalPending - 1
  /\ UNCHANGED <<waiting, session, focus>>

\* Slip: a run that goes on waiting is no longer counted.
RunWakesUncounted(t) ==
  /\ woken # <<>> /\ Head(woken) = t
  /\ woken' = Tail(woken)
  /\ criticalPending' = criticalPending - 1
  /\ IF active # None
     THEN /\ waiting' = Append(waiting, t)
          /\ UNCHANGED <<at, active>>
     ELSE /\ \E phase \in {"focusing", "plain"} : Begin(t, phase)
          /\ UNCHANGED waiting
  /\ UNCHANGED <<session, focus>>

\* A waiting run is woken, and waits again if the session is taken by then.
RunWakes(t) ==
  /\ woken # <<>> /\ Head(woken) = t
  /\ woken' = Tail(woken)
  /\ IF active # None
     THEN /\ waiting' = Append(waiting, t)
          /\ UNCHANGED <<at, active, criticalPending>>
     ELSE /\ criticalPending' = criticalPending - 1
          /\ \E phase \in {"focusing", "plain"} : Begin(t, phase)
          /\ UNCHANGED waiting
  /\ UNCHANGED <<session, focus>>

\* Focus emulation is enabled, or the command for it fails.
Focus(t) ==
  /\ Quiet
  /\ at[t] = "focusing"
  /\ \/ /\ ~detached
        /\ focus' = TRUE
        /\ at' = [at EXCEPT ![t] = "operating"]
     \/ /\ at' = [at EXCEPT ![t] = "unfocusing"]
        /\ UNCHANGED focus
  /\ UNCHANGED <<active, criticalPending, queues, session>>

\* Slip: an operation that fails skips the cleanup.
OperateUncleaned(t) ==
  /\ Quiet
  /\ at[t] = "operating"
  /\ \/ /\ at' = [at EXCEPT ![t] = "unfocusing"]
        /\ UNCHANGED <<active, queues>>
     \/ Settle(t)
  /\ UNCHANGED <<criticalPending, session, focus>>

\* The operation returns or throws; either way the emulation is taken back.
Operate(t) ==
  /\ Quiet
  /\ at[t] = "operating"
  /\ at' = [at EXCEPT ![t] = "unfocusing"]
  /\ UNCHANGED <<active, criticalPending, queues, session, focus>>

\* Focus emulation is disabled, unless Chrome has already detached; if the
\* command for it fails, the target has lost the emulation before.
Unfocus(t) ==
  /\ Quiet
  /\ at[t] = "unfocusing"
  /\ focus' = IF detached THEN focus ELSE FALSE
  /\ Settle(t)
  /\ UNCHANGED <<criticalPending, session>>

\* An operation without focus emulation ends.
OperatePlain(t) ==
  /\ Quiet
  /\ at[t] = "plain"
  /\ Settle(t)
  /\ UNCHANGED <<criticalPending, session, focus>>

-----------------------------------------------------------------------------
(* tryCapture *)

\* A frame is captured only on an idle session; otherwise it is skipped, which
\* changes nothing.
TryCapture(t) ==
  /\ Quiet
  /\ at[t] = "idle"
  /\ ~closed /\ ~detached /\ active = None /\ criticalPending = 0
  /\ Begin(t, "capturing")
  /\ UNCHANGED <<criticalPending, queues, session, focus>>

\* Chrome answers the capture, with a frame or an error.
CaptureAnswered(t) ==
  /\ Quiet
  /\ at[t] = "capturing"
  /\ Settle(t)
  /\ UNCHANGED <<criticalPending, session, focus>>

\* Slip: a capture is waited for without a bound.
CaptureUnbounded(t) ==
  /\ Quiet
  /\ FALSE
  /\ at[t] = "capturing"
  /\ UNCHANGED vars

\* boundCapture's timer abandons it.
CaptureTimesOut(t) ==
  /\ Quiet
  /\ at[t] = "capturing"
  /\ Settle(t)
  /\ UNCHANGED <<criticalPending, session, focus>>

-----------------------------------------------------------------------------
(* close, and Chrome *)

\* What close() does when no work is active.
Leave == closing' = IF detached THEN "done" ELSE "detaching"

\* Slip: close does not wait for the work that is active.
CloseAtOnce ==
  /\ Quiet
  /\ ~closed
  /\ closed' = TRUE
  /\ Leave
  /\ UNCHANGED <<at, active, criticalPending, queues, detached, focus>>

Close ==
  /\ Quiet
  /\ ~closed
  /\ closed' = TRUE
  /\ IF active = None
     THEN /\ Leave
          /\ UNCHANGED waiting
     ELSE /\ closing' = "waiting"
          /\ waiting' = Append(waiting, Closer)
  /\ UNCHANGED <<at, active, criticalPending, woken, detached, focus>>

CloseWakes ==
  /\ woken # <<>> /\ Head(woken) = Closer
  /\ woken' = Tail(woken)
  /\ IF active # None
     THEN /\ waiting' = Append(waiting, Closer)
          /\ UNCHANGED closing
     ELSE /\ Leave
          /\ UNCHANGED waiting
  /\ UNCHANGED <<at, active, criticalPending, closed, detached, focus>>

\* debuggerApi.detach settles; the emulation goes with the session.
DetachSettles ==
  /\ Quiet
  /\ closing = "detaching"
  /\ closing' = "done"
  /\ focus' = FALSE
  /\ UNCHANGED <<at, active, criticalPending, queues, closed, detached>>

\* Chrome detaches: the tab is closed, or the user cancels the debugging.
ChromeDetaches ==
  /\ Quiet
  /\ ~detached
  /\ closing \in {"no", "waiting"}
  /\ detached' = TRUE
  /\ focus' = FALSE
  /\ UNCHANGED <<at, active, criticalPending, queues, closed, closing>>

Next ==
  \/ \E t \in Runs : Run(t) \/ RunWakes(t) \/ Focus(t) \/ Operate(t) \/ Unfocus(t) \/ OperatePlain(t)
  \/ \E t \in Captures : TryCapture(t) \/ CaptureAnswered(t) \/ CaptureTimesOut(t)
  \/ Close \/ CloseWakes \/ DetachSettles \/ ChromeDetaches

Spec == Init /\ [][Next]_vars

\* Callbacks that are due run, the capture timer fires, and an operation ends.
\* Chrome may leave a capture unanswered for ever.
Fairness ==
  /\ \A t \in Runs :
       WF_vars(RunWakes(t)) /\ WF_vars(Focus(t)) /\ WF_vars(Operate(t))
         /\ WF_vars(Unfocus(t)) /\ WF_vars(OperatePlain(t))
  /\ \A t \in Captures : WF_vars(CaptureTimesOut(t))
  /\ WF_vars(CloseWakes) /\ WF_vars(DetachSettles)

FairSpec == Spec /\ Fairness

-----------------------------------------------------------------------------
(* Properties *)

SessionTypeOK ==
  /\ at \in [Tasks -> {"idle", "waiting"} \cup Working]
  /\ active \in Tasks \cup {None}
  /\ criticalPending \in Nat
  /\ waiting \in Seq(Runs \cup {Closer})
  /\ woken \in Seq(Runs \cup {Closer})
  /\ closed \in BOOLEAN
  /\ closing \in {"no", "waiting", "detaching", "done"}
  /\ detached \in BOOLEAN
  /\ focus \in BOOLEAN

\* The session does one thing at a time, and active says what: however runs,
\* frames and close() are interleaved, two of them never work at once.
OneWorker == \A t \in Tasks : at[t] \in Working <=> active = t

\* Focus emulation is never left on behind an operation, whether it returned,
\* failed or lost the debugger.
FocusTakenBack ==
  focus => \E t \in Runs : at[t] \in {"operating", "unfocusing"}

\* Once close() goes on to detach the debugger nothing works on the session, not
\* even what was waiting for it.
NothingAfterClose == closing \in {"detaching", "done"} => active = None

\* Nothing starts on a session that was closed or has lost the debugger: runs
\* that were waiting when that happened fail instead of taking their turn.
NothingStartsOnceOver ==
  [][closed \/ detached => active' \in {active, None}]_vars

\* criticalPending, by which tryCapture() and `busy` let operations go first,
\* counts exactly the runs that wait: however often a run is woken in vain, or
\* fails because the session was closed, it is counted once and uncounted once.
WaitersCounted == criticalPending = Cardinality({t \in Runs : at[t] = "waiting"})

\* "an unanswered capture is dropped rather than holding the session's exclusive
\* slot, and every later operation, forever": a run that waits gets its turn or
\* fails, even if Chrome answers no capture.
RunsGetTheirTurn == \A t \in Runs : at[t] = "waiting" ~> at[t] # "waiting"

\* close() returns.
CloseReturns == closed ~> closing = "done"

=============================================================================
