----------------------------- MODULE Connection -----------------------------
(***************************************************************************)
(* The connection manager of the extension: one WebSocket at a time to the  *)
(* server of the current settings, retried by a timer of the service worker  *)
(* and by an alarm that outlives it (apps/extension/background.js,           *)
(* connection-probe.js).  What runs over the socket is the subject of Bridge. *)
(*                                                                          *)
(* Abstracted: the back-off delay, the heartbeat, and the settings to one    *)
(* value (the server URL and the browser's label).  A server is up for       *)
(* every setting or for none.                                                *)
(***************************************************************************)
EXTENDS Naturals, FiniteSets

CONSTANTS Sockets, None, Settings,
          MaxEvents    \* bound: changes of server and settings, broken protocols, stops

ASSUME NoneIsNoSocket == None \notin Sockets

VARIABLES
  setting,    \* storage.local
  changed,    \* storage.onChanged is to be delivered
  up,         \* whether the server runs
  running,    \* whether the service worker runs
  attempt,    \* where connectOnce stands, and the settings it has read
  ws,         \* the WebSockets: state and settings
  socket,     \* the worker's current one
  closings,   \* close listeners that are storing the status
  failing,    \* closeForProtocolError is storing the status
  timer,      \* reconnectTimer
  alarm,      \* the alarm
  status,     \* storage.local: connectionStatus
  events

world == <<setting, changed, up, events>>
retry == <<timer, alarm>>
vars == <<world, running, attempt, ws, socket, closings, failing, retry, status>>

NoAttempt == [pc |-> "none", with |-> None]
Unused == [state |-> "unused", with |-> None]

Init ==
  /\ setting \in Settings
  /\ changed = FALSE
  /\ up \in BOOLEAN
  /\ running = TRUE
  /\ attempt = [NoAttempt EXCEPT !.pc = "load"]
  /\ ws = [s \in Sockets |-> Unused]
  /\ socket = None
  /\ closings = 0
  /\ failing = FALSE
  /\ timer = FALSE /\ alarm = FALSE
  /\ status = "disconnected"
  /\ events = 0

Event == events < MaxEvents /\ events' = events + 1

Live(s) == ws[s].state \in {"connecting", "open"}

\* connect: an attempt that is under way is joined.
Connect ==
  attempt' = IF attempt.pc = "none" THEN [attempt EXCEPT !.pc = "load"] ELSE attempt

\* Slip: a worker that is stopped takes its next attempt with it.
ScheduleTimer == timer' = TRUE /\ UNCHANGED alarm

\* scheduleReconnect
Schedule == timer' = TRUE /\ alarm' = (alarm \/ ~timer)

-----------------------------------------------------------------------------
(* connectOnce *)

Load ==
  /\ attempt.pc = "load"
  /\ attempt' = [pc |-> "probe", with |-> setting]
  /\ UNCHANGED <<world, running, ws, socket, closings, failing, retry, status>>

\* The current socket is looked at when the settings are known; then
\* serverIsReachable asks the server.  Its answer, or its timeout, is stored.
Probe ==
  /\ attempt.pc = "probe"
  /\ IF socket # None /\ Live(socket) THEN attempt' = NoAttempt /\ UNCHANGED status
     ELSE /\ attempt' = [attempt EXCEPT !.pc = IF up THEN "dial" ELSE "offline"]
          /\ status' = IF up THEN "connecting" ELSE "disconnected"
  /\ UNCHANGED <<world, running, ws, socket, closings, failing, retry>>

Offline ==
  /\ attempt.pc = "offline"
  /\ Schedule
  /\ attempt' = NoAttempt
  /\ UNCHANGED <<world, running, ws, socket, closings, failing, status>>

Dial ==
  /\ attempt.pc = "dial"
  /\ \E s \in Sockets :
       /\ ws[s].state = "unused"
       /\ ws' = [ws EXCEPT ![s] = [state |-> "connecting", with |-> attempt.with]]
       /\ socket' = s
  /\ attempt' = NoAttempt
  /\ UNCHANGED <<world, running, closings, failing, retry, status>>

-----------------------------------------------------------------------------
(* The socket's listeners *)

Opens(s) ==
  /\ ws[s].state = "connecting" /\ up
  /\ ws' = [ws EXCEPT ![s].state = "open"]
  /\ IF s = socket
     THEN timer' = FALSE /\ alarm' = FALSE /\ status' = "connected"
     ELSE UNCHANGED <<retry, status>>
  /\ UNCHANGED <<world, running, attempt, socket, closings, failing>>

\* The server is gone: the error event is stored, the close event follows.
Breaks(s) ==
  /\ Live(s) /\ ~up
  /\ ws' = [ws EXCEPT ![s].state = "closing"]
  /\ status' = IF s = socket THEN "disconnected" ELSE status
  /\ UNCHANGED <<world, running, attempt, socket, closings, failing, retry>>

\* Slip: the close event of any socket clears the current one.
ClosesAny(s) ==
  /\ ws[s].state = "closing"
  /\ ws' = [ws EXCEPT ![s] = Unused]
  /\ socket' = None /\ status' = "disconnected" /\ closings' = closings + 1
  /\ UNCHANGED <<world, running, attempt, failing, retry>>

Closes(s) ==
  /\ ws[s].state = "closing"
  /\ ws' = [ws EXCEPT ![s] = Unused]
  /\ IF s = socket
     THEN socket' = None /\ status' = "disconnected" /\ closings' = closings + 1
     ELSE UNCHANGED <<socket, status, closings>>
  /\ UNCHANGED <<world, running, attempt, failing, retry>>

\* Slip: a connection that was lost is not tried again.
ClosedSilently ==
  /\ closings > 0
  /\ closings' = closings - 1
  /\ UNCHANGED <<world, running, attempt, ws, socket, failing, retry, status>>

\* ... and when the status is stored, the next attempt is scheduled.
Closed ==
  /\ closings > 0
  /\ closings' = closings - 1
  /\ Schedule
  /\ UNCHANGED <<world, running, attempt, ws, socket, failing, status>>

\* closeForProtocolError stores the status, then closes the current socket,
\* whichever it is by then.
ProtocolError ==
  /\ Event
  /\ socket # None /\ ws[socket].state = "open" /\ ~failing
  /\ failing' = TRUE
  /\ status' = "error"
  /\ UNCHANGED <<setting, changed, up, running, attempt, ws, socket, closings, retry>>

ProtocolClose ==
  /\ failing
  /\ failing' = FALSE
  /\ ws' = IF socket # None /\ ws[socket].state = "open"
           THEN [ws EXCEPT ![socket].state = "closing"] ELSE ws
  /\ UNCHANGED <<world, running, attempt, socket, closings, retry, status>>

-----------------------------------------------------------------------------
(* Timers, settings and the worker *)

TimerFires ==
  /\ timer
  /\ timer' = FALSE /\ alarm' = FALSE
  /\ Connect
  /\ UNCHANGED <<world, running, ws, socket, closings, failing, status>>

\* The alarm clears the timer, and starts a worker that has stopped.
AlarmFires ==
  /\ alarm
  /\ timer' = FALSE /\ alarm' = FALSE
  /\ running' = TRUE
  /\ Connect
  /\ UNCHANGED <<world, ws, socket, closings, failing, status>>

\* The options page saves its form.
Save ==
  /\ Event
  /\ setting' \in Settings \ {setting}
  /\ changed' = TRUE
  /\ UNCHANGED <<up, running, attempt, ws, socket, closings, failing, retry, status>>

\* reconnectWithNewSettings, which starts a worker that has stopped.
Changed ==
  /\ changed
  /\ changed' = FALSE
  /\ running' = TRUE
  /\ timer' = FALSE /\ alarm' = FALSE
  /\ socket' = None
  /\ ws' = IF socket = None THEN ws ELSE [ws EXCEPT ![socket].state = "closing"]
  /\ Connect
  /\ UNCHANGED <<setting, up, closings, failing, status, events>>

ServerChanges ==
  /\ Event
  /\ up' = ~up
  /\ UNCHANGED <<setting, changed, running, attempt, ws, socket, closings, failing, retry, status>>

\* Chrome stops a worker that has nothing to do; a WebSocket keeps it busy.
WorkerStops ==
  /\ Event
  /\ running /\ attempt.pc = "none" /\ closings = 0 /\ ~failing
  /\ \A s \in Sockets : ws[s].state = "unused"
  /\ running' = FALSE /\ timer' = FALSE
  /\ UNCHANGED <<setting, changed, up, attempt, ws, socket, closings, failing, alarm, status>>

Attempt == Load \/ Probe \/ Offline \/ Dial

Next ==
  \/ Attempt
  \/ \E s \in Sockets : Opens(s) \/ Breaks(s) \/ Closes(s)
  \/ Closed \/ ProtocolError \/ ProtocolClose
  \/ TimerFires \/ AlarmFires
  \/ Save \/ Changed \/ ServerChanges \/ WorkerStops

\* The worker runs what is ready, the network answers, and alarms are delivered.
Fairness ==
  /\ WF_vars(Attempt) /\ WF_vars(Closed) /\ WF_vars(ProtocolClose) /\ WF_vars(Changed)
  /\ \A s \in Sockets : WF_vars(Opens(s) \/ Breaks(s) \/ Closes(s))
  /\ WF_vars(AlarmFires)

Spec == Init /\ [][Next]_vars /\ Fairness

-----------------------------------------------------------------------------
(* Properties *)

\* The extension has one connection: no socket is left open that the worker does
\* not know, whatever timers, alarms, close events and settings cross each other.
OneLiveSocket == \A s \in Sockets : Live(s) => s = socket

\* As long as there is no connection an attempt is under way or will be made, also
\* across a stop of the worker, which takes the timer away.
NeverGivesUp ==
  socket = None =>
    \/ attempt.pc # "none"
    \/ closings > 0
    \/ alarm /\ (running => timer)

\* operations.md: "Starting the server later requires no extension Reload."  When the
\* server stays up, the extension is connected in the end.
ServerIsFound ==
  (<>[](up /\ ~changed)) => <>[](socket # None /\ ws[socket].state = "open")

=============================================================================
