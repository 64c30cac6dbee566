-------------------------- MODULE ConnectionProofs --------------------------
(***************************************************************************)
(* Proofs about Connection for any number of sockets and settings and any   *)
(* number of events.                                                        *)
(*                                                                          *)
(* That there is one live socket rests on what connectOnce found when it     *)
(* looked at the current one: from then until it dials nothing else can make *)
(* a socket live (NothingLive).  That there is always a next attempt rests on *)
(* the two retries: the timer never runs without the alarm (AlarmBehind).     *)
(***************************************************************************)
EXTENDS Connection, TLAPS

Steps == {"none", "load", "probe", "offline", "dial"}
States == {"unused", "connecting", "open", "closing"}
Statuses == {"disconnected", "connecting", "connected", "error"}

Types ==
  /\ setting \in Settings
  /\ changed \in BOOLEAN
  /\ up \in BOOLEAN
  /\ running \in BOOLEAN
  /\ attempt \in [pc : Steps, with : Settings \cup {None}]
  /\ ws \in [Sockets -> [state : States, with : Settings \cup {None}]]
  /\ socket \in Sockets \cup {None}
  /\ closings \in Nat
  /\ failing \in BOOLEAN
  /\ timer \in BOOLEAN
  /\ alarm \in BOOLEAN
  /\ status \in Statuses
  /\ events \in Nat

\* Once an attempt has gone past the check of the current socket, none is live.
NothingLive == attempt.pc \in {"dial", "offline"} => \A s \in Sockets : ~Live(s)

\* The worker's socket is one that was made.
SocketUsed == socket # None => ws[socket].state # "unused"

\* The timer dies with the worker: the alarm is there whenever it is.
AlarmBehind == timer => alarm

\* The inductive invariant.
Inv ==
  /\ Types
  /\ OneLiveSocket
  /\ NothingLive
  /\ SocketUsed
  /\ AlarmBehind
  /\ NeverGivesUp

-----------------------------------------------------------------------------

LEMMA InvInit == Init => Inv
<1> SUFFICES ASSUME Init
             PROVE  Inv
  OBVIOUS
<1>1. attempt = [pc |-> "load", with |-> None]
  BY DEF Init, NoAttempt
<1>2. ws = [s \in Sockets |-> [state |-> "unused", with |-> None]]
  BY DEF Init, Unused
<1>3. \A s \in Sockets : ~Live(s)
  BY <1>2 DEF Live
<1>4. Types
  <2>1. /\ attempt \in [pc : Steps, with : Settings \cup {None}]
        /\ ws \in [Sockets -> [state : States, with : Settings \cup {None}]]
    BY <1>1, <1>2 DEF Steps, States
  <2> QED
    BY <2>1 DEF Init, Types, Statuses
<1> QED
  BY <1>1, <1>3, <1>4 DEF Init, Inv, OneLiveSocket, NothingLive, SocketUsed, AlarmBehind, NeverGivesUp

\* connectOnce.
LEMMA AttemptStep ==
  ASSUME Inv, Attempt
  PROVE  Inv'
<1> USE DEF Inv, OneLiveSocket, NothingLive, SocketUsed, AlarmBehind, NeverGivesUp, Live, world, retry
<1>1. CASE Load
  <2>1. attempt' = [pc |-> "probe", with |-> setting] /\ UNCHANGED <<world, running, ws, socket, closings, failing, retry, status>>
    BY <1>1 DEF Load
  <2>2. Types'
    BY <2>1 DEF Types, Steps
  <2> QED
    BY <2>1, <2>2
<1>2. CASE Probe
  <2>1. UNCHANGED <<world, running, ws, socket, closings, failing, retry>>
    BY <1>2 DEF Probe
  <2>2. CASE socket # None /\ Live(socket)
    <3>1. attempt' = [pc |-> "none", with |-> None] /\ UNCHANGED status
      BY <1>2, <2>2 DEF Probe, NoAttempt
    <3>2. Types'
      BY <2>1, <3>1 DEF Types, Steps
    <3> QED
      BY <2>1, <2>2, <3>1, <3>2
  <2>3. CASE ~(socket # None /\ Live(socket))
    <3>1. attempt' = [attempt EXCEPT !.pc = IF up THEN "dial" ELSE "offline"]
          /\ status' \in Statuses
      BY <1>2, <2>3 DEF Probe, Statuses
    <3>2. attempt'.pc \in {"dial", "offline"} /\ Types'
      BY <2>1, <3>1 DEF Types, Steps
    <3>3. \A s \in Sockets : ~Live(s)
      BY <2>3, NoneIsNoSocket
    <3> QED
      BY <2>1, <3>2, <3>3
  <2> QED
    BY <2>2, <2>3
<1>3. CASE Offline
  <2>1. /\ attempt' = [pc |-> "none", with |-> None]
        /\ timer' = TRUE /\ alarm' = (alarm \/ ~timer)
        /\ UNCHANGED <<world, running, ws, socket, closings, failing, status>>
    BY <1>3 DEF Offline, Schedule, NoAttempt
  <2>2. Types'
    BY <2>1 DEF Types, Steps
  <2>3. alarm'
    BY <2>1 DEF Types
  <2> QED
    BY <2>1, <2>2, <2>3
<1>4. CASE Dial
  <2>1. PICK s \in Sockets :
          /\ ws[s].state = "unused"
          /\ ws' = [ws EXCEPT ![s] = [state |-> "connecting", with |-> attempt.with]]
          /\ socket' = s
    BY <1>4 DEF Dial
  <2>2. /\ attempt.pc = "dial" /\ attempt' = [pc |-> "none", with |-> None]
        /\ UNCHANGED <<world, running, closings, failing, retry, status>>
    BY <1>4 DEF Dial, NoAttempt
  <2>3. Types'
    BY <2>1, <2>2 DEF Types, Steps, States
  <2>4. \A t \in Sockets : t # s => ~Live(t)'
    BY <2>1, <2>2 DEF Types
  <2>5. ws'[s].state = "connecting"
    BY <2>1 DEF Types
  <2> QED
    BY <2>1, <2>2, <2>3, <2>4, <2>5, NoneIsNoSocket
<1> QED
  BY <1>1, <1>2, <1>3, <1>4 DEF Attempt

\* A socket that stops being live, or goes from one live state to the other,
\* makes no other socket live.
LEMMA SocketMoves ==
  ASSUME Types, OneLiveSocket, NothingLive, SocketUsed,
         NEW s \in Sockets, NEW new \in States, new # "unused",
         new \in {"connecting", "open"} => Live(s),
         ws' = [ws EXCEPT ![s].state = new],
         socket' = socket, attempt' = attempt
  PROVE  /\ ws' \in [Sockets -> [state : States, with : Settings \cup {None}]]
         /\ OneLiveSocket' /\ NothingLive' /\ SocketUsed'
<1>1. /\ ws' \in [Sockets -> [state : States, with : Settings \cup {None}]]
      /\ ws'[s].state = new
      /\ \A t \in Sockets : t # s => ws'[t] = ws[t]
  BY DEF Types
<1>2. \A t \in Sockets : Live(t)' => Live(t)
  BY <1>1 DEF Live
<1> QED
  BY <1>1, <1>2 DEF OneLiveSocket, NothingLive, SocketUsed, Types

LEMMA ListenerStep ==
  ASSUME Inv, NEW s \in Sockets, Opens(s) \/ Breaks(s) \/ Closes(s)
  PROVE  Inv'
<1>1. CASE Opens(s)
  <2>1. /\ ws' = [ws EXCEPT ![s].state = "open"] /\ Live(s)
        /\ UNCHANGED <<world, running, attempt, socket, closings, failing>>
    BY <1>1 DEF Opens, Live
  <2>2. OneLiveSocket' /\ NothingLive' /\ SocketUsed'
        /\ ws' \in [Sockets -> [state : States, with : Settings \cup {None}]]
    BY <2>1, SocketMoves DEF Inv, States
  <2>3. Types'
    BY <1>1, <2>1, <2>2 DEF Opens, Inv, Types, world, retry, Statuses
  <2>4. AlarmBehind' /\ NeverGivesUp'
    BY <1>1, <2>1, NoneIsNoSocket DEF Opens, Inv, AlarmBehind, NeverGivesUp, retry
  <2> QED
    BY <2>2, <2>3, <2>4 DEF Inv
<1>2. CASE Breaks(s)
  <2>1. /\ ws' = [ws EXCEPT ![s].state = "closing"] /\ status' \in Statuses
        /\ UNCHANGED <<world, running, attempt, socket, closings, failing, retry>>
    BY <1>2 DEF Breaks, Inv, Types, Statuses
  <2>2. OneLiveSocket' /\ NothingLive' /\ SocketUsed'
        /\ ws' \in [Sockets -> [state : States, with : Settings \cup {None}]]
    BY <2>1, SocketMoves DEF Inv, States
  <2>3. Types'
    BY <2>1, <2>2 DEF Inv, Types, world, retry
  <2>4. AlarmBehind' /\ NeverGivesUp'
    BY <2>1 DEF Inv, AlarmBehind, NeverGivesUp, retry
  <2> QED
    BY <2>2, <2>3, <2>4 DEF Inv
<1>3. CASE Closes(s)
  <2>1. /\ ws[s].state = "closing"
        /\ ws' = [ws EXCEPT ![s] = [state |-> "unused", with |-> None]]
        /\ UNCHANGED <<world, running, attempt, failing, retry>>
    BY <1>3 DEF Closes, Unused
  <2>2. /\ ws' \in [Sockets -> [state : States, with : Settings \cup {None}]]
        /\ ws'[s].state = "unused"
        /\ \A t \in Sockets : t # s => ws'[t] = ws[t]
    BY <2>1 DEF Inv, Types, States
  <2>3. \A t \in Sockets : Live(t)' => Live(t) /\ t # s
    BY <2>2 DEF Live
  <2>4. CASE s = socket
    <3>1. socket' = None /\ status' = "disconnected" /\ closings' = closings + 1
      BY <1>3, <2>4 DEF Closes
    <3>2. Types'
      BY <2>1, <2>2, <3>1 DEF Inv, Types, world, retry, Statuses
    <3>3. OneLiveSocket' /\ NothingLive' /\ SocketUsed'
      BY <2>1, <2>3, <2>4, <3>1 DEF Inv, OneLiveSocket, NothingLive, SocketUsed
    <3>4. closings' > 0
      BY <3>1 DEF Inv, Types
    <3> QED
      BY <2>1, <3>2, <3>3, <3>4 DEF Inv, AlarmBehind, NeverGivesUp, retry
  <2>5. CASE s # socket
    <3>1. UNCHANGED <<socket, status, closings>>
      BY <1>3, <2>5 DEF Closes
    <3>2. Types'
      BY <2>1, <2>2, <3>1 DEF Inv, Types, world, retry
    <3>3. OneLiveSocket' /\ NothingLive' /\ SocketUsed'
      BY <2>1, <2>2, <2>3, <2>5, <3>1 DEF Inv, OneLiveSocket, NothingLive, SocketUsed, Types
    <3> QED
      BY <2>1, <3>1, <3>2, <3>3 DEF Inv, AlarmBehind, NeverGivesUp, retry
  <2> QED
    BY <2>4, <2>5
<1> QED
  BY <1>1, <1>2, <1>3

LEMMA ProtocolStep ==
  ASSUME Inv, Closed \/ ProtocolError \/ ProtocolClose
  PROVE  Inv'
<1> USE DEF Inv, AlarmBehind, NeverGivesUp, world, retry
<1>1. CASE Closed
  <2>1. timer' /\ alarm' /\ timer' \in BOOLEAN /\ alarm' \in BOOLEAN
    BY <1>1, Zenon DEF Closed, Schedule, Types
  <2>2. closings' \in Nat
    BY <1>1 DEF Closed, Types
  <2>3. UNCHANGED <<setting, changed, up, events, running, attempt, ws, socket, failing, status>>
    BY <1>1, Zenon DEF Closed
  <2>4. Types'
    BY <2>1, <2>2, <2>3, Zenon DEF Types
  <2> QED
    BY <2>1, <2>3, <2>4 DEF OneLiveSocket, NothingLive, SocketUsed, Live
<1>2. CASE ProtocolError
  <2>1. /\ failing' = TRUE /\ status' = "error" /\ events' = events + 1
        /\ UNCHANGED <<setting, changed, up, running, attempt, ws, socket, closings, retry>>
    BY <1>2 DEF ProtocolError, Event
  <2>2. Types'
    BY <2>1 DEF Types, Statuses
  <2> QED
    BY <2>1, <2>2 DEF OneLiveSocket, NothingLive, SocketUsed, Live
<1>3. CASE ProtocolClose
  <2>1. /\ failing' = FALSE
        /\ UNCHANGED <<world, running, attempt, socket, closings, retry, status>>
    BY <1>3 DEF ProtocolClose
  <2>2. CASE UNCHANGED ws
    BY <2>1, <2>2 DEF Types, OneLiveSocket, NothingLive, SocketUsed, Live
  <2>3. CASE socket # None /\ ws' = [ws EXCEPT ![socket].state = "closing"]
    <3>1. socket \in Sockets
      BY <2>3 DEF Types
    <3>2. OneLiveSocket' /\ NothingLive' /\ SocketUsed'
          /\ ws' \in [Sockets -> [state : States, with : Settings \cup {None}]]
      BY <2>1, <2>3, <3>1, SocketMoves DEF States
    <3> QED
      BY <2>1, <3>2 DEF Types
  <2> QED
    BY <1>3, <2>2, <2>3 DEF ProtocolClose
<1> QED
  BY <1>1, <1>2, <1>3

\* An attempt that is joined or begun goes on, and makes no socket.
LEMMA ConnectBegins ==
  ASSUME Types, NothingLive, Connect
  PROVE  /\ attempt' \in [pc : Steps, with : Settings \cup {None}]
         /\ attempt'.pc # "none"
         /\ attempt'.pc \in {"dial", "offline"} => attempt' = attempt
  BY DEF Types, Connect, Steps

LEMMA RetryStep ==
  ASSUME Inv, TimerFires \/ AlarmFires \/ Changed
  PROVE  Inv'
<1> USE DEF Inv
<1>1. Connect /\ timer' = FALSE /\ alarm' = FALSE
  BY DEF TimerFires, AlarmFires, Changed
<1>2. /\ attempt' \in [pc : Steps, with : Settings \cup {None}]
      /\ attempt'.pc # "none"
      /\ attempt'.pc \in {"dial", "offline"} => attempt' = attempt
  BY <1>1, ConnectBegins
<1>3. AlarmBehind' /\ NeverGivesUp'
  BY <1>1, <1>2 DEF AlarmBehind, NeverGivesUp
<1>4. CASE TimerFires \/ AlarmFires
  <2>1. UNCHANGED <<world, ws, socket, closings, failing, status>> /\ running' \in BOOLEAN
    BY <1>4 DEF TimerFires, AlarmFires, Types
  <2>2. Types'
    BY <1>1, <1>2, <2>1 DEF Types, world
  <2> QED
    BY <1>2, <1>3, <2>1, <2>2 DEF OneLiveSocket, NothingLive, SocketUsed, Live
<1>5. CASE Changed
  <2>1. /\ changed' = FALSE /\ running' = TRUE /\ socket' = None
        /\ UNCHANGED <<setting, up, closings, failing, status, events>>
        /\ ws' = IF socket = None THEN ws ELSE [ws EXCEPT ![socket].state = "closing"]
    BY <1>5 DEF Changed
  <2>2. /\ ws' \in [Sockets -> [state : States, with : Settings \cup {None}]]
        /\ \A s \in Sockets : ~Live(s)'
    <3>1. CASE socket = None
      BY <2>1, <3>1, NoneIsNoSocket DEF Types, OneLiveSocket, Live
    <3>2. CASE socket # None
      <4>1. /\ socket \in Sockets
            /\ ws' \in [Sockets -> [state : States, with : Settings \cup {None}]]
            /\ ws'[socket].state = "closing"
            /\ \A s \in Sockets : s # socket => ws'[s] = ws[s]
        BY <2>1, <3>2 DEF Types, States
      <4> QED
        BY <4>1 DEF OneLiveSocket, Live
    <3> QED
      BY <3>1, <3>2
  <2>3. Types'
    BY <1>1, <1>2, <2>1, <2>2 DEF Types
  <2> QED
    BY <1>3, <2>1, <2>2, <2>3 DEF OneLiveSocket, NothingLive, SocketUsed
<1> QED
  BY <1>4, <1>5

LEMMA WorldStep ==
  ASSUME Inv, Save \/ ServerChanges \/ WorkerStops
  PROVE  Inv'
<1> USE DEF Inv, OneLiveSocket, NothingLive, SocketUsed, AlarmBehind, Live, retry
<1>1. CASE Save \/ ServerChanges
  <2>1. /\ UNCHANGED <<running, attempt, ws, socket, closings, failing, retry, status>>
        /\ setting' \in Settings /\ changed' \in BOOLEAN /\ up' \in BOOLEAN /\ events' = events + 1
    BY <1>1 DEF Save, ServerChanges, Event, Types
  <2>2. Types'
    BY <2>1 DEF Types
  <2> QED
    BY <2>1, <2>2 DEF NeverGivesUp
<1>2. CASE WorkerStops
  <2>1. /\ running /\ attempt.pc = "none" /\ closings = 0
        /\ \A s \in Sockets : ws[s].state = "unused"
        /\ running' = FALSE /\ timer' = FALSE /\ events' = events + 1
        /\ UNCHANGED <<setting, changed, up, attempt, ws, socket, closings, failing, alarm, status>>
    BY <1>2 DEF WorkerStops, Event
  <2>2. Types'
    <3>1. events' \in Nat
      BY <1>2 DEF WorkerStops, Event, Types
    <3>2. /\ running' \in BOOLEAN /\ timer' \in BOOLEAN
          /\ UNCHANGED <<setting, changed, up, attempt, ws, socket, closings, failing, alarm, status>>
      BY <1>2, Zenon DEF WorkerStops
    <3> QED
      BY <3>1, <3>2, Zenon DEF Types
  <2>3. socket = None
    BY <2>1 DEF Types
  <2>4. alarm
    BY <2>1, <2>3 DEF NeverGivesUp, Types
  <2> QED
    BY <2>1, <2>2, <2>4 DEF NeverGivesUp
<1> QED
  BY <1>1, <1>2

LEMMA InvNext == Inv /\ [Next]_vars => Inv'
<1> SUFFICES ASSUME Inv, [Next]_vars
             PROVE  Inv'
  OBVIOUS
<1>1. CASE UNCHANGED vars
  <2>1. UNCHANGED <<setting, changed, up, events, running, attempt, ws, socket, closings,
                    failing, timer, alarm, status>>
    BY <1>1 DEF vars, world, retry
  <2> QED
    BY <2>1 DEF Inv, Types, OneLiveSocket, NothingLive, SocketUsed, AlarmBehind, NeverGivesUp, Live
<1> QED
  BY <1>1, AttemptStep, ListenerStep, ProtocolStep, RetryStep, WorldStep DEF Next

-----------------------------------------------------------------------------
(* The theorems *)

\* The invariant always holds.
THEOREM ConnectionInvariant == Spec => []Inv
<1> QED
  BY InvInit, InvNext, PTL DEF Spec

\* The connection manager's state is well typed; a close listener is never waited
\* for that is not there.
THEOREM ConnectionTypeCorrect == Spec => []Types
<1>1. Inv => Types
  BY DEF Inv
<1> QED
  BY <1>1, ConnectionInvariant, PTL

\* The extension never has two connections, nor one that it has forgotten.
THEOREM AtMostOneConnection == Spec => []OneLiveSocket
<1>1. Inv => OneLiveSocket
  BY DEF Inv
<1> QED
  BY <1>1, ConnectionInvariant, PTL

\* Without a connection an attempt is under way or will be made, whatever closes,
\* stops, changes and retries come in between.
THEOREM AlwaysAnAttemptAhead == Spec => []NeverGivesUp
<1>1. Inv => NeverGivesUp
  BY DEF Inv
<1> QED
  BY <1>1, ConnectionInvariant, PTL

=============================================================================
