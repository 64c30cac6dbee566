------------------------------- MODULE Bridge -------------------------------
(***************************************************************************)
(* The WebSocket between the server and the extensions: the registry of    *)
(* connections, the correlation of answers with commands, and the one      *)
(* global socket each extension answers on                                  *)
(* (packages/mcp/src/chrome_bridge_mcp/bridge.py, the endpoint in app.py,   *)
(* and apps/extension/background.js).                                       *)
(*                                                                          *)
(* A step is what a task or an event listener does between two suspensions. *)
(* A command answered with an error resolves its call as one answered with  *)
(* a result does; pings, which change nothing, are left out.                *)
(***************************************************************************)
EXTENDS Integers, Sequences, FiniteSets

CONSTANTS
  Browsers,   \* extension installations
  Legacy,     \* those whose hello is protocol v1 and names no browser id
  Sockets,    \* WebSocket connections, each made once
  Commands,   \* request ids, each a uuid4 used once
  None

ASSUME LegacyAreBrowsers == Legacy \subseteq Browsers
ASSUME KeysDisjoint == Browsers \cap Sockets = {}
ASSUME NoneFresh == None \notin Browsers \cup Sockets

VARIABLES
  registry,     \* _connections: the connection registered under each browser id
  legacy,       \* _legacy_browser_id
  endpoint,     \* where extension_endpoint stands for each socket
  pending,      \* _pending of each connection
  timedOut,     \* _timed_out of each connection
  call,         \* where the task of each request stands
  future,       \* the state of each request's future
  asked,        \* the browser id each request named, None if it was omitted
  on,           \* the connection each request was resolved to
  link,         \* "unused", "open" or "closed"
  owner,        \* the extension that opened a socket
  toServer,     \* answers under way
  toExtension,  \* commands under way
  current,      \* socket: the extension's global
  running       \* commands being executed by the extension

routes == <<registry, legacy, endpoint>>
calls == <<pending, timedOut, call, future, asked, on>>
wires == <<link, owner, toServer, toExtension>>
extension == <<current, running>>
vars == <<routes, calls, wires, extension>>

\* A v1 connection is registered under a fresh uuid4: the socket stands for it.
Keys == Browsers \cup Sockets

\* "failing": the close of the connection that is replaced raises; "orphaned": the
\* endpoint has ended so, and left its connection registered.
Endpoints ==
  {"none", "greeting", "replacing", "failing", "reading", "rejecting", "orphaned", "gone"}

Init ==
  /\ registry = [key \in Keys |-> None]
  /\ legacy = None
  /\ endpoint = [k \in Sockets |-> "none"]
  /\ pending = [k \in Sockets |-> {}]
  /\ timedOut = [k \in Sockets |-> {}]
  /\ call = [q \in Commands |-> "idle"]
  /\ future = [q \in Commands |-> "pending"]
  /\ asked = [q \in Commands |-> None]
  /\ on = [q \in Commands |-> None]
  /\ link = [k \in Sockets |-> "unused"]
  /\ owner = [k \in Sockets |-> None]
  /\ toServer = [k \in Sockets |-> <<>>]
  /\ toExtension = [k \in Sockets |-> <<>>]
  /\ current = [b \in Browsers |-> None]
  /\ running = [b \in Browsers |-> {}]

-----------------------------------------------------------------------------
(* Helpers.  A definition marked "Slip" is no part of the specification: it is *)
(* a plausible mistake in the definition after it.                             *)

Key(k) == IF owner[k] \in Legacy THEN k ELSE owner[k]

Registered == {k \in Sockets : \E key \in Keys : registry[key] = k}

\* Slip: the connection goes, and the calls on it are not failed.
DisconnectQuietly(k) ==
  /\ pending' = [pending EXCEPT ![k] = {}]
  /\ UNCHANGED future

\* Slip: pending futures are not kept per connection.
DisconnectAll(k) ==
  /\ future' = [q \in Commands |-> IF q \in UNION {pending[c] : c \in Sockets}
                                      /\ future[q] = "pending"
                                   THEN "failed" ELSE future[q]]
  /\ pending' = [c \in Sockets |-> {}]

\* BrowserConnection.disconnect: the futures not done fail.
Disconnect(k) ==
  /\ future' = [q \in Commands |-> IF q \in pending[k] /\ future[q] = "pending"
                                   THEN "failed" ELSE future[q]]
  /\ pending' = [pending EXCEPT ![k] = {}]

\* Slip: a call for a browser that is not connected goes to another one.
ResolveAny(named) ==
  IF named # None /\ registry[named] # None THEN registry[named]
  ELSE IF Registered # {} THEN CHOOSE k \in Registered : TRUE
  ELSE None

\* resolve: the connection a request names, or the only one there is.
Resolve(named) ==
  IF named # None THEN registry[named]
  ELSE IF Cardinality(Registered) = 1 THEN CHOOSE k \in Registered : TRUE
  ELSE None

-----------------------------------------------------------------------------
(* The server's endpoint *)

\* What the close with 1012 comes to: it raises on a socket that has sent its own
\* close before, and may raise on one whose peer is gone.
Closing(previous) ==
  IF endpoint[previous] = "rejecting" THEN {"failing"}
  ELSE IF link[previous] = "closed" THEN {"replacing", "failing"}
  ELSE {"replacing"}

\* The hello is read and attach registers the connection.  The connection it
\* replaces fails its calls at once, and is closed with 1012: until that close
\* has been awaited the new connection is routed to but not read.
Greet(k) ==
  LET replaced == IF owner[k] \in Legacy THEN legacy ELSE owner[k]
      previous == IF replaced = None THEN None ELSE registry[replaced]
  IN /\ endpoint[k] = "greeting"
     /\ registry' = [key \in Keys |->
                       IF key = Key(k) THEN k
                       ELSE IF previous # None /\ key = replaced THEN None
                       ELSE registry[key]]
     /\ legacy' = IF owner[k] \in Legacy THEN k ELSE legacy
     /\ IF previous = None
        THEN /\ endpoint' = [endpoint EXCEPT ![k] = "reading"]
             /\ UNCHANGED <<pending, future, link>>
        ELSE /\ Disconnect(previous)
             /\ link' = [link EXCEPT ![previous] = "closed"]
             /\ \E closing \in Closing(previous) : endpoint' = [endpoint EXCEPT ![k] = closing]
     /\ UNCHANGED <<timedOut, call, asked, on, owner, toServer, toExtension, extension>>

\* The socket closes before its hello is read.
GreetNever(k) ==
  /\ endpoint[k] = "greeting"
  /\ link[k] = "closed"
  /\ endpoint' = [endpoint EXCEPT ![k] = "gone"]
  /\ UNCHANGED <<registry, legacy, calls, wires, extension>>

\* The close of the replaced connection has been awaited.
Replaced(k) ==
  /\ endpoint[k] = "replacing"
  /\ endpoint' = [endpoint EXCEPT ![k] = "reading"]
  /\ UNCHANGED <<registry, legacy, calls, wires, extension>>

\* The close raises, and attach with it: the endpoint ends without the connection
\* that it would detach, which stays registered, and its socket is closed.
ReplaceFails(k) ==
  /\ endpoint[k] = "failing"
  /\ endpoint' = [endpoint EXCEPT ![k] = "orphaned"]
  /\ link' = [link EXCEPT ![k] = "closed"]
  /\ UNCHANGED <<registry, legacy, calls, owner, toServer, toExtension, extension>>

\* receive: an answer resolves the call that waits for it on this connection, or
\* is ignored once if that call has timed out; any other closes the connection
\* with 1002.
Receive(k) ==
  /\ endpoint[k] = "reading"
  /\ toServer[k] # <<>>
  /\ toServer' = [toServer EXCEPT ![k] = Tail(@)]
  /\ LET q == Head(toServer[k])
     IN IF q \in pending[k] /\ future[q] = "pending"
        THEN /\ future' = [future EXCEPT ![q] = "answered"]
             /\ UNCHANGED <<timedOut, endpoint, link>>
        ELSE IF q \in timedOut[k]
        THEN /\ timedOut' = [timedOut EXCEPT ![k] = @ \ {q}]
             /\ UNCHANGED <<future, endpoint, link>>
        ELSE /\ endpoint' = [endpoint EXCEPT ![k] = "rejecting"]
             /\ link' = [link EXCEPT ![k] = "closed"]
             /\ UNCHANGED <<future, timedOut>>
  /\ UNCHANGED <<registry, legacy, pending, call, asked, on, owner, toExtension, extension>>

\* The endpoint's loop ends: it was rejected, or the socket has closed.
Over(k) ==
  \/ endpoint[k] = "rejecting"
  \/ endpoint[k] = "reading" /\ link[k] = "closed" /\ toServer[k] = <<>>

\* Slip: detach does not ask whether the connection was replaced.
DepartBlindly(k) ==
  /\ Over(k)
  /\ endpoint' = [endpoint EXCEPT ![k] = "gone"]
  /\ registry' = [registry EXCEPT ![Key(k)] = None]
  /\ legacy' = IF legacy = k THEN None ELSE legacy
  /\ Disconnect(k)
  /\ UNCHANGED <<timedOut, call, asked, on, wires, extension>>

\* Slip: only a socket the peer has closed is detached.
DepartUnrejected(k) ==
  /\ Over(k)
  /\ endpoint' = [endpoint EXCEPT ![k] = "gone"]
  /\ IF endpoint[k] = "reading" /\ registry[Key(k)] = k
     THEN /\ registry' = [registry EXCEPT ![Key(k)] = None]
          /\ legacy' = IF legacy = k THEN None ELSE legacy
          /\ Disconnect(k)
     ELSE UNCHANGED <<registry, legacy, pending, future>>
  /\ UNCHANGED <<timedOut, call, asked, on, wires, extension>>

\* detach, which does nothing for a connection that has been replaced.
Depart(k) ==
  /\ Over(k)
  /\ endpoint' = [endpoint EXCEPT ![k] = "gone"]
  /\ IF registry[Key(k)] = k
     THEN /\ registry' = [registry EXCEPT ![Key(k)] = None]
          /\ legacy' = IF legacy = Key(k) THEN None ELSE legacy
          /\ Disconnect(k)
     ELSE UNCHANGED <<registry, legacy, pending, future>>
  /\ UNCHANGED <<timedOut, call, asked, on, wires, extension>>

-----------------------------------------------------------------------------
(* BrowserConnection.request *)

\* The connection is resolved and the future registered; one that cannot be
\* resolved raises, and changes nothing.
Issue(q, named) ==
  LET k == Resolve(named)
  IN /\ call[q] = "idle"
     /\ k # None
     /\ call' = [call EXCEPT ![q] = "sending"]
     /\ asked' = [asked EXCEPT ![q] = named]
     /\ on' = [on EXCEPT ![q] = k]
     /\ pending' = [pending EXCEPT ![k] = @ \cup {q}]
     /\ UNCHANGED <<timedOut, future, routes, wires, extension>>

\* The command is sent under the send lock.  On a socket that has closed the
\* send raises, or the bytes are lost if that has not been noticed.
Send(q) ==
  LET k == on[q]
  IN /\ call[q] = "sending"
     /\ \/ /\ call' = [call EXCEPT ![q] = "waiting"]
           /\ toExtension' = IF link[k] = "open"
                             THEN [toExtension EXCEPT ![k] = Append(@, q)]
                             ELSE toExtension
           /\ UNCHANGED pending
        \/ /\ link[k] = "closed"
           /\ call' = [call EXCEPT ![q] = "over"]
           /\ pending' = [pending EXCEPT ![k] = @ \ {q}]
           /\ UNCHANGED toExtension
     /\ UNCHANGED <<timedOut, future, asked, on, routes, link, owner, toServer, extension>>

\* Slip: an answer is waited for without a time limit.
TimerUnarmed(q) ==
  /\ FALSE
  /\ call[q] = "waiting"
  /\ UNCHANGED vars

\* wait_for's timer fires and cancels the future.  The task itself runs later.
Timer(q) ==
  /\ call[q] = "waiting"
  /\ future[q] = "pending"
  /\ future' = [future EXCEPT ![q] = "cancelled"]
  /\ UNCHANGED <<pending, timedOut, call, asked, on, routes, wires, extension>>

\* The task wakes.  One that timed out is remembered for its late answer, while
\* ids older than LATE_ANSWER_WINDOW_SECONDS are forgotten: which of them are
\* that old is left open.
Wake(q) ==
  LET k == on[q]
  IN /\ call[q] = "waiting"
     /\ future[q] # "pending"
     /\ call' = [call EXCEPT ![q] = "over"]
     /\ pending' = [pending EXCEPT ![k] = @ \ {q}]
     /\ IF future[q] = "cancelled"
        THEN \E recent \in SUBSET timedOut[k] :
               timedOut' = [timedOut EXCEPT ![k] = recent \cup {q}]
        ELSE UNCHANGED timedOut
     /\ UNCHANGED <<future, asked, on, routes, wires, extension>>

-----------------------------------------------------------------------------
(* The extension *)

\* The global socket changes: what still arrives on the old one is ignored by its
\* listeners.
SetSocket(b, k) ==
  /\ current' = [current EXCEPT ![b] = k]
  /\ toExtension' = [c \in Sockets |-> IF c = current[b] THEN <<>> ELSE toExtension[c]]

\* connectOnce makes a socket, which opens and sends its hello.
Connect(b, k) ==
  /\ link[k] = "unused"
  /\ current[b] # None => link[current[b]] = "closed"
  /\ SetSocket(b, k)
  /\ owner' = [owner EXCEPT ![k] = b]
  /\ link' = [link EXCEPT ![k] = "open"]
  /\ endpoint' = [endpoint EXCEPT ![k] = "greeting"]
  /\ UNCHANGED <<registry, legacy, calls, toServer, running>>

\* The message listener of the current socket starts a command; commands run
\* side by side.
Take(b) ==
  LET k == current[b]
  IN /\ k # None
     /\ toExtension[k] # <<>>
     /\ toExtension' = [toExtension EXCEPT ![k] = Tail(@)]
     /\ running' = [running EXCEPT ![b] = @ \cup {Head(toExtension[k])}]
     /\ UNCHANGED <<routes, calls, link, owner, toServer, current>>

\* A command ends.  Its answer goes to the socket that is current by then, if
\* that is open: sendResponse knows no other.
Finish(b, q) ==
  LET k == current[b]
  IN /\ q \in running[b]
     /\ running' = [running EXCEPT ![b] = @ \ {q}]
     /\ toServer' = IF k # None /\ link[k] = "open"
                    THEN [toServer EXCEPT ![k] = Append(@, q)]
                    ELSE toServer
     /\ UNCHANGED <<routes, calls, link, owner, toExtension, current>>

\* The close listener of the current socket.
CloseSeen(b) ==
  /\ current[b] # None
  /\ link[current[b]] = "closed"
  /\ SetSocket(b, None)
  /\ UNCHANGED <<routes, calls, link, owner, toServer, running>>

\* reconnectWithNewSettings closes the socket; answers sent before still arrive.
Reconfigure(b) ==
  /\ current[b] # None
  /\ SetSocket(b, None)
  /\ link' = [link EXCEPT ![current[b]] = "closed"]
  /\ UNCHANGED <<routes, calls, owner, toServer, running>>

\* Chrome stops the service worker, with everything it was doing.
WorkerStops(b) ==
  /\ current[b] # None
  /\ SetSocket(b, None)
  /\ running' = [running EXCEPT ![b] = {}]
  /\ link' = [link EXCEPT ![current[b]] = "closed"]
  /\ UNCHANGED <<routes, calls, owner, toServer>>

\* The connection breaks, and what was under way is lost from some point on.
Break(k) ==
  /\ link[k] = "open"
  /\ link' = [link EXCEPT ![k] = "closed"]
  /\ \E n \in 0 .. Len(toServer[k]) :
       toServer' = [toServer EXCEPT ![k] = SubSeq(@, 1, n)]
  /\ \E n \in 0 .. Len(toExtension[k]) :
       toExtension' = [toExtension EXCEPT ![k] = SubSeq(@, 1, n)]
  /\ UNCHANGED <<routes, calls, owner, extension>>

ServerStep ==
  \/ \E k \in Sockets :
       Greet(k) \/ GreetNever(k) \/ Replaced(k) \/ ReplaceFails(k) \/ Receive(k) \/ Depart(k)
  \/ \E q \in Commands : Send(q) \/ Timer(q) \/ Wake(q)

Next ==
  \/ ServerStep
  \/ \E q \in Commands, named \in Keys \cup {None} : Issue(q, named)
  \/ \E b \in Browsers, k \in Sockets : Connect(b, k)
  \/ \E b \in Browsers : Take(b) \/ CloseSeen(b) \/ Reconfigure(b) \/ WorkerStops(b)
  \/ \E b \in Browsers, q \in Commands : Finish(b, q)
  \/ \E k \in Sockets : Break(k)

Spec == Init /\ [][Next]_vars

\* The task of a request goes on, its timer fires, and a send does not block for
\* ever.  Nothing is owed by an extension, nor by the endpoints.
Fairness == \A q \in Commands : WF_vars(Send(q) \/ Timer(q) \/ Wake(q))

FairSpec == Spec /\ Fairness

-----------------------------------------------------------------------------
(* Properties *)

BridgeTypeOK ==
  /\ registry \in [Keys -> Sockets \cup {None}]
  /\ legacy \in Sockets \cup {None}
  /\ endpoint \in [Sockets -> Endpoints]
  /\ pending \in [Sockets -> SUBSET Commands]
  /\ timedOut \in [Sockets -> SUBSET Commands]
  /\ call \in [Commands -> {"idle", "sending", "waiting", "over"}]
  /\ future \in [Commands -> {"pending", "answered", "failed", "cancelled"}]
  /\ asked \in [Commands -> Keys \cup {None}]
  /\ on \in [Commands -> Sockets \cup {None}]
  /\ link \in [Sockets -> {"unused", "open", "closed"}]
  /\ owner \in [Sockets -> Browsers \cup {None}]
  /\ toServer \in [Sockets -> Seq(Commands)]
  /\ toExtension \in [Sockets -> Seq(Commands)]
  /\ current \in [Browsers -> Sockets \cup {None}]
  /\ running \in [Browsers -> SUBSET Commands]

\* SPEC.md: "Extension disconnect fails every in-flight command".  A call whose
\* future nobody has completed is always on a registered connection, which
\* completes it when it leaves the registry: none is left behind on one that has
\* been replaced or detached.
LiveCallsAreRegistered ==
  \A q \in Commands :
    call[q] \in {"sending", "waiting"} /\ future[q] = "pending"
      => on[q] \in Registered /\ q \in pending[on[q]]

\* SPEC.md: "explicit tool calls to either are never sent to the other".  What an
\* extension executes was asked of it, or of no browser in particular.
RoutedExactly ==
  \A b \in Browsers : \A q \in running[b] :
    \/ asked[q] \in {None, b}
    \/ asked[q] \in Sockets /\ owner[asked[q]] = b

\* Routing test matrix: "Stale replaced socket detaches: replacement remains
\* registered", and "a v2 connection never replaces an unrelated ID".  A
\* connection leaves the registry only when its own endpoint is over, or for
\* another one of the same identity.
OnlyOwnersDeregister ==
  [][\A key \in Keys :
       LET k == registry[key]
       IN k # None /\ registry'[key] # k =>
            \/ endpoint'[k] = "gone"
            \/ key \in Browsers /\ registry'[key] # None /\ owner[registry'[key]] = key
            \/ key \in Sockets /\ legacy' \notin {None, k}]_vars

\* SPEC.md: "A same-ID reconnect, target disconnect, or protocol error does not
\* affect connections or pending commands for other IDs".  A call fails only in
\* the step that takes its own connection out of the registry.
CallsFailWithTheirConnection ==
  [][\A q \in Commands :
       future[q] = "pending" /\ future'[q] = "failed" =>
         /\ on[q] \in Registered
         /\ on[q] \notin Registered']_vars

\* Every call returns, whatever happens to the extension.
CallsReturn == \A q \in Commands : call[q] = "sending" ~> call[q] = "over"

\* A connection is in the registry only while its endpoint serves it, or when that
\* has orphaned it, and its calls leave the registry with it, whether it was closed,
\* replaced or rejected, and in whichever order.
LeavesForGood ==
  \A k \in Sockets :
    /\ k \in Registered => endpoint[k] \notin {"none", "greeting", "gone"}
    /\ k \notin Registered => pending[k] = {}

\* Routing test matrix: "Same v2 ID reconnects: Old socket gets 1012; only its
\* pending calls fail".  No connection on which a call is pending is broken by the
\* answer to a call that was made on an earlier one.
ReconnectSparesNewCalls ==
  [][\A k \in Sockets :
       endpoint[k] = "reading" /\ endpoint'[k] = "rejecting" =>
         on[Head(toServer[k])] = k \/ pending[k] = {}]_vars

=============================================================================
