---------------------------- MODULE BridgeProofs ----------------------------
(***************************************************************************)
(* Proofs about Bridge for any numbers of browsers, sockets and commands.    *)
(*                                                                          *)
(* Two arguments meet.  A connection is registered under one key, its own,   *)
(* and not once its endpoint has detached it (Registration, LegacyEntry), so *)
(* taking it out of the registry once is enough; and a call is pending on    *)
(* the connection it was resolved to and on no other (PendingCalls), so the  *)
(* calls of a connection go with it.  What an extension is given to execute  *)
(* comes from its own sockets (Carried, Executed).                           *)
(***************************************************************************)
EXTENDS Bridge, FiniteSetTheorems, TLAPS

\* Where the endpoint of a registered connection may stand.
Serving == {"replacing", "failing", "reading", "rejecting", "orphaned"}

\* A socket has an owner and an endpoint from the moment it is made.
Opened ==
  \A k \in Sockets :
    /\ owner[k] # None <=> link[k] # "unused"
    /\ owner[k] # None <=> endpoint[k] # "none"

\* A connection is registered under its own key, while its endpoint serves it or has
\* orphaned it.
Registration ==
  \A key \in Keys : registry[key] # None =>
    /\ Key(registry[key]) = key
    /\ endpoint[registry[key]] \in Serving

\* There is one v1 connection at most, and legacy names it.
LegacyEntry ==
  /\ legacy # None => registry[legacy] = legacy /\ owner[legacy] \in Legacy
  /\ \A s \in Sockets : registry[s] # None => legacy = s

PendingCalls ==
  \A k \in Sockets : \A q \in pending[k] :
    /\ k \in Registered
    /\ on[q] = k
    /\ call[q] \in {"sending", "waiting"}

Routed(b, q) ==
  \/ asked[q] \in {None, b}
  \/ asked[q] \in Sockets /\ owner[asked[q]] = b

\* A call is on a socket of the browser it was meant for.
Placed ==
  \A q \in Commands : call[q] # "idle" =>
    on[q] \in Sockets /\ owner[on[q]] # None /\ Routed(owner[on[q]], q)

\* What a socket carries to the extension was sent on it.
Carried ==
  \A k \in Sockets : \A i \in 1 .. Len(toExtension[k]) :
    call[toExtension[k][i]] # "idle" /\ on[toExtension[k][i]] = k

Executed ==
  \A b \in Browsers : \A q \in running[b] : call[q] # "idle" /\ Routed(b, q)

CurrentIsOwn ==
  \A b \in Browsers : current[b] # None => owner[current[b]] = b

\* The inductive invariant.
Inv ==
  /\ BridgeTypeOK
  /\ Opened
  /\ Registration
  /\ LegacyEntry
  /\ PendingCalls
  /\ LiveCallsAreRegistered
  /\ Placed
  /\ Carried
  /\ Executed
  /\ CurrentIsOwn

-----------------------------------------------------------------------------
(* The types *)

LEMMA TypeInit == Init => BridgeTypeOK
BY DEF Init, BridgeTypeOK, Endpoints, Keys

LEMMA KeyIsKey ==
  ASSUME BridgeTypeOK, NEW k \in Sockets, owner[k] # None
  PROVE  Key(k) \in Keys
BY DEF BridgeTypeOK, Key, Keys

LEMMA ResolveFinds ==
  ASSUME BridgeTypeOK, NEW named \in Keys \cup {None}, Resolve(named) # None
  PROVE  Resolve(named) \in Registered
<1>1. CASE named # None
  BY <1>1 DEF Resolve, BridgeTypeOK, Registered
<1>2. CASE named = None
  <2>1. Cardinality(Registered) = 1 /\ Resolve(named) = (CHOOSE k \in Registered : TRUE)
    BY <1>2 DEF Resolve
  <2>2. Registered # {}
    BY <2>1, FS_EmptySet
  <2> QED
    BY <2>1, <2>2
<1> QED
  BY <1>1, <1>2

LEMMA DisconnectTypes ==
  ASSUME BridgeTypeOK, NEW k \in Sockets, Disconnect(k)
  PROVE  /\ pending' \in [Sockets -> SUBSET Commands]
         /\ future' \in [Commands -> {"pending", "answered", "failed", "cancelled"}]
BY DEF BridgeTypeOK, Disconnect

LEMMA ServerTypes ==
  ASSUME BridgeTypeOK, NEW k \in Sockets,
         Greet(k) \/ GreetNever(k) \/ Replaced(k) \/ ReplaceFails(k) \/ Receive(k) \/ Depart(k)
  PROVE  BridgeTypeOK'
<1>1. CASE Greet(k)
  <2> DEFINE replaced == IF owner[k] \in Legacy THEN legacy ELSE owner[k]
             previous == IF replaced = None THEN None ELSE registry[replaced]
  <2>1. UNCHANGED <<timedOut, call, asked, on, owner, toServer, toExtension, current, running>>
    BY <1>1 DEF Greet, extension
  <2>2. registry' \in [Keys -> Sockets \cup {None}] /\ legacy' \in Sockets \cup {None}
    BY <1>1 DEF Greet, BridgeTypeOK
  <2>3. CASE previous = None
    <3>1. endpoint' \in [Sockets -> Endpoints] /\ UNCHANGED <<pending, future, link>>
      BY <1>1, <2>3 DEF Greet, BridgeTypeOK, Endpoints
    <3> QED
      BY <2>1, <2>2, <3>1 DEF BridgeTypeOK
  <2>4. CASE previous # None
    <3>1. previous \in Sockets
      BY <2>4, LegacyAreBrowsers, NoneFresh DEF BridgeTypeOK, Keys
    <3>2. Disconnect(previous)
      BY <1>1, <2>4 DEF Greet
    <3>3. endpoint' \in [Sockets -> Endpoints]
      <4>1. Closing(previous) \subseteq Endpoints
        BY DEF Closing, Endpoints
      <4>2. PICK closing \in Closing(previous) : endpoint' = [endpoint EXCEPT ![k] = closing]
        BY <1>1, <2>4, Zenon DEF Greet
      <4> QED
        BY <4>1, <4>2 DEF BridgeTypeOK
    <3>4. link' \in [Sockets -> {"unused", "open", "closed"}]
      BY <1>1, <2>4, <3>1 DEF Greet, BridgeTypeOK
    <3> QED
      BY <2>1, <2>2, <3>1, <3>2, <3>3, <3>4, DisconnectTypes DEF BridgeTypeOK
  <2> QED
    BY <2>3, <2>4
<1>2. CASE GreetNever(k) \/ Replaced(k)
  <2>1. /\ UNCHANGED <<registry, legacy, calls, wires, extension>>
        /\ endpoint' \in [Sockets -> Endpoints]
    BY <1>2 DEF GreetNever, Replaced, BridgeTypeOK, Endpoints
  <2> QED
    BY <2>1 DEF BridgeTypeOK, calls, wires, extension
<1>3. CASE Receive(k)
  <2>1. UNCHANGED <<registry, legacy, pending, call, asked, on, owner, toExtension, current, running>>
    BY <1>3 DEF Receive, extension
  <2>2. toServer' \in [Sockets -> Seq(Commands)] /\ Head(toServer[k]) \in Commands
    BY <1>3 DEF Receive, BridgeTypeOK
  <2>3. /\ endpoint' \in [Sockets -> Endpoints]
        /\ link' \in [Sockets -> {"unused", "open", "closed"}]
        /\ timedOut' \in [Sockets -> SUBSET Commands]
        /\ future' \in [Commands -> {"pending", "answered", "failed", "cancelled"}]
    <3>1. CASE future' = [future EXCEPT ![Head(toServer[k])] = "answered"]
               /\ UNCHANGED <<timedOut, endpoint, link>>
      BY <3>1, <2>2 DEF BridgeTypeOK
    <3>2. CASE timedOut' = [timedOut EXCEPT ![k] = @ \ {Head(toServer[k])}]
               /\ UNCHANGED <<future, endpoint, link>>
      BY <3>2 DEF BridgeTypeOK
    <3>3. CASE endpoint' = [endpoint EXCEPT ![k] = "rejecting"] /\ link' = [link EXCEPT ![k] = "closed"]
               /\ UNCHANGED <<future, timedOut>>
      BY <3>3 DEF BridgeTypeOK, Endpoints
    <3> QED
      BY <1>3, <3>1, <3>2, <3>3 DEF Receive
  <2> QED
    BY <2>1, <2>2, <2>3 DEF BridgeTypeOK
<1>5. CASE ReplaceFails(k)
  <2>1. /\ UNCHANGED <<registry, legacy, calls, owner, toServer, toExtension, extension>>
        /\ endpoint' \in [Sockets -> Endpoints]
        /\ link' \in [Sockets -> {"unused", "open", "closed"}]
    BY <1>5 DEF ReplaceFails, BridgeTypeOK, Endpoints
  <2> QED
    BY <2>1 DEF BridgeTypeOK, calls, extension
<1>4. CASE Depart(k)
  <2>1. UNCHANGED <<timedOut, call, asked, on, wires, current, running>>
    BY <1>4 DEF Depart, extension
  <2>2. endpoint' \in [Sockets -> Endpoints]
    BY <1>4 DEF Depart, BridgeTypeOK, Endpoints
  <2>3. registry' \in [Keys -> Sockets \cup {None}] /\ legacy' \in Sockets \cup {None}
    BY <1>4 DEF Depart, BridgeTypeOK
  <2>4. /\ pending' \in [Sockets -> SUBSET Commands]
        /\ future' \in [Commands -> {"pending", "answered", "failed", "cancelled"}]
    BY <1>4, DisconnectTypes DEF Depart, BridgeTypeOK
  <2> QED
    BY <2>1, <2>2, <2>3, <2>4 DEF BridgeTypeOK, wires
<1> QED
  BY <1>1, <1>2, <1>3, <1>4, <1>5

LEMMA RequestTypes ==
  ASSUME BridgeTypeOK, NEW q \in Commands,
         Send(q) \/ Timer(q) \/ Wake(q) \/ \E named \in Keys \cup {None} : Issue(q, named)
  PROVE  BridgeTypeOK'
<1>1. CASE Send(q)
  <2>1. UNCHANGED <<timedOut, future, asked, on, registry, legacy, endpoint, link, owner, toServer,
                    current, running>>
    BY <1>1 DEF Send, routes, extension
  <2>2. call' \in [Commands -> {"idle", "sending", "waiting", "over"}]
    <3>1. call' = [call EXCEPT ![q] = "waiting"] \/ call' = [call EXCEPT ![q] = "over"]
      BY <1>1 DEF Send
    <3> QED
      BY <3>1 DEF BridgeTypeOK
  <2>3. pending' \in [Sockets -> SUBSET Commands] /\ toExtension' \in [Sockets -> Seq(Commands)]
    <3>1. CASE UNCHANGED <<pending, toExtension>>
      BY <3>1 DEF BridgeTypeOK
    <3>2. CASE UNCHANGED pending /\ toExtension' = [toExtension EXCEPT ![on[q]] = Append(@, q)]
      <4>1. \A k \in Sockets : Append(toExtension[k], q) \in Seq(Commands)
        BY DEF BridgeTypeOK
      <4> QED
        BY <3>2, <4>1 DEF BridgeTypeOK
    <3>3. CASE UNCHANGED toExtension /\ pending' = [pending EXCEPT ![on[q]] = @ \ {q}]
      BY <3>3 DEF BridgeTypeOK
    <3> QED
      BY <1>1, <3>1, <3>2, <3>3 DEF Send
  <2> QED
    BY <2>1, <2>2, <2>3 DEF BridgeTypeOK
<1>2. CASE Timer(q)
  BY <1>2 DEF Timer, BridgeTypeOK, routes, wires, extension
<1>3. CASE Wake(q)
  <2>1. UNCHANGED <<future, asked, on, routes, wires, extension>>
    BY <1>3 DEF Wake
  <2>2. /\ call' \in [Commands -> {"idle", "sending", "waiting", "over"}]
        /\ pending' \in [Sockets -> SUBSET Commands]
    BY <1>3 DEF Wake, BridgeTypeOK
  <2>3. timedOut' \in [Sockets -> SUBSET Commands]
    <3>1. CASE UNCHANGED timedOut
      BY <3>1 DEF BridgeTypeOK
    <3>2. ASSUME NEW recent \in SUBSET timedOut[on[q]],
                 timedOut' = [timedOut EXCEPT ![on[q]] = recent \cup {q}]
          PROVE  timedOut' \in [Sockets -> SUBSET Commands]
      <4>1. CASE on[q] \in Sockets
        BY <3>2, <4>1 DEF BridgeTypeOK
      <4>2. CASE on[q] \notin Sockets
        BY <3>2, <4>2 DEF BridgeTypeOK
      <4> QED
        BY <4>1, <4>2
    <3> QED
      BY <1>3, <3>1, <3>2 DEF Wake
  <2> QED
    BY <2>1, <2>2, <2>3 DEF BridgeTypeOK, routes, wires, extension
<1>4. ASSUME NEW named \in Keys \cup {None}, Issue(q, named)
      PROVE  BridgeTypeOK'
  <2>1. Resolve(named) \in Sockets
    BY <1>4, ResolveFinds DEF Issue, Registered
  <2>2. UNCHANGED <<timedOut, future, routes, wires, extension>>
    BY <1>4 DEF Issue
  <2>3. /\ call' \in [Commands -> {"idle", "sending", "waiting", "over"}]
        /\ asked' \in [Commands -> Keys \cup {None}]
        /\ on' \in [Commands -> Sockets \cup {None}]
        /\ pending' \in [Sockets -> SUBSET Commands]
    BY <1>4, <2>1 DEF Issue, BridgeTypeOK
  <2> QED
    BY <2>2, <2>3 DEF BridgeTypeOK, routes, wires, extension
<1> QED
  BY <1>1, <1>2, <1>3, <1>4

LEMMA ExtensionTypes ==
  ASSUME BridgeTypeOK, NEW b \in Browsers,
         \/ \E k \in Sockets : Connect(b, k)
         \/ Take(b) \/ CloseSeen(b) \/ Reconfigure(b) \/ WorkerStops(b)
         \/ \E q \in Commands : Finish(b, q)
  PROVE  BridgeTypeOK'
<1>1. ASSUME NEW k \in Sockets \cup {None}, SetSocket(b, k)
      PROVE  /\ current' \in [Browsers -> Sockets \cup {None}]
             /\ toExtension' \in [Sockets -> Seq(Commands)]
  BY <1>1 DEF SetSocket, BridgeTypeOK
<1>2. ASSUME NEW k \in Sockets, Connect(b, k)
      PROVE  BridgeTypeOK'
  <2>1. /\ UNCHANGED <<registry, legacy, calls, toServer, running>>
        /\ owner' \in [Sockets -> Browsers \cup {None}]
        /\ link' \in [Sockets -> {"unused", "open", "closed"}]
        /\ endpoint' \in [Sockets -> Endpoints]
    BY <1>2 DEF Connect, BridgeTypeOK, Endpoints
  <2>2. SetSocket(b, k)
    BY <1>2 DEF Connect
  <2> QED
    BY <1>1, <2>1, <2>2 DEF BridgeTypeOK, calls
<1>3. CASE Take(b)
  <2>1. /\ UNCHANGED <<routes, calls, link, owner, toServer, current>>
        /\ current[b] # None /\ toExtension[current[b]] # <<>>
        /\ toExtension' = [toExtension EXCEPT ![current[b]] = Tail(@)]
        /\ running' = [running EXCEPT ![b] = @ \cup {Head(toExtension[current[b]])}]
    BY <1>3 DEF Take
  <2>2. toExtension' \in [Sockets -> Seq(Commands)] /\ running' \in [Browsers -> SUBSET Commands]
    BY <2>1 DEF BridgeTypeOK
  <2> QED
    BY <2>1, <2>2 DEF BridgeTypeOK, routes, calls
<1>4. CASE CloseSeen(b) \/ Reconfigure(b) \/ WorkerStops(b)
  <2>1. UNCHANGED <<routes, calls, owner, toServer>> /\ SetSocket(b, None)
    BY <1>4 DEF CloseSeen, Reconfigure, WorkerStops
  <2>2. link' \in [Sockets -> {"unused", "open", "closed"}] /\ running' \in [Browsers -> SUBSET Commands]
    BY <1>4 DEF CloseSeen, Reconfigure, WorkerStops, BridgeTypeOK
  <2> QED
    BY <1>1, <2>1, <2>2 DEF BridgeTypeOK, routes, calls
<1>5. ASSUME NEW q \in Commands, Finish(b, q)
      PROVE  BridgeTypeOK'
  <2>1. UNCHANGED <<routes, calls, link, owner, toExtension, current>>
    BY <1>5 DEF Finish
  <2>2. running' \in [Browsers -> SUBSET Commands] /\ toServer' \in [Sockets -> Seq(Commands)]
    BY <1>5 DEF Finish, BridgeTypeOK
  <2> QED
    BY <2>1, <2>2 DEF BridgeTypeOK, routes, calls
<1> QED
  BY <1>2, <1>3, <1>4, <1>5

LEMMA BreakTypes ==
  ASSUME BridgeTypeOK, NEW k \in Sockets, Break(k)
  PROVE  BridgeTypeOK'
<1>1. UNCHANGED <<routes, calls, owner, extension>> /\ link' \in [Sockets -> {"unused", "open", "closed"}]
  BY DEF Break, BridgeTypeOK
<1>2. ASSUME NEW s \in Seq(Commands), NEW n \in 0 .. Len(s)
      PROVE  SubSeq(s, 1, n) \in Seq(Commands)
  BY <1>2
<1>3. toServer' \in [Sockets -> Seq(Commands)]
  <2>1. PICK n \in 0 .. Len(toServer[k]) : toServer' = [toServer EXCEPT ![k] = SubSeq(@, 1, n)]
    BY DEF Break
  <2> QED
    BY <1>2, <2>1 DEF BridgeTypeOK
<1>4. toExtension' \in [Sockets -> Seq(Commands)]
  <2>1. PICK n \in 0 .. Len(toExtension[k]) : toExtension' = [toExtension EXCEPT ![k] = SubSeq(@, 1, n)]
    BY DEF Break
  <2> QED
    BY <1>2, <2>1 DEF BridgeTypeOK
<1> QED
  BY <1>1, <1>3, <1>4 DEF BridgeTypeOK, routes, calls, extension

LEMMA TypeNext == BridgeTypeOK /\ [Next]_vars => BridgeTypeOK'
<1> SUFFICES ASSUME BridgeTypeOK, [Next]_vars
             PROVE  BridgeTypeOK'
  OBVIOUS
<1>1. CASE UNCHANGED vars
  BY <1>1 DEF vars, routes, calls, wires, extension, BridgeTypeOK
<1>2. CASE ServerStep
  BY <1>2, ServerTypes, RequestTypes DEF ServerStep
<1> QED
  BY <1>1, <1>2, RequestTypes, ExtensionTypes, BreakTypes DEF Next

-----------------------------------------------------------------------------
(* The registry *)

\* Closing sockets and moving an endpoint on keeps the registry in order, as long
\* as the endpoint of a registered connection goes on serving it.
LEMMA RegistryKept ==
  ASSUME Opened, Registration, LegacyEntry, BridgeTypeOK,
         UNCHANGED <<registry, legacy, owner>>,
         \A k \in Sockets : link'[k] # "unused" <=> link[k] # "unused",
         \A k \in Sockets : endpoint'[k] # "none" <=> endpoint[k] # "none",
         \A k \in Sockets : endpoint[k] \in Serving => endpoint'[k] \in Serving
  PROVE  Opened' /\ Registration' /\ LegacyEntry'
<1>1. Opened'
  BY DEF Opened
<1>2. Registration'
  BY DEF Registration, Key, BridgeTypeOK
<1>3. LegacyEntry'
  BY DEF LegacyEntry
<1> QED
  BY <1>1, <1>2, <1>3

\* The key Greet takes over, and the connection it replaces.
ReplacedKey(k) == IF owner[k] \in Legacy THEN legacy ELSE owner[k]
Previous(k) == IF ReplacedKey(k) = None THEN None ELSE registry[ReplacedKey(k)]

LEMMA GreetDoes ==
  ASSUME NEW k \in Sockets, Greet(k)
  PROVE  /\ endpoint[k] = "greeting"
         /\ registry' = [key \in Keys |->
                           IF key = Key(k) THEN k
                           ELSE IF Previous(k) # None /\ key = ReplacedKey(k) THEN None
                           ELSE registry[key]]
         /\ legacy' = IF owner[k] \in Legacy THEN k ELSE legacy
         /\ \/ /\ Previous(k) = None
               /\ endpoint' = [endpoint EXCEPT ![k] = "reading"]
               /\ UNCHANGED <<pending, future, link>>
            \/ /\ Previous(k) # None
               /\ Disconnect(Previous(k))
               /\ link' = [link EXCEPT ![Previous(k)] = "closed"]
               /\ \E closing \in {"replacing", "failing"} : endpoint' = [endpoint EXCEPT ![k] = closing]
         /\ UNCHANGED <<timedOut, call, asked, on, owner, toServer, toExtension, extension>>
<1>1. /\ endpoint[k] = "greeting"
      /\ registry' = [key \in Keys |->
                        IF key = Key(k) THEN k
                        ELSE IF Previous(k) # None /\ key = ReplacedKey(k) THEN None
                        ELSE registry[key]]
      /\ legacy' = IF owner[k] \in Legacy THEN k ELSE legacy
      /\ UNCHANGED <<timedOut, call, asked, on, owner, toServer, toExtension, extension>>
  BY Zenon DEF Greet, Previous, ReplacedKey
<1>2. IF Previous(k) = None
      THEN /\ endpoint' = [endpoint EXCEPT ![k] = "reading"]
           /\ UNCHANGED <<pending, future, link>>
      ELSE /\ Disconnect(Previous(k))
           /\ link' = [link EXCEPT ![Previous(k)] = "closed"]
           /\ \E closing \in Closing(Previous(k)) : endpoint' = [endpoint EXCEPT ![k] = closing]
  BY Zenon DEF Greet, Previous, ReplacedKey
<1>3. Closing(Previous(k)) \subseteq {"replacing", "failing"}
  BY DEF Closing
<1> QED
  BY <1>1, <1>2, <1>3, Zenon

\* A connection that greets is not registered, and one that it replaces was, under
\* the key that it gives up.
LEMMA GreetReplaces ==
  ASSUME Opened, Registration, LegacyEntry, BridgeTypeOK, NEW k \in Sockets, Greet(k)
  PROVE  /\ owner[k] \in Browsers
         /\ k \notin Registered
         /\ Previous(k) # None =>
              /\ Previous(k) \in Sockets /\ Previous(k) # k
              /\ ReplacedKey(k) \in Keys
              /\ Key(Previous(k)) = ReplacedKey(k) /\ registry[ReplacedKey(k)] = Previous(k)
         /\ \A key \in Keys : registry'[key] = IF key = Key(k) THEN k
                                               ELSE IF key = ReplacedKey(k) THEN None ELSE registry[key]
<1>1. owner[k] \in Browsers /\ endpoint[k] = "greeting"
  BY GreetDoes DEF Opened, BridgeTypeOK
<1>2. k \notin Registered
  BY <1>1, NoneFresh DEF Registered, Registration, Serving
<1>3. ASSUME Previous(k) # None
      PROVE  /\ Previous(k) \in Sockets /\ Previous(k) # k
             /\ ReplacedKey(k) \in Keys
             /\ Key(Previous(k)) = ReplacedKey(k) /\ registry[ReplacedKey(k)] = Previous(k)
  <2>1. ReplacedKey(k) \in Keys /\ registry[ReplacedKey(k)] = Previous(k)
    BY <1>1, <1>3 DEF BridgeTypeOK, Keys, Previous, ReplacedKey
  <2> QED
    BY <1>2, <1>3, <2>1 DEF Registration, Registered, BridgeTypeOK
<1>4. \A key \in Keys : registry'[key] = IF key = Key(k) THEN k
                                         ELSE IF Previous(k) # None /\ key = ReplacedKey(k) THEN None
                                         ELSE registry[key]
  <2>1. registry' = [key \in Keys |->
                       IF key = Key(k) THEN k
                       ELSE IF Previous(k) # None /\ key = ReplacedKey(k) THEN None
                       ELSE registry[key]]
    BY GreetDoes
  <2> QED
    BY <2>1, Zenon
<1>5. ASSUME NEW key \in Keys, key = ReplacedKey(k), Previous(k) = None
      PROVE  registry[key] = None
  BY <1>5, NoneFresh DEF Keys, Previous
<1> QED
  BY <1>1, <1>2, <1>3, <1>4, <1>5

LEMMA GreetKeepsRegistry ==
  ASSUME Opened, Registration, LegacyEntry, BridgeTypeOK, NEW k \in Sockets, Greet(k)
  PROVE  Opened' /\ Registration' /\ LegacyEntry'
<1>1. /\ owner[k] \in Browsers
      /\ k \notin Registered
      /\ Previous(k) # None =>
           /\ Previous(k) \in Sockets /\ Previous(k) # k
           /\ ReplacedKey(k) \in Keys
           /\ Key(Previous(k)) = ReplacedKey(k) /\ registry[ReplacedKey(k)] = Previous(k)
      /\ \A key \in Keys : registry'[key] = IF key = Key(k) THEN k
                                            ELSE IF key = ReplacedKey(k) THEN None ELSE registry[key]
  BY GreetReplaces
<1>2. owner' = owner /\ legacy' = IF owner[k] \in Legacy THEN k ELSE legacy
  BY GreetDoes
<1>3. /\ \A c \in Sockets : c # k => endpoint'[c] = endpoint[c]
      /\ endpoint'[k] \in {"reading", "replacing", "failing"}
      /\ endpoint[k] = "greeting"
  BY GreetDoes DEF BridgeTypeOK
<1>4. \A c \in Sockets : link'[c] = link[c] \/ (c = Previous(k) /\ c # None /\ link'[c] = "closed")
  <2>1. \/ UNCHANGED link
        \/ Previous(k) # None /\ link' = [link EXCEPT ![Previous(k)] = "closed"]
    BY GreetDoes
  <2> QED
    BY <2>1 DEF BridgeTypeOK
<1>5. Opened'
  <2>1. Previous(k) # None => owner[Previous(k)] # None
    BY <1>1 DEF Registration, Opened, Serving
  <2>2. owner[k] # None
    BY <1>1, NoneFresh
  <2> QED
    BY <1>2, <1>3, <1>4, <2>1, <2>2 DEF Opened
<1>6. Registration'
  <2> SUFFICES ASSUME NEW key \in Keys, registry'[key] # None
               PROVE  (Key(registry[key]) = key)' /\ endpoint'[registry'[key]] \in Serving
    BY DEF Registration, Key
  <2>1. CASE key = Key(k)
    BY <1>1, <1>2, <1>3, <2>1 DEF Key, Serving
  <2>2. CASE key # Key(k)
    <3>1. registry'[key] = registry[key] /\ registry[key] # None
      BY <1>1, <2>2
    <3>2. registry[key] # k /\ registry[key] \in Sockets
      BY <1>1, <3>1 DEF Registered, BridgeTypeOK
    <3> QED
      BY <1>2, <1>3, <3>1, <3>2 DEF Registration, Key
  <2> QED
    BY <2>1, <2>2
<1>7. LegacyEntry'
  <2>1. \A s \in Sockets : s \in Keys /\ s \notin Browsers
    BY KeysDisjoint DEF Keys
  <2>2. CASE owner[k] \in Legacy
    <3>1. legacy' = k /\ Key(k) = k /\ ReplacedKey(k) = legacy
      BY <1>2, <2>2 DEF Key, ReplacedKey
    <3> QED
      BY <1>1, <1>2, <2>1, <2>2, <3>1 DEF LegacyEntry
  <2>3. CASE owner[k] \notin Legacy
    <3>1. legacy' = legacy /\ Key(k) = owner[k] /\ ReplacedKey(k) = owner[k]
      BY <1>2, <2>3 DEF Key, ReplacedKey
    <3>2. \A s \in Sockets : registry'[s] = registry[s]
      BY <1>1, <2>1, <3>1
    <3> QED
      BY <1>2, <3>1, <3>2 DEF LegacyEntry, BridgeTypeOK
  <2> QED
    BY <2>2, <2>3
<1> QED
  BY <1>5, <1>6, <1>7

LEMMA DepartKeepsRegistry ==
  ASSUME Opened, Registration, LegacyEntry, BridgeTypeOK, NEW k \in Sockets, Depart(k)
  PROVE  /\ Opened' /\ Registration' /\ LegacyEntry'
         /\ owner[k] # None /\ k \notin Registered'
<1>1. /\ \A c \in Sockets : c # k => endpoint'[c] = endpoint[c]
      /\ endpoint'[k] = "gone" /\ endpoint[k] # "none"
      /\ UNCHANGED <<link, owner>>
  BY DEF Depart, Over, wires, BridgeTypeOK
<1>2. owner[k] # None /\ Key(k) \in Keys
  BY <1>1, KeyIsKey DEF Opened
<1>3. Opened'
  BY <1>1 DEF Opened
<1>4. CASE registry[Key(k)] = k
  <2>1. registry' = [registry EXCEPT ![Key(k)] = None] /\ legacy' = IF legacy = Key(k) THEN None ELSE legacy
    BY <1>4 DEF Depart
  <2>2. \A key \in Keys : registry'[key] = IF key = Key(k) THEN None ELSE registry[key]
    BY <2>1 DEF BridgeTypeOK
  <2>3. k \notin Registered'
    BY <1>1, <2>2, NoneFresh DEF Registered, Registration
  <2>4. Registration'
    BY <1>1, <2>2, <2>3 DEF Registration, Registered, Key, BridgeTypeOK
  <2>5. LegacyEntry'
    BY <1>1, <2>1, <2>2 DEF LegacyEntry, BridgeTypeOK, Keys
  <2> QED
    BY <1>2, <1>3, <2>3, <2>4, <2>5
<1>5. CASE registry[Key(k)] # k
  <2>1. UNCHANGED <<registry, legacy>>
    BY <1>5 DEF Depart
  <2>2. k \notin Registered
    BY <1>5, NoneFresh DEF Registered, Registration
  <2>3. Registration'
    BY <1>1, <2>1, <2>2 DEF Registration, Registered, Key, BridgeTypeOK
  <2> QED
    BY <1>1, <1>2, <1>3, <2>1, <2>2, <2>3 DEF LegacyEntry, Registered
<1> QED
  BY <1>4, <1>5

LEMMA RegistryNext ==
  ASSUME Inv, [Next]_vars
  PROVE  Opened' /\ Registration' /\ LegacyEntry'
<1> USE DEF Inv
<1>1. ASSUME NEW k \in Sockets, Greet(k) \/ Depart(k)
      PROVE  Opened' /\ Registration' /\ LegacyEntry'
  BY <1>1, GreetKeepsRegistry, DepartKeepsRegistry
<1>2. ASSUME NEW k \in Sockets, GreetNever(k) \/ Replaced(k)
      PROVE  Opened' /\ Registration' /\ LegacyEntry'
  <2>1. UNCHANGED <<registry, legacy, owner, link>>
    BY <1>2 DEF GreetNever, Replaced, wires
  <2>2. \A c \in Sockets : \/ endpoint'[c] = endpoint[c]
                           \/ endpoint[c] = "greeting" /\ endpoint'[c] = "gone"
                           \/ endpoint[c] = "replacing" /\ endpoint'[c] = "reading"
    BY <1>2 DEF GreetNever, Replaced, BridgeTypeOK
  <2> QED
    BY <2>1, <2>2, RegistryKept DEF Serving
<1>3. ASSUME NEW k \in Sockets, Receive(k)
      PROVE  Opened' /\ Registration' /\ LegacyEntry'
  <2>1. UNCHANGED <<registry, legacy, owner>> /\ endpoint[k] = "reading"
    BY <1>3 DEF Receive
  <2>2. CASE UNCHANGED <<endpoint, link>>
    BY <2>1, <2>2, RegistryKept
  <2>3. CASE endpoint' = [endpoint EXCEPT ![k] = "rejecting"] /\ link' = [link EXCEPT ![k] = "closed"]
    <3>1. \A c \in Sockets : \/ endpoint'[c] = endpoint[c] /\ link'[c] = link[c]
                             \/ c = k /\ endpoint'[c] = "rejecting" /\ link'[c] = "closed"
      BY <2>3 DEF BridgeTypeOK
    <3>2. link[k] # "unused"
      BY <2>1 DEF Opened
    <3> QED
      BY <2>1, <3>1, <3>2, RegistryKept DEF Serving
  <2> QED
    BY <1>3, <2>2, <2>3 DEF Receive
<1>11. ASSUME NEW k \in Sockets, ReplaceFails(k)
       PROVE  Opened' /\ Registration' /\ LegacyEntry'
  <2>1. UNCHANGED <<registry, legacy, owner>> /\ endpoint[k] = "failing" /\ link[k] # "unused"
    BY <1>11 DEF ReplaceFails, Opened
  <2>2. \A c \in Sockets : \/ endpoint'[c] = endpoint[c] /\ link'[c] = link[c]
                           \/ c = k /\ endpoint'[c] = "orphaned" /\ link'[c] = "closed"
    BY <1>11 DEF ReplaceFails, BridgeTypeOK
  <2> QED
    BY <2>1, <2>2, RegistryKept DEF Serving
<1>4. ASSUME NEW b \in Browsers, NEW k \in Sockets, Connect(b, k)
      PROVE  Opened' /\ Registration' /\ LegacyEntry'
  <2>1. UNCHANGED <<registry, legacy>> /\ link[k] = "unused"
    BY <1>4 DEF Connect
  <2>2. /\ \A c \in Sockets : c # k => owner'[c] = owner[c] /\ link'[c] = link[c] /\ endpoint'[c] = endpoint[c]
        /\ owner'[k] = b /\ link'[k] = "open" /\ endpoint'[k] = "greeting"
    BY <1>4 DEF Connect, BridgeTypeOK
  <2>3. owner[k] = None /\ endpoint[k] = "none" /\ b # None
    BY <2>1, NoneFresh DEF Opened
  <2>4. k \notin Registered
    BY <2>3, NoneFresh DEF Registered, Registration, Serving
  <2>5. Registration' /\ LegacyEntry'
    BY <2>1, <2>2, <2>4, NoneFresh DEF Registration, LegacyEntry, Registered, Key, BridgeTypeOK, Keys
  <2> QED
    BY <2>2, <2>3, <2>5 DEF Opened
<1>5. ASSUME NEW b \in Browsers, CloseSeen(b) \/ Reconfigure(b) \/ WorkerStops(b)
      PROVE  Opened' /\ Registration' /\ LegacyEntry'
  <2>1. UNCHANGED <<registry, legacy, owner, endpoint>>
    BY <1>5 DEF CloseSeen, Reconfigure, WorkerStops, routes
  <2>2. current[b] \in Sockets /\ link[current[b]] # "unused"
    BY <1>5, NoneFresh DEF CloseSeen, Reconfigure, WorkerStops, BridgeTypeOK, CurrentIsOwn, Opened
  <2>3. link' = link \/ link' = [link EXCEPT ![current[b]] = "closed"]
    BY <1>5 DEF CloseSeen, Reconfigure, WorkerStops
  <2>4. \A c \in Sockets : link'[c] = link[c] \/ (c = current[b] /\ link'[c] = "closed")
    BY <2>3 DEF BridgeTypeOK
  <2> QED
    BY <2>1, <2>2, <2>4, RegistryKept
<1>6. ASSUME NEW k \in Sockets, Break(k)
      PROVE  Opened' /\ Registration' /\ LegacyEntry'
  <2>1. UNCHANGED <<registry, legacy, owner, endpoint>> /\ link[k] = "open" /\ link' = [link EXCEPT ![k] = "closed"]
    BY <1>6 DEF Break, routes
  <2>2. \A c \in Sockets : link'[c] # "unused" <=> link[c] # "unused"
    BY <2>1 DEF BridgeTypeOK
  <2> QED
    BY <2>1, <2>2, RegistryKept
<1>7. CASE UNCHANGED <<registry, legacy, owner, endpoint, link>>
  BY <1>7, RegistryKept
<1>8. ASSUME NEW q \in Commands, Send(q) \/ Timer(q) \/ Wake(q) \/ \E named \in Keys \cup {None} : Issue(q, named)
      PROVE  UNCHANGED <<registry, legacy, owner, endpoint, link>>
  BY <1>8 DEF Send, Timer, Wake, Issue, routes, wires
<1>9. ASSUME NEW b \in Browsers, Take(b) \/ \E q \in Commands : Finish(b, q)
      PROVE  UNCHANGED <<registry, legacy, owner, endpoint, link>>
  BY <1>9 DEF Take, Finish, routes, wires
<1>10. CASE UNCHANGED vars
  BY <1>7, <1>10 DEF vars, routes, wires
<1> QED
  BY <1>1, <1>2, <1>3, <1>4, <1>5, <1>6, <1>7, <1>8, <1>9, <1>10, <1>11 DEF Next, ServerStep

LEMMA GreetRegisters ==
  ASSUME Opened, Registration, LegacyEntry, BridgeTypeOK, NEW k \in Sockets, Greet(k)
  PROVE  /\ Previous(k) # None => Previous(k) \in Registered /\ Previous(k) \notin Registered'
         /\ Registered \ {Previous(k)} \subseteq Registered'
<1>1. /\ k \notin Registered
      /\ Previous(k) # None =>
           /\ Previous(k) \in Sockets /\ Previous(k) # k
           /\ ReplacedKey(k) \in Keys
           /\ Key(Previous(k)) = ReplacedKey(k) /\ registry[ReplacedKey(k)] = Previous(k)
      /\ \A key \in Keys : registry'[key] = IF key = Key(k) THEN k
                                            ELSE IF key = ReplacedKey(k) THEN None ELSE registry[key]
  BY GreetReplaces
<1>2. Previous(k) # None => Previous(k) \in Registered
  BY <1>1 DEF Registered
<1>3. Previous(k) # None => Previous(k) \notin Registered'
  BY <1>1 DEF Registered, Registration
<1>4. ASSUME NEW c \in Registered, c # Previous(k)
      PROVE  c \in Registered'
  <2>1. PICK key \in Keys : registry[key] = c
    BY DEF Registered
  <2>2. c \in Sockets /\ c # k /\ c # None
    BY <1>1, NoneFresh DEF Registered
  <2>3. key # ReplacedKey(k)
    BY <1>4, <2>1, <2>2, NoneFresh DEF Previous, Keys
  <2>4. key # Key(k)
    <3>1. CASE owner[k] \in Legacy
      <4>1. Key(k) = k /\ k \in Keys /\ k # None
        BY <3>1, NoneFresh DEF Key, Keys
      <4>2. registry[k] = None
        BY <1>1, <4>1 DEF LegacyEntry, Registered
      <4> QED
        BY <2>1, <2>2, <4>1, <4>2
    <3>2. CASE owner[k] \notin Legacy
      BY <2>3, <3>2 DEF Key, ReplacedKey
    <3> QED
      BY <3>1, <3>2
  <2> QED
    BY <1>1, <2>1, <2>2, <2>3, <2>4 DEF Registered
<1> QED
  BY <1>2, <1>3, <1>4

LEMMA DepartRegisters ==
  ASSUME Opened, Registration, LegacyEntry, BridgeTypeOK, NEW k \in Sockets, Depart(k)
  PROVE  /\ k \notin Registered'
         /\ Registered \ {k} \subseteq Registered'
         /\ \/ k \in Registered /\ Disconnect(k)
            \/ k \notin Registered /\ UNCHANGED <<registry, pending, future>>
<1>1. k \notin Registered' /\ owner[k] # None
  BY DepartKeepsRegistry
<1>2. Key(k) \in Keys
  BY <1>1, KeyIsKey
<1>3. CASE registry[Key(k)] = k
  <2>1. registry' = [registry EXCEPT ![Key(k)] = None] /\ Disconnect(k)
    BY <1>3 DEF Depart
  <2>2. \A key \in Keys : registry'[key] = registry[key] \/ registry[key] = k
    BY <1>3, <2>1 DEF BridgeTypeOK
  <2> QED
    BY <1>1, <1>2, <1>3, <2>1, <2>2 DEF Registered
<1>4. CASE registry[Key(k)] # k
  <2>1. UNCHANGED <<registry, pending, future>>
    BY <1>4 DEF Depart
  <2>2. k \notin Registered
    BY <1>4, NoneFresh DEF Registered, Registration
  <2> QED
    BY <1>1, <2>1, <2>2 DEF Registered
<1> QED
  BY <1>3, <1>4

-----------------------------------------------------------------------------
(* The calls *)

LEMMA CallsKept ==
  ASSUME PendingCalls, LiveCallsAreRegistered, BridgeTypeOK,
         UNCHANGED <<pending, call, on>>,
         \A q \in Commands : future'[q] = "pending" => future[q] = "pending",
         Registered \subseteq Registered'
  PROVE  PendingCalls' /\ LiveCallsAreRegistered'
<1>1. PendingCalls'
  BY DEF PendingCalls
<1>2. LiveCallsAreRegistered'
  BY DEF LiveCallsAreRegistered
<1> QED
  BY <1>1, <1>2

\* The calls of a connection go with it, and no other call does.
LEMMA DisconnectFailsItsCalls ==
  ASSUME PendingCalls, LiveCallsAreRegistered, BridgeTypeOK,
         NEW k \in Sockets, Disconnect(k),
         UNCHANGED <<call, on>>,
         Registered \ {k} \subseteq Registered'
  PROVE  PendingCalls' /\ LiveCallsAreRegistered'
<1>1. /\ pending'[k] = {}
      /\ \A c \in Sockets : c # k => pending'[c] = pending[c]
      /\ \A q \in Commands : future'[q] = "pending" => future[q] = "pending" /\ q \notin pending[k]
  BY DEF Disconnect, BridgeTypeOK
<1>2. PendingCalls'
  BY <1>1 DEF PendingCalls
<1>3. LiveCallsAreRegistered'
  BY <1>1 DEF LiveCallsAreRegistered, Registered
<1> QED
  BY <1>2, <1>3

LEMMA CallsNext ==
  ASSUME Inv, [Next]_vars
  PROVE  PendingCalls' /\ LiveCallsAreRegistered'
<1> USE DEF Inv
<1>1. ASSUME NEW k \in Sockets, Greet(k)
      PROVE  PendingCalls' /\ LiveCallsAreRegistered'
  <2>1. UNCHANGED <<call, on>> /\ Registered \ {Previous(k)} \subseteq Registered'
    BY <1>1, GreetDoes, GreetRegisters
  <2>2. CASE Previous(k) = None /\ UNCHANGED <<pending, future>>
    <3>1. Registered \subseteq Registered'
      BY <2>1, <2>2, NoneFresh DEF Registered
    <3> QED
      BY <2>1, <2>2, <3>1, CallsKept
  <2>3. CASE Previous(k) # None /\ Disconnect(Previous(k))
    <3>1. Previous(k) \in Sockets
      BY <1>1, <2>3, GreetReplaces
    <3> QED
      BY <2>1, <2>3, <3>1, DisconnectFailsItsCalls
  <2> QED
    BY <1>1, <2>2, <2>3, GreetDoes
<1>2. ASSUME NEW k \in Sockets, Depart(k)
      PROVE  PendingCalls' /\ LiveCallsAreRegistered'
  <2>1. UNCHANGED <<call, on>> /\ Registered \ {k} \subseteq Registered'
    BY <1>2, DepartRegisters DEF Depart
  <2>2. CASE k \in Registered /\ Disconnect(k)
    BY <2>1, <2>2, DisconnectFailsItsCalls
  <2>3. CASE UNCHANGED <<registry, pending, future>>
    BY <2>1, <2>3, CallsKept DEF Registered
  <2> QED
    BY <1>2, <2>2, <2>3, DepartRegisters
<1>3. ASSUME NEW k \in Sockets, Receive(k)
      PROVE  PendingCalls' /\ LiveCallsAreRegistered'
  <2>1. UNCHANGED <<registry, pending, call, on>>
    BY <1>3 DEF Receive
  <2>2. UNCHANGED future \/ future' = [future EXCEPT ![Head(toServer[k])] = "answered"]
    BY <1>3 DEF Receive
  <2>3. \A q \in Commands : future'[q] = "pending" => future[q] = "pending"
    BY <2>2 DEF BridgeTypeOK
  <2> QED
    BY <2>1, <2>3, CallsKept DEF Registered
<1>4. ASSUME NEW q \in Commands, Send(q)
      PROVE  PendingCalls' /\ LiveCallsAreRegistered'
  <2>1. UNCHANGED <<registry, future, on>> /\ call[q] = "sending"
    BY <1>4 DEF Send, routes
  <2>2. Registered' = Registered
    BY <2>1 DEF Registered
  <2>3. CASE UNCHANGED pending /\ call' = [call EXCEPT ![q] = "waiting"]
    BY <2>1, <2>2, <2>3 DEF PendingCalls, LiveCallsAreRegistered, BridgeTypeOK
  <2>4. CASE pending' = [pending EXCEPT ![on[q]] = @ \ {q}] /\ call' = [call EXCEPT ![q] = "over"]
    <3>1. /\ \A c \in Sockets : pending'[c] = pending[c] \ {q}
          /\ call'[q] = "over" /\ \A p \in Commands : p # q => call'[p] = call[p]
      BY <2>4 DEF PendingCalls, BridgeTypeOK
    <3>2. PendingCalls'
      BY <2>1, <2>2, <3>1 DEF PendingCalls, BridgeTypeOK
    <3>3. LiveCallsAreRegistered'
      BY <2>1, <2>2, <3>1 DEF LiveCallsAreRegistered, Registered
    <3> QED
      BY <3>2, <3>3
  <2> QED
    BY <1>4, <2>3, <2>4 DEF Send
<1>5. ASSUME NEW q \in Commands, Timer(q)
      PROVE  PendingCalls' /\ LiveCallsAreRegistered'
  <2>1. UNCHANGED <<registry, pending, call, on>> /\ future' = [future EXCEPT ![q] = "cancelled"]
    BY <1>5 DEF Timer, routes
  <2>2. \A p \in Commands : future'[p] = "pending" => future[p] = "pending"
    BY <2>1 DEF BridgeTypeOK
  <2> QED
    BY <2>1, <2>2, CallsKept DEF Registered
<1>6. ASSUME NEW q \in Commands, Wake(q)
      PROVE  PendingCalls' /\ LiveCallsAreRegistered'
  <2>1. /\ UNCHANGED <<registry, future, on>>
        /\ call' = [call EXCEPT ![q] = "over"]
        /\ pending' = [pending EXCEPT ![on[q]] = @ \ {q}]
    BY <1>6 DEF Wake, routes
  <2>2. Registered' = Registered
    BY <2>1 DEF Registered
  <2>3. /\ \A c \in Sockets : pending'[c] = pending[c] \ {q}
        /\ call'[q] = "over" /\ \A p \in Commands : p # q => call'[p] = call[p]
    BY <2>1 DEF PendingCalls, BridgeTypeOK
  <2> QED
    BY <2>1, <2>2, <2>3 DEF PendingCalls, LiveCallsAreRegistered, BridgeTypeOK
<1>7. ASSUME NEW q \in Commands, NEW named \in Keys \cup {None}, Issue(q, named)
      PROVE  PendingCalls' /\ LiveCallsAreRegistered'
  <2> DEFINE k == Resolve(named)
  <2>1. k \in Registered /\ k \in Sockets
    BY <1>7, ResolveFinds DEF Issue, Registered
  <2>2. /\ call[q] = "idle" /\ UNCHANGED <<registry, future>>
        /\ call' = [call EXCEPT ![q] = "sending"]
        /\ on' = [on EXCEPT ![q] = k]
        /\ pending' = [pending EXCEPT ![k] = @ \cup {q}]
    BY <1>7 DEF Issue, routes
  <2> HIDE DEF k
  <2>3. Registered' = Registered
    BY <2>2 DEF Registered
  <2>4. /\ on'[q] = k /\ call'[q] = "sending" /\ q \in pending'[k]
        /\ \A p \in Commands : p # q => on'[p] = on[p] /\ call'[p] = call[p]
        /\ \A c \in Sockets : c # k => pending'[c] = pending[c]
        /\ pending'[k] = pending[k] \cup {q}
    BY <2>1, <2>2 DEF BridgeTypeOK
  <2>5. PendingCalls'
    BY <2>1, <2>2, <2>3, <2>4 DEF PendingCalls, BridgeTypeOK
  <2>6. LiveCallsAreRegistered'
    BY <2>1, <2>2, <2>3, <2>4 DEF LiveCallsAreRegistered, Registered
  <2> QED
    BY <2>5, <2>6
<1>8. CASE UNCHANGED <<registry, pending, call, on, future>>
  BY <1>8, CallsKept DEF Registered
<1>9. ASSUME NEW k \in Sockets, GreetNever(k) \/ Replaced(k) \/ ReplaceFails(k) \/ Break(k)
      PROVE  UNCHANGED <<registry, pending, call, on, future>>
  BY <1>9 DEF GreetNever, Replaced, ReplaceFails, Break, routes, calls
<1>10. ASSUME NEW b \in Browsers,
              \/ \E k \in Sockets : Connect(b, k)
              \/ Take(b) \/ CloseSeen(b) \/ Reconfigure(b) \/ WorkerStops(b)
              \/ \E q \in Commands : Finish(b, q)
       PROVE  UNCHANGED <<registry, pending, call, on, future>>
  BY <1>10 DEF Connect, Take, CloseSeen, Reconfigure, WorkerStops, Finish, routes, calls
<1>11. CASE UNCHANGED vars
  BY <1>8, <1>11 DEF vars, routes, calls
<1> QED
  BY <1>1, <1>2, <1>3, <1>4, <1>5, <1>6, <1>7, <1>8, <1>9, <1>10, <1>11 DEF Next, ServerStep

-----------------------------------------------------------------------------
(* What the extensions execute *)

\* A socket keeps its owner, so what was routed to a browser stays routed to it.
LEMMA RoutesStay ==
  ASSUME Inv, [Next]_vars
  PROVE  /\ \A k \in Sockets : owner[k] # None => owner'[k] = owner[k]
         /\ \A q \in Commands : call[q] # "idle" =>
              call'[q] # "idle" /\ asked'[q] = asked[q] /\ on'[q] = on[q]
<1> USE DEF Inv
<1>1. \A k \in Sockets : owner[k] # None => owner'[k] = owner[k]
  <2>1. ASSUME NEW b \in Browsers, NEW c \in Sockets, Connect(b, c)
        PROVE  \A k \in Sockets : owner[k] # None => owner'[k] = owner[k]
    BY <2>1 DEF Connect, Opened, BridgeTypeOK
  <2>2. CASE UNCHANGED owner
    BY <2>2
  <2> QED
    BY <2>1, <2>2 DEF Next, ServerStep, Greet, GreetNever, Replaced, ReplaceFails, Receive, Depart, Send, Timer, Wake,
                      Issue, Take, CloseSeen, Reconfigure, WorkerStops, Finish, Break, vars, wires
<1>2. ASSUME NEW q \in Commands, call[q] # "idle"
      PROVE  call'[q] # "idle" /\ asked'[q] = asked[q] /\ on'[q] = on[q]
  <2>1. ASSUME NEW p \in Commands, NEW named \in Keys \cup {None}, Issue(p, named)
        PROVE  call'[q] # "idle" /\ asked'[q] = asked[q] /\ on'[q] = on[q]
    BY <1>2, <2>1 DEF Issue, BridgeTypeOK
  <2>2. ASSUME NEW p \in Commands, Send(p) \/ Wake(p)
        PROVE  call'[q] # "idle" /\ asked'[q] = asked[q] /\ on'[q] = on[q]
    <3>1. call' = [call EXCEPT ![p] = "waiting"] \/ call' = [call EXCEPT ![p] = "over"]
      BY <2>2 DEF Send, Wake
    <3> QED
      BY <1>2, <2>2, <3>1 DEF Send, Wake, BridgeTypeOK
  <2>3. CASE UNCHANGED <<call, asked, on>>
    BY <1>2, <2>3
  <2> QED
    BY <2>1, <2>2, <2>3 DEF Next, ServerStep, Greet, GreetNever, Replaced, ReplaceFails, Receive, Depart, Timer, Connect,
                            Take, CloseSeen, Reconfigure, WorkerStops, Finish, Break, vars, calls
<1> QED
  BY <1>1, <1>2

LEMMA PlacedNext ==
  ASSUME Inv, [Next]_vars
  PROVE  Placed'
<1> USE DEF Inv
<1>1. SUFFICES ASSUME NEW q \in Commands, call'[q] # "idle"
               PROVE  on'[q] \in Sockets /\ owner'[on'[q]] # None /\ Routed(owner[on[q]], q)'
  BY DEF Placed
<1>2. CASE call[q] # "idle"
  <2>1. on'[q] = on[q] /\ asked'[q] = asked[q]
    BY <1>2, RoutesStay
  <2>2. on[q] \in Sockets /\ owner[on[q]] # None /\ Routed(owner[on[q]], q)
    BY <1>2 DEF Placed
  <2>3. owner'[on[q]] = owner[on[q]]
    BY <2>2, RoutesStay
  <2>4. asked[q] \in Sockets /\ owner[asked[q]] # None => owner'[asked[q]] = owner[asked[q]]
    BY RoutesStay
  <2> QED
    BY <2>1, <2>2, <2>3, <2>4 DEF Routed
<1>3. CASE call[q] = "idle"
  <2>1. PICK named \in Keys \cup {None} : Issue(q, named)
    <3>1. ASSUME NEW p \in Commands, NEW named \in Keys \cup {None}, Issue(p, named)
          PROVE  p = q
      BY <1>1, <1>3, <3>1 DEF Issue, BridgeTypeOK
    <3>2. ASSUME NEW p \in Commands, Send(p) \/ Wake(p)
          PROVE  FALSE
      <4>1. call[p] # "idle" /\ \A r \in Commands : r # p => call'[r] = call[r]
        BY <3>2 DEF Send, Wake, BridgeTypeOK
      <4> QED
        BY <1>1, <1>3, <4>1
    <3>3. call' # call
      BY <1>1, <1>3
    <3> QED
      BY <3>1, <3>2, <3>3 DEF Next, ServerStep, Greet, GreetNever, Replaced, ReplaceFails, Receive, Depart, Timer, Connect,
                              Take, CloseSeen, Reconfigure, WorkerStops, Finish, Break, vars, calls
  <2> DEFINE k == Resolve(named)
  <2>2. k \in Registered
    BY <2>1, ResolveFinds DEF Issue
  <2>3. named # None => k = registry[named]
    BY DEF Resolve
  <2>4. on'[q] = k /\ asked'[q] = named /\ owner' = owner
    BY <2>1 DEF Issue, BridgeTypeOK, wires
  <2> HIDE DEF k
  <2>5. PICK key \in Keys : registry[key] = k
    BY <2>2 DEF Registered
  <2>6. k \in Sockets /\ Key(k) = key /\ owner[k] # None
    BY <2>2, <2>5, NoneFresh DEF Registered, Registration, Opened, Serving
  <2>7. named # None => Key(k) = named
    BY <2>3, <2>6, NoneFresh DEF Registration
  <2>8. named \in {None, owner[k]} \/ named = k
    BY <2>7 DEF Key
  <2> QED
    BY <2>4, <2>6, <2>8 DEF Routed
<1> QED
  BY <1>2, <1>3

\* What a socket carries after a step it carried before, or it was just sent on it.
LEMMA CarriedNext ==
  ASSUME Inv, [Next]_vars
  PROVE  Carried'
<1> USE DEF Inv
<1> DEFINE Fine(s, k) == \A i \in 1 .. Len(s) : call'[s[i]] # "idle" /\ on'[s[i]] = k
<1>1. ASSUME NEW k \in Sockets
      PROVE  Fine(toExtension[k], k)
  <2>1. \A i \in 1 .. Len(toExtension[k]) : toExtension[k][i] \in Commands
    BY DEF BridgeTypeOK
  <2> QED
    BY <2>1, RoutesStay DEF Carried
<1>2. SUFFICES ASSUME NEW k \in Sockets
               PROVE  Fine(toExtension'[k], k)
  BY DEF Carried
<1>3. CASE toExtension'[k] = toExtension[k]
  BY <1>1, <1>3
<1>4. CASE toExtension'[k] = <<>>
  BY <1>4
<1>5. ASSUME NEW q \in Commands, Send(q)
      PROVE  Fine(toExtension'[k], k)
  <2>1. CASE UNCHANGED toExtension
    BY <1>1, <2>1
  <2>2. CASE /\ toExtension' = [toExtension EXCEPT ![on[q]] = Append(@, q)]
             /\ call' = [call EXCEPT ![q] = "waiting"]
    <3>1. call'[q] # "idle" /\ on'[q] = on[q]
      BY <1>5, <2>2 DEF Send, BridgeTypeOK
    <3>2. CASE k # on[q]
      BY <1>1, <2>2, <3>2 DEF BridgeTypeOK
    <3>3. CASE k = on[q]
      <4>1. toExtension'[k] = Append(toExtension[k], q) /\ toExtension[k] \in Seq(Commands)
        BY <2>2, <3>3 DEF BridgeTypeOK
      <4>2. ASSUME NEW i \in 1 .. Len(toExtension'[k])
            PROVE  \/ i \in 1 .. Len(toExtension[k]) /\ toExtension'[k][i] = toExtension[k][i]
                   \/ toExtension'[k][i] = q
        BY <4>1
      <4> QED
        BY <1>1, <3>1, <3>3, <4>2
    <3> QED
      BY <3>2, <3>3
  <2> QED
    BY <1>5, <2>1, <2>2 DEF Send
<1>6. ASSUME NEW b \in Browsers, Take(b)
      PROVE  Fine(toExtension'[k], k)
  <2>1. toExtension' = [toExtension EXCEPT ![current[b]] = Tail(@)] /\ toExtension[current[b]] # <<>>
    BY <1>6 DEF Take
  <2>2. CASE k # current[b]
    BY <1>3, <2>1, <2>2 DEF BridgeTypeOK
  <2>3. CASE k = current[b]
    <3>1. toExtension'[k] = Tail(toExtension[k]) /\ toExtension[k] \in Seq(Commands) /\ toExtension[k] # <<>>
      BY <2>1, <2>3 DEF BridgeTypeOK
    <3>2. ASSUME NEW i \in 1 .. Len(toExtension'[k])
          PROVE  i + 1 \in 1 .. Len(toExtension[k]) /\ toExtension'[k][i] = toExtension[k][i + 1]
      BY <3>1
    <3> QED
      BY <1>1, <3>2
  <2> QED
    BY <2>2, <2>3
<1>7. ASSUME NEW c \in Sockets, Break(c)
      PROVE  Fine(toExtension'[k], k)
  <2>1. PICK n \in 0 .. Len(toExtension[c]) : toExtension' = [toExtension EXCEPT ![c] = SubSeq(@, 1, n)]
    BY <1>7 DEF Break
  <2>2. CASE k # c
    BY <1>3, <2>1, <2>2 DEF BridgeTypeOK
  <2>3. CASE k = c
    <3>1. toExtension'[k] = SubSeq(toExtension[k], 1, n) /\ toExtension[k] \in Seq(Commands)
      BY <2>1, <2>3 DEF BridgeTypeOK
    <3>2. ASSUME NEW i \in 1 .. Len(toExtension'[k])
          PROVE  i \in 1 .. Len(toExtension[k]) /\ toExtension'[k][i] = toExtension[k][i]
      BY <2>3, <3>1
    <3> QED
      BY <1>1, <3>2
  <2> QED
    BY <2>2, <2>3
<1>8. ASSUME NEW b \in Browsers, NEW c \in Sockets \cup {None}, SetSocket(b, c)
      PROVE  Fine(toExtension'[k], k)
  BY <1>3, <1>4, <1>8 DEF SetSocket
<1> HIDE DEF Fine
<1>9. ASSUME NEW b \in Browsers,
             \/ \E c \in Sockets : Connect(b, c)
             \/ CloseSeen(b) \/ Reconfigure(b) \/ WorkerStops(b)
      PROVE  Fine(toExtension'[k], k)
  BY <1>8, <1>9 DEF Connect, CloseSeen, Reconfigure, WorkerStops
<1> QED
  BY <1>3, <1>5, <1>6, <1>7, <1>9 DEF Next, ServerStep, Greet, GreetNever, Replaced, ReplaceFails, Receive, Depart, Timer,
                                      Wake, Issue, Finish, vars, wires

LEMMA ExecutedNext ==
  ASSUME Inv, [Next]_vars
  PROVE  Executed'
<1> USE DEF Inv
<1>1. SUFFICES ASSUME NEW b \in Browsers, NEW q \in running'[b]
               PROVE  call'[q] # "idle" /\ Routed(b, q)'
  BY DEF Executed
<1>2. b # None
  BY NoneFresh
<1>3. ASSUME q \in Commands, call[q] # "idle", Routed(b, q)
      PROVE  call'[q] # "idle" /\ Routed(b, q)'
  BY <1>2, <1>3, RoutesStay DEF Routed
<1>4. CASE q \in running[b]
  <2>1. q \in Commands
    BY <1>4 DEF BridgeTypeOK
  <2> QED
    BY <1>3, <1>4, <2>1 DEF Executed
<1>5. CASE q \notin running[b]
  <2>1. ASSUME NEW a \in Browsers, Take(a)
        PROVE  call'[q] # "idle" /\ Routed(b, q)'
    <3>1. /\ running' = [running EXCEPT ![a] = @ \cup {Head(toExtension[current[a]])}]
          /\ current[a] # None /\ toExtension[current[a]] # <<>>
      BY <2>1 DEF Take
    <3>2. a = b /\ q = Head(toExtension[current[b]])
      BY <1>1, <1>5, <3>1 DEF BridgeTypeOK
    <3>3. current[b] \in Sockets /\ toExtension[current[b]] \in Seq(Commands) /\ owner[current[b]] = b
      BY <3>1, <3>2 DEF BridgeTypeOK, CurrentIsOwn
    <3>4. q = toExtension[current[b]][1] /\ 1 \in 1 .. Len(toExtension[current[b]]) /\ q \in Commands
      BY <3>1, <3>2, <3>3
    <3>5. call[q] # "idle" /\ on[q] = current[b]
      BY <3>3, <3>4 DEF Carried
    <3> QED
      BY <1>3, <3>3, <3>4, <3>5 DEF Placed
  <2>2. ASSUME NEW a \in Browsers, WorkerStops(a) \/ \E p \in Commands : Finish(a, p)
        PROVE  FALSE
    <3>1. running'[b] \subseteq running[b]
      <4>1. \/ running' = [running EXCEPT ![a] = {}]
            \/ \E p \in Commands : running' = [running EXCEPT ![a] = @ \ {p}]
        BY <2>2 DEF WorkerStops, Finish
      <4> QED
        BY <4>1 DEF BridgeTypeOK
    <3> QED
      BY <1>1, <1>5, <3>1
  <2>3. running' # running
    BY <1>1, <1>5
  <2> QED
    BY <2>1, <2>2, <2>3 DEF Next, ServerStep, Greet, GreetNever, Replaced, ReplaceFails, Receive, Depart, Send, Timer, Wake, Issue,
                            Connect, CloseSeen, Reconfigure, Break, vars, extension
<1> QED
  BY <1>4, <1>5

LEMMA CurrentNext ==
  ASSUME Inv, [Next]_vars
  PROVE  CurrentIsOwn'
<1> USE DEF Inv
<1>1. SUFFICES ASSUME NEW b \in Browsers, current'[b] # None
               PROVE  owner'[current'[b]] = b
  BY DEF CurrentIsOwn
<1>2. CASE current'[b] = current[b]
  <2>1. current[b] \in Sockets /\ owner[current[b]] = b /\ b # None
    BY <1>1, <1>2, NoneFresh DEF BridgeTypeOK, CurrentIsOwn
  <2> QED
    BY <1>2, <2>1, RoutesStay
<1>3. CASE current'[b] # current[b]
  <2>1. ASSUME NEW a \in Browsers, NEW k \in Sockets, Connect(a, k)
        PROVE  owner'[current'[b]] = b
    BY <1>1, <1>3, <2>1 DEF Connect, SetSocket, BridgeTypeOK
  <2>2. ASSUME NEW a \in Browsers, CloseSeen(a) \/ Reconfigure(a) \/ WorkerStops(a)
        PROVE  FALSE
    BY <1>1, <1>3, <2>2 DEF CloseSeen, Reconfigure, WorkerStops, SetSocket, BridgeTypeOK
  <2>3. current' # current
    BY <1>3
  <2> QED
    BY <2>1, <2>2, <2>3 DEF Next, ServerStep, Greet, GreetNever, Replaced, ReplaceFails, Receive, Depart, Send, Timer, Wake, Issue,
                            Take, Finish, Break, vars, extension
<1> QED
  BY <1>2, <1>3

LEMMA InvInit == Init => Inv
<1> SUFFICES ASSUME Init
             PROVE  Inv
  OBVIOUS
<1>1. BridgeTypeOK
  BY TypeInit
<1>2. Opened /\ Registration /\ LegacyEntry
  BY DEF Init, Opened, Registration, LegacyEntry, Keys
<1>3. PendingCalls /\ LiveCallsAreRegistered /\ Placed
  BY DEF Init, PendingCalls, LiveCallsAreRegistered, Placed
<1>4. Carried /\ Executed /\ CurrentIsOwn
  BY DEF Init, Carried, Executed, CurrentIsOwn
<1> QED
  BY <1>1, <1>2, <1>3, <1>4 DEF Inv

LEMMA InvNext == Inv /\ [Next]_vars => Inv'
<1> SUFFICES ASSUME Inv, [Next]_vars
             PROVE  Inv'
  OBVIOUS
<1>1. BridgeTypeOK'
  BY TypeNext DEF Inv
<1> QED
  BY <1>1, RegistryNext, CallsNext, PlacedNext, CarriedNext, ExecutedNext, CurrentNext DEF Inv

-----------------------------------------------------------------------------
(* The theorems *)

\* The invariant always holds.
THEOREM BridgeInvariant == Spec => []Inv
<1> QED
  BY InvInit, InvNext, PTL DEF Spec

\* The bridge's state is well typed.
THEOREM BridgeTypeCorrect == Spec => []BridgeTypeOK
<1>1. Inv => BridgeTypeOK
  BY DEF Inv
<1> QED
  BY <1>1, BridgeInvariant, PTL

\* A call that nobody has completed is on a connection that will complete it.
THEOREM NoCallLeftBehind == Spec => []LiveCallsAreRegistered
<1>1. Inv => LiveCallsAreRegistered
  BY DEF Inv
<1> QED
  BY <1>1, BridgeInvariant, PTL

\* An extension executes what was asked of it, or of no browser in particular.
THEOREM CallsAreRouted == Spec => []RoutedExactly
<1>1. Inv => RoutedExactly
  BY DEF Inv, RoutedExactly, Executed, Routed
<1> QED
  BY <1>1, BridgeInvariant, PTL

\* Connections leave the registry for good: a detached one is not registered, and
\* one that is not registered has no calls.
THEOREM ConnectionsLeaveForGood == Spec => []LeavesForGood
<1>1. Inv => LeavesForGood
  <2> SUFFICES ASSUME Inv, NEW k \in Sockets
               PROVE  /\ k \in Registered => endpoint[k] \notin {"none", "greeting", "gone"}
                      /\ k \notin Registered => pending[k] = {}
    BY DEF LeavesForGood
  <2>1. k \in Registered => endpoint[k] \notin {"none", "greeting", "gone"}
    BY NoneFresh DEF Inv, Registered, Registration, Serving
  <2>2. k \notin Registered => pending[k] = {}
    BY DEF Inv, PendingCalls, BridgeTypeOK
  <2> QED
    BY <2>1, <2>2
<1> QED
  BY <1>1, BridgeInvariant, PTL

LEMMA DeregisterStep ==
  ASSUME Inv, [Next]_vars, NEW key \in Keys, registry[key] # None, registry'[key] # registry[key]
  PROVE  \/ endpoint'[registry[key]] = "gone"
         \/ key \in Browsers /\ registry'[key] # None /\ owner[registry'[key]] = key
         \/ key \in Sockets /\ legacy' \notin {None, registry[key]}
<1> USE DEF Inv
<1>1. ASSUME NEW k \in Sockets, Greet(k)
      PROVE  \/ key \in Browsers /\ registry'[key] # None /\ owner[registry'[key]] = key
             \/ key \in Sockets /\ legacy' \notin {None, registry[key]}
  <2>1. /\ owner[k] \in Browsers
        /\ k \notin Registered
        /\ registry'[key] = IF key = Key(k) THEN k
                            ELSE IF key = ReplacedKey(k) THEN None ELSE registry[key]
    BY <1>1, GreetReplaces
  <2>2. legacy' = (IF owner[k] \in Legacy THEN k ELSE legacy) /\ k # None
    BY <1>1, GreetDoes, NoneFresh
  <2>3. CASE owner[k] \in Legacy
    <3>1. key \in {k, legacy}
      BY <2>1, <2>3 DEF Key, ReplacedKey
    <3>2. registry[key] # k
      BY <2>1 DEF Registered
    <3>3. key \in Sockets
      BY <3>1, NoneFresh DEF BridgeTypeOK, Keys
    <3> QED
      BY <2>2, <2>3, <3>2, <3>3
  <2>4. CASE owner[k] \notin Legacy
    <3>1. key = owner[k] /\ registry'[key] = k
      BY <2>1, <2>4 DEF Key, ReplacedKey
    <3> QED
      BY <2>1, <2>2, <3>1
  <2> QED
    BY <2>3, <2>4
<1>2. ASSUME NEW k \in Sockets, Depart(k)
      PROVE  endpoint'[registry[key]] = "gone"
  <2>1. endpoint'[k] = "gone" /\ \/ UNCHANGED registry
                                 \/ registry[Key(k)] = k /\ registry' = [registry EXCEPT ![Key(k)] = None]
    BY <1>2 DEF Depart, BridgeTypeOK
  <2>2. registry[key] = k
    BY <2>1 DEF BridgeTypeOK
  <2> QED
    BY <2>1, <2>2
<1>3. registry' # registry
  OBVIOUS
<1> QED
  BY <1>1, <1>2, <1>3 DEF Next, ServerStep, GreetNever, Replaced, ReplaceFails, Receive, Send, Timer, Wake, Issue,
                          Connect, Take, CloseSeen, Reconfigure, WorkerStops, Finish, Break, vars, routes

LEMMA CallFailsStep ==
  ASSUME Inv, [Next]_vars, NEW q \in Commands, future[q] = "pending", future'[q] = "failed"
  PROVE  on[q] \in Registered /\ on[q] \notin Registered'
<1> USE DEF Inv
<1>1. ASSUME NEW k \in Sockets, Disconnect(k), k \in Registered, k \notin Registered'
      PROVE  on[q] \in Registered /\ on[q] \notin Registered'
  <2>1. q \in pending[k]
    BY <1>1 DEF Disconnect
  <2> QED
    BY <1>1, <2>1 DEF PendingCalls
<1>2. ASSUME NEW k \in Sockets, Greet(k)
      PROVE  on[q] \in Registered /\ on[q] \notin Registered'
  <2>1. Previous(k) # None /\ Disconnect(Previous(k))
    BY <1>2, GreetDoes
  <2> QED
    BY <1>1, <1>2, <2>1, GreetReplaces, GreetRegisters
<1>3. ASSUME NEW k \in Sockets, Depart(k)
      PROVE  on[q] \in Registered /\ on[q] \notin Registered'
  BY <1>1, <1>3, DepartRegisters
<1>4. ASSUME NEW k \in Sockets, Receive(k)
      PROVE  FALSE
  BY <1>4 DEF Receive, BridgeTypeOK
<1>5. ASSUME NEW p \in Commands, Timer(p)
      PROVE  FALSE
  BY <1>5 DEF Timer, BridgeTypeOK
<1>6. future' # future
  OBVIOUS
<1> QED
  BY <1>2, <1>3, <1>4, <1>5, <1>6 DEF Next, ServerStep, GreetNever, Replaced, ReplaceFails, Send, Wake, Issue,
         Connect, Take, CloseSeen, Reconfigure, WorkerStops, Finish, Break, vars, calls

\* A connection leaves the registry only when its endpoint is over, or for another
\* one of the same identity.
THEOREM OwnersDeregister == Spec => OnlyOwnersDeregister
<1>1. Inv /\ [Next]_vars =>
        \A key \in Keys :
          LET k == registry[key]
          IN k # None /\ registry'[key] # k =>
               \/ endpoint'[k] = "gone"
               \/ key \in Browsers /\ registry'[key] # None /\ owner[registry'[key]] = key
               \/ key \in Sockets /\ legacy' \notin {None, k}
  BY DeregisterStep
<1> QED
  BY <1>1, BridgeInvariant, PTL DEF Spec, OnlyOwnersDeregister

\* A call fails only in the step that takes its own connection out of the registry.
THEOREM CallsFailAlone == Spec => CallsFailWithTheirConnection
<1>1. Inv /\ [Next]_vars =>
        \A q \in Commands :
          future[q] = "pending" /\ future'[q] = "failed" =>
            /\ on[q] \in Registered
            /\ on[q] \notin Registered'
  BY CallFailsStep
<1> QED
  BY <1>1, BridgeInvariant, PTL DEF Spec, CallsFailWithTheirConnection

=============================================================================
