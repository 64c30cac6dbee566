---------------------------- MODULE Coordinator ----------------------------
(***************************************************************************)
(* The operation coordinator of the chrome-bridge server: one FIFO lease   *)
(* for every browser operation, held either by a single call or by a Direct *)
(* API session that keeps it over several calls                             *)
(* (packages/mcp/src/chrome_bridge_mcp/coordination.py).                    *)
(*                                                                          *)
(* No section under the coordinator's guard suspends, so each is one atomic *)
(* step; a task is suspended only on its waiter future, on the session's    *)
(* call lock, inside the yielded body and in the reaper's sleep.  Between   *)
(* a future being completed and its task running again any other step may   *)
(* come: that window is the phases "granted", "revoked" and "cancelled".    *)
(*                                                                          *)
(* Time is kept as ages, so that no clock has to be bounded: now >=         *)
(* last_heartbeat + idle_ttl_seconds is idle >= IdleTtl, and an age stops   *)
(* growing once it has reached its limit, where it can no longer matter.    *)
(***************************************************************************)
EXTENDS Integers, Sequences, SequencesExt

CONSTANTS
  Singles,      \* tasks that make single calls, again and again
  Sessions,     \* acquire requests; each names the one lease it may be granted
  Calls,        \* tasks that make calls under a session
  NoLease,      \* _active_session is None
  IdleTtl,      \* idle_ttl_seconds, in ticks
  MaxLifetime   \* max_lifetime_seconds, in ticks

ASSUME RequestsDisjoint == Singles \cap Sessions = {}
ASSUME NoLeaseFresh == NoLease \notin Singles \cup Sessions
ASSUME DurationsValid ==
  /\ IdleTtl \in Nat \ {0}
  /\ MaxLifetime \in Nat \ {0}
  /\ IdleTtl <= MaxLifetime

VARIABLES
  waiters,        \* _waiters: the deque of requests, oldest first
  phase,          \* where the task of each request stands
  activeSession,  \* _active_session
  singleActive,   \* _single_active: a flag without an owner
  lease,          \* the SessionLease of each session
  server,         \* "open", "closing" (reaper being awaited) or "closed"
  stage,          \* where each session call stands
  target,         \* the session a call was made under
  callLock        \* lease.call_lock: its owner first, then the tasks queued on it

grantVars == <<waiters, phase, activeSession, singleActive, lease>>
callVars == <<stage, target, callLock>>
vars == <<grantVars, server, callVars>>

Requests == Singles \cup Sessions

Phases == {"idle", "waiting", "granted", "cancelled", "revoked", "failed",
           "running", "holding", "over"}

Lease == [age : 0 .. MaxLifetime, idle : 0 .. IdleTtl,
          inFlight : Nat, releasePending : BOOLEAN]

NewLease == [age |-> 0, idle |-> 0, inFlight |-> 0, releasePending |-> FALSE]

Init ==
  /\ waiters = <<>>
  /\ phase = [r \in Requests |-> "idle"]
  /\ activeSession = NoLease
  /\ singleActive = FALSE
  /\ lease = [s \in Sessions |-> NewLease]
  /\ server = "open"
  /\ stage = [c \in Calls |-> "idle"]
  /\ target = [c \in Calls |-> NoLease]
  /\ callLock = [s \in Sessions |-> <<>>]

-----------------------------------------------------------------------------
(* Helpers of the guarded sections.  A definition marked "Slip" is no part of  *)
(* the specification: it is a plausible mistake in the definition after it,    *)
(* kept to show that the properties would notice.                              *)

Busy == activeSession # NoLease \/ singleActive

\* The phase of a request whose task has raised or returned: a single caller
\* may call again, a session id is never used twice.
Ended(r) == IF r \in Singles THEN "idle" ELSE "over"

Overdue(l) == l.idle >= IdleTtl \/ l.age >= MaxLifetime

\* Slip: the early return on a busy browser is missing.
GrantNextUnchecked(q, ph, ls, act, single) ==
  LET pending == {i \in DOMAIN q : ph[q[i]] = "waiting"}
  IN IF pending = {}
     THEN /\ waiters' = q /\ phase' = ph /\ lease' = ls
          /\ activeSession' = act /\ singleActive' = single
     ELSE \E i \in pending :
            /\ \A j \in pending : i <= j
            /\ waiters' = SubSeq(q, i + 1, Len(q))
            /\ phase' = [ph EXCEPT ![q[i]] = "granted"]
            /\ lease' = ls
            /\ singleActive' = (single \/ q[i] \in Singles)
            /\ activeSession' = IF q[i] \in Singles THEN act ELSE q[i]

\* Slip: the head of the deque is granted even if its future is already done.
GrantNextHead(q, ph, ls, act, single) ==
  IF act # NoLease \/ single \/ q = <<>>
  THEN /\ waiters' = q /\ phase' = ph /\ lease' = ls
       /\ activeSession' = act /\ singleActive' = single
  ELSE /\ waiters' = Tail(q)
       /\ phase' = [ph EXCEPT ![Head(q)] = IF @ = "waiting" THEN "granted" ELSE "revoked"]
       /\ lease' = ls
       /\ singleActive' = (Head(q) \in Singles)
       /\ activeSession' = IF Head(q) \in Singles THEN NoLease ELSE Head(q)

\* Slip: the deque is popped at its newer end.
GrantNextNewest(q, ph, ls, act, single) ==
  LET pending == {i \in DOMAIN q : ph[q[i]] = "waiting"}
      stay(rest) == /\ waiters' = rest /\ phase' = ph /\ lease' = ls
                    /\ activeSession' = act /\ singleActive' = single
  IN IF act # NoLease \/ single THEN stay(q)
     ELSE IF pending = {} THEN stay(<<>>)
     ELSE \E i \in pending :
            /\ \A j \in pending : j <= i
            /\ waiters' = SubSeq(q, 1, i - 1)
            /\ phase' = [ph EXCEPT ![q[i]] = "granted"]
            /\ lease' = ls
            /\ singleActive' = (q[i] \in Singles)
            /\ activeSession' = IF q[i] \in Singles THEN NoLease ELSE q[i]

\* _grant_next_locked, after the caller has left the queue q, the phases ph,
\* the leases ls and the holders act and single: futures that are done are
\* popped and skipped, the first pending one is granted.
GrantNext(q, ph, ls, act, single) ==
  LET pending == {i \in DOMAIN q : ph[q[i]] = "waiting"}
      stay(rest) == /\ waiters' = rest
                    /\ phase' = ph
                    /\ lease' = ls
                    /\ activeSession' = act
                    /\ singleActive' = single
  IN IF act # NoLease \/ single THEN stay(q)
     ELSE IF pending = {} THEN stay(<<>>)
     ELSE \E i \in pending :
            /\ \A j \in pending : i <= j
            /\ waiters' = SubSeq(q, i + 1, Len(q))
            /\ phase' = [ph EXCEPT ![q[i]] = "granted"]
            /\ IF q[i] \in Singles
               THEN /\ singleActive' = TRUE
                    /\ activeSession' = NoLease
                    /\ lease' = ls
               ELSE /\ singleActive' = FALSE
                    /\ activeSession' = q[i]
                    /\ lease' = [ls EXCEPT ![q[i]] = NewLease]

\* Slip: a lease is dropped under the call that is in flight.
ExpireNow(s, ph, ls) ==
  IF activeSession # s
  THEN /\ phase' = ph
       /\ lease' = ls
       /\ UNCHANGED <<waiters, activeSession, singleActive>>
  ELSE GrantNext(waiters, ph, ls, NoLease, singleActive)

\* _expire_session_locked: nothing if the lease is no longer the active one; a
\* lease with a call in flight only loses its future, it ends when that call does.
Expire(s, ph, ls) ==
  IF activeSession # s
  THEN /\ phase' = ph
       /\ lease' = ls
       /\ UNCHANGED <<waiters, activeSession, singleActive>>
  ELSE IF ls[s].inFlight > 0
  THEN /\ phase' = ph
       /\ lease' = [ls EXCEPT ![s].releasePending = TRUE]
       /\ UNCHANGED <<waiters, activeSession, singleActive>>
  ELSE GrantNext(waiters, ph, ls, NoLease, singleActive)

-----------------------------------------------------------------------------
(* Requests: acquire_session and single_call *)

\* _enqueue
Enqueue(r) ==
  /\ phase[r] = "idle"
  /\ server = "open"
  /\ GrantNext(Append(waiters, r), [phase EXCEPT ![r] = "waiting"], lease,
               activeSession, singleActive)
  /\ UNCHANGED <<server, callVars>>

\* The task wakes with its future's result and enters the body, or returns the
\* lease to the client.
Resume(r) ==
  /\ phase[r] = "granted"
  /\ phase' = [phase EXCEPT ![r] = IF r \in Singles THEN "running" ELSE "holding"]
  /\ UNCHANGED <<waiters, activeSession, singleActive, lease, server, callVars>>

\* wait_for's timer fires, or the task is cancelled.  A pending future is
\* cancelled at once; one that has already been granted stays granted and the
\* task will wake with the exception instead (asyncio of Python 3.12; under
\* 3.11 such a task resumes, which Resume covers).
GiveUp(r) ==
  /\ phase[r] \in {"waiting", "granted"}
  /\ phase' = [phase EXCEPT ![r] = IF @ = "waiting" THEN "cancelled" ELSE "revoked"]
  /\ UNCHANGED <<waiters, activeSession, singleActive, lease, server, callVars>>

\* Slip: a task that leaves the wait returns nothing it was granted.
CancelWaiterKeeps(r) ==
  LET ended == [phase EXCEPT ![r] = Ended(r)]
  IN /\ phase[r] \in {"cancelled", "revoked"}
     /\ GrantNext(SelectSeq(waiters, LAMBDA q : q # r), ended, lease,
                  activeSession, singleActive)
     /\ UNCHANGED <<server, callVars>>

\* _cancel_waiter: leave the queue; if already out of it, give back whatever
\* was granted; then _grant_next_locked.
CancelWaiter(r) ==
  LET ended == [phase EXCEPT ![r] = Ended(r)]
  IN /\ phase[r] \in {"cancelled", "revoked"}
     /\ \/ \E i \in DOMAIN waiters :
             /\ waiters[i] = r
             /\ GrantNext(RemoveAt(waiters, i), ended, lease,
                          activeSession, singleActive)
        \/ /\ \A i \in DOMAIN waiters : waiters[i] # r
           /\ IF phase[r] = "revoked" /\ r \in Singles /\ singleActive
              THEN GrantNext(waiters, ended, lease, activeSession, FALSE)
              ELSE IF phase[r] = "revoked" /\ activeSession = r
              THEN Expire(r, ended, lease)
              ELSE GrantNext(waiters, ended, lease, activeSession, singleActive)
     /\ UNCHANGED <<server, callVars>>

\* The task wakes with the exception close() put into its future.
Fail(r) ==
  /\ phase[r] = "failed"
  /\ phase' = [phase EXCEPT ![r] = Ended(r)]
  /\ UNCHANGED <<waiters, activeSession, singleActive, lease, server, callVars>>

\* The body of a single call returns, raises or is cancelled.
FinishSingle(r) ==
  /\ phase[r] = "running"
  /\ GrantNext(waiters, [phase EXCEPT ![r] = Ended(r)], lease, activeSession, FALSE)
  /\ UNCHANGED <<server, callVars>>

-----------------------------------------------------------------------------
(* Sessions: heartbeat, release_session and session_call.  A client knows the *)
(* id and token of a session once acquire_session has returned, and may go on *)
(* using them after the lease has ended.  A call with an unknown id or a      *)
(* wrong token raises and changes nothing: it is a stuttering step.           *)

\* Slip: a heartbeat renews the whole lease.
HeartbeatRenews(s) ==
  /\ phase[s] = "holding"
  /\ activeSession = s
  /\ lease' = [lease EXCEPT ![s].idle = 0, ![s].age = 0]
  /\ UNCHANGED <<waiters, phase, activeSession, singleActive, server, callVars>>

Heartbeat(s) ==
  /\ phase[s] = "holding"
  /\ activeSession = s
  /\ IF lease[s].age >= MaxLifetime
     THEN Expire(s, phase, lease)
     ELSE /\ lease' = [lease EXCEPT ![s].idle = 0]
          /\ UNCHANGED <<waiters, phase, activeSession, singleActive>>
  /\ UNCHANGED <<server, callVars>>

\* Slip: a release frees the browser and serves nobody.
ReleaseOnly(s) ==
  /\ phase[s] = "holding"
  /\ activeSession = s
  /\ IF lease[s].inFlight > 0
     THEN /\ lease' = [lease EXCEPT ![s].releasePending = TRUE]
          /\ UNCHANGED activeSession
     ELSE /\ activeSession' = NoLease
          /\ UNCHANGED lease
  /\ UNCHANGED <<waiters, phase, singleActive, server, callVars>>

Release(s) ==
  /\ phase[s] = "holding"
  /\ activeSession = s
  /\ Expire(s, phase, lease)
  /\ UNCHANGED <<server, callVars>>

\* Slip: a call that is refused keeps the call lock.
EnterOrRejectLocked(c, s, locked) ==
  IF activeSession = s /\ ~Overdue(lease[s])
  THEN /\ lease' = [lease EXCEPT ![s].inFlight = @ + 1]
       /\ stage' = [stage EXCEPT ![c] = "body"]
       /\ target' = [target EXCEPT ![c] = s]
       /\ callLock' = [callLock EXCEPT ![s] = locked]
       /\ UNCHANGED <<waiters, phase, activeSession, singleActive>>
  ELSE /\ Expire(s, phase, lease)
       /\ stage' = [stage EXCEPT ![c] = "idle"]
       /\ target' = [target EXCEPT ![c] = NoLease]
       /\ callLock' = [callLock EXCEPT ![s] = locked]

\* A call that owns the call lock requires the session again and checks its
\* deadlines: it enters the body, or it raises and frees the lock.
EnterOrReject(c, s, locked) ==
  IF activeSession = s /\ ~Overdue(lease[s])
  THEN /\ lease' = [lease EXCEPT ![s].inFlight = @ + 1]
       /\ stage' = [stage EXCEPT ![c] = "body"]
       /\ target' = [target EXCEPT ![c] = s]
       /\ callLock' = [callLock EXCEPT ![s] = locked]
       /\ UNCHANGED <<waiters, phase, activeSession, singleActive>>
  ELSE /\ Expire(s, phase, lease)
       /\ stage' = [stage EXCEPT ![c] = "idle"]
       /\ target' = [target EXCEPT ![c] = NoLease]
       /\ callLock' = [callLock EXCEPT ![s] = Tail(locked)]

\* session_call up to its first suspension: the session is required, then the
\* call either takes a free call lock and goes on, or queues on it.
CallStart(c, s) ==
  /\ stage[c] = "idle"
  /\ phase[s] = "holding"
  /\ activeSession = s
  /\ IF callLock[s] = <<>>
     THEN EnterOrReject(c, s, <<c>>)
     ELSE /\ stage' = [stage EXCEPT ![c] = "queued"]
          /\ target' = [target EXCEPT ![c] = s]
          /\ callLock' = [callLock EXCEPT ![s] = Append(@, c)]
          /\ UNCHANGED grantVars
  /\ UNCHANGED server

\* The call wakes as the owner of the call lock.
CallTurn(c) ==
  /\ stage[c] = "queued"
  /\ Head(callLock[target[c]]) = c
  /\ EnterOrReject(c, target[c], callLock[target[c]])
  /\ UNCHANGED server

\* Slip: the end of a call forgets that its session was released.
CallFinishUnreleased(c) ==
  LET s == target[c]
      landed == [lease EXCEPT ![s].inFlight = @ - 1]
  IN /\ stage[c] = "body"
     /\ IF Overdue(lease[s])
        THEN Expire(s, phase, landed)
        ELSE /\ lease' = landed
             /\ UNCHANGED <<waiters, phase, activeSession, singleActive>>
     /\ stage' = [stage EXCEPT ![c] = "idle"]
     /\ target' = [target EXCEPT ![c] = NoLease]
     /\ callLock' = [callLock EXCEPT ![s] = Tail(@)]
     /\ UNCHANGED server

\* The body of a session call ends: the lease ends with it if it was released
\* or its deadline passed meanwhile, and only then is the call lock freed.
CallFinish(c) ==
  LET s == target[c]
      landed == [lease EXCEPT ![s].inFlight = @ - 1]
  IN /\ stage[c] = "body"
     /\ IF lease[s].releasePending \/ Overdue(lease[s])
        THEN Expire(s, phase, landed)
        ELSE /\ lease' = landed
             /\ UNCHANGED <<waiters, phase, activeSession, singleActive>>
     /\ stage' = [stage EXCEPT ![c] = "idle"]
     /\ target' = [target EXCEPT ![c] = NoLease]
     /\ callLock' = [callLock EXCEPT ![s] = Tail(@)]
     /\ UNCHANGED server

-----------------------------------------------------------------------------
(* The reaper, time, and close *)

\* One round of _reap_loop that finds an overdue lease.
Reap ==
  /\ server = "open"
  /\ activeSession # NoLease
  /\ Overdue(lease[activeSession])
  /\ Expire(activeSession, phase, lease)
  /\ UNCHANGED <<server, callVars>>

\* Time still matters to the active lease.
Ageing ==
  /\ activeSession # NoLease
  /\ \/ lease[activeSession].age < MaxLifetime
     \/ lease[activeSession].idle < IdleTtl

Older(age, limit) == IF age < limit THEN age + 1 ELSE age

Tick ==
  /\ Ageing
  /\ lease' = [lease EXCEPT ![activeSession].age = Older(@, MaxLifetime),
                           ![activeSession].idle = Older(@, IdleTtl)]
  /\ UNCHANGED <<waiters, phase, activeSession, singleActive, server, callVars>>

\* close() up to the await of the cancelled reaper.
BeginClose ==
  /\ server = "open"
  /\ server' = "closing"
  /\ UNCHANGED <<grantVars, callVars>>

\* The rest of close(): pending waiters fail and the queue is dropped.  An
\* active session is left as it is.
EndClose ==
  /\ server = "closing"
  /\ server' = "closed"
  /\ phase' = [r \in Requests |->
                 IF phase[r] = "waiting" /\ \E i \in DOMAIN waiters : waiters[i] = r
                 THEN "failed" ELSE phase[r]]
  /\ waiters' = <<>>
  /\ UNCHANGED <<activeSession, singleActive, lease, callVars>>

\* What clients and timers do, and what the server does of itself.
ClientStep ==
  \/ \E r \in Requests : Enqueue(r) \/ GiveUp(r)
  \/ \E s \in Sessions : Heartbeat(s) \/ Release(s)
  \/ \E c \in Calls, s \in Sessions : CallStart(c, s)

ServerStep ==
  \/ \E r \in Requests : Resume(r) \/ CancelWaiter(r) \/ Fail(r)
  \/ \E r \in Singles : FinishSingle(r)
  \/ \E c \in Calls : CallTurn(c) \/ CallFinish(c)
  \/ Reap

Next == ClientStep \/ ServerStep \/ Tick \/ BeginClose \/ EndClose

Spec == Init /\ [][Next]_vars

\* What the event loop and the browser owe: a task that can run does, a browser
\* operation ends (the controller bounds each command), time passes and the
\* reaper keeps waking.  Nothing is owed by clients: no heartbeat, no release,
\* no timeout of a waiting request is assumed.
Fairness ==
  /\ \A r \in Requests : WF_vars(Resume(r)) /\ WF_vars(CancelWaiter(r)) /\ WF_vars(Fail(r))
  /\ \A r \in Singles : WF_vars(FinishSingle(r))
  /\ \A c \in Calls : WF_vars(CallTurn(c)) /\ WF_vars(CallFinish(c))
  /\ WF_vars(Reap) /\ WF_vars(Tick) /\ WF_vars(EndClose)

FairSpec == Spec /\ Fairness

-----------------------------------------------------------------------------
(* Properties *)

TypeOK ==
  /\ waiters \in Seq(Requests)
  /\ phase \in [Requests -> Phases]
  /\ activeSession \in Sessions \cup {NoLease}
  /\ singleActive \in BOOLEAN
  /\ lease \in [Sessions -> Lease]
  /\ server \in {"open", "closing", "closed"}
  /\ stage \in [Calls -> {"idle", "queued", "body"}]
  /\ target \in [Calls -> Sessions \cup {NoLease}]
  /\ callLock \in [Sessions -> Seq(Calls)]

Running(r) == phase[r] = "running"
InBody(c) == stage[c] = "body"

\* At any moment at most one browser operation is being executed, whether it
\* came as a single call or under a session: what the coordinator is for.
OneOperation ==
  /\ \A q, r \in Singles : Running(q) /\ Running(r) => q = r
  /\ \A c, d \in Calls : InBody(c) /\ InBody(d) => c = d
  /\ \A r \in Singles, c \in Calls : ~(Running(r) /\ InBody(c))

\* A single call that has been granted and has not ended yet.
Granted(r) == phase[r] \in {"granted", "revoked", "running"}

\* The browser is never left granted to nobody: _single_active, a flag that
\* names no owner, is set exactly while one single call has its grant to give
\* back, and the active lease belongs to a request that was granted it.
GrantOwned ==
  /\ singleActive <=> \E r \in Singles : Granted(r)
  /\ \A q, r \in Singles : Granted(q) /\ Granted(r) => q = r
  /\ activeSession # NoLease =>
       /\ ~singleActive
       /\ phase[activeSession] \in {"granted", "revoked", "holding"}

\* SPEC.md: "An operation already in flight is never interrupted by lease
\* expiry".  A call in its body still has its lease, and is counted on it.
CallUnderLease ==
  \A c \in Calls : InBody(c) =>
    /\ activeSession = target[c]
    /\ lease[target[c]].inFlight = 1

\* A free browser is never withheld from a request that still waits for it.
NoIdleBrowser == ~Busy => \A r \in Requests : phase[r] # "waiting"

\* A lease that has ended (released, expired, given back) never becomes active
\* again, whatever its holder still sends.
SessionEndsForGood ==
  [][\A s \in Sessions :
       phase[s] \notin {"idle", "waiting"} /\ activeSession # s
         => activeSession' # s]_vars

\* Once a release was accepted, or the reaper has marked the lease, behind a
\* call in flight, no further call starts under it, although calls may already
\* be queued on its lock and heartbeats may still be accepted.
NoCallAfterRelease ==
  [][\A c \in Calls :
       ~InBody(c) /\ InBody(c)' => ~lease[target'[c]].releasePending]_vars

\* Every waiting request is answered, even if a session's holder falls silent
\* and no waiting request times out.
RequestsResolve == \A r \in Requests : phase[r] = "waiting" ~> phase[r] # "waiting"

\* Every lease ends while the server is up, whether its holder falls silent or
\* never stops sending heartbeats and calls.
LeasesEnd ==
  \A s \in Sessions : activeSession = s ~> activeSession # s \/ server # "open"

\* Every session call that waits for the call lock gets its turn.
CallsResolve == \A c \in Calls : stage[c] = "queued" ~> stage[c] # "queued"

=============================================================================
