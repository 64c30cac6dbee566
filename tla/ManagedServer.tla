--------------------------- MODULE ManagedServer ---------------------------
(***************************************************************************)
(* A server started with --managed: the coordinator together with the idle *)
(* monitor that decides when the shared process exits                       *)
(* (packages/mcp/src/chrome_bridge_mcp/app.py, __main__.py).                *)
(*                                                                          *)
(* last_activity is written only by the coordinator's on_activity callback, *)
(* that is when a request is granted and when a session call enters its     *)
(* body; like every time it is kept as an age.                              *)
(***************************************************************************)
EXTENDS Coordinator

CONSTANTS ShutdownAfter   \* managed_idle_timeout_seconds, in ticks

ASSUME ShutdownAfterPositive == ShutdownAfter \in Nat \ {0}

VARIABLES
  quiet,    \* time.monotonic() - last_activity
  process   \* "up", "stopping" (server.should_exit is set) or "down"

monitorVars == <<quiet, process>>
managedVars == <<vars, monitorVars>>

ManagedInit ==
  /\ Init
  /\ quiet = 0
  /\ process = "up"

InUse == Busy \/ waiters # <<>>

\* mark_activity is called in this step.
Activity ==
  \/ \E r \in Requests : phase[r] \in {"idle", "waiting"} /\ phase'[r] = "granted"
  \/ \E c \in Calls : stage[c] # "body" /\ stage'[c] = "body"

\* A step of the coordinator that takes no time.
Operate ==
  /\ process # "down"
  /\ ClientStep \/ ServerStep
  /\ quiet' = IF Activity THEN 0 ELSE quiet
  /\ UNCHANGED process

\* A task on the event loop's ready queue: it runs before the next tick, which
\* stands for a good part of the monitor's five minutes.
Ready ==
  \/ \E r \in Requests : phase[r] \in {"granted", "revoked", "cancelled", "failed"}
  \/ \E c \in Calls : stage[c] = "queued" /\ Head(callLock[target[c]]) = c

\* Time passes for the monitor, and for the lease if there is one.
Elapse ==
  /\ process # "down"
  /\ ~Ready
  /\ IF Ageing THEN Tick ELSE UNCHANGED vars
  /\ quiet' = Older(quiet, ShutdownAfter)
  /\ UNCHANGED process

\* Slip: the monitor looks only at the last activity.
MonitorBlind ==
  /\ process = "up"
  /\ quiet >= ShutdownAfter
  /\ process' = "stopping"
  /\ UNCHANGED <<vars, quiet>>

\* One round of _managed_idle_monitor that calls request_shutdown.
Monitor ==
  /\ process = "up"
  /\ ~InUse
  /\ quiet >= ShutdownAfter
  /\ process' = "stopping"
  /\ UNCHANGED <<vars, quiet>>

\* The server leaves its loop and the lifespan closes the coordinator.
Exit ==
  /\ process = "stopping"
  /\ BeginClose
  /\ process' = "down"
  /\ UNCHANGED quiet

ManagedNext == Operate \/ Elapse \/ Monitor \/ Exit

ManagedSpec ==
  /\ ManagedInit /\ [][ManagedNext]_managedVars
  /\ \A r \in Requests : WF_managedVars(Operate /\ (Resume(r) \/ CancelWaiter(r)))
  /\ \A r \in Singles : WF_managedVars(Operate /\ FinishSingle(r))
  /\ \A c \in Calls : WF_managedVars(Operate /\ (CallTurn(c) \/ CallFinish(c)))
  /\ WF_managedVars(Operate /\ Reap)
  /\ WF_managedVars(Elapse) /\ WF_managedVars(Monitor) /\ WF_managedVars(Exit)

-----------------------------------------------------------------------------
(* Properties *)

ManagedTypeOK ==
  /\ TypeOK
  /\ quiet \in 0 .. ShutdownAfter
  /\ process \in {"up", "stopping", "down"}

\* A managed server nobody uses any more exits, whatever its clients left
\* behind: leases never released, requests that timed out, calls in flight.
AbandonedServerExits ==
  []<><<Operate /\ ClientStep>>_managedVars \/ <>(process = "down")

\* architecture.md: "It exits after five idle minutes only when no lease,
\* operation, or waiter exists": what the decision to exit is taken on.
DecidesOnlyWhenFree ==
  [][process = "up" /\ process' = "stopping" =>
       /\ activeSession = NoLease
       /\ \A r \in Requests : phase[r] \notin {"waiting", "granted", "running"}
       /\ \A c \in Calls : stage[c] # "body"]_managedVars

=============================================================================
