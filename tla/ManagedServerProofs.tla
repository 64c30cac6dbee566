------------------------ MODULE ManagedServerProofs ------------------------
(***************************************************************************)
(* Proofs about ManagedServer for every number of callers, all durations    *)
(* and every idle timeout.                                                  *)
(*                                                                          *)
(* The invariant of the coordinator says whose a grant is only once it is   *)
(* asked who holds the browser: a session that was granted a lease and has   *)
(* not resumed might have lost it to the reaper.  It has not, because the    *)
(* task on the ready queue runs before any time passes (FreshOK), and so the *)
(* monitor's look at the coordinator finds every request there is.           *)
(***************************************************************************)
EXTENDS ManagedServer, CoordinatorProofs

\* A session that has been granted a lease and has not resumed still has it, as
\* it was granted; only a single call runs by itself.
FreshOK(ph, act, ls) ==
  \A s \in Sessions :
    /\ ph[s] # "running"
    /\ ph[s] = "granted" => act = s /\ ~Overdue(ls[s])

ManagedInv ==
  /\ Inv
  /\ FreshOK(phase, activeSession, lease)
  /\ quiet \in 0 .. ShutdownAfter
  /\ process \in {"up", "stopping", "down"}

LEMMA NewLeaseFresh == ~Overdue(NewLease)
  BY DurationsValid DEF Overdue, NewLease

\* _grant_next_locked grants a lease that is new.
LEMMA GrantNextFresh ==
  ASSUME NEW q \in Seq(Requests), NEW ph \in [Requests -> Phases],
         NEW ls \in [Sessions -> Lease], NEW act, NEW single,
         FreshOK(ph, act, ls),
         GrantNext(q, ph, ls, act, single)
  PROVE  FreshOK(phase', activeSession', lease')
<1>1. CASE phase' = ph /\ activeSession' = act /\ lease' = ls
  BY <1>1
<1>2. CASE act = NoLease /\ ~single /\ {i \in DOMAIN q : ph[q[i]] = "waiting"} # {}
  <2>1. PICK i \in DOMAIN q :
          /\ phase' = [ph EXCEPT ![q[i]] = "granted"]
          /\ IF q[i] \in Singles
             THEN lease' = ls
             ELSE activeSession' = q[i] /\ lease' = [ls EXCEPT ![q[i]] = NewLease]
    BY <1>2 DEF GrantNext
  <2>2. q[i] \in Requests
    BY LenProperties, ElementOfSeq
  <2>3. \A s \in Sessions : s \in Requests /\ s # NoLease /\ s \notin Singles
                            /\ ph[s] # "granted" /\ ph[s] # "running"
    BY <1>2, NoLeaseFresh, RequestsDisjoint DEF FreshOK, Requests
  <2>4. CASE q[i] \in Singles
    BY <2>1, <2>2, <2>3, <2>4 DEF FreshOK
  <2>5. CASE q[i] \notin Singles
    <3>1. q[i] \in Sessions /\ lease'[q[i]] = NewLease
      BY <2>1, <2>2, <2>5 DEF Requests
    <3>2. \A s \in Sessions : s # q[i] => phase'[s] # "granted" /\ phase'[s] # "running"
      BY <2>1, <2>3
    <3>3. phase'[q[i]] = "granted" /\ activeSession' = q[i]
      BY <2>1, <2>2, <2>5
    <3> QED
      BY <3>1, <3>2, <3>3, NewLeaseFresh DEF FreshOK
  <2> QED
    BY <2>4, <2>5
<1> QED
  BY <1>1, <1>2 DEF GrantNext

\* _expire_session_locked ends no lease whose task has yet to resume.
LEMMA ExpireFresh ==
  ASSUME waiters \in Seq(Requests), NEW s \in Sessions,
         NEW ph \in [Requests -> Phases], NEW ls \in [Sessions -> Lease],
         FreshOK(ph, activeSession, ls), ph[s] # "granted",
         Expire(s, ph, ls)
  PROVE  FreshOK(phase', activeSession', lease')
<1>1. CASE activeSession # s
  BY <1>1 DEF Expire
<1>2. CASE activeSession = s /\ ls[s].inFlight > 0
  <2>1. phase' = ph /\ activeSession' = s /\ lease' = [ls EXCEPT ![s].releasePending = TRUE]
    BY <1>2 DEF Expire
  <2>2. \A t \in Sessions : t # s => ph[t] # "granted"
    BY <1>2 DEF FreshOK
  <2> QED
    BY <2>1, <2>2 DEF FreshOK
<1>3. CASE activeSession = s /\ ~(ls[s].inFlight > 0)
  <2>1. GrantNext(waiters, ph, ls, NoLease, singleActive)
    BY <1>3 DEF Expire
  <2>2. FreshOK(ph, NoLease, ls)
    BY <1>3 DEF FreshOK
  <2> QED
    BY <2>1, <2>2, GrantNextFresh
<1> QED
  BY <1>1, <1>2, <1>3

\* No step of the coordinator that takes no time lets a granted lease go.
LEMMA OperateFresh ==
  ASSUME Inv, FreshOK(phase, activeSession, lease), ClientStep \/ ServerStep
  PROVE  FreshOK(phase', activeSession', lease')
<1>0. /\ waiters \in Seq(Requests) /\ phase \in [Requests -> Phases]
      /\ lease \in [Sessions -> Lease]
      /\ activeSession \in Sessions \cup {NoLease}
      /\ \A s \in Sessions : s \in Requests /\ s \notin Singles
      /\ \A r \in Singles : r \in Requests
      /\ DOMAIN waiters = 1 .. Len(waiters)
  BY RequestsDisjoint, LenProperties DEF Inv, TypeOK, Requests
<1>1. ASSUME NEW r \in Requests, NEW x \in Phases, x = "running" => r \in Singles, x # "granted"
      PROVE  /\ [phase EXCEPT ![r] = x] \in [Requests -> Phases]
             /\ [phase EXCEPT ![r] = x][r] = x
             /\ FreshOK([phase EXCEPT ![r] = x], activeSession, lease)
  BY <1>0, <1>1 DEF FreshOK
<1>2. \A r \in Requests : Ended(r) \in Phases /\ Ended(r) \notin {"running", "granted"}
  BY DEF Ended, Phases
<1>3. ASSUME NEW r \in Requests, Enqueue(r)
      PROVE  FreshOK(phase', activeSession', lease')
  <2> DEFINE f == [phase EXCEPT ![r] = "waiting"]
  <2>1. GrantNext(Append(waiters, r), f, lease, activeSession, singleActive)
    BY <1>3 DEF Enqueue
  <2>2. Append(waiters, r) \in Seq(Requests)
    BY <1>0, AppendProperties
  <2>3. f \in [Requests -> Phases] /\ FreshOK(f, activeSession, lease)
    BY <1>1 DEF Phases
  <2> HIDE DEF f
  <2> QED
    BY <1>0, <2>1, <2>2, <2>3, GrantNextFresh
<1>4. ASSUME NEW r \in Requests, GiveUp(r) \/ Resume(r) \/ Fail(r)
      PROVE  FreshOK(phase', activeSession', lease')
  <2>1. PICK x \in Phases : /\ phase' = [phase EXCEPT ![r] = x]
                            /\ x = "running" => r \in Singles
                            /\ x # "granted"
    BY <1>2, <1>4 DEF GiveUp, Resume, Fail, Phases
  <2>2. UNCHANGED <<activeSession, lease>>
    BY <1>4 DEF GiveUp, Resume, Fail
  <2> QED
    BY <1>1, <2>1, <2>2
<1>5. ASSUME NEW r \in Requests, CancelWaiter(r)
      PROVE  FreshOK(phase', activeSession', lease')
  <2> DEFINE ended == [phase EXCEPT ![r] = Ended(r)]
  <2>1. /\ ended \in [Requests -> Phases] /\ ended[r] # "granted"
        /\ FreshOK(ended, activeSession, lease)
    BY <1>1, <1>2
  <2>2. \/ \E i \in DOMAIN waiters :
             GrantNext(RemoveAt(waiters, i), ended, lease, activeSession, singleActive)
        \/ \E single : GrantNext(waiters, ended, lease, activeSession, single)
        \/ activeSession = r /\ Expire(r, ended, lease)
    BY <1>5 DEF CancelWaiter
  <2> HIDE DEF ended
  <2>3. ASSUME NEW i \in DOMAIN waiters,
               GrantNext(RemoveAt(waiters, i), ended, lease, activeSession, singleActive)
        PROVE  FreshOK(phase', activeSession', lease')
    <3>1. RemoveAt(waiters, i) \in Seq(Requests)
      BY <1>0, RemoveAtProperties
    <3> QED
      BY <1>0, <2>1, <2>3, <3>1, GrantNextFresh
  <2>4. ASSUME NEW single, GrantNext(waiters, ended, lease, activeSession, single)
        PROVE  FreshOK(phase', activeSession', lease')
    BY <1>0, <2>1, <2>4, GrantNextFresh
  <2>5. ASSUME activeSession = r, Expire(r, ended, lease)
        PROVE  FreshOK(phase', activeSession', lease')
    <3>1. r \in Sessions
      BY <1>0, <2>5, NoLeaseFresh DEF Requests
    <3> QED
      BY <1>0, <2>1, <2>5, <3>1, ExpireFresh
  <2> QED
    BY <2>2, <2>3, <2>4, <2>5
<1>6. ASSUME NEW r \in Singles, FinishSingle(r)
      PROVE  FreshOK(phase', activeSession', lease')
  <2> DEFINE ended == [phase EXCEPT ![r] = Ended(r)]
  <2>1. ended \in [Requests -> Phases] /\ FreshOK(ended, activeSession, lease)
    BY <1>0, <1>1, <1>2
  <2>2. GrantNext(waiters, ended, lease, activeSession, FALSE)
    BY <1>6 DEF FinishSingle
  <2> HIDE DEF ended
  <2> QED
    BY <1>0, <2>1, <2>2, GrantNextFresh
<1>7. ASSUME NEW s \in Sessions, phase[s] # "granted", Expire(s, phase, lease)
      PROVE  FreshOK(phase', activeSession', lease')
  BY <1>0, <1>7, ExpireFresh
<1>8. ASSUME NEW s \in Sessions, activeSession = s, phase[s] = "holding",
             UNCHANGED <<phase, activeSession>>
      PROVE  FreshOK(phase', activeSession', lease')
  BY <1>8 DEF FreshOK
<1>9. ASSUME NEW s \in Sessions, Heartbeat(s) \/ Release(s)
      PROVE  FreshOK(phase', activeSession', lease')
  BY <1>7, <1>8, <1>9 DEF Heartbeat, Release
<1>10. ASSUME NEW c \in Calls, NEW s \in Sessions, CallStart(c, s)
       PROVE  FreshOK(phase', activeSession', lease')
  BY <1>7, <1>8, <1>10 DEF CallStart, EnterOrReject, grantVars
<1>11. ASSUME NEW c \in Calls, CallTurn(c) \/ CallFinish(c)
       PROVE  FreshOK(phase', activeSession', lease')
  <2>1. target[c] \in Sessions /\ phase[target[c]] = "holding"
    BY <1>11 DEF CallTurn, CallFinish, Inv, GrantsOK
  <2>2. CASE CallTurn(c)
    BY <1>7, <1>8, <2>1, <2>2 DEF CallTurn, EnterOrReject
  <2>3. CASE CallFinish(c)
    <3>1. activeSession = target[c]
      BY <2>3 DEF CallFinish, Inv, GrantsOK, LeasesOK
    <3> DEFINE landed == [lease EXCEPT ![target[c]].inFlight = @ - 1]
    <3>2. /\ landed \in [Sessions -> Lease]
          /\ \A s \in Sessions : landed[s].age = lease[s].age /\ landed[s].idle = lease[s].idle
      <4>1. lease[target[c]].inFlight = 1 /\ lease[target[c]] \in Lease
        BY <1>0, <2>1, <2>3 DEF CallFinish, Inv, GrantsOK, LeasesOK
      <4>2. lease[target[c]].inFlight - 1 = 0 /\ 0 \in Nat
        BY <4>1
      <4>3. landed = [lease EXCEPT ![target[c]].inFlight = 0]
        BY <4>2
      <4> QED
        BY <1>0, <2>1, <4>1, <4>2, <4>3 DEF Lease
    <3>3. CASE Expire(target[c], phase, landed)
      <4>1. FreshOK(phase, activeSession, landed)
        BY <3>2 DEF FreshOK, Overdue
      <4> HIDE DEF landed
      <4> QED
        BY <1>0, <2>1, <3>2, <3>3, <4>1, ExpireFresh
    <3>4. CASE UNCHANGED <<phase, activeSession>>
      BY <1>8, <2>1, <3>1, <3>4
    <3> QED
      BY <2>3, <3>3, <3>4 DEF CallFinish
  <2> QED
    BY <1>11, <2>2, <2>3
<1>12. ASSUME Reap
       PROVE  FreshOK(phase', activeSession', lease')
  <2>1. /\ activeSession \in Sessions /\ Overdue(lease[activeSession])
        /\ Expire(activeSession, phase, lease)
    BY <1>0, <1>12 DEF Reap
  <2>2. phase[activeSession] # "granted"
    BY <2>1 DEF FreshOK
  <2> QED
    BY <1>7, <2>1, <2>2
<1> QED
  BY <1>3, <1>4, <1>5, <1>6, <1>9, <1>10, <1>11, <1>12 DEF ClientStep, ServerStep

-----------------------------------------------------------------------------
(* The theorems *)

\* Seen from the coordinator a managed server takes its steps, and no other.
LEMMA ManagedStep == ManagedNext => [Next]_vars
  BY DEF ManagedNext, Operate, Elapse, Monitor, Exit, Next

LEMMA ManagedInvInit == ManagedInit => ManagedInv
<1>1. Init => FreshOK(phase, activeSession, lease)
  BY DEF Init, FreshOK, Requests
<1> QED
  BY <1>1, InvInit, ShutdownAfterPositive DEF ManagedInit, ManagedInv

LEMMA ManagedInvNext == ManagedInv /\ [ManagedNext]_managedVars => ManagedInv'
<1> SUFFICES ASSUME ManagedInv, [ManagedNext]_managedVars
             PROVE  ManagedInv'
  OBVIOUS
<1>1. Inv'
  <2>1. [Next]_vars
    BY ManagedStep DEF managedVars
  <2> QED
    BY <2>1, InvNext DEF ManagedInv
<1>2. (quiet \in 0 .. ShutdownAfter)'
  BY ShutdownAfterPositive
     DEF ManagedInv, ManagedNext, Operate, Elapse, Monitor, Exit, Older, managedVars, monitorVars
<1>3. (process \in {"up", "stopping", "down"})'
  BY DEF ManagedInv, ManagedNext, Operate, Elapse, Monitor, Exit, managedVars, monitorVars
<1>4. FreshOK(phase', activeSession', lease')
  <2>1. CASE Operate
    BY <2>1, OperateFresh DEF ManagedInv, Operate
  <2>2. CASE UNCHANGED <<phase, activeSession, lease>>
    BY <2>2 DEF ManagedInv
  <2>3. CASE Elapse
    <3>1. CASE Tick
      <4>1. \A s \in Sessions : phase[s] \notin {"granted", "running"}
        BY <2>3 DEF Elapse, Ready, ManagedInv, FreshOK, Requests
      <4>2. phase' = phase
        BY <3>1 DEF Tick
      <4> QED
        BY <4>1, <4>2 DEF FreshOK
    <3>2. CASE UNCHANGED vars
      BY <2>2, <3>2 DEF vars, grantVars
    <3> QED
      BY <2>3, <3>1, <3>2 DEF Elapse
  <2>4. CASE Monitor \/ Exit \/ UNCHANGED managedVars
    BY <2>2, <2>4 DEF Monitor, Exit, BeginClose, managedVars, vars, grantVars
  <2> QED
    BY <2>1, <2>3, <2>4 DEF ManagedNext
<1> QED
  BY <1>1, <1>2, <1>3, <1>4 DEF ManagedInv

\* The invariant always holds, with any idle timeout.
THEOREM ManagedInvariant == ManagedSpec => []ManagedInv
  BY ManagedInvInit, ManagedInvNext, PTL DEF ManagedSpec

\* The state of a managed server is well typed.
THEOREM ManagedTypeCorrect == ManagedSpec => []ManagedTypeOK
<1>1. ManagedInv => ManagedTypeOK
  BY DEF ManagedInv, Inv, ManagedTypeOK
<1> QED
  BY <1>1, ManagedInvariant, PTL

\* The monitor decides to end the process only at a moment when no request
\* waits, none has been granted and none is running, no lease is active and no
\* call is in its body, although it looks at no more than the coordinator's
\* flags and its deque, and a request may have been granted a moment ago.
THEOREM ExitsOnlyWhenFree == ManagedSpec => DecidesOnlyWhenFree
<1>1. ASSUME ManagedInv, [ManagedNext]_managedVars, process = "up", process' = "stopping"
      PROVE  /\ activeSession = NoLease
             /\ \A r \in Requests : phase[r] \notin {"waiting", "granted", "running"}
             /\ \A c \in Calls : stage[c] # "body"
  <2>1. ~InUse
    BY <1>1 DEF ManagedNext, Operate, Elapse, Monitor, Exit, managedVars, monitorVars
  <2>2. activeSession = NoLease /\ ~singleActive /\ waiters = <<>>
    BY <2>1 DEF InUse, Busy
  <2>3. \A r \in Requests : phase[r] # "waiting"
    BY <1>1, <2>2 DEF ManagedInv, Inv, GrantsOK, QueueOK
  <2>4. \A r \in Singles : phase[r] \notin {"granted", "running"}
    BY <1>1, <2>2 DEF ManagedInv, Inv, GrantsOK, OwnerOK, OwnerPhases
  <2>5. \A s \in Sessions : phase[s] \notin {"granted", "running"}
    BY <1>1, <2>2, NoLeaseFresh DEF ManagedInv, FreshOK
  <2>6. \A c \in Calls : stage[c] # "body"
    BY <1>1, <2>2, NoLeaseFresh DEF ManagedInv, Inv, GrantsOK, LeasesOK
  <2> QED
    BY <2>2, <2>3, <2>4, <2>5, <2>6 DEF Requests
<1>2. ManagedInv /\ [ManagedNext]_managedVars =>
        [process = "up" /\ process' = "stopping" =>
           /\ activeSession = NoLease
           /\ \A r \in Requests : phase[r] \notin {"waiting", "granted", "running"}
           /\ \A c \in Calls : stage[c] # "body"]_managedVars
  BY <1>1
<1> QED
  BY <1>2, ManagedInvariant, PTL DEF ManagedSpec, DecidesOnlyWhenFree

=============================================================================
