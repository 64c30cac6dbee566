------------------------- MODULE CoordinatorProofs -------------------------
(***************************************************************************)
(* Proofs about Coordinator for every number of callers, sessions and      *)
(* calls and all durations.                                                 *)
(*                                                                          *)
(* The inductive invariant speaks of four things: the deque and the phases  *)
(* (QueueOK), the grant and its owner (OwnerOK), the calls and their locks  *)
(* (LocksOK), and the calls counted on leases (LeasesOK).  They are stated  *)
(* of values rather than of the variables, because _grant_next_locked and   *)
(* _expire_session_locked run on what their caller has just assigned.       *)
(***************************************************************************)
EXTENDS MCCoordinator, SequenceTheorems, TLAPS

Stages == {"idle", "queued", "body"}

\* The queue holds, once each, the requests that wait and some that gave up.
QueueOK(q, ph) ==
  /\ q \in Seq(Requests)
  /\ \A i, j \in 1 .. Len(q) : q[i] = q[j] => i = j
  /\ \A i \in 1 .. Len(q) : ph[q[i]] \in {"waiting", "cancelled"}
  /\ \A r \in Requests : ph[r] = "waiting" => \E i \in 1 .. Len(q) : q[i] = r

OwnerPhases == {"granted", "revoked", "running"}

OwnerOK(ph, act, single) ==
  /\ single <=> \E r \in Singles : ph[r] \in OwnerPhases
  /\ \A q, r \in Singles : ph[q] \in OwnerPhases /\ ph[r] \in OwnerPhases => q = r
  /\ act # NoLease => ~single /\ ph[act] \in {"granted", "revoked", "holding"}

\* A free browser leaves nobody waiting.
ServedOK(ph, act, single) ==
  act = NoLease /\ ~single => \A r \in Requests : ph[r] # "waiting"

\* Every call that is not idle stands once in the lock of its session, the one
\* in its body at the head.
LocksOK(st, tg, lk) ==
  /\ \A c \in Calls : st[c] # "idle" =>
       tg[c] \in Sessions /\ \E i \in 1 .. Len(lk[tg[c]]) : lk[tg[c]][i] = c
  /\ \A s \in Sessions : \A i \in 1 .. Len(lk[s]) :
       st[lk[s][i]] # "idle" /\ tg[lk[s][i]] = s
  /\ \A s \in Sessions : \A i, j \in 1 .. Len(lk[s]) : lk[s][i] = lk[s][j] => i = j
  /\ \A c \in Calls : st[c] = "body" => lk[tg[c]][1] = c

\* A call in its body holds the active lease and is counted on it; a lease
\* counts nothing else, and is marked for release only under such a call.
LeasesOK(ls, act, st, tg) ==
  /\ \A c \in Calls : st[c] = "body" => act = tg[c] /\ ls[tg[c]].inFlight = 1
  /\ \A s \in Sessions : ls[s].inFlight = 0 \/
       (ls[s].inFlight = 1 /\ \E c \in Calls : st[c] = "body" /\ tg[c] = s)
  /\ \A s \in Sessions : act = s /\ ls[s].releasePending => ls[s].inFlight = 1

GrantsOK(q, ph, ls, act, single, st, tg) ==
  /\ ph \in [Requests -> Phases]
  /\ ls \in [Sessions -> Lease]
  /\ act \in Sessions \cup {NoLease}
  /\ single \in BOOLEAN
  /\ QueueOK(q, ph)
  /\ OwnerOK(ph, act, single)
  /\ LeasesOK(ls, act, st, tg)
  /\ \A c \in Calls : st[c] # "idle" => tg[c] \in Sessions /\ ph[tg[c]] = "holding"

\* The inductive invariant.
Inv ==
  /\ TypeOK
  /\ GrantsOK(waiters, phase, lease, activeSession, singleActive, stage, target)
  /\ ServedOK(phase, activeSession, singleActive)
  /\ LocksOK(stage, target, callLock)

-----------------------------------------------------------------------------
(* The queue *)

LEMMA NewLeaseType == NewLease \in Lease
  BY DurationsValid DEF NewLease, Lease

\* A request that joins the queue keeps it well formed.
LEMMA QueueAppend ==
  ASSUME NEW q, NEW ph \in [Requests -> Phases], QueueOK(q, ph),
         NEW r \in Requests, ph[r] = "idle"
  PROVE  QueueOK(Append(q, r), [ph EXCEPT ![r] = "waiting"])
<1> DEFINE a == Append(q, r)
           f == [ph EXCEPT ![r] = "waiting"]
<1>1. /\ a \in Seq(Requests)
      /\ Len(a) = Len(q) + 1
      /\ \A i \in 1 .. Len(q) : a[i] = q[i]
      /\ a[Len(q) + 1] = r
  BY AppendProperties DEF QueueOK
<1>2. Len(q) \in Nat
  BY LenProperties DEF QueueOK
<1>3. \A i \in 1 .. Len(q) : q[i] # r /\ q[i] \in Requests
  BY ElementOfSeq DEF QueueOK
<1> HIDE DEF a
<1>4. \A i, j \in 1 .. Len(a) : a[i] = a[j] => i = j
  BY <1>1, <1>2, <1>3 DEF QueueOK
<1>5. \A i \in 1 .. Len(a) : f[a[i]] \in {"waiting", "cancelled"}
  BY <1>1, <1>2, <1>3 DEF QueueOK
<1>6. \A t \in Requests : f[t] = "waiting" => \E i \in 1 .. Len(a) : a[i] = t
  <2> SUFFICES ASSUME NEW t \in Requests, f[t] = "waiting"
               PROVE  \E i \in 1 .. Len(a) : a[i] = t
    OBVIOUS
  <2>1. CASE t = r
    BY <2>1, <1>1, <1>2
  <2>2. CASE t # r
    <3>1. PICK i \in 1 .. Len(q) : q[i] = t
      BY <2>2 DEF QueueOK
    <3> QED
      BY <3>1, <1>1, <1>2
  <2> QED
    BY <2>1, <2>2
<1> QED
  BY <1>1, <1>4, <1>5, <1>6 DEF QueueOK, a

\* What RemoveAt leaves: everything but the element at i, in the same order.
LEMMA RemoveAtProperties ==
  ASSUME NEW S, NEW q \in Seq(S), NEW i \in 1 .. Len(q)
  PROVE  /\ RemoveAt(q, i) \in Seq(S)
         /\ Len(RemoveAt(q, i)) = Len(q) - 1
         /\ \A k \in 1 .. Len(q) - 1 :
              RemoveAt(q, i)[k] = IF k < i THEN q[k] ELSE q[k + 1]
<1> DEFINE u == SubSeq(q, 1, i - 1)
           v == SubSeq(q, i + 1, Len(q))
<1>0. Len(q) \in Nat
  BY LenProperties
<1>1. /\ u \in Seq(S)
      /\ Len(u) = i - 1
      /\ \A k \in 1 .. i - 1 : u[k] = q[k]
  BY <1>0, SubSeqProperties
<1>2. /\ v \in Seq(S)
      /\ Len(v) = Len(q) - i
      /\ \A k \in 1 .. Len(q) - i : v[k] = q[i + k]
  BY <1>0, SubSeqProperties
<1>5. RemoveAt(q, i) = u \o v
  BY DEF RemoveAt
<1> HIDE DEF u, v
<1>3. /\ u \o v \in Seq(S)
      /\ Len(u \o v) = Len(u) + Len(v)
      /\ \A k \in 1 .. Len(u) + Len(v) :
           (u \o v)[k] = IF k <= Len(u) THEN u[k] ELSE v[k - Len(u)]
  BY <1>1, <1>2, ConcatProperties
<1>4. \A k \in 1 .. Len(q) - 1 : (u \o v)[k] = IF k < i THEN q[k] ELSE q[k + 1]
  <2> SUFFICES ASSUME NEW k \in 1 .. Len(q) - 1
               PROVE  (u \o v)[k] = IF k < i THEN q[k] ELSE q[k + 1]
    OBVIOUS
  <2>1. CASE k < i
    BY <2>1, <1>0, <1>1, <1>2, <1>3
  <2>2. CASE ~(k < i)
    <3>1. k - (i - 1) \in 1 .. Len(q) - i /\ i + (k - (i - 1)) = k + 1
      BY <2>2, <1>0
    <3>2. v[k - (i - 1)] = q[k + 1]
      BY <3>1, <1>2
    <3> QED
      BY <2>2, <3>2, <1>0, <1>1, <1>2, <1>3
  <2> QED
    BY <2>1, <2>2
<1>6. Len(u) + Len(v) = Len(q) - 1
  BY <1>0, <1>1, <1>2
<1> QED
  BY <1>3, <1>4, <1>5, <1>6

\* A request that gave up leaves the queue well formed.
LEMMA QueueRemove ==
  ASSUME NEW q, NEW ph \in [Requests -> Phases], QueueOK(q, ph),
         NEW i \in 1 .. Len(q), NEW x \in Phases, x # "waiting"
  PROVE  QueueOK(RemoveAt(q, i), [ph EXCEPT ![q[i]] = x])
<1> DEFINE a == RemoveAt(q, i)
           f == [ph EXCEPT ![q[i]] = x]
<1>0. Len(q) \in Nat /\ q \in Seq(Requests)
  BY LenProperties DEF QueueOK
<1>1. /\ a \in Seq(Requests)
      /\ Len(a) = Len(q) - 1
      /\ \A k \in 1 .. Len(q) - 1 : a[k] = IF k < i THEN q[k] ELSE q[k + 1]
  BY <1>0, RemoveAtProperties
<1>2. \A k \in 1 .. Len(q) : q[k] \in Requests
  BY <1>0, ElementOfSeq
<1> HIDE DEF a
<1>3. \A j, k \in 1 .. Len(a) : a[j] = a[k] => j = k
  BY <1>0, <1>1 DEF QueueOK
<1>4. \A k \in 1 .. Len(a) : f[a[k]] \in {"waiting", "cancelled"}
  <2> SUFFICES ASSUME NEW k \in 1 .. Len(a)
               PROVE  f[a[k]] \in {"waiting", "cancelled"}
    OBVIOUS
  <2>1. PICK m \in 1 .. Len(q) : a[k] = q[m] /\ m # i
    <3>1. CASE k < i
      BY <3>1, <1>0, <1>1
    <3>2. CASE ~(k < i)
      BY <3>2, <1>0, <1>1
    <3> QED
      BY <3>1, <3>2
  <2>2. q[m] # q[i]
    BY <2>1 DEF QueueOK
  <2> QED
    BY <2>1, <2>2, <1>2 DEF QueueOK
<1>5. \A t \in Requests : f[t] = "waiting" => \E k \in 1 .. Len(a) : a[k] = t
  <2> SUFFICES ASSUME NEW t \in Requests, f[t] = "waiting"
               PROVE  \E k \in 1 .. Len(a) : a[k] = t
    OBVIOUS
  <2>1. t # q[i] /\ ph[t] = "waiting"
    BY <1>2
  <2>2. PICK m \in 1 .. Len(q) : q[m] = t
    BY <2>1 DEF QueueOK
  <2>3. CASE m < i
    BY <2>2, <2>3, <1>0, <1>1
  <2>4. CASE m > i
    <3>1. m - 1 \in 1 .. Len(a) /\ ~(m - 1 < i) /\ (m - 1) + 1 = m
      BY <2>4, <1>0, <1>1
    <3> QED
      BY <3>1, <2>2, <1>1
  <2> QED
    BY <2>1, <2>2, <2>3, <2>4, <1>0
<1> QED
  BY <1>1, <1>3, <1>4, <1>5 DEF QueueOK, a

\* Granting the oldest pending request keeps the queue well formed.
LEMMA QueueGrant ==
  ASSUME NEW q, NEW ph \in [Requests -> Phases], QueueOK(q, ph),
         NEW i \in 1 .. Len(q), ph[q[i]] = "waiting",
         \A j \in 1 .. Len(q) : ph[q[j]] = "waiting" => i <= j
  PROVE  QueueOK(SubSeq(q, i + 1, Len(q)), [ph EXCEPT ![q[i]] = "granted"])
<1> DEFINE a == SubSeq(q, i + 1, Len(q))
           f == [ph EXCEPT ![q[i]] = "granted"]
<1>0. Len(q) \in Nat /\ q \in Seq(Requests)
  BY LenProperties DEF QueueOK
<1>1. /\ a \in Seq(Requests)
      /\ Len(a) = Len(q) - i
      /\ \A k \in 1 .. Len(q) - i : a[k] = q[i + k]
  BY <1>0, SubSeqProperties
<1>2. \A k \in 1 .. Len(q) : q[k] \in Requests
  BY <1>0, ElementOfSeq
<1> HIDE DEF a
<1>3. \A j, k \in 1 .. Len(a) : a[j] = a[k] => j = k
  <2> SUFFICES ASSUME NEW j \in 1 .. Len(a), NEW k \in 1 .. Len(a), a[j] = a[k]
               PROVE  j = k
    OBVIOUS
  <2>1. i + j \in 1 .. Len(q) /\ i + k \in 1 .. Len(q) /\ q[i + j] = q[i + k]
    BY <1>0, <1>1
  <2>2. i + j = i + k
    BY <2>1 DEF QueueOK
  <2> QED
    BY <2>2, <1>0, <1>1
<1>4. \A k \in 1 .. Len(a) : f[a[k]] \in {"waiting", "cancelled"}
  <2> SUFFICES ASSUME NEW k \in 1 .. Len(a)
               PROVE  f[a[k]] \in {"waiting", "cancelled"}
    OBVIOUS
  <2>1. i + k \in 1 .. Len(q) /\ i + k # i /\ a[k] = q[i + k]
    BY <1>0, <1>1
  <2>2. q[i + k] # q[i]
    BY <2>1 DEF QueueOK
  <2> QED
    BY <2>1, <2>2, <1>2 DEF QueueOK
<1>5. \A t \in Requests : f[t] = "waiting" => \E k \in 1 .. Len(a) : a[k] = t
  <2> SUFFICES ASSUME NEW t \in Requests, f[t] = "waiting"
               PROVE  \E k \in 1 .. Len(a) : a[k] = t
    OBVIOUS
  <2>1. t # q[i] /\ ph[t] = "waiting"
    BY <1>2
  <2>2. PICK m \in 1 .. Len(q) : q[m] = t
    BY <2>1 DEF QueueOK
  <2>3. m > i
    BY <2>1, <2>2, <1>0
  <2>4. m - i \in 1 .. Len(a) /\ i + (m - i) = m
    BY <2>3, <1>0, <1>1
  <2> QED
    BY <2>2, <2>4, <1>1
<1> QED
  BY <1>1, <1>3, <1>4, <1>5 DEF QueueOK, a

-----------------------------------------------------------------------------
(* Granting and expiring *)

\* _grant_next_locked preserves the invariant and leaves nobody waiting for a
\* free browser, whatever its caller has assigned before.
LEMMA GrantNextKeeps ==
  ASSUME NEW q, NEW ph, NEW ls, NEW act, NEW single, NEW st, NEW tg,
         GrantsOK(q, ph, ls, act, single, st, tg),
         GrantNext(q, ph, ls, act, single)
  PROVE  /\ GrantsOK(waiters', phase', lease', activeSession', singleActive', st, tg)
         /\ ServedOK(phase', activeSession', singleActive')
<1>0. Len(q) \in Nat /\ q \in Seq(Requests) /\ DOMAIN q = 1 .. Len(q)
  BY LenProperties DEF GrantsOK, QueueOK
<1>1. CASE act # NoLease \/ single
  BY <1>1 DEF GrantsOK, ServedOK, GrantNext
<1>2. CASE act = NoLease /\ ~single /\ {i \in DOMAIN q : ph[q[i]] = "waiting"} = {}
  <2>1. \A r \in Requests : ph[r] # "waiting"
    BY <1>0, <1>2 DEF GrantsOK, QueueOK
  <2>2. QueueOK(<<>>, ph)
    BY <2>1, EmptySeq DEF QueueOK
  <2> QED
    BY <1>2, <2>1, <2>2 DEF GrantsOK, ServedOK, GrantNext
<1>3. CASE act = NoLease /\ ~single /\ {i \in DOMAIN q : ph[q[i]] = "waiting"} # {}
  <2>1. PICK i \in 1 .. Len(q) :
          /\ ph[q[i]] = "waiting"
          /\ \A j \in 1 .. Len(q) : ph[q[j]] = "waiting" => i <= j
          /\ waiters' = SubSeq(q, i + 1, Len(q))
          /\ phase' = [ph EXCEPT ![q[i]] = "granted"]
          /\ IF q[i] \in Singles
             THEN /\ singleActive' = TRUE
                  /\ activeSession' = NoLease
                  /\ lease' = ls
             ELSE /\ singleActive' = FALSE
                  /\ activeSession' = q[i]
                  /\ lease' = [ls EXCEPT ![q[i]] = NewLease]
    BY <1>0, <1>3 DEF GrantNext
  <2>2. q[i] \in Requests
    BY <1>0, ElementOfSeq
  <2>3. QueueOK(waiters', phase')
    BY <2>1, QueueGrant DEF GrantsOK
  <2>4. phase' \in [Requests -> Phases]
    BY <2>1, <2>2 DEF GrantsOK, Phases
  <2>5. \A c \in Calls : st[c] # "body"
    BY <1>3, NoLeaseFresh DEF GrantsOK, LeasesOK
  <2>6. \A r \in Singles : ph[r] \notin OwnerPhases
    BY <1>3 DEF GrantsOK, OwnerOK
  <2>9. \A c \in Calls : st[c] # "idle" => tg[c] \in Sessions /\ phase'[tg[c]] = "holding"
    BY <2>1, <2>2 DEF GrantsOK, Requests
  <2>7. CASE q[i] \in Singles
    <3>1. OwnerOK(phase', activeSession', singleActive')
      BY <2>1, <2>2, <2>6, <2>7 DEF OwnerOK, OwnerPhases, GrantsOK
    <3>2. LeasesOK(lease', activeSession', st, tg)
      BY <1>3, <2>1, <2>5, <2>7 DEF LeasesOK, GrantsOK
    <3> QED
      BY <2>1, <2>3, <2>4, <2>7, <2>9, <3>1, <3>2 DEF GrantsOK, ServedOK
  <2>8. CASE q[i] \notin Singles
    <3>1. q[i] \in Sessions /\ q[i] # NoLease
      BY <2>2, <2>8, NoLeaseFresh DEF Requests
    <3>2. OwnerOK(phase', activeSession', singleActive')
      BY <2>1, <2>2, <2>6, <2>8, <3>1 DEF OwnerOK, OwnerPhases, GrantsOK, Requests
    <3>3. lease' \in [Sessions -> Lease] /\ lease'[q[i]].inFlight = 0 /\ ~lease'[q[i]].releasePending
      BY <2>1, <2>8, <3>1, NewLeaseType DEF GrantsOK, NewLease
    <3>4. \A s \in Sessions : s # q[i] => lease'[s] = ls[s]
      BY <2>1, <2>8, <3>1 DEF GrantsOK
    <3>5. LeasesOK(lease', activeSession', st, tg)
      BY <2>1, <2>5, <2>8, <3>1, <3>3, <3>4 DEF LeasesOK, GrantsOK
    <3> QED
      BY <2>1, <2>3, <2>4, <2>8, <2>9, <3>1, <3>2, <3>3, <3>5 DEF GrantsOK, ServedOK
  <2> QED
    BY <2>7, <2>8
<1> QED
  BY <1>1, <1>2, <1>3 DEF GrantsOK

\* A lease that expires with no call in flight ends, and the browser goes on.
LEMMA ExpireEnds ==
  ASSUME NEW s \in Sessions, NEW ph, NEW ls, NEW st, NEW tg,
         activeSession = s, ls[s].inFlight = 0,
         GrantsOK(waiters, ph, ls, NoLease, singleActive, st, tg),
         Expire(s, ph, ls)
  PROVE  /\ GrantsOK(waiters', phase', lease', activeSession', singleActive', st, tg)
         /\ ServedOK(phase', activeSession', singleActive')
<1>1. GrantNext(waiters, ph, ls, NoLease, singleActive)
  BY DEF Expire
<1> QED
  BY <1>1, GrantNextKeeps

\* _expire_session_locked preserves the invariant.
LEMMA ExpireKeeps ==
  ASSUME NEW s \in Sessions, NEW ph, NEW ls, NEW st, NEW tg,
         GrantsOK(waiters, ph, ls, activeSession, singleActive, st, tg),
         ServedOK(ph, activeSession, singleActive),
         Expire(s, ph, ls)
  PROVE  /\ GrantsOK(waiters', phase', lease', activeSession', singleActive', st, tg)
         /\ ServedOK(phase', activeSession', singleActive')
<1>0. ls[s].inFlight \in Nat
  BY DEF GrantsOK, Lease
<1>1. CASE activeSession # s
  BY <1>1 DEF Expire
<1>2. CASE activeSession = s /\ ls[s].inFlight > 0
  <2>1. /\ lease' = [ls EXCEPT ![s].releasePending = TRUE]
        /\ phase' = ph
        /\ UNCHANGED <<waiters, activeSession, singleActive>>
    BY <1>2 DEF Expire
  <2>2. lease' \in [Sessions -> Lease] /\ \A t \in Sessions : lease'[t].inFlight = ls[t].inFlight
    BY <2>1 DEF GrantsOK, Lease
  <2>3. ls[s].inFlight = 1
    BY <1>0, <1>2 DEF GrantsOK, LeasesOK
  <2>4. LeasesOK(lease', activeSession', st, tg)
    BY <1>2, <2>1, <2>2, <2>3 DEF GrantsOK, LeasesOK
  <2> QED
    BY <2>1, <2>2, <2>4 DEF GrantsOK
<1>3. CASE activeSession = s /\ ls[s].inFlight = 0
  <2>1. \A c \in Calls : st[c] # "body"
    BY <1>3 DEF GrantsOK, LeasesOK
  <2>2. LeasesOK(ls, NoLease, st, tg)
    BY <2>1, NoLeaseFresh DEF GrantsOK, LeasesOK
  <2>3. GrantsOK(waiters, ph, ls, NoLease, singleActive, st, tg)
    BY <2>2 DEF GrantsOK, OwnerOK
  <2> QED
    BY <1>3, <2>3, ExpireEnds
<1> QED
  BY <1>0, <1>1, <1>2, <1>3

-----------------------------------------------------------------------------
(* Calls and their locks *)

\* A call that takes a free lock, or queues on one, stands in it last.
LEMMA LocksAppend ==
  ASSUME TypeOK, LocksOK(stage, target, callLock),
         NEW c \in Calls, NEW s \in Sessions, stage[c] = "idle",
         NEW x \in {"queued", "body"}, x = "body" => callLock[s] = <<>>
  PROVE  LocksOK([stage EXCEPT ![c] = x], [target EXCEPT ![c] = s],
                 [callLock EXCEPT ![s] = Append(callLock[s], c)])
<1> DEFINE q == callLock[s]
           a == Append(q, c)
           st == [stage EXCEPT ![c] = x]
           tg == [target EXCEPT ![c] = s]
           lk == [callLock EXCEPT ![s] = a]
<1>1. /\ a \in Seq(Calls)
      /\ Len(a) = Len(q) + 1
      /\ \A i \in 1 .. Len(q) : a[i] = q[i]
      /\ a[Len(q) + 1] = c
      /\ Len(q) \in Nat
  BY AppendProperties, LenProperties DEF TypeOK
<1> HIDE DEF a
<1>2. /\ lk[s] = a
      /\ \A t \in Sessions : t # s => lk[t] = callLock[t]
      /\ st[c] = x /\ tg[c] = s
      /\ \A d \in Calls : d # c => st[d] = stage[d] /\ tg[d] = target[d]
  BY DEF TypeOK
<1>3. \A t \in Sessions : \A i \in 1 .. Len(callLock[t]) :
        callLock[t][i] \in Calls /\ callLock[t][i] # c
  BY ElementOfSeq DEF TypeOK, LocksOK
<1> HIDE DEF st, tg, lk
<1>4. \A d \in Calls : st[d] # "idle" =>
        tg[d] \in Sessions /\ \E i \in 1 .. Len(lk[tg[d]]) : lk[tg[d]][i] = d
  <2> SUFFICES ASSUME NEW d \in Calls, st[d] # "idle"
               PROVE  tg[d] \in Sessions /\ \E i \in 1 .. Len(lk[tg[d]]) : lk[tg[d]][i] = d
    OBVIOUS
  <2>1. CASE d = c
    BY <2>1, <1>1, <1>2
  <2>2. CASE d # c
    <3>1. tg[d] = target[d] /\ target[d] \in Sessions
      BY <2>2, <1>2 DEF LocksOK
    <3>2. PICK i \in 1 .. Len(callLock[target[d]]) : callLock[target[d]][i] = d
      BY <2>2, <1>2 DEF LocksOK
    <3> QED
      BY SMTT(30), <3>1, <3>2, <1>1, <1>2
  <2> QED
    BY <2>1, <2>2
<1>5. \A t \in Sessions : \A i \in 1 .. Len(lk[t]) : st[lk[t][i]] # "idle" /\ tg[lk[t][i]] = t
  <2> SUFFICES ASSUME NEW t \in Sessions, NEW i \in 1 .. Len(lk[t])
               PROVE  st[lk[t][i]] # "idle" /\ tg[lk[t][i]] = t
    OBVIOUS
  <2>1. CASE t = s /\ i = Len(q) + 1
    BY <2>1, <1>1, <1>2
  <2>2. CASE ~(t = s /\ i = Len(q) + 1)
    <3>1. i \in 1 .. Len(callLock[t]) /\ lk[t][i] = callLock[t][i]
      BY <2>2, <1>1, <1>2
    <3> QED
      BY <3>1, <1>2, <1>3 DEF LocksOK
  <2> QED
    BY <2>1, <2>2
<1>6. \A t \in Sessions : \A i, j \in 1 .. Len(lk[t]) : lk[t][i] = lk[t][j] => i = j
  <2> SUFFICES ASSUME NEW t \in Sessions, NEW i \in 1 .. Len(lk[t]), NEW j \in 1 .. Len(lk[t]),
                      lk[t][i] = lk[t][j]
               PROVE  i = j
    OBVIOUS
  <2>0. \A m, n \in 1 .. Len(callLock[t]) : callLock[t][m] = callLock[t][n] => m = n
    BY DEF LocksOK
  <2>1. CASE t # s
    <3>1. lk[t] = callLock[t]
      BY <2>1, <1>2
    <3>2. i \in 1 .. Len(callLock[t]) /\ j \in 1 .. Len(callLock[t]) /\ callLock[t][i] = callLock[t][j]
      BY <3>1
    <3> QED
      BY <3>2, <2>0
  <2>2. CASE t = s
    <3>1. lk[t] = a /\ callLock[t] = q
      BY <2>2, <1>2
    <3>2. CASE i \in 1 .. Len(q) /\ j \in 1 .. Len(q)
      <4>1. q[i] = q[j]
        BY <3>1, <3>2, <1>1
      <4> QED
        BY <4>1, <3>1, <3>2, <2>0
    <3>3. CASE i = Len(q) + 1 /\ j \in 1 .. Len(q)
      BY <3>1, <3>3, <1>1, <1>3
    <3>4. CASE i \in 1 .. Len(q) /\ j = Len(q) + 1
      BY <3>1, <3>4, <1>1, <1>3
    <3>5. \A k \in 1 .. Len(a) : k \in 1 .. Len(q) \/ k = Len(q) + 1
      BY <1>1
    <3> QED
      BY <3>1, <3>2, <3>3, <3>4, <3>5
  <2> QED
    BY <2>1, <2>2
<1>7. \A d \in Calls : st[d] = "body" => lk[tg[d]][1] = d
  <2> SUFFICES ASSUME NEW d \in Calls, st[d] = "body"
               PROVE  lk[tg[d]][1] = d
    OBVIOUS
  <2>1. CASE d = c
    BY <2>1, <1>1, <1>2
  <2>2. CASE d # c
    <3>1. /\ tg[d] = target[d] /\ target[d] \in Sessions
          /\ callLock[target[d]][1] = d
          /\ \E i \in 1 .. Len(callLock[target[d]]) : TRUE
      BY <2>2, <1>2 DEF LocksOK
    <3> QED
      BY <3>1, <1>1, <1>2
  <2> QED
    BY <2>1, <2>2
<1> QED
  BY <1>4, <1>5, <1>6, <1>7 DEF LocksOK, st, tg, lk, a

\* The call at the head of a lock leaves it, and the others move up: none of
\* them is in its body.
LEMMA LocksTail ==
  ASSUME TypeOK, LocksOK(stage, target, callLock),
         NEW c \in Calls, stage[c] # "idle", callLock[target[c]][1] = c
  PROVE  LocksOK([stage EXCEPT ![c] = "idle"], [target EXCEPT ![c] = NoLease],
                 [callLock EXCEPT ![target[c]] = Tail(callLock[target[c]])])
<1> DEFINE s == target[c]
           q == callLock[s]
           a == Tail(q)
           st == [stage EXCEPT ![c] = "idle"]
           tg == [target EXCEPT ![c] = NoLease]
           lk == [callLock EXCEPT ![s] = a]
<1>0. s \in Sessions /\ q \in Seq(Calls) /\ Len(q) \in Nat /\ Len(q) > 0
  BY LenProperties DEF TypeOK, LocksOK
<1>1. /\ a \in Seq(Calls)
      /\ Len(a) = Len(q) - 1
      /\ \A i \in 1 .. Len(a) : a[i] = q[i + 1]
  BY <1>0, HeadTailProperties, LenProperties
<1>2. /\ lk[s] = a
      /\ \A t \in Sessions : t # s => lk[t] = callLock[t]
      /\ st[c] = "idle"
      /\ \A d \in Calls : d # c => st[d] = stage[d] /\ tg[d] = target[d]
  BY <1>0 DEF TypeOK
<1>3. q[1] = c
  OBVIOUS
<1>4. \A i \in 1 .. Len(a) : a[i] # c /\ a[i] \in Calls /\ tg[a[i]] = s /\ st[a[i]] # "idle"
  <2> SUFFICES ASSUME NEW i \in 1 .. Len(a)
               PROVE  a[i] # c /\ a[i] \in Calls /\ tg[a[i]] = s /\ st[a[i]] # "idle"
    OBVIOUS
  <2>1. i + 1 \in 1 .. Len(q) /\ 1 \in 1 .. Len(q) /\ i + 1 # 1 /\ a[i] = q[i + 1]
    BY <1>0, <1>1
  <2>2. q[i + 1] # q[1] /\ stage[q[i + 1]] # "idle" /\ target[q[i + 1]] = s
    BY <1>0, <2>1 DEF LocksOK
  <2>3. q[i + 1] \in Calls
    BY <1>0, <2>1, ElementOfSeq
  <2> QED
    BY <1>2, <1>3, <2>1, <2>2, <2>3
<1>5. \A t \in Sessions : \A i \in 1 .. Len(callLock[t]) :
        t # s => callLock[t][i] \in Calls /\ callLock[t][i] # c
  BY ElementOfSeq DEF TypeOK, LocksOK
<1> HIDE DEF a, st, tg, lk, s
<1>6. \A d \in Calls : st[d] # "idle" =>
        tg[d] \in Sessions /\ \E i \in 1 .. Len(lk[tg[d]]) : lk[tg[d]][i] = d
  <2> SUFFICES ASSUME NEW d \in Calls, st[d] # "idle"
               PROVE  tg[d] \in Sessions /\ \E i \in 1 .. Len(lk[tg[d]]) : lk[tg[d]][i] = d
    OBVIOUS
  <2>1. d # c /\ tg[d] = target[d] /\ stage[d] # "idle" /\ target[d] \in Sessions
    BY <1>2 DEF LocksOK
  <2>2. PICK i \in 1 .. Len(callLock[target[d]]) : callLock[target[d]][i] = d
    BY <2>1 DEF LocksOK
  <2>3. CASE target[d] = s
    <3>1. i - 1 \in 1 .. Len(a) /\ (i - 1) + 1 = i
      BY <2>1, <2>2, <2>3, <1>0, <1>1, <1>3
    <3>2. a[i - 1] = q[i] /\ q[i] = d
      BY <3>1, <2>2, <2>3, <1>1
    <3>3. tg[d] = s /\ lk[s] = a /\ s \in Sessions
      BY <2>1, <2>3, <1>0, <1>2
    <3>4. i - 1 \in 1 .. Len(lk[tg[d]]) /\ lk[tg[d]][i - 1] = d
      BY <3>1, <3>2, <3>3
    <3> QED
      BY <3>3, <3>4
  <2> QED
    BY <2>1, <2>2, <2>3, <1>2
<1>7. \A t \in Sessions : \A i \in 1 .. Len(lk[t]) : st[lk[t][i]] # "idle" /\ tg[lk[t][i]] = t
  <2> SUFFICES ASSUME NEW t \in Sessions, NEW i \in 1 .. Len(lk[t])
               PROVE  st[lk[t][i]] # "idle" /\ tg[lk[t][i]] = t
    OBVIOUS
  <2>1. CASE t = s
    BY <2>1, <1>2, <1>4
  <2>2. CASE t # s
    <3>1. lk[t] = callLock[t]
      BY <2>2, <1>2
    <3>2. stage[callLock[t][i]] # "idle" /\ target[callLock[t][i]] = t
      BY <3>1 DEF LocksOK
    <3> QED
      BY <3>1, <3>2, <2>2, <1>2, <1>5
  <2> QED
    BY <2>1, <2>2
<1>8. \A t \in Sessions : \A i, j \in 1 .. Len(lk[t]) : lk[t][i] = lk[t][j] => i = j
  <2> SUFFICES ASSUME NEW t \in Sessions,
                      NEW i \in 1 .. Len(lk[t]), NEW j \in 1 .. Len(lk[t]), lk[t][i] = lk[t][j]
               PROVE  i = j
    OBVIOUS
  <2>1. CASE t = s
    <3>1. i + 1 \in 1 .. Len(q) /\ j + 1 \in 1 .. Len(q) /\ q[i + 1] = q[j + 1]
      BY <2>1, <1>0, <1>1, <1>2
    <3>2. i + 1 = j + 1
      BY <3>1, <1>0 DEF LocksOK
    <3> QED
      BY <3>2, <2>1, <1>0, <1>1, <1>2
  <2>2. CASE t # s
    BY <2>2, <1>2 DEF LocksOK
  <2> QED
    BY <2>1, <2>2
<1>9. \A d \in Calls : st[d] = "body" => lk[tg[d]][1] = d
  <2> SUFFICES ASSUME NEW d \in Calls, st[d] = "body"
               PROVE  lk[tg[d]][1] = d
    OBVIOUS
  <2>1. /\ d # c /\ tg[d] = target[d] /\ target[d] \in Sessions
        /\ callLock[target[d]][1] = d
    BY <1>2 DEF LocksOK
  <2>2. target[d] # s
    BY <2>1, <1>3
  <2> QED
    BY <2>1, <2>2, <1>2
<1> QED
  BY <1>6, <1>7, <1>8, <1>9 DEF LocksOK, st, tg, lk, a, s

-----------------------------------------------------------------------------
(* The invariant is inductive *)

LEMMA InvInit == Init => Inv
<1> SUFFICES ASSUME Init
             PROVE  Inv
  OBVIOUS
<1>1. TypeOK
  BY NewLeaseType, EmptySeq DEF Init, TypeOK, Phases
<1>2. QueueOK(waiters, phase)
  BY EmptySeq DEF Init, QueueOK
<1>3. OwnerOK(phase, activeSession, singleActive)
  BY DEF Init, OwnerOK, OwnerPhases, Requests
<1>4. LeasesOK(lease, activeSession, stage, target)
  BY DEF Init, LeasesOK, NewLease
<1>5. LocksOK(stage, target, callLock)
  BY DEF Init, LocksOK
<1>6. ServedOK(phase, activeSession, singleActive)
  BY DEF Init, ServedOK
<1> QED
  BY <1>1, <1>2, <1>3, <1>4, <1>5, <1>6 DEF Inv, GrantsOK, TypeOK, Init

\* What GrantsOK says of the grant's variables is all TypeOK asks of them.
LEMMA InvRebuild ==
  ASSUME GrantsOK(waiters', phase', lease', activeSession', singleActive', stage', target'),
         ServedOK(phase', activeSession', singleActive'),
         LocksOK(stage', target', callLock'),
         server' \in {"open", "closing", "closed"},
         stage' \in [Calls -> Stages],
         target' \in [Calls -> Sessions \cup {NoLease}],
         callLock' \in [Sessions -> Seq(Calls)]
  PROVE  Inv'
  BY DEF Inv, TypeOK, GrantsOK, QueueOK, Stages

\* Requests: the calls and their locks do not change.
LEMMA RequestStep ==
  ASSUME Inv, NEW r \in Requests,
         Enqueue(r) \/ Resume(r) \/ GiveUp(r) \/ CancelWaiter(r) \/ Fail(r)
  PROVE  Inv'
<1> USE DEF Inv
<1> DEFINE ended == [phase EXCEPT ![r] = Ended(r)]
<1>0. /\ phase \in [Requests -> Phases]
      /\ Ended(r) \in {"idle", "over"}
      /\ ended \in [Requests -> Phases]
      /\ ended[r] \in {"idle", "over"}
      /\ \A q \in Requests : q # r => ended[q] = phase[q]
      /\ \A s \in Sessions : s \in Requests /\ s \notin Singles
      /\ \A i \in 1 .. Len(waiters) : waiters[i] \in Requests
      /\ DOMAIN waiters = 1 .. Len(waiters)
      /\ UNCHANGED <<server, callVars>> => UNCHANGED <<server, stage, target, callLock>>
  BY RequestsDisjoint, ElementOfSeq, LenProperties
     DEF TypeOK, Ended, Phases, Requests, callVars
<1>1. CASE Enqueue(r)
  <2> DEFINE ph == [phase EXCEPT ![r] = "waiting"]
  <2>1. /\ phase[r] = "idle"
        /\ GrantNext(Append(waiters, r), ph, lease, activeSession, singleActive)
        /\ UNCHANGED <<server, stage, target, callLock>>
    BY <1>0, <1>1 DEF Enqueue
  <2>2. QueueOK(Append(waiters, r), ph)
    BY <1>0, <2>1, QueueAppend DEF GrantsOK
  <2>3. OwnerOK(ph, activeSession, singleActive)
    BY <1>0, <2>1 DEF GrantsOK, OwnerOK, OwnerPhases
  <2>4. GrantsOK(Append(waiters, r), ph, lease, activeSession, singleActive, stage, target)
    BY <1>0, <2>1, <2>2, <2>3 DEF GrantsOK, Phases
  <2>5. /\ GrantsOK(waiters', phase', lease', activeSession', singleActive', stage, target)
        /\ ServedOK(phase', activeSession', singleActive')
    BY <2>1, <2>4, GrantNextKeeps
  <2> QED
    BY <2>1, <2>5, InvRebuild DEF TypeOK, Stages
<1>2. CASE Resume(r)
  <2>1. /\ phase[r] = "granted"
        /\ phase' = [phase EXCEPT ![r] = IF r \in Singles THEN "running" ELSE "holding"]
        /\ UNCHANGED <<waiters, activeSession, singleActive, lease, server, stage, target, callLock>>
    BY <1>0, <1>2 DEF Resume
  <2>2. phase' \in [Requests -> Phases]
    BY <1>0, <2>1 DEF Phases
  <2>3. QueueOK(waiters, phase')
    BY <1>0, <2>1 DEF GrantsOK, QueueOK
  <2>4. OwnerOK(phase', activeSession, singleActive)
    BY <1>0, <2>1 DEF GrantsOK, OwnerOK, OwnerPhases
  <2>5. GrantsOK(waiters', phase', lease', activeSession', singleActive', stage', target')
    BY <1>0, <2>1, <2>2, <2>3, <2>4 DEF GrantsOK
  <2>6. ServedOK(phase', activeSession', singleActive')
    BY <1>0, <2>1 DEF ServedOK
  <2> QED
    BY <2>1, <2>5, <2>6, InvRebuild DEF TypeOK, Stages
<1>3. CASE GiveUp(r)
  <2>1. /\ phase[r] \in {"waiting", "granted"}
        /\ phase' = [phase EXCEPT ![r] = IF phase[r] = "waiting" THEN "cancelled" ELSE "revoked"]
        /\ UNCHANGED <<waiters, activeSession, singleActive, lease, server, stage, target, callLock>>
    BY <1>0, <1>3 DEF GiveUp
  <2>2. phase' \in [Requests -> Phases]
    BY <1>0, <2>1 DEF Phases
  <2>3. QueueOK(waiters, phase')
    BY <1>0, <2>1 DEF GrantsOK, QueueOK
  <2>4. OwnerOK(phase', activeSession, singleActive)
    BY <1>0, <2>1 DEF GrantsOK, OwnerOK, OwnerPhases
  <2>5. GrantsOK(waiters', phase', lease', activeSession', singleActive', stage', target')
    BY <1>0, <2>1, <2>2, <2>3, <2>4 DEF GrantsOK
  <2>6. ServedOK(phase', activeSession', singleActive')
    BY <1>0, <2>1 DEF ServedOK
  <2> QED
    BY <2>1, <2>5, <2>6, InvRebuild DEF TypeOK, Stages
<1>4. CASE CancelWaiter(r)
  <2>1. phase[r] \in {"cancelled", "revoked"} /\ UNCHANGED <<server, stage, target, callLock>>
    BY <1>0, <1>4 DEF CancelWaiter
  <2>2. \A c \in Calls : stage[c] # "idle" => target[c] \in Sessions /\ ended[target[c]] = "holding"
    BY <1>0, <2>1 DEF GrantsOK
  <2>3. /\ GrantsOK(waiters', phase', lease', activeSession', singleActive', stage, target)
        /\ ServedOK(phase', activeSession', singleActive')
    <3>1. CASE \E i \in DOMAIN waiters :
                 /\ waiters[i] = r
                 /\ GrantNext(RemoveAt(waiters, i), ended, lease, activeSession, singleActive)
      <4>1. PICK i \in 1 .. Len(waiters) :
              /\ waiters[i] = r
              /\ GrantNext(RemoveAt(waiters, i), ended, lease, activeSession, singleActive)
        BY <1>0, <3>1
      <4>2. phase[r] = "cancelled"
        BY <2>1, <4>1 DEF GrantsOK, QueueOK
      <4>3. QueueOK(RemoveAt(waiters, i), ended)
        BY <1>0, <4>1, QueueRemove DEF GrantsOK, Phases
      <4>4. OwnerOK(ended, activeSession, singleActive)
        BY <1>0, <4>2 DEF GrantsOK, OwnerOK, OwnerPhases
      <4>5. GrantsOK(RemoveAt(waiters, i), ended, lease, activeSession, singleActive, stage, target)
        BY <1>0, <2>2, <4>3, <4>4 DEF GrantsOK
      <4> QED
        BY <4>1, <4>5, GrantNextKeeps
    <3>2. ASSUME \A i \in DOMAIN waiters : waiters[i] # r
          PROVE  QueueOK(waiters, ended)
      BY <1>0, <3>2 DEF GrantsOK, QueueOK
    <3>3. CASE /\ \A i \in DOMAIN waiters : waiters[i] # r
               /\ phase[r] = "revoked" /\ r \in Singles /\ singleActive
      <4>1. GrantNext(waiters, ended, lease, activeSession, FALSE)
        BY <1>0, <1>4, <3>3 DEF CancelWaiter
      <4>2. OwnerOK(ended, activeSession, FALSE)
        BY <1>0, <3>3 DEF GrantsOK, OwnerOK, OwnerPhases
      <4>3. GrantsOK(waiters, ended, lease, activeSession, FALSE, stage, target)
        BY <1>0, <2>2, <3>2, <3>3, <4>2 DEF GrantsOK
      <4> QED
        BY <4>1, <4>3, GrantNextKeeps
    <3>4. CASE /\ \A i \in DOMAIN waiters : waiters[i] # r
               /\ ~(phase[r] = "revoked" /\ r \in Singles /\ singleActive)
               /\ phase[r] = "revoked" /\ activeSession = r
      <4>1. r \in Sessions /\ r # NoLease /\ Expire(r, ended, lease)
        BY <1>0, <1>4, <3>4, NoLeaseFresh DEF CancelWaiter, GrantsOK, Requests
      <4>2. \A c \in Calls : stage[c] # "body"
        BY <1>0, <3>4 DEF GrantsOK, LeasesOK
      <4>3. lease[r].inFlight = 0
        BY <4>1, <4>2 DEF GrantsOK, LeasesOK
      <4>4. OwnerOK(ended, NoLease, singleActive)
        BY <1>0, <3>4, <4>1 DEF GrantsOK, OwnerOK, OwnerPhases
      <4>5. LeasesOK(lease, NoLease, stage, target)
        BY <4>2, NoLeaseFresh DEF GrantsOK, LeasesOK
      <4>6. GrantsOK(waiters, ended, lease, NoLease, singleActive, stage, target)
        BY <1>0, <2>2, <3>2, <3>4, <4>4, <4>5 DEF GrantsOK
      <4> QED
        BY <3>4, <4>1, <4>3, <4>6, ExpireEnds
    <3>5. CASE /\ \A i \in DOMAIN waiters : waiters[i] # r
               /\ ~(phase[r] = "revoked" /\ r \in Singles /\ singleActive)
               /\ ~(phase[r] = "revoked" /\ activeSession = r)
      <4>1. GrantNext(waiters, ended, lease, activeSession, singleActive)
        BY <1>0, <1>4, <3>5 DEF CancelWaiter
      <4>2. OwnerOK(ended, activeSession, singleActive)
        BY <1>0, <2>1, <3>5 DEF GrantsOK, OwnerOK, OwnerPhases
      <4>3. GrantsOK(waiters, ended, lease, activeSession, singleActive, stage, target)
        BY <1>0, <2>2, <3>2, <3>5, <4>2 DEF GrantsOK
      <4> QED
        BY <4>1, <4>3, GrantNextKeeps
    <3> QED
      BY <1>4, <3>1, <3>3, <3>4, <3>5 DEF CancelWaiter
  <2> QED
    BY <2>1, <2>3, InvRebuild DEF TypeOK, Stages
<1>5. CASE Fail(r)
  <2>1. /\ phase[r] = "failed"
        /\ phase' = ended
        /\ UNCHANGED <<waiters, activeSession, singleActive, lease, server, stage, target, callLock>>
    BY <1>0, <1>5 DEF Fail
  <2>2. QueueOK(waiters, ended)
    BY <1>0, <2>1 DEF GrantsOK, QueueOK
  <2>3. OwnerOK(ended, activeSession, singleActive)
    BY <1>0, <2>1 DEF GrantsOK, OwnerOK, OwnerPhases
  <2>4. GrantsOK(waiters', phase', lease', activeSession', singleActive', stage', target')
    BY <1>0, <2>1, <2>2, <2>3 DEF GrantsOK
  <2>5. ServedOK(phase', activeSession', singleActive')
    BY <1>0, <2>1 DEF ServedOK
  <2> QED
    BY <2>1, <2>4, <2>5, InvRebuild DEF TypeOK, Stages
<1> QED
  BY <1>1, <1>2, <1>3, <1>4, <1>5

\* The end of a single call.
LEMMA SingleStep ==
  ASSUME Inv, NEW r \in Singles, FinishSingle(r)
  PROVE  Inv'
<1> USE DEF Inv
<1> DEFINE ended == [phase EXCEPT ![r] = Ended(r)]
<1>1. /\ phase[r] = "running"
      /\ GrantNext(waiters, ended, lease, activeSession, FALSE)
      /\ UNCHANGED <<server, stage, target, callLock>>
  BY DEF FinishSingle, callVars
<1>2. /\ r \in Requests
      /\ ended \in [Requests -> Phases]
      /\ ended[r] = "idle"
      /\ \A q \in Requests : q # r => ended[q] = phase[q]
      /\ \A s \in Sessions : s \in Requests /\ s \notin Singles
      /\ \A i \in 1 .. Len(waiters) : waiters[i] \in Requests
  BY RequestsDisjoint, ElementOfSeq DEF TypeOK, Ended, Phases, Requests
<1>3. QueueOK(waiters, ended)
  BY <1>1, <1>2 DEF GrantsOK, QueueOK
<1>4. OwnerOK(ended, activeSession, FALSE)
  BY <1>1, <1>2 DEF GrantsOK, OwnerOK, OwnerPhases, Requests
<1>5. GrantsOK(waiters, ended, lease, activeSession, FALSE, stage, target)
  BY <1>1, <1>2, <1>3, <1>4 DEF GrantsOK
<1>6. /\ GrantsOK(waiters', phase', lease', activeSession', singleActive', stage, target)
      /\ ServedOK(phase', activeSession', singleActive')
  BY <1>1, <1>5, GrantNextKeeps
<1> QED
  BY <1>1, <1>6, InvRebuild DEF TypeOK, Stages

\* What a holder does to its lease besides calling, and the reaper.
LEMMA LeaseStep ==
  ASSUME Inv, NEW s \in Sessions,
         Heartbeat(s) \/ Release(s) \/ (activeSession = s /\ Reap)
  PROVE  Inv'
<1> USE DEF Inv
<1>1. UNCHANGED <<server, stage, target, callLock>>
  BY DEF Heartbeat, Release, Reap, callVars
<1>2. CASE Expire(s, phase, lease)
  <2>1. /\ GrantsOK(waiters', phase', lease', activeSession', singleActive', stage, target)
        /\ ServedOK(phase', activeSession', singleActive')
    BY <1>2, ExpireKeeps
  <2> QED
    BY <1>1, <2>1, InvRebuild DEF TypeOK, Stages
<1>3. CASE /\ lease' = [lease EXCEPT ![s].idle = 0]
           /\ UNCHANGED <<waiters, phase, activeSession, singleActive>>
  <2>0. 0 \in 0 .. IdleTtl /\ lease \in [Sessions -> Lease]
    BY DurationsValid DEF TypeOK
  <2>1. /\ lease' \in [Sessions -> Lease]
        /\ \A t \in Sessions : /\ lease'[t].inFlight = lease[t].inFlight
                               /\ lease'[t].releasePending = lease[t].releasePending
    BY <1>3, <2>0 DEF Lease
  <2>2. LeasesOK(lease', activeSession, stage, target)
    BY <2>1 DEF GrantsOK, LeasesOK
  <2>3. GrantsOK(waiters', phase', lease', activeSession', singleActive', stage', target')
    BY <1>1, <1>3, <2>1, <2>2 DEF GrantsOK
  <2> QED
    BY <1>1, <1>3, <2>3, InvRebuild DEF TypeOK, Stages
<1> QED
  BY <1>2, <1>3 DEF Heartbeat, Release, Reap

\* Ages grow; nothing else does.
LEMMA TickStep ==
  ASSUME Inv, Tick
  PROVE  Inv'
<1> USE DEF Inv
<1>1. UNCHANGED <<waiters, phase, activeSession, singleActive, server, stage, target, callLock>>
  BY DEF Tick, callVars
<1>2. activeSession \in Sessions
  BY DEF Tick, Ageing, TypeOK
<1>3. /\ lease' = [lease EXCEPT ![activeSession].age = Older(@, MaxLifetime),
                               ![activeSession].idle = Older(@, IdleTtl)]
      /\ lease[activeSession].age \in 0 .. MaxLifetime
      /\ lease[activeSession].idle \in 0 .. IdleTtl
  BY <1>2 DEF Tick, TypeOK, Lease
<1>4. /\ Older(lease[activeSession].age, MaxLifetime) \in 0 .. MaxLifetime
      /\ Older(lease[activeSession].idle, IdleTtl) \in 0 .. IdleTtl
  BY <1>3, DurationsValid DEF Older
<1>5. /\ lease' \in [Sessions -> Lease]
      /\ \A t \in Sessions : /\ lease'[t].inFlight = lease[t].inFlight
                             /\ lease'[t].releasePending = lease[t].releasePending
  <2>1. lease \in [Sessions -> Lease]
    BY DEF TypeOK
  <2>2. \A t \in Sessions : t # activeSession => lease'[t] = lease[t]
    BY <2>1, <1>2, <1>3
  <2>3. lease'[activeSession] =
          [lease[activeSession] EXCEPT !.age = Older(lease[activeSession].age, MaxLifetime),
                                       !.idle = Older(lease[activeSession].idle, IdleTtl)]
    BY <2>1, <1>2, <1>3
  <2>4. /\ lease'[activeSession] \in Lease
        /\ lease'[activeSession].inFlight = lease[activeSession].inFlight
        /\ lease'[activeSession].releasePending = lease[activeSession].releasePending
    BY <2>1, <2>3, <1>2, <1>4 DEF Lease
  <2> QED
    BY <2>1, <2>2, <2>4, <1>3
<1>6. LeasesOK(lease', activeSession, stage, target)
  BY <1>5 DEF GrantsOK, LeasesOK
<1>7. GrantsOK(waiters', phase', lease', activeSession', singleActive', stage', target')
  BY <1>1, <1>5, <1>6 DEF GrantsOK
<1> QED
  BY <1>1, <1>7, InvRebuild DEF TypeOK, Stages

\* close() fails whoever waits: all of them are in the deque.
LEMMA CloseStep ==
  ASSUME Inv, BeginClose \/ EndClose
  PROVE  Inv'
<1> USE DEF Inv
<1>1. CASE BeginClose
  <2>1. /\ server' = "closing"
        /\ UNCHANGED <<waiters, phase, activeSession, singleActive, lease, stage, target, callLock>>
    BY <1>1 DEF BeginClose, grantVars, callVars
  <2> QED
    BY <2>1, InvRebuild DEF TypeOK, Stages
<1>2. CASE EndClose
  <2>1. /\ server' = "closed"
        /\ phase' = [r \in Requests |->
                       IF phase[r] = "waiting" /\ \E i \in DOMAIN waiters : waiters[i] = r
                       THEN "failed" ELSE phase[r]]
        /\ waiters' = <<>>
        /\ UNCHANGED <<activeSession, singleActive, lease, stage, target, callLock>>
        /\ DOMAIN waiters = 1 .. Len(waiters)
    BY <1>2, LenProperties DEF EndClose, callVars, TypeOK
  <2>2. /\ phase' \in [Requests -> Phases]
        /\ \A r \in Requests : IF phase[r] = "waiting" THEN phase'[r] = "failed"
                                                     ELSE phase'[r] = phase[r]
    BY <2>1 DEF GrantsOK, QueueOK, Phases
  <2>3. QueueOK(<<>>, phase')
    BY <2>2, EmptySeq DEF QueueOK
  <2>4. OwnerOK(phase', activeSession, singleActive)
    BY <2>2 DEF GrantsOK, OwnerOK, OwnerPhases, Requests
  <2>5. \A c \in Calls : stage[c] # "idle" => target[c] \in Sessions /\ phase'[target[c]] = "holding"
    BY <2>2 DEF GrantsOK, Requests
  <2>6. GrantsOK(waiters', phase', lease', activeSession', singleActive', stage', target')
    BY <2>1, <2>2, <2>3, <2>4, <2>5 DEF GrantsOK
  <2>7. ServedOK(phase', activeSession', singleActive')
    BY <2>2 DEF ServedOK
  <2> QED
    BY <2>1, <2>6, <2>7, InvRebuild DEF TypeOK, Stages
<1> QED
  BY <1>1, <1>2

\* A call that enters its body under the active lease is counted on it; nothing
\* else may be in its body under that lease.
LEMMA CallEnters ==
  ASSUME Inv, NEW c \in Calls, NEW s \in Sessions, NEW st, NEW tg,
         activeSession = s, phase[s] = "holding",
         \A d \in Calls : stage[d] = "body" => target[d] # s,
         st = [stage EXCEPT ![c] = "body"], tg = [target EXCEPT ![c] = s],
         lease' = [lease EXCEPT ![s].inFlight = @ + 1],
         UNCHANGED <<waiters, phase, activeSession, singleActive>>
  PROVE  /\ GrantsOK(waiters', phase', lease', activeSession', singleActive', st, tg)
         /\ ServedOK(phase', activeSession', singleActive')
<1> USE DEF Inv
<1>1. /\ st[c] = "body" /\ tg[c] = s
      /\ \A d \in Calls : d # c => st[d] = stage[d] /\ tg[d] = target[d]
  BY DEF TypeOK
<1>2. \A d \in Calls : stage[d] # "body"
  BY DEF GrantsOK, LeasesOK
<1>3. lease[s] \in Lease /\ lease[s].inFlight = 0 /\ ~(lease[s].inFlight = 1)
  BY <1>2 DEF GrantsOK, LeasesOK
<1>4. /\ lease' \in [Sessions -> Lease]
      /\ lease'[s].inFlight = 1
      /\ \A t \in Sessions : t # s => lease'[t] = lease[t]
  <2>1. lease[s].inFlight + 1 = 1 /\ 1 \in Nat /\ lease \in [Sessions -> Lease]
    BY <1>3 DEF TypeOK
  <2> QED
    BY <2>1 DEF Lease
<1>5. LeasesOK(lease', activeSession, st, tg)
  BY <1>1, <1>2, <1>4 DEF GrantsOK, LeasesOK
<1>6. \A d \in Calls : st[d] # "idle" => tg[d] \in Sessions /\ phase[tg[d]] = "holding"
  BY <1>1 DEF GrantsOK
<1> QED
  BY <1>4, <1>5, <1>6 DEF GrantsOK

\* A call that is refused leaves no trace but what its refusal expires.
LEMMA CallRefused ==
  ASSUME Inv, NEW c \in Calls, NEW s \in Sessions, stage[c] # "body",
         NEW st, NEW tg,
         st = [stage EXCEPT ![c] = "idle"], tg = [target EXCEPT ![c] = NoLease],
         Expire(s, phase, lease)
  PROVE  /\ GrantsOK(waiters', phase', lease', activeSession', singleActive', st, tg)
         /\ ServedOK(phase', activeSession', singleActive')
<1> USE DEF Inv
<1>1. /\ st[c] = "idle"
      /\ \A d \in Calls : d # c => st[d] = stage[d] /\ tg[d] = target[d]
  BY DEF TypeOK
<1>2. LeasesOK(lease, activeSession, st, tg)
  BY <1>1 DEF GrantsOK, LeasesOK
<1>3. GrantsOK(waiters, phase, lease, activeSession, singleActive, st, tg)
  BY <1>1, <1>2 DEF GrantsOK
<1> QED
  BY <1>3, ExpireKeeps

\* Calls under a session.
LEMMA CallStep ==
  ASSUME Inv, NEW c \in Calls,
         (\E s \in Sessions : CallStart(c, s)) \/ CallTurn(c) \/ CallFinish(c)
  PROVE  Inv'
<1> USE DEF Inv
<1> DEFINE out == [stage EXCEPT ![c] = "idle"]
           nowhere == [target EXCEPT ![c] = NoLease]
<1>0. /\ out \in [Calls -> Stages] /\ nowhere \in [Calls -> Sessions \cup {NoLease}]
      /\ server' = server => server' \in {"open", "closing", "closed"}
  BY DEF TypeOK, Stages
<1>1. ASSUME NEW s \in Sessions, CallStart(c, s)
      PROVE  Inv'
  <2> DEFINE tg == [target EXCEPT ![c] = s]
             lk == [callLock EXCEPT ![s] = Append(callLock[s], c)]
  <2>1. stage[c] = "idle" /\ phase[s] = "holding" /\ activeSession = s /\ server' = server
    BY <1>1 DEF CallStart
  <2>2. /\ tg \in [Calls -> Sessions \cup {NoLease}]
        /\ lk \in [Sessions -> Seq(Calls)]
        /\ [stage EXCEPT ![c] = "queued"] \in [Calls -> Stages]
        /\ [stage EXCEPT ![c] = "body"] \in [Calls -> Stages]
    BY AppendProperties DEF TypeOK, Stages
  <2>3. CASE callLock[s] = <<>>
    <3>1. EnterOrReject(c, s, <<c>>)
      BY <1>1, <2>3 DEF CallStart
    <3>2. Append(callLock[s], c) = <<c>> /\ Tail(<<c>>) = <<>>
      BY <2>3
    <3>3. \A d \in Calls : stage[d] = "body" => target[d] # s
      BY <2>3 DEF LocksOK
    <3>4. CASE activeSession = s /\ ~Overdue(lease[s])
      <4>1. /\ lease' = [lease EXCEPT ![s].inFlight = @ + 1]
            /\ stage' = [stage EXCEPT ![c] = "body"] /\ target' = tg /\ callLock' = lk
            /\ UNCHANGED <<waiters, phase, activeSession, singleActive>>
        BY <3>1, <3>2, <3>4 DEF EnterOrReject
      <4>2. /\ GrantsOK(waiters', phase', lease', activeSession', singleActive', stage', target')
            /\ ServedOK(phase', activeSession', singleActive')
        BY <2>1, <3>3, <4>1, CallEnters
      <4>3. LocksOK(stage', target', callLock')
        BY <2>1, <2>3, <4>1, LocksAppend
      <4> QED
        BY <1>0, <2>1, <2>2, <4>1, <4>2, <4>3, InvRebuild
    <3>5. CASE ~(activeSession = s /\ ~Overdue(lease[s]))
      <4>1. /\ Expire(s, phase, lease)
            /\ stage' = out /\ target' = nowhere
            /\ callLock' = [callLock EXCEPT ![s] = <<>>]
        BY <3>1, <3>2, <3>5 DEF EnterOrReject
      <4>2. callLock' = callLock
        BY <2>3, <4>1 DEF TypeOK
      <4>3. /\ GrantsOK(waiters', phase', lease', activeSession', singleActive', stage', target')
            /\ ServedOK(phase', activeSession', singleActive')
        BY <2>1, <4>1, CallRefused
      <4>4. /\ out = stage
            /\ \A d \in Calls : d # c => nowhere[d] = target[d]
        BY <2>1 DEF TypeOK
      <4>5. \A t \in Sessions : \A i \in 1 .. Len(callLock[t]) :
              callLock[t][i] \in Calls /\ callLock[t][i] # c
        BY <2>1, ElementOfSeq DEF TypeOK, LocksOK
      <4>6. LocksOK(stage', target', callLock')
        BY <2>1, <4>1, <4>2, <4>4, <4>5 DEF LocksOK
      <4> QED
        BY <1>0, <2>1, <4>1, <4>2, <4>3, <4>6, InvRebuild DEF TypeOK
    <3> QED
      BY <3>4, <3>5
  <2>4. CASE callLock[s] # <<>>
    <3>1. /\ stage' = [stage EXCEPT ![c] = "queued"] /\ target' = tg /\ callLock' = lk
          /\ UNCHANGED <<waiters, phase, activeSession, singleActive, lease>>
      BY <1>1, <2>4 DEF CallStart, grantVars
    <3>2. LocksOK(stage', target', callLock')
      BY <2>1, <3>1, LocksAppend
    <3>3. /\ stage'[c] = "queued" /\ target'[c] = s
          /\ \A d \in Calls : d # c => stage'[d] = stage[d] /\ target'[d] = target[d]
      BY <3>1 DEF TypeOK
    <3>4. LeasesOK(lease, activeSession, stage', target')
      BY <2>1, <3>3 DEF GrantsOK, LeasesOK
    <3>5. GrantsOK(waiters', phase', lease', activeSession', singleActive', stage', target')
      BY <2>1, <3>1, <3>3, <3>4 DEF GrantsOK
    <3> QED
      BY <1>0, <2>1, <2>2, <3>1, <3>2, <3>5, InvRebuild
  <2> QED
    BY <2>3, <2>4
<1> DEFINE s == target[c]
           q == callLock[s]
           rest == [callLock EXCEPT ![s] = Tail(q)]
<1>2. ASSUME stage[c] # "idle"
      PROVE  /\ s \in Sessions /\ phase[s] = "holding"
             /\ q \in Seq(Calls) /\ q # <<>> /\ Head(q) = q[1]
             /\ rest \in [Sessions -> Seq(Calls)]
  <2>1. s \in Sessions /\ phase[s] = "holding"
    BY <1>2 DEF GrantsOK
  <2>2. q \in Seq(Calls) /\ Len(q) \in Nat /\ \E i \in 1 .. Len(q) : q[i] = c
    BY <1>2, <2>1, LenProperties DEF LocksOK, TypeOK
  <2>3. q # <<>>
    BY <2>2
  <2>4. Head(q) = q[1] /\ Tail(q) \in Seq(Calls)
    BY <2>2, <2>3, HeadTailProperties
  <2> QED
    BY <2>1, <2>2, <2>3, <2>4 DEF TypeOK
<1>3. ASSUME stage[c] # "idle", q[1] = c
      PROVE  LocksOK(out, nowhere, rest)
  BY <1>3, LocksTail
<1>4. CASE CallTurn(c)
  <2>1. /\ stage[c] = "queued" /\ Head(q) = c /\ server' = server
        /\ EnterOrReject(c, s, q)
    BY <1>4 DEF CallTurn
  <2>2. /\ s \in Sessions /\ phase[s] = "holding" /\ q[1] = c
        /\ rest \in [Sessions -> Seq(Calls)]
    BY <1>2, <2>1
  <2>3. CASE activeSession = s /\ ~Overdue(lease[s])
    <3>1. /\ lease' = [lease EXCEPT ![s].inFlight = @ + 1]
          /\ stage' = [stage EXCEPT ![c] = "body"]
          /\ target' = [target EXCEPT ![c] = s]
          /\ callLock' = [callLock EXCEPT ![s] = q]
          /\ UNCHANGED <<waiters, phase, activeSession, singleActive>>
      BY <2>1, <2>3 DEF EnterOrReject
    <3>2. \A d \in Calls : stage[d] = "body" => target[d] # s
      BY <2>1, <2>2 DEF LocksOK
    <3>3. /\ GrantsOK(waiters', phase', lease', activeSession', singleActive', stage', target')
          /\ ServedOK(phase', activeSession', singleActive')
      BY <2>2, <2>3, <3>1, <3>2, CallEnters
    <3>4. /\ target' = target /\ callLock' = callLock
          /\ stage' \in [Calls -> Stages]
          /\ stage'[c] = "body"
          /\ \A d \in Calls : d # c => stage'[d] = stage[d]
      BY <3>1 DEF TypeOK, Stages
    <3>5. \A t \in Sessions : \A i \in 1 .. Len(callLock[t]) : callLock[t][i] \in Calls
      BY ElementOfSeq DEF TypeOK
    <3>6. \A d \in Calls : stage'[d] # "idle" <=> stage[d] # "idle"
      BY <2>1, <3>4
    <3>7. \A d \in Calls : stage'[d] = "body" => callLock[target[d]][1] = d
      BY <2>2, <3>4 DEF LocksOK
    <3>8. LocksOK(stage', target', callLock')
      BY <3>4, <3>5, <3>6, <3>7 DEF LocksOK
    <3> QED
      BY <1>0, <2>1, <3>3, <3>4, <3>8, InvRebuild DEF TypeOK
  <2>4. CASE ~(activeSession = s /\ ~Overdue(lease[s]))
    <3>1. /\ Expire(s, phase, lease)
          /\ stage' = out /\ target' = nowhere /\ callLock' = rest
      BY <2>1, <2>4 DEF EnterOrReject
    <3>2. /\ GrantsOK(waiters', phase', lease', activeSession', singleActive', stage', target')
          /\ ServedOK(phase', activeSession', singleActive')
      BY <2>1, <2>2, <3>1, CallRefused
    <3>3. LocksOK(stage', target', callLock')
      BY <1>3, <2>1, <2>2, <3>1
    <3> QED
      BY <1>0, <2>1, <2>2, <3>1, <3>2, <3>3, InvRebuild
  <2> QED
    BY <2>3, <2>4
<1>5. CASE CallFinish(c)
  <2> DEFINE landed == [lease EXCEPT ![s].inFlight = @ - 1]
  <2>1. /\ stage[c] = "body" /\ server' = server
        /\ stage' = out /\ target' = nowhere /\ callLock' = rest
        /\ IF lease[s].releasePending \/ Overdue(lease[s])
           THEN Expire(s, phase, landed)
           ELSE lease' = landed /\ UNCHANGED <<waiters, phase, activeSession, singleActive>>
    BY <1>5 DEF CallFinish
  <2>2. /\ s \in Sessions /\ phase[s] = "holding"
        /\ rest \in [Sessions -> Seq(Calls)]
        /\ q[1] = c /\ activeSession = s /\ lease[s].inFlight = 1
    BY <1>2, <2>1 DEF LocksOK, GrantsOK, LeasesOK
  <2>3. LocksOK(stage', target', callLock')
    BY <1>3, <2>1, <2>2
  <2>4. /\ out[c] = "idle"
        /\ \A d \in Calls : d # c => out[d] = stage[d] /\ nowhere[d] = target[d]
    BY DEF TypeOK
  <2>5. \A d \in Calls : out[d] # "body"
    BY <2>2, <2>4 DEF GrantsOK, LeasesOK, LocksOK
  <2>6. lease[s] \in Lease /\ lease[s].inFlight - 1 = 0
    BY <2>2 DEF TypeOK
  <2>7. /\ landed \in [Sessions -> Lease]
        /\ landed[s].inFlight = 0
        /\ landed[s].releasePending = lease[s].releasePending
        /\ \A t \in Sessions : t # s => landed[t] = lease[t]
    <3>1. lease \in [Sessions -> Lease] /\ 0 \in Nat
      BY DEF TypeOK
    <3>2. landed = [lease EXCEPT ![s].inFlight = 0]
      BY <2>6
    <3> QED
      BY <2>2, <2>6, <3>1, <3>2 DEF Lease
  <2>8. \A t \in Sessions : landed[t].inFlight = 0
    <3> SUFFICES ASSUME NEW t \in Sessions, t # s
                 PROVE  landed[t].inFlight = 0
      BY <2>7
    <3>1. ~ \E d \in Calls : stage[d] = "body" /\ target[d] = t
      BY <2>2 DEF GrantsOK, LeasesOK
    <3> QED
      BY <2>7, <3>1 DEF GrantsOK, LeasesOK
  <2>9. \A d \in Calls : out[d] # "idle" => nowhere[d] \in Sessions /\ phase[nowhere[d]] = "holding"
    BY <2>4 DEF GrantsOK
  <2> HIDE DEF landed, out, nowhere, rest
  <2>10. CASE lease[s].releasePending \/ Overdue(lease[s])
    <3>1. LeasesOK(landed, NoLease, out, nowhere)
      BY <2>5, <2>8, NoLeaseFresh DEF LeasesOK
    <3>2. OwnerOK(phase, NoLease, singleActive)
      BY DEF GrantsOK, OwnerOK
    <3>3. GrantsOK(waiters, phase, landed, NoLease, singleActive, out, nowhere)
      BY <2>7, <2>9, <3>1, <3>2 DEF GrantsOK
    <3>4. /\ GrantsOK(waiters', phase', lease', activeSession', singleActive', stage', target')
          /\ ServedOK(phase', activeSession', singleActive')
      BY <2>1, <2>2, <2>7, <2>10, <3>3, ExpireEnds
    <3> QED
      BY <1>0, <2>1, <2>2, <2>3, <3>4, InvRebuild
  <2>11. CASE ~(lease[s].releasePending \/ Overdue(lease[s]))
    <3>1. LeasesOK(landed, activeSession, out, nowhere)
      BY <2>2, <2>5, <2>7, <2>8, <2>11 DEF LeasesOK
    <3>2. GrantsOK(waiters', phase', lease', activeSession', singleActive', stage', target')
      BY <2>1, <2>7, <2>9, <2>11, <3>1 DEF GrantsOK
    <3>3. ServedOK(phase', activeSession', singleActive')
      BY <2>1, <2>11
    <3> QED
      BY <1>0, <2>1, <2>2, <2>3, <3>2, <3>3, InvRebuild
  <2> QED
    BY <2>10, <2>11
<1> QED
  BY <1>1, <1>4, <1>5

-----------------------------------------------------------------------------
(* The theorems *)

\* Every step of the specification preserves the invariant.
LEMMA InvNext == Inv /\ [Next]_vars => Inv'
<1> SUFFICES ASSUME Inv, [Next]_vars
             PROVE  Inv'
  OBVIOUS
<1>1. CASE ClientStep
  <2>1. ASSUME NEW r \in Requests, Enqueue(r) \/ GiveUp(r)
        PROVE  Inv'
    BY <2>1, RequestStep
  <2>2. ASSUME NEW s \in Sessions, Heartbeat(s) \/ Release(s)
        PROVE  Inv'
    BY <2>2, LeaseStep
  <2>3. ASSUME NEW c \in Calls, NEW s \in Sessions, CallStart(c, s)
        PROVE  Inv'
    BY <2>3, CallStep
  <2> QED
    BY <1>1, <2>1, <2>2, <2>3 DEF ClientStep
<1>2. CASE ServerStep
  <2>1. ASSUME NEW r \in Requests, Resume(r) \/ CancelWaiter(r) \/ Fail(r)
        PROVE  Inv'
    BY <2>1, RequestStep
  <2>2. ASSUME NEW r \in Singles, FinishSingle(r)
        PROVE  Inv'
    BY <2>2, SingleStep
  <2>3. ASSUME NEW c \in Calls, CallTurn(c) \/ CallFinish(c)
        PROVE  Inv'
    BY <2>3, CallStep
  <2>4. ASSUME Reap
        PROVE  Inv'
    <3>1. activeSession \in Sessions
      BY <2>4 DEF Reap, Inv, TypeOK
    <3> QED
      BY <2>4, <3>1, LeaseStep
  <2> QED
    BY <1>2, <2>1, <2>2, <2>3, <2>4 DEF ServerStep
<1>3. CASE Tick
  BY <1>3, TickStep
<1>4. CASE BeginClose \/ EndClose
  BY <1>4, CloseStep
<1>5. CASE UNCHANGED vars
  <2>1. UNCHANGED <<waiters, phase, lease, activeSession, singleActive, server,
                    stage, target, callLock>>
    BY <1>5 DEF vars, grantVars, callVars
  <2> QED
    BY <2>1 DEF Inv, TypeOK
<1> QED
  BY <1>1, <1>2, <1>3, <1>4, <1>5 DEF Next

\* The invariant always holds.
THEOREM InvAlways == Spec => []Inv
<1> QED
  BY InvInit, InvNext, PTL DEF Spec

\* The coordinator's state is well typed, whatever its callers do.
THEOREM TypeCorrect == Spec => []TypeOK
<1>1. Inv => TypeOK
  BY DEF Inv
<1> QED
  BY <1>1, InvAlways, PTL

\* Two browser operations are never executed at the same time, over any number
\* of single calls, sessions and calls under sessions.
THEOREM MutualExclusion == Spec => []OneOperation
<1>1. Inv => OneOperation
  <2> SUFFICES ASSUME Inv
               PROVE  OneOperation
    OBVIOUS
  <2>1. \A q, r \in Singles : Running(q) /\ Running(r) => q = r
    BY DEF Inv, GrantsOK, OwnerOK, OwnerPhases, Running
  <2>2. \A c, d \in Calls : InBody(c) /\ InBody(d) => c = d
    BY DEF Inv, GrantsOK, LeasesOK, LocksOK, InBody
  <2>3. \A r \in Singles, c \in Calls : ~(Running(r) /\ InBody(c))
    <3> SUFFICES ASSUME NEW r \in Singles, NEW c \in Calls, Running(r), InBody(c)
                 PROVE  FALSE
      OBVIOUS
    <3>1. singleActive
      BY DEF Inv, GrantsOK, OwnerOK, OwnerPhases, Running
    <3>2. activeSession = target[c] /\ target[c] \in Sessions
      BY DEF Inv, GrantsOK, LeasesOK, InBody
    <3> QED
      BY <3>1, <3>2, NoLeaseFresh DEF Inv, GrantsOK, OwnerOK
  <2> QED
    BY <2>1, <2>2, <2>3 DEF OneOperation
<1> QED
  BY <1>1, InvAlways, PTL

\* A grant always has exactly one owner that will give it back: no interleaving
\* of grants, timeouts, cancellations and releases leaks the browser.
THEOREM GrantNeverLeaks == Spec => []GrantOwned
<1>1. Inv => GrantOwned
  BY DEF Inv, GrantsOK, OwnerOK, OwnerPhases, GrantOwned, Granted
<1> QED
  BY <1>1, InvAlways, PTL

\* A call in flight keeps the lease it was made under.
THEOREM CallsKeepTheirLease == Spec => []CallUnderLease
<1>1. Inv => CallUnderLease
  BY DEF Inv, GrantsOK, LeasesOK, CallUnderLease, InBody
<1> QED
  BY <1>1, InvAlways, PTL

\* A free browser is never withheld from a request that waits for it.
THEOREM FreeBrowserServesWaiters == Spec => []NoIdleBrowser
<1>1. Inv => NoIdleBrowser
  BY DEF Inv, TypeOK, ServedOK, NoIdleBrowser, Busy
<1> QED
  BY <1>1, InvAlways, PTL

-----------------------------------------------------------------------------
(* What no step does *)

\* _grant_next_locked hands a lease to a waiting session only.
LEMMA GrantNextSpares ==
  ASSUME NEW q \in Seq(Requests), NEW ph, NEW ls, NEW act, NEW single,
         NEW s \in Sessions, ph[s] # "waiting", act # s,
         GrantNext(q, ph, ls, act, single)
  PROVE  activeSession' # s
<1>1. s # NoLease
  BY NoLeaseFresh
<1> QED
  BY <1>1 DEF GrantNext

\* Neither does _expire_session_locked.
LEMMA ExpireSpares ==
  ASSUME waiters \in Seq(Requests), NEW t \in Sessions, NEW ph, NEW ls,
         NEW s \in Sessions, ph[s] # "waiting", activeSession # s,
         Expire(t, ph, ls)
  PROVE  activeSession' # s
<1>1. s # NoLease
  BY NoLeaseFresh
<1> QED
  BY <1>1, GrantNextSpares DEF Expire

\* A lease that has ended never becomes active again.
THEOREM EndedLeasesStayEnded == Spec => SessionEndsForGood
<1>1. ASSUME Inv, [Next]_vars, NEW s \in Sessions,
             phase[s] \notin {"idle", "waiting"}, activeSession # s
      PROVE  activeSession' # s
  <2>0. /\ waiters \in Seq(Requests) /\ phase \in [Requests -> Phases]
        /\ activeSession \in Sessions \cup {NoLease}
        /\ s \in Requests
        /\ phase[s] # "waiting"
    BY <1>1 DEF Inv, TypeOK, Requests
  <2>1. CASE activeSession' = activeSession
    BY <1>1, <2>1
  <2>2. ASSUME NEW r \in Requests, NEW x, r # s \/ x # "waiting"
        PROVE  [phase EXCEPT ![r] = x][s] # "waiting"
    BY <2>0, <2>2
  <2>3. \A r \in Requests : Ended(r) # "waiting"
    BY DEF Ended
  <2>4. ASSUME NEW r \in Requests, Enqueue(r)
        PROVE  activeSession' # s
    <3>1. /\ r # s
          /\ Append(waiters, r) \in Seq(Requests)
          /\ GrantNext(Append(waiters, r), [phase EXCEPT ![r] = "waiting"], lease,
                       activeSession, singleActive)
      BY <1>1, <2>0, <2>4, AppendProperties DEF Enqueue
    <3>2. [phase EXCEPT ![r] = "waiting"][s] # "waiting"
      BY <2>2, <3>1
    <3> QED
      BY <1>1, <3>1, <3>2, GrantNextSpares
  <2>5. ASSUME NEW r \in Requests, CancelWaiter(r)
        PROVE  activeSession' # s
    <3> DEFINE ended == [phase EXCEPT ![r] = Ended(r)]
    <3>1. ended[s] # "waiting"
      BY <2>2, <2>3
    <3> HIDE DEF ended
    <3>2. ASSUME NEW i \in DOMAIN waiters,
                 GrantNext(RemoveAt(waiters, i), ended, lease, activeSession, singleActive)
          PROVE  activeSession' # s
      <4>1. i \in 1 .. Len(waiters)
        BY <2>0, LenProperties
      <4>2. RemoveAt(waiters, i) \in Seq(Requests)
        BY <2>0, <4>1, RemoveAtProperties
      <4> QED
        BY <1>1, <3>1, <3>2, <4>2, GrantNextSpares
    <3>3. CASE GrantNext(waiters, ended, lease, activeSession, singleActive)
      BY <1>1, <2>0, <3>1, <3>3, GrantNextSpares
    <3>4. CASE GrantNext(waiters, ended, lease, activeSession, FALSE)
      BY <1>1, <2>0, <3>1, <3>4, GrantNextSpares
    <3>5. CASE r \in Sessions /\ Expire(r, ended, lease)
      BY <1>1, <2>0, <3>1, <3>5, ExpireSpares
    <3>6. r \in Singles \/ r \in Sessions
      BY DEF Requests
    <3>7. CASE Expire(r, ended, lease) /\ activeSession = r
      <4>1. r \in Sessions
        BY <2>0, <3>6, <3>7, NoLeaseFresh
      <4> QED
        BY <3>5, <3>7, <4>1
    <3> QED
      BY <2>5, <3>2, <3>3, <3>4, <3>7 DEF CancelWaiter, ended
  <2>6. ASSUME NEW r \in Singles, FinishSingle(r)
        PROVE  activeSession' # s
    <3>1. r \in Requests /\ GrantNext(waiters, [phase EXCEPT ![r] = Ended(r)], lease, activeSession, FALSE)
      BY <2>6 DEF FinishSingle, Requests
    <3>2. [phase EXCEPT ![r] = Ended(r)][s] # "waiting"
      BY <2>2, <2>3, <3>1
    <3> QED
      BY <1>1, <2>0, <3>1, <3>2, GrantNextSpares
  <2>7. ASSUME NEW t \in Sessions, NEW ls, Expire(t, phase, ls)
        PROVE  activeSession' # s
    BY <1>1, <2>0, <2>7, ExpireSpares
  <2>8. ASSUME NEW t \in Sessions, Heartbeat(t) \/ Release(t)
        PROVE  activeSession' # s
    BY <2>1, <2>7, <2>8 DEF Heartbeat, Release
  <2>9. ASSUME NEW c \in Calls, NEW t \in Sessions, CallStart(c, t)
        PROVE  activeSession' # s
    BY <2>1, <2>7, <2>9 DEF CallStart, EnterOrReject, grantVars
  <2>10. ASSUME NEW c \in Calls, CallTurn(c) \/ CallFinish(c)
         PROVE  activeSession' # s
    <3>1. target[c] \in Sessions
      BY <1>1, <2>10 DEF CallTurn, CallFinish, Inv, LocksOK
    <3>2. CASE CallTurn(c)
      BY <2>1, <2>7, <3>1, <3>2 DEF CallTurn, EnterOrReject
    <3>3. CASE CallFinish(c)
      BY <2>1, <2>7, <3>1, <3>3 DEF CallFinish
    <3> QED
      BY <2>10, <3>2, <3>3
  <2>11. ASSUME Reap
         PROVE  activeSession' # s
    <3>1. activeSession \in Sessions /\ Expire(activeSession, phase, lease)
      BY <2>0, <2>11 DEF Reap
    <3> QED
      BY <2>7, <3>1
  <2>12. ASSUME NEW r \in Requests, GiveUp(r) \/ Resume(r) \/ Fail(r)
         PROVE  activeSession' # s
    BY <2>1, <2>12 DEF GiveUp, Resume, Fail
  <2>13. CASE Tick \/ BeginClose \/ EndClose \/ UNCHANGED vars
    BY <2>1, <2>13 DEF Tick, BeginClose, EndClose, vars, grantVars
  <2> QED
    BY <1>1, <2>4, <2>5, <2>6, <2>8, <2>9, <2>10, <2>11, <2>12, <2>13
       DEF Next, ClientStep, ServerStep
<1>2. Inv /\ [Next]_vars =>
        [\A s \in Sessions : phase[s] \notin {"idle", "waiting"} /\ activeSession # s
                               => activeSession' # s]_vars
  BY <1>1
<1> QED
  BY <1>2, InvAlways, PTL DEF Spec, SessionEndsForGood

\* No call starts under a lease that was released or reaped behind the call
\* that was then in flight.
THEOREM ReleasedLeasesTakeNoCall == Spec => NoCallAfterRelease
<1>1. ASSUME Inv, [Next]_vars, NEW c \in Calls, ~InBody(c), InBody(c)'
      PROVE  ~lease[target'[c]].releasePending
  <2>1. stage \in [Calls -> Stages] /\ stage[c] # "body" /\ stage'[c] = "body"
    BY <1>1 DEF Inv, TypeOK, InBody, Stages
  <2>2. ASSUME NEW s \in Sessions, activeSession = s, target'[c] = s,
               \A d \in Calls : stage[d] = "body" => target[d] # s
        PROVE  ~lease[target'[c]].releasePending
    BY <1>1, <2>2 DEF Inv, GrantsOK, LeasesOK
  <2>3. PICK d \in Calls : (\E s \in Sessions : CallStart(d, s)) \/ CallTurn(d) \/ CallFinish(d)
    <3>1. stage' # stage
      BY <2>1
    <3> QED
      BY <1>1, <3>1 DEF Next, ClientStep, ServerStep, Enqueue, GiveUp, Heartbeat, Release,
         Resume, CancelWaiter, Fail, FinishSingle, Reap, Tick, BeginClose, EndClose,
         vars, callVars
  <2>4. CASE \E s \in Sessions : CallStart(d, s)
    <3>1. PICK s \in Sessions : CallStart(d, s)
      BY <2>4
    <3>2. callLock[s] = <<>> /\ activeSession = s /\ d = c /\ target' = [target EXCEPT ![c] = s]
      BY <2>1, <3>1 DEF CallStart, EnterOrReject
    <3>3. target'[c] = s
      BY <1>1, <3>2 DEF Inv, TypeOK
    <3>4. \A e \in Calls : stage[e] = "body" => target[e] # s
      BY <1>1, <3>2 DEF Inv, LocksOK
    <3> QED
      BY <2>2, <3>2, <3>3, <3>4
  <2>5. CASE CallTurn(d)
    <3>1. /\ d = c /\ activeSession = target[c] /\ stage[c] = "queued"
          /\ Head(callLock[target[c]]) = c
          /\ target' = [target EXCEPT ![c] = target[c]]
      BY <2>1, <2>5 DEF CallTurn, EnterOrReject
    <3>2. target[c] \in Sessions /\ target'[c] = target[c]
      BY <1>1, <3>1 DEF Inv, LocksOK, TypeOK
    <3>3. /\ callLock[target[c]] \in Seq(Calls)
          /\ \E i \in 1 .. Len(callLock[target[c]]) : callLock[target[c]][i] = c
          /\ Len(callLock[target[c]]) \in Nat
      BY <1>1, <3>1, <3>2, LenProperties DEF Inv, LocksOK, TypeOK
    <3>4. callLock[target[c]] # <<>>
      BY <3>3
    <3>5. callLock[target[c]][1] = c
      BY <3>1, <3>3, <3>4, HeadTailProperties
    <3>6. \A e \in Calls : stage[e] = "body" => target[e] # target[c]
      BY <1>1, <2>1, <3>5 DEF Inv, LocksOK
    <3> QED
      BY <2>2, <3>1, <3>2, <3>6
  <2>6. CASE CallFinish(d)
    BY <2>1, <2>6 DEF CallFinish
  <2> QED
    BY <2>3, <2>4, <2>5, <2>6
<1>2. Inv /\ [Next]_vars =>
        [\A c \in Calls : ~InBody(c) /\ InBody(c)'
                            => ~lease[target'[c]].releasePending]_vars
  BY <1>1
<1> QED
  BY <1>2, InvAlways, PTL DEF Spec, NoCallAfterRelease

-----------------------------------------------------------------------------
(* The coordinator implements ExclusiveBrowser.  The invariant makes the      *)
(* mapping of the states exact: the holder is the owner of the grant          *)
(* (OwnerOK), and the requests that wait stand in the deque once each          *)
(* (QueueOK).  Each step that ends in _grant_next_locked passes the browser on  *)
(* or finds it busy; every other one leaves the line or lets nothing be seen.  *)

\* Waiting and Before of a deque and phases that a section has just assigned.
Pending(ph) == {r \in Requests : ph[r] = "waiting"}
InOrder(q, a, b) == \E i, j \in 1 .. Len(q) : i < j /\ q[i] = a /\ q[j] = b
Order(q, ph) == {e \in Pending(ph) \X Pending(ph) : InOrder(q, e[1], e[2])}

LEMMA OrderPair ==
  ASSUME NEW q, NEW ph, NEW a, NEW b
  PROVE  <<a, b>> \in Order(q, ph) <=> a \in Pending(ph) /\ b \in Pending(ph) /\ InOrder(q, a, b)
  BY DEF Order

\* Two orders are one if they hold the same pairs.
LEMMA SameOrder ==
  ASSUME NEW a, NEW b,
         \A e \in a : \E x, y : e = <<x, y>>,
         \A e \in b : \E x, y : e = <<x, y>>,
         \A x, y : <<x, y>> \in a <=> <<x, y>> \in b
  PROVE  a = b
<1>1. ASSUME NEW e \in a
      PROVE  e \in b
  OBVIOUS
<1>2. ASSUME NEW e \in b
      PROVE  e \in a
  OBVIOUS
<1> QED
  BY <1>1, <1>2

LEMMA OrderPairs ==
  ASSUME NEW q, NEW ph
  PROVE  \A e \in Order(q, ph) : \E x, y : e = <<x, y>>
  BY DEF Order

\* A request that joins the deque stands behind everybody.
LEMMA OrderAppend ==
  ASSUME NEW q, NEW ph, QueueOK(q, ph), Len(q) \in Nat,
         NEW r, \A i \in 1 .. Len(q) : q[i] # r,
         NEW a, Len(a) = Len(q) + 1, a[Len(q) + 1] = r,
         \A i \in 1 .. Len(q) : a[i] = q[i],
         NEW f, Pending(f) = Pending(ph) \cup {r}
  PROVE  \A x, y : <<x, y>> \in Order(a, f) <=>
              <<x, y>> \in Order(q, ph) \/ (x \in Pending(ph) /\ y = r)
<1>1. /\ Len(q) \in Nat /\ Len(a) = Len(q) + 1
      /\ \A i \in 1 .. Len(q) : a[i] = q[i]
      /\ a[Len(q) + 1] = r
  OBVIOUS
<1>2. Pending(f) = Pending(ph) \cup {r}
  OBVIOUS
<1>3. \A i \in 1 .. Len(q) : q[i] # r
  OBVIOUS
<1>4. ASSUME NEW x, NEW y
      PROVE  <<x, y>> \in Order(a, f) <=>
               <<x, y>> \in Order(q, ph) \/ (x \in Pending(ph) /\ y = r)
  <2>1. ASSUME <<x, y>> \in Order(a, f)
        PROVE  <<x, y>> \in Order(q, ph) \/ (x \in Pending(ph) /\ y = r)
    <3>1. x \in Pending(f) /\ y \in Pending(f) /\ InOrder(a, x, y)
      BY <2>1, OrderPair
    <3>2. PICK i \in 1 .. Len(a), j \in 1 .. Len(a) : i < j /\ a[i] = x /\ a[j] = y
      BY <3>1 DEF InOrder
    <3>3. i \in 1 .. Len(q) /\ q[i] = x /\ x # r
      BY <1>1, <1>3, <3>2
    <3>4. x \in Pending(ph)
      BY <1>2, <3>1, <3>3
    <3>5. CASE j = Len(q) + 1
      BY <1>1, <3>2, <3>4, <3>5
    <3>6. CASE j \in 1 .. Len(q)
      <4>1. q[j] = y /\ y # r
        BY <1>1, <1>3, <3>2, <3>6
      <4>2. y \in Pending(ph)
        BY <1>2, <3>1, <4>1
      <4>3. InOrder(q, x, y)
        BY <3>2, <3>3, <3>6, <4>1 DEF InOrder
      <4> QED
        BY <3>4, <4>2, <4>3, OrderPair
    <3> QED
      BY <1>1, <3>2, <3>5, <3>6
  <2>2. ASSUME <<x, y>> \in Order(q, ph)
        PROVE  <<x, y>> \in Order(a, f)
    <3>1. x \in Pending(ph) /\ y \in Pending(ph) /\ InOrder(q, x, y)
      BY <2>2, OrderPair
    <3>2. InOrder(a, x, y)
      <4>1. PICK i \in 1 .. Len(q), j \in 1 .. Len(q) : i < j /\ q[i] = x /\ q[j] = y
        BY <3>1 DEF InOrder
      <4>2. i \in 1 .. Len(a) /\ j \in 1 .. Len(a) /\ a[i] = x /\ a[j] = y
        BY <1>1, <4>1
      <4> QED
        BY <4>1, <4>2 DEF InOrder
    <3> QED
      BY <1>2, <3>1, <3>2, OrderPair
  <2>3. ASSUME x \in Pending(ph), y = r
        PROVE  <<x, y>> \in Order(a, f)
    <3>1. PICK i \in 1 .. Len(q) : q[i] = x
      BY <2>3 DEF QueueOK, Pending
    <3>2. i \in 1 .. Len(a) /\ Len(q) + 1 \in 1 .. Len(a) /\ i < Len(q) + 1
          /\ a[i] = x /\ a[Len(q) + 1] = y
      BY <1>1, <2>3, <3>1
    <3>3. InOrder(a, x, y)
      BY <3>2 DEF InOrder
    <3> QED
      BY <1>2, <2>3, <3>3, OrderPair
  <2> QED
    BY <2>1, <2>2, <2>3
<1> QED
  BY <1>4

\* The others keep their order when one leaves the line where it stands.
LEMMA OrderAmong ==
  ASSUME NEW q, NEW ph, NEW f, Pending(f) \subseteq Pending(ph)
  PROVE  Order(q, f) = Exclusive!Among(Order(q, ph), Pending(f))
  BY DEF Order, Exclusive!Among

LEMMA OrderSame ==
  ASSUME NEW q, NEW ph, NEW f, Pending(f) = Pending(ph)
  PROVE  Order(q, f) = Order(q, ph)
  BY DEF Order

\* ... and when one that does not wait any more leaves the deque.
LEMMA OrderRemove ==
  ASSUME NEW q, NEW ph, QueueOK(q, ph), NEW i \in 1 .. Len(q), ph[q[i]] # "waiting",
         NEW f, Pending(f) = Pending(ph)
  PROVE  Order(RemoveAt(q, i), f) = Order(q, ph)
<1> DEFINE a == RemoveAt(q, i)
<1>0. Len(q) \in Nat /\ q \in Seq(Requests)
  BY LenProperties DEF QueueOK
<1>1. /\ Len(a) = Len(q) - 1
      /\ \A k \in 1 .. Len(q) - 1 : a[k] = IF k < i THEN q[k] ELSE q[k + 1]
  BY <1>0, RemoveAtProperties
<1>2. Pending(f) = Pending(ph)
  OBVIOUS
<1> HIDE DEF a
<1>3. ASSUME NEW u, NEW v, u \in Pending(ph), v \in Pending(ph)
      PROVE  InOrder(a, u, v) <=> InOrder(q, u, v)
  <2>1. ASSUME InOrder(a, u, v)
        PROVE  InOrder(q, u, v)
    <3>1. PICK k \in 1 .. Len(a), m \in 1 .. Len(a) : k < m /\ a[k] = u /\ a[m] = v
      BY <2>1 DEF InOrder
    <3>2. PICK k2 \in 1 .. Len(q) : q[k2] = u /\ k2 = IF k < i THEN k ELSE k + 1
      BY <1>0, <1>1, <3>1
    <3>3. PICK m2 \in 1 .. Len(q) : q[m2] = v /\ m2 = IF m < i THEN m ELSE m + 1
      BY <1>0, <1>1, <3>1
    <3>4. k2 < m2
      BY <1>0, <3>1, <3>2, <3>3
    <3> QED
      BY <3>2, <3>3, <3>4 DEF InOrder
  <2>2. ASSUME InOrder(q, u, v)
        PROVE  InOrder(a, u, v)
    <3>1. PICK k \in 1 .. Len(q), m \in 1 .. Len(q) : k < m /\ q[k] = u /\ q[m] = v
      BY <2>2 DEF InOrder
    <3>2. k # i /\ m # i
      BY <1>3, <3>1 DEF Pending
    <3>3. PICK k2 \in 1 .. Len(a) : a[k2] = u /\ k2 = IF k < i THEN k ELSE k - 1
      <4>1. CASE k < i
        BY <1>0, <1>1, <3>1, <4>1
      <4>2. CASE k > i
        <5>1. k - 1 \in 1 .. Len(q) - 1 /\ ~(k - 1 < i) /\ (k - 1) + 1 = k
          BY <1>0, <4>2
        <5>2. a[k - 1] = q[k]
          BY <1>1, <5>1
        <5> QED
          BY <1>1, <3>1, <4>2, <5>1, <5>2
      <4> QED
        BY <3>2, <4>1, <4>2
    <3>4. PICK m2 \in 1 .. Len(a) : a[m2] = v /\ m2 = IF m < i THEN m ELSE m - 1
      <4>1. CASE m < i
        BY <1>0, <1>1, <3>1, <4>1
      <4>2. CASE m > i
        <5>1. m - 1 \in 1 .. Len(q) - 1 /\ ~(m - 1 < i) /\ (m - 1) + 1 = m
          BY <1>0, <4>2
        <5>2. a[m - 1] = q[m]
          BY <1>1, <5>1
        <5> QED
          BY <1>1, <3>1, <4>2, <5>1, <5>2
      <4> QED
        BY <3>2, <4>1, <4>2
    <3>5. k2 < m2
      BY <1>0, <3>1, <3>2, <3>3, <3>4
    <3> QED
      BY <3>3, <3>4, <3>5 DEF InOrder
  <2> QED
    BY <2>1, <2>2
<1>4. \A u, v : <<u, v>> \in Order(a, f) <=> <<u, v>> \in Order(q, ph)
  BY <1>2, <1>3, OrderPair
<1>5. Order(a, f) = Order(q, ph)
  <2> DEFINE b == Order(q, ph)
             o == Order(a, f)
  <2>1. /\ \A e \in o : \E x, y : e = <<x, y>>
        /\ \A e \in b : \E x, y : e = <<x, y>>
        /\ \A x, y : <<x, y>> \in o <=> <<x, y>> \in b
    BY <1>4, OrderPairs
  <2> HIDE DEF b, o
  <2>2. o = b
    BY <2>1, SameOrder
  <2> QED
    BY <2>2 DEF b, o
<1> QED
  BY <1>5 DEF a

\* The oldest pending request is the first in the line, the others keep their order.
LEMMA OrderGrant ==
  ASSUME NEW q, NEW ph \in [Requests -> Phases], QueueOK(q, ph),
         NEW i \in 1 .. Len(q), ph[q[i]] = "waiting",
         \A j \in 1 .. Len(q) : ph[q[j]] = "waiting" => i <= j
  PROVE  /\ q[i] \in Pending(ph)
         /\ \A a \in Pending(ph) : <<a, q[i]>> \notin Order(q, ph)
         /\ Pending([ph EXCEPT ![q[i]] = "granted"]) = Pending(ph) \ {q[i]}
         /\ Order(SubSeq(q, i + 1, Len(q)), [ph EXCEPT ![q[i]] = "granted"])
              = Exclusive!Among(Order(q, ph), Pending(ph) \ {q[i]})
<1> DEFINE s == SubSeq(q, i + 1, Len(q))
           f == [ph EXCEPT ![q[i]] = "granted"]
<1>0. Len(q) \in Nat /\ q \in Seq(Requests)
  BY LenProperties DEF QueueOK
<1>1. /\ Len(s) = Len(q) - i
      /\ \A k \in 1 .. Len(q) - i : s[k] = q[i + k]
  BY <1>0, SubSeqProperties, SMTT(30)
<1>2. q[i] \in Pending(ph) /\ Pending(f) = Pending(ph) \ {q[i]}
  <2>1. q[i] \in Requests
    BY <1>0, ElementOfSeq
  <2> QED
    BY <2>1 DEF Pending
<1> HIDE DEF s, f
<1>3. ASSUME NEW a \in Pending(ph), InOrder(q, a, q[i])
      PROVE  FALSE
  <2>1. PICK k \in 1 .. Len(q), m \in 1 .. Len(q) : k < m /\ q[k] = a /\ q[m] = q[i]
    BY <1>3 DEF InOrder
  <2>2. m = i /\ i <= k
    BY <2>1 DEF QueueOK, Pending
  <2> QED
    BY <1>0, <2>1, <2>2
<1>4. ASSUME NEW u, NEW v, u \in Pending(f), v \in Pending(f)
      PROVE  InOrder(s, u, v) <=> InOrder(q, u, v)
  <2>1. ASSUME InOrder(s, u, v)
        PROVE  InOrder(q, u, v)
    <3>1. PICK k \in 1 .. Len(s), m \in 1 .. Len(s) : k < m /\ s[k] = u /\ s[m] = v
      BY <2>1 DEF InOrder
    <3>2. i + k \in 1 .. Len(q) /\ i + m \in 1 .. Len(q) /\ i + k < i + m
      BY <1>0, <1>1, <3>1
    <3>3. q[i + k] = u /\ q[i + m] = v
      BY <1>1, <3>1
    <3> QED
      BY <3>2, <3>3 DEF InOrder
  <2>2. ASSUME InOrder(q, u, v)
        PROVE  InOrder(s, u, v)
    <3>1. PICK k \in 1 .. Len(q), m \in 1 .. Len(q) : k < m /\ q[k] = u /\ q[m] = v
      BY <2>2 DEF InOrder
    <3>2. i <= k /\ k # i
      BY <1>2, <1>4, <3>1 DEF Pending
    <3>3. /\ k - i \in 1 .. Len(q) - i /\ m - i \in 1 .. Len(q) - i /\ k - i < m - i
          /\ i + (k - i) = k /\ i + (m - i) = m
      BY <1>0, <3>1, <3>2
    <3>4. s[k - i] = u /\ s[m - i] = v
      BY <1>1, <3>1, <3>3
    <3> QED
      BY <1>1, <3>3, <3>4 DEF InOrder
  <2> QED
    BY <2>1, <2>2
<1>5. \A u, v : <<u, v>> \in Order(s, f) <=> <<u, v>> \in Order(q, f)
  BY <1>4, OrderPair
<1>6. Order(s, f) = Order(q, f)
  <2> DEFINE b == Order(q, f)
             o == Order(s, f)
  <2>1. /\ \A e \in o : \E x, y : e = <<x, y>>
        /\ \A e \in b : \E x, y : e = <<x, y>>
        /\ \A x, y : <<x, y>> \in o <=> <<x, y>> \in b
    BY <1>5, OrderPairs
  <2> HIDE DEF b, o
  <2>2. o = b
    BY <2>1, SameOrder
  <2> QED
    BY <2>2 DEF b, o
<1>7. Order(q, f) = Exclusive!Among(Order(q, ph), Pending(ph) \ {q[i]})
  <2>1. Pending(f) \subseteq Pending(ph)
    BY <1>2
  <2> QED
    BY <1>2, <2>1, OrderAmong
<1> QED
  BY <1>2, <1>3, <1>6, <1>7, OrderPair DEF s, f


-----------------------------------------------------------------------------
(* The mapping of the states *)

\* The owner of the grant is the holder, and a free browser has none.
HolderFacts ==
  /\ activeSession # NoLease => Holder = activeSession
  /\ \A r \in Singles : Granted(r) => Holder = r
  /\ ~Busy => Holder = Nobody
  /\ Busy => Holder # Nobody

LEMMA HolderIs == Inv => HolderFacts
<1> SUFFICES ASSUME Inv
             PROVE  HolderFacts
  OBVIOUS
<1>1. OwnerOK(phase, activeSession, singleActive) /\ activeSession \in Sessions \cup {NoLease}
  BY DEF Inv, GrantsOK
<1>2. activeSession # NoLease => Holder = activeSession /\ Holder # Nobody
  BY <1>1, NobodyFresh DEF Holder
<1>3. ASSUME NEW r \in Singles, Granted(r)
      PROVE  Holder = r /\ Holder # Nobody
  <2>1. singleActive /\ activeSession = NoLease
    BY <1>1, <1>3 DEF OwnerOK, OwnerPhases, Granted
  <2>2. \A q \in Singles : Granted(q) => q = r
    BY <1>1, <1>3 DEF OwnerOK, OwnerPhases, Granted
  <2>3. Holder = CHOOSE q \in Singles : Granted(q)
    BY <2>1 DEF Holder
  <2> QED
    BY <1>3, <2>2, <2>3, NobodyFresh
<1>4. ~Busy => Holder = Nobody
  BY DEF Busy, Holder
<1>5. Busy => Holder # Nobody
  <2>1. singleActive => \E r \in Singles : Granted(r)
    BY <1>1 DEF OwnerOK, OwnerPhases, Granted
  <2> QED
    BY <1>2, <1>3, <2>1 DEF Busy
<1> QED
  BY <1>2, <1>3, <1>4, <1>5 DEF HolderFacts

LineFacts == Waiting = Pending(phase) /\ Before = Order(waiters, phase)

LEMMA LineIs == Inv => LineFacts
<1> SUFFICES ASSUME Inv
             PROVE  LineFacts
  OBVIOUS
<1>1. DOMAIN waiters = 1 .. Len(waiters)
  BY LenProperties DEF Inv, TypeOK
<1>2. Waiting = Pending(phase)
  BY DEF Waiting, Pending
<1> QED
  BY <1>1, <1>2 DEF LineFacts, Before, Ahead, Order, InOrder

\* The same before and after a step.
LEMMA Mapped ==
  ASSUME Inv, Inv'
  PROVE  HolderFacts /\ HolderFacts' /\ LineFacts /\ LineFacts'
<1>1. (Inv => HolderFacts)' /\ (Inv => LineFacts)'
  BY HolderIs, LineIs, PTL
<1> QED
  BY <1>1, HolderIs, LineIs

\* While the grant keeps its owner the holder stays the same.
LEMMA HolderStays ==
  ASSUME Inv, Inv', UNCHANGED <<activeSession, singleActive>>,
         \A r \in Singles : phase'[r] \in OwnerPhases <=> phase[r] \in OwnerPhases
  PROVE  Holder' = Holder
<1>0. HolderFacts /\ HolderFacts'
  BY Mapped
<1>1. CASE activeSession # NoLease
  BY <1>0, <1>1 DEF HolderFacts
<1>2. CASE activeSession = NoLease /\ singleActive
  <2>1. PICK r \in Singles : phase[r] \in OwnerPhases
    BY <1>2 DEF Inv, GrantsOK, OwnerOK
  <2>2. Granted(r) /\ Granted(r)'
    BY <2>1 DEF Granted, OwnerPhases
  <2> QED
    BY <1>0, <2>2 DEF HolderFacts
<1>3. CASE ~Busy
  BY <1>0, <1>3 DEF HolderFacts, Busy
<1> QED
  BY <1>1, <1>2, <1>3 DEF Busy

\* A step that changes neither owner nor line is not seen.
LEMMA Unseen ==
  ASSUME Inv, Inv', UNCHANGED <<activeSession, singleActive>>,
         \A r \in Singles : phase'[r] \in OwnerPhases <=> phase[r] \in OwnerPhases,
         Pending(phase') = Pending(phase),
         Order(waiters', phase') = Order(waiters, phase)
  PROVE  UNCHANGED Exclusive!avars
<1>1. Holder' = Holder
  BY HolderStays
<1>2. LineFacts /\ LineFacts'
  BY Mapped
<1>3. Waiting' = Waiting /\ Before' = Before
  BY <1>2 DEF LineFacts
<1> QED
  BY <1>1, <1>3 DEF Exclusive!avars

-----------------------------------------------------------------------------
(* The mapping of _grant_next_locked and _expire_session_locked *)

LEMMA OrderOfNone ==
  ASSUME NEW q, NEW ph, Pending(ph) = {}
  PROVE  Order(q, ph) = {}
  BY DEF Order

\* Run on a free browser, _grant_next_locked passes it to the first in the line.
LEMMA GrantPasses ==
  ASSUME Inv, Inv', NEW q, NEW ph \in [Requests -> Phases], NEW ls, QueueOK(q, ph),
         GrantNext(q, ph, ls, NoLease, FALSE)
  PROVE  Exclusive!PassTo(Pending(ph), Order(q, ph))
<1>0. HolderFacts' /\ LineFacts'
  BY Mapped
<1>1. q \in Seq(Requests) /\ DOMAIN q = 1 .. Len(q)
  BY LenProperties DEF QueueOK
<1>2. CASE {i \in DOMAIN q : ph[q[i]] = "waiting"} = {}
  <2>1. phase' = ph /\ activeSession' = NoLease /\ singleActive' = FALSE
    BY <1>2 DEF GrantNext
  <2>2. Pending(ph) = {}
    BY <1>1, <1>2 DEF QueueOK, Pending
  <2>3. Waiting' = {} /\ Before' = {}
    BY <1>0, <2>1, <2>2, OrderOfNone DEF LineFacts
  <2>4. Holder' = Nobody
    BY <1>0, <2>1 DEF HolderFacts, Busy
  <2> QED
    BY <2>2, <2>3, <2>4 DEF Exclusive!PassTo
<1>3. CASE {i \in DOMAIN q : ph[q[i]] = "waiting"} # {}
  <2>1. PICK i \in 1 .. Len(q) :
          /\ ph[q[i]] = "waiting"
          /\ \A j \in 1 .. Len(q) : ph[q[j]] = "waiting" => i <= j
          /\ waiters' = SubSeq(q, i + 1, Len(q))
          /\ phase' = [ph EXCEPT ![q[i]] = "granted"]
          /\ q[i] \notin Singles => activeSession' = q[i]
    BY <1>1, <1>3 DEF GrantNext
  <2>2. q[i] \in Requests
    BY <1>1, ElementOfSeq
  <2>3. /\ q[i] \in Pending(ph)
        /\ \A a \in Pending(ph) : <<a, q[i]>> \notin Order(q, ph)
        /\ Pending(phase') = Pending(ph) \ {q[i]}
        /\ Order(waiters', phase') = Exclusive!Among(Order(q, ph), Pending(ph) \ {q[i]})
    BY <2>1, OrderGrant
  <2>4. Holder' = q[i]
    <3>1. CASE q[i] \in Singles
      <4>1. Granted(q[i])'
        BY <2>1, <2>2 DEF Granted
      <4> QED
        BY <1>0, <3>1, <4>1 DEF HolderFacts
    <3>2. CASE q[i] \notin Singles
      <4>1. activeSession' = q[i] /\ q[i] # NoLease
        BY <2>1, <2>2, <3>2, NoLeaseFresh DEF Requests
      <4> QED
        BY <1>0, <4>1 DEF HolderFacts
    <3> QED
      BY <3>1, <3>2
  <2>5. /\ Waiting' = Pending(ph) \ {q[i]}
        /\ Before' = Exclusive!Among(Order(q, ph), Pending(ph) \ {q[i]})
    BY <1>0, <2>3 DEF LineFacts
  <2> QED
    BY <2>3, <2>4, <2>5 DEF Exclusive!PassTo
<1> QED
  BY <1>2, <1>3

\* Run when the section has released nothing, it is not seen: the browser is
\* busy, or it is free and nobody waits.
LEMMA GrantUnseen ==
  ASSUME Inv, Inv', NEW q, NEW ph \in [Requests -> Phases], NEW ls, QueueOK(q, ph),
         \A r \in Singles : ph[r] \in OwnerPhases <=> phase[r] \in OwnerPhases,
         Pending(ph) = Pending(phase),
         Order(q, ph) = Order(waiters, phase),
         GrantNext(q, ph, ls, activeSession, singleActive)
  PROVE  UNCHANGED Exclusive!avars
<1>1. CASE Busy
  <2>1. waiters' = q /\ phase' = ph /\ UNCHANGED <<activeSession, singleActive>>
    BY <1>1 DEF Busy, GrantNext
  <2> QED
    BY <2>1, Unseen
<1>2. CASE ~Busy
  <2>1. Pending(phase) = {}
    BY <1>2 DEF Busy, Inv, ServedOK, Pending
  <2>2. {i \in DOMAIN q : ph[q[i]] = "waiting"} = {}
    <3> SUFFICES ASSUME NEW i \in DOMAIN q, ph[q[i]] = "waiting"
                 PROVE  FALSE
      OBVIOUS
    <3>1. q[i] \in Requests
      BY LenProperties, ElementOfSeq DEF QueueOK
    <3> QED
      BY <2>1, <3>1 DEF Pending
  <2>3. phase' = ph /\ UNCHANGED <<activeSession, singleActive>>
    BY <1>2, <2>2 DEF Busy, GrantNext
  <2>4. Order(waiters', phase') = Order(waiters, phase)
    BY <2>1, <2>3, OrderOfNone
  <2> QED
    BY <2>3, <2>4, Unseen
<1> QED
  BY <1>1, <1>2

\* Run when the section has released the browser, it hands it over.
LEMMA GrantHandsOver ==
  ASSUME Inv, Inv', Busy, NEW ph \in [Requests -> Phases], NEW ls, QueueOK(waiters, ph),
         Pending(ph) = Pending(phase),
         GrantNext(waiters, ph, ls, NoLease, FALSE)
  PROVE  Exclusive!HandOver
<1>1. HolderFacts /\ LineFacts
  BY Mapped
<1>2. Exclusive!PassTo(Pending(ph), Order(waiters, ph))
  BY GrantPasses
<1>3. Pending(ph) = Waiting /\ Order(waiters, ph) = Before
  BY <1>1, OrderSame DEF LineFacts
<1>4. Exclusive!PassTo(Waiting, Before)
  BY <1>2, <1>3
<1> QED
  BY <1>1, <1>4 DEF HolderFacts, Exclusive!HandOver

\* A lease that expires hands the browser over, unless a call is in flight.
LEMMA ExpireMaps ==
  ASSUME Inv, Inv', NEW s \in Sessions, NEW ph \in [Requests -> Phases], NEW ls,
         QueueOK(waiters, ph),
         \A r \in Singles : ph[r] \in OwnerPhases <=> phase[r] \in OwnerPhases,
         Pending(ph) = Pending(phase),
         Expire(s, ph, ls)
  PROVE  Exclusive!HandOver \/ UNCHANGED Exclusive!avars
<1>1. CASE activeSession # s \/ ls[s].inFlight > 0
  <2>1. phase' = ph /\ UNCHANGED <<waiters, activeSession, singleActive>>
    BY <1>1 DEF Expire
  <2>2. Order(waiters', phase') = Order(waiters, phase)
    BY <2>1, OrderSame
  <2> QED
    BY <2>1, <2>2, Unseen
<1>2. CASE activeSession = s /\ ~(ls[s].inFlight > 0)
  <2>1. activeSession # NoLease /\ singleActive = FALSE
    BY <1>2, NoLeaseFresh DEF Inv, TypeOK, GrantsOK, OwnerOK
  <2>2. GrantNext(waiters, ph, ls, NoLease, singleActive)
    BY <1>2 DEF Expire
  <2>3. GrantNext(waiters, ph, ls, NoLease, FALSE)
    BY <2>1, <2>2
  <2>4. Busy
    BY <2>1 DEF Busy
  <2> QED
    BY <2>3, <2>4, GrantHandsOver
<1> QED
  BY <1>1, <1>2

-----------------------------------------------------------------------------
(* The steps *)

LEMMA PhaseOfEnded ==
  ASSUME NEW ph \in [Requests -> Phases], NEW r \in Requests
  PROVE  /\ [ph EXCEPT ![r] = Ended(r)] \in [Requests -> Phases]
         /\ [ph EXCEPT ![r] = Ended(r)][r] \in {"idle", "over"}
         /\ \A q \in Requests : q # r => [ph EXCEPT ![r] = Ended(r)][q] = ph[q]
         /\ ph[r] # "waiting" => Pending([ph EXCEPT ![r] = Ended(r)]) = Pending(ph)
  BY DEF Ended, Phases, Pending

\* A request joins the line, and is served at once if the browser is free.
LEMMA EnqueueMaps ==
  ASSUME Inv, Inv', NEW r \in Requests, Enqueue(r)
  PROVE  Exclusive!Arrive(r)
<1> DEFINE a == Append(waiters, r)
           f == [phase EXCEPT ![r] = "waiting"]
<1>0. /\ HolderFacts /\ HolderFacts' /\ LineFacts /\ LineFacts'
      /\ phase \in [Requests -> Phases] /\ QueueOK(waiters, phase)
      /\ phase[r] = "idle"
      /\ GrantNext(a, f, lease, activeSession, singleActive)
  BY Mapped DEF Inv, GrantsOK, Enqueue
<1>1. /\ r \notin Pending(phase)
      /\ Pending(f) = Pending(phase) \cup {r}
      /\ \A x, y : <<x, y>> \in Order(a, f) <=>
           <<x, y>> \in Order(waiters, phase) \/ (x \in Pending(phase) /\ y = r)
  <2>1. r \notin Pending(phase) /\ Pending(f) = Pending(phase) \cup {r}
    BY <1>0 DEF Pending
  <2>2. /\ Len(waiters) \in Nat /\ Len(a) = Len(waiters) + 1 /\ a[Len(waiters) + 1] = r
        /\ \A i \in 1 .. Len(waiters) : a[i] = waiters[i]
    BY <1>0, AppendProperties, LenProperties, SMTT(30) DEF QueueOK
  <2>3. \A i \in 1 .. Len(waiters) : waiters[i] # r
    BY <1>0 DEF QueueOK
  <2> HIDE DEF a, f
  <2> QED
    BY <1>0, <2>1, <2>2, <2>3, OrderAppend, SMTT(30)
<1>7. QueueOK(a, f)
  BY <1>0, QueueAppend
<1>2. f \in [Requests -> Phases]
  BY <1>0 DEF Phases
<1>3. \A t \in Singles : f[t] \in OwnerPhases <=> phase[t] \in OwnerPhases
  BY <1>0 DEF OwnerPhases, Requests
<1> HIDE DEF a, f
<1>4. /\ r \notin Waiting
      /\ Pending(f) = Waiting \cup {r}
      /\ Order(a, f) = Before \cup (Waiting \X {r})
  <2> DEFINE b == Before \cup (Waiting \X {r})
             o == Order(a, f)
  <2>1. /\ \A e \in o : \E x, y : e = <<x, y>>
        /\ \A e \in b : \E x, y : e = <<x, y>>
    BY <1>0, OrderPairs DEF LineFacts
  <2>2. \A x, y : <<x, y>> \in o <=> <<x, y>> \in b
    BY <1>0, <1>1 DEF LineFacts
  <2> HIDE DEF b, o
  <2>3. o = b
    BY <2>1, <2>2, SameOrder
  <2> QED
    BY <1>0, <1>1, <2>3 DEF LineFacts, b, o
<1>5. CASE Busy
  <2>1. waiters' = a /\ phase' = f /\ UNCHANGED <<activeSession, singleActive>>
    BY <1>0, <1>5 DEF Busy, GrantNext
  <2>2. Holder' = Holder /\ Holder # Nobody
    BY <1>0, <1>3, <1>5, <2>1, HolderStays DEF HolderFacts
  <2>3. Waiting' = Waiting \cup {r} /\ Before' = Before \cup (Waiting \X {r})
    BY <1>0, <1>4, <2>1 DEF LineFacts
  <2> QED
    BY <1>4, <2>2, <2>3 DEF Exclusive!Arrive
<1>6. CASE ~Busy
  <2>1. activeSession = NoLease /\ singleActive = FALSE
    BY <1>6 DEF Busy, Inv, TypeOK
  <2>2. GrantNext(a, f, lease, NoLease, FALSE)
    BY <1>0, <2>1
  <2>3. Exclusive!PassTo(Pending(f), Order(a, f))
    BY <1>2, <1>7, <2>2, GrantPasses
  <2>4. Exclusive!PassTo(Waiting \cup {r}, Before \cup (Waiting \X {r}))
    BY <1>4, <2>3
  <2>5. Holder = Nobody
    BY <1>0, <1>6 DEF HolderFacts
  <2> QED
    BY <1>4, <2>4, <2>5 DEF Exclusive!Arrive
<1> QED
  BY <1>5, <1>6

\* A request that waits and gives up leaves the line, although its future stays
\* in the deque; one that was granted goes on holding the browser.
LEMMA GiveUpMaps ==
  ASSUME Inv, Inv', NEW r \in Requests, GiveUp(r)
  PROVE  Exclusive!Leave(r) \/ UNCHANGED Exclusive!avars
<1>0. /\ LineFacts /\ LineFacts' /\ phase \in [Requests -> Phases]
      /\ phase[r] \in {"waiting", "granted"}
      /\ phase' = [phase EXCEPT ![r] = IF phase[r] = "waiting" THEN "cancelled" ELSE "revoked"]
      /\ UNCHANGED <<waiters, activeSession, singleActive>>
  BY Mapped DEF Inv, TypeOK, GiveUp
<1>1. \A t \in Singles : phase'[t] \in OwnerPhases <=> phase[t] \in OwnerPhases
  BY <1>0 DEF OwnerPhases, Requests
<1>2. CASE phase[r] = "waiting"
  <2>1. r \in Pending(phase) /\ Pending(phase') = Pending(phase) \ {r}
    BY <1>0, <1>2 DEF Pending
  <2>2. Order(waiters, phase') = Exclusive!Among(Order(waiters, phase), Pending(phase'))
    BY <2>1, OrderAmong
  <2>3. Holder' = Holder
    BY <1>0, <1>1, HolderStays
  <2>4. /\ r \in Waiting /\ Waiting' = Waiting \ {r}
        /\ Before' = Exclusive!Among(Before, Waiting \ {r})
    BY <1>0, <2>1, <2>2 DEF LineFacts
  <2> QED
    BY <2>3, <2>4 DEF Exclusive!Leave
<1>3. CASE phase[r] = "granted"
  <2>1. Pending(phase') = Pending(phase)
    BY <1>0, <1>3 DEF Pending
  <2>2. Order(waiters', phase') = Order(waiters, phase)
    BY <1>0, <2>1, OrderSame
  <2> QED
    BY <1>0, <1>1, <2>1, <2>2, Unseen
<1> QED
  BY <1>0, <1>2, <1>3

\* A waiter that leaves the deque gives back what it was granted: nothing is
\* seen unless that was the browser.
LEMMA CancelWaiterMaps ==
  ASSUME Inv, Inv', NEW r \in Requests, CancelWaiter(r)
  PROVE  Exclusive!HandOver \/ UNCHANGED Exclusive!avars
<1> DEFINE ended == [phase EXCEPT ![r] = Ended(r)]
<1>0. /\ phase \in [Requests -> Phases] /\ QueueOK(waiters, phase)
      /\ OwnerOK(phase, activeSession, singleActive)
      /\ singleActive \in BOOLEAN
      /\ activeSession \in Sessions \cup {NoLease}
      /\ phase[r] \in {"cancelled", "revoked"}
      /\ Ended(r) \in Phases /\ Ended(r) # "waiting"
      /\ DOMAIN waiters = 1 .. Len(waiters)
  BY LenProperties DEF Inv, TypeOK, GrantsOK, QueueOK, CancelWaiter, Ended, Phases
<1>1. /\ ended \in [Requests -> Phases]
      /\ ended[r] \in {"idle", "over"}
      /\ \A q \in Requests : q # r => ended[q] = phase[q]
      /\ Pending(ended) = Pending(phase)
  BY <1>0, PhaseOfEnded
<1>2. ASSUME \A t \in Singles : t = r => phase[t] \notin OwnerPhases
      PROVE  \A t \in Singles : ended[t] \in OwnerPhases <=> phase[t] \in OwnerPhases
  BY <1>1, <1>2 DEF OwnerPhases, Requests
<1>3. CASE \E i \in DOMAIN waiters :
             /\ waiters[i] = r
             /\ GrantNext(RemoveAt(waiters, i), ended, lease, activeSession, singleActive)
  <2>1. PICK i \in 1 .. Len(waiters) :
          /\ waiters[i] = r
          /\ GrantNext(RemoveAt(waiters, i), ended, lease, activeSession, singleActive)
    BY <1>0, <1>3
  <2>2. phase[r] = "cancelled"
    BY <1>0, <2>1 DEF QueueOK
  <2>3. \A t \in Singles : ended[t] \in OwnerPhases <=> phase[t] \in OwnerPhases
    BY <1>2, <2>2 DEF OwnerPhases
  <2>4. QueueOK(RemoveAt(waiters, i), ended)
    BY <1>0, <2>1, QueueRemove
  <2>5. Order(RemoveAt(waiters, i), ended) = Order(waiters, phase)
    BY <1>0, <1>1, <2>1, <2>2, OrderRemove
  <2> HIDE DEF ended
  <2> QED
    BY <1>1, <2>1, <2>3, <2>4, <2>5, GrantUnseen
<1>4. CASE \A i \in DOMAIN waiters : waiters[i] # r
  <2>1. QueueOK(waiters, ended)
    <3>1. \A i \in 1 .. Len(waiters) : waiters[i] \in Requests /\ waiters[i] # r
      BY <1>0, <1>4, ElementOfSeq DEF QueueOK
    <3> HIDE DEF ended
    <3> QED
      BY <1>0, <1>1, <3>1 DEF QueueOK
  <2>2. Order(waiters, ended) = Order(waiters, phase)
    BY <1>1, OrderSame
  <2>3. CASE phase[r] = "revoked" /\ r \in Singles /\ singleActive
    <3>1. GrantNext(waiters, ended, lease, activeSession, FALSE)
      BY <1>0, <1>4, <2>3, CancelWaiter(r) DEF CancelWaiter
    <3>2. activeSession = NoLease /\ Busy
      BY <1>0, <2>3 DEF OwnerOK, Busy
    <3> HIDE DEF ended
    <3>3. GrantNext(waiters, ended, lease, NoLease, FALSE)
      BY <3>1, <3>2
    <3> QED
      BY <1>1, <2>1, <3>2, <3>3, GrantHandsOver
  <2>4. CASE phase[r] = "revoked" /\ r \notin Singles /\ activeSession = r
    <3>1. Expire(r, ended, lease)
      BY <1>0, <1>4, <2>4, CancelWaiter(r) DEF CancelWaiter
    <3>2. r \in Sessions
      BY <2>4 DEF Requests
    <3>3. \A t \in Singles : ended[t] \in OwnerPhases <=> phase[t] \in OwnerPhases
      BY <1>2, <2>4
    <3> HIDE DEF ended
    <3> QED
      BY <1>1, <2>1, <3>1, <3>2, <3>3, ExpireMaps
  <2>5. CASE /\ ~(phase[r] = "revoked" /\ r \in Singles /\ singleActive)
             /\ ~(phase[r] = "revoked" /\ r \notin Singles /\ activeSession = r)
    <3>1. ~(phase[r] = "revoked" /\ r \in Singles)
      BY <1>0, <2>5 DEF OwnerOK, OwnerPhases
    <3>2. ~(phase[r] = "revoked" /\ activeSession = r)
      BY <2>5, <3>1
    <3>3. GrantNext(waiters, ended, lease, activeSession, singleActive)
      BY <1>0, <1>4, <3>1, <3>2, CancelWaiter(r) DEF CancelWaiter
    <3>4. \A t \in Singles : ended[t] \in OwnerPhases <=> phase[t] \in OwnerPhases
      BY <1>0, <1>2, <3>1 DEF OwnerPhases
    <3> HIDE DEF ended
    <3> QED
      BY <1>1, <2>1, <2>2, <3>3, <3>4, GrantUnseen
  <2> QED
    BY <2>3, <2>4, <2>5
<1> QED
  BY <1>3, <1>4, CancelWaiter(r) DEF CancelWaiter

\* A single call that ends hands the browser over.
LEMMA FinishSingleMaps ==
  ASSUME Inv, Inv', NEW r \in Singles, FinishSingle(r)
  PROVE  Exclusive!HandOver
<1> DEFINE ended == [phase EXCEPT ![r] = Ended(r)]
<1>0. /\ r \in Requests /\ phase \in [Requests -> Phases] /\ QueueOK(waiters, phase)
      /\ OwnerOK(phase, activeSession, singleActive)
      /\ phase[r] = "running"
      /\ GrantNext(waiters, ended, lease, activeSession, FALSE)
  BY DEF Inv, GrantsOK, FinishSingle, Requests
<1>1. /\ ended \in [Requests -> Phases]
      /\ \A q \in Requests : q # r => ended[q] = phase[q]
      /\ Pending(ended) = Pending(phase)
      /\ ended[r] \in {"idle", "over"}
  BY <1>0, PhaseOfEnded
<1>2. activeSession = NoLease /\ Busy
  BY <1>0 DEF OwnerOK, OwnerPhases, Busy
<1> HIDE DEF ended
<1>3. QueueOK(waiters, ended)
  <2>1. \A i \in 1 .. Len(waiters) : waiters[i] \in Requests /\ waiters[i] # r
    BY <1>0, ElementOfSeq DEF QueueOK
  <2> QED
    BY <1>0, <1>1, <2>1 DEF QueueOK
<1>4. GrantNext(waiters, ended, lease, NoLease, FALSE)
  BY <1>0, <1>2
<1> QED
  BY <1>1, <1>2, <1>3, <1>4, GrantHandsOver

\* Whatever a session's calls, its holder, the reaper and time do: at most the
\* lease expires.
LEMMA LeaseMaps ==
  ASSUME Inv, Inv',
         \/ \E s \in Sessions : \E ls : Expire(s, phase, ls)
         \/ UNCHANGED <<waiters, phase, activeSession, singleActive>>
  PROVE  Exclusive!HandOver \/ UNCHANGED Exclusive!avars
<1>1. phase \in [Requests -> Phases] /\ QueueOK(waiters, phase)
  BY DEF Inv, GrantsOK
<1>2. ASSUME NEW s \in Sessions, NEW ls, Expire(s, phase, ls)
      PROVE  Exclusive!HandOver \/ UNCHANGED Exclusive!avars
  BY <1>1, <1>2, ExpireMaps
<1>3. CASE UNCHANGED <<waiters, phase, activeSession, singleActive>>
  BY <1>3, Unseen
<1> QED
  BY <1>2, <1>3

\* close() turns away whoever waits and leaves the browser with its holder.
LEMMA EndCloseMaps ==
  ASSUME Inv, Inv', EndClose
  PROVE  Exclusive!TurnAway
<1>0. /\ LineFacts' /\ phase \in [Requests -> Phases] /\ QueueOK(waiters, phase)
      /\ UNCHANGED <<activeSession, singleActive>>
  BY Mapped DEF Inv, GrantsOK, EndClose
<1>1. \A r \in Requests : phase'[r] = IF phase[r] = "waiting" THEN "failed" ELSE phase[r]
  <2>1. DOMAIN waiters = 1 .. Len(waiters)
    BY <1>0, LenProperties DEF QueueOK
  <2> QED
    BY <1>0, <2>1 DEF EndClose, QueueOK
<1>2. Pending(phase') = {}
  BY <1>1 DEF Pending
<1>3. \A r \in Singles : phase'[r] \in OwnerPhases <=> phase[r] \in OwnerPhases
  BY <1>1 DEF OwnerPhases, Requests
<1>4. Holder' = Holder
  BY <1>0, <1>3, HolderStays
<1>5. Waiting' = {} /\ Before' = {}
  BY <1>0, <1>2, OrderOfNone DEF LineFacts
<1> QED
  BY <1>4, <1>5 DEF Exclusive!TurnAway

-----------------------------------------------------------------------------
(* The refinement *)

LEMMA InitMaps == Init => Exclusive!Init
<1> SUFFICES ASSUME Init
             PROVE  Exclusive!Init
  OBVIOUS
<1>1. HolderFacts /\ LineFacts
  BY InvInit, HolderIs, LineIs
<1>2. Pending(phase) = {}
  BY DEF Init, Pending
<1>3. Holder = Nobody
  BY <1>1 DEF Init, HolderFacts, Busy
<1>4. Waiting = {} /\ Before = {}
  BY <1>1, <1>2, OrderOfNone DEF LineFacts
<1> QED
  BY <1>3, <1>4 DEF Exclusive!Init

LEMMA StepMaps ==
  ASSUME Inv, Inv', [Next]_vars
  PROVE  Exclusive!Next \/ UNCHANGED Exclusive!avars
<1>1. CASE Exclusive!HandOver \/ UNCHANGED Exclusive!avars
  BY <1>1 DEF Exclusive!Next
<1>2. ASSUME NEW r \in Requests, Enqueue(r) \/ GiveUp(r)
      PROVE  Exclusive!Next \/ UNCHANGED Exclusive!avars
  BY <1>2, EnqueueMaps, GiveUpMaps DEF Exclusive!Next
<1>3. ASSUME NEW r \in Requests, CancelWaiter(r)
      PROVE  Exclusive!Next \/ UNCHANGED Exclusive!avars
  BY <1>1, <1>3, CancelWaiterMaps
<1>4. ASSUME NEW r \in Requests, Resume(r) \/ Fail(r)
      PROVE  Exclusive!Next \/ UNCHANGED Exclusive!avars
  <2>1. /\ phase \in [Requests -> Phases] /\ phase[r] \in {"granted", "failed"}
        /\ UNCHANGED <<waiters, activeSession, singleActive>>
        /\ phase' = [phase EXCEPT ![r] =
                       IF phase[r] = "failed" THEN Ended(r)
                       ELSE IF r \in Singles THEN "running" ELSE "holding"]
    BY <1>4 DEF Inv, TypeOK, Resume, Fail
  <2>2. Pending(phase') = Pending(phase)
    BY <2>1 DEF Pending, Ended
  <2>3. \A t \in Singles : phase'[t] \in OwnerPhases <=> phase[t] \in OwnerPhases
    BY <2>1 DEF OwnerPhases, Ended, Requests
  <2>4. Order(waiters', phase') = Order(waiters, phase)
    BY <2>1, <2>2, OrderSame
  <2> QED
    BY <1>1, <2>1, <2>2, <2>3, <2>4, Unseen
<1>5. ASSUME NEW r \in Singles, FinishSingle(r)
      PROVE  Exclusive!Next \/ UNCHANGED Exclusive!avars
  BY <1>1, <1>5, FinishSingleMaps
<1>6. CASE \/ \E s \in Sessions : \E ls : Expire(s, phase, ls)
           \/ UNCHANGED <<waiters, phase, activeSession, singleActive>>
  BY <1>1, <1>6, LeaseMaps
<1>7. ASSUME NEW s \in Sessions, Heartbeat(s) \/ Release(s)
      PROVE  Exclusive!Next \/ UNCHANGED Exclusive!avars
  BY <1>6, <1>7 DEF Heartbeat, Release
<1>8. ASSUME NEW c \in Calls, NEW s \in Sessions, CallStart(c, s)
      PROVE  Exclusive!Next \/ UNCHANGED Exclusive!avars
  BY <1>6, <1>8 DEF CallStart, EnterOrReject, grantVars
<1>9. ASSUME NEW c \in Calls, CallTurn(c) \/ CallFinish(c)
      PROVE  Exclusive!Next \/ UNCHANGED Exclusive!avars
  <2>1. target[c] \in Sessions
    BY <1>9 DEF CallTurn, CallFinish, Inv, LocksOK
  <2>2. CASE CallTurn(c)
    BY <1>6, <2>1, <2>2 DEF CallTurn, EnterOrReject
  <2>3. CASE CallFinish(c)
    BY <1>6, <2>1, <2>3 DEF CallFinish
  <2> QED
    BY <1>9, <2>2, <2>3
<1>10. CASE Reap
  <2>1. activeSession \in Sessions /\ Expire(activeSession, phase, lease)
    BY <1>10 DEF Reap, Inv, TypeOK
  <2> QED
    BY <1>6, <2>1
<1>11. CASE Tick \/ BeginClose \/ UNCHANGED vars
  BY <1>6, <1>11 DEF Tick, BeginClose, vars, grantVars
<1>12. CASE EndClose
  BY <1>12, EndCloseMaps DEF Exclusive!Next
<1> QED
  BY <1>2, <1>3, <1>4, <1>5, <1>7, <1>8, <1>9, <1>10, <1>11, <1>12
     DEF Next, ClientStep, ServerStep

\* The coordinator implements the exclusive browser for every number of
\* callers, sessions and calls and all durations: one holder, strictly first
\* come first served, and free only while nobody waits, although dead futures
\* stay in the deque, grants race with timeouts and leases outlive a release.
THEOREM CoordinatorImplements == Spec => ImplementsExclusiveBrowser
<1>1. Inv /\ Inv' /\ [Next]_vars => [Exclusive!Next]_(Exclusive!avars)
  BY StepMaps
<1> QED
  BY <1>1, InitMaps, InvAlways, PTL DEF Spec, ImplementsExclusiveBrowser, Exclusive!Spec

=============================================================================
