----------------------- MODULE DebuggerSessionProofs -----------------------
(***************************************************************************)
(* Proofs about DebuggerSession for any number of runs and captures.        *)
(*                                                                          *)
(* That criticalPending never drops below zero, and counts what it should,  *)
(* rests on the line of tasks that await active.promise: each is in it once *)
(* (LineOK), and those of run() are exactly in phase "waiting".             *)
(***************************************************************************)
EXTENDS DebuggerSession, FiniteSetTheorems, TLAPS

Waiters == Runs \cup {Closer}

\* No task stands twice in the two parts of the line.
LineOK(wait, wake) ==
  /\ wait \in Seq(Waiters)
  /\ wake \in Seq(Waiters)
  /\ \A i, j \in 1 .. Len(wait) : wait[i] = wait[j] => i = j
  /\ \A i, j \in 1 .. Len(wake) : wake[i] = wake[j] => i = j
  /\ \A i \in 1 .. Len(wait), j \in 1 .. Len(wake) : wait[i] # wake[j]

\* Whoever stands in it waits.
Stand(wait, wake, ph, cl) ==
  /\ \A i \in 1 .. Len(wait) : IF wait[i] = Closer THEN cl = "waiting" ELSE ph[wait[i]] = "waiting"
  /\ \A i \in 1 .. Len(wake) : IF wake[i] = Closer THEN cl = "waiting" ELSE ph[wake[i]] = "waiting"

\* The runs that wait.
Waiting(ph) == {t \in Runs : ph[t] = "waiting"}

Types ==
  /\ at \in [Tasks -> {"idle", "waiting"} \cup Working]
  /\ active \in Tasks \cup {None}
  /\ criticalPending \in Nat
  /\ closed \in BOOLEAN
  /\ closing \in {"no", "waiting", "detaching", "done"}
  /\ detached \in BOOLEAN
  /\ focus \in BOOLEAN

Counted ==
  /\ IsFiniteSet(Waiting(at))
  /\ criticalPending = Cardinality(Waiting(at))

\* Chrome takes the emulation with the session.
Unfocused == detached => ~focus

\* The inductive invariant.
SInv ==
  /\ Types
  /\ LineOK(waiting, woken)
  /\ Stand(waiting, woken, at, closing)
  /\ Counted
  /\ OneWorker
  /\ FocusTakenBack
  /\ NothingAfterClose
  /\ closing # "no" <=> closed
  /\ Unfocused

-----------------------------------------------------------------------------
(* The line *)

\* A task that is not in the line may join its end.
LEMMA LineAppend ==
  ASSUME NEW wait, NEW wake, LineOK(wait, wake), NEW w \in Waiters,
         \A i \in 1 .. Len(wait) : wait[i] # w,
         \A i \in 1 .. Len(wake) : wake[i] # w
  PROVE  LineOK(Append(wait, w), wake)
<1>1. /\ wait \in Seq(Waiters)
      /\ Append(wait, w) \in Seq(Waiters)
      /\ Len(Append(wait, w)) = Len(wait) + 1
      /\ \A i \in 1 .. Len(wait) : Append(wait, w)[i] = wait[i]
      /\ Append(wait, w)[Len(wait) + 1] = w
      /\ Len(wait) \in Nat
  BY DEF LineOK
<1>2. \A i \in 1 .. Len(wait) + 1 : i \in 1 .. Len(wait) \/ i = Len(wait) + 1
  BY <1>1
<1> QED
  BY <1>1, <1>2 DEF LineOK

\* The first of those that are woken leaves the line.
LEMMA LineTail ==
  ASSUME NEW wait, NEW wake, LineOK(wait, wake), wake # <<>>
  PROVE  /\ LineOK(wait, Tail(wake))
         /\ Head(wake) \in Waiters
         /\ \A i \in 1 .. Len(wait) : wait[i] # Head(wake)
         /\ \A i \in 1 .. Len(Tail(wake)) : Tail(wake)[i] # Head(wake)
         /\ \A i \in 1 .. Len(Tail(wake)) : i + 1 \in 1 .. Len(wake) /\ Tail(wake)[i] = wake[i + 1]
<1>1. /\ wake \in Seq(Waiters)
      /\ Len(wake) \in Nat \ {0}
      /\ Tail(wake) \in Seq(Waiters)
      /\ Len(Tail(wake)) = Len(wake) - 1
      /\ Head(wake) = wake[1]
      /\ \A i \in 1 .. Len(wake) - 1 : Tail(wake)[i] = wake[i + 1]
  BY DEF LineOK
<1>2. \A i \in 1 .. Len(wake) - 1 : i + 1 \in 1 .. Len(wake) /\ i + 1 # 1
  BY <1>1
<1>3. 1 \in 1 .. Len(wake)
  BY <1>1
<1> QED
  BY <1>1, <1>2, <1>3 DEF LineOK

\* All that wait are woken, behind those that were before.
LEMMA LineWake ==
  ASSUME NEW wait, NEW wake, LineOK(wait, wake)
  PROVE  /\ LineOK(<<>>, wake \o wait)
         /\ \A k \in 1 .. Len(wake \o wait) :
              \/ k \in 1 .. Len(wake) /\ (wake \o wait)[k] = wake[k]
              \/ k - Len(wake) \in 1 .. Len(wait) /\ (wake \o wait)[k] = wait[k - Len(wake)]
<1> DEFINE all == wake \o wait
<1>1. /\ wait \in Seq(Waiters) /\ wake \in Seq(Waiters)
      /\ all \in Seq(Waiters)
      /\ Len(wake) \in Nat /\ Len(wait) \in Nat
      /\ Len(all) = Len(wake) + Len(wait)
  BY DEF LineOK
<1>2. ASSUME NEW k \in 1 .. Len(all)
      PROVE  \/ k \in 1 .. Len(wake) /\ all[k] = wake[k]
             \/ k - Len(wake) \in 1 .. Len(wait) /\ all[k] = wait[k - Len(wake)]
  <2>1. CASE k <= Len(wake)
    BY <1>1, <2>1
  <2>2. CASE k > Len(wake)
    BY <1>1, <2>2
  <2> QED
    BY <1>1, <2>1, <2>2
<1>3. \A i, j \in 1 .. Len(all) : all[i] = all[j] => i = j
  BY <1>1, <1>2 DEF LineOK
<1>4. <<>> \in Seq(Waiters) /\ 1 .. Len(<<>>) = {}
  OBVIOUS
<1> QED
  BY <1>1, <1>2, <1>3, <1>4 DEF LineOK

-----------------------------------------------------------------------------
(* Phases *)

Phase == {"idle", "waiting"} \cup Working

LEMMA PhaseFacts ==
  /\ \A p \in Working : p \notin {"idle", "waiting"}
  /\ Runs \subseteq Tasks /\ Captures \subseteq Tasks
  /\ Closer \notin Runs /\ None \notin Tasks
  BY TasksDisjoint DEF Working, Tasks

\* A task that does not wait is not in the line, and moves without disturbing it.
LEMMA StandSame ==
  ASSUME NEW wait, NEW wake, NEW cl, LineOK(wait, wake),
         NEW ph \in [Tasks -> Phase], NEW t \in Tasks, NEW p \in Phase, ph[t] # "waiting",
         Stand(wait, wake, ph, cl)
  PROVE  /\ Stand(wait, wake, [ph EXCEPT ![t] = p], cl)
         /\ \A i \in 1 .. Len(wait) : wait[i] # t
         /\ \A i \in 1 .. Len(wake) : wake[i] # t
<1>1. /\ \A i \in 1 .. Len(wait) : wait[i] \in Waiters
      /\ \A i \in 1 .. Len(wake) : wake[i] \in Waiters
  BY DEF LineOK
<1>2. /\ \A i \in 1 .. Len(wait) : wait[i] # Closer => wait[i] \in Tasks /\ wait[i] # t
      /\ \A i \in 1 .. Len(wake) : wake[i] # Closer => wake[i] \in Tasks /\ wake[i] # t
  BY <1>1, PhaseFacts DEF Stand, Waiters
<1>3. t # Closer
  BY TasksDisjoint
<1> QED
  BY <1>2, <1>3 DEF Stand

LEMMA WaitingSame ==
  ASSUME NEW ph \in [Tasks -> Phase], NEW t \in Tasks, NEW p \in Phase,
         ph[t] # "waiting", p # "waiting"
  PROVE  Waiting([ph EXCEPT ![t] = p]) = Waiting(ph)
  BY PhaseFacts DEF Waiting

\* A task that works moves on to another phase of its work, or ends it.
LEMMA WorkMoves ==
  ASSUME SInv, NEW t \in Tasks, at[t] \in Working, NEW p \in Phase,
         at' = [at EXCEPT ![t] = p],
         UNCHANGED <<criticalPending, closed, closing>>, detached' \in BOOLEAN,
         \/ p \in Working /\ active' = active /\ UNCHANGED queues
         \/ p = "idle" /\ Settle(t),
         focus' \in BOOLEAN, FocusTakenBack', Unfocused'
  PROVE  SInv'
<1>1. active = t /\ at[t] # "waiting" /\ p # "waiting"
  BY PhaseFacts DEF SInv, OneWorker
<1>2. Types'
  BY PhaseFacts DEF SInv, Types, Settle, Phase
<1>3. at \in [Tasks -> Phase]
  BY DEF SInv, Types, Phase
<1>4. Stand(waiting, woken, at', closing)
  BY <1>1, <1>3, StandSame DEF SInv
<1>5. LineOK(waiting, woken)' /\ Stand(waiting, woken, at, closing)'
  <2>1. CASE UNCHANGED queues
    BY <1>4, <2>1 DEF SInv, queues
  <2>2. CASE Settle(t)
    <3>1. waiting' = <<>> /\ woken' = woken \o waiting
      BY <2>2 DEF Settle
    <3>2. LineOK(waiting', woken')
      BY <3>1, LineWake DEF SInv
    <3>3. Stand(waiting', woken', at', closing)
      <4>1. 1 .. Len(<<>>) = {}
        OBVIOUS
      <4> QED
        BY <1>4, <3>1, <4>1, LineWake DEF SInv, Stand
    <3> QED
      BY <3>2, <3>3
  <2> QED
    BY <2>1, <2>2
<1>6. Counted'
  BY <1>1, <1>3, WaitingSame DEF SInv, Counted
<1>7. OneWorker'
  <2>1. CASE p \in Working /\ active' = active
    BY <1>1, <1>3, <2>1 DEF SInv, OneWorker
  <2>2. CASE p = "idle" /\ active' = None
    BY <1>1, <1>3, <2>2, PhaseFacts DEF SInv, OneWorker
  <2>3. Settle(t) => active' = None
    BY <1>1 DEF Settle
  <2> QED
    BY <2>1, <2>2, <2>3
<1>8. NothingAfterClose'
  BY <1>1, PhaseFacts DEF SInv, NothingAfterClose
<1> QED
  BY <1>2, <1>5, <1>6, <1>7, <1>8 DEF SInv

\* An idle task begins its work on a session nobody uses.
LEMMA IdleBegins ==
  ASSUME SInv, NEW t \in Tasks, NEW p \in Working, at[t] = "idle",
         active = None, ~closed, ~detached, Begin(t, p),
         UNCHANGED <<criticalPending, queues, session, focus>>
  PROVE  SInv'
<1>1. active' = t /\ at' = [at EXCEPT ![t] = p]
  BY DEF Begin
<1>2. at \in [Tasks -> Phase] /\ p \in Phase /\ at[t] # "waiting" /\ p # "waiting"
  BY PhaseFacts DEF SInv, Types, Phase
<1>3. Types'
  BY <1>1, <1>2 DEF SInv, Types, Phase, session
<1>4. LineOK(waiting, woken)' /\ Stand(waiting, woken, at, closing)'
  BY <1>1, <1>2, StandSame DEF SInv, queues, session
<1>5. Counted'
  BY <1>1, <1>2, WaitingSame DEF SInv, Counted
<1>6. OneWorker'
  BY <1>1, <1>2, PhaseFacts DEF SInv, OneWorker
<1>7. FocusTakenBack'
  BY <1>1, <1>2, PhaseFacts DEF SInv, FocusTakenBack
<1>8. NothingAfterClose' /\ (closing # "no" <=> closed)' /\ Unfocused'
  BY DEF SInv, NothingAfterClose, Unfocused, session
<1> QED
  BY <1>3, <1>4, <1>5, <1>6, <1>7, <1>8 DEF SInv

LEMMA RunStep ==
  ASSUME SInv, NEW t \in Runs, Run(t)
  PROVE  SInv'
<1>1. at[t] = "idle" /\ ~closed /\ ~detached /\ UNCHANGED <<woken, session, focus>>
      /\ t \in Tasks
  BY PhaseFacts DEF Run
<1>2. CASE active = None
  <2>1. PICK p \in {"focusing", "plain"} : Begin(t, p)
    BY <1>2 DEF Run
  <2>2. UNCHANGED <<criticalPending, queues>> /\ p \in Working
    BY <1>2 DEF Run, queues, Working
  <2> QED
    BY <1>1, <1>2, <2>1, <2>2, IdleBegins
<1>3. CASE active # None
  <2>1. /\ at' = [at EXCEPT ![t] = "waiting"]
        /\ criticalPending' = criticalPending + 1
        /\ waiting' = Append(waiting, t)
        /\ UNCHANGED active
    BY <1>3 DEF Run
  <2>2. at \in [Tasks -> Phase] /\ "waiting" \in Phase /\ at[t] # "waiting"
    BY <1>1 DEF SInv, Types, Phase
  <2>3. Types'
    BY <1>1, <2>1, <2>2 DEF SInv, Types, Phase, session
  <2>4. /\ Stand(waiting, woken, at', closing)
        /\ \A i \in 1 .. Len(waiting) : waiting[i] # t
        /\ \A i \in 1 .. Len(woken) : woken[i] # t
    BY <1>1, <2>1, <2>2, StandSame DEF SInv
  <2>5. LineOK(waiting', woken')
    BY <1>1, <2>1, <2>4, LineAppend DEF SInv, Waiters
  <2>6. Stand(waiting', woken', at', closing')
    <3>1. \A i \in 1 .. Len(waiting') : \/ i \in 1 .. Len(waiting) /\ waiting'[i] = waiting[i]
                                        \/ waiting'[i] = t
      BY <2>1 DEF SInv, LineOK
    <3>2. at'[t] = "waiting" /\ t # Closer
      BY <1>1, <2>1, <2>2, TasksDisjoint
    <3> QED
      BY <1>1, <2>4, <3>1, <3>2 DEF Stand, session
  <2>7. Counted'
    <3>1. Waiting(at') = Waiting(at) \cup {t} /\ t \notin Waiting(at)
      BY <1>1, <2>1, <2>2, PhaseFacts DEF Waiting
    <3> QED
      BY <2>1, <3>1, FS_AddElement DEF SInv, Counted
  <2>8. OneWorker'
    BY <1>1, <2>1, <2>2, PhaseFacts DEF SInv, OneWorker
  <2>9. FocusTakenBack'
    BY <1>1, <2>1, <2>2 DEF SInv, FocusTakenBack
  <2>10. NothingAfterClose' /\ (closing # "no" <=> closed)' /\ Unfocused'
    BY <1>1, <2>1 DEF SInv, NothingAfterClose, Unfocused, session
  <2> QED
    BY <2>3, <2>5, <2>6, <2>7, <2>8, <2>9, <2>10 DEF SInv
<1> QED
  BY <1>2, <1>3

LEMMA RunWakesStep ==
  ASSUME SInv, NEW t \in Runs, RunWakes(t)
  PROVE  SInv'
<1>1. /\ woken # <<>> /\ Head(woken) = t /\ woken' = Tail(woken)
      /\ UNCHANGED <<session, focus>>
      /\ t \in Tasks /\ t \in Waiters /\ t # Closer
  BY PhaseFacts DEF RunWakes, Waiters
<1>r. PICK rest : rest = Tail(woken)
  OBVIOUS
<1>2. /\ LineOK(waiting, rest)
      /\ \A i \in 1 .. Len(waiting) : waiting[i] # t
      /\ \A i \in 1 .. Len(rest) : rest[i] # t
      /\ \A i \in 1 .. Len(rest) : i + 1 \in 1 .. Len(woken) /\ rest[i] = woken[i + 1]
  BY <1>1, <1>r, LineTail DEF SInv
<1>3. at[t] = "waiting" /\ at \in [Tasks -> Phase]
  <2>1. 1 \in 1 .. Len(woken) /\ woken[1] = t
    BY <1>1 DEF SInv, LineOK
  <2> QED
    BY <1>1, <2>1 DEF SInv, Stand, Types, Phase
<1>4. Stand(waiting, rest, at, closing)
  BY <1>2 DEF SInv, Stand
<1>5. CASE active # None
  <2>1. waiting' = Append(waiting, t) /\ UNCHANGED <<at, active, criticalPending>>
    BY <1>5 DEF RunWakes
  <2>2. LineOK(waiting', rest)
    <3>1. LineOK(Append(waiting, t), rest)
      BY <1>1, <1>2, LineAppend
    <3> QED
      BY <1>1, <1>r, <2>1, <3>1
  <2>3. Stand(waiting', rest, at, closing)
    <3>1. \A i \in 1 .. Len(waiting') : \/ i \in 1 .. Len(waiting) /\ waiting'[i] = waiting[i]
                                        \/ waiting'[i] = t
      BY <2>1 DEF SInv, LineOK
    <3> QED
      BY <1>1, <1>3, <1>4, <3>1 DEF Stand
  <2> QED
    BY <1>1, <1>r, <2>1, <2>2, <2>3
       DEF SInv, Types, Counted, Waiting, OneWorker, FocusTakenBack, NothingAfterClose, Unfocused,
           session
<1>6. CASE active = None
  <2>1. PICK p \in {"focusing", "plain"} : Begin(t, p)
    BY <1>6 DEF RunWakes
  <2>2. criticalPending' = criticalPending - 1 /\ UNCHANGED waiting
    BY <1>6 DEF RunWakes
  <2>3. /\ \/ at' = [at EXCEPT ![t] = "idle"] /\ active' = None
           \/ at' = [at EXCEPT ![t] = p] /\ active' = t /\ ~closed
        /\ p \in Working
    BY <1>6, <2>1 DEF Begin, Working
  <2>4. at' \in [Tasks -> Phase] /\ at'[t] # "waiting"
        /\ \A u \in Tasks : u # t => at'[u] = at[u]
    BY <1>1, <1>3, <2>3, PhaseFacts DEF Phase
  <2>5. Counted' /\ criticalPending' \in Nat
    <3>1. Waiting(at') = Waiting(at) \ {t} /\ t \in Waiting(at)
      BY <1>3, <2>4, PhaseFacts DEF Waiting
    <3>2. /\ IsFiniteSet(Waiting(at'))
          /\ Cardinality(Waiting(at')) = Cardinality(Waiting(at)) - 1
      BY <3>1, FS_RemoveElement DEF SInv, Counted
    <3> QED
      BY <2>2, <3>2, FS_CardinalityType DEF SInv, Counted
  <2>6. Types'
    BY <1>1, <2>3, <2>4, <2>5 DEF SInv, Types, Phase, session
  <2>7. Stand(waiting', rest, at', closing')
    <3>1. /\ \A i \in 1 .. Len(waiting) : waiting[i] \in Waiters
          /\ \A i \in 1 .. Len(rest) : rest[i] \in Waiters
      BY <1>2 DEF LineOK
    <3> QED
      BY <1>1, <1>2, <1>4, <2>2, <2>4, <3>1, PhaseFacts DEF Stand, Waiters, session
  <2>8. OneWorker'
    BY <1>3, <1>6, <2>3, PhaseFacts DEF SInv, OneWorker
  <2>9. FocusTakenBack'
    BY <1>1, <1>3, <2>4, PhaseFacts DEF SInv, FocusTakenBack
  <2>10. NothingAfterClose' /\ (closing # "no" <=> closed)' /\ Unfocused'
    BY <1>1, <2>3, <1>6 DEF SInv, NothingAfterClose, Unfocused, session
  <2> QED
    BY <1>1, <1>r, <1>2, <2>2, <2>5, <2>6, <2>7, <2>8, <2>9, <2>10 DEF SInv
<1> QED
  BY <1>5, <1>6

-----------------------------------------------------------------------------
(* close() *)

LEMMA CloseStep ==
  ASSUME SInv, Close
  PROVE  SInv'
<1>1. /\ ~closed /\ closing = "no" /\ closed'
      /\ UNCHANGED <<at, active, criticalPending, woken, detached, focus>>
  BY DEF Close, SInv
<1>2. /\ \A i \in 1 .. Len(waiting) : waiting[i] # Closer
      /\ \A i \in 1 .. Len(woken) : woken[i] # Closer
  BY <1>1 DEF SInv, Stand
<1>3. Types' /\ (closing # "no" <=> closed)'
  BY <1>1 DEF SInv, Types, Close, Leave
<1>4. LineOK(waiting, woken)' /\ Stand(waiting, woken, at, closing)'
  <2>1. CASE active = None
    BY <1>1, <1>2, <2>1 DEF SInv, Stand, Close
  <2>2. CASE active # None
    <3>1. waiting' = Append(waiting, Closer) /\ closing' = "waiting"
      BY <2>2 DEF Close
    <3>2. LineOK(waiting', woken')
      BY <1>1, <1>2, <3>1, LineAppend DEF SInv, Waiters
    <3>3. \A i \in 1 .. Len(waiting') : \/ i \in 1 .. Len(waiting) /\ waiting'[i] = waiting[i]
                                        \/ waiting'[i] = Closer
      BY <3>1 DEF SInv, LineOK
    <3> QED
      BY <1>1, <1>2, <3>1, <3>2, <3>3 DEF SInv, Stand
  <2> QED
    BY <2>1, <2>2
<1>5. NothingAfterClose'
  BY <1>1 DEF Close, NothingAfterClose
<1> QED
  BY <1>1, <1>3, <1>4, <1>5 DEF SInv, Counted, Waiting, OneWorker, FocusTakenBack, Unfocused

LEMMA CloseWakesStep ==
  ASSUME SInv, CloseWakes
  PROVE  SInv'
<1>1. /\ woken # <<>> /\ Head(woken) = Closer /\ woken' = Tail(woken)
      /\ UNCHANGED <<at, active, criticalPending, closed, detached, focus>>
  BY DEF CloseWakes
<1>r. PICK rest : rest = Tail(woken)
  OBVIOUS
<1>2. /\ LineOK(waiting, rest)
      /\ \A i \in 1 .. Len(waiting) : waiting[i] # Closer
      /\ \A i \in 1 .. Len(rest) : rest[i] # Closer
      /\ \A i \in 1 .. Len(rest) : i + 1 \in 1 .. Len(woken) /\ rest[i] = woken[i + 1]
  BY <1>1, <1>r, LineTail DEF SInv
<1>3. closing = "waiting" /\ closed
  <2>1. 1 \in 1 .. Len(woken) /\ woken[1] = Closer
    BY <1>1 DEF SInv, LineOK
  <2> QED
    BY <2>1 DEF SInv, Stand
<1>4. Types' /\ (closing # "no" <=> closed)' /\ NothingAfterClose'
  BY <1>1, <1>3 DEF SInv, Types, NothingAfterClose, CloseWakes, Leave
<1>5. LineOK(waiting, woken)' /\ Stand(waiting, woken, at, closing)'
  <2>1. CASE active = None
    BY <1>1, <1>r, <1>2, <2>1 DEF SInv, Stand, CloseWakes
  <2>2. CASE active # None
    <3>1. waiting' = Append(waiting, Closer) /\ closing' = "waiting"
      BY <1>3, <2>2 DEF CloseWakes
    <3>2. LineOK(Append(waiting, Closer), rest)
      BY <1>1, <1>2, LineAppend DEF Waiters
    <3>3. \A i \in 1 .. Len(waiting') : \/ i \in 1 .. Len(waiting) /\ waiting'[i] = waiting[i]
                                        \/ waiting'[i] = Closer
      BY <3>1 DEF SInv, LineOK
    <3> QED
      BY <1>1, <1>r, <1>2, <3>1, <3>2, <3>3 DEF SInv, Stand
  <2> QED
    BY <2>1, <2>2
<1> QED
  BY <1>1, <1>4, <1>5 DEF SInv, Counted, Waiting, OneWorker, FocusTakenBack, Unfocused

-----------------------------------------------------------------------------
(* The inductive invariant *)

LEMMA SInvInit == Init => SInv
<1> SUFFICES ASSUME Init PROVE SInv
  OBVIOUS
<1>1. Types
  BY DEF Init, Types
<1>2. LineOK(waiting, woken) /\ Stand(waiting, woken, at, closing)
  <2>1. 1 .. Len(<<>>) = {} /\ <<>> \in Seq(Waiters)
    OBVIOUS
  <2> QED
    BY <2>1 DEF Init, LineOK, Stand
<1>3. Counted
  <2>1. Waiting(at) = {}
    BY PhaseFacts DEF Init, Waiting
  <2> QED
    BY <2>1, FS_EmptySet DEF Init, Counted
<1>4. OneWorker /\ FocusTakenBack /\ NothingAfterClose /\ (closing # "no" <=> closed)
      /\ Unfocused
  BY PhaseFacts DEF Init, OneWorker, FocusTakenBack, NothingAfterClose, Unfocused
<1> QED
  BY <1>1, <1>2, <1>3, <1>4 DEF SInv

LEMMA SInvNext == SInv /\ [Next]_vars => SInv'
<1> SUFFICES ASSUME SInv, [Next]_vars PROVE SInv'
  OBVIOUS
<1>1. ASSUME NEW t \in Runs, Run(t) PROVE SInv'
  BY <1>1, RunStep
<1>2. ASSUME NEW t \in Runs, RunWakes(t) PROVE SInv'
  BY <1>2, RunWakesStep
<1>3. ASSUME NEW t \in Runs, Focus(t) PROVE SInv'
  <2>1. /\ t \in Tasks /\ at[t] \in Working
        /\ UNCHANGED <<active, criticalPending, queues, session>>
    BY <1>3, PhaseFacts DEF Focus, Working
  <2>2. PICK p \in {"operating", "unfocusing"} :
          /\ at' = [at EXCEPT ![t] = p]
          /\ \/ focus' = TRUE /\ p = "operating"
             \/ focus' = focus
    BY <1>3 DEF Focus
  <2>3. p \in Working /\ p \in Phase
    BY DEF Working, Phase
  <2>4. Unfocused' /\ focus' \in BOOLEAN
    <3>1. detached' = detached
      BY <2>1 DEF session
    <3>2. CASE ~detached /\ focus' = TRUE
      BY <3>1, <3>2 DEF Unfocused
    <3>3. CASE focus' = focus
      BY <3>1, <3>3 DEF SInv, Types, Unfocused
    <3> QED
      BY <1>3, <3>2, <3>3 DEF Focus
  <2>5. at'[t] = p /\ FocusTakenBack'
    BY <2>1, <2>2 DEF SInv, Types, FocusTakenBack
  <2> QED
    BY <2>1, <2>2, <2>3, <2>4, <2>5, WorkMoves DEF session, SInv, Types
<1>4. ASSUME NEW t \in Runs, Operate(t) PROVE SInv'
  <2>1. /\ t \in Tasks /\ at[t] \in Working
        /\ UNCHANGED <<active, criticalPending, queues, session, focus>>
        /\ at' = [at EXCEPT ![t] = "unfocusing"]
        /\ "unfocusing" \in Working /\ "unfocusing" \in Phase
    BY <1>4, PhaseFacts DEF Operate, Working, Phase
  <2>2. FocusTakenBack' /\ Unfocused' /\ focus' \in BOOLEAN
    BY <2>1 DEF SInv, Types, FocusTakenBack, Unfocused, session
  <2> QED
    BY <2>1, <2>2, WorkMoves DEF session, SInv, Types
<1>5. ASSUME NEW t \in Runs, Unfocus(t) \/ OperatePlain(t) PROVE SInv'
  <2>1. /\ t \in Tasks /\ at[t] \in {"unfocusing", "plain"} /\ at[t] \in Working
        /\ Settle(t) /\ UNCHANGED <<criticalPending, session>>
        /\ at' = [at EXCEPT ![t] = "idle"] /\ "idle" \in Phase
    BY <1>5, PhaseFacts DEF Unfocus, OperatePlain, Settle, Working, Phase
  <2>2. FocusTakenBack' /\ Unfocused' /\ focus' \in BOOLEAN
    <3>1. CASE focus' = FALSE
      BY <3>1 DEF FocusTakenBack, Unfocused
    <3>2. CASE focus' = focus /\ at[t] = "plain"
      BY <2>1, <3>2 DEF SInv, Types, FocusTakenBack, Unfocused, session
    <3>3. CASE focus' = focus /\ detached
      BY <3>3 DEF SInv, Types, FocusTakenBack, Unfocused
    <3> QED
      BY <1>5, <3>1, <3>2, <3>3 DEF Unfocus, OperatePlain
  <2> QED
    BY <2>1, <2>2, WorkMoves DEF session, SInv, Types
<1>6. ASSUME NEW t \in Captures, TryCapture(t) PROVE SInv'
  BY <1>6, IdleBegins, PhaseFacts DEF TryCapture, Working
<1>7. ASSUME NEW t \in Captures, CaptureAnswered(t) \/ CaptureTimesOut(t) PROVE SInv'
  <2>1. /\ t \in Tasks /\ at[t] = "capturing" /\ at[t] \in Working
        /\ Settle(t) /\ UNCHANGED <<criticalPending, session, focus>>
        /\ at' = [at EXCEPT ![t] = "idle"] /\ "idle" \in Phase
    BY <1>7, PhaseFacts DEF CaptureAnswered, CaptureTimesOut, Settle, Working, Phase
  <2>2. FocusTakenBack' /\ Unfocused' /\ focus' \in BOOLEAN
    BY <2>1 DEF SInv, Types, FocusTakenBack, Unfocused, session
  <2> QED
    BY <2>1, <2>2, WorkMoves DEF session, SInv, Types
<1>8. CASE Close
  BY <1>8, CloseStep
<1>9. CASE CloseWakes
  BY <1>9, CloseWakesStep
<1>10. CASE DetachSettles
  <2>1. /\ closing = "detaching" /\ closing' = "done" /\ ~focus' /\ focus' \in BOOLEAN
        /\ UNCHANGED <<at, active, criticalPending, waiting, woken, closed, detached>>
    BY <1>10 DEF DetachSettles, queues
  <2>2. Stand(waiting, woken, at, closing)'
    BY <2>1 DEF SInv, Stand
  <2> QED
    BY <2>1, <2>2 DEF SInv, Types, Counted, Waiting, OneWorker, FocusTakenBack, NothingAfterClose, Unfocused
<1>11. CASE ChromeDetaches
  <2>1. /\ detached' = TRUE /\ focus' = FALSE
        /\ UNCHANGED <<at, active, criticalPending, waiting, woken, closed, closing>>
    BY <1>11 DEF ChromeDetaches, queues
  <2> QED
    BY <2>1
       DEF SInv, Types, Counted, Waiting, OneWorker, FocusTakenBack, NothingAfterClose, Unfocused
<1>12. CASE UNCHANGED vars
  BY <1>12 DEF SInv, Types, Counted, Waiting, OneWorker, FocusTakenBack, NothingAfterClose,
               Unfocused, vars, queues, session
<1> QED
  BY <1>1, <1>2, <1>3, <1>4, <1>5, <1>6, <1>7, <1>8, <1>9, <1>10, <1>11, <1>12 DEF Next

-----------------------------------------------------------------------------
(* The theorems *)

LEMMA SInvAlways == Spec => []SInv
  BY SInvInit, SInvNext, PTL DEF Spec

\* The session's state keeps its type: in particular criticalPending, which
\* tryCapture() and `busy` compare with zero, never drops below it.
THEOREM SessionTypeCorrect == Spec => []SessionTypeOK
<1>1. SInv => SessionTypeOK
  BY DEF SInv, Types, LineOK, Waiters, SessionTypeOK
<1> QED
  BY <1>1, SInvAlways, PTL

\* However many operations and frames contend for a debugger session, at most
\* one of them works on it, and active says which.
THEOREM OneAtATime == Spec => []OneWorker
<1>1. SInv => OneWorker
  BY DEF SInv
<1> QED
  BY <1>1, SInvAlways, PTL

\* Focus emulation is on only while the run that enabled it works.
THEOREM FocusNeverLeftOn == Spec => []FocusTakenBack
<1>1. SInv => FocusTakenBack
  BY DEF SInv
<1> QED
  BY <1>1, SInvAlways, PTL

\* Once close() detaches the debugger, nothing works on the session.
THEOREM ClosedSessionIsFree == Spec => []NothingAfterClose
<1>1. SInv => NothingAfterClose
  BY DEF SInv
<1> QED
  BY <1>1, SInvAlways, PTL

\* criticalPending counts exactly the runs that wait for the session.
THEOREM WaitersCountedOnce == Spec => []WaitersCounted
<1>1. SInv => WaitersCounted
  BY DEF SInv, Counted, Waiting, WaitersCounted
<1> QED
  BY <1>1, SInvAlways, PTL

\* No run or capture takes a session that is closed or detached.
THEOREM NothingStartsLate == Spec => NothingStartsOnceOver
<1>1. [Next]_vars => [closed \/ detached => active' \in {active, None}]_vars
  <2> SUFFICES ASSUME Next, closed \/ detached
               PROVE  active' \in {active, None}
    BY DEF vars
  <2>1. ASSUME NEW t, NEW p, Begin(t, p) PROVE active' = active
    BY <2>1 DEF Begin
  <2>2. ASSUME NEW t, Settle(t) PROVE active' \in {active, None}
    BY <2>2 DEF Settle
  <2>3. ASSUME NEW t \in Runs, Run(t) PROVE active' = active
    BY <2>3 DEF Run
  <2>4. ASSUME NEW t \in Runs, RunWakes(t) PROVE active' = active
    BY <2>1, <2>4 DEF RunWakes
  <2>5. ASSUME NEW t \in Runs, Focus(t) \/ Operate(t) PROVE active' = active
    BY <2>5 DEF Focus, Operate
  <2>6. ASSUME NEW t \in Runs, Unfocus(t) \/ OperatePlain(t) PROVE active' \in {active, None}
    BY <2>2, <2>6 DEF Unfocus, OperatePlain
  <2>7. ASSUME NEW t \in Captures, TryCapture(t) PROVE active' = active
    BY <2>7 DEF TryCapture
  <2>8. ASSUME NEW t \in Captures, CaptureAnswered(t) \/ CaptureTimesOut(t)
        PROVE  active' \in {active, None}
    BY <2>2, <2>8 DEF CaptureAnswered, CaptureTimesOut
  <2>9. Close \/ CloseWakes \/ DetachSettles \/ ChromeDetaches => active' = active
    BY DEF Close, CloseWakes, DetachSettles, ChromeDetaches
  <2> QED
    BY <2>3, <2>4, <2>5, <2>6, <2>7, <2>8, <2>9 DEF Next
<1> QED
  BY <1>1, PTL DEF Spec, NothingStartsOnceOver

=============================================================================
