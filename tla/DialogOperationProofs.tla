------------------------ MODULE DialogOperationProofs ------------------------
(***************************************************************************)
(* Proofs about DialogOperation for any numbers of operations, clients, tabs *)
(* and dialogs and any number of faults.                                    *)
(*                                                                          *)
(* A session that takes work belongs to the operation that has its turn and  *)
(* has not been held yet, or to the one that is held (Kept); and while the    *)
(* first exists nothing is held (NotHeldYet), as the queue gives one turn at  *)
(* a time (QueueRight).  What remains is that nobody takes `held` away under  *)
(* an open session.  Whoever is about to has seen the session end (NotOpen), *)
(* with one exception: a snapshot that reads the marker of an operation that  *)
(* is being interrupted.  That one is saved by the order in which storage is  *)
(* answered: the interruption lets go of the session first (Interruption).    *)
(***************************************************************************)
EXTENDS DialogOperation, SequenceTheorems, TLAPS

OpPhases == {"idle", "queued", "checking", "starting", "enabling", "racing", "snapshotting",
             "persisting", "retained", "interrupting", "leaving", "done"}
RespondPhases == {"idle", "handling", "awaiting", "advancing", "snapshotting", "persisting",
                  "closing", "clearing", "interrupting", "leaving"}
WatcherPhases == {"idle", "armed", "advancing", "snapshotting", "persisting", "closing",
                  "clearing", "reclosing", "reclearing", "done"}
SnapshotPhases == {"idle", "reading", "probing"}
TabPhases == {"idle", "removing", "leaving", "reading", "done"}
Phases == OpPhases \cup RespondPhases \cup WatcherPhases \cup SnapshotPhases \cup TabPhases

Sessions == {"none", "open", "lost", "closing", "closed"}
Bodies == {"none", "running", "over"}
Events == ({"opening", "closed"} \X Dialogs) \cup {<<"detached", 0>>}

Operations ==
  [tab : Tabs \cup {None}, session : Sessions, body : Bodies, listening : BOOLEAN,
   events : Seq(Events), openings : Seq(Dialogs), detached : BOOLEAN,
   entry : 0 .. MaxDialogs, shown : 0 .. MaxDialogs, terminal : BOOLEAN, responding : BOOLEAN]

Scopes == [op : Ops \cup {None}, dialog : 0 .. MaxDialogs, marker : Tabs \cup {None}]

\* The types of what tasks are doing, of the extension's state, and of the world.
TasksTyped ==
  /\ at \in [Tasks -> Phases]
  /\ \A w \in Ops : at[w] \in OpPhases
  /\ \A w \in Responds : at[w] \in RespondPhases
  /\ \A w \in Dialogs : at[w] \in WatcherPhases
  /\ \A w \in Snapshots : at[w] \in SnapshotPhases
  /\ \A w \in Tabs : at[w] \in TabPhases
  /\ mine \in [Tasks -> Scopes]

StateTyped ==
  /\ queue \in Seq(Ops)
  /\ held \in Ops \cup {None}
  /\ storage \in Seq(Tasks)
  /\ closed \subseteq Dialogs
  /\ marker \in Tabs \cup {None}

OpsTyped == op \in [Ops -> Operations]

WorldTyped ==
  /\ tabs \subseteq Tabs
  /\ dialog \in [Tabs -> 0 .. MaxDialogs]
  /\ opened \in 0 .. MaxDialogs
  /\ faults \in 0 .. MaxFaults

Types == TasksTyped /\ StateTyped /\ OpsTyped /\ WorldTyped

-----------------------------------------------------------------------------
(* The invariant *)

\* An operation that has its turn is at the head of the queue.
Turn == {"checking", "starting", "enabling", "racing", "snapshotting", "persisting", "leaving"}

QueueRight ==
  /\ \A i, j \in 1 .. Len(queue) : queue[i] = queue[j] => i = j
  /\ \A i \in 1 .. Len(queue) : at[queue[i]] \in {"queued"} \cup Turn
  /\ \A p \in Ops : at[p] = "queued" => \E i \in 1 .. Len(queue) : queue[i] = p
  /\ \A p \in Ops : at[p] \in Turn => queue # <<>> /\ queue[1] = p

\* Its session is there, and it has not been held.
Fresh == {"enabling", "racing", "snapshotting"}

NotHeldYet == \A p \in Ops : at[p] \in Fresh => held = None

Kept == \A p \in Ops : op[p].session = "open" => at[p] \in Fresh \/ held = p

\* An operation that is held, or that others know of, is past that.
Past == {"persisting", "retained", "interrupting", "leaving", "done"}

Known ==
  /\ \A p \in Ops : mine[p].op = p
  /\ \A w \in Responds \cup Dialogs : at[w] \notin {"idle", "done"} => mine[w].op \in Ops
  /\ \A w \in Tasks \ Ops : mine[w].op # None => at[mine[w].op] \in Past
  /\ held # None => at[held] \in Past
  /\ \A p \in Ops : op[p].terminal \/ op[p].shown # 0 => at[p] \in Past
  /\ \A c \in Snapshots : at[c] = "reading" => mine[c].op # None \/ mine[c].marker # None

\* Whoever is about to let go of an operation has seen its session end.
Closings == {"closing", "clearing", "reclosing", "reclearing", "probing"}

NotOpen ==
  \A w \in Tasks : at[w] \in Closings /\ mine[w].op # None => op[mine[w].op].session # "open"

\* A snapshot's call of the storage is answered once.
ReadOnce ==
  \A c \in Snapshots : \A i \in 1 .. Len(storage) : storage[i] = c =>
    /\ at[c] = "reading"
    /\ \A j \in 1 .. Len(storage) : storage[j] = c => i = j

\* An operation that is terminal and yet open is about to be let go of, before any
\* snapshot that has found it so is answered.
Interrupts(w, p) == w \in Ops \cup Responds /\ at[w] = "interrupting" /\ mine[w].op = p

Interruption ==
  /\ \A p \in Ops : op[p].terminal /\ op[p].session = "open" =>
       \E i \in 1 .. Len(storage) : Interrupts(storage[i], p)
  /\ \A c \in Snapshots, p \in Ops : mine[c].op = p /\ op[p].session = "open" =>
       \A j \in 1 .. Len(storage) : storage[j] = c =>
         \E i \in 1 .. (j - 1) : Interrupts(storage[i], p)

\* The inductive invariant.
Inv ==
  /\ Types
  /\ QueueRight
  /\ NotHeldYet
  /\ Kept
  /\ Known
  /\ NotOpen
  /\ ReadOnce
  /\ Interruption

-----------------------------------------------------------------------------
(* A step of one task: it moves by itself, but for a watcher that it arms      *)

Others(w) ==
  \A v \in Tasks \ {w} :
    \/ at'[v] = at[v] /\ mine'[v] = mine[v]
    \/ /\ v \in Dialogs /\ at'[v] = "armed" /\ mine'[v].op = mine[w].op
       /\ mine[w].op \in Ops /\ at'[mine[w].op] \in Past

InTurn(w) == at[w] \in Turn \/ (at[w] = "queued" /\ Head(queue) = w)

QueueStep(w) ==
  \/ /\ queue' = queue
     /\ w \in Ops => \/ at'[w] = at[w]
                     \/ InTurn(w) /\ at'[w] \in Turn
                     \/ at[w] \notin {"queued"} \cup Turn /\ at'[w] \notin {"queued"} \cup Turn
  \/ /\ w \in Ops /\ queue' = Tail(queue)
     /\ InTurn(w) /\ at'[w] \notin {"queued"} \cup Turn
  \/ /\ w \in Ops /\ queue' = Append(queue, w)
     /\ at[w] = "idle" /\ at'[w] = "queued"

OwnStep(w) ==
  /\ w \in Ops =>
       /\ mine'[w].op = w
       /\ at[w] \in Past => at'[w] \in Past
       /\ at'[w] \in Fresh => at[w] \in Fresh \/ (held = None /\ held' = None)
  /\ w \in Responds \cup Dialogs /\ at'[w] \notin {"idle", "done"} => mine'[w].op \in Ops
  /\ w \notin Ops => mine'[w].op \in {None, mine[w].op, held}
  /\ at'[w] \in Closings /\ mine'[w].op # None => op'[mine'[w].op].session # "open"
  /\ w \in Snapshots /\ at'[w] = "reading" => mine'[w].op # None \/ mine'[w].marker # None

HeldStep(w) ==
  \/ held' = held
  \/ held' = None /\ (held # None => op'[held].session # "open")
  \/ held' = w /\ w \in Ops /\ at[w] = "snapshotting" /\ at'[w] = "persisting"

OpsStep(w) ==
  \A p \in Ops :
    /\ op'[p].session = "open" =>
         \/ /\ op[p].session = "open"
            /\ p = w /\ at[w] \in Fresh => at'[w] \in Fresh \/ held' = w
         \/ p = w /\ at[w] = "starting" /\ at'[w] = "enabling"
    /\ op'[p].terminal \/ op'[p].shown # 0 => at'[p] \in Past
    /\ op'[p].terminal /\ op'[p].session = "open" =>
         \/ op[p].terminal /\ op[p].session = "open"
         \/ /\ storage' = Append(storage, w)
            /\ w \in Ops \cup Responds /\ at'[w] = "interrupting" /\ mine'[w].op = p

StorageStep(w) ==
  /\ \/ storage' = storage
     \/ storage' = Append(storage, w)
     \/ storage # <<>> /\ Head(storage) = w /\ storage' = Tail(storage)
     \/ storage # <<>> /\ Head(storage) = w /\ storage' = Append(Tail(storage), w)
  /\ at[w] = "interrupting" =>
       \/ UNCHANGED <<at, mine, storage>>
       \/ op'[mine[w].op].session # "open"
  /\ w \in Snapshots =>
       \/ /\ at[w] # "reading" /\ at'[w] = "reading" /\ storage' = Append(storage, w)
          /\ mine'[w].op # None => op[mine'[w].op].terminal /\ UNCHANGED op
       \/ at[w] = "reading" /\ storage # <<>> /\ Head(storage) = w /\ storage' = Tail(storage)
       \/ at[w] # "reading" /\ storage' = storage

TaskStep(w) ==
  Others(w) /\ QueueStep(w) /\ OwnStep(w) /\ HeldStep(w) /\ OpsStep(w) /\ StorageStep(w)

LEMMA Distinct ==
  /\ \A p \in Ops : p \in Tasks /\ p # None /\ p \notin Responds /\ p \notin Snapshots
                    /\ p \notin Tabs /\ p \notin Dialogs
  /\ \A w \in Responds : w \in Tasks /\ w \notin Ops /\ w \notin Snapshots /\ w \notin Tabs
                         /\ w \notin Dialogs
  /\ \A c \in Snapshots : c \in Tasks /\ c \notin Ops /\ c \notin Responds /\ c \notin Tabs
                          /\ c \notin Dialogs
  /\ \A t \in Tabs : t \in Tasks /\ t # None /\ t \notin Ops /\ t \notin Responds
                     /\ t \notin Snapshots /\ t \notin Dialogs
  /\ \A d \in Dialogs : d \in Tasks /\ d \notin Ops /\ d \notin Responds /\ d \notin Snapshots
                        /\ d \notin Tabs
<1>1. Dialogs \subseteq 0 .. MaxDialogs
  BY BoundsValid DEF Dialogs
<1> QED
  BY <1>1, NoneFresh, TasksDisjoint DEF Tasks

LEMMA NoDialog == 0 \notin Tasks
<1>1. 0 \in 0 .. MaxDialogs /\ 0 \notin Dialogs
  BY BoundsValid DEF Dialogs
<1> QED
  BY <1>1, TasksDisjoint DEF Tasks

LEMMA OpsStay ==
  ASSUME NEW w \in Tasks, Others(w), NEW p \in Ops, p # w
  PROVE  at'[p] = at[p] /\ mine'[p] = mine[p]
  BY Distinct DEF Others

LEMMA QueueStepKeeps ==
  ASSUME Types, QueueRight, NEW w \in Tasks, Others(w), QueueStep(w)
  PROVE  QueueRight'
<1>0. queue \in Seq(Ops) /\ Len(queue) \in Nat /\ \A i \in 1 .. Len(queue) : queue[i] \in Ops
  BY ElementOfSeq, LenProperties DEF Types, StateTyped
<1>1. \A p \in Ops : p # w => at'[p] = at[p]
  BY OpsStay
<1>2. ASSUME w \in Ops, InTurn(w)
      PROVE  queue # <<>> /\ queue[1] = w /\ 1 \in 1 .. Len(queue)
  <2>1. PICK i \in 1 .. Len(queue) : at[w] = "queued" => queue[i] = w
    <3>1. CASE at[w] = "queued"
      BY <1>2, <3>1 DEF QueueRight
    <3>2. CASE at[w] \in Turn
      <4>1. queue # <<>> /\ at[w] # "queued"
        BY <1>2, <3>2 DEF QueueRight, Turn
      <4>2. 1 \in 1 .. Len(queue)
        BY <1>0, <4>1
      <4> QED
        BY <4>1, <4>2
    <3> QED
      BY <1>2, <3>1, <3>2 DEF InTurn
  <2>2. queue # <<>> /\ 1 \in 1 .. Len(queue)
    BY <2>1, <1>0
  <2>3. queue[1] = w
    BY <1>0, <1>2, <2>2 DEF QueueRight, InTurn
  <2> QED
    BY <2>2, <2>3
<1>3. ASSUME w \in Ops, InTurn(w), NEW p \in Ops, at[p] \in Turn
      PROVE  p = w
  BY <1>2, <1>3 DEF QueueRight
<1>4. CASE queue' = queue /\ (w \notin Ops \/ at'[w] = at[w])
  <2>1. \A p \in Ops : at'[p] = at[p]
    BY <1>1, <1>4
  <2> QED
    BY <1>0, <1>4, <2>1 DEF QueueRight
<1>5. CASE w \in Ops /\ queue' = queue /\ InTurn(w) /\ at'[w] \in Turn
  <2>1. \A i \in 1 .. Len(queue') : at'[queue'[i]] \in {"queued"} \cup Turn
    BY <1>0, <1>1, <1>5 DEF QueueRight
  <2>2. \A p \in Ops : at'[p] = "queued" => \E i \in 1 .. Len(queue') : queue'[i] = p
    BY <1>1, <1>5 DEF QueueRight, Turn
  <2>3. \A p \in Ops : at'[p] \in Turn => queue' # <<>> /\ queue'[1] = p
    BY <1>1, <1>2, <1>3, <1>5
  <2> QED
    BY <1>5, <2>1, <2>2, <2>3 DEF QueueRight
<1>6. CASE /\ w \in Ops /\ queue' = queue
           /\ at[w] \notin {"queued"} \cup Turn /\ at'[w] \notin {"queued"} \cup Turn
  <2>1. \A i \in 1 .. Len(queue') : at'[queue'[i]] \in {"queued"} \cup Turn
    BY <1>0, <1>1, <1>6 DEF QueueRight
  <2>2. \A p \in Ops : at'[p] \in {"queued"} \cup Turn => at'[p] = at[p]
    BY <1>1, <1>6
  <2> QED
    BY <1>6, <2>1, <2>2 DEF QueueRight
<1>7. CASE /\ w \in Ops /\ queue' = Tail(queue)
           /\ InTurn(w) /\ at'[w] \notin {"queued"} \cup Turn
  <2>1. queue # <<>> /\ queue[1] = w
    BY <1>2, <1>7
  <2>2. /\ Len(queue') = Len(queue) - 1
        /\ \A i \in 1 .. Len(queue') : queue'[i] = queue[i + 1] /\ i + 1 \in 1 .. Len(queue)
    BY <1>0, <1>7, <2>1, HeadTailProperties
  <2>3. \A i, j \in 1 .. Len(queue') : queue'[i] = queue'[j] => i = j
    BY <1>0, <2>2 DEF QueueRight
  <2>4. \A i \in 1 .. Len(queue') : queue'[i] \in Ops /\ queue'[i] # w
    BY SMTT(30), <1>0, <2>1, <2>2 DEF QueueRight
  <2>5. \A i \in 1 .. Len(queue') : at'[queue'[i]] \in {"queued"} \cup Turn
    BY <1>1, <2>2, <2>4 DEF QueueRight
  <2>6. ASSUME NEW p \in Ops, at'[p] = "queued"
        PROVE  \E i \in 1 .. Len(queue') : queue'[i] = p
    <3>1. p # w /\ at[p] = "queued"
      BY <1>1, <1>7, <2>6
    <3>2. PICK i \in 1 .. Len(queue) : queue[i] = p
      BY <3>1 DEF QueueRight
    <3>3. i - 1 \in 1 .. Len(queue') /\ queue'[i - 1] = p
      BY <1>0, <2>1, <2>2, <3>1, <3>2
    <3> QED
      BY <3>3
  <2>7. \A p \in Ops : at'[p] \notin Turn
    BY <1>1, <1>3, <1>7
  <2> QED
    BY <2>3, <2>5, <2>6, <2>7 DEF QueueRight
<1>8. CASE /\ w \in Ops /\ queue' = Append(queue, w)
           /\ at[w] = "idle" /\ at'[w] = "queued"
  <2>1. /\ Len(queue') = Len(queue) + 1
        /\ \A i \in 1 .. Len(queue) : queue'[i] = queue[i]
        /\ queue'[Len(queue) + 1] = w
    BY <1>0, <1>8, AppendProperties
  <2>2. \A i \in 1 .. Len(queue) : queue[i] # w
    BY <1>8 DEF QueueRight, Turn
  <2>3. \A i, j \in 1 .. Len(queue') : queue'[i] = queue'[j] => i = j
    BY <1>0, <2>1, <2>2 DEF QueueRight
  <2>4. \A i \in 1 .. Len(queue') : at'[queue'[i]] \in {"queued"} \cup Turn
    BY <1>0, <1>1, <1>8, <2>1, <2>2 DEF QueueRight
  <2>5. ASSUME NEW p \in Ops, at'[p] = "queued"
        PROVE  \E i \in 1 .. Len(queue') : queue'[i] = p
    <3>1. CASE p = w
      BY <1>0, <2>1, <3>1
    <3>2. CASE p # w
      <4>1. PICK i \in 1 .. Len(queue) : queue[i] = p
        BY <1>1, <2>5, <3>2 DEF QueueRight
      <4> QED
        BY <1>0, <2>1, <4>1
    <3> QED
      BY <3>1, <3>2
  <2>6. \A p \in Ops : at'[p] \in Turn => queue' # <<>> /\ queue'[1] = p
    <3> SUFFICES ASSUME NEW p \in Ops, at'[p] \in Turn
                 PROVE  queue' # <<>> /\ queue'[1] = p
      OBVIOUS
    <3>1. p # w /\ at[p] \in Turn
      BY <1>1, <1>8 DEF Turn
    <3>2. queue # <<>> /\ queue[1] = p
      BY <3>1 DEF QueueRight
    <3> QED
      BY <1>0, <1>8, <2>1, <3>2
  <2> QED
    BY <2>3, <2>4, <2>5, <2>6 DEF QueueRight
<1> QED
  BY <1>4, <1>5, <1>6, <1>7, <1>8 DEF QueueStep

\* Once past, an operation stays past.
LEMMA PastStays ==
  ASSUME Types, NEW w \in Tasks, Others(w), OwnStep(w), NEW p \in Ops, at[p] \in Past
  PROVE  at'[p] \in Past
<1>1. CASE p = w
  BY <1>1 DEF OwnStep
<1>2. CASE p # w
  BY <1>2, OpsStay
<1> QED
  BY <1>1, <1>2

LEMMA HeldStepKeeps ==
  ASSUME Types, QueueRight, NotHeldYet, Kept, Known, NEW w \in Tasks, Types',
         Others(w), OwnStep(w), HeldStep(w), OpsStep(w)
  PROVE  NotHeldYet' /\ Kept'
<1>1. ASSUME NEW p \in Ops, at'[p] \in Fresh
      PROVE  held' = None
  <2>1. CASE p = w
    BY <1>1, <2>1 DEF OwnStep, HeldStep, NotHeldYet, Fresh
  <2>2. CASE p # w
    <3>1. at[p] \in Fresh /\ held = None
      BY <1>1, <2>2, OpsStay DEF NotHeldYet
    <3>2. ~(w \in Ops /\ at[w] = "snapshotting")
      BY <3>1, <2>2 DEF QueueRight, Fresh, Turn
    <3> QED
      BY <3>1, <3>2 DEF HeldStep
  <2> QED
    BY <2>1, <2>2
<1>2. ASSUME NEW p \in Ops, op'[p].session = "open"
      PROVE  at'[p] \in Fresh \/ held' = p
  <2>1. CASE at[p] = "starting" /\ p = w /\ at'[p] = "enabling"
    BY <2>1 DEF Fresh
  <2>2. CASE /\ op[p].session = "open"
             /\ p = w /\ at[w] \in Fresh => at'[w] \in Fresh \/ held' = w
    <3>1. CASE at[p] \in Fresh
      <4>1. CASE p = w
        BY <2>2, <3>1, <4>1
      <4>2. CASE p # w
        BY <3>1, <4>2, OpsStay
      <4> QED
        BY <4>1, <4>2
    <3>2. CASE at[p] \notin Fresh
      <4>1. held = p /\ p # None
        BY <2>2, <3>2, Distinct DEF Kept
      <4>2. CASE held' = w /\ w \in Ops /\ at[w] = "snapshotting"
        BY <4>1, <4>2 DEF NotHeldYet, Fresh
      <4> QED
        BY <1>2, <4>1, <4>2 DEF HeldStep
    <3> QED
      BY <3>1, <3>2
  <2> QED
    BY <1>2, <2>1, <2>2 DEF OpsStep
<1> QED
  BY <1>1, <1>2 DEF NotHeldYet, Kept

LEMMA KnownKept ==
  ASSUME Types, Known, NEW w \in Tasks, Types',
         Others(w), OwnStep(w), HeldStep(w), OpsStep(w)
  PROVE  Known'
<1>1. \A p \in Ops : mine'[p].op = p
  <2> SUFFICES ASSUME NEW p \in Ops
               PROVE  mine'[p].op = p
    OBVIOUS
  <2>1. CASE p = w
    BY <2>1 DEF OwnStep
  <2>2. CASE p # w
    BY <2>2, OpsStay DEF Known
  <2> QED
    BY <2>1, <2>2
<1>2. ASSUME NEW v \in Responds \cup Dialogs, at'[v] \notin {"idle", "done"}
      PROVE  mine'[v].op \in Ops
  <2>1. CASE v = w
    BY <1>2, <2>1 DEF OwnStep
  <2>2. CASE v # w
    <3>1. v \in Tasks \ {w}
      BY <2>2 DEF Tasks
    <3> QED
      BY <1>2, <3>1 DEF Others, Known
  <2> QED
    BY <2>1, <2>2
<1>3. held # None => held \in Ops /\ at[held] \in Past
  BY DEF Known, Types, StateTyped
<1>4. ASSUME NEW v \in Tasks \ Ops, mine[v].op # None
      PROVE  mine[v].op \in Ops /\ at[mine[v].op] \in Past
  <2>1. mine[v] \in Scopes
    BY DEF Types, TasksTyped
  <2> QED
    BY <1>4, <2>1 DEF Known, Scopes
<1>5. ASSUME NEW v \in Tasks \ Ops, mine'[v].op # None
      PROVE  at'[mine'[v].op] \in Past
  <2>1. CASE v = w
    <3>1. mine'[w].op \in Ops /\ at[mine'[w].op] \in Past
      BY <1>3, <1>4, <1>5, <2>1 DEF OwnStep
    <3> QED
      BY <2>1, <3>1, PastStays
  <2>2. CASE v # w /\ mine'[v] = mine[v]
    BY <1>4, <1>5, <2>2, PastStays
  <2> QED
    BY <2>1, <2>2, <1>5 DEF Others
<1>6. held' # None => at'[held'] \in Past
  <2>1. CASE held' = held
    BY <1>3, <2>1, PastStays
  <2>2. CASE held' = w /\ at'[w] = "persisting"
    BY <2>2 DEF Past
  <2> QED
    BY <2>1, <2>2 DEF HeldStep
<1>7. \A p \in Ops : op'[p].terminal \/ op'[p].shown # 0 => at'[p] \in Past
  BY DEF OpsStep
<1>8. ASSUME NEW c \in Snapshots, at'[c] = "reading"
      PROVE  mine'[c].op # None \/ mine'[c].marker # None
  <2>1. CASE c = w
    BY <1>8, <2>1 DEF OwnStep
  <2>2. CASE c # w
    <3>1. at'[c] = at[c] /\ mine'[c] = mine[c]
      BY <2>2, Distinct DEF Others
    <3> QED
      BY <1>8, <3>1 DEF Known
  <2> QED
    BY <2>1, <2>2
<1> QED
  BY <1>1, <1>2, <1>5, <1>6, <1>7, <1>8 DEF Known

\* A session that was not open, of an operation that others know of, stays so.
LEMMA NoReopening ==
  ASSUME Types, NEW w \in Tasks, OpsStep(w), NEW p \in Ops, at[p] \in Past
  PROVE  op'[p].session = "open" => op[p].session = "open"
  BY DEF OpsStep, Past

LEMMA NotOpenKept ==
  ASSUME Types, Known, NotOpen, NEW w \in Tasks, Types', Others(w), OwnStep(w), OpsStep(w)
  PROVE  NotOpen'
<1> SUFFICES ASSUME NEW v \in Tasks, at'[v] \in Closings, mine'[v].op # None
             PROVE  op'[mine'[v].op].session # "open"
  BY DEF NotOpen
<1>1. CASE v = w
  BY <1>1 DEF OwnStep
<1>2. CASE v # w
  <2>1. at'[v] = at[v] /\ mine'[v] = mine[v]
    BY <1>2 DEF Others, Closings
  <2>2. v \notin Ops
    BY DEF Closings, Types, TasksTyped, OpPhases
  <2>3. mine[v] \in Scopes
    BY DEF Types, TasksTyped
  <2>4. mine[v].op \in Ops /\ at[mine[v].op] \in Past
    BY <2>1, <2>2, <2>3 DEF Known, Scopes
  <2>5. op[mine[v].op].session # "open"
    BY <2>1 DEF NotOpen
  <2> QED
    BY <2>1, <2>4, <2>5, NoReopening
<1> QED
  BY <1>1, <1>2

\* What becomes of the calls of the storage: the first is answered or not, and the
\* task makes another one or not.
LEMMA StorageMoves ==
  ASSUME Types, NEW w \in Tasks, StorageStep(w)
  PROVE  \E k \in {0, 1} :
           /\ k = 1 => storage # <<>> /\ storage[1] = w
           /\ Len(storage) \in Nat /\ Len(storage') \in Nat
           /\ Len(storage) - k <= Len(storage')
           /\ \A j \in 1 .. Len(storage') :
                IF j <= Len(storage) - k THEN storage'[j] = storage[j + k] ELSE storage'[j] = w
<1>0. storage \in Seq(Tasks) /\ Len(storage) \in Nat
  BY LenProperties DEF Types, StateTyped
<1>1. CASE storage' = storage
  BY <1>0, <1>1
<1>2. CASE storage' = Append(storage, w)
  BY <1>0, <1>2, AppendProperties
<1>3. CASE storage # <<>> /\ Head(storage) = w
  <2> DEFINE s == Tail(storage)
  <2>1. /\ storage[1] = w /\ s \in Seq(Tasks) /\ Len(s) = Len(storage) - 1 /\ Len(s) \in Nat
        /\ \A j \in 1 .. Len(s) : s[j] = storage[j + 1]
    BY <1>0, <1>3, HeadTailProperties, LenProperties
  <2> HIDE DEF s
  <2>2. CASE storage' = s
    BY <1>0, <1>3, <2>1, <2>2
  <2>3. CASE storage' = Append(s, w)
    <3>1. /\ Len(storage') = Len(s) + 1
          /\ \A j \in 1 .. Len(s) : storage'[j] = s[j]
          /\ storage'[Len(s) + 1] = w
      BY <2>1, <2>3, AppendProperties
    <3> QED
      BY <1>0, <1>3, <2>1, <3>1
  <2> QED
    BY <1>1, <1>2, <2>2, <2>3 DEF StorageStep, s
<1> QED
  BY <1>1, <1>2, <1>3 DEF StorageStep

LEMMA ReadOnceKept ==
  ASSUME Types, ReadOnce, NEW w \in Tasks, Types', Others(w), StorageStep(w)
  PROVE  ReadOnce'
<1> SUFFICES ASSUME NEW c \in Snapshots, NEW i \in 1 .. Len(storage'), storage'[i] = c
             PROVE  /\ at'[c] = "reading"
                    /\ \A j \in 1 .. Len(storage') : storage'[j] = c => i = j
  BY DEF ReadOnce
<1>0. storage \in Seq(Tasks) /\ Len(storage) \in Nat
  BY LenProperties DEF Types, StateTyped
<1>1. CASE c # w
  <2>1. at'[c] = at[c]
    BY <1>1, Distinct DEF Others
  <2>2. PICK k \in {0, 1} :
           /\ Len(storage) \in Nat /\ Len(storage') \in Nat
           /\ Len(storage) - k <= Len(storage')
           /\ \A j \in 1 .. Len(storage') :
                IF j <= Len(storage) - k THEN storage'[j] = storage[j + k] ELSE storage'[j] = w
    BY StorageMoves
  <2>3. \A j \in 1 .. Len(storage') : storage'[j] = c =>
          j + k \in 1 .. Len(storage) /\ storage[j + k] = c
    BY <1>1, <2>2
  <2>4. at[c] = "reading" /\ i + k \in 1 .. Len(storage) /\ storage[i + k] = c
    BY <2>3 DEF ReadOnce
  <2>5. ASSUME NEW j \in 1 .. Len(storage'), storage'[j] = c
        PROVE  i = j
    <3>1. j + k \in 1 .. Len(storage) /\ storage[j + k] = c
      BY <2>3, <2>5
    <3>2. i + k = j + k
      BY <2>4, <3>1 DEF ReadOnce
    <3> QED
      BY <3>2
  <2> QED
    BY <2>1, <2>4, <2>5
<1>2. CASE c = w
  <2>1. CASE at[w] # "reading" /\ at'[w] = "reading" /\ storage' = Append(storage, w)
    <3>1. \A j \in 1 .. Len(storage) : storage[j] # w
      BY <1>2, <2>1 DEF ReadOnce
    <3>2. /\ Len(storage') = Len(storage) + 1
          /\ \A j \in 1 .. Len(storage) : storage'[j] = storage[j]
      BY <1>0, <2>1, AppendProperties
    <3> QED
      BY <1>0, <1>2, <2>1, <3>1, <3>2
  <2>2. CASE storage # <<>> /\ Head(storage) = w /\ storage' = Tail(storage)
    <3>1. /\ storage[1] = w /\ Len(storage') = Len(storage) - 1
          /\ \A j \in 1 .. Len(storage') : storage'[j] = storage[j + 1]
      BY <1>0, <2>2, HeadTailProperties
    <3>2. 1 \in 1 .. Len(storage) /\ i + 1 \in 1 .. Len(storage) /\ storage[i + 1] = c
      BY <1>0, <2>2, <3>1
    <3>3. 1 = i + 1
      BY <1>2, <3>1, <3>2 DEF ReadOnce
    <3> QED
      BY <3>3
  <2>3. CASE at[w] # "reading" /\ storage' = storage
    BY <1>2, <2>3 DEF ReadOnce
  <2> QED
    BY <1>2, <2>1, <2>2, <2>3 DEF StorageStep
<1> QED
  BY <1>1, <1>2

\* Whoever interrupts an operation whose session stays open goes on to.
LEMMA InterruptsOn ==
  ASSUME Types, Known, NEW w \in Tasks, Others(w), StorageStep(w),
         NEW v, NEW p \in Ops, Interrupts(v, p), op'[p].session = "open"
  PROVE  \/ UNCHANGED <<at, mine, storage>>
         \/ v # w /\ v \in Ops \cup Responds /\ at'[v] = "interrupting" /\ mine'[v].op = p
<1>1. CASE v = w
  BY <1>1 DEF Interrupts, StorageStep
<1>2. CASE v # w
  <2>1. v \in Tasks /\ v \notin Dialogs
    BY Distinct DEF Interrupts
  <2>2. at'[v] = at[v] /\ mine'[v] = mine[v]
    BY <1>2, <2>1 DEF Others
  <2> QED
    BY <1>2, <2>2 DEF Interrupts
<1> QED
  BY <1>1, <1>2

LEMMA InterruptionKept ==
  ASSUME Types, Known, ReadOnce, Interruption, NEW w \in Tasks, Types',
         Others(w), OwnStep(w), OpsStep(w), StorageStep(w)
  PROVE  Interruption'
<1>0. PICK k \in {0, 1} :
         /\ k = 1 => storage # <<>> /\ storage[1] = w
         /\ Len(storage) \in Nat /\ Len(storage') \in Nat
         /\ Len(storage) - k <= Len(storage')
         /\ \A j \in 1 .. Len(storage') :
              IF j <= Len(storage) - k THEN storage'[j] = storage[j + k] ELSE storage'[j] = w
  BY StorageMoves
<1> DEFINE Goes(v, p) == v \in Ops \cup Responds /\ at'[v] = "interrupting" /\ mine'[v].op = p
\* Where it stands does not change but for the calls before it.
<1>1. ASSUME NEW p \in Ops, op'[p].session = "open", NEW n \in 0 .. Len(storage),
             NEW i \in 1 .. n, Interrupts(storage[i], p)
      PROVE  \E m \in 1 .. (n - (IF storage' = storage THEN 0 ELSE k)) :
               m \in 1 .. Len(storage') /\ Goes(storage'[m], p)
  <2>1. PICK v : v = storage[i]
    OBVIOUS
  <2>2. CASE UNCHANGED <<at, mine, storage>>
    BY <1>0, <1>1, <2>2 DEF Interrupts
  <2>3. CASE v # w /\ Goes(v, p)
    <3>1. CASE storage' = storage
      BY <1>0, <2>1, <2>3, <3>1
    <3>2. CASE storage' # storage
      <4>1. i # 1 \/ k = 0
        BY <1>0, <2>1, <2>3
      <4>2. i - k \in 1 .. (n - k) /\ i - k \in 1 .. Len(storage')
        BY <1>0, <4>1
      <4>3. storage'[i - k] = v
        BY <1>0, <2>1, <4>2
      <4> QED
        BY <2>3, <3>2, <4>2, <4>3
    <3> QED
      BY <3>1, <3>2
  <2>4. Interrupts(v, p)
    BY <1>1, <2>1
  <2> HIDE DEF Goes
  <2>5. UNCHANGED <<at, mine, storage>> \/ (v # w /\ Goes(v, p))
    BY <1>1, <2>4, InterruptsOn DEF Goes
  <2> QED
    BY <2>2, <2>3, <2>5
<1>2. ASSUME NEW p \in Ops, op'[p].terminal, op'[p].session = "open"
      PROVE  \E m \in 1 .. Len(storage') : Goes(storage'[m], p)
  <2>1. CASE op[p].terminal /\ op[p].session = "open"
    <3>1. PICK i \in 1 .. Len(storage) : Interrupts(storage[i], p)
      BY <2>1 DEF Interruption
    <3>2. Len(storage) \in 0 .. Len(storage)
      BY <1>0
    <3> HIDE DEF Goes
    <3> QED
      BY <1>1, <1>2, <3>1, <3>2
  <2>2. CASE storage' = Append(storage, w) /\ Goes(w, p)
    <3>1. Len(storage) + 1 \in 1 .. Len(storage') /\ storage'[Len(storage) + 1] = w
      BY <1>0, <2>2, AppendProperties DEF Types, StateTyped
    <3> QED
      BY <2>2, <3>1
  <2> QED
    BY <1>2, <2>1, <2>2 DEF OpsStep
<1>3. ASSUME NEW c \in Snapshots, NEW p \in Ops, mine'[c].op = p, op'[p].session = "open",
             NEW j \in 1 .. Len(storage'), storage'[j] = c
      PROVE  \E m \in 1 .. (j - 1) : Goes(storage'[m], p)
  <2>0. at'[c] = "reading"
    <3>1. ReadOnce'
      BY ReadOnceKept
    <3> QED
      BY <1>3, <3>1 DEF ReadOnce
  <2>1. CASE c # w
    <3>1. mine'[c] = mine[c]
      BY <2>1, Distinct DEF Others
    <3>2. at[p] \in Past
      BY <1>3, <3>1, Distinct DEF Known
    <3>3. op[p].session = "open"
      BY <1>3, <3>2, NoReopening
    <3>4. j + k \in 1 .. Len(storage) /\ storage[j + k] = c
      BY <1>0, <1>3, <2>1
    <3>5. PICK n \in {j, j + k} : /\ n \in 1 .. Len(storage) /\ storage[n] = c
                                  /\ n = j + (IF storage' = storage THEN 0 ELSE k)
      BY <1>0, <1>3, <3>4
    <3>6. PICK i \in 1 .. (n - 1) : Interrupts(storage[i], p)
      BY <1>3, <3>1, <3>3, <3>5 DEF Interruption
    <3>7. n - 1 \in 0 .. Len(storage) /\ (n - 1) - (IF storage' = storage THEN 0 ELSE k) = j - 1
      BY <1>0, <3>5
    <3> HIDE DEF Goes
    <3> QED
      BY <1>1, <1>3, <3>6, <3>7
  <2>2. CASE c = w
    <3>1. CASE /\ at[w] # "reading" /\ at'[w] = "reading" /\ storage' = Append(storage, w)
               /\ mine'[w].op # None => op[mine'[w].op].terminal /\ UNCHANGED op
      <4>1. op[p].terminal /\ op[p].session = "open"
        BY <1>3, <2>2, <3>1, Distinct
      <4>2. PICK i \in 1 .. Len(storage) : Interrupts(storage[i], p)
        BY <4>1 DEF Interruption
      <4>3. /\ Len(storage') = Len(storage) + 1
            /\ \A m \in 1 .. Len(storage) : storage'[m] = storage[m]
        BY <3>1, AppendProperties DEF Types, StateTyped
      <4>4. \A m \in 1 .. Len(storage) : storage[m] # c
        BY <2>2, <3>1 DEF ReadOnce
      <4>5. j = Len(storage) + 1
        BY <1>0, <1>3, <4>3, <4>4
      <4>6. PICK v : v = storage[i]
        OBVIOUS
      <4>7. Goes(v, p)
        <5>1. Interrupts(v, p)
          BY <4>2, <4>6
        <5> QED
          BY <1>3, <3>1, <5>1, InterruptsOn
      <4> QED
        BY <1>0, <4>3, <4>5, <4>6, <4>7
    <3>2. CASE at[w] = "reading" /\ storage # <<>> /\ Head(storage) = w /\ storage' = Tail(storage)
      <4>1. /\ storage[1] = w /\ Len(storage') = Len(storage) - 1
            /\ \A m \in 1 .. Len(storage') : storage'[m] = storage[m + 1]
        BY <3>2, HeadTailProperties DEF Types, StateTyped
      <4>2. 1 \in 1 .. Len(storage) /\ j + 1 \in 1 .. Len(storage) /\ storage[j + 1] = c
        BY <1>0, <1>3, <4>1
      <4>3. 1 = j + 1
        BY <2>2, <4>1, <4>2 DEF ReadOnce
      <4> QED
        BY <4>3
    <3>3. CASE at[w] # "reading" /\ storage' = storage
      BY <1>3, <2>2, <3>3 DEF ReadOnce
    <3> QED
      BY <2>2, <3>1, <3>2, <3>3 DEF StorageStep
  <2> QED
    BY <2>1, <2>2
<1> QED
  BY <1>2, <1>3 DEF Interruption, Interrupts

LEMMA TaskStepKeeps ==
  ASSUME Inv, NEW w \in Tasks, Types', TaskStep(w)
  PROVE  Inv'
  BY QueueStepKeeps, HeldStepKeeps, KnownKept, NotOpenKept, ReadOnceKept, InterruptionKept
  DEF Inv, TaskStep

-----------------------------------------------------------------------------
(* What the helpers make of an operation *)

\* Nothing happens to an operation that the invariant would mind.
Calm(o, n) ==
  /\ n \in Operations
  /\ n.session = "open" => o.session = "open"
  /\ n.terminal => o.terminal
  /\ n.shown # 0 => o.shown # 0

CalmOps ==
  /\ op' \in [Ops -> Operations]
  /\ \A p \in Ops : op'[p] = op[p] \/ Calm(op[p], op'[p])

LEMMA DeafIs ==
  ASSUME NEW o \in Operations
  PROVE  /\ Deaf(o) \in Operations
         /\ Deaf(o).session = o.session /\ Deaf(o).terminal = o.terminal /\ Deaf(o).shown = o.shown
<1>1. <<>> \in Seq(Events) /\ <<>> \in Seq(Dialogs)
  BY EmptySeq
<1>2. Deaf(o) \in Operations
  BY <1>1 DEF Deaf, Operations
<1>3. Deaf(o).session = o.session /\ Deaf(o).terminal = o.terminal /\ Deaf(o).shown = o.shown
  BY DEF Deaf, Operations
<1> QED
  BY <1>2, <1>3

LEMMA LetGoIs ==
  ASSUME NEW o \in Operations
  PROVE  /\ LetGo(o) \in Operations /\ Calm(o, LetGo(o))
         /\ LetGo(o).session # "open"
         /\ LetGo(o).terminal = o.terminal /\ LetGo(o).shown = o.shown
<1> DEFINE d == Deaf(o)
           x == CASE d.session = "open" -> "closing"
                  [] d.session = "lost" -> "closed"
                  [] OTHER -> d.session
<1>1. d \in Operations /\ d.terminal = o.terminal /\ d.shown = o.shown
  BY DeafIs
<1>2. LetGo(o) = [d EXCEPT !.session = x]
  BY DEF LetGo
<1> HIDE DEF d
<1>3. x \in Sessions /\ x # "open"
  BY <1>1 DEF Operations, Sessions
<1> HIDE DEF x
<1>4. LetGo(o) \in Operations
  BY <1>1, <1>2, <1>3 DEF Operations
<1>5. LetGo(o).session = x /\ LetGo(o).terminal = d.terminal /\ LetGo(o).shown = d.shown
  BY <1>1, <1>2 DEF Operations
<1> QED
  BY <1>1, <1>3, <1>4, <1>5 DEF Calm

LEMMA NotifyIs ==
  ASSUME NEW o \in Operations, NEW kind, NEW d, <<kind, d>> \in Events
  PROVE  /\ Notify(o, kind, d) \in Operations /\ Calm(o, Notify(o, kind, d))
         /\ Notify(o, kind, d).session = o.session
<1>1. CASE o.listening
  <2> DEFINE e == Append(o.events, <<kind, d>>)
  <2>1. e \in Seq(Events)
    BY DEF Operations
  <2>2. Notify(o, kind, d) = [o EXCEPT !.events = e]
    BY <1>1 DEF Notify
  <2> HIDE DEF e
  <2>3. Notify(o, kind, d) \in Operations
    BY <2>1, <2>2 DEF Operations
  <2>4. /\ Notify(o, kind, d).session = o.session
        /\ Notify(o, kind, d).terminal = o.terminal
        /\ Notify(o, kind, d).shown = o.shown
    BY <2>2 DEF Operations
  <2> QED
    BY <2>3, <2>4 DEF Calm
<1>2. CASE ~o.listening
  <2>1. Notify(o, kind, d) = o
    BY <1>2 DEF Notify
  <2> QED
    BY <2>1 DEF Calm
<1> QED
  BY <1>1, <1>2

LEMMA LostIs ==
  ASSUME NEW o \in Operations
  PROVE  Lost(o) \in Operations /\ Calm(o, Lost(o))
<1> DEFINE n == Notify(o, "detached", 0)
           x == IF n.session = "open" THEN "lost" ELSE "closed"
<1>1. n \in Operations /\ Calm(o, n)
  BY NotifyIs DEF Events
<1>2. Lost(o) = [n EXCEPT !.session = x]
  BY DEF Lost
<1> HIDE DEF n
<1>3. x \in Sessions /\ x # "open"
  BY DEF Sessions
<1> HIDE DEF x
<1>4. Lost(o) \in Operations
  BY <1>1, <1>2, <1>3 DEF Operations
<1>5. Lost(o).session = x /\ Lost(o).terminal = n.terminal /\ Lost(o).shown = n.shown
  BY <1>1, <1>2 DEF Operations
<1> QED
  BY <1>1, <1>3, <1>4, <1>5 DEF Calm

LEMMA CalmSame ==
  ASSUME Types, UNCHANGED op
  PROVE  CalmOps
  BY DEF CalmOps, Types, OpsTyped

LEMMA CalmOne ==
  ASSUME Types, NEW p \in Ops, NEW n, Calm(op[p], n), op' = [op EXCEPT ![p] = n]
  PROVE  CalmOps /\ op'[p] = n
<1>1. op \in [Ops -> Operations] /\ n \in Operations
  BY DEF Types, OpsTyped, Calm
<1>2. \A q \in Ops : op'[q] = IF q = p THEN n ELSE op[q]
  BY <1>1
<1> QED
  BY <1>1, <1>2 DEF CalmOps

LEMMA CalmStep ==
  ASSUME Inv, NEW w \in Tasks, Others(w), OwnStep(w), CalmOps,
         w \in Ops /\ at[w] \in Fresh /\ op'[w].session = "open" => at'[w] \in Fresh \/ held' = w
  PROVE  OpsStep(w)
<1> SUFFICES ASSUME NEW p \in Ops
             PROVE  /\ op'[p].session = "open" =>
                         \/ /\ op[p].session = "open"
                            /\ p = w /\ at[w] \in Fresh => at'[w] \in Fresh \/ held' = w
                         \/ p = w /\ at[w] = "starting" /\ at'[w] = "enabling"
                    /\ op'[p].terminal \/ op'[p].shown # 0 => at'[p] \in Past
                    /\ op'[p].terminal /\ op'[p].session = "open" =>
                         \/ op[p].terminal /\ op[p].session = "open"
                         \/ /\ storage' = Append(storage, w)
                            /\ w \in Ops \cup Responds /\ at'[w] = "interrupting" /\ mine'[w].op = p
  BY DEF OpsStep
<1>1. /\ op'[p].session = "open" => op[p].session = "open"
      /\ op'[p].terminal => op[p].terminal
      /\ op'[p].shown # 0 => op[p].shown # 0
  BY DEF CalmOps, Calm
<1>2. op'[p].terminal \/ op'[p].shown # 0 => at'[p] \in Past
  <2>1. op'[p].terminal \/ op'[p].shown # 0 => at[p] \in Past
    BY <1>1 DEF Inv, Known
  <2> QED
    BY <2>1, PastStays DEF Inv
<1> QED
  BY <1>1, <1>2

-----------------------------------------------------------------------------
(* Steps of the world: only operations, tabs and dialogs change *)

Fits(w, x) ==
  /\ w \in Ops => x \in OpPhases
  /\ w \in Responds => x \in RespondPhases
  /\ w \in Dialogs => x \in WatcherPhases
  /\ w \in Snapshots => x \in SnapshotPhases
  /\ w \in Tabs => x \in TabPhases

LEMMA Moved ==
  ASSUME TasksTyped, NEW w \in Tasks, NEW x \in Phases, Fits(w, x), at' = [at EXCEPT ![w] = x],
         NEW l \in Scopes, mine' = [mine EXCEPT ![w] = l]
  PROVE  TasksTyped' /\ Others(w) /\ at'[w] = x /\ mine'[w] = l
<1>1. \A v \in Tasks : /\ at'[v] = IF v = w THEN x ELSE at[v]
                       /\ mine'[v] = IF v = w THEN l ELSE mine[v]
  BY DEF TasksTyped
<1>2. at' \in [Tasks -> Phases] /\ mine' \in [Tasks -> Scopes]
  BY DEF TasksTyped
<1>3. /\ \A v \in Ops : at'[v] \in OpPhases
      /\ \A v \in Responds : at'[v] \in RespondPhases
      /\ \A v \in Dialogs : at'[v] \in WatcherPhases
      /\ \A v \in Snapshots : at'[v] \in SnapshotPhases
      /\ \A v \in Tabs : at'[v] \in TabPhases
  BY <1>1, Distinct DEF TasksTyped, Fits
<1> QED
  BY <1>1, <1>2, <1>3 DEF TasksTyped, Others

LEMMA WorldStep ==
  ASSUME Inv, NEW w \in Tasks, UNCHANGED <<queue, at, mine, held, storage>>, CalmOps, Types',
         w \notin Snapshots
  PROVE  Inv'
<1>1. Others(w) /\ QueueStep(w) /\ HeldStep(w) /\ StorageStep(w)
  BY DEF Others, QueueStep, HeldStep, StorageStep
<1>2. OwnStep(w)
  <2>1. w \in Ops => mine'[w].op = w /\ (at'[w] \in Fresh => at[w] \in Fresh)
    BY DEF Inv, Known
  <2>2. w \in Responds \cup Dialogs /\ at'[w] \notin {"idle", "done"} => mine'[w].op \in Ops
    BY DEF Inv, Known
  <2>3. ASSUME at'[w] \in Closings, mine'[w].op # None
        PROVE  op'[mine'[w].op].session # "open"
    <3>1. mine[w].op \in Ops
      BY <2>3 DEF Inv, Types, TasksTyped, Scopes
    <3>2. op[mine[w].op].session # "open"
      BY <2>3 DEF Inv, NotOpen
    <3> QED
      BY <3>1, <3>2 DEF CalmOps, Calm
  <2> QED
    BY <2>1, <2>2, <2>3 DEF OwnStep
<1>3. OpsStep(w)
  BY <1>1, <1>2, CalmStep
<1> QED
  BY <1>1, <1>2, <1>3, TaskStepKeeps DEF TaskStep

LEMMA OpensWell ==
  ASSUME Inv, NEW p \in Ops, DialogOpens(p)
  PROVE  Inv'
<1>1. /\ UNCHANGED <<queue, at, mine, held, closed, storage, marker, tabs, faults>>
      /\ opened < MaxDialogs /\ opened' = opened + 1
      /\ dialog' = [dialog EXCEPT ![op[p].tab] = opened']
      /\ op' = [op EXCEPT ![p] = Notify(op[p], "opening", opened')]
  BY DEF DialogOpens
<1>2. opened' \in Dialogs /\ opened' \in 0 .. MaxDialogs
  BY <1>1, BoundsValid DEF Inv, Types, WorldTyped, Dialogs
<1>3. op[p] \in Operations
  BY DEF Inv, Types, OpsTyped
<1> DEFINE n == Notify(op[p], "opening", opened')
<1>4. Calm(op[p], n)
  <2>1. PICK d : d = opened'
    OBVIOUS
  <2>2. <<"opening", d>> \in Events
    BY <1>2, <2>1 DEF Events
  <2> QED
    BY <1>3, <2>1, <2>2, NotifyIs
<1> HIDE DEF n
<1>5. CalmOps
  <2>1. op' = [op EXCEPT ![p] = n]
    BY <1>1 DEF n
  <2> QED
    BY <1>4, <2>1, CalmOne DEF Inv
<1>6. WorldTyped'
  BY <1>1, <1>2 DEF Inv, Types, WorldTyped
<1>7. Types'
  BY <1>1, <1>5, <1>6 DEF Inv, Types, TasksTyped, StateTyped, OpsTyped, CalmOps
<1> QED
  BY <1>1, <1>5, <1>7, WorldStep, Distinct

LEMMA AnswersWell ==
  ASSUME Inv, NEW t \in Tabs, UserAnswers(t)
  PROVE  Inv'
<1>1. /\ UNCHANGED <<queue, at, mine, held, closed, storage, marker, tabs, opened, faults>>
      /\ dialog' = [dialog EXCEPT ![t] = 0]
      /\ op' = [p \in Ops |-> IF Attached(op[p]) /\ op[p].tab = t /\ op[p].body # "none"
                              THEN Notify(op[p], "closed", dialog[t]) ELSE op[p]]
      /\ dialog[t] # 0
  BY DEF UserAnswers, Shows
<1>2. <<"closed", dialog[t]>> \in Events
  BY <1>1 DEF Inv, Types, WorldTyped, Events, Dialogs
<1>3. \A p \in Ops : op[p] \in Operations /\ Calm(op[p], Notify(op[p], "closed", dialog[t]))
                     /\ Notify(op[p], "closed", dialog[t]) \in Operations
  BY <1>2, NotifyIs DEF Inv, Types, OpsTyped
<1>4. CalmOps
  BY <1>1, <1>3 DEF CalmOps
<1>5. WorldTyped'
  BY <1>1, BoundsValid DEF Inv, Types, WorldTyped
<1>6. Types'
  BY <1>1, <1>4, <1>5 DEF Inv, Types, TasksTyped, StateTyped, OpsTyped, CalmOps
<1> QED
  BY <1>1, <1>4, <1>6, WorldStep, Distinct

LEMMA BodyAndSessionWell ==
  ASSUME Inv, NEW p \in Ops, BodyEnds(p) \/ SessionCloses(p) \/ ChromeDetaches(p)
  PROVE  Inv'
<1>1. /\ UNCHANGED <<queue, at, mine, held, closed, storage, marker, tabs, dialog, opened>>
      /\ faults' \in 0 .. MaxFaults
  <2>1. faults \in 0 .. MaxFaults
    BY DEF Inv, Types, WorldTyped
  <2> QED
    BY <2>1, BoundsValid DEF BodyEnds, SessionCloses, ChromeDetaches, Fault, world
<1>2. op[p] \in Operations
  BY DEF Inv, Types, OpsTyped
<1>3. \E n : Calm(op[p], n) /\ op' = [op EXCEPT ![p] = n]
  <2>1. CASE BodyEnds(p)
    <3> DEFINE n == [op[p] EXCEPT !.body = "over"]
    <3>1. op' = [op EXCEPT ![p] = n]
      BY <2>1 DEF BodyEnds
    <3>2. n \in Operations
      BY <1>2 DEF Operations, Bodies
    <3>3. n.session = op[p].session /\ n.terminal = op[p].terminal /\ n.shown = op[p].shown
      BY <1>2 DEF Operations
    <3> HIDE DEF n
    <3>4. Calm(op[p], n)
      BY <3>2, <3>3 DEF Calm
    <3> QED
      BY <3>1, <3>4
  <2>2. CASE SessionCloses(p)
    <3> DEFINE n == [op[p] EXCEPT !.session = "closed"]
    <3>1. op' = [op EXCEPT ![p] = n]
      BY <2>2 DEF SessionCloses
    <3>2. n \in Operations
      BY <1>2 DEF Operations, Sessions
    <3>3. n.session = "closed" /\ n.terminal = op[p].terminal /\ n.shown = op[p].shown
      BY <1>2 DEF Operations
    <3> HIDE DEF n
    <3>4. Calm(op[p], n)
      BY <3>2, <3>3 DEF Calm
    <3> QED
      BY <3>1, <3>4
  <2>3. CASE ChromeDetaches(p)
    <3>1. op' = [op EXCEPT ![p] = Lost(op[p])] /\ Calm(op[p], Lost(op[p]))
      BY <1>2, <2>3, LostIs DEF ChromeDetaches
    <3> QED
      BY <3>1
  <2> QED
    BY <2>1, <2>2, <2>3
<1>4. CalmOps
  BY <1>3, CalmOne DEF Inv
<1>5. Types'
  BY <1>1, <1>4 DEF Inv, Types, TasksTyped, StateTyped, OpsTyped, WorldTyped, CalmOps
<1> QED
  BY <1>1, <1>4, <1>5, WorldStep, Distinct

LEMMA DeliversWell ==
  ASSUME Inv, NEW p \in Ops, Deliver(p)
  PROVE  Inv'
<1>1. /\ UNCHANGED <<queue, at, mine, held, storage, marker, tabs, dialog, opened, faults>>
      /\ op[p].events # <<>>
  BY DEF Deliver, world
<1>2. PICK kind \in {"opening", "closed", "detached"}, d \in 0 .. MaxDialogs :
       /\ Head(op[p].events) = <<kind, d>>
       /\ closed' = IF kind = "closed" THEN closed \cup {d} ELSE closed
       /\ op' = [op EXCEPT
            ![p].events = Tail(@),
            ![p].openings = IF kind = "opening" THEN Append(@, d) ELSE @,
            ![p].detached = @ \/ kind = "detached"]
  BY DEF Deliver
<1>3. op[p] \in Operations
  BY DEF Inv, Types, OpsTyped
<1>4. op[p].events \in Seq(Events) /\ op[p].openings \in Seq(Dialogs) /\ op[p].detached \in BOOLEAN
  BY <1>3 DEF Operations
<1>5. <<kind, d>> \in Events
  BY <1>1, <1>2, <1>4, HeadTailProperties
<1>6. kind \in {"opening", "closed"} => d \in Dialogs
  BY <1>5 DEF Events
<1> DEFINE events == Tail(op[p].events)
           openings == IF kind = "opening" THEN Append(op[p].openings, d) ELSE op[p].openings
           detached == op[p].detached \/ kind = "detached"
           n == [op[p] EXCEPT !.events = events, !.openings = openings, !.detached = detached]
<1>7. events \in Seq(Events)
  BY <1>1, <1>4, HeadTailProperties
<1>8. openings \in Seq(Dialogs)
  BY <1>4, <1>6, AppendProperties
<1>9. detached \in BOOLEAN
  OBVIOUS
<1>10. op' = [op EXCEPT ![p] = n]
  BY <1>2
<1> HIDE DEF events, openings, detached
<1>11. n \in Operations
  BY <1>3, <1>7, <1>8, <1>9 DEF Operations
<1>12. n.session = op[p].session /\ n.terminal = op[p].terminal /\ n.shown = op[p].shown
  BY <1>3 DEF Operations
<1> HIDE DEF n
<1>13. Calm(op[p], n)
  BY <1>11, <1>12 DEF Calm
<1>14. CalmOps
  BY <1>10, <1>13, CalmOne DEF Inv
<1>15. closed' \subseteq Dialogs
  BY <1>2, <1>6 DEF Inv, Types, StateTyped
<1>16. Types'
  BY <1>1, <1>14, <1>15 DEF Inv, Types, TasksTyped, StateTyped, OpsTyped, WorldTyped, CalmOps
<1> QED
  BY <1>1, <1>14, <1>16, WorldStep, Distinct

-----------------------------------------------------------------------------
(* Steps of an operation by itself *)

LEMMA LocalsIs ==
  ASSUME NEW w \in Tasks
  PROVE  /\ Locals(w) \in Scopes
         /\ Locals(w).op = IF w \in Ops THEN w ELSE None
  BY BoundsValid DEF Locals, Scopes

LEMMA MineSame ==
  ASSUME TasksTyped, NEW w \in Tasks
  PROVE  mine[w] \in Scopes /\ mine = [mine EXCEPT ![w] = mine[w]]
  BY DEF TasksTyped

LEMMA InTurnHeads ==
  ASSUME Types, QueueRight, NEW p \in Ops, InTurn(p)
  PROVE  queue # <<>>
<1>1. CASE at[p] \in Turn
  BY <1>1 DEF QueueRight
<1>2. CASE at[p] = "queued"
  <2>1. PICK i \in 1 .. Len(queue) : queue[i] = p
    BY <1>2 DEF QueueRight
  <2> QED
    BY <2>1 DEF Types, StateTyped
<1> QED
  BY <1>1, <1>2 DEF InTurn

LEMMA StateKept ==
  ASSUME Inv, NEW w \in Tasks, QueueStep(w), HeldStep(w), StorageStep(w),
         closed' \subseteq Dialogs, marker' \in Tabs \cup {None}
  PROVE  StateTyped'
<1>0. queue \in Seq(Ops) /\ storage \in Seq(Tasks) /\ held \in Ops \cup {None}
  BY DEF Inv, Types, StateTyped
<1>1. queue' \in Seq(Ops)
  <2>1. CASE queue' = queue
    BY <1>0, <2>1
  <2>2. CASE w \in Ops /\ queue' = Tail(queue) /\ InTurn(w)
    <3>1. queue # <<>>
      BY <2>2, InTurnHeads DEF Inv
    <3> QED
      BY <1>0, <2>2, <3>1, HeadTailProperties
  <2>3. CASE w \in Ops /\ queue' = Append(queue, w)
    BY <1>0, <2>3, AppendProperties
  <2> QED
    BY <2>1, <2>2, <2>3 DEF QueueStep
<1>2. storage' \in Seq(Tasks)
  <2>1. CASE storage' = storage \/ storage' = Append(storage, w)
    BY <1>0, <2>1, AppendProperties
  <2>2. CASE storage # <<>> /\ (storage' = Tail(storage) \/ storage' = Append(Tail(storage), w))
    <3>1. Tail(storage) \in Seq(Tasks)
      BY <1>0, <2>2, HeadTailProperties
    <3> QED
      BY <2>2, <3>1, AppendProperties
  <2> QED
    BY <2>1, <2>2 DEF StorageStep
<1>3. held' \in Ops \cup {None}
  BY <1>0 DEF HeldStep
<1> QED
  BY <1>1, <1>2, <1>3 DEF StateTyped

LEMMA StepDone ==
  ASSUME Inv, NEW w \in Tasks, TasksTyped', op' \in [Ops -> Operations], WorldTyped',
         closed' \subseteq Dialogs, marker' \in Tabs \cup {None},
         Others(w), QueueStep(w), OwnStep(w), HeldStep(w), OpsStep(w), StorageStep(w)
  PROVE  Inv'
<1>1. StateTyped'
  BY StateKept
<1>2. Types'
  BY <1>1 DEF Types, OpsTyped
<1> QED
  BY <1>2, TaskStepKeeps DEF TaskStep

\* The usual step of an operation: its own place changes, perhaps its locals.
LEMMA OpMoves ==
  ASSUME Inv, NEW p \in Ops, NEW x \in OpPhases, at' = [at EXCEPT ![p] = x],
         NEW l \in Scopes, l.op = p, mine' = [mine EXCEPT ![p] = l],
         at[p] \in Past => x \in Past,
         x \in Fresh => at[p] \in Fresh \/ (held = None /\ held' = None)
  PROVE  /\ TasksTyped' /\ Others(p) /\ OwnStep(p)
         /\ at'[p] = x /\ mine'[p] = l /\ p \in Tasks
<1>1. p \in Tasks /\ Fits(p, x) /\ x \in Phases
  BY Distinct DEF Fits, Phases
<1>2. TasksTyped' /\ Others(p) /\ at'[p] = x /\ mine'[p] = l
  BY <1>1, Moved DEF Inv, Types
<1>3. x \notin Closings
  BY DEF Closings, OpPhases
<1> QED
  BY <1>1, <1>2, <1>3, Distinct DEF OwnStep

LEMMA OpStorage ==
  ASSUME NEW p \in Ops, at[p] # "interrupting",
         \/ storage' = storage
         \/ storage' = Append(storage, p)
         \/ storage # <<>> /\ Head(storage) = p /\ storage' = Tail(storage)
  PROVE  StorageStep(p)
  BY Distinct DEF StorageStep

\* Before an operation has its session.
LEMMA WaitsWell ==
  ASSUME Inv, NEW p \in Ops, Request(p) \/ Start(p) \/ Checked(p)
  PROVE  Inv'
<1>0. p \in Tasks /\ mine[p].op = p /\ mine[p] \in Scopes
  BY Distinct DEF Inv, Known, Types, TasksTyped
<1>1. /\ UNCHANGED <<op, held, closed, marker, world>>
      /\ at[p] \in {"idle", "queued", "checking"}
  BY DEF Request, Start, Checked, Answered
<1>2. PICK x \in {"queued", "done", "checking", "starting"} :
        at' = [at EXCEPT ![p] = x] /\ QueueStep(p)
  <2>0. \A x : at' = [at EXCEPT ![p] = x] => at'[p] = x
    BY <1>0 DEF Inv, Types, TasksTyped
  <2>1. CASE Request(p)
    BY <2>0, <2>1 DEF Request, Goto, QueueStep
  <2>2. CASE Start(p)
    <3>1. InTurn(p)
      BY <2>2 DEF Start, InTurn
    <3>2. CASE held # None
      BY <2>0, <2>2, <3>1, <3>2 DEF Start, EndOp, Goto, QueueStep, Turn
    <3>3. CASE held = None
      BY <2>0, <2>2, <3>1, <3>3 DEF Start, Goto, QueueStep, Turn
    <3> QED
      BY <3>2, <3>3
  <2>3. CASE Checked(p)
    <3>1. InTurn(p)
      BY <2>3 DEF Checked, InTurn, Turn
    <3>2. CASE mine[p].marker # None
      BY <2>0, <2>3, <3>1, <3>2 DEF Checked, EndOp, Goto, QueueStep, Turn
    <3>3. CASE mine[p].marker = None
      BY <2>0, <2>3, <3>1, <3>3 DEF Checked, Goto, QueueStep, Turn
    <3> QED
      BY <3>2, <3>3
  <2> QED
    BY <2>1, <2>2, <2>3
<1>3. PICK l \in Scopes : l.op = p /\ mine' = [mine EXCEPT ![p] = l]
  <2>1. CASE UNCHANGED mine
    BY <1>0, <2>1, MineSame DEF Inv, Types
  <2>2. CASE mine' = [mine EXCEPT ![p].marker = marker, ![p].op = p]
    <3> DEFINE n == [mine[p] EXCEPT !.marker = marker, !.op = p]
    <3>1. mine' = [mine EXCEPT ![p] = n]
      BY <2>2
    <3>2. n \in Scopes /\ n.op = p
      BY <1>0 DEF Scopes, Inv, Types, StateTyped
    <3> QED
      BY <3>1, <3>2
  <2>3. CASE mine' = [mine EXCEPT ![p] = Locals(p)]
    BY <1>0, <2>3, LocalsIs
  <2> QED
    BY <2>1, <2>2, <2>3 DEF Request, Start, Checked, ReadMarker
<1>4. StorageStep(p)
  <2>1. \/ storage' = storage
        \/ storage' = Append(storage, p)
        \/ storage # <<>> /\ Head(storage) = p /\ storage' = Tail(storage)
    BY DEF Request, Start, Checked, ReadMarker, Answered
  <2> QED
    BY <1>1, <2>1, OpStorage
<1>5. TasksTyped' /\ Others(p) /\ OwnStep(p)
  <2>1. x \in OpPhases /\ x \notin Fresh /\ at[p] \notin Past
    BY <1>1 DEF OpPhases, Fresh, Past
  <2> QED
    BY <1>2, <1>3, <2>1, OpMoves
<1>6. CalmOps
  BY <1>1, CalmSame DEF Inv
<1>7. OpsStep(p) /\ HeldStep(p)
  BY <1>0, <1>1, <1>5, <1>6, CalmStep DEF Fresh, HeldStep
<1>8. WorldTyped' /\ closed' \subseteq Dialogs /\ marker' \in Tabs \cup {None}
  BY <1>1 DEF Inv, Types, WorldTyped, StateTyped, world
<1> QED
  BY <1>0, <1>2, <1>4, <1>5, <1>6, <1>7, <1>8, StepDone DEF CalmOps


-----------------------------------------------------------------------------
(* Steps of any task *)

\* One operation changes, and the task that changes it accounts for that.
LEMMA OneStep ==
  ASSUME Inv, NEW w \in Tasks, Others(w), OwnStep(w),
         NEW p \in Ops, NEW n \in Operations, op' = [op EXCEPT ![p] = n],
         w \in Ops /\ at[w] \in Fresh /\ op'[w].session = "open" => at'[w] \in Fresh \/ held' = w,
         n.session = "open" =>
           op[p].session = "open" \/ (p = w /\ at[w] = "starting" /\ at'[w] = "enabling"),
         n.terminal \/ n.shown # 0 => at'[p] \in Past,
         n.terminal /\ n.session = "open" =>
           \/ op[p].terminal /\ op[p].session = "open"
           \/ /\ storage' = Append(storage, w)
              /\ w \in Ops \cup Responds /\ at'[w] = "interrupting" /\ mine'[w].op = p
  PROVE  op' \in [Ops -> Operations] /\ OpsStep(w)
<1>1. op \in [Ops -> Operations]
  BY DEF Inv, Types, OpsTyped
<1>2. \A q \in Ops : op'[q] = IF q = p THEN n ELSE op[q]
  BY <1>1
<1>3. op' \in [Ops -> Operations]
  BY <1>1
<1>4. ASSUME NEW q \in Ops
      PROVE  /\ op'[q].session = "open" =>
                  \/ /\ op[q].session = "open"
                     /\ q = w /\ at[w] \in Fresh => at'[w] \in Fresh \/ held' = w
                  \/ q = w /\ at[w] = "starting" /\ at'[w] = "enabling"
             /\ op'[q].terminal \/ op'[q].shown # 0 => at'[q] \in Past
             /\ op'[q].terminal /\ op'[q].session = "open" =>
                  \/ op[q].terminal /\ op[q].session = "open"
                  \/ /\ storage' = Append(storage, w)
                     /\ w \in Ops \cup Responds /\ at'[w] = "interrupting" /\ mine'[w].op = q
  <2>1. CASE q = p
    <3>1. op'[q] = n
      BY <1>2, <2>1
    <3> QED
      BY <2>1, <3>1
  <2>2. CASE q # p
    <3>1. op'[q] = op[q]
      BY <1>2, <2>2
    <3>2. op[q].terminal \/ op[q].shown # 0 => at'[q] \in Past
      BY PastStays DEF Inv, Known
    <3> QED
      BY <3>1, <3>2
  <2> QED
    BY <2>1, <2>2
<1> QED
  BY <1>3, <1>4 DEF OpsStep

\* Its own place changes, perhaps its locals.
LEMMA TaskMoves ==
  ASSUME Inv, NEW w \in Tasks, NEW x \in Phases, Fits(w, x), at' = [at EXCEPT ![w] = x],
         NEW l \in Scopes, mine' = [mine EXCEPT ![w] = l],
         w \in Ops =>
           /\ l.op = w
           /\ at[w] \in Past => x \in Past
           /\ x \in Fresh => at[w] \in Fresh \/ (held = None /\ held' = None),
         w \in Responds \cup Dialogs /\ x \notin {"idle", "done"} => l.op \in Ops,
         w \notin Ops => l.op \in {None, mine[w].op, held},
         x \in Closings /\ l.op # None => op'[l.op].session # "open",
         w \in Snapshots /\ x = "reading" => l.op # None \/ l.marker # None
  PROVE  TasksTyped' /\ Others(w) /\ OwnStep(w) /\ at'[w] = x /\ mine'[w] = l
<1>1. TasksTyped' /\ Others(w) /\ at'[w] = x /\ mine'[w] = l
  BY Moved DEF Inv, Types
<1> QED
  BY <1>1 DEF OwnStep

\* ... and the dialog it has stored is watched.
LEMMA TaskArms ==
  ASSUME Inv, NEW w \in Ops \cup Responds \cup Dialogs, at[w] = "persisting",
         NEW x \in {"retained", "leaving", "idle", "done"}, Fits(w, x),
         at' = [at EXCEPT ![mine[w].dialog] = "armed", ![w] = x],
         mine' = [mine EXCEPT ![mine[w].dialog].op = mine[w].op, ![w] = Locals(w)],
         w \in Ops => x \in {"retained", "leaving"},
         w \notin Ops => x \in {"idle", "done"}
  PROVE  /\ w \in Tasks /\ TasksTyped' /\ Others(w) /\ OwnStep(w)
         /\ at'[w] = x /\ mine'[w] = Locals(w)
<1> DEFINE d == mine[w].dialog
           p == mine[w].op
           l == Locals(w)
<1>0. w \in Tasks
  BY DEF Tasks
<1>1. p \in Ops /\ d \in 0 .. MaxDialogs /\ (w \in Ops => p = w)
  <2>1. mine[w] \in Scopes
    BY <1>0 DEF Inv, Types, TasksTyped
  <2> QED
    BY <2>1 DEF Inv, Known, Scopes
<1>2. l \in Scopes /\ l.op = IF w \in Ops THEN w ELSE None
  BY <1>0, LocalsIs
<1>3. /\ at \in [Tasks -> Phases] /\ mine \in [Tasks -> Scopes]
      /\ at' = [at EXCEPT ![d] = "armed", ![w] = x]
      /\ mine' = [mine EXCEPT ![d].op = p, ![w] = l]
  BY DEF Inv, Types, TasksTyped
<1>4. d \in Tasks => d \in Dialogs /\ d \notin Ops
  <2>1. d \in Dialogs \/ d = 0
    BY <1>1, BoundsValid DEF Dialogs
  <2> QED
    BY <2>1, NoDialog, Distinct
<1> HIDE DEF d, p, l
<1> DEFINE m == [mine[d] EXCEPT !.op = p]
<1>5. d \in Tasks => m \in Scopes /\ m.op = p
  BY <1>1, <1>3 DEF Scopes
<1>6. \A v \in Tasks : /\ at'[v] = IF v = w THEN x ELSE IF v = d THEN "armed" ELSE at[v]
                       /\ mine'[v] = IF v = w THEN l ELSE IF v = d THEN m ELSE mine[v]
  BY <1>3
<1> HIDE DEF m
<1>7. "armed" \in Phases /\ "armed" \in WatcherPhases /\ x \in Phases
  BY DEF Phases, WatcherPhases, OpPhases
<1>8. at' \in [Tasks -> Phases] /\ mine' \in [Tasks -> Scopes]
  <2>1. at' = [v \in Tasks |-> at'[v]] /\ mine' = [v \in Tasks |-> mine'[v]]
    BY <1>3
  <2>2. \A v \in Tasks : at'[v] \in Phases /\ mine'[v] \in Scopes
    BY <1>2, <1>3, <1>5, <1>6, <1>7
  <2> QED
    BY <2>1, <2>2
<1>9. /\ \A v \in Ops : at'[v] \in OpPhases
      /\ \A v \in Responds : at'[v] \in RespondPhases
      /\ \A v \in Dialogs : at'[v] \in WatcherPhases
      /\ \A v \in Snapshots : at'[v] \in SnapshotPhases
      /\ \A v \in Tabs : at'[v] \in TabPhases
  BY <1>4, <1>6, <1>7, Distinct DEF Inv, Types, TasksTyped, Fits
<1>10. TasksTyped'
  BY <1>8, <1>9 DEF TasksTyped
<1>11. at'[w] = x /\ mine'[w] = l
  BY <1>0, <1>6
<1>12. at'[p] \in Past
  <2>1. CASE w \in Ops
    BY <1>1, <1>11, <2>1 DEF Past
  <2>2. CASE w \notin Ops
    <3>1. at[p] \in Past /\ p \in Tasks /\ p # w /\ p # d
      BY <1>0, <1>1, <1>4, <2>2, Distinct DEF Inv, Known, p
    <3> QED
      BY <1>6, <3>1
  <2> QED
    BY <2>1, <2>2
<1>13. Others(w)
  <2> SUFFICES ASSUME NEW v \in Tasks, v # w
               PROVE  \/ at'[v] = at[v] /\ mine'[v] = mine[v]
                      \/ /\ v \in Dialogs /\ at'[v] = "armed" /\ mine'[v].op = mine[w].op
                         /\ mine[w].op \in Ops /\ at'[mine[w].op] \in Past
    BY DEF Others
  <2>1. CASE v = d
    BY <1>1, <1>4, <1>5, <1>6, <1>12, <2>1 DEF p
  <2>2. CASE v # d
    BY <1>6, <2>2
  <2> QED
    BY <2>1, <2>2
<1>14. OwnStep(w)
  <2>1. x \notin Fresh /\ x \notin Closings /\ x # "reading" /\ (w \in Ops => x \in Past)
    BY DEF Fresh, Closings, Past
  <2> QED
    BY <1>2, <1>11, <2>1, Distinct DEF OwnStep
<1> QED
  BY <1>0, <1>10, <1>11, <1>13, <1>14 DEF l

LEMMA AttachesWell ==
  ASSUME Inv, NEW p \in Ops, Attach(p)
  PROVE  Inv'
<1>0. p \in Tasks /\ mine[p].op = p /\ mine[p] \in Scopes /\ op[p] \in Operations
  BY Distinct DEF Inv, Known, Types, TasksTyped, OpsTyped
<1>1. at[p] = "starting" /\ UNCHANGED <<mine, held, closed, storage, marker, world>>
  BY DEF Attach
<1>2. InTurn(p) /\ at[p] \notin Past /\ at[p] \notin Fresh
  BY <1>1 DEF InTurn, Turn, Past, Fresh
<1>3. mine' = [mine EXCEPT ![p] = mine[p]]
  BY <1>0, <1>1, MineSame DEF Inv, Types
<1>4. HeldStep(p) /\ StorageStep(p)
  BY <1>1, OpStorage DEF HeldStep
<1>5. WorldTyped' /\ closed' \subseteq Dialogs /\ marker' \in Tabs \cup {None}
  BY <1>1 DEF Inv, Types, WorldTyped, StateTyped, world
<1>6. CASE EndOp(p) /\ UNCHANGED op
  <2>1. at' = [at EXCEPT ![p] = "done"] /\ queue' = Tail(queue)
    BY <1>6 DEF EndOp, Goto
  <2>2. TasksTyped' /\ Others(p) /\ OwnStep(p) /\ at'[p] = "done"
    <3>1. "done" \in OpPhases /\ "done" \notin Fresh
      BY DEF OpPhases, Fresh
    <3> QED
      BY <1>0, <1>2, <1>3, <2>1, <3>1, OpMoves
  <2>3. QueueStep(p)
    BY <1>2, <2>1, <2>2 DEF QueueStep, Turn
  <2>4. CalmOps
    BY <1>6, CalmSame DEF Inv
  <2>5. OpsStep(p)
    BY <1>0, <1>2, <2>2, <2>4, CalmStep
  <2> QED
    BY <1>0, <1>4, <1>5, <2>2, <2>3, <2>4, <2>5, StepDone DEF CalmOps
<1>7. ASSUME NEW t \in tabs, held = None,
             at' = [at EXCEPT ![p] = "enabling"], UNCHANGED queue,
             op' = [op EXCEPT ![p].tab = t, ![p].session = "open", ![p].listening = TRUE]
      PROVE  Inv'
  <2> DEFINE n == [op[p] EXCEPT !.tab = t, !.session = "open", !.listening = TRUE]
  <2>1. TasksTyped' /\ Others(p) /\ OwnStep(p) /\ at'[p] = "enabling"
    <3>1. "enabling" \in OpPhases /\ held' = None
      BY <1>1, <1>7 DEF OpPhases
    <3> QED
      BY <1>0, <1>2, <1>3, <1>7, <3>1, OpMoves
  <2>2. QueueStep(p)
    BY <1>2, <1>7, <2>1 DEF QueueStep, Turn
  <2>3. op' = [op EXCEPT ![p] = n]
    BY <1>7
  <2>4. n \in Operations
    <3>1. t \in Tabs
      BY DEF Inv, Types, WorldTyped
    <3> QED
      BY <1>0, <3>1 DEF Operations, Sessions
  <2>5. n.terminal = op[p].terminal /\ n.shown = op[p].shown
    BY <1>0 DEF Operations
  <2>6. ~op[p].terminal /\ op[p].shown = 0
    BY <1>2 DEF Inv, Known
  <2> HIDE DEF n
  <2>7. op' \in [Ops -> Operations] /\ OpsStep(p)
    BY <1>0, <1>1, <1>2, <2>1, <2>3, <2>4, <2>5, <2>6, OneStep
  <2> QED
    BY <1>0, <1>4, <1>5, <2>1, <2>2, <2>7, StepDone
<1> QED
  BY <1>6, <1>7 DEF Attach, Goto

\* An operation that is not held lets go of its session.
LEMMA LeavesWell ==
  ASSUME Inv, NEW p \in Ops, at[p] \in Fresh, Leave(p), UNCHANGED <<queue, closed, world>>
  PROVE  Inv'
<1>0. p \in Tasks /\ mine[p].op = p /\ mine[p] \in Scopes /\ op[p] \in Operations
  BY Distinct DEF Inv, Known, Types, TasksTyped, OpsTyped
<1>1. /\ at' = [at EXCEPT ![p] = "leaving"] /\ op' = [op EXCEPT ![p] = LetGo(op[p])]
      /\ UNCHANGED <<queue, mine, held, closed, storage, marker, world>>
  BY DEF Leave, Goto
<1>2. InTurn(p) /\ at[p] # "interrupting"
  BY DEF InTurn, Turn, Fresh
<1>3. mine' = [mine EXCEPT ![p] = mine[p]]
  BY <1>0, <1>1, MineSame DEF Inv, Types
<1>4. TasksTyped' /\ Others(p) /\ OwnStep(p) /\ at'[p] = "leaving"
  <2>1. "leaving" \in OpPhases /\ "leaving" \in Past /\ "leaving" \notin Fresh
    BY DEF OpPhases, Past, Fresh
  <2>2. at' = [at EXCEPT ![p] = "leaving"]
    BY <1>1
  <2> QED
    BY <1>0, <1>3, <2>1, <2>2, OpMoves
<1>5. HeldStep(p) /\ StorageStep(p) /\ QueueStep(p)
  BY <1>1, <1>2, <1>4, OpStorage DEF HeldStep, QueueStep, Turn
<1>6. CalmOps /\ op'[p].session # "open"
  BY <1>0, <1>1, LetGoIs, CalmOne DEF Inv
<1>7. OpsStep(p)
  BY <1>0, <1>4, <1>6, CalmStep
<1>8. WorldTyped' /\ closed' \subseteq Dialogs /\ marker' \in Tabs \cup {None}
  BY <1>1 DEF Inv, Types, WorldTyped, StateTyped, world
<1> QED
  BY <1>0, <1>4, <1>5, <1>6, <1>7, <1>8, StepDone DEF CalmOps

LEMMA EnablesWell ==
  ASSUME Inv, NEW p \in Ops, Enable(p) \/ RaceOutcome(p)
  PROVE  Inv'
<1>0. p \in Tasks /\ mine[p].op = p /\ mine[p] \in Scopes /\ op[p] \in Operations
  BY Distinct DEF Inv, Known, Types, TasksTyped, OpsTyped
<1>1. at[p] \in Fresh /\ UNCHANGED <<queue, closed, world>>
  BY DEF Enable, RaceOutcome, Fresh
<1>2. CASE Leave(p)
  BY <1>1, <1>2, LeavesWell
<1>3. CASE ~Leave(p)
  <2>1. /\ at' = [at EXCEPT ![p] = "racing"] /\ op' = [op EXCEPT ![p].body = "running"]
        /\ UNCHANGED <<mine, held, marker, storage>>
    BY <1>3 DEF Enable, RaceOutcome, Goto
  <2> DEFINE n == [op[p] EXCEPT !.body = "running"]
  <2>2. InTurn(p) /\ at[p] # "interrupting"
    BY <1>1 DEF InTurn, Turn, Fresh
  <2>3. mine' = [mine EXCEPT ![p] = mine[p]]
    BY <1>0, <2>1, MineSame DEF Inv, Types
  <2>4. TasksTyped' /\ Others(p) /\ OwnStep(p) /\ at'[p] = "racing"
    <3>1. "racing" \in OpPhases /\ at[p] \notin Past /\ at[p] \in Fresh
      BY <1>1 DEF OpPhases, Past, Fresh
    <3>2. at' = [at EXCEPT ![p] = "racing"]
      BY <2>1
    <3> QED
      BY <1>0, <2>3, <3>1, <3>2, OpMoves
  <2>5. HeldStep(p) /\ StorageStep(p) /\ QueueStep(p)
    BY <1>1, <2>1, <2>2, <2>4, OpStorage DEF HeldStep, QueueStep, Turn
  <2>6. op' = [op EXCEPT ![p] = n]
    BY <2>1
  <2>7. n \in Operations
    BY <1>0 DEF Operations, Bodies
  <2>8. n.session = op[p].session /\ n.terminal = op[p].terminal /\ n.shown = op[p].shown
    BY <1>0 DEF Operations
  <2> HIDE DEF n
  <2>9. CalmOps
    BY <2>6, <2>7, <2>8, CalmOne DEF Inv, Calm
  <2>10. OpsStep(p)
    BY <1>0, <2>4, <2>9, CalmStep DEF Fresh
  <2>11. WorldTyped' /\ closed' \subseteq Dialogs /\ marker' \in Tabs \cup {None}
    BY <1>1, <2>1 DEF Inv, Types, WorldTyped, StateTyped, world
  <2> QED
    BY <1>0, <2>4, <2>5, <2>9, <2>10, <2>11, StepDone DEF CalmOps
<1> QED
  BY <1>2, <1>3

LEMMA LeftWell ==
  ASSUME Inv, NEW p \in Ops, Left(p)
  PROVE  Inv'
<1>0. p \in Tasks /\ mine[p].op = p /\ mine[p] \in Scopes
  BY Distinct DEF Inv, Known, Types, TasksTyped
<1>1. /\ at[p] = "leaving" /\ at' = [at EXCEPT ![p] = "done"] /\ queue' = Tail(queue)
      /\ UNCHANGED <<mine, held, op, closed, storage, marker, world>>
  BY DEF Left, EndOp, Goto
<1>2. InTurn(p) /\ at[p] \notin Fresh
  BY <1>1 DEF InTurn, Turn, Fresh
<1>3. mine' = [mine EXCEPT ![p] = mine[p]]
  BY <1>0, <1>1, MineSame DEF Inv, Types
<1>4. TasksTyped' /\ Others(p) /\ OwnStep(p) /\ at'[p] = "done"
  <2>1. "done" \in OpPhases /\ "done" \in Past /\ "done" \notin Fresh
    BY DEF OpPhases, Past, Fresh
  <2> QED
    BY <1>0, <1>1, <1>3, <2>1, OpMoves
<1>5. HeldStep(p) /\ StorageStep(p) /\ QueueStep(p)
  BY <1>1, <1>2, <1>4, OpStorage DEF HeldStep, QueueStep, Turn
<1>6. CalmOps
  BY <1>1, CalmSame DEF Inv
<1>7. OpsStep(p)
  BY <1>0, <1>2, <1>4, <1>6, CalmStep
<1>8. WorldTyped' /\ closed' \subseteq Dialogs /\ marker' \in Tabs \cup {None}
  BY <1>1 DEF Inv, Types, WorldTyped, StateTyped, world
<1> QED
  BY <1>0, <1>4, <1>5, <1>6, <1>7, <1>8, StepDone DEF CalmOps

LEMMA PromotesWell ==
  ASSUME Inv, NEW p \in Ops, Promoted(p)
  PROVE  Inv'
<1>0. p \in Tasks /\ mine[p].op = p /\ op[p] \in Operations
  BY Distinct DEF Inv, Known, Types, OpsTyped
<1>1. /\ at[p] = "persisting"
      /\ storage # <<>> /\ Head(storage) = p /\ storage' = Tail(storage)
      /\ UNCHANGED <<held, closed, marker, world>>
      /\ mine' = [mine EXCEPT ![mine[p].dialog].op = mine[p].op, ![p] = Locals(p)]
  BY <1>0 DEF Promoted, Answered
<1>2. PICK x \in {"retained", "leaving"} :
        /\ at' = [at EXCEPT ![mine[p].dialog] = "armed", ![p] = x]
        /\ IF x = "retained" THEN held = p /\ queue' = Tail(queue) /\ UNCHANGED op
                             ELSE op' = [op EXCEPT ![p] = LetGo(op[p])] /\ UNCHANGED queue
  BY DEF Promoted
<1>3. InTurn(p) /\ at[p] \notin Fresh /\ at[p] # "interrupting"
  BY <1>1 DEF InTurn, Turn, Fresh
<1>4. TasksTyped' /\ Others(p) /\ OwnStep(p) /\ at'[p] = x
  <2>1. Fits(p, x)
    BY Distinct DEF Fits, OpPhases
  <2> QED
    BY <1>1, <1>2, <2>1, TaskArms
<1>5. QueueStep(p)
  <2>1. CASE x = "retained"
    BY <1>2, <1>3, <1>4, <2>1 DEF QueueStep, Turn
  <2>2. CASE x = "leaving"
    BY <1>2, <1>3, <1>4, <2>2 DEF QueueStep, Turn
  <2> QED
    BY <2>1, <2>2
<1>6. HeldStep(p) /\ StorageStep(p)
  BY <1>1, <1>3, OpStorage DEF HeldStep
<1>7. CalmOps
  <2>1. CASE x = "retained"
    BY <1>2, <2>1, CalmSame DEF Inv
  <2>2. CASE x = "leaving"
    BY <1>0, <1>2, <2>2, LetGoIs, CalmOne DEF Inv
  <2> QED
    BY <2>1, <2>2
<1>8. OpsStep(p)
  BY <1>0, <1>3, <1>4, <1>7, CalmStep
<1>9. WorldTyped' /\ closed' \subseteq Dialogs /\ marker' \in Tabs \cup {None}
  BY <1>1 DEF Inv, Types, WorldTyped, StateTyped, world
<1> QED
  BY <1>0, <1>4, <1>5, <1>6, <1>7, <1>8, <1>9, StepDone DEF CalmOps

LEMMA DetachesWell ==
  ASSUME Inv, NEW p \in Ops, DetachSeen(p)
  PROVE  Inv'
<1>0. p \in Tasks /\ mine[p].op = p /\ mine[p] \in Scopes /\ op[p] \in Operations
  BY Distinct DEF Inv, Known, Types, TasksTyped, OpsTyped
<1>1. at[p] = "retained" /\ UNCHANGED <<queue, mine, held, closed, world>>
  BY DEF DetachSeen
<1>2. at[p] \in Past /\ at[p] \notin Fresh /\ at[p] \notin {"queued"} \cup Turn
  BY <1>1 DEF Past, Turn, Fresh
<1>3. mine' = [mine EXCEPT ![p] = mine[p]]
  BY <1>0, <1>1, MineSame DEF Inv, Types
<1>4. HeldStep(p)
  BY <1>1 DEF HeldStep
<1>5. WorldTyped' /\ closed' \subseteq Dialogs
  BY <1>1 DEF Inv, Types, WorldTyped, StateTyped, world
<1>6. CASE held # p
  <2>1. at' = [at EXCEPT ![p] = "done"] /\ UNCHANGED <<op, marker, storage>>
    BY <1>6 DEF DetachSeen, Goto
  <2>2. TasksTyped' /\ Others(p) /\ OwnStep(p) /\ at'[p] = "done"
    <3>1. "done" \in OpPhases /\ "done" \in Past /\ "done" \notin Fresh
      BY DEF OpPhases, Past, Fresh
    <3> QED
      BY <1>0, <1>3, <2>1, <3>1, OpMoves
  <2>3. QueueStep(p) /\ StorageStep(p)
    BY <1>1, <1>2, <2>1, <2>2, OpStorage DEF QueueStep, Turn
  <2>4. CalmOps
    BY <2>1, CalmSame DEF Inv
  <2>5. OpsStep(p)
    BY <1>0, <1>2, <2>2, <2>4, CalmStep
  <2>6. marker' \in Tabs \cup {None}
    BY <2>1 DEF Inv, Types, StateTyped
  <2> QED
    BY <1>0, <1>4, <1>5, <2>2, <2>3, <2>4, <2>5, <2>6, StepDone DEF CalmOps
<1>7. CASE held = p
  <2> DEFINE n == [op[p] EXCEPT !.terminal = TRUE]
  <2>1. /\ at' = [at EXCEPT ![p] = "interrupting"] /\ op' = [op EXCEPT ![p] = n]
        /\ marker' = op[p].tab /\ storage' = Append(storage, p)
    BY <1>0, <1>7 DEF DetachSeen, Goto, Persist, Mine
  <2>2. TasksTyped' /\ Others(p) /\ OwnStep(p) /\ at'[p] = "interrupting" /\ mine'[p].op = p
    <3>1. "interrupting" \in OpPhases /\ "interrupting" \in Past /\ "interrupting" \notin Fresh
      BY DEF OpPhases, Past, Fresh
    <3>2. at' = [at EXCEPT ![p] = "interrupting"]
      BY <2>1
    <3> QED
      BY <1>0, <1>3, <3>1, <3>2, OpMoves
  <2>3. StorageStep(p)
    BY <1>1, <2>1, OpStorage
  <2>4. QueueStep(p)
    BY <1>1, <1>2, <2>2 DEF QueueStep, Turn
  <2>5. n \in Operations /\ n.session = op[p].session
    BY <1>0 DEF Operations
  <2>6. op' = [op EXCEPT ![p] = n] /\ storage' = Append(storage, p) /\ at'[p] \in Past
    BY <2>1, <2>2 DEF Past
  <2>7. marker' \in Tabs \cup {None}
    BY <1>0, <2>1 DEF Operations
  <2> HIDE DEF n
  <2>8. op' \in [Ops -> Operations] /\ OpsStep(p)
    BY <1>0, <1>2, <2>2, <2>5, <2>6, OneStep
  <2> QED
    BY <1>0, <1>4, <1>5, <2>2, <2>3, <2>4, <2>7, <2>8, StepDone
<1> QED
  BY <1>6, <1>7

-----------------------------------------------------------------------------
(* Steps of a task that is no operation *)

LEMMA PlainStorage ==
  ASSUME NEW w \in Tasks, w \notin Snapshots, at[w] # "interrupting",
         \/ storage' = storage
         \/ storage' = Append(storage, w)
         \/ storage # <<>> /\ Head(storage) = w /\ storage' = Tail(storage)
         \/ storage # <<>> /\ Head(storage) = w /\ storage' = Append(Tail(storage), w)
  PROVE  StorageStep(w)
  BY DEF StorageStep

\* It moves, and what changes in the operations is calm.
LEMMA HelperStep ==
  ASSUME Inv, NEW w \in Tasks, w \notin Ops,
         NEW x \in Phases, Fits(w, x), at' = [at EXCEPT ![w] = x],
         NEW l \in Scopes, mine' = [mine EXCEPT ![w] = l],
         w \in Responds \cup Dialogs /\ x \notin {"idle", "done"} => l.op \in Ops,
         l.op \in {None, mine[w].op, held},
         x \in Closings /\ l.op # None => op'[l.op].session # "open",
         w \in Snapshots /\ x = "reading" => l.op # None \/ l.marker # None,
         CalmOps, queue' = queue, closed' \subseteq Dialogs, marker' \in Tabs \cup {None},
         WorldTyped', HeldStep(w), StorageStep(w)
  PROVE  Inv'
<1>1. TasksTyped' /\ Others(w) /\ OwnStep(w)
  BY TaskMoves
<1>2. QueueStep(w)
  BY DEF QueueStep
<1>3. OpsStep(w)
  BY <1>1, CalmStep
<1> QED
  BY <1>1, <1>2, <1>3, StepDone DEF CalmOps

\* It moves, and marks one operation that is past.
LEMMA HelperMarks ==
  ASSUME Inv, NEW w \in Tasks, w \notin Ops,
         NEW x \in Phases, Fits(w, x), at' = [at EXCEPT ![w] = x],
         NEW l \in Scopes, mine' = [mine EXCEPT ![w] = l],
         w \in Responds \cup Dialogs /\ x \notin {"idle", "done"} => l.op \in Ops,
         l.op \in {None, mine[w].op, held},
         x \in Closings /\ l.op # None => op'[l.op].session # "open",
         w \in Snapshots /\ x = "reading" => l.op # None \/ l.marker # None,
         NEW p \in Ops, at[p] \in Past, NEW n \in Operations, op' = [op EXCEPT ![p] = n],
         n.session = "open" => op[p].session = "open",
         n.terminal /\ n.session = "open" =>
           \/ op[p].terminal
           \/ storage' = Append(storage, w) /\ w \in Responds /\ x = "interrupting" /\ l.op = p,
         queue' = queue, closed' \subseteq Dialogs, marker' \in Tabs \cup {None},
         WorldTyped', HeldStep(w), StorageStep(w)
  PROVE  Inv'
<1>1. TasksTyped' /\ Others(w) /\ OwnStep(w) /\ at'[w] = x /\ mine'[w] = l
  BY TaskMoves
<1>2. QueueStep(w)
  BY DEF QueueStep
<1>3. at'[p] \in Past
  BY <1>1, PastStays DEF Inv
<1>4. n.terminal /\ n.session = "open" =>
        \/ op[p].terminal /\ op[p].session = "open"
        \/ /\ storage' = Append(storage, w)
           /\ w \in Ops \cup Responds /\ at'[w] = "interrupting" /\ mine'[w].op = p
  BY <1>1
<1>5. op' \in [Ops -> Operations] /\ OpsStep(w)
  BY <1>1, <1>3, <1>4, OneStep
<1> QED
  BY <1>1, <1>2, <1>5, StepDone

LEMMA WorkerIs ==
  ASSUME Inv, NEW w \in Responds \cup Dialogs, at[w] \notin {"idle", "done"}
  PROVE  /\ w \in Tasks /\ w \notin Ops /\ w \notin Snapshots /\ w \notin Tabs
         /\ mine[w] \in Scopes /\ mine = [mine EXCEPT ![w] = mine[w]]
         /\ mine[w].op \in Ops /\ op[mine[w].op] \in Operations /\ at[mine[w].op] \in Past
<1>1. w \in Tasks /\ w \notin Ops /\ w \notin Snapshots /\ w \notin Tabs
  BY Distinct
<1>2. mine[w] \in Scopes /\ mine = [mine EXCEPT ![w] = mine[w]]
  BY <1>1, MineSame DEF Inv, Types
<1>3. mine[w].op \in Ops
  BY DEF Inv, Known
<1>4. mine[w].op # None
  BY <1>3, Distinct
<1>5. op[mine[w].op] \in Operations
  BY <1>3 DEF Inv, Types, OpsTyped
<1> QED
  BY <1>1, <1>2, <1>3, <1>4, <1>5 DEF Inv, Known

LEMMA ScopeIs ==
  ASSUME NEW s \in Scopes, NEW d \in 0 .. MaxDialogs
  PROVE  [s EXCEPT !.dialog = d] \in Scopes /\ [s EXCEPT !.dialog = d].op = s.op
  BY DEF Scopes

LEMMA WorldSame ==
  ASSUME Inv, UNCHANGED world
  PROVE  WorldTyped'
  BY DEF Inv, Types, WorldTyped, world

LEMMA FinishWell ==
  ASSUME Inv, NEW w \in Responds \cup Dialogs, at[w] \notin {"idle", "done"},
         NEW o, Calm(op[mine[w].op], o), Finish(w, o),
         queue' = queue, closed' \subseteq Dialogs, marker' \in Tabs \cup {None},
         WorldTyped', HeldStep(w), StorageStep(w)
  PROVE  Inv'
<1> DEFINE p == mine[w].op
           x == IF w \in Responds THEN "idle" ELSE "done"
           r == IF w \in Responds THEN FALSE ELSE o.responding
           n == [o EXCEPT !.responding = r]
<1>1. w \in Tasks /\ w \notin Ops /\ p \in Ops
  BY WorkerIs
<1>2. op' = [op EXCEPT ![p] = n]
  BY DEF Finish
<1>3. at' = [at EXCEPT ![w] = x] /\ mine' = [mine EXCEPT ![w] = Locals(w)]
  BY DEF Finish, Goto
<1>4. o \in Operations
  BY DEF Calm
<1>5. r \in BOOLEAN
  BY <1>4 DEF Operations
<1> HIDE DEF r
<1>6. n \in Operations
  BY <1>4, <1>5 DEF Operations
<1>7. n.session = o.session /\ n.terminal = o.terminal /\ n.shown = o.shown
  BY <1>4 DEF Operations
<1> HIDE DEF n
<1>8. Calm(op[p], n)
  BY <1>6, <1>7 DEF Calm
<1> HIDE DEF p
<1>9. CalmOps
  BY <1>1, <1>2, <1>8, CalmOne DEF Inv
<1>10. x \in {"idle", "done"} /\ x \in Phases /\ Fits(w, x) /\ x \notin Closings
  BY <1>1, Distinct DEF Fits, Phases, RespondPhases, WatcherPhases, Closings
<1> HIDE DEF x
<1>11. Locals(w) \in Scopes /\ Locals(w).op = None
  BY <1>1, LocalsIs
<1> QED
  BY <1>1, <1>3, <1>9, <1>10, <1>11, HelperStep

LEMMA ThrowsWell ==
  ASSUME Inv, NEW w \in Responds, at[w] \in {"handling", "snapshotting"}, Throw(w),
         UNCHANGED <<queue, closed, world>>
  PROVE  Inv'
<1> DEFINE p == mine[w].op
<1>1. /\ w \in Tasks /\ w \notin Ops /\ w \notin Snapshots
      /\ mine[w] \in Scopes /\ mine = [mine EXCEPT ![w] = mine[w]]
      /\ p \in Ops /\ op[p] \in Operations /\ at[p] \in Past
  BY WorkerIs
<1>2. held' = held /\ queue' = queue /\ closed' \subseteq Dialogs /\ WorldTyped'
  BY WorldSame DEF Throw, Inv, Types, StateTyped
<1>3. HeldStep(w)
  BY <1>2 DEF HeldStep
<1>4. CASE held # p
  <2>1. Finish(w, op[p]) /\ UNCHANGED <<marker, storage>>
    BY <1>4 DEF Throw, Mine
  <2>2. StorageStep(w) /\ marker' \in Tabs \cup {None}
    BY <1>1, <2>1, PlainStorage DEF Inv, Types, StateTyped
  <2>3. Calm(op[p], op[p])
    BY <1>1 DEF Calm
  <2> QED
    BY <1>2, <1>3, <2>1, <2>2, <2>3, FinishWell
<1>5. CASE held = p
  <2> DEFINE n == [op[p] EXCEPT !.terminal = TRUE]
  <2>1. /\ op' = [op EXCEPT ![p] = n] /\ marker' = op[p].tab
        /\ storage' = Append(storage, w)
    BY <1>5 DEF Throw, Persist, Mine
  <2>2. at' = [at EXCEPT ![w] = "interrupting"] /\ UNCHANGED mine
    BY <1>5 DEF Throw, Goto
  <2>3. StorageStep(w)
    BY <1>1, <2>1, PlainStorage
  <2>4. marker' \in Tabs \cup {None}
    BY <1>1, <2>1 DEF Operations
  <2>5. n \in Operations /\ n.session = op[p].session
    BY <1>1 DEF Operations
  <2>6. op' = [op EXCEPT ![p] = n] /\ storage' = Append(storage, w)
    BY <2>1
  <2> HIDE DEF n
  <2>7. "interrupting" \in Phases /\ Fits(w, "interrupting") /\ "interrupting" \notin Closings
    BY <1>1, Distinct DEF Fits, Phases, OpPhases, RespondPhases, Closings
  <2>8. mine' = [mine EXCEPT ![w] = mine[w]]
    BY <1>1, <2>2
  <2> QED
    BY <1>1, <1>2, <1>3, <2>2, <2>3, <2>4, <2>5, <2>6, <2>7, <2>8, HelperMarks
<1> QED
  BY <1>4, <1>5

LEMMA ClosesWell ==
  ASSUME Inv, NEW w \in Responds \cup Dialogs, at[w] \in {"advancing", "snapshotting"},
         NEW closing, NEW clearing, CloseRetained(w, closing, clearing),
         \/ closing = "closing" /\ clearing = "clearing"
         \/ w \in Dialogs /\ closing = "reclosing" /\ clearing = "reclearing",
         UNCHANGED <<queue, closed, world>>
  PROVE  Inv'
<1> DEFINE p == mine[w].op
           g == LetGo(op[p])
           b == g.terminal \/ closing = "reclosing"
           n == [g EXCEPT !.terminal = b]
<1>1. /\ w \in Tasks /\ w \notin Ops /\ w \notin Snapshots
      /\ mine[w] \in Scopes /\ mine = [mine EXCEPT ![w] = mine[w]]
      /\ p \in Ops /\ op[p] \in Operations /\ at[p] \in Past
  BY WorkerIs
<1>2. g \in Operations /\ g.session # "open" /\ g.terminal = op[p].terminal
  BY <1>1, LetGoIs
<1>3. op' = [op EXCEPT ![p] = n]
  BY DEF CloseRetained, Mine
<1>4. b \in BOOLEAN
  BY <1>2 DEF Operations
<1> HIDE DEF b, g
<1>5. n \in Operations
  BY <1>2, <1>4 DEF Operations
<1>6. n.session # "open"
  BY <1>2 DEF Operations
<1> HIDE DEF n
<1>7. op'[p].session # "open"
  <2>1. op \in [Ops -> Operations]
    BY DEF Inv, Types, OpsTyped
  <2> QED
    BY <1>1, <1>3, <1>6, <2>1
<1>8. queue' = queue /\ closed' \subseteq Dialogs /\ WorldTyped'
  BY WorldSame DEF Inv, Types, StateTyped
<1>9. PICK x \in {closing, clearing} :
        /\ at' = [at EXCEPT ![w] = x] /\ UNCHANGED mine
        /\ \/ UNCHANGED <<held, marker, storage>>
           \/ /\ held' = IF held = p THEN None ELSE held
              /\ marker' = None /\ storage' = Append(storage, w)
  BY DEF CloseRetained, Release, Goto
<1>10. HeldStep(w) /\ marker' \in Tabs \cup {None}
  BY <1>7, <1>9 DEF HeldStep, Inv, Types, StateTyped
<1>11. StorageStep(w)
  BY <1>1, <1>9, PlainStorage
<1>12. x \in Phases /\ Fits(w, x)
  BY <1>1, Distinct DEF Fits, Phases, RespondPhases, WatcherPhases
<1>13. mine' = [mine EXCEPT ![w] = mine[w]]
  BY <1>1, <1>9
<1>14. x # "interrupting" /\ (mine[w].op # None => op'[mine[w].op].session # "open")
  BY <1>7
<1>15. at' = [at EXCEPT ![w] = x] /\ mine[w].op \in Ops
  BY <1>1, <1>9
<1> HIDE DEF p
<1> QED
  BY <1>1, <1>3, <1>5, <1>6, <1>8, <1>10, <1>11, <1>12, <1>13, <1>14, <1>15, HelperMarks

LEMMA HandlesWell ==
  ASSUME Inv, NEW w \in Responds, Handled(w)
  PROVE  Inv'
<1> DEFINE p == mine[w].op
           t == op[p].tab
<1>0. at[w] = "handling" /\ UNCHANGED <<queue, closed, tabs, opened, faults>>
  BY DEF Handled
<1>1. /\ w \in Tasks /\ w \notin Ops /\ w \notin Snapshots /\ mine[w] \in Scopes
      /\ p \in Ops /\ op[p] \in Operations
  BY <1>0, WorkerIs
<1>2. CASE Throw(w) /\ UNCHANGED dialog
  BY <1>0, <1>2, ThrowsWell DEF world
<1>3. CASE ~(Throw(w) /\ UNCHANGED dialog)
  <2> DEFINE n == Notify(op[p], "closed", dialog[t])
             l == [mine[w] EXCEPT !.dialog = op[p].entry]
  <2>1. /\ Shows(t)
        /\ dialog' = [dialog EXCEPT ![t] = 0]
        /\ op' = [op EXCEPT ![p] = n]
        /\ mine' = [mine EXCEPT ![w] = l]
    BY <1>3 DEF Handled
  <2>2. at' = [at EXCEPT ![w] = "awaiting"] /\ UNCHANGED <<held, marker, storage>>
    BY <1>3 DEF Handled, Goto
  <2>3. Calm(op[p], n)
    <3>1. PICK d : d = dialog[t]
      OBVIOUS
    <3>2. d \in Dialogs
      BY <2>1, <3>1, BoundsValid DEF Shows, Inv, Types, WorldTyped, Dialogs
    <3> QED
      BY <1>1, <3>1, <3>2, NotifyIs DEF Events
  <2>4. l \in Scopes /\ l.op = p
    <3>1. op[p].entry \in 0 .. MaxDialogs
      BY <1>1 DEF Operations
    <3> QED
      BY <1>1, <3>1, ScopeIs
  <2>5. WorldTyped'
    <3>1. dialog \in [Tabs -> 0 .. MaxDialogs] /\ 0 \in 0 .. MaxDialogs
      BY BoundsValid DEF Inv, Types, WorldTyped
    <3>2. dialog' \in [Tabs -> 0 .. MaxDialogs]
      <4>1. dialog' = [dialog EXCEPT ![t] = 0]
        BY <2>1
      <4> QED
        BY <3>1, <4>1
    <3> QED
      BY <1>0, <3>2 DEF Inv, Types, WorldTyped
  <2> HIDE DEF n, l
  <2>6. CalmOps
    BY <1>1, <2>1, <2>3, CalmOne DEF Inv
  <2>7. HeldStep(w) /\ StorageStep(w)
    BY <1>0, <1>1, <2>2, PlainStorage DEF HeldStep
  <2>8. "awaiting" \in Phases /\ Fits(w, "awaiting") /\ "awaiting" \notin Closings
    BY <1>1, Distinct DEF Fits, Phases, RespondPhases, Closings
  <2>9. closed' \subseteq Dialogs /\ marker' \in Tabs \cup {None}
    BY <1>0, <2>2 DEF Inv, Types, StateTyped
  <2>10. mine' = [mine EXCEPT ![w] = l] /\ at' = [at EXCEPT ![w] = "awaiting"] /\ queue' = queue
    BY <1>0, <2>1, <2>2
  <2> QED
    BY <1>1, <2>4, <2>5, <2>6, <2>7, <2>8, <2>9, <2>10, HelperStep
<1> QED
  BY <1>2, <1>3

LEMMA ClosedSeenWell ==
  ASSUME Inv, NEW w \in Responds \cup Dialogs, RespondClosed(w) \/ WatchClosed(w)
  PROVE  Inv'
<1>1. /\ at[w] \in {"awaiting", "armed"}
      /\ UNCHANGED <<queue, mine, held, op, closed, storage, marker, world>>
  BY DEF RespondClosed, WatchClosed
<1>2. /\ w \in Tasks /\ w \notin Ops /\ w \notin Snapshots /\ mine[w] \in Scopes
      /\ mine = [mine EXCEPT ![w] = mine[w]] /\ mine[w].op \in Ops
  BY <1>1, WorkerIs
<1>3. PICK x \in {"advancing", "done"} :
        at' = [at EXCEPT ![w] = x] /\ (x = "done" => w \in Dialogs)
  <2>1. at[w] = "awaiting" => w \in Responds
    BY Distinct DEF Inv, Types, TasksTyped, WatcherPhases
  <2>2. at[w] = "armed" => w \in Dialogs
    BY Distinct DEF Inv, Types, TasksTyped, RespondPhases
  <2> QED
    BY <2>1, <2>2 DEF RespondClosed, WatchClosed, Goto
<1>4. x \in Phases /\ Fits(w, x) /\ x \notin Closings
  BY <1>2, <1>3, Distinct DEF Fits, Phases, RespondPhases, WatcherPhases, Closings
<1>5. CalmOps /\ HeldStep(w) /\ StorageStep(w) /\ WorldTyped'
  BY <1>1, <1>2, PlainStorage, WorldSame, CalmSame DEF Inv, HeldStep
<1>6. closed' \subseteq Dialogs /\ marker' \in Tabs \cup {None} /\ queue' = queue
  BY <1>1 DEF Inv, Types, StateTyped
<1>7. mine' = [mine EXCEPT ![w] = mine[w]]
  BY <1>1, <1>2
<1> QED
  BY <1>2, <1>3, <1>4, <1>5, <1>6, <1>7, HelperStep

LEMMA ReleasesWell ==
  ASSUME Inv, NEW w \in Responds \cup Dialogs, ClosedRetained(w)
  PROVE  Inv'
<1> DEFINE p == mine[w].op
<1>1. at[w] \in {"closing", "reclosing"} /\ UNCHANGED <<queue, op, closed, world>>
  BY DEF ClosedRetained
<1>2. /\ w \in Tasks /\ w \notin Ops /\ w \notin Snapshots /\ mine[w] \in Scopes
      /\ mine = [mine EXCEPT ![w] = mine[w]] /\ p \in Ops
  BY <1>1, WorkerIs
<1>3. PICK x \in {"clearing", "reclearing"} :
        /\ at' = [at EXCEPT ![w] = x]
        /\ x = "clearing" \/ at[w] = "reclosing"
        /\ held' = (IF held = p THEN None ELSE held)
        /\ marker' = None /\ storage' = Append(storage, w) /\ UNCHANGED mine
  BY DEF ClosedRetained, Release, Goto
<1>4. op[p].session = "closed" /\ op'[p].session # "open"
  BY <1>1 DEF ClosedRetained, Mine
<1>5. x \in Phases /\ Fits(w, x)
  <2>1. at[w] = "reclosing" => w \in Dialogs
    BY Distinct DEF Inv, Types, TasksTyped, RespondPhases
  <2> QED
    BY <1>2, <1>3, <2>1, Distinct DEF Fits, Phases, RespondPhases, WatcherPhases
<1>6. HeldStep(w) /\ marker' \in Tabs \cup {None}
  BY <1>3, <1>4 DEF HeldStep
<1>7. StorageStep(w)
  BY <1>1, <1>2, <1>3, PlainStorage
<1>8. CalmOps /\ WorldTyped' /\ queue' = queue /\ closed' \subseteq Dialogs
  BY <1>1, WorldSame, CalmSame DEF Inv, Types, StateTyped
<1>9. mine' = [mine EXCEPT ![w] = mine[w]]
  BY <1>2, <1>3
<1> QED
  BY <1>2, <1>3, <1>4, <1>5, <1>6, <1>7, <1>8, <1>9, HelperStep

LEMMA ClearsWell ==
  ASSUME Inv, NEW w \in Responds \cup Dialogs, Cleared(w)
  PROVE  Inv'
<1> DEFINE p == mine[w].op
<1>1. /\ at[w] \in {"clearing", "reclearing"} /\ UNCHANGED <<queue, closed, world>>
      /\ storage # <<>> /\ Head(storage) = w
  BY DEF Cleared, Answered
<1>2. /\ w \in Tasks /\ w \notin Ops /\ w \notin Snapshots /\ mine[w] \in Scopes
      /\ mine = [mine EXCEPT ![w] = mine[w]]
      /\ p \in Ops /\ op[p] \in Operations /\ at[p] \in Past
  BY <1>1, WorkerIs
<1>3. WorldTyped' /\ queue' = queue /\ closed' \subseteq Dialogs
  BY <1>1, WorldSame DEF Inv, Types, StateTyped
<1>4. CASE Finish(w, op[p]) /\ storage' = Tail(storage) /\ UNCHANGED <<held, marker>>
  <2>1. Calm(op[p], op[p])
    BY <1>2 DEF Calm
  <2>2. StorageStep(w)
    BY <1>1, <1>2, <1>4, PlainStorage
  <2>3. HeldStep(w) /\ marker' \in Tabs \cup {None}
    BY <1>4 DEF HeldStep, Inv, Types, StateTyped
  <2> QED
    BY <1>1, <1>3, <1>4, <2>1, <2>2, <2>3, FinishWell
<1>5. ASSUME w \in Dialogs, at' = [at EXCEPT ![w] = "reclearing"],
             held' = (IF held = p THEN None ELSE held), marker' = None,
             storage' = Append(Tail(storage), w),
             op' = [op EXCEPT ![p].terminal = TRUE], UNCHANGED mine
      PROVE  Inv'
  <2> DEFINE n == [op[p] EXCEPT !.terminal = TRUE]
  <2>1. op' = [op EXCEPT ![p] = n]
    BY <1>5
  <2>2. op[p].session # "open"
    <3>1. at[w] \in Closings /\ mine[w].op # None
      BY <1>1, <1>2, Distinct DEF Closings
    <3> QED
      BY <1>2, <3>1 DEF Inv, NotOpen
  <2>3. n \in Operations /\ n.session = op[p].session
    BY <1>2 DEF Operations
  <2> HIDE DEF n
  <2>4. op'[p].session # "open"
    <3>1. op \in [Ops -> Operations]
      BY DEF Inv, Types, OpsTyped
    <3> QED
      BY <1>2, <2>1, <2>2, <2>3, <3>1
  <2>5. HeldStep(w) /\ marker' \in Tabs \cup {None}
    BY <1>5, <2>4 DEF HeldStep
  <2>6. StorageStep(w)
    BY <1>1, <1>2, <1>5, PlainStorage
  <2>7. "reclearing" \in Phases /\ Fits(w, "reclearing")
    BY <1>2, <1>5, Distinct DEF Fits, Phases, WatcherPhases
  <2>8. mine' = [mine EXCEPT ![w] = mine[w]]
    BY <1>2, <1>5
  <2>9. at' = [at EXCEPT ![w] = "reclearing"]
    BY <1>5
  <2> QED
    BY <1>2, <1>3, <2>1, <2>2, <2>3, <2>4, <2>5, <2>6, <2>7, <2>8, <2>9, HelperMarks
<1> QED
  BY <1>4, <1>5 DEF Cleared, Goto, Mine

LEMMA RespondsLeave ==
  ASSUME Inv, NEW w \in Responds, RespondLeft(w)
  PROVE  Inv'
<1>1. /\ at[w] = "leaving" /\ Finish(w, op[mine[w].op])
      /\ UNCHANGED <<queue, held, closed, storage, marker, world>>
  BY DEF RespondLeft, Mine
<1>2. w \in Tasks /\ w \notin Snapshots /\ op[mine[w].op] \in Operations
  BY <1>1, WorkerIs
<1>3. WorldTyped' /\ queue' = queue /\ closed' \subseteq Dialogs /\ marker' \in Tabs \cup {None}
  BY <1>1, WorldSame DEF Inv, Types, StateTyped
<1>4. HeldStep(w) /\ StorageStep(w)
  BY <1>1, <1>2, PlainStorage DEF HeldStep
<1>5. Calm(op[mine[w].op], op[mine[w].op])
  BY <1>2 DEF Calm
<1> QED
  BY <1>1, <1>3, <1>4, <1>5, FinishWell

LEMMA InterruptsWell ==
  ASSUME Inv, NEW w \in Ops \cup Responds \cup Dialogs, Interrupted(w)
  PROVE  Inv'
<1> DEFINE p == mine[w].op
           g == LetGo(op[p])
<1>1. /\ at[w] = "interrupting" /\ UNCHANGED <<queue, held, closed, marker, world>>
      /\ storage # <<>> /\ Head(storage) = w /\ storage' = Tail(storage)
  BY DEF Interrupted, Answered
<1>2. /\ w \in Tasks /\ w \notin Snapshots /\ mine[w] \in Scopes
      /\ mine = [mine EXCEPT ![w] = mine[w]]
      /\ p \in Ops /\ op[p] \in Operations
  <2>1. CASE w \in Ops
    <3>1. w \in Tasks /\ w \notin Snapshots /\ p = w
      BY <2>1, Distinct DEF Inv, Known
    <3>2. mine[w] \in Scopes /\ mine = [mine EXCEPT ![w] = mine[w]]
      BY <3>1, MineSame DEF Inv, Types
    <3> QED
      BY <2>1, <3>1, <3>2 DEF Inv, Types, OpsTyped
  <2>2. CASE w \notin Ops
    BY <1>1, <2>2, WorkerIs
  <2> QED
    BY <2>1, <2>2
<1>3. g \in Operations /\ Calm(op[p], g) /\ g.session # "open"
  BY <1>2, LetGoIs
<1>4. WorldTyped' /\ queue' = queue /\ closed' \subseteq Dialogs /\ marker' \in Tabs \cup {None}
  BY <1>1, WorldSame DEF Inv, Types, StateTyped
<1>5. HeldStep(w)
  BY <1>1 DEF HeldStep
<1>6. w \notin Dialogs
  BY <1>1, Distinct DEF Inv, Types, TasksTyped, WatcherPhases
<1>7. PICK n : Calm(op[p], n) /\ n.session # "open" /\ op' = [op EXCEPT ![p] = n]
  <2>1. CASE op' = [op EXCEPT ![mine[w].op] = LetGo(@)]
    BY <1>3, <2>1
  <2>2. CASE Finish(w, g)
    <3> DEFINE r == IF w \in Responds THEN FALSE ELSE g.responding
               n == [g EXCEPT !.responding = r]
    <3>1. op' = [op EXCEPT ![p] = n]
      BY <2>2 DEF Finish
    <3> HIDE DEF g
    <3>2. r \in BOOLEAN
      BY <1>3 DEF Operations
    <3> HIDE DEF r
    <3>3. n \in Operations
      BY <1>3, <3>2 DEF Operations
    <3>4. n.session = g.session /\ n.terminal = g.terminal /\ n.shown = g.shown
      BY <1>3 DEF Operations
    <3>5. Calm(op[p], n) /\ n.session # "open"
      BY <1>3, <3>3, <3>4 DEF Calm
    <3> QED
      BY <3>1, <3>5
  <2> QED
    BY <2>1, <2>2 DEF Interrupted, Mine
<1>8. CalmOps /\ op'[p] = n
  BY <1>2, <1>7, CalmOne DEF Inv
<1>9. StorageStep(w)
  BY <1>1, <1>2, <1>7, <1>8 DEF StorageStep
<1>10. CASE w \in Ops
  <2>1. w \notin Responds /\ p = w
    BY <1>10, Distinct DEF Inv, Known
  <2>2. Finish(w, g)
    BY <2>1 DEF Interrupted, Mine
  <2>3. at' = [at EXCEPT ![w] = "done"] /\ mine' = [mine EXCEPT ![w] = Locals(w)]
    BY <2>1, <2>2 DEF Finish, Goto
  <2>4. Locals(w) \in Scopes /\ Locals(w).op = w
    BY <1>2, <1>10, LocalsIs
  <2>5. TasksTyped' /\ Others(w) /\ OwnStep(w) /\ at'[w] = "done"
    <3>1. "done" \in OpPhases /\ "done" \in Past /\ "done" \notin Fresh
      BY DEF OpPhases, Past, Fresh
    <3> QED
      BY <1>10, <2>3, <2>4, <3>1, OpMoves
  <2>6. QueueStep(w)
    BY <1>1, <1>4, <2>5 DEF QueueStep, Turn
  <2>7. OpsStep(w)
    BY <1>1, <1>2, <1>8, <2>5, CalmStep DEF Fresh
  <2> QED
    BY <1>2, <1>4, <1>5, <1>8, <1>9, <2>5, <2>6, <2>7, StepDone DEF CalmOps
<1>11. CASE w \in Responds
  <2>1. CASE Finish(w, g)
    BY <1>1, <1>3, <1>4, <1>5, <1>9, <1>11, <2>1, FinishWell
  <2>2. CASE ~Finish(w, g)
    <3>1. at' = [at EXCEPT ![w] = "leaving"] /\ UNCHANGED mine
      BY <2>2 DEF Interrupted, Goto, Mine
    <3>2. "leaving" \in Phases /\ Fits(w, "leaving") /\ "leaving" \notin Closings
      BY <1>2, <1>11, Distinct DEF Fits, Phases, RespondPhases, Closings
    <3>3. mine' = [mine EXCEPT ![w] = mine[w]] /\ w \notin Ops
      BY <1>2, <1>11, <3>1, Distinct
    <3> QED
      BY <1>2, <1>4, <1>5, <1>8, <1>9, <3>1, <3>2, <3>3, HelperStep
  <2> QED
    BY <2>1, <2>2
<1> QED
  BY <1>6, <1>10, <1>11

LEMMA TakesWell ==
  ASSUME Inv, NEW w \in Ops \cup Responds \cup Dialogs, TakeDialog(w)
  PROVE  Inv'
<1> DEFINE p == mine[w].op
           d == Head(op[p].openings)
           rest == Tail(op[p].openings)
           n == [op[p] EXCEPT !.entry = d, !.openings = rest]
           l == [mine[w] EXCEPT !.dialog = d]
<1>1. /\ at[w] \in {"racing", "advancing"} /\ op[p].openings # <<>>
      /\ UNCHANGED <<queue, held, closed, storage, marker, world>>
  BY DEF TakeDialog
<1>2. /\ at' = [at EXCEPT ![w] = "snapshotting"]
      /\ op' = [op EXCEPT ![p].entry = d, ![p].openings = Tail(@)]
      /\ mine' = [mine EXCEPT ![w].dialog = d]
  BY DEF TakeDialog, Goto
<1>3. w \in Tasks /\ w \notin Snapshots /\ mine[w] \in Scopes /\ p \in Ops /\ op[p] \in Operations
  <2>1. CASE w \in Ops
    <3>1. w \in Tasks /\ w \notin Snapshots /\ p = w
      BY <2>1, Distinct DEF Inv, Known
    <3> QED
      BY <2>1, <3>1 DEF Inv, Types, OpsTyped, TasksTyped
  <2>2. CASE w \notin Ops
    BY <1>1, <2>2, WorkerIs
  <2> QED
    BY <2>1, <2>2
<1>4. d \in Dialogs /\ d \in 0 .. MaxDialogs /\ rest \in Seq(Dialogs)
  <2>1. op[p].openings \in Seq(Dialogs)
    BY <1>3 DEF Operations
  <2>2. d \in Dialogs /\ rest \in Seq(Dialogs)
    BY <1>1, <2>1, HeadTailProperties
  <2> QED
    BY <2>2, BoundsValid DEF Dialogs
<1>5. op' = [op EXCEPT ![p] = n] /\ mine' = [mine EXCEPT ![w] = l]
  BY <1>2
<1>6. l \in Scopes /\ l.op = p
  BY <1>3, <1>4, ScopeIs
<1> HIDE DEF d, rest, l
<1>7. n \in Operations
  BY <1>3, <1>4 DEF Operations
<1>8. n.session = op[p].session /\ n.terminal = op[p].terminal /\ n.shown = op[p].shown
  BY <1>3 DEF Operations
<1> HIDE DEF n
<1>9. CalmOps
  <2>1. Calm(op[p], n)
    BY <1>7, <1>8 DEF Calm
  <2> QED
    BY <1>3, <1>5, <2>1, CalmOne DEF Inv
<1>10. HeldStep(w) /\ StorageStep(w)
  BY <1>1, <1>3, PlainStorage DEF HeldStep
<1>11. WorldTyped' /\ queue' = queue /\ closed' \subseteq Dialogs /\ marker' \in Tabs \cup {None}
  BY <1>1, WorldSame DEF Inv, Types, StateTyped
<1>12. /\ "snapshotting" \in Phases /\ "snapshotting" \in OpPhases
       /\ Fits(w, "snapshotting") \/ w \in Snapshots \cup Tabs
       /\ "snapshotting" \notin Closings
  BY <1>3, Distinct DEF Fits, Phases, OpPhases, RespondPhases, WatcherPhases, Closings
<1>13. CASE w \in Ops
  <2>1. at[w] \in Fresh /\ at[w] \in Turn /\ p = w
    <3>1. at[w] = "racing"
      BY <1>1, <1>13 DEF Inv, Types, TasksTyped, OpPhases
    <3> QED
      BY <1>13, <3>1 DEF Inv, Known, Fresh, Turn
  <2>2. TasksTyped' /\ Others(w) /\ OwnStep(w) /\ at'[w] = "snapshotting"
    <3>1. at[w] \notin Past
      BY <2>1 DEF Fresh, Past
    <3>2. at' = [at EXCEPT ![w] = "snapshotting"] /\ mine' = [mine EXCEPT ![w] = l]
      BY <1>2, <1>5
    <3> QED
      BY <1>6, <1>12, <1>13, <2>1, <3>1, <3>2, OpMoves
  <2>3. QueueStep(w)
    BY <1>11, <2>1, <2>2 DEF QueueStep, InTurn, Turn
  <2>4. OpsStep(w)
    BY <1>3, <1>9, <2>2, CalmStep DEF Fresh
  <2> QED
    BY <1>3, <1>9, <1>10, <1>11, <2>2, <2>3, <2>4, StepDone DEF CalmOps
<1>14. CASE w \notin Ops
  <2>1. at' = [at EXCEPT ![w] = "snapshotting"] /\ mine' = [mine EXCEPT ![w] = l]
    BY <1>2, <1>5
  <2>2. w \notin Tabs
    BY <1>14, Distinct
  <2> QED
    BY <1>3, <1>6, <1>9, <1>10, <1>11, <1>12, <1>14, <2>1, <2>2, HelperStep
<1> QED
  BY <1>13, <1>14

\* The first dialog of an operation: it is held from now on.
LEMMA HoldsWell ==
  ASSUME Inv, NEW p \in Ops, Snapshotted(p)
  PROVE  Inv'
<1>0. p \in Tasks /\ mine[p].op = p /\ mine[p] \in Scopes /\ op[p] \in Operations
  BY Distinct DEF Inv, Known, Types, TasksTyped, OpsTyped
<1>1. at[p] = "snapshotting" /\ UNCHANGED <<queue, closed, world>>
  BY DEF Snapshotted
<1>2. at[p] \in Fresh /\ InTurn(p) /\ at[p] \notin Past
  BY <1>1 DEF InTurn, Turn, Fresh, Past
<1>3. CASE op[p].tab \notin tabs
  <2>1. Leave(p)
    BY <1>0, <1>3, Distinct DEF Snapshotted
  <2> QED
    BY <1>1, <1>2, <2>1, LeavesWell
<1>4. CASE op[p].tab \in tabs
  <2> DEFINE n == [op[p] EXCEPT !.shown = mine[p].dialog]
  <2>1. /\ op' = [op EXCEPT ![p] = n] /\ held' = p
        /\ marker' = op[p].tab /\ storage' = Append(storage, p)
        /\ at' = [at EXCEPT ![p] = "persisting"] /\ UNCHANGED mine
    BY <1>0, <1>4 DEF Snapshotted, Persist, Goto, Mine
  <2>2. mine' = [mine EXCEPT ![p] = mine[p]]
    BY <1>0, <2>1, MineSame DEF Inv, Types
  <2>3. TasksTyped' /\ Others(p) /\ OwnStep(p) /\ at'[p] = "persisting"
    <3>1. "persisting" \in OpPhases /\ "persisting" \notin Fresh
      BY DEF OpPhases, Fresh
    <3>2. at' = [at EXCEPT ![p] = "persisting"]
      BY <2>1
    <3> QED
      BY <1>0, <1>2, <2>2, <3>1, <3>2, OpMoves
  <2>4. QueueStep(p) /\ HeldStep(p)
    BY <1>1, <1>2, <2>1, <2>3 DEF QueueStep, HeldStep, Turn
  <2>5. StorageStep(p)
    BY <1>1, <2>1, OpStorage
  <2>6. mine[p].dialog \in 0 .. MaxDialogs
    BY <1>0 DEF Scopes
  <2>7. n \in Operations
    BY <1>0, <2>6 DEF Operations
  <2>8. n.session = op[p].session /\ n.terminal = op[p].terminal
    BY <1>0 DEF Operations
  <2>9. op' = [op EXCEPT ![p] = n] /\ held' = p /\ at'[p] \in Past
    BY <2>1, <2>3 DEF Past
  <2>10. ~op[p].terminal
    BY <1>2 DEF Inv, Known
  <2>11. marker' \in Tabs \cup {None}
    BY <1>0, <2>1 DEF Operations
  <2> HIDE DEF n
  <2>12. op' \in [Ops -> Operations] /\ OpsStep(p)
    BY <1>0, <2>3, <2>7, <2>8, <2>9, <2>10, OneStep
  <2>13. WorldTyped' /\ closed' \subseteq Dialogs
    BY <1>1, WorldSame DEF Inv, Types, StateTyped
  <2> QED
    BY <1>0, <2>3, <2>4, <2>5, <2>11, <2>12, <2>13, StepDone
<1> QED
  BY <1>3, <1>4

LEMMA SnapshotsWell ==
  ASSUME Inv, NEW w \in Responds \cup Dialogs, Snapshotted(w)
  PROVE  Inv'
<1> DEFINE p == mine[w].op
<1>1. at[w] = "snapshotting" /\ UNCHANGED <<queue, closed, world>>
  BY DEF Snapshotted
<1>2. /\ w \in Tasks /\ w \notin Ops /\ w \notin Snapshots /\ w \notin Tabs /\ mine[w] \in Scopes
      /\ mine = [mine EXCEPT ![w] = mine[w]]
      /\ p \in Ops /\ op[p] \in Operations /\ at[p] \in Past
  BY <1>1, WorkerIs
<1>3. CASE op[p].tab \notin tabs
  <2>1. CASE w \in Responds
    <3>1. Throw(w)
      BY <1>2, <1>3, <2>1 DEF Snapshotted
    <3> QED
      BY <1>1, <2>1, <3>1, ThrowsWell
  <2>2. CASE w \notin Responds
    <3>1. CloseRetained(w, "reclosing", "reclearing")
      BY <1>2, <1>3, <2>2 DEF Snapshotted
    <3> QED
      BY <1>1, <2>2, <3>1, ClosesWell
  <2> QED
    BY <2>1, <2>2
<1>4. CASE op[p].tab \in tabs
  <2> DEFINE n == [op[p] EXCEPT !.shown = mine[w].dialog]
  <2>1. /\ op' = [op EXCEPT ![p] = n] /\ held' = held
        /\ marker' = op[p].tab /\ storage' = Append(storage, w)
        /\ at' = [at EXCEPT ![w] = "persisting"] /\ UNCHANGED mine
    BY <1>2, <1>4 DEF Snapshotted, Persist, Goto, Mine
  <2>2. mine[w].dialog \in 0 .. MaxDialogs
    BY <1>2 DEF Scopes
  <2>3. n \in Operations
    BY <1>2, <2>2 DEF Operations
  <2>4. n.session = op[p].session /\ n.terminal = op[p].terminal
    BY <1>2 DEF Operations
  <2>5. op' = [op EXCEPT ![p] = n] /\ at' = [at EXCEPT ![w] = "persisting"]
    BY <2>1
  <2>6. HeldStep(w) /\ StorageStep(w)
    BY <1>1, <1>2, <2>1, PlainStorage DEF HeldStep
  <2>7. marker' \in Tabs \cup {None}
    BY <1>2, <2>1 DEF Operations
  <2> HIDE DEF n
  <2>8. "persisting" \in Phases /\ Fits(w, "persisting") /\ "persisting" \notin Closings
    BY <1>2, Distinct DEF Fits, Phases, OpPhases, RespondPhases, WatcherPhases, Closings
  <2>9. mine' = [mine EXCEPT ![w] = mine[w]]
    BY <1>2, <2>1
  <2>10. WorldTyped' /\ closed' \subseteq Dialogs /\ queue' = queue
    BY <1>1, WorldSame DEF Inv, Types, StateTyped
  <2> QED
    BY ZenonT(60), <1>2, <2>3, <2>4, <2>5, <2>6, <2>7, <2>8, <2>9, <2>10, HelperMarks
<1> QED
  BY <1>3, <1>4

LEMMA AdvancesWell ==
  ASSUME Inv, NEW w \in Responds \cup Dialogs, Advanced(w)
  PROVE  Inv'
<1> DEFINE p == mine[w].op
           x == IF w \in Responds THEN "idle" ELSE "done"
           r == IF w \in Responds THEN FALSE ELSE op[p].responding
           n == [op[p] EXCEPT !.responding = r]
<1>1. /\ at[w] = "persisting" /\ UNCHANGED <<queue, held, closed, marker, world>>
      /\ storage # <<>> /\ Head(storage) = w /\ storage' = Tail(storage)
  BY DEF Advanced, Answered
<1>2. /\ at' = [at EXCEPT ![mine[w].dialog] = "armed", ![w] = x]
      /\ mine' = [mine EXCEPT ![mine[w].dialog].op = mine[w].op, ![w] = Locals(w)]
      /\ op' = [op EXCEPT ![p] = n]
  BY DEF Advanced
<1>3. w \in Tasks /\ w \notin Ops /\ w \notin Snapshots /\ w \notin Tabs /\ p \in Ops /\ op[p] \in Operations
  BY <1>1, WorkerIs
<1>4. x \in {"idle", "done"} /\ Fits(w, x)
  BY <1>3, Distinct DEF Fits, RespondPhases, WatcherPhases
<1>5. r \in BOOLEAN
  BY <1>3 DEF Operations
<1> HIDE DEF r
<1>6. n \in Operations
  BY <1>3, <1>5 DEF Operations
<1>7. n.session = op[p].session /\ n.terminal = op[p].terminal /\ n.shown = op[p].shown
  BY <1>3 DEF Operations
<1>8. op' = [op EXCEPT ![p] = n]
  BY <1>2
<1> HIDE DEF n
<1>9. CalmOps
  <2>1. Calm(op[p], n)
    BY <1>6, <1>7 DEF Calm
  <2> QED
    BY <1>3, <1>8, <2>1, CalmOne DEF Inv
<1> HIDE DEF x
<1>10. TasksTyped' /\ Others(w) /\ OwnStep(w)
  BY <1>1, <1>2, <1>3, <1>4, TaskArms
<1>11. HeldStep(w) /\ StorageStep(w) /\ QueueStep(w)
  BY <1>1, <1>3, PlainStorage DEF HeldStep, QueueStep
<1>12. OpsStep(w)
  BY <1>3, <1>9, <1>10, CalmStep
<1>13. WorldTyped' /\ closed' \subseteq Dialogs /\ marker' \in Tabs \cup {None}
  BY <1>1, WorldSame DEF Inv, Types, StateTyped
<1> QED
  BY <1>3, <1>9, <1>10, <1>11, <1>12, <1>13, StepDone DEF CalmOps

LEMMA DialogStepWell ==
  ASSUME Inv, NEW w \in Ops \cup Responds \cup Dialogs, DialogStep(w)
  PROVE  Inv'
<1>1. w \in Ops => at[w] \in OpPhases
  BY DEF Inv, Types, TasksTyped
<1>2. w \in Dialogs => at[w] \in WatcherPhases
  BY DEF Inv, Types, TasksTyped
<1>3. CASE Handled(w)
  <2>1. w \in Responds
    BY <1>1, <1>2, <1>3 DEF Handled, OpPhases, WatcherPhases
  <2> QED
    BY <1>3, <2>1, HandlesWell
<1>4. CASE RespondClosed(w)
  <2>1. w \in Responds
    BY <1>1, <1>2, <1>4 DEF RespondClosed, OpPhases, WatcherPhases
  <2> QED
    BY <1>4, <2>1, ClosedSeenWell
<1>5. CASE Interrupted(w)
  BY <1>5, InterruptsWell
<1>6. CASE RespondLeft(w)
  BY <1>6, RespondsLeave DEF RespondLeft
<1>7. CASE AdvanceOutcome(w)
  <2>1. /\ at[w] = "advancing" /\ CloseRetained(w, "closing", "clearing")
        /\ UNCHANGED <<queue, closed, world>>
    BY <1>7 DEF AdvanceOutcome
  <2>2. w \in Responds \cup Dialogs
    BY <1>1, <2>1 DEF OpPhases
  <2> QED
    BY <2>1, <2>2, ClosesWell
<1>8. CASE TakeDialog(w)
  BY <1>8, TakesWell
<1>9. CASE Snapshotted(w)
  BY <1>9, HoldsWell, SnapshotsWell
<1>10. CASE Advanced(w)
  <2>1. w \in Responds \cup Dialogs
    BY <1>10 DEF Advanced
  <2> QED
    BY <1>10, <2>1, AdvancesWell
<1>11. CASE ClosedRetained(w)
  <2>1. w \in Responds \cup Dialogs
    BY <1>1, <1>11 DEF ClosedRetained, OpPhases
  <2> QED
    BY <1>11, <2>1, ReleasesWell
<1>12. CASE Cleared(w)
  <2>1. w \in Responds \cup Dialogs
    BY <1>1, <1>12 DEF Cleared, OpPhases
  <2> QED
    BY <1>12, <2>1, ClearsWell
<1> QED
  BY <1>3, <1>4, <1>5, <1>6, <1>7, <1>8, <1>9, <1>10, <1>11, <1>12 DEF DialogStep

\* A response takes the operation on offer.
LEMMA RespondsWell ==
  ASSUME Inv, NEW w \in Responds, Respond(w)
  PROVE  Inv'
<1>1. /\ at[w] = "idle" /\ held # None /\ at' = [at EXCEPT ![w] = "handling"]
      /\ UNCHANGED <<queue, held, closed, storage, marker, world>>
      /\ op' = [op EXCEPT ![held].responding = TRUE]
      /\ mine' = [mine EXCEPT ![w].op = held, ![w].dialog = op[held].shown]
  BY DEF Respond, Goto
<1>2. PICK p \in Ops : p = held
  BY <1>1 DEF Inv, Types, StateTyped
<1>3. op[p] \in Operations /\ w \in Tasks /\ w \notin Ops /\ w \notin Snapshots
  BY Distinct DEF Inv, Types, OpsTyped
<1> DEFINE n == [op[p] EXCEPT !.responding = TRUE]
           l == [mine[w] EXCEPT !.op = p, !.dialog = op[p].shown]
<1>4. op' = [op EXCEPT ![p] = n] /\ mine' = [mine EXCEPT ![w] = l]
  BY <1>1, <1>2
<1>5. n \in Operations
  BY <1>3 DEF Operations
<1>6. n.session = op[p].session /\ n.terminal = op[p].terminal /\ n.shown = op[p].shown
  BY <1>3 DEF Operations
<1>7. l \in Scopes /\ l.op = p
  <2>1. mine[w] \in Scopes /\ op[p].shown \in 0 .. MaxDialogs
    BY <1>3 DEF Inv, Types, TasksTyped, Operations
  <2> QED
    BY <2>1 DEF Scopes
<1> HIDE DEF n, l
<1>8. CalmOps
  <2>1. Calm(op[p], n)
    BY <1>5, <1>6 DEF Calm
  <2> QED
    BY <1>4, <2>1, CalmOne DEF Inv
<1>9. HeldStep(w) /\ StorageStep(w)
  BY <1>1, <1>3, PlainStorage DEF HeldStep
<1>10. "handling" \in Phases /\ Fits(w, "handling") /\ "handling" \notin Closings
  BY <1>3, Distinct DEF Fits, Phases, RespondPhases, Closings
<1>11. WorldTyped' /\ queue' = queue /\ closed' \subseteq Dialogs /\ marker' \in Tabs \cup {None}
  BY <1>1, WorldSame DEF Inv, Types, StateTyped
<1> QED
  BY ZenonT(60), <1>1, <1>2, <1>3, <1>4, <1>7, <1>8, <1>9, <1>10, <1>11, HelperStep

-----------------------------------------------------------------------------
(* Snapshots and tabs *)

\* A snapshot that is answered finds no open session: whoever interrupts the
\* operation has been answered before.
LEMMA ReadsLate ==
  ASSUME Inv, NEW c \in Snapshots, storage # <<>>, Head(storage) = c, mine[c].op \in Ops
  PROVE  op[mine[c].op].session # "open"
<1>1. 1 \in 1 .. Len(storage) /\ storage[1] = c
  BY HeadTailProperties DEF Inv, Types, StateTyped
<1>2. ~(\E i \in 1 .. (1 - 1) : Interrupts(storage[i], mine[c].op))
  OBVIOUS
<1> QED
  BY <1>1, <1>2 DEF Inv, Interruption

LEMMA RecoversWell ==
  ASSUME Inv, NEW c \in Snapshots, Snapshot(c) \/ Probe(c) \/ Recover(c)
  PROVE  Inv'
<1>0. c \in Tasks /\ c \notin Ops /\ c \notin Responds /\ c \notin Dialogs /\ c \notin Tabs
  BY Distinct
<1>1. mine[c] \in Scopes /\ held \in Ops \cup {None} /\ marker \in Tabs \cup {None}
      /\ at[c] # "interrupting"
  BY <1>0 DEF Inv, Types, TasksTyped, StateTyped, SnapshotPhases
<1>2. queue' = queue /\ closed' \subseteq Dialogs /\ WorldTyped'
  <2>1. UNCHANGED <<queue, closed, world>>
    BY DEF Snapshot, Probe, Recover
  <2> QED
    BY <2>1, WorldSame DEF Inv, Types, StateTyped
<1>3. \A x \in SnapshotPhases : x \in Phases /\ Fits(c, x)
  BY <1>0 DEF Fits, Phases
<1>4. CASE Snapshot(c)
  <2> DEFINE l == [mine[c] EXCEPT !.marker = marker, !.op = held]
  <2>1. /\ at[c] = "idle" /\ at' = [at EXCEPT ![c] = "reading"]
        /\ storage' = Append(storage, c) /\ UNCHANGED <<held, op, marker>>
        /\ held # None => op[held].terminal
    BY <1>4 DEF Snapshot, Goto, ReadMarker
  <2>2. mine' = [mine EXCEPT ![c] = l]
    BY <1>4 DEF Snapshot, ReadMarker
  <2>3. l \in Scopes /\ l.op = held /\ (l.op # None \/ l.marker # None)
    <3>1. held # None \/ marker # None
      BY <1>4 DEF Snapshot
    <3>2. l \in Scopes /\ l.op = held /\ l.marker = marker
      BY <1>1 DEF Scopes
    <3> QED
      BY <3>1, <3>2
  <2> HIDE DEF l
  <2>4. "reading" \in SnapshotPhases /\ "reading" \notin Closings
    BY DEF SnapshotPhases, Closings
  <2>5. at'[c] = "reading" /\ mine'[c] = l
    BY <1>0, <2>1, <2>2 DEF Inv, Types, TasksTyped
  <2>6. StorageStep(c)
    BY <1>0, <1>1, <2>1, <2>3, <2>5 DEF StorageStep
  <2>7. CalmOps /\ HeldStep(c) /\ marker' \in Tabs \cup {None}
    BY <1>1, <2>1, CalmSame DEF Inv, HeldStep
  <2> QED
    BY <1>0, <1>2, <1>3, <2>1, <2>2, <2>3, <2>4, <2>6, <2>7, HelperStep
<1>5. CASE Probe(c)
  <2> DEFINE m == IF mine[c].marker = None THEN Mine(c).tab ELSE mine[c].marker
             l == [mine[c] EXCEPT !.marker = m]
  <2>1. /\ at[c] = "reading" /\ at' = [at EXCEPT ![c] = "probing"]
        /\ storage # <<>> /\ Head(storage) = c /\ storage' = Tail(storage)
        /\ UNCHANGED <<held, op, marker>>
    BY <1>5 DEF Probe, Goto, Answered
  <2>2. mine' = [mine EXCEPT ![c] = l]
    BY <1>5 DEF Probe
  <2>3. m \in Tabs \cup {None}
    <3>1. CASE mine[c].marker # None
      BY <1>1, <3>1 DEF Scopes
    <3>2. CASE mine[c].marker = None
      <4>1. mine[c].op \in Ops
        BY <1>1, <2>1, <3>2 DEF Inv, Known, Scopes
      <4>2. op[mine[c].op] \in Operations
        BY <4>1 DEF Inv, Types, OpsTyped
      <4> QED
        BY <3>2, <4>2 DEF Mine, Operations
    <3> QED
      BY <3>1, <3>2
  <2>4. l \in Scopes /\ l.op = mine[c].op
    BY <1>1, <2>3 DEF Scopes
  <2>5. mine[c].op # None => op[mine[c].op].session # "open"
    <3>1. mine[c].op \in Ops \cup {None}
      BY <1>1 DEF Scopes
    <3> QED
      BY <2>1, <3>1, ReadsLate
  <2> HIDE DEF l
  <2>6. l.op # None => op'[l.op].session # "open"
    BY <2>1, <2>4, <2>5
  <2>7. StorageStep(c)
    BY <1>0, <1>1, <2>1 DEF StorageStep
  <2>8. CalmOps /\ HeldStep(c) /\ marker' \in Tabs \cup {None}
    BY <1>1, <2>1, CalmSame DEF Inv, HeldStep
  <2>9. "probing" \in SnapshotPhases /\ "probing" # "reading"
    BY DEF SnapshotPhases
  <2> QED
    BY <1>0, <1>2, <1>3, <2>1, <2>2, <2>4, <2>6, <2>7, <2>8, <2>9, HelperStep
<1>6. CASE Recover(c)
  <2> DEFINE live == mine[c].op
  <2>1. /\ at[c] = "probing" /\ at' = [at EXCEPT ![c] = "idle"]
        /\ mine' = [mine EXCEPT ![c] = Locals(c)] /\ UNCHANGED storage
    BY <1>6 DEF Recover, Goto
  <2>2. Locals(c) \in Scopes /\ Locals(c).op = None
    BY <1>0, LocalsIs
  <2>3. live # None => op[live].session # "open"
    BY <1>0, <2>1 DEF Inv, NotOpen, Closings
  <2>4. \A p \in Ops : /\ op[p] \in Operations /\ Deaf(op[p]) \in Operations
                       /\ Calm(op[p], Deaf(op[p])) /\ Deaf(op[p]).session = op[p].session
    BY DeafIs DEF Inv, Types, OpsTyped, Calm
  <2>5. CalmOps /\ \A p \in Ops : op'[p].session = op[p].session
    <3>1. CASE UNCHANGED op
      BY <3>1, CalmSame DEF Inv
    <3>2. CASE op' = [p \in Ops |-> IF p = live /\ mine[c].marker \in tabs THEN Deaf(op[p])
                                                                          ELSE op[p]]
      BY <2>4, <3>2 DEF CalmOps
    <3> QED
      BY <1>6, <3>1, <3>2 DEF Recover
  <2>6. \/ UNCHANGED <<held, marker>>
        \/ held' = (IF held = live THEN None ELSE held) /\ marker' = None
    BY <1>6 DEF Recover
  <2>7. HeldStep(c) /\ marker' \in Tabs \cup {None}
    BY <1>1, <2>3, <2>5, <2>6 DEF HeldStep
  <2>8. StorageStep(c)
    BY <1>0, <1>1, <2>1 DEF StorageStep
  <2>9. "idle" \in SnapshotPhases /\ "idle" \notin Closings
    BY DEF SnapshotPhases, Closings
  <2> QED
    BY <1>0, <1>2, <1>3, <2>1, <2>2, <2>5, <2>7, <2>8, <2>9, HelperStep
<1> QED
  BY <1>4, <1>5, <1>6

LEMMA RemovesWell ==
  ASSUME Inv, NEW t \in Tabs, TabRemoved(t) \/ TabLeft(t) \/ TabForgotten(t)
  PROVE  Inv'
<1>0. /\ t \in Tasks /\ t \notin Ops /\ t \notin Responds /\ t \notin Dialogs
      /\ t \notin Snapshots
  BY Distinct
<1>1. mine[t] \in Scopes /\ held \in Ops \cup {None} /\ marker \in Tabs \cup {None}
      /\ at[t] # "interrupting"
  BY <1>0 DEF Inv, Types, TasksTyped, StateTyped, TabPhases
<1>2. queue' = queue /\ closed' \subseteq Dialogs /\ WorldTyped'
  <2>1. UNCHANGED <<queue, closed, world>>
    BY DEF TabRemoved, TabLeft, TabForgotten
  <2> QED
    BY <2>1, WorldSame DEF Inv, Types, StateTyped
<1>3. \A x \in TabPhases : x \in Phases /\ Fits(t, x) /\ x \notin Closings
  BY <1>0 DEF Fits, Phases, TabPhases, Closings
<1>4. CASE TabRemoved(t)
  <2>1. at' = [at EXCEPT ![t] = "leaving"] /\ UNCHANGED <<storage, marker>>
    BY <1>4 DEF TabRemoved, Goto
  <2>2. "leaving" \in TabPhases
    BY DEF TabPhases
  <2>3. StorageStep(t) /\ marker' \in Tabs \cup {None}
    BY <1>0, <1>1, <2>1, PlainStorage
  <2>4. CASE UNCHANGED <<held, op, mine>>
    <3>1. mine' = [mine EXCEPT ![t] = mine[t]]
      BY <1>0, <2>4, MineSame DEF Inv, Types
    <3>2. CalmOps /\ HeldStep(t)
      BY <2>4, CalmSame DEF Inv, HeldStep
    <3> QED
      BY <1>0, <1>1, <1>2, <1>3, <2>1, <2>2, <2>3, <3>1, <3>2, HelperStep
  <2>5. ASSUME held # None, held' = None, op' = [op EXCEPT ![held] = LetGo(@)],
               mine' = [mine EXCEPT ![t].op = held]
        PROVE  Inv'
    <3>1. PICK p \in Ops : p = held
      BY <1>1, <2>5
    <3> DEFINE l == [mine[t] EXCEPT !.op = p]
    <3>2. op[p] \in Operations
      BY DEF Inv, Types, OpsTyped
    <3>3. op' = [op EXCEPT ![p] = LetGo(op[p])] /\ mine' = [mine EXCEPT ![t] = l]
      BY <2>5, <3>1
    <3>4. l \in Scopes /\ l.op = p
      BY <1>1 DEF Scopes
    <3> HIDE DEF l
    <3>5. CalmOps /\ op'[p].session # "open"
      BY <3>2, <3>3, LetGoIs, CalmOne DEF Inv
    <3>6. HeldStep(t)
      BY <2>5, <3>1, <3>5 DEF HeldStep
    <3> QED
      BY <1>0, <1>2, <1>3, <2>1, <2>2, <2>3, <3>1, <3>3, <3>4, <3>5, <3>6, HelperStep
  <2> QED
    BY <1>4, <2>4, <2>5 DEF TabRemoved
<1>5. CASE TabLeft(t)
  <2> DEFINE l == [mine[t] EXCEPT !.marker = marker, !.op = None]
  <2>1. /\ at' = [at EXCEPT ![t] = "reading"] /\ storage' = Append(storage, t)
        /\ UNCHANGED <<held, op, marker>>
    BY <1>5 DEF TabLeft, Goto, ReadMarker
  <2>2. mine' = [mine EXCEPT ![t] = l]
    BY <1>5 DEF TabLeft, ReadMarker
  <2>3. l \in Scopes /\ l.op = None
    BY <1>1 DEF Scopes
  <2> HIDE DEF l
  <2>4. "reading" \in TabPhases
    BY DEF TabPhases
  <2>5. StorageStep(t) /\ marker' \in Tabs \cup {None}
    BY <1>0, <1>1, <2>1, PlainStorage
  <2>6. CalmOps /\ HeldStep(t)
    BY <2>1, CalmSame DEF Inv, HeldStep
  <2> QED
    BY <1>0, <1>2, <1>3, <2>1, <2>2, <2>3, <2>4, <2>5, <2>6, HelperStep
<1>6. CASE TabForgotten(t)
  <2>1. /\ at' = [at EXCEPT ![t] = "done"] /\ UNCHANGED <<held, op>>
        /\ storage # <<>> /\ Head(storage) = t /\ storage' = Tail(storage)
        /\ marker' = (IF mine[t].marker = t THEN None ELSE marker)
        /\ mine' = [mine EXCEPT ![t] = Locals(t)]
    BY <1>6 DEF TabForgotten, Goto, Answered
  <2>2. Locals(t) \in Scopes /\ Locals(t).op = None
    BY <1>0, LocalsIs
  <2>3. "done" \in TabPhases
    BY DEF TabPhases
  <2>4. StorageStep(t) /\ marker' \in Tabs \cup {None}
    BY <1>0, <1>1, <2>1, PlainStorage
  <2>5. CalmOps /\ HeldStep(t)
    BY <2>1, CalmSame DEF Inv, HeldStep
  <2> QED
    BY <1>0, <1>2, <1>3, <2>1, <2>2, <2>3, <2>4, <2>5, HelperStep
<1> QED
  BY <1>4, <1>5, <1>6

LEMMA TabClosesWell ==
  ASSUME Inv, NEW t \in Tabs, TabCloses(t)
  PROVE  Inv'
<1>0. /\ t \in Tasks /\ t \notin Ops /\ t \notin Responds /\ t \notin Dialogs
      /\ t \notin Snapshots
  BY Distinct
<1>1. /\ UNCHANGED <<queue, mine, held, closed, storage, marker, opened>>
      /\ at' = [at EXCEPT ![t] = "removing"]
      /\ tabs' = tabs \ {t} /\ dialog' = [dialog EXCEPT ![t] = 0]
      /\ faults < MaxFaults /\ faults' = faults + 1
  BY DEF TabCloses, Goto, Fault
<1>2. op' = [p \in Ops |-> IF Attached(op[p]) /\ op[p].tab = t THEN Lost(op[p]) ELSE op[p]]
  BY DEF TabCloses
<1>3. CalmOps
  <2>1. \A p \in Ops : op[p] \in Operations /\ Lost(op[p]) \in Operations /\ Calm(op[p], Lost(op[p]))
    BY LostIs DEF Inv, Types, OpsTyped
  <2> QED
    BY <1>2, <2>1 DEF CalmOps
<1>4. WorldTyped'
  <2>1. dialog \in [Tabs -> 0 .. MaxDialogs] /\ 0 \in 0 .. MaxDialogs /\ faults \in 0 .. MaxFaults
    BY BoundsValid DEF Inv, Types, WorldTyped
  <2>2. dialog' \in [Tabs -> 0 .. MaxDialogs]
    BY <1>1, <2>1
  <2>3. faults' \in 0 .. MaxFaults
    BY <1>1, <2>1, BoundsValid
  <2> QED
    BY <1>1, <2>2, <2>3 DEF Inv, Types, WorldTyped
<1>5. at[t] # "interrupting" /\ mine[t] \in Scopes /\ mine' = [mine EXCEPT ![t] = mine[t]]
  BY <1>0, <1>1, MineSame DEF Inv, Types, TasksTyped, TabPhases
<1>6. HeldStep(t) /\ StorageStep(t)
  BY <1>0, <1>1, <1>5, PlainStorage DEF HeldStep
<1>7. "removing" \in Phases /\ Fits(t, "removing") /\ "removing" \notin Closings
  BY <1>0 DEF Fits, Phases, TabPhases, Closings
<1>8. queue' = queue /\ closed' \subseteq Dialogs /\ marker' \in Tabs \cup {None}
  BY <1>1 DEF Inv, Types, StateTyped
<1>9. at' = [at EXCEPT ![t] = "removing"]
  BY <1>1
<1> QED
  BY <1>0, <1>3, <1>4, <1>5, <1>6, <1>7, <1>8, <1>9, HelperStep

-----------------------------------------------------------------------------
(* The start and the replacement of the worker *)

Blank ==
  /\ queue = <<>> /\ storage = <<>> /\ held = None
  /\ at \in [Tasks -> {"idle", "done"}]
  /\ \A w \in Responds \cup Snapshots : at[w] = "idle"
  /\ mine = [w \in Tasks |-> Locals(w)]
  /\ op = [p \in Ops |-> NewOp]
  /\ closed \subseteq Dialogs /\ marker \in Tabs \cup {None}
  /\ WorldTyped

LEMMA BlankIsGood == Blank => Inv
<1> SUFFICES ASSUME Blank
             PROVE  Inv
  OBVIOUS
<1>1. NewOp \in Operations /\ NewOp.session = "none" /\ ~NewOp.terminal /\ NewOp.shown = 0
  <2>1. <<>> \in Seq(Events) /\ <<>> \in Seq(Dialogs) /\ 0 \in 0 .. MaxDialogs
    BY EmptySeq, BoundsValid
  <2>2. NewOp \in Operations
    BY <2>1 DEF NewOp, Operations, Sessions, Bodies
  <2> QED
    BY <2>2 DEF NewOp
<1>2. \A p \in Ops : op[p] = NewOp
  BY DEF Blank
<1>3. \A w \in Tasks : /\ mine[w] \in Scopes
                       /\ mine[w].op = IF w \in Ops THEN w ELSE None
                       /\ at[w] \in {"idle", "done"}
  BY LocalsIs DEF Blank
<1>4. Types
  <2>1. TasksTyped
    <3>1. at \in [Tasks -> Phases] /\ mine \in [Tasks -> Scopes]
      BY <1>3 DEF Blank, Phases, OpPhases
    <3>2. /\ \A w \in Ops : at[w] \in OpPhases
          /\ \A w \in Responds : at[w] \in RespondPhases
          /\ \A w \in Dialogs : at[w] \in WatcherPhases
          /\ \A w \in Snapshots : at[w] \in SnapshotPhases
          /\ \A w \in Tabs : at[w] \in TabPhases
      BY <1>3, Distinct
      DEF Blank, OpPhases, RespondPhases, WatcherPhases, SnapshotPhases, TabPhases
    <3> QED
      BY <3>1, <3>2 DEF TasksTyped
  <2>2. StateTyped
    BY EmptySeq DEF Blank, StateTyped
  <2>3. OpsTyped
    BY <1>1 DEF Blank, OpsTyped
  <2> QED
    BY <2>1, <2>2, <2>3 DEF Types, Blank
<1>5. Len(queue) = 0 /\ Len(storage) = 0 /\ held = None
  BY EmptySeq DEF Blank
<1>6. \A w \in Tasks : at[w] \notin {"queued"} \cup Turn /\ at[w] \notin Fresh
                       /\ at[w] \notin Closings /\ at[w] # "reading"
  BY <1>3 DEF Turn, Fresh, Closings
<1>7. QueueRight /\ NotHeldYet /\ Kept
  BY <1>1, <1>2, <1>5, <1>6, Distinct DEF QueueRight, NotHeldYet, Kept
<1>8. Known
  BY <1>1, <1>2, <1>3, <1>5, <1>6, Distinct DEF Known
<1>9. NotOpen /\ ReadOnce
  BY <1>5, <1>6 DEF NotOpen, ReadOnce
<1>10. Interruption
  BY <1>1, <1>2 DEF Interruption
<1> QED
  BY <1>4, <1>7, <1>8, <1>9, <1>10 DEF Inv

LEMMA InvInit == Init => Inv
<1> SUFFICES ASSUME Init
             PROVE  Blank
  BY BlankIsGood
<1>1. WorldTyped
  BY BoundsValid DEF Init, WorldTyped
<1>2. \A w \in Responds \cup Snapshots : w \in Tasks
  BY DEF Tasks
<1> QED
  BY <1>1, <1>2 DEF Init, Blank

LEMMA RestartsWell ==
  ASSUME Inv, Restart
  PROVE  Inv'
<1>1. WorldTyped'
  <2>1. faults' \in 0 .. MaxFaults
    BY BoundsValid DEF Restart, Fault, Inv, Types, WorldTyped
  <2> QED
    BY <2>1 DEF Restart, Inv, Types, WorldTyped
<1>2. /\ at' \in [Tasks -> {"idle", "done"}]
      /\ \A w \in Responds \cup Snapshots : at'[w] = "idle"
  BY DEF Restart, Tasks
<1>3. closed' \subseteq Dialogs /\ marker' \in Tabs \cup {None}
  BY DEF Restart, Inv, Types, StateTyped
<1>4. Blank'
  BY <1>1, <1>2, <1>3 DEF Restart, Blank
<1> QED
  BY <1>4, BlankIsGood, PTL

-----------------------------------------------------------------------------
(* The theorems *)

LEMMA InvNext ==
  ASSUME Inv, [Next]_vars
  PROVE  Inv'
<1>1. ASSUME NEW p \in Ops, OpStep(p)
      PROVE  Inv'
  BY <1>1, WaitsWell, AttachesWell, EnablesWell, PromotesWell, LeftWell, DetachesWell,
     DeliversWell, BodyAndSessionWell DEF OpStep
<1>2. ASSUME ExtensionStep
      PROVE  Inv'
  BY <1>1, <1>2, DialogStepWell, ClosedSeenWell, RecoversWell, RemovesWell DEF ExtensionStep
<1>3. ASSUME NEW p \in Ops, Request(p) \/ DialogOpens(p) \/ ChromeDetaches(p)
      PROVE  Inv'
  BY <1>3, WaitsWell, OpensWell, BodyAndSessionWell
<1>4. ASSUME NEW t \in Tabs, UserAnswers(t) \/ TabCloses(t)
      PROVE  Inv'
  BY <1>4, AnswersWell, TabClosesWell
<1>5. CASE UNCHANGED vars
  BY <1>5 DEF vars, world, Inv, Types, TasksTyped, StateTyped, OpsTyped, WorldTyped, QueueRight,
              NotHeldYet, Kept, Known, NotOpen, ReadOnce, Interruption, Interrupts
<1> QED
  BY <1>2, <1>3, <1>4, <1>5, RespondsWell, RecoversWell, RestartsWell DEF Next

\* The inductive invariant holds of every behaviour of the dialog operations.
THEOREM DialogInvariant == Spec => []Inv
  BY InvInit, InvNext, PTL DEF Spec

\* Variables keep their types, whatever the interleaving of operations, responses,
\* watchers, snapshots and closing tabs (background.js, page operations and dialogs).
THEOREM DialogTypeCorrect == Spec => []DialogTypeOK
<1>1. Inv => DialogTypeOK
  <2> SUFFICES ASSUME Inv
               PROVE  DialogTypeOK
    OBVIOUS
  <2>1. Seq(Events) \subseteq Seq({"opening", "closed", "detached"} \X (0 .. MaxDialogs))
    <3>1. Events \subseteq {"opening", "closed", "detached"} \X (0 .. MaxDialogs)
      BY BoundsValid DEF Events, Dialogs
    <3> QED
      BY <3>1, SeqMonotonic
  <2>2. Operations \subseteq
          [tab : Tabs \cup {None},
           session : {"none", "open", "lost", "closing", "closed"},
           body : {"none", "running", "over"},
           listening : BOOLEAN,
           events : Seq({"opening", "closed", "detached"} \X (0 .. MaxDialogs)),
           openings : Seq(Dialogs),
           detached : BOOLEAN,
           entry : 0 .. MaxDialogs, shown : 0 .. MaxDialogs,
           terminal : BOOLEAN, responding : BOOLEAN]
    BY <2>1 DEF Operations, Sessions, Bodies
  <2> QED
    BY <2>2 DEF DialogTypeOK, Inv, Types, TasksTyped, StateTyped, OpsTyped, WorldTyped, Scopes
<1> QED
  BY <1>1, DialogInvariant, PTL

\* At most one page operation has a session that takes work: an operation gets one in
\* its turn while none is held, and is held before it gives its turn away
\* (runPageOperation, runDialogAwareTargetOperation).
THEOREM OneSessionAtATime == Spec => []OneSession
<1>1. Inv => OneSession
  <2> SUFFICES ASSUME Inv, NEW p \in Ops, NEW q \in Ops,
                      op[p].session = "open", op[q].session = "open"
               PROVE  p = q
    BY DEF OneSession
  <2>1. (at[p] \in Fresh \/ held = p) /\ (at[q] \in Fresh \/ held = q)
    BY DEF Inv, Kept
  <2>2. CASE at[p] \in Fresh /\ at[q] \in Fresh
    BY <2>2 DEF Inv, QueueRight, Fresh, Turn
  <2>3. p # None /\ q # None
    BY Distinct
  <2>4. at[p] \in Fresh \/ at[q] \in Fresh => held = None
    BY DEF Inv, NotHeldYet
  <2> QED
    BY <2>1, <2>2, <2>3, <2>4
<1> QED
  BY <1>1, DialogInvariant, PTL

\* While the session of a dialog that was reported is open its operation is held, so
\* that the dialog can be answered: no watcher, response, snapshot or closing tab lets
\* go of it early (respondToBrowserDialog, recoverInterruptedDialogState).
THEOREM DialogsStayAnswerable == Spec => []AnswerableWhileOpen
<1>1. Inv => AnswerableWhileOpen
  <2> SUFFICES ASSUME Inv, NEW p \in Ops, op[p].session = "open", op[p].shown # 0
               PROVE  held = p
    BY DEF AnswerableWhileOpen
  <2>1. at[p] \in Past
    BY DEF Inv, Known
  <2>2. at[p] \notin Fresh
    BY <2>1 DEF Past, Fresh
  <2> QED
    BY <2>2 DEF Inv, Kept
<1> QED
  BY <1>1, DialogInvariant, PTL

=============================================================================
