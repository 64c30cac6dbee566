------------------------ MODULE PageOperationsProofs ------------------------
(***************************************************************************)
(* Proofs about PageOperations for any tabs, downloads, kinds of operations *)
(* and bounds.                                                              *)
(*                                                                          *)
(* An operation is a program, so what is true of it at a step depends on    *)
(* the steps that it still has to take.  The invariant says what the order   *)
(* of the steps guarantees (WellFormed), and what the operation that runs    *)
(* may rely on until a given step is taken: that no ref is resolved after    *)
(* the click of a download (OpRight), that the tab's epoch is the ref's as    *)
(* long as the ref is to be resolved (RefKept), and that the background and   *)
(* the document agree on a snapshot that was taken (FreshKept).               *)
(***************************************************************************)
EXTENDS PageOperations, SequenceTheorems, TLAPS

\* Before the command reads the target, and after.
Starting == {"mark", "begin", "attach", "target"}
Stages == {"none", "run", "finish", "sync", "syncTarget"} \cup Starting
Uis == {"off", "target", "operating"}

StepNames == {"epoch", "generate", "compare", "store", "enter", "prepare", "check", "verify",
              "verifyOnce", "press", "move", "drag", "loads", "options", "perform", "choose",
              "click", "settle", "chord", "leave", "navigate", "commit", "text", "shoot",
              "resize", "listen"}

Documents == [runtime : BOOLEAN, epoch : Nat, given : SUBSET Nat, ui : Uis]

TabStates == [open : BOOLEAN, doc : Documents, left : BOOLEAN, back : Documents,
              nav : {"idle", "started", "loading"}]

Ops == [stage : Stages, token : Nat, mark : Tabs \cup {NoTab}, attach : BOOLEAN,
        session : Tabs \cup {NoTab}, tab : Tabs \cup {NoTab}, ref : Nat, todo : Seq(StepNames),
        tries : {1, 2}, point : BOOLEAN, epoch : Nat, url : BOOLEAN, fresh : BOOLEAN,
        committed : BOOLEAN, watch : {"off", "on", "complete", "failed"},
        guid : Downloads \cup {NoDownload}, begun : SUBSET Downloads, ended : SUBSET Downloads,
        snapshot : BOOLEAN, result : {"none", "ok", "error", "unknown"}]

\* The type invariant.
Types ==
  /\ tab \in [Tabs -> TabStates]
  /\ target \in Tabs \cup {NoTab}
  /\ gone \in Tabs \cup {NoTab}
  /\ operating \in [tab : Tabs \cup {NoTab}, token : Nat]
  /\ refEpoch \in [Tabs -> Nat]
  /\ generation \in Nat
  /\ op \in Ops
  /\ selection \in Seq(Tabs)
  /\ ops \in Nat
  /\ events \in Nat

-----------------------------------------------------------------------------
(* Programs *)

Has(p, S) == \E i \in 1 .. Len(p) : p[i] \in S

\* What is over when the click of a download is under way.
BeforeClick == {"click", "navigate", "commit"} \cup RefSteps

\* The order of the steps, which every program and every rest of one has.
WellFormed(p) ==
  /\ \A i \in 1 .. Len(p) : p[i] = "click" =>
       /\ p[Len(p)] = "settle"
       /\ \A j \in (i + 1) .. Len(p) : p[j] \notin BeforeClick
  /\ \A i \in 1 .. Len(p) : p[i] = "store" =>
       \A j \in (i + 1) .. Len(p) : p[j] \notin RefSteps
  /\ \A i \in 1 .. Len(p) : p[i] \in {"leave", "epoch"} =>
       \E j \in (i + 1) .. Len(p) : p[j] = "generate"
  /\ \A i \in 1 .. Len(p) : p[i] \in {"generate", "compare"} =>
       \E j \in (i + 1) .. Len(p) : p[j] = "store"

\* An operation enters its tab before anything else.
EntersFirst(p) == \A i \in 2 .. Len(p) : p[i] # "enter"

-----------------------------------------------------------------------------
(* The invariant *)

\* An operation by itself.
OpRight(o) ==
  /\ o \in Ops
  /\ o.stage = "run" \/ o.fresh => o.tab \in Tabs
  /\ o.mark = NoTab => o.token = 0
  /\ o.stage \in Starting \cup {"run"} => o.todo # <<>>
  /\ o.stage \notin Starting \cup {"run"} => o.todo = <<>>
  /\ o.stage \in Starting /\ Has(o.todo, RefSteps) => Has(o.todo, {"enter"})
  /\ o.fresh => o.stage \in {"run", "finish"}
  /\ o.stage # "finish" => o.result = "none"
  /\ WellFormed(o.todo)
  /\ EntersFirst(o.todo)
  /\ Has(o.todo, RefSteps) => o.ref # 0
  /\ o.watch # "off" /\ o.stage # "finish" =>
       o.todo[Len(o.todo)] = "settle" /\ ~Has(o.todo, BeforeClick)
  /\ o.watch # "off" => o.stage \in {"run", "finish"}
  /\ o.watch = "off" => o.snapshot
  /\ o.stage # "finish" /\ o.watch \in {"off", "on"} =>
       o.begun = (IF o.guid = NoDownload THEN {} ELSE {o.guid})
  /\ (o.stage = "run" \/ o.result = "ok") /\ o.watch = "complete" =>
       o.begun = {o.guid} /\ o.guid \in o.ended
  /\ o.result = "ok" => o.watch \in {"off", "complete"} /\ o.snapshot
  /\ o.result = "error" => o.watch = "off"

\* Once its entry was checked, and until it stores a snapshot of its own.
RefKept(o, epochs) ==
  Has(o.todo, RefSteps) /\ ~Has(o.todo, {"enter"}) => epochs[o.tab] \in {0, o.ref}

\* From the snapshot on the document has its epoch, from the store on the tab.
FreshKept(o, tabs, epochs) ==
  o.fresh /\ o.snapshot /\ ~Has(o.todo, {"generate"}) =>
    /\ tabs[o.tab].open
    /\ tabs[o.tab].doc.epoch = o.epoch
    /\ ~Has(o.todo, {"store"}) => epochs[o.tab] = o.epoch

\* A document answers to an epoch that it was given.
Given(doc) == doc.epoch # 0 => doc.epoch \in doc.given

EpochsGiven == \A t \in Tabs : Given(tab[t].doc) /\ Given(tab[t].back)

GoneIsClosed == gone # NoTab => ~tab[gone].open

Inv ==
  /\ Types
  /\ OpRight(op)
  /\ RefKept(op, refEpoch)
  /\ FreshKept(op, tab, refEpoch)
  /\ EpochsGiven
  /\ GoneIsClosed
  /\ MarkNamesTheRunner

-----------------------------------------------------------------------------
(* Programs *)

LEMMA HasOfConcat ==
  ASSUME NEW s \in Seq(StepNames), NEW p \in Seq(StepNames), NEW S
  PROVE  Has(s \o p, S) <=> Has(s, S) \/ Has(p, S)
<1>1. ASSUME NEW i \in 1 .. Len(s \o p), (s \o p)[i] \in S
      PROVE  Has(s, S) \/ Has(p, S)
  <2>1. CASE i <= Len(s)
    BY <1>1, <2>1 DEF Has
  <2>2. CASE i > Len(s)
    <3>1. i - Len(s) \in 1 .. Len(p) /\ (s \o p)[i] = p[i - Len(s)]
      BY <2>2
    <3> QED
      BY <1>1, <3>1 DEF Has
  <2> QED
    BY <2>1, <2>2
<1>2. ASSUME NEW i \in 1 .. Len(s), s[i] \in S
      PROVE  Has(s \o p, S)
  <2>1. i \in 1 .. Len(s \o p) /\ (s \o p)[i] = s[i]
    OBVIOUS
  <2> QED
    BY <1>2, <2>1 DEF Has
<1>3. ASSUME NEW i \in 1 .. Len(p), p[i] \in S
      PROVE  Has(s \o p, S)
  <2>1. Len(s) + i \in 1 .. Len(s \o p) /\ (s \o p)[Len(s) + i] = p[i]
    OBVIOUS
  <2> QED
    BY <1>3, <2>1 DEF Has
<1> QED
  BY <1>1, <1>2, <1>3 DEF Has

\* Steps may be put before a program that has what they promise.
MayPrecede(s, p) ==
  /\ \A i \in 1 .. Len(s) : s[i] = "store" =>
       ~Has(p, RefSteps) /\ \A j \in (i + 1) .. Len(s) : s[j] \notin RefSteps
  /\ \A i \in 1 .. Len(s) : s[i] = "click" =>
       /\ p # <<>> /\ p[Len(p)] = "settle" /\ ~Has(p, BeforeClick)
       /\ \A j \in (i + 1) .. Len(s) : s[j] \notin BeforeClick
  /\ \A i \in 1 .. Len(s) : s[i] \in {"leave", "epoch"} =>
       (\E j \in (i + 1) .. Len(s) : s[j] = "generate") \/ Has(p, {"generate"})
  /\ \A i \in 1 .. Len(s) : s[i] \in {"generate", "compare"} =>
       (\E j \in (i + 1) .. Len(s) : s[j] = "store") \/ Has(p, {"store"})

LEMMA ConcatWellFormed ==
  ASSUME NEW s \in Seq(StepNames), NEW p \in Seq(StepNames), WellFormed(p), MayPrecede(s, p)
  PROVE  WellFormed(s \o p)
<1> DEFINE r == s \o p
<1>1. /\ r \in Seq(StepNames) /\ Len(r) = Len(s) + Len(p) /\ Len(s) \in Nat /\ Len(p) \in Nat
      /\ \A i \in 1 .. Len(s) : r[i] = s[i]
      /\ \A i \in 1 .. Len(p) : r[Len(s) + i] = p[i]
      /\ \A i \in 1 .. Len(r) : i > Len(s) => i - Len(s) \in 1 .. Len(p) /\ r[i] = p[i - Len(s)]
  OBVIOUS
<1> HIDE DEF r
<1>2. ASSUME NEW i \in 1 .. Len(r), i > Len(s), NEW j \in (i + 1) .. Len(r)
      PROVE  j - Len(s) \in (i - Len(s) + 1) .. Len(p) /\ r[j] = p[j - Len(s)]
  BY <1>1, <1>2
<1>3. ASSUME NEW i \in 1 .. Len(s), NEW j \in (i + 1) .. Len(r)
      PROVE  \/ j \in (i + 1) .. Len(s) /\ r[j] = s[j]
             \/ j - Len(s) \in 1 .. Len(p) /\ r[j] = p[j - Len(s)]
  BY <1>1, <1>3
<1>4. ASSUME NEW i \in 1 .. Len(r), r[i] = "click"
      PROVE  r[Len(r)] = "settle" /\ \A j \in (i + 1) .. Len(r) : r[j] \notin BeforeClick
  <2>1. CASE i > Len(s)
    <3>1. i - Len(s) \in 1 .. Len(p) /\ p[i - Len(s)] = "click"
      BY <1>1, <1>4, <2>1
    <3>2. p[Len(p)] = "settle" /\ \A j \in (i - Len(s) + 1) .. Len(p) : p[j] \notin BeforeClick
      BY <3>1 DEF WellFormed
    <3>3. r[Len(r)] = p[Len(p)]
      BY <1>1, <3>1
    <3> QED
      BY <1>2, <2>1, <3>2, <3>3
  <2>2. CASE i <= Len(s)
    <3>1. i \in 1 .. Len(s) /\ s[i] = "click"
      BY <1>1, <1>4, <2>2
    <3>2. /\ p # <<>> /\ p[Len(p)] = "settle" /\ ~Has(p, BeforeClick)
          /\ \A j \in (i + 1) .. Len(s) : s[j] \notin BeforeClick
      BY <3>1 DEF MayPrecede
    <3>3. r[Len(r)] = p[Len(p)]
      BY <1>1, <3>2
    <3> QED
      BY <1>3, <3>1, <3>2, <3>3 DEF Has
  <2> QED
    BY <1>1, <2>1, <2>2
<1>5. ASSUME NEW i \in 1 .. Len(r), r[i] = "store", NEW j \in (i + 1) .. Len(r)
      PROVE  r[j] \notin RefSteps
  <2>1. CASE i > Len(s)
    <3>1. i - Len(s) \in 1 .. Len(p) /\ p[i - Len(s)] = "store"
      BY <1>1, <1>5, <2>1
    <3>2. \A k \in (i - Len(s) + 1) .. Len(p) : p[k] \notin RefSteps
      BY <3>1 DEF WellFormed
    <3> QED
      BY <1>2, <2>1, <3>2
  <2>2. CASE i <= Len(s)
    <3>1. i \in 1 .. Len(s) /\ s[i] = "store"
      BY <1>1, <1>5, <2>2
    <3>2. ~Has(p, RefSteps) /\ \A k \in (i + 1) .. Len(s) : s[k] \notin RefSteps
      BY <3>1 DEF MayPrecede
    <3> QED
      BY <1>3, <3>1, <3>2 DEF Has
  <2> QED
    BY <1>1, <2>1, <2>2
<1>6. ASSUME NEW S, NEW step,
             \A i \in 1 .. Len(s) : s[i] \in S => (\E j \in (i + 1) .. Len(s) : s[j] = step) \/ Has(p, {step}),
             \A i \in 1 .. Len(p) : p[i] \in S => \E j \in (i + 1) .. Len(p) : p[j] = step,
             NEW i \in 1 .. Len(r), r[i] \in S
      PROVE  \E j \in (i + 1) .. Len(r) : r[j] = step
  <2>1. CASE i <= Len(s)
    <3>1. i \in 1 .. Len(s) /\ s[i] \in S
      BY <1>1, <1>6, <2>1
    <3>2. ASSUME NEW j \in (i + 1) .. Len(s), s[j] = step
          PROVE  j \in (i + 1) .. Len(r) /\ r[j] = step
      BY <1>1, <3>2
    <3>3. ASSUME NEW j \in 1 .. Len(p), p[j] = step
          PROVE  Len(s) + j \in (i + 1) .. Len(r) /\ r[Len(s) + j] = step
      BY <1>1, <2>1, <3>3
    <3> QED
      BY <1>6, <3>1, <3>2, <3>3 DEF Has
  <2>2. CASE i > Len(s)
    <3>1. i - Len(s) \in 1 .. Len(p) /\ p[i - Len(s)] \in S
      BY <1>1, <1>6, <2>2
    <3>2. PICK j \in (i - Len(s) + 1) .. Len(p) : p[j] = step
      BY <1>6, <3>1
    <3>3. j \in 1 .. Len(p) /\ Len(s) + j \in (i + 1) .. Len(r)
      BY <1>1, <3>1, <3>2
    <3> QED
      BY <1>1, <3>2, <3>3
  <2> QED
    BY <1>1, <2>1, <2>2
<1>7. \A i \in 1 .. Len(r) : r[i] \in {"leave", "epoch"} => \E j \in (i + 1) .. Len(r) : r[j] = "generate"
  <2>1. /\ \A i \in 1 .. Len(s) : s[i] \in {"leave", "epoch"} =>
             (\E j \in (i + 1) .. Len(s) : s[j] = "generate") \/ Has(p, {"generate"})
        /\ \A i \in 1 .. Len(p) : p[i] \in {"leave", "epoch"} => \E j \in (i + 1) .. Len(p) : p[j] = "generate"
    BY DEF WellFormed, MayPrecede
  <2> QED
    BY <1>6, <2>1
<1>8. \A i \in 1 .. Len(r) : r[i] \in {"generate", "compare"} => \E j \in (i + 1) .. Len(r) : r[j] = "store"
  <2>1. /\ \A i \in 1 .. Len(s) : s[i] \in {"generate", "compare"} =>
             (\E j \in (i + 1) .. Len(s) : s[j] = "store") \/ Has(p, {"store"})
        /\ \A i \in 1 .. Len(p) : p[i] \in {"generate", "compare"} => \E j \in (i + 1) .. Len(p) : p[j] = "store"
    BY DEF WellFormed, MayPrecede
  <2> QED
    BY <1>6, <2>1
<1>9. WellFormed(r)
  BY <1>4, <1>5, <1>7, <1>8 DEF WellFormed
<1> QED
  BY <1>9 DEF r

LEMMA TailWellFormed ==
  ASSUME NEW p \in Seq(StepNames), p # <<>>, WellFormed(p)
  PROVE  /\ Tail(p) \in Seq(StepNames) /\ WellFormed(Tail(p))
         /\ \A S : Has(p, S) <=> Head(p) \in S \/ Has(Tail(p), S)
         /\ Tail(p) # <<>> => Tail(p)[Len(Tail(p))] = p[Len(p)]
         /\ Tail(p) = <<>> => Head(p) = p[Len(p)]
         /\ Head(p) = "click" => p[Len(p)] = "settle" /\ ~Has(Tail(p), BeforeClick)
         /\ Head(p) = "store" => ~Has(Tail(p), RefSteps)
         /\ Head(p) \in {"leave", "epoch"} => Has(Tail(p), {"generate"})
         /\ Head(p) \in {"generate", "compare"} => Has(Tail(p), {"store"})
<1> DEFINE r == Tail(p)
<1>1. /\ r \in Seq(StepNames) /\ Len(p) \in Nat /\ Len(p) >= 1 /\ Len(r) = Len(p) - 1
      /\ Head(p) = p[1]
      /\ \A i \in 1 .. Len(r) : i + 1 \in 1 .. Len(p) /\ r[i] = p[i + 1]
  <2>1. Len(p) \in Nat /\ Len(p) >= 1
    OBVIOUS
  <2>2. r \in Seq(StepNames) /\ Len(r) = Len(p) - 1
    OBVIOUS
  <2>3. \A i \in 1 .. Len(r) : r[i] = p[i + 1]
    OBVIOUS
  <2> QED
    BY <2>1, <2>2, <2>3
<1> HIDE DEF r
<1>9. r # <<>> <=> Len(r) > 0
  BY <1>1
<1>2. \A i \in 2 .. Len(p) : i - 1 \in 1 .. Len(r) /\ r[i - 1] = p[i]
  BY <1>1
<1>3. \A S : Has(p, S) <=> Head(p) \in S \/ Has(r, S)
  <2>1. ASSUME NEW S, Has(p, S)
        PROVE  Head(p) \in S \/ Has(r, S)
    BY <1>1, <1>2, <2>1 DEF Has
  <2>2. ASSUME NEW S, Head(p) \in S \/ Has(r, S)
        PROVE  Has(p, S)
    BY <1>1, <2>2 DEF Has
  <2> QED
    BY <2>1, <2>2
<1>4. ASSUME NEW i \in 1 .. Len(r)
      PROVE  /\ i + 1 \in 1 .. Len(p) /\ r[i] = p[i + 1]
             /\ \A j \in (i + 1) .. Len(r) : j + 1 \in (i + 2) .. Len(p) /\ r[j] = p[j + 1]
             /\ \A j \in (i + 2) .. Len(p) : j - 1 \in (i + 1) .. Len(r) /\ r[j - 1] = p[j]
  BY <1>1
<1>5. r # <<>> => r[Len(r)] = p[Len(p)]
  <2>1. ASSUME r # <<>>
        PROVE  Len(r) \in 1 .. Len(r) /\ Len(r) + 1 = Len(p)
    BY <1>1, <1>9, <2>1
  <2> QED
    BY <1>1, <2>1
<1>6. r = <<>> => Head(p) = p[Len(p)]
  BY <1>1, <1>9
<1>7. WellFormed(r)
  <2>1. ASSUME NEW i \in 1 .. Len(r), r[i] = "click"
        PROVE  r[Len(r)] = "settle" /\ \A j \in (i + 1) .. Len(r) : r[j] \notin BeforeClick
    <3>1. p[i + 1] = "click" /\ i + 1 \in 1 .. Len(p) /\ r # <<>>
      BY <1>1, <2>1
    <3>2. p[Len(p)] = "settle" /\ \A j \in (i + 2) .. Len(p) : p[j] \notin BeforeClick
      <4>1. (i + 1) + 1 = i + 2
        OBVIOUS
      <4> QED
        BY <3>1, <4>1 DEF WellFormed
    <3> QED
      BY <1>4, <1>5, <3>1, <3>2
  <2>2. ASSUME NEW i \in 1 .. Len(r), r[i] = "store", NEW j \in (i + 1) .. Len(r)
        PROVE  r[j] \notin RefSteps
    <3>1. p[i + 1] = "store" /\ i + 1 \in 1 .. Len(p) /\ j + 1 \in ((i + 1) + 1) .. Len(p) /\ r[j] = p[j + 1]
      BY <1>1, <2>2
    <3> QED
      BY <3>1 DEF WellFormed
  <2>3. ASSUME NEW S, NEW step,
               \A i \in 1 .. Len(p) : p[i] \in S => \E j \in (i + 1) .. Len(p) : p[j] = step,
               NEW i \in 1 .. Len(r), r[i] \in S
        PROVE  \E j \in (i + 1) .. Len(r) : r[j] = step
    <3>1. p[i + 1] \in S /\ i + 1 \in 1 .. Len(p)
      BY <1>1, <2>3
    <3>2. PICK j \in ((i + 1) + 1) .. Len(p) : p[j] = step
      BY <2>3, <3>1
    <3>3. j - 1 \in (i + 1) .. Len(r) /\ r[j - 1] = p[j]
      BY <1>4, <3>2
    <3> QED
      BY <3>2, <3>3
  <2>4. \A i \in 1 .. Len(r) : r[i] \in {"leave", "epoch"} => \E j \in (i + 1) .. Len(r) : r[j] = "generate"
    <3>1. \A i \in 1 .. Len(p) : p[i] \in {"leave", "epoch"} => \E j \in (i + 1) .. Len(p) : p[j] = "generate"
      BY DEF WellFormed
    <3> QED
      BY <2>3, <3>1
  <2>5. \A i \in 1 .. Len(r) : r[i] \in {"generate", "compare"} => \E j \in (i + 1) .. Len(r) : r[j] = "store"
    <3>1. \A i \in 1 .. Len(p) : p[i] \in {"generate", "compare"} => \E j \in (i + 1) .. Len(p) : p[j] = "store"
      BY DEF WellFormed
    <3> QED
      BY <2>3, <3>1
  <2> QED
    BY <2>1, <2>2, <2>4, <2>5 DEF WellFormed
<1>8. /\ Head(p) = "click" => p[Len(p)] = "settle" /\ ~Has(r, BeforeClick)
      /\ Head(p) = "store" => ~Has(r, RefSteps)
      /\ Head(p) \in {"leave", "epoch"} => Has(r, {"generate"})
      /\ Head(p) \in {"generate", "compare"} => Has(r, {"store"})
  <2>1. \A i \in 1 .. Len(r) : i + 1 \in (1 + 1) .. Len(p) /\ r[i] = p[i + 1]
    BY <1>1
  <2>2. \A j \in (1 + 1) .. Len(p) : j - 1 \in 1 .. Len(r) /\ r[j - 1] = p[j]
    BY <1>2
  <2>3. 1 \in 1 .. Len(p)
    BY <1>1
  <2>4. Head(p) = "click" => p[Len(p)] = "settle" /\ ~Has(r, BeforeClick)
    BY <1>1, <2>1, <2>3 DEF WellFormed, Has
  <2>5. Head(p) = "store" => ~Has(r, RefSteps)
    <3>1. ASSUME Head(p) = "store"
          PROVE  \A j \in (1 + 1) .. Len(p) : p[j] \notin RefSteps
      BY <1>1, <2>3, <3>1 DEF WellFormed
    <3> QED
      BY <2>1, <3>1 DEF Has
  <2>6. Head(p) \in {"leave", "epoch"} => Has(r, {"generate"})
    <3>1. ASSUME Head(p) \in {"leave", "epoch"}
          PROVE  \E j \in (1 + 1) .. Len(p) : p[j] = "generate"
      BY <1>1, <2>3, <3>1 DEF WellFormed
    <3> QED
      BY <2>2, <3>1 DEF Has
  <2>7. Head(p) \in {"generate", "compare"} => Has(r, {"store"})
    <3>1. ASSUME Head(p) \in {"generate", "compare"}
          PROVE  \E j \in (1 + 1) .. Len(p) : p[j] = "store"
      BY <1>1, <2>3, <3>1 DEF WellFormed
    <3> QED
      BY <2>2, <3>1 DEF Has
  <2> QED
    BY <2>4, <2>5, <2>6, <2>7
<1> QED
  BY <1>1, <1>3, <1>5, <1>6, <1>7, <1>8 DEF r

LEMMA CaptureWellFormed ==
  /\ Capture \in Seq(StepNames) /\ Capture # <<>> /\ WellFormed(Capture)
  /\ ~Has(Capture, BeforeClick \cup {"enter"})
  /\ Has(Capture, {"generate"})
  /\ \A p \in Seq(StepNames) : ~Has(p, RefSteps) => MayPrecede(Capture, p)
<1> USE DEF Capture
<1>1. Capture \in Seq(StepNames) /\ Len(Capture) = 4
  BY DEF StepNames
<1>2. Capture[1] = "epoch" /\ Capture[2] = "generate" /\ Capture[3] = "compare" /\ Capture[4] = "store"
  OBVIOUS
<1> HIDE DEF Capture
<1>3. \A i \in 1 .. 4 : i = 1 \/ i = 2 \/ i = 3 \/ i = 4
  OBVIOUS
<1>4. \A i \in 1 .. Len(Capture) : Capture[i] \in {"epoch", "generate", "compare", "store"}
  BY <1>1, <1>2, <1>3
<1>5. /\ \A i \in 1 .. Len(Capture) : Capture[i] = "store" => i = 4
      /\ \A i \in 1 .. Len(Capture) : Capture[i] = "epoch" => i = 1
      /\ \A i \in 1 .. Len(Capture) : Capture[i] \in {"generate", "compare"} => i < 4
  BY <1>1, <1>2, <1>3
<1>6. Has(Capture, {"generate"})
  BY <1>1, <1>2 DEF Has
<1>7. ~Has(Capture, BeforeClick \cup {"enter"})
  BY <1>4 DEF Has, BeforeClick, RefSteps
<1>8. \A i \in 1 .. Len(Capture) :
        /\ Capture[i] # "click"
        /\ Capture[i] = "store" => \A j \in (i + 1) .. Len(Capture) : Capture[j] \notin RefSteps
        /\ Capture[i] \in {"leave", "epoch"} => \E j \in (i + 1) .. Len(Capture) : Capture[j] = "generate"
        /\ Capture[i] \in {"generate", "compare"} => \E j \in (i + 1) .. Len(Capture) : Capture[j] = "store"
  <2> SUFFICES ASSUME NEW i \in 1 .. Len(Capture)
               PROVE  /\ Capture[i] # "click"
                      /\ Capture[i] = "store" => \A j \in (i + 1) .. Len(Capture) : Capture[j] \notin RefSteps
                      /\ Capture[i] \in {"leave", "epoch"} => \E j \in (i + 1) .. Len(Capture) : Capture[j] = "generate"
                      /\ Capture[i] \in {"generate", "compare"} => \E j \in (i + 1) .. Len(Capture) : Capture[j] = "store"
    OBVIOUS
  <2>1. Capture[i] # "click" /\ Capture[i] # "leave"
    BY <1>4
  <2>2. Capture[i] = "store" => \A j \in (i + 1) .. Len(Capture) : Capture[j] \notin RefSteps
    BY <1>1, <1>5
  <2>3. Capture[i] = "epoch" => 2 \in (i + 1) .. Len(Capture)
    BY <1>1, <1>5
  <2>4. Capture[i] \in {"generate", "compare"} => 4 \in (i + 1) .. Len(Capture)
    BY <1>1, <1>5
  <2> QED
    BY <1>2, <2>1, <2>2, <2>3, <2>4
<1>9. WellFormed(Capture)
  BY <1>8 DEF WellFormed
<1>10. \A p \in Seq(StepNames) : ~Has(p, RefSteps) => MayPrecede(Capture, p)
  BY <1>8 DEF MayPrecede
<1>11. Capture # <<>>
  BY <1>1, EmptySeq
<1> QED
  BY <1>1, <1>6, <1>7, <1>9, <1>10, <1>11, Zenon

\* Steps that promise nothing may precede every program.
LEMMA PlainMayPrecede ==
  ASSUME NEW s \in Seq(StepNames), NEW p \in Seq(StepNames),
         ~Has(s, {"click", "store", "leave", "epoch", "generate", "compare"})
  PROVE  MayPrecede(s, p)
BY DEF MayPrecede, Has

LEMMA PlainWellFormed ==
  ASSUME NEW s \in Seq(StepNames), ~Has(s, {"click", "store", "leave", "epoch", "generate", "compare"})
  PROVE  WellFormed(s)
BY DEF WellFormed, Has

LEMMA InputWellFormed ==
  ASSUME NEW s \in Seq(StepNames), s # <<>>, s[1] = "enter",
         ~Has(s, {"click", "store", "leave", "epoch", "generate", "compare"})
  PROVE  /\ s \o Capture \in Seq(StepNames) /\ s \o Capture # <<>>
         /\ WellFormed(s \o Capture)
         /\ Has(s \o Capture, {"enter"})
<1>1. Has(s, {"enter"})
  <2>1. 1 \in 1 .. Len(s)
    OBVIOUS
  <2> QED
    BY <2>1 DEF Has
<1>2. WellFormed(s \o Capture)
  BY CaptureWellFormed, PlainMayPrecede, ConcatWellFormed
<1>3. Has(s \o Capture, {"enter"})
  BY <1>1, CaptureWellFormed, HasOfConcat
<1>4. s \o Capture \in Seq(StepNames)
  BY CaptureWellFormed
<1>5. s \o Capture # <<>>
  BY <1>3, <1>4 DEF Has
<1> QED
  BY <1>2, <1>3, <1>4, <1>5

LEMMA DownloadWellFormed ==
  /\ DownloadFile \in Seq(StepNames) /\ DownloadFile # <<>>
  /\ WellFormed(DownloadFile)
  /\ Has(DownloadFile, {"enter"})
<1> DEFINE s == <<"enter", "prepare", "check", "verify", "click", "loads">>
           e == <<"settle">>
           p == Capture \o e
<1>1. s \in Seq(StepNames)
  BY DEF StepNames
<1>2. e \in Seq(StepNames)
  BY DEF StepNames
<1>3. Len(s) = 6 /\ s[1] = "enter" /\ s[6] = "loads"
  OBVIOUS
<1>4. \A i \in 1 .. 6 : /\ s[i] \notin {"store", "leave", "epoch", "generate", "compare"}
                        /\ s[i] = "click" => i = 5
  OBVIOUS
<1>5. Len(e) = 1 /\ e[1] = "settle"
  OBVIOUS
<1> HIDE DEF s, e
<1>6. WellFormed(e) /\ ~Has(e, BeforeClick)
  BY <1>5 DEF WellFormed, Has, BeforeClick, RefSteps
<1>7. WellFormed(p)
  BY <1>2, <1>6, CaptureWellFormed, ConcatWellFormed DEF Has, BeforeClick
<1>8. p \in Seq(StepNames)
  BY <1>2, CaptureWellFormed
<1>9. ~Has(p, BeforeClick)
  <2>1. ~Has(Capture, BeforeClick)
    BY CaptureWellFormed DEF Has
  <2>2. Has(p, BeforeClick) <=> Has(Capture, BeforeClick) \/ Has(e, BeforeClick)
    BY <1>2, CaptureWellFormed, HasOfConcat
  <2> QED
    BY <1>6, <2>1, <2>2
<1>10. p # <<>> /\ p[Len(p)] = "settle"
  <2>1. Len(p) = Len(Capture) + 1 /\ p[Len(Capture) + 1] = e[1] /\ Len(Capture) \in Nat
    <3>1. Capture \in Seq(StepNames)
      BY CaptureWellFormed
    <3> QED
      BY <1>2, <1>5, <3>1, ConcatProperties
  <2> QED
    BY <1>5, <1>8, <2>1
<1> HIDE DEF p
<1>11. MayPrecede(s, p)
  <2>1. \A j \in (5 + 1) .. Len(s) : s[j] \notin BeforeClick
    BY <1>3 DEF BeforeClick, RefSteps
  <2> QED
    BY <1>3, <1>4, <1>9, <1>10, <2>1 DEF MayPrecede
<1>12. DownloadFile = s \o p
  BY <1>1, <1>2, CaptureWellFormed, ConcatAssociative DEF DownloadFile, s, e, p
<1>13. WellFormed(s \o p)
  BY <1>1, <1>7, <1>8, <1>11, ConcatWellFormed
<1>14. Has(s \o p, {"enter"})
  <2>1. Has(s, {"enter"})
    BY <1>3 DEF Has
  <2> QED
    BY <1>1, <1>8, <2>1, HasOfConcat
<1> QED
  BY <1>1, <1>8, <1>12, <1>13, <1>14 DEF Has

LEMMA ProgramsWellFormed ==
  ASSUME NEW kind \in DOMAIN Program
  PROVE  /\ Program[kind] \in Seq(StepNames)
         /\ Program[kind] # <<>>
         /\ WellFormed(Program[kind])
         /\ Has(Program[kind], RefSteps) => kind \in TakesRef /\ Has(Program[kind], {"enter"})
<1> DEFINE Promises == {"click", "store", "leave", "epoch", "generate", "compare"}
           Good(p) == /\ p \in Seq(StepNames) /\ p # <<>> /\ WellFormed(p)
                      /\ Has(p, RefSteps) => kind \in TakesRef /\ Has(p, {"enter"})
<1>1. ASSUME NEW s \in Seq(StepNames), s # <<>>, ~Has(s, Promises), ~Has(s, RefSteps)
      PROVE  Good(s)
  BY <1>1, PlainWellFormed
<1>2. ASSUME NEW s \in Seq(StepNames), s # <<>>, s[1] = "enter", ~Has(s, Promises), kind \in TakesRef
      PROVE  Good(s \o Capture)
  BY <1>2, InputWellFormed
<1>3. ASSUME NEW s \in Seq(StepNames), s # <<>>, MayPrecede(s, Capture), ~Has(s, RefSteps)
      PROVE  Good(s \o Capture)
  <2>1. ~Has(Capture, RefSteps)
    BY CaptureWellFormed DEF Has, BeforeClick
  <2>2. ~Has(s \o Capture, RefSteps)
    BY <1>3, <2>1, CaptureWellFormed, HasOfConcat
  <2>3. WellFormed(s \o Capture)
    BY <1>3, CaptureWellFormed, ConcatWellFormed
  <2> QED
    BY <1>3, <2>2, <2>3, CaptureWellFormed
<1>4. Good(Capture)
  BY CaptureWellFormed DEF Has, BeforeClick
<1>5. kind \in TakesRef => Good(DownloadFile)
  BY DownloadWellFormed
<1> HIDE DEF Good
<1>6. CASE kind \in {"click", "type"}
  <2> DEFINE s == <<"enter", "prepare", "check", "verify", "press", "loads">>
  <2>1. s \in Seq(StepNames) /\ s # <<>> /\ s[1] = "enter" /\ ~Has(s, Promises)
    BY DEF StepNames, Has
  <2>2. Program[kind] = s \o Capture
    BY <1>6 DEF Program, Type, Click
  <2> QED
    BY <1>2, <1>6, <2>1, <2>2 DEF TakesRef, Good
<1>7. CASE kind = "hover"
  <2> DEFINE s == <<"enter", "prepare", "check", "verify", "move", "loads">>
  <2>1. s \in Seq(StepNames) /\ s # <<>> /\ s[1] = "enter" /\ ~Has(s, Promises)
    BY DEF StepNames, Has
  <2>2. Program[kind] = s \o Capture
    BY <1>7 DEF Program, Hover
  <2> QED
    BY <1>2, <1>7, <2>1, <2>2 DEF TakesRef, Good
<1>8. CASE kind = "drag"
  <2> DEFINE s == <<"enter", "prepare", "check", "verifyOnce", "drag", "loads">>
  <2>1. s \in Seq(StepNames) /\ s # <<>> /\ s[1] = "enter" /\ ~Has(s, Promises)
    BY DEF StepNames, Has
  <2>2. Program[kind] = s \o Capture
    BY <1>8 DEF Program, Drag
  <2> QED
    BY <1>2, <1>8, <2>1, <2>2 DEF TakesRef, Good
<1>9. CASE kind = "selectOption"
  <2> DEFINE s == <<"enter", "options", "check", "perform", "loads">>
  <2>1. s \in Seq(StepNames) /\ s # <<>> /\ s[1] = "enter" /\ ~Has(s, Promises)
    BY DEF StepNames, Has
  <2>2. Program[kind] = s \o Capture
    BY <1>9 DEF Program, SelectOption
  <2> QED
    BY <1>2, <1>9, <2>1, <2>2 DEF TakesRef, Good
<1>10. CASE kind = "uploadFile"
  <2> DEFINE s == <<"enter", "prepare", "check", "verify", "press", "choose", "loads">>
  <2>1. s \in Seq(StepNames) /\ s # <<>> /\ s[1] = "enter" /\ ~Has(s, Promises)
    BY DEF StepNames, Has
  <2>2. Program[kind] = s \o Capture
    BY <1>10 DEF Program, UploadFiles
  <2> QED
    BY <1>2, <1>10, <2>1, <2>2 DEF TakesRef, Good
<1>11. CASE kind = "downloadFile"
  BY <1>5, <1>11 DEF Program, TakesRef, Good
<1>12. CASE kind = "navigate"
  <2> DEFINE s == <<"leave", "navigate", "commit">>
  <2>1. s \in Seq(StepNames) /\ s # <<>> /\ ~Has(s, RefSteps)
    BY DEF StepNames, Has, RefSteps
  <2>2. MayPrecede(s, Capture)
    BY CaptureWellFormed DEF MayPrecede
  <2>3. Program[kind] = s \o Capture
    BY <1>12 DEF Program, Navigate
  <2> QED
    BY <1>3, <2>1, <2>2, <2>3 DEF Good
<1>13. CASE kind = "waitFor"
  <2> DEFINE s == <<"enter", "text">>
  <2>1. s \in Seq(StepNames) /\ s # <<>> /\ ~Has(s, RefSteps) /\ ~Has(s, Promises)
    BY DEF StepNames, Has, RefSteps
  <2>2. Program[kind] = s \o Capture
    BY <1>13 DEF Program, WaitFor
  <2> QED
    BY <1>3, <2>1, <2>2, CaptureWellFormed, PlainMayPrecede DEF Good
<1>14. CASE kind = "snapshot"
  BY <1>4, <1>14 DEF Program, Good
<1>15. CASE kind \in {"pressKey", "wait", "screenshot", "getConsoleLogs"}
  <2>1. PressKey \in Seq(StepNames) /\ PressKey # <<>> /\ ~Has(PressKey, Promises \cup RefSteps)
    BY DEF StepNames, Has, RefSteps, PressKey
  <2>2. Wait \in Seq(StepNames) /\ Wait # <<>> /\ ~Has(Wait, Promises \cup RefSteps)
    BY DEF StepNames, Has, RefSteps, Wait
  <2>3. Screenshot \in Seq(StepNames) /\ Screenshot # <<>> /\ ~Has(Screenshot, Promises \cup RefSteps)
    BY DEF StepNames, Has, RefSteps, Screenshot
  <2>4. ConsoleLogs \in Seq(StepNames) /\ ConsoleLogs # <<>> /\ ~Has(ConsoleLogs, Promises \cup RefSteps)
    BY DEF StepNames, Has, RefSteps, ConsoleLogs
  <2>5. ASSUME NEW s, ~Has(s, Promises \cup RefSteps)
        PROVE  ~Has(s, Promises) /\ ~Has(s, RefSteps)
    BY <2>5 DEF Has
  <2>6. Program[kind] \in {PressKey, Wait, Screenshot, ConsoleLogs}
    BY <1>15 DEF Program
  <2> HIDE DEF Promises
  <2> QED
    BY <1>1, <2>1, <2>2, <2>3, <2>4, <2>5, <2>6 DEF Good
<1>16. kind \in {"snapshot", "click", "hover", "type", "drag", "selectOption", "uploadFile", "downloadFile",
                "pressKey", "navigate", "wait", "waitFor", "screenshot", "getConsoleLogs"}
  BY Zenon DEF Program
<1> QED
  BY <1>6, <1>7, <1>8, <1>9, <1>10, <1>11, <1>12, <1>13, <1>14, <1>15, <1>16

LEMMA TailEntersFirst ==
  ASSUME NEW p \in Seq(StepNames), p # <<>>, EntersFirst(p)
  PROVE  /\ EntersFirst(Tail(p))
         /\ ~Has(Tail(p), {"enter"})
         /\ Head(p) # "enter" => ~Has(p, {"enter"})
<1>1. /\ Len(p) \in Nat /\ Len(Tail(p)) = Len(p) - 1 /\ Head(p) = p[1]
      /\ \A i \in 1 .. Len(Tail(p)) : Tail(p)[i] = p[i + 1]
  OBVIOUS
<1>2. \A i \in 1 .. Len(Tail(p)) : i + 1 \in 2 .. Len(p)
  BY <1>1
<1>3. ~Has(Tail(p), {"enter"})
  BY <1>1, <1>2 DEF EntersFirst, Has
<1>4. EntersFirst(Tail(p))
  BY <1>1, <1>3 DEF EntersFirst, Has
<1>5. Head(p) # "enter" => ~Has(p, {"enter"})
  BY <1>1 DEF EntersFirst, Has
<1> QED
  BY <1>3, <1>4, <1>5

LEMMA ConcatEntersFirst ==
  ASSUME NEW s \in Seq(StepNames), NEW p \in Seq(StepNames), EntersFirst(s), ~Has(p, {"enter"})
  PROVE  EntersFirst(s \o p)
<1> SUFFICES ASSUME NEW i \in 2 .. Len(s \o p)
             PROVE  (s \o p)[i] # "enter"
  BY DEF EntersFirst
<1>1. CASE i <= Len(s)
  BY <1>1 DEF EntersFirst
<1>2. CASE i > Len(s)
  <2>1. i - Len(s) \in 1 .. Len(p) /\ (s \o p)[i] = p[i - Len(s)]
    BY <1>2
  <2> QED
    BY <2>1 DEF Has
<1> QED
  BY <1>1, <1>2

LEMMA ProgramsEnterFirst ==
  ASSUME NEW kind \in DOMAIN Program
  PROVE  EntersFirst(Program[kind])
<1>1. /\ Capture \in Seq(StepNames) /\ ~Has(Capture, {"enter"}) /\ EntersFirst(Capture)
      /\ <<"settle">> \in Seq(StepNames) /\ ~Has(<<"settle">>, {"enter"})
      /\ Capture \o <<"settle">> \in Seq(StepNames)
  BY DEF Capture, StepNames, Has, EntersFirst
<1>2. ~Has(Capture \o <<"settle">>, {"enter"})
  BY <1>1, HasOfConcat
<1>3. \A s \in Seq(StepNames) : EntersFirst(s) => EntersFirst(s \o Capture)
  BY <1>1, ConcatEntersFirst
<1>4. CASE kind \in {"click", "type"}
  <2>1. /\ <<"enter", "prepare", "check", "verify", "press", "loads">> \in Seq(StepNames)
        /\ EntersFirst(<<"enter", "prepare", "check", "verify", "press", "loads">>)
    BY DEF StepNames, EntersFirst
  <2>2. Program[kind] = <<"enter", "prepare", "check", "verify", "press", "loads">> \o Capture
    BY <1>4 DEF Program, Type, Click
  <2> QED
    BY <1>3, <2>1, <2>2
<1>5. CASE kind = "hover"
  <2>1. /\ <<"enter", "prepare", "check", "verify", "move", "loads">> \in Seq(StepNames)
        /\ EntersFirst(<<"enter", "prepare", "check", "verify", "move", "loads">>)
    BY DEF StepNames, EntersFirst
  <2> QED
    BY <1>3, <1>5, <2>1 DEF Program, Hover
<1>6. CASE kind = "drag"
  <2>1. /\ <<"enter", "prepare", "check", "verifyOnce", "drag", "loads">> \in Seq(StepNames)
        /\ EntersFirst(<<"enter", "prepare", "check", "verifyOnce", "drag", "loads">>)
    BY DEF StepNames, EntersFirst
  <2> QED
    BY <1>3, <1>6, <2>1 DEF Program, Drag
<1>7. CASE kind = "selectOption"
  <2>1. /\ <<"enter", "options", "check", "perform", "loads">> \in Seq(StepNames)
        /\ EntersFirst(<<"enter", "options", "check", "perform", "loads">>)
    BY DEF StepNames, EntersFirst
  <2> QED
    BY <1>3, <1>7, <2>1 DEF Program, SelectOption
<1>8. CASE kind = "uploadFile"
  <2>1. /\ <<"enter", "prepare", "check", "verify", "press", "choose", "loads">> \in Seq(StepNames)
        /\ EntersFirst(<<"enter", "prepare", "check", "verify", "press", "choose", "loads">>)
    BY DEF StepNames, EntersFirst
  <2> QED
    BY <1>3, <1>8, <2>1 DEF Program, UploadFiles
<1>9. CASE kind = "downloadFile"
  <2> DEFINE s == <<"enter", "prepare", "check", "verify", "click", "loads">>
  <2>1. s \in Seq(StepNames) /\ EntersFirst(s)
    BY DEF StepNames, EntersFirst
  <2>2. Program[kind] = (s \o Capture) \o <<"settle">>
    BY <1>9 DEF Program, DownloadFile
  <2> HIDE DEF s
  <2>3. s \o Capture \in Seq(StepNames) /\ EntersFirst(s \o Capture)
    BY <1>1, <1>3, <2>1, ConcatProperties
  <2>4. EntersFirst((s \o Capture) \o <<"settle">>)
    BY <1>1, <2>3, ConcatEntersFirst
  <2> QED
    BY <2>2, <2>4
<1>10. CASE kind = "navigate"
  <2>1. /\ <<"leave", "navigate", "commit">> \in Seq(StepNames)
        /\ EntersFirst(<<"leave", "navigate", "commit">>)
    BY DEF StepNames, EntersFirst
  <2> QED
    BY <1>3, <1>10, <2>1 DEF Program, Navigate
<1>11. CASE kind = "waitFor"
  <2>1. <<"enter", "text">> \in Seq(StepNames) /\ EntersFirst(<<"enter", "text">>)
    BY DEF StepNames, EntersFirst
  <2> QED
    BY <1>3, <1>11, <2>1 DEF Program, WaitFor
<1>12. CASE kind = "snapshot"
  BY <1>1, <1>12 DEF Program
<1>13. CASE kind \in {"pressKey", "wait", "screenshot", "getConsoleLogs"}
  <2>1. EntersFirst(PressKey) /\ EntersFirst(Wait) /\ EntersFirst(Screenshot) /\ EntersFirst(ConsoleLogs)
    BY DEF EntersFirst, PressKey, Wait, Screenshot, ConsoleLogs
  <2>2. Program[kind] \in {PressKey, Wait, Screenshot, ConsoleLogs}
    BY <1>13 DEF Program
  <2> QED
    BY <2>1, <2>2
<1>14. kind \in {"snapshot", "click", "hover", "type", "drag", "selectOption", "uploadFile", "downloadFile",
                "pressKey", "navigate", "wait", "waitFor", "screenshot", "getConsoleLogs"}
  BY Zenon DEF Program
<1> QED
  BY <1>4, <1>5, <1>6, <1>7, <1>8, <1>9, <1>10, <1>11, <1>12, <1>13, <1>14

-----------------------------------------------------------------------------
(* Operations *)

LEMMA EmptyWellFormed == WellFormed(<<>>) /\ EntersFirst(<<>>) /\ \A S : ~Has(<<>>, S)
BY DEF WellFormed, EntersFirst, Has

LEMMA EndedIs ==
  ASSUME NEW o \in Ops, NEW result \in {"ok", "error", "unknown"}
  PROVE  /\ Ended(o, result) \in Ops
         /\ Ended(o, result).stage = "finish" /\ Ended(o, result).result = result
         /\ Ended(o, result).todo = <<>> /\ Ended(o, result).ref = 0
         /\ Ended(o, result).tab = o.tab /\ Ended(o, result).mark = o.mark /\ Ended(o, result).token = o.token
         /\ Ended(o, result).watch = o.watch /\ Ended(o, result).guid = o.guid
         /\ Ended(o, result).begun = o.begun /\ Ended(o, result).ended = o.ended
         /\ Ended(o, result).snapshot = o.snapshot /\ Ended(o, result).fresh = o.fresh
         /\ Ended(o, result).epoch = o.epoch
<1>1. /\ Ended(o, result).stage = "finish" /\ Ended(o, result).result = result
      /\ Ended(o, result).todo = <<>> /\ Ended(o, result).ref = 0
      /\ Ended(o, result).tab = o.tab /\ Ended(o, result).mark = o.mark /\ Ended(o, result).token = o.token
      /\ Ended(o, result).watch = o.watch /\ Ended(o, result).guid = o.guid
      /\ Ended(o, result).begun = o.begun /\ Ended(o, result).ended = o.ended
      /\ Ended(o, result).snapshot = o.snapshot /\ Ended(o, result).fresh = o.fresh
      /\ Ended(o, result).epoch = o.epoch
  BY DEF Ended, Ops
<1>2. Ended(o, result) \in Ops
  <2>1. <<>> \in Seq(StepNames)
    BY EmptySeq
  <2> QED
    BY <2>1 DEF Ended, Ops, Stages
<1> QED
  BY <1>1, <1>2

\* What the rest of a program keeps of its operation.
LEMMA GoesOn ==
  ASSUME NEW o, OpRight(o), o.stage = "run",
         o.watch # "off" /\ Tail(o.todo) = <<>> => o.watch = "complete" /\ o.snapshot
  PROVE  /\ OpRight(Goes(o))
         /\ Goes(o).stage \in {"run", "finish"}
         /\ Goes(o).tab = o.tab /\ Goes(o).mark = o.mark /\ Goes(o).token = o.token
         /\ Goes(o).todo = Tail(o.todo)
         /\ Goes(o).ref = o.ref \/ Goes(o).todo = <<>>
         /\ Goes(o).fresh = o.fresh /\ Goes(o).snapshot = o.snapshot /\ Goes(o).epoch = o.epoch
<1>1. /\ o \in Ops /\ o.todo \in Seq(StepNames) /\ o.todo # <<>>
      /\ WellFormed(o.todo) /\ EntersFirst(o.todo)
  BY DEF OpRight, Ops
<1>2. /\ Tail(o.todo) \in Seq(StepNames) /\ WellFormed(Tail(o.todo)) /\ EntersFirst(Tail(o.todo))
      /\ \A S : Has(o.todo, S) <=> Head(o.todo) \in S \/ Has(Tail(o.todo), S)
      /\ Tail(o.todo) # <<>> => Tail(o.todo)[Len(Tail(o.todo))] = o.todo[Len(o.todo)]
  BY <1>1, TailWellFormed, TailEntersFirst
<1>3. CASE Tail(o.todo) = <<>>
  <2>1. Goes(o) = Ended(o, "ok")
    BY <1>3 DEF Goes
  <2>2. OpRight(Ended(o, "ok"))
    BY <1>1, <1>3, EndedIs, EmptyWellFormed DEF OpRight, Starting
  <2>3. /\ Goes(o).stage = "finish" /\ Goes(o).todo = <<>>
        /\ Goes(o).tab = o.tab /\ Goes(o).mark = o.mark /\ Goes(o).token = o.token
        /\ Goes(o).fresh = o.fresh /\ Goes(o).snapshot = o.snapshot /\ Goes(o).epoch = o.epoch
    BY <1>1, <2>1, EndedIs
  <2> QED
    BY <1>3, <2>1, <2>2, <2>3
<1>4. CASE Tail(o.todo) # <<>>
  <2>1. Goes(o) = [o EXCEPT !.todo = Tail(@)]
    BY <1>4 DEF Goes
  <2>2. /\ Goes(o) \in Ops
        /\ Goes(o).stage = o.stage /\ Goes(o).result = o.result /\ Goes(o).ref = o.ref
        /\ Goes(o).todo = Tail(o.todo)
        /\ Goes(o).tab = o.tab /\ Goes(o).mark = o.mark /\ Goes(o).token = o.token
        /\ Goes(o).watch = o.watch /\ Goes(o).guid = o.guid
        /\ Goes(o).begun = o.begun /\ Goes(o).ended = o.ended
        /\ Goes(o).snapshot = o.snapshot /\ Goes(o).fresh = o.fresh /\ Goes(o).epoch = o.epoch
    BY ZenonT(60), <1>1, <1>2, <2>1 DEF Ops
  <2>3. OpRight(Goes(o))
    BY <1>2, <1>4, <2>2 DEF OpRight, Starting
  <2> QED
    BY <2>2, <2>3
<1> QED
  BY <1>3, <1>4

\* An operation that fails is over, or has its download to settle.
LEMMA FailsOut ==
  ASSUME NEW o \in Ops, o.mark = NoTab => o.token = 0, NEW result \in {"error", "unknown"},
         result = "error" => o.watch = "off"
  PROVE  /\ OpRight(Fails(o, result))
         /\ Fails(o, result).stage = "finish" /\ Fails(o, result).todo = <<>>
         /\ Fails(o, result).mark = o.mark /\ Fails(o, result).token = o.token
         /\ ~Fails(o, result).fresh
<1> DEFINE n == [NoOp EXCEPT !.token = o.token, !.mark = o.mark, !.watch = o.watch]
<1>1. NoOp \in Ops
  <2>1. <<>> \in Seq(StepNames)
    BY EmptySeq
  <2> QED
    BY <2>1 DEF NoOp, Ops, Stages
<1>5. n \in Ops
  BY ZenonT(120), <1>1 DEF Ops
<1>2. /\ n \in Ops /\ n.mark = o.mark /\ n.token = o.token /\ n.watch = o.watch
      /\ n.snapshot = TRUE /\ n.fresh = FALSE
  BY <1>5 DEF NoOp
<1>3. Fails(o, result) = Ended(n, result)
  BY DEF Fails
<1> HIDE DEF n
<1>4. OpRight(Ended(n, result))
  BY <1>2, EndedIs, EmptyWellFormed DEF OpRight, Starting
<1> QED
  BY <1>2, <1>3, <1>4, EndedIs

LEMMA FailsWell ==
  ASSUME NEW o, OpRight(o), o.stage = "run"
  PROVE  /\ OpRight(FailsAfterClick(o))
         /\ FailsAfterClick(o).stage \in {"run", "finish"}
         /\ FailsAfterClick(o).mark = o.mark /\ FailsAfterClick(o).token = o.token
         /\ ~Has(FailsAfterClick(o).todo, RefSteps)
         /\ ~(FailsAfterClick(o).fresh /\ FailsAfterClick(o).snapshot)
         /\ FailsAfterClick(o).stage = "run" => o.watch # "off"
<1>1. CASE o.watch # "off" /\ o.todo # <<"settle">>
  <2> DEFINE f == [o EXCEPT !.todo = <<"settle">>, !.snapshot = FALSE]
  <2>1. <<"settle">> \in Seq(StepNames) /\ Len(<<"settle">>) = 1 /\ <<"settle">>[1] = "settle"
    BY DEF StepNames
  <2>2. FailsAfterClick(o) = f
    BY <1>1 DEF FailsAfterClick
  <2>3. /\ f \in Ops /\ f.stage = "run" /\ f.result = o.result /\ f.ref = o.ref /\ f.todo = <<"settle">>
        /\ f.tab = o.tab /\ f.mark = o.mark /\ f.token = o.token /\ f.watch = o.watch /\ f.guid = o.guid
        /\ f.begun = o.begun /\ f.ended = o.ended /\ f.snapshot = FALSE
    BY <2>1 DEF OpRight, Ops
  <2>4. /\ WellFormed(<<"settle">>) /\ EntersFirst(<<"settle">>)
        /\ ~Has(<<"settle">>, BeforeClick) /\ ~Has(<<"settle">>, RefSteps)
    BY <2>1 DEF WellFormed, EntersFirst, Has, BeforeClick, RefSteps
  <2> HIDE DEF f
  <2>5. OpRight(f)
    BY <1>1, <2>1, <2>3, <2>4 DEF OpRight
  <2> QED
    BY <1>1, <2>2, <2>3, <2>4, <2>5
<1>2. CASE ~(o.watch # "off" /\ o.todo # <<"settle">>)
  <2>1. FailsAfterClick(o) = Fails(o, IF o.watch = "off" THEN "error" ELSE "unknown")
    BY <1>2 DEF FailsAfterClick
  <2>2. o \in Ops /\ (o.mark = NoTab => o.token = 0)
    BY DEF OpRight
  <2> QED
    BY <2>1, <2>2, FailsOut, EmptyWellFormed
<1> QED
  BY <1>1, <1>2

LEMMA LastIsSettle ==
  ASSUME NEW o, OpRight(o), o.stage = "run", o.watch # "off", Tail(o.todo) = <<>>
  PROVE  Head(o.todo) = "settle"
BY TailWellFormed DEF OpRight, Ops

LEMMA GoesKeeps ==
  ASSUME NEW o, OpRight(o), o.stage = "run", NEW tabs, NEW epochs,
         RefKept(o, epochs), FreshKept(o, tabs, epochs),
         Head(o.todo) \notin {"enter", "generate", "store"},
         Head(o.todo) = "settle" => o.watch = "complete" /\ o.snapshot
  PROVE  /\ OpRight(Goes(o))
         /\ RefKept(Goes(o), epochs)
         /\ FreshKept(Goes(o), tabs, epochs)
         /\ Goes(o).stage \in {"run", "finish"}
         /\ Goes(o).tab = o.tab /\ Goes(o).mark = o.mark /\ Goes(o).token = o.token
<1>1. o.todo \in Seq(StepNames) /\ o.todo # <<>> /\ WellFormed(o.todo)
  BY DEF OpRight, Ops
<1>2. \A S : Has(o.todo, S) <=> Head(o.todo) \in S \/ Has(Tail(o.todo), S)
  BY <1>1, TailWellFormed
<1>3. /\ OpRight(Goes(o))
      /\ Goes(o).stage \in {"run", "finish"}
      /\ Goes(o).tab = o.tab /\ Goes(o).mark = o.mark /\ Goes(o).token = o.token
      /\ Goes(o).todo = Tail(o.todo)
      /\ Goes(o).ref = o.ref \/ Goes(o).todo = <<>>
      /\ Goes(o).fresh = o.fresh /\ Goes(o).snapshot = o.snapshot /\ Goes(o).epoch = o.epoch
  BY GoesOn, LastIsSettle
<1>4. RefKept(Goes(o), epochs)
  BY <1>2, <1>3, EmptyWellFormed DEF RefKept
<1>5. FreshKept(Goes(o), tabs, epochs)
  <2>1. Has(o.todo, {"generate"}) <=> Has(Tail(o.todo), {"generate"})
    BY <1>2
  <2>2. Has(o.todo, {"store"}) <=> Has(Tail(o.todo), {"store"})
    BY <1>2
  <2> QED
    BY <1>3, <2>1, <2>2 DEF FreshKept
<1> QED
  BY <1>3, <1>4, <1>5

LEMMA FailsKeeps ==
  ASSUME NEW o, OpRight(o), o.stage = "run", NEW tabs, NEW epochs
  PROVE  /\ OpRight(FailsAfterClick(o))
         /\ RefKept(FailsAfterClick(o), epochs)
         /\ FreshKept(FailsAfterClick(o), tabs, epochs)
         /\ FailsAfterClick(o).stage \in {"run", "finish"}
         /\ FailsAfterClick(o).mark = o.mark /\ FailsAfterClick(o).token = o.token
BY FailsWell DEF RefKept, FreshKept

LEMMA FailsOutKeeps ==
  ASSUME NEW o \in Ops, o.mark = NoTab => o.token = 0, NEW result \in {"error", "unknown"},
         result = "error" => o.watch = "off", NEW tabs, NEW epochs
  PROVE  /\ OpRight(Fails(o, result))
         /\ RefKept(Fails(o, result), epochs)
         /\ FreshKept(Fails(o, result), tabs, epochs)
         /\ Fails(o, result).stage \in {"run", "finish"}
         /\ Fails(o, result).mark = o.mark /\ Fails(o, result).token = o.token
BY FailsOut, EmptyWellFormed DEF RefKept, FreshKept

\* Where the page's element is, how often it was measured, and what was seen of a
\* navigation are of no account.
Alike(o, p) ==
  /\ p \in Ops
  /\ p.stage = o.stage /\ p.token = o.token /\ p.mark = o.mark /\ p.tab = o.tab /\ p.ref = o.ref /\ p.todo = o.todo
  /\ p.epoch = o.epoch /\ p.fresh = o.fresh /\ p.watch = o.watch /\ p.guid = o.guid
  /\ p.begun = o.begun /\ p.ended = o.ended /\ p.snapshot = o.snapshot /\ p.result = o.result

LEMMA AlikeKeeps ==
  ASSUME NEW o, NEW p, Alike(o, p), OpRight(o), NEW tabs, NEW epochs,
         RefKept(o, epochs), FreshKept(o, tabs, epochs)
  PROVE  /\ OpRight(p)
         /\ RefKept(p, epochs)
         /\ FreshKept(p, tabs, epochs)
<1>1. OpRight(p)
  BY DEF Alike, OpRight
<1>2. RefKept(p, epochs) /\ FreshKept(p, tabs, epochs)
  BY DEF Alike, RefKept, FreshKept
<1> QED
  BY <1>1, <1>2

-----------------------------------------------------------------------------
(* Steps of the operation that runs *)

\* A tab that is loaded, or shows a mark, has the document it had.
TabsAlike ==
  /\ tab' \in [Tabs -> TabStates]
  /\ \A t \in Tabs :
       /\ tab'[t].open = tab[t].open
       /\ tab'[t].doc.epoch = tab[t].doc.epoch
       /\ tab'[t].doc.given = tab[t].doc.given
       /\ tab'[t].back = tab[t].back

LEMMA TabsAlikeKeep ==
  ASSUME Inv, TabsAlike
  PROVE  /\ EpochsGiven'
         /\ gone' \in {gone, NoTab} => GoneIsClosed'
<1>1. EpochsGiven'
  BY DEF Inv, TabsAlike, EpochsGiven, Given
<1>2. gone' \in {gone, NoTab} => GoneIsClosed'
  BY DEF Inv, Types, TabsAlike, GoneIsClosed
<1> QED
  BY <1>1, <1>2

LEMMA TabsAlikeKeepFresh ==
  ASSUME Inv, TabsAlike, NEW o, NEW epochs, OpRight(o), FreshKept(o, tab, epochs)
  PROVE  FreshKept(o, tab', epochs)
<1>1. o.fresh => o.tab \in Tabs
  BY DEF OpRight, Stages
<1> QED
  BY <1>1 DEF FreshKept, TabsAlike

\* A step of the operation opens and closes no tab, and leaves the mark alone.
LEMMA OwnStep ==
  ASSUME Inv, op.stage = "run",
         UNCHANGED <<target, gone, operating, selection, ops, events>>,
         generation' \in Nat,
         tab' \in [Tabs -> TabStates], \A t \in Tabs : tab'[t].open = tab[t].open, EpochsGiven',
         refEpoch' \in [Tabs -> Nat],
         OpRight(op'), RefKept(op', refEpoch'), FreshKept(op', tab', refEpoch'),
         op'.stage \in {"run", "finish"}, op'.mark = op.mark, op'.token = op.token
  PROVE  Inv'
<1>1. Types'
  BY DEF Inv, Types, OpRight
<1>2. GoneIsClosed'
  BY DEF Inv, Types, GoneIsClosed
<1>3. MarkNamesTheRunner'
  BY DEF Inv, MarkNamesTheRunner, NotOperating
<1> QED
  BY <1>1, <1>2, <1>3 DEF Inv

\* A step that only takes the program on, or ends it.
LEMMA PlainStep ==
  ASSUME Inv, op.stage = "run", Head(op.todo) \notin {"enter", "generate", "store"},
         Head(op.todo) # "settle" \/ op' = FailsAfterClick(op) \/ (op.watch = "complete" /\ op.snapshot),
         TabsAlike, UNCHANGED <<refEpoch, kept>>,
         NEW p, Alike(op, p),
         \/ op' \in {Goes(p), FailsAfterClick(op)}
         \/ op' = Fails(op, "error") /\ op.watch = "off"
  PROVE  Inv'
<1>1. OpRight(op) /\ RefKept(op, refEpoch) /\ FreshKept(op, tab, refEpoch) /\ Types /\ EpochsGiven
  BY DEF Inv
<1>2. OpRight(p) /\ RefKept(p, refEpoch) /\ FreshKept(p, tab, refEpoch)
  BY <1>1, AlikeKeeps
<1>3. /\ p.stage = op.stage /\ p.todo = op.todo /\ p.tab = op.tab /\ p.mark = op.mark /\ p.token = op.token
      /\ p.watch = op.watch /\ p.snapshot = op.snapshot
  BY DEF Alike
<1>4. op \in Ops /\ (op.mark = NoTab => op.token = 0)
  BY <1>1 DEF OpRight
<1>5. /\ OpRight(op') /\ RefKept(op', refEpoch) /\ FreshKept(op', tab, refEpoch)
      /\ op'.stage \in {"run", "finish"} /\ op'.mark = op.mark /\ op'.token = op.token
  <2>1. CASE op' = Goes(p) /\ op' # FailsAfterClick(op)
    BY <1>1, <1>2, <1>3, <2>1, GoesKeeps
  <2>2. CASE op' = FailsAfterClick(op)
    BY <1>1, <2>2, FailsKeeps
  <2>3. CASE op' = Fails(op, "error") /\ op.watch = "off"
    BY <1>4, <2>3, FailsOutKeeps
  <2> QED
    BY <2>1, <2>2, <2>3
<1>6. /\ UNCHANGED refEpoch /\ UNCHANGED <<target, gone, operating, selection, ops, events>>
      /\ generation' = generation
  BY DEF kept
<1>7. EpochsGiven'
  BY TabsAlikeKeep
<1>8. RefKept(op', refEpoch')
  BY <1>5, <1>6
<1>9. FreshKept(op', tab', refEpoch')
  BY <1>5, <1>6, TabsAlikeKeepFresh
<1>10. tab' \in [Tabs -> TabStates] /\ \A t \in Tabs : tab'[t].open = tab[t].open
  BY DEF TabsAlike
<1> QED
  BY <1>1, <1>5, <1>6, <1>7, <1>8, <1>9, <1>10, OwnStep DEF Types

LEMMA SameTabsAlike ==
  ASSUME Inv, UNCHANGED tab
  PROVE  TabsAlike
BY DEF Inv, Types, TabsAlike

LEMMA OpIsAlike ==
  ASSUME OpRight(op)
  PROVE  Alike(op, op)
BY DEF OpRight, Alike

LEMMA PlainSteps ==
  ASSUME Inv,
         \/ Check \/ Press \/ Move \/ DragAndDrop \/ Chord \/ PrepareOptions \/ Perform
         \/ Choose \/ AwaitText \/ Shoot \/ Resize \/ Listen \/ Loaded
  PROVE  Inv'
<1>1. /\ op.stage = "run" /\ Head(op.todo) \notin {"enter", "generate", "store", "settle"}
      /\ op' \in {Goes(op), FailsAfterClick(op)} /\ UNCHANGED <<tab, refEpoch, kept>>
  BY DEF Check, Press, Move, DragAndDrop, Chord, PrepareOptions, Perform, Choose, AwaitText, Shoot,
         Resize, Listen, Loaded, Does, Step, Proceeds
<1> QED
  BY <1>1, OpIsAlike, SameTabsAlike, PlainStep DEF Inv

LEMMA PreparesWell ==
  ASSUME Inv, Prepare
  PROVE  Inv'
<1> DEFINE p == [op EXCEPT !.point = TRUE]
<1>1. /\ op.stage = "run" /\ Head(op.todo) = "prepare"
      /\ op' \in {Goes(p), FailsAfterClick(op)} /\ UNCHANGED <<tab, refEpoch, kept>>
  BY DEF Prepare, Step
<1>2. Alike(op, p)
  BY DEF Inv, OpRight, Ops, Alike
<1> QED
  BY <1>1, <1>2, SameTabsAlike, PlainStep

\* A step that is retried puts what it takes again before the rest.
Retried(o, s) == [o EXCEPT !.tries = 1, !.todo = s \o @]

LEMMA RetriesWell ==
  ASSUME NEW o, OpRight(o), o.stage = "run", NEW s \in Seq(StepNames), s # <<>>,
         MayPrecede(s, o.todo), EntersFirst(s), Head(o.todo) # "enter",
         Has(s, RefSteps) => Has(o.todo, RefSteps),
         o.watch # "off" => ~Has(s, BeforeClick)
  PROVE  /\ OpRight(Retried(o, s)) /\ Retried(o, s).stage = "run" /\ Retried(o, s).tab = o.tab
         /\ Retried(o, s).mark = o.mark /\ Retried(o, s).token = o.token
         /\ Retried(o, s).todo = s \o o.todo /\ Retried(o, s).ref = o.ref /\ Retried(o, s).epoch = o.epoch
         /\ Retried(o, s).fresh = o.fresh /\ Retried(o, s).snapshot = o.snapshot
         /\ \A S : Has(Retried(o, s).todo, S) <=> Has(s, S) \/ Has(o.todo, S)
<1> DEFINE p == Retried(o, s)
<1>1. /\ o \in Ops /\ o.todo \in Seq(StepNames) /\ o.todo # <<>>
      /\ WellFormed(o.todo) /\ EntersFirst(o.todo)
  BY DEF OpRight, Ops
<1>2. /\ s \o o.todo \in Seq(StepNames) /\ WellFormed(s \o o.todo)
      /\ \A S : Has(s \o o.todo, S) <=> Has(s, S) \/ Has(o.todo, S)
  BY <1>1, ConcatWellFormed, HasOfConcat, ConcatProperties
<1>3. EntersFirst(s \o o.todo)
  BY <1>1, TailEntersFirst, ConcatEntersFirst
<1>4. s \o o.todo # <<>> /\ (s \o o.todo)[Len(s \o o.todo)] = o.todo[Len(o.todo)]
  <2>1. Len(s \o o.todo) = Len(s) + Len(o.todo) /\ Len(o.todo) > 0
    BY <1>1
  <2> QED
    BY <1>1, <2>1
<1>5. /\ p \in Ops /\ p.stage = o.stage /\ p.tab = o.tab /\ p.mark = o.mark /\ p.token = o.token
      /\ p.todo = s \o o.todo /\ p.ref = o.ref /\ p.epoch = o.epoch
      /\ p.fresh = o.fresh /\ p.snapshot = o.snapshot /\ p.watch = o.watch
      /\ p.guid = o.guid /\ p.begun = o.begun /\ p.ended = o.ended /\ p.result = o.result
  BY <1>1, <1>2 DEF Retried, Ops
<1> HIDE DEF p
<1>6. OpRight(p)
  BY <1>2, <1>3, <1>4, <1>5 DEF OpRight
<1> QED
  BY <1>2, <1>5, <1>6 DEF p

LEMMA VerifiesWell ==
  ASSUME Inv, Verify
  PROVE  Inv'
<1>1. op.stage = "run" /\ Head(op.todo) \in {"verify", "verifyOnce"} /\ UNCHANGED <<tab, refEpoch, kept>>
  BY DEF Verify, Step
<1>2. OpRight(op) /\ RefKept(op, refEpoch) /\ FreshKept(op, tab, refEpoch) /\ Types /\ EpochsGiven
  BY DEF Inv
<1>3. CASE Handles /\ ~op.point /\ op.tries = 2 /\ Step("verify")
  <2> DEFINE s == <<"prepare", "check">>
  <2>1. op' = Retried(op, s)
    BY <1>3 DEF Verify, Retried
  <2>2. /\ s \in Seq(StepNames) /\ s # <<>> /\ EntersFirst(s) /\ ~Has(s, {"generate"}) /\ ~Has(s, {"store"})
        /\ ~Has(s, {"click", "store", "leave", "epoch", "generate", "compare"})
    BY DEF StepNames, EntersFirst, Has
  <2>3. op.todo \in Seq(StepNames) /\ op.todo # <<>>
    BY <1>1, <1>2 DEF OpRight, Ops
  <2>4. Has(op.todo, RefSteps)
    BY <1>1, <2>3, TailWellFormed, <1>2 DEF RefSteps, OpRight
  <2>5. op.watch = "off"
    BY <1>1, <1>2, <2>4 DEF OpRight, BeforeClick, Has
  <2>6. MayPrecede(s, op.todo)
    BY <2>2, <2>3, PlainMayPrecede
  <2> HIDE DEF s
  <2>7. /\ OpRight(op') /\ op'.stage = "run" /\ op'.tab = op.tab /\ op'.mark = op.mark /\ op'.token = op.token
        /\ op'.ref = op.ref /\ op'.epoch = op.epoch /\ op'.fresh = op.fresh /\ op'.snapshot = op.snapshot
        /\ \A S : Has(op'.todo, S) <=> Has(s, S) \/ Has(op.todo, S)
    BY <1>1, <1>2, <2>1, <2>2, <2>4, <2>5, <2>6, RetriesWell
  <2>8. RefKept(op', refEpoch)
    BY <1>2, <2>4, <2>7 DEF RefKept
  <2>9. FreshKept(op', tab, refEpoch)
    <3>1. Has(op'.todo, {"generate"}) <=> Has(op.todo, {"generate"})
      BY <2>2, <2>7
    <3>2. Has(op'.todo, {"store"}) <=> Has(op.todo, {"store"})
      BY <2>2, <2>7
    <3> QED
      BY <1>2, <2>7, <3>1, <3>2 DEF FreshKept
  <2>10. /\ UNCHANGED <<tab, refEpoch>> /\ UNCHANGED <<target, gone, operating, selection, ops, events>>
         /\ generation' = generation
    BY <1>1 DEF kept
  <2>11. EpochsGiven'
    BY <1>2, <2>10 DEF EpochsGiven, Given
  <2>12. RefKept(op', refEpoch') /\ FreshKept(op', tab', refEpoch')
    BY <2>8, <2>9, <2>10
  <2> QED
    BY <1>1, <1>2, <2>7, <2>10, <2>11, <2>12, OwnStep DEF Types
<1>4. CASE ~(Handles /\ ~op.point /\ op.tries = 2 /\ Step("verify"))
  <2> DEFINE p == [op EXCEPT !.tries = 2, !.point = FALSE]
  <2>1. op' \in {Goes(p), FailsAfterClick(op)}
    BY <1>4 DEF Verify, Proceeds
  <2>2. Alike(op, p)
    BY <1>2 DEF OpRight, Ops, Alike
  <2> QED
    BY <1>1, <2>1, <2>2, SameTabsAlike, PlainStep
<1> QED
  BY <1>3, <1>4

\* A tab whose runtime is injected, or whose mark is brought up to date.
LEMMA OneTabAlike ==
  ASSUME Inv, NEW t \in Tabs, NEW s \in TabStates, tab' = [tab EXCEPT ![t] = s],
         s.open = tab[t].open, s.doc.epoch = tab[t].doc.epoch, s.doc.given = tab[t].doc.given,
         s.back = tab[t].back
  PROVE  TabsAlike
BY DEF Inv, Types, TabsAlike

LEMMA MarkedIs ==
  ASSUME Inv, NEW t \in Tabs, NEW s,
         s = [tab[t] EXCEPT !.doc.runtime = TRUE, !.doc.ui = UiState(t)]
  PROVE  /\ s \in TabStates
         /\ s.open = tab[t].open /\ s.doc.epoch = tab[t].doc.epoch /\ s.doc.given = tab[t].doc.given
         /\ s.back = tab[t].back
<1>1. tab[t] \in TabStates /\ tab[t].doc \in Documents /\ UiState(t) \in Uis
  BY DEF Inv, Types, UiState, Uis, TabStates
<1> DEFINE d == [tab[t].doc EXCEPT !.runtime = TRUE, !.ui = UiState(t)]
<1>2. d \in Documents /\ d.epoch = tab[t].doc.epoch /\ d.given = tab[t].doc.given
  BY <1>1 DEF Documents
<1>3. s = [tab[t] EXCEPT !.doc = d]
  BY <1>1 DEF TabStates, Documents
<1> HIDE DEF d
<1> QED
  BY <1>1, <1>2, <1>3 DEF TabStates

LEMMA InjectedIs ==
  ASSUME Inv, NEW t \in Tabs
  PROVE  /\ Injected(t) \in [Tabs -> TabStates]
         /\ \A u \in Tabs : /\ Injected(t)[u].open = tab[u].open
                            /\ Injected(t)[u].back = tab[u].back
                            /\ Injected(t)[u].doc.epoch = tab[u].doc.epoch
                            /\ Injected(t)[u].doc.given = tab[u].doc.given
<1> DEFINE s == [tab[t] EXCEPT !.doc.runtime = TRUE, !.doc.ui = UiState(t)]
<1>1. tab \in [Tabs -> TabStates]
  BY DEF Inv, Types
<1>2. Injected(t) = tab \/ Injected(t) = [tab EXCEPT ![t] = s]
  BY <1>1 DEF Injected
<1>3. /\ s \in TabStates
      /\ s.open = tab[t].open /\ s.doc.epoch = tab[t].doc.epoch /\ s.doc.given = tab[t].doc.given
      /\ s.back = tab[t].back
  BY MarkedIs
<1> HIDE DEF s
<1> QED
  BY <1>1, <1>2, <1>3

LEMMA InjectedAlike ==
  ASSUME Inv, NEW t \in Tabs, tab' \in {tab, Injected(t)}
  PROVE  TabsAlike
BY InjectedIs, SameTabsAlike DEF TabsAlike

LEMMA SyncUiAlike ==
  ASSUME Inv, NEW t \in Tabs \cup {NoTab}, SyncUi(t)
  PROVE  TabsAlike
<1> DEFINE s == [tab[t] EXCEPT !.doc.runtime = TRUE, !.doc.ui = UiState(t)]
<1>1. CASE t # NoTab /\ Complete(t)
  <2>1. t \in Tabs /\ tab' = [tab EXCEPT ![t].doc.runtime = TRUE, ![t].doc.ui = UiState(t)]
    BY <1>1 DEF SyncUi
  <2>2. tab' = [tab EXCEPT ![t] = s]
    BY <2>1 DEF Inv, Types
  <2>3. /\ s \in TabStates
        /\ s.open = tab[t].open /\ s.doc.epoch = tab[t].doc.epoch /\ s.doc.given = tab[t].doc.given
        /\ s.back = tab[t].back
    BY <2>1, MarkedIs
  <2> QED
    BY <2>1, <2>2, <2>3, OneTabAlike
<1>2. CASE ~(t # NoTab /\ Complete(t))
  BY <1>2, SameTabsAlike DEF SyncUi
<1> QED
  BY <1>1, <1>2

\* A program that goes on from a step that changes what it may rely on.
LEMMA GoesOnTo ==
  ASSUME NEW o, OpRight(o), o.stage = "run", Head(o.todo) # "settle", NEW tabs, NEW epochs,
         Has(Tail(o.todo), RefSteps) => epochs[o.tab] \in {0, o.ref},
         o.fresh /\ o.snapshot /\ ~Has(Tail(o.todo), {"generate"}) =>
           /\ tabs[o.tab].open
           /\ tabs[o.tab].doc.epoch = o.epoch
           /\ ~Has(Tail(o.todo), {"store"}) => epochs[o.tab] = o.epoch
  PROVE  /\ OpRight(Goes(o))
         /\ RefKept(Goes(o), epochs)
         /\ FreshKept(Goes(o), tabs, epochs)
         /\ Goes(o).stage \in {"run", "finish"}
         /\ Goes(o).tab = o.tab /\ Goes(o).mark = o.mark /\ Goes(o).token = o.token
<1>1. /\ OpRight(Goes(o))
      /\ Goes(o).stage \in {"run", "finish"}
      /\ Goes(o).tab = o.tab /\ Goes(o).mark = o.mark /\ Goes(o).token = o.token
      /\ Goes(o).todo = Tail(o.todo)
      /\ Goes(o).ref = o.ref \/ Goes(o).todo = <<>>
      /\ Goes(o).fresh = o.fresh /\ Goes(o).snapshot = o.snapshot /\ Goes(o).epoch = o.epoch
  BY GoesOn, LastIsSettle
<1>2. RefKept(Goes(o), epochs)
  BY <1>1, EmptyWellFormed DEF RefKept
<1>3. FreshKept(Goes(o), tabs, epochs)
  BY <1>1 DEF FreshKept
<1> QED
  BY <1>1, <1>2, <1>3

\* What the step of a program that runs starts from.
LEMMA Running ==
  ASSUME Inv, op.stage = "run"
  PROVE  /\ Types /\ EpochsGiven /\ op \in Ops /\ op.tab \in Tabs
         /\ OpRight(op) /\ RefKept(op, refEpoch) /\ FreshKept(op, tab, refEpoch)
         /\ op.todo \in Seq(StepNames) /\ op.todo # <<>> /\ WellFormed(op.todo) /\ EntersFirst(op.todo)
         /\ \A S : Has(op.todo, S) <=> Head(op.todo) \in S \/ Has(Tail(op.todo), S)
         /\ op.watch # "off" => Head(op.todo) \notin BeforeClick
         /\ op.mark = NoTab => op.token = 0
<1>1. Types /\ EpochsGiven /\ OpRight(op) /\ RefKept(op, refEpoch) /\ FreshKept(op, tab, refEpoch)
  BY DEF Inv
<1>2. /\ op \in Ops /\ op.tab \in Tabs /\ op.todo \in Seq(StepNames) /\ op.todo # <<>>
      /\ WellFormed(op.todo) /\ EntersFirst(op.todo)
  BY <1>1 DEF OpRight, Ops
<1>3. \A S : Has(op.todo, S) <=> Head(op.todo) \in S \/ Has(Tail(op.todo), S)
  BY <1>2, TailWellFormed
<1>4. op.watch # "off" => ~Has(op.todo, BeforeClick)
  BY <1>1 DEF OpRight
<1>5. op.watch # "off" => Head(op.todo) \notin BeforeClick
  BY <1>3, <1>4
<1>6. op.mark = NoTab => op.token = 0
  BY <1>1 DEF OpRight
<1> QED
  BY <1>1, <1>2, <1>3, <1>5, <1>6

LEMMA EntersWell ==
  ASSUME Inv, Enter
  PROVE  Inv'
<1>1. op.stage = "run" /\ Head(op.todo) = "enter" /\ UNCHANGED <<refEpoch, kept>>
  BY DEF Enter, Step
<1>2. tab' \in {tab, Injected(op.tab)}
  BY DEF Enter
<1>3. TabsAlike
  BY <1>1, <1>2, Running, InjectedAlike
<1>4. CASE op' = FailsAfterClick(op)
  BY <1>1, <1>3, <1>4, Running, OpIsAlike, FailsKeeps, TabsAlikeKeep, OwnStep DEF TabsAlike, Types, kept
<1>5. CASE Current /\ op' = Goes(op)
  <2>1. Has(Tail(op.todo), RefSteps) => refEpoch[op.tab] \in {0, op.ref}
    <3>1. Has(Tail(op.todo), RefSteps) => op.ref # 0
      BY <1>1, Running DEF OpRight
    <3> QED
      BY <1>5, <3>1 DEF Current
  <2>2. Has(op.todo, {"generate"}) <=> Has(Tail(op.todo), {"generate"})
    BY <1>1, Running
  <2>3. Has(op.todo, {"store"}) <=> Has(Tail(op.todo), {"store"})
    BY <1>1, Running
  <2>4. op.fresh /\ op.snapshot /\ ~Has(Tail(op.todo), {"generate"}) =>
          /\ tab[op.tab].open
          /\ tab[op.tab].doc.epoch = op.epoch
          /\ ~Has(Tail(op.todo), {"store"}) => refEpoch[op.tab] = op.epoch
    BY <1>1, <2>2, <2>3, Running DEF FreshKept
  <2>5. /\ OpRight(op') /\ RefKept(op', refEpoch) /\ FreshKept(op', tab, refEpoch)
        /\ op'.stage \in {"run", "finish"} /\ op'.mark = op.mark /\ op'.token = op.token
    BY <1>1, <1>5, <2>1, <2>4, Running, GoesOnTo
  <2>6. /\ UNCHANGED refEpoch /\ UNCHANGED <<target, gone, operating, selection, ops, events>>
        /\ generation' = generation
    BY <1>1 DEF kept
  <2>7. RefKept(op', refEpoch') /\ FreshKept(op', tab', refEpoch')
    BY <1>3, <2>5, <2>6, TabsAlikeKeepFresh
  <2>8. EpochsGiven' /\ tab' \in [Tabs -> TabStates] /\ \A t \in Tabs : tab'[t].open = tab[t].open
    BY <1>3, TabsAlikeKeep DEF TabsAlike
  <2> QED
    BY <1>1, <2>5, <2>6, <2>7, <2>8, Running, OwnStep DEF Types
<1> QED
  BY <1>4, <1>5 DEF Enter, Proceeds

LEMMA ClicksWell ==
  ASSUME Inv, ClickDownload
  PROVE  Inv'
<1>1. op.stage = "run" /\ Head(op.todo) = "click" /\ UNCHANGED <<tab, refEpoch, kept>>
  BY DEF ClickDownload, Step
<1>2. op.watch = "off" /\ op.snapshot
  BY <1>1, Running DEF BeforeClick, OpRight
<1>3. /\ op.todo[Len(op.todo)] = "settle" /\ ~Has(Tail(op.todo), BeforeClick)
      /\ Tail(op.todo) # <<>> /\ Tail(op.todo)[Len(Tail(op.todo))] = "settle"
  BY <1>1, Running, TailWellFormed
<1> DEFINE clicked == [op EXCEPT !.watch = "on"]
<1>4. /\ clicked \in Ops /\ clicked.tab = op.tab /\ clicked.mark = op.mark /\ clicked.token = op.token /\ clicked.watch = "on"
      /\ clicked.todo = op.todo
  BY <1>1, Running DEF Ops
<1>5. CASE op' = Fails(op, "error")
  BY <1>1, <1>2, <1>5, Running, OpIsAlike, SameTabsAlike, PlainStep
<1>6. CASE op' = Fails(clicked, "unknown")
  <2>1. /\ OpRight(op') /\ RefKept(op', refEpoch) /\ FreshKept(op', tab, refEpoch)
        /\ op'.stage \in {"run", "finish"} /\ op'.mark = op.mark /\ op'.token = op.token
    BY <1>1, <1>4, <1>6, Running, FailsOutKeeps
  <2> QED
    BY <1>1, <2>1, Running, SameTabsAlike, TabsAlikeKeep, OwnStep DEF Types, kept
<1>7. CASE op' = Goes(clicked)
  <2>1. /\ OpRight(Goes(op)) /\ RefKept(Goes(op), refEpoch) /\ FreshKept(Goes(op), tab, refEpoch)
        /\ Goes(op).stage \in {"run", "finish"} /\ Goes(op).tab = op.tab /\ Goes(op).mark = op.mark /\ Goes(op).token = op.token
    BY <1>1, Running, GoesKeeps
  <2>2. Goes(op) = [op EXCEPT !.todo = Tail(@)] /\ op' = [clicked EXCEPT !.todo = Tail(@)]
    BY <1>3, <1>4, <1>7 DEF Goes
  <2> DEFINE g == Goes(op)
  <2>3. /\ g \in Ops /\ g.todo = Tail(op.todo) /\ g.stage = "run" /\ g.watch = "off" /\ g.snapshot
        /\ op' = [g EXCEPT !.watch = "on"]
    <3>1. g \in Ops
      BY <2>1 DEF OpRight
    <3>2. g.todo = Tail(op.todo) /\ g.stage = "run" /\ g.watch = "off" /\ g.snapshot
      BY <1>1, <1>2, <2>2, Running DEF Ops
    <3>3. op' = [g EXCEPT !.watch = "on"]
      BY <2>2, Running DEF Ops
    <3> QED
      BY <3>1, <3>2, <3>3
  <2> HIDE DEF g
  <2>4. /\ op' \in Ops /\ op'.stage = g.stage /\ op'.tab = g.tab /\ op'.mark = g.mark /\ op'.token = g.token
        /\ op'.ref = g.ref /\ op'.todo = g.todo /\ op'.epoch = g.epoch /\ op'.fresh = g.fresh
        /\ op'.watch = "on" /\ op'.guid = g.guid /\ op'.begun = g.begun /\ op'.ended = g.ended
        /\ op'.snapshot = g.snapshot /\ op'.result = g.result
    BY <2>3 DEF Ops
  <2>5. OpRight(g) /\ RefKept(g, refEpoch) /\ FreshKept(g, tab, refEpoch) /\ g.tab = op.tab /\ g.mark = op.mark /\ g.token = op.token
    BY <2>1 DEF g
  <2>6. OpRight(op')
    <3>1. /\ op'.begun = (IF op'.guid = NoDownload THEN {} ELSE {op'.guid})
          /\ op'.result = "none" /\ op'.stage = "run" /\ op'.tab \in Tabs /\ op'.todo # <<>>
      BY ZenonT(60), <2>3, <2>4, <2>5 DEF OpRight
    <3>2. /\ WellFormed(op'.todo) /\ EntersFirst(op'.todo)
          /\ Has(op'.todo, RefSteps) => op'.ref # 0
      BY <2>4, <2>5 DEF OpRight
    <3>3. op'.todo[Len(op'.todo)] = "settle" /\ ~Has(op'.todo, BeforeClick)
      BY <1>3, <2>3, <2>4
    <3>4. op'.mark = NoTab => op'.token = 0
      BY <2>4, <2>5 DEF OpRight
    <3> QED
      BY <2>3, <2>4, <3>1, <3>2, <3>3, <3>4 DEF OpRight, Starting
  <2>7. RefKept(op', refEpoch) /\ FreshKept(op', tab, refEpoch)
    BY <2>4, <2>5 DEF RefKept, FreshKept
  <2> QED
    BY <1>1, <2>3, <2>4, <2>5, <2>6, <2>7, Running, SameTabsAlike, TabsAlikeKeep, OwnStep DEF Types, kept
<1> QED
  BY <1>5, <1>6, <1>7 DEF ClickDownload

LEMMA LeavesWell ==
  ASSUME Inv, Leave
  PROVE  Inv'
<1>1. op.stage = "run" /\ Head(op.todo) = "leave" /\ UNCHANGED <<tab, kept>>
  BY DEF Leave, Step
<1>2. Has(Tail(op.todo), {"generate"})
  <2>1. op.todo[1] = "leave" /\ 1 \in 1 .. Len(op.todo)
    BY <1>1, Running
  <2>2. \E j \in 2 .. Len(op.todo) : op.todo[j] = "generate"
    BY <1>1, <2>1, Running DEF WellFormed
  <2>3. Has(op.todo, {"generate"})
    BY <1>1, <2>2, Running DEF Has
  <2> QED
    BY <1>1, <2>3, Running
<1>3. refEpoch' \in [Tabs -> Nat] /\ refEpoch'[op.tab] \in {0, refEpoch[op.tab]}
  BY <1>1, Running DEF Types, Leave
<1>4. Has(Tail(op.todo), RefSteps) => refEpoch'[op.tab] \in {0, op.ref}
  <2>1. ~Has(op.todo, {"enter"})
    BY <1>1, Running, TailEntersFirst
  <2>2. Has(Tail(op.todo), RefSteps) => refEpoch[op.tab] \in {0, op.ref}
    BY <1>1, <2>1, Running DEF RefKept
  <2> QED
    BY <1>3, <2>2
<1>5. /\ OpRight(op') /\ RefKept(op', refEpoch') /\ FreshKept(op', tab, refEpoch')
      /\ op'.stage \in {"run", "finish"} /\ op'.mark = op.mark /\ op'.token = op.token
  <2>1. CASE op' = Goes(op)
    BY <1>1, <1>2, <1>4, <2>1, Running, GoesOnTo
  <2>2. CASE op' = FailsAfterClick(op)
    BY <1>1, <2>2, Running, FailsKeeps
  <2> QED
    BY <2>1, <2>2 DEF Leave, Proceeds
<1> QED
  BY <1>1, <1>3, <1>5, Running, SameTabsAlike, TabsAlikeKeep, OwnStep DEF Types, kept

LEMMA NavigatesWell ==
  ASSUME Inv, AskToNavigate \/ AwaitCommit
  PROVE  Inv'
<1>1. op.stage = "run" /\ Head(op.todo) \in {"navigate", "commit"} /\ UNCHANGED <<refEpoch, kept>>
  BY DEF AskToNavigate, AwaitCommit, Step
<1>2. op.watch = "off"
  BY <1>1, Running DEF BeforeClick
<1>3. TabsAlike
  <2>1. tab' = tab \/ \E nav \in {"started", "idle"} : tab' = [tab EXCEPT ![op.tab].nav = nav]
    BY DEF AskToNavigate, AwaitCommit
  <2>2. ASSUME NEW nav \in {"started", "idle"}, tab' = [tab EXCEPT ![op.tab].nav = nav]
        PROVE  TabsAlike
    <3> DEFINE s == [tab[op.tab] EXCEPT !.nav = nav]
    <3>1. op.tab \in Tabs /\ tab[op.tab] \in TabStates
      BY <1>1, Running DEF Types
    <3>2. tab' = [tab EXCEPT ![op.tab] = s]
      BY <2>2
    <3>3. /\ s \in TabStates /\ s.open = tab[op.tab].open /\ s.doc = tab[op.tab].doc
          /\ s.back = tab[op.tab].back
      BY <3>1 DEF TabStates
    <3> QED
      BY <3>1, <3>2, <3>3, OneTabAlike
  <2> QED
    BY <2>1, <2>2, SameTabsAlike
<1> DEFINE p == [op EXCEPT !.committed = FALSE]
<1>4. Alike(op, p)
  BY <1>1, Running DEF Ops, Alike
<1>5. op' \in {Goes(op), Goes(p), Fails(op, "error")}
  BY DEF AskToNavigate, AwaitCommit
<1> QED
  BY <1>1, <1>2, <1>3, <1>4, <1>5, Running, OpIsAlike, PlainStep

\* The head of a program promises what its rest still has.
LEMMA HeadPromises ==
  ASSUME NEW p \in Seq(StepNames), p # <<>>, WellFormed(p)
  PROVE  /\ Head(p) \in {"leave", "epoch"} => Has(Tail(p), {"generate"})
         /\ Head(p) \in {"generate", "compare"} => Has(Tail(p), {"store"})
         /\ Head(p) = "store" => ~Has(Tail(p), RefSteps)
<1>1. /\ Len(p) \in Nat /\ Len(Tail(p)) = Len(p) - 1 /\ Head(p) = p[1] /\ 1 \in 1 .. Len(p)
      /\ \A i \in 1 .. Len(Tail(p)) : i + 1 \in 2 .. Len(p) /\ Tail(p)[i] = p[i + 1]
      /\ \A j \in 2 .. Len(p) : j - 1 \in 1 .. Len(Tail(p)) /\ Tail(p)[j - 1] = p[j]
  OBVIOUS
<1>2. /\ p[1] \in {"leave", "epoch"} => \E j \in 2 .. Len(p) : p[j] = "generate"
      /\ p[1] \in {"generate", "compare"} => \E j \in 2 .. Len(p) : p[j] = "store"
      /\ p[1] = "store" => \A j \in 2 .. Len(p) : p[j] \notin RefSteps
  BY <1>1 DEF WellFormed
<1> QED
  BY <1>1, <1>2 DEF Has

LEMMA ReadsWell ==
  ASSUME Inv, ReadEpoch
  PROVE  Inv'
<1>1. op.stage = "run" /\ Head(op.todo) = "epoch" /\ UNCHANGED <<refEpoch, kept>>
  BY DEF ReadEpoch, Step
<1>2. CASE tab' = tab \/ tab' = Injected(op.tab)
  <2>1. op' \in {Goes(op), FailsAfterClick(op)}
    BY DEF ReadEpoch, Proceeds
  <2> QED
    BY <1>1, <1>2, <2>1, Running, InjectedAlike, OpIsAlike, PlainStep
<1>3. CASE tab' = [Injected(op.tab) EXCEPT ![op.tab].doc = Forgotten(@)] /\ op' = Goes(op)
  <2> DEFINE i == Injected(op.tab)
  <2>1. i \in [Tabs -> TabStates] /\ \A t \in Tabs : i[t].open = tab[t].open /\ i[t].back = tab[t].back
                                                     /\ i[t].doc.epoch = tab[t].doc.epoch
                                                     /\ i[t].doc.given = tab[t].doc.given
    BY <1>1, Running, InjectedIs
  <2>2. tab' = [i EXCEPT ![op.tab].doc = Forgotten(@)]
    BY <1>3
  <2> HIDE DEF i
  <2> DEFINE s == [i[op.tab] EXCEPT !.doc = Forgotten(@)]
  <2>3. op.tab \in Tabs /\ i[op.tab] \in TabStates /\ i[op.tab].doc \in Documents
    BY <1>1, <2>1, Running DEF TabStates
  <2>4. Forgotten(i[op.tab].doc) \in Documents /\ Forgotten(i[op.tab].doc).epoch = 0
    BY <2>3 DEF Forgotten, Documents
  <2>5. /\ s \in TabStates /\ s.open = i[op.tab].open /\ s.back = i[op.tab].back /\ s.doc.epoch = 0
    BY <2>3, <2>4 DEF TabStates
  <2>6. tab' = [i EXCEPT ![op.tab] = s]
    BY <2>2
  <2> HIDE DEF s
  <2>7. tab' \in [Tabs -> TabStates] /\ \A t \in Tabs : tab'[t].open = tab[t].open
    BY <2>1, <2>3, <2>5, <2>6
  <2>8. EpochsGiven'
    <3> SUFFICES ASSUME NEW t \in Tabs
                 PROVE  Given(tab'[t].doc) /\ Given(tab'[t].back)
      BY DEF EpochsGiven, Given
    <3>1. CASE t = op.tab
      BY <1>1, <2>1, <2>5, <2>6, <3>1, Running DEF EpochsGiven, Given
    <3>2. CASE t # op.tab
      BY <1>1, <2>1, <2>6, <3>2, Running DEF EpochsGiven, Given
    <3> QED
      BY <3>1, <3>2
  <2>9. Has(Tail(op.todo), {"generate"}) /\ ~Has(op.todo, {"enter"})
    BY <1>1, Running, HeadPromises, TailEntersFirst
  <2>10. Has(Tail(op.todo), RefSteps) => refEpoch[op.tab] \in {0, op.ref}
    BY <1>1, <2>9, Running DEF RefKept
  <2>11. /\ OpRight(op') /\ RefKept(op', refEpoch) /\ FreshKept(op', tab', refEpoch)
         /\ op'.stage \in {"run", "finish"} /\ op'.mark = op.mark /\ op'.token = op.token
    BY <1>1, <1>3, <2>9, <2>10, Running, GoesOnTo
  <2>12. /\ UNCHANGED refEpoch /\ UNCHANGED <<target, gone, operating, selection, ops, events>>
         /\ generation' = generation
    BY <1>1 DEF kept
  <2>13. RefKept(op', refEpoch') /\ FreshKept(op', tab', refEpoch')
    BY <2>11, <2>12
  <2> QED
    BY <1>1, <2>7, <2>8, <2>11, <2>12, <2>13, Running, OwnStep DEF Types
<1> QED
  BY <1>2, <1>3 DEF ReadEpoch, Proceeds

LEMMA SnapshotIs ==
  ASSUME NEW doc \in Documents, NEW g \in Nat \ {0}, Given(doc)
  PROVE  /\ Snapshot(doc, g) \in Documents /\ Snapshot(doc, g).epoch # 0
         /\ Given(Snapshot(doc, g))
<1> DEFINE epoch == IF doc.epoch = 0 THEN g ELSE doc.epoch
<1>1. epoch \in Nat /\ epoch # 0
  BY DEF Documents
<1>2. Snapshot(doc, g) = [doc EXCEPT !.epoch = epoch, !.given = @ \cup {epoch}]
  BY DEF Snapshot
<1> HIDE DEF epoch
<1> QED
  BY <1>1, <1>2 DEF Documents, Given

LEMMA GeneratesWell ==
  ASSUME Inv, Generate
  PROVE  Inv'
<1>1. /\ op.stage = "run" /\ Head(op.todo) = "generate" /\ generation' = generation + 1
      /\ UNCHANGED <<target, gone, operating, refEpoch, selection, ops, events>>
  BY DEF Generate, Step
<1>2. generation' \in Nat \ {0}
  BY SMTT(30), <1>1, Running DEF Types
<1>3. CASE op' = FailsAfterClick(op) /\ UNCHANGED tab
  <2>1. /\ OpRight(op') /\ RefKept(op', refEpoch') /\ FreshKept(op', tab', refEpoch')
        /\ op'.stage \in {"run", "finish"} /\ op'.mark = op.mark /\ op'.token = op.token
    BY <1>1, <1>3, Running, FailsKeeps
  <2> QED
    BY <1>1, <1>2, <1>3, <2>1, Running, SameTabsAlike, TabsAlikeKeep, OwnStep DEF Types
<1>4. CASE /\ Handles
           /\ tab' = [tab EXCEPT ![op.tab].doc = Snapshot(@, generation')]
           /\ op' = Goes([op EXCEPT !.epoch = tab'[op.tab].doc.epoch, !.url = TRUE, !.fresh = TRUE])
  <2> DEFINE d == Snapshot(tab[op.tab].doc, generation')
             s == [tab[op.tab] EXCEPT !.doc = d]
  <2>1. /\ op.tab \in Tabs /\ tab[op.tab] \in TabStates /\ tab[op.tab].doc \in Documents
        /\ Given(tab[op.tab].doc) /\ Given(tab[op.tab].back)
    BY <1>1, Running DEF Types, TabStates, EpochsGiven
  <2>2. d \in Documents /\ Given(d) /\ d.epoch \in Nat
    BY <1>2, <2>1, SnapshotIs DEF Documents
  <2>3. tab' = [tab EXCEPT ![op.tab] = s]
    BY <1>4
  <2> HIDE DEF d
  <2>4. s \in TabStates /\ s.open = tab[op.tab].open /\ s.back = tab[op.tab].back /\ s.doc = d
    BY <2>1, <2>2 DEF TabStates
  <2> HIDE DEF s
  <2>5. /\ tab' \in [Tabs -> TabStates] /\ tab'[op.tab] = s
        /\ \A t \in Tabs : t # op.tab => tab'[t] = tab[t]
    BY <1>1, <2>1, <2>3, <2>4, Running DEF Types
  <2>6. \A t \in Tabs : tab'[t].open = tab[t].open
    BY <2>4, <2>5
  <2>7. EpochsGiven'
    BY <1>1, <2>1, <2>2, <2>4, <2>5, Running DEF EpochsGiven, Given
  <2> DEFINE p == [op EXCEPT !.epoch = d.epoch, !.url = TRUE, !.fresh = TRUE]
  <2>8. op' = Goes(p)
    BY <1>4, <2>4, <2>5
  <2>9. /\ p \in Ops /\ p.stage = op.stage /\ p.token = op.token /\ p.mark = op.mark /\ p.tab = op.tab /\ p.ref = op.ref
        /\ p.todo = op.todo /\ p.epoch = d.epoch /\ p.watch = op.watch /\ p.guid = op.guid
        /\ p.begun = op.begun /\ p.ended = op.ended /\ p.snapshot = op.snapshot /\ p.result = op.result
    BY <1>1, <2>2, Running DEF Ops
  <2> HIDE DEF p
  <2>10. OpRight(p)
    BY <1>1, <2>9, Running DEF OpRight
  <2>11. tab'[op.tab].open /\ tab'[op.tab].doc.epoch = d.epoch
    BY <1>4, <2>1, <2>4, <2>5, <2>6 DEF Handles, Answers
  <2>12. Has(Tail(op.todo), {"store"}) /\ ~Has(op.todo, {"enter"})
    BY <1>1, Running, HeadPromises, TailEntersFirst
  <2>13. Has(Tail(op.todo), RefSteps) => refEpoch'[op.tab] \in {0, op.ref}
    BY <1>1, <2>12, Running DEF RefKept
  <2>14. /\ OpRight(op') /\ RefKept(op', refEpoch') /\ FreshKept(op', tab', refEpoch')
         /\ op'.stage \in {"run", "finish"} /\ op'.mark = op.mark /\ op'.token = op.token
    BY ZenonT(60), <1>1, <2>8, <2>9, <2>10, <2>11, <2>12, <2>13, GoesOnTo
  <2> QED
    BY <1>1, <1>2, <2>5, <2>6, <2>7, <2>14, Running, OwnStep DEF Types
<1> QED
  BY <1>3, <1>4 DEF Generate

LEMMA ComparesWell ==
  ASSUME Inv, Compare
  PROVE  Inv'
<1>1. op.stage = "run" /\ Head(op.todo) = "compare" /\ UNCHANGED <<tab, kept>>
  BY DEF Compare, Step
<1>2. CASE UNCHANGED refEpoch /\ op' \in {Goes(op), FailsAfterClick(op)}
  BY <1>1, <1>2, Running, SameTabsAlike, OpIsAlike, PlainStep
<1>3. CASE refEpoch' = [refEpoch EXCEPT ![op.tab] = 0]
  <2>1. refEpoch' \in [Tabs -> Nat] /\ refEpoch'[op.tab] = 0
    BY <1>1, <1>3, Running DEF Types
  <2>2. CASE op' = FailsAfterClick(op)
    <3>1. /\ OpRight(op') /\ RefKept(op', refEpoch') /\ FreshKept(op', tab', refEpoch')
          /\ op'.stage \in {"run", "finish"} /\ op'.mark = op.mark /\ op'.token = op.token
      BY <1>1, <2>2, Running, FailsKeeps
    <3> QED
      BY <1>1, <2>1, <3>1, Running, SameTabsAlike, TabsAlikeKeep, OwnStep DEF Types, kept
  <2>3. CASE op' = Retried(op, <<"epoch", "generate">>)
    <3> DEFINE s == <<"epoch", "generate">>
    <3>1. s \in Seq(StepNames) /\ s # <<>> /\ EntersFirst(s) /\ Len(s) = 2
          /\ s[1] = "epoch" /\ s[2] = "generate"
      BY DEF StepNames, EntersFirst
    <3>2. ~Has(s, RefSteps) /\ ~Has(s, BeforeClick) /\ Has(s, {"generate"})
      BY DEF Has, RefSteps, BeforeClick
    <3>3. Has(op.todo, {"store"}) /\ op' = Retried(op, s)
      BY <1>1, <2>3, Running, HeadPromises
    <3> HIDE DEF s
    <3>4. MayPrecede(s, op.todo)
      BY <3>1, <3>3 DEF MayPrecede
    <3>5. /\ OpRight(op') /\ op'.stage = "run" /\ op'.tab = op.tab
          /\ op'.mark = op.mark /\ op'.token = op.token
          /\ \A S : Has(op'.todo, S) <=> Has(s, S) \/ Has(op.todo, S)
      BY <1>1, <3>1, <3>2, <3>3, <3>4, Running, RetriesWell
    <3>6. RefKept(op', refEpoch') /\ FreshKept(op', tab', refEpoch')
      BY <2>1, <3>2, <3>5 DEF RefKept, FreshKept
    <3> QED
      BY <1>1, <2>1, <3>5, <3>6, Running, SameTabsAlike, TabsAlikeKeep, OwnStep DEF Types, kept
  <2> QED
    BY <1>2, <2>2, <2>3 DEF Compare, Retried, Proceeds
<1> QED
  BY <1>2, <1>3 DEF Compare, Proceeds

LEMMA StoresWell ==
  ASSUME Inv, Store
  PROVE  Inv'
<1>1. /\ op.stage = "run" /\ Head(op.todo) = "store" /\ UNCHANGED <<tab, kept>>
      /\ refEpoch' = [refEpoch EXCEPT ![op.tab] = op.epoch] /\ op' = Goes(op)
  BY DEF Store, Step
<1>2. op.epoch \in Nat
  BY <1>1, Running DEF Ops
<1>3. refEpoch' \in [Tabs -> Nat] /\ refEpoch'[op.tab] = op.epoch
  BY <1>1, <1>2, Running DEF Types
<1>4. ~Has(Tail(op.todo), RefSteps) /\ (Has(op.todo, {"generate"}) <=> Has(Tail(op.todo), {"generate"}))
  BY <1>1, Running, HeadPromises
<1>5. op.fresh /\ op.snapshot /\ ~Has(Tail(op.todo), {"generate"}) =>
        tab[op.tab].open /\ tab[op.tab].doc.epoch = op.epoch
  BY <1>1, <1>4, Running DEF FreshKept
<1>6. /\ OpRight(op') /\ RefKept(op', refEpoch') /\ FreshKept(op', tab', refEpoch')
      /\ op'.stage \in {"run", "finish"} /\ op'.mark = op.mark /\ op'.token = op.token
  BY <1>1, <1>3, <1>4, <1>5, Running, GoesOnTo
<1> QED
  BY <1>1, <1>3, <1>6, Running, SameTabsAlike, TabsAlikeKeep, OwnStep DEF Types, kept

LEMMA SettlesWell ==
  ASSUME Inv, Settled
  PROVE  Inv'
<1>1. op.stage = "run" /\ Head(op.todo) = "settle" /\ UNCHANGED <<tab, refEpoch, kept>>
  BY DEF Settled, Step
<1>2. op' = FailsAfterClick(op) \/ (op' = Goes(op) /\ op.watch = "complete" /\ op.snapshot)
  BY DEF Settled, Proceeds
<1> QED
  BY <1>1, <1>2, Running, SameTabsAlike, OpIsAlike, PlainStep

\* The observer of the download changes what it has seen, and nothing else.
Observing ==
  /\ op' \in Ops /\ op'.stage = op.stage /\ op'.token = op.token /\ op'.mark = op.mark /\ op'.tab = op.tab
  /\ op'.ref = op.ref /\ op'.todo = op.todo /\ op'.epoch = op.epoch /\ op'.fresh = op.fresh
  /\ op'.snapshot = op.snapshot /\ op'.result = op.result
  /\ \/ op'.watch = "failed"
     \/ op'.watch = "on" /\ op'.begun = (IF op'.guid = NoDownload THEN {} ELSE {op'.guid})
     \/ op'.watch = "complete" /\ op'.begun = {op'.guid} /\ op'.guid \in op'.ended

LEMMA ObservesWell ==
  ASSUME Inv, DownloadFails \/ \E d \in Downloads : DownloadBegins(d) \/ DownloadCompletes(d)
  PROVE  Inv'
<1>1. op.watch = "on" /\ op.stage = "run" /\ UNCHANGED <<tab, refEpoch, kept>>
  BY DEF DownloadFails, DownloadBegins, DownloadCompletes, Watching
<1>2. Observing
  <2>1. op.begun = (IF op.guid = NoDownload THEN {} ELSE {op.guid})
    BY <1>1, Running DEF OpRight
  <2>2. CASE op' = Unobserved
    BY <1>1, <2>2, Running DEF Observing, Unobserved, Ops
  <2>3. ASSUME NEW d \in Downloads, op' = [op EXCEPT !.begun = {d}, !.guid = d]
        PROVE  Observing
    BY <1>1, <2>3, Running, NoDownloadIsNone DEF Observing, Ops
  <2>4. ASSUME NEW d \in Downloads, DownloadCompletes(d)
        PROVE  Observing
    BY ZenonT(60), <1>1, <2>1, <2>4, Running, NoDownloadIsNone DEF Observing, Ops, DownloadCompletes
  <2> QED
    BY <2>2, <2>3, <2>4 DEF DownloadFails, DownloadBegins
<1>3. OpRight(op')
  BY <1>1, <1>2, Running DEF Observing, OpRight
<1>4. RefKept(op', refEpoch) /\ FreshKept(op', tab, refEpoch)
  BY <1>1, <1>2, Running DEF Observing, RefKept, FreshKept
<1> QED
  BY <1>1, <1>2, <1>3, <1>4, Running, SameTabsAlike, TabsAlikeKeep, OwnStep DEF Observing, Types, kept

-----------------------------------------------------------------------------
(* The queue, the browser, and other calls *)

\* What is only true of an operation that runs is true of none.
LEMMA IdleKeeps ==
  ASSUME NEW o \in Ops, o.stage \in {"none", "sync", "syncTarget"}, o.mark = NoTab => o.token = 0,
         o.todo = <<>>, o.watch = "off", o.snapshot, ~o.fresh, o.result = "none",
         o.guid = NoDownload, o.begun = {}, NEW tabs, NEW epochs
  PROVE  OpRight(o) /\ RefKept(o, epochs) /\ FreshKept(o, tabs, epochs)
<1>1. OpRight(o)
  BY EmptyWellFormed DEF OpRight, Starting
<1>2. RefKept(o, epochs) /\ FreshKept(o, tabs, epochs)
  BY EmptyWellFormed DEF RefKept, FreshKept
<1> QED
  BY <1>1, <1>2

LEMMA NoOpIs ==
  /\ NoOp \in Ops /\ NoOp.stage = "none" /\ NoOp.todo = <<>> /\ NoOp.watch = "off" /\ NoOp.snapshot
  /\ ~NoOp.fresh /\ NoOp.result = "none" /\ NoOp.guid = NoDownload /\ NoOp.begun = {}
  /\ NoOp.token = 0
<1>1. <<>> \in Seq(StepNames)
  BY EmptySeq
<1> QED
  BY <1>1 DEF NoOp, Ops, Stages

LEMMA NoOpKeeps ==
  ASSUME NEW tabs, NEW epochs
  PROVE  OpRight(NoOp) /\ RefKept(NoOp, epochs) /\ FreshKept(NoOp, tabs, epochs)
BY NoOpIs, IdleKeeps

\* An operation that has only begun.
BegunOp(o) ==
  /\ o \in Ops /\ o.stage \in Starting /\ (o.mark = NoTab => o.token = 0)
  /\ o.todo # <<>> /\ WellFormed(o.todo) /\ EntersFirst(o.todo)
  /\ Has(o.todo, RefSteps) => o.ref # 0 /\ Has(o.todo, {"enter"})
  /\ o.watch = "off" /\ o.snapshot /\ ~o.fresh /\ o.result = "none"
  /\ o.begun = (IF o.guid = NoDownload THEN {} ELSE {o.guid})

LEMMA BegunIsRight ==
  ASSUME NEW o
  PROVE  /\ BegunOp(o) => OpRight(o)
         /\ OpRight(o) /\ o.stage \in Starting => BegunOp(o)
<1>1. BegunOp(o) => OpRight(o)
  BY DEF OpRight, BegunOp, Starting
<1>2. ASSUME OpRight(o), o.stage \in Starting
      PROVE  BegunOp(o)
  <2>1. o.stage \notin {"run", "finish"}
    BY <1>2 DEF Starting
  <2>2. o.watch = "off" /\ o.snapshot /\ ~o.fresh /\ o.result = "none"
    BY <1>2, <2>1 DEF OpRight
  <2>3. o.begun = (IF o.guid = NoDownload THEN {} ELSE {o.guid})
    BY <1>2, <2>1, <2>2 DEF OpRight
  <2> QED
    BY <1>2, <2>1, <2>2, <2>3 DEF OpRight, BegunOp
<1> QED
  BY <1>1, <1>2

LEMMA BegunKeeps ==
  ASSUME NEW o, BegunOp(o), NEW tabs, NEW epochs
  PROVE  OpRight(o) /\ RefKept(o, epochs) /\ FreshKept(o, tabs, epochs)
<1>1. RefKept(o, epochs) /\ FreshKept(o, tabs, epochs)
  BY DEF BegunOp, RefKept, FreshKept
<1> QED
  BY <1>1, BegunIsRight

\* Called leaves everything else as it is.
LEMMA CalledIs ==
  ASSUME NEW o, BegunOp(o)
  PROVE  /\ BegunOp(Called(o)) /\ Called(o).stage \in {"attach", "target"}
         /\ Called(o).mark = o.mark /\ Called(o).token = o.token
<1> DEFINE n == IF o.attach THEN "attach" ELSE "target"
<1>1. Called(o) = [o EXCEPT !.stage = n, !.attach = FALSE]
  BY DEF Called
<1>2. n \in {"attach", "target"} /\ n \in Stages /\ n \in Starting
  BY DEF Stages, Starting
<1> HIDE DEF n
<1>3. o \in Ops
  BY DEF BegunOp
<1>4. /\ Called(o) \in Ops /\ Called(o).stage = n
      /\ Called(o).mark = o.mark /\ Called(o).token = o.token /\ Called(o).ref = o.ref
      /\ Called(o).todo = o.todo /\ Called(o).watch = o.watch /\ Called(o).snapshot = o.snapshot
      /\ Called(o).fresh = o.fresh /\ Called(o).result = o.result
      /\ Called(o).guid = o.guid /\ Called(o).begun = o.begun
  BY ZenonT(60), <1>1, <1>2, <1>3 DEF Ops
<1>5. BegunOp(Called(o))
  BY <1>2, <1>4 DEF BegunOp
<1> QED
  BY <1>2, <1>4, <1>5

LEMMA BeginsWell ==
  ASSUME Inv, NEW kind \in Kinds, Begin(kind)
  PROVE  Inv'
<1>1. /\ op.stage = "none" /\ ops' = ops + 1
      /\ UNCHANGED <<tab, target, gone, operating, refEpoch, generation, selection, events>>
  BY DEF Begin
<1>2. Types /\ ops' \in Nat
  BY <1>1 DEF Inv, Types
<1> DEFINE begun(ref) == [NoOp EXCEPT !.attach = kind \in DialogAware, !.ref = ref, !.todo = Program[kind]]
<1>3. PICK ref \in IF kind \in TakesRef THEN 1..generation ELSE {0} :
        op' = IF target # NoTab /\ tab[target].open
              THEN [begun(ref) EXCEPT !.stage = "mark", !.token = ops', !.mark = target]
              ELSE Called(begun(ref))
  BY DEF Begin
<1>4. ref \in Nat /\ (kind \in TakesRef => ref # 0)
  BY <1>2, <1>3 DEF Types
<1>5. /\ Program[kind] \in Seq(StepNames) /\ Program[kind] # <<>> /\ WellFormed(Program[kind])
      /\ EntersFirst(Program[kind])
      /\ Has(Program[kind], RefSteps) => kind \in TakesRef /\ Has(Program[kind], {"enter"})
  BY ProgramsWellFormed, ProgramsEnterFirst DEF Kinds
<1> DEFINE p == Program[kind]
           aware == kind \in DialogAware
           marked == [[NoOp EXCEPT !.attach = aware, !.ref = ref, !.todo = p]
                        EXCEPT !.stage = "mark", !.token = ops', !.mark = target]
           unmarked == [NoOp EXCEPT !.attach = aware, !.ref = ref, !.todo = p]
<1>6. op' = IF target # NoTab /\ tab[target].open THEN marked ELSE Called(unmarked)
  BY <1>3
<1>7. /\ p \in Seq(StepNames) /\ p # <<>> /\ WellFormed(p) /\ EntersFirst(p)
      /\ Has(p, RefSteps) => kind \in TakesRef /\ Has(p, {"enter"})
  BY <1>5
<1>8. aware \in BOOLEAN
  OBVIOUS
<1> HIDE DEF p, aware
<1>9. target # NoTab => BegunOp(marked)
  <2> SUFFICES ASSUME target # NoTab
               PROVE  BegunOp(marked)
    OBVIOUS
  <2>1. marked = [NoOp EXCEPT !.attach = aware, !.ref = ref, !.todo = p,
                              !.stage = "mark", !.token = ops', !.mark = target]
    OBVIOUS
  <2>2. /\ marked \in Ops /\ marked.stage = "mark" /\ marked.mark = target /\ marked.ref = ref
        /\ marked.todo = p /\ marked.watch = "off" /\ marked.snapshot /\ ~marked.fresh
        /\ marked.result = "none" /\ marked.guid = NoDownload /\ marked.begun = {}
    <3>1. target \in Tabs
      BY <1>2 DEF Types
    <3>2. NoOp.watch = "off" /\ NoOp.snapshot /\ ~NoOp.fresh /\ NoOp.result = "none"
          /\ NoOp.guid = NoDownload /\ NoOp.begun = {} /\ NoOp \in Ops
      BY NoOpIs
    <3> HIDE DEF marked
    <3> QED
      BY ZenonT(60), <1>2, <1>4, <1>7, <1>8, <2>1, <3>1, <3>2 DEF Ops, Stages, Starting
  <2> HIDE DEF marked
  <2> QED
    BY <1>4, <1>7, <2>2 DEF BegunOp, Starting
<1>10. BegunOp(Called(unmarked))
  <2>1. unmarked \in Ops /\ unmarked.ref = ref /\ unmarked.todo = p
        /\ unmarked.mark = NoTab /\ unmarked.token = 0
        /\ unmarked.watch = "off" /\ unmarked.snapshot /\ ~unmarked.fresh
        /\ unmarked.result = "none" /\ unmarked.guid = NoDownload /\ unmarked.begun = {}
    <3>1. NoOp \in Ops /\ NoOp.mark = NoTab
      BY NoOpIs DEF NoOp
    <3>2. unmarked = [NoOp EXCEPT !.attach = aware, !.ref = ref, !.todo = p]
      OBVIOUS
    <3> HIDE DEF unmarked
    <3> QED
      BY ZenonT(60), <1>4, <1>7, <1>8, <3>1, <3>2, NoOpIs DEF Ops
  <2> HIDE DEF unmarked
  <2> DEFINE n == IF unmarked.attach THEN "attach" ELSE "target"
             c == [unmarked EXCEPT !.stage = n, !.attach = FALSE]
  <2>2. Called(unmarked) = c
    BY DEF Called
  <2>3. n \in {"attach", "target"}
    OBVIOUS
  <2> HIDE DEF n
  <2>4. c = [unmarked EXCEPT !.stage = n, !.attach = FALSE]
    OBVIOUS
  <2> HIDE DEF c
  <2>5. /\ c \in Ops /\ c.stage = n /\ c.mark = NoTab /\ c.token = 0 /\ c.ref = ref
        /\ c.todo = p /\ c.watch = "off" /\ c.snapshot /\ ~c.fresh
        /\ c.result = "none" /\ c.guid = NoDownload /\ c.begun = {}
    <3>1. n \in Stages
      BY <2>3 DEF Stages, Starting
    <3>2. c \in Ops /\ c.stage = n
      BY ZenonT(60), <2>1, <2>4, <3>1 DEF Ops
    <3>3. /\ c.mark = unmarked.mark /\ c.token = unmarked.token /\ c.ref = unmarked.ref
          /\ c.todo = unmarked.todo /\ c.watch = unmarked.watch /\ c.snapshot = unmarked.snapshot
          /\ c.fresh = unmarked.fresh /\ c.result = unmarked.result
          /\ c.guid = unmarked.guid /\ c.begun = unmarked.begun
      BY <2>1, <2>4 DEF Ops
    <3> QED
      BY <2>1, <3>2, <3>3
  <2>6. BegunOp(c)
    BY <1>4, <1>7, <2>3, <2>5 DEF BegunOp, Starting
  <2> QED
    BY <2>2, <2>6
<1> HIDE DEF marked, unmarked
<1>11. BegunOp(op')
  BY <1>6, <1>9, <1>10
<1>12. OpRight(op') /\ RefKept(op', refEpoch') /\ FreshKept(op', tab', refEpoch')
  BY <1>11, BegunKeeps
<1>13. Types'
  BY <1>1, <1>2, <1>12 DEF Types, OpRight
<1>14. EpochsGiven' /\ GoneIsClosed'
  BY <1>1, SameTabsAlike, TabsAlikeKeep
<1>15. MarkNamesTheRunner'
  BY <1>1 DEF Inv, MarkNamesTheRunner, NotOperating
<1> QED
  BY <1>12, <1>13, <1>14, <1>15 DEF Inv

LEMMA MarksWell ==
  ASSUME Inv, Mark
  PROVE  Inv'
<1>1. /\ op.stage = "mark" /\ operating' = [tab |-> op.mark, token |-> op.token]
      /\ op' = [op EXCEPT !.stage = "begin"]
      /\ UNCHANGED <<tab, target, gone, refEpoch, generation, selection, ops, events>>
  BY DEF Mark
<1>2. Types /\ op \in Ops /\ BegunOp(op)
  BY <1>1, BegunIsRight DEF Inv, Types, Starting
<1>3. /\ op' \in Ops /\ op'.stage = "begin" /\ op'.mark = op.mark /\ op'.token = op.token
      /\ op'.ref = op.ref /\ op'.todo = op.todo /\ op'.watch = op.watch /\ op'.snapshot = op.snapshot
      /\ op'.fresh = op.fresh /\ op'.result = op.result /\ op'.guid = op.guid /\ op'.begun = op.begun
  BY <1>1, <1>2 DEF Ops, Stages, Starting
<1>4. BegunOp(op')
  BY <1>2, <1>3 DEF BegunOp, Starting
<1>5. OpRight(op') /\ RefKept(op', refEpoch') /\ FreshKept(op', tab', refEpoch')
  BY <1>4, BegunKeeps
<1>6. operating' \in [tab : Tabs \cup {NoTab}, token : Nat]
  BY <1>1, <1>2 DEF Ops
<1>7. Types'
  BY <1>1, <1>2, <1>3, <1>6 DEF Types
<1>8. EpochsGiven' /\ GoneIsClosed'
  BY <1>1, SameTabsAlike, TabsAlikeKeep
<1>9. MarkNamesTheRunner'
  BY <1>1, <1>3 DEF MarkNamesTheRunner
<1> QED
  BY <1>5, <1>7, <1>8, <1>9 DEF Inv

\* A step that only changes what the tabs show, while the operation has no less of
\* its own than before.
LEMMA TabStep ==
  ASSUME Inv, TabsAlike, UNCHANGED <<refEpoch, operating, generation, ops, events>>,
         target' \in Tabs \cup {NoTab}, gone' \in {gone, NoTab}, selection' \in Seq(Tabs),
         OpRight(op'), RefKept(op', refEpoch), FreshKept(op', tab, refEpoch),
         MarkNamesTheRunner'
  PROVE  Inv'
<1>1. Types'
  BY DEF Inv, Types, TabsAlike, OpRight
<1>2. RefKept(op', refEpoch') /\ FreshKept(op', tab', refEpoch')
  BY TabsAlikeKeepFresh
<1> QED
  BY <1>1, <1>2, TabsAlikeKeep DEF Inv

LEMMA BeginSyncsWell ==
  ASSUME Inv, BeginSync
  PROVE  Inv'
<1>1. /\ op.stage = "begin" /\ SyncUi(op.mark) /\ op' = Called(op)
      /\ UNCHANGED <<target, gone, operating, refEpoch, generation, selection, ops, events>>
  BY DEF BeginSync
<1>2. Types /\ op \in Ops /\ BegunOp(op)
  BY <1>1, BegunIsRight DEF Inv, Types, Starting
<1>3. /\ BegunOp(op') /\ op'.stage \in {"attach", "target"}
      /\ op'.mark = op.mark /\ op'.token = op.token
  BY <1>1, <1>2, CalledIs
<1>4. OpRight(op') /\ RefKept(op', refEpoch) /\ FreshKept(op', tab, refEpoch)
  BY <1>3, BegunKeeps
<1>5. MarkNamesTheRunner'
  BY <1>1, <1>3 DEF Inv, MarkNamesTheRunner, NotOperating
<1>6. TabsAlike
  BY <1>1, <1>2, SyncUiAlike DEF Ops
<1> QED
  BY <1>1, <1>2, <1>4, <1>5, <1>6, TabStep DEF Types

\* An operation that finds no target is over.
LEMMA StartFails ==
  ASSUME Inv, op.stage \in {"attach", "target"}, op' = Fails(op, "error"),
         UNCHANGED <<tab, target, gone, operating, refEpoch, generation, selection, ops, events>>
  PROVE  Inv'
<1>1. Types /\ op \in Ops /\ BegunOp(op)
  BY BegunIsRight DEF Inv, Types, Starting
<1>2. op.watch = "off" /\ (op.mark = NoTab => op.token = 0)
  BY <1>1 DEF BegunOp
<1>3. /\ OpRight(op') /\ RefKept(op', refEpoch) /\ FreshKept(op', tab, refEpoch)
      /\ op'.stage = "finish" /\ op'.mark = op.mark /\ op'.token = op.token
  BY <1>1, <1>2, FailsOut, FailsOutKeeps
<1>4. MarkNamesTheRunner'
  BY <1>3 DEF Inv, MarkNamesTheRunner, NotOperating
<1> QED
  BY <1>1, <1>3, <1>4, SameTabsAlike, TabStep DEF Types

LEMMA AttachesWell ==
  ASSUME Inv, Attach
  PROVE  Inv'
<1>1. /\ op.stage = "attach"
      /\ UNCHANGED <<tab, target, gone, operating, refEpoch, generation, selection, ops, events>>
  BY DEF Attach
<1>2. Types /\ op \in Ops /\ BegunOp(op)
  BY <1>1, BegunIsRight DEF Inv, Types, Starting
<1>3. CASE op' = Fails(op, "error")
  BY <1>1, <1>3, StartFails
<1>4. CASE op' = [op EXCEPT !.stage = "target", !.session = target]
  <2>1. /\ op' \in Ops /\ op'.stage = "target" /\ op'.mark = op.mark /\ op'.token = op.token
        /\ op'.ref = op.ref /\ op'.todo = op.todo /\ op'.watch = op.watch /\ op'.snapshot = op.snapshot
        /\ op'.fresh = op.fresh /\ op'.result = op.result /\ op'.guid = op.guid /\ op'.begun = op.begun
    BY <1>2, <1>4 DEF Ops, Stages, Starting, Types
  <2>2. BegunOp(op')
    BY <1>2, <2>1 DEF BegunOp, Starting
  <2>3. OpRight(op') /\ RefKept(op', refEpoch) /\ FreshKept(op', tab, refEpoch)
    BY <2>2, BegunKeeps
  <2>4. MarkNamesTheRunner'
    BY <1>1, <2>1 DEF Inv, MarkNamesTheRunner, NotOperating
  <2> QED
    BY <1>1, <1>2, <2>3, <2>4, SameTabsAlike, TabStep DEF Types
<1> QED
  BY <1>3, <1>4 DEF Attach

LEMMA ReadsTargetWell ==
  ASSUME Inv, ReadTarget
  PROVE  Inv'
<1>1. /\ op.stage = "target"
      /\ UNCHANGED <<tab, target, gone, operating, refEpoch, generation, selection, ops, events>>
  BY DEF ReadTarget
<1>2. Types /\ op \in Ops /\ BegunOp(op)
  BY <1>1, BegunIsRight DEF Inv, Types, Starting
<1>3. CASE op' = Fails(op, "error")
  BY <1>1, <1>3, StartFails
<1>4. CASE HasTarget /\ op' = [op EXCEPT !.stage = "run", !.tab = target]
  <2>1. target \in Tabs
    BY <1>2, <1>4 DEF HasTarget, Types
  <2>2. /\ op' \in Ops /\ op'.stage = "run" /\ op'.tab = target
        /\ op'.mark = op.mark /\ op'.token = op.token
        /\ op'.ref = op.ref /\ op'.todo = op.todo /\ op'.watch = op.watch /\ op'.snapshot = op.snapshot
        /\ op'.fresh = op.fresh /\ op'.result = op.result /\ op'.guid = op.guid /\ op'.begun = op.begun
    BY <1>2, <1>4, <2>1 DEF Ops, Stages
  <2>3. OpRight(op')
    BY <1>2, <2>1, <2>2 DEF BegunOp, OpRight, Starting
  <2>4. RefKept(op', refEpoch) /\ FreshKept(op', tab, refEpoch)
    BY <1>2, <2>2 DEF BegunOp, RefKept, FreshKept
  <2>5. MarkNamesTheRunner'
    BY <1>1, <2>2 DEF Inv, MarkNamesTheRunner, NotOperating
  <2> QED
    BY <1>1, <1>2, <2>3, <2>4, <2>5, SameTabsAlike, TabStep DEF Types
<1> QED
  BY <1>3, <1>4 DEF ReadTarget

LEMMA FinishesWell ==
  ASSUME Inv, Finish
  PROVE  Inv'
<1>1. /\ op.stage = "finish" /\ UNCHANGED <<tab, target, gone, refEpoch, generation, selection, ops, events>>
  BY DEF Finish
<1>2. Types /\ op \in Ops /\ op.mark \in Tabs \cup {NoTab} /\ (op.mark = NoTab => op.token = 0)
  BY <1>1 DEF Inv, OpRight, Ops
<1>3. (op.mark # NoTab /\ op' = [NoOp EXCEPT !.stage = "sync", !.mark = op.mark]) \/ op' = NoOp
  BY DEF Finish
<1>4. operating' = NotOperating
  <2>1. operating # NotOperating => operating = [tab |-> op.mark, token |-> op.token]
    BY DEF Inv, MarkNamesTheRunner
  <2>2. operating # NotOperating => op.mark # NoTab /\ operating.token = op.token
    BY <1>2, <2>1 DEF NotOperating
  <2> QED
    BY <2>2 DEF Finish
<1>5. OpRight(op') /\ RefKept(op', refEpoch') /\ FreshKept(op', tab', refEpoch')
  <2>1. CASE op.mark # NoTab /\ op' = [NoOp EXCEPT !.stage = "sync", !.mark = op.mark]
    <3>1. /\ op' \in Ops /\ op'.stage = "sync" /\ op'.mark = op.mark
          /\ op'.todo = <<>> /\ op'.watch = "off" /\ op'.snapshot /\ ~op'.fresh /\ op'.result = "none"
          /\ op'.guid = NoDownload /\ op'.begun = {}
      BY ZenonT(60), <1>2, <2>1, NoOpIs DEF Ops, Stages
    <3>2. op'.mark = NoTab => op'.token = 0
      BY <2>1, <3>1
    <3> QED
      BY <3>1, <3>2, IdleKeeps
  <2>2. CASE op' = NoOp
    BY <2>2, NoOpKeeps
  <2> QED
    BY <1>3, <2>1, <2>2
<1>6. Types'
  BY <1>1, <1>2, <1>4, <1>5 DEF Types, OpRight, NotOperating
<1>7. EpochsGiven' /\ GoneIsClosed'
  BY <1>1, SameTabsAlike, TabsAlikeKeep
<1>8. MarkNamesTheRunner'
  BY <1>4 DEF MarkNamesTheRunner
<1> QED
  BY <1>5, <1>6, <1>7, <1>8 DEF Inv

LEMMA FinishSyncsWell ==
  ASSUME Inv, FinishSync
  PROVE  Inv'
<1>1. /\ op.stage \in {"sync", "syncTarget"}
      /\ UNCHANGED <<target, gone, operating, refEpoch, generation, selection, ops, events>>
  BY DEF FinishSync
<1>2. Types /\ op \in Ops /\ op.mark \in Tabs \cup {NoTab} /\ operating = NotOperating
  BY <1>1 DEF Inv, OpRight, MarkNamesTheRunner, Ops
<1>3. OpRight(op') /\ RefKept(op', refEpoch) /\ FreshKept(op', tab, refEpoch)
  <2>1. CASE op' = NoOp
    BY <2>1, NoOpKeeps
  <2>2. CASE op' = [op EXCEPT !.stage = "syncTarget"]
    <3>1. OpRight(op) /\ RefKept(op, refEpoch) /\ FreshKept(op, tab, refEpoch)
      BY DEF Inv
    <3>2. /\ op' \in Ops /\ op'.stage = "syncTarget" /\ op'.token = op.token /\ op'.mark = op.mark /\ op'.tab = op.tab
          /\ op'.ref = op.ref /\ op'.todo = op.todo /\ op'.epoch = op.epoch /\ op'.fresh = op.fresh
          /\ op'.watch = op.watch /\ op'.guid = op.guid /\ op'.begun = op.begun /\ op'.ended = op.ended
          /\ op'.snapshot = op.snapshot /\ op'.result = op.result
      BY <1>2, <2>2 DEF Ops, Stages
    <3>3. OpRight(op')
      BY <1>1, <3>1, <3>2 DEF OpRight, Starting
    <3>4. RefKept(op', refEpoch) /\ FreshKept(op', tab, refEpoch)
      BY <3>1, <3>2 DEF RefKept, FreshKept
    <3> QED
      BY <3>3, <3>4
  <2> QED
    BY <2>1, <2>2 DEF FinishSync
<1>4. TabsAlike
  <2>1. SyncUi(op.mark) \/ SyncUi(target)
    BY DEF FinishSync
  <2> QED
    BY <1>2, <2>1, SyncUiAlike DEF Types
<1>5. MarkNamesTheRunner'
  BY <1>1, <1>2 DEF MarkNamesTheRunner
<1> QED
  BY <1>1, <1>2, <1>3, <1>4, <1>5, TabStep DEF Types

\* What changes a tab, or where the page's elements are, and not the operation.
LEMMA WorldStep ==
  ASSUME Inv, TabsAlike, UNCHANGED <<refEpoch, operating, generation, op, ops, target, gone>>,
         selection' \in Seq(Tabs), events' \in Nat
  PROVE  Inv'
<1>1. Types'
  BY DEF Inv, Types, TabsAlike
<1>2. RefKept(op', refEpoch') /\ FreshKept(op', tab', refEpoch')
  BY TabsAlikeKeepFresh DEF Inv
<1>3. OpRight(op') /\ MarkNamesTheRunner'
  BY DEF Inv, MarkNamesTheRunner
<1> QED
  BY <1>1, <1>2, <1>3, TabsAlikeKeep DEF Inv

LEMMA NavAlike ==
  ASSUME Inv, NEW t \in Tabs, NEW nav \in {"idle", "started", "loading"},
         tab' = [tab EXCEPT ![t].nav = nav]
  PROVE  TabsAlike
<1> DEFINE s == [tab[t] EXCEPT !.nav = nav]
<1>1. tab[t] \in TabStates
  BY DEF Inv, Types
<1>2. tab' = [tab EXCEPT ![t] = s]
  OBVIOUS
<1>3. s \in TabStates /\ s.open = tab[t].open /\ s.doc = tab[t].doc /\ s.back = tab[t].back
  BY <1>1 DEF TabStates
<1> QED
  BY <1>2, <1>3, OneTabAlike

LEMMA TabsChangeWell ==
  ASSUME Inv, NEW t \in Tabs, StartNavigation(t) \/ Settle(t) \/ DocumentIdle(t)
  PROVE  Inv'
<1>1. /\ UNCHANGED <<target, gone, operating, refEpoch, generation, op, selection, ops>>
      /\ events' \in {events, events + 1}
  BY DEF StartNavigation, Settle, DocumentIdle, Event, kept
<1>2. events' \in Nat /\ selection' \in Seq(Tabs)
  BY <1>1 DEF Inv, Types
<1>3. TabsAlike
  BY NavAlike, InjectedAlike DEF StartNavigation, Settle, DocumentIdle
<1> QED
  BY <1>1, <1>2, <1>3, WorldStep

LEMMA SelectionSyncsWell ==
  ASSUME Inv, SyncSelection
  PROVE  Inv'
<1>1. /\ selection \in Seq(Tabs) /\ selection # <<>> /\ SyncUi(Head(selection))
      /\ selection' = Tail(selection)
      /\ UNCHANGED <<target, gone, operating, refEpoch, generation, op, ops, events>>
  BY DEF SyncSelection, Inv, Types
<1>2. Head(selection) \in Tabs /\ selection' \in Seq(Tabs)
  BY <1>1
<1>3. TabsAlike
  BY <1>1, <1>2, SyncUiAlike
<1>4. events' \in Nat
  BY <1>1 DEF Inv, Types
<1> QED
  BY <1>1, <1>2, <1>3, <1>4, WorldStep

\* An operation of which only the page's own movements are forgotten, and perhaps that
\* its snapshot is of the document that is there.
SeesMuch(o, p) ==
  /\ p \in Ops
  /\ p.stage = o.stage /\ p.token = o.token /\ p.mark = o.mark /\ p.tab = o.tab /\ p.ref = o.ref /\ p.todo = o.todo
  /\ p.epoch = o.epoch /\ p.watch = o.watch /\ p.guid = o.guid
  /\ p.begun = o.begun /\ p.ended = o.ended /\ p.snapshot = o.snapshot /\ p.result = o.result
  /\ ~p.fresh

LEMMA SeesKeeps ==
  ASSUME NEW o, NEW p, SeesMuch(o, p), OpRight(o), NEW tabs, NEW epochs, NEW before,
         RefKept(o, before), epochs[o.tab] \in {0, before[o.tab]}
  PROVE  OpRight(p) /\ RefKept(p, epochs) /\ FreshKept(p, tabs, epochs)
<1>1. OpRight(p)
  BY DEF SeesMuch, OpRight
<1>2. RefKept(p, epochs) /\ FreshKept(p, tabs, epochs)
  BY DEF SeesMuch, RefKept, FreshKept
<1> QED
  BY <1>1, <1>2

\* An operation that relies on the state of a tab has one.
LEMMA HasItsTab ==
  ASSUME NEW o, OpRight(o)
  PROVE  /\ Has(o.todo, RefSteps) /\ ~Has(o.todo, {"enter"}) => o.tab \in Tabs
         /\ o.fresh => o.tab \in Tabs
<1>1. o.stage \notin Starting \cup {"run"} => ~Has(o.todo, RefSteps)
  BY EmptyWellFormed DEF OpRight
<1> QED
  BY <1>1 DEF OpRight

\* The document of a tab goes, with its refs.
LEMMA DocumentGoesWell ==
  ASSUME Inv, NEW t \in Tabs, NEW s \in TabStates, Given(s.doc), Given(s.back),
         s.open => tab[t].open,
         tab' = [tab EXCEPT ![t] = s], refEpoch' = [refEpoch EXCEPT ![t] = 0],
         IF op.tab = t THEN SeesMuch(op, op') ELSE op' = op,
         UNCHANGED <<target, gone, operating, generation, selection, ops>>, events' \in Nat
  PROVE  Inv'
<1>1. Types /\ EpochsGiven /\ OpRight(op) /\ RefKept(op, refEpoch) /\ FreshKept(op, tab, refEpoch)
  BY DEF Inv
<1>2. /\ tab' \in [Tabs -> TabStates] /\ tab'[t] = s /\ \A u \in Tabs : u # t => tab'[u] = tab[u]
      /\ refEpoch' \in [Tabs -> Nat] /\ refEpoch'[t] = 0
      /\ \A u \in Tabs : u # t => refEpoch'[u] = refEpoch[u]
  BY <1>1 DEF Types
<1>3. EpochsGiven'
  BY <1>1, <1>2 DEF EpochsGiven, Given
<1>4. GoneIsClosed'
  BY <1>1, <1>2 DEF Inv, GoneIsClosed, Types
<1>5. OpRight(op') /\ RefKept(op', refEpoch') /\ FreshKept(op', tab', refEpoch')
  <2>1. CASE op.tab = t
    <3>1. SeesMuch(op, op') /\ refEpoch'[op.tab] \in {0, refEpoch[op.tab]}
      BY <1>2, <2>1
    <3> QED
      BY <1>1, <3>1, SeesKeeps
  <2>2. CASE op.tab # t
    <3>1. /\ Has(op.todo, RefSteps) /\ ~Has(op.todo, {"enter"}) => op.tab \in Tabs
          /\ op.fresh => op.tab \in Tabs
      BY <1>1, HasItsTab
    <3>2. RefKept(op, refEpoch')
      BY <1>1, <1>2, <2>2, <3>1 DEF RefKept
    <3>3. FreshKept(op, tab', refEpoch')
      BY <1>1, <1>2, <2>2, <3>1 DEF FreshKept
    <3> QED
      BY <1>1, <2>2, <3>2, <3>3
  <2> QED
    BY <2>1, <2>2
<1>6. MarkNamesTheRunner'
  <2>1. op'.stage = op.stage /\ op'.mark = op.mark /\ op'.token = op.token
    BY DEF SeesMuch
  <2> QED
    BY <2>1 DEF Inv, MarkNamesTheRunner, NotOperating
<1>7. Types'
  BY <1>1, <1>2, <1>5 DEF Types, OpRight
<1> QED
  BY <1>3, <1>4, <1>5, <1>6, <1>7 DEF Inv

LEMMA CommitsWell ==
  ASSUME Inv, NEW t \in Tabs, Commit(t)
  PROVE  Inv'
<1>1. /\ refEpoch' = [refEpoch EXCEPT ![t] = 0]
      /\ UNCHANGED <<target, gone, operating, generation, selection, ops, events>>
  BY DEF Commit, kept
<1>2. /\ tab \in [Tabs -> TabStates] /\ tab[t] \in TabStates /\ op \in Ops /\ events' \in Nat
      /\ Given(tab[t].doc) /\ Given(tab[t].back)
  BY <1>1 DEF Inv, Types, EpochsGiven
<1>3. NoDocument \in Documents /\ Given(NoDocument)
  BY DEF NoDocument, Document, Documents, Given, Uis
<1>4. PICK restored \in {FALSE, tab[t].left}, cached \in BOOLEAN :
        tab' = [tab EXCEPT ![t].doc = IF restored THEN tab[t].back ELSE NoDocument,
                           ![t].back = IF cached THEN tab[t].doc ELSE NoDocument,
                           ![t].left = cached,
                           ![t].nav = IF restored THEN "idle" ELSE "loading"]
  BY DEF Commit
<1> DEFINE doc == IF restored THEN tab[t].back ELSE NoDocument
           back == IF cached THEN tab[t].doc ELSE NoDocument
           nav == IF restored THEN "idle" ELSE "loading"
           s == [tab[t] EXCEPT !.doc = doc, !.back = back, !.left = cached, !.nav = nav]
<1>5. doc \in Documents /\ back \in Documents /\ Given(doc) /\ Given(back)
  BY <1>2, <1>3 DEF TabStates
<1>6. nav \in {"idle", "started", "loading"}
  OBVIOUS
<1>7. tab' = [tab EXCEPT ![t] = s]
  BY <1>2, <1>4
<1> HIDE DEF doc, back, nav
<1>8. s \in TabStates /\ s.doc = doc /\ s.back = back /\ s.open = tab[t].open
  BY <1>2, <1>5, <1>6 DEF TabStates
<1> HIDE DEF s
<1>9. PICK sameUrl \in BOOLEAN : op' = SeesCommit(t, sameUrl)
  BY DEF Commit
<1>10. CASE op.tab = t
  <2> DEFINE url == Step("compare") => sameUrl
             committed == Step("navigate") \/ Step("commit")
  <2>1. url \in BOOLEAN /\ committed \in BOOLEAN
    BY Zenon DEF Step
  <2>2. op' = [[op EXCEPT !.url = url, !.committed = committed] EXCEPT !.fresh = FALSE, !.point = FALSE]
    BY <1>9, <1>10 DEF SeesCommit, SeesUrl
  <2> HIDE DEF url, committed
  <2>3. SeesMuch(op, op')
    BY ZenonT(60), <1>2, <2>1, <2>2 DEF SeesMuch, Ops
  <2> QED
    BY <1>1, <1>2, <1>5, <1>7, <1>8, <1>10, <2>3, DocumentGoesWell
<1>11. CASE op.tab # t
  <2>1. op' = op
    BY <1>9, <1>11 DEF SeesCommit
  <2> QED
    BY <1>1, <1>2, <1>5, <1>7, <1>8, <1>11, <2>1, DocumentGoesWell
<1> QED
  BY <1>10, <1>11

LEMMA ClosesWell ==
  ASSUME Inv, NEW t \in Tabs, CloseTab(t)
  PROVE  Inv'
<1>1. /\ refEpoch' = [refEpoch EXCEPT ![t] = 0] /\ tab' = [tab EXCEPT ![t] = Closed]
      /\ UNCHANGED <<target, gone, operating, generation, selection, ops>> /\ events' = events + 1
      /\ op' = IF op.tab = t THEN [op EXCEPT !.fresh = FALSE] ELSE op
  BY DEF CloseTab, Event
<1>2. op \in Ops /\ events' \in Nat
  BY <1>1 DEF Inv, Types
<1>3. NoDocument \in Documents /\ Given(NoDocument)
  BY DEF NoDocument, Document, Documents, Given, Uis
<1>4. Closed \in TabStates /\ Closed.doc = NoDocument /\ Closed.back = NoDocument /\ ~Closed.open
  BY <1>3 DEF Closed, Fresh, TabStates
<1>5. op.tab = t => SeesMuch(op, op')
  BY <1>1, <1>2 DEF SeesMuch, Ops
<1> QED
  BY <1>1, <1>2, <1>3, <1>4, <1>5, DocumentGoesWell

LEMMA PageChangesWell ==
  ASSUME Inv, UrlChanges \/ PageMoves
  PROVE  Inv'
<1>1. UNCHANGED <<tab, refEpoch, target, gone, operating, generation, selection, ops, events>>
  BY DEF UrlChanges, PageMoves, kept
<1>2. OpRight(op) /\ RefKept(op, refEpoch) /\ FreshKept(op, tab, refEpoch) /\ Types /\ op \in Ops
  BY DEF Inv, Types
<1>3. Alike(op, op')
  <2>1. CASE PageMoves
    BY <1>2, <2>1 DEF PageMoves, Alike, Ops
  <2>2. CASE UrlChanges
    <3> DEFINE url == Step("compare") => FALSE
               committed == Step("navigate") \/ Step("commit")
    <3>1. url \in BOOLEAN /\ committed \in BOOLEAN
      BY Zenon DEF Step
    <3>2. op' = [op EXCEPT !.url = url, !.committed = committed]
      BY <2>2 DEF UrlChanges, SeesUrl
    <3> HIDE DEF url, committed
    <3> QED
      BY ZenonT(60), <1>2, <3>1, <3>2 DEF Alike, Ops
  <2> QED
    BY <2>1, <2>2
<1>4. OpRight(op') /\ RefKept(op', refEpoch) /\ FreshKept(op', tab, refEpoch)
  BY <1>2, <1>3, AlikeKeeps
<1>5. MarkNamesTheRunner'
  BY <1>1, <1>3 DEF Inv, Alike, MarkNamesTheRunner, NotOperating
<1> QED
  BY <1>1, <1>2, <1>4, <1>5, SameTabsAlike, TabStep DEF Types

LEMMA TargetsWell ==
  ASSUME Inv, ReadGone \/ \E t \in Tabs : SelectTab(t)
  PROVE  Inv'
<1>1. UNCHANGED <<tab, operating, refEpoch, generation, op, ops>>
  BY DEF ReadGone, SelectTab
<1>2. Types'
  <2>1. CASE ReadGone
    BY <1>1, <2>1 DEF Inv, Types, ReadGone
  <2>2. ASSUME NEW t \in Tabs, SelectTab(t)
        PROVE  Types'
    <3>1. target' = t /\ gone' = gone /\ events' \in {events, events + 1}
      BY <2>2 DEF SelectTab, Event
    <3>2. selection' = IF target \in {t, NoTab} THEN <<t>> ELSE <<target, t>>
      BY <2>2 DEF SelectTab
    <3>3. selection' \in Seq(Tabs)
      <4>1. CASE target \in {t, NoTab}
        BY <3>2, <4>1
      <4>2. CASE target \notin {t, NoTab}
        <5>1. target \in Tabs /\ selection' = <<target, t>>
          BY <3>2, <4>2 DEF Inv, Types
        <5> QED
          BY <5>1
      <4> QED
        BY <4>1, <4>2
    <3> QED
      BY <1>1, <3>1, <3>3 DEF Inv, Types
  <2> QED
    BY <2>1, <2>2
<1>3. GoneIsClosed'
  BY <1>1 DEF Inv, GoneIsClosed, ReadGone, SelectTab
<1>4. /\ EpochsGiven' /\ OpRight(op') /\ RefKept(op', refEpoch') /\ FreshKept(op', tab', refEpoch')
      /\ MarkNamesTheRunner'
  BY <1>1, SameTabsAlike, TabsAlikeKeep DEF Inv, MarkNamesTheRunner
<1> QED
  BY <1>2, <1>3, <1>4 DEF Inv

LEMMA RemovesGoneWell ==
  ASSUME Inv, RemoveGone
  PROVE  Inv'
<1>1. /\ gone \in Tabs /\ target' = NoTab /\ operating' = NotOperating /\ gone' = NoTab
      /\ refEpoch' = [refEpoch EXCEPT ![gone] = 0] /\ ~tab[gone].open
      /\ UNCHANGED <<tab, generation, op, selection, ops, events>>
  BY DEF RemoveGone, Inv, Types, GoneIsClosed
<1>2. /\ refEpoch' \in [Tabs -> Nat] /\ refEpoch'[gone] = 0
      /\ \A u \in Tabs : u # gone => refEpoch'[u] = refEpoch[u]
  BY <1>1 DEF Inv, Types
<1>3. OpRight(op) /\ RefKept(op, refEpoch) /\ FreshKept(op, tab, refEpoch)
  BY DEF Inv
<1>4. /\ Has(op.todo, RefSteps) /\ ~Has(op.todo, {"enter"}) => op.tab \in Tabs
      /\ op.fresh => op.tab \in Tabs
  BY <1>3, HasItsTab
<1>5. RefKept(op, refEpoch')
  BY <1>2, <1>3, <1>4 DEF RefKept
<1>6. FreshKept(op, tab, refEpoch')
  BY <1>1, <1>2, <1>3, <1>4 DEF FreshKept
<1>7. Types'
  BY <1>1, <1>2 DEF Inv, Types, NotOperating
<1>8. EpochsGiven' /\ GoneIsClosed' /\ MarkNamesTheRunner'
  BY <1>1, SameTabsAlike, TabsAlikeKeep DEF MarkNamesTheRunner
<1> QED
  BY <1>1, <1>3, <1>5, <1>6, <1>7, <1>8 DEF Inv

LEMMA RestartsWell ==
  ASSUME Inv, Restart
  PROVE  Inv'
<1>1. /\ op' = NoOp /\ operating' = NotOperating /\ gone' = NoTab /\ events' = events + 1
      /\ selection' = (IF target = NoTab THEN <<>> ELSE <<target>>)
      /\ UNCHANGED <<tab, target, refEpoch, generation, ops>>
  BY DEF Restart, Event
<1>2. selection' \in Seq(Tabs)
  BY <1>1, EmptySeq DEF Inv, Types
<1>3. Types'
  BY <1>1, <1>2, NoOpIs DEF Inv, Types, NotOperating
<1>4. EpochsGiven' /\ GoneIsClosed' /\ MarkNamesTheRunner'
  BY <1>1, SameTabsAlike, TabsAlikeKeep DEF MarkNamesTheRunner
<1> QED
  BY <1>1, <1>3, <1>4, NoOpKeeps DEF Inv

LEMMA InvInit ==
  ASSUME Init
  PROVE  Inv
<1>1. NoDocument \in Documents /\ Given(NoDocument) /\ Document(TRUE) \in Documents /\ Given(Document(TRUE))
  BY DEF NoDocument, Document, Documents, Given, Uis
<1>2. Fresh \in TabStates /\ Fresh.doc = Document(TRUE) /\ Fresh.back = NoDocument
  BY <1>1 DEF Fresh, TabStates
<1>3. <<>> \in Seq(Tabs)
  BY EmptySeq
<1>4. Types
  BY <1>2, <1>3, NoOpIs DEF Init, Types, NotOperating
<1>5. EpochsGiven /\ GoneIsClosed /\ MarkNamesTheRunner
  BY <1>1, <1>2 DEF Init, EpochsGiven, GoneIsClosed, MarkNamesTheRunner
<1> QED
  BY <1>4, <1>5, NoOpKeeps DEF Init, Inv

LEMMA InvNext ==
  ASSUME Inv, [Next]_vars
  PROVE  Inv'
<1>1. ASSUME NEW kind \in Kinds, Begin(kind)
      PROVE  Inv'
  BY <1>1, BeginsWell
<1>2. CASE Mark \/ BeginSync \/ Attach \/ ReadTarget \/ Finish \/ FinishSync
  BY <1>2, MarksWell, BeginSyncsWell, AttachesWell, ReadsTargetWell, FinishesWell, FinishSyncsWell
<1>3. CASE \/ Check \/ Press \/ Move \/ DragAndDrop \/ Chord \/ PrepareOptions \/ Perform
           \/ Choose \/ AwaitText \/ Shoot \/ Resize \/ Listen \/ Loaded
  BY <1>3, PlainSteps
<1>4. CASE Enter \/ Prepare \/ Verify \/ ClickDownload \/ Leave \/ AskToNavigate \/ AwaitCommit
  BY <1>4, EntersWell, PreparesWell, VerifiesWell, ClicksWell, LeavesWell, NavigatesWell
<1>5. CASE ReadEpoch \/ Generate \/ Compare \/ Store \/ Settled
  BY <1>5, ReadsWell, GeneratesWell, ComparesWell, StoresWell, SettlesWell
<1>6. CASE DownloadFails \/ \E d \in Downloads : DownloadBegins(d) \/ DownloadCompletes(d)
  BY <1>6, ObservesWell
<1>7. ASSUME NEW t \in Tabs,
             \/ StartNavigation(t) \/ Commit(t) \/ Settle(t) \/ DocumentIdle(t)
             \/ CloseTab(t) \/ SelectTab(t)
      PROVE  Inv'
  BY <1>7, TabsChangeWell, CommitsWell, ClosesWell, TargetsWell
<1>8. CASE UrlChanges \/ PageMoves \/ ReadGone \/ RemoveGone \/ SyncSelection \/ Restart
  BY <1>8, PageChangesWell, TargetsWell, RemovesGoneWell, SelectionSyncsWell, RestartsWell
<1>9. CASE UNCHANGED vars
  <2>1. op' = op /\ UNCHANGED <<tab, refEpoch, target, gone, operating, generation, selection, ops, events>>
    BY <1>9 DEF vars
  <2> QED
    BY <2>1 DEF Inv, Types, EpochsGiven, Given, GoneIsClosed, MarkNamesTheRunner, RefKept, FreshKept
<1> QED
  BY <1>1, <1>2, <1>3, <1>4, <1>5, <1>6, <1>7, <1>8, <1>9 DEF Next

-----------------------------------------------------------------------------
(* The theorems *)

\* The invariant above holds in every state the extension can reach, whatever the
\* page operations, their tabs and their downloads.
THEOREM PageInvariant == Spec => []Inv
<1>1. Init => Inv
  BY InvInit
<1>2. Inv /\ [Next]_vars => Inv'
  BY InvNext
<1> QED
  BY <1>1, <1>2, PTL DEF Spec

\* Every variable keeps its type.
THEOREM PageTypeCorrect == Spec => []Types
<1>1. Inv => Types
  BY DEF Inv
<1> QED
  BY <1>1, PageInvariant, PTL

\* beginOperatingTarget and finishOperatingTarget: the stored mark is only ever that of
\* the operation that runs, with the tab that was the target when it began, also when it
\* works on another tab, fails, loses its tab or its worker restarts.
THEOREM MarkIsTheRunners == Spec => []MarkNamesTheRunner
<1>1. Inv => MarkNamesTheRunner
  BY DEF Inv
<1> QED
  BY <1>1, PageInvariant, PTL

\* downloadFileTarget: a success is the one download that began with the click and
\* completed, and an error that is not an unknown outcome came before the click.
THEOREM DownloadsAnswerTruly == Spec => []DownloadAnswersTruly
<1>1. Inv => DownloadAnswersTruly
  <2> SUFFICES ASSUME Inv
               PROVE  DownloadAnswersTruly
    OBVIOUS
  <2>1. OpRight(op)
    BY DEF Inv
  <2>2. op.result = "ok" /\ op.watch # "off" => op.begun = {op.guid} /\ op.guid \in op.ended
    BY <2>1 DEF OpRight
  <2>3. op.result = "error" => op.watch = "off"
    BY <2>1 DEF OpRight
  <2> QED
    BY <2>2, <2>3 DEF DownloadAnswersTruly
<1> QED
  BY <1>1, PageInvariant, PTL

\* captureSnapshotForTarget: when a snapshot is returned and the tab has its document
\* still, the background and the document agree on the epoch of its refs.
THEOREM SnapshotsAreUsable == Spec => []SnapshotUsable
<1>1. Inv => SnapshotUsable
  <2> SUFFICES ASSUME Inv, op.stage = "finish", op.result = "ok", op.fresh
               PROVE  refEpoch[op.tab] = op.epoch /\ tab[op.tab].doc.epoch = op.epoch
    BY DEF SnapshotUsable
  <2>1. op.snapshot /\ op.todo = <<>>
    BY DEF Inv, OpRight, Starting
  <2>2. ~Has(op.todo, {"generate"}) /\ ~Has(op.todo, {"store"})
    BY <2>1, EmptyWellFormed
  <2> QED
    BY <2>1, <2>2 DEF Inv, FreshKept
<1> QED
  BY <1>1, PageInvariant, PTL

LEMMA TailDiffers ==
  ASSUME NEW p \in Seq(StepNames), p # <<>>
  PROVE  Tail(p) # p /\ \A s \in Seq(StepNames) : s \o p # Tail(p)
<1>1. Tail(p) # p
  <2>1. Len(Tail(p)) # Len(p)
    OBVIOUS
  <2> QED
    BY <2>1, Zenon
<1>2. ASSUME NEW s \in Seq(StepNames)
      PROVE  s \o p # Tail(p)
  <2>1. Len(s \o p) # Len(Tail(p))
    OBVIOUS
  <2> QED
    BY <2>1, Zenon
<1> QED
  BY <1>1, <1>2

\* The steps that resolve a ref are taken by the content runtime that has it.
LEMMA ResolvingHandles ==
  ASSUME Inv, Next, op.stage = "run", Head(op.todo) \in RefSteps,
         op'.stage = "run", op'.todo = Tail(op.todo), op' # FailsAfterClick(op)
  PROVE  Handles
<1>1. op \in Ops /\ op.todo \in Seq(StepNames) /\ op.todo # <<>>
  BY Running
<1>2. op'.todo # op.todo
  BY <1>1, TailDiffers
<1>3. CASE Prepare \/ PrepareOptions \/ Perform
  BY <1>3 DEF Prepare, PrepareOptions, Perform, Does
<1>4. CASE Verify
  <2>1. CASE op' = [op EXCEPT !.tries = 1, !.todo = <<"prepare", "check">> \o @]
    <3>1. op'.todo = <<"prepare", "check">> \o op.todo
      BY <1>1, <2>1 DEF Ops
    <3>2. <<"prepare", "check">> \in Seq(StepNames)
      BY DEF StepNames
    <3> QED
      BY <1>1, <3>1, <3>2, TailDiffers
  <2> QED
    BY <1>4, <2>1 DEF Verify, Proceeds, AtPoint
<1>5. CASE \/ Enter \/ Check \/ Press \/ Move \/ DragAndDrop \/ Chord \/ Choose \/ AwaitText \/ Shoot
           \/ Resize \/ Listen \/ ClickDownload \/ Loaded \/ Leave \/ AskToNavigate \/ AwaitCommit
           \/ ReadEpoch \/ Generate \/ Compare \/ Store \/ Settled
  BY <1>5 DEF RefSteps, Enter, Check, Press, Move, DragAndDrop, Chord, Choose, AwaitText, Shoot, Resize,
              Listen, ClickDownload, Loaded, Leave, AskToNavigate, AwaitCommit, ReadEpoch, Generate,
              Compare, Store, Settled, Does, Step
<1>6. CASE \/ Mark \/ BeginSync \/ Attach \/ ReadTarget \/ Finish \/ FinishSync
           \/ \E kind \in Kinds : Begin(kind)
  BY <1>6 DEF Mark, BeginSync, Attach, ReadTarget, Finish, FinishSync, Begin
<1>7. CASE DownloadFails \/ \E d \in Downloads : DownloadBegins(d) \/ DownloadCompletes(d)
  BY <1>1, <1>2, <1>7 DEF DownloadFails, DownloadBegins, DownloadCompletes, Unobserved, Ops
<1>8. CASE \E t \in Tabs : Commit(t) \/ CloseTab(t)
  BY <1>1, <1>2, <1>8 DEF Commit, CloseTab, SeesCommit, SeesUrl, Ops
<1>9. CASE UrlChanges \/ PageMoves
  BY <1>1, <1>2, <1>9 DEF UrlChanges, PageMoves, SeesUrl, Ops
<1>10. CASE \/ \E t \in Tabs : StartNavigation(t) \/ Settle(t) \/ DocumentIdle(t) \/ SelectTab(t)
            \/ ReadGone \/ RemoveGone \/ SyncSelection
  BY <1>2, <1>10 DEF StartNavigation, Settle, DocumentIdle, SelectTab, ReadGone, RemoveGone, SyncSelection
<1>11. CASE Restart
  BY <1>11, NoOpIs DEF Restart
<1> QED
  BY <1>3, <1>4, <1>5, <1>6, <1>7, <1>8, <1>9, <1>10, <1>11 DEF Next

\* resolveAriaRef: a ref is resolved only in a document whose snapshots gave it out, and
\* as long as the tab's epoch is the ref's or none.
THEOREM RefsResolveAtHome == Spec => RefsOfTheirDocument
<1> DEFINE Resolved == \A s \in RefSteps :
             Step(s) /\ op'.stage = "run" /\ op'.todo = Tail(op.todo)
               => op.ref \in tab[op.tab].doc.given /\ refEpoch[op.tab] \in {0, op.ref}
<1>1. ASSUME Inv, [Next]_vars
      PROVE  [Resolved]_vars
  <2> SUFFICES ASSUME NEW s \in RefSteps, Step(s), op'.stage = "run", op'.todo = Tail(op.todo), Next
               PROVE  op.ref \in tab[op.tab].doc.given /\ refEpoch[op.tab] \in {0, op.ref}
    BY <1>1
  <2>1. op.stage = "run" /\ Head(op.todo) \in RefSteps
    BY DEF Step
  <2>2. /\ op.watch = "off" /\ Has(op.todo, RefSteps) /\ op.ref # 0 /\ op.tab \in Tabs
        /\ ~Has(op.todo, {"enter"}) /\ op.todo \in Seq(StepNames) /\ op.todo # <<>>
    BY <1>1, <2>1, Running, TailEntersFirst DEF BeforeClick, RefSteps, OpRight
  <2>3. refEpoch[op.tab] \in {0, op.ref}
    BY <1>1, <2>1, <2>2, Running DEF RefKept
  <2>4. op' # FailsAfterClick(op)
    BY <2>2, FailsWell, <1>1, <2>1, Running
  <2>5. Handles
    BY <1>1, <2>1, <2>4, ResolvingHandles
  <2>6. tab[op.tab].doc.epoch = op.ref
    BY <2>1, <2>5 DEF Handles, Resolves
  <2> QED
    BY <1>1, <2>1, <2>2, <2>3, <2>6, Running DEF EpochsGiven, Given
<1> QED
  BY <1>1, PageInvariant, PTL DEF Spec, RefsOfTheirDocument

=============================================================================
